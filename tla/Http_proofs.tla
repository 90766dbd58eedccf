----------------------------- MODULE Http_proofs -----------------------------
(***************************************************************************)
(* For any requests, any rate and any number of exits: nothing the server  *)
(* may have acted on is sent again, starts are 1/rate apart, who waits for *)
(* a slot has one place in the queue, and no httpx client is left behind.  *)
(*                                                                         *)
(* What the properties lack to be inductive: who holds the lock and what   *)
(* `_client` is meanwhile (Locked); that the httpx clients number at most  *)
(* one more than the closings (Counted); that what is still to be sent was *)
(* never acted on (Unsent); that the queue lists the pacing requests, each *)
(* once (Lists); and that the next start lies Gap after the last (Slots).  *)
(***************************************************************************)
EXTENDS Http, SequenceTheorems, FiniteSetTheorems, TLAPS

\* Sequence q lists the members of S, each once.
Lists(q, S) ==
  /\ q \in Seq(Requests)
  /\ \A i \in 1 .. Len(q) : q[i] \in S
  /\ \A r \in S : \E i \in 1 .. Len(q) : q[i] = r
  /\ \A i, j \in 1 .. Len(q) : q[i] = q[j] => i = j

Pacing == {r \in Requests : pc[r] = "pacing"}

\* The lock is held by the request that opens a client, of which there is
\* none then, or by the exit that has closed it.
Locked ==
  /\ \A r \in Requests : pc[r] = "opening" <=> lock = r
  /\ lock \in Requests => client = 0
  /\ lock = Owner => client # 0 /\ client \in shut
  /\ lock # Owner /\ client \in shut => client \in cut

\* Only the last httpx client can be in `_client`, and each but that one has
\* been closed by an exit of its own.
Counted ==
  /\ shut \subseteq 1 .. opened
  /\ client # 0 => client = opened
  /\ opened <= closes + 1
  /\ client = 0 \/ client \in shut => opened <= closes

\* An attempt that is under way has a client that was opened, no later than
\* the closings there have been.
HeldWasOpened ==
  \A r \in Requests :
    pc[r] \in {"pacing", "sending"} => held[r] \in 1 .. opened /\ seen[r] <= closes

\* What may yet be sent has not been acted on, unless a redirect led it back
\* (then each attempt before has done so), and what is to be sent again may be.
Unsent ==
  \A r \in Requests :
    /\ r \notin looped => acted[r] <= 1 /\ (pc[r] # "done" => acted[r] = 0)
    /\ pc[r] # "done" => acted[r] <= (IF pc[r] = "waiting" THEN attempt[r] ELSE attempt[r] - 1)
    /\ attempt[r] > 1 \/ pc[r] = "waiting" => Retry /\ r \in Replayable
    /\ pc[r] = "waiting" => attempt[r] < RETRY_ATTEMPTS

Slots == since + due = Gap

IInv ==
  /\ TypeOK
  /\ Locked
  /\ Counted
  /\ HeldWasOpened
  /\ Unsent
  /\ Slots
  /\ Lists(queue, Pacing)
  /\ OpenClientIsReachable
  /\ StaleOnlyByLaterExit

USE GapIsNat, MaxClosesIsNat, RetryIsBoolean, OwnerIsNoRequest
USE DEF GapIsNat, MaxClosesIsNat, RetryIsBoolean, OwnerIsNoRequest,
        RETRY_ATTEMPTS, Clients, local, effects, conn, pace

-----------------------------------------------------------------------------
(* The queue.                                                               *)

\* A request that queues goes last.
LEMMA AppendLists ==
  ASSUME NEW q, NEW S, Lists(q, S), NEW r \in Requests, r \notin S
  PROVE  Lists(Append(q, r), S \cup {r})
<1> DEFINE p == Append(q, r)
<1>1. /\ p \in Seq(Requests) /\ Len(p) = Len(q) + 1 /\ Len(q) \in Nat
      /\ \A i \in 1 .. Len(q) : p[i] = q[i]
      /\ p[Len(q) + 1] = r
  BY AppendProperties, LenProperties DEF Lists
<1>2. \A i \in 1 .. Len(p) : i \in 1 .. Len(q) \/ i = Len(q) + 1
  BY <1>1
<1>3. \A i \in 1 .. Len(p) : p[i] \in S \cup {r}
  BY <1>1, <1>2 DEF Lists
<1>4. \A s \in S \cup {r} : \E i \in 1 .. Len(p) : p[i] = s
  BY <1>1 DEF Lists
<1>5. \A i, j \in 1 .. Len(p) : p[i] = p[j] => i = j
  BY <1>1, <1>2 DEF Lists
<1> QED
  BY <1>1, <1>3, <1>4, <1>5 DEF Lists

\* The head that starts leaves the others their places.
LEMMA TailLists ==
  ASSUME NEW q, NEW S, Lists(q, S), NEW r \in S, Head(q) = r
  PROVE  Lists(Tail(q), S \ {r})
<1> DEFINE p == Tail(q)
<1>1. q # <<>> /\ Len(q) \in Nat
  BY LenProperties, EmptySeq DEF Lists
<1>2. /\ p \in Seq(Requests) /\ Len(p) = Len(q) - 1
      /\ \A i \in 1 .. Len(p) : p[i] = q[i + 1]
  BY <1>1, HeadTailProperties DEF Lists
<1>3. q[1] = r /\ 1 \in 1 .. Len(q)
  BY <1>1, EmptySeq DEF Lists
<1>4. \A i \in 1 .. Len(p) : p[i] \in S \ {r}
  BY <1>1, <1>2, <1>3 DEF Lists
<1>5. ASSUME NEW s \in S \ {r} PROVE \E i \in 1 .. Len(p) : p[i] = s
  <2>1. PICK i \in 1 .. Len(q) : q[i] = s
    BY DEF Lists
  <2>2. i # 1 /\ i - 1 \in 1 .. Len(p) /\ p[i - 1] = s
    BY <1>1, <1>2, <1>3, <2>1
  <2> QED
    BY <2>2
<1>6. \A i, j \in 1 .. Len(p) : p[i] = p[j] => i = j
  BY <1>1, <1>2 DEF Lists
<1> QED
  BY <1>2, <1>4, <1>5, <1>6 DEF Lists

\* So does one that gives up, wherever it stood.
LEMMA RemoveLists ==
  ASSUME NEW q, NEW S, Lists(q, S), NEW k \in 1 .. Len(q)
  PROVE  Lists(RemoveAt(q, k), S \ {q[k]})
<1> DEFINE p == RemoveAt(q, k)
<1>1. Len(q) \in Nat /\ \A i \in 1 .. Len(q) : q[i] \in Requests
  BY LenProperties, ElementOfSeq DEF Lists
<1> DEFINE a == SubSeq(q, 1, k - 1)
           b == SubSeq(q, k + 1, Len(q))
<1>2. a \in Seq(Requests) /\ Len(a) = k - 1 /\ \A i \in 1 .. k - 1 : a[i] = q[i]
  BY <1>1, SubSeqProperties
<1>3. /\ b \in Seq(Requests) /\ Len(b) = Len(q) - k
      /\ \A i \in 1 .. Len(q) - k : b[i] = q[k + i]
  BY <1>1, SubSeqProperties
<1>4. /\ p \in Seq(Requests) /\ Len(p) = Len(q) - 1
      /\ \A i \in 1 .. Len(p) : p[i] = IF i < k THEN q[i] ELSE q[i + 1]
  <2>1. p = a \o b
    BY DEF RemoveAt
  <2> HIDE DEF a, b, p
  <2>2. /\ p \in Seq(Requests) /\ Len(p) = Len(a) + Len(b)
        /\ \A i \in 1 .. Len(a) + Len(b) : p[i] = IF i <= Len(a) THEN a[i] ELSE b[i - Len(a)]
    BY <1>2, <1>3, <2>1, ConcatProperties
  <2>3. Len(p) = Len(q) - 1
    BY <1>1, <1>2, <1>3, <2>2
  <2>4. ASSUME NEW i \in 1 .. Len(p) PROVE p[i] = IF i < k THEN q[i] ELSE q[i + 1]
    <3>1. CASE i < k
      BY <1>1, <1>2, <1>3, <2>2, <2>3, <3>1
    <3>2. CASE ~(i < k)
      <4>1. i - (k - 1) \in 1 .. Len(q) - k
        BY <1>1, <2>3, <3>2
      <4>2. p[i] = b[i - (k - 1)] /\ k + (i - (k - 1)) = i + 1
        BY <1>1, <1>2, <1>3, <2>2, <2>3, <3>2
      <4> QED
        BY <1>3, <3>2, <4>1, <4>2
    <3> QED
      BY <3>1, <3>2
  <2> QED
    BY <2>2, <2>3, <2>4
<1> HIDE DEF p, a, b
<1>5. \A i \in 1 .. Len(p) : p[i] \in S \ {q[k]}
  BY <1>1, <1>4 DEF Lists
<1>6. ASSUME NEW s \in S \ {q[k]} PROVE \E i \in 1 .. Len(p) : p[i] = s
  <2>1. PICK i \in 1 .. Len(q) : q[i] = s
    BY DEF Lists
  <2>2. CASE i < k
    BY <1>1, <1>4, <2>1, <2>2
  <2>3. CASE i > k
    <3>1. i - 1 \in 1 .. Len(p) /\ p[i - 1] = s
      BY <1>1, <1>4, <2>1, <2>3
    <3> QED
      BY <3>1
  <2> QED
    BY <2>1, <2>2, <2>3, <1>1
<1>7. \A i, j \in 1 .. Len(p) : p[i] = p[j] => i = j
  BY <1>1, <1>4 DEF Lists
<1> QED
  BY <1>4, <1>5, <1>6, <1>7 DEF Lists, p

-----------------------------------------------------------------------------
(* What the operators that several actions share preserve.                  *)

\* The part of the invariant that is about requests and slots.
Local ==
  /\ pc \in [Requests -> {"idle", "entering", "opening", "pacing", "sending", "waiting", "done"}]
  /\ attempt \in [Requests -> 1 .. RETRY_ATTEMPTS]
  /\ outcome \in [Requests -> {"none", "returned", "NetworkError", "RuntimeError", "cancelled",
                           "unprepared"}]
  /\ acted \in [Requests -> 0 .. RETRY_ATTEMPTS]
  /\ looped \subseteq Requests
  /\ held \in [Requests -> Clients]
  /\ seen \in [Requests -> 0 .. MaxCloses]
  /\ HeldWasOpened
  /\ Unsent
  /\ StaleOnlyByLaterExit

\* The part that is about the queue and the slots.
Queue ==
  /\ due \in 0 .. Gap /\ since \in 0 .. Gap
  /\ Slots
  /\ Lists(queue, Pacing)

\* The part that is about the httpx clients and the lock.
Transport ==
  /\ lock \in Requests \cup {Owner, None}
  /\ {client, opened} \subseteq Clients
  /\ cut \subseteq shut /\ shut \subseteq Clients
  /\ closes \in 0 .. MaxCloses
  /\ Locked
  /\ Counted
  /\ OpenClientIsReachable

LEMMA Parts ==
  /\ IInv => Local /\ Queue /\ Transport
  /\ Local' /\ Queue' /\ Transport' => IInv'
BY DEF IInv, Local, Queue, Transport, TypeOK, Lists

\* The server acts on request r, which a redirect may have led back.
ActsOn(r) ==
  /\ acted' = [acted EXCEPT ![r] = @ + 1]
  /\ looped' \in {looped, looped \cup {r}}

\* A request that ends leaves nothing to be sent and holds no client.
LEMMA FinishKeepsLocal ==
  ASSUME Local, NEW r \in Requests, pc[r] # "done",
         NEW how \in {"returned", "NetworkError", "RuntimeError", "cancelled", "unprepared"},
         Finish(r, how),
         UNCHANGED effects \/ (ActsOn(r) /\ pc[r] = "sending"),
         UNCHANGED <<opened, shut, cut, closes>>
  PROVE  Local'
<1>1. \A q \in Requests \ {r} :
        pc'[q] = pc[q] /\ attempt'[q] = attempt[q] /\ held'[q] = held[q]
        /\ seen'[q] = seen[q] /\ acted'[q] = acted[q]
        /\ (q \in looped' <=> q \in looped)
  BY DEF Local, Finish, ActsOn
<1>2. /\ pc'[r] = "done" /\ attempt'[r] = 1
      /\ r \notin looped' => acted'[r] <= 1
  BY DEF Local, Finish, Unsent, ActsOn
<1>6. acted' \in [Requests -> 0 .. RETRY_ATTEMPTS] /\ looped' \subseteq Requests
  <2>1. (acted[r] <= attempt[r] - 1 /\ attempt[r] \in 1 .. 3) \/ UNCHANGED effects
    BY DEF Local, Unsent
  <2> QED
    BY <2>1 DEF Local, ActsOn
<1>3. HeldWasOpened'
  BY <1>1, <1>2 DEF Local, HeldWasOpened
<1>4. Unsent'
  BY <1>1, <1>2 DEF Local, Unsent
<1>5. StaleOnlyByLaterExit'
  BY <1>1, <1>2 DEF Local, StaleOnlyByLaterExit
<1>7. /\ pc' \in [Requests -> {"idle", "entering", "opening", "pacing", "sending", "waiting", "done"}]
      /\ attempt' \in [Requests -> 1 .. RETRY_ATTEMPTS]
      /\ outcome' \in [Requests -> {"none", "returned", "NetworkError", "RuntimeError",
                                  "cancelled", "unprepared"}]
      /\ held' \in [Requests -> Clients]
      /\ seen' \in [Requests -> 0 .. MaxCloses]
  BY DEF Local, Finish
<1> QED
  BY <1>3, <1>4, <1>5, <1>6, <1>7 DEF Local

\* A request that goes on with client k, to a place where that client may be.
LEMMA GoesOnKeepsLocal ==
  ASSUME Local, NEW r \in Requests, pc[r] # "done",
         NEW where \in {"pacing", "sending", "waiting"},
         NEW k \in Clients, NEW taken \in 0 .. closes, closes \in 0 .. MaxCloses,
         GoesOn(r, where, k, taken),
         where = "waiting" => ~LastAttempt(r),
         where # "waiting" => k \in 1 .. opened' /\ (k \in shut => taken < closes \/ k \in cut),
         opened \in Nat, opened' \in Nat, opened <= opened',
         where # "waiting" => pc[r] # "waiting",
         \/ UNCHANGED effects
         \/ ActsOn(r) /\ pc[r] = "sending" /\ where = "waiting" /\ r \in looped',
         UNCHANGED <<shut, cut, closes>>
  PROVE  Local'
<1>1. \A q \in Requests \ {r} :
        /\ pc'[q] = pc[q] /\ held'[q] = held[q] /\ seen'[q] = seen[q]
        /\ acted'[q] = acted[q] /\ (q \in looped' <=> q \in looped)
  BY DEF Local, GoesOn, ActsOn
<1>2. pc'[r] = where /\ held'[r] = k /\ seen'[r] = taken
  BY DEF Local, GoesOn
<1>3. taken \in 0 .. MaxCloses
  OBVIOUS
<1>4. HeldWasOpened'
  BY <1>1, <1>2 DEF Local, HeldWasOpened
<1>5. Unsent'
  <2>1. /\ r \notin looped' => acted'[r] = 0
        /\ acted'[r] <= (IF where = "waiting" THEN attempt[r] ELSE attempt[r] - 1)
    BY DEF Local, Unsent, ActsOn
  <2> QED
    BY <1>1, <1>2, <2>1 DEF Local, Unsent, GoesOn, LastAttempt
<1>6. StaleOnlyByLaterExit'
  BY <1>1, <1>2 DEF Local, StaleOnlyByLaterExit
<1>7. acted' \in [Requests -> 0 .. RETRY_ATTEMPTS] /\ looped' \subseteq Requests
  <2>1. (acted[r] <= attempt[r] - 1 /\ attempt[r] \in 1 .. 3) \/ UNCHANGED effects
    BY DEF Local, Unsent
  <2> QED
    BY <2>1 DEF Local, ActsOn
<1> QED
  BY <1>3, <1>4, <1>5, <1>6, <1>7 DEF Local, GoesOn

\* A request that launches takes the slot, whether it is sent or refused.
LEMMA LaunchKeeps ==
  ASSUME Local, NEW r \in Requests, pc[r] \notin {"done", "waiting"},
         NEW k \in Clients, NEW taken \in 0 .. closes, closes \in 0 .. MaxCloses,
         Launch(r, k, taken), k \in 1 .. opened',
         opened \in Nat, opened' \in Nat, opened <= opened',
         UNCHANGED <<effects, shut, cut, closes>>
  PROVE  /\ Local' /\ Slots' /\ due' \in 0 .. Gap /\ since' \in 0 .. Gap
         /\ Pacing' = Pacing \ {r}
         /\ \A q \in Requests : pc'[q] = "opening" <=> pc[q] = "opening" /\ q # r
<1>1. Slots' /\ due' \in 0 .. Gap /\ since' \in 0 .. Gap
  BY DEF Launch, Slots
<1>2. CASE k \in shut /\ Finish(r, "RuntimeError")
  <2>1. /\ pc'[r] = "done"
        /\ \A q \in Requests \ {r} :
             /\ pc'[q] = pc[q] /\ attempt'[q] = attempt[q]
             /\ held'[q] = held[q] /\ seen'[q] = seen[q]
    BY <1>2 DEF Finish, Local
  <2>2. attempt'[r] = 1
    BY <1>2 DEF Finish, Local
  <2>3. HeldWasOpened'
    BY <2>1 DEF Local, HeldWasOpened
  <2>4. Unsent'
    BY <2>1, <2>2 DEF Local, Unsent
  <2>5. StaleOnlyByLaterExit'
    BY <2>1 DEF Local, StaleOnlyByLaterExit
  <2>6. Local'
    BY <1>2, <2>3, <2>4, <2>5 DEF Local, Finish
  <2> QED
    BY <1>1, <2>1, <2>6 DEF Pacing
<1>3. CASE k \notin shut /\ GoesOn(r, "sending", k, taken)
  <2>1. Local'
    BY <1>3, GoesOnKeepsLocal
  <2>2. pc'[r] = "sending" /\ \A q \in Requests \ {r} : pc'[q] = pc[q]
    BY <1>3 DEF GoesOn, Local
  <2> QED
    BY <1>1, <2>1, <2>2 DEF Pacing
<1> QED
  BY <1>2, <1>3 DEF Launch

\* An attempt that has got its client queues.
LEMMA QueuesKeeps ==
  ASSUME Local, Queue, NEW r \in Requests, pc[r] \in {"entering", "opening"},
         NEW k \in Clients, closes \in 0 .. MaxCloses,
         GoesOn(r, "pacing", k, closes), queue' = Append(queue, r),
         k \in 1 .. opened', k \in shut => k \in cut,
         opened \in Nat, opened' \in Nat, opened <= opened',
         UNCHANGED <<effects, due, since, shut, cut, closes>>
  PROVE  /\ Local' /\ Queue'
         /\ \A q \in Requests : pc'[q] = "opening" <=> pc[q] = "opening" /\ q # r
<1>1. closes \in 0 .. closes /\ r \notin Pacing
  BY DEF Pacing
<1>2. Local'
  BY <1>1, GoesOnKeepsLocal
<1>3. pc'[r] = "pacing" /\ \A q \in Requests \ {r} : pc'[q] = pc[q]
  BY DEF GoesOn, Local
<1>4. Pacing' = Pacing \cup {r}
  BY <1>3 DEF Pacing
<1>5. Queue'
  BY <1>1, <1>4, AppendLists DEF Queue, Slots
<1> QED
  BY <1>2, <1>3, <1>5

\* An attempt that has got its client launches or queues.
LEMMA PaceKeeps ==
  ASSUME Local, Queue, NEW r \in Requests, pc[r] \in {"entering", "opening"},
         NEW k \in Clients, closes \in 0 .. MaxCloses,
         Pace(r, k), k \in 1 .. opened', k \in shut => k \in cut,
         opened \in Nat, opened' \in Nat, opened <= opened',
         UNCHANGED <<effects, shut, cut, closes>>
  PROVE  /\ Local' /\ Queue'
         /\ \A q \in Requests : pc'[q] = "opening" <=> pc[q] = "opening" /\ q # r
<1>1. closes \in 0 .. closes
  OBVIOUS
<1>2. r \notin Pacing
  BY DEF Pacing
<1>3. CASE Launch(r, k, closes) /\ UNCHANGED queue
  <2>1. /\ Local' /\ Slots' /\ due' \in 0 .. Gap /\ since' \in 0 .. Gap
        /\ Pacing' = Pacing \ {r}
        /\ \A q \in Requests : pc'[q] = "opening" <=> pc[q] = "opening" /\ q # r
    BY <1>1, <1>3, LaunchKeeps
  <2>2. Pacing' = Pacing
    BY <1>2, <2>1
  <2> QED
    BY <1>3, <2>1, <2>2 DEF Queue
<1>4. CASE /\ GoesOn(r, "pacing", k, closes)
           /\ queue' = Append(queue, r)
           /\ UNCHANGED <<due, since>>
  BY <1>4, QueuesKeeps
<1> QED
  BY <1>3, <1>4 DEF Pace

-----------------------------------------------------------------------------
(* The steps.                                                               *)

\* The invariant holds before any request is made, with or without a client.
LEMMA InitIInv ==
  ASSUME NEW k \in 0 .. 1, InitWith(k)
  PROVE  IInv
<1>1. TypeOK
  BY DEF InitWith, TypeOK
<1>2. Locked /\ Counted /\ HeldWasOpened /\ Unsent /\ Slots
  BY DEF InitWith, Locked, Counted, HeldWasOpened, Unsent, Slots
<1>3. Lists(queue, Pacing)
  BY DEF InitWith, Lists, Pacing
<1>4. OpenClientIsReachable /\ StaleOnlyByLaterExit
  BY DEF InitWith, OpenClientIsReachable, StaleOnlyByLaterExit
<1> QED
  BY <1>1, <1>2, <1>3, <1>4 DEF IInv

\* A step that leaves the lock, the httpx clients and who opens one alone.
LEMMA KeepsTransport ==
  ASSUME Transport, UNCHANGED conn,
         \A q \in Requests : pc'[q] = "opening" <=> pc[q] = "opening"
  PROVE  Transport'
BY DEF Transport, Locked, Counted, OpenClientIsReachable

\* A step that leaves the queue, its slots and who paces alone.
LEMMA KeepsQueue ==
  ASSUME Queue, UNCHANGED pace,
         \A q \in Requests : pc'[q] = "pacing" <=> pc[q] = "pacing"
  PROVE  Queue'
<1>1. Pacing' = Pacing
  BY DEF Pacing
<1> QED
  BY <1>1 DEF Queue, Slots

\* What the server may do with a request.
LEMMA ActsOrNot ==
  ASSUME NEW r \in Requests, acted \in [Requests -> 0 .. RETRY_ATTEMPTS],
         NEW did \in BOOLEAN, Acts(r, did)
  PROVE  IF did THEN ActsOn(r) ELSE UNCHANGED effects
BY DEF Acts, ActsOn

LEMMA BeginKeepsIInv ==
  ASSUME IInv, NEW r \in Requests, Begin(r)
  PROVE  IInv'
<1>1. Local /\ Queue /\ Transport
  BY Parts
<1>2. pc'[r] = "entering" /\ pc[r] = "idle" /\ \A q \in Requests \ {r} : pc'[q] = pc[q]
  BY <1>1 DEF Begin, Local
<1>3. HeldWasOpened' /\ Unsent' /\ StaleOnlyByLaterExit'
  BY <1>1, <1>2 DEF Begin, Local, HeldWasOpened, Unsent, StaleOnlyByLaterExit
<1>4. Local'
  BY <1>1, <1>3 DEF Begin, Local
<1>5. Queue' /\ Transport'
  BY <1>1, <1>2, KeepsQueue, KeepsTransport DEF Begin
<1> QED
  BY <1>4, <1>5, Parts

\* With the lock free, `_client` is open or an exit was cut short.
LEMMA TakeClientKeepsIInv ==
  ASSUME IInv, NEW r \in Requests, TakeClient(r)
  PROVE  IInv'
<1>1. Local /\ Queue /\ Transport
  BY Parts
<1>2. CASE client # 0 /\ Pace(r, client) /\ UNCHANGED lock
  <2>1. client \in 1 .. opened /\ (client \in shut => client \in cut)
    BY <1>1, <1>2 DEF Transport, Counted, Locked, TakeClient
  <2>2. /\ Local' /\ Queue'
        /\ \A q \in Requests : pc'[q] = "opening" <=> pc[q] = "opening" /\ q # r
    BY <1>1, <1>2, <2>1, PaceKeeps DEF TakeClient, Transport
  <2>3. Transport'
    BY <1>1, <1>2, <2>2, KeepsTransport DEF TakeClient
  <2> QED
    BY <2>2, <2>3, Parts
<1>3. CASE /\ client = 0
           /\ pc' = [pc EXCEPT ![r] = "opening"]
           /\ lock' = r
           /\ UNCHANGED <<outcome, local, pace>>
  <2>1. pc'[r] = "opening" /\ pc[r] = "entering" /\ \A q \in Requests \ {r} : pc'[q] = pc[q]
    BY <1>1, <1>3 DEF TakeClient, Local
  <2>2. HeldWasOpened' /\ Unsent' /\ StaleOnlyByLaterExit'
    BY <1>1, <1>3, <2>1 DEF TakeClient, Local, HeldWasOpened, Unsent, StaleOnlyByLaterExit
  <2>3. Local'
    BY <1>1, <1>3, <2>2 DEF TakeClient, Local
  <2>4. Queue'
    BY <1>1, <1>3, <2>1, KeepsQueue
  <2>5. Locked'
    BY <1>1, <1>3, <2>1 DEF TakeClient, Transport, Locked
  <2>6. Counted' /\ OpenClientIsReachable'
    BY <1>1, <1>3 DEF TakeClient, Transport, Counted, OpenClientIsReachable
  <2>7. Transport'
    BY <1>1, <1>3, <2>5, <2>6 DEF TakeClient, Transport
  <2> QED
    BY <2>3, <2>4, <2>7, Parts
<1> QED
  BY <1>2, <1>3 DEF TakeClient

\* A new httpx client is opened only where all before it have been closed.
LEMMA OpenedKeepsIInv ==
  ASSUME IInv, NEW r \in Requests, Opened(r)
  PROVE  IInv'
<1>1. Local /\ Queue /\ Transport
  BY Parts
<1>2. lock = r /\ client = 0 /\ opened <= closes
  BY <1>1 DEF Opened, Transport, Locked, Counted
<1>3. opened' = opened + 1 /\ client' = opened' /\ opened' \in Clients /\ opened \in Nat
  BY <1>1, <1>2 DEF Opened, Transport
<1>4. opened' \notin shut /\ opened' \in 1 .. opened'
  BY <1>1, <1>3 DEF Transport, Counted
<1>5. /\ Local' /\ Queue'
      /\ \A q \in Requests : pc'[q] = "opening" <=> pc[q] = "opening" /\ q # r
  BY <1>1, <1>3, <1>4, PaceKeeps DEF Opened, Transport
<1>6. Locked'
  BY <1>1, <1>2, <1>3, <1>4, <1>5 DEF Opened, Transport, Locked
<1>7. Counted'
  BY <1>1, <1>2, <1>3, <1>4 DEF Opened, Transport, Counted
<1>8. OpenClientIsReachable'
  BY <1>1, <1>2, <1>3 DEF Opened, Transport, OpenClientIsReachable, Counted
<1>9. Transport'
  BY <1>1, <1>3, <1>6, <1>7, <1>8 DEF Opened, Transport
<1> QED
  BY <1>5, <1>9, Parts

\* The head leaves the queue with the slot.
LEMMA StartKeepsIInv ==
  ASSUME IInv, NEW r \in Requests, Start(r)
  PROVE  IInv'
<1>1. Local /\ Queue /\ Transport
  BY Parts
<1>2. r \in Pacing /\ Head(queue) = r /\ queue' = Tail(queue)
  BY DEF Start, Pacing
<1>3. held[r] \in 1 .. opened /\ held[r] \in Clients /\ seen[r] \in 0 .. closes
  BY <1>1 DEF Start, Local, HeldWasOpened, Transport
<1>4. /\ Local' /\ Slots' /\ due' \in 0 .. Gap /\ since' \in 0 .. Gap
      /\ Pacing' = Pacing \ {r}
      /\ \A q \in Requests : pc'[q] = "opening" <=> pc[q] = "opening" /\ q # r
  BY <1>1, <1>3, LaunchKeeps DEF Start, Transport
<1>5. Queue'
  BY <1>1, <1>2, <1>4, TailLists DEF Queue
<1>6. Transport'
  BY <1>1, <1>4, KeepsTransport DEF Start
<1> QED
  BY <1>4, <1>5, <1>6, Parts

\* A send that ends leaves the queue and the httpx clients alone, and is sent
\* again only where the server has not acted.
SendIsOver(r) ==
  /\ pc[r] = "sending" /\ UNCHANGED <<conn, pace>>
  /\ \/ \E how \in {"returned", "NetworkError"}, did \in BOOLEAN :
            Finish(r, how) /\ Acts(r, did)
     \/ Backoff(r) /\ Acts(r, FALSE) /\ ~LastAttempt(r)

\* Rust: a redirect has led back to the URL of the request.
Loops(r) ==
  /\ pc[r] = "sending" /\ UNCHANGED <<conn, pace>>
  /\ ActsOn(r) /\ r \in looped'
  /\ Finish(r, "returned") \/ (Backoff(r) /\ ~LastAttempt(r))

LEMMA SendIsOverKeepsIInv ==
  ASSUME IInv, NEW r \in Requests, SendIsOver(r) \/ Loops(r)
  PROVE  IInv'
<1>1. Local /\ Queue /\ Transport
  BY Parts
<1>2. pc[r] = "sending" /\ UNCHANGED <<conn, pace>>
  BY DEF SendIsOver, Loops
<1>3. acted \in [Requests -> 0 .. RETRY_ATTEMPTS]
  BY <1>1 DEF Local
<1>4. \/ \E how \in {"returned", "NetworkError"} :
            Finish(r, how) /\ (UNCHANGED effects \/ ActsOn(r))
      \/ /\ Backoff(r) /\ ~LastAttempt(r)
         /\ UNCHANGED effects \/ (ActsOn(r) /\ r \in looped')
  BY <1>3, ActsOrNot DEF SendIsOver, Loops
<1>5. CASE \E how \in {"returned", "NetworkError"} :
             Finish(r, how) /\ (UNCHANGED effects \/ ActsOn(r))
  <2>1. PICK how \in {"returned", "NetworkError"} :
          Finish(r, how) /\ (UNCHANGED effects \/ ActsOn(r))
    BY <1>5
  <2>3. Local'
    BY <1>1, <1>2, <2>1, FinishKeepsLocal
  <2>4. pc'[r] = "done" /\ \A q \in Requests \ {r} : pc'[q] = pc[q]
    BY <1>1, <2>1 DEF Finish, Local
  <2> QED
    BY <1>1, <1>2, <2>3, <2>4, KeepsQueue, KeepsTransport, Parts
<1>6. CASE /\ Backoff(r) /\ ~LastAttempt(r)
           /\ UNCHANGED effects \/ (ActsOn(r) /\ r \in looped')
  <2>2. held[r] \in Clients /\ seen[r] \in 0 .. closes
    BY <1>1, <1>2 DEF Local, HeldWasOpened, Transport
  <2>3. Local'
    BY <1>1, <1>2, <1>6, <2>2, GoesOnKeepsLocal DEF Backoff, Transport
  <2>4. pc'[r] = "waiting" /\ \A q \in Requests \ {r} : pc'[q] = pc[q]
    BY <1>1, <1>6 DEF Backoff, GoesOn, Local
  <2> QED
    BY <1>1, <1>2, <2>3, <2>4, KeepsQueue, KeepsTransport, Parts
<1> QED
  BY <1>4, <1>5, <1>6

\* The next attempt is one the request may have.
LEMMA AgainKeepsIInv ==
  ASSUME IInv, NEW r \in Requests, Again(r)
  PROVE  IInv'
<1>1. Local /\ Queue /\ Transport
  BY Parts
<1>2. /\ pc'[r] = "entering" /\ pc[r] = "waiting"
      /\ \A q \in Requests \ {r} : pc'[q] = pc[q] /\ attempt'[q] = attempt[q]
  BY <1>1 DEF Again, Local
<1>3. attempt'[r] = attempt[r] + 1 /\ attempt'[r] \in 1 .. 3 /\ Retry /\ r \in Replayable
  BY <1>1, <1>2 DEF Again, Local, Unsent
<1>4. HeldWasOpened' /\ StaleOnlyByLaterExit'
  BY <1>1, <1>2 DEF Again, Local, HeldWasOpened, StaleOnlyByLaterExit
<1>5. Unsent'
  BY <1>1, <1>2, <1>3 DEF Again, Local, Unsent
<1>6. Local'
  BY <1>1, <1>3, <1>4, <1>5 DEF Again, Local
<1>7. Queue' /\ Transport'
  BY <1>1, <1>2, KeepsQueue, KeepsTransport DEF Again
<1> QED
  BY <1>6, <1>7, Parts

\* Whoever is cancelled, the lock it holds is free and its place is gone.
LEMMA CancelKeepsIInv ==
  ASSUME IInv, NEW r \in Requests, Cancel(r)
  PROVE  IInv'
<1>1. Local /\ Queue /\ Transport
  BY Parts
<1>2. acted \in [Requests -> 0 .. RETRY_ATTEMPTS]
  BY <1>1 DEF Local
<1>3. Local'
  <2>1. UNCHANGED effects \/ (ActsOn(r) /\ pc[r] = "sending")
    BY <1>2, ActsOrNot DEF Cancel
  <2> QED
    BY <1>1, <2>1, FinishKeepsLocal DEF Cancel, Running
<1>4. pc'[r] = "done" /\ \A q \in Requests \ {r} : pc'[q] = pc[q]
  BY <1>1 DEF Cancel, Finish, Local
<1>5. Pacing' = Pacing \ {r}
  BY <1>4 DEF Pacing
<1>6. Queue'
  <2>1. DOMAIN queue = 1 .. Len(queue)
    BY <1>1, LenProperties DEF Queue, Lists
  <2>2. CASE (\A i \in DOMAIN queue : queue[i] # r) /\ UNCHANGED queue
    <3>1. Pacing' = Pacing
      BY <1>1, <1>5, <2>1, <2>2 DEF Queue, Lists
    <3> QED
      BY <1>1, <2>2, <3>1 DEF Cancel, Queue, Slots
  <2>3. CASE \E i \in DOMAIN queue : queue[i] = r /\ queue' = RemoveAt(queue, i)
    <3>1. PICK i \in 1 .. Len(queue) : queue[i] = r /\ queue' = RemoveAt(queue, i)
      BY <2>1, <2>3
    <3>2. Lists(queue', Pacing')
      BY <1>1, <1>5, <3>1, RemoveLists DEF Queue
    <3> QED
      BY <1>1, <3>2 DEF Cancel, Queue, Slots
  <2> QED
    BY <2>2, <2>3 DEF Cancel, LeaveQueue
<1>7. lock' = (IF lock = r THEN None ELSE lock) /\ UNCHANGED <<client, opened, shut, cut, closes>>
  BY DEF Cancel
<1>8. Locked'
  BY <1>1, <1>4, <1>7 DEF Transport, Locked
<1>9. Transport'
  BY <1>1, <1>7, <1>8 DEF Transport, Counted, OpenClientIsReachable
<1> QED
  BY <1>3, <1>6, <1>9, Parts

\* An exit makes the attempts under way older than itself.
LEMMA CloseKeepsIInv ==
  ASSUME IInv, Close
  PROVE  IInv'
<1>1. Local /\ Queue /\ Transport
  BY Parts
<1>2. /\ lock = None /\ client \in 1 .. opened /\ closes < MaxCloses
      /\ lock' = Owner /\ shut' = shut \cup {client} /\ closes' = closes + 1
      /\ UNCHANGED <<pc, outcome, effects, local, client, opened, cut, pace>>
  BY <1>1 DEF Close, Transport, Counted
<1>3. HeldWasOpened' /\ Unsent'
  BY <1>1, <1>2 DEF Local, HeldWasOpened, Unsent, Transport
<1>4. StaleOnlyByLaterExit'
  BY <1>1, <1>2 DEF Local, HeldWasOpened, StaleOnlyByLaterExit, Transport
<1>5. Local'
  BY <1>1, <1>2, <1>3, <1>4 DEF Local
<1>6. Queue'
  BY <1>1, <1>2, KeepsQueue
<1>7. Locked' /\ Counted' /\ OpenClientIsReachable'
  BY <1>1, <1>2 DEF Transport, Locked, Counted, OpenClientIsReachable
<1>8. Transport'
  BY <1>1, <1>2, <1>7 DEF Transport
<1> QED
  BY <1>5, <1>6, <1>8, Parts

\* The end of an exit, one way or the other.
LEMMA ClosedKeepsIInv ==
  ASSUME IInv, Closed \/ CloseCut
  PROVE  IInv'
<1>1. Local /\ Queue /\ Transport
  BY Parts
<1>2. /\ lock = Owner /\ lock' = None /\ client \in shut /\ client # 0
      /\ \/ client' = 0 /\ UNCHANGED cut
         \/ client' = client /\ cut' = cut \cup {client}
      /\ UNCHANGED <<pc, outcome, effects, local, opened, shut, closes, pace>>
  BY <1>1 DEF Closed, CloseCut, Transport, Locked
<1>3. HeldWasOpened' /\ Unsent' /\ StaleOnlyByLaterExit'
  BY <1>1, <1>2 DEF Local, HeldWasOpened, Unsent, StaleOnlyByLaterExit
<1>4. Local'
  BY <1>1, <1>2, <1>3 DEF Local
<1>5. Queue'
  BY <1>1, <1>2, KeepsQueue
<1>6. Locked' /\ Counted' /\ OpenClientIsReachable'
  BY <1>1, <1>2 DEF Transport, Locked, Counted, OpenClientIsReachable
<1>7. Transport'
  <2>1. 0 \in Clients /\ {client', opened'} \subseteq Clients
    BY <1>1, <1>2 DEF Transport
  <2>2. cut' \subseteq shut' /\ shut' \subseteq Clients
    BY <1>1, <1>2 DEF Transport
  <2> QED
    BY <1>1, <1>2, <1>6, <2>1, <2>2 DEF Transport
<1> QED
  BY <1>4, <1>5, <1>7, Parts

LEMMA TickKeepsIInv ==
  ASSUME IInv, Tick
  PROVE  IInv'
<1>1. Local /\ Queue /\ Transport
  BY Parts
<1>2. Local'
  BY <1>1 DEF Tick, Local, HeldWasOpened, Unsent, StaleOnlyByLaterExit
<1>3. Transport'
  BY <1>1, KeepsTransport DEF Tick
<1>4. Queue'
  <2>1. Pacing' = Pacing
    BY DEF Tick, Pacing
  <2> QED
    BY <1>1, <2>1 DEF Tick, Queue, Slots
<1> QED
  BY <1>2, <1>3, <1>4, Parts

-----------------------------------------------------------------------------
(* The other cores, whose client is open from the start.                    *)

Ready == client # 0 /\ lock = None

Queues(r) ==
  /\ pc[r] = "entering"
  /\ GoesOn(r, "pacing", client, closes)
  /\ queue' = Append(queue, r)
  /\ UNCHANGED <<due, since, effects, conn>>

LEMMA QueuesKeepsIInv ==
  ASSUME IInv, Ready, NEW r \in Requests, Queues(r)
  PROVE  IInv' /\ Ready'
<1>1. Local /\ Queue /\ Transport
  BY Parts
<1>2. client \in 1 .. opened /\ (client \in shut => client \in cut) /\ opened \in Nat
  BY <1>1 DEF Ready, Transport, Counted, Locked
<1>3. /\ Local' /\ Queue'
      /\ \A q \in Requests : pc'[q] = "opening" <=> pc[q] = "opening" /\ q # r
  BY <1>1, <1>2, QueuesKeeps DEF Queues, Transport
<1>4. Transport'
  BY <1>1, <1>3, KeepsTransport DEF Queues
<1> QED
  BY <1>3, <1>4, Parts DEF Queues, Ready

Paces(r) ==
  /\ pc[r] = "entering"
  /\ Pace(r, client)
  /\ UNCHANGED <<effects, conn>>

LEMMA PacesKeepsIInv ==
  ASSUME IInv, Ready, NEW r \in Requests, Paces(r)
  PROVE  IInv' /\ Ready'
<1>1. Local /\ Queue /\ Transport
  BY Parts
<1>2. client \in 1 .. opened /\ (client \in shut => client \in cut) /\ opened \in Nat
  BY <1>1 DEF Ready, Transport, Counted, Locked
<1>3. /\ Local' /\ Queue'
      /\ \A q \in Requests : pc'[q] = "opening" <=> pc[q] = "opening" /\ q # r
  BY <1>1, <1>2, PaceKeeps DEF Paces, Transport
<1>4. Transport'
  BY <1>1, <1>3, KeepsTransport DEF Paces
<1> QED
  BY <1>3, <1>4, Parts DEF Paces, Ready

\* An attempt that ends before it is sent, with its slot or without.
Unsendable(r) ==
  /\ \E how \in {"unprepared", "NetworkError"} : Finish(r, how)
  /\ UNCHANGED <<due, since>> \/ (due' = Gap /\ since' = 0)
  /\ UNCHANGED <<effects, conn>>
  /\ \/ pc[r] = "entering" /\ UNCHANGED queue
     \/ pc[r] = "pacing" /\ Head(queue) = r /\ queue' = Tail(queue)

LEMMA UnsendableKeepsIInv ==
  ASSUME IInv, Ready, NEW r \in Requests, Unsendable(r)
  PROVE  IInv' /\ Ready'
<1>1. Local /\ Queue /\ Transport
  BY Parts
<1>2. Local'
  BY <1>1, FinishKeepsLocal DEF Unsendable
<1>3. pc'[r] = "done" /\ \A q \in Requests \ {r} : pc'[q] = pc[q]
  BY <1>1 DEF Unsendable, Finish, Local
<1>4. Pacing' = Pacing \ {r}
  BY <1>3 DEF Pacing
<1>5. Lists(queue', Pacing')
  <2>1. CASE pc[r] = "entering" /\ UNCHANGED queue
    <3>1. Pacing' = Pacing
      BY <1>4, <2>1 DEF Pacing
    <3> QED
      BY <1>1, <2>1, <3>1 DEF Queue
  <2>2. CASE pc[r] = "pacing" /\ Head(queue) = r /\ queue' = Tail(queue)
    <3>1. r \in Pacing
      BY <2>2 DEF Pacing
    <3> QED
      BY <1>1, <1>4, <2>2, <3>1, TailLists DEF Queue
  <2> QED
    BY <2>1, <2>2 DEF Unsendable
<1>6. Queue'
  BY <1>1, <1>5 DEF Unsendable, Queue, Slots
<1>7. Transport'
  BY <1>1, <1>3, KeepsTransport DEF Unsendable
<1> QED
  BY <1>2, <1>6, <1>7, Parts DEF Unsendable, Ready

\* What all three cores do.
Common(r) == Begin(r) \/ Start(r) \/ SendIsOver(r) \/ Loops(r) \/ Again(r) \/ Cancel(r)

LEMMA CommonKeepsIInv ==
  ASSUME IInv, NEW r \in Requests, Common(r)
  PROVE  IInv' /\ (Ready => Ready')
<1>1. IInv'
  BY BeginKeepsIInv, StartKeepsIInv, SendIsOverKeepsIInv, AgainKeepsIInv, CancelKeepsIInv
     DEF Common
<1>2. Ready => Ready'
  BY DEF Common, Ready, Begin, Start, SendIsOver, Loops, Again, Cancel
<1> QED
  BY <1>1, <1>2

-----------------------------------------------------------------------------
(* Every step of each core is one of these.                                 *)

LEMMA PySteps ==
  ASSUME Next
  PROVE  \/ \E r \in Requests : Common(r) \/ TakeClient(r) \/ Opened(r)
         \/ Close \/ Closed \/ CloseCut \/ Tick
<1>1. ASSUME NEW r \in Requests, SendEnds(r) PROVE SendIsOver(r)
  BY <1>1 DEF SendEnds, Unreached, Lost, Answered, SendIsOver
<1> QED
  BY <1>1 DEF Next, Common

LEMMA TsSteps ==
  ASSUME Ts!TsNext
  PROVE  \/ \E r \in Requests : Common(r) \/ Queues(r) \/ Unsendable(r)
         \/ Tick
<1>1. ASSUME NEW r \in Requests, Ts!FetchEnds(r) PROVE SendIsOver(r)
  <2>1. ASSUME NEW did \in BOOLEAN, Ts!FailsToConnect(r, did) PROVE SendIsOver(r)
    <3>1. pc[r] = "sending" /\ UNCHANGED <<conn, pace>> /\ (did /\ r \notin Safe) \in BOOLEAN
      BY <2>1 DEF Ts!FailsToConnect, Ts!effects, Ts!conn, Ts!pace
    <3>2. CASE Ts!Finish(r, "NetworkError")
      <4>1. Finish(r, "NetworkError") /\ Acts(r, did /\ r \notin Safe)
        BY <2>1, <3>2 DEF Ts!FailsToConnect, Ts!Finish, Ts!Acts, Finish, Acts
      <4> QED
        BY <3>1, <4>1 DEF SendIsOver
    <3>3. CASE ~Ts!LastAttempt(r) /\ r \notin Redirecting \ Safe /\ Ts!Backoff(r)
      <4>1. Backoff(r) /\ Acts(r, FALSE) /\ ~LastAttempt(r)
        BY <2>1, <3>3 DEF Ts!FailsToConnect, Ts!LastAttempt, Ts!RETRY_ATTEMPTS, Ts!Backoff,
           Ts!GoesOn, Ts!Acts, LastAttempt, Backoff, GoesOn, Acts
      <4> QED
        BY <3>1, <4>1 DEF SendIsOver
    <3> QED
      BY <2>1, <3>2, <3>3 DEF Ts!FailsToConnect
  <2>2. ASSUME NEW did \in BOOLEAN, Ts!Lost(r, did) PROVE SendIsOver(r)
    BY <2>2 DEF Ts!Lost, Ts!Acts, Ts!Finish, Ts!effects, Ts!conn, Ts!pace, SendIsOver, Acts, Finish
  <2>3. ASSUME NEW refused \in BOOLEAN, NEW hopped \in BOOLEAN, NEW tooLong \in BOOLEAN,
               Ts!Answered(r, refused, hopped, tooLong)
        PROVE  SendIsOver(r)
    <3>1. pc[r] = "sending" /\ UNCHANGED <<conn, pace>> /\ (~refused \/ hopped) \in BOOLEAN
      BY <2>3 DEF Ts!Answered, Ts!effects, Ts!conn, Ts!pace
    <3>2. CASE Ts!Finish(r, "returned")
      <4>1. Finish(r, "returned") /\ Acts(r, ~refused \/ hopped)
        BY <2>3, <3>2 DEF Ts!Answered, Ts!Finish, Ts!Acts, Finish, Acts
      <4> QED
        BY <3>1, <4>1 DEF SendIsOver
    <3>3. CASE ~Ts!LastAttempt(r) /\ ~hopped /\ refused /\ Ts!Backoff(r)
      <4>1. Backoff(r) /\ Acts(r, FALSE) /\ ~LastAttempt(r)
        BY <2>3, <3>3 DEF Ts!Answered, Ts!LastAttempt, Ts!RETRY_ATTEMPTS, Ts!Backoff,
           Ts!GoesOn, Ts!Acts, LastAttempt, Backoff, GoesOn, Acts
      <4> QED
        BY <3>1, <4>1 DEF SendIsOver
    <3> QED
      BY <2>3, <3>2, <3>3 DEF Ts!Answered
  <2> QED
    BY <1>1, <2>1, <2>2, <2>3 DEF Ts!FetchEnds
<1>2. ASSUME NEW r \in Requests, Ts!TakeTurn(r) PROVE Queues(r)
  BY <1>2 DEF Ts!TakeTurn, Ts!GoesOn, Ts!effects, Ts!conn, Queues, GoesOn
<1>3. ASSUME NEW r \in Requests, Ts!PrepareFails(r) PROVE Unsendable(r)
  BY <1>3 DEF Ts!PrepareFails, Ts!Finish, Ts!effects, Ts!conn, Unsendable, Finish
<1>4. ASSUME NEW r \in Requests, Ts!Begin(r) \/ Ts!Start(r) \/ Ts!Again(r) \/ Ts!Cancel(r)
      PROVE  Common(r)
  <2>1. CASE Ts!Begin(r)
    BY <2>1 DEF Common, Ts!Begin, Ts!local, Ts!effects, Ts!conn, Ts!pace, Begin
  <2>2. CASE Ts!Start(r)
    BY <2>2 DEF Common, Ts!Start, Ts!Launch, Ts!Finish, Ts!GoesOn, Ts!effects, Ts!conn,
       Start, Launch, Finish, GoesOn
  <2>3. CASE Ts!Again(r)
    BY <2>3 DEF Common, Ts!Again, Ts!effects, Ts!conn, Ts!pace, Again
  <2>4. CASE Ts!Cancel(r)
    BY <2>4 DEF Common, Ts!Cancel, Ts!Running, Ts!Acts, Ts!Finish, Ts!LeaveQueue, Ts!RemoveAt,
       Cancel, Running, Acts, Finish, LeaveQueue, RemoveAt
  <2> QED
    BY <1>4, <2>1, <2>2, <2>3, <2>4
<1>5. Ts!Tick => Tick
  BY DEF Ts!Tick, Tick, Ts!local, Ts!effects, Ts!conn
<1> QED
  BY <1>1, <1>2, <1>3, <1>4, <1>5 DEF Ts!TsNext, Common

LEMMA RustSteps ==
  ASSUME Rust!RustNext
  PROVE  \/ \E r \in Requests : Common(r) \/ Paces(r) \/ Unsendable(r)
         \/ Tick
<1>1. ASSUME NEW r \in Requests, Rust!ReqwestEnds(r) PROVE SendIsOver(r) \/ Loops(r)
  <2>1. ASSUME NEW did \in BOOLEAN, Rust!FailsToConnect(r, did) PROVE SendIsOver(r)
    <3>1. pc[r] = "sending" /\ UNCHANGED <<conn, pace>> /\ (did /\ r \notin Safe) \in BOOLEAN
      BY <2>1 DEF Rust!FailsToConnect, Rust!effects, Rust!conn, Rust!pace
    <3>2. CASE Rust!Finish(r, "NetworkError")
      <4>1. Finish(r, "NetworkError") /\ Acts(r, did /\ r \notin Safe)
        BY <2>1, <3>2 DEF Rust!FailsToConnect, Rust!Finish, Rust!Acts, Finish, Acts
      <4> QED
        BY <3>1, <4>1 DEF SendIsOver
    <3>3. CASE ~Rust!LastAttempt(r) /\ r \in Safe /\ Rust!Backoff(r)
      <4>1. Backoff(r) /\ Acts(r, FALSE) /\ ~LastAttempt(r)
        BY <2>1, <3>3 DEF Rust!FailsToConnect, Rust!LastAttempt, Rust!RETRY_ATTEMPTS, Rust!Backoff,
           Rust!GoesOn, Rust!Acts, LastAttempt, Backoff, GoesOn, Acts
      <4> QED
        BY <3>1, <4>1 DEF SendIsOver
    <3> QED
      BY <2>1, <3>2, <3>3 DEF Rust!FailsToConnect
  <2>2. ASSUME NEW did \in BOOLEAN, Rust!Lost(r, did) PROVE SendIsOver(r)
    BY <2>2 DEF Rust!Lost, Rust!Acts, Rust!Finish, Rust!effects, Rust!conn, Rust!pace, SendIsOver, Acts, Finish
  <2>3. ASSUME NEW refused \in BOOLEAN, NEW hopped \in BOOLEAN, NEW tooLong \in BOOLEAN,
               Rust!Answered(r, refused, hopped, tooLong)
        PROVE  SendIsOver(r)
    <3>1. pc[r] = "sending" /\ UNCHANGED <<conn, pace>> /\ (~refused \/ hopped) \in BOOLEAN
      BY <2>3 DEF Rust!Answered, Rust!effects, Rust!conn, Rust!pace
    <3>2. CASE Rust!Finish(r, "returned")
      <4>1. Finish(r, "returned") /\ Acts(r, ~refused \/ hopped)
        BY <2>3, <3>2 DEF Rust!Answered, Rust!Finish, Rust!Acts, Finish, Acts
      <4> QED
        BY <3>1, <4>1 DEF SendIsOver
    <3>3. CASE ~Rust!LastAttempt(r) /\ ~hopped /\ refused /\ Rust!Backoff(r)
      <4>1. Backoff(r) /\ Acts(r, FALSE) /\ ~LastAttempt(r)
        BY <2>3, <3>3 DEF Rust!Answered, Rust!LastAttempt, Rust!RETRY_ATTEMPTS, Rust!Backoff,
           Rust!GoesOn, Rust!Acts, LastAttempt, Backoff, GoesOn, Acts
      <4> QED
        BY <3>1, <4>1 DEF SendIsOver
    <3> QED
      BY <2>3, <3>2, <3>3 DEF Rust!Answered
  <2>4. ASSUME NEW refused \in BOOLEAN, NEW tooLong \in BOOLEAN, Rust!LoopsBack(r, refused, tooLong)
        PROVE  Loops(r)
    BY <2>4 DEF Rust!LoopsBack, Rust!LastAttempt, Rust!RETRY_ATTEMPTS, Rust!Finish, Rust!Backoff,
       Rust!GoesOn, Rust!effects, Rust!conn, Rust!pace, Loops, ActsOn, LastAttempt, Finish, Backoff, GoesOn
  <2> QED
    BY <1>1, <2>1, <2>2, <2>3, <2>4 DEF Rust!ReqwestEnds
<1>2. ASSUME NEW r \in Requests, Rust!TakeLock(r) PROVE Paces(r) \/ Unsendable(r)
  BY <1>2 DEF Rust!TakeLock, Rust!Pace, Rust!Launch, Rust!GoesOn, Rust!Spent, Rust!Finish, Rust!effects, Rust!conn,
     Paces, Unsendable, Pace, Launch, GoesOn, Finish
<1>3. ASSUME NEW r \in Requests, Rust!PrepareFails(r) PROVE Unsendable(r)
  BY <1>3 DEF Rust!PrepareFails, Rust!Spent, Rust!Finish, Rust!effects, Rust!conn, Unsendable, Finish
<1>4. ASSUME NEW r \in Requests, Rust!Call(r) \/ Rust!Start(r) \/ Rust!Again(r) \/ Rust!Cancel(r)
      PROVE  Common(r)
  <2>1. CASE Rust!Call(r)
    BY <2>1 DEF Common, Rust!Call, Rust!Begin, Rust!local, Rust!effects, Rust!conn, Rust!pace, Begin
  <2>2. CASE Rust!Start(r)
    BY <2>2 DEF Common, Rust!Start, Rust!Launch, Rust!Finish, Rust!GoesOn, Rust!effects, Rust!conn,
       Start, Launch, Finish, GoesOn
  <2>3. CASE Rust!Again(r)
    BY <2>3 DEF Common, Rust!Again, Rust!effects, Rust!conn, Rust!pace, Again
  <2>4. CASE Rust!Cancel(r)
    BY <2>4 DEF Common, Rust!Cancel, Rust!Running, Rust!Acts, Rust!Finish, Rust!LeaveQueue, Rust!RemoveAt,
       Cancel, Running, Acts, Finish, LeaveQueue, RemoveAt
  <2> QED
    BY <1>4, <2>1, <2>2, <2>3, <2>4
<1>5. Rust!Tick => Tick
  BY DEF Rust!Tick, Tick, Rust!local, Rust!effects, Rust!conn
<1> QED
  BY <1>1, <1>2, <1>3, <1>4, <1>5 DEF Rust!RustNext, Common

\* A client that is open from the start stays so.
HttpIInv ==
  /\ IInv
  /\ core \in {"py", "ts", "rust"}
  /\ core # "py" => Ready

LEMMA HttpInitIInv == HttpInit => HttpIInv
<1> SUFFICES ASSUME HttpInit PROVE HttpIInv
  OBVIOUS
<1>1. PICK k \in 0 .. 1 : InitWith(k) /\ (core # "py" => k = 1) /\ core \in {"py", "ts", "rust"}
  BY DEF HttpInit, Init
<1>2. IInv
  BY <1>1, InitIInv
<1>3. core # "py" => Ready
  BY <1>1 DEF InitWith, Ready
<1> QED
  BY <1>1, <1>2, <1>3 DEF HttpIInv

\* Every step keeps the invariant.
LEMMA HttpNextIInv == HttpIInv /\ [HttpNext]_allvars => HttpIInv'
<1> SUFFICES ASSUME HttpIInv, [HttpNext]_allvars PROVE HttpIInv'
  OBVIOUS
<1>1. IInv /\ (core # "py" => Ready)
  BY DEF HttpIInv
<1>2. ASSUME NEW r \in Requests, Common(r) PROVE IInv' /\ (Ready => Ready')
  BY <1>1, <1>2, CommonKeepsIInv
<1>3. ASSUME Tick PROVE IInv' /\ (Ready => Ready')
  BY <1>1, <1>3, TickKeepsIInv DEF Tick, Ready
<1>4. CASE PyNext /\ UNCHANGED core
  <2>1. Next /\ core = "py"
    BY <1>4 DEF PyNext
  <2>2. ASSUME NEW r \in Requests, TakeClient(r) PROVE IInv'
    BY <1>1, <2>2, TakeClientKeepsIInv
  <2>3. ASSUME NEW r \in Requests, Opened(r) PROVE IInv'
    BY <1>1, <2>3, OpenedKeepsIInv
  <2>4. ASSUME Close \/ Closed \/ CloseCut PROVE IInv'
    BY <1>1, <2>4, CloseKeepsIInv, ClosedKeepsIInv
  <2> QED
    BY <1>2, <1>3, <1>4, <2>1, <2>2, <2>3, <2>4, PySteps DEF HttpIInv
<1>5. CASE TsNext /\ UNCHANGED core
  <2>1. Ts!TsNext /\ core = "ts" /\ Ready
    BY <1>1, <1>5 DEF TsNext
  <2>2. ASSUME NEW r \in Requests, Queues(r) \/ Unsendable(r) PROVE IInv' /\ Ready'
    BY <1>1, <2>1, <2>2, QueuesKeepsIInv, UnsendableKeepsIInv
  <2> QED
    BY <1>2, <1>3, <1>5, <2>1, <2>2, TsSteps DEF HttpIInv
<1>6. CASE RustNext /\ UNCHANGED core
  <2>1. Rust!RustNext /\ core = "rust" /\ Ready
    BY <1>1, <1>6 DEF RustNext
  <2>2. ASSUME NEW r \in Requests, Paces(r) \/ Unsendable(r) PROVE IInv' /\ Ready'
    BY <1>1, <2>1, <2>2, PacesKeepsIInv, UnsendableKeepsIInv
  <2> QED
    BY <1>2, <1>3, <1>6, <2>1, <2>2, RustSteps DEF HttpIInv
<1>7. CASE UNCHANGED allvars
  <2>1. Pacing' = Pacing
    BY <1>7 DEF allvars, vars, Pacing
  <2>2. IInv'
    BY <1>1, <1>7, <2>1 DEF allvars, vars, IInv, TypeOK, Locked, Counted, HeldWasOpened, Unsent,
         Slots, OpenClientIsReachable, StaleOnlyByLaterExit
  <2>3. UNCHANGED <<core, client, lock>>
    BY <1>7 DEF allvars, vars
  <2> QED
    BY <2>2, <2>3 DEF HttpIInv, Ready
<1> QED
  BY <1>4, <1>5, <1>6, <1>7 DEF HttpNext

-----------------------------------------------------------------------------

\* The inductive invariant holds in every reachable state.
THEOREM Invariance == HttpSpec => []IInv
<1>1. HttpSpec => []HttpIInv
  BY HttpInitIInv, HttpNextIInv, PTL DEF HttpSpec
<1>2. HttpIInv => IInv
  BY DEF HttpIInv
<1> QED
  BY <1>1, <1>2, PTL

\* Every variable keeps its type; in particular no request has a fourth
\* attempt, and an httpx client is opened at most once more than one is closed.
THEOREM TypeCorrect == HttpSpec => []TypeOK
<1>1. IInv => TypeOK
  BY DEF IInv
<1> QED
  BY Invariance, <1>1, PTL

\* What the server may have acted on is not sent again, whatever hop or status
\* it failed with: what `last`, `redirects` and `response.history` are for.  A
\* request that a redirect led back to its own URL is not spoken of: Rust tells
\* a redirect by the URL of the reply, and sends it again (LoopsBack).
THEOREM NothingIsRepeated == HttpSpec => []NothingActedOnIsSentAgain
<1>1. IInv => NothingActedOnIsSentAgain
  BY DEF IInv, Unsent, NothingActedOnIsSentAgain, Running
<1> QED
  BY Invariance, <1>1, PTL

\* Every httpx client that is open is the one the next exit closes.
THEOREM NoClientIsLeftBehind == HttpSpec => []OpenClientIsReachable
<1>1. IInv => OpenClientIsReachable
  BY DEF IInv
<1> QED
  BY Invariance, <1>1, PTL

\* An attempt holds a closed client only by an exit later than its start, or
\* one that was cut short.
THEOREM StaleByExitOnly == HttpSpec => []StaleOnlyByLaterExit
<1>1. IInv => StaleOnlyByLaterExit
  BY DEF IInv
<1> QED
  BY Invariance, <1>1, PTL

\* Each waiter has one place in the queue, a cancelled one has none, and no
\* slot is kept for anyone.
THEOREM QueueIsWhoWaits == HttpSpec => []PlacesAreGivenBack
<1>1. IInv => PlacesAreGivenBack
  <2> SUFFICES ASSUME IInv PROVE PlacesAreGivenBack
    OBVIOUS
  <2>1. since = Gap => due = 0
    BY DEF IInv, Slots, TypeOK
  <2>2. DOMAIN queue = 1 .. Len(queue)
    BY LenProperties DEF IInv, TypeOK
  <2>3. ASSUME NEW r \in Requests
        PROVE  Cardinality({i \in DOMAIN queue : queue[i] = r})
                 = IF pc[r] = "pacing" THEN 1 ELSE 0
    <3> DEFINE P == {i \in DOMAIN queue : queue[i] = r}
    <3>1. CASE pc[r] = "pacing"
      <4>1. PICK i \in 1 .. Len(queue) : queue[i] = r
        BY <3>1 DEF IInv, Lists, Pacing
      <4>2. P = {i}
        BY <2>2, <4>1 DEF IInv, Lists
      <4> QED
        BY <3>1, <4>2, FS_Singleton
    <3>2. CASE pc[r] # "pacing"
      <4>1. P = {}
        BY <2>2, <3>2 DEF IInv, Lists, Pacing
      <4> QED
        BY <3>2, <4>1, FS_EmptySet
    <3> QED
      BY <3>1, <3>2
  <2> QED
    BY <2>1, <2>3 DEF PlacesAreGivenBack
<1> QED
  BY Invariance, <1>1, PTL

\* Requests start at least 1/rate apart, whoever makes them and whoever gave
\* up in front of them.
THEOREM StartsSpaced == HttpSpec => StartsAreSpaced
<1> DEFINE Spaced == \A r \in Requests : pc[r] # "sending" /\ pc'[r] = "sending" => since >= Gap
<1>1. IInv /\ [HttpNext]_allvars => [Spaced]_vars
  <2> SUFFICES ASSUME IInv, HttpNext, NEW r \in Requests, pc[r] # "sending", pc'[r] = "sending"
               PROVE  since >= Gap
    BY DEF allvars, vars
  <2>1. ASSUME NEW q \in Requests, Common(q)
        PROVE  due = 0
    BY <2>1 DEF Common, Begin, SendIsOver, Loops, Start, Again, Cancel, Backoff, GoesOn,
         Finish, IInv, TypeOK
  <2>2. ASSUME NEW q \in Requests, TakeClient(q) \/ Opened(q) \/ Paces(q)
        PROVE  due = 0 \/ Gap = 0
    BY <2>2 DEF TakeClient, Opened, Paces, Pace, GoesOn, IInv, TypeOK
  <2>3. ASSUME NEW q \in Requests, Queues(q) \/ Unsendable(q)
        PROVE  FALSE
    BY <2>3 DEF Queues, Unsendable, GoesOn, Finish, IInv, TypeOK
  <2>4. ~(Close \/ Closed \/ CloseCut \/ Tick)
    BY DEF Close, Closed, CloseCut, Tick
  <2>5. due = 0 \/ Gap = 0
    BY <2>1, <2>2, <2>3, <2>4, PySteps, TsSteps, RustSteps DEF HttpNext, PyNext, TsNext, RustNext
  <2> QED
    BY <2>5 DEF IInv, TypeOK, Slots
<1>2. HttpSpec => [][Spaced]_vars
  BY <1>1, Invariance, PTL DEF HttpSpec
<1> QED
  BY <1>2 DEF StartsAreSpaced

=============================================================================
