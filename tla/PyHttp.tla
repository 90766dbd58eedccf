------------------------------- MODULE PyHttp -------------------------------
(***************************************************************************)
(* The HTTP client of the Python core (truewire_core/http.py): one httpx   *)
(* client shared by every request, opened lazily under `lock` and closed   *)
(* by the owner's exit; a slot per request start, 1/rate apart, behind a   *)
(* FIFO lock; and a bounded retry of what the server did not act on.       *)
(* TsHttp and RustHttp tell only where those of their cores differ.        *)
(*                                                                         *)
(* Each member of Requests is one call of `request()`.  Time is counted in *)
(* ticks: Gap of them are 1/rate, and Gap = 0 is `rate=None`.  How long a  *)
(* retry waits is left open, which covers every backoff and Retry-After.   *)
(*                                                                         *)
(* httpx and the server are external.  An httpx client is closed from the  *)
(* moment its exit is entered, and refuses requests from then on with a    *)
(* RuntimeError; nothing before the first send of a request, nor a 429 or  *)
(* 503 without a redirect, has made the server act.                        *)
(***************************************************************************)
EXTENDS Naturals, FiniteSets, Sequences, SequencesExt

CONSTANTS Requests,     \* the request() calls
          Retry,        \* `retry`
          Replayable,   \* those whose body can be sent twice
          Redirecting,  \* those that follow redirects
          Gap,          \* `1 / rate`, in ticks; 0 when there is no rate
          MaxCloses,    \* bound: how often an exit closes a client
          Owner, None

ASSUME GapIsNat == Gap \in Nat
ASSUME MaxClosesIsNat == MaxCloses \in Nat
ASSUME RetryIsBoolean == Retry \in BOOLEAN
ASSUME OwnerIsNoRequest == Owner \notin Requests /\ None \notin Requests \cup {Owner}

RETRY_ATTEMPTS == 3

\* The httpx clients are numbered as they are opened; 0 is none.
Clients == 0 .. MaxCloses + 1

VARIABLES
  pc,       \* "idle", "entering", "opening", "pacing", "sending", "waiting", "done"
  attempt,  \* `attempt`
  outcome,  \* how the call ended
  acted,    \* history: how often the server may have acted on the request
  looped,   \* history: those a redirect led back to their own URL (RustHttp)
  held,     \* `client`, the local variable of this attempt
  seen,     \* history: `closes` when the attempt got its client
  lock,     \* who holds `lock`
  client,   \* `_client`
  opened,   \* history: how many httpx clients have been opened
  shut,     \* the httpx clients that are closed
  cut,      \* history: those whose closing was cut short
  closes,   \* history: how often an exit has closed a client
  queue,    \* `_pace_lock`: its holder, then its waiters
  due,      \* ticks until `_next_start`, 0 once it has passed
  since     \* history: ticks since the last start, up to Gap

local == <<attempt, held, seen>>
effects == <<acted, looped>>
conn == <<lock, client, opened, shut, cut, closes>>
pace == <<queue, due, since>>
vars == <<pc, outcome, effects, local, conn, pace>>

TypeOK ==
  /\ pc \in [Requests -> {"idle", "entering", "opening", "pacing", "sending", "waiting", "done"}]
  /\ attempt \in [Requests -> 1 .. RETRY_ATTEMPTS]
  /\ outcome \in [Requests -> {"none", "returned", "NetworkError", "RuntimeError", "cancelled",
                           "unprepared"}]
  /\ acted \in [Requests -> 0 .. RETRY_ATTEMPTS]
  /\ looped \subseteq Requests
  /\ held \in [Requests -> Clients]
  /\ seen \in [Requests -> 0 .. MaxCloses]
  /\ lock \in Requests \cup {Owner, None}
  /\ {client, opened} \subseteq Clients
  /\ cut \subseteq shut /\ shut \subseteq Clients
  /\ closes \in 0 .. MaxCloses
  /\ queue \in Seq(Requests)
  /\ due \in 0 .. Gap /\ since \in 0 .. Gap

\* No request yet, and k httpx clients, the last of them in `_client`.
InitWith(k) ==
  /\ pc = [r \in Requests |-> "idle"]
  /\ attempt = [r \in Requests |-> 1]
  /\ outcome = [r \in Requests |-> "none"]
  /\ acted = [r \in Requests |-> 0]
  /\ looped = {}
  /\ held = [r \in Requests |-> 0]
  /\ seen = [r \in Requests |-> 0]
  /\ lock = None
  /\ client = k /\ opened = k
  /\ shut = {} /\ cut = {} /\ closes = 0
  /\ queue = <<>>
  /\ due = 0 /\ since = Gap

Init == InitWith(0)

-----------------------------------------------------------------------------
(* How a request goes on or ends.                                           *)

Running(r) == pc[r] \notin {"idle", "done"}

\* The call ends and its local variables are gone.
Finish(r, how) ==
  /\ pc' = [pc EXCEPT ![r] = "done"]
  /\ outcome' = [outcome EXCEPT ![r] = how]
  /\ attempt' = [attempt EXCEPT ![r] = 1]
  /\ held' = [held EXCEPT ![r] = 0]
  /\ seen' = [seen EXCEPT ![r] = 0]

\* Mutant: attempts are not counted.
LastAttempt_Endless(r) == ~(Retry /\ r \in Replayable)

\* `last`: there is no attempt after this one.
LastAttempt(r) == ~(Retry /\ r \in Replayable) \/ attempt[r] = RETRY_ATTEMPTS

\* It goes on as `where`, with client k.
GoesOn(r, where, k, taken) ==
  /\ pc' = [pc EXCEPT ![r] = where]
  /\ held' = [held EXCEPT ![r] = k]
  /\ seen' = [seen EXCEPT ![r] = taken]
  /\ UNCHANGED <<outcome, attempt>>

Backoff(r) == GoesOn(r, "waiting", held[r], seen[r])

Acts(r, did) ==
  /\ acted' = [acted EXCEPT ![r] = IF did THEN @ + 1 ELSE @]
  /\ UNCHANGED looped

\* The end of `_pace` and `client.request`, which nothing comes between: the
\* slot is taken, and a client that is closed refuses the request.
Launch(r, k, taken) ==
  /\ due' = Gap /\ since' = 0
  /\ \/ k \in shut /\ Finish(r, "RuntimeError")
     \/ k \notin shut /\ GoesOn(r, "sending", k, taken)

\* Mutant: the slot is committed when the request queues for it.
Pace_CommitsFirst(r, k) ==
  \/ /\ Gap = 0 \/ (queue = <<>> /\ due = 0)
     /\ Launch(r, k, closes) /\ UNCHANGED queue
  \/ /\ Gap # 0 /\ (queue # <<>> \/ due # 0)
     /\ GoesOn(r, "pacing", k, closes)
     /\ queue' = Append(queue, r)
     /\ due' = Gap
     /\ UNCHANGED since

\* `_pace`, with the client just got, up to where it first suspends.
Pace(r, k) ==
  \/ /\ Gap = 0 \/ (queue = <<>> /\ due = 0)
     /\ Launch(r, k, closes) /\ UNCHANGED queue
  \/ /\ Gap # 0 /\ (queue # <<>> \/ due # 0)
     /\ GoesOn(r, "pacing", k, closes)
     /\ queue' = Append(queue, r)
     /\ UNCHANGED <<due, since>>

-----------------------------------------------------------------------------
(* request().                                                               *)

Begin(r) ==
  /\ pc[r] = "idle"
  /\ pc' = [pc EXCEPT ![r] = "entering"]
  /\ UNCHANGED <<outcome, effects, local, conn, pace>>

\* Mutant: `client` looks at `_client` without the lock.
TakeClient_Unlocked(r) ==
  /\ pc[r] = "entering"
  /\ \/ client # 0 /\ Pace(r, client) /\ UNCHANGED lock
     \/ /\ client = 0
        /\ pc' = [pc EXCEPT ![r] = "opening"]
        /\ UNCHANGED <<outcome, local, lock, pace>>
  /\ UNCHANGED <<effects, client, opened, shut, cut, closes>>

\* Mutant: a retry keeps the client of the attempt before.
TakeClient_Once(r) ==
  /\ pc[r] = "entering" /\ lock = None
  /\ \/ client # 0 /\ Pace(r, IF held[r] # 0 THEN held[r] ELSE client) /\ UNCHANGED lock
     \/ /\ client = 0
        /\ pc' = [pc EXCEPT ![r] = "opening"]
        /\ lock' = r
        /\ UNCHANGED <<outcome, local, pace>>
  /\ UNCHANGED <<effects, client, opened, shut, cut, closes>>

\* `client`, with the lock: the one there is, or a new one.
TakeClient(r) ==
  /\ pc[r] = "entering" /\ lock = None
  /\ \/ client # 0 /\ Pace(r, client) /\ UNCHANGED lock
     \/ /\ client = 0
        /\ pc' = [pc EXCEPT ![r] = "opening"]
        /\ lock' = r
        /\ UNCHANGED <<outcome, local, pace>>
  /\ UNCHANGED <<effects, client, opened, shut, cut, closes>>

Opened(r) ==
  /\ pc[r] = "opening"
  /\ opened' = opened + 1
  /\ client' = opened'
  /\ lock' = None
  /\ Pace(r, opened')
  /\ UNCHANGED <<effects, shut, cut, closes>>

\* Mutant: a sleep that ends early is not looked at again.
Start_Early(r) ==
  /\ pc[r] = "pacing"
  /\ Head(queue) = r /\ due <= 1
  /\ queue' = Tail(queue)
  /\ Launch(r, held[r], seen[r])
  /\ UNCHANGED <<effects, conn>>

\* The head of the queue finds its slot has come.
Start(r) ==
  /\ pc[r] = "pacing"
  /\ Head(queue) = r /\ due = 0
  /\ queue' = Tail(queue)
  /\ Launch(r, held[r], seen[r])
  /\ UNCHANGED <<effects, conn>>

\* Mutant: a failure to connect is one of the first hop.
Unreached_FirstHop(r, hopped) ==
  /\ pc[r] = "sending" /\ (hopped => r \in Redirecting)
  /\ Acts(r, hopped)
  /\ \/ LastAttempt(r) /\ Finish(r, "NetworkError")
     \/ ~LastAttempt(r) /\ Backoff(r)
  /\ UNCHANGED <<conn, pace>>

\* A connection does not open: the first, or after a redirect the origin's
\* answer asked for.
Unreached(r, hopped) ==
  /\ pc[r] = "sending" /\ (hopped => r \in Redirecting)
  /\ Acts(r, hopped)
  /\ \/ (LastAttempt(r) \/ r \in Redirecting) /\ Finish(r, "NetworkError")
     \/ ~LastAttempt(r) /\ r \notin Redirecting /\ Backoff(r)
  /\ UNCHANGED <<conn, pace>>

\* Any other HTTPError: the server may or may not have acted.
Lost(r, did) ==
  /\ pc[r] = "sending"
  /\ Acts(r, did)
  /\ Finish(r, "NetworkError")
  /\ UNCHANGED <<conn, pace>>

\* A reply: `refused` if it is a 429 or 503, `hopped` if it has a history,
\* `tooLong` if its Retry-After is over the cap.
Answered(r, refused, hopped, tooLong) ==
  /\ pc[r] = "sending" /\ (hopped => r \in Redirecting)
  /\ Acts(r, ~refused \/ hopped)
  /\ LET over == LastAttempt(r) \/ hopped \/ ~refused \/ tooLong
     IN  (over /\ Finish(r, "returned")) \/ (~over /\ Backoff(r))
  /\ UNCHANGED <<conn, pace>>

\* The wait before a retry is over.
Again(r) ==
  /\ pc[r] = "waiting"
  /\ attempt' = [attempt EXCEPT ![r] = @ + 1]
  /\ pc' = [pc EXCEPT ![r] = "entering"]
  /\ UNCHANGED <<outcome, effects, held, seen, conn, pace>>

\* Mutant: a cancelled waiter keeps its place.
Cancel_KeepsPlace(r) ==
  /\ Running(r)
  /\ \E did \in BOOLEAN : (did => pc[r] = "sending") /\ Acts(r, did)
  /\ Finish(r, "cancelled")
  /\ lock' = IF lock = r THEN None ELSE lock
  /\ UNCHANGED <<client, opened, shut, cut, closes, pace>>

\* A waiter for a slot gives up its place, be it the head's.
LeaveQueue(r) ==
  \/ (\A i \in DOMAIN queue : queue[i] # r) /\ UNCHANGED queue
  \/ \E i \in DOMAIN queue : queue[i] = r /\ queue' = RemoveAt(queue, i)

\* The caller is cancelled: the locks it holds or waits for are released.
Cancel(r) ==
  /\ Running(r)
  /\ \E did \in BOOLEAN : (did => pc[r] = "sending") /\ Acts(r, did)
  /\ Finish(r, "cancelled")
  /\ lock' = IF lock = r THEN None ELSE lock
  /\ LeaveQueue(r)
  /\ UNCHANGED <<client, opened, shut, cut, closes, due, since>>

-----------------------------------------------------------------------------
(* The owner's exit, and time.                                              *)

\* `__aexit__` has the lock and closes the client; there may be none.
Close ==
  /\ lock = None /\ client # 0
  /\ closes < MaxCloses
  /\ lock' = Owner
  /\ shut' = shut \cup {client}
  /\ closes' = closes + 1
  /\ UNCHANGED <<pc, outcome, effects, local, client, opened, cut, pace>>

Closed ==
  /\ lock = Owner
  /\ client' = 0
  /\ lock' = None
  /\ UNCHANGED <<pc, outcome, effects, local, opened, shut, cut, closes, pace>>

\* The owner is cancelled in the closing, or the transport fails to close.
CloseCut ==
  /\ lock = Owner
  /\ cut' = cut \cup {client}
  /\ lock' = None
  /\ UNCHANGED <<pc, outcome, effects, local, client, opened, shut, closes, pace>>

Tick ==
  /\ due > 0 \/ since < Gap
  /\ due' = IF due > 0 THEN due - 1 ELSE 0
  /\ since' = IF since < Gap THEN since + 1 ELSE Gap
  /\ UNCHANGED <<pc, outcome, effects, local, conn, queue>>

SendEnds(r) ==
  \/ \E did \in BOOLEAN : Unreached(r, did) \/ Lost(r, did)
  \/ \E refused, hopped, tooLong \in BOOLEAN : Answered(r, refused, hopped, tooLong)

Next ==
  \/ \E r \in Requests :
       \/ Begin(r) \/ TakeClient(r) \/ Opened(r) \/ Start(r)
       \/ SendEnds(r) \/ Again(r) \/ Cancel(r)
  \/ Close \/ Closed \/ CloseCut
  \/ Tick

Spec == Init /\ [][Next]_vars

\* The event loop runs every task that is ready and time passes.  A send
\* ends, if only by httpx's timeout, and so do the opening and the closing of
\* a client.  Nobody need call, cancel or leave.
Fairness ==
  /\ \A r \in Requests :
       /\ WF_vars(TakeClient(r)) /\ WF_vars(Opened(r)) /\ WF_vars(Start(r))
       /\ WF_vars(SendEnds(r)) /\ WF_vars(Again(r))
  /\ WF_vars(Closed \/ CloseCut)
  /\ WF_vars(Tick)

FairSpec == Spec /\ Fairness

-----------------------------------------------------------------------------
(* What must hold.                                                          *)

\* A request the server may have acted on is not sent again, whatever hop or
\* status it failed with, nor is one whose body is spent.  The one exception is
\* Rust's: a redirect back to the request's own URL passes for none (LoopsBack).
NothingActedOnIsSentAgain ==
  \A r \in Requests :
    /\ r \notin looped => acted[r] <= 1 /\ (Running(r) => acted[r] = 0)
    /\ attempt[r] > 1 => Retry /\ r \in Replayable

\* Every httpx client that is open is the one the next exit will close: two
\* first requests, or a request and an exit, never leave one behind.
OpenClientIsReachable ==
  \A k \in 1 .. opened : k \notin shut => k = client

\* An attempt holds a closed client only if an exit came between its getting
\* the client and now, or an exit that closed it before was cut short.
StaleOnlyByLaterExit ==
  \A r \in Requests :
    pc[r] \in {"pacing", "sending"} /\ held[r] \in shut
      => seen[r] < closes \/ held[r] \in cut

\* Requests start at least 1/rate apart, whoever makes them.
StartsAreSpaced ==
  [][\A r \in Requests : pc[r] # "sending" /\ pc'[r] = "sending" => since >= Gap]_vars

\* Who waits has one place in the queue, who gave up has none; and no slot is
\* kept for anyone: once 1/rate has passed the head may start.
PlacesAreGivenBack ==
  /\ \A r \in Requests :
       Cardinality({i \in DOMAIN queue : queue[i] = r}) = IF pc[r] = "pacing" THEN 1 ELSE 0
  /\ since = Gap => due = 0

\* Every request ends, whoever is cancelled in front of it.
RequestsEnd ==
  \A r \in Requests : Running(r) ~> ~Running(r)

\* Whatever fails, the caller is told of it with one of the package's errors.
FailuresAreErrors ==
  \A r \in Requests : outcome[r] # "RuntimeError"

=============================================================================
