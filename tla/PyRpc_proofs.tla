---------------------------- MODULE PyRpc_proofs ----------------------------
(***************************************************************************)
(* For any number of requests and connections: a request gets only its own *)
(* reply, the table holds exactly what is in flight, and a bound request   *)
(* waits where it sent.                                                    *)
(*                                                                         *)
(* None of the three is inductive.  A reply is matched by id, so the proof *)
(* needs that the ids of started requests differ, which holds because they *)
(* lie below the counter; and that a peer only has requests as they were   *)
(* sent.  The counter itself counts the started requests, so that it never *)
(* leaves Ids.                                                             *)
(***************************************************************************)
EXTENDS PyRpc, FiniteSetTheorems, TLAPS

Started == {c \in Calls : pc[c] # "idle"}

\* The counter counts the requests started, and each has an id of its own.
OwnIds ==
  /\ counter = Cardinality(Started)
  /\ \A c \in Started : id[c] < counter
  /\ \A c, d \in Started : id[c] = id[d] => c = d

\* What a peer has was sent, under the id of the request it belongs to.
WireIsTrue == \A k \in Conns : \A m \in wire[k] : m[2] \in Started /\ m[1] = id[m[2]]

\* From the write on, a bound request keeps to the connection it wrote to.
BoundStays == \A c \in Bound : pc[c] \in {"written", "waiting"} => sentOn[c] = ctx[c]

IInv == TypeOK /\ OwnIds /\ TableIsWhatIsInFlight /\ WireIsTrue /\ RepliesMatch /\ BoundStays

-----------------------------------------------------------------------------

\* The invariant holds before any request is made.
LEMMA InitIInv == Init => IInv
<1> SUFFICES ASSUME Init PROVE IInv
  OBVIOUS
<1>1. Started = {} /\ Cardinality(Started) = 0
  <2>1. Started = {}
    BY DEF Init, Started
  <2> QED
    BY <2>1, FS_EmptySet
<1>2. 0 \in Ids
  BY CallsAreFinite, FS_CardinalityType DEF Ids
<1>3. TypeOK
  BY <1>2 DEF Init, TypeOK
<1>4. OwnIds
  BY <1>1 DEF Init, OwnIds
<1>5. TableIsWhatIsInFlight
  BY DEF Init, TableIsWhatIsInFlight, InFlight
<1>6. WireIsTrue /\ RepliesMatch /\ BoundStays
  BY BoundAreCalls DEF Init, WireIsTrue, RepliesMatch, BoundStays
<1> QED
  BY <1>3, <1>4, <1>5, <1>6 DEF IInv

\* A step that leaves the requests, their ids and the table alone, but for
\* what they wait for, keeps the numbering.
LEMMA KeepsNumbering ==
  ASSUME OwnIds, Started' = Started, UNCHANGED <<id, counter>>
  PROVE  OwnIds'
BY DEF OwnIds

\* However a request in flight ends, the invariant stands: its id leaves the
\* table and nobody else's does.
LEMMA FinishKeepsIInv ==
  ASSUME IInv, NEW c \in Calls, InFlight(c),
         NEW how \in {"replied", "failed", "cancelled"},
         Finish(c, how), UNCHANGED <<id, got, where, counter, net>>
  PROVE  IInv'
<1> USE DEF IInv, where, net
<1>1. TypeOK'
  BY DEF TypeOK, Finish
<1>2. Started' = Started
  BY DEF Started, InFlight, Finish, TypeOK
<1>3. OwnIds'
  BY <1>2, KeepsNumbering
<1>4. TableIsWhatIsInFlight'
  <2>1. \A d \in Calls : InFlight(d)' <=> InFlight(d) /\ d # c
    BY DEF InFlight, Finish, TypeOK
  <2>2. \A i \in Ids : replies'[i] = IF i = id[c] THEN None ELSE replies[i]
    BY DEF Finish, TypeOK
  <2>3. \A d \in Calls : InFlight(d) /\ id[d] = id[c] => d = c
    BY DEF TableIsWhatIsInFlight
  <2>4. ASSUME NEW d \in Calls, InFlight(d)' PROVE replies'[id'[d]] = d
    BY <2>1, <2>2, <2>3, <2>4 DEF TableIsWhatIsInFlight, TypeOK
  <2>5. ASSUME NEW i \in Ids, replies'[i] # None
        PROVE  InFlight(replies[i])' /\ replies'[i] = replies[i] /\ id'[replies[i]] = i
    <3>1. i # id[c] /\ replies'[i] = replies[i]
      BY <2>2, <2>5
    <3>2. replies[i] \in Calls /\ InFlight(replies[i]) /\ id[replies[i]] = i
      BY <3>1, <2>5 DEF TableIsWhatIsInFlight, TypeOK
    <3> QED
      BY <3>1, <3>2, <2>1
  <2> QED
    BY <2>4, <2>5 DEF TableIsWhatIsInFlight, InFlight
<1>5. WireIsTrue'
  BY <1>2 DEF WireIsTrue
<1>6. RepliesMatch'
  BY DEF RepliesMatch, Finish, TypeOK
<1>7. BoundStays'
  BY BoundAreCalls DEF BoundStays, Finish, TypeOK
<1> QED
  BY <1>1, <1>3, <1>4, <1>5, <1>6, <1>7

-----------------------------------------------------------------------------

\* A new request takes an id nobody has, and the first free entry.
LEMMA BeginKeepsIInv ==
  ASSUME IInv, NEW c \in Calls, Begin(c)
  PROVE  IInv'
<1> USE DEF IInv
<1>1. c \notin Started /\ Started' = Started \cup {c}
  BY DEF Begin, Started, TypeOK
<1>2. IsFiniteSet(Started) /\ Started' \in SUBSET Calls /\ IsFiniteSet(Started')
  BY CallsAreFinite, FS_Subset DEF Started
<1>3. counter' = Cardinality(Started')
  BY <1>1, <1>2, FS_AddElement DEF Begin, OwnIds
<1>4. counter \in Nat /\ counter' = counter + 1 /\ counter' \in Ids
  <2>1. counter \in Nat /\ counter' = counter + 1
    BY DEF Begin, TypeOK, Ids
  <2>2. Cardinality(Calls) \in Nat /\ Cardinality(Started') <= Cardinality(Calls)
    BY <1>2, CallsAreFinite, FS_Subset, FS_CardinalityType
  <2> QED
    BY <2>1, <2>2, <1>3 DEF Ids
<1>5. TypeOK'
  BY <1>4 DEF TypeOK, Begin, net
<1>6. \A d \in Started : id'[d] = id[d] /\ id[d] < counter /\ id[d] \in Nat
  <2>1. \A d \in Started : id'[d] = id[d]
    BY <1>1 DEF Begin, TypeOK, Started
  <2>2. Cardinality(Calls) \in Nat
    BY CallsAreFinite, FS_CardinalityType
  <2>3. \A d \in Started : id[d] \in Nat
    BY <2>2 DEF TypeOK, Started, Ids
  <2> QED
    BY <2>1, <2>3 DEF OwnIds
<1>7. id'[c] = counter
  BY DEF Begin, TypeOK
<1>8. OwnIds'
  <2>1. \A d \in Started' : id'[d] < counter'
    BY <1>1, <1>4, <1>6, <1>7
  <2>2. \A d, e \in Started' : id'[d] = id'[e] => d = e
    BY <1>1, <1>4, <1>6, <1>7 DEF OwnIds
  <2> QED
    BY <1>3, <2>1, <2>2 DEF OwnIds
<1>9. TableIsWhatIsInFlight'
  <2>1. \A d \in Calls : InFlight(d)' <=> InFlight(d) \/ d = c
    BY DEF InFlight, Begin, TypeOK
  <2>2. \A d \in Calls : InFlight(d) => d \in Started
    BY DEF InFlight, Started
  <2>3. \A i \in Ids : replies'[i] = IF i = counter THEN c ELSE replies[i]
    BY DEF Begin, TypeOK
  <2>4. ASSUME NEW d \in Calls, InFlight(d)' PROVE replies'[id'[d]] = d
    <3>1. CASE d = c
      BY <3>1, <1>7, <2>3 DEF TypeOK
    <3>2. CASE d # c
      <4>1. InFlight(d) /\ d \in Started
        BY <3>2, <2>1, <2>2, <2>4
      <4>2. id'[d] = id[d] /\ id[d] # counter /\ id[d] \in Ids
        BY <4>1, <1>4, <1>6 DEF TypeOK
      <4> QED
        BY <4>1, <4>2, <2>3 DEF TableIsWhatIsInFlight
    <3> QED
      BY <3>1, <3>2
  <2>5. ASSUME NEW i \in Ids, replies'[i] # None
        PROVE  \/ InFlight(replies[i])' /\ replies'[i] = replies[i] /\ id'[replies[i]] = i
               \/ i = counter /\ replies'[i] = c
    <3>1. CASE i = counter
      BY <3>1, <2>3
    <3>2. CASE i # counter
      <4>1. replies'[i] = replies[i] /\ replies[i] \in Calls
        BY <3>2, <2>3, <2>5 DEF TypeOK
      <4>2. InFlight(replies[i]) /\ id[replies[i]] = i
        BY <4>1, <2>5 DEF TableIsWhatIsInFlight
      <4> QED
        BY <4>1, <4>2, <2>1, <2>2, <1>6
    <3> QED
      BY <3>1, <3>2
  <2> QED
    BY <2>1, <2>4, <2>5, <1>7 DEF TableIsWhatIsInFlight, InFlight
<1>10. WireIsTrue'
  BY <1>1, <1>6 DEF WireIsTrue, Begin, net
<1>11. RepliesMatch'
  BY DEF RepliesMatch, Begin, TypeOK
<1>12. BoundStays'
  BY BoundAreCalls DEF BoundStays, Begin, TypeOK
<1> QED
  BY <1>5, <1>8, <1>9, <1>10, <1>11, <1>12

\* What a peer gets is what the request is.
LEMMA WriteKeepsIInv ==
  ASSUME IInv, NEW c \in Calls, Write(c)
  PROVE  IInv'
<1> USE DEF IInv, request
<1>1. c \in Started /\ Started' = Started
  BY DEF Write, Started, TypeOK
<1>2. Context(c) \in Conns
  BY DEF Write, Alive, Context, TypeOK
<1>3. TypeOK'
  BY <1>2 DEF TypeOK, Write
<1>4. OwnIds'
  BY <1>1, KeepsNumbering DEF Write
<1>5. TableIsWhatIsInFlight'
  <2>1. \A d \in Calls : InFlight(d)' <=> InFlight(d)
    BY DEF InFlight, Write, TypeOK
  <2> QED
    BY <2>1 DEF TableIsWhatIsInFlight, Write, TypeOK
<1>6. WireIsTrue'
  <2> SUFFICES ASSUME NEW k \in Conns, NEW m \in wire'[k]
               PROVE  m[2] \in Started' /\ m[1] = id'[m[2]]
    BY DEF WireIsTrue
  <2>1. m \in wire[k] \/ m = <<id[c], c>>
    BY <1>2 DEF Write, TypeOK
  <2> QED
    BY <2>1, <1>1 DEF WireIsTrue, Write
<1>7. RepliesMatch'
  BY DEF RepliesMatch, Write
<1>8. BoundStays'
  BY BoundAreCalls DEF BoundStays, Write, Context, TypeOK
<1> QED
  BY <1>3, <1>4, <1>5, <1>6, <1>7, <1>8

\* A bound request waits on the connection it wrote to.
LEMMA StartWaitKeepsIInv ==
  ASSUME IInv, NEW c \in Calls, StartWait(c)
  PROVE  IInv'
<1> USE DEF IInv, request, net
<1>1. Started' = Started
  BY DEF StartWait, Started, TypeOK
<1>2. Context(c) \in Conns
  BY DEF StartWait, Alive, Context, TypeOK
<1>3. TypeOK'
  BY <1>2 DEF TypeOK, StartWait
<1>4. OwnIds'
  BY <1>1, KeepsNumbering DEF StartWait
<1>5. TableIsWhatIsInFlight'
  <2>1. \A d \in Calls : InFlight(d)' <=> InFlight(d)
    BY DEF InFlight, StartWait, TypeOK
  <2> QED
    BY <2>1 DEF TableIsWhatIsInFlight, StartWait, TypeOK
<1>6. WireIsTrue' /\ RepliesMatch'
  BY <1>1 DEF WireIsTrue, RepliesMatch, StartWait
<1>7. BoundStays'
  BY BoundAreCalls DEF BoundStays, StartWait, Context, TypeOK
<1> QED
  BY <1>3, <1>4, <1>5, <1>6, <1>7

\* A reply finds its own request in the table, or nobody.
LEMMA AnswerKeepsIInv ==
  ASSUME IInv, NEW k \in Conns, NEW m \in wire[k], Answer(k, m)
  PROVE  IInv'
<1> USE DEF IInv, where, net
<1> DEFINE c == replies[m[1]]
<1>1. m[1] \in Ids /\ m[2] \in Calls /\ m[2] \in Started /\ m[1] = id[m[2]]
  BY DEF WireIsTrue, TypeOK
<1>2. c # None => c \in Calls /\ c = m[2]
  <2>1. c # None => c \in Calls /\ InFlight(c) /\ id[c] = m[1]
    BY <1>1 DEF TableIsWhatIsInFlight, TypeOK
  <2> QED
    BY <1>1, <2>1 DEF OwnIds, InFlight, Started
<1>3. \/ UNCHANGED <<fut, got>>
      \/ /\ c \in Calls
         /\ fut' = [fut EXCEPT ![c] = "set"]
         /\ got' = [got EXCEPT ![c] = c]
  BY <1>2 DEF Answer
<1>4. TypeOK'
  BY <1>3 DEF TypeOK, Answer
<1>5. Started' = Started
  BY DEF Started, Answer
<1>6. OwnIds'
  BY <1>5, KeepsNumbering DEF Answer
<1>7. TableIsWhatIsInFlight'
  BY DEF TableIsWhatIsInFlight, InFlight, Answer
<1>8. WireIsTrue' /\ BoundStays'
  BY <1>5 DEF WireIsTrue, BoundStays, Answer
<1>9. RepliesMatch'
  BY <1>3 DEF RepliesMatch, TypeOK
<1> QED
  BY <1>4, <1>6, <1>7, <1>8, <1>9

\* What happens to a connection, or to the task of a wait, is not about ids.
LEMMA OthersKeepIInv ==
  ASSUME IInv,
         UNCHANGED <<pc, result, request, sentOn, ctx, replies, counter, wire>>,
         TypeOK'
  PROVE  IInv'
BY DEF IInv, request, OwnIds, Started, TableIsWhatIsInFlight, InFlight,
       WireIsTrue, RepliesMatch, BoundStays

\* Every step keeps the invariant.
LEMMA NextIInv == IInv /\ [Next]_vars => IInv'
<1> SUFFICES ASSUME IInv, [Next]_vars PROVE IInv'
  OBVIOUS
<1> TypeOK
  BY DEF IInv
<1>1. ASSUME NEW c \in Calls, Begin(c) PROVE IInv'
  BY <1>1, BeginKeepsIInv
<1>2. ASSUME NEW c \in Calls, Write(c) PROVE IInv'
  BY <1>2, WriteKeepsIInv
<1>3. ASSUME NEW c \in Calls, StartWait(c) PROVE IInv'
  BY <1>3, StartWaitKeepsIInv
<1>4. ASSUME NEW c \in Calls, ContextGone(c) \/ SendFails(c) \/ Dropped(c) PROVE IInv'
  BY <1>4, FinishKeepsIInv DEF ContextGone, SendFails, Dropped, InFlight
<1>5. ASSUME NEW c \in Calls, Cancel(c) PROVE IInv'
  BY <1>5, FinishKeepsIInv DEF Cancel
<1>6. ASSUME NEW c \in Calls, Replied(c) PROVE IInv'
  BY <1>6, FinishKeepsIInv DEF Replied, InFlight
<1>7. ASSUME NEW c \in Calls, InnerDone(c) PROVE IInv'
  <2>1. TypeOK'
    BY <1>7 DEF TypeOK, InnerDone, request, net
  <2> QED
    BY <1>7, <2>1, OthersKeepIInv DEF InnerDone, net
<1>8. ASSUME NEW k \in Conns, NEW m \in wire[k], Answer(k, m) PROVE IInv'
  BY <1>8, AnswerKeepsIInv
<1>9. ASSUME NEW k \in Conns, Dial(k) \/ PingerFails(k) \/ Ends(k) PROVE IInv'
  <2>1. TypeOK'
    BY <1>9 DEF TypeOK, Dial, PingerFails, Ends, request, where
  <2> QED
    BY <1>9, <2>1, OthersKeepIInv DEF Dial, PingerFails, Ends, where
<1>10. ASSUME UNCHANGED vars PROVE IInv'
  <2>1. TypeOK'
    BY <1>10 DEF TypeOK, vars, request, where, net
  <2> QED
    BY <1>10, <2>1, OthersKeepIInv DEF vars, where, net
<1> QED
  BY <1>1, <1>2, <1>3, <1>4, <1>5, <1>6, <1>7, <1>8, <1>9, <1>10 DEF Next

-----------------------------------------------------------------------------

\* The inductive invariant holds in every reachable state.
THEOREM Invariance == Spec => []IInv
  BY InitIInv, NextIInv, PTL DEF Spec

\* Every variable keeps its type; in particular the counter stays in bounds.
THEOREM TypeCorrect == Spec => []TypeOK
<1>1. IInv => TypeOK
  BY DEF IInv
<1> QED
  BY Invariance, <1>1, PTL

\* What a request is given is the reply to itself: `on_msg` matches by id, and
\* no two requests share one, whatever comes late, twice or over whichever
\* connection.
THEOREM OwnReplyOnly == Spec => []RepliesMatch
<1>1. IInv => RepliesMatch
  BY DEF IInv
<1> QED
  BY Invariance, <1>1, PTL

\* `replies` holds the requests in flight and nothing else, however each ends:
\* what the `finally` of rpc_request is for.
THEOREM NoEntryOutlivesItsRequest == Spec => []TableIsWhatIsInFlight
<1>1. IInv => TableIsWhatIsInFlight
  BY DEF IInv
<1> QED
  BY Invariance, <1>1, PTL

\* A request made inside a `wait` never waits on another connection than the
\* one it was sent on.
THEOREM BoundRequestsStay == Spec => []BoundWaitsWhereItSent
<1>1. IInv => BoundWaitsWhereItSent
  BY DEF IInv, BoundStays, BoundWaitsWhereItSent
<1> QED
  BY Invariance, <1>1, PTL

=============================================================================
