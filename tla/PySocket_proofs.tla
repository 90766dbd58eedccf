--------------------------- MODULE PySocket_proofs ---------------------------
(***************************************************************************)
(* Safety of PySocket for any number of calls and any number of exits.     *)
(*                                                                         *)
(* IInv is the inductive invariant.  Its first part says how the slot, the *)
(* futures and the tasks fit together; Dooms is what makes ClosedByOwner   *)
(* deserved: a call that may still try again only ever waits for a connect *)
(* that started when the call had already started, under the same owner.   *)
(***************************************************************************)
EXTENDS PySocket, TLAPS

\* An attempt is pending exactly while its call dials; a call that has not
\* dialed has made none, and a dial has a connection only once it has ended.
AttemptsOfCalls ==
  \A c \in Calls : /\ fut[c] = "pending" => pc[c] = "dialing"
                   /\ pc[c] \in {"idle", "joining", "closing"} => fut[c] = "none"
                   /\ ws[c] # "none" => fut[c] \in {"ok", "closedByOwner", "failed"}
                   /\ fut[c] \in {"ok", "closedByOwner"} => ws[c] # "none"
                   /\ closed[c] => fut[c] = "ok"

\* `_ctx_future` never holds a failed attempt or a closed connection, and a
\* connection that left it is closed.
SlotHoldsLiveWork ==
  /\ cur # None => /\ fut[cur] \in {"pending", "ok"}
                   /\ fut[cur] = "ok" => ~closed[cur] /\ seen[cur] = exits
  /\ \A a \in Calls : fut[a] = "ok" => closed[a] \/ cur = a

\* What `on` stands for, by where its task is.
OnIsMeant ==
  /\ \A c \in Calls : pc[c] = "joining" => on[c] \in Calls /\ fut[on[c]] # "none"
  /\ \A t \in Tasks : pc[t] \in {"closing", "hangingUp"} =>
                        on[t] \in Calls /\ fut[on[t]] = "ok" /\ closed[on[t]]
  /\ \A t \in Tasks : pc[t] = "discarding" =>
                        t \in Calls /\ on[t] = t /\ fut[t] = "closedByOwner"
  /\ \A c \in Calls : outcome[c] = "connected" => on[c] \in Calls /\ fut[on[c]] = "ok"
  /\ \A c \in Calls : pc[c] \in {"done", "hangingUp"} <=> outcome[c] # "none"
  /\ pc[Owner] \in {"idle", "closing"}

\* A dial that may doom a call whose joined connect has ended, or that has
\* tried again, started no earlier than that call.
Dooms ==
  /\ \A c \in Calls : seen[c] <= exits
  /\ \A c \in Calls : fut[c] = "closedByOwner" => seen[c] < exits
  /\ \A c, d \in Calls :
       /\ pc[d] = "dialing"
       /\ \/ pc[c] = "closing"
          \/ pc[c] = "joining" /\ (fut[on[c]] = "pending" => retried[c])
       => seen[c] <= seen[d]
  /\ \A c \in Calls : pc[c] = "joining" /\ retried[c] => seen[c] <= seen[on[c]]

IInv ==
  /\ TypeOK
  /\ OneDialInFlight
  /\ AttemptsOfCalls
  /\ SlotHoldsLiveWork
  /\ OnIsMeant
  /\ Dooms
  /\ ClosedByOwnerIsDeserved
  /\ DetachedIsBeingClosed
  /\ ClosedByOneTask

USE OwnerIsNoCall, NoneIsNoCall, MaxExitsIsNat
USE DEF OwnerIsNoCall, NoneIsNoCall, MaxExitsIsNat, call, slot, conn

-----------------------------------------------------------------------------

LEMMA InitInv == Init => IInv
  BY DEF Init, IInv, TypeOK, Tasks, PCs, Futures, Outcomes, OneDialInFlight,
         AttemptsOfCalls, SlotHoldsLiveWork, OnIsMeant, Dooms,
         ClosedByOwnerIsDeserved, DetachedIsBeingClosed, ClosedByOneTask, Closing

-----------------------------------------------------------------------------
(* The four ways `_open` may go, for a call that has just (re)read `_exits`. *)

ParamsFit(c, r, p) ==
  /\ pc[c] \in {"idle", "joining", "closing"}
  /\ pc[c] = "closing" => ws[on[c]] = "closed"
  /\ r \in BOOLEAN /\ p \in BOOLEAN
  /\ r => \A d \in Calls : pc[d] = "dialing" => exits <= seen[d]
  /\ exits' = exits
  /\ seen' = [seen EXCEPT ![c] = exits]
  /\ retried' = [retried EXCEPT ![c] = r]
  /\ replaced' = [replaced EXCEPT ![c] = p]

LEMMA JoinInv ==
  ASSUME IInv, NEW c \in Calls, NEW r, NEW p, ParamsFit(c, r, p), Join(c)
  PROVE  IInv'
<1> USE DEF IInv, TypeOK, Tasks, ParamsFit, Join, Suspend, Locked
<1>1. TypeOK'
  BY DEF PCs, Futures, Outcomes
<1>2. OneDialInFlight' /\ AttemptsOfCalls' /\ SlotHoldsLiveWork'
  BY DEF OneDialInFlight, AttemptsOfCalls, SlotHoldsLiveWork, OnIsMeant
<1>3. OnIsMeant'
  BY DEF AttemptsOfCalls, SlotHoldsLiveWork, OnIsMeant, OneDialInFlight
<1>4. Dooms' /\ ClosedByOwnerIsDeserved'
  BY DEF OneDialInFlight, AttemptsOfCalls, SlotHoldsLiveWork, OnIsMeant, Dooms, ClosedByOwnerIsDeserved
<1>5. DetachedIsBeingClosed'
  BY DEF OneDialInFlight, AttemptsOfCalls, SlotHoldsLiveWork, OnIsMeant, DetachedIsBeingClosed, Held, Abandoned, Closing
<1>6. ClosedByOneTask'
  BY DEF AttemptsOfCalls, SlotHoldsLiveWork, OnIsMeant, ClosedByOneTask, Closing
<1> QED
  BY <1>1, <1>2, <1>3, <1>4, <1>5, <1>6

LEMMA ReuseInv ==
  ASSUME IInv, NEW c \in Calls, NEW r, NEW p, ParamsFit(c, r, p), Reuse(c)
  PROVE  IInv'
<1> USE DEF IInv, TypeOK, Tasks, ParamsFit, Reuse, Suspend, Finish, Alive, Locked
<1>1. TypeOK'
  BY DEF PCs, Futures, Outcomes
<1>2. OneDialInFlight' /\ AttemptsOfCalls' /\ SlotHoldsLiveWork'
  BY DEF OneDialInFlight, AttemptsOfCalls, SlotHoldsLiveWork, OnIsMeant
<1>3. OnIsMeant'
  BY DEF AttemptsOfCalls, SlotHoldsLiveWork, OnIsMeant, OneDialInFlight
<1>4. Dooms' /\ ClosedByOwnerIsDeserved'
  BY DEF OneDialInFlight, AttemptsOfCalls, SlotHoldsLiveWork, OnIsMeant, Dooms, ClosedByOwnerIsDeserved
<1>5. DetachedIsBeingClosed'
  BY DEF OneDialInFlight, AttemptsOfCalls, SlotHoldsLiveWork, OnIsMeant, DetachedIsBeingClosed, Held, Abandoned, Closing
<1>6. ClosedByOneTask'
  BY DEF AttemptsOfCalls, SlotHoldsLiveWork, OnIsMeant, ClosedByOneTask, Closing
<1> QED
  BY <1>1, <1>2, <1>3, <1>4, <1>5, <1>6

LEMMA ReplaceInv ==
  ASSUME IInv, NEW c \in Calls, NEW r, NEW p, ParamsFit(c, r, p), Replace(c)
  PROVE  IInv'
<1> USE DEF IInv, TypeOK, Tasks, ParamsFit, Replace, Suspend, StartClose, SendClose, Locked
<1>1. TypeOK'
  BY DEF PCs, Futures, Outcomes
<1>2. OneDialInFlight' /\ AttemptsOfCalls' /\ SlotHoldsLiveWork'
  BY DEF OneDialInFlight, AttemptsOfCalls, SlotHoldsLiveWork, OnIsMeant
<1>3. OnIsMeant'
  BY DEF AttemptsOfCalls, SlotHoldsLiveWork, OnIsMeant, OneDialInFlight
<1>4. Dooms' /\ ClosedByOwnerIsDeserved'
  BY DEF OneDialInFlight, AttemptsOfCalls, SlotHoldsLiveWork, OnIsMeant, Dooms, ClosedByOwnerIsDeserved
<1>5. DetachedIsBeingClosed'
  BY DEF OneDialInFlight, AttemptsOfCalls, SlotHoldsLiveWork, OnIsMeant, DetachedIsBeingClosed, Held, Abandoned, Closing
<1>6. ClosedByOneTask'
  BY DEF AttemptsOfCalls, SlotHoldsLiveWork, OnIsMeant, ClosedByOneTask, Closing
<1> QED
  BY <1>1, <1>2, <1>3, <1>4, <1>5, <1>6

LEMMA StartDialInv ==
  ASSUME IInv, NEW c \in Calls, NEW r, NEW p, ParamsFit(c, r, p), StartDial(c)
  PROVE  IInv'
<1> USE DEF IInv, TypeOK, Tasks, ParamsFit, StartDial, Suspend, Locked
<1>1. TypeOK'
  BY DEF PCs, Futures, Outcomes
<1>2. OneDialInFlight' /\ AttemptsOfCalls' /\ SlotHoldsLiveWork'
  BY DEF OneDialInFlight, AttemptsOfCalls, SlotHoldsLiveWork, OnIsMeant
<1>3. OnIsMeant'
  BY DEF AttemptsOfCalls, SlotHoldsLiveWork, OnIsMeant, OneDialInFlight
<1>4. Dooms' /\ ClosedByOwnerIsDeserved'
  BY DEF OneDialInFlight, AttemptsOfCalls, SlotHoldsLiveWork, OnIsMeant, Dooms, ClosedByOwnerIsDeserved
<1>5. DetachedIsBeingClosed'
  BY DEF OneDialInFlight, AttemptsOfCalls, SlotHoldsLiveWork, OnIsMeant, DetachedIsBeingClosed, Held, Abandoned, Closing
<1>6. ClosedByOneTask'
  BY DEF AttemptsOfCalls, SlotHoldsLiveWork, OnIsMeant, ClosedByOneTask, Closing
<1> QED
  BY <1>1, <1>2, <1>3, <1>4, <1>5, <1>6

LEMMA EnterInv ==
  ASSUME IInv, NEW c \in Calls, NEW r, NEW p, ParamsFit(c, r, p),
         Join(c) \/ Reuse(c) \/ Replace(c) \/ StartDial(c)
  PROVE  IInv'
BY JoinInv, ReuseInv, ReplaceInv, StartDialInv

\* A call that waited for a connect or a handshake raises.
LEMMA RaiseInv ==
  ASSUME IInv, NEW c \in Calls, NEW result \in {"closedByOwner", "failed"},
         pc[c] = "joining" \/ (pc[c] = "closing" /\ ws[on[c]] = "closed"),
         result = "closedByOwner" => seen[c] < exits,
         Finish(c, result, None), UNCHANGED <<call, slot, exits, conn>>
  PROVE  IInv'
<1> USE DEF IInv, TypeOK, Tasks, Suspend, Finish
<1>1. TypeOK'
  BY DEF PCs, Futures, Outcomes
<1>2. OneDialInFlight' /\ AttemptsOfCalls' /\ SlotHoldsLiveWork'
  BY DEF OneDialInFlight, AttemptsOfCalls, SlotHoldsLiveWork, OnIsMeant
<1>3. OnIsMeant'
  BY DEF AttemptsOfCalls, SlotHoldsLiveWork, OnIsMeant, OneDialInFlight
<1>4. Dooms' /\ ClosedByOwnerIsDeserved'
  BY DEF OneDialInFlight, AttemptsOfCalls, SlotHoldsLiveWork, OnIsMeant, Dooms, ClosedByOwnerIsDeserved
<1>5. DetachedIsBeingClosed'
  BY DEF OneDialInFlight, AttemptsOfCalls, SlotHoldsLiveWork, OnIsMeant, DetachedIsBeingClosed, Held, Abandoned, Closing
<1>6. ClosedByOneTask'
  BY DEF AttemptsOfCalls, SlotHoldsLiveWork, OnIsMeant, ClosedByOneTask, Closing
<1> QED
  BY <1>1, <1>2, <1>3, <1>4, <1>5, <1>6

\* The call saw the exit, or the exit came before the connect it joined last.
LEMMA AfterCloseInv ==
  ASSUME IInv, NEW c \in Calls,
         \/ pc[c] = "closing" /\ ws[on[c]] = "closed"
         \/ pc[c] = "joining" /\ fut[on[c]] = "ok",
         AfterClose(c), UNCHANGED <<seen, exits>>
  PROVE  IInv'
<1>1. CASE exits # seen[c] /\ Finish(c, "closedByOwner", None)
           /\ UNCHANGED <<retried, replaced, slot, conn>>
  <2>1. seen[c] < exits
    BY <1>1 DEF IInv, Dooms, TypeOK
  <2> QED
    BY <1>1, <2>1, RaiseInv
<1>2. CASE Finish(c, "failed", None) /\ UNCHANGED <<retried, replaced, slot, conn>>
  BY <1>2, RaiseInv
<1>3. CASE exits = seen[c] /\ Enter(c, retried[c], TRUE)
  <2>1. ParamsFit(c, retried[c], TRUE)
    BY <1>3 DEF IInv, TypeOK, Tasks, Dooms, ParamsFit, Enter
  <2> QED
    BY <1>3, <2>1, EnterInv DEF Enter
<1> QED
  BY <1>1, <1>2, <1>3 DEF AfterClose

LEMMA OpenInv ==
  ASSUME IInv, NEW c \in Calls, Open(c)
  PROVE  IInv'
<1>1. ParamsFit(c, FALSE, FALSE)
  BY DEF ParamsFit, Open, Enter
<1> QED
  BY <1>1, EnterInv DEF Open, Enter

LEMMA DialedInv ==
  ASSUME IInv, NEW c \in Calls, Dialed(c)
  PROVE  IInv'
<1> USE DEF IInv, TypeOK, Tasks, Dialed, Connected, Suspend, Finish
<1>1. CASE exits = seen[c]
  <2> USE <1>1
  <2>1. TypeOK'
    <3>1. /\ pc' \in [Tasks -> PCs]
       /\ on' \in [Tasks -> Calls \cup {None}]
       /\ outcome' \in [Calls -> Outcomes]
      BY DEF PCs, Outcomes
    <3>2. /\ fut' \in [Calls -> Futures]
       /\ cur' \in Calls \cup {None}
       /\ exits' \in Nat
      BY DEF Futures
    <3>3. /\ ws' \in [Calls -> {"none", "open", "closing", "closed"}]
       /\ served' \in [Calls -> BOOLEAN]
       /\ closed' \in [Calls -> BOOLEAN]
      OBVIOUS
    <3> QED
      BY <3>1, <3>2, <3>3
  <2>2. OneDialInFlight'
    BY DEF OneDialInFlight, AttemptsOfCalls, SlotHoldsLiveWork, OnIsMeant
  <2>3. AttemptsOfCalls'
    BY DEF OneDialInFlight, AttemptsOfCalls, SlotHoldsLiveWork, OnIsMeant
  <2>4. SlotHoldsLiveWork'
    BY DEF OneDialInFlight, AttemptsOfCalls, SlotHoldsLiveWork, OnIsMeant
  <2>5. OnIsMeant'
    BY DEF AttemptsOfCalls, SlotHoldsLiveWork, OnIsMeant, OneDialInFlight
  <2>6. Dooms' /\ ClosedByOwnerIsDeserved'
    BY DEF OneDialInFlight, AttemptsOfCalls, SlotHoldsLiveWork, OnIsMeant, Dooms, ClosedByOwnerIsDeserved
  <2>7. DetachedIsBeingClosed'
    BY DEF OneDialInFlight, AttemptsOfCalls, SlotHoldsLiveWork, OnIsMeant, DetachedIsBeingClosed, Held, Abandoned, Closing
  <2>8. ClosedByOneTask'
    BY DEF OneDialInFlight, AttemptsOfCalls, SlotHoldsLiveWork, OnIsMeant, ClosedByOneTask, Closing
  <2> QED
    BY <2>1, <2>2, <2>3, <2>4, <2>5, <2>6, <2>7, <2>8
<1>2. CASE exits # seen[c]
  <2> USE <1>2
  <2>1. TypeOK'
    <3>1. /\ pc' \in [Tasks -> PCs]
       /\ on' \in [Tasks -> Calls \cup {None}]
       /\ outcome' \in [Calls -> Outcomes]
      BY DEF PCs, Outcomes
    <3>2. /\ fut' \in [Calls -> Futures]
       /\ cur' \in Calls \cup {None}
       /\ exits' \in Nat
      BY DEF Futures
    <3>3. /\ ws' \in [Calls -> {"none", "open", "closing", "closed"}]
       /\ served' \in [Calls -> BOOLEAN]
       /\ closed' \in [Calls -> BOOLEAN]
      OBVIOUS
    <3> QED
      BY <3>1, <3>2, <3>3
  <2>2. OneDialInFlight'
    BY DEF OneDialInFlight, AttemptsOfCalls, SlotHoldsLiveWork, OnIsMeant
  <2>3. AttemptsOfCalls'
    BY DEF OneDialInFlight, AttemptsOfCalls, SlotHoldsLiveWork, OnIsMeant
  <2>4. SlotHoldsLiveWork'
    BY DEF OneDialInFlight, AttemptsOfCalls, SlotHoldsLiveWork, OnIsMeant
  <2>5. OnIsMeant'
    BY DEF AttemptsOfCalls, SlotHoldsLiveWork, OnIsMeant, OneDialInFlight
  <2>6. Dooms' /\ ClosedByOwnerIsDeserved'
    BY DEF OneDialInFlight, AttemptsOfCalls, SlotHoldsLiveWork, OnIsMeant, Dooms, ClosedByOwnerIsDeserved
  <2>7. DetachedIsBeingClosed'
    BY DEF OneDialInFlight, AttemptsOfCalls, SlotHoldsLiveWork, OnIsMeant, DetachedIsBeingClosed, Held, Abandoned, Closing
  <2>8. ClosedByOneTask'
    BY DEF OneDialInFlight, AttemptsOfCalls, SlotHoldsLiveWork, OnIsMeant, ClosedByOneTask, Closing
  <2> QED
    BY <2>1, <2>2, <2>3, <2>4, <2>5, <2>6, <2>7, <2>8
<1> QED
  BY <1>1, <1>2

LEMMA UndialInv ==
  ASSUME IInv, NEW c \in Calls, NEW result \in {"failed", "cancelled"}, Undial(c, result)
  PROVE  IInv'
<1> USE DEF IInv, TypeOK, Tasks, Undial, Suspend, Finish
<1>1. TypeOK'
  BY DEF PCs, Futures, Outcomes
<1>2. OneDialInFlight' /\ AttemptsOfCalls' /\ SlotHoldsLiveWork'
  BY DEF OneDialInFlight, AttemptsOfCalls, SlotHoldsLiveWork, OnIsMeant
<1>3. OnIsMeant'
  BY DEF AttemptsOfCalls, SlotHoldsLiveWork, OnIsMeant, OneDialInFlight
<1>4. Dooms' /\ ClosedByOwnerIsDeserved'
  BY DEF OneDialInFlight, AttemptsOfCalls, SlotHoldsLiveWork, OnIsMeant, Dooms, ClosedByOwnerIsDeserved
<1>5. DetachedIsBeingClosed'
  BY DEF OneDialInFlight, AttemptsOfCalls, SlotHoldsLiveWork, OnIsMeant, DetachedIsBeingClosed, Held, Abandoned, Closing
<1>6. ClosedByOneTask'
  BY DEF AttemptsOfCalls, SlotHoldsLiveWork, OnIsMeant, ClosedByOneTask, Closing
<1> QED
  BY <1>1, <1>2, <1>3, <1>4, <1>5, <1>6

LEMMA WakeConnectedInv ==
  ASSUME IInv, NEW c \in Calls, WakeConnected(c)
  PROVE  IInv'
<1> USE DEF WakeConnected
<1>1. CASE closed[on[c]] /\ AfterClose(c)
  BY <1>1, AfterCloseInv
<1>2. CASE Alive(on[c]) /\ Finish(c, "connected", on[c]) /\ UNCHANGED <<retried, replaced, slot, conn>>
  <2> USE <1>2 DEF IInv, TypeOK, Tasks, Suspend, Finish
  <2>1. TypeOK' /\ OneDialInFlight' /\ AttemptsOfCalls' /\ SlotHoldsLiveWork' /\ OnIsMeant'
    BY DEF PCs, Outcomes, OneDialInFlight, AttemptsOfCalls, SlotHoldsLiveWork, OnIsMeant
  <2>2. Dooms' /\ ClosedByOwnerIsDeserved'
    BY DEF Dooms, OnIsMeant, ClosedByOwnerIsDeserved
  <2>3. DetachedIsBeingClosed' /\ ClosedByOneTask'
    BY DEF OnIsMeant, DetachedIsBeingClosed, Held, Abandoned, Closing, ClosedByOneTask
  <2> QED
    BY <2>1, <2>2, <2>3
<1>3. CASE ~closed[on[c]] /\ StartClose(c, "closing", on[c]) /\ UNCHANGED <<retried, replaced>>
  <2>1. cur = on[c]
    BY <1>3 DEF IInv, OnIsMeant, SlotHoldsLiveWork
  <2> USE <1>3, <2>1 DEF IInv, TypeOK, Tasks, Suspend, StartClose, SendClose
  <2>2. TypeOK' /\ OneDialInFlight' /\ AttemptsOfCalls' /\ SlotHoldsLiveWork'
    BY DEF PCs, OneDialInFlight, AttemptsOfCalls, SlotHoldsLiveWork, OnIsMeant
  <2>3. OnIsMeant'
    BY DEF OnIsMeant, AttemptsOfCalls, SlotHoldsLiveWork
  <2>4. Dooms' /\ ClosedByOwnerIsDeserved'
    BY DEF Dooms, OneDialInFlight, OnIsMeant, ClosedByOwnerIsDeserved
  <2>5. DetachedIsBeingClosed'
    BY DEF OnIsMeant, DetachedIsBeingClosed, Held, Abandoned, Closing
  <2>6. ClosedByOneTask'
    BY DEF OnIsMeant, ClosedByOneTask, Closing
  <2> QED
    BY <2>2, <2>3, <2>4, <2>5, <2>6
<1> QED
  BY <1>1, <1>2, <1>3

\* Here ClosedByOwner is deserved: the attempt joined on the second try was
\* dialed for the owner the call saw, and has been doomed by a later exit.
LEMMA WakeClosedByOwnerInv ==
  ASSUME IInv, NEW c \in Calls, WakeClosedByOwner(c)
  PROVE  IInv'
<1> USE DEF WakeClosedByOwner
<1>1. CASE retried[c] \/ exits # seen[c]
  <2>1. seen[c] < exits
    BY <1>1 DEF IInv, TypeOK, Dooms, OnIsMeant
  <2> QED
    BY <1>1, <2>1, RaiseInv
<1>2. CASE ~retried[c] /\ exits = seen[c]
  <2>1. ParamsFit(c, TRUE, replaced[c])
    BY <1>2 DEF IInv, TypeOK, Tasks, Dooms, ParamsFit, Enter
  <2> QED
    BY <1>2, <2>1, EnterInv DEF Enter
<1> QED
  BY <1>1, <1>2 DEF IInv, TypeOK

LEMMA WakeFailedInv ==
  ASSUME IInv, NEW c \in Calls, WakeFailed(c)
  PROVE  IInv'
BY RaiseInv DEF WakeFailed

LEMMA CancelJoinInv ==
  ASSUME IInv, NEW c \in Calls, CancelJoin(c)
  PROVE  IInv'
<1> USE DEF IInv, TypeOK, Tasks, CancelJoin, Suspend, Finish
<1>1. TypeOK'
  BY DEF PCs, Futures, Outcomes
<1>2. OneDialInFlight' /\ AttemptsOfCalls' /\ SlotHoldsLiveWork'
  BY DEF OneDialInFlight, AttemptsOfCalls, SlotHoldsLiveWork, OnIsMeant
<1>3. OnIsMeant'
  BY DEF AttemptsOfCalls, SlotHoldsLiveWork, OnIsMeant, OneDialInFlight
<1>4. Dooms' /\ ClosedByOwnerIsDeserved'
  BY DEF OneDialInFlight, AttemptsOfCalls, SlotHoldsLiveWork, OnIsMeant, Dooms, ClosedByOwnerIsDeserved
<1>5. DetachedIsBeingClosed'
  BY DEF OneDialInFlight, AttemptsOfCalls, SlotHoldsLiveWork, OnIsMeant, DetachedIsBeingClosed, Held, Abandoned, Closing
<1>6. ClosedByOneTask'
  BY DEF AttemptsOfCalls, SlotHoldsLiveWork, OnIsMeant, ClosedByOneTask, Closing
<1> QED
  BY <1>1, <1>2, <1>3, <1>4, <1>5, <1>6

LEMMA CancelCloseInv ==
  ASSUME IInv, NEW c \in Calls, CancelClose(c)
  PROVE  IInv'
<1> USE DEF IInv, TypeOK, Tasks, CancelClose, Suspend, Finish
<1>1. TypeOK'
  BY DEF PCs, Futures, Outcomes
<1>2. OneDialInFlight' /\ AttemptsOfCalls' /\ SlotHoldsLiveWork'
  BY DEF OneDialInFlight, AttemptsOfCalls, SlotHoldsLiveWork, OnIsMeant
<1>3. OnIsMeant'
  BY DEF AttemptsOfCalls, SlotHoldsLiveWork, OnIsMeant, OneDialInFlight
<1>4. Dooms' /\ ClosedByOwnerIsDeserved'
  BY DEF OneDialInFlight, AttemptsOfCalls, SlotHoldsLiveWork, OnIsMeant, Dooms, ClosedByOwnerIsDeserved
<1>5. DetachedIsBeingClosed'
  BY DEF OneDialInFlight, AttemptsOfCalls, SlotHoldsLiveWork, OnIsMeant, DetachedIsBeingClosed, Held, Abandoned, Closing
<1>6. ClosedByOneTask'
  BY DEF AttemptsOfCalls, SlotHoldsLiveWork, OnIsMeant, ClosedByOneTask, Closing
<1> QED
  BY <1>1, <1>2, <1>3, <1>4, <1>5, <1>6

LEMMA DiscardedInv ==
  ASSUME IInv, NEW c \in Calls, Discarded(c)
  PROVE  IInv'
<1> USE DEF IInv, TypeOK, Tasks, Discarded, Suspend, Finish
<1>1. TypeOK'
  BY DEF PCs, Futures, Outcomes
<1>2. OneDialInFlight' /\ AttemptsOfCalls' /\ SlotHoldsLiveWork'
  BY DEF OneDialInFlight, AttemptsOfCalls, SlotHoldsLiveWork, OnIsMeant
<1>3. OnIsMeant'
  BY DEF AttemptsOfCalls, SlotHoldsLiveWork, OnIsMeant, OneDialInFlight
<1>4. Dooms' /\ ClosedByOwnerIsDeserved'
  BY DEF OneDialInFlight, AttemptsOfCalls, SlotHoldsLiveWork, OnIsMeant, Dooms, ClosedByOwnerIsDeserved
<1>5. DetachedIsBeingClosed'
  BY DEF OneDialInFlight, AttemptsOfCalls, SlotHoldsLiveWork, OnIsMeant, DetachedIsBeingClosed, Held, Abandoned, Closing
<1>6. ClosedByOneTask'
  BY DEF AttemptsOfCalls, SlotHoldsLiveWork, OnIsMeant, ClosedByOneTask, Closing
<1> QED
  BY <1>1, <1>2, <1>3, <1>4, <1>5, <1>6

LEMMA CancelDiscardInv ==
  ASSUME IInv, NEW c \in Calls, CancelDiscard(c)
  PROVE  IInv'
<1> USE DEF IInv, TypeOK, Tasks, CancelDiscard, Suspend, Finish
<1>1. TypeOK'
  BY DEF PCs, Futures, Outcomes
<1>2. OneDialInFlight' /\ AttemptsOfCalls' /\ SlotHoldsLiveWork'
  BY DEF OneDialInFlight, AttemptsOfCalls, SlotHoldsLiveWork, OnIsMeant
<1>3. OnIsMeant'
  BY DEF AttemptsOfCalls, SlotHoldsLiveWork, OnIsMeant, OneDialInFlight
<1>4. Dooms' /\ ClosedByOwnerIsDeserved'
  BY DEF OneDialInFlight, AttemptsOfCalls, SlotHoldsLiveWork, OnIsMeant, Dooms, ClosedByOwnerIsDeserved
<1>5. DetachedIsBeingClosed'
  BY DEF OneDialInFlight, AttemptsOfCalls, SlotHoldsLiveWork, OnIsMeant, DetachedIsBeingClosed, Held, Abandoned, Closing
<1>6. ClosedByOneTask'
  BY DEF AttemptsOfCalls, SlotHoldsLiveWork, OnIsMeant, ClosedByOneTask, Closing
<1> QED
  BY <1>1, <1>2, <1>3, <1>4, <1>5, <1>6

LEMMA HangUpInv ==
  ASSUME IInv, NEW c \in Calls, HangUp(c)
  PROVE  IInv'
<1> USE DEF IInv, TypeOK, Tasks, HangUp, StartClose, SendClose, Suspend
<1>1. TypeOK'
  BY DEF PCs, Futures, Outcomes
<1>2. OneDialInFlight' /\ AttemptsOfCalls' /\ SlotHoldsLiveWork'
  BY DEF OneDialInFlight, AttemptsOfCalls, SlotHoldsLiveWork, OnIsMeant
<1>3. OnIsMeant'
  BY DEF AttemptsOfCalls, SlotHoldsLiveWork, OnIsMeant, OneDialInFlight
<1>4. Dooms' /\ ClosedByOwnerIsDeserved'
  BY DEF OneDialInFlight, AttemptsOfCalls, SlotHoldsLiveWork, OnIsMeant, Dooms, ClosedByOwnerIsDeserved
<1>5. DetachedIsBeingClosed'
  BY DEF OneDialInFlight, AttemptsOfCalls, SlotHoldsLiveWork, OnIsMeant, DetachedIsBeingClosed, Held, Abandoned, Closing
<1>6. ClosedByOneTask'
  BY DEF AttemptsOfCalls, SlotHoldsLiveWork, OnIsMeant, ClosedByOneTask, Closing
<1> QED
  BY <1>1, <1>2, <1>3, <1>4, <1>5, <1>6

LEMMA HungUpInv ==
  ASSUME IInv, NEW c \in Calls, HungUp(c)
  PROVE  IInv'
<1> USE DEF IInv, TypeOK, Tasks, HungUp, Suspend, Finish
<1>1. TypeOK'
  BY DEF PCs, Futures, Outcomes
<1>2. OneDialInFlight' /\ AttemptsOfCalls' /\ SlotHoldsLiveWork'
  BY DEF OneDialInFlight, AttemptsOfCalls, SlotHoldsLiveWork, OnIsMeant
<1>3. OnIsMeant'
  BY DEF AttemptsOfCalls, SlotHoldsLiveWork, OnIsMeant, OneDialInFlight
<1>4. Dooms' /\ ClosedByOwnerIsDeserved'
  BY DEF OneDialInFlight, AttemptsOfCalls, SlotHoldsLiveWork, OnIsMeant, Dooms, ClosedByOwnerIsDeserved
<1>5. DetachedIsBeingClosed'
  BY DEF OneDialInFlight, AttemptsOfCalls, SlotHoldsLiveWork, OnIsMeant, DetachedIsBeingClosed, Held, Abandoned, Closing
<1>6. ClosedByOneTask'
  BY DEF AttemptsOfCalls, SlotHoldsLiveWork, OnIsMeant, ClosedByOneTask, Closing
<1> QED
  BY <1>1, <1>2, <1>3, <1>4, <1>5, <1>6

LEMMA CancelHangUpInv ==
  ASSUME IInv, NEW c \in Calls, CancelHangUp(c)
  PROVE  IInv'
<1> USE DEF IInv, TypeOK, Tasks, CancelHangUp, Suspend, Finish
<1>1. TypeOK'
  BY DEF PCs, Futures, Outcomes
<1>2. OneDialInFlight' /\ AttemptsOfCalls' /\ SlotHoldsLiveWork'
  BY DEF OneDialInFlight, AttemptsOfCalls, SlotHoldsLiveWork, OnIsMeant
<1>3. OnIsMeant'
  BY DEF AttemptsOfCalls, SlotHoldsLiveWork, OnIsMeant, OneDialInFlight
<1>4. Dooms' /\ ClosedByOwnerIsDeserved'
  BY DEF OneDialInFlight, AttemptsOfCalls, SlotHoldsLiveWork, OnIsMeant, Dooms, ClosedByOwnerIsDeserved
<1>5. DetachedIsBeingClosed'
  BY DEF OneDialInFlight, AttemptsOfCalls, SlotHoldsLiveWork, OnIsMeant, DetachedIsBeingClosed, Held, Abandoned, Closing
<1>6. ClosedByOneTask'
  BY DEF AttemptsOfCalls, SlotHoldsLiveWork, OnIsMeant, ClosedByOneTask, Closing
<1> QED
  BY <1>1, <1>2, <1>3, <1>4, <1>5, <1>6

\* The exit takes what is in use out of the slot, so nothing dialed for the
\* owner that leaves is left in it.
LEMMA ExitInv ==
  ASSUME IInv, Exit
  PROVE  IInv'
<1> USE DEF IInv, TypeOK, Tasks, Exit, Locked, StartClose, SendClose, Suspend
<1>1. CASE cur # None /\ ~Locked
  <2> USE <1>1
  <2>1. TypeOK'
    <3>1. /\ pc' \in [Tasks -> PCs]
       /\ on' \in [Tasks -> Calls \cup {None}]
       /\ outcome' \in [Calls -> Outcomes]
      BY DEF PCs, Outcomes
    <3>2. /\ fut' \in [Calls -> Futures]
       /\ cur' \in Calls \cup {None}
       /\ exits' \in Nat
      BY DEF Futures
    <3>3. /\ ws' \in [Calls -> {"none", "open", "closing", "closed"}]
       /\ served' \in [Calls -> BOOLEAN]
       /\ closed' \in [Calls -> BOOLEAN]
      OBVIOUS
    <3> QED
      BY <3>1, <3>2, <3>3
  <2>2. OneDialInFlight'
    BY DEF OneDialInFlight, AttemptsOfCalls, SlotHoldsLiveWork, OnIsMeant
  <2>3. AttemptsOfCalls'
    BY DEF OneDialInFlight, AttemptsOfCalls, SlotHoldsLiveWork, OnIsMeant
  <2>4. SlotHoldsLiveWork'
    BY DEF OneDialInFlight, AttemptsOfCalls, SlotHoldsLiveWork, OnIsMeant
  <2>5. OnIsMeant'
    BY DEF AttemptsOfCalls, SlotHoldsLiveWork, OnIsMeant, OneDialInFlight
  <2>6. Dooms' /\ ClosedByOwnerIsDeserved'
    BY DEF OneDialInFlight, AttemptsOfCalls, SlotHoldsLiveWork, OnIsMeant, Dooms, ClosedByOwnerIsDeserved
  <2>7. DetachedIsBeingClosed'
    BY DEF OneDialInFlight, AttemptsOfCalls, SlotHoldsLiveWork, OnIsMeant, DetachedIsBeingClosed, Held, Abandoned, Closing
  <2>8. ClosedByOneTask'
    BY DEF OneDialInFlight, AttemptsOfCalls, SlotHoldsLiveWork, OnIsMeant, ClosedByOneTask, Closing
  <2> QED
    BY <2>1, <2>2, <2>3, <2>4, <2>5, <2>6, <2>7, <2>8
<1>2. CASE ~(cur # None /\ ~Locked)
  <2> USE <1>2
  <2>1. TypeOK'
    <3>1. /\ pc' \in [Tasks -> PCs]
       /\ on' \in [Tasks -> Calls \cup {None}]
       /\ outcome' \in [Calls -> Outcomes]
      BY DEF PCs, Outcomes
    <3>2. /\ fut' \in [Calls -> Futures]
       /\ cur' \in Calls \cup {None}
       /\ exits' \in Nat
      BY DEF Futures
    <3>3. /\ ws' \in [Calls -> {"none", "open", "closing", "closed"}]
       /\ served' \in [Calls -> BOOLEAN]
       /\ closed' \in [Calls -> BOOLEAN]
      OBVIOUS
    <3> QED
      BY <3>1, <3>2, <3>3
  <2>2. OneDialInFlight'
    BY DEF OneDialInFlight, AttemptsOfCalls, SlotHoldsLiveWork, OnIsMeant
  <2>3. AttemptsOfCalls'
    BY DEF OneDialInFlight, AttemptsOfCalls, SlotHoldsLiveWork, OnIsMeant
  <2>4. SlotHoldsLiveWork'
    BY DEF OneDialInFlight, AttemptsOfCalls, SlotHoldsLiveWork, OnIsMeant
  <2>5. OnIsMeant'
    BY DEF AttemptsOfCalls, SlotHoldsLiveWork, OnIsMeant, OneDialInFlight
  <2>6. Dooms' /\ ClosedByOwnerIsDeserved'
    BY DEF OneDialInFlight, AttemptsOfCalls, SlotHoldsLiveWork, OnIsMeant, Dooms, ClosedByOwnerIsDeserved
  <2>7. DetachedIsBeingClosed'
    BY DEF OneDialInFlight, AttemptsOfCalls, SlotHoldsLiveWork, OnIsMeant, DetachedIsBeingClosed, Held, Abandoned, Closing
  <2>8. ClosedByOneTask'
    BY DEF OneDialInFlight, AttemptsOfCalls, SlotHoldsLiveWork, OnIsMeant, ClosedByOneTask, Closing
  <2> QED
    BY <2>1, <2>2, <2>3, <2>4, <2>5, <2>6, <2>7, <2>8
<1> QED
  BY <1>1, <1>2

LEMMA OwnerClosedInv ==
  ASSUME IInv, OwnerClosed
  PROVE  IInv'
<1> USE DEF IInv, TypeOK, Tasks, OwnerClosed, Suspend
<1>1. TypeOK'
  BY DEF PCs, Futures, Outcomes
<1>2. OneDialInFlight' /\ AttemptsOfCalls' /\ SlotHoldsLiveWork'
  BY DEF OneDialInFlight, AttemptsOfCalls, SlotHoldsLiveWork, OnIsMeant
<1>3. OnIsMeant'
  BY DEF AttemptsOfCalls, SlotHoldsLiveWork, OnIsMeant, OneDialInFlight
<1>4. Dooms' /\ ClosedByOwnerIsDeserved'
  BY DEF OneDialInFlight, AttemptsOfCalls, SlotHoldsLiveWork, OnIsMeant, Dooms, ClosedByOwnerIsDeserved
<1>5. DetachedIsBeingClosed'
  BY DEF OneDialInFlight, AttemptsOfCalls, SlotHoldsLiveWork, OnIsMeant, DetachedIsBeingClosed, Held, Abandoned, Closing
<1>6. ClosedByOneTask'
  BY DEF AttemptsOfCalls, SlotHoldsLiveWork, OnIsMeant, ClosedByOneTask, Closing
<1> QED
  BY <1>1, <1>2, <1>3, <1>4, <1>5, <1>6

LEMMA CancelOwnerInv ==
  ASSUME IInv, CancelOwner
  PROVE  IInv'
<1> USE DEF IInv, TypeOK, Tasks, CancelOwner, Suspend
<1>1. TypeOK'
  BY DEF PCs, Futures, Outcomes
<1>2. OneDialInFlight' /\ AttemptsOfCalls' /\ SlotHoldsLiveWork'
  BY DEF OneDialInFlight, AttemptsOfCalls, SlotHoldsLiveWork, OnIsMeant
<1>3. OnIsMeant'
  BY DEF AttemptsOfCalls, SlotHoldsLiveWork, OnIsMeant, OneDialInFlight
<1>4. Dooms' /\ ClosedByOwnerIsDeserved'
  BY DEF OneDialInFlight, AttemptsOfCalls, SlotHoldsLiveWork, OnIsMeant, Dooms, ClosedByOwnerIsDeserved
<1>5. DetachedIsBeingClosed'
  BY DEF OneDialInFlight, AttemptsOfCalls, SlotHoldsLiveWork, OnIsMeant, DetachedIsBeingClosed, Held, Abandoned, Closing
<1>6. ClosedByOneTask'
  BY DEF AttemptsOfCalls, SlotHoldsLiveWork, OnIsMeant, ClosedByOneTask, Closing
<1> QED
  BY <1>1, <1>2, <1>3, <1>4, <1>5, <1>6

LEMMA LostInv ==
  ASSUME IInv, NEW a \in Calls, Lost(a)
  PROVE  IInv'
<1> USE DEF IInv, TypeOK, Tasks, Lost
<1>1. TypeOK'
  BY DEF PCs, Futures, Outcomes
<1>2. OneDialInFlight' /\ AttemptsOfCalls' /\ SlotHoldsLiveWork'
  BY DEF OneDialInFlight, AttemptsOfCalls, SlotHoldsLiveWork, OnIsMeant
<1>3. OnIsMeant'
  BY DEF AttemptsOfCalls, SlotHoldsLiveWork, OnIsMeant, OneDialInFlight
<1>4. Dooms' /\ ClosedByOwnerIsDeserved'
  BY DEF OneDialInFlight, AttemptsOfCalls, SlotHoldsLiveWork, OnIsMeant, Dooms, ClosedByOwnerIsDeserved
<1>5. DetachedIsBeingClosed'
  BY DEF OneDialInFlight, AttemptsOfCalls, SlotHoldsLiveWork, OnIsMeant, DetachedIsBeingClosed, Held, Abandoned, Closing
<1>6. ClosedByOneTask'
  BY DEF AttemptsOfCalls, SlotHoldsLiveWork, OnIsMeant, ClosedByOneTask, Closing
<1> QED
  BY <1>1, <1>2, <1>3, <1>4, <1>5, <1>6

LEMMA UnservedInv ==
  ASSUME IInv, NEW a \in Calls, Unserved(a)
  PROVE  IInv'
<1> USE DEF IInv, TypeOK, Tasks, Unserved
<1>1. TypeOK'
  BY DEF PCs, Futures, Outcomes
<1>2. OneDialInFlight' /\ AttemptsOfCalls' /\ SlotHoldsLiveWork'
  BY DEF OneDialInFlight, AttemptsOfCalls, SlotHoldsLiveWork, OnIsMeant
<1>3. OnIsMeant'
  BY DEF AttemptsOfCalls, SlotHoldsLiveWork, OnIsMeant, OneDialInFlight
<1>4. Dooms' /\ ClosedByOwnerIsDeserved'
  BY DEF OneDialInFlight, AttemptsOfCalls, SlotHoldsLiveWork, OnIsMeant, Dooms, ClosedByOwnerIsDeserved
<1>5. DetachedIsBeingClosed'
  BY DEF OneDialInFlight, AttemptsOfCalls, SlotHoldsLiveWork, OnIsMeant, DetachedIsBeingClosed, Held, Abandoned, Closing
<1>6. ClosedByOneTask'
  BY DEF AttemptsOfCalls, SlotHoldsLiveWork, OnIsMeant, ClosedByOneTask, Closing
<1> QED
  BY <1>1, <1>2, <1>3, <1>4, <1>5, <1>6

LEMMA NextInv == IInv /\ [Next]_vars => IInv'
<1> SUFFICES ASSUME IInv, [Next]_vars
             PROVE  IInv'
  OBVIOUS
<1>1. CASE UNCHANGED vars
  BY <1>1 DEF vars, IInv, TypeOK, OneDialInFlight, AttemptsOfCalls, SlotHoldsLiveWork,
              OnIsMeant, Dooms, ClosedByOwnerIsDeserved, DetachedIsBeingClosed, Held,
              Abandoned, Closing, ClosedByOneTask
<1>2. ASSUME NEW c \in Calls,
             \/ Open(c) \/ Dialed(c) \/ DialFails(c) \/ CancelDial(c)
             \/ WakeConnected(c) \/ WakeClosedByOwner(c) \/ WakeFailed(c)
             \/ CancelJoin(c) \/ CallClosed(c) \/ CancelClose(c)
             \/ Discarded(c) \/ CancelDiscard(c)
             \/ HangUp(c) \/ HungUp(c) \/ CancelHangUp(c)
             \/ Lost(c) \/ Unserved(c)
      PROVE  IInv'
  <2>1. CASE CallClosed(c)
    BY <2>1, AfterCloseInv DEF CallClosed
  <2>2. CASE DialFails(c) \/ CancelDial(c)
    BY <2>2, UndialInv DEF DialFails, CancelDial
  <2> QED
    BY <1>2, <2>1, <2>2, OpenInv, DialedInv, WakeConnectedInv, WakeClosedByOwnerInv,
       WakeFailedInv, CancelJoinInv, CancelCloseInv, DiscardedInv, CancelDiscardInv,
       HangUpInv, HungUpInv, CancelHangUpInv, LostInv, UnservedInv
<1>3. CASE Exit \/ OwnerClosed \/ CancelOwner
  BY <1>3, ExitInv, OwnerClosedInv, CancelOwnerInv
<1> QED
  BY <1>1, <1>2, <1>3 DEF Next

-----------------------------------------------------------------------------

\* The inductive invariant holds throughout.
THEOREM Invariance == Spec => []IInv
<1>1. Init => IInv
  BY InitInv
<1>2. IInv /\ [Next]_vars => IInv'
  BY NextInv
<1> QED
  BY <1>1, <1>2, PTL DEF Spec

\* Every variable keeps its type.
THEOREM TypeCorrect == Spec => []TypeOK
<1>1. IInv => TypeOK
  BY DEF IInv
<1> QED
  BY <1>1, Invariance, PTL

\* No connection in use was dialed for an owner that has left.
THEOREM OwnerTakesConnectionAlong == Spec => []NoConnectionOutlivesOwner
<1>1. IInv => NoConnectionOutlivesOwner
  BY DEF IInv, TypeOK, SlotHoldsLiveWork, OneDialInFlight, AttemptsOfCalls,
         NoConnectionOutlivesOwner, Locked
<1> QED
  BY <1>1, Invariance, PTL

\* At most one dial is in flight, and it is the attempt in `_ctx_future`.
THEOREM DialsOneAtATime == Spec => []OneDialInFlight
<1>1. IInv => OneDialInFlight
  BY DEF IInv
<1> QED
  BY <1>1, Invariance, PTL

\* ClosedByOwner reaches only calls during which an owner left.
THEOREM ClosedByOwnerFairly == Spec => []ClosedByOwnerIsDeserved
<1>1. IInv => ClosedByOwnerIsDeserved
  BY DEF IInv
<1> QED
  BY <1>1, Invariance, PTL

\* Whatever is out of `_ctx_future` has a task closing it, but for the
\* connection of a call cancelled while discarding it.
THEOREM DetachedHasACloser == Spec => []DetachedIsBeingClosed
<1>1. IInv => DetachedIsBeingClosed
  BY DEF IInv
<1> QED
  BY <1>1, Invariance, PTL

\* No two tasks, calls or the owner, close one connection: `close` marks it
\* `closed` before its first await and returns at once if it is.
THEOREM OneCloserEach == Spec => []ClosedByOneTask
<1>1. IInv => ClosedByOneTask
  BY DEF IInv
<1> QED
  BY <1>1, Invariance, PTL

-----------------------------------------------------------------------------
(***************************************************************************)
(* PySocket implements OwnedConnection, for any calls and exits: whatever  *)
(* interleaving of dials, closes and cancellations moves the slot does so  *)
(* by one step of the abstract specification, and everything else is a     *)
(* stuttering step of it.                                                  *)
(*                                                                         *)
(* Life is what ties the two: the lemmas say how each kind of step changes *)
(* it, and the simulation goes action by action from the invariant IInv.   *)
(***************************************************************************)

lives == [a \in Calls |-> Life(a)]
births == [a \in Calls |-> IF fut[a] = "none" THEN 0 ELSE seen[a]]

\* What the abstract specification sees.
view == <<cur, lives, exits, births>>


\* In every reachable state Life is told by few of the variables.
LEMMA LifeOf ==
  ASSUME IInv, NEW a \in Calls
  PROVE  /\ Life(a) = "unused" <=> fut[a] = "none"
         /\ Life(a) = "dialing" <=> fut[a] = "pending"
         /\ Life(a) = "live" <=> cur = a /\ fut[a] = "ok"
         /\ cur = a => fut[a] \in {"pending", "ok"}
         /\ cur # a /\ ws[a] \in {"open", "closing"} => Life(a) = "retired"
         /\ cur # a /\ fut[a] \notin {"none", "pending"} /\ ws[a] \notin {"open", "closing"}
              => Life(a) = "gone"
BY DEF IInv, TypeOK, Life, AttemptsOfCalls, SlotHoldsLiveWork, Futures, OneDialInFlight

\* A step that changes neither the slot nor a future nor, for what has left
\* the slot, whether its TCP connection is gone, is not seen.
LEMMA Unseen ==
  ASSUME UNCHANGED <<slot, exits>>,
         \A a \in Calls : fut[a] # "none" => seen'[a] = seen[a],
         \A a \in Calls :
           cur = a \/ (ws'[a] \in {"open", "closing"} <=> ws[a] \in {"open", "closing"})
  PROVE  UNCHANGED view
<1>1. \A a \in Calls : Life(a)' = Life(a)
  BY DEF Life
<1>2. lives' = lives
  BY <1>1 DEF lives
<1>3. births' = births
  BY DEF births
<1> QED
  BY <1>2, <1>3 DEF view

\* A TCP connection ends: one that has left the slot is gone then.
LEMMA Ends ==
  ASSUME IInv, NEW a \in Calls, ws' = [ws EXCEPT ![a] = "closed"], ws[a] # "none",
         UNCHANGED <<seen, slot, exits>>
  PROVE  Promise!Vanish(a) \/ UNCHANGED view
<1>1. CASE cur = a \/ ws[a] \notin {"open", "closing"}
  <2>1. \A b \in Calls :
          cur = b \/ (ws'[b] \in {"open", "closing"} <=> ws[b] \in {"open", "closing"})
    BY <1>1 DEF IInv, TypeOK
  <2> QED
    BY <2>1, Unseen
<1>2. CASE cur # a /\ ws[a] \in {"open", "closing"}
  <2>1. fut[a] \notin {"none", "pending"}
    BY <1>2 DEF IInv, TypeOK, AttemptsOfCalls
  <2>2. Life(a) = "retired" /\ Life(a)' = "gone"
    BY <1>2, <2>1 DEF IInv, TypeOK, Life
  <2>3. \A b \in Calls \ {a} : Life(b)' = Life(b)
    BY DEF IInv, TypeOK, Life
  <2>4. lives' = [lives EXCEPT ![a] = "gone"]
    BY <2>2, <2>3 DEF lives
  <2>5. births' = births
    BY DEF births
  <2> QED
    BY <2>2, <2>4, <2>5 DEF Promise!Vanish, lives, births
<1> QED
  BY <1>1, <1>2

\* `close` of the connection in the slot retires it.
LEMMA Retires ==
  ASSUME IInv, NEW t \in Tasks, NEW where, NEW k \in Calls, cur = k, ~Locked,
         StartClose(t, where, k),
         \A a \in Calls : fut[a] # "none" => seen'[a] = seen[a]
  PROVE  /\ lives[k] = "live" /\ cur' = None
         /\ \E l \in Promise!Ended : lives' = [lives EXCEPT ![k] = l]
         /\ births' = births
<1>1. fut[k] = "ok" /\ fut' = fut /\ cur' = None
  BY DEF IInv, SlotHoldsLiveWork, OneDialInFlight, Locked, StartClose
<1>2. Life(k) = "live"
  BY <1>1, LifeOf
<1>3. \A a \in Calls \ {k} : Life(a)' = Life(a)
  BY <1>1 DEF IInv, TypeOK, Life, StartClose, SendClose
<1>4. Life(k)' \in Promise!Ended
  BY <1>1 DEF IInv, TypeOK, Life, StartClose, SendClose, Promise!Ended
<1>5. lives' = [lives EXCEPT ![k] = Life(k)']
  BY <1>3, <1>4 DEF lives
<1>6. births' = births
  BY <1>1 DEF births
<1> QED
  BY <1>1, <1>2, <1>4, <1>5, <1>6 DEF lives

-----------------------------------------------------------------------------
(* The actions, each to what the abstract specification sees of it.         *)

\* `_open`, for a call that has not dialed: it dials, retires a dead
\* connection, or nothing is seen.
LEMMA Enters ==
  ASSUME IInv, NEW c \in Calls, fut[c] = "none", UNCHANGED exits,
         Join(c) \/ Reuse(c) \/ Replace(c) \/ StartDial(c),
         \A a \in Calls : a # c => seen'[a] = seen[a],
         seen'[c] = exits
  PROVE  [Promise!Next]_view
<1>1. CASE Join(c) \/ Reuse(c)
  BY <1>1, Unseen DEF Join, Reuse, Finish
<1>2. CASE Replace(c)
  <2>1. cur \in Calls /\ ~Locked /\ StartClose(c, "closing", cur) /\ c \in Tasks
    BY <1>2 DEF Replace, IInv, TypeOK, Tasks
  <2>2. Promise!Retire(cur)
    BY <2>1, Retires DEF Promise!Retire, lives, births
  <2> QED
    BY <2>1, <2>2 DEF Promise!Next
<1>3. CASE StartDial(c)
  <2>1. lives[c] = "unused"
    BY LifeOf DEF lives
  <2>2. \A a \in Calls \ {c} : Life(a)' = Life(a)
    BY <1>3 DEF StartDial, IInv, TypeOK, Life
  <2>3. Life(c)' = "dialing"
    BY <1>3 DEF StartDial, IInv, TypeOK, Life
  <2>4. lives' = [lives EXCEPT ![c] = "dialing"]
    BY <2>2, <2>3 DEF lives
  <2>5. births' = [births EXCEPT ![c] = exits]
    BY <1>3 DEF StartDial, IInv, TypeOK, births
  <2>6. Promise!Dial(c)
    BY <1>3, <2>1, <2>4, <2>5 DEF Promise!Dial, StartDial, lives, births
  <2> QED
    BY <2>6 DEF Promise!Next
<1> QED
  BY <1>1, <1>2, <1>3

LEMMA AfterCloses ==
  ASSUME IInv, NEW c \in Calls, fut[c] = "none", AfterClose(c), UNCHANGED <<seen, exits>>
  PROVE  [Promise!Next]_view
<1>1. CASE UNCHANGED <<slot, conn>>
  BY <1>1, Unseen
<1>2. CASE exits = seen[c] /\ Enter(c, retried[c], TRUE)
  BY <1>2, Enters DEF Enter
<1> QED
  BY <1>1, <1>2 DEF AfterClose

\* `force_open` returns: to the owner that asked, or to be discarded.
LEMMA Dials ==
  ASSUME IInv, NEW c \in Calls, Dialed(c)
  PROVE  [Promise!Next]_view
<1>1. cur = c /\ fut[c] = "pending" /\ ~closed[c]
  BY DEF Dialed, IInv, TypeOK, OneDialInFlight, AttemptsOfCalls
<1>2. lives[c] = "dialing" /\ births[c] = seen[c]
  BY <1>1, LifeOf DEF lives, births
<1>3. \A a \in Calls \ {c} : Life(a)' = Life(a)
  BY <1>1 DEF Dialed, Connected, IInv, TypeOK, Life
<1>4. births' = births
  BY <1>1 DEF Dialed, IInv, TypeOK, births
<1>5. CASE exits = seen[c]
  <2>1. Life(c)' = "live" /\ cur' = cur
    BY <1>1, <1>5 DEF Dialed, Connected, IInv, TypeOK, Life
  <2>2. lives' = [lives EXCEPT ![c] = "live"]
    BY <1>3, <2>1 DEF lives
  <2>3. Promise!Connect(c)
    BY <1>2, <1>4, <1>5, <2>1, <2>2 DEF Promise!Connect, Dialed, lives, births
  <2> QED
    BY <2>3 DEF Promise!Next
<1>6. CASE exits # seen[c]
  <2>1. Life(c)' \in Promise!Ended /\ cur' = None
    BY <1>1, <1>6 DEF Dialed, IInv, TypeOK, Life, Promise!Ended
  <2>2. lives' = [lives EXCEPT ![c] = Life(c)']
    BY <1>3, <2>1 DEF lives
  <2>3. Promise!Discard(c)
    BY <1>2, <1>4, <1>6, <2>1, <2>2 DEF Promise!Discard, Dialed, lives, births
  <2> QED
    BY <2>3 DEF Promise!Next
<1> QED
  BY <1>5, <1>6

LEMMA Undials ==
  ASSUME IInv, NEW c \in Calls, NEW result, Undial(c, result)
  PROVE  [Promise!Next]_view
<1>1. cur = c /\ fut[c] = "pending" /\ ws[c] = "none"
  BY DEF Undial, IInv, TypeOK, OneDialInFlight, AttemptsOfCalls
<1>2. lives[c] = "dialing"
  BY <1>1, LifeOf DEF lives
<1>3. \A a \in Calls \ {c} : Life(a)' = Life(a)
  BY <1>1 DEF Undial, IInv, TypeOK, Life
<1>4. births' = births
  BY <1>1 DEF Undial, IInv, TypeOK, births
<1>5. Life(c)' \in Promise!Ended
  BY <1>1 DEF Undial, IInv, TypeOK, Life, Promise!Ended
<1>6. lives' = [lives EXCEPT ![c] = Life(c)']
  BY <1>3, <1>5 DEF lives
<1>7. Promise!Fail(c)
  BY <1>2, <1>4, <1>5, <1>6 DEF Promise!Fail, Undial, lives, births
<1> QED
  BY <1>7 DEF Promise!Next

\* A joined connect succeeded: the connection that is dead since is retired,
\* unless another task has seen to that.
LEMMA Wakes ==
  ASSUME IInv, NEW c \in Calls, WakeConnected(c)
  PROVE  [Promise!Next]_view
<1>1. on[c] \in Calls /\ fut[on[c]] = "ok" /\ fut[c] = "none" /\ c \in Tasks
  BY DEF WakeConnected, IInv, OnIsMeant, AttemptsOfCalls, Tasks
<1>2. CASE UNCHANGED <<slot, conn>>
  BY <1>2, Unseen DEF WakeConnected
<1>3. CASE ~closed[on[c]] /\ StartClose(c, "closing", on[c])
  <2>1. cur = on[c] /\ ~Locked
    BY <1>1, <1>3 DEF IInv, SlotHoldsLiveWork, OneDialInFlight, Locked
  <2>2. PICK a \in Calls : a = on[c]
    BY <1>1
  <2>3. StartClose(c, "closing", a) /\ cur = a
    BY <1>3, <2>1, <2>2
  <2>4. UNCHANGED <<seen, exits>>
    BY DEF WakeConnected
  <2>5. Promise!Retire(a)
    BY <1>1, <2>1, <2>3, <2>4, Retires DEF Promise!Retire, lives, births
  <2> QED
    BY <2>5 DEF Promise!Next
<1>4. CASE AfterClose(c)
  BY <1>1, <1>4, AfterCloses DEF WakeConnected
<1> QED
  BY <1>2, <1>3, <1>4 DEF WakeConnected

LEMMA HangsUp ==
  ASSUME IInv, NEW c \in Calls, HangUp(c)
  PROVE  [Promise!Next]_view
<1>1. on[c] \in Calls /\ fut[on[c]] = "ok" /\ c \in Tasks
  BY DEF HangUp, IInv, OnIsMeant, Tasks
<1>2. cur = on[c] /\ ~Locked
  BY <1>1 DEF HangUp, IInv, SlotHoldsLiveWork, OneDialInFlight, Locked
<1>3. Promise!Retire(cur)
  BY <1>1, <1>2, Retires DEF HangUp, Promise!Retire, lives, births
<1> QED
  BY <1>1, <1>2, <1>3 DEF Promise!Next

\* The owner leaves, and takes what is in use along.
LEMMA Leaves ==
  ASSUME IInv, Exit
  PROVE  Promise!Leave
<1>1. CASE cur # None /\ ~Locked
  <2>1. cur \in Calls /\ Owner \in Tasks /\ StartClose(Owner, "closing", cur)
    BY <1>1 DEF Exit, IInv, TypeOK, Tasks
  <2>2. /\ lives[cur] = "live" /\ cur' = None
        /\ \E l \in Promise!Ended : lives' = [lives EXCEPT ![cur] = l]
        /\ births' = births
    BY <1>1, <2>1, Retires DEF Exit
  <2> QED
    BY <1>1, <2>2 DEF Exit, Promise!Leave, lives, births
<1>2. CASE cur = None \/ Locked
  <2>1. UNCHANGED <<slot, conn, seen>>
    BY <1>2 DEF Exit
  <2>2. lives' = lives /\ births' = births /\ cur' = cur
    BY <2>1 DEF lives, births, Life
  <2>3. ~(cur # None /\ lives[cur] = "live")
    BY <1>2, LifeOf DEF IInv, TypeOK, OneDialInFlight, Locked, lives
  <2> QED
    BY <2>2, <2>3 DEF Exit, Promise!Leave, lives, births
<1> QED
  BY <1>1, <1>2

\* A handshake given up, by whoever was closing, ends the TCP connection.
LEMMA GivesUp ==
  ASSUME IInv, (\E c \in Calls : CancelClose(c) \/ CancelHangUp(c)) \/ CancelOwner
  PROVE  [Promise!Next]_view
<1>1. PICK t \in Tasks :
        /\ pc[t] \in {"closing", "hangingUp"}
        /\ ws' = [ws EXCEPT ![on[t]] = "closed"]
        /\ UNCHANGED <<seen, slot, exits>>
  BY DEF CancelClose, CancelHangUp, CancelOwner, Tasks
<1>2. on[t] \in Calls /\ ws[on[t]] # "none"
  BY <1>1 DEF IInv, OnIsMeant, AttemptsOfCalls
<1> QED
  BY <1>1, <1>2, Ends DEF Promise!Next

-----------------------------------------------------------------------------

LEMMA InitImplements == Init => Promise!Init
BY DEF Init, Promise!Init, Life

LEMMA StepImplements == IInv /\ [Next]_vars => [Promise!Next]_view
<1> SUFFICES ASSUME IInv, [Next]_vars
             PROVE  [Promise!Next]_view
  OBVIOUS
<1>1. CASE UNCHANGED vars
  BY <1>1, Unseen DEF vars
<1>2. ASSUME NEW c \in Calls, Open(c)
      PROVE  [Promise!Next]_view
  BY <1>2, Enters DEF Open, Enter, IInv, TypeOK, AttemptsOfCalls
<1>3. ASSUME NEW c \in Calls, Dialed(c) \/ DialFails(c) \/ CancelDial(c)
      PROVE  [Promise!Next]_view
  BY <1>3, Dials, Undials DEF DialFails, CancelDial
<1>4. ASSUME NEW c \in Calls, WakeConnected(c) \/ HangUp(c)
      PROVE  [Promise!Next]_view
  BY <1>4, Wakes, HangsUp
<1>5. ASSUME NEW c \in Calls, WakeClosedByOwner(c)
      PROVE  [Promise!Next]_view
  <2>1. CASE UNCHANGED <<slot, conn>>
    BY <1>5, <2>1, Unseen DEF WakeClosedByOwner
  <2>2. CASE exits = seen[c] /\ Enter(c, TRUE, replaced[c])
    BY <1>5, <2>2, Enters DEF WakeClosedByOwner, Enter, IInv, AttemptsOfCalls
  <2> QED
    BY <1>5, <2>1, <2>2 DEF WakeClosedByOwner
<1>6. ASSUME NEW c \in Calls, CallClosed(c)
      PROVE  [Promise!Next]_view
  BY <1>6, AfterCloses DEF CallClosed, IInv, AttemptsOfCalls
<1>7. ASSUME NEW c \in Calls,
             \/ WakeFailed(c) \/ CancelJoin(c) \/ Discarded(c) \/ CancelDiscard(c)
             \/ HungUp(c) \/ Unserved(c)
      PROVE  [Promise!Next]_view
  BY <1>7, Unseen DEF WakeFailed, CancelJoin, Discarded, CancelDiscard, HungUp, Unserved
<1>8. ASSUME NEW a \in Calls, Lost(a)
      PROVE  [Promise!Next]_view
  BY <1>8, Ends DEF Lost, Promise!Next
<1>9. CASE Exit
  BY <1>9, Leaves DEF Promise!Next
<1>10. CASE OwnerClosed
  BY <1>10, Unseen DEF OwnerClosed
<1>11. CASE (\E c \in Calls : CancelClose(c) \/ CancelHangUp(c)) \/ CancelOwner
  BY <1>11, GivesUp
<1> QED
  BY <1>1, <1>2, <1>3, <1>4, <1>5, <1>6, <1>7, <1>8, <1>9, <1>10, <1>11 DEF Next

\* PySocket implements OwnedConnection: one connection in use, dialed for the
\* present owner, and never used again once it has left the slot.
THEOREM Implements == Spec => KeepsPromise
<1>1. [Promise!Next]_view => [Promise!Next]_(Promise!vars)
  BY DEF view, Promise!vars, lives, births
<1> QED
  BY <1>1, InitImplements, StepImplements, Invariance, PTL DEF Spec, KeepsPromise, Promise!Spec

-----------------------------------------------------------------------------
(* What open() returns.                                                     *)

Live == \A c \in Calls :
          outcome[c] = "none" /\ outcome'[c] = "connected"
            => \E a \in Calls : /\ on'[c] = a /\ cur' = a
                                /\ a = c \/ Alive(a)'

\* A call that ends connected, to what is in the slot, alive or its own.
LEMMA Connects ==
  ASSUME IInv, NEW c \in Calls, NEW a \in Calls, Finish(c, "connected", a),
         cur' = a, a = c \/ Alive(a)'
  PROVE  Live
BY DEF Live, Finish, Suspend, IInv, TypeOK, Tasks

LEMMA NobodyConnects ==
  ASSUME IInv,
         \/ UNCHANGED outcome
         \/ \E c \in Calls, r \in Outcomes \ {"connected"} :
              outcome' = [outcome EXCEPT ![c] = r]
  PROVE  Live
BY DEF Live, IInv, TypeOK

LEMMA EnterConnects ==
  ASSUME IInv, NEW c \in Calls, Join(c) \/ Reuse(c) \/ Replace(c) \/ StartDial(c)
  PROVE  Live
<1>1. CASE Join(c) \/ Replace(c) \/ StartDial(c)
  BY <1>1, NobodyConnects DEF Join, Replace, StartClose, StartDial
<1>2. CASE Reuse(c)
  <2>1. PICK a \in Calls : a = cur
    BY <1>2 DEF Reuse, IInv, TypeOK
  <2>2. Finish(c, "connected", a) /\ cur' = a /\ Alive(a)'
    BY <1>2, <2>1 DEF Reuse, Alive
  <2> QED
    BY <2>2, Connects
<1> QED
  BY <1>1, <1>2

LEMMA AfterCloseConnects ==
  ASSUME IInv, NEW c \in Calls, AfterClose(c)
  PROVE  Live
<1>1. CASE Finish(c, "closedByOwner", None) \/ Finish(c, "failed", None)
  BY <1>1, NobodyConnects DEF Finish, Outcomes
<1>2. CASE Enter(c, retried[c], TRUE)
  BY <1>2, EnterConnects DEF Enter
<1> QED
  BY <1>1, <1>2 DEF AfterClose

LEMMA DialConnects ==
  ASSUME IInv, NEW c \in Calls, Dialed(c)
  PROVE  Live
<1>1. CASE exits = seen[c]
  <2>1. Finish(c, "connected", c) /\ cur' = c
    BY <1>1 DEF Dialed, IInv, TypeOK, OneDialInFlight
  <2> QED
    BY <2>1, Connects
<1>2. CASE exits # seen[c]
  BY <1>2, NobodyConnects DEF Dialed
<1> QED
  BY <1>1, <1>2

\* What is not closed has not left the slot.
LEMMA WakeConnects ==
  ASSUME IInv, NEW c \in Calls, WakeConnected(c)
  PROVE  Live
<1>1. PICK a \in Calls : a = on[c] /\ fut[a] = "ok"
  BY DEF WakeConnected, IInv, OnIsMeant
<1>2. CASE Alive(a) /\ Finish(c, "connected", a) /\ UNCHANGED <<slot, conn>>
  <2>1. cur' = a /\ Alive(a)'
    BY <1>1, <1>2 DEF IInv, SlotHoldsLiveWork, Alive
  <2> QED
    BY <1>2, <2>1, Connects
<1>3. CASE StartClose(c, "closing", a)
  BY <1>3, NobodyConnects DEF StartClose
<1>4. CASE AfterClose(c)
  BY <1>4, AfterCloseConnects
<1> QED
  BY <1>1, <1>2, <1>3, <1>4 DEF WakeConnected

LEMMA StepReturnsLive == IInv /\ [Next]_vars => [Live]_vars
<1> SUFFICES ASSUME IInv, Next
             PROVE  Live
  OBVIOUS
<1>1. ASSUME NEW c \in Calls, Open(c) \/ CallClosed(c)
      PROVE  Live
  BY <1>1, EnterConnects, AfterCloseConnects DEF Open, Enter, CallClosed
<1>2. ASSUME NEW c \in Calls, Dialed(c) \/ WakeConnected(c)
      PROVE  Live
  BY <1>2, DialConnects, WakeConnects
<1>3. ASSUME NEW c \in Calls, WakeClosedByOwner(c)
      PROVE  Live
  <2>1. CASE Finish(c, "closedByOwner", None)
    BY <2>1, NobodyConnects DEF Finish, Outcomes
  <2>2. CASE Enter(c, TRUE, replaced[c])
    BY <2>2, EnterConnects DEF Enter
  <2> QED
    BY <1>3, <2>1, <2>2 DEF WakeClosedByOwner
<1>4. ASSUME NEW c \in Calls,
             \/ DialFails(c) \/ CancelDial(c) \/ WakeFailed(c) \/ CancelJoin(c)
             \/ CancelClose(c) \/ Discarded(c) \/ CancelDiscard(c)
      PROVE  Live
  <2>1. PICK r \in Outcomes \ {"connected"} : outcome' = [outcome EXCEPT ![c] = r]
    BY <1>4 DEF DialFails, CancelDial, Undial, WakeFailed, CancelJoin, CancelClose,
         Discarded, CancelDiscard, Finish, Outcomes
  <2> QED
    BY <2>1, NobodyConnects
<1>5. ASSUME NEW c \in Calls,
             HangUp(c) \/ HungUp(c) \/ CancelHangUp(c) \/ Lost(c) \/ Unserved(c)
      PROVE  Live
  BY <1>5, NobodyConnects DEF HangUp, StartClose, HungUp, CancelHangUp, Lost, Unserved
<1>6. CASE Exit \/ OwnerClosed \/ CancelOwner
  BY <1>6, NobodyConnects DEF Exit, StartClose, OwnerClosed, CancelOwner
<1> QED
  BY <1>1, <1>2, <1>3, <1>4, <1>5, <1>6 DEF Next

\* What open() returns is the connection in use, and alive when it is returned
\* unless the call dialed it, also to a call that joined the connect and woke
\* after an exit or a drop.
THEOREM ReturnsTheOneInUse == Spec => OpenReturnsTheConnectionInUse
<1>1. Spec => [][Live]_vars
  BY StepReturnsLive, Invariance, PTL DEF Spec
<1> QED
  BY <1>1 DEF OpenReturnsTheConnectionInUse, Live

=============================================================================
