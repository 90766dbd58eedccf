----------------------------- MODULE Cores_proofs -----------------------------
(***************************************************************************)
(* Safety of the TypeScript, Go and Rust clients for any number of calls   *)
(* and of closers, and that all three implement OwnedConnection.           *)
(*                                                                         *)
(* IInv is the inductive invariant.  What it comes to is SlotMoves: a step *)
(* leaves the slot alone, empties it, or puts into an empty slot a         *)
(* connection that was never dialed before.  Everything stated of the      *)
(* clients follows from IInv and that.                                     *)
(***************************************************************************)
EXTENDS Cores, TLAPS

Dialing == {"dialing", "greeting", "hangingUp"}

\* A dial is pending exactly while its call is at it, and only one call is.
DialOfCall(c) ==
  /\ dial[c] = "pending" <=> pc[c] \in Dialing
  /\ dial[c] = "pending" => opening = c
  /\ pc[c] \notin Dialing \cup {"done"} => dial[c] = "none"
  /\ wire[c] # "none" => dial[c] # "none" /\ pc[c] # "dialing"
  /\ ended[c] => wire[c] # "none"
  /\ dial[c] \in {"ok", "stillborn"} => wire[c] # "none"
  /\ dial[c] = "stillborn" => ended[c]
  /\ pc[c] \in {"greeting", "hangingUp"} => wire[c] # "none"
  /\ pc[c] = "hangingUp" => ended[c]

DialsOfCalls == \A c \in Calls : DialOfCall(c)

\* What is being dialed finds nothing alive in `current`.
SlotsFit ==
  /\ opening # None => \/ dial[opening] = "pending"
                          /\ (current = None \/ ended[current])
                       \/ core = "ts" /\ opening = current
  /\ current # None => dial[current] \in {"ok", "stillborn"}

\* In TypeScript, `#opening` outlives the dial, and a connection that is open
\* is the current one even if waits on it have failed, unless it is in the
\* hands of a greeting or was left by one.
TsSlotsFit ==
  core = "ts" =>
    /\ current # None => opening = current
    /\ \A c \in Calls :
         /\ dial[c] # "stillborn"
         /\ wire[c] = "open" /\ dial[c] = "ok" => current = c

\* What `on` stands for, by where its task is.
OnIsMeant ==
  /\ \A t \in Tasks : pc[t] = "joining" => on[t] \in Calls /\ dial[on[t]] # "none"
  /\ \A k \in Closers : pc[k] \in {"aborting", "closing"} =>
       /\ on[k] \in Calls
       /\ dial[on[k]] \in {"ok", "stillborn"}
       /\ Slot # on[k]
       /\ pc[k] = "closing" => ended[on[k]]

\* What a close() was asked to close is out of the slot once it has closed
\* something; until then, and while it borrows the closing of another, the one
\* connection of it in the slot is the one that it waits for or wanted to close.
AskedIsClosed ==
  \A k \in Closers :
    /\ \A a \in asked[k] : dial[a] # "none"
    /\ core # "go" /\ pc[k] = "closing" => Slot \notin asked[k]
    /\ core = "ts" /\ pc[k] \in {"joining", "borrowing"} /\ Slot \in asked[k]
         => Slot = on[k]

IInv ==
  /\ TypeOK
  /\ core \in {"ts", "go", "rust"}
  /\ DialsOfCalls
  /\ SlotsFit
  /\ TsSlotsFit
  /\ OnIsMeant
  /\ AskedIsClosed
  /\ NoLiveConnectionIsLost

\* The slot keeps what it holds, loses it, or gets a connection never dialed before.
SlotMoves ==
  \/ Slot' = Slot
  \/ Slot' = None
  \/ Slot = None /\ Slot' \in Calls /\ dial[Slot'] = "none"

USE ClosersAreNoCalls, NoneIsNoConnection, MaxClosesIsNat
USE DEF ClosersAreNoCalls, NoneIsNoConnection, MaxClosesIsNat, LeftByItsGreeting

\* A task that waited for the opening of a connection closes it.
LEMMA TsCloseContextStep ==
  ASSUME IInv, NEW t \in Tasks, NEW a \in Calls, core = "ts", core' = core,
         pc[t] = "joining", on[t] = a, dial[a] = "ok",
         Ts!CloseContext(t, a), UNCHANGED <<dial, closes, asked>>
  PROVE  IInv' /\ SlotMoves
<1> USE DEF IInv, TypeOK, Tasks, Dialing, Ts!CloseContext, Ts!Wait, Ts!Suspend, Ts!Shut, Ts!slot,
            Ts!link
<1>1. CASE closing # None
  <2>1. TypeOK'
    BY <1>1 DEF PCs
  <2>2. DialsOfCalls' /\ SlotsFit' /\ TsSlotsFit'
    BY <1>1 DEF DialsOfCalls, DialOfCall, SlotsFit, TsSlotsFit
  <2>3. OnIsMeant' /\ AskedIsClosed' /\ NoLiveConnectionIsLost' /\ SlotMoves
    BY <1>1 DEF DialsOfCalls, DialOfCall, SlotsFit, TsSlotsFit, OnIsMeant, AskedIsClosed,
         NoLiveConnectionIsLost, SlotMoves, Slot
  <2> QED
    BY <2>1, <2>2, <2>3
<1>2. CASE closing = None
  <2>1. pc' = [pc EXCEPT ![t] = "closing"] /\ on' = [on EXCEPT ![t] = a] /\ closing' = a
        /\ ended' = [ended EXCEPT ![a] = TRUE]
        /\ wire' = [wire EXCEPT ![a] = IF @ = "open" THEN "closing" ELSE @]
        /\ UNCHANGED outcome
    BY <1>2
  <2>2. IF current = a THEN current' = None /\ opening' = None ELSE UNCHANGED slot
    BY <1>2 DEF slot
  <2>3. TypeOK'
    BY <2>1, <2>2 DEF PCs, slot
  <2>4. DialsOfCalls'
    <3>1. ASSUME NEW d \in Calls
          PROVE  DialOfCall(d)'
      BY <2>1, <2>2 DEF DialOfCall, DialsOfCalls, SlotsFit, TsSlotsFit, slot
    <3> QED
      BY <3>1 DEF DialsOfCalls
  <2>5. SlotsFit' /\ TsSlotsFit'
    BY <2>1, <2>2 DEF DialsOfCalls, DialOfCall, SlotsFit, TsSlotsFit, slot
  <2>6. OnIsMeant' /\ AskedIsClosed'
    BY <2>1, <2>2 DEF DialsOfCalls, DialOfCall, SlotsFit, TsSlotsFit, OnIsMeant, AskedIsClosed,
         Slot, slot
  <2>7. NoLiveConnectionIsLost' /\ SlotMoves
    BY <2>1, <2>2 DEF DialsOfCalls, DialOfCall, SlotsFit, TsSlotsFit, OnIsMeant,
         NoLiveConnectionIsLost, SlotMoves, Slot, slot
  <2> QED
    BY <2>3, <2>4, <2>5, <2>6, <2>7
<1> QED
  BY <1>1, <1>2

LEMMA TsOpenStep ==
  ASSUME IInv, NEW c \in Calls, core = "ts", core' = core, Ts!Open(c)
  PROVE  IInv' /\ SlotMoves
<1> USE DEF IInv, TypeOK, Tasks, Dialing, Ts!Open, Ts!Enter, Ts!StartDial, Ts!Wait, Ts!Suspend,
            Ts!task, Ts!slot, Ts!link, Ts!history
<1>1. TypeOK'
  BY DEF PCs
<1>2. DialsOfCalls'
  BY DEF DialsOfCalls, DialOfCall, SlotsFit, TsSlotsFit
<1>3. SlotsFit' /\ TsSlotsFit'
  BY DEF DialsOfCalls, DialOfCall, SlotsFit, TsSlotsFit
<1>4. OnIsMeant' /\ AskedIsClosed'
  BY DEF DialsOfCalls, DialOfCall, SlotsFit, TsSlotsFit, OnIsMeant, AskedIsClosed, Slot
<1>5. NoLiveConnectionIsLost' /\ SlotMoves
  BY DEF DialsOfCalls, DialOfCall, SlotsFit, TsSlotsFit, OnIsMeant, NoLiveConnectionIsLost,
         SlotMoves, Slot
<1> QED
  BY <1>1, <1>2, <1>3, <1>4, <1>5

LEMMA TsReopenStep ==
  ASSUME IInv, NEW c \in Calls, core = "ts", core' = core, Ts!Reopen(c)
  PROVE  IInv' /\ SlotMoves
<1> USE DEF IInv, TypeOK, Tasks, Dialing, Ts!Reopen, Ts!Enter, Ts!StartDial, Ts!Wait, Ts!Suspend,
            Ts!task, Ts!slot, Ts!link, Ts!history
<1>1. TypeOK'
  BY DEF PCs
<1>2. DialsOfCalls'
  BY DEF DialsOfCalls, DialOfCall, SlotsFit, TsSlotsFit
<1>3. SlotsFit' /\ TsSlotsFit'
  BY DEF DialsOfCalls, DialOfCall, SlotsFit, TsSlotsFit
<1>4. OnIsMeant' /\ AskedIsClosed'
  BY DEF DialsOfCalls, DialOfCall, SlotsFit, TsSlotsFit, OnIsMeant, AskedIsClosed, Slot
<1>5. NoLiveConnectionIsLost' /\ SlotMoves
  BY DEF DialsOfCalls, DialOfCall, SlotsFit, TsSlotsFit, OnIsMeant, NoLiveConnectionIsLost,
         SlotMoves, Slot
<1> QED
  BY <1>1, <1>2, <1>3, <1>4, <1>5

LEMMA TsDialedStep ==
  ASSUME IInv, NEW c \in Calls, core = "ts", core' = core, Ts!Dialed(c)
  PROVE  IInv' /\ SlotMoves
<1> USE DEF IInv, TypeOK, Tasks, Dialing, Ts!Dialed, Ts!Published, Ts!Finish, Ts!Suspend, Ts!task,
            Ts!slot, Ts!link, Ts!history
<1>1. TypeOK'
  BY DEF PCs
<1>2. DialsOfCalls'
  BY DEF DialsOfCalls, DialOfCall, SlotsFit, TsSlotsFit
<1>3. SlotsFit' /\ TsSlotsFit'
  BY DEF DialsOfCalls, DialOfCall, SlotsFit, TsSlotsFit
<1>4. OnIsMeant' /\ AskedIsClosed'
  BY DEF DialsOfCalls, DialOfCall, SlotsFit, TsSlotsFit, OnIsMeant, AskedIsClosed, Slot
<1>5. NoLiveConnectionIsLost' /\ SlotMoves
  BY DEF DialsOfCalls, DialOfCall, SlotsFit, TsSlotsFit, OnIsMeant, NoLiveConnectionIsLost,
         SlotMoves, Slot
<1> QED
  BY <1>1, <1>2, <1>3, <1>4, <1>5

LEMMA TsDialFailsStep ==
  ASSUME IInv, NEW c \in Calls, core = "ts", core' = core, Ts!DialFails(c)
  PROVE  IInv' /\ SlotMoves
<1> USE DEF IInv, TypeOK, Tasks, Dialing, Ts!DialFails, Ts!Rejected, Ts!Finish, Ts!Suspend, Ts!task,
            Ts!slot, Ts!link, Ts!history
<1>1. TypeOK'
  BY DEF PCs
<1>2. DialsOfCalls'
  BY DEF DialsOfCalls, DialOfCall, SlotsFit, TsSlotsFit
<1>3. SlotsFit' /\ TsSlotsFit'
  BY DEF DialsOfCalls, DialOfCall, SlotsFit, TsSlotsFit
<1>4. OnIsMeant' /\ AskedIsClosed'
  BY DEF DialsOfCalls, DialOfCall, SlotsFit, TsSlotsFit, OnIsMeant, AskedIsClosed, Slot
<1>5. NoLiveConnectionIsLost' /\ SlotMoves
  BY DEF DialsOfCalls, DialOfCall, SlotsFit, TsSlotsFit, OnIsMeant, NoLiveConnectionIsLost,
         SlotMoves, Slot
<1> QED
  BY <1>1, <1>2, <1>3, <1>4, <1>5

LEMMA TsGreetsStep ==
  ASSUME IInv, NEW c \in Calls, core = "ts", core' = core, Ts!Greets(c)
  PROVE  IInv' /\ SlotMoves
<1> USE DEF IInv, TypeOK, Tasks, Dialing, Ts!Greets, Ts!Wait, Ts!Suspend, Ts!task,
            Ts!slot, Ts!link, Ts!history
<1>1. TypeOK'
  BY DEF PCs
<1>2. DialsOfCalls'
  BY DEF DialsOfCalls, DialOfCall, SlotsFit, TsSlotsFit
<1>3. SlotsFit' /\ TsSlotsFit'
  BY DEF DialsOfCalls, DialOfCall, SlotsFit, TsSlotsFit
<1>4. OnIsMeant' /\ AskedIsClosed'
  BY DEF DialsOfCalls, DialOfCall, SlotsFit, TsSlotsFit, OnIsMeant, AskedIsClosed, Slot
<1>5. NoLiveConnectionIsLost' /\ SlotMoves
  BY DEF DialsOfCalls, DialOfCall, SlotsFit, TsSlotsFit, OnIsMeant, NoLiveConnectionIsLost,
         SlotMoves, Slot
<1> QED
  BY <1>1, <1>2, <1>3, <1>4, <1>5

LEMMA TsGreetedStep ==
  ASSUME IInv, NEW c \in Calls, core = "ts", core' = core, Ts!Greeted(c)
  PROVE  IInv' /\ SlotMoves
<1> USE DEF IInv, TypeOK, Tasks, Dialing, Ts!Greeted, Ts!Published, Ts!Finish, Ts!Suspend, Ts!task,
            Ts!slot, Ts!link, Ts!history
<1>1. TypeOK'
  BY DEF PCs
<1>2. DialsOfCalls'
  BY DEF DialsOfCalls, DialOfCall, SlotsFit, TsSlotsFit
<1>3. SlotsFit' /\ TsSlotsFit'
  BY DEF DialsOfCalls, DialOfCall, SlotsFit, TsSlotsFit
<1>4. OnIsMeant' /\ AskedIsClosed'
  BY DEF DialsOfCalls, DialOfCall, SlotsFit, TsSlotsFit, OnIsMeant, AskedIsClosed, Slot
<1>5. NoLiveConnectionIsLost' /\ SlotMoves
  BY DEF DialsOfCalls, DialOfCall, SlotsFit, TsSlotsFit, OnIsMeant, NoLiveConnectionIsLost,
         SlotMoves, Slot
<1> QED
  BY <1>1, <1>2, <1>3, <1>4, <1>5

LEMMA TsGreetFailsStep ==
  ASSUME IInv, NEW c \in Calls, core = "ts", core' = core, Ts!GreetFails(c)
  PROVE  IInv' /\ SlotMoves
<1> USE DEF IInv, TypeOK, Tasks, Dialing, Ts!GreetFails, Ts!Rejected, Ts!Finish, Ts!Suspend, Ts!task,
            Ts!slot, Ts!link, Ts!history
<1>1. TypeOK'
  BY DEF PCs
<1>2. DialsOfCalls'
  BY DEF DialsOfCalls, DialOfCall, SlotsFit, TsSlotsFit
<1>3. SlotsFit' /\ TsSlotsFit'
  BY DEF DialsOfCalls, DialOfCall, SlotsFit, TsSlotsFit
<1>4. OnIsMeant' /\ AskedIsClosed'
  BY DEF DialsOfCalls, DialOfCall, SlotsFit, TsSlotsFit, OnIsMeant, AskedIsClosed, Slot
<1>5. NoLiveConnectionIsLost' /\ SlotMoves
  BY DEF DialsOfCalls, DialOfCall, SlotsFit, TsSlotsFit, OnIsMeant, NoLiveConnectionIsLost,
         SlotMoves, Slot
<1> QED
  BY <1>1, <1>2, <1>3, <1>4, <1>5

LEMMA TsWokenStep ==
  ASSUME IInv, NEW c \in Calls, core = "ts", core' = core, Ts!Woken(c)
  PROVE  IInv' /\ SlotMoves
<1> USE DEF IInv, TypeOK, Tasks, Ts!Woken
<1>1. CASE dial[on[c]] = "ok" /\ wire[on[c]] # "open"
  <2>1. Ts!CloseContext(c, on[c]) /\ on[c] \in Calls
    BY <1>1 DEF OnIsMeant
  <2> QED
    BY <1>1, <2>1, TsCloseContextStep DEF Ts!history
<1>2. CASE ~(dial[on[c]] = "ok" /\ wire[on[c]] # "open")
  <2> USE <1>2 DEF Dialing, Ts!Finish, Ts!Suspend, Ts!slot, Ts!link, Ts!history
  <2>1. TypeOK'
    BY DEF PCs, OnIsMeant
  <2>2. DialsOfCalls' /\ SlotsFit' /\ TsSlotsFit'
    BY DEF DialsOfCalls, DialOfCall, SlotsFit, TsSlotsFit
  <2>3. OnIsMeant' /\ AskedIsClosed'
    BY DEF DialsOfCalls, DialOfCall, SlotsFit, TsSlotsFit, OnIsMeant, AskedIsClosed, Slot
  <2>4. NoLiveConnectionIsLost' /\ SlotMoves
    BY DEF NoLiveConnectionIsLost, SlotMoves, Slot
  <2> QED
    BY <2>1, <2>2, <2>3, <2>4
<1> QED
  BY <1>1, <1>2

LEMMA TsPeerClosesStep ==
  ASSUME IInv, NEW c \in Calls, core = "ts", core' = core, Ts!PeerCloses(c)
  PROVE  IInv' /\ SlotMoves
<1> USE DEF IInv, TypeOK, Tasks, Dialing, Ts!PeerCloses, Ts!task, Ts!slot, Ts!link, Ts!history
<1>1. TypeOK'
  BY DEF PCs
<1>2. DialsOfCalls'
  BY DEF DialsOfCalls, DialOfCall, SlotsFit, TsSlotsFit
<1>3. SlotsFit' /\ TsSlotsFit'
  BY DEF DialsOfCalls, DialOfCall, SlotsFit, TsSlotsFit
<1>4. OnIsMeant' /\ AskedIsClosed'
  BY DEF DialsOfCalls, DialOfCall, SlotsFit, TsSlotsFit, OnIsMeant, AskedIsClosed, Slot
<1>5. NoLiveConnectionIsLost' /\ SlotMoves
  BY DEF DialsOfCalls, DialOfCall, SlotsFit, TsSlotsFit, OnIsMeant, NoLiveConnectionIsLost,
         SlotMoves, Slot
<1> QED
  BY <1>1, <1>2, <1>3, <1>4, <1>5

LEMMA TsGoneStep ==
  ASSUME IInv, NEW c \in Calls, core = "ts", core' = core, Ts!Gone(c)
  PROVE  IInv' /\ SlotMoves
<1> USE DEF IInv, TypeOK, Tasks, Dialing, Ts!Gone, Ts!task, Ts!slot, Ts!link, Ts!history
<1>1. TypeOK'
  BY DEF PCs
<1>2. DialsOfCalls'
  BY DEF DialsOfCalls, DialOfCall, SlotsFit, TsSlotsFit
<1>3. SlotsFit' /\ TsSlotsFit'
  BY DEF DialsOfCalls, DialOfCall, SlotsFit, TsSlotsFit
<1>4. OnIsMeant' /\ AskedIsClosed'
  BY DEF DialsOfCalls, DialOfCall, SlotsFit, TsSlotsFit, OnIsMeant, AskedIsClosed, Slot
<1>5. NoLiveConnectionIsLost' /\ SlotMoves
  BY DEF DialsOfCalls, DialOfCall, SlotsFit, TsSlotsFit, OnIsMeant, NoLiveConnectionIsLost,
         SlotMoves, Slot
<1> QED
  BY <1>1, <1>2, <1>3, <1>4, <1>5

LEMMA TsBadMessageStep ==
  ASSUME IInv, NEW c \in Calls, core = "ts", core' = core, Ts!BadMessage(c)
  PROVE  IInv' /\ SlotMoves
<1> USE DEF IInv, TypeOK, Tasks, Dialing, Ts!BadMessage, Ts!task, Ts!slot, Ts!link, Ts!history
<1>1. TypeOK'
  BY DEF PCs
<1>2. DialsOfCalls'
  BY DEF DialsOfCalls, DialOfCall, SlotsFit, TsSlotsFit
<1>3. SlotsFit' /\ TsSlotsFit'
  BY DEF DialsOfCalls, DialOfCall, SlotsFit, TsSlotsFit
<1>4. OnIsMeant' /\ AskedIsClosed'
  BY DEF DialsOfCalls, DialOfCall, SlotsFit, TsSlotsFit, OnIsMeant, AskedIsClosed, Slot
<1>5. NoLiveConnectionIsLost' /\ SlotMoves
  BY DEF DialsOfCalls, DialOfCall, SlotsFit, TsSlotsFit, OnIsMeant, NoLiveConnectionIsLost,
         SlotMoves, Slot
<1> QED
  BY <1>1, <1>2, <1>3, <1>4, <1>5

LEMMA TsPingFailsStep ==
  ASSUME IInv, NEW c \in Calls, core = "ts", core' = core, Ts!PingFails(c)
  PROVE  IInv' /\ SlotMoves
<1> USE DEF IInv, TypeOK, Tasks, Dialing, Ts!PingFails, Ts!task, Ts!slot, Ts!link, Ts!history
<1>1. TypeOK'
  BY DEF PCs
<1>2. DialsOfCalls'
  BY DEF DialsOfCalls, DialOfCall, SlotsFit, TsSlotsFit
<1>3. SlotsFit' /\ TsSlotsFit'
  BY DEF DialsOfCalls, DialOfCall, SlotsFit, TsSlotsFit
<1>4. OnIsMeant' /\ AskedIsClosed'
  BY DEF DialsOfCalls, DialOfCall, SlotsFit, TsSlotsFit, OnIsMeant, AskedIsClosed, Slot
<1>5. NoLiveConnectionIsLost' /\ SlotMoves
  BY DEF DialsOfCalls, DialOfCall, SlotsFit, TsSlotsFit, OnIsMeant, NoLiveConnectionIsLost,
         SlotMoves, Slot
<1> QED
  BY <1>1, <1>2, <1>3, <1>4, <1>5

LEMMA TsCloseStep ==
  ASSUME IInv, NEW k \in Closers, core = "ts", core' = core, Ts!Close(k)
  PROVE  IInv' /\ SlotMoves
<1> USE DEF IInv, TypeOK, Tasks, Dialing, Ts!Close, Ts!CountClose, Ts!Wait, Ts!Suspend, Ts!task,
            Ts!slot, Ts!link, Ts!history
<1>1. TypeOK'
  BY DEF PCs
<1>2. DialsOfCalls'
  BY DEF DialsOfCalls, DialOfCall, SlotsFit, TsSlotsFit
<1>3. SlotsFit' /\ TsSlotsFit'
  BY DEF DialsOfCalls, DialOfCall, SlotsFit, TsSlotsFit
<1>4. OnIsMeant' /\ AskedIsClosed'
  BY DEF DialsOfCalls, DialOfCall, SlotsFit, TsSlotsFit, OnIsMeant, AskedIsClosed, Slot
<1>5. NoLiveConnectionIsLost' /\ SlotMoves
  BY DEF DialsOfCalls, DialOfCall, SlotsFit, TsSlotsFit, OnIsMeant, NoLiveConnectionIsLost,
         SlotMoves, Slot
<1> QED
  BY <1>1, <1>2, <1>3, <1>4, <1>5

LEMMA TsCloseWokenStep ==
  ASSUME IInv, NEW k \in Closers, core = "ts", core' = core, Ts!CloseWoken(k)
  PROVE  IInv' /\ SlotMoves
<1> USE DEF IInv, TypeOK, Tasks, Ts!CloseWoken
<1>1. CASE dial[on[k]] = "ok"
  <2>1. Ts!CloseContext(k, on[k]) /\ on[k] \in Calls
    BY <1>1 DEF OnIsMeant
  <2> QED
    BY <1>1, <2>1, TsCloseContextStep DEF Ts!history
<1>2. CASE dial[on[k]] # "ok"
  <2> USE <1>2 DEF Dialing, Ts!CloseReturns, Ts!Wait, Ts!Suspend, Ts!slot, Ts!link
  <2>1. TypeOK'
    BY DEF PCs
  <2>2. DialsOfCalls' /\ SlotsFit' /\ TsSlotsFit'
    BY DEF DialsOfCalls, DialOfCall, SlotsFit, TsSlotsFit
  <2>3. OnIsMeant' /\ AskedIsClosed'
    BY DEF DialsOfCalls, DialOfCall, SlotsFit, TsSlotsFit, OnIsMeant, AskedIsClosed, Slot
  <2>4. NoLiveConnectionIsLost' /\ SlotMoves
    BY DEF NoLiveConnectionIsLost, SlotMoves, Slot
  <2> QED
    BY <2>1, <2>2, <2>3, <2>4
<1> QED
  BY <1>1, <1>2

LEMMA GoOpenStep ==
  ASSUME IInv, NEW c \in Calls, core = "go", core' = core, Go!Open(c)
  PROVE  IInv' /\ SlotMoves
<1> USE DEF IInv, TypeOK, Tasks, Dialing, Go!Open, Go!Enter, Go!StartDial, Go!Wait, Go!Suspend,
            Go!Finish, Go!task, Go!slot, Go!link, Go!history
<1>1. TypeOK'
  BY DEF PCs
<1>2. DialsOfCalls'
  BY DEF DialsOfCalls, DialOfCall, SlotsFit, TsSlotsFit
<1>3. SlotsFit' /\ TsSlotsFit'
  BY DEF DialsOfCalls, DialOfCall, SlotsFit, TsSlotsFit
<1>4. OnIsMeant' /\ AskedIsClosed'
  BY DEF DialsOfCalls, DialOfCall, SlotsFit, TsSlotsFit, OnIsMeant, AskedIsClosed, Slot
<1>5. NoLiveConnectionIsLost' /\ SlotMoves
  BY DEF DialsOfCalls, DialOfCall, SlotsFit, TsSlotsFit, OnIsMeant, NoLiveConnectionIsLost,
         SlotMoves, Slot
<1> QED
  BY <1>1, <1>2, <1>3, <1>4, <1>5

LEMMA GoWokenStep ==
  ASSUME IInv, NEW c \in Calls, core = "go", core' = core, Go!Woken(c)
  PROVE  IInv' /\ SlotMoves
<1> USE DEF IInv, TypeOK, Tasks, Dialing, Go!Woken, Go!Enter, Go!StartDial, Go!Wait, Go!Suspend,
            Go!Finish, Go!task, Go!slot, Go!link, Go!history
<1>1. TypeOK'
  BY DEF PCs
<1>2. DialsOfCalls'
  BY DEF DialsOfCalls, DialOfCall, SlotsFit, TsSlotsFit
<1>3. SlotsFit' /\ TsSlotsFit'
  BY DEF DialsOfCalls, DialOfCall, SlotsFit, TsSlotsFit
<1>4. OnIsMeant' /\ AskedIsClosed'
  BY DEF DialsOfCalls, DialOfCall, SlotsFit, TsSlotsFit, OnIsMeant, AskedIsClosed, Slot
<1>5. NoLiveConnectionIsLost' /\ SlotMoves
  BY DEF DialsOfCalls, DialOfCall, SlotsFit, TsSlotsFit, OnIsMeant, NoLiveConnectionIsLost,
         SlotMoves, Slot
<1> QED
  BY <1>1, <1>2, <1>3, <1>4, <1>5

LEMMA GoCancelJoinStep ==
  ASSUME IInv, NEW c \in Calls, core = "go", core' = core, Go!CancelJoin(c)
  PROVE  IInv' /\ SlotMoves
<1> USE DEF IInv, TypeOK, Tasks, Dialing, Go!CancelJoin, Go!Finish, Go!Suspend, Go!task, Go!slot,
            Go!link, Go!history
<1>1. TypeOK'
  BY DEF PCs
<1>2. DialsOfCalls'
  BY DEF DialsOfCalls, DialOfCall, SlotsFit, TsSlotsFit
<1>3. SlotsFit' /\ TsSlotsFit'
  BY DEF DialsOfCalls, DialOfCall, SlotsFit, TsSlotsFit
<1>4. OnIsMeant' /\ AskedIsClosed'
  BY DEF DialsOfCalls, DialOfCall, SlotsFit, TsSlotsFit, OnIsMeant, AskedIsClosed, Slot
<1>5. NoLiveConnectionIsLost' /\ SlotMoves
  BY DEF DialsOfCalls, DialOfCall, SlotsFit, TsSlotsFit, OnIsMeant, NoLiveConnectionIsLost,
         SlotMoves, Slot
<1> QED
  BY <1>1, <1>2, <1>3, <1>4, <1>5

LEMMA GoDialedStep ==
  ASSUME IInv, NEW c \in Calls, core = "go", core' = core, Go!Dialed(c)
  PROVE  IInv' /\ SlotMoves
<1> USE DEF IInv, TypeOK, Tasks, Dialing, Go!Dialed, Go!Wait, Go!Suspend, Go!task, Go!slot,
            Go!link, Go!history
<1>1. TypeOK'
  BY DEF PCs
<1>2. DialsOfCalls'
  BY DEF DialsOfCalls, DialOfCall, SlotsFit, TsSlotsFit
<1>3. SlotsFit' /\ TsSlotsFit'
  BY DEF DialsOfCalls, DialOfCall, SlotsFit, TsSlotsFit
<1>4. OnIsMeant' /\ AskedIsClosed'
  BY DEF DialsOfCalls, DialOfCall, SlotsFit, TsSlotsFit, OnIsMeant, AskedIsClosed, Slot
<1>5. NoLiveConnectionIsLost' /\ SlotMoves
  BY DEF DialsOfCalls, DialOfCall, SlotsFit, TsSlotsFit, OnIsMeant, NoLiveConnectionIsLost,
         SlotMoves, Slot
<1> QED
  BY <1>1, <1>2, <1>3, <1>4, <1>5

LEMMA GoDialFailsStep ==
  ASSUME IInv, NEW c \in Calls, core = "go", core' = core, Go!DialFails(c)
  PROVE  IInv' /\ SlotMoves
<1> USE DEF IInv, TypeOK, Tasks, Dialing, Go!DialFails, Go!Finish, Go!Suspend, Go!task, Go!slot,
            Go!link, Go!history
<1>1. TypeOK'
  BY DEF PCs
<1>2. DialsOfCalls'
  BY DEF DialsOfCalls, DialOfCall, SlotsFit, TsSlotsFit
<1>3. SlotsFit' /\ TsSlotsFit'
  BY DEF DialsOfCalls, DialOfCall, SlotsFit, TsSlotsFit
<1>4. OnIsMeant' /\ AskedIsClosed'
  BY DEF DialsOfCalls, DialOfCall, SlotsFit, TsSlotsFit, OnIsMeant, AskedIsClosed, Slot
<1>5. NoLiveConnectionIsLost' /\ SlotMoves
  BY DEF DialsOfCalls, DialOfCall, SlotsFit, TsSlotsFit, OnIsMeant, NoLiveConnectionIsLost,
         SlotMoves, Slot
<1> QED
  BY <1>1, <1>2, <1>3, <1>4, <1>5

LEMMA GoGreetedStep ==
  ASSUME IInv, NEW c \in Calls, core = "go", core' = core, Go!Greeted(c)
  PROVE  IInv' /\ SlotMoves
<1> USE DEF IInv, TypeOK, Tasks, Dialing, Go!Greeted, Go!Finish, Go!Suspend, Go!task, Go!slot,
            Go!link, Go!history
<1>1. TypeOK'
  BY DEF PCs
<1>2. DialsOfCalls'
  BY DEF DialsOfCalls, DialOfCall, SlotsFit, TsSlotsFit
<1>3. SlotsFit' /\ TsSlotsFit'
  BY DEF DialsOfCalls, DialOfCall, SlotsFit, TsSlotsFit
<1>4. OnIsMeant' /\ AskedIsClosed'
  BY DEF DialsOfCalls, DialOfCall, SlotsFit, TsSlotsFit, OnIsMeant, AskedIsClosed, Slot
<1>5. NoLiveConnectionIsLost' /\ SlotMoves
  BY DEF DialsOfCalls, DialOfCall, SlotsFit, TsSlotsFit, OnIsMeant, NoLiveConnectionIsLost,
         SlotMoves, Slot
<1> QED
  BY <1>1, <1>2, <1>3, <1>4, <1>5

LEMMA GoGreetFailsStep ==
  ASSUME IInv, NEW c \in Calls, core = "go", core' = core, Go!GreetFails(c)
  PROVE  IInv' /\ SlotMoves
<1> USE DEF IInv, TypeOK, Tasks, Dialing, Go!GreetFails, Go!Wait, Go!Suspend, Go!Shut, Go!task,
            Go!slot, Go!link, Go!history
<1>1. TypeOK'
  BY DEF PCs
<1>2. DialsOfCalls'
  BY DEF DialsOfCalls, DialOfCall, SlotsFit, TsSlotsFit
<1>3. SlotsFit' /\ TsSlotsFit'
  BY DEF DialsOfCalls, DialOfCall, SlotsFit, TsSlotsFit
<1>4. OnIsMeant' /\ AskedIsClosed'
  BY DEF DialsOfCalls, DialOfCall, SlotsFit, TsSlotsFit, OnIsMeant, AskedIsClosed, Slot
<1>5. NoLiveConnectionIsLost' /\ SlotMoves
  BY DEF DialsOfCalls, DialOfCall, SlotsFit, TsSlotsFit, OnIsMeant, NoLiveConnectionIsLost,
         SlotMoves, Slot
<1> QED
  BY <1>1, <1>2, <1>3, <1>4, <1>5

LEMMA GoHungUpStep ==
  ASSUME IInv, NEW c \in Calls, core = "go", core' = core, Go!HungUp(c)
  PROVE  IInv' /\ SlotMoves
<1> USE DEF IInv, TypeOK, Tasks, Dialing, Go!HungUp, Go!Finish, Go!Suspend, Go!task, Go!slot,
            Go!link, Go!history
<1>1. TypeOK'
  BY DEF PCs
<1>2. DialsOfCalls'
  BY DEF DialsOfCalls, DialOfCall, SlotsFit, TsSlotsFit
<1>3. SlotsFit' /\ TsSlotsFit'
  BY DEF DialsOfCalls, DialOfCall, SlotsFit, TsSlotsFit
<1>4. OnIsMeant' /\ AskedIsClosed'
  BY DEF DialsOfCalls, DialOfCall, SlotsFit, TsSlotsFit, OnIsMeant, AskedIsClosed, Slot
<1>5. NoLiveConnectionIsLost' /\ SlotMoves
  BY DEF DialsOfCalls, DialOfCall, SlotsFit, TsSlotsFit, OnIsMeant, NoLiveConnectionIsLost,
         SlotMoves, Slot
<1> QED
  BY <1>1, <1>2, <1>3, <1>4, <1>5

LEMMA GoFailsStep ==
  ASSUME IInv, NEW c \in Calls, core = "go", core' = core, Go!Fails(c)
  PROVE  IInv' /\ SlotMoves
<1> USE DEF IInv, TypeOK, Tasks, Dialing, Go!Fails, Go!Shut, Go!task, Go!slot, Go!link, Go!history
<1>1. TypeOK'
  BY DEF PCs
<1>2. DialsOfCalls'
  BY DEF DialsOfCalls, DialOfCall, SlotsFit, TsSlotsFit
<1>3. SlotsFit' /\ TsSlotsFit'
  BY DEF DialsOfCalls, DialOfCall, SlotsFit, TsSlotsFit
<1>4. OnIsMeant' /\ AskedIsClosed'
  BY DEF DialsOfCalls, DialOfCall, SlotsFit, TsSlotsFit, OnIsMeant, AskedIsClosed, Slot
<1>5. NoLiveConnectionIsLost' /\ SlotMoves
  BY DEF DialsOfCalls, DialOfCall, SlotsFit, TsSlotsFit, OnIsMeant, NoLiveConnectionIsLost,
         SlotMoves, Slot
<1> QED
  BY <1>1, <1>2, <1>3, <1>4, <1>5

LEMMA GoLostStep ==
  ASSUME IInv, NEW c \in Calls, core = "go", core' = core, Go!Lost(c)
  PROVE  IInv' /\ SlotMoves
<1> USE DEF IInv, TypeOK, Tasks, Dialing, Go!Lost, Go!task, Go!slot, Go!link, Go!history
<1>1. TypeOK'
  BY DEF PCs
<1>2. DialsOfCalls'
  BY DEF DialsOfCalls, DialOfCall, SlotsFit, TsSlotsFit
<1>3. SlotsFit' /\ TsSlotsFit'
  BY DEF DialsOfCalls, DialOfCall, SlotsFit, TsSlotsFit
<1>4. OnIsMeant' /\ AskedIsClosed'
  BY DEF DialsOfCalls, DialOfCall, SlotsFit, TsSlotsFit, OnIsMeant, AskedIsClosed, Slot
<1>5. NoLiveConnectionIsLost' /\ SlotMoves
  BY DEF DialsOfCalls, DialOfCall, SlotsFit, TsSlotsFit, OnIsMeant, NoLiveConnectionIsLost,
         SlotMoves, Slot
<1> QED
  BY <1>1, <1>2, <1>3, <1>4, <1>5

LEMMA GoNoticedStep ==
  ASSUME IInv, NEW c \in Calls, core = "go", core' = core, Go!Noticed(c)
  PROVE  IInv' /\ SlotMoves
<1> USE DEF IInv, TypeOK, Tasks, Dialing, Go!Noticed, Go!task, Go!slot, Go!link, Go!history
<1>1. TypeOK'
  BY DEF PCs
<1>2. DialsOfCalls'
  BY DEF DialsOfCalls, DialOfCall, SlotsFit, TsSlotsFit
<1>3. SlotsFit' /\ TsSlotsFit'
  BY DEF DialsOfCalls, DialOfCall, SlotsFit, TsSlotsFit
<1>4. OnIsMeant' /\ AskedIsClosed'
  BY DEF DialsOfCalls, DialOfCall, SlotsFit, TsSlotsFit, OnIsMeant, AskedIsClosed, Slot
<1>5. NoLiveConnectionIsLost' /\ SlotMoves
  BY DEF DialsOfCalls, DialOfCall, SlotsFit, TsSlotsFit, OnIsMeant, NoLiveConnectionIsLost,
         SlotMoves, Slot
<1> QED
  BY <1>1, <1>2, <1>3, <1>4, <1>5

LEMMA GoCloseStep ==
  ASSUME IInv, NEW k \in Closers, core = "go", core' = core, Go!Close(k)
  PROVE  IInv' /\ SlotMoves
<1> USE DEF IInv, TypeOK, Tasks, Dialing, Go!Close, Go!CountClose, Go!Wait, Go!Suspend, Go!task,
            Go!slot, Go!link, Go!history
<1>1. TypeOK'
  BY DEF PCs
<1>2. DialsOfCalls'
  BY DEF DialsOfCalls, DialOfCall, SlotsFit, TsSlotsFit, OnIsMeant
<1>3. SlotsFit' /\ TsSlotsFit'
  BY DEF DialsOfCalls, DialOfCall, SlotsFit, TsSlotsFit
<1>4. OnIsMeant' /\ AskedIsClosed'
  BY DEF DialsOfCalls, DialOfCall, SlotsFit, TsSlotsFit, OnIsMeant, AskedIsClosed, Slot
<1>5. NoLiveConnectionIsLost' /\ SlotMoves
  BY DEF DialsOfCalls, DialOfCall, SlotsFit, TsSlotsFit, OnIsMeant, NoLiveConnectionIsLost,
         SlotMoves, Slot
<1> QED
  BY <1>1, <1>2, <1>3, <1>4, <1>5

LEMMA GoCloseAbortsStep ==
  ASSUME IInv, NEW k \in Closers, core = "go", core' = core, Go!CloseAborts(k)
  PROVE  IInv' /\ SlotMoves
<1> USE DEF IInv, TypeOK, Tasks, Dialing, Go!CloseAborts, Go!Wait, Go!Suspend, Go!Shut, Go!task,
            Go!slot, Go!link, Go!history
<1>1. TypeOK'
  BY DEF PCs
<1>2. DialsOfCalls'
  BY DEF DialsOfCalls, DialOfCall, SlotsFit, TsSlotsFit, OnIsMeant
<1>3. SlotsFit' /\ TsSlotsFit'
  BY DEF DialsOfCalls, DialOfCall, SlotsFit, TsSlotsFit
<1>4. OnIsMeant' /\ AskedIsClosed'
  BY DEF DialsOfCalls, DialOfCall, SlotsFit, TsSlotsFit, OnIsMeant, AskedIsClosed, Slot
<1>5. NoLiveConnectionIsLost' /\ SlotMoves
  BY DEF DialsOfCalls, DialOfCall, SlotsFit, TsSlotsFit, OnIsMeant, NoLiveConnectionIsLost,
         SlotMoves, Slot
<1> QED
  BY <1>1, <1>2, <1>3, <1>4, <1>5

LEMMA GoCloseEndsStep ==
  ASSUME IInv, NEW k \in Closers, core = "go", core' = core, Go!CloseEnds(k)
  PROVE  IInv' /\ SlotMoves
<1> USE DEF IInv, TypeOK, Tasks, Dialing, Go!CloseEnds, Go!CloseReturns, Go!Wait, Go!Suspend,
            Go!task, Go!slot, Go!link, Go!history
<1>1. TypeOK'
  BY DEF PCs
<1>2. DialsOfCalls'
  BY DEF DialsOfCalls, DialOfCall, SlotsFit, TsSlotsFit, OnIsMeant
<1>3. SlotsFit' /\ TsSlotsFit'
  BY DEF DialsOfCalls, DialOfCall, SlotsFit, TsSlotsFit
<1>4. OnIsMeant' /\ AskedIsClosed'
  BY DEF DialsOfCalls, DialOfCall, SlotsFit, TsSlotsFit, OnIsMeant, AskedIsClosed, Slot
<1>5. NoLiveConnectionIsLost' /\ SlotMoves
  BY DEF DialsOfCalls, DialOfCall, SlotsFit, TsSlotsFit, OnIsMeant, NoLiveConnectionIsLost,
         SlotMoves, Slot
<1> QED
  BY <1>1, <1>2, <1>3, <1>4, <1>5

LEMMA RustOpenStep ==
  ASSUME IInv, NEW c \in Calls, core = "rust", core' = core, Rust!Open(c)
  PROVE  IInv' /\ SlotMoves
<1> USE DEF IInv, TypeOK, Tasks, Dialing, Rust!Open, Rust!Wait, Rust!Suspend, Rust!task,
            Rust!slot, Rust!link, Rust!history
<1>1. TypeOK'
  BY DEF PCs
<1>2. DialsOfCalls'
  BY DEF DialsOfCalls, DialOfCall, SlotsFit, TsSlotsFit
<1>3. SlotsFit' /\ TsSlotsFit'
  BY DEF DialsOfCalls, DialOfCall, SlotsFit, TsSlotsFit
<1>4. OnIsMeant' /\ AskedIsClosed'
  BY DEF DialsOfCalls, DialOfCall, SlotsFit, TsSlotsFit, OnIsMeant, AskedIsClosed, Slot
<1>5. NoLiveConnectionIsLost' /\ SlotMoves
  BY DEF DialsOfCalls, DialOfCall, SlotsFit, TsSlotsFit, OnIsMeant, NoLiveConnectionIsLost,
         SlotMoves, Slot
<1> QED
  BY <1>1, <1>2, <1>3, <1>4, <1>5

LEMMA RustEnterStep ==
  ASSUME IInv, NEW c \in Calls, core = "rust", core' = core, Rust!Enter(c)
  PROVE  IInv' /\ SlotMoves
<1> USE DEF IInv, TypeOK, Tasks, Dialing, Rust!Enter, Rust!Locked, Rust!Finish, Rust!Suspend,
            Rust!Wait, Rust!StartDial, Rust!task, Rust!slot, Rust!link, Rust!history
<1>1. TypeOK'
  BY DEF PCs
<1>2. DialsOfCalls'
  BY DEF DialsOfCalls, DialOfCall, SlotsFit, TsSlotsFit
<1>3. SlotsFit' /\ TsSlotsFit'
  BY DEF DialsOfCalls, DialOfCall, SlotsFit, TsSlotsFit
<1>4. OnIsMeant' /\ AskedIsClosed'
  BY DEF DialsOfCalls, DialOfCall, SlotsFit, TsSlotsFit, OnIsMeant, AskedIsClosed, Slot
<1>5. NoLiveConnectionIsLost' /\ SlotMoves
  BY DEF DialsOfCalls, DialOfCall, SlotsFit, TsSlotsFit, OnIsMeant, NoLiveConnectionIsLost,
         SlotMoves, Slot
<1> QED
  BY <1>1, <1>2, <1>3, <1>4, <1>5

LEMMA RustDialedStep ==
  ASSUME IInv, NEW c \in Calls, core = "rust", core' = core, Rust!Dialed(c)
  PROVE  IInv' /\ SlotMoves
<1> USE DEF IInv, TypeOK, Tasks, Dialing, Rust!Dialed, Rust!Wait, Rust!Suspend, Rust!task,
            Rust!slot, Rust!link, Rust!history
<1>1. TypeOK'
  BY DEF PCs
<1>2. DialsOfCalls'
  BY DEF DialsOfCalls, DialOfCall, SlotsFit, TsSlotsFit
<1>3. SlotsFit' /\ TsSlotsFit'
  BY DEF DialsOfCalls, DialOfCall, SlotsFit, TsSlotsFit
<1>4. OnIsMeant' /\ AskedIsClosed'
  BY DEF DialsOfCalls, DialOfCall, SlotsFit, TsSlotsFit, OnIsMeant, AskedIsClosed, Slot
<1>5. NoLiveConnectionIsLost' /\ SlotMoves
  BY DEF DialsOfCalls, DialOfCall, SlotsFit, TsSlotsFit, OnIsMeant, NoLiveConnectionIsLost,
         SlotMoves, Slot
<1> QED
  BY <1>1, <1>2, <1>3, <1>4, <1>5

LEMMA RustDialFailsStep ==
  ASSUME IInv, NEW c \in Calls, core = "rust", core' = core, Rust!DialFails(c)
  PROVE  IInv' /\ SlotMoves
<1> USE DEF IInv, TypeOK, Tasks, Dialing, Rust!DialFails, Rust!GiveUp, Rust!Finish, Rust!Suspend,
            Rust!task, Rust!slot, Rust!link, Rust!history
<1>1. TypeOK'
  BY DEF PCs
<1>2. DialsOfCalls'
  BY DEF DialsOfCalls, DialOfCall, SlotsFit, TsSlotsFit
<1>3. SlotsFit' /\ TsSlotsFit'
  BY DEF DialsOfCalls, DialOfCall, SlotsFit, TsSlotsFit
<1>4. OnIsMeant' /\ AskedIsClosed'
  BY DEF DialsOfCalls, DialOfCall, SlotsFit, TsSlotsFit, OnIsMeant, AskedIsClosed, Slot
<1>5. NoLiveConnectionIsLost' /\ SlotMoves
  BY DEF DialsOfCalls, DialOfCall, SlotsFit, TsSlotsFit, OnIsMeant, NoLiveConnectionIsLost,
         SlotMoves, Slot
<1> QED
  BY <1>1, <1>2, <1>3, <1>4, <1>5

LEMMA RustGreetedStep ==
  ASSUME IInv, NEW c \in Calls, core = "rust", core' = core, Rust!Greeted(c)
  PROVE  IInv' /\ SlotMoves
<1> USE DEF IInv, TypeOK, Tasks, Dialing, Rust!Greeted, Rust!Finish, Rust!Suspend, Rust!Shut,
            Rust!task, Rust!slot, Rust!link, Rust!history
<1>1. TypeOK'
  BY DEF PCs
<1>2. DialsOfCalls'
  BY DEF DialsOfCalls, DialOfCall, SlotsFit, TsSlotsFit
<1>3. SlotsFit' /\ TsSlotsFit'
  BY DEF DialsOfCalls, DialOfCall, SlotsFit, TsSlotsFit
<1>4. OnIsMeant' /\ AskedIsClosed'
  BY DEF DialsOfCalls, DialOfCall, SlotsFit, TsSlotsFit, OnIsMeant, AskedIsClosed, Slot
<1>5. NoLiveConnectionIsLost' /\ SlotMoves
  BY DEF DialsOfCalls, DialOfCall, SlotsFit, TsSlotsFit, OnIsMeant, NoLiveConnectionIsLost,
         SlotMoves, Slot
<1> QED
  BY <1>1, <1>2, <1>3, <1>4, <1>5

LEMMA RustGreetFailsStep ==
  ASSUME IInv, NEW c \in Calls, core = "rust", core' = core, Rust!GreetFails(c)
  PROVE  IInv' /\ SlotMoves
<1> USE DEF IInv, TypeOK, Tasks, Dialing, Rust!GreetFails, Rust!Wait, Rust!Suspend, Rust!Shut,
            Rust!task, Rust!slot, Rust!link, Rust!history
<1>1. TypeOK'
  BY DEF PCs
<1>2. DialsOfCalls'
  BY DEF DialsOfCalls, DialOfCall, SlotsFit, TsSlotsFit
<1>3. SlotsFit' /\ TsSlotsFit'
  BY DEF DialsOfCalls, DialOfCall, SlotsFit, TsSlotsFit
<1>4. OnIsMeant' /\ AskedIsClosed'
  BY DEF DialsOfCalls, DialOfCall, SlotsFit, TsSlotsFit, OnIsMeant, AskedIsClosed, Slot
<1>5. NoLiveConnectionIsLost' /\ SlotMoves
  BY DEF DialsOfCalls, DialOfCall, SlotsFit, TsSlotsFit, OnIsMeant, NoLiveConnectionIsLost,
         SlotMoves, Slot
<1> QED
  BY <1>1, <1>2, <1>3, <1>4, <1>5

LEMMA RustHungUpStep ==
  ASSUME IInv, NEW c \in Calls, core = "rust", core' = core, Rust!HungUp(c)
  PROVE  IInv' /\ SlotMoves
<1> USE DEF IInv, TypeOK, Tasks, Dialing, Rust!HungUp, Rust!GiveUp, Rust!Finish, Rust!Suspend,
            Rust!task, Rust!slot, Rust!link, Rust!history
<1>1. TypeOK'
  BY DEF PCs
<1>2. DialsOfCalls'
  BY DEF DialsOfCalls, DialOfCall, SlotsFit, TsSlotsFit
<1>3. SlotsFit' /\ TsSlotsFit'
  BY DEF DialsOfCalls, DialOfCall, SlotsFit, TsSlotsFit
<1>4. OnIsMeant' /\ AskedIsClosed'
  BY DEF DialsOfCalls, DialOfCall, SlotsFit, TsSlotsFit, OnIsMeant, AskedIsClosed, Slot
<1>5. NoLiveConnectionIsLost' /\ SlotMoves
  BY DEF DialsOfCalls, DialOfCall, SlotsFit, TsSlotsFit, OnIsMeant, NoLiveConnectionIsLost,
         SlotMoves, Slot
<1> QED
  BY <1>1, <1>2, <1>3, <1>4, <1>5

LEMMA RustDropOpenStep ==
  ASSUME IInv, NEW c \in Calls, core = "rust", core' = core, Rust!DropOpen(c)
  PROVE  IInv' /\ SlotMoves
<1> USE DEF IInv, TypeOK, Tasks, Dialing, Rust!DropOpen, Rust!GiveUp, Rust!Finish, Rust!Suspend,
            Rust!Shut, Rust!task, Rust!slot, Rust!link, Rust!history
<1>1. TypeOK'
  BY DEF PCs
<1>2. DialsOfCalls'
  BY DEF DialsOfCalls, DialOfCall, SlotsFit, TsSlotsFit
<1>3. SlotsFit' /\ TsSlotsFit'
  BY DEF DialsOfCalls, DialOfCall, SlotsFit, TsSlotsFit
<1>4. OnIsMeant' /\ AskedIsClosed'
  BY DEF DialsOfCalls, DialOfCall, SlotsFit, TsSlotsFit, OnIsMeant, AskedIsClosed, Slot
<1>5. NoLiveConnectionIsLost' /\ SlotMoves
  BY DEF DialsOfCalls, DialOfCall, SlotsFit, TsSlotsFit, OnIsMeant, NoLiveConnectionIsLost,
         SlotMoves, Slot
<1> QED
  BY <1>1, <1>2, <1>3, <1>4, <1>5

LEMMA RustFailsStep ==
  ASSUME IInv, NEW c \in Calls, core = "rust", core' = core, Rust!Fails(c)
  PROVE  IInv' /\ SlotMoves
<1> USE DEF IInv, TypeOK, Tasks, Dialing, Rust!Fails, Rust!Shut, Rust!task, Rust!slot, Rust!link,
            Rust!history
<1>1. TypeOK'
  BY DEF PCs
<1>2. DialsOfCalls'
  BY DEF DialsOfCalls, DialOfCall, SlotsFit, TsSlotsFit
<1>3. SlotsFit' /\ TsSlotsFit'
  BY DEF DialsOfCalls, DialOfCall, SlotsFit, TsSlotsFit
<1>4. OnIsMeant' /\ AskedIsClosed'
  BY DEF DialsOfCalls, DialOfCall, SlotsFit, TsSlotsFit, OnIsMeant, AskedIsClosed, Slot
<1>5. NoLiveConnectionIsLost' /\ SlotMoves
  BY DEF DialsOfCalls, DialOfCall, SlotsFit, TsSlotsFit, OnIsMeant, NoLiveConnectionIsLost,
         SlotMoves, Slot
<1> QED
  BY <1>1, <1>2, <1>3, <1>4, <1>5

LEMMA RustLostStep ==
  ASSUME IInv, NEW c \in Calls, core = "rust", core' = core, Rust!Lost(c)
  PROVE  IInv' /\ SlotMoves
<1> USE DEF IInv, TypeOK, Tasks, Dialing, Rust!Lost, Rust!task, Rust!slot, Rust!link, Rust!history
<1>1. TypeOK'
  BY DEF PCs
<1>2. DialsOfCalls'
  BY DEF DialsOfCalls, DialOfCall, SlotsFit, TsSlotsFit
<1>3. SlotsFit' /\ TsSlotsFit'
  BY DEF DialsOfCalls, DialOfCall, SlotsFit, TsSlotsFit
<1>4. OnIsMeant' /\ AskedIsClosed'
  BY DEF DialsOfCalls, DialOfCall, SlotsFit, TsSlotsFit, OnIsMeant, AskedIsClosed, Slot
<1>5. NoLiveConnectionIsLost' /\ SlotMoves
  BY DEF DialsOfCalls, DialOfCall, SlotsFit, TsSlotsFit, OnIsMeant, NoLiveConnectionIsLost,
         SlotMoves, Slot
<1> QED
  BY <1>1, <1>2, <1>3, <1>4, <1>5

LEMMA RustNoticedStep ==
  ASSUME IInv, NEW c \in Calls, core = "rust", core' = core, Rust!Noticed(c)
  PROVE  IInv' /\ SlotMoves
<1> USE DEF IInv, TypeOK, Tasks, Dialing, Rust!Noticed, Rust!task, Rust!slot, Rust!link,
            Rust!history
<1>1. TypeOK'
  BY DEF PCs
<1>2. DialsOfCalls'
  BY DEF DialsOfCalls, DialOfCall, SlotsFit, TsSlotsFit
<1>3. SlotsFit' /\ TsSlotsFit'
  BY DEF DialsOfCalls, DialOfCall, SlotsFit, TsSlotsFit
<1>4. OnIsMeant' /\ AskedIsClosed'
  BY DEF DialsOfCalls, DialOfCall, SlotsFit, TsSlotsFit, OnIsMeant, AskedIsClosed, Slot
<1>5. NoLiveConnectionIsLost' /\ SlotMoves
  BY DEF DialsOfCalls, DialOfCall, SlotsFit, TsSlotsFit, OnIsMeant, NoLiveConnectionIsLost,
         SlotMoves, Slot
<1> QED
  BY <1>1, <1>2, <1>3, <1>4, <1>5

LEMMA RustCloseStep ==
  ASSUME IInv, NEW k \in Closers, core = "rust", core' = core, Rust!Close(k)
  PROVE  IInv' /\ SlotMoves
<1> USE DEF IInv, TypeOK, Tasks, Dialing, Rust!Close, Rust!CountClose, Rust!Wait, Rust!Suspend,
            Rust!task, Rust!slot, Rust!link, Rust!history
<1>1. TypeOK'
  BY DEF PCs
<1>2. DialsOfCalls'
  BY DEF DialsOfCalls, DialOfCall, SlotsFit, TsSlotsFit
<1>3. SlotsFit' /\ TsSlotsFit'
  BY DEF DialsOfCalls, DialOfCall, SlotsFit, TsSlotsFit
<1>4. OnIsMeant' /\ AskedIsClosed'
  BY DEF DialsOfCalls, DialOfCall, SlotsFit, TsSlotsFit, OnIsMeant, AskedIsClosed, Slot
<1>5. NoLiveConnectionIsLost' /\ SlotMoves
  BY DEF DialsOfCalls, DialOfCall, SlotsFit, TsSlotsFit, OnIsMeant, NoLiveConnectionIsLost,
         SlotMoves, Slot
<1> QED
  BY <1>1, <1>2, <1>3, <1>4, <1>5

LEMMA RustCloseEnterStep ==
  ASSUME IInv, NEW k \in Closers, core = "rust", core' = core, Rust!CloseEnter(k)
  PROVE  IInv' /\ SlotMoves
<1> USE DEF IInv, TypeOK, Tasks, Dialing, Rust!CloseEnter, Rust!Locked, Rust!CloseReturns,
            Rust!Wait, Rust!Suspend, Rust!Shut, Rust!task, Rust!slot, Rust!link, Rust!history
<1>1. TypeOK'
  <2>1. CASE current = None
    BY <2>1 DEF PCs
  <2>2. CASE current # None
    <3>1. pc' = [pc EXCEPT ![k] = "closing"] /\ on' = [on EXCEPT ![k] = current]
      BY <2>2
    <3>2. ended' = [ended EXCEPT ![current] = TRUE] /\ UNCHANGED <<closes, asked>>
      BY <2>2
    <3>3. wire' = [wire EXCEPT ![current] = IF @ = "open" THEN "closing" ELSE @]
      BY <2>2
    <3> QED
      BY <2>2, <3>1, <3>2, <3>3 DEF PCs
  <2> QED
    BY <2>1, <2>2
<1>2. DialsOfCalls'
  BY DEF DialsOfCalls, DialOfCall, SlotsFit, TsSlotsFit
<1>3. SlotsFit' /\ TsSlotsFit'
  BY DEF DialsOfCalls, DialOfCall, SlotsFit, TsSlotsFit
<1>4. OnIsMeant' /\ AskedIsClosed'
  BY DEF DialsOfCalls, DialOfCall, SlotsFit, TsSlotsFit, OnIsMeant, AskedIsClosed, Slot
<1>5. NoLiveConnectionIsLost' /\ SlotMoves
  BY DEF DialsOfCalls, DialOfCall, SlotsFit, TsSlotsFit, OnIsMeant, NoLiveConnectionIsLost,
         SlotMoves, Slot
<1> QED
  BY <1>1, <1>2, <1>3, <1>4, <1>5

LEMMA RustCloseEndsStep ==
  ASSUME IInv, NEW k \in Closers, core = "rust", core' = core, Rust!CloseEnds(k)
  PROVE  IInv' /\ SlotMoves
<1> USE DEF IInv, TypeOK, Tasks, Dialing, Rust!CloseEnds, Rust!CloseReturns, Rust!Wait,
            Rust!Suspend, Rust!task, Rust!slot, Rust!link, Rust!history
<1>1. TypeOK'
  BY DEF PCs
<1>2. DialsOfCalls'
  BY DEF DialsOfCalls, DialOfCall, SlotsFit, TsSlotsFit
<1>3. SlotsFit' /\ TsSlotsFit'
  BY DEF DialsOfCalls, DialOfCall, SlotsFit, TsSlotsFit
<1>4. OnIsMeant' /\ AskedIsClosed'
  BY DEF DialsOfCalls, DialOfCall, SlotsFit, TsSlotsFit, OnIsMeant, AskedIsClosed, Slot
<1>5. NoLiveConnectionIsLost' /\ SlotMoves
  BY DEF DialsOfCalls, DialOfCall, SlotsFit, TsSlotsFit, OnIsMeant, NoLiveConnectionIsLost,
         SlotMoves, Slot
<1> QED
  BY <1>1, <1>2, <1>3, <1>4, <1>5

LEMMA RustDropCloseStep ==
  ASSUME IInv, NEW k \in Closers, core = "rust", core' = core, Rust!DropClose(k)
  PROVE  IInv' /\ SlotMoves
<1> USE DEF IInv, TypeOK, Tasks, Dialing, Rust!DropClose, Rust!CloseReturns, Rust!Wait,
            Rust!Suspend, Rust!task, Rust!slot, Rust!link, Rust!history
<1>1. TypeOK'
  BY DEF PCs
<1>2. DialsOfCalls'
  BY DEF DialsOfCalls, DialOfCall, SlotsFit, TsSlotsFit
<1>3. SlotsFit' /\ TsSlotsFit'
  BY DEF DialsOfCalls, DialOfCall, SlotsFit, TsSlotsFit
<1>4. OnIsMeant' /\ AskedIsClosed'
  BY DEF DialsOfCalls, DialOfCall, SlotsFit, TsSlotsFit, OnIsMeant, AskedIsClosed, Slot
<1>5. NoLiveConnectionIsLost' /\ SlotMoves
  BY DEF DialsOfCalls, DialOfCall, SlotsFit, TsSlotsFit, OnIsMeant, NoLiveConnectionIsLost,
         SlotMoves, Slot
<1> QED
  BY <1>1, <1>2, <1>3, <1>4, <1>5

LEMMA TsClosingEndsStep ==
  ASSUME IInv, core = "ts", core' = core, Ts!ClosingEnds
  PROVE  IInv' /\ SlotMoves
<1> DEFINE waiting == {t \in Tasks : pc[t] \in {"closing", "borrowing"}}
<1>1. /\ pc' = [t \in Tasks |-> IF t \notin waiting THEN pc[t]
                                ELSE IF t \in Calls THEN "again" ELSE "idle"]
      /\ on' = [t \in Tasks |-> IF t \in waiting THEN None ELSE on[t]]
      /\ asked' = [k \in Closers |-> IF k \in waiting THEN {} ELSE asked[k]]
      /\ closing' = None
      /\ UNCHANGED <<outcome, dial, opening, current, wire, ended, closes>>
  BY DEF Ts!ClosingEnds, Ts!Tasks, Tasks, Ts!slot, Ts!link
<1>2. TypeOK'
  BY <1>1 DEF IInv, TypeOK, Tasks, PCs
<1>3. DialsOfCalls' /\ SlotsFit' /\ TsSlotsFit'
  BY <1>1 DEF IInv, TypeOK, Tasks, Dialing, DialsOfCalls, DialOfCall, SlotsFit, TsSlotsFit
<1>4. OnIsMeant' /\ AskedIsClosed'
  BY <1>1 DEF IInv, TypeOK, Tasks, OnIsMeant, AskedIsClosed, Slot
<1>5. NoLiveConnectionIsLost' /\ SlotMoves
  BY <1>1 DEF IInv, TypeOK, Tasks, TsSlotsFit, NoLiveConnectionIsLost, SlotMoves, Slot
<1> QED
  BY <1>2, <1>3, <1>4, <1>5 DEF IInv

-----------------------------------------------------------------------------

LEMMA InitInv == CoresInit => IInv
  BY DEF CoresInit, Init, IInv, TypeOK, Tasks, PCs, Dialing, DialsOfCalls, DialOfCall,
         SlotsFit, TsSlotsFit, OnIsMeant, AskedIsClosed, NoLiveConnectionIsLost, Slot

LEMMA NextInv ==
  ASSUME IInv, CoresNext
  PROVE  IInv' /\ SlotMoves
<1>1. CASE TsNext
  BY <1>1, TsOpenStep, TsReopenStep, TsDialedStep, TsDialFailsStep, TsGreetsStep,
     TsGreetedStep, TsGreetFailsStep, TsWokenStep, TsPeerClosesStep, TsGoneStep, TsBadMessageStep, TsPingFailsStep,
     TsCloseStep, TsCloseWokenStep, TsClosingEndsStep
     DEF CoresNext, TsNext, Ts!Next
<1>2. CASE GoNext
  BY <1>2, GoOpenStep, GoWokenStep, GoCancelJoinStep, GoDialedStep,
     GoDialFailsStep, GoGreetedStep, GoGreetFailsStep, GoHungUpStep,
     GoFailsStep, GoLostStep, GoNoticedStep, GoCloseStep,
     GoCloseAbortsStep, GoCloseEndsStep
     DEF CoresNext, GoNext, Go!Next
<1>3. CASE RustNext
  BY <1>3, RustOpenStep, RustEnterStep, RustDialedStep, RustDialFailsStep,
     RustGreetedStep, RustGreetFailsStep, RustHungUpStep, RustDropOpenStep,
     RustFailsStep, RustLostStep, RustNoticedStep, RustCloseStep,
     RustCloseEnterStep, RustCloseEndsStep, RustDropCloseStep
     DEF CoresNext, RustNext, Rust!Next
<1> QED
  BY <1>1, <1>2, <1>3 DEF CoresNext

LEMMA StutterInv ==
  ASSUME IInv, UNCHANGED allvars
  PROVE  IInv' /\ SlotMoves
<1> USE DEF allvars, vars, task, slot, link, history
<1>1. TypeOK' /\ DialsOfCalls' /\ SlotsFit' /\ TsSlotsFit'
  BY DEF IInv, TypeOK, DialsOfCalls, DialOfCall, SlotsFit, TsSlotsFit
<1>2. OnIsMeant' /\ AskedIsClosed' /\ NoLiveConnectionIsLost' /\ SlotMoves
  BY DEF IInv, OnIsMeant, AskedIsClosed, NoLiveConnectionIsLost, SlotMoves, Slot
<1> QED
  BY <1>1, <1>2 DEF IInv

\* IInv holds in every state of every client of the three cores.
THEOREM Invariance == CoresSpec => []IInv
<1>1. IInv /\ [CoresNext]_allvars => IInv'
  BY NextInv, StutterInv
<1> QED
  BY InitInv, <1>1, PTL DEF CoresSpec

\* Every variable stays in its type (CoreSocket.TypeOK), whichever core it is of.
THEOREM TypeCorrect == CoresSpec => []TypeOK
<1>1. IInv => TypeOK
  BY DEF IInv
<1> QED
  BY Invariance, <1>1, PTL

\* No live connection is lost: it is in the slot or a Go Close is about to
\* abort it, unless a TypeScript greeting failed on it (open and close of the
\* three cores).
THEOREM NothingAliveIsLost == CoresSpec => []NoLiveConnectionIsLost
<1>1. IInv => NoLiveConnectionIsLost
  BY DEF IInv
<1> QED
  BY Invariance, <1>1, PTL

\* A close() returns from waiting for a dial only when the dial has failed, and
\* only TypeScript's waits for one, or for the closing of another connection.
LEMMA CloseWaitsOnlyInTs ==
  ASSUME IInv, CoresNext, NEW k \in Closers, core # "go",
         pc[k] \in {"joining", "borrowing"}, pc'[k] = "idle"
  PROVE  core = "ts" /\ (pc[k] = "joining" => dial[on[k]] = "failed")
<1> USE DEF IInv, TypeOK, Tasks
<1>1. CASE TsNext
  <2>1. ASSUME NEW c \in Calls, Ts!Open(c) \/ Ts!Reopen(c) \/ Ts!Dialed(c) \/ Ts!DialFails(c)
                                  \/ Ts!Greets(c) \/ Ts!Greeted(c) \/ Ts!GreetFails(c)
                                  \/ Ts!Woken(c)
        PROVE  FALSE
    BY <2>1 DEF Ts!Open, Ts!Reopen, Ts!Enter, Ts!StartDial, Ts!Dialed, Ts!Published, Ts!DialFails,
         Ts!Rejected, Ts!Greets, Ts!Greeted, Ts!GreetFails, Ts!Woken, Ts!CloseContext, Ts!Wait,
         Ts!Finish, Ts!Suspend
  <2>2. ASSUME NEW c \in Calls, Ts!PeerCloses(c) \/ Ts!Gone(c) \/ Ts!BadMessage(c) \/ Ts!PingFails(c)
        PROVE  FALSE
    BY <2>2 DEF Ts!PeerCloses, Ts!Gone, Ts!BadMessage, Ts!PingFails, Ts!task
  <2>3. ASSUME NEW m \in Closers, Ts!Close(m)
        PROVE  FALSE
    BY <2>3 DEF Ts!Close, Ts!CountClose, Ts!Wait, Ts!Suspend
  <2>4. ASSUME NEW m \in Closers, Ts!CloseWoken(m)
        PROVE  pc[k] = "joining" /\ dial[on[k]] = "failed"
    BY <2>4 DEF Ts!CloseWoken, Ts!CloseReturns, Ts!CloseContext, Ts!Wait, Ts!Suspend
  <2>5. ASSUME Ts!ClosingEnds
        PROVE  pc[k] = "borrowing"
    BY <2>5 DEF Ts!ClosingEnds, Ts!Tasks
  <2> QED
    BY <1>1, <2>1, <2>2, <2>3, <2>4, <2>5 DEF TsNext, Ts!Next
<1>2. CASE RustNext
  <2>1. ASSUME NEW c \in Calls, Rust!Open(c) \/ Rust!Enter(c) \/ Rust!Dialed(c) \/ Rust!DialFails(c)
                                  \/ Rust!Greeted(c) \/ Rust!GreetFails(c) \/ Rust!HungUp(c)
                                  \/ Rust!DropOpen(c)
        PROVE  FALSE
    BY <2>1 DEF Rust!Open, Rust!Enter, Rust!StartDial, Rust!Dialed, Rust!DialFails, Rust!GiveUp,
         Rust!Greeted, Rust!GreetFails, Rust!HungUp, Rust!DropOpen, Rust!Wait, Rust!Finish,
         Rust!Suspend
  <2>2. ASSUME NEW c \in Calls, Rust!Fails(c) \/ Rust!Lost(c) \/ Rust!Noticed(c)
        PROVE  FALSE
    BY <2>2 DEF Rust!Fails, Rust!Lost, Rust!Noticed, Rust!task
  <2>3. ASSUME NEW m \in Closers, Rust!Close(m) \/ Rust!CloseEnter(m) \/ Rust!CloseEnds(m)
                                    \/ Rust!DropClose(m)
        PROVE  FALSE
    BY <2>3 DEF Rust!Close, Rust!CountClose, Rust!CloseEnter, Rust!CloseEnds, Rust!DropClose,
         Rust!CloseReturns, Rust!Wait, Rust!Suspend
  <2> QED
    BY <1>2, <2>1, <2>2, <2>3 DEF RustNext, Rust!Next
<1> QED
  BY <1>1, <1>2 DEF CoresNext, GoNext

\* A close() that waited for a dial or a closing leaves nothing it was asked to
\* close in the slot, unless it borrowed the closing of another connection
\* (TypeScript's closeContext, Rust's close).
THEOREM CloseIsThorough == CoresSpec => CloseLeavesNothingBehind
<1> DEFINE A == \A k \in Closers :
                  core # "go" /\ pc[k] \in {"joining", "closing", "borrowing"} /\ pc'[k] = "idle"
                    => Slot' \notin asked[k] \/ Borrowed(k)
<1>1. IInv /\ [CoresNext]_allvars => [A]_allvars
  <2> SUFFICES ASSUME IInv, CoresNext
               PROVE  A
    OBVIOUS
  <2> SUFFICES ASSUME NEW k \in Closers, core # "go",
                      pc[k] \in {"joining", "closing", "borrowing"}, pc'[k] = "idle"
               PROVE  Slot' \notin asked[k] \/ Borrowed(k)
    OBVIOUS
  <2>1. Slot' # Slot => Slot' \notin asked[k]
    <3>1. SlotMoves
      BY NextInv
    <3> QED
      BY <3>1 DEF IInv, TypeOK, AskedIsClosed, SlotMoves
  <2>2. CASE pc[k] = "closing"
    BY <2>1, <2>2 DEF IInv, AskedIsClosed
  <2>3. CASE pc[k] = "borrowing"
    BY <2>1, <2>3, CloseWaitsOnlyInTs DEF IInv, AskedIsClosed, Borrowed
  <2>4. CASE pc[k] = "joining"
    <3>1. core = "ts" /\ dial[on[k]] = "failed"
      BY <2>4, CloseWaitsOnlyInTs
    <3>2. Slot # on[k]
      BY <3>1, <2>4 DEF IInv, TypeOK, Tasks, OnIsMeant, SlotsFit, Slot
    <3> QED
      BY <2>1, <2>4, <3>1, <3>2 DEF IInv, AskedIsClosed
  <2> QED
    BY <2>2, <2>3, <2>4
<1> QED
  BY Invariance, <1>1, PTL DEF CoresSpec, CloseLeavesNothingBehind

-----------------------------------------------------------------------------
(***************************************************************************)
(* The TypeScript, Go and Rust clients implement OwnedConnection, and their *)
(* open() returns the connection in use, for any number of calls and of    *)
(* closers.                                                                *)
(*                                                                         *)
(* What a step does to the abstract state is named first (Unseen, Dials,   *)
(* Connects, FailsIn, Retires, Vanishes); then each action is shown to be  *)
(* one of these.                                                           *)
(***************************************************************************)

Moves(c, l) == \A a \in Calls : Life(a)' = IF a = c THEN l ELSE Life(a)

Unseen == Slot' = Slot /\ \A a \in Calls : Life(a)' = Life(a)

Dials(c) == Slot = None /\ Slot' = c /\ Life(c) = "unused" /\ Moves(c, "dialing")

Connects(c) == Slot' = Slot /\ Life(c) = "dialing" /\ Moves(c, "live")

FailsIn(c) == Slot' = None /\ Life(c) = "dialing" /\ \E l \in {"retired", "gone"} : Moves(c, l)

Retires(c) == Slot' = None /\ Life(c) = "live" /\ \E l \in {"retired", "gone"} : Moves(c, l)

Vanishes(c) == Slot' = Slot /\ Life(c) = "retired" /\ Moves(c, "gone")

AbstractStep ==
  \/ Unseen
  \/ \E c \in Calls : \/ Dials(c) \/ Connects(c) \/ FailsIn(c)
                      \/ Retires(c) \/ Vanishes(c)


-----------------------------------------------------------------------------

\* Whatever is named above is a step of OwnedConnection, or none.
LEMMA AbstractStepIsAStep ==
  ASSUME AbstractStep
  PROVE  [Promise!Next]_(Promise!vars)
<1> DEFINE life == [a \in Calls |-> Life(a)]
<1>1. ASSUME NEW c \in Calls, NEW l, Moves(c, l)
      PROVE  life' = [life EXCEPT ![c] = l]
  BY <1>1 DEF Moves
<1>2. CASE Unseen
  BY <1>2 DEF Unseen, Promise!vars
<1>3. ASSUME NEW c \in Calls, Dials(c)
      PROVE  Promise!Dial(c)
  BY <1>1, <1>3 DEF Dials, Promise!Dial
<1>4. ASSUME NEW c \in Calls, Connects(c)
      PROVE  Promise!Connect(c)
  BY <1>1, <1>4 DEF Connects, Promise!Connect
<1>5. ASSUME NEW c \in Calls, FailsIn(c)
      PROVE  Promise!Fail(c)
  BY <1>1, <1>5 DEF FailsIn, Promise!Fail, Promise!Ended
<1>6. ASSUME NEW c \in Calls, Retires(c)
      PROVE  Promise!Retire(c)
  BY <1>1, <1>6 DEF Retires, Promise!Retire, Promise!Ended
<1>7. ASSUME NEW c \in Calls, Vanishes(c)
      PROVE  Promise!Vanish(c)
  BY <1>1, <1>7 DEF Vanishes, Promise!Vanish
<1> QED
  BY <1>2, <1>3, <1>4, <1>5, <1>6, <1>7 DEF AbstractStep, Promise!Next

USE DEF IInv, TypeOK, Tasks, Dialing, DialsOfCalls, DialOfCall, SlotsFit, TsSlotsFit,
        OnIsMeant, NoLiveConnectionIsLost, Life, Slot,
        AbstractStep, Unseen, Dials, Connects, FailsIn, Retires, Vanishes, Moves

LEMMA TsOpenMaps ==
  ASSUME IInv, NEW c \in Calls, core = "ts", core' = core, Ts!Open(c)
  PROVE  AbstractStep
BY DEF Ts!Open, Ts!Enter, Ts!StartDial, Ts!Wait, Ts!Suspend, Ts!task, Ts!slot, Ts!link, Ts!history

LEMMA TsReopenMaps ==
  ASSUME IInv, NEW c \in Calls, core = "ts", core' = core, Ts!Reopen(c)
  PROVE  AbstractStep
BY DEF Ts!Reopen, Ts!Enter, Ts!StartDial, Ts!Wait, Ts!Suspend, Ts!task, Ts!slot, Ts!link, Ts!history

LEMMA TsDialedMaps ==
  ASSUME IInv, NEW c \in Calls, core = "ts", core' = core, Ts!Dialed(c)
  PROVE  AbstractStep
BY DEF Ts!Dialed, Ts!Published, Ts!Finish, Ts!Suspend, Ts!task, Ts!slot, Ts!link, Ts!history

LEMMA TsDialFailsMaps ==
  ASSUME IInv, NEW c \in Calls, core = "ts", core' = core, Ts!DialFails(c)
  PROVE  AbstractStep
BY DEF Ts!DialFails, Ts!Rejected, Ts!Finish, Ts!Suspend, Ts!task, Ts!slot, Ts!link, Ts!history

LEMMA TsGreetsMaps ==
  ASSUME IInv, NEW c \in Calls, core = "ts", core' = core, Ts!Greets(c)
  PROVE  AbstractStep
BY DEF Ts!Greets, Ts!Wait, Ts!Suspend, Ts!task, Ts!slot, Ts!link, Ts!history

LEMMA TsGreetedMaps ==
  ASSUME IInv, NEW c \in Calls, core = "ts", core' = core, Ts!Greeted(c)
  PROVE  AbstractStep
BY DEF Ts!Greeted, Ts!Published, Ts!Finish, Ts!Suspend, Ts!task, Ts!slot, Ts!link, Ts!history

LEMMA TsGreetFailsMaps ==
  ASSUME IInv, NEW c \in Calls, core = "ts", core' = core, Ts!GreetFails(c)
  PROVE  AbstractStep
BY DEF Ts!GreetFails, Ts!Rejected, Ts!Finish, Ts!Suspend, Ts!task, Ts!slot, Ts!link, Ts!history

LEMMA TsWokenMaps ==
  ASSUME IInv, NEW c \in Calls, core = "ts", core' = core, Ts!Woken(c)
  PROVE  AbstractStep
BY DEF Ts!Woken, Ts!Finish, Ts!Suspend, Ts!CloseContext, Ts!Wait, Ts!Shut, Ts!task, Ts!slot,
       Ts!link, Ts!history

LEMMA TsPeerClosesMaps ==
  ASSUME IInv, NEW c \in Calls, core = "ts", core' = core, Ts!PeerCloses(c)
  PROVE  AbstractStep
BY DEF Ts!PeerCloses, Ts!task, Ts!slot, Ts!link, Ts!history

LEMMA TsGoneMaps ==
  ASSUME IInv, NEW c \in Calls, core = "ts", core' = core, Ts!Gone(c)
  PROVE  AbstractStep
BY DEF Ts!Gone, Ts!task, Ts!slot, Ts!link, Ts!history

LEMMA TsBadMessageMaps ==
  ASSUME IInv, NEW c \in Calls, core = "ts", core' = core, Ts!BadMessage(c)
  PROVE  AbstractStep
BY DEF Ts!BadMessage, Ts!task, Ts!slot, Ts!link, Ts!history

LEMMA TsPingFailsMaps ==
  ASSUME IInv, NEW c \in Calls, core = "ts", core' = core, Ts!PingFails(c)
  PROVE  AbstractStep
BY DEF Ts!PingFails, Ts!task, Ts!slot, Ts!link, Ts!history

LEMMA TsCloseMaps ==
  ASSUME IInv, NEW k \in Closers, core = "ts", core' = core, Ts!Close(k)
  PROVE  AbstractStep
BY DEF Ts!Close, Ts!CountClose, Ts!Wait, Ts!Suspend, Ts!task, Ts!slot, Ts!link, Ts!history

LEMMA TsCloseWokenMaps ==
  ASSUME IInv, NEW k \in Closers, core = "ts", core' = core, Ts!CloseWoken(k)
  PROVE  AbstractStep
BY DEF Ts!CloseWoken, Ts!CloseReturns, Ts!Wait, Ts!Suspend, Ts!CloseContext, Ts!Shut, Ts!task,
       Ts!slot, Ts!link, Ts!history

LEMMA GoOpenMaps ==
  ASSUME IInv, NEW c \in Calls, core = "go", core' = core, Go!Open(c)
  PROVE  AbstractStep
BY DEF Go!Open, Go!Enter, Go!StartDial, Go!Wait, Go!Suspend, Go!Finish, Go!task, Go!slot, Go!link,
       Go!history

LEMMA GoWokenMaps ==
  ASSUME IInv, NEW c \in Calls, core = "go", core' = core, Go!Woken(c)
  PROVE  AbstractStep
BY DEF Go!Woken, Go!Enter, Go!StartDial, Go!Wait, Go!Suspend, Go!Finish, Go!task, Go!slot, Go!link,
       Go!history

LEMMA GoCancelJoinMaps ==
  ASSUME IInv, NEW c \in Calls, core = "go", core' = core, Go!CancelJoin(c)
  PROVE  AbstractStep
BY DEF Go!CancelJoin, Go!Finish, Go!Suspend, Go!task, Go!slot, Go!link, Go!history

LEMMA GoDialedMaps ==
  ASSUME IInv, NEW c \in Calls, core = "go", core' = core, Go!Dialed(c)
  PROVE  AbstractStep
BY DEF Go!Dialed, Go!Wait, Go!Suspend, Go!task, Go!slot, Go!link, Go!history

LEMMA GoDialFailsMaps ==
  ASSUME IInv, NEW c \in Calls, core = "go", core' = core, Go!DialFails(c)
  PROVE  AbstractStep
BY DEF Go!DialFails, Go!Finish, Go!Suspend, Go!task, Go!slot, Go!link, Go!history

LEMMA GoGreetedMaps ==
  ASSUME IInv, NEW c \in Calls, core = "go", core' = core, Go!Greeted(c)
  PROVE  AbstractStep
BY DEF Go!Greeted, Go!Finish, Go!Suspend, Go!task, Go!slot, Go!link, Go!history

LEMMA GoGreetFailsMaps ==
  ASSUME IInv, NEW c \in Calls, core = "go", core' = core, Go!GreetFails(c)
  PROVE  AbstractStep
BY DEF Go!GreetFails, Go!Wait, Go!Suspend, Go!Shut, Go!task, Go!slot, Go!link, Go!history

LEMMA GoHungUpMaps ==
  ASSUME IInv, NEW c \in Calls, core = "go", core' = core, Go!HungUp(c)
  PROVE  AbstractStep
BY DEF Go!HungUp, Go!Finish, Go!Suspend, Go!task, Go!slot, Go!link, Go!history

LEMMA GoFailsMaps ==
  ASSUME IInv, NEW c \in Calls, core = "go", core' = core, Go!Fails(c)
  PROVE  AbstractStep
BY DEF Go!Fails, Go!Shut, Go!task, Go!slot, Go!link, Go!history

LEMMA GoLostMaps ==
  ASSUME IInv, NEW c \in Calls, core = "go", core' = core, Go!Lost(c)
  PROVE  AbstractStep
BY DEF Go!Lost, Go!task, Go!slot, Go!link, Go!history

LEMMA GoNoticedMaps ==
  ASSUME IInv, NEW c \in Calls, core = "go", core' = core, Go!Noticed(c)
  PROVE  AbstractStep
BY DEF Go!Noticed, Go!task, Go!slot, Go!link, Go!history

LEMMA GoCloseMaps ==
  ASSUME IInv, NEW k \in Closers, core = "go", core' = core, Go!Close(k)
  PROVE  AbstractStep
BY DEF Go!Close, Go!CountClose, Go!Wait, Go!Suspend, Go!task, Go!slot, Go!link, Go!history

LEMMA GoCloseAbortsMaps ==
  ASSUME IInv, NEW k \in Closers, core = "go", core' = core, Go!CloseAborts(k)
  PROVE  AbstractStep
BY DEF Go!CloseAborts, Go!Wait, Go!Suspend, Go!Shut, Go!task, Go!slot, Go!link, Go!history

LEMMA GoCloseEndsMaps ==
  ASSUME IInv, NEW k \in Closers, core = "go", core' = core, Go!CloseEnds(k)
  PROVE  AbstractStep
BY DEF Go!CloseEnds, Go!CloseReturns, Go!Wait, Go!Suspend, Go!task, Go!slot, Go!link, Go!history

LEMMA RustOpenMaps ==
  ASSUME IInv, NEW c \in Calls, core = "rust", core' = core, Rust!Open(c)
  PROVE  AbstractStep
BY DEF Rust!Open, Rust!Wait, Rust!Suspend, Rust!task, Rust!slot, Rust!link, Rust!history

LEMMA RustEnterMaps ==
  ASSUME IInv, NEW c \in Calls, core = "rust", core' = core, Rust!Enter(c)
  PROVE  AbstractStep
BY DEF Rust!Enter, Rust!Locked, Rust!Finish, Rust!Suspend, Rust!Wait, Rust!StartDial, Rust!task,
       Rust!slot, Rust!link, Rust!history

LEMMA RustDialedMaps ==
  ASSUME IInv, NEW c \in Calls, core = "rust", core' = core, Rust!Dialed(c)
  PROVE  AbstractStep
BY DEF Rust!Dialed, Rust!Wait, Rust!Suspend, Rust!task, Rust!slot, Rust!link, Rust!history

LEMMA RustDialFailsMaps ==
  ASSUME IInv, NEW c \in Calls, core = "rust", core' = core, Rust!DialFails(c)
  PROVE  AbstractStep
BY DEF Rust!DialFails, Rust!GiveUp, Rust!Finish, Rust!Suspend, Rust!task, Rust!slot, Rust!link,
       Rust!history

LEMMA RustGreetedMaps ==
  ASSUME IInv, NEW c \in Calls, core = "rust", core' = core, Rust!Greeted(c)
  PROVE  AbstractStep
BY DEF Rust!Greeted, Rust!Finish, Rust!Suspend, Rust!Shut, Rust!task, Rust!slot, Rust!link,
       Rust!history

LEMMA RustGreetFailsMaps ==
  ASSUME IInv, NEW c \in Calls, core = "rust", core' = core, Rust!GreetFails(c)
  PROVE  AbstractStep
BY DEF Rust!GreetFails, Rust!Wait, Rust!Suspend, Rust!Shut, Rust!task, Rust!slot, Rust!link,
       Rust!history

LEMMA RustHungUpMaps ==
  ASSUME IInv, NEW c \in Calls, core = "rust", core' = core, Rust!HungUp(c)
  PROVE  AbstractStep
BY DEF Rust!HungUp, Rust!GiveUp, Rust!Finish, Rust!Suspend, Rust!task, Rust!slot, Rust!link,
       Rust!history

LEMMA RustDropOpenMaps ==
  ASSUME IInv, NEW c \in Calls, core = "rust", core' = core, Rust!DropOpen(c)
  PROVE  AbstractStep
BY DEF Rust!DropOpen, Rust!GiveUp, Rust!Finish, Rust!Suspend, Rust!Shut, Rust!task, Rust!slot,
       Rust!link, Rust!history

LEMMA RustFailsMaps ==
  ASSUME IInv, NEW c \in Calls, core = "rust", core' = core, Rust!Fails(c)
  PROVE  AbstractStep
BY DEF Rust!Fails, Rust!Shut, Rust!task, Rust!slot, Rust!link, Rust!history

LEMMA RustLostMaps ==
  ASSUME IInv, NEW c \in Calls, core = "rust", core' = core, Rust!Lost(c)
  PROVE  AbstractStep
BY DEF Rust!Lost, Rust!task, Rust!slot, Rust!link, Rust!history

LEMMA RustNoticedMaps ==
  ASSUME IInv, NEW c \in Calls, core = "rust", core' = core, Rust!Noticed(c)
  PROVE  AbstractStep
BY DEF Rust!Noticed, Rust!task, Rust!slot, Rust!link, Rust!history

LEMMA RustCloseMaps ==
  ASSUME IInv, NEW k \in Closers, core = "rust", core' = core, Rust!Close(k)
  PROVE  AbstractStep
BY DEF Rust!Close, Rust!CountClose, Rust!Wait, Rust!Suspend, Rust!task, Rust!slot, Rust!link,
       Rust!history

LEMMA RustCloseEnterMaps ==
  ASSUME IInv, NEW k \in Closers, core = "rust", core' = core, Rust!CloseEnter(k)
  PROVE  AbstractStep
BY DEF Rust!CloseEnter, Rust!Locked, Rust!CloseReturns, Rust!Wait, Rust!Suspend, Rust!Shut,
       Rust!task, Rust!slot, Rust!link, Rust!history

LEMMA RustCloseEndsMaps ==
  ASSUME IInv, NEW k \in Closers, core = "rust", core' = core, Rust!CloseEnds(k)
  PROVE  AbstractStep
BY DEF Rust!CloseEnds, Rust!CloseReturns, Rust!Wait, Rust!Suspend, Rust!task, Rust!slot, Rust!link,
       Rust!history

LEMMA RustDropCloseMaps ==
  ASSUME IInv, NEW k \in Closers, core = "rust", core' = core, Rust!DropClose(k)
  PROVE  AbstractStep
BY DEF Rust!DropClose, Rust!CloseReturns, Rust!Wait, Rust!Suspend, Rust!task, Rust!slot, Rust!link,
       Rust!history

LEMMA TsClosingEndsMaps ==
  ASSUME IInv, core = "ts", core' = core, Ts!ClosingEnds
  PROVE  AbstractStep
BY DEF Ts!ClosingEnds, Ts!slot, Ts!link

-----------------------------------------------------------------------------

LEMMA InitMaps == CoresInit => Promise!Init
  BY DEF CoresInit, Init, Promise!Init

LEMMA NextMaps ==
  ASSUME IInv, CoresNext
  PROVE  [Promise!Next]_(Promise!vars)
<1>1. CASE TsNext
  BY <1>1, TsOpenMaps, TsReopenMaps, TsDialedMaps, TsDialFailsMaps, TsGreetsMaps,
     TsGreetedMaps, TsGreetFailsMaps, TsWokenMaps, TsPeerClosesMaps,
     TsGoneMaps, TsBadMessageMaps, TsPingFailsMaps, TsCloseMaps, TsCloseWokenMaps,
     TsClosingEndsMaps, AbstractStepIsAStep
     DEF CoresNext, TsNext, Ts!Next
<1>2. CASE GoNext
  BY <1>2, GoOpenMaps, GoWokenMaps, GoCancelJoinMaps, GoDialedMaps, GoDialFailsMaps, GoGreetedMaps,
     GoGreetFailsMaps, GoHungUpMaps, GoFailsMaps, GoLostMaps, GoNoticedMaps, GoCloseMaps,
     GoCloseAbortsMaps, GoCloseEndsMaps, AbstractStepIsAStep
     DEF CoresNext, GoNext, Go!Next
<1>3. CASE RustNext
  BY <1>3, RustOpenMaps, RustEnterMaps, RustDialedMaps, RustDialFailsMaps, RustGreetedMaps,
     RustGreetFailsMaps, RustHungUpMaps, RustDropOpenMaps, RustFailsMaps, RustLostMaps,
     RustNoticedMaps, RustCloseMaps, RustCloseEnterMaps, RustCloseEndsMaps, RustDropCloseMaps,
     AbstractStepIsAStep
     DEF CoresNext, RustNext, Rust!Next
<1> QED
  BY <1>1, <1>2, <1>3 DEF CoresNext

LEMMA StutterMaps ==
  ASSUME UNCHANGED allvars
  PROVE  [Promise!Next]_(Promise!vars)
BY AbstractStepIsAStep DEF allvars, vars, task, slot, link, history

\* The TypeScript, the Go and the Rust client each implement OwnedConnection:
\* one connection at a time is dialed or in use, and what has left the slot
\* never comes back (KeepsPromise).
THEOREM Implements == CoresSpec => KeepsPromise
<1>1. IInv /\ [CoresNext]_allvars => [Promise!Next]_(Promise!vars)
  BY NextMaps, StutterMaps
<1> QED
  BY InitMaps, <1>1, Invariance, PTL DEF CoresSpec, KeepsPromise, Promise!Spec

-----------------------------------------------------------------------------

Returned(c) ==
  \E a \in Calls : /\ on'[c] = a /\ current' = a
                   /\ a = c \/ Usable(a)'

\* Each open() that returns a connection returns the one that is in use then,
\* and checked unless it dialed it itself (OpenReturnsTheConnectionInUse).
THEOREM ReturnsTheOneInUse == CoresSpec => OpenReturnsTheConnectionInUse
<1> DEFINE A == \A c \in Calls :
                  outcome[c] = "none" /\ outcome'[c] = "connected" => Returned(c)
<1>1. ASSUME IInv, CoresNext, NEW c \in Calls,
             outcome[c] = "none", outcome'[c] = "connected"
      PROVE  Returned(c)
  <2> USE <1>1 DEF Returned, Usable, CoresNext
  <2>1. CASE TsNext
    <3>1. ASSUME NEW d \in Calls, Ts!Dialed(d) \/ Ts!Greeted(d)
          PROVE  Returned(c)
      BY <2>1, <3>1 DEF TsNext, Ts!Dialed, Ts!Greeted, Ts!Published, Ts!Finish, Ts!Suspend, Ts!slot, Ts!link
    <3>2. ASSUME NEW d \in Calls, Ts!Woken(d)
          PROVE  Returned(c)
      BY <2>1, <3>2 DEF TsNext, Ts!Woken, Ts!Finish, Ts!Suspend, Ts!CloseContext, Ts!Wait, Ts!Shut, Ts!slot, Ts!link
    <3>3. ASSUME NEW d \in Calls,
                 \/ Ts!Open(d)
                 \/ Ts!Reopen(d)
                 \/ Ts!DialFails(d)
                 \/ Ts!Greets(d)
                 \/ Ts!GreetFails(d)
                 \/ Ts!PeerCloses(d)
                 \/ Ts!Gone(d)
                 \/ Ts!BadMessage(d)
                 \/ Ts!PingFails(d)
          PROVE  FALSE
      BY <2>1, <3>3 DEF TsNext, Ts!BadMessage, Ts!DialFails, Ts!Enter, Ts!Finish, Ts!Gone, Ts!Greets,
         Ts!GreetFails, Ts!Open, Ts!PeerCloses, Ts!PingFails, Ts!Rejected, Ts!Reopen, Ts!StartDial, Ts!Suspend, Ts!Wait, Ts!task
    <3>4. ASSUME NEW d \in Closers,
                 \/ Ts!Close(d)
                 \/ Ts!CloseWoken(d)
          PROVE  FALSE
      BY <2>1, <3>4 DEF TsNext, Ts!Close, Ts!CloseContext, Ts!CloseReturns, Ts!CloseWoken, Ts!CountClose, Ts!Shut,
         Ts!Suspend, Ts!Wait, Ts!task
    <3>5. ASSUME Ts!ClosingEnds
          PROVE  FALSE
      BY <2>1, <3>5 DEF TsNext, Ts!ClosingEnds
    <3> QED
      BY <2>1, <3>1, <3>2, <3>3, <3>4, <3>5 DEF TsNext, Ts!Next
  <2>2. CASE GoNext
    <3>1. ASSUME NEW d \in Calls, Go!Open(d)
          PROVE  Returned(c)
      BY <2>2, <3>1 DEF GoNext, Go!Open, Go!Enter, Go!StartDial, Go!Wait, Go!Suspend, Go!Finish, Go!slot, Go!link
    <3>2. ASSUME NEW d \in Calls, Go!Woken(d)
          PROVE  Returned(c)
      BY <2>2, <3>2 DEF GoNext, Go!Woken, Go!Enter, Go!StartDial, Go!Wait, Go!Suspend, Go!Finish, Go!slot, Go!link
    <3>3. ASSUME NEW d \in Calls, Go!Greeted(d)
          PROVE  Returned(c)
      BY <2>2, <3>3 DEF GoNext, Go!Greeted, Go!Finish, Go!Suspend, Go!slot, Go!link
    <3>4. ASSUME NEW d \in Calls,
                 \/ Go!CancelJoin(d)
                 \/ Go!Dialed(d)
                 \/ Go!DialFails(d)
                 \/ Go!GreetFails(d)
                 \/ Go!HungUp(d)
                 \/ Go!Fails(d)
                 \/ Go!Lost(d)
                 \/ Go!Noticed(d)
          PROVE  FALSE
      BY <2>2, <3>4 DEF GoNext, Go!CancelJoin, Go!DialFails, Go!Dialed, Go!Fails, Go!Finish, Go!GreetFails, Go!HungUp,
         Go!Lost, Go!Noticed, Go!Shut, Go!Suspend, Go!Wait, Go!task
    <3>5. ASSUME NEW d \in Closers,
                 \/ Go!Close(d)
                 \/ Go!CloseAborts(d)
                 \/ Go!CloseEnds(d)
          PROVE  FALSE
      BY <2>2, <3>5 DEF GoNext, Go!Close, Go!CloseAborts, Go!CloseEnds, Go!CloseReturns, Go!CountClose, Go!Shut,
         Go!Suspend, Go!Wait, Go!task
    <3> QED
      BY <2>2, <3>1, <3>2, <3>3, <3>4, <3>5 DEF GoNext, Go!Next
  <2>3. CASE RustNext
    <3>1. ASSUME NEW d \in Calls, Rust!Enter(d)
          PROVE  Returned(c)
      BY <2>3, <3>1 DEF RustNext, Rust!Enter, Rust!Locked, Rust!Finish, Rust!Suspend, Rust!Wait, Rust!StartDial, Rust!slot,
         Rust!link
    <3>2. ASSUME NEW d \in Calls, Rust!Greeted(d)
          PROVE  Returned(c)
      BY <2>3, <3>2 DEF RustNext, Rust!Greeted, Rust!Finish, Rust!Suspend, Rust!Shut, Rust!slot, Rust!link
    <3>3. ASSUME NEW d \in Calls,
                 \/ Rust!Open(d)
                 \/ Rust!Dialed(d)
                 \/ Rust!DialFails(d)
                 \/ Rust!GreetFails(d)
                 \/ Rust!HungUp(d)
                 \/ Rust!DropOpen(d)
                 \/ Rust!Fails(d)
                 \/ Rust!Lost(d)
                 \/ Rust!Noticed(d)
          PROVE  FALSE
      BY <2>3, <3>3 DEF RustNext, Rust!DialFails, Rust!Dialed, Rust!DropOpen, Rust!Fails, Rust!Finish, Rust!GiveUp,
         Rust!GreetFails, Rust!HungUp, Rust!Lost, Rust!Noticed, Rust!Open, Rust!Shut, Rust!Suspend,
         Rust!Wait, Rust!task
    <3>4. ASSUME NEW d \in Closers,
                 \/ Rust!Close(d)
                 \/ Rust!CloseEnter(d)
                 \/ Rust!CloseEnds(d)
                 \/ Rust!DropClose(d)
          PROVE  FALSE
      BY <2>3, <3>4 DEF RustNext, Rust!Close, Rust!CloseEnds, Rust!CloseEnter, Rust!CloseReturns, Rust!CountClose,
         Rust!DropClose, Rust!Locked, Rust!Shut, Rust!Suspend, Rust!Wait, Rust!task
    <3> QED
      BY <2>3, <3>1, <3>2, <3>3, <3>4 DEF RustNext, Rust!Next
  <2> QED
    BY <2>1, <2>2, <2>3
<1>2. IInv /\ [CoresNext]_allvars => [A]_allvars
  BY <1>1
<1> QED
  BY <1>2, Invariance, PTL DEF CoresSpec, OpenReturnsTheConnectionInUse, Returned

=============================================================================
