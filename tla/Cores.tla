------------------------------- MODULE Cores -------------------------------
(***************************************************************************)
(* The WebSocket clients of the TypeScript, Go and Rust cores, side by     *)
(* side: a behaviour is one of a client of one core, chosen in Init.  What *)
(* is stated here is stated of all three, and all three are shown to       *)
(* implement OwnedConnection (as the Python core's client does, PySocket)  *)
(* under one refinement mapping.                                           *)
(***************************************************************************)
EXTENDS CoreSocket

VARIABLE core  \* whose client this is

Ts == INSTANCE TsSocket
Go == INSTANCE GoSocket
Rust == INSTANCE RustSocket

allvars == <<core, vars>>

CoresInit ==
  /\ core \in {"ts", "go", "rust"}
  /\ Init

TsNext == core = "ts" /\ Ts!Next
GoNext == core = "go" /\ Go!Next
RustNext == core = "rust" /\ Rust!Next

CoresNext ==
  /\ TsNext \/ GoNext \/ RustNext
  /\ UNCHANGED core

CoresSpec == CoresInit /\ [][CoresNext]_allvars

-----------------------------------------------------------------------------
(* Fairness: what each core's runtime does for a task without being asked.  *)
(* Nothing makes a user call, cancel or close, a peer drop, or a handler    *)
(* fail.                                                                    *)

Progress(t) ==
  /\ \/ core = "ts" /\ Ts!Progress(t)
     \/ core = "go" /\ Go!Progress(t)
     \/ core = "rust" /\ Rust!Progress(t)
  /\ UNCHANGED core

ClosingEnds == core = "ts" /\ Ts!ClosingEnds /\ UNCHANGED core

CoresFairSpec ==
  /\ CoresSpec
  /\ \A t \in Tasks : WF_allvars(Progress(t))
  /\ WF_allvars(ClosingEnds)

-----------------------------------------------------------------------------
(* What must hold.                                                          *)

\* The connection being dialed or in use.
Slot ==
  IF opening # None THEN opening
  ELSE IF current # None /\ ~ended[current] THEN current
  ELSE None

\* What each core's open() asks of a connection before it hands it out again.
Usable(a) == IF core = "ts" THEN wire[a] = "open" ELSE ~ended[a]

\* The one way to lose a connection: a TypeScript `forceOpen` that greets has
\* failed, and neither it nor open() closes what it had connected.
LeftByItsGreeting(a) == core = "ts" /\ dial[a] = "failed"

\* A connection on which waits have not failed is the one in the slot, or a
\* Go Close has just taken it and is about to abort it: none is overwritten,
\* or forgotten by a dropped future, a closing that was already in progress or
\* (but for TypeScript's, named above) a failed greeting.
NoLiveConnectionIsLost ==
  \A a \in Calls :
    wire[a] = "open" /\ ~ended[a]
      => \/ Slot = a
         \/ \E k \in Closers : pc[k] = "aborting" /\ on[k] = a
         \/ LeftByItsGreeting(a)

\* open() returns the connection that later calls will get too, and unless it
\* dialed that connection itself it returns it usable, however long it waited
\* for a dial, a closing or a lock.
OpenReturnsTheConnectionInUse ==
  [][\A c \in Calls :
       outcome[c] = "none" /\ outcome'[c] = "connected"
         => \E a \in Calls : /\ on'[c] = a /\ current' = a
                             /\ a = c \/ Usable(a)']_allvars

\* A TypeScript close() found the closing of another connection in progress,
\* and waits for that one although its own is still in use.
Borrowed(k) == pc[k] = "borrowing" /\ Slot = on[k]

\* A close() that waited for a dial or for a closing leaves no connection in
\* the slot that was being dialed or in use when it was called (TypeScript,
\* Rust; Go's Close does not look at a dial in flight), unless it borrowed the
\* closing of another: then it leaves its own, and no other.
CloseLeavesNothingBehind ==
  [][\A k \in Closers :
       core # "go" /\ pc[k] \in {"joining", "closing", "borrowing"} /\ pc'[k] = "idle"
         => Slot' \notin asked[k] \/ Borrowed(k)]_allvars

\* A Rust task hangs up a link whose `on_open` failed, or waits for the lock
\* that such a task holds: nothing bounds that wait.
Stalled(t) ==
  /\ core = "rust" /\ pc[t] \in {"queued", "hangingUp"}
  /\ \E c \in Calls : pc[c] = "hangingUp"

\* Every open() and every close() ends: no failed or dropped dial leaves those
\* that joined it, or wait for its lock, behind, and no two wait on each other.
\* Those that do not end are stalled for good behind a Rust hang-up.
EveryTaskEnds ==
  \A t \in Tasks : []<>(pc[t] \in {"idle", "done"}) \/ <>[]Stalled(t)

-----------------------------------------------------------------------------
(* The clients keep the promise of OwnedConnection.  They do not count their *)
(* owners: closing a connection is one way of retiring it.                   *)

Life(a) ==
  IF dial[a] = "none" THEN "unused"
  ELSE IF dial[a] = "pending" THEN "dialing"
  ELSE IF Slot = a THEN "live"
  ELSE IF wire[a] \in {"open", "closing"} THEN "retired"
  ELSE "gone"

Promise == INSTANCE OwnedConnection
             WITH Conns <- Calls, slot <- Slot, life <- [a \in Calls |-> Life(a)],
                  gen <- 0, born <- [a \in Calls |-> 0]

\* One connection at a time is dialed or in use, and one that has left the
\* slot never comes back to it.
KeepsPromise == Promise!Spec

=============================================================================
