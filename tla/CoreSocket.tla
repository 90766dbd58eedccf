----------------------------- MODULE CoreSocket -----------------------------
(***************************************************************************)
(* The state that the WebSocket clients of the TypeScript, Go and Rust     *)
(* cores have in common.  TsSocket, GoSocket and RustSocket say how each   *)
(* of them moves; Cores composes them and states what all three promise.   *)
(*                                                                         *)
(* A member of Calls is one concurrent call of `open()`.  A call dials at  *)
(* most once in each of the cores, so the connection it dials is named by  *)
(* the call.  A member of Closers calls `close()`, again and again.        *)
(*                                                                         *)
(*   variable  TypeScript        Go                   Rust                 *)
(*   opening   `#opening`        the dial that        the dial made under  *)
(*                               `opening` stands for the lock of `state`  *)
(*   current   `#current`        `current`            `state`              *)
(*   closing   `#closing`        -                    -                    *)
(*   wire      `ws.readyState`   the raw Conn         the TCP stream       *)
(*   ended     `closed` rejected `done` closed        `closed` is Some     *)
(*                                                                         *)
(* In TypeScript `#opening` stays set while the connection is in use; in   *)
(* Go and Rust it is set only while its dialer is at work.                 *)
(***************************************************************************)
EXTENDS Naturals

CONSTANTS Calls,     \* the concurrent calls of open()
          Closers,   \* the tasks that call close()
          None,      \* no connection
          MaxCloses  \* bound on the calls of close()

ASSUME ClosersAreNoCalls == Calls \cap Closers = {}
ASSUME NoneIsNoConnection == None \notin Calls
ASSUME MaxClosesIsNat == MaxCloses \in Nat

Tasks == Calls \cup Closers

VARIABLES
  pc,       \* where each task is suspended
  on,       \* the connection it waits for, closes or has been given
  outcome,  \* how each call of open() ended
  dial,     \* what has come of each dial
  opening,  \* see the table
  current,  \* see the table
  closing,  \* see the table
  wire,     \* the connection below, as the network sees it
  ended,    \* every wait on the connection has failed
  closes,   \* how many calls of close() were made
  asked     \* history: the connections dialed before the close() in progress

task == <<pc, on, outcome>>
slot == <<opening, current>>
link == <<wire, ended>>
history == <<closes, asked>>
vars == <<task, dial, slot, closing, link, history>>

\* Where a task may be: "again" and "woken" run without waiting for anyone,
\* "borrowing" is the wait for a closing that another connection started.
PCs == {"idle", "queued", "joining", "dialing", "greeting", "hangingUp",
        "closing", "borrowing", "aborting", "again", "done"}

TypeOK ==
  /\ pc \in [Tasks -> PCs]
  /\ on \in [Tasks -> Calls \cup {None}]
  /\ outcome \in [Calls -> {"none", "connected", "failed", "cancelled"}]
  /\ dial \in [Calls -> {"none", "pending", "ok", "failed", "stillborn"}]
  /\ opening \in Calls \cup {None}
  /\ current \in Calls \cup {None}
  /\ closing \in Calls \cup {None}
  /\ wire \in [Calls -> {"none", "open", "closing", "closed"}]
  /\ ended \in [Calls -> BOOLEAN]
  /\ closes \in 0 .. MaxCloses
  /\ asked \in [Closers -> SUBSET Calls]

Init ==
  /\ pc = [t \in Tasks |-> "idle"]
  /\ on = [t \in Tasks |-> None]
  /\ outcome = [c \in Calls |-> "none"]
  /\ dial = [c \in Calls |-> "none"]
  /\ opening = None
  /\ current = None
  /\ closing = None
  /\ wire = [c \in Calls |-> "none"]
  /\ ended = [c \in Calls |-> FALSE]
  /\ closes = 0
  /\ asked = [k \in Closers |-> {}]

-----------------------------------------------------------------------------
(* Steps that the three cores have in common.                               *)

Suspend(t, where, a) ==
  /\ pc' = [pc EXCEPT ![t] = where]
  /\ on' = [on EXCEPT ![t] = a]

Wait(t, where, a) ==
  /\ Suspend(t, where, a)
  /\ UNCHANGED outcome

Finish(c, result, a) ==
  /\ Suspend(c, "done", a)
  /\ outcome' = [outcome EXCEPT ![c] = result]

\* A call finds nothing to use or to join.
StartDial(c) ==
  /\ opening' = c
  /\ dial' = [dial EXCEPT ![c] = "pending"]
  /\ Wait(c, "dialing", c)
  /\ UNCHANGED <<current, closing, link>>

\* close() is called: remember what it was asked to close.
CountClose(k) ==
  /\ pc[k] = "idle"
  /\ closes < MaxCloses
  /\ closes' = closes + 1
  /\ asked' = [asked EXCEPT ![k] = {a \in Calls : dial[a] # "none"}]

\* close() returns.
CloseReturns(k) ==
  /\ Wait(k, "idle", None)
  /\ asked' = [asked EXCEPT ![k] = {}]
  /\ UNCHANGED closes

\* The connection below is torn down, unless it is gone already.
Shut(w) == IF w = "open" THEN "closing" ELSE w

\* The connection below ends and nobody has noticed yet.
Lost(a) ==
  /\ wire[a] \in {"open", "closing"}
  /\ wire' = [wire EXCEPT ![a] = "closed"]
  /\ UNCHANGED <<task, dial, slot, closing, ended, history>>

\* The task that reads from the connection finds out.
Noticed(a) ==
  /\ wire[a] = "closed" /\ ~ended[a]
  /\ ended' = [ended EXCEPT ![a] = TRUE]
  /\ UNCHANGED <<task, dial, slot, closing, wire, history>>

=============================================================================
