------------------------------ MODULE PySocket ------------------------------
(***************************************************************************)
(* The Python core's Socket (truewire_core/ws/socket.py): connect on       *)
(* demand, joining a connect in flight, replacing a dead connection, and   *)
(* leaving `async with`, under any interleaving of asyncio tasks.          *)
(*                                                                         *)
(* Each member of Calls is one concurrent `Socket.open()` (a read of       *)
(* `self.ctx`); Owner is the task that runs `__aexit__`.  A call dials at  *)
(* most once, so the attempt it makes (its future `ctx_future`) and the    *)
(* Context it opens are both named by the call.                            *)
(*                                                                         *)
(* An asyncio task runs without interruption from one real suspension to   *)
(* the next, and so does an action here.  The suspensions are: a future    *)
(* that is still pending, `websockets.connect`, and the closing handshake. *)
(* Awaiting a future that is done, taking `open_lock` when it is free and  *)
(* closing a Context that is already closed do not suspend.  `open_lock`   *)
(* is held exactly while its holder dials.  Tasks that are ready may run   *)
(* in any order (asyncio's queue is FIFO: every order it produces is among *)
(* those modelled).                                                        *)
(***************************************************************************)
EXTENDS Naturals

CONSTANTS Calls,     \* the concurrent calls of open()
          Owner,     \* the task that leaves `async with`
          None,      \* no attempt: `_ctx_future` is None
          MaxExits   \* bound on how often an owner leaves

ASSUME OwnerIsNoCall == Owner \notin Calls
ASSUME NoneIsNoCall == None \notin Calls
ASSUME MaxExitsIsNat == MaxExits \in Nat

Tasks == Calls \cup {Owner}

VARIABLES
  pc,        \* where each task is suspended
  on,        \* the attempt it waits for, the connection it closes or returned
  seen,      \* `_exits` when the call started, its `exits` argument
  retried,   \* its `retried` argument
  replaced,  \* its `replaced` argument
  outcome,   \* what the call returned or raised
  fut,       \* the state of each attempt's future
  cur,       \* the attempt `_ctx_future` holds, or None
  exits,     \* `_exits`
  ws,        \* the state of each websockets connection
  served,    \* neither the listener nor the pinger task is done
  closed     \* Context.closed

call == <<seen, retried, replaced>>
slot == <<fut, cur>>
conn == <<ws, served, closed>>
vars == <<pc, on, call, outcome, slot, exits, conn>>

PCs == {"idle", "joining", "dialing", "closing", "discarding", "done", "hangingUp"}
Futures == {"none", "pending", "ok", "closedByOwner", "failed"}
Outcomes == {"none", "connected", "closedByOwner", "failed", "cancelled"}

TypeOK ==
  /\ pc \in [Tasks -> PCs]
  /\ on \in [Tasks -> Calls \cup {None}]
  /\ seen \in [Calls -> Nat]
  /\ retried \in [Calls -> BOOLEAN]
  /\ replaced \in [Calls -> BOOLEAN]
  /\ outcome \in [Calls -> Outcomes]
  /\ fut \in [Calls -> Futures]
  /\ cur \in Calls \cup {None}
  /\ exits \in Nat
  /\ ws \in [Calls -> {"none", "open", "closing", "closed"}]
  /\ served \in [Calls -> BOOLEAN]
  /\ closed \in [Calls -> BOOLEAN]

Init ==
  /\ pc = [t \in Tasks |-> "idle"]
  /\ on = [t \in Tasks |-> None]
  /\ seen = [c \in Calls |-> 0]
  /\ retried = [c \in Calls |-> FALSE]
  /\ replaced = [c \in Calls |-> FALSE]
  /\ outcome = [c \in Calls |-> "none"]
  /\ fut = [c \in Calls |-> "none"]
  /\ cur = None
  /\ exits = 0
  /\ ws = [c \in Calls |-> "none"]
  /\ served = [c \in Calls |-> FALSE]
  /\ closed = [c \in Calls |-> FALSE]

-----------------------------------------------------------------------------
(* The pieces of `_open` and `close` between two suspensions.               *)

\* `Context.alive`
Alive(a) == ~closed[a] /\ ws[a] = "open" /\ served[a]

\* `open_lock.locked()`
Locked == \E c \in Calls : pc[c] = "dialing"

Suspend(t, where, a) ==
  /\ pc' = [pc EXCEPT ![t] = where]
  /\ on' = [on EXCEPT ![t] = a]

Finish(c, result, a) ==
  /\ Suspend(c, "done", a)
  /\ outcome' = [outcome EXCEPT ![c] = result]

\* `force_close` up to the handshake: cancel the tasks, send the close frame.
SendClose(a) ==
  /\ served' = [served EXCEPT ![a] = FALSE]
  /\ ws' = [ws EXCEPT ![a] = IF @ = "open" THEN "closing" ELSE @]

\* Mutant: the closed connection stays in `_ctx_future`.
StartClose_NotDetached(t, where, a) ==
  /\ closed' = [closed EXCEPT ![a] = TRUE]
  /\ SendClose(a)
  /\ Suspend(t, where, a)
  /\ UNCHANGED <<slot, outcome>>

\* `close(ctx)` of a Context not closed yet: detach it before the handshake.
StartClose(t, where, a) ==
  /\ closed' = [closed EXCEPT ![a] = TRUE]
  /\ cur' = IF cur = a THEN None ELSE cur
  /\ SendClose(a)
  /\ Suspend(t, where, a)
  /\ UNCHANGED <<fut, outcome>>

Join(c) ==
  /\ Locked
  /\ Suspend(c, "joining", cur)
  /\ UNCHANGED <<outcome, slot, conn>>

\* The connection is there: `shield` of a done future does not suspend.
Reuse(c) ==
  /\ ~Locked /\ cur # None
  /\ Alive(cur)
  /\ Finish(c, "connected", cur)
  /\ UNCHANGED <<slot, conn>>

Replace(c) ==
  /\ ~Locked /\ cur # None
  /\ ~Alive(cur)
  /\ StartClose(c, "closing", cur)

StartDial(c) ==
  /\ ~Locked /\ cur = None
  /\ Suspend(c, "dialing", c)
  /\ fut' = [fut EXCEPT ![c] = "pending"]
  /\ cur' = c
  /\ UNCHANGED <<outcome, conn>>

\* `_open(exits, retried=r, replaced=p)` up to its first suspension.
Enter(c, r, p) ==
  /\ retried' = [retried EXCEPT ![c] = r]
  /\ replaced' = [replaced EXCEPT ![c] = p]
  /\ \/ Join(c) \/ Reuse(c) \/ Replace(c) \/ StartDial(c)

\* `close(ctx)` has returned in `_open`.
AfterClose(c) ==
  \/ /\ exits # seen[c]
     /\ Finish(c, "closedByOwner", None)
     /\ UNCHANGED <<retried, replaced, slot, conn>>
  \/ /\ exits = seen[c]
     /\ replaced[c]
     /\ Finish(c, "failed", None)
     /\ UNCHANGED <<retried, replaced, slot, conn>>
  \/ /\ exits = seen[c]
     /\ ~replaced[c]
     /\ Enter(c, retried[c], TRUE)

-----------------------------------------------------------------------------
(* The actions of a call.                                                   *)

\* Mutant: the exit count is taken one short.
Open_OneShort(c) ==
  /\ pc[c] = "idle"
  /\ seen' = [seen EXCEPT ![c] = exits - 1]
  /\ Enter(c, FALSE, FALSE)
  /\ UNCHANGED exits

Open(c) ==
  /\ pc[c] = "idle"
  /\ seen' = [seen EXCEPT ![c] = exits]
  /\ Enter(c, FALSE, FALSE)
  /\ UNCHANGED exits

\* What is left of the connection when `force_open` returns: it may have failed
\* since `websockets.connect` succeeded, before the dialer woke or while an
\* override went on (with a login, say), the listener and the pinger at work.
Connected(c) ==
  \E w \in {"open", "closed"}, s \in BOOLEAN :
    /\ ws' = [ws EXCEPT ![c] = w]
    /\ served' = [served EXCEPT ![c] = s]

\* Mutant: an exit during the connect goes unnoticed.
Dialed_ExitUnnoticed(c) ==
  /\ pc[c] = "dialing"
  /\ fut' = [fut EXCEPT ![c] = "ok"]
  /\ Connected(c)
  /\ Finish(c, "connected", c)
  /\ UNCHANGED <<cur, call, exits, closed>>

\* `force_open` returned a Context, and the dialer returns it unchecked; or
\* discards it if an owner has left, which cancels its tasks first.
Dialed(c) ==
  /\ pc[c] = "dialing"
  /\ \/ /\ exits = seen[c]
        /\ fut' = [fut EXCEPT ![c] = "ok"]
        /\ Connected(c)
        /\ Finish(c, "connected", c)
        /\ UNCHANGED cur
     \/ /\ exits # seen[c]
        /\ fut' = [fut EXCEPT ![c] = "closedByOwner"]
        /\ cur' = None
        /\ \E w \in {"closing", "closed"} : ws' = [ws EXCEPT ![c] = w]
        /\ Suspend(c, "discarding", c)
        /\ UNCHANGED <<served, outcome>>
  /\ UNCHANGED <<call, exits, closed>>

\* Mutant: the attempt's future is never resolved.
Undial_WaitersForgotten(c, result) ==
  /\ pc[c] = "dialing"
  /\ cur' = None
  /\ Finish(c, result, None)
  /\ UNCHANGED <<fut, call, exits, conn>>

\* `force_open` raised, or was cancelled: every waiter is released.  Inside its
\* `connect`, websockets drops what it made; once an override's own handshake
\* is under way, nobody closes the connection.
Undial(c, result) ==
  /\ pc[c] = "dialing"
  /\ fut' = [fut EXCEPT ![c] = "failed"]
  /\ cur' = None
  /\ Finish(c, result, None)
  /\ \E w \in {"none", "open"} : ws' = [ws EXCEPT ![c] = w]
  /\ UNCHANGED <<call, exits, served, closed>>

DialFails(c) == Undial(c, "failed")

CancelDial(c) == Undial(c, "cancelled")

\* Mutant: the joined connection is returned without asking whether it lives.
WakeConnected_Unchecked(c) ==
  /\ pc[c] = "joining" /\ fut[on[c]] = "ok"
  /\ Finish(c, "connected", on[c])
  /\ UNCHANGED <<call, slot, exits, conn>>

\* Mutant: `close` does not look at `closed`.
WakeConnected_ClosesAgain(c) ==
  /\ pc[c] = "joining" /\ fut[on[c]] = "ok"
  /\ \/ /\ Alive(on[c])
        /\ Finish(c, "connected", on[c])
        /\ UNCHANGED <<slot, conn>>
     \/ /\ ~Alive(on[c])
        /\ StartClose(c, "closing", on[c])
  /\ UNCHANGED <<call, exits>>

\* The joined attempt succeeded.
WakeConnected(c) ==
  /\ pc[c] = "joining" /\ fut[on[c]] = "ok"
  /\ \/ /\ Alive(on[c])
        /\ Finish(c, "connected", on[c])
        /\ UNCHANGED <<retried, replaced, slot, conn>>
     \/ /\ ~Alive(on[c]) /\ ~closed[on[c]]
        /\ StartClose(c, "closing", on[c])
        /\ UNCHANGED <<retried, replaced>>
     \/ /\ closed[on[c]]
        /\ AfterClose(c)
  /\ UNCHANGED <<seen, exits>>

\* Mutant: a call that joined a doomed connect never tries again.
WakeClosedByOwner_NoRetry(c) ==
  /\ pc[c] = "joining" /\ fut[on[c]] = "closedByOwner"
  /\ Finish(c, "closedByOwner", None)
  /\ UNCHANGED <<call, slot, exits, conn>>

\* The joined attempt was discarded because an owner left.
WakeClosedByOwner(c) ==
  /\ pc[c] = "joining" /\ fut[on[c]] = "closedByOwner"
  /\ IF retried[c] \/ exits # seen[c]
       THEN /\ Finish(c, "closedByOwner", None)
            /\ UNCHANGED <<retried, replaced, slot, conn>>
       ELSE Enter(c, TRUE, replaced[c])
  /\ UNCHANGED <<seen, exits>>

\* The joined attempt failed: its exception is this call's too.
WakeFailed(c) ==
  /\ pc[c] = "joining" /\ fut[on[c]] = "failed"
  /\ Finish(c, "failed", None)
  /\ UNCHANGED <<call, slot, exits, conn>>

\* Mutant: no `shield`, the cancelled joiner cancels the shared future.
CancelJoin_NoShield(c) ==
  /\ pc[c] = "joining"
  /\ fut' = [fut EXCEPT ![on[c]] = IF @ = "pending" THEN "failed" ELSE @]
  /\ Finish(c, "cancelled", None)
  /\ UNCHANGED <<call, cur, exits, conn>>

\* `shield` keeps the cancellation of one joiner from the attempt.
CancelJoin(c) ==
  /\ pc[c] = "joining"
  /\ Finish(c, "cancelled", None)
  /\ UNCHANGED <<call, slot, exits, conn>>

CallClosed(c) ==
  /\ pc[c] = "closing" /\ ws[on[c]] = "closed"
  /\ AfterClose(c)
  /\ UNCHANGED <<seen, exits>>

\* Mutant: a cancelled `close` leaves the TCP connection be.
CancelClose_NoAbort(c) ==
  /\ pc[c] = "closing"
  /\ Finish(c, "cancelled", None)
  /\ UNCHANGED <<call, slot, exits, conn>>

\* A cancelled `close` drops the TCP connection.
CancelClose(c) ==
  /\ pc[c] = "closing"
  /\ ws' = [ws EXCEPT ![on[c]] = "closed"]
  /\ Finish(c, "cancelled", None)
  /\ UNCHANGED <<call, slot, exits, served, closed>>

\* The discarded connection is closed: `raise error`.
Discarded(c) ==
  /\ pc[c] = "discarding" /\ ws[c] = "closed"
  /\ Finish(c, "closedByOwner", None)
  /\ UNCHANGED <<call, slot, exits, conn>>

\* Cancelled in that handshake: unlike `close`, nothing drops the connection.
CancelDiscard(c) ==
  /\ pc[c] = "discarding"
  /\ Finish(c, "cancelled", None)
  /\ UNCHANGED <<call, slot, exits, conn>>

\* The user of a connection calls `close(ctx)` on it.
HangUp(c) ==
  /\ pc[c] = "done" /\ outcome[c] = "connected"
  /\ ~closed[on[c]]
  /\ StartClose(c, "hangingUp", on[c])
  /\ UNCHANGED <<call, exits>>

HungUp(c) ==
  /\ pc[c] = "hangingUp" /\ ws[on[c]] = "closed"
  /\ Suspend(c, "done", on[c])
  /\ UNCHANGED <<call, outcome, slot, exits, conn>>

CancelHangUp(c) ==
  /\ pc[c] = "hangingUp"
  /\ ws' = [ws EXCEPT ![on[c]] = "closed"]
  /\ Suspend(c, "done", on[c])
  /\ UNCHANGED <<call, outcome, slot, exits, served, closed>>

-----------------------------------------------------------------------------
(* The owner and the network.                                               *)

\* `__aexit__`: count the exit, close the connection if there is one.
Exit ==
  /\ pc[Owner] = "idle"
  /\ exits < MaxExits
  /\ exits' = exits + 1
  /\ \/ /\ cur # None /\ ~Locked
        /\ StartClose(Owner, "closing", cur)
     \/ /\ cur = None \/ Locked
        /\ UNCHANGED <<pc, on, outcome, slot, conn>>
  /\ UNCHANGED call

OwnerClosed ==
  /\ pc[Owner] = "closing" /\ ws[on[Owner]] = "closed"
  /\ Suspend(Owner, "idle", None)
  /\ UNCHANGED <<call, outcome, slot, exits, conn>>

CancelOwner ==
  /\ pc[Owner] = "closing"
  /\ ws' = [ws EXCEPT ![on[Owner]] = "closed"]
  /\ Suspend(Owner, "idle", None)
  /\ UNCHANGED <<call, outcome, slot, exits, served, closed>>

\* The TCP connection ends: the peer drops it or answers the close frame, or
\* websockets' close_timeout runs out.
Lost(a) ==
  /\ ws[a] \in {"open", "closing"}
  /\ ws' = [ws EXCEPT ![a] = "closed"]
  /\ UNCHANGED <<pc, on, call, outcome, slot, exits, served, closed>>

\* The listener or the pinger fails, on a frame `on_msg` cannot read or a
\* ping that raises, or because the connection is lost.  (`served` is kept of
\* connections that open() has returned; no one asks it of another.)
Unserved(a) ==
  /\ fut[a] = "ok" /\ served[a]
  /\ served' = [served EXCEPT ![a] = FALSE]
  /\ UNCHANGED <<pc, on, call, outcome, slot, exits, ws, closed>>

Next ==
  \/ \E c \in Calls :
       \/ Open(c)
       \/ Dialed(c) \/ DialFails(c) \/ CancelDial(c)
       \/ WakeConnected(c) \/ WakeClosedByOwner(c) \/ WakeFailed(c) \/ CancelJoin(c)
       \/ CallClosed(c) \/ CancelClose(c)
       \/ Discarded(c) \/ CancelDiscard(c)
       \/ HangUp(c) \/ HungUp(c) \/ CancelHangUp(c)
       \/ Lost(c) \/ Unserved(c)
  \/ Exit \/ OwnerClosed \/ CancelOwner

Spec == Init /\ [][Next]_vars

-----------------------------------------------------------------------------
(* Fairness.  The event loop runs every task that is ready; `open_timeout`  *)
(* ends every dial (an override's own handshake is assumed to end too), and *)
(* websockets' `close_timeout` ends the closing handshake of every          *)
(* connection some task is still closing.  Nothing makes a user call,       *)
(* cancel or leave, a peer drop, or a background task fail.                 *)

DialEnds(c) == Dialed(c) \/ DialFails(c)

Wake(c) == \/ WakeConnected(c) \/ WakeClosedByOwner(c) \/ WakeFailed(c)
           \/ CallClosed(c) \/ Discarded(c) \/ HungUp(c)

Closing(t) == pc[t] \in {"closing", "discarding", "hangingUp"}

HandshakeEnds(t) ==
  /\ Closing(t)
  /\ Lost(on[t])

Fairness ==
  /\ \A c \in Calls : WF_vars(DialEnds(c)) /\ WF_vars(Wake(c))
  /\ \A t \in Tasks : WF_vars(HandshakeEnds(t))
  /\ WF_vars(OwnerClosed)

FairSpec == Spec /\ Fairness

-----------------------------------------------------------------------------
(* What must hold.                                                          *)

Held(a) == \E t \in Tasks : Closing(t) /\ on[t] = a

\* The connection in use was dialed for the owner present now: no exit leaves
\* a connection behind it in `_ctx_future`, whenever the dial started
\* (`__aexit__`, and the `_exits` checks of `_open`).
NoConnectionOutlivesOwner ==
  cur # None /\ ~Locked => /\ fut[cur] = "ok"
                          /\ ~closed[cur]
                          /\ seen[cur] = exits

\* At most one dial is in flight, and it is the one later calls join: the
\* attempt in `_ctx_future` is never replaced or dropped under its dialer.
OneDialInFlight ==
  \A c \in Calls : pc[c] = "dialing" <=> (cur = c /\ fut[c] = "pending")

\* ClosedByOwner is raised only to a call during which an owner left: a call
\* made after the exit that joined the connect the exit doomed gets a fresh
\* connection instead.
ClosedByOwnerIsDeserved ==
  \A c \in Calls : outcome[c] = "closedByOwner" => seen[c] < exits

\* Nobody ever closes a connection whose dial failed or was cancelled in an
\* override's own handshake, nor one whose discarding call was cancelled.
Abandoned(a) ==
  \/ fut[a] = "failed"
  \/ fut[a] = "closedByOwner" /\ outcome[a] = "cancelled"

\* A connection that is out of `_ctx_future` and still has a TCP connection
\* is being closed by some task, but for those two that are abandoned: above
\* all, whatever open() has ever returned.
DetachedIsBeingClosed ==
  \A a \in Calls :
    ws[a] \in {"open", "closing"} /\ cur # a => Held(a) \/ Abandoned(a)

\* No two tasks close the same connection.
ClosedByOneTask ==
  \A t, u \in Tasks : Closing(t) /\ Closing(u) /\ on[t] = on[u] => t = u

\* What `close` does when it is cancelled holds of every connection that
\* `force_open` has returned: none but the connection in use keeps its TCP
\* connection unless a task is still closing it.
NothingIsAbandoned ==
  \A a \in Calls :
    ws[a] \in {"open", "closing"} /\ cur # a => Held(a) \/ fut[a] = "failed"

\* open() returns the connection in use, and unless the call dialed it itself
\* returns it alive, even if it joined the connect and woke after an exit, a
\* drop or a replacement.  The dialer is given what it opened unchecked: that
\* may have failed since `websockets.connect` succeeded.
OpenReturnsTheConnectionInUse ==
  [][\A c \in Calls :
       outcome[c] = "none" /\ outcome'[c] = "connected"
         => \E a \in Calls : /\ on'[c] = a /\ cur' = a
                             /\ a = c \/ Alive(a)']_vars

\* Every open() ends: each failure, cancellation or exit during a connect
\* releases the calls that joined it, and no two calls wait on each other.
EveryCallEnds == \A c \in Calls : pc[c] # "idle" ~> pc[c] = "done"

\* A connection that has been replaced, left by its owner or discarded is
\* eventually gone, unless it is abandoned.
DetachedIsEventuallyGone ==
  \A a \in Calls :
    ws[a] \in {"open", "closing"} /\ cur # a
      ~> ws[a] = "closed" \/ Abandoned(a)

-----------------------------------------------------------------------------
(* The socket keeps the promise of OwnedConnection.                         *)

Life(a) ==
  IF fut[a] = "none" THEN "unused"
  ELSE IF fut[a] = "pending" THEN "dialing"
  ELSE IF cur = a THEN "live"
  ELSE IF ws[a] \in {"open", "closing"} THEN "retired"
  ELSE "gone"

Promise == INSTANCE OwnedConnection
             WITH Conns <- Calls, slot <- cur, life <- [a \in Calls |-> Life(a)],
                  gen <- exits,
                  born <- [a \in Calls |-> IF fut[a] = "none" THEN 0 ELSE seen[a]]

\* One connection in use, dialed for the present owner, and never used again
\* once it has left the slot.
KeepsPromise == Promise!Spec

=============================================================================
