----------------------------- MODULE RustSocket -----------------------------
(***************************************************************************)
(* The Rust core's Socket (crates/truewire-core/src/ws/socket.rs).  Tasks  *)
(* interleave at every await; a future may be dropped at any of them.  The *)
(* tokio mutex around `state` is held exactly while its holder dials,      *)
(* which is while `opening` is set; what needs it only for an instant is   *)
(* one action.  It is granted here in any order (tokio's is FIFO).         *)
(***************************************************************************)
EXTENDS CoreSocket

Locked == opening # None

Open(c) ==
  /\ pc[c] = "idle"
  /\ Wait(c, "queued", None)
  /\ UNCHANGED <<dial, slot, closing, link, history>>

\* Mutant: the lock is not held across the dial.
Enter_Unlocked(c) ==
  /\ pc[c] = "queued"
  /\ IF current # None /\ ~ended[current]
       THEN /\ Finish(c, "connected", current)
            /\ UNCHANGED <<dial, slot, closing, link>>
       ELSE StartDial(c)
  /\ UNCHANGED history

\* The lock is granted: use the link there is, or dial with the lock held.
Enter(c) ==
  /\ pc[c] = "queued" /\ ~Locked
  /\ IF current # None /\ ~ended[current]
       THEN /\ Finish(c, "connected", current)
            /\ UNCHANGED <<dial, slot, closing, link>>
       ELSE StartDial(c)
  /\ UNCHANGED history

\* Connected: the reader and the pinger are spawned, `on_open` runs.
Dialed(c) ==
  /\ pc[c] = "dialing"
  /\ wire' = [wire EXCEPT ![c] = "open"]
  /\ Wait(c, "greeting", c)
  /\ UNCHANGED <<dial, slot, closing, ended, history>>

\* open() returns an error, or is dropped, with the lock.
GiveUp(c, result) ==
  /\ dial' = [dial EXCEPT ![c] = "failed"]
  /\ opening' = None
  /\ Finish(c, result, None)
  /\ UNCHANGED <<current, closing, history>>

DialFails(c) ==
  /\ pc[c] = "dialing"
  /\ GiveUp(c, "failed")
  /\ UNCHANGED link

\* `on_open` returned Ok: the link replaces the dead one, whose last owner may
\* now drop it.  It may have failed meanwhile: nobody looks.
Greeted(c) ==
  /\ pc[c] = "greeting"
  /\ dial' = [dial EXCEPT ![c] = IF ended[c] THEN "stillborn" ELSE "ok"]
  /\ opening' = None
  /\ current' = c
  /\ \/ UNCHANGED wire
     \/ /\ current # None
        /\ wire' = [wire EXCEPT ![current] = Shut(@)]
  /\ Finish(c, "connected", c)
  /\ UNCHANGED <<closing, ended, history>>

\* `on_open` failed: fail the link and close its sink, still under the lock.
GreetFails(c) ==
  /\ pc[c] = "greeting"
  /\ ended' = [ended EXCEPT ![c] = TRUE]
  /\ wire' = [wire EXCEPT ![c] = Shut(@)]
  /\ Wait(c, "hangingUp", c)
  /\ UNCHANGED <<dial, slot, closing, history>>

HungUp(c) ==
  /\ pc[c] = "hangingUp"
  /\ GiveUp(c, "failed")
  /\ UNCHANGED link

\* Mutant: the lock outlives the dropped future.
DropOpen_KeepsLock(c) ==
  /\ pc[c] \in {"queued", "dialing", "greeting", "hangingUp"}
  /\ Finish(c, "cancelled", None)
  /\ wire' = [wire EXCEPT ![c] = Shut(@)]
  /\ UNCHANGED <<dial, slot, closing, ended, history>>

\* The future of open() is dropped: so are the guard and the half-made link.
DropOpen(c) ==
  \/ /\ pc[c] = "queued"
     /\ Finish(c, "cancelled", None)
     /\ UNCHANGED <<dial, slot, closing, link, history>>
  \/ /\ pc[c] \in {"dialing", "greeting", "hangingUp"}
     /\ GiveUp(c, "cancelled")
     /\ wire' = [wire EXCEPT ![c] = Shut(@)]
     /\ UNCHANGED ended

\* The reader cannot parse a frame, or a ping cannot be sent: `fail`.  Only the
\* reader then closes the sink.
Fails(a) ==
  /\ wire[a] # "none" /\ ~ended[a]
  /\ ended' = [ended EXCEPT ![a] = TRUE]
  /\ \/ UNCHANGED wire
     \/ wire' = [wire EXCEPT ![a] = Shut(@)]
  /\ UNCHANGED <<task, dial, slot, closing, history>>

Close(k) ==
  /\ CountClose(k)
  /\ Wait(k, "queued", None)
  /\ UNCHANGED <<dial, slot, closing, link>>

\* Mutant: close() does not wait for the open() that holds the lock.
CloseEnter_Unlocked(k) ==
  /\ pc[k] = "queued"
  /\ current' = None
  /\ IF current = None
       THEN /\ CloseReturns(k)
            /\ UNCHANGED link
       ELSE /\ ended' = [ended EXCEPT ![current] = TRUE]
            /\ wire' = [wire EXCEPT ![current] = Shut(@)]
            /\ Wait(k, "closing", current)
            /\ UNCHANGED history
  /\ UNCHANGED <<dial, opening, closing>>

\* The lock is granted to close(): take the link, release the lock, fail the
\* link and start its closing handshake.
CloseEnter(k) ==
  /\ pc[k] = "queued" /\ ~Locked
  /\ current' = None
  /\ IF current = None
       THEN /\ CloseReturns(k)
            /\ UNCHANGED link
       ELSE /\ ended' = [ended EXCEPT ![current] = TRUE]
            /\ wire' = [wire EXCEPT ![current] = Shut(@)]
            /\ Wait(k, "closing", current)
            /\ UNCHANGED history
  /\ UNCHANGED <<dial, opening, closing>>

\* The close frame is out, or `timeout` has passed, or the future is dropped.
CloseEnds(k) ==
  /\ pc[k] = "closing"
  /\ CloseReturns(k)
  /\ UNCHANGED <<dial, slot, closing, link>>

\* The future of close() is dropped while it waits for the lock.
DropClose(k) ==
  /\ pc[k] = "queued"
  /\ CloseReturns(k)
  /\ UNCHANGED <<dial, slot, closing, link>>

Next ==
  \/ \E c \in Calls : \/ Open(c) \/ Enter(c) \/ Dialed(c) \/ DialFails(c)
                      \/ Greeted(c) \/ GreetFails(c) \/ HungUp(c) \/ DropOpen(c)
                      \/ Fails(c) \/ Lost(c) \/ Noticed(c)
  \/ \E k \in Closers : Close(k) \/ CloseEnter(k) \/ CloseEnds(k) \/ DropClose(k)

Spec == Init /\ [][Next]_vars

\* tokio runs every task that is woken and grants the lock, `timeout` bounds
\* the dial and the close() of a link, and `on_open` is assumed to return.
\* HungUp has no fairness: nothing bounds the wait for the sink of a link whose
\* `on_open` failed, and the lock is held meanwhile.
Progress(t) ==
  \/ t \in Calls /\ \/ Enter(t) \/ Dialed(t) \/ DialFails(t)
                    \/ Greeted(t) \/ GreetFails(t)
  \/ t \in Closers /\ (CloseEnter(t) \/ CloseEnds(t))

=============================================================================
