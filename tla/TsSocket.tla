------------------------------ MODULE TsSocket ------------------------------
(***************************************************************************)
(* The TypeScript core's Socket (core-ts/src/ws/socket.ts).                *)
(*                                                                         *)
(* Promise callbacks run to completion, so an action is what runs between  *)
(* two awaits of a promise that is still pending.  An await of a settled   *)
(* promise lets other callbacks run first: it is a step of its own.        *)
(***************************************************************************)
EXTENDS CoreSocket

\* `open()` up to its first await.
Enter(c) ==
  IF opening # None
    THEN /\ Wait(c, "joining", opening)
         /\ UNCHANGED <<dial, slot, closing, link>>
    ELSE StartDial(c)

\* Mutant: the slot is emptied whatever connection it holds by now.
CloseContext_ForgetsAny(t, a) ==
  IF closing # None
    THEN /\ Wait(t, "borrowing", a)
         /\ UNCHANGED <<slot, closing, link>>
    ELSE /\ Wait(t, "closing", a)
         /\ closing' = a
         /\ current' = None /\ opening' = None
         /\ ended' = [ended EXCEPT ![a] = TRUE]
         /\ wire' = [wire EXCEPT ![a] = Shut(@)]

\* `closeContext(a)`: a closing in progress is returned whatever connection it
\* is of; otherwise forget `a`, abort it and start its closing handshake.
CloseContext(t, a) ==
  IF closing # None
    THEN /\ Wait(t, "borrowing", a)
         /\ UNCHANGED <<slot, closing, link>>
    ELSE /\ Wait(t, "closing", a)
         /\ closing' = a
         /\ IF current = a THEN current' = None /\ opening' = None ELSE UNCHANGED slot
         /\ ended' = [ended EXCEPT ![a] = TRUE]
         /\ wire' = [wire EXCEPT ![a] = Shut(@)]

\* `#opening` is fulfilled: the connection is the current one.
Published(c) ==
  /\ dial' = [dial EXCEPT ![c] = "ok"]
  /\ current' = c
  /\ Finish(c, "connected", c)
  /\ UNCHANGED <<opening, closing, ended, history>>

\* `#opening` is rejected, and forgotten.
Rejected(c) ==
  /\ dial' = [dial EXCEPT ![c] = "failed"]
  /\ opening' = IF opening = c THEN None ELSE opening
  /\ Finish(c, "failed", None)
  /\ UNCHANGED <<current, closing, link, history>>

-----------------------------------------------------------------------------

Open(c) ==
  /\ pc[c] = "idle"
  /\ Enter(c)
  /\ UNCHANGED history

Reopen(c) ==
  /\ pc[c] = "again"
  /\ Enter(c)
  /\ UNCHANGED history

\* The first opener returns its connection without looking at it again.
Dialed(c) ==
  /\ pc[c] = "dialing"
  /\ Published(c)
  /\ wire' = [wire EXCEPT ![c] = "open"]

DialFails(c) ==
  /\ pc[c] = "dialing"
  /\ Rejected(c)

\* A `forceOpen` that greets has its connection from `super.forceOpen()`, and
\* now awaits the answer; nobody else has the connection yet.
Greets(c) ==
  /\ pc[c] = "dialing"
  /\ wire' = [wire EXCEPT ![c] = "open"]
  /\ Wait(c, "greeting", c)
  /\ UNCHANGED <<dial, slot, closing, ended, history>>

\* The answer came.  The connection may have ended since: nobody looks.
Greeted(c) ==
  /\ pc[c] = "greeting"
  /\ Published(c)
  /\ UNCHANGED wire

\* The override throws: the connection is forgotten, and nobody closes it.
GreetFails(c) ==
  /\ pc[c] = "greeting"
  /\ Rejected(c)

\* `await this.#opening` has settled in open().
Woken(c) ==
  /\ pc[c] = "joining" /\ dial[on[c]] # "pending"
  /\ \/ /\ dial[on[c]] = "failed"
        /\ Finish(c, "failed", None)
        /\ UNCHANGED <<slot, closing, link>>
     \/ /\ dial[on[c]] = "ok" /\ wire[on[c]] = "open"
        /\ Finish(c, "connected", on[c])
        /\ UNCHANGED <<slot, closing, link>>
     \/ /\ dial[on[c]] = "ok" /\ wire[on[c]] # "open"
        /\ CloseContext(c, on[c])
  /\ UNCHANGED <<dial, history>>

\* `close()`: nothing to do when nothing is open or being opened.
Close(k) ==
  /\ opening # None
  /\ CountClose(k)
  /\ Wait(k, "joining", opening)
  /\ UNCHANGED <<dial, slot, closing, link>>

CloseWoken(k) ==
  /\ pc[k] = "joining" /\ dial[on[k]] # "pending"
  /\ \/ /\ dial[on[k]] = "failed"
        /\ CloseReturns(k)
        /\ UNCHANGED <<slot, closing, link>>
     \/ /\ dial[on[k]] = "ok"
        /\ CloseContext(k, on[k])
        /\ UNCHANGED history
  /\ UNCHANGED dial

\* The `onclose` of the connection being closed, or the timeout: everyone who
\* was given `#closing` goes on.
ClosingEnds ==
  /\ closing # None
  /\ closing' = None
  /\ LET waiting == {t \in Tasks : pc[t] \in {"closing", "borrowing"}}
     IN /\ pc' = [t \in Tasks |-> IF t \notin waiting THEN pc[t]
                                  ELSE IF t \in Calls THEN "again" ELSE "idle"]
        /\ on' = [t \in Tasks |-> IF t \in waiting THEN None ELSE on[t]]
        /\ asked' = [k \in Closers |-> IF k \in waiting THEN {} ELSE asked[k]]
  /\ UNCHANGED <<outcome, dial, slot, link, closes>>

\* A close frame has come: `readyState` is CLOSING, no event yet.
PeerCloses(a) ==
  /\ wire[a] = "open"
  /\ wire' = [wire EXCEPT ![a] = "closing"]
  /\ UNCHANGED <<task, dial, slot, closing, ended, history>>

\* `onclose` or `onerror`, which changes `readyState` in the same task.
Gone(a) ==
  /\ wire[a] \in {"open", "closing"}
  /\ wire' = [wire EXCEPT ![a] = "closed"]
  /\ ended' = [ended EXCEPT ![a] = TRUE]
  /\ UNCHANGED <<task, dial, slot, closing, history>>

\* onMsg throws: abort, and close the connection.
BadMessage(a) ==
  /\ wire[a] = "open" /\ ~ended[a]
  /\ wire' = [wire EXCEPT ![a] = "closing"]
  /\ ended' = [ended EXCEPT ![a] = TRUE]
  /\ UNCHANGED <<task, dial, slot, closing, history>>

\* The ping rejects: abort, and leave the connection open.
PingFails(a) ==
  /\ wire[a] # "none" /\ ~ended[a]
  /\ ended' = [ended EXCEPT ![a] = TRUE]
  /\ UNCHANGED <<task, dial, slot, closing, wire, history>>

Next ==
  \/ \E c \in Calls : \/ Open(c) \/ Reopen(c) \/ Dialed(c) \/ DialFails(c)
                      \/ Greets(c) \/ Greeted(c) \/ GreetFails(c) \/ Woken(c)
                      \/ PeerCloses(c) \/ Gone(c) \/ BadMessage(c) \/ PingFails(c)
  \/ \E k \in Closers : Close(k) \/ CloseWoken(k)
  \/ ClosingEnds

Spec == Init /\ [][Next]_vars

\* The event loop runs every callback that is ready, `timeout` ends every dial,
\* and an override's greeting is assumed to return.
Progress(t) ==
  \/ t \in Calls /\ \/ Reopen(t) \/ Dialed(t) \/ DialFails(t) \/ Greets(t)
                    \/ Greeted(t) \/ GreetFails(t) \/ Woken(t)
  \/ t \in Closers /\ CloseWoken(t)

=============================================================================
