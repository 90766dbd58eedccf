------------------------------ MODULE GoSocket ------------------------------
(***************************************************************************)
(* The Go core's Socket (core-go/ws/socket.go).  Goroutines interleave at  *)
(* every step; what runs under `mu`, and an Abort (a sync.Once), is one    *)
(* action.                                                                 *)
(***************************************************************************)
EXTENDS CoreSocket

\* One turn of Open's loop: use, join or dial.
Enter(c) ==
  IF current # None /\ ~ended[current]
    THEN /\ Finish(c, "connected", current)
         /\ UNCHANGED <<dial, slot, closing, link>>
  ELSE IF opening # None
    THEN /\ Wait(c, "joining", opening)
         /\ UNCHANGED <<dial, slot, closing, link>>
  ELSE StartDial(c)

Open(c) ==
  /\ pc[c] = "idle"
  /\ Enter(c)
  /\ UNCHANGED history

\* Mutant: the opener's connection is taken for granted.
Woken_Unchecked(c) ==
  /\ pc[c] = "joining" /\ dial[on[c]] # "pending"
  /\ Finish(c, "connected", on[c])
  /\ UNCHANGED <<dial, slot, closing, link, history>>

\* The opener closed its channel, whatever became of its dial: look again.
Woken(c) ==
  /\ pc[c] = "joining" /\ dial[on[c]] # "pending"
  /\ Enter(c)
  /\ UNCHANGED history

\* `ctx` ends before the opener does.
CancelJoin(c) ==
  /\ pc[c] = "joining"
  /\ Finish(c, "cancelled", None)
  /\ UNCHANGED <<dial, slot, closing, link, history>>

\* The dial succeeded: the listener starts, OnOpen runs.
Dialed(c) ==
  /\ pc[c] = "dialing"
  /\ wire' = [wire EXCEPT ![c] = "open"]
  /\ Wait(c, "greeting", c)
  /\ UNCHANGED <<dial, slot, closing, ended, history>>

\* The dial failed, timed out or its `ctx` ended.
DialFails(c) ==
  /\ pc[c] = "dialing"
  /\ dial' = [dial EXCEPT ![c] = "failed"]
  /\ opening' = None
  /\ Finish(c, "failed", None)
  /\ UNCHANGED <<current, closing, link, history>>

\* OnOpen returned nil.  The connection may have ended meanwhile: nobody looks.
Greeted(c) ==
  /\ pc[c] = "greeting"
  /\ dial' = [dial EXCEPT ![c] = IF ended[c] THEN "stillborn" ELSE "ok"]
  /\ opening' = None
  /\ current' = c
  /\ Finish(c, "connected", c)
  /\ UNCHANGED <<closing, link, history>>

\* OnOpen failed: Abort, and close the raw connection.
GreetFails(c) ==
  /\ pc[c] = "greeting"
  /\ ended' = [ended EXCEPT ![c] = TRUE]
  /\ wire' = [wire EXCEPT ![c] = Shut(@)]
  /\ Wait(c, "hangingUp", c)
  /\ UNCHANGED <<dial, slot, closing, history>>

HungUp(c) ==
  /\ pc[c] = "hangingUp"
  /\ wire' = [wire EXCEPT ![c] = "closed"]
  /\ dial' = [dial EXCEPT ![c] = "failed"]
  /\ opening' = None
  /\ Finish(c, "failed", None)
  /\ UNCHANGED <<current, closing, ended, history>>

\* OnMessage or Ping returned an error: Abort, which ends the read below.
Fails(a) ==
  /\ wire[a] # "none" /\ ~ended[a]
  /\ ended' = [ended EXCEPT ![a] = TRUE]
  /\ wire' = [wire EXCEPT ![a] = Shut(@)]
  /\ UNCHANGED <<task, dial, slot, closing, history>>

\* Close takes `current`, dead or alive, and looks at nothing else.
Close(k) ==
  /\ current # None
  /\ CountClose(k)
  /\ Wait(k, "aborting", current)
  /\ current' = None
  /\ UNCHANGED <<dial, opening, closing, link>>

CloseAborts(k) ==
  /\ pc[k] = "aborting"
  /\ ended' = [ended EXCEPT ![on[k]] = TRUE]
  /\ wire' = [wire EXCEPT ![on[k]] = Shut(@)]
  /\ Wait(k, "closing", on[k])
  /\ UNCHANGED <<dial, slot, closing, history>>

\* conn.Close gives the handshake a bounded time and then drops the connection.
CloseEnds(k) ==
  /\ pc[k] = "closing"
  /\ wire' = [wire EXCEPT ![on[k]] = "closed"]
  /\ CloseReturns(k)
  /\ UNCHANGED <<dial, slot, closing, ended>>

Next ==
  \/ \E c \in Calls : \/ Open(c) \/ Woken(c) \/ CancelJoin(c)
                      \/ Dialed(c) \/ DialFails(c)
                      \/ Greeted(c) \/ GreetFails(c) \/ HungUp(c)
                      \/ Fails(c) \/ Lost(c) \/ Noticed(c)
  \/ \E k \in Closers : Close(k) \/ CloseAborts(k) \/ CloseEnds(k)

Spec == Init /\ [][Next]_vars

\* Goroutines run, the dial and Close are bounded by `Timeout` and the library,
\* and OnOpen is assumed to return.
Progress(t) ==
  \/ t \in Calls /\ \/ Woken(t) \/ Dialed(t) \/ DialFails(t)
                    \/ Greeted(t) \/ GreetFails(t) \/ HungUp(t)
  \/ t \in Closers /\ (CloseAborts(t) \/ CloseEnds(t))

=============================================================================
