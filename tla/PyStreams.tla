------------------------------ MODULE PyStreams ------------------------------
(***************************************************************************)
(* Subscriptions of the Python core (truewire_core/ws/streams.py, and the  *)
(* same code in ws/streams_rpc.py) over Socket.wait: one queue per local   *)
(* channel, filled by the listener, read by a consumer, and dropped by     *)
(* unsubscribe, by a failed read or when the owner leaves.                 *)
(*                                                                         *)
(* Each member of Subs is one `subscribe()` call with the Stream it        *)
(* returns.  The connection underneath behaves as OwnedConnection says and *)
(* PySocket shows: a call gets the connection in use, alive, or a fresh    *)
(* one, and a call an owner left during gets ClosedByOwner.                *)
(*                                                                         *)
(* A read goes through three tasks: `queue_get` takes a notification off   *)
(* the queue, the task of `Socket.wait` sees that it has, and the reader   *)
(* wakes, to await once more in the `finally` of `stream` (on Python 3.10  *)
(* and 3.11; later ones do not suspend on a task that is done).  Each is a *)
(* step of the event loop, and the listener may fail between any two.      *)
(***************************************************************************)
EXTENDS Naturals, Sequences, SequencesExt

CONSTANTS Subs,      \* the subscribe() calls
          Conns,     \* the connections that may be opened
          None,
          Kinds,     \* what may be subscribed to: [chan, req, keyed]
          MaxNotes,  \* bound on the notifications the server sends
          MaxExits   \* bound on how often an owner leaves

Channels == {k.chan : k \in Kinds} \cup {k.req : k \in Kinds}

ASSUME NoneIsNothing ==
  None \notin Subs /\ None \notin Conns /\ None \notin Kinds /\ None \notin Channels
ASSUME BoundsAreNat == MaxNotes \in Nat /\ MaxExits \in Nat

\* `chan` is the local channel, `req` the one the subscription request and a
\* keyed notification name, `keyed` whether a `message_key` is given.
ASSUME KindsAreKinds ==
  /\ \A k \in Kinds : k.keyed \in BOOLEAN
  /\ \A k \in Kinds : DOMAIN k = {"chan", "req", "keyed"}

\* A local channel stands for one subscription, and is not what the wire calls
\* another one that has a message key.
ASSUME KindsAreApart ==
  \A k, l \in Kinds : /\ k.chan = l.chan => k = l
                      /\ k.keyed /\ ~l.keyed => k.req # l.chan

VARIABLES
  pc,       \* where the subscription, then its reader, is
  un,       \* the unsubscribe() call: "no", "asking" or "finished"
  result,   \* how the reader's stream ended
  kind,     \* what it subscribed to
  ctx,      \* the Context it is bound to
  seen,     \* `_exits` when the call asked for the connection
  queue,    \* its asyncio.Queue
  taken,    \* what `queue_get` has taken and the reader has not been given
  inner,    \* the task of `wait`: "no" until done, then "item" or "end"
  got,      \* history: what the reader was given
  due,      \* history: what arrived for it while it was subscribed
  table,    \* `subscriptions`
  keys,     \* the domain of `message_keys`
  cur,      \* the connection in use
  life,     \* what has become of each connection
  server,   \* the kinds each connection's peer sends notifications of
  notes,    \* how many notifications were sent
  leaving,  \* the owner is closing the connection it left
  exits,    \* `_exits`
  swept     \* history: the channels an owner took from subscriptions made
            \* while it was closing the connection it left

stream == <<kind, ctx, seen>>
reading == <<queue, taken, inner, got, due>>
maps == <<table, keys>>
net == <<cur, life, server, notes>>
owner == <<leaving, exits, swept>>
vars == <<pc, un, result, stream, reading, maps, net, owner>>

Notes == [n : 1..MaxNotes, conn : Conns]

TypeOK ==
  /\ pc \in [Subs -> {"idle", "connecting", "requesting", "subscribed", "reading",
                  "settling", "over"}]
  /\ un \in [Subs -> {"no", "asking", "finished"}]
  /\ result \in [Subs -> {"none", "failed", "ended", "dropped", "cancelled", "unsettled"}]
  /\ kind \in [Subs -> Kinds \cup {None}]
  /\ ctx \in [Subs -> Conns \cup {None}]
  /\ seen \in [Subs -> Nat]
  /\ queue \in [Subs -> Seq(Notes)] /\ taken \in [Subs -> Seq(Notes)]
  /\ got \in [Subs -> Seq(Notes)] /\ due \in [Subs -> Seq(Notes)]
  /\ inner \in [Subs -> {"no", "item", "end"}]
  /\ table \in [Channels -> Subs \cup {None}]
  /\ keys \subseteq Channels
  /\ cur \in Conns \cup {None}
  /\ life \in [Conns -> {"unused", "alive", "draining", "deaf", "dead"}]
  /\ server \in [Conns -> SUBSET Kinds]
  /\ notes \in 0..MaxNotes
  /\ leaving \in BOOLEAN
  /\ exits \in 0..MaxExits
  /\ swept \subseteq Channels

Init ==
  /\ pc = [s \in Subs |-> "idle"]
  /\ un = [s \in Subs |-> "no"]
  /\ result = [s \in Subs |-> "none"]
  /\ kind = [s \in Subs |-> None]
  /\ ctx = [s \in Subs |-> None]
  /\ seen = [s \in Subs |-> 0]
  /\ queue = [s \in Subs |-> << >>]
  /\ taken = [s \in Subs |-> << >>]
  /\ inner = [s \in Subs |-> "no"]
  /\ got = [s \in Subs |-> << >>]
  /\ due = [s \in Subs |-> << >>]
  /\ table = [c \in Channels |-> None]
  /\ keys = {}
  /\ cur = None
  /\ life = [k \in Conns |-> "unused"]
  /\ server = [k \in Conns |-> {}]
  /\ notes = 0
  /\ leaving = FALSE
  /\ exits = 0
  /\ swept = {}

-----------------------------------------------------------------------------

\* `Context.alive`.  A draining connection is no longer OPEN but its listener
\* still has frames to read; a deaf one's pinger has failed.
Alive(k) == k # None /\ life[k] = "alive"

\* The listener still hands frames to `on_msg`.
Listening(k) == k # None /\ life[k] \in {"alive", "draining", "deaf"}

\* The listener or the pinger is done: what `wait` races the request against.
Failed(k) == k # None /\ life[k] \in {"deaf", "dead"}

\* The end of connection c, if it is one, and of what its peer was to send.
Dies(c) ==
  /\ life' = [k \in Conns |-> IF k = c THEN "dead" ELSE life[k]]
  /\ server' = [k \in Conns |-> IF k = c THEN {} ELSE server[k]]

\* Mutant: `forget` does not look whose queue is registered.
Forget_Anyone(s) == table' = [table EXCEPT ![kind[s].chan] = None]

\* `forget`: drop this stream's queue, unless the channel was subscribed anew.
Forget(s) ==
  table' = [c \in Channels |-> IF c = kind[s].chan /\ table[c] = s THEN None ELSE table[c]]

Stop(s, how) ==
  /\ pc' = [pc EXCEPT ![s] = "over"]
  /\ result' = [result EXCEPT ![s] = how]

-----------------------------------------------------------------------------
(* subscribe().                                                             *)

\* The channel is taken: RuntimeError, after the message key was recorded.
Refuse(s, k) ==
  /\ pc[s] = "idle"
  /\ table[k.chan] # None
  /\ keys' = IF k.keyed THEN keys \cup {k.req} ELSE keys
  /\ Stop(s, "failed")
  /\ UNCHANGED <<un, stream, reading, table, net, owner>>

\* Mutant: a dead connection is left behind with its listener running.
Subscribe_ListenerLeft(s, k) ==
  /\ pc[s] = "idle"
  /\ table[k.chan] = None
  /\ kind' = [kind EXCEPT ![s] = k]
  /\ seen' = [seen EXCEPT ![s] = exits]
  /\ keys' = IF k.keyed THEN keys \cup {k.req} ELSE keys
  /\ table' = [table EXCEPT ![k.chan] = s]
  /\ ~Alive(cur)
  /\ pc' = [pc EXCEPT ![s] = "connecting"]
  /\ cur' = None
  /\ UNCHANGED <<ctx, life, server, notes, un, result, reading, owner>>

\* Register the queue, then ask for the connection: at once if it is alive,
\* after closing it if it is not, after a dial if there is none.
Subscribe(s, k) ==
  /\ pc[s] = "idle"
  /\ table[k.chan] = None
  /\ kind' = [kind EXCEPT ![s] = k]
  /\ keys' = IF k.keyed THEN keys \cup {k.req} ELSE keys
  /\ table' = [table EXCEPT ![k.chan] = s]
  /\ \/ /\ Alive(cur)
        /\ ctx' = [ctx EXCEPT ![s] = cur]
        /\ pc' = [pc EXCEPT ![s] = "requesting"]
        /\ UNCHANGED <<seen, net>>
     \/ /\ ~Alive(cur)
        /\ seen' = [seen EXCEPT ![s] = exits]
        /\ pc' = [pc EXCEPT ![s] = "connecting"]
        /\ cur' = None
        /\ Dies(cur)
        /\ UNCHANGED <<ctx, notes>>
  /\ UNCHANGED <<un, result, reading, owner>>

\* `await self.ctx` returns the connection in use, or one it has opened.
Connected(s) ==
  /\ pc[s] = "connecting"
  /\ seen[s] = exits
  /\ \E k \in Conns :
       /\ \/ k = cur /\ Alive(k) /\ UNCHANGED <<cur, life>>
          \/ /\ cur = None /\ life[k] = "unused"
             /\ cur' = k
             /\ life' = [life EXCEPT ![k] = "alive"]
       /\ ctx' = [ctx EXCEPT ![s] = k]
  /\ seen' = [seen EXCEPT ![s] = 0]
  /\ pc' = [pc EXCEPT ![s] = "requesting"]
  /\ UNCHANGED <<un, result, kind, reading, maps, server, notes, owner>>

\* The connection it waited for is dead already: close it and dial again.
Reconnect(s) ==
  /\ pc[s] = "connecting"
  /\ cur # None /\ ~Alive(cur)
  /\ cur' = None
  /\ Dies(cur)
  /\ UNCHANGED <<pc, un, result, stream, reading, maps, notes, owner>>

\* NetworkError, ClosedByOwner, or the subscriber is cancelled.
ConnectFails(s) ==
  /\ pc[s] = "connecting"
  /\ seen' = [seen EXCEPT ![s] = 0]
  /\ Forget(s)
  /\ Stop(s, "failed")
  /\ UNCHANGED <<un, kind, ctx, reading, keys, net, owner>>

\* The subscription request reaches the server, on the stream's connection.
Request(s) ==
  /\ pc[s] = "requesting" /\ Alive(ctx[s])
  /\ kind[s] \notin server[ctx[s]]
  /\ server' = [server EXCEPT ![ctx[s]] = @ \cup {kind[s]}]
  /\ UNCHANGED <<pc, un, result, stream, reading, maps, cur, life, notes, owner>>

Acknowledged(s) ==
  /\ pc[s] = "requesting" /\ kind[s] \in server[ctx[s]]
  /\ Listening(ctx[s])
  /\ pc' = [pc EXCEPT ![s] = "subscribed"]
  /\ UNCHANGED <<un, result, stream, reading, maps, net, owner>>

\* The connection failed before the reply.
RequestDropped(s) ==
  /\ pc[s] = "requesting" /\ Failed(ctx[s])
  /\ Forget(s)
  /\ Stop(s, "failed")
  /\ UNCHANGED <<un, stream, reading, keys, net, owner>>

\* The request itself raised, or the subscriber was cancelled.
RequestCancelled(s) ==
  /\ pc[s] = "requesting"
  /\ Forget(s)
  /\ Stop(s, "failed")
  /\ UNCHANGED <<un, stream, reading, keys, net, owner>>

-----------------------------------------------------------------------------
(* Reading.                                                                 *)

\* The next notification is there, or the stream was unsubscribed.
ReadAtOnce(s) ==
  /\ pc[s] = "subscribed"
  /\ \/ /\ un[s] = "finished"
        /\ Stop(s, "ended")
        /\ UNCHANGED <<queue, got>>
     \/ /\ un[s] # "finished" /\ queue[s] # << >>
        /\ got' = [got EXCEPT ![s] = Append(@, Head(queue[s]))]
        /\ queue' = [queue EXCEPT ![s] = Tail(@)]
        /\ UNCHANGED <<pc, result>>
  /\ UNCHANGED <<un, stream, taken, inner, due, maps, net, owner>>

StartRead(s) ==
  /\ pc[s] = "subscribed"
  /\ un[s] # "finished" /\ queue[s] = << >>
  /\ pc' = [pc EXCEPT ![s] = "reading"]
  /\ UNCHANGED <<un, result, stream, reading, maps, net, owner>>

\* `queue_get` runs.
Take(s) ==
  /\ pc[s] = "reading" /\ inner[s] = "no"
  /\ taken[s] = << >> /\ queue[s] # << >>
  /\ taken' = [taken EXCEPT ![s] = <<Head(queue[s])>>]
  /\ queue' = [queue EXCEPT ![s] = Tail(@)]
  /\ UNCHANGED <<pc, un, result, stream, inner, got, due, maps, net, owner>>

\* The `asyncio.wait` inside `wait` returns.
InnerDone(s) ==
  /\ pc[s] = "reading" /\ inner[s] = "no"
  /\ taken[s] # << >> \/ un[s] = "finished"
  /\ inner' = [inner EXCEPT ![s] = IF taken[s] # << >> THEN "item" ELSE "end"]
  /\ UNCHANGED <<pc, un, result, stream, queue, taken, got, due, maps, net, owner>>

\* The reader wakes: a completed request wins over a failed connection.
WakeItem(s) ==
  /\ pc[s] = "reading" /\ inner[s] = "item"
  /\ inner' = [inner EXCEPT ![s] = "no"]
  /\ pc' = [pc EXCEPT ![s] = "settling"]
  /\ UNCHANGED <<un, result, stream, queue, taken, got, due, maps, net, owner>>

\* The `gather` of the `finally` is over: the notification is yielded.
Settled(s) ==
  /\ pc[s] = "settling"
  /\ got' = [got EXCEPT ![s] = @ \o taken[s]]
  /\ taken' = [taken EXCEPT ![s] = << >>]
  /\ pc' = [pc EXCEPT ![s] = "subscribed"]
  /\ UNCHANGED <<un, result, stream, queue, inner, due, maps, net, owner>>

\* Cancelled in that `gather`, past the `except` that calls `forget`: the
\* generator ends, and its queue stays registered.
CancelSettle(s) ==
  /\ pc[s] = "settling"
  /\ Stop(s, "unsettled")
  /\ UNCHANGED <<un, stream, reading, maps, net, owner>>

\* The stream was unsubscribed.  (Cancelled in the `gather` that follows, or in
\* the one after a failure, a reader has forgotten its queue before.)
WakeEnd(s) ==
  /\ pc[s] = "reading" /\ inner[s] = "end"
  /\ Stop(s, "ended")
  /\ UNCHANGED <<un, stream, reading, maps, net, owner>>

\* Mutant: a failed read keeps the channel.
WakeDropped_ChannelKept(s) ==
  /\ pc[s] = "reading" /\ inner[s] = "no" /\ Failed(ctx[s])
  /\ Stop(s, "dropped")
  /\ UNCHANGED <<un, stream, reading, maps, net, owner>>

\* Mutant: only the listener is watched.
WakeDropped_PingerUnwatched(s) ==
  /\ pc[s] = "reading" /\ inner[s] = "no" /\ life[ctx[s]] = "dead"
  /\ Forget(s)
  /\ Stop(s, "dropped")
  /\ UNCHANGED <<un, stream, reading, keys, net, owner>>

WakeDropped(s) ==
  /\ pc[s] = "reading" /\ inner[s] = "no" /\ Failed(ctx[s])
  /\ Forget(s)
  /\ Stop(s, "dropped")
  /\ UNCHANGED <<un, stream, reading, keys, net, owner>>

CancelRead(s) ==
  /\ pc[s] = "reading"
  /\ Forget(s)
  /\ Stop(s, "cancelled")
  /\ UNCHANGED <<un, stream, reading, keys, net, owner>>

-----------------------------------------------------------------------------
(* unsubscribe().                                                           *)

Streaming(s) ==
  \/ pc[s] \in {"subscribed", "reading", "settling"}
  \/ result[s] \in {"dropped", "cancelled", "unsettled"}

Unsubscribe(s) ==
  /\ Streaming(s) /\ un[s] = "no"
  /\ \/ /\ Alive(ctx[s])
        /\ un' = [un EXCEPT ![s] = "asking"]
        /\ UNCHANGED table
     \/ /\ ~Alive(ctx[s])
        /\ un' = [un EXCEPT ![s] = "finished"]
        /\ Forget(s)
  /\ UNCHANGED <<pc, result, stream, reading, keys, net, owner>>

Unsubscribed(s) ==
  /\ un[s] = "asking" /\ Listening(ctx[s])
  /\ un' = [un EXCEPT ![s] = "finished"]
  /\ Forget(s)
  /\ UNCHANGED <<pc, result, stream, reading, keys, net, owner>>

\* On a connection that still lives the subscription stands and may be
\* unsubscribed again; on one that is gone there is nothing left to ask.
UnsubscribeFails(s) ==
  /\ un[s] = "asking"
  /\ \/ /\ Alive(ctx[s])
        /\ un' = [un EXCEPT ![s] = "no"]
        /\ UNCHANGED table
     \/ /\ ~Alive(ctx[s])
        /\ un' = [un EXCEPT ![s] = "finished"]
        /\ Forget(s)
  /\ UNCHANGED <<pc, result, stream, reading, keys, net, owner>>

-----------------------------------------------------------------------------
(* The server, the network and the owner.                                   *)

\* Mutant: `on_msg` ignores `message_keys`.
Routed_NoKeys(k) == IF k.keyed THEN k.req ELSE k.chan

\* The local channel `on_msg` files a notification of kind k under.
\* A message key given another kind's notification names no local channel.
Routed(k) ==
  LET wire == IF k.keyed THEN k.req ELSE k.chan
  IN  IF wire \in keys THEN IF k.keyed THEN k.chan ELSE None ELSE wire

\* The streams a notification of kind k on connection c is meant for.
MeantFor(s, c, k) ==
  /\ pc[s] \in {"requesting", "subscribed", "reading", "settling"} \/ result[s] = "unsettled"
  /\ un[s] # "finished" /\ ctx[s] = c /\ kind[s] = k

\* A notification arrives: `on_msg`.
Notify(c, k) ==
  /\ Listening(c) /\ k \in server[c]
  /\ notes < MaxNotes
  /\ notes' = notes + 1
  /\ LET note == [n |-> notes', conn |-> c]
         at == Routed(k)
     IN  /\ queue' = [s \in Subs |-> IF at # None /\ table[at] = s
                                       THEN Append(queue[s], note) ELSE queue[s]]
         /\ due' = [s \in Subs |-> IF MeantFor(s, c, k)
                                     THEN Append(due[s], note) ELSE due[s]]
  /\ UNCHANGED <<pc, un, result, stream, taken, inner, got, maps, cur, life, server, owner>>

\* The server stops sending what nobody on the connection asks for.
ServerStops(c, k) ==
  /\ k \in server[c]
  /\ \A s \in Subs : ~MeantFor(s, c, k)
  /\ server' = [server EXCEPT ![c] = @ \ {k}]
  /\ UNCHANGED <<pc, un, result, stream, reading, maps, cur, life, notes, owner>>

\* The connection closes with frames still unread, or its pinger fails.
Falter(c) ==
  /\ life[c] = "alive"
  /\ \E how \in {"draining", "deaf"} : life' = [life EXCEPT ![c] = how]
  /\ UNCHANGED <<pc, un, result, stream, reading, maps, cur, server, notes, owner>>

\* The listener ends: no frame is left, or `on_msg` cannot read one.
ListenerEnds(c) ==
  /\ Listening(c)
  /\ Dies(c)
  /\ UNCHANGED <<pc, un, result, stream, reading, maps, cur, notes, owner>>

\* `__aexit__`: without a connection to close, the table is cleared at once.
Exit ==
  /\ ~leaving /\ exits < MaxExits
  /\ exits' = exits + 1
  /\ \/ /\ cur # None
        /\ leaving' = TRUE
        /\ Dies(cur)
        /\ cur' = None
        /\ UNCHANGED table
     \/ /\ cur = None
        /\ table' = [c \in Channels |-> None]
        /\ UNCHANGED <<leaving, cur, life, server>>
  /\ UNCHANGED <<pc, un, result, stream, reading, keys, notes, swept>>

\* A stream that is not of the connection that was left.
Current(s) == pc[s] = "connecting" \/ Alive(ctx[s])

\* The handshake is over: `subscriptions.clear()`.
Left ==
  /\ leaving
  /\ leaving' = FALSE
  /\ table' = [c \in Channels |-> None]
  /\ swept' = swept \cup {c \in Channels : table[c] # None /\ Current(table[c])}
  /\ UNCHANGED <<pc, un, result, stream, reading, keys, net, exits>>

\* Mutant: an interrupted exit is counted again.
CancelExit_CountedAgain ==
  /\ leaving
  /\ leaving' = FALSE
  /\ exits' = exits + 1
  /\ UNCHANGED <<pc, un, result, stream, reading, maps, net, swept>>

\* The owner is cancelled during the handshake: nothing is cleared.
CancelExit ==
  /\ leaving
  /\ leaving' = FALSE
  /\ UNCHANGED <<pc, un, result, stream, reading, maps, net, exits, swept>>

Next ==
  \/ \E s \in Subs :
       \/ \E k \in Kinds : Refuse(s, k) \/ Subscribe(s, k)
       \/ Connected(s) \/ Reconnect(s) \/ ConnectFails(s)
       \/ Request(s) \/ Acknowledged(s) \/ RequestDropped(s) \/ RequestCancelled(s)
       \/ ReadAtOnce(s) \/ StartRead(s) \/ Take(s) \/ InnerDone(s)
       \/ WakeItem(s) \/ Settled(s) \/ CancelSettle(s) \/ WakeEnd(s)
       \/ WakeDropped(s) \/ CancelRead(s)
       \/ Unsubscribe(s) \/ Unsubscribed(s) \/ UnsubscribeFails(s)
  \/ \E c \in Conns :
       \/ \E k \in Kinds : Notify(c, k) \/ ServerStops(c, k)
       \/ Falter(c) \/ ListenerEnds(c)
  \/ Exit \/ Left \/ CancelExit

Spec == Init /\ [][Next]_vars

\* The event loop runs every task that is ready.  Users and servers may stop.
Fairness ==
  \A s \in Subs :
    /\ WF_vars(Take(s)) /\ WF_vars(InnerDone(s))
    /\ WF_vars(WakeItem(s)) /\ WF_vars(Settled(s))
    /\ WF_vars(WakeEnd(s)) /\ WF_vars(WakeDropped(s))
    /\ WF_vars(RequestDropped(s))
    /\ WF_vars(Failed(ctx[s]) /\ UnsubscribeFails(s))

FairSpec == Spec /\ Fairness

-----------------------------------------------------------------------------
(* What must hold.                                                          *)

Registered(s) == kind[s] # None /\ table[kind[s].chan] = s

Received(s) == got[s] \o taken[s] \o queue[s]

\* A channel an owner has swept (LiveStreamsStayRegistered) may be subscribed
\* twice at once: nothing is said of its streams.
Swept(s) == kind[s] # None /\ kind[s].chan \in swept

\* As long as a stream's queue is registered, every notification of its
\* subscription reaches it, once and in order; and a consumer never sees
\* anything else, whatever fails (`on_msg` and the three tasks of a read).
NothingLostOrReordered ==
  \A s \in Subs : ~Swept(s) =>
    /\ IsPrefix(got[s], due[s])
    /\ Registered(s) /\ ctx[s] # None => Received(s) = due[s]

\* A subscription belongs to one connection: its queue never holds what came
\* over another one, even though the queue is registered before the
\* connection is known and an old listener may still be reading frames.
OwnConnectionOnly ==
  \A s \in Subs : ~Swept(s) =>
    \A i \in DOMAIN Received(s) : Received(s)[i].conn = ctx[s]

\* A stream that is over, failed or unsubscribed does not keep its channel.
\* The one exception is a stream whose reader was cancelled between a read and
\* its notification (CancelSettle): that keeps it until it is unsubscribed.
OverFreesTheChannel ==
  \A s \in Subs : Registered(s) =>
    /\ pc[s] = "over" => result[s] = "unsettled"
    /\ un[s] # "finished"

\* A queue leaves the table only because its own stream is over, or its owner
\* left: a stale stream does not take the queue of a newer one away.
ForgetsOnlyItself ==
  [][\A s \in Subs : Registered(s) /\ ~Registered(s)' =>
       \/ pc'[s] = "over" \/ un'[s] = "finished"
       \/ exits' # exits
       \/ (leaving /\ ~leaving')]_vars

\* A failed connection releases whoever waits on it: the subscriber, the
\* reader and the call of unsubscribe().
DropReleasesEveryone ==
  \A s \in Subs :
    /\ pc[s] \in {"requesting", "reading", "settling"} /\ Failed(ctx[s])
         ~> pc[s] \notin {"requesting", "reading", "settling"}
    /\ un[s] = "asking" /\ Failed(ctx[s]) ~> un[s] # "asking"

\* Notifications that arrived before a drop are delivered before the drop is
\* reported (the comment in `stream`).
DeliveredBeforeDrop ==
  \A s \in Subs : result[s] = "dropped" => got[s] = due[s]

\* A subscription on a connection that lives keeps its queue until it is
\* unsubscribed: leaving the owner forgets what was on the connection left.
LiveStreamsStayRegistered ==
  \A s \in Subs :
    /\ pc[s] \in {"requesting", "subscribed", "reading", "settling"}
    /\ un[s] # "finished"
    /\ Alive(ctx[s])
    => Registered(s)

=============================================================================
