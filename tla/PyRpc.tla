------------------------------- MODULE PyRpc -------------------------------
(***************************************************************************)
(* Requests and replies of the Python core (truewire_core/ws/rpc.py, whose *)
(* rpc_request and on_msg streams_rpc.py repeats) over Socket.wait: an id  *)
(* per request, a table of pending replies, and a wait that races the      *)
(* reply against the tasks of a connection.                                *)
(*                                                                         *)
(* Each member of Calls is one `rpc_request()`.  Those in Bound are made   *)
(* inside `wait(..., ctx=ctx)`, as a login in `force_open` or a            *)
(* subscription request is: `self.ctx` resolves to that connection only.   *)
(* The others resolve it twice, once in `rpc_send` and once in `wait`.     *)
(*                                                                         *)
(* `rpc_send` is the subclass's: it may suspend before it takes the        *)
(* connection and after it has written to it (a full write buffer).  The   *)
(* connections behave as PySocket shows.                                   *)
(***************************************************************************)
EXTENDS Naturals, FiniteSets

CONSTANTS Calls,    \* the rpc_request() calls
          Bound,    \* those made inside a `wait`
          Conns,    \* the connections that may be opened
          None

ASSUME BoundAreCalls == Bound \subseteq Calls
ASSUME CallsAreFinite == IsFiniteSet(Calls)
ASSUME NoneIsNoCall == None \notin Calls \cup Conns

Ids == 0 .. Cardinality(Calls)

VARIABLES
  pc,       \* "idle", "sending", "written", "waiting" or "done"
  result,   \* what the call returned or raised
  id,       \* its id
  fut,      \* its reply future
  got,      \* the call that what the future holds is a reply to, or None
  sentOn,   \* the connection its request was written to
  ctx,      \* the connection it is bound to, then the one `wait` races
  inner,    \* the task `wait` runs the reply in is done
  replies,  \* `replies`: who waits for each id
  counter,  \* `counter`
  cur,      \* the connection in use
  life,     \* what has become of each connection
  wire      \* the requests each peer has: which id, of which call

request == <<id, fut, got>>
where == <<sentOn, ctx, inner>>
net == <<cur, life, wire>>
vars == <<pc, result, request, where, replies, counter, net>>

TypeOK ==
  /\ pc \in [Calls -> {"idle", "sending", "written", "waiting", "done"}]
  /\ result \in [Calls -> {"none", "replied", "failed", "cancelled"}]
  /\ id \in [Calls -> Ids]
  /\ fut \in [Calls -> {"none", "pending", "set", "cancelled"}]
  /\ got \in [Calls -> Calls \cup {None}]
  /\ {sentOn, ctx} \subseteq [Calls -> Conns \cup {None}]
  /\ inner \in [Calls -> BOOLEAN]
  /\ replies \in [Ids -> Calls \cup {None}]
  /\ counter \in Ids
  /\ cur \in Conns \cup {None}
  /\ life \in [Conns -> {"unused", "alive", "deaf", "dead"}]
  /\ wire \in [Conns -> SUBSET (Ids \X Calls)]

Init ==
  /\ pc = [c \in Calls |-> "idle"]
  /\ result = [c \in Calls |-> "none"]
  /\ id = [c \in Calls |-> 0]
  /\ fut = [c \in Calls |-> "none"]
  /\ got = [c \in Calls |-> None]
  /\ sentOn = [c \in Calls |-> None]
  /\ ctx = [c \in Calls |-> None]
  /\ inner = [c \in Calls |-> FALSE]
  /\ replies = [i \in Ids |-> None]
  /\ counter = 0
  /\ cur = None
  /\ life = [k \in Conns |-> "unused"]
  /\ wire = [k \in Conns |-> {}]

-----------------------------------------------------------------------------

\* `Context.alive`; a deaf connection's pinger has failed.
Alive(k) == k # None /\ life[k] = "alive"

\* The listener or the pinger is done.
Failed(k) == k # None /\ life[k] \in {"deaf", "dead"}

InFlight(c) == pc[c] \in {"sending", "written", "waiting"}

\* Mutant: the binding of the enclosing `wait` does not reach the request.
Context_Unbound(c) == cur

\* What reading `self.ctx` is about for call c.
Context(c) == IF c \in Bound THEN ctx[c] ELSE cur

\* Mutant: only an answered request leaves the table.
Finish_Leaky(c, how) ==
  /\ pc' = [pc EXCEPT ![c] = "done"]
  /\ result' = [result EXCEPT ![c] = how]
  /\ replies' = IF how = "replied" THEN [replies EXCEPT ![id[c]] = None] ELSE replies
  /\ fut' = [fut EXCEPT ![c] = IF @ = "pending" THEN "cancelled" ELSE @]

\* The call ends and its `finally` takes the id out of the table.
Finish(c, how) ==
  /\ pc' = [pc EXCEPT ![c] = "done"]
  /\ result' = [result EXCEPT ![c] = how]
  /\ replies' = [replies EXCEPT ![id[c]] = None]
  /\ fut' = [fut EXCEPT ![c] = IF @ = "pending" THEN "cancelled" ELSE @]

-----------------------------------------------------------------------------
(* rpc_request().                                                           *)

\* Mutant: the id is taken and the counter left alone.
Begin_SameId(c) ==
  /\ pc[c] = "idle"
  /\ id' = [id EXCEPT ![c] = counter]
  /\ replies' = [replies EXCEPT ![counter] = c]
  /\ fut' = [fut EXCEPT ![c] = "pending"]
  /\ \/ c \notin Bound /\ UNCHANGED ctx
     \/ c \in Bound /\ \E k \in Conns : life[k] # "unused" /\ ctx' = [ctx EXCEPT ![c] = k]
  /\ pc' = [pc EXCEPT ![c] = "sending"]
  /\ UNCHANGED <<result, got, sentOn, inner, counter, net>>

Begin(c) ==
  /\ pc[c] = "idle"
  /\ id' = [id EXCEPT ![c] = counter]
  /\ counter' = counter + 1
  /\ replies' = [replies EXCEPT ![counter] = c]
  /\ fut' = [fut EXCEPT ![c] = "pending"]
  /\ \/ c \notin Bound /\ UNCHANGED ctx
     \/ c \in Bound /\ \E k \in Conns : life[k] # "unused" /\ ctx' = [ctx EXCEPT ![c] = k]
  /\ pc' = [pc EXCEPT ![c] = "sending"]
  /\ UNCHANGED <<result, got, sentOn, inner, net>>

\* `rpc_send` takes the connection and writes to it.
Write(c) ==
  /\ pc[c] = "sending"
  /\ Alive(Context(c))
  /\ wire' = [wire EXCEPT ![Context(c)] = @ \cup {<<id[c], c>>}]
  /\ sentOn' = [sentOn EXCEPT ![c] = Context(c)]
  /\ pc' = [pc EXCEPT ![c] = "written"]
  /\ UNCHANGED <<result, request, ctx, inner, replies, counter, cur, life>>

\* `rpc_send` is done and `wait` has a connection to race the reply against.
StartWait(c) ==
  /\ pc[c] = "written"
  /\ Alive(Context(c))
  /\ ctx' = [ctx EXCEPT ![c] = Context(c)]
  /\ pc' = [pc EXCEPT ![c] = "waiting"]
  /\ UNCHANGED <<result, request, sentOn, inner, replies, counter, net>>

\* A bound request finds its connection gone.
ContextGone(c) ==
  /\ pc[c] \in {"sending", "written"}
  /\ c \in Bound /\ ~Alive(Context(c))
  /\ Finish(c, "failed")
  /\ UNCHANGED <<id, got, where, counter, net>>

\* The dial, the write or `rpc_send` itself fails.
SendFails(c) ==
  /\ pc[c] \in {"sending", "written"}
  /\ Finish(c, "failed")
  /\ UNCHANGED <<id, got, where, counter, net>>

\* The task that `wait` gave the reply to sees it.
InnerDone(c) ==
  /\ pc[c] = "waiting" /\ ~inner[c]
  /\ fut[c] = "set"
  /\ inner' = [inner EXCEPT ![c] = TRUE]
  /\ UNCHANGED <<pc, result, request, sentOn, ctx, replies, counter, net>>

Replied(c) ==
  /\ pc[c] = "waiting" /\ inner[c]
  /\ Finish(c, "replied")
  /\ UNCHANGED <<id, got, where, counter, net>>

\* Mutant: a request that fails gives its id back.
Dropped_Recounts(c) ==
  /\ pc[c] = "waiting" /\ ~inner[c]
  /\ Failed(ctx[c])
  /\ Finish(c, "failed")
  /\ counter' = id[c] - 1
  /\ UNCHANGED <<id, got, where, net>>

\* Mutant: `wait` does not watch the pinger.
Dropped_PingerUnwatched(c) ==
  /\ pc[c] = "waiting" /\ ~inner[c]
  /\ life[ctx[c]] = "dead"
  /\ Finish(c, "failed")
  /\ UNCHANGED <<id, got, where, counter, net>>

Dropped(c) ==
  /\ pc[c] = "waiting" /\ ~inner[c]
  /\ Failed(ctx[c])
  /\ Finish(c, "failed")
  /\ UNCHANGED <<id, got, where, counter, net>>

\* The caller is cancelled, by a timeout of its own for one.
Cancel(c) ==
  /\ InFlight(c)
  /\ Finish(c, "cancelled")
  /\ UNCHANGED <<id, got, where, counter, net>>

-----------------------------------------------------------------------------
(* The connections and their peers.                                         *)

\* `on_msg`: peer k answers request m, once, twice or late.
Answer(k, m) ==
  /\ life[k] \in {"alive", "deaf"} /\ m \in wire[k]
  /\ LET c == replies[m[1]]
         waited == c # None /\ fut[c] = "pending"
     IN  IF waited
           THEN /\ fut' = [fut EXCEPT ![c] = "set"]
                /\ got' = [got EXCEPT ![c] = m[2]]
           ELSE UNCHANGED <<fut, got>>
  /\ UNCHANGED <<pc, result, id, where, replies, counter, net>>

\* A request without a usable connection opens one, closing the dead one.
Dial(k) ==
  /\ ~Alive(cur) /\ life[k] = "unused"
  /\ \E c \in Calls \ Bound : pc[c] \in {"sending", "written"}
  /\ life' = [j \in Conns |-> IF j = k THEN "alive" ELSE IF j = cur THEN "dead" ELSE life[j]]
  /\ cur' = k
  /\ UNCHANGED <<pc, result, request, where, replies, counter, wire>>

\* The pinger fails; the listener goes on.
PingerFails(k) ==
  /\ life[k] = "alive"
  /\ life' = [life EXCEPT ![k] = "deaf"]
  /\ UNCHANGED <<pc, result, request, where, replies, counter, cur, wire>>

\* The listener ends, or an owner leaves and takes the connection along.
Ends(k) ==
  /\ life[k] \in {"alive", "deaf"}
  /\ life' = [life EXCEPT ![k] = "dead"]
  /\ cur' \in {cur, None}
  /\ cur' # cur => cur = k
  /\ UNCHANGED <<pc, result, request, where, replies, counter, wire>>

Next ==
  \/ \E c \in Calls :
       \/ Begin(c) \/ Write(c) \/ StartWait(c)
       \/ ContextGone(c) \/ SendFails(c) \/ Cancel(c)
       \/ InnerDone(c) \/ Replied(c) \/ Dropped(c)
  \/ \E k \in Conns :
       \/ \E m \in wire[k] : Answer(k, m)
       \/ Dial(k) \/ PingerFails(k) \/ Ends(k)

Spec == Init /\ [][Next]_vars

\* The event loop runs every task that is ready.  A dial or a write ends, one
\* way or the other; a peer need not answer, nor a connection fail.
Fairness ==
  \A c \in Calls :
    /\ WF_vars(Write(c) \/ StartWait(c) \/ ContextGone(c) \/ SendFails(c))
    /\ WF_vars(InnerDone(c)) /\ WF_vars(Replied(c)) /\ WF_vars(Dropped(c))

FairSpec == Spec /\ Fairness

-----------------------------------------------------------------------------
(* What must hold.                                                          *)

\* What a request returns is the reply to itself, whatever arrived late,
\* twice or over another connection.
RepliesMatch ==
  \A c \in Calls : fut[c] = "set" => got[c] = c

\* The table holds exactly the requests in flight, each under its own id: no
\* entry outlives its request, and no request loses its entry.
TableIsWhatIsInFlight ==
  /\ \A c \in Calls : InFlight(c) => replies[id[c]] = c
  /\ \A i \in Ids : replies[i] # None => InFlight(replies[i]) /\ id[replies[i]] = i

\* A bound request waits for its reply where it sent the request.
BoundWaitsWhereItSent ==
  \A c \in Bound : pc[c] = "waiting" => ctx[c] = sentOn[c]

\* A bound request ends when its connection fails or its reply comes.
BoundRequestsEnd ==
  \A c \in Bound :
    InFlight(c) /\ (Failed(sentOn[c]) \/ fut[c] = "set") ~> pc[c] = "done"

\* The same of every request: if the connection it was sent on fails, it ends.
RequestsEnd ==
  \A c \in Calls :
    InFlight(c) /\ Failed(sentOn[c]) ~> pc[c] = "done"

=============================================================================
