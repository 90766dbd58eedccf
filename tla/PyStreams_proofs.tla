--------------------------- MODULE PyStreams_proofs ---------------------------
(***************************************************************************)
(* Safety of PyStreams for any subscriptions, connections and kinds that   *)
(* are apart, and any bounds.                                              *)
(*                                                                         *)
(* IInv is the inductive invariant.  Its heart is Served: a peer sends only *)
(* what a stream asked for on its connection, and whoever is registered    *)
(* under that channel now is of the same connection.                       *)
(***************************************************************************)
EXTENDS PyStreams, TLAPS

\* It waits on its connection, or its reader was cancelled before forget().
Bound(s) ==
  pc[s] \in {"requesting", "subscribed", "reading", "settling"} \/ result[s] = "unsettled"

\* What a subscription has, by where it is.
ShapeOf(s) ==
  /\ kind[s] = None => pc[s] \in {"idle", "over"} /\ ctx[s] = None /\ result[s] \in {"none",
       "failed"}
  /\ pc[s] = "idle" => kind[s] = None
  /\ pc[s] \in {"idle", "connecting"} => ctx[s] = None
  /\ Bound(s) \/ result[s] \in {"dropped", "cancelled"} \/ un[s] # "no" => ctx[s] # None
  /\ un[s] # "no" => pc[s] \in {"subscribed", "reading", "settling", "over"}
  /\ result[s] # "none" <=> pc[s] = "over"
  /\ seen[s] <= exits
  /\ ctx[s] # None => life[ctx[s]] # "unused"
  /\ inner[s] = "end" => un[s] = "finished"

Shapes == \A s \in Subs : ShapeOf(s)

\* The tables: a queue is registered under its own channel, and a message key
\* is one of a kind that has one.
TablesFit ==
  /\ \A c \in Channels : table[c] # None =>
       kind[table[c]] # None /\ kind[table[c]].chan = c
  /\ \A x \in keys : \E k \in Kinds : k.keyed /\ k.req = x
  /\ \A s \in Subs : kind[s] # None /\ kind[s].keyed => kind[s].req \in keys
  /\ \A c \in Conns : \A k \in server[c] : k.keyed => k.req \in keys

\* Only the connection in use is listened to, and only on it anything is sent.
OneListens ==
  \A c \in Conns : /\ Listening(c) => c = cur
                   /\ server[c] # {} => Listening(c)

\* A live stream is registered, and so is one that may yet connect.
ServedStream(s) ==
  ~Swept(s) =>
    /\ Bound(s) /\ un[s] # "finished" /\ Alive(ctx[s]) => Registered(s)
    /\ pc[s] = "connecting" /\ seen[s] = exits => Registered(s)

\* Who is registered for what connection c's peer sends is of connection c.
ServedKind(c, k) ==
  k \in server[c] /\ k.chan \notin swept /\ table[k.chan] # None
    => ctx[table[k.chan]] = c

Served ==
  /\ \A s \in Subs : ServedStream(s)
  /\ \A c \in Conns, k \in Kinds : ServedKind(c, k)

\* Nothing arrives before the connection is known, and then all of it is of
\* that connection.
OwnParts(s) ==
  /\ ctx[s] = None => queue[s] = << >>
  /\ \A i \in 1 .. Len(queue[s]) : queue[s][i].conn = ctx[s]
  /\ \A i \in 1 .. Len(taken[s]) : taken[s][i].conn = ctx[s]
  /\ \A i \in 1 .. Len(got[s]) : got[s][i].conn = ctx[s]

Complete(s) ==
  /\ IsPrefix(Received(s), due[s])
  /\ Registered(s) /\ ctx[s] # None => Received(s) = due[s]

ReadsFit(s) ==
  /\ taken[s] # << >> => pc[s] \in {"reading", "settling", "over"}
  /\ ctx[s] = None => taken[s] = << >> /\ got[s] = << >> /\ due[s] = << >>

Reads == \A s \in Subs : ReadsFit(s) /\ (~Swept(s) => OwnParts(s) /\ Complete(s))

IInv ==
  /\ TypeOK
  /\ Shapes
  /\ TablesFit
  /\ OneListens
  /\ Served
  /\ OverFreesTheChannel
  /\ Reads

USE NoneIsNothing, BoundsAreNat, KindsAreKinds, KindsAreApart
USE DEF NoneIsNothing, BoundsAreNat, KindsAreKinds, KindsAreApart

-----------------------------------------------------------------------------

\* Prefixes, element by element.
LEMMA PrefixMeans ==
  ASSUME NEW S, NEW x \in Seq(S), NEW y \in Seq(S)
  PROVE  IsPrefix(x, y) <=> Len(x) <= Len(y) /\ \A i \in 1 .. Len(x) : x[i] = y[i]
<1>1. CASE Len(x) <= Len(y)
  <2>1. Len(SubSeq(x, 1, Len(x))) = Len(x) /\ Len(SubSeq(y, 1, Len(x))) = Len(x)
    BY <1>1
  <2>2. \A i \in 1 .. Len(x) : SubSeq(x, 1, Len(x))[i] = x[i] /\ SubSeq(y, 1, Len(x))[i] = y[i]
    BY <1>1
  <2>3. SubSeq(x, 1, Len(x)) \in Seq(S) /\ SubSeq(y, 1, Len(x)) \in Seq(S)
    BY <1>1
  <2> QED
    BY <1>1, <2>1, <2>2, <2>3 DEF IsPrefix
<1>2. CASE ~(Len(x) <= Len(y))
  BY <1>2 DEF IsPrefix
<1> QED
  BY <1>1, <1>2

LEMMA PrefixOfItself ==
  ASSUME NEW S, NEW x \in Seq(S)
  PROVE  IsPrefix(x, x)
<1>1. Len(x) <= Len(x)
  OBVIOUS
<1> QED
  BY <1>1 DEF IsPrefix

LEMMA PrefixOfMore ==
  ASSUME NEW S, NEW x \in Seq(S), NEW y \in Seq(S), NEW e \in S, IsPrefix(x, y)
  PROVE  IsPrefix(x, Append(y, e))
<1>1. Append(y, e) \in Seq(S)
  OBVIOUS
<1>2. Len(x) <= Len(y) /\ \A i \in 1 .. Len(x) : x[i] = y[i]
  BY PrefixMeans
<1>3. Len(Append(y, e)) = Len(y) + 1 /\ \A i \in 1 .. Len(y) : Append(y, e)[i] = y[i]
  OBVIOUS
<1>4. Len(x) <= Len(Append(y, e)) /\ \A i \in 1 .. Len(x) : x[i] = Append(y, e)[i]
  BY <1>2, <1>3
<1> QED
  BY <1>1, <1>4, PrefixMeans

LEMMA PrefixOfAll ==
  ASSUME NEW S, NEW x \in Seq(S), NEW r \in Seq(S), NEW y \in Seq(S), IsPrefix(x \o r, y)
  PROVE  IsPrefix(x, y)
<1> DEFINE z == x \o r
<1>1. z \in Seq(S) /\ Len(z) = Len(x) + Len(r)
  OBVIOUS
<1>2. \A i \in 1 .. Len(x) : z[i] = x[i]
  OBVIOUS
<1>0. IsPrefix(z, y)
  OBVIOUS
<1> HIDE DEF z
<1>3. Len(z) <= Len(y) /\ \A i \in 1 .. Len(z) : z[i] = y[i]
  BY <1>0, <1>1, PrefixMeans
<1>4. Len(x) <= Len(y) /\ \A i \in 1 .. Len(x) : x[i] = y[i]
  BY <1>1, <1>2, <1>3
<1> QED
  BY <1>4, PrefixMeans

\* A notification moves along: from the queue to `queue_get` to the consumer.
LEMMA HeadAndTail ==
  ASSUME NEW S, NEW g \in Seq(S), NEW q \in Seq(S), q # << >>
  PROVE  /\ Append(g, Head(q)) \o << >> \o Tail(q) = g \o << >> \o q
         /\ g \o <<Head(q)>> \o Tail(q) = g \o << >> \o q
<1>1. Head(q) \in S /\ Tail(q) \in Seq(S) /\ Len(Tail(q)) = Len(q) - 1
  OBVIOUS
<1>2. <<Head(q)>> \o Tail(q) = q
  BY <1>1
<1>3. g \o << >> = g
  OBVIOUS
<1>4. Append(g, Head(q)) = g \o <<Head(q)>>
  BY <1>1
<1>5. (g \o <<Head(q)>>) \o Tail(q) = g \o (<<Head(q)>> \o Tail(q))
  BY <1>1
<1> QED
  BY <1>2, <1>3, <1>4, <1>5

LEMMA AppendsLast ==
  ASSUME NEW S, NEW g \in Seq(S), NEW t \in Seq(S), NEW q \in Seq(S), NEW e \in S
  PROVE  g \o t \o Append(q, e) = Append(g \o t \o q, e)
OBVIOUS

\* What is said of all notifications stays true when they move.
LEMMA MovesAlong ==
  ASSUME NEW g \in Seq(Notes), NEW q \in Seq(Notes), NEW x, q # << >>,
         \A i \in 1 .. Len(g) : g[i].conn = x,
         \A i \in 1 .. Len(q) : q[i].conn = x
  PROVE  /\ \A i \in 1 .. Len(Tail(q)) : Tail(q)[i].conn = x
         /\ \A i \in 1 .. Len(Append(g, Head(q))) : Append(g, Head(q))[i].conn = x
         /\ \A i \in 1 .. Len(<<Head(q)>>) : <<Head(q)>>[i].conn = x
<1>1. /\ Len(Tail(q)) = Len(q) - 1
      /\ \A i \in 1 .. Len(q) - 1 : Tail(q)[i] = q[i + 1]
      /\ Head(q) = q[1] /\ 1 \in 1 .. Len(q)
  OBVIOUS
<1>2. /\ Len(Append(g, Head(q))) = Len(g) + 1
      /\ \A i \in 1 .. Len(g) : Append(g, Head(q))[i] = g[i]
      /\ Append(g, Head(q))[Len(g) + 1] = Head(q)
  BY <1>1
<1>3. \A i \in 1 .. Len(Tail(q)) : Tail(q)[i].conn = x
  BY <1>1
<1>4. \A i \in 1 .. Len(Append(g, Head(q))) : Append(g, Head(q))[i].conn = x
  BY <1>1, <1>2
<1>5. Len(<<Head(q)>>) = 1 /\ <<Head(q)>>[1] = Head(q)
  OBVIOUS
<1> QED
  BY <1>1, <1>3, <1>4, <1>5

LEMMA ChannelsOf == \A k \in Kinds : k.chan \in Channels /\ k.req \in Channels
  BY DEF Channels

\* `forget` finds its own stream under its own channel only.
LEMMA ForgetsOwn ==
  ASSUME IInv, NEW s \in Subs, kind[s] # None, Forget(s)
  PROVE  table' = [c \in Channels |-> IF table[c] = s THEN None ELSE table[c]]
BY DEF Forget, IInv, TypeOK, TablesFit

\* What a step does that leaves the reads of stream r alone.
Untouched(r) ==
  /\ queue'[r] = queue[r] /\ taken'[r] = taken[r]
  /\ got'[r] = got[r] /\ due'[r] = due[r]
  /\ taken[r] # << >> => pc'[r] \in {"reading", "settling", "over"}
  /\ Registered(r)' /\ ctx'[r] # None => Registered(r) \/ ctx[r] = None
  /\ ctx'[r] = ctx[r] \/ ctx[r] = None
  /\ Swept(r) => Swept(r)'

LEMMA ReadsKept ==
  ASSUME IInv, \A r \in Subs : Untouched(r)
  PROVE  Reads'
<1> SUFFICES ASSUME NEW r \in Subs
             PROVE  ReadsFit(r)' /\ (~Swept(r)' => OwnParts(r)' /\ Complete(r)')
  BY DEF Reads
<1> USE DEF IInv, Reads, Untouched
<1>1. ReadsFit(r)'
  BY DEF ReadsFit
<1>2. ASSUME ~Swept(r)' PROVE OwnParts(r)' /\ Complete(r)'
  <2>1. ReadsFit(r) /\ OwnParts(r) /\ Complete(r)
    BY <1>2
  <2>2. OwnParts(r)'
    BY <2>1 DEF OwnParts, ReadsFit
  <2>3. Received(r)' = Received(r) /\ due'[r] = due[r]
    BY DEF Received
  <2>4. Complete(r)'
    <3>1. CASE ctx[r] = None
      <4>1. Received(r) = << >> /\ due[r] = << >>
        BY <2>1, <3>1 DEF OwnParts, ReadsFit, Received
      <4>2. IsPrefix(<< >>, << >>)
        BY DEF IsPrefix
      <4> QED
        BY <2>3, <4>1, <4>2 DEF Complete
    <3>2. CASE ctx[r] # None
      BY <2>1, <2>3, <3>2 DEF Complete
    <3> QED
      BY <3>1, <3>2
  <2> QED
    BY <2>2, <2>4
<1> QED
  BY <1>1, <1>2

LEMMA SubscribesAlive ==
  ASSUME IInv, NEW s \in Subs, NEW k \in Kinds,
         pc[s] = "idle", table[k.chan] = None, Alive(cur),
         kind' = [kind EXCEPT ![s] = k],
         keys' = IF k.keyed THEN keys \cup {k.req} ELSE keys,
         table' = [table EXCEPT ![k.chan] = s],
         ctx' = [ctx EXCEPT ![s] = cur],
         pc' = [pc EXCEPT ![s] = "requesting"],
         UNCHANGED <<seen, net, un, result, reading, owner>>
  PROVE  IInv'
<1> USE DEF IInv, stream, reading, maps, net, owner
<1>1. TypeOK'
  BY ChannelsOf DEF TypeOK, Shapes, ShapeOf
<1>2. Shapes'
  <2>1. ASSUME NEW r \in Subs
        PROVE  ShapeOf(r)'
    BY DEF TypeOK, Shapes, ShapeOf, Bound, Alive, Listening
  <2> QED
    BY <2>1 DEF Shapes
<1>3. TablesFit' /\ OneListens'
  BY ChannelsOf DEF TypeOK, Shapes, ShapeOf, TablesFit, OneListens, Listening, Alive, Bound
<1>4. Served'
  <2>1. ASSUME NEW r \in Subs
        PROVE  ServedStream(r)'
    BY ChannelsOf DEF TypeOK, Shapes, ShapeOf, TablesFit, OneListens, Served, ServedStream, Swept,
         Bound, Registered, Alive, Listening
  <2>2. ASSUME NEW d \in Conns, NEW l \in Kinds
        PROVE  ServedKind(d, l)'
    <3>1. l \in server[d] => d = cur
      BY DEF OneListens
    <3>2. CASE l.chan = k.chan
      BY <3>1, <3>2, ChannelsOf DEF TypeOK, ServedKind
    <3>3. CASE l.chan # k.chan
      <4>1. table'[l.chan] = table[l.chan]
        BY <3>3, ChannelsOf DEF TypeOK
      <4>2. table[l.chan] # s
        BY ChannelsOf DEF TablesFit, Shapes, ShapeOf
      <4> QED
        BY <4>1, <4>2, ChannelsOf DEF TypeOK, Served, ServedKind
    <3> QED
      BY <3>2, <3>3
  <2> QED
    BY <2>1, <2>2 DEF Served
<1>5. OverFreesTheChannel'
  <2>1. ASSUME NEW r \in Subs, Registered(r)'
        PROVE  (pc'[r] = "over" => result'[r] = "unsettled") /\ un'[r] # "finished"
    BY <2>1, ChannelsOf DEF TypeOK, Shapes, ShapeOf, TablesFit, OverFreesTheChannel, Registered,
         Bound
  <2> QED
    BY <2>1 DEF OverFreesTheChannel
<1>6. Reads'
  <2>1. ASSUME NEW r \in Subs
        PROVE  Untouched(r)
    BY ChannelsOf DEF TypeOK, Shapes, ShapeOf, TablesFit, Reads, ReadsFit, Untouched, Registered,
         Swept, Bound
  <2> QED
    BY <2>1, ReadsKept
<1> QED
  BY <1>1, <1>2, <1>3, <1>4, <1>5, <1>6

LEMMA SubscribesDead ==
  ASSUME IInv, NEW s \in Subs, NEW k \in Kinds,
         pc[s] = "idle", table[k.chan] = None, ~Alive(cur),
         kind' = [kind EXCEPT ![s] = k],
         keys' = IF k.keyed THEN keys \cup {k.req} ELSE keys,
         table' = [table EXCEPT ![k.chan] = s],
         seen' = [seen EXCEPT ![s] = exits],
         pc' = [pc EXCEPT ![s] = "connecting"],
         cur' = None, Dies(cur),
         UNCHANGED <<ctx, notes, un, result, reading, owner>>
  PROVE  IInv'
<1> USE DEF IInv, Dies, stream, reading, maps, net, owner
<1>1. TypeOK'
  BY ChannelsOf DEF TypeOK, Shapes, ShapeOf
<1>2. Shapes'
  <2>1. ASSUME NEW r \in Subs
        PROVE  ShapeOf(r)'
    BY DEF TypeOK, Shapes, ShapeOf, Bound, Alive, Listening
  <2> QED
    BY <2>1 DEF Shapes
<1>3. TablesFit' /\ OneListens'
  BY ChannelsOf DEF TypeOK, Shapes, ShapeOf, TablesFit, OneListens, Listening, Alive, Bound
<1>4. Served'
  <2>1. ASSUME NEW r \in Subs
        PROVE  ServedStream(r)'
    BY ChannelsOf DEF TypeOK, Shapes, ShapeOf, TablesFit, OneListens, Served, ServedStream, Swept,
         Bound, Registered, Alive, Listening
  <2>2. ASSUME NEW d \in Conns, NEW l \in Kinds
        PROVE  ServedKind(d, l)'
    BY ChannelsOf DEF TypeOK, Shapes, ShapeOf, TablesFit, OneListens, Served, ServedStream,
         ServedKind, Swept, Bound, Registered, Alive, Listening
  <2> QED
    BY <2>1, <2>2 DEF Served
<1>5. OverFreesTheChannel'
  <2>1. ASSUME NEW r \in Subs, Registered(r)'
        PROVE  (pc'[r] = "over" => result'[r] = "unsettled") /\ un'[r] # "finished"
    BY <2>1, ChannelsOf DEF TypeOK, Shapes, ShapeOf, TablesFit, OverFreesTheChannel, Registered,
         Bound
  <2> QED
    BY <2>1 DEF OverFreesTheChannel
<1>6. Reads'
  <2>1. ASSUME NEW r \in Subs
        PROVE  Untouched(r)
    BY ChannelsOf DEF TypeOK, Shapes, ShapeOf, TablesFit, Reads, ReadsFit, Untouched, Registered,
         Swept, Bound
  <2> QED
    BY <2>1, ReadsKept
<1> QED
  BY <1>1, <1>2, <1>3, <1>4, <1>5, <1>6

LEMMA StopForgets ==
  ASSUME IInv, NEW s \in Subs, NEW how \in {"failed", "dropped", "cancelled"},
         pc[s] \in {"connecting", "requesting", "reading"},
         how # "failed" => Bound(s),
         Forget(s), Stop(s, how),
         seen' = seen \/ seen' = [seen EXCEPT ![s] = 0],
         UNCHANGED <<un, kind, ctx, reading, keys, net, owner>>
  PROVE  IInv'
<1> USE DEF IInv, Stop, stream, reading, maps, net, owner
<1>0. table' = [c \in Channels |-> IF table[c] = s THEN None ELSE table[c]]
  BY ForgetsOwn DEF Shapes, ShapeOf
<1>1. TypeOK'
  <2>1. seen' \in [Subs -> Nat]
    <3>1. CASE seen' = seen
      BY <3>1 DEF TypeOK
    <3>2. CASE seen' = [seen EXCEPT ![s] = 0]
      BY <3>2 DEF TypeOK
    <3> QED
      BY <3>1, <3>2
  <2>2. table' \in [Channels -> Subs \cup {None}]
    BY <1>0 DEF TypeOK
  <2> QED
    BY <2>1, <2>2 DEF TypeOK
<1>2. Shapes'
  <2>1. ASSUME NEW r \in Subs
        PROVE  ShapeOf(r)'
    BY DEF TypeOK, Shapes, ShapeOf, Bound, Alive, Listening
  <2> QED
    BY <2>1 DEF Shapes
<1>3. TablesFit' /\ OneListens'
  BY <1>0, ChannelsOf DEF TypeOK, Shapes, ShapeOf, TablesFit, OneListens, Listening, Alive, Bound
<1>4. Served'
  <2>1. ASSUME NEW r \in Subs
        PROVE  ServedStream(r)'
    BY <1>0, ChannelsOf DEF TypeOK, Shapes, ShapeOf, TablesFit, OneListens, Served, ServedStream,
         Swept, Bound, Registered, Alive, Listening
  <2>2. ASSUME NEW d \in Conns, NEW l \in Kinds
        PROVE  ServedKind(d, l)'
    BY <1>0, ChannelsOf DEF TypeOK, Shapes, ShapeOf, TablesFit, OneListens, Served, ServedStream,
         ServedKind, Swept, Bound, Registered, Alive, Listening
  <2> QED
    BY <2>1, <2>2 DEF Served
<1>5. OverFreesTheChannel'
  <2>1. ASSUME NEW r \in Subs, Registered(r)'
        PROVE  (pc'[r] = "over" => result'[r] = "unsettled") /\ un'[r] # "finished"
    BY <1>0, <2>1, ChannelsOf DEF TypeOK, Shapes, ShapeOf, TablesFit, OverFreesTheChannel,
         Registered, Bound
  <2> QED
    BY <2>1 DEF OverFreesTheChannel
<1>6. Reads'
  <2>1. ASSUME NEW r \in Subs
        PROVE  Untouched(r)
    BY <1>0, ChannelsOf DEF TypeOK, Shapes, ShapeOf, TablesFit, Reads, ReadsFit, Untouched,
         Registered, Swept, Bound
  <2> QED
    BY <2>1, ReadsKept
<1> QED
  BY <1>1, <1>2, <1>3, <1>4, <1>5, <1>6

LEMMA FinishForgets ==
  ASSUME IInv, NEW s \in Subs, ctx[s] # None,
         pc[s] \in {"subscribed", "reading", "settling", "over"},
         Forget(s), un' = [un EXCEPT ![s] = "finished"],
         UNCHANGED <<pc, result, stream, reading, keys, net, owner>>
  PROVE  IInv'
<1> USE DEF IInv, stream, reading, maps, net, owner
<1>0. table' = [c \in Channels |-> IF table[c] = s THEN None ELSE table[c]]
  BY ForgetsOwn DEF Shapes, ShapeOf
<1>1. TypeOK'
  BY <1>0, ChannelsOf DEF TypeOK, Shapes, ShapeOf
<1>2. Shapes'
  <2>1. ASSUME NEW r \in Subs
        PROVE  ShapeOf(r)'
    BY DEF TypeOK, Shapes, ShapeOf, Bound, Alive, Listening
  <2> QED
    BY <2>1 DEF Shapes
<1>3. TablesFit' /\ OneListens'
  BY <1>0, ChannelsOf DEF TypeOK, Shapes, ShapeOf, TablesFit, OneListens, Listening, Alive, Bound
<1>4. Served'
  <2>1. ASSUME NEW r \in Subs
        PROVE  ServedStream(r)'
    BY <1>0, ChannelsOf DEF TypeOK, Shapes, ShapeOf, TablesFit, OneListens, Served, ServedStream,
         Swept, Bound, Registered, Alive, Listening
  <2>2. ASSUME NEW d \in Conns, NEW l \in Kinds
        PROVE  ServedKind(d, l)'
    BY <1>0, ChannelsOf DEF TypeOK, Shapes, ShapeOf, TablesFit, OneListens, Served, ServedStream,
         ServedKind, Swept, Bound, Registered, Alive, Listening
  <2> QED
    BY <2>1, <2>2 DEF Served
<1>5. OverFreesTheChannel'
  <2>1. ASSUME NEW r \in Subs, Registered(r)'
        PROVE  (pc'[r] = "over" => result'[r] = "unsettled") /\ un'[r] # "finished"
    BY <1>0, <2>1, ChannelsOf DEF TypeOK, Shapes, ShapeOf, TablesFit, OverFreesTheChannel,
         Registered, Bound
  <2> QED
    BY <2>1 DEF OverFreesTheChannel
<1>6. Reads'
  <2>1. ASSUME NEW r \in Subs
        PROVE  Untouched(r)
    BY <1>0, ChannelsOf DEF TypeOK, Shapes, ShapeOf, TablesFit, Reads, ReadsFit, Untouched,
         Registered, Swept, Bound
  <2> QED
    BY <2>1, ReadsKept
<1> QED
  BY <1>1, <1>2, <1>3, <1>4, <1>5, <1>6

LEMMA UnMoves ==
  ASSUME IInv, NEW s \in Subs, NEW u \in {"no", "asking"}, ctx[s] # None,
         pc[s] \in {"subscribed", "reading", "settling", "over"},
         un[s] # "finished", un' = [un EXCEPT ![s] = u],
         UNCHANGED <<pc, result, stream, reading, maps, net, owner>>
  PROVE  IInv'
<1> USE DEF IInv, stream, reading, maps, net, owner
<1>1. TypeOK'
  BY ChannelsOf DEF TypeOK, Shapes, ShapeOf
<1>2. Shapes'
  <2>1. ASSUME NEW r \in Subs
        PROVE  ShapeOf(r)'
    BY DEF TypeOK, Shapes, ShapeOf, Bound, Alive, Listening
  <2> QED
    BY <2>1 DEF Shapes
<1>3. TablesFit' /\ OneListens'
  BY ChannelsOf DEF TypeOK, Shapes, ShapeOf, TablesFit, OneListens, Listening, Alive, Bound
<1>4. Served'
  <2>1. ASSUME NEW r \in Subs
        PROVE  ServedStream(r)'
    BY ChannelsOf DEF TypeOK, Shapes, ShapeOf, TablesFit, OneListens, Served, ServedStream, Swept,
         Bound, Registered, Alive, Listening
  <2>2. ASSUME NEW d \in Conns, NEW l \in Kinds
        PROVE  ServedKind(d, l)'
    BY ChannelsOf DEF TypeOK, Shapes, ShapeOf, TablesFit, OneListens, Served, ServedStream,
         ServedKind, Swept, Bound, Registered, Alive, Listening
  <2> QED
    BY <2>1, <2>2 DEF Served
<1>5. OverFreesTheChannel'
  <2>1. ASSUME NEW r \in Subs, Registered(r)'
        PROVE  (pc'[r] = "over" => result'[r] = "unsettled") /\ un'[r] # "finished"
    BY <2>1, ChannelsOf DEF TypeOK, Shapes, ShapeOf, TablesFit, OverFreesTheChannel, Registered,
         Bound
  <2> QED
    BY <2>1 DEF OverFreesTheChannel
<1>6. Reads'
  <2>1. ASSUME NEW r \in Subs
        PROVE  Untouched(r)
    BY ChannelsOf DEF TypeOK, Shapes, ShapeOf, TablesFit, Reads, ReadsFit, Untouched, Registered,
         Swept, Bound
  <2> QED
    BY <2>1, ReadsKept
<1> QED
  BY <1>1, <1>2, <1>3, <1>4, <1>5, <1>6

LEMMA ExitCloses ==
  ASSUME IInv, cur # None, exits < MaxExits, exits' = exits + 1,
         leaving' = TRUE, Dies(cur), cur' = None,
         UNCHANGED <<pc, un, result, stream, reading, maps, notes, swept>>
  PROVE  IInv'
<1> USE DEF IInv, Dies, stream, reading, maps, net, owner
<1>1. TypeOK'
  BY ChannelsOf DEF TypeOK, Shapes, ShapeOf
<1>2. Shapes'
  <2>1. ASSUME NEW r \in Subs
        PROVE  ShapeOf(r)'
    BY DEF TypeOK, Shapes, ShapeOf, Bound, Alive, Listening
  <2> QED
    BY <2>1 DEF Shapes
<1>3. TablesFit' /\ OneListens'
  BY ChannelsOf DEF TypeOK, Shapes, ShapeOf, TablesFit, OneListens, Listening, Alive, Bound
<1>4. Served'
  <2>1. ASSUME NEW r \in Subs
        PROVE  ServedStream(r)'
    BY ChannelsOf DEF TypeOK, Shapes, ShapeOf, TablesFit, OneListens, Served, ServedStream, Swept,
         Bound, Registered, Alive, Listening
  <2>2. ASSUME NEW d \in Conns, NEW l \in Kinds
        PROVE  ServedKind(d, l)'
    BY ChannelsOf DEF TypeOK, Shapes, ShapeOf, TablesFit, OneListens, Served, ServedStream,
         ServedKind, Swept, Bound, Registered, Alive, Listening
  <2> QED
    BY <2>1, <2>2 DEF Served
<1>5. OverFreesTheChannel'
  <2>1. ASSUME NEW r \in Subs, Registered(r)'
        PROVE  (pc'[r] = "over" => result'[r] = "unsettled") /\ un'[r] # "finished"
    BY <2>1, ChannelsOf DEF TypeOK, Shapes, ShapeOf, TablesFit, OverFreesTheChannel, Registered,
         Bound
  <2> QED
    BY <2>1 DEF OverFreesTheChannel
<1>6. Reads'
  <2>1. ASSUME NEW r \in Subs
        PROVE  Untouched(r)
    BY ChannelsOf DEF TypeOK, Shapes, ShapeOf, TablesFit, Reads, ReadsFit, Untouched, Registered,
         Swept, Bound
  <2> QED
    BY <2>1, ReadsKept
<1> QED
  BY <1>1, <1>2, <1>3, <1>4, <1>5, <1>6

LEMMA ExitClears ==
  ASSUME IInv, cur = None, exits < MaxExits, exits' = exits + 1,
         table' = [c \in Channels |-> None],
         UNCHANGED <<pc, un, result, stream, reading, keys, net, leaving, swept>>
  PROVE  IInv'
<1> USE DEF IInv, stream, reading, maps, net, owner
<1>1. TypeOK'
  BY ChannelsOf DEF TypeOK, Shapes, ShapeOf
<1>2. Shapes'
  <2>1. ASSUME NEW r \in Subs
        PROVE  ShapeOf(r)'
    BY DEF TypeOK, Shapes, ShapeOf, Bound, Alive, Listening
  <2> QED
    BY <2>1 DEF Shapes
<1>3. TablesFit' /\ OneListens'
  BY ChannelsOf DEF TypeOK, Shapes, ShapeOf, TablesFit, OneListens, Listening, Alive, Bound
<1>4. Served'
  <2>1. ASSUME NEW r \in Subs
        PROVE  ServedStream(r)'
    BY ChannelsOf DEF TypeOK, Shapes, ShapeOf, TablesFit, OneListens, Served, ServedStream, Swept,
         Bound, Registered, Alive, Listening
  <2>2. ASSUME NEW d \in Conns, NEW l \in Kinds
        PROVE  ServedKind(d, l)'
    BY ChannelsOf DEF TypeOK, Shapes, ShapeOf, TablesFit, OneListens, Served, ServedStream,
         ServedKind, Swept, Bound, Registered, Alive, Listening
  <2> QED
    BY <2>1, <2>2 DEF Served
<1>5. OverFreesTheChannel'
  <2>1. ASSUME NEW r \in Subs, Registered(r)'
        PROVE  (pc'[r] = "over" => result'[r] = "unsettled") /\ un'[r] # "finished"
    BY <2>1, ChannelsOf DEF TypeOK, Shapes, ShapeOf, TablesFit, OverFreesTheChannel, Registered,
         Bound
  <2> QED
    BY <2>1 DEF OverFreesTheChannel
<1>6. Reads'
  <2>1. ASSUME NEW r \in Subs
        PROVE  Untouched(r)
    BY ChannelsOf DEF TypeOK, Shapes, ShapeOf, TablesFit, Reads, ReadsFit, Untouched, Registered,
         Swept, Bound
  <2> QED
    BY <2>1, ReadsKept
<1> QED
  BY <1>1, <1>2, <1>3, <1>4, <1>5, <1>6

LEMMA RefuseStep ==
  ASSUME IInv, NEW s \in Subs, NEW k \in Kinds, Refuse(s, k)
  PROVE  IInv'
<1> USE DEF IInv, Refuse, Stop, stream, reading, maps, net, owner
<1>1. TypeOK'
  BY ChannelsOf DEF TypeOK, Shapes, ShapeOf
<1>2. Shapes'
  <2>1. ASSUME NEW r \in Subs
        PROVE  ShapeOf(r)'
    BY DEF TypeOK, Shapes, ShapeOf, Bound, Alive, Listening
  <2> QED
    BY <2>1 DEF Shapes
<1>3. TablesFit' /\ OneListens'
  BY ChannelsOf DEF TypeOK, Shapes, ShapeOf, TablesFit, OneListens, Listening, Alive, Bound
<1>4. Served'
  <2>1. ASSUME NEW r \in Subs
        PROVE  ServedStream(r)'
    BY ChannelsOf DEF TypeOK, Shapes, ShapeOf, TablesFit, OneListens, Served, ServedStream, Swept,
         Bound, Registered, Alive, Listening
  <2>2. ASSUME NEW d \in Conns, NEW l \in Kinds
        PROVE  ServedKind(d, l)'
    BY ChannelsOf DEF TypeOK, Shapes, ShapeOf, TablesFit, OneListens, Served, ServedStream,
         ServedKind, Swept, Bound, Registered, Alive, Listening
  <2> QED
    BY <2>1, <2>2 DEF Served
<1>5. OverFreesTheChannel'
  <2>1. ASSUME NEW r \in Subs, Registered(r)'
        PROVE  (pc'[r] = "over" => result'[r] = "unsettled") /\ un'[r] # "finished"
    BY <2>1, ChannelsOf DEF TypeOK, Shapes, ShapeOf, TablesFit, OverFreesTheChannel, Registered,
         Bound
  <2> QED
    BY <2>1 DEF OverFreesTheChannel
<1>6. Reads'
  <2>1. ASSUME NEW r \in Subs
        PROVE  Untouched(r)
    BY ChannelsOf DEF TypeOK, Shapes, ShapeOf, TablesFit, Reads, ReadsFit, Untouched, Registered,
         Swept, Bound
  <2> QED
    BY <2>1, ReadsKept
<1> QED
  BY <1>1, <1>2, <1>3, <1>4, <1>5, <1>6

LEMMA SubscribeStep ==
  ASSUME IInv, NEW s \in Subs, NEW k \in Kinds, Subscribe(s, k)
  PROVE  IInv'
BY SubscribesAlive, SubscribesDead DEF Subscribe, net, owner

LEMMA ConnectedStep ==
  ASSUME IInv, NEW s \in Subs, Connected(s)
  PROVE  IInv'
<1> USE DEF IInv, Connected, stream, reading, maps, net, owner
<1>1. TypeOK'
  <2>1. cur' \in Conns \cup {None} /\ ctx' \in [Subs -> Conns \cup {None}]
    BY DEF TypeOK
  <2>2. life' \in [Conns -> {"unused", "alive", "draining", "deaf", "dead"}]
    <3>1. PICK k \in Conns : life' = life \/ life' = [life EXCEPT ![k] = "alive"]
      OBVIOUS
    <3>2. CASE life' = life
      BY <3>2 DEF TypeOK
    <3>3. CASE life' = [life EXCEPT ![k] = "alive"]
      BY <3>3 DEF TypeOK
    <3> QED
      BY <3>1, <3>2, <3>3
  <2> QED
    BY <2>1, <2>2 DEF TypeOK
<1>2. Shapes'
  <2>1. ASSUME NEW r \in Subs
        PROVE  ShapeOf(r)'
    BY DEF TypeOK, Shapes, ShapeOf, Bound, Alive, Listening
  <2> QED
    BY <2>1 DEF Shapes
<1>3. TablesFit' /\ OneListens'
  BY ChannelsOf DEF TypeOK, Shapes, ShapeOf, TablesFit, OneListens, Listening, Alive, Bound
<1>4. Served'
  <2>1. ASSUME NEW r \in Subs
        PROVE  ServedStream(r)'
    BY ChannelsOf DEF TypeOK, Shapes, ShapeOf, TablesFit, OneListens, Served, ServedStream, Swept,
         Bound, Registered, Alive, Listening
  <2>2. ASSUME NEW d \in Conns, NEW l \in Kinds
        PROVE  ServedKind(d, l)'
    BY ChannelsOf DEF TypeOK, Shapes, ShapeOf, TablesFit, OneListens, Served, ServedStream,
         ServedKind, Swept, Bound, Registered, Alive, Listening
  <2> QED
    BY <2>1, <2>2 DEF Served
<1>5. OverFreesTheChannel'
  <2>1. ASSUME NEW r \in Subs, Registered(r)'
        PROVE  (pc'[r] = "over" => result'[r] = "unsettled") /\ un'[r] # "finished"
    BY <2>1, ChannelsOf DEF TypeOK, Shapes, ShapeOf, TablesFit, OverFreesTheChannel, Registered,
         Bound
  <2> QED
    BY <2>1 DEF OverFreesTheChannel
<1>6. Reads'
  <2>1. ASSUME NEW r \in Subs
        PROVE  Untouched(r)
    BY ChannelsOf DEF TypeOK, Shapes, ShapeOf, TablesFit, Reads, ReadsFit, Untouched, Registered,
         Swept, Bound
  <2> QED
    BY <2>1, ReadsKept
<1> QED
  BY <1>1, <1>2, <1>3, <1>4, <1>5, <1>6

LEMMA ReconnectStep ==
  ASSUME IInv, NEW s \in Subs, Reconnect(s)
  PROVE  IInv'
<1> USE DEF IInv, Reconnect, Dies, stream, reading, maps, net, owner
<1>1. TypeOK'
  BY ChannelsOf DEF TypeOK, Shapes, ShapeOf
<1>2. Shapes'
  <2>1. ASSUME NEW r \in Subs
        PROVE  ShapeOf(r)'
    BY DEF TypeOK, Shapes, ShapeOf, Bound, Alive, Listening
  <2> QED
    BY <2>1 DEF Shapes
<1>3. TablesFit' /\ OneListens'
  BY ChannelsOf DEF TypeOK, Shapes, ShapeOf, TablesFit, OneListens, Listening, Alive, Bound
<1>4. Served'
  <2>1. ASSUME NEW r \in Subs
        PROVE  ServedStream(r)'
    BY ChannelsOf DEF TypeOK, Shapes, ShapeOf, TablesFit, OneListens, Served, ServedStream, Swept,
         Bound, Registered, Alive, Listening
  <2>2. ASSUME NEW d \in Conns, NEW l \in Kinds
        PROVE  ServedKind(d, l)'
    BY ChannelsOf DEF TypeOK, Shapes, ShapeOf, TablesFit, OneListens, Served, ServedStream,
         ServedKind, Swept, Bound, Registered, Alive, Listening
  <2> QED
    BY <2>1, <2>2 DEF Served
<1>5. OverFreesTheChannel'
  <2>1. ASSUME NEW r \in Subs, Registered(r)'
        PROVE  (pc'[r] = "over" => result'[r] = "unsettled") /\ un'[r] # "finished"
    BY <2>1, ChannelsOf DEF TypeOK, Shapes, ShapeOf, TablesFit, OverFreesTheChannel, Registered,
         Bound
  <2> QED
    BY <2>1 DEF OverFreesTheChannel
<1>6. Reads'
  <2>1. ASSUME NEW r \in Subs
        PROVE  Untouched(r)
    BY ChannelsOf DEF TypeOK, Shapes, ShapeOf, TablesFit, Reads, ReadsFit, Untouched, Registered,
         Swept, Bound
  <2> QED
    BY <2>1, ReadsKept
<1> QED
  BY <1>1, <1>2, <1>3, <1>4, <1>5, <1>6

LEMMA ConnectFailsStep ==
  ASSUME IInv, NEW s \in Subs, ConnectFails(s)
  PROVE  IInv'
BY StopForgets DEF ConnectFails, IInv, Shapes, ShapeOf, Bound, stream, owner

LEMMA RequestStep ==
  ASSUME IInv, NEW s \in Subs, Request(s)
  PROVE  IInv'
<1> USE DEF IInv, Request, stream, reading, maps, net, owner
<1>1. TypeOK'
  <2>1. ctx[s] \in Conns /\ kind[s] \in Kinds
    BY DEF TypeOK, Shapes, ShapeOf, Bound
  <2>2. server' \in [Conns -> SUBSET Kinds]
    BY <2>1 DEF TypeOK
  <2> QED
    BY <2>2 DEF TypeOK
<1>2. Shapes'
  <2>1. ASSUME NEW r \in Subs
        PROVE  ShapeOf(r)'
    BY DEF TypeOK, Shapes, ShapeOf, Bound, Alive, Listening
  <2> QED
    BY <2>1 DEF Shapes
<1>3. TablesFit' /\ OneListens'
  BY ChannelsOf DEF TypeOK, Shapes, ShapeOf, TablesFit, OneListens, Listening, Alive, Bound
<1>4. Served'
  <2>1. ASSUME NEW r \in Subs
        PROVE  ServedStream(r)'
    BY ChannelsOf DEF TypeOK, Shapes, ShapeOf, TablesFit, OneListens, Served, ServedStream, Swept,
         Bound, Registered, Alive, Listening
  <2>2. ASSUME NEW d \in Conns, NEW l \in Kinds
        PROVE  ServedKind(d, l)'
    <3>1. kind[s] # None /\ un[s] # "finished"
      BY DEF Shapes, ShapeOf
    <3>2. kind[s].chan \notin swept => table[kind[s].chan] = s
      BY <3>1 DEF Served, ServedStream, Swept, Bound, Registered
    <3>3. l \in server'[d] => l \in server[d] \/ (d = ctx[s] /\ l = kind[s])
      <4>1. server'[d] = IF d = ctx[s] THEN server[d] \cup {kind[s]} ELSE server[d]
        BY DEF TypeOK
      <4> HIDE DEF IInv, Request, stream, reading, maps, net, owner
      <4>2. ASSUME l \in server'[d], l \notin server[d]
            PROVE  d = ctx[s] /\ l = kind[s]
        BY <4>1, <4>2
      <4> QED
        BY <4>2
    <3> QED
      BY <3>2, <3>3 DEF Served, ServedKind
  <2> QED
    BY <2>1, <2>2 DEF Served
<1>5. OverFreesTheChannel'
  <2>1. ASSUME NEW r \in Subs, Registered(r)'
        PROVE  (pc'[r] = "over" => result'[r] = "unsettled") /\ un'[r] # "finished"
    BY <2>1, ChannelsOf DEF TypeOK, Shapes, ShapeOf, TablesFit, OverFreesTheChannel, Registered,
         Bound
  <2> QED
    BY <2>1 DEF OverFreesTheChannel
<1>6. Reads'
  <2>1. ASSUME NEW r \in Subs
        PROVE  Untouched(r)
    BY ChannelsOf DEF TypeOK, Shapes, ShapeOf, TablesFit, Reads, ReadsFit, Untouched, Registered,
         Swept, Bound
  <2> QED
    BY <2>1, ReadsKept
<1> QED
  BY <1>1, <1>2, <1>3, <1>4, <1>5, <1>6

LEMMA AcknowledgedStep ==
  ASSUME IInv, NEW s \in Subs, Acknowledged(s)
  PROVE  IInv'
<1> USE DEF IInv, Acknowledged, stream, reading, maps, net, owner
<1>1. TypeOK'
  BY ChannelsOf DEF TypeOK, Shapes, ShapeOf
<1>2. Shapes'
  <2>1. ASSUME NEW r \in Subs
        PROVE  ShapeOf(r)'
    BY DEF TypeOK, Shapes, ShapeOf, Bound, Alive, Listening
  <2> QED
    BY <2>1 DEF Shapes
<1>3. TablesFit' /\ OneListens'
  BY ChannelsOf DEF TypeOK, Shapes, ShapeOf, TablesFit, OneListens, Listening, Alive, Bound
<1>4. Served'
  <2>1. ASSUME NEW r \in Subs
        PROVE  ServedStream(r)'
    BY ChannelsOf DEF TypeOK, Shapes, ShapeOf, TablesFit, OneListens, Served, ServedStream, Swept,
         Bound, Registered, Alive, Listening
  <2>2. ASSUME NEW d \in Conns, NEW l \in Kinds
        PROVE  ServedKind(d, l)'
    BY ChannelsOf DEF TypeOK, Shapes, ShapeOf, TablesFit, OneListens, Served, ServedStream,
         ServedKind, Swept, Bound, Registered, Alive, Listening
  <2> QED
    BY <2>1, <2>2 DEF Served
<1>5. OverFreesTheChannel'
  <2>1. ASSUME NEW r \in Subs, Registered(r)'
        PROVE  (pc'[r] = "over" => result'[r] = "unsettled") /\ un'[r] # "finished"
    BY <2>1, ChannelsOf DEF TypeOK, Shapes, ShapeOf, TablesFit, OverFreesTheChannel, Registered,
         Bound
  <2> QED
    BY <2>1 DEF OverFreesTheChannel
<1>6. Reads'
  <2>1. ASSUME NEW r \in Subs
        PROVE  Untouched(r)
    BY ChannelsOf DEF TypeOK, Shapes, ShapeOf, TablesFit, Reads, ReadsFit, Untouched, Registered,
         Swept, Bound
  <2> QED
    BY <2>1, ReadsKept
<1> QED
  BY <1>1, <1>2, <1>3, <1>4, <1>5, <1>6

LEMMA RequestDroppedStep ==
  ASSUME IInv, NEW s \in Subs, RequestDropped(s)
  PROVE  IInv'
BY StopForgets DEF RequestDropped, IInv, Shapes, ShapeOf, Bound, stream, owner

LEMMA RequestCancelledStep ==
  ASSUME IInv, NEW s \in Subs, RequestCancelled(s)
  PROVE  IInv'
BY StopForgets DEF RequestCancelled, IInv, Shapes, ShapeOf, Bound, stream, owner

LEMMA ReadAtOnceStep ==
  ASSUME IInv, NEW s \in Subs, ReadAtOnce(s)
  PROVE  IInv'
<1> USE DEF IInv, ReadAtOnce, Stop, stream, reading, maps, net, owner
<1>1. TypeOK'
  <2>1. queue[s] # << >> => Head(queue[s]) \in Notes /\ Tail(queue[s]) \in Seq(Notes)
    BY DEF TypeOK
  <2>2. queue' \in [Subs -> Seq(Notes)]
    BY <2>1 DEF TypeOK
  <2>3. got' \in [Subs -> Seq(Notes)]
    <3>1. CASE un[s] = "finished"
      BY <3>1 DEF TypeOK
    <3>2. CASE un[s] # "finished"
      <4>1. got[s] \in Seq(Notes) /\ Head(queue[s]) \in Notes
        BY <2>1, <3>2 DEF TypeOK
      <4>2. Append(got[s], Head(queue[s])) \in Seq(Notes)
        BY <4>1
      <4> QED
        BY <3>2, <4>2 DEF TypeOK
    <3> QED
      BY <3>1, <3>2
  <2> QED
    BY <2>2, <2>3 DEF TypeOK
<1>2. Shapes'
  <2>1. ASSUME NEW r \in Subs
        PROVE  ShapeOf(r)'
    <3>1. CASE un[s] = "finished"
      <4>1. /\ pc' = [pc EXCEPT ![s] = "over"] /\ result' = [result EXCEPT ![s] = "ended"]
            /\ UNCHANGED <<un, kind, ctx, seen, inner, life, exits>>
        BY <3>1
      <4>2. /\ ShapeOf(r) /\ ShapeOf(s) /\ pc[s] = "subscribed"
            /\ pc \in [Subs -> {"idle", "connecting", "requesting", "subscribed", "reading",
                            "settling", "over"}]
            /\ result \in [Subs -> {"none", "failed", "ended", "dropped", "cancelled", "unsettled"}]
        BY DEF TypeOK, Shapes
      <4> HIDE DEF IInv, ReadAtOnce
      <4> QED
        BY <4>1, <4>2 DEF ShapeOf, Bound
    <3>2. CASE un[s] # "finished"
      BY <3>2 DEF Shapes, ShapeOf, Bound
    <3> QED
      BY <3>1, <3>2
  <2> QED
    BY <2>1 DEF Shapes
<1>3. TablesFit' /\ OneListens'
  BY ChannelsOf DEF TypeOK, Shapes, ShapeOf, TablesFit, OneListens, Listening, Alive, Bound
<1>4. Served'
  <2>1. ASSUME NEW r \in Subs
        PROVE  ServedStream(r)'
    BY ChannelsOf DEF TypeOK, Shapes, ShapeOf, TablesFit, OneListens, Served, ServedStream, Swept,
         Bound, Registered, Alive, Listening
  <2>2. ASSUME NEW d \in Conns, NEW l \in Kinds
        PROVE  ServedKind(d, l)'
    BY ChannelsOf DEF TypeOK, Shapes, ShapeOf, TablesFit, OneListens, Served, ServedStream,
         ServedKind, Swept, Bound, Registered, Alive, Listening
  <2> QED
    BY <2>1, <2>2 DEF Served
<1>5. OverFreesTheChannel'
  <2>1. ASSUME NEW r \in Subs, Registered(r)'
        PROVE  (pc'[r] = "over" => result'[r] = "unsettled") /\ un'[r] # "finished"
    <3>1. Registered(r)
      BY <2>1 DEF Registered
    <3>2. (pc[r] = "over" => result[r] = "unsettled") /\ un[r] # "finished"
      BY <3>1 DEF OverFreesTheChannel
    <3>3. CASE un[s] = "finished"
      BY <3>2, <3>3 DEF TypeOK
    <3>4. CASE un[s] # "finished"
      BY <3>2, <3>4
    <3> QED
      BY <3>3, <3>4
  <2> QED
    BY <2>1 DEF OverFreesTheChannel
<1>6. Reads'
  <2>1. CASE un[s] = "finished"
    <3>1. ASSUME NEW r \in Subs
          PROVE  Untouched(r)
      BY <2>1 DEF TypeOK, Reads, ReadsFit, Untouched, Registered, Swept
    <3> QED
      BY <3>1, ReadsKept
  <2>2. CASE un[s] # "finished"
    <3> SUFFICES ASSUME NEW r \in Subs
                 PROVE  ReadsFit(r)' /\ (~Swept(r)' => OwnParts(r)' /\ Complete(r)')
      BY DEF Reads
    <3>1. queue[s] # << >> /\ taken[s] = << >> /\ ctx[s] # None
      BY <2>2 DEF Reads, ReadsFit, Shapes, ShapeOf, Bound
    <3>2. /\ got' = [got EXCEPT ![s] = Append(got[s], Head(queue[s]))]
          /\ queue' = [queue EXCEPT ![s] = Tail(queue[s])]
          /\ UNCHANGED <<pc, un, result, kind, ctx, taken, due, table, swept>>
      BY <2>2
    <3>3. ReadsFit(r)'
      BY <3>1, <3>2 DEF TypeOK, Reads, ReadsFit
    <3>4. Swept(r)' = Swept(r) /\ Registered(r)' = Registered(r)
      BY <3>2 DEF Swept, Registered
    <3>5. Received(r)' = Received(r)
      <4>1. CASE r = s
        <5>1. Append(got[s], Head(queue[s])) \o << >> \o Tail(queue[s]) = got[s] \o << >> \o
             queue[s]
          <6>1. got[s] \in Seq(Notes) /\ queue[s] \in Seq(Notes)
            BY DEF TypeOK
          <6> HIDE DEF IInv, ReadAtOnce
          <6> QED
            BY <3>1, <6>1, HeadAndTail
        <5>2. got'[s] = Append(got[s], Head(queue[s])) /\ queue'[s] = Tail(queue[s]) /\ taken'[s]
             = << >>
          BY <3>1, <3>2 DEF TypeOK
        <5> QED
          BY <3>1, <4>1, <5>1, <5>2 DEF Received
      <4>2. CASE r # s
        BY <3>2, <4>2 DEF TypeOK, Received
      <4> QED
        BY <4>1, <4>2
    <3>6. ASSUME ~Swept(r)
          PROVE  OwnParts(r)'
      <4>1. OwnParts(r) /\ got[r] \in Seq(Notes) /\ queue[r] \in Seq(Notes)
        BY <3>6 DEF Reads, TypeOK
      <4>2. CASE r = s
        <5>1. got'[s] = Append(got[s], Head(queue[s])) /\ queue'[s] = Tail(queue[s])
          BY <3>2 DEF TypeOK
        <5>2. /\ \A i \in 1 .. Len(queue[s]) : queue[s][i].conn = ctx[s]
              /\ \A i \in 1 .. Len(got[s]) : got[s][i].conn = ctx[s]
              /\ ctx'[s] = ctx[s] /\ taken'[s] = << >> /\ ctx[s] # None
          BY <3>1, <3>2, <4>1, <4>2 DEF OwnParts
        <5>3. /\ \A i \in 1 .. Len(queue'[s]) : queue'[s][i].conn = ctx'[s]
              /\ \A i \in 1 .. Len(got'[s]) : got'[s][i].conn = ctx'[s]
          <6> HIDE DEF IInv, ReadAtOnce
          <6>1. /\ \A i \in 1 .. Len(Tail(queue[s])) : Tail(queue[s])[i].conn = ctx[s]
                /\ \A i \in 1 .. Len(Append(got[s], Head(queue[s]))) :
                     Append(got[s], Head(queue[s]))[i].conn = ctx[s]
            BY <3>1, <4>1, <4>2, <5>2, MovesAlong
          <6> QED
            BY <5>1, <5>2, <6>1
        <5> HIDE DEF IInv, ReadAtOnce
        <5> QED
          BY <4>2, <5>2, <5>3 DEF OwnParts
      <4>3. CASE r # s
        <5>1. got'[r] = got[r] /\ queue'[r] = queue[r]
          BY <3>2, <4>3 DEF TypeOK
        <5> QED
          BY <3>2, <4>1, <5>1 DEF OwnParts
      <4> QED
        BY <4>2, <4>3
    <3> QED
      BY <3>2, <3>3, <3>4, <3>5, <3>6 DEF Reads, Complete
  <2> QED
    BY <2>1, <2>2
<1> QED
  BY <1>1, <1>2, <1>3, <1>4, <1>5, <1>6

LEMMA StartReadStep ==
  ASSUME IInv, NEW s \in Subs, StartRead(s)
  PROVE  IInv'
<1> USE DEF IInv, StartRead, stream, reading, maps, net, owner
<1>1. TypeOK'
  BY ChannelsOf DEF TypeOK, Shapes, ShapeOf
<1>2. Shapes'
  <2>1. ASSUME NEW r \in Subs
        PROVE  ShapeOf(r)'
    BY DEF TypeOK, Shapes, ShapeOf, Bound, Alive, Listening
  <2> QED
    BY <2>1 DEF Shapes
<1>3. TablesFit' /\ OneListens'
  BY ChannelsOf DEF TypeOK, Shapes, ShapeOf, TablesFit, OneListens, Listening, Alive, Bound
<1>4. Served'
  <2>1. ASSUME NEW r \in Subs
        PROVE  ServedStream(r)'
    BY ChannelsOf DEF TypeOK, Shapes, ShapeOf, TablesFit, OneListens, Served, ServedStream, Swept,
         Bound, Registered, Alive, Listening
  <2>2. ASSUME NEW d \in Conns, NEW l \in Kinds
        PROVE  ServedKind(d, l)'
    BY ChannelsOf DEF TypeOK, Shapes, ShapeOf, TablesFit, OneListens, Served, ServedStream,
         ServedKind, Swept, Bound, Registered, Alive, Listening
  <2> QED
    BY <2>1, <2>2 DEF Served
<1>5. OverFreesTheChannel'
  <2>1. ASSUME NEW r \in Subs, Registered(r)'
        PROVE  (pc'[r] = "over" => result'[r] = "unsettled") /\ un'[r] # "finished"
    BY <2>1, ChannelsOf DEF TypeOK, Shapes, ShapeOf, TablesFit, OverFreesTheChannel, Registered,
         Bound
  <2> QED
    BY <2>1 DEF OverFreesTheChannel
<1>6. Reads'
  <2>1. ASSUME NEW r \in Subs
        PROVE  Untouched(r)
    BY ChannelsOf DEF TypeOK, Shapes, ShapeOf, TablesFit, Reads, ReadsFit, Untouched, Registered,
         Swept, Bound
  <2> QED
    BY <2>1, ReadsKept
<1> QED
  BY <1>1, <1>2, <1>3, <1>4, <1>5, <1>6

LEMMA TakeStep ==
  ASSUME IInv, NEW s \in Subs, Take(s)
  PROVE  IInv'
<1> USE DEF IInv, Take, stream, reading, maps, net, owner
<1>1. TypeOK'
  BY ChannelsOf DEF TypeOK, Shapes, ShapeOf
<1>2. Shapes'
  <2>1. ASSUME NEW r \in Subs
        PROVE  ShapeOf(r)'
    BY DEF TypeOK, Shapes, ShapeOf, Bound, Alive, Listening
  <2> QED
    BY <2>1 DEF Shapes
<1>3. TablesFit' /\ OneListens'
  BY ChannelsOf DEF TypeOK, Shapes, ShapeOf, TablesFit, OneListens, Listening, Alive, Bound
<1>4. Served'
  <2>1. ASSUME NEW r \in Subs
        PROVE  ServedStream(r)'
    BY ChannelsOf DEF TypeOK, Shapes, ShapeOf, TablesFit, OneListens, Served, ServedStream, Swept,
         Bound, Registered, Alive, Listening
  <2>2. ASSUME NEW d \in Conns, NEW l \in Kinds
        PROVE  ServedKind(d, l)'
    BY ChannelsOf DEF TypeOK, Shapes, ShapeOf, TablesFit, OneListens, Served, ServedStream,
         ServedKind, Swept, Bound, Registered, Alive, Listening
  <2> QED
    BY <2>1, <2>2 DEF Served
<1>5. OverFreesTheChannel'
  <2>1. ASSUME NEW r \in Subs, Registered(r)'
        PROVE  (pc'[r] = "over" => result'[r] = "unsettled") /\ un'[r] # "finished"
    BY <2>1, ChannelsOf DEF TypeOK, Shapes, ShapeOf, TablesFit, OverFreesTheChannel, Registered,
         Bound
  <2> QED
    BY <2>1 DEF OverFreesTheChannel
<1>6. Reads'
  <2> SUFFICES ASSUME NEW r \in Subs
               PROVE  ReadsFit(r)' /\ (~Swept(r)' => OwnParts(r)' /\ Complete(r)')
    BY DEF Reads
  <2>1. ctx[s] # None
    BY DEF Shapes, ShapeOf, Bound
  <2>2. ReadsFit(r)'
    BY <2>1 DEF TypeOK, Reads, ReadsFit
  <2>3. Swept(r)' = Swept(r) /\ Registered(r)' = Registered(r)
    BY DEF Swept, Registered
  <2>4. Received(r)' = Received(r)
    <3>1. CASE r = s
      <4>1. got[s] \o <<Head(queue[s])>> \o Tail(queue[s]) = got[s] \o << >> \o queue[s]
        <5>1. got[s] \in Seq(Notes) /\ queue[s] \in Seq(Notes) /\ queue[s] # << >>
          BY DEF TypeOK
        <5> HIDE DEF IInv, Take
        <5> QED
          BY <5>1, HeadAndTail
      <4>2. taken'[s] = <<Head(queue[s])>> /\ queue'[s] = Tail(queue[s]) /\ taken[s] = << >>
        BY DEF TypeOK
      <4> QED
        BY <3>1, <4>1, <4>2 DEF Received
    <3>2. CASE r # s
      BY <3>2 DEF TypeOK, Received
    <3> QED
      BY <3>1, <3>2
  <2>5. ASSUME ~Swept(r)
        PROVE  OwnParts(r)'
    <3>1. OwnParts(r) /\ got[r] \in Seq(Notes) /\ queue[r] \in Seq(Notes)
      BY <2>5 DEF Reads, TypeOK
    <3>2. CASE r = s
      <4>1. taken'[s] = <<Head(queue[s])>> /\ queue'[s] = Tail(queue[s])
        BY DEF TypeOK
      <4>2. /\ \A i \in 1 .. Len(queue[s]) : queue[s][i].conn = ctx[s]
            /\ \A i \in 1 .. Len(got[s]) : got[s][i].conn = ctx[s]
        BY <3>1, <3>2 DEF OwnParts
      <4>3. queue[s] # << >>
        OBVIOUS
      <4>4. /\ \A i \in 1 .. Len(Tail(queue[s])) : Tail(queue[s])[i].conn = ctx[s]
            /\ \A i \in 1 .. Len(<<Head(queue[s])>>) : <<Head(queue[s])>>[i].conn = ctx[s]
        <5> HIDE DEF IInv, Take
        <5> QED
          BY <3>1, <3>2, <4>2, <4>3, MovesAlong
      <4>5. ctx'[s] = ctx[s] /\ got'[s] = got[s]
        OBVIOUS
      <4>6. /\ \A i \in 1 .. Len(queue'[s]) : queue'[s][i].conn = ctx'[s]
            /\ \A i \in 1 .. Len(taken'[s]) : taken'[s][i].conn = ctx'[s]
            /\ \A i \in 1 .. Len(got'[s]) : got'[s][i].conn = ctx'[s]
        <5> HIDE DEF IInv, Take
        <5> QED
          BY <4>1, <4>2, <4>4, <4>5
      <4> HIDE DEF IInv, Take
      <4> QED
        BY <2>1, <3>2, <4>5, <4>6 DEF OwnParts
    <3>3. CASE r # s
      <4>1. taken'[r] = taken[r] /\ queue'[r] = queue[r]
        BY <3>3 DEF TypeOK
      <4> QED
        BY <3>1, <4>1 DEF OwnParts
    <3> QED
      BY <3>2, <3>3
  <2> QED
    BY <2>2, <2>3, <2>4, <2>5 DEF Reads, Complete
<1> QED
  BY <1>1, <1>2, <1>3, <1>4, <1>5, <1>6

LEMMA InnerDoneStep ==
  ASSUME IInv, NEW s \in Subs, InnerDone(s)
  PROVE  IInv'
<1> USE DEF IInv, InnerDone, stream, reading, maps, net, owner
<1>1. TypeOK'
  BY ChannelsOf DEF TypeOK, Shapes, ShapeOf
<1>2. Shapes'
  <2>1. ASSUME NEW r \in Subs
        PROVE  ShapeOf(r)'
    BY DEF TypeOK, Shapes, ShapeOf, Bound, Alive, Listening
  <2> QED
    BY <2>1 DEF Shapes
<1>3. TablesFit' /\ OneListens'
  BY ChannelsOf DEF TypeOK, Shapes, ShapeOf, TablesFit, OneListens, Listening, Alive, Bound
<1>4. Served'
  <2>1. ASSUME NEW r \in Subs
        PROVE  ServedStream(r)'
    BY ChannelsOf DEF TypeOK, Shapes, ShapeOf, TablesFit, OneListens, Served, ServedStream, Swept,
         Bound, Registered, Alive, Listening
  <2>2. ASSUME NEW d \in Conns, NEW l \in Kinds
        PROVE  ServedKind(d, l)'
    BY ChannelsOf DEF TypeOK, Shapes, ShapeOf, TablesFit, OneListens, Served, ServedStream,
         ServedKind, Swept, Bound, Registered, Alive, Listening
  <2> QED
    BY <2>1, <2>2 DEF Served
<1>5. OverFreesTheChannel'
  <2>1. ASSUME NEW r \in Subs, Registered(r)'
        PROVE  (pc'[r] = "over" => result'[r] = "unsettled") /\ un'[r] # "finished"
    BY <2>1, ChannelsOf DEF TypeOK, Shapes, ShapeOf, TablesFit, OverFreesTheChannel, Registered,
         Bound
  <2> QED
    BY <2>1 DEF OverFreesTheChannel
<1>6. Reads'
  <2>1. ASSUME NEW r \in Subs
        PROVE  Untouched(r)
    BY ChannelsOf DEF TypeOK, Shapes, ShapeOf, TablesFit, Reads, ReadsFit, Untouched, Registered,
         Swept, Bound
  <2> QED
    BY <2>1, ReadsKept
<1> QED
  BY <1>1, <1>2, <1>3, <1>4, <1>5, <1>6

LEMMA WakeItemStep ==
  ASSUME IInv, NEW s \in Subs, WakeItem(s)
  PROVE  IInv'
<1> USE DEF IInv, WakeItem, stream, reading, maps, net, owner
<1>1. TypeOK'
  BY ChannelsOf DEF TypeOK, Shapes, ShapeOf
<1>2. Shapes'
  <2>1. ASSUME NEW r \in Subs
        PROVE  ShapeOf(r)'
    BY DEF TypeOK, Shapes, ShapeOf, Bound, Alive, Listening
  <2> QED
    BY <2>1 DEF Shapes
<1>3. TablesFit' /\ OneListens'
  BY ChannelsOf DEF TypeOK, Shapes, ShapeOf, TablesFit, OneListens, Listening, Alive, Bound
<1>4. Served'
  <2>1. ASSUME NEW r \in Subs
        PROVE  ServedStream(r)'
    BY ChannelsOf DEF TypeOK, Shapes, ShapeOf, TablesFit, OneListens, Served, ServedStream, Swept,
         Bound, Registered, Alive, Listening
  <2>2. ASSUME NEW d \in Conns, NEW l \in Kinds
        PROVE  ServedKind(d, l)'
    BY ChannelsOf DEF TypeOK, Shapes, ShapeOf, TablesFit, OneListens, Served, ServedStream,
         ServedKind, Swept, Bound, Registered, Alive, Listening
  <2> QED
    BY <2>1, <2>2 DEF Served
<1>5. OverFreesTheChannel'
  <2>1. ASSUME NEW r \in Subs, Registered(r)'
        PROVE  (pc'[r] = "over" => result'[r] = "unsettled") /\ un'[r] # "finished"
    BY <2>1, ChannelsOf DEF TypeOK, Shapes, ShapeOf, TablesFit, OverFreesTheChannel, Registered,
         Bound
  <2> QED
    BY <2>1 DEF OverFreesTheChannel
<1>6. Reads'
  <2>1. ASSUME NEW r \in Subs
        PROVE  Untouched(r)
    BY ChannelsOf DEF TypeOK, Shapes, ShapeOf, TablesFit, Reads, ReadsFit, Untouched, Registered,
         Swept, Bound
  <2> QED
    BY <2>1, ReadsKept
<1> QED
  BY <1>1, <1>2, <1>3, <1>4, <1>5, <1>6

LEMMA SettledStep ==
  ASSUME IInv, NEW s \in Subs, Settled(s)
  PROVE  IInv'
<1> USE DEF IInv, Settled, stream, reading, maps, net, owner
<1>1. TypeOK'
  BY ChannelsOf DEF TypeOK, Shapes, ShapeOf
<1>2. Shapes'
  <2>1. ASSUME NEW r \in Subs
        PROVE  ShapeOf(r)'
    BY DEF TypeOK, Shapes, ShapeOf, Bound, Alive, Listening
  <2> QED
    BY <2>1 DEF Shapes
<1>3. TablesFit' /\ OneListens'
  BY ChannelsOf DEF TypeOK, Shapes, ShapeOf, TablesFit, OneListens, Listening, Alive, Bound
<1>4. Served'
  <2>1. ASSUME NEW r \in Subs
        PROVE  ServedStream(r)'
    BY ChannelsOf DEF TypeOK, Shapes, ShapeOf, TablesFit, OneListens, Served, ServedStream, Swept,
         Bound, Registered, Alive, Listening
  <2>2. ASSUME NEW d \in Conns, NEW l \in Kinds
        PROVE  ServedKind(d, l)'
    BY ChannelsOf DEF TypeOK, Shapes, ShapeOf, TablesFit, OneListens, Served, ServedStream,
         ServedKind, Swept, Bound, Registered, Alive, Listening
  <2> QED
    BY <2>1, <2>2 DEF Served
<1>5. OverFreesTheChannel'
  <2>1. ASSUME NEW r \in Subs, Registered(r)'
        PROVE  (pc'[r] = "over" => result'[r] = "unsettled") /\ un'[r] # "finished"
    BY <2>1, ChannelsOf DEF TypeOK, Shapes, ShapeOf, TablesFit, OverFreesTheChannel, Registered,
         Bound
  <2> QED
    BY <2>1 DEF OverFreesTheChannel
<1>6. Reads'
  <2> SUFFICES ASSUME NEW r \in Subs
               PROVE  ReadsFit(r)' /\ (~Swept(r)' => OwnParts(r)' /\ Complete(r)')
    BY DEF Reads
  <2>1. ctx[s] # None
    BY DEF Shapes, ShapeOf, Bound
  <2>2. ReadsFit(r)'
    BY <2>1 DEF TypeOK, Reads, ReadsFit
  <2>3. Swept(r)' = Swept(r) /\ Registered(r)' = Registered(r)
    BY DEF Swept, Registered
  <2>4. Received(r)' = Received(r)
    <3>1. CASE r = s
      <4>1. (got[s] \o taken[s]) \o << >> = got[s] \o taken[s]
        BY DEF TypeOK
      <4> QED
        BY <3>1, <4>1 DEF TypeOK, Received
    <3>2. CASE r # s
      BY <3>2 DEF TypeOK, Received
    <3> QED
      BY <3>1, <3>2
  <2>5. ~Swept(r) => OwnParts(r)'
    BY <2>1 DEF TypeOK, Reads, OwnParts
  <2> QED
    BY <2>2, <2>3, <2>4, <2>5 DEF Reads, Complete
<1> QED
  BY <1>1, <1>2, <1>3, <1>4, <1>5, <1>6

LEMMA CancelSettleStep ==
  ASSUME IInv, NEW s \in Subs, CancelSettle(s)
  PROVE  IInv'
<1> USE DEF IInv, CancelSettle, Stop, stream, reading, maps, net, owner
<1>1. TypeOK'
  BY ChannelsOf DEF TypeOK, Shapes, ShapeOf
<1>2. Shapes'
  <2>1. ASSUME NEW r \in Subs
        PROVE  ShapeOf(r)'
    BY DEF TypeOK, Shapes, ShapeOf, Bound, Alive, Listening
  <2> QED
    BY <2>1 DEF Shapes
<1>3. TablesFit' /\ OneListens'
  BY ChannelsOf DEF TypeOK, Shapes, ShapeOf, TablesFit, OneListens, Listening, Alive, Bound
<1>4. Served'
  <2>1. ASSUME NEW r \in Subs
        PROVE  ServedStream(r)'
    BY ChannelsOf DEF TypeOK, Shapes, ShapeOf, TablesFit, OneListens, Served, ServedStream, Swept,
         Bound, Registered, Alive, Listening
  <2>2. ASSUME NEW d \in Conns, NEW l \in Kinds
        PROVE  ServedKind(d, l)'
    BY ChannelsOf DEF TypeOK, Shapes, ShapeOf, TablesFit, OneListens, Served, ServedStream,
         ServedKind, Swept, Bound, Registered, Alive, Listening
  <2> QED
    BY <2>1, <2>2 DEF Served
<1>5. OverFreesTheChannel'
  <2>1. ASSUME NEW r \in Subs, Registered(r)'
        PROVE  (pc'[r] = "over" => result'[r] = "unsettled") /\ un'[r] # "finished"
    BY <2>1, ChannelsOf DEF TypeOK, Shapes, ShapeOf, TablesFit, OverFreesTheChannel, Registered,
         Bound
  <2> QED
    BY <2>1 DEF OverFreesTheChannel
<1>6. Reads'
  <2>1. ASSUME NEW r \in Subs
        PROVE  Untouched(r)
    BY ChannelsOf DEF TypeOK, Shapes, ShapeOf, TablesFit, Reads, ReadsFit, Untouched, Registered,
         Swept, Bound
  <2> QED
    BY <2>1, ReadsKept
<1> QED
  BY <1>1, <1>2, <1>3, <1>4, <1>5, <1>6

LEMMA WakeEndStep ==
  ASSUME IInv, NEW s \in Subs, WakeEnd(s)
  PROVE  IInv'
<1> USE DEF IInv, WakeEnd, Stop, stream, reading, maps, net, owner
<1>1. TypeOK'
  BY ChannelsOf DEF TypeOK, Shapes, ShapeOf
<1>2. Shapes'
  <2>1. ASSUME NEW r \in Subs
        PROVE  ShapeOf(r)'
    BY DEF TypeOK, Shapes, ShapeOf, Bound, Alive, Listening
  <2> QED
    BY <2>1 DEF Shapes
<1>3. TablesFit' /\ OneListens'
  BY ChannelsOf DEF TypeOK, Shapes, ShapeOf, TablesFit, OneListens, Listening, Alive, Bound
<1>4. Served'
  <2>1. ASSUME NEW r \in Subs
        PROVE  ServedStream(r)'
    BY ChannelsOf DEF TypeOK, Shapes, ShapeOf, TablesFit, OneListens, Served, ServedStream, Swept,
         Bound, Registered, Alive, Listening
  <2>2. ASSUME NEW d \in Conns, NEW l \in Kinds
        PROVE  ServedKind(d, l)'
    BY ChannelsOf DEF TypeOK, Shapes, ShapeOf, TablesFit, OneListens, Served, ServedStream,
         ServedKind, Swept, Bound, Registered, Alive, Listening
  <2> QED
    BY <2>1, <2>2 DEF Served
<1>5. OverFreesTheChannel'
  <2>1. ASSUME NEW r \in Subs, Registered(r)'
        PROVE  (pc'[r] = "over" => result'[r] = "unsettled") /\ un'[r] # "finished"
    BY <2>1, ChannelsOf DEF TypeOK, Shapes, ShapeOf, TablesFit, OverFreesTheChannel, Registered,
         Bound
  <2> QED
    BY <2>1 DEF OverFreesTheChannel
<1>6. Reads'
  <2>1. ASSUME NEW r \in Subs
        PROVE  Untouched(r)
    BY ChannelsOf DEF TypeOK, Shapes, ShapeOf, TablesFit, Reads, ReadsFit, Untouched, Registered,
         Swept, Bound
  <2> QED
    BY <2>1, ReadsKept
<1> QED
  BY <1>1, <1>2, <1>3, <1>4, <1>5, <1>6

LEMMA WakeDroppedStep ==
  ASSUME IInv, NEW s \in Subs, WakeDropped(s)
  PROVE  IInv'
BY StopForgets DEF WakeDropped, IInv, Shapes, ShapeOf, Bound, stream, owner

LEMMA CancelReadStep ==
  ASSUME IInv, NEW s \in Subs, CancelRead(s)
  PROVE  IInv'
BY StopForgets DEF CancelRead, IInv, Shapes, ShapeOf, Bound, stream, owner

LEMMA UnsubscribeStep ==
  ASSUME IInv, NEW s \in Subs, Unsubscribe(s)
  PROVE  IInv'
BY FinishForgets, UnMoves DEF Unsubscribe, Streaming, maps, IInv, Shapes, ShapeOf, Bound

LEMMA UnsubscribedStep ==
  ASSUME IInv, NEW s \in Subs, Unsubscribed(s)
  PROVE  IInv'
BY FinishForgets DEF Unsubscribed, IInv, Shapes, ShapeOf

LEMMA UnsubscribeFailsStep ==
  ASSUME IInv, NEW s \in Subs, UnsubscribeFails(s)
  PROVE  IInv'
BY FinishForgets, UnMoves DEF UnsubscribeFails, maps, IInv, Shapes, ShapeOf

LEMMA NotifyStep ==
  ASSUME IInv, NEW c \in Conns, NEW k \in Kinds, Notify(c, k)
  PROVE  IInv'
<1> USE DEF IInv, Notify, stream, reading, maps, net, owner
<1> DEFINE note == [n |-> notes', conn |-> c]
           at == Routed(k)
<1>a. note \in Notes /\ notes' \in 0 .. MaxNotes
  BY DEF TypeOK, Notes
<1>b. /\ queue' = [s \in Subs |-> IF at # None /\ table[at] = s
                                  THEN Append(queue[s], note) ELSE queue[s]]
      /\ due' = [s \in Subs |-> IF MeantFor(s, c, k)
                                THEN Append(due[s], note) ELSE due[s]]
  OBVIOUS
<1> HIDE DEF note
<1>1. TypeOK'
  <2>0. \A r \in Subs : /\ Append(queue[r], note) \in Seq(Notes) /\ queue[r] \in Seq(Notes)
                       /\ Append(due[r], note) \in Seq(Notes) /\ due[r] \in Seq(Notes)
    BY <1>a DEF TypeOK
  <2>1. queue' \in [Subs -> Seq(Notes)]
    BY <1>b, <2>0
  <2>2. due' \in [Subs -> Seq(Notes)]
    BY <1>b, <2>0
  <2> QED
    BY <1>a, <2>1, <2>2 DEF TypeOK
<1>2. Shapes'
  <2>1. ASSUME NEW r \in Subs
        PROVE  ShapeOf(r)'
    BY DEF TypeOK, Shapes, ShapeOf, Bound, Alive, Listening
  <2> QED
    BY <2>1 DEF Shapes
<1>3. TablesFit' /\ OneListens'
  BY ChannelsOf DEF TypeOK, Shapes, ShapeOf, TablesFit, OneListens, Listening, Alive, Bound
<1>4. Served'
  <2>1. ASSUME NEW r \in Subs
        PROVE  ServedStream(r)'
    BY ChannelsOf DEF TypeOK, Shapes, ShapeOf, TablesFit, OneListens, Served, ServedStream, Swept,
         Bound, Registered, Alive, Listening
  <2>2. ASSUME NEW d \in Conns, NEW l \in Kinds
        PROVE  ServedKind(d, l)'
    BY ChannelsOf DEF TypeOK, Shapes, ShapeOf, TablesFit, OneListens, Served, ServedStream,
         ServedKind, Swept, Bound, Registered, Alive, Listening
  <2> QED
    BY <2>1, <2>2 DEF Served
<1>5. OverFreesTheChannel'
  <2>1. ASSUME NEW r \in Subs, Registered(r)'
        PROVE  (pc'[r] = "over" => result'[r] = "unsettled") /\ un'[r] # "finished"
    BY <2>1, ChannelsOf DEF TypeOK, Shapes, ShapeOf, TablesFit, OverFreesTheChannel, Registered,
         Bound
  <2> QED
    BY <2>1 DEF OverFreesTheChannel
<1>6. Reads'
  <2> SUFFICES ASSUME NEW r \in Subs
               PROVE  ReadsFit(r)' /\ (~Swept(r)' => OwnParts(r)' /\ Complete(r)')
    BY DEF Reads
  <2>1. at = k.chan \/ at = None
    BY DEF TablesFit, Routed
  <2>2. Swept(r)' = Swept(r) /\ Registered(r)' = Registered(r)
    BY DEF Swept, Registered
  \* Who is registered for it is who it is meant for.
  <2>3. ASSUME ~Swept(r), at # None, table[at] = r
        PROVE  MeantFor(r, c, k)
    <3>1. at = k.chan /\ kind[r] # None /\ kind[r].chan = k.chan
      BY <2>1, <2>3, ChannelsOf DEF TablesFit, TypeOK
    <3>2. kind[r] = k /\ k.chan \notin swept
      BY <2>3, <3>1 DEF TypeOK, Swept
    <3>3. ctx[r] = c
      BY <2>3, <3>1, <3>2 DEF Served, ServedKind
    <3>4. (pc[r] = "over" => result[r] = "unsettled") /\ un[r] # "finished"
      BY <2>3, <3>1 DEF OverFreesTheChannel, Registered
    <3> QED
      <4>1. ctx[r] # None
        BY <3>3
      <4>2. pc[r] \in {"requesting", "subscribed", "reading", "settling", "over"}
        BY <4>1 DEF TypeOK, Shapes, ShapeOf
      <4> QED
        BY <3>2, <3>3, <3>4, <4>2 DEF MeantFor
  <2>4. ASSUME Registered(r), MeantFor(r, c, k)
        PROVE  at # None /\ table[at] = r
    <3>1. kind[r] = k /\ table[k.chan] = r
      BY <2>4 DEF MeantFor, Registered
    <3>2. ~k.keyed => k.chan \notin keys
      BY DEF TablesFit
    <3>3. at = k.chan
      BY <3>2 DEF Routed, TablesFit
    <3> QED
      BY <3>1, <3>3, ChannelsOf
  <2>5. MeantFor(r, c, k) => ctx[r] # None
    BY DEF MeantFor
  <2>6. ReadsFit(r)'
    BY <1>b, <2>5 DEF TypeOK, Reads, ReadsFit
  <2>7. ASSUME ~Swept(r)
        PROVE  OwnParts(r)' /\ Complete(r)'
    <3> DEFINE more == at # None /\ table[at] = r
    <3>1. CASE more
      <4>1. MeantFor(r, c, k) /\ ctx[r] = c
        BY <2>3, <2>7, <3>1 DEF MeantFor
      <4>2. queue'[r] = Append(queue[r], note) /\ due'[r] = Append(due[r], note)
        BY <1>b, <3>1, <4>1
      <4>3. note.conn = c
        BY DEF note
      <4>4. OwnParts(r)'
        BY <1>a, <2>7, <4>1, <4>2, <4>3 DEF TypeOK, Reads, OwnParts
      <4>5. Received(r)' = Append(Received(r), note)
        <5>1. got[r] \o taken[r] \o Append(queue[r], note) = Append(got[r] \o taken[r] \o
             queue[r], note)
          BY <1>a, AppendsLast DEF TypeOK
        <5> QED
          BY <4>2, <5>1 DEF Received
      <4>6. Received(r) = due[r]
        <5>1. Registered(r)
          BY <2>1, <3>1, <4>1 DEF Registered, MeantFor
        <5> QED
          BY <2>7, <4>1, <5>1 DEF Reads, Complete
      <4>7. IsPrefix(Received(r)', due'[r])
        <5>1. Received(r) \in Seq(Notes)
          BY DEF TypeOK, Received
        <5>2. Append(Received(r), note) \in Seq(Notes)
          BY <1>a, <5>1
        <5> QED
          BY <4>2, <4>5, <4>6, <5>2, PrefixOfItself
      <4> QED
        BY <4>2, <4>4, <4>5, <4>6, <4>7 DEF Complete
    <3>2. CASE ~more
      <4>1. queue'[r] = queue[r] /\ Received(r)' = Received(r)
        BY <1>b, <3>2 DEF Received
      <4>2. OwnParts(r)'
        <5>1. OwnParts(r) /\ UNCHANGED <<ctx, taken, got>>
          BY <2>7 DEF Reads
        <5> QED
          BY <4>1, <5>1 DEF OwnParts
      <4>3. IsPrefix(Received(r), due'[r])
        <5>1. Received(r) \in Seq(Notes) /\ due[r] \in Seq(Notes)
          BY DEF TypeOK, Received
        <5>2. IsPrefix(Received(r), due[r])
          BY <2>7 DEF Reads, Complete
        <5> QED
          BY <1>a, <1>b, <5>1, <5>2, PrefixOfMore
      <4>4. Registered(r) => due'[r] = due[r]
        BY <1>b, <2>4, <3>2
      <4> QED
        BY <2>2, <2>7, <4>1, <4>2, <4>3, <4>4 DEF Reads, Complete
    <3> QED
      BY <3>1, <3>2
  <2> QED
    BY <2>2, <2>6, <2>7
<1> QED
  BY <1>1, <1>2, <1>3, <1>4, <1>5, <1>6

LEMMA ServerStopsStep ==
  ASSUME IInv, NEW c \in Conns, NEW k \in Kinds, ServerStops(c, k)
  PROVE  IInv'
<1> USE DEF IInv, ServerStops, stream, reading, maps, net, owner
<1>1. TypeOK'
  BY ChannelsOf DEF TypeOK, Shapes, ShapeOf
<1>2. Shapes'
  <2>1. ASSUME NEW r \in Subs
        PROVE  ShapeOf(r)'
    BY DEF TypeOK, Shapes, ShapeOf, Bound, Alive, Listening
  <2> QED
    BY <2>1 DEF Shapes
<1>3. TablesFit' /\ OneListens'
  BY ChannelsOf DEF TypeOK, Shapes, ShapeOf, TablesFit, OneListens, Listening, Alive, Bound
<1>4. Served'
  <2>1. ASSUME NEW r \in Subs
        PROVE  ServedStream(r)'
    BY ChannelsOf DEF TypeOK, Shapes, ShapeOf, TablesFit, OneListens, Served, ServedStream, Swept,
         Bound, Registered, Alive, Listening
  <2>2. ASSUME NEW d \in Conns, NEW l \in Kinds
        PROVE  ServedKind(d, l)'
    BY ChannelsOf DEF TypeOK, Shapes, ShapeOf, TablesFit, OneListens, Served, ServedStream,
         ServedKind, Swept, Bound, Registered, Alive, Listening
  <2> QED
    BY <2>1, <2>2 DEF Served
<1>5. OverFreesTheChannel'
  <2>1. ASSUME NEW r \in Subs, Registered(r)'
        PROVE  (pc'[r] = "over" => result'[r] = "unsettled") /\ un'[r] # "finished"
    BY <2>1, ChannelsOf DEF TypeOK, Shapes, ShapeOf, TablesFit, OverFreesTheChannel, Registered,
         Bound
  <2> QED
    BY <2>1 DEF OverFreesTheChannel
<1>6. Reads'
  <2>1. ASSUME NEW r \in Subs
        PROVE  Untouched(r)
    BY ChannelsOf DEF TypeOK, Shapes, ShapeOf, TablesFit, Reads, ReadsFit, Untouched, Registered,
         Swept, Bound
  <2> QED
    BY <2>1, ReadsKept
<1> QED
  BY <1>1, <1>2, <1>3, <1>4, <1>5, <1>6

LEMMA FalterStep ==
  ASSUME IInv, NEW c \in Conns, Falter(c)
  PROVE  IInv'
<1> USE DEF IInv, Falter, stream, reading, maps, net, owner
<1>1. TypeOK'
  BY ChannelsOf DEF TypeOK, Shapes, ShapeOf
<1>2. Shapes'
  <2>1. ASSUME NEW r \in Subs
        PROVE  ShapeOf(r)'
    BY DEF TypeOK, Shapes, ShapeOf, Bound, Alive, Listening
  <2> QED
    BY <2>1 DEF Shapes
<1>3. TablesFit' /\ OneListens'
  BY ChannelsOf DEF TypeOK, Shapes, ShapeOf, TablesFit, OneListens, Listening, Alive, Bound
<1>4. Served'
  <2>1. ASSUME NEW r \in Subs
        PROVE  ServedStream(r)'
    BY ChannelsOf DEF TypeOK, Shapes, ShapeOf, TablesFit, OneListens, Served, ServedStream, Swept,
         Bound, Registered, Alive, Listening
  <2>2. ASSUME NEW d \in Conns, NEW l \in Kinds
        PROVE  ServedKind(d, l)'
    BY ChannelsOf DEF TypeOK, Shapes, ShapeOf, TablesFit, OneListens, Served, ServedStream,
         ServedKind, Swept, Bound, Registered, Alive, Listening
  <2> QED
    BY <2>1, <2>2 DEF Served
<1>5. OverFreesTheChannel'
  <2>1. ASSUME NEW r \in Subs, Registered(r)'
        PROVE  (pc'[r] = "over" => result'[r] = "unsettled") /\ un'[r] # "finished"
    BY <2>1, ChannelsOf DEF TypeOK, Shapes, ShapeOf, TablesFit, OverFreesTheChannel, Registered,
         Bound
  <2> QED
    BY <2>1 DEF OverFreesTheChannel
<1>6. Reads'
  <2>1. ASSUME NEW r \in Subs
        PROVE  Untouched(r)
    BY ChannelsOf DEF TypeOK, Shapes, ShapeOf, TablesFit, Reads, ReadsFit, Untouched, Registered,
         Swept, Bound
  <2> QED
    BY <2>1, ReadsKept
<1> QED
  BY <1>1, <1>2, <1>3, <1>4, <1>5, <1>6

LEMMA ListenerEndsStep ==
  ASSUME IInv, NEW c \in Conns, ListenerEnds(c)
  PROVE  IInv'
<1> USE DEF IInv, ListenerEnds, Dies, stream, reading, maps, net, owner
<1>1. TypeOK'
  BY ChannelsOf DEF TypeOK, Shapes, ShapeOf
<1>2. Shapes'
  <2>1. ASSUME NEW r \in Subs
        PROVE  ShapeOf(r)'
    BY DEF TypeOK, Shapes, ShapeOf, Bound, Alive, Listening
  <2> QED
    BY <2>1 DEF Shapes
<1>3. TablesFit' /\ OneListens'
  BY ChannelsOf DEF TypeOK, Shapes, ShapeOf, TablesFit, OneListens, Listening, Alive, Bound
<1>4. Served'
  <2>1. ASSUME NEW r \in Subs
        PROVE  ServedStream(r)'
    BY ChannelsOf DEF TypeOK, Shapes, ShapeOf, TablesFit, OneListens, Served, ServedStream, Swept,
         Bound, Registered, Alive, Listening
  <2>2. ASSUME NEW d \in Conns, NEW l \in Kinds
        PROVE  ServedKind(d, l)'
    BY ChannelsOf DEF TypeOK, Shapes, ShapeOf, TablesFit, OneListens, Served, ServedStream,
         ServedKind, Swept, Bound, Registered, Alive, Listening
  <2> QED
    BY <2>1, <2>2 DEF Served
<1>5. OverFreesTheChannel'
  <2>1. ASSUME NEW r \in Subs, Registered(r)'
        PROVE  (pc'[r] = "over" => result'[r] = "unsettled") /\ un'[r] # "finished"
    BY <2>1, ChannelsOf DEF TypeOK, Shapes, ShapeOf, TablesFit, OverFreesTheChannel, Registered,
         Bound
  <2> QED
    BY <2>1 DEF OverFreesTheChannel
<1>6. Reads'
  <2>1. ASSUME NEW r \in Subs
        PROVE  Untouched(r)
    BY ChannelsOf DEF TypeOK, Shapes, ShapeOf, TablesFit, Reads, ReadsFit, Untouched, Registered,
         Swept, Bound
  <2> QED
    BY <2>1, ReadsKept
<1> QED
  BY <1>1, <1>2, <1>3, <1>4, <1>5, <1>6

LEMMA ExitStep ==
  ASSUME IInv, Exit
  PROVE  IInv'
<1>1. CASE cur # None
  BY <1>1, ExitCloses DEF Exit, maps, net
<1>2. CASE cur = None
  BY <1>2, ExitClears DEF Exit, maps, net
<1> QED
  BY <1>1, <1>2

LEMMA LeftStep ==
  ASSUME IInv, Left
  PROVE  IInv'
<1> USE DEF IInv, Left, Current, stream, reading, maps, net, owner
<1>1. TypeOK'
  BY ChannelsOf DEF TypeOK, Shapes, ShapeOf
<1>2. Shapes'
  <2>1. ASSUME NEW r \in Subs
        PROVE  ShapeOf(r)'
    BY DEF TypeOK, Shapes, ShapeOf, Bound, Alive, Listening
  <2> QED
    BY <2>1 DEF Shapes
<1>3. TablesFit' /\ OneListens'
  BY ChannelsOf DEF TypeOK, Shapes, ShapeOf, TablesFit, OneListens, Listening, Alive, Bound
<1>4. Served'
  <2>1. ASSUME NEW r \in Subs
        PROVE  ServedStream(r)'
    <3>1. ASSUME kind[r] # None, table[kind[r].chan] = r,
                 pc[r] = "connecting" \/ Alive(ctx[r])
          PROVE  kind[r].chan \in swept'
      BY <3>1, ChannelsOf DEF TypeOK
    <3>2. ~Swept(r)' => ~Swept(r)
      BY DEF Swept
    <3>3. ASSUME ~Swept(r)', Bound(r), un[r] # "finished", Alive(ctx[r])
          PROVE  FALSE
      BY <3>1, <3>2, <3>3 DEF Served, ServedStream, Registered, Swept
    <3>4. ASSUME ~Swept(r)', pc[r] = "connecting", seen[r] = exits
          PROVE  FALSE
      BY <3>1, <3>2, <3>4 DEF Served, ServedStream, Registered, Swept
    <3> QED
      BY <3>3, <3>4 DEF ServedStream, Bound, Alive
  <2>2. ASSUME NEW d \in Conns, NEW l \in Kinds
        PROVE  ServedKind(d, l)'
    BY ChannelsOf DEF TypeOK, Shapes, ShapeOf, TablesFit, OneListens, Served, ServedStream,
         ServedKind, Swept, Bound, Registered, Alive, Listening
  <2> QED
    BY <2>1, <2>2 DEF Served
<1>5. OverFreesTheChannel'
  <2>1. ASSUME NEW r \in Subs, Registered(r)'
        PROVE  (pc'[r] = "over" => result'[r] = "unsettled") /\ un'[r] # "finished"
    BY <2>1, ChannelsOf DEF TypeOK, Shapes, ShapeOf, TablesFit, OverFreesTheChannel, Registered,
         Bound
  <2> QED
    BY <2>1 DEF OverFreesTheChannel
<1>6. Reads'
  <2>1. ASSUME NEW r \in Subs
        PROVE  Untouched(r)
    BY ChannelsOf DEF TypeOK, Shapes, ShapeOf, TablesFit, Reads, ReadsFit, Untouched, Registered,
         Swept, Bound
  <2> QED
    BY <2>1, ReadsKept
<1> QED
  BY <1>1, <1>2, <1>3, <1>4, <1>5, <1>6

LEMMA CancelExitStep ==
  ASSUME IInv, CancelExit
  PROVE  IInv'
<1> USE DEF IInv, CancelExit, stream, reading, maps, net, owner
<1>1. TypeOK'
  BY ChannelsOf DEF TypeOK, Shapes, ShapeOf
<1>2. Shapes'
  <2>1. ASSUME NEW r \in Subs
        PROVE  ShapeOf(r)'
    BY DEF TypeOK, Shapes, ShapeOf, Bound, Alive, Listening
  <2> QED
    BY <2>1 DEF Shapes
<1>3. TablesFit' /\ OneListens'
  BY ChannelsOf DEF TypeOK, Shapes, ShapeOf, TablesFit, OneListens, Listening, Alive, Bound
<1>4. Served'
  <2>1. ASSUME NEW r \in Subs
        PROVE  ServedStream(r)'
    BY ChannelsOf DEF TypeOK, Shapes, ShapeOf, TablesFit, OneListens, Served, ServedStream, Swept,
         Bound, Registered, Alive, Listening
  <2>2. ASSUME NEW d \in Conns, NEW l \in Kinds
        PROVE  ServedKind(d, l)'
    BY ChannelsOf DEF TypeOK, Shapes, ShapeOf, TablesFit, OneListens, Served, ServedStream,
         ServedKind, Swept, Bound, Registered, Alive, Listening
  <2> QED
    BY <2>1, <2>2 DEF Served
<1>5. OverFreesTheChannel'
  <2>1. ASSUME NEW r \in Subs, Registered(r)'
        PROVE  (pc'[r] = "over" => result'[r] = "unsettled") /\ un'[r] # "finished"
    BY <2>1, ChannelsOf DEF TypeOK, Shapes, ShapeOf, TablesFit, OverFreesTheChannel, Registered,
         Bound
  <2> QED
    BY <2>1 DEF OverFreesTheChannel
<1>6. Reads'
  <2>1. ASSUME NEW r \in Subs
        PROVE  Untouched(r)
    BY ChannelsOf DEF TypeOK, Shapes, ShapeOf, TablesFit, Reads, ReadsFit, Untouched, Registered,
         Swept, Bound
  <2> QED
    BY <2>1, ReadsKept
<1> QED
  BY <1>1, <1>2, <1>3, <1>4, <1>5, <1>6

-----------------------------------------------------------------------------
(* The theorems.                                                            *)

LEMMA InitInv ==
  ASSUME Init
  PROVE  IInv
<1>1. TypeOK
  <2>1. << >> \in Seq(Notes)
    OBVIOUS
  <2>2. /\ queue \in [Subs -> Seq(Notes)] /\ taken \in [Subs -> Seq(Notes)]
        /\ got \in [Subs -> Seq(Notes)] /\ due \in [Subs -> Seq(Notes)]
    BY <2>1 DEF Init
  <2>3. /\ notes \in 0 .. MaxNotes /\ exits \in 0 .. MaxExits
        /\ seen \in [Subs -> Nat]
    BY DEF Init
  <2> QED
    BY <2>2, <2>3 DEF Init, TypeOK
<1>2. Shapes /\ TablesFit /\ OneListens /\ Served /\ OverFreesTheChannel
  BY ChannelsOf DEF Init, Shapes, ShapeOf, TablesFit, OneListens, Listening, Alive, Served,
     ServedStream, ServedKind, OverFreesTheChannel, Registered, Bound, Swept
<1>3. Reads
  <2> SUFFICES ASSUME NEW s \in Subs
               PROVE  ReadsFit(s) /\ OwnParts(s) /\ Complete(s)
    BY DEF Reads
  <2>1. /\ ctx[s] = None /\ queue[s] = << >> /\ taken[s] = << >>
        /\ got[s] = << >> /\ due[s] = << >>
    BY DEF Init
  <2>2. IsPrefix(<< >>, << >>)
    BY DEF IsPrefix
  <2> QED
    BY <2>1, <2>2 DEF ReadsFit, OwnParts, Complete, Received
<1> QED
  BY <1>1, <1>2, <1>3 DEF IInv

LEMMA StutterInv ==
  ASSUME IInv, UNCHANGED vars
  PROVE  IInv'
<1> USE DEF IInv, vars, stream, reading, maps, net, owner
<1>1. TypeOK'
  BY DEF TypeOK
<1>2. Shapes' /\ TablesFit' /\ OneListens'
  BY DEF Shapes, ShapeOf, Bound, TablesFit, OneListens, Listening
<1>3. Served' /\ OverFreesTheChannel'
  BY DEF Served, ServedStream, ServedKind, OverFreesTheChannel, Registered, Bound, Swept, Alive
<1>4. Reads'
  BY DEF Reads, ReadsFit, OwnParts, Complete, Received, Registered, Swept
<1> QED
  BY <1>1, <1>2, <1>3, <1>4

LEMMA NextInv ==
  ASSUME IInv, [Next]_vars
  PROVE  IInv'
<1>1. ASSUME NEW s \in Subs, NEW k \in Kinds, Refuse(s, k) \/ Subscribe(s, k)
      PROVE  IInv'
  BY <1>1, RefuseStep, SubscribeStep
<1>2. ASSUME NEW s \in Subs,
             \/ Connected(s) \/ Reconnect(s) \/ ConnectFails(s)
             \/ Request(s) \/ Acknowledged(s) \/ RequestDropped(s) \/ RequestCancelled(s)
      PROVE  IInv'
  BY <1>2, ConnectedStep, ReconnectStep, ConnectFailsStep, RequestStep, AcknowledgedStep,
     RequestDroppedStep, RequestCancelledStep
<1>3. ASSUME NEW s \in Subs,
             \/ ReadAtOnce(s) \/ StartRead(s) \/ Take(s) \/ InnerDone(s)
             \/ WakeItem(s) \/ Settled(s) \/ CancelSettle(s)
             \/ WakeEnd(s) \/ WakeDropped(s) \/ CancelRead(s)
      PROVE  IInv'
  BY <1>3, ReadAtOnceStep, StartReadStep, TakeStep, InnerDoneStep, WakeItemStep, SettledStep,
     CancelSettleStep, WakeEndStep, WakeDroppedStep, CancelReadStep
<1>4. ASSUME NEW s \in Subs, Unsubscribe(s) \/ Unsubscribed(s) \/ UnsubscribeFails(s)
      PROVE  IInv'
  BY <1>4, UnsubscribeStep, UnsubscribedStep, UnsubscribeFailsStep
<1>5. ASSUME NEW c \in Conns, NEW k \in Kinds, Notify(c, k) \/ ServerStops(c, k)
      PROVE  IInv'
  BY <1>5, NotifyStep, ServerStopsStep
<1>6. ASSUME NEW c \in Conns, Falter(c) \/ ListenerEnds(c)
      PROVE  IInv'
  BY <1>6, FalterStep, ListenerEndsStep
<1>7. ASSUME Exit \/ Left \/ CancelExit
      PROVE  IInv'
  BY <1>7, ExitStep, LeftStep, CancelExitStep
<1> QED
  BY <1>1, <1>2, <1>3, <1>4, <1>5, <1>6, <1>7, StutterInv DEF Next

\* The inductive invariant holds of every behaviour.
THEOREM Invariance == Spec => []IInv
<1>1. Init => IInv
  BY InitInv
<1>2. IInv /\ [Next]_vars => IInv'
  BY NextInv
<1> QED
  BY <1>1, <1>2, PTL DEF Spec

\* Every variable keeps its type.
THEOREM TypeCorrect == Spec => []TypeOK
<1>1. IInv => TypeOK
  BY DEF IInv
<1> QED
  BY <1>1, Invariance, PTL

\* `subscriptions` names no stream that is over, failed or unsubscribed: each
\* way a subscription ends but CancelSettle, a reader cancelled in the `gather`
\* of the `finally`, passes through `forget`, and none registers it again.
THEOREM FreesTheChannel == Spec => []OverFreesTheChannel
<1>1. IInv => OverFreesTheChannel
  BY DEF IInv
<1> QED
  BY <1>1, Invariance, PTL

LEMMA InARow ==
  \A x, y, z \in Seq(Notes) : (x \o y) \o z = x \o (y \o z)
OBVIOUS

\* A consumer is given what arrived for its subscription, in that order and
\* from the start, and all of it is given or waiting while it is registered.
THEOREM NothingIsLost == Spec => []NothingLostOrReordered
<1>1. ASSUME IInv
      PROVE  NothingLostOrReordered
  <2> SUFFICES ASSUME NEW s \in Subs, ~Swept(s)
               PROVE  /\ IsPrefix(got[s], due[s])
                      /\ Registered(s) /\ ctx[s] # None => Received(s) = due[s]
    BY DEF NothingLostOrReordered
  <2>1. Complete(s) /\ TypeOK
    BY <1>1 DEF IInv, Reads
  <2>2. got[s] \in Seq(Notes) /\ taken[s] \in Seq(Notes) /\ queue[s] \in Seq(Notes)
    BY <2>1 DEF TypeOK
  <2>3. due[s] \in Seq(Notes) /\ taken[s] \o queue[s] \in Seq(Notes)
    BY <2>1, <2>2 DEF TypeOK
  <2>4. (got[s] \o taken[s]) \o queue[s] = got[s] \o (taken[s] \o queue[s])
    BY <2>2, InARow, Zenon
  <2>5. IsPrefix(got[s] \o (taken[s] \o queue[s]), due[s])
    BY <2>1, <2>4 DEF Complete, Received
  <2>6. IsPrefix(got[s], due[s])
    BY <2>2, <2>3, <2>5, PrefixOfAll
  <2> QED
    BY <2>1, <2>6 DEF Complete
<1> QED
  BY <1>1, Invariance, PTL

\* Every notification of q came over connection x.
AllFrom(q, x) == \A i \in DOMAIN q : q[i].conn = x

\* What is said of all notifications of three queues is true of them in a row.
LEMMA AllInARow ==
  \A x : \A g, t, q \in Seq(Notes) :
    AllFrom(g, x) /\ AllFrom(t, x) /\ AllFrom(q, x) => AllFrom(g \o t \o q, x)
<1> SUFFICES ASSUME NEW x, NEW g \in Seq(Notes), NEW t \in Seq(Notes), NEW q \in Seq(Notes),
                    AllFrom(g, x), AllFrom(t, x), AllFrom(q, x)
             PROVE  AllFrom(g \o t \o q, x)
  OBVIOUS
<1> USE DEF AllFrom
<1> DEFINE h == g \o t
<1>1. h \in Seq(Notes) /\ Len(h) = Len(g) + Len(t)
  OBVIOUS
<1>2. \A i \in 1 .. Len(h) : h[i] = IF i <= Len(g) THEN g[i] ELSE t[i - Len(g)]
  OBVIOUS
<1>3. \A i \in 1 .. Len(h) : h[i].conn = x
  BY <1>1, <1>2
<1> HIDE DEF h
<1>4. DOMAIN (h \o q) = 1 .. Len(h) + Len(q)
  <2>1. ASSUME NEW y \in Seq(Notes)
        PROVE  y \o q \in Seq(Notes) /\ Len(y \o q) = Len(y) + Len(q)
    OBVIOUS
  <2>3. h \o q \in Seq(Notes) /\ Len(h \o q) = Len(h) + Len(q)
    BY <1>1, <2>1, Zenon
  <2>2. \A z \in Seq(Notes) : DOMAIN z = 1 .. Len(z)
    OBVIOUS
  <2> QED
    BY <2>2, <2>3
<1>5. \A i \in 1 .. Len(h) + Len(q) : (h \o q)[i] = IF i <= Len(h) THEN h[i] ELSE q[i - Len(h)]
  BY <1>1
<1>6. \A i \in DOMAIN (h \o q) : (h \o q)[i].conn = x
  BY <1>1, <1>3, <1>4, <1>5
<1> QED
  BY <1>6 DEF h

\* All that is queued for a subscription or was given to its consumer came over
\* the connection the subscription belongs to, whoever else listens.
THEOREM OfItsOwnConnection == Spec => []OwnConnectionOnly
<1>1. ASSUME IInv
      PROVE  OwnConnectionOnly
  <2> SUFFICES ASSUME NEW s \in Subs, ~Swept(s)
               PROVE  \A i \in DOMAIN Received(s) : Received(s)[i].conn = ctx[s]
    BY DEF OwnConnectionOnly
  <2>1. OwnParts(s) /\ TypeOK
    BY <1>1 DEF IInv, Reads
  <2>2. got[s] \in Seq(Notes) /\ taken[s] \in Seq(Notes) /\ queue[s] \in Seq(Notes)
    BY <2>1 DEF TypeOK
  <2>3. AllFrom(got[s], ctx[s]) /\ AllFrom(taken[s], ctx[s]) /\ AllFrom(queue[s], ctx[s])
    <3>1. ASSUME NEW z \in Seq(Notes), \A i \in 1 .. Len(z) : z[i].conn = ctx[s]
          PROVE  AllFrom(z, ctx[s])
      BY <3>1 DEF AllFrom
    <3>2. /\ \A i \in 1 .. Len(got[s]) : got[s][i].conn = ctx[s]
          /\ \A i \in 1 .. Len(taken[s]) : taken[s][i].conn = ctx[s]
          /\ \A i \in 1 .. Len(queue[s]) : queue[s][i].conn = ctx[s]
      BY <2>1 DEF OwnParts
    <3> QED
      BY <2>2, <3>1, <3>2, Zenon
  <2>4. AllFrom(Received(s), ctx[s])
    BY <2>2, <2>3, AllInARow, Zenon DEF Received
  <2> QED
    BY <2>4 DEF AllFrom
<1> QED
  BY <1>1, Invariance, PTL

\* The queue of a stream leaves the table when that stream is over, fails or is
\* unsubscribed, or with everything when the owner leaves: `forget` never takes
\* the queue of a newer subscription to the same channel.
THEOREM ForgetsOnly == Spec => ForgetsOnlyItself
<1> DEFINE Fits(s) == Registered(s) /\ ~Registered(s)' =>
                        \/ pc'[s] = "over" \/ un'[s] = "finished"
                        \/ exits' # exits
                        \/ (leaving /\ ~leaving')
<1>0. ASSUME IInv, NEW s \in Subs, NEW r \in Subs, kind[r] # None, Forget(r), kind' = kind,
             s # r
      PROVE  Fits(s)
  <2>1. table' = [c \in Channels |-> IF table[c] = r THEN None ELSE table[c]]
    BY <1>0, ForgetsOwn
  <2> QED
    BY <1>0, <2>1, ChannelsOf DEF Registered, IInv, TypeOK
<1>1. ASSUME IInv, [Next]_vars, NEW s \in Subs
      PROVE  Fits(s)
  <2> USE <1>1 DEF stream, reading, maps, net, owner
  <2>1. ASSUME NEW r \in Subs, NEW k \in Kinds, Refuse(r, k) \/ Subscribe(r, k)
        PROVE  Fits(s)
    BY <2>1, ChannelsOf DEF Refuse, Subscribe, Registered, IInv, TypeOK, Shapes, ShapeOf
  <2>2. ASSUME NEW r \in Subs,
               ConnectFails(r) \/ RequestDropped(r) \/ RequestCancelled(r) \/ WakeDropped(r) \/ CancelRead(r)
        PROVE  Fits(s)
    <3>1. kind[r] # None /\ kind' = kind /\ Forget(r) /\ pc' = [pc EXCEPT ![r] = "over"]
      BY <2>2 DEF ConnectFails, RequestDropped, RequestCancelled, WakeDropped, CancelRead, Stop,
                  IInv, Shapes, ShapeOf
    <3>2. CASE s = r
      BY <3>1, <3>2 DEF IInv, TypeOK
    <3> QED
      BY <1>0, <3>1, <3>2
  <2>3. ASSUME NEW r \in Subs, Unsubscribe(r) \/ Unsubscribed(r) \/ UnsubscribeFails(r)
        PROVE  Fits(s)
    <3>1. kind' = kind /\ (table' = table \/ (Forget(r) /\ un' = [un EXCEPT ![r] = "finished"]))
      BY <2>3 DEF Unsubscribe, Unsubscribed, UnsubscribeFails
    <3>2. kind[r] # None
      BY <2>3 DEF Unsubscribe, Unsubscribed, UnsubscribeFails, Streaming, IInv, Shapes, ShapeOf
    <3>3. CASE s = r
      BY <3>1, <3>3 DEF IInv, TypeOK, Registered
    <3>4. CASE table' = table
      BY <3>1, <3>4 DEF Registered
    <3> QED
      BY <1>0, <3>1, <3>2, <3>3, <3>4
  <2>4. CASE Exit \/ Left \/ CancelExit
    BY <2>4 DEF Exit, Left, CancelExit, Registered, IInv, TypeOK
  <2>5. CASE kind' = kind /\ table' = table
    BY <2>5 DEF Registered
  <2> QED
    BY <2>1, <2>2, <2>3, <2>4, <2>5 DEF Next, vars, Connected, Reconnect, Request, Acknowledged,
       ReadAtOnce, StartRead, Take, InnerDone, WakeItem, Settled, CancelSettle, WakeEnd, Notify,
       ServerStops, Falter, ListenerEnds, Stop
<1>2. IInv /\ [Next]_vars => [\A s \in Subs : Fits(s)]_vars
  BY <1>1
<1> QED
  BY <1>2, Invariance, PTL DEF Spec, ForgetsOnlyItself

=============================================================================
