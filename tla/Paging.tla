------------------------------- MODULE Paging -------------------------------
(***************************************************************************)
(* A walk over a collection the venue goes on changing: `pages()` calls    *)
(* `next(state)`, yields the rows, and goes on from the state returned.    *)
(* `next` is one request and the pure fold of Seek or IndexWalk over the   *)
(* page that came back, so one action stands for both.                     *)
(*                                                                         *)
(* The venue is the environment: it serves a page of what it holds at that *)
(* moment, and rows appear, go and change between two requests.            *)
(***************************************************************************)
EXTENDS Seek, IndexWalk

CONSTANTS
  Walks,        \* the walks: what a declaration and a caller's arguments fix
  Rows,         \* the rows that may ever exist
  Collections(_),  \* what the venue may hold when such a walk begins
  Arrivals,     \* the rows that may appear during a walk
  MaxChanges,   \* bound: changes of the collection
  MaxRestarts   \* bound: whole walks begun again on the same response

VARIABLES
  walk,      \* the walk being run, a member of Walks
  venue,     \* the rows the venue holds, in the order it lists them
  state,     \* the state `next` is called with
  totalSeen, \* the closure variable of a TypeScript `page` walker
  yielded,   \* every row handed to the caller by this walk
  status,    \* "walking", "done" or "refused" (a LogicError)
  turn,      \* flips with every request, so one that changes nothing shows
  held,      \* history: every collection the venue held during this walk
  changes,   \* history: changes made so far
  restarts   \* history: restarts made so far

\* The venue lists its rows by key.
Sorted(rows) == \A i, j \in DOMAIN rows : i < j => rows[i].key <= rows[j].key
Positive == Nat \ {0}

ASSUME RowsAssumption ==
  /\ None \notin Int
  /\ \A row \in Rows : row.key \in Int /\ row.at \in Int
  /\ Arrivals \subseteq Rows

(***************************************************************************)
(* What the declarations that pass `truewire check` say truly of a venue:  *)
(* it serves the size it is sent up to the declared maximum, and its own   *)
(* (`limit`) as declared when it is sent none.  A cursor that is not       *)
(* unique has a cap; a walk without one needs pages of two rows; a span    *)
(* has both bounds, and one of them included, or the row at the edge of    *)
(* two requests is in neither; a string key is listed in walking order;    *)
(* the field `until` is kept on never goes back as the cursor advances.  A *)
(* token goes on where the last page ended, so its rows are told apart.    *)
(***************************************************************************)
ASSUME WalksAssumption == \A w \in Walks :
  /\ w.strategy \in {"seek", "page", "offset", "token"}
  /\ \A c \in Collections(w) :
       /\ c \in Seq(Rows) /\ Sorted(c)
       /\ w.unique => IsInjective([i \in DOMAIN c |-> c[i].key])
  /\ w.limit \in Positive /\ w.maximum \in Positive \union {None}
  /\ w.ask \in Int \union {None} /\ w.default \in {None, w.limit}
  /\ None \in {w.ask, w.maximum} => w.maximum = None \/ w.limit <= w.maximum
  /\ w.strategy = "seek" =>
       /\ {w.start, w.far, w.until} \subseteq Int \union {None}
       /\ ~w.unique => Cap(w.ask, w.maximum, w.default) # None
       /\ w.limit > 1
       /\ w.span # None => /\ w.span \in Positive /\ None \notin {w.start, w.far}
                           /\ w.nearIncluded \/ w.farIncluded
                           /\ w.until = None
       /\ w.ordered \/ ~w.reversed
       /\ w.until # None =>
            \A row, other \in Rows : row.key <= other.key => row.at <= other.at
  /\ w.strategy \in {"page", "offset"} =>
       /\ w.first \in Int /\ w.ask \in Positive \union {None}
       /\ w.counts \in {"pages", "items"}
       /\ ~w.sized => w.ask = None /\ w.maximum = None /\ w.default = None
  /\ w.strategy = "token" => w.unique /\ w.ask \in Positive \union {None}

vars == <<walk, venue, state, totalSeen, yielded, status, turn, held, changes, restarts>>

Indexed(w) == w.strategy \in {"page", "offset"}

-----------------------------------------------------------------------------
(* What a request asks for, and what the venue serves.                     *)

\* A seek walk sends its clamped size, every other walk the caller's own.
Sent(w) == IF w.strategy = "seek" THEN SeekSize(w.ask, w.maximum) ELSE w.ask
\* The page size the venue honours: what is sent, at most its maximum.
Limit(w) == AtMost(IF Sent(w) = None THEN w.limit ELSE Sent(w), w.maximum)

Page(w, rows) == SubSeq(rows, 1, IF Len(rows) < Limit(w) THEN Len(rows) ELSE Limit(w))

\* A bound the request does not send bounds nothing.
From(w, pos, key) == pos = None \/ Beyond(w, key, pos) \/ (w.nearIncluded /\ key = pos)
UpTo(w, edge, key) == edge = None \/ Beyond(w, edge, key) \/ (w.farIncluded /\ key = edge)

\* What one request of a seek walk sends.  The exclusive parameters go with
\* the first only, while the walk has no position of its own.
SeekRequest(w, pos) ==
  [near  |-> pos,
   far   |-> IF w.span # None THEN Edge(w, pos) ELSE w.far,
   until |-> IF pos = None THEN w.until ELSE None]

\* The rows it asks for.
Asked(w, request, row) ==
  /\ From(w, request.near, row.key) /\ UpTo(w, request.far, row.key)
  /\ request.until # None => ~Past(w, row)

\* The page it gets, from the end of the range the venue anchors to.
SeekPage(w, rows, request) ==
  LET line == IF w.descending THEN Reverse(rows) ELSE rows
      page == Page(w, Select(line, {i \in DOMAIN line : Asked(w, request, line[i])}))
  IN  IF w.reversed THEN Reverse(page) ELSE page

IndexPage(w, rows, index) ==
  LET skipped == IF w.strategy = "page" THEN (index - w.first) * Limit(w) ELSE index
  IN  Page(w, SubSeq(rows, skipped + 1, Len(rows)))

\* A cursor is the key of the last row served; none is served with the last
\* rows, except by a venue whose walk only ends on an empty page.
TokenPage(w, rows, cursor) ==
  Page(w, Select(rows, {i \in DOMAIN rows : cursor = None \/ rows[i].key > cursor}))
CursorAfter(w, rows, cursor) ==
  LET page == TokenPage(w, rows, cursor)
  IN  IF page = <<>> THEN IF w.done = "empty" THEN cursor ELSE None
      ELSE IF w.done = "empty" \/ Last(page) # Last(rows) THEN Last(page).key
      ELSE None

Total(w, rows) ==
  IF w.unstated THEN None
  ELSE IF w.counts = "pages" THEN (Len(rows) + Limit(w) - 1) \div Limit(w)
  ELSE Len(rows)

-----------------------------------------------------------------------------
Start(w) ==
  IF w.strategy = "seek" THEN [pos |-> w.start, carried |-> <<>>]
  ELSE IF w.strategy = "token" THEN None
  ELSE FirstIndex(w)

Init ==
  /\ walk \in Walks
  /\ venue \in Collections(walk)
  /\ state = Start(walk)
  /\ totalSeen = None /\ yielded = <<>> /\ status = "walking" /\ turn = 0
  /\ held = {venue} /\ changes = 0 /\ restarts = 0

\* `next(state)` returned rows and a state, no state, or raised.
Continue(rows, following) ==
  /\ turn' = 1 - turn
  /\ yielded' = yielded \o rows /\ state' = following
  /\ UNCHANGED <<walk, venue, status, held, changes, restarts>>
Finish(rows) ==
  /\ turn' = 1 - turn
  /\ yielded' = yielded \o rows /\ status' = "done"
  /\ UNCHANGED <<walk, venue, state, held, changes, restarts>>
Refuse(rows) ==
  /\ turn' = 1 - turn
  /\ yielded' = yielded \o rows /\ status' = "refused"
  /\ UNCHANGED <<walk, venue, state, totalSeen, held, changes, restarts>>

\* One page of a `seek` walk.
SeekNext ==
  /\ status = "walking" /\ walk.strategy = "seek"
  /\ LET page == SeekPage(walk, venue, SeekRequest(walk, state.pos))
         step == SeekStep(walk, state, page)
     IN  \/ step.kind = "more" /\ Continue(step.rows, step.next)
         \/ step.kind = "done" /\ Finish(step.rows)
         \/ step.kind = "refused" /\ Refuse(<<>>)
  /\ UNCHANGED totalSeen

\* One page of an index walk.  A TypeScript offset walk is a generator that
\* yields the page before it looks at the total.
IndexPageRead ==
  LET page  == IndexPage(walk, venue, state)
      total == Total(walk, venue)
      size  == IndexSize(walk.ask, walk.maximum, walk.default)
  IN  IF TotalRefused(walk, totalSeen, total)
      THEN Refuse(IF walk.strategy = "offset" THEN page ELSE <<>>)
      ELSE /\ totalSeen' = IF walk.strict THEN total ELSE None
           /\ IF IndexDone(walk, size, state, Len(page), total)
              THEN Finish(page)
              ELSE Continue(page, NextIndex(walk, state, Len(page)))
PageNext == status = "walking" /\ walk.strategy = "page" /\ IndexPageRead
OffsetNext == status = "walking" /\ walk.strategy = "offset" /\ IndexPageRead

\* One page of a `token` walk.
TokenNext ==
  /\ status = "walking" /\ walk.strategy = "token"
  /\ LET page   == TokenPage(walk, venue, state)
         cursor == CursorAfter(walk, venue, state)
     IN  IF TokenDone(walk, Len(page), cursor) THEN Finish(page)
         ELSE Continue(page, cursor)
  /\ UNCHANGED totalSeen

\* The caller iterates the same response again.  A `page` walker's totalSeen
\* belongs to the response; an `offset` one is a generator, and starts anew.
Restart ==
  /\ status # "walking" /\ restarts < MaxRestarts /\ walk.strategy # "seek"
  /\ state' = Start(walk) /\ yielded' = <<>> /\ status' = "walking"
  /\ totalSeen' = IF walk.strategy = "page" THEN totalSeen ELSE None
  /\ held' = {venue} /\ restarts' = restarts + 1
  /\ UNCHANGED <<walk, venue, turn, changes>>

-----------------------------------------------------------------------------
(* The venue.                                                              *)

Become(rows) ==
  /\ changes < MaxChanges
  /\ walk.live /\ (status = "walking" \/ restarts < MaxRestarts)
  /\ venue' = rows /\ held' = held \union {rows} /\ changes' = changes + 1
  /\ UNCHANGED <<walk, state, totalSeen, yielded, status, turn, restarts>>

KeysOf(rows) == {rows[i].key : i \in DOMAIN rows}

\* A row appears in its place; a unique cursor field stays unique.
Appear == \E row \in Arrivals, n \in 1..Len(venue) + 1 :
  /\ walk.unique => row.key \notin KeysOf(venue)
  /\ \A i \in DOMAIN venue : venue[i].key <= row.key <=> i < n
  /\ Become(InsertAt(venue, n, row))
Withdraw == \E i \in DOMAIN venue : Become(RemoveAt(venue, i))
\* The row a walk is in the middle of changes, as an open candle does.
Amend == \E i \in DOMAIN venue, row \in Arrivals :
  /\ row.key = venue[i].key /\ row # venue[i]
  /\ Become([venue EXCEPT ![i] = row])

Next == SeekNext \/ PageNext \/ OffsetNext \/ TokenNext \/ Restart \/ Appear \/ Withdraw \/ Amend

Spec == Init /\ [][Next]_vars
\* A caller who awaits the whole walk asks for one page after another: this
\* is WF_vars(SeekNext \/ PageNext \/ OffsetNext \/ TokenNext), with what enables them (a
\* walk that goes on) and what tells them from the other actions written out.
FairSpec == Spec /\ ([]<>(status # "walking") \/ []<><<turn' # turn>>_vars)

-----------------------------------------------------------------------------
(* What a walk promises.                                                   *)

InRange(row) == walk.strategy = "seek" =>
  /\ From(walk, walk.start, row.key) /\ UpTo(walk, walk.far, row.key)
  /\ ~Past(walk, row)

\* Rows are told apart by key, and by content where the key is not unique.
Mark(row) == IF walk.unique THEN row.key ELSE row
Marks(rows) == {Mark(rows[i]) : i \in DOMAIN rows}
Copies(rows, mark) ==
  Cardinality({i \in DOMAIN rows : Mark(rows[i]) = mark /\ InRange(rows[i])})

\* An index counts rows, so only rows added at the end leave it right.
OnlyGrew == \A a, b \in held : IsPrefix(a, b) \/ IsPrefix(b, a)
Anchored == Indexed(walk) => OnlyGrew

\* A TypeScript offset walk up to a total of pages whose size is not known
\* divides by 1, or by undefined: nothing holds of where it ends.
Unmeasured ==
  /\ walk.strategy = "offset" /\ walk.strict
  /\ walk.done = "total" /\ walk.counts = "pages"
  /\ IndexSize(walk.ask, walk.maximum, walk.default) = None

\* A walk that ended handed over every row that was in the caller's range
\* all along, whatever else came, went or changed: pages overlap, chunks
\* meet, and no full page is taken for the last (ADR 0013, steps 2 to 5).
NothingSkipped ==
  status = "done" /\ Anchored /\ ~Unmeasured =>
    \A mark \in UNION {Marks(c) : c \in held} :
      \E c \in held : Copies(c, mark) <= Copies(yielded, mark)

\* No row is handed over more often than the venue ever held it: the rows
\* served again at the boundary of two pages are dropped, once each.
NothingTwice ==
  Anchored => \A mark \in Marks(yielded) :
    \E c \in held : Copies(yielded, mark) <= Copies(c, mark)

\* No row outside the caller's own bounds is handed over, even where the
\* venue refuses the far one and serves rows past it.
NothingOutside == \A i \in DOMAIN yielded : InRange(yielded[i])

\* The TypeScript walkers alone still demand one total of every page, and raise
\* when it is missing or moves under the walk, a check that ADR 0013 dropped.
TotalDemanded ==
  Indexed(walk) /\ walk.strict /\ (walk.unstated \/ Cardinality(held) > 1)
\* A `page` walker raises even where the total stood still under this iteration
\* and moved since an earlier one of the same response: `next` is not pure.
TotalLeftOver ==
  walk.strategy = "page" /\ walk.strict /\ restarts > 0 /\ changes > 0

\* A walk raises only for cause.  With a unique cursor: a maximum of one row
\* at a bound that is included.  With another: as many rows of one key as a
\* page holds, an excluded bound, or rows that changed on the way.  A walk by
\* index or by token has no cause at all to raise; what TypeScript raises for
\* its total is not deserved, and is excepted by name.
ErrorIsDeserved ==
  status = "refused" /\ ~TotalDemanded /\ ~TotalLeftOver =>
    /\ walk.strategy = "seek"
    /\ \/ walk.unique /\ walk.nearIncluded /\ walk.maximum = 1
       \/ /\ ~walk.unique
          /\ \/ ~walk.nearIncluded \/ Cardinality(held) > 1
             \/ \E key \in KeysOf(venue) : Len(At(venue, key)) >= PageCap(walk)

\* A walk asked for page after page ends: no bound is requested for ever.
EveryWalkEnds == status = "walking" /\ ~Unmeasured ~> status # "walking"
=============================================================================
