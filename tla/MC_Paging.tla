----------------------------- MODULE MC_Paging ------------------------------
(***************************************************************************)
(* Paging over at most four rows of four keys, or five where an index or a *)
(* token counts them.  Every unique collection is a set of keys; a key of  *)
(* one that is not unique holds one row, two, or two of the same content.  *)
(* Pages hold two rows but where a walk asks otherwise, so that walks of   *)
(* several pages are the normal case.                                      *)
(***************************************************************************)
EXTENDS Paging

Row(key, tag) == [key |-> key, at |-> (key + 1) \div 2, tag |-> tag]
RowsOf(keys, tag) ==
  LET Ordered == SetToSortSeq(keys, LAMBDA a, b : a < b)
  IN  [i \in DOMAIN Ordered |-> Row(Ordered[i], tag)]

Fills == {<<>>, <<"a">>, <<"a", "b">>, <<"a", "a">>}
FillRows(fill, key) == [i \in DOMAIN fill |-> Row(key, fill[i])]

Singles == {RowsOf(keys, "a") : keys \in SUBSET (1..4)}
Crowds == {FillRows(x, 1) \o FillRows(y, 2) \o FillRows(z, 3) :
             x, y \in Fills, z \in {<<>>, <<"a">>}}
MCRows == {Row(key, tag) : key \in 1..5, tag \in {"a", "b"}}
MCArrivals == {Row(key, "b") : key \in 1..4}
MCCollections(w) ==
  IF ~w.unique THEN Crowds
  ELSE IF w.strategy = "seek" THEN Singles
  ELSE {RowsOf(1..n, "a") : n \in 0..5}

\* The loop that drops the carried rows one by one, as the code has it: it
\* leaves what Unmatched says it leaves.
DropEach(carried, rows) ==
  FoldLeft(LAMBDA acc, row :
             IF Contains(acc.remaining, row)
             THEN [acc EXCEPT !.remaining = RemoveFirst(@, row)]
             ELSE [acc EXCEPT !.fresh = Append(@, row)],
           [fresh |-> <<>>, remaining |-> carried], rows)
ASSUME FreshByContentIsTheLoop ==
  \A carried \in {FillRows(x, 1) : x \in Fills}, rows \in Crowds :
    FreshByContent(carried, rows) = DropEach(carried, rows)

-----------------------------------------------------------------------------
(* Seek walks.                                                             *)

Plain == [strategy |-> "seek", unique |-> TRUE, ordered |-> TRUE,
          descending |-> FALSE, reversed |-> FALSE,
          ask |-> None, maximum |-> None, default |-> None, limit |-> 2,
          start |-> None, far |-> None, span |-> None, until |-> None,
          nearIncluded |-> TRUE, farIncluded |-> TRUE, live |-> TRUE]

\* No size and none declared, a declared default, a size of one, one over
\* its maximum, one as it is, and a maximum of one.
Sized(w) == {w,
  [w EXCEPT !.default = 2],
  [w EXCEPT !.ask = 1],
  [w EXCEPT !.ask = 3, !.maximum = 2],
  [w EXCEPT !.ask = 3],
  [w EXCEPT !.ask = 1, !.maximum = 1]}

\* Forwards, and backwards over a page listed either way.
Directed(w) == {w,
  [w EXCEPT !.descending = TRUE],
  [w EXCEPT !.descending = TRUE, !.reversed = TRUE]}

Bounded(w) ==
  {[w EXCEPT !.start = start, !.far = far, !.nearIncluded = near] :
     start \in IF w.descending THEN {None, 3} ELSE {None, 2},
     far \in IF w.descending THEN {None, 2} ELSE {None, 3},
     near \in BOOLEAN}

Spanned(w) ==
  {[w EXCEPT !.start = IF w.descending THEN 4 ELSE 1,
             !.far = IF w.descending THEN 1 ELSE 4,
             !.span = span, !.nearIncluded = ends[1], !.farIncluded = ends[2]] :
     span \in 1..2, ends \in {<<TRUE, TRUE>>, <<TRUE, FALSE>>, <<FALSE, TRUE>>}}

Kept(w) == {[w EXCEPT !.start = start, !.until = until, !.nearIncluded = near] :
              start \in {None, 2}, until \in 1..2, near \in BOOLEAN}

Sizes == Sized(Plain)
UniqueWalks == UNION {UNION {Bounded(d) : d \in Directed(w)} : w \in Sizes}
BothWays(w) == {w, [w EXCEPT !.descending = TRUE]}
SpanWalks == UNION {UNION {Spanned(d) : d \in BothWays(w)} : w \in Sizes}
UntilWalks == UNION {UNION {Kept(d) : d \in BothWays(w)} : w \in Sizes}
StringWalks == {[w EXCEPT !.ordered = FALSE, !.descending = d] : w \in Sizes, d \in BOOLEAN}
CrowdWalks ==
  {[w EXCEPT !.unique = FALSE] :
     w \in UNION {UNION {Bounded(d) : d \in Directed(s)} :
                    s \in {s \in Sizes : Cap(s.ask, s.maximum, s.default) # None}}}

-----------------------------------------------------------------------------
(* Walks by index and by token.                                            *)

Index == [strategy |-> "page", unique |-> TRUE, done |-> "empty", counts |-> "items",
          first |-> 1, sized |-> TRUE, ask |-> None, maximum |-> None,
          default |-> None, limit |-> 2, strict |-> FALSE, unstated |-> FALSE,
          live |-> TRUE]
Measured(w) == Sized(w) \union {[w EXCEPT !.sized = FALSE]}
Ended(w) ==
  {[w EXCEPT !.done = done] : done \in {"empty", "short_page"}} \union
  {[w EXCEPT !.done = "total", !.counts = counts, !.strict = strict, !.unstated = unstated] :
     counts \in {"pages", "items"}, strict, unstated \in BOOLEAN}
IndexWalks ==
  {[w EXCEPT !.strategy = strategy] :
     strategy \in {"page", "offset"}, w \in UNION {Ended(a) : a \in Measured(Index)}}
TokenWalks == {[Index EXCEPT !.strategy = "token", !.done = done] :
                 done \in {"absent_cursor", "empty"}}

MCWalks == UniqueWalks \union SpanWalks \union UntilWalks \union StringWalks
           \union CrowdWalks \union IndexWalks \union TokenWalks
=============================================================================
