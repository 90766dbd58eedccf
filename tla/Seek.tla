-------------------------------- MODULE Seek --------------------------------
(***************************************************************************)
(* One page of a `seek` walk (ADR 0013), the fold that core-ts seek.ts,    *)
(* core-go seek.go, truewire-core paging.rs and every generated Python     *)
(* `..._paged` method share: a pure function from the walk's state and the *)
(* rows just fetched to the rows to yield and the state after them.        *)
(*                                                                         *)
(* A walk w declares `unique` and `ordered` of its cursor field, its       *)
(* direction, its page size, and the caller's bounds `far` (with a `span`) *)
(* and `until`.  A row has a cursor `key`, the field `at` that `until` is kept *)
(* on, and a `tag` standing for the rest of its content.                   *)
(***************************************************************************)
EXTENDS PageSize, FiniteSets, Sequences, SequencesExt

\* The rows at the indexes of I, in their order.
Select(rows, I) ==
  LET Nth(k) == CHOOSE i \in I : Cardinality({j \in I : j <= i}) = k
  IN  [k \in 1..Cardinality(I) |-> rows[Nth(k)]]

\* How many of the rows are equal to this one.
Count(rows, row) == Cardinality({i \in DOMAIN rows : rows[i] = row})

\* a lies past b in the walk's direction.
Beyond(w, a, b) == IF w.descending THEN a < b ELSE a > b

\* Mutant: the span edge runs past the caller's far bound.
EdgeUnclipped(w, pos) ==
  IF w.span = None THEN None
  ELSE IF w.descending THEN pos - w.span ELSE pos + w.span

\* The far bound of one request when a span is declared: the position moved
\* by the span, never past the caller's own far bound.
Edge(w, pos) ==
  LET shifted == IF w.descending THEN pos - w.span ELSE pos + w.span
  IN  IF w.span = None THEN None
      ELSE IF Beyond(w, shifted, w.far) THEN w.far ELSE shifted

\* Mutant: nothing is carried over.
AtNothing(rows, key) == <<>>

\* The rows that share one key.
At(rows, key) == Select(rows, {i \in DOMAIN rows : rows[i].key = key})

\* Rows whose key the carried rows do not have.
FreshByKey(carried, rows) ==
  LET known == {carried[i].key : i \in DOMAIN carried}
  IN  Select(rows, {i \in DOMAIN rows : rows[i].key \notin known})

\* The rows left when each of the others has absorbed one row equal to it.
Unmatched(rows, others) ==
  Select(rows, {i \in DOMAIN rows :
                  Count(SubSeq(rows, 1, i), rows[i]) > Count(others, rows[i])})

\* Rows left when every carried row has absorbed one equal row, and the
\* carried rows that found none.
FreshByContent(carried, rows) ==
  [fresh |-> Unmatched(rows, carried), remaining |-> Unmatched(carried, rows)]

\* Mutant: one carried row absorbs every row equal to it.
DedupAll(w, carried, rows) ==
  LET Lacking(a, b) == Select(a, {i \in DOMAIN a : ~Contains(b, a[i])})
  IN  IF w.unique
      THEN [fresh |-> FreshByKey(carried, rows), remaining |-> <<>>]
      ELSE [fresh |-> Lacking(rows, carried), remaining |-> Lacking(carried, rows)]

Dedup(w, carried, rows) ==
  IF w.unique
  THEN [fresh |-> FreshByKey(carried, rows), remaining |-> <<>>]
  ELSE FreshByContent(carried, rows)

\* A row lies past the far bound the walk keeps because the venue refuses it
\* beside the moving one (`exclusive.far`).
Past(w, row) == w.until # None /\ Beyond(w, row.at, w.until)
NotPast(w, rows) == Select(rows, {i \in DOMAIN rows : ~Past(w, rows[i])})

\* The furthest key of a page; the last row in wire order stands in for it
\* when the key is a string, which only compares for equality.
Extreme(w, rows) ==
  IF rows = <<>> THEN None
  ELSE IF ~w.ordered THEN Last(rows).key
  ELSE CHOOSE key \in {rows[i].key : i \in DOMAIN rows} :
         \A i \in DOMAIN rows : ~Beyond(w, rows[i].key, key)

\* The rows of a full page, when the walk knows.
PageCap(w) == Cap(w.ask, w.maximum, w.default)
Full(w, rows) == PageCap(w) # None /\ Len(rows) >= PageCap(w)

More(fresh, pos, carried) ==
  [kind |-> "more", rows |-> fresh, next |-> [pos |-> pos, carried |-> carried]]
Done(fresh) == [kind |-> "done", rows |-> fresh, next |-> None]
Refused == [kind |-> "refused", rows |-> <<>>, next |-> None]

\* The page `rows`, fetched from `pos` up to `edge`, once the carried rows
\* are accounted for and no row lies past `until`.
Advance(w, pos, edge, rows, fresh) ==
  LET extreme == Extreme(w, rows)
      moved   == extreme \notin {None, pos}
  IN  IF Full(w, rows)
      THEN IF moved THEN More(fresh, extreme, At(rows, extreme)) ELSE Refused
      ELSE IF PageCap(w) = None /\ moved
      THEN More(fresh, extreme, At(rows, extreme))
      ELSE IF edge = None \/ ~Beyond(w, w.far, edge)
      THEN Done(fresh)
      ELSE More(fresh, edge, At(rows, edge))

SeekStep(w, state, rows) ==
  LET deduped == Dedup(w, state.carried, rows)
      fresh   == deduped.fresh
  IN  IF deduped.remaining # <<>> THEN Refused
      ELSE IF \E i \in DOMAIN rows : Past(w, rows[i])
      THEN Done(NotPast(w, fresh))
      ELSE Advance(w, state.pos, Edge(w, state.pos), rows, fresh)
=============================================================================
