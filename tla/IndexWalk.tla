----------------------------- MODULE IndexWalk ------------------------------
(***************************************************************************)
(* One page of a `page`, `offset` or `token` walk, as the generators of    *)
(* Python, Go, Rust and TypeScript render it.  The state of an index walk  *)
(* is the index itself, that of a token walk the cursor the venue gave.    *)
(*                                                                         *)
(* A walk w declares what ends it, `done`: a page of no rows ("empty"), a  *)
(* page shorter than the size ("short_page"), a `total` that counts        *)
(* "pages" or "items", or a cursor that is absent.  `strict` marks the     *)
(* TypeScript walkers, which alone still demand one `total` of every page. *)
(***************************************************************************)
EXTENDS PageSize

\* Every index walk starts at its first page, or at row 0.
FirstIndex(w) == IF w.strategy = "page" THEN w.first ELSE 0

\* What is covered once the page at `index` is in, against a total of items.
ItemsReached(w, size, index, held, total) ==
  \/ w.strategy = "offset" /\ index + held >= total
  \/ /\ w.strategy = "page" /\ size # None
     /\ (index - w.first + 1) * size >= total

\* And against a total of pages: an offset walk counts the page it started
\* in, and counts none when it does not know the size.  TypeScript divides by
\* 1 when the endpoint declares no size at all.
PagesReached(w, size, index, total) ==
  LET unit == IF w.strict /\ ~w.sized THEN 1 ELSE size
  IN  \/ w.strategy = "page" /\ index - w.first + 1 >= total
      \/ /\ w.strategy = "offset" /\ unit # None
         /\ (index \div unit) + 1 >= total

TotalReached(w, size, index, held, total) ==
  IF w.counts = "pages" THEN PagesReached(w, size, index, total)
  ELSE ItemsReached(w, size, index, held, total)

\* Mutant: an offset walk relies on its total alone.
ReadsEmptyOfPages(w) == w.strategy = "page" \/ w.done # "total"

\* TypeScript reads no empty page where a total is all it needs: nowhere in
\* a total of pages, nor in a page walk whose size has a default.
ReadsEmpty(w) ==
  \/ ~w.strict \/ w.done # "total"
  \/ w.counts = "items" /\ (w.strategy = "offset" \/ w.default = None)

IndexDone(w, size, index, held, total) ==
  \/ held = 0 /\ ReadsEmpty(w)
  \/ w.done = "short_page" /\ size # None /\ held < size
  \/ /\ w.done = "total" /\ total # None
     /\ TotalReached(w, size, index, held, total)

\* A page number steps by one, an offset by the rows the page held.
NextIndex(w, index, held) == IF w.strategy = "page" THEN index + 1 ELSE index + held

\* The TypeScript check of `total` against the one an earlier page gave.
TotalRefused(w, seen, total) ==
  w.strict /\ w.done = "total" /\ (total = None \/ seen \notin {None, total})

\* A token walk ends when the reply carries no cursor, and one declared
\* "empty" also on a page of no rows.
TokenDone(w, held, cursor) == cursor = None \/ (w.done = "empty" /\ held = 0)
=============================================================================
