------------------------------ MODULE PageSize ------------------------------
(***************************************************************************)
(* The page sizes a generated `..._paged` method asks the venue for and    *)
(* measures a page against.  `None` is a value left out: a size the caller *)
(* omits, a maximum or a default the spec does not declare.                *)
(***************************************************************************)
EXTENDS Integers

CONSTANT None

\* The size the venue honours: the caller's, at most the schema's `maximum`.
AtMost(size, maximum) ==
  IF maximum # None /\ size > maximum THEN maximum ELSE size

\* An index walk compares pages with the caller's size so clamped, with the
\* documented default when the caller omits it, and with nothing otherwise.
IndexSize(ask, maximum, default) ==
  IF ask # None THEN AtMost(ask, maximum)
  ELSE IF default # None THEN AtMost(default, maximum)
  ELSE None

\* Mutant: no floor, as the walkers were before TRU-56.
SeekSizeUnfloored(ask, maximum) ==
  IF ask = None THEN None ELSE AtMost(ask, maximum)

\* A seek walk sends the clamped size itself, and at least 2 rows unless the
\* maximum forbids it: a page must hold one row beside the one it re-reads.
SeekSize(ask, maximum) ==
  IF ask = None THEN None ELSE AtMost(IF ask < 2 THEN 2 ELSE ask, maximum)

\* The row count of a full page of a seek walk; None when nothing says.
Cap(ask, maximum, default) ==
  IF ask # None THEN SeekSize(ask, maximum) ELSE default
=============================================================================
