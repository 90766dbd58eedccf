---------------------------- MODULE Paging_proofs ----------------------------
(***************************************************************************)
(* Safety of Paging for any walks, collections and arrivals, any number of *)
(* changes of the collection and of restarts: a walk that ends has handed  *)
(* over every row that was there all along, none twice and none outside    *)
(* the caller's bounds; it raises only for cause, and every page moves it. *)
(*                                                                         *)
(* IInv is the inductive invariant.  A walk leaves behind it a part of the *)
(* collection that it will not read again (Behind, for a walk by key;      *)
(* Reached, for one by index): what lies there is settled, and what was    *)
(* handed over lies nowhere else.  At the position itself, the carried     *)
(* rows are what was handed over.                                          *)
(*                                                                         *)
(* A step of a walk is a pure function, so what it does is stated of any   *)
(* walk w, collections H, state st and rows y handed over; the invariant   *)
(* puts the variables in their place.                                      *)
(***************************************************************************)
EXTENDS Paging, Seek_lemmas

-----------------------------------------------------------------------------
(* The rows a walk does not tell apart, and what it promises of them.      *)

MarkOf(w, row) == IF w.unique THEN row.key ELSE row
Inside(w, row) == w.strategy = "seek" =>
  /\ From(w, w.start, row.key) /\ UpTo(w, w.far, row.key) /\ ~Past(w, row)

\* The rows in the caller's range that count as this one.
Kin(w, row) == {r \in Rows : MarkOf(w, r) = MarkOf(w, row) /\ Inside(w, r)}

\* Some collection held the row no more often than y does.
Settled(w, H, y, row) == \E c \in H : Tally(c, Kin(w, row)) <= Tally(y, Kin(w, row))
AllSettled(w, H, y) == \A row \in Rows : Settled(w, H, y, row)
NoneTwice(w, H, y) ==
  \A row \in Rows : \E c \in H : Tally(y, Kin(w, row)) <= Tally(c, Kin(w, row))
NoneOutside(w, y) == \A i \in DOMAIN y : Inside(w, y[i])

Chain(H) == \A a, b \in H : IsPrefix(a, b) \/ IsPrefix(b, a)

-----------------------------------------------------------------------------
(* The invariant.                                                          *)

Venue(w, rows) ==
  /\ rows \in Seq(Rows) /\ Sorted(rows)
  /\ w.unique => \A i, j \in DOMAIN rows : rows[i].key = rows[j].key => i = j

SeekStates == [pos : Int \union {None}, carried : Seq(Rows)]

TypeOK ==
  /\ walk \in Walks /\ Venue(walk, venue)
  /\ held \subseteq Seq(Rows) /\ IsFiniteSet(held) /\ venue \in held
  /\ yielded \in Seq(Rows)
  /\ status \in {"walking", "done", "refused"}
  /\ totalSeen \in Int \union {None} /\ changes \in Nat /\ restarts \in Nat
  /\ walk.strategy = "seek" => state \in SeekStates
  /\ walk.strategy = "token" => state \in Int \union {None}
  /\ Indexed(walk) => state \in Int

\* A key that a seek walk will not ask for again.
Behind(w, st, key) ==
  /\ st.pos # None
  /\ \/ Beyond(w, st.pos, key)
     \/ key = st.pos /\ ~w.nearIncluded /\ (w.unique \/ st.carried = <<>>)

SeekInv(w, H, st, y) ==
  /\ st.pos = None => st.carried = <<>> /\ y = <<>>
  /\ w.start # None => st.pos # None /\ ~Beyond(w, w.start, st.pos)
  /\ \A i \in DOMAIN st.carried : st.carried[i].key = st.pos /\ Inside(w, st.carried[i])
  /\ \E c \in H : \A row \in Rows : Count(st.carried, row) <= Count(c, row)
  /\ \A i \in DOMAIN y : ~Beyond(w, y[i].key, st.pos)
  /\ \A row \in Rows : row.key = st.pos => Tally(y, Kin(w, row)) = Tally(st.carried, Kin(w, row))
  /\ \A row \in Rows : Behind(w, st, row.key) => Settled(w, H, y, row)

TokenInv(w, H, cursor, y) ==
  /\ cursor = None => y = <<>>
  /\ \A i \in DOMAIN y : y[i].key <= cursor
  /\ cursor # None => \A row \in Rows : row.key <= cursor => Settled(w, H, y, row)

\* How many rows, from the first, the pages before this index stand for.
Reached(w, index) == IF w.strategy = "page" THEN (index - w.first) * Limit(w) ELSE index

IndexInv(w, H, index, y) ==
  /\ Reached(w, index) \in Nat
  /\ Chain(H) =>
       \E least, most \in H :
         /\ \A c \in H : IsPrefix(least, c) /\ IsPrefix(c, most)
         /\ Filled(y, least, most, Reached(w, index))

\* The total an earlier page gave is that of a collection this walk met; a
\* page walker may have it from an earlier iteration.
TotalInv ==
  totalSeen # None =>
    /\ walk.strategy = "offset" \/ restarts = 0 => \E c \in held : totalSeen = Total(walk, c)
    /\ walk.strategy = "page" /\ changes = 0 => totalSeen = Total(walk, venue)

Anchor == Indexed(walk) => Chain(held)

IInv ==
  /\ TypeOK
  /\ TotalInv
  /\ status = "walking" =>
       /\ walk.strategy = "seek" => SeekInv(walk, held, state, yielded)
       /\ walk.strategy = "token" => TokenInv(walk, held, state, yielded)
       /\ Indexed(walk) => IndexInv(walk, held, state, yielded)
  /\ NoneOutside(walk, yielded)
  /\ Anchor => NoneTwice(walk, held, yielded)
  /\ status = "done" /\ Anchor /\ ~Unmeasured => AllSettled(walk, held, yielded)
  /\ ErrorIsDeserved

-----------------------------------------------------------------------------
(* What the assumptions on the walks come to.                              *)

\* A venue serves at least one row, as many as a full page holds where the
\* walk knows that number, and two or more where it does not.
LEMMA Limits ==
  ASSUME NEW w \in Walks
  PROVE  /\ Limit(w) \in Positive
         /\ w.strategy = "seek" =>
              /\ PageCap(w) # None => PageCap(w) = Limit(w)
              /\ PageCap(w) = None => w.unique /\ Limit(w) > 1
              /\ Limit(w) = 1 => w.maximum = 1
<1>1. None \notin Int
  BY RowsAssumption
<1>2. /\ w.limit \in Positive /\ w.maximum \in Positive \union {None}
      /\ w.ask \in Int \union {None} /\ w.default \in {None, w.limit}
      /\ None \in {w.ask, w.maximum} => w.maximum = None \/ w.limit <= w.maximum
      /\ w.strategy \in {"seek", "page", "offset", "token"}
  BY WalksAssumption
<1>3. CASE w.strategy = "seek"
  <2>1. /\ ~w.unique => Cap(w.ask, w.maximum, w.default) # None
        /\ w.limit > 1
    BY <1>3, WalksAssumption
  <2> QED
    BY <1>1, <1>2, <1>3, <2>1 DEF Limit, Sent, SeekSize, AtMost, PageCap, Cap, Positive
<1>4. CASE w.strategy # "seek"
  <2>1. w.ask \in Positive \union {None}
    BY <1>2, <1>4, WalksAssumption
  <2> QED
    BY <1>1, <1>2, <1>4, <2>1 DEF Limit, Sent, AtMost, Positive
<1> QED
  BY <1>3, <1>4

\* Rows that count as one have one key, and are in range together.
LEMMA KinOf ==
  ASSUME NEW w \in Walks, NEW row \in Rows
  PROVE  /\ \A r \in Kin(w, row) : r \in Rows /\ r.key = row.key /\ Inside(w, r)
         /\ \A r \in Rows : MarkOf(w, r) = MarkOf(w, row) =>
              r.key = row.key /\ (Inside(w, r) <=> Inside(w, row))
         /\ ~Inside(w, row) => Kin(w, row) = {}
         /\ Inside(w, row) => row \in Kin(w, row)
         /\ ~w.unique => Kin(w, row) = IF Inside(w, row) THEN {row} ELSE {}
<1>1. \A r \in Rows : MarkOf(w, r) = MarkOf(w, row) =>
        r.key = row.key /\ (Inside(w, r) <=> Inside(w, row))
  <2>1. SUFFICES ASSUME NEW r \in Rows, MarkOf(w, r) = MarkOf(w, row)
                 PROVE  r.key = row.key /\ (Inside(w, r) <=> Inside(w, row))
    OBVIOUS
  <2>2. r.key = row.key
    BY <2>1 DEF MarkOf
  <2>3. w.strategy = "seek" => (Past(w, r) <=> Past(w, row))
    <3>1. SUFFICES ASSUME w.strategy = "seek", w.until # None PROVE r.at = row.at
      BY DEF Past
    <3>2. r.key \in Int /\ r.at \in Int /\ row.at \in Int
      BY RowsAssumption
    <3>3. r.at <= row.at /\ row.at <= r.at
      BY <2>2, <3>1, <3>2, WalksAssumption
    <3> QED
      BY <3>2, <3>3
  <2> QED
    BY <2>2, <2>3 DEF Inside
<1> QED
  BY <1>1 DEF Kin, MarkOf

\* The direction of a walk is a total order on the keys.
LEMMA BeyondOrders ==
  ASSUME NEW w
  PROVE  \A a, b, c \in Int :
           /\ ~Beyond(w, a, a)
           /\ Beyond(w, a, b) => ~Beyond(w, b, a)
           /\ Beyond(w, a, b) \/ a = b \/ Beyond(w, b, a)
           /\ Beyond(w, a, b) /\ ~Beyond(w, c, b) => Beyond(w, a, c)
           /\ Beyond(w, a, b) /\ ~Beyond(w, a, c) => Beyond(w, c, b)
BY DEF Beyond

-----------------------------------------------------------------------------
(* What the venue answers.                                                 *)

\* A page is what comes first of the rows asked for: all of them, or as many
\* as the venue serves.
LEMMA PageTakes ==
  ASSUME NEW w \in Walks, NEW line \in Seq(Rows), NEW I \in SUBSET DOMAIN line,
         NEW q, q = Page(w, Select(line, I))
  PROVE  /\ q \in Seq(Rows) /\ Len(q) <= Limit(w)
         /\ \E p \in [DOMAIN q -> I] :
              /\ TakenBy(q, line, p)
              /\ \A i, j \in DOMAIN q : i < j => p[i] < p[j]
              /\ \A i \in I : \/ \E k \in DOMAIN q : p[k] = i
                              \/ Len(q) = Limit(w) /\ \A k \in DOMAIN q : p[k] < i
<1> DEFINE s == Select(line, I)
           n == IF Len(s) < Limit(w) THEN Len(s) ELSE Limit(w)
<1>1. Limit(w) \in Nat /\ Limit(w) > 0
  BY Limits DEF Positive
<1>2. s \in Seq(Rows)
  BY SelectTakes
<1>3. PICK p \in [DOMAIN s -> I] :
        /\ TakenBy(s, line, p)
        /\ \A i, j \in DOMAIN s : i < j => p[i] < p[j]
        /\ \A i \in I : \E k \in DOMAIN s : p[k] = i
  BY SelectTakes
<1> HIDE DEF s
<1>4. /\ q \in Seq(Rows) /\ Len(q) = n /\ n \in Nat /\ DOMAIN q = 1..n
      /\ DOMAIN s = 1..Len(s) /\ Len(s) \in Nat /\ n <= Len(s)
      /\ \A k \in 1..n : q[k] = s[k]
  BY <1>1, <1>2 DEF Page, s
<1> DEFINE r == [k \in 1..n |-> p[k]]
<1>5. r \in [1..n -> I] /\ \A k \in 1..n : k \in DOMAIN s /\ r[k] = p[k]
  BY <1>3, <1>4
<1>6. TakenBy(q, line, r)
  BY <1>3, <1>4, <1>5 DEF TakenBy
<1>7. \A i, j \in 1..n : i < j => r[i] < r[j]
  BY <1>3, <1>5
<1>8. ASSUME NEW i \in I
      PROVE  \/ \E k \in 1..n : r[k] = i
             \/ n = Limit(w) /\ \A k \in 1..n : r[k] < i
  <2>1. PICK k \in DOMAIN s : p[k] = i
    BY <1>3
  <2>2. CASE k <= n
    BY <1>4, <1>5, <2>1, <2>2
  <2>3. CASE k > n
    <3>1. n = Limit(w)
      BY <1>1, <1>4, <2>3
    <3>2. \A j \in 1..n : j \in DOMAIN s /\ j < k
      BY <1>4, <2>3
    <3>3. \A j \in 1..n : r[j] < i
      BY <1>3, <1>5, <2>1, <3>2
    <3> QED
      BY <3>1, <3>3
  <2>4. k \in Nat
    BY <1>4
  <2> HIDE DEF n
  <2> QED
    BY <1>4, <2>2, <2>3, <2>4
<1>9. n <= Limit(w)
  BY <1>1, <1>2
<1> HIDE DEF r, n
<1>10. r \in [DOMAIN q -> I]
  BY <1>4, <1>5
<1> QED
  BY <1>4, <1>6, <1>7, <1>8, <1>9, <1>10

\* The page q answers the request with the rows at p: rows asked for, listed
\* along the walk or against it; one asked for is missing only from a full
\* page, and does not come before any row of it.
Answers(w, rows, request, q, p) ==
  /\ q \in Seq(Rows) /\ Len(q) <= Limit(w)
  /\ TakenBy(q, rows, p)
  /\ \A k \in DOMAIN q : Asked(w, request, q[k])
  /\ \A i \in DOMAIN rows : Asked(w, request, rows[i]) =>
       \/ \E k \in DOMAIN q : p[k] = i
       \/ Len(q) = Limit(w) /\ \A k \in DOMAIN q : ~Beyond(w, q[k].key, rows[i].key)
  /\ \A i, j \in DOMAIN q : i < j =>
       IF w.reversed THEN ~Beyond(w, q[j].key, q[i].key) ELSE ~Beyond(w, q[i].key, q[j].key)

\* The rows along the walk, from either end of the collection.
LEMMA Lines ==
  ASSUME NEW w, NEW rows \in Seq(Rows), Sorted(rows),
         NEW line, line = IF w.descending THEN Reverse(rows) ELSE rows
  PROVE  /\ line \in Seq(Rows)
         /\ \A i, j \in DOMAIN line : i < j => ~Beyond(w, line[i].key, line[j].key)
         /\ \E a : /\ TakenBy(line, rows, a)
                   /\ \A i \in DOMAIN rows : \E k \in DOMAIN line : a[k] = i
<1>1. \A i \in DOMAIN rows : rows[i].key \in Int
  BY RowsAssumption
<1>2. CASE w.descending
  <2> DEFINE a == [k \in 1..Len(rows) |-> Len(rows) - k + 1]
  <2>1. /\ line \in Seq(Rows) /\ Len(line) = Len(rows)
        /\ TakenBy(line, rows, a) /\ \A i \in DOMAIN rows : \E k \in DOMAIN line : a[k] = i
    BY <1>2, ReverseTakes
  <2>2. \A i, j \in DOMAIN line : i < j => ~Beyond(w, line[i].key, line[j].key)
    <3>1. SUFFICES ASSUME NEW i \in DOMAIN line, NEW j \in DOMAIN line, i < j
                   PROVE  ~(line[i].key < line[j].key)
      BY <1>2 DEF Beyond
    <3>2. DOMAIN line = 1..Len(rows) /\ Len(rows) \in Nat /\ DOMAIN rows = 1..Len(rows)
      <4>1. Len(rows) \in Nat /\ DOMAIN rows = 1..Len(rows)
        OBVIOUS
      <4> HIDE DEF a
      <4> QED
        BY <2>1, <4>1
    <3>3. a[i] \in DOMAIN rows /\ a[j] \in DOMAIN rows /\ a[j] < a[i]
      <4>1. i \in 1..Len(rows) /\ j \in 1..Len(rows)
        BY <3>2
      <4> QED
        BY <3>1, <3>2, <4>1
    <3>4. line[i] = rows[a[i]] /\ line[j] = rows[a[j]]
      BY <2>1 DEF TakenBy
    <3>5. rows[a[j]].key <= rows[a[i]].key
      BY <3>3 DEF Sorted
    <3> HIDE DEF a
    <3> QED
      BY <1>1, <3>3, <3>4, <3>5
  <2> QED
    BY <2>1, <2>2
<1>3. CASE ~w.descending
  <2> DEFINE a == [k \in DOMAIN rows |-> k]
  <2>1. TakenBy(line, rows, a) /\ \A i \in DOMAIN rows : \E k \in DOMAIN line : a[k] = i
    BY <1>3 DEF TakenBy
  <2>2. \A i, j \in DOMAIN line : i < j => ~Beyond(w, line[i].key, line[j].key)
    BY <1>1, <1>3 DEF Beyond, Sorted
  <2> QED
    BY <1>3, <2>1, <2>2
<1> QED
  BY <1>2, <1>3

\* What the venue serves a seek walk answers what it was asked.
LEMMA SeekAnswers ==
  ASSUME NEW w \in Walks, NEW rows, Venue(w, rows), NEW request
  PROVE  \E p : Answers(w, rows, request, SeekPage(w, rows, request), p)
<1> DEFINE line == IF w.descending THEN Reverse(rows) ELSE rows
           I == {i \in DOMAIN line : Asked(w, request, line[i])}
           page == Page(w, Select(line, I))
           q == SeekPage(w, rows, request)
<1>1. rows \in Seq(Rows) /\ Sorted(rows)
  BY DEF Venue
<1>2. /\ line \in Seq(Rows)
      /\ \A i, j \in DOMAIN line : i < j => ~Beyond(w, line[i].key, line[j].key)
  BY <1>1, Lines
<1>3. PICK a : /\ TakenBy(line, rows, a)
               /\ \A i \in DOMAIN rows : \E k \in DOMAIN line : a[k] = i
  BY <1>1, Lines
<1>4. q = IF w.reversed THEN Reverse(page) ELSE page
  BY DEF SeekPage
<1> HIDE DEF line, q
<1>5. I \in SUBSET DOMAIN line
  OBVIOUS
<1>6. page \in Seq(Rows) /\ Len(page) <= Limit(w)
  <2> HIDE DEF I
  <2> QED
    BY <1>2, <1>5, PageTakes
<1>7. PICK b \in [DOMAIN page -> I] :
        /\ TakenBy(page, line, b)
        /\ \A i, j \in DOMAIN page : i < j => b[i] < b[j]
        /\ \A i \in I : \/ \E k \in DOMAIN page : b[k] = i
                        \/ Len(page) = Limit(w) /\ \A k \in DOMAIN page : b[k] < i
  <2> HIDE DEF I
  <2> QED
    BY <1>2, <1>5, PageTakes
<1>8. PICK d : /\ q \in Seq(Rows) /\ Len(q) = Len(page) /\ TakenBy(q, page, d)
               /\ \A k \in DOMAIN page : \E j \in DOMAIN q : d[j] = k
               /\ \A i, j \in DOMAIN q : i < j => IF w.reversed THEN d[j] < d[i] ELSE d[i] < d[j]
  <2>1. CASE w.reversed
    <3> DEFINE d == [k \in 1..Len(page) |-> Len(page) - k + 1]
    <3> HIDE DEF page
    <3>1. /\ q \in Seq(Rows) /\ Len(q) = Len(page) /\ TakenBy(q, page, d)
          /\ \A k \in DOMAIN page : \E j \in DOMAIN q : d[j] = k
      BY <1>4, <1>6, <2>1, ReverseTakes
    <3>2. \A i, j \in DOMAIN q : i < j => d[j] < d[i]
      BY <1>6, <3>1
    <3> QED
      BY <2>1, <3>1, <3>2
  <2>2. CASE ~w.reversed
    <3> DEFINE d == [k \in DOMAIN page |-> k]
    <3> HIDE DEF page
    <3>1. q = page
      BY <1>4, <2>2
    <3>2. TakenBy(q, page, d)
      BY <3>1 DEF TakenBy
    <3>3. \A i, j \in DOMAIN q : i < j => d[i] < d[j]
      BY <1>6, <3>1
    <3>4. \A k \in DOMAIN page : \E j \in DOMAIN q : d[j] = k
      BY <3>1
    <3> QED
      BY <1>6, <2>2, <3>1, <3>2, <3>3, <3>4
  <2> QED
    BY <2>1, <2>2
<1> DEFINE p == [k \in DOMAIN q |-> a[b[d[k]]]]
<1>9. \A k \in DOMAIN q : /\ d[k] \in DOMAIN page /\ b[d[k]] \in I /\ b[d[k]] \in DOMAIN line
                          /\ p[k] \in DOMAIN rows
                          /\ q[k] = line[b[d[k]]] /\ q[k] = rows[p[k]]
  <2> HIDE DEF page
  <2> QED
    BY <1>3, <1>7, <1>8 DEF TakenBy
<1> HIDE DEF page
<1>10. TakenBy(q, rows, p)
  <2>1. p \in [DOMAIN q -> DOMAIN rows]
    BY <1>9
  <2>2. \A i, j \in DOMAIN q : p[i] = p[j] => i = j
    BY <1>3, <1>7, <1>8, <1>9 DEF TakenBy
  <2> QED
    BY <1>9, <2>1, <2>2 DEF TakenBy
<1>11. \A k \in DOMAIN q : Asked(w, request, q[k])
  BY <1>9
<1>12. ASSUME NEW i \in DOMAIN rows, Asked(w, request, rows[i])
       PROVE  \/ \E k \in DOMAIN q : p[k] = i
              \/ Len(q) = Limit(w) /\ \A k \in DOMAIN q : ~Beyond(w, q[k].key, rows[i].key)
  <2>1. PICK j \in DOMAIN line : a[j] = i
    BY <1>3
  <2>2. line[j] = rows[i]
    BY <1>3, <2>1 DEF TakenBy
  <2>3. j \in I
    BY <1>12, <2>2
  <2>4. CASE \E k \in DOMAIN page : b[k] = j
    <3>1. PICK k \in DOMAIN page : b[k] = j
      BY <2>4
    <3>2. PICK m \in DOMAIN q : d[m] = k
      BY <1>8
    <3>3. p[m] = i
      BY <2>1, <3>1, <3>2
    <3> QED
      BY <3>3
  <2>5. CASE Len(page) = Limit(w) /\ \A k \in DOMAIN page : b[k] < j
    <3>1. \A k \in DOMAIN q : ~Beyond(w, q[k].key, rows[i].key)
      <4>1. SUFFICES ASSUME NEW k \in DOMAIN q PROVE ~Beyond(w, q[k].key, rows[i].key)
        OBVIOUS
      <4>2. b[d[k]] \in DOMAIN line /\ b[d[k]] < j /\ q[k] = line[b[d[k]]]
        BY <1>9, <2>5
      <4> QED
        BY <1>2, <2>2, <4>2
    <3> QED
      BY <1>8, <2>5, <3>1
  <2> QED
    BY <1>7, <2>3, <2>4, <2>5
<1>13. ASSUME NEW i \in DOMAIN q, NEW j \in DOMAIN q, i < j
       PROVE  IF w.reversed THEN ~Beyond(w, q[j].key, q[i].key)
                            ELSE ~Beyond(w, q[i].key, q[j].key)
  <2>1. IF w.reversed THEN d[j] < d[i] ELSE d[i] < d[j]
    BY <1>8, <1>13
  <2>2. IF w.reversed THEN b[d[j]] < b[d[i]] ELSE b[d[i]] < b[d[j]]
    BY <1>7, <1>9, <2>1
  <2> QED
    BY <1>2, <1>9, <2>2
<1> HIDE DEF p, I
<1>14. Answers(w, rows, request, q, p)
  BY <1>6, <1>8, <1>10, <1>11, <1>12, <1>13 DEF Answers
<1> QED
  BY <1>14 DEF q

-----------------------------------------------------------------------------
(* One page of a seek walk: what is asked for.                             *)

\* A seek walk w has handed over y, is in state st, and the venue holds rows.
Asking(w, rows, H, st, y) ==
  /\ w \in Walks /\ w.strategy = "seek"
  /\ Venue(w, rows) /\ rows \in H /\ H \subseteq Seq(Rows)
  /\ st \in SeekStates /\ SeekInv(w, H, st, y)
  /\ y \in Seq(Rows) /\ NoneOutside(w, y)

Bounds(w) ==
  /\ {w.start, w.far, w.until} \subseteq Int \union {None}
  /\ w.span # None => /\ w.span \in Positive /\ None \notin {w.start, w.far}
                      /\ w.nearIncluded \/ w.farIncluded
                      /\ w.until = None

\* The far bound of a request lies past the position, unless it is the
\* caller's own, and never past that one.
LEMMA Edges ==
  ASSUME NEW w, NEW rows, NEW H, NEW st, NEW y, Asking(w, rows, H, st, y),
         NEW e, e = SeekRequest(w, st.pos).far
  PROVE  /\ w.span = None => e = w.far /\ Edge(w, st.pos) = None
         /\ w.span # None => /\ st.pos \in Int /\ w.far \in Int /\ w.until = None
                             /\ w.nearIncluded \/ w.farIncluded
                             /\ e = Edge(w, st.pos) /\ e \in Int
                             /\ ~Beyond(w, e, w.far)
                             /\ e = w.far \/ Beyond(w, e, st.pos)
         /\ e \in Int \union {None} /\ w.far \in Int \union {None}
         /\ \A k \in Int : UpTo(w, e, k) => UpTo(w, w.far, k)
<1>1. Bounds(w) /\ None \notin Int
  BY WalksAssumption, RowsAssumption DEF Asking, Bounds
<1>2. st.pos \in Int \union {None} /\ (w.start # None => st.pos # None)
  BY DEF Asking, SeekStates, SeekInv
<1>3. e = IF w.span # None THEN Edge(w, st.pos) ELSE w.far
  BY DEF SeekRequest
<1>4. CASE w.span = None
  BY <1>1, <1>3, <1>4 DEF Edge, Bounds
<1>5. CASE w.span # None
  <2>1. st.pos \in Int /\ w.far \in Int /\ w.span \in Int /\ w.span > 0
    BY <1>1, <1>2, <1>5 DEF Bounds, Positive
  <2>2. e = Edge(w, st.pos)
    BY <1>3, <1>5
  <2>3. e \in Int /\ ~Beyond(w, e, w.far) /\ (e = w.far \/ Beyond(w, e, st.pos))
    BY <1>5, <2>1, <2>2 DEF Edge, Beyond
  <2>4. \A k \in Int : UpTo(w, e, k) => UpTo(w, w.far, k)
    BY <1>1, <2>1, <2>3 DEF UpTo, Beyond
  <2> QED
    BY <1>1, <1>5, <2>1, <2>2, <2>3, <2>4 DEF Bounds
<1> QED
  BY <1>4, <1>5

\* What the venue answers lies in the caller's range, or past `until`.
LEMMA AskedIsInside ==
  ASSUME NEW w, NEW rows, NEW H, NEW st, NEW y, Asking(w, rows, H, st, y),
         NEW row \in Rows, Asked(w, SeekRequest(w, st.pos), row), ~Past(w, row)
  PROVE  Inside(w, row)
<1>1. row.key \in Int /\ None \notin Int
  BY RowsAssumption
<1>2. Bounds(w)
  BY WalksAssumption DEF Asking, Bounds
<1>3. /\ st.pos \in Int \union {None}
      /\ w.start # None => st.pos # None /\ ~Beyond(w, w.start, st.pos)
  BY DEF Asking, SeekStates, SeekInv
<1>4. From(w, st.pos, row.key) /\ UpTo(w, SeekRequest(w, st.pos).far, row.key)
  BY DEF Asked, SeekRequest
<1>5. UpTo(w, w.far, row.key)
  BY <1>1, <1>4, Edges
<1>6. From(w, w.start, row.key)
  BY <1>1, <1>2, <1>3, <1>4 DEF From, Beyond, Bounds
<1> QED
  BY <1>5, <1>6 DEF Inside

\* A row in the caller's range, from the position on and up to the far bound
\* of the request, is asked for.
LEMMA InsideIsAsked ==
  ASSUME NEW w, NEW st, NEW row, w.strategy = "seek", Inside(w, row),
         From(w, st.pos, row.key), UpTo(w, SeekRequest(w, st.pos).far, row.key)
  PROVE  Asked(w, SeekRequest(w, st.pos), row)
BY DEF Inside, Asked, SeekRequest

\* With a unique cursor a venue holds a key once.
LEMMA HeldOnce ==
  ASSUME NEW w \in Walks, NEW rows, Venue(w, rows), w.unique, NEW row \in Rows
  PROVE  Tally(rows, Kin(w, row)) <= 1
<1> DEFINE P == Places(rows, Kin(w, row))
<1>1. IsFiniteSet(P) /\ Tally(rows, Kin(w, row)) = Cardinality(P)
  BY TallyType DEF Venue, Tally
<1>2. \A i, j \in P : i = j
  BY KinOf DEF Venue, Places
<1>3. CASE P = {}
  BY <1>1, <1>3, FS_EmptySet
<1>4. CASE P # {}
  <2>1. PICK i \in P : TRUE
    BY <1>4
  <2>2. P = {i}
    BY <1>2, <2>1
  <2> HIDE DEF P
  <2> QED
    BY <1>1, <2>2, FS_Singleton
<1> QED
  BY <1>3, <1>4

\* So a page whose rows share their key is a page of one row.
LEMMA OneRowOfAKey ==
  ASSUME NEW w, NEW rows, Venue(w, rows), w.unique,
         NEW q \in Seq(Rows), NEW p, TakenBy(q, rows, p),
         \A i, j \in DOMAIN q : q[i].key = q[j].key
  PROVE  Len(q) <= 1
<1>1. SUFFICES ASSUME Len(q) > 1 PROVE FALSE
  OBVIOUS
<1>2. 1 \in DOMAIN q /\ 2 \in DOMAIN q
  BY <1>1
<1>3. p[1] \in DOMAIN rows /\ p[2] \in DOMAIN rows /\ rows[p[1]].key = rows[p[2]].key
  BY <1>2 DEF TakenBy
<1> QED
  BY <1>2, <1>3 DEF TakenBy, Venue

\* The extreme of a page is the key of one of its rows, and none lies past it.
LEMMA Extremes ==
  ASSUME NEW w \in Walks, w.strategy = "seek", NEW rows, NEW request, NEW q, NEW p,
         Answers(w, rows, request, q, p)
  PROVE  /\ q = <<>> => Extreme(w, q) = None
         /\ q # <<>> => \E k \in DOMAIN q :
              Extreme(w, q) = q[k].key /\ \A i \in DOMAIN q : ~Beyond(w, q[i].key, q[k].key)
<1>1. q = <<>> => Extreme(w, q) = None
  BY DEF Extreme
<1>2. ASSUME q # <<>>
      PROVE  \E k \in DOMAIN q :
               Extreme(w, q) = q[k].key /\ \A i \in DOMAIN q : ~Beyond(w, q[i].key, q[k].key)
  <2>1. q \in Seq(Rows) /\ Len(q) \in Nat /\ Len(q) > 0 /\ DOMAIN q = 1..Len(q)
    BY <1>2 DEF Answers
  <2>2. \A i \in DOMAIN q : q[i].key \in Int
    BY <2>1, RowsAssumption
  <2>3. \A i, j \in DOMAIN q : i < j =>
          IF w.reversed THEN ~Beyond(w, q[j].key, q[i].key) ELSE ~Beyond(w, q[i].key, q[j].key)
    BY DEF Answers
  <2>4. \A i \in DOMAIN q : ~Beyond(w, q[i].key, q[i].key)
    BY <2>2, BeyondOrders
  <2>5. ~w.reversed => \A i \in DOMAIN q : ~Beyond(w, q[i].key, q[Len(q)].key)
    <3>1. SUFFICES ASSUME ~w.reversed, NEW i \in DOMAIN q, i # Len(q)
                   PROVE  ~Beyond(w, q[i].key, q[Len(q)].key)
      BY <2>4
    <3>2. i < Len(q) /\ Len(q) \in DOMAIN q
      BY <2>1, <3>1
    <3> QED
      BY <2>3, <3>1, <3>2
  <2>6. w.reversed => \A i \in DOMAIN q : ~Beyond(w, q[i].key, q[1].key)
    <3>1. SUFFICES ASSUME w.reversed, NEW i \in DOMAIN q, i # 1
                   PROVE  ~Beyond(w, q[i].key, q[1].key)
      BY <2>4
    <3>2. 1 < i /\ 1 \in DOMAIN q
      BY <2>1, <3>1
    <3> QED
      BY <2>3, <3>1, <3>2
  <2>7. CASE ~w.ordered
    <3>1. ~w.reversed
      BY <2>7, WalksAssumption
    <3>2. Extreme(w, q) = q[Len(q)].key /\ Len(q) \in DOMAIN q
      BY <1>2, <2>1, <2>7 DEF Extreme, Last
    <3> QED
      BY <2>5, <3>1, <3>2
  <2>8. CASE w.ordered
    <3> DEFINE keys == {q[i].key : i \in DOMAIN q}
    <3>1. \E key \in keys : \A i \in DOMAIN q : ~Beyond(w, q[i].key, key)
      <4>1. 1 \in DOMAIN q /\ Len(q) \in DOMAIN q
        BY <2>1
      <4> QED
        BY <2>5, <2>6, <4>1
    <3>2. Extreme(w, q) = CHOOSE key \in keys : \A i \in DOMAIN q : ~Beyond(w, q[i].key, key)
      BY <1>2, <2>8 DEF Extreme
    <3>3. Extreme(w, q) \in keys /\ \A i \in DOMAIN q : ~Beyond(w, q[i].key, Extreme(w, q))
      <4> HIDE DEF keys
      <4> QED
        BY <3>1, <3>2
    <3> QED
      BY <3>3
  <2> QED
    BY <2>7, <2>8
<1> QED
  BY <1>1, <1>2

-----------------------------------------------------------------------------
(* One page of a seek walk: what is handed over.                           *)

\* y2 holds of every row the larger of what y and the page q hold.
Joins(w, y, q, y2) ==
  /\ y2 \in Seq(Rows)
  /\ \A row \in Rows :
       \/ /\ Tally(y2, Kin(w, row)) = Tally(y, Kin(w, row))
          /\ Tally(q, Kin(w, row)) <= Tally(y, Kin(w, row))
       \/ /\ Tally(y2, Kin(w, row)) = Tally(q, Kin(w, row))
          /\ Tally(y, Kin(w, row)) <= Tally(q, Kin(w, row))

\* A sequence holds no row of a kind when its keys are others.
LEMMA NoneOfTheKey ==
  ASSUME NEW w \in Walks, NEW row \in Rows, NEW s \in Seq(Rows),
         \A i \in DOMAIN s : s[i].key # row.key
  PROVE  Tally(s, Kin(w, row)) = 0
<1>1. \A i \in DOMAIN s : s[i] \notin Kin(w, row)
  BY KinOf
<1> QED
  BY <1>1, TallyType

\* The rows fresh of a page, where the cursor is unique: all of a key, or
\* none when a row of that key was carried over.
LEMMA FreshOfUnique ==
  ASSUME NEW w \in Walks, NEW row \in Rows, NEW q \in Seq(Rows), NEW C \in Seq(Rows)
  PROVE  Tally(FreshByKey(C, q), Kin(w, row)) =
           IF \E i \in DOMAIN C : C[i].key = row.key THEN 0 ELSE Tally(q, Kin(w, row))
<1> DEFINE known == {C[i].key : i \in DOMAIN C}
           I == {i \in DOMAIN q : q[i].key \notin known}
           K == Kin(w, row)
<1>1. FreshByKey(C, q) = Select(q, I) /\ I \in SUBSET DOMAIN q
  BY DEF FreshByKey
<1>2. (\E i \in DOMAIN C : C[i].key = row.key) <=> row.key \in known
  OBVIOUS
<1>3. Places(q, K) \in SUBSET DOMAIN q /\ \A i \in Places(q, K) : q[i].key = row.key
  BY KinOf DEF Places
<1>4. row.key \notin known => I \cap Places(q, K) = Places(q, K)
  <2> HIDE DEF known, K
  <2> QED
    BY <1>3
<1>5. row.key \in known => I \cap Places(q, K) = {}
  <2> HIDE DEF known, K
  <2> QED
    BY <1>3
<1> HIDE DEF I, K, known
<1>6. Tally(Select(q, I), K) = Cardinality(I \cap Places(q, K))
  BY <1>1, TallySelect
<1> QED
  BY <1>1, <1>2, <1>4, <1>5, <1>6, FS_EmptySet DEF Tally, K

\* And where it is not: as many as exceed the rows carried over.
LEMMA FreshOfContent ==
  ASSUME NEW w \in Walks, ~w.unique, NEW row \in Rows, NEW q \in Seq(Rows), NEW C \in Seq(Rows)
  PROVE  Tally(Unmatched(q, C), Kin(w, row)) =
           IF Tally(q, Kin(w, row)) > Tally(C, Kin(w, row))
           THEN Tally(q, Kin(w, row)) - Tally(C, Kin(w, row)) ELSE 0
<1>1. CASE Inside(w, row)
  <2>1. Kin(w, row) = {row}
    BY <1>1, KinOf
  <2>2. Tally(Unmatched(q, C), {row}) =
          IF Tally(q, {row}) > Tally(C, {row}) THEN Tally(q, {row}) - Tally(C, {row}) ELSE 0
    BY TallyUnmatched
  <2> QED
    BY <2>1, <2>2
<1>2. CASE ~Inside(w, row)
  <2>1. Kin(w, row) = {}
    BY <1>2, KinOf
  <2>2. \A s \in Seq(Rows) : Tally(s, {}) = 0
    BY TallyType
  <2>3. Unmatched(q, C) \in Seq(Rows)
    BY SelectKeeps DEF Unmatched
  <2> QED
    BY <2>1, <2>2, <2>3
<1> QED
  BY <1>1, <1>2

\* The fresh rows of a page are rows of it, and with them the walk has handed
\* over of every row the larger of what it had and what the page holds.
LEMMA FreshJoins ==
  ASSUME NEW w, NEW rows, NEW H, NEW st, NEW y, Asking(w, rows, H, st, y),
         NEW q, NEW p, Answers(w, rows, SeekRequest(w, st.pos), q, p)
  PROVE  LET fresh == Dedup(w, st.carried, q).fresh
         IN  /\ fresh \in Seq(Rows)
             /\ \A k \in DOMAIN fresh : \E i \in DOMAIN q : fresh[k] = q[i]
             /\ Joins(w, y, q, y \o fresh)
<1> DEFINE C == st.carried
           fresh == Dedup(w, C, q).fresh
<1>1. /\ w \in Walks /\ w.strategy = "seek" /\ Venue(w, rows) /\ rows \in Seq(Rows)
      /\ st.pos \in Int \union {None} /\ C \in Seq(Rows) /\ y \in Seq(Rows)
      /\ st.pos = None => C = <<>> /\ y = <<>>
      /\ \A i \in DOMAIN C : C[i].key = st.pos /\ Inside(w, C[i])
      /\ \A i \in DOMAIN y : ~Beyond(w, y[i].key, st.pos)
      /\ \A row \in Rows : row.key = st.pos => Tally(y, Kin(w, row)) = Tally(C, Kin(w, row))
  BY DEF Asking, SeekInv, SeekStates, Venue
<1>2. q \in Seq(Rows) /\ TakenBy(q, rows, p) /\ \A k \in DOMAIN q : From(w, st.pos, q[k].key)
  BY DEF Answers, Asked, SeekRequest
<1>3. fresh = IF w.unique THEN FreshByKey(C, q) ELSE Unmatched(q, C)
  BY DEF Dedup, FreshByContent
<1> HIDE DEF fresh
<1>4. /\ fresh \in Seq(Rows)
      /\ \A k \in DOMAIN fresh : \E i \in DOMAIN q : fresh[k] = q[i]
  <2>1. \E I \in SUBSET DOMAIN q : fresh = Select(q, I)
    <3>1. CASE w.unique
      <4> DEFINE I == {i \in DOMAIN q : q[i].key \notin {C[j].key : j \in DOMAIN C}}
      <4>1. fresh = Select(q, I) /\ I \in SUBSET DOMAIN q
        BY <1>3, <3>1 DEF FreshByKey
      <4> QED
        BY <4>1
    <3>2. CASE ~w.unique
      <4> DEFINE I == {i \in DOMAIN q : Count(SubSeq(q, 1, i), q[i]) > Count(C, q[i])}
      <4>1. fresh = Select(q, I) /\ I \in SUBSET DOMAIN q
        BY <1>3, <3>2 DEF Unmatched
      <4> QED
        BY <4>1
    <3> QED
      BY <3>1, <3>2
  <2> QED
    BY <1>2, <2>1, SelectKeeps
<1> HIDE DEF C
<1>5. ASSUME NEW row \in Rows
      PROVE  \/ /\ Tally(y \o fresh, Kin(w, row)) = Tally(y, Kin(w, row))
                /\ Tally(q, Kin(w, row)) <= Tally(y, Kin(w, row))
             \/ /\ Tally(y \o fresh, Kin(w, row)) = Tally(q, Kin(w, row))
                /\ Tally(y, Kin(w, row)) <= Tally(q, Kin(w, row))
  <2> DEFINE K == Kin(w, row)
  <2>1. Tally(y \o fresh, K) = Tally(y, K) + Tally(fresh, K)
    BY <1>1, <1>4, TallyConcat
  <2>2. /\ Tally(y, K) \in Nat /\ Tally(q, K) \in Nat
        /\ Tally(C, K) \in Nat /\ Tally(fresh, K) \in Nat
    BY <1>1, <1>2, <1>4, TallyType
  <2>3. row.key \in Int /\ None \notin Int
    BY RowsAssumption
  <2>4. /\ \A i \in DOMAIN q : q[i].key \in Int
        /\ \A i \in DOMAIN y : y[i].key \in Int
    BY <1>1, <1>2, RowsAssumption
  <2>5. CASE st.pos # None /\ Beyond(w, st.pos, row.key)
    <3>1. \A i \in DOMAIN q : q[i].key # row.key
      BY <1>1, <1>2, <2>3, <2>4, <2>5, BeyondOrders DEF From
    <3>2. \A i \in DOMAIN fresh : fresh[i].key # row.key
      BY <1>4, <3>1
    <3>3. Tally(q, K) = 0 /\ Tally(fresh, K) = 0
      BY <1>1, <1>2, <1>4, <3>1, <3>2, NoneOfTheKey
    <3> QED
      BY <2>1, <2>2, <3>3
  <2>6. CASE st.pos = None \/ Beyond(w, row.key, st.pos)
    <3>1. row.key # st.pos
      BY <1>1, <2>3, <2>6, BeyondOrders
    <3>2. \A i \in DOMAIN y : y[i].key # row.key
      BY <1>1, <2>4, <2>6
    <3>3. \A i \in DOMAIN C : C[i].key # row.key
      BY <1>1, <3>1
    <3>4. Tally(y, K) = 0 /\ Tally(C, K) = 0
      BY <1>1, <3>2, <3>3, NoneOfTheKey
    <3>5. Tally(fresh, K) = Tally(q, K)
      <4>1. CASE w.unique
        BY <1>1, <1>2, <1>3, <3>3, <4>1, FreshOfUnique
      <4>2. CASE ~w.unique
        <5>1. Tally(fresh, K) = IF Tally(q, K) > Tally(C, K) THEN Tally(q, K) - Tally(C, K) ELSE 0
          BY <1>1, <1>2, <1>3, <4>2, FreshOfContent
        <5> QED
          BY <2>2, <3>4, <5>1
      <4> QED
        BY <4>1, <4>2
    <3> QED
      BY <2>1, <2>2, <3>4, <3>5
  <2>7. CASE st.pos # None /\ row.key = st.pos
    <3>1. Tally(y, K) = Tally(C, K)
      BY <1>1, <2>7
    <3>2. CASE w.unique /\ C = <<>>
      <4>1. Tally(fresh, K) = Tally(q, K) /\ Tally(C, K) = 0
        <5>1. ~\E i \in DOMAIN C : C[i].key = row.key
          BY <3>2
        <5>2. fresh = FreshByKey(C, q)
          BY <1>3, <3>2
        <5>3. Tally(fresh, K) = Tally(q, K)
          BY <1>1, <1>2, <5>1, <5>2, FreshOfUnique
        <5> QED
          BY <3>2, <5>3, TallyEmpty
      <4> QED
        BY <2>1, <2>2, <3>1, <4>1
    <3>3. CASE w.unique /\ C # <<>>
      <4>1. Tally(fresh, K) = 0
        <5>1. 1 \in DOMAIN C /\ C[1].key = row.key
          BY <1>1, <2>7, <3>3
        <5> QED
          BY <1>1, <1>2, <1>3, <3>3, <5>1, FreshOfUnique
      <4>2. Tally(q, K) <= 1
        <5>1. Tally(q, K) <= Tally(rows, K)
          BY <1>1, <1>2, TallyTaken
        <5>2. Tally(rows, K) <= 1 /\ Tally(rows, K) \in Nat
          BY <1>1, <3>3, HeldOnce, TallyType DEF K
        <5> QED
          BY <2>2, <5>1, <5>2
      <4>3. Tally(C, K) # 0
        <5>1. 1 \in DOMAIN C /\ C[1] \in Rows
          BY <1>1, <3>3
        <5>2. C[1].key = row.key /\ Inside(w, C[1])
          BY <1>1, <2>7, <5>1
        <5>3. C[1] \in K
          BY <3>3, <5>1, <5>2 DEF Kin, MarkOf
        <5> HIDE DEF K
        <5> QED
          BY <1>1, <5>1, <5>3, TallyType
      <4> QED
        BY <2>1, <2>2, <3>1, <4>1, <4>2, <4>3
    <3>4. CASE ~w.unique
      <4>1. Tally(fresh, K) = IF Tally(q, K) > Tally(C, K) THEN Tally(q, K) - Tally(C, K) ELSE 0
        BY <1>1, <1>2, <1>3, <3>4, FreshOfContent
      <4> QED
        BY <2>1, <2>2, <3>1, <4>1
    <3> QED
      BY <3>2, <3>3, <3>4
  <2> QED
    BY <1>1, <2>3, <2>5, <2>6, <2>7, BeyondOrders
<1>6. y \o fresh \in Seq(Rows)
  BY <1>1, <1>4
<1> QED
  BY <1>4, <1>5, <1>6 DEF Joins, fresh, C

\* Rows past `until` are left out; no row the walk promises is one of them.
LEMMA WithoutPast ==
  ASSUME NEW w \in Walks, w.strategy = "seek", NEW fresh \in Seq(Rows)
  PROVE  /\ NotPast(w, fresh) \in Seq(Rows)
         /\ \A k \in DOMAIN NotPast(w, fresh) : /\ ~Past(w, NotPast(w, fresh)[k])
                                           /\ \E i \in DOMAIN fresh : NotPast(w, fresh)[k] = fresh[i]
         /\ \A row \in Rows : Tally(NotPast(w, fresh), Kin(w, row)) = Tally(fresh, Kin(w, row))
<1> DEFINE I == {i \in DOMAIN fresh : ~Past(w, fresh[i])}
           kept == NotPast(w, fresh)
<1>1. kept = Select(fresh, I) /\ I \in SUBSET DOMAIN fresh
  BY DEF NotPast
<1> HIDE DEF kept
<1>2. kept \in Seq(Rows) /\ \A k \in DOMAIN kept : \E i \in I : kept[k] = fresh[i]
  <2> HIDE DEF I
  <2>1. /\ Select(fresh, I) \in Seq(Rows)
        /\ \A k \in DOMAIN Select(fresh, I) : \E i \in I : Select(fresh, I)[k] = fresh[i]
    BY <1>1, SelectKeeps
  <2> QED
    BY <1>1, <2>1
<1>3. ASSUME NEW row \in Rows PROVE Tally(kept, Kin(w, row)) = Tally(fresh, Kin(w, row))
  <2>1. Places(fresh, Kin(w, row)) \in SUBSET DOMAIN fresh
    BY DEF Places
  <2>2. \A i \in Places(fresh, Kin(w, row)) : ~Past(w, fresh[i])
    BY KinOf DEF Places, Inside
  <2>3. I \cap Places(fresh, Kin(w, row)) = Places(fresh, Kin(w, row))
    BY <2>1, <2>2
  <2> HIDE DEF I
  <2>4. Tally(Select(fresh, I), Kin(w, row)) = Cardinality(I \cap Places(fresh, Kin(w, row)))
    BY <1>1, TallySelect
  <2> QED
    BY <1>1, <2>3, <2>4 DEF Tally
<1>4. \A k \in DOMAIN kept : ~Past(w, kept[k]) /\ \E i \in DOMAIN fresh : kept[k] = fresh[i]
  BY <1>2
<1> QED
  BY <1>2, <1>3, <1>4 DEF kept

\* What a page hands over: the fresh rows, without those past `until`.
LEMMA HandsOver ==
  ASSUME NEW w, NEW rows, NEW H, NEW st, NEW y, Asking(w, rows, H, st, y),
         NEW q, NEW p, Answers(w, rows, SeekRequest(w, st.pos), q, p),
         NEW handed,
         \/ handed = NotPast(w, Dedup(w, st.carried, q).fresh)
         \/ handed = Dedup(w, st.carried, q).fresh /\ \A i \in DOMAIN q : ~Past(w, q[i])
  PROVE  /\ Joins(w, y, q, y \o handed)
         /\ handed \in Seq(Rows) /\ \A k \in DOMAIN handed : \E i \in DOMAIN q : handed[k] = q[i]
         /\ NoneOutside(w, y \o handed)
         /\ NoneTwice(w, H, y) => NoneTwice(w, H, y \o handed)
<1> DEFINE fresh == Dedup(w, st.carried, q).fresh
<1>0. \/ handed = NotPast(w, fresh)
      \/ handed = fresh /\ \A i \in DOMAIN q : ~Past(w, q[i])
  OBVIOUS
<1>1. /\ fresh \in Seq(Rows)
      /\ \A k \in DOMAIN fresh : \E i \in DOMAIN q : fresh[k] = q[i]
      /\ Joins(w, y, q, y \o fresh)
  BY FreshJoins
<1> HIDE DEF fresh
<1>2. /\ w \in Walks /\ w.strategy = "seek" /\ y \in Seq(Rows) /\ NoneOutside(w, y)
      /\ q \in Seq(Rows) /\ TakenBy(q, rows, p)
      /\ rows \in Seq(Rows) /\ rows \in H /\ H \subseteq Seq(Rows)
      /\ \A k \in DOMAIN q : Asked(w, SeekRequest(w, st.pos), q[k])
  BY DEF Asking, Answers, Venue
<1>3. /\ handed \in Seq(Rows)
      /\ \A k \in DOMAIN handed : ~Past(w, handed[k]) /\ \E i \in DOMAIN q : handed[k] = q[i]
      /\ \A row \in Rows : Tally(handed, Kin(w, row)) = Tally(fresh, Kin(w, row))
  <2>1. CASE handed = NotPast(w, fresh)
    BY <1>1, <1>2, <2>1, WithoutPast
  <2>2. CASE handed = fresh /\ \A i \in DOMAIN q : ~Past(w, q[i])
    BY <1>1, <2>2
  <2> QED
    BY <1>0, <2>1, <2>2
<1>4. \A row \in Rows : Tally(y \o handed, Kin(w, row)) = Tally(y \o fresh, Kin(w, row))
  BY <1>1, <1>2, <1>3, TallyConcat
<1>5. y \o handed \in Seq(Rows)
  BY <1>2, <1>3
<1>6. Joins(w, y, q, y \o handed)
  BY <1>1, <1>4, <1>5 DEF Joins
<1>7. \A k \in DOMAIN handed : handed[k] \in Rows /\ Inside(w, handed[k])
  <2>1. SUFFICES ASSUME NEW k \in DOMAIN handed PROVE handed[k] \in Rows /\ Inside(w, handed[k])
    OBVIOUS
  <2>2. handed[k] \in Rows /\ ~Past(w, handed[k]) /\ Asked(w, SeekRequest(w, st.pos), handed[k])
    BY <1>2, <1>3
  <2> QED
    BY <2>2, AskedIsInside
<1>8. NoneOutside(w, y \o handed)
  <2>1. \A i \in DOMAIN (y \o handed) :
          \/ i \in DOMAIN y /\ (y \o handed)[i] = y[i]
          \/ \E k \in DOMAIN handed : (y \o handed)[i] = handed[k]
    BY <1>2, <1>3
  <2> QED
    BY <1>2, <1>7, <2>1 DEF NoneOutside
<1>9. ASSUME NoneTwice(w, H, y) PROVE NoneTwice(w, H, y \o handed)
  <2>1. SUFFICES ASSUME NEW row \in Rows
                 PROVE  \E c \in H : Tally(y \o handed, Kin(w, row)) <= Tally(c, Kin(w, row))
    BY DEF NoneTwice
  <2>2. CASE Tally(y \o handed, Kin(w, row)) = Tally(y, Kin(w, row))
    BY <1>9, <2>2 DEF NoneTwice
  <2>3. CASE Tally(y \o handed, Kin(w, row)) = Tally(q, Kin(w, row))
    <3>1. Tally(q, Kin(w, row)) <= Tally(rows, Kin(w, row))
      BY <1>2, TallyTaken
    <3> QED
      BY <1>2, <2>3, <3>1
  <2> QED
    BY <1>6, <2>2, <2>3 DEF Joins
<1> QED
  BY <1>3, <1>6, <1>8, <1>9

-----------------------------------------------------------------------------
(* One page of a seek walk: what it leaves settled.                        *)

\* A row asked for is in the page as often as in the collection, when the page
\* is short or reaches past it.
LEMMA Covers ==
  ASSUME NEW w, NEW rows, NEW H, NEW st, NEW y, Asking(w, rows, H, st, y),
         NEW q, NEW p, Answers(w, rows, SeekRequest(w, st.pos), q, p),
         NEW row \in Rows, Inside(w, row), Asked(w, SeekRequest(w, st.pos), row),
         Len(q) < Limit(w) \/ \E k \in DOMAIN q : Beyond(w, q[k].key, row.key)
  PROVE  Tally(q, Kin(w, row)) = Tally(rows, Kin(w, row))
<1>1. /\ w \in Walks /\ w.strategy = "seek" /\ rows \in Seq(Rows)
      /\ q \in Seq(Rows) /\ TakenBy(q, rows, p)
  BY DEF Asking, Answers, Venue
<1>2. ASSUME NEW i \in Places(rows, Kin(w, row)) PROVE \E k \in DOMAIN q : p[k] = i
  <2>1. i \in DOMAIN rows /\ rows[i].key = row.key /\ Inside(w, rows[i])
    BY <1>1, KinOf DEF Places
  <2>2. Asked(w, SeekRequest(w, st.pos), rows[i])
    BY <1>1, <2>1 DEF Asked, Inside
  <2>3. \/ \E k \in DOMAIN q : p[k] = i
        \/ Len(q) = Limit(w) /\ \A k \in DOMAIN q : ~Beyond(w, q[k].key, rows[i].key)
    BY <2>1, <2>2 DEF Answers
  <2>4. Len(q) < Limit(w) => Len(q) # Limit(w)
    BY <1>1, Limits DEF Positive
  <2> QED
    BY <2>1, <2>3, <2>4
<1> QED
  BY <1>1, <1>2, TallyTaken

\* No carried row is missing from the page when none remains.
LEMMA NoneRemains ==
  ASSUME NEW C \in Seq(Rows), NEW q \in Seq(Rows)
  PROVE  Unmatched(C, q) = <<>> <=> \A r \in Rows : Tally(C, {r}) <= Tally(q, {r})
<1>1. \A r : Tally(C, {r}) \in Nat /\ Tally(q, {r}) \in Nat
  BY TallyType
<1>2. Unmatched(C, q) \in Seq(Rows)
  BY SelectKeeps DEF Unmatched
<1>3. ASSUME Unmatched(C, q) = <<>>, NEW r \in Rows PROVE Tally(C, {r}) <= Tally(q, {r})
  <2>1. Tally(Unmatched(C, q), {r}) = 0
    BY <1>3, TallyEmpty
  <2>2. Tally(Unmatched(C, q), {r}) =
          IF Tally(C, {r}) > Tally(q, {r}) THEN Tally(C, {r}) - Tally(q, {r}) ELSE 0
    BY TallyUnmatched
  <2>3. Tally(C, {r}) \in Nat /\ Tally(q, {r}) \in Nat
    BY <1>1
  <2> QED
    BY <2>1, <2>2, <2>3
<1>4. ASSUME Unmatched(C, q) # <<>> PROVE \E r \in Rows : ~(Tally(C, {r}) <= Tally(q, {r}))
  <2> DEFINE r == Unmatched(C, q)[1]
  <2>1. 1 \in DOMAIN Unmatched(C, q) /\ r \in Rows
    BY <1>2, <1>4
  <2>2. Tally(Unmatched(C, q), {r}) # 0
    <3>1. r \in {r}
      OBVIOUS
    <3> QED
      BY <1>2, <2>1, <3>1, TallyType
  <2>3. Tally(Unmatched(C, q), {r}) =
          IF Tally(C, {r}) > Tally(q, {r}) THEN Tally(C, {r}) - Tally(q, {r}) ELSE 0
    BY TallyUnmatched
  <2>4. Tally(C, {r}) \in Nat /\ Tally(q, {r}) \in Nat
    BY <1>1
  <2> HIDE DEF r
  <2>5. ~(Tally(C, {r}) <= Tally(q, {r}))
    BY <2>2, <2>3, <2>4
  <2> QED
    BY <2>1, <2>5
<1> QED
  BY <1>3, <1>4

\* After a page without a carried row missing, a row up to the far bound of the
\* request is settled when the page is short or reaches past it.
LEMMA LeavesSettled ==
  ASSUME NEW w, NEW rows, NEW H, NEW st, NEW y, Asking(w, rows, H, st, y),
         NEW q, NEW p, Answers(w, rows, SeekRequest(w, st.pos), q, p),
         Dedup(w, st.carried, q).remaining = <<>>,
         NEW y2, Joins(w, y, q, y2),
         NEW row \in Rows, Inside(w, row) => UpTo(w, SeekRequest(w, st.pos).far, row.key),
         Len(q) < Limit(w) \/ \E k \in DOMAIN q : Beyond(w, q[k].key, row.key)
  PROVE  Settled(w, H, y2, row)
<1> DEFINE K == Kin(w, row)
           C == st.carried
<1>1. /\ w \in Walks /\ w.strategy = "seek" /\ rows \in Seq(Rows) /\ rows \in H
      /\ H \subseteq Seq(Rows) /\ q \in Seq(Rows) /\ y \in Seq(Rows) /\ y2 \in Seq(Rows)
      /\ C \in Seq(Rows) /\ st.pos \in Int \union {None}
      /\ \A i \in DOMAIN C : C[i].key = st.pos
      /\ Behind(w, st, row.key) => Settled(w, H, y, row)
      /\ \A k \in DOMAIN q : From(w, st.pos, q[k].key)
  BY DEF Asking, Answers, Venue, SeekInv, SeekStates, Joins, Asked, SeekRequest
<1>2. row.key \in Int /\ None \notin Int
  BY RowsAssumption
<1>3. \A s \in Seq(Rows) : Tally(s, K) \in Nat
  BY TallyType
<1>4. Tally(y, K) <= Tally(y2, K) /\ Tally(q, K) <= Tally(y2, K)
  BY <1>1, <1>3 DEF Joins
<1>5. CASE ~Inside(w, row)
  <2>1. Tally(rows, K) = 0
    BY <1>1, <1>5, KinOf, TallyType
  <2> QED
    BY <1>1, <1>3, <2>1 DEF Settled
<1>6. CASE Behind(w, st, row.key)
  BY <1>1, <1>3, <1>4, <1>6 DEF Settled
<1>7. CASE Inside(w, row) /\ ~Behind(w, st, row.key)
  <2>1. From(w, st.pos, row.key)
    <3>1. SUFFICES ASSUME st.pos # None, row.key = st.pos, ~w.nearIncluded PROVE FALSE
      BY <1>1, <1>2, <1>7, BeyondOrders DEF Behind, From
    <3>2. ~w.unique /\ C # <<>>
      BY <1>7, <3>1 DEF Behind
    <3>3. Unmatched(C, q) = <<>>
      BY <3>2 DEF Dedup, FreshByContent
    <3>4. 1 \in DOMAIN C /\ C[1] \in Rows /\ C[1].key = st.pos
      BY <1>1, <3>2
    <3>5. Tally(C, {C[1]}) # 0
      <4>1. C[1] \in {C[1]}
        OBVIOUS
      <4> QED
        BY <1>1, <3>4, <4>1, TallyType
    <3>6. Tally(C, {C[1]}) <= Tally(q, {C[1]})
      BY <1>1, <3>3, <3>4, NoneRemains
    <3>7. Tally(q, {C[1]}) # 0
      <4>1. Tally(C, {C[1]}) \in Nat /\ Tally(q, {C[1]}) \in Nat
        BY <1>1, TallyType
      <4> QED
        BY <3>5, <3>6, <4>1
    <3>8. \E k \in DOMAIN q : q[k] \in {C[1]}
      BY <1>1, <3>7, TallyType
    <3>9. From(w, st.pos, st.pos)
      BY <1>1, <3>4, <3>8
    <3> QED
      BY <1>1, <1>2, <3>1, <3>9, BeyondOrders DEF From
  <2>2. Asked(w, SeekRequest(w, st.pos), row)
    BY <1>1, <1>7, <2>1, InsideIsAsked
  <2>3. Tally(q, K) = Tally(rows, K)
    BY <1>7, <2>2, Covers
  <2> QED
    BY <1>1, <1>4, <2>3 DEF Settled
<1> QED
  BY <1>5, <1>6, <1>7

-----------------------------------------------------------------------------
(* One page of a seek walk: how it goes on.                                *)

\* No carried row is missing; a row lies past `until`; no key lies past the
\* position; the page is the last up to the far bound of its request.
Whole(w, st, q) == Dedup(w, st.carried, q).remaining = <<>>
Passes(w, q) == \E i \in DOMAIN q : Past(w, q[i])
Stays(w, st, q) == Extreme(w, q) \in {None, st.pos}
Short(w, st, q) == ~Full(w, q) /\ (PageCap(w) # None \/ Stays(w, st, q))

\* The outcomes of a page, each with what the code found on the way to it.
LEMMA SeekCases ==
  ASSUME NEW w, NEW st, NEW q
  PROVE  LET fresh   == Dedup(w, st.carried, q).fresh
             extreme == Extreme(w, q)
             edge    == Edge(w, st.pos)
             step    == SeekStep(w, st, q)
         IN  \/ step = Refused /\ ~Whole(w, st, q)
             \/ step = Refused /\ Full(w, q) /\ Stays(w, st, q)
             \/ Whole(w, st, q) /\ Passes(w, q) /\ step = Done(NotPast(w, fresh))
             \/ /\ Whole(w, st, q) /\ ~Passes(w, q) /\ ~Stays(w, st, q)
                /\ step = More(fresh, extreme, At(q, extreme))
             \/ /\ Whole(w, st, q) /\ ~Passes(w, q) /\ Short(w, st, q)
                /\ edge = None \/ ~Beyond(w, w.far, edge)
                /\ step = Done(fresh)
             \/ /\ Whole(w, st, q) /\ ~Passes(w, q) /\ Short(w, st, q)
                /\ edge # None /\ Beyond(w, w.far, edge)
                /\ step = More(fresh, edge, At(q, edge))
<1> DEFINE fresh == Dedup(w, st.carried, q).fresh
           extreme == Extreme(w, q)
           edge == Edge(w, st.pos)
           kept == NotPast(w, fresh)
           step == SeekStep(w, st, q)
<1>1. step = IF ~Whole(w, st, q) THEN Refused
             ELSE IF Passes(w, q) THEN Done(kept)
             ELSE IF Full(w, q)
             THEN IF extreme \notin {None, st.pos}
                  THEN More(fresh, extreme, At(q, extreme)) ELSE Refused
             ELSE IF PageCap(w) = None /\ extreme \notin {None, st.pos}
             THEN More(fresh, extreme, At(q, extreme))
             ELSE IF edge = None \/ ~Beyond(w, w.far, edge)
             THEN Done(fresh)
             ELSE More(fresh, edge, At(q, edge))
  BY DEF SeekStep, Advance, Whole, Passes
<1>2. Stays(w, st, q) <=> extreme \in {None, st.pos}
  BY DEF Stays
<1> HIDE DEF fresh, extreme, edge, kept, step
<1>3. \/ step = Refused /\ ~Whole(w, st, q)
      \/ step = Refused /\ Full(w, q) /\ Stays(w, st, q)
      \/ Whole(w, st, q) /\ Passes(w, q) /\ step = Done(kept)
      \/ /\ Whole(w, st, q) /\ ~Passes(w, q) /\ ~Stays(w, st, q)
         /\ step = More(fresh, extreme, At(q, extreme))
      \/ /\ Whole(w, st, q) /\ ~Passes(w, q) /\ Short(w, st, q)
         /\ edge = None \/ ~Beyond(w, w.far, edge)
         /\ step = Done(fresh)
      \/ /\ Whole(w, st, q) /\ ~Passes(w, q) /\ Short(w, st, q)
         /\ edge # None /\ Beyond(w, w.far, edge)
         /\ step = More(fresh, edge, At(q, edge))
  BY <1>1, <1>2 DEF Short
<1> QED
  BY <1>3 DEF fresh, extreme, edge, kept, step

\* A page that shows no key past the position holds that key alone.
LEMMA StaysAtPosition ==
  ASSUME NEW w, NEW rows, NEW H, NEW st, NEW y, Asking(w, rows, H, st, y),
         NEW q, NEW p, Answers(w, rows, SeekRequest(w, st.pos), q, p),
         Stays(w, st, q), q # <<>>
  PROVE  /\ st.pos \in Int /\ \A k \in DOMAIN q : q[k].key = st.pos
         /\ w.nearIncluded
<1>1. /\ w \in Walks /\ w.strategy = "seek" /\ st.pos \in Int \union {None}
      /\ q \in Seq(Rows) /\ \A k \in DOMAIN q : From(w, st.pos, q[k].key)
  BY DEF Asking, Answers, Asked, SeekRequest, SeekStates
<1>2. None \notin Int /\ \A k \in DOMAIN q : q[k].key \in Int
  BY <1>1, RowsAssumption
<1>3. PICK k \in DOMAIN q :
        Extreme(w, q) = q[k].key /\ \A i \in DOMAIN q : ~Beyond(w, q[i].key, q[k].key)
  BY <1>1, Extremes
<1>4. st.pos \in Int /\ q[k].key = st.pos
  BY <1>1, <1>2, <1>3 DEF Stays
<1>5. \A i \in DOMAIN q : q[i].key = st.pos /\ w.nearIncluded
  <2>1. SUFFICES ASSUME NEW i \in DOMAIN q PROVE q[i].key = st.pos /\ w.nearIncluded
    OBVIOUS
  <2>2. From(w, st.pos, q[i].key) /\ ~Beyond(w, q[i].key, st.pos)
    BY <1>1, <1>3, <1>4
  <2> QED
    BY <1>2, <1>4, <2>2 DEF From
<1> QED
  BY <1>3, <1>4, <1>5

\* A short page holds fewer rows than the venue serves.
LEMMA ShortIsShort ==
  ASSUME NEW w, NEW rows, NEW H, NEW st, NEW y, Asking(w, rows, H, st, y),
         NEW q, NEW p, Answers(w, rows, SeekRequest(w, st.pos), q, p),
         Short(w, st, q)
  PROVE  Len(q) < Limit(w)
<1>1. /\ w \in Walks /\ w.strategy = "seek" /\ Venue(w, rows)
      /\ q \in Seq(Rows) /\ TakenBy(q, rows, p) /\ Len(q) \in Nat
  BY DEF Asking, Answers
<1>2. Limit(w) \in Nat /\ Limit(w) > 0
  BY <1>1, Limits DEF Positive
<1>3. CASE PageCap(w) # None
  <2>1. PageCap(w) = Limit(w)
    BY <1>1, <1>3, Limits
  <2> QED
    BY <1>1, <1>2, <1>3, <2>1 DEF Short, Full
<1>4. CASE PageCap(w) = None
  <2>1. w.unique /\ Limit(w) > 1
    BY <1>1, <1>4, Limits
  <2>2. CASE q = <<>>
    BY <1>2, <2>2
  <2>3. CASE q # <<>>
    <3>1. Stays(w, st, q)
      BY <1>4 DEF Short
    <3>2. \A k \in DOMAIN q : q[k].key = st.pos
      BY <2>3, <3>1, StaysAtPosition
    <3>3. \A i, j \in DOMAIN q : q[i].key = q[j].key
      BY <3>2
    <3>4. Len(q) <= 1
      BY <1>1, <2>1, <3>3, OneRowOfAKey
    <3> QED
      BY <1>1, <1>2, <2>1, <3>4
  <2> QED
    BY <2>2, <2>3
<1> QED
  BY <1>3, <1>4

\* The collection holds as many rows of a key as a page of that key alone.
LEMMA PageOfOneKey ==
  ASSUME NEW w, NEW rows, Venue(w, rows), NEW e,
         NEW q \in Seq(Rows), NEW p, TakenBy(q, rows, p), q # <<>>,
         \A k \in DOMAIN q : q[k].key = e
  PROVE  e \in KeysOf(rows) /\ Len(At(rows, e)) \in Nat /\ Len(At(rows, e)) >= Len(q)
<1> DEFINE V == {r \in Rows : r.key = e}
           I == {i \in DOMAIN rows : rows[i].key = e}
<1>1. rows \in Seq(Rows) /\ \A i \in DOMAIN rows : rows[i] \in Rows
  BY DEF Venue
<1>2. I = Places(rows, V)
  BY <1>1 DEF Places
<1>3. \A k \in DOMAIN q : q[k] \in V
  OBVIOUS
<1>4. I \in SUBSET DOMAIN rows
  OBVIOUS
<1> HIDE DEF V, I
<1>5. Len(Select(rows, I)) = Cardinality(I)
  BY <1>1, <1>4, SelectTakes
<1>6. At(rows, e) = Select(rows, I)
  BY DEF At, I
<1>7. Tally(q, V) = Len(q) /\ Tally(rows, V) \in Nat
  BY <1>1, <1>3, TallyType
<1>8. Tally(q, V) <= Tally(rows, V)
  BY <1>1, TallyTaken
<1>9. e \in KeysOf(rows)
  <2>1. 1 \in DOMAIN q
    OBVIOUS
  <2>2. p[1] \in DOMAIN rows /\ rows[p[1]].key = e
    BY <2>1 DEF TakenBy
  <2> QED
    BY <2>2 DEF KeysOf
<1> QED
  BY <1>2, <1>5, <1>6, <1>7, <1>8, <1>9 DEF Tally

\* A walk is refused for cause only.
Deserved(w, rows, H) ==
  \/ w.unique /\ w.nearIncluded /\ w.maximum = 1
  \/ /\ ~w.unique
     /\ \/ ~w.nearIncluded \/ Cardinality(H) > 1
        \/ \E key \in KeysOf(rows) : Len(At(rows, key)) >= PageCap(w)

\* A page that is refused gives one of the causes: a row that was carried is
\* gone, or the page is full of rows of the key it was asked from.
LEMMA SeekRaises ==
  ASSUME NEW w, NEW rows, NEW H, NEW st, NEW y, Asking(w, rows, H, st, y), IsFiniteSet(H),
         NEW q, NEW p, Answers(w, rows, SeekRequest(w, st.pos), q, p),
         ~Whole(w, st, q) \/ (Full(w, q) /\ Stays(w, st, q))
  PROVE  Deserved(w, rows, H)
<1>1. /\ w \in Walks /\ w.strategy = "seek" /\ Venue(w, rows) /\ rows \in Seq(Rows)
      /\ rows \in H /\ H \subseteq Seq(Rows)
      /\ q \in Seq(Rows) /\ TakenBy(q, rows, p) /\ Len(q) \in Nat /\ Len(q) <= Limit(w)
      /\ st.carried \in Seq(Rows) /\ st.pos \in Int \union {None}
      /\ \A i \in DOMAIN st.carried : st.carried[i].key = st.pos /\ Inside(w, st.carried[i])
      /\ \E c \in H : \A row \in Rows : Count(st.carried, row) <= Count(c, row)
      /\ st.pos = None => st.carried = <<>>
  BY DEF Asking, Answers, Venue, SeekStates, SeekInv
<1>2. Limit(w) \in Nat /\ Limit(w) > 0 /\ (PageCap(w) # None => PageCap(w) = Limit(w))
  BY <1>1, Limits DEF Positive
<1>3. None \notin Int /\ \A row \in Rows : row.key \in Int
  BY RowsAssumption
<1>4. ASSUME Len(q) >= Limit(w), q # <<>>, \A k \in DOMAIN q : q[k].key = st.pos,
             ~w.unique, PageCap(w) # None
      PROVE  Deserved(w, rows, H)
  <2>1. /\ st.pos \in KeysOf(rows) /\ Len(At(rows, st.pos)) \in Nat
        /\ Len(At(rows, st.pos)) >= Len(q)
    BY <1>1, <1>4, PageOfOneKey
  <2>2. Len(At(rows, st.pos)) >= PageCap(w)
    BY <1>1, <1>2, <1>4, <2>1
  <2> QED
    BY <1>4, <2>1, <2>2 DEF Deserved
<1>5. CASE Full(w, q) /\ Stays(w, st, q)
  <2>1. PageCap(w) # None /\ Len(q) >= Limit(w) /\ q # <<>>
    BY <1>1, <1>2, <1>5 DEF Full
  <2>2. /\ st.pos \in Int /\ \A k \in DOMAIN q : q[k].key = st.pos
        /\ w.nearIncluded
    BY <1>5, <2>1, StaysAtPosition
  <2>3. CASE w.unique
    <3>1. \A i, j \in DOMAIN q : q[i].key = q[j].key
      BY <2>2
    <3>2. Len(q) <= 1
      BY <1>1, <2>3, <3>1, OneRowOfAKey
    <3>3. Limit(w) = 1
      BY <1>1, <1>2, <2>1, <3>2
    <3>4. w.maximum = 1
      BY <1>1, <3>3, Limits
    <3> QED
      BY <2>2, <2>3, <3>4 DEF Deserved
  <2> QED
    BY <1>4, <2>1, <2>2, <2>3
<1>6. CASE ~Whole(w, st, q)
  <2>1. ~w.unique /\ Unmatched(st.carried, q) # <<>>
    BY <1>6 DEF Whole, Dedup, FreshByContent
  <2>2. PICK r \in Rows : ~(Tally(st.carried, {r}) <= Tally(q, {r}))
    BY <1>1, <2>1, NoneRemains
  <2>3. /\ Tally(st.carried, {r}) \in Nat /\ Tally(q, {r}) \in Nat /\ Tally(rows, {r}) \in Nat
    BY <1>1, TallyType
  <2>4. \E i \in DOMAIN st.carried : st.carried[i] \in {r}
    <3>1. Tally(st.carried, {r}) # 0
      BY <2>2, <2>3
    <3> QED
      BY <1>1, <3>1, TallyType
  <2>5. r.key = st.pos /\ Inside(w, r)
    BY <1>1, <2>4
  <2>6. SUFFICES ASSUME w.nearIncluded, ~(Cardinality(H) > 1) PROVE Deserved(w, rows, H)
    BY <2>1 DEF Deserved
  <2>7. H = {rows}
    <3>1. SUFFICES ASSUME NEW c \in H, c # rows PROVE FALSE
      BY <1>1
    <3>2. Cardinality({c, rows}) <= Cardinality(H) /\ Cardinality(H) \in Nat
      BY <1>1, FS_Subset, FS_CardinalityType
    <3>3. Cardinality({c, rows}) = 2
      <4>1. IsFiniteSet({rows}) /\ Cardinality({rows}) = 1
        BY FS_Singleton
      <4>2. Cardinality({rows} \union {c}) = Cardinality({rows}) + 1
        BY <3>1, <4>1, FS_AddElement
      <4>3. {rows} \union {c} = {c, rows}
        OBVIOUS
      <4> QED
        BY <4>1, <4>2, <4>3
    <3> QED
      BY <2>6, <3>2, <3>3
  <2>8. Tally(st.carried, {r}) <= Tally(rows, {r})
    BY <1>1, <2>7, CountIsTally
  <2>9. Asked(w, SeekRequest(w, st.pos), r)
    <3>1. st.pos \in Int /\ From(w, st.pos, r.key)
      BY <1>3, <2>5, <2>6 DEF From
    <3>2. UpTo(w, SeekRequest(w, st.pos).far, r.key)
      <4>1. UpTo(w, w.far, r.key)
        BY <1>1, <2>5 DEF Inside
      <4>2. \/ SeekRequest(w, st.pos).far = w.far
            \/ Beyond(w, SeekRequest(w, st.pos).far, st.pos)
        BY Edges
      <4> QED
        BY <2>5, <4>1, <4>2 DEF UpTo
    <3> QED
      BY <1>1, <2>5, <3>1, <3>2, InsideIsAsked
  <2>10. Kin(w, r) = {r}
    BY <1>1, <2>1, <2>5, KinOf
  <2>11. ~(Len(q) < Limit(w)) /\ \A k \in DOMAIN q : ~Beyond(w, q[k].key, r.key)
    <3>1. Tally(q, Kin(w, r)) # Tally(rows, Kin(w, r))
      BY <2>2, <2>3, <2>8, <2>10
    <3>2. ~(Len(q) < Limit(w) \/ \E k \in DOMAIN q : Beyond(w, q[k].key, r.key))
      BY <2>5, <2>9, <3>1, Covers
    <3> QED
      BY <3>2
  <2>12. \A k \in DOMAIN q : q[k].key = st.pos
    <3>1. SUFFICES ASSUME NEW k \in DOMAIN q PROVE q[k].key = st.pos
      OBVIOUS
    <3>2. From(w, st.pos, q[k].key) /\ q[k].key \in Int /\ st.pos \in Int
      BY <1>1, <1>3, <2>5 DEF Answers, Asked, SeekRequest
    <3> QED
      BY <1>3, <2>5, <2>11, <3>2 DEF From
  <2>13. PageCap(w) # None
    BY <1>1, <2>1, Limits
  <2>14. q # <<>> /\ Len(q) >= Limit(w)
    BY <1>1, <1>2, <2>11
  <2> QED
    BY <1>4, <2>1, <2>12, <2>13, <2>14
<1> QED
  BY <1>5, <1>6

\* The rows of a page at one key, as the walk carries them over.
LEMMA AtKeys ==
  ASSUME NEW w \in Walks, NEW q \in Seq(Rows), NEW e
  PROVE  /\ At(q, e) \in Seq(Rows)
         /\ \A k \in DOMAIN At(q, e) : /\ At(q, e)[k].key = e
                                       /\ \E i \in DOMAIN q : At(q, e)[k] = q[i]
         /\ \A row \in Rows : row.key = e => Tally(At(q, e), Kin(w, row)) = Tally(q, Kin(w, row))
         /\ \A row : Count(At(q, e), row) \in Nat /\ Count(At(q, e), row) <= Count(q, row)
<1> DEFINE I == {i \in DOMAIN q : q[i].key = e}
           carried == At(q, e)
<1>1. carried = Select(q, I) /\ I \in SUBSET DOMAIN q /\ \A i \in I : q[i].key = e
  BY DEF At
<1>2. \A V : (\A i \in Places(q, V) : q[i].key = e) => I \cap Places(q, V) = Places(q, V)
  BY DEF Places
<1> HIDE DEF carried, I
<1>3. carried \in Seq(Rows) /\ \A k \in DOMAIN carried : \E i \in I : carried[k] = q[i]
  BY <1>1, SelectKeeps
<1>4. \A V : Tally(carried, V) = Cardinality(I \cap Places(q, V))
  BY <1>1, TallySelect
<1>5. ASSUME NEW row \in Rows, row.key = e
      PROVE  Tally(carried, Kin(w, row)) = Tally(q, Kin(w, row))
  <2>1. \A i \in Places(q, Kin(w, row)) : q[i].key = e
    BY <1>5, KinOf DEF Places
  <2> QED
    BY <1>2, <1>4, <2>1 DEF Tally
<1>6. ASSUME NEW row
      PROVE  Count(carried, row) \in Nat /\ Count(carried, row) <= Count(q, row)
  <2>1. IsFiniteSet(Places(q, {row}))
    BY TallyType
  <2>2. Cardinality(I \cap Places(q, {row})) <= Cardinality(Places(q, {row}))
    BY <2>1, FS_Subset
  <2>3. Tally(carried, {row}) <= Tally(q, {row})
    BY <1>4, <2>2 DEF Tally
  <2>4. Tally(carried, {row}) \in Nat
    BY <1>3, TallyType
  <2> QED
    BY <2>3, <2>4, CountIsTally
<1>7. \A k \in DOMAIN carried : carried[k].key = e /\ \E i \in DOMAIN q : carried[k] = q[i]
  BY <1>1, <1>3
<1> QED
  BY <1>3, <1>5, <1>6, <1>7 DEF carried

\* A page without a row past `until` moves the walk to e, past its position
\* and not before any key of the page, when all that lies behind e is settled.
LEMMA SeekMovesTo ==
  ASSUME NEW w, NEW rows, NEW H, NEW st, NEW y, Asking(w, rows, H, st, y),
         NEW q, NEW p, Answers(w, rows, SeekRequest(w, st.pos), q, p), ~Passes(w, q),
         NEW e \in Int, st.pos = None \/ Beyond(w, e, st.pos),
         \A k \in DOMAIN q : ~Beyond(w, q[k].key, e),
         NEW y2, y2 = y \o Dedup(w, st.carried, q).fresh,
         \A row \in Rows :
           Behind(w, [pos |-> e, carried |-> At(q, e)], row.key) => Settled(w, H, y2, row)
  PROVE  /\ [pos |-> e, carried |-> At(q, e)] \in SeekStates
         /\ SeekInv(w, H, [pos |-> e, carried |-> At(q, e)], y2)
<1> DEFINE fresh == Dedup(w, st.carried, q).fresh
           next == [pos |-> e, carried |-> At(q, e)]
<1>1. /\ w \in Walks /\ w.strategy = "seek" /\ rows \in Seq(Rows)
      /\ rows \in H /\ H \subseteq Seq(Rows) /\ y \in Seq(Rows)
      /\ q \in Seq(Rows) /\ TakenBy(q, rows, p)
      /\ st.pos \in Int \union {None} /\ (st.pos = None => y = <<>>)
      /\ w.start # None => st.pos # None /\ ~Beyond(w, w.start, st.pos)
      /\ \A i \in DOMAIN y : ~Beyond(w, y[i].key, st.pos)
      /\ \A k \in DOMAIN q : Asked(w, SeekRequest(w, st.pos), q[k])
  BY DEF Asking, Answers, Venue, SeekStates, SeekInv
<1>2. None \notin Int /\ \A row \in Rows : row.key \in Int
  BY RowsAssumption
<1>3. w.start \in Int \union {None}
  BY <1>1, WalksAssumption
<1>4. /\ fresh \in Seq(Rows) /\ y2 = y \o fresh
      /\ \A k \in DOMAIN fresh : \E i \in DOMAIN q : fresh[k] = q[i]
      /\ Joins(w, y, q, y2)
  <2>1. /\ fresh \in Seq(Rows)
        /\ \A k \in DOMAIN fresh : \E i \in DOMAIN q : fresh[k] = q[i]
        /\ Joins(w, y, q, y \o fresh)
    BY FreshJoins
  <2>2. y2 = y \o fresh
    OBVIOUS
  <2> HIDE DEF fresh
  <2> QED
    BY <2>1, <2>2
<1> HIDE DEF fresh
<1>5. /\ At(q, e) \in Seq(Rows)
      /\ \A k \in DOMAIN At(q, e) : At(q, e)[k].key = e /\ \E i \in DOMAIN q : At(q, e)[k] = q[i]
      /\ \A row \in Rows : row.key = e => Tally(At(q, e), Kin(w, row)) = Tally(q, Kin(w, row))
      /\ \A row : Count(At(q, e), row) \in Nat /\ Count(At(q, e), row) <= Count(q, row)
  BY <1>1, AtKeys
<1>6. next.pos = e /\ next.carried = At(q, e) /\ next \in SeekStates
  BY <1>5 DEF SeekStates
<1> HIDE DEF next
<1>7. w.start # None => ~Beyond(w, w.start, e)
  BY <1>1, <1>2, <1>3, BeyondOrders
<1>8. \A i \in DOMAIN At(q, e) : At(q, e)[i].key = e /\ Inside(w, At(q, e)[i])
  <2>1. SUFFICES ASSUME NEW i \in DOMAIN q PROVE Inside(w, q[i])
    BY <1>5
  <2>2. q[i] \in Rows /\ ~Past(w, q[i])
    BY <1>1 DEF Passes
  <2> QED
    BY <1>1, <2>2, AskedIsInside
<1>9. \A row \in Rows : Count(At(q, e), row) <= Count(rows, row)
  <2>1. SUFFICES ASSUME NEW row \in Rows PROVE Count(At(q, e), row) <= Count(rows, row)
    OBVIOUS
  <2>2. Tally(q, {row}) <= Tally(rows, {row})
    BY <1>1, TallyTaken
  <2>3. Tally(q, {row}) \in Nat /\ Tally(rows, {row}) \in Nat
    BY <1>1, TallyType
  <2> QED
    BY <1>5, <2>2, <2>3, CountIsTally
<1>10. \A i \in DOMAIN y : Beyond(w, e, y[i].key)
  <2>1. SUFFICES ASSUME NEW i \in DOMAIN y PROVE Beyond(w, e, y[i].key)
    OBVIOUS
  <2>2. y[i].key \in Int /\ ~Beyond(w, y[i].key, st.pos) /\ st.pos # None
    BY <1>1, <1>2
  <2> QED
    BY <1>1, <2>2, BeyondOrders
<1>11. \A i \in DOMAIN y2 : ~Beyond(w, y2[i].key, e)
  <2>1. \A i \in DOMAIN y2 : \/ i \in DOMAIN y /\ y2[i] = y[i]
                             \/ \E k \in DOMAIN fresh : y2[i] = fresh[k]
    BY <1>1, <1>4
  <2>2. \A i \in DOMAIN y : y[i].key \in Int /\ ~Beyond(w, y[i].key, e)
    BY <1>1, <1>2, <1>10, BeyondOrders
  <2> QED
    BY <1>4, <2>1, <2>2
<1>12. ASSUME NEW row \in Rows, row.key = e
       PROVE  Tally(y2, Kin(w, row)) = Tally(At(q, e), Kin(w, row))
  <2>1. Tally(y, Kin(w, row)) = 0
    <3>1. \A i \in DOMAIN y : y[i].key # row.key
      BY <1>1, <1>2, <1>10, <1>12, BeyondOrders
    <3> QED
      BY <1>1, <3>1, NoneOfTheKey
  <2>2. Tally(At(q, e), Kin(w, row)) = Tally(q, Kin(w, row)) /\ Tally(q, Kin(w, row)) \in Nat
    BY <1>1, <1>5, <1>12, TallyType
  <2> QED
    BY <1>4, <2>1, <2>2 DEF Joins
<1>13. SeekInv(w, H, next, y2)
  <2>1. next.pos # None
    BY <1>2, <1>6
  <2>2. \A row \in Rows : Behind(w, next, row.key) => Settled(w, H, y2, row)
    BY DEF next
  <2> QED
    BY <1>1, <1>6, <1>7, <1>8, <1>9, <1>11, <1>12, <2>1, <2>2 DEF SeekInv
<1> QED
  BY <1>6, <1>13 DEF next

\* So it does to the extreme of the page,
LEMMA SeekMovesToExtreme ==
  ASSUME NEW w, NEW rows, NEW H, NEW st, NEW y, Asking(w, rows, H, st, y),
         NEW q, NEW p, Answers(w, rows, SeekRequest(w, st.pos), q, p),
         Whole(w, st, q), ~Passes(w, q), ~Stays(w, st, q),
         NEW e, e = Extreme(w, q),
         NEW y2, y2 = y \o Dedup(w, st.carried, q).fresh
  PROVE  /\ [pos |-> e, carried |-> At(q, e)] \in SeekStates
         /\ SeekInv(w, H, [pos |-> e, carried |-> At(q, e)], y2)
<1>1. /\ w \in Walks /\ w.strategy = "seek" /\ Venue(w, rows) /\ rows \in Seq(Rows)
      /\ rows \in H /\ q \in Seq(Rows) /\ st.pos \in Int \union {None}
      /\ \A k \in DOMAIN q : q[k] \in Rows /\ Asked(w, SeekRequest(w, st.pos), q[k])
  BY DEF Asking, Answers, Venue, SeekStates
<1>2. None \notin Int /\ \A row \in Rows : row.key \in Int
  BY RowsAssumption
<1>3. e # None /\ e # st.pos
  BY DEF Stays
<1>4. PICK k \in DOMAIN q : e = q[k].key /\ \A i \in DOMAIN q : ~Beyond(w, q[i].key, e)
  <2>1. q # <<>>
    BY <1>1, <1>3, Extremes
  <2> QED
    BY <1>1, <2>1, Extremes
<1>5. /\ e \in Int /\ q[k] \in Rows /\ Asked(w, SeekRequest(w, st.pos), q[k])
      /\ Inside(w, q[k])
  <2>1. q[k] \in Rows /\ Asked(w, SeekRequest(w, st.pos), q[k]) /\ ~Past(w, q[k])
    BY <1>1 DEF Passes
  <2> QED
    BY <1>2, <1>4, <2>1, AskedIsInside
<1>6. st.pos = None \/ Beyond(w, e, st.pos)
  BY <1>3, <1>4, <1>5 DEF Asked, From, SeekRequest
<1>8. Joins(w, y, q, y2)
  BY FreshJoins
<1>9. ASSUME NEW row \in Rows, Behind(w, [pos |-> e, carried |-> At(q, e)], row.key)
      PROVE  Settled(w, H, y2, row)
  <2>1. CASE Beyond(w, e, row.key)
    <3>1. UpTo(w, SeekRequest(w, st.pos).far, row.key)
      <4>1. UpTo(w, SeekRequest(w, st.pos).far, e)
        BY <1>4, <1>5 DEF Asked
      <4>2. SeekRequest(w, st.pos).far \in Int \union {None}
        BY Edges
      <4> QED
        BY <1>2, <1>5, <2>1, <4>1, <4>2, BeyondOrders DEF UpTo
    <3>2. \E i \in DOMAIN q : Beyond(w, q[i].key, row.key)
      BY <1>4, <2>1
    <3>3. Dedup(w, st.carried, q).remaining = <<>>
      BY DEF Whole
    <3> QED
      BY <1>8, <3>1, <3>2, <3>3, LeavesSettled
  <2>2. CASE ~Beyond(w, e, row.key)
    <3>1. row.key = e /\ (w.unique \/ At(q, e) = <<>>)
      BY <1>9, <2>2 DEF Behind
    <3>2. At(q, e) # <<>>
      <4>1. q[k] \in Kin(w, q[k])
        BY <1>1, <1>5, KinOf
      <4>2. Tally(q, Kin(w, q[k])) # 0
        BY <1>1, <4>1, TallyType
      <4>3. Tally(At(q, e), Kin(w, q[k])) = Tally(q, Kin(w, q[k]))
        BY <1>1, <1>4, <1>5, AtKeys
      <4> QED
        BY <4>2, <4>3, TallyEmpty
    <3>3. w.unique
      BY <3>1, <3>2
    <3>4. Tally(rows, Kin(w, row)) <= 1 /\ Tally(rows, Kin(w, row)) \in Nat
      BY <1>1, <3>3, HeldOnce, TallyType
    <3>5. CASE Inside(w, row)
      <4>1. q[k] \in Kin(w, row)
        BY <1>4, <1>5, <3>1, <3>3 DEF Kin, MarkOf
      <4>2. Tally(q, Kin(w, row)) # 0 /\ Tally(q, Kin(w, row)) \in Nat
        BY <1>1, <4>1, TallyType
      <4>3. Tally(q, Kin(w, row)) <= Tally(y2, Kin(w, row)) /\ Tally(y2, Kin(w, row)) \in Nat
        <5>1. y2 \in Seq(Rows)
          BY <1>8 DEF Joins
        <5>2. Tally(y2, Kin(w, row)) \in Nat
          BY <5>1, TallyType
        <5> QED
          BY <1>8, <5>2 DEF Joins
      <4> QED
        BY <1>1, <3>4, <4>2, <4>3 DEF Settled
    <3>6. CASE ~Inside(w, row)
      <4>1. Tally(rows, Kin(w, row)) = 0
        BY <1>1, <3>6, KinOf, TallyType
      <4>2. Tally(y2, Kin(w, row)) \in Nat
        BY <1>8, TallyType DEF Joins
      <4> QED
        BY <1>1, <4>1, <4>2 DEF Settled
    <3> QED
      BY <3>5, <3>6
  <2> QED
    BY <2>1, <2>2
<1> QED
  BY <1>4, <1>5, <1>6, <1>9, SeekMovesTo

\* and to the far bound of its span.
LEMMA SeekMovesToEdge ==
  ASSUME NEW w, NEW rows, NEW H, NEW st, NEW y, Asking(w, rows, H, st, y),
         NEW q, NEW p, Answers(w, rows, SeekRequest(w, st.pos), q, p),
         Whole(w, st, q), ~Passes(w, q), Short(w, st, q),
         NEW e, e = Edge(w, st.pos), e # None, Beyond(w, w.far, e),
         NEW y2, y2 = y \o Dedup(w, st.carried, q).fresh
  PROVE  /\ [pos |-> e, carried |-> At(q, e)] \in SeekStates
         /\ SeekInv(w, H, [pos |-> e, carried |-> At(q, e)], y2)
<1>1. /\ q \in Seq(Rows) /\ \A k \in DOMAIN q : Asked(w, SeekRequest(w, st.pos), q[k])
  BY DEF Answers
<1>2. None \notin Int /\ \A row \in Rows : row.key \in Int
  BY RowsAssumption
<1>3. w.span # None
  BY Edges
<1>4. /\ e = SeekRequest(w, st.pos).far /\ e \in Int /\ w.far \in Int
      /\ e = w.far \/ Beyond(w, e, st.pos)
      /\ w.nearIncluded \/ w.farIncluded
  BY <1>3, Edges
<1>5. Beyond(w, e, st.pos)
  BY <1>4, BeyondOrders
<1>6. \A k \in DOMAIN q : ~Beyond(w, q[k].key, e)
  <2>1. SUFFICES ASSUME NEW k \in DOMAIN q PROVE ~Beyond(w, q[k].key, e)
    OBVIOUS
  <2>2. UpTo(w, e, q[k].key) /\ q[k].key \in Int
    BY <1>1, <1>2, <1>4 DEF Asked
  <2> QED
    BY <1>2, <1>4, <2>2, BeyondOrders DEF UpTo
<1>7. Len(q) < Limit(w)
  BY ShortIsShort
<1>8. Joins(w, y, q, y2)
  BY FreshJoins
<1>9. ASSUME NEW row \in Rows, Behind(w, [pos |-> e, carried |-> At(q, e)], row.key)
      PROVE  Settled(w, H, y2, row)
  <2>1. UpTo(w, SeekRequest(w, st.pos).far, row.key)
    BY <1>4, <1>9 DEF Behind, UpTo
  <2>2. Dedup(w, st.carried, q).remaining = <<>>
    BY DEF Whole
  <2> QED
    BY <1>7, <1>8, <2>1, <2>2, LeavesSettled
<1> QED
  BY <1>4, <1>5, <1>6, <1>9, SeekMovesTo

\* A row out of the caller's range is owed to nobody.
LEMMA OutsideIsSettled ==
  ASSUME NEW w \in Walks, NEW rows \in Seq(Rows), NEW H, rows \in H,
         NEW y \in Seq(Rows), NEW row \in Rows, ~Inside(w, row)
  PROVE  Settled(w, H, y, row)
<1>1. Tally(rows, Kin(w, row)) = 0
  BY KinOf, TallyType
<1>2. Tally(y, Kin(w, row)) \in Nat
  BY TallyType
<1> QED
  BY <1>1, <1>2 DEF Settled

\* A walk that met a row past `until`, or the end of its last span, owes none.
LEMMA SeekEndsPast ==
  ASSUME NEW w, NEW rows, NEW H, NEW st, NEW y, Asking(w, rows, H, st, y),
         NEW q, NEW p, Answers(w, rows, SeekRequest(w, st.pos), q, p),
         Whole(w, st, q), Passes(w, q),
         NEW y2, Joins(w, y, q, y2)
  PROVE  AllSettled(w, H, y2)
<1>1. SUFFICES ASSUME NEW row \in Rows, Inside(w, row) PROVE Settled(w, H, y2, row)
  BY OutsideIsSettled DEF AllSettled, Asking, Venue, Joins
<1>2. /\ w \in Walks /\ w.strategy = "seek" /\ q \in Seq(Rows)
      /\ w.until \in Int \union {None}
      /\ w.until # None =>
           \A r, other \in Rows : r.key <= other.key => r.at <= other.at
  BY WalksAssumption DEF Asking, Answers
<1>3. PICK k \in DOMAIN q : Past(w, q[k])
  BY DEF Passes
<1>4. /\ q[k] \in Rows /\ q[k].key \in Int /\ q[k].at \in Int
      /\ row.key \in Int /\ row.at \in Int
  BY <1>2, RowsAssumption
<1>5. w.until # None /\ Beyond(w, q[k].at, w.until) /\ ~Beyond(w, row.at, w.until)
  BY <1>1, <1>2, <1>3 DEF Inside, Past
<1>6. /\ row.key <= q[k].key => row.at <= q[k].at
      /\ q[k].key <= row.key => q[k].at <= row.at
  BY <1>2, <1>4, <1>5
<1>7. Beyond(w, q[k].key, row.key)
  BY <1>2, <1>4, <1>5, <1>6 DEF Beyond
<1>8. UpTo(w, SeekRequest(w, st.pos).far, row.key)
  <2>1. SeekRequest(w, st.pos).far = w.far
    BY <1>5, Edges
  <2> QED
    BY <1>1, <1>2, <2>1 DEF Inside
<1>9. Dedup(w, st.carried, q).remaining = <<>>
  BY DEF Whole
<1>10. \E i \in DOMAIN q : Beyond(w, q[i].key, row.key)
  BY <1>7
<1> QED
  BY <1>8, <1>9, <1>10, LeavesSettled

\* A walk that ends on a page with room to spare has read to the far bound.
LEMMA SeekEndsShort ==
  ASSUME NEW w, NEW rows, NEW H, NEW st, NEW y, Asking(w, rows, H, st, y),
         NEW q, NEW p, Answers(w, rows, SeekRequest(w, st.pos), q, p),
         Whole(w, st, q), Short(w, st, q),
         Edge(w, st.pos) = None \/ ~Beyond(w, w.far, Edge(w, st.pos)),
         NEW y2, Joins(w, y, q, y2)
  PROVE  AllSettled(w, H, y2)
<1>1. SUFFICES ASSUME NEW row \in Rows PROVE Settled(w, H, y2, row)
  BY DEF AllSettled
<1>2. None \notin Int
  BY RowsAssumption
<1>3. SeekRequest(w, st.pos).far = w.far
  <2>1. CASE w.span = None
    BY <2>1, Edges
  <2>2. CASE w.span # None
    <3>1. /\ w.far \in Int /\ SeekRequest(w, st.pos).far = Edge(w, st.pos)
          /\ Edge(w, st.pos) \in Int /\ ~Beyond(w, Edge(w, st.pos), w.far)
      BY <2>2, Edges
    <3> QED
      BY <1>2, <3>1, BeyondOrders
  <2> QED
    BY <2>1, <2>2
<1>4. Inside(w, row) => UpTo(w, SeekRequest(w, st.pos).far, row.key)
  BY <1>3 DEF Inside, Asking
<1>5. Len(q) < Limit(w)
  BY ShortIsShort
<1>6. Dedup(w, st.carried, q).remaining = <<>>
  BY DEF Whole
<1> QED
  BY <1>4, <1>5, <1>6, LeavesSettled

-----------------------------------------------------------------------------
(* One page of a seek walk, all told.                                      *)

\* One page of a seek walk keeps its invariant, ends it with all settled, or
\* is refused for cause; in no case is a row given twice or out of range.
LEMMA SeekPageKeeps ==
  ASSUME NEW w, NEW rows, NEW H, NEW st, NEW y, Asking(w, rows, H, st, y), IsFiniteSet(H),
         NoneTwice(w, H, y),
         NEW step, step = SeekStep(w, st, SeekPage(w, rows, SeekRequest(w, st.pos)))
  PROVE  /\ step.kind = "refused" => Deserved(w, rows, H)
         /\ step.kind # "refused" => /\ y \o step.rows \in Seq(Rows)
                                     /\ NoneOutside(w, y \o step.rows)
                                     /\ NoneTwice(w, H, y \o step.rows)
         /\ step.kind = "more" => /\ step.next \in SeekStates
                                  /\ SeekInv(w, H, step.next, y \o step.rows)
         /\ step.kind = "done" => AllSettled(w, H, y \o step.rows)
<1> DEFINE q == SeekPage(w, rows, SeekRequest(w, st.pos))
           fresh == Dedup(w, st.carried, q).fresh
           extreme == Extreme(w, q)
           edge == Edge(w, st.pos)
<1>1. PICK p : Answers(w, rows, SeekRequest(w, st.pos), q, p)
  BY SeekAnswers DEF Asking
<1>2. step = SeekStep(w, st, q)
  OBVIOUS
<1> HIDE DEF q
<1>3. ASSUME ~Passes(w, q)
      PROVE  /\ Joins(w, y, q, y \o fresh) /\ y \o fresh \in Seq(Rows)
             /\ NoneOutside(w, y \o fresh) /\ NoneTwice(w, H, y \o fresh)
  <2>1. \A i \in DOMAIN q : ~Past(w, q[i])
    BY <1>3 DEF Passes
  <2> QED
    BY <1>1, <2>1, HandsOver DEF Joins
<1>4. LET kept == NotPast(w, fresh)
      IN  /\ Joins(w, y, q, y \o kept) /\ y \o kept \in Seq(Rows)
          /\ NoneOutside(w, y \o kept) /\ NoneTwice(w, H, y \o kept)
  BY <1>1, HandsOver DEF Joins
<1>5. CASE step = Refused /\ (~Whole(w, st, q) \/ (Full(w, q) /\ Stays(w, st, q)))
  <2>1. step.kind = "refused"
    BY <1>5 DEF Refused
  <2> QED
    BY <1>1, <1>5, <2>1, SeekRaises
<1>6. CASE Whole(w, st, q) /\ Passes(w, q) /\ step = Done(NotPast(w, fresh))
  <2>1. step.kind = "done" /\ step.rows = NotPast(w, fresh)
    BY <1>6 DEF Done
  <2>2. AllSettled(w, H, y \o NotPast(w, fresh))
    BY <1>1, <1>4, <1>6, SeekEndsPast
  <2> QED
    BY <1>4, <2>1, <2>2
<1>7. CASE /\ Whole(w, st, q) /\ ~Passes(w, q) /\ Short(w, st, q)
           /\ edge = None \/ ~Beyond(w, w.far, edge)
           /\ step = Done(fresh)
  <2>1. step.kind = "done" /\ step.rows = fresh
    BY <1>7 DEF Done
  <2>2. AllSettled(w, H, y \o fresh)
    BY <1>1, <1>3, <1>7, SeekEndsShort
  <2> QED
    BY <1>3, <1>7, <2>1, <2>2
<1>8. CASE /\ Whole(w, st, q) /\ ~Passes(w, q) /\ ~Stays(w, st, q)
           /\ step = More(fresh, extreme, At(q, extreme))
  <2>1. /\ step.kind = "more" /\ step.rows = fresh
        /\ step.next = [pos |-> extreme, carried |-> At(q, extreme)]
    BY <1>8 DEF More
  <2>2. step.next \in SeekStates /\ SeekInv(w, H, step.next, y \o fresh)
    BY <1>1, <1>8, <2>1, SeekMovesToExtreme
  <2> QED
    BY <1>3, <1>8, <2>1, <2>2
<1>9. CASE /\ Whole(w, st, q) /\ ~Passes(w, q) /\ Short(w, st, q)
           /\ edge # None /\ Beyond(w, w.far, edge)
           /\ step = More(fresh, edge, At(q, edge))
  <2>1. /\ step.kind = "more" /\ step.rows = fresh
        /\ step.next = [pos |-> edge, carried |-> At(q, edge)]
    BY <1>9 DEF More
  <2>2. step.next \in SeekStates /\ SeekInv(w, H, step.next, y \o fresh)
    BY <1>1, <1>9, <2>1, SeekMovesToEdge
  <2> QED
    BY <1>3, <1>9, <2>1, <2>2
<1> QED
  BY <1>2, <1>5, <1>6, <1>7, <1>8, <1>9, SeekCases

-----------------------------------------------------------------------------
(* One page of a token walk.                                               *)

\* The page q holds the rows at p, later than the cursor and in the order of
\* their keys; a later row is missing only when it comes after all of them.
Follows(rows, cursor, q, p) ==
  /\ q \in Seq(Rows) /\ TakenBy(q, rows, p)
  /\ \A k \in DOMAIN q : cursor = None \/ q[k].key > cursor
  /\ \A i, j \in DOMAIN q : i < j => q[i].key < q[j].key
  /\ \A i \in DOMAIN rows : cursor = None \/ rows[i].key > cursor =>
       \/ \E k \in DOMAIN q : p[k] = i
       \/ q # <<>> /\ \A k \in DOMAIN q : q[k].key < rows[i].key

\* The venue serves the first rows past a cursor, in their order.
LEMMA TokenAnswers ==
  ASSUME NEW w \in Walks, w.unique, NEW rows, Venue(w, rows), NEW cursor
  PROVE  \E p : Follows(rows, cursor, TokenPage(w, rows, cursor), p)
<1> DEFINE I == {i \in DOMAIN rows : cursor = None \/ rows[i].key > cursor}
           q == TokenPage(w, rows, cursor)
<1>1. /\ rows \in Seq(Rows) /\ \A i \in DOMAIN rows : rows[i].key \in Int
      /\ \A i, j \in DOMAIN rows : i < j => rows[i].key <= rows[j].key
      /\ \A i, j \in DOMAIN rows : rows[i].key = rows[j].key => i = j
  BY RowsAssumption DEF Venue, Sorted
<1>2. \A i, j \in DOMAIN rows : i < j => rows[i].key < rows[j].key
  <2>1. SUFFICES ASSUME NEW i \in DOMAIN rows, NEW j \in DOMAIN rows, i < j
                 PROVE  rows[i].key < rows[j].key
    OBVIOUS
  <2>2. i # j
    BY <1>1, <2>1
  <2> QED
    BY <1>1, <2>1, <2>2
<1>3. q = Page(w, Select(rows, I)) /\ I \in SUBSET DOMAIN rows
  BY DEF TokenPage
<1>4. \A i \in DOMAIN rows : i \in I <=> cursor = None \/ rows[i].key > cursor
  OBVIOUS
<1> HIDE DEF I, q
<1>5. q \in Seq(Rows) /\ Len(q) <= Limit(w)
  BY <1>1, <1>3, PageTakes
<1>6. PICK p \in [DOMAIN q -> I] :
        /\ TakenBy(q, rows, p)
        /\ \A i, j \in DOMAIN q : i < j => p[i] < p[j]
        /\ \A i \in I : \/ \E k \in DOMAIN q : p[k] = i
                        \/ Len(q) = Limit(w) /\ \A k \in DOMAIN q : p[k] < i
  BY <1>1, <1>3, PageTakes
<1>7. \A k \in DOMAIN q : p[k] \in DOMAIN rows /\ p[k] \in I /\ q[k] = rows[p[k]]
  BY <1>6 DEF TakenBy
<1>8. \A k \in DOMAIN q : cursor = None \/ q[k].key > cursor
  BY <1>4, <1>7
<1>9. \A i, j \in DOMAIN q : i < j => q[i].key < q[j].key
  BY <1>2, <1>6, <1>7
<1>10. ASSUME NEW i \in DOMAIN rows, cursor = None \/ rows[i].key > cursor
       PROVE  \/ \E k \in DOMAIN q : p[k] = i
              \/ q # <<>> /\ \A k \in DOMAIN q : q[k].key < rows[i].key
  <2>1. CASE Len(q) = Limit(w) /\ \A k \in DOMAIN q : p[k] < i
    <3>1. q # <<>>
      BY <2>1, Limits DEF Positive
    <3>2. \A k \in DOMAIN q : q[k].key < rows[i].key
      BY <1>2, <1>7, <2>1
    <3> QED
      BY <3>1, <3>2
  <2> QED
    BY <1>4, <1>6, <1>10, <2>1
<1>11. Follows(rows, cursor, q, p)
  BY <1>5, <1>6, <1>8, <1>9, <1>10 DEF Follows
<1> QED
  BY <1>11 DEF q

\* The rows of a kind that are later than the cursor are all in a page that
\* reaches as far as theirs, or holds the last row of all.
LEMMA TokenCovers ==
  ASSUME NEW w \in Walks, NEW rows, Venue(w, rows), w.unique,
         NEW cursor, NEW q, NEW p, Follows(rows, cursor, q, p),
         NEW row \in Rows, cursor = None \/ row.key > cursor,
         \/ q = <<>>
         \/ q # <<>> /\ (row.key <= Last(q).key \/ Last(q) = Last(rows))
  PROVE  Tally(q, Kin(w, row)) = Tally(rows, Kin(w, row))
<1>1. /\ rows \in Seq(Rows) /\ q \in Seq(Rows) /\ TakenBy(q, rows, p)
      /\ \A i \in DOMAIN rows : rows[i].key \in Int
      /\ \A i, j \in DOMAIN rows : i < j => rows[i].key <= rows[j].key
  BY RowsAssumption DEF Venue, Sorted, Follows
<1>2. ASSUME NEW i \in Places(rows, Kin(w, row)) PROVE \E k \in DOMAIN q : p[k] = i
  <2>1. i \in DOMAIN rows /\ rows[i].key = row.key
    BY KinOf DEF Places
  <2>2. SUFFICES ASSUME q # <<>>, \A k \in DOMAIN q : q[k].key < rows[i].key PROVE FALSE
    BY <2>1 DEF Follows
  <2>3. Len(q) \in DOMAIN q /\ Last(q) = q[Len(q)]
    BY <1>1, <2>2 DEF Last
  <2>4. p[Len(q)] \in DOMAIN rows /\ rows[p[Len(q)]] = Last(q)
    BY <2>3 DEF TakenBy, Follows
  <2>5. Last(q).key < rows[i].key /\ Last(q).key \in Int /\ rows[i].key \in Int
    BY <1>1, <2>1, <2>2, <2>3, <2>4
  <2>6. Last(q) = Last(rows)
    BY <2>1, <2>2, <2>5
  <2>7. rows[i].key <= rows[Len(rows)].key
    <3>1. i \in 1..Len(rows) /\ Len(rows) \in DOMAIN rows
      BY <1>1, <2>1
    <3>2. CASE i = Len(rows)
      BY <1>1, <2>1, <3>2
    <3>3. CASE i < Len(rows)
      BY <1>1, <2>1, <3>1, <3>3
    <3> QED
      BY <3>1, <3>2, <3>3
  <2>8. Last(rows) = rows[Len(rows)]
    BY DEF Last
  <2> QED
    BY <1>1, <2>5, <2>6, <2>7, <2>8
<1> QED
  BY <1>1, <1>2, TallyTaken

\* One page of a token walk keeps its invariant, or ends it with all settled.
LEMMA TokenPageKeeps ==
  ASSUME NEW w \in Walks, w.strategy = "token", NEW rows, Venue(w, rows),
         NEW H \in SUBSET Seq(Rows), rows \in H,
         NEW cursor \in Int \union {None}, NEW y \in Seq(Rows),
         TokenInv(w, H, cursor, y), NoneTwice(w, H, y),
         NEW q, q = TokenPage(w, rows, cursor),
         NEW after, after = CursorAfter(w, rows, cursor)
  PROVE  /\ y \o q \in Seq(Rows) /\ NoneTwice(w, H, y \o q)
         /\ TokenDone(w, Len(q), after) => AllSettled(w, H, y \o q)
         /\ ~TokenDone(w, Len(q), after) => after \in Int /\ TokenInv(w, H, after, y \o q)
<1>1. w.unique /\ None \notin Int
  BY WalksAssumption, RowsAssumption
<1>2. PICK p : Follows(rows, cursor, q, p)
  BY <1>1, TokenAnswers
<1>3. /\ rows \in Seq(Rows) /\ q \in Seq(Rows) /\ TakenBy(q, rows, p)
      /\ \A k \in DOMAIN q : cursor = None \/ q[k].key > cursor
      /\ \A i, j \in DOMAIN q : i < j => q[i].key < q[j].key
  BY <1>2 DEF Follows, Venue
<1>4. /\ y \o q \in Seq(Rows)
      /\ \A k \in DOMAIN q : q[k].key \in Int
      /\ \A i \in DOMAIN y : y[i].key \in Int
  BY <1>3, RowsAssumption
<1>5. /\ cursor = None => y = <<>>
      /\ \A i \in DOMAIN y : y[i].key <= cursor
      /\ cursor # None => \A row \in Rows : row.key <= cursor => Settled(w, H, y, row)
  BY DEF TokenInv
<1>6. \A row \in Rows : row.key \in Int
  BY RowsAssumption
<1>7. \A row \in Rows : /\ Tally(y \o q, Kin(w, row)) = Tally(y, Kin(w, row)) + Tally(q, Kin(w, row))
                        /\ Tally(y, Kin(w, row)) \in Nat /\ Tally(q, Kin(w, row)) \in Nat
                        /\ Tally(rows, Kin(w, row)) \in Nat
                        /\ Tally(q, Kin(w, row)) <= Tally(rows, Kin(w, row))
  BY <1>3, TallyConcat, TallyType, TallyTaken
<1>8. \A row \in Rows : cursor = None \/ row.key > cursor => Tally(y, Kin(w, row)) = 0
  <2>1. SUFFICES ASSUME NEW row \in Rows, cursor = None \/ row.key > cursor
                 PROVE  Tally(y, Kin(w, row)) = 0
    OBVIOUS
  <2>2. \A i \in DOMAIN y : y[i].key # row.key
    BY <1>4, <1>5, <1>6, <2>1
  <2> QED
    BY <2>2, NoneOfTheKey
<1>9. \A row \in Rows : cursor # None /\ row.key <= cursor => Tally(q, Kin(w, row)) = 0
  <2>1. SUFFICES ASSUME NEW row \in Rows, cursor # None, row.key <= cursor
                 PROVE  Tally(q, Kin(w, row)) = 0
    OBVIOUS
  <2>2. \A k \in DOMAIN q : q[k].key # row.key
    BY <1>3, <1>4, <1>6, <2>1
  <2> QED
    BY <1>3, <2>2, NoneOfTheKey
<1>10. NoneTwice(w, H, y \o q)
  <2>1. SUFFICES ASSUME NEW row \in Rows
                 PROVE  \E c \in H : Tally(y \o q, Kin(w, row)) <= Tally(c, Kin(w, row))
    BY DEF NoneTwice
  <2>2. CASE cursor = None \/ row.key > cursor
    BY <1>7, <1>8, <2>2
  <2>3. CASE cursor # None /\ row.key <= cursor
    BY <1>7, <1>9, <2>3 DEF NoneTwice
  <2> QED
    BY <1>6, <2>2, <2>3
<1>11. \A row \in Rows :
         \/ cursor # None /\ row.key <= cursor
         \/ q = <<>>
         \/ q # <<>> /\ (row.key <= Last(q).key \/ Last(q) = Last(rows))
         => Settled(w, H, y \o q, row)
  <2>1. SUFFICES ASSUME NEW row \in Rows,
                        \/ cursor # None /\ row.key <= cursor
                        \/ q = <<>>
                        \/ q # <<>> /\ (row.key <= Last(q).key \/ Last(q) = Last(rows))
                 PROVE  Settled(w, H, y \o q, row)
    OBVIOUS
  <2>2. CASE cursor # None /\ row.key <= cursor
    <3>1. PICK c \in H : Tally(c, Kin(w, row)) <= Tally(y, Kin(w, row))
      BY <1>5, <2>2 DEF Settled
    <3>2. Tally(c, Kin(w, row)) \in Nat
      BY TallyType
    <3> QED
      BY <1>7, <3>1, <3>2 DEF Settled
  <2>3. CASE ~(cursor # None /\ row.key <= cursor)
    <3>1. cursor = None \/ row.key > cursor
      BY <1>6, <2>3
    <3>2. Tally(q, Kin(w, row)) = Tally(rows, Kin(w, row))
      BY <1>1, <1>2, <2>1, <2>3, <3>1, TokenCovers
    <3> QED
      BY <1>7, <1>8, <3>1, <3>2 DEF Settled
  <2> QED
    BY <2>2, <2>3
<1>12. after = IF q = <<>> THEN IF w.done = "empty" THEN cursor ELSE None
               ELSE IF w.done = "empty" \/ Last(q) # Last(rows) THEN Last(q).key
               ELSE None
  BY DEF CursorAfter
<1>13. q = <<>> <=> Len(q) = 0
  BY <1>3
<1>14. q # <<>> => /\ Len(q) \in DOMAIN q /\ Last(q) = q[Len(q)] /\ Last(q).key \in Int
                   /\ \A k \in DOMAIN q : q[k].key <= Last(q).key
  <2>1. SUFFICES ASSUME q # <<>>
                 PROVE  /\ Len(q) \in DOMAIN q /\ Last(q) = q[Len(q)] /\ Last(q).key \in Int
                        /\ \A k \in DOMAIN q : q[k].key <= Last(q).key
    OBVIOUS
  <2>2. Len(q) \in DOMAIN q /\ Last(q) = q[Len(q)] /\ Last(q).key \in Int
    BY <1>3, <1>4, <2>1 DEF Last
  <2>3. \A k \in DOMAIN q : k = Len(q) \/ k < Len(q)
    BY <1>3
  <2> QED
    BY <1>3, <1>4, <2>2, <2>3
<1>15. ASSUME TokenDone(w, Len(q), after) PROVE AllSettled(w, H, y \o q)
  <2>1. q = <<>> \/ (q # <<>> /\ Last(q) = Last(rows))
    BY <1>1, <1>12, <1>13, <1>14, <1>15 DEF TokenDone
  <2> QED
    BY <1>11, <2>1 DEF AllSettled
<1>16. ASSUME ~TokenDone(w, Len(q), after)
       PROVE  after \in Int /\ TokenInv(w, H, after, y \o q)
  <2>1. q # <<>> /\ after = Last(q).key
    BY <1>12, <1>13, <1>16 DEF TokenDone
  <2>2. after \in Int /\ after # None
    BY <1>1, <1>14, <2>1
  <2>3. \A i \in DOMAIN (y \o q) : (y \o q)[i].key <= after
    <3>1. \A i \in DOMAIN (y \o q) : \/ i \in DOMAIN y /\ (y \o q)[i] = y[i]
                                     \/ \E k \in DOMAIN q : (y \o q)[i] = q[k]
      BY <1>3
    <3>2. \A i \in DOMAIN y : y[i].key <= after
      <4>1. SUFFICES ASSUME NEW i \in DOMAIN y PROVE y[i].key <= after
        OBVIOUS
      <4>2. cursor # None /\ y[i].key <= cursor
        BY <1>5
      <4>3. after > cursor
        BY <1>3, <1>14, <2>1, <4>2
      <4> QED
        BY <1>4, <2>2, <4>2, <4>3
    <3> QED
      BY <1>14, <2>1, <3>1, <3>2
  <2>4. \A row \in Rows : row.key <= after => Settled(w, H, y \o q, row)
    BY <1>11, <2>1
  <2> QED
    BY <2>2, <2>3, <2>4 DEF TokenInv
<1> QED
  BY <1>4, <1>10, <1>15, <1>16

-----------------------------------------------------------------------------
(* One page of an index walk.                                              *)

\* The page at an index holds the rows after those the pages before it stand
\* for, as many as the venue serves or has.
LEMMA IndexAnswers ==
  ASSUME NEW w \in Walks, NEW rows \in Seq(Rows), NEW index, Reached(w, index) \in Nat
  PROVE  LET R == Reached(w, index)
             q == IndexPage(w, rows, index)
         IN  /\ q \in Seq(Rows) /\ Len(q) <= Limit(w)
             /\ \A k \in DOMAIN q : R + k \in DOMAIN rows /\ q[k] = rows[R + k]
             /\ \A i \in DOMAIN rows : R < i /\ i <= R + Limit(w) => i - R \in DOMAIN q
<1> DEFINE R == Reached(w, index)
           s == SubSeq(rows, R + 1, Len(rows))
           q == SubSeq(s, 1, IF Len(s) < Limit(w) THEN Len(s) ELSE Limit(w))
<1>1. IndexPage(w, rows, index) = q
  BY DEF IndexPage, Page, Reached
<1>2. Limit(w) \in Nat \ {0} /\ R \in Nat
  BY Limits DEF Positive
<1> HIDE DEF R
<1>3. /\ q \in Seq(Rows) /\ Len(q) <= Limit(w)
      /\ \A k \in DOMAIN q : R + k \in DOMAIN rows /\ q[k] = rows[R + k]
      /\ \A i \in DOMAIN rows : R < i /\ i <= R + Limit(w) => i - R \in DOMAIN q
  BY <1>2, Windows
<1> HIDE DEF q
<1> QED
  BY <1>1, <1>3 DEF R

\* The size an index walk measures a page against is the one the venue honours.
LEMMA SizeIsLimit ==
  ASSUME NEW w \in Walks, Indexed(w)
  PROVE  LET size == IndexSize(w.ask, w.maximum, w.default)
         IN  /\ size # None => size = Limit(w)
             /\ ~w.sized => size = None
<1>1. None \notin Int
  BY RowsAssumption
<1>2. /\ w.limit \in Positive /\ w.maximum \in Positive \union {None}
      /\ w.default \in {None, w.limit}
  BY WalksAssumption
<1>3. /\ w.ask \in Positive \union {None} /\ w.strategy # "seek"
      /\ ~w.sized => w.ask = None /\ w.maximum = None /\ w.default = None
  BY WalksAssumption DEF Indexed
<1> QED
  BY <1>1, <1>2, <1>3 DEF IndexSize, Limit, Sent, AtMost, Positive

\* A total is a number, and missing only from a venue that states none.
LEMMA Totals ==
  ASSUME NEW w \in Walks, NEW rows \in Seq(Rows)
  PROVE  Total(w, rows) \in Int \union {None} /\ (Total(w, rows) = None => w.unstated)
<1>1. None \notin Int
  BY RowsAssumption
<1>2. Len(rows) \in Nat /\ Limit(w) \in Nat \ {0}
  BY Limits DEF Positive
<1>3. (Len(rows) + Limit(w) - 1) \div Limit(w) \in Int
  <2>1. Len(rows) + Limit(w) - 1 \in Nat
    BY <1>2
  <2> QED
    BY <1>2, <2>1, Divides
<1> QED
  BY <1>1, <1>2, <1>3 DEF Total

Unsized(w) ==
  /\ w.strategy = "offset" /\ w.strict /\ w.done = "total" /\ w.counts = "pages"
  /\ IndexSize(w.ask, w.maximum, w.default) = None

\* One page further is as many rows further as a page holds.
LEMMA NextPage ==
  ASSUME NEW w \in Walks, w.strategy = "page", NEW index \in Int
  PROVE  (index - w.first + 1) * Limit(w) = Reached(w, index) + Limit(w)
<1>1. Limit(w) \in Nat \ {0}
  BY Limits DEF Positive
<1>2. w.first \in Int
  BY WalksAssumption
<1>3. (index - w.first + 1) * Limit(w) = (index - w.first) * Limit(w) + Limit(w)
  BY <1>1, <1>2, Multiples
<1> QED
  BY <1>3 DEF Reached

\* A walk by index ends when what was read covers the collection as it is.
LEMMA IndexEnds ==
  ASSUME NEW w \in Walks, Indexed(w), ~Unsized(w),
         NEW rows \in Seq(Rows), NEW index \in Int, Reached(w, index) \in Nat,
         IndexDone(w, IndexSize(w.ask, w.maximum, w.default), index,
                   Len(IndexPage(w, rows, index)), Total(w, rows))
  PROVE  Len(rows) <= Reached(w, index) + Limit(w)
<1> DEFINE size == IndexSize(w.ask, w.maximum, w.default)
           q == IndexPage(w, rows, index)
           R == Reached(w, index)
           L == Limit(w)
           n == Len(rows)
           total == Total(w, rows)
<1>1. n \in Nat /\ L \in Nat \ {0} /\ DOMAIN rows = 1..n
  BY Limits DEF Positive
<1>2. /\ q \in Seq(Rows) /\ Len(q) <= L
      /\ \A i \in DOMAIN rows : R < i /\ i <= R + L => i - R \in DOMAIN q
  BY IndexAnswers
<1>3. /\ size # None => size = L
      /\ ~w.sized => size = None
  BY SizeIsLimit
<1>4. IndexDone(w, size, index, Len(q), total) /\ R \in Nat
  OBVIOUS
<1>5. /\ w.strategy = "page" => R = (index - w.first) * L /\ w.first \in Int
      /\ w.strategy # "page" => R = index /\ w.strategy = "offset"
  BY WalksAssumption DEF Reached, Indexed
<1>6. Unsized(w) <=> /\ w.strategy = "offset" /\ w.strict /\ w.done = "total"
                     /\ w.counts = "pages" /\ size = None
  BY DEF Unsized
<1>7. total # None =>
        total = IF w.counts = "pages" THEN (n + L - 1) \div L ELSE n
  BY DEF Total
<1> HIDE DEF size, q, R, L, n, total
<1>8. Len(q) \in Nat /\ DOMAIN q = 1..Len(q)
  BY <1>2
<1>9. CASE Len(q) < L
  <2>1. SUFFICES ASSUME n > R + L PROVE FALSE
    BY <1>1, <1>4 DEF n, R, L
  <2>2. R + L \in DOMAIN rows /\ R < R + L /\ R + L <= R + L /\ (R + L) - R = L
    BY <1>1, <1>4, <2>1
  <2>3. L \in DOMAIN q
    BY <1>2, <2>2
  <2> QED
    BY <1>1, <1>8, <1>9, <2>3
<1>10. CASE w.done = "total" /\ total # None /\ TotalReached(w, size, index, Len(q), total)
  <2>1. CASE w.counts = "pages" /\ w.strategy = "page"
    <3>1. index - w.first + 1 >= (n + L - 1) \div L /\ index - w.first + 1 \in Int
      BY <1>5, <1>7, <1>10, <2>1 DEF TotalReached, PagesReached
    <3>2. (index - w.first + 1) * L >= n
      BY <1>1, <3>1, PagesHold
    <3>3. (index - w.first + 1) * L = R + L
      BY <2>1, NextPage DEF R, L
    <3> QED
      BY <1>1, <1>4, <3>2, <3>3 DEF n, R, L
  <2>2. CASE w.counts = "pages" /\ w.strategy # "page"
    <3> DEFINE unit == IF w.strict /\ ~w.sized THEN 1 ELSE size
               pages == (n + L - 1) \div L
    <3>1. unit # None /\ (index \div unit) + 1 >= pages
      BY <1>5, <1>7, <1>10, <2>2 DEF TotalReached, PagesReached
    <3> HIDE DEF pages
    <3>2. size = L
      BY <1>3, <1>5, <1>6, <1>10, <2>2, <3>1
    <3>3. (index \div L) + 1 >= pages /\ index \in Nat /\ index = R
      <4>1. unit = L
        <5>1. w.sized
          BY <1>1, <1>3, <3>2, RowsAssumption
        <5> QED
          BY <3>2, <5>1
      <4> HIDE DEF unit
      <4>2. (index \div L) + 1 >= pages
        BY <3>1, <4>1
      <4> QED
        BY <1>4, <1>5, <2>2, <4>2
    <3>4. index \div L \in Nat /\ (index \div L) * L <= index
      BY <1>1, <3>3, Divides
    <3> DEFINE d == index \div L
    <3>5. d \in Nat /\ d + 1 >= pages /\ d * L <= R
      BY <3>3, <3>4
    <3> HIDE DEF d
    <3>6. (d + 1) * L >= n
      <4>1. d + 1 \in Int /\ d + 1 >= (n + L - 1) \div L
        BY <3>5 DEF pages
      <4> HIDE DEF pages
      <4> QED
        BY <1>1, <4>1, PagesHold
    <3>7. (d + 1) * L = d * L + L /\ d * L \in Int
      <4>1. (d - 0 + 1) * L = (d - 0) * L + L /\ (d - 0) * L \in Int
        BY <1>1, <3>5, Multiples
      <4>2. d - 0 = d
        BY <3>5
      <4> QED
        BY <4>1, <4>2
    <3>8. n <= R + L
      BY <1>1, <1>4, <3>5, <3>6, <3>7
    <3> QED
      BY <3>8 DEF n, R, L
  <2>3. CASE w.counts # "pages" /\ w.strategy = "offset"
    <3>1. index + Len(q) >= n
      BY <1>7, <1>10, <2>3 DEF TotalReached, ItemsReached
    <3>2. n <= R + L
      BY <1>1, <1>2, <1>4, <1>5, <1>8, <2>3, <3>1
    <3> QED
      BY <3>2 DEF n, R, L
  <2>4. CASE w.counts # "pages" /\ w.strategy = "page"
    <3>1. size = L /\ (index - w.first + 1) * L >= n
      BY <1>3, <1>7, <1>10, <2>4 DEF TotalReached, ItemsReached
    <3>2. (index - w.first + 1) * L = R + L
      BY <2>4, NextPage DEF R, L
    <3> QED
      BY <1>1, <1>4, <3>1, <3>2 DEF n, R, L
  <2> QED
    BY <1>5, <2>1, <2>2, <2>3, <2>4
<1>11. Len(q) < L \/ (w.done = "total" /\ total # None /\ TotalReached(w, size, index, Len(q), total))
  BY <1>1, <1>3, <1>4, <1>8 DEF IndexDone
<1> QED
  BY <1>9, <1>10, <1>11

\* A page number and an offset both move past the rows of the page.
LEMMA IndexMoves ==
  ASSUME NEW w \in Walks, Indexed(w), NEW index \in Int, Reached(w, index) \in Nat,
         NEW n \in Nat, n <= Limit(w)
  PROVE  LET next == NextIndex(w, index, n)
         IN  /\ next \in Int /\ Reached(w, next) \in Nat
             /\ Reached(w, index) + n <= Reached(w, next)
             /\ Reached(w, next) <= Reached(w, index) + Limit(w)
<1>1. Limit(w) \in Nat \ {0}
  BY Limits DEF Positive
<1>2. CASE w.strategy = "page"
  <2>1. w.first \in Int
    BY <1>2, WalksAssumption
  <2>2. ((index + 1) - w.first) * Limit(w) = (index - w.first) * Limit(w) + Limit(w)
    BY <1>1, <2>1, Multiples
  <2>3. NextIndex(w, index, n) = index + 1
    BY <1>2 DEF NextIndex
  <2>4. \A k : Reached(w, k) = (k - w.first) * Limit(w)
    BY <1>2 DEF Reached
  <2>5. Reached(w, index + 1) = Reached(w, index) + Limit(w)
    BY <2>2, <2>4
  <2> QED
    BY <1>1, <2>3, <2>5
<1>3. CASE w.strategy # "page"
  <2>1. /\ NextIndex(w, index, n) = index + n
        /\ Reached(w, index) = index /\ Reached(w, index + n) = index + n
    BY <1>3 DEF NextIndex, Reached
  <2> QED
    BY <1>1, <2>1
<1> QED
  BY <1>2, <1>3

\* One page of a walk by index: if the collection only grew at its end, no
\* row is given twice, and all are settled where a terminator holds.
LEMMA IndexPageKeeps ==
  ASSUME NEW w \in Walks, Indexed(w), NEW rows \in Seq(Rows),
         NEW H \in SUBSET Seq(Rows), rows \in H,
         NEW index \in Int, NEW y \in Seq(Rows), IndexInv(w, H, index, y)
  PROVE  LET q    == IndexPage(w, rows, index)
             next == NextIndex(w, index, Len(q))
             done == IndexDone(w, IndexSize(w.ask, w.maximum, w.default), index,
                               Len(q), Total(w, rows))
         IN  /\ y \o q \in Seq(Rows)
             /\ Chain(H) => NoneTwice(w, H, y \o q)
             /\ Chain(H) /\ done /\ ~Unsized(w) => AllSettled(w, H, y \o q)
             /\ next \in Int /\ IndexInv(w, H, next, y \o q)
<1> DEFINE q == IndexPage(w, rows, index)
           R == Reached(w, index)
           next == NextIndex(w, index, Len(q))
           done == IndexDone(w, IndexSize(w.ask, w.maximum, w.default), index,
                             Len(q), Total(w, rows))
<1>1. R \in Nat /\ Limit(w) \in Nat \ {0}
  BY Limits DEF IndexInv, Positive
<1>2. /\ q \in Seq(Rows) /\ Len(q) <= Limit(w)
      /\ \A k \in DOMAIN q : R + k \in DOMAIN rows /\ q[k] = rows[R + k]
      /\ \A i \in DOMAIN rows : R < i /\ i <= R + Limit(w) => i - R \in DOMAIN q
  BY <1>1, IndexAnswers
<1>3. done /\ ~Unsized(w) => Len(rows) <= R + Limit(w)
  BY <1>1, IndexEnds
<1> HIDE DEF q, done
<1>4. Len(q) \in Nat /\ y \o q \in Seq(Rows)
  BY <1>2
<1>5. /\ next \in Int /\ Reached(w, next) \in Nat
      /\ R + Len(q) <= Reached(w, next) /\ Reached(w, next) <= R + Limit(w)
  BY <1>1, <1>2, <1>4, IndexMoves
<1> HIDE DEF next, R
<1>6. ASSUME Chain(H)
      PROVE  \E least, most \in H :
               /\ \A c \in H : IsPrefix(least, c) /\ IsPrefix(c, most)
               /\ Filled(y \o q, least, most, Reached(w, next))
               /\ Filled(y \o q, least, most, R + Limit(w))
  <2>1. PICK least \in H, most \in H :
          /\ \A c \in H : IsPrefix(least, c) /\ IsPrefix(c, most)
          /\ Filled(y, least, most, R)
    BY <1>6 DEF IndexInv, R
  <2>2. least \in Seq(Rows) /\ most \in Seq(Rows) /\ IsPrefix(least, rows) /\ IsPrefix(rows, most)
    BY <2>1
  <2>3. R + Len(q) <= R + Limit(w) /\ R + Limit(w) \in Nat
    BY <1>1, <1>2, <1>4
  <2>4. Filled(y \o q, least, most, R + Limit(w))
    BY <1>1, <1>2, <2>1, <2>2, <2>3, PageFills
  <2>5. \A i \in DOMAIN rows : R < i /\ i <= Reached(w, next) => i - R \in DOMAIN q
    <3>1. SUFFICES ASSUME NEW i \in DOMAIN rows, R < i, i <= Reached(w, next)
                   PROVE  i <= R + Limit(w)
      BY <1>2
    <3> QED
      BY <1>1, <1>5, <3>1
  <2>6. Filled(y \o q, least, most, Reached(w, next))
    BY <1>1, <1>2, <1>5, <2>1, <2>2, <2>5, PageFills
  <2> QED
    BY <2>1, <2>4, <2>6
<1>7. ASSUME Chain(H) PROVE NoneTwice(w, H, y \o q)
  <2>1. PICK least \in H, most \in H :
          /\ \A c \in H : IsPrefix(least, c) /\ IsPrefix(c, most)
          /\ Filled(y \o q, least, most, Reached(w, next))
    BY <1>6, <1>7
  <2>2. \A V : Tally(y \o q, V) <= Tally(most, V)
    BY <1>4, <1>5, <2>1, FilledTallies
  <2> QED
    BY <2>2 DEF NoneTwice
<1>8. ASSUME Chain(H), done, ~Unsized(w) PROVE AllSettled(w, H, y \o q)
  <2>1. PICK least \in H, most \in H :
          /\ \A c \in H : IsPrefix(least, c) /\ IsPrefix(c, most)
          /\ Filled(y \o q, least, most, R + Limit(w))
    BY <1>6, <1>8
  <2>2. Len(least) <= R + Limit(w) /\ R + Limit(w) \in Nat
    <3>1. Len(least) <= Len(rows)
      BY <2>1 DEF IsPrefix
    <3>2. Len(least) \in Nat /\ Len(rows) \in Nat
      OBVIOUS
    <3> QED
      BY <1>1, <1>3, <1>8, <3>1, <3>2
  <2>3. \A V : Tally(least, V) <= Tally(y \o q, V)
    BY <1>4, <2>1, <2>2, FilledTallies
  <2> QED
    BY <2>3 DEF AllSettled, Settled
<1>9. IndexInv(w, H, next, y \o q)
  BY <1>5, <1>6 DEF IndexInv
<1> QED
  BY <1>4, <1>5, <1>7, <1>8, <1>9 DEF q, next, done

-----------------------------------------------------------------------------
(* The beginning of a walk, and a change of the collection.                *)

\* A walk begins with nothing handed over, and owes nothing before its start.
LEMMA Begins ==
  ASSUME NEW w \in Walks, NEW rows, Venue(w, rows)
  PROVE  /\ w.strategy = "seek" => Start(w) \in SeekStates /\ SeekInv(w, {rows}, Start(w), <<>>)
         /\ w.strategy = "token" => Start(w) = None /\ TokenInv(w, {rows}, Start(w), <<>>)
         /\ Indexed(w) => Start(w) \in Int /\ IndexInv(w, {rows}, Start(w), <<>>)
         /\ NoneOutside(w, <<>>) /\ NoneTwice(w, {rows}, <<>>)
<1>1. rows \in Seq(Rows) /\ None \notin Int /\ \A row \in Rows : row.key \in Int
  BY RowsAssumption DEF Venue
<1>2. \A V : Tally(<<>>, V) = 0 /\ Tally(rows, V) \in Nat
  BY <1>1, TallyEmpty, TallyType
<1>3. \A row : Count(<<>>, row) = 0 /\ Count(rows, row) \in Nat
  BY <1>2, CountIsTally
<1>4. ASSUME w.strategy = "seek"
      PROVE  Start(w) \in SeekStates /\ SeekInv(w, {rows}, Start(w), <<>>)
  <2>1. Start(w) = [pos |-> w.start, carried |-> <<>>] /\ w.start \in Int \union {None}
    BY <1>4, WalksAssumption DEF Start
  <2>2. /\ Start(w) \in SeekStates
        /\ Start(w).pos = w.start /\ Start(w).carried = <<>>
    BY <2>1 DEF SeekStates
  <2>3. w.start # None => ~Beyond(w, w.start, w.start)
    BY <2>1, BeyondOrders
  <2>4. ASSUME NEW row \in Rows, Behind(w, Start(w), row.key)
        PROVE  Settled(w, {rows}, <<>>, row)
    <3>1. ~From(w, w.start, row.key)
      <4>1. w.start \in Int /\ row.key \in Int
        BY <1>1, <2>1, <2>2, <2>4 DEF Behind
      <4>2. Beyond(w, w.start, row.key) \/ (row.key = w.start /\ ~w.nearIncluded)
        BY <2>2, <2>4 DEF Behind
      <4> QED
        BY <1>1, <4>1, <4>2, BeyondOrders DEF From
    <3>2. ~Inside(w, row)
      BY <1>4, <3>1 DEF Inside
    <3>3. Kin(w, row) = {}
      BY <3>2, KinOf
    <3>4. Tally(rows, {}) = 0
      BY <1>1, TallyType
    <3> QED
      BY <1>2, <3>3, <3>4 DEF Settled
  <2>5. \A row \in Rows : Count(<<>>, row) <= Count(rows, row)
    BY <1>3
  <2> DEFINE st == Start(w)
             empty == <<>>
  <2>6. DOMAIN empty = {}
    OBVIOUS
  <2>7. st.pos = w.start /\ st.carried = empty
    BY <2>2
  <2>8. \A row \in Rows : Behind(w, st, row.key) => Settled(w, {rows}, empty, row)
    BY <2>4
  <2>9. \A row \in Rows : Count(empty, row) <= Count(rows, row)
    BY <2>5
  <2>10. st.pos = None => st.carried = <<>> /\ empty = <<>>
    BY <2>7
  <2> HIDE DEF st, empty
  <2>11. \A i \in DOMAIN st.carried : st.carried[i].key = st.pos /\ Inside(w, st.carried[i])
    BY <2>6, <2>7
  <2>12. \E c \in {rows} : \A row \in Rows : Count(st.carried, row) <= Count(c, row)
    BY <2>7, <2>9
  <2>13. \A i \in DOMAIN empty : ~Beyond(w, empty[i].key, st.pos)
    BY <2>6
  <2>14. \A row \in Rows : row.key = st.pos => Tally(empty, Kin(w, row)) = Tally(st.carried, Kin(w, row))
    BY <2>7
  <2>15. w.start # None => st.pos # None /\ ~Beyond(w, w.start, st.pos)
    BY <2>3, <2>7
  <2>16. SeekInv(w, {rows}, st, empty)
    BY <2>8, <2>10, <2>11, <2>12, <2>13, <2>14, <2>15 DEF SeekInv
  <2> QED
    BY <2>2, <2>16 DEF st, empty
<1>5. ASSUME w.strategy = "token"
      PROVE  Start(w) = None /\ TokenInv(w, {rows}, Start(w), <<>>)
  BY <1>5 DEF Start, TokenInv
<1>6. ASSUME Indexed(w)
      PROVE  Start(w) \in Int /\ IndexInv(w, {rows}, Start(w), <<>>)
  <2>1. Start(w) = IF w.strategy = "page" THEN w.first ELSE 0
    BY <1>6 DEF Start, FirstIndex, Indexed
  <2>2. w.first \in Int /\ Limit(w) \in Nat \ {0}
    BY <1>6, Limits, WalksAssumption DEF Indexed, Positive
  <2>3. Reached(w, Start(w)) = 0
    <3>1. (w.first - w.first) * Limit(w) = 0
      BY <2>2, Multiples
    <3>2. CASE w.strategy = "page"
      BY <2>1, <3>1, <3>2 DEF Reached
    <3>3. CASE w.strategy # "page"
      BY <2>1, <3>3 DEF Reached
    <3> QED
      BY <3>2, <3>3
  <2>4. Filled(<<>>, rows, rows, 0)
    <3>1. TakenBy(<<>>, rows, <<>>)
      BY DEF TakenBy
    <3>2. \A i \in DOMAIN rows : ~(i <= 0)
      BY <1>1
    <3> QED
      BY <3>1, <3>2 DEF Filled
  <2>5. IsPrefix(rows, rows)
    BY <1>1, PrefixAgrees
  <2> QED
    BY <2>1, <2>2, <2>3, <2>4, <2>5 DEF IndexInv
<1>7. NoneTwice(w, {rows}, <<>>)
  <2>1. \A V : Tally(<<>>, V) <= Tally(rows, V)
    BY <1>2
  <2> QED
    BY <2>1 DEF NoneTwice
<1> QED
  BY <1>4, <1>5, <1>6, <1>7 DEF NoneOutside

\* One more collection leaves everything true of a walk that was.
LEMMA StillSettled ==
  ASSUME NEW w, NEW H, NEW rows, NEW y
  PROVE  /\ \A row : Settled(w, H, y, row) => Settled(w, H \union {rows}, y, row)
         /\ AllSettled(w, H, y) => AllSettled(w, H \union {rows}, y)
         /\ NoneTwice(w, H, y) => NoneTwice(w, H \union {rows}, y)
         /\ Chain(H \union {rows}) => Chain(H)
<1>1. \A row : Settled(w, H, y, row) => Settled(w, H \union {rows}, y, row)
  BY DEF Settled
<1> QED
  BY <1>1 DEF AllSettled, NoneTwice, Chain

\* A walk by index has read the same rows of one collection more, which is
\* the shortest, the longest, or between the two.
LEMMA StillFilled ==
  ASSUME NEW w, NEW H \in SUBSET Seq(Rows), NEW rows \in Seq(Rows), NEW index, NEW y \in Seq(Rows),
         IndexInv(w, H, index, y)
  PROVE  IndexInv(w, H \union {rows}, index, y)
<1> DEFINE R == Reached(w, index)
           H2 == H \union {rows}
<1>1. R \in Nat
  BY DEF IndexInv
<1>2. SUFFICES ASSUME Chain(H2)
               PROVE  \E least, most \in H2 :
                        /\ \A c \in H2 : IsPrefix(least, c) /\ IsPrefix(c, most)
                        /\ Filled(y, least, most, R)
  BY <1>1 DEF IndexInv
<1>3. PICK least \in H, most \in H :
        /\ \A c \in H : IsPrefix(least, c) /\ IsPrefix(c, most)
        /\ Filled(y, least, most, R)
  BY <1>2, StillSettled DEF IndexInv
<1> HIDE DEF R
<1>4. \A a, b \in Seq(Rows) :
        IsPrefix(a, b) <=> Len(a) <= Len(b) /\ \A i \in 1..Len(a) : a[i] = b[i]
  BY PrefixAgrees
<1>5. \A a, b, c \in Seq(Rows) : IsPrefix(a, b) /\ IsPrefix(b, c) => IsPrefix(a, c)
  <2>1. SUFFICES ASSUME NEW a \in Seq(Rows), NEW b \in Seq(Rows), NEW c \in Seq(Rows),
                        IsPrefix(a, b), IsPrefix(b, c)
                 PROVE  IsPrefix(a, c)
    OBVIOUS
  <2>2. /\ Len(a) \in Nat /\ Len(b) \in Nat /\ Len(c) \in Nat
        /\ Len(a) <= Len(b) /\ \A i \in 1..Len(a) : a[i] = b[i]
        /\ Len(b) <= Len(c) /\ \A i \in 1..Len(b) : b[i] = c[i]
    BY <1>4, <2>1
  <2>3. Len(a) <= Len(c) /\ \A i \in 1..Len(a) : i \in 1..Len(b)
    BY <2>2
  <2>4. \A i \in 1..Len(a) : a[i] = c[i]
    BY <2>2, <2>3
  <2> QED
    BY <2>3, <2>4, PrefixAgrees
<1>6. least \in Seq(Rows) /\ most \in Seq(Rows) /\ least \in H2 /\ most \in H2 /\ rows \in H2
  OBVIOUS
<1>7. IsPrefix(rows, rows)
  BY PrefixAgrees
<1>8. PICK g : /\ TakenBy(y, most, g)
               /\ \A k \in DOMAIN y : g[k] <= R
               /\ \A i \in DOMAIN least : i <= R => \E k \in DOMAIN y : g[k] = i
  BY <1>3 DEF Filled
<1>9. CASE IsPrefix(rows, least)
  <2>1. \A c \in H2 : IsPrefix(rows, c) /\ IsPrefix(c, most)
    BY <1>3, <1>5, <1>6, <1>7, <1>9
  <2>2. DOMAIN rows \subseteq DOMAIN least
    <3>1. /\ Len(rows) <= Len(least) /\ Len(rows) \in Nat /\ Len(least) \in Nat
          /\ DOMAIN rows = 1..Len(rows) /\ DOMAIN least = 1..Len(least)
      BY <1>4, <1>6, <1>9
    <3> QED
      BY <3>1
  <2>3. Filled(y, rows, most, R)
    BY <1>8, <2>2 DEF Filled
  <2> QED
    BY <1>6, <2>1, <2>3
<1>10. CASE IsPrefix(least, rows) /\ IsPrefix(rows, most)
  <2>1. \A c \in H2 : IsPrefix(least, c) /\ IsPrefix(c, most)
    BY <1>3, <1>10
  <2> QED
    BY <1>3, <1>6, <2>1
<1>11. CASE IsPrefix(least, rows) /\ IsPrefix(most, rows)
  <2>1. \A c \in H2 : IsPrefix(least, c) /\ IsPrefix(c, rows)
    BY <1>3, <1>5, <1>6, <1>7, <1>11
  <2>2. TakenBy(y, rows, g)
    <3>1. /\ DOMAIN most \subseteq DOMAIN rows
          /\ \A i \in DOMAIN most : most[i] = rows[i]
      <4>1. /\ Len(most) <= Len(rows) /\ Len(rows) \in Nat /\ Len(most) \in Nat
            /\ DOMAIN rows = 1..Len(rows) /\ DOMAIN most = 1..Len(most)
            /\ \A i \in 1..Len(most) : most[i] = rows[i]
        BY <1>4, <1>6, <1>11
      <4> QED
        BY <4>1
    <3>2. /\ g \in [DOMAIN y -> DOMAIN most]
          /\ \A i, j \in DOMAIN y : g[i] = g[j] => i = j
          /\ \A k \in DOMAIN y : y[k] = most[g[k]]
      BY <1>8 DEF TakenBy
    <3>3. g \in [DOMAIN y -> DOMAIN rows]
      BY <3>1, <3>2
    <3>4. \A k \in DOMAIN y : y[k] = rows[g[k]]
      BY <3>1, <3>2
    <3> QED
      BY <3>2, <3>3, <3>4 DEF TakenBy
  <2>3. Filled(y, least, rows, R)
    BY <1>8, <2>2 DEF Filled
  <2> QED
    BY <1>6, <2>1, <2>3
<1>12. /\ IsPrefix(rows, least) \/ IsPrefix(least, rows)
       /\ IsPrefix(rows, most) \/ IsPrefix(most, rows)
  BY <1>2, <1>6 DEF Chain
<1> QED
  BY <1>9, <1>10, <1>11, <1>12

\* A seek or token walk owes no more for one collection more.
LEMMA StillWalking ==
  ASSUME NEW w, NEW H \in SUBSET Seq(Rows), NEW rows \in Seq(Rows), NEW st, NEW y
  PROVE  /\ SeekInv(w, H, st, y) => SeekInv(w, H \union {rows}, st, y)
         /\ TokenInv(w, H, st, y) => TokenInv(w, H \union {rows}, st, y)
<1>1. \A row : Settled(w, H, y, row) => Settled(w, H \union {rows}, y, row)
  BY StillSettled
<1> QED
  BY <1>1 DEF SeekInv, TokenInv

\* What the venue holds when a walk begins, it may hold during one.
LEMMA Beginnings ==
  ASSUME NEW w \in Walks, NEW c \in Collections(w)
  PROVE  Venue(w, c)
<1>1. /\ c \in Seq(Rows) /\ Sorted(c)
      /\ w.unique => IsInjective([i \in DOMAIN c |-> c[i].key])
  BY WalksAssumption
<1> QED
  BY <1>1 DEF Venue, IsInjective

\* A row that appears in its place leaves the rows in order, and the keys of
\* a unique cursor field unique.
LEMMA Appears ==
  ASSUME NEW w \in Walks, NEW rows, Venue(w, rows), NEW row \in Rows, NEW n \in 1..Len(rows) + 1,
         w.unique => row.key \notin KeysOf(rows),
         \A i \in DOMAIN rows : rows[i].key <= row.key <=> i < n
  PROVE  Venue(w, InsertAt(rows, n, row)) /\ InsertAt(rows, n, row) # rows
<1> DEFINE s == InsertAt(rows, n, row)
           from(i) == IF i < n THEN i ELSE i - 1
<1>1. rows \in Seq(Rows) /\ Len(rows) \in Nat /\ DOMAIN rows = 1..Len(rows) /\ Sorted(rows)
  BY DEF Venue
<1>2. /\ s \in Seq(Rows) /\ Len(s) = Len(rows) + 1
      /\ \A i \in 1..Len(rows) + 1 :
           s[i] = IF i < n THEN rows[i] ELSE IF i = n THEN row ELSE rows[i - 1]
  BY <1>1, Inserts
<1> HIDE DEF s
<1>3. DOMAIN s = 1..Len(rows) + 1
  BY <1>1, <1>2
<1>4. \A i \in DOMAIN s : i = n => s[i] = row
  BY <1>2, <1>3
<1>5. \A i \in DOMAIN s : i # n => from(i) \in DOMAIN rows /\ s[i] = rows[from(i)]
  BY <1>1, <1>2, <1>3
<1>6. \A r \in Rows : r.key \in Int
  BY RowsAssumption
<1>7. Sorted(s)
  <2>1. SUFFICES ASSUME NEW i \in DOMAIN s, NEW j \in DOMAIN s, i < j
                 PROVE  s[i].key <= s[j].key
    BY DEF Sorted
  <2>2. CASE i = n
    <3>1. from(j) \in DOMAIN rows /\ s[j] = rows[from(j)] /\ ~(from(j) < n) /\ s[i] = row
      BY <1>3, <1>4, <1>5, <2>1, <2>2
    <3>2. ~(rows[from(j)].key <= row.key) /\ rows[from(j)] \in Rows
      BY <1>1, <3>1
    <3>3. rows[from(j)].key \in Int /\ row.key \in Int
      BY <1>6, <3>2
    <3> HIDE DEF from
    <3> QED
      BY <3>1, <3>2, <3>3
  <2>3. CASE j = n
    <3>1. from(i) \in DOMAIN rows /\ s[i] = rows[from(i)] /\ from(i) < n /\ s[j] = row
      BY <1>3, <1>4, <1>5, <2>1, <2>3
    <3> QED
      BY <3>1
  <2>4. CASE i # n /\ j # n
    <3>1. /\ from(i) \in DOMAIN rows /\ s[i] = rows[from(i)]
          /\ from(j) \in DOMAIN rows /\ s[j] = rows[from(j)]
      BY <1>5, <2>4
    <3>2. from(i) < from(j)
      BY <1>3, <2>1, <2>4
    <3> HIDE DEF from
    <3> QED
      BY <1>1, <3>1, <3>2 DEF Sorted
  <2> QED
    BY <2>2, <2>3, <2>4
<1>8. ASSUME w.unique, NEW i \in DOMAIN s, NEW j \in DOMAIN s, s[i].key = s[j].key
      PROVE  i = j
  <2>1. \A k \in DOMAIN s : k # n => s[k].key \in KeysOf(rows)
    <3> HIDE DEF from
    <3> QED
      BY <1>5 DEF KeysOf
  <2>2. \A k \in DOMAIN s : s[k].key = row.key => k = n
    BY <1>8, <2>1
  <2>3. CASE i = n
    BY <1>4, <1>8, <2>2, <2>3
  <2>4. CASE i # n
    <3>1. j # n
      BY <1>4, <1>8, <2>2, <2>4
    <3>2. from(i) \in DOMAIN rows /\ from(j) \in DOMAIN rows /\ rows[from(i)].key = rows[from(j)].key
      BY <1>5, <1>8, <2>4, <3>1
    <3>3. from(i) = from(j)
      <4> HIDE DEF from
      <4> QED
        BY <1>8, <3>2 DEF Venue
    <3> QED
      BY <1>3, <2>4, <3>1, <3>3
  <2> QED
    BY <2>3, <2>4
<1>9. s # rows
  BY <1>1, <1>2
<1> QED
  BY <1>2, <1>7, <1>8, <1>9 DEF Venue, s

\* So does a row that goes.
LEMMA Withdraws ==
  ASSUME NEW w \in Walks, NEW rows, Venue(w, rows), NEW n \in DOMAIN rows
  PROVE  Venue(w, RemoveAt(rows, n)) /\ RemoveAt(rows, n) # rows
<1> DEFINE s == RemoveAt(rows, n)
           from(i) == IF i < n THEN i ELSE i + 1
<1>1. rows \in Seq(Rows) /\ Len(rows) \in Nat /\ DOMAIN rows = 1..Len(rows) /\ Sorted(rows)
  BY DEF Venue
<1>2. /\ s \in Seq(Rows) /\ Len(s) = Len(rows) - 1
      /\ \A i \in 1..Len(rows) - 1 : s[i] = IF i < n THEN rows[i] ELSE rows[i + 1]
  BY <1>1, Removes
<1> HIDE DEF s
<1>3. DOMAIN s = 1..Len(rows) - 1
  BY <1>1, <1>2
<1>4. \A i \in DOMAIN s : from(i) \in DOMAIN rows /\ s[i] = rows[from(i)]
  BY <1>1, <1>2, <1>3
<1>5. \A i \in DOMAIN s : \A j \in DOMAIN s :
        /\ i < j => from(i) < from(j)
        /\ from(i) = from(j) => i = j
  BY <1>1, <1>3
<1> HIDE DEF from
<1>6. Sorted(s)
  BY <1>1, <1>4, <1>5 DEF Sorted
<1>7. w.unique => \A i, j \in DOMAIN s : s[i].key = s[j].key => i = j
  BY <1>4, <1>5 DEF Venue
<1>8. s # rows
  BY <1>1, <1>2
<1> QED
  BY <1>2, <1>6, <1>7, <1>8 DEF Venue, s

\* And one that changes but for its key.
LEMMA Amends ==
  ASSUME NEW w \in Walks, NEW rows, Venue(w, rows), NEW n \in DOMAIN rows,
         NEW row \in Rows, row.key = rows[n].key, row # rows[n]
  PROVE  Venue(w, [rows EXCEPT ![n] = row]) /\ [rows EXCEPT ![n] = row] # rows
<1> DEFINE s == [rows EXCEPT ![n] = row]
<1>1. rows \in Seq(Rows) /\ Len(rows) \in Nat /\ DOMAIN rows = 1..Len(rows) /\ Sorted(rows)
  BY DEF Venue
<1>2. s \in Seq(Rows) /\ DOMAIN s = DOMAIN rows /\ s[n] = row
  BY <1>1
<1>3. \A i \in DOMAIN s : s[i].key = rows[i].key
  BY <1>1
<1> HIDE DEF s
<1>4. Sorted(s)
  BY <1>1, <1>2, <1>3 DEF Sorted
<1>5. w.unique => \A i, j \in DOMAIN s : s[i].key = s[j].key => i = j
  BY <1>2, <1>3 DEF Venue
<1> QED
  BY <1>2, <1>4, <1>5 DEF Venue, s

-----------------------------------------------------------------------------
(* The invariant holds at first, and every step keeps it.                  *)

\* A walk that has read nothing.
LEMMA InitIInv == Init => IInv
<1>1. SUFFICES ASSUME Init PROVE IInv
  OBVIOUS
<1>2. /\ walk \in Walks /\ Venue(walk, venue) /\ held = {venue} /\ state = Start(walk)
      /\ yielded = <<>> /\ status = "walking" /\ totalSeen = None /\ changes = 0
      /\ restarts = 0
  BY <1>1, Beginnings DEF Init
<1>3. /\ walk.strategy = "seek" =>
           Start(walk) \in SeekStates /\ SeekInv(walk, {venue}, Start(walk), <<>>)
      /\ walk.strategy = "token" =>
           Start(walk) = None /\ TokenInv(walk, {venue}, Start(walk), <<>>)
      /\ Indexed(walk) => Start(walk) \in Int /\ IndexInv(walk, {venue}, Start(walk), <<>>)
      /\ NoneOutside(walk, <<>>) /\ NoneTwice(walk, {venue}, <<>>)
  BY <1>2, Begins
<1>4. venue \in Seq(Rows) /\ IsFiniteSet({venue})
  BY <1>2, FS_Singleton DEF Venue
<1>5. TypeOK
  BY <1>2, <1>3, <1>4 DEF TypeOK
<1> QED
  BY <1>2, <1>3, <1>5 DEF IInv, TotalInv, ErrorIsDeserved

\* One page of a walk by key.
LEMMA SeekNextKeeps == IInv /\ SeekNext => IInv'
<1>1. SUFFICES ASSUME IInv, SeekNext PROVE IInv'
  OBVIOUS
<1> DEFINE page == SeekPage(walk, venue, SeekRequest(walk, state.pos))
           step == SeekStep(walk, state, page)
<1>2. /\ TypeOK /\ status = "walking" /\ walk.strategy = "seek"
      /\ SeekInv(walk, held, state, yielded) /\ NoneOutside(walk, yielded)
      /\ ~Indexed(walk) /\ NoneTwice(walk, held, yielded) /\ TotalInv
  BY <1>1 DEF SeekNext, IInv, Anchor, Indexed
<1>3. Asking(walk, venue, held, state, yielded) /\ IsFiniteSet(held)
  BY <1>2 DEF Asking, TypeOK
<1>4. /\ step.kind = "refused" => Deserved(walk, venue, held)
      /\ step.kind # "refused" => /\ yielded \o step.rows \in Seq(Rows)
                                  /\ NoneOutside(walk, yielded \o step.rows)
                                  /\ NoneTwice(walk, held, yielded \o step.rows)
      /\ step.kind = "more" => /\ step.next \in SeekStates
                               /\ SeekInv(walk, held, step.next, yielded \o step.rows)
      /\ step.kind = "done" => AllSettled(walk, held, yielded \o step.rows)
  BY <1>2, <1>3, SeekPageKeeps
<1>5. /\ UNCHANGED <<walk, venue, held, changes, restarts, totalSeen>>
      /\ \/ step.kind = "more" /\ status' = status /\ yielded' = yielded \o step.rows /\ state' = step.next
         \/ step.kind = "done" /\ status' = "done" /\ yielded' = yielded \o step.rows /\ state' = state
         \/ step.kind = "refused" /\ status' = "refused" /\ yielded' = yielded \o <<>> /\ state' = state
  BY <1>1 DEF SeekNext, Continue, Finish, Refuse
<1> HIDE DEF step
<1>6. TypeOK' /\ TotalInv'
  <2>1. yielded' \in Seq(Rows) /\ state' \in SeekStates /\ status' \in {"walking", "done", "refused"}
    <3>1. yielded \in Seq(Rows) /\ state \in SeekStates
      BY <1>2 DEF TypeOK
    <3>2. yielded \o <<>> \in Seq(Rows)
      BY <3>1
    <3> QED
      BY <1>2, <1>4, <1>5, <3>1, <3>2
  <2>2. TypeOK'
    BY <1>2, <1>5, <2>1 DEF TypeOK, Indexed
  <2>3. TotalInv'
    BY <1>2, <1>5 DEF TotalInv
  <2> QED
    BY <2>2, <2>3
<1>7. CASE step.kind = "more"
  BY <1>2, <1>4, <1>5, <1>6, <1>7 DEF IInv, ErrorIsDeserved, Indexed
<1>8. CASE step.kind = "done"
  BY <1>2, <1>4, <1>5, <1>6, <1>8 DEF IInv, ErrorIsDeserved, Indexed
<1>9. CASE step.kind = "refused"
  <2>1. yielded' = yielded
    BY <1>2, <1>5, <1>9 DEF TypeOK
  <2> QED
    BY <1>2, <1>4, <1>5, <1>6, <1>9, <2>1 DEF IInv, ErrorIsDeserved, Indexed, Deserved
<1> QED
  BY <1>5, <1>7, <1>8, <1>9

\* Two collections are more than one.
LEMMA TwoAreHeld ==
  ASSUME NEW H, IsFiniteSet(H), NEW a \in H, NEW b \in H, a # b
  PROVE  Cardinality(H) > 1
<1>1. {a, b} \in SUBSET H
  OBVIOUS
<1>2. Cardinality({a, b}) <= Cardinality(H) /\ Cardinality(H) \in Nat
  BY <1>1, FS_Subset, FS_CardinalityType
<1>3. Cardinality({a, b}) = 2
  <2>1. IsFiniteSet({a}) /\ Cardinality({a}) = 1
    BY FS_Singleton
  <2>2. {a, b} = {a} \union {b} /\ b \notin {a}
    OBVIOUS
  <2> QED
    BY <2>1, <2>2, FS_AddElement
<1> QED
  BY <1>2, <1>3

\* One page of a walk by index.  The total is refused where it is missing,
\* or is that of another collection than the one an earlier page counted.
LEMMA IndexReadKeeps ==
  IInv /\ status = "walking" /\ Indexed(walk) /\ IndexPageRead => IInv'
<1>1. SUFFICES ASSUME IInv, status = "walking", Indexed(walk), IndexPageRead PROVE IInv'
  OBVIOUS
<1> DEFINE q == IndexPage(walk, venue, state)
           total == Total(walk, venue)
           next == NextIndex(walk, state, Len(q))
           done == IndexDone(walk, IndexSize(walk.ask, walk.maximum, walk.default), state,
                             Len(q), total)
           refused == TotalRefused(walk, totalSeen, total)
<1>2. /\ TypeOK /\ TotalInv /\ IndexInv(walk, held, state, yielded)
      /\ Chain(held) => NoneTwice(walk, held, yielded)
      /\ walk.strategy \in {"page", "offset"}
  BY <1>1 DEF IInv, Anchor, Indexed
<1>3. /\ walk \in Walks /\ venue \in Seq(Rows) /\ venue \in held /\ held \in SUBSET Seq(Rows)
      /\ state \in Int /\ yielded \in Seq(Rows) /\ IsFiniteSet(held) /\ changes \in Nat
      /\ restarts \in Nat
  BY <1>1, <1>2 DEF TypeOK, Venue
<1>4. /\ yielded \o q \in Seq(Rows)
      /\ Chain(held) => NoneTwice(walk, held, yielded \o q)
      /\ Chain(held) /\ done /\ ~Unsized(walk) => AllSettled(walk, held, yielded \o q)
      /\ next \in Int /\ IndexInv(walk, held, next, yielded \o q)
  BY <1>1, <1>2, <1>3, IndexPageKeeps
<1>5. total \in Int \union {None} /\ (total = None => walk.unstated)
  BY <1>3, Totals
<1>6. /\ UNCHANGED <<walk, venue, held, changes, restarts>>
      /\ \/ /\ refused /\ status' = "refused" /\ state' = state /\ totalSeen' = totalSeen
            /\ yielded' = yielded \o (IF walk.strategy = "offset" THEN q ELSE <<>>)
         \/ /\ done /\ status' = "done" /\ state' = state
            /\ yielded' = yielded \o q /\ totalSeen' = IF walk.strict THEN total ELSE None
         \/ /\ status' = status /\ state' = next
            /\ yielded' = yielded \o q /\ totalSeen' = IF walk.strict THEN total ELSE None
  BY <1>1 DEF IndexPageRead, Continue, Finish, Refuse
<1>7. yielded \o <<>> = yielded
  BY <1>3
<1>8. refused => /\ walk.strict
                 /\ \/ walk.unstated \/ Cardinality(held) > 1
                    \/ walk.strategy = "page" /\ changes > 0 /\ restarts > 0
  <2>1. SUFFICES ASSUME refused, ~walk.unstated
                 PROVE  walk.strict /\ (Cardinality(held) > 1 \/ (walk.strategy = "page" /\ changes > 0 /\ restarts > 0))
    BY DEF TotalRefused
  <2>2. walk.strict /\ totalSeen # None /\ totalSeen # total
    BY <1>5, <2>1 DEF TotalRefused
  <2>3. CASE walk.strategy = "page" /\ restarts # 0
    <3>1. changes # 0
      BY <1>2, <2>2, <2>3 DEF TotalInv
    <3> QED
      BY <1>3, <2>2, <2>3, <3>1
  <2>4. CASE walk.strategy = "offset" \/ restarts = 0
    <3>1. PICK c \in held : totalSeen = Total(walk, c)
      BY <1>2, <2>2, <2>4 DEF TotalInv
    <3>2. c # venue
      BY <2>2, <3>1
    <3> QED
      BY <1>3, <2>2, <3>2, TwoAreHeld
  <2> QED
    BY <1>2, <2>3, <2>4
<1> HIDE DEF q, total, next, done, refused
<1>9. /\ yielded' \in Seq(Rows) /\ state' \in Int /\ totalSeen' \in Int \union {None}
      /\ status' \in {"walking", "done", "refused"}
  BY <1>1, <1>2, <1>3, <1>4, <1>5, <1>6, <1>7 DEF TypeOK
<1>10. TypeOK'
  BY <1>1, <1>2, <1>6, <1>9 DEF TypeOK, Indexed
<1>11. TotalInv'
  <2>1. CASE refused /\ totalSeen' = totalSeen
    BY <1>2, <1>6, <2>1 DEF TotalInv
  <2>2. CASE totalSeen' = IF walk.strict THEN total ELSE None
    BY <1>3, <1>6, <2>2 DEF TotalInv, total
  <2> QED
    BY <1>6, <2>1, <2>2
<1>12. NoneOutside(walk, yielded')
  BY <1>2 DEF NoneOutside, Inside
<1>13. Chain(held) => NoneTwice(walk, held, yielded')
  BY <1>2, <1>4, <1>6, <1>7
<1>14. status' = "done" /\ Chain(held) /\ ~Unsized(walk) => AllSettled(walk, held, yielded')
  BY <1>1, <1>4, <1>6
<1>15. status' = "walking" => IndexInv(walk, held, state', yielded')
  BY <1>4, <1>6
<1>16. ErrorIsDeserved'
  <2>1. status' = "refused" => refused
    BY <1>1, <1>6
  <2> QED
    BY <1>1, <1>6, <1>8, <2>1 DEF ErrorIsDeserved, TotalDemanded, TotalLeftOver, Indexed
<1>17. (Anchor' <=> Chain(held)) /\ (Unmeasured' <=> Unsized(walk))
  BY <1>1, <1>6 DEF Anchor, Unmeasured, Unsized, Indexed
<1> QED
  BY <1>2, <1>6, <1>10, <1>11, <1>12, <1>13, <1>14, <1>15, <1>16, <1>17 DEF IInv, Indexed

\* A page number and an offset go the same way.
LEMMA PageNextKeeps == IInv /\ PageNext => IInv'
BY IndexReadKeeps DEF PageNext, Indexed

\* An offset walk reads a page as above.
LEMMA OffsetNextKeeps == IInv /\ OffsetNext => IInv'
BY IndexReadKeeps DEF OffsetNext, Indexed

\* One page of a walk by token.
LEMMA TokenNextKeeps == IInv /\ TokenNext => IInv'
<1>1. SUFFICES ASSUME IInv, TokenNext PROVE IInv'
  OBVIOUS
<1> DEFINE q == TokenPage(walk, venue, state)
           after == CursorAfter(walk, venue, state)
           done == TokenDone(walk, Len(q), after)
<1>2. /\ TypeOK /\ status = "walking" /\ walk.strategy = "token" /\ ~Indexed(walk)
      /\ TokenInv(walk, held, state, yielded) /\ NoneTwice(walk, held, yielded) /\ TotalInv
  BY <1>1 DEF TokenNext, IInv, Anchor, Indexed
<1>3. /\ walk \in Walks /\ Venue(walk, venue) /\ venue \in held /\ held \in SUBSET Seq(Rows)
      /\ state \in Int \union {None} /\ yielded \in Seq(Rows)
  BY <1>2 DEF TypeOK
<1>4. /\ yielded \o q \in Seq(Rows) /\ NoneTwice(walk, held, yielded \o q)
      /\ done => AllSettled(walk, held, yielded \o q)
      /\ ~done => after \in Int /\ TokenInv(walk, held, after, yielded \o q)
  BY <1>2, <1>3, TokenPageKeeps
<1>5. /\ UNCHANGED <<walk, venue, held, changes, restarts, totalSeen>>
      /\ yielded' = yielded \o q
      /\ \/ done /\ status' = "done" /\ state' = state
         \/ ~done /\ status' = status /\ state' = after
  BY <1>1 DEF TokenNext, Continue, Finish
<1> HIDE DEF q, after, done
<1>6. yielded' \in Seq(Rows) /\ state' \in Int \union {None} /\ status' \in {"walking", "done", "refused"}
  BY <1>2, <1>3, <1>4, <1>5
<1>7. TypeOK'
  BY <1>2, <1>5, <1>6 DEF TypeOK, Indexed
<1>8. TotalInv'
  BY <1>2, <1>5 DEF TotalInv
<1>9. NoneOutside(walk, yielded')
  BY <1>2 DEF NoneOutside, Inside
<1>10. ErrorIsDeserved'
  BY <1>2, <1>5 DEF ErrorIsDeserved
<1> QED
  BY <1>2, <1>4, <1>5, <1>7, <1>8, <1>9, <1>10 DEF IInv, Indexed

\* A response iterated again.
LEMMA RestartKeeps == IInv /\ Restart => IInv'
<1>1. SUFFICES ASSUME IInv, Restart PROVE IInv'
  OBVIOUS
<1>2. /\ TypeOK /\ TotalInv /\ walk \in Walks /\ Venue(walk, venue)
      /\ totalSeen \in Int \union {None} /\ changes \in Nat /\ restarts \in Nat
  BY <1>1 DEF IInv, TypeOK
<1>3. /\ UNCHANGED <<walk, venue, changes>> /\ walk.strategy # "seek"
      /\ state' = Start(walk) /\ yielded' = <<>> /\ status' = "walking" /\ held' = {venue}
      /\ totalSeen' = IF walk.strategy = "page" THEN totalSeen ELSE None
      /\ restarts' = restarts + 1
  BY <1>1 DEF Restart
<1>4. /\ walk.strategy = "token" =>
           Start(walk) = None /\ TokenInv(walk, {venue}, Start(walk), <<>>)
      /\ Indexed(walk) => Start(walk) \in Int /\ IndexInv(walk, {venue}, Start(walk), <<>>)
      /\ NoneOutside(walk, <<>>) /\ NoneTwice(walk, {venue}, <<>>)
  BY <1>2, Begins
<1>5. venue \in Seq(Rows) /\ IsFiniteSet({venue})
  BY <1>2, FS_Singleton DEF Venue
<1>6. TypeOK'
  BY <1>2, <1>3, <1>4, <1>5 DEF TypeOK, Indexed
<1>7. TotalInv'
  BY <1>2, <1>3 DEF TotalInv
<1> QED
  BY <1>3, <1>4, <1>6, <1>7 DEF IInv, ErrorIsDeserved, Indexed

\* The collection changes: the walk is no worse off for one collection more,
\* and has a cause to raise.
LEMMA BecomeKeeps ==
  IInv /\ (\E rows : Venue(walk, rows) /\ rows # venue /\ Become(rows)) => IInv'
<1>1. SUFFICES ASSUME IInv, NEW rows, Venue(walk, rows), rows # venue, Become(rows)
               PROVE  IInv'
  OBVIOUS
<1>2. /\ TypeOK /\ TotalInv /\ venue \in held /\ held \in SUBSET Seq(Rows) /\ IsFiniteSet(held)
      /\ yielded \in Seq(Rows) /\ changes \in Nat /\ restarts \in Nat
  BY <1>1 DEF IInv, TypeOK
<1>3. /\ venue' = rows /\ held' = held \union {rows} /\ changes' = changes + 1
      /\ UNCHANGED <<walk, state, totalSeen, yielded, status, restarts>>
  BY <1>1 DEF Become
<1>4. rows \in Seq(Rows)
  BY <1>1 DEF Venue
<1>5. IsFiniteSet(held') /\ held' \subseteq Seq(Rows)
  BY <1>2, <1>3, <1>4, FS_AddElement
<1>6. Cardinality(held') > 1 /\ changes' \in Nat /\ changes' > 0
  <2>1. venue \in held' /\ rows \in held'
    BY <1>2, <1>3
  <2>2. Cardinality(held') > 1
    BY <1>1, <1>5, <2>1, TwoAreHeld
  <2> QED
    BY <1>2, <1>3, <2>2
<1>7. TypeOK'
  BY <1>1, <1>2, <1>3, <1>5, <1>6 DEF TypeOK, Indexed
<1>8. TotalInv'
  BY <1>2, <1>3, <1>6 DEF TotalInv
<1>9. status = "walking" =>
        /\ walk.strategy = "seek" => SeekInv(walk, held', state, yielded)
        /\ walk.strategy = "token" => TokenInv(walk, held', state, yielded)
        /\ Indexed(walk) => IndexInv(walk, held', state, yielded)
  BY <1>1, <1>2, <1>3, <1>4, StillWalking, StillFilled DEF IInv
<1>10. /\ NoneOutside(walk, yielded)
       /\ Anchor' => NoneTwice(walk, held', yielded)
       /\ status = "done" /\ Anchor' /\ ~Unmeasured => AllSettled(walk, held', yielded)
  <2>1. Anchor' => Anchor
    BY <1>3, StillSettled DEF Anchor, Indexed
  <2> QED
    BY <1>1, <1>3, <2>1, StillSettled DEF IInv
<1>11. ErrorIsDeserved'
  BY <1>1, <1>3, <1>6 DEF IInv, ErrorIsDeserved, TotalDemanded, TotalLeftOver, Indexed
<1>12. (Unmeasured' <=> Unmeasured) /\ (Indexed(walk)' <=> Indexed(walk))
  BY <1>3 DEF Unmeasured, Indexed
<1> QED
  BY <1>3, <1>7, <1>8, <1>9, <1>10, <1>11, <1>12 DEF IInv

\* Whatever the venue does, it goes on listing its rows by key.
LEMMA VenueKeeps == IInv /\ (Appear \/ Withdraw \/ Amend) => IInv'
<1>1. SUFFICES ASSUME IInv, Appear \/ Withdraw \/ Amend
               PROVE  \E rows : Venue(walk, rows) /\ rows # venue /\ Become(rows)
  BY BecomeKeeps
<1>2. walk \in Walks /\ Venue(walk, venue) /\ Arrivals \subseteq Rows
  BY <1>1, RowsAssumption DEF IInv, TypeOK
<1>3. CASE Appear
  <2>1. PICK row \in Arrivals, n \in 1..Len(venue) + 1 :
          /\ walk.unique => row.key \notin KeysOf(venue)
          /\ \A i \in DOMAIN venue : venue[i].key <= row.key <=> i < n
          /\ Become(InsertAt(venue, n, row))
    BY <1>3 DEF Appear
  <2>2. Venue(walk, InsertAt(venue, n, row)) /\ InsertAt(venue, n, row) # venue
    BY <1>2, <2>1, Appears
  <2> QED
    BY <2>1, <2>2
<1>4. CASE Withdraw
  <2>1. PICK i \in DOMAIN venue : Become(RemoveAt(venue, i))
    BY <1>4 DEF Withdraw
  <2>2. Venue(walk, RemoveAt(venue, i)) /\ RemoveAt(venue, i) # venue
    BY <1>2, Withdraws
  <2> QED
    BY <2>1, <2>2
<1>5. CASE Amend
  <2>1. PICK i \in DOMAIN venue, row \in Arrivals :
          row.key = venue[i].key /\ row # venue[i] /\ Become([venue EXCEPT ![i] = row])
    BY <1>5 DEF Amend
  <2>2. Venue(walk, [venue EXCEPT ![i] = row]) /\ [venue EXCEPT ![i] = row] # venue
    BY <1>2, <2>1, Amends
  <2> QED
    BY <2>1, <2>2
<1> QED
  BY <1>1, <1>3, <1>4, <1>5

\* A step that changes nothing keeps it.
LEMMA StutterKeeps == IInv /\ UNCHANGED vars => IInv'
BY DEF vars, IInv, TypeOK, TotalInv, Anchor, Unmeasured, ErrorIsDeserved, TotalDemanded,
       TotalLeftOver, Indexed

\* IInv is inductive.
LEMMA NextIInv == IInv /\ [Next]_vars => IInv'
BY SeekNextKeeps, PageNextKeeps, OffsetNextKeeps, TokenNextKeeps, RestartKeeps, VenueKeeps,
   StutterKeeps DEF Next

-----------------------------------------------------------------------------
(* What the invariant says of the walk's promises.                         *)

\* The counts of Paging are those of kin rows.
LEMMA CopiesAreKin ==
  ASSUME TypeOK, NEW y \in Seq(Rows), NEW row \in Rows
  PROVE  Copies(y, Mark(row)) = Tally(y, Kin(walk, row))
<1>1. \A r : Mark(r) = MarkOf(walk, r) /\ (InRange(r) <=> Inside(walk, r))
  BY DEF Mark, MarkOf, InRange, Inside
<1>2. {i \in DOMAIN y : Mark(y[i]) = Mark(row) /\ InRange(y[i])} = Places(y, Kin(walk, row))
  <2>1. \A i \in DOMAIN y : y[i] \in Rows
    OBVIOUS
  <2> QED
    BY <1>1, <2>1 DEF Places, Kin
<1> QED
  BY <1>2 DEF Copies, Tally

\* And its conditions are those of the invariant.
LEMMA SameConditions ==
  (Anchored <=> Anchor) /\ (\A row : InRange(row) <=> Inside(walk, row))
BY DEF Anchored, Anchor, OnlyGrew, Chain, InRange, Inside

\* All settled is nothing skipped: a mark is that of a row some collection held.
LEMMA NothingSkippedHolds == IInv => NothingSkipped
<1>1. SUFFICES ASSUME IInv, status = "done", Anchored, ~Unmeasured,
                      NEW c \in held, NEW i \in DOMAIN c
               PROVE  \E d \in held : Copies(d, Mark(c[i])) <= Copies(yielded, Mark(c[i]))
  BY DEF NothingSkipped, Marks
<1>2. TypeOK /\ AllSettled(walk, held, yielded) /\ held \subseteq Seq(Rows) /\ yielded \in Seq(Rows)
  BY <1>1, SameConditions DEF IInv, TypeOK
<1>3. c[i] \in Rows
  BY <1>1, <1>2
<1>4. PICK d \in held : Tally(d, Kin(walk, c[i])) <= Tally(yielded, Kin(walk, c[i]))
  BY <1>2, <1>3 DEF AllSettled, Settled
<1> QED
  BY <1>2, <1>3, <1>4, CopiesAreKin

\* None twice is nothing twice.
LEMMA NothingTwiceHolds == IInv => NothingTwice
<1>1. SUFFICES ASSUME IInv, Anchored, NEW i \in DOMAIN yielded
               PROVE  \E d \in held : Copies(yielded, Mark(yielded[i])) <= Copies(d, Mark(yielded[i]))
  BY DEF NothingTwice, Marks
<1>2. TypeOK /\ NoneTwice(walk, held, yielded) /\ held \subseteq Seq(Rows) /\ yielded \in Seq(Rows)
  BY <1>1, SameConditions DEF IInv, TypeOK
<1>3. yielded[i] \in Rows
  BY <1>1, <1>2
<1>4. PICK d \in held : Tally(yielded, Kin(walk, yielded[i])) <= Tally(d, Kin(walk, yielded[i]))
  BY <1>2, <1>3 DEF NoneTwice
<1> QED
  BY <1>2, <1>3, <1>4, CopiesAreKin

-----------------------------------------------------------------------------
(* What a walk comes to.  Each request that the walk goes on from has      *)
(* moved it: along its direction, or to a later row of what the venue      *)
(* holds.  The keys of a venue are finitely many and a span stops at the   *)
(* far bound, so this is why a walk ends, save for the fairness.           *)

\* A request after which the walk goes on has moved it forwards; an index has
\* moved from a row there is, as one past the last row ends the walk.
Advances ==
  (SeekNext \/ PageNext \/ OffsetNext \/ TokenNext) /\ status' = "walking" =>
    /\ walk.strategy = "seek" =>
         state'.pos # None /\ (state.pos = None \/ Beyond(walk, state'.pos, state.pos))
    /\ walk.strategy = "token" => state' # None /\ (state = None \/ state' > state)
    /\ Indexed(walk) /\ ~Unmeasured =>
         Reached(walk, state') > Reached(walk, state) /\ Reached(walk, state) < Len(venue)

\* A seek walk goes on from a page only at a later key or at the next edge.
LEMMA SeekAdvances ==
  ASSUME NEW w, NEW rows, NEW H, NEW st, NEW y, Asking(w, rows, H, st, y),
         NEW step, step = SeekStep(w, st, SeekPage(w, rows, SeekRequest(w, st.pos))),
         step.kind = "more"
  PROVE  step.next.pos # None /\ (st.pos = None \/ Beyond(w, step.next.pos, st.pos))
<1> DEFINE q == SeekPage(w, rows, SeekRequest(w, st.pos))
           extreme == Extreme(w, q)
           edge == Edge(w, st.pos)
<1>1. PICK p : Answers(w, rows, SeekRequest(w, st.pos), q, p)
  BY SeekAnswers DEF Asking
<1>2. step = SeekStep(w, st, q)
  OBVIOUS
<1> HIDE DEF q
<1>3. /\ w \in Walks /\ w.strategy = "seek" /\ st.pos \in Int \union {None}
      /\ None \notin Int /\ \A row \in Rows : row.key \in Int
      /\ q \in Seq(Rows) /\ \A k \in DOMAIN q : Asked(w, SeekRequest(w, st.pos), q[k])
  BY <1>1, RowsAssumption DEF Asking, SeekStates, Answers
<1>4. CASE ~Stays(w, st, q) /\ step.next.pos = extreme
  <2>1. q # <<>>
    BY <1>1, <1>3, <1>4, Extremes DEF Stays
  <2>2. PICK k \in DOMAIN q : extreme = q[k].key
    BY <1>1, <1>3, <2>1, Extremes
  <2>3. extreme \in Int
    BY <1>3, <2>2
  <2>4. From(w, st.pos, extreme)
    BY <1>3, <2>2 DEF Asked, SeekRequest
  <2> QED
    BY <1>3, <1>4, <2>3, <2>4 DEF From, Stays
<1>5. CASE edge # None /\ Beyond(w, w.far, edge) /\ step.next.pos = edge
  <2>1. w.span # None
    BY <1>5, Edges
  <2>2. edge \in Int /\ w.far \in Int /\ (edge = w.far \/ Beyond(w, edge, st.pos))
    BY <2>1, Edges
  <2>3. edge # w.far
    BY <1>5, <2>2, BeyondOrders
  <2> QED
    BY <1>3, <1>5, <2>2, <2>3
<1>6. \/ ~Stays(w, st, q) /\ step.next.pos = extreme
      \/ edge # None /\ Beyond(w, w.far, edge) /\ step.next.pos = edge
  BY <1>2, SeekCases DEF Refused, Done, More
<1> QED
  BY <1>4, <1>5, <1>6

\* A token walk goes on from the last row of its page.
LEMMA TokenAdvances ==
  ASSUME NEW w \in Walks, w.strategy = "token", NEW rows, Venue(w, rows),
         NEW cursor \in Int \union {None},
         ~TokenDone(w, Len(TokenPage(w, rows, cursor)), CursorAfter(w, rows, cursor))
  PROVE  /\ CursorAfter(w, rows, cursor) # None
         /\ cursor = None \/ CursorAfter(w, rows, cursor) > cursor
<1> DEFINE q == TokenPage(w, rows, cursor)
           after == CursorAfter(w, rows, cursor)
<1>1. w.unique
  BY WalksAssumption
<1>2. PICK p : Follows(rows, cursor, q, p)
  BY <1>1, TokenAnswers
<1>3. q \in Seq(Rows) /\ \A k \in DOMAIN q : cursor = None \/ q[k].key > cursor
  BY <1>2 DEF Follows
<1>4. after # None /\ ~(w.done = "empty" /\ Len(q) = 0)
  BY DEF TokenDone
<1>5. q # <<>>
  BY <1>4 DEF CursorAfter
<1>6. after = Last(q).key
  BY <1>4, <1>5 DEF CursorAfter
<1> HIDE DEF q, after
<1>7. Len(q) \in DOMAIN q /\ Last(q) = q[Len(q)]
  BY <1>3, <1>5 DEF Last
<1> QED
  BY <1>3, <1>4, <1>6, <1>7 DEF q, after

\* A page past the last row ends a walk by index, whatever its terminator.
LEMMA IndexStops ==
  ASSUME NEW w \in Walks, Indexed(w), ~Unsized(w), NEW rows \in Seq(Rows),
         NEW index \in Int, Reached(w, index) \in Nat, Reached(w, index) >= Len(rows),
         NEW seen, ~TotalRefused(w, seen, Total(w, rows))
  PROVE  IndexDone(w, IndexSize(w.ask, w.maximum, w.default), index,
                   Len(IndexPage(w, rows, index)), Total(w, rows))
<1> DEFINE size == IndexSize(w.ask, w.maximum, w.default)
           q == IndexPage(w, rows, index)
           R == Reached(w, index)
           L == Limit(w)
           n == Len(rows)
           total == Total(w, rows)
<1>1. n \in Nat /\ L \in Nat \ {0} /\ DOMAIN rows = 1..n /\ R \in Nat /\ R >= n
  BY Limits DEF Positive
<1>2. Len(q) = 0
  <2>1. q \in Seq(Rows) /\ \A k \in DOMAIN q : R + k \in DOMAIN rows
    BY IndexAnswers
  <2> HIDE DEF q, R, n
  <2>2. Len(q) \in Nat /\ DOMAIN q = 1..Len(q)
    BY <2>1
  <2>3. 1 \notin DOMAIN q
    BY <1>1, <2>1
  <2> QED
    BY <2>2, <2>3
<1>3. SUFFICES ASSUME ~ReadsEmpty(w)
               PROVE  w.done = "total" /\ total # None /\ TotalReached(w, size, index, Len(q), total)
  BY <1>2 DEF IndexDone
<1>4. /\ w.strict /\ w.done = "total"
      /\ w.counts # "items" \/ (w.strategy # "offset" /\ w.default # None)
  BY <1>3 DEF ReadsEmpty
<1>5. total # None
  BY <1>4 DEF TotalRefused
<1>6. total = IF w.counts = "pages" THEN (n + L - 1) \div L ELSE n
  BY <1>5 DEF Total
<1>7. /\ size # None => size = L
      /\ ~w.sized => size = None
  BY SizeIsLimit
<1>8. /\ w.strategy = "page" => R = (index - w.first) * L /\ w.first \in Int
      /\ w.strategy # "page" => R = index /\ w.strategy = "offset"
  BY WalksAssumption DEF Reached, Indexed
<1>9. Unsized(w) <=> /\ w.strategy = "offset" /\ w.strict /\ w.done = "total"
                     /\ w.counts = "pages" /\ size = None
  BY DEF Unsized
<1>10. w.default # None => size # None
  <2>1. /\ w.limit \in Positive /\ w.maximum \in Positive \union {None}
        /\ w.ask \in Positive \union {None} /\ w.default \in {None, w.limit} /\ None \notin Int
    BY WalksAssumption, RowsAssumption DEF Indexed
  <2> QED
    BY <2>1 DEF IndexSize, AtMost, Positive
<1> HIDE DEF size, q, R, L, n, total
<1>11. CASE w.counts = "pages" /\ w.strategy = "page"
  <2> DEFINE k == index - w.first
  <2>1. k \in Int /\ k * L >= n
    BY <1>1, <1>8, <1>11
  <2>2. (k + 1) - 0 = k + 1 /\ index - w.first + 1 = k + 1
    BY <1>8, <1>11
  <2>3. k >= total
    <3> HIDE DEF k
    <3> QED
      BY <1>1, <1>6, <1>11, <2>1, PagesSuffice
  <2>4. total \in Int
    BY <1>1, <1>6, <1>11
  <2>5. index - w.first + 1 >= total
    BY <2>1, <2>2, <2>3, <2>4
  <2> QED
    BY <1>4, <1>5, <1>11, <2>5 DEF TotalReached, PagesReached
<1>12. CASE w.counts = "pages" /\ w.strategy # "page"
  <2>1. size = L /\ w.sized /\ L # None /\ R = index /\ w.strategy = "offset"
    <3>1. size # None
      BY <1>4, <1>8, <1>9, <1>12
    <3> QED
      BY <1>7, <1>8, <1>12, <3>1
  <2>2. index \in Nat
    BY <1>1, <2>1
  <2> DEFINE d == index \div L
  <2>3. d \in Nat /\ index < d * L + L
    BY <1>1, <2>2, Divides
  <2> HIDE DEF d
  <2>4. (d + 1) * L = d * L + L /\ d * L \in Int
    BY <1>1, <2>3
  <2>5. (d + 1) * L >= n
    BY <1>1, <2>1, <2>2, <2>3, <2>4
  <2>6. d + 1 >= total
    <3>1. d + 1 \in Int
      BY <2>3
    <3> QED
      BY <1>1, <1>6, <1>12, <2>5, <3>1, PagesSuffice
  <2>7. PagesReached(w, size, index, total)
    BY <2>1, <2>6 DEF PagesReached, d
  <2> QED
    BY <1>4, <1>5, <1>12, <2>7 DEF TotalReached
<1>13. CASE w.counts # "pages" /\ w.strategy = "page"
  <2>1. CASE size # None
    <3>1. (index - w.first + 1) * L = R + L
      BY <1>13, NextPage DEF R, L
    <3> DEFINE through == (index - w.first + 1) * L
    <3>2. through = R + L
      BY <3>1
    <3> HIDE DEF through
    <3>3. through >= total
      BY <1>1, <1>6, <1>13, <3>2
    <3>4. (index - w.first + 1) * size >= total
      BY <1>7, <2>1, <3>3 DEF through
    <3> QED
      BY <1>4, <1>5, <1>13, <2>1, <3>4 DEF TotalReached, ItemsReached
  <2>2. w.counts = "items"
    BY <1>13, WalksAssumption
  <2> QED
    BY <1>4, <1>10, <2>1, <2>2
<1>14. CASE w.counts # "pages" /\ w.strategy # "page"
  <2>1. w.strategy = "offset" /\ index + Len(q) >= total
    BY <1>1, <1>2, <1>6, <1>8, <1>14
  <2> QED
    BY <1>4, <1>5, <1>14, <2>1 DEF TotalReached, ItemsReached
<1> QED
  BY <1>11, <1>12, <1>13, <1>14

\* Every request moves the walk that goes on from it.
LEMMA EveryRequestAdvances == IInv => Advances
<1>1. SUFFICES ASSUME IInv, SeekNext \/ PageNext \/ OffsetNext \/ TokenNext, status' = "walking"
               PROVE  /\ walk.strategy = "seek" =>
                           /\ state'.pos # None
                           /\ state.pos = None \/ Beyond(walk, state'.pos, state.pos)
                      /\ walk.strategy = "token" => state' # None /\ (state = None \/ state' > state)
                      /\ Indexed(walk) /\ ~Unmeasured =>
                           /\ Reached(walk, state') > Reached(walk, state)
                           /\ Reached(walk, state) < Len(venue)
  BY DEF Advances
<1>2. TypeOK /\ status = "walking" /\ walk \in Walks /\ Venue(walk, venue)
  BY <1>1 DEF IInv, TypeOK, SeekNext, PageNext, OffsetNext, TokenNext
<1>3. CASE SeekNext
  <2> DEFINE step == SeekStep(walk, state, SeekPage(walk, venue, SeekRequest(walk, state.pos)))
  <2>1. walk.strategy = "seek" /\ ~Indexed(walk)
    BY <1>3 DEF SeekNext, Indexed
  <2>2. Asking(walk, venue, held, state, yielded)
    BY <1>1, <1>2, <2>1 DEF Asking, IInv, TypeOK
  <2>3. step.kind = "more" /\ state' = step.next
    BY <1>1, <1>3 DEF SeekNext, Continue, Finish, Refuse
  <2>4. step.next.pos # None /\ (state.pos = None \/ Beyond(walk, step.next.pos, state.pos))
    BY <2>2, <2>3, SeekAdvances
  <2> HIDE DEF step
  <2> QED
    BY <2>1, <2>3, <2>4
<1>4. CASE TokenNext
  <2>1. walk.strategy = "token" /\ ~Indexed(walk) /\ state \in Int \union {None}
    BY <1>2, <1>4 DEF TokenNext, Indexed, TypeOK
  <2>2. /\ state' = CursorAfter(walk, venue, state)
        /\ ~TokenDone(walk, Len(TokenPage(walk, venue, state)), CursorAfter(walk, venue, state))
    BY <1>1, <1>4 DEF TokenNext, Continue, Finish
  <2> QED
    BY <1>2, <2>1, <2>2, TokenAdvances
<1>5. CASE PageNext \/ OffsetNext
  <2> DEFINE q == IndexPage(walk, venue, state)
             total == Total(walk, venue)
             next == NextIndex(walk, state, Len(q))
             done == IndexDone(walk, IndexSize(walk.ask, walk.maximum, walk.default), state,
                               Len(q), total)
             R == Reached(walk, state)
  <2>1. /\ Indexed(walk) /\ walk.strategy \notin {"seek", "token"} /\ IndexPageRead
        /\ state \in Int /\ venue \in Seq(Rows) /\ R \in Nat
    BY <1>1, <1>2, <1>5 DEF PageNext, OffsetNext, Indexed, IInv, TypeOK, Venue, IndexInv
  <2>2. ~TotalRefused(walk, totalSeen, total) /\ ~done /\ state' = next
    BY <1>1, <2>1 DEF IndexPageRead, Continue, Finish, Refuse
  <2>3. SUFFICES ASSUME ~Unmeasured PROVE Reached(walk, next) > R /\ R < Len(venue)
    BY <2>1, <2>2
  <2>4. R < Len(venue) /\ Len(venue) \in Nat
    <3>1. ~(R >= Len(venue))
      BY <1>2, <2>1, <2>2, <2>3, IndexStops DEF Unmeasured, Unsized
    <3> HIDE DEF R
    <3> QED
      BY <2>1, <3>1
  <2>5. Limit(walk) \in Nat \ {0}
    BY <1>2, Limits DEF Positive
  <2>6. q \in Seq(Rows) /\ Len(q) <= Limit(walk) /\ (R + 1) - R \in DOMAIN q
    <3>1. /\ q \in Seq(Rows) /\ Len(q) <= Limit(walk)
          /\ \A i \in DOMAIN venue : R < i /\ i <= R + Limit(walk) => i - R \in DOMAIN q
      BY <1>2, <2>1, IndexAnswers
    <3> HIDE DEF q, R
    <3>2. R + 1 \in DOMAIN venue /\ R < R + 1 /\ R + 1 <= R + Limit(walk)
      BY <2>1, <2>4, <2>5
    <3> QED
      BY <3>1, <3>2
  <2>7. Len(q) \in Nat /\ Len(q) >= 1
    <3> HIDE DEF q, R
    <3>1. (R + 1) - R = 1 /\ DOMAIN q = 1..Len(q) /\ Len(q) \in Nat
      BY <2>1, <2>6
    <3> QED
      BY <2>6, <3>1
  <2>8. Reached(walk, next) \in Nat /\ R + Len(q) <= Reached(walk, next)
    <3> HIDE DEF q
    <3> QED
      BY <1>2, <2>1, <2>6, <2>7, IndexMoves
  <2> HIDE DEF q, R, next
  <2> QED
    BY <2>1, <2>4, <2>7, <2>8
<1> QED
  BY <1>1, <1>3, <1>4, <1>5

-----------------------------------------------------------------------------

\* The invariant holds throughout, for any walks over any rows.
THEOREM Invariant == Spec => []IInv
<1>1. Init => IInv
  BY InitIInv
<1>2. IInv /\ [Next]_vars => IInv'
  BY NextIInv
<1> QED
  BY <1>1, <1>2, PTL DEF Spec

\* The venue lists rows of the declared kind by key, and the walk's state is
\* what its strategy makes of it.
THEOREM TypeCorrect == Spec => []TypeOK
<1>1. IInv => TypeOK
  BY DEF IInv
<1> QED
  BY <1>1, Invariant, PTL

\* A walk that ended handed over every row that was in the caller's range all
\* along, whatever came, went or changed between its pages.
THEOREM WalksAreComplete == Spec => []NothingSkipped
<1>1. IInv => NothingSkipped
  BY NothingSkippedHolds
<1> QED
  BY <1>1, Invariant, PTL

\* No row is handed over more often than the venue ever held it.
THEOREM WalksDoNotRepeat == Spec => []NothingTwice
<1>1. IInv => NothingTwice
  BY NothingTwiceHolds
<1> QED
  BY <1>1, Invariant, PTL

\* No row outside the caller's own bounds is handed over.
THEOREM WalksStayInRange == Spec => []NothingOutside
<1>1. IInv => NothingOutside
  BY SameConditions DEF IInv, NothingOutside, NoneOutside
<1> QED
  BY <1>1, Invariant, PTL

\* A walk by key raises only for one of the causes ErrorIsDeserved lists, and
\* another only for a total, in TypeScript, which is not deserved.
THEOREM WalksRaiseForCause == Spec => []ErrorIsDeserved
<1>1. IInv => ErrorIsDeserved
  BY DEF IInv
<1> QED
  BY <1>1, Invariant, PTL

\* A walk never asks again from where it was: each request ends it or moves
\* it forwards, and one past the last row ends a walk by index (a TypeScript
\* offset walk that does not know the size of a page excepted).
THEOREM WalksAdvance == Spec => [][Advances]_vars
<1>1. IInv => [Advances]_vars
  BY EveryRequestAdvances
<1> QED
  BY <1>1, Invariant, PTL

=============================================================================
