----------------------------- MODULE Seek_lemmas -----------------------------
(***************************************************************************)
(* What the operators on rows that Seek is built from compute: which rows  *)
(* Select takes and in which order, how many rows of a kind a sequence     *)
(* holds, and how many of them Unmatched leaves; what inserting, removing  *)
(* and cutting do to the rows by index; and the arithmetic of page sizes.  *)
(***************************************************************************)
EXTENDS Seek, FiniteSetTheorems, FunctionTheorems, TLAPS

\* The indexes at which s holds a member of V, and how many there are.
Places(s, V) == {i \in DOMAIN s : s[i] \in V}
Tally(s, V) == Cardinality(Places(s, V))

\* q is taken from s, index k of q from index p[k] of s, no index twice.
TakenBy(q, s, p) ==
  /\ p \in [DOMAIN q -> DOMAIN s]
  /\ \A i, j \in DOMAIN q : p[i] = p[j] => i = j
  /\ \A k \in DOMAIN q : q[k] = s[p[k]]

Upto(I, i) == {j \in I : j <= i}

-----------------------------------------------------------------------------
(* Ranks: the members of a finite set of numbers, counted upwards.         *)

\* The n-th of the numbers of I exists for n up to their number, once.
LEMMA Ranks ==
  ASSUME NEW I \in SUBSET Nat, IsFiniteSet(I)
  PROVE  /\ Cardinality(I) \in Nat
         /\ \A i \in I : Cardinality(Upto(I, i)) \in 1..Cardinality(I)
         /\ \A i, j \in I : i < j => Cardinality(Upto(I, i)) < Cardinality(Upto(I, j))
         /\ \A n \in 1..Cardinality(I) : \E i \in I : Cardinality(Upto(I, i)) = n
<1> DEFINE rank == [i \in I |-> Cardinality(Upto(I, i))]
<1>1. Cardinality(I) \in Nat
  BY FS_CardinalityType
<1>2. \A i \in I : IsFiniteSet(Upto(I, i)) /\ Cardinality(Upto(I, i)) \in 0..Cardinality(I)
  <2>1. SUFFICES ASSUME NEW i \in I
                 PROVE  IsFiniteSet(Upto(I, i)) /\ Cardinality(Upto(I, i)) \in 0..Cardinality(I)
    OBVIOUS
  <2>2. Upto(I, i) \in SUBSET I
    BY DEF Upto
  <2>3. IsFiniteSet(Upto(I, i)) /\ Cardinality(Upto(I, i)) <= Cardinality(I)
    BY <2>2, FS_Subset
  <2>4. Cardinality(Upto(I, i)) \in Nat
    BY <2>3, FS_CardinalityType
  <2> QED
    BY <1>1, <2>3, <2>4
<1>3. \A i \in I : Cardinality(Upto(I, i)) \in 1..Cardinality(I)
  <2>1. SUFFICES ASSUME NEW i \in I
                 PROVE  Cardinality(Upto(I, i)) # 0
    BY <1>1, <1>2
  <2>2. i \in Upto(I, i)
    BY DEF Upto
  <2> QED
    BY <1>2, <2>2, FS_EmptySet
<1>4. \A i, j \in I : i < j => Cardinality(Upto(I, i)) < Cardinality(Upto(I, j))
  <2>1. SUFFICES ASSUME NEW i \in I, NEW j \in I, i < j
                 PROVE  Cardinality(Upto(I, i)) < Cardinality(Upto(I, j))
    OBVIOUS
  <2>2. Upto(I, i) \in SUBSET Upto(I, j)
    <3>1. i \in Nat /\ j \in Nat
      OBVIOUS
    <3>2. \A k \in I : k \in Nat /\ (k <= i => k <= j)
      BY <2>1, <3>1
    <3> QED
      BY <3>2 DEF Upto
  <2>3. j \in Upto(I, j) /\ j \notin Upto(I, i)
    BY <2>1 DEF Upto
  <2>4. /\ Cardinality(Upto(I, i)) <= Cardinality(Upto(I, j))
        /\ Cardinality(Upto(I, i)) # Cardinality(Upto(I, j))
    BY <1>2, <2>2, <2>3, FS_Subset
  <2>5. Cardinality(Upto(I, i)) \in Nat /\ Cardinality(Upto(I, j)) \in Nat
    BY <1>1, <1>2
  <2> QED
    BY <2>4, <2>5
<1>5. \A n \in 1..Cardinality(I) : \E i \in I : Cardinality(Upto(I, i)) = n
  <2>1. rank \in [I -> 1..Cardinality(I)]
    BY <1>3
  <2>2. \A i, j \in I : rank[i] = rank[j] => i = j
    <3>1. SUFFICES ASSUME NEW i \in I, NEW j \in I, i # j
                   PROVE  rank[i] # rank[j]
      OBVIOUS
    <3>2. i < j \/ j < i
      BY <3>1
    <3>3. rank[i] \in Int /\ rank[j] \in Int /\ (rank[i] < rank[j] \/ rank[j] < rank[i])
      BY <3>2, <1>1, <1>3, <1>4
    <3> QED
      BY <3>3
  <2>3. rank \in Injection(I, 1..Cardinality(I))
    BY <2>1, <2>2, Fun_IsInj
  <2>4. IsFiniteSet(1..Cardinality(I)) /\ Cardinality(1..Cardinality(I)) = Cardinality(I)
    BY <1>1, FS_Interval
  <2>5. rank \in Surjection(I, 1..Cardinality(I))
    BY <2>3, <2>4, FS_Injection
  <2>6. \A n \in 1..Cardinality(I) : \E i \in I : rank[i] = n
    <3> HIDE DEF rank
    <3> QED
      BY <2>5, Fun_SurjectionProperties
  <2> QED
    BY <2>6
<1> QED
  BY <1>1, <1>3, <1>4, <1>5

-----------------------------------------------------------------------------
(* Select.                                                                 *)

\* Select takes the rows at I, each once and in their order.
LEMMA SelectTakes ==
  ASSUME NEW R, NEW s \in Seq(R), NEW I \in SUBSET DOMAIN s
  PROVE  /\ Select(s, I) \in Seq(R)
         /\ Len(Select(s, I)) = Cardinality(I)
         /\ \E p \in [DOMAIN Select(s, I) -> I] :
              /\ TakenBy(Select(s, I), s, p)
              /\ \A i, j \in DOMAIN Select(s, I) : i < j => p[i] < p[j]
              /\ \A i \in I : \E k \in DOMAIN Select(s, I) : p[k] = i
<1>1. I \in SUBSET Nat /\ IsFiniteSet(I)
  <2>1. DOMAIN s = 1..Len(s) /\ Len(s) \in Nat
    OBVIOUS
  <2>2. IsFiniteSet(1..Len(s)) /\ I \in SUBSET (1..Len(s))
    BY <2>1, FS_Interval
  <2>3. IsFiniteSet(I)
    BY <2>2, FS_Subset
  <2> QED
    BY <2>1, <2>2, <2>3
<1> DEFINE n == Cardinality(I)
<1> DEFINE Nth(k) == CHOOSE i \in I : Cardinality(Upto(I, i)) = k
<1> DEFINE p == [k \in 1..n |-> Nth(k)]
<1>2. n \in Nat
  BY <1>1, Ranks
<1>3. \A k \in 1..n : Nth(k) \in I /\ Cardinality(Upto(I, Nth(k))) = k
  BY <1>1, Ranks
<1>4. Select(s, I) = [k \in 1..n |-> s[Nth(k)]]
  BY DEF Select, Upto
<1>5. \A k \in 1..n : s[Nth(k)] \in R
  BY <1>3
<1>6. Select(s, I) \in Seq(R) /\ Len(Select(s, I)) = n /\ DOMAIN Select(s, I) = 1..n
  <2> HIDE DEF n, Nth
  <2> QED
    BY <1>2, <1>4, <1>5
<1>7. \A i \in I : \E k \in 1..n : p[k] = i
  <2>1. SUFFICES ASSUME NEW i \in I
                 PROVE  \E k \in 1..n : p[k] = i
    OBVIOUS
  <2>2. Cardinality(Upto(I, i)) \in 1..n
    BY <1>1, Ranks
  <2>3. PICK k \in 1..n : k = Cardinality(Upto(I, i))
    BY <2>2
  <2>4. Nth(k) \in I /\ Cardinality(Upto(I, Nth(k))) = Cardinality(Upto(I, i))
    BY <1>3, <2>3
  <2>5. \A a, b \in I : Cardinality(Upto(I, a)) \in Int
                        /\ (a < b => Cardinality(Upto(I, a)) < Cardinality(Upto(I, b)))
    BY <1>1, <1>2, Ranks
  <2>6. Nth(k) = i
    <3>1. Nth(k) \in Nat /\ i \in Nat
      BY <1>1, <2>4
    <3> HIDE DEF Nth
    <3> QED
      BY <2>4, <2>5, <3>1
  <2> QED
    BY <2>6
<1>8. \A i, j \in 1..n : i < j => p[i] < p[j]
  <2>1. SUFFICES ASSUME NEW i \in 1..n, NEW j \in 1..n, i < j
                 PROVE  Nth(i) < Nth(j)
    OBVIOUS
  <2>2. /\ Nth(i) \in I /\ Cardinality(Upto(I, Nth(i))) = i
        /\ Nth(j) \in I /\ Cardinality(Upto(I, Nth(j))) = j
    BY <1>3
  <2>3. \A a, b \in I : a < b => Cardinality(Upto(I, a)) < Cardinality(Upto(I, b))
    BY <1>1, Ranks
  <2>4. Nth(i) \in Nat /\ Nth(j) \in Nat
    BY <1>1, <2>2
  <2> HIDE DEF Nth
  <2> QED
    BY <2>1, <2>2, <2>3, <2>4
<1>9. p \in [1..n -> I]
  BY <1>3
<1>10. \A k \in 1..n : Select(s, I)[k] = s[p[k]]
  BY <1>4
<1>11. \A i, j \in 1..n : p[i] = p[j] => i = j
  <2>1. \A k \in 1..n : p[k] \in Nat
    BY <1>1, <1>9
  <2> HIDE DEF p
  <2> QED
    BY <1>2, <1>8, <2>1
<1> HIDE DEF p, n
<1>12. TakenBy(Select(s, I), s, p)
  BY <1>6, <1>9, <1>10, <1>11 DEF TakenBy
<1> QED
  BY <1>6, <1>7, <1>8, <1>9, <1>12 DEF n

\* So what it selects are rows of s.
LEMMA SelectKeeps ==
  ASSUME NEW R, NEW s \in Seq(R), NEW I \in SUBSET DOMAIN s
  PROVE  /\ Select(s, I) \in Seq(R)
         /\ \A k \in DOMAIN Select(s, I) : \E i \in I : Select(s, I)[k] = s[i]
<1>1. PICK p \in [DOMAIN Select(s, I) -> I] : TakenBy(Select(s, I), s, p)
  BY SelectTakes
<1>2. Select(s, I) \in Seq(R)
  BY SelectTakes
<1> QED
  BY <1>1, <1>2 DEF TakenBy

-----------------------------------------------------------------------------
(* Tallies.                                                                *)

\* A tally is a number, at most the length of the sequence; it is that
\* length when every row counts, and 0 only when none does.
LEMMA TallyType ==
  ASSUME NEW R, NEW s \in Seq(R), NEW V
  PROVE  /\ IsFiniteSet(Places(s, V)) /\ Places(s, V) \subseteq DOMAIN s
         /\ Tally(s, V) \in Nat /\ Tally(s, V) <= Len(s)
         /\ (\A i \in DOMAIN s : s[i] \in V) => Tally(s, V) = Len(s)
         /\ Tally(s, V) = 0 <=> \A i \in DOMAIN s : s[i] \notin V
<1>1. DOMAIN s = 1..Len(s) /\ Len(s) \in Nat
  OBVIOUS
<1>2. IsFiniteSet(1..Len(s)) /\ Cardinality(1..Len(s)) = Len(s)
  BY <1>1, FS_Interval
<1>3. Places(s, V) \in SUBSET (1..Len(s))
  BY <1>1 DEF Places
<1>4. IsFiniteSet(Places(s, V)) /\ Cardinality(Places(s, V)) <= Len(s)
  BY <1>2, <1>3, FS_Subset
<1>5. (\A i \in DOMAIN s : s[i] \in V) => Places(s, V) = 1..Len(s)
  BY <1>1 DEF Places
<1>6. Cardinality(Places(s, V)) = 0 <=> Places(s, V) = {}
  BY <1>4, FS_EmptySet
<1>7. Cardinality(Places(s, V)) \in Nat
  BY <1>4, FS_CardinalityType
<1>8. Places(s, V) = {} <=> \A i \in DOMAIN s : s[i] \notin V
  BY DEF Places
<1> QED
  BY <1>1, <1>2, <1>3, <1>4, <1>5, <1>6, <1>7, <1>8 DEF Tally

\* No rows hold nothing.
LEMMA TallyEmpty == \A V : Tally(<<>>, V) = 0
<1>1. SUFFICES ASSUME NEW V PROVE Cardinality(Places(<<>>, V)) = 0
  BY DEF Tally
<1>2. Places(<<>>, V) = {}
  BY DEF Places
<1> QED
  BY <1>2, FS_EmptySet

\* Counting more rows finds no fewer.
LEMMA TallyMonotone ==
  ASSUME NEW R, NEW s \in Seq(R), NEW V, NEW W,
         \A i \in DOMAIN s : s[i] \in V => s[i] \in W
  PROVE  Tally(s, V) <= Tally(s, W)
<1>1. Places(s, V) \in SUBSET Places(s, W)
  BY DEF Places
<1>2. IsFiniteSet(Places(s, W))
  BY TallyType
<1> QED
  BY <1>1, <1>2, FS_Subset DEF Tally

\* What is taken from s holds no row more often than s, and as often when no
\* such row is left behind.
LEMMA TallyTaken ==
  ASSUME NEW R, NEW s \in Seq(R), NEW q \in Seq(R), NEW p, TakenBy(q, s, p), NEW V
  PROVE  /\ Tally(q, V) <= Tally(s, V)
         /\ (\A i \in Places(s, V) : \E k \in DOMAIN q : p[k] = i) => Tally(q, V) = Tally(s, V)
<1> DEFINE f == [k \in Places(q, V) |-> p[k]]
<1>1. f \in [Places(q, V) -> Places(s, V)]
  BY DEF TakenBy, Places
<1>2. \A i, j \in Places(q, V) : f[i] = f[j] => i = j
  BY DEF TakenBy, Places
<1>3. f \in Injection(Places(q, V), Places(s, V))
  BY <1>1, <1>2, Fun_IsInj
<1>4. IsFiniteSet(Places(s, V))
  BY TallyType
<1>5. /\ Cardinality(Places(q, V)) <= Cardinality(Places(s, V))
      /\ Cardinality(Places(q, V)) = Cardinality(Places(s, V))
            <=> f \in Surjection(Places(q, V), Places(s, V))
  BY <1>3, <1>4, FS_Injection
<1>6. ASSUME \A i \in Places(s, V) : \E k \in DOMAIN q : p[k] = i
      PROVE  f \in Surjection(Places(q, V), Places(s, V))
  <2>1. \A i \in Places(s, V) : \E k \in Places(q, V) : f[k] = i
    BY <1>6 DEF TakenBy, Places
  <2> HIDE DEF f
  <2> QED
    BY <1>1, <2>1, Fun_IsSurj
<1> QED
  BY <1>5, <1>6 DEF Tally

\* The tally of two sequences in a row is the sum of theirs.
LEMMA TallyConcat ==
  ASSUME NEW R, NEW s \in Seq(R), NEW t \in Seq(R), NEW V
  PROVE  Tally(s \o t, V) = Tally(s, V) + Tally(t, V)
<1> DEFINE left == Places(s, V)
          right == {i \in (Len(s) + 1)..(Len(s) + Len(t)) : t[i - Len(s)] \in V}
          shift == [i \in Places(t, V) |-> i + Len(s)]
<1>1. /\ s \o t \in Seq(R) /\ Len(s \o t) = Len(s) + Len(t)
      /\ Len(s) \in Nat /\ Len(t) \in Nat
      /\ DOMAIN s = 1..Len(s) /\ DOMAIN t = 1..Len(t)
      /\ DOMAIN (s \o t) = 1..(Len(s) + Len(t))
  OBVIOUS
<1>2. /\ \A i \in 1..Len(s) : (s \o t)[i] = s[i]
      /\ \A i \in (Len(s) + 1)..(Len(s) + Len(t)) : (s \o t)[i] = t[i - Len(s)]
  OBVIOUS
<1>3. Places(s \o t, V) = left \union right
  <2>1. \A i : i \in Places(s \o t, V) <=> i \in 1..(Len(s) + Len(t)) /\ (s \o t)[i] \in V
    BY <1>1 DEF Places
  <2>2. \A i : i \in left <=> i \in 1..Len(s) /\ s[i] \in V
    BY <1>1 DEF Places
  <2>3. \A i : i \in 1..(Len(s) + Len(t)) <=>
                 i \in 1..Len(s) \/ i \in (Len(s) + 1)..(Len(s) + Len(t))
    BY <1>1
  <2> QED
    BY <1>2, <2>1, <2>2, <2>3
<1>4. left \cap right = {}
  BY <1>1 DEF Places
<1>5. IsFiniteSet(left) /\ IsFiniteSet(Places(t, V))
  BY TallyType
<1>6. shift \in Bijection(Places(t, V), right)
  <2>1. shift \in [Places(t, V) -> right]
    <3>1. \A i \in Places(t, V) : i \in Nat /\ i >= 1 /\ i <= Len(t) /\ t[i] \in V
      BY <1>1 DEF Places
    <3>2. \A i \in Places(t, V) : i + Len(s) \in right
      BY <1>1, <3>1
    <3> QED
      BY <3>2
  <2>2. \A i, j \in Places(t, V) : shift[i] = shift[j] => i = j
    BY <1>1 DEF Places
  <2>3. \A j \in right : \E i \in Places(t, V) : shift[i] = j
    <3>1. SUFFICES ASSUME NEW j \in right PROVE \E i \in Places(t, V) : shift[i] = j
      OBVIOUS
    <3>2. j - Len(s) \in Places(t, V)
      BY <1>1, <3>1 DEF Places
    <3>3. shift[j - Len(s)] = j
      BY <1>1, <3>1, <3>2
    <3> QED
      BY <3>2, <3>3
  <2> HIDE DEF shift, right
  <2> QED
    BY <2>1, <2>2, <2>3, Fun_IsBij
<1>7. IsFiniteSet(right) /\ Cardinality(right) = Tally(t, V)
  <2>1. ExistsBijection(Places(t, V), right)
    BY <1>6 DEF ExistsBijection
  <2> HIDE DEF right
  <2> QED
    BY <1>5, <2>1, FS_Bijection DEF Tally
<1>8. Cardinality(left \union right) = Cardinality(left) + Cardinality(right) - Cardinality({})
  <2> HIDE DEF left, right
  <2> QED
    BY <1>4, <1>5, <1>7, FS_Union
<1>9. Cardinality(left) \in Nat /\ Cardinality(right) \in Nat /\ Cardinality({}) = 0
  <2> HIDE DEF left, right
  <2> QED
    BY <1>5, <1>7, FS_CardinalityType, FS_EmptySet
<1> QED
  BY <1>3, <1>7, <1>8, <1>9 DEF Tally

\* Reversing a sequence takes every row of it.
LEMMA ReverseTakes ==
  ASSUME NEW R, NEW s \in Seq(R)
  PROVE  /\ Reverse(s) \in Seq(R) /\ Len(Reverse(s)) = Len(s)
         /\ LET p == [k \in 1..Len(s) |-> Len(s) - k + 1]
            IN  /\ TakenBy(Reverse(s), s, p)
                /\ \A i \in DOMAIN s : \E k \in DOMAIN Reverse(s) : p[k] = i
<1> DEFINE n == Len(s)
          p == [k \in 1..n |-> n - k + 1]
<1>1. n \in Nat /\ DOMAIN s = 1..n /\ s \in [1..n -> R]
  OBVIOUS
<1>2. Reverse(s) = [i \in 1..n |-> s[n - i + 1]]
  BY DEF Reverse
<1>3. \A k \in 1..n : n - k + 1 \in 1..n
  BY <1>1
<1>4. Reverse(s) \in Seq(R) /\ Len(Reverse(s)) = n /\ DOMAIN Reverse(s) = 1..n
  <2> HIDE DEF n
  <2> QED
    BY <1>1, <1>2, <1>3
<1>5. TakenBy(Reverse(s), s, p)
  <2>1. p \in [1..n -> 1..n]
    BY <1>3
  <2>2. \A i, j \in 1..n : p[i] = p[j] => i = j
    BY <1>1
  <2>3. \A k \in 1..n : Reverse(s)[k] = s[p[k]]
    BY <1>2
  <2> QED
    BY <1>1, <1>4, <2>1, <2>2, <2>3 DEF TakenBy
<1>6. \A i \in 1..n : \E k \in 1..n : p[k] = i
  <2>1. \A i \in 1..n : n - i + 1 \in 1..n /\ p[n - i + 1] = i
    BY <1>1, <1>3
  <2> QED
    BY <2>1
<1> QED
  BY <1>1, <1>4, <1>5, <1>6

\* The tally of selected rows counts the indexes they were selected at.
LEMMA TallySelect ==
  ASSUME NEW R, NEW s \in Seq(R), NEW I \in SUBSET DOMAIN s, NEW V
  PROVE  Tally(Select(s, I), V) = Cardinality(I \cap Places(s, V))
<1> DEFINE q == Select(s, I)
<1>1. q \in Seq(R)
  BY SelectTakes
<1>2. PICK p \in [DOMAIN q -> I] :
        /\ TakenBy(q, s, p)
        /\ \A i \in I : \E k \in DOMAIN q : p[k] = i
  BY SelectTakes
<1> HIDE DEF q
<1> DEFINE f == [k \in Places(q, V) |-> p[k]]
<1>3. f \in [Places(q, V) -> I \cap Places(s, V)]
  BY <1>2 DEF TakenBy, Places
<1>4. \A i, j \in Places(q, V) : f[i] = f[j] => i = j
  BY <1>2 DEF TakenBy, Places
<1>5. \A i \in I \cap Places(s, V) : \E k \in Places(q, V) : f[k] = i
  BY <1>2 DEF TakenBy, Places
<1>6. f \in Bijection(Places(q, V), I \cap Places(s, V))
  <2> HIDE DEF f
  <2> QED
    BY <1>3, <1>4, <1>5, Fun_IsBij
<1>7. IsFiniteSet(Places(q, V))
  BY <1>1, TallyType
<1>8. ExistsBijection(Places(q, V), I \cap Places(s, V))
  BY <1>6 DEF ExistsBijection
<1> QED
  BY <1>7, <1>8, FS_Bijection DEF Tally, q

\* Counting one row is counting a set of one.
LEMMA CountIsTally ==
  ASSUME NEW s, NEW r
  PROVE  Count(s, r) = Tally(s, {r})
BY DEF Count, Tally, Places

\* Unmatched leaves as many copies of a row as exceed those of the others.
LEMMA TallyUnmatched ==
  ASSUME NEW R, NEW s \in Seq(R), NEW t \in Seq(R), NEW r
  PROVE  Tally(Unmatched(s, t), {r}) =
           IF Tally(s, {r}) > Tally(t, {r}) THEN Tally(s, {r}) - Tally(t, {r}) ELSE 0
<1> DEFINE K == Places(s, {r})
          c == Tally(t, {r})
          n == Tally(s, {r})
          left == {i \in K : Cardinality(Upto(K, i)) > c}
          I == {i \in DOMAIN s : Count(SubSeq(s, 1, i), s[i]) > Count(t, s[i])}
<1>1. c \in Nat /\ n \in Nat /\ n = Cardinality(K)
  BY TallyType DEF Tally
<1>2. K \in SUBSET Nat /\ IsFiniteSet(K)
  BY TallyType
<1>3. I \cap K = left
  <2>1. \A i \in K : Places(SubSeq(s, 1, i), {r}) = Upto(K, i)
    <3>1. SUFFICES ASSUME NEW i \in K PROVE Places(SubSeq(s, 1, i), {r}) = Upto(K, i)
      OBVIOUS
    <3>2. i \in 1..Len(s) /\ Len(s) \in Nat /\ DOMAIN s = 1..Len(s)
      BY DEF Places
    <3>3. DOMAIN SubSeq(s, 1, i) = 1..i /\ \A j \in 1..i : SubSeq(s, 1, i)[j] = s[j]
      BY <3>2
    <3>4. \A j : j \in Places(SubSeq(s, 1, i), {r}) <=> j \in 1..i /\ s[j] = r
      BY <3>3 DEF Places
    <3>5. \A j : j \in Upto(K, i) <=> j \in 1..Len(s) /\ s[j] = r /\ j <= i
      BY <3>2 DEF Places, Upto
    <3>6. \A j : j \in 1..i <=> j \in 1..Len(s) /\ j <= i
      BY <3>2
    <3> QED
      BY <3>4, <3>5, <3>6
  <2>2. \A i \in K : i \in DOMAIN s /\ s[i] = r
    BY DEF Places
  <2>3. \A i \in K : /\ Count(SubSeq(s, 1, i), s[i]) = Cardinality(Upto(K, i))
                     /\ Count(t, s[i]) = c
    BY <2>1, <2>2, CountIsTally DEF Tally
  <2> HIDE DEF K, c
  <2> QED
    BY <2>2, <2>3
<1>4. Tally(Unmatched(s, t), {r}) = Cardinality(left)
  <2>1. I \in SUBSET DOMAIN s
    OBVIOUS
  <2>2. Tally(Select(s, I), {r}) = Cardinality(I \cap K)
    <3> HIDE DEF I
    <3> QED
      BY <2>1, TallySelect
  <2> QED
    BY <1>3, <2>2 DEF Unmatched
<1> HIDE DEF K, c, n
<1>5. \A i \in K : Cardinality(Upto(K, i)) \in Int /\ Cardinality(Upto(K, i)) <= n
  <2>1. \A i \in K : Cardinality(Upto(K, i)) \in 1..Cardinality(K)
    BY <1>2, Ranks
  <2> QED
    BY <1>1, <2>1
<1>6. CASE n > c
  <2> DEFINE f == [i \in left |-> Cardinality(Upto(K, i))]
  <2>1. f \in [left -> (c + 1)..n]
    <3>1. \A i \in left : Cardinality(Upto(K, i)) \in (c + 1)..n
      BY <1>1, <1>5
    <3> QED
      BY <3>1
  <2>2. \A i, j \in left : f[i] = f[j] => i = j
    <3>1. SUFFICES ASSUME NEW i \in left, NEW j \in left, i # j PROVE f[i] # f[j]
      OBVIOUS
    <3>2. i \in Nat /\ j \in Nat /\ i \in K /\ j \in K
      BY <1>2
    <3>3. f[i] < f[j] \/ f[j] < f[i]
      BY <1>2, <3>1, <3>2, Ranks
    <3>4. f[i] \in Int /\ f[j] \in Int
      BY <1>1, <2>1
    <3> QED
      BY <3>3, <3>4
  <2>3. \A k \in (c + 1)..n : \E i \in left : f[i] = k
    <3>1. SUFFICES ASSUME NEW k \in (c + 1)..n PROVE \E i \in left : f[i] = k
      OBVIOUS
    <3>2. k \in 1..n /\ k > c
      BY <1>1
    <3>3. PICK i \in K : Cardinality(Upto(K, i)) = k
      BY <1>1, <1>2, <3>2, Ranks
    <3> QED
      BY <3>2, <3>3
  <2>4. f \in Bijection(left, (c + 1)..n)
    <3> HIDE DEF f, left
    <3> QED
      BY <2>1, <2>2, <2>3, Fun_IsBij
  <2>5. IsFiniteSet(left)
    <3>1. left \in SUBSET K
      OBVIOUS
    <3> QED
      BY <1>2, <3>1, FS_Subset
  <2>6. Cardinality((c + 1)..n) = Cardinality(left)
    <3>1. ExistsBijection(left, (c + 1)..n)
      BY <2>4 DEF ExistsBijection
    <3> HIDE DEF left
    <3> QED
      BY <2>5, <3>1, FS_Bijection
  <2>7. Cardinality((c + 1)..n) = n - c
    <3>1. c + 1 \in Int /\ n \in Int
      BY <1>1
    <3>2. Cardinality((c + 1)..n) = IF c + 1 > n THEN 0 ELSE n - (c + 1) + 1
      BY <3>1, FS_Interval
    <3> QED
      BY <1>1, <1>6, <3>2
  <2> QED
    BY <1>4, <1>6, <2>6, <2>7 DEF c, n
<1>7. CASE ~(n > c)
  <2>1. left = {}
    BY <1>1, <1>5, <1>7
  <2> QED
    BY <1>4, <1>7, <2>1, FS_EmptySet DEF c, n
<1> QED
  BY <1>6, <1>7

-----------------------------------------------------------------------------
(* Prefixes, and a row more or less.                                       *)

\* A prefix is shorter and agrees as far as it goes.
LEMMA PrefixAgrees ==
  ASSUME NEW R, NEW s \in Seq(R), NEW t \in Seq(R)
  PROVE  IsPrefix(s, t) <=> Len(s) <= Len(t) /\ \A i \in 1..Len(s) : s[i] = t[i]
<1>1. Len(s) \in Nat /\ Len(t) \in Nat
  OBVIOUS
<1>2. SubSeq(s, 1, Len(s)) = s
  OBVIOUS
<1>3. ASSUME Len(s) <= Len(t), NEW u, u = SubSeq(t, 1, Len(s))
      PROVE  /\ u \in Seq(R) /\ Len(u) = Len(s)
             /\ \A i \in 1..Len(s) : u[i] = t[i]
  BY <1>1, <1>3
<1>4. ASSUME Len(s) <= Len(t), \A i \in 1..Len(s) : s[i] = t[i]
      PROVE  s = SubSeq(t, 1, Len(s))
  <2> DEFINE u == SubSeq(t, 1, Len(s))
  <2>1. u \in Seq(R) /\ Len(u) = Len(s) /\ \A i \in 1..Len(s) : u[i] = t[i]
    BY <1>3, <1>4
  <2> HIDE DEF u
  <2>2. s = u
    BY <1>4, <2>1
  <2> QED
    BY <2>2 DEF u
<1>5. ASSUME Len(s) <= Len(t), s = SubSeq(t, 1, Len(s))
      PROVE  \A i \in 1..Len(s) : s[i] = t[i]
  BY <1>3, <1>5
<1>6. IsPrefix(s, t) <=> Len(s) <= Len(t) /\ s = SubSeq(t, 1, Len(s))
  BY <1>2 DEF IsPrefix
<1> QED
  BY <1>4, <1>5, <1>6

\* The rows of two sequences end to end, by index.
LEMMA Concats ==
  ASSUME NEW R, NEW a \in Seq(R), NEW b \in Seq(R)
  PROVE  /\ a \o b \in Seq(R) /\ Len(a \o b) = Len(a) + Len(b)
         /\ \A i \in 1..Len(a) : (a \o b)[i] = a[i]
         /\ \A i \in Len(a) + 1..Len(a) + Len(b) : (a \o b)[i] = b[i - Len(a)]
OBVIOUS

\* The rows with one put in, by index.
LEMMA Inserts ==
  ASSUME NEW R, NEW s \in Seq(R), NEW n \in 1..Len(s) + 1, NEW r \in R
  PROVE  /\ InsertAt(s, n, r) \in Seq(R) /\ Len(InsertAt(s, n, r)) = Len(s) + 1
         /\ \A i \in 1..Len(s) + 1 :
              InsertAt(s, n, r)[i] = IF i < n THEN s[i] ELSE IF i = n THEN r ELSE s[i - 1]
<1> DEFINE a == SubSeq(s, 1, n - 1)
           b == SubSeq(s, n, Len(s))
<1>1. Len(s) \in Nat /\ n \in Nat /\ n > 0 /\ n <= Len(s) + 1
  OBVIOUS
<1>2. a \in Seq(R) /\ Len(a) = n - 1 /\ \A i \in 1..n - 1 : a[i] = s[i]
  BY <1>1
<1>3. /\ b \in Seq(R) /\ Len(b) = Len(s) - n + 1
      /\ \A i \in 1..Len(s) - n + 1 : b[i] = s[n + i - 1]
  BY <1>1
<1>4. InsertAt(s, n, r) = a \o <<r>> \o b
  BY DEF InsertAt
<1> HIDE DEF a, b
<1> DEFINE c == a \o <<r>>
<1>5. c \in Seq(R) /\ Len(c) = n /\ c[n] = r /\ \A i \in 1..n - 1 : c[i] = s[i]
  BY <1>1, <1>2
<1> HIDE DEF c
<1>6. /\ c \o b \in Seq(R) /\ Len(c \o b) = Len(s) + 1
      /\ \A i \in 1..n : (c \o b)[i] = c[i]
      /\ \A i \in n + 1..Len(s) + 1 : (c \o b)[i] = b[i - n]
  BY <1>1, <1>3, <1>5
<1>7. \A i \in n + 1..Len(s) + 1 : b[i - n] = s[i - 1]
  <2>1. SUFFICES ASSUME NEW i \in n + 1..Len(s) + 1 PROVE b[i - n] = s[i - 1]
    OBVIOUS
  <2>2. i - n \in 1..Len(s) - n + 1 /\ n + (i - n) - 1 = i - 1
    BY <1>1
  <2> QED
    BY <1>3, <2>2
<1>8. ASSUME NEW i \in 1..Len(s) + 1
      PROVE  (c \o b)[i] = IF i < n THEN s[i] ELSE IF i = n THEN r ELSE s[i - 1]
  <2>1. CASE i < n
    <3>1. i \in 1..n - 1 /\ i \in 1..n
      BY <1>1, <2>1
    <3> QED
      BY <1>5, <1>6, <2>1, <3>1
  <2>2. CASE i = n
    BY <1>1, <1>5, <1>6, <2>2
  <2>3. CASE i > n
    <3>1. i \in n + 1..Len(s) + 1 /\ ~(i < n) /\ i # n
      BY <1>1, <2>3
    <3> QED
      BY <1>6, <1>7, <3>1
  <2>4. i < n \/ i = n \/ i > n
    BY <1>1
  <2> QED
    BY <2>1, <2>2, <2>3, <2>4
<1> QED
  BY <1>4, <1>6, <1>8 DEF c

\* The rows with one taken out, by index.
LEMMA Removes ==
  ASSUME NEW R, NEW s \in Seq(R), NEW n \in 1..Len(s)
  PROVE  /\ RemoveAt(s, n) \in Seq(R) /\ Len(RemoveAt(s, n)) = Len(s) - 1
         /\ \A i \in 1..Len(s) - 1 : RemoveAt(s, n)[i] = IF i < n THEN s[i] ELSE s[i + 1]
<1> DEFINE a == SubSeq(s, 1, n - 1)
           b == SubSeq(s, n + 1, Len(s))
<1>1. Len(s) \in Nat /\ n \in Nat /\ n > 0 /\ n <= Len(s)
  OBVIOUS
<1>2. a \in Seq(R) /\ Len(a) = n - 1 /\ \A i \in 1..n - 1 : a[i] = s[i]
  BY <1>1
<1>3. /\ b \in Seq(R) /\ Len(b) = Len(s) - n
      /\ \A i \in 1..Len(s) - n : b[i] = s[n + i]
  BY <1>1
<1>4. RemoveAt(s, n) = a \o b
  BY DEF RemoveAt
<1> HIDE DEF a, b
<1>5. /\ a \o b \in Seq(R) /\ Len(a \o b) = Len(s) - 1
      /\ \A i \in 1..n - 1 : (a \o b)[i] = a[i]
      /\ \A i \in n..Len(s) - 1 : (a \o b)[i] = b[i - (n - 1)]
  <2>1. Len(a) + Len(b) = Len(s) - 1
    BY <1>1, <1>2, <1>3
  <2>2. /\ a \o b \in Seq(R) /\ Len(a \o b) = Len(a) + Len(b)
        /\ \A i \in 1..Len(a) : (a \o b)[i] = a[i]
        /\ \A i \in Len(a) + 1..Len(a) + Len(b) : (a \o b)[i] = b[i - Len(a)]
    BY <1>2, <1>3, Concats
  <2>3. Len(a) + 1 = n
    BY <1>1, <1>2
  <2> QED
    BY <1>2, <2>1, <2>2, <2>3
<1>6. \A i \in n..Len(s) - 1 : b[i - (n - 1)] = s[i + 1]
  <2>1. SUFFICES ASSUME NEW i \in n..Len(s) - 1 PROVE b[i - (n - 1)] = s[i + 1]
    OBVIOUS
  <2>2. i - (n - 1) \in 1..Len(s) - n /\ n + (i - (n - 1)) = i + 1
    BY <1>1
  <2> QED
    BY <1>3, <2>2
<1>7. ASSUME NEW i \in 1..Len(s) - 1
      PROVE  (a \o b)[i] = IF i < n THEN s[i] ELSE s[i + 1]
  <2>1. CASE i < n
    <3>1. i \in 1..n - 1
      BY <1>1, <2>1
    <3> QED
      BY <1>2, <1>5, <2>1, <3>1
  <2>2. CASE ~(i < n)
    <3>1. i \in n..Len(s) - 1
      BY <1>1, <2>2
    <3> QED
      BY <1>5, <1>6, <2>2, <3>1
  <2> QED
    BY <2>1, <2>2
<1> QED
  BY <1>4, <1>5, <1>7

-----------------------------------------------------------------------------
(* Sizes and their multiples.                                              *)

\* Division by a size, and its multiples.
LEMMA Divides ==
  ASSUME NEW n \in Nat, NEW L \in Nat \ {0}
  PROVE  n \div L \in Nat /\ (n \div L) * L <= n /\ n < (n \div L) * L + L
OBVIOUS

\* Pages of L rows between two page numbers, one more at a time.
LEMMA Multiples ==
  ASSUME NEW k \in Int, NEW d \in Int, NEW L \in Nat \ {0}
  PROVE  /\ (k - d) * L \in Int /\ (d - d) * L = 0
         /\ ((k + 1) - d) * L = (k - d) * L + L
         /\ (k - d + 1) * L = (k - d) * L + L
OBVIOUS

\* More pages hold no fewer rows.
LEMMA MultiplesGrow ==
  ASSUME NEW k \in Int, NEW d \in Int, NEW L \in Nat \ {0}, k >= d
  PROVE  k * L >= d * L
<1>1. (k - d) * L >= 0
  OBVIOUS
<1>2. k * L = d * L + (k - d) * L
  OBVIOUS
<1>3. k * L \in Int /\ d * L \in Int /\ (k - d) * L \in Int
  OBVIOUS
<1> QED
  BY <1>1, <1>2, <1>3

\* So many pages of L rows hold n rows as the total of pages says.
LEMMA PagesHold ==
  ASSUME NEW n \in Nat, NEW L \in Nat \ {0}, NEW k \in Int, k >= (n + L - 1) \div L
  PROVE  k * L >= n
<1> DEFINE d == (n + L - 1) \div L
<1>1. n + L - 1 \in Nat /\ L \in Int
  OBVIOUS
<1>2. d \in Nat /\ n + L - 1 < d * L + L
  BY <1>1, Divides
<1> HIDE DEF d
<1>3. k * L >= d * L
  BY <1>2, MultiplesGrow DEF d
<1>4. d * L \in Int /\ k * L \in Int
  BY <1>1, <1>2
<1> QED
  BY <1>1, <1>2, <1>3, <1>4

\* And no fewer pages than that total says hold them.
LEMMA PagesSuffice ==
  ASSUME NEW n \in Nat, NEW L \in Nat \ {0}, NEW k \in Int, k * L >= n
  PROVE  k >= (n + L - 1) \div L
<1> DEFINE d == (n + L - 1) \div L
<1>1. n + L - 1 \in Nat
  OBVIOUS
<1>2. d \in Nat /\ d * L <= n + L - 1
  BY <1>1, Divides
<1> HIDE DEF d
<1>3. SUFFICES ASSUME d >= k + 1 PROVE FALSE
  BY <1>2 DEF d
<1>4. d * L >= (k + 1) * L
  BY <1>2, <1>3, MultiplesGrow
<1>5. (k + 1) * L = k * L + L /\ k * L \in Int /\ d * L \in Int
  BY <1>2
<1> QED
  BY <1>2, <1>4, <1>5

-----------------------------------------------------------------------------
(* Rows handed over by index.                                              *)

\* The L rows after the first R, or those of them there are.
LEMMA Windows ==
  ASSUME NEW T, NEW rows \in Seq(T), NEW R \in Nat, NEW L \in Nat \ {0}
  PROVE  LET s == SubSeq(rows, R + 1, Len(rows))
             q == SubSeq(s, 1, IF Len(s) < L THEN Len(s) ELSE L)
         IN  /\ q \in Seq(T) /\ Len(q) <= L
             /\ \A k \in DOMAIN q : R + k \in DOMAIN rows /\ q[k] = rows[R + k]
             /\ \A i \in DOMAIN rows : R < i /\ i <= R + L => i - R \in DOMAIN q
<1> DEFINE s == SubSeq(rows, R + 1, Len(rows))
           all == Len(rows)
           n == IF Len(s) < L THEN Len(s) ELSE L
           q == SubSeq(s, 1, n)
<1>1. s \in Seq(T) /\ \A k \in 1..Len(s) : s[k] = rows[R + k]
  OBVIOUS
<1>2. Len(s) = IF R < all THEN all - R ELSE 0
  OBVIOUS
<1>3. all \in Nat /\ DOMAIN rows = 1..all
  OBVIOUS
<1> HIDE DEF s, all
<1>4. Len(s) \in Nat
  BY <1>2, <1>3
<1>5. n \in Nat /\ n <= Len(s) /\ n <= L /\ (n = Len(s) \/ n = L)
  BY <1>4
<1> HIDE DEF n
<1>6. q \in Seq(T) /\ Len(q) = n /\ DOMAIN q = 1..n /\ \A k \in 1..n : q[k] = s[k]
  BY <1>1, <1>4, <1>5
<1> HIDE DEF q
<1>7. ASSUME NEW k \in 1..n PROVE R + k \in DOMAIN rows /\ q[k] = rows[R + k]
  <2>1. k \in Nat /\ k > 0 /\ k <= Len(s)
    BY <1>4, <1>5
  <2>2. R < all /\ R + k <= all
    BY <1>2, <1>3, <2>1
  <2>3. R + k \in 1..all /\ k \in 1..Len(s)
    BY <1>3, <1>4, <2>1, <2>2
  <2> QED
    BY <1>1, <1>3, <1>6, <2>3
<1>8. ASSUME NEW i \in 1..all, R < i, i <= R + L PROVE i - R \in 1..n
  <2>1. i \in Nat /\ i <= all
    BY <1>3
  <2>2. Len(s) = all - R
    BY <1>2, <1>3, <1>8, <2>1
  <2>3. i - R \in Nat /\ i - R > 0 /\ i - R <= Len(s) /\ i - R <= L
    BY <1>3, <1>8, <2>1, <2>2
  <2> QED
    BY <1>5, <2>3
<1>9. /\ q \in Seq(T) /\ Len(q) <= L
      /\ \A k \in DOMAIN q : R + k \in DOMAIN rows /\ q[k] = rows[R + k]
      /\ \A i \in DOMAIN rows : R < i /\ i <= R + L => i - R \in DOMAIN q
  BY <1>3, <1>5, <1>6, <1>7, <1>8
<1> QED
  BY <1>9 DEF q, n, s

\* y holds each row of `least` up to the index R, and otherwise rows of
\* `most` up to there, each once.
Filled(y, least, most, R) == \E g :
  /\ TakenBy(y, most, g)
  /\ \A k \in DOMAIN y : g[k] <= R
  /\ \A i \in DOMAIN least : i <= R => \E k \in DOMAIN y : g[k] = i

\* With the page, a walk holds what it should up to any index the page covers.
LEMMA PageFills ==
  ASSUME NEW T, NEW rows \in Seq(T), NEW least \in Seq(T), NEW most \in Seq(T),
         IsPrefix(least, rows), IsPrefix(rows, most),
         NEW y \in Seq(T), NEW q \in Seq(T), NEW R \in Nat, NEW R2 \in Nat,
         Filled(y, least, most, R), R + Len(q) <= R2,
         \A k \in DOMAIN q : R + k \in DOMAIN rows /\ q[k] = rows[R + k],
         \A i \in DOMAIN rows : R < i /\ i <= R2 => i - R \in DOMAIN q
  PROVE  Filled(y \o q, least, most, R2)
<1>1. PICK g : /\ TakenBy(y, most, g)
               /\ \A k \in DOMAIN y : g[k] <= R
               /\ \A i \in DOMAIN least : i <= R => \E k \in DOMAIN y : g[k] = i
  BY DEF Filled
<1> DEFINE z == y \o q
           g2 == [k \in 1..Len(z) |-> IF k <= Len(y) THEN g[k] ELSE R + (k - Len(y))]
<1>2. /\ Len(y) \in Nat /\ Len(q) \in Nat /\ Len(most) \in Nat /\ Len(rows) \in Nat
      /\ DOMAIN y = 1..Len(y) /\ DOMAIN q = 1..Len(q) /\ DOMAIN rows = 1..Len(rows)
      /\ DOMAIN most = 1..Len(most) /\ DOMAIN least = 1..Len(least)
  OBVIOUS
<1>3. /\ z \in Seq(T) /\ Len(z) = Len(y) + Len(q) /\ DOMAIN z = 1..Len(z)
      /\ \A k \in 1..Len(y) : z[k] = y[k]
      /\ \A k \in Len(y) + 1..Len(y) + Len(q) : z[k] = q[k - Len(y)]
  BY Concats
<1>4. /\ Len(least) <= Len(rows) /\ Len(rows) <= Len(most)
      /\ \A i \in 1..Len(rows) : rows[i] = most[i]
  BY PrefixAgrees
<1>5. /\ g \in [DOMAIN y -> DOMAIN most]
      /\ \A i, j \in DOMAIN y : g[i] = g[j] => i = j
      /\ \A k \in DOMAIN y : y[k] = most[g[k]]
  BY <1>1 DEF TakenBy
<1> HIDE DEF z
<1>6. \A k \in 1..Len(z) : \/ k \in DOMAIN y /\ g2[k] = g[k] /\ z[k] = y[k]
                           \/ /\ k \notin DOMAIN y /\ k - Len(y) \in DOMAIN q
                              /\ g2[k] = R + (k - Len(y)) /\ z[k] = q[k - Len(y)]
  BY <1>2, <1>3
<1> HIDE DEF g2
<1>7. \A k \in 1..Len(z) : g2[k] \in DOMAIN most /\ z[k] = most[g2[k]] /\ g2[k] <= R2
  <2>1. SUFFICES ASSUME NEW k \in 1..Len(z)
                 PROVE  g2[k] \in DOMAIN most /\ z[k] = most[g2[k]] /\ g2[k] <= R2
    OBVIOUS
  <2>2. CASE k \in DOMAIN y /\ g2[k] = g[k] /\ z[k] = y[k]
    <3>1. g[k] \in DOMAIN most /\ g[k] <= R /\ R <= R2
      BY <1>1, <1>2, <1>5, <2>2
    <3> QED
      BY <1>2, <1>5, <2>2, <3>1
  <2>3. CASE /\ k \notin DOMAIN y /\ k - Len(y) \in DOMAIN q
             /\ g2[k] = R + (k - Len(y)) /\ z[k] = q[k - Len(y)]
    <3> DEFINE m == k - Len(y)
    <3>1. m \in DOMAIN q /\ R + m \in DOMAIN rows /\ q[m] = rows[R + m]
      BY <2>3
    <3>2. m \in 1..Len(q)
      BY <1>2, <3>1
    <3> HIDE DEF m
    <3>3. R + m \in DOMAIN most /\ rows[R + m] = most[R + m] /\ R + m <= R2
      BY <1>2, <1>4, <3>1, <3>2
    <3>4. g2[k] = R + m /\ z[k] = q[m]
      BY <2>3 DEF m
    <3> QED
      BY <3>1, <3>3, <3>4
  <2> QED
    BY <1>6, <2>2, <2>3
<1>8. \A i, j \in 1..Len(z) : g2[i] = g2[j] => i = j
  <2>1. SUFFICES ASSUME NEW i \in 1..Len(z), NEW j \in 1..Len(z), g2[i] = g2[j] PROVE i = j
    OBVIOUS
  <2>2. \A k \in DOMAIN y : g[k] \in Nat /\ g[k] <= R
    BY <1>1, <1>2, <1>5
  <2>3. \A k \in DOMAIN q : k \in Nat /\ k > 0
    BY <1>2
  <2>4. i \in Nat /\ j \in Nat /\ Len(y) \in Nat
    BY <1>2, <1>3
  <2>5. CASE i \in DOMAIN y /\ j \in DOMAIN y
    BY <1>5, <1>6, <2>1, <2>5
  <2>6. CASE i \notin DOMAIN y /\ j \notin DOMAIN y
    <3>1. g2[i] = R + (i - Len(y)) /\ g2[j] = R + (j - Len(y))
      BY <1>6, <2>6
    <3>2. R + (i - Len(y)) = R + (j - Len(y))
      BY <2>1, <3>1
    <3> QED
      BY <2>4, <3>2
  <2>7. \A a \in DOMAIN y, b \in 1..Len(z) : b \notin DOMAIN y /\ a \in 1..Len(z) => g2[a] # g2[b]
    <3>1. SUFFICES ASSUME NEW a \in DOMAIN y, NEW b \in 1..Len(z), b \notin DOMAIN y,
                          a \in 1..Len(z)
                   PROVE  g2[a] # g2[b]
      OBVIOUS
    <3>2. g2[a] = g[a] /\ g[a] \in Nat /\ g[a] <= R
      BY <1>6, <2>2, <3>1
    <3>3. b - Len(y) \in DOMAIN q /\ g2[b] = R + (b - Len(y))
      BY <1>6, <3>1
    <3>4. b - Len(y) \in Nat /\ b - Len(y) > 0
      BY <2>3, <3>3
    <3> QED
      BY <3>2, <3>3, <3>4
  <2> QED
    BY <2>1, <2>5, <2>6, <2>7
<1>9. ASSUME NEW i \in DOMAIN least, i <= R2 PROVE \E k \in DOMAIN z : g2[k] = i
  <2>1. i \in Nat /\ i \in DOMAIN rows
    BY <1>2, <1>4
  <2>2. CASE i <= R
    <3>1. PICK k \in DOMAIN y : g[k] = i
      BY <1>1, <2>2
    <3>2. k \in 1..Len(z)
      BY <1>2, <1>3
    <3> QED
      BY <1>3, <1>6, <3>1, <3>2
  <2>3. CASE i > R
    <3>1. i - R \in DOMAIN q
      BY <1>9, <2>1, <2>3
    <3> DEFINE k == Len(y) + (i - R)
    <3>2. /\ i - R \in Nat /\ i - R > 0 /\ i - R <= Len(q)
          /\ Len(z) = Len(y) + Len(q) /\ Len(y) \in Nat /\ Len(q) \in Nat
          /\ DOMAIN y = 1..Len(y)
      BY <1>2, <1>3, <3>1
    <3>3. k \in 1..Len(z) /\ k \notin DOMAIN y /\ R + (k - Len(y)) = i
      <4> HIDE DEF z
      <4> DEFINE ly == Len(y)
                 lq == Len(q)
                 lz == Len(z)
      <4>1. /\ i - R > 0 /\ i - R <= lq /\ lz = ly + lq /\ ly \in Nat /\ lq \in Nat
            /\ i \in Nat /\ k = ly + (i - R)
        BY <2>1, <3>2
      <4> HIDE DEF ly, lq, lz, k
      <4>2. k \in 1..lz /\ k \notin 1..ly /\ R + (k - ly) = i
        BY <4>1
      <4> QED
        BY <3>2, <4>2 DEF ly, lz
    <3> HIDE DEF k
    <3>4. g2[k] = i
      BY <1>6, <3>3
    <3> QED
      BY <1>3, <3>3, <3>4
  <2> QED
    BY <2>1, <2>2, <2>3
<1>10. g2 \in [DOMAIN z -> DOMAIN most]
  BY <1>3, <1>7 DEF g2
<1>11. TakenBy(z, most, g2)
  BY <1>3, <1>7, <1>8, <1>10 DEF TakenBy
<1>12. Filled(z, least, most, R2)
  <2>1. \A k \in DOMAIN z : g2[k] <= R2
    BY <1>3, <1>7
  <2>2. \A i \in DOMAIN least : i <= R2 => \E k \in DOMAIN z : g2[k] = i
    BY <1>9
  <2> QED
    BY <1>11, <2>1, <2>2 DEF Filled
<1> QED
  BY <1>12 DEF z

\* What was handed over was held; once the shortest collection is covered,
\* all of it was handed over.
LEMMA FilledTallies ==
  ASSUME NEW T, NEW least \in Seq(T), NEW most \in Seq(T), IsPrefix(least, most),
         NEW y \in Seq(T), NEW R \in Nat, Filled(y, least, most, R), NEW V
  PROVE  /\ Tally(y, V) <= Tally(most, V)
         /\ Len(least) <= R => Tally(least, V) <= Tally(y, V)
<1>1. PICK g : /\ TakenBy(y, most, g)
               /\ \A k \in DOMAIN y : g[k] <= R
               /\ \A i \in DOMAIN least : i <= R => \E k \in DOMAIN y : g[k] = i
  BY DEF Filled
<1>2. ASSUME Len(least) <= R PROVE Tally(least, V) <= Tally(y, V)
  <2> DEFINE h == [i \in DOMAIN least |-> CHOOSE k \in DOMAIN y : g[k] = i]
  <2>1. \A i \in DOMAIN least : i \in Nat /\ i <= R
    BY <1>2
  <2>2. \A i \in DOMAIN least : h[i] \in DOMAIN y /\ g[h[i]] = i
    BY <1>1, <2>1
  <2>3. \A i \in DOMAIN least : least[i] = most[i]
    <3>1. DOMAIN least = 1..Len(least)
      OBVIOUS
    <3> QED
      BY <3>1, PrefixAgrees
  <2>4. h \in [DOMAIN least -> DOMAIN y]
    BY <2>2
  <2> HIDE DEF h
  <2>5. TakenBy(least, y, h)
    BY <1>1, <2>2, <2>3, <2>4 DEF TakenBy
  <2> QED
    BY <2>5, TallyTaken
<1> QED
  BY <1>1, <1>2, TallyTaken

=============================================================================
