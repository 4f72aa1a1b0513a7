---------------------------- MODULE LeafSlotsProofs ----------------------------
(***************************************************************************)
(* Proofs about the slots of a leaf, for leaves of any even size, any keys *)
(* and hash function, and any number of leaves and calls.                  *)
(***************************************************************************)
EXTENDS LeafSlots, FiniteSetTheorems, SequenceTheorems, TLAPS

USE DEF Live

(* Counting the elements before each element of a finite set numbers them. *)
LEMMA Numbering ==
  ASSUME NEW S, IsFiniteSet(S), NEW R \in SUBSET (S \X S),
         \A i \in S : <<i, i>> \notin R,
         \A i, j, k \in S : <<i, j>> \in R /\ <<j, k>> \in R => <<i, k>> \in R,
         \A i, j \in S : i = j \/ <<i, j>> \in R \/ <<j, i>> \in R,
         NEW f, f = [i \in S |-> Cardinality({j \in S : <<j, i>> \in R})]
  PROVE  /\ f \in Bijection(S, 0 .. Cardinality(S) - 1)
         /\ \A i, j \in S : <<i, j>> \in R <=> f[i] < f[j]
  <1> DEFINE Before(i) == {j \in S : <<j, i>> \in R}
             T == 0 .. Cardinality(S) - 1
  <1>1. \A i \in S : IsFiniteSet(Before(i)) /\ f[i] = Cardinality(Before(i)) /\ f[i] \in Nat
    <2> TAKE i \in S
    <2>1. Before(i) \in SUBSET S
      OBVIOUS
    <2> QED BY <2>1, FS_Subset, FS_CardinalityType
  <1>2. Cardinality(S) \in Nat
    BY FS_CardinalityType
  <1>3. ASSUME NEW i \in S PROVE f[i] < Cardinality(S)
    <2>1. Before(i) \in SUBSET S /\ i \notin Before(i)
      OBVIOUS
    <2>2. Cardinality(Before(i)) <= Cardinality(S) /\ Cardinality(Before(i)) # Cardinality(S)
      BY <2>1, FS_Subset
    <2> HIDE DEF Before
    <2> QED BY <1>1, <1>2, <2>2
  <1>4. ASSUME NEW i \in S, NEW j \in S, <<i, j>> \in R PROVE f[i] < f[j]
    <2>1. Before(i) \in SUBSET Before(j) /\ i \in Before(j) /\ i \notin Before(i)
      BY <1>4
    <2>2. IsFiniteSet(Before(j)) /\ IsFiniteSet(Before(i))
      BY <1>1
    <2>3. /\ Cardinality(Before(i)) <= Cardinality(Before(j))
          /\ Cardinality(Before(i)) # Cardinality(Before(j))
      BY <2>1, <2>2, FS_Subset
    <2> HIDE DEF Before
    <2>4. f[i] = Cardinality(Before(i)) /\ f[j] = Cardinality(Before(j))
          /\ f[i] \in Nat /\ f[j] \in Nat
      BY <1>1
    <2> QED BY ONLY <2>3, <2>4, SMT
  <1>5. /\ \A i, j \in S : i = j \/ <<i, j>> \in R \/ <<j, i>> \in R
        /\ \A i \in S : f[i] \in Nat /\ f[i] < Cardinality(S)
        /\ \A i, j \in S : <<i, j>> \in R => f[i] < f[j]
    BY <1>1, <1>3, <1>4
  <1>6. \A i, j \in S : <<i, j>> \in R <=> f[i] < f[j]
    <2> TAKE i \in S, j \in S
    <2>1. /\ f[i] \in Nat /\ f[j] \in Nat
          /\ i = j \/ <<i, j>> \in R \/ <<j, i>> \in R
          /\ <<i, j>> \in R => f[i] < f[j]
          /\ <<j, i>> \in R => f[j] < f[i]
      BY ONLY <1>5
    <2> QED BY ONLY <2>1, SMT
  <1>7. f \in Injection(S, T)
    <2>1. \A i, j \in S : f[i] = f[j] => i = j
      <3> TAKE i \in S, j \in S
      <3>1. /\ f[i] \in Nat /\ f[j] \in Nat
            /\ i = j \/ <<i, j>> \in R \/ <<j, i>> \in R
            /\ <<i, j>> \in R => f[i] < f[j]
            /\ <<j, i>> \in R => f[j] < f[i]
        BY ONLY <1>5
      <3> QED BY ONLY <3>1, SMT
    <2>2. \A i \in S : f[i] \in T
      BY ONLY <1>2, <1>5, SMT
    <2>3. f \in [S -> T]
      BY <2>2
    <2> QED BY <2>1, <2>3 DEF Injection, IsInjective
  <1>8. IsFiniteSet(T) /\ Cardinality(T) = Cardinality(S)
    <2>1. 0 \in Int /\ Cardinality(S) - 1 \in Int
      BY ONLY <1>2, SMT
    <2>2. /\ IsFiniteSet(0 .. Cardinality(S) - 1)
          /\ Cardinality(0 .. Cardinality(S) - 1) = IF 0 > Cardinality(S) - 1 THEN 0 ELSE Cardinality(S) - 1 - 0 + 1
      BY ONLY <2>1, FS_Interval, Zenon
    <2>3. (IF 0 > Cardinality(S) - 1 THEN 0 ELSE Cardinality(S) - 1 - 0 + 1) = Cardinality(S)
      BY ONLY <1>2, SMT
    <2> QED BY ONLY <2>2, <2>3
  <1>9. f \in Surjection(S, T)
    BY <1>7, <1>8, FS_Injection
  <1> QED BY <1>6, <1>7, <1>9 DEF Bijection

(* Half of the slots, and room for pairs in the other half.                *)
LEMMA Halves ==
  /\ LEFT_KEY \in Nat \ {0} /\ MAX_LEAF_KEY = 2 * LEFT_KEY
  /\ MAX_LEAF_KEY \in Nat
  /\ Pairs \in Nat /\ 2 * Pairs <= LEFT_KEY
  BY CapacityAssumption DEF LEFT_KEY, Pairs

(* A set of numbers has a lowest one: of the sets of those below one of    *)
(* its elements, a minimal one is empty.                                   *)
LEMMA LowestOf ==
  ASSUME NEW S \in SUBSET Nat, S # {}
  PROVE  Min(S) \in S /\ \A y \in S : Min(S) <= y
  <1> DEFINE Below(x) == {y \in S : y < x}
             T == {Below(x) : x \in S}
  <1>1. T \subseteq FiniteSubsetsOf(S) /\ T # {}
    <2>1. ASSUME NEW x \in S PROVE Below(x) \in SUBSET S /\ IsFiniteSet(Below(x))
      <3>1. x \in Nat /\ \A y \in S : y \in Nat
        OBVIOUS
      <3>4. \A y \in S : y < x => y \in 0 .. x
        BY ONLY <3>1, SMT
      <3>2. Below(x) \in SUBSET (0 .. x)
        BY <3>4
      <3>3. IsFiniteSet(0 .. x)
        BY <3>1, FS_Interval
      <3> QED BY <3>2, <3>3, FS_Subset
    <2> QED BY <2>1 DEF FiniteSubsetsOf
  <1>2. PICK m \in T : \A y \in T : ~ (<<y, m>> \in StrictSubsetOrdering(S))
    BY <1>1, FS_StrictSubsetOrderingWellFounded, WFMin
  <1>3. PICK x \in S : m = Below(x)
    BY <1>2
  <1>4. \A y \in S : x <= y
    <2> SUFFICES ASSUME NEW y \in S, y < x PROVE FALSE
      BY <1>3
    <2>1. (\A z \in S : z < y => z < x) /\ ~ (y < y)
      BY SMT
    <2>2. Below(y) \subseteq Below(x) /\ y \in Below(x) /\ y \notin Below(y)
      BY <2>1
    <2>3. <<Below(y), m>> \in StrictSubsetOrdering(S)
      BY <1>3, <2>2 DEF StrictSubsetOrdering
    <2> QED BY <1>2, <2>3
  <1> QED BY <1>4 DEF Min

Grown(t, s, i, e) ==
  /\ Len(t) = Len(s) + 1
  /\ \A j \in 1 .. Len(s) + 1 : t[j] = IF j < i THEN s[j] ELSE IF j = i THEN e ELSE s[j - 1]

LEMMA Inserting ==
  ASSUME NEW S, NEW s \in Seq(S), NEW i \in 1 .. Len(s) + 1, NEW e \in S
  PROVE  InsertAt(s, i, e) \in Seq(S) /\ Grown(InsertAt(s, i, e), s, i, e)
  <1> DEFINE a == SubSeq(s, 1, i - 1)
             b == SubSeq(s, i, Len(s))
             c == <<e>>
  <1>1. Len(s) \in Nat /\ \A j \in 1 .. Len(s) : s[j] \in S
    BY LenProperties, ElementOfSeq
  <1>2. /\ a \in Seq(S) /\ Len(a) = i - 1
        /\ \A j \in 1 .. i - 1 : a[j] = s[j]
    <2>1. \A j \in 1 .. i - 1 : s[j] \in S
      BY <1>1
    <2>2. /\ a \in Seq(S) /\ Len(a) = IF 1 <= i - 1 THEN (i - 1) - 1 + 1 ELSE 0
          /\ \A j \in 1 .. (i - 1) - 1 + 1 : a[j] = s[1 + j - 1]
      BY <1>1, <2>1, SubSeqProperties
    <2> HIDE DEF a
    <2> QED BY <1>1, <2>2
  <1>3. /\ b \in Seq(S) /\ Len(b) = Len(s) - i + 1
        /\ \A j \in 1 .. Len(s) - i + 1 : b[j] = s[i + j - 1]
    <2>1. \A j \in i .. Len(s) : s[j] \in S
      BY <1>1
    <2>2. /\ b \in Seq(S) /\ Len(b) = IF i <= Len(s) THEN Len(s) - i + 1 ELSE 0
          /\ \A j \in 1 .. Len(s) - i + 1 : b[j] = s[i + j - 1]
      BY <1>1, <2>1, SubSeqProperties
    <2> HIDE DEF b
    <2> QED BY <1>1, <2>2
  <1>4. c \in Seq(S) /\ Len(c) = 1 /\ c[1] = e
    OBVIOUS
  <1> HIDE DEF a, b, c
  <1>5. /\ a \o c \in Seq(S) /\ Len(a \o c) = i
        /\ \A j \in 1 .. i : (a \o c)[j] = IF j < i THEN s[j] ELSE e
    <2>1. /\ a \o c \in Seq(S) /\ Len(a \o c) = Len(a) + Len(c)
          /\ \A j \in 1 .. Len(a) + Len(c) :
                (a \o c)[j] = IF j <= Len(a) THEN a[j] ELSE c[j - Len(a)]
      BY <1>2, <1>4, ConcatProperties
    <2> QED BY <1>1, <1>2, <1>4, <2>1
  <1>6. /\ (a \o c) \o b \in Seq(S) /\ Len((a \o c) \o b) = i + Len(b)
        /\ \A j \in 1 .. i + Len(b) :
              ((a \o c) \o b)[j] = IF j <= i THEN (a \o c)[j] ELSE b[j - i]
    <2> DEFINE ac == a \o c
    <2>1. ac \in Seq(S) /\ b \in Seq(S) /\ Len(ac) = i
      BY <1>3, <1>5
    <2> HIDE DEF ac
    <2>2. /\ ac \o b \in Seq(S) /\ Len(ac \o b) = Len(ac) + Len(b)
          /\ \A j \in 1 .. Len(ac) + Len(b) :
                (ac \o b)[j] = IF j <= Len(ac) THEN ac[j] ELSE b[j - Len(ac)]
      BY <2>1, ConcatProperties
    <2> QED BY <2>1, <2>2 DEF ac
  <1>7. InsertAt(s, i, e) = (a \o c) \o b
    BY DEF InsertAt, a, b, c
  <1>8. Len(InsertAt(s, i, e)) = Len(s) + 1
    BY <1>1, <1>3, <1>6, <1>7
  <1>9. ASSUME NEW j \in 1 .. Len(s) + 1
        PROVE  InsertAt(s, i, e)[j] =
                  IF j < i THEN s[j] ELSE IF j = i THEN e ELSE s[j - 1]
    <2>1. j \in 1 .. i + Len(b) /\ (j > i => j - i \in 1 .. Len(s) - i + 1)
      BY <1>1, <1>3
    <2>2. j > i => b[j - i] = s[j - 1]
      BY <1>1, <1>3, <2>1
    <2> QED BY <1>1, <1>5, <1>6, <1>7, <2>1, <2>2
  <1>10. Grown(InsertAt(s, i, e), s, i, e)
    BY ONLY <1>8, <1>9 DEF Grown
  <1> QED BY <1>6, <1>7, <1>10

----------------------------------------------------------------------------
(* Sorting a full leaf rearranges its slots, in ascending order of keys.   *)
LEMMA Sorting ==
  ASSUME NEW l, \A i \in Pos : KeyAt(l, i) \in Nat
  PROVE  \E f \in Bijection(Pos, Pos) :
            /\ SortedRecords(l) = [p \in Pos |->
                  [finger |-> [l.slot[f[p]] EXCEPT !.control = 0],
                   key |-> KeyAt(l, f[p]), val |-> ValAt(l, f[p])]]
            /\ \A p, q \in Pos : p < q =>
                  \/ KeyAt(l, f[p]) < KeyAt(l, f[q])
                  \/ KeyAt(l, f[p]) = KeyAt(l, f[q]) /\ f[p] # f[q]
  <1> DEFINE key == [i \in Pos |-> KeyAt(l, i)]
             R == {a \in Pos \X Pos : key[a[1]] < key[a[2]]
                                        \/ (key[a[1]] = key[a[2]] /\ a[1] < a[2])}
             g == [i \in Pos |-> Cardinality({j \in Pos : <<j, i>> \in R})]
             f == [p \in Pos |-> CHOOSE i \in Pos : Position(l, i) = p]
  <1>1. IsFiniteSet(Pos) /\ Cardinality(Pos) = MAX_LEAF_KEY
    BY FS_Interval, Halves DEF Pos
  <1>2. key \in [Pos -> Nat] /\ Pos \subseteq Nat
    BY DEF Pos
  <1>3. \A i, j \in Pos : <<i, j>> \in R <=> (key[i] < key[j] \/ (key[i] = key[j] /\ i < j))
    OBVIOUS
  <1>4. \A i \in Pos : g[i] = Position(l, i)
    <2> SUFFICES ASSUME NEW i \in Pos
                 PROVE  {j \in Pos : <<j, i>> \in R} =
                        {j \in Pos : KeyAt(l, j) < KeyAt(l, i)
                                     \/ (KeyAt(l, j) = KeyAt(l, i) /\ j < i)}
      BY DEF Position
    <2> QED BY <1>3
  <1>5. R \in SUBSET (Pos \X Pos)
    OBVIOUS
  <1>0. g = [i \in Pos |-> Cardinality({j \in Pos : <<j, i>> \in R})]
    OBVIOUS
  <1> HIDE DEF key, R, g
  <1>6. g \in Bijection(Pos, Pos) /\ \A i, j \in Pos : <<i, j>> \in R <=> g[i] < g[j]
    <2>1. \A i \in Pos : <<i, i>> \notin R
      BY <1>2, <1>3
    <2>2. \A i, j, k \in Pos : <<i, j>> \in R /\ <<j, k>> \in R => <<i, k>> \in R
      <3> TAKE i \in Pos, j \in Pos, k \in Pos
      <3>1. /\ key[i] \in Nat /\ key[j] \in Nat /\ key[k] \in Nat
            /\ i \in Nat /\ j \in Nat /\ k \in Nat
        BY <1>2
      <3> QED BY <1>3, <3>1
    <2>3. \A i, j \in Pos : i = j \/ <<i, j>> \in R \/ <<j, i>> \in R
      <3> TAKE i \in Pos, j \in Pos
      <3>1. key[i] \in Nat /\ key[j] \in Nat /\ i \in Nat /\ j \in Nat
        BY <1>2
      <3> QED BY <1>3, <3>1
    <2>4. /\ g \in Bijection(Pos, 0 .. Cardinality(Pos) - 1)
          /\ \A i, j \in Pos : <<i, j>> \in R <=> g[i] < g[j]
      BY <1>0, <1>1, <1>5, <2>1, <2>2, <2>3, Numbering
    <2> QED BY <1>1, <2>4 DEF Pos
  <1>7. \A p \in Pos : f[p] \in Pos /\ g[f[p]] = p
    BY <1>4, <1>6 DEF Bijection, Surjection
  <1>8. f \in Bijection(Pos, Pos)
    <2>1. f \in [Pos -> Pos]
      BY <1>7
    <2>2. \A p, q \in Pos : f[p] = f[q] => p = q
      BY <1>7
    <2>3. \A i \in Pos : f[g[i]] = i /\ g[i] \in Pos
      <3> TAKE i \in Pos
      <3>1. g[i] \in Pos
        BY <1>6 DEF Bijection, Surjection
      <3>2. g[f[g[i]]] = g[i] /\ f[g[i]] \in Pos
        BY <1>7, <3>1
      <3> QED BY <1>6, <3>1, <3>2 DEF Bijection, Injection, IsInjective
    <2> HIDE DEF f
    <2> QED BY <2>1, <2>2, <2>3 DEF Bijection, Injection, Surjection, IsInjective
  <1>9. SortedRecords(l) = [p \in Pos |->
                  [finger |-> [l.slot[f[p]] EXCEPT !.control = 0],
                   key |-> KeyAt(l, f[p]), val |-> ValAt(l, f[p])]]
    BY DEF SortedRecords
  <1>10. ASSUME NEW p \in Pos, NEW q \in Pos, p < q
         PROVE  \/ KeyAt(l, f[p]) < KeyAt(l, f[q])
                \/ KeyAt(l, f[p]) = KeyAt(l, f[q]) /\ f[p] # f[q]
    <2>1. f[p] \in Pos /\ f[q] \in Pos /\ <<f[p], f[q]>> \in R
      BY <1>6, <1>7, <1>10
    <2>2. f[p] # f[q]
      BY <1>2, <1>7, <1>10
    <2>3. key[f[p]] = KeyAt(l, f[p]) /\ key[f[q]] = KeyAt(l, f[q])
      BY <2>1 DEF key
    <2> HIDE DEF f
    <2> QED BY <1>3, <2>1, <2>2, <2>3
  <1> QED BY <1>8, <1>9, <1>10

(* The records of a half are ranked: those found more than once first.     *)
LEMMA Ranking ==
  ASSUME NEW half, DOMAIN half = 0 .. LEFT_KEY - 1
  PROVE  LET D == 0 .. LEFT_KEY - 1 IN
         /\ \A i \in D : Rank(half, i) \in 1 .. LEFT_KEY
         /\ \A i, j \in D : Rank(half, i) = Rank(half, j) => i = j
         /\ \A n \in 1 .. LEFT_KEY : \E i \in D : Rank(half, i) = n
  <1> DEFINE D == 0 .. LEFT_KEY - 1
             often == [i \in D |-> half[i].finger.access > 1]
             R == {a \in D \X D : IF often[a[2]] THEN often[a[1]] /\ a[1] < a[2]
                                  ELSE often[a[1]] \/ a[1] < a[2]}
             g == [i \in D |-> Cardinality({j \in D : <<j, i>> \in R})]
  <1>1. IsFiniteSet(D) /\ Cardinality(D) = LEFT_KEY /\ \A i \in D : i \in Nat
    BY FS_Interval, Halves
  <1>2. \A i \in D : often[i] \in BOOLEAN
    OBVIOUS
  <1>3. /\ R \in SUBSET (D \X D)
        /\ \A i, j \in D : <<i, j>> \in R <=> IF often[j] THEN often[i] /\ i < j
                                              ELSE often[i] \/ i < j
    OBVIOUS
  <1>4. \A i \in D : Rank(half, i) = 1 + g[i]
    <2> SUFFICES ASSUME NEW i \in D
                 PROVE  {j \in D : <<j, i>> \in R} =
                        {j \in D : IF half[i].finger.access > 1
                                   THEN half[j].finger.access > 1 /\ j < i
                                   ELSE half[j].finger.access > 1 \/ j < i}
      BY DEF Rank
    <2> QED OBVIOUS
  <1>5. g = [i \in D |-> Cardinality({j \in D : <<j, i>> \in R})]
    OBVIOUS
  <1> HIDE DEF often, R, g
  <1>6. /\ \A i \in D : <<i, i>> \notin R
        /\ \A i, j, k \in D : <<i, j>> \in R /\ <<j, k>> \in R => <<i, k>> \in R
        /\ \A i, j \in D : i = j \/ <<i, j>> \in R \/ <<j, i>> \in R
    <2> SUFFICES ASSUME NEW i \in D, NEW j \in D, NEW k \in D
                 PROVE  /\ <<i, i>> \notin R
                        /\ <<i, j>> \in R /\ <<j, k>> \in R => <<i, k>> \in R
                        /\ i = j \/ <<i, j>> \in R \/ <<j, i>> \in R
      OBVIOUS
    <2>1. i \in Nat /\ j \in Nat /\ k \in Nat
      BY <1>1
    <2>2. often[i] \in BOOLEAN /\ often[j] \in BOOLEAN /\ often[k] \in BOOLEAN
      BY <1>2
    <2>3. \A x, y \in {i, j, k} : <<x, y>> \in R <=> IF often[y] THEN often[x] /\ x < y
                                                     ELSE often[x] \/ x < y
      BY <1>3
    <2> QED BY ONLY <2>1, <2>2, <2>3
  <1> HIDE DEF D
  <1>7. g \in Bijection(D, 0 .. Cardinality(D) - 1)
    BY <1>1, <1>3, <1>5, <1>6, Numbering
  <1>8. g \in Bijection(D, 0 .. LEFT_KEY - 1)
    BY <1>1, <1>7
  <1>9. /\ \A i \in D : g[i] \in 0 .. LEFT_KEY - 1
        /\ \A i, j \in D : g[i] = g[j] => i = j
        /\ \A n \in 0 .. LEFT_KEY - 1 : \E i \in D : g[i] = n
    BY <1>8 DEF Bijection, Injection, Surjection, IsInjective
  <1>10. LEFT_KEY \in Nat
    BY Halves
  <1>11. \A i \in D : Rank(half, i) \in 1 .. LEFT_KEY
    BY ONLY <1>4, <1>9, <1>10
  <1>12. \A i, j \in D : Rank(half, i) = Rank(half, j) => i = j
    <2> TAKE i \in D, j \in D
    <2> QED BY ONLY <1>4, <1>9, <1>10
  <1>13. \A n \in 1 .. LEFT_KEY : \E i \in D : Rank(half, i) = n
    <2> TAKE n \in 1 .. LEFT_KEY
    <2>1. n - 1 \in 0 .. LEFT_KEY - 1
      BY ONLY <1>10
    <2>2. PICK i \in D : g[i] = n - 1
      BY ONLY <1>9, <2>1
    <2>3. Rank(half, i) = n
      BY ONLY <1>4, <2>2, <1>10
    <2> QED BY <2>3
  <1> QED BY <1>11, <1>12, <1>13 DEF D

(* The word at which a number in the upper half of the slots is paired.    *)
LEMMA PairWords ==
  /\ \A n \in 1 .. Pairs : LET d == MAX_LEAF_KEY - 2 * n IN
        /\ d % 2 = 0 /\ (d + 1) % 2 = 1
        /\ d - (d % 2) = d /\ (d + 1) - ((d + 1) % 2) = d
        /\ d \in LEFT_KEY .. MAX_LEAF_KEY - 2
        /\ d \in MAX_LEAF_KEY - 2 * Pairs .. MAX_LEAF_KEY - 1
        /\ d + 1 \in MAX_LEAF_KEY - 2 * Pairs .. MAX_LEAF_KEY - 1
  /\ \A p \in MAX_LEAF_KEY - 2 * Pairs .. MAX_LEAF_KEY - 1 :
        \E n \in 1 .. Pairs : MAX_LEAF_KEY - 2 * n = p - (p % 2)
  <1> USE Halves
  <1>1. ASSUME NEW n \in 1 .. Pairs
        PROVE  LET d == MAX_LEAF_KEY - 2 * n IN
               /\ d % 2 = 0 /\ (d + 1) % 2 = 1
               /\ d \in LEFT_KEY .. MAX_LEAF_KEY - 2
               /\ d \in MAX_LEAF_KEY - 2 * Pairs .. MAX_LEAF_KEY - 1
               /\ d + 1 \in MAX_LEAF_KEY - 2 * Pairs .. MAX_LEAF_KEY - 1
    OBVIOUS
  <1>2. ASSUME NEW p \in MAX_LEAF_KEY - 2 * Pairs .. MAX_LEAF_KEY - 1
        PROVE  \E n \in 1 .. Pairs : MAX_LEAF_KEY - 2 * n = p - (p % 2)
    <2> DEFINE m == p \div 2
    <2>1. p - (p % 2) = 2 * m /\ m \in LEFT_KEY - Pairs .. LEFT_KEY - 1
      OBVIOUS
    <2> HIDE DEF m
    <2>2. LEFT_KEY - m \in 1 .. Pairs /\ MAX_LEAF_KEY - 2 * (LEFT_KEY - m) = p - (p % 2)
      BY <2>1
    <2> QED BY <2>2
  <1>3. ASSUME NEW n \in 1 .. Pairs
        PROVE  LET d == MAX_LEAF_KEY - 2 * n IN
               d - (d % 2) = d /\ (d + 1) - ((d + 1) % 2) = d
    <2>1. MAX_LEAF_KEY - 2 * n \in Int
      OBVIOUS
    <2> QED BY <1>1, <2>1
  <1> QED BY <1>1, <1>2, <1>3

(* What split_leaf leaves in one of the halves: the fingers, and for those *)
(* that got a pair the pair where the control field says.                  *)
Halved(h, half, old) ==
  /\ h.max_use = LEFT_KEY /\ h.temp_insert = 0
  /\ h = [slot |-> [p \in Pos |-> h.slot[p]],
          max_use |-> LEFT_KEY, temp_insert |-> 0]
  /\ \A p \in 0 .. LEFT_KEY - 1 : \E c :
        /\ h.slot[p] = [half[p].finger EXCEPT !.control = c]
        /\ \/ c = half[p].finger.control
           \/ /\ c \in LEFT_KEY .. MAX_LEAF_KEY - 2
              /\ h.slot[c] = Word(half[p].key)
              /\ h.slot[c + 1] = Word(half[p].val)
  /\ \A p \in LEFT_KEY .. MAX_LEAF_KEY - 1 :
        \/ h.slot[p] = old[p]
        \/ \E i \in 0 .. LEFT_KEY - 1 : \/ h.slot[p] = Word(half[i].key)
                                        \/ h.slot[p] = Word(half[i].val)

LEMMA Halving ==
  ASSUME NEW half, DOMAIN half = 0 .. LEFT_KEY - 1, NEW old,
         NEW h, h = HalfLeaf(half, old)
  PROVE  Halved(h, half, old)
  <1> DEFINE D == 0 .. LEFT_KEY - 1
             Paired == {i \in D : Rank(half, i) <= Pairs}
             At(p) == CHOOSE i \in Paired : MAX_LEAF_KEY - 2 * Rank(half, i) = p - (p % 2)
             cached == MAX_LEAF_KEY - 2 * Pairs .. MAX_LEAF_KEY - 1
             rank == [i \in D |-> Rank(half, i)]
  <1>1. /\ \A i \in D : rank[i] \in 1 .. LEFT_KEY
        /\ \A i, j \in D : rank[i] = rank[j] => i = j
        /\ \A n \in 1 .. LEFT_KEY : \E i \in D : rank[i] = n
    BY Ranking
  <1>2. \A i \in D : Rank(half, i) = rank[i]
    OBVIOUS
  <1> HIDE DEF rank
  <1>3. /\ Paired = {i \in D : rank[i] <= Pairs} /\ Paired \in SUBSET D
        /\ \A i \in D : i \in Paired <=> rank[i] \in 1 .. Pairs
    <2>1. Paired = {i \in D : rank[i] <= Pairs}
      BY <1>2
    <2> HIDE DEF Paired, D
    <2> QED BY <1>1, <2>1, Halves
  <1>4. IsFiniteSet(Paired) /\ Cardinality(Paired) = Pairs
    <2> DEFINE r == [i \in Paired |-> rank[i]]
    <2> HIDE DEF Paired
    <2>1. r \in [Paired -> 1 .. Pairs]
      BY <1>3
    <2>2. \A i, j \in Paired : r[i] = r[j] => i = j
      BY <1>1, <1>3
    <2>3. ASSUME NEW n \in 1 .. Pairs PROVE \E i \in Paired : r[i] = n
      <3>1. n \in 1 .. LEFT_KEY
        BY Halves
      <3> QED BY <1>1, <1>3, <3>1
    <2>4. r \in Bijection(Paired, 1 .. Pairs)
      BY <2>1, <2>2, <2>3 DEF Bijection, Injection, Surjection, IsInjective
    <2>5. IsFiniteSet(D)
      BY FS_Interval, Halves
    <2>6. IsFiniteSet(Paired)
      BY <1>3, <2>5, FS_Subset
    <2>7. Cardinality(1 .. Pairs) = Pairs
      BY Halves, FS_Interval
    <2>8. ExistsBijection(Paired, 1 .. Pairs)
      BY <2>4 DEF ExistsBijection
    <2> QED BY <2>6, <2>7, <2>8, FS_Bijection
  <1>5. ASSUME NEW i \in Paired, NEW p \in Nat, p - (p % 2) = MAX_LEAF_KEY - 2 * rank[i]
        PROVE  At(p) = i
    <2> HIDE DEF Paired, D
    <2>1. \A j \in Paired : rank[j] \in 1 .. Pairs /\ rank[j] \in Int /\ Rank(half, j) = rank[j]
      BY <1>2, <1>3
    <2>2. ASSUME NEW j \in Paired, MAX_LEAF_KEY - 2 * rank[j] = p - (p % 2)
          PROVE  j = i
      <3>1. rank[j] = rank[i]
        <4>1. rank[i] \in Int /\ rank[j] \in Int /\ MAX_LEAF_KEY \in Int
          BY <2>1, Halves
        <4>2. MAX_LEAF_KEY - 2 * rank[j] = MAX_LEAF_KEY - 2 * rank[i]
          BY <1>5, <2>2
        <4>3. \A m, a, b \in Int : m - 2 * a = m - 2 * b => a = b
          OBVIOUS
        <4> QED BY ONLY <4>1, <4>2, <4>3
      <3> QED BY <1>1, <1>3, <3>1
    <2>3. \A j \in Paired : MAX_LEAF_KEY - 2 * Rank(half, j) = p - (p % 2) <=> j = i
      BY <1>5, <2>1, <2>2
    <2> QED BY <2>3
  <1>6. ASSUME NEW p \in cached PROVE At(p) \in D
    <2>1. PICK n \in 1 .. Pairs : MAX_LEAF_KEY - 2 * n = p - (p % 2)
      BY PairWords
    <2>2. n \in 1 .. LEFT_KEY
      BY Halves
    <2>3. PICK i \in D : rank[i] = n
      BY <1>1, <2>2
    <2>4. i \in Paired
      BY <1>3, <2>3
    <2>5. p \in Nat
      BY Halves
    <2> HIDE DEF cached, Paired, D
    <2> QED BY <1>5, <2>1, <2>3, <2>4, <2>5
  <1>7. h = [slot |-> [p \in Pos |->
               IF p < LEFT_KEY THEN [half[p].finger EXCEPT !.control = ControlOf(half, p)]
               ELSE IF p \in cached
                    THEN Word(IF p % 2 = 0 THEN half[At(p)].key ELSE half[At(p)].val)
               ELSE old[p]],
             max_use |-> LEFT_KEY, temp_insert |-> 0]
    <2> HIDE DEF cached
    <2>1. cached = MAX_LEAF_KEY - 2 * Cardinality(Paired) .. MAX_LEAF_KEY - 1
      BY <1>4 DEF cached
    <2> QED BY <2>1 DEF HalfLeaf
  <1> HIDE DEF Paired, At, cached
  <1>8. \A p \in Pos : h.slot[p] =
               IF p < LEFT_KEY THEN [half[p].finger EXCEPT !.control = ControlOf(half, p)]
               ELSE IF p \in cached
                    THEN Word(IF p % 2 = 0 THEN half[At(p)].key ELSE half[At(p)].val)
               ELSE old[p]
    BY ONLY <1>7
  <1>9. /\ h.max_use = LEFT_KEY /\ h.temp_insert = 0
        /\ h = [slot |-> [p \in Pos |-> h.slot[p]],
                max_use |-> LEFT_KEY, temp_insert |-> 0]
    BY ONLY <1>7
  <1>10. ASSUME NEW p \in D
         PROVE  \E c :
               /\ h.slot[p] = [half[p].finger EXCEPT !.control = c]
               /\ \/ c = half[p].finger.control
                  \/ /\ c \in LEFT_KEY .. MAX_LEAF_KEY - 2
                     /\ h.slot[c] = Word(half[p].key)
                     /\ h.slot[c + 1] = Word(half[p].val)
    <2>0. p \in Pos /\ p < LEFT_KEY
      BY Halves DEF Pos
    <2>1. h.slot[p] = [half[p].finger EXCEPT !.control = ControlOf(half, p)]
      BY ONLY <1>8, <2>0
    <2>2. CASE ~(Rank(half, p) <= Pairs)
      <3>1. ControlOf(half, p) = half[p].finger.control
        BY <2>2 DEF ControlOf
      <3> HIDE DEF D
      <3> QED BY ONLY <2>1, <3>1
    <2>3. CASE Rank(half, p) <= Pairs
      <3> DEFINE d == MAX_LEAF_KEY - 2 * rank[p]
      <3>1. ControlOf(half, p) = d
        BY <1>2, <2>3 DEF ControlOf
      <3>2. p \in Paired /\ rank[p] \in 1 .. Pairs
        BY <1>2, <1>3, <2>3 DEF Paired
      <3>3. /\ d % 2 = 0 /\ (d + 1) % 2 = 1
            /\ d - (d % 2) = d /\ (d + 1) - ((d + 1) % 2) = d
            /\ d \in LEFT_KEY .. MAX_LEAF_KEY - 2
            /\ d \in cached /\ d + 1 \in cached
        BY <3>2, PairWords DEF cached
      <3>4. /\ d \in Nat /\ d + 1 \in Nat /\ d \in Pos /\ d + 1 \in Pos
            /\ ~(d < LEFT_KEY) /\ ~(d + 1 < LEFT_KEY)
        <4> HIDE DEF d
        <4> QED BY <3>3, Halves DEF Pos
      <3>5. At(d) = p
        BY <1>5, <3>2, <3>3, <3>4
      <3>6. At(d + 1) = p
        <4>1. (d + 1) - ((d + 1) % 2) = MAX_LEAF_KEY - 2 * rank[p] /\ d + 1 \in Nat
          BY <3>3, <3>4
        <4> QED BY <1>5, <3>2, <4>1
      <3> HIDE DEF d
      <3>7. h.slot[d] = Word(half[p].key) /\ h.slot[d + 1] = Word(half[p].val)
        <4>1. h.slot[d] = Word(IF d % 2 = 0 THEN half[At(d)].key ELSE half[At(d)].val)
          BY ONLY <1>8, <3>3, <3>4
        <4>2. h.slot[d + 1] = Word(IF (d + 1) % 2 = 0 THEN half[At(d + 1)].key
                                                     ELSE half[At(d + 1)].val)
          BY ONLY <1>8, <3>3, <3>4
        <4>3. (d + 1) % 2 # 0
          BY ONLY <3>3
        <4> QED BY <3>3, <3>5, <3>6, <4>1, <4>2, <4>3
      <3> QED BY ONLY <2>1, <3>1, <3>3, <3>7
    <2> QED BY <2>2, <2>3
  <1>11. ASSUME NEW p \in LEFT_KEY .. MAX_LEAF_KEY - 1
         PROVE  \/ h.slot[p] = old[p]
                \/ \E i \in D : \/ h.slot[p] = Word(half[i].key)
                                \/ h.slot[p] = Word(half[i].val)
    <2>1. p \in Pos /\ ~(p < LEFT_KEY)
      BY Halves DEF Pos
    <2>2. h.slot[p] = IF p \in cached
                      THEN Word(IF p % 2 = 0 THEN half[At(p)].key ELSE half[At(p)].val)
                      ELSE old[p]
      BY ONLY <1>8, <2>1
    <2> HIDE DEF D
    <2>3. CASE p \in cached
      BY <1>6, <2>2, <2>3
    <2> QED BY <2>2, <2>3
  <1> QED BY <1>9, <1>10, <1>11 DEF Halved

----------------------------------------------------------------------------
(* What TypeOK says of the leaves, the log and the way to a leaf.          *)
LEMMA TypeFacts ==
  ASSUME TypeOK
  PROVE  /\ Len(leaf) \in Nat \ {0} /\ DOMAIN leaf = 1 .. Len(leaf)
         /\ Len(sep) \in Nat /\ DOMAIN sep = 1 .. Len(sep) /\ Len(sep) = Len(leaf) - 1
         /\ \A n \in 1 .. Len(leaf) : leaf[n] \in LeafSet
         /\ \A n \in 1 .. Len(sep) : sep[n] \in Key \cup {0} /\ sep[n] \in Nat
         /\ Len(log) \in Nat /\ DOMAIN log = 1 .. Len(log)
         /\ \A e \in 1 .. Len(log) : log[e] \in RecordSet /\ log[e].key \in Nat
         /\ \A k : Route(k) \in 1 .. Len(leaf)
  <1>1. leaf \in Seq(LeafSet) /\ sep \in Seq(Key \cup {0}) /\ log \in Seq(RecordSet)
        /\ Len(sep) = Len(leaf) - 1
    BY DEF TypeOK
  <1>2. /\ Len(leaf) \in Nat /\ DOMAIN leaf = 1 .. Len(leaf)
        /\ \A n \in 1 .. Len(leaf) : leaf[n] \in LeafSet
    BY <1>1, LenProperties, ElementOfSeq
  <1>3. /\ Len(sep) \in Nat /\ DOMAIN sep = 1 .. Len(sep)
        /\ \A n \in 1 .. Len(sep) : sep[n] \in Key \cup {0}
    BY <1>1, LenProperties, ElementOfSeq
  <1>4. /\ Len(log) \in Nat /\ DOMAIN log = 1 .. Len(log)
        /\ \A e \in 1 .. Len(log) : log[e] \in RecordSet
    BY <1>1, LenProperties, ElementOfSeq
  <1>5. \A k : Route(k) \in 1 .. Len(leaf)
    <2> TAKE k
    <2> DEFINE S == {i \in DOMAIN sep : sep[i] < k}
    <2>1. S \in SUBSET (1 .. Len(sep))
      BY <1>3
    <2>2. IsFiniteSet(1 .. Len(sep)) /\ Cardinality(1 .. Len(sep)) = Len(sep)
      BY <1>3, FS_Interval
    <2>3. Cardinality(S) \in Nat /\ Cardinality(S) <= Len(sep)
      BY <2>1, <2>2, FS_Subset, FS_CardinalityType
    <2>4. Route(k) = 1 + Cardinality(S)
      BY DEF Route
    <2> HIDE DEF S
    <2> QED BY <1>1, <1>2, <2>3, <2>4
  <1>6. \A x \in Key \cup {0} : x \in Nat
    BY KeyAssumption
  <1>7. \A e \in RecordSet : e.key \in Nat
    BY <1>6 DEF RecordSet
  <1> QED BY <1>1, <1>2, <1>3, <1>4, <1>5, <1>6, <1>7

(* The words of the slots, and the records that those in use lead to.      *)
LEMMA SlotFacts ==
  ASSUME TypeOK, NEW n \in 1 .. Len(leaf)
  PROVE  /\ leaf[n].slot \in [Pos -> WordSet] /\ leaf[n].max_use \in 0 .. MAX_LEAF_KEY
         /\ leaf[n].temp_insert \in {0, 1}
         /\ \A p \in Pos : /\ leaf[n].slot[p] \in WordSet
                           /\ leaf[n].slot[p].ptr \in 0 .. Len(log)
                           /\ leaf[n].slot[p].ptr # 0 =>
                                 /\ KeyAt(leaf[n], p) \in Key \cup {0}
                                 /\ KeyAt(leaf[n], p) \in Nat
                                 /\ ValAt(leaf[n], p) \in Nat
         /\ \A p \in 0 .. leaf[n].max_use - 1 : p \in Pos /\ leaf[n].slot[p].ptr # 0
  <1>1. leaf[n] \in LeafSet /\ n \in DOMAIN leaf /\ Len(log) \in Nat
    BY TypeFacts
  <1>2. /\ leaf[n].slot \in [Pos -> WordSet] /\ leaf[n].max_use \in 0 .. MAX_LEAF_KEY
        /\ leaf[n].temp_insert \in {0, 1}
    BY <1>1 DEF LeafSet
  <1>3. ASSUME NEW p \in Pos PROVE /\ leaf[n].slot[p] \in WordSet
                                   /\ leaf[n].slot[p].ptr \in 0 .. Len(log)
    <2>1. leaf[n].slot[p] \in WordSet
      BY <1>2
    <2>2. leaf[n].slot[p].ptr \in Nat
      BY <2>1 DEF WordSet
    <2>3. leaf[n].slot[p].ptr <= Len(log)
      BY <1>1 DEF TypeOK
    <2> QED BY <1>1, <2>1, <2>2, <2>3
  <1>4. ASSUME NEW p \in Pos, leaf[n].slot[p].ptr # 0
        PROVE  /\ KeyAt(leaf[n], p) \in Key \cup {0} /\ KeyAt(leaf[n], p) \in Nat
               /\ ValAt(leaf[n], p) \in Nat
    <2>1. leaf[n].slot[p].ptr \in 1 .. Len(log)
      BY <1>1, <1>3, <1>4
    <2>2. log[leaf[n].slot[p].ptr] \in RecordSet /\ log[leaf[n].slot[p].ptr].key \in Nat
      BY <2>1, TypeFacts
    <2> QED BY <2>2 DEF RecordSet, KeyAt, ValAt
  <1>5. ASSUME NEW p \in 0 .. leaf[n].max_use - 1 PROVE p \in Pos /\ leaf[n].slot[p].ptr # 0
    <2>1. p \in Pos
      BY <1>2, Halves DEF Pos
    <2> QED BY <1>1, <2>1 DEF TypeOK
  <1> QED BY <1>2, <1>3, <1>4, <1>5

(* A sequence that is all the same element.                                *)
LEMMA Repeated ==
  ASSUME NEW S, NEW e \in S, NEW n \in Nat
  PROVE  [i \in 1 .. n |-> e] \in Seq(S) /\ Len([i \in 1 .. n |-> e]) = n
  OBVIOUS

----------------------------------------------------------------------------
(* A half of the leaf l, sorted by f, starting with the s-th record.       *)
HalfOf(h, l, f, s) ==
  /\ h \in LeafSet /\ h.max_use = LEFT_KEY /\ h.temp_insert = 0
  /\ \A p \in Pos : h.slot[p].ptr <= Len(log)
  /\ \A p \in 0 .. LEFT_KEY - 1 :
        /\ h.slot[p].ptr = l.slot[f[p + s]].ptr
        /\ h.slot[p].hash = l.slot[f[p + s]].hash
        /\ \/ h.slot[p].control = 0
           \/ /\ h.slot[p].control \in LEFT_KEY .. MAX_LEAF_KEY - 2
              /\ h.slot[h.slot[p].control].val = KeyAt(l, f[p + s])
              /\ h.slot[h.slot[p].control + 1].val = ValAt(l, f[p + s])

LEMMA HalfEffect ==
  ASSUME TypeOK, NEW n \in 1 .. Len(leaf), leaf[n].max_use = MAX_LEAF_KEY,
         NEW f \in [Pos -> Pos], NEW s \in {0, LEFT_KEY}, NEW half,
         half = [p \in 0 .. LEFT_KEY - 1 |->
                   [finger |-> [leaf[n].slot[f[p + s]] EXCEPT !.control = 0],
                    key |-> KeyAt(leaf[n], f[p + s]), val |-> ValAt(leaf[n], f[p + s])]],
         NEW old \in [Pos -> WordSet], \A p \in Pos : old[p].ptr <= Len(log),
         NEW h, h = HalfLeaf(half, old)
  PROVE  HalfOf(h, leaf[n], f, s)
  <1> DEFINE l == leaf[n]
             D == 0 .. LEFT_KEY - 1
  <1>1. \A p \in D : p \in Pos /\ p + s \in Pos /\ f[p + s] \in Pos
    BY Halves DEF Pos
  <1>2. /\ \A p \in Pos : /\ l.slot[p] \in WordSet /\ l.slot[p].ptr \in 0 .. Len(log)
                          /\ KeyAt(l, p) \in Nat /\ ValAt(l, p) \in Nat
        /\ Len(log) \in Nat
    BY SlotFacts, TypeFacts DEF Pos
  <1> HIDE DEF l
  <1>3. \A p \in D : /\ half[p].finger = [l.slot[f[p + s]] EXCEPT !.control = 0]
                     /\ half[p].key = KeyAt(l, f[p + s]) /\ half[p].key \in Nat
                     /\ half[p].val = ValAt(l, f[p + s]) /\ half[p].val \in Nat
    BY <1>1, <1>2 DEF l
  <1>4. DOMAIN half = D
    OBVIOUS
  <1>5. /\ h.max_use = LEFT_KEY /\ h.temp_insert = 0
        /\ h = [slot |-> [p \in Pos |-> h.slot[p]],
                max_use |-> LEFT_KEY, temp_insert |-> 0]
        /\ \A p \in D : \E c :
              /\ h.slot[p] = [half[p].finger EXCEPT !.control = c]
              /\ \/ c = half[p].finger.control
                 \/ /\ c \in LEFT_KEY .. MAX_LEAF_KEY - 2
                    /\ h.slot[c] = Word(half[p].key)
                    /\ h.slot[c + 1] = Word(half[p].val)
        /\ \A p \in LEFT_KEY .. MAX_LEAF_KEY - 1 :
              \/ h.slot[p] = old[p]
              \/ \E i \in D : \/ h.slot[p] = Word(half[i].key)
                              \/ h.slot[p] = Word(half[i].val)
    <2>1. Halved(h, half, old)
      BY <1>4, Halving
    <2> QED BY ONLY <2>1 DEF Halved
  <1>6. \A w \in Nat : Word(w) \in WordSet /\ Word(w).ptr = 0 /\ Word(w).val = w
    BY Halves DEF Word, WordSet, Pos
  <1>7. ASSUME NEW p \in D
        PROVE  /\ h.slot[p] \in WordSet /\ h.slot[p].ptr <= Len(log)
               /\ h.slot[p].ptr = l.slot[f[p + s]].ptr
               /\ h.slot[p].hash = l.slot[f[p + s]].hash
               /\ \/ h.slot[p].control = 0
                  \/ /\ h.slot[p].control \in LEFT_KEY .. MAX_LEAF_KEY - 2
                     /\ h.slot[h.slot[p].control].val = KeyAt(l, f[p + s])
                     /\ h.slot[h.slot[p].control + 1].val = ValAt(l, f[p + s])
    <2>1. PICK c : /\ h.slot[p] = [half[p].finger EXCEPT !.control = c]
                   /\ \/ c = half[p].finger.control
                      \/ /\ c \in LEFT_KEY .. MAX_LEAF_KEY - 2
                         /\ h.slot[c] = Word(half[p].key)
                         /\ h.slot[c + 1] = Word(half[p].val)
      BY <1>5
    <2>2. l.slot[f[p + s]] \in WordSet /\ l.slot[f[p + s]].ptr <= Len(log)
      BY <1>1, <1>2
    <2>3. /\ h.slot[p] = [l.slot[f[p + s]] EXCEPT !.control = c]
          /\ h.slot[p].control = c
          /\ half[p].finger.control = 0
      <3>1. half[p].finger = [l.slot[f[p + s]] EXCEPT !.control = 0]
        BY <1>3
      <3>2. half[p].finger.control = 0
        BY ONLY <2>2, <3>1 DEF WordSet
      <3>3. [half[p].finger EXCEPT !.control = c] = [l.slot[f[p + s]] EXCEPT !.control = c]
        BY ONLY <2>2, <3>1 DEF WordSet
      <3>4. [l.slot[f[p + s]] EXCEPT !.control = c].control = c
        BY ONLY <2>2 DEF WordSet
      <3>5. h.slot[p] = [half[p].finger EXCEPT !.control = c]
        BY <2>1
      <3> QED BY ONLY <3>2, <3>3, <3>4, <3>5
    <2>4. c \in Pos
      <3>1. c = 0 \/ c \in LEFT_KEY .. MAX_LEAF_KEY - 2
        BY <2>1, <2>3
      <3> QED BY ONLY <3>1, Halves DEF Pos
    <2>5. /\ h.slot[p] \in WordSet /\ h.slot[p].ptr = l.slot[f[p + s]].ptr
          /\ h.slot[p].hash = l.slot[f[p + s]].hash
      BY <2>2, <2>3, <2>4 DEF WordSet
    <2>6. /\ Word(half[p].key).val = KeyAt(l, f[p + s])
          /\ Word(half[p].val).val = ValAt(l, f[p + s])
      BY <1>3, <1>6
    <2>7. \/ c = 0
          \/ /\ c \in LEFT_KEY .. MAX_LEAF_KEY - 2
             /\ h.slot[c].val = KeyAt(l, f[p + s])
             /\ h.slot[c + 1].val = ValAt(l, f[p + s])
      BY <2>1, <2>3, <2>6
    <2> QED BY ONLY <2>2, <2>3, <2>5, <2>7
  <1>8. ASSUME NEW p \in LEFT_KEY .. MAX_LEAF_KEY - 1
        PROVE  h.slot[p] \in WordSet /\ h.slot[p].ptr <= Len(log)
    <2>1. p \in Pos
      BY Halves DEF Pos
    <2>2. old[p] \in WordSet /\ old[p].ptr <= Len(log)
      BY <2>1
    <2>3. \A i \in D : /\ Word(half[i].key) \in WordSet /\ Word(half[i].key).ptr <= Len(log)
                       /\ Word(half[i].val) \in WordSet /\ Word(half[i].val).ptr <= Len(log)
      <3> TAKE i \in D
      <3>1. half[i].key \in Nat /\ half[i].val \in Nat
        BY <1>3
      <3>2. \A w \in Nat : Word(w) \in WordSet /\ Word(w).ptr = 0
        BY <1>6
      <3>3. Len(log) \in Nat
        BY <1>2
      <3> QED BY ONLY <3>1, <3>2, <3>3
    <2>4. \/ h.slot[p] = old[p]
          \/ \E i \in D : \/ h.slot[p] = Word(half[i].key)
                          \/ h.slot[p] = Word(half[i].val)
      BY <1>5
    <2> HIDE DEF D
    <2> QED BY ONLY <2>2, <2>3, <2>4
  <1>9. \A p \in Pos : p \in D \/ p \in LEFT_KEY .. MAX_LEAF_KEY - 1
    BY Halves DEF Pos
  <1>10. \A p \in Pos : h.slot[p] \in WordSet /\ h.slot[p].ptr <= Len(log)
    BY <1>7, <1>8, <1>9
  <1>11. h \in LeafSet
    <2>1. [p \in Pos |-> h.slot[p]] \in [Pos -> WordSet]
      BY <1>10
    <2>2. h = [slot |-> [p \in Pos |-> h.slot[p]], max_use |-> LEFT_KEY, temp_insert |-> 0]
      BY <1>5
    <2>3. LEFT_KEY \in 0 .. MAX_LEAF_KEY
      BY Halves
    <2>4. [slot |-> [p \in Pos |-> h.slot[p]], max_use |-> LEFT_KEY, temp_insert |-> 0] \in LeafSet
      BY ONLY <2>1, <2>3 DEF LeafSet
    <2> QED BY ONLY <2>2, <2>4
  <1> QED BY <1>5, <1>7, <1>10, <1>11 DEF HalfOf, l

(* The two leaves that a split makes of one.                               *)
LEMMA SplitEffect ==
  ASSUME TypeOK, NEW k, InsertSplit(k)
  PROVE  LET r == Route(k) IN
         \E f \in Bijection(Pos, Pos) :
           /\ r \in 1 .. Len(leaf) /\ leaf[r].max_use = MAX_LEAF_KEY
           /\ \A p, q \in Pos : p < q =>
                 \/ KeyAt(leaf[r], f[p]) < KeyAt(leaf[r], f[q])
                 \/ KeyAt(leaf[r], f[p]) = KeyAt(leaf[r], f[q]) /\ f[p] # f[q]
           /\ leaf' \in Seq(LeafSet) /\ Len(leaf') = Len(leaf) + 1
           /\ \A n \in 1 .. r - 1 : leaf'[n] = leaf[n]
           /\ HalfOf(leaf'[r], leaf[r], f, 0)
           /\ HalfOf(leaf'[r + 1], leaf[r], f, LEFT_KEY)
           /\ \A n \in r + 2 .. Len(leaf) + 1 : leaf'[n] = leaf[n - 1]
           /\ sep' = InsertAt(sep, r, KeyAt(leaf[r], f[LEFT_KEY - 1]))
  <1> DEFINE r == Route(k)
             l == leaf[r]
             b == SortedRecords(l)
             left == [i \in 0 .. LEFT_KEY - 1 |-> b[i]]
             right == [i \in 0 .. LEFT_KEY - 1 |-> b[i + LEFT_KEY]]
             junk == [p \in Pos |-> Junk]
  <1>1. r \in 1 .. Len(leaf) /\ Len(leaf) \in Nat /\ Len(log) \in Nat
    BY TypeFacts
  <1>2. l.max_use = MAX_LEAF_KEY
    <2>1. ~ (l.max_use < MAX_LEAF_KEY)
      BY DEF InsertSplit, HasRoom
    <2>2. l.max_use \in 0 .. MAX_LEAF_KEY
      BY <1>1, SlotFacts
    <2> HIDE DEF l
    <2> QED BY <2>1, <2>2, Halves
  <1>3. /\ l.slot \in [Pos -> WordSet]
        /\ \A p \in Pos : /\ l.slot[p] \in WordSet /\ l.slot[p].ptr <= Len(log)
                          /\ KeyAt(l, p) \in Nat
    BY <1>1, <1>2, SlotFacts DEF Pos
  <1>4. PICK f \in Bijection(Pos, Pos) :
            /\ b = [p \in Pos |->
                  [finger |-> [l.slot[f[p]] EXCEPT !.control = 0],
                   key |-> KeyAt(l, f[p]), val |-> ValAt(l, f[p])]]
            /\ \A p, q \in Pos : p < q =>
                  \/ KeyAt(l, f[p]) < KeyAt(l, f[q])
                  \/ KeyAt(l, f[p]) = KeyAt(l, f[q]) /\ f[p] # f[q]
    BY <1>3, Sorting
  <1>5. f \in [Pos -> Pos]
    BY DEF Bijection, Injection
  <1>6. junk \in [Pos -> WordSet] /\ \A p \in Pos : junk[p].ptr <= Len(log)
    BY <1>1, Halves DEF Junk, Word, WordSet, Pos
  <1>7. HalfOf(HalfLeaf(left, l.slot), l, f, 0)
    <2>1. left = [p \in 0 .. LEFT_KEY - 1 |->
                    [finger |-> [l.slot[f[p + 0]] EXCEPT !.control = 0],
                     key |-> KeyAt(l, f[p + 0]), val |-> ValAt(l, f[p + 0])]]
      <3>1. \A p \in 0 .. LEFT_KEY - 1 : p \in Pos /\ p + 0 = p
        BY Halves DEF Pos
      <3> HIDE DEF b, l
      <3> QED BY <1>4, <3>1
    <2> HIDE DEF left
    <2> QED BY <1>1, <1>2, <1>3, <1>5, <2>1, HalfEffect
  <1>8. HalfOf(HalfLeaf(right, junk), l, f, LEFT_KEY)
    <2>1. right = [p \in 0 .. LEFT_KEY - 1 |->
                    [finger |-> [l.slot[f[p + LEFT_KEY]] EXCEPT !.control = 0],
                     key |-> KeyAt(l, f[p + LEFT_KEY]), val |-> ValAt(l, f[p + LEFT_KEY])]]
      <3>1. \A p \in 0 .. LEFT_KEY - 1 : p + LEFT_KEY \in Pos
        BY Halves DEF Pos
      <3> HIDE DEF b, l
      <3> QED BY <1>4, <3>1
    <2> HIDE DEF right, junk
    <2> QED BY <1>1, <1>2, <1>5, <1>6, <2>1, HalfEffect
  <1> DEFINE s == [leaf EXCEPT ![r] = HalfLeaf(left, l.slot)]
             e == HalfLeaf(right, junk)
  <1>9. leaf' = InsertAt(s, r + 1, e) /\ sep' = InsertAt(sep, r, SplitKey(b))
    BY DEF InsertSplit, SplitLeaf
  <1>10. SplitKey(b) = KeyAt(l, f[LEFT_KEY - 1])
    <2>1. LEFT_KEY - 1 \in Pos
      BY Halves DEF Pos
    <2> HIDE DEF b, l
    <2> QED BY <1>4, <2>1 DEF SplitKey
  <1>11. s \in Seq(LeafSet) /\ Len(s) = Len(leaf)
         /\ \A n \in 1 .. Len(leaf) : s[n] = IF n = r THEN HalfLeaf(left, l.slot) ELSE leaf[n]
    <2>1. HalfLeaf(left, l.slot) \in LeafSet /\ leaf \in Seq(LeafSet)
      BY <1>7 DEF HalfOf, TypeOK
    <2> DEFINE h == HalfLeaf(left, l.slot)
    <2>2. r \in 1 .. Len(leaf) /\ s = [leaf EXCEPT ![r] = h]
      BY ONLY <1>1
    <2> HIDE DEF h, s, r
    <2>3. /\ [leaf EXCEPT ![r] = h] \in Seq(LeafSet)
          /\ Len([leaf EXCEPT ![r] = h]) = Len(leaf)
          /\ \A n \in 1 .. Len(leaf) : [leaf EXCEPT ![r] = h][n] = IF n = r THEN h ELSE leaf[n]
      <3>1. leaf \in Seq(LeafSet) /\ h \in LeafSet
        BY <2>1 DEF h
      <3> QED BY ONLY <2>2, <3>1, ExceptSeq
    <2>4. /\ s \in Seq(LeafSet) /\ Len(s) = Len(leaf)
          /\ \A n \in 1 .. Len(leaf) : s[n] = IF n = r THEN h ELSE leaf[n]
      BY ONLY <2>2, <2>3
    <2> QED BY ONLY <2>4, Zenon DEF h
  <1>12. e \in LeafSet /\ r + 1 \in 1 .. Len(s) + 1
    <2>3. HalfOf(e, l, f, LEFT_KEY)
      BY ONLY <1>8, Zenon DEF e
    <2> HIDE DEF e, s, r, l
    <2>1. e \in LeafSet
      BY ONLY <2>3 DEF HalfOf
    <2>2. r + 1 \in 1 .. Len(s) + 1
      BY ONLY <1>1, <1>11
    <2> QED BY <2>1, <2>2
  <1> HIDE DEF s, e, left, right, junk, b, l
  <1>13. /\ leaf' \in Seq(LeafSet) /\ Len(leaf') = Len(leaf) + 1
         /\ \A n \in 1 .. Len(leaf) + 1 : leaf'[n] =
               IF n < r + 1 THEN s[n] ELSE IF n = r + 1 THEN e ELSE s[n - 1]
    <2>1. s \in Seq(LeafSet) /\ Len(s) = Len(leaf) /\ e \in LeafSet /\ r + 1 \in 1 .. Len(s) + 1
      BY <1>11, <1>12
    <2>2. /\ InsertAt(s, r + 1, e) \in Seq(LeafSet)
          /\ Len(InsertAt(s, r + 1, e)) = Len(s) + 1
          /\ \A n \in 1 .. Len(s) + 1 : InsertAt(s, r + 1, e)[n] =
                IF n < r + 1 THEN s[n] ELSE IF n = r + 1 THEN e ELSE s[n - 1]
      <3> HIDE DEF r
      <3>1. InsertAt(s, r + 1, e) \in Seq(LeafSet) /\ Grown(InsertAt(s, r + 1, e), s, r + 1, e)
        BY ONLY <2>1, Inserting, Zenon
      <3> QED BY ONLY <3>1 DEF Grown
    <2>3. leaf' = InsertAt(s, r + 1, e)
      BY <1>9
    <2> QED BY ONLY <2>1, <2>2, <2>3
  <1>14. /\ \A n \in 1 .. r - 1 : leaf'[n] = leaf[n]
         /\ leaf'[r] = HalfLeaf(left, l.slot) /\ leaf'[r + 1] = e
         /\ \A n \in r + 2 .. Len(leaf) + 1 : leaf'[n] = leaf[n - 1]
    <2> HIDE DEF r
    <2>1. \A n \in r + 2 .. Len(leaf) + 1 : n - 1 \in 1 .. Len(leaf) /\ n - 1 # r
      BY <1>1
    <2>2. \A n \in 1 .. r - 1 : n \in 1 .. Len(leaf) /\ n \in 1 .. Len(leaf) + 1 /\ n < r + 1 /\ n # r
      BY <1>1
    <2>3. /\ r \in 1 .. Len(leaf) + 1 /\ r < r + 1
          /\ r + 1 \in 1 .. Len(leaf) + 1 /\ ~ (r + 1 < r + 1)
      BY <1>1
    <2>4. \A n \in r + 2 .. Len(leaf) + 1 : n \in 1 .. Len(leaf) + 1 /\ ~ (n < r + 1) /\ n # r + 1
      BY <1>1
    <2>5. \A n \in 1 .. r - 1 : leaf'[n] = leaf[n]
      BY <1>11, <1>13, <2>2
    <2>6. leaf'[r] = HalfLeaf(left, l.slot) /\ leaf'[r + 1] = e
      BY <1>1, <1>11, <1>13, <2>3
    <2>7. \A n \in r + 2 .. Len(leaf) + 1 : leaf'[n] = leaf[n - 1]
      BY <1>11, <1>13, <2>1, <2>4
    <2> QED BY <2>5, <2>6, <2>7
  <1>15. /\ HalfOf(leaf'[r], l, f, 0) /\ HalfOf(leaf'[r + 1], l, f, LEFT_KEY)
    BY <1>7, <1>8, <1>14 DEF e
  <1> QED BY <1>1, <1>2, <1>4, <1>9, <1>10, <1>13, <1>14, <1>15 DEF l

----------------------------------------------------------------------------
(* What each of the other actions does to the leaves and to the log.       *)
LEMMA OneLeaf ==
  ASSUME TypeOK, NEW r \in 1 .. Len(leaf), NEW x \in LeafSet,
         leaf' = [leaf EXCEPT ![r] = x]
  PROVE  /\ leaf' \in Seq(LeafSet) /\ Len(leaf') = Len(leaf)
         /\ \A n \in 1 .. Len(leaf) : leaf'[n] = IF n = r THEN x ELSE leaf[n]
  <1>1. leaf \in Seq(LeafSet)
    BY DEF TypeOK
  <1> QED BY <1>1, ExceptSeq

\* A change that concerns the counts of accesses and temp_insert only.
SameSlots ==
  /\ leaf' \in Seq(LeafSet) /\ Len(leaf') = Len(leaf)
  /\ \A n \in 1 .. Len(leaf) :
        /\ leaf'[n].max_use = leaf[n].max_use
        /\ \A p \in Pos : /\ leaf'[n].slot[p].ptr = leaf[n].slot[p].ptr
                          /\ leaf'[n].slot[p].hash = leaf[n].slot[p].hash
                          /\ leaf'[n].slot[p].control = leaf[n].slot[p].control
                          /\ leaf'[n].slot[p].val = leaf[n].slot[p].val

LEMMA DuplicateEffect ==
  ASSUME TypeOK, NEW k, InsertDuplicate(k)
  PROVE  SameSlots /\ \A n \in 1 .. Len(leaf) : leaf'[n].slot = leaf[n].slot
  <1> DEFINE r == Route(k)
             x == [leaf[r] EXCEPT !.temp_insert = 1]
  <1>1. r \in 1 .. Len(leaf) /\ leaf[r] \in LeafSet
    BY TypeFacts
  <1>2. leaf' = [leaf EXCEPT ![r] = x]
    BY DEF InsertDuplicate
  <1>3. x \in LeafSet /\ x.max_use = leaf[r].max_use /\ x.slot = leaf[r].slot
    BY <1>1 DEF LeafSet
  <1> HIDE DEF x, r
  <1>4. /\ leaf' \in Seq(LeafSet) /\ Len(leaf') = Len(leaf)
        /\ \A n \in 1 .. Len(leaf) : leaf'[n] = IF n = r THEN x ELSE leaf[n]
    BY <1>1, <1>2, <1>3, OneLeaf
  <1> QED BY <1>3, <1>4 DEF SameSlots

LEMMA FindEffect ==
  ASSUME TypeOK, NEW k, Find(k)
  PROVE  SameSlots
  <1> DEFINE r == Route(k)
             l == leaf[r]
             i == FirstHit(l, k)
             w == [l.slot[i] EXCEPT !.access = @ + 1]
             x == [l EXCEPT !.slot = [@ EXCEPT ![i] = w]]
  <1>1. r \in 1 .. Len(leaf) /\ l \in LeafSet /\ l.slot \in [Pos -> WordSet]
        /\ l.max_use \in 0 .. MAX_LEAF_KEY
    BY TypeFacts, SlotFacts
  <1>2. CASE leaf' = leaf
    <2>1. leaf \in Seq(LeafSet)
      BY DEF TypeOK
    <2> QED BY <1>2, <2>1 DEF SameSlots
  <1>3. CASE leaf' # leaf
    <2>1. /\ \E j \in Live(l) : FindHit(l, j, k)
          /\ l.slot[i].access < 3 /\ leaf' = [leaf EXCEPT ![r].slot[i].access = @ + 1]
      BY <1>3 DEF Find
    <2>2. i \in Pos
      <3> DEFINE S == {j \in Live(l) : FindHit(l, j, k)}
      <3>1. S \in SUBSET Nat /\ S # {}
        BY <2>1
      <3>2. i \in S
        BY <3>1, LowestOf DEF FirstHit
      <3>3. i \in 0 .. l.max_use - 1
        BY <3>2
      <3> HIDE DEF i, l
      <3> QED BY <1>1, <3>3, Halves DEF Pos
    <2>3. leaf' = [leaf EXCEPT ![r] = x]
      BY <2>1
    <2> HIDE DEF i, l, r
    <2>4. l.slot[i] \in WordSet
      BY <1>1, <2>2
    <2>5. l.slot[i].access + 1 \in 0 .. 3
      BY <2>1, <2>4 DEF WordSet
    <2>6. /\ w \in WordSet /\ w.ptr = l.slot[i].ptr /\ w.hash = l.slot[i].hash
          /\ w.control = l.slot[i].control /\ w.val = l.slot[i].val
      BY <2>4, <2>5 DEF WordSet
    <2> HIDE DEF w
    <2>7. x \in LeafSet /\ x.max_use = l.max_use /\ x.slot = [l.slot EXCEPT ![i] = w]
      BY <1>1, <2>6 DEF LeafSet
    <2> HIDE DEF x
    <2>8. \A p \in Pos : /\ x.slot[p].ptr = l.slot[p].ptr /\ x.slot[p].hash = l.slot[p].hash
                         /\ x.slot[p].control = l.slot[p].control
                         /\ x.slot[p].val = l.slot[p].val
      BY <1>1, <2>6, <2>7
    <2>9. /\ leaf' \in Seq(LeafSet) /\ Len(leaf') = Len(leaf)
          /\ \A n \in 1 .. Len(leaf) : leaf'[n] = IF n = r THEN x ELSE leaf[n]
      BY <1>1, <2>3, <2>7, OneLeaf
    <2> QED BY <2>7, <2>8, <2>9 DEF SameSlots, l
  <1> QED BY <1>2, <1>3

LEMMA AppendEffect ==
  ASSUME TypeOK, NEW k \in Key, InsertAppend(k)
  PROVE  LET r == Route(k)
             m == leaf[r].max_use
         IN
         /\ r \in 1 .. Len(leaf) /\ m \in Pos
         /\ leaf' \in Seq(LeafSet) /\ Len(leaf') = Len(leaf)
         /\ \A n \in 1 .. Len(leaf) : n # r => leaf'[n] = leaf[n]
         /\ leaf'[r].max_use = m + 1
         /\ leaf'[r].slot = [leaf[r].slot EXCEPT ![m] = Finger(Len(log) + 1, Hash[k])]
         /\ log' \in Seq(RecordSet) /\ Len(log') = Len(log) + 1
         /\ \A e \in 1 .. Len(log) : log'[e] = log[e]
         /\ log'[Len(log) + 1] = [key |-> k, val |-> Value(calls')]
         /\ Value(calls') \in Nat \ {0}
  <1> DEFINE r == Route(k)
             l == leaf[r]
             m == l.max_use
             w == Finger(Len(log) + 1, Hash[k])
             rec == [key |-> k, val |-> Value(calls')]
             x == [l EXCEPT !.slot = [@ EXCEPT ![m] = w], !.max_use = @ + 1]
  <1>1. /\ r \in 1 .. Len(leaf) /\ l \in LeafSet /\ l.slot \in [Pos -> WordSet]
        /\ m \in 0 .. MAX_LEAF_KEY /\ Len(log) \in Nat
    BY TypeFacts, SlotFacts
  <1>2. m < MAX_LEAF_KEY
    BY DEF InsertAppend, AppendRecord, HasRoom
  <1>3. m \in Pos /\ m + 1 \in 0 .. MAX_LEAF_KEY
    <2> HIDE DEF m
    <2> QED BY <1>1, <1>2, Halves DEF Pos
  <1>4. Value(calls') \in Nat \ {0}
    BY BoundAssumption DEF InsertAppend, AppendRecord, Call, TypeOK, Value
  <1>5. log' = Append(log, rec) /\ log \in Seq(RecordSet) /\ rec \in RecordSet
    BY <1>4 DEF InsertAppend, AppendRecord, TypeOK, RecordSet
  <1>6. /\ log' \in Seq(RecordSet) /\ Len(log') = Len(log) + 1
        /\ \A e \in 1 .. Len(log) : log'[e] = log[e]
        /\ log'[Len(log) + 1] = rec
    <2> HIDE DEF rec
    <2> QED BY <1>5, AppendProperties
  <1>7. leaf' = [leaf EXCEPT ![r] = x]
    <2>1. leaf' = [leaf EXCEPT ![r].slot[leaf[r].max_use] = Finger(Len(log'), Hash[k]),
                               ![r].max_use = @ + 1]
      BY DEF InsertAppend, AppendRecord
    <2>2. Finger(Len(log'), Hash[k]) = w
      BY <1>6
    <2>3. leaf \in Seq(LeafSet) /\ r \in DOMAIN leaf
      BY <1>1 DEF TypeOK
    <2> HIDE DEF w, r
    <2> QED BY <1>1, <2>1, <2>2, <2>3
  <1>8. w \in WordSet
    BY <1>1, Halves, HashAssumption DEF Finger, WordSet, Pos
  <1> HIDE DEF w, m
  <1>9. /\ x \in LeafSet /\ x.max_use = m + 1 /\ x.slot = [l.slot EXCEPT ![m] = w]
    BY <1>1, <1>3, <1>8 DEF LeafSet, m
  <1> HIDE DEF x, r, l
  <1>10. /\ leaf' \in Seq(LeafSet) /\ Len(leaf') = Len(leaf)
         /\ \A n \in 1 .. Len(leaf) : leaf'[n] = IF n = r THEN x ELSE leaf[n]
    <2>1. r \in 1 .. Len(leaf) /\ x \in LeafSet /\ leaf' = [leaf EXCEPT ![r] = x]
      BY <1>1, <1>7, <1>9
    <2> QED BY ONLY TypeOK, <2>1, OneLeaf, Zenon
  <1> QED BY <1>1, <1>3, <1>4, <1>6, <1>9, <1>10 DEF r, l, m, w

\* Slots in use with a property, and the first of them.
LEMMA FirstOfLive ==
  ASSUME TypeOK, NEW n \in 1 .. Len(leaf), NEW S \in SUBSET Live(leaf[n])
  PROVE  /\ IsFiniteSet(S) /\ Cardinality(S) \in Nat
         /\ S # {} => /\ Min(S) \in S /\ Min(S) \in Live(leaf[n]) /\ Min(S) \in Pos
                      /\ leaf[n].slot[Min(S)].ptr \in 1 .. Len(log)
  <1>1. leaf[n].max_use \in 0 .. MAX_LEAF_KEY /\ Len(log) \in Nat
    BY SlotFacts, TypeFacts
  <1>2. IsFiniteSet(Live(leaf[n])) /\ S \in SUBSET Nat
    <2> DEFINE m == leaf[n].max_use - 1
    <2>1. m \in Int /\ 0 \in Int
      BY <1>1, Halves
    <2> HIDE DEF m
    <2>2. IsFiniteSet(0 .. m) /\ \A i \in 0 .. m : i \in Nat
      BY <2>1, FS_Interval
    <2> QED BY <2>2 DEF m
  <1>3. IsFiniteSet(S) /\ Cardinality(S) \in Nat
    BY <1>2, FS_Subset, FS_CardinalityType
  <1>4. ASSUME S # {}
        PROVE  /\ Min(S) \in S /\ Min(S) \in Live(leaf[n]) /\ Min(S) \in Pos
               /\ leaf[n].slot[Min(S)].ptr \in 1 .. Len(log)
    <2>1. Min(S) \in S
      BY <1>2, <1>4, LowestOf
    <2>2. Min(S) \in 0 .. leaf[n].max_use - 1
      BY <2>1
    <2>3. /\ Min(S) \in Pos /\ leaf[n].slot[Min(S)].ptr # 0
          /\ leaf[n].slot[Min(S)].ptr \in 0 .. Len(log)
      BY <2>2, SlotFacts
    <2> QED BY <1>1, <2>1, <2>2, <2>3
  <1> QED BY <1>3, <1>4

LEMMA UpdateEffect ==
  ASSUME TypeOK, NEW k \in Key, Update(k)
  PROVE  /\ log' \in Seq(RecordSet) /\ Len(log') \in Nat /\ Len(log) <= Len(log')
         /\ leaf' = leaf
  <1> DEFINE r == Route(k)
             l == leaf[r]
             Same == {i \in Live(l) : l.slot[i].hash = Hash[k]}
             Hit == {i \in Same : l.slot[i].access # 0 /\ KeyAt(l, i) = k}
             Met == {i \in Same : \A j \in Hit : i <= j}
             New == {i \in Met : l.slot[i].access = 0}
             e == l.slot[Min(Hit)].ptr
             changed == IF Hit = {} THEN log ELSE [log EXCEPT ![e].val = Value(calls')]
             tail == [n \in 1 .. Cardinality(New) |-> [key |-> k, val |-> Value(calls')]]
  <1>1. log' = changed \o tail /\ leaf' = leaf
    BY DEF Update
  <1>2. r \in 1 .. Len(leaf) /\ log \in Seq(RecordSet) /\ Len(log) \in Nat
    BY TypeFacts DEF TypeOK
  <1>3. Hit \in SUBSET Live(l) /\ New \in SUBSET Live(l)
    OBVIOUS
  <1> HIDE DEF Hit, New
  <1>4. Cardinality(New) \in Nat /\ (Hit # {} => e \in 1 .. Len(log))
    <2>1. Cardinality(New) \in Nat
      BY <1>2, <1>3, FirstOfLive
    <2>2. Hit # {} => l.slot[Min(Hit)].ptr \in 1 .. Len(log)
      BY <1>2, <1>3, FirstOfLive
    <2> QED BY <2>1, <2>2
  <1>5. Value(calls') \in Nat
    <2>1. calls' = calls + 1
      BY DEF Update, Call
    <2> QED BY <2>1, BoundAssumption DEF TypeOK, Value
  <1> HIDE DEF e
  <1>6. changed \in Seq(RecordSet) /\ Len(changed) = Len(log)
    <2>1. CASE Hit # {}
      <3> DEFINE x == [log[e] EXCEPT !.val = Value(calls')]
      <3>1. log[e] \in RecordSet
        BY <1>2, <1>4, <2>1, TypeFacts
      <3>2. x \in RecordSet
        BY <1>5, <3>1 DEF RecordSet
      <3>3. changed = [log EXCEPT ![e] = x]
        BY <2>1
      <3> HIDE DEF x, changed
      <3> QED BY <1>2, <1>4, <2>1, <3>2, <3>3, ExceptSeq
    <2> QED BY <1>2, <2>1
  <1>7. [key |-> k, val |-> Value(calls')] \in RecordSet
    BY <1>5 DEF RecordSet
  <1>8. tail \in Seq(RecordSet) /\ Len(tail) \in Nat
    <2> DEFINE rec == [key |-> k, val |-> Value(calls')]
    <2>1. rec \in RecordSet /\ Cardinality(New) \in Nat
      BY <1>4, <1>7
    <2>2. tail = [n \in 1 .. Cardinality(New) |-> rec]
      OBVIOUS
    <2> HIDE DEF tail, rec
    <2> QED BY <2>1, <2>2, Repeated
  <1> HIDE DEF changed, tail
  <1>9. log' \in Seq(RecordSet) /\ Len(log') = Len(changed) + Len(tail)
    BY <1>1, <1>6, <1>8, ConcatProperties
  <1> QED BY <1>1, <1>2, <1>6, <1>8, <1>9

LEMMA RemoveEffect ==
  ASSUME TypeOK, NEW k, SimplyRemove(k)
  PROVE  LET r == Route(k) IN
         /\ r \in 1 .. Len(leaf)
         /\ log' \in Seq(RecordSet) /\ Len(log') = Len(log)
         /\ leaf' \in Seq(LeafSet) /\ Len(leaf') = Len(leaf)
         /\ \A n \in 1 .. Len(leaf) : n # r => leaf'[n] = leaf[n]
         /\ \/ leaf'[r] = leaf[r]
            \/ \E i \in Live(leaf[r]) :
                  /\ leaf'[r].max_use = leaf[r].max_use - 1
                  /\ leaf'[r].slot = [leaf[r].slot EXCEPT
                                         ![i] = leaf[r].slot[leaf[r].max_use - 1]]
  <1> DEFINE r == Route(k)
             l == leaf[r]
             Hit == {i \in Live(l) : l.slot[i].hash = Hash[k] /\ KeyAt(l, i) = k}
             i == Min(Hit)
             e == l.slot[i].ptr
             x == WithoutSlot(l, i)
  <1>1. /\ r \in 1 .. Len(leaf) /\ log \in Seq(RecordSet) /\ Len(log) \in Nat
        /\ leaf \in Seq(LeafSet)
        /\ l \in LeafSet /\ l.slot \in [Pos -> WordSet] /\ l.max_use \in 0 .. MAX_LEAF_KEY
    BY TypeFacts, SlotFacts DEF TypeOK
  <1>2. CASE Hit = {}
    <2>1. log' = log /\ leaf' = leaf
      BY <1>2 DEF SimplyRemove
    <2> HIDE DEF l
    <2> QED BY <1>1, <2>1 DEF l
  <1>3. CASE Hit # {}
    <2>1. /\ log' = IF e > 2 THEN [log EXCEPT ![e - 2].key = 0] ELSE log
          /\ leaf' = [leaf EXCEPT ![r] = x]
      BY <1>3 DEF SimplyRemove
    <2>2. Hit \in SUBSET Live(l)
      OBVIOUS
    <2> HIDE DEF Hit
    <2>3. i \in Live(l) /\ i \in Pos /\ e \in 1 .. Len(log)
      BY <1>1, <1>3, <2>2, FirstOfLive
    <2> HIDE DEF i, e
    <2>4. log' \in Seq(RecordSet) /\ Len(log') = Len(log)
      <3>1. CASE e > 2
        <4> DEFINE z == [log[e - 2] EXCEPT !.key = 0]
        <4>1. e - 2 \in 1 .. Len(log)
          BY <1>1, <2>3, <3>1
        <4>2. log[e - 2] \in RecordSet
          BY <4>1, TypeFacts
        <4>3. z \in RecordSet
          BY <4>2 DEF RecordSet
        <4>4. log' = [log EXCEPT ![e - 2] = z]
          BY <2>1, <3>1
        <4> HIDE DEF z
        <4> QED BY <1>1, <4>1, <4>3, <4>4, ExceptSeq
      <3> QED BY <1>1, <2>1, <3>1
    <2>5. l.max_use - 1 \in Pos /\ l.max_use - 1 \in 0 .. MAX_LEAF_KEY
      <3> HIDE DEF l
      <3> QED BY <1>1, <2>3, Halves DEF Pos
    <2>6. /\ x \in LeafSet /\ x.max_use = l.max_use - 1
          /\ x.slot = [l.slot EXCEPT ![i] = l.slot[l.max_use - 1]]
      <3> HIDE DEF l
      <3>1. x = [l EXCEPT !.slot = [@ EXCEPT ![i] = l.slot[l.max_use - 1]], !.max_use = @ - 1]
        BY <1>1 DEF WithoutSlot, LeafSet
      <3> HIDE DEF x
      <3>2. l \in [slot : [Pos -> WordSet], max_use : 0 .. MAX_LEAF_KEY, temp_insert : {0, 1}] /\ i \in Pos
        BY <1>1, <2>3 DEF LeafSet
      <3>3. l.slot[l.max_use - 1] \in WordSet
        BY ONLY <2>5, <3>2
      <3> QED BY ONLY <2>5, <3>1, <3>2, <3>3 DEF LeafSet
    <2> HIDE DEF x, l, r
    <2>7. /\ leaf' \in Seq(LeafSet) /\ Len(leaf') = Len(leaf)
          /\ \A n \in 1 .. Len(leaf) : leaf'[n] = IF n = r THEN x ELSE leaf[n]
      BY <1>1, <2>1, <2>6, OneLeaf
    <2> QED BY <1>1, <2>3, <2>4, <2>6, <2>7 DEF l, r
  <1> QED BY <1>2, <1>3

----------------------------------------------------------------------------
(* The type invariant, in two parts.                                       *)
SlotsTyped ==
  /\ leaf \in Seq(LeafSet) /\ log \in Seq(RecordSet) /\ sep \in Seq(Key \cup {0})
  /\ Len(sep) = Len(leaf) - 1
  /\ \A n \in 1 .. Len(leaf) :
        /\ \A p \in Pos : leaf[n].slot[p].ptr <= Len(log)
        /\ \A p \in Live(leaf[n]) : leaf[n].slot[p].ptr # 0

RestTyped ==
  /\ store \in [Key -> Nat] /\ freed \in BOOLEAN
  /\ pending \in Key \cup {0} /\ calls \in 0 .. MaxCalls

LEMMA TypeParts == TypeOK <=> SlotsTyped /\ RestTyped
  <1>1. leaf \in Seq(LeafSet) => DOMAIN leaf = 1 .. Len(leaf)
    BY LenProperties
  <1> QED BY <1>1 DEF TypeOK, SlotsTyped, RestTyped

\* The slots stay typed when the leaves hardly change and the log grows.
LEMMA SameSlotsTyped ==
  ASSUME TypeOK, SameSlots, sep' = sep, log' \in Seq(RecordSet), Len(log) <= Len(log')
  PROVE  SlotsTyped'
  <1>1. SlotsTyped /\ Len(log) \in Nat /\ Len(log') \in Nat
    BY TypeParts, LenProperties DEF SlotsTyped
  <1>2. ASSUME NEW n \in 1 .. Len(leaf), NEW p \in Pos PROVE leaf'[n].slot[p].ptr <= Len(log')
    <2>1. leaf'[n].slot[p].ptr = leaf[n].slot[p].ptr
      BY DEF SameSlots
    <2>2. leaf[n].slot[p].ptr \in 0 .. Len(log)
      BY SlotFacts
    <2> QED BY <1>1, <2>1, <2>2
  <1>3. ASSUME NEW n \in 1 .. Len(leaf), NEW p \in 0 .. leaf'[n].max_use - 1
        PROVE  leaf'[n].slot[p].ptr # 0
    <2>1. p \in 0 .. leaf[n].max_use - 1
      BY DEF SameSlots
    <2>2. p \in Pos /\ leaf[n].slot[p].ptr # 0
      BY <2>1, SlotFacts
    <2> QED BY <2>2 DEF SameSlots
  <1> QED BY <1>1, <1>2, <1>3 DEF SlotsTyped, SameSlots

LEMMA AppendTyped ==
  ASSUME TypeOK, NEW k \in Key, InsertAppend(k)
  PROVE  SlotsTyped'
  <1> DEFINE r == Route(k)
             m == leaf[r].max_use
             w == Finger(Len(log) + 1, Hash[k])
  <1>1. /\ r \in 1 .. Len(leaf) /\ m \in Pos
        /\ leaf' \in Seq(LeafSet) /\ Len(leaf') = Len(leaf)
        /\ \A n \in 1 .. Len(leaf) : n # r => leaf'[n] = leaf[n]
        /\ leaf'[r].max_use = m + 1
        /\ leaf'[r].slot = [leaf[r].slot EXCEPT ![m] = w]
        /\ log' \in Seq(RecordSet) /\ Len(log') = Len(log) + 1
    BY AppendEffect
  <1>2. sep' = sep /\ SlotsTyped /\ Len(log) \in Nat
    BY TypeParts, TypeFacts DEF InsertAppend, AppendRecord
  <1>3. leaf[r].slot \in [Pos -> WordSet] /\ w.ptr = Len(log) + 1
    BY <1>1, SlotFacts DEF Finger
  <1> HIDE DEF w, m, r
  <1>4. \A p \in Pos : leaf'[r].slot[p] = IF p = m THEN w ELSE leaf[r].slot[p]
    BY <1>1, <1>3
  <1>5. ASSUME NEW n \in 1 .. Len(leaf), NEW p \in Pos PROVE leaf'[n].slot[p].ptr <= Len(log')
    <2>1. leaf[n].slot[p].ptr \in 0 .. Len(log)
      BY SlotFacts
    <2> QED BY <1>1, <1>2, <1>3, <1>4, <2>1
  <1>6. ASSUME NEW n \in 1 .. Len(leaf), NEW p \in 0 .. leaf'[n].max_use - 1
        PROVE  leaf'[n].slot[p].ptr # 0
    <2>1. CASE n = r /\ p = m
      BY <1>1, <1>2, <1>3, <1>4, <2>1
    <2>2. CASE ~(n = r /\ p = m)
      <3>1. p \in 0 .. leaf[n].max_use - 1
        BY <1>1, <2>2 DEF m, Pos
      <3>2. p \in Pos /\ leaf[n].slot[p].ptr # 0
        BY <3>1, SlotFacts
      <3> QED BY <1>1, <1>4, <2>2, <3>2
    <2> QED BY <2>1, <2>2
  <1> QED BY <1>1, <1>2, <1>5, <1>6 DEF SlotsTyped

LEMMA RemoveTyped ==
  ASSUME TypeOK, NEW k, SimplyRemove(k)
  PROVE  SlotsTyped'
  <1> DEFINE r == Route(k)
             m == leaf[r].max_use - 1
  <1>1. /\ r \in 1 .. Len(leaf) /\ log' \in Seq(RecordSet) /\ Len(log') = Len(log)
        /\ leaf' \in Seq(LeafSet) /\ Len(leaf') = Len(leaf)
        /\ \A n \in 1 .. Len(leaf) : n # r => leaf'[n] = leaf[n]
    BY RemoveEffect
  <1>2. \/ leaf'[r] = leaf[r]
        \/ \E i \in 0 .. m : /\ leaf'[r].max_use = leaf[r].max_use - 1
                             /\ leaf'[r].slot = [leaf[r].slot EXCEPT ![i] = leaf[r].slot[m]]
    BY RemoveEffect
  <1>3. /\ sep' = sep /\ SlotsTyped /\ Len(log) \in Nat
        /\ leaf[r].slot \in [Pos -> WordSet] /\ leaf[r].max_use \in 0 .. MAX_LEAF_KEY
    BY <1>1, TypeParts, TypeFacts, SlotFacts DEF SimplyRemove
  <1> HIDE DEF r
  <1>4. ASSUME NEW n \in 1 .. Len(leaf)
        PROVE  /\ \A p \in Pos : leaf'[n].slot[p].ptr <= Len(log')
               /\ \A p \in 0 .. leaf'[n].max_use - 1 : leaf'[n].slot[p].ptr # 0
    <2>1. /\ \A p \in Pos : leaf[n].slot[p].ptr <= Len(log)
          /\ \A p \in 0 .. leaf[n].max_use - 1 : p \in Pos /\ leaf[n].slot[p].ptr # 0
      BY SlotFacts
    <2>2. CASE leaf'[n] = leaf[n]
      BY <1>1, <2>1, <2>2
    <2>3. CASE leaf'[n] # leaf[n]
      <3>1. PICK i \in 0 .. m : /\ leaf'[r].max_use = leaf[r].max_use - 1
                                /\ leaf'[r].slot = [leaf[r].slot EXCEPT ![i] = leaf[r].slot[m]]
        BY <1>1, <1>2, <2>3
      <3>2. n = r
        BY <1>1, <2>3
      <3>3. m \in 0 .. leaf[r].max_use - 1 /\ m \in Pos
        BY <1>3, <2>1, <3>2, Halves DEF Pos
      <3> HIDE DEF m
      <3>4. \A p \in Pos : leaf'[r].slot[p] = IF p = i THEN leaf[r].slot[m] ELSE leaf[r].slot[p]
        BY <1>3, <3>1
      <3>5. \A p \in 0 .. leaf'[r].max_use - 1 : p \in 0 .. leaf[r].max_use - 1
        BY <1>3, <3>1
      <3> QED BY <1>1, <2>1, <3>2, <3>3, <3>4, <3>5
    <2> QED BY <2>2, <2>3
  <1> QED BY <1>1, <1>3, <1>4 DEF SlotsTyped

LEMMA SplitTyped ==
  ASSUME TypeOK, NEW k, InsertSplit(k)
  PROVE  SlotsTyped'
  <1> DEFINE r == Route(k)
  <1>1. PICK f \in Bijection(Pos, Pos) :
           /\ r \in 1 .. Len(leaf) /\ leaf[r].max_use = MAX_LEAF_KEY
           /\ leaf' \in Seq(LeafSet) /\ Len(leaf') = Len(leaf) + 1
           /\ \A n \in 1 .. r - 1 : leaf'[n] = leaf[n]
           /\ HalfOf(leaf'[r], leaf[r], f, 0)
           /\ HalfOf(leaf'[r + 1], leaf[r], f, LEFT_KEY)
           /\ \A n \in r + 2 .. Len(leaf) + 1 : leaf'[n] = leaf[n - 1]
           /\ sep' = InsertAt(sep, r, KeyAt(leaf[r], f[LEFT_KEY - 1]))
    BY SplitEffect
  <1>2. log' = log /\ SlotsTyped /\ Len(log) \in Nat /\ Len(leaf) \in Nat
    BY TypeParts, TypeFacts DEF InsertSplit
  <1>3. \A p \in Pos : /\ f[p] \in Pos /\ leaf[r].slot[f[p]].ptr # 0
                       /\ KeyAt(leaf[r], f[p]) \in Key \cup {0}
    <2>1. \A p \in Pos : f[p] \in Pos
      BY DEF Bijection, Injection
    <2> HIDE DEF r
    <2>2. \A p \in Pos : p \in 0 .. leaf[r].max_use - 1
      BY <1>1 DEF Pos
    <2> QED BY <1>1, <2>1, <2>2, SlotFacts
  <1> HIDE DEF r
  <1>4. /\ sep' \in Seq(Key \cup {0}) /\ Len(sep') = Len(sep) + 1
    <2>1. sep \in Seq(Key \cup {0}) /\ r \in 1 .. Len(sep) + 1
      BY <1>1, TypeFacts DEF TypeOK
    <2> DEFINE y == KeyAt(leaf[r], f[LEFT_KEY - 1])
    <2>2. y \in Key \cup {0}
      BY <1>3, Halves DEF Pos
    <2>3. sep' = InsertAt(sep, r, y)
      BY <1>1
    <2> HIDE DEF y
    <2>4. /\ InsertAt(sep, r, y) \in Seq(Key \cup {0})
          /\ Len(InsertAt(sep, r, y)) = Len(sep) + 1
      BY <2>1, <2>2, Inserting DEF Grown
    <2> QED BY <2>3, <2>4
  <1>5. ASSUME NEW h, NEW s \in {0, LEFT_KEY}, HalfOf(h, leaf[r], f, s)
        PROVE  /\ \A p \in Pos : h.slot[p].ptr <= Len(log)
               /\ \A p \in 0 .. h.max_use - 1 : h.slot[p].ptr # 0
    <2>1. h.max_use = LEFT_KEY /\ \A p \in Pos : h.slot[p].ptr <= Len(log)
      BY <1>5 DEF HalfOf
    <2>2. \A p \in 0 .. LEFT_KEY - 1 : h.slot[p].ptr = leaf[r].slot[f[p + s]].ptr
      BY <1>5 DEF HalfOf
    <2>3. \A p \in 0 .. LEFT_KEY - 1 : p + s \in Pos
      BY Halves DEF Pos
    <2> QED BY <1>3, <2>1, <2>2, <2>3
  <1>6. ASSUME NEW n \in 1 .. Len(leaf')
        PROVE  /\ \A p \in Pos : leaf'[n].slot[p].ptr <= Len(log)
               /\ \A p \in 0 .. leaf'[n].max_use - 1 : leaf'[n].slot[p].ptr # 0
    <2>1. CASE n \in 1 .. r - 1 \/ n \in r + 2 .. Len(leaf) + 1
      <3>1. \E i \in 1 .. Len(leaf) : leaf'[n] = leaf[i]
        <4>1. n \in 1 .. r - 1 => n \in 1 .. Len(leaf)
          BY <1>1, <1>2
        <4>2. n \in r + 2 .. Len(leaf) + 1 => n - 1 \in 1 .. Len(leaf)
          BY <1>1, <1>2
        <4> QED BY <1>1, <2>1, <4>1, <4>2
      <3> QED BY <1>2, <3>1 DEF SlotsTyped
    <2>2. CASE n = r \/ n = r + 1
      BY <1>1, <1>5, <2>2
    <2>3. n \in 1 .. r - 1 \/ n \in r + 2 .. Len(leaf) + 1 \/ n = r \/ n = r + 1
      BY <1>1, <1>2
    <2> QED BY <2>1, <2>2, <2>3
  <1>7. Len(sep) = Len(leaf) - 1
    BY DEF TypeOK
  <1>8. \A n \in 1 .. Len(leaf') : /\ \A p \in Pos : leaf'[n].slot[p].ptr <= Len(log')
                                   /\ \A p \in 0 .. leaf'[n].max_use - 1 : leaf'[n].slot[p].ptr # 0
    BY <1>2, <1>6
  <1>9. log' \in Seq(RecordSet) /\ Len(sep') = Len(leaf') - 1
    BY <1>1, <1>2, <1>4, <1>7 DEF SlotsTyped
  <1> QED BY <1>1, <1>4, <1>8, <1>9 DEF SlotsTyped

(* The variables besides the leaves, the separators and the log.           *)
LEMMA RestOfTypes ==
  ASSUME TypeOK, [Next]_vars
  PROVE  RestTyped'
  <1>1. RestTyped
    BY TypeParts
  <1>2. CASE UNCHANGED vars
    BY <1>1, <1>2 DEF RestTyped, vars
  <1>3. ASSUME NEW k \in Key, NEW kind, Call(kind, k) PROVE calls' \in 0 .. MaxCalls
    BY <1>1, <1>3, BoundAssumption DEF Call, RestTyped
  <1>4. ASSUME NEW k \in Key,
               InsertDuplicate(k) \/ InsertAppend(k) \/ InsertSplit(k)
        PROVE  RestTyped'
    <2>1. CASE InsertDuplicate(k)
      <3>1. calls' \in 0 .. MaxCalls
        BY <1>3, <2>1 DEF InsertDuplicate
      <3> QED BY <1>1, <2>1, <3>1 DEF RestTyped, InsertDuplicate
    <2>2. CASE InsertAppend(k)
      <3>1. calls' \in 0 .. MaxCalls
        BY <1>3, <2>2 DEF InsertAppend, AppendRecord
      <3>2. Value(calls') \in Nat
        BY <2>2, AppendEffect
      <3>3. store' = [store EXCEPT ![k] = Value(calls')] /\ pending' = 0 /\ freed' = freed
        BY <2>2 DEF InsertAppend, AppendRecord
      <3> QED BY <1>1, <3>1, <3>2, <3>3 DEF RestTyped
    <2>3. CASE InsertSplit(k)
      BY <1>1, <2>3 DEF RestTyped, InsertSplit
    <2> QED BY <1>4, <2>1, <2>2, <2>3
  <1>5. ASSUME NEW k \in Key, Find(k) \/ FindInRoot(k) \/ Scan(k)
        PROVE  RestTyped'
    <2>1. /\ calls' \in 0 .. MaxCalls
          /\ store' = store /\ pending' = pending /\ freed' = freed
      BY <1>3, <1>5 DEF Find, FindInRoot, Scan
    <2> QED BY <1>1, <2>1 DEF RestTyped
  <1>6. ASSUME NEW k \in Key, Update(k) PROVE RestTyped'
    <2>1. calls' \in 0 .. MaxCalls /\ pending' = pending /\ freed' = freed
      BY <1>3, <1>6 DEF Update
    <2>2. store' = [store EXCEPT ![k] = IF @ = 0 THEN 0 ELSE Value(calls')]
      BY <1>6 DEF Update
    <2>3. Value(calls') \in Nat
      <3>1. calls' \in Nat
        BY ONLY <2>1, BoundAssumption
      <3>2. \A n \in Nat : Value(n) \in Nat
        BY DEF Value
      <3> QED BY ONLY <3>1, <3>2
    <2> QED BY <1>1, <2>1, <2>2, <2>3 DEF RestTyped
  <1>7. ASSUME NEW k \in Key, SimplyRemove(k) PROVE RestTyped'
    <2>1. /\ calls' \in 0 .. MaxCalls /\ pending' = pending
          /\ freed' = TRUE \/ freed' = freed
          /\ store' = [store EXCEPT ![k] = 0]
      BY <1>3, <1>7 DEF SimplyRemove
    <2> QED BY <1>1, <2>1 DEF RestTyped
  <1> QED BY <1>2, <1>4, <1>5, <1>6, <1>7 DEF Next, Done

LEMMA TypeInit == Init => TypeOK
  <1> SUFFICES ASSUME Init PROVE TypeOK
    OBVIOUS
  <1>1. Junk \in WordSet /\ Junk.ptr = 0
    BY Halves DEF Junk, Word, WordSet, Pos
  <1>2. EmptyLeaf \in LeafSet /\ EmptyLeaf.max_use = 0
        /\ \A p \in Pos : EmptyLeaf.slot[p].ptr = 0
    BY <1>1, Halves DEF EmptyLeaf, LeafSet
  <1>3. leaf = <<EmptyLeaf>> /\ sep = << >> /\ log = << >>
    BY DEF Init
  <1>4. /\ leaf \in Seq(LeafSet) /\ sep \in Seq(Key \cup {0}) /\ log \in Seq(RecordSet)
        /\ Len(leaf) = 1 /\ Len(sep) = 0 /\ Len(log) = 0 /\ leaf[1] = EmptyLeaf
    BY <1>2, <1>3
  <1>5. SlotsTyped
    BY <1>2, <1>4 DEF SlotsTyped
  <1>6. RestTyped
    <2>1. freed \in BOOLEAN
      BY DEF Init
    <2>2. store \in [Key -> Nat] /\ pending \in Key \cup {0} /\ calls \in 0 .. MaxCalls
      <3>1. 0 \in 0 .. MaxCalls /\ [k \in Key |-> 0] \in [Key -> Nat]
        BY BoundAssumption
      <3> QED BY <3>1 DEF Init
    <2> QED BY <2>1, <2>2 DEF RestTyped
  <1> QED BY <1>5, <1>6, TypeParts

LEMMA TypeNext ==
  ASSUME TypeOK, [Next]_vars
  PROVE  TypeOK'
  <1>1. RestTyped'
    BY RestOfTypes
  <1>2. SlotsTyped /\ leaf \in Seq(LeafSet) /\ log \in Seq(RecordSet) /\ Len(log) \in Nat
    BY TypeParts, TypeFacts DEF TypeOK
  <1>3. ASSUME UNCHANGED <<leaf, sep, log>> PROVE SlotsTyped'
    BY <1>2, <1>3 DEF SlotsTyped
  <1>4. ASSUME NEW k \in Key, InsertDuplicate(k) \/ Find(k) PROVE SlotsTyped'
    <2>1. sep' = sep /\ log' = log
      BY <1>4 DEF InsertDuplicate, Find
    <2>2. SameSlots
      BY <1>4, DuplicateEffect, FindEffect
    <2> QED BY <1>2, <2>1, <2>2, SameSlotsTyped
  <1>5. ASSUME NEW k \in Key, Update(k) PROVE SlotsTyped'
    <2>1. log' \in Seq(RecordSet) /\ Len(log) <= Len(log') /\ leaf' = leaf
      BY <1>5, UpdateEffect
    <2>2. sep' = sep
      BY <1>5 DEF Update
    <2>3. SameSlots
      BY <1>2, <2>1 DEF SameSlots
    <2> QED BY <2>1, <2>2, <2>3, SameSlotsTyped
  <1>6. ASSUME NEW k \in Key, FindInRoot(k) \/ Scan(k) PROVE SlotsTyped'
    BY <1>3, <1>6 DEF FindInRoot, Scan
  <1>7. ASSUME UNCHANGED vars PROVE SlotsTyped'
    BY <1>3, <1>7 DEF vars
  <1>8. SlotsTyped'
    <2>1. ASSUME NEW k \in Key, InsertAppend(k) \/ InsertSplit(k) \/ SimplyRemove(k)
          PROVE  SlotsTyped'
      BY <2>1, AppendTyped, SplitTyped, RemoveTyped
    <2>2. \/ UNCHANGED vars
          \/ \E k \in Key : \/ InsertDuplicate(k) \/ Find(k) \/ Update(k)
                           \/ FindInRoot(k) \/ Scan(k)
                           \/ InsertAppend(k) \/ InsertSplit(k) \/ SimplyRemove(k)
      BY DEF Next, Done
    <2> QED BY <1>4, <1>5, <1>6, <1>7, <2>1, <2>2
  <1>9. TypeOK' <=> SlotsTyped' /\ RestTyped'
    BY TypeParts, PTL
  <1> QED BY <1>1, <1>8, <1>9

(* Type correctness: words keep to their ranges, the fingers in use point  *)
(* into the log, and there is one separator less than leaves, whatever is  *)
(* called.                                                                 *)
THEOREM TypeCorrect == Spec => []TypeOK
  BY TypeInit, TypeNext, PTL DEF Spec

----------------------------------------------------------------------------
(* The slots in use.                                                       *)
PlacesAre ==
  /\ \A a \in Places : /\ a[1] \in 1 .. Len(leaf) /\ a[2] \in Live(leaf[a[1]])
                       /\ a[2] \in Pos /\ a = <<a[1], a[2]>>
  /\ \A n \in 1 .. Len(leaf) : \A i \in Live(leaf[n]) : <<n, i>> \in Places

LEMMA PlaceFacts == TypeOK => PlacesAre
  <1> SUFFICES ASSUME TypeOK PROVE PlacesAre
    OBVIOUS
  <1>1. DOMAIN leaf = 1 .. Len(leaf)
    BY TypeFacts
  <1>2. Places = {a \in (1 .. Len(leaf)) \X Pos : a[2] < leaf[a[1]].max_use}
    BY <1>1 DEF Places
  <1>3. \A n \in 1 .. Len(leaf) : leaf[n].max_use \in 0 .. MAX_LEAF_KEY
    BY SlotFacts
  <1>4. ASSUME NEW a \in Places
        PROVE  /\ a[1] \in 1 .. Len(leaf) /\ a[2] \in Live(leaf[a[1]])
               /\ a[2] \in Pos /\ a = <<a[1], a[2]>>
    <2>1. /\ a[1] \in 1 .. Len(leaf) /\ a[2] \in Pos /\ a = <<a[1], a[2]>>
          /\ a[2] < leaf[a[1]].max_use
      BY <1>2
    <2>2. leaf[a[1]].max_use \in 0 .. MAX_LEAF_KEY
      BY <1>3, <2>1
    <2> QED BY <2>1, <2>2, Halves DEF Pos
  <1>5. ASSUME NEW n \in 1 .. Len(leaf), NEW i \in Live(leaf[n]) PROVE <<n, i>> \in Places
    <2>1. i \in Pos /\ i < leaf[n].max_use
      BY <1>3, SlotFacts, Halves DEF Pos
    <2>2. <<n, i>> \in (1 .. Len(leaf)) \X Pos
      BY <2>1
    <2> QED BY <1>2, <2>1, <2>2
  <1> QED BY <1>4, <1>5 DEF PlacesAre

\* Where the slots in use of the next state come from in a split of leaf r
\* with the separator y.
SplitOrigin(O, r, y) ==
  /\ \A a \in Places' :
        /\ O[a] \in Places
        /\ SlotAt(a)'.ptr = SlotAt(O[a]).ptr /\ SlotAt(a)'.hash = SlotAt(O[a]).hash
        /\ a[1] < r => O[a] = a
        /\ a[1] \in {r, r + 1} => O[a][1] = r
        /\ a[1] > r + 1 => O[a] = <<a[1] - 1, a[2]>>
        /\ a[1] = r => RecordAt(O[a]).key <= y
        /\ a[1] = r + 1 => \/ RecordAt(O[a]).key > y
                           \/ \E b \in Places : b # O[a] /\ RecordAt(b).key = RecordAt(O[a]).key
        /\ a[1] \in {r, r + 1} =>
              LET l == leaf'[a[1]]
                  c == SlotAt(a)'.control
              IN /\ l.max_use = LEFT_KEY
                 /\ \/ c = 0
                    \/ /\ c \in LEFT_KEY .. MAX_LEAF_KEY - 2
                       /\ l.slot[c].val = RecordAt(O[a]).key
                       /\ l.slot[c + 1].val = RecordAt(O[a]).val
  /\ \A a, b \in Places' : O[a] = O[b] => a = b
  /\ \A b \in Places : \E a \in Places' : O[a] = b

LEMMA SplitOrigins ==
  ASSUME TypeOK, TypeOK', NEW k, InsertSplit(k)
  PROVE  LET r == Route(k) IN
         \E O, y : /\ r \in 1 .. Len(leaf) /\ Len(leaf') = Len(leaf) + 1
                   /\ \A n \in 1 .. r - 1 : leaf'[n] = leaf[n]
                   /\ \A n \in r + 2 .. Len(leaf) + 1 : leaf'[n] = leaf[n - 1]
                   /\ sep' = InsertAt(sep, r, y)
                   /\ \E a \in Places : a[1] = r /\ y = RecordAt(a).key
                   /\ \E a \in Places' : a[1] = r + 1
                   /\ SplitOrigin(O, r, y)
  <1> DEFINE r == Route(k)
             l == leaf[r]
  <1>1. PICK f \in Bijection(Pos, Pos) :
           /\ r \in 1 .. Len(leaf) /\ l.max_use = MAX_LEAF_KEY
           /\ \A p, q \in Pos : p < q =>
                 \/ KeyAt(l, f[p]) < KeyAt(l, f[q])
                 \/ KeyAt(l, f[p]) = KeyAt(l, f[q]) /\ f[p] # f[q]
           /\ Len(leaf') = Len(leaf) + 1
           /\ \A n \in 1 .. r - 1 : leaf'[n] = leaf[n]
           /\ HalfOf(leaf'[r], l, f, 0)
           /\ HalfOf(leaf'[r + 1], l, f, LEFT_KEY)
           /\ \A n \in r + 2 .. Len(leaf) + 1 : leaf'[n] = leaf[n - 1]
           /\ sep' = InsertAt(sep, r, KeyAt(l, f[LEFT_KEY - 1]))
    BY SplitEffect
  <1> DEFINE y == KeyAt(l, f[LEFT_KEY - 1])
             from(a) == IF a[1] = r THEN a[2] ELSE a[2] + LEFT_KEY
             O == [a \in Places' |-> IF a[1] < r THEN a
                                     ELSE IF a[1] \in {r, r + 1} THEN <<r, f[from(a)]>>
                                     ELSE <<a[1] - 1, a[2]>>]
  <1> HIDE DEF r
  <1>2. /\ Len(leaf) \in Nat /\ Len(leaf') \in Nat /\ r \in Nat
        /\ \A p \in Pos : f[p] \in Pos /\ p \in Nat
        /\ \A p, q \in Pos : f[p] = f[q] => p = q
        /\ \A q \in Pos : \E p \in Pos : f[p] = q
    <2>1. Len(leaf) \in Nat
      BY TypeFacts
    <2>2. \A p \in Pos : p \in Nat
      BY DEF Pos
    <2>3. Len(leaf') \in Nat /\ r \in Nat
      BY <1>1, <2>1
    <2>4. /\ f \in [Pos -> Pos]
          /\ \A p, q \in Pos : f[p] = f[q] => p = q
          /\ \A q \in Pos : \E p \in Pos : f[p] = q
      BY DEF Bijection, Injection, Surjection, IsInjective
    <2> QED BY <2>1, <2>2, <2>3, <2>4
  <1>3. /\ \A a \in Places' : /\ a[1] \in 1 .. Len(leaf) + 1
                              /\ a[2] \in 0 .. leaf'[a[1]].max_use - 1
                              /\ a[2] \in Pos /\ a = <<a[1], a[2]>>
        /\ \A n \in 1 .. Len(leaf) + 1 : \A i \in 0 .. leaf'[n].max_use - 1 :
              <<n, i>> \in Places'
    <2>1. TypeOK' => PlacesAre'
      BY PlaceFacts, PTL
    <2> QED BY <1>1, <2>1 DEF PlacesAre
  <1>4. leaf'[r].max_use = LEFT_KEY /\ leaf'[r + 1].max_use = LEFT_KEY
    BY <1>1 DEF HalfOf
  <1>5. \A p \in Pos : <<r, p>> \in Places /\ KeyAt(l, p) \in Nat
    <2> TAKE p \in Pos
    <2>1. p \in 0 .. l.max_use - 1
      BY <1>1 DEF Pos
    <2>2. leaf[r].slot[p].ptr # 0
      BY <1>1, <2>1, SlotFacts
    <2>3. KeyAt(leaf[r], p) \in Nat
      BY <1>1, <2>2, SlotFacts
    <2>4. <<r, p>> \in Places
      BY <1>1, <2>1, PlaceFacts DEF PlacesAre
    <2> QED BY <2>3, <2>4
  <1> HIDE DEF l, y
  <1>6. \A a \in Places' : a[1] \in {r, r + 1} =>
           /\ a[2] \in 0 .. LEFT_KEY - 1 /\ from(a) \in Pos
           /\ a[1] = r => from(a) < LEFT_KEY
           /\ a[1] = r + 1 => from(a) >= LEFT_KEY
    <2> TAKE a \in Places'
    <2> HAVE a[1] \in {r, r + 1}
    <2>1. a[2] \in 0 .. LEFT_KEY - 1
      BY <1>3, <1>4
    <2>2. r + 1 # r
      BY <1>2
    <2> QED BY <2>1, <2>2, Halves DEF Pos
  <1>7. \A a \in Places' : O[a] = IF a[1] < r THEN a
                                  ELSE IF a[1] \in {r, r + 1} THEN <<r, f[from(a)]>>
                                  ELSE <<a[1] - 1, a[2]>>
    OBVIOUS
  <1> HIDE DEF O, from
  <1>8. \A a \in Places' : a[1] \notin {r, r + 1} =>
           \/ a[1] \in 1 .. r - 1 /\ O[a] = a /\ leaf'[a[1]] = leaf[O[a][1]]
           \/ /\ a[1] \in r + 2 .. Len(leaf) + 1 /\ O[a] = <<a[1] - 1, a[2]>>
              /\ leaf'[a[1]] = leaf[O[a][1]]
    <2> TAKE a \in Places'
    <2> HAVE a[1] \notin {r, r + 1}
    <2>1. a[1] \in 1 .. Len(leaf) + 1 /\ a = <<a[1], a[2]>>
      BY <1>3
    <2>2. CASE a[1] < r
      <3>1. a[1] \in 1 .. r - 1
        BY <1>2, <2>1, <2>2
      <3> QED BY <1>1, <1>7, <2>2, <3>1
    <2>3. CASE ~(a[1] < r)
      <3>1. a[1] \in r + 2 .. Len(leaf) + 1
        BY <1>2, <2>1, <2>3
      <3>2. O[a] = <<a[1] - 1, a[2]>>
        BY <1>7, <2>3
      <3>3. O[a][1] = a[1] - 1
        BY <3>2
      <3> QED BY <1>1, <3>1, <3>2, <3>3
    <2> QED BY <2>2, <2>3
  <1>9. \A a \in Places' : a[1] \in {r, r + 1} => O[a] = <<r, f[from(a)]>>
    <2> TAKE a \in Places'
    <2> HAVE a[1] \in {r, r + 1}
    <2>1. ~(a[1] < r)
      BY <1>2
    <2> QED BY <1>7, <2>1
  <1>10. ASSUME NEW a \in Places', a[1] \notin {r, r + 1}
         PROVE  /\ O[a] \in Places /\ O[a][1] # r /\ O[a][2] = a[2]
                /\ O[a][1] < r => a[1] = O[a][1]
                /\ O[a][1] > r => a[1] = O[a][1] + 1
                /\ SlotAt(a)' = SlotAt(O[a])
    <2>1. a[2] \in 0 .. leaf'[a[1]].max_use - 1 /\ a[1] \in 1 .. Len(leaf) + 1
      BY <1>3
    <2>2. /\ O[a][1] \in 1 .. Len(leaf) /\ O[a][2] = a[2] /\ O[a] = <<O[a][1], O[a][2]>>
          /\ leaf'[a[1]] = leaf[O[a][1]] /\ O[a][1] # r
          /\ O[a][1] < r => a[1] = O[a][1]
          /\ O[a][1] > r => a[1] = O[a][1] + 1
      <3>1. CASE a[1] \in 1 .. r - 1 /\ O[a] = a /\ leaf'[a[1]] = leaf[O[a][1]]
        <4>1. a = <<a[1], a[2]>>
          BY <1>3
        <4> QED BY <1>1, <1>2, <3>1, <4>1
      <3>2. CASE /\ a[1] \in r + 2 .. Len(leaf) + 1 /\ O[a] = <<a[1] - 1, a[2]>>
                 /\ leaf'[a[1]] = leaf[O[a][1]]
        <4>1. O[a][1] = a[1] - 1 /\ O[a][2] = a[2]
          BY <3>2
        <4> QED BY <1>2, <3>2, <4>1
      <3> QED BY <1>8, <1>10, <3>1, <3>2
    <2>3. O[a][2] \in 0 .. leaf[O[a][1]].max_use - 1
      BY <2>1, <2>2
    <2>4. O[a] \in Places
      BY <2>2, <2>3, PlaceFacts DEF PlacesAre
    <2> QED BY <2>2, <2>4 DEF SlotAt
  <1>11. ASSUME NEW a \in Places', a[1] \in {r, r + 1}
         PROVE  /\ O[a] \in Places /\ O[a][1] = r /\ O[a][2] = f[from(a)]
                /\ RecordAt(O[a]).key = KeyAt(l, f[from(a)])
                /\ RecordAt(O[a]).val = ValAt(l, f[from(a)])
                /\ SlotAt(O[a]) = l.slot[f[from(a)]]
    <2>1. O[a] = <<r, f[from(a)]>> /\ f[from(a)] \in Pos
      BY <1>2, <1>6, <1>9, <1>11
    <2>2. O[a] \in Places /\ O[a][1] = r /\ O[a][2] = f[from(a)]
      BY <1>5, <2>1
    <2> QED BY <2>2 DEF RecordAt, SlotAt, KeyAt, ValAt, l
  <1>12. ASSUME NEW a \in Places', a[1] \in {r, r + 1}
         PROVE  /\ SlotAt(a)'.ptr = SlotAt(O[a]).ptr /\ SlotAt(a)'.hash = SlotAt(O[a]).hash
                /\ LET h == leaf'[a[1]]
                       c == SlotAt(a)'.control
                   IN /\ h.max_use = LEFT_KEY
                      /\ \/ c = 0
                         \/ /\ c \in LEFT_KEY .. MAX_LEAF_KEY - 2
                            /\ h.slot[c].val = RecordAt(O[a]).key
                            /\ h.slot[c + 1].val = RecordAt(O[a]).val
    <2> DEFINE h == leaf'[a[1]]
               s == IF a[1] = r THEN 0 ELSE LEFT_KEY
               p == a[2]
    <2>1. HalfOf(h, l, f, s) /\ from(a) = p + s /\ p \in 0 .. LEFT_KEY - 1
      <3>1. r + 1 # r /\ p \in 0 .. LEFT_KEY - 1 /\ p + 0 = p
        BY <1>2, <1>6, <1>12
      <3> QED BY <1>1, <1>12, <3>1 DEF from
    <2>2. SlotAt(a)' = h.slot[p]
      BY DEF SlotAt
    <2> HIDE DEF h, s, p
    <2>3. /\ h.slot[p].ptr = l.slot[f[p + s]].ptr
          /\ h.slot[p].hash = l.slot[f[p + s]].hash
          /\ \/ h.slot[p].control = 0
             \/ /\ h.slot[p].control \in LEFT_KEY .. MAX_LEAF_KEY - 2
                /\ h.slot[h.slot[p].control].val = KeyAt(l, f[p + s])
                /\ h.slot[h.slot[p].control + 1].val = ValAt(l, f[p + s])
          /\ h.max_use = LEFT_KEY
      BY <2>1 DEF HalfOf
    <2> QED BY <1>11, <1>12, <2>1, <2>2, <2>3 DEF h
  <1>13. LEFT_KEY - 1 \in Pos
    BY Halves DEF Pos
  <1>14. ASSUME NEW a \in Places', a[1] = r PROVE RecordAt(O[a]).key <= y
    <2>1. from(a) \in Pos /\ from(a) < LEFT_KEY
      BY <1>6, <1>14
    <2>2. from(a) = LEFT_KEY - 1 \/ from(a) < LEFT_KEY - 1
      BY <2>1, Halves DEF Pos
    <2>3. KeyAt(l, f[from(a)]) \in Nat /\ y \in Nat
      BY <1>2, <1>5, <1>13, <2>1 DEF y
    <2>4. KeyAt(l, f[from(a)]) <= y
      BY <1>1, <1>13, <2>1, <2>2, <2>3 DEF y
    <2> QED BY <1>11, <1>14, <2>4
  <1>15. ASSUME NEW a \in Places', a[1] = r + 1
         PROVE  \/ RecordAt(O[a]).key > y
                \/ \E b \in Places : b # O[a] /\ RecordAt(b).key = RecordAt(O[a]).key
    <2> DEFINE p == LEFT_KEY - 1
               q == from(a)
    <2>1. q \in Pos /\ p < q
      BY <1>6, <1>15, Halves DEF Pos
    <2> HIDE DEF q
    <2>2. \/ y < KeyAt(l, f[q])
          \/ y = KeyAt(l, f[q]) /\ f[p] # f[q]
      BY <1>1, <1>13, <2>1 DEF y
    <2>3. KeyAt(l, f[q]) \in Nat /\ y \in Nat
      BY <1>2, <1>5, <1>13, <2>1 DEF y
    <2>4. /\ RecordAt(O[a]).key = KeyAt(l, f[q]) /\ O[a][2] = f[q]
      BY <1>11, <1>15 DEF q
    <2>5. <<r, f[p]>> \in Places /\ RecordAt(<<r, f[p]>>).key = y
      BY <1>2, <1>5, <1>13 DEF RecordAt, SlotAt, KeyAt, y, l
    <2>6. ASSUME f[p] # f[q] PROVE <<r, f[p]>> # O[a]
      <3>1. <<r, f[p]>>[2] = f[p]
        OBVIOUS
      <3> QED BY <2>4, <2>6, <3>1
    <2>7. CASE y < KeyAt(l, f[q])
      <3>1. KeyAt(l, f[q]) > y
        BY <2>3, <2>7
      <3> QED BY <2>4, <3>1
    <2> QED BY <2>2, <2>4, <2>5, <2>6, <2>7
  <1>16. ASSUME NEW a \in Places', NEW b \in Places', O[a] = O[b] PROVE a = b
    <2>1. a = <<a[1], a[2]>> /\ b = <<b[1], b[2]>> /\ a[1] \in Nat /\ b[1] \in Nat
      BY <1>3
    <2>2. CASE O[a][1] # r
      <3>1. a[1] \notin {r, r + 1} /\ b[1] \notin {r, r + 1}
        BY <1>11, <1>16, <2>2
      <3>2. O[a] \in Places /\ O[a] = O[b]
        BY <1>10, <1>16, <3>1
      <3>3. O[a][1] \in Nat
        BY <3>2, PlaceFacts DEF PlacesAre
      <3>4. a[2] = b[2] /\ a[1] = b[1]
        <4>1. O[a][1] < r \/ O[a][1] > r
          BY <1>2, <2>2, <3>3
        <4> QED BY <1>10, <3>1, <3>2, <4>1
      <3> QED BY <2>1, <3>4
    <2>3. CASE O[a][1] = r
      <3>1. a[1] \in {r, r + 1} /\ b[1] \in {r, r + 1}
        BY <1>10, <1>16, <2>3
      <3>2. f[from(a)] = f[from(b)] /\ from(a) \in Pos /\ from(b) \in Pos
        BY <1>6, <1>11, <1>16, <3>1
      <3>3. from(a) = from(b) /\ from(a) \in Nat
        BY <1>2, <3>2
      <3>4. /\ a[1] = r => from(a) < LEFT_KEY
            /\ a[1] = r + 1 => from(a) >= LEFT_KEY
            /\ b[1] = r => from(b) < LEFT_KEY
            /\ b[1] = r + 1 => from(b) >= LEFT_KEY
            /\ a[2] \in 0 .. LEFT_KEY - 1 /\ b[2] \in 0 .. LEFT_KEY - 1
        BY <1>6, <3>1
      <3>5. a[1] = b[1]
        BY <3>1, <3>3, <3>4, Halves
      <3>6. a[2] = b[2]
        BY <3>3, <3>4, <3>5, Halves DEF from
      <3> QED BY <2>1, <3>5, <3>6
    <2> QED BY <2>2, <2>3
  <1>17. ASSUME NEW b \in Places PROVE \E a \in Places' : O[a] = b
    <2>1. /\ b[1] \in 1 .. Len(leaf) /\ b[2] \in 0 .. leaf[b[1]].max_use - 1
          /\ b[2] \in Pos /\ b = <<b[1], b[2]>>
      BY PlaceFacts DEF PlacesAre
    <2>2. CASE b[1] < r
      <3>1. b[1] \in 1 .. r - 1 /\ b[1] \in 1 .. Len(leaf) + 1
        BY <1>2, <2>1, <2>2
      <3>2. b \in Places'
        BY <1>1, <1>3, <2>1, <3>1
      <3> QED BY <1>7, <2>2, <3>2
    <2>3. CASE b[1] > r
      <3> DEFINE n == b[1] + 1
                 a == <<n, b[2]>>
      <3>1. /\ n \in r + 2 .. Len(leaf) + 1 /\ n \in 1 .. Len(leaf) + 1 /\ n - 1 = b[1]
            /\ ~(n < r) /\ n \notin {r, r + 1}
        <4>1. b[1] \in 1 .. Len(leaf) /\ r \in Nat /\ Len(leaf) \in Nat /\ b[1] > r
          BY ONLY <1>2, <2>1, <2>3
        <4> QED BY ONLY <4>1
      <3>2. a[1] = n /\ a[2] = b[2]
        OBVIOUS
      <3>3. leaf'[n] = leaf[b[1]]
        BY <1>1, <3>1
      <3> HIDE DEF n
      <3>4. a \in Places'
        BY <1>3, <2>1, <3>1, <3>3
      <3> HIDE DEF a
      <3>5. O[a] = <<n - 1, b[2]>>
        BY <1>7, <3>1, <3>2, <3>4
      <3> QED BY <2>1, <3>1, <3>4, <3>5
    <2>4. CASE b[1] = r
      <3>1. PICK p \in Pos : f[p] = b[2]
        BY <1>2, <2>1
      <3> DEFINE n == IF p < LEFT_KEY THEN r ELSE r + 1
                 i == IF p < LEFT_KEY THEN p ELSE p - LEFT_KEY
                 a == <<n, i>>
      <3>2. n \in 1 .. Len(leaf) + 1 /\ n \in {r, r + 1} /\ leaf'[n].max_use = LEFT_KEY
        BY <1>1, <1>2, <1>4
      <3>3. i \in 0 .. LEFT_KEY - 1 /\ (IF n = r THEN i ELSE i + LEFT_KEY) = p
        BY <1>2, Halves DEF Pos
      <3> HIDE DEF n, i
      <3>4. a \in Places' /\ a[1] = n /\ a[2] = i
        BY <1>3, <3>2, <3>3
      <3> HIDE DEF a
      <3>5. from(a) = p
        BY <3>3, <3>4 DEF from
      <3> QED BY <1>9, <2>1, <2>4, <3>1, <3>2, <3>4, <3>5
    <2> QED BY <1>2, <2>1, <2>2, <2>3, <2>4
  <1>18. SplitOrigin(O, r, y)
    <2>1. \A a \in Places' : a[1] < r => a[1] \notin {r, r + 1}
      BY <1>2, <1>3
    <2>2. \A a \in Places' : a[1] > r + 1 => a[1] \notin {r, r + 1} /\ ~(a[1] < r)
      BY <1>2, <1>3
    <2>3. \A a \in Places' : SlotAt(a)'.ptr = SlotAt(O[a]).ptr /\ SlotAt(a)'.hash = SlotAt(O[a]).hash
      BY <1>10, <1>12
    <2>4. \A a \in Places' : /\ a[1] < r => O[a] = a
                             /\ a[1] > r + 1 => O[a] = <<a[1] - 1, a[2]>>
      BY <1>7, <2>2
    <2>5. \A a \in Places' : O[a] \in Places /\ (a[1] \in {r, r + 1} => O[a][1] = r)
      BY <1>10, <1>11
    <2> QED BY <1>12, <1>14, <1>15, <1>16, <1>17, <2>3, <2>4, <2>5 DEF SplitOrigin
  <1>19. \E a \in Places : a[1] = r /\ y = RecordAt(a).key
    <2> DEFINE a == <<r, f[LEFT_KEY - 1]>>
    <2>1. a \in Places /\ a[1] = r
      BY <1>2, <1>5, <1>13
    <2>2. RecordAt(a).key = y
      BY DEF RecordAt, SlotAt, KeyAt, y, l
    <2> QED BY <2>1, <2>2
  <1>20. sep' = InsertAt(sep, r, y)
    BY <1>1 DEF y
  <1>21. \E a \in Places' : a[1] = r + 1
    <2>1. 0 \in 0 .. leaf'[r + 1].max_use - 1 /\ r + 1 \in 1 .. Len(leaf) + 1
      BY <1>1, <1>2, <1>4, Halves
    <2>2. <<r + 1, 0>> \in Places' /\ <<r + 1, 0>>[1] = r + 1
      BY <1>3, <2>1
    <2> QED BY <2>2
  <1> QED BY <1>1, <1>18, <1>19, <1>20, <1>21 DEF r

----------------------------------------------------------------------------
(* Where the slots in use come from in the other actions.                  *)
LEMMA SamePlaces ==
  ASSUME TypeOK, TypeOK', SameSlots
  PROVE  /\ Places' = Places
         /\ \A a \in Places : /\ SlotAt(a)'.ptr = SlotAt(a).ptr
                              /\ SlotAt(a)'.hash = SlotAt(a).hash
                              /\ SlotAt(a)'.control = SlotAt(a).control
  <1>1. DOMAIN leaf = 1 .. Len(leaf) /\ DOMAIN leaf' = 1 .. Len(leaf)
    <2>1. leaf \in Seq(LeafSet) /\ leaf' \in Seq(LeafSet) /\ Len(leaf') = Len(leaf)
      BY DEF TypeOK, SameSlots
    <2> QED BY <2>1, LenProperties
  <1>2. \A n \in 1 .. Len(leaf) : leaf'[n].max_use = leaf[n].max_use
    BY DEF SameSlots
  <1>3. Places' = Places
    BY <1>1, <1>2 DEF Places
  <1> QED BY <1>3, PlaceFacts DEF SameSlots, PlacesAre, SlotAt

LEMMA AppendPlaces ==
  ASSUME TypeOK, TypeOK', NEW k \in Key, InsertAppend(k),
         NEW new, new = <<Route(k), leaf[Route(k)].max_use>>
  PROVE  /\ new \in Places' /\ new \notin Places /\ Places' = Places \cup {new}
         /\ SlotAt(new)' = Finger(Len(log) + 1, Hash[k])
         /\ \A a \in Places : /\ SlotAt(a)' = SlotAt(a)
                              /\ SlotAt(a).ptr \in 1 .. Len(log)
                              /\ RecordAt(a)' = RecordAt(a)
         /\ RecordAt(new)' = [key |-> k, val |-> Value(calls')]
  <1> DEFINE r == Route(k)
             m == leaf[r].max_use
             w == Finger(Len(log) + 1, Hash[k])
  <1>1. /\ r \in 1 .. Len(leaf) /\ m \in Pos
        /\ leaf' \in Seq(LeafSet) /\ Len(leaf') = Len(leaf)
        /\ \A n \in 1 .. Len(leaf) : n # r => leaf'[n] = leaf[n]
        /\ leaf'[r].max_use = m + 1
        /\ leaf'[r].slot = [leaf[r].slot EXCEPT ![m] = w]
        /\ Len(log') = Len(log) + 1
        /\ \A e \in 1 .. Len(log) : log'[e] = log[e]
        /\ log'[Len(log) + 1] = [key |-> k, val |-> Value(calls')]
    BY AppendEffect
  <1>2. /\ leaf[r].slot \in [Pos -> WordSet] /\ w.ptr = Len(log) + 1 /\ Len(log) \in Nat
        /\ \A n \in 1 .. Len(leaf) : leaf[n].max_use \in 0 .. MAX_LEAF_KEY
    BY <1>1, SlotFacts, TypeFacts DEF Finger
  <1>3. PlacesAre /\ PlacesAre'
    <2>1. TypeOK' => PlacesAre'
      BY PlaceFacts, PTL
    <2> QED BY <2>1, PlaceFacts
  <1>4. new = <<r, m>> /\ new[1] = r /\ new[2] = m
    OBVIOUS
  <1> HIDE DEF w, m, r
  <1>5. \A p \in Pos : leaf'[r].slot[p] = IF p = m THEN w ELSE leaf[r].slot[p]
    BY <1>1, <1>2
  <1>6. new \in Places'
    <2>1. m \in 0 .. leaf'[r].max_use - 1
      BY <1>1, Halves DEF Pos
    <2> QED BY <1>1, <1>3, <1>4, <2>1 DEF PlacesAre
  <1>7. new \notin Places
    <2> SUFFICES ASSUME new \in Places PROVE FALSE
      OBVIOUS
    <2>1. new[2] \in 0 .. leaf[new[1]].max_use - 1
      BY <1>3 DEF PlacesAre
    <2>2. m \in 0 .. m - 1 /\ m \in Nat
      BY <1>1, <1>4, <2>1 DEF m, Pos
    <2> QED BY ONLY <2>2
  <1>8. ASSUME NEW a \in Places
        PROVE  /\ a \in Places' /\ SlotAt(a)' = SlotAt(a)
               /\ SlotAt(a).ptr \in 1 .. Len(log) /\ RecordAt(a)' = RecordAt(a)
    <2>1. /\ a[1] \in 1 .. Len(leaf) /\ a[2] \in 0 .. leaf[a[1]].max_use - 1
          /\ a[2] \in Pos /\ a = <<a[1], a[2]>>
      BY <1>3 DEF PlacesAre
    <2>2. a[2] \in 0 .. leaf'[a[1]].max_use - 1 /\ ~(a[1] = r /\ a[2] = m)
      <3>1. a[1] = r => a[2] \in 0 .. m - 1 /\ m \in Nat
        BY <1>1, <2>1 DEF m, Pos
      <3> QED BY <1>1, <2>1, <3>1
    <2>3. a \in Places'
      BY <1>1, <1>3, <2>1, <2>2 DEF PlacesAre
    <2>4. SlotAt(a)' = SlotAt(a)
      BY <1>1, <1>5, <2>1, <2>2 DEF SlotAt
    <2>5. SlotAt(a).ptr \in 1 .. Len(log)
      <3>1. leaf[a[1]].slot[a[2]].ptr # 0 /\ leaf[a[1]].slot[a[2]].ptr \in 0 .. Len(log)
        BY <2>1, SlotFacts
      <3> QED BY <1>2, <3>1 DEF SlotAt
    <2> QED BY <1>1, <2>3, <2>4, <2>5 DEF RecordAt
  <1>9. ASSUME NEW a \in Places', a # new PROVE a \in Places
    <2>1. /\ a[1] \in 1 .. Len(leaf) /\ a[2] \in 0 .. leaf'[a[1]].max_use - 1
          /\ a[2] \in Pos /\ a = <<a[1], a[2]>>
      BY <1>1, <1>3 DEF PlacesAre
    <2>2. a[2] \in 0 .. leaf[a[1]].max_use - 1
      <3>1. CASE a[1] = r
        <4>1. a[2] # m
          BY <1>4, <1>9, <2>1, <3>1
        <4>2. a[2] \in 0 .. m /\ m \in Nat
          BY <1>1, <2>1, <3>1 DEF Pos
        <4> QED BY <3>1, <4>1, <4>2 DEF m
      <3> QED BY <1>1, <2>1, <3>1
    <2> QED BY <1>3, <2>1, <2>2 DEF PlacesAre
  <1>10. SlotAt(new)' = w
    <2>1. SlotAt(new)' = leaf'[r].slot[m]
      BY <1>4 DEF SlotAt
    <2> QED BY <1>1, <1>5, <2>1
  <1>11. RecordAt(new)' = [key |-> k, val |-> Value(calls')]
    BY <1>1, <1>2, <1>10 DEF RecordAt
  <1>12. Places' = Places \cup {new}
    BY <1>6, <1>8, <1>9
  <1> QED BY <1>6, <1>7, <1>8, <1>10, <1>11, <1>12 DEF r, m, w

(* No two fingers in use lead to the same record: every action but an      *)
(* append takes the fingers from different slots in use, and an append     *)
(* writes a new record.                                                    *)
LEMMA OwnedNext ==
  ASSUME TypeOK, TypeOK', RecordsOwnedOnce, [Next]_vars
  PROVE  RecordsOwnedOnce'
  <1>1. \A a, b \in Places : SlotAt(a).ptr = SlotAt(b).ptr => a = b
    BY DEF RecordsOwnedOnce
  <1>2. ASSUME SameSlots PROVE RecordsOwnedOnce'
    BY <1>1, <1>2, SamePlaces DEF RecordsOwnedOnce
  <1>3. ASSUME leaf' = leaf PROVE SameSlots
    BY <1>3 DEF TypeOK, SameSlots
  <1>4. ASSUME NEW k \in Key, InsertAppend(k) PROVE RecordsOwnedOnce'
    <2>0. PICK new : new = <<Route(k), leaf[Route(k)].max_use>>
      OBVIOUS
    <2>1. /\ Places' = Places \cup {new}
          /\ SlotAt(new)' = Finger(Len(log) + 1, Hash[k])
          /\ \A a \in Places : /\ SlotAt(a)' = SlotAt(a)
                               /\ SlotAt(a).ptr \in 1 .. Len(log)
      BY <1>4, <2>0, AppendPlaces
    <2>2. SlotAt(new)'.ptr = Len(log) + 1 /\ Len(log) \in Nat
      BY <2>1, TypeFacts DEF Finger
    <2> SUFFICES ASSUME NEW a \in Places', NEW b \in Places', SlotAt(a)'.ptr = SlotAt(b)'.ptr
                 PROVE  a = b
      BY DEF RecordsOwnedOnce
    <2>3. ASSUME NEW c \in Places PROVE SlotAt(c)'.ptr # Len(log) + 1
      <3>1. SlotAt(c)'.ptr \in 1 .. Len(log)
        BY <2>1
      <3> QED BY <2>2, <3>1
    <2> QED BY <1>1, <2>1, <2>2, <2>3
  <1>5. ASSUME NEW k \in Key, InsertSplit(k) PROVE RecordsOwnedOnce'
    <2>1. PICK O, y : SplitOrigin(O, Route(k), y)
      BY <1>5, SplitOrigins
    <2>2. /\ \A a \in Places' : O[a] \in Places /\ SlotAt(a)'.ptr = SlotAt(O[a]).ptr
          /\ \A a, b \in Places' : O[a] = O[b] => a = b
      BY <2>1 DEF SplitOrigin
    <2> QED BY <1>1, <2>2 DEF RecordsOwnedOnce
  <1>6. ASSUME NEW k \in Key, SimplyRemove(k), leaf' # leaf PROVE RecordsOwnedOnce'
    <2> DEFINE r == Route(k)
               m == leaf[r].max_use - 1
    <2>1. /\ r \in 1 .. Len(leaf) /\ leaf' \in Seq(LeafSet) /\ Len(leaf') = Len(leaf)
          /\ \A n \in 1 .. Len(leaf) : n # r => leaf'[n] = leaf[n]
          /\ \/ leaf'[r] = leaf[r]
             \/ \E i \in 0 .. m :
                   /\ leaf'[r].max_use = leaf[r].max_use - 1
                   /\ leaf'[r].slot = [leaf[r].slot EXCEPT ![i] = leaf[r].slot[m]]
      BY <1>6, RemoveEffect
    <2>2. PICK i \in 0 .. m :
                   /\ leaf'[r].max_use = leaf[r].max_use - 1
                   /\ leaf'[r].slot = [leaf[r].slot EXCEPT ![i] = leaf[r].slot[m]]
      <3>1. leaf \in Seq(LeafSet)
        BY DEF TypeOK
      <3>2. leaf'[r] # leaf[r]
        <4> HIDE DEF r
        <4> SUFFICES ASSUME leaf'[r] = leaf[r] PROVE FALSE
          OBVIOUS
        <4>1. \A n \in 1 .. Len(leaf) : leaf'[n] = leaf[n]
          BY <2>1
        <4> QED BY <1>6, <2>1, <3>1, <4>1, SeqEqual
      <3> QED BY <2>1, <3>2
    <2>3. PlacesAre /\ PlacesAre'
      <3>1. TypeOK' => PlacesAre'
        BY PlaceFacts, PTL
      <3> QED BY <3>1, PlaceFacts
    <2>4. leaf[r].slot \in [Pos -> WordSet] /\ leaf[r].max_use \in 0 .. MAX_LEAF_KEY
      BY <2>1, SlotFacts
    <2> DEFINE O == [a \in Places' |-> IF a = <<r, i>> THEN <<r, m>> ELSE a]
    <2> HIDE DEF r
    <2>5. m \in 0 .. leaf[r].max_use - 1 /\ m \in Nat /\ m \in Pos
      <3>1. leaf[r].max_use \in 0 .. MAX_LEAF_KEY /\ MAX_LEAF_KEY \in Nat /\ i \in 0 .. leaf[r].max_use - 1
        BY <2>2, <2>4, Halves
      <3> QED BY ONLY <3>1 DEF Pos, m
    <2>6. \A p \in Pos : leaf'[r].slot[p] = IF p = i THEN leaf[r].slot[m] ELSE leaf[r].slot[p]
      BY <2>2, <2>4
    <2>7. \A a \in Places' : O[a] = IF a = <<r, i>> THEN <<r, m>> ELSE a
      OBVIOUS
    <2>8. \A a \in Places' : /\ a[1] \in 1 .. Len(leaf) /\ a[2] \in Pos /\ a = <<a[1], a[2]>>
                             /\ a[1] = r => a[2] \in 0 .. m - 1
                             /\ a[2] \in 0 .. leaf[a[1]].max_use - 1
      <3> TAKE a \in Places'
      <3>1. /\ a[1] \in 1 .. Len(leaf) /\ a[2] \in Pos /\ a = <<a[1], a[2]>>
            /\ a[2] \in 0 .. leaf'[a[1]].max_use - 1
        BY <2>1, <2>3 DEF PlacesAre
      <3> QED BY <2>1, <2>2, <2>4, <3>1
    <2> HIDE DEF O, m
    <2>9. ASSUME NEW a \in Places' PROVE O[a] \in Places /\ SlotAt(a)'.ptr = SlotAt(O[a]).ptr
      <3>1. CASE a = <<r, i>>
        <4>1. O[a] = <<r, m>> /\ <<r, m>> \in Places
          BY <2>1, <2>3, <2>5, <2>7, <3>1 DEF PlacesAre
        <4>2. SlotAt(a)' = leaf'[r].slot[i] /\ SlotAt(<<r, m>>) = leaf[r].slot[m]
          BY <3>1 DEF SlotAt
        <4>3. i \in Pos
          BY <2>8, <3>1
        <4> QED BY <2>6, <4>1, <4>2, <4>3
      <3>2. CASE a # <<r, i>>
        <4>1. O[a] = a /\ a \in Places
          BY <2>3, <2>7, <2>8, <3>2 DEF PlacesAre
        <4>2. leaf'[a[1]].slot[a[2]] = leaf[a[1]].slot[a[2]]
          <5>1. a[1] = r => a[2] # i
            BY <2>8, <3>2
          <5> QED BY <2>1, <2>6, <2>8, <5>1
        <4> QED BY <4>1, <4>2 DEF SlotAt
      <3> QED BY <3>1, <3>2
    <2>10. ASSUME NEW a \in Places', NEW b \in Places', O[a] = O[b] PROVE a = b
      <3>1. <<r, m>> \notin Places'
        <4> SUFFICES ASSUME <<r, m>> \in Places' PROVE FALSE
          OBVIOUS
        <4>1. <<r, m>>[1] = r /\ <<r, m>>[2] = m
          OBVIOUS
        <4>2. m \in 0 .. m - 1
          BY <2>8, <4>1
        <4> QED BY <2>5, <4>2
      <3> QED BY <2>7, <2>10, <3>1
    <2> QED BY <1>1, <2>9, <2>10 DEF RecordsOwnedOnce
  <1>7. ASSUME NEW k \in Key, InsertDuplicate(k) \/ Find(k) PROVE SameSlots
    BY <1>7, DuplicateEffect, FindEffect
  <1>8. ASSUME NEW k \in Key, FindInRoot(k) \/ Scan(k) \/ Update(k) PROVE leaf' = leaf
    BY <1>8 DEF FindInRoot, Scan, Update
  <1>9. ASSUME UNCHANGED vars PROVE leaf' = leaf
    BY <1>9 DEF vars
  <1>10. \/ UNCHANGED vars
         \/ \E k \in Key : \/ InsertDuplicate(k) \/ Find(k)
                           \/ FindInRoot(k) \/ Scan(k) \/ Update(k)
                           \/ InsertAppend(k) \/ InsertSplit(k) \/ SimplyRemove(k)
    BY DEF Next, Done
  <1> QED BY <1>2, <1>3, <1>4, <1>5, <1>6, <1>7, <1>8, <1>9, <1>10

(* The records of the log belong to one finger in use each, whatever the   *)
(* splits, the updates and the removals do to the slots.                   *)
THEOREM OwnedOnce == Spec => []RecordsOwnedOnce
  <1>1. Init => RecordsOwnedOnce
    <2> SUFFICES ASSUME Init PROVE Places = {}
      BY DEF RecordsOwnedOnce
    <2>1. leaf = <<EmptyLeaf>> /\ EmptyLeaf.max_use = 0
      BY DEF Init, EmptyLeaf
    <2>2. DOMAIN leaf = {1} /\ \A p \in Pos : ~(p < 0)
      BY <2>1 DEF Pos
    <2> QED BY <2>1, <2>2 DEF Places
  <1>2. TypeOK /\ TypeOK' /\ RecordsOwnedOnce /\ [Next]_vars => RecordsOwnedOnce'
    BY OwnedNext
  <1> QED BY <1>1, <1>2, TypeCorrect, PTL DEF Spec

----------------------------------------------------------------------------
(* The way to the records, while the separators ascend.                    *)
LEMMA Routing ==
  ASSUME TypeOK, \A i, j \in DOMAIN sep : i < j => sep[i] < sep[j], NEW k \in Nat
  PROVE  /\ Between(Route(k), k)
         /\ \A n \in 1 .. Len(leaf) : Between(n, k) => n = Route(k)
  <1>1. /\ Len(leaf) \in Nat \ {0} /\ DOMAIN sep = 1 .. Len(leaf) - 1
        /\ \A n \in 1 .. Len(leaf) - 1 : sep[n] \in Nat
        /\ Route(k) \in 1 .. Len(leaf)
    BY TypeFacts
  <1>0. \A i, j \in 1 .. Len(leaf) - 1 : i < j => sep[i] < sep[j]
    BY <1>1
  <1>2. ASSUME NEW n \in 1 .. Len(leaf), Between(n, k) PROVE n = Route(k)
    <2>1. ASSUME NEW i \in 1 .. Len(leaf) - 1 PROVE sep[i] < k <=> i <= n - 1
      <3>1. CASE i <= n - 1
        <4>1. n - 1 \in 1 .. Len(leaf) - 1 /\ sep[n - 1] < k
          BY <1>1, <1>2, <3>1 DEF Between
        <4>2. i = n - 1 \/ sep[i] < sep[n - 1]
          <5>1. i = n - 1 \/ i < n - 1
            BY <1>1, <3>1
          <5> QED BY <1>0, <4>1, <5>1
        <4>3. sep[i] \in Nat /\ sep[n - 1] \in Nat
          BY <1>1, <4>1
        <4> QED BY ONLY <3>1, <4>1, <4>2, <4>3, k \in Nat
      <3>2. CASE ~(i <= n - 1)
        <4>1. n \in 1 .. Len(leaf) - 1 /\ k <= sep[n]
          BY <1>1, <1>2, <3>2 DEF Between
        <4>2. i = n \/ sep[n] < sep[i]
          <5>1. i = n \/ n < i
            BY <1>1, <3>2
          <5> QED BY <1>0, <4>1, <5>1
        <4>3. sep[i] \in Nat /\ sep[n] \in Nat
          BY <1>1, <4>1
        <4> QED BY ONLY <3>2, <4>1, <4>2, <4>3, k \in Nat
      <3> QED BY <3>1, <3>2
    <2>2. {i \in DOMAIN sep : sep[i] < k} = 1 .. n - 1
      <3>1. \A i \in 1 .. n - 1 : i \in 1 .. Len(leaf) - 1 /\ i <= n - 1
        BY <1>1
      <3>2. \A i \in 1 .. Len(leaf) - 1 : i <= n - 1 => i \in 1 .. n - 1
        BY <1>1
      <3> QED BY <1>1, <2>1, <3>1, <3>2
    <2>3. Cardinality(1 .. n - 1) = n - 1
      <3> DEFINE m == n - 1
      <3>1. m \in Nat /\ 1 \in Int
        BY <1>1
      <3> HIDE DEF m
      <3>2. Cardinality(1 .. m) = m
        BY <3>1, FS_Interval
      <3> QED BY <3>2 DEF m
    <2>4. Route(k) = 1 + Cardinality(1 .. n - 1)
      BY <2>2 DEF Route
    <2> QED BY <1>1, <2>3, <2>4
  <1>3. \E n \in 1 .. Len(leaf) : Between(n, k)
    <2> DEFINE S == {n \in 1 .. Len(leaf) : n < Len(leaf) => k <= sep[n]}
    <2>1. Len(leaf) \in S /\ S \in SUBSET Nat
      BY <1>1
    <2>2. PICK n \in S : \A m \in S : n <= m
      BY <2>1, LowestOf
    <2>3. ASSUME n > 1 PROVE sep[n - 1] < k
      <3>1. n - 1 \in 1 .. Len(leaf) - 1 /\ n - 1 \in 1 .. Len(leaf) /\ ~(n <= n - 1)
        BY <1>1, <2>3
      <3>2. ~(k <= sep[n - 1])
        BY <2>2, <3>1
      <3> QED BY <1>1, <3>1, <3>2
    <2> QED BY <2>2, <2>3 DEF Between
  <1> QED BY <1>2, <1>3

\* The parts of RecordsInv.
SepAscend == \A i, j \in DOMAIN sep : i < j => sep[i] < sep[j]
RecordsRight ==
  \A a \in Places : /\ RecordAt(a).key \in Key
                    /\ SlotAt(a).hash = Hash[RecordAt(a).key]
                    /\ Between(a[1], RecordAt(a).key)
                    /\ RecordAt(a).val = store[RecordAt(a).key] /\ RecordAt(a).val # 0
KeysOnce == \A a, b \in Places : RecordAt(a).key = RecordAt(b).key => a = b
AllStored == \A k \in Key : store[k] # 0 => \E a \in Places : RecordAt(a).key = k
RootFresh == RootIsLeaf => \A p \in Pos : p >= leaf[1].max_use => leaf[1].slot[p] = Junk

LEMMA RecordsParts ==
  RecordsInv <=> SepAscend /\ RecordsRight /\ KeysOnce /\ AllStored /\ RootFresh
  BY DEF RecordsInv, SepAscend, RecordsRight, KeysOnce, AllStored, RootFresh

(* A record that is stored is in the leaf that its key leads to.           *)
LEMMA Found ==
  ASSUME TypeOK, RecordsInv, NEW a \in Places
  PROVE  /\ a[1] = Route(RecordAt(a).key)
         /\ RecordAt(a).key = KeyAt(leaf[a[1]], a[2])
         /\ RecordAt(a).val = ValAt(leaf[a[1]], a[2])
  <1>1. RecordAt(a).key \in Nat /\ Between(a[1], RecordAt(a).key)
    BY KeyAssumption DEF RecordsInv
  <1>2. a[1] \in 1 .. Len(leaf)
    BY PlaceFacts DEF PlacesAre
  <1>3. \A i, j \in DOMAIN sep : i < j => sep[i] < sep[j]
    BY DEF RecordsInv
  <1>4. a[1] = Route(RecordAt(a).key)
    BY <1>1, <1>2, <1>3, Routing
  <1> QED BY <1>4 DEF RecordAt, SlotAt, KeyAt, ValAt

(* Every record is in one slot in use, of the leaf its key leads to.       *)
LEMMA OncePlaced == TypeOK /\ RecordsInv => StoredOnce
  <1> SUFFICES ASSUME TypeOK, RecordsInv, NEW k \in Key
               PROVE  Cardinality({a \in Places : /\ RecordAt(a).key = k
                                                  /\ RecordAt(a).val = store[k]
                                                  /\ a[1] = Route(k)})
                      = IF store[k] = 0 THEN 0 ELSE 1
    BY DEF StoredOnce
  <1> DEFINE S == {a \in Places : /\ RecordAt(a).key = k /\ RecordAt(a).val = store[k]
                                  /\ a[1] = Route(k)}
  <1>1. CASE store[k] = 0
    <2>1. \A a \in Places : RecordAt(a).val # 0
      BY DEF RecordsInv
    <2>2. S = {}
      BY <1>1, <2>1
    <2> QED BY <1>1, <2>2, FS_EmptySet
  <1>2. CASE store[k] # 0
    <2>1. PICK a \in Places : RecordAt(a).key = k
      BY <1>2 DEF RecordsInv
    <2>2. a[1] = Route(k) /\ RecordAt(a).val = store[k]
      BY <2>1, Found DEF RecordsInv
    <2>3. \A b \in Places : RecordAt(b).key = k => b = a
      BY <2>1 DEF RecordsInv
    <2>4. S = {a}
      BY <2>1, <2>2, <2>3
    <2>5. Cardinality({a}) = 1
      BY FS_Singleton
    <2> HIDE DEF S
    <2>6. Cardinality(S) = 1
      BY <2>4, <2>5
    <2> QED BY <1>2, <2>6 DEF S
  <1> QED BY <1>1, <1>2

(* What the search of insert finds, and what the search of find finds.     *)
LEMMA DuplicateIsStored ==
  ASSUME TypeOK, RecordsInv, CachedPairsAreRight, NEW k \in Key
  PROVE  /\ HasDuplicate(leaf[Route(k)], k) <=> store[k] # 0
         /\ \A i \in Live(leaf[Route(k)]) :
               FindHit(leaf[Route(k)], i, k) <=> KeyAt(leaf[Route(k)], i) = k
         /\ \A i \in Live(leaf[Route(k)]) :
               KeyAt(leaf[Route(k)], i) = k => /\ ValAt(leaf[Route(k)], i) = store[k]
                                               /\ leaf[Route(k)].slot[i].hash = Hash[k]
         /\ store[k] # 0 => \E i \in Live(leaf[Route(k)]) : KeyAt(leaf[Route(k)], i) = k
         /\ store[k] = 0 => \A i \in Live(leaf[Route(k)]) : KeyAt(leaf[Route(k)], i) # k
  <1> DEFINE r == Route(k)
             l == leaf[r]
  <1>1. /\ r \in 1 .. Len(leaf) /\ r \in DOMAIN leaf
        /\ \A i \in Live(l) : <<r, i>> \in Places
        /\ l.max_use \in 0 .. MAX_LEAF_KEY
    BY TypeFacts, PlaceFacts, SlotFacts DEF PlacesAre
  <1>2. ASSUME NEW i \in Live(l)
        PROVE  /\ KeyAt(l, i) \in Key /\ l.slot[i].hash = Hash[KeyAt(l, i)]
               /\ ValAt(l, i) = store[KeyAt(l, i)] /\ ValAt(l, i) # 0
    <2> DEFINE a == <<r, i>>
    <2>1. a \in Places /\ SlotAt(a) = l.slot[i]
      BY <1>1 DEF SlotAt
    <2>2. RecordAt(a).key = KeyAt(l, i) /\ RecordAt(a).val = ValAt(l, i)
      BY <2>1 DEF RecordAt, KeyAt, ValAt
    <2> HIDE DEF a, l
    <2> QED BY <2>1, <2>2 DEF RecordsInv
  <1>3. ASSUME NEW i \in Live(l), Cached(l, i)
        PROVE  l.slot[l.slot[i].control].val = KeyAt(l, i)
    BY <1>1, <1>3 DEF CachedPairsAreRight
  <1>4. \A i \in Live(l) : l.slot[i].control > l.max_use => Cached(l, i)
    <2> TAKE i \in Live(l)
    <2>1. l.slot[i] \in WordSet
      BY <1>1, SlotFacts
    <2>2. l.slot[i].control \in Nat /\ l.max_use \in Nat
      BY <1>1, <2>1, Halves DEF WordSet, Pos
    <2> QED BY <2>2 DEF Cached
  <1>5. store[k] # 0 => \E i \in Live(l) : KeyAt(l, i) = k
    <2> SUFFICES ASSUME store[k] # 0 PROVE \E i \in Live(l) : KeyAt(l, i) = k
      OBVIOUS
    <2>1. PICK a \in Places : RecordAt(a).key = k
      BY DEF RecordsInv
    <2>2. a[1] = r /\ KeyAt(leaf[a[1]], a[2]) = k
      BY <2>1, Found
    <2>3. a[2] \in Live(leaf[a[1]])
      BY PlaceFacts DEF PlacesAre
    <2> QED BY <2>2, <2>3
  <1>6. \A i \in Live(l) : FindHit(l, i, k) <=> KeyAt(l, i) = k
    BY <1>2, <1>3 DEF FindHit
  <1>7. HasDuplicate(l, k) <=> \E i \in Live(l) : KeyAt(l, i) = k
    BY <1>2, <1>3, <1>4 DEF HasDuplicate
  <1> HIDE DEF l
  <1> QED BY <1>2, <1>5, <1>6, <1>7 DEF l

----------------------------------------------------------------------------
(* Steps that leave the pairs and the records as they are.                 *)
LEMMA SameKeeps ==
  ASSUME TypeOK, TypeOK', RecordsInv, CachedPairsAreRight,
         SameSlots, sep' = sep, log' = log, store' = store,
         RootIsLeaf => leaf'[1].slot = leaf[1].slot
  PROVE  RecordsInv' /\ CachedPairsAreRight'
  <1>1. /\ Places' = Places /\ Len(leaf') = Len(leaf) /\ Len(leaf) \in Nat \ {0}
        /\ \A a \in Places : SlotAt(a)'.ptr = SlotAt(a).ptr /\ SlotAt(a)'.hash = SlotAt(a).hash
    BY SamePlaces, TypeFacts DEF SameSlots
  <1>2. \A a \in Places : RecordAt(a)' = RecordAt(a)
    BY <1>1 DEF RecordAt
  <1>3. \A a, k : Between(a, k)' <=> Between(a, k)
    BY <1>1 DEF Between
  <1>4. SepAscend /\ RecordsRight /\ KeysOnce /\ AllStored /\ RootFresh
    BY RecordsParts
  <1>5. SepAscend' /\ KeysOnce' /\ AllStored'
    BY <1>1, <1>2, <1>4 DEF SepAscend, KeysOnce, AllStored
  <1>6. RecordsRight'
    <2> SUFFICES ASSUME NEW a \in Places
                 PROVE  /\ RecordAt(a)'.key \in Key
                        /\ SlotAt(a)'.hash = Hash[RecordAt(a)'.key]
                        /\ Between(a[1], RecordAt(a).key)'
                        /\ RecordAt(a)'.val = store'[RecordAt(a)'.key] /\ RecordAt(a)'.val # 0
      BY <1>1 DEF RecordsRight
    <2>1. /\ RecordAt(a).key \in Key /\ SlotAt(a).hash = Hash[RecordAt(a).key]
          /\ Between(a[1], RecordAt(a).key)
          /\ RecordAt(a).val = store[RecordAt(a).key] /\ RecordAt(a).val # 0
      BY <1>4 DEF RecordsRight
    <2>2. Between(a[1], RecordAt(a).key)'
      BY <1>1, <1>2, <2>1 DEF Between
    <2> QED BY <1>1, <1>2, <2>1, <2>2
  <1>7. RootFresh'
    BY <1>1, <1>4 DEF RootFresh, RootIsLeaf, SameSlots
  <1>8. RecordsInv'
    <2>1. RecordsInv' <=> SepAscend' /\ RecordsRight' /\ KeysOnce' /\ AllStored' /\ RootFresh'
      BY RecordsParts, PTL
    <2> QED BY <1>5, <1>6, <1>7, <2>1
  <1>9. CachedPairsAreRight'
    <2>1. DOMAIN leaf' = 1 .. Len(leaf)
      <3>1. leaf' \in Seq(LeafSet)
        BY DEF SameSlots
      <3> QED BY <1>1, <3>1, LenProperties
    <2> SUFFICES ASSUME NEW n \in 1 .. Len(leaf), NEW i \in Live(leaf[n]), Cached(leaf'[n], i)
                 PROVE  LET l == leaf'[n] IN
                        /\ l.slot[i].control + 1 \in Pos
                        /\ l.slot[l.slot[i].control].val = log[l.slot[i].ptr].key
                        /\ l.slot[l.slot[i].control + 1].val = log[l.slot[i].ptr].val
      BY <2>1 DEF CachedPairsAreRight, KeyAt, ValAt, SameSlots
    <2>2. i \in Pos /\ leaf[n].slot[i] \in WordSet /\ n \in DOMAIN leaf
      BY SlotFacts, TypeFacts
    <2>3. leaf'[n].slot[i].control = leaf[n].slot[i].control
          /\ leaf'[n].slot[i].ptr = leaf[n].slot[i].ptr
          /\ leaf'[n].max_use = leaf[n].max_use
      BY <2>2 DEF SameSlots
    <2>4. Cached(leaf[n], i) /\ leaf[n].slot[i].control \in Pos
      BY <2>2, <2>3 DEF Cached, WordSet
    <2>5. /\ leaf[n].slot[i].control + 1 \in Pos
          /\ leaf[n].slot[leaf[n].slot[i].control].val = KeyAt(leaf[n], i)
          /\ leaf[n].slot[leaf[n].slot[i].control + 1].val = ValAt(leaf[n], i)
      BY <2>2, <2>4 DEF CachedPairsAreRight
    <2>6. leaf[n].slot[i].control \in Pos /\ leaf[n].slot[i].control + 1 \in Pos
      BY <2>4, <2>5
    <2>7. /\ leaf'[n].slot[leaf[n].slot[i].control].val = leaf[n].slot[leaf[n].slot[i].control].val
          /\ leaf'[n].slot[leaf[n].slot[i].control + 1].val = leaf[n].slot[leaf[n].slot[i].control + 1].val
      BY <2>6 DEF SameSlots
    <2> QED BY ONLY <2>3, <2>5, <2>7 DEF KeyAt, ValAt
  <1> QED BY <1>8, <1>9

(* A new record: the first free slot is overwritten, which no pair that    *)
(* will still be believed uses.                                            *)
LEMMA AppendKeeps ==
  ASSUME TypeOK, TypeOK', RecordsInv, CachedPairsAreRight, NEW k \in Key, InsertAppend(k)
  PROVE  RecordsInv' /\ CachedPairsAreRight'
  <1>0. PICK new : new = <<Route(k), leaf[Route(k)].max_use>>
    OBVIOUS
  <1> DEFINE r == Route(k)
             m == leaf[r].max_use
             w == Finger(Len(log) + 1, Hash[k])
  <1>1. /\ new \in Places' /\ new \notin Places /\ Places' = Places \cup {new}
        /\ SlotAt(new)' = w
        /\ \A a \in Places : /\ SlotAt(a)' = SlotAt(a)
                             /\ SlotAt(a).ptr \in 1 .. Len(log)
                             /\ RecordAt(a)' = RecordAt(a)
        /\ RecordAt(new)' = [key |-> k, val |-> Value(calls')]
    BY <1>0, AppendPlaces
  <1>2. /\ r \in 1 .. Len(leaf) /\ m \in Pos
        /\ leaf' \in Seq(LeafSet) /\ Len(leaf') = Len(leaf)
        /\ \A n \in 1 .. Len(leaf) : n # r => leaf'[n] = leaf[n]
        /\ leaf'[r].max_use = m + 1
        /\ leaf'[r].slot = [leaf[r].slot EXCEPT ![m] = w]
        /\ log' \in Seq(RecordSet) /\ Len(log') = Len(log) + 1
        /\ \A e \in 1 .. Len(log) : log'[e] = log[e]
        /\ log'[Len(log) + 1] = [key |-> k, val |-> Value(calls')]
        /\ Value(calls') # 0
    BY AppendEffect
  <1>3. /\ SepAscend /\ RecordsRight /\ KeysOnce /\ AllStored /\ RootFresh
        /\ sep' = sep /\ ~HasDuplicate(leaf[r], k)
        /\ store' = [store EXCEPT ![k] = Value(calls')]
        /\ store \in [Key -> Nat]
    BY RecordsParts DEF InsertAppend, AppendRecord, TypeOK
  <1>4. store[k] = 0
    BY <1>3, DuplicateIsStored
  <1>5. \A a \in Places : RecordAt(a).key # k
    <2> TAKE a \in Places
    <2>1. RecordAt(a).val = store[RecordAt(a).key] /\ RecordAt(a).val # 0
      BY <1>3 DEF RecordsRight
    <2> QED BY <1>4, <2>1
  <1>6. SepAscend'
    BY <1>3 DEF SepAscend
  <1>7. \A n, x : Between(n, x)' <=> Between(n, x)
    BY <1>2, <1>3 DEF Between
  <1>8. new[1] = r /\ w.hash = Hash[k] /\ w.control = 0
    BY <1>0 DEF Finger
  <1> HIDE DEF w, m, r
  <1>9. RecordsRight'
    <2> SUFFICES ASSUME NEW a \in Places'
                 PROVE  /\ RecordAt(a)'.key \in Key
                        /\ SlotAt(a)'.hash = Hash[RecordAt(a)'.key]
                        /\ Between(a[1], RecordAt(a).key)'
                        /\ RecordAt(a)'.val = store'[RecordAt(a)'.key] /\ RecordAt(a)'.val # 0
      BY DEF RecordsRight
    <2>1. CASE a = new
      <3>1. Between(r, k)
        <4>1. k \in Nat
          BY KeyAssumption
        <4> QED BY <1>3, <4>1, Routing DEF SepAscend, r
      <3>2. RecordAt(a)'.key = k /\ RecordAt(a)'.val = Value(calls')
        BY <1>1, <2>1
      <3>3. Between(a[1], RecordAt(a).key)'
        BY <1>7, <1>8, <2>1, <3>1, <3>2 DEF Between
      <3> QED BY <1>1, <1>2, <1>3, <1>8, <2>1, <3>2, <3>3
    <2>2. CASE a # new
      <3>1. a \in Places
        BY <1>1, <2>2
      <3>2. /\ RecordAt(a).key \in Key /\ SlotAt(a).hash = Hash[RecordAt(a).key]
            /\ Between(a[1], RecordAt(a).key) /\ RecordAt(a).key # k
            /\ RecordAt(a).val = store[RecordAt(a).key] /\ RecordAt(a).val # 0
        BY <1>3, <1>5, <3>1 DEF RecordsRight
      <3>3. Between(a[1], RecordAt(a).key)'
        BY <1>1, <1>2, <1>3, <3>1, <3>2 DEF Between
      <3> QED BY <1>1, <1>3, <3>1, <3>2, <3>3
    <2> QED BY <2>1, <2>2
  <1>10. KeysOnce'
    BY <1>1, <1>3, <1>5 DEF KeysOnce
  <1>11. AllStored'
    <2> SUFFICES ASSUME NEW x \in Key, store'[x] # 0
                 PROVE  \E a \in Places' : RecordAt(a)'.key = x
      BY DEF AllStored
    <2>1. CASE x = k
      BY <1>1, <2>1
    <2>2. CASE x # k
      <3>1. PICK a \in Places : RecordAt(a).key = x
        BY <1>3, <2>2 DEF AllStored
      <3> QED BY <1>1, <3>1
    <2> QED BY <2>1, <2>2
  <1>12. /\ leaf[r].slot \in [Pos -> WordSet] /\ m \in Nat
         /\ \A p \in Pos : leaf'[r].slot[p] = IF p = m THEN w ELSE leaf[r].slot[p]
    <2>1. leaf[r].slot \in [Pos -> WordSet]
      BY <1>2, SlotFacts
    <2>2. m \in Nat
      BY <1>2 DEF Pos
    <2> QED BY <1>2, <2>1, <2>2
  <1>13. RootFresh'
    <2> SUFFICES ASSUME Len(leaf) = 1, NEW p \in Pos, p >= leaf'[1].max_use
                 PROVE  leaf'[1].slot[p] = Junk
      BY <1>2 DEF RootFresh, RootIsLeaf
    <2>1. r = 1 /\ p \in Nat
      BY <1>2 DEF Pos
    <2>2. p >= m /\ p # m
      BY <1>2, <1>12, <2>1
    <2> QED BY <1>3, <1>12, <2>1, <2>2 DEF RootFresh, RootIsLeaf, m
  <1>14. RecordsInv'
    <2>1. RecordsInv' <=> SepAscend' /\ RecordsRight' /\ KeysOnce' /\ AllStored' /\ RootFresh'
      BY RecordsParts, PTL
    <2> QED BY <1>6, <1>9, <1>10, <1>11, <1>13, <2>1
  <1>15. CachedPairsAreRight'
    <2>1. DOMAIN leaf' = 1 .. Len(leaf)
      BY <1>2, LenProperties
    <2> SUFFICES ASSUME NEW n \in 1 .. Len(leaf), NEW i \in Live(leaf'[n]), Cached(leaf'[n], i)
                 PROVE  LET l == leaf'[n] IN
                        /\ l.slot[i].control + 1 \in Pos
                        /\ l.slot[l.slot[i].control].val = log'[l.slot[i].ptr].key
                        /\ l.slot[l.slot[i].control + 1].val = log'[l.slot[i].ptr].val
      BY <2>1 DEF CachedPairsAreRight, KeyAt, ValAt
    <2>2. leaf'[n].slot[i].control >= leaf'[n].max_use
      BY DEF Cached
    <2>3. ~(n = r /\ i = m)
      <3> SUFFICES ASSUME n = r, i = m PROVE FALSE
        OBVIOUS
      <3>1. leaf'[n].slot[i].control = 0 /\ leaf'[n].max_use = m + 1
        BY <1>2, <1>8, <1>12
      <3> QED BY <1>12, <2>2, <3>1
    <2>4. i \in 0 .. leaf[n].max_use - 1
      <3>1. CASE n = r
        <4>1. i \in 0 .. m /\ i # m
          BY <1>2, <1>12, <2>3, <3>1
        <4> QED BY <1>12, <3>1, <4>1 DEF m
      <3> QED BY <1>2, <3>1
    <2>5. i \in Pos /\ leaf[n].slot[i] \in WordSet /\ leaf[n].slot[i].ptr \in 1 .. Len(log)
      <3>1. Len(log) \in Nat
        BY TypeFacts
      <3>2. /\ i \in Pos /\ leaf[n].slot[i] \in WordSet /\ leaf[n].slot[i].ptr # 0
            /\ leaf[n].slot[i].ptr \in 0 .. Len(log)
        BY <2>4, SlotFacts
      <3> QED BY <3>1, <3>2
    <2>6. leaf'[n].slot[i] = leaf[n].slot[i]
      BY <1>2, <1>12, <2>3, <2>5
    <2> DEFINE c == leaf[n].slot[i].control
    <2>7. c \in Pos /\ c \in Nat /\ c >= leaf[n].max_use /\ (n = r => c > m)
      <3>1. c \in Pos /\ c \in Nat
        BY <2>5 DEF WordSet, Pos
      <3>2. c >= leaf'[n].max_use
        BY <2>2, <2>6
      <3>3. n = r => c > m
        BY <1>2, <1>12, <3>1, <3>2
      <3>4. n = r => c >= leaf[n].max_use
        BY <1>12, <3>1, <3>3 DEF m
      <3> QED BY <1>2, <3>1, <3>2, <3>3, <3>4
    <2>8. Cached(leaf[n], i) /\ n \in DOMAIN leaf
      BY <2>7, TypeFacts DEF Cached
    <2>9. /\ c + 1 \in Pos
          /\ leaf[n].slot[c].val = KeyAt(leaf[n], i)
          /\ leaf[n].slot[c + 1].val = ValAt(leaf[n], i)
      BY <2>4, <2>8 DEF CachedPairsAreRight
    <2> HIDE DEF c
    <2>10. leaf'[n].slot[c] = leaf[n].slot[c] /\ leaf'[n].slot[c + 1] = leaf[n].slot[c + 1]
      <3>1. n = r => c # m /\ c + 1 # m
        BY <1>12, <2>7
      <3> QED BY <1>2, <1>12, <2>7, <2>9, <3>1
    <2>11. leaf'[n].slot[i].control = c
      BY <2>6 DEF c
    <2> QED BY <1>2, <2>5, <2>6, <2>9, <2>10, <2>11 DEF KeyAt, ValAt
  <1> QED BY <1>14, <1>15

(* A split: the new separator falls between the records of the two halves, *)
(* and the pairs that are believed are those just written.                 *)
LEMMA SplitKeeps ==
  ASSUME TypeOK, TypeOK', RecordsInv, CachedPairsAreRight, NEW k \in Key, InsertSplit(k)
  PROVE  RecordsInv' /\ CachedPairsAreRight'
  <1>0. PICK r : r = Route(k)
    OBVIOUS
  <1>1. PICK O, y : /\ r \in 1 .. Len(leaf) /\ Len(leaf') = Len(leaf) + 1
                    /\ \A n \in 1 .. r - 1 : leaf'[n] = leaf[n]
                    /\ \A n \in r + 2 .. Len(leaf) + 1 : leaf'[n] = leaf[n - 1]
                    /\ sep' = InsertAt(sep, r, y)
                    /\ \E a \in Places : a[1] = r /\ y = RecordAt(a).key
                    /\ \E a \in Places' : a[1] = r + 1
                    /\ SplitOrigin(O, r, y)
    BY <1>0, SplitOrigins
  <1>2. /\ \A a \in Places' :
              /\ O[a] \in Places
              /\ SlotAt(a)'.ptr = SlotAt(O[a]).ptr /\ SlotAt(a)'.hash = SlotAt(O[a]).hash
              /\ a[1] < r => O[a] = a
              /\ a[1] \in {r, r + 1} => O[a][1] = r
              /\ a[1] > r + 1 => O[a] = <<a[1] - 1, a[2]>>
              /\ a[1] = r => RecordAt(O[a]).key <= y
              /\ a[1] = r + 1 =>
                    \/ RecordAt(O[a]).key > y
                    \/ \E b \in Places : b # O[a] /\ RecordAt(b).key = RecordAt(O[a]).key
        /\ \A a, b \in Places' : O[a] = O[b] => a = b
        /\ \A b \in Places : \E a \in Places' : O[a] = b
    BY <1>1 DEF SplitOrigin
  <1>3. log' = log /\ store' = store
    BY DEF InsertSplit
  <1>4. SepAscend /\ RecordsRight /\ KeysOnce /\ AllStored
    BY RecordsParts
  <1>5. /\ Len(leaf) \in Nat /\ r \in Nat
        /\ sep \in Seq(Key \cup {0}) /\ Len(sep) = Len(leaf) - 1
        /\ DOMAIN sep = 1 .. Len(leaf) - 1
        /\ \A n \in 1 .. Len(leaf) - 1 : sep[n] \in Nat
    <2>1. sep \in Seq(Key \cup {0}) /\ Len(sep) = Len(leaf) - 1 /\ Len(leaf) \in Nat
      BY TypeFacts DEF TypeOK
    <2>2. r \in Nat
      BY <1>1, <2>1
    <2>3. DOMAIN sep = 1 .. Len(leaf) - 1 /\ \A n \in 1 .. Len(leaf) - 1 : sep[n] \in Key \cup {0}
      BY ONLY <2>1
    <2>4. \A n \in Key \cup {0} : n \in Nat
      BY KeyAssumption
    <2> QED BY ONLY <2>1, <2>2, <2>3, <2>4
  <1>6. \A a \in Places' : RecordAt(a)' = RecordAt(O[a])
    BY <1>2, <1>3 DEF RecordAt
  <1>7. \A a \in Places : /\ RecordAt(a).key \in Key /\ RecordAt(a).key \in Nat
                          /\ Between(a[1], RecordAt(a).key)
                          /\ a[1] \in 1 .. Len(leaf)
    BY <1>4, KeyAssumption, PlaceFacts DEF RecordsRight, PlacesAre
  <1>8. y \in Key /\ y \in Nat /\ (r > 1 => sep[r - 1] < y)
    BY <1>1, <1>7 DEF Between
  <1>9. /\ Len(sep') = Len(leaf) /\ DOMAIN sep' = 1 .. Len(leaf)
        /\ \A n \in 1 .. Len(leaf) : sep'[n] = IF n < r THEN sep[n]
                                               ELSE IF n = r THEN y ELSE sep[n - 1]
    <2>1. /\ sep' \in Seq(Key \cup {0}) /\ Len(sep') = Len(sep) + 1
          /\ \A n \in 1 .. Len(sep) + 1 : sep'[n] = IF n < r THEN sep[n]
                                                    ELSE IF n = r THEN y ELSE sep[n - 1]
      <3>1. r \in 1 .. Len(sep) + 1 /\ y \in Key \cup {0}
        BY <1>1, <1>5, <1>8
      <3>2. sep' = InsertAt(sep, r, y)
        BY <1>1
      <3>3. InsertAt(sep, r, y) \in Seq(Key \cup {0}) /\ Grown(InsertAt(sep, r, y), sep, r, y)
        BY <1>5, <3>1, Inserting
      <3> QED BY ONLY <3>2, <3>3 DEF Grown
    <2>2. DOMAIN sep' = 1 .. Len(sep')
      BY <2>1, LenProperties
    <2> QED BY <1>5, <2>1, <2>2
  <1>10. \A a \in Places' : a[1] = r + 1 => RecordAt(O[a]).key > y
    BY <1>2, <1>4 DEF KeysOnce
  <1>11. r < Len(leaf) => y < sep[r]
    <2> SUFFICES ASSUME r < Len(leaf) PROVE y < sep[r]
      OBVIOUS
    <2>1. PICK a \in Places' : a[1] = r + 1
      BY <1>1
    <2>2. O[a] \in Places /\ O[a][1] = r /\ RecordAt(O[a]).key > y
      BY <1>2, <1>10, <2>1
    <2>3. RecordAt(O[a]).key \in Nat /\ RecordAt(O[a]).key <= sep[r]
      BY <1>7, <2>2 DEF Between
    <2>4. sep[r] \in Nat
      BY <1>1, <1>5
    <2> QED BY <1>8, <2>2, <2>3, <2>4
  <1>12. SepAscend'
    <2>1. \A i, j \in 1 .. Len(leaf) - 1 : i < j => sep[i] < sep[j]
      BY <1>4, <1>5 DEF SepAscend
    <2>2. \A i \in 1 .. Len(leaf) - 1 : /\ i < r => sep[i] < y
                                        /\ i >= r => y < sep[i]
      <3> TAKE i \in 1 .. Len(leaf) - 1
      <3>1. i < r => sep[i] < y
        <4> SUFFICES ASSUME i < r PROVE sep[i] < y
          OBVIOUS
        <4>1. r - 1 \in 1 .. Len(leaf) - 1 /\ (i = r - 1 \/ i < r - 1) /\ r > 1
          BY <1>1, <1>5
        <4>2. sep[r - 1] < y /\ (i = r - 1 \/ sep[i] < sep[r - 1])
          BY <1>8, <2>1, <4>1
        <4>3. sep[r - 1] \in Nat /\ sep[i] \in Nat
          BY <1>5, <4>1
        <4> QED BY <1>8, <4>2, <4>3
      <3>2. i >= r => y < sep[i]
        <4> SUFFICES ASSUME i >= r PROVE y < sep[i]
          OBVIOUS
        <4>1. r \in 1 .. Len(leaf) - 1 /\ (i = r \/ r < i) /\ r < Len(leaf)
          BY <1>1, <1>5
        <4>2. y < sep[r] /\ (i = r \/ sep[r] < sep[i])
          BY <1>11, <2>1, <4>1
        <4>3. sep[r] \in Nat /\ sep[i] \in Nat
          BY <1>5, <4>1
        <4> QED BY <1>8, <4>2, <4>3
      <3> QED BY <3>1, <3>2
    <2> SUFFICES ASSUME NEW i \in 1 .. Len(leaf), NEW j \in 1 .. Len(leaf), i < j
                 PROVE  sep'[i] < sep'[j]
      BY <1>9 DEF SepAscend
    <2>3. CASE j < r
      <3>1. i \in 1 .. Len(leaf) - 1 /\ j \in 1 .. Len(leaf) - 1 /\ i < r
        BY <1>1, <1>5, <2>3
      <3> QED BY <1>9, <2>1, <2>3, <3>1
    <2>4. CASE j = r
      <3>1. i \in 1 .. Len(leaf) - 1 /\ i < r /\ ~(j < r)
        BY <1>1, <1>5, <2>4
      <3> QED BY <1>9, <2>2, <2>4, <3>1
    <2>5. CASE j > r
      <3>1. j - 1 \in 1 .. Len(leaf) - 1 /\ ~(j < r) /\ j # r /\ j - 1 >= r
        BY <1>1, <1>5, <2>5
      <3>2. CASE i < r
        <4>1. i \in 1 .. Len(leaf) - 1 /\ i < j - 1
          BY <1>1, <1>5, <3>1, <3>2
        <4> QED BY <1>9, <2>1, <3>1, <3>2, <4>1
      <3>3. CASE i = r
        BY <1>9, <2>2, <3>1, <3>3
      <3>4. CASE i > r
        <4>1. i - 1 \in 1 .. Len(leaf) - 1 /\ ~(i < r) /\ i # r /\ i - 1 < j - 1
          BY <1>1, <1>5, <3>1, <3>4
        <4> QED BY <1>9, <2>1, <3>1, <4>1
      <3> QED BY <1>5, <3>2, <3>3, <3>4
    <2> QED BY <1>5, <2>3, <2>4, <2>5
  <1>13. ASSUME NEW a \in Places' PROVE Between(a[1], RecordAt(a).key)'
    <2> DEFINE x == RecordAt(O[a]).key
               n == a[1]
    <2>1. n \in 1 .. Len(leaf) + 1
      <3>1. TypeOK' => PlacesAre'
        BY PlaceFacts, PTL
      <3> QED BY <1>1, <3>1 DEF PlacesAre
    <2>2. /\ O[a] \in Places /\ x \in Nat
          /\ O[a][1] > 1 => sep[O[a][1] - 1] < x
          /\ O[a][1] < Len(leaf) => x <= sep[O[a][1]]
      BY <1>2, <1>7 DEF Between
    <2>3. RecordAt(a)'.key = x
      BY <1>6
    <2>4. /\ n < r => O[a][1] = n
          /\ n \in {r, r + 1} => O[a][1] = r
          /\ n > r + 1 => O[a][1] = n - 1
      BY <1>2
    <2>5. (n = r => x <= y) /\ (n = r + 1 => x > y)
      BY <1>2, <1>10
    <2> HIDE DEF x, n
    <2> SUFFICES (n > 1 => sep'[n - 1] < x) /\ (n < Len(leaf) + 1 => x <= sep'[n])
      <3>1. Between(a[1], RecordAt(a).key)' <=>
              (n > 1 => sep'[n - 1] < x) /\ (n < Len(leaf) + 1 => x <= sep'[n])
        BY <1>1, <2>3 DEF Between, n
      <3> QED BY <3>1
    <2>6. n > 1 => n - 1 \in 1 .. Len(leaf)
      BY <1>5, <2>1
    <2>7. n < Len(leaf) + 1 => n \in 1 .. Len(leaf)
      BY <1>5, <2>1
    <2>8. CASE n < r
      <3>1. n < Len(leaf) /\ n - 1 < r
        BY <1>1, <1>5, <2>1, <2>8
      <3> QED BY <1>9, <2>2, <2>4, <2>6, <2>7, <2>8, <3>1
    <2>9. CASE n = r
      <3>1. n - 1 < r /\ ~(n < r)
        BY <1>5, <2>9
      <3> QED BY <1>9, <2>2, <2>4, <2>5, <2>6, <2>7, <2>9, <3>1
    <2>10. CASE n = r + 1
      <3>1. n - 1 = r /\ ~(n < r) /\ n # r /\ ~(r < r) /\ (n < Len(leaf) + 1 => r < Len(leaf))
        BY <1>5, <2>10
      <3>2. y < x
        BY <1>8, <2>2, <2>5, <2>10
      <3> QED BY <1>9, <2>2, <2>4, <2>6, <2>7, <2>10, <3>1, <3>2
    <2>11. CASE n > r + 1
      <3>1. /\ ~(n < r) /\ n # r /\ ~(n - 1 < r) /\ n - 1 # r
            /\ n - 1 > 1 /\ (n < Len(leaf) + 1 => n - 1 < Len(leaf))
        BY <1>1, <1>5, <2>1, <2>11
      <3> QED BY <1>9, <2>2, <2>4, <2>6, <2>7, <2>11, <3>1
    <2> QED BY <1>5, <2>1, <2>8, <2>9, <2>10, <2>11
  <1>14. RecordsRight'
    <2> SUFFICES ASSUME NEW a \in Places'
                 PROVE  /\ RecordAt(a)'.key \in Key
                        /\ SlotAt(a)'.hash = Hash[RecordAt(a)'.key]
                        /\ Between(a[1], RecordAt(a).key)'
                        /\ RecordAt(a)'.val = store'[RecordAt(a)'.key] /\ RecordAt(a)'.val # 0
      BY DEF RecordsRight
    <2> QED BY <1>2, <1>3, <1>4, <1>6, <1>13 DEF RecordsRight
  <1>15. KeysOnce'
    BY <1>2, <1>4, <1>6 DEF KeysOnce
  <1>16. AllStored'
    BY <1>2, <1>3, <1>4, <1>6 DEF AllStored
  <1>17. RootFresh'
    <2>1. Len(leaf') # 1
      BY <1>1, <1>5
    <2> QED BY <2>1 DEF RootFresh, RootIsLeaf
  <1>18. RecordsInv'
    <2>1. RecordsInv' <=> SepAscend' /\ RecordsRight' /\ KeysOnce' /\ AllStored' /\ RootFresh'
      BY RecordsParts, PTL
    <2> QED BY <1>12, <1>14, <1>15, <1>16, <1>17, <2>1
  <1>19. CachedPairsAreRight'
    <2>1. DOMAIN leaf' = 1 .. Len(leaf) + 1 /\ PlacesAre'
      <3>1. TypeOK' => PlacesAre'
        BY PlaceFacts, PTL
      <3>2. leaf' \in Seq(LeafSet)
        BY DEF TypeOK
      <3>3. DOMAIN leaf' = 1 .. Len(leaf')
        BY <3>2, LenProperties
      <3> QED BY <1>1, <3>1, <3>3
    <2> SUFFICES ASSUME NEW n \in 1 .. Len(leaf) + 1, NEW i \in Live(leaf'[n]),
                        Cached(leaf'[n], i)
                 PROVE  LET l == leaf'[n] IN
                        /\ l.slot[i].control + 1 \in Pos
                        /\ l.slot[l.slot[i].control].val = log[l.slot[i].ptr].key
                        /\ l.slot[l.slot[i].control + 1].val = log[l.slot[i].ptr].val
      BY <1>3, <2>1 DEF CachedPairsAreRight, KeyAt, ValAt
    <2>2. PICK a : a = <<n, i>>
      OBVIOUS
    <2>3. /\ a \in Places' /\ a[1] = n /\ SlotAt(a)' = leaf'[n].slot[i]
          /\ RecordAt(a)' = log[leaf'[n].slot[i].ptr]
      <3>1. a \in Places'
        BY <1>1, <2>1, <2>2 DEF PlacesAre
      <3>2. a[1] = n /\ a[2] = i
        BY <2>2
      <3> QED BY <1>3, <3>1, <3>2 DEF SlotAt, RecordAt
    <2>4. CASE n \in {r, r + 1}
      <3> DEFINE l == leaf'[n]
                 c == l.slot[i].control
      <3>1. /\ l.max_use = LEFT_KEY
            /\ \/ c = 0
               \/ /\ c \in LEFT_KEY .. MAX_LEAF_KEY - 2
                  /\ l.slot[c].val = RecordAt(O[a]).key
                  /\ l.slot[c + 1].val = RecordAt(O[a]).val
        <4>1. a[1] \in {r, r + 1} => LET h == leaf'[a[1]]
                                         d == SlotAt(a)'.control
                                     IN
                                     /\ h.max_use = LEFT_KEY
                                     /\ \/ d = 0
                                        \/ /\ d \in LEFT_KEY .. MAX_LEAF_KEY - 2
                                           /\ h.slot[d].val = RecordAt(O[a]).key
                                           /\ h.slot[d + 1].val = RecordAt(O[a]).val
          BY <1>1, <2>3 DEF SplitOrigin
        <4> QED BY ONLY <2>3, <2>4, <4>1
      <3>2. c >= LEFT_KEY
        BY <3>1 DEF Cached
      <3>3. RecordAt(O[a]) = log[l.slot[i].ptr]
        BY <1>6, <2>3
      <3> HIDE DEF c, l
      <3>4. /\ c \in LEFT_KEY .. MAX_LEAF_KEY - 2
            /\ l.slot[c].val = log[l.slot[i].ptr].key
            /\ l.slot[c + 1].val = log[l.slot[i].ptr].val
        BY <3>1, <3>2, <3>3, Halves
      <3>5. c + 1 \in Pos
        BY <3>4, Halves DEF Pos
      <3> QED BY <3>4, <3>5 DEF c, l
    <2>5. CASE n \notin {r, r + 1}
      <3>1. PICK j \in 1 .. Len(leaf) : leaf'[n] = leaf[j]
        <4>1. CASE n < r
          <5>1. n \in 1 .. r - 1 /\ n \in 1 .. Len(leaf)
            BY <1>1, <1>5, <4>1
          <5> QED BY <1>1, <5>1
        <4>2. CASE ~(n < r)
          <5>1. n \in r + 2 .. Len(leaf) + 1 /\ n - 1 \in 1 .. Len(leaf)
            BY <1>1, <1>5, <2>5, <4>2
          <5> QED BY <1>1, <5>1
        <4> QED BY <4>1, <4>2
      <3>2. j \in DOMAIN leaf
        BY TypeFacts
      <3> QED BY <3>1, <3>2 DEF CachedPairsAreRight, KeyAt, ValAt
    <2> QED BY <2>4, <2>5
  <1> QED BY <1>18, <1>19

----------------------------------------------------------------------------
\* update and remove are never called.
OnlyAdded == Calls \cap {"update", "remove"} = {}

\* A find has dereferenced the null pointer of a slot never used.
NullAnswer == answer.kind = "find" /\ answer.got = NullPointer

(* What a call returns, while update and simply_remove are not called.     *)
LEMMA AnswerStep ==
  ASSUME OnlyAdded, TypeOK, RecordsInv, CachedPairsAreRight, [Next]_vars
  PROVE  \/ answer' = answer
         \/ AnswersAreRight'
         \/ NullAnswer' /\ \E k \in Key : Hash[k] = 0
  <1>1. ASSUME NEW k \in Key, InsertDuplicate(k) PROVE AnswersAreRight'
    <2>1. answer' = [kind |-> "insert", key |-> k, got |-> FALSE, due |-> (store[k] = 0)]
      BY <1>1 DEF InsertDuplicate, Answer
    <2>2. store[k] # 0
      BY <1>1, DuplicateIsStored DEF InsertDuplicate
    <2> QED BY <2>1, <2>2 DEF AnswersAreRight
  <1>2. ASSUME NEW k \in Key, InsertAppend(k) PROVE AnswersAreRight'
    <2>1. answer' = [kind |-> "insert", key |-> k, got |-> TRUE, due |-> (store[k] = 0)]
      BY <1>2 DEF InsertAppend, AppendRecord, Answer
    <2>2. store[k] = 0
      BY <1>2, DuplicateIsStored DEF InsertAppend, AppendRecord
    <2> QED BY <2>1, <2>2 DEF AnswersAreRight
  <1>3. ASSUME NEW k \in Key, Find(k) PROVE AnswersAreRight'
    <2> DEFINE r == Route(k)
               l == leaf[r]
               i == FirstHit(l, k)
               got == IF Cached(l, i) THEN l.slot[l.slot[i].control + 1].val ELSE ValAt(l, i)
    <2>1. r \in 1 .. Len(leaf) /\ r \in DOMAIN leaf
      BY TypeFacts
    <2>2. CASE \E j \in Live(l) : FindHit(l, j, k)
      <3>1. answer' = [kind |-> "find", key |-> k, got |-> got, due |-> store[k]]
        BY <1>3, <2>2 DEF Find, Answer
      <3>2. i \in Live(l) /\ FindHit(l, i, k)
        <4> DEFINE S == {j \in Live(l) : FindHit(l, j, k)}
        <4>1. S # {} /\ S \in SUBSET Live(l)
          BY <2>2
        <4> HIDE DEF l, r
        <4>2. Min(S) \in S
          BY <2>1, <4>1, FirstOfLive DEF l
        <4> QED BY <4>2 DEF FirstHit
      <3> HIDE DEF i
      <3>3. ValAt(l, i) = store[k]
        BY <3>2, DuplicateIsStored
      <3>4. Cached(l, i) => l.slot[l.slot[i].control + 1].val = ValAt(l, i)
        BY <2>1, <3>2 DEF CachedPairsAreRight
      <3> QED BY <3>1, <3>3, <3>4 DEF AnswersAreRight
    <2>3. CASE ~ \E j \in Live(l) : FindHit(l, j, k)
      <3>1. answer' = [kind |-> "find", key |-> k, got |-> 0, due |-> store[k]]
        BY <1>3, <2>3 DEF Find, Answer
      <3>2. store[k] = 0
        BY <2>3, DuplicateIsStored
      <3> QED BY <3>1, <3>2 DEF AnswersAreRight
    <2> QED BY <2>2, <2>3
  <1>4. ASSUME NEW k \in Key, FindInRoot(k)
        PROVE  AnswersAreRight' \/ (NullAnswer' /\ Hash[k] = 0)
    <2> DEFINE l == leaf[1]
               Same == {i \in Pos : l.slot[i].hash = Hash[k]}
               Hit == {i \in Same : l.slot[i].ptr # 0 /\ KeyAt(l, i) = k}
    <2>1. /\ Len(leaf) = 1 /\ Route(k) = 1 /\ 1 \in DOMAIN leaf
          /\ l.max_use \in 0 .. MAX_LEAF_KEY
      <3>1. Len(leaf) = 1
        BY <1>4 DEF FindInRoot, RootIsLeaf
      <3> QED BY <3>1, TypeFacts, SlotFacts
    <2>2. ASSUME NEW i \in Pos, i \notin Live(l) PROVE l.slot[i] = Junk
      <3>1. i >= l.max_use
        BY <2>1, <2>2 DEF Pos
      <3> QED BY <2>1, <3>1 DEF RecordsInv, RootIsLeaf
    <2>3. Junk.ptr = 0 /\ Junk.hash = 0
      BY DEF Junk, Word
    <2>4. Hit \in SUBSET Live(l)
      BY <2>2, <2>3
    <2>5. \A i \in Live(l) : l.slot[i].ptr # 0 /\ i \in Pos
      BY <2>1, SlotFacts
    <2>6. CASE \E i \in Same : l.slot[i].ptr = 0 /\ answer'.got = NullPointer
                                                 /\ answer'.kind = "find"
      BY <2>2, <2>3, <2>5, <2>6 DEF NullAnswer
    <2>7. CASE Hit # {} /\ answer' = [kind |-> "find", key |-> k,
                                      got |-> ValAt(l, Min(Hit)), due |-> store[k]]
      <3> HIDE DEF Hit
      <3>1. Min(Hit) \in Hit
        BY <2>1, <2>4, <2>7, FirstOfLive
      <3>2. Min(Hit) \in Live(l) /\ KeyAt(l, Min(Hit)) = k
        BY <2>4, <3>1 DEF Hit
      <3>3. ValAt(l, Min(Hit)) = store[k]
        BY <2>1, <3>2, DuplicateIsStored
      <3> QED BY <2>7, <3>3 DEF AnswersAreRight
    <2>8. CASE /\ \A i \in Same : KeyAt(l, i) # k
               /\ answer' = [kind |-> "find", key |-> k, got |-> 0, due |-> store[k]]
      <3>1. store[k] = 0
        BY <2>1, <2>5, <2>8, DuplicateIsStored
      <3> QED BY <2>8, <3>1 DEF AnswersAreRight
    <2> QED BY <1>4, <2>6, <2>7, <2>8 DEF FindInRoot, Answer
  <1>5. ASSUME NEW k \in Key, Scan(k) PROVE AnswersAreRight'
    <2>1. answer'.kind = "scan"
      BY <1>5 DEF Scan, Answer
    <2> QED BY <2>1 DEF AnswersAreRight
  <1>6. ASSUME NEW k \in Key, Update(k) \/ SimplyRemove(k) PROVE FALSE
    BY <1>6 DEF Update, SimplyRemove, Call, OnlyAdded
  <1>7. ASSUME NEW k \in Key, InsertSplit(k) PROVE answer' = answer
    BY <1>7 DEF InsertSplit
  <1>8. ASSUME UNCHANGED vars PROVE answer' = answer
    BY <1>8 DEF vars
  <1>9. \/ UNCHANGED vars
        \/ \E k \in Key : \/ InsertDuplicate(k) \/ Find(k)
                          \/ FindInRoot(k) \/ Scan(k) \/ Update(k)
                          \/ InsertAppend(k) \/ InsertSplit(k) \/ SimplyRemove(k)
    BY DEF Next, Done
  <1> QED BY <1>1, <1>2, <1>3, <1>4, <1>5, <1>6, <1>7, <1>8, <1>9

LEMMA SlotsStart == Init => RecordsInv /\ CachedPairsAreRight /\ AnswersAreRight
  <1> SUFFICES ASSUME Init PROVE RecordsInv /\ CachedPairsAreRight /\ AnswersAreRight
    OBVIOUS
  <1>1. /\ leaf = <<EmptyLeaf>> /\ EmptyLeaf.max_use = 0 /\ sep = << >>
        /\ EmptyLeaf.slot = [p \in Pos |-> Junk] /\ store = [k \in Key |-> 0]
        /\ answer = [kind |-> "none", key |-> 0, got |-> 0, due |-> 0]
    BY DEF Init, EmptyLeaf
  <1>2. DOMAIN leaf = {1} /\ leaf[1] = EmptyLeaf /\ DOMAIN sep = {}
    BY <1>1
  <1>3. Places = {}
    <2>1. \A p \in Pos : ~(p < 0)
      BY DEF Pos
    <2> QED BY <1>1, <1>2, <2>1 DEF Places
  <1>4. RootFresh
    BY <1>1, <1>2 DEF RootFresh
  <1>5. SepAscend /\ RecordsRight /\ KeysOnce /\ AllStored
    BY <1>1, <1>2, <1>3 DEF SepAscend, RecordsRight, KeysOnce, AllStored
  <1>6. CachedPairsAreRight
    <2>1. \A n \in DOMAIN leaf : \A i \in Live(leaf[n]) : FALSE
      BY <1>1, <1>2
    <2> QED BY <2>1 DEF CachedPairsAreRight
  <1> QED BY <1>1, <1>4, <1>5, <1>6, RecordsParts DEF AnswersAreRight

LEMMA SlotsNext ==
  ASSUME OnlyAdded, TypeOK, TypeOK', RecordsInv, CachedPairsAreRight, [Next]_vars
  PROVE  RecordsInv' /\ CachedPairsAreRight'
  <1>1. ASSUME NEW k \in Key, InsertDuplicate(k) PROVE RecordsInv' /\ CachedPairsAreRight'
    <2>1. SameSlots /\ leaf'[1].slot = leaf[1].slot
      <3>1. 1 \in 1 .. Len(leaf)
        BY TypeFacts
      <3> QED BY <1>1, <3>1, DuplicateEffect
    <2>2. sep' = sep /\ log' = log /\ store' = store
      BY <1>1 DEF InsertDuplicate
    <2> QED BY <2>1, <2>2, SameKeeps
  <1>2. ASSUME NEW k \in Key, Find(k) PROVE RecordsInv' /\ CachedPairsAreRight'
    <2>1. ~RootIsLeaf /\ sep' = sep /\ log' = log /\ store' = store
      BY <1>2 DEF Find
    <2> QED BY <1>2, <2>1, FindEffect, SameKeeps
  <1>3. ASSUME UNCHANGED <<leaf, sep, log, store>> PROVE RecordsInv' /\ CachedPairsAreRight'
    <2>1. SameSlots
      BY <1>3 DEF SameSlots, TypeOK
    <2> QED BY <1>3, <2>1, SameKeeps
  <1>4. ASSUME NEW k \in Key, FindInRoot(k) \/ Scan(k)
        PROVE  UNCHANGED <<leaf, sep, log, store>>
    BY <1>4 DEF FindInRoot, Scan
  <1>5. ASSUME UNCHANGED vars PROVE UNCHANGED <<leaf, sep, log, store>>
    BY <1>5 DEF vars
  <1>6. ASSUME NEW k \in Key, Update(k) \/ SimplyRemove(k) PROVE FALSE
    BY <1>6 DEF Update, SimplyRemove, Call, OnlyAdded
  <1>7. ASSUME NEW k \in Key, InsertAppend(k) \/ InsertSplit(k)
        PROVE  RecordsInv' /\ CachedPairsAreRight'
    BY <1>7, AppendKeeps, SplitKeeps
  <1>8. \/ UNCHANGED vars
        \/ \E k \in Key : \/ InsertDuplicate(k) \/ Find(k)
                          \/ FindInRoot(k) \/ Scan(k) \/ Update(k)
                          \/ InsertAppend(k) \/ InsertSplit(k) \/ SimplyRemove(k)
    BY DEF Next, Done
  <1> QED BY <1>1, <1>2, <1>3, <1>4, <1>5, <1>6, <1>7, <1>8

(* While nothing is updated or removed, the inductive invariant holds.     *)
LEMMA SlotsInvariant ==
  ASSUME OnlyAdded
  PROVE  Spec => [](TypeOK /\ RecordsInv /\ CachedPairsAreRight)
  <1>1. TypeOK /\ TypeOK' /\ RecordsInv /\ CachedPairsAreRight /\ [Next]_vars
           => RecordsInv' /\ CachedPairsAreRight'
    BY OnlyAdded, SlotsNext
  <1>2. Init => RecordsInv /\ CachedPairsAreRight
    BY SlotsStart
  <1> QED BY <1>1, <1>2, TypeCorrect, PTL DEF Spec

(* A pair that find or insert would believe is the key and the value of    *)
(* its record: the fingers that come back into the upper half of a leaf    *)
(* raise max_use past the control field of the pair they overwrite.        *)
THEOREM CachedPairsRight ==
  ASSUME OnlyAdded
  PROVE  Spec => []CachedPairsAreRight
  BY OnlyAdded, SlotsInvariant, PTL

(* Every record is in exactly one slot in use, of the leaf its key leads   *)
(* to, through any number of splits.                                       *)
THEOREM RecordStoredOnce ==
  ASSUME OnlyAdded
  PROVE  Spec => []StoredOnce
  <1>1. TypeOK /\ RecordsInv => StoredOnce
    BY OncePlaced
  <1> QED BY <1>1, OnlyAdded, SlotsInvariant, PTL

(* Every call but a scan returns what it should, except that a find in a   *)
(* root leaf may dereference the null pointer of a slot never used.        *)
THEOREM AnswersRightOrNull ==
  ASSUME OnlyAdded
  PROVE  Spec => [](AnswersAreRight \/ NullAnswer)
  <1>1. TypeOK /\ RecordsInv /\ CachedPairsAreRight /\ [Next]_vars =>
           answer' = answer \/ AnswersAreRight' \/ NullAnswer'
    BY OnlyAdded, AnswerStep
  <1>2. answer' = answer /\ (AnswersAreRight \/ NullAnswer) => AnswersAreRight' \/ NullAnswer'
    BY DEF AnswersAreRight, NullAnswer
  <1>3. Init => AnswersAreRight
    BY SlotsStart
  <1> QED BY <1>1, <1>2, <1>3, OnlyAdded, SlotsInvariant, PTL DEF Spec

(* When no key has the hash byte 0 of a slot never used, every answer is   *)
(* right.                                                                  *)
THEOREM AnswersRight ==
  ASSUME OnlyAdded, \A k \in Key : Hash[k] # 0
  PROVE  Spec => []AnswersAreRight
  <1>1. TypeOK /\ RecordsInv /\ CachedPairsAreRight /\ [Next]_vars =>
           answer' = answer \/ AnswersAreRight'
    BY OnlyAdded, AnswerStep
  <1>2. answer' = answer /\ AnswersAreRight => AnswersAreRight'
    BY DEF AnswersAreRight
  <1>3. Init => AnswersAreRight
    BY SlotsStart
  <1> QED BY <1>1, <1>2, <1>3, OnlyAdded, SlotsInvariant, PTL DEF Spec

(* The invariant that the run checks is the one proved here.               *)
THEOREM SlotsInductive ==
  ASSUME OnlyAdded
  PROVE  Spec => []SlotsIInv
  <1>1. TypeOK /\ RecordsOwnedOnce /\ RecordsInv /\ CachedPairsAreRight
        /\ (AnswersAreRight \/ NullAnswer) => SlotsIInv
    BY DEF SlotsIInv, NullAnswer
  <1> QED BY <1>1, OnlyAdded, OwnedOnce, SlotsInvariant, AnswersRightOrNull, PTL

=============================================================================
