--------------------------- MODULE CatalogProofs ---------------------------
(***************************************************************************)
(* Theorems about Catalog: whatever the pipeline commits between the       *)
(* queries of a read, its answer places every fact and its gaps are not    *)
(* being researched; and a lookup is decided by the catalog, not by the    *)
(* order of its rows.                                                      *)
(***************************************************************************)
EXTENDS Catalog, TLAPS, FiniteSetTheorems, WellFoundedInduction, SequenceTheorems

-----------------------------------------------------------------------------
(* Confidence is a number                                                    *)

\* A nonempty set of natural numbers has a least one.
LEMMA LeastNatural ==
  ASSUME NEW N \in SUBSET Nat, N # {}
  PROVE  \E n \in N : \A m \in N : n <= m
<1> DEFINE Less == OpToRel(<, Nat)
<1>1. IsWellFoundedOn(Less, Nat)
  BY NatLessThanWellFounded
<1> HIDE DEF Less
<1>2. PICK a \in N : \A b \in N : <<b, a>> \notin Less
  BY ONLY <1>1, N \in SUBSET Nat, N # {}, WFMin
<1>3. \A b \in Nat : b < a => <<b, a>> \in Less
  BY <1>2 DEF Less, OpToRel
<1>4. \A b \in N : a <= b
  <2> TAKE b \in N
  <2>1. ~(b < a)
    BY <1>2, <1>3
  <2> QED
    BY <2>1
<1> QED
  BY <1>4

\* Scores lie between 0 and 100, so the best of a variant's is one of them.
LEMMA MaxOfScores ==
  ASSUME NEW S \in SUBSET (0..100), S # {}
  PROVE  Max(S) \in S
<1> DEFINE N == {100 - s : s \in S}
<1>1. N \in SUBSET Nat /\ N # {}
  <2>1. \A s \in S : 100 - s \in Nat
    OBVIOUS
  <2> QED
    BY <2>1
<1> HIDE DEF N
<1>2. PICK n \in N : \A m \in N : n <= m
  BY <1>1, LeastNatural
<1>3. PICK s \in S : n = 100 - s
  BY DEF N
<1>4. \A r \in S : s >= r
  <2> TAKE r \in S
  <2>1. 100 - r \in N /\ r \in 0..100 /\ s \in 0..100
    BY DEF N
  <2>2. 100 - s <= 100 - r
    BY <1>2, <1>3, <2>1
  <2> QED
    BY <2>1, <2>2
<1> QED
  BY <1>4 DEF Max

\* One step of a sum over a set: an element's value and the sum of the others.
OneMore(query, w, g, s) ==
    IF s = {} THEN 0
              ELSE LET x == CHOOSE i \in s : TRUE IN BestScore(query, w, x) + g[s \ {x}]

SumOver(query, w, S) == CHOOSE g : g = [s \in SUBSET S |-> OneMore(query, w, g, s)]

\* The sums of all subsets exist: smaller ones first.
LEMMA SumExists ==
  ASSUME NEW query, NEW w, NEW S, IsFiniteSet(S)
  PROVE  \E g : g = [s \in SUBSET S |-> OneMore(query, w, g, s)]
<1> DEFINE UpTo(n) == {s \in SUBSET S : Cardinality(s) <= n}
           Good(g, n) == \A s \in UpTo(n) : g[s] = OneMore(query, w, g, s)
           Bad == {n \in Nat : ~ \E g : Good(g, n)}
<1>0. \A s \in SUBSET S : IsFiniteSet(s) /\ Cardinality(s) \in Nat
  BY FS_Subset, FS_CardinalityType
<1>1. \A s \in SUBSET S : \A x \in s : Cardinality(s \ {x}) = Cardinality(s) - 1
  BY <1>0, FS_RemoveElement
<1>2. \A n \in Nat : \A g : Good(g, n) => \E h : Good(h, n + 1)
  <2> SUFFICES ASSUME NEW n \in Nat, NEW g, Good(g, n) PROVE \E h : Good(h, n + 1)
    OBVIOUS
  <2> DEFINE h == [s \in SUBSET S |-> OneMore(query, w, g, s)]
  <2>1. \A s \in UpTo(n) : h[s] = g[s]
    OBVIOUS
  <2>2. \A s \in UpTo(n + 1) : OneMore(query, w, h, s) = OneMore(query, w, g, s)
    <3> SUFFICES ASSUME NEW s \in UpTo(n + 1), s # {}
                 PROVE  OneMore(query, w, h, s) = OneMore(query, w, g, s)
      BY DEF OneMore
    <3> DEFINE x == CHOOSE i \in s : TRUE
    <3>1. x \in s
      OBVIOUS
    <3> HIDE DEF x
    <3>2. s \ {x} \in UpTo(n)
      <4>1. s \in SUBSET S /\ Cardinality(s) <= n + 1 /\ Cardinality(s) \in Nat
        BY <1>0
      <4>2. s \ {x} \in SUBSET S /\ Cardinality(s \ {x}) = Cardinality(s) - 1
        BY <1>1, <3>1, <4>1
      <4> QED
        BY <4>1, <4>2
    <3>3. h[s \ {x}] = g[s \ {x}]
      BY <2>1, <3>2
    <3> HIDE DEF h
    <3>4. BestScore(query, w, x) + h[s \ {x}] = BestScore(query, w, x) + g[s \ {x}]
      BY <3>3
    <3> QED
      BY ONLY <3>4, s # {} DEF OneMore, x
  <2>3. \A s \in UpTo(n + 1) : h[s] = OneMore(query, w, g, s)
    OBVIOUS
  <2> HIDE DEF h, UpTo
  <2>4. Good(h, n + 1)
    BY <2>2, <2>3
  <2> QED
    BY <2>4
<1>3. \E g : Good(g, 0)
  <2> DEFINE g == [s \in SUBSET S |-> 0]
  <2>1. \A s \in UpTo(0) : s = {}
    BY <1>0, FS_EmptySet
  <2>2. Good(g, 0)
    BY <2>1 DEF OneMore
  <2> QED
    BY <2>2
<1> HIDE DEF Good
<1>4. Bad = {}
  <2> SUFFICES ASSUME Bad # {} PROVE FALSE
    OBVIOUS
  <2>1. PICK n \in Bad : \A m \in Bad : n <= m
    BY LeastNatural
  <2>2. n # 0
    BY <1>3
  <2>3. n - 1 \in Nat /\ n - 1 \notin Bad
    BY <2>1, <2>2
  <2> QED
    BY <1>2, <2>1, <2>3
<1>5. PICK g : Good(g, Cardinality(S))
  BY <1>0, <1>4
<1>6. \A s \in SUBSET S : s \in UpTo(Cardinality(S))
  BY FS_Subset
<1> DEFINE h == [s \in SUBSET S |-> g[s]]
<1>7. \A s \in SUBSET S : h[s] = OneMore(query, w, g, s)
  BY <1>5, <1>6 DEF Good
<1>8. \A s \in SUBSET S : OneMore(query, w, g, s) = OneMore(query, w, h, s)
  <2> TAKE s \in SUBSET S
  <2> DEFINE x == CHOOSE i \in s : TRUE
  <2>1. h[s \ {x}] = g[s \ {x}]
    OBVIOUS
  <2> HIDE DEF h
  <2> QED
    BY <2>1 DEF OneMore
<1>9. h = [s \in SUBSET S |-> OneMore(query, w, h, s)]
  <2>1. h = [s \in SUBSET S |-> h[s]]
    OBVIOUS
  <2> HIDE DEF h
  <2>2. \A s \in SUBSET S : h[s] = OneMore(query, w, h, s)
    BY <1>7, <1>8
  <2> QED
    BY <2>1, <2>2
<1> QED
  BY <1>9

\* A sum of integers is one.
LEMMA SumType ==
  ASSUME NEW query, NEW w, NEW S, IsFiniteSet(S),
         \A i \in S : BestScore(query, w, i) \in Int
  PROVE  SumOver(query, w, S)[S] \in Int
<1> DEFINE g == SumOver(query, w, S)
           Bad == {n \in Nat : \E s \in SUBSET S : Cardinality(s) = n /\ g[s] \notin Int}
<1>1. g = [s \in SUBSET S |-> OneMore(query, w, g, s)]
  BY SumExists DEF SumOver
<1> HIDE DEF g
<1>2. \A s \in SUBSET S : g[s] = OneMore(query, w, g, s)
  BY <1>1
<1>3. \A s \in SUBSET S : IsFiniteSet(s) /\ Cardinality(s) \in Nat
  BY FS_Subset, FS_CardinalityType
<1>4. \A s \in SUBSET S : \A x \in s : Cardinality(s \ {x}) = Cardinality(s) - 1
  BY <1>3, FS_RemoveElement
<1>5. Bad = {}
  <2> SUFFICES ASSUME Bad # {} PROVE FALSE
    OBVIOUS
  <2>1. PICK n \in Bad : \A m \in Bad : n <= m
    BY LeastNatural
  <2>2. PICK s \in SUBSET S : Cardinality(s) = n /\ g[s] \notin Int
    OBVIOUS
  <2>3. s # {}
    <3>1. s = {} => OneMore(query, w, g, s) = 0
      BY DEF OneMore
    <3> QED
      BY <1>2, <2>2, <3>1
  <2> DEFINE x == CHOOSE i \in s : TRUE
  <2>4. x \in s
    BY <2>3
  <2>5. g[s] = BestScore(query, w, x) + g[s \ {x}]
    BY <1>2, <2>3 DEF OneMore
  <2> HIDE DEF x
  <2>6. g[s \ {x}] \notin Int
    BY <2>2, <2>4, <2>5
  <2>7. s \ {x} \in SUBSET S /\ Cardinality(s \ {x}) \in Nat /\ Cardinality(s \ {x}) < n
    BY <1>3, <1>4, <2>2, <2>4
  <2>8. Cardinality(s \ {x}) \in Bad
    BY <2>6, <2>7
  <2>9. n <= Cardinality(s \ {x}) /\ n \in Nat
    BY <2>1, <2>8
  <2> QED
    BY <2>7, <2>9
<1>6. \A s \in SUBSET S : g[s] \in Int
  BY <1>3, <1>5
<1> QED
  BY <1>6 DEF g

LEMMA ConfidenceType ==
  ASSUME NEW query \in Queries, NEW w \in Variants
  PROVE  Confidence[query][w] \in Int
<1>1. IsFiniteSet(DOMAIN query)
  <2>1. query \in Seq({query[i] : i \in DOMAIN query})
    BY QueriesAssumption
  <2>2. DOMAIN query = 1..Len(query) /\ Len(query) \in Nat
    BY <2>1
  <2> QED
    BY <2>2, FS_Interval
<1>2. \A i \in DOMAIN query : BestScore(query, w, i) \in Int
  <2> TAKE i \in DOMAIN query
  <2> DEFINE scores == {TokenScore(query[i], t) : t \in TokensOf[w]}
  <2>1. ASSUME NEW t \in TokensOf[w] PROVE TokenScore(query[i], t) \in 0..100
    <3>1. LikenessOf[query[i]][t] \in
             [as : {"equal", "contained", "similar"}, percent : 0..100]
      BY QueriesAssumption
    <3> QED
      BY <3>1 DEF TokenScore
  <2>2. scores \in SUBSET (0..100)
    BY <2>1
  <2>3. scores # {}
    BY TokensAssumption
  <2> HIDE DEF scores
  <2>4. Max(scores) \in scores
    BY <2>2, <2>3, MaxOfScores
  <2>5. Max(scores) \in Int
    <3>1. \A s \in scores : s \in Int
      BY <2>2
    <3> QED
      BY <2>4, <3>1
  <2>6. BestScore(query, w, i) = Max(scores)
    BY DEF scores, BestScore
  <2> QED
    BY <2>5, <2>6
<1>3. Confidence[query][w] = MapThenSumSet(LAMBDA i : BestScore(query, w, i), DOMAIN query)
  BY DEF Confidence
<1>4. MapThenSumSet(LAMBDA i : BestScore(query, w, i), DOMAIN query)
        = SumOver(query, w, DOMAIN query)[DOMAIN query]
  BY DEF MapThenSumSet, MapThenFoldSet, SumOver, OneMore
<1> QED
  BY <1>1, <1>2, <1>3, <1>4, SumType

-----------------------------------------------------------------------------
(* The sort of a lookup                                                      *)

\* The sort key decides between any two variants.
LEMMA PrecedesOrders ==
  ASSUME NEW query \in Queries
  PROVE  /\ \A v \in Variants : ~Precedes(query, v, v)
         /\ \A v, w, x \in Variants :
               Precedes(query, v, w) /\ Precedes(query, w, x) => Precedes(query, v, x)
         /\ \A v, w \in Variants : v # w => Precedes(query, v, w) \/ Precedes(query, w, v)
<1> DEFINE c == [v \in Variants |-> Confidence[query][v]]
           y == [v \in Variants |-> YearOf[v]]
<1>1. c \in [Variants -> Int] /\ y \in [Variants -> Int] /\ Variants \subseteq Int
  BY ConfidenceType, VariantsAssumption
<1>2. \A v, w \in Variants :
         Precedes(query, v, w) <=> \/ c[v] > c[w]
                                   \/ c[v] = c[w] /\ (y[v] > y[w] \/ (y[v] = y[w] /\ v < w))
  BY DEF Precedes
<1> HIDE DEF c, y
<1>3. \A v \in Variants : c[v] \in Int /\ y[v] \in Int /\ v \in Int
  BY <1>1
<1> QED
  BY <1>2, <1>3

\* A scan has every candidate once.
LEMMA ScanFacts ==
  ASSUME NEW C \in SUBSET Variants, NEW scan \in SetToSeqs(C)
  PROVE  /\ Cardinality(C) \in Nat
         /\ scan \in [1..Cardinality(C) -> C]
         /\ \A i, j \in 1..Cardinality(C) : scan[i] = scan[j] => i = j
         /\ \A v \in C : \E i \in 1..Cardinality(C) : scan[i] = v
<1> DEFINE n == Cardinality(C)
<1>1. IsFiniteSet(C) /\ n \in Nat
  BY VariantsAssumption, FS_Subset, FS_CardinalityType
<1>2. scan \in [1..n -> C] /\ \A i, j \in 1..n : i # j => scan[i] # scan[j]
  BY DEF SetToSeqs
<1>3. IsFiniteSet(1..n) /\ Cardinality(1..n) = n
  BY <1>1, FS_Interval
<1>4. scan \in Injection(1..n, C)
  BY <1>2 DEF Injection, IsInjective
<1>5. scan \in Surjection(1..n, C)
  <2> HIDE DEF n
  <2>1. Cardinality(1..n) = Cardinality(C)
    BY <1>3 DEF n
  <2> QED
    BY <1>1, <1>3, <1>4, <2>1, FS_Injection
<1> QED
  BY <1>1, <1>2, <1>5 DEF Surjection

\* The sort puts every candidate at a place of its own, in the order of the keys.
LEMMA Places ==
  ASSUME NEW query \in Queries, NEW C \in SUBSET Variants, NEW scan \in SetToSeqs(C)
  PROVE  LET D == 1..Cardinality(C) IN
         /\ \A i \in D : Place(query, scan, i) \in D
         /\ \A i, j \in D : Precedes(query, scan[i], scan[j]) =>
               Place(query, scan, i) < Place(query, scan, j)
         /\ \A p \in D : \E i \in D : Place(query, scan, i) = p
<1> DEFINE n == Cardinality(C)
           D == 1..n
           Before(j, i) == Precedes(query, scan[j], scan[i])
           Below(i) == {j \in D : Before(j, i)}
           r == [i \in D |-> Cardinality(Below(i))]
<1>1. /\ n \in Nat /\ scan \in [D -> C] /\ DOMAIN scan = D
      /\ \A i, j \in D : scan[i] = scan[j] => i = j
  BY ScanFacts
<1> HIDE DEF n
<1>2. \A i \in D : scan[i] \in Variants
  BY <1>1
<1>3. /\ \A i \in D : ~Before(i, i)
      /\ \A i, j, k \in D : Before(i, j) /\ Before(j, k) => Before(i, k)
      /\ \A i, j \in D : i # j => Before(i, j) \/ Before(j, i)
  BY <1>1, <1>2, PrecedesOrders
<1>4. ASSUME NEW i \in D PROVE Place(query, scan, i) = 1 + r[i]
  <2>1. \A j \in D : Before(j, i) \/ (j < i /\ ~Before(i, j)) <=> Before(j, i)
    <3> SUFFICES ASSUME NEW j \in D, j < i, ~Before(i, j) PROVE Before(j, i)
      OBVIOUS
    <3>1. j # i
      OBVIOUS
    <3> HIDE DEF Before
    <3> QED
      BY <1>3, <3>1
  <2>2. {j \in D : Before(j, i) \/ (j < i /\ ~Before(i, j))} = Below(i)
    BY <2>1
  <2>3. Place(query, scan, i)
          = 1 + Cardinality({j \in D : Before(j, i) \/ (j < i /\ ~Before(i, j))})
    BY <1>1 DEF Place
  <2> QED
    BY <2>2, <2>3
<1> HIDE DEF Before
<1>5. \A i, j \in D : Before(j, i) =>
        Below(j) \subseteq Below(i) /\ j \in Below(i) /\ j \notin Below(j)
  BY <1>3
<1>6. \A i \in D : i \notin Below(i) /\ Below(i) \in SUBSET D
  BY <1>3
<1>7. IsFiniteSet(D) /\ Cardinality(D) = n
  BY <1>1, FS_Interval
<1>8. \A i \in D : IsFiniteSet(Below(i)) /\ r[i] \in Nat
  BY <1>6, <1>7, FS_Subset, FS_CardinalityType
<1>9. \A i \in D : r[i] \in 0..(n - 1)
  <2> TAKE i \in D
  <2>1. Cardinality(Below(i)) <= Cardinality(D) /\ Cardinality(Below(i)) # Cardinality(D)
    BY <1>6, <1>7, FS_Subset
  <2>2. r[i] = Cardinality(Below(i)) /\ r[i] \in Nat
    BY <1>8
  <2> HIDE DEF r, Below
  <2>3. r[i] <= n /\ r[i] # n
    BY <1>7, <2>1, <2>2
  <2> QED
    BY <1>1, <2>2, <2>3
<1>10. \A i, j \in D : Before(j, i) => r[j] < r[i]
  <2> SUFFICES ASSUME NEW i \in D, NEW j \in D, Before(j, i) PROVE r[j] < r[i]
    OBVIOUS
  <2>1. Below(j) \in SUBSET Below(i) /\ Below(j) # Below(i) /\ IsFiniteSet(Below(i))
    BY <1>5, <1>8
  <2> HIDE DEF Below
  <2>2. /\ Cardinality(Below(i)) # Cardinality(Below(j))
        /\ Cardinality(Below(j)) <= Cardinality(Below(i))
    BY <2>1, FS_Subset
  <2> QED
    BY <1>8, <2>2
<1> HIDE DEF Below
<1>11. r \in Injection(D, 0..(n - 1))
  <2>1. r \in [D -> 0..(n - 1)]
    BY <1>9
  <2>2. \A i, j \in D : i # j => r[i] # r[j]
    BY <1>3, <1>8, <1>10
  <2> HIDE DEF r
  <2> QED
    BY <2>1, <2>2 DEF Injection, IsInjective
<1>12. IsFiniteSet(0..(n - 1)) /\ Cardinality(0..(n - 1)) = n
  <2>1. 0 \in Int /\ n - 1 \in Int /\ (0 > n - 1 => n = 0) /\ (n - 1) - 0 + 1 = n
    BY <1>1
  <2> QED
    BY <2>1, FS_Interval
<1> HIDE DEF r
<1>13. r \in Surjection(D, 0..(n - 1))
  BY <1>7, <1>11, <1>12, FS_Injection
<1>14. \A k \in 0..(n - 1) : \E i \in D : r[i] = k
  BY <1>13 DEF Surjection
<1>15. ASSUME NEW p \in D PROVE \E i \in D : Place(query, scan, i) = p
  <2>1. p - 1 \in 0..(n - 1)
    BY <1>1
  <2>2. PICK i \in D : r[i] = p - 1
    BY <1>14, <2>1
  <2> QED
    BY <1>4, <2>2
<1>16. \A i \in D : Place(query, scan, i) \in D
  BY <1>1, <1>4, <1>9
<1>17. ASSUME NEW i \in D, NEW j \in D, Before(i, j)
       PROVE  Place(query, scan, i) < Place(query, scan, j)
  <2>1. r[i] < r[j] /\ r[i] \in Nat /\ r[j] \in Nat
    BY <1>8, <1>10, <1>17
  <2> QED
    BY <1>4, <2>1
<1> QED
  BY <1>15, <1>16, <1>17 DEF n, Before

\* The list is the beginning of the sorted candidates.
LEMMA ListedFacts ==
  ASSUME NEW query \in Queries, NEW C \in SUBSET Variants, NEW scan \in SetToSeqs(C)
  PROVE  LET list == Listed(query, scan)
             n == Cardinality(C)
             m == IF ListLimit < n THEN ListLimit ELSE n
         IN
         /\ list \in Seq(Variants) /\ Len(list) = m /\ m \in Nat /\ n \in Nat
         /\ \E at \in [1..n -> 1..n] :
               /\ \A i \in 1..m : list[i] = scan[at[i]]
               /\ \A i, j \in 1..n : i < j => Precedes(query, scan[at[i]], scan[at[j]])
               /\ \A v \in C : \E i \in 1..n : v = scan[at[i]]
<1> DEFINE list == Listed(query, scan)
           n == Cardinality(C)
           D == 1..n
           m == IF ListLimit < n THEN ListLimit ELSE n
           place(i) == Place(query, scan, i)
           at == [p \in D |-> CHOOSE i \in D : place(i) = p]
           sorted == [p \in D |-> scan[at[p]]]
<1>1. /\ n \in Nat /\ scan \in [D -> C] /\ DOMAIN scan = D
      /\ \A i, j \in D : scan[i] = scan[j] => i = j
      /\ \A v \in C : \E i \in D : scan[i] = v
  BY ScanFacts
<1>2. /\ \A i \in D : place(i) \in D
      /\ \A i, j \in D : Precedes(query, scan[i], scan[j]) => place(i) < place(j)
      /\ \A p \in D : \E i \in D : place(i) = p
  BY Places
<1> HIDE DEF place, n
<1>3. at \in [D -> D] /\ \A p \in D : place(at[p]) = p
  <2>1. \A p \in D : at[p] \in D /\ place(at[p]) = p
    BY <1>2
  <2> QED
    BY <2>1
<1> HIDE DEF at
<1>4. sorted \in [D -> C] /\ sorted \in Seq(C) /\ Len(sorted) = n
  BY <1>1, <1>3
<1>5. Min({ListLimit, n}) = m
  <2>1. m \in {ListLimit, n} /\ \A k \in {ListLimit, n} : m <= k
    BY <1>1, ListLimitAssumption
  <2>2. \A k \in {ListLimit, n} : (\A l \in {ListLimit, n} : k <= l) => k = m
    BY <1>1, <2>1, ListLimitAssumption
  <2> HIDE DEF m
  <2> QED
    BY <2>1, <2>2 DEF Min
<1>6. Len(scan) = n
  BY <1>1
<1>7. list = SubSeq(sorted, 1, m)
  <2>1. sorted = [p \in DOMAIN scan |->
                     scan[CHOOSE i \in DOMAIN scan : Place(query, scan, i) = p]]
    BY <1>1 DEF at, place
  <2> HIDE DEF sorted, m
  <2> QED
    BY <1>5, <1>6, <2>1 DEF Listed
<1>8. m \in Nat /\ m <= n
  BY <1>1, ListLimitAssumption
<1>9. /\ list \in Seq(C) /\ Len(list) = m
      /\ \A i \in 1..m : list[i] = sorted[i]
  <2> HIDE DEF sorted, list, m
  <2> QED
    BY <1>1, <1>4, <1>7, <1>8
<1>10. \A i \in 1..m : list[i] = scan[at[i]]
  <2>1. \A i \in 1..m : i \in D
    BY <1>1, <1>8
  <2>2. \A i \in D : sorted[i] = scan[at[i]]
    OBVIOUS
  <2> HIDE DEF list, m, sorted
  <2> QED
    BY <1>9, <2>1, <2>2
<1>11. ASSUME NEW i \in D, NEW j \in D, i < j
       PROVE  Precedes(query, scan[at[i]], scan[at[j]])
  <2>1. at[i] \in D /\ at[j] \in D /\ place(at[i]) = i /\ place(at[j]) = j /\ at[i] # at[j]
    BY <1>1, <1>3, <1>11
  <2>2. scan[at[i]] # scan[at[j]] /\ scan[at[i]] \in Variants /\ scan[at[j]] \in Variants
    BY <1>1, <2>1
  <2>3. ~Precedes(query, scan[at[j]], scan[at[i]])
    <3>1. Precedes(query, scan[at[j]], scan[at[i]]) => place(at[j]) < place(at[i])
      BY <1>2, <2>1
    <3>2. ~(j < i)
      BY <1>1, <1>11
    <3> QED
      BY <2>1, <3>1, <3>2
  <2> DEFINE v == scan[at[i]]
             w == scan[at[j]]
  <2>4. v \in Variants /\ w \in Variants /\ v # w
    BY <2>2
  <2>5. Precedes(query, v, w) \/ Precedes(query, w, v)
    <3> HIDE DEF v, w
    <3> QED
      BY <2>4, PrecedesOrders
  <2> QED
    BY <2>3, <2>5
<1>12. ASSUME NEW v \in C PROVE \E i \in D : v = scan[at[i]]
  <2>1. PICK k \in D : scan[k] = v
    BY <1>1
  <2>2. place(k) \in D
    BY <1>2, <2>1
  <2> DEFINE i == place(k)
  <2>3. at[i] \in D /\ place(at[i]) = i
    BY <1>3, <2>2
  <2>4. at[i] = k
    <3>1. /\ Precedes(query, scan[k], scan[at[i]]) => place(k) < place(at[i])
          /\ Precedes(query, scan[at[i]], scan[k]) => place(at[i]) < place(k)
      BY <1>2, <2>1, <2>3
    <3>2. ~Precedes(query, scan[k], scan[at[i]]) /\ ~Precedes(query, scan[at[i]], scan[k])
      BY <1>1, <2>2, <2>3, <3>1
    <3>3. scan[k] \in Variants /\ scan[at[i]] \in Variants
      BY <1>1, <2>1, <2>3
    <3>4. scan[k] = scan[at[i]]
      BY <3>2, <3>3, PrecedesOrders
    <3> QED
      BY <1>1, <2>1, <2>3, <3>4
  <2> QED
    BY <2>1, <2>2, <2>4
<1>13. list \in Seq(Variants)
  <2> HIDE DEF list
  <2> QED
    BY <1>9
<1> QED
  BY <1>1, <1>3, <1>8, <1>9, <1>10, <1>11, <1>12, <1>13 DEF n

\* What the tool may rely on: the list is in the order of the sort key, it leaves out
\* only what comes after it, and the bike it picks is ahead of all others.
LEMMA ListDecides ==
  ASSUME NEW query \in Queries, NEW market,
         NEW scan \in SetToSeqs(Candidates(query, market))
  PROVE  LET candidates == Candidates(query, market)
             list == Listed(query, scan)
         IN
         /\ list \in Seq(Variants)
         /\ \A i, j \in DOMAIN list : i < j => Precedes(query, list[i], list[j])
         /\ \A i \in DOMAIN list, v \in candidates :
               (\A j \in DOMAIN list : list[j] # v) => Precedes(query, list[i], v)
         /\ \A v \in Picked(query, list) : \A w \in candidates \ {v} :
               Confidence[query][v] - Confidence[query][w] >= Percent(query, 15)
<1> DEFINE C == Candidates(query, market)
           list == Listed(query, scan)
           n == Cardinality(C)
           m == IF ListLimit < n THEN ListLimit ELSE n
<1>1. C \in SUBSET Variants /\ scan \in SetToSeqs(C)
  BY DEF Candidates
<1>2. PICK at \in [1..n -> 1..n] :
        /\ list \in Seq(Variants) /\ Len(list) = m /\ m \in Nat /\ n \in Nat
        /\ \A i \in 1..m : list[i] = scan[at[i]]
        /\ \A i, j \in 1..n : i < j => Precedes(query, scan[at[i]], scan[at[j]])
        /\ \A v \in C : \E i \in 1..n : v = scan[at[i]]
  <2> HIDE DEF C
  <2> QED
    BY <1>1, ListedFacts
<1>3. m <= n /\ (m = 1 => n = 1) /\ DOMAIN list = 1..m
  BY <1>2, ListLimitAssumption
<1>4. \A w \in Variants : Confidence[query][w] \in Int
  BY ConfidenceType
<1> HIDE DEF C, list, n, m
<1>5. ASSUME NEW i \in DOMAIN list, NEW j \in DOMAIN list, i < j
      PROVE  Precedes(query, list[i], list[j])
  <2>1. i \in 1..m /\ j \in 1..m /\ i \in 1..n /\ j \in 1..n
    BY <1>2, <1>3
  <2>2. list[i] = scan[at[i]] /\ list[j] = scan[at[j]]
    BY <1>2, <2>1
  <2> QED
    BY <1>2, <1>5, <2>1, <2>2
<1>6. ASSUME NEW v \in C, NEW i \in DOMAIN list, \A j \in DOMAIN list : list[j] # v
      PROVE  Precedes(query, list[i], v)
  <2>1. PICK k \in 1..n : v = scan[at[k]]
    BY <1>2
  <2>2. i \in 1..m /\ i \in 1..n
    BY <1>2, <1>3
  <2>3. ~(k \in 1..m)
    BY <1>2, <1>3, <1>6, <2>1
  <2>4. i < k
    BY <1>2, <2>2, <2>3
  <2> QED
    BY <1>2, <2>1, <2>2, <2>4
<1>7. ASSUME NEW v \in Picked(query, list), NEW w \in C \ {v}
      PROVE  Confidence[query][v] - Confidence[query][w] >= Percent(query, 15)
  <2>1. /\ v = list[1] /\ list # <<>>
        /\ m # 1 => Confidence[query][list[1]] - Confidence[query][list[2]]
                      >= Percent(query, 15)
    BY <1>2, <1>7 DEF Picked, ClearWinner
  <2>2. m >= 1 /\ 1 \in 1..m
    BY <1>2, <2>1
  <2>3. PICK k \in 1..n : w = scan[at[k]]
    BY <1>2, <1>7
  <2>4. k # 1
    BY <1>2, <1>7, <2>1, <2>2, <2>3
  <2>5. m >= 2 /\ 1 \in 1..m /\ 2 \in 1..m /\ 2 \in 1..n
    BY <1>2, <1>3, <2>2, <2>3, <2>4
  <2>6. list[2] = scan[at[2]]
    BY <1>2, <2>5
  <2>7. list[2] = w \/ Precedes(query, list[2], w)
    <3>1. CASE k = 2
      BY <2>3, <2>6, <3>1
    <3>2. CASE k # 2
      <4>1. 2 < k
        BY <1>2, <2>4, <3>2
      <4> QED
        BY <1>2, <2>3, <2>5, <2>6, <4>1
    <3> QED
      BY <3>1, <3>2
  <2>8. Confidence[query][list[2]] >= Confidence[query][w]
    <3>1. list[2] \in Variants /\ w \in Variants
      BY <1>1, <1>2, <1>3, <1>7, <2>5
    <3> QED
      BY <1>4, <2>7, <3>1 DEF Precedes
  <2>9. list[1] \in Variants /\ list[2] \in Variants /\ w \in Variants
    BY <1>1, <1>2, <1>3, <1>7, <2>5
  <2> DEFINE c1 == Confidence[query][list[1]]
             c2 == Confidence[query][list[2]]
             cw == Confidence[query][w]
             gap == Percent(query, 15)
  <2>10. c1 \in Int /\ c2 \in Int /\ cw \in Int
    BY <1>4, <2>9
  <2>11. gap \in Int
    <3>1. query \in Seq({query[i] : i \in DOMAIN query})
      BY QueriesAssumption
    <3>2. Len(query) \in Nat
      BY <3>1
    <3> QED
      BY <3>2 DEF Percent
  <2>12. c1 - c2 >= gap /\ c2 >= cw
    BY <1>2, <2>1, <2>5, <2>8
  <2> HIDE DEF c1, c2, cw, gap
  <2>13. c1 - cw >= gap
    BY <2>10, <2>11, <2>12
  <2> QED
    BY <2>1, <2>13 DEF c1, cw, gap
<1> QED
  BY <1>2, <1>5, <1>6, <1>7 DEF C, list

-----------------------------------------------------------------------------
(* The inductive invariant of a read                                         *)

\* All the queries of the read, and how many of them have been answered.
Full == Plan(read.op, read.bikes)
Done == Len(Full) - Len(read.plan)

Reads == {"page", "get_specs", "coverage", "compare"}

\* The pipeline takes nothing back; what is shown is stored.
StoreInv ==
    /\ known \subseteq Facts
    /\ zeros \subseteq {f \in known : KeyOf[f] \in Reciprocal}
    /\ read \in ReadType
    /\ read.specs \cup read.insights \cup read.present \cup read.before \subseteq known

\* A read has the rest of its plan ahead of it until it is answered or has failed.
PlanInv ==
    /\ read.outcome = "idle" <=> read.op = "none"
    /\ read.op = "none" => read = Idle
    /\ read.op = "lookup" => read.plan = <<>> /\ read.outcome = "answered"
    /\ read.outcome = "failed" => read.plan = <<>>
    /\ read.op \in Reads =>
          IF read.op = "compare" THEN Len(read.bikes) > 0 ELSE Len(read.bikes) = 1
    /\ read.op \in Reads /\ read.outcome # "failed" =>
          /\ Len(read.plan) <= Len(Full)
          /\ \A i \in DOMAIN read.plan : read.plan[i] = Full[Done + i]
          /\ read.outcome = "answered" <=> read.plan = <<>>

\* What a query that has been answered has brought to the read.
Brought(r, q) ==
    /\ q.kind = "specs" =>
          \A f \in r.before :
             BikeOf[f] = q.bike /\ KeyOf[f] \in r.keys \ Topics => f \in r.specs
    /\ q.kind = "insights" =>
          \A f \in r.before :
             BikeOf[f] = q.bike /\ KeyOf[f] \in Topics => f \in r.insights
    /\ q.kind = "spec keys" =>
          \A f \in r.before \cup r.specs \cup r.insights :
             BikeOf[f] = q.bike /\ KeyOf[f] \notin Topics => f \in r.present
    /\ q.kind = "topics" =>
          \A f \in r.before \cup r.specs \cup r.insights :
             BikeOf[f] = q.bike /\ KeyOf[f] \in Topics => f \in r.present

AnswersInv ==
    read.op \in Reads /\ read.outcome # "failed" =>
        \A i \in 1..Done : Brought(read, Full[i])

IInv == StoreInv /\ PlanInv /\ AnswersInv /\ LookupDecided

-----------------------------------------------------------------------------
(* The plans                                                                 *)

Kinds == {"specs", "insights", "spec keys", "topics", "pending"}

PlanQueries == [kind : Kinds, bike : Variants]

\* A plan that ends with the three queries of coverage.
LEMMA Appended ==
  ASSUME NEW S, NEW x \in Seq(S), NEW c \in S, NEW d \in S, NEW e \in S
  PROVE  /\ x \o <<c, d, e>> \in Seq(S) /\ Len(x \o <<c, d, e>>) = Len(x) + 3
         /\ \A i \in 1..Len(x) : (x \o <<c, d, e>>)[i] = x[i]
         /\ (x \o <<c, d, e>>)[Len(x) + 1] = c
         /\ (x \o <<c, d, e>>)[Len(x) + 2] = d
         /\ (x \o <<c, d, e>>)[Len(x) + 3] = e
<1> DEFINE y == <<c, d, e>>
           k == Len(x)
<1>1. y \in Seq(S) /\ Len(y) = 3 /\ y[1] = c /\ y[2] = d /\ y[3] = e
  OBVIOUS
<1>2. k \in Nat
  OBVIOUS
<1> HIDE DEF y
<1>3. /\ x \o y \in Seq(S) /\ Len(x \o y) = k + Len(y)
      /\ \A i \in 1..(k + Len(y)) :
            (x \o y)[i] = IF i <= k THEN x[i] ELSE y[i - k]
  BY <1>1, ConcatProperties, Zenon
<1> DEFINE s == x \o y
<1> HIDE DEF s, k
<1>4. /\ s \in Seq(S) /\ Len(s) = k + 3
      /\ \A i \in 1..(k + 3) : s[i] = IF i <= k THEN x[i] ELSE y[i - k]
  BY <1>1, <1>3 DEF s
<1>5. s[k + 1] = y[1] /\ s[k + 2] = y[2] /\ s[k + 3] = y[3]
  BY <1>2, <1>4
<1>6. \A i \in 1..k : s[i] = x[i]
  BY <1>2, <1>4
<1> QED
  BY <1>1, <1>4, <1>5, <1>6 DEF s, k, y

LEMMA ShortPlans ==
  ASSUME NEW S, NEW a \in S, NEW b \in S, NEW c \in S
  PROVE  /\ <<a>> \in Seq(S) /\ Len(<<a>>) = 1 /\ <<a>>[1] = a
         /\ <<a, b>> \in Seq(S) /\ Len(<<a, b>>) = 2 /\ <<a, b>>[1] = a /\ <<a, b>>[2] = b
         /\ <<a, b, c>> \in Seq(S) /\ Len(<<a, b, c>>) = 3
         /\ <<a, b, c>>[1] = a /\ <<a, b, c>>[2] = b /\ <<a, b, c>>[3] = c
  OBVIOUS

\* A page asks for everything, a comparison for the specs of every bike; coverage is
\* asked for after the values, and its pending research last.
WellPlanned(op, bikes, full, n) ==
    /\ full \in Seq(PlanQueries) /\ n = Len(full) /\ n \in Nat \ {0}
    /\ \A i \in 1..n : \E k \in DOMAIN bikes : full[i].bike = bikes[k]
    /\ \A i, j \in 1..n :
          j < i /\ full[i].kind \in {"specs", "insights"} =>
             full[j].kind \in {"specs", "insights"}
    /\ \A i, j \in 1..n : full[i].kind = "insights" /\ full[j].kind = "insights" => i = j
    /\ op = "page" => \E i, j \in 1..n :
          full[i] = Query("specs", bikes[1]) /\ full[j] = Query("insights", bikes[1])
    /\ op = "get_specs" => \E i \in 1..n : full[i] = Query("specs", bikes[1])
    /\ op = "compare" =>
          n = Len(bikes) /\ \A i \in 1..n : full[i] = Query("specs", bikes[i])
    /\ op \in {"page", "get_specs", "coverage"} =>
          /\ full[n] = Query("pending", bikes[1])
          /\ \E i, j \in 1..(n - 1) :
                full[i] = Query("spec keys", bikes[1]) /\ full[j] = Query("topics", bikes[1])
    /\ op = "coverage" => \A i \in 1..n : full[i].kind \notin {"specs", "insights"}

LEMMA PlanFacts ==
  ASSUME NEW op \in Reads, NEW bikes \in Seq(Variants),
         IF op = "compare" THEN Len(bikes) > 0 ELSE Len(bikes) = 1
  PROVE  WellPlanned(op, bikes, Plan(op, bikes), Len(Plan(op, bikes)))
<1> DEFINE b == bikes[1]
<1>0. op # "compare" => 1 \in DOMAIN bikes
  OBVIOUS
<1>1. b \in Variants
  OBVIOUS
<1> DEFINE q1 == Query("specs", b)
           q2 == Query("insights", b)
           q3 == Query("spec keys", b)
           q4 == Query("topics", b)
           q5 == Query("pending", b)
<1>3. /\ q1 \in PlanQueries /\ q1.kind = "specs" /\ q1.bike = b
      /\ q2 \in PlanQueries /\ q2.kind = "insights" /\ q2.bike = b
      /\ q3 \in PlanQueries /\ q3.kind = "spec keys" /\ q3.bike = b
      /\ q4 \in PlanQueries /\ q4.kind = "topics" /\ q4.bike = b
      /\ q5 \in PlanQueries /\ q5.kind = "pending" /\ q5.bike = b
  BY <1>1 DEF Query, Kinds, PlanQueries
<1>4. CASE op = "page"
  <2> DEFINE x == <<q1, q2>>
             full == x \o <<q3, q4, q5>>
  <2>1. Plan(op, bikes) = full
    BY <1>4 DEF Plan, PagePlan, Coverage
  <2> HIDE DEF q1, q2, q3, q4, q5
  <2>2. x \in Seq(PlanQueries) /\ Len(x) = 2 /\ x[1] = q1 /\ x[2] = q2
    BY <1>3, ShortPlans, Zenon
  <2>2a. /\ x \in Seq(PlanQueries)
         /\ q3 \in PlanQueries /\ q4 \in PlanQueries /\ q5 \in PlanQueries
    BY <1>3, <2>2
  <2> HIDE DEF x, full
  <2>3. /\ full \in Seq(PlanQueries) /\ Len(full) = Len(x) + 3
        /\ \A i \in 1..Len(x) : full[i] = x[i]
        /\ full[Len(x) + 1] = q3 /\ full[Len(x) + 2] = q4 /\ full[Len(x) + 3] = q5
    BY <2>2a, Appended DEF full
  <2>4. /\ Len(full) = 5 /\ full[1] = q1 /\ full[2] = q2 /\ full[3] = q3
        /\ full[4] = q4 /\ full[5] = q5
    BY <2>2, <2>3
  <2>5. 1..5 = {1, 2, 3, 4, 5}
    OBVIOUS
  <2>6. \A i \in {1, 2, 3, 4, 5} : full[i].bike = b
    BY <1>3, <2>4
  <2>7. /\ full[1].kind = "specs"
        /\ full[2].kind = "insights"
        /\ full[3].kind = "spec keys"
        /\ full[4].kind = "topics"
        /\ full[5].kind = "pending"
    BY <1>3, <2>4
  <2>8. \A i \in {1, 2, 3, 4, 5} : full[i].kind = "specs" <=> i = 1
    BY <2>7
  <2>9. \A i \in {1, 2, 3, 4, 5} : full[i].kind = "insights" <=> i = 2
    BY <2>7
  <2>10. \A i \in 1..5 : \E k \in DOMAIN bikes : full[i].bike = bikes[k]
    BY <1>0, <1>4, <2>5, <2>6
  <2>11. \A i, j \in 1..5 :
           j < i /\ full[i].kind \in {"specs", "insights"} =>
              full[j].kind \in {"specs", "insights"}
    BY <2>5, <2>8, <2>9
  <2>12. \A i, j \in 1..5 : full[i].kind = "insights" /\ full[j].kind = "insights" => i = j
    BY <2>5, <2>9
  <2>13. 1..5 = {1, 2, 3, 4, 5} /\ 1..(5 - 1) = {1, 2, 3, 4}
    OBVIOUS
  <2>14. full[5] = Query("pending", b) /\ \E i, j \in 1..(5 - 1) :
            full[i] = Query("spec keys", b) /\ full[j] = Query("topics", b)
    BY <2>4, <2>13 DEF q3, q4, q5
  <2>15. \E i, j \in 1..5 : full[i] = Query("specs", b) /\ full[j] = Query("insights", b)
    BY <2>4, <2>13 DEF q1, q2
  <2>16. full \in Seq(PlanQueries) /\ 5 = Len(full) /\ 5 \in Nat \ {0}
    <3>1. full \in Seq(PlanQueries)
      BY <2>3
    <3>2. 5 = Len(full) /\ 5 \in Nat \ {0}
      BY <2>4
    <3> QED
      BY <3>1, <3>2, Zenon
  <2>17. op # "compare" /\ op # "get_specs" /\ op # "coverage"
    BY <1>4
  <2>18. WellPlanned(op, bikes, full, 5)
    BY <2>10, <2>11, <2>12, <2>14, <2>15, <2>16, <2>17 DEF WellPlanned
  <2> QED
    BY <2>1, <2>4, <2>18
<1>5. CASE op = "get_specs"
  <2> DEFINE x == <<q1>>
             full == x \o <<q3, q4, q5>>
  <2>1. Plan(op, bikes) = full
    BY <1>5 DEF Plan, SpecsPlan, Coverage
  <2> HIDE DEF q1, q2, q3, q4, q5
  <2>2. x \in Seq(PlanQueries) /\ Len(x) = 1 /\ x[1] = q1
    BY <1>3, ShortPlans, Zenon
  <2>2a. /\ x \in Seq(PlanQueries)
         /\ q3 \in PlanQueries /\ q4 \in PlanQueries /\ q5 \in PlanQueries
    BY <1>3, <2>2
  <2> HIDE DEF x, full
  <2>3. /\ full \in Seq(PlanQueries) /\ Len(full) = Len(x) + 3
        /\ \A i \in 1..Len(x) : full[i] = x[i]
        /\ full[Len(x) + 1] = q3 /\ full[Len(x) + 2] = q4 /\ full[Len(x) + 3] = q5
    BY <2>2a, Appended DEF full
  <2>4. Len(full) = 4 /\ full[1] = q1 /\ full[2] = q3 /\ full[3] = q4 /\ full[4] = q5
    BY <2>2, <2>3
  <2>5. 1..4 = {1, 2, 3, 4}
    OBVIOUS
  <2>6. \A i \in {1, 2, 3, 4} : full[i].bike = b
    BY <1>3, <2>4
  <2>7. /\ full[1].kind = "specs"
        /\ full[2].kind = "spec keys"
        /\ full[3].kind = "topics"
        /\ full[4].kind = "pending"
    BY <1>3, <2>4
  <2>8. \A i \in {1, 2, 3, 4} : full[i].kind = "specs" <=> i = 1
    BY <2>7
  <2>9. \A i \in {1, 2, 3, 4} : full[i].kind # "insights"
    BY <2>7
  <2>10. \A i \in 1..4 : \E k \in DOMAIN bikes : full[i].bike = bikes[k]
    BY <1>0, <1>5, <2>5, <2>6
  <2>11. \A i, j \in 1..4 :
           j < i /\ full[i].kind \in {"specs", "insights"} =>
              full[j].kind \in {"specs", "insights"}
    BY <2>5, <2>8, <2>9
  <2>12. \A i, j \in 1..4 : full[i].kind = "insights" /\ full[j].kind = "insights" => i = j
    BY <2>5, <2>9
  <2>13. 1..4 = {1, 2, 3, 4} /\ 1..(4 - 1) = {1, 2, 3}
    OBVIOUS
  <2>14. full[4] = Query("pending", b) /\ \E i, j \in 1..(4 - 1) :
            full[i] = Query("spec keys", b) /\ full[j] = Query("topics", b)
    BY <2>4, <2>13 DEF q3, q4, q5
  <2>15. \E i \in 1..4 : full[i] = Query("specs", b)
    BY <2>4, <2>13 DEF q1
  <2>16. full \in Seq(PlanQueries) /\ 4 = Len(full) /\ 4 \in Nat \ {0}
    <3>1. full \in Seq(PlanQueries)
      BY <2>3
    <3>2. 4 = Len(full) /\ 4 \in Nat \ {0}
      BY <2>4
    <3> QED
      BY <3>1, <3>2, Zenon
  <2>17. op # "compare" /\ op # "page" /\ op # "coverage"
    BY <1>5
  <2>18. WellPlanned(op, bikes, full, 4)
    BY <2>10, <2>11, <2>12, <2>14, <2>15, <2>16, <2>17 DEF WellPlanned
  <2> QED
    BY <2>1, <2>4, <2>18
<1>6. CASE op = "coverage"
  <2> DEFINE full == <<q3, q4, q5>>
  <2>1. Plan(op, bikes) = full
    BY <1>6 DEF Plan, Coverage
  <2> HIDE DEF q1, q2, q3, q4, q5
  <2>3. /\ full \in Seq(PlanQueries) /\ Len(full) = 3
        /\ full[1] = q3 /\ full[2] = q4 /\ full[3] = q5
    BY <1>3, ShortPlans, Zenon
  <2> HIDE DEF full
  <2>5. 1..3 = {1, 2, 3}
    OBVIOUS
  <2>6. \A i \in {1, 2, 3} : full[i].bike = b
    BY <1>3, <2>3
  <2>7. /\ full[1].kind = "spec keys"
        /\ full[2].kind = "topics"
        /\ full[3].kind = "pending"
    BY <1>3, <2>3
  <2>8. \A i \in {1, 2, 3} : full[i].kind # "specs"
    BY <2>7
  <2>9. \A i \in {1, 2, 3} : full[i].kind # "insights"
    BY <2>7
  <2>10. \A i \in 1..3 : \E k \in DOMAIN bikes : full[i].bike = bikes[k]
    BY <1>0, <1>6, <2>5, <2>6
  <2>11. \A i, j \in 1..3 :
           j < i /\ full[i].kind \in {"specs", "insights"} =>
              full[j].kind \in {"specs", "insights"}
    BY <2>5, <2>8, <2>9
  <2>12. \A i, j \in 1..3 : full[i].kind = "insights" /\ full[j].kind = "insights" => i = j
    BY <2>5, <2>9
  <2>13. 1..3 = {1, 2, 3} /\ 1..(3 - 1) = {1, 2}
    OBVIOUS
  <2>14. full[3] = Query("pending", b) /\ \E i, j \in 1..(3 - 1) :
            full[i] = Query("spec keys", b) /\ full[j] = Query("topics", b)
    BY <2>3, <2>13 DEF q3, q4, q5
  <2>15. \A i \in 1..3 : full[i].kind \notin {"specs", "insights"}
    BY <2>5, <2>8, <2>9
  <2>16. full \in Seq(PlanQueries) /\ 3 = Len(full) /\ 3 \in Nat \ {0}
    <3>1. full \in Seq(PlanQueries)
      BY <2>3
    <3>2. 3 = Len(full) /\ 3 \in Nat \ {0}
      BY <2>3
    <3> QED
      BY <3>1, <3>2, Zenon
  <2>17. op # "compare" /\ op # "page" /\ op # "get_specs"
    BY <1>6
  <2>18. WellPlanned(op, bikes, full, 3)
    BY <2>10, <2>11, <2>12, <2>14, <2>15, <2>16, <2>17 DEF WellPlanned
  <2> QED
    BY <2>1, <2>3, <2>18
<1>7. CASE op = "compare"
  <2> DEFINE full == Plan(op, bikes)
  <2>1. full = [i \in DOMAIN bikes |-> Query("specs", bikes[i])]
    BY <1>7 DEF Plan, ComparePlan
  <2>2. DOMAIN bikes = 1..Len(bikes) /\ Len(bikes) \in Nat \ {0}
    BY <1>7
  <2>3. ASSUME NEW i \in 1..Len(bikes)
        PROVE  /\ full[i] = Query("specs", bikes[i]) /\ full[i] \in PlanQueries
               /\ full[i].kind = "specs" /\ full[i].bike = bikes[i]
    <3>1. full[i] = Query("specs", bikes[i]) /\ bikes[i] \in Variants
      BY <2>1, <2>2
    <3> QED
      BY <3>1 DEF Query, Kinds, PlanQueries
  <2> HIDE DEF full
  <2>4. full \in Seq(PlanQueries) /\ Len(full) = Len(bikes)
    BY <2>1, <2>2, <2>3
  <2>5. WellPlanned(op, bikes, full, Len(bikes))
    BY <1>7, <2>2, <2>3, <2>4 DEF WellPlanned
  <2> QED
    BY <2>4, <2>5 DEF full
<1> QED
  BY <1>4, <1>5, <1>6, <1>7 DEF Reads

-----------------------------------------------------------------------------
(* The steps of a read                                                       *)

\* A query changes nothing of what the read was asked.
SameRead(r, s) ==
    /\ s.op = r.op /\ s.bikes = r.bikes /\ s.keys = r.keys
    /\ s.before = r.before /\ s.outcome = r.outcome

LEMMA Recorded ==
  ASSUME NEW r \in ReadType, NEW S \in SUBSET Facts
  PROVE  /\ LET s == [r EXCEPT !.specs = S] IN
               /\ s \in ReadType /\ SameRead(r, s)
               /\ s.specs = S /\ s.insights = r.insights /\ s.present = r.present
         /\ LET s == [r EXCEPT !.insights = S] IN
               /\ s \in ReadType /\ SameRead(r, s)
               /\ s.specs = r.specs /\ s.insights = S /\ s.present = r.present
         /\ LET s == [r EXCEPT !.present = S] IN
               /\ s \in ReadType /\ SameRead(r, s)
               /\ s.specs = r.specs /\ s.insights = r.insights /\ s.present = S
         /\ LET s == [r EXCEPT !.pending = S] IN
               /\ s \in ReadType /\ SameRead(r, s)
               /\ s.specs = r.specs /\ s.insights = r.insights /\ s.present = r.present
<1>1. /\ [r EXCEPT !.specs = S] \in ReadType
      /\ [r EXCEPT !.insights = S] \in ReadType
      /\ [r EXCEPT !.present = S] \in ReadType
      /\ [r EXCEPT !.pending = S] \in ReadType
  BY DEF ReadType
<1>2. LET s == [r EXCEPT !.specs = S] IN
         SameRead(r, s) /\ s.specs = S /\ s.insights = r.insights /\ s.present = r.present
  BY DEF ReadType, SameRead
<1>3. LET s == [r EXCEPT !.insights = S] IN
         SameRead(r, s) /\ s.specs = r.specs /\ s.insights = S /\ s.present = r.present
  BY DEF ReadType, SameRead
<1>4. LET s == [r EXCEPT !.present = S] IN
         SameRead(r, s) /\ s.specs = r.specs /\ s.insights = r.insights /\ s.present = S
  BY DEF ReadType, SameRead
<1>5. LET s == [r EXCEPT !.pending = S] IN
         /\ SameRead(r, s)
         /\ s.specs = r.specs /\ s.insights = r.insights /\ s.present = r.present
  BY DEF ReadType, SameRead
<1> QED
  BY <1>1, <1>2, <1>3, <1>4, <1>5, Zenon

LEMMA Moved ==
  ASSUME NEW r \in ReadType, NEW p \in Seq(PlanQueries), NEW o \in {"answered", "reading"},
         read' = [r EXCEPT !.plan = p, !.outcome = o]
  PROVE  /\ read' \in ReadType
         /\ read'.op = r.op /\ read'.bikes = r.bikes /\ read'.keys = r.keys
         /\ read'.system = r.system /\ read'.before = r.before /\ read'.text = r.text /\ read'.market = r.market
         /\ read'.list = r.list /\ read'.specs = r.specs /\ read'.insights = r.insights
         /\ read'.present = r.present /\ read'.pending = r.pending
         /\ read'.plan = p /\ read'.outcome = o
  BY DEF ReadType, PlanQueries, Kinds

\* A read that asks is under way, and asks the next query of its plan.
LEMMA AskFacts ==
  ASSUME IInv, NEW kind, Asks(kind)
  PROVE  /\ read.op \in Reads /\ read.outcome = "reading"
         /\ read.bikes \in Seq(Variants)
         /\ IF read.op = "compare" THEN Len(read.bikes) > 0 ELSE Len(read.bikes) = 1
         /\ WellPlanned(read.op, read.bikes, Full, Len(Full))
         /\ read.plan \in Seq(PlanQueries) /\ Len(read.plan) \in Nat \ {0}
         /\ Len(Full) \in Nat \ {0} /\ Done \in Nat /\ Done + 1 <= Len(Full)
         /\ Head(read.plan) = Full[Done + 1] /\ Full[Done + 1].kind = kind
         /\ Len(read.plan) = Len(Full) - Done
<1>1. read \in ReadType /\ read.plan # <<>> /\ Head(read.plan).kind = kind
  BY DEF IInv, StoreInv, Asks
<1>2. /\ read.plan \in Seq(PlanQueries) /\ read.bikes \in Seq(Variants)
      /\ read.op \in {"none", "lookup"} \cup Reads
      /\ read.outcome \in {"idle", "reading", "answered", "failed"}
  BY <1>1 DEF ReadType, PlanQueries, Kinds, Reads
<1>3. read.op # "none"
  <2>1. Idle.plan = <<>>
    BY DEF Idle
  <2> QED
    BY <1>1, <2>1 DEF IInv, PlanInv
<1>4. read.op \in Reads /\ read.outcome \notin {"failed", "answered", "idle"}
  BY <1>1, <1>2, <1>3 DEF IInv, PlanInv
<1>5. /\ Len(read.plan) <= Len(Full)
      /\ \A i \in DOMAIN read.plan : read.plan[i] = Full[Done + i]
      /\ IF read.op = "compare" THEN Len(read.bikes) > 0 ELSE Len(read.bikes) = 1
  BY <1>4 DEF IInv, PlanInv
<1>6. WellPlanned(read.op, read.bikes, Full, Len(Full))
  BY <1>2, <1>4, <1>5, PlanFacts DEF Full
<1>7. Len(Full) \in Nat \ {0}
  BY <1>6 DEF WellPlanned
<1>8. Len(read.plan) \in Nat \ {0} /\ 1 \in DOMAIN read.plan /\ Head(read.plan) = read.plan[1]
  BY <1>1, <1>2
<1>9. Done \in Nat /\ Done + 1 <= Len(Full) /\ Len(read.plan) = Len(Full) - Done
  BY <1>5, <1>7, <1>8 DEF Done
<1> QED
  BY <1>1, <1>2, <1>4, <1>5, <1>6, <1>7, <1>8, <1>9

\* The answer of a query moves the read on by one, whatever it brought.
LEMMA AdvanceFacts ==
  ASSUME IInv, NEW kind, Asks(kind),
         NEW record \in ReadType, Advance(record),
         record.op = read.op, record.bikes = read.bikes, record.outcome = read.outcome,
         record.specs \cup record.insights \cup record.present \cup record.before
            \subseteq known
  PROVE  /\ StoreInv' /\ PlanInv' /\ LookupDecided'
         /\ Full' = Full /\ Done' = Done + 1
         /\ read'.op = record.op /\ read'.bikes = record.bikes /\ read'.keys = record.keys
         /\ read'.before = record.before /\ read'.specs = record.specs
         /\ read'.insights = record.insights /\ read'.present = record.present
         /\ read'.pending = record.pending
         /\ read'.outcome = IF Len(read.plan) = 1 THEN "answered" ELSE "reading"
<1> DEFINE o == IF Len(read.plan) = 1 THEN "answered" ELSE "reading"
           p == Tail(read.plan)
<1>1. /\ read.op \in Reads /\ read.outcome = "reading"
      /\ IF read.op = "compare" THEN Len(read.bikes) > 0 ELSE Len(read.bikes) = 1
      /\ read.plan \in Seq(PlanQueries) /\ Len(read.plan) \in Nat \ {0}
      /\ Len(Full) \in Nat \ {0} /\ Done \in Nat /\ Done + 1 <= Len(Full)
      /\ Len(read.plan) = Len(Full) - Done
  BY AskFacts
<1>2. \A i \in DOMAIN read.plan : read.plan[i] = Full[Done + i]
  BY <1>1 DEF IInv, PlanInv
<1>3. p \in Seq(PlanQueries) /\ Len(p) = Len(read.plan) - 1 /\ Len(p) \in Nat
      /\ \A i \in 1..Len(p) : p[i] = read.plan[i + 1]
  BY <1>1
<1>4. read' = [record EXCEPT !.plan = p, !.outcome = o] /\ UNCHANGED <<answer, known, zeros>>
  BY <1>1 DEF Advance
<1> HIDE DEF p
<1>5. o \in {"answered", "reading"} /\ (o = "answered" <=> Len(p) = 0)
  BY <1>1, <1>3
<1> HIDE DEF o
<1>6. /\ read' \in ReadType
      /\ read'.op = record.op /\ read'.bikes = record.bikes /\ read'.keys = record.keys
      /\ read'.before = record.before /\ read'.specs = record.specs
      /\ read'.insights = record.insights /\ read'.present = record.present
      /\ read'.pending = record.pending /\ read'.plan = p /\ read'.outcome = o
  <2>1. p \in Seq(PlanQueries) /\ o \in {"answered", "reading"}
    BY <1>3, <1>5
  <2>2. read' = [record EXCEPT !.plan = p, !.outcome = o]
    BY <1>4
  <2> QED
    BY <2>1, <2>2, Moved
<1>7. Full' = Full
  BY <1>6 DEF Full
<1>8. Done' = Done + 1
  <2>1. Done' = Len(Full') - Len(read'.plan)
    BY DEF Done
  <2>2. Done' = Len(Full) - Len(p)
    BY <1>6, <1>7, <2>1
  <2> QED
    BY <1>1, <1>3, <2>2
<1>9. StoreInv'
  BY <1>4, <1>6 DEF IInv, StoreInv
<1>10. PlanInv'
  <2>1. \A i \in 1..Len(p) : p[i] = Full[Done + 1 + i]
    <3> TAKE i \in 1..Len(p)
    <3>0. DOMAIN read.plan = 1..Len(read.plan)
      BY <1>1
    <3>1. i + 1 \in DOMAIN read.plan /\ p[i] = read.plan[i + 1]
      <4>1. i + 1 \in 1..Len(read.plan)
        BY <1>1, <1>3
      <4> QED
        BY <1>3, <3>0, <4>1
    <3>2. read.plan[i + 1] = Full[Done + (i + 1)]
      BY <1>2, <3>1
    <3>3. Done + (i + 1) = Done + 1 + i
      BY <1>1, <1>3
    <3> QED
      BY <3>1, <3>2, <3>3
  <2>2. Len(p) <= Len(Full) /\ DOMAIN p = 1..Len(p) /\ (p = <<>> <=> Len(p) = 0)
    BY <1>1, <1>3
  <2>3. read'.op \in Reads /\ read'.op # "none" /\ read'.op # "lookup"
    BY <1>1, <1>6 DEF Reads
  <2>4. \A i \in DOMAIN read'.plan : read'.plan[i] = Full'[Done' + i]
    BY <1>6, <1>7, <1>8, <2>1, <2>2
  <2>5. read'.outcome # "idle" /\ read'.outcome # "failed"
    BY <1>5, <1>6
  <2>6. read'.outcome = "answered" <=> read'.plan = <<>>
    BY <1>5, <1>6, <2>2
  <2>7. Len(read'.plan) <= Len(Full')
    BY <1>6, <1>7, <2>2
  <2>8. IF read'.op = "compare" THEN Len(read'.bikes) > 0 ELSE Len(read'.bikes) = 1
    BY <1>1, <1>6
  <2> QED
    BY <2>3, <2>4, <2>5, <2>6, <2>7, <2>8 DEF PlanInv
<1>11. LookupDecided'
  BY <1>1, <1>6 DEF Reads, LookupDecided
<1> QED
  BY <1>6, <1>7, <1>8, <1>9, <1>10, <1>11 DEF o

LEMMA AnswersGoOn ==
  ASSUME IInv, NEW kind, Asks(kind), Full' = Full, Done' = Done + 1,
         \A i \in 1..Done : Brought(read, Full[i]) => Brought(read', Full[i]),
         Brought(read', Full[Done + 1])
  PROVE  AnswersInv'
<1>1. read.op \in Reads /\ read.outcome = "reading" /\ Done \in Nat
  BY AskFacts
<1>2. \A i \in 1..Done : Brought(read, Full[i])
  BY <1>1 DEF IInv, AnswersInv
<1>3. \A i \in 1..(Done + 1) : Brought(read', Full[i])
  <2> TAKE i \in 1..(Done + 1)
  <2>1. i \in 1..Done \/ i = Done + 1
    BY <1>1
  <2> QED
    BY <1>2, <2>1
<1>4. \A i \in 1..Done' : Brought(read', Full'[i])
  BY <1>3
<1> QED
  BY <1>4 DEF AnswersInv

\* The facts a query selects are stored.
LEMMA SelectedFacts ==
  ASSUME IInv, NEW kind, Asks(kind), NEW keys
  PROVE  /\ Selected(keys) \in SUBSET known /\ Selected(keys) \in SUBSET Facts
         /\ \A f \in known : BikeOf[f] = Full[Done + 1].bike /\ KeyOf[f] \in keys
               => f \in Selected(keys)
<1>1. Head(read.plan) = Full[Done + 1]
  BY AskFacts
<1> QED
  BY <1>1 DEF Selected, IInv, StoreInv

LEMMA SpecsStep ==
  ASSUME IInv, ReadSpecs
  PROVE  IInv'
<1> DEFINE rows == Selected(read.keys \ Topics)
           S == read.specs \cup rows
           record == [read EXCEPT !.specs = S]
<1>1. Asks("specs") /\ Advance(record)
  BY DEF ReadSpecs
<1>2. read \in ReadType /\ known \subseteq Facts
      /\ read.specs \cup read.insights \cup read.present \cup read.before \subseteq known
  BY DEF IInv, StoreInv
<1>3. /\ rows \in SUBSET known
      /\ \A f \in known : BikeOf[f] = Full[Done + 1].bike /\ KeyOf[f] \in read.keys \ Topics
            => f \in rows
  BY <1>1, SelectedFacts
<1> HIDE DEF rows
<1>4. S \in SUBSET Facts /\ S \in SUBSET known
  BY <1>2, <1>3
<1> HIDE DEF S
<1>5. /\ record \in ReadType /\ SameRead(read, record)
      /\ record.specs = S /\ record.insights = read.insights /\ record.present = read.present
  BY <1>2, <1>4, Recorded
<1> HIDE DEF record
<1>6. /\ StoreInv' /\ PlanInv' /\ LookupDecided' /\ Full' = Full /\ Done' = Done + 1
      /\ read'.keys = read.keys /\ read'.before = read.before /\ read'.specs = S
      /\ read'.insights = read.insights /\ read'.present = read.present
  <2>1. record.specs \cup record.insights \cup record.present \cup record.before
           \subseteq known
    BY <1>2, <1>4, <1>5 DEF SameRead
  <2> QED
    BY <1>1, <1>5, <2>1, AdvanceFacts DEF SameRead
<1>7. /\ WellPlanned(read.op, read.bikes, Full, Len(Full))
      /\ Full[Done + 1].kind = "specs" /\ Done \in Nat /\ Len(Full) \in Nat
      /\ Done + 1 <= Len(Full)
  BY <1>1, AskFacts
<1>8. ASSUME NEW i \in 1..Done, Brought(read, Full[i]) PROVE Brought(read', Full[i])
  <2>1. i \in 1..Len(Full) /\ Done + 1 \in 1..Len(Full) /\ i < Done + 1
    BY <1>7
  <2>2. Full[i].kind \in {"specs", "insights"}
    BY <1>7, <2>1 DEF WellPlanned
  <2>3. read.specs \subseteq S
    BY DEF S
  <2> QED
    BY <1>6, <1>8, <2>2, <2>3 DEF Brought
<1>9. Brought(read', Full[Done + 1])
  BY <1>2, <1>3, <1>6, <1>7 DEF Brought, S
<1>10. AnswersInv'
  BY <1>1, <1>6, <1>8, <1>9, AnswersGoOn
<1> QED
  BY <1>6, <1>10 DEF IInv

LEMMA InsightsStep ==
  ASSUME IInv, ReadInsights
  PROVE  IInv'
<1> DEFINE S == Selected(Topics)
           record == [read EXCEPT !.insights = S]
<1>1. Asks("insights") /\ Advance(record)
  BY DEF ReadInsights
<1>2. read \in ReadType /\ known \subseteq Facts
      /\ read.specs \cup read.insights \cup read.present \cup read.before \subseteq known
  BY DEF IInv, StoreInv
<1>3. /\ S \in SUBSET known /\ S \in SUBSET Facts
      /\ \A f \in known : BikeOf[f] = Full[Done + 1].bike /\ KeyOf[f] \in Topics => f \in S
  BY <1>1, SelectedFacts
<1> HIDE DEF S
<1>5. /\ record \in ReadType /\ SameRead(read, record)
      /\ record.specs = read.specs /\ record.insights = S /\ record.present = read.present
  BY <1>2, <1>3, Recorded
<1> HIDE DEF record
<1>6. /\ StoreInv' /\ PlanInv' /\ LookupDecided' /\ Full' = Full /\ Done' = Done + 1
      /\ read'.keys = read.keys /\ read'.before = read.before /\ read'.specs = read.specs
      /\ read'.insights = S /\ read'.present = read.present
  <2>1. record.specs \cup record.insights \cup record.present \cup record.before
           \subseteq known
    BY <1>2, <1>3, <1>5 DEF SameRead
  <2> QED
    BY <1>1, <1>5, <2>1, AdvanceFacts DEF SameRead
<1>7. /\ WellPlanned(read.op, read.bikes, Full, Len(Full))
      /\ Full[Done + 1].kind = "insights" /\ Done \in Nat /\ Len(Full) \in Nat
      /\ Done + 1 <= Len(Full)
  BY <1>1, AskFacts
<1>8. ASSUME NEW i \in 1..Done, Brought(read, Full[i]) PROVE Brought(read', Full[i])
  <2>1. i \in 1..Len(Full) /\ Done + 1 \in 1..Len(Full) /\ i < Done + 1
    BY <1>7
  <2>2. Full[i].kind \in {"specs", "insights"}
    BY <1>7, <2>1 DEF WellPlanned
  <2>3. Full[i].kind # "insights"
    <3>1. i # Done + 1
      BY <1>7, <2>1
    <3> QED
      BY <1>7, <2>1, <3>1 DEF WellPlanned
  <2> QED
    BY <1>6, <1>8, <2>2, <2>3 DEF Brought
<1>9. Brought(read', Full[Done + 1])
  BY <1>2, <1>3, <1>6, <1>7 DEF Brought
<1>10. AnswersInv'
  BY <1>1, <1>6, <1>8, <1>9, AnswersGoOn
<1> QED
  BY <1>6, <1>10 DEF IInv

LEMMA PendingStep ==
  ASSUME IInv, ReadPending
  PROVE  IInv'
<1> DEFINE S == {f \in Facts : BikeOf[f] = Head(read.plan).bike /\ answer[f] = "researching"}
           record == [read EXCEPT !.pending = S]
<1>1. Asks("pending") /\ Advance(record)
  BY DEF ReadPending
<1>2. read \in ReadType
      /\ read.specs \cup read.insights \cup read.present \cup read.before \subseteq known
  BY DEF IInv, StoreInv
<1>3. S \in SUBSET Facts
  OBVIOUS
<1> HIDE DEF S
<1>5. /\ record \in ReadType /\ SameRead(read, record)
      /\ record.specs = read.specs /\ record.insights = read.insights /\ record.present = read.present
  BY <1>2, <1>3, Recorded
<1> HIDE DEF record
<1>6. /\ StoreInv' /\ PlanInv' /\ LookupDecided' /\ Full' = Full /\ Done' = Done + 1
      /\ read'.keys = read.keys /\ read'.before = read.before /\ read'.specs = read.specs
      /\ read'.insights = read.insights /\ read'.present = read.present
  BY <1>1, <1>2, <1>5, AdvanceFacts DEF SameRead
<1>7. Full[Done + 1].kind = "pending"
  BY <1>1, AskFacts
<1>8. \A q : Brought(read, q) => Brought(read', q)
  BY <1>6 DEF Brought
<1>9. Brought(read', Full[Done + 1])
  BY <1>7 DEF Brought
<1>10. AnswersInv'
  BY <1>1, <1>6, <1>8, <1>9, AnswersGoOn
<1> QED
  BY <1>6, <1>10 DEF IInv

\* A query for what is stored.
LEMMA StoredStep ==
  ASSUME IInv, NEW kind \in {"spec keys", "topics"}, NEW keys, Asks(kind),
         Advance([read EXCEPT !.present = @ \cup Selected(keys)]),
         \A f \in Facts : KeyOf[f] \in keys <=> (kind = "topics" <=> KeyOf[f] \in Topics)
  PROVE  IInv'
<1> DEFINE rows == Selected(keys)
           S == read.present \cup rows
           record == [read EXCEPT !.present = S]
<1>1. Advance(record)
  OBVIOUS
<1>2. read \in ReadType /\ known \subseteq Facts
      /\ read.specs \cup read.insights \cup read.present \cup read.before \subseteq known
  BY DEF IInv, StoreInv
<1>3. /\ rows \in SUBSET known
      /\ \A f \in known : BikeOf[f] = Full[Done + 1].bike /\ KeyOf[f] \in keys => f \in rows
  BY SelectedFacts
<1> HIDE DEF rows
<1>4. S \in SUBSET Facts /\ S \in SUBSET known
  BY <1>2, <1>3
<1> HIDE DEF S
<1>5. /\ record \in ReadType /\ SameRead(read, record)
      /\ record.specs = read.specs /\ record.insights = read.insights /\ record.present = S
  BY <1>2, <1>4, Recorded
<1> HIDE DEF record
<1>6. /\ StoreInv' /\ PlanInv' /\ LookupDecided' /\ Full' = Full /\ Done' = Done + 1
      /\ read'.keys = read.keys /\ read'.before = read.before /\ read'.specs = read.specs
      /\ read'.insights = read.insights /\ read'.present = S
  <2>1. record.specs \cup record.insights \cup record.present \cup record.before
           \subseteq known
    BY <1>2, <1>4, <1>5 DEF SameRead
  <2> QED
    BY <1>1, <1>5, <2>1, AdvanceFacts DEF SameRead
<1>7. Full[Done + 1].kind = kind
  BY AskFacts
<1>8. \A q : Brought(read, q) => Brought(read', q)
  <2>1. read.present \subseteq S
    BY DEF S
  <2> QED
    BY <1>6, <2>1 DEF Brought
<1>9. Brought(read', Full[Done + 1])
  <2>1. \A f \in read.before \cup read.specs \cup read.insights :
           /\ BikeOf[f] = Full[Done + 1].bike
           /\ kind = "topics" <=> KeyOf[f] \in Topics
           => f \in S
    BY <1>2, <1>3 DEF S
  <2> QED
    BY <1>6, <1>7, <2>1 DEF Brought
<1>10. AnswersInv'
  BY <1>1, <1>6, <1>8, <1>9, AnswersGoOn
<1> QED
  BY <1>6, <1>10 DEF IInv

LEMMA PresentStep ==
  ASSUME IInv, ReadPresent
  PROVE  IInv'
<1>1. \A f \in Facts : KeyOf[f] \in AllKeys
  BY DEF AllKeys
<1>2. CASE /\ Asks("spec keys")
           /\ Advance([read EXCEPT !.present = @ \cup Selected(AllKeys \ Topics)])
  <2>1. \A f \in Facts :
           KeyOf[f] \in AllKeys \ Topics <=> ("spec keys" = "topics" <=> KeyOf[f] \in Topics)
    BY <1>1
  <2> QED
    BY <1>2, <2>1, StoredStep
<1>3. CASE /\ Asks("topics")
           /\ Advance([read EXCEPT !.present = @ \cup Selected(Topics)])
  BY <1>3, StoredStep
<1> QED
  BY <1>2, <1>3 DEF ReadPresent

LEMMA IdleFacts ==
  /\ Idle \in ReadType
  /\ Idle.op = "none" /\ Idle.bikes = <<>> /\ Idle.plan = <<>> /\ Idle.outcome = "idle"
  /\ Idle.specs = {} /\ Idle.insights = {} /\ Idle.present = {} /\ Idle.before = {}
<1>1. <<>> \in Seq(Variants) /\ <<>> \in Seq([kind : Kinds, bike : Variants])
  OBVIOUS
<1> QED
  BY <1>1 DEF Idle, ReadType, Systems, Kinds

LEMMA BreakStep ==
  ASSUME IInv, ReadBreaks
  PROVE  IInv'
<1>1. /\ read.op \in Reads /\ read.outcome = "reading"
      /\ IF read.op = "compare" THEN Len(read.bikes) > 0 ELSE Len(read.bikes) = 1
  BY AskFacts DEF ReadBreaks
<1>2. /\ read \in ReadType
      /\ read.specs \cup read.insights \cup read.present \cup read.before \subseteq known
      /\ known \subseteq Facts /\ zeros \subseteq {f \in known : KeyOf[f] \in Reciprocal}
  BY DEF IInv, StoreInv
<1>3. /\ read' = [read EXCEPT !.plan = <<>>, !.outcome = "failed"]
      /\ UNCHANGED <<answer, known, zeros>>
  BY DEF ReadBreaks
<1>4. /\ read' \in ReadType /\ read'.op = read.op /\ read'.bikes = read.bikes
      /\ read'.plan = <<>> /\ read'.outcome = "failed" /\ read'.specs = read.specs
      /\ read'.insights = read.insights /\ read'.present = read.present
      /\ read'.before = read.before
  <2>1. <<>> \in Seq([kind : Kinds, bike : Variants])
    OBVIOUS
  <2> QED
    BY <1>2, <1>3, <2>1 DEF ReadType, Kinds
<1>5. StoreInv'
  BY <1>2, <1>3, <1>4 DEF StoreInv
<1>6. read'.op # "none" /\ read'.op # "lookup"
  BY <1>1, <1>4 DEF Reads
<1>7. PlanInv'
  BY <1>1, <1>4, <1>6 DEF PlanInv
<1>8. AnswersInv' /\ LookupDecided'
  BY <1>4, <1>6 DEF AnswersInv, LookupDecided
<1> QED
  BY <1>5, <1>7, <1>8 DEF IInv

LEMMA CloseStep ==
  ASSUME IInv, Close
  PROVE  IInv'
<1>1. read' = Idle /\ UNCHANGED <<answer, known, zeros>>
  BY DEF Close
<1>2. known \subseteq Facts /\ zeros \subseteq {f \in known : KeyOf[f] \in Reciprocal}
  BY DEF IInv, StoreInv
<1>3. StoreInv'
  BY <1>1, <1>2, IdleFacts DEF StoreInv
<1>4. PlanInv' /\ AnswersInv' /\ LookupDecided'
  BY <1>1, IdleFacts DEF PlanInv, AnswersInv, LookupDecided, Reads
<1> QED
  BY <1>3, <1>4 DEF IInv

LEMMA BeginStep ==
  ASSUME IInv, NEW op \in Reads, NEW bikes \in BikeLists, NEW keys \in KeyFilters,
         NEW system \in Systems, Begin(op, bikes, keys, system)
  PROVE  IInv'
<1> DEFINE p == Plan(op, bikes)
<1>1. bikes \in Seq(Variants) /\ Len(bikes) > 0
  <2>1. \A f \in Facts : BikeOf[f] \in Variants
    BY CatalogAssumption
  <2>2. \E v, w \in Variants : bikes = <<v>> \/ bikes = <<v, w>>
    BY <2>1 DEF BikeLists
  <2>3. PICK v \in Variants, w \in Variants : bikes = <<v>> \/ bikes = <<v, w>>
    BY <2>2
  <2>4. /\ <<v>> \in Seq(Variants) /\ <<v, w>> \in Seq(Variants)
        /\ Len(<<v>>) = 1 /\ Len(<<v, w>>) = 2
    BY ShortPlans
  <2>5. CASE bikes = <<v>>
    BY <2>4, <2>5
  <2>6. CASE bikes = <<v, w>>
    BY <2>4, <2>6
  <2> QED
    BY <2>3, <2>5, <2>6
<1>2. IF op = "compare" THEN Len(bikes) > 0 ELSE Len(bikes) = 1
  <2>1. op # "compare" => Len(bikes) = 1
    BY DEF Begin, Legal
  <2> QED
    BY <1>1, <2>1
<1>3. WellPlanned(op, bikes, p, Len(p))
  BY <1>1, <1>2, PlanFacts
<1>4. p \in Seq(PlanQueries) /\ Len(p) \in Nat \ {0}
  BY <1>3 DEF WellPlanned
<1>5. p # <<>>
  BY <1>4
<1>6. /\ read' = [Idle EXCEPT !.op = op, !.bikes = bikes, !.keys = keys, !.system = system,
                              !.plan = p, !.before = known, !.outcome = "reading"]
      /\ UNCHANGED <<answer, known, zeros>>
  BY DEF Begin
<1> HIDE DEF p
<1>7. known \subseteq Facts /\ zeros \subseteq {f \in known : KeyOf[f] \in Reciprocal}
  BY DEF IInv, StoreInv
<1>8. /\ read' \in ReadType /\ read'.op = op /\ read'.bikes = bikes /\ read'.plan = p
      /\ read'.outcome = "reading" /\ read'.specs = {} /\ read'.insights = {}
      /\ read'.present = {} /\ read'.before = known
  <2>1. keys \in SUBSET AllKeys
    BY CatalogAssumption
  <2>2. Idle \in ReadType /\ Idle.specs = {} /\ Idle.insights = {} /\ Idle.present = {}
    BY IdleFacts
  <2> HIDE DEF Idle
  <2> QED
    BY <1>1, <1>4, <1>6, <1>7, <2>1, <2>2 DEF ReadType, Reads, PlanQueries, Kinds
<1>9. Full' = p /\ Done' = 0
  <2>1. Full' = p
    BY <1>8 DEF Full, p
  <2>2. Done' = Len(Full') - Len(read'.plan)
    BY DEF Done
  <2> QED
    BY <1>4, <1>8, <2>1, <2>2
<1>10. StoreInv'
  BY <1>6, <1>7, <1>8 DEF StoreInv
<1>11. PlanInv'
  <2>1. read'.op # "none" /\ read'.op # "lookup"
    BY <1>8 DEF Reads
  <2>2. \A i \in DOMAIN read'.plan : read'.plan[i] = Full'[Done' + i]
    BY <1>4, <1>8, <1>9
  <2> QED
    BY <1>2, <1>4, <1>5, <1>8, <1>9, <2>1, <2>2 DEF PlanInv
<1>12. AnswersInv'
  BY <1>9 DEF AnswersInv
<1>13. LookupDecided'
  BY <1>8 DEF Reads, LookupDecided
<1> QED
  BY <1>10, <1>11, <1>12, <1>13 DEF IInv

LEMMA LookUpStep ==
  ASSUME IInv, NEW query \in Queries, NEW market \in Markets,
         NEW scan \in SetToSeqs(Candidates(query, market)), LookUp(query, market, scan)
  PROVE  IInv'
<1> DEFINE list == Listed(query, scan)
<1>1. /\ read' = [Idle EXCEPT !.op = "lookup", !.text = query, !.market = market,
                              !.list = list, !.outcome = "answered"]
      /\ UNCHANGED <<answer, known, zeros>>
  BY DEF LookUp
<1>2. known \subseteq Facts /\ zeros \subseteq {f \in known : KeyOf[f] \in Reciprocal}
  BY DEF IInv, StoreInv
<1>3. list \in Seq(Variants)
  BY ListDecides
<1> HIDE DEF list
<1>4. /\ read' \in ReadType /\ read'.op = "lookup" /\ read'.text = query
      /\ read'.market = market /\ read'.list = list /\ read'.outcome = "answered"
      /\ read'.plan = <<>> /\ read'.specs = {} /\ read'.insights = {}
      /\ read'.present = {} /\ read'.before = {}
  BY <1>1, <1>3, IdleFacts DEF ReadType
<1>5. StoreInv'
  BY <1>1, <1>2, <1>4 DEF StoreInv
<1>6. PlanInv' /\ AnswersInv'
  BY <1>4 DEF PlanInv, AnswersInv, Reads
<1>7. LookupDecided'
  BY <1>4, ListDecides DEF LookupDecided, list
<1> QED
  BY <1>5, <1>6, <1>7 DEF IInv

\* The pipeline never takes back what is stored, so a read keeps what it has.
LEMMA ResearchStep ==
  ASSUME IInv, Research
  PROVE  IInv'
<1>1. UNCHANGED read /\ zeros' \subseteq {f \in known' : KeyOf[f] \in Reciprocal}
  BY DEF Research
<1>2. known \subseteq Facts /\ read \in ReadType
      /\ read.specs \cup read.insights \cup read.present \cup read.before \subseteq known
  BY DEF IInv, StoreInv
<1>3. known \subseteq known' /\ known' \subseteq Facts
  <2>1. PICK S \in SUBSET Facts : Pipeline!Ask(S) \/ Pipeline!Settle(S) \/ Pipeline!Expire(S)
    BY DEF Research, Pipeline!Next
  <2> QED
    BY <1>2, <2>1 DEF Pipeline!Ask, Pipeline!Settle, Pipeline!Expire
<1>4. StoreInv'
  BY <1>1, <1>2, <1>3 DEF StoreInv
<1>5. PlanInv' /\ AnswersInv' /\ LookupDecided'
  BY <1>1 DEF IInv, PlanInv, AnswersInv, LookupDecided, Full, Done
<1> QED
  BY <1>4, <1>5 DEF IInv

LEMMA StillStep ==
  ASSUME IInv, UNCHANGED <<known, zeros, read>>
  PROVE  IInv'
<1>1. StoreInv'
  BY DEF IInv, StoreInv
<1>2. PlanInv' /\ AnswersInv' /\ LookupDecided'
  BY DEF IInv, PlanInv, AnswersInv, LookupDecided, Full, Done
<1> QED
  BY <1>1, <1>2 DEF IInv

LEMMA CatalogInvInit == Init => IInv
<1> SUFFICES ASSUME Init PROVE IInv
  OBVIOUS
<1>1. known \subseteq Facts /\ zeros = {} /\ read = Idle
  BY CatalogAssumption DEF Init, Pipeline!Init
<1> QED
  BY <1>1, IdleFacts DEF IInv, StoreInv, PlanInv, AnswersInv, LookupDecided, Reads

LEMMA CatalogInvStep == IInv /\ [Next]_vars => IInv'
<1> SUFFICES ASSUME IInv, [Next]_vars PROVE IInv'
  OBVIOUS
<1>1. ASSUME NEW f \in Facts, Reopen(f) PROVE IInv'
  BY <1>1, StillStep DEF Reopen
<1>2. ASSUME NEW op \in {"page", "get_specs", "coverage", "compare"}, NEW bikes \in BikeLists,
             NEW keys \in KeyFilters, NEW system \in Systems, Begin(op, bikes, keys, system)
      PROVE  IInv'
  BY <1>2, BeginStep DEF Reads
<1>3. ASSUME NEW query \in Queries, NEW market \in Markets,
             NEW scan \in SetToSeqs(Candidates(query, market)), LookUp(query, market, scan)
      PROVE  IInv'
  BY <1>3, LookUpStep
<1>4. CASE UNCHANGED vars
  BY <1>4, StillStep DEF vars
<1> QED
  BY <1>1, <1>2, <1>3, <1>4, ResearchStep, SpecsStep, BreakStep, InsightsStep, PresentStep,
     PendingStep, CloseStep DEF Next

-----------------------------------------------------------------------------
(* What follows                                                              *)

LEMMA CatalogInvariant == Spec => []IInv
<1>1. Init => IInv
  BY CatalogInvInit
<1>2. IInv /\ [Next]_vars => IInv'
  BY CatalogInvStep
<1> QED
  BY <1>1, <1>2, PTL DEF Spec

\* The shape of every variable (CatalogInvariant's first part says more): only what is
\* stored is shown (service.py:111-253).
THEOREM CatalogTypeCorrect == Spec => []TypeOK
<1>1. IInv => TypeOK
  <2> SUFFICES ASSUME IInv PROVE TypeOK
    OBVIOUS
  <2> QED
    BY DEF IInv, StoreInv, TypeOK
<1> QED
  BY <1>1, CatalogInvariant, PTL

\* A complete answer has asked everything it covers about all its bikes, the stored
\* values before the keys it counts as present.
LEMMA AnsweredFacts ==
  ASSUME IInv, read.outcome = "answered", read.op # "lookup"
  PROVE  EveryFactPlaced
<1>1. read \in ReadType /\ known \subseteq Facts
      /\ read.specs \cup read.insights \cup read.present \cup read.before \subseteq known
  BY DEF IInv, StoreInv
<1>2. read.op \in Reads
  <2>1. read.op \in {"none", "lookup"} \cup Reads
    BY <1>1 DEF ReadType, Reads
  <2> QED
    BY <2>1, IdleFacts DEF IInv, PlanInv
<1>3. /\ IF read.op = "compare" THEN Len(read.bikes) > 0 ELSE Len(read.bikes) = 1
      /\ read.plan = <<>> /\ read.bikes \in Seq(Variants)
  BY <1>1, <1>2 DEF IInv, PlanInv, ReadType
<1>4. WellPlanned(read.op, read.bikes, Full, Len(Full))
  BY <1>2, <1>3, PlanFacts DEF Full
<1>5. Len(Full) \in Nat \ {0} /\ Done = Len(Full)
  <2>1. Len(Full) \in Nat \ {0}
    BY <1>4 DEF WellPlanned
  <2>2. Len(read.plan) = 0
    BY <1>3
  <2> QED
    BY <2>1, <2>2 DEF Done
<1>6. \A i \in 1..Len(Full) : Brought(read, Full[i])
  BY <1>2, <1>5 DEF IInv, AnswersInv
<1> DEFINE b == read.bikes[1]
<1>8. ASSUME NEW f \in read.before, InScope(f) PROVE f \in Shown
  <2>1. PICK k \in DOMAIN read.bikes : BikeOf[f] = read.bikes[k]
    BY <1>8 DEF InScope
  <2>2. KeyOf[f] \in read.keys
    BY <1>8 DEF InScope
  <2>3. CASE read.op = "page"
    <3>1. PICK i \in 1..Len(Full), j \in 1..Len(Full) :
             Full[i] = Query("specs", b) /\ Full[j] = Query("insights", b)
      BY <1>4, <2>3 DEF WellPlanned
    <3>2. Full[i].kind = "specs" /\ Full[i].bike = b
      BY <3>1 DEF Query
    <3>3. Full[j].kind = "insights" /\ Full[j].bike = b
      BY <3>1 DEF Query
    <3>4. BikeOf[f] = b
      BY <1>3, <2>1, <2>3
    <3>5. KeyOf[f] \notin Topics => f \in read.specs
      BY <1>6, <2>2, <3>2, <3>4 DEF Brought
    <3>6. KeyOf[f] \in Topics => f \in read.insights
      BY <1>6, <3>3, <3>4 DEF Brought
    <3> QED
      BY <3>5, <3>6 DEF Shown
  <2>4. CASE read.op = "get_specs"
    <3>1. PICK i \in 1..Len(Full) : Full[i] = Query("specs", b)
      BY <1>4, <2>4 DEF WellPlanned
    <3>2. Full[i].kind = "specs" /\ Full[i].bike = b
      BY <3>1 DEF Query
    <3>3. BikeOf[f] = b /\ KeyOf[f] \notin Topics
      BY <1>3, <1>8, <2>1, <2>4 DEF InScope
    <3> QED
      BY <1>6, <2>2, <3>2, <3>3 DEF Brought, Shown
  <2>5. CASE read.op = "compare"
    <3>1. k \in 1..Len(Full) /\ Full[k] = Query("specs", read.bikes[k])
      BY <1>3, <1>4, <2>1, <2>5 DEF WellPlanned
    <3>2. Full[k].kind = "specs" /\ Full[k].bike = read.bikes[k]
      BY <3>1 DEF Query
    <3>3. KeyOf[f] \notin Topics
      BY <1>8, <2>5 DEF InScope
    <3> QED
      BY <1>6, <2>1, <2>2, <3>1, <3>2, <3>3 DEF Brought, Shown
  <2>6. read.op \in {"page", "get_specs", "compare"}
    BY <1>8 DEF InScope
  <2> QED
    BY <2>3, <2>4, <2>5, <2>6
<1>9. ASSUME HasCoverage, NEW f \in Shown, f \in Missing(read) PROVE FALSE
  <2>1. PICK i \in 1..(Len(Full) - 1), j \in 1..(Len(Full) - 1) :
           Full[i] = Query("spec keys", b) /\ Full[j] = Query("topics", b)
    <3>1. read.op \in {"page", "get_specs", "coverage"}
      BY <1>9 DEF HasCoverage
    <3>2. \E i, j \in 1..(Len(Full) - 1) :
             Full[i] = Query("spec keys", b) /\ Full[j] = Query("topics", b)
      BY <1>4, <3>1 DEF WellPlanned
    <3> QED
      BY <3>2
  <2>2. /\ i \in 1..Len(Full) /\ Full[i].kind = "spec keys" /\ Full[i].bike = b
        /\ j \in 1..Len(Full) /\ Full[j].kind = "topics" /\ Full[j].bike = b
    <3>1. i \in 1..Len(Full) /\ j \in 1..Len(Full)
      BY <1>5
    <3>2. /\ Full[i].kind = "spec keys" /\ Full[i].bike = b
          /\ Full[j].kind = "topics" /\ Full[j].bike = b
      <4>1. Full[i] = Query("spec keys", b) /\ Full[j] = Query("topics", b)
        BY <2>1
      <4>2. \A k : Query(k, b).kind = k /\ Query(k, b).bike = b
        BY DEF Query
      <4> QED
        BY <4>1, <4>2
    <3> QED
      BY <3>1, <3>2
  <2>3. BikeOf[f] = b /\ f \notin read.present
    BY <1>9 DEF Missing
  <2>4. f \in read.specs \cup read.insights
    BY <1>9 DEF Shown
  <2>5. KeyOf[f] \notin Topics => f \in read.present
    BY <1>6, <2>2, <2>3, <2>4 DEF Brought
  <2>6. KeyOf[f] \in Topics => f \in read.present
    BY <1>6, <2>2, <2>3, <2>4 DEF Brought
  <2> QED
    BY <2>3, <2>5, <2>6
<1> QED
  BY <1>8, <1>9 DEF EveryFactPlaced

\* However the pipeline commits between its queries, an answer shows every fact in its
\* scope that was stored when it began, and lists none as missing that it shows
\* (service.py:246-253, tools.py:110-116).
THEOREM AnswersAreComplete == Spec => []EveryFactPlaced
<1>1. IInv => EveryFactPlaced
  BY AnsweredFacts DEF EveryFactPlaced
<1> QED
  BY <1>1, CatalogInvariant, PTL

\* The order in which the rows of a lookup come decides nothing, and a bike is picked
\* only when every other candidate is behind by the gap (service.py:97-108,
\* tools.py:84-93).
THEOREM LookupsAreDecided == Spec => []LookupDecided
<1>1. IInv => LookupDecided
  BY DEF IInv
<1> QED
  BY <1>1, CatalogInvariant, PTL

\* A read that is under way is moved on by its own queries only.
LEMMA Underway ==
  ASSUME IInv, [Next]_vars, read.outcome = "reading", read' # read
  PROVE  ReadSpecs \/ ReadInsights \/ ReadPresent \/ ReadPending \/ ReadBreaks
<1>1. read # Idle
  BY IdleFacts
<1>2. ~(UNCHANGED vars) /\ ~Research /\ ~Close /\ \A f \in Facts : ~Reopen(f)
  BY DEF vars, Research, Close, Reopen
<1>3. /\ \A op, bikes, keys, system : ~Begin(op, bikes, keys, system)
      /\ \A query, market, scan : ~LookUp(query, market, scan)
  BY <1>1 DEF Begin, LookUp
<1> QED
  BY <1>2, <1>3, Zenon DEF Next

LEMMA Outcomes ==
  ASSUME IInv, ReadSpecs \/ ReadInsights \/ ReadPresent \/ ReadPending
  PROVE  read'.outcome = IF Len(read.plan) = 1 THEN "answered" ELSE read.outcome
<1>1. read \in ReadType
  BY DEF IInv, StoreInv
<1>5. ASSUME NEW record \in ReadType, record.outcome = read.outcome, Advance(record)
      PROVE  read'.outcome = IF Len(read.plan) = 1 THEN "answered" ELSE read.outcome
  BY <1>5 DEF Advance, ReadType
<1>2. known \subseteq Facts /\ read.specs \subseteq known /\ read.present \subseteq known
  BY DEF IInv, StoreInv
<1>3. \A keys : Selected(keys) \in SUBSET Facts
  BY <1>2 DEF Selected
<1>4. ASSUME NEW S \in SUBSET Facts
      PROVE  /\ [read EXCEPT !.specs = S] \in ReadType
             /\ [read EXCEPT !.insights = S] \in ReadType
             /\ [read EXCEPT !.present = S] \in ReadType
             /\ [read EXCEPT !.pending = S] \in ReadType
             /\ [read EXCEPT !.specs = S].outcome = read.outcome
             /\ [read EXCEPT !.insights = S].outcome = read.outcome
             /\ [read EXCEPT !.present = S].outcome = read.outcome
             /\ [read EXCEPT !.pending = S].outcome = read.outcome
  BY <1>1, Recorded DEF SameRead
<1>6. CASE ReadSpecs
  <2> DEFINE S == read.specs \cup Selected(read.keys \ Topics)
  <2>1. S \in SUBSET Facts /\ Advance([read EXCEPT !.specs = S])
    BY <1>2, <1>3, <1>6 DEF ReadSpecs
  <2> QED
    BY <1>5, <1>4, <2>1
<1>7. CASE ReadInsights
  BY <1>5, <1>3, <1>4, <1>7 DEF ReadInsights
<1>8. CASE ReadPresent
  <2>1. PICK keys : Advance([read EXCEPT !.present = @ \cup Selected(keys)])
    BY <1>8 DEF ReadPresent
  <2> DEFINE S == read.present \cup Selected(keys)
  <2>2. S \in SUBSET Facts /\ Advance([read EXCEPT !.present = S])
    BY <1>2, <1>3, <2>1
  <2> QED
    BY <1>5, <1>4, <2>2
<1>9. CASE ReadPending
  BY <1>5, <1>4, <1>9 DEF ReadPending
<1> QED
  BY <1>6, <1>7, <1>8, <1>9

\* The step that completes an answer with coverage asks for pending research, when
\* what is stored has been asked for.
LEMMA LastStep ==
  ASSUME IInv, [Next]_vars, read.outcome = "reading", read'.outcome = "answered", HasCoverage
  PROVE  \A f \in Missing(read') \ read'.pending :
            answer[f] # "researching" /\ f \notin read.before
<1>1. read \in ReadType
  BY DEF IInv, StoreInv
<1>2. ReadSpecs \/ ReadInsights \/ ReadPresent \/ ReadPending
  <2>1. ~ReadBreaks
    BY <1>1 DEF ReadBreaks, ReadType
  <2> QED
    BY <2>1, Underway
<1>3. PICK kind : Asks(kind)
  BY <1>2 DEF ReadSpecs, ReadInsights, ReadPresent, ReadPending
<1>4. /\ read.op \in Reads /\ read.bikes \in Seq(Variants)
      /\ WellPlanned(read.op, read.bikes, Full, Len(Full))
      /\ Len(read.plan) \in Nat \ {0} /\ Len(Full) \in Nat \ {0} /\ Done \in Nat
      /\ Head(read.plan) = Full[Done + 1] /\ Len(read.plan) = Len(Full) - Done
  BY <1>3, AskFacts
<1>6. Len(read.plan) = 1
  <2>1. read'.outcome = IF Len(read.plan) = 1 THEN "answered" ELSE read.outcome
    BY <1>2, Outcomes
  <2> QED
    BY <2>1
<1> DEFINE b == read.bikes[1]
<1>7. Head(read.plan) = Query("pending", b) /\ Done + 1 = Len(Full)
  <2>1. Done + 1 = Len(Full)
    <3>1. Len(Full) \in Nat /\ Done \in Nat /\ 1 = Len(Full) - Done
      BY <1>4, <1>6, Zenon
    <3> QED
      BY <3>1
  <2>2. read.op \in {"page", "get_specs", "coverage"}
    BY DEF HasCoverage
  <2> QED
    BY <1>4, <2>1, <2>2 DEF WellPlanned
<1>8. Head(read.plan).kind = "pending" /\ Head(read.plan).bike = b
  BY <1>7 DEF Query
<1>9. ReadPending
  BY <1>2, <1>8 DEF ReadSpecs, ReadInsights, ReadPresent, Asks
<1>10. /\ read'.pending = {f \in Facts : BikeOf[f] = b /\ answer[f] = "researching"}
       /\ read'.present = read.present /\ read'.bikes = read.bikes
  <2>1. Advance([read EXCEPT !.pending =
           {f \in Facts : BikeOf[f] = b /\ answer[f] = "researching"}])
    BY <1>8, <1>9 DEF ReadPending
  <2> QED
    BY <1>1, <2>1 DEF Advance, ReadType
<1>11. \A i \in 1..Done : Brought(read, Full[i])
  BY <1>4 DEF IInv, AnswersInv
<1>12. ASSUME NEW f \in Facts, BikeOf[f] = b, f \in read.before PROVE f \in read.present
  <2>1. read.op \in {"page", "get_specs", "coverage"}
    BY DEF HasCoverage
  <2>2. \E i, j \in 1..(Len(Full) - 1) :
           Full[i] = Query("spec keys", b) /\ Full[j] = Query("topics", b)
    BY <1>4, <2>1 DEF WellPlanned
  <2>3. PICK i \in 1..(Len(Full) - 1), j \in 1..(Len(Full) - 1) :
           Full[i] = Query("spec keys", b) /\ Full[j] = Query("topics", b)
    BY <2>2
  <2>4. /\ i \in 1..Done /\ Full[i].kind = "spec keys" /\ Full[i].bike = b
        /\ j \in 1..Done /\ Full[j].kind = "topics" /\ Full[j].bike = b
    <3>1. i \in 1..Done /\ j \in 1..Done
      BY <1>4, <1>7
    <3>2. /\ Full[i].kind = "spec keys" /\ Full[i].bike = b
          /\ Full[j].kind = "topics" /\ Full[j].bike = b
      <4>1. Full[i] = Query("spec keys", b) /\ Full[j] = Query("topics", b)
        BY <2>3
      <4>2. \A k : Query(k, b).kind = k /\ Query(k, b).bike = b
        BY DEF Query
      <4> QED
        BY <4>1, <4>2
    <3> QED
      BY <3>1, <3>2
  <2>5. KeyOf[f] \notin Topics => f \in read.present
    BY <1>11, <1>12, <2>4 DEF Brought
  <2>6. KeyOf[f] \in Topics => f \in read.present
    BY <1>11, <1>12, <2>4 DEF Brought
  <2> QED
    BY <2>5, <2>6
<1> QED
  BY <1>10, <1>12 DEF Missing

\* A core fact that an answer calls missing and not pending is not being researched
\* when the answer is complete, and was not stored when it began (service.py:130-144).
THEOREM GapsAreNotResearched == Spec => GapsNotResearched
<1>1. IInv /\ [Next]_vars =>
         [read.outcome = "reading" /\ read'.outcome = "answered" /\ HasCoverage =>
             \A f \in Missing(read') \ read'.pending :
                answer[f] # "researching" /\ f \notin read.before]_vars
  BY LastStep
<1> QED
  BY <1>1, CatalogInvariant, PTL DEF Spec, GapsNotResearched

=============================================================================
