-------------------------- MODULE ResolutionProofs --------------------------
(***************************************************************************)
(* Theorems about Resolution: whatever a search finds, in whatever order,  *)
(* what a run stores is what a page of the right tier says of that fact,   *)
(* and a task is memoized as missing only when nothing usable was found;   *)
(* and the notes of the search cite in place.                              *)
(***************************************************************************)
EXTENDS Provider, TLAPS, FiniteSetTheorems, WellFoundedInduction

-----------------------------------------------------------------------------
(* Which finding is kept                                                   *)

\* A nonempty set of natural numbers has a least one.
LEMMA LeastNumber ==
  ASSUME NEW N \in SUBSET Nat, N # {}
  PROVE  \E n \in N : \A m \in N : n <= m
<1> DEFINE Less == OpToRel(<, Nat)
<1>1. IsWellFoundedOn(Less, Nat)
  BY NatLessThanWellFounded
<1> HIDE DEF Less
<1>2. PICK a \in N : \A b \in N : <<b, a>> \notin Less
  BY ONLY <1>1, N \in SUBSET Nat, N # {}, WFMin
<1>3. \A b \in Nat : b < a => <<b, a>> \in Less
  BY <1>2 DEF Less, OpToRel
<1>4. \A b \in N : a <= b
  <2> TAKE b \in N
  <2>1. ~(b < a)
    BY <1>2, <1>3
  <2> QED
    BY <2>1
<1> QED
  BY <1>4

\* A nonempty set of positions has a first one, and Min finds it.
LEMMA FirstPosition ==
  ASSUME NEW S \in SUBSET Nat, S # {}
  PROVE  Min(S) \in S
BY LeastNumber DEF Min

\* The place of i among the positions S sorted by c, equal ones as they come.
PlaceBy(c, S, i) == Cardinality({j \in S : c[j] < c[i] \/ (c[j] = c[i] /\ j < i)})

\* Places count from 0 without a gap, in the order of the values.
LEMMA PlacesBy ==
  ASSUME NEW S \in SUBSET Nat, IsFiniteSet(S), NEW c \in [S -> Int]
  PROVE  /\ \A i \in S : PlaceBy(c, S, i) \in 0..(Cardinality(S) - 1)
         /\ \A i, j \in S : c[j] < c[i] => PlaceBy(c, S, j) < PlaceBy(c, S, i)
         /\ \A i, j \in S : PlaceBy(c, S, i) = PlaceBy(c, S, j) => i = j
         /\ \A k \in 0..(Cardinality(S) - 1) : \E i \in S : PlaceBy(c, S, i) = k
<1> DEFINE Before(j, i) == c[j] < c[i] \/ (c[j] = c[i] /\ j < i)
           Below(i) == {j \in S : Before(j, i)}
           n == Cardinality(S)
           r == [i \in S |-> Cardinality(Below(i))]
<1>1. \A i \in S : PlaceBy(c, S, i) = r[i]
  BY DEF PlaceBy
<1>2. \A i, j \in S : Before(j, i) =>
        Below(j) \subseteq Below(i) /\ j \in Below(i) /\ j \notin Below(j)
  <2> SUFFICES ASSUME NEW i \in S, NEW j \in S, Before(j, i)
               PROVE  \A k \in S : Before(k, j) => Before(k, i) /\ k # j
    OBVIOUS
  <2> TAKE k \in S
  <2>1. /\ c[i] \in Int /\ c[j] \in Int /\ c[k] \in Int
        /\ i \in Int /\ j \in Int /\ k \in Int
    OBVIOUS
  <2> QED
    BY <2>1
<1>3. \A i \in S : i \notin Below(i) /\ Below(i) \in SUBSET S
  OBVIOUS
<1>4. \A i, j \in S : i # j => Before(i, j) \/ Before(j, i)
  OBVIOUS
<1>5. n \in Nat
  BY FS_CardinalityType
<1>6. \A i, j \in S : c[j] < c[i] => Before(j, i)
  OBVIOUS
<1> HIDE DEF Before
<1>7. \A i \in S : IsFiniteSet(Below(i)) /\ r[i] \in Nat
  BY <1>3, FS_Subset, FS_CardinalityType
<1>8. \A i \in S : r[i] \in 0..(n - 1)
  <2> TAKE i \in S
  <2>1. r[i] <= n /\ r[i] # n
    BY <1>3, FS_Subset
  <2> QED
    BY <2>1, <1>5, <1>7
<1>9. \A i, j \in S : Before(j, i) => r[j] < r[i]
  <2> SUFFICES ASSUME NEW i \in S, NEW j \in S, Before(j, i) PROVE r[j] < r[i]
    OBVIOUS
  <2>1. Below(j) \in SUBSET Below(i) /\ Below(j) # Below(i) /\ IsFiniteSet(Below(i))
    BY <1>2, <1>7
  <2> HIDE DEF Below
  <2>2. /\ Cardinality(Below(i)) # Cardinality(Below(j))
        /\ Cardinality(Below(j)) <= Cardinality(Below(i))
    BY <2>1, FS_Subset
  <2> QED
    BY <1>7, <2>2
<1> HIDE DEF n, Below
<1>10a. \A i, j \in S : i # j => r[i] # r[j]
  BY <1>4, <1>7, <1>9
<1>10. r \in Injection(S, 0..(n - 1))
  <2>1. r \in [S -> 0..(n - 1)]
    BY <1>8
  <2> HIDE DEF r
  <2> QED
    BY <1>10a, <2>1 DEF Injection, IsInjective
<1>11. IsFiniteSet(0..(n - 1)) /\ Cardinality(0..(n - 1)) = n
  BY <1>5, FS_Interval
<1> HIDE DEF r
<1>12. r \in Surjection(S, 0..(n - 1))
  BY <1>10, <1>11, FS_Injection DEF n
<1>13. \A k \in 0..(n - 1) : \E i \in S : r[i] = k
  BY <1>12 DEF Surjection
<1> QED
  BY <1>1, <1>6, <1>8, <1>9, <1>10a, <1>13 DEF n

\* The sort of the code puts every candidate at a place of its own.
LEMMA Ranks ==
  ASSUME NEW f, NEW seq, NEW S \in SUBSET Nat, IsFiniteSet(S),
         \A i \in S : Canonical(f, seq[i]) \in Int
  PROVE  /\ \A i \in S : Rank(f, seq, S, i) \in 0..(Cardinality(S) - 1)
         /\ \A i, j \in S : Canonical(f, seq[j]) < Canonical(f, seq[i]) =>
              Rank(f, seq, S, j) < Rank(f, seq, S, i)
         /\ \A k \in 0..(Cardinality(S) - 1) : \E i \in S : Rank(f, seq, S, i) = k
<1> DEFINE c == [i \in S |-> Canonical(f, seq[i])]
<1>1. c \in [S -> Int] /\ \A i \in S : c[i] = Canonical(f, seq[i])
  OBVIOUS
<1> HIDE DEF c
<1>2. \A i \in S : Rank(f, seq, S, i) = PlaceBy(c, S, i)
  <2> TAKE i \in S
  <2>1. {j \in S : \/ Canonical(f, seq[j]) < Canonical(f, seq[i])
                   \/ Canonical(f, seq[j]) = Canonical(f, seq[i]) /\ j < i} =
          {j \in S : c[j] < c[i] \/ (c[j] = c[i] /\ j < i)}
    BY <1>1
  <2> QED
    BY <2>1 DEF Rank, PlaceBy
<1>3. /\ \A i \in S : PlaceBy(c, S, i) \in 0..(Cardinality(S) - 1)
      /\ \A i, j \in S : c[j] < c[i] => PlaceBy(c, S, j) < PlaceBy(c, S, i)
      /\ \A k \in 0..(Cardinality(S) - 1) : \E i \in S : PlaceBy(c, S, i) = k
  BY <1>1, PlacesBy
<1> QED
  BY <1>1, <1>2, <1>3

\* So there is a candidate in the middle, and a smallest and a largest one.
LEMMA PlacesInGroup ==
  ASSUME NEW f, NEW seq, NEW S \in SUBSET Nat, IsFiniteSet(S), S # {},
         \A i \in S : Canonical(f, seq[i]) \in Int
  PROVE  /\ \E i \in S : Rank(f, seq, S, i) = Cardinality(S) \div 2
         /\ \E i \in S : \A j \in S : Canonical(f, seq[i]) <= Canonical(f, seq[j])
         /\ \E i \in S : \A j \in S : Canonical(f, seq[j]) <= Canonical(f, seq[i])
<1> DEFINE n == Cardinality(S)
           v(i) == Canonical(f, seq[i])
           r(i) == Rank(f, seq, S, i)
<1>1. n \in Nat /\ n # 0
  BY FS_CardinalityType, FS_EmptySet
<1>2. /\ \A i \in S : v(i) \in Int /\ r(i) \in 0..(n - 1)
      /\ \A i, j \in S : v(j) < v(i) => r(j) < r(i)
      /\ \A k \in 0..(n - 1) : \E i \in S : r(i) = k
  BY Ranks
<1> HIDE DEF n, v, r
<1>3. 0 \in 0..(n - 1) /\ n - 1 \in 0..(n - 1) /\ n \div 2 \in 0..(n - 1)
  BY <1>1
<1>4. \E i \in S : r(i) = n \div 2
  BY <1>2, <1>3
<1>5. \E i \in S : \A j \in S : v(i) <= v(j)
  <2>1. PICK i \in S : r(i) = 0
    BY <1>2, <1>3
  <2>2. \A j \in S : ~(v(j) < v(i))
    BY <1>2, <2>1
  <2> QED
    BY <1>2, <2>2
<1>6. \E i \in S : \A j \in S : v(j) <= v(i)
  <2>1. PICK i \in S : r(i) = n - 1
    BY <1>2, <1>3
  <2>2. \A j \in S : ~(v(i) < v(j))
    BY <1>1, <1>2, <2>1
  <2> QED
    BY <1>2, <2>2
<1> QED
  BY <1>4, <1>5, <1>6 DEF n, v, r

-----------------------------------------------------------------------------
(* Conflicts                                                               *)

\* One step of a sum over a set: an element and the sum of the others.
OneMore(f, seq, g, s) ==
    IF s = {} THEN 0
              ELSE LET x == CHOOSE i \in s : TRUE IN Canonical(f, seq[x]) + g[s \ {x}]

SumOver(f, seq, S) == CHOOSE g : g = [s \in SUBSET S |-> OneMore(f, seq, g, s)]

LEMMA TotalIsSum ==
  ASSUME NEW f, NEW seq, NEW S
  PROVE  Total(f, seq, S) = SumOver(f, seq, S)[S]
BY DEF Total, MapThenSumSet, MapThenFoldSet, SumOver, OneMore

\* The sums of all subsets exist: smaller ones first.
LEMMA SumExists ==
  ASSUME NEW f, NEW seq, NEW S, IsFiniteSet(S)
  PROVE  \E g : g = [s \in SUBSET S |-> OneMore(f, seq, g, s)]
<1> DEFINE UpTo(n) == {s \in SUBSET S : Cardinality(s) <= n}
           Good(g, n) == \A s \in UpTo(n) : g[s] = OneMore(f, seq, g, s)
           Bad == {n \in Nat : ~ \E g : Good(g, n)}
<1>0. \A s \in SUBSET S : IsFiniteSet(s) /\ Cardinality(s) \in Nat
  BY FS_Subset, FS_CardinalityType
<1>1. \A s \in SUBSET S : \A x \in s : Cardinality(s \ {x}) = Cardinality(s) - 1
  BY <1>0, FS_RemoveElement
<1>2. \A n \in Nat : \A g : Good(g, n) => \E h : Good(h, n + 1)
  <2> SUFFICES ASSUME NEW n \in Nat, NEW g, Good(g, n) PROVE \E h : Good(h, n + 1)
    OBVIOUS
  <2> DEFINE h == [s \in SUBSET S |-> OneMore(f, seq, g, s)]
  <2>1. \A s \in UpTo(n) : h[s] = g[s]
    OBVIOUS
  <2>2. \A s \in UpTo(n + 1) : OneMore(f, seq, h, s) = OneMore(f, seq, g, s)
    <3> SUFFICES ASSUME NEW s \in UpTo(n + 1), s # {}
                 PROVE  OneMore(f, seq, h, s) = OneMore(f, seq, g, s)
      BY DEF OneMore
    <3> DEFINE x == CHOOSE i \in s : TRUE
    <3>1. x \in s
      OBVIOUS
    <3> HIDE DEF x
    <3>2. s \ {x} \in UpTo(n)
      <4>1. s \in SUBSET S /\ Cardinality(s) <= n + 1 /\ Cardinality(s) \in Nat
        BY <1>0
      <4>2. s \ {x} \in SUBSET S /\ Cardinality(s \ {x}) = Cardinality(s) - 1
        BY <1>1, <3>1, <4>1
      <4> QED
        BY <4>1, <4>2
    <3>3. h[s \ {x}] = g[s \ {x}]
      BY <2>1, <3>2
    <3> HIDE DEF h
    <3>4. Canonical(f, seq[x]) + h[s \ {x}] = Canonical(f, seq[x]) + g[s \ {x}]
      BY <3>3
    <3> QED
      BY ONLY <3>4, s # {} DEF OneMore, x
  <2>3. \A s \in UpTo(n + 1) : h[s] = OneMore(f, seq, g, s)
    OBVIOUS
  <2> HIDE DEF h, UpTo
  <2>4. Good(h, n + 1)
    BY <2>2, <2>3
  <2> QED
    BY <2>4
<1>3. \E g : Good(g, 0)
  <2> DEFINE g == [s \in SUBSET S |-> 0]
  <2>1. \A s \in UpTo(0) : s = {}
    BY <1>0, FS_EmptySet
  <2>2. Good(g, 0)
    BY <2>1 DEF OneMore
  <2> QED
    BY <2>2
<1> HIDE DEF Good
<1>4. Bad = {}
  <2> SUFFICES ASSUME Bad # {} PROVE FALSE
    OBVIOUS
  <2>1. PICK n \in Bad : \A m \in Bad : n <= m
    BY LeastNumber
  <2>2. n # 0
    BY <1>3
  <2>3. n - 1 \in Nat /\ n - 1 \notin Bad
    BY <2>1, <2>2
  <2> QED
    BY <1>2, <2>1, <2>3
<1>5. PICK g : Good(g, Cardinality(S))
  BY <1>0, <1>4
<1>6. \A s \in SUBSET S : s \in UpTo(Cardinality(S))
  BY FS_Subset
<1> DEFINE h == [s \in SUBSET S |-> g[s]]
<1>7. \A s \in SUBSET S : h[s] = OneMore(f, seq, g, s)
  BY <1>5, <1>6 DEF Good
<1>8. \A s \in SUBSET S : OneMore(f, seq, g, s) = OneMore(f, seq, h, s)
  <2> TAKE s \in SUBSET S
  <2> DEFINE x == CHOOSE i \in s : TRUE
  <2>1. h[s \ {x}] = g[s \ {x}]
    OBVIOUS
  <2> HIDE DEF h
  <2> QED
    BY <2>1 DEF OneMore
<1>9. h = [s \in SUBSET S |-> OneMore(f, seq, h, s)]
  <2>1. h = [s \in SUBSET S |-> h[s]]
    OBVIOUS
  <2> HIDE DEF h
  <2>2. \A s \in SUBSET S : h[s] = OneMore(f, seq, h, s)
    BY <1>7, <1>8
  <2> QED
    BY <2>1, <2>2
<1> QED
  BY <1>9

\* A sum of integers is one.
LEMMA SumType ==
  ASSUME NEW f, NEW seq, NEW S, IsFiniteSet(S), \A i \in S : Canonical(f, seq[i]) \in Int
  PROVE  \A s \in SUBSET S :
           /\ SumOver(f, seq, S)[s] = OneMore(f, seq, SumOver(f, seq, S), s)
           /\ SumOver(f, seq, S)[s] \in Int
<1> DEFINE g == SumOver(f, seq, S)
           Bad == {n \in Nat : \E s \in SUBSET S : Cardinality(s) = n /\ g[s] \notin Int}
<1>1. g = [s \in SUBSET S |-> OneMore(f, seq, g, s)]
  BY SumExists DEF SumOver
<1> HIDE DEF g
<1>2. \A s \in SUBSET S : g[s] = OneMore(f, seq, g, s)
  BY <1>1
<1>3. \A s \in SUBSET S : IsFiniteSet(s) /\ Cardinality(s) \in Nat
  BY FS_Subset, FS_CardinalityType
<1>4. \A s \in SUBSET S : \A x \in s : Cardinality(s \ {x}) = Cardinality(s) - 1
  BY <1>3, FS_RemoveElement
<1>5. Bad = {}
  <2> SUFFICES ASSUME Bad # {} PROVE FALSE
    OBVIOUS
  <2>1. PICK n \in Bad : \A m \in Bad : n <= m
    BY LeastNumber
  <2>2. PICK s \in SUBSET S : Cardinality(s) = n /\ g[s] \notin Int
    OBVIOUS
  <2>3. s # {}
    BY <1>2, <2>2 DEF OneMore
  <2> DEFINE x == CHOOSE i \in s : TRUE
  <2>4. x \in s
    BY <2>3
  <2>5. g[s] = Canonical(f, seq[x]) + g[s \ {x}]
    BY <1>2, <2>3 DEF OneMore
  <2> HIDE DEF x
  <2>6. g[s \ {x}] \notin Int
    BY <2>2, <2>4, <2>5
  <2>7. s \ {x} \in SUBSET S /\ Cardinality(s \ {x}) \in Nat /\ Cardinality(s \ {x}) < n
    BY <1>3, <1>4, <2>2, <2>4
  <2>8. Cardinality(s \ {x}) \in Bad
    BY <2>6, <2>7
  <2>9. n <= Cardinality(s \ {x}) /\ n \in Nat
    BY <2>1, <2>8
  <2> QED
    BY <2>7, <2>9
<1>6. \A s \in SUBSET S : g[s] \in Int
  BY <1>3, <1>5
<1> QED
  BY <1>2, <1>6 DEF g

LEMMA TotalType ==
  ASSUME NEW f, NEW seq, NEW S, IsFiniteSet(S), \A i \in S : Canonical(f, seq[i]) \in Int
  PROVE  Total(f, seq, S) \in Int
BY SumType, TotalIsSum

LEMMA ProductsCompare ==
  ASSUME NEW a \in Nat, NEW x \in Int, NEW y \in Int, x <= y
  PROVE  a * x <= a * y
<1>1. y - x \in Nat /\ y = x + (y - x)
  OBVIOUS
<1>2. a * (y - x) \in Nat
  BY <1>1
<1>3. a * y = a * x + a * (y - x)
  OBVIOUS
<1> QED
  BY <1>2, <1>3

\* The spread of a group is what its two most distant claims disagree by.
LEMMA ConflictIsDisagreement ==
  ASSUME NEW f \in Numbers, NEW seq, NEW S \in SUBSET Nat, IsFiniteSet(S), S # {},
         \A i \in S : Canonical(f, seq[i]) \in Int
  PROVE  Conflicts(f, seq, S) <=> Disagree(f, seq, S)
<1> DEFINE v(i) == Canonical(f, seq[i])
           values == {v(i) : i \in S}
           share == TolNum * AbsOf(Total(f, seq, S))
           weight == Cardinality(S) * TolDen
<1>1. \A i \in S : v(i) \in Int /\ v(i) = Converted(seq[i])
  BY DEF Canonical
<1>2. PICK lo \in S : \A j \in S : v(lo) <= v(j)
  BY PlacesInGroup
<1>3. PICK hi \in S : \A j \in S : v(j) <= v(hi)
  BY PlacesInGroup
<1>4. Cardinality(S) \in Nat /\ TolDen \in Nat /\ weight \in Nat
  BY FS_CardinalityType, ToleranceAssumption
<1>5. share \in Int
  <2>1. Total(f, seq, S) \in Int
    BY TotalType
  <2>2. AbsOf(Total(f, seq, S)) \in Int
    BY <2>1 DEF AbsOf
  <2> QED
    BY <2>2, ToleranceAssumption
<1>6. Conflicts(f, seq, S) <=> (Max(values) - Min(values)) * Cardinality(S) * TolDen > share
  BY DEF Conflicts
<1>7. Disagree(f, seq, S) <=> \E i, j \in S : weight * (v(i) - v(j)) > share
  BY <1>1 DEF Disagree
<1> HIDE DEF v, share, weight
<1>8. Max(values) = v(hi)
  <2>1. v(hi) \in values /\ \A y \in values : v(hi) >= y /\ y \in Int
    BY <1>1, <1>3
  <2> HIDE DEF values
  <2>2. Max(values) \in values /\ \A y \in values : Max(values) >= y
    BY <2>1 DEF Max
  <2> QED
    BY <2>1, <2>2
<1>9. Min(values) = v(lo)
  <2>1. v(lo) \in values /\ \A y \in values : v(lo) <= y /\ y \in Int
    BY <1>1, <1>2
  <2> HIDE DEF values
  <2>2. Min(values) \in values /\ \A y \in values : Min(values) <= y
    BY <2>1 DEF Min
  <2> QED
    BY <2>1, <2>2
<1>10. (v(hi) - v(lo)) * Cardinality(S) * TolDen = weight * (v(hi) - v(lo))
  BY <1>1, <1>4 DEF weight
<1>11. \A i, j \in S : weight * (v(i) - v(j)) <= weight * (v(hi) - v(lo))
  <2> TAKE i \in S, j \in S
  <2>1. v(i) - v(j) \in Int /\ v(hi) - v(lo) \in Int /\ v(i) - v(j) <= v(hi) - v(lo)
    BY <1>1, <1>2, <1>3
  <2> QED
    BY <1>4, <2>1, ProductsCompare
<1>12. \A i, j \in S : weight * (v(i) - v(j)) \in Int
  BY <1>1, <1>4
<1>13. (\E i, j \in S : weight * (v(i) - v(j)) > share) <=> weight * (v(hi) - v(lo)) > share
  BY <1>5, <1>11, <1>12
<1> QED
  BY <1>6, <1>7, <1>8, <1>9, <1>10, <1>13

-----------------------------------------------------------------------------
(* What is stored, and where it comes from                                 *)

\* What a finding that counts for a key has, one page of a known site among it.
LEMMA CandidateFacts ==
  ASSUME NEW f \in Specs, NEW seq \in Seq(Claims), NEW i \in Candidates(f, seq)
  PROVE  /\ i \in 1..Len(seq) /\ seq[i] \in Claims /\ seq[i].fact = f /\ HasValue(f, seq[i])
         /\ TierOf(seq[i]) \in Tiers
         /\ \E u \in Urls : seq[i].urls = {u} /\ SiteOf[u] = TierOf(seq[i])
<1>1. /\ i \in 1..Len(seq) /\ seq[i] \in Claims /\ seq[i].fact = f /\ HasValue(f, seq[i])
      /\ ValidUrls(seq[i]) # {}
  BY DEF Candidates
<1>2. PICK u \in Urls : seq[i].urls = {u}
  BY <1>1, ClaimsAssumption
<1>3. TierOf(seq[i]) = SiteOf[u]
  BY <1>2 DEF TierOf
<1>4. SiteOf[u] # "invalid"
  BY <1>1, <1>2 DEF ValidUrls
<1>5. SiteOf[u] \in Tiers
  BY <1>4, SitesAssumption
<1> QED
  BY <1>1, <1>2, <1>3, <1>5

\* A group is a finite set of positions of candidates.
LEMMA GroupFacts ==
  ASSUME NEW f \in Specs, NEW seq \in Seq(Claims), NEW t \in Tiers
  PROVE  /\ Group(f, seq, t) \in SUBSET Candidates(f, seq)
         /\ Group(f, seq, t) \in SUBSET Nat
         /\ IsFiniteSet(Group(f, seq, t))
<1>1. Group(f, seq, t) \in SUBSET Candidates(f, seq)
  BY DEF Group
<1>2. Group(f, seq, t) \in SUBSET (1..Len(seq))
  BY <1>1, CandidateFacts
<1>3. Len(seq) \in Nat /\ IsFiniteSet(1..Len(seq))
  BY FS_Interval
<1> QED
  BY <1>1, <1>2, <1>3, FS_Subset

\* Where no conversion fails, a candidate of a number converts to a number.
LEMMA CanonicalType ==
  ASSUME NEW f \in Specs, NEW seq \in Seq(Claims), ~Raises(f, seq),
         NEW i \in Candidates(f, seq)
  PROVE  Canonical(f, seq[i]) \in Int
<1>1. seq[i] \in Claims /\ HasValue(f, seq[i])
  BY CandidateFacts
<1>2. /\ seq[i].value \in Int
      /\ seq[i].unit \in {"canonical", "linear", "reciprocal", "unknown"}
      /\ seq[i].unit = "reciprocal" => seq[i].value \in Nat
  BY <1>1, ClaimsAssumption
<1>3. CASE f \notin Numbers
  BY <1>2, <1>3 DEF Canonical
<1>4. CASE f \in Numbers
  <2>1. /\ seq[i].unit # "unknown"
        /\ seq[i].unit = "reciprocal" => seq[i].value # 0
    BY <1>1, <1>4 DEF HasValue, Raises
  <2>2. CASE seq[i].unit = "canonical"
    BY <1>2, <1>4, <2>2 DEF Canonical, Converted
  <2>3. CASE seq[i].unit = "linear"
    <3>1. Canonical(f, seq[i]) = seq[i].value * Factor
      BY <1>4, <2>3 DEF Canonical, Converted
    <3> QED
      BY <1>2, <3>1, ConversionAssumption
  <2>4. CASE seq[i].unit = "reciprocal"
    <3>1. Canonical(f, seq[i]) = Reciprocal \div seq[i].value
      BY <1>4, <2>4 DEF Canonical, Converted
    <3> QED
      BY <1>2, <2>1, <2>4, <3>1, ConversionAssumption
  <2> QED
    BY <1>2, <2>1, <2>2, <2>3, <2>4
<1> QED
  BY <1>3, <1>4

\* The finding that is kept is one of the group.
LEMMA ChosenIsCandidate ==
  ASSUME NEW f \in Specs, NEW seq \in Seq(Claims), ~Raises(f, seq), NEW t \in Tiers,
         Group(f, seq, t) # {}
  PROVE  Chosen(f, seq, Group(f, seq, t)) \in Group(f, seq, t)
<1> DEFINE S == Group(f, seq, t)
<1>1. /\ S \in SUBSET Nat /\ IsFiniteSet(S) /\ S # {}
      /\ \A i \in S : Canonical(f, seq[i]) \in Int
  BY GroupFacts, CanonicalType
<1> HIDE DEF S
<1>2. \E i \in S : Rank(f, seq, S, i) = Cardinality(S) \div 2
  BY <1>1, PlacesInGroup
<1>3. Min(S) \in S
  BY <1>1, FirstPosition
<1>4. Chosen(f, seq, S) \in S
  BY <1>2, <1>3 DEF Chosen
<1> QED
  BY <1>4 DEF S

\* A page of tier t is the source of v, and says that of the fact f.
SourcedIn(f, seq, t, v) ==
    \E i \in 1..Len(seq) :
        /\ seq[i].fact = f /\ HasValue(f, seq[i])
        /\ seq[i].urls = {v.url}
        /\ SiteOf[v.url] = t
        /\ v.value = Canonical(f, seq[i])

\* So what is kept for a tier is what a page of that tier says of the fact.
LEMMA KeptIsSourced ==
  ASSUME NEW f \in Specs, NEW seq \in Seq(Claims), ~Raises(f, seq), NEW t \in Tiers,
         Group(f, seq, t) # {}
  PROVE  /\ Kept(f, seq, t).url \in Urls
         /\ SourcedIn(f, seq, t, Kept(f, seq, t))
<1> DEFINE i == Chosen(f, seq, Group(f, seq, t))
<1>1. i \in Candidates(f, seq) /\ TierOf(seq[i]) = t
  BY ChosenIsCandidate DEF Group
<1>2. /\ Kept(f, seq, t).url = CHOOSE u \in seq[i].urls : TRUE
      /\ Kept(f, seq, t).value = Canonical(f, seq[i])
  BY DEF Kept
<1> HIDE DEF i
<1>3. PICK u \in Urls : seq[i].urls = {u} /\ SiteOf[u] = t
  BY <1>1, CandidateFacts
<1>4. Kept(f, seq, t).url = u
  BY <1>2, <1>3
<1>5. i \in 1..Len(seq) /\ seq[i].fact = f /\ HasValue(f, seq[i])
  BY <1>1, CandidateFacts
<1> QED
  BY <1>2, <1>3, <1>4, <1>5 DEF SourcedIn

\* Of the tiers that have candidates, one is the best.
LEMMA BestTierExists ==
  ASSUME NEW f \in Specs, NEW seq \in Seq(Claims), Candidates(f, seq) # {}
  PROVE  /\ BestTier(f, seq) \in Tiers /\ Group(f, seq, BestTier(f, seq)) # {}
         /\ \A u \in Tiers : Group(f, seq, u) # {} => Priority[BestTier(f, seq)] <= Priority[u]
<1> DEFINE Has(t) == Group(f, seq, t) # {}
<1>1. \E t \in Tiers : Has(t)
  BY CandidateFacts DEF Group
<1> HIDE DEF Has
<1>2. \E t \in Tiers : Has(t) /\ \A u \in Tiers : Has(u) => Priority[t] <= Priority[u]
  BY <1>1 DEF Tiers, Priority
<1> QED
  BY <1>2 DEF BestTier, Has

\* The sources of an insight: verified pages of one finding with that summary.
LEMMA InsightIsCited ==
  ASSUME NEW f \in Topics, NEW seq \in Seq(Claims), Summaries(f, seq) # {}
  PROVE  LET k == InsightKept(f, seq) IN
         /\ k.urls # {}
         /\ \A u \in k.urls : SiteOf[u] # "invalid"
         /\ k.source \in {"tested", "community"}
         /\ k.source = "tested" <=> \E u \in k.urls : SiteOf[u] = "tested"
         /\ \E i \in 1..Len(seq) : /\ seq[i].fact = f
                                   /\ seq[i].value = k.summary
                                   /\ k.urls \subseteq seq[i].urls
<1> DEFINE i == Min(Summaries(f, seq))
<1>1. i \in Summaries(f, seq)
  <2>1. Summaries(f, seq) \in SUBSET Nat
    BY DEF Summaries
  <2> QED
    BY <2>1, FirstPosition
<1> HIDE DEF i
<1>2. /\ i \in 1..Len(seq) /\ seq[i].fact = f
      /\ ValidUrls(seq[i]) # {} /\ ValidUrls(seq[i]) \subseteq seq[i].urls
      /\ \A u \in ValidUrls(seq[i]) : SiteOf[u] # "invalid"
  BY <1>1 DEF Summaries, ValidUrls
<1>3. InsightKept(f, seq) =
        [summary |-> seq[i].value, urls |-> ValidUrls(seq[i]),
         source |-> IF \E u \in ValidUrls(seq[i]) : SiteOf[u] = "tested"
                      THEN "tested" ELSE "community"]
  BY DEF InsightKept, i
<1> QED
  BY <1>2, <1>3

-----------------------------------------------------------------------------
(* How a task is settled                                                   *)

Memoized == {"not_applicable", "not_released_yet", "no_reliable_source"}

LEMMA MissingType ==
  ASSUME NEW f, NEW fs
  PROVE  Missing(f, fs) \in Memoized
BY DEF Missing, Memoized

LEMMA OutcomeType ==
  ASSUME NEW f \in Facts, NEW fs
  PROVE  Outcome(f, fs) \in Memoized \cup {"found", "unresolved_conflict"}
<1>1. InsightOutcome(f, fs) \in Memoized \cup {"found"}
  BY MissingType DEF InsightOutcome, Memoized
<1>2. SpecOutcome(f, fs) \in Memoized \cup {"found", "unresolved_conflict"}
  BY MissingType DEF SpecOutcome, Memoized
<1> QED
  BY <1>1, <1>2 DEF Outcome

\* No usable value of the fact on a page that can be verified.
Unsourced(f, seq) ==
    \A i \in DOMAIN seq :
        seq[i].fact # f \/ ~HasValue(f, seq[i]) \/ \A u \in seq[i].urls : SiteOf[u] = "invalid"

LEMMA MemoizedIsUnsourced ==
  ASSUME NEW f \in Facts \ (Retired \cup RetiredTopics), NEW fs, Outcome(f, fs) \in Memoized
  PROVE  Unsourced(f, fs.seq)
<1>1. CASE f \in Topics
  <2>1. Summaries(f, fs.seq) = {}
    BY <1>1 DEF Outcome, InsightOutcome, Memoized
  <2>2. f \notin Numbers
    BY <1>1, RunAssumption
  <2> QED
    BY <2>1, <2>2 DEF Summaries, Unsourced, HasValue, ValidUrls
<1>2. CASE f \notin Topics
  <2>1. Candidates(f, fs.seq) = {}
    BY <1>2 DEF Outcome, SpecOutcome, Memoized
  <2> QED
    BY <2>1 DEF Candidates, Unsourced, ValidUrls
<1> QED
  BY <1>1, <1>2

\* What is found has a tier that was kept, or a summary.
LEMMA FoundSpec ==
  ASSUME NEW f \in Specs, NEW fs, Outcome(f, fs) = "found"
  PROVE  Candidates(f, fs.seq) # {}
BY MissingType DEF Outcome, SpecOutcome, Specs, Memoized

LEMMA FoundInsight ==
  ASSUME NEW f \in Topics, NEW fs, Outcome(f, fs) = "found"
  PROVE  Summaries(f, fs.seq) # {}
BY MissingType DEF Outcome, InsightOutcome, Memoized

-----------------------------------------------------------------------------
(* Which claims decide                                                     *)

\* The candidates of a tier are the claims its pages make.
LEMMA GroupIsSays ==
  ASSUME NEW f \in Numbers, NEW seq \in Seq(Claims), NEW t \in Tiers
  PROVE  Group(f, seq, t) = Says(f, seq, t)
<1>0. f \in Specs
  BY RunAssumption DEF Specs, Facts
<1>1. ASSUME NEW i \in Group(f, seq, t) PROVE i \in Says(f, seq, t)
  <2>1. i \in Candidates(f, seq) /\ TierOf(seq[i]) = t
    BY <1>1 DEF Group
  <2>2. PICK u \in Urls : seq[i].urls = {u} /\ SiteOf[u] = t
    BY <1>0, <2>1, CandidateFacts
  <2>3. i \in DOMAIN seq /\ seq[i].fact = f /\ HasValue(f, seq[i])
    BY <2>1 DEF Candidates
  <2> QED
    BY <2>2, <2>3 DEF Says, HasValue
<1>2. ASSUME NEW i \in Says(f, seq, t) PROVE i \in Group(f, seq, t)
  <2>1. /\ i \in DOMAIN seq /\ seq[i].fact = f /\ seq[i].numeric /\ seq[i].unit # "unknown"
        /\ seq[i] \in Claims
    BY <1>2 DEF Says
  <2>2. PICK u \in seq[i].urls : SiteOf[u] = t
    BY <1>2 DEF Says
  <2>3. seq[i].urls = {u}
    BY <1>0, <2>1, <2>2, ClaimsAssumption
  <2>4. t # "invalid"
    BY DEF Tiers
  <2>5. i \in Candidates(f, seq)
    BY <2>1, <2>2, <2>4 DEF Candidates, ValidUrls, HasValue
  <2>6. TierOf(seq[i]) = t
    BY <2>2, <2>3 DEF TierOf
  <2> QED
    BY <2>5, <2>6 DEF Group
<1> QED
  BY <1>1, <1>2

\* What a run makes of a number depends on the claims of the best tier alone.
LEMMA BestTierOutcome ==
  ASSUME NEW f \in Numbers, NEW fs, fs.seq \in Seq(Claims), ~Raises(f, fs.seq), NEW t \in Tiers,
         Says(f, fs.seq, t) # {},
         \A u \in Tiers : Priority[u] < Priority[t] => Says(f, fs.seq, u) = {}
  PROVE  /\ BestTier(f, fs.seq) = t
         /\ Outcome(f, fs) = IF Disagree(f, fs.seq, Says(f, fs.seq, t))
                               THEN "unresolved_conflict" ELSE "found"
<1> DEFINE seq == fs.seq
<1>0. f \in Specs /\ f \notin Topics /\ f \notin Retired /\ seq \in Seq(Claims)
  BY RunAssumption DEF Specs, Facts
<1>1. \A u \in Tiers : Group(f, seq, u) = Says(f, seq, u)
  BY <1>0, GroupIsSays
<1> DEFINE S == Group(f, seq, t)
<1>2. S # {} /\ S = Says(f, seq, t) /\ Candidates(f, seq) # {}
  BY <1>1 DEF Group
<1>3. BestTier(f, seq) = t
  <2> DEFINE Has(u) == Group(f, seq, u) # {}
  <2>1. Has(t) /\ \A u \in Tiers : Priority[u] < Priority[t] => ~Has(u)
    BY <1>1
  <2> HIDE DEF Has
  <2>2. \A u \in Tiers : Has(u) => Priority[t] <= Priority[u]
    BY <2>1 DEF Tiers, Priority
  <2>3. \A v \in Tiers :
          Has(v) /\ (\A u \in Tiers : Has(u) => Priority[v] <= Priority[u]) => v = t
    BY <2>1, <2>2 DEF Tiers, Priority
  <2>4. BestTier(f, seq) = CHOOSE v \in Tiers :
          Has(v) /\ \A u \in Tiers : Has(u) => Priority[v] <= Priority[u]
    BY DEF BestTier, Has
  <2> QED
    BY <2>1, <2>2, <2>3, <2>4
<1>4. Conflicts(f, seq, S) <=> Disagree(f, seq, S)
  <2>1. /\ S \in SUBSET Nat /\ IsFiniteSet(S)
        /\ \A i \in S : Canonical(f, seq[i]) \in Int
    BY <1>0, GroupFacts, CanonicalType
  <2> QED
    BY <1>2, <2>1, ConflictIsDisagreement
<1>5. Outcome(f, fs) = IF Conflicts(f, seq, Group(f, seq, BestTier(f, seq)))
                         THEN "unresolved_conflict" ELSE "found"
  BY <1>0, <1>2 DEF Outcome, SpecOutcome
<1> QED
  BY <1>2, <1>3, <1>4, <1>5

-----------------------------------------------------------------------------
(* The order of the findings                                               *)

Summable(f, seq, S) == IsFiniteSet(S) /\ \A i \in S : Canonical(f, seq[i]) \in Int

\* The sums of the subsets of S, from which any element may be split off.
IsSum(g, f, seq, S) ==
    /\ g[S] = Total(f, seq, S)
    /\ g[{}] = 0
    /\ \A s \in SUBSET S : \A x \in s : g[s] = Canonical(f, seq[x]) + g[s \ {x}]

\* The order in which the elements are added is of no account.
LEMMA SumInAnyOrder ==
  ASSUME NEW f, NEW seq, NEW S, Summable(f, seq, S)
  PROVE  \E g : IsSum(g, f, seq, S)
<1> DEFINE g == SumOver(f, seq, S)
           v(i) == Canonical(f, seq[i])
           Wrong(s) == \E x \in s : g[s] # v(x) + g[s \ {x}]
           Bad == {n \in Nat : \E s \in SUBSET S : Cardinality(s) = n /\ Wrong(s)}
<1>1. \A s \in SUBSET S : g[s] \in Int /\ g[s] = OneMore(f, seq, g, s)
  BY SumType DEF Summable
<1> HIDE DEF g
<1>2. \A s \in SUBSET S : s # {} => \E y \in s : g[s] = v(y) + g[s \ {y}]
  <2> TAKE s \in SUBSET S
  <2> HAVE s # {}
  <2> DEFINE y == CHOOSE i \in s : TRUE
  <2>1. y \in s
    OBVIOUS
  <2>2. g[s] = v(y) + g[s \ {y}]
    BY <1>1 DEF OneMore
  <2> QED
    BY <2>1, <2>2
<1>3. \A s \in SUBSET S : IsFiniteSet(s) /\ Cardinality(s) \in Nat
  BY FS_Subset, FS_CardinalityType DEF Summable
<1>4. \A s \in SUBSET S : \A x \in s : Cardinality(s \ {x}) = Cardinality(s) - 1
  BY <1>3, FS_RemoveElement
<1>5. \A i \in S : v(i) \in Int
  BY DEF Summable
<1> HIDE DEF v
<1>6. Bad = {}
  <2> SUFFICES ASSUME Bad # {} PROVE FALSE
    OBVIOUS
  <2>1. PICK n \in Bad : \A m \in Bad : n <= m
    BY LeastNumber
  <2>2. PICK s \in SUBSET S : Cardinality(s) = n /\ Wrong(s)
    OBVIOUS
  <2>3. PICK x \in s : g[s] # v(x) + g[s \ {x}]
    BY <2>2
  <2>4. PICK y \in s : g[s] = v(y) + g[s \ {y}]
    BY <1>2
  <2>5. x # y
    BY <2>3, <2>4
  <2>6. ASSUME NEW z \in s PROVE ~Wrong(s \ {z})
    <3>1. s \ {z} \in SUBSET S /\ Cardinality(s \ {z}) \in Nat /\ Cardinality(s \ {z}) < n
      BY <1>3, <1>4, <2>2
    <3> DEFINE u == s \ {z}
    <3> HIDE DEF Wrong, u
    <3>2. Wrong(u) => Cardinality(u) \in Bad
      BY <3>1 DEF u
    <3> HIDE DEF Bad
    <3>3. Cardinality(u) \in Bad => n <= Cardinality(u)
      BY <2>1
    <3>4. n \in Nat
      BY <1>3, <2>2
    <3>5. ~Wrong(u)
      BY <3>1, <3>2, <3>3, <3>4 DEF u
    <3> QED
      BY <3>5 DEF u
  <2>7. g[s \ {y}] = v(x) + g[(s \ {y}) \ {x}]
    BY <2>5, <2>6
  <2>8. g[s \ {x}] = v(y) + g[(s \ {y}) \ {x}]
    <3>1. (s \ {y}) \ {x} = (s \ {x}) \ {y}
      OBVIOUS
    <3>2. g[s \ {x}] = v(y) + g[(s \ {x}) \ {y}]
      BY <2>5, <2>6
    <3> QED
      BY <3>1, <3>2
  <2>9. v(x) \in Int /\ v(y) \in Int /\ g[(s \ {y}) \ {x}] \in Int
    BY <1>1, <1>5
  <2> QED
    BY ONLY <2>3, <2>4, <2>7, <2>8, <2>9
<1>7. \A s \in SUBSET S : ~Wrong(s)
  BY <1>3, <1>6
<1>8. g[S] = Total(f, seq, S)
  BY TotalIsSum DEF g
<1>9. g[{}] = 0
  BY <1>1 DEF OneMore
<1>10. \A s \in SUBSET S : \A x \in s : g[s] = v(x) + g[s \ {x}]
  BY <1>7
<1> QED
  BY <1>8, <1>9, <1>10 DEF v, IsSum

\* The members of S in seq are those of T in other, listed at other places.
Relabels(f, seq, S, other, T, q) ==
    /\ S \in SUBSET Nat /\ IsFiniteSet(S) /\ T \in SUBSET Nat /\ IsFiniteSet(T)
    /\ q \in Bijection(T, S)
    /\ \A i \in S : Canonical(f, seq[i]) \in Int
    /\ \A i \in T : Canonical(f, other[i]) = Canonical(f, seq[q[i]])

\* Nor are the positions of the values that are added.
LEMMA TotalRelabelled ==
  ASSUME NEW f, NEW seq, NEW S, NEW other, NEW T, NEW q, Relabels(f, seq, S, other, T, q)
  PROVE  Total(f, other, T) = Total(f, seq, S)
<1> DEFINE v(i) == Canonical(f, seq[i])
           w(i) == Canonical(f, other[i])
           Image(s) == {q[i] : i \in s}
<1>0. /\ q \in [T -> S]
      /\ \A i, j \in T : i # j => q[i] # q[j]
      /\ Image(T) = S
  <2>1. q \in Injection(T, S) /\ q \in Surjection(T, S)
    BY DEF Relabels, Bijection
  <2>2. q \in [T -> S] /\ \A i, j \in T : i # j => q[i] # q[j]
    BY <2>1 DEF Injection, IsInjective
  <2>3. \A j \in S : \E i \in T : q[i] = j
    BY <2>1 DEF Surjection
  <2> QED
    BY <2>2, <2>3
<1>1. \A i \in T : w(i) = v(q[i]) /\ w(i) \in Int
  BY <1>0 DEF Relabels
<1>2. PICK g : IsSum(g, f, seq, S)
  <2>1. Summable(f, seq, S)
    BY DEF Relabels, Summable
  <2> QED
    BY <2>1, SumInAnyOrder
<1>3. PICK h : IsSum(h, f, other, T)
  <2>1. Summable(f, other, T)
    BY <1>1 DEF Relabels, Summable
  <2> QED
    BY <2>1, SumInAnyOrder
<1>4. /\ \A s \in SUBSET S : \A x \in s : g[s] = v(x) + g[s \ {x}]
      /\ \A s \in SUBSET T : \A x \in s : h[s] = w(x) + h[s \ {x}]
      /\ g[{}] = 0 /\ h[{}] = 0
      /\ g[S] = Total(f, seq, S) /\ h[T] = Total(f, other, T)
  BY <1>2, <1>3 DEF IsSum
<1> DEFINE Bad == {n \in Nat : \E s \in SUBSET T : Cardinality(s) = n /\ h[s] # g[Image(s)]}
<1> HIDE DEF v, w
<1>5. \A s \in SUBSET T : IsFiniteSet(s) /\ Cardinality(s) \in Nat
  BY FS_Subset, FS_CardinalityType DEF Relabels
<1>6. \A s \in SUBSET T : \A x \in s : Cardinality(s \ {x}) = Cardinality(s) - 1
  BY <1>5, FS_RemoveElement
<1>7. Bad = {}
  <2> SUFFICES ASSUME Bad # {} PROVE FALSE
    OBVIOUS
  <2>1. PICK n \in Bad : \A m \in Bad : n <= m
    BY LeastNumber
  <2>2. PICK s \in SUBSET T : Cardinality(s) = n /\ h[s] # g[Image(s)]
    OBVIOUS
  <2>3. s # {}
    BY <1>4, <2>2
  <2>4. PICK x \in s : TRUE
    BY <2>3
  <2>5. s \ {x} \in SUBSET T /\ Cardinality(s \ {x}) \in Nat /\ Cardinality(s \ {x}) < n
    BY <1>5, <1>6, <2>2
  <2>6. h[s \ {x}] = g[Image(s \ {x})]
    <3>1. Cardinality(s \ {x}) \notin Bad
      <4> HIDE DEF Bad
      <4>1. Cardinality(s \ {x}) \in Bad => n <= Cardinality(s \ {x})
        BY <2>1
      <4>2. n \in Nat
        BY <1>5, <2>2
      <4> QED
        BY <2>5, <4>1, <4>2
    <3> HIDE DEF Image
    <3> QED
      BY <2>5, <3>1
  <2>7. Image(s) \in SUBSET S /\ q[x] \in Image(s) /\ Image(s) \ {q[x]} = Image(s \ {x})
    BY <1>0
  <2>8. g[Image(s)] = v(q[x]) + g[Image(s \ {x})]
    <3> HIDE DEF Image
    <3>1. g[Image(s)] = v(q[x]) + g[Image(s) \ {q[x]}]
      BY <1>4, <2>7
    <3> QED
      BY <2>7, <3>1
  <2>9. h[s] = w(x) + h[s \ {x}]
    BY <1>4
  <2>10. w(x) = v(q[x])
    BY <1>1
  <2> QED
    BY <2>2, <2>6, <2>8, <2>9, <2>10
<1>8. h[T] = g[Image(T)]
  BY <1>5, <1>7
<1> QED
  BY <1>0, <1>4, <1>8

\* How many values of a group lie below a number.
CountBelow(f, seq, S, n) == Cardinality({j \in S : Canonical(f, seq[j]) < n})

\* At most as many as the rank of a value that is no smaller, and one more if it is.
LEMMA RankCounts ==
  ASSUME NEW f, NEW seq, NEW S \in SUBSET Nat, IsFiniteSet(S),
         \A i \in S : Canonical(f, seq[i]) \in Int,
         NEW i \in S, NEW n \in Int
  PROVE  /\ n <= Canonical(f, seq[i]) => CountBelow(f, seq, S, n) <= Rank(f, seq, S, i)
         /\ Canonical(f, seq[i]) < n => Rank(f, seq, S, i) < CountBelow(f, seq, S, n)
<1> DEFINE v(j) == Canonical(f, seq[j])
           low == {j \in S : v(j) < n}
           before == {j \in S : v(j) < v(i) \/ (v(j) = v(i) /\ j < i)}
<1>1. Rank(f, seq, S, i) = Cardinality(before) /\ CountBelow(f, seq, S, n) = Cardinality(low)
  BY DEF Rank, CountBelow
<1>2. \A j \in S : v(j) \in Int
  OBVIOUS
<1> HIDE DEF v
<1>3. /\ IsFiniteSet(low) /\ Cardinality(low) \in Nat
      /\ IsFiniteSet(before) /\ Cardinality(before) \in Nat
  BY FS_Subset, FS_CardinalityType
<1>4. ASSUME n <= v(i) PROVE Cardinality(low) <= Cardinality(before)
  <2>1. low \in SUBSET before
    <3> SUFFICES ASSUME NEW j \in S, v(j) < n PROVE v(j) < v(i)
      OBVIOUS
    <3>1. v(j) \in Int /\ v(i) \in Int
      BY <1>2
    <3> QED
      BY <1>4, <3>1
  <2> HIDE DEF low, before
  <2> QED
    BY <1>3, <2>1, FS_Subset
<1>5. ASSUME v(i) < n PROVE Cardinality(before) < Cardinality(low)
  <2>1. before \in SUBSET low
    <3> SUFFICES ASSUME NEW j \in S, v(j) < v(i) \/ v(j) = v(i) PROVE v(j) < n
      OBVIOUS
    <3>1. v(j) \in Int /\ v(i) \in Int
      BY <1>2
    <3> QED
      BY <1>5, <3>1
  <2>2. i \in low /\ i \notin before
    BY <1>2, <1>5
  <2> HIDE DEF low, before
  <2>3. before # low
    BY <2>2
  <2>4. Cardinality(before) <= Cardinality(low) /\ Cardinality(before) # Cardinality(low)
    BY <1>3, <2>1, <2>3, FS_Subset
  <2> QED
    BY <1>3, <2>4
<1> QED
  BY <1>1, <1>4, <1>5 DEF v

\* A group whose members are listed at other places has the same spread, mean
\* and median.
LEMMA Relabelled ==
  ASSUME NEW f \in Numbers, NEW seq, NEW S, S # {}, NEW other, NEW T, NEW q,
         Relabels(f, seq, S, other, T, q)
  PROVE  /\ Conflicts(f, other, T) <=> Conflicts(f, seq, S)
         /\ Canonical(f, other[Chosen(f, other, T)]) = Canonical(f, seq[Chosen(f, seq, S)])
<1> DEFINE v(i) == Canonical(f, seq[i])
           w(i) == Canonical(f, other[i])
<1>0. /\ q \in [T -> S]
      /\ \A i, j \in T : i # j => q[i] # q[j]
      /\ \A j \in S : \E i \in T : q[i] = j
      /\ S \in SUBSET Nat /\ IsFiniteSet(S) /\ T \in SUBSET Nat /\ IsFiniteSet(T)
  BY DEF Relabels, Bijection, Injection, IsInjective, Surjection
<1>1. /\ \A i \in S : v(i) \in Int
      /\ \A i \in T : w(i) = v(q[i]) /\ w(i) \in Int
  BY <1>0 DEF Relabels
<1>2. Cardinality(T) = Cardinality(S)
  <2>1. ExistsBijection(T, S)
    BY DEF Relabels, ExistsBijection
  <2> QED
    BY ONLY <1>0, <2>1, FS_Bijection
<1>3. T # {}
  BY <1>0
<1>4. Total(f, other, T) = Total(f, seq, S)
  BY TotalRelabelled
<1>5. {w(i) : i \in T} = {v(i) : i \in S}
  <2> HIDE DEF v, w
  <2>1. \A i \in T : \E j \in S : w(i) = v(j)
    BY <1>0, <1>1
  <2>2. \A j \in S : \E i \in T : w(i) = v(j)
    BY <1>0, <1>1
  <2> QED
    BY <2>1, <2>2
<1>6. Conflicts(f, other, T) <=> Conflicts(f, seq, S)
  BY <1>2, <1>3, <1>4, <1>5 DEF Conflicts
<1>7. \A n \in Int : CountBelow(f, other, T, n) = CountBelow(f, seq, S, n)
  <2> TAKE n \in Int
  <2> DEFINE lowS == {j \in S : v(j) < n}
             lowT == {j \in T : w(j) < n}
             r == [j \in lowT |-> q[j]]
  <2>1. r \in Bijection(lowT, lowS)
    <3> HIDE DEF v, w
    <3>1. r \in [lowT -> lowS]
      BY <1>0, <1>1
    <3>2. \A i, j \in lowT : r[i] = r[j] => i = j
      BY <1>0
    <3>3. \A j \in lowS : \E i \in lowT : r[i] = j
      BY <1>0, <1>1
    <3> HIDE DEF r, lowS, lowT
    <3> QED
      BY <3>1, <3>2, <3>3 DEF Bijection, Injection, IsInjective, Surjection
  <2>2. IsFiniteSet(lowT)
    BY <1>0, FS_Subset
  <2> HIDE DEF lowS, lowT, r
  <2>3. Cardinality(lowT) = Cardinality(lowS)
    BY <2>1, <2>2, FS_Bijection DEF ExistsBijection
  <2> QED
    BY <2>3 DEF CountBelow, lowS, lowT
<1> DEFINE k == Cardinality(S) \div 2
           i == Chosen(f, seq, S)
           j == Chosen(f, other, T)
<1>8. i \in S /\ Rank(f, seq, S, i) = k
  <2>1. \E m \in S : Rank(f, seq, S, m) = k
    BY <1>0, <1>1, PlacesInGroup
  <2> QED
    BY <2>1 DEF Chosen
<1>9. j \in T /\ Rank(f, other, T, j) = k
  <2>1. \E m \in T : Rank(f, other, T, m) = Cardinality(T) \div 2
    BY <1>0, <1>1, <1>3, PlacesInGroup
  <2> QED
    BY <1>2, <2>1 DEF Chosen
<1> HIDE DEF i, j
<1> HIDE DEF k
<1>10. ASSUME NEW n \in Int
       PROVE  /\ n <= v(i) => CountBelow(f, seq, S, n) <= k
              /\ v(i) < n => k < CountBelow(f, seq, S, n)
  <2>1. /\ n <= v(i) => CountBelow(f, seq, S, n) <= Rank(f, seq, S, i)
        /\ v(i) < n => Rank(f, seq, S, i) < CountBelow(f, seq, S, n)
    BY <1>0, <1>1, <1>8, RankCounts
  <2> QED
    BY <1>8, <2>1
<1>11. ASSUME NEW n \in Int
       PROVE  /\ n <= w(j) => CountBelow(f, other, T, n) <= k
              /\ w(j) < n => k < CountBelow(f, other, T, n)
  <2>1. /\ n <= w(j) => CountBelow(f, other, T, n) <= Rank(f, other, T, j)
        /\ w(j) < n => Rank(f, other, T, j) < CountBelow(f, other, T, n)
    BY <1>0, <1>1, <1>9, RankCounts
  <2> QED
    BY <1>9, <2>1
<1>12. \A n \in Int : CountBelow(f, seq, S, n) \in Nat
  BY <1>0, FS_Subset, FS_CardinalityType DEF CountBelow
<1>13. k \in Nat
  BY <1>0, FS_CardinalityType DEF k
<1>14. v(i) \in Int /\ w(j) \in Int
  BY <1>1, <1>8, <1>9
<1> HIDE DEF v, w
<1>15. ~(v(i) < w(j))
  BY <1>7, <1>10, <1>11, <1>12, <1>13, <1>14
<1>16. ~(w(j) < v(i))
  BY <1>7, <1>10, <1>11, <1>12, <1>13, <1>14
<1>17. w(j) = v(i)
  BY <1>14, <1>15, <1>16
<1> QED
  BY <1>6, <1>17 DEF v, w, i, j

\* The same findings, listed in another order.
Permutes(p, seq) ==
    /\ p \in [1..Len(seq) -> 1..Len(seq)]
    /\ \A i, j \in 1..Len(seq) : p[i] = p[j] => i = j

Permuted(p, seq) == [i \in 1..Len(seq) |-> seq[p[i]]]

LEMMA PermutationFacts ==
  ASSUME NEW seq \in Seq(Claims), NEW p, Permutes(p, seq)
  PROVE  /\ Permuted(p, seq) \in Seq(Claims)
         /\ Len(Permuted(p, seq)) = Len(seq)
         /\ \A i \in 1..Len(seq) : Permuted(p, seq)[i] = seq[p[i]] /\ p[i] \in 1..Len(seq)
         /\ \A j \in 1..Len(seq) : \E i \in 1..Len(seq) : p[i] = j
<1> DEFINE D == 1..Len(seq)
<1>1. Len(seq) \in Nat /\ p \in [D -> D] /\ \A i \in D : seq[i] \in Claims
  BY DEF Permutes
<1>2. p \in Surjection(D, D)
  <2>1. p \in Injection(D, D)
    BY DEF Permutes, Injection, IsInjective
  <2>2. IsFiniteSet(D)
    BY <1>1, FS_Interval
  <2> HIDE DEF D
  <2> QED
    BY <2>1, <2>2, FS_Injection
<1>3. Permuted(p, seq) \in [D -> Claims]
  BY <1>1 DEF Permuted
<1>4. \A j \in D : \E i \in D : p[i] = j
  BY <1>2 DEF Surjection
<1>5. Permuted(p, seq) \in Seq(Claims) /\ Len(Permuted(p, seq)) = Len(seq)
  BY <1>1, <1>3
<1>6. \A i \in D : Permuted(p, seq)[i] = seq[p[i]] /\ p[i] \in D
  BY <1>1 DEF Permuted
<1> QED
  BY <1>4, <1>5, <1>6

\* The candidates of a tier are at the places where the permutation puts them.
LEMMA PermutedGroup ==
  ASSUME NEW f \in Numbers, NEW seq \in Seq(Claims), NEW p, Permutes(p, seq), NEW t \in Tiers
  PROVE  /\ Candidates(f, Permuted(p, seq)) = {i \in 1..Len(seq) : p[i] \in Candidates(f, seq)}
         /\ Group(f, Permuted(p, seq), t) = {i \in 1..Len(seq) : p[i] \in Group(f, seq, t)}
<1> DEFINE other == Permuted(p, seq)
<1>1. /\ DOMAIN other = 1..Len(seq) /\ DOMAIN seq = 1..Len(seq)
      /\ \A i \in 1..Len(seq) : other[i] = seq[p[i]] /\ p[i] \in 1..Len(seq)
  <2>1. DOMAIN other = 1..Len(seq) /\ DOMAIN seq = 1..Len(seq)
    BY DEF Permuted
  <2>2. \A i \in 1..Len(seq) : other[i] = seq[p[i]] /\ p[i] \in 1..Len(seq)
    BY PermutationFacts
  <2> QED
    BY <2>1, <2>2
<1> HIDE DEF other
<1>2. \A i : i \in Candidates(f, other) <=> i \in 1..Len(seq) /\ p[i] \in Candidates(f, seq)
  BY <1>1 DEF Candidates
<1>3. \A i : i \in Group(f, other, t) <=> i \in 1..Len(seq) /\ p[i] \in Group(f, seq, t)
  BY <1>1, <1>2 DEF Group
<1> QED
  BY <1>2, <1>3 DEF other

LEMMA PermutedRelabels ==
  ASSUME NEW f \in Numbers, NEW seq \in Seq(Claims), ~Raises(f, seq), NEW p, Permutes(p, seq),
         NEW t \in Tiers
  PROVE  \E q : Relabels(f, seq, Group(f, seq, t),
                         Permuted(p, seq), Group(f, Permuted(p, seq), t), q)
<1> DEFINE other == Permuted(p, seq)
           S == Group(f, seq, t)
           T == Group(f, other, t)
           q == [i \in T |-> p[i]]
<1>0. f \in Specs
  BY RunAssumption DEF Specs, Facts
<1>1. /\ S \in SUBSET Nat /\ IsFiniteSet(S) /\ \A i \in S : Canonical(f, seq[i]) \in Int
      /\ S \in SUBSET (1..Len(seq))
  BY <1>0, GroupFacts, CanonicalType, CandidateFacts
<1>2. T \in SUBSET Nat /\ IsFiniteSet(T)
  BY <1>0, PermutationFacts, GroupFacts
<1>3. T = {i \in 1..Len(seq) : p[i] \in S}
  BY PermutedGroup
<1>4. /\ \A i \in 1..Len(seq) : other[i] = seq[p[i]]
      /\ \A j \in 1..Len(seq) : \E i \in 1..Len(seq) : p[i] = j
      /\ \A i, j \in 1..Len(seq) : p[i] = p[j] => i = j
  <2>1. \A i, j \in 1..Len(seq) : p[i] = p[j] => i = j
    BY DEF Permutes
  <2>2. \A i \in 1..Len(seq) : other[i] = seq[p[i]]
    BY DEF Permuted
  <2>3. \A j \in 1..Len(seq) : \E i \in 1..Len(seq) : p[i] = j
    BY PermutationFacts
  <2> QED
    BY <2>1, <2>2, <2>3
<1> HIDE DEF S, T, other
<1>5. q \in Bijection(T, S)
  <2>1. q \in [T -> S]
    BY <1>3
  <2>2. \A i, j \in T : q[i] = q[j] => i = j
    BY <1>3, <1>4
  <2>3. \A j \in S : \E i \in T : q[i] = j
    BY <1>1, <1>3, <1>4
  <2> HIDE DEF q
  <2> QED
    BY <2>1, <2>2, <2>3 DEF Bijection, Injection, IsInjective, Surjection
<1>6. \A i \in T : Canonical(f, other[i]) = Canonical(f, seq[q[i]])
  BY <1>3, <1>4
<1> HIDE DEF q
<1>7. Relabels(f, seq, S, other, T, q)
  BY <1>1, <1>2, <1>5, <1>6 DEF Relabels
<1> QED
  BY <1>7 DEF S, T, other

\* So neither the outcome of a number nor the values that are kept depend on the order.
LEMMA OrderDecidesNothing ==
  ASSUME NEW f \in Numbers,
         NEW fs \in [seq : Seq(Claims), notApplicable : SUBSET Facts, release : BOOLEAN],
         ~Raises(f, fs.seq), NEW p, Permutes(p, fs.seq)
  PROVE  LET other == [fs EXCEPT !.seq = Permuted(p, fs.seq)] IN
         /\ Outcome(f, other) = Outcome(f, fs)
         /\ Written(f, other) = Written(f, fs)
         /\ \A t \in Written(f, fs) : Kept(f, other.seq, t).value = Kept(f, fs.seq, t).value
<1> DEFINE seq == fs.seq
           new == Permuted(p, seq)
           other == [fs EXCEPT !.seq = new]
<1>0. /\ f \in Specs /\ f \notin Topics /\ f \notin Retired
      /\ seq \in Seq(Claims) /\ new \in Seq(Claims)
      /\ other.seq = new /\ other.notApplicable = fs.notApplicable /\ other.release = fs.release
  BY RunAssumption, PermutationFacts DEF Specs, Facts
<1>1. \A t \in Tiers : Group(f, new, t) = {} <=> Group(f, seq, t) = {}
  <2> TAKE t \in Tiers
  <2>1. Group(f, new, t) = {i \in 1..Len(seq) : p[i] \in Group(f, seq, t)}
    BY <1>0, PermutedGroup
  <2>2. \A j \in Group(f, seq, t) : \E i \in 1..Len(seq) : p[i] = j
    BY <1>0, GroupFacts, CandidateFacts, PermutationFacts
  <2> QED
    BY <2>1, <2>2
<1>2. Candidates(f, new) = {} <=> Candidates(f, seq) = {}
  <2>1. \A j \in Candidates(f, seq) : \E i \in 1..Len(seq) : p[i] = j
    BY <1>0, CandidateFacts, PermutationFacts
  <2>2. "official" \in Tiers
    BY DEF Tiers
  <2>3. Candidates(f, new) = {i \in 1..Len(seq) : p[i] \in Candidates(f, seq)}
    BY <1>0, <2>2, PermutedGroup
  <2> QED
    BY <2>1, <2>3
<1>3. ASSUME NEW t \in Tiers, Group(f, seq, t) # {}
      PROVE  /\ Conflicts(f, new, Group(f, new, t)) <=> Conflicts(f, seq, Group(f, seq, t))
             /\ Kept(f, new, t).value = Kept(f, seq, t).value
  <2>1. PICK q : Relabels(f, seq, Group(f, seq, t), new, Group(f, new, t), q)
    BY <1>0, PermutedRelabels
  <2> HIDE DEF new, seq
  <2>2. /\ Conflicts(f, new, Group(f, new, t)) <=> Conflicts(f, seq, Group(f, seq, t))
        /\ Canonical(f, new[Chosen(f, new, Group(f, new, t))]) =
             Canonical(f, seq[Chosen(f, seq, Group(f, seq, t))])
    BY <1>3, <2>1, Relabelled
  <2> QED
    BY <2>2 DEF Kept
<1> HIDE DEF new, seq, other
<1>4. Written(f, other) = Written(f, fs)
  BY <1>0, <1>1, <1>3 DEF Written, seq
<1>5. \A t \in Written(f, fs) : Kept(f, new, t).value = Kept(f, seq, t).value
  BY <1>3 DEF Written, seq
<1>6. Outcome(f, other) = Outcome(f, fs)
  <2>1. CASE Candidates(f, seq) = {}
    BY <1>0, <1>2, <2>1 DEF Outcome, SpecOutcome, Missing, seq
  <2>2. CASE Candidates(f, seq) # {}
    <3>1. /\ BestTier(f, seq) \in Tiers /\ Group(f, seq, BestTier(f, seq)) # {}
          /\ \A u \in Tiers : Group(f, seq, u) # {} => Priority[BestTier(f, seq)] <= Priority[u]
      BY <1>0, <2>2, BestTierExists
    <3>2. /\ BestTier(f, new) \in Tiers /\ Group(f, new, BestTier(f, new)) # {}
          /\ \A u \in Tiers : Group(f, new, u) # {} => Priority[BestTier(f, new)] <= Priority[u]
      BY <1>0, <1>2, <2>2, BestTierExists
    <3>3. /\ Priority[BestTier(f, seq)] <= Priority[BestTier(f, new)]
          /\ Priority[BestTier(f, new)] <= Priority[BestTier(f, seq)]
      BY <1>1, <3>1, <3>2
    <3>4. BestTier(f, new) = BestTier(f, seq)
      BY <3>1, <3>2, <3>3 DEF Tiers, Priority
    <3>5. Outcome(f, fs) = IF Conflicts(f, seq, Group(f, seq, BestTier(f, seq)))
                             THEN "unresolved_conflict" ELSE "found"
      BY <1>0, <2>2 DEF Outcome, SpecOutcome, seq
    <3>6. Outcome(f, other) = IF Conflicts(f, new, Group(f, new, BestTier(f, new)))
                                THEN "unresolved_conflict" ELSE "found"
      BY <1>0, <1>2, <2>2 DEF Outcome, SpecOutcome
    <3> QED
      BY <1>3, <3>1, <3>4, <3>5, <3>6
  <2> QED
    BY <2>1, <2>2
<1> QED
  BY <1>0, <1>4, <1>5, <1>6 DEF other, new, seq

-----------------------------------------------------------------------------
(* The run                                                                 *)

FindingsType == [seq : Seq(Claims), notApplicable : SUBSET Facts, release : BOOLEAN]

\* A committed run has left the outcome and the values of each number as they are
\* worked out from the findings.
Recorded ==
    Committed => \A f \in batch \cap Numbers :
        /\ ~Raises(f, findings.seq)
        /\ outcome[f] = Outcome(f, findings)
        /\ outcome[f] = "found" => \A t \in Written(f, findings) :
              stored[f][t] = Kept(f, findings.seq, t)

\* A run that has not committed has settled nothing; with the findings well-formed,
\* that is what the properties need to hold in every state.
ResolutionInv ==
    /\ TypeOK
    /\ findings \in FindingsType
    /\ findings.seq \in Seq(Claims)
    /\ pc # "committed" => outcome = [f \in Facts |-> "open"]
    /\ MissingMeansUnsourced
    /\ InsightsCited
    /\ BestTierDecides
    /\ Recorded

\* Nothing is settled before the run commits, whatever the findings are.
Unsettled ==
    /\ TypeOK
    /\ findings \in FindingsType
    /\ pc # "committed"
    /\ outcome = [f \in Facts |-> "open"]

LEMMA UnsettledHolds == Unsettled => ResolutionInv
<1> SUFFICES ASSUME Unsettled PROVE ResolutionInv
  OBVIOUS
<1> USE DEF Unsettled
<1>1. \A f \in Facts : outcome[f] = "open"
  OBVIOUS
<1>2. MissingMeansUnsourced /\ InsightsCited
  BY <1>1 DEF MissingMeansUnsourced, InsightsCited, TypeOK, Facts
<1>3. BestTierDecides /\ Recorded
  BY DEF BestTierDecides, Recorded, Committed
<1>4. findings.seq \in Seq(Claims)
  BY DEF FindingsType
<1> QED
  BY <1>2, <1>3, <1>4 DEF ResolutionInv

LEMMA BegunHolds ==
  ASSUME NEW fs \in FindingsType, Begun(fs)
  PROVE  ResolutionInv
<1>1. /\ batch \in Batches /\ stored \in Catalogs
      /\ insight = [f \in Topics |-> NoInsight]
      /\ outcome = [f \in Facts |-> "open"]
      /\ result = [f \in Facts |-> "none"]
      /\ pc = "resolving" /\ findings = fs
  BY DEF Begun
<1>2. TypeOK
  BY <1>1, RunAssumption DEF TypeOK, NoInsight
<1>3. Unsettled
  BY <1>1, <1>2 DEF Unsettled
<1> QED
  BY <1>3, UnsettledHolds

LEMMA ResolveKeeps ==
  ASSUME ResolutionInv, Resolve
  PROVE  ResolutionInv'
<1> DEFINE found == {f \in batch : Outcome(f, findings) = "found"}
<1>0. /\ batch \subseteq Facts /\ findings.seq \in Seq(Claims)
      /\ \A f \in batch : ~Raises(f, findings.seq)
      /\ findings' = findings /\ batch' = batch /\ pc' = "committed"
      /\ outcome = [f \in Facts |-> "open"]
  BY DEF ResolutionInv, TypeOK, Resolve
<1>1. outcome' = [f \in Facts |-> IF f \in batch THEN Outcome(f, findings) ELSE outcome[f]]
  BY DEF Resolve
<1>2. \A f \in Facts : outcome'[f] = IF f \in batch THEN Outcome(f, findings) ELSE "open"
  BY <1>0, <1>1
<1>3. \A f \in Facts : outcome'[f] = "found" <=> f \in found
  BY <1>0, <1>2
<1>4. \A f \in Topics : insight'[f] = IF f \in found THEN InsightKept(f, findings.seq)
                                                     ELSE insight[f]
  BY DEF Resolve
<1>5. \A f \in Topics \cap found : Summaries(f, findings.seq) # {}
  BY FoundInsight
<1>6. TypeOK'
  <2>1. outcome' \in [Facts -> Memoized \cup {"open", "found", "unresolved_conflict"}]
    BY <1>1, <1>2, OutcomeType
  <2>2. result' \in [Facts -> Tiers \cup {"none"}]
    <3>1. \A f \in found \ Topics : BestTier(f, findings.seq) \in Tiers
      BY <1>0, FoundSpec, BestTierExists DEF Specs
    <3>2. result \in [Facts -> Tiers \cup {"none"}]
      BY DEF ResolutionInv, TypeOK
    <3>3. result' = [f \in Facts |->
            IF f \in found \ Topics THEN BestTier(f, findings.seq) ELSE result[f]]
      BY DEF Resolve
    <3> QED
      BY <3>1, <3>2, <3>3
  <2>3. \A f \in Specs, t \in Tiers : stored'[f][t].url \in Urls \cup {"none"}
    <3> TAKE f \in Specs, t \in Tiers
    <3>1. stored'[f][t] = IF f \in found /\ t \in Written(f, findings)
                            THEN Kept(f, findings.seq, t) ELSE stored[f][t]
      BY DEF Resolve
    <3>2. stored[f][t].url \in Urls \cup {"none"}
      BY DEF ResolutionInv, TypeOK
    <3>3. f \in found /\ t \in Written(f, findings) => Kept(f, findings.seq, t).url \in Urls
      BY <1>0, KeptIsSourced DEF Written
    <3> QED
      BY <3>1, <3>2, <3>3
  <2>4. \A f \in Topics : insight'[f].source \in {"none", "tested", "community"}
    <3> TAKE f \in Topics
    <3>1. insight[f].source \in {"none", "tested", "community"}
      BY DEF ResolutionInv, TypeOK
    <3> QED
      BY <1>0, <1>4, <1>5, <3>1, InsightIsCited
  <2> QED
    BY <1>0, <2>1, <2>2, <2>3, <2>4 DEF TypeOK, Memoized
<1>7. MissingMeansUnsourced'
  <2>1. \A f \in batch \ (Retired \cup RetiredTopics) : outcome'[f] \in Memoized => Unsourced(f, findings.seq)
    BY <1>0, <1>2, MemoizedIsUnsourced
  <2> QED
    BY <1>0, <2>1 DEF MissingMeansUnsourced, Unsourced, Memoized
<1>8. InsightsCited'
  <2>1. \A f \in Topics \cap found :
          /\ insight'[f].urls # {}
          /\ \A u \in insight'[f].urls : SiteOf[u] # "invalid"
          /\ insight'[f].source = "tested" <=> \E u \in insight'[f].urls : SiteOf[u] = "tested"
          /\ \E i \in 1..Len(findings.seq) :
                /\ findings.seq[i].fact = f
                /\ findings.seq[i].value = insight'[f].summary
                /\ insight'[f].urls \subseteq findings.seq[i].urls
    BY <1>0, <1>4, <1>5, InsightIsCited
  <2>2. \A f \in Topics : outcome'[f] = "found" => f \in found
    BY <1>3 DEF Facts
  <2>3. DOMAIN findings.seq = 1..Len(findings.seq)
    BY <1>0
  <2> QED
    BY <1>0, <2>1, <2>2, <2>3 DEF InsightsCited
<1>9. BestTierDecides'
  <2> DEFINE q == findings.seq
  <2> SUFFICES ASSUME NEW f \in batch \cap Numbers, NEW t \in Tiers,
                      Says(f, q, t) # {},
                      \A u \in Tiers : Priority[u] < Priority[t] => Says(f, q, u) = {}
               PROVE  LET conflict == Disagree(f, q, Says(f, q, t)) IN
                      /\ outcome'[f] = "unresolved_conflict" <=> conflict
                      /\ outcome'[f] = "found" <=> ~conflict
                      /\ outcome'[f] = "found" => result'[f] = t
    BY <1>0 DEF BestTierDecides
  <2>1. f \in Facts /\ f \notin Topics
    BY RunAssumption DEF Facts
  <2>2. /\ BestTier(f, q) = t
        /\ outcome'[f] = IF Disagree(f, q, Says(f, q, t)) THEN "unresolved_conflict"
                                                         ELSE "found"
    BY <1>0, <1>2, <2>1, BestTierOutcome
  <2>3. f \in found \ Topics => result'[f] = BestTier(f, q)
    BY <2>1 DEF Resolve
  <2> QED
    BY <1>3, <2>1, <2>2, <2>3
<1>10. Recorded'
  <2> SUFFICES ASSUME NEW f \in batch \cap Numbers
               PROVE  /\ ~Raises(f, findings.seq)
                      /\ outcome'[f] = Outcome(f, findings)
                      /\ outcome'[f] = "found" => \A t \in Written(f, findings) :
                            stored'[f][t] = Kept(f, findings.seq, t)
    BY <1>0 DEF Recorded
  <2>1. f \in Facts /\ f \in Specs
    BY RunAssumption DEF Specs, Facts
  <2>2. outcome'[f] = Outcome(f, findings)
    BY <1>2, <2>1
  <2>3. ASSUME f \in found, NEW t \in Written(f, findings)
        PROVE  stored'[f][t] = Kept(f, findings.seq, t)
    <3>1. t \in Tiers
      BY DEF Written
    <3> QED
      BY <2>1, <2>3, <3>1 DEF Resolve
  <2> QED
    BY <1>0, <1>3, <2>1, <2>2, <2>3
<1> QED
  BY <1>0, <1>6, <1>7, <1>8, <1>9, <1>10 DEF ResolutionInv

LEMMA NextHolds == ResolutionInv /\ [Next]_vars => ResolutionInv'
<1> SUFFICES ASSUME ResolutionInv, [Next]_vars PROVE ResolutionInv'
  OBVIOUS
<1>1. CASE Resolve
  BY <1>1, ResolveKeeps
<1>2. CASE Abort
  <2>1. /\ pc = "resolving" /\ pc' = "ended"
        /\ UNCHANGED <<findings, batch, stored, insight, outcome, result>>
    BY <1>2 DEF Abort
  <2> QED
    BY <2>1 DEF ResolutionInv, TypeOK, MissingMeansUnsourced, InsightsCited,
                BestTierDecides, Recorded, Committed
<1>3. CASE UNCHANGED vars
  BY <1>3 DEF vars, ResolutionInv, TypeOK, MissingMeansUnsourced, InsightsCited,
              BestTierDecides, Recorded, Committed
<1> QED
  BY <1>1, <1>2, <1>3 DEF Next

\* The same of a run that starts with any findings at all, as Resolution has it.
LEMMA RunHolds == Spec => []ResolutionInv
<1>1. Init => ResolutionInv
  <2> SUFFICES ASSUME Init PROVE ResolutionInv
    OBVIOUS
  <2>1. PICK n \in 0..MaxFindings, na \in {{}} \cup {{f} : f \in Facts}, release \in BOOLEAN :
           \E seq \in [1..n -> Claims] :
              Begun([seq |-> seq, notApplicable |-> na, release |-> release])
    BY DEF Init
  <2>2. PICK seq \in [1..n -> Claims] :
           Begun([seq |-> seq, notApplicable |-> na, release |-> release])
    BY <2>1
  <2>3. [seq |-> seq, notApplicable |-> na, release |-> release] \in FindingsType
    BY RunAssumption DEF FindingsType
  <2> QED
    BY <2>2, <2>3, BegunHolds
<1> QED
  BY <1>1, NextHolds, PTL DEF Spec

-----------------------------------------------------------------------------
(* The citations                                                           *)

Symbols == [kind : {"text", "mark"}, n : Int, part : Nat]

\* A grounding as the search may answer it.
Ends(g) == {g.offset[c] : c \in 0..g.length}

Supports(g) == [end : {NoEnd} \cup Ends(g), chunks : Seq(Nat)]

Grounded(g) ==
    /\ g.length \in Nat
    /\ g.offset \in [0..g.length -> Nat] /\ g.offset[0] = 0
    /\ \A c \in 1..g.length : g.offset[c] - g.offset[c - 1] \in 1..4
    /\ g.supports \in Seq(Supports(g))

\* A character has a byte at least.
LEMMA OffsetsGrow ==
  ASSUME NEW g, Grounded(g), NEW c \in 0..g.length, NEW d \in c..g.length
  PROVE  g.offset[d] - g.offset[c] >= d - c
<1> DEFINE off == g.offset
           N == g.length
           Bad == {b \in Nat : c <= b /\ b <= N /\ ~(off[b] - off[c] >= b - c)}
<1>1. N \in Nat /\ off \in [0..N -> Nat] /\ \A b \in 1..N : off[b] - off[b - 1] \in 1..4
  BY DEF Grounded
<1> HIDE DEF off, N
<1>2. c \in Nat /\ c <= N /\ d \in Nat /\ c <= d /\ d <= N
  BY <1>1 DEF N
<1>3. Bad = {}
  <2> SUFFICES ASSUME Bad # {} PROVE FALSE
    OBVIOUS
  <2>1. PICK b \in Bad : \A m \in Bad : b <= m
    BY LeastNumber
  <2>2. b \in Nat /\ c <= b /\ b <= N /\ ~(off[b] - off[c] >= b - c)
    BY <2>1
  <2>3. off[c] \in Nat
    BY <1>1, <1>2
  <2>4. b # c
    BY <1>2, <2>2, <2>3
  <2>5. b - 1 \in Nat /\ c <= b - 1 /\ b - 1 <= N /\ b - 1 \in 0..N /\ b \in 1..N /\ b \in 0..N
    BY <1>1, <1>2, <2>2, <2>4
  <2>6. b - 1 \notin Bad
    BY <2>1, <2>2
  <2>7. off[b - 1] - off[c] >= (b - 1) - c
    BY <2>5, <2>6
  <2>8. off[b] \in Nat /\ off[b - 1] \in Nat /\ off[b] - off[b - 1] \in 1..4
    BY <1>1, <2>5
  <2>9. off[b] - off[b - 1] >= 1
    BY <2>8
  <2> QED
    BY <1>2, <2>2, <2>3, <2>7, <2>8, <2>9
<1> QED
  BY <1>2, <1>3 DEF off

\* In front of p, where all characters are of one byte, an end is a position; the others
\* lie behind p.
LEMMA OneByteEnds ==
  ASSUME NEW g, Grounded(g), NEW p \in 0..g.length, g.offset[p] = p, NEW e \in Ends(g)
  PROVE  /\ e \in Nat
         /\ e <= p => e <= g.length
         /\ e > p => p < g.length
<1>1. /\ g.length \in Nat /\ p \in Nat /\ p <= g.length
      /\ \A c \in 0..g.length : g.offset[c] \in Nat
  BY DEF Grounded
<1>2. PICK c \in 0..g.length : e = g.offset[c]
  BY DEF Ends
<1>3. c <= p => g.offset[c] <= p
  <2> SUFFICES ASSUME c <= p PROVE g.offset[c] <= p
    OBVIOUS
  <2>1. p \in c..g.length
    BY <1>1
  <2>2. g.offset[p] - g.offset[c] >= p - c
    BY <2>1, OffsetsGrow
  <2> QED
    BY <1>1, <2>2
<1>4. e \in Nat
  BY <1>1, <1>2
<1> QED
  BY <1>1, <1>2, <1>3, <1>4

LEMMA AnchoredFacts ==
  ASSUME NEW g, Grounded(g)
  PROVE  /\ Anchored(g) \in SUBSET (1..Len(g.supports)) /\ Anchored(g) \in SUBSET Nat
         /\ IsFiniteSet(Anchored(g))
         /\ \A i \in Anchored(g) : /\ g.supports[i].end \in Ends(g)
                                   /\ g.supports[i].end \in Nat
                                   /\ g.supports[i].chunks \in Seq(Nat)
                                   /\ g.supports[i].chunks # <<>>
<1>1. Len(g.supports) \in Nat /\ DOMAIN g.supports = 1..Len(g.supports)
  BY DEF Grounded
<1>2. Anchored(g) \in SUBSET (1..Len(g.supports))
  BY <1>1 DEF Anchored
<1>3. \A i \in 1..Len(g.supports) : g.supports[i] \in Supports(g)
  BY DEF Grounded
<1>4. IsFiniteSet(1..Len(g.supports))
  BY <1>1, FS_Interval
<1>5. \A i \in Anchored(g) : g.supports[i].end # NoEnd /\ g.supports[i].chunks # <<>>
  BY DEF Anchored
<1>6. Ends(g) \in SUBSET Nat
  BY DEF Ends, Grounded
<1>7. \A i \in Anchored(g) : /\ g.supports[i].end \in Ends(g)
                              /\ g.supports[i].chunks \in Seq(Nat)
  <2> TAKE i \in Anchored(g)
  <2>1. g.supports[i] \in Supports(g)
    BY <1>2, <1>3
  <2>2. g.supports[i].end \in {NoEnd} \cup Ends(g)
    BY <2>1 DEF Supports
  <2>3. g.supports[i].chunks \in Seq(Nat)
    BY <2>1 DEF Supports
  <2> QED
    BY <1>5, <2>2, <2>3
<1>8. IsFiniteSet(Anchored(g))
  BY <1>2, <1>4, FS_Subset
<1> QED
  BY <1>1, <1>2, <1>5, <1>6, <1>7, <1>8

\* The supports come with their ends going back, and all of them come.
LEMMA OrderFacts ==
  ASSUME NEW g, Grounded(g)
  PROVE  /\ Cardinality(Anchored(g)) \in Nat
         /\ InsertionOrder(g) \in [1..Cardinality(Anchored(g)) -> Anchored(g)]
         /\ \A i \in Anchored(g) : \E p \in 1..Cardinality(Anchored(g)) : InsertionOrder(g)[p] = i
         /\ \A p, q \in 1..Cardinality(Anchored(g)) : p # q => InsertionOrder(g)[p] # InsertionOrder(g)[q]
         /\ \A p, q \in 1..Cardinality(Anchored(g)) : p < q =>
              g.supports[InsertionOrder(g)[q]].end <= g.supports[InsertionOrder(g)[p]].end
<1> DEFINE A == Anchored(g)
           n == Cardinality(A)
           o == InsertionOrder(g)
           c == [i \in A |-> 0 - g.supports[i].end]
           r == [i \in A |-> PlaceBy(c, A, i)]
<1>1. A \in SUBSET Nat /\ IsFiniteSet(A) /\ \A i \in A : g.supports[i].end \in Nat
  BY AnchoredFacts DEF Grounded
<1>2. n \in Nat
  BY <1>1, FS_CardinalityType
<1>3. c \in [A -> Int] /\ \A i \in A : c[i] = 0 - g.supports[i].end
  BY <1>1
<1>4. \A i \in A : Cardinality({j \in A : Behind(g, j, i)}) = r[i]
  <2> TAKE i \in A
  <2>1. \A j \in A : Behind(g, j, i) <=> c[j] < c[i] \/ (c[j] = c[i] /\ j < i)
    BY <1>1, <1>3 DEF Behind
  <2> HIDE DEF c
  <2>2. {j \in A : Behind(g, j, i)} = {j \in A : c[j] < c[i] \/ (c[j] = c[i] /\ j < i)}
    BY <2>1
  <2> QED
    BY <2>2 DEF PlaceBy
<1> HIDE DEF c
<1>5. /\ \A i \in A : r[i] \in 0..(n - 1)
      /\ \A i, j \in A : c[j] < c[i] => r[j] < r[i]
      /\ \A i, j \in A : r[i] = r[j] => i = j
      /\ \A k \in 0..(n - 1) : \E i \in A : r[i] = k
  BY <1>1, <1>3, PlacesBy
<1>6. o = [p \in 1..n |-> CHOOSE i \in A : 1 + Cardinality({j \in A : Behind(g, j, i)}) = p]
  BY DEF InsertionOrder
<1> HIDE DEF r, n, o, A
<1>7. \A p \in 1..n : o[p] \in A /\ 1 + r[o[p]] = p
  <2> TAKE p \in 1..n
  <2>1. p - 1 \in 0..(n - 1)
    BY <1>2
  <2>2. PICK i \in A : r[i] = p - 1
    BY <1>5, <2>1
  <2>3. 1 + Cardinality({j \in A : Behind(g, j, i)}) = p
    BY <1>4, <2>2
  <2>4. o[p] \in A /\ 1 + Cardinality({j \in A : Behind(g, j, o[p])}) = p
    BY <1>6, <2>3
  <2> QED
    BY <1>4, <2>4
<1>8. o \in [1..n -> A]
  BY <1>6, <1>7
<1>9. \A i \in A : \E p \in 1..n : o[p] = i
  <2> SUFFICES ASSUME NEW i \in A PROVE \E p \in 1..n : o[p] = i
    OBVIOUS
  <2>1. r[i] \in 0..(n - 1)
    BY <1>5
  <2>2. 1 + r[i] \in 1..n
    BY <1>2, <2>1
  <2>3. o[1 + r[i]] \in A /\ 1 + r[o[1 + r[i]]] = 1 + r[i]
    BY <1>7, <2>2
  <2>4. r[o[1 + r[i]]] \in 0..(n - 1)
    BY <1>5, <2>3
  <2>5. r[o[1 + r[i]]] = r[i]
    BY <1>2, <2>1, <2>3, <2>4
  <2> QED
    BY <1>5, <2>2, <2>3, <2>5
<1>10. \A p, q \in 1..n : p # q => o[p] # o[q]
  BY <1>7
<1>11. \A p, q \in 1..n : p < q => g.supports[o[q]].end <= g.supports[o[p]].end
  <2> SUFFICES ASSUME NEW p \in 1..n, NEW q \in 1..n, p < q,
                      ~(g.supports[o[q]].end <= g.supports[o[p]].end)
               PROVE  FALSE
    OBVIOUS
  <2>1. o[p] \in A /\ o[q] \in A /\ 1 + r[o[p]] = p /\ 1 + r[o[q]] = q
    BY <1>7
  <2>2. c[o[q]] < c[o[p]]
    <3>1. g.supports[o[p]].end \in Nat /\ g.supports[o[q]].end \in Nat
      BY <1>1, <2>1
    <3>2. c[o[p]] = 0 - g.supports[o[p]].end /\ c[o[q]] = 0 - g.supports[o[q]].end
      BY <1>3, <2>1
    <3> QED
      BY <3>1, <3>2
  <2>3. r[o[q]] < r[o[p]]
    BY <1>5, <2>1, <2>2
  <2>4. r[o[q]] \in 0..(n - 1) /\ r[o[p]] \in 0..(n - 1)
    BY <1>5, <2>1
  <2> QED
    BY <1>2, <2>1, <2>3, <2>4
<1> QED
  BY ONLY <1>2, <1>8, <1>9, <1>10, <1>11, Zenon DEF n, o, A

\* How many of the first j symbols are text.
TextBefore(T, j) == Cardinality({k \in 1..j : T[k].kind = "text"})

\* [n] can be read at place i of T, and the markers to be read behind position p of the
\* text (see Reads and MarksAfter).
ReadsIn(T, i, n) ==
    /\ i + Len(Marker(n)) - 1 \in DOMAIN T
    /\ \A k \in DOMAIN Marker(n) : T[i + k - 1] = Marker(n)[k]

MarksAt(T, p) ==
    {T[i].n : i \in {j \in DOMAIN T : ReadsIn(T, j, T[j].n) /\ TextBefore(T, j) = p}}

\* Where a marker begins in M, all of it can be read, and there is nothing but markers.
Whole(M) ==
    \A i \in DOMAIN M : /\ M[i].kind = "mark"
                        /\ M[i].part = 1 => ReadsIn(M, i, M[i].n)

\* The numbers of the markers that begin in M.
Starts(M) == {M[i].n : i \in {j \in DOMAIN M : M[j].part = 1}}

LEMMA MarkerFacts ==
  ASSUME NEW n
  PROVE  /\ Len(Marker(n)) \in Nat /\ Len(Marker(n)) >= 1
         /\ DOMAIN Marker(n) = 1..Len(Marker(n))
         /\ \A k \in 1..Len(Marker(n)) : Marker(n)[k] = [kind |-> "mark", n |-> n, part |-> k]
         /\ n \in Int => Marker(n) \in Seq(Symbols)
<1> DEFINE w == 2 + Digits(n)
           M == Marker(n)
<1>1. w \in Nat /\ w >= 1
  <2> DEFINE D == {d \in 0..9 : 10^d <= n}
  <2>1. D \in SUBSET (0..9)
    <3> DEFINE Few(d) == 10^d <= n
    <3> HIDE DEF Few
    <3>1. {d \in 0..9 : Few(d)} \in SUBSET (0..9)
      OBVIOUS
    <3> QED
      BY <3>1 DEF Few
  <2> HIDE DEF D
  <2>2. IsFiniteSet(0..9)
    <3> DEFINE last == 9
    <3>1. last \in Int
      OBVIOUS
    <3> HIDE DEF last
    <3>2. IsFiniteSet(0..last)
      BY <3>1, FS_Interval
    <3> QED
      BY <3>2 DEF last
  <2>3. IsFiniteSet(D)
    BY <2>1, <2>2, FS_Subset
  <2>4. Cardinality(D) \in Nat
    BY <2>3, FS_CardinalityType
  <2>5. Digits(n) = Cardinality(D)
    BY DEF Digits, D
  <2> QED
    BY <2>4, <2>5
<1>2. M = [k \in 1..w |-> [kind |-> "mark", n |-> n, part |-> k]]
  BY DEF Marker
<1> HIDE DEF w, M
<1>3. DOMAIN M = 1..w /\ \A k \in 1..w : M[k] = [kind |-> "mark", n |-> n, part |-> k]
  BY <1>2
<1>4. Len(M) = w
  BY <1>1, <1>2
<1>5. n \in Int => M \in Seq(Symbols)
  <2> SUFFICES ASSUME n \in Int PROVE M \in Seq(Symbols)
    OBVIOUS
  <2>1. \A k \in 1..w : [kind |-> "mark", n |-> n, part |-> k] \in Symbols
    BY <1>1 DEF Symbols
  <2>2. M \in [1..w -> Symbols]
    BY <1>2, <2>1
  <2> QED
    BY <1>1, <2>2
<1> QED
  BY <1>1, <1>3, <1>4, <1>5 DEF M

\* What is read begins with the first symbol of a marker.
LEMMA ReadsBegin ==
  ASSUME NEW T, NEW i \in Nat, NEW n, ReadsIn(T, i, n)
  PROVE  T[i].kind = "mark" /\ T[i].n = n /\ T[i].part = 1
<1>1. 1 \in DOMAIN Marker(n) /\ Marker(n)[1] = [kind |-> "mark", n |-> n, part |-> 1]
  <2>1. 1 \in 1..Len(Marker(n))
    BY MarkerFacts
  <2> QED
    BY <2>1, MarkerFacts
<1>2. T[i + 1 - 1] = Marker(n)[1]
  BY <1>1 DEF ReadsIn
<1>3. i + 1 - 1 = i
  OBVIOUS
<1> QED
  BY <1>1, <1>2, <1>3

\* l symbols of T behind b are those of S behind c.
Same(T, b, S, c, l) ==
    b + l <= Len(T) /\ c + l <= Len(S) /\ \A i \in 1..l : T[b + i] = S[c + i]

\* A marker is read in a part of a text as it is in the text.
LEMMA ReadsShifted ==
  ASSUME NEW T \in Seq(Symbols), NEW S \in Seq(Symbols), NEW b \in Nat, NEW c \in Nat,
         NEW l \in Nat, Same(T, b, S, c, l), NEW x \in Nat, NEW y \in Nat, NEW n,
         ReadsIn(T, x, n), b < x, x + Len(Marker(n)) - 1 <= b + l, x - b = y - c
  PROVE  ReadsIn(S, y, n)
<1> DEFINE w == Len(Marker(n))
<1>1. w \in Nat /\ w >= 1 /\ DOMAIN Marker(n) = 1..w
  BY MarkerFacts
<1>2. \A k \in DOMAIN Marker(n) : T[x + k - 1] = Marker(n)[k]
  BY DEF ReadsIn
<1>3. x + w - 1 <= b + l
  OBVIOUS
<1> HIDE DEF w
<1>4. Len(S) \in Nat /\ DOMAIN S = 1..Len(S)
  OBVIOUS
<1>5. c + l <= Len(S) /\ \A i \in 1..l : T[b + i] = S[c + i]
  BY DEF Same
<1>6. y + w - 1 \in DOMAIN S
  BY <1>1, <1>3, <1>4, <1>5
<1>7. \A k \in DOMAIN Marker(n) : S[y + k - 1] = Marker(n)[k]
  <2> TAKE k \in DOMAIN Marker(n)
  <2>1. k \in Nat /\ 1 <= k /\ k <= w
    BY <1>1
  <2> DEFINE i == x - b + k - 1
  <2>2. i \in 1..l /\ b + i = x + k - 1 /\ c + i = y + k - 1
    BY <1>1, <1>3, <2>1
  <2> HIDE DEF i
  <2>3. T[b + i] = S[c + i]
    BY <1>5, <2>2
  <2> QED
    BY <1>2, <2>2, <2>3
<1> QED
  BY <1>6, <1>7 DEF ReadsIn, w

LEMMA Joined ==
  ASSUME NEW X \in Seq(Symbols), NEW Y \in Seq(Symbols)
  PROVE  /\ X \o Y \in Seq(Symbols)
         /\ Len(X \o Y) = Len(X) + Len(Y)
         /\ \A i \in 1..Len(X) : (X \o Y)[i] = X[i]
         /\ \A i \in 1..Len(Y) : (X \o Y)[Len(X) + i] = Y[i]
OBVIOUS

\* A marker is whole, and so are markers one behind another.
LEMMA WholeMarker ==
  ASSUME NEW n
  PROVE  Whole(Marker(n)) /\ Starts(Marker(n)) = {n}
<1> DEFINE M == Marker(n)
           w == Len(M)
<1>1. /\ w \in Nat /\ w >= 1 /\ DOMAIN M = 1..w
      /\ \A k \in 1..w : M[k] = [kind |-> "mark", n |-> n, part |-> k]
  BY MarkerFacts
<1> HIDE DEF w
<1>2. ReadsIn(M, 1, n)
  <2>1. 1 + w - 1 \in DOMAIN M
    BY <1>1
  <2>2. \A k \in DOMAIN M : 1 + k - 1 = k
    BY <1>1
  <2> QED
    BY <2>1, <2>2 DEF ReadsIn, w
<1> HIDE DEF M
<1>3. \A k \in 1..w : M[k].kind = "mark" /\ M[k].n = n /\ M[k].part = k
  BY <1>1
<1>4. Whole(M)
  BY <1>1, <1>2, <1>3 DEF Whole
<1>5. Starts(M) = {n}
  BY <1>1, <1>3 DEF Starts
<1> QED
  BY <1>4, <1>5 DEF M

LEMMA WholeJoined ==
  ASSUME NEW X \in Seq(Symbols), NEW Y \in Seq(Symbols), Whole(X), Whole(Y)
  PROVE  Whole(X \o Y) /\ Starts(X \o Y) = Starts(X) \cup Starts(Y)
<1> DEFINE S == X \o Y
           a == Len(X)
           b == Len(Y)
<1>1. /\ S \in Seq(Symbols) /\ Len(S) = a + b
      /\ \A i \in 1..a : S[i] = X[i]
      /\ \A i \in 1..b : S[a + i] = Y[i]
  BY Joined
<1>2. a \in Nat /\ b \in Nat /\ DOMAIN X = 1..a /\ DOMAIN Y = 1..b
  OBVIOUS
<1> HIDE DEF S
<1>3. DOMAIN S = 1..(a + b)
  BY <1>1
<1> HIDE DEF a, b
<1>4. ASSUME NEW i \in DOMAIN S
      PROVE  (i \in 1..a /\ S[i] = X[i]) \/ (i - a \in 1..b /\ S[i] = Y[i - a])
  <2>1. i \in Nat /\ 1 <= i /\ i <= a + b
    BY <1>2, <1>3
  <2>2. CASE i <= a
    BY <1>1, <2>1, <2>2
  <2>3. CASE ~(i <= a)
    <3>1. i - a \in 1..b /\ a + (i - a) = i
      BY <1>2, <2>1, <2>3
    <3> QED
      BY <1>1, <3>1
  <2> QED
    BY <2>2, <2>3
<1>5. ASSUME NEW i \in 1..a, X[i].part = 1 PROVE ReadsIn(S, i, X[i].n)
  <2> DEFINE n == X[i].n
  <2>1. ReadsIn(X, i, n)
    BY <1>2, <1>5 DEF Whole
  <2>2. i + Len(Marker(n)) - 1 \in 1..a
    BY <1>2, <2>1 DEF ReadsIn
  <2>3. Same(X, 0, S, 0, a)
    <3>1. \A k \in 1..a : X[0 + k] = S[0 + k]
      <4> TAKE k \in 1..a
      <4>1. 0 + k = k
        BY <1>2
      <4> QED
        BY <1>1, <4>1
    <3>2. 0 + a <= Len(X) /\ 0 + a <= Len(S)
      BY <1>1, <1>2 DEF a
    <3> QED
      BY <3>1, <3>2 DEF Same
  <2>4. /\ i \in Nat /\ 0 \in Nat /\ 0 < i /\ i + Len(Marker(n)) - 1 <= 0 + a
        /\ i - 0 = i - 0
    BY <1>2, <2>2
  <2> HIDE DEF n
  <2>5. ReadsIn(S, i, n)
    BY <1>1, <1>2, <2>1, <2>3, <2>4, ReadsShifted
  <2> QED
    BY <2>5 DEF n
<1>6. ASSUME NEW i \in 1..b, Y[i].part = 1 PROVE ReadsIn(S, a + i, Y[i].n)
  <2> DEFINE n == Y[i].n
             x == a + i
  <2>1. ReadsIn(Y, i, n)
    BY <1>2, <1>6 DEF Whole
  <2>2. i + Len(Marker(n)) - 1 \in 1..b
    BY <1>2, <2>1 DEF ReadsIn
  <2>3. Same(Y, 0, S, a, b)
    <3>1. \A k \in 1..b : Y[0 + k] = S[a + k]
      <4> TAKE k \in 1..b
      <4>1. 0 + k = k
        BY <1>2
      <4> QED
        BY <1>1, <4>1
    <3>2. 0 + b <= Len(Y) /\ a + b <= Len(S)
      BY <1>1, <1>2 DEF b
    <3> QED
      BY <3>1, <3>2 DEF Same
  <2>4. /\ i \in Nat /\ x \in Nat /\ 0 \in Nat /\ 0 < i
        /\ i + Len(Marker(n)) - 1 <= 0 + b /\ i - 0 = x - a
    BY <1>2, <2>2
  <2> HIDE DEF n, x
  <2>5. ReadsIn(S, x, n)
    BY <1>1, <1>2, <2>1, <2>3, <2>4, ReadsShifted
  <2> QED
    BY <2>5 DEF n, x
<1>7. Whole(S)
  <2> SUFFICES ASSUME NEW i \in DOMAIN S
               PROVE  S[i].kind = "mark" /\ (S[i].part = 1 => ReadsIn(S, i, S[i].n))
    BY DEF Whole
  <2>1. CASE i \in 1..a /\ S[i] = X[i]
    BY <1>2, <1>5, <2>1 DEF Whole
  <2>2. CASE i - a \in 1..b /\ S[i] = Y[i - a]
    <3>1. a + (i - a) = i
      BY <1>2, <1>3
    <3>2. Y[i - a].part = 1 => ReadsIn(S, a + (i - a), Y[i - a].n)
      BY <1>6, <2>2
    <3>3. Y[i - a].kind = "mark"
      BY <1>2, <2>2 DEF Whole
    <3> QED
      BY <2>2, <3>1, <3>2, <3>3
  <2> QED
    BY <1>4, <2>1, <2>2
<1>8. Starts(S) \subseteq Starts(X) \cup Starts(Y)
  <2> SUFFICES ASSUME NEW i \in DOMAIN S, S[i].part = 1
               PROVE  S[i].n \in Starts(X) \cup Starts(Y)
    BY DEF Starts
  <2> QED
    BY <1>2, <1>4 DEF Starts
<1>9. Starts(X) \subseteq Starts(S)
  <2> SUFFICES ASSUME NEW i \in 1..a, X[i].part = 1 PROVE X[i].n \in Starts(S)
    BY <1>2 DEF Starts
  <2>1. i \in DOMAIN S /\ S[i] = X[i]
    BY <1>1, <1>2, <1>3
  <2> QED
    BY <2>1 DEF Starts
<1>10. Starts(Y) \subseteq Starts(S)
  <2> SUFFICES ASSUME NEW i \in 1..b, Y[i].part = 1 PROVE Y[i].n \in Starts(S)
    BY <1>2 DEF Starts
  <2>1. a + i \in DOMAIN S /\ S[a + i] = Y[i]
    BY <1>1, <1>2, <1>3
  <2> QED
    BY <2>1 DEF Starts
<1> QED
  BY <1>7, <1>8, <1>9, <1>10 DEF S

\* Markers among the symbols of a text leave the symbols as they are.
LEMMA SplicedSymbols ==
  ASSUME NEW T \in Seq(Symbols), NEW e \in 0..Len(T), NEW M \in Seq(Symbols)
  PROVE  /\ Spliced(T, e, M) \in Seq(Symbols)
         /\ Len(Spliced(T, e, M)) = Len(T) + Len(M)
         /\ \A i \in 1..e : Spliced(T, e, M)[i] = T[i]
         /\ \A i \in 1..Len(M) : Spliced(T, e, M)[e + i] = M[i]
         /\ \A i \in (e + 1)..Len(T) : Spliced(T, e, M)[Len(M) + i] = T[i]
<1> DEFINE A == SubSeq(T, 1, e)
           C == SubSeq(T, e + 1, Len(T))
           B == A \o M
           S == B \o C
<1>1. Len(T) \in Nat /\ e \in Nat /\ e <= Len(T) /\ Len(M) \in Nat
  OBVIOUS
<1>2. A \in Seq(Symbols) /\ Len(A) = e /\ \A i \in 1..e : A[i] = T[i]
  BY <1>1
<1>3. /\ C \in Seq(Symbols) /\ Len(C) = Len(T) - e
      /\ \A i \in 1..(Len(T) - e) : C[i] = T[e + i]
  BY <1>1
<1>4. Spliced(T, e, M) = S
  <2>1. (IF e <= Len(T) THEN e ELSE Len(T)) = e
    OBVIOUS
  <2> QED
    BY <2>1 DEF Spliced
<1> HIDE DEF A, C
<1>5. /\ B \in Seq(Symbols) /\ Len(B) = e + Len(M)
      /\ \A i \in 1..e : B[i] = A[i]
      /\ \A i \in 1..Len(M) : B[e + i] = M[i]
  BY <1>2, Joined
<1> HIDE DEF B
<1>6. /\ S \in Seq(Symbols) /\ Len(S) = Len(B) + Len(C)
      /\ \A i \in 1..Len(B) : S[i] = B[i]
      /\ \A i \in 1..Len(C) : S[Len(B) + i] = C[i]
  BY <1>3, <1>5, Joined
<1> HIDE DEF S
<1>7. \A i \in 1..e : i \in 1..Len(B) /\ S[i] = T[i]
  <2>1. \A i \in 1..e : i \in 1..Len(B)
    BY <1>1, <1>5
  <2> QED
    BY <1>2, <1>5, <1>6, <2>1
<1>8. \A i \in 1..Len(M) : S[e + i] = M[i]
  <2>1. \A i \in 1..Len(M) : e + i \in 1..Len(B)
    BY <1>1, <1>5
  <2> QED
    BY <1>5, <1>6, <2>1
<1>9. \A i \in (e + 1)..Len(T) : S[Len(M) + i] = T[i]
  <2> TAKE i \in (e + 1)..Len(T)
  <2>1. i - e \in 1..Len(C) /\ i - e \in 1..(Len(T) - e)
    BY <1>1, <1>3
  <2>2. S[Len(B) + (i - e)] = C[i - e] /\ C[i - e] = T[e + (i - e)]
    BY <1>3, <1>6, <2>1
  <2>3. Len(B) + (i - e) = Len(M) + i /\ e + (i - e) = i
    BY <1>1, <1>5, <2>1
  <2> QED
    BY <2>2, <2>3
<1>10. Len(S) = Len(T) + Len(M)
  BY <1>1, <1>3, <1>5, <1>6
<1> QED
  BY <1>4, <1>6, <1>7, <1>8, <1>9, <1>10

\* Counting symbol by symbol.
LEMMA TextCounted ==
  ASSUME NEW T, NEW j \in Nat
  PROVE  TextBefore(T, j + 1) =
           (IF T[j + 1].kind = "text" THEN TextBefore(T, j) + 1 ELSE TextBefore(T, j))
<1> DEFINE K(i) == {k \in 1..i : T[k].kind = "text"}
<1>1. TextBefore(T, j) = Cardinality(K(j)) /\ TextBefore(T, j + 1) = Cardinality(K(j + 1))
  BY DEF TextBefore
<1>2. K(j) \in SUBSET (1..j) /\ IsFiniteSet(1..j)
  BY FS_Interval
<1>3. IsFiniteSet(K(j))
  BY <1>2, FS_Subset
<1>4. CASE T[j + 1].kind = "text"
  <2>1. K(j + 1) = K(j) \cup {j + 1} /\ j + 1 \notin K(j)
    BY <1>4
  <2> HIDE DEF K
  <2>2. Cardinality(K(j) \cup {j + 1}) = Cardinality(K(j)) + 1
    BY <1>3, <2>1, FS_AddElement
  <2> QED
    BY <1>1, <1>4, <2>1, <2>2
<1>5. CASE ~(T[j + 1].kind = "text")
  <2>1. K(j + 1) = K(j)
    BY <1>5
  <2> HIDE DEF K
  <2> QED
    BY <1>1, <1>5, <2>1
<1> QED
  BY <1>4, <1>5

LEMMA AllText ==
  ASSUME NEW T, NEW j \in Nat, \A k \in 1..j : T[k].kind = "text"
  PROVE  TextBefore(T, j) = j
<1>1. {k \in 1..j : T[k].kind = "text"} = 1..j
  OBVIOUS
<1>2. Cardinality(1..j) = j
  BY FS_Interval
<1> QED
  BY <1>1, <1>2 DEF TextBefore

\* Markers put behind text shift the counts after them, and change none.
LEMMA SplicedCounts ==
  ASSUME NEW T \in Seq(Symbols), NEW e \in 0..Len(T), NEW M \in Seq(Symbols),
         \A k \in 1..e : T[k].kind = "text", \A k \in 1..Len(M) : M[k].kind = "mark"
  PROVE  /\ \A i \in 0..Len(M) : TextBefore(Spliced(T, e, M), e + i) = e
         /\ \A i \in e..Len(T) : TextBefore(Spliced(T, e, M), Len(M) + i) = TextBefore(T, i)
<1> DEFINE S == Spliced(T, e, M)
           Off == {i \in Nat : i <= Len(M) /\ TextBefore(S, e + i) # e}
           Wrong == {i \in Nat : e <= i /\ i <= Len(T)
                                   /\ TextBefore(S, Len(M) + i) # TextBefore(T, i)}
<1>1. Len(T) \in Nat /\ e \in Nat /\ e <= Len(T) /\ Len(M) \in Nat
  OBVIOUS
<1>2. /\ \A i \in 1..e : S[i] = T[i]
      /\ \A i \in 1..Len(M) : S[e + i] = M[i]
      /\ \A i \in (e + 1)..Len(T) : S[Len(M) + i] = T[i]
  BY SplicedSymbols
<1> HIDE DEF S
<1>3. TextBefore(S, e) = e /\ TextBefore(T, e) = e
  <2>1. \A k \in 1..e : S[k].kind = "text"
    BY <1>2
  <2> QED
    BY <1>1, <2>1, AllText
<1>4. Off = {}
  <2> SUFFICES ASSUME Off # {} PROVE FALSE
    OBVIOUS
  <2>1. PICK i \in Off : \A m \in Off : i <= m
    BY LeastNumber
  <2>2. i \in Nat /\ i <= Len(M) /\ TextBefore(S, e + i) # e
    BY <2>1
  <2>3. i # 0
    BY <1>1, <1>3, <2>2
  <2>4. i - 1 \in Nat /\ i - 1 <= Len(M) /\ ~(i <= i - 1) /\ i \in 1..Len(M)
    BY <1>1, <2>2, <2>3
  <2>5. TextBefore(S, e + (i - 1)) = e
    BY <2>1, <2>4
  <2>6. e + (i - 1) \in Nat /\ e + (i - 1) + 1 = e + i
    BY <1>1, <2>4
  <2>7. S[e + i].kind # "text"
    BY <1>2, <2>4
  <2>8. TextBefore(S, e + (i - 1) + 1) = TextBefore(S, e + (i - 1))
    BY <2>6, <2>7, TextCounted
  <2> QED
    BY <2>2, <2>5, <2>6, <2>8
<1>5. \A i \in 0..Len(M) : TextBefore(S, e + i) = e
  <2>1. \A i \in 0..Len(M) : i \in Nat /\ i <= Len(M)
    BY <1>1
  <2> QED
    BY <1>4, <2>1
<1>6. Wrong = {}
  <2> SUFFICES ASSUME Wrong # {} PROVE FALSE
    OBVIOUS
  <2>1. PICK i \in Wrong : \A m \in Wrong : i <= m
    BY LeastNumber
  <2>2. /\ i \in Nat /\ e <= i /\ i <= Len(T)
        /\ TextBefore(S, Len(M) + i) # TextBefore(T, i)
    BY <2>1
  <2>3. i # e
    <3>1. TextBefore(S, e + Len(M)) = e
      BY <1>1, <1>5
    <3>2. e + Len(M) = Len(M) + e
      BY <1>1
    <3> QED
      BY <1>3, <2>2, <3>1, <3>2
  <2>4. /\ i - 1 \in Nat /\ e <= i - 1 /\ i - 1 <= Len(T) /\ ~(i <= i - 1)
        /\ i \in (e + 1)..Len(T)
    BY <1>1, <2>2, <2>3
  <2>5. TextBefore(S, Len(M) + (i - 1)) = TextBefore(T, i - 1)
    BY <2>1, <2>4
  <2>6. /\ Len(M) + (i - 1) \in Nat /\ Len(M) + (i - 1) + 1 = Len(M) + i
        /\ (i - 1) + 1 = i
    BY <1>1, <2>4
  <2>7. S[Len(M) + i] = T[i]
    BY <1>2, <2>4
  <2>8. TextBefore(S, Len(M) + (i - 1) + 1) =
           (IF S[Len(M) + (i - 1) + 1].kind = "text" THEN TextBefore(S, Len(M) + (i - 1)) + 1
            ELSE TextBefore(S, Len(M) + (i - 1)))
    BY <2>6, TextCounted
  <2>9. TextBefore(T, (i - 1) + 1) =
           (IF T[(i - 1) + 1].kind = "text" THEN TextBefore(T, i - 1) + 1
            ELSE TextBefore(T, i - 1))
    BY <2>4, TextCounted
  <2> QED
    BY <2>2, <2>5, <2>6, <2>7, <2>8, <2>9
<1>7. \A i \in e..Len(T) : TextBefore(S, Len(M) + i) = TextBefore(T, i)
  <2>1. \A i \in e..Len(T) : i \in Nat /\ e <= i /\ i <= Len(T)
    BY <1>1
  <2> QED
    BY <1>6, <2>1
<1> QED
  BY <1>5, <1>7 DEF S

\* Markers put behind the first e characters are the ones that come there, and the
\* other markers stay where they are.
LEMMA SplicedMarks ==
  ASSUME NEW T \in Seq(Symbols), NEW e \in 0..Len(T), NEW M \in Seq(Symbols),
         \A k \in 1..e : T[k].kind = "text", Whole(M), NEW p
  PROVE  MarksAt(Spliced(T, e, M), p) = MarksAt(T, p) \cup {x \in Starts(M) : p = e}
<1> DEFINE S == Spliced(T, e, M)
           New == {x \in Starts(M) : p = e}
           l == Len(M)
           t == Len(T)
<1>1. t \in Nat /\ e \in Nat /\ e <= t /\ l \in Nat /\ DOMAIN T = 1..t /\ DOMAIN M = 1..l
  OBVIOUS
<1>2. /\ S \in Seq(Symbols) /\ Len(S) = t + l
      /\ \A i \in 1..e : S[i] = T[i]
      /\ \A i \in 1..l : S[e + i] = M[i]
      /\ \A i \in (e + 1)..t : S[l + i] = T[i]
  BY SplicedSymbols
<1>3. \A k \in 1..l : M[k].kind = "mark"
  BY <1>1 DEF Whole
<1>4. /\ \A i \in 0..l : TextBefore(S, e + i) = e
      /\ \A i \in e..t : TextBefore(S, l + i) = TextBefore(T, i)
  BY <1>3, SplicedCounts
<1>5. \A k \in 1..e : T[k].kind # "mark"
  OBVIOUS
<1> HIDE DEF S
<1>6. DOMAIN S = 1..(t + l)
  BY <1>2
<1> HIDE DEF l, t
<1>7. \A i \in 1..(t - e) : T[e + i] = S[(e + l) + i]
  <2> TAKE i \in 1..(t - e)
  <2>1. e + i \in (e + 1)..t /\ l + (e + i) = (e + l) + i
    BY <1>1
  <2>2. S[l + (e + i)] = T[e + i]
    BY <1>2, <2>1
  <2> QED
    BY <2>1, <2>2
<1>8. ASSUME NEW i \in Nat, NEW j \in Nat, e < i, j = l + i, NEW n
      PROVE  ReadsIn(T, i, n) <=> ReadsIn(S, j, n)
  <2> DEFINE w == Len(Marker(n))
             b == t - e
             c == e + l
  <2>1. w \in Nat /\ b \in Nat /\ c \in Nat /\ e + b = t /\ c + b = t + l
    BY <1>1, MarkerFacts
  <2>2. Same(T, e, S, c, b) /\ Same(S, c, T, e, b)
    <3>1. e + b <= Len(T) /\ c + b <= Len(S)
      BY <1>1, <1>2, <2>1 DEF t
    <3>2. \A k \in 1..b : T[e + k] = S[c + k]
      BY <1>7
    <3> HIDE DEF b, c
    <3> QED
      BY <3>1, <3>2 DEF Same
  <2>3. ReadsIn(T, i, n) => i + w - 1 <= e + b
    <3> SUFFICES ASSUME i + w - 1 \in 1..t PROVE i + w - 1 <= e + b
      BY <1>1 DEF ReadsIn
    <3> HIDE DEF w, b
    <3> QED
      BY <1>1, <2>1
  <2>4. ReadsIn(S, j, n) => j + w - 1 <= c + b
    <3> SUFFICES ASSUME j + w - 1 \in 1..(t + l) PROVE j + w - 1 <= c + b
      BY <1>6 DEF ReadsIn
    <3> HIDE DEF w, b, c
    <3> QED
      BY <1>1, <2>1
  <2>5. e < i /\ c < j /\ i - e = j - c /\ j - c = i - e
    BY <1>1, <1>8
  <2> HIDE DEF b, c
  <2>6. ReadsIn(T, i, n) => ReadsIn(S, j, n)
    BY <1>1, <1>2, <2>1, <2>2, <2>3, <2>5, ReadsShifted
  <2>7. ReadsIn(S, j, n) => ReadsIn(T, i, n)
    BY <1>1, <1>2, <2>1, <2>2, <2>4, <2>5, ReadsShifted
  <2> QED
    BY <2>6, <2>7
<1>9. ASSUME NEW i \in DOMAIN S, ReadsIn(S, i, S[i].n), TextBefore(S, i) = p
      PROVE  S[i].n \in MarksAt(T, p) \cup New
  <2>0. i \in Nat /\ 1 <= i /\ i <= t + l
    BY <1>1, <1>6
  <2>1. S[i].kind = "mark" /\ S[i].part = 1
    BY <1>9, <2>0, ReadsBegin
  <2>2. i > e
    <3> SUFFICES ASSUME ~(i > e) PROVE FALSE
      OBVIOUS
    <3>1. i \in 1..e
      BY <1>1, <2>0
    <3> QED
      BY <1>2, <1>5, <2>1, <3>1
  <2>3. CASE i <= e + l
    <3>1. i - e \in 1..l /\ i - e \in 0..l /\ e + (i - e) = i
      BY <1>1, <2>0, <2>2, <2>3
    <3>2. p = e /\ S[i] = M[i - e]
      BY <1>2, <1>4, <1>9, <3>1
    <3>3. S[i].n \in Starts(M)
      BY <1>1, <2>1, <3>1, <3>2 DEF Starts
    <3> QED
      BY <3>2, <3>3
  <2>4. CASE i > e + l
    <3> DEFINE j == i - l
    <3>1. /\ j \in Nat /\ e < j /\ i = l + j
          /\ j \in e..t /\ j \in 1..t /\ j \in (e + 1)..t
      BY <1>1, <2>0, <2>4
    <3> HIDE DEF j
    <3>2. T[j] = S[i]
      BY <1>2, <3>1
    <3>3. TextBefore(T, j) = p
      BY <1>4, <1>9, <3>1
    <3>4. ReadsIn(T, j, T[j].n)
      BY <1>8, <1>9, <2>0, <3>1, <3>2
    <3>5. T[j].n \in MarksAt(T, p)
      BY <1>1, <3>1, <3>3, <3>4 DEF MarksAt
    <3> QED
      BY <3>2, <3>5
  <2> QED
    BY <1>1, <2>0, <2>3, <2>4
<1>10. ASSUME NEW i \in DOMAIN T, ReadsIn(T, i, T[i].n), TextBefore(T, i) = p
       PROVE  T[i].n \in MarksAt(S, p)
  <2>0. i \in Nat /\ 1 <= i /\ i <= t
    BY <1>1
  <2>1. T[i].kind = "mark"
    BY <1>10, <2>0, ReadsBegin
  <2>2. i > e
    <3> SUFFICES ASSUME ~(i > e) PROVE FALSE
      OBVIOUS
    <3>1. i \in 1..e
      BY <1>1, <2>0
    <3> QED
      BY <1>5, <2>1, <3>1
  <2> DEFINE j == l + i
  <2>3. j \in Nat /\ i \in e..t /\ i \in (e + 1)..t /\ j \in 1..(t + l)
    BY <1>1, <2>0, <2>2
  <2>4. S[j] = T[i]
    BY <1>2, <2>3
  <2>5. TextBefore(S, j) = p
    BY <1>4, <1>10, <2>3
  <2>6. ReadsIn(S, j, S[j].n)
    BY <1>8, <1>10, <2>0, <2>2, <2>3, <2>4
  <2> HIDE DEF j
  <2>7. S[j].n \in MarksAt(S, p)
    BY <1>6, <2>3, <2>5, <2>6 DEF MarksAt
  <2> QED
    BY <2>4, <2>7
<1>11. ASSUME NEW k \in 1..l, M[k].part = 1, p = e
       PROVE  M[k].n \in MarksAt(S, p)
  <2> DEFINE n == M[k].n
             x == e + k
  <2>1. k \in 0..l /\ x \in DOMAIN S /\ k \in Nat /\ x \in Nat
    BY <1>1, <1>6
  <2>2. S[x] = M[k] /\ TextBefore(S, x) = p
    BY <1>2, <1>4, <1>11, <2>1
  <2>3. ReadsIn(M, k, n)
    BY <1>1, <1>11 DEF Whole
  <2>4. k + Len(Marker(n)) - 1 \in 1..l
    BY <1>1, <2>3 DEF ReadsIn
  <2>5. 0 \in Nat /\ 0 < k /\ k + Len(Marker(n)) - 1 <= 0 + l /\ k - 0 = x - e
    BY <1>1, <2>4
  <2>6. Same(M, 0, S, e, l)
    <3>1. \A i \in 1..l : M[0 + i] = S[e + i]
      <4> TAKE i \in 1..l
      <4>1. 0 + i = i
        BY <1>1
      <4> QED
        BY <1>2, <4>1
    <3>2. 0 + l <= Len(M) /\ e + l <= Len(S)
      BY <1>1, <1>2 DEF l
    <3> QED
      BY <3>1, <3>2 DEF Same
  <2> HIDE DEF n, x
  <2>7. ReadsIn(S, x, n)
    BY <1>1, <1>2, <2>1, <2>3, <2>5, <2>6, ReadsShifted
  <2>8. S[x].n = n
    BY <2>2 DEF n
  <2>9. S[x].n \in MarksAt(S, p)
    BY <2>1, <2>2, <2>7, <2>8 DEF MarksAt
  <2> QED
    BY <2>8, <2>9 DEF n
<1>12. MarksAt(S, p) \subseteq MarksAt(T, p) \cup New
  <2> HIDE DEF New
  <2> QED
    BY <1>9 DEF MarksAt
<1>13. MarksAt(T, p) \subseteq MarksAt(S, p)
  BY <1>10 DEF MarksAt
<1>14. New \subseteq MarksAt(S, p)
  BY <1>1, <1>11 DEF Starts
<1> QED
  BY <1>12, <1>13, <1>14 DEF S

\* Behind the first p + 1 characters there are no markers behind the first p.
LEMMA NoMarks ==
  ASSUME NEW T \in Seq(Symbols), NEW p \in Nat, p + 1 <= Len(T),
         \A k \in 1..(p + 1) : T[k].kind = "text"
  PROVE  MarksAt(T, p) = {}
<1> SUFFICES ASSUME NEW i \in DOMAIN T, ReadsIn(T, i, T[i].n), TextBefore(T, i) = p
             PROVE  FALSE
  BY DEF MarksAt
<1>1. i \in Nat /\ 1 <= i
  OBVIOUS
<1>2. T[i].kind = "mark"
  BY <1>1, ReadsBegin
<1>3. i > p + 1
  BY <1>1, <1>2
<1> DEFINE K == {k \in 1..i : T[k].kind = "text"}
<1>4. 1..(p + 1) \in SUBSET K /\ K \in SUBSET (1..i)
  BY <1>1, <1>3
<1>5. IsFiniteSet(1..i) /\ IsFiniteSet(1..(p + 1)) /\ Cardinality(1..(p + 1)) = p + 1
  BY <1>1, FS_Interval
<1>6. Cardinality(K) = p
  BY DEF TextBefore
<1> HIDE DEF K
<1>7. IsFiniteSet(K)
  BY <1>4, <1>5, FS_Subset
<1>8. Cardinality(1..(p + 1)) <= Cardinality(K)
  BY <1>4, <1>7, FS_Subset
<1> QED
  BY <1>5, <1>6, <1>8

\* A text with the markers of support i.
WithSupport(g, text, i) == Spliced(text, g.supports[i].end, MarkersOf(g.supports[i]))

\* One step of the fold: the last support of s, after the others.
OneSplice(g, h, s) ==
    IF s = {} THEN [i \in 1..g.length |-> Character(i)]
              ELSE LET x == Max(s) IN WithSupport(g, h[s \ {x}], InsertionOrder(g)[x])

Splices(g) == CHOOSE h : h = [s \in SUBSET DOMAIN InsertionOrder(g) |-> OneSplice(g, h, s)]

LEMMA AnnotatedIsSplices ==
  ASSUME NEW g
  PROVE  Annotated(g) = Splices(g)[DOMAIN InsertionOrder(g)]
BY DEF Annotated, FoldLeft, MapThenFoldSet, Splices, OneSplice, WithSupport

\* Some positions have a last one.
LEMMA LastPosition ==
  ASSUME NEW b \in Nat, NEW s \in SUBSET (1..b), s # {}
  PROVE  Max(s) \in s
<1> DEFINE Bounds == {n \in Nat : \A x \in s : x <= n}
<1>1. b \in Bounds
  OBVIOUS
<1>2. PICK n \in Bounds : \A m \in Bounds : n <= m
  BY <1>1, LeastNumber
<1>3. n \in Nat /\ \A x \in s : x \in Nat /\ 1 <= x /\ x <= n
  BY <1>2
<1>4. n \in s
  <2> SUFFICES ASSUME n \notin s PROVE FALSE
    OBVIOUS
  <2>1. PICK y \in s : TRUE
    OBVIOUS
  <2>2. 1 <= n
    BY <1>3, <2>1
  <2>3. \A x \in s : x <= n - 1
    BY <1>3
  <2>4. n - 1 \in Bounds
    BY <1>3, <2>2, <2>3
  <2>5. n <= n - 1
    BY <1>2, <2>4
  <2> QED
    BY <1>3, <2>5
<1> QED
  BY <1>3, <1>4 DEF Max

\* The texts of all sets of supports exist: smaller sets first.
LEMMA SplicesExist ==
  ASSUME NEW g, NEW n \in Nat, DOMAIN InsertionOrder(g) = 1..n
  PROVE  \E h : h = [s \in SUBSET DOMAIN InsertionOrder(g) |-> OneSplice(g, h, s)]
<1> DEFINE S == DOMAIN InsertionOrder(g)
           UpTo(k) == {s \in SUBSET S : Cardinality(s) <= k}
           Good(h, k) == \A s \in UpTo(k) : h[s] = OneSplice(g, h, s)
           Bad == {k \in Nat : ~ \E h : Good(h, k)}
<1>0. IsFiniteSet(S) /\ S = 1..n
  BY FS_Interval
<1> HIDE DEF S
<1>1. \A s \in SUBSET S : IsFiniteSet(s) /\ Cardinality(s) \in Nat
  BY <1>0, FS_Subset, FS_CardinalityType
<1>2. \A s \in SUBSET S : s # {} =>
        /\ Max(s) \in s /\ s \ {Max(s)} \in SUBSET S
        /\ Cardinality(s \ {Max(s)}) = Cardinality(s) - 1
  BY <1>0, <1>1, LastPosition, FS_RemoveElement
<1>3. ASSUME NEW h1, NEW h2, NEW s \in SUBSET S,
             s # {} => h1[s \ {Max(s)}] = h2[s \ {Max(s)}]
      PROVE  OneSplice(g, h1, s) = OneSplice(g, h2, s)
  BY <1>3 DEF OneSplice
<1>4. \A k \in Nat : \A h : Good(h, k) => \E h1 : Good(h1, k + 1)
  <2> SUFFICES ASSUME NEW k \in Nat, NEW h, Good(h, k) PROVE \E h1 : Good(h1, k + 1)
    OBVIOUS
  <2> DEFINE h1 == [s \in SUBSET S |-> OneSplice(g, h, s)]
  <2>1. \A s \in UpTo(k) : h1[s] = h[s]
    OBVIOUS
  <2>2. \A s \in SUBSET S : h1[s] = OneSplice(g, h, s)
    OBVIOUS
  <2> HIDE DEF h1
  <2>3. \A s \in UpTo(k + 1) : OneSplice(g, h1, s) = OneSplice(g, h, s)
    <3> TAKE s \in UpTo(k + 1)
    <3>1. s \in SUBSET S /\ Cardinality(s) \in Nat /\ Cardinality(s) <= k + 1
      BY <1>1
    <3>2. s # {} => s \ {Max(s)} \in SUBSET S /\ Cardinality(s \ {Max(s)}) <= k
      <4> SUFFICES ASSUME s # {}
                   PROVE  s \ {Max(s)} \in SUBSET S /\ Cardinality(s \ {Max(s)}) <= k
        OBVIOUS
      <4>1. /\ s \ {Max(s)} \in SUBSET S
            /\ Cardinality(s \ {Max(s)}) = Cardinality(s) - 1
        BY <1>2, <3>1
      <4> QED
        BY <3>1, <4>1
    <3>3. s # {} => h1[s \ {Max(s)}] = h[s \ {Max(s)}]
      BY <2>1, <3>2
    <3> QED
      BY <1>3, <3>1, <3>3
  <2>4. Good(h1, k + 1)
    BY <2>2, <2>3
  <2> QED
    BY <2>4
<1>5. \E h : Good(h, 0)
  <2> DEFINE h == [s \in SUBSET S |-> [i \in 1..g.length |-> Character(i)]]
  <2>1. \A s \in UpTo(0) : s = {}
    BY <1>1, FS_EmptySet
  <2>2. Good(h, 0)
    BY <2>1 DEF OneSplice
  <2> QED
    BY <2>2
<1> HIDE DEF Good
<1>6. Bad = {}
  <2> SUFFICES ASSUME Bad # {} PROVE FALSE
    OBVIOUS
  <2>1. PICK k \in Bad : \A m \in Bad : k <= m
    BY LeastNumber
  <2>2. k # 0
    BY <1>5
  <2>3. k - 1 \in Nat /\ k - 1 \notin Bad
    BY <2>1, <2>2
  <2> QED
    BY <1>4, <2>1, <2>3
<1>7. PICK h : Good(h, Cardinality(S))
  BY <1>0, <1>1, <1>6
<1>8. \A s \in SUBSET S : s \in UpTo(Cardinality(S))
  BY <1>0, FS_Subset
<1> DEFINE h1 == [s \in SUBSET S |-> h[s]]
<1>9. \A s \in SUBSET S : h1[s] = h[s] /\ h[s] = OneSplice(g, h, s)
  BY <1>7, <1>8 DEF Good
<1>10. h1 = [s \in SUBSET S |-> h1[s]]
  OBVIOUS
<1> HIDE DEF h1
<1>11. \A s \in SUBSET S : h1[s] = OneSplice(g, h1, s)
  <2> TAKE s \in SUBSET S
  <2>1. s # {} => h1[s \ {Max(s)}] = h[s \ {Max(s)}]
    BY <1>2, <1>9
  <2>2. OneSplice(g, h1, s) = OneSplice(g, h, s)
    BY <1>3, <2>1
  <2> QED
    BY <1>9, <2>2
<1>12. h1 = [s \in SUBSET S |-> OneSplice(g, h1, s)]
  BY <1>10, <1>11
<1> QED
  BY <1>12 DEF S

\* The text with the markers of the first k supports.
TextAfter(g, k) == Splices(g)[1..k]

LEMMA SupportBySupport ==
  ASSUME NEW g, Grounded(g)
  PROVE  /\ TextAfter(g, 0) = [i \in 1..g.length |-> Character(i)]
         /\ \A k \in 1..Cardinality(Anchored(g)) :
              TextAfter(g, k) = WithSupport(g, TextAfter(g, k - 1), InsertionOrder(g)[k])
         /\ Annotated(g) = TextAfter(g, Cardinality(Anchored(g)))
<1> DEFINE n == Cardinality(Anchored(g))
           h == Splices(g)
<1>1. n \in Nat /\ DOMAIN InsertionOrder(g) = 1..n
  BY OrderFacts
<1> HIDE DEF n
<1>2. h = [s \in SUBSET DOMAIN InsertionOrder(g) |-> OneSplice(g, h, s)]
  BY <1>1, SplicesExist DEF Splices
<1> HIDE DEF h
<1>3. \A s \in SUBSET (1..n) : h[s] = OneSplice(g, h, s)
  BY <1>1, <1>2
<1>4. h[1..0] = [i \in 1..g.length |-> Character(i)]
  <2>1. 1..0 = {} /\ 1..0 \in SUBSET (1..n)
    OBVIOUS
  <2> QED
    BY <1>3, <2>1 DEF OneSplice
<1>5. ASSUME NEW k \in 1..n
      PROVE  h[1..k] = WithSupport(g, h[1..(k - 1)], InsertionOrder(g)[k])
  <2>1. k \in Nat /\ 1..k \in SUBSET (1..n) /\ 1..k # {} /\ (1..k) \ {k} = 1..(k - 1)
    BY <1>1
  <2>2. Max(1..k) = k
    <3>1. Max(1..k) \in 1..k /\ \A y \in 1..k : Max(1..k) >= y
      <4>1. k \in 1..k /\ \A y \in 1..k : k >= y
        BY <2>1
      <4> QED
        BY <4>1 DEF Max
    <3> QED
      BY <2>1, <3>1
  <2>3. h[1..k] = OneSplice(g, h, 1..k)
    BY <1>3, <2>1
  <2> QED
    BY <2>1, <2>2, <2>3 DEF OneSplice
<1> QED
  BY <1>1, <1>4, <1>5, AnnotatedIsSplices DEF h, n, TextAfter

\* The numbers support i cites.
Cited(g, i) == {g.supports[i].chunks[k] + 1 : k \in DOMAIN g.supports[i].chunks}

\* How one more sequence lengthens those before it.
OneFlat(seqs, h, i) == IF i = 1 THEN seqs[i] ELSE h[i - 1] \o seqs[i]

FlatOf(seqs) == CHOOSE h : h = [i \in 1..Len(seqs) |-> OneFlat(seqs, h, i)]

LEMMA FlattenIsFlat ==
  ASSUME NEW seqs, Len(seqs) # 0
  PROVE  FlattenSeq(seqs) = FlatOf(seqs)[Len(seqs)]
BY DEF FlattenSeq, FlatOf, OneFlat

LEMMA FlatExists ==
  ASSUME NEW seqs, NEW n \in Nat
  PROVE  \E h : h = [i \in 1..n |-> OneFlat(seqs, h, i)]
<1> DEFINE Good(h, m) == h = [i \in 1..m |-> OneFlat(seqs, h, i)]
           Bad == {m \in Nat : ~ \E h : Good(h, m)}
<1>1. Bad = {}
  <2> SUFFICES ASSUME Bad # {} PROVE FALSE
    OBVIOUS
  <2>1. PICK m \in Bad : \A k \in Bad : m <= k
    BY LeastNumber
  <2>2. m # 0
    <3> DEFINE h == [i \in 1..0 |-> <<>>]
    <3>1. \A i \in 1..0 : OneFlat(seqs, h, i) = <<>>
      OBVIOUS
    <3>2. [i \in 1..0 |-> OneFlat(seqs, h, i)] = [i \in 1..0 |-> <<>>]
      BY <3>1
    <3>3. Good(h, 0)
      BY <3>2
    <3> QED
      BY <3>3
  <2>3. m - 1 \in Nat /\ m - 1 \notin Bad
    BY <2>1, <2>2
  <2>4. PICK g : Good(g, m - 1)
    BY <2>3
  <2> DEFINE h == [i \in 1..m |-> IF i < m THEN g[i] ELSE OneFlat(seqs, g, i)]
  <2>5. \A i \in 1..m : h[i] = OneFlat(seqs, h, i)
    <3> TAKE i \in 1..m
    <3>1. i # 1 => h[i - 1] = g[i - 1]
      BY <2>3
    <3>2. i < m => g[i] = OneFlat(seqs, g, i)
      <4>1. i < m => i \in 1..(m - 1)
        BY <2>3
      <4>2. \A j \in 1..(m - 1) : g[j] = OneFlat(seqs, g, j)
        <5>1. g = [j \in 1..(m - 1) |-> OneFlat(seqs, g, j)]
          BY <2>4, Zenon
        <5> HIDE DEF Good, Bad
        <5> QED
          BY ONLY <5>1, Zenon
      <4> QED
        BY <4>1, <4>2
    <3>3. h[i] = OneFlat(seqs, g, i)
      BY <3>2
    <3> HIDE DEF h
    <3> QED
      BY <3>1, <3>3 DEF OneFlat
  <2>6. h = [i \in 1..m |-> h[i]]
    OBVIOUS
  <2> HIDE DEF h
  <2>7. Good(h, m)
    BY <2>5, <2>6
  <2> QED
    BY <2>1, <2>7
<1> QED
  BY <1>1

\* The markers of a support are whole, one for each number it cites.
LEMMA MarkersCite ==
  ASSUME NEW g, Grounded(g), NEW i \in Anchored(g)
  PROVE  /\ MarkersOf(g.supports[i]) \in Seq(Symbols)
         /\ Whole(MarkersOf(g.supports[i]))
         /\ Starts(MarkersOf(g.supports[i])) = Cited(g, i)
<1> DEFINE c == g.supports[i].chunks
           seqs == [k \in DOMAIN c |-> Marker(c[k] + 1)]
           n == Len(c)
           h == FlatOf(seqs)
           Numbers1(m) == {c[k] + 1 : k \in 1..m}
           Good(m) == /\ h[m] \in Seq(Symbols) /\ Whole(h[m])
                      /\ Starts(h[m]) = Numbers1(m)
           Bad == {m \in Nat : 1 <= m /\ m <= n /\ ~Good(m)}
<1>1. c \in Seq(Nat) /\ c # <<>>
  BY AnchoredFacts
<1>2. MarkersOf(g.supports[i]) = FlattenSeq(seqs) /\ Cited(g, i) = {c[k] + 1 : k \in DOMAIN c}
  BY DEF MarkersOf, Cited
<1> HIDE DEF c
<1>3. n \in Nat /\ n # 0 /\ DOMAIN c = 1..n /\ \A k \in 1..n : c[k] \in Nat
  BY <1>1
<1>4. Len(seqs) = n /\ \A k \in 1..n : seqs[k] = Marker(c[k] + 1)
  BY <1>3
<1> HIDE DEF seqs
<1>5. FlattenSeq(seqs) = h[n]
  BY <1>3, <1>4, FlattenIsFlat
<1>6. h = [m \in 1..n |-> OneFlat(seqs, h, m)]
  <2>1. \E f : f = [m \in 1..Len(seqs) |-> OneFlat(seqs, f, m)]
    BY <1>3, <1>4, FlatExists
  <2>2. h = [m \in 1..Len(seqs) |-> OneFlat(seqs, h, m)]
    BY <2>1 DEF FlatOf
  <2> HIDE DEF h
  <2> QED
    BY <1>4, <2>2
<1> HIDE DEF n, h
<1>7. \A m \in 1..n : h[m] = OneFlat(seqs, h, m)
  BY <1>6
<1>8. \A k \in 1..n : /\ seqs[k] \in Seq(Symbols) /\ Whole(seqs[k])
                      /\ Starts(seqs[k]) = {c[k] + 1}
  <2> TAKE k \in 1..n
  <2>1. c[k] + 1 \in Int
    BY <1>3
  <2>2. Marker(c[k] + 1) \in Seq(Symbols)
    BY <2>1, MarkerFacts
  <2>3. Whole(Marker(c[k] + 1)) /\ Starts(Marker(c[k] + 1)) = {c[k] + 1}
    BY WholeMarker
  <2> QED
    BY <1>4, <2>2, <2>3
<1>9. Bad = {}
  <2> SUFFICES ASSUME Bad # {} PROVE FALSE
    OBVIOUS
  <2>1. PICK m \in Bad : \A k \in Bad : m <= k
    BY LeastNumber
  <2>2. m \in Nat /\ m \in 1..n /\ ~Good(m)
    BY <1>3, <2>1
  <2> DEFINE X == h[m - 1]
             Y == seqs[m]
  <2>3. Y \in Seq(Symbols) /\ Whole(Y) /\ Starts(Y) = {c[m] + 1}
    BY <1>8, <2>2
  <2>4. m # 1
    <3> SUFFICES ASSUME m = 1 PROVE FALSE
      OBVIOUS
    <3>1. h[1] = seqs[1]
      BY <1>7, <2>2 DEF OneFlat
    <3>2. Numbers1(1) = {c[1] + 1}
      BY <2>2
    <3> QED
      BY <2>2, <2>3, <3>1, <3>2
  <2>5. m - 1 \in Nat /\ 1 <= m - 1 /\ m - 1 <= n /\ ~(m <= m - 1)
    BY <1>3, <2>2, <2>4
  <2>6. Good(m - 1)
    BY <2>1, <2>5
  <2>7. h[m] = X \o Y
    BY <1>7, <2>2, <2>4 DEF OneFlat
  <2>8. Numbers1(m) = Numbers1(m - 1) \cup {c[m] + 1}
    <3>1. 1..m = 1..(m - 1) \cup {m}
      BY <2>2, <2>5
    <3> HIDE DEF Bad
    <3> QED
      BY ONLY <3>1
  <2>9. X \in Seq(Symbols) /\ Whole(X) /\ Starts(X) = Numbers1(m - 1)
    BY <2>6
  <2> HIDE DEF X, Y, Numbers1
  <2>10. Whole(X \o Y) /\ Starts(X \o Y) = Starts(X) \cup Starts(Y)
    BY <2>3, <2>9, WholeJoined
  <2>11. X \o Y \in Seq(Symbols)
    BY <2>3, <2>9, Joined
  <2> QED
    BY <2>2, <2>3, <2>7, <2>8, <2>9, <2>10, <2>11
<1>10. Good(n)
  <2> HIDE DEF Good, Bad
  <2>1. n \in Nat /\ 1 <= n /\ n <= n
    BY <1>3
  <2>2. n \notin Bad
    BY <1>9
  <2> QED
    BY <2>1, <2>2 DEF Bad
<1>11. Numbers1(n) = Cited(g, i)
  BY <1>2, <1>3
<1> QED
  BY <1>2, <1>5, <1>10, <1>11

\* Where all characters up to p are of one byte: when k supports have come, those of them
\* that end at p are all the markers to be read there; the text the others cite up to p
\* has no marker before its end yet, and behind p + 1 there is none as long as all the
\* supports end farther back.
Placed(g, p, k) ==
    LET o == InsertionOrder(g)
        T == TextAfter(g, k)
        end(j) == g.supports[o[j]].end IN
    /\ T \in Seq(Symbols)
    /\ g.length <= Len(T)
    /\ \A j \in (k + 1)..Cardinality(Anchored(g)) :
         end(j) <= p => \A m \in 1..end(j) : T[m].kind = "text"
    /\ (\A j \in 1..k : end(j) > p) =>
         \A m \in 1..g.length : m <= p + 1 => T[m].kind = "text"
    /\ MarksAt(T, p) = UNION {Cited(g, o[j]) : j \in {m \in 1..k : end(m) = p}}

LEMMA PlacedAtFirst ==
  ASSUME NEW g, Grounded(g), NEW p \in 0..g.length, g.offset[p] = p
  PROVE  Placed(g, p, 0)
<1> DEFINE o == InsertionOrder(g)
           T == TextAfter(g, 0)
           n == Cardinality(Anchored(g))
           end(j) == g.supports[o[j]].end
<1>1. T = [i \in 1..g.length |-> Character(i)] /\ g.length \in Nat
  BY SupportBySupport DEF Grounded
<1>2. n \in Nat /\ \A j \in 1..n : end(j) \in Ends(g)
  BY OrderFacts, AnchoredFacts
<1>3. \A j \in 1..n : end(j) \in Nat /\ (end(j) <= p => end(j) <= g.length)
  BY <1>2, OneByteEnds
<1> HIDE DEF T, o, n
<1>4. \A i \in 1..g.length : T[i] \in Symbols /\ T[i].kind = "text"
  BY <1>1 DEF Character, Symbols
<1>5. DOMAIN T = 1..g.length
  BY <1>1
<1>6. T \in Seq(Symbols) /\ Len(T) = g.length
  <2>1. T \in [1..g.length -> Symbols]
    BY <1>1, <1>4
  <2> QED
    BY <1>1, <2>1
<1>7. \A j \in (0 + 1)..n : end(j) <= p => \A m \in 1..end(j) : T[m].kind = "text"
  <2> SUFFICES ASSUME NEW j \in (0 + 1)..n, end(j) <= p
               PROVE  \A m \in 1..end(j) : T[m].kind = "text"
    OBVIOUS
  <2>1. j \in 1..n
    BY <1>2
  <2>2. end(j) \in Nat /\ end(j) <= g.length
    BY <1>3, <2>1
  <2>3. \A m \in 1..end(j) : m \in 1..g.length
    BY <1>1, <2>2
  <2> QED
    BY <1>4, <2>3
<1>8. MarksAt(T, p) = {}
  <2> SUFFICES ASSUME NEW i \in DOMAIN T, ReadsIn(T, i, T[i].n) PROVE FALSE
    BY DEF MarksAt
  <2>1. i \in Nat
    BY <1>1, <1>5
  <2>2. T[i].kind = "mark"
    BY <2>1, ReadsBegin
  <2> QED
    BY <1>4, <1>5, <2>2
<1>9. UNION {Cited(g, o[j]) : j \in {m \in 1..0 : end(m) = p}} = {}
  OBVIOUS
<1> QED
  BY <1>1, <1>4, <1>6, <1>7, <1>8, <1>9 DEF Placed, T, o, n

\* A support behind p leaves the first p + 1 characters as they are.
LEMMA PlacedBehind ==
  ASSUME NEW g, Grounded(g), NEW p \in 0..g.length, g.offset[p] = p,
         NEW k \in 1..Cardinality(Anchored(g)), Placed(g, p, k - 1),
         g.supports[InsertionOrder(g)[k]].end > p
  PROVE  Placed(g, p, k)
<1>0. Cardinality(Anchored(g)) \in Nat /\ k \in 1..Cardinality(Anchored(g))
  BY OrderFacts
<1> DEFINE o == InsertionOrder(g)
           n == Cardinality(Anchored(g))
           T == TextAfter(g, k - 1)
           e == g.supports[o[k]].end
           M == MarkersOf(g.supports[o[k]])
           at == IF e <= Len(T) THEN e ELSE Len(T)
           S == Spliced(T, at, M)
           end(j) == g.supports[o[j]].end
<1>1. n \in Nat /\ k \in 1..n
  BY <1>0, Zenon
<1>2. \A j \in 1..n : o[j] \in Anchored(g) /\ end(j) \in Nat /\ end(j) \in Ends(g)
  BY OrderFacts, AnchoredFacts
<1>3. \A i, j \in 1..n : i < j => end(j) <= end(i)
  BY OrderFacts
<1>4. M \in Seq(Symbols)
  BY <1>1, <1>2, MarkersCite
<1>5. g.length \in Nat /\ p \in Nat /\ p < g.length /\ e \in Nat /\ e > p
  BY <1>1, <1>2, OneByteEnds DEF Grounded
<1>6. /\ T \in Seq(Symbols) /\ g.length <= Len(T)
      /\ (\A j \in 1..(k - 1) : end(j) > p) =>
           \A m \in 1..g.length : m <= p + 1 => T[m].kind = "text"
  BY DEF Placed
<1>7. TextAfter(g, k) = Spliced(T, e, M)
  BY SupportBySupport DEF WithSupport
<1> HIDE DEF o, n, T, M
<1>8. Len(T) \in Nat /\ at \in 0..Len(T) /\ at >= p + 1
  BY <1>5, <1>6 DEF e
<1>9. Spliced(T, e, M) = S
  <2>1. (IF at <= Len(T) THEN at ELSE Len(T)) = at
    BY <1>8
  <2> HIDE DEF e
  <2> QED
    BY <2>1 DEF Spliced
<1> HIDE DEF at
<1>10. /\ S \in Seq(Symbols) /\ Len(S) = Len(T) + Len(M)
       /\ \A i \in 1..at : S[i] = T[i]
  BY <1>4, <1>6, <1>8, SplicedSymbols
<1> HIDE DEF S
<1>11. Len(M) \in Nat
  BY <1>4
<1>12. g.length <= Len(S)
  BY <1>5, <1>6, <1>8, <1>10, <1>11
<1>13. \A j \in 1..k : end(j) > p
  <2> TAKE j \in 1..k
  <2>1. j = k \/ j < k
    BY <1>1
  <2>2. j \in 1..n /\ k \in 1..n
    BY <1>1
  <2>3. j < k => end(k) <= end(j)
    BY <1>3, <2>2
  <2>4. end(j) \in Nat /\ end(k) \in Nat /\ end(k) > p
    BY <1>2, <1>5, <2>2
  <2> QED
    BY <1>5, <2>1, <2>3, <2>4
<1>14. \A m \in 1..g.length : m <= p + 1 => T[m].kind = "text"
  <2>1. \A j \in 1..(k - 1) : j \in 1..k
    BY <1>1
  <2> QED
    BY <1>6, <1>13, <2>1
<1>15. \A m \in 1..(p + 1) : S[m].kind = "text"
  <2> TAKE m \in 1..(p + 1)
  <2>1. m \in 1..g.length /\ m <= p + 1 /\ m \in 1..at
    BY <1>5, <1>8
  <2> QED
    BY <1>10, <1>14, <2>1
<1>16. p + 1 <= Len(S)
  BY <1>5, <1>8, <1>10, <1>11, <1>12
<1>17. MarksAt(S, p) = {}
  BY <1>5, <1>10, <1>15, <1>16, NoMarks
<1>18. {m \in 1..k : end(m) = p} = {}
  <2>1. \A m \in 1..k : end(m) # p
    BY <1>1, <1>2, <1>5, <1>13
  <2> QED
    BY <2>1
<1>19. \A j \in (k + 1)..n : end(j) <= p => \A m \in 1..end(j) : S[m].kind = "text"
  <2> SUFFICES ASSUME NEW j \in (k + 1)..n, end(j) <= p, NEW m \in 1..end(j)
               PROVE  S[m].kind = "text"
    OBVIOUS
  <2>1. j \in 1..n
    BY <1>1
  <2>2. end(j) \in Nat
    BY <1>2, <2>1
  <2>3. m \in 1..(p + 1)
    BY <1>5, <2>2
  <2> QED
    BY <1>15, <2>3
<1>20. \A m \in 1..g.length : m <= p + 1 => S[m].kind = "text"
  <2>1. \A m \in 1..g.length : m <= p + 1 => m \in 1..(p + 1)
    BY <1>5
  <2> QED
    BY <1>15, <2>1
<1>21. UNION {Cited(g, o[j]) : j \in {m \in 1..k : end(m) = p}} = {}
  BY <1>18
<1> HIDE DEF e
<1>22. S = TextAfter(g, k)
  BY <1>7, <1>9
<1>23. /\ S \in Seq(Symbols) /\ g.length <= Len(S)
       /\ MarksAt(S, p) = UNION {Cited(g, o[j]) : j \in {m \in 1..k : end(m) = p}}
  BY <1>10, <1>12, <1>17, <1>21
<1> QED
  BY <1>19, <1>20, <1>22, <1>23 DEF Placed, o, n

\* The others come behind text only, and their markers with them.
LEMMA PlacedBefore ==
  ASSUME NEW g, Grounded(g), NEW p \in 0..g.length, g.offset[p] = p,
         NEW k \in 1..Cardinality(Anchored(g)), Placed(g, p, k - 1),
         g.supports[InsertionOrder(g)[k]].end <= p
  PROVE  Placed(g, p, k)
<1>0. Cardinality(Anchored(g)) \in Nat /\ k \in 1..Cardinality(Anchored(g))
  BY OrderFacts
<1> DEFINE o == InsertionOrder(g)
           n == Cardinality(Anchored(g))
           T == TextAfter(g, k - 1)
           e == g.supports[o[k]].end
           M == MarkersOf(g.supports[o[k]])
           S == Spliced(T, e, M)
           end(j) == g.supports[o[j]].end
           Marks(m) == UNION {Cited(g, o[j]) : j \in {l \in 1..m : end(l) = p}}
<1>1. n \in Nat /\ k \in 1..n
  BY <1>0, Zenon
<1>2. \A j \in 1..n : o[j] \in Anchored(g) /\ end(j) \in Nat /\ end(j) \in Ends(g)
  BY OrderFacts, AnchoredFacts
<1>3. \A i, j \in 1..n : i < j => end(j) <= end(i)
  BY OrderFacts
<1>4. TextAfter(g, k) = S
  BY SupportBySupport DEF WithSupport
<1>5. /\ T \in Seq(Symbols) /\ g.length <= Len(T)
      /\ \A j \in k..n : end(j) <= p => \A m \in 1..end(j) : T[m].kind = "text"
      /\ MarksAt(T, p) = Marks(k - 1)
  <2>1. (k - 1) + 1 = k
    BY <1>1
  <2> QED
    BY <2>1 DEF Placed
<1>6. M \in Seq(Symbols) /\ Whole(M) /\ Starts(M) = Cited(g, o[k])
  BY <1>1, <1>2, MarkersCite
<1>7. e \in Nat /\ e <= p /\ e <= g.length /\ g.length \in Nat /\ p \in Nat
  BY <1>1, <1>2, OneByteEnds DEF Grounded
<1>8. e \in 0..Len(T) /\ \A m \in 1..e : T[m].kind = "text"
  <2>1. k \in k..n /\ Len(T) \in Nat
    BY <1>1, <1>5
  <2>2. \A m \in 1..e : T[m].kind = "text"
    BY <1>5, <1>7, <2>1
  <2> QED
    BY <1>5, <1>7, <2>1, <2>2
<1> HIDE DEF o, n, T, M
<1>9. /\ S \in Seq(Symbols) /\ Len(S) = Len(T) + Len(M)
      /\ \A i \in 1..e : S[i] = T[i]
  BY <1>5, <1>6, <1>8, SplicedSymbols
<1>10. MarksAt(S, p) = MarksAt(T, p) \cup {x \in Starts(M) : p = e}
  <2>1. /\ T \in Seq(Symbols) /\ M \in Seq(Symbols) /\ e \in 0..Len(T)
        /\ \A m \in 1..e : T[m].kind = "text"
        /\ Whole(M)
    BY <1>5, <1>6, <1>8
  <2> HIDE DEF e
  <2> QED
    BY <2>1, SplicedMarks
<1> HIDE DEF S
<1>11. g.length <= Len(S)
  <2>1. Len(T) \in Nat /\ Len(M) \in Nat
    BY <1>5, <1>6
  <2> QED
    BY <1>5, <1>7, <1>9, <2>1
<1>12. \A j \in (k + 1)..n : end(j) <= p => \A m \in 1..end(j) : S[m].kind = "text"
  <2> SUFFICES ASSUME NEW j \in (k + 1)..n, NEW m \in 1..end(j) PROVE S[m].kind = "text"
    OBVIOUS
  <2>1. j \in 1..n /\ k < j
    BY <1>1
  <2>2. end(j) <= e /\ end(j) \in Nat /\ e \in Nat
    BY <1>1, <1>2, <1>3, <2>1
  <2>3. m \in 1..e
    BY <2>2
  <2> QED
    BY <1>8, <1>9, <2>3
<1>13. MarksAt(S, p) = Marks(k)
  <2>1. MarksAt(S, p) = Marks(k - 1) \cup {x \in Cited(g, o[k]) : p = e}
    BY <1>5, <1>6, <1>10
  <2>2. \A l : l \in 1..k <=> l \in 1..(k - 1) \/ l = k
    BY <1>1
  <2>3. Marks(k) = Marks(k - 1) \cup {x \in Cited(g, o[k]) : p = e}
    BY <2>2
  <2> QED
    BY <2>1, <2>3
<1>14. ~ \A j \in 1..k : end(j) > p
  <2>1. k \in 1..k /\ end(k) <= p
    BY <1>1, <1>7
  <2>2. end(k) \in Nat
    BY <1>7
  <2> QED
    BY <1>7, <2>1, <2>2
<1> HIDE DEF e
<1> QED
  BY <1>4, <1>9, <1>11, <1>12, <1>13, <1>14 DEF Placed, o, n

\* Every marker stands behind the text its support cites, and none is missing.
LEMMA MarkersInPlace ==
  ASSUME NEW g, Grounded(g), NEW p \in 0..g.length, g.offset[p] = p
  PROVE  MarksAt(Annotated(g), p) =
           UNION {Cited(g, i) : i \in {j \in Anchored(g) : g.supports[j].end = p}}
<1> DEFINE o == InsertionOrder(g)
           n == Cardinality(Anchored(g))
           Bad == {k \in Nat : k <= n /\ ~Placed(g, p, k)}
<1>1. n \in Nat /\ (\A j \in 1..n : o[j] \in Anchored(g)) /\ \A i \in Anchored(g) : \E j \in 1..n : o[j] = i
  BY OrderFacts
<1>2. Placed(g, p, 0)
  BY PlacedAtFirst
<1>3. \A k \in 1..n : Placed(g, p, k - 1) => Placed(g, p, k)
  <2> SUFFICES ASSUME NEW k \in 1..n, Placed(g, p, k - 1) PROVE Placed(g, p, k)
    OBVIOUS
  <2>1. o[k] \in Anchored(g)
    BY <1>1
  <2>2. g.supports[o[k]].end \in Nat /\ p \in Nat
    BY <2>1, AnchoredFacts DEF Grounded
  <2>3. g.supports[o[k]].end <= p \/ g.supports[o[k]].end > p
    BY <2>2
  <2> QED
    BY <2>3, PlacedBehind, PlacedBefore
<1>4. Annotated(g) = TextAfter(g, n)
  BY SupportBySupport
<1> HIDE DEF n
<1>5. Bad = {}
  <2> SUFFICES ASSUME Bad # {} PROVE FALSE
    OBVIOUS
  <2>1. PICK k \in Bad : \A m \in Bad : k <= m
    BY LeastNumber
  <2>2. k # 0 /\ k \in 1..n
    BY <1>1, <1>2, <2>1
  <2>3. k - 1 \in Nat /\ k - 1 \notin Bad
    BY <2>1, <2>2
  <2> QED
    BY <1>1, <1>3, <2>1, <2>2, <2>3
<1>6. Placed(g, p, n)
  BY <1>1, <1>5
<1>7. MarksAt(TextAfter(g, n), p) =
        UNION {Cited(g, o[j]) : j \in {m \in 1..n : g.supports[o[m]].end = p}}
  BY <1>6 DEF Placed
<1> HIDE DEF o
<1>8. UNION {Cited(g, o[j]) : j \in {m \in 1..n : g.supports[o[m]].end = p}} =
        UNION {Cited(g, i) : i \in {j \in Anchored(g) : g.supports[j].end = p}}
  BY <1>1
<1> QED
  BY <1>4, <1>7, <1>8

\* The notes and the sources of a search are in order when it ends.
LEMMA CitationsOfSearch ==
  ASSUME NEW g \in Groundings, NEW reached, Search(g, reached)
  PROVE  CitationsInPlace'
<1>1. Grounded(g)
  BY GroundingsAssumption DEF Grounded, Supports, Ends
<1>2. notes' = Annotated(g) /\ grounding' = g /\ sources' = ResolvedSources(g, reached)
  BY DEF Search
<1>3. \A p : MarksAfter(p)' = MarksAt(Annotated(g), p)
  BY <1>2 DEF MarksAfter, Reads, MarksAt, ReadsIn, TextBefore
<1>4. \A p : CitedAt(p)' =
        UNION {Cited(g, i) : i \in {j \in Anchored(g) : g.supports[j].end = p}}
  BY <1>2 DEF CitedAt, Cited
<1>5. \A p \in 0..g.length : g.offset[p] = p => MarksAfter(p)' = CitedAt(p)'
  BY <1>1, <1>3, <1>4, MarkersInPlace
<1>6. \A s \in ResolvedSources(g, reached) : s.page = g.chunks[s.index].page
  BY DEF ResolvedSources
<1> QED
  BY <1>2, <1>5, <1>6 DEF CitationsInPlace

-----------------------------------------------------------------------------
(* The search before it                                                    *)

\* How one more item changes what is kept of the items before it.
OneKept(items, g, i) ==
    IF i = 0 THEN <<>>
    ELSE IF items[i] \in Malformed THEN g[i - 1]
    ELSE Append(g[i - 1], items[i])

KeptOf(items) == CHOOSE g : g = [i \in 0..Len(items) |-> OneKept(items, g, i)]

LEMMA WellFormedIsKept ==
  ASSUME NEW items
  PROVE  WellFormed(items) = KeptOf(items)[Len(items)]
BY DEF WellFormed, KeptOf, OneKept

LEMMA KeptExist ==
  ASSUME NEW items, NEW n \in Nat
  PROVE  \E g : g = [i \in 0..n |-> OneKept(items, g, i)]
<1> DEFINE Good(g, m) == g = [i \in 0..m |-> OneKept(items, g, i)]
           Bad == {m \in Nat : ~ \E g : Good(g, m)}
<1>1. Bad = {}
  <2> SUFFICES ASSUME Bad # {} PROVE FALSE
    OBVIOUS
  <2>1. PICK m \in Bad : \A k \in Bad : m <= k
    BY LeastNumber
  <2>2. m # 0
    <3> DEFINE g == [i \in 0..0 |-> <<>>]
    <3>1. \A i \in 0..0 : OneKept(items, g, i) = <<>>
      BY DEF OneKept
    <3>2. [i \in 0..0 |-> OneKept(items, g, i)] = [i \in 0..0 |-> <<>>]
      BY <3>1
    <3>3. Good(g, 0)
      BY <3>2
    <3> QED
      BY <3>3
  <2>3. m - 1 \in Nat /\ m - 1 \notin Bad
    BY <2>1, <2>2
  <2>4. PICK g : Good(g, m - 1)
    BY <2>3
  <2> DEFINE h == [i \in 0..m |-> IF i < m THEN g[i] ELSE OneKept(items, g, i)]
  <2>5. \A i \in 0..m : h[i] = OneKept(items, h, i)
    <3> TAKE i \in 0..m
    <3>1. i # 0 => h[i - 1] = g[i - 1]
      BY <2>3
    <3>2. i < m => g[i] = OneKept(items, g, i)
      BY <2>3, <2>4
    <3>3. h[i] = OneKept(items, g, i)
      BY <3>2
    <3> HIDE DEF h
    <3> QED
      BY <3>1, <3>3 DEF OneKept
  <2>6. h = [i \in 0..m |-> h[i]]
    OBVIOUS
  <2> HIDE DEF h
  <2>7. Good(h, m)
    BY <2>5, <2>6
  <2> QED
    BY <2>1, <2>7
<1> QED
  BY <1>1

\* What is kept of the items of an extraction are findings.
LEMMA WellFormedType ==
  ASSUME NEW n \in Nat, NEW items \in [1..n -> Claims \cup Malformed]
  PROVE  WellFormed(items) \in Seq(Claims)
<1> DEFINE kept == KeptOf(items)
           Bad == {m \in 0..n : kept[m] \notin Seq(Claims)}
<1>1. Len(items) = n
  OBVIOUS
<1>2. kept = [i \in 0..n |-> OneKept(items, kept, i)]
  <2>1. \E g : g = [i \in 0..Len(items) |-> OneKept(items, g, i)]
    BY <1>1, KeptExist
  <2>2. kept = [i \in 0..Len(items) |-> OneKept(items, kept, i)]
    BY <2>1 DEF KeptOf
  <2> HIDE DEF kept
  <2> QED
    BY <1>1, <2>2
<1>3. WellFormed(items) = kept[n]
  BY <1>1, WellFormedIsKept
<1> HIDE DEF kept
<1>4. \A i \in 0..n : kept[i] = OneKept(items, kept, i)
  BY <1>2
<1>5. Bad = {}
  <2> SUFFICES ASSUME Bad # {} PROVE FALSE
    OBVIOUS
  <2>1. Bad \in SUBSET Nat
    OBVIOUS
  <2>2. PICK m \in Bad : \A k \in Bad : m <= k
    BY <2>1, LeastNumber
  <2>3. m \in 0..n /\ kept[m] \notin Seq(Claims) /\ kept[m] = OneKept(items, kept, m)
    BY <1>4
  <2>4. m # 0
    BY <2>3 DEF OneKept
  <2>5. kept[m - 1] \in Seq(Claims)
    <3>1. m - 1 \in 0..n /\ ~(m <= m - 1)
      BY <2>3, <2>4
    <3> QED
      BY <2>2, <3>1
  <2>6. items[m] \notin Malformed => items[m] \in Claims
    BY <2>3, <2>4
  <2> QED
    BY <2>3, <2>4, <2>5, <2>6 DEF OneKept
<1> QED
  BY <1>3, <1>5

\* Before the findings are there the run has done nothing, and the notes of a search
\* cite in place.
SearchInv ==
    /\ ResolutionInv
    /\ phase # "found" => pc = "resolving"
    /\ CitationsInPlace

LEMMA SearchInitHolds == SearchInit => SearchInv
<1> SUFFICES ASSUME SearchInit PROVE SearchInv
  OBVIOUS
<1>1. NoFindings \in FindingsType
  BY DEF NoFindings, FindingsType
<1>2. ResolutionInv
  BY <1>1, BegunHolds DEF SearchInit
<1> QED
  BY <1>2 DEF SearchInit, SearchInv, Begun, CitationsInPlace

LEMMA StillHolds == ResolutionInv /\ UNCHANGED vars => ResolutionInv'
  BY NextHolds

LEMMA CitationsKept ==
  CitationsInPlace /\ UNCHANGED <<phase, notes, sources, grounding>> => CitationsInPlace'
<1> SUFFICES ASSUME CitationsInPlace, UNCHANGED <<phase, notes, sources, grounding>>,
                    phase = "noted"
             PROVE  CitationsInPlace'
  BY DEF CitationsInPlace
<1>1. grounding' = grounding /\ sources' = sources
  OBVIOUS
<1>2. /\ \A p \in 0..grounding.length : grounding.offset[p] = p => MarksAfter(p) = CitedAt(p)
      /\ \A s \in sources : s.page = grounding.chunks[s.index].page
  BY DEF CitationsInPlace
<1>3. \A p : MarksAfter(p)' = MarksAfter(p)
  BY DEF MarksAfter, Reads
<1>4. \A p : CitedAt(p)' = CitedAt(p)
  BY DEF CitedAt
<1>5. ASSUME /\ \A p \in 0..grounding'.length :
                   grounding'.offset[p] = p => MarksAfter(p)' = CitedAt(p)'
             /\ \A s \in sources' : s.page = grounding'.chunks[s.index].page
      PROVE  CitationsInPlace'
  BY <1>5 DEF CitationsInPlace
<1> QED
  BY <1>1, <1>2, <1>3, <1>4, <1>5

LEMMA SearchNextHolds == SearchInv /\ [SearchNext]_<<vars, searchVars>> => SearchInv'
<1> SUFFICES ASSUME SearchInv, [SearchNext]_<<vars, searchVars>> PROVE SearchInv'
  OBVIOUS
<1>1. ASSUME UNCHANGED vars PROVE ResolutionInv' /\ pc' = pc
  BY <1>1, StillHolds DEF SearchInv, vars
<1>2. CASE ExecutionError
  BY <1>1, <1>2 DEF ExecutionError, SearchInv, CitationsInPlace
<1>3. ASSUME NEW g \in Groundings, NEW reached \in SUBSET DOMAIN g.chunks, Search(g, reached)
      PROVE  SearchInv'
  BY <1>1, <1>3, CitationsOfSearch DEF Search, SearchInv
<1>4. ASSUME NEW g, NEW reached, SourcesUnreached(g, reached) PROVE SearchInv'
  BY <1>1, <1>4 DEF SourcesUnreached, SearchInv, CitationsInPlace
<1>5. CASE AskForFindings
  BY <1>1, <1>5 DEF AskForFindings, SearchInv, CitationsInPlace
<1>6. CASE Extract
  <2>1. PICK n \in 0..MaxFindings, na \in {{}} \cup {{f} : f \in Facts}, release \in BOOLEAN :
           \E items \in [1..n -> Claims \cup Malformed] :
              findings' = [seq |-> WellFormed(items), notApplicable |-> na,
                           release |-> release]
    BY <1>6 DEF Extract
  <2>2. PICK items \in [1..n -> Claims \cup Malformed] :
           findings' = [seq |-> WellFormed(items), notApplicable |-> na, release |-> release]
    BY <2>1
  <2>3. n \in Nat
    BY RunAssumption
  <2>4. WellFormed(items) \in Seq(Claims)
    BY <2>3, WellFormedType
  <2>5. findings' \in FindingsType
    BY <2>2, <2>4 DEF FindingsType
  <2>6. /\ pc = "resolving" /\ UNCHANGED <<batch, stored, insight, outcome, result, pc>>
        /\ phase' = "found"
    BY <1>6 DEF Extract, SearchInv
  <2>7. TypeOK' /\ outcome' = [f \in Facts |-> "open"]
    BY <2>6 DEF SearchInv, ResolutionInv, TypeOK
  <2>8. Unsettled'
    BY <2>5, <2>6, <2>7 DEF Unsettled
  <2>9. ResolutionInv'
    BY <2>8, UnsettledHolds, PTL
  <2> QED
    BY <2>6, <2>9 DEF SearchInv, CitationsInPlace
<1>7. CASE Settle
  <2>1. ResolutionInv'
    BY <1>7, NextHolds DEF Settle, SearchInv
  <2>2. phase = "found" /\ UNCHANGED searchVars
    BY <1>7 DEF Settle
  <2>3. UNCHANGED phase
    BY <2>2 DEF searchVars
  <2> QED
    BY <2>1, <2>2, <2>3 DEF SearchInv, CitationsInPlace
<1>8. CASE UNCHANGED <<vars, searchVars>>
  <2>1. UNCHANGED <<phase, notes, sources, grounding>> /\ UNCHANGED vars
    BY <1>8 DEF searchVars
  <2>2. CitationsInPlace'
    BY <2>1, CitationsKept DEF SearchInv
  <2> QED
    BY <1>1, <2>1, <2>2 DEF SearchInv
<1> QED
  BY <1>2, <1>3, <1>4, <1>5, <1>6, <1>7, <1>8 DEF SearchNext

LEMMA SearchInvHolds == SearchSpec => []SearchInv
<1>1. SearchInit => SearchInv
  BY SearchInitHolds
<1>2. SearchInv /\ [SearchNext]_<<vars, searchVars>> => SearchInv'
  BY SearchNextHolds
<1> QED
  BY <1>1, <1>2, PTL DEF SearchSpec

-----------------------------------------------------------------------------
(* Theorems                                                                *)

\* A run keeps the shape of what it stores, for any findings.
THEOREM ResolutionTypeCorrect == SearchSpec => []TypeOK
<1>1. SearchInv => TypeOK
  BY DEF SearchInv, ResolutionInv
<1> QED
  BY <1>1, SearchInvHolds, PTL

\* A number is found only if all the claims of the best tier that makes any agree,
\* and flagged as a conflict only if they do not; lower tiers change neither
\* (runner.py:163-182).
THEOREM TheBestTierDecides == SearchSpec => []BestTierDecides
<1>1. SearchInv => BestTierDecides
  BY DEF SearchInv, ResolutionInv
<1> QED
  BY <1>1, SearchInvHolds, PTL

LEMMA OrderDoesNotMatter == ResolutionInv => OrderIrrelevant
<1> SUFFICES ASSUME ResolutionInv, Committed, NEW f \in batch \cap Numbers,
                    NEW p \in [1..Len(findings.seq) -> 1..Len(findings.seq)],
                    \A i, j \in 1..Len(findings.seq) : p[i] = p[j] => i = j
             PROVE  LET other == [findings EXCEPT !.seq =
                                    [i \in 1..Len(findings.seq) |-> findings.seq[p[i]]]] IN
                    /\ Outcome(f, other) = outcome[f]
                    /\ outcome[f] = "found" =>
                          \A t \in Written(f, other) :
                             Kept(f, other.seq, t).value = stored[f][t].value
  BY DEF OrderIrrelevant
<1> DEFINE other == [findings EXCEPT !.seq = Permuted(p, findings.seq)]
<1>1. /\ findings \in FindingsType
      /\ ~Raises(f, findings.seq)
      /\ outcome[f] = Outcome(f, findings)
      /\ outcome[f] = "found" => \A t \in Written(f, findings) :
            stored[f][t] = Kept(f, findings.seq, t)
  BY DEF ResolutionInv, Recorded
<1>2. Permutes(p, findings.seq)
  BY DEF Permutes
<1>3. /\ Outcome(f, other) = Outcome(f, findings)
      /\ Written(f, other) = Written(f, findings)
      /\ \A t \in Written(f, findings) :
            Kept(f, other.seq, t).value = Kept(f, findings.seq, t).value
  BY <1>1, <1>2, OrderDecidesNothing DEF FindingsType
<1>4. other = [findings EXCEPT !.seq =
                 [i \in 1..Len(findings.seq) |-> findings.seq[p[i]]]]
  BY DEF Permuted
<1> HIDE DEF other
<1> QED
  BY <1>1, <1>3, <1>4

\* The order in which the provider lists its findings decides neither the outcome
\* of a number nor the value any tier stores (runner.py:249-253).
THEOREM OrderNeverMatters == SearchSpec => []OrderIrrelevant
<1>1. SearchInv => OrderIrrelevant
  BY OrderDoesNotMatter DEF SearchInv
<1> QED
  BY <1>1, SearchInvHolds, PTL

\* A task for a key or a topic of the registry is memoized as missing only if no finding
\* gives a usable value of the fact from a page that can be verified (runner.py:153-156,
\* 281-284).
THEOREM MissingOnlyWhenUnsourced == SearchSpec => []MissingMeansUnsourced
<1>1. SearchInv => MissingMeansUnsourced
  BY DEF SearchInv, ResolutionInv
<1> QED
  BY <1>1, SearchInvHolds, PTL

\* An insight is one finding's summary, with its verified pages and no others
\* (runner.py:285-287, 306-316).
THEOREM InsightsAreCited == SearchSpec => []InsightsCited
<1>1. SearchInv => InsightsCited
  BY DEF SearchInv, ResolutionInv
<1> QED
  BY <1>1, SearchInvHolds, PTL

\* One step of the run: what it changes is sourced.
LEMMA StepIsSourced ==
  ASSUME ResolutionInv, [Next]_vars, NEW f \in Specs, NEW t \in Tiers,
         stored'[f][t] # stored[f][t]
  PROVE  /\ f \in batch /\ outcome'[f] = "found"
         /\ \E i \in DOMAIN findings.seq :
               LET x == findings.seq[i] IN
               /\ x.fact = f /\ HasValue(f, x)
               /\ x.urls = {stored'[f][t].url}
               /\ SiteOf[stored'[f][t].url] = t
               /\ stored'[f][t].value = IF f \in Numbers THEN Converted(x) ELSE x.value
<1>1. Resolve
  BY DEF Next, vars, Abort
<1>2. /\ stored'[f][t] = IF /\ f \in {g \in batch : Outcome(g, findings) = "found"}
                           /\ t \in Written(f, findings)
                           THEN Kept(f, findings.seq, t) ELSE stored[f][t]
      /\ \A g \in Facts : outcome'[g] = IF g \in batch THEN Outcome(g, findings)
                                                      ELSE outcome[g]
      /\ \A g \in batch : ~Raises(g, findings.seq)
  BY <1>1 DEF Resolve
<1>3. /\ f \in batch /\ Outcome(f, findings) = "found" /\ t \in Written(f, findings)
      /\ stored'[f][t] = Kept(f, findings.seq, t)
  BY <1>2
<1>4. outcome'[f] = "found"
  BY <1>2, <1>3 DEF Specs
<1>5. findings.seq \in Seq(Claims)
  BY DEF ResolutionInv
<1>6. SourcedIn(f, findings.seq, t, stored'[f][t])
  <2>1. ~Raises(f, findings.seq) /\ Group(f, findings.seq, t) # {}
    BY <1>2, <1>3 DEF Written
  <2>2. SourcedIn(f, findings.seq, t, Kept(f, findings.seq, t))
    BY <1>5, <2>1, KeptIsSourced
  <2> QED
    BY <1>3, <2>2
<1>7. \A x : Canonical(f, x) = IF f \in Numbers THEN Converted(x) ELSE x.value
  BY DEF Canonical
<1>8. DOMAIN findings.seq = 1..Len(findings.seq)
  BY <1>5
<1> QED
  BY <1>3, <1>4, <1>6, <1>7, <1>8 DEF SourcedIn

\* The run changes a stored value only for a task of its batch that is found, to
\* what a page of that tier says of that fact (runner.py:195-198, 249-267).
THEOREM StoredValuesAreSourced == SearchSpec => ChangesAreSourced
<1> DEFINE Sourced == \A f \in Specs, t \in Tiers : stored'[f][t] # stored[f][t] =>
        /\ f \in batch /\ outcome'[f] = "found"
        /\ \E i \in DOMAIN findings.seq :
              LET x == findings.seq[i] IN
              /\ x.fact = f /\ HasValue(f, x)
              /\ x.urls = {stored'[f][t].url}
              /\ SiteOf[stored'[f][t].url] = t
              /\ stored'[f][t].value = IF f \in Numbers THEN Converted(x) ELSE x.value
<1>1. SearchInv /\ [SearchNext]_<<vars, searchVars>> => [Sourced]_vars
  <2> SUFFICES ASSUME SearchInv, [SearchNext]_<<vars, searchVars>>,
                      stored' # stored
               PROVE Sourced
    <3>1. stored' = stored => Sourced
      OBVIOUS
    <3> QED
      BY <3>1
  <2>1. ResolutionInv /\ Next
    BY DEF SearchInv, SearchNext, ExecutionError, Search, SourcesUnreached, AskForFindings,
           Extract, Settle, vars
  <2> SUFFICES ASSUME NEW f \in Specs, NEW t \in Tiers, stored'[f][t] # stored[f][t]
               PROVE  /\ f \in batch /\ outcome'[f] = "found"
                      /\ \E i \in DOMAIN findings.seq :
                            LET x == findings.seq[i] IN
                            /\ x.fact = f /\ HasValue(f, x)
                            /\ x.urls = {stored'[f][t].url}
                            /\ SiteOf[stored'[f][t].url] = t
                            /\ stored'[f][t].value =
                                  IF f \in Numbers THEN Converted(x) ELSE x.value
    OBVIOUS
  <2> QED
    BY <2>1, StepIsSourced
<1> QED
  BY <1>1, SearchInvHolds, PTL DEF SearchSpec, ChangesAreSourced

\* As far as the text has only characters of one byte, every marker of the notes stands
\* whole behind the text its support cites and none is missing, and the source under
\* any number is the page of that chunk, for any grounding: whatever stands behind that
\* part of the text, with ends given in bytes, in any order of the supports, with any
\* of them at the same place, and with any of the sources left out (provider.py:112-123,
\* 189-199, 251-265).
THEOREM CitationsStayInPlace == SearchSpec => []CitationsInPlace
<1>1. SearchInv => CitationsInPlace
  BY DEF SearchInv
<1> QED
  BY <1>1, SearchInvHolds, PTL

-----------------------------------------------------------------------------
(* The contract                                                            *)

\* A value that a run writes is a value.
LEMMA FoundBecomesKnown ==
  ASSUME ResolutionInv, Resolve, NEW f \in batch, Outcome(f, findings) = "found"
  PROVE  f \in Known'
<1>1. /\ findings.seq \in Seq(Claims) /\ f \in Facts /\ ~Raises(f, findings.seq)
  BY DEF ResolutionInv, TypeOK, Resolve
<1>2. CASE f \in Topics
  <2>1. insight'[f] = InsightKept(f, findings.seq)
    BY <1>2 DEF Resolve
  <2>2. Summaries(f, findings.seq) # {}
    BY <1>2, FoundInsight
  <2>3. insight'[f].source \in {"tested", "community"}
    BY <1>1, <1>2, <2>1, <2>2, InsightIsCited
  <2>4. insight'[f] # NoInsight
    BY <2>3 DEF NoInsight
  <2> QED
    BY <1>2, <2>4 DEF Known
<1>3. CASE f \notin Topics
  <2> DEFINE t == BestTier(f, findings.seq)
  <2>1. f \in Specs /\ Candidates(f, findings.seq) # {}
    BY <1>1, <1>3, FoundSpec DEF Specs
  <2>2. t \in Tiers /\ Group(f, findings.seq, t) # {}
    BY <1>1, <2>1, BestTierExists
  <2>3. ~Conflicts(f, findings.seq, Group(f, findings.seq, t))
    BY <1>3, MissingType DEF Outcome, SpecOutcome, Memoized
  <2> HIDE DEF t
  <2>4. t \in Written(f, findings)
    BY <2>2, <2>3 DEF Written
  <2>5. stored'[f][t] = Kept(f, findings.seq, t)
    BY <2>1, <2>2, <2>4 DEF Resolve
  <2>6. Kept(f, findings.seq, t).url \in Urls
    BY <1>1, <2>1, <2>2, KeptIsSourced
  <2>7. stored'[f][t] # NoValue
    BY <2>5, <2>6, SitesAssumption DEF NoValue
  <2> QED
    BY <2>1, <2>2, <2>7 DEF Known
<1> QED
  BY <1>2, <1>3

\* What is not found keeps what it had.
LEMMA OthersStayKnown ==
  ASSUME Resolve, NEW f \in Facts, f \notin batch \/ Outcome(f, findings) # "found"
  PROVE  f \in Known' <=> f \in Known
<1>1. \A t \in Tiers : f \in Specs => stored'[f][t] = stored[f][t]
  BY DEF Resolve
<1>2. f \in Topics => insight'[f] = insight[f]
  BY DEF Resolve
<1> QED
  BY <1>1, <1>2 DEF Known

LEMMA ResolveSettles ==
  ASSUME ResolutionInv, Resolve
  PROVE  Contract!Settle(batch)
<1> DEFINE given == [f \in batch |-> Answer(f)']
<1>1. /\ batch \subseteq Facts /\ batch' = batch
      /\ outcome = [f \in Facts |-> "open"]
      /\ \A f \in Facts : outcome'[f] = IF f \in batch THEN Outcome(f, findings) ELSE "open"
  BY DEF ResolutionInv, TypeOK, Resolve
<1>2. \A f \in Facts : Answer(f) = IF f \in batch THEN "researching" ELSE "unasked"
  BY <1>1 DEF Answer
<1>3. \A f \in batch : Outcome(f, findings) \in Memoized \cup {"found", "unresolved_conflict"}
  BY <1>1, OutcomeType
<1>4. \A f \in batch : /\ Answer(f)' \in {"found", "never", "memoized"}
                       /\ Answer(f)' = "found" <=> Outcome(f, findings) = "found"
  BY <1>1, <1>3 DEF Answer, Memoized
<1>5. \A f \in Facts \ batch : Answer(f)' = Answer(f)
  BY <1>1, <1>2 DEF Answer
<1>6. given \in [batch -> Contract!Failures \cup {"found"}]
  BY <1>4 DEF Contract!Failures
<1>7. \A f \in batch : given[f] = Answer(f)'
  OBVIOUS
<1> HIDE DEF given
<1>8. [f \in Facts |-> Answer(f)]' = [f \in Facts |->
         IF f \in batch THEN given[f] ELSE [g \in Facts |-> Answer(g)][f]]
  BY <1>5, <1>7
<1>9. Known' = Known \cup {f \in batch : given[f] = "found"}
  <2>1. Known \subseteq Facts /\ Known' \subseteq Facts
    BY DEF Known, Facts, Specs
  <2>2. \A f \in batch : given[f] = "found" => f \in Known'
    BY <1>4, <1>7, FoundBecomesKnown
  <2>3. \A f \in Facts : ~(f \in batch /\ given[f] = "found") => (f \in Known' <=> f \in Known)
    BY <1>4, <1>7, OthersStayKnown
  <2> QED
    BY <1>1, <2>1, <2>2, <2>3
<1>10. \A f \in batch : [g \in Facts |-> Answer(g)][f] = "researching"
  BY <1>1, <1>2
<1> QED
  BY <1>6, <1>8, <1>9, <1>10 DEF Contract!Settle

\* A run is one step of the contract between research and the rest of the program, or
\* none: it answers its batch at once, and what it calls found has its value in the same
\* step (runner.py:97-104, 141-187).
THEOREM RunsSettleTheContract == SearchSpec => SettlesAsContract
<1>1. SearchInv /\ [SearchNext]_<<vars, searchVars>> =>
         [Contract!Settle(batch)]_(Contract!vars)
  <2> SUFFICES ASSUME SearchInv, [SearchNext]_<<vars, searchVars>>
               PROVE  Contract!Settle(batch) \/ UNCHANGED Contract!vars
    OBVIOUS
  <2>1. CASE Resolve
    BY <2>1, ResolveSettles DEF SearchInv
  <2>2. CASE ~Resolve
    <3>1. UNCHANGED <<batch, stored, insight, outcome>>
      BY <2>2 DEF SearchNext, ExecutionError, Search, SourcesUnreached, AskForFindings,
                  Extract, Settle, Next, Abort, vars
    <3>2. (\A f : Answer(f)' = Answer(f)) /\ Known' = Known
      BY <3>1 DEF Answer, Known
    <3> QED
      BY <3>2 DEF Contract!vars
  <2> QED
    BY <2>1, <2>2
<1> QED
  BY <1>1, SearchInvHolds, PTL DEF SearchSpec, SettlesAsContract

=============================================================================
