---------------------------- MODULE ReportsProofs ----------------------------
(***************************************************************************)
(* Proofs about Reports, for any number of entries, projects and purchases *)
(* and any days of the years that there is a calendar for: the calendar is *)
(* one, a summary compares like with like, and what bars, slices, panels   *)
(* and lists tell is the same.                                             *)
(***************************************************************************)
EXTENDS Reports, FiniteSetTheorems, TLAPS

-----------------------------------------------------------------------------
(* Sums over finite sets.                                                  *)

(* A set of subsets of S that has every subset whose own subsets it has.   *)
LEMMA SubsetInduction ==
  ASSUME NEW S, IsFiniteSet(S), NEW T,
         \A s \in SUBSET S : (\A u \in SUBSET s : u # s => u \in T) => s \in T
  PROVE  \A s \in SUBSET S : s \in T
<1>. DEFINE Rest == (SUBSET S) \ T
<1>. SUFFICES ASSUME NEW r \in SUBSET S, r \notin T PROVE FALSE
  OBVIOUS
<1>0. Rest # {}
  OBVIOUS
<1>1. IsWellFoundedOn(StrictSubsetOrdering(S), SUBSET S)
  <2>1. FiniteSubsetsOf(S) = SUBSET S  BY FS_FiniteSubsetsOfFinite
  <2>2. IsWellFoundedOn(StrictSubsetOrdering(S), FiniteSubsetsOf(S))
    BY FS_StrictSubsetOrderingWellFounded
  <2>. QED  BY <2>1, <2>2
<1>2. Rest \subseteq SUBSET S
  OBVIOUS
<1>. HIDE DEF Rest
<1>3. PICK s \in Rest : \A u \in Rest : <<u, s>> \notin StrictSubsetOrdering(S)
  BY <1>0, <1>1, <1>2, WFMin
<1>4. s \in SUBSET S /\ s \notin T
  BY <1>3 DEF Rest
<1>5. \A u \in SUBSET s : u # s => u \in T
  <2>1. SUFFICES ASSUME NEW u \in SUBSET s, u # s, u \notin T PROVE FALSE
    OBVIOUS
  <2>2. u \in Rest  BY <1>4, <2>1 DEF Rest
  <2>3. <<u, s>> \in StrictSubsetOrdering(S)
    BY <1>4, <2>1 DEF StrictSubsetOrdering
  <2>. QED  BY <1>3, <2>2, <2>3
<1>. QED  BY <1>4, <1>5

(* The element that a fold takes next, and the function that it computes.  *)
Chosen(s) == CHOOSE x \in s : TRUE
Fold(f, S, h) ==
  h = [s \in SUBSET S |-> IF s = {} THEN 0 ELSE f[Chosen(s)] + h[s \ {Chosen(s)}]]
Sum(f, S) == (CHOOSE h : Fold(f, S, h))[S]

LEMMA TotalIsSum ==
  ASSUME NEW f
  PROVE  Total(f) = Sum(f, {x \in DOMAIN f : f[x] # 0})
BY DEF Total, MapThenSumSet, MapThenFoldSet, Sum, Fold, Chosen

LEMMA ChosenIn == ASSUME NEW s, s # {} PROVE Chosen(s) \in s
BY DEF Chosen

LEMMA FoldAt ==
  ASSUME NEW f, NEW S, NEW h, Fold(f, S, h), NEW s \in SUBSET S
  PROVE  h[s] = IF s = {} THEN 0 ELSE f[Chosen(s)] + h[s \ {Chosen(s)}]
BY DEF Fold

(* Whatever set it started from, a fold has one value for every subset.    *)
LEMMA FoldsAgree ==
  ASSUME NEW f, NEW S, IsFiniteSet(S), NEW h, Fold(f, S, h),
         NEW R \in SUBSET S, NEW k, Fold(f, R, k)
  PROVE  \A s \in SUBSET R : h[s] = k[s]
<1>. DEFINE T == {s \in SUBSET R : h[s] = k[s]}
<1>1. ASSUME NEW s \in SUBSET R, \A u \in SUBSET s : u # s => u \in T
      PROVE  s \in T
  <2>0. s \in SUBSET S  OBVIOUS
  <2>1. h[s] = IF s = {} THEN 0 ELSE f[Chosen(s)] + h[s \ {Chosen(s)}]
    BY <2>0, FoldAt
  <2>2. k[s] = IF s = {} THEN 0 ELSE f[Chosen(s)] + k[s \ {Chosen(s)}]
    BY FoldAt
  <2>3. CASE s = {}  BY <2>1, <2>2, <2>3
  <2>4. CASE s # {}
    <3>1. s \ {Chosen(s)} \in T  BY <1>1, <2>4, ChosenIn
    <3>. QED  BY <2>1, <2>2, <2>4, <3>1
  <2>. QED  BY <2>3, <2>4
<1>2. IsFiniteSet(R)  BY FS_Subset
<1>. HIDE DEF T
<1>3. \A s \in SUBSET R : s \in T  BY <1>1, <1>2, SubsetInduction
<1>. QED  BY <1>3 DEF T

(* There is such a fold.                                                   *)
LEMMA FoldExists ==
  ASSUME NEW f, NEW S, IsFiniteSet(S)
  PROVE  \E h : Fold(f, S, h)
<1>. DEFINE T == {s \in SUBSET S : \E h : Fold(f, s, h)}
<1>1. ASSUME NEW t \in SUBSET S, \A u \in SUBSET t : u # t => u \in T
      PROVE  t \in T
  <2>. DEFINE H(u) == CHOOSE h : Fold(f, u, h)
              g == [s \in SUBSET t |-> IF s = {} THEN 0
                      ELSE f[Chosen(s)] + H(s \ {Chosen(s)})[s \ {Chosen(s)}]]
  <2>1. ASSUME NEW u \in SUBSET t, u # t PROVE Fold(f, u, H(u))
    BY <1>1, <2>1
  <2>2. ASSUME NEW s \in SUBSET t, s # {}
        PROVE  g[s \ {Chosen(s)}] = H(s \ {Chosen(s)})[s \ {Chosen(s)}]
    <3>. DEFINE u == s \ {Chosen(s)}
                v == u \ {Chosen(u)}
    <3>1. u \in SUBSET t /\ u # t  BY <2>2, ChosenIn
    <3>2. Fold(f, u, H(u))  BY <2>1, <3>1
    <3>3. CASE u = {}
      <4>1. H(u)[u] = 0  BY <3>2, <3>3, FoldAt
      <4>2. g[u] = 0  BY <3>3
      <4>. QED  BY <4>1, <4>2
    <3>4. CASE u # {}
      <4>1. v \in SUBSET u /\ v # t /\ v \in SUBSET t  BY <3>1, <3>4, ChosenIn
      <4>2. Fold(f, v, H(v))  BY <2>1, <4>1
      <4>3. IsFiniteSet(u)  BY <3>1, FS_Subset
      <4>4. H(u)[v] = H(v)[v]
        <5>. HIDE DEF H, u, v
        <5>. QED  BY <3>2, <4>1, <4>2, <4>3, FoldsAgree
      <4>5. H(u)[u] = f[Chosen(u)] + H(u)[v]
        <5>. HIDE DEF H, u
        <5>. QED  BY <3>2, <3>4, FoldAt
      <4>6. g[u] = f[Chosen(u)] + H(v)[v]
        <5>. HIDE DEF H, u
        <5>. QED  BY <3>1, <3>4
      <4>. QED  BY <4>4, <4>5, <4>6
    <3>. QED  BY <3>3, <3>4
  <2>3. Fold(f, t, g)
    <3>. HIDE DEF H
    <3>1. \A s \in SUBSET t :
            (IF s = {} THEN 0 ELSE f[Chosen(s)] + H(s \ {Chosen(s)})[s \ {Chosen(s)}])
              = (IF s = {} THEN 0 ELSE f[Chosen(s)] + g[s \ {Chosen(s)}])
      BY <2>2
    <3>. QED  BY <3>1 DEF Fold
  <2>. HIDE DEF g
  <2>. QED  BY <2>3
<1>. HIDE DEF T
<1>2. \A s \in SUBSET S : s \in T  BY <1>1, SubsetInduction
<1>. QED  BY <1>2 DEF T

LEMMA SumEmpty == ASSUME NEW f PROVE Sum(f, {}) = 0
<1>1. PICK h : Fold(f, {}, h)  BY FoldExists, FS_EmptySet
<1>2. Fold(f, {}, CHOOSE k : Fold(f, {}, k))  BY <1>1
<1>. QED  BY <1>2, FoldAt DEF Sum

(* The sum as the fold takes it: the chosen element first.                 *)
LEMMA SumNext ==
  ASSUME NEW f, NEW S, IsFiniteSet(S), S # {}
  PROVE  Sum(f, S) = f[Chosen(S)] + Sum(f, S \ {Chosen(S)})
<1>. DEFINE R == S \ {Chosen(S)}
            h == CHOOSE k : Fold(f, S, k)
            g == CHOOSE k : Fold(f, R, k)
<1>1. R \in SUBSET S /\ IsFiniteSet(R)  BY FS_Subset
<1>2. Fold(f, S, h)  BY FoldExists
<1>3. Fold(f, R, g)  BY <1>1, FoldExists
<1>. HIDE DEF h, g, R
<1>4. h[R] = g[R]  BY <1>1, <1>2, <1>3, FoldsAgree
<1>5. h[S] = f[Chosen(S)] + h[R]  BY <1>2, FoldAt DEF R
<1>. QED  BY <1>4, <1>5 DEF Sum, h, g, R

LEMMA SumInt ==
  ASSUME NEW f, NEW S, IsFiniteSet(S), \A x \in S : f[x] \in Int
  PROVE  \A s \in SUBSET S : Sum(f, s) \in Int
<1>. DEFINE T == {s \in SUBSET S : Sum(f, s) \in Int}
<1>1. ASSUME NEW s \in SUBSET S, \A u \in SUBSET s : u # s => u \in T
      PROVE  s \in T
  <2>1. CASE s = {}  BY <2>1, SumEmpty
  <2>2. CASE s # {}
    <3>1. Chosen(s) \in s /\ s \ {Chosen(s)} \in T  BY <1>1, <2>2, ChosenIn
    <3>2. IsFiniteSet(s)  BY FS_Subset
    <3>3. Sum(f, s) = f[Chosen(s)] + Sum(f, s \ {Chosen(s)})
      BY <2>2, <3>2, SumNext
    <3>. QED  BY <3>1, <3>3
  <2>. QED  BY <2>1, <2>2
<1>. HIDE DEF T
<1>2. \A s \in SUBSET S : s \in T  BY <1>1, SubsetInduction
<1>. QED  BY <1>2 DEF T

(* Any element may come first.                                             *)
LEMMA SumStep ==
  ASSUME NEW f, NEW S, IsFiniteSet(S), \A x \in S : f[x] \in Int
  PROVE  \A s \in SUBSET S : \A x \in s : Sum(f, s) = f[x] + Sum(f, s \ {x})
<1>. DEFINE T == {s \in SUBSET S : \A x \in s : Sum(f, s) = f[x] + Sum(f, s \ {x})}
<1>1. ASSUME NEW s \in SUBSET S, \A u \in SUBSET s : u # s => u \in T
      PROVE  s \in T
  <2>1. SUFFICES ASSUME NEW x \in s PROVE Sum(f, s) = f[x] + Sum(f, s \ {x})
    OBVIOUS
  <2>. DEFINE c == Chosen(s)
              t == s \ {c}
              u == s \ {x}
  <2>2. c \in s /\ IsFiniteSet(s)  BY ChosenIn, FS_Subset
  <2>3. Sum(f, s) = f[c] + Sum(f, t)  BY <2>2, SumNext
  <2>4. CASE x = c  BY <2>3, <2>4
  <2>5. CASE x # c
    <3>1. t \in T /\ x \in t /\ u \in T /\ c \in u  BY <2>2, <2>5, <1>1
    <3>2. t \ {x} = u \ {c}  OBVIOUS
    <3>3. Sum(f, t) = f[x] + Sum(f, t \ {x})  BY <3>1
    <3>4. Sum(f, u) = f[c] + Sum(f, t \ {x})  BY <3>1, <3>2
    <3>5. t \ {x} \in SUBSET S  OBVIOUS
    <3>6. Sum(f, t \ {x}) \in Int /\ f[c] \in Int /\ f[x] \in Int
      BY <2>2, <3>5, SumInt
    <3>. QED  BY <2>3, <3>3, <3>4, <3>6
  <2>. QED  BY <2>4, <2>5
<1>. HIDE DEF T
<1>2. \A s \in SUBSET S : s \in T  BY <1>1, SubsetInduction
<1>. QED  BY <1>2 DEF T

LEMMA SumCongruent ==
  ASSUME NEW f, NEW g, NEW S, IsFiniteSet(S), \A x \in S : f[x] = g[x]
  PROVE  \A s \in SUBSET S : Sum(f, s) = Sum(g, s)
<1>. DEFINE T == {s \in SUBSET S : Sum(f, s) = Sum(g, s)}
<1>1. ASSUME NEW s \in SUBSET S, \A u \in SUBSET s : u # s => u \in T
      PROVE  s \in T
  <2>1. CASE s = {}  BY <2>1, SumEmpty
  <2>2. CASE s # {}
    <3>1. Chosen(s) \in s /\ s \ {Chosen(s)} \in T  BY <1>1, <2>2, ChosenIn
    <3>2. IsFiniteSet(s)  BY FS_Subset
    <3>3. Sum(f, s) = f[Chosen(s)] + Sum(f, s \ {Chosen(s)})
      BY <2>2, <3>2, SumNext
    <3>4. Sum(g, s) = g[Chosen(s)] + Sum(g, s \ {Chosen(s)})
      BY <2>2, <3>2, SumNext
    <3>. QED  BY <3>1, <3>3, <3>4
  <2>. QED  BY <2>1, <2>2
<1>. HIDE DEF T
<1>2. \A s \in SUBSET S : s \in T  BY <1>1, SubsetInduction
<1>. QED  BY <1>2 DEF T

(* The sum over a union of two sets that share no element.                 *)
LEMMA SumUnion ==
  ASSUME NEW f, NEW S, IsFiniteSet(S), \A x \in S : f[x] \in Int,
         NEW A \in SUBSET S
  PROVE  \A B \in SUBSET (S \ A) : Sum(f, A \cup B) = Sum(f, A) + Sum(f, B)
<1>. DEFINE T == {B \in SUBSET (S \ A) : Sum(f, A \cup B) = Sum(f, A) + Sum(f, B)}
<1>1. ASSUME NEW B \in SUBSET (S \ A), \A u \in SUBSET B : u # B => u \in T
      PROVE  B \in T
  <2>1. Sum(f, A) \in Int  BY SumInt
  <2>2. CASE B = {}
    <3>1. A \cup B = A  BY <2>2
    <3>. QED  BY <2>1, <2>2, <3>1, SumEmpty
  <2>3. CASE B # {}
    <3>1. PICK x \in B : TRUE  BY <2>3
    <3>. DEFINE u == B \ {x}
    <3>2. u \in T  BY <1>1, <3>1
    <3>3. A \cup B \in SUBSET S /\ x \in A \cup B /\ (A \cup B) \ {x} = A \cup u
      BY <3>1
    <3>4. Sum(f, A \cup B) = f[x] + Sum(f, A \cup u)  BY <3>3, SumStep
    <3>5. B \in SUBSET S /\ u \in SUBSET S /\ f[x] \in Int  BY <3>1
    <3>6. Sum(f, B) = f[x] + Sum(f, u)  BY <3>1, <3>5, SumStep
    <3>7. Sum(f, u) \in Int  BY <3>5, SumInt
    <3>. QED  BY <2>1, <3>2, <3>4, <3>5, <3>6, <3>7
  <2>. QED  BY <2>2, <2>3
<1>. HIDE DEF T
<1>2. \A s \in SUBSET (S \ A) : s \in T
  <2>. DEFINE R == S \ A
  <2>1. IsFiniteSet(R)  BY FS_Subset
  <2>2. \A s \in SUBSET R : (\A u \in SUBSET s : u # s => u \in T) => s \in T
    BY <1>1
  <2>. HIDE DEF R
  <2>3. \A s \in SUBSET R : s \in T  BY <2>1, <2>2, SubsetInduction
  <2>. QED  BY <2>3 DEF R
<1>. QED  BY <1>2 DEF T

LEMMA SumZero ==
  ASSUME NEW f, NEW S, IsFiniteSet(S), \A x \in S : f[x] = 0
  PROVE  Sum(f, S) = 0
<1>. DEFINE T == {s \in SUBSET S : Sum(f, s) = 0}
<1>1. ASSUME NEW s \in SUBSET S, \A u \in SUBSET s : u # s => u \in T
      PROVE  s \in T
  <2>1. CASE s = {}  BY <2>1, SumEmpty
  <2>2. CASE s # {}
    <3>1. Chosen(s) \in s /\ s \ {Chosen(s)} \in T  BY <1>1, <2>2, ChosenIn
    <3>2. IsFiniteSet(s)  BY FS_Subset
    <3>3. Sum(f, s) = f[Chosen(s)] + Sum(f, s \ {Chosen(s)})
      BY <2>2, <3>2, SumNext
    <3>. QED  BY <3>1, <3>3
  <2>. QED  BY <2>1, <2>2
<1>. HIDE DEF T
<1>2. \A s \in SUBSET S : s \in T  BY <1>1, SubsetInduction
<1>. QED  BY <1>2 DEF T

(* The total of a function on a finite set is the sum of all its values,   *)
(* although it only takes those that are not 0.                            *)
LEMMA TotalIs ==
  ASSUME NEW f, IsFiniteSet(DOMAIN f), \A x \in DOMAIN f : f[x] \in Int
  PROVE  Total(f) = Sum(f, DOMAIN f) /\ Total(f) \in Int
<1>. DEFINE S == DOMAIN f
            A == {x \in S : f[x] # 0}
            B == S \ A
<1>1. A \in SUBSET S /\ B \in SUBSET (S \ A) /\ A \cup B = S  OBVIOUS
<1>2. IsFiniteSet(B)  BY FS_Subset
<1>3. Sum(f, B) = 0  BY <1>2, SumZero
<1>4. Sum(f, A) \in Int  BY SumInt
<1>5. Sum(f, S) = Sum(f, A) + Sum(f, B)
  <2>. HIDE DEF A, B
  <2>. QED  BY <1>1, SumUnion
<1>. QED  BY <1>3, <1>4, <1>5, TotalIsSum

(* To add up group by group, whatever the label that makes the groups, is  *)
(* to add up everything.                                                   *)
LEMMA SumOfGroups ==
  ASSUME NEW f, NEW S, IsFiniteSet(S), \A x \in S : f[x] \in Int,
         NEW label, NEW P, IsFiniteSet(P), NEW sums,
         \A p \in P : sums[p] = Sum(f, {x \in S : label[x] = p})
  PROVE  \A s \in SUBSET P : Sum(sums, s) = Sum(f, {x \in S : label[x] \in s})
<1>. DEFINE T == {s \in SUBSET P : Sum(sums, s) = Sum(f, {x \in S : label[x] \in s})}
<1>1. ASSUME NEW s \in SUBSET P, \A u \in SUBSET s : u # s => u \in T
      PROVE  s \in T
  <2>1. CASE s = {}
    <3>1. {x \in S : label[x] \in s} = {}  BY <2>1
    <3>. QED  BY <2>1, <3>1, SumEmpty
  <2>2. CASE s # {}
    <3>. DEFINE p == Chosen(s)
                u == s \ {p}
                A == {x \in S : label[x] = p}
                B == {x \in S : label[x] \in u}
    <3>1. p \in s /\ u \in T  BY <1>1, <2>2, ChosenIn
    <3>2. IsFiniteSet(s)  BY FS_Subset
    <3>3. Sum(sums, s) = sums[p] + Sum(sums, u)
      BY <2>2, <3>2, SumNext
    <3>4. {x \in S : label[x] \in s} = A \cup B  BY <3>1
    <3>5. A \in SUBSET S /\ B \in SUBSET (S \ A)  BY <3>1
    <3>6. Sum(f, A \cup B) = Sum(f, A) + Sum(f, B)
      <4>. HIDE DEF A, B
      <4>. QED  BY <3>5, SumUnion
    <3>7. sums[p] = Sum(f, A)  BY <3>1
    <3>8. Sum(sums, u) = Sum(f, B)  BY <3>1
    <3>. QED  BY <3>3, <3>4, <3>6, <3>7, <3>8
  <2>. QED  BY <2>1, <2>2
<1>. HIDE DEF T
<1>2. \A s \in SUBSET P : s \in T  BY <1>1, SubsetInduction
<1>. QED  BY <1>2 DEF T

(* A count is a sum of ones.                                               *)
LEMMA CountIsSum ==
  ASSUME NEW S, IsFiniteSet(S), NEW f, \A x \in S : f[x] = 1
  PROVE  \A s \in SUBSET S : Sum(f, s) = Cardinality(s)
<1>. DEFINE T == {s \in SUBSET S : Sum(f, s) = Cardinality(s)}
<1>1. ASSUME NEW s \in SUBSET S, \A u \in SUBSET s : u # s => u \in T
      PROVE  s \in T
  <2>1. CASE s = {}  BY <2>1, SumEmpty, FS_EmptySet
  <2>2. CASE s # {}
    <3>1. Chosen(s) \in s /\ s \ {Chosen(s)} \in T  BY <1>1, <2>2, ChosenIn
    <3>2. IsFiniteSet(s)  BY FS_Subset
    <3>3. Sum(f, s) = f[Chosen(s)] + Sum(f, s \ {Chosen(s)})
      BY <2>2, <3>2, SumNext
    <3>4. Cardinality(s \ {Chosen(s)}) = Cardinality(s) - 1 /\ Cardinality(s) \in Nat
      BY <3>1, <3>2, FS_RemoveElement, FS_CardinalityType
    <3>. QED  BY <3>1, <3>3, <3>4
  <2>. QED  BY <2>1, <2>2
<1>. HIDE DEF T
<1>2. \A s \in SUBSET S : s \in T  BY <1>1, SubsetInduction
<1>. QED  BY <1>2 DEF T

-----------------------------------------------------------------------------
(* The calendar.                                                           *)

Leap(y, k) == IF IsLeap(y) /\ k >= 2 THEN 1 ELSE 0

LEMMA YearAndMonth ==
  ASSUME NEW m \in Int
  PROVE  /\ m \div 12 \in Int /\ m % 12 \in 0..11
         /\ m = 12 * (m \div 12) + (m % 12)
OBVIOUS

(* How many multiples of d there are up to y and up to the year before.    *)
LEMMA Multiples ==
  ASSUME NEW y \in Int
  PROVE  /\ y \div 4 = ((y - 1) \div 4) + (IF y % 4 = 0 THEN 1 ELSE 0)
         /\ y \div 100 = ((y - 1) \div 100) + (IF y % 100 = 0 THEN 1 ELSE 0)
         /\ y \div 400 = ((y - 1) \div 400) + (IF y % 400 = 0 THEN 1 ELSE 0)
         /\ y % 100 = 0 => y % 4 = 0
         /\ y % 400 = 0 => y % 100 = 0
         /\ y \div 4 \in Int /\ y \div 100 \in Int /\ y \div 400 \in Int
<1>1. y \div 4 = ((y - 1) \div 4) + (IF y % 4 = 0 THEN 1 ELSE 0)  OBVIOUS
<1>2. y \div 100 = ((y - 1) \div 100) + (IF y % 100 = 0 THEN 1 ELSE 0)  OBVIOUS
<1>3. y \div 400 = ((y - 1) \div 400) + (IF y % 400 = 0 THEN 1 ELSE 0)  OBVIOUS
<1>4. y % 100 = 0 => y % 4 = 0  OBVIOUS
<1>5. y % 400 = 0 => y % 100 = 0  OBVIOUS
<1>6. y \div 4 \in Int /\ y \div 100 \in Int /\ y \div 400 \in Int  OBVIOUS
<1>. QED  BY <1>1, <1>2, <1>3, <1>4, <1>5, <1>6

(* A leap year is one that counts as one.                                  *)
LEMMA YearLength ==
  ASSUME NEW y \in Int
  PROVE  /\ NewYear(y) \in Int
         /\ NewYear(y + 1) = NewYear(y) + (IF IsLeap(y) THEN 366 ELSE 365)
         /\ IsLeap(y) \in BOOLEAN
<1>. DEFINE f == y + 4
            c == y + 24
<1>1. f \in Int /\ c \in Int  OBVIOUS
<1>2. IsLeap(y) <=> y % 4 = 0 /\ (c % 100 # 0 \/ c % 400 = 0)  BY DEF IsLeap
<1>3. /\ (y + 1) + 3 = f /\ y + 3 = f - 1 /\ (y + 1) + 23 = c /\ y + 23 = c - 1
      /\ f % 4 = y % 4 /\ c % 4 = y % 4
  OBVIOUS
<1>4. NewYear(y + 1) = 365 * (y + 1) + f \div 4 - c \div 100 + c \div 400
  BY <1>3 DEF NewYear
<1>5. NewYear(y) = 365 * y + (f - 1) \div 4 - (c - 1) \div 100 + (c - 1) \div 400
  BY <1>3 DEF NewYear
<1>. HIDE DEF f, c
<1>6. f \div 4 = ((f - 1) \div 4) + (IF y % 4 = 0 THEN 1 ELSE 0)
  BY <1>1, <1>3, Multiples
<1>7. /\ c \div 100 = ((c - 1) \div 100) + (IF c % 100 = 0 THEN 1 ELSE 0)
      /\ c \div 400 = ((c - 1) \div 400) + (IF c % 400 = 0 THEN 1 ELSE 0)
      /\ c % 100 = 0 => y % 4 = 0
      /\ c % 400 = 0 => c % 100 = 0
  BY <1>1, <1>3, Multiples
<1>8. /\ (f - 1) \div 4 \in Int /\ (c - 1) \div 100 \in Int /\ (c - 1) \div 400 \in Int
  BY <1>1
<1>9. IsLeap(y) \in BOOLEAN  BY DEF IsLeap
<1>10. NewYear(y) \in Int  BY <1>5, <1>8
<1>11. CASE y % 4 # 0
  <2>1. ~IsLeap(y) /\ c % 100 # 0 /\ c % 400 # 0  BY <1>2, <1>7, <1>11
  <2>. QED  BY <1>4, <1>5, <1>6, <1>7, <1>8, <1>9, <1>10, <1>11, <2>1
<1>12. CASE y % 4 = 0 /\ c % 100 # 0
  <2>1. IsLeap(y) /\ c % 400 # 0  BY <1>2, <1>7, <1>12
  <2>. QED  BY <1>4, <1>5, <1>6, <1>7, <1>8, <1>9, <1>10, <1>12, <2>1
<1>13. CASE y % 4 = 0 /\ c % 100 = 0
  <2>1. IsLeap(y) <=> c % 400 = 0  BY <1>2, <1>13
  <2>. QED  BY <1>4, <1>5, <1>6, <1>7, <1>8, <1>9, <1>10, <1>13, <2>1
<1>. QED  BY <1>11, <1>12, <1>13

LEMMA MonthTable ==
  /\ DaysBefore[1] = 0    /\ DaysBefore[2] = 31   /\ DaysBefore[3] = 59
  /\ DaysBefore[4] = 90   /\ DaysBefore[5] = 120  /\ DaysBefore[6] = 151
  /\ DaysBefore[7] = 181  /\ DaysBefore[8] = 212  /\ DaysBefore[9] = 243
  /\ DaysBefore[10] = 273 /\ DaysBefore[11] = 304 /\ DaysBefore[12] = 334
BY DEF DaysBefore

InYear(y, k) == DaysBefore[k + 1] + Leap(y, k)

LEMMA InYearInt ==
  ASSUME NEW y \in Int, NEW k \in 0..11
  PROVE  DaysBefore[k + 1] \in Int /\ InYear(y, k) \in Int
<1>1. k \in {0, 1, 2, 3, 4, 5, 6, 7, 8, 9, 10, 11}  OBVIOUS
<1>2. Leap(y, k) \in 0..1  BY DEF Leap
<1>3. DaysBefore[k + 1] \in Int  BY <1>1, MonthTable
<1>. QED  BY <1>2, <1>3 DEF InYear

LEMMA InYearLength ==
  ASSUME NEW y \in Int, NEW k \in 0..10
  PROVE  InYear(y, k + 1) - InYear(y, k) \in 28..31
<1>1. k \in {0, 1, 2, 3, 4, 5, 6, 7, 8, 9, 10}  OBVIOUS
<1>2. /\ DaysBefore[k + 1] \in Int /\ DaysBefore[(k + 1) + 1] \in Int
      /\ DaysBefore[(k + 1) + 1] - DaysBefore[k + 1] \in 28..31
      /\ k = 1 => DaysBefore[(k + 1) + 1] - DaysBefore[k + 1] = 28
  BY <1>1, MonthTable
<1>3. /\ Leap(y, k) \in 0..1 /\ Leap(y, k + 1) \in 0..1
      /\ k # 1 => Leap(y, k) = Leap(y, k + 1)
      /\ k = 1 => Leap(y, k) = 0
  BY DEF Leap
<1>. QED  BY <1>2, <1>3 DEF InYear

(* The beginnings of months: those of the months, and of the one after.    *)
Start == 12 * MinYear..(12 * MaxYear + 12)

LEMMA MonthsAreInts ==
  /\ \A m \in Start : m \in Int
  /\ \A m \in Month : m \in Int /\ m \in Start /\ m + 1 \in Start
  /\ \A m \in Start : m # 12 * MaxYear + 12 => m \in Month
  /\ 12 * MinYear \in Month /\ 12 * MaxYear + 12 \in Start /\ 12 * MaxYear \in Month
  /\ 12 * (MinYear + 3) \in Month
BY YearsAssumption DEF Start, Month

LEMMA StartIs ==
  ASSUME NEW m \in Start
  PROVE  MonthStart[m] = NewYear(m \div 12) + InYear(m \div 12, m % 12)
<1>. DEFINE y == m \div 12
            k == m % 12
<1>1. y \in Int /\ k \in 0..11  BY MonthsAreInts, YearAndMonth
<1>2. MonthStart[m] = NewYear(y) + DaysBefore[k + 1] + Leap(y, k)
  BY DEF MonthStart, Start, Leap
<1>. HIDE DEF y, k
<1>3. NewYear(y) \in Int  BY <1>1, YearLength
<1>4. DaysBefore[k + 1] \in Int  BY <1>1, InYearInt
<1>5. Leap(y, k) \in Int  BY DEF Leap
<1>6. MonthStart[m] = NewYear(y) + InYear(y, k)
  BY <1>2, <1>3, <1>4, <1>5 DEF InYear
<1>. QED  BY <1>6 DEF y, k

LEMMA StartOf ==
  ASSUME NEW y \in Int, NEW k \in 0..11, 12 * y + k \in Start
  PROVE  MonthStart[12 * y + k] = NewYear(y) + InYear(y, k)
<1>1. (12 * y + k) \div 12 = y /\ (12 * y + k) % 12 = k
  OBVIOUS
<1>. QED  BY <1>1, StartIs

LEMMA StartInt ==
  ASSUME NEW m \in Start
  PROVE  MonthStart[m] \in Int
<1>1. m \in Int /\ m \div 12 \in Int /\ m % 12 \in 0..11
  BY MonthsAreInts, YearAndMonth
<1>2. NewYear(m \div 12) \in Int /\ InYear(m \div 12, m % 12) \in Int
  BY <1>1, YearLength, InYearInt
<1>. QED  BY <1>2, StartIs

Length(m) == MonthStart[m + 1] - MonthStart[m]

(* The months from y on that are the k-th of their year.                   *)
LEMMA LengthIs ==
  ASSUME NEW y \in Int, NEW k \in 0..11, 12 * y + k \in Month
  PROVE  Length(12 * y + k) = IF k = 11 THEN 31 ELSE InYear(y, k + 1) - InYear(y, k)
<1>. DEFINE m == 12 * y + k
<1>1. m \in Start /\ m + 1 \in Start  BY MonthsAreInts
<1>2. MonthStart[m] = NewYear(y) + InYear(y, k)  BY <1>1, StartOf
<1>3. NewYear(y) \in Int /\ InYear(y, k) \in Int  BY YearLength, InYearInt
<1>4. CASE k < 11
  <2>1. k + 1 \in 0..11 /\ m + 1 = 12 * y + (k + 1)  BY <1>4
  <2>2. MonthStart[m + 1] = NewYear(y) + InYear(y, k + 1)  BY <1>1, <2>1, StartOf
  <2>3. InYear(y, k + 1) \in Int  BY <2>1, InYearInt
  <2>. HIDE DEF m
  <2>4. Length(m) = InYear(y, k + 1) - InYear(y, k)
    BY <1>2, <1>3, <2>2, <2>3 DEF Length
  <2>. QED  BY <1>4, <2>4 DEF m
<1>5. CASE k = 11
  <2>1. y + 1 \in Int /\ 0 \in 0..11 /\ m + 1 = 12 * (y + 1) + 0  BY <1>5
  <2>2. MonthStart[m + 1] = NewYear(y + 1) + InYear(y + 1, 0)  BY <1>1, <2>1, StartOf
  <2>3. InYear(y + 1, 0) = 0 /\ InYear(y, 11) = 334 + (IF IsLeap(y) THEN 1 ELSE 0)
    BY MonthTable DEF InYear, Leap
  <2>4. NewYear(y + 1) = NewYear(y) + (IF IsLeap(y) THEN 366 ELSE 365)  BY YearLength
  <2>. HIDE DEF m
  <2>5. Length(m) = 31
    BY <1>2, <1>3, <1>5, <2>2, <2>3, <2>4 DEF Length
  <2>. QED  BY <1>5, <2>5 DEF m
<1>. QED  BY <1>4, <1>5

(* No month is shorter than 28 days or longer than 31, December has 31, and *)
(* only February may have another length than a year before.                *)
LEMMA MonthLength ==
  ASSUME NEW m \in Month
  PROVE  /\ Length(m) \in 28..31
         /\ m % 12 = 11 => Length(m) = 31
         /\ m - 12 \in Month /\ m % 12 # 1 => Length(m) = Length(m - 12)
<1>1. PICK y \in Int, k \in 0..11 : m = 12 * y + k
  BY MonthsAreInts, YearAndMonth
<1>2. m % 12 = k /\ m - 12 = 12 * (y - 1) + k /\ y - 1 \in Int  BY <1>1
<1>3. Length(m) = IF k = 11 THEN 31 ELSE InYear(y, k + 1) - InYear(y, k)
  BY <1>1, LengthIs
<1>4. Length(m) \in 28..31
  <2>1. CASE k < 11
    <3>1. k \in 0..10  BY <2>1
    <3>. QED  BY <1>3, <2>1, <3>1, InYearLength
  <2>2. CASE k = 11  BY <1>3, <2>2
  <2>. QED  BY <2>1, <2>2
<1>5. ASSUME m - 12 \in Month, k # 1 PROVE Length(m) = Length(m - 12)
  <2>1. Length(m - 12) = IF k = 11 THEN 31 ELSE InYear(y - 1, k + 1) - InYear(y - 1, k)
    BY <1>2, <1>5, LengthIs
  <2>2. CASE k < 11
    <3>1. /\ Leap(y, k + 1) = Leap(y, k) /\ Leap(y - 1, k + 1) = Leap(y - 1, k)
          /\ Leap(y, k) \in {0, 1} /\ Leap(y - 1, k) \in {0, 1}
      BY <1>5 DEF Leap
    <3>2. k \in 0..11 /\ k + 1 \in 0..11  BY <2>2
    <3>3. DaysBefore[k + 1] \in Int /\ DaysBefore[(k + 1) + 1] \in Int
      BY <3>2, InYearInt
    <3>. QED  BY <1>3, <2>1, <2>2, <3>1, <3>3 DEF InYear
  <2>3. CASE k = 11  BY <1>3, <2>1, <2>3
  <2>. QED  BY <2>2, <2>3
<1>. QED  BY <1>2, <1>3, <1>4, <1>5

(* The least number of a set.                                              *)
LEMMA LeastNumber ==
  ASSUME NEW T, T \in SUBSET Nat, T # {}
  PROVE  \E i \in T : \A j \in T : i <= j
<1>1. PICK i \in T : \A j \in T : <<j, i>> \notin OpToRel(<, Nat)
  BY NatLessThanWellFounded, WFMin
<1>2. \A j \in T : ~(j < i)  BY <1>1 DEF OpToRel
<1>. QED  BY <1>2

LEMMA StartsOrdered ==
  ASSUME NEW a \in Start, NEW b \in Start, a < b
  PROVE  MonthStart[a] < MonthStart[b]
<1>. DEFINE T == {i \in Nat : /\ i > 0 /\ a + i \in Start
                              /\ ~(MonthStart[a] < MonthStart[a + i])}
<1>. SUFFICES ASSUME ~(MonthStart[a] < MonthStart[b]) PROVE FALSE
  OBVIOUS
<1>1. a \in Int /\ b \in Int  BY MonthsAreInts
<1>2. b - a \in T
  <2>1. a + (b - a) = b /\ b - a \in Nat /\ b - a > 0  BY <1>1
  <2>. QED  BY <2>1
<1>3. T \in SUBSET Nat /\ T # {}  BY <1>2
<1>. HIDE DEF T
<1>4. PICK i \in T : \A j \in T : i <= j  BY <1>3, LeastNumber
<1>5. /\ i \in Nat /\ i > 0 /\ a + i \in Start
      /\ ~(MonthStart[a] < MonthStart[a + i])
  BY <1>4 DEF T
<1>. DEFINE m == a + (i - 1)
<1>6. m \in Month /\ m + 1 = a + i /\ m \in Start
  BY <1>1, <1>5, YearsAssumption DEF Start, Month
<1>. HIDE DEF m
<1>7. MonthStart[m] < MonthStart[a + i] /\ MonthStart[m] \in Int /\ MonthStart[a + i] \in Int
  <2>1. MonthStart[m] \in Int /\ MonthStart[a + i] \in Int  BY <1>5, <1>6, StartInt
  <2>2. MonthStart[a + i] - MonthStart[m] \in 28..31
    BY <1>6, MonthLength DEF Length
  <2>. QED  BY <2>1, <2>2
<1>8. CASE i = 1
  <2>1. m = a  BY <1>1, <1>8 DEF m
  <2>. QED  BY <1>5, <1>7, <2>1
<1>9. CASE i # 1
  <2>1. i - 1 \in Nat /\ i - 1 > 0 /\ ~(i <= i - 1)  BY <1>5, <1>9
  <2>2. MonthStart[a] < MonthStart[m]  BY <1>4, <1>6, <2>1 DEF T, m
  <2>3. MonthStart[a] \in Int  BY StartInt
  <2>. QED  BY <1>5, <1>7, <2>2, <2>3
<1>. QED  BY <1>8, <1>9

(* The days of which the calendar knows the month.                         *)
Known == NewYear(MinYear)..(NewYear(MaxYear + 1) - 1)
InMonth(n, m) == MonthStart[m] <= n /\ n < MonthStart[m + 1]

LEMMA KnownIs == Known = MonthStart[12 * MinYear]..(MonthStart[12 * MaxYear + 12] - 1)
<1>1. /\ MinYear \in Int /\ MaxYear + 1 \in Int /\ 0 \in 0..11
      /\ 12 * MinYear + 0 = 12 * MinYear /\ 12 * (MaxYear + 1) + 0 = 12 * MaxYear + 12
      /\ 12 * MinYear \in Start /\ 12 * MaxYear + 12 \in Start
  BY YearsAssumption DEF Start
<1>2. \A y \in Int : InYear(y, 0) = 0  BY MonthTable DEF InYear, Leap
<1>3. \A y \in Int : 12 * y + 0 \in Start => MonthStart[12 * y + 0] = NewYear(y) + InYear(y, 0)
  BY StartOf
<1>4. NewYear(MinYear) \in Int /\ NewYear(MaxYear + 1) \in Int  BY <1>1, YearLength
<1>5. MonthStart[12 * MinYear] = NewYear(MinYear)  BY <1>1, <1>2, <1>3, <1>4
<1>6. MonthStart[12 * MaxYear + 12] = NewYear(MaxYear + 1)  BY <1>1, <1>2, <1>3, <1>4
<1>. QED  BY <1>5, <1>6 DEF Known

LEMMA OneMonth ==
  \A n \in Int : \A a, b \in Month : InMonth(n, a) /\ InMonth(n, b) => a = b
<1>. SUFFICES ASSUME NEW n \in Int, NEW a \in Month, NEW b \in Month,
                     InMonth(n, a), InMonth(n, b)
              PROVE  a = b
  OBVIOUS
<1>1. /\ a \in Start /\ b \in Start /\ a + 1 \in Start /\ b + 1 \in Start
      /\ a \in Int /\ b \in Int
  BY MonthsAreInts
<1>2. /\ MonthStart[a] \in Int /\ MonthStart[a + 1] \in Int
      /\ MonthStart[b] \in Int /\ MonthStart[b + 1] \in Int
  BY <1>1, StartInt
<1>3. ASSUME a < b PROVE FALSE
  <2>1. a + 1 = b \/ a + 1 < b  BY <1>1, <1>3
  <2>2. MonthStart[a + 1] <= MonthStart[b]
    <3>1. a + 1 < b => MonthStart[a + 1] < MonthStart[b]  BY <1>1, StartsOrdered
    <3>. QED  BY <1>2, <2>1, <3>1
  <2>. QED  BY <1>2, <2>2 DEF InMonth
<1>4. ASSUME b < a PROVE FALSE
  <2>1. b + 1 = a \/ b + 1 < a  BY <1>1, <1>4
  <2>2. MonthStart[b + 1] <= MonthStart[a]
    <3>1. b + 1 < a => MonthStart[b + 1] < MonthStart[a]  BY <1>1, StartsOrdered
    <3>. QED  BY <1>2, <2>1, <3>1
  <2>. QED  BY <1>2, <2>2 DEF InMonth
<1>. QED  BY <1>1, <1>3, <1>4

(* The month of a known day is one that it lies in, and the only one.      *)
LEMMA MonthAtIs ==
  ASSUME NEW n \in Known
  PROVE  /\ n \in Int /\ MonthAt[n] \in Month /\ InMonth(n, MonthAt[n])
         /\ \A m \in Month : InMonth(n, m) => MonthAt[n] = m
<1>. DEFINE first == 12 * MinYear
            last == 12 * MaxYear + 12
            T == {i \in Nat : first + i \in Month /\ n < MonthStart[(first + i) + 1]}
<1>1. first \in Start /\ last \in Start /\ first \in Int /\ last \in Int /\ first < last
  BY YearsAssumption DEF Start
<1>2. MonthStart[first] \in Int /\ MonthStart[last] \in Int  BY <1>1, StartInt
<1>3. n \in Int /\ MonthStart[first] <= n /\ n < MonthStart[last]
  BY <1>2, KnownIs
<1>4. (last - 1) - first \in T
  <2>1. /\ (last - 1) - first \in Nat /\ first + ((last - 1) - first) = last - 1
        /\ (last - 1) + 1 = last /\ last - 1 \in Month
    BY <1>1, YearsAssumption DEF Month
  <2>. HIDE DEF first, last
  <2>. QED  BY <1>3, <2>1
<1>5. T \in SUBSET Nat /\ T # {}  BY <1>4
<1>. HIDE DEF T
<1>6. PICK i \in T : \A j \in T : i <= j  BY <1>5, LeastNumber
<1>. DEFINE m == first + i
<1>7. i \in Nat /\ m \in Month /\ n < MonthStart[m + 1]  BY <1>6 DEF T
<1>8. MonthStart[m] <= n
  <2>1. CASE i = 0
    <3>1. m = first  BY <1>1, <2>1
    <3>. QED  BY <1>3, <3>1
  <2>2. CASE i # 0
    <3>1. /\ i - 1 \in Nat /\ ~(i <= i - 1) /\ (first + (i - 1)) + 1 = m
          /\ first + (i - 1) \in Month
      BY <1>1, <1>7, <2>2, YearsAssumption DEF Month
    <3>2. i - 1 \notin T  BY <1>6, <3>1
    <3>. HIDE DEF first, m
    <3>3. ~(n < MonthStart[m])  BY <3>1, <3>2 DEF T
    <3>4. MonthStart[m] \in Int  BY <1>7, MonthsAreInts, StartInt
    <3>. QED  BY <1>3, <3>3, <3>4
  <2>. QED  BY <2>1, <2>2
<1>. HIDE DEF m
<1>9. InMonth(n, m)  BY <1>7, <1>8 DEF InMonth
<1>10. MonthAt[n] = CHOOSE a \in Month : InMonth(n, a)
  BY DEF MonthAt, InMonth, Known
<1>11. MonthAt[n] \in Month /\ InMonth(n, MonthAt[n])
  BY <1>7, <1>9, <1>10
<1>12. \A a \in Month : InMonth(n, a) => MonthAt[n] = a
  BY <1>3, <1>11, OneMonth
<1>. QED  BY <1>3, <1>11, <1>12

(* The first and the last day of a month lie in it.                        *)
LEMMA EdgesOfMonth ==
  ASSUME NEW m \in Month
  PROVE  /\ MonthStart[m] \in Known /\ MonthAt[MonthStart[m]] = m
         /\ MonthStart[m + 1] - 1 \in Known /\ MonthAt[MonthStart[m + 1] - 1] = m
<1>. DEFINE a == MonthStart[m]
            b == MonthStart[m + 1]
            next == m + 1
<1>1. m \in Start /\ next \in Start /\ m \in Int  BY MonthsAreInts
<1>2. a \in Int /\ b \in Int /\ a < b
  <2>. a \in Int /\ b \in Int  BY <1>1, StartInt
  <2>. QED  BY <1>1, MonthLength DEF Length
<1>. DEFINE first == 12 * MinYear
            last == 12 * MaxYear + 12
<1>0. /\ first \in Start /\ last \in Start /\ first <= m /\ next <= last
      /\ first \in Int /\ last \in Int /\ next \in Int
  BY YearsAssumption DEF Start, Month
<1>3. MonthStart[first] <= a /\ MonthStart[first] \in Int
  <2>. HIDE DEF first
  <2>2. first < m => MonthStart[first] < MonthStart[m]  BY <1>0, <1>1, StartsOrdered
  <2>3. MonthStart[first] \in Int  BY <1>0, StartInt
  <2>. QED  BY <1>0, <1>1, <1>2, <2>2, <2>3
<1>4. b <= MonthStart[last] /\ MonthStart[last] \in Int
  <2>. HIDE DEF next, last
  <2>2. next < last => MonthStart[next] < MonthStart[last]  BY <1>0, <1>1, StartsOrdered
  <2>3. MonthStart[last] \in Int  BY <1>0, StartInt
  <2>. QED  BY <1>0, <1>2, <2>2, <2>3 DEF next
<1>5. a \in Known /\ b - 1 \in Known  BY <1>2, <1>3, <1>4, KnownIs
<1>6. InMonth(a, m) /\ InMonth(b - 1, m)  BY <1>2 DEF InMonth
<1>. HIDE DEF a, b
<1>7. MonthAt[a] = m /\ MonthAt[b - 1] = m  BY <1>1, <1>5, <1>6, MonthAtIs
<1>. QED  BY <1>5, <1>7 DEF a, b

(* AddDate from the first day of a month, and from a later one.            *)
LEMMA AddToFirst ==
  ASSUME NEW m \in Month, NEW y \in Int, NEW k \in Int, NEW d \in Int,
         m + 12 * y + k \in Start
  PROVE  AddDate(MonthStart[m], y, k, d) = MonthStart[m + 12 * y + k] + d
<1>1. MonthAt[MonthStart[m]] = m  BY EdgesOfMonth
<1>2. MonthStart[m] \in Int
  <2>1. m \in Start  BY MonthsAreInts
  <2>. QED  BY <2>1, StartInt
<1>3. MonthStart[m + 12 * y + k] \in Int
  <2>. DEFINE j == m + 12 * y + k
  <2>. HIDE DEF j
  <2>1. MonthStart[j] \in Int  BY StartInt DEF j
  <2>. QED  BY <2>1 DEF j
<1>. QED  BY <1>1, <1>2, <1>3 DEF AddDate, DayInMonth

LEMMA NextDay ==
  ASSUME NEW n \in Known
  PROVE  AddDate(n, 0, 0, 1) = n + 1
<1>. DEFINE m == MonthAt[n]
<1>1. n \in Int /\ m \in Month  BY MonthAtIs
<1>. HIDE DEF m
<1>2. MonthStart[m] \in Int
  <2>1. m \in Start  BY <1>1, MonthsAreInts
  <2>. QED  BY <2>1, StartInt
<1>3. AddDate(n, 0, 0, 1) = MonthStart[m + 12 * 0 + 0] + (n - MonthStart[m]) + 1
  BY DEF AddDate, DayInMonth, m
<1>4. m + 12 * 0 + 0 = m /\ m \in Int  BY <1>1, MonthsAreInts
<1>. QED  BY <1>1, <1>2, <1>3, <1>4

(* Periods of k whole months.                                              *)
Whole(m, k) == Window(MonthStart[m], MonthStart[m + k] - 1)

(* A whole period that does not end in February is a year later than the   *)
(* one that YearBefore makes of it.                                        *)
LEMMA YearBeforeIs ==
  ASSUME NEW m \in Month, NEW k \in 1..12, m - 12 \in Month, m + k - 1 \in Month,
         (m + k - 1) % 12 # 1
  PROVE  YearBefore(Whole(m, k)) = Whole(m - 12, k)
<1>. DEFINE e == m + k - 1
            s == m - 12
<1>0. m \in Int  BY MonthsAreInts
<1>1. /\ e \in Month /\ e - 12 \in Month /\ e \in Int /\ e % 12 # 1 /\ s \in Start
      /\ m + k = e + 1 /\ s + k = (e - 12) + 1
      /\ m + 12 * (-1) + 0 = s /\ -1 \in Int /\ 0 \in Int /\ e + 12 * (-1) + 0 = e - 12
  BY <1>0, YearsAssumption DEF Month, Start
<1>. HIDE DEF e, s
<1>2. AddDate(MonthStart[m], -1, 0, 0) = MonthStart[s]
  <2>1. m + 12 * (-1) + 0 \in Start  BY <1>1
  <2>2. AddDate(MonthStart[m], -1, 0, 0) = MonthStart[m + 12 * (-1) + 0] + 0
    BY <1>1, <2>1, AddToFirst
  <2>4. MonthStart[s] \in Int  BY <1>1, StartInt
  <2>. QED  BY <1>1, <2>2, <2>4
<1>3. AddDate(MonthStart[e + 1] - 1, -1, 0, 0) = MonthStart[(e - 12) + 1] - 1
  <2>2. MonthAt[MonthStart[e + 1] - 1] = e  BY <1>1, EdgesOfMonth
  <2>3. /\ MonthStart[e] \in Int /\ MonthStart[e + 1] \in Int
        /\ MonthStart[e - 12] \in Int /\ MonthStart[(e - 12) + 1] \in Int
    <3>1. /\ e \in Start /\ e + 1 \in Start
          /\ e - 12 \in Start /\ (e - 12) + 1 \in Start
      BY <1>1, MonthsAreInts
    <3>. QED  BY <3>1, StartInt
  <2>4. Length(e) = Length(e - 12)  BY <1>1, MonthLength
  <2>6. AddDate(MonthStart[e + 1] - 1, -1, 0, 0)
          = MonthStart[e - 12] + ((MonthStart[e + 1] - 1) - MonthStart[e]) + 0
    BY <1>1, <2>2 DEF AddDate, DayInMonth
  <2>. QED  BY <2>3, <2>4, <2>6 DEF Length
<1>4. Whole(m, k) = Window(MonthStart[m], MonthStart[e + 1] - 1)
      /\ Whole(s, k) = Window(MonthStart[s], MonthStart[(e - 12) + 1] - 1)
  BY <1>1 DEF Whole
<1>5. YearBefore(Whole(m, k)) = Whole(s, k)
  BY <1>2, <1>3, <1>4 DEF YearBefore, Window
<1>. QED  BY <1>5 DEF s

(* The months that matter here: all years but the first two.               *)
Inner == 12 * (MinYear + 2)..(12 * MaxYear + 11)

LEMMA YearOf ==
  ASSUME NEW m \in Inner
  PROVE  LET y == m \div 12
         IN /\ m \in Int /\ y \in Int /\ 12 * y <= m /\ m < 12 * y + 12
            /\ MinYear + 2 <= y /\ y <= MaxYear
<1>1. m \in Int  BY YearsAssumption DEF Inner
<1>. QED  BY <1>1, YearAndMonth, YearsAssumption DEF Inner

(* What is compared is whole periods: a year or a quarter and the one of a *)
(* year before, a month and the month before.                              *)
Current(range, m) ==
  CASE range = "THIS_YEAR"    -> Whole(12 * (m \div 12), 12)
    [] range = "THIS_QUARTER" -> Whole(3 * (m \div 3), 3)
    [] range = "THIS_MONTH"   -> Whole(m, 1)
    [] range = "LAST_YEAR"    -> Whole(12 * (m \div 12) - 12, 12)

Previous(range, m) ==
  CASE range = "THIS_YEAR"    -> Whole(12 * (m \div 12) - 12, 12)
    [] range = "THIS_QUARTER" -> Whole(3 * (m \div 3) - 12, 3)
    [] range = "THIS_MONTH"   -> Whole(m - 1, 1)
    [] range = "LAST_YEAR"    -> Whole(12 * (m \div 12) - 24, 12)

LEMMA DateThisYear ==
  ASSUME NEW n \in Known, MonthAt[n] \in Inner
  PROVE  Window(YearStart(n), AddDate(YearStart(n), 0, 11, 30))
           = Whole(12 * (MonthAt[n] \div 12), 12)
<1>. DEFINE a == 12 * (MonthAt[n] \div 12)
<1>1. /\ a \in Month /\ a + 11 \in Month /\ a + 11 \in Start /\ a + 12 \in Start
      /\ a + 12 * 0 + 11 = a + 11 /\ (a + 11) + 1 = a + 12 /\ (a + 11) % 12 = 11
      /\ a + 12 * 0 + 11 \in Start /\ 0 \in Int /\ 11 \in Int /\ 30 \in Int
  BY YearOf, YearsAssumption DEF Month, Start
<1>2. YearStart(n) = MonthStart[a]  BY DEF YearStart
<1>. HIDE DEF a
<1>3. AddDate(MonthStart[a], 0, 11, 30) = MonthStart[a + 12 * 0 + 11] + 30
  BY <1>1, AddToFirst
<1>4. Length(a + 11) = 31  BY <1>1, MonthLength
<1>5. MonthStart[a + 11] \in Int /\ MonthStart[a + 12] \in Int
  BY <1>1, StartInt
<1>6. MonthStart[a + 11] + 30 = MonthStart[a + 12] - 1
  BY <1>1, <1>4, <1>5 DEF Length
<1>. QED  BY <1>1, <1>2, <1>3, <1>6 DEF Whole, a

LEMMA DateLastYear ==
  ASSUME NEW n \in Known, MonthAt[n] \in Inner
  PROVE  LastYear(n) = Whole(12 * (MonthAt[n] \div 12) - 12, 12)
<1>. DEFINE y == MonthAt[n] \div 12
            a == 12 * y
            e == a - 1
<1>1. /\ a \in Month /\ e \in Month /\ e + 1 = a /\ (a - 12) + 12 = a
      /\ 12 * (e \div 12) = a - 12
  <2>1. y \in Int /\ MinYear + 2 <= y /\ y <= MaxYear  BY YearOf
  <2>. HIDE DEF y
  <2>2. e \div 12 = y - 1  BY <2>1
  <2>3. a \in Month /\ e \in Month  BY <2>1, YearsAssumption DEF Month
  <2>. QED  BY <2>1, <2>2, <2>3
<1>2. YearStart(n) = MonthStart[a]  BY DEF YearStart
<1>. HIDE DEF a, e
<1>3. MonthAt[MonthStart[a] - 1] = e  BY <1>1, EdgesOfMonth
<1>4. YearStart(MonthStart[a] - 1) = MonthStart[a - 12]
  BY <1>1, <1>3 DEF YearStart
<1>5. LastYear(n) = Window(MonthStart[a - 12], MonthStart[a] - 1)
  BY <1>2, <1>4 DEF LastYear
<1>. QED  BY <1>1, <1>5 DEF Whole, a

LEMMA DateQuarter ==
  ASSUME NEW n \in Known, MonthAt[n] \in Inner
  PROVE  Window(QuarterStart(n), AddDate(QuarterStart(n), 0, 3, -1))
           = Whole(3 * (MonthAt[n] \div 3), 3)
<1>. DEFINE a == 3 * (MonthAt[n] \div 3)
<1>1. /\ a \in Month /\ a + 3 \in Start /\ a + 12 * 0 + 3 = a + 3
      /\ 0 \in Int /\ 3 \in Int /\ -1 \in Int /\ a + 12 * 0 + 3 \in Start
  BY YearOf, YearsAssumption DEF Month, Start, Inner
<1>2. QuarterStart(n) = MonthStart[a]  BY DEF QuarterStart
<1>. HIDE DEF a
<1>3. AddDate(MonthStart[a], 0, 3, -1) = MonthStart[a + 12 * 0 + 3] + (-1)
  BY <1>1, AddToFirst
<1>4. MonthStart[a + 3] \in Int  BY <1>1, StartInt
<1>. QED  BY <1>1, <1>2, <1>3, <1>4 DEF Whole, a

(* A month from its first day, however that was found.                     *)
LEMMA DateMonth ==
  ASSUME NEW m \in Month
  PROVE  AddDate(MonthStart[m], 0, 1, -1) = MonthStart[m + 1] - 1
<1>1. m + 12 * 0 + 1 = m + 1 /\ m + 1 \in Start /\ 0 \in Int /\ 1 \in Int /\ -1 \in Int
  BY MonthsAreInts
<1>2. AddDate(MonthStart[m], 0, 1, -1) = MonthStart[m + 12 * 0 + 1] + (-1)
  BY <1>1, AddToFirst
<1>3. MonthStart[m + 1] \in Int  BY <1>1, StartInt
<1>. QED  BY <1>1, <1>2, <1>3

LEMMA SummaryWindowsAre ==
  ASSUME NEW n \in Known, MonthAt[n] \in Inner, NEW range \in RangeName
  PROVE  SummaryWindows(range, n)
           = [current |-> Current(range, MonthAt[n]), previous |-> Previous(range, MonthAt[n])]
<1>. DEFINE m == MonthAt[n]
            y == m \div 12
            q == m \div 3
<1>1. CASE range = "THIS_YEAR"
  <2>. DEFINE a == 12 * y
  <2>1. a \in Month /\ a - 12 \in Month /\ a + 12 - 1 \in Month /\ (a + 12 - 1) % 12 # 1
        /\ 12 \in 1..12
    BY YearOf, YearsAssumption DEF Month
  <2>2. YearBefore(Whole(a, 12)) = Whole(a - 12, 12)
    <3>. HIDE DEF a
    <3>. QED  BY <2>1, YearBeforeIs
  <2>. QED  BY <1>1, <2>2, DateThisYear DEF SummaryWindows, Current, Previous
<1>2. CASE range = "THIS_QUARTER"
  <2>. DEFINE a == 3 * q
  <2>1. a \in Month /\ a - 12 \in Month /\ a + 3 - 1 \in Month /\ (a + 3 - 1) % 12 # 1
        /\ 3 \in 1..12
    BY YearOf, YearsAssumption DEF Month, Inner
  <2>2. YearBefore(Whole(a, 3)) = Whole(a - 12, 3)
    <3>. HIDE DEF a
    <3>. QED  BY <2>1, YearBeforeIs
  <2>. QED  BY <1>2, <2>2, DateQuarter DEF SummaryWindows, Current, Previous
<1>3. CASE range = "THIS_MONTH"
  <2>1. /\ m \in Month /\ m - 1 \in Month /\ m - 1 \in Start /\ (m - 1) + 1 = m
        /\ m + 12 * 0 + (-1) \in Start /\ m + 12 * 0 + (-1) = m - 1
        /\ 0 \in Int /\ -1 \in Int
    BY YearOf, YearsAssumption DEF Inner, Month, Start
  <2>2. StartOfMonth(n) = MonthStart[m]  BY DEF StartOfMonth
  <2>. HIDE DEF m
  <2>3. AddDate(MonthStart[m], 0, 1, -1) = MonthStart[m + 1] - 1
    BY <2>1, DateMonth
  <2>4. AddDate(MonthStart[m], 0, -1, 0) = MonthStart[m - 1]
    <3>1. AddDate(MonthStart[m], 0, -1, 0) = MonthStart[m + 12 * 0 + (-1)] + 0
      BY <2>1, AddToFirst
    <3>2. MonthStart[m - 1] \in Int  BY <2>1, StartInt
    <3>. QED  BY <2>1, <3>1, <3>2
  <2>5. AddDate(MonthStart[m - 1], 0, 1, -1) = MonthStart[m] - 1
    BY <2>1, DateMonth
  <2>. QED  BY <1>3, <2>1, <2>2, <2>3, <2>4, <2>5
       DEF SummaryWindows, Current, Previous, Whole, m
<1>4. CASE range = "LAST_YEAR"
  <2>. DEFINE a == 12 * y - 12
  <2>1. a \in Month /\ a - 12 \in Month /\ a + 12 - 1 \in Month /\ (a + 12 - 1) % 12 # 1
        /\ 12 \in 1..12 /\ a - 12 = 12 * y - 24
    BY YearOf, YearsAssumption DEF Month
  <2>2. YearBefore(Whole(a, 12)) = Whole(a - 12, 12)
    <3>. HIDE DEF a
    <3>. QED  BY <2>1, YearBeforeIs
  <2>. QED  BY <1>4, <2>1, <2>2, DateLastYear DEF SummaryWindows, Current, Previous
<1>. QED  BY <1>1, <1>2, <1>3, <1>4 DEF RangeName

LEMMA EdgesOfWhole ==
  ASSUME NEW m \in Month, NEW k \in 1..12, m + k - 1 \in Month
  PROVE  /\ Whole(m, k).start \in Known /\ MonthAt[Whole(m, k).start] = m
         /\ Whole(m, k).end \in Known /\ MonthAt[Whole(m, k).end] = m + k - 1
         /\ Whole(m, k).start \in Int /\ Whole(m, k).end \in Int
<1>. DEFINE e == m + k - 1
<1>1. e \in Month /\ e + 1 = m + k  BY MonthsAreInts
<1>. HIDE DEF e
<1>2. /\ MonthStart[m] \in Known /\ MonthAt[MonthStart[m]] = m
      /\ MonthStart[e + 1] - 1 \in Known /\ MonthAt[MonthStart[e + 1] - 1] = e
  BY <1>1, EdgesOfMonth
<1>3. MonthStart[m] \in Int /\ MonthStart[e + 1] - 1 \in Int  BY <1>2, MonthAtIs
<1>4. Whole(m, k).start = MonthStart[m] /\ Whole(m, k).end = MonthStart[e + 1] - 1
  BY <1>1 DEF Whole, Window
<1>. QED  BY <1>2, <1>3, <1>4 DEF e

(* Days on which something happens are known, and not at the very edge.    *)
LEMMA DayIsKnown ==
  ASSUME NEW n \in Day
  PROVE  /\ n \in Known /\ n \in Int /\ MonthAt[n] \in Inner
         /\ MonthAt[n] \in 12 * (MinYear + 3)..(12 * MaxYear - 1)
<1>. DEFINE first == 12 * MinYear
            begin == 12 * (MinYear + 3)
            end == 12 * MaxYear
            last == 12 * MaxYear + 12
<1>1. /\ begin \in Start /\ first \in Start /\ end \in Start /\ last \in Start
      /\ first < begin /\ end < last
      /\ begin \in Int /\ first \in Int /\ end \in Int /\ last \in Int
  BY YearsAssumption DEF Start
<1>2. n \in MonthStart[begin]..(MonthStart[end] - 1)  BY DayAssumption
<1>. HIDE DEF first, begin, end, last
<1>3. MonthStart[first] < MonthStart[begin]  BY <1>1, StartsOrdered
<1>4. MonthStart[end] < MonthStart[last]  BY <1>1, StartsOrdered
<1>5. /\ MonthStart[begin] \in Int /\ MonthStart[end] \in Int /\ MonthStart[last] \in Int
      /\ MonthStart[first] \in Int
  BY <1>1, StartInt
<1>6. n \in MonthStart[first]..(MonthStart[last] - 1) /\ n \in Int
  BY <1>2, <1>3, <1>4, <1>5
<1>7. n \in Known  BY <1>6, KnownIs DEF first, last
<1>. DEFINE m == MonthAt[n]
            next == m + 1
<1>8. m \in Month /\ InMonth(n, m)  BY <1>7, MonthAtIs
<1>. HIDE DEF m
<1>9. m \in Start /\ next \in Start /\ m \in Int /\ next \in Int  BY <1>8, MonthsAreInts
<1>10. MonthStart[m] \in Int /\ MonthStart[next] \in Int
  <2>. HIDE DEF next
  <2>. QED  BY <1>9, StartInt
<1>11. MonthStart[m] <= n /\ n < MonthStart[next]  BY <1>8 DEF InMonth
<1>12. next < begin => MonthStart[next] < MonthStart[begin]
  <2>. HIDE DEF next
  <2>. QED  BY <1>1, <1>9, StartsOrdered
<1>13. end < m => MonthStart[end] < MonthStart[m]  BY <1>1, <1>9, StartsOrdered
<1>14. m \in begin..(end - 1)
  <2>1. ~(next < begin) /\ next # begin
    BY <1>2, <1>5, <1>6, <1>10, <1>11, <1>12
  <2>2. ~(end < m) /\ m # end
    BY <1>2, <1>5, <1>6, <1>10, <1>11, <1>13
  <2>. QED  BY <1>1, <1>9, <2>1, <2>2 DEF next
<1>15. m \in Inner  BY <1>14, YearsAssumption DEF Inner, begin, end
<1>. QED  BY <1>6, <1>7, <1>14, <1>15 DEF m, begin, end

(* SummaryWindows, on any day: what ComparedLikeWithLike says of it.       *)
LEMMA LikeWithLike ==
  ASSUME NEW n \in Day, NEW range \in RangeName
  PROVE  LET w == SummaryWindows(range, n)
             asked == IF range = "LAST_YEAR" THEN w.current ELSE w.previous
         IN /\ w.previous.end < w.current.start
            /\ MonthAt[w.current.start] - MonthAt[w.previous.start]
                 = (IF range = "THIS_MONTH" THEN 1 ELSE 12)
            /\ \A d \in {asked.start, asked.end} :
                 SummaryWindows(range, d).current = w.previous
<1>. DEFINE m == MonthAt[n]
            k == CASE range = "THIS_MONTH" -> 1 [] range = "THIS_QUARTER" -> 3 [] OTHER -> 12
            b == IF range = "THIS_MONTH" THEN 1 ELSE 12
            c == CASE range = "THIS_YEAR"    -> 12 * (m \div 12)
                   [] range = "THIS_QUARTER" -> 3 * (m \div 3)
                   [] range = "THIS_MONTH"   -> m
                   [] range = "LAST_YEAR"    -> 12 * (m \div 12) - 12
            p == c - b
            a == IF range = "LAST_YEAR" THEN c ELSE p
<1>1. /\ n \in Known /\ m \in Inner /\ m \in Int
      /\ 12 * (MinYear + 3) <= m /\ m < 12 * MaxYear
  BY DayIsKnown, YearsAssumption
<1>2. /\ k \in 1..12 /\ b \in {1, 12} /\ k <= b
      /\ c \in Inner /\ c + k - 1 \in Inner /\ p \in Month /\ p + k - 1 \in Month
      /\ a \in Inner /\ a + k - 1 \in Inner /\ c \in Int /\ p \in Int
  <2>. DEFINE y == m \div 12
              q == m \div 3
  <2>1. /\ y \in Int /\ 12 * y <= m /\ m < 12 * y + 12
        /\ MinYear + 3 <= y /\ y < MaxYear
    BY <1>1, YearOf, YearsAssumption
  <2>2. q \in Int /\ 3 * q <= m /\ m < 3 * q + 3  BY <1>1
  <2>3. 12 * (MinYear + 3) <= 3 * q /\ 3 * q + 3 <= 12 * MaxYear
    BY <1>1, <2>2, YearsAssumption
  <2>4. c \in {12 * y, 3 * q, m, 12 * y - 12}  BY DEF RangeName
  <2>. HIDE DEF y, q
  <2>5. CASE range = "THIS_YEAR" /\ c = 12 * y
    BY <1>1, <2>1, <2>5, YearsAssumption DEF Inner, Month
  <2>6. CASE range = "THIS_QUARTER" /\ c = 3 * q
    BY <1>1, <2>2, <2>3, <2>6, YearsAssumption DEF Inner, Month
  <2>7. CASE range = "THIS_MONTH" /\ c = m
    BY <1>1, <2>7, YearsAssumption DEF Inner, Month
  <2>8. CASE range = "LAST_YEAR" /\ c = 12 * y - 12
    BY <1>1, <2>1, <2>8, YearsAssumption DEF Inner, Month
  <2>. QED  BY <2>5, <2>6, <2>7, <2>8 DEF RangeName, y, q
<1>3. Current(range, m) = Whole(c, k)
  BY DEF Current, RangeName
<1>4. Previous(range, m) = Whole(p, k)
  BY <1>1, YearOf DEF Previous, RangeName
<1>5. \A x \in {a, a + k - 1} : Current(range, x) = Whole(p, k)
  BY <1>1, <1>2, YearOf DEF Current, RangeName
<1>. DEFINE w == SummaryWindows(range, n)
            asked == IF range = "LAST_YEAR" THEN w.current ELSE w.previous
<1>. HIDE DEF k, b, c, p, a
<1>6. w = [current |-> Whole(c, k), previous |-> Whole(p, k)]
  BY <1>1, <1>3, <1>4, SummaryWindowsAre
<1>7. asked = Whole(a, k)
  BY <1>6 DEF a
<1>. HIDE DEF w, asked
<1>8. /\ MonthAt[Whole(c, k).start] = c /\ Whole(c, k).start \in Int
      /\ MonthAt[Whole(p, k).start] = p /\ Whole(p, k).end \in Int
  <2>1. c \in Month /\ c + k - 1 \in Month
    BY <1>2, YearsAssumption DEF Inner, Month
  <2>. QED  BY <1>2, <2>1, EdgesOfWhole
<1>9. Whole(p, k).end < Whole(c, k).start
  <2>. DEFINE next == p + k
  <2>1. next \in Start /\ c \in Start /\ next <= c /\ next \in Int /\ c \in Int
    <3>1. p + k = c - b + k  BY <1>2 DEF p
    <3>. QED  BY <1>2, <3>1, YearsAssumption DEF Inner, Month, Start
  <2>. HIDE DEF next
  <2>2. next < c => MonthStart[next] < MonthStart[c]  BY <2>1, StartsOrdered
  <2>3. MonthStart[next] \in Int /\ MonthStart[c] \in Int  BY <2>1, StartInt
  <2>4. Whole(p, k).end = MonthStart[next] - 1 /\ Whole(c, k).start = MonthStart[c]
    BY DEF Whole, Window, next
  <2>. QED  BY <2>1, <2>2, <2>3, <2>4
<1>10. \A d \in {asked.start, asked.end} : SummaryWindows(range, d).current = Whole(p, k)
  <2>1. a \in Month /\ a + k - 1 \in Month /\ a \in Inner /\ a + k - 1 \in Inner
    BY <1>2, YearsAssumption DEF Inner, Month
  <2>2. /\ Whole(a, k).start \in Known /\ MonthAt[Whole(a, k).start] = a
        /\ Whole(a, k).end \in Known /\ MonthAt[Whole(a, k).end] = a + k - 1
    BY <1>2, <2>1, EdgesOfWhole
  <2>3. SUFFICES ASSUME NEW d \in {asked.start, asked.end}
                 PROVE  SummaryWindows(range, d).current = Whole(p, k)
    OBVIOUS
  <2>4. d \in Known /\ MonthAt[d] \in {a, a + k - 1} /\ MonthAt[d] \in Inner
    BY <1>7, <2>1, <2>2
  <2>5. SummaryWindows(range, d).current = Current(range, MonthAt[d])
    BY <2>4, SummaryWindowsAre
  <2>. QED  BY <1>5, <2>4, <2>5
<1>11. c - p = b  BY <1>2 DEF p
<1>12. /\ w.previous.end < w.current.start
       /\ MonthAt[w.current.start] - MonthAt[w.previous.start] = b
       /\ \A d \in {asked.start, asked.end} :
            SummaryWindows(range, d).current = w.previous
  BY <1>6, <1>8, <1>9, <1>10, <1>11
<1>. QED  BY <1>12 DEF w, asked, b

-----------------------------------------------------------------------------
(* The invariant.                                                          *)

LEMMA InitReports == ReportsInit => ReportsInv
<1>. SUFFICES ASSUME ReportsInit PROVE ReportsInv
  OBVIOUS
<1>1. Entries = {} /\ Recorded = {}  BY DEF ReportsInit, Entries, Recorded
<1>2. ReportsTypeOK
  BY WritesAssumption DEF ReportsInit, ReportsTypeOK
<1>. QED  BY <1>1, <1>2, FS_EmptySet DEF ReportsInv

LEMMA SentTypes ==
  ASSUME NEW type \in Activity
  PROVE  Sent(type).income \in {-1, 2} /\ Sent(type).expense \in {0, 1}
BY DEF Activity, Sent

LEMMA NextReports == ReportsInv /\ [ReportsNext]_reports => ReportsInv'
<1>. SUFFICES ASSUME ReportsInv, [ReportsNext]_reports PROVE ReportsInv'
  OBVIOUS
<1>. USE DEF ReportsInv
<1>1. CASE UNCHANGED reports
  BY <1>1 DEF reports, ReportsTypeOK, Entries, Recorded
<1>2. CASE Midnight
  <2>1. today' \in Day /\ today' \in Int /\ today \in Int /\ today < today'
    BY <1>2, DayIsKnown DEF Midnight, ReportsTypeOK
  <2>2. ReportsTypeOK'  BY <1>2, <2>1 DEF Midnight, ReportsTypeOK
  <2>3. Entries' = Entries /\ Recorded' = Recorded
    BY <1>2 DEF Midnight, Entries, Recorded
  <2>4. \A r \in Recorded : counted[r].day <= today'
    <3>1. \A r \in Recorded : counted[r].day \in Day
      BY DEF Recorded, ReportsTypeOK, Report, Absent
    <3>2. \A r \in Recorded : counted[r].day \in Int  BY <3>1, DayIsKnown
    <3>. QED  BY <2>1, <3>2
  <2>. QED  BY <1>2, <2>2, <2>3, <2>4 DEF Midnight
<1>3. ASSUME NEW r \in Row, NEW kind \in Kind, NEW late \in BOOLEAN, Submit(r, kind, late)
      PROVE  ReportsInv'
  <2>. DEFINE new == [kind |-> kind, status |-> "open", day |-> today, late |-> late]
  <2>1. new \in Report /\ today \in Int
    BY DayIsKnown DEF ReportsTypeOK, Report
  <2>2. ReportsTypeOK'
    BY <1>3, <2>1, WritesAssumption DEF Submit, Written, ReportsTypeOK
  <2>3. Entries' = Entries  BY <1>3 DEF Submit, Entries
  <2>4. counted' = [counted EXCEPT ![r] = new]  BY <1>3 DEF Submit
  <2>5. Recorded' \subseteq Recorded \cup {r}
    BY <2>4 DEF Recorded, ReportsTypeOK
  <2>6. IsFiniteSet(Recorded')
    <3>1. IsFiniteSet(Recorded \cup {r})  BY FS_AddElement
    <3>. QED  BY <2>5, <3>1, FS_Subset
  <2>7. \A x \in Recorded' : counted'[x].day <= today
    BY <2>1, <2>4, <2>5 DEF Recorded, ReportsTypeOK
  <2>. QED  BY <1>3, <2>2, <2>3, <2>6, <2>7 DEF Submit
<1>4. ASSUME NEW r \in Row, NEW status \in {"done", "cancelled"}, Settle(r, status)
      PROVE  ReportsInv'
  <2>. DEFINE new == [counted[r] EXCEPT !.status = status]
  <2>1. counted[r] \in Report /\ r \in Recorded
    BY <1>4 DEF Settle, ReportsTypeOK, Recorded
  <2>2. new \in Report /\ new.day = counted[r].day  BY <2>1 DEF Report
  <2>3. counted' = [counted EXCEPT ![r] = new]  BY <1>4 DEF Settle
  <2>4. ReportsTypeOK'
    BY <1>4, <2>2, <2>3 DEF Settle, ReportsTypeOK
  <2>5. Entries' = Entries  BY <1>4 DEF Settle, Entries
  <2>6. Recorded' \subseteq Recorded
    BY <2>1, <2>3 DEF Recorded, ReportsTypeOK
  <2>7. IsFiniteSet(Recorded')  BY <2>6, FS_Subset
  <2>8. \A x \in Recorded' : counted'[x].day <= today
    BY <2>1, <2>2, <2>3, <2>6 DEF Recorded, ReportsTypeOK
  <2>. QED  BY <1>4, <2>4, <2>5, <2>7, <2>8 DEF Settle
<1>5. ASSUME NEW l \in Line, NEW type \in Activity, NEW dated \in BOOLEAN,
             NEW day \in Day, NEW late \in BOOLEAN, Upsert(l, type, dated, day, late)
      PROVE  ReportsInv'
  <2>. DEFINE new == [type |-> type, income |-> Sent(type).income,
                      expense |-> Sent(type).expense,
                      dated |-> dated, day |-> day, late |-> late]
  <2>1. Sent(type).income \in -1..2 /\ Sent(type).expense \in -1..1
    BY SentTypes
  <2>2. new \in Lapkeu  BY <2>1 DEF Lapkeu
  <2>3. ledger' = [ledger EXCEPT ![l] = new]  BY <1>5 DEF Upsert
  <2>4. ReportsTypeOK'
    BY <1>5, <2>2, <2>3, WritesAssumption DEF Upsert, Written, ReportsTypeOK
  <2>5. Recorded' = Recorded  BY <1>5 DEF Upsert, Recorded
  <2>6. Entries' \subseteq Entries \cup {l}
    BY <2>3 DEF Entries, ReportsTypeOK
  <2>7. IsFiniteSet(Entries')
    <3>1. IsFiniteSet(Entries \cup {l})  BY FS_AddElement
    <3>. QED  BY <2>6, <3>1, FS_Subset
  <2>8. \A x \in Entries' : /\ ledger'[x].income = Sent(ledger'[x].type).income
                            /\ ledger'[x].expense = Sent(ledger'[x].type).expense
    <3>. SUFFICES ASSUME NEW x \in Entries'
                  PROVE  /\ ledger'[x].income = Sent(ledger'[x].type).income
                         /\ ledger'[x].expense = Sent(ledger'[x].type).expense
      OBVIOUS
    <3>1. CASE x = l
      <4>1. ledger'[x] = new  BY <2>3, <3>1 DEF ReportsTypeOK
      <4>. QED  BY <4>1
    <3>2. CASE x # l
      <4>1. ledger'[x] = ledger[x] /\ x \in Entries
        BY <2>3, <2>6, <3>2 DEF ReportsTypeOK, Entries
      <4>. QED  BY <4>1
    <3>. QED  BY <3>1, <3>2
  <2>. QED  BY <1>5, <2>4, <2>5, <2>7, <2>8 DEF Upsert
<1>6. ASSUME NEW l \in Line, Remove(l)
      PROVE  ReportsInv'
  <2>1. ledger' = [ledger EXCEPT ![l] = Absent]  BY <1>6 DEF Remove
  <2>2. ReportsTypeOK'  BY <1>6 DEF Remove, ReportsTypeOK
  <2>3. Recorded' = Recorded  BY <1>6 DEF Remove, Recorded
  <2>4. Entries' \subseteq Entries /\ \A x \in Entries' : ledger'[x] = ledger[x]
    BY <2>1 DEF Entries, ReportsTypeOK
  <2>5. IsFiniteSet(Entries')  BY <2>4, FS_Subset
  <2>. QED  BY <1>6, <2>2, <2>3, <2>4, <2>5 DEF Remove
<1>7. today \in Day  BY DEF ReportsTypeOK
<1>. QED  BY <1>1, <1>2, <1>3, <1>4, <1>5, <1>6, <1>7 DEF ReportsNext

(* The types of everything that is recorded, the ledger's sums and the days *)
(* of projects and purchases, whatever was written in which order.          *)
THEOREM ReportsSound == ReportsSpec => []ReportsInv
BY InitReports, NextReports, PTL DEF ReportsSpec

(* SummaryWindows: on whatever day it becomes, what is compared is whole   *)
(* periods that share no day, and the one before is the one that was        *)
(* current on its own first and last day.                                   *)
THEOREM SummariesCompareLikeWithLike == ReportsSpec => ComparedLikeWithLike
<1>1. ReportsInv' =>
        (today' # today =>
           \A range \in RangeName :
             LET w == SummaryWindows(range, today')
                 asked == IF range = "LAST_YEAR" THEN w.current ELSE w.previous
             IN /\ w.previous.end < w.current.start
                /\ MonthAt[w.current.start] - MonthAt[w.previous.start]
                     = (IF range = "THIS_MONTH" THEN 1 ELSE 12)
                /\ \A n \in {asked.start, asked.end} :
                     SummaryWindows(range, n).current = w.previous)
  <2>. SUFFICES ASSUME ReportsInv' PROVE today' \in Day
    BY LikeWithLike
  <2>. QED  BY DEF ReportsInv, ReportsTypeOK
<1>. QED  BY <1>1, ReportsSound, PTL DEF ComparedLikeWithLike

-----------------------------------------------------------------------------
(* Windows and bars.                                                       *)

LEMMA MonthsOrdered ==
  ASSUME NEW a \in Known, NEW b \in Known, a <= b
  PROVE  MonthAt[a] <= MonthAt[b]
<1>. DEFINE x == MonthAt[a]
            y == MonthAt[b]
            next == y + 1
<1>1. /\ a \in Int /\ x \in Month /\ InMonth(a, x)
      /\ b \in Int /\ y \in Month /\ InMonth(b, y)
  BY MonthAtIs
<1>. HIDE DEF x, y
<1>2. next \in Start /\ x \in Start /\ next \in Int /\ x \in Int /\ y \in Int
  BY <1>1, MonthsAreInts
<1>3. InMonth(b, y) => b < MonthStart[next]  BY DEF InMonth
<1>. HIDE DEF next
<1>4. next < x => MonthStart[next] < MonthStart[x]  BY <1>2, StartsOrdered
<1>5. MonthStart[next] \in Int /\ MonthStart[x] \in Int  BY <1>2, StartInt
<1>6. ~(next < x) /\ next # x
  BY <1>1, <1>3, <1>4, <1>5 DEF InMonth
<1>. QED  BY <1>1, <1>2, <1>6 DEF next, x, y

(* A range begins where the period of its summary begins, and ends today    *)
(* or, if the period is over, with the period.                              *)
LEMMA RangeWindowIs ==
  ASSUME NEW n \in Day, NEW range \in RangeName
  PROVE  LET w == RangeWindow(range, n)
             whole == SummaryWindows(range, n).current
         IN /\ w.start = whole.start /\ w.start \in Known /\ w.start \in Int
            /\ w.end \in Known /\ w.end \in Int /\ whole.end \in Int
            /\ w.start <= w.end /\ w.end <= whole.end
            /\ range = "LAST_YEAR" => w = whole
            /\ range # "LAST_YEAR" => w.end = n
            /\ range = "THIS_MONTH" => MonthAt[w.start] = MonthAt[n]
<1>. DEFINE m == MonthAt[n]
            k == CASE range = "THIS_MONTH" -> 1 [] range = "THIS_QUARTER" -> 3 [] OTHER -> 12
            c == CASE range = "THIS_YEAR"    -> 12 * (m \div 12)
                   [] range = "THIS_QUARTER" -> 3 * (m \div 3)
                   [] range = "THIS_MONTH"   -> m
                   [] range = "LAST_YEAR"    -> 12 * (m \div 12) - 12
            w == RangeWindow(range, n)
            whole == SummaryWindows(range, n).current
<1>1. /\ n \in Known /\ n \in Int /\ m \in Inner /\ m \in Int
      /\ 12 * (MinYear + 3) <= m /\ m < 12 * MaxYear
  BY DayIsKnown, YearsAssumption
<1>2. /\ k \in 1..12 /\ c \in Month /\ c + k - 1 \in Month /\ c \in Int
      /\ range # "LAST_YEAR" => c <= m /\ m < c + k
      /\ range = "THIS_MONTH" => c = m
  <2>. DEFINE y == m \div 12
              q == m \div 3
  <2>1. /\ y \in Int /\ 12 * y <= m /\ m < 12 * y + 12
        /\ MinYear + 3 <= y /\ y < MaxYear
    BY <1>1, YearOf, YearsAssumption
  <2>2. q \in Int /\ 3 * q <= m /\ m < 3 * q + 3  BY <1>1
  <2>3. 12 * (MinYear + 3) <= 3 * q /\ 3 * q + 3 <= 12 * MaxYear
    BY <1>1, <2>2, YearsAssumption
  <2>. HIDE DEF y, q
  <2>4. CASE range = "THIS_YEAR" /\ c = 12 * y
    BY <1>1, <2>1, <2>4, YearsAssumption DEF Month
  <2>5. CASE range = "THIS_QUARTER" /\ c = 3 * q
    BY <1>1, <2>2, <2>3, <2>5, YearsAssumption DEF Month
  <2>6. CASE range = "THIS_MONTH" /\ c = m
    BY <1>1, <2>6, YearsAssumption DEF Month
  <2>7. CASE range = "LAST_YEAR" /\ c = 12 * y - 12
    BY <1>1, <2>1, <2>7, YearsAssumption DEF Month
  <2>. QED  BY <2>4, <2>5, <2>6, <2>7 DEF RangeName, y, q
<1>3. whole = Whole(c, k)
  BY <1>1, SummaryWindowsAre DEF Current, RangeName
<1>4. range = "LAST_YEAR" => w = Whole(c, k)
  BY <1>1, DateLastYear DEF RangeWindow
<1>5. range # "LAST_YEAR" => w = Window(MonthStart[c], n)
  BY DEF RangeWindow, RangeName, StartOfMonth, QuarterStart, YearStart
<1>. HIDE DEF k, c, w, whole
<1>6. /\ Whole(c, k).start \in Known /\ MonthAt[Whole(c, k).start] = c
      /\ Whole(c, k).end \in Known /\ Whole(c, k).start \in Int /\ Whole(c, k).end \in Int
  BY <1>2, EdgesOfWhole
<1>7. /\ Whole(c, k).start = MonthStart[c] /\ Whole(c, k).end = MonthStart[c + k] - 1
      /\ Whole(c, k) = Window(MonthStart[c], MonthStart[c + k] - 1)
  BY DEF Whole, Window
<1>8. /\ MonthStart[c] < MonthStart[c + k]
      /\ MonthStart[c] \in Int /\ MonthStart[c + k] \in Int
  <2>. DEFINE next == c + k
  <2>1. c \in Start /\ next \in Start /\ c < next
    BY <1>2, YearsAssumption DEF Month, Start
  <2>. HIDE DEF next
  <2>2. MonthStart[c] < MonthStart[next]  BY <2>1, StartsOrdered
  <2>3. MonthStart[c] \in Int /\ MonthStart[next] \in Int  BY <2>1, StartInt
  <2>. QED  BY <2>2, <2>3 DEF next
<1>9. ASSUME range # "LAST_YEAR"
      PROVE  MonthStart[c] <= n /\ n <= MonthStart[c + k] - 1
  <2>. DEFINE next == c + k
              after == m + 1
  <2>1. InMonth(n, m)  BY <1>1, MonthAtIs
  <2>2. MonthStart[m] <= n /\ n < MonthStart[after]  BY <2>1 DEF InMonth
  <2>. HIDE DEF m
  <2>3. /\ c \in Start /\ next \in Start /\ m \in Start /\ after \in Start
        /\ c <= m /\ after <= next /\ c \in Int /\ next \in Int /\ m \in Int /\ after \in Int
    BY <1>1, <1>2, <1>9, YearsAssumption DEF Month, Start
  <2>. HIDE DEF next, after
  <2>4. c < m => MonthStart[c] < MonthStart[m]  BY <2>3, StartsOrdered
  <2>5. after < next => MonthStart[after] < MonthStart[next]  BY <2>3, StartsOrdered
  <2>6. /\ MonthStart[c] \in Int /\ MonthStart[m] \in Int
        /\ MonthStart[after] \in Int /\ MonthStart[next] \in Int
    BY <2>3, StartInt
  <2>7. MonthStart[c] <= n /\ n <= MonthStart[next] - 1
    BY <1>1, <2>2, <2>3, <2>4, <2>5, <2>6
  <2>. QED  BY <2>7 DEF next
<1>10. CASE range = "LAST_YEAR"
  <2>1. w = whole /\ w.start <= w.end
    BY <1>3, <1>4, <1>6, <1>7, <1>8, <1>10
  <2>. QED  BY <1>3, <1>6, <1>10, <2>1 DEF w, whole
<1>11. CASE range # "LAST_YEAR"
  <2>1. w.start = MonthStart[c] /\ w.end = n  BY <1>5, <1>11 DEF Window
  <2>. QED  BY <1>1, <1>2, <1>3, <1>6, <1>7, <1>9, <1>11, <2>1 DEF w, whole
<1>. QED  BY <1>10, <1>11

LEMMA DivThree ==
  ASSUME NEW m \in Int, NEW a \in Int, NEW b \in Int, m \in a..b
  PROVE  m \div 3 \in (a \div 3)..(b \div 3)
OBVIOUS

LEMMA WeekOfMonday ==
  ASSUME NEW n \in Int, NEW w
  PROVE  LET monday == MondayOf(n)
         IN /\ monday \in Int /\ monday % 7 = 0 /\ n - monday \in 0..6
            /\ monday + (n - monday) = n
            /\ WeekLabel(monday, w) = WeekLabel(n, w)
<1>. DEFINE monday == MondayOf(n)
<1>1. monday \in Int /\ monday % 7 = 0 /\ n - monday \in 0..6 /\ monday + (n - monday) = n
  BY DEF MondayOf
<1>2. MondayOf(monday) = monday
  BY <1>1 DEF MondayOf
<1>3. WeekLabel(monday, w) = WeekLabel(n, w)  BY <1>2 DEF WeekLabel
<1>. QED  BY <1>1, <1>3

(* AllowedPeriods, Periods: a chart has finitely many bars, and one for    *)
(* every day of its window.                                                *)
LEMMA EveryDayHasABar ==
  ASSUME NEW t \in Day, NEW range \in RangeName, NEW period \in AllowedPeriods(range)
  PROVE  LET w == RangeWindow(range, t)
         IN /\ IsFiniteSet(Periods(period, w))
            /\ \A n \in Known : w.start <= n /\ n <= w.end =>
                 PeriodOf(period, n, w) \in Periods(period, w)
<1>. DEFINE w == RangeWindow(range, t)
<1>1. /\ w.start \in Known /\ w.start \in Int /\ w.end \in Known /\ w.end \in Int
      /\ range # "LAST_YEAR" => w.end = t
      /\ range = "THIS_MONTH" => MonthAt[w.start] = MonthAt[t]
  BY RangeWindowIs
<1>2. period \in {"WEEKLY", "MONTHLY", "QUARTERLY"}
      /\ (period = "WEEKLY" => range = "THIS_MONTH")
  BY DEF AllowedPeriods, RangeName
<1>. HIDE DEF w
<1>3. MonthAt[w.start] \in Int /\ MonthAt[w.end] \in Int
  BY <1>1, MonthAtIs, MonthsAreInts
<1>4. IsFiniteSet(Months(w))  BY <1>3, FS_Interval DEF Months
<1>5. \A n \in Known : w.start <= n /\ n <= w.end => MonthAt[n] \in Months(w)
  <2>. SUFFICES ASSUME NEW n \in Known, w.start <= n, n <= w.end
                PROVE  MonthAt[n] \in Months(w)
    OBVIOUS
  <2>1. MonthAt[n] \in Int  BY MonthAtIs, MonthsAreInts
  <2>2. MonthAt[w.start] <= MonthAt[n] /\ MonthAt[n] <= MonthAt[w.end]
    BY <1>1, MonthsOrdered
  <2>. QED  BY <1>3, <2>1, <2>2 DEF Months
<1>6. CASE period = "MONTHLY"
  BY <1>4, <1>5, <1>6 DEF Periods, PeriodOf, w
<1>7. CASE period = "QUARTERLY"
  <2>1. Periods(period, w) = {m \div 3 : m \in Months(w)}
    BY <1>7 DEF Periods
  <2>2. IsFiniteSet(Periods(period, w))
    <3>. DEFINE Q == (MonthAt[w.start] \div 3)..(MonthAt[w.end] \div 3)
    <3>1. \A m \in Months(w) : m \div 3 \in Q
      BY <1>3, DivThree DEF Months
    <3>2. IsFiniteSet(Q)
      <4>1. MonthAt[w.start] \div 3 \in Int /\ MonthAt[w.end] \div 3 \in Int
        BY <1>3
      <4>. QED  BY <4>1, FS_Interval
    <3>. HIDE DEF Q
    <3>3. Periods(period, w) \in SUBSET Q  BY <2>1, <3>1
    <3>. QED  BY <3>2, <3>3, FS_Subset
  <2>3. \A n \in Known : w.start <= n /\ n <= w.end =>
          PeriodOf(period, n, w) \in Periods(period, w)
    BY <1>5, <1>7, <2>1 DEF PeriodOf
  <2>. QED  BY <2>2, <2>3 DEF w
<1>8. CASE period = "WEEKLY"
  <2>. DEFINE Begin == {m \in MondayOf(w.start)..w.end :
                m % 7 = 0 /\ \E k \in 0..6 : MonthAt[m + k] = MonthAt[w.start]}
              first == MondayOf(StartOfMonth(w.start))
  <2>1. Periods(period, w) = {WeekLabel(n, w) : n \in Begin}
    BY <1>8 DEF Periods, WeekPeriods
  <2>2. first \in Int /\ MondayOf(w.start) \in Int
    <3>1. MonthAt[w.start] \in Start  BY <1>1, MonthAtIs, MonthsAreInts
    <3>2. StartOfMonth(w.start) \in Int  BY <3>1, StartInt DEF StartOfMonth
    <3>. QED  BY <1>1, <3>2 DEF MondayOf
  <2>3. IsFiniteSet(Periods(period, w))
    <3>. DEFINE lo == (MondayOf(w.start) - 7 - first) \div 7 + 1
                hi == (w.end - first) \div 7 + 1
    <3>1. lo \in Int /\ hi \in Int /\ IsFiniteSet(lo..hi)
      <4>1. lo \in Int /\ hi \in Int  BY <1>1, <2>2
      <4>. HIDE DEF lo, hi
      <4>. QED  BY <4>1, FS_Interval
    <3>2. \A n \in Begin : WeekLabel(n, w) \in lo..hi
      <4>. SUFFICES ASSUME NEW n \in Begin PROVE WeekLabel(n, w) \in lo..hi
        OBVIOUS
      <4>1. n \in Int /\ MondayOf(w.start) <= n /\ n <= w.end  BY <1>1, <2>2
      <4>2. MondayOf(n) \in Int /\ MondayOf(n) <= n /\ n - 7 <= MondayOf(n)
        BY <4>1 DEF MondayOf
      <4>. HIDE DEF first
      <4>3. WeekLabel(n, w) = (MondayOf(n) - first) \div 7 + 1
        BY DEF WeekLabel, first
      <4>. QED  BY <1>1, <2>2, <4>1, <4>2, <4>3
    <3>. HIDE DEF lo, hi, Begin
    <3>3. Periods(period, w) \in SUBSET (lo..hi)  BY <2>1, <3>2
    <3>. QED  BY <3>1, <3>3, FS_Subset
  <2>4. ASSUME NEW n \in Known, w.start <= n, n <= w.end
        PROVE  PeriodOf(period, n, w) \in Periods(period, w)
    <3>. DEFINE monday == MondayOf(n)
    <3>1. n \in Int /\ t \in Known /\ MonthAt[t] = MonthAt[w.start] /\ w.end = t
      BY <1>1, <1>2, <1>8, MonthAtIs
    <3>2. MonthAt[n] = MonthAt[w.start]
      <4>1. MonthAt[w.start] <= MonthAt[n] /\ MonthAt[n] <= MonthAt[t]
        BY <1>1, <2>4, <3>1, MonthsOrdered
      <4>2. MonthAt[n] \in Int  BY MonthAtIs, MonthsAreInts
      <4>. QED  BY <1>3, <3>1, <4>1, <4>2
    <3>3. /\ monday \in Int /\ monday % 7 = 0 /\ n - monday \in 0..6
          /\ monday + (n - monday) = n
          /\ WeekLabel(monday, w) = WeekLabel(n, w)
      BY <3>1, WeekOfMonday
    <3>4. monday <= w.end  BY <1>1, <2>4, <3>1, <3>3
    <3>5. MondayOf(w.start) <= monday
      BY <1>1, <2>4, <3>1 DEF MondayOf
    <3>6. monday \in MondayOf(w.start)..w.end
      BY <1>1, <2>2, <3>3, <3>4, <3>5
    <3>7. monday \in Begin  BY <3>2, <3>3, <3>6
    <3>8. PeriodOf(period, n, w) = WeekLabel(monday, w)
      BY <1>8, <3>3 DEF PeriodOf
    <3>. QED  BY <2>1, <3>7, <3>8
  <2>. QED  BY <2>3, <2>4 DEF w
<1>. QED  BY <1>2, <1>6, <1>7, <1>8

(* A chart whose bars are the sums of the groups of S adds up to S, if each *)
(* group has a bar.                                                         *)
LEMMA ChartAddsUp ==
  ASSUME NEW f, NEW S, IsFiniteSet(S), \A x \in S : f[x] \in Int,
         NEW P, IsFiniteSet(P), NEW label, \A x \in S : label[x] \in P,
         NEW chart, DOMAIN chart = P,
         \A p \in P : chart[p] = Sum(f, {x \in S : label[x] = p})
  PROVE  Total(chart) = Sum(f, S) /\ Sum(f, S) \in Int
<1>1. \A p \in P : chart[p] \in Int
  <2>. SUFFICES ASSUME NEW p \in P PROVE Sum(f, {x \in S : label[x] = p}) \in Int
    OBVIOUS
  <2>1. {x \in S : label[x] = p} \in SUBSET S  OBVIOUS
  <2>. QED  BY <2>1, SumInt
<1>2. Total(chart) = Sum(chart, P)  BY <1>1, TotalIs
<1>3. Sum(chart, P) = Sum(f, {x \in S : label[x] \in P})
  <2>1. P \in SUBSET P  OBVIOUS
  <2>. QED  BY <2>1, SumOfGroups
<1>4. {x \in S : label[x] \in P} = S  OBVIOUS
<1>5. Sum(f, S) \in Int
  <2>1. S \in SUBSET S  OBVIOUS
  <2>. QED  BY <2>1, SumInt
<1>. QED  BY <1>2, <1>3, <1>4, <1>5

(* The rows that a chart or a list is about.                               *)
Within(w, rows) == {r \in rows : InWindow(counted[r], w)}

LEMMA CountedTypes ==
  ASSUME ReportsInv
  PROVE  \A r \in Recorded : /\ counted[r] \in Report /\ counted[r].day \in Day
                             /\ counted[r].day \in Known /\ counted[r].day \in Int
                             /\ counted[r].day <= today /\ today \in Day /\ today \in Int
<1>1. \A r \in Recorded : counted[r] \in Report /\ counted[r].day \in Day
  BY DEF ReportsInv, ReportsTypeOK, Recorded, Report
<1>2. today \in Day  BY DEF ReportsInv, ReportsTypeOK
<1>3. \A r \in Recorded : counted[r].day <= today  BY DEF ReportsInv
<1>. QED  BY <1>1, <1>2, <1>3, DayIsKnown

(* ActivityLine: the bars count what the WHERE clause selects, although one *)
(* piece of code makes the bars and another the groups.                     *)
LEMMA BarsCount ==
  ASSUME ReportsInv, NEW kind, NEW filter, NEW range \in RangeName,
         NEW period \in AllowedPeriods(range)
  PROVE  LET rows == Within(RangeWindow(range, today), Selected(kind, filter))
         IN /\ Total(ActivityLine(kind, period, range, filter)) = Cardinality(rows)
            /\ IsFiniteSet(rows) /\ rows \subseteq Recorded
<1>. DEFINE w == RangeWindow(range, today)
            rows == Within(w, Selected(kind, filter))
            P == Periods(period, w)
            label == [r \in rows |-> PeriodOf(period, counted[r].day, w)]
            ones == [r \in rows |-> 1]
            chart == ActivityLine(kind, period, range, filter)
            counts == Aggregate(kind, period, w, filter)
            Group(p) == {r \in rows : label[r] = p}
<1>1. today \in Day  BY DEF ReportsInv, ReportsTypeOK
<1>2. rows \subseteq Recorded  BY DEF Within, Selected, Recorded
<1>3. IsFiniteSet(rows)  BY <1>2, FS_Subset DEF ReportsInv
<1>4. IsFiniteSet(P)  BY <1>1, EveryDayHasABar
<1>5. \A r \in rows : label[r] \in P
  <2>. SUFFICES ASSUME NEW r \in rows
                PROVE  PeriodOf(period, counted[r].day, w) \in P
    OBVIOUS
  <2>. DEFINE n == counted[r].day
  <2>1. n \in Known /\ n \in Int /\ w.start \in Int /\ w.end \in Int
    BY <1>1, <1>2, CountedTypes, RangeWindowIs
  <2>2. w.start <= n /\ n <= w.end  BY <2>1 DEF Within, InWindow
  <2>. HIDE DEF n
  <2>3. PeriodOf(period, n, w) \in P  BY <1>1, <2>1, <2>2, EveryDayHasABar
  <2>. QED  BY <2>3 DEF n
<1>6. counts = [p \in {label[r] : r \in rows} |-> Cardinality(Group(p))]
  <2>1. {PeriodOf(period, counted[r].day, w) : r \in rows} = {label[r] : r \in rows}
    OBVIOUS
  <2>2. \A p : Group(p) = {r \in rows : PeriodOf(period, counted[r].day, w) = p}
    OBVIOUS
  <2>3. rows = {r \in Selected(kind, filter) : InWindow(counted[r], w)}  BY DEF Within
  <2>. HIDE DEF rows, label, w
  <2>. QED  BY <2>1, <2>2, <2>3 DEF Aggregate
<1>7. chart = [p \in P |-> IF p \in DOMAIN counts THEN counts[p] ELSE 0]
  BY DEF ActivityLine
<1>. HIDE DEF rows, w, P, label, chart, counts
<1>8. \A p \in P : chart[p] = Sum(ones, Group(p))
  <2>. SUFFICES ASSUME NEW p \in P PROVE chart[p] = Sum(ones, Group(p))
    OBVIOUS
  <2>1. Group(p) \in SUBSET rows  OBVIOUS
  <2>2. Sum(ones, Group(p)) = Cardinality(Group(p))
    <3>1. \A x \in rows : ones[x] = 1  OBVIOUS
    <3>. HIDE DEF ones
    <3>. QED  BY <1>3, <2>1, <3>1, CountIsSum
  <2>3. CASE p \in DOMAIN counts
    BY <1>6, <1>7, <2>2, <2>3
  <2>4. CASE p \notin DOMAIN counts
    <3>1. Group(p) = {}  BY <1>6, <2>4
    <3>. QED  BY <1>7, <2>2, <2>4, <3>1, FS_EmptySet
  <2>. QED  BY <2>3, <2>4
<1>9. Total(chart) = Sum(ones, rows)
  <2>1. \A x \in rows : ones[x] \in Int  OBVIOUS
  <2>2. DOMAIN chart = P  BY <1>7
  <2>. HIDE DEF ones
  <2>. QED  BY <1>3, <1>4, <1>5, <1>8, <2>1, <2>2, ChartAddsUp
<1>10. Sum(ones, rows) = Cardinality(rows)
  <2>1. \A x \in rows : ones[x] = 1  OBVIOUS
  <2>2. rows \in SUBSET rows  OBVIOUS
  <2>. HIDE DEF ones
  <2>. QED  BY <1>3, <2>1, <2>2, CountIsSum
<1>. QED  BY <1>2, <1>3, <1>9, <1>10 DEF rows, w, chart

(* EndOfDay, AllowedPeriods, ActivityLine: for any number of projects and   *)
(* purchases on any days, the bars count all that is in the window, once.   *)
THEOREM ChartsAddUp == ReportsSpec => []BarsAddUp
<1>1. ReportsInv => BarsAddUp
  <2>. SUFFICES ASSUME ReportsInv, NEW kind \in Kind, NEW filter \in Filter,
                       NEW range \in RangeName, NEW period \in AllowedPeriods(range)
                PROVE  LET w == RangeWindow(range, today)
                       IN Total(ActivityLine(kind, period, range, filter))
                            = Cardinality({r \in Selected(kind, filter) :
                                /\ counted[r].day \in w.start..w.end
                                /\ ~(counted[r].late /\ counted[r].day = w.end)})
    BY DEF BarsAddUp
  <2>. DEFINE w == RangeWindow(range, today)
  <2>1. Total(ActivityLine(kind, period, range, filter))
          = Cardinality(Within(w, Selected(kind, filter)))
    BY BarsCount
  <2>2. w.start \in Int /\ w.end \in Int
    BY RangeWindowIs DEF ReportsInv, ReportsTypeOK
  <2>. HIDE DEF w
  <2>3. \A r \in Selected(kind, filter) :
          InWindow(counted[r], w) <=> /\ counted[r].day \in w.start..w.end
                                      /\ ~(counted[r].late /\ counted[r].day = w.end)
    <3>. SUFFICES ASSUME NEW r \in Selected(kind, filter)
                  PROVE  InWindow(counted[r], w)
                           <=> /\ counted[r].day \in w.start..w.end
                               /\ ~(counted[r].late /\ counted[r].day = w.end)
      OBVIOUS
    <3>1. r \in Recorded  BY DEF Selected, Recorded
    <3>2. counted[r].day \in Int  BY <3>1, CountedTypes
    <3>. QED  BY <2>2, <3>2 DEF InWindow
  <2>4. Within(w, Selected(kind, filter))
          = {r \in Selected(kind, filter) :
               /\ counted[r].day \in w.start..w.end
               /\ ~(counted[r].late /\ counted[r].day = w.end)}
    BY <2>3 DEF Within
  <2>. QED  BY <2>1, <2>4 DEF w
<1>. QED  BY <1>1, ReportsSound, PTL

LEMMA DisjointCount ==
  ASSUME NEW A, IsFiniteSet(A), NEW B, IsFiniteSet(B), A \cap B = {}
  PROVE  /\ Cardinality(A \cup B) = Cardinality(A) + Cardinality(B)
         /\ IsFiniteSet(A \cup B)
<1>1. Cardinality(A \cap B) = 0  BY FS_EmptySet
<1>2. Cardinality(A) \in Nat /\ Cardinality(B) \in Nat  BY FS_CardinalityType
<1>3. /\ IsFiniteSet(A \cup B)
      /\ Cardinality(A \cup B) = Cardinality(A) + Cardinality(B) - Cardinality(A \cap B)
  BY FS_Union
<1>. QED  BY <1>1, <1>2, <1>3

(* ActivityLine, SummaryByRange and ListByRange: three pieces of code that  *)
(* count the same rows, but for those at the end of the window.             *)
THEOREM CountsAgree == ReportsSpec => []CountsTellTheSame
<1>1. ReportsInv => CountsTellTheSame
  <2>. SUFFICES ASSUME ReportsInv, NEW kind \in Kind, NEW range \in RangeName,
                       NEW period \in AllowedPeriods(range)
                PROVE  LET w == RangeWindow(range, today)
                           whole == SummaryWindows(range, today).current
                           bars == Total(ActivityLine(kind, period, range, "ALL"))
                                     + Total(ActivityLine(kind, period, range, "CANCELLED"))
                           On(day, late) == {r \in Row : /\ counted[r] # Absent
                                                        /\ counted[r].kind = kind
                                                        /\ counted[r].day = day
                                                        /\ counted[r].late = late}
                           end == On(w.end, TRUE)
                       IN /\ SummaryByRange(kind, range).current
                               = bars + (IF w.end < whole.end THEN Cardinality(end) ELSE 0)
                          /\ kind = "purchase" =>
                               Cardinality(ListByRange(range))
                                 = bars + Cardinality(end \cup On(w.end + 1, FALSE))
    BY DEF CountsTellTheSame
  <2>. DEFINE w == RangeWindow(range, today)
              whole == SummaryWindows(range, today).current
              all == {r \in Row : counted[r] # Absent /\ counted[r].kind = kind}
              On(day, late) == {r \in Row : /\ counted[r] # Absent /\ counted[r].kind = kind
                                           /\ counted[r].day = day /\ counted[r].late = late}
              end == On(w.end, TRUE)
              after == On(w.end + 1, FALSE)
              active == Within(w, Selected(kind, "ALL"))
              ended == Within(w, Selected(kind, "CANCELLED"))
              bars == Total(ActivityLine(kind, period, range, "ALL"))
                        + Total(ActivityLine(kind, period, range, "CANCELLED"))
              inside == Within(w, all)
  <2>1. today \in Day /\ today \in Int
    BY DayIsKnown DEF ReportsInv, ReportsTypeOK
  <2>2. /\ w.start \in Int /\ w.end \in Int /\ w.start <= w.end
        /\ w.start = whole.start /\ whole.end \in Int /\ w.end <= whole.end
        /\ range = "LAST_YEAR" => w = whole
        /\ range # "LAST_YEAR" => w.end = today
        /\ w.end \in Known
    BY <2>1, RangeWindowIs
  <2>3. /\ Total(ActivityLine(kind, period, range, "ALL")) = Cardinality(active)
        /\ Total(ActivityLine(kind, period, range, "CANCELLED")) = Cardinality(ended)
        /\ IsFiniteSet(active) /\ IsFiniteSet(ended)
    BY BarsCount
  <2>4. active \cap ended = {} /\ active \cup ended = inside
    BY DEF Within, Selected, Scope
  <2>. HIDE DEF w, whole, active, ended, bars
  <2>5. bars = Cardinality(inside) /\ IsFiniteSet(inside)
    BY <2>3, <2>4, DisjointCount DEF bars
  <2>6. all \subseteq Recorded  BY DEF Recorded
  <2>7. \A r \in all : /\ counted[r].day \in Int /\ counted[r].day <= today
                       /\ counted[r].late \in BOOLEAN
    BY <2>6, CountedTypes DEF Report
  <2>8. /\ end \in SUBSET Recorded /\ after \in SUBSET Recorded
        /\ end \subseteq all /\ after \subseteq all
    BY <2>6
  <2>9. IsFiniteSet(end) /\ IsFiniteSet(after) /\ IsFiniteSet(end \cup after)
    BY <2>8, FS_Subset, FS_Union DEF ReportsInv
  <2>10. inside \cap (end \cup after) = {}
    BY <2>2, <2>7 DEF Within, InWindow
  <2>11. SummaryByRange(kind, range).current = Cardinality(Within(whole, all))
    BY DEF SummaryByRange, Within, whole
  <2>12. SummaryByRange(kind, range).current
           = bars + (IF w.end < whole.end THEN Cardinality(end) ELSE 0)
    <3>1. CASE w.end < whole.end
      <4>1. w.end = today  BY <2>2, <3>1
      <4>2. Within(whole, all) = inside \cup end
        <5>1. \A r \in all : InWindow(counted[r], whole) <=> (InWindow(counted[r], w) \/ r \in end)
          BY <2>1, <2>2, <2>7, <3>1, <4>1 DEF InWindow
        <5>. QED  BY <2>8, <5>1 DEF Within
      <4>3. inside \cap end = {}  BY <2>10
      <4>4. Cardinality(inside \cup end) = Cardinality(inside) + Cardinality(end)
        <5>. HIDE DEF inside, end
        <5>. QED  BY <2>5, <2>9, <4>3, DisjointCount
      <4>. QED  BY <2>5, <2>11, <3>1, <4>2, <4>4
    <3>2. CASE ~(w.end < whole.end)
      <4>1. whole.end = w.end /\ whole.start = w.start  BY <2>2, <3>2
      <4>2. Within(whole, all) = inside  BY <4>1 DEF Within, InWindow
      <4>3. Cardinality(inside) \in Nat  BY <2>5, FS_CardinalityType
      <4>. QED  BY <2>5, <2>11, <3>2, <4>2, <4>3
    <3>. QED  BY <3>1, <3>2
  <2>13. ASSUME kind = "purchase"
         PROVE  Cardinality(ListByRange(range)) = bars + Cardinality(end \cup after)
    <3>1. AddDate(w.end, 0, 0, 1) = w.end + 1  BY <2>2, NextDay
    <3>2. ListByRange(range) = Within(Window(w.start, w.end + 1), all)
      BY <2>13, <3>1 DEF ListByRange, Within, w
    <3>3. Within(Window(w.start, w.end + 1), all) = inside \cup (end \cup after)
      <4>1. \A r \in all : InWindow(counted[r], Window(w.start, w.end + 1))
                             <=> (InWindow(counted[r], w) \/ r \in end \/ r \in after)
        BY <2>2, <2>7 DEF InWindow, Window
      <4>. QED  BY <2>8, <4>1 DEF Within
    <3>4. Cardinality(inside \cup (end \cup after))
            = Cardinality(inside) + Cardinality(end \cup after)
      <4>. DEFINE edge == end \cup after
      <4>1. IsFiniteSet(edge) /\ inside \cap edge = {}  BY <2>9, <2>10
      <4>. HIDE DEF inside, edge
      <4>2. Cardinality(inside \cup edge) = Cardinality(inside) + Cardinality(edge)
        BY <2>5, <4>1, DisjointCount
      <4>. QED  BY <4>2 DEF edge
    <3>. QED  BY <2>5, <3>2, <3>3, <3>4
  <2>. QED  BY <2>12, <2>13 DEF w, whole, bars
<1>. QED  BY <1>1, ReportsSound, PTL

-----------------------------------------------------------------------------
(* The ledger.                                                             *)

Earned == [l \in Entries |-> Amount(ledger[l].income)]
Spent  == [l \in Entries |-> Amount(ledger[l].expense)]

LEMMA EntryTypes ==
  ASSUME ReportsInv
  PROVE  \A l \in Entries :
           /\ ledger[l] \in Lapkeu /\ ledger[l].type \in Activity
           /\ ledger[l].day \in Known /\ ledger[l].day \in Int
           /\ Earned[l] \in Int /\ Spent[l] \in Int
           /\ ledger[l].type \in {"pembelian", "maintenance"} => Earned[l] = 0
           /\ ledger[l].expense = -1 => Spent[l] = 0
<1>. SUFFICES ASSUME NEW l \in Entries
              PROVE  /\ ledger[l] \in Lapkeu /\ ledger[l].type \in Activity
                     /\ ledger[l].day \in Known /\ ledger[l].day \in Int
                     /\ Earned[l] \in Int /\ Spent[l] \in Int
                     /\ ledger[l].type \in {"pembelian", "maintenance"} => Earned[l] = 0
                     /\ ledger[l].expense = -1 => Spent[l] = 0
  OBVIOUS
<1>1. ledger[l] \in Lapkeu  BY DEF ReportsInv, ReportsTypeOK, Entries
<1>2. /\ ledger[l].type \in Activity /\ ledger[l].day \in Day
      /\ ledger[l].income \in Int /\ ledger[l].expense \in Int
  BY <1>1 DEF Lapkeu
<1>3. ledger[l].day \in Known /\ ledger[l].day \in Int  BY <1>2, DayIsKnown
<1>4. ledger[l].type \in {"pembelian", "maintenance"} => ledger[l].income = -1
  BY DEF ReportsInv, Sent
<1>. QED  BY <1>1, <1>2, <1>3, <1>4 DEF Earned, Spent, Amount

(* Pemasukan and Pengeluaran are sums of what the entries say.             *)
LEMMA MoneyIsSum ==
  ASSUME ReportsInv, NEW lines \in SUBSET Entries
  PROVE  /\ IsFiniteSet(lines)
         /\ Pemasukan(lines) = Sum(Earned, lines) /\ Pemasukan(lines) \in Int
         /\ Pengeluaran(lines) = Sum(Spent, lines) /\ Pengeluaran(lines) \in Int
<1>1. IsFiniteSet(lines)  BY FS_Subset DEF ReportsInv
<1>. DEFINE e == [l \in lines |-> Amount(ledger[l].income)]
            s == [l \in lines |-> Amount(ledger[l].expense)]
<1>2. /\ DOMAIN e = lines /\ \A l \in lines : e[l] = Earned[l]
      /\ DOMAIN s = lines /\ \A l \in lines : s[l] = Spent[l]
  BY DEF Earned, Spent
<1>3. Pemasukan(lines) = Total(e) /\ Pengeluaran(lines) = Total(s)
  BY DEF Pemasukan, Pengeluaran
<1>. HIDE DEF e, s
<1>4. \A l \in lines : e[l] \in Int /\ s[l] \in Int  BY <1>2, EntryTypes
<1>5. /\ Total(e) = Sum(e, lines) /\ Total(e) \in Int
      /\ Total(s) = Sum(s, lines) /\ Total(s) \in Int
  BY <1>1, <1>2, <1>4, TotalIs
<1>6. lines \in SUBSET lines  OBVIOUS
<1>7. Sum(e, lines) = Sum(Earned, lines)  BY <1>1, <1>2, <1>6, SumCongruent
<1>8. Sum(s, lines) = Sum(Spent, lines)  BY <1>1, <1>2, <1>6, SumCongruent
<1>. QED  BY <1>1, <1>3, <1>5, <1>7, <1>8

LEMMA MoneySplits ==
  ASSUME ReportsInv, NEW A \in SUBSET Entries, NEW B \in SUBSET Entries, A \cap B = {}
  PROVE  /\ Pemasukan(A \cup B) = Pemasukan(A) + Pemasukan(B)
         /\ Pengeluaran(A \cup B) = Pengeluaran(A) + Pengeluaran(B)
<1>1. IsFiniteSet(Entries) /\ B \in SUBSET (Entries \ A) /\ A \cup B \in SUBSET Entries
  BY DEF ReportsInv
<1>2. \A l \in Entries : Earned[l] \in Int /\ Spent[l] \in Int  BY EntryTypes
<1>3. Sum(Earned, A \cup B) = Sum(Earned, A) + Sum(Earned, B)
  BY <1>1, <1>2, SumUnion
<1>4. Sum(Spent, A \cup B) = Sum(Spent, A) + Sum(Spent, B)
  BY <1>1, <1>2, SumUnion
<1>. QED  BY <1>1, <1>3, <1>4, MoneyIsSum

(* The bars of IncomeExpenseChart add up to the entries of its window.     *)
LEMMA ChartTotals ==
  ASSUME ReportsInv, NEW range \in RangeName, NEW period \in AllowedPeriods(range)
  PROVE  LET lines == Between(RangeWindow(range, today))
         IN /\ IncomeExpenseTotals(period, range).income = Pemasukan(lines)
            /\ IncomeExpenseTotals(period, range).expense = Pengeluaran(lines)
<1>. DEFINE w == RangeWindow(range, today)
            lines == Between(w)
            P == Periods(period, w)
            label == [l \in lines |-> PeriodOf(period, ledger[l].day, w)]
            groups == Groups(period, w)
            In(p) == IF p \in DOMAIN groups THEN groups[p] ELSE {}
            Group(p) == {l \in lines : label[l] = p}
            income == [p \in P |-> Pemasukan(In(p))]
            expense == [p \in P |-> Pengeluaran(In(p))]
<1>1. today \in Day  BY DEF ReportsInv, ReportsTypeOK
<1>2. lines \in SUBSET Entries  BY DEF Between, Entries
<1>3. IsFiniteSet(P)  BY <1>1, EveryDayHasABar
<1>4. \A l \in lines : label[l] \in P
  <2>. SUFFICES ASSUME NEW l \in lines
                PROVE  PeriodOf(period, ledger[l].day, w) \in P
    OBVIOUS
  <2>. DEFINE n == ledger[l].day
  <2>1. n \in Known /\ n \in Int /\ w.start \in Int /\ w.end \in Int
    BY <1>1, <1>2, EntryTypes, RangeWindowIs
  <2>2. w.start <= n /\ n <= w.end  BY <2>1 DEF Between, InWindow
  <2>. HIDE DEF n
  <2>3. PeriodOf(period, n, w) \in P  BY <1>1, <2>1, <2>2, EveryDayHasABar
  <2>. QED  BY <2>3 DEF n
<1>5. groups = [p \in {label[l] : l \in lines} |-> Group(p)]
  <2>1. {PeriodOf(period, ledger[l].day, w) : l \in lines} = {label[l] : l \in lines}
    OBVIOUS
  <2>2. \A p : Group(p) = {l \in lines : PeriodOf(period, ledger[l].day, w) = p}
    OBVIOUS
  <2>. HIDE DEF label, w
  <2>. QED  BY <2>1, <2>2 DEF Groups
<1>6. /\ IncomeExpenseTotals(period, range).income = Total(income)
      /\ IncomeExpenseTotals(period, range).expense = Total(expense)
  BY DEF IncomeExpenseTotals, IncomeExpenseChart
<1>. HIDE DEF w, lines, P, label, groups
<1>7. \A p : In(p) = Group(p) /\ Group(p) \in SUBSET Entries
  BY <1>2, <1>5
<1>8. \A p \in P : income[p] = Sum(Earned, Group(p)) /\ expense[p] = Sum(Spent, Group(p))
  BY <1>7, MoneyIsSum
<1>9. \A l \in lines : Earned[l] \in Int /\ Spent[l] \in Int  BY <1>2, EntryTypes
<1>10. IsFiniteSet(lines)  BY <1>2, MoneyIsSum
<1>11. DOMAIN income = P /\ DOMAIN expense = P  OBVIOUS
<1>. HIDE DEF income, expense
<1>12. Total(income) = Sum(Earned, lines)
  <2>1. \A p \in P : income[p] = Sum(Earned, Group(p))  BY <1>8
  <2>2. \A l \in lines : Earned[l] \in Int  BY <1>9
  <2>. QED  BY <1>3, <1>4, <1>10, <1>11, <2>1, <2>2, ChartAddsUp
<1>13. Total(expense) = Sum(Spent, lines)
  <2>1. \A p \in P : expense[p] = Sum(Spent, Group(p))  BY <1>8
  <2>2. \A l \in lines : Spent[l] \in Int  BY <1>9
  <2>. QED  BY <1>3, <1>4, <1>10, <1>11, <2>1, <2>2, ChartAddsUp
<1>. QED  BY <1>2, <1>6, <1>12, <1>13, MoneyIsSum DEF w, lines

LEMMA ActivityFinite == IsFiniteSet(Activity)
<1>1. IsFiniteSet({"penjualan"} \cup {"distribusi"})  BY FS_Singleton, FS_Union
<1>2. IsFiniteSet({"pembelian"} \cup {"maintenance"})  BY FS_Singleton, FS_Union
<1>3. Activity = ({"penjualan"} \cup {"distribusi"}) \cup ({"pembelian"} \cup {"maintenance"})
  BY DEF Activity
<1>. QED  BY <1>1, <1>2, <1>3, FS_Union

(* The slices of ExpenseChart add up to the outgoings of its window.       *)
LEMMA SlicesAddUp ==
  ASSUME ReportsInv, NEW range
  PROVE  Total(ExpenseChart(range)) = Pengeluaran(Between(RangeWindow(range, today)))
<1>. DEFINE all == Between(RangeWindow(range, today))
            lines == {l \in all : ledger[l].expense # -1}
            rest == all \ lines
            label == [l \in lines |-> ledger[l].type]
            P == {ledger[l].type : l \in lines}
            chart == ExpenseChart(range)
<1>1. all \in SUBSET Entries  BY DEF Between, Entries
<1>2. /\ lines \in SUBSET Entries /\ rest \in SUBSET Entries
      /\ lines \cup rest = all /\ lines \cap rest = {}
  BY <1>1
<1>3. \A l \in rest : l \in Entries /\ ledger[l].expense = -1  BY <1>1
<1>4. IsFiniteSet(P)
  <2>1. P \in SUBSET Activity  BY <1>2, EntryTypes
  <2>. HIDE DEF P
  <2>. QED  BY <2>1, ActivityFinite, FS_Subset
<1>5. chart = [p \in P |-> Pengeluaran({l \in lines : label[l] = p})]
  <2>1. \A p : OfType(lines, {p}) = {l \in lines : label[l] = p}  BY DEF OfType
  <2>. HIDE DEF label
  <2>. QED  BY <2>1 DEF ExpenseChart
<1>6. \A l \in lines : label[l] \in P  OBVIOUS
<1>. HIDE DEF all, lines, rest, label, P, chart
<1>7. \A p \in P : chart[p] = Sum(Spent, {l \in lines : label[l] = p})
  <2>. SUFFICES ASSUME NEW p \in P PROVE chart[p] = Sum(Spent, {l \in lines : label[l] = p})
    OBVIOUS
  <2>1. {l \in lines : label[l] = p} \in SUBSET Entries  BY <1>2
  <2>2. chart[p] = Pengeluaran({l \in lines : label[l] = p})  BY <1>5
  <2>. QED  BY <2>1, <2>2, MoneyIsSum
<1>8. DOMAIN chart = P  BY <1>5
<1>9. IsFiniteSet(lines) /\ IsFiniteSet(rest)  BY <1>2, MoneyIsSum
<1>10. \A l \in lines : Spent[l] \in Int  BY <1>2, EntryTypes
<1>11. Total(chart) = Sum(Spent, lines)
  BY <1>4, <1>6, <1>7, <1>8, <1>9, <1>10, ChartAddsUp
<1>12. Sum(Spent, rest) = 0
  <2>1. \A l \in rest : Spent[l] = 0  BY <1>3, EntryTypes
  <2>. QED  BY <1>9, <2>1, SumZero
<1>13. Pengeluaran(lines \cup rest) = Pengeluaran(lines) + Pengeluaran(rest)
  BY <1>2, MoneySplits
<1>14. /\ Pengeluaran(lines) = Sum(Spent, lines) /\ Pengeluaran(lines) \in Int
       /\ Pengeluaran(rest) = Sum(Spent, rest)
  BY <1>2, MoneyIsSum
<1>15. Total(chart) = Pengeluaran(all)
  <2>1. Pengeluaran(all) = Pengeluaran(lines \cup rest)  BY <1>2
  <2>2. Pengeluaran(rest) = 0  BY <1>12, <1>14
  <2>. QED  BY <1>11, <1>13, <1>14, <2>1, <2>2
<1>. QED  BY <1>15 DEF all, chart

(* FinancialSummary, IncomeExpenseTotals, ExpenseChart: for any number of  *)
(* entries of any dates the panel, the bars and the slices tell the same.  *)
THEOREM PanelsAgree == ReportsSpec => []PanelAgreesWithCharts
<1>1. ReportsInv => PanelAgreesWithCharts
  <2>. SUFFICES ASSUME ReportsInv, NEW range \in RangeName
                PROVE  LET panel == FinancialSummary(range)
                           whole == SummaryWindows(range, today).current
                           until == RangeWindow(range, today)
                           ahead == {l \in Between(whole) :
                                       ~InWindow(ledger[l], until) /\ ledger[l].day >= today}
                           expense == panel.purchase + panel.maintenance + panel.project
                           slices == ExpenseChart(range)
                       IN /\ panel.income = panel.distribusi + panel.penjualan
                          /\ panel.profit = panel.income - expense
                          /\ expense = Total(slices) + Pengeluaran(ahead)
                          /\ \A period \in AllowedPeriods(range) :
                               LET total == IncomeExpenseTotals(period, range)
                               IN /\ panel.income = total.income + Pemasukan(ahead)
                                  /\ expense = total.expense + Pengeluaran(ahead)
    BY DEF PanelAgreesWithCharts
  <2>. DEFINE panel == FinancialSummary(range)
              whole == SummaryWindows(range, today).current
              until == RangeWindow(range, today)
              lines == Between(whole)
              shown == Between(until)
              ahead == {l \in lines : ~InWindow(ledger[l], until) /\ ledger[l].day >= today}
              D == OfType(lines, {"distribusi"})
              J == OfType(lines, {"penjualan"})
              B == OfType(lines, {"pembelian"})
              M == OfType(lines, {"maintenance"})
  <2>1. /\ panel.income = Pemasukan(lines)
        /\ panel.distribusi = Pemasukan(D) /\ panel.penjualan = Pemasukan(J)
        /\ panel.purchase = Pengeluaran(B) /\ panel.maintenance = Pengeluaran(M)
        /\ panel.project = Pengeluaran(OfType(lines, {"distribusi", "penjualan"}))
        /\ panel.profit = Pemasukan(lines) - Pengeluaran(lines)
    BY DEF FinancialSummary
  <2>2. OfType(lines, {"distribusi", "penjualan"}) = D \cup J  BY DEF OfType
  <2>3. lines \in SUBSET Entries /\ shown \in SUBSET Entries  BY DEF Between, Entries
  <2>4. lines = (D \cup J) \cup (B \cup M)
    <3>1. \A l \in lines : ledger[l].type \in Activity  BY <2>3, EntryTypes
    <3>. QED  BY <3>1 DEF OfType, Activity
  <2>5. D \cap J = {} /\ B \cap M = {} /\ (D \cup J) \cap (B \cup M) = {}
    BY DEF OfType
  <2>6. /\ \A l \in B : ledger[l].type = "pembelian"
        /\ \A l \in M : ledger[l].type = "maintenance"
    BY DEF OfType
  <2>7. lines = shown \cup ahead /\ shown \cap ahead = {}
    <3>1. today \in Day /\ today \in Int  BY DayIsKnown DEF ReportsInv, ReportsTypeOK
    <3>2. /\ until.start \in Int /\ until.end \in Int /\ until.start <= until.end
          /\ until.start = whole.start /\ whole.end \in Int /\ until.end <= whole.end
          /\ range = "LAST_YEAR" => until = whole
          /\ range # "LAST_YEAR" => until.end = today
      BY <3>1, RangeWindowIs
    <3>. HIDE DEF until, whole
    <3>3. \A l \in Entries : ledger[l].day \in Int /\ ledger[l].late \in BOOLEAN
      BY EntryTypes DEF Lapkeu
    <3>4. \A l \in Entries : InWindow(ledger[l], until) => InWindow(ledger[l], whole)
      BY <3>2, <3>3 DEF InWindow
    <3>5. \A l \in Entries : InWindow(ledger[l], whole) /\ ~InWindow(ledger[l], until)
                               => ledger[l].day >= today
      BY <3>1, <3>2, <3>3 DEF InWindow
    <3>. QED  BY <2>3, <3>4, <3>5 DEF Between, Entries
  <2>. HIDE DEF panel, whole, until, lines, shown, D, J, B, M
  <2>8. D \in SUBSET Entries /\ J \in SUBSET Entries /\ B \in SUBSET Entries /\ M \in SUBSET Entries
        /\ D \cup J \in SUBSET Entries /\ B \cup M \in SUBSET Entries
    BY <2>3, <2>4
  <2>9. Pemasukan(B) = 0 /\ Pemasukan(M) = 0
    <3>1. \A l \in B : Earned[l] = 0  BY <2>6, <2>8, EntryTypes
    <3>2. \A l \in M : Earned[l] = 0  BY <2>6, <2>8, EntryTypes
    <3>3. IsFiniteSet(B) /\ IsFiniteSet(M)  BY <2>8, MoneyIsSum
    <3>4. Sum(Earned, B) = 0 /\ Sum(Earned, M) = 0  BY <3>1, <3>2, <3>3, SumZero
    <3>. QED  BY <2>8, <3>4, MoneyIsSum
  <2>10. /\ Pemasukan(D \cup J) = Pemasukan(D) + Pemasukan(J)
         /\ Pengeluaran(D \cup J) = Pengeluaran(D) + Pengeluaran(J)
    BY <2>5, <2>8, MoneySplits
  <2>11. /\ Pemasukan(B \cup M) = Pemasukan(B) + Pemasukan(M)
         /\ Pengeluaran(B \cup M) = Pengeluaran(B) + Pengeluaran(M)
    BY <2>5, <2>8, MoneySplits
  <2>12. /\ Pemasukan(lines) = Pemasukan(D \cup J) + Pemasukan(B \cup M)
         /\ Pengeluaran(lines) = Pengeluaran(D \cup J) + Pengeluaran(B \cup M)
    <3>. DEFINE X == D \cup J
                Y == B \cup M
    <3>1. X \in SUBSET Entries /\ Y \in SUBSET Entries /\ X \cap Y = {} /\ lines = X \cup Y
      BY <2>4, <2>5, <2>8
    <3>. HIDE DEF X, Y
    <3>2. /\ Pemasukan(X \cup Y) = Pemasukan(X) + Pemasukan(Y)
          /\ Pengeluaran(X \cup Y) = Pengeluaran(X) + Pengeluaran(Y)
      BY <3>1, MoneySplits
    <3>. QED  BY <3>1, <3>2 DEF X, Y
  <2>13. /\ Pemasukan(lines) = Pemasukan(shown) + Pemasukan(ahead)
         /\ Pengeluaran(lines) = Pengeluaran(shown) + Pengeluaran(ahead)
    <3>1. ahead \in SUBSET Entries  BY <2>3
    <3>. HIDE DEF ahead
    <3>. QED  BY <2>3, <2>7, <3>1, MoneySplits
  <2>14. /\ Pemasukan(D) \in Int /\ Pemasukan(J) \in Int /\ Pemasukan(lines) \in Int
         /\ Pengeluaran(D) \in Int /\ Pengeluaran(J) \in Int
         /\ Pengeluaran(B) \in Int /\ Pengeluaran(M) \in Int
    BY <2>3, <2>8, MoneyIsSum
  <2>. DEFINE expense == panel.purchase + panel.maintenance + panel.project
  <2>15. expense = Pengeluaran(lines)
    <3>1. panel.project = Pengeluaran(D) + Pengeluaran(J)  BY <2>1, <2>2, <2>10
    <3>2. expense = Pengeluaran(B) + Pengeluaran(M) + (Pengeluaran(D) + Pengeluaran(J))
      BY <2>1, <3>1
    <3>. HIDE DEF expense
    <3>. QED  BY <2>10, <2>11, <2>12, <2>14, <3>2
  <2>16. panel.income = panel.distribusi + panel.penjualan
    BY <2>1, <2>9, <2>10, <2>11, <2>12, <2>14
  <2>17. Total(ExpenseChart(range)) = Pengeluaran(shown)
    BY SlicesAddUp DEF shown, until
  <2>18. \A period \in AllowedPeriods(range) :
           /\ IncomeExpenseTotals(period, range).income = Pemasukan(shown)
           /\ IncomeExpenseTotals(period, range).expense = Pengeluaran(shown)
    BY ChartTotals DEF shown, until
  <2>. HIDE DEF expense, ahead
  <2>19. /\ panel.income = panel.distribusi + panel.penjualan
         /\ panel.profit = panel.income - expense
         /\ expense = Total(ExpenseChart(range)) + Pengeluaran(ahead)
         /\ \A period \in AllowedPeriods(range) :
              /\ panel.income = IncomeExpenseTotals(period, range).income + Pemasukan(ahead)
              /\ expense = IncomeExpenseTotals(period, range).expense + Pengeluaran(ahead)
    BY <2>1, <2>13, <2>15, <2>16, <2>17, <2>18
  <2>. QED  BY <2>19 DEF panel, whole, until, lines, expense, ahead
<1>. QED  BY <1>1, ReportsSound, PTL
==============================================================================
