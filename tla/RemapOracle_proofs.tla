------------------------- MODULE RemapOracle_proofs -------------------------
(***************************************************************************)
(* The plan of a bulk edit and its oracle renumber the rows of a table     *)
(* that survive or are staged, without gaps and without collisions, for    *)
(* every size, every number of staged rows and every set of removals.      *)
(***************************************************************************)
EXTENDS RemapOracle, FiniteSetTheorems, FunctionTheorems, TLAPS

(***************************************************************************)
(* Ranks in a finite set of integers.                                      *)
(***************************************************************************)
\* The number of elements below x is the number of a place of the sorted array.
LEMMA RankType ==
  ASSUME NEW S \in SUBSET Int, IsFiniteSet(S), NEW x \in Int
  PROVE  /\ Rank(x, S) \in 0 .. Cardinality(S)
         /\ x \in S => Rank(x, S) < Cardinality(S)
<1> DEFINE B == {y \in S : y < x}
<1>1. B \subseteq S
  OBVIOUS
<1>2. IsFiniteSet(B) /\ Cardinality(B) <= Cardinality(S) /\ Cardinality(B) \in Nat
      /\ Cardinality(S) \in Nat
  BY <1>1, FS_Subset, FS_CardinalityType
<1>3. x \in S => Cardinality(B) < Cardinality(S)
  <2> SUFFICES ASSUME x \in S PROVE Cardinality(B) # Cardinality(S)
    BY <1>2
  <2>1. x \notin B
    OBVIOUS
  <2> QED
    BY <1>1, <2>1, FS_Subset
<1> QED
  BY <1>2, <1>3 DEF Rank

\* Ranks grow with the elements.
LEMMA RankMonotonic ==
  ASSUME NEW S \in SUBSET Int, IsFiniteSet(S), NEW x \in S, NEW y \in S, x < y
  PROVE  Rank(x, S) < Rank(y, S)
<1> DEFINE B == {z \in S : z < x}
           C == {z \in S : z < y}
<1>1. IsFiniteSet(B) /\ IsFiniteSet(C) /\ Cardinality(B) \in Nat /\ Cardinality(C) \in Nat
  <2>1. B \in SUBSET S /\ C \in SUBSET S
    OBVIOUS
  <2> QED
    BY <2>1, FS_Subset, FS_CardinalityType
<1>2. B \subseteq C /\ x \in C /\ x \notin B
  <2>1. x \in Int /\ y \in Int
    OBVIOUS
  <2>2. ASSUME NEW z \in B PROVE z \in C
    <3>1. z \in Int /\ z \in S /\ z < x
      OBVIOUS
    <3>2. z < y
      BY <2>1, <3>1
    <3> QED
      BY <3>1, <3>2
  <2>3. x \notin B
    BY <2>1
  <2>4. x \in C
    OBVIOUS
  <2> HIDE DEF B, C
  <2> QED
    BY <2>2, <2>3, <2>4
<1>3. Cardinality(B) <= Cardinality(C) /\ Cardinality(B) # Cardinality(C)
  BY <1>1, <1>2, FS_Subset
<1> QED
  BY <1>1, <1>3 DEF Rank

\* Different elements have different ranks.
LEMMA RankInjective ==
  ASSUME NEW S \in SUBSET Int, IsFiniteSet(S), NEW x \in S, NEW y \in S,
         Rank(x, S) = Rank(y, S)
  PROVE  x = y
<1>1. x \in Int /\ y \in Int
  OBVIOUS
<1>2. Rank(x, S) \in 0 .. Cardinality(S)
  BY <1>1, RankType
<1>3. ~(x < y)
  BY <1>2, RankMonotonic
<1>4. ~(y < x)
  BY <1>2, RankMonotonic
<1> QED
  BY <1>1, <1>3, <1>4

\* Every place of the sorted array is the rank of an element.
LEMMA RankOnto ==
  ASSUME NEW S \in SUBSET Int, IsFiniteSet(S), NEW k \in 0 .. Cardinality(S) - 1
  PROVE  \E x \in S : Rank(x, S) = k
<1> DEFINE n == Cardinality(S)
           f == [x \in S |-> Rank(x, S)]
<1>1. n \in Nat
  BY FS_CardinalityType
<1>2. f \in [S -> 0 .. n - 1]
  <2> SUFFICES ASSUME NEW x \in S PROVE Rank(x, S) \in 0 .. n - 1
    OBVIOUS
  <2>1. x \in Int
    OBVIOUS
  <2> QED
    BY <1>1, <2>1, RankType
<1>3. \A a, b \in S : f[a] = f[b] => a = b
  BY RankInjective
<1>4. f \in Injection(S, 0 .. n - 1)
  <2> HIDE DEF f
  <2> QED
    BY <1>2, <1>3, Fun_IsInj
<1>5. IsFiniteSet(0 .. n - 1) /\ Cardinality(0 .. n - 1) = n
  <2>1. 0 \in Int /\ n - 1 \in Int
    BY <1>1
  <2>2. /\ IsFiniteSet(0 .. n - 1)
        /\ Cardinality(0 .. n - 1) = IF 0 > n - 1 THEN 0 ELSE (n - 1) - 0 + 1
    <3> HIDE DEF n
    <3> QED
      BY <2>1, FS_Interval
  <2> QED
    BY <1>1, <2>2
<1>6. f \in Surjection(S, 0 .. n - 1)
  <2> HIDE DEF f
  <2> QED
    BY <1>4, <1>5, FS_Injection
<1>7. \E x \in S : f[x] = k
  <2> HIDE DEF f
  <2> QED
    BY <1>6 DEF Surjection
<1> QED
  BY <1>7

\* Nth picks the element at a place.
LEMMA NthProperties ==
  ASSUME NEW S \in SUBSET Int, IsFiniteSet(S), NEW k \in 0 .. Cardinality(S) - 1
  PROVE  Nth(k, S) \in S /\ Rank(Nth(k, S), S) = k
BY RankOnto DEF Nth

\* The elements below, the element and those above are all there are.
LEMMA RankFromTopValue ==
  ASSUME NEW S \in SUBSET Int, IsFiniteSet(S), NEW x \in S
  PROVE  RankFromTop(x, S) = Cardinality(S) - 1 - Rank(x, S)
<1> DEFINE B == {y \in S : y < x}
           A == {y \in S : y > x}
<1>1. IsFiniteSet(A) /\ IsFiniteSet(B)
  <2>1. A \in SUBSET S /\ B \in SUBSET S
    OBVIOUS
  <2> QED
    BY <2>1, FS_Subset
<1>2. Cardinality(A) \in Nat /\ Cardinality(B) \in Nat
  BY <1>1, FS_CardinalityType
<1>3. IsFiniteSet(B \cup {x}) /\ Cardinality(B \cup {x}) = Cardinality(B) + 1
  <2>1. x \notin B
    <3>1. x \in Int
      OBVIOUS
    <3> QED
      BY <3>1
  <2> HIDE DEF B
  <2> QED
    BY <1>1, <2>1, FS_AddElement
<1>4. S = (B \cup {x}) \cup A /\ (B \cup {x}) \cap A = {}
  <2>1. \A y \in S : y \in Int
    OBVIOUS
  <2>2. x \in Int
    OBVIOUS
  <2>3. \A y \in S : y \in B \/ y = x \/ y \in A
    BY <2>1, <2>2
  <2>4. \A y \in A : y \notin B /\ y # x
    BY <2>1, <2>2
  <2>5. A \subseteq S /\ B \subseteq S
    OBVIOUS
  <2> HIDE DEF A, B
  <2> QED
    BY <2>3, <2>4, <2>5
<1>5. Cardinality(S) = Cardinality(B) + 1 + Cardinality(A)
  <2>1. Cardinality((B \cup {x}) \cap A) = 0
    BY <1>4, FS_EmptySet
  <2>2. Cardinality((B \cup {x}) \cup A) = Cardinality(B \cup {x}) + Cardinality(A)
                                            - Cardinality((B \cup {x}) \cap A)
    <3> HIDE DEF A, B
    <3> QED
      BY <1>1, <1>3, FS_Union
  <2> HIDE DEF A, B
  <2> QED
    BY <1>2, <1>3, <1>4, <2>1, <2>2
<1>6. Rank(x, S) = Cardinality(B) /\ RankFromTop(x, S) = Cardinality(A)
  BY DEF Rank, RankFromTop
<1> QED
  BY <1>2, <1>5, <1>6

\* No more elements of S are above x than fit between x and the end.
LEMMA RankFromTopBound ==
  ASSUME NEW size \in Nat, NEW S \in SUBSET (0 .. size - 1), NEW x \in S
  PROVE  RankFromTop(x, S) <= size - 1 - x
<1> DEFINE A == {y \in S : y > x}
<1>1. x \in 0 .. size - 1
  OBVIOUS
<1>2. A \in SUBSET ((x + 1) .. (size - 1))
  <2> SUFFICES ASSUME NEW y \in A PROVE y \in (x + 1) .. (size - 1)
    OBVIOUS
  <2>1. y \in 0 .. size - 1 /\ y > x
    OBVIOUS
  <2> QED
    BY <1>1, <2>1
<1>3. IsFiniteSet((x + 1) .. (size - 1))
      /\ Cardinality((x + 1) .. (size - 1)) = size - 1 - x
  <2>1. x + 1 \in Int /\ size - 1 \in Int
    BY <1>1
  <2>2. Cardinality((x + 1) .. (size - 1)) =
          IF x + 1 > size - 1 THEN 0 ELSE (size - 1) - (x + 1) + 1
    BY <2>1, FS_Interval
  <2> QED
    BY <1>1, <2>1, <2>2, FS_Interval
<1>4. Cardinality(A) <= size - 1 - x
  <2> DEFINE I == (x + 1) .. (size - 1)
  <2>1. IsFiniteSet(I) /\ Cardinality(I) = size - 1 - x
    BY <1>3
  <2>2. A \in SUBSET I
    BY <1>2
  <2> HIDE DEF A, I
  <2>3. Cardinality(A) <= Cardinality(I)
    BY <2>1, <2>2, FS_Subset
  <2> QED
    BY <2>1, <2>3
<1> QED
  BY <1>4 DEF RankFromTop

\* As many elements have rank k or more as there are places from k on.
LEMMA UpperRanks ==
  ASSUME NEW S \in SUBSET Int, IsFiniteSet(S), NEW k \in 0 .. Cardinality(S)
  PROVE  /\ IsFiniteSet({x \in S : Rank(x, S) >= k})
         /\ Cardinality({x \in S : Rank(x, S) >= k}) = Cardinality(S) - k
<1> DEFINE n == Cardinality(S)
           H == {x \in S : Rank(x, S) >= k}
           f == [x \in H |-> Rank(x, S)]
<1>1. n \in Nat
  BY FS_CardinalityType
<1>2. IsFiniteSet(H)
  <2>1. H \in SUBSET S
    OBVIOUS
  <2> QED
    BY <2>1, FS_Subset
<1>3. f \in [H -> k .. n - 1]
  <2> SUFFICES ASSUME NEW x \in H PROVE Rank(x, S) \in k .. n - 1
    OBVIOUS
  <2>1. x \in Int /\ x \in S /\ Rank(x, S) >= k
    OBVIOUS
  <2>2. Rank(x, S) \in 0 .. n /\ Rank(x, S) < n
    BY <2>1, RankType
  <2> QED
    BY <1>1, <2>1, <2>2
<1>4. \A a, b \in H : f[a] = f[b] => a = b
  BY RankInjective
<1>5. f \in Injection(H, k .. n - 1)
  <2> HIDE DEF f, H
  <2> QED
    BY <1>3, <1>4, Fun_IsInj
<1>6. \A i \in k .. n - 1 : \E x \in H : f[x] = i
  <2> SUFFICES ASSUME NEW i \in k .. n - 1 PROVE \E x \in H : f[x] = i
    OBVIOUS
  <2>1. i \in 0 .. n - 1 /\ i >= k
    BY <1>1
  <2>2. PICK x \in S : Rank(x, S) = i
    BY <2>1, RankOnto
  <2>3. x \in H
    BY <2>1, <2>2
  <2> QED
    BY <2>2, <2>3
<1>7. f \in Surjection(H, k .. n - 1)
  <2> HIDE DEF f, H
  <2> QED
    BY <1>3, <1>6, Fun_IsSurj
<1>8. IsFiniteSet(k .. n - 1) /\ Cardinality(k .. n - 1) = n - k
  <2>1. k \in Int /\ n - 1 \in Int
    BY <1>1
  <2>2. /\ IsFiniteSet(k .. n - 1)
        /\ Cardinality(k .. n - 1) = IF k > n - 1 THEN 0 ELSE (n - 1) - k + 1
    <3> HIDE DEF n
    <3> QED
      BY <2>1, FS_Interval
  <2> QED
    BY <1>1, <2>2
<1>9. Cardinality(H) = Cardinality(k .. n - 1)
  <2> HIDE DEF f, H, n
  <2> QED
    BY <1>5, <1>7, <1>8, FS_Injection
<1> QED
  BY <1>2, <1>8, <1>9

(***************************************************************************)
(* Induction and recursion over 0 .. n, which the proofs about recursive   *)
(* functions use: a fact is a set of numbers, a step is a function.        *)
(***************************************************************************)
\* Induction up to n, over the set P of the numbers a fact holds for.
LEMMA InductionUpTo ==
  ASSUME NEW n \in Nat, NEW P, 0 \in P, \A k \in 1 .. n : k - 1 \in P => k \in P
  PROVE  \A k \in 0 .. n : k \in P
<1> DEFINE T == {k \in 0 .. n : k \notin P}
<1> SUFFICES ASSUME T # {} PROVE FALSE
  OBVIOUS
<1>1. T \in SUBSET Int /\ IsFiniteSet(T)
  <2>1. 0 \in Int /\ n \in Int
    OBVIOUS
  <2>2. IsFiniteSet(0 .. n) /\ (0 .. n) \in SUBSET Int
    BY <2>1, FS_Interval
  <2>3. T \in SUBSET (0 .. n)
    OBVIOUS
  <2>4. IsFiniteSet(T)
    <3> HIDE DEF T
    <3> QED
      BY <2>2, <2>3, FS_Subset
  <2> HIDE DEF T
  <2> QED
    BY <2>2, <2>3, <2>4
<1>2. Cardinality(T) \in Nat /\ Cardinality(T) # 0
  <2> HIDE DEF T
  <2> QED
    BY <1>1, FS_CardinalityType, FS_EmptySet
<1>3. PICK x \in T : Rank(x, T) = 0
  <2> HIDE DEF T
  <2>1. 0 \in 0 .. Cardinality(T) - 1
    BY <1>2
  <2> QED
    BY <1>1, <2>1, RankOnto
<1>4. x - 1 \notin T
  <2> SUFFICES ASSUME x - 1 \in T PROVE FALSE
    OBVIOUS
  <2>1. x - 1 < x
    OBVIOUS
  <2> HIDE DEF T
  <2>2. Rank(x - 1, T) < 0
    BY <1>1, <1>3, <2>1, RankMonotonic
  <2>3. Rank(x - 1, T) \in 0 .. Cardinality(T)
    BY <1>1, RankType
  <2> QED
    BY <1>2, <2>2, <2>3
<1>5. x \in 1 .. n /\ x - 1 \in 0 .. n
  OBVIOUS
<1> QED
  BY <1>4, <1>5

\* step says for each k what follows a value of S in the kth place.
IsStep(step, n, S) == step \in [1 .. n -> [S -> S]]

\* The values v[0], ..., v[n] of S begin with a and follow each other by step.
Follows(v, n, S, a, step) ==
  /\ v \in [0 .. n -> S]
  /\ v[0] = a
  /\ \A k \in 1 .. n : v[k] = step[k][v[k - 1]]

\* A recursive definition over 0 .. n has a solution.
LEMMA RecursionUpTo ==
  ASSUME NEW n \in Nat, NEW S, NEW a \in S, NEW step, IsStep(step, n, S)
  PROVE  \E v : Follows(v, n, S, a, step)
<1> DEFINE P == {m \in 0 .. n : \E v : Follows(v, m, S, a, step)}
<1>1. 0 \in P
  <2>1. Follows([k \in 0 .. 0 |-> a], 0, S, a, step)
    BY DEF Follows
  <2>2. 0 \in 0 .. n
    OBVIOUS
  <2> QED
    BY <2>1, <2>2
<1>2. ASSUME NEW m \in 1 .. n, m - 1 \in P PROVE m \in P
  <2>1. PICK v : Follows(v, m - 1, S, a, step)
    BY <1>2
  <2> DEFINE x == step[m][v[m - 1]]
             w == [k \in 0 .. m |-> IF k = m THEN x ELSE v[k]]
  <2>2. /\ v \in [0 .. m - 1 -> S] /\ v[0] = a
        /\ \A k \in 1 .. m - 1 : v[k] = step[k][v[k - 1]]
    BY <2>1 DEF Follows
  <2>3. x \in S
    <3>1. m - 1 \in 0 .. m - 1
      OBVIOUS
    <3>2. v[m - 1] \in S /\ step[m] \in [S -> S]
      BY <2>2, <3>1 DEF IsStep
    <3> QED
      BY <3>2
  <2>4. w \in [0 .. m -> S]
    <3> SUFFICES ASSUME NEW k \in 0 .. m PROVE (IF k = m THEN x ELSE v[k]) \in S
      OBVIOUS
    <3>1. k # m => k \in 0 .. m - 1
      OBVIOUS
    <3> HIDE DEF x
    <3> QED
      BY <2>2, <2>3, <3>1
  <2>5. w[0] = a
    BY <2>2
  <2>6. ASSUME NEW k \in 1 .. m PROVE w[k] = step[k][w[k - 1]]
    <3>1. w[k - 1] = v[k - 1]
      BY <2>6
    <3>2. CASE k = m
      <4>1. w[k] = step[m][v[m - 1]]
        BY <3>2
      <4>2. w[k - 1] = v[m - 1]
        BY <3>1, <3>2
      <4> HIDE DEF w
      <4> QED
        BY <3>2, <4>1, <4>2
    <3>3. CASE k # m
      <4>1. k \in 1 .. m - 1 /\ w[k] = v[k]
        BY <3>3
      <4> QED
        BY <2>2, <3>1, <4>1
    <3> QED
      BY <3>2, <3>3
  <2>7. Follows(w, m, S, a, step)
    <3> HIDE DEF w
    <3> QED
      BY <2>4, <2>5, <2>6 DEF Follows
  <2>8. m \in 0 .. n
    OBVIOUS
  <2> HIDE DEF w
  <2> QED
    BY <2>7, <2>8
<1>3. \A m \in 0 .. n : m \in P
  <2> HIDE DEF P
  <2> QED
    BY <1>1, <1>2, InductionUpTo
<1>4. n \in P
  BY <1>3
<1> QED
  BY <1>4

(***************************************************************************)
(* The plan.                                                               *)
(***************************************************************************)
\* Removals that are valid and non-negative are taken as they are.
LEMMA NormalizeValid ==
  ASSUME NEW n \in Nat, NEW removals \in SUBSET (0 .. n - 1)
  PROVE  Normalize(n, removals) = removals
<1>1. \A r \in removals : r \in 0 .. n - 1 /\ ~(r < 0)
  OBVIOUS
<1>2. {IF r < 0 THEN r + n ELSE r : r \in removals} = removals
  BY <1>1
<1> QED
  BY <1>1, <1>2 DEF Normalize

\* Sizes.
LEMMA PlanSizes ==
  ASSUME NEW size \in Nat, NEW nAdd \in Nat, NEW removals \in SUBSET (0 .. size - 1)
  PROVE  /\ removals \in SUBSET Int /\ IsFiniteSet(removals)
         /\ Cardinality(removals) \in 0 .. size
         /\ Replacements(nAdd, removals) \in 0 .. nAdd
         /\ Replacements(nAdd, removals) <= Cardinality(removals)
         /\ Replacements(nAdd, removals) = nAdd
              \/ Replacements(nAdd, removals) = Cardinality(removals)
         /\ PlanSize(size, nAdd, removals) = size + nAdd - Cardinality(removals)
         /\ PlanSize(size, nAdd, removals) \in Nat
<1>1. IsFiniteSet(0 .. size - 1) /\ Cardinality(0 .. size - 1) = size
  <2>1. 0 \in Int /\ size - 1 \in Int
    OBVIOUS
  <2>2. /\ IsFiniteSet(0 .. size - 1)
        /\ Cardinality(0 .. size - 1) = IF 0 > size - 1 THEN 0 ELSE (size - 1) - 0 + 1
    BY <2>1, FS_Interval
  <2> QED
    BY <2>2
<1>2. IsFiniteSet(removals) /\ Cardinality(removals) <= size
  BY <1>1, FS_Subset
<1>3. Cardinality(removals) \in Nat
  BY <1>2, FS_CardinalityType
<1>4. removals \in SUBSET Int
  OBVIOUS
<1> QED
  BY <1>2, <1>3, <1>4 DEF Replacements, PlanSize

\* The holes that staged rows fill are below the new end of the table.
LEMMA FilledHolesAreLow ==
  ASSUME NEW size \in Nat, NEW nAdd \in Nat, NEW removals \in SUBSET (0 .. size - 1),
         NEW r \in removals, Rank(r, removals) < Replacements(nAdd, removals)
  PROVE  r < PlanSize(size, nAdd, removals)
<1>1. r \in 0 .. size - 1 /\ Rank(r, removals) \in Nat
  <2>1. r \in 0 .. size - 1
    OBVIOUS
  <2>2. Rank(r, removals) \in 0 .. Cardinality(removals)
    BY <2>1, PlanSizes, RankType
  <2>3. Cardinality(removals) \in 0 .. size
    BY PlanSizes
  <2> QED
    BY <2>1, <2>2, <2>3
<1>2. RankFromTop(r, removals) = Cardinality(removals) - 1 - Rank(r, removals)
  BY PlanSizes, RankFromTopValue
<1>3. RankFromTop(r, removals) <= size - 1 - r
  BY RankFromTopBound
<1>4. /\ Cardinality(removals) \in 0 .. size
      /\ Replacements(nAdd, removals) \in 0 .. nAdd
      /\ PlanSize(size, nAdd, removals) = size + nAdd - Cardinality(removals)
  BY PlanSizes
<1> QED
  BY <1>1, <1>2, <1>3, <1>4

\* There are as many rows to move as holes to move them to.
LEMMA TailFitsHoles ==
  ASSUME NEW size \in Nat, NEW nAdd \in Nat, NEW removals \in SUBSET (0 .. size - 1)
  PROVE  /\ IsFiniteSet(TailSurvivors(size, nAdd, removals))
         /\ IsFiniteSet(OpenHoles(size, nAdd, removals))
         /\ Cardinality(TailSurvivors(size, nAdd, removals))
              = Cardinality(OpenHoles(size, nAdd, removals))
<1> DEFINE N == PlanSize(size, nAdd, removals)
           m == Cardinality(removals)
           tail == TailSurvivors(size, nAdd, removals)
           holes == OpenHoles(size, nAdd, removals)
<1>1. /\ removals \in SUBSET Int /\ IsFiniteSet(removals) /\ m \in 0 .. size
      /\ N = size + nAdd - m /\ N \in Nat
      /\ Replacements(nAdd, removals) \in 0 .. nAdd
  BY PlanSizes
<1>2. CASE nAdd >= m
  <2>1. tail = {}
    BY <1>1, <1>2 DEF TailSurvivors
  <2>2. holes = {}
    <3> SUFFICES ASSUME NEW r \in holes PROVE FALSE
      OBVIOUS
    <3>1. r \in removals /\ r \in Int /\ Rank(r, removals) >= Replacements(nAdd, removals)
      BY <1>1 DEF OpenHoles
    <3>2. Replacements(nAdd, removals) = m
      BY <1>1, <1>2 DEF Replacements
    <3>3. Rank(r, removals) \in 0 .. m /\ Rank(r, removals) < m
      BY <1>1, <3>1, RankType
    <3> QED
      BY <1>1, <3>1, <3>2, <3>3
  <2> QED
    BY <2>1, <2>2, FS_EmptySet
<1>3. CASE nAdd < m
  <2> DEFINE H == {r \in removals : Rank(r, removals) >= nAdd}
             beyond == {r \in removals : r >= N}
  <2>1. Replacements(nAdd, removals) = nAdd
    BY <1>1, <1>3 DEF Replacements
  <2>2. IsFiniteSet(H) /\ Cardinality(H) = m - nAdd
    <3>1. nAdd \in 0 .. Cardinality(removals)
      BY <1>1, <1>3
    <3> QED
      BY <1>1, <3>1, UpperRanks
  <2>3. beyond \subseteq H
    <3> SUFFICES ASSUME NEW r \in beyond PROVE Rank(r, removals) >= nAdd
      OBVIOUS
    <3>1. r \in removals /\ r >= N /\ r \in Int
      BY <1>1
    <3>2. Rank(r, removals) \in 0 .. m
      BY <1>1, <3>1, RankType
    <3>3. ~(Rank(r, removals) < nAdd)
      BY <1>1, <2>1, <3>1, FilledHolesAreLow
    <3> QED
      BY <1>1, <3>2, <3>3
  <2>4. holes = H \ beyond
    <3>1. \A r \in removals : r \in Int
      BY <1>1
    <3>2. holes = {r \in removals : Rank(r, removals) >= nAdd /\ r < N}
      BY <2>1 DEF OpenHoles
    <3>3. \A r \in removals : r < N <=> r \notin beyond
      BY <1>1, <3>1
    <3> HIDE DEF beyond, holes, N
    <3> QED
      BY <3>2, <3>3
  <2>5. tail = (N .. size - 1) \ beyond
    <3>1. tail = {i \in N .. size - 1 : i \notin removals}
      BY DEF TailSurvivors
    <3>2. \A i \in N .. size - 1 : i \in removals <=> i \in beyond
      BY <1>1
    <3> QED
      BY <3>1, <3>2
  <2>6. beyond \subseteq N .. size - 1
    <3> SUFFICES ASSUME NEW r \in beyond PROVE r \in N .. size - 1
      OBVIOUS
    <3>1. r \in 0 .. size - 1 /\ r >= N
      OBVIOUS
    <3> QED
      BY <1>1, <3>1
  <2>7. IsFiniteSet(N .. size - 1) /\ Cardinality(N .. size - 1) = m - nAdd
    <3>1. N \in Int /\ size - 1 \in Int
      BY <1>1
    <3>2. /\ IsFiniteSet(N .. size - 1)
          /\ Cardinality(N .. size - 1) = IF N > size - 1 THEN 0 ELSE (size - 1) - N + 1
      <4> HIDE DEF N
      <4> QED
        BY <3>1, FS_Interval
    <3> QED
      BY <1>1, <1>3, <3>2
  <2>8. IsFiniteSet(holes) /\ Cardinality(holes) = m - nAdd - Cardinality(beyond)
    <3>1. H \cap beyond = beyond
      BY <2>3
    <3>2. /\ IsFiniteSet(H \ beyond)
          /\ Cardinality(H \ beyond) = Cardinality(H) - Cardinality(H \cap beyond)
      <4> HIDE DEF H, beyond
      <4> QED
        BY <2>2, FS_Difference
    <3> HIDE DEF H, beyond, holes, m
    <3> QED
      BY <2>2, <2>4, <3>1, <3>2
  <2>9. IsFiniteSet(tail) /\ Cardinality(tail) = m - nAdd - Cardinality(beyond)
    <3> DEFINE end == N .. size - 1
    <3>1. end \cap beyond = beyond
      BY <2>6
    <3>2. /\ IsFiniteSet(end \ beyond)
          /\ Cardinality(end \ beyond) = Cardinality(end) - Cardinality(end \cap beyond)
      <4> HIDE DEF end, beyond
      <4> QED
        BY <2>7, FS_Difference DEF end
    <3>3. tail = end \ beyond /\ Cardinality(end) = m - nAdd
      BY <2>5, <2>7
    <3> HIDE DEF beyond, tail, end, m
    <3> QED
      BY <3>1, <3>2, <3>3
  <2> QED
    BY <2>8, <2>9
<1> QED
  BY <1>1, <1>2, <1>3

\* Every row beyond the new end moves into an open hole of its own.
LEMMA MovesIntoHoles ==
  ASSUME NEW size \in Nat, NEW nAdd \in Nat, NEW removals \in SUBSET (0 .. size - 1),
         NEW i \in TailSurvivors(size, nAdd, removals)
  PROVE  /\ Moves(size, nAdd, removals)[i] \in OpenHoles(size, nAdd, removals)
         /\ \A j \in TailSurvivors(size, nAdd, removals) :
              Moves(size, nAdd, removals)[i] = Moves(size, nAdd, removals)[j] => i = j
<1> DEFINE tail == TailSurvivors(size, nAdd, removals)
           holes == OpenHoles(size, nAdd, removals)
           c == Cardinality(tail)
<1>1. /\ IsFiniteSet(tail) /\ IsFiniteSet(holes)
      /\ Cardinality(holes) = c /\ c \in Nat
  BY TailFitsHoles, FS_CardinalityType
<1>2. tail \in SUBSET Int /\ holes \in SUBSET Int
  <2>1. PlanSize(size, nAdd, removals) \in Nat /\ removals \in SUBSET Int
    BY PlanSizes
  <2>2. tail \subseteq PlanSize(size, nAdd, removals) .. size - 1
    BY DEF TailSurvivors
  <2>3. holes \subseteq removals
    BY DEF OpenHoles
  <2> HIDE DEF tail, holes
  <2> QED
    BY <2>1, <2>2, <2>3
<1>3. \A x \in tail : /\ RankFromTop(x, tail) = c - 1 - Rank(x, tail)
                      /\ Rank(x, tail) \in 0 .. c /\ Rank(x, tail) < c
  <2> HIDE DEF tail
  <2> SUFFICES ASSUME NEW x \in tail
               PROVE /\ RankFromTop(x, tail) = c - 1 - Rank(x, tail)
                     /\ Rank(x, tail) \in 0 .. c /\ Rank(x, tail) < c
    OBVIOUS
  <2>1. x \in Int
    BY <1>2
  <2> QED
    BY <1>1, <1>2, <2>1, RankFromTopValue, RankType
<1>4. \A x \in tail : RankFromTop(x, tail) \in 0 .. Cardinality(holes) - 1
  <2> HIDE DEF tail, holes
  <2> QED
    BY <1>1, <1>3
<1>5. \A x \in tail : /\ Nth(RankFromTop(x, tail), holes) \in holes
                      /\ Rank(Nth(RankFromTop(x, tail), holes), holes) = RankFromTop(x, tail)
  <2> HIDE DEF tail, holes
  <2> QED
    BY <1>1, <1>2, <1>4, NthProperties
<1>6. \A x \in tail : Moves(size, nAdd, removals)[x] = Nth(RankFromTop(x, tail), holes)
  BY DEF Moves
<1>7. \A x, y \in tail : Nth(RankFromTop(x, tail), holes) = Nth(RankFromTop(y, tail), holes)
                           => x = y
  <2> HIDE DEF tail, holes
  <2> SUFFICES ASSUME NEW x \in tail, NEW y \in tail,
                      Nth(RankFromTop(x, tail), holes) = Nth(RankFromTop(y, tail), holes)
               PROVE x = y
    OBVIOUS
  <2>1. RankFromTop(x, tail) = RankFromTop(y, tail)
    BY <1>5
  <2>2. Rank(x, tail) = Rank(y, tail)
    BY <1>1, <1>3, <2>1
  <2> QED
    BY <1>1, <1>2, <2>2, RankInjective
<1> QED
  BY <1>5, <1>6, <1>7

(***************************************************************************)
(* The oracle.                                                             *)
(***************************************************************************)
\* Where each kind of live id goes: a staged row into a hole or to the end, a
\* row of the tail into a hole that staged rows leave open, any other row
\* nowhere.
LEMMA ResolveCases ==
  ASSUME NEW size \in Nat, NEW nAdd \in Nat, NEW removals \in SUBSET (0 .. size - 1),
         size + nAdd <= Missing, NEW i \in Live(size, nAdd, removals)
  PROVE  LET o == Oracle(size, nAdd, removals)
             n == Replacements(nAdd, removals)
         IN  \/ /\ i \in size .. size + n - 1
                /\ Resolve(o, i) \in removals /\ Rank(Resolve(o, i), removals) = i - size
             \/ /\ i \in size + n .. size + nAdd - 1 /\ n = Cardinality(removals)
                /\ Resolve(o, i) = i - n
             \/ /\ i \in TailSurvivors(size, nAdd, removals)
                /\ Resolve(o, i) = Moves(size, nAdd, removals)[i]
             \/ /\ i \in 0 .. size - 1 /\ i < PlanSize(size, nAdd, removals)
                /\ i \notin removals /\ Resolve(o, i) = i
<1> DEFINE o == Oracle(size, nAdd, removals)
           n == Replacements(nAdd, removals)
           N == PlanSize(size, nAdd, removals)
<1>1. /\ removals \in SUBSET Int /\ IsFiniteSet(removals)
      /\ Cardinality(removals) \in 0 .. size
      /\ n \in 0 .. nAdd /\ n <= Cardinality(removals)
      /\ n = nAdd \/ n = Cardinality(removals)
      /\ N = size + nAdd - Cardinality(removals) /\ N \in Nat
  BY PlanSizes
<1>2. i \in 0 .. size + nAdd - 1 /\ i \notin removals
  BY DEF Live
<1>3. i # Missing
  BY <1>2, MissingIsNat
<1>4. /\ o.start = size /\ o.deletions = removals
      /\ o.dest = AdditionDest(size, nAdd, removals)
      /\ o.moves = Moves(size, nAdd, removals)
  BY DEF Oracle
<1> HIDE DEF o, n, N
<1>5. CASE i >= size
  <2>1. i - size \in 0 .. nAdd - 1
    BY <1>2, <1>5
  <2>2. Resolve(o, i) = AdditionDest(size, nAdd, removals)[i - size]
    <3>1. DOMAIN o.dest = 0 .. nAdd - 1
      BY <1>4 DEF AdditionDest
    <3> QED
      BY <1>3, <1>4, <1>5, <2>1, <3>1 DEF Resolve
  <2>3. CASE i - size < n
    <3>1. Resolve(o, i) = Nth(i - size, removals)
      BY <2>1, <2>2, <2>3 DEF AdditionDest, n
    <3>2. i - size \in 0 .. Cardinality(removals) - 1
      BY <1>1, <2>1, <2>3
    <3>3. Nth(i - size, removals) \in removals
          /\ Rank(Nth(i - size, removals), removals) = i - size
      BY <1>1, <3>2, NthProperties
    <3> QED
      BY <1>1, <1>2, <1>5, <2>3, <3>1, <3>3 DEF o, n
  <2>4. CASE ~(i - size < n)
    <3>1. Resolve(o, i) = size + ((i - size) - n)
      BY <2>1, <2>2, <2>4 DEF AdditionDest, n
    <3>2. n = Cardinality(removals) /\ Resolve(o, i) = i - n
      BY <1>1, <1>2, <2>1, <2>4, <3>1
    <3> QED
      BY <1>1, <1>2, <1>5, <2>4, <3>2 DEF o, n
  <2> QED
    BY <2>3, <2>4
<1>6. CASE i < size
  <2>1. DOMAIN o.moves = TailSurvivors(size, nAdd, removals)
    BY <1>4 DEF Moves
  <2>2. CASE i \in TailSurvivors(size, nAdd, removals)
    <3>1. Resolve(o, i) = Moves(size, nAdd, removals)[i]
      BY <1>2, <1>3, <1>4, <1>6, <2>1, <2>2 DEF Resolve
    <3> QED
      BY <2>2, <3>1 DEF o
  <2>3. CASE i \notin TailSurvivors(size, nAdd, removals)
    <3>1. Resolve(o, i) = i
      BY <1>2, <1>3, <1>4, <1>6, <2>1, <2>3 DEF Resolve
    <3>2. i < PlanSize(size, nAdd, removals) /\ i \in 0 .. size - 1
      BY <1>1, <1>2, <1>6, <2>3 DEF TailSurvivors, N
    <3> QED
      BY <1>2, <3>1, <3>2 DEF o
  <2> QED
    BY <2>2, <2>3
<1> QED
  BY <1>2, <1>5, <1>6

\* As many ids are live as the table will have rows.
LEMMA LiveCount ==
  ASSUME NEW size \in Nat, NEW nAdd \in Nat, NEW removals \in SUBSET (0 .. size - 1)
  PROVE  /\ IsFiniteSet(Live(size, nAdd, removals))
         /\ Cardinality(Live(size, nAdd, removals)) = PlanSize(size, nAdd, removals)
<1> DEFINE ids == 0 .. size + nAdd - 1
<1>1. IsFiniteSet(ids) /\ Cardinality(ids) = size + nAdd
  <2>1. 0 \in Int /\ size + nAdd - 1 \in Int
    OBVIOUS
  <2>2. /\ IsFiniteSet(ids)
        /\ Cardinality(ids) = IF 0 > size + nAdd - 1 THEN 0 ELSE (size + nAdd - 1) - 0 + 1
    BY <2>1, FS_Interval
  <2> QED
    BY <2>2
<1>2. ids \cap removals = removals
  <2>1. \A r \in removals : r \in 0 .. size - 1
    OBVIOUS
  <2>2. \A r \in removals : r \in ids
    BY <2>1
  <2> QED
    BY <2>2
<1>3. /\ IsFiniteSet(ids \ removals)
      /\ Cardinality(ids \ removals) = Cardinality(ids) - Cardinality(ids \cap removals)
  <2> HIDE DEF ids
  <2> QED
    BY <1>1, FS_Difference
<1>4. /\ PlanSize(size, nAdd, removals) = size + nAdd - Cardinality(removals)
      /\ Cardinality(removals) \in Int
  BY PlanSizes
<1>5. Live(size, nAdd, removals) = ids \ removals
  BY DEF Live
<1> HIDE DEF ids
<1> QED
  BY <1>1, <1>2, <1>3, <1>4, <1>5

\* RemapOracle renumbers the live rows without gaps or collisions: the answer
\* oracle_resolve gives for an id is an index of the new table that it gives
\* for no other id, and no index of the new table is left out.
THEOREM OracleRenumbers ==
  ASSUME NEW size \in Nat, NEW nAdd \in Nat, NEW removals \in SUBSET (0 .. size - 1),
         size + nAdd <= Missing
  PROVE  Renumbers(size, nAdd, removals)
<1> DEFINE o == Oracle(size, nAdd, removals)
           n == Replacements(nAdd, removals)
           N == PlanSize(size, nAdd, removals)
           live == Live(size, nAdd, removals)
           tail == TailSurvivors(size, nAdd, removals)
           moves == Moves(size, nAdd, removals)
<1>1. /\ removals \in SUBSET Int /\ IsFiniteSet(removals)
      /\ Cardinality(removals) \in 0 .. size
      /\ n \in 0 .. nAdd /\ n <= Cardinality(removals)
      /\ N = size + nAdd - Cardinality(removals) /\ N \in Nat
  BY PlanSizes
<1>2. \A r \in removals : /\ r \in Int /\ 0 <= r /\ r < size
                           /\ Rank(r, removals) \in Int
  <2> SUFFICES ASSUME NEW r \in removals
               PROVE  /\ r \in Int /\ 0 <= r /\ r < size
                      /\ Rank(r, removals) \in Int
    OBVIOUS
  <2>1. r \in 0 .. size - 1
    OBVIOUS
  <2>2. Rank(r, removals) \in 0 .. Cardinality(removals)
    BY <1>1, <2>1, RankType
  <2> QED
    BY <1>1, <2>1, <2>2
<1>3. o.newSize = N
  BY DEF Oracle
<1>4. \A i \in tail : /\ moves[i] \in removals /\ moves[i] < N
                      /\ Rank(moves[i], removals) >= n
                      /\ \A j \in tail : moves[i] = moves[j] => i = j
  <2> SUFFICES ASSUME NEW i \in tail
               PROVE /\ moves[i] \in removals /\ moves[i] < N
                     /\ Rank(moves[i], removals) >= n
                     /\ \A j \in tail : moves[i] = moves[j] => i = j
    OBVIOUS
  <2>1. moves[i] \in OpenHoles(size, nAdd, removals)
    BY MovesIntoHoles
  <2>2. \A j \in tail : moves[i] = moves[j] => i = j
    BY MovesIntoHoles
  <2> QED
    BY <2>1, <2>2 DEF OpenHoles
<1>5. \A i \in live :
        \/ /\ i \in size .. size + n - 1
           /\ Resolve(o, i) \in removals /\ Rank(Resolve(o, i), removals) = i - size
        \/ /\ i \in size + n .. size + nAdd - 1 /\ n = Cardinality(removals)
           /\ Resolve(o, i) = i - n
        \/ i \in tail /\ Resolve(o, i) = moves[i]
        \/ /\ i \in 0 .. size - 1 /\ i < N
           /\ i \notin removals /\ Resolve(o, i) = i
  BY ResolveCases
<1>6. \A r \in removals : Rank(r, removals) < n => r < N
  BY FilledHolesAreLow
<1>7. \A i \in removals : Resolve(o, i) = Missing
  <2> SUFFICES ASSUME NEW i \in removals PROVE Resolve(o, i) = Missing
    OBVIOUS
  <2>1. i \in 0 .. size - 1 /\ o.start = size /\ o.deletions = removals
    <3>1. i \in 0 .. size - 1
      OBVIOUS
    <3> QED
      BY <3>1 DEF Oracle
  <2> HIDE DEF o
  <2> QED
    BY <2>1, MissingIsNat DEF Resolve
<1> HIDE DEF o, n, N, live, tail, moves
<1>8. \A i \in live : Resolve(o, i) \in 0 .. N - 1
  <2> SUFFICES ASSUME NEW i \in live PROVE Resolve(o, i) \in 0 .. N - 1
    OBVIOUS
  <2>1. CASE /\ i \in size .. size + n - 1
             /\ Resolve(o, i) \in removals /\ Rank(Resolve(o, i), removals) = i - size
    <3>1. Rank(Resolve(o, i), removals) < n
      BY <1>1, <2>1
    <3>2. /\ Resolve(o, i) < N /\ Resolve(o, i) \in Int /\ 0 <= Resolve(o, i)
      BY <1>2, <1>6, <2>1, <3>1
    <3> QED
      BY <1>1, <3>2
  <2>2. CASE /\ i \in size + n .. size + nAdd - 1 /\ n = Cardinality(removals)
             /\ Resolve(o, i) = i - n
    BY <1>1, <2>2
  <2>3. CASE i \in tail /\ Resolve(o, i) = moves[i]
    <3>1. /\ Resolve(o, i) < N /\ Resolve(o, i) \in Int /\ 0 <= Resolve(o, i)
      BY <1>2, <1>4, <2>3
    <3> QED
      BY <1>1, <3>1
  <2>4. CASE /\ i \in 0 .. size - 1 /\ i < N
             /\ i \notin removals /\ Resolve(o, i) = i
    BY <1>1, <2>4
  <2> QED
    BY <1>5, <2>1, <2>2, <2>3, <2>4
<1>9. \A i, j \in live : Resolve(o, i) = Resolve(o, j) => i = j
  <2> SUFFICES ASSUME NEW i \in live, NEW j \in live, Resolve(o, i) = Resolve(o, j)
               PROVE i = j
    OBVIOUS
  <2> DEFINE x == Resolve(o, i)
  <2>0. x = Resolve(o, j)
    OBVIOUS
  <2> HIDE DEF x
  <2>5. \/ j \in size .. size + n - 1 /\ x \in removals /\ Rank(x, removals) = j - size
        \/ j \in size + n .. size + nAdd - 1 /\ n = Cardinality(removals) /\ x = j - n
        \/ j \in tail /\ x = moves[j]
        \/ j \in 0 .. size - 1 /\ j < N /\ j \notin removals /\ x = j
    BY <1>5, <2>0
  <2>6. x \in removals => x \in Int /\ 0 <= x /\ x < size /\ Rank(x, removals) \in Int
    BY <1>2
  <2>7. j \in tail /\ x = moves[j] => x \in removals /\ Rank(x, removals) >= n
    BY <1>4
  <2>1. CASE /\ i \in size .. size + n - 1 /\ x \in removals /\ Rank(x, removals) = i - size
    <3>1. Rank(x, removals) < n /\ x < size
      BY <1>1, <1>2, <2>1
    <3>2. /\ j \in size .. size + n - 1 /\ Rank(x, removals) = j - size
      BY <1>1, <2>1, <2>5, <2>6, <2>7, <3>1
    <3> QED
      BY <1>1, <2>1, <3>2
  <2>2. CASE i \in size + n .. size + nAdd - 1 /\ n = Cardinality(removals) /\ x = i - n
    <3>1. x >= size
      BY <1>1, <2>2
    <3>2. j \in size + n .. size + nAdd - 1 /\ x = j - n
      BY <1>1, <2>2, <2>5, <2>6, <2>7, <3>1
    <3> QED
      BY <1>1, <2>2, <3>2
  <2>3. CASE i \in tail /\ x = moves[i]
    <3>1. x \in removals /\ Rank(x, removals) >= n /\ x \in Int /\ x < size
      BY <1>1, <1>2, <1>4, <2>3
    <3>2. Rank(x, removals) \in Int
      BY <1>2, <3>1
    <3>3. j \in tail /\ x = moves[j]
      BY <1>1, <2>5, <2>6, <3>1, <3>2
    <3> QED
      BY <1>4, <2>3, <3>3
  <2>4. CASE i \in 0 .. size - 1 /\ i \notin removals /\ x = i
    <3>1. j \in 0 .. size - 1 /\ x = j
      <4>1. x \notin removals /\ x < size /\ x \in Int
        BY <2>4
      <4> QED
        BY <1>1, <2>5, <2>7, <4>1
    <3> QED
      BY <2>4, <3>1
  <2> QED
    BY <1>5, <2>1, <2>2, <2>3, <2>4 DEF x
<1>10. \A p \in 0 .. N - 1 : \E i \in live : Resolve(o, i) = p
  <2> DEFINE f == [i \in live |-> Resolve(o, i)]
  <2>1. f \in [live -> 0 .. N - 1]
    BY <1>8
  <2>2. \A a, b \in live : f[a] = f[b] => a = b
    BY <1>9
  <2>3. f \in Injection(live, 0 .. N - 1)
    <3> HIDE DEF f
    <3> QED
      BY <2>1, <2>2, Fun_IsInj
  <2>4. IsFiniteSet(0 .. N - 1) /\ Cardinality(0 .. N - 1) = N
    <3>1. 0 \in Int /\ N - 1 \in Int
      BY <1>1
    <3>2. /\ IsFiniteSet(0 .. N - 1)
          /\ Cardinality(0 .. N - 1) = IF 0 > N - 1 THEN 0 ELSE (N - 1) - 0 + 1
      BY <3>1, FS_Interval
    <3> QED
      BY <1>1, <3>2
  <2>5. Cardinality(live) = N
    BY LiveCount DEF live, N
  <2>6. f \in Surjection(live, 0 .. N - 1)
    <3> HIDE DEF f
    <3> QED
      BY <2>3, <2>4, <2>5, FS_Injection
  <2>7. \A p \in 0 .. N - 1 : \E i \in live : f[i] = p
    <3> HIDE DEF f
    <3> QED
      BY <2>6 DEF Surjection
  <2> QED
    BY <2>7
<1> QED
  BY <1>3, <1>7, <1>8, <1>9, <1>10 DEF Renumbers, o, live, N

\* The oracle by the parts of it that a commit reads: what an entry of the
\* destinations and of the moves is of, and what is nowhere in them.
LEMMA Destinations ==
  ASSUME NEW size \in Nat, NEW nAdd \in Nat, NEW removals \in SUBSET (0 .. size - 1),
         size + nAdd <= Missing
  PROVE  LET o == Oracle(size, nAdd, removals)
             live == Live(size, nAdd, removals)
         IN  /\ o.start = size
             /\ o.newSize \in Nat /\ o.newSize <= size + nAdd
             /\ DOMAIN o.dest = 0 .. nAdd - 1
             /\ \A k \in 0 .. nAdd - 1 : size + k \in live /\ o.dest[k] = Resolve(o, size + k)
             /\ \A i \in DOMAIN o.moves :
                  i \in live /\ i < size /\ o.moves[i] = Resolve(o, i)
             /\ \A i \in live : i < size /\ i \notin DOMAIN o.moves => Resolve(o, i) = i
             /\ Resolve(o, size + nAdd) = Missing
<1> DEFINE o == Oracle(size, nAdd, removals)
           live == Live(size, nAdd, removals)
           dest == AdditionDest(size, nAdd, removals)
           tail == TailSurvivors(size, nAdd, removals)
           N == PlanSize(size, nAdd, removals)
<1>1. /\ o.start = size /\ o.deletions = removals /\ o.newSize = N
      /\ o.dest = dest /\ DOMAIN o.dest = 0 .. nAdd - 1
      /\ DOMAIN o.moves = tail
  BY DEF Oracle, AdditionDest, Moves
<1>2. N \in Nat /\ N <= size + nAdd
  <2>1. /\ N \in Nat /\ Cardinality(removals) \in 0 .. size
        /\ N = size + nAdd - Cardinality(removals)
    BY PlanSizes
  <2> HIDE DEF N
  <2> QED
    BY <2>1
<1>3. \A i \in tail : i \in N .. size - 1 /\ i \notin removals
  BY DEF TailSurvivors
<1>4. \A i : i \in live <=> i \in 0 .. size + nAdd - 1 /\ i \notin removals
  BY DEF Live
<1> HIDE DEF o, live, tail, N, dest
<1>5. ASSUME NEW k \in 0 .. nAdd - 1
      PROVE  size + k \in live /\ o.dest[k] = Resolve(o, size + k)
  <2> DEFINE i == size + k
  <2>1. i \in 0 .. size + nAdd - 1 /\ i \notin 0 .. size - 1 /\ i >= size /\ i - size = k
        /\ i < size + nAdd
    OBVIOUS
  <2>2. i # Missing
    BY <2>1, MissingIsNat
  <2> HIDE DEF i
  <2>3. i \in live
    BY <1>4, <2>1
  <2>4. Resolve(o, i) = o.dest[k]
    BY <1>1, <2>1, <2>2 DEF Resolve
  <2> QED
    BY <2>3, <2>4 DEF i
<1>6. ASSUME NEW i \in 0 .. size - 1, i \notin removals
      PROVE  Resolve(o, i) = IF i \in tail THEN o.moves[i] ELSE i
  <2>1. i # Missing /\ ~(i >= size)
    BY MissingIsNat
  <2> QED
    BY <1>1, <1>6, <2>1 DEF Resolve
<1>7. ASSUME NEW i \in tail
      PROVE  i \in live /\ i < size /\ o.moves[i] = Resolve(o, i)
  <2>1. i \in N .. size - 1 /\ i \notin removals
    BY <1>3
  <2>2. i \in 0 .. size - 1 /\ i \in 0 .. size + nAdd - 1
    BY <1>2, <2>1
  <2> QED
    BY <1>4, <1>6, <2>1, <2>2
<1>8. ASSUME NEW i \in live, i < size, i \notin tail PROVE Resolve(o, i) = i
  <2>1. i \in 0 .. size - 1 /\ i \notin removals
    BY <1>4, <1>8
  <2> QED
    BY <1>6, <1>8, <2>1
<1>9. Resolve(o, size + nAdd) = Missing
  <2>1. size + nAdd >= size /\ (size + nAdd) - size \notin 0 .. nAdd - 1
    OBVIOUS
  <2> QED
    BY <1>1, <2>1 DEF Resolve
<1> QED
  BY <1>1, <1>2, <1>5, <1>7, <1>8, <1>9 DEF o, live
=============================================================================
