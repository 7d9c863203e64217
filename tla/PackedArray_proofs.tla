------------------------- MODULE PackedArray_proofs -------------------------
(***************************************************************************)
(* Bulk edits and the arrays they change.                                  *)
(*                                                                         *)
(* First the arrays of the bulk edit plan, which say what the sets of      *)
(* RemapOracle say: for every size, every number of staged rows and every  *)
(* set of removals, oracle_resolve searching the arrays that               *)
(* plan_bulk_edit computed with its backward scan answers what the oracle  *)
(* on sets answers.                                                        *)
(*                                                                         *)
(* Then invariants of PackedArray for every capacity, every value set and  *)
(* every bound: the cached view is never stale, and the time stamp tells   *)
(* of every change.  Both rest on the number of rows being a natural       *)
(* number, which of all operations only the bulk edits put at risk.  Last  *)
(* the buffer, which is typed as long as no caller outgrows it, and the    *)
(* oracle, which finds every row in it.                                    *)
(***************************************************************************)
EXTENDS PackedArray, RemapOracle_proofs, SequenceTheorems

(***************************************************************************)
(* Sorted arrays.                                                          *)
(***************************************************************************)
\* The array s holds the elements of S in ascending order.
Ascends(s, S) ==
  /\ s \in Seq(S)
  /\ Len(s) = Cardinality(S)
  /\ \A k \in 1 .. Len(s) : Rank(s[k], S) = k - 1

\* The array s holds the elements of S in descending order.
Descends(s, S) ==
  /\ s \in Seq(S)
  /\ Len(s) = Cardinality(S)
  /\ \A k \in 1 .. Len(s) : RankFromTop(s[k], S) = k - 1

\* The sorted array of a set of integers has its elements, in order.
LEMMA SortedAscends ==
  ASSUME NEW S \in SUBSET Int, IsFiniteSet(S)
  PROVE  Ascends(Sorted(S), S)
<1> DEFINE n == Cardinality(S)
<1>1. n \in Nat
  BY FS_CardinalityType
<1>2. \A k \in 1 .. n : Nth(k - 1, S) \in S /\ Rank(Nth(k - 1, S), S) = k - 1
  <2> SUFFICES ASSUME NEW k \in 1 .. n
               PROVE Nth(k - 1, S) \in S /\ Rank(Nth(k - 1, S), S) = k - 1
    OBVIOUS
  <2>1. k - 1 \in 0 .. n - 1
    BY <1>1
  <2> QED
    BY <2>1, NthProperties
<1>3. Sorted(S) = [k \in 1 .. n |-> Nth(k - 1, S)]
  BY DEF Sorted
<1> HIDE DEF n
<1>4. Sorted(S) \in Seq(S) /\ Len(Sorted(S)) = n
  BY <1>1, <1>2, <1>3
<1> QED
  BY <1>1, <1>2, <1>3, <1>4 DEF Ascends, n

\* The element of rank k is the k+1st entry.
LEMMA EntryOfRank ==
  ASSUME NEW S \in SUBSET Int, IsFiniteSet(S), NEW s, Ascends(s, S), NEW x \in S
  PROVE  /\ Rank(x, S) + 1 \in 1 .. Len(s)
         /\ s[Rank(x, S) + 1] = x
<1>1. Rank(x, S) \in 0 .. Cardinality(S) /\ Rank(x, S) < Cardinality(S)
      /\ Cardinality(S) \in Nat
  BY RankType, FS_CardinalityType
<1>2. Rank(x, S) + 1 \in 1 .. Len(s)
  BY <1>1 DEF Ascends
<1>3. s[Rank(x, S) + 1] \in S
  BY <1>2, ElementOfSeq DEF Ascends
<1>4. Rank(s[Rank(x, S) + 1], S) = Rank(x, S)
  BY <1>1, <1>2 DEF Ascends
<1> QED
  BY <1>2, <1>3, <1>4, RankInjective

\* Binary search in a sorted array finds the rank of what it looks for.
LEMMA SearchFindsRank ==
  ASSUME NEW S \in SUBSET Int, IsFiniteSet(S), NEW s, Ascends(s, S), NEW x \in Int
  PROVE  SearchSorted(s, x) = Rank(x, S)
<1> DEFINE K == {k \in DOMAIN s : s[k] < x}
           B == {y \in S : y < x}
           f == [k \in K |-> s[k]]
<1>1. /\ DOMAIN s = 1 .. Len(s) /\ Len(s) \in Nat
      /\ \A k \in 1 .. Len(s) : s[k] \in S
  BY LenProperties DEF Ascends
<1>2. IsFiniteSet(B)
  <2>1. B \in SUBSET S
    OBVIOUS
  <2> QED
    BY <2>1, FS_Subset
<1>3. f \in [K -> B]
  BY <1>1
<1>4. \A j, k \in K : f[j] = f[k] => j = k
  <2> SUFFICES ASSUME NEW j \in K, NEW k \in K, f[j] = f[k] PROVE j = k
    OBVIOUS
  <2>1. s[j] = s[k] /\ j \in 1 .. Len(s) /\ k \in 1 .. Len(s)
    BY <1>1
  <2>2. Rank(s[j], S) = j - 1 /\ Rank(s[k], S) = k - 1
    BY <2>1 DEF Ascends
  <2> QED
    BY <2>1, <2>2
<1>5. \A y \in B : \E k \in K : f[k] = y
  <2> SUFFICES ASSUME NEW y \in B PROVE \E k \in K : f[k] = y
    OBVIOUS
  <2>1. Rank(y, S) + 1 \in 1 .. Len(s) /\ s[Rank(y, S) + 1] = y
    BY EntryOfRank
  <2>2. Rank(y, S) + 1 \in K
    BY <1>1, <2>1
  <2> QED
    BY <2>1, <2>2
<1>6. f \in Bijection(K, B)
  <2> HIDE DEF f, K, B
  <2> QED
    BY <1>3, <1>4, <1>5, Fun_IsBij
<1>7. Cardinality(K) = Cardinality(B)
  <2>1. f \in Injection(K, B) /\ f \in Surjection(K, B)
    <3> HIDE DEF f, K, B
    <3> QED
      BY <1>6 DEF Bijection
  <2> HIDE DEF f, K, B
  <2> QED
    BY <1>2, <2>1, FS_Injection
<1> QED
  BY <1>7 DEF SearchSorted, Rank

\* So it finds the elements, and nothing else.
LEMMA SearchFinds ==
  ASSUME NEW S \in SUBSET Int, IsFiniteSet(S), NEW s, Ascends(s, S), NEW x \in Int
  PROVE  Found(s, x) <=> x \in S
<1>1. SearchSorted(s, x) = Rank(x, S)
  BY SearchFindsRank
<1>2. Rank(x, S) \in 0 .. Cardinality(S) /\ Cardinality(S) \in Nat
      /\ Len(s) = Cardinality(S)
  BY RankType, FS_CardinalityType DEF Ascends
<1>3. x \in S => Found(s, x)
  <2>1. x \in S => Rank(x, S) + 1 \in 1 .. Len(s) /\ s[Rank(x, S) + 1] = x
    BY EntryOfRank
  <2> QED
    BY <1>1, <1>2, <2>1 DEF Found
<1>4. Found(s, x) => x \in S
  <2> SUFFICES ASSUME Found(s, x) PROVE x \in S
    OBVIOUS
  <2>1. Rank(x, S) + 1 \in 1 .. Len(s) /\ s[Rank(x, S) + 1] = x
    BY <1>1, <1>2 DEF Found
  <2>2. s[Rank(x, S) + 1] \in S
    BY <2>1, ElementOfSeq DEF Ascends
  <2> QED
    BY <2>1, <2>2
<1> QED
  BY <1>3, <1>4

\* A descending array reversed is ascending.
LEMMA ReversedAscends ==
  ASSUME NEW S \in SUBSET Int, IsFiniteSet(S), NEW s, Descends(s, S)
  PROVE  Ascends(Reversed(s), S)
<1> DEFINE n == Len(s)
<1>1. /\ DOMAIN s = 1 .. n /\ n \in Nat /\ n = Cardinality(S)
      /\ \A k \in 1 .. n : s[k] \in S
  BY LenProperties DEF Descends
<1>2. \A k \in 1 .. n : n + 1 - k \in 1 .. n /\ s[n + 1 - k] \in S
  BY <1>1
<1>3. Reversed(s) = [k \in 1 .. n |-> s[n + 1 - k]]
  BY <1>1 DEF Reversed
<1>4. \A k \in 1 .. n : Rank(s[n + 1 - k], S) = k - 1
  <2> SUFFICES ASSUME NEW k \in 1 .. n PROVE Rank(s[n + 1 - k], S) = k - 1
    OBVIOUS
  <2>1. s[n + 1 - k] \in S /\ s[n + 1 - k] \in Int
    BY <1>1, <1>2
  <2>2. RankFromTop(s[n + 1 - k], S) = n - k
    BY <1>1, <1>2 DEF Descends
  <2>3. Rank(s[n + 1 - k], S) \in 0 .. n
    BY <1>1, <2>1, RankType
  <2>4. RankFromTop(s[n + 1 - k], S) = n - 1 - Rank(s[n + 1 - k], S)
    BY <1>1, <2>1, RankFromTopValue
  <2> QED
    BY <1>1, <2>2, <2>3, <2>4
<1> HIDE DEF n
<1>5. Reversed(s) \in Seq(S) /\ Len(Reversed(s)) = n
  <2>1. Reversed(s) \in [1 .. n -> S] /\ n \in Nat
    BY <1>1, <1>2, <1>3
  <2> QED
    BY <2>1
<1> QED
  BY <1>1, <1>3, <1>4, <1>5 DEF Ascends

\* Ranks do not fall as the elements grow.
LEMMA RankWeaklyMonotonic ==
  ASSUME NEW S \in SUBSET Int, IsFiniteSet(S), NEW x \in Int, NEW y \in Int, x <= y
  PROVE  Rank(x, S) <= Rank(y, S)
<1> DEFINE B == {z \in S : z < x}
           C == {z \in S : z < y}
<1>1. B \in SUBSET C /\ C \in SUBSET S
  <2>1. \A z \in S : z \in Int
    OBVIOUS
  <2>2. \A z \in S : z < x => z < y
    BY <2>1
  <2> QED
    BY <2>2
<1>2. Cardinality(B) <= Cardinality(C)
  <2> HIDE DEF B, C
  <2>1. IsFiniteSet(C)
    BY <1>1, FS_Subset
  <2> QED
    BY <1>1, <2>1, FS_Subset
<1> QED
  BY <1>2 DEF Rank

\* What is above x has no say in the ranks up to x.
LEMMA RankBelow ==
  ASSUME NEW S \in SUBSET Int, NEW x \in Int, NEW y \in Int, y <= x
  PROVE  Rank(y, {z \in S : z < x}) = Rank(y, S)
<1>1. {z \in {w \in S : w < x} : z < y} = {z \in S : z < y}
  <2>1. \A z \in S : z \in Int
    OBVIOUS
  <2>2. \A z \in S : z < y => z < x
    BY <2>1
  <2> QED
    BY <2>2
<1> QED
  BY <1>1 DEF Rank

\* The entries below x are the first ones.
LEMMA PrefixAscends ==
  ASSUME NEW S \in SUBSET Int, IsFiniteSet(S), NEW s, Ascends(s, S), NEW x \in Int
  PROVE  Ascends(SubSeq(s, 1, Rank(x, S)), {y \in S : y < x})
<1> DEFINE L == {y \in S : y < x}
           r == Rank(x, S)
           p == SubSeq(s, 1, r)
<1>1. /\ r = Cardinality(L) /\ r \in 0 .. Cardinality(S) /\ Cardinality(S) \in Nat
      /\ Len(s) = Cardinality(S)
  BY RankType, FS_CardinalityType DEF Rank, Ascends
<1>2. \A k \in 1 .. r : s[k] \in L /\ Rank(s[k], S) = k - 1
  <2> SUFFICES ASSUME NEW k \in 1 .. r PROVE s[k] \in L /\ Rank(s[k], S) = k - 1
    OBVIOUS
  <2>1. k \in 1 .. Len(s)
    BY <1>1
  <2>2. s[k] \in S /\ Rank(s[k], S) = k - 1
    BY <2>1, ElementOfSeq DEF Ascends
  <2>3. s[k] \in Int
    BY <2>2
  <2>4. ~(x <= s[k])
    <3> SUFFICES ASSUME x <= s[k] PROVE FALSE
      OBVIOUS
    <3>1. r <= k - 1
      BY <2>2, <2>3, RankWeaklyMonotonic
    <3> HIDE DEF r
    <3> QED
      BY <1>1, <3>1
  <2>5. s[k] < x
    BY <2>3, <2>4
  <2> QED
    BY <2>2, <2>5
<1> HIDE DEF r, L
<1>3. p \in Seq(L) /\ Len(p) = r /\ \A k \in 1 .. r : p[k] = s[k]
  <2>1. 1 \in Int /\ r \in Int
    BY <1>1
  <2>2. /\ p \in Seq(L)
        /\ Len(p) = IF 1 <= r THEN r - 1 + 1 ELSE 0
        /\ \A k \in 1 .. r - 1 + 1 : p[k] = s[1 + k - 1]
    BY <1>2, <2>1, SubSeqProperties
  <2> HIDE DEF p
  <2> QED
    BY <1>1, <2>2
<1>4. \A k \in 1 .. r : Rank(p[k], L) = k - 1
  <2> SUFFICES ASSUME NEW k \in 1 .. r PROVE Rank(p[k], L) = k - 1
    OBVIOUS
  <2>1. p[k] = s[k] /\ s[k] \in Int /\ s[k] <= x
    <3>1. p[k] = s[k] /\ s[k] \in S /\ s[k] < x
      BY <1>2, <1>3 DEF L
    <3>2. s[k] \in Int
      BY <3>1
    <3>3. s[k] <= x
      BY <3>1, <3>2
    <3> HIDE DEF p
    <3> QED
      BY <3>1, <3>2, <3>3
  <2>2. Rank(s[k], L) = Rank(s[k], S)
    BY <2>1, RankBelow DEF L
  <2> QED
    BY <1>2, <2>1, <2>2
<1> HIDE DEF p
<1>5. Ascends(p, L)
  BY <1>1, <1>3, <1>4 DEF Ascends
<1> QED
  BY <1>5 DEF p, L, r

\* The entries from the k+1st on are those of rank k and more.
LEMMA SuffixAscends ==
  ASSUME NEW S \in SUBSET Int, IsFiniteSet(S), NEW s, Ascends(s, S), NEW k \in 0 .. Len(s)
  PROVE  Ascends(SubSeq(s, k + 1, Len(s)), {x \in S : Rank(x, S) >= k})
<1> DEFINE U == {x \in S : Rank(x, S) >= k}
           n == Len(s)
           p == SubSeq(s, k + 1, n)
<1>1. n = Cardinality(S) /\ n \in Nat
  BY FS_CardinalityType DEF Ascends
<1>2. Cardinality(U) = n - k
  BY <1>1, UpperRanks
<1>3. \A i \in k + 1 .. n : s[i] \in U /\ Rank(s[i], S) = i - 1
  <2> SUFFICES ASSUME NEW i \in k + 1 .. n PROVE s[i] \in U /\ Rank(s[i], S) = i - 1
    OBVIOUS
  <2>1. i \in 1 .. Len(s)
    BY <1>1
  <2>2. s[i] \in S /\ Rank(s[i], S) = i - 1
    BY <2>1, ElementOfSeq DEF Ascends
  <2> QED
    BY <1>1, <2>2
<1>4. \A z \in U : Rank(z, U) = Rank(z, S) - k
  <2> SUFFICES ASSUME NEW z \in U PROVE Rank(z, U) = Rank(z, S) - k
    OBVIOUS
  <2> DEFINE B == {y \in S : y < z}
  <2>1. z \in S /\ z \in Int /\ Rank(z, S) >= k /\ Rank(z, S) \in Nat
    <3>1. z \in S /\ z \in Int
      OBVIOUS
    <3>2. Rank(z, S) \in 0 .. Cardinality(S)
      BY <3>1, RankType
    <3> QED
      BY <3>1, <3>2, <1>1
  <2>2. B \in SUBSET Int /\ IsFiniteSet(B) /\ Cardinality(B) = Rank(z, S)
    <3>1. B \in SUBSET S
      OBVIOUS
    <3>2. IsFiniteSet(B)
      <4> HIDE DEF B
      <4> QED
        BY <3>1, FS_Subset
    <3> QED
      BY <3>1, <3>2 DEF Rank
  <2>3. k \in 0 .. Cardinality(B)
    <3> HIDE DEF B
    <3> QED
      BY <2>1, <2>2, <1>1
  <2>4. Cardinality({x \in B : Rank(x, B) >= k}) = Rank(z, S) - k
    <3> HIDE DEF B
    <3> QED
      BY <2>2, <2>3, UpperRanks
  <2>5. \A x \in B : Rank(x, B) = Rank(x, S)
    <3> SUFFICES ASSUME NEW x \in B PROVE Rank(x, B) = Rank(x, S)
      OBVIOUS
    <3>1. x \in Int /\ x <= z
      BY <2>1
    <3> QED
      BY <2>1, <3>1, RankBelow
  <2>6. {x \in B : Rank(x, B) >= k} = {y \in U : y < z}
    <3>1. \A y : y \in B <=> y \in S /\ y < z
      OBVIOUS
    <3>2. \A y : y \in U <=> y \in S /\ Rank(y, S) >= k
      OBVIOUS
    <3> HIDE DEF U, B
    <3> QED
      BY <2>5, <3>1, <3>2
  <2> QED
    BY <2>4, <2>6 DEF Rank
<1> HIDE DEF U, n
<1>5. /\ p \in Seq(U) /\ Len(p) = n - k
      /\ \A i \in 1 .. n - k : p[i] = s[k + i]
  <2>1. k + 1 \in Int /\ n \in Int
    BY <1>1
  <2>2. /\ p \in Seq(U)
        /\ Len(p) = IF k + 1 <= n THEN n - (k + 1) + 1 ELSE 0
        /\ \A i \in 1 .. n - (k + 1) + 1 : p[i] = s[k + 1 + i - 1]
    BY <1>3, <2>1, SubSeqProperties
  <2> HIDE DEF p
  <2> QED
    BY <1>1, <2>2 DEF n
<1>6. \A i \in 1 .. n - k : Rank(p[i], U) = i - 1
  <2> SUFFICES ASSUME NEW i \in 1 .. n - k PROVE Rank(p[i], U) = i - 1
    OBVIOUS
  <2>1. p[i] = s[k + i] /\ k + i \in k + 1 .. n
    BY <1>1, <1>5
  <2> QED
    BY <1>1, <1>3, <1>4, <2>1
<1> HIDE DEF p
<1>7. Ascends(p, U)
  BY <1>2, <1>5, <1>6 DEF Ascends
<1> QED
  BY <1>7 DEF p, U, n

(***************************************************************************)
(* The backward scan.                                                      *)
(***************************************************************************)
\* The state of the scan after k steps.
ScanStart(voids) == [voidPtr |-> Len(voids), from |-> <<>>]

\* One step: a void at the end is skipped, any other row is one to move.
ScanStep(rows, voids, s, k) ==
  IF s.voidPtr > 0 /\ voids[s.voidPtr] = rows - k
    THEN [s EXCEPT !.voidPtr = @ - 1]
    ELSE [s EXCEPT !.from = Append(@, rows - k)]

\* ScanTail is the last of a sequence of states that follow from each other.
LEMMA ScanIsRecursive ==
  ASSUME NEW rows \in Nat, NEW newSize \in 0 .. rows, NEW voids \in Seq(Int)
  PROVE  \E v : /\ v[0] = ScanStart(voids)
                /\ \A k \in 1 .. rows - newSize : v[k] = ScanStep(rows, voids, v[k - 1], k)
                /\ ScanTail(rows, newSize, voids) = v[rows - newSize].from
<1> DEFINE n == rows - newSize
           S == [voidPtr : Int, from : Seq(Int)]
           F == [k \in 1 .. n |-> [s \in S |-> ScanStep(rows, voids, s, k)]]
           Eq(f) == f = [k \in 0 .. n |->
                           IF k = 0 THEN ScanStart(voids)
                           ELSE ScanStep(rows, voids, f[k - 1], k)]
           scan == CHOOSE f : Eq(f)
<1>1. n \in Nat
  OBVIOUS
<1>2. ScanStart(voids) \in S
  BY DEF ScanStart
<1>3. ASSUME NEW s \in S, NEW k \in 1 .. n PROVE ScanStep(rows, voids, s, k) \in S
  <2>1. s.voidPtr - 1 \in Int /\ Append(s.from, rows - k) \in Seq(Int)
    OBVIOUS
  <2> QED
    BY <2>1 DEF ScanStep
<1>4. IsStep(F, n, S)
  <2> HIDE DEF n, S
  <2> QED
    BY <1>3 DEF IsStep
<1>5. PICK v : Follows(v, n, S, ScanStart(voids), F)
  <2> HIDE DEF n, S, F
  <2> QED
    BY <1>1, <1>2, <1>4, RecursionUpTo
<1>6. /\ v \in [0 .. n -> S] /\ v[0] = ScanStart(voids)
      /\ \A k \in 1 .. n : v[k] = F[k][v[k - 1]]
  <2> HIDE DEF n, S, F
  <2> QED
    BY <1>5 DEF Follows
<1>7. \A k \in 1 .. n : v[k] = ScanStep(rows, voids, v[k - 1], k)
  <2> SUFFICES ASSUME NEW k \in 1 .. n PROVE v[k] = ScanStep(rows, voids, v[k - 1], k)
    OBVIOUS
  <2>1. k - 1 \in 0 .. n
    OBVIOUS
  <2>2. v[k - 1] \in S
    BY <1>6, <2>1
  <2> HIDE DEF n, S
  <2>3. F[k][v[k - 1]] = ScanStep(rows, voids, v[k - 1], k)
    BY <2>2
  <2> HIDE DEF F
  <2> QED
    BY <1>6, <2>3
<1>8. Eq(v)
  <2> HIDE DEF S, F
  <2>1. \A k \in 0 .. n : k # 0 => k \in 1 .. n
    BY <1>1
  <2>2. \A k \in 0 .. n : v[k] = IF k = 0 THEN ScanStart(voids)
                                ELSE ScanStep(rows, voids, v[k - 1], k)
    BY <1>6, <1>7, <2>1
  <2> HIDE DEF n
  <2> QED
    BY <1>6, <2>2
<1>9. Eq(scan)
  <2> HIDE DEF Eq
  <2> QED
    BY <1>8
<1>10. ScanTail(rows, newSize, voids) = scan[n].from
  BY DEF ScanTail, ScanStart, ScanStep
<1>11. scan[0] = ScanStart(voids)
       /\ \A k \in 1 .. n : scan[k] = ScanStep(rows, voids, scan[k - 1], k)
  <2>1. scan = [k \in 0 .. n |-> IF k = 0 THEN ScanStart(voids)
                                ELSE ScanStep(rows, voids, scan[k - 1], k)]
    BY <1>9
  <2> HIDE DEF scan
  <2>2. 0 \in 0 .. n /\ \A k \in 1 .. n : k \in 0 .. n /\ k # 0
    BY <1>1
  <2> HIDE DEF n
  <2> QED
    BY <2>1, <2>2
<1> HIDE DEF scan
<1> QED
  BY <1>10, <1>11

\* A smaller element goes to the end of a descending array.
LEMMA AppendDescends ==
  ASSUME NEW S \in SUBSET Int, IsFiniteSet(S), NEW s, Descends(s, S),
         NEW x \in Int, \A y \in S : x < y
  PROVE  Descends(Append(s, x), S \cup {x})
<1> DEFINE T == S \cup {x}
           n == Len(s)
           t == Append(s, x)
<1>1. n = Cardinality(S) /\ n \in Nat /\ s \in Seq(T) /\ s \in Seq(S)
  <2>1. s \in Seq(S) /\ n = Cardinality(S)
    BY DEF Descends
  <2>2. s \in Seq(T)
    BY <2>1, SeqMonotonic
  <2> QED
    BY <2>1, <2>2, FS_CardinalityType
<1>2. x \notin S /\ \A y \in S : y \in Int
  OBVIOUS
<1>3. Cardinality(T) = n + 1
  BY <1>1, <1>2, FS_AddElement
<1>4. /\ t \in Seq(T) /\ Len(t) = n + 1 /\ t[n + 1] = x
      /\ \A k \in 1 .. n : t[k] = s[k]
  <2>1. x \in T
    OBVIOUS
  <2> HIDE DEF T
  <2> QED
    BY <1>1, <2>1, AppendProperties
<1>5. \A k \in 1 .. n + 1 : RankFromTop(t[k], T) = k - 1
  <2> SUFFICES ASSUME NEW k \in 1 .. n + 1 PROVE RankFromTop(t[k], T) = k - 1
    OBVIOUS
  <2>1. CASE k = n + 1
    <3>1. {y \in T : y > x} = S
      <4>1. \A y \in S : y > x
        BY <1>2
      <4>2. ~(x > x)
        OBVIOUS
      <4> QED
        BY <4>1, <4>2
    <3>2. RankFromTop(x, T) = n
      <4> HIDE DEF T, n
      <4> QED
        BY <1>1, <3>1 DEF RankFromTop
    <3>3. t[k] = x /\ k - 1 = n
      <4> HIDE DEF t, n
      <4> QED
        BY <1>1, <1>4, <2>1
    <3> QED
      BY <3>2, <3>3
  <2>2. CASE k # n + 1
    <3>1. k \in 1 .. n
      BY <1>1, <2>2
    <3>2. t[k] = s[k] /\ s[k] \in S /\ RankFromTop(s[k], S) = k - 1
      BY <1>1, <1>4, <3>1, ElementOfSeq DEF Descends
    <3>3. {y \in T : y > s[k]} = {y \in S : y > s[k]}
      <4>1. s[k] \in S /\ s[k] \in Int /\ x < s[k]
        BY <1>2, <3>2
      <4>2. ~(x > s[k])
        BY <4>1
      <4> QED
        BY <4>2
    <3> QED
      BY <3>2, <3>3 DEF RankFromTop
  <2> QED
    BY <2>1, <2>2
<1> HIDE DEF t, T, n
<1>6. Descends(t, T)
  BY <1>3, <1>4, <1>5 DEF Descends
<1> QED
  BY <1>6 DEF t, T

\* The scan lists the rows of the tail that are not removed, last first.
LEMMA ScanListsTail ==
  ASSUME NEW rows \in Nat, NEW newSize \in 0 .. rows,
         NEW V \in SUBSET (newSize .. rows - 1), NEW voids, Ascends(voids, V)
  PROVE  Descends(ScanTail(rows, newSize, voids), {i \in newSize .. rows - 1 : i \notin V})
<1> DEFINE n == rows - newSize
           T(k) == {i \in rows - k .. rows - 1 : i \notin V}
<1>1. V \in SUBSET Int /\ IsFiniteSet(V) /\ n \in Nat
  <2>1. newSize \in Int /\ rows - 1 \in Int
    OBVIOUS
  <2>2. IsFiniteSet(newSize .. rows - 1)
    BY <2>1, FS_Interval
  <2>3. IsFiniteSet(V)
    BY <2>2, FS_Subset
  <2> QED
    BY <2>3
<1>2. voids \in Seq(Int) /\ Len(voids) = Cardinality(V)
  BY <1>1, SeqMonotonic DEF Ascends
<1>3. PICK v : /\ v[0] = ScanStart(voids)
               /\ \A k \in 1 .. n : v[k] = ScanStep(rows, voids, v[k - 1], k)
               /\ ScanTail(rows, newSize, voids) = v[n].from
  BY <1>2, ScanIsRecursive
<1>4. \A k \in 0 .. n : T(k) \in SUBSET Int /\ IsFiniteSet(T(k))
  <2> SUFFICES ASSUME NEW k \in 0 .. n PROVE T(k) \in SUBSET Int /\ IsFiniteSet(T(k))
    OBVIOUS
  <2>1. rows - k \in Int /\ rows - 1 \in Int
    BY <1>1
  <2>2. IsFiniteSet(rows - k .. rows - 1)
    BY <2>1, FS_Interval
  <2>3. T(k) \in SUBSET (rows - k .. rows - 1)
    OBVIOUS
  <2>4. IsFiniteSet(T(k))
    <3> HIDE DEF T
    <3> QED
      BY <2>2, <2>3, FS_Subset
  <2> QED
    BY <2>1, <2>4
<1> DEFINE Good(k) == /\ v[k] = [voidPtr |-> Rank(rows - k, V), from |-> v[k].from]
                      /\ Descends(v[k].from, T(k))
           P == {k \in 0 .. n : Good(k)}
<1>5. 0 \in P
  <2>1. Rank(rows, V) = Cardinality(V)
    <3>1. {y \in V : y < rows} = V
      <4>1. \A y \in V : y \in newSize .. rows - 1
        OBVIOUS
      <4>2. \A y \in V : y < rows
        BY <4>1
      <4> QED
        BY <4>2
    <3> QED
      BY <3>1 DEF Rank
  <2>2. T(0) = {}
    OBVIOUS
  <2>3. Descends(<<>>, {})
    BY FS_EmptySet DEF Descends
  <2>4. 0 \in 0 .. n /\ rows - 0 = rows
    BY <1>1
  <2>5. v[0] = [voidPtr |-> Rank(rows - 0, V), from |-> <<>>]
    BY <1>2, <1>3, <2>1, <2>4 DEF ScanStart
  <2>6. v[0].from = <<>>
    BY <2>5
  <2>7. Good(0)
    <3> HIDE DEF T
    <3> QED
      BY <2>2, <2>3, <2>5, <2>6
  <2> HIDE DEF Good
  <2> QED
    BY <2>4, <2>7
<1>6. ASSUME NEW k \in 1 .. n, k - 1 \in P PROVE k \in P
  <2> DEFINE i == rows - k
             s == v[k - 1]
             r == Rank(i + 1, V)
  <2>1. /\ i \in newSize .. rows - 1 /\ i \in Int /\ rows - (k - 1) = i + 1
        /\ k \in 0 .. n /\ k - 1 \in 0 .. n
    BY <1>1
  <2>2. /\ s = [voidPtr |-> r, from |-> s.from]
        /\ Descends(s.from, T(k - 1))
    <3>1. Good(k - 1)
      <4> HIDE DEF Good
      <4> QED
        BY <1>6
    <3> HIDE DEF T, i
    <3> QED
      BY <2>1, <3>1
  <2>3. v[k] = ScanStep(rows, voids, s, k)
    BY <1>3
  <2>4. /\ i \in V => r = Rank(i, V) + 1
        /\ i \notin V => r = Rank(i, V)
    <3>1. \A y \in V : y < i + 1 <=> y < i \/ y = i
      BY <1>1, <2>1
    <3> DEFINE B == {y \in V : y < i}
    <3>2. IsFiniteSet(B) /\ i \notin B
      <4>1. B \in SUBSET V
        OBVIOUS
      <4>2. i \notin B
        BY <2>1
      <4> HIDE DEF B
      <4> QED
        BY <1>1, <4>1, <4>2, FS_Subset
    <3>3. CASE i \in V
      <4>1. {y \in V : y < i + 1} = B \cup {i}
        BY <3>1, <3>3
      <4>2. Cardinality(B \cup {i}) = Cardinality(B) + 1
        <5> HIDE DEF B, i
        <5> QED
          BY <3>2, FS_AddElement
      <4> QED
        BY <3>3, <4>1, <4>2 DEF Rank
    <3>4. CASE i \notin V
      <4>1. {y \in V : y < i + 1} = B
        BY <3>1, <3>4
      <4> QED
        BY <3>4, <4>1 DEF Rank
    <3> QED
      BY <3>3, <3>4
  <2>5. Rank(i, V) \in Nat /\ r \in 0 .. Len(voids)
    <3>1. i \in Int /\ i + 1 \in Int
      BY <2>1
    <3>2. Rank(i, V) \in 0 .. Cardinality(V) /\ Rank(i + 1, V) \in 0 .. Cardinality(V)
      BY <1>1, <3>1, RankType
    <3>3. Cardinality(V) \in Nat
      BY <1>1, FS_CardinalityType
    <3> QED
      BY <1>2, <3>2, <3>3
  <2>6. i \in V <=> r > 0 /\ voids[r] = i
    <3>1. CASE i \in V
      <4>1. voids[Rank(i, V) + 1] = i
        BY <1>1, <3>1, EntryOfRank
      <4> HIDE DEF i, r
      <4> QED
        BY <2>4, <2>5, <3>1, <4>1
    <3>2. CASE i \notin V
      <4> SUFFICES ASSUME r > 0 PROVE voids[r] # i
        BY <3>2
      <4>1. r \in 1 .. Len(voids)
        BY <2>5
      <4>2. voids[r] \in V
        <5> HIDE DEF r
        <5> QED
          BY <4>1, ElementOfSeq DEF Ascends
      <4> QED
        BY <3>2, <4>2
    <3> QED
      BY <3>1, <3>2
  <2>7. s.voidPtr = r
    <3> HIDE DEF s, r
    <3> QED
      BY <2>2
  <2>8. ASSUME i \in V PROVE Good(k)
    <3>1. v[k] = [s EXCEPT !.voidPtr = @ - 1]
      <4> HIDE DEF s, r
      <4> QED
        BY <2>3, <2>6, <2>7, <2>8 DEF ScanStep
    <3>2. v[k] = [voidPtr |-> r - 1, from |-> s.from]
      <4> HIDE DEF s, r
      <4> QED
        BY <2>2, <3>1
    <3>3. T(k) = T(k - 1)
      BY <2>1, <2>8
    <3>4. r - 1 = Rank(i, V)
      <4> HIDE DEF i, r
      <4> QED
        BY <2>4, <2>5, <2>8
    <3> HIDE DEF T, s, r
    <3> QED
      BY <2>2, <3>2, <3>3, <3>4
  <2>9. ASSUME i \notin V PROVE Good(k)
    <3>1. v[k] = [s EXCEPT !.from = Append(@, i)]
      <4> HIDE DEF s, r
      <4> QED
        BY <2>3, <2>6, <2>7, <2>9 DEF ScanStep
    <3>2. v[k] = [voidPtr |-> r, from |-> Append(s.from, i)]
      <4> DEFINE f == s.from
      <4>1. s = [voidPtr |-> r, from |-> f]
        BY <2>2
      <4> HIDE DEF f, s, r, i
      <4>2. s.from = f
        BY <4>1
      <4>3. v[k] = [voidPtr |-> r, from |-> Append(f, i)]
        BY <3>1, <4>1
      <4> QED
        BY <4>2, <4>3
    <3>3. T(k) = T(k - 1) \cup {i} /\ \A y \in T(k - 1) : i < y
      <4>1. \A y : y \in rows - k .. rows - 1 <=> y = i \/ y \in rows - (k - 1) .. rows - 1
        BY <2>1
      <4>2. \A y \in rows - (k - 1) .. rows - 1 : i < y
        BY <2>1
      <4> HIDE DEF i
      <4> QED
        BY <2>9, <4>1, <4>2
    <3>4. Descends(Append(s.from, i), T(k))
      <4>1. T(k - 1) \in SUBSET Int /\ IsFiniteSet(T(k - 1))
        BY <1>4, <2>1
      <4> HIDE DEF T, s, i
      <4> QED
        BY <2>1, <2>2, <3>3, <4>1, AppendDescends
    <3>5. r = Rank(i, V)
      BY <2>4, <2>9
    <3> HIDE DEF T, s, r
    <3> QED
      BY <3>2, <3>4, <3>5
  <2> HIDE DEF Good, i
  <2> QED
    BY <2>1, <2>8, <2>9
<1>7. \A k \in 0 .. n : k \in P
  <2> HIDE DEF P
  <2> QED
    BY <1>1, <1>5, <1>6, InductionUpTo
<1>8. Descends(v[n].from, T(n))
  <2>1. n \in 0 .. n
    BY <1>1
  <2>2. Good(n)
    <3> HIDE DEF Good, n
    <3> QED
      BY <1>7, <2>1
  <2> QED
    BY <2>2
<1>9. T(n) = {i \in newSize .. rows - 1 : i \notin V}
  <2>1. rows - n = newSize
    OBVIOUS
  <2> HIDE DEF n
  <2> QED
    BY <2>1
<1> HIDE DEF T, n
<1> QED
  BY <1>3, <1>8, <1>9

(***************************************************************************)
(* The plan and the arrays of its oracle.                                  *)
(***************************************************************************)
\* The removal arguments leave valid rows, each once, in ascending order.
LEMMA RemovalsAscend ==
  ASSUME NEW rows \in Nat, NEW nAdd \in Nat, NEW raw
  PROVE  LET R == Normalize(rows, raw)
             p == Plan(rows, nAdd, raw)
         IN  /\ R \in SUBSET (0 .. rows - 1) /\ R \in SUBSET Int /\ IsFiniteSet(R)
             /\ Cardinality(R) \in 0 .. rows
             /\ Ascends(Sorted(R), R) /\ Sorted(R) \in Seq(Int)
             /\ p.removals = Sorted(R)
             /\ p.newSize = PlanSize(rows, nAdd, R)
<1> DEFINE R == Normalize(rows, raw)
<1>1. R \in SUBSET (0 .. rows - 1)
  BY DEF Normalize
<1> HIDE DEF R
<1>2. R \in SUBSET Int /\ IsFiniteSet(R) /\ Cardinality(R) \in 0 .. rows
  BY <1>1, PlanSizes
<1>3. Ascends(Sorted(R), R)
  BY <1>2, SortedAscends
<1>4. Sorted(R) \in Seq(Int) /\ Len(Sorted(R)) = Cardinality(R)
  BY <1>2, <1>3, SeqMonotonic DEF Ascends
<1>5. /\ Plan(rows, nAdd, raw).removals = Sorted(R)
      /\ Plan(rows, nAdd, raw).newSize = rows + nAdd - Len(Sorted(R))
  BY DEF Plan, R
<1>6. Plan(rows, nAdd, raw).newSize = PlanSize(rows, nAdd, R)
  BY <1>4, <1>5 DEF PlanSize
<1> QED
  BY <1>1, <1>2, <1>3, <1>4, <1>5, <1>6 DEF R

\* A staged row's place in the array of destinations is its destination.
LEMMA DestsArray ==
  ASSUME NEW rows \in Nat, NEW nAdd \in Nat, NEW raw
  PROVE  LET p == Plan(rows, nAdd, raw)
             dest == AdditionDest(rows, nAdd, Normalize(rows, raw))
         IN  /\ p.dests \in Seq(Int)
             /\ Len(p.dests) = nAdd
             /\ \A k \in 0 .. nAdd - 1 : p.dests[k + 1] = dest[k]
<1> DEFINE R == Normalize(rows, raw)
           a == Sorted(R)
           m == Cardinality(R)
           filled == IF nAdd < Len(a) THEN nAdd ELSE Len(a)
           N == rows + nAdd - Len(a)
           grown == [k \in 1 .. N - rows |-> rows + k - 1]
           first == SubSeq(a, 1, filled)
           p == Plan(rows, nAdd, raw)
           dest == AdditionDest(rows, nAdd, R)
<1>1. /\ R \in SUBSET (0 .. rows - 1) /\ R \in SUBSET Int /\ IsFiniteSet(R)
      /\ m \in 0 .. rows /\ Ascends(a, R) /\ a \in Seq(Int) /\ Len(a) = m
  BY RemovalsAscend DEF Ascends
<1>2. p.dests = first \o grown
  BY DEF Plan
<1>3. a = [k \in 1 .. m |-> Nth(k - 1, R)]
  BY DEF Sorted
<1>4. filled \in 0 .. m /\ filled <= nAdd /\ filled = Replacements(nAdd, R)
  <2> HIDE DEF R, a, m
  <2> QED
    BY <1>1 DEF Replacements, m
<1> HIDE DEF R, a, m, filled, p
<1>5. /\ first \in Seq(Int) /\ Len(first) = filled
      /\ \A k \in 1 .. filled : first[k] = a[k]
  <2>1. \A k \in 1 .. filled : k \in 1 .. Len(a)
    BY <1>1, <1>4
  <2>2. \A k \in 1 .. filled : a[k] \in Int
    BY <1>1, <2>1, ElementOfSeq
  <2>3. 1 \in Int /\ filled \in Int
    BY <1>1, <1>4
  <2>4. /\ first \in Seq(Int)
        /\ Len(first) = IF 1 <= filled THEN filled - 1 + 1 ELSE 0
        /\ \A k \in 1 .. filled - 1 + 1 : first[k] = a[1 + k - 1]
    BY <2>2, <2>3, SubSeqProperties
  <2> HIDE DEF first
  <2> QED
    BY <1>1, <1>4, <2>4
<1>6. N - rows = nAdd - m
  BY <1>1
<1>7. /\ grown \in Seq(Int) /\ Len(grown) = nAdd - filled
      /\ \A k \in 1 .. nAdd - filled : grown[k] = rows + k - 1
  <2>1. CASE nAdd < m
    <3>1. filled = nAdd /\ grown = <<>>
      BY <1>1, <1>6, <2>1 DEF filled
    <3>2. nAdd - filled = 0 /\ 1 .. nAdd - filled = {}
      BY <3>1
    <3> HIDE DEF grown
    <3> QED
      BY <3>1, <3>2
  <2>2. CASE ~(nAdd < m)
    <3>1. filled = m
      BY <1>1, <2>2 DEF filled
    <3>2. N - rows = nAdd - filled /\ nAdd - filled \in Nat
      BY <1>1, <1>6, <2>2, <3>1
    <3>3. grown \in [1 .. nAdd - filled -> Int]
      <4> SUFFICES ASSUME NEW k \in 1 .. N - rows PROVE rows + k - 1 \in Int
        BY <3>2
      <4> QED
        OBVIOUS
    <3>4. \A k \in 1 .. nAdd - filled : grown[k] = rows + k - 1
      BY <3>2
    <3> HIDE DEF grown
    <3>5. grown \in Seq(Int) /\ Len(grown) = nAdd - filled
      BY <3>2, <3>3
    <3> QED
      BY <3>4, <3>5
  <2> QED
    BY <2>1, <2>2
<1> HIDE DEF first, grown, N
<1>8. /\ p.dests \in Seq(Int) /\ Len(p.dests) = nAdd
      /\ \A k \in 1 .. nAdd : p.dests[k] = IF k <= filled THEN first[k] ELSE grown[k - filled]
  <2>1. /\ first \o grown \in Seq(Int)
        /\ Len(first \o grown) = Len(first) + Len(grown)
        /\ \A i \in 1 .. Len(first) + Len(grown) :
             (first \o grown)[i] = IF i <= Len(first) THEN first[i] ELSE grown[i - Len(first)]
    BY <1>5, <1>7, ConcatProperties
  <2>2. Len(first) + Len(grown) = nAdd
    BY <1>1, <1>4, <1>5, <1>7
  <2> QED
    BY <1>2, <1>5, <2>1, <2>2
<1>9. ASSUME NEW k \in 0 .. nAdd - 1 PROVE p.dests[k + 1] = dest[k]
  <2>1. dest[k] = IF k < filled THEN Nth(k, R) ELSE rows + (k - filled)
    BY <1>4 DEF AdditionDest
  <2> HIDE DEF dest
  <2>2. k + 1 \in 1 .. nAdd
    OBVIOUS
  <2>3. CASE k < filled
    <3>1. p.dests[k + 1] = a[k + 1]
      BY <1>1, <1>4, <1>5, <1>8, <2>2, <2>3
    <3>2. k + 1 \in 1 .. m /\ (k + 1) - 1 = k
      BY <1>1, <1>4, <2>3
    <3> QED
      BY <1>3, <2>1, <2>3, <3>1, <3>2
  <2>4. CASE ~(k < filled)
    <3>1. (k + 1) - filled \in 1 .. nAdd - filled /\ ~(k + 1 <= filled)
      BY <1>1, <1>4, <2>2, <2>4
    <3>2. p.dests[k + 1] = rows + ((k + 1) - filled) - 1
      BY <1>7, <1>8, <2>2, <3>1
    <3> QED
      BY <1>1, <1>4, <2>1, <2>4, <3>2
  <2> QED
    BY <2>3, <2>4
<1> QED
  BY <1>8, <1>9 DEF p, R

\* The relocations are the rows to move, last first, and the holes for them,
\* first first.
LEMMA RelocationArrays ==
  ASSUME NEW rows \in Nat, NEW nAdd \in Nat, NEW raw
  PROVE  LET R == Normalize(rows, raw)
             p == Plan(rows, nAdd, raw)
         IN  /\ Descends(p.from, TailSurvivors(rows, nAdd, R))
             /\ Ascends(p.to, OpenHoles(rows, nAdd, R))
<1> DEFINE R == Normalize(rows, raw)
           a == Sorted(R)
           filled == IF nAdd < Len(a) THEN nAdd ELSE Len(a)
           N == rows + nAdd - Len(a)
           remaining == SubSeq(a, filled + 1, Len(a))
           split == SearchSorted(remaining, N)
           voids == SubSeq(remaining, split + 1, Len(remaining))
           p == Plan(rows, nAdd, raw)
           tail == TailSurvivors(rows, nAdd, R)
           holes == OpenHoles(rows, nAdd, R)
           Open == {x \in R : Rank(x, R) >= filled}
<1>1. /\ R \in SUBSET (0 .. rows - 1) /\ R \in SUBSET Int /\ IsFiniteSet(R)
      /\ Cardinality(R) \in 0 .. rows /\ Ascends(a, R) /\ Len(a) = Cardinality(R)
  BY RemovalsAscend DEF Ascends
<1>2. /\ p.from = IF N < rows THEN ScanTail(rows, N, voids) ELSE <<>>
      /\ p.to = IF N < rows THEN SubSeq(remaining, 1, split) ELSE <<>>
  BY DEF Plan
<1> HIDE DEF R, p
<1>3. /\ filled = Replacements(nAdd, R) /\ N = PlanSize(rows, nAdd, R)
      /\ filled \in 0 .. Len(a) /\ N \in Int /\ N >= 0
  <2> HIDE DEF a
  <2> QED
    BY <1>1 DEF Replacements, PlanSize
<1>4. IsFiniteSet(tail) /\ IsFiniteSet(holes) /\ Cardinality(tail) = Cardinality(holes)
  BY <1>1, TailFitsHoles
<1>5. CASE ~(N < rows)
  <2>1. tail = {}
    <3> HIDE DEF N
    <3> QED
      BY <1>3, <1>5 DEF TailSurvivors
  <2>2. holes = {}
    <3> HIDE DEF tail, holes
    <3> QED
      BY <1>4, <2>1, FS_EmptySet
  <2>3. Descends(<<>>, {}) /\ Ascends(<<>>, {})
    BY FS_EmptySet DEF Descends, Ascends
  <2>4. p.from = <<>> /\ p.to = <<>>
    BY <1>2, <1>5
  <2> HIDE DEF tail, holes
  <2> QED
    BY <2>1, <2>2, <2>3, <2>4 DEF tail, holes, p, R
<1>6. CASE N < rows
  <2>1. Open \in SUBSET Int /\ IsFiniteSet(Open) /\ Open \subseteq R
    <3>1. Open \in SUBSET R
      OBVIOUS
    <3> HIDE DEF Open
    <3> QED
      BY <1>1, <3>1, FS_Subset
  <2>2. Ascends(remaining, Open)
    <3> HIDE DEF filled, a
    <3> QED
      BY <1>1, <1>3, SuffixAscends
  <2> HIDE DEF remaining, filled, a, N
  <2>3. split = Rank(N, Open) /\ split \in 0 .. Len(remaining)
    <3>1. split = Rank(N, Open)
      BY <1>3, <2>1, <2>2, SearchFindsRank
    <3>2. Rank(N, Open) \in 0 .. Cardinality(Open)
      BY <1>3, <2>1, RankType
    <3>3. Cardinality(Open) = Len(remaining)
      BY <2>2 DEF Ascends
    <3> QED
      BY <3>1, <3>2, <3>3
  <2>4. {y \in Open : y < N} = holes
    BY <1>3 DEF OpenHoles
  <2>5. Ascends(SubSeq(remaining, 1, split), holes)
    <3> HIDE DEF Open, split
    <3>1. Ascends(SubSeq(remaining, 1, Rank(N, Open)), {y \in Open : y < N})
      BY <1>3, <2>1, <2>2, PrefixAscends
    <3> QED
      BY <2>3, <2>4, <3>1
  <2> DEFINE V == {x \in Open : Rank(x, Open) >= split}
  <2>6. Ascends(voids, V)
    <3> HIDE DEF Open, split
    <3> QED
      BY <2>1, <2>2, <2>3, SuffixAscends
  <2>7. ASSUME NEW x \in Open PROVE x \in V <=> x >= N
    <3>1. x \in Int /\ x \in R /\ N \in Int
      BY <1>3, <2>1
    <3>2. Rank(x, Open) \in 0 .. Cardinality(Open) /\ Rank(N, Open) \in 0 .. Cardinality(Open)
      BY <2>1, <3>1, RankType
    <3>3. Cardinality(Open) \in Nat
      BY <2>1, FS_CardinalityType
    <3>4. ASSUME x >= N PROVE Rank(x, Open) >= Rank(N, Open)
      <4>1. N <= x
        BY <3>1, <3>4
      <4>2. Rank(N, Open) <= Rank(x, Open)
        BY <2>1, <3>1, <4>1, RankWeaklyMonotonic
      <4> QED
        BY <3>2, <3>3, <4>2
    <3>5. ASSUME ~(x >= N) PROVE Rank(x, Open) < Rank(N, Open)
      <4> DEFINE L == {y \in Open : y < N}
      <4>1. x \in L /\ x <= N
        BY <3>1, <3>5
      <4>2. L \in SUBSET Int /\ IsFiniteSet(L)
        <5>1. L \in SUBSET Open
          OBVIOUS
        <5>2. IsFiniteSet(L)
          <6> HIDE DEF L, Open
          <6> QED
            BY <2>1, <5>1, FS_Subset
        <5> HIDE DEF L, Open
        <5> QED
          BY <2>1, <5>1, <5>2
      <4>3. Rank(x, L) = Rank(x, Open)
        <5> HIDE DEF Open
        <5> QED
          BY <2>1, <3>1, <4>1, RankBelow
      <4>4. Rank(x, L) < Cardinality(L)
        <5> HIDE DEF L
        <5> QED
          BY <3>1, <4>1, <4>2, RankType
      <4>5. Rank(N, Open) = Cardinality(L)
        BY DEF Rank
      <4> HIDE DEF L, Open
      <4> QED
        BY <4>3, <4>4, <4>5
    <3>6. x \in V <=> Rank(x, Open) >= Rank(N, Open)
      <4> HIDE DEF Open, split
      <4> QED
        BY <2>3
    <3> HIDE DEF Open, V
    <3> QED
      BY <3>2, <3>3, <3>4, <3>5, <3>6
  <2>8. \A x \in R : x >= N => x \in Open
    <3> SUFFICES ASSUME NEW x \in R, x >= N PROVE Rank(x, R) >= filled
      OBVIOUS
    <3>1. x \in Int /\ Rank(x, R) \in 0 .. Cardinality(R)
      BY <1>1, RankType
    <3>2. ~(Rank(x, R) < Replacements(nAdd, R))
      <4> SUFFICES ASSUME Rank(x, R) < Replacements(nAdd, R) PROVE FALSE
        OBVIOUS
      <4>1. x < N
        BY <1>1, <1>3, FilledHolesAreLow
      <4> QED
        BY <1>3, <3>1, <4>1
    <3> QED
      BY <1>1, <1>3, <3>1, <3>2
  <2>9. V \in SUBSET (N .. rows - 1)
    <3> SUFFICES ASSUME NEW x \in V PROVE x \in N .. rows - 1
      OBVIOUS
    <3>1. x \in Open
      OBVIOUS
    <3>2. x >= N
      <4> HIDE DEF V, Open
      <4> QED
        BY <2>7, <3>1
    <3>3. x \in R
      BY <3>1
    <3>4. x \in 0 .. rows - 1
      BY <1>1, <3>3
    <3> QED
      BY <1>3, <3>2, <3>4
  <2>10. {i \in N .. rows - 1 : i \notin V} = tail
    <3>1. \A i \in N .. rows - 1 : i \in V <=> i \in R
      <4> SUFFICES ASSUME NEW i \in N .. rows - 1 PROVE i \in V <=> i \in R
        OBVIOUS
      <4>1. i >= N
        BY <1>3
      <4>2. i \in V => i \in R
        OBVIOUS
      <4>3. i \in R => i \in Open
        <5> HIDE DEF Open
        <5> QED
          BY <2>8, <4>1
      <4>4. i \in Open => i \in V
        <5> HIDE DEF Open, V
        <5> QED
          BY <2>7, <4>1
      <4> QED
        BY <4>2, <4>3, <4>4
    <3> HIDE DEF V
    <3> QED
      BY <1>3, <3>1 DEF TailSurvivors
  <2>11. Descends(ScanTail(rows, N, voids), tail)
    <3>1. N \in 0 .. rows
      BY <1>3, <1>6
    <3> HIDE DEF V, voids, tail
    <3>2. Descends(ScanTail(rows, N, voids), {i \in N .. rows - 1 : i \notin V})
      BY <2>6, <2>9, <3>1, ScanListsTail
    <3> QED
      BY <2>10, <3>2
  <2>12. p.from = ScanTail(rows, N, voids) /\ p.to = SubSeq(remaining, 1, split)
    <3> HIDE DEF voids, split
    <3> QED
      BY <1>2, <1>6
  <2> HIDE DEF voids, split, tail, holes
  <2> QED
    BY <2>5, <2>11, <2>12 DEF tail, holes, p, R
<1> QED
  BY <1>5, <1>6

\* oracle_resolve finds in the arrays what the oracle on sets says, of every
\* index, valid or not, of a table whose size the sentinel is not below.
THEOREM ArraysResolve ==
  ASSUME NEW rows \in Nat, NEW nAdd \in Nat, NEW raw, rows <= Missing, NEW idx \in Nat
  PROVE  ResolveInArrays(OracleArrays(rows, Plan(rows, nAdd, raw)), idx)
           = Resolve(Oracle(rows, nAdd, Normalize(rows, raw)), idx)
<1> DEFINE R == Normalize(rows, raw)
           p == Plan(rows, nAdd, raw)
           a == OracleArrays(rows, p)
           o == Oracle(rows, nAdd, R)
           tail == TailSurvivors(rows, nAdd, R)
           holes == OpenHoles(rows, nAdd, R)
<1>1. /\ a.start = rows /\ a.deletions = p.removals /\ a.dests = p.dests
      /\ a.movesFrom = Reversed(p.from) /\ a.movesTo = Reversed(p.to)
  BY DEF OracleArrays
<1>2. /\ o.start = rows /\ o.deletions = R
      /\ o.dest = AdditionDest(rows, nAdd, R) /\ o.moves = Moves(rows, nAdd, R)
  BY DEF Oracle
<1>3. /\ R \in SUBSET (0 .. rows - 1) /\ R \in SUBSET Int /\ IsFiniteSet(R)
      /\ Ascends(p.removals, R)
  BY RemovalsAscend
<1>4. /\ Len(p.dests) = nAdd
      /\ \A k \in 0 .. nAdd - 1 : p.dests[k + 1] = o.dest[k]
  BY <1>2, DestsArray
<1>5. Descends(p.from, tail) /\ Ascends(p.to, holes)
  BY RelocationArrays
<1>6. DOMAIN o.dest = 0 .. nAdd - 1 /\ DOMAIN o.moves = tail
  BY <1>2 DEF AdditionDest, Moves
<1>7. /\ IsFiniteSet(tail) /\ IsFiniteSet(holes) /\ Cardinality(tail) = Cardinality(holes)
      /\ tail \in SUBSET Int /\ holes \in SUBSET Int
  <2> HIDE DEF R
  <2>1. PlanSize(rows, nAdd, R) \in Nat
    BY <1>3, PlanSizes
  <2>2. tail \subseteq PlanSize(rows, nAdd, R) .. rows - 1 /\ holes \subseteq R
    BY DEF TailSurvivors, OpenHoles
  <2>3. tail \in SUBSET Int /\ holes \in SUBSET Int
    <3> HIDE DEF tail, holes
    <3> QED
      BY <1>3, <2>1, <2>2
  <2> QED
    BY <1>3, <2>3, TailFitsHoles
<1> HIDE DEF R, p, a, o
<1>8. CASE idx = Missing
  <2>1. ~(idx < a.start)
    BY <1>1, <1>8, MissingIsNat
  <2>2. ResolveInArrays(a, idx) = Missing
    BY <1>8, <2>1 DEF ResolveInArrays
  <2>3. Resolve(o, idx) = Missing
    BY <1>8 DEF Resolve
  <2> QED
    BY <2>2, <2>3 DEF a, o, p, R
<1>9. CASE idx # Missing /\ idx >= rows
  <2>1. ResolveInArrays(a, idx) =
          IF idx - rows < nAdd THEN p.dests[idx - rows + 1] ELSE Missing
    BY <1>1, <1>4, <1>9 DEF ResolveInArrays
  <2>2. Resolve(o, idx) = IF idx - rows \in 0 .. nAdd - 1 THEN o.dest[idx - rows] ELSE Missing
    BY <1>2, <1>6, <1>9 DEF Resolve
  <2>3. idx - rows < nAdd <=> idx - rows \in 0 .. nAdd - 1
    BY <1>9
  <2> QED
    BY <1>4, <2>1, <2>2, <2>3 DEF a, o, p, R
<1>10. CASE idx # Missing /\ idx < rows
  <2>1. Found(a.deletions, idx) <=> idx \in R
    BY <1>1, <1>3, SearchFinds
  <2>2. Ascends(a.movesFrom, tail)
    <3> HIDE DEF tail, holes
    <3> QED
      BY <1>1, <1>5, <1>7, ReversedAscends
  <2>3. Found(a.movesFrom, idx) <=> idx \in tail
    <3> HIDE DEF tail, holes
    <3> QED
      BY <1>7, <2>2, SearchFinds
  <2>4. ASSUME idx \in tail
        PROVE  a.movesTo[SearchSorted(a.movesFrom, idx) + 1] = o.moves[idx]
    <3> DEFINE c == Cardinality(tail)
               r == Rank(idx, tail)
    <3>1. SearchSorted(a.movesFrom, idx) = r
      <4> HIDE DEF tail, holes
      <4> QED
        BY <1>7, <2>2, SearchFindsRank
    <3>2. /\ r \in 0 .. c /\ r < c /\ c \in Nat
          /\ RankFromTop(idx, tail) = c - 1 - r
      <4> HIDE DEF tail, holes
      <4> QED
        BY <1>7, <2>4, RankType, RankFromTopValue, FS_CardinalityType
    <3>3. Len(p.to) = c /\ p.to \in Seq(holes) /\ DOMAIN p.to = 1 .. c
      <4> HIDE DEF tail, holes
      <4> QED
        BY <1>5, <1>7, LenProperties DEF Ascends
    <3>4. a.movesTo[r + 1] = p.to[c - r]
      <4>1. r + 1 \in 1 .. c /\ c + 1 - (r + 1) = c - r
        <5> HIDE DEF r, c
        <5> QED
          BY <3>2
      <4> HIDE DEF r, c
      <4> QED
        BY <1>1, <3>3, <4>1 DEF Reversed
    <3>5. p.to[c - r] = Nth(c - 1 - r, holes)
      <4>1. c - r \in 1 .. c /\ c - 1 - r \in 0 .. c - 1 /\ (c - r) - 1 = c - 1 - r
        <5> HIDE DEF r, c
        <5> QED
          BY <3>2
      <4>2. p.to[c - r] \in holes /\ Rank(p.to[c - r], holes) = c - 1 - r
        <5> HIDE DEF tail, holes, r, c
        <5> QED
          BY <1>5, <3>3, <4>1, ElementOfSeq DEF Ascends
      <4>3. Nth(c - 1 - r, holes) \in holes /\ Rank(Nth(c - 1 - r, holes), holes) = c - 1 - r
        <5> HIDE DEF tail, holes, r
        <5> QED
          BY <1>7, <4>1, NthProperties
      <4> HIDE DEF tail, holes, r, c
      <4> QED
        BY <1>7, <4>2, <4>3, RankInjective
    <3>6. o.moves[idx] = Nth(RankFromTop(idx, tail), holes)
      BY <1>2, <2>4 DEF Moves
    <3> HIDE DEF tail, holes, r, c
    <3> QED
      BY <3>1, <3>2, <3>4, <3>5, <3>6
  <2>5. ResolveInArrays(a, idx) =
          IF idx \in R THEN Missing
          ELSE IF idx \in tail THEN a.movesTo[SearchSorted(a.movesFrom, idx) + 1]
          ELSE idx
    <3> HIDE DEF tail
    <3>1. idx # Missing /\ idx < a.start /\ ~(idx >= a.start)
      BY <1>1, <1>10
    <3>2. CASE idx \in R
      BY <2>1, <3>1, <3>2 DEF ResolveInArrays
    <3>3. CASE idx \notin R /\ idx \in tail
      BY <2>1, <2>3, <3>1, <3>3 DEF ResolveInArrays
    <3>4. CASE idx \notin R /\ idx \notin tail
      BY <2>1, <2>3, <3>1, <3>4 DEF ResolveInArrays
    <3> QED
      BY <3>2, <3>3, <3>4
  <2>6. Resolve(o, idx) =
          IF idx \in R THEN Missing ELSE IF idx \in tail THEN o.moves[idx] ELSE idx
    <3> HIDE DEF tail
    <3> QED
      BY <1>2, <1>6, <1>10 DEF Resolve
  <2> HIDE DEF tail
  <2> QED
    BY <2>4, <2>5, <2>6 DEF a, o, p, R
<1> HIDE DEF tail, holes
<1> QED
  BY <1>8, <1>9, <1>10

-----------------------------------------------------------------------------
(***************************************************************************)
(* The plan of a bulk edit.                                                *)
(***************************************************************************)
\* The new size is a natural number (plan_bulk_edit removes each row once), and
\* a plan without additions adds no row and has nothing to place.
LEMMA PlanType ==
  ASSUME NEW n \in Nat, NEW nAdd \in Nat, NEW raw
  PROVE  LET plan == Plan(n, nAdd, raw)
         IN  /\ plan.newSize \in Nat
             /\ nAdd = 0 => plan.newSize <= n /\ plan.dests = <<>>
<1> DEFINE R == Normalize(n, raw)
           plan == Plan(n, nAdd, raw)
<1>1. R \in SUBSET (0 .. n - 1) /\ plan.newSize = PlanSize(n, nAdd, R)
  BY RemovalsAscend
<1>2. /\ PlanSize(n, nAdd, R) \in Nat /\ Cardinality(R) \in 0 .. n
      /\ PlanSize(n, nAdd, R) = n + nAdd - Cardinality(R)
  <2> HIDE DEF R
  <2> QED
    BY <1>1, PlanSizes
<1>3. plan.dests \in Seq(Int) /\ Len(plan.dests) = nAdd
  BY DestsArray
<1>4. nAdd = 0 => plan.dests = <<>>
  <2> HIDE DEF plan
  <2> QED
    BY <1>3, EmptySeq
<1> HIDE DEF R, plan
<1>5. plan.newSize \in Nat /\ (nAdd = 0 => plan.newSize <= n)
  BY <1>1, <1>2
<1> QED
  BY <1>4, <1>5 DEF plan

\* A batch of values is as long as it says.
LEMMA BatchType ==
  ASSUME NEW vals \in Batches
  PROVE  Len(vals) \in Nat /\ (vals = <<>> <=> Len(vals) = 0)
BY ArrayAssumption DEF Batches

\* A buffer is a function.
IsBuffer(b) == b = [i \in DOMAIN b |-> b[i]]

\* Each way the code writes the buffer leaves a buffer: one cell,
LEMMA WrittenIsBuffer ==
  ASSUME NEW b, NEW i, NEW x
  PROVE  IsBuffer([b EXCEPT ![i] = x])
BY DEF IsBuffer

\* two cells,
LEMMA ExchangedIsBuffer ==
  ASSUME NEW b, NEW i, NEW x, NEW j, NEW y
  PROVE  IsBuffer([b EXCEPT ![i] = x, ![j] = y])
BY WrittenIsBuffer

\* the buffer ensure_size allocates,
LEMMA EnsuredIsBuffer ==
  ASSUME NEW n
  PROVE  IsBuffer(EnsuredCells(n))
BY DEF IsBuffer, EnsuredCells, Put, Reallocated

\* and the one a bulk edit leaves.
LEMMA EditedIsBuffer ==
  ASSUME NEW plan, NEW vals
  PROVE  IsBuffer(Edited(plan, vals))
BY DEF IsBuffer, Edited, Place

\* An edit that does not grow the array keeps its buffer.
LEMMA EditKeepsBuffer ==
  ASSUME NEW plan, NEW vals, ~(plan.newSize > size) \/ plan.newSize <= Capacity
  PROVE  DOMAIN Edited(plan, vals) = DOMAIN cells
BY DEF Edited, Place, EnsuredCells, Put, Relocate

\* An edit that neither moves nor adds a row leaves the cells as they are.
LEMMA EmptyEdit ==
  ASSUME NEW plan, NEW vals, IsBuffer(cells),
         ~(plan.newSize > size), plan.from = <<>>, plan.dests = <<>>
  PROVE  Edited(plan, vals) = cells
<1>1. Edited(plan, vals) = Place(cells, plan, vals)
  BY DEF Edited
<1>2. DOMAIN plan.dests = {}
  OBVIOUS
<1> QED
  BY <1>1, <1>2 DEF Place, IsBuffer

(***************************************************************************)
(* The inductive invariant.                                                *)
(***************************************************************************)
\* What is cached, if anything is, is a slice of the current buffer: stronger
\* than ViewsCurrent, which forgives a stale cache of another length.
ViewOrNone == cached \in {NoView, Slice}

\* The size is a number, the cache holds nothing or a current slice, and what changed
\* is stamped.
Consistent ==
  /\ size \in Nat
  /\ IsBuffer(cells)
  /\ ViewOrNone
  /\ ChangesAreStamped

\* So `view` returns a slice of the current buffer.
LEMMA ViewIsSlice ==
  ASSUME ViewOrNone
  PROVE  View = Slice
BY DEF ViewOrNone, View

\* A new array is consistent.
LEMMA InitConsistent == Init => Consistent
BY DEF Init, Consistent, ViewOrNone, ChangesAreStamped, IsBuffer

\* A change that moves the time stamp owes the consumers nothing else.
LEMMA StampedIsEnough ==
  ASSUME Stamped
  PROVE  ChangesAreStamped'
BY DEF Stamped, ChangesAreStamped

\* The first rows may go without a stamp, as long as the others stay.
LEMMA PrefixIsEnough ==
  ASSUME Consistent, UNCHANGED <<cells, told, kind>>, size' \in Nat, size' <= size
  PROVE  ChangesAreStamped'
<1> SUFFICES ASSUME ~told.stamped, ~kind.counts
             PROVE  /\ size' <= Len(told.seen)
                    /\ \A k \in 1 .. size' : cells[k - 1] = told.seen[k]
  BY DEF ChangesAreStamped
<1>1. size <= Len(told.seen) /\ \A k \in 1 .. size : cells[k - 1] = told.seen[k]
  BY DEF Consistent, ChangesAreStamped
<1>2. \A k \in 1 .. size' : k \in 1 .. size
  BY DEF Consistent
<1>3. size' <= Len(told.seen)
  BY <1>1 DEF Consistent
<1> QED
  BY <1>1, <1>2, <1>3

\* A buffer whose capacity stays keeps its slices.
LEMMA SliceStays ==
  ASSUME DOMAIN cells' = DOMAIN cells, size' = size
  PROVE  Slice' = Slice
BY DEF Slice, Capacity

(***************************************************************************)
(* One lemma per action.                                                   *)
(***************************************************************************)
LEMMA LookKeeps ==
  ASSUME Consistent, Look
  PROVE  Consistent'
<1>1. View = Slice /\ size \in Nat
  BY ViewIsSlice DEF Consistent
<1>2. ViewOrNone'
  BY <1>1, SliceStays DEF Look, ViewOrNone
<1>3. Len(Contents) = size /\ \A k \in 1 .. size : Contents[k] = cells[k - 1]
  BY <1>1 DEF Contents
<1>4. ChangesAreStamped'
  BY <1>1, <1>3 DEF Look, ChangesAreStamped
<1> QED
  BY <1>1, <1>2, <1>4 DEF Look, Consistent

\* Writing into a cell and exchanging two cells keep the buffer.
LEMMA WritesKeep ==
  ASSUME Consistent, NEW i, NEW x, Write(i, x) \/ Accumulate(i, x)
  PROVE  Consistent'
<1>1. View = Slice /\ size \in Nat /\ size' = size /\ DOMAIN cells' = DOMAIN cells
  BY ViewIsSlice DEF Consistent, Write, Accumulate
<1>2. ViewOrNone'
  BY <1>1, SliceStays DEF Write, Accumulate, ViewOrNone
<1>3. ChangesAreStamped'
  <2>1. CASE Write(i, x)
    BY <2>1, StampedIsEnough DEF Write
  <2>2. CASE Accumulate(i, x)
    BY <2>2 DEF Accumulate, ChangesAreStamped
  <2> QED
    BY <2>1, <2>2
<1>4. IsBuffer(cells)'
  <2>1. cells' = [cells EXCEPT ![i] = x] \/ cells' = cells
    BY DEF Write, Accumulate
  <2>2. IsBuffer([cells EXCEPT ![i] = x]) /\ IsBuffer(cells)
    BY WrittenIsBuffer DEF Consistent
  <2> QED
    BY <2>1, <2>2
<1> QED
  BY <1>1, <1>2, <1>3, <1>4 DEF Consistent

\* Exchanging two rows stamps.
LEMMA SwapKeeps ==
  ASSUME Consistent, NEW a, NEW b, Swap(a, b)
  PROVE  Consistent'
<1>1. size' = size /\ DOMAIN cells' = DOMAIN cells /\ cached' = cached
  BY DEF Swap
<1>2. NoView' = NoView /\ ViewOrNone'
  BY <1>1, SliceStays DEF Consistent, ViewOrNone, NoView
<1>3. ChangesAreStamped'
  BY StampedIsEnough DEF Swap
<1>4. IsBuffer(cells)'
  BY ExchangedIsBuffer DEF Swap
<1> QED
  BY <1>1, <1>2, <1>3, <1>4 DEF Consistent

\* Operations that change the size drop the cache.
LEMMA AppendKeeps ==
  ASSUME Consistent, NEW x, AppendElement(x)
  PROVE  Consistent'
<1>1. size' \in Nat /\ ViewOrNone'
  BY DEF AppendElement, Consistent, ViewOrNone, NoView
<1>2. ChangesAreStamped'
  BY StampedIsEnough DEF AppendElement
<1>3. IsBuffer(cells)'
  BY WrittenIsBuffer DEF AppendElement
<1> QED
  BY <1>1, <1>2, <1>3 DEF Consistent

\* Removing a row drops the cache and stamps.
LEMMA RemoveKeeps ==
  ASSUME Consistent, NEW index, Remove(index)
  PROVE  Consistent'
<1>1. size \in Nat /\ -size .. size - 1 # {}
  BY DEF Consistent, Remove
<1>2. size' \in Nat /\ ViewOrNone'
  BY <1>1 DEF Remove, ViewOrNone, NoView
<1>3. ChangesAreStamped'
  BY StampedIsEnough DEF Remove
<1>4. IsBuffer(cells)'
  BY ExchangedIsBuffer DEF Remove
<1> QED
  BY <1>2, <1>3, <1>4 DEF Consistent

\* A shrinking ensure_size is the one edit of a single array without a stamp.
LEMMA EnsureSizeKeeps ==
  ASSUME Consistent, NEW n \in 0 .. MaxSize, NEW shrink \in BOOLEAN, EnsureSize(n, shrink)
  PROVE  Consistent'
<1>1. n \in Nat /\ size \in Nat
  BY DEF Consistent
<1>2. CASE UNCHANGED <<cells, size, cached, told>>
  BY <1>2 DEF EnsureSize, Consistent, ViewOrNone, NoView, Slice, Capacity,
              ChangesAreStamped, IsBuffer
<1>3. CASE n < size /\ size' = n /\ cached' = NoView /\ UNCHANGED <<cells, told>>
  <2>1. ChangesAreStamped'
    BY <1>1, <1>3, PrefixIsEnough DEF EnsureSize
  <2> QED
    BY <1>1, <1>3, <2>1 DEF Consistent, ViewOrNone, NoView, IsBuffer
<1>4. CASE size' = n /\ cells' = EnsuredCells(n) /\ cached' = NoView /\ Stamped
  <2>1. IsBuffer(cells)'
    BY <1>4, EnsuredIsBuffer
  <2> QED
    BY <1>1, <1>4, <2>1, StampedIsEnough DEF Consistent, ViewOrNone, NoView
<1> QED
  BY <1>2, <1>3, <1>4 DEF EnsureSize

(***************************************************************************)
(* The bulk edits.                                                         *)
(***************************************************************************)
\* An edit without moves and without values is a truncation.
LEMMA SilentEdit ==
  ASSUME Consistent, NEW raw, NEW vals \in Batches, vals = <<>>,
         Plan(size, Len(vals), raw).from = <<>>
  PROVE  LET plan == Plan(size, Len(vals), raw)
         IN  /\ plan.newSize \in Nat /\ plan.newSize <= size
             /\ Edited(plan, vals) = cells
<1> DEFINE plan == Plan(size, Len(vals), raw)
<1>1. size \in Nat /\ Len(vals) = 0
  BY BatchType DEF Consistent
<1>2. plan.newSize \in Nat /\ plan.newSize <= size /\ plan.dests = <<>>
  BY <1>1, PlanType
<1>3. ~(plan.newSize > size)
  BY <1>1, <1>2
<1> QED
  BY <1>2, <1>3, EmptyEdit DEF Consistent

\* A bulk edit stamps unless it only truncates.
LEMMA BulkEditKeeps ==
  ASSUME Consistent, NEW vals \in Batches, NEW raw, BulkEdit(vals, raw)
  PROVE  Consistent'
<1> DEFINE plan == Plan(size, Len(vals), raw)
           fits == plan.newSize <= Capacity
<1>1. View = Slice /\ size \in Nat /\ Len(vals) \in Nat
  BY ViewIsSlice, BatchType DEF Consistent
<1>2. plan.newSize \in Nat
  BY <1>1, PlanType
<1>3. CASE cached' = View /\ UNCHANGED <<cells, size, told>>
  BY <1>1, <1>3 DEF BulkEdit, Consistent, ViewOrNone, Slice, Capacity,
                    ChangesAreStamped, IsBuffer
<1>4. CASE /\ size' = plan.newSize
           /\ cells' = IF fits THEN Edited(plan, vals) ELSE cells
           /\ cached' = IF View.len = size' THEN View
                        ELSE [cap |-> Capacity, len |-> size']
           /\ IF plan.from # <<>> \/ vals # <<>> THEN Stamped ELSE UNCHANGED told
  <2>1. DOMAIN cells' = DOMAIN cells
    BY <1>4, EditKeepsBuffer
  <2>2. ViewOrNone'
    BY <1>1, <1>4, <2>1 DEF ViewOrNone, Slice, Capacity
  <2>3. ChangesAreStamped'
    <3>1. CASE plan.from # <<>> \/ vals # <<>>
      BY <1>4, <3>1, StampedIsEnough
    <3>2. CASE plan.from = <<>> /\ vals = <<>>
      <4>1. plan.newSize <= size /\ Edited(plan, vals) = cells
        BY <3>2, SilentEdit
      <4> QED
        BY <1>2, <1>4, <3>2, <4>1, PrefixIsEnough DEF BulkEdit
    <3> QED
      BY <3>1, <3>2
  <2>4. IsBuffer(cells)'
    BY <1>4, EditedIsBuffer DEF Consistent
  <2> QED
    BY <1>2, <1>4, <2>2, <2>3, <2>4 DEF Consistent
<1> QED
  BY <1>3, <1>4 DEF BulkEdit

\* apply_bulk_edit_plan may keep the size of an array that is to shrink.
LEMMA ApplyPlanKeeps ==
  ASSUME Consistent, NEW vals \in Batches, NEW removals, NEW skipShrink \in BOOLEAN,
         ApplyPlan(vals, removals, skipShrink)
  PROVE  Consistent'
<1> DEFINE plan == Plan(size, Len(vals), removals)
           n == plan.newSize
           keep == n < size /\ skipShrink
<1>1. View = Slice /\ size \in Nat /\ Len(vals) \in Nat
  BY ViewIsSlice, BatchType DEF Consistent
<1>2. n \in Nat
  BY <1>1, PlanType
<1>3. /\ cells' = Edited(plan, vals)
      /\ size' = IF keep THEN size ELSE n
      /\ cached' = IF keep THEN View
                   ELSE [cap |-> Cardinality(DOMAIN cells'), len |-> n]
      /\ IF plan.from # <<>> \/ vals # <<>> \/ n >= size THEN Stamped ELSE UNCHANGED told
      /\ UNCHANGED kind
  BY DEF ApplyPlan
<1>4. ViewOrNone'
  <2>1. CASE keep
    <3>1. DOMAIN cells' = DOMAIN cells
      BY <1>1, <1>2, <1>3, <2>1, EditKeepsBuffer
    <3> QED
      BY <1>1, <1>3, <2>1, <3>1, SliceStays DEF ViewOrNone
  <2>2. CASE ~keep
    BY <1>3, <2>2 DEF ViewOrNone, Slice, Capacity
  <2> QED
    BY <2>1, <2>2
<1>5. ChangesAreStamped'
  <2>1. CASE plan.from # <<>> \/ vals # <<>> \/ n >= size
    BY <1>3, <2>1, StampedIsEnough
  <2>2. CASE plan.from = <<>> /\ vals = <<>> /\ ~(n >= size)
    <3>1. Edited(plan, vals) = cells
      BY <2>2, SilentEdit
    <3>2. size' \in Nat /\ size' <= size
      BY <1>1, <1>2, <1>3, <2>2
    <3> QED
      BY <1>3, <2>2, <3>1, <3>2, PrefixIsEnough
  <2> QED
    BY <2>1, <2>2
<1>6. IsBuffer(cells)'
  BY <1>3, EditedIsBuffer
<1>7. size' \in Nat
  BY <1>1, <1>2, <1>3
<1> QED
  BY <1>4, <1>5, <1>6, <1>7 DEF Consistent

\* The edit a commit makes.
LEMMA MaterializeKeeps ==
  ASSUME Consistent, NEW vals \in Batches, NEW removals, NEW staged \in BOOLEAN,
         Materialize(vals, removals, staged)
  PROVE  Consistent'
<1> DEFINE plan == Plan(size, Len(vals), removals)
           n == plan.newSize
<1>1. View = Slice /\ size \in Nat /\ Len(vals) \in Nat
  BY ViewIsSlice, BatchType DEF Consistent
<1>2. n \in Nat
  BY <1>1, PlanType
<1>3. /\ vals # <<>> => staged
      /\ cells' = Edited(plan, vals)
      /\ size' = n
      /\ cached' = IF n < size THEN NoView
                   ELSE IF n = size THEN View
                   ELSE [cap |-> Cardinality(DOMAIN cells'), len |-> n]
      /\ IF plan.from # <<>> \/ staged THEN Stamped ELSE UNCHANGED told
      /\ UNCHANGED kind
  BY DEF Materialize
<1>4. ViewOrNone'
  <2>1. CASE n < size
    BY <1>3, <2>1 DEF ViewOrNone, NoView
  <2>2. CASE n = size
    <3>1. DOMAIN cells' = DOMAIN cells
      BY <1>1, <1>3, <2>2, EditKeepsBuffer
    <3> QED
      BY <1>1, <1>3, <2>2, <3>1, SliceStays DEF ViewOrNone
  <2>3. CASE n > size
    BY <1>1, <1>2, <1>3, <2>3 DEF ViewOrNone, Slice, Capacity
  <2> QED
    BY <1>1, <1>2, <2>1, <2>2, <2>3
<1>5. ChangesAreStamped'
  <2>1. CASE plan.from # <<>> \/ staged
    BY <1>3, <2>1, StampedIsEnough
  <2>2. CASE plan.from = <<>> /\ ~staged
    <3>1. vals = <<>>
      BY <1>3, <2>2
    <3>2. Edited(plan, vals) = cells /\ n <= size
      BY <2>2, <3>1, SilentEdit
    <3> QED
      BY <1>2, <1>3, <2>2, <3>2, PrefixIsEnough
  <2> QED
    BY <2>1, <2>2
<1>6. IsBuffer(cells)'
  BY <1>3, EditedIsBuffer
<1> QED
  BY <1>2, <1>3, <1>4, <1>5, <1>6 DEF Consistent

(***************************************************************************)
(* The theorems.                                                           *)
(***************************************************************************)
THEOREM AlwaysConsistent == Spec => []Consistent
<1>1. Init => Consistent
  BY InitConsistent
<1>2. Consistent /\ [Next]_arrayVars => Consistent'
  <2> SUFFICES ASSUME Consistent, [Next]_arrayVars PROVE Consistent'
    OBVIOUS
  <2>1. CASE Look
    BY <2>1, LookKeeps
  <2>2. CASE \E i \in 0 .. size - 1, x \in Values : Write(i, x) \/ Accumulate(i, x)
    BY <2>2, WritesKeep
  <2>3. CASE \E x \in Values : AppendElement(x)
    BY <2>3, AppendKeeps
  <2>4. CASE \E n \in 0 .. MaxSize, shrink \in BOOLEAN : EnsureSize(n, shrink)
    BY <2>4, EnsureSizeKeeps
  <2>5. CASE \E i \in -size .. size - 1 : Remove(i)
    BY <2>5, RemoveKeeps
  <2>6. CASE \E i \in -size .. size - 1, j \in 0 .. size - 1 : Swap(i, j)
    BY <2>6, SwapKeeps
  <2>7. CASE \E vals \in Batches, raw \in Requests : BulkEdit(vals, raw)
    BY <2>7, BulkEditKeeps
  <2>8. CASE \E vals \in Batches, S \in SUBSET (0 .. size - 1), skip \in BOOLEAN :
               ApplyPlan(vals, S, skip)
    BY <2>8, ApplyPlanKeeps
  <2>9. CASE \E vals \in Batches, S \in SUBSET (0 .. size - 1), staged \in BOOLEAN :
               Materialize(vals, S, staged)
    BY <2>9, MaterializeKeeps
  <2>10. CASE UNCHANGED arrayVars
    BY <2>10 DEF arrayVars, Consistent, ViewOrNone, Slice, Capacity, NoView,
                 ChangesAreStamped, IsBuffer
  <2> QED
    BY <2>1, <2>2, <2>3, <2>4, <2>5, <2>6, <2>7, <2>8, <2>9, <2>10 DEF Next
<1> QED
  BY <1>1, <1>2, PTL DEF Spec

\* Whatever the cache holds, `view` returns a slice of the buffer in use.
THEOREM ViewsAreCurrent == Spec => []ViewsCurrent
<1>1. Consistent => ViewsCurrent
  BY ViewIsSlice DEF Consistent, ViewsCurrent
<1> QED
  BY <1>1, AlwaysConsistent, PTL

\* Whoever goes by the time stamp misses no change but the loss of last rows.
THEOREM StampsTellOfChanges == Spec => []ChangesAreStamped
<1>1. Consistent => ChangesAreStamped
  BY DEF Consistent
<1> QED
  BY <1>1, AlwaysConsistent, PTL

(***************************************************************************)
(* Type correctness.  Room is made by doubling until what is asked for     *)
(* fits; an edit by a plan writes values into cells and moves cells.       *)
(***************************************************************************)
\* A buffer of some capacity, its cells filled with values.
Buffer(b) == \E c \in Nat : b \in [0 .. c - 1 -> Values]

\* The capacity is the number of cells.
LEMMA BufferCapacity ==
  ASSUME NEW b, NEW c \in Nat, DOMAIN b = 0 .. c - 1
  PROVE  Cardinality(DOMAIN b) = c
<1>1. 0 \in Int /\ c - 1 \in Int
  OBVIOUS
<1>2. Cardinality(0 .. c - 1) = IF 0 > c - 1 THEN 0 ELSE (c - 1) - 0 + 1
  BY <1>1, FS_Interval
<1> QED
  BY <1>2

\* What ensure_size grows to is enough.
LEMMA GrownIsEnough ==
  ASSUME NEW n \in Nat, Capacity \in Nat, kind \in Kinds
  PROVE  GrownCapacity(n) \in Nat /\ GrownCapacity(n) >= n /\ GrownCapacity(n) >= Capacity
<1> DEFINE Grow(x) == IF x >= n THEN x ELSE Larger(x * kind.factor, x + 1)
           F == [k \in 1 .. n |-> [x \in Nat |-> Grow(x)]]
           Eq(f) == f = [k \in 0 .. n |-> IF k = 0 THEN Capacity ELSE Grow(f[k - 1])]
           c == CHOOSE f : Eq(f)
<1>1. ASSUME NEW x \in Nat
      PROVE  Grow(x) \in Nat /\ Grow(x) >= x /\ (x < n => Grow(x) >= x + 1)
  <2>1. kind.factor = 2 \/ kind.factor = 0
    BY DEF Kinds
  <2>2. x * kind.factor \in Nat
    <3>1. CASE kind.factor = 2
      BY <3>1
    <3>2. CASE kind.factor = 0
      BY <3>2
    <3> QED
      BY <2>1, <3>1, <3>2
  <2> DEFINE y == x * kind.factor
  <2> HIDE DEF y
  <2>3. Larger(y, x + 1) \in Nat /\ Larger(y, x + 1) >= x + 1
    BY <2>2 DEF Larger, y
  <2>4. Grow(x) = IF x >= n THEN x ELSE Larger(y, x + 1)
    BY DEF y
  <2> HIDE DEF Grow
  <2> QED
    BY <2>3, <2>4
<1>2. IsStep(F, n, Nat)
  <2> HIDE DEF Grow
  <2> QED
    BY <1>1 DEF IsStep
<1>3. PICK v : Follows(v, n, Nat, Capacity, F)
  <2> HIDE DEF F
  <2> QED
    BY <1>2, RecursionUpTo
<1>4. v \in [0 .. n -> Nat] /\ v[0] = Capacity /\ \A k \in 1 .. n : v[k] = F[k][v[k - 1]]
  <2> HIDE DEF F
  <2> QED
    BY <1>3 DEF Follows
<1>5. ASSUME NEW k \in 1 .. n PROVE v[k] = Grow(v[k - 1])
  <2>1. k - 1 \in 0 .. n
    OBVIOUS
  <2>2. v[k - 1] \in Nat
    BY <1>4, <2>1
  <2> HIDE DEF Grow
  <2>3. F[k][v[k - 1]] = Grow(v[k - 1])
    BY <2>2
  <2> HIDE DEF F
  <2> QED
    BY <1>4, <2>3
<1>6. Eq(v)
  <2> HIDE DEF Grow, F
  <2>1. \A k \in 0 .. n : v[k] = IF k = 0 THEN Capacity ELSE Grow(v[k - 1])
    BY <1>4, <1>5
  <2> QED
    BY <1>4, <2>1
<1>7. Eq(c)
  <2> HIDE DEF Eq
  <2> QED
    BY <1>6
<1>8. GrownCapacity(n) = c[n]
  BY DEF GrownCapacity
<1>9. c[0] = Capacity /\ \A k \in 1 .. n : c[k] = Grow(c[k - 1])
  <2>1. c = [k \in 0 .. n |-> IF k = 0 THEN Capacity ELSE Grow(c[k - 1])]
    BY <1>7
  <2> HIDE DEF c, Grow
  <2> QED
    BY <2>1
<1> HIDE DEF c
<1> DEFINE P == {k \in 0 .. n : /\ c[k] \in Nat /\ c[k] >= Capacity
                                /\ c[k] >= n \/ c[k] >= Capacity + k}
<1>10. 0 \in P
  BY <1>9
<1>11. ASSUME NEW k \in 1 .. n, k - 1 \in P PROVE k \in P
  <2>1. /\ c[k - 1] \in Nat /\ c[k - 1] >= Capacity
        /\ c[k - 1] >= n \/ c[k - 1] >= Capacity + (k - 1)
    BY <1>11
  <2>2. /\ c[k] = Grow(c[k - 1]) /\ Grow(c[k - 1]) \in Nat /\ Grow(c[k - 1]) >= c[k - 1]
        /\ c[k - 1] < n => Grow(c[k - 1]) >= c[k - 1] + 1
    BY <1>1, <1>9, <2>1
  <2> HIDE DEF Grow
  <2> QED
    BY <2>1, <2>2
<1>12. \A k \in 0 .. n : k \in P
  <2> HIDE DEF P
  <2> QED
    BY <1>10, <1>11, InductionUpTo
<1>13. n \in P
  BY <1>12
<1> QED
  BY <1>8, <1>13

\* What TypeOK says and Consistent does not, with the bound on the size; the two
\* are inductive together, as long as bulk edits fit.
Typed ==
  /\ Sound
  /\ size <= MaxSize
  /\ Buffer(cells)
  /\ told \in [seen : Seq(Values), stamped : BOOLEAN]
  /\ kind \in Kinds

\* The buffer is as long as its capacity, which is a number.
LEMMA CellsTyped ==
  ASSUME Buffer(cells)
  PROVE  Capacity \in Nat /\ cells \in [0 .. Capacity - 1 -> Values]
<1>1. PICK c \in Nat : cells \in [0 .. c - 1 -> Values]
  BY DEF Buffer
<1>2. Capacity = c
  BY <1>1, BufferCapacity DEF Capacity
<1> QED
  BY <1>1, <1>2

\* A write of a value, and an exchange of two cells, leave a buffer.
LEMMA WrittenTyped ==
  ASSUME NEW c \in Nat, NEW b \in [0 .. c - 1 -> Values], NEW i, NEW x \in Values
  PROVE  [b EXCEPT ![i] = x] \in [0 .. c - 1 -> Values]
OBVIOUS

\* A new buffer takes over the cells in use.
LEMMA ReallocatedTyped ==
  ASSUME NEW c \in Nat, NEW b \in [0 .. c - 1 -> Values],
         NEW n \in 0 .. c, NEW capacity \in Nat
  PROVE  Reallocated(b, n, capacity) \in [0 .. capacity - 1 -> Values]
<1> SUFFICES ASSUME NEW i \in 0 .. capacity - 1
             PROVE (IF i < n THEN b[i] ELSE Fill) \in Values
  BY DEF Reallocated
<1>1. i < n => i \in 0 .. c - 1
  OBVIOUS
<1>2. i < n => b[i] \in Values
  BY <1>1
<1> QED
  BY <1>2, ArrayAssumption

\* Making room for n keeps the cells in use and has room for n.
LEMMA EnsuredTyped ==
  ASSUME Buffer(cells), size \in Nat, Sound, kind \in Kinds, NEW n \in Nat
  PROVE  /\ Buffer(EnsuredCells(n))
         /\ n <= Cardinality(DOMAIN EnsuredCells(n))
         /\ 0 .. n - 1 \subseteq DOMAIN EnsuredCells(n)
         /\ \A i \in 0 .. size - 1 : i < n => EnsuredCells(n)[i] = cells[i]
<1>1. Capacity \in Nat /\ cells \in [0 .. Capacity - 1 -> Values] /\ size \in 0 .. Capacity
  BY CellsTyped DEF Sound
<1>2. Fill \in Values
  BY ArrayAssumption
<1>3. CASE n <= Capacity
  <2> DEFINE b == Put(cells, size .. n - 1, Fill)
  <2>1. EnsuredCells(n) = b
    BY <1>3 DEF EnsuredCells
  <2>2. b \in [0 .. Capacity - 1 -> Values]
    BY <1>1, <1>2 DEF Put
  <2>3. \A i \in 0 .. size - 1 : b[i] = cells[i]
    <3> SUFFICES ASSUME NEW i \in 0 .. size - 1 PROVE b[i] = cells[i]
      OBVIOUS
    <3>1. i \in 0 .. Capacity - 1 /\ i \notin size .. n - 1
      BY <1>1
    <3> QED
      BY <1>1, <3>1 DEF Put
  <2>4. DOMAIN b = 0 .. Capacity - 1 /\ Cardinality(DOMAIN b) = Capacity
    <3> HIDE DEF b
    <3>1. DOMAIN b = 0 .. Capacity - 1
      BY <2>2
    <3> QED
      BY <1>1, <3>1, BufferCapacity
  <2>5. 0 .. n - 1 \subseteq 0 .. Capacity - 1
    BY <1>1, <1>3
  <2> HIDE DEF b
  <2> QED
    BY <1>1, <1>3, <2>1, <2>2, <2>3, <2>4, <2>5 DEF Buffer
<1>4. CASE ~(n <= Capacity)
  <2> DEFINE c == GrownCapacity(n)
             b == Reallocated(cells, size, c)
  <2>1. EnsuredCells(n) = b
    BY <1>4 DEF EnsuredCells
  <2>2. c \in Nat /\ c >= n /\ c >= Capacity
    BY <1>1, GrownIsEnough
  <2> HIDE DEF c
  <2>3. b \in [0 .. c - 1 -> Values]
    BY <1>1, <2>2, ReallocatedTyped
  <2>4. \A i \in 0 .. size - 1 : b[i] = cells[i]
    <3> SUFFICES ASSUME NEW i \in 0 .. size - 1 PROVE b[i] = cells[i]
      OBVIOUS
    <3>1. i \in 0 .. c - 1 /\ i < size
      BY <1>1, <2>2
    <3> QED
      BY <3>1 DEF Reallocated
  <2>5. DOMAIN b = 0 .. c - 1 /\ Cardinality(DOMAIN b) = c
    <3> HIDE DEF b
    <3>1. DOMAIN b = 0 .. c - 1
      BY <2>3
    <3> QED
      BY <2>2, <3>1, BufferCapacity
  <2>6. 0 .. n - 1 \subseteq 0 .. c - 1 /\ n <= c
    BY <2>2
  <2> HIDE DEF b
  <2> QED
    BY <2>1, <2>2, <2>3, <2>4, <2>5, <2>6 DEF Buffer
<1> QED
  BY <1>3, <1>4

\* Moving rows keeps the buffer: what is moved is in use.
LEMMA RelocatedTyped ==
  ASSUME Buffer(cells), size \in Nat, Sound, NEW nAdd \in Nat, NEW raw
  PROVE  LET b == Relocate(cells, Plan(size, nAdd, raw))
         IN  b \in [0 .. Capacity - 1 -> Values]
<1> DEFINE R == Normalize(size, raw)
           plan == Plan(size, nAdd, raw)
           tail == TailSurvivors(size, nAdd, R)
           holes == OpenHoles(size, nAdd, R)
<1>1. Capacity \in Nat /\ cells \in [0 .. Capacity - 1 -> Values] /\ size \in 0 .. Capacity
  BY CellsTyped DEF Sound
<1>2. Descends(plan.from, tail) /\ Ascends(plan.to, holes)
  BY RelocationArrays
<1>3. R \in SUBSET (0 .. size - 1)
  BY RemovalsAscend
<1> HIDE DEF R, plan
<1>4. Cardinality(tail) = Cardinality(holes) /\ tail \subseteq 0 .. size - 1
  <2>1. PlanSize(size, nAdd, R) \in Nat
    BY <1>3, PlanSizes
  <2>2. tail \subseteq 0 .. size - 1
    BY <2>1 DEF TailSurvivors
  <2> QED
    BY <1>3, <2>2, TailFitsHoles
<1> HIDE DEF tail, holes
<1>5. DOMAIN plan.to = 1 .. Len(plan.from) /\ plan.from \in Seq(tail)
  BY <1>2, <1>4, LenProperties DEF Ascends, Descends
<1>6. \A k \in DOMAIN plan.to : plan.from[k] \in 0 .. Capacity - 1
  <2> SUFFICES ASSUME NEW k \in DOMAIN plan.to PROVE plan.from[k] \in 0 .. Capacity - 1
    OBVIOUS
  <2>1. plan.from[k] \in tail
    BY <1>5, ElementOfSeq
  <2>2. plan.from[k] \in 0 .. size - 1
    BY <1>4, <2>1
  <2> QED
    BY <1>1, <2>2
<1>7. \A k \in DOMAIN plan.to : cells[plan.from[k]] \in Values
  BY <1>1, <1>6
<1>8. Relocate(cells, plan) \in [0 .. Capacity - 1 -> Values]
  <2> SUFFICES ASSUME NEW i \in 0 .. Capacity - 1
               PROVE  (IF \E k \in DOMAIN plan.to : plan.to[k] = i
                         THEN cells[plan.from[CHOOSE k \in DOMAIN plan.to : plan.to[k] = i]]
                         ELSE cells[i]) \in Values
    BY <1>1 DEF Relocate
  <2>1. CASE \E k \in DOMAIN plan.to : plan.to[k] = i
    <3>1. (CHOOSE k \in DOMAIN plan.to : plan.to[k] = i) \in DOMAIN plan.to
      BY <2>1
    <3> QED
      BY <1>7, <2>1, <3>1
  <2>2. CASE ~(\E k \in DOMAIN plan.to : plan.to[k] = i)
    BY <1>1, <2>2
  <2> QED
    BY <2>1, <2>2
<1> QED
  BY <1>8 DEF plan

\* Placing a batch keeps the buffer: there is a value for every destination.
LEMMA PlacedTyped ==
  ASSUME NEW c \in Nat, NEW b \in [0 .. c - 1 -> Values], NEW vals \in Seq(Values),
         NEW n \in Nat, NEW raw
  PROVE  Place(b, Plan(n, Len(vals), raw), vals) \in [0 .. c - 1 -> Values]
<1> DEFINE plan == Plan(n, Len(vals), raw)
<1>1. Len(vals) \in Nat
  BY LenProperties
<1>2. plan.dests \in Seq(Int) /\ Len(plan.dests) = Len(vals)
  <2> DEFINE l == Len(vals)
  <2> HIDE DEF l
  <2>1. l \in Nat
    BY <1>1 DEF l
  <2>2. Plan(n, l, raw).dests \in Seq(Int) /\ Len(Plan(n, l, raw).dests) = l
    BY <2>1, DestsArray
  <2> QED
    BY <2>2 DEF l
<1>3. \A k \in DOMAIN plan.dests : vals[k] \in Values
  <2> HIDE DEF plan
  <2>1. DOMAIN plan.dests = 1 .. Len(vals)
    BY <1>2, LenProperties
  <2> QED
    BY <2>1, ElementOfSeq
<1> HIDE DEF plan
<1> SUFFICES ASSUME NEW i \in 0 .. c - 1
             PROVE  (IF \E k \in DOMAIN plan.dests : plan.dests[k] = i
                       THEN vals[CHOOSE k \in DOMAIN plan.dests : plan.dests[k] = i]
                       ELSE b[i]) \in Values
  BY DEF Place, plan
<1>4. CASE \E k \in DOMAIN plan.dests : plan.dests[k] = i
  <2>1. (CHOOSE k \in DOMAIN plan.dests : plan.dests[k] = i) \in DOMAIN plan.dests
    BY <1>4
  <2> QED
    BY <1>3, <1>4, <2>1
<1>5. CASE ~(\E k \in DOMAIN plan.dests : plan.dests[k] = i)
  BY <1>5
<1> QED
  BY <1>4, <1>5

\* So an edit by a plan leaves a buffer, with room for the new size.
LEMMA EditedTyped ==
  ASSUME Buffer(cells), size \in Nat, Sound, kind \in Kinds,
         NEW vals \in Seq(Values), NEW raw
  PROVE  LET plan == Plan(size, Len(vals), raw)
         IN  /\ Buffer(Edited(plan, vals))
             /\ plan.newSize > size =>
                  plan.newSize <= Cardinality(DOMAIN Edited(plan, vals))
<1> DEFINE plan == Plan(size, Len(vals), raw)
           N == plan.newSize
           base == IF N > size THEN EnsuredCells(N)
                   ELSE IF plan.from = <<>> THEN cells ELSE Relocate(cells, plan)
<1>1. Len(vals) \in Nat
  BY LenProperties
<1>2. N \in Nat
  BY <1>1, PlanType
<1>3. Edited(plan, vals) = Place(base, plan, vals)
  BY DEF Edited
<1>4. Buffer(base) /\ (N > size => N <= Cardinality(DOMAIN base))
  <2>1. CASE N > size
    <3>1. base = EnsuredCells(N)
      BY <2>1
    <3> HIDE DEF base, N
    <3> QED
      BY <1>2, <3>1, EnsuredTyped
  <2>2. CASE ~(N > size) /\ plan.from = <<>>
    <3>1. base = cells
      BY <2>2
    <3> HIDE DEF base, N
    <3> QED
      BY <2>2, <3>1
  <2>3. CASE ~(N > size) /\ plan.from # <<>>
    <3>1. base = Relocate(cells, plan)
      BY <2>3
    <3>2. Capacity \in Nat
      BY CellsTyped
    <3>3. Relocate(cells, plan) \in [0 .. Capacity - 1 -> Values]
      BY <1>1, RelocatedTyped
    <3>4. Buffer(base)
      <4> HIDE DEF base, plan
      <4> QED
        BY <3>1, <3>2, <3>3 DEF Buffer
    <3> HIDE DEF base, N
    <3> QED
      BY <2>3, <3>4
  <2> QED
    BY <2>1, <2>2, <2>3
<1> HIDE DEF base
<1>5. PICK c \in Nat : base \in [0 .. c - 1 -> Values]
  BY <1>4 DEF Buffer
<1>6. Place(base, plan, vals) \in [0 .. c - 1 -> Values]
  BY <1>5, PlacedTyped
<1>7. DOMAIN Place(base, plan, vals) = DOMAIN base
  BY DEF Place
<1> HIDE DEF plan, N
<1>8. Buffer(Edited(plan, vals))
  BY <1>3, <1>6 DEF Buffer
<1>9. N > size => N <= Cardinality(DOMAIN Edited(plan, vals))
  BY <1>3, <1>4, <1>7
<1> QED
  BY <1>8, <1>9 DEF plan, N

\* A batch is a sequence of values.
LEMMA BatchIsSeq ==
  ASSUME NEW vals \in Batches
  PROVE  vals \in Seq(Values) /\ Len(vals) \in 0 .. MaxBatch
<1>1. PICK n \in 0 .. MaxBatch : vals \in [1 .. n -> Values]
  BY DEF Batches
<1>2. n \in Nat
  BY ArrayAssumption
<1> QED
  BY <1>1, <1>2

\* A step that leaves a buffer, a size within it and what consumers know in
\* order leaves everything in order.
LEMMA TypedParts ==
  ASSUME Typed, Buffer(cells'), Cardinality(DOMAIN cells') >= size', size' <= MaxSize,
         Stamped \/ UNCHANGED told, UNCHANGED kind, size' \in Nat
  PROVE  Typed'
<1>1. told' \in [seen : Seq(Values), stamped : BOOLEAN]
  <2>1. <<>> \in Seq(Values)
    BY EmptySeq
  <2>2. CASE Stamped
    <3>1. told' = [seen |-> <<>>, stamped |-> TRUE]
      BY <2>2 DEF Stamped
    <3> QED
      BY <2>1, <3>1
  <2>3. CASE UNCHANGED told
    BY <2>3 DEF Typed
  <2> QED
    BY <2>2, <2>3
<1>2. Buffer(cells)' /\ Sound'
  <2>1. Cardinality(DOMAIN cells') \in Nat
    BY BufferCapacity DEF Buffer
  <2> QED
    BY <2>1 DEF Buffer, Sound, Capacity
<1> QED
  BY <1>1, <1>2 DEF Typed, Kinds

\* What the parts of the invariant say of the state before a step.
LEMMA TypedFacts ==
  ASSUME Consistent, Typed
  PROVE  /\ size \in Nat /\ size <= MaxSize /\ MaxSize \in Nat
         /\ Capacity \in Nat /\ size <= Capacity
         /\ cells \in [0 .. Capacity - 1 -> Values]
         /\ \A c \in Nat : \A b \in [0 .. c - 1 -> Values] :
              Buffer(b) /\ Cardinality(DOMAIN b) = c
<1>1. \A c \in Nat : \A b \in [0 .. c - 1 -> Values] : Buffer(b) /\ Cardinality(DOMAIN b) = c
  <2> SUFFICES ASSUME NEW c \in Nat, NEW b \in [0 .. c - 1 -> Values]
               PROVE  Buffer(b) /\ Cardinality(DOMAIN b) = c
    OBVIOUS
  <2>1. DOMAIN b = 0 .. c - 1
    OBVIOUS
  <2> QED
    BY <2>1, BufferCapacity DEF Buffer
<1> QED
  BY <1>1, CellsTyped, ArrayAssumption DEF Consistent, Typed, Sound

\* A consumer that looks remembers values.
LEMMA LookTyped ==
  ASSUME Consistent, Typed, Look
  PROVE  Typed'
<1>1. Contents \in Seq(Values)
  <2> SUFFICES ASSUME NEW k \in 1 .. size PROVE cells[k - 1] \in Values
    BY TypedFacts DEF Contents
  <2>1. k - 1 \in 0 .. Capacity - 1
    BY TypedFacts
  <2> QED
    BY <2>1, TypedFacts
<1>2. told' \in [seen : Seq(Values), stamped : BOOLEAN]
  BY <1>1 DEF Look
<1> QED
  BY <1>2 DEF Look, Typed, Sound, Capacity, Buffer, Kinds

\* Writing into a row leaves values.
LEMMA WritesTyped ==
  ASSUME Consistent, Typed, NEW i \in 0 .. size - 1, NEW x \in Values,
         Write(i, x) \/ Accumulate(i, x)
  PROVE  Typed'
<1>1. cells' = [cells EXCEPT ![i] = x] \/ cells' = cells
  BY DEF Write, Accumulate
<1>2. cells' \in [0 .. Capacity - 1 -> Values]
  BY <1>1, TypedFacts
<1>3. Buffer(cells') /\ Cardinality(DOMAIN cells') = Capacity
  BY <1>2, TypedFacts
<1>4. size' = size /\ UNCHANGED kind /\ (Stamped \/ UNCHANGED told)
  BY DEF Write, Accumulate
<1> QED
  BY <1>3, <1>4, TypedFacts, TypedParts

\* Appending grows the buffer when it is full, and leaves values.
LEMMA AppendTyped ==
  ASSUME Consistent, Typed, NEW x \in Values, AppendElement(x)
  PROVE  Typed'
<1> DEFINE more == Larger(Capacity * kind.factor, Capacity + 1)
           c == IF size < Capacity THEN Capacity ELSE more
           b == IF size < Capacity THEN cells ELSE Reallocated(cells, size, more)
<1>1. kind.factor = 2 \/ kind.factor = 0
  BY DEF Typed, Kinds
<1>2. more \in Nat /\ more >= Capacity + 1
  <2>1. Capacity * kind.factor \in Nat
    <3>1. CASE kind.factor = 2
      BY <3>1, TypedFacts
    <3>2. CASE kind.factor = 0
      BY <3>2, TypedFacts
    <3> QED
      BY <1>1, <3>1, <3>2
  <2> DEFINE y == Capacity * kind.factor
  <2> HIDE DEF y
  <2>2. Larger(y, Capacity + 1) \in Nat /\ Larger(y, Capacity + 1) >= Capacity + 1
    BY <2>1, TypedFacts DEF Larger, y
  <2> QED
    BY <2>2 DEF y
<1> HIDE DEF more
<1>3. c \in Nat /\ c > size /\ b \in [0 .. c - 1 -> Values]
  <2>1. CASE size < Capacity
    BY <2>1, TypedFacts
  <2>2. CASE ~(size < Capacity)
    <3>1. size \in 0 .. Capacity
      BY TypedFacts
    <3>2. Reallocated(cells, size, more) \in [0 .. more - 1 -> Values]
      BY <1>2, <3>1, TypedFacts, ReallocatedTyped
    <3> QED
      BY <1>2, <2>2, <3>2, TypedFacts
  <2> QED
    BY <2>1, <2>2
<1> HIDE DEF c
<1>4. cells' = [b EXCEPT ![size] = x]
  BY DEF AppendElement, more
<1> HIDE DEF b
<1>5. cells' \in [0 .. c - 1 -> Values]
  BY <1>3, <1>4
<1>6. Buffer(cells') /\ Cardinality(DOMAIN cells') = c
  BY <1>3, <1>5, TypedFacts
<1>7. size' = size + 1 /\ size < MaxSize /\ UNCHANGED kind /\ Stamped
  BY DEF AppendElement
<1> QED
  BY <1>3, <1>6, <1>7, TypedFacts, TypedParts

\* ensure_size leaves a buffer at least as long as the size.
LEMMA EnsureSizeTyped ==
  ASSUME Consistent, Typed, NEW n \in 0 .. MaxSize, NEW shrink \in BOOLEAN,
         EnsureSize(n, shrink)
  PROVE  Typed'
<1>1. n \in Nat /\ n <= MaxSize
  BY TypedFacts
<1>2. UNCHANGED kind
  BY DEF EnsureSize
<1>3. Buffer(cells) /\ Cardinality(DOMAIN cells) = Capacity
  BY DEF Typed, Capacity
<1>4. CASE UNCHANGED <<cells, size, cached, told>>
  BY <1>2, <1>3, <1>4, TypedFacts, TypedParts
<1>5. CASE n < size /\ size' = n /\ UNCHANGED <<cells, told>>
  BY <1>1, <1>2, <1>3, <1>5, TypedFacts, TypedParts
<1>6. CASE cells' = EnsuredCells(n) /\ size' = n /\ Stamped
  <2>1. Buffer(EnsuredCells(n)) /\ n <= Cardinality(DOMAIN EnsuredCells(n))
    BY <1>1, TypedFacts, EnsuredTyped DEF Typed
  <2>2. Cardinality(DOMAIN EnsuredCells(n)) \in Nat
    BY <2>1, BufferCapacity DEF Buffer
  <2>3. Buffer(cells') /\ Cardinality(DOMAIN cells') >= size' /\ size' <= MaxSize /\ size' \in Nat
    BY <1>1, <1>6, <2>1, <2>2
  <2> QED
    BY <1>2, <1>6, <2>3, TypedParts
<1> QED
  BY <1>4, <1>5, <1>6 DEF EnsureSize

\* Removing a row fills the freed cell.
LEMMA RemoveTyped ==
  ASSUME Consistent, Typed, NEW index \in -size .. size - 1, Remove(index)
  PROVE  Typed'
<1> DEFINE i == IF index < 0 THEN index + size ELSE index
           b == [cells EXCEPT ![i] = Fill]
<1>1. i \in 0 .. size - 1 /\ size - 1 \in 0 .. size - 1 /\ size - 1 \in Nat
  BY TypedFacts
<1>2. b \in [0 .. Capacity - 1 -> Values]
  BY TypedFacts, ArrayAssumption
<1>3. cells' = [b EXCEPT ![i] = b[size - 1], ![size - 1] = b[i]]
  BY DEF Remove
<1> HIDE DEF b
<1>4. b[size - 1] \in Values /\ b[i] \in Values
  <2>1. size - 1 \in 0 .. Capacity - 1 /\ i \in 0 .. Capacity - 1
    BY <1>1, TypedFacts
  <2> QED
    BY <1>2, <2>1
<1>5. cells' \in [0 .. Capacity - 1 -> Values]
  BY <1>2, <1>3, <1>4
<1>6. Buffer(cells') /\ Cardinality(DOMAIN cells') = Capacity
  BY <1>5, TypedFacts
<1>7. size' = size - 1 /\ UNCHANGED kind /\ Stamped
  BY DEF Remove
<1>8. size' \in Nat /\ size' <= MaxSize /\ size' <= Capacity
  BY <1>1, <1>7, TypedFacts
<1> QED
  BY <1>6, <1>7, <1>8, TypedFacts, TypedParts

\* Exchanging two rows leaves values.
LEMMA SwapTyped ==
  ASSUME Consistent, Typed, NEW a \in -size .. size - 1, NEW b \in 0 .. size - 1, Swap(a, b)
  PROVE  Typed'
<1> DEFINE i == IF a < 0 THEN a + size ELSE a
           j == IF b < 0 THEN b + size ELSE b
<1>1. i \in 0 .. size - 1 /\ j \in 0 .. size - 1
  BY TypedFacts
<1>2. cells' = [cells EXCEPT ![i] = cells[j], ![j] = cells[i]]
  BY DEF Swap
<1> HIDE DEF i, j
<1>3. cells[j] \in Values /\ cells[i] \in Values
  <2>1. j \in 0 .. Capacity - 1 /\ i \in 0 .. Capacity - 1
    BY <1>1, TypedFacts
  <2> QED
    BY <2>1, TypedFacts
<1>4. cells' \in [0 .. Capacity - 1 -> Values]
  BY <1>2, <1>3, TypedFacts
<1>5. Buffer(cells') /\ Cardinality(DOMAIN cells') = Capacity
  BY <1>4, TypedFacts
<1>6. size' = size /\ UNCHANGED kind /\ Stamped
  BY DEF Swap
<1> QED
  BY <1>5, <1>6, TypedFacts, TypedParts

\* The bulk edits: the buffer is one after the edit; the array has room for its
\* new size, which is made or was there.
LEMMA EditTyped ==
  ASSUME Consistent, Typed, NEW vals \in Batches, NEW raw
  PROVE  LET plan == Plan(size, Len(vals), raw)
             b == Edited(plan, vals)
         IN  /\ plan.newSize \in Nat
             /\ Buffer(b) /\ Cardinality(DOMAIN b) \in Nat
             /\ plan.newSize <= Capacity => plan.newSize <= Cardinality(DOMAIN b)
             /\ plan.newSize > size => plan.newSize <= Cardinality(DOMAIN b)
             /\ ~(plan.newSize > size) => Cardinality(DOMAIN b) = Capacity
<1> DEFINE plan == Plan(size, Len(vals), raw)
           b == Edited(plan, vals)
<1>1. vals \in Seq(Values) /\ Len(vals) \in Nat
  BY BatchIsSeq, BatchType
<1>2. plan.newSize \in Nat
  BY <1>1, TypedFacts, PlanType
<1>3. Buffer(b) /\ (plan.newSize > size => plan.newSize <= Cardinality(DOMAIN b))
  BY <1>1, TypedFacts, EditedTyped DEF Typed
<1> HIDE DEF plan
<1>4. ~(plan.newSize > size) \/ plan.newSize <= Capacity => DOMAIN b = DOMAIN cells
  BY EditKeepsBuffer
<1> HIDE DEF b
<1>5. Cardinality(DOMAIN b) \in Nat
  BY <1>3, BufferCapacity DEF Buffer
<1>6. DOMAIN b = DOMAIN cells => Cardinality(DOMAIN b) = Capacity
  BY DEF Capacity
<1> QED
  BY <1>2, <1>3, <1>4, <1>5, <1>6 DEF b, plan

\* A bulk edit leaves values, as long as the rows fit.
LEMMA BulkEditTyped ==
  ASSUME BulkEditsFit, Consistent, Typed, NEW vals \in Batches, NEW raw, BulkEdit(vals, raw)
  PROVE  Typed'
<1> DEFINE plan == Plan(size, Len(vals), raw)
<1>1. /\ plan.newSize \in Nat /\ plan.newSize <= MaxSize /\ plan.newSize <= Capacity
      /\ Buffer(Edited(plan, vals)) /\ Cardinality(DOMAIN Edited(plan, vals)) \in Nat
      /\ plan.newSize <= Cardinality(DOMAIN Edited(plan, vals))
  BY EditTyped DEF BulkEdit
<1>2. \/ UNCHANGED <<cells, size, told>>
      \/ /\ size' = plan.newSize /\ cells' = Edited(plan, vals)
         /\ Stamped \/ UNCHANGED told
  BY <1>1 DEF BulkEdit
<1>3. UNCHANGED kind
  BY DEF BulkEdit
<1> HIDE DEF plan
<1>4. CASE UNCHANGED <<cells, size, told>>
  <2>1. Buffer(cells) /\ Cardinality(DOMAIN cells) = Capacity
    BY DEF Typed, Capacity
  <2> QED
    BY <1>3, <1>4, <2>1, TypedFacts, TypedParts
<1>5. CASE /\ size' = plan.newSize /\ cells' = Edited(plan, vals)
           /\ Stamped \/ UNCHANGED told
  <2>1. Buffer(cells') /\ Cardinality(DOMAIN cells') >= size' /\ size' <= MaxSize /\ size' \in Nat
    BY <1>1, <1>5
  <2> QED
    BY <1>3, <1>5, <2>1, TypedParts
<1> QED
  BY <1>2, <1>4, <1>5

\* So do the edits by a plan that the caller made.
LEMMA PlannedTyped ==
  ASSUME Consistent, Typed, NEW vals \in Batches, NEW raw,
         \/ \E skip \in BOOLEAN : ApplyPlan(vals, raw, skip)
         \/ \E staged \in BOOLEAN : Materialize(vals, raw, staged)
  PROVE  Typed'
<1> DEFINE plan == Plan(size, Len(vals), raw)
           n == plan.newSize
           b == Edited(plan, vals)
<1>1. /\ n \in Nat /\ Buffer(b) /\ Cardinality(DOMAIN b) \in Nat
      /\ n > size => n <= Cardinality(DOMAIN b)
      /\ ~(n > size) => Cardinality(DOMAIN b) = Capacity
  BY EditTyped
<1>2. /\ n <= MaxSize /\ cells' = b
      /\ size' = n \/ (n < size /\ size' = size)
      /\ Stamped \/ UNCHANGED told
      /\ UNCHANGED kind
  BY DEF ApplyPlan, Materialize
<1> HIDE DEF n, b
<1>3. Cardinality(DOMAIN b) >= size' /\ size' <= MaxSize /\ size' \in Nat
  BY <1>1, <1>2, TypedFacts
<1> QED
  BY <1>1, <1>2, <1>3, TypedParts

\* A new array is typed.
LEMMA InitTyped == Init => Typed
<1> SUFFICES ASSUME Init PROVE Typed
  OBVIOUS
<1>1. cells \in [0 .. InitialCapacity - 1 -> Values] /\ InitialCapacity \in Nat
  BY ArrayAssumption DEF Init
<1>2. Buffer(cells)
  BY <1>1 DEF Buffer
<1>3. Capacity \in Nat
  BY <1>2, CellsTyped
<1>4. told \in [seen : Seq(Values), stamped : BOOLEAN]
  BY EmptySeq DEF Init
<1> QED
  BY <1>2, <1>3, <1>4, ArrayAssumption DEF Init, Typed, Sound

\* The two parts of the invariant hold together.
THEOREM AlwaysTyped == BulkEditsFit => (Spec => [](Consistent /\ Typed))
<1> SUFFICES ASSUME BulkEditsFit PROVE Spec => [](Consistent /\ Typed)
  OBVIOUS
<1>1. Consistent /\ Typed /\ [Next]_arrayVars => Typed'
  <2> SUFFICES ASSUME Consistent, Typed, [Next]_arrayVars PROVE Typed'
    OBVIOUS
  <2>1. CASE Look
    BY <2>1, LookTyped
  <2>2. CASE \E i \in 0 .. size - 1, x \in Values : Write(i, x) \/ Accumulate(i, x)
    BY <2>2, WritesTyped
  <2>3. CASE \E x \in Values : AppendElement(x)
    BY <2>3, AppendTyped
  <2>4. CASE \E n \in 0 .. MaxSize, shrink \in BOOLEAN : EnsureSize(n, shrink)
    BY <2>4, EnsureSizeTyped
  <2>5. CASE \E i \in -size .. size - 1 : Remove(i)
    BY <2>5, RemoveTyped
  <2>6. CASE \E i \in -size .. size - 1, j \in 0 .. size - 1 : Swap(i, j)
    BY <2>6, SwapTyped
  <2>7. CASE \E vals \in Batches, raw \in Requests : BulkEdit(vals, raw)
    BY <2>7, BulkEditTyped
  <2>8. CASE \E vals \in Batches, S \in SUBSET (0 .. size - 1), skip \in BOOLEAN :
               ApplyPlan(vals, S, skip)
    BY <2>8, PlannedTyped
  <2>9. CASE \E vals \in Batches, S \in SUBSET (0 .. size - 1), staged \in BOOLEAN :
               Materialize(vals, S, staged)
    BY <2>9, PlannedTyped
  <2>10. CASE UNCHANGED arrayVars
    BY <2>10 DEF arrayVars, Typed, Sound, Capacity, Buffer, Kinds
  <2> QED
    BY <2>1, <2>2, <2>3, <2>4, <2>5, <2>6, <2>7, <2>8, <2>9, <2>10 DEF Next
<1> QED
  BY <1>1, InitTyped, AlwaysConsistent, PTL DEF Spec

\* The array stays a buffer of values that is big enough for what is in use, if
\* no bulk_edit outgrows it.
THEOREM TypeCorrect == BulkEditsFit => (Spec => []TypeOK)
<1>1. Consistent /\ Typed => TypeOK
  <2> SUFFICES ASSUME Consistent, Typed PROVE TypeOK
    OBVIOUS
  <2>1. cached \in Views \cup {NoView}
    BY TypedFacts DEF Consistent, ViewOrNone, Views, Slice
  <2> QED
    BY <2>1, TypedFacts DEF Typed, TypeOK
<1> QED
  BY <1>1, AlwaysTyped, PTL
(***************************************************************************)
(* The data goes where the oracle says.                                    *)
(***************************************************************************)
\* What the arrays of a plan hold for removals that are valid and non-negative.
LEMMA ValidPlan ==
  ASSUME NEW n \in Nat, NEW nAdd \in Nat, NEW removals \in SUBSET (0 .. n - 1)
  PROVE  LET plan == Plan(n, nAdd, removals)
         IN  /\ plan.newSize = PlanSize(n, nAdd, removals) /\ plan.newSize \in Nat
             /\ plan.dests \in Seq(Int) /\ Len(plan.dests) = nAdd
             /\ \A k \in 0 .. nAdd - 1 :
                  plan.dests[k + 1] = AdditionDest(n, nAdd, removals)[k]
             /\ Descends(plan.from, TailSurvivors(n, nAdd, removals))
             /\ Ascends(plan.to, OpenHoles(n, nAdd, removals))
<1> DEFINE plan == Plan(n, nAdd, removals)
           R == Normalize(n, removals)
<1>1. R = removals
  BY NormalizeValid
<1>2. plan.newSize = PlanSize(n, nAdd, R) /\ PlanSize(n, nAdd, removals) \in Nat
  BY RemovalsAscend, PlanSizes
<1>3. /\ plan.dests \in Seq(Int) /\ Len(plan.dests) = nAdd
      /\ \A k \in 0 .. nAdd - 1 : plan.dests[k + 1] = AdditionDest(n, nAdd, R)[k]
  BY DestsArray
<1>4. /\ Descends(plan.from, TailSurvivors(n, nAdd, R))
      /\ Ascends(plan.to, OpenHoles(n, nAdd, R))
  BY RelocationArrays
<1> HIDE DEF R, plan
<1> QED
  BY <1>1, <1>2, <1>3, <1>4 DEF plan

\* The buffer an edit places values in: room has been made, rows have moved.
Moved(plan) ==
  IF plan.newSize > size THEN EnsuredCells(plan.newSize)
  ELSE IF plan.from = <<>> THEN cells
  ELSE Relocate(cells, plan)

\* A row that survives is, once rows have moved, where the oracle says: a row
\* of the tail is the one moved into the hole of its rank; no other row is
\* overwritten, because only holes are.
LEMMA MovedHoldsRows ==
  ASSUME Buffer(cells), size \in Nat, Sound, kind \in Kinds,
         NEW nAdd \in Nat, NEW removals \in SUBSET (0 .. size - 1),
         size + nAdd <= Missing, NEW i \in Live(size, nAdd, removals), i < size
  PROVE  Moved(Plan(size, nAdd, removals))[Resolve(Oracle(size, nAdd, removals), i)] = cells[i]
<1> DEFINE plan == Plan(size, nAdd, removals)
           p == Resolve(Oracle(size, nAdd, removals), i)
           N == PlanSize(size, nAdd, removals)
           tail == TailSurvivors(size, nAdd, removals)
           holes == OpenHoles(size, nAdd, removals)
<1>1. /\ plan.newSize = N /\ N \in Nat
      /\ Descends(plan.from, tail) /\ Ascends(plan.to, holes)
      /\ removals \in SUBSET Int /\ IsFiniteSet(removals)
  BY ValidPlan, PlanSizes
<1>2. /\ Cardinality(tail) = Cardinality(holes) /\ Cardinality(tail) \in Nat
      /\ IsFiniteSet(tail) /\ IsFiniteSet(holes)
  BY TailFitsHoles, FS_CardinalityType
<1>3. Capacity \in Nat /\ cells \in [0 .. Capacity - 1 -> Values] /\ size <= Capacity
  BY CellsTyped DEF Sound
<1>4. /\ tail \in SUBSET Int /\ holes \in SUBSET Int /\ holes \subseteq removals
      /\ \A x \in tail : x \in 0 .. Capacity - 1 /\ N <= x /\ x < size
      /\ \A x \in holes : x \in 0 .. Capacity - 1
  <2>1. \A x \in tail : x \in N .. size - 1
    BY DEF TailSurvivors
  <2>2. \A x \in holes : x \in removals /\ x \in 0 .. size - 1
    BY DEF OpenHoles
  <2> HIDE DEF tail, holes, N
  <2>3. \A x \in tail : x \in Int /\ x \in 0 .. Capacity - 1 /\ N <= x /\ x < size
    BY <1>1, <1>3, <2>1
  <2>4. \A x \in holes : x \in Int /\ x \in 0 .. Capacity - 1
    BY <1>3, <2>2
  <2> QED
    BY <2>2, <2>3, <2>4
<1>5. i \in 0 .. Capacity - 1 /\ i \notin removals
  BY <1>3 DEF Live
<1>6. \/ i \in tail /\ p = Moves(size, nAdd, removals)[i]
      \/ i < N /\ p = i
  <2>1. Replacements(nAdd, removals) \in Nat
    BY PlanSizes
  <2> QED
    BY <2>1, ResolveCases
<1>7. Len(plan.from) = Cardinality(tail) /\ DOMAIN plan.to = 1 .. Cardinality(tail)
      /\ \A k \in 1 .. Cardinality(tail) :
           /\ plan.from[k] \in tail /\ RankFromTop(plan.from[k], tail) = k - 1
           /\ plan.to[k] \in holes /\ Rank(plan.to[k], holes) = k - 1
  <2> HIDE DEF plan, tail, holes
  <2> QED
    BY <1>1, <1>2, LenProperties, ElementOfSeq DEF Ascends, Descends
<1>8. CASE i \in tail /\ p = Moves(size, nAdd, removals)[i]
  <2> DEFINE r == RankFromTop(i, tail)
             k == r + 1
  <2>1. r = Cardinality(tail) - 1 - Rank(i, tail) /\ Rank(i, tail) \in 0 .. Cardinality(tail) - 1
    <3>1. r = Cardinality(tail) - 1 - Rank(i, tail)
      BY <1>2, <1>4, <1>8, RankFromTopValue
    <3>2. Rank(i, tail) \in 0 .. Cardinality(tail) /\ Rank(i, tail) < Cardinality(tail)
      <4>1. i \in Int
        BY <1>4, <1>8
      <4> HIDE DEF tail
      <4> QED
        BY <1>2, <1>4, <1>8, <4>1, RankType
    <3> QED
      BY <1>2, <3>1, <3>2
  <2>2. p = Nth(r, holes)
    BY <1>8 DEF Moves
  <2> HIDE DEF r
  <2>3. r \in 0 .. Cardinality(holes) - 1 /\ k \in 1 .. Cardinality(tail)
    BY <1>2, <2>1
  <2>4. p \in holes /\ Rank(p, holes) = r
    <3> HIDE DEF p, holes
    <3> QED
      BY <1>2, <1>4, <2>2, <2>3, NthProperties
  <2> HIDE DEF p, plan, holes, tail
  <2>5. plan.to[k] = p
    <3>1. Rank(plan.to[k], holes) = Rank(p, holes) /\ plan.to[k] \in holes
      BY <1>7, <2>3, <2>4
    <3> QED
      BY <1>2, <1>4, <2>4, <3>1, RankInjective
  <2>6. \A l \in DOMAIN plan.to : plan.to[l] = p => l = k
    BY <1>2, <1>7, <2>3, <2>4
  <2>7. plan.from[k] = i
    <3>1. plan.from[k] \in tail /\ RankFromTop(plan.from[k], tail) = r
      BY <1>7, <2>3
    <3>2. RankFromTop(plan.from[k], tail) = Cardinality(tail) - 1 - Rank(plan.from[k], tail)
      BY <1>2, <1>4, <3>1, RankFromTopValue
    <3>3. Rank(plan.from[k], tail) \in Int
      <4>1. plan.from[k] \in Int
        BY <1>4, <3>1
      <4> QED
        BY <1>2, <1>4, <4>1, RankType
    <3>4. Rank(plan.from[k], tail) = Rank(i, tail)
      BY <1>2, <2>1, <3>1, <3>2, <3>3 DEF r
    <3> QED
      BY <1>2, <1>4, <1>8, <3>1, <3>4, RankInjective
  <2>8. ~(plan.newSize > size) /\ plan.from # <<>>
    <3>1. Len(plan.from) # 0
      BY <1>2, <1>7, <2>3
    <3>2. plan.from # <<>>
      BY <3>1
    <3>3. N <= i /\ i < size
      BY <1>4, <1>8
    <3> HIDE DEF N
    <3>4. ~(plan.newSize > size)
      BY <1>1, <1>3, <1>5, <3>3
    <3> QED
      BY <3>2, <3>4
  <2>9. Moved(plan) = Relocate(cells, plan)
    BY <2>8 DEF Moved
  <2>10. p \in DOMAIN cells /\ k \in DOMAIN plan.to
    BY <1>3, <1>4, <1>7, <2>3, <2>4
  <2>11. (CHOOSE l \in DOMAIN plan.to : plan.to[l] = p) = k
    BY <2>5, <2>6, <2>10
  <2>12. Relocate(cells, plan)[p] = cells[plan.from[k]]
    BY <2>5, <2>10, <2>11 DEF Relocate
  <2> QED
    BY <2>7, <2>9, <2>12 DEF p, plan
<1>9. CASE i < N /\ p = i
  <2>1. CASE plan.newSize > size
    <3>1. Moved(plan) = EnsuredCells(plan.newSize)
      BY <2>1 DEF Moved
    <3>2. i \in 0 .. size - 1 /\ i < plan.newSize
      BY <1>1, <1>5, <1>9
    <3> HIDE DEF plan
    <3>3. EnsuredCells(plan.newSize)[i] = cells[i]
      BY <1>1, <3>2, EnsuredTyped
    <3> QED
      BY <1>9, <3>1, <3>3 DEF plan
  <2>2. CASE ~(plan.newSize > size) /\ plan.from = <<>>
    BY <1>9, <2>2 DEF Moved
  <2>3. CASE ~(plan.newSize > size) /\ plan.from # <<>>
    <3>1. Moved(plan) = Relocate(cells, plan)
      BY <2>3 DEF Moved
    <3>2. \A k \in DOMAIN plan.to : plan.to[k] # i
      BY <1>4, <1>5, <1>7
    <3> HIDE DEF plan
    <3>3. Relocate(cells, plan)[i] = cells[i]
      BY <1>3, <1>5, <3>2 DEF Relocate
    <3> QED
      BY <1>9, <3>1, <3>3 DEF plan
  <2> QED
    BY <2>1, <2>2, <2>3
<1> QED
  BY <1>6, <1>8, <1>9

\* The buffer has a cell for every row of the edited array.
LEMMA MovedHasRoom ==
  ASSUME Buffer(cells), size \in Nat, Sound, kind \in Kinds,
         NEW plan, plan.newSize \in Nat
  PROVE  \A p \in 0 .. plan.newSize - 1 : p \in DOMAIN Moved(plan)
<1>1. Capacity \in Nat /\ cells \in [0 .. Capacity - 1 -> Values] /\ size <= Capacity
  BY CellsTyped DEF Sound
<1>2. CASE plan.newSize > size
  <2>1. 0 .. plan.newSize - 1 \subseteq DOMAIN EnsuredCells(plan.newSize)
    BY EnsuredTyped
  <2>2. Moved(plan) = EnsuredCells(plan.newSize)
    BY <1>2 DEF Moved
  <2> QED
    BY <2>1, <2>2
<1>3. CASE ~(plan.newSize > size)
  <2>1. DOMAIN Moved(plan) = DOMAIN cells
    BY <1>3 DEF Moved, Relocate
  <2>2. \A p \in 0 .. plan.newSize - 1 : p \in 0 .. Capacity - 1
    BY <1>1, <1>3
  <2> QED
    BY <1>1, <2>1, <2>2
<1> QED
  BY <1>2, <1>3

\* After an edit a live id is where the oracle says: a staged row because its
\* destination is that of no other, a surviving row because no destination is
\* where the oracle says it is.  Both are the injectivity OracleRenumbers
\* proves.
LEMMA EditPlacesRows ==
  ASSUME Buffer(cells), size \in Nat, Sound, kind \in Kinds,
         NEW nAdd \in Nat, NEW removals \in SUBSET (0 .. size - 1),
         size + nAdd <= Missing, NEW i \in Live(size, nAdd, removals), NEW vals
  PROVE  Edited(Plan(size, nAdd, removals), vals)[Resolve(Oracle(size, nAdd, removals), i)]
           = IF i < size THEN cells[i] ELSE vals[i - size + 1]
<1> DEFINE plan == Plan(size, nAdd, removals)
           o == Oracle(size, nAdd, removals)
           p == Resolve(o, i)
           live == Live(size, nAdd, removals)
           dest == AdditionDest(size, nAdd, removals)
<1>1. /\ plan.dests \in Seq(Int) /\ Len(plan.dests) = nAdd
      /\ \A k \in 0 .. nAdd - 1 : plan.dests[k + 1] = dest[k]
  BY ValidPlan
<1>2. plan.newSize = o.newSize /\ plan.newSize \in Nat
  BY ValidPlan DEF Oracle
<1>3. /\ p \in 0 .. o.newSize - 1
      /\ \A a, b \in live : Resolve(o, a) = Resolve(o, b) => a = b
  BY OracleRenumbers DEF Renumbers
<1>4. p \in DOMAIN Moved(plan)
  <2> HIDE DEF plan, p, o
  <2> QED
    BY <1>2, <1>3, MovedHasRoom
<1>5. i \in 0 .. size + nAdd - 1
  BY DEF Live
<1>6. ASSUME NEW k \in 1 .. nAdd
      PROVE  size + k - 1 \in live /\ plan.dests[k] = Resolve(o, size + k - 1)
  <2> DEFINE j == size + k - 1
  <2>1. j \in live
    <3>1. j \in 0 .. size + nAdd - 1 /\ j \notin 0 .. size - 1
      OBVIOUS
    <3> QED
      BY <3>1 DEF Live
  <2>2. k - 1 \in 0 .. nAdd - 1 /\ (k - 1) + 1 = k /\ j - size = k - 1 /\ j >= size
        /\ j < size + nAdd
    OBVIOUS
  <2>3. plan.dests[k] = dest[k - 1]
    <3> HIDE DEF plan, dest
    <3> QED
      BY <1>1, <2>2
  <2>4. o.start = size /\ o.dest = dest /\ DOMAIN o.dest = 0 .. nAdd - 1
    BY DEF Oracle, AdditionDest
  <2>5. j # Missing
    BY <2>2, MissingIsNat
  <2> HIDE DEF o, dest, plan
  <2>6. Resolve(o, j) = dest[k - 1]
    BY <2>2, <2>4, <2>5 DEF Resolve
  <2> HIDE DEF j, live
  <2> QED
    BY <2>1, <2>3, <2>6 DEF j
<1>7. Edited(plan, vals) = Place(Moved(plan), plan, vals)
  BY DEF Edited, Moved
<1>8. DOMAIN plan.dests = 1 .. nAdd
  BY <1>1, LenProperties
<1> HIDE DEF plan, o, live, dest
<1>9. CASE i >= size
  <2> DEFINE k == i - size + 1
  <2>1. k \in 1 .. nAdd /\ size + k - 1 = i
    BY <1>5, <1>9
  <2>2. plan.dests[k] = p
    BY <1>6, <2>1
  <2>3. \A l \in 1 .. nAdd : plan.dests[l] = p => l = k
    <3> SUFFICES ASSUME NEW l \in 1 .. nAdd, plan.dests[l] = p PROVE l = k
      OBVIOUS
    <3>1. size + l - 1 \in live /\ Resolve(o, size + l - 1) = Resolve(o, i) /\ i \in live
      BY <1>6 DEF live
    <3>2. size + l - 1 = i
      BY <1>3, <3>1
    <3> QED
      BY <1>5, <3>2
  <2> HIDE DEF k, p
  <2>4. (CHOOSE l \in DOMAIN plan.dests : plan.dests[l] = p) = k
    BY <1>8, <2>1, <2>2, <2>3
  <2>5. Place(Moved(plan), plan, vals)[p] = vals[k]
    BY <1>4, <1>8, <2>1, <2>2, <2>4 DEF Place
  <2>6. ~(i < size)
    BY <1>5, <1>9
  <2> QED
    BY <1>7, <2>5, <2>6 DEF k, p, o, plan
<1>10. CASE i < size
  <2>1. \A l \in 1 .. nAdd : plan.dests[l] # p
    <3> SUFFICES ASSUME NEW l \in 1 .. nAdd, plan.dests[l] = p PROVE FALSE
      OBVIOUS
    <3>1. size + l - 1 \in live /\ Resolve(o, size + l - 1) = Resolve(o, i) /\ i \in live
      BY <1>6 DEF live
    <3>2. size + l - 1 = i
      BY <1>3, <3>1
    <3> QED
      BY <1>5, <1>10, <3>2
  <2> HIDE DEF p
  <2>2. Place(Moved(plan), plan, vals)[p] = Moved(plan)[p]
    BY <1>4, <1>8, <2>1 DEF Place
  <2>3. Moved(plan)[p] = cells[i]
    BY <1>10, MovedHoldsRows DEF p, o, plan
  <2> QED
    BY <1>7, <1>10, <2>2, <2>3 DEF p, o, plan
<1> QED
  BY <1>5, <1>9, <1>10

\* Whatever an edit removes and adds, every row of the array it leaves is where
\* the oracle of the edit finds it, and the arrays of that oracle answer what
\* its sets answer: keys and trackers that go by the oracle stay with the data
\* that goes by the plan.  No id may be as large as the sentinel.
THEOREM OracleAlwaysFindsRows ==
  BulkEditsFit /\ MaxSize + MaxBatch <= Missing => (Spec => []OracleFindsRows)
<1> SUFFICES ASSUME BulkEditsFit, MaxSize + MaxBatch <= Missing
             PROVE  Spec => []OracleFindsRows
  OBVIOUS
<1>1. Consistent /\ Typed => OracleFindsRows
  <2> SUFFICES ASSUME Consistent, Typed,
                      NEW n \in 0 .. MaxBatch, NEW removals \in SUBSET (0 .. size - 1),
                      NEW i \in 0 .. size + n
               PROVE  LET plan == Plan(size, n, removals)
                          vals == [k \in 1 .. n |-> <<k>>]
                          a    == OracleArrays(size, plan)
                          o    == Oracle(size, n, removals)
                      IN  /\ ResolveInArrays(a, i) = Resolve(o, i)
                          /\ i \in Live(size, n, removals) =>
                               Edited(plan, vals)[ResolveInArrays(a, i)]
                                 = IF i < size THEN cells[i] ELSE vals[i - size + 1]
    BY DEF OracleFindsRows
  <2> DEFINE plan == Plan(size, n, removals)
             vals == [k \in 1 .. n |-> <<k>>]
             a == OracleArrays(size, plan)
             o == Oracle(size, n, removals)
  <2>1. size \in Nat /\ size <= MaxSize /\ n \in Nat /\ i \in Nat
        /\ size <= Missing /\ size + n <= Missing
    BY TypedFacts, ArrayAssumption, MissingIsNat
  <2>2. ResolveInArrays(a, i) = Resolve(o, i)
    BY <2>1, ArraysResolve, NormalizeValid
  <2> HIDE DEF vals
  <2>3. i \in Live(size, n, removals) =>
          Edited(plan, vals)[Resolve(o, i)] = IF i < size THEN cells[i] ELSE vals[i - size + 1]
    BY <2>1, EditPlacesRows DEF Typed
  <2> QED
    BY <2>2, <2>3 DEF vals
<1> QED
  BY <1>1, AlwaysTyped, PTL
=============================================================================
