----------------------- MODULE AdjacencyLists_proofs -----------------------
(***************************************************************************)
(* What the operators of AdjacencyLists compute: walks, patches and their  *)
(* composition, and where the rows of a table lie after a bulk edit.       *)
(***************************************************************************)
EXTENDS AdjacencyLists, RemapOracle_proofs, SequenceTheorems

(***************************************************************************)
(* Walking a list.                                                         *)
(***************************************************************************)
\* The row after x.
After(nxt, x) == IF x \in DOMAIN nxt THEN nxt[x] ELSE Missing

\* The first n rows after h, one after the other.
Walks(v, n, nxt, h) ==
  v = [k \in 0 .. n |-> IF k = 0 THEN h ELSE After(nxt, v[k - 1])]

\* A walk exists.
LEMMA WalkExists ==
  ASSUME NEW nxt, NEW h, NEW n \in Nat
  PROVE  \E v : Walks(v, n, nxt, h)
<1> DEFINE S == {h, Missing} \cup {nxt[r] : r \in DOMAIN nxt}
           next == [x \in S |-> After(nxt, x)]
           step == [k \in 1 .. n |-> next]
<1>1. next \in [S -> S]
  BY DEF After
<1>2. IsStep(step, n, S)
  <2> HIDE DEF next, S
  <2> QED
    BY <1>1 DEF IsStep
<1>3. h \in S
  OBVIOUS
<1>4. PICK v : Follows(v, n, S, h, step)
  <2> HIDE DEF S, step
  <2> QED
    BY <1>2, <1>3, RecursionUpTo
<1>5. v \in [0 .. n -> S] /\ v[0] = h /\ \A k \in 1 .. n : v[k] = step[k][v[k - 1]]
  BY <1>4 DEF Follows
<1>6. ASSUME NEW k \in 0 .. n
      PROVE  v[k] = IF k = 0 THEN h ELSE After(nxt, v[k - 1])
  <2>1. CASE k = 0
    BY <1>5, <2>1
  <2>2. CASE k # 0
    <3>1. k \in 1 .. n /\ k - 1 \in 0 .. n
      BY <2>2
    <3>2. v[k - 1] \in S
      <4> HIDE DEF S
      <4> QED
        BY <1>5, <3>1
    <3>3. v[k] = next[v[k - 1]]
      <4> HIDE DEF next
      <4> QED
        BY <1>5, <3>1
    <3> HIDE DEF S
    <3> QED
      BY <2>2, <3>2, <3>3
  <2> QED
    BY <2>1, <2>2
<1>7. v = [k \in 0 .. n |-> IF k = 0 THEN h ELSE After(nxt, v[k - 1])]
  <2> HIDE DEF S
  <2> QED
    BY <1>5, <1>6
<1> QED
  BY <1>7 DEF Walks

\* Walks agree as far as both go.
LEMMA WalksAgree ==
  ASSUME NEW nxt, NEW h, NEW m \in Nat, NEW n \in Nat, m <= n,
         NEW v, NEW w, Walks(v, m, nxt, h), Walks(w, n, nxt, h)
  PROVE  \A k \in 0 .. m : v[k] = w[k]
<1> DEFINE P == {k \in 0 .. m : v[k] = w[k]}
<1>1. /\ v = [k \in 0 .. m |-> IF k = 0 THEN h ELSE After(nxt, v[k - 1])]
      /\ w = [k \in 0 .. n |-> IF k = 0 THEN h ELSE After(nxt, w[k - 1])]
  BY DEF Walks
<1>2. 0 \in P
  <2>1. 0 \in 0 .. m /\ 0 \in 0 .. n
    OBVIOUS
  <2>2. v[0] = h /\ w[0] = h
    BY <1>1, <2>1
  <2> QED
    BY <2>1, <2>2
<1>3. ASSUME NEW k \in 1 .. m, k - 1 \in P PROVE k \in P
  <2>1. k \in 0 .. m /\ k \in 0 .. n /\ k # 0
    OBVIOUS
  <2>2. v[k] = After(nxt, v[k - 1]) /\ w[k] = After(nxt, w[k - 1])
    BY <1>1, <2>1
  <2> QED
    BY <1>3, <2>1, <2>2
<1>4. \A k \in 0 .. m : k \in P
  <2> HIDE DEF P
  <2> QED
    BY <1>2, <1>3, InductionUpTo
<1> QED
  BY <1>4

\* Node is the end of a walk.
LEMMA NodeEnds ==
  ASSUME NEW nxt, NEW h, NEW n \in Nat, NEW v, Walks(v, n, nxt, h), NEW k \in 0 .. n
  PROVE  Node(nxt, h, k) = v[k]
<1> DEFINE Eq(f) == f = [i \in 0 .. k |-> IF i = 0 THEN h
                                          ELSE IF f[i - 1] \in DOMAIN nxt THEN nxt[f[i - 1]]
                                          ELSE Missing]
           c == CHOOSE f : Eq(f)
<1>1. Node(nxt, h, k) = c[k]
  BY DEF Node
<1>2. k \in Nat /\ k <= n /\ k \in 0 .. k
  OBVIOUS
<1>3. \A f : Eq(f) <=> Walks(f, k, nxt, h)
  BY DEF Walks, After
<1> HIDE DEF Eq
<1>4. Walks(c, k, nxt, h)
  BY <1>2, <1>3, WalkExists
<1> HIDE DEF c
<1>5. c[k] = v[k]
  BY <1>2, <1>4, WalksAgree
<1> QED
  BY <1>1, <1>5

\* The recursion of Node.
LEMMA NodeSteps ==
  ASSUME NEW nxt, NEW h
  PROVE  /\ Node(nxt, h, 0) = h
         /\ \A k \in Nat : Node(nxt, h, k + 1) = After(nxt, Node(nxt, h, k))
<1>1. ASSUME NEW k \in Nat
      PROVE  Node(nxt, h, 0) = h /\ Node(nxt, h, k + 1) = After(nxt, Node(nxt, h, k))
  <2>1. k + 1 \in Nat /\ k + 1 \in 0 .. k + 1 /\ k \in 0 .. k + 1 /\ 0 \in 0 .. k + 1
        /\ k + 1 # 0 /\ k + 1 - 1 = k
    OBVIOUS
  <2>2. PICK v : Walks(v, k + 1, nxt, h)
    BY <2>1, WalkExists
  <2>3. Node(nxt, h, 0) = v[0] /\ Node(nxt, h, k) = v[k] /\ Node(nxt, h, k + 1) = v[k + 1]
    BY <2>1, <2>2, NodeEnds
  <2>4. v = [i \in 0 .. k + 1 |-> IF i = 0 THEN h ELSE After(nxt, v[i - 1])]
    BY <2>2 DEF Walks
  <2>5. v[0] = h /\ v[k + 1] = After(nxt, v[k])
    BY <2>1, <2>4
  <2> QED
    BY <2>3, <2>5
<1>2. 0 \in Nat
  OBVIOUS
<1> QED
  BY <1>1, <1>2

\* A list that has ended stays at its end.
LEMMA NodeStaysMissing ==
  ASSUME NEW nxt, NEW h, NEW n \in Nat, Missing \notin DOMAIN nxt,
         Node(nxt, h, n) = Missing, NEW m \in Nat, n <= m
  PROVE  Node(nxt, h, m) = Missing
<1> DEFINE d == m - n
           P == {i \in 0 .. d : Node(nxt, h, n + i) = Missing}
<1>1. d \in Nat /\ n + d = m /\ n + 0 = n /\ 0 \in 0 .. d /\ d \in 0 .. d
  OBVIOUS
<1>2. 0 \in P
  BY <1>1
<1> HIDE DEF d
<1>3. ASSUME NEW i \in 1 .. d, i - 1 \in P PROVE i \in P
  <2> DEFINE j == n + (i - 1)
  <2>1. j \in Nat /\ j + 1 = n + i /\ i \in 0 .. d
    BY <1>1
  <2>2. Node(nxt, h, j) = Missing
    BY <1>3
  <2> HIDE DEF j
  <2>3. Node(nxt, h, j + 1) = After(nxt, Missing)
    BY <2>1, <2>2, NodeSteps
  <2> QED
    BY <2>1, <2>3 DEF After
<1>4. \A i \in 0 .. d : i \in P
  <2> HIDE DEF P
  <2> QED
    BY <1>1, <1>2, <1>3, InductionUpTo
<1> QED
  BY <1>1, <1>4

-----------------------------------------------------------------------------
(***************************************************************************)
(* Lists as orders.  The rows I whose keys denote the same target t of T   *)
(* are ordered by ord; the links join neighbours.                          *)
(***************************************************************************)
\* Row y comes right after row x.
RightAfter(I, key, ord, x, y) ==
  /\ y \in I /\ key[y] = key[x] /\ ord[x] < ord[y]
  /\ \A u \in I : key[u] = key[x] => ord[u] <= ord[x] \/ ord[y] <= ord[u]

\* No row comes after x, or before it.
IsLast(I, key, ord, x) == \A u \in I : key[u] = key[x] => ord[u] <= ord[x]
IsFirst(I, key, ord, x) == \A u \in I : key[u] = key[x] => ord[x] <= ord[u]

\* The columns of c have the rows I and T and no others.
Columns(I, T, c) ==
  /\ Missing \notin I /\ Missing \notin T
  /\ DOMAIN c.fk = I /\ DOMAIN c.nxt = I /\ DOMAIN c.prv = I /\ DOMAIN c.head = T
  /\ \A x \in I : /\ c.fk[x] \in T \cup {Missing}
                  /\ c.nxt[x] \in I \cup {Missing}
                  /\ c.prv[x] \in I \cup {Missing}
  /\ \A t \in T : c.head[t] \in I \cup {Missing}

Ordered(I, key, ord) ==
  /\ \A x \in I : ord[x] \in Nat
  /\ \A x, y \in I : key[x] = key[y] /\ key[x] # Missing /\ ord[x] = ord[y] => x = y

\* The links of a row, and the head of a target, are right.
RowLinked(I, key, ord, x, next, prev) ==
  IF key[x] = Missing THEN next = Missing /\ prev = Missing
  ELSE /\ IF next = Missing THEN IsLast(I, key, ord, x) ELSE RightAfter(I, key, ord, x, next)
       /\ IF prev = Missing THEN IsFirst(I, key, ord, x)
                            ELSE prev \in I /\ RightAfter(I, key, ord, prev, x)

HeadIs(I, key, ord, t, h) ==
  IF h = Missing THEN \A x \in I : key[x] # t
  ELSE h \in I /\ key[h] = t /\ IsFirst(I, key, ord, h)

Linked(I, T, c, ord) ==
  /\ Columns(I, T, c)
  /\ Ordered(I, c.fk, ord)
  /\ \A x \in I : RowLinked(I, c.fk, ord, x, c.nxt[x], c.prv[x])
  /\ \A t \in T : HeadIs(I, c.fk, ord, t, c.head[t])

\* Links go back and forth.
LEMMA LinksMatch ==
  ASSUME NEW I, NEW T, NEW c, NEW ord, Linked(I, T, c, ord), NEW x \in I, NEW y \in I
  PROVE  c.nxt[x] = y <=> c.prv[y] = x
<1>1. /\ Missing \notin I /\ c.nxt[x] \in I \cup {Missing} /\ c.prv[y] \in I \cup {Missing}
      /\ ord[x] \in Nat /\ ord[y] \in Nat
      /\ RowLinked(I, c.fk, ord, x, c.nxt[x], c.prv[x])
      /\ RowLinked(I, c.fk, ord, y, c.nxt[y], c.prv[y])
  BY DEF Linked, Columns, Ordered
<1>2. \A u, v \in I : c.fk[u] = c.fk[v] /\ c.fk[u] # Missing /\ ord[u] = ord[v] => u = v
  BY DEF Linked, Ordered
<1>3. \A u \in I : ord[u] \in Nat
  BY DEF Linked, Ordered
<1>4. ASSUME c.nxt[x] = y PROVE c.prv[y] = x
  <2>1. c.fk[x] # Missing /\ RightAfter(I, c.fk, ord, x, y)
    BY <1>1, <1>4 DEF RowLinked
  <2>2. c.fk[y] = c.fk[x] /\ ord[x] < ord[y]
        /\ \A u \in I : c.fk[u] = c.fk[x] => ord[u] <= ord[x] \/ ord[y] <= ord[u]
    BY <2>1 DEF RightAfter
  <2>3. c.prv[y] # Missing
    <3>1. SUFFICES ASSUME c.prv[y] = Missing PROVE FALSE
      OBVIOUS
    <3>2. IsFirst(I, c.fk, ord, y)
      BY <1>1, <2>1, <2>2, <3>1 DEF RowLinked
    <3>3. ord[y] <= ord[x]
      BY <2>2, <3>2 DEF IsFirst
    <3> QED
      BY <1>1, <2>2, <3>3
  <2> DEFINE p == c.prv[y]
  <2>4. p \in I /\ RightAfter(I, c.fk, ord, p, y)
    BY <1>1, <2>1, <2>2, <2>3 DEF RowLinked
  <2>5. c.fk[p] = c.fk[y] /\ ord[p] < ord[y]
        /\ \A u \in I : c.fk[u] = c.fk[p] => ord[u] <= ord[p] \/ ord[y] <= ord[u]
    BY <2>4 DEF RightAfter
  <2>6. p \in I
    BY <2>4
  <2> HIDE DEF p
  <2>7. ord[p] = ord[x]
    <3>1. ord[x] <= ord[p] \/ ord[y] <= ord[x]
      BY <2>2, <2>5
    <3>2. ord[p] <= ord[x] \/ ord[y] <= ord[p]
      BY <2>2, <2>5, <2>6
    <3> QED
      BY <1>3, <2>2, <2>5, <2>6, <3>1, <3>2
  <2>8. p = x
    BY <1>2, <2>1, <2>2, <2>5, <2>6, <2>7
  <2> QED
    BY <2>8 DEF p
<1>5. ASSUME c.prv[y] = x PROVE c.nxt[x] = y
  <2>1. c.fk[y] # Missing /\ RightAfter(I, c.fk, ord, x, y)
    BY <1>1, <1>5 DEF RowLinked
  <2>2. c.fk[y] = c.fk[x] /\ ord[x] < ord[y]
        /\ \A u \in I : c.fk[u] = c.fk[x] => ord[u] <= ord[x] \/ ord[y] <= ord[u]
    BY <2>1 DEF RightAfter
  <2>3. c.nxt[x] # Missing
    <3>1. SUFFICES ASSUME c.nxt[x] = Missing PROVE FALSE
      OBVIOUS
    <3>2. IsLast(I, c.fk, ord, x)
      BY <1>1, <2>1, <2>2, <3>1 DEF RowLinked
    <3>3. ord[y] <= ord[x]
      BY <2>2, <3>2 DEF IsLast
    <3> QED
      BY <1>1, <2>2, <3>3
  <2> DEFINE p == c.nxt[x]
  <2>4. p \in I /\ RightAfter(I, c.fk, ord, x, p)
    BY <1>1, <2>1, <2>2, <2>3 DEF RowLinked
  <2>5. c.fk[p] = c.fk[x] /\ ord[x] < ord[p]
        /\ \A u \in I : c.fk[u] = c.fk[x] => ord[u] <= ord[x] \/ ord[p] <= ord[u]
    BY <2>4 DEF RightAfter
  <2>6. p \in I
    BY <2>4
  <2> HIDE DEF p
  <2>7. ord[p] = ord[y]
    <3>1. ord[y] <= ord[x] \/ ord[p] <= ord[y]
      BY <2>2, <2>5
    <3>2. ord[p] <= ord[x] \/ ord[y] <= ord[p]
      BY <2>2, <2>5, <2>6
    <3> QED
      BY <1>3, <2>2, <2>5, <2>6, <3>1, <3>2
  <2>8. p = y
    BY <1>2, <2>1, <2>2, <2>5, <2>6, <2>7
  <2> QED
    BY <2>8 DEF p
<1> QED
  BY <1>4, <1>5

\* Induction along an order, over the set P of the elements a fact holds for.
LEMMA InductionAlong ==
  ASSUME NEW S, NEW ord, \A x \in S : ord[x] \in Nat, NEW P,
         \A x \in S : (\A y \in S : ord[y] < ord[x] => y \in P) => x \in P
  PROVE  S \subseteq P
<1> SUFFICES ASSUME NEW x \in S PROVE x \in P
  OBVIOUS
<1> DEFINE n == ord[x]
           Q == {k \in 0 .. n : \A y \in S : ord[y] < k => y \in P}
<1>1. n \in Nat
  OBVIOUS
<1> HIDE DEF n
<1>2. 0 \in Q
  <2>1. 0 \in 0 .. n
    BY <1>1
  <2>2. \A y \in S : ~(ord[y] < 0)
    OBVIOUS
  <2> QED
    BY <2>1, <2>2
<1>3. ASSUME NEW k \in 1 .. n, k - 1 \in Q PROVE k \in Q
  <2>1. \A y \in S : ord[y] < k - 1 => y \in P
    BY <1>3
  <2>2. ASSUME NEW y \in S, ord[y] < k PROVE y \in P
    <3>1. \A z \in S : ord[z] < ord[y] => ord[z] < k - 1
      <4> SUFFICES ASSUME NEW z \in S, ord[z] < ord[y] PROVE ord[z] < k - 1
        OBVIOUS
      <4>1. ord[z] \in Nat /\ ord[y] \in Nat
        OBVIOUS
      <4> QED
        BY <2>2, <4>1
    <3> QED
      BY <2>1, <3>1
  <2>3. k \in 0 .. n
    OBVIOUS
  <2> QED
    BY <2>2, <2>3
<1>4. \A k \in 0 .. n : k \in Q
  <2> HIDE DEF Q
  <2> QED
    BY <1>1, <1>2, <1>3, InductionUpTo
<1>5. n \in Q
  BY <1>1, <1>4
<1>6. \A y \in S : ord[y] < n => y \in P
  BY <1>5
<1> QED
  BY <1>6 DEF n

\* A set has a first element in an order.
LEMMA FirstExists ==
  ASSUME NEW S, NEW ord, \A x \in S : ord[x] \in Nat, S # {}
  PROVE  \E x \in S : \A y \in S : ord[x] <= ord[y]
<1> DEFINE P == {x \in S : \E z \in S : \A y \in S : ord[z] <= ord[y]}
<1>1. ASSUME NEW x \in S, \A y \in S : ord[y] < ord[x] => y \in P
      PROVE  x \in P
  <2>1. CASE \E y \in S : ord[y] < ord[x]
    BY <1>1, <2>1
  <2>2. CASE \A y \in S : ~(ord[y] < ord[x])
    <3>1. \A y \in S : ord[x] <= ord[y]
      <4> SUFFICES ASSUME NEW y \in S PROVE ord[x] <= ord[y]
        OBVIOUS
      <4>1. ord[x] \in Nat /\ ord[y] \in Nat /\ ~(ord[y] < ord[x])
        BY <2>2
      <4> QED
        BY <4>1
    <3> QED
      BY <3>1
  <2> QED
    BY <2>1, <2>2
<1>2. S \subseteq P
  <2> HIDE DEF P
  <2> QED
    BY <1>1, InductionAlong
<1> QED
  BY <1>2

(***************************************************************************)
(* Walks.                                                                  *)
(***************************************************************************)
\* One step of a walk.
LEMMA WalkStep ==
  ASSUME NEW I, NEW T, NEW c, NEW ord, Linked(I, T, c, ord), NEW h \in I \cup {Missing},
         NEW k \in Nat
  PROVE  /\ Node(c.nxt, h, k) \in I \cup {Missing}
         /\ Node(c.nxt, h, k + 1) \in I =>
              /\ Node(c.nxt, h, k) \in I
              /\ Node(c.nxt, h, k + 1) = c.nxt[Node(c.nxt, h, k)]
              /\ c.fk[Node(c.nxt, h, k)] # Missing
              /\ RightAfter(I, c.fk, ord, Node(c.nxt, h, k), Node(c.nxt, h, k + 1))
<1>1. /\ Missing \notin I /\ DOMAIN c.nxt = I
      /\ \A x \in I : c.nxt[x] \in I \cup {Missing}
      /\ \A x \in I : RowLinked(I, c.fk, ord, x, c.nxt[x], c.prv[x])
  BY DEF Linked, Columns
<1> DEFINE P == {j \in 0 .. k : Node(c.nxt, h, j) \in I \cup {Missing}}
<1>2. 0 \in P
  BY NodeSteps
<1>3. ASSUME NEW j \in 1 .. k, j - 1 \in P PROVE j \in P
  <2>1. j - 1 \in Nat /\ j \in 0 .. k /\ (j - 1) + 1 = j
    OBVIOUS
  <2>2. Node(c.nxt, h, j) = After(c.nxt, Node(c.nxt, h, j - 1))
    <3> DEFINE i == j - 1
    <3>1. i \in Nat /\ i + 1 = j
      BY <2>1
    <3> HIDE DEF i
    <3>2. Node(c.nxt, h, i + 1) = After(c.nxt, Node(c.nxt, h, i))
      BY <3>1, NodeSteps
    <3> QED
      BY <3>1, <3>2 DEF i
  <2>3. Node(c.nxt, h, j - 1) \in I \cup {Missing}
    BY <1>3
  <2>4. Node(c.nxt, h, j) \in I \cup {Missing}
    BY <1>1, <2>2, <2>3 DEF After
  <2> QED
    BY <2>1, <2>4
<1>4. \A j \in 0 .. k : j \in P
  <2> HIDE DEF P
  <2> QED
    BY <1>2, <1>3, InductionUpTo
<1>5. k \in 0 .. k
  OBVIOUS
<1>6. Node(c.nxt, h, k) \in I \cup {Missing}
  BY <1>4, <1>5
<1>7. Node(c.nxt, h, k + 1) = After(c.nxt, Node(c.nxt, h, k))
  BY NodeSteps
<1> DEFINE x == Node(c.nxt, h, k)
           y == Node(c.nxt, h, k + 1)
<1> HIDE DEF x, y, P
<1>8. x \in I \cup {Missing} /\ y = After(c.nxt, x)
  BY <1>6, <1>7 DEF x, y
<1>9. ASSUME y \in I
      PROVE  x \in I /\ y = c.nxt[x] /\ c.fk[x] # Missing /\ RightAfter(I, c.fk, ord, x, y)
  <2>1. x \in I /\ y = c.nxt[x]
    BY <1>1, <1>8, <1>9 DEF After
  <2>2. c.nxt[x] # Missing
    BY <1>1, <1>9, <2>1
  <2> QED
    BY <1>1, <2>1, <2>2 DEF RowLinked
<1> QED
  BY <1>6, <1>9 DEF x, y

\* A walk goes up the order of one list.
LEMMA WalkAscends ==
  ASSUME NEW I, NEW T, NEW c, NEW ord, Linked(I, T, c, ord), NEW h \in I \cup {Missing},
         NEW k \in Nat, Node(c.nxt, h, k) \in I, NEW j \in 0 .. k
  PROVE  /\ Node(c.nxt, h, j) \in I
         /\ c.fk[Node(c.nxt, h, j)] = c.fk[Node(c.nxt, h, k)]
         /\ ord[Node(c.nxt, h, j)] <= ord[Node(c.nxt, h, k)]
         /\ j < k => ord[Node(c.nxt, h, j)] < ord[Node(c.nxt, h, k)]
<1> DEFINE N(i) == Node(c.nxt, h, i)
           d == k - j
           Below(i) == /\ N(i) \in I
                       /\ c.fk[N(i)] = c.fk[N(k)]
                       /\ ord[N(i)] <= ord[N(k)]
                       /\ i < k => ord[N(i)] < ord[N(k)]
           P == {i \in 0 .. d : Below(k - i)}
<1>1. \A x \in I : ord[x] \in Nat
  BY DEF Linked, Ordered
<1>2. d \in Nat /\ k - d = j /\ k - 0 = k /\ d <= k
  OBVIOUS
<1> HIDE DEF d
<1>3. \A i \in Nat : N(i + 1) \in I => N(i) \in I /\ RightAfter(I, c.fk, ord, N(i), N(i + 1))
  BY WalkStep
<1>4. N(k) \in I
  OBVIOUS
<1> HIDE DEF N
<1>5. 0 \in P
  <2>1. Below(k)
    BY <1>1, <1>4
  <2>2. Below(k - 0)
    BY <1>2, <2>1
  <2> HIDE DEF Below
  <2> QED
    BY <1>2, <2>2
<1>6. ASSUME NEW i \in 1 .. d, i - 1 \in P PROVE i \in P
  <2> DEFINE m == k - i
  <2>1. m \in Nat /\ m + 1 = k - (i - 1) /\ m < k /\ i \in 0 .. d
    BY <1>2
  <2>2. Below(m + 1)
    <3> HIDE DEF Below
    <3> QED
      BY <1>6, <2>1
  <2> HIDE DEF m
  <2>3. N(m) \in I /\ RightAfter(I, c.fk, ord, N(m), N(m + 1))
    BY <1>3, <2>1, <2>2
  <2>4. c.fk[N(m)] = c.fk[N(k)] /\ ord[N(m)] < ord[N(m + 1)] /\ ord[N(m + 1)] <= ord[N(k)]
        /\ N(m + 1) \in I
    BY <2>2, <2>3 DEF RightAfter
  <2>5. ord[N(m)] < ord[N(k)] /\ ord[N(m)] <= ord[N(k)]
    BY <1>1, <1>4, <2>3, <2>4
  <2>6. Below(m)
    BY <2>3, <2>4, <2>5
  <2> HIDE DEF Below
  <2> QED
    BY <2>1, <2>6 DEF m
<1>7. \A i \in 0 .. d : i \in P
  <2> HIDE DEF P
  <2> QED
    BY <1>2, <1>5, <1>6, InductionUpTo
<1>8. Below(j)
  <2>1. d \in 0 .. d
    BY <1>2
  <2> HIDE DEF Below
  <2>2. Below(k - d)
    BY <1>7, <2>1
  <2> QED
    BY <1>2, <2>2
<1> QED
  BY <1>8 DEF N

\* A walk through rows of L visits no more rows than L has.
LEMMA WalkIsShort ==
  ASSUME NEW I, NEW T, NEW c, NEW ord, Linked(I, T, c, ord), NEW h \in I \cup {Missing},
         NEW L, IsFiniteSet(L), L \subseteq I,
         NEW k \in Nat, \A j \in 0 .. k : Node(c.nxt, h, j) \in L
  PROVE  k + 1 <= Cardinality(L)
<1> DEFINE f == [j \in 0 .. k |-> Node(c.nxt, h, j)]
<1>1. \A x \in I : ord[x] \in Nat
  BY DEF Linked, Ordered
<1>2. f \in [0 .. k -> L]
  OBVIOUS
<1>3. \A i, j \in 0 .. k : f[i] = f[j] => i = j
  <2>1. ASSUME NEW i \in 0 .. k, NEW j \in 0 .. k, i < j
        PROVE  f[i] # f[j]
    <3>1. j \in Nat /\ i \in 0 .. j /\ Node(c.nxt, h, j) \in I /\ Node(c.nxt, h, i) \in I
      BY <2>1
    <3>2. ord[Node(c.nxt, h, i)] < ord[Node(c.nxt, h, j)]
      BY <2>1, <3>1, WalkAscends
    <3>3. f[i] = Node(c.nxt, h, i) /\ f[j] = Node(c.nxt, h, j)
      OBVIOUS
    <3>4. ord[f[i]] < ord[f[j]] /\ ord[f[i]] \in Nat /\ ord[f[j]] \in Nat
      <4> HIDE DEF f
      <4> QED
        BY <1>1, <3>1, <3>2, <3>3
    <3> HIDE DEF f
    <3> QED
      BY <3>4
  <2> HIDE DEF f
  <2>2. ASSUME NEW i \in 0 .. k, NEW j \in 0 .. k, f[i] = f[j] PROVE i = j
    <3>1. ~(i < j) /\ ~(j < i)
      BY <2>1, <2>2
    <3> QED
      BY <3>1
  <2> QED
    BY <2>2
<1>4. f \in Injection(0 .. k, L)
  <2> HIDE DEF f
  <2> QED
    BY <1>2, <1>3 DEF Injection, IsInjective
<1>5. Cardinality(0 .. k) <= Cardinality(L)
  <2> HIDE DEF f
  <2> QED
    BY <1>4, FS_Injection
<1>6. 0 \in Int /\ k \in Int /\ ~(0 > k) /\ (k - 0) + 1 = k + 1
  OBVIOUS
<1>7. Cardinality(0 .. k) = k + 1
  BY <1>6, FS_Interval
<1> QED
  BY <1>5, <1>7

\* The rows of target t.
RowsTo(I, key, t) == {x \in I : key[x] = t}

\* Every row is on the walk from the head of its target.
LEMMA RowsAreReached ==
  ASSUME NEW I, NEW T, NEW c, NEW ord, Linked(I, T, c, ord), NEW t \in T
  PROVE  \A x \in I : c.fk[x] = t => \E k \in Nat : Node(c.nxt, c.head[t], k) = x
<1> DEFINE h == c.head[t]
           P == {x \in I : c.fk[x] = t => \E k \in Nat : Node(c.nxt, h, k) = x}
<1>1. /\ Missing \notin I /\ Missing \notin T /\ t # Missing
      /\ DOMAIN c.nxt = I
      /\ \A x \in I : ord[x] \in Nat
      /\ \A x, y \in I : c.fk[x] = c.fk[y] /\ c.fk[x] # Missing /\ ord[x] = ord[y] => x = y
      /\ HeadIs(I, c.fk, ord, t, h)
  BY DEF Linked, Columns, Ordered
<1>2. \A x \in I : RowLinked(I, c.fk, ord, x, c.nxt[x], c.prv[x])
  BY DEF Linked
<1>3. ASSUME NEW x \in I, \A y \in I : ord[y] < ord[x] => y \in P
      PROVE  x \in P
  <2> SUFFICES ASSUME c.fk[x] = t PROVE \E k \in Nat : Node(c.nxt, h, k) = x
    OBVIOUS
  <2>1. CASE c.prv[x] = Missing
    <3>1. IsFirst(I, c.fk, ord, x)
      BY <1>1, <1>2, <2>1 DEF RowLinked
    <3>2. h \in I /\ c.fk[h] = t /\ IsFirst(I, c.fk, ord, h)
      BY <1>1 DEF HeadIs
    <3>3. ord[h] <= ord[x] /\ ord[x] <= ord[h]
      BY <3>1, <3>2 DEF IsFirst
    <3>4. ord[h] = ord[x]
      <4>1. ord[h] \in Nat /\ ord[x] \in Nat
        BY <1>1, <3>2
      <4> QED
        BY <3>3, <4>1
    <3>5. h = x
      BY <1>1, <3>2, <3>4
    <3>6. Node(c.nxt, h, 0) = x /\ 0 \in Nat
      BY <3>5, NodeSteps, ZenonT(30)
    <3> QED
      BY <3>6
  <2>2. CASE c.prv[x] # Missing
    <3> DEFINE y == c.prv[x]
    <3>1. y \in I /\ RightAfter(I, c.fk, ord, y, x)
      BY <1>1, <1>2, <2>2 DEF RowLinked
    <3>2. c.nxt[y] = x
      BY <3>1, LinksMatch
    <3>3. ord[y] < ord[x] /\ c.fk[y] = t
      BY <3>1 DEF RightAfter
    <3>4. y \in P
      BY <1>3, <3>1, <3>3
    <3> HIDE DEF y
    <3>5. PICK k \in Nat : Node(c.nxt, h, k) = y
      BY <3>3, <3>4
    <3>6. Node(c.nxt, h, k + 1) = After(c.nxt, y)
      BY <3>5, NodeSteps, ZenonT(30)
    <3>7. Node(c.nxt, h, k + 1) = x /\ k + 1 \in Nat
      BY <1>1, <3>1, <3>2, <3>6 DEF After
    <3> QED
      BY <3>7
  <2> QED
    BY <2>1, <2>2
<1>4. I \subseteq P
  <2> HIDE DEF P
  <2> QED
    BY <1>1, <1>3, InductionAlong
<1> QED
  BY <1>4

\* Walking at least as many rows as reference the target finds these and no
\* others, and then the list has ended.
LEMMA WalkFindsRows ==
  ASSUME NEW I, NEW T, NEW c, NEW ord, Linked(I, T, c, ord), IsFiniteSet(I), NEW t \in T,
         NEW n \in Nat, Cardinality(RowsTo(I, c.fk, t)) <= n
  PROVE  /\ Reached(c.nxt, c.head[t], n) = RowsTo(I, c.fk, t)
         /\ Node(c.nxt, c.head[t], Cardinality(RowsTo(I, c.fk, t))) = Missing
<1> DEFINE h == c.head[t]
           L == RowsTo(I, c.fk, t)
           m == Cardinality(L)
           N(k) == Node(c.nxt, h, k)
<1>1. /\ Missing \notin I /\ DOMAIN c.nxt = I /\ h \in I \cup {Missing}
      /\ HeadIs(I, c.fk, ord, t, h)
  BY DEF Linked, Columns
<1>2. L \subseteq I /\ IsFiniteSet(L) /\ m \in Nat
  <2>1. L \in SUBSET I
    BY DEF RowsTo
  <2>2. IsFiniteSet(L)
    <3> HIDE DEF L
    <3> QED
      BY <2>1, FS_Subset
  <2> HIDE DEF L
  <2> QED
    BY <2>1, <2>2, FS_CardinalityType
<1>3. ASSUME NEW k \in Nat, N(k) \in I
      PROVE  /\ \A j \in 0 .. k : N(j) \in L
             /\ k < m
  <2>1. 0 \in 0 .. k /\ N(0) = h
    BY NodeSteps
  <2>2. N(0) \in I /\ c.fk[N(0)] = c.fk[N(k)]
    BY <1>1, <1>3, <2>1, WalkAscends
  <2>3. c.fk[N(0)] = t
    BY <1>1, <2>1, <2>2 DEF HeadIs
  <2>4. ASSUME NEW j \in 0 .. k PROVE N(j) \in L
    <3>1. N(j) \in I /\ c.fk[N(j)] = c.fk[N(k)]
      BY <1>1, <1>3, WalkAscends
    <3> QED
      BY <2>2, <2>3, <3>1 DEF RowsTo
  <2>5. k + 1 <= m
    <3> HIDE DEF L
    <3>1. \A j \in 0 .. k : Node(c.nxt, h, j) \in L
      BY <2>4
    <3> QED
      BY <1>1, <1>2, <3>1, WalkIsShort
  <2>6. k < m
    <3> HIDE DEF m
    <3> QED
      BY <1>2, <2>5
  <2> QED
    BY <2>4, <2>6
<1>4. \A k \in Nat : N(k) \in I \cup {Missing}
  BY <1>1, WalkStep
<1>5. N(m) = Missing
  <2> HIDE DEF m, N
  <2>1. ~(m < m)
    BY <1>2
  <2> QED
    BY <1>2, <1>3, <1>4, <2>1
<1>6. \A x \in L : \E k \in 0 .. n - 1 : N(k) = x
  <2> SUFFICES ASSUME NEW x \in L PROVE \E k \in 0 .. n - 1 : N(k) = x
    OBVIOUS
  <2>1. x \in I /\ c.fk[x] = t
    BY DEF RowsTo
  <2>2. PICK k \in Nat : N(k) = x
    BY <2>1, RowsAreReached
  <2>3. k < m
    BY <1>3, <2>1, <2>2
  <2>4. m <= n
    OBVIOUS
  <2> HIDE DEF m, N
  <2>5. k \in 0 .. n - 1
    BY <1>2, <2>3, <2>4
  <2> QED
    BY <2>2, <2>5
<1>7. \A x \in I : \A k \in 0 .. n - 1 : N(k) = x => x \in L
  <2> SUFFICES ASSUME NEW k \in 0 .. n - 1, N(k) \in I PROVE N(k) \in L
    OBVIOUS
  <2>1. k \in Nat /\ k \in 0 .. k
    OBVIOUS
  <2> HIDE DEF L, N
  <2> QED
    BY <1>3, <2>1
<1>8. Reached(c.nxt, h, n) = L
  <2> HIDE DEF L, h
  <2> QED
    BY <1>1, <1>2, <1>6, <1>7 DEF Reached
<1> QED
  BY <1>5, <1>8

(***************************************************************************)
(* Surviving neighbours.                                                   *)
(***************************************************************************)
\* s is the first row from x on in its list that is not dead, if there is one.
FirstAlive(I, key, ord, dead, x, s) ==
  IF s = Missing THEN \A u \in I : key[u] = key[x] /\ ord[x] <= ord[u] => u \in dead
  ELSE /\ s \in I /\ s \notin dead /\ key[s] = key[x] /\ ord[x] <= ord[s]
       /\ \A u \in I : key[u] = key[x] /\ ord[x] <= ord[u] /\ ord[u] < ord[s] => u \in dead

\* The walk of SurvivingNeighbor ends.
LEMMA SurvivorExists ==
  ASSUME NEW I, NEW T, NEW c, NEW ord, Linked(I, T, c, ord), IsFiniteSet(I),
         NEW h \in I \cup {Missing}, NEW dead \in SUBSET I
  PROVE  \E k \in 0 .. Cardinality(I) :
           /\ Node(c.nxt, h, k) \notin dead
           /\ \A j \in 0 .. k - 1 : Node(c.nxt, h, j) \in dead
<1> DEFINE N(k) == Node(c.nxt, h, k)
           n == Cardinality(I)
           S == {k \in 0 .. n : N(k) \notin dead}
           id == [k \in 0 .. n |-> k]
<1>1. n \in Nat
  BY FS_CardinalityType
<1>2. S # {}
  <2> SUFFICES ASSUME S = {} PROVE FALSE
    OBVIOUS
  <2>1. \A k \in 0 .. n : N(k) \in I
    OBVIOUS
  <2>2. n + 1 <= n
    <3> HIDE DEF n
    <3>1. \A k \in 0 .. n : Node(c.nxt, h, k) \in I
      BY <2>1
    <3>2. n + 1 <= Cardinality(I)
      BY <1>1, <3>1, WalkIsShort
    <3> QED
      BY <3>2 DEF n
  <2> HIDE DEF n
  <2> QED
    BY <1>1, <2>2
<1>3. \A k \in S : id[k] \in Nat /\ id[k] = k /\ k \in 0 .. n
  BY <1>1
<1>4. PICK k \in S : \A j \in S : id[k] <= id[j]
  <2> HIDE DEF S, id
  <2> QED
    BY <1>2, <1>3, FirstExists
<1>5. \A j \in 0 .. k - 1 : N(j) \in dead
  <2> SUFFICES ASSUME NEW j \in 0 .. k - 1, N(j) \notin dead PROVE FALSE
    OBVIOUS
  <2>1. j \in 0 .. n /\ k \in Nat /\ j < k
    <3> HIDE DEF n
    <3> QED
      BY <1>1, <1>3
  <2>2. j \in S
    BY <2>1
  <2>3. k <= j
    <3> HIDE DEF S, id
    <3> QED
      BY <1>3, <1>4, <2>2
  <2> QED
    BY <2>1, <2>3
<1> QED
  BY <1>4, <1>5

\* SurvivingNeighbor finds the first row that is not dead.
LEMMA SurvivorIs ==
  ASSUME NEW I, NEW T, NEW c, NEW ord, Linked(I, T, c, ord), IsFiniteSet(I),
         NEW x \in I, c.fk[x] # Missing, NEW dead \in SUBSET I
  PROVE  FirstAlive(I, c.fk, ord, dead, x, SurvivingNeighbor(c.nxt, x, dead))
<1> DEFINE N(i) == Node(c.nxt, x, i)
           Is(i) == N(i) \notin dead /\ \A j \in 0 .. i - 1 : N(j) \in dead
           k == CHOOSE i \in 0 .. Cardinality(I) : Is(i)
<1>1. /\ Missing \notin I /\ DOMAIN c.nxt = I
      /\ \A u \in I : ord[u] \in Nat
      /\ \A u, v \in I : c.fk[u] = c.fk[v] /\ c.fk[u] # Missing /\ ord[u] = ord[v] => u = v
      /\ \A u \in I : RowLinked(I, c.fk, ord, u, c.nxt[u], c.prv[u])
  BY DEF Linked, Columns, Ordered
<1>2. SurvivingNeighbor(c.nxt, x, dead) = N(k)
  BY <1>1 DEF SurvivingNeighbor
<1>3. k \in 0 .. Cardinality(I) /\ Is(k)
  <2>1. \E i \in 0 .. Cardinality(I) : Is(i)
    BY SurvivorExists
  <2> HIDE DEF Is
  <2> QED
    BY <2>1
<1>4. N(k) \notin dead /\ \A j \in 0 .. k - 1 : N(j) \in dead
  BY <1>3
<1>5. k \in Nat
  <2>1. Cardinality(I) \in Nat
    BY FS_CardinalityType
  <2> HIDE DEF k
  <2> QED
    BY <1>3, <2>1
<1> HIDE DEF k
<1>6. N(0) = x /\ \A j \in Nat : N(j + 1) = After(c.nxt, N(j))
  BY NodeSteps
<1> DEFINE Above(j) == \A u \in I : c.fk[u] = c.fk[x] /\ ord[x] <= ord[u] =>
                          u \in dead \/ (N(j) \in I /\ ord[N(j)] <= ord[u])
           P == {j \in 0 .. k : Above(j) /\ (N(j) \in I => c.fk[N(j)] = c.fk[x])}
<1>7. 0 \in P
  BY <1>5, <1>6
<1>8. ASSUME NEW j \in 1 .. k, j - 1 \in P PROVE j \in P
  <2> DEFINE i == j - 1
             y == N(i)
             z == N(i + 1)
  <2>1. i \in Nat /\ i + 1 = j /\ i \in 0 .. k - 1 /\ j \in 0 .. k
    BY <1>5
  <2>2. y \in dead /\ Above(i) /\ (y \in I => c.fk[y] = c.fk[x])
    BY <1>4, <1>8, <2>1
  <2>3. y \in I /\ c.fk[y] = c.fk[x]
    BY <2>2
  <2>4. z = c.nxt[y]
    BY <1>1, <1>6, <2>1, <2>3 DEF After
  <2>5. RowLinked(I, c.fk, ord, y, c.nxt[y], c.prv[y])
    BY <1>1, <2>3
  <2>6. \A u \in I : c.fk[u] = c.fk[x] /\ ord[x] <= ord[u] => u \in dead \/ ord[y] <= ord[u]
    BY <2>2
  <2> HIDE DEF y, z, N, i
  <2>7. ASSUME NEW u \in I, c.fk[u] = c.fk[x], ord[x] <= ord[u], u \notin dead
        PROVE  z \in I /\ ord[z] <= ord[u]
    <3>1. ord[y] <= ord[u] /\ u # y
      BY <2>2, <2>6, <2>7
    <3>2. ord[y] # ord[u]
      BY <1>1, <2>3, <2>7, <3>1
    <3>3. ~(ord[u] <= ord[y])
      BY <1>1, <2>3, <3>1, <3>2
    <3>4. z # Missing
      BY <2>3, <2>4, <2>5, <2>7, <3>3 DEF RowLinked, IsLast
    <3>5. RightAfter(I, c.fk, ord, y, z)
      BY <2>3, <2>4, <2>5, <3>4 DEF RowLinked
    <3> QED
      BY <2>3, <2>7, <3>3, <3>5 DEF RightAfter
  <2>8. z \in I => c.fk[z] = c.fk[x]
    <3> SUFFICES ASSUME z \in I PROVE c.fk[z] = c.fk[x]
      OBVIOUS
    <3>1. z # Missing
      BY <1>1
    <3> QED
      BY <2>3, <2>4, <2>5, <3>1 DEF RowLinked, RightAfter
  <2>9. z = N(j)
    BY <2>1 DEF z
  <2> QED
    BY <2>1, <2>7, <2>8, <2>9
<1>9. \A j \in 0 .. k : j \in P
  <2> HIDE DEF P
  <2> QED
    BY <1>5, <1>7, <1>8, InductionUpTo
<1>10. Above(k) /\ (N(k) \in I => c.fk[N(k)] = c.fk[x])
  <2>1. k \in 0 .. k
    BY <1>5
  <2>2. k \in P
    BY <1>9, <2>1
  <2> HIDE DEF Above
  <2> QED
    BY <2>2
<1> DEFINE s == N(k)
<1>11. s \in I \cup {Missing}
  BY <1>5, WalkStep
<1>12. s \in I => ord[x] <= ord[s]
  <2>1. 0 \in 0 .. k
    BY <1>5
  <2> SUFFICES ASSUME s \in I PROVE ord[x] <= ord[s]
    OBVIOUS
  <2>2. ord[N(0)] <= ord[N(k)]
    BY <1>5, <2>1, WalkAscends
  <2> QED
    BY <1>6, <2>2
<1>13. s \notin dead
  BY <1>4
<1>14. \A u \in I : c.fk[u] = c.fk[x] /\ ord[x] <= ord[u] =>
                      u \in dead \/ (s \in I /\ ord[s] <= ord[u])
  BY <1>10
<1>15. s \in I => c.fk[s] = c.fk[x]
  BY <1>10
<1> HIDE DEF s
<1>16. FirstAlive(I, c.fk, ord, dead, x, s)
  <2>1. CASE s = Missing
    BY <1>1, <1>14, <2>1 DEF FirstAlive
  <2>2. CASE s # Missing
    <3>1. s \in I
      BY <1>11, <2>2
    <3>2. \A u \in I : c.fk[u] = c.fk[x] /\ ord[x] <= ord[u] /\ ord[u] < ord[s] => u \in dead
      <4> SUFFICES ASSUME NEW u \in I, c.fk[u] = c.fk[x], ord[x] <= ord[u],
                          ord[u] < ord[s], u \notin dead
                   PROVE  FALSE
        OBVIOUS
      <4>1. ord[s] <= ord[u] /\ ord[u] \in Nat /\ ord[s] \in Nat
        BY <1>1, <1>14, <3>1
      <4> QED
        BY <4>1
    <3> QED
      BY <1>12, <1>13, <1>15, <2>2, <3>1, <3>2 DEF FirstAlive
  <2> QED
    BY <2>1, <2>2
<1> QED
  BY <1>2, <1>16 DEF s

\* The walk that has ended already, and the walk that ends where it begins.
LEMMA SurvivorStays ==
  ASSUME NEW I, NEW T, NEW c, NEW ord, Linked(I, T, c, ord), IsFiniteSet(I),
         NEW h \in I \cup {Missing}, NEW dead \in SUBSET I, h \notin dead
  PROVE  SurvivingNeighbor(c.nxt, h, dead) = h
<1> DEFINE N(i) == Node(c.nxt, h, i)
           Is(i) == N(i) \notin dead /\ \A j \in 0 .. i - 1 : N(j) \in dead
           k == CHOOSE i \in 0 .. Cardinality(I) : Is(i)
<1>1. DOMAIN c.nxt = I
  BY DEF Linked, Columns
<1>2. SurvivingNeighbor(c.nxt, h, dead) = N(k)
  BY <1>1 DEF SurvivingNeighbor
<1>3. k \in 0 .. Cardinality(I) /\ Is(k)
  <2>1. \E i \in 0 .. Cardinality(I) : Is(i)
    BY SurvivorExists
  <2> HIDE DEF Is
  <2> QED
    BY <2>1
<1>4. Cardinality(I) \in Nat
  BY FS_CardinalityType
<1>5. N(0) = h
  BY NodeSteps
<1>6. \A j \in 0 .. k - 1 : N(j) \in dead
  BY <1>3
<1> HIDE DEF k
<1>7. k = 0
  <2> SUFFICES ASSUME k # 0 PROVE FALSE
    OBVIOUS
  <2>1. 0 \in 0 .. k - 1
    BY <1>3, <1>4
  <2> QED
    BY <1>5, <1>6, <2>1
<1> QED
  BY <1>2, <1>5, <1>7

\* s is the first row after x that is not dead; the last before x; the first of
\* the list of t.
AliveAfter(I, key, ord, dead, x, s) ==
  IF s = Missing THEN \A u \in I : key[u] = key[x] /\ ord[x] < ord[u] => u \in dead
  ELSE /\ s \in I /\ s \notin dead /\ key[s] = key[x] /\ ord[x] < ord[s]
       /\ \A u \in I : key[u] = key[x] /\ ord[x] < ord[u] /\ ord[u] < ord[s] => u \in dead

AliveBefore(I, key, ord, dead, x, s) ==
  IF s = Missing THEN \A u \in I : key[u] = key[x] /\ ord[u] < ord[x] => u \in dead
  ELSE /\ s \in I /\ s \notin dead /\ key[s] = key[x] /\ ord[s] < ord[x]
       /\ \A u \in I : key[u] = key[x] /\ ord[s] < ord[u] /\ ord[u] < ord[x] => u \in dead

AliveFirst(I, key, ord, dead, t, s) ==
  IF s = Missing THEN \A u \in I : key[u] = t => u \in dead
  ELSE /\ s \in I /\ s \notin dead /\ key[s] = t
       /\ \A u \in I : key[u] = t /\ ord[u] < ord[s] => u \in dead

\* The survivor after a row.
LEMMA SurvivorAfter ==
  ASSUME NEW I, NEW T, NEW c, NEW ord, Linked(I, T, c, ord), IsFiniteSet(I),
         NEW x \in I, c.fk[x] # Missing, NEW dead \in SUBSET I
  PROVE  AliveAfter(I, c.fk, ord, dead, x, SurvivingNeighbor(c.nxt, c.nxt[x], dead))
<1>1. /\ Missing \notin I /\ c.nxt[x] \in I \cup {Missing}
      /\ \A u \in I : ord[u] \in Nat
      /\ RowLinked(I, c.fk, ord, x, c.nxt[x], c.prv[x])
  BY DEF Linked, Columns, Ordered
<1> DEFINE y == c.nxt[x]
           s == SurvivingNeighbor(c.nxt, y, dead)
<1>2. CASE y = Missing
  <2>1. s = Missing
    <3>1. Missing \notin dead
      BY <1>1
    <3> QED
      BY <1>2, <3>1, SurvivorStays
  <2>2. IsLast(I, c.fk, ord, x)
    BY <1>1, <1>2 DEF RowLinked
  <2>3. \A u \in I : c.fk[u] = c.fk[x] => ~(ord[x] < ord[u])
    BY <1>1, <2>2 DEF IsLast
  <2> QED
    BY <2>1, <2>3 DEF AliveAfter
<1>3. CASE y # Missing
  <2>1. y \in I /\ RightAfter(I, c.fk, ord, x, y)
    BY <1>1, <1>3 DEF RowLinked
  <2>2. /\ c.fk[y] = c.fk[x] /\ ord[x] < ord[y]
        /\ \A u \in I : c.fk[u] = c.fk[x] => ord[u] <= ord[x] \/ ord[y] <= ord[u]
    BY <2>1 DEF RightAfter
  <2>3. FirstAlive(I, c.fk, ord, dead, y, s)
    BY <2>1, <2>2, SurvivorIs
  <2>4. \A u \in I : c.fk[u] = c.fk[x] /\ ord[x] < ord[u] => ord[y] <= ord[u]
    <3> SUFFICES ASSUME NEW u \in I, c.fk[u] = c.fk[x], ord[x] < ord[u] PROVE ord[y] <= ord[u]
      OBVIOUS
    <3>1. ord[u] <= ord[x] \/ ord[y] <= ord[u]
      BY <2>2
    <3>2. ord[u] \in Nat /\ ord[x] \in Nat
      BY <1>1
    <3> QED
      BY <3>1, <3>2
  <2> HIDE DEF s, y
  <2>5. CASE s = Missing
    <3>1. AliveAfter(I, c.fk, ord, dead, x, s)
      BY <2>2, <2>3, <2>4, <2>5 DEF FirstAlive, AliveAfter
    <3> QED
      BY <3>1 DEF s, y
  <2>6. CASE s # Missing
    <3>1. /\ s \in I /\ s \notin dead /\ c.fk[s] = c.fk[y] /\ ord[y] <= ord[s]
          /\ \A u \in I : c.fk[u] = c.fk[y] /\ ord[y] <= ord[u] /\ ord[u] < ord[s] => u \in dead
      BY <2>3, <2>6 DEF FirstAlive
    <3>2. ord[x] < ord[s]
      BY <1>1, <2>1, <2>2, <3>1
    <3>3. AliveAfter(I, c.fk, ord, dead, x, s)
      BY <2>2, <2>4, <2>6, <3>1, <3>2 DEF AliveAfter
    <3> QED
      BY <3>3 DEF s, y
  <2> QED
    BY <2>5, <2>6 DEF s
<1> QED
  BY <1>2, <1>3

\* The survivor the list of a target begins with.
LEMMA SurvivorFirst ==
  ASSUME NEW I, NEW T, NEW c, NEW ord, Linked(I, T, c, ord), IsFiniteSet(I),
         NEW t \in T, NEW dead \in SUBSET I
  PROVE  AliveFirst(I, c.fk, ord, dead, t, SurvivingNeighbor(c.nxt, c.head[t], dead))
<1>1. /\ Missing \notin I /\ Missing \notin T /\ c.head[t] \in I \cup {Missing}
      /\ \A u \in I : ord[u] \in Nat
      /\ HeadIs(I, c.fk, ord, t, c.head[t])
  BY DEF Linked, Columns, Ordered
<1> DEFINE y == c.head[t]
           s == SurvivingNeighbor(c.nxt, y, dead)
<1>2. CASE y = Missing
  <2>1. s = Missing
    <3>1. Missing \notin dead
      BY <1>1
    <3> QED
      BY <1>2, <3>1, SurvivorStays
  <2> QED
    BY <1>1, <1>2, <2>1 DEF HeadIs, AliveFirst
<1>3. CASE y # Missing
  <2>1. y \in I /\ c.fk[y] = t /\ IsFirst(I, c.fk, ord, y)
    BY <1>1, <1>3 DEF HeadIs
  <2>2. FirstAlive(I, c.fk, ord, dead, y, s)
    BY <1>1, <2>1, SurvivorIs
  <2> HIDE DEF s, y
  <2>3. \A u \in I : c.fk[u] = t => ord[y] <= ord[u]
    BY <2>1 DEF IsFirst
  <2>4. AliveFirst(I, c.fk, ord, dead, t, s)
    BY <2>1, <2>2, <2>3 DEF FirstAlive, AliveFirst
  <2> QED
    BY <2>4 DEF s, y
<1> QED
  BY <1>2, <1>3

\* The first row of a list has none before it.
LEMMA HeadsHaveNoPrevious ==
  ASSUME NEW I, NEW T, NEW c, NEW ord, Linked(I, T, c, ord), NEW t \in T, c.head[t] \in I
  PROVE  c.fk[c.head[t]] = t /\ c.prv[c.head[t]] = Missing
<1> DEFINE h == c.head[t]
<1>1. /\ h # Missing /\ t # Missing
      /\ \A u \in I : ord[u] \in Nat
      /\ HeadIs(I, c.fk, ord, t, h)
      /\ RowLinked(I, c.fk, ord, h, c.nxt[h], c.prv[h])
  BY DEF Linked, Columns, Ordered
<1>2. c.fk[h] = t /\ IsFirst(I, c.fk, ord, h)
  BY <1>1 DEF HeadIs
<1>3. c.prv[h] = Missing
  <2> SUFFICES ASSUME c.prv[h] # Missing PROVE FALSE
    OBVIOUS
  <2> DEFINE p == c.prv[h]
  <2>1. p \in I /\ RightAfter(I, c.fk, ord, p, h)
    BY <1>1, <1>2 DEF RowLinked
  <2> HIDE DEF p
  <2>2. c.fk[p] = t /\ ord[p] < ord[h] /\ h \in I
    BY <1>2, <2>1 DEF RightAfter
  <2>3. ord[h] <= ord[p]
    BY <1>2, <2>1, <2>2 DEF IsFirst
  <2> QED
    BY <1>1, <2>1, <2>2, <2>3
<1> QED
  BY <1>2, <1>3

\* There is one survivor after a row at most.
LEMMA AliveAfterUnique ==
  ASSUME NEW I, NEW key, NEW ord, Ordered(I, key, ord), Missing \notin I, NEW dead,
         NEW x \in I, key[x] # Missing, NEW s, NEW r,
         AliveAfter(I, key, ord, dead, x, s), AliveAfter(I, key, ord, dead, x, r)
  PROVE  s = r
<1>1. \A u \in I : ord[u] \in Nat
  BY DEF Ordered
<1>2. CASE s = Missing \/ r = Missing
  BY <1>2 DEF AliveAfter
<1>3. CASE s # Missing /\ r # Missing
  <2>1. /\ s \in I /\ s \notin dead /\ key[s] = key[x] /\ ord[x] < ord[s]
        /\ \A u \in I : key[u] = key[x] /\ ord[x] < ord[u] /\ ord[u] < ord[s] => u \in dead
    BY <1>3 DEF AliveAfter
  <2>2. /\ r \in I /\ r \notin dead /\ key[r] = key[x] /\ ord[x] < ord[r]
        /\ \A u \in I : key[u] = key[x] /\ ord[x] < ord[u] /\ ord[u] < ord[r] => u \in dead
    BY <1>3 DEF AliveAfter
  <2>3. ~(ord[s] < ord[r]) /\ ~(ord[r] < ord[s])
    BY <2>1, <2>2
  <2>4. ord[s] \in Nat /\ ord[r] \in Nat
    BY <1>1, <2>1, <2>2
  <2>5. ord[s] = ord[r]
    BY <2>3, <2>4
  <2> QED
    BY <2>1, <2>2, <2>5 DEF Ordered
<1> QED
  BY <1>2, <1>3

(***************************************************************************)
(* The phases of a patch.                                                  *)
(***************************************************************************)
\* The first row of a run of dead rows before a survivor.
LEMMA RunStarts ==
  ASSUME NEW I, NEW T, NEW c, NEW ord, Linked(I, T, c, ord), IsFiniteSet(I),
         NEW dead \in SUBSET I, NEW x \in I, x \notin dead, c.prv[x] \in dead
  PROVE  \E r \in dead : /\ c.prv[r] \notin dead /\ c.fk[r] # Missing
                         /\ SurvivingNeighbor(c.nxt, c.nxt[r], dead) = x
<1>1. /\ Missing \notin I
      /\ \A u \in I : ord[u] \in Nat
      /\ \A u \in I : RowLinked(I, c.fk, ord, u, c.nxt[u], c.prv[u])
      /\ Ordered(I, c.fk, ord)
      /\ \A u \in I : c.prv[u] \in I \cup {Missing}
  BY DEF Linked, Columns, Ordered
<1> DEFINE p == c.prv[x]
           Dead(u) == \A v \in I : c.fk[v] = c.fk[x] /\ ord[u] <= ord[v] /\ ord[v] < ord[x]
                                     => v \in dead
           D == {u \in I : c.fk[u] = c.fk[x] /\ ord[u] < ord[x] /\ Dead(u)}
<1>2. p \in I /\ p # Missing
  BY <1>1
<1>3. c.fk[x] # Missing /\ RightAfter(I, c.fk, ord, p, x)
  BY <1>1, <1>2 DEF RowLinked
<1>4. /\ c.fk[p] = c.fk[x] /\ ord[p] < ord[x]
      /\ \A u \in I : c.fk[u] = c.fk[p] => ord[u] <= ord[p] \/ ord[x] <= ord[u]
  BY <1>3 DEF RightAfter
<1>5. p \in D
  <2>1. ASSUME NEW v \in I, c.fk[v] = c.fk[x], ord[p] <= ord[v], ord[v] < ord[x]
        PROVE  v \in dead
    <3>1. ord[v] <= ord[p] \/ ord[x] <= ord[v]
      BY <1>4, <2>1
    <3>2. ord[v] = ord[p]
      <4>1. ord[v] \in Nat /\ ord[p] \in Nat /\ ord[x] \in Nat
        BY <1>1, <1>2
      <4> HIDE DEF p
      <4> QED
        BY <2>1, <3>1, <4>1
    <3>3. v = p
      BY <1>1, <1>2, <1>3, <1>4, <2>1, <3>2 DEF Ordered
    <3> QED
      BY <3>3
  <2>2. Dead(p)
    BY <2>1
  <2> HIDE DEF Dead, p
  <2> QED
    BY <1>2, <1>4, <2>2
<1> HIDE DEF p
<1>6. \A u \in D : ord[u] \in Nat
  BY <1>1
<1>7. PICK r \in D : \A u \in D : ord[r] <= ord[u]
  <2> HIDE DEF D
  <2> QED
    BY <1>5, <1>6, FirstExists
<1>8. /\ r \in I /\ c.fk[r] = c.fk[x] /\ ord[r] < ord[x]
      /\ \A v \in I : c.fk[v] = c.fk[x] /\ ord[r] <= ord[v] /\ ord[v] < ord[x] => v \in dead
  OBVIOUS
<1>9. r \in dead
  <2>1. ord[r] <= ord[r]
    BY <1>1, <1>8
  <2> QED
    BY <1>8, <2>1
<1>10. c.prv[r] \notin dead
  <2> SUFFICES ASSUME c.prv[r] \in dead PROVE FALSE
    OBVIOUS
  <2> DEFINE q == c.prv[r]
  <2>1. q \in I /\ q # Missing
    BY <1>1
  <2>2. RightAfter(I, c.fk, ord, q, r)
    BY <1>1, <1>3, <1>8, <2>1 DEF RowLinked
  <2>3. /\ c.fk[q] = c.fk[x] /\ ord[q] < ord[r]
        /\ \A u \in I : c.fk[u] = c.fk[q] => ord[u] <= ord[q] \/ ord[r] <= ord[u]
    BY <1>8, <2>2 DEF RightAfter
  <2>4. q \in dead
    OBVIOUS
  <2> HIDE DEF q
  <2>5. ASSUME NEW v \in I, c.fk[v] = c.fk[x], ord[q] <= ord[v], ord[v] < ord[x]
        PROVE  v \in dead
    <3>1. CASE ord[r] <= ord[v]
      BY <1>8, <2>5, <3>1
    <3>2. CASE ord[v] <= ord[q]
      <4>1. ord[v] = ord[q]
        BY <1>1, <2>1, <2>5, <3>2
      <4>2. v = q
        BY <1>1, <1>3, <2>1, <2>3, <2>5, <4>1 DEF Ordered
      <4> QED
        BY <2>4, <4>2
    <3> QED
      BY <2>3, <2>5, <3>1, <3>2
  <2>6. ord[q] < ord[x]
    BY <1>1, <1>8, <2>1, <2>3
  <2>7. q \in D
    <3>1. Dead(q)
      BY <2>5
    <3> HIDE DEF Dead
    <3> QED
      BY <2>1, <2>3, <2>6, <3>1
  <2>8. ord[r] <= ord[q]
    BY <1>7, <2>7
  <2> QED
    BY <1>1, <1>8, <2>1, <2>3, <2>8
<1> HIDE DEF D
<1>11. AliveAfter(I, c.fk, ord, dead, r, x)
  <2>1. x # Missing
    BY <1>1
  <2>2. ASSUME NEW u \in I, c.fk[u] = c.fk[r], ord[r] < ord[u], ord[u] < ord[x]
        PROVE  u \in dead
    <3>1. ord[r] <= ord[u]
      BY <1>1, <1>8, <2>2
    <3> QED
      BY <1>8, <2>2, <3>1
  <2> QED
    BY <1>8, <2>1, <2>2 DEF AliveAfter
<1>12. AliveAfter(I, c.fk, ord, dead, r, SurvivingNeighbor(c.nxt, c.nxt[r], dead))
  BY <1>3, <1>8, SurvivorAfter
<1>13. SurvivingNeighbor(c.nxt, c.nxt[r], dead) = x
  BY <1>1, <1>3, <1>8, <1>11, <1>12, AliveAfterUnique
<1> QED
  BY <1>3, <1>8, <1>9, <1>10, <1>13

\* The survivor after a dead row is the one after the row before.
LEMMA DeadIsSkipped ==
  ASSUME NEW I, NEW T, NEW c, NEW ord, Linked(I, T, c, ord), NEW dead, NEW x \in I,
         c.fk[x] # Missing, NEW r \in dead, RightAfter(I, c.fk, ord, x, r), NEW s,
         AliveAfter(I, c.fk, ord, dead, r, s)
  PROVE  AliveAfter(I, c.fk, ord, dead, x, s)
<1>1. Ordered(I, c.fk, ord) /\ \A u \in I : ord[u] \in Nat
  BY DEF Linked, Ordered
<1>2. /\ r \in I /\ c.fk[r] = c.fk[x] /\ ord[x] < ord[r]
      /\ \A u \in I : c.fk[u] = c.fk[x] => ord[u] <= ord[x] \/ ord[r] <= ord[u]
  BY DEF RightAfter
<1>3. ASSUME NEW u \in I, c.fk[u] = c.fk[x], ord[x] < ord[u], u \notin dead
      PROVE  ord[r] < ord[u]
  <2>1. ord[r] <= ord[u]
    <3>1. ord[u] <= ord[x] \/ ord[r] <= ord[u]
      BY <1>2, <1>3
    <3> QED
      BY <1>1, <1>3, <3>1
  <2>2. ord[r] # ord[u]
    BY <1>1, <1>2, <1>3 DEF Ordered
  <2> QED
    BY <1>1, <1>2, <2>1, <2>2
<1>4. CASE s = Missing
  BY <1>2, <1>3, <1>4 DEF AliveAfter
<1>5. CASE s # Missing
  <2>1. /\ s \in I /\ s \notin dead /\ c.fk[s] = c.fk[r] /\ ord[r] < ord[s]
        /\ \A u \in I : c.fk[u] = c.fk[r] /\ ord[r] < ord[u] /\ ord[u] < ord[s] => u \in dead
    BY <1>5 DEF AliveAfter
  <2>2. ord[x] < ord[s]
    BY <1>1, <1>2, <2>1
  <2> QED
    BY <1>2, <1>3, <1>5, <2>1, <2>2 DEF AliveAfter
<1> QED
  BY <1>4, <1>5

\* What PatchUnlinked writes to the next column: the row after each gap.
LEMMA UnlinkedNext ==
  ASSUME NEW I, NEW T, NEW c, NEW ord, Linked(I, T, c, ord), IsFiniteSet(I),
         NEW dead \in SUBSET I, NEW ignore
  PROVE  LET w == PatchUnlinked(c, dead, ignore).nxt
         IN  /\ DOMAIN w = {x \in I : x \notin dead /\ c.nxt[x] \in dead}
             /\ \A x \in DOMAIN w : AliveAfter(I, c.fk, ord, dead, x, w[x])
<1> DEFINE w == PatchUnlinked(c, dead, ignore).nxt
           S == {r \in dead : c.prv[r] \notin dead /\ c.prv[r] # Missing}
<1>1. /\ Missing \notin I
      /\ \A u \in I : c.prv[u] \in I \cup {Missing}
      /\ \A u \in I : c.nxt[u] \in I \cup {Missing}
  BY DEF Linked, Columns
<1>2. w = [i \in {c.prv[r] : r \in S} |->
             SurvivingNeighbor(c.nxt, c.nxt[CHOOSE x \in S : c.prv[x] = i], dead)]
  <2>1. S = {r \in {q \in dead : c.prv[q] \notin dead} : c.prv[r] # Missing}
    OBVIOUS
  <2> HIDE DEF S
  <2> QED
    BY <2>1 DEF PatchUnlinked, Writes
<1>3. ASSUME NEW r \in S
      PROVE  c.prv[r] \in I /\ c.prv[r] \notin dead /\ c.nxt[c.prv[r]] = r /\ r \in dead
  <2>1. r \in I /\ c.prv[r] \in I
    BY <1>1
  <2> QED
    BY <2>1, LinksMatch
<1>4. ASSUME NEW x \in I, x \notin dead, c.nxt[x] \in dead
      PROVE  c.nxt[x] \in S /\ c.prv[c.nxt[x]] = x
  <2>1. c.prv[c.nxt[x]] = x
    BY <1>4, LinksMatch
  <2> QED
    BY <1>1, <1>4, <2>1
<1>5. DOMAIN w = {c.prv[r] : r \in S}
  BY <1>2
<1>6. ASSUME NEW x \in DOMAIN w
      PROVE  /\ x \in I /\ x \notin dead /\ c.nxt[x] \in dead
             /\ AliveAfter(I, c.fk, ord, dead, x, w[x])
  <2>1. PICK r \in S : x = c.prv[r]
    BY <1>5
  <2>2. x \in I /\ x \notin dead /\ c.nxt[x] = r /\ r \in dead
    BY <1>3, <2>1
  <2>3. (CHOOSE q \in S : c.prv[q] = x) = r
    <3>1. \A q \in S : c.prv[q] = x => q = r
      BY <1>3, <2>2
    <3> HIDE DEF S
    <3> QED
      BY <2>1, <3>1
  <2> HIDE DEF w, S
  <2>4. w[x] = SurvivingNeighbor(c.nxt, c.nxt[CHOOSE q \in S : c.prv[q] = x], dead)
    BY <1>2, <1>5
  <2>5. w[x] = SurvivingNeighbor(c.nxt, c.nxt[r], dead)
    BY <2>3, <2>4
  <2>6. RowLinked(I, c.fk, ord, x, c.nxt[x], c.prv[x]) /\ r \in I
    BY <2>2 DEF Linked
  <2>7. c.fk[x] # Missing /\ RightAfter(I, c.fk, ord, x, r)
    BY <1>1, <2>2, <2>6 DEF RowLinked
  <2>8. c.fk[r] = c.fk[x]
    BY <2>7 DEF RightAfter
  <2>9. AliveAfter(I, c.fk, ord, dead, r, w[x])
    BY <2>5, <2>6, <2>7, <2>8, SurvivorAfter
  <2> QED
    BY <2>2, <2>7, <2>9, DeadIsSkipped
<1> HIDE DEF w, S
<1>7. \A x \in I : x \notin dead /\ c.nxt[x] \in dead => x \in DOMAIN w
  <2> SUFFICES ASSUME NEW x \in I, x \notin dead, c.nxt[x] \in dead PROVE x \in DOMAIN w
    OBVIOUS
  <2>1. c.nxt[x] \in S /\ c.prv[c.nxt[x]] = x
    BY <1>4
  <2> QED
    BY <1>5, <2>1
<1> QED
  BY <1>6, <1>7 DEF w

\* What it writes to the previous column: the row before each gap.
LEMMA UnlinkedPrev ==
  ASSUME NEW I, NEW T, NEW c, NEW ord, Linked(I, T, c, ord), IsFiniteSet(I),
         NEW dead \in SUBSET I, NEW ignore
  PROVE  LET w == PatchUnlinked(c, dead, ignore).prv
         IN  /\ DOMAIN w = {x \in I : x \notin dead /\ c.prv[x] \in dead}
             /\ \A x \in DOMAIN w : AliveBefore(I, c.fk, ord, dead, x, w[x])
<1> DEFINE w == PatchUnlinked(c, dead, ignore).prv
           a(r) == SurvivingNeighbor(c.nxt, c.nxt[r], dead)
           S == {r \in dead : c.prv[r] \notin dead /\ a(r) # Missing}
<1>1. /\ Missing \notin I
      /\ \A u \in I : c.prv[u] \in I \cup {Missing}
      /\ \A u \in I : ord[u] \in Nat
      /\ \A u \in I : RowLinked(I, c.fk, ord, u, c.nxt[u], c.prv[u])
      /\ Ordered(I, c.fk, ord)
  BY DEF Linked, Columns, Ordered
<1>2. w = [i \in {a(r) : r \in S} |-> c.prv[CHOOSE x \in S : a(x) = i]]
  <2>1. S = {r \in {q \in dead : c.prv[q] \notin dead} : a(r) # Missing}
    OBVIOUS
  <2> HIDE DEF S
  <2> QED
    BY <2>1 DEF PatchUnlinked, Writes
<1>3. ASSUME NEW r \in S
      PROVE  /\ r \in I /\ c.fk[r] # Missing /\ a(r) # Missing
             /\ AliveAfter(I, c.fk, ord, dead, r, a(r))
  <2>1. r \in I /\ a(r) # Missing
    OBVIOUS
  <2>2. c.fk[r] # Missing
    <3> SUFFICES ASSUME c.fk[r] = Missing PROVE FALSE
      OBVIOUS
    <3>1. c.nxt[r] = Missing
      BY <1>1, <2>1 DEF RowLinked
    <3>2. Missing \notin dead
      BY <1>1
    <3>3. a(r) = Missing
      BY <3>1, <3>2, SurvivorStays
    <3> QED
      BY <2>1, <3>3
  <2> QED
    BY <2>1, <2>2, SurvivorAfter
<1>4. ASSUME NEW r \in S
      PROVE  /\ a(r) \in I /\ a(r) \notin dead /\ c.prv[a(r)] \in dead
             /\ AliveBefore(I, c.fk, ord, dead, a(r), c.prv[r])
  <2> DEFINE x == a(r)
             p == c.prv[x]
             q == c.prv[r]
  <2>1. /\ r \in I /\ r \in dead /\ q \notin dead /\ q \in I \cup {Missing}
        /\ c.fk[r] # Missing /\ x # Missing
        /\ AliveAfter(I, c.fk, ord, dead, r, x)
    BY <1>1, <1>3
  <2> HIDE DEF x
  <2>2. /\ x \in I /\ x \notin dead /\ c.fk[x] = c.fk[r] /\ ord[r] < ord[x]
        /\ \A u \in I : c.fk[u] = c.fk[r] /\ ord[r] < ord[u] /\ ord[u] < ord[x] => u \in dead
    BY <2>1 DEF AliveAfter
  <2>3. p \in dead
    <3>1. p # Missing
      <4> SUFFICES ASSUME p = Missing PROVE FALSE
        OBVIOUS
      <4>1. IsFirst(I, c.fk, ord, x)
        BY <1>1, <2>1, <2>2 DEF RowLinked
      <4>2. ord[x] <= ord[r]
        BY <2>1, <2>2, <4>1 DEF IsFirst
      <4> QED
        BY <1>1, <2>1, <2>2, <4>2
    <3>2. p \in I /\ RightAfter(I, c.fk, ord, p, x)
      BY <1>1, <2>1, <2>2, <3>1 DEF RowLinked
    <3> HIDE DEF p
    <3>3. /\ c.fk[p] = c.fk[r] /\ ord[p] < ord[x]
          /\ \A u \in I : c.fk[u] = c.fk[p] => ord[u] <= ord[p] \/ ord[x] <= ord[u]
      BY <2>2, <3>2 DEF RightAfter
    <3>4. ord[r] <= ord[p]
      <4>1. ord[r] <= ord[p] \/ ord[x] <= ord[r]
        BY <2>1, <3>3
      <4> QED
        BY <1>1, <2>1, <2>2, <4>1
    <3>5. CASE ord[r] = ord[p]
      BY <1>1, <2>1, <3>2, <3>3, <3>5 DEF Ordered
    <3>6. CASE ord[r] # ord[p]
      <4>1. ord[r] < ord[p]
        BY <1>1, <2>1, <3>2, <3>4, <3>6
      <4> QED
        BY <2>2, <3>2, <3>3, <4>1
    <3> QED
      BY <3>5, <3>6
  <2>4. RowLinked(I, c.fk, ord, r, c.nxt[r], q)
    BY <1>1, <2>1
  <2> HIDE DEF q, p
  <2>5. AliveBefore(I, c.fk, ord, dead, x, q)
    <3>1. ASSUME NEW u \in I, c.fk[u] = c.fk[x], ord[r] <= ord[u], ord[u] < ord[x]
          PROVE  u \in dead
      <4>1. CASE ord[r] = ord[u]
        BY <1>1, <2>1, <2>2, <3>1, <4>1 DEF Ordered
      <4>2. CASE ord[r] # ord[u]
        <5>1. ord[r] < ord[u]
          BY <1>1, <2>1, <3>1, <4>2
        <5> QED
          BY <2>2, <3>1, <5>1
      <4> QED
        BY <4>1, <4>2
    <3>2. CASE q = Missing
      <4>1. IsFirst(I, c.fk, ord, r)
        BY <2>1, <2>4, <3>2 DEF RowLinked
      <4>2. \A u \in I : c.fk[u] = c.fk[x] => ord[r] <= ord[u]
        BY <2>2, <4>1 DEF IsFirst
      <4> QED
        BY <3>1, <3>2, <4>2 DEF AliveBefore
    <3>3. CASE q # Missing
      <4>1. q \in I /\ RightAfter(I, c.fk, ord, q, r)
        BY <2>1, <2>4, <3>3 DEF RowLinked
      <4>2. /\ c.fk[q] = c.fk[x] /\ ord[q] < ord[r]
            /\ \A u \in I : c.fk[u] = c.fk[x] => ord[u] <= ord[q] \/ ord[r] <= ord[u]
        BY <2>2, <4>1 DEF RightAfter
      <4>3. ord[q] < ord[x]
        BY <1>1, <2>1, <2>2, <4>1, <4>2
      <4>4. ASSUME NEW u \in I, c.fk[u] = c.fk[x], ord[q] < ord[u], ord[u] < ord[x]
            PROVE  u \in dead
        <5>1. ord[u] <= ord[q] \/ ord[r] <= ord[u]
          BY <4>2, <4>4
        <5>2. ord[r] <= ord[u]
          BY <1>1, <4>1, <4>4, <5>1
        <5> QED
          BY <3>1, <4>4, <5>2
      <4> QED
        BY <2>1, <3>3, <4>1, <4>2, <4>3, <4>4 DEF AliveBefore
    <3> QED
      BY <3>2, <3>3
  <2> QED
    BY <2>2, <2>3, <2>5 DEF x, p, q
<1>5. DOMAIN w = {a(r) : r \in S}
  BY <1>2
<1>6. ASSUME NEW x \in DOMAIN w
      PROVE  /\ x \in I /\ x \notin dead /\ c.prv[x] \in dead
             /\ AliveBefore(I, c.fk, ord, dead, x, w[x])
  <2> DEFINE r == CHOOSE q \in S : a(q) = x
  <2>1. \E q \in S : a(q) = x
    <3> HIDE DEF S, a
    <3> QED
      BY <1>5
  <2>2. r \in S /\ a(r) = x
    <3> HIDE DEF S, a
    <3> QED
      BY <2>1
  <2>3. w[x] = c.prv[r]
    <3> HIDE DEF w, S, a
    <3> QED
      BY <1>2, <1>5
  <2> HIDE DEF r, S, a, w
  <2> QED
    BY <1>4, <2>2, <2>3
<1>7. ASSUME NEW x \in I, x \notin dead, c.prv[x] \in dead PROVE x \in DOMAIN w
  <2>1. PICK r \in dead : /\ c.prv[r] \notin dead /\ c.fk[r] # Missing
                          /\ SurvivingNeighbor(c.nxt, c.nxt[r], dead) = x
    BY <1>7, RunStarts
  <2>2. a(r) = x /\ x # Missing
    BY <1>1, <2>1
  <2> HIDE DEF a
  <2>3. r \in S
    BY <2>1, <2>2
  <2> HIDE DEF S, w
  <2> QED
    BY <1>5, <2>2, <2>3
<1>8. DOMAIN w = {x \in I : x \notin dead /\ c.prv[x] \in dead}
  <2> HIDE DEF w
  <2> QED
    BY <1>6, <1>7
<1>9. \A x \in DOMAIN w : AliveBefore(I, c.fk, ord, dead, x, w[x])
  <2> HIDE DEF w
  <2> QED
    BY <1>6
<1> QED
  BY <1>8, <1>9

\* What it writes to the heads: the survivor each list now begins with.
LEMMA UnlinkedHead ==
  ASSUME NEW I, NEW T, NEW c, NEW ord, Linked(I, T, c, ord), IsFiniteSet(I),
         NEW dead \in SUBSET I, NEW ignore
  PROVE  LET w == PatchUnlinked(c, dead, ignore).head
         IN  /\ DOMAIN w = {t \in T : t \notin ignore /\ c.head[t] \in dead}
             /\ \A t \in DOMAIN w : AliveFirst(I, c.fk, ord, dead, t, w[t])
<1> DEFINE w == PatchUnlinked(c, dead, ignore).head
           a(r) == SurvivingNeighbor(c.nxt, c.nxt[r], dead)
           S == {r \in dead : /\ c.prv[r] = Missing /\ c.fk[r] # Missing
                              /\ c.fk[r] \notin ignore /\ c.head[c.fk[r]] = r}
<1>1. /\ Missing \notin I /\ Missing \notin T
      /\ \A u \in I : c.fk[u] \in T \cup {Missing}
      /\ \A t \in T : HeadIs(I, c.fk, ord, t, c.head[t])
      /\ \A u \in I : ord[u] \in Nat
      /\ Ordered(I, c.fk, ord)
  BY DEF Linked, Columns, Ordered
<1>2. w = [t \in {c.fk[r] : r \in S} |-> a(CHOOSE x \in S : c.fk[x] = t)]
  <2>1. Missing \notin dead
    BY <1>1
  <2>2. S = {r \in {q \in dead : c.prv[q] \notin dead} :
                /\ c.prv[r] = Missing /\ c.fk[r] # Missing
                /\ c.fk[r] \notin ignore /\ c.head[c.fk[r]] = r}
    BY <2>1
  <2> HIDE DEF S
  <2> QED
    BY <2>2 DEF PatchUnlinked, Writes
<1>3. DOMAIN w = {c.fk[r] : r \in S}
  BY <1>2
<1>4. ASSUME NEW t \in DOMAIN w
      PROVE  /\ t \in T /\ t \notin ignore /\ c.head[t] \in dead
             /\ AliveFirst(I, c.fk, ord, dead, t, w[t])
  <2> DEFINE r == CHOOSE q \in S : c.fk[q] = t
  <2>1. r \in S /\ c.fk[r] = t
    <3>1. \E q \in S : c.fk[q] = t
      <4> HIDE DEF S
      <4> QED
        BY <1>3
    <3> HIDE DEF S
    <3> QED
      BY <3>1
  <2>2. w[t] = a(r)
    <3> HIDE DEF w, S, a
    <3> QED
      BY <1>2, <1>3
  <2> HIDE DEF r
  <2>3. r \in I /\ r \in dead /\ t \in T /\ t # Missing /\ t \notin ignore /\ c.head[t] = r
    BY <1>1, <2>1
  <2>4. AliveAfter(I, c.fk, ord, dead, r, a(r))
    BY <2>1, <2>3, SurvivorAfter
  <2>5. c.fk[r] = t /\ IsFirst(I, c.fk, ord, r)
    BY <1>1, <2>1, <2>3 DEF HeadIs
  <2> HIDE DEF a, S
  <2>6. ASSUME NEW u \in I, c.fk[u] = t, u \notin dead
        PROVE  ord[r] < ord[u]
    <3>1. ord[r] <= ord[u] /\ u # r
      BY <2>3, <2>5, <2>6 DEF IsFirst
    <3>2. ord[r] # ord[u]
      BY <1>1, <2>3, <2>5, <2>6, <3>1 DEF Ordered
    <3> QED
      BY <1>1, <2>3, <3>1, <3>2
  <2>7. CASE a(r) = Missing
    BY <2>2, <2>3, <2>4, <2>5, <2>6, <2>7 DEF AliveAfter, AliveFirst
  <2>8. CASE a(r) # Missing
    BY <2>2, <2>3, <2>4, <2>5, <2>6, <2>8 DEF AliveAfter, AliveFirst
  <2> QED
    BY <2>3, <2>7, <2>8
<1>5. ASSUME NEW t \in T, t \notin ignore, c.head[t] \in dead PROVE t \in DOMAIN w
  <2>1. c.fk[c.head[t]] = t /\ c.prv[c.head[t]] = Missing
    BY <1>5, HeadsHaveNoPrevious
  <2>2. c.head[t] \in S
    BY <1>1, <1>5, <2>1
  <2> HIDE DEF S, w
  <2> QED
    BY <1>3, <2>1, <2>2
<1>6. DOMAIN w = {t \in T : t \notin ignore /\ c.head[t] \in dead}
  <2> HIDE DEF w
  <2> QED
    BY <1>4, <1>5
<1>7. \A t \in DOMAIN w : AliveFirst(I, c.fk, ord, dead, t, w[t])
  <2> HIDE DEF w
  <2> QED
    BY <1>4
<1> QED
  BY <1>6, <1>7

\* What PatchRelocated writes: the row that moves, wherever a link leads to it.
FollowsMoves(I, T, c, moved, ignore, p) ==
  /\ DOMAIN p.nxt = {x \in I : c.nxt[x] \in moved}
  /\ \A x \in DOMAIN p.nxt : p.nxt[x] = c.nxt[x]
  /\ DOMAIN p.prv = {x \in I : c.prv[x] \in moved}
  /\ \A x \in DOMAIN p.prv : p.prv[x] = c.prv[x]
  /\ DOMAIN p.head = {t \in T : t \notin ignore /\ c.head[t] \in moved}
  /\ \A t \in DOMAIN p.head : p.head[t] = c.head[t]

\* It does.
LEMMA RelocatedLinks ==
  ASSUME NEW I, NEW T, NEW c, NEW ord, Linked(I, T, c, ord), NEW moved \in SUBSET I,
         NEW ignore
  PROVE  FollowsMoves(I, T, c, moved, ignore, PatchRelocated(c, moved, ignore))
<1> DEFINE p == PatchRelocated(c, moved, ignore)
           N == {r \in moved : c.prv[r] # Missing /\ c.nxt[c.prv[r]] = r}
           P == {r \in moved : c.nxt[r] # Missing /\ c.prv[c.nxt[r]] = r}
           H == {r \in moved : /\ c.fk[r] # Missing /\ c.fk[r] \notin ignore
                               /\ c.head[c.fk[r]] = r}
<1>1. /\ Missing \notin I /\ Missing \notin T
      /\ \A u \in I : c.fk[u] \in T \cup {Missing}
      /\ \A u \in I : c.nxt[u] \in I \cup {Missing}
      /\ \A u \in I : c.prv[u] \in I \cup {Missing}
  BY DEF Linked, Columns
<1>2. /\ p.nxt = [i \in {c.prv[r] : r \in N} |-> CHOOSE x \in N : c.prv[x] = i]
      /\ p.prv = [i \in {c.nxt[r] : r \in P} |-> CHOOSE x \in P : c.nxt[x] = i]
      /\ p.head = [i \in {c.fk[r] : r \in H} |-> CHOOSE x \in H : c.fk[x] = i]
  BY DEF PatchRelocated, Writes
<1> HIDE DEF p
<1>3. /\ DOMAIN p.nxt = {x \in I : c.nxt[x] \in moved}
      /\ \A x \in DOMAIN p.nxt : p.nxt[x] = c.nxt[x]
  <2>1. DOMAIN p.nxt = {c.prv[r] : r \in N}
    BY <1>2
  <2>2. ASSUME NEW r \in N PROVE c.prv[r] \in I /\ c.nxt[c.prv[r]] = r /\ r \in moved
    BY <1>1
  <2>3. ASSUME NEW x \in I, c.nxt[x] \in moved PROVE c.nxt[x] \in N /\ c.prv[c.nxt[x]] = x
    <3>1. c.prv[c.nxt[x]] = x
      BY <2>3, LinksMatch
    <3> QED
      BY <1>1, <2>3, <3>1
  <2> HIDE DEF N
  <2>4. ASSUME NEW x \in DOMAIN p.nxt
        PROVE  x \in I /\ c.nxt[x] \in moved /\ p.nxt[x] = c.nxt[x]
    <3> DEFINE r == CHOOSE q \in N : c.prv[q] = x
    <3>1. r \in N /\ c.prv[r] = x
      BY <2>1
    <3>2. p.nxt[x] = r
      BY <1>2, <2>1
    <3> HIDE DEF r
    <3> QED
      BY <2>2, <3>1, <3>2
  <2>5. \A x \in I : c.nxt[x] \in moved => x \in DOMAIN p.nxt
    BY <2>1, <2>3
  <2> QED
    BY <2>4, <2>5
<1>4. /\ DOMAIN p.prv = {x \in I : c.prv[x] \in moved}
      /\ \A x \in DOMAIN p.prv : p.prv[x] = c.prv[x]
  <2>1. DOMAIN p.prv = {c.nxt[r] : r \in P}
    BY <1>2
  <2>2. ASSUME NEW r \in P PROVE c.nxt[r] \in I /\ c.prv[c.nxt[r]] = r /\ r \in moved
    BY <1>1
  <2>3. ASSUME NEW x \in I, c.prv[x] \in moved PROVE c.prv[x] \in P /\ c.nxt[c.prv[x]] = x
    <3>1. c.nxt[c.prv[x]] = x
      BY <2>3, LinksMatch
    <3> QED
      BY <1>1, <2>3, <3>1
  <2> HIDE DEF P
  <2>4. ASSUME NEW x \in DOMAIN p.prv
        PROVE  x \in I /\ c.prv[x] \in moved /\ p.prv[x] = c.prv[x]
    <3> DEFINE r == CHOOSE q \in P : c.nxt[q] = x
    <3>1. r \in P /\ c.nxt[r] = x
      BY <2>1
    <3>2. p.prv[x] = r
      BY <1>2, <2>1
    <3> HIDE DEF r
    <3> QED
      BY <2>2, <3>1, <3>2
  <2>5. \A x \in I : c.prv[x] \in moved => x \in DOMAIN p.prv
    BY <2>1, <2>3
  <2> QED
    BY <2>4, <2>5
<1>5. /\ DOMAIN p.head = {t \in T : t \notin ignore /\ c.head[t] \in moved}
      /\ \A t \in DOMAIN p.head : p.head[t] = c.head[t]
  <2>1. DOMAIN p.head = {c.fk[r] : r \in H}
    BY <1>2
  <2>2. ASSUME NEW r \in H
        PROVE  c.fk[r] \in T /\ c.fk[r] \notin ignore /\ c.head[c.fk[r]] = r /\ r \in moved
    BY <1>1
  <2>3. ASSUME NEW t \in T, t \notin ignore, c.head[t] \in moved
        PROVE  c.head[t] \in H /\ c.fk[c.head[t]] = t
    <3>1. c.fk[c.head[t]] = t
      BY <2>3, HeadsHaveNoPrevious
    <3> QED
      BY <1>1, <2>3, <3>1
  <2> HIDE DEF H
  <2>4. ASSUME NEW t \in DOMAIN p.head
        PROVE  t \in T /\ t \notin ignore /\ c.head[t] \in moved /\ p.head[t] = c.head[t]
    <3> DEFINE r == CHOOSE q \in H : c.fk[q] = t
    <3>1. r \in H /\ c.fk[r] = t
      BY <2>1
    <3>2. p.head[t] = r
      BY <1>2, <2>1
    <3> HIDE DEF r
    <3> QED
      BY <2>2, <3>1, <3>2
  <2>5. \A t \in T : t \notin ignore /\ c.head[t] \in moved => t \in DOMAIN p.head
    BY <2>1, <2>3
  <2> QED
    BY <2>4, <2>5
<1> QED
  BY <1>3, <1>4, <1>5 DEF FollowsMoves, p

\* Places of a sequence have a first and a last.
LEMMA PlacesHaveEnds ==
  ASSUME NEW n \in Nat, NEW S \in SUBSET (1 .. n), S # {}
  PROVE  /\ \E j \in S : \A k \in S : j <= k
         /\ \E j \in S : \A k \in S : j >= k
<1> DEFINE up == [k \in 1 .. n |-> k]
           down == [k \in 1 .. n |-> n - k]
<1>1. \A k \in S : k \in 1 .. n /\ k \in Nat /\ up[k] = k /\ down[k] = n - k
  OBVIOUS
<1> HIDE DEF up, down
<1>2. \A k \in S : up[k] \in Nat /\ down[k] \in Nat
  BY <1>1
<1>3. PICK j \in S : \A k \in S : up[j] <= up[k]
  BY <1>2, FirstExists
<1>4. PICK i \in S : \A k \in S : down[i] <= down[k]
  BY <1>2, FirstExists
<1>5. \A k \in S : j <= k
  BY <1>1, <1>3
<1>6. \A k \in S : i >= k
  <2> SUFFICES ASSUME NEW k \in S PROVE i >= k
    OBVIOUS
  <2>1. n - i <= n - k /\ k \in Nat /\ i \in Nat
    BY <1>1, <1>4
  <2> QED
    BY <2>1
<1> QED
  BY <1>5, <1>6

\* The list a target has once dead rows have left it begins with this row.
OldHead(c, t, dead) ==
  SurvivingNeighbor(c.nxt, IF t \in DOMAIN c.head THEN c.head[t] ELSE Missing, dead)

\* It does, also for a target that has no list yet.
LEMMA OldHeadIs ==
  ASSUME NEW I, NEW T, NEW c, NEW ord, Linked(I, T, c, ord), IsFiniteSet(I),
         NEW dead \in SUBSET I, NEW t, t # Missing
  PROVE  AliveFirst(I, c.fk, ord, dead, t, OldHead(c, t, dead))
<1>1. /\ Missing \notin I /\ DOMAIN c.head = T
      /\ \A u \in I : c.fk[u] \in T \cup {Missing}
  BY DEF Linked, Columns
<1>2. CASE t \in T
  BY <1>1, <1>2, SurvivorFirst DEF OldHead
<1>3. CASE t \notin T
  <2>1. Missing \notin dead
    BY <1>1
  <2>2. OldHead(c, t, dead) = Missing
    BY <1>1, <1>3, <2>1, SurvivorStays DEF OldHead
  <2> QED
    BY <1>1, <1>3, <2>2 DEF AliveFirst
<1> QED
  BY <1>2, <1>3

\* j is the place of the item after, or before, item i of the same target.
ItemAfter(items, i, j) ==
  /\ j \in DOMAIN items /\ items[j].target = items[i].target /\ i < j
  /\ \A k \in DOMAIN items : items[k].target = items[i].target => k <= i \/ j <= k
LastItem(items, i) ==
  \A k \in DOMAIN items : items[k].target = items[i].target => k <= i
FirstItem(items, i) ==
  \A k \in DOMAIN items : items[k].target = items[i].target => i <= k

\* The links of the items and of the rows they are put before.
SplicedLinks(c, items, dead, p) ==
  /\ DOMAIN p.nxt = {items[i].row : i \in DOMAIN items}
  /\ \A i \in DOMAIN items :
       LET n == p.nxt[items[i].row]
       IN  IF items[i].target = Missing THEN n = Missing
           ELSE \/ \E j \in DOMAIN items : ItemAfter(items, i, j) /\ n = items[j].row
                \/ LastItem(items, i) /\ n = OldHead(c, items[i].target, dead)
  /\ DOMAIN p.prv = {items[i].row : i \in DOMAIN items}
                      \cup ({OldHead(c, items[i].target, dead) :
                               i \in {k \in DOMAIN items : items[k].target # Missing}}
                            \ {Missing})
  /\ \A i \in DOMAIN items :
       LET n == p.prv[items[i].row]
       IN  IF items[i].target = Missing THEN n = Missing
           ELSE \/ \E j \in DOMAIN items : ItemAfter(items, j, i) /\ n = items[j].row
                \/ FirstItem(items, i) /\ n = Missing
  /\ \A i \in DOMAIN items :
       items[i].target # Missing /\ LastItem(items, i) =>
         LET h == OldHead(c, items[i].target, dead)
         IN  h # Missing => p.prv[h] = items[i].row
  /\ DOMAIN p.head = {items[i].target : i \in DOMAIN items} \ {Missing}
  /\ \A i \in DOMAIN items :
       items[i].target # Missing /\ FirstItem(items, i) =>
         p.head[items[i].target] = items[i].row

\* Splice puts the items in front of what the dead rows have left.
LEMMA SpliceLinks ==
  ASSUME NEW I, NEW T, NEW c, NEW ord, Linked(I, T, c, ord), IsFiniteSet(I),
         NEW dead \in SUBSET I, NEW n \in Nat, NEW items, DOMAIN items = 1 .. n,
         \A i, j \in 1 .. n : items[i].row = items[j].row => i = j,
         \A i \in 1 .. n : items[i].row \notin I \ dead
  PROVE  SplicedLinks(c, items, dead, Splice(c, items, dead))
<1> DEFINE p == Splice(c, items, dead)
           J == 1 .. n
           G == {items[i].target : i \in J} \ {Missing}
           mates(i) == {j \in J : items[j].target = items[i].target}
           earlier(i) == {j \in mates(i) : j < i}
           later(i) == {j \in mates(i) : j > i}
           group(t) == {i \in J : items[i].target = t}
           first(t) == CHOOSE i \in group(t) : earlier(i) = {}
           last(t)  == CHOOSE i \in group(t) : later(i) = {}
           old(t) == OldHead(c, t, dead)
           row(i) == items[i].row
           nextOf(i) ==
             CASE items[i].target = Missing -> Missing
               [] items[i].target # Missing /\ later(i) # {} ->
                    row(CHOOSE j \in later(i) : \A k \in later(i) : j <= k)
               [] OTHER -> old(items[i].target)
           prevOf(i) ==
             IF items[i].target = Missing \/ earlier(i) = {} THEN Missing
             ELSE row(CHOOSE j \in earlier(i) : \A k \in earlier(i) : j >= k)
           N == [x \in {row(i) : i \in J} |-> nextOf(CHOOSE i \in J : row(i) = x)]
           P == [x \in {row(i) : i \in J} |-> prevOf(CHOOSE i \in J : row(i) = x)]
           B == {t \in G : old(t) # Missing}
           Q == [x \in {old(t) : t \in B} |-> row(last(CHOOSE t \in B : old(t) = x))]
           H == [x \in {t : t \in G} |-> row(first(CHOOSE t \in G : t = x))]
<1>1. p = [nxt |-> N, prv |-> Then(P, Q), head |-> H]
  BY DEF Splice, Writes, OldHead
<1> HIDE DEF p
<1>2. /\ \A i, j \in J : row(i) = row(j) => i = j
      /\ \A i \in J : row(i) \notin I \ dead
  OBVIOUS
<1>3. /\ Missing \notin I
      /\ \A t \in G : AliveFirst(I, c.fk, ord, dead, t, old(t))
  <2>1. Missing \notin I
    BY DEF Linked, Columns
  <2>2. ASSUME NEW t \in G PROVE AliveFirst(I, c.fk, ord, dead, t, old(t))
    <3>1. t # Missing
      OBVIOUS
    <3> QED
      BY <3>1, OldHeadIs
  <2> QED
    BY <2>1, <2>2
<1> HIDE DEF old
<1>4. ASSUME NEW t \in G, old(t) # Missing
      PROVE  old(t) \in I /\ old(t) \notin dead /\ c.fk[old(t)] = t
  BY <1>3, <1>4 DEF AliveFirst
<1>5. ASSUME NEW i \in J
      PROVE  /\ earlier(i) = {} <=> FirstItem(items, i)
             /\ later(i) = {} <=> LastItem(items, i)
             /\ \A j : j \in later(i) <=> j \in J /\ items[j].target = items[i].target /\ i < j
             /\ \A j : j \in earlier(i) <=> j \in J /\ items[j].target = items[i].target /\ j < i
             /\ later(i) \in SUBSET J /\ earlier(i) \in SUBSET J
  <2>1. \A j \in J : (~(j < i) <=> i <= j) /\ (~(j > i) <=> j <= i) /\ (j > i <=> i < j)
    OBVIOUS
  <2> QED
    BY <2>1 DEF FirstItem, LastItem
<1>6. ASSUME NEW t \in G
      PROVE  /\ first(t) \in J /\ items[first(t)].target = t /\ FirstItem(items, first(t))
             /\ last(t) \in J /\ items[last(t)].target = t /\ LastItem(items, last(t))
  <2> DEFINE S == group(t)
  <2>1. S \in SUBSET (1 .. n) /\ S # {}
    OBVIOUS
  <2>2. PICK a \in S : \A k \in S : a <= k
    <3> HIDE DEF S
    <3> QED
      BY <2>1, PlacesHaveEnds
  <2>3. PICK z \in S : \A k \in S : z >= k
    <3> HIDE DEF S
    <3> QED
      BY <2>1, PlacesHaveEnds
  <2>4. FirstItem(items, a)
    BY <2>2 DEF FirstItem
  <2>5. LastItem(items, z)
    BY <2>3 DEF LastItem
  <2>6. \E i \in group(t) : earlier(i) = {}
    BY <1>5, <2>4
  <2>7. \E i \in group(t) : later(i) = {}
    BY <1>5, <2>5
  <2>8. first(t) \in group(t) /\ earlier(first(t)) = {}
    <3> HIDE DEF group, earlier
    <3> QED
      BY <2>6
  <2>9. last(t) \in group(t) /\ later(last(t)) = {}
    <3> HIDE DEF group, later
    <3> QED
      BY <2>7
  <2> DEFINE f == first(t)
             l == last(t)
  <2> HIDE DEF f, l
  <2>10. f \in J /\ items[f].target = t /\ earlier(f) = {}
    BY <2>8 DEF f
  <2>11. l \in J /\ items[l].target = t /\ later(l) = {}
    BY <2>9 DEF l
  <2>12. FirstItem(items, f) /\ LastItem(items, l)
    BY <1>5, <2>10, <2>11
  <2> QED
    BY <2>10, <2>11, <2>12 DEF f, l
<1> HIDE DEF first, last
<1>7. ASSUME NEW i \in J, items[i].target # Missing
      PROVE  /\ FirstItem(items, i) => first(items[i].target) = i
             /\ LastItem(items, i) => last(items[i].target) = i
  <2> DEFINE t == items[i].target
  <2>1. t \in G
    BY <1>7
  <2>2. /\ first(t) \in J /\ items[first(t)].target = t /\ FirstItem(items, first(t))
        /\ last(t) \in J /\ items[last(t)].target = t /\ LastItem(items, last(t))
    BY <1>6, <2>1
  <2>3. FirstItem(items, i) => first(t) <= i /\ i <= first(t)
    BY <2>2 DEF FirstItem
  <2>4. LastItem(items, i) => last(t) <= i /\ i <= last(t)
    BY <2>2 DEF LastItem
  <2> HIDE DEF t
  <2>5. FirstItem(items, i) => first(t) = i
    BY <2>2, <2>3
  <2>6. LastItem(items, i) => last(t) = i
    BY <2>2, <2>4
  <2> QED
    BY <2>5, <2>6 DEF t
<1>8. ASSUME NEW k \in J PROVE N[row(k)] = nextOf(k) /\ P[row(k)] = prevOf(k)
  <2>1. (CHOOSE i \in J : row(i) = row(k)) = k
    <3> HIDE DEF row
    <3> QED
      BY <1>2
  <2> HIDE DEF nextOf, prevOf
  <2>2. row(k) \in {row(i) : i \in J}
    OBVIOUS
  <2> QED
    BY <2>1, <2>2
<1>9. /\ DOMAIN N = {row(i) : i \in J} /\ DOMAIN P = {row(i) : i \in J}
      /\ DOMAIN Q = {old(t) : t \in B} /\ DOMAIN H = G
  OBVIOUS
<1>10. ASSUME NEW t \in B PROVE Q[old(t)] = row(last(t))
  <2>1. (CHOOSE u \in B : old(u) = old(t)) = t
    <3>1. \A u \in B : old(u) = old(t) => u = t
      BY <1>4
    <3> HIDE DEF B
    <3> QED
      BY <3>1
  <2> HIDE DEF row, B
  <2>2. old(t) \in {old(u) : u \in B}
    OBVIOUS
  <2> QED
    BY <2>1, <2>2
<1>11. ASSUME NEW t \in G PROVE H[t] = row(first(t))
  <2>1. (CHOOSE u \in G : u = t) = t
    OBVIOUS
  <2> HIDE DEF row, G
  <2> QED
    BY <2>1
<1>12. ASSUME NEW t \in B, NEW k \in J PROVE old(t) # row(k)
  BY <1>2, <1>4
<1>13. ASSUME NEW i \in J
       PROVE  IF items[i].target = Missing THEN nextOf(i) = Missing
              ELSE \/ \E j \in J : ItemAfter(items, i, j) /\ nextOf(i) = row(j)
                   \/ LastItem(items, i) /\ nextOf(i) = old(items[i].target)
  <2>1. CASE items[i].target = Missing
    BY <2>1
  <2>2. CASE items[i].target # Missing /\ later(i) = {}
    <3>1. nextOf(i) = old(items[i].target)
      <4> HIDE DEF later
      <4> QED
        BY <2>2
    <3>2. LastItem(items, i)
      BY <1>5, <2>2
    <3> QED
      BY <2>2, <3>1, <3>2
  <2>3. CASE items[i].target # Missing /\ later(i) # {}
    <3> DEFINE j == CHOOSE j \in later(i) : \A k \in later(i) : j <= k
    <3>1. nextOf(i) = row(j)
      <4> HIDE DEF later
      <4> QED
        BY <2>3
    <3>2. \E q \in later(i) : \A k \in later(i) : q <= k
      <4>1. later(i) \in SUBSET (1 .. n)
        BY <1>5
      <4> HIDE DEF later
      <4> QED
        BY <2>3, <4>1, PlacesHaveEnds
    <3>3. j \in later(i) /\ \A k \in later(i) : j <= k
      <4> HIDE DEF later
      <4> QED
        BY <3>2
    <3> HIDE DEF j
    <3>4. j \in J /\ items[j].target = items[i].target /\ i < j
      BY <1>5, <3>3
    <3>5. ASSUME NEW k \in J, items[k].target = items[i].target PROVE k <= i \/ j <= k
      <4>1. CASE i < k
        BY <1>5, <3>3, <3>5, <4>1
      <4>2. CASE ~(i < k)
        BY <4>2
      <4> QED
        BY <4>1, <4>2
    <3>6. ItemAfter(items, i, j)
      BY <3>4, <3>5 DEF ItemAfter
    <3> QED
      BY <2>3, <3>1, <3>4, <3>6
  <2> QED
    BY <2>1, <2>2, <2>3
<1>14. ASSUME NEW i \in J
       PROVE  IF items[i].target = Missing THEN prevOf(i) = Missing
              ELSE \/ \E j \in J : ItemAfter(items, j, i) /\ prevOf(i) = row(j)
                   \/ FirstItem(items, i) /\ prevOf(i) = Missing
  <2>1. CASE items[i].target = Missing
    BY <2>1
  <2>2. CASE items[i].target # Missing /\ earlier(i) = {}
    <3>1. prevOf(i) = Missing
      <4> HIDE DEF earlier
      <4> QED
        BY <2>2
    <3>2. FirstItem(items, i)
      BY <1>5, <2>2
    <3> QED
      BY <2>2, <3>1, <3>2
  <2>3. CASE items[i].target # Missing /\ earlier(i) # {}
    <3> DEFINE j == CHOOSE j \in earlier(i) : \A k \in earlier(i) : j >= k
    <3>1. prevOf(i) = row(j)
      <4> HIDE DEF earlier
      <4> QED
        BY <2>3
    <3>2. \E q \in earlier(i) : \A k \in earlier(i) : q >= k
      <4>1. earlier(i) \in SUBSET (1 .. n)
        BY <1>5
      <4> HIDE DEF earlier
      <4> QED
        BY <2>3, <4>1, PlacesHaveEnds
    <3>3. j \in earlier(i) /\ \A k \in earlier(i) : j >= k
      <4> HIDE DEF earlier
      <4> QED
        BY <3>2
    <3> HIDE DEF j
    <3>4. j \in J /\ items[j].target = items[i].target /\ j < i
      BY <1>5, <3>3
    <3>5. ASSUME NEW k \in J, items[k].target = items[j].target PROVE k <= j \/ i <= k
      <4>1. CASE k < i
        <5>1. j >= k
          BY <1>5, <3>3, <3>4, <3>5, <4>1
        <5> QED
          BY <3>4, <5>1
      <4>2. CASE ~(k < i)
        BY <4>2
      <4> QED
        BY <4>1, <4>2
    <3>6. ItemAfter(items, j, i)
      BY <3>4, <3>5 DEF ItemAfter
    <3> QED
      BY <2>3, <3>1, <3>4, <3>6
  <2> QED
    BY <2>1, <2>2, <2>3
<1> HIDE DEF nextOf, prevOf, later, earlier, mates, group, N, P, Q, H
<1>15. /\ p.nxt = N /\ p.prv = Then(P, Q) /\ p.head = H
  BY <1>1
<1>16. /\ DOMAIN p.prv = {row(i) : i \in J} \cup {old(t) : t \in B}
       /\ \A i \in J : p.prv[row(i)] = prevOf(i)
       /\ \A t \in B : p.prv[old(t)] = row(last(t))
  <2>1. DOMAIN p.prv = DOMAIN P \cup DOMAIN Q
    BY <1>15 DEF Then
  <2>2. \A x \in DOMAIN P \cup DOMAIN Q :
           p.prv[x] = IF x \in DOMAIN Q THEN Q[x] ELSE P[x]
    BY <1>15 DEF Then
  <2>3. ASSUME NEW i \in J PROVE p.prv[row(i)] = prevOf(i)
    <3>1. row(i) \in DOMAIN P /\ row(i) \notin DOMAIN Q
      BY <1>9, <1>12
    <3> HIDE DEF row
    <3> QED
      BY <1>8, <2>2, <3>1
  <2>4. ASSUME NEW t \in B PROVE p.prv[old(t)] = row(last(t))
    <3>1. old(t) \in DOMAIN Q
      BY <1>9
    <3> HIDE DEF row
    <3> QED
      BY <1>10, <2>2, <3>1
  <2> QED
    BY <1>9, <2>1, <2>3, <2>4
<1>17. {old(t) : t \in B} = {OldHead(c, items[i].target, dead) :
                                i \in {k \in J : items[k].target # Missing}} \ {Missing}
  BY DEF old
<1>18. ASSUME NEW i \in J, items[i].target # Missing, LastItem(items, i),
              old(items[i].target) # Missing
       PROVE  p.prv[old(items[i].target)] = row(i)
  <2>1. items[i].target \in B /\ last(items[i].target) = i
    BY <1>7, <1>18
  <2> QED
    BY <1>16, <2>1
<1>19. ASSUME NEW i \in J, items[i].target # Missing, FirstItem(items, i)
       PROVE  p.head[items[i].target] = row(i)
  <2>1. items[i].target \in G /\ first(items[i].target) = i
    BY <1>7, <1>19
  <2> HIDE DEF G
  <2> QED
    BY <1>11, <1>15, <2>1
<1> SUFFICES SplicedLinks(c, items, dead, p)
  BY DEF p
<1>20. /\ DOMAIN p.nxt = {row(i) : i \in J} /\ DOMAIN p.head = G
       /\ \A i \in J : p.nxt[row(i)] = nextOf(i)
  BY <1>8, <1>9, <1>15
<1>21. \A i \in J : old(items[i].target) = OldHead(c, items[i].target, dead)
  BY DEF old
<1> HIDE DEF old, B
<1>22. \A i \in J :
         LET m == p.nxt[row(i)]
         IN  IF items[i].target = Missing THEN m = Missing
             ELSE \/ \E j \in J : ItemAfter(items, i, j) /\ m = row(j)
                  \/ LastItem(items, i) /\ m = OldHead(c, items[i].target, dead)
  BY <1>13, <1>20, <1>21
<1>23. \A i \in J :
         LET m == p.prv[row(i)]
         IN  IF items[i].target = Missing THEN m = Missing
             ELSE \/ \E j \in J : ItemAfter(items, j, i) /\ m = row(j)
                  \/ FirstItem(items, i) /\ m = Missing
  BY <1>14, <1>16
<1>24. \A i \in J :
         items[i].target # Missing /\ LastItem(items, i) =>
           LET m == OldHead(c, items[i].target, dead)
           IN  m # Missing => p.prv[m] = row(i)
  BY <1>18, <1>21
<1> QED
  BY <1>16, <1>17, <1>19, <1>20, <1>22, <1>23, <1>24 DEF SplicedLinks

\* Where a column points once w is written over it.
PatchedAt(col, w, x) == IF x \in DOMAIN w THEN w[x] ELSE col[x]

\* The two phases that close gaps and follow moved rows leave every row that is
\* not dead with the survivors around it.
KeptLinks(I, T, c, ord, dead, moved, ignore, q) ==
  /\ DOMAIN q.nxt \subseteq I /\ DOMAIN q.prv \subseteq I
  /\ DOMAIN q.head \subseteq T \ ignore
  /\ \A x \in dead : /\ x \in DOMAIN q.nxt => c.nxt[x] \in moved
                     /\ x \in DOMAIN q.prv => c.prv[x] \in moved
  /\ \A x \in I \ dead :
       /\ c.fk[x] = Missing => PatchedAt(c.nxt, q.nxt, x) = Missing
                               /\ PatchedAt(c.prv, q.prv, x) = Missing
       /\ c.fk[x] # Missing =>
            /\ AliveAfter(I, c.fk, ord, dead, x, PatchedAt(c.nxt, q.nxt, x))
            /\ AliveBefore(I, c.fk, ord, dead, x, PatchedAt(c.prv, q.prv, x))
       /\ x \notin DOMAIN q.nxt => c.nxt[x] \notin moved
       /\ x \notin DOMAIN q.prv => c.prv[x] \notin moved
  /\ \A t \in T \ ignore :
       /\ AliveFirst(I, c.fk, ord, dead, t, PatchedAt(c.head, q.head, t))
       /\ t \notin DOMAIN q.head => c.head[t] \notin moved

\* A link to a row that is not dead leads to the survivor.
LEMMA LinksToSurvivors ==
  ASSUME NEW I, NEW T, NEW c, NEW ord, Linked(I, T, c, ord), NEW dead
  PROVE  /\ \A x \in I : c.fk[x] # Missing /\ c.nxt[x] \notin dead =>
              AliveAfter(I, c.fk, ord, dead, x, c.nxt[x])
         /\ \A x \in I : c.fk[x] # Missing /\ c.prv[x] \notin dead =>
              AliveBefore(I, c.fk, ord, dead, x, c.prv[x])
         /\ \A t \in T : c.head[t] \notin dead =>
              AliveFirst(I, c.fk, ord, dead, t, c.head[t])
<1>1. /\ Missing \notin I
      /\ \A u \in I : ord[u] \in Nat
      /\ \A u \in I : RowLinked(I, c.fk, ord, u, c.nxt[u], c.prv[u])
      /\ \A t \in T : HeadIs(I, c.fk, ord, t, c.head[t])
  BY DEF Linked, Columns, Ordered
<1>2. ASSUME NEW x \in I, c.fk[x] # Missing, c.nxt[x] \notin dead
      PROVE  AliveAfter(I, c.fk, ord, dead, x, c.nxt[x])
  <2>1. CASE c.nxt[x] = Missing
    <3>1. IsLast(I, c.fk, ord, x)
      BY <1>1, <1>2, <2>1 DEF RowLinked
    <3> QED
      BY <1>1, <2>1, <3>1 DEF IsLast, AliveAfter
  <2>2. CASE c.nxt[x] # Missing
    <3>1. RightAfter(I, c.fk, ord, x, c.nxt[x])
      BY <1>1, <1>2, <2>2 DEF RowLinked
    <3> QED
      BY <1>1, <1>2, <2>2, <3>1 DEF RightAfter, AliveAfter
  <2> QED
    BY <2>1, <2>2
<1>3. ASSUME NEW x \in I, c.fk[x] # Missing, c.prv[x] \notin dead
      PROVE  AliveBefore(I, c.fk, ord, dead, x, c.prv[x])
  <2>1. CASE c.prv[x] = Missing
    <3>1. IsFirst(I, c.fk, ord, x)
      BY <1>1, <1>3, <2>1 DEF RowLinked
    <3> QED
      BY <1>1, <2>1, <3>1 DEF IsFirst, AliveBefore
  <2>2. CASE c.prv[x] # Missing
    <3>1. c.prv[x] \in I /\ RightAfter(I, c.fk, ord, c.prv[x], x)
      BY <1>1, <1>3, <2>2 DEF RowLinked
    <3> QED
      BY <1>1, <1>3, <2>2, <3>1 DEF RightAfter, AliveBefore
  <2> QED
    BY <2>1, <2>2
<1>4. ASSUME NEW t \in T, c.head[t] \notin dead
      PROVE  AliveFirst(I, c.fk, ord, dead, t, c.head[t])
  <2>1. CASE c.head[t] = Missing
    BY <1>1, <2>1 DEF HeadIs, AliveFirst
  <2>2. CASE c.head[t] # Missing
    <3>1. /\ c.head[t] \in I /\ c.fk[c.head[t]] = t /\ IsFirst(I, c.fk, ord, c.head[t])
      BY <1>1, <2>2 DEF HeadIs
    <3> QED
      BY <1>1, <1>4, <2>2, <3>1 DEF IsFirst, AliveFirst
  <2> QED
    BY <2>1, <2>2
<1> QED
  BY <1>2, <1>3, <1>4

\* They do, whatever heads are left alone (ignore).
LEMMA KeptLinksHold ==
  ASSUME NEW I, NEW T, NEW c, NEW ord, Linked(I, T, c, ord), IsFiniteSet(I),
         NEW dead \in SUBSET I, NEW moved \in SUBSET I, moved \cap dead = {}, NEW ignore
  PROVE  KeptLinks(I, T, c, ord, dead, moved, ignore,
                   ThenPatch(PatchUnlinked(c, dead, ignore), PatchRelocated(c, moved, ignore)))
<1> DEFINE u == PatchUnlinked(c, dead, ignore)
           m == PatchRelocated(c, moved, ignore)
           q == ThenPatch(u, m)
<1>1. /\ q.nxt = Then(u.nxt, m.nxt) /\ q.prv = Then(u.prv, m.prv)
      /\ q.head = Then(u.head, m.head)
  BY DEF ThenPatch
<1>2. /\ Missing \notin I /\ Missing \notin T
      /\ \A x \in I : RowLinked(I, c.fk, ord, x, c.nxt[x], c.prv[x])

  BY DEF Linked, Columns
<1>3. /\ DOMAIN u.nxt = {x \in I : x \notin dead /\ c.nxt[x] \in dead}
      /\ \A x \in DOMAIN u.nxt : AliveAfter(I, c.fk, ord, dead, x, u.nxt[x])
  BY UnlinkedNext
<1>4. /\ DOMAIN u.prv = {x \in I : x \notin dead /\ c.prv[x] \in dead}
      /\ \A x \in DOMAIN u.prv : AliveBefore(I, c.fk, ord, dead, x, u.prv[x])
  BY UnlinkedPrev
<1>5. /\ DOMAIN u.head = {t \in T : t \notin ignore /\ c.head[t] \in dead}
      /\ \A t \in DOMAIN u.head : AliveFirst(I, c.fk, ord, dead, t, u.head[t])
  BY UnlinkedHead
<1>6. /\ DOMAIN m.nxt = {x \in I : c.nxt[x] \in moved}
      /\ \A x \in DOMAIN m.nxt : m.nxt[x] = c.nxt[x]
      /\ DOMAIN m.prv = {x \in I : c.prv[x] \in moved}
      /\ \A x \in DOMAIN m.prv : m.prv[x] = c.prv[x]
      /\ DOMAIN m.head = {t \in T : t \notin ignore /\ c.head[t] \in moved}
      /\ \A t \in DOMAIN m.head : m.head[t] = c.head[t]
  <2>1. FollowsMoves(I, T, c, moved, ignore, m)
    BY RelocatedLinks
  <2> HIDE DEF m
  <2> QED
    BY <2>1 DEF FollowsMoves
<1> HIDE DEF u, m, q
<1>7. /\ \A x \in I : c.fk[x] # Missing /\ c.nxt[x] \notin dead =>
              AliveAfter(I, c.fk, ord, dead, x, c.nxt[x])
      /\ \A x \in I : c.fk[x] # Missing /\ c.prv[x] \notin dead =>
              AliveBefore(I, c.fk, ord, dead, x, c.prv[x])
      /\ \A t \in T : c.head[t] \notin dead =>
              AliveFirst(I, c.fk, ord, dead, t, c.head[t])
  BY LinksToSurvivors
<1>8. /\ DOMAIN q.nxt = DOMAIN u.nxt \cup DOMAIN m.nxt
      /\ DOMAIN q.prv = DOMAIN u.prv \cup DOMAIN m.prv
      /\ DOMAIN q.head = DOMAIN u.head \cup DOMAIN m.head
      /\ \A x \in DOMAIN q.nxt : q.nxt[x] = IF x \in DOMAIN m.nxt THEN m.nxt[x] ELSE u.nxt[x]
      /\ \A x \in DOMAIN q.prv : q.prv[x] = IF x \in DOMAIN m.prv THEN m.prv[x] ELSE u.prv[x]
      /\ \A x \in DOMAIN q.head : q.head[x] = IF x \in DOMAIN m.head THEN m.head[x] ELSE u.head[x]
  BY <1>1 DEF Then
<1>9. ASSUME NEW x \in I \ dead
      PROVE  \/ x \in DOMAIN u.nxt
                  /\ PatchedAt(c.nxt, q.nxt, x) = u.nxt[x]
             \/ c.nxt[x] \notin dead /\ PatchedAt(c.nxt, q.nxt, x) = c.nxt[x]
  BY <1>2, <1>3, <1>6, <1>8 DEF PatchedAt
<1>10. ASSUME NEW x \in I \ dead
       PROVE  \/ x \in DOMAIN u.prv /\ PatchedAt(c.prv, q.prv, x) = u.prv[x]
              \/ c.prv[x] \notin dead /\ PatchedAt(c.prv, q.prv, x) = c.prv[x]
  BY <1>2, <1>4, <1>6, <1>8 DEF PatchedAt
<1>11. ASSUME NEW t \in T \ ignore
       PROVE  \/ t \in DOMAIN u.head /\ PatchedAt(c.head, q.head, t) = u.head[t]
              \/ c.head[t] \notin dead /\ PatchedAt(c.head, q.head, t) = c.head[t]
  BY <1>2, <1>5, <1>6, <1>8 DEF PatchedAt
<1>12. ASSUME NEW x \in I \ dead, c.fk[x] = Missing
       PROVE  PatchedAt(c.nxt, q.nxt, x) = Missing /\ PatchedAt(c.prv, q.prv, x) = Missing
  <2>1. c.nxt[x] = Missing /\ c.prv[x] = Missing
    BY <1>2, <1>12 DEF RowLinked
  <2>2. x \notin DOMAIN q.nxt /\ x \notin DOMAIN q.prv
    BY <1>2, <1>3, <1>4, <1>6, <1>8, <2>1
  <2> QED
    BY <2>1, <2>2 DEF PatchedAt
<1>13. ASSUME NEW x \in I \ dead, c.fk[x] # Missing
       PROVE  /\ AliveAfter(I, c.fk, ord, dead, x, PatchedAt(c.nxt, q.nxt, x))
              /\ AliveBefore(I, c.fk, ord, dead, x, PatchedAt(c.prv, q.prv, x))
  <2>1. AliveAfter(I, c.fk, ord, dead, x, PatchedAt(c.nxt, q.nxt, x))
    BY <1>3, <1>7, <1>9, <1>13
  <2>2. AliveBefore(I, c.fk, ord, dead, x, PatchedAt(c.prv, q.prv, x))
    BY <1>4, <1>7, <1>10, <1>13
  <2> QED
    BY <2>1, <2>2
<1>14. ASSUME NEW t \in T \ ignore
       PROVE  AliveFirst(I, c.fk, ord, dead, t, PatchedAt(c.head, q.head, t))
  BY <1>5, <1>7, <1>11
<1>15. /\ DOMAIN q.nxt \subseteq I /\ DOMAIN q.prv \subseteq I
       /\ DOMAIN q.head \subseteq T \ ignore
       /\ \A x \in I \ dead : /\ x \notin DOMAIN q.nxt => c.nxt[x] \notin moved
                              /\ x \notin DOMAIN q.prv => c.prv[x] \notin moved
       /\ \A t \in T \ ignore : t \notin DOMAIN q.head => c.head[t] \notin moved
       /\ \A x \in dead : /\ x \in DOMAIN q.nxt => c.nxt[x] \in moved
                          /\ x \in DOMAIN q.prv => c.prv[x] \in moved
  BY <1>3, <1>4, <1>5, <1>6, <1>8
<1> QED
  BY <1>12, <1>13, <1>14, <1>15 DEF KeptLinks, q, u, m

\* Sequence ab is sequence a followed by sequence b.
Follow(a, n, b, m, ab) ==
  /\ DOMAIN a = 1 .. n /\ DOMAIN b = 1 .. m /\ DOMAIN ab = 1 .. n + m
  /\ \A i \in 1 .. n : ab[i] = a[i]
  /\ \A i \in 1 .. m : ab[n + i] = b[i]

\* The items of a and b have no target in common.
LEMMA PlacesJoined ==
  ASSUME NEW n \in Nat, NEW m \in Nat, NEW a, NEW b, NEW ab, Follow(a, n, b, m, ab),
         \A i \in 1 .. n, j \in 1 .. m : a[i].target = b[j].target => a[i].target = Missing
  PROVE  /\ \A i \in 1 .. n + m : i \in 1 .. n \/ \E j \in 1 .. m : i = n + j
         /\ \A i \in 1 .. n : ab[i].target # Missing =>
              /\ LastItem(a, i) <=> LastItem(ab, i)
              /\ FirstItem(a, i) <=> FirstItem(ab, i)
              /\ \A j \in 1 .. n : ItemAfter(a, i, j) => ItemAfter(ab, i, j)
         /\ \A i \in 1 .. m : ab[n + i].target # Missing =>
              /\ LastItem(b, i) <=> LastItem(ab, n + i)
              /\ FirstItem(b, i) <=> FirstItem(ab, n + i)
              /\ \A j \in 1 .. m : ItemAfter(b, i, j) => ItemAfter(ab, n + i, n + j)
<1>1. \A i \in 1 .. n + m : i \in 1 .. n \/ \E j \in 1 .. m : i = n + j
  <2>1. ASSUME NEW i \in 1 .. n + m, i \notin 1 .. n PROVE \E j \in 1 .. m : i = n + j
    <3>1. i - n \in 1 .. m /\ i = n + (i - n)
      BY <2>1
    <3> QED
      BY <3>1
  <2> QED
    BY <2>1
<1> DEFINE at(j) == n + j
           J == 1 .. n
           K == 1 .. m
           L == 1 .. n + m
<1>2. /\ DOMAIN a = J /\ DOMAIN b = K /\ DOMAIN ab = L
      /\ \A i \in J : ab[i] = a[i] /\ i \in L
      /\ \A i \in K : ab[at(i)] = b[i] /\ at(i) \in L
      /\ \A i \in L : i \in J \/ \E j \in K : i = at(j)
      /\ \A i \in J, j \in K : a[i].target = b[j].target => a[i].target = Missing
  BY <1>1 DEF Follow
<1>3. \A j, k \in K : (at(j) <= at(k) <=> j <= k) /\ (at(j) < at(k) <=> j < k)
  OBVIOUS
<1> HIDE DEF at, J, K, L
<1>4. ASSUME NEW i \in J, ab[i].target # Missing
      PROVE  \A k \in L : ab[k].target = ab[i].target => k \in J
  BY <1>2, <1>4
<1>5. ASSUME NEW i \in K, ab[at(i)].target # Missing
      PROVE  \A k \in L : ab[k].target = ab[at(i)].target => \E j \in K : k = at(j)
  BY <1>2, <1>5
<1>6. ASSUME NEW i \in J, ab[i].target # Missing
      PROVE  /\ LastItem(a, i) <=> LastItem(ab, i)
             /\ FirstItem(a, i) <=> FirstItem(ab, i)
             /\ \A j \in J : ItemAfter(a, i, j) => ItemAfter(ab, i, j)
  <2>1. \A k \in L : ab[k].target = ab[i].target => k \in J
    BY <1>4, <1>6
  <2> QED
    BY <1>2, <2>1 DEF LastItem, FirstItem, ItemAfter
<1>7. ASSUME NEW i \in K, ab[at(i)].target # Missing
      PROVE  /\ LastItem(b, i) <=> LastItem(ab, at(i))
             /\ FirstItem(b, i) <=> FirstItem(ab, at(i))
             /\ \A j \in K : ItemAfter(b, i, j) => ItemAfter(ab, at(i), at(j))
  <2>1. \A k \in L : ab[k].target = ab[at(i)].target => \E j \in K : k = at(j)
    BY <1>5, <1>7
  <2>4. LastItem(b, i) <=> LastItem(ab, at(i))
    BY <1>2, <1>3, <2>1 DEF LastItem
  <2>5. FirstItem(b, i) <=> FirstItem(ab, at(i))
    BY <1>2, <1>3, <2>1 DEF FirstItem
  <2>6. ASSUME NEW j \in K, ItemAfter(b, i, j) PROVE ItemAfter(ab, at(i), at(j))
    <3>1. j \in K /\ b[j].target = b[i].target /\ i < j
      BY <1>2, <2>6 DEF ItemAfter
    <3>2. \A k \in K : b[k].target = b[i].target => k <= i \/ j <= k
      BY <1>2, <2>6 DEF ItemAfter
    <3> QED
      BY <1>2, <1>3, <2>1, <3>1, <3>2 DEF ItemAfter
  <2> QED
    BY <2>4, <2>5, <2>6
<1> QED
  BY <1>1, <1>6, <1>7 DEF at, J, K, L

\* Two splices that share neither rows nor targets are one splice.
LEMMA SplicesJoin ==
  ASSUME NEW I, NEW T, NEW c, NEW ord, Linked(I, T, c, ord), IsFiniteSet(I),
         NEW dead \in SUBSET I, NEW n \in Nat, NEW m \in Nat, NEW a, NEW b, NEW ab,
         Follow(a, n, b, m, ab),
         \A i \in 1 .. n, j \in 1 .. m : a[i].target = b[j].target => a[i].target = Missing,
         \A i \in 1 .. n, j \in 1 .. m : a[i].row # b[j].row,
         \A i \in 1 .. n : a[i].row \notin I \ dead,
         \A i \in 1 .. m : b[i].row \notin I \ dead,
         NEW p, NEW q, SplicedLinks(c, a, dead, p), SplicedLinks(c, b, dead, q)
  PROVE  SplicedLinks(c, ab, dead, ThenPatch(p, q))
<1> DEFINE r == ThenPatch(p, q)
           old(t) == OldHead(c, t, dead)
           at(j) == n + j
           J == 1 .. n
           K == 1 .. m
           L == 1 .. n + m
<1>1. /\ DOMAIN a = J /\ DOMAIN b = K /\ DOMAIN ab = L
      /\ \A i \in J : ab[i] = a[i] /\ i \in L
      /\ \A i \in K : ab[at(i)] = b[i] /\ at(i) \in L
      /\ \A i \in L : i \in J \/ \E j \in K : i = at(j)
      /\ \A i \in J, j \in K : /\ a[i].target = b[j].target => a[i].target = Missing
                              /\ a[i].row # b[j].row
      /\ \A i \in J : a[i].row \notin I \ dead
      /\ \A i \in K : b[i].row \notin I \ dead
  <2>1. \A i \in 1 .. n + m : i \in 1 .. n \/ \E j \in 1 .. m : i = n + j
    OBVIOUS
  <2>2. /\ \A i \in 1 .. n : i \in 1 .. n + m
        /\ \A i \in 1 .. m : n + i \in 1 .. n + m
    OBVIOUS
  <2>3. /\ DOMAIN a = 1 .. n /\ DOMAIN b = 1 .. m /\ DOMAIN ab = 1 .. n + m
        /\ \A i \in 1 .. n : ab[i] = a[i]
        /\ \A i \in 1 .. m : ab[n + i] = b[i]
    BY DEF Follow
  <2> QED
    BY <2>1, <2>2, <2>3
<1>2. ASSUME NEW t, t # Missing, old(t) # Missing
      PROVE  old(t) \in I \ dead /\ c.fk[old(t)] = t
  BY <1>2, OldHeadIs DEF AliveFirst
<1>3. /\ DOMAIN r.nxt = DOMAIN p.nxt \cup DOMAIN q.nxt
      /\ DOMAIN r.prv = DOMAIN p.prv \cup DOMAIN q.prv
      /\ DOMAIN r.head = DOMAIN p.head \cup DOMAIN q.head
      /\ \A x \in DOMAIN r.nxt : r.nxt[x] = IF x \in DOMAIN q.nxt THEN q.nxt[x] ELSE p.nxt[x]
      /\ \A x \in DOMAIN r.prv : r.prv[x] = IF x \in DOMAIN q.prv THEN q.prv[x] ELSE p.prv[x]
      /\ \A x \in DOMAIN r.head : r.head[x] = IF x \in DOMAIN q.head THEN q.head[x] ELSE p.head[x]
  BY DEF ThenPatch, Then
<1> HIDE DEF r, old, at, J, K, L
<1>4. /\ DOMAIN p.nxt = {a[i].row : i \in J}
      /\ DOMAIN p.prv = {a[i].row : i \in J}
                          \cup ({old(a[i].target) : i \in {k \in J : a[k].target # Missing}}
                                \ {Missing})
      /\ DOMAIN p.head = {a[i].target : i \in J} \ {Missing}
  BY <1>1 DEF SplicedLinks, old
<1>5. /\ DOMAIN q.nxt = {b[i].row : i \in K}
      /\ DOMAIN q.prv = {b[i].row : i \in K}
                          \cup ({old(b[i].target) : i \in {k \in K : b[k].target # Missing}}
                                \ {Missing})
      /\ DOMAIN q.head = {b[i].target : i \in K} \ {Missing}
  BY <1>1 DEF SplicedLinks, old
<1>6. /\ \A i \in J :
           /\ a[i].row \in DOMAIN p.nxt /\ a[i].row \notin DOMAIN q.nxt
           /\ a[i].row \in DOMAIN p.prv /\ a[i].row \notin DOMAIN q.prv
           /\ a[i].target # Missing =>
                /\ a[i].target \in DOMAIN p.head /\ a[i].target \notin DOMAIN q.head
                /\ old(a[i].target) # Missing =>
                     old(a[i].target) \in DOMAIN p.prv /\ old(a[i].target) \notin DOMAIN q.prv
  BY <1>1, <1>2, <1>4, <1>5
<1>7. /\ \A i \in K :
           /\ b[i].row \in DOMAIN q.nxt /\ b[i].row \in DOMAIN q.prv
           /\ b[i].target # Missing =>
                /\ b[i].target \in DOMAIN q.head
                /\ old(b[i].target) # Missing => old(b[i].target) \in DOMAIN q.prv
  BY <1>5
<1>8. /\ \A i \in J : r.nxt[a[i].row] = p.nxt[a[i].row] /\ r.prv[a[i].row] = p.prv[a[i].row]
      /\ \A i \in J : a[i].target # Missing =>
           /\ r.head[a[i].target] = p.head[a[i].target]
           /\ old(a[i].target) # Missing => r.prv[old(a[i].target)] = p.prv[old(a[i].target)]
  BY <1>3, <1>6
<1>9. /\ \A i \in K : r.nxt[b[i].row] = q.nxt[b[i].row] /\ r.prv[b[i].row] = q.prv[b[i].row]
      /\ \A i \in K : b[i].target # Missing =>
           /\ r.head[b[i].target] = q.head[b[i].target]
           /\ old(b[i].target) # Missing => r.prv[old(b[i].target)] = q.prv[old(b[i].target)]
  BY <1>3, <1>7
<1>10. /\ DOMAIN r.nxt = {ab[i].row : i \in L}
       /\ DOMAIN r.prv = {ab[i].row : i \in L}
            \cup ({old(ab[i].target) : i \in {k \in L : ab[k].target # Missing}} \ {Missing})
       /\ DOMAIN r.head = {ab[i].target : i \in L} \ {Missing}
  <2>1. {ab[i].row : i \in L} = {a[i].row : i \in J} \cup {b[i].row : i \in K}
    BY <1>1
  <2>2. {ab[i].target : i \in L}
          = {a[i].target : i \in J} \cup {b[i].target : i \in K}
    <3>1. \A i \in L : \/ \E j \in J : ab[i].target = a[j].target
                      \/ \E j \in K : ab[i].target = b[j].target
      BY <1>1
    <3>2. /\ \A j \in J : \E i \in L : ab[i].target = a[j].target
          /\ \A j \in K : \E i \in L : ab[i].target = b[j].target
      BY <1>1
    <3> QED
      BY <3>1, <3>2
  <2>3. {old(ab[i].target) : i \in {k \in L : ab[k].target # Missing}}
          = {old(a[i].target) : i \in {k \in J : a[k].target # Missing}}
            \cup {old(b[i].target) : i \in {k \in K : b[k].target # Missing}}
    <3>1. \A i \in {k \in L : ab[k].target # Missing} :
             \/ \E j \in {k \in J : a[k].target # Missing} : ab[i].target = a[j].target
             \/ \E j \in {k \in K : b[k].target # Missing} : ab[i].target = b[j].target
      BY <1>1
    <3>2. /\ \A j \in {k \in J : a[k].target # Missing} :
               \E i \in {k \in L : ab[k].target # Missing} : ab[i].target = a[j].target
          /\ \A j \in {k \in K : b[k].target # Missing} :
               \E i \in {k \in L : ab[k].target # Missing} : ab[i].target = b[j].target
      BY <1>1
    <3> QED
      BY <3>1, <3>2
  <2> QED
    BY <1>3, <1>4, <1>5, <2>1, <2>2, <2>3
<1>11. /\ \A i \in J : ab[i].target # Missing =>
            /\ LastItem(a, i) <=> LastItem(ab, i)
            /\ FirstItem(a, i) <=> FirstItem(ab, i)
            /\ \A j \in J : ItemAfter(a, i, j) => ItemAfter(ab, i, j)
       /\ \A i \in K : ab[at(i)].target # Missing =>
            /\ LastItem(b, i) <=> LastItem(ab, at(i))
            /\ FirstItem(b, i) <=> FirstItem(ab, at(i))
            /\ \A j \in K : ItemAfter(b, i, j) => ItemAfter(ab, at(i), at(j))
  BY PlacesJoined DEF at, J, K, L
<1>12. ASSUME NEW i \in L
       PROVE  LET x == r.nxt[ab[i].row]
              IN  IF ab[i].target = Missing THEN x = Missing
                  ELSE \/ \E j \in L : ItemAfter(ab, i, j) /\ x = ab[j].row
                       \/ LastItem(ab, i) /\ x = old(ab[i].target)
  <2>1. CASE i \in J
    <3>1. LET x == p.nxt[a[i].row]
          IN  IF a[i].target = Missing THEN x = Missing
              ELSE \/ \E j \in J : ItemAfter(a, i, j) /\ x = a[j].row
                   \/ LastItem(a, i) /\ x = old(a[i].target)
      BY <1>1, <2>1 DEF SplicedLinks, old
    <3> QED
      BY <1>1, <1>8, <1>11, <2>1, <3>1
  <2>2. CASE \E j \in K : i = at(j)
    <3>1. PICK j \in K : i = at(j)
      BY <2>2
    <3>2. LET x == q.nxt[b[j].row]
          IN  IF b[j].target = Missing THEN x = Missing
              ELSE \/ \E k \in K : ItemAfter(b, j, k) /\ x = b[k].row
                   \/ LastItem(b, j) /\ x = old(b[j].target)
      BY <1>1 DEF SplicedLinks, old
    <3> QED
      BY <1>1, <1>9, <1>11, <3>1, <3>2
  <2> QED
    BY <1>1, <2>1, <2>2
<1>13. ASSUME NEW i \in L
       PROVE  LET x == r.prv[ab[i].row]
              IN  IF ab[i].target = Missing THEN x = Missing
                  ELSE \/ \E j \in L : ItemAfter(ab, j, i) /\ x = ab[j].row
                       \/ FirstItem(ab, i) /\ x = Missing
  <2>1. CASE i \in J
    <3>1. LET x == p.prv[a[i].row]
          IN  IF a[i].target = Missing THEN x = Missing
              ELSE \/ \E j \in J : ItemAfter(a, j, i) /\ x = a[j].row
                   \/ FirstItem(a, i) /\ x = Missing
      BY <1>1, <2>1 DEF SplicedLinks
    <3>2. ASSUME NEW j \in J, ItemAfter(a, j, i), a[i].target # Missing
          PROVE  ItemAfter(ab, j, i)
      <4>1. ab[j].target # Missing
        BY <1>1, <3>2 DEF ItemAfter
      <4> QED
        BY <1>11, <2>1, <3>2, <4>1
    <3> QED
      BY <1>1, <1>8, <1>11, <2>1, <3>1, <3>2
  <2>2. CASE \E j \in K : i = at(j)
    <3>1. PICK j \in K : i = at(j)
      BY <2>2
    <3>2. LET x == q.prv[b[j].row]
          IN  IF b[j].target = Missing THEN x = Missing
              ELSE \/ \E k \in K : ItemAfter(b, k, j) /\ x = b[k].row
                   \/ FirstItem(b, j) /\ x = Missing
      BY <1>1 DEF SplicedLinks
    <3>3. ASSUME NEW k \in K, ItemAfter(b, k, j), b[j].target # Missing
          PROVE  ItemAfter(ab, at(k), i)
      <4>1. ab[at(k)].target # Missing
        BY <1>1, <3>3 DEF ItemAfter
      <4> QED
        BY <1>11, <3>1, <3>3, <4>1
    <3> QED
      BY <1>1, <1>9, <1>11, <3>1, <3>2, <3>3
  <2> QED
    BY <1>1, <2>1, <2>2
<1>14. ASSUME NEW i \in L, ab[i].target # Missing
       PROVE  /\ LastItem(ab, i) /\ old(ab[i].target) # Missing =>
                   r.prv[old(ab[i].target)] = ab[i].row
              /\ FirstItem(ab, i) => r.head[ab[i].target] = ab[i].row
  <2>1. CASE i \in J
    <3>1. /\ a[i].target # Missing /\ LastItem(a, i) /\ old(a[i].target) # Missing =>
               p.prv[old(a[i].target)] = a[i].row
          /\ a[i].target # Missing /\ FirstItem(a, i) => p.head[a[i].target] = a[i].row
      BY <1>1, <2>1 DEF SplicedLinks, old
    <3> QED
      BY <1>1, <1>8, <1>11, <1>14, <2>1, <3>1
  <2>2. CASE \E j \in K : i = at(j)
    <3>1. PICK j \in K : i = at(j)
      BY <2>2
    <3>2. /\ b[j].target # Missing /\ LastItem(b, j) /\ old(b[j].target) # Missing =>
               q.prv[old(b[j].target)] = b[j].row
          /\ b[j].target # Missing /\ FirstItem(b, j) => q.head[b[j].target] = b[j].row
      BY <1>1 DEF SplicedLinks, old
    <3> QED
      BY <1>1, <1>9, <1>11, <1>14, <3>1, <3>2
  <2> QED
    BY <1>1, <2>1, <2>2
<1> QED
  BY <1>1, <1>10, <1>12, <1>13, <1>14 DEF SplicedLinks, r, old

\* The columns d of the rows L and the targets LT after a patch p, in the
\* indices from before: the rows that are not dead keep their keys, the items
\* have theirs, and the links and heads are the old ones where p says nothing.
PatchedColumns(I, T, c, dead, items, L, LT, d, p) ==
  /\ L = (I \ dead) \cup {items[i].row : i \in DOMAIN items}
  /\ DOMAIN d.fk = L /\ DOMAIN d.nxt = L /\ DOMAIN d.prv = L /\ DOMAIN d.head = LT
  /\ \A x \in I \ dead : d.fk[x] = c.fk[x]
  /\ \A i \in DOMAIN items : d.fk[items[i].row] = items[i].target
  /\ \A x \in L : /\ d.nxt[x] = PatchedAt(c.nxt, p.nxt, x)
                  /\ d.prv[x] = PatchedAt(c.prv, p.prv, x)
  /\ \A t \in LT : d.head[t] = IF t \in DOMAIN p.head THEN p.head[t]
                               ELSE IF t \in T THEN c.head[t] ELSE Missing

\* A patch q of the two phases that keep the rows that stay, and one s that puts
\* the items in front; LT are the targets the rows and the items may have.
SplicedAfterKept(I, T, c, ord, dead, moved, ignore, q, n, items, s, LT) ==
  /\ Linked(I, T, c, ord) /\ IsFiniteSet(I) /\ dead \in SUBSET I
  /\ KeptLinks(I, T, c, ord, dead, moved, ignore, q)
  /\ n \in Nat /\ DOMAIN items = 1 .. n
  /\ \A i, j \in 1 .. n : items[i].row = items[j].row => i = j
  /\ \A i \in 1 .. n : items[i].row \notin I \ dead /\ items[i].row # Missing
  /\ SplicedLinks(c, items, dead, s)
  /\ Missing \notin LT
  /\ \A x \in I \ dead : c.fk[x] \in LT \cup {Missing}
  /\ \A i \in 1 .. n : items[i].target \in LT \cup {Missing}
  /\ \A t \in ignore \cap LT : \E i \in 1 .. n : items[i].target = t

\* The patch of a commit leaves every list linked: its items first, then the
\* rows that stay, in their old order.
LEMMA PatchLinks ==
  ASSUME NEW I, NEW T, NEW c, NEW ord, NEW dead, NEW moved, NEW ignore, NEW q, NEW n,
         NEW items, NEW s, NEW LT,
         SplicedAfterKept(I, T, c, ord, dead, moved, ignore, q, n, items, s, LT),
         NEW L, NEW d, PatchedColumns(I, T, c, dead, items, L, LT, d, ThenPatch(q, s))
  PROVE  \E new : Linked(L, LT, d, new)
<1>0. /\ Linked(I, T, c, ord) /\ IsFiniteSet(I) /\ dead \in SUBSET I
      /\ KeptLinks(I, T, c, ord, dead, moved, ignore, q)
      /\ n \in Nat /\ DOMAIN items = 1 .. n
      /\ \A i, j \in 1 .. n : items[i].row = items[j].row => i = j
      /\ \A i \in 1 .. n : items[i].row \notin I \ dead /\ items[i].row # Missing
      /\ SplicedLinks(c, items, dead, s)
      /\ Missing \notin LT
      /\ \A x \in I \ dead : c.fk[x] \in LT \cup {Missing}
      /\ \A i \in 1 .. n : items[i].target \in LT \cup {Missing}
      /\ \A t \in ignore \cap LT : \E i \in 1 .. n : items[i].target = t
  BY DEF SplicedAfterKept
<1> USE <1>0
<1> DEFINE p == ThenPatch(q, s)
           K == I \ dead
           J == 1 .. n
           R == {items[i].row : i \in J}
           new == [x \in L |-> IF x \in K THEN ord[x] + n + 1
                               ELSE CHOOSE i \in J : items[i].row = x]
           old(t) == OldHead(c, t, dead)
           row(i) == items[i].row
           tgt(i) == items[i].target
<1>1. /\ Missing \notin I /\ Missing \notin T
      /\ \A x \in I : ord[x] \in Nat
      /\ \A x \in I : c.fk[x] \in T \cup {Missing}
      /\ \A x, y \in I : c.fk[x] = c.fk[y] /\ c.fk[x] # Missing /\ ord[x] = ord[y] => x = y
  BY DEF Linked, Columns, Ordered
<1>2. /\ DOMAIN p.nxt = DOMAIN q.nxt \cup DOMAIN s.nxt
      /\ DOMAIN p.prv = DOMAIN q.prv \cup DOMAIN s.prv
      /\ DOMAIN p.head = DOMAIN q.head \cup DOMAIN s.head
      /\ \A x \in DOMAIN p.nxt : p.nxt[x] = IF x \in DOMAIN s.nxt THEN s.nxt[x] ELSE q.nxt[x]
      /\ \A x \in DOMAIN p.prv : p.prv[x] = IF x \in DOMAIN s.prv THEN s.prv[x] ELSE q.prv[x]
      /\ \A x \in DOMAIN p.head : p.head[x] = IF x \in DOMAIN s.head THEN s.head[x] ELSE q.head[x]
  BY DEF ThenPatch, Then
<1>3. /\ DOMAIN d.fk = L /\ DOMAIN d.nxt = L /\ DOMAIN d.prv = L /\ DOMAIN d.head = LT
      /\ L = K \cup R /\ DOMAIN items = J
      /\ \A x \in K : d.fk[x] = c.fk[x]
      /\ \A i \in J : row(i) \in R /\ d.fk[row(i)] = tgt(i)
      /\ \A x \in L : /\ d.nxt[x] = PatchedAt(c.nxt, p.nxt, x)
                      /\ d.prv[x] = PatchedAt(c.prv, p.prv, x)
      /\ \A t \in LT : d.head[t] = IF t \in DOMAIN p.head THEN p.head[t]
                                   ELSE IF t \in T THEN c.head[t] ELSE Missing
  BY DEF PatchedColumns
<1>4. /\ \A i, j \in J : row(i) = row(j) => i = j
      /\ \A i \in J : row(i) \notin K /\ row(i) # Missing
      /\ \A x \in R : x \notin K /\ x # Missing /\ \E i \in J : x = row(i)
      /\ \A x \in K : x \in I /\ x \notin dead /\ x # Missing /\ x \in L
      /\ \A x \in K : c.fk[x] \in LT \cup {Missing}
      /\ \A i \in J : tgt(i) \in LT \cup {Missing}
      /\ \A t \in ignore \cap LT : \E i \in J : tgt(i) = t
  BY <1>1, <1>3
<1>5. ASSUME NEW x \in K PROVE new[x] = ord[x] + n + 1
  BY <1>3
<1>6. ASSUME NEW i \in J PROVE new[row(i)] = i
  <2>1. row(i) \in L /\ row(i) \notin K
    BY <1>3, <1>4
  <2>2. new[row(i)] = CHOOSE j \in J : row(j) = row(i)
    BY <2>1
  <2> HIDE DEF new, row
  <2> QED
    BY <1>4, <2>2
<1> HIDE DEF new
<1>7. /\ DOMAIN s.nxt = R
      /\ DOMAIN s.prv = R \cup ({old(tgt(i)) : i \in {k \in J : tgt(k) # Missing}} \ {Missing})
      /\ DOMAIN s.head = {tgt(i) : i \in J} \ {Missing}
  BY <1>3 DEF SplicedLinks
<1>8. ASSUME NEW i \in J
      PROVE  IF tgt(i) = Missing THEN s.nxt[row(i)] = Missing /\ s.prv[row(i)] = Missing
             ELSE /\ \/ \E j \in J : ItemAfter(items, i, j) /\ s.nxt[row(i)] = row(j)
                     \/ LastItem(items, i) /\ s.nxt[row(i)] = old(tgt(i))
                  /\ \/ \E j \in J : ItemAfter(items, j, i) /\ s.prv[row(i)] = row(j)
                     \/ FirstItem(items, i) /\ s.prv[row(i)] = Missing
                  /\ LastItem(items, i) /\ old(tgt(i)) # Missing => s.prv[old(tgt(i))] = row(i)
                  /\ FirstItem(items, i) => s.head[tgt(i)] = row(i)
  <2>1. LET v == s.nxt[row(i)]
        IN  IF tgt(i) = Missing THEN v = Missing
            ELSE \/ \E j \in J : ItemAfter(items, i, j) /\ v = row(j)
                 \/ LastItem(items, i) /\ v = old(tgt(i))
    BY <1>3, SMTT(30) DEF SplicedLinks
  <2>2. LET v == s.prv[row(i)]
        IN  IF tgt(i) = Missing THEN v = Missing
            ELSE \/ \E j \in J : ItemAfter(items, j, i) /\ v = row(j)
                 \/ FirstItem(items, i) /\ v = Missing
    BY <1>3, SMTT(30) DEF SplicedLinks
  <2>3. tgt(i) # Missing =>
          /\ LastItem(items, i) /\ old(tgt(i)) # Missing => s.prv[old(tgt(i))] = row(i)
          /\ FirstItem(items, i) => s.head[tgt(i)] = row(i)
    BY <1>3 DEF SplicedLinks
  <2> HIDE DEF row, tgt, old
  <2> QED
    BY <2>1, <2>2, <2>3
<1>9. ASSUME NEW t, t # Missing PROVE AliveFirst(I, c.fk, ord, dead, t, old(t))
  BY <1>9, OldHeadIs
<1>10. /\ \A t \in LT \ ignore : t \in T =>
            AliveFirst(I, c.fk, ord, dead, t, PatchedAt(c.head, q.head, t))
       /\ \A x \in K : c.fk[x] # Missing =>
            /\ AliveAfter(I, c.fk, ord, dead, x, PatchedAt(c.nxt, q.nxt, x))
            /\ AliveBefore(I, c.fk, ord, dead, x, PatchedAt(c.prv, q.prv, x))
       /\ \A x \in K : c.fk[x] = Missing =>
            PatchedAt(c.nxt, q.nxt, x) = Missing /\ PatchedAt(c.prv, q.prv, x) = Missing
       /\ DOMAIN q.head \subseteq T \ ignore
  BY DEF KeptLinks
<1> HIDE DEF p, old
<1>11. /\ \A i \in J : i \in Nat /\ i <= n /\ 1 <= i
       /\ n \in Nat
  OBVIOUS
<1>12. ASSUME NEW x \in L PROVE x \in K \/ \E i \in J : x = row(i)
  BY <1>3, <1>4
<1>13. \A t : t # Missing /\ (\E i \in J : tgt(i) = t) =>
         /\ \E i \in J : tgt(i) = t /\ LastItem(items, i)
         /\ \E i \in J : tgt(i) = t /\ FirstItem(items, i)
  <2>1. ASSUME NEW t, \E i \in J : tgt(i) = t
        PROVE  /\ \E i \in J : tgt(i) = t /\ LastItem(items, i)
               /\ \E i \in J : tgt(i) = t /\ FirstItem(items, i)
    <3> DEFINE S == {i \in J : tgt(i) = t}
    <3>1. S \in SUBSET (1 .. n) /\ S # {}
      BY <2>1
    <3> HIDE DEF S
    <3>2. /\ \E j \in S : \A k \in S : j <= k
          /\ \E j \in S : \A k \in S : j >= k
      BY <3>1, PlacesHaveEnds
    <3>3. /\ \E j \in J : tgt(j) = t /\ \A k \in J : tgt(k) = t => j <= k
          /\ \E j \in J : tgt(j) = t /\ \A k \in J : tgt(k) = t => k <= j
      <4>1. \A k \in J : k \in S <=> tgt(k) = t
        BY DEF S
      <4>2. S \subseteq J
        BY DEF S
      <4> HIDE DEF J, tgt
      <4>3. \E j \in J : tgt(j) = t /\ \A k \in J : tgt(k) = t => j <= k
        BY <3>2, <4>1, <4>2
      <4>4. \E j \in J : tgt(j) = t /\ \A k \in J : tgt(k) = t => j >= k
        BY <3>2, <4>1, <4>2
      <4>5. \A j, k \in J : j >= k <=> k <= j
        BY <1>11
      <4> QED
        BY <4>3, <4>4, <4>5
    <3>4. \A i \in J : /\ LastItem(items, i) <=> (\A k \in J : tgt(k) = tgt(i) => k <= i)
                      /\ FirstItem(items, i) <=> (\A k \in J : tgt(k) = tgt(i) => i <= k)
      <4> HIDE DEF J
      <4> QED
        BY <1>3 DEF LastItem, FirstItem
    <3> HIDE DEF J, tgt
    <3>5. \E i \in J : tgt(i) = t /\ LastItem(items, i)
      <4>1. PICK j \in J : tgt(j) = t /\ \A k \in J : tgt(k) = t => k <= j
        BY <3>3
      <4>2. \A k \in J : tgt(k) = tgt(j) => k <= j
        BY <4>1
      <4>3. LastItem(items, j)
        BY <1>3, <4>2 DEF LastItem, tgt
      <4> QED
        BY <4>1, <4>3
    <3>6. \E i \in J : tgt(i) = t /\ FirstItem(items, i)
      BY <3>3, <3>4
    <3> QED
      BY <3>5, <3>6
  <2> QED
    BY <2>1
<1> DEFINE key == d.fk
<1>14. \A i \in J : /\ row(i) \in L /\ key[row(i)] = tgt(i) /\ new[row(i)] = i
  BY <1>3, <1>6
<1>15. \A x \in K : x \in L /\ key[x] = c.fk[x] /\ new[x] = ord[x] + n + 1 /\ ord[x] \in Nat
  BY <1>1, <1>3, <1>4, <1>5
<1>16. \A x \in K, i \in J : new[row(i)] < new[x]
  BY <1>11, <1>14, <1>15
<1>17. /\ \A x, y \in K : /\ new[x] <= new[y] <=> ord[x] <= ord[y]
                          /\ new[x] < new[y] <=> ord[x] < ord[y]
       /\ \A x, y \in K : new[x] < new[y] \/ new[y] <= new[x]
       /\ \A x \in L : new[x] \in Nat
  <2>1. /\ \A x, y \in K : /\ new[x] <= new[y] <=> ord[x] <= ord[y]
                           /\ new[x] < new[y] <=> ord[x] < ord[y]
        /\ \A x, y \in K : new[x] < new[y] \/ new[y] <= new[x]
    BY <1>11, <1>15
  <2>2. \A x \in L : new[x] \in Nat
    BY <1>11, <1>12, <1>14, <1>15
  <2> QED
    BY <2>1, <2>2
<1>18. \A x, y \in I : ord[x] < ord[y] \/ ord[y] <= ord[x]
  BY <1>1
<1>19. \A i, j \in J : (i < j \/ j <= i)
  BY <1>11
<1> HIDE DEF J, row, tgt, K, R
<1>20. ASSUME NEW x \in K, key[x] # Missing, NEW y, AliveAfter(I, c.fk, ord, dead, x, y)
       PROVE  IF y = Missing THEN IsLast(L, key, new, x)
              ELSE RightAfter(L, key, new, x, y)
  <2>1. \A u \in I : u \notin dead => u \in K
    BY DEF K
  <2>2. \A u \in K : u \in I /\ u \notin dead
    BY DEF K
  <2> HIDE DEF key
  <2>3. CASE y = Missing
    <3>1. ASSUME NEW u \in K, key[u] = key[x] PROVE new[u] <= new[x]
      <4>1. ~(ord[x] < ord[u])
        BY <1>15, <1>20, <2>2, <2>3, <3>1 DEF AliveAfter
      <4> QED
        BY <1>17, <1>18, <2>2, <4>1
    <3>2. ASSUME NEW i \in J PROVE new[row(i)] <= new[x]
      BY <1>14, <1>15, <1>16, <1>17
    <3> QED
      BY <1>12, <2>3, <3>1, <3>2 DEF IsLast
  <2>4. CASE y # Missing
    <3>1. /\ y \in K /\ key[y] = key[x] /\ ord[x] < ord[y]
          /\ \A u \in I : c.fk[u] = c.fk[x] /\ ord[x] < ord[u] /\ ord[u] < ord[y] => u \in dead
      BY <1>15, <1>20, <2>1, <2>4 DEF AliveAfter
    <3>2. ASSUME NEW u \in K, key[u] = key[x] PROVE new[u] <= new[x] \/ new[y] <= new[u]
      <4>1. ~(ord[x] < ord[u] /\ ord[u] < ord[y])
        BY <1>15, <2>2, <3>1, <3>2
      <4> QED
        BY <1>17, <1>18, <2>2, <3>1, <4>1
    <3>3. ASSUME NEW i \in J PROVE new[row(i)] <= new[x]
      BY <1>14, <1>15, <1>16, <1>17
    <3>4. new[x] < new[y] /\ y \in L
      BY <1>15, <1>17, <3>1
    <3> QED
      BY <1>12, <2>4, <3>1, <3>2, <3>3, <3>4 DEF RightAfter
  <2> QED
    BY <2>3, <2>4
<1>21. ASSUME NEW x \in K, key[x] # Missing, NEW y, AliveBefore(I, c.fk, ord, dead, x, y)
       PROVE  IF y = Missing THEN (\A i \in J : tgt(i) # key[x]) => IsFirst(L, key, new, x)
              ELSE y \in L /\ RightAfter(L, key, new, y, x)
  <2>1. \A u \in I : u \notin dead => u \in K
    BY DEF K
  <2>2. \A u \in K : u \in I /\ u \notin dead
    BY DEF K
  <2> HIDE DEF key
  <2>3. ASSUME y = Missing, \A i \in J : tgt(i) # key[x] PROVE IsFirst(L, key, new, x)
    <3>1. ASSUME NEW u \in K, key[u] = key[x] PROVE new[x] <= new[u]
      <4>1. ~(ord[u] < ord[x])
        BY <1>15, <1>21, <2>2, <2>3, <3>1 DEF AliveBefore
      <4> QED
        BY <1>17, <1>18, <2>2, <4>1
    <3> QED
      BY <1>12, <1>14, <2>3, <3>1 DEF IsFirst
  <2>4. CASE y # Missing
    <3>1. /\ y \in K /\ key[y] = key[x] /\ ord[y] < ord[x]
          /\ \A u \in I : c.fk[u] = c.fk[x] /\ ord[y] < ord[u] /\ ord[u] < ord[x] => u \in dead
      BY <1>15, <1>21, <2>1, <2>4 DEF AliveBefore
    <3>2. ASSUME NEW u \in K, key[u] = key[x] PROVE new[u] <= new[y] \/ new[x] <= new[u]
      <4>1. ~(ord[y] < ord[u] /\ ord[u] < ord[x])
        BY <1>15, <2>2, <3>1, <3>2
      <4> QED
        BY <1>17, <1>18, <2>2, <3>1, <4>1
    <3>3. ASSUME NEW i \in J PROVE new[row(i)] <= new[y]
      BY <1>14, <1>15, <1>16, <1>17, <3>1
    <3>4. new[y] < new[x] /\ x \in L /\ y \in L
      BY <1>15, <1>17, <3>1
    <3> QED
      BY <1>12, <2>4, <3>1, <3>2, <3>3, <3>4 DEF RightAfter
  <2> QED
    BY <2>3, <2>4
<1>22. ASSUME NEW i \in J, NEW j \in J, ItemAfter(items, i, j)
       PROVE  RightAfter(L, key, new, row(i), row(j))
  <2> HIDE DEF key
  <2>1. /\ tgt(j) = tgt(i) /\ i < j
        /\ \A k \in J : tgt(k) = tgt(i) => k <= i \/ j <= k
    BY <1>3, <1>22 DEF ItemAfter, tgt
  <2>2. ASSUME NEW u \in K PROVE new[row(j)] <= new[u]
    BY <1>14, <1>15, <1>16, <1>17
  <2> QED
    BY <1>12, <1>14, <2>1, <2>2 DEF RightAfter
<1>23. ASSUME NEW i \in J, LastItem(items, i), tgt(i) # Missing
       PROVE  IF old(tgt(i)) = Missing THEN IsLast(L, key, new, row(i))
              ELSE RightAfter(L, key, new, row(i), old(tgt(i)))
  <2> DEFINE h == old(tgt(i))
  <2>1. \A u \in I : u \notin dead => u \in K
    BY DEF K
  <2>2. \A u \in K : u \in I /\ u \notin dead
    BY DEF K
  <2>3. AliveFirst(I, c.fk, ord, dead, tgt(i), h)
    BY <1>9, <1>23
  <2> HIDE DEF key, h
  <2>4. \A k \in J : tgt(k) = tgt(i) => k <= i
    BY <1>3, <1>23 DEF LastItem, tgt
  <2>5. CASE h = Missing
    <3>1. \A u \in K : key[u] # tgt(i)
      BY <1>15, <2>2, <2>3, <2>5 DEF AliveFirst
    <3> QED
      BY <1>12, <1>14, <2>4, <2>5, <3>1 DEF IsLast, h
  <2>6. CASE h # Missing
    <3>1. /\ h \in K /\ key[h] = tgt(i)
          /\ \A u \in I : c.fk[u] = tgt(i) /\ ord[u] < ord[h] => u \in dead
      BY <1>15, <2>1, <2>3, <2>6 DEF AliveFirst
    <3>2. ASSUME NEW u \in K, key[u] = tgt(i) PROVE new[h] <= new[u]
      <4>1. ~(ord[u] < ord[h])
        BY <1>15, <2>2, <3>1, <3>2
      <4> QED
        BY <1>17, <1>18, <2>2, <3>1, <4>1
    <3>3. ASSUME NEW k \in J, tgt(k) = tgt(i) PROVE new[row(k)] <= new[row(i)]
      BY <1>14, <2>4, <3>3
    <3>4. h \in L /\ new[row(i)] < new[h]
      BY <1>15, <1>16, <3>1
    <3>5. RightAfter(L, key, new, row(i), h)
      BY <1>12, <1>14, <3>1, <3>2, <3>3, <3>4 DEF RightAfter
    <3> QED
      BY <2>6, <3>5 DEF h
  <2> QED
    BY <2>5, <2>6
<1>24. ASSUME NEW i \in J, FirstItem(items, i) PROVE IsFirst(L, key, new, row(i))
  <2> HIDE DEF key
  <2>1. \A k \in J : tgt(k) = tgt(i) => i <= k
    BY <1>3, <1>24 DEF FirstItem, tgt
  <2>2. ASSUME NEW u \in K PROVE new[row(i)] <= new[u]
    BY <1>14, <1>15, <1>16, <1>17
  <2> QED
    BY <1>12, <1>14, <2>1, <2>2 DEF IsFirst
<1>25. ASSUME NEW i \in J
       PROVE  /\ RowLinked(L, key, new, row(i), d.nxt[row(i)], d.prv[row(i)])
              /\ d.nxt[row(i)] \in L \cup {Missing} /\ d.prv[row(i)] \in L \cup {Missing}
  <2>1. row(i) \in R /\ row(i) \in L
    BY <1>3
  <2>2. d.nxt[row(i)] = s.nxt[row(i)] /\ d.prv[row(i)] = s.prv[row(i)]
    BY <1>2, <1>3, <1>7, <2>1 DEF PatchedAt
  <2> DEFINE a == d.nxt[row(i)]
             b == d.prv[row(i)]
  <2>3. IF tgt(i) = Missing THEN a = Missing /\ b = Missing
        ELSE /\ \/ \E j \in J : ItemAfter(items, i, j) /\ a = row(j)
                \/ LastItem(items, i) /\ a = old(tgt(i))
             /\ \/ \E j \in J : ItemAfter(items, j, i) /\ b = row(j)
                \/ FirstItem(items, i) /\ b = Missing
    BY <1>8, <2>2
  <2> HIDE DEF a, b, key
  <2>4. CASE tgt(i) = Missing
    <3>1. RowLinked(L, key, new, row(i), a, b)
      BY <1>14, <2>3, <2>4 DEF RowLinked
    <3> QED
      BY <2>3, <2>4, <3>1 DEF a, b
  <2>5. CASE tgt(i) # Missing
    <3>1. /\ IF a = Missing THEN IsLast(L, key, new, row(i)) ELSE RightAfter(L, key, new, row(i), a)
          /\ a \in L \cup {Missing}
      <4>1. CASE \E j \in J : ItemAfter(items, i, j) /\ a = row(j)
        BY <1>4, <1>14, <1>22, <4>1
      <4>2. CASE LastItem(items, i) /\ a = old(tgt(i))
        <5>1. a # Missing => a \in L
          BY <1>23, <2>5, <4>2 DEF RightAfter
        <5> QED
          BY <1>23, <2>5, <4>2, <5>1
      <4> QED
        BY <2>3, <2>5, <4>1, <4>2
    <3>2. /\ IF b = Missing THEN IsFirst(L, key, new, row(i))
             ELSE b \in L /\ RightAfter(L, key, new, b, row(i))
          /\ b \in L \cup {Missing}
      <4>1. CASE \E j \in J : ItemAfter(items, j, i) /\ b = row(j)
        BY <1>4, <1>14, <1>22, <4>1
      <4>2. CASE FirstItem(items, i) /\ b = Missing
        BY <1>24, <4>2
      <4> QED
        BY <2>3, <2>5, <4>1, <4>2
    <3>3. RowLinked(L, key, new, row(i), a, b)
      BY <1>14, <2>5, <3>1, <3>2 DEF RowLinked
    <3> QED
      BY <3>1, <3>2, <3>3 DEF a, b
  <2> QED
    BY <2>4, <2>5
<1>26. ASSUME NEW x \in K
       PROVE  /\ RowLinked(L, key, new, x, d.nxt[x], d.prv[x])
              /\ d.nxt[x] \in L \cup {Missing} /\ d.prv[x] \in L \cup {Missing}
  <2> DEFINE a == d.nxt[x]
             b == d.prv[x]
  <2>1. x \notin R /\ x \in L
    BY <1>4, <1>15
  <2>2. a = PatchedAt(c.nxt, q.nxt, x)
    BY <1>2, <1>3, <1>7, <2>1 DEF PatchedAt
  <2>3. \/ x \in DOMAIN s.prv /\ b = s.prv[x]
        \/ x \notin DOMAIN s.prv /\ b = PatchedAt(c.prv, q.prv, x)
    BY <1>2, <1>3, <2>1 DEF PatchedAt
  <2>4. /\ \A u \in I : u \notin dead => u \in K
        /\ \A u \in K : u \in I /\ u \notin dead
    BY DEF K
  <2>5. x \in DOMAIN s.prv <=> \E i \in J : tgt(i) # Missing /\ x = old(tgt(i))
    <3>1. x # Missing
      BY <1>4
    <3> QED
      BY <1>7, <2>1, <3>1
  <2>6. ASSUME NEW i \in J, tgt(i) # Missing, x = old(tgt(i))
        PROVE  /\ key[x] = tgt(i)
               /\ b \in L /\ RightAfter(L, key, new, b, x)
    <3>1. x # Missing /\ key[x] = tgt(i)
      BY <1>4, <1>9, <1>15, <2>6 DEF AliveFirst
    <3>2. PICK j \in J : tgt(j) = tgt(i) /\ LastItem(items, j)
      BY <1>13, <2>6
    <3>3. s.prv[x] = row(j)
      BY <1>8, <2>6, <3>1, <3>2
    <3>4. b = row(j)
      BY <2>3, <2>5, <2>6, <3>3
    <3>5. RightAfter(L, key, new, row(j), x)
      BY <1>23, <2>6, <3>1, <3>2
    <3> QED
      BY <1>14, <3>1, <3>4, <3>5
  <2> HIDE DEF a, b
  <2>7. CASE key[x] = Missing
    <3>1. a = Missing
      BY <1>10, <1>15, <2>2, <2>7
    <3>2. x \notin DOMAIN s.prv
      BY <2>5, <2>6, <2>7
    <3>3. b = Missing
      BY <1>10, <1>15, <2>3, <2>7, <3>2
    <3> HIDE DEF key
    <3>4. RowLinked(L, key, new, x, a, b)
      BY <2>7, <3>1, <3>3 DEF RowLinked
    <3> QED
      BY <3>1, <3>3, <3>4 DEF a, b
  <2>8. CASE key[x] # Missing
    <3> HIDE DEF key
    <3>1. AliveAfter(I, c.fk, ord, dead, x, a)
      BY <1>10, <1>15, <2>2, <2>8
    <3>2. IF a = Missing THEN IsLast(L, key, new, x) ELSE RightAfter(L, key, new, x, a)
      BY <1>20, <2>8, <3>1
    <3>3. a \in L \cup {Missing}
      BY <3>2 DEF RightAfter
    <3>4. IF b = Missing THEN IsFirst(L, key, new, x)
          ELSE b \in L /\ RightAfter(L, key, new, b, x)
      <4>1. CASE x \in DOMAIN s.prv
        <5>1. b \in L /\ RightAfter(L, key, new, b, x)
          BY <2>5, <2>6, <4>1
        <5>2. b # Missing
          BY <1>4, <1>12, <5>1
        <5> QED
          BY <5>1, <5>2
      <4>2. CASE x \notin DOMAIN s.prv
        <5>1. AliveBefore(I, c.fk, ord, dead, x, b)
          BY <1>10, <1>15, <2>3, <2>8, <4>2
        <5>2. ASSUME b = Missing, NEW i \in J, tgt(i) = key[x] PROVE FALSE
          <6>1. AliveFirst(I, c.fk, ord, dead, tgt(i), old(tgt(i)))
            BY <1>9, <2>8, <5>2
          <6>2. \A u \in K : key[u] = key[x] => ~(ord[u] < ord[x])
            BY <1>15, <2>4, <5>1, <5>2 DEF AliveBefore
          <6> DEFINE h == old(tgt(i))
          <6>3. h # Missing
            BY <1>15, <2>4, <5>2, <6>1 DEF AliveFirst
          <6>4. h \in K /\ key[h] = key[x] /\ ~(ord[x] < ord[h])
            BY <1>15, <2>4, <5>2, <6>1, <6>3 DEF AliveFirst
          <6> HIDE DEF h
          <6>5. ord[h] = ord[x]
            BY <1>15, <6>2, <6>4
          <6>6. h = x
            BY <1>1, <1>15, <2>4, <2>8, <6>4, <6>5
          <6> QED
            BY <2>5, <2>8, <4>2, <5>2, <6>6 DEF h
        <5> QED
          BY <1>21, <2>8, <5>1, <5>2
      <4> QED
        BY <4>1, <4>2
    <3>5. RowLinked(L, key, new, x, a, b)
      BY <2>8, <3>2, <3>4 DEF RowLinked
    <3> QED
      BY <3>3, <3>4, <3>5 DEF a, b
  <2> QED
    BY <2>7, <2>8
<1>27. ASSUME NEW t \in LT
       PROVE  HeadIs(L, key, new, t, d.head[t]) /\ d.head[t] \in L \cup {Missing}
  <2> DEFINE h == d.head[t]
  <2>1. t # Missing
    OBVIOUS
  <2>2. h = IF t \in DOMAIN p.head THEN p.head[t] ELSE IF t \in T THEN c.head[t] ELSE Missing
    BY <1>3
  <2>3. t \in DOMAIN s.head <=> \E i \in J : tgt(i) = t
    BY <1>7, <2>1
  <2> HIDE DEF h, key
  <2>4. CASE \E i \in J : tgt(i) = t
    <3>1. PICK i \in J : tgt(i) = t /\ FirstItem(items, i)
      BY <1>13, <2>1, <2>4
    <3>2. h = row(i)
      BY <1>2, <1>8, <2>1, <2>2, <2>3, <2>4, <3>1
    <3> QED
      BY <1>4, <1>14, <1>24, <3>1, <3>2 DEF HeadIs, h
  <2>5. CASE \A i \in J : tgt(i) # t
    <3>1. t \notin DOMAIN s.head /\ t \notin ignore
      BY <1>4, <2>3, <2>5
    <3>2. h = IF t \in T THEN PatchedAt(c.head, q.head, t) ELSE Missing
      BY <1>2, <1>10, <2>2, <3>1 DEF PatchedAt
    <3>3. /\ \A u \in I : u \notin dead => u \in K
          /\ \A u \in K : u \in I /\ u \notin dead
      BY DEF K
    <3>4. CASE h = Missing
      <4>1. \A u \in K : key[u] # t
        <5>1. CASE t \in T
          <6>1. AliveFirst(I, c.fk, ord, dead, t, h)
            BY <1>10, <3>1, <3>2, <5>1
          <6> QED
            BY <1>15, <3>3, <3>4, <6>1 DEF AliveFirst
        <5>2. CASE t \notin T
          BY <1>1, <1>15, <2>1, <3>3, <5>2
        <5> QED
          BY <5>1, <5>2
      <4> QED
        BY <1>12, <1>14, <2>5, <3>4, <4>1 DEF HeadIs, h
    <3>5. CASE h # Missing
      <4>1. AliveFirst(I, c.fk, ord, dead, t, h)
        BY <1>10, <3>1, <3>2, <3>5
      <4>2. h \in K /\ key[h] = t
        BY <1>15, <3>3, <3>5, <4>1 DEF AliveFirst
      <4>3. ASSUME NEW u \in K, key[u] = t PROVE new[h] <= new[u]
        <5>1. ~(ord[u] < ord[h])
          BY <1>15, <3>3, <3>5, <4>1, <4>3 DEF AliveFirst
        <5> QED
          BY <1>17, <1>18, <3>3, <4>2, <5>1
      <4>4. IsFirst(L, key, new, h)
        BY <1>12, <1>14, <2>5, <4>2, <4>3 DEF IsFirst
      <4> QED
        BY <1>15, <3>5, <4>2, <4>4 DEF HeadIs, h
    <3> QED
      BY <3>4, <3>5
  <2> QED
    BY <2>4, <2>5
<1>28. Columns(L, LT, d)
  <2>1. Missing \notin L
    BY <1>4, <1>12
  <2>2. \A x \in L : d.fk[x] \in LT \cup {Missing}
    BY <1>4, <1>12, <1>14, <1>15
  <2>3. \A x \in L : d.nxt[x] \in L \cup {Missing} /\ d.prv[x] \in L \cup {Missing}
    BY <1>12, <1>25, <1>26
  <2> QED
    BY <1>3, <1>27, <2>1, <2>2, <2>3 DEF Columns
<1>29. Ordered(L, d.fk, new)
  <2>1. ASSUME NEW x \in L, NEW y \in L, key[x] = key[y], key[x] # Missing, new[x] = new[y]
        PROVE  x = y
    <3>1. CASE x \in K /\ y \in K
      <4>1. ord[x] = ord[y]
        BY <1>11, <1>15, <2>1, <3>1
      <4>2. x \in I /\ y \in I
        BY <3>1 DEF K
      <4> QED
        BY <1>1, <1>15, <2>1, <3>1, <4>1, <4>2
    <3>2. CASE x \in K /\ \E j \in J : y = row(j)
      BY <1>16, <1>17, <2>1, <3>2
    <3>3. CASE y \in K /\ \E j \in J : x = row(j)
      BY <1>16, <1>17, <2>1, <3>3
    <3>4. CASE (\E j \in J : x = row(j)) /\ (\E j \in J : y = row(j))
      BY <1>14, <2>1, <3>4
    <3> QED
      BY <1>12, <3>1, <3>2, <3>3, <3>4
  <2> QED
    BY <1>17, <2>1 DEF Ordered
<1>30. \A x \in L : RowLinked(L, d.fk, new, x, d.nxt[x], d.prv[x])
  BY <1>12, <1>25, <1>26
<1>31. Linked(L, LT, d, new)
  BY <1>27, <1>28, <1>29, <1>30 DEF Linked
<1> QED
  BY <1>31

\* What a patch writes, rows being those of its items: what it leaves alone is
\* neither gone nor moved.
Leaves(I, T, c, dead, moved, rows, LT, p) ==
  LET stays == (I \ dead) \ moved
  IN  /\ rows \subseteq DOMAIN p.nxt /\ rows \subseteq DOMAIN p.prv
      /\ DOMAIN p.nxt \subseteq I \cup rows /\ DOMAIN p.prv \subseteq I \cup rows
      /\ DOMAIN p.head \subseteq T \cup LT
      /\ \A x \in dead \ rows : /\ x \in DOMAIN p.nxt => c.nxt[x] \in moved
                                /\ x \in DOMAIN p.prv => c.prv[x] \in moved
      /\ \A x \in I \ dead : /\ x \notin DOMAIN p.nxt => c.nxt[x] \in stays \cup {Missing}
                             /\ x \notin DOMAIN p.prv => c.prv[x] \in stays \cup {Missing}
      /\ \A t \in LT \cap T : t \notin DOMAIN p.head => c.head[t] \in stays \cup {Missing}

LEMMA PatchLeaves ==
  ASSUME NEW I, NEW T, NEW c, NEW ord, NEW dead, NEW moved, NEW ignore, NEW q, NEW n,
         NEW items, NEW s, NEW LT,
         SplicedAfterKept(I, T, c, ord, dead, moved, ignore, q, n, items, s, LT)
  PROVE  Leaves(I, T, c, dead, moved, {items[i].row : i \in 1 .. n}, LT, ThenPatch(q, s))
<1> DEFINE J == 1 .. n
           rows == {items[i].row : i \in J}
           stays == (I \ dead) \ moved
           p == ThenPatch(q, s)
<1>1. /\ KeptLinks(I, T, c, ord, dead, moved, ignore, q)
      /\ SplicedLinks(c, items, dead, s) /\ DOMAIN items = J
      /\ \A i \in J : items[i].target \in LT \cup {Missing}
      /\ \A t \in ignore \cap LT : \E i \in J : items[i].target = t
      /\ Linked(I, T, c, ord) /\ IsFiniteSet(I) /\ dead \in SUBSET I /\ Missing \notin LT
      /\ \A i \in J : items[i].row \notin I \ dead
  BY DEF SplicedAfterKept
<1> HIDE DEF J
<1>2. /\ DOMAIN p.nxt = DOMAIN q.nxt \cup DOMAIN s.nxt
      /\ DOMAIN p.prv = DOMAIN q.prv \cup DOMAIN s.prv
      /\ DOMAIN p.head = DOMAIN q.head \cup DOMAIN s.head
  BY DEF ThenPatch, Then
<1> HIDE DEF p
<1>3. /\ DOMAIN s.nxt = {items[i].row : i \in J}
      /\ DOMAIN s.prv = {items[i].row : i \in J}
                          \cup ({OldHead(c, items[i].target, dead) :
                                   i \in {k \in J : items[k].target # Missing}} \ {Missing})
      /\ DOMAIN s.head = {items[i].target : i \in J} \ {Missing}
  BY <1>1 DEF SplicedLinks
<1>4. \A t : t # Missing => OldHead(c, t, dead) \in (I \ dead) \cup {Missing}
  BY <1>1, OldHeadIs DEF AliveFirst
<1>5. /\ DOMAIN q.nxt \subseteq I /\ DOMAIN q.prv \subseteq I /\ DOMAIN q.head \subseteq T
      /\ \A x \in dead : /\ x \in DOMAIN q.nxt => c.nxt[x] \in moved
                         /\ x \in DOMAIN q.prv => c.prv[x] \in moved
      /\ \A x \in I \ dead :
           /\ c.fk[x] = Missing => PatchedAt(c.nxt, q.nxt, x) = Missing
                                   /\ PatchedAt(c.prv, q.prv, x) = Missing
           /\ c.fk[x] # Missing =>
                /\ AliveAfter(I, c.fk, ord, dead, x, PatchedAt(c.nxt, q.nxt, x))
                /\ AliveBefore(I, c.fk, ord, dead, x, PatchedAt(c.prv, q.prv, x))
           /\ x \notin DOMAIN q.nxt => c.nxt[x] \notin moved
           /\ x \notin DOMAIN q.prv => c.prv[x] \notin moved
      /\ \A t \in T \ ignore :
           /\ AliveFirst(I, c.fk, ord, dead, t, PatchedAt(c.head, q.head, t))
           /\ t \notin DOMAIN q.head => c.head[t] \notin moved
  BY <1>1 DEF KeptLinks
<1>6. /\ rows \subseteq DOMAIN p.nxt /\ rows \subseteq DOMAIN p.prv
      /\ DOMAIN p.nxt = DOMAIN q.nxt \cup rows
      /\ DOMAIN p.prv \subseteq DOMAIN q.prv \cup rows \cup (I \ dead)
      /\ DOMAIN p.head \subseteq T \cup LT
  <2>1. \A i \in J : items[i].target # Missing =>
          OldHead(c, items[i].target, dead) \in (I \ dead) \cup {Missing}
    BY <1>4
  <2>2. DOMAIN s.prv \subseteq rows \cup (I \ dead)
    BY <1>3, <2>1
  <2>3. DOMAIN s.head \subseteq LT
    BY <1>1, <1>3
  <2> QED
    BY <1>2, <1>3, <1>5, <2>2, <2>3
<1>7. ASSUME NEW x \in I \ dead, x \notin DOMAIN p.nxt
      PROVE  c.nxt[x] \in stays \cup {Missing}
  <2>1. x \notin DOMAIN q.nxt
    BY <1>2, <1>7
  <2>2. c.nxt[x] \notin moved /\ PatchedAt(c.nxt, q.nxt, x) = c.nxt[x]
    BY <1>5, <2>1 DEF PatchedAt
  <2>3. c.nxt[x] = Missing \/ c.nxt[x] \in I \ dead
    BY <1>5, <2>1, <2>2 DEF AliveAfter
  <2> QED
    BY <2>2, <2>3
<1>8. ASSUME NEW x \in I \ dead, x \notin DOMAIN p.prv
      PROVE  c.prv[x] \in stays \cup {Missing}
  <2>1. x \notin DOMAIN q.prv
    BY <1>2, <1>8
  <2>2. c.prv[x] \notin moved /\ PatchedAt(c.prv, q.prv, x) = c.prv[x]
    BY <1>5, <2>1 DEF PatchedAt
  <2>3. c.prv[x] = Missing \/ c.prv[x] \in I \ dead
    BY <1>5, <2>1, <2>2 DEF AliveBefore
  <2> QED
    BY <2>2, <2>3
<1>9. ASSUME NEW t \in LT \cap T, t \notin DOMAIN p.head
      PROVE  c.head[t] \in stays \cup {Missing}
  <2>1. t \notin ignore /\ t \notin DOMAIN q.head
    BY <1>1, <1>2, <1>3, <1>9
  <2>2. c.head[t] \notin moved /\ PatchedAt(c.head, q.head, t) = c.head[t]
        /\ AliveFirst(I, c.fk, ord, dead, t, PatchedAt(c.head, q.head, t))
    BY <1>5, <2>1 DEF PatchedAt
  <2>3. c.head[t] = Missing \/ c.head[t] \in I \ dead
    BY <2>2 DEF AliveFirst
  <2> QED
    BY <2>2, <2>3
<1>10. \A x \in dead \ rows : /\ x \in DOMAIN p.nxt => c.nxt[x] \in moved
                              /\ x \in DOMAIN p.prv => c.prv[x] \in moved
  BY <1>1, <1>5, <1>6
<1>11. DOMAIN p.nxt \subseteq I \cup rows /\ DOMAIN p.prv \subseteq I \cup rows
  BY <1>5, <1>6
<1> QED
  BY <1>6, <1>7, <1>8, <1>9, <1>10, <1>11 DEF Leaves, J, p

(***************************************************************************)
(* Renumbering.                                                            *)
(***************************************************************************)
\* r numbers the elements of S by those of N, one each.
Numbers(r, S, N) ==
  /\ r \in [S -> N]
  /\ \A x, y \in S : r[x] = r[y] => x = y
  /\ \A p \in N : \E x \in S : r[x] = p

\* Where an index, perhaps absent, goes.
To(r, x) == IF x = Missing THEN Missing ELSE r[x]

\* Columns e say of the new indices what columns d say of the old ones.
RenumberedColumns(L, LT, d, I, T, e, r, rt) ==
  /\ DOMAIN e.fk = I /\ DOMAIN e.nxt = I /\ DOMAIN e.prv = I /\ DOMAIN e.head = T
  /\ \A x \in L : /\ e.fk[r[x]] = To(rt, d.fk[x])
                  /\ e.nxt[r[x]] = To(r, d.nxt[x])
                  /\ e.prv[r[x]] = To(r, d.prv[x])
  /\ \A t \in LT : e.head[rt[t]] = To(r, d.head[t])

\* Linked lists stay linked when their rows and targets are renumbered.
LEMMA RenumberedLinks ==
  ASSUME NEW L, NEW LT, NEW d, NEW new, Linked(L, LT, d, new),
         NEW I, NEW T, Missing \notin I, Missing \notin T,
         NEW r, Numbers(r, L, I), NEW rt, Numbers(rt, LT, T),
         NEW e, RenumberedColumns(L, LT, d, I, T, e, r, rt)
  PROVE  \E ord : Linked(I, T, e, ord)
<1> DEFINE back(i) == CHOOSE x \in L : r[x] = i
           ord == [i \in I |-> new[back(i)]]
<1>1. ASSUME NEW i \in I PROVE back(i) \in L /\ r[back(i)] = i
  BY DEF Numbers
<1>2. ASSUME NEW x \in L PROVE r[x] \in I /\ back(r[x]) = x
  <2>1. r[x] \in I
    BY DEF Numbers
  <2> QED
    BY <1>1, <2>1 DEF Numbers
<1>3. /\ \A i \in I : ord[i] = new[back(i)]
      /\ \A x \in L : ord[r[x]] = new[x]
  BY <1>2
<1> HIDE DEF back, ord
<1>4. /\ Missing \notin L /\ Missing \notin LT
      /\ \A x \in L : /\ d.fk[x] \in LT \cup {Missing}
                      /\ d.nxt[x] \in L \cup {Missing}
                      /\ d.prv[x] \in L \cup {Missing}
      /\ \A t \in LT : d.head[t] \in L \cup {Missing}
  BY DEF Linked, Columns
<1>5. /\ \A t \in LT : rt[t] \in T
      /\ \A t, u \in LT : rt[t] = rt[u] => t = u
      /\ \A t \in T : \E u \in LT : rt[u] = t
      /\ \A x, y \in L : r[x] = r[y] => x = y
      /\ \A t \in LT : rt[t] # Missing
      /\ \A x \in L : r[x] # Missing
  BY <1>2 DEF Numbers
<1>6. /\ DOMAIN e.fk = I /\ DOMAIN e.nxt = I /\ DOMAIN e.prv = I /\ DOMAIN e.head = T
      /\ \A x \in L : /\ e.fk[r[x]] = To(rt, d.fk[x])
                      /\ e.nxt[r[x]] = To(r, d.nxt[x])
                      /\ e.prv[r[x]] = To(r, d.prv[x])
      /\ \A t \in LT : e.head[rt[t]] = To(r, d.head[t])
  BY DEF RenumberedColumns
<1>7. \A x, y \in L : e.fk[r[x]] = e.fk[r[y]] <=> d.fk[x] = d.fk[y]
  BY <1>4, <1>5, <1>6 DEF To
<1>8. \A x \in L : \A t \in LT : e.fk[r[x]] = rt[t] <=> d.fk[x] = t
  BY <1>4, <1>5, <1>6 DEF To
<1>9. \A x \in L : e.fk[r[x]] = Missing <=> d.fk[x] = Missing
  BY <1>4, <1>5, <1>6 DEF To
<1>10. \A i \in I : \E x \in L : i = r[x]
  BY <1>1
<1>11. Columns(I, T, e)
  <2>1. ASSUME NEW i \in I
        PROVE  /\ e.fk[i] \in T \cup {Missing}
               /\ e.nxt[i] \in I \cup {Missing}
               /\ e.prv[i] \in I \cup {Missing}
    <3>1. PICK x \in L : i = r[x]
      BY <1>10
    <3> QED
      BY <1>2, <1>4, <1>5, <1>6, <3>1 DEF To
  <2>2. ASSUME NEW t \in T PROVE e.head[t] \in I \cup {Missing}
    <3>1. PICK u \in LT : rt[u] = t
      BY <1>5
    <3> QED
      BY <1>2, <1>4, <1>6, <3>1 DEF To
  <2> QED
    BY <1>6, <2>1, <2>2 DEF Columns
<1>12. Ordered(I, e.fk, ord)
  <2>1. \A x \in L : new[x] \in Nat
    BY DEF Linked, Ordered
  <2>2. ASSUME NEW i \in I, NEW j \in I, e.fk[i] = e.fk[j], e.fk[i] # Missing, ord[i] = ord[j]
        PROVE  i = j
    <3>1. PICK x \in L : i = r[x]
      BY <1>10
    <3>2. PICK y \in L : j = r[y]
      BY <1>10
    <3>3. d.fk[x] = d.fk[y] /\ d.fk[x] # Missing /\ new[x] = new[y]
      BY <1>3, <1>7, <1>9, <2>2, <3>1, <3>2
    <3>4. x = y
      BY <3>3 DEF Linked, Ordered
    <3> QED
      BY <3>1, <3>2, <3>4
  <2> QED
    BY <1>1, <1>3, <2>1, <2>2 DEF Ordered
<1>13. ASSUME NEW x \in L
       PROVE  /\ IsLast(L, d.fk, new, x) => IsLast(I, e.fk, ord, r[x])
              /\ IsFirst(L, d.fk, new, x) => IsFirst(I, e.fk, ord, r[x])
              /\ \A y \in L : RightAfter(L, d.fk, new, x, y) => RightAfter(I, e.fk, ord, r[x], r[y])
  <2>1. IsLast(L, d.fk, new, x) => IsLast(I, e.fk, ord, r[x])
    BY <1>3, <1>7, <1>10 DEF IsLast
  <2>2. IsFirst(L, d.fk, new, x) => IsFirst(I, e.fk, ord, r[x])
    BY <1>3, <1>7, <1>10 DEF IsFirst
  <2>3. ASSUME NEW y \in L, RightAfter(L, d.fk, new, x, y)
        PROVE  RightAfter(I, e.fk, ord, r[x], r[y])
    BY <1>2, <1>3, <1>7, <1>10, <2>3 DEF RightAfter
  <2> QED
    BY <2>1, <2>2, <2>3
<1>14. ASSUME NEW i \in I PROVE RowLinked(I, e.fk, ord, i, e.nxt[i], e.prv[i])
  <2>1. PICK x \in L : i = r[x]
    BY <1>10
  <2>2. /\ RowLinked(L, d.fk, new, x, d.nxt[x], d.prv[x])
        /\ e.nxt[i] = To(r, d.nxt[x]) /\ e.prv[i] = To(r, d.prv[x])
    BY <1>6, <2>1 DEF Linked
  <2>3. CASE d.fk[x] = Missing
    BY <1>9, <2>1, <2>2, <2>3 DEF RowLinked, To
  <2>4. CASE d.fk[x] # Missing
    <3>1. IF e.nxt[i] = Missing THEN IsLast(I, e.fk, ord, i)
          ELSE RightAfter(I, e.fk, ord, i, e.nxt[i])
      <4>1. CASE d.nxt[x] = Missing
        BY <1>13, <2>1, <2>2, <2>4, <4>1 DEF RowLinked, To
      <4>2. CASE d.nxt[x] # Missing
        <5>1. d.nxt[x] \in L /\ RightAfter(L, d.fk, new, x, d.nxt[x]) /\ e.nxt[i] = r[d.nxt[x]]
          BY <1>4, <2>2, <2>4, <4>2 DEF RowLinked, To
        <5> QED
          BY <1>5, <1>13, <2>1, <5>1
      <4> QED
        BY <4>1, <4>2
    <3>2. IF e.prv[i] = Missing THEN IsFirst(I, e.fk, ord, i)
          ELSE e.prv[i] \in I /\ RightAfter(I, e.fk, ord, e.prv[i], i)
      <4>1. CASE d.prv[x] = Missing
        BY <1>13, <2>1, <2>2, <2>4, <4>1 DEF RowLinked, To
      <4>2. CASE d.prv[x] # Missing
        <5>1. d.prv[x] \in L /\ RightAfter(L, d.fk, new, d.prv[x], x) /\ e.prv[i] = r[d.prv[x]]
          BY <1>4, <2>2, <2>4, <4>2 DEF RowLinked, To
        <5> QED
          BY <1>2, <1>5, <1>13, <2>1, <5>1
      <4> QED
        BY <4>1, <4>2
    <3> QED
      BY <1>9, <2>1, <2>4, <3>1, <3>2 DEF RowLinked
  <2> QED
    BY <2>3, <2>4
<1>15. ASSUME NEW t \in T PROVE HeadIs(I, e.fk, ord, t, e.head[t])
  <2>1. PICK u \in LT : rt[u] = t
    BY <1>5
  <2>2. HeadIs(L, d.fk, new, u, d.head[u]) /\ e.head[t] = To(r, d.head[u])
    BY <1>6, <2>1 DEF Linked
  <2>3. CASE d.head[u] = Missing
    BY <1>8, <1>10, <2>1, <2>2, <2>3 DEF HeadIs, To
  <2>4. CASE d.head[u] # Missing
    <3>1. d.head[u] \in L /\ d.fk[d.head[u]] = u /\ IsFirst(L, d.fk, new, d.head[u])
      BY <2>2, <2>4 DEF HeadIs
    <3>2. e.head[t] = r[d.head[u]]
      BY <2>2, <2>4 DEF To
    <3>3. e.fk[e.head[t]] = t /\ IsFirst(I, e.fk, ord, e.head[t])
      BY <1>8, <1>13, <2>1, <3>1, <3>2
    <3> QED
      BY <1>2, <1>5, <3>1, <3>2, <3>3 DEF HeadIs
  <2> QED
    BY <2>3, <2>4
<1>16. Linked(I, T, e, ord)
  BY <1>11, <1>12, <1>14, <1>15 DEF Linked
<1> QED
  BY <1>16

\* As many elements as a finite set has, one for each.
LEMMA SameCount ==
  ASSUME NEW A, IsFiniteSet(A), NEW B, NEW m \in [A -> B],
         \A x, y \in A : m[x] = m[y] => x = y, \A p \in B : \E x \in A : m[x] = p
  PROVE  IsFiniteSet(B) /\ Cardinality(B) = Cardinality(A)
<1>1. m \in Injection(A, B)
  BY DEF Injection, IsInjective
<1>2. m \in Surjection(A, B)
  BY DEF Surjection
<1>3. ExistsBijection(A, B)
  BY <1>1, <1>2 DEF ExistsBijection, Bijection
<1> QED
  BY <1>3, FS_Bijection

\* A target has as many rows after renumbering as before.
LEMMA RenumberedRows ==
  ASSUME NEW L, IsFiniteSet(L), NEW LT, NEW d, \A x \in L : d.fk[x] \in LT \cup {Missing},
         Missing \notin LT,
         NEW I, NEW T, Missing \notin T,
         NEW r, Numbers(r, L, I), NEW rt, Numbers(rt, LT, T),
         NEW e, RenumberedColumns(L, LT, d, I, T, e, r, rt), NEW t \in LT
  PROVE  /\ IsFiniteSet(RowsTo(I, e.fk, rt[t])) /\ IsFiniteSet(RowsTo(L, d.fk, t))
         /\ Cardinality(RowsTo(I, e.fk, rt[t])) = Cardinality(RowsTo(L, d.fk, t))
<1> DEFINE A == RowsTo(L, d.fk, t)
           B == RowsTo(I, e.fk, rt[t])
           m == [x \in A |-> r[x]]
<1>1. \A x \in L : e.fk[r[x]] = rt[t] <=> d.fk[x] = t
  BY DEF RenumberedColumns, Numbers, To
<1>2. A \subseteq L /\ IsFiniteSet(A)
  <2>1. A \subseteq L
    BY DEF RowsTo
  <2> HIDE DEF A
  <2> QED
    BY <2>1, FS_Subset
<1>3. \A x \in A : r[x] \in B
  BY <1>1 DEF RowsTo, Numbers
<1>4. \A p \in B : \E x \in A : r[x] = p
  BY <1>1 DEF RowsTo, Numbers
<1>5. \A x, y \in A : r[x] = r[y] => x = y
  BY <1>2 DEF Numbers
<1> HIDE DEF A, B
<1>6. m \in [A -> B] /\ \A x \in A : m[x] = r[x]
  BY <1>3
<1> HIDE DEF m
<1>7. IsFiniteSet(B) /\ Cardinality(B) = Cardinality(A)
  BY <1>2, <1>4, <1>5, <1>6, SameCount
<1> QED
  BY <1>2, <1>7 DEF A, B

\* The writes v are those of w to the ids of L, in the indices of the oracles.
AreTranslated(v, w, ko, vo, L) ==
  /\ DOMAIN v = {Resolve(ko, i) : i \in L \cap DOMAIN w}
  /\ \A i \in L \cap DOMAIN w : v[Resolve(ko, i)] = Resolve(vo, w[i])

\* Writes translated through an oracle whose live ids are L: a write to any
\* other id is dropped.
LEMMA TranslatedWrites ==
  ASSUME NEW ko, NEW vo, NEW L,
         \A x, y \in L : Resolve(ko, x) = Resolve(ko, y) => x = y,
         \A x \in L : Resolve(ko, x) # Missing,
         NEW w, \A i \in DOMAIN w : i \in L \/ Resolve(ko, i) = Missing
  PROVE  AreTranslated(TranslateWrites(w, ko, vo), w, ko, vo, L)
<1> DEFINE S == L \cap DOMAIN w
           key(i) == Resolve(ko, i)
           v == TranslateWrites(w, ko, vo)
<1>1. v = [p \in {key(i) : i \in S} |-> Resolve(vo, w[CHOOSE i \in S : key(i) = p])]
  <2>1. S = {i \in DOMAIN w : Resolve(ko, i) # Missing}
    OBVIOUS
  <2> HIDE DEF S
  <2> QED
    BY <2>1 DEF TranslateWrites, Writes
<1>2. \A i, j \in S : key(i) = key(j) => i = j
  OBVIOUS
<1> HIDE DEF S, key, v
<1>3. ASSUME NEW i \in S PROVE v[key(i)] = Resolve(vo, w[i])
  <2>1. (CHOOSE j \in S : key(j) = key(i)) = i
    BY <1>2
  <2> QED
    BY <1>1, <2>1
<1> QED
  BY <1>1, <1>3 DEF S, key, v, AreTranslated

\* Columns c whose keys to the targets that moved are stale, and whose links
\* are those of e: FixMovedTargets makes them e's.
LEMMA FixedTargets ==
  ASSUME NEW I, NEW T, NEW e, NEW ord, Linked(I, T, e, ord), IsFiniteSet(I),
         NEW c, c = [fk |-> c.fk, nxt |-> e.nxt, prv |-> e.prv, head |-> e.head, cnt |-> c.cnt],
         DOMAIN c.fk = I, e.fk = [x \in I |-> e.fk[x]], e.prv = [x \in I |-> e.prv[x]],
         NEW movedTo \in SUBSET T,
         \A x \in I : e.fk[x] \notin movedTo => c.fk[x] = e.fk[x]
  PROVE  FixMovedTargets(c, movedTo)
           = [fk |-> e.fk, nxt |-> e.nxt, prv |-> e.prv, head |-> e.head, cnt |-> c.cnt]
<1> DEFINE chain(t) == Reached(c.nxt, c.head[t], Cardinality(DOMAIN c.nxt))
           hits == {t \in movedTo : c.head[t] # Missing}
           owner(x) == {t \in hits : x \in chain(t)}
           keys == [x \in I |-> IF owner(x) # {} THEN CHOOSE t \in owner(x) : TRUE ELSE c.fk[x]]
           prevs == [x \in I |-> IF \E t \in hits : c.head[t] = x THEN Missing ELSE c.prv[x]]
<1>1. /\ Missing \notin I /\ Missing \notin T
      /\ DOMAIN e.nxt = I /\ DOMAIN e.prv = I
      /\ \A t \in T : HeadIs(I, e.fk, ord, t, e.head[t])
      /\ c.nxt = e.nxt /\ c.prv = e.prv /\ c.head = e.head
      /\ \A x \in I : e.fk[x] \in T \cup {Missing}
  BY DEF Linked, Columns
<1>2. FixMovedTargets(c, movedTo)
        = [fk |-> keys, nxt |-> e.nxt, prv |-> prevs, head |-> e.head, cnt |-> c.cnt]
  <2>1. DOMAIN c.fk = I /\ DOMAIN c.prv = I
    BY <1>1
  <2>2. FixMovedTargets(c, movedTo) = [c EXCEPT !.fk = keys, !.prv = prevs]
    BY <2>1 DEF FixMovedTargets
  <2> HIDE DEF keys, prevs
  <2> QED
    BY <1>1, <2>2
<1>3. ASSUME NEW t \in T PROVE chain(t) = RowsTo(I, e.fk, t)
  <2>1. RowsTo(I, e.fk, t) \subseteq I
    BY DEF RowsTo
  <2>2. /\ Cardinality(I) \in Nat /\ Cardinality(RowsTo(I, e.fk, t)) <= Cardinality(I)
    BY <2>1, FS_Subset, FS_CardinalityType
  <2>3. Reached(e.nxt, e.head[t], Cardinality(I)) = RowsTo(I, e.fk, t)
    BY <2>2, WalkFindsRows
  <2> QED
    BY <1>1, <2>3
<1> HIDE DEF chain
<1>4. ASSUME NEW x \in I PROVE keys[x] = e.fk[x]
  <2>1. \A t \in owner(x) : t = e.fk[x]
    BY <1>3 DEF RowsTo
  <2>2. CASE e.fk[x] \in movedTo
    <3>1. e.fk[x] \in T
      BY <2>2
    <3>2. e.head[e.fk[x]] # Missing
      BY <1>1, <3>1 DEF HeadIs
    <3>3. e.fk[x] \in hits /\ x \in chain(e.fk[x])
      BY <1>1, <1>3, <2>2, <3>1, <3>2 DEF RowsTo
    <3>4. e.fk[x] \in owner(x)
      BY <3>3
    <3> HIDE DEF owner
    <3> QED
      BY <2>1, <3>4
  <2>3. CASE e.fk[x] \notin movedTo
    <3>1. owner(x) = {}
      BY <2>1, <2>3
    <3> HIDE DEF owner
    <3> QED
      BY <2>3, <3>1
  <2> QED
    BY <2>2, <2>3
<1>5. ASSUME NEW x \in I PROVE prevs[x] = e.prv[x]
  <2>1. ASSUME NEW t \in hits, c.head[t] = x PROVE e.prv[x] = Missing
    <3>1. t \in T /\ e.head[t] \in I
      BY <1>1, <2>1
    <3> QED
      BY <1>1, <2>1, <3>1, HeadsHaveNoPrevious
  <2> HIDE DEF hits
  <2> QED
    BY <1>1, <2>1
<1>6. keys = e.fk
  <2> HIDE DEF owner
  <2> QED
    BY <1>4
<1>7. prevs = e.prv
  <2> HIDE DEF hits
  <2> QED
    BY <1>5
<1> HIDE DEF keys, prevs
<1> QED
  BY <1>2, <1>6, <1>7

\* A number is what a multiple of m leaves of it, if that is below m.
LEMMA ModIs ==
  ASSUME NEW m \in Nat \ {0}, NEW x \in Int, NEW q \in Int, NEW n \in 0 .. m - 1,
         x = m * q + n
  PROVE  x % m = n
<1> DEFINE d == x \div m
           e == x % m
<1>1. d \in Int /\ e \in 0 .. m - 1 /\ x = m * d + e
  OBVIOUS
<1> HIDE DEF d, e
<1>2. m * (q - d) = e - n
  BY <1>1
<1>3. CASE q - d >= 1
  <2>1. m * (q - d) >= m
    BY <1>1, <1>3
  <2> QED
    BY <1>1, <1>2, <2>1
<1>4. CASE q - d <= -1
  <2>1. m * (q - d) <= -m
    BY <1>1, <1>4
  <2> QED
    BY <1>1, <1>2, <2>1
<1>5. CASE q - d = 0
  BY <1>1, <1>2, <1>5 DEF e
<1> QED
  BY <1>1, <1>3, <1>4, <1>5

\* The places of the items with target t.
ItemsTo(items, t) == {i \in DOMAIN items : items[i].target = t}

\* Items one after the other are as many as both.
LEMMA ItemsAdd ==
  ASSUME NEW n \in Nat, NEW m \in Nat, NEW a, NEW b, NEW ab, Follow(a, n, b, m, ab), NEW t
  PROVE  /\ IsFiniteSet(ItemsTo(a, t)) /\ IsFiniteSet(ItemsTo(b, t))
         /\ IsFiniteSet(ItemsTo(ab, t))
         /\ Cardinality(ItemsTo(ab, t)) = Cardinality(ItemsTo(a, t)) + Cardinality(ItemsTo(b, t))
<1> DEFINE A == ItemsTo(a, t)
           B == ItemsTo(b, t)
           C == {i \in ItemsTo(ab, t) : i > n}
           at(i) == n + i
           f == [i \in B |-> at(i)]
<1>1. /\ A \subseteq 1 .. n /\ B \subseteq 1 .. m /\ ItemsTo(ab, t) \subseteq 1 .. n + m
  BY DEF Follow, ItemsTo
<1>2. IsFiniteSet(A) /\ IsFiniteSet(B) /\ IsFiniteSet(ItemsTo(ab, t))
  <2>1. IsFiniteSet(1 .. n) /\ IsFiniteSet(1 .. m) /\ IsFiniteSet(1 .. n + m)
    BY FS_Interval
  <2> QED
    BY <1>1, <2>1, FS_Subset
<1>3. ItemsTo(ab, t) = A \cup C
  <2>1. \A i \in 1 .. n : i \in 1 .. n + m /\ ~(i > n) /\ ab[i] = a[i]
    BY DEF Follow
  <2>2. \A i \in 1 .. n + m : i > n \/ i \in 1 .. n
    OBVIOUS
  <2>3. DOMAIN a = 1 .. n /\ DOMAIN ab = 1 .. n + m
    BY DEF Follow
  <2> QED
    BY <2>1, <2>2, <2>3 DEF ItemsTo
<1>4. A \cap C = {}
  BY <1>1
<1>5. /\ \A i \in B : at(i) \in C
      /\ \A i \in C : \E j \in B : at(j) = i
      /\ \A i, j \in B : at(i) = at(j) => i = j
  <2>1. \A i \in 1 .. m : n + i \in 1 .. n + m /\ n + i > n /\ ab[n + i] = b[i]
    BY DEF Follow
  <2>2. \A i \in 1 .. n + m : i > n => i - n \in 1 .. m /\ n + (i - n) = i
    OBVIOUS
  <2>3. DOMAIN b = 1 .. m /\ DOMAIN ab = 1 .. n + m
    BY DEF Follow
  <2>4. ASSUME NEW i \in B PROVE at(i) \in C
    BY <2>1, <2>3 DEF ItemsTo
  <2>5. ASSUME NEW i \in C PROVE \E j \in B : at(j) = i
    <3>1. i \in 1 .. n + m /\ i > n /\ ab[i].target = t
      BY <2>3 DEF ItemsTo
    <3> DEFINE j == i - n
    <3>2. j \in 1 .. m /\ n + j = i
      BY <2>2, <3>1
    <3> HIDE DEF j
    <3>3. b[j].target = t
      BY <2>1, <3>1, <3>2
    <3>4. j \in B
      BY <2>3, <3>2, <3>3 DEF ItemsTo
    <3> QED
      BY <3>2, <3>4
  <2>6. \A i, j \in B : at(i) = at(j) => i = j
    BY <1>1
  <2> QED
    BY <2>4, <2>5, <2>6
<1>6. IsFiniteSet(C) /\ Cardinality(C) = Cardinality(B)
  <2> HIDE DEF A, B, C, at
  <2>1. f \in [B -> C] /\ \A i \in B : f[i] = at(i)
    BY <1>5
  <2>2. /\ \A i, j \in B : f[i] = f[j] => i = j
        /\ \A i \in C : \E j \in B : f[j] = i
    BY <1>5, <2>1
  <2> HIDE DEF f
  <2> QED
    BY <1>2, <2>1, <2>2, SameCount DEF B
<1> HIDE DEF A, B, C
<1>7. /\ Cardinality(A \cup C) = Cardinality(A) + Cardinality(C) - Cardinality(A \cap C)
      /\ Cardinality(A) \in Nat /\ Cardinality(C) \in Nat
  BY <1>2, <1>6, FS_Union, FS_CardinalityType DEF A
<1>8. Cardinality(A \cap C) = 0
  BY <1>4, FS_EmptySet
<1> QED
  BY <1>2, <1>3, <1>6, <1>7, <1>8 DEF A, B

\* The n items, all of different rows, that d has and the rows I \ dead have not.
ItemsPatched(I, T, c, dead, n, items, L, LT, d, p) ==
  /\ IsFiniteSet(I) /\ n \in Nat /\ DOMAIN items = 1 .. n
  /\ \A i, j \in 1 .. n : items[i].row = items[j].row => i = j
  /\ \A i \in 1 .. n : items[i].row \notin I \ dead
  /\ PatchedColumns(I, T, c, dead, items, L, LT, d, p)

\* A target has the rows that stay in its list and the items put into it.
LEMMA PatchedCount ==
  ASSUME NEW I, NEW T, NEW c, NEW dead, NEW n, NEW items, NEW L, NEW LT, NEW d, NEW p,
         ItemsPatched(I, T, c, dead, n, items, L, LT, d, p), NEW t
  PROVE  /\ IsFiniteSet(RowsTo(I, c.fk, t) \cap dead) /\ IsFiniteSet(RowsTo(I, c.fk, t))
         /\ Cardinality(RowsTo(L, d.fk, t))
              = Cardinality(RowsTo(I, c.fk, t)) - Cardinality(RowsTo(I, c.fk, t) \cap dead)
                  + Cardinality(ItemsTo(items, t))
<1>0. /\ IsFiniteSet(I) /\ n \in Nat /\ DOMAIN items = 1 .. n
      /\ \A i, j \in 1 .. n : items[i].row = items[j].row => i = j
      /\ \A i \in 1 .. n : items[i].row \notin I \ dead
      /\ PatchedColumns(I, T, c, dead, items, L, LT, d, p)
  BY DEF ItemsPatched
<1> USE <1>0
<1> DEFINE A == RowsTo(I, c.fk, t)
           K == A \ dead
           M == ItemsTo(items, t)
           N == {items[i].row : i \in M}
           f == [i \in M |-> items[i].row]
<1>1. /\ L = (I \ dead) \cup {items[i].row : i \in 1 .. n}
      /\ \A x \in I \ dead : d.fk[x] = c.fk[x]
      /\ \A i \in 1 .. n : d.fk[items[i].row] = items[i].target
  BY DEF PatchedColumns
<1>2. IsFiniteSet(A) /\ IsFiniteSet(A \cap dead) /\ IsFiniteSet(K)
  <2>1. A \subseteq I /\ A \cap dead \subseteq I /\ K \subseteq I
    BY DEF RowsTo
  <2> HIDE DEF A, K
  <2> QED
    BY <2>1, FS_Subset
<1>3. M \subseteq 1 .. n /\ IsFiniteSet(M)
  <2>1. M \subseteq 1 .. n
    BY DEF ItemsTo
  <2>2. IsFiniteSet(1 .. n)
    BY FS_Interval
  <2> QED
    BY <2>1, <2>2, FS_Subset
<1>4. RowsTo(L, d.fk, t) = K \cup N
  <2>1. \A x \in K : x \in L /\ d.fk[x] = t
    BY <1>1 DEF RowsTo
  <2>2. \A i \in M : items[i].row \in L /\ d.fk[items[i].row] = t
    BY <1>1, <1>3 DEF ItemsTo
  <2>3. ASSUME NEW x \in L, d.fk[x] = t PROVE x \in K \cup N
    <3>1. CASE x \in I \ dead
      BY <1>1, <2>3, <3>1 DEF RowsTo
    <3>2. CASE x \notin I \ dead
      <4>1. PICK i \in 1 .. n : x = items[i].row
        BY <1>1, <3>2
      <4>2. i \in M
        BY <1>1, <2>3, <4>1 DEF ItemsTo
      <4> QED
        BY <4>1, <4>2
    <3> QED
      BY <3>1, <3>2
  <2> HIDE DEF K
  <2> QED
    BY <2>1, <2>2, <2>3 DEF RowsTo
<1>5. K \cap N = {}
  BY <1>3 DEF RowsTo
<1>6. IsFiniteSet(N) /\ Cardinality(N) = Cardinality(M)
  <2> HIDE DEF M
  <2>1. /\ f \in [M -> N]
        /\ \A i, j \in M : f[i] = f[j] => i = j
        /\ \A x \in N : \E i \in M : f[i] = x
    BY <1>3
  <2> HIDE DEF f, N
  <2> QED
    BY <1>3, <2>1, SameCount
<1> HIDE DEF A, M, N
<1>7. Cardinality(K) = Cardinality(A) - Cardinality(A \cap dead)
  BY <1>2, FS_Difference
<1> HIDE DEF K
<1>8. Cardinality(K \cup N) = Cardinality(K) + Cardinality(N)
  <2>1. Cardinality(K \cup N) = Cardinality(K) + Cardinality(N) - Cardinality(K \cap N)
    BY <1>2, <1>6, FS_Union
  <2>2. Cardinality(K \cap N) = 0
    BY <1>5, FS_EmptySet
  <2>3. Cardinality(K) \in Nat /\ Cardinality(N) \in Nat
    BY <1>2, <1>6, FS_CardinalityType
  <2> QED
    BY <2>1, <2>2, <2>3
<1> QED
  BY <1>2, <1>4, <1>6, <1>7, <1>8 DEF A, M

(***************************************************************************)
(* Sequences and patches, one after the other.                             *)
(***************************************************************************)
\* The entries of two sequences, one after the other.
LEMMA EntriesFollow ==
  ASSUME NEW R, NEW s \in Seq(R), NEW u \in Seq(R)
  PROVE  /\ Len(s) \in Nat /\ Len(u) \in Nat
         /\ Len(s \o u) = Len(s) + Len(u)
         /\ DOMAIN s = 1 .. Len(s)
         /\ DOMAIN (s \o u) = 1 .. Len(s) + Len(u)
         /\ \A i \in 1 .. Len(s) + Len(u) :
              (s \o u)[i] = IF i <= Len(s) THEN s[i] ELSE u[i - Len(s)]
<1> DEFINE S == Seq(R)
<1>1. s \in S /\ u \in S
  OBVIOUS
<1>2. /\ s \o u \in S
      /\ Len(s \o u) = Len(s) + Len(u)
      /\ \A i \in 1 .. Len(s) + Len(u) :
           (s \o u)[i] = IF i <= Len(s) THEN s[i] ELSE u[i - Len(s)]
  BY ConcatProperties
<1>3. \A w \in S : Len(w) \in Nat /\ DOMAIN w = 1 .. Len(w)
  BY LenProperties
<1> HIDE DEF S
<1> QED
  BY <1>1, <1>2, <1>3

LEMMA SeqsFollow ==
  ASSUME NEW R, NEW s \in Seq(R), NEW u \in Seq(R)
  PROVE  /\ Follow(s, Len(s), u, Len(u), s \o u)
         /\ Len(s) \in Nat /\ Len(u) \in Nat /\ Len(s \o u) = Len(s) + Len(u)
         /\ s \o u \in Seq(R)
<1>1. /\ Len(s) \in Nat /\ Len(u) \in Nat
      /\ Len(s \o u) = Len(s) + Len(u)
      /\ DOMAIN s = 1 .. Len(s) /\ DOMAIN u = 1 .. Len(u)
      /\ DOMAIN (s \o u) = 1 .. Len(s) + Len(u)
      /\ \A i \in 1 .. Len(s) + Len(u) :
           (s \o u)[i] = IF i <= Len(s) THEN s[i] ELSE u[i - Len(s)]
  BY EntriesFollow
<1> DEFINE n == Len(s)
           m == Len(u)
           w == s \o u
<1>2. w \in Seq(R)
  BY ConcatProperties
<1>3. /\ n \in Nat /\ m \in Nat /\ DOMAIN s = 1 .. n /\ DOMAIN u = 1 .. m
      /\ DOMAIN w = 1 .. n + m /\ Len(w) = n + m
      /\ \A i \in 1 .. n + m : w[i] = IF i <= n THEN s[i] ELSE u[i - n]
  BY <1>1
<1> HIDE DEF n, m, w
<1>4. \A i \in 1 .. n : w[i] = s[i]
  BY <1>3
<1>5. ASSUME NEW i \in 1 .. m PROVE w[n + i] = u[i]
  <2>1. n + i \in 1 .. n + m /\ ~(n + i <= n) /\ (n + i) - n = i
    BY <1>3
  <2> QED
    BY <1>3, <2>1
<1>6. Follow(s, n, u, m, w)
  BY <1>3, <1>4, <1>5 DEF Follow
<1> QED
  BY <1>2, <1>3, <1>6 DEF n, m, w

\* The place of an entry tells which of the two it is from.
LEMMA FollowPlaces ==
  ASSUME NEW n \in Nat, NEW m \in Nat, NEW a, NEW b, NEW ab, Follow(a, n, b, m, ab)
  PROVE  /\ DOMAIN a = 1 .. n /\ DOMAIN b = 1 .. m /\ DOMAIN ab = 1 .. n + m
         /\ \A i \in 1 .. n + m : ab[i] = IF i <= n THEN a[i] ELSE b[i - n]
<1>1. ASSUME NEW i \in 1 .. n + m PROVE ab[i] = IF i <= n THEN a[i] ELSE b[i - n]
  <2>1. CASE i <= n
    BY <2>1 DEF Follow
  <2>2. CASE ~(i <= n)
    <3>1. i - n \in 1 .. m /\ n + (i - n) = i
      BY <2>2
    <3> QED
      BY <2>2, <3>1 DEF Follow
  <2> QED
    BY <2>1, <2>2
<1> QED
  BY <1>1 DEF Follow

\* Where places 1 .. n are sorted, the ith entry is i.
LEMMA NthPlace ==
  ASSUME NEW n \in Nat, NEW i \in 1 .. n
  PROVE  Nth(i - 1, 1 .. n) = i /\ Cardinality(1 .. n) = n
<1>1. /\ 1 .. n \in SUBSET Int /\ IsFiniteSet(1 .. n) /\ Cardinality(1 .. n) = n
      /\ i - 1 \in 0 .. n - 1
  BY FS_Interval
<1>2. Rank(i, 1 .. n) = i - 1
  <2>1. {y \in 1 .. n : y < i} = 1 .. i - 1
    OBVIOUS
  <2>2. Cardinality(1 .. i - 1) = i - 1
    BY FS_Interval
  <2> QED
    BY <2>1, <2>2 DEF Rank
<1>3. Nth(i - 1, 1 .. n) \in 1 .. n /\ Rank(Nth(i - 1, 1 .. n), 1 .. n) = i - 1
  BY <1>1, NthProperties
<1> DEFINE S == 1 .. n
           m == Nth(i - 1, S)
<1>4. m \in S /\ i \in S /\ Rank(m, S) = Rank(i, S) /\ S \in SUBSET Int /\ IsFiniteSet(S)
  BY <1>1, <1>2, <1>3
<1> HIDE DEF S, m
<1>5. m = i
  BY <1>4, RankInjective
<1> QED
  BY <1>1, <1>5 DEF S, m

\* Nth lists a set without repetition.
LEMMA SortedRows ==
  ASSUME NEW S \in SUBSET Int, IsFiniteSet(S)
  PROVE  /\ Cardinality(S) \in Nat
         /\ \A i \in 1 .. Cardinality(S) : Nth(i - 1, S) \in S
         /\ \A i, j \in 1 .. Cardinality(S) : Nth(i - 1, S) = Nth(j - 1, S) => i = j
         /\ \A x \in S : \E i \in 1 .. Cardinality(S) : Nth(i - 1, S) = x
<1>1. Cardinality(S) \in Nat
  BY FS_CardinalityType
<1>2. \A i \in 1 .. Cardinality(S) : Nth(i - 1, S) \in S /\ Rank(Nth(i - 1, S), S) = i - 1
  <2> SUFFICES ASSUME NEW i \in 1 .. Cardinality(S)
               PROVE  Nth(i - 1, S) \in S /\ Rank(Nth(i - 1, S), S) = i - 1
    OBVIOUS
  <2>1. i - 1 \in 0 .. Cardinality(S) - 1
    BY <1>1
  <2> QED
    BY <2>1, NthProperties
<1>3. \A i, j \in 1 .. Cardinality(S) : Nth(i - 1, S) = Nth(j - 1, S) => i = j
  <2> SUFFICES ASSUME NEW i \in 1 .. Cardinality(S), NEW j \in 1 .. Cardinality(S),
                      Nth(i - 1, S) = Nth(j - 1, S)
               PROVE  i = j
    OBVIOUS
  <2>1. i - 1 = j - 1
    BY <1>2
  <2> QED
    BY <1>1, <2>1
<1>4. ASSUME NEW x \in S
      PROVE  \E i \in 1 .. Cardinality(S) : Nth(i - 1, S) = x
  <2> DEFINE i == Rank(x, S) + 1
  <2>1. Rank(x, S) \in 0 .. Cardinality(S) /\ Rank(x, S) < Cardinality(S)
    BY RankType
  <2>2. i \in 1 .. Cardinality(S) /\ i - 1 = Rank(x, S)
    BY <1>1, <2>1
  <2>3. Nth(i - 1, S) \in S /\ Rank(Nth(i - 1, S), S) = Rank(x, S)
    BY <1>2, <2>2
  <2>4. Nth(i - 1, S) = x
    BY <2>3, RankInjective
  <2> QED
    BY <2>2, <2>4
<1> QED
  BY <1>1, <1>2, <1>3, <1>4

\* The entries at all places are the sequence.
LEMMA AllEntries ==
  ASSUME NEW n \in Nat, NEW s, s = [i \in 1 .. n |-> s[i]]
  PROVE  EntriesAt(s, 1 .. n) = s
<1>1. Cardinality(1 .. n) = n
  <2>1. CASE n = 0
    <3>1. 1 .. n = {}
      BY <2>1
    <3> QED
      BY <2>1, <3>1, FS_EmptySet
  <2>2. CASE n # 0
    <3>1. 1 \in 1 .. n
      BY <2>2
    <3> QED
      BY <3>1, NthPlace
  <2> QED
    BY <2>1, <2>2
<1>2. \A i \in 1 .. n : Nth(i - 1, 1 .. n) = i
  BY NthPlace
<1>3. EntriesAt(s, 1 .. n) = [i \in 1 .. n |-> s[Nth(i - 1, 1 .. n)]]
  BY <1>1 DEF EntriesAt
<1>4. EntriesAt(s, 1 .. n) = [i \in 1 .. n |-> s[i]]
  BY <1>2, <1>3
<1> QED
  BY <1>4

\* Those at some places are these, each once.
ArePicked(e, m, s, places) ==
  /\ m \in Nat /\ DOMAIN e = 1 .. m /\ e = [i \in 1 .. m |-> e[i]]
  /\ \E at \in [1 .. m -> places] :
       /\ \A i \in 1 .. m : e[i] = s[at[i]]
       /\ \A i, j \in 1 .. m : at[i] = at[j] => i = j
       /\ \A k \in places : \E i \in 1 .. m : at[i] = k

LEMMA EntriesPicked ==
  ASSUME NEW n \in Nat, NEW s, NEW places \in SUBSET (1 .. n)
  PROVE  ArePicked(EntriesAt(s, places), Cardinality(places), s, places)
<1> DEFINE m == Cardinality(places)
           e == EntriesAt(s, places)
           at == [i \in 1 .. m |-> Nth(i - 1, places)]
<1>1. IsFiniteSet(places) /\ places \in SUBSET Int
  <2>1. IsFiniteSet(1 .. n) /\ places \subseteq 1 .. n
    BY FS_Interval
  <2>2. IsFiniteSet(places)
    BY ONLY <2>1, FS_Subset
  <2> QED
    BY <2>2
<1>2. /\ m \in Nat
      /\ \A i \in 1 .. m : Nth(i - 1, places) \in places
      /\ \A i, j \in 1 .. m : Nth(i - 1, places) = Nth(j - 1, places) => i = j
      /\ \A x \in places : \E i \in 1 .. m : Nth(i - 1, places) = x
  BY <1>1, SortedRows
<1>3. /\ DOMAIN e = 1 .. m /\ e = [i \in 1 .. m |-> e[i]]
      /\ \A i \in 1 .. m : e[i] = s[Nth(i - 1, places)]
  BY DEF EntriesAt
<1> HIDE DEF m, e
<1>4. at \in [1 .. m -> places]
  BY <1>2
<1>5. /\ \A i \in 1 .. m : e[i] = s[at[i]]
      /\ \A i, j \in 1 .. m : at[i] = at[j] => i = j
      /\ \A k \in places : \E i \in 1 .. m : at[i] = k
  BY <1>2, <1>3
<1> HIDE DEF at
<1> QED
  BY <1>2, <1>3, <1>4, <1>5 DEF ArePicked, m, e

\* The sequence e has n entries.
Listed(e, n) == n \in Nat /\ DOMAIN e = 1 .. n /\ e = [i \in 1 .. n |-> e[i]]

\* Two sequences of any entries, one after the other.
LEMMA JoinFollows ==
  ASSUME NEW n, NEW m, NEW a, NEW b, Listed(a, n), Listed(b, m)
  PROVE  Follow(a, n, b, m, a \o b) /\ Listed(a \o b, n + m)
<1> DEFINE R == {a[i] : i \in 1 .. n} \cup {b[i] : i \in 1 .. m}
<1>1. (\A i \in 1 .. n : a[i] \in R) /\ (\A i \in 1 .. m : b[i] \in R)
  OBVIOUS
<1> HIDE DEF R
<1>2. a \in [1 .. n -> R] /\ b \in [1 .. m -> R] /\ n \in Nat /\ m \in Nat
  BY <1>1 DEF Listed
<1>3. a \in Seq(R) /\ b \in Seq(R) /\ Len(a) = n /\ Len(b) = m
  BY <1>2
<1>4. /\ Follow(a, n, b, m, a \o b)
      /\ a \o b \in Seq(R) /\ Len(a \o b) = n + m
  BY ONLY <1>3, SeqsFollow
<1> DEFINE ab == a \o b
<1>5. Follow(a, n, b, m, ab) /\ ab \in Seq(R) /\ Len(ab) = n + m
  BY <1>4
<1> HIDE DEF ab
<1>6. n + m \in Nat /\ DOMAIN ab = 1 .. n + m /\ ab = [i \in 1 .. n + m |-> ab[i]]
  BY <1>2, <1>5
<1> QED
  BY <1>5, <1>6 DEF Listed, ab

\* The m items e are of different rows, which are those of S.
AreItems(e, m, S) ==
  /\ Listed(e, m)
  /\ \A i, j \in 1 .. m : e[i].row = e[j].row => i = j
  /\ {e[i].row : i \in 1 .. m} = S

LEMMA PickedItems ==
  ASSUME NEW n \in Nat, NEW s, NEW places \in SUBSET (1 .. n),
         \A i, j \in 1 .. n : s[i].row = s[j].row => i = j
  PROVE  LET e == EntriesAt(s, places)
             m == Cardinality(places)
         IN  /\ AreItems(e, m, {s[k].row : k \in places})
             /\ \A i \in 1 .. m : \E k \in places : e[i] = s[k]
             /\ \A k \in places : \E i \in 1 .. m : e[i] = s[k]
<1> DEFINE e == EntriesAt(s, places)
           m == Cardinality(places)
<1>1. ArePicked(e, m, s, places)
  BY EntriesPicked
<1> HIDE DEF e, m
<1>2. PICK at \in [1 .. m -> places] :
        /\ \A i \in 1 .. m : e[i] = s[at[i]]
        /\ \A i, j \in 1 .. m : at[i] = at[j] => i = j
        /\ \A k \in places : \E i \in 1 .. m : at[i] = k
  BY <1>1 DEF ArePicked
<1>3. m \in Nat /\ DOMAIN e = 1 .. m /\ e = [i \in 1 .. m |-> e[i]]
  BY <1>1 DEF ArePicked
<1> DEFINE J == 1 .. m
<1>4. \A i \in J : at[i] \in places /\ at[i] \in 1 .. n
  BY <1>2
<1> HIDE DEF J
<1>5. \A i, j \in J : e[i].row = e[j].row => i = j
  <2> SUFFICES ASSUME NEW i \in J, NEW j \in J, e[i].row = e[j].row PROVE i = j
    OBVIOUS
  <2>1. s[at[i]].row = s[at[j]].row
    BY <1>2 DEF J
  <2>2. at[i] = at[j]
    BY <1>4, <2>1
  <2> QED
    BY <1>2, <2>2 DEF J
<1>6. \A i \in J : \E k \in places : e[i] = s[k]
  BY <1>2, <1>4 DEF J
<1>7. \A k \in places : \E i \in J : e[i] = s[k]
  <2> SUFFICES ASSUME NEW k \in places PROVE \E i \in J : e[i] = s[k]
    OBVIOUS
  <2>1. PICK i \in J : at[i] = k
    BY <1>2 DEF J
  <2>2. e[i] = s[at[i]]
    BY <1>2 DEF J
  <2> QED
    BY <2>1, <2>2
<1>8. {e[i].row : i \in J} = {s[k].row : k \in places}
  <2>1. \A i \in J : e[i].row \in {s[k].row : k \in places}
    BY <1>6
  <2>2. \A k \in places : s[k].row \in {e[i].row : i \in J}
    BY <1>7
  <2> QED
    BY <2>1, <2>2
<1> QED
  BY <1>3, <1>5, <1>6, <1>7, <1>8 DEF AreItems, Listed, e, m, J

\* Items of other rows after them.
Joined(a, n, S, b, m, U, ab) ==
  /\ Follow(a, n, b, m, ab) /\ AreItems(ab, n + m, S \cup U)
  /\ \A i \in 1 .. n : \E k \in 1 .. n + m : ab[k] = a[i]
  /\ \A i \in 1 .. m : \E k \in 1 .. n + m : ab[k] = b[i]
  /\ \A k \in 1 .. n + m : (\E i \in 1 .. n : ab[k] = a[i]) \/ (\E i \in 1 .. m : ab[k] = b[i])

LEMMA ItemsJoin ==
  ASSUME NEW n, NEW m, NEW a, NEW b, NEW S, NEW U,
         AreItems(a, n, S), AreItems(b, m, U), S \cap U = {}
  PROVE  Joined(a, n, S, b, m, U, a \o b)
<1> DEFINE ab == a \o b
           N == 1 .. n + m
           J == 1 .. n
           K == 1 .. m
           at(i) == n + i
<1>1. /\ n \in Nat /\ m \in Nat /\ Listed(a, n) /\ Listed(b, m)
      /\ \A i, j \in J : a[i].row = a[j].row => i = j
      /\ \A i, j \in K : b[i].row = b[j].row => i = j
      /\ {a[i].row : i \in J} = S /\ {b[i].row : i \in K} = U
  BY DEF AreItems, Listed
<1>2. Follow(a, n, b, m, ab) /\ Listed(ab, n + m)
  BY <1>1, JoinFollows
<1> HIDE DEF ab
<1>4. /\ \A i \in J : i \in N /\ ab[i] = a[i]
      /\ \A i \in K : at(i) \in N /\ ab[at(i)] = b[i]
      /\ \A i \in N : i \in J \/ \E j \in K : i = at(j)
      /\ n + m \in Nat /\ DOMAIN ab = N
  <2>1. \A i \in N : i \notin J => i - n \in K /\ i = at(i - n)
    BY <1>1
  <2>2. /\ \A i \in J : i \in N /\ ab[i] = a[i]
        /\ \A i \in K : at(i) \in N /\ ab[at(i)] = b[i]
    BY <1>1, <1>2 DEF Follow
  <2>3. DOMAIN ab = N /\ n + m \in Nat
    BY <1>1, <1>2 DEF Follow
  <2> HIDE DEF J, K, N, at
  <2> QED
    BY <2>1, <2>2, <2>3
<1> HIDE DEF J, K, N, at
<1>5. /\ \A i \in J : \E k \in N : ab[k] = a[i]
      /\ \A i \in K : \E k \in N : ab[k] = b[i]
      /\ \A k \in N : (\E i \in J : ab[k] = a[i]) \/ (\E i \in K : ab[k] = b[i])
  <2>1. \A i \in J : \E k \in N : ab[k] = a[i]
    BY <1>4
  <2>2. \A i \in K : \E k \in N : ab[k] = b[i]
    BY <1>4
  <2>3. ASSUME NEW k \in N PROVE (\E i \in J : ab[k] = a[i]) \/ (\E i \in K : ab[k] = b[i])
    <3>1. CASE k \in J
      BY <1>4, <3>1
    <3>2. CASE \E j \in K : k = at(j)
      BY <1>4, <3>2
    <3> QED
      BY <1>4, <3>1, <3>2
  <2> QED
    BY <2>1, <2>2, <2>3
<1>6. \A i, j \in N : ab[i].row = ab[j].row => i = j
  <2>1. \A i \in J : a[i].row \in S
    BY <1>1
  <2>2. \A i \in K : b[i].row \in U
    BY <1>1
  <2> QED
    BY <1>1, <1>4, <2>1, <2>2
<1>7. {ab[i].row : i \in N} = S \cup U
  BY <1>1, <1>5
<1> QED
  BY <1>2, <1>4, <1>5, <1>6, <1>7 DEF AreItems, Joined, ab, N, J, K

\* Sparse writes compose.
LEMMA PatchesCompose ==
  ASSUME NEW q, NEW s, NEW t
  PROVE  ThenPatch(ThenPatch(q, s), t) = ThenPatch(q, ThenPatch(s, t))
<1>1. ASSUME NEW u, NEW v, NEW w PROVE Then(Then(u, v), w) = Then(u, Then(v, w))
  <2> DEFINE a == Then(Then(u, v), w)
             b == Then(u, Then(v, w))
  <2>1. /\ a = [i \in DOMAIN a |-> a[i]] /\ b = [i \in DOMAIN b |-> b[i]]
    BY DEF Then
  <2>2. DOMAIN a = DOMAIN b
    BY DEF Then
  <2>3. \A i \in DOMAIN a : a[i] = b[i]
    BY DEF Then
  <2> HIDE DEF a, b
  <2>4. a = b
    BY <2>1, <2>2, <2>3
  <2> QED
    BY <2>4 DEF a, b
<1> QED
  BY <1>1 DEF ThenPatch

(***************************************************************************)
(* The rows of a table in their new places.                                *)
(***************************************************************************)
\* A table of n rows with a staged ones and the deletions del.
Plannable(n, a, del) ==
  n \in Nat /\ a \in Nat /\ del \in SUBSET (0 .. n - 1) /\ n + a <= Missing

\* The new index of each live id.
NumberedBy(n, a, del) == [x \in Live(n, a, del) |-> Resolve(Oracle(n, a, del), x)]

\* The indices the table has afterwards.
Places(n, a, del) == 0 .. Oracle(n, a, del).newSize - 1

\* The oracle numbers the live ids, and says of the others that they are gone.
LEMMA LiveNumbered ==
  ASSUME NEW n, NEW a, NEW del, Plannable(n, a, del)
  PROVE  LET o == Oracle(n, a, del)
             live == Live(n, a, del)
             r == NumberedBy(n, a, del)
             N == Places(n, a, del)
         IN  /\ Numbers(r, live, N)
             /\ Missing \notin live /\ Missing \notin N
             /\ IsFiniteSet(live) /\ IsFiniteSet(N)
             /\ live = ((0 .. n - 1) \ del) \cup (n .. n + a - 1)
             /\ del \subseteq 0 .. n - 1
             /\ \A x \in live \cup {Missing} : To(r, x) = Resolve(o, x)
             /\ \A x, y \in live : Resolve(o, x) = Resolve(o, y) => x = y
             /\ \A x \in live : Resolve(o, x) # Missing
             /\ \A x \in del \cup {Missing} : Resolve(o, x) = Missing
             /\ \A x \in live : Resolve(o, x) \in N
<1> DEFINE o == Oracle(n, a, del)
           live == Live(n, a, del)
           r == NumberedBy(n, a, del)
           N == Places(n, a, del)
<1>1. n \in Nat /\ a \in Nat /\ del \in SUBSET (0 .. n - 1) /\ n + a <= Missing
  BY DEF Plannable
<1>2. Renumbers(n, a, del)
  BY <1>1, OracleRenumbers
<1>3. /\ \A i \in live : Resolve(o, i) \in 0 .. o.newSize - 1
      /\ \A i, j \in live : Resolve(o, i) = Resolve(o, j) => i = j
      /\ \A p \in 0 .. o.newSize - 1 : \E i \in live : Resolve(o, i) = p
      /\ \A i \in del : Resolve(o, i) = Missing
  BY <1>2 DEF Renumbers
<1>4. o.newSize <= n + a /\ o.newSize \in Nat
  BY <1>1, Destinations
<1>5. live = (0 .. n + a - 1) \ del
  BY DEF Live
<1>6. N = 0 .. o.newSize - 1
  BY DEF Places
<1>7. r = [x \in live |-> Resolve(o, x)]
  BY DEF NumberedBy
<1> HIDE DEF o, live, r, N
<1>8. Missing \notin live /\ Missing \notin N /\ Missing \in Nat
  BY <1>1, <1>4, <1>5, <1>6, MissingIsNat
<1>9. IsFiniteSet(live) /\ IsFiniteSet(N)
  <2>1. IsFiniteSet(0 .. n + a - 1)
    BY <1>1, FS_Interval
  <2>2. IsFiniteSet(0 .. o.newSize - 1)
    BY <1>4, FS_Interval
  <2> QED
    BY <1>5, <1>6, <2>1, <2>2, FS_Subset
<1>10. live = ((0 .. n - 1) \ del) \cup (n .. n + a - 1) /\ del \subseteq 0 .. n - 1
  BY <1>1, <1>5
<1>11. Resolve(o, Missing) = Missing
  BY DEF Resolve
<1>12. \A x \in live : Resolve(o, x) \in N /\ Resolve(o, x) # Missing
  BY <1>3, <1>6, <1>8
<1>13. Numbers(r, live, N)
  <2>1. \A p \in N : \E x \in live : Resolve(o, x) = p
    BY <1>3, <1>6
  <2> QED
    BY <1>3, <1>7, <1>12, <2>1 DEF Numbers
<1>14. \A x \in live \cup {Missing} : To(r, x) = Resolve(o, x)
  BY <1>7, <1>8, <1>11 DEF To
<1> QED
  BY <1>3, <1>8, <1>9, <1>10, <1>11, <1>12, <1>13, <1>14 DEF o, live, r, N

\* What materialization puts at the new index of a live id: staged rows where
\* they are sent, moved rows where they move, the others where they are.
LEMMA LivePlace ==
  ASSUME NEW n, NEW a, NEW del, Plannable(n, a, del), NEW x \in Live(n, a, del)
  PROVE  LET o == Oracle(n, a, del)
             p == Resolve(o, x)
         IN  /\ x \in n .. n + a - 1 =>
                  /\ \E k \in DOMAIN o.dest : o.dest[k] = p
                  /\ (CHOOSE k \in DOMAIN o.dest : o.dest[k] = p) = x - n
                  /\ x - n \in 0 .. a - 1
             /\ x \notin n .. n + a - 1 =>
                  /\ x \in 0 .. n - 1
                  /\ ~ \E k \in DOMAIN o.dest : o.dest[k] = p
                  /\ x \in DOMAIN o.moves =>
                       /\ \E i \in DOMAIN o.moves : o.moves[i] = p
                       /\ (CHOOSE i \in DOMAIN o.moves : o.moves[i] = p) = x
                  /\ x \notin DOMAIN o.moves =>
                       /\ ~ \E i \in DOMAIN o.moves : o.moves[i] = p
                       /\ p = x
<1> DEFINE o == Oracle(n, a, del)
           live == Live(n, a, del)
           r(i) == Resolve(o, i)
           p == r(x)
           staged == n .. n + a - 1
<1>1. n \in Nat /\ a \in Nat /\ del \in SUBSET (0 .. n - 1) /\ n + a <= Missing
  BY DEF Plannable
<1>2. /\ DOMAIN o.dest = 0 .. a - 1
      /\ \A k \in 0 .. a - 1 : n + k \in live /\ o.dest[k] = r(n + k)
      /\ \A i \in DOMAIN o.moves : i \in live /\ i < n /\ o.moves[i] = r(i)
      /\ \A i \in live : i < n /\ i \notin DOMAIN o.moves => r(i) = i
  <2>1. /\ DOMAIN Oracle(n, a, del).dest = 0 .. a - 1
        /\ \A k \in 0 .. a - 1 :
             /\ n + k \in Live(n, a, del)
             /\ Oracle(n, a, del).dest[k] = Resolve(Oracle(n, a, del), n + k)
        /\ \A i \in DOMAIN Oracle(n, a, del).moves :
             /\ i \in Live(n, a, del) /\ i < n
             /\ Oracle(n, a, del).moves[i] = Resolve(Oracle(n, a, del), i)
        /\ \A i \in Live(n, a, del) :
             i < n /\ i \notin DOMAIN Oracle(n, a, del).moves =>
               Resolve(Oracle(n, a, del), i) = i
    BY ONLY <1>1, Destinations
  <2> QED
    BY <2>1 DEF o, live, r
<1>3. /\ \A i, j \in live : r(i) = r(j) => i = j
      /\ live = ((0 .. n - 1) \ del) \cup staged
      /\ x \in live
  BY LiveNumbered
<1> HIDE DEF o, live, r, p
<1>5. \A k \in DOMAIN o.dest : o.dest[k] = p <=> n + k = x
  BY <1>2, <1>3 DEF p
<1>6. \A i \in DOMAIN o.moves : o.moves[i] = p <=> i = x
  BY <1>2, <1>3 DEF p
<1>7. ASSUME x \in staged
      PROVE  /\ \E k \in DOMAIN o.dest : o.dest[k] = p
             /\ (CHOOSE k \in DOMAIN o.dest : o.dest[k] = p) = x - n
             /\ x - n \in 0 .. a - 1
  <2>1. x - n \in 0 .. a - 1 /\ n + (x - n) = x
    BY <1>1, <1>7
  <2>2. \A k \in DOMAIN o.dest : n + k = x => k = x - n
    <3>1. DOMAIN o.dest = 0 .. a - 1
      BY <1>2
    <3>2. x \in n .. n + a - 1
      BY <1>7 DEF staged
    <3> QED
      BY ONLY <1>1, <3>1, <3>2
  <2>3. x - n \in DOMAIN o.dest /\ o.dest[x - n] = p
    <3>1. x - n \in DOMAIN o.dest
      BY <1>2, <2>1
    <3> QED
      BY <1>5, <2>1, <3>1
  <2>4. \A k \in DOMAIN o.dest : o.dest[k] = p <=> k = x - n
    BY <1>5, <2>2, <2>3
  <2> DEFINE z == x - n
  <2> HIDE DEF z
  <2>5. (CHOOSE k \in DOMAIN o.dest : o.dest[k] = p) = z
    BY <2>3, <2>4 DEF z
  <2> QED
    BY <2>1, <2>3, <2>5 DEF z
<1>8. ASSUME x \notin staged
      PROVE  /\ x \in 0 .. n - 1 /\ x < n
             /\ ~ \E k \in DOMAIN o.dest : o.dest[k] = p
  <2>1. x \in 0 .. n - 1
    BY <1>3, <1>8
  <2>2. ASSUME NEW k \in DOMAIN o.dest, n + k = x PROVE FALSE
    BY <1>1, <1>2, <2>1, <2>2
  <2> QED
    BY <1>1, <1>5, <2>1, <2>2
<1>9. ASSUME x \notin staged, x \in DOMAIN o.moves
      PROVE  /\ \E i \in DOMAIN o.moves : o.moves[i] = p
             /\ (CHOOSE i \in DOMAIN o.moves : o.moves[i] = p) = x
  BY <1>6, <1>9
<1>10. ASSUME x \notin staged, x \notin DOMAIN o.moves
       PROVE  /\ ~ \E i \in DOMAIN o.moves : o.moves[i] = p
              /\ p = x
  BY <1>2, <1>3, <1>6, <1>8, <1>10 DEF p
<1> QED
  BY <1>7, <1>8, <1>9, <1>10 DEF o, r, p

\* The rows that are moved stay.
LEMMA LiveMoves ==
  ASSUME NEW n, NEW a, NEW del, Plannable(n, a, del)
  PROVE  LET o == Oracle(n, a, del)
             live == Live(n, a, del)
         IN  /\ DOMAIN o.moves \subseteq (0 .. n - 1) \ del
             /\ \A x \in live : x \in 0 .. n - 1 /\ x \notin DOMAIN o.moves => Resolve(o, x) = x
             /\ {o.moves[i] : i \in DOMAIN o.moves} = {Resolve(o, i) : i \in DOMAIN o.moves}
             /\ {o.moves[i] : i \in DOMAIN o.moves} \subseteq Places(n, a, del)
<1> DEFINE o == Oracle(n, a, del)
           live == Live(n, a, del)
<1>1. n \in Nat /\ a \in Nat /\ del \in SUBSET (0 .. n - 1) /\ n + a <= Missing
  BY DEF Plannable
<1>4. \A i \in DOMAIN o.moves : i \in live /\ i < n /\ o.moves[i] = Resolve(o, i)
  BY <1>1, Destinations
<1>5. /\ live = ((0 .. n - 1) \ del) \cup (n .. n + a - 1)
      /\ \A x \in live : Resolve(o, x) \in Places(n, a, del)
  BY LiveNumbered
<1>6. (0 .. n - 1) \cap (n .. n + a - 1) = {} /\ \A x \in n .. n + a - 1 : ~(x < n)
  BY <1>1
<1>7. \A x \in live : x \notin n .. n + a - 1 /\ x \notin DOMAIN o.moves => Resolve(o, x) = x
  BY LivePlace
<1> HIDE DEF o, live
<1> QED
  BY <1>4, <1>5, <1>6, <1>7 DEF o, live

\* Materialization of a column with the fresh values v.
MaterializedAs(col, o, v) ==
  [p \in 0 .. o.newSize - 1 |->
     IF \E k \in DOMAIN o.dest : o.dest[k] = p
       THEN v[CHOOSE k \in DOMAIN o.dest : o.dest[k] = p]
     ELSE IF \E i \in DOMAIN o.moves : o.moves[i] = p
       THEN col[CHOOSE i \in DOMAIN o.moves : o.moves[i] = p]
     ELSE col[p]]

AbsentLinks(o) == [k \in DOMAIN o.dest |-> Missing]

\* Every live id gets its old or its fresh value.
LEMMA LiveMaterialized ==
  ASSUME NEW n, NEW a, NEW del, Plannable(n, a, del), NEW x \in Live(n, a, del),
         NEW col, NEW v
  PROVE  LET o == Oracle(n, a, del)
             p == NumberedBy(n, a, del)[x]
         IN  /\ p \in Places(n, a, del) /\ p = Resolve(o, x)
             /\ DOMAIN MaterializedAs(col, o, v) = Places(n, a, del)
             /\ MaterializedAs(col, o, v)[p] = IF x \in n .. n + a - 1 THEN v[x - n] ELSE col[x]
<1> DEFINE o == Oracle(n, a, del)
           p == Resolve(o, x)
           z == x - n
<1>1. NumberedBy(n, a, del)[x] = p
  BY DEF NumberedBy
<1>2. p \in Places(n, a, del)
  BY LiveNumbered
<1>3. /\ x \in n .. n + a - 1 =>
           /\ \E k \in DOMAIN o.dest : o.dest[k] = p
           /\ (CHOOSE k \in DOMAIN o.dest : o.dest[k] = p) = z
      /\ x \notin n .. n + a - 1 =>
           /\ ~ \E k \in DOMAIN o.dest : o.dest[k] = p
           /\ x \in DOMAIN o.moves =>
                /\ \E i \in DOMAIN o.moves : o.moves[i] = p
                /\ (CHOOSE i \in DOMAIN o.moves : o.moves[i] = p) = x
           /\ x \notin DOMAIN o.moves =>
                /\ ~ \E i \in DOMAIN o.moves : o.moves[i] = p
                /\ p = x
  BY LivePlace
<1>4. Places(n, a, del) = 0 .. o.newSize - 1
  BY DEF Places
<1> HIDE DEF o, p, z
<1>5. DOMAIN MaterializedAs(col, o, v) = Places(n, a, del)
  BY <1>4 DEF MaterializedAs
<1>6. MaterializedAs(col, o, v)[p]
        = IF \E k \in DOMAIN o.dest : o.dest[k] = p
            THEN v[CHOOSE k \in DOMAIN o.dest : o.dest[k] = p]
          ELSE IF \E i \in DOMAIN o.moves : o.moves[i] = p
            THEN col[CHOOSE i \in DOMAIN o.moves : o.moves[i] = p]
          ELSE col[p]
  BY <1>2, <1>4 DEF MaterializedAs
<1>7. MaterializedAs(col, o, v)[p] = IF x \in n .. n + a - 1 THEN v[z] ELSE col[x]
  BY <1>3, <1>6
<1> QED
  BY <1>1, <1>2, <1>5, <1>7 DEF o, p, z

\* A link of the row x after materialization and the writes w of a patch, when
\* the link is val in old indices: rows that nobody writes have a link that
\* stays where it is, or none if they are new.
LEMMA LiveWritten ==
  ASSUME NEW n, NEW a, NEW del, Plannable(n, a, del),
         NEW m, NEW b, NEW gone, Plannable(m, b, gone), NEW col, NEW w,
         DOMAIN w \subseteq Live(n, a, del) \cup del,
         NEW x \in Live(n, a, del), NEW val \in Live(m, b, gone) \cup {Missing},
         x \in DOMAIN w => val = w[x],
         x \notin DOMAIN w =>
           IF x \in 0 .. n - 1
             THEN /\ val = col[x]
                  /\ val = Missing
                       \/ (val \in 0 .. m - 1 /\ val \notin DOMAIN Oracle(m, b, gone).moves)
             ELSE val = Missing
  PROVE  LET o == Oracle(n, a, del)
         IN  Overwrite(MaterializedAs(col, o, AbsentLinks(o)),
                       TranslateWrites(w, o, Oracle(m, b, gone)))[NumberedBy(n, a, del)[x]]
               = To(NumberedBy(m, b, gone), val)
<1> DEFINE o == Oracle(n, a, del)
           ou == Oracle(m, b, gone)
           k == MaterializedAs(col, o, AbsentLinks(o))
           tw == TranslateWrites(w, o, ou)
           L == Live(n, a, del)
           p == NumberedBy(n, a, del)[x]
           z == x - n
           staged == n .. n + a - 1
<1>1. /\ \A i, j \in L : Resolve(o, i) = Resolve(o, j) => i = j
      /\ \A i \in L : Resolve(o, i) # Missing
      /\ \A i \in del : Resolve(o, i) = Missing
      /\ L = ((0 .. n - 1) \ del) \cup staged
  BY LiveNumbered
<1>2. /\ p \in DOMAIN k /\ p = Resolve(o, x)
      /\ k[p] = IF x \in staged THEN AbsentLinks(o)[z] ELSE col[x]
  BY LiveMaterialized
<1>3. To(NumberedBy(m, b, gone), val) = Resolve(ou, val)
  BY LiveNumbered
<1>4. val \in 0 .. m - 1 /\ val \notin DOMAIN ou.moves /\ val # Missing => Resolve(ou, val) = val
  BY LiveMoves
<1>5. Resolve(ou, Missing) = Missing
  BY DEF Resolve
<1>6. x \in staged => AbsentLinks(o)[z] = Missing /\ x \notin 0 .. n - 1
  <2>1. n \in Nat /\ a \in Nat
    BY DEF Plannable
  <2>2. x \in staged => z \in 0 .. a - 1 /\ x \notin 0 .. n - 1
    BY <2>1
  <2>3. DOMAIN o.dest = 0 .. a - 1
    BY DEF Oracle, AdditionDest
  <2> QED
    BY <2>2, <2>3 DEF AbsentLinks
<1>7. /\ DOMAIN tw = {Resolve(o, i) : i \in L \cap DOMAIN w}
      /\ \A i \in L \cap DOMAIN w : tw[Resolve(o, i)] = Resolve(ou, w[i])
  <2>1. \A i \in DOMAIN w : i \in L \/ Resolve(o, i) = Missing
    BY <1>1
  <2> HIDE DEF L, o, ou
  <2>2. AreTranslated(TranslateWrites(w, o, ou), w, o, ou, L)
    BY <1>1, <2>1, TranslatedWrites
  <2> QED
    BY <2>2 DEF AreTranslated
<1>8. Overwrite(k, tw)[p] = IF p \in DOMAIN tw THEN tw[p] ELSE k[p]
  BY <1>2 DEF Overwrite
<1> HIDE DEF o, ou, k, tw, L, p, z, staged
<1>9. CASE x \in DOMAIN w
  <2>1. x \in L /\ val = w[x]
    BY <1>9 DEF L
  <2>2. p \in DOMAIN tw /\ tw[p] = Resolve(ou, w[x])
    BY <1>2, <1>7, <1>9, <2>1
  <2>3. Overwrite(k, tw)[p] = Resolve(ou, val)
    BY <1>8, <2>1, <2>2
  <2> QED
    BY <1>3, <2>3 DEF o, ou, k, tw, p
<1>10. CASE x \notin DOMAIN w
  <2>1. x \in L
    BY DEF L
  <2>2. p \notin DOMAIN tw
    BY <1>1, <1>2, <1>7, <1>10, <2>1
  <2>3. k[p] = val
    BY <1>1, <1>2, <1>6, <1>10, <2>1 DEF staged
  <2>4. Resolve(ou, val) = val
    BY <1>4, <1>5, <1>10 DEF ou
  <2>5. Overwrite(k, tw)[p] = Resolve(ou, val)
    BY <1>8, <2>2, <2>3, <2>4
  <2> QED
    BY <1>3, <2>5 DEF o, ou, k, tw, p
<1> QED
  BY <1>9, <1>10

\* Without fresh links there is none at a staged row.
LEMMA AbsentMaterialized ==
  ASSUME NEW col, NEW o
  PROVE  MaterializedAs(col, o, AbsentLinks(o))
           = [p \in 0 .. o.newSize - 1 |->
                IF \E k \in DOMAIN o.dest : o.dest[k] = p THEN Missing
                ELSE IF \E i \in DOMAIN o.moves : o.moves[i] = p
                  THEN col[CHOOSE i \in DOMAIN o.moves : o.moves[i] = p]
                ELSE col[p]]
<1> DEFINE new(p) == CHOOSE k \in DOMAIN o.dest : o.dest[k] = p
           moved(p) == CHOOSE i \in DOMAIN o.moves : o.moves[i] = p
           staged(p) == \E k \in DOMAIN o.dest : o.dest[k] = p
           isMoved(p) == \E i \in DOMAIN o.moves : o.moves[i] = p
           N == 0 .. o.newSize - 1
<1>1. ASSUME NEW p \in N, staged(p) PROVE AbsentLinks(o)[new(p)] = Missing
  <2>1. new(p) \in DOMAIN o.dest
    BY <1>1
  <2> HIDE DEF new
  <2> QED
    BY <2>1 DEF AbsentLinks
<1>2. MaterializedAs(col, o, AbsentLinks(o))
        = [p \in N |-> IF staged(p) THEN AbsentLinks(o)[new(p)]
                       ELSE IF isMoved(p) THEN col[moved(p)] ELSE col[p]]
  BY DEF MaterializedAs
<1> HIDE DEF new, moved, staged, isMoved, N
<1>3. MaterializedAs(col, o, AbsentLinks(o))
        = [p \in N |-> IF staged(p) THEN Missing
                       ELSE IF isMoved(p) THEN col[moved(p)] ELSE col[p]]
  BY <1>1, <1>2
<1> QED
  BY <1>3 DEF new, moved, staged, isMoved, N

(***************************************************************************)
(* Columns that hold lists of which only some are looked at.               *)
(***************************************************************************)
\* The columns of C for the rows in I alone.
PartOf(C, I) ==
  [fk   |-> [x \in I |-> C.fk[x]],
   nxt  |-> [x \in I |-> C.nxt[x]],
   prv  |-> [x \in I |-> C.prv[x]],
   head |-> C.head]

\* The lists of the rows in I are linked, whatever the other rows of R hold.
PartLinked(R, I, T, C, ord) ==
  /\ IsFiniteSet(R) /\ I \subseteq R /\ Missing \notin R /\ DOMAIN C.nxt = R
  /\ Linked(I, T, PartOf(C, I), ord)

LEMMA PartFields ==
  ASSUME NEW R, NEW I, NEW T, NEW C, NEW ord, PartLinked(R, I, T, C, ord)
  PROVE  LET c == PartOf(C, I)
         IN  /\ Linked(I, T, c, ord) /\ IsFiniteSet(I)
             /\ DOMAIN c.nxt = I /\ c.head = C.head /\ DOMAIN C.head = T
             /\ \A x \in I : /\ c.fk[x] = C.fk[x] /\ c.nxt[x] = C.nxt[x] /\ c.prv[x] = C.prv[x]
                             /\ C.fk[x] \in T \cup {Missing}
                             /\ C.nxt[x] \in I \cup {Missing}
                             /\ C.prv[x] \in I \cup {Missing}
             /\ \A t \in T : C.head[t] \in I \cup {Missing}
             /\ Missing \notin I /\ Missing \notin T
<1> DEFINE c == PartOf(C, I)
<1>1. Linked(I, T, c, ord) /\ IsFiniteSet(I)
  BY FS_Subset DEF PartLinked
<1>2. /\ DOMAIN c.nxt = I /\ c.head = C.head
      /\ \A x \in I : c.fk[x] = C.fk[x] /\ c.nxt[x] = C.nxt[x] /\ c.prv[x] = C.prv[x]
  BY DEF PartOf
<1> HIDE DEF c
<1>3. Columns(I, T, c)
  BY <1>1 DEF Linked
<1> QED
  BY <1>1, <1>2, <1>3 DEF Columns, c

\* A walk from one of them stays among them.
LEMMA PartNode ==
  ASSUME NEW R, NEW I, NEW T, NEW C, NEW ord, PartLinked(R, I, T, C, ord),
         NEW h \in I \cup {Missing}, NEW n \in Nat
  PROVE  /\ Node(C.nxt, h, n) = Node(PartOf(C, I).nxt, h, n)
         /\ Node(C.nxt, h, n) \in I \cup {Missing}
<1> DEFINE c == PartOf(C, I)
           P == {k \in 0 .. n : Node(C.nxt, h, k) = Node(c.nxt, h, k)
                                /\ Node(C.nxt, h, k) \in I \cup {Missing}}
<1>1. /\ DOMAIN c.nxt = I /\ I \subseteq R /\ Missing \notin R /\ DOMAIN C.nxt = R
      /\ \A x \in I : c.nxt[x] = C.nxt[x] /\ C.nxt[x] \in I \cup {Missing}
  <2>1. I \subseteq R /\ Missing \notin R /\ DOMAIN C.nxt = R
    BY DEF PartLinked
  <2>2. DOMAIN c.nxt = I
        /\ \A x \in I : c.nxt[x] = C.nxt[x] /\ C.nxt[x] \in I \cup {Missing}
    BY PartFields
  <2> QED
    BY <2>1, <2>2
<1> HIDE DEF c
<1>2. /\ Node(C.nxt, h, 0) = h /\ Node(c.nxt, h, 0) = h
      /\ \A k \in Nat : Node(C.nxt, h, k + 1) = After(C.nxt, Node(C.nxt, h, k))
      /\ \A k \in Nat : Node(c.nxt, h, k + 1) = After(c.nxt, Node(c.nxt, h, k))
  BY NodeSteps, ZenonT(60)
<1>3. 0 \in P
  BY <1>2
<1>4. ASSUME NEW k \in 1 .. n, k - 1 \in P PROVE k \in P
  <2> DEFINE j == k - 1
  <2>1. j \in Nat /\ j + 1 = k /\ k \in 0 .. n
    OBVIOUS
  <2>2. Node(C.nxt, h, j) = Node(c.nxt, h, j) /\ Node(C.nxt, h, j) \in I \cup {Missing}
    BY <1>4
  <2> HIDE DEF j
  <2>3. Node(C.nxt, h, k) = After(C.nxt, Node(C.nxt, h, j))
        /\ Node(c.nxt, h, k) = After(c.nxt, Node(c.nxt, h, j))
    BY <1>2, <2>1
  <2>4. Node(C.nxt, h, k) = Node(c.nxt, h, k) /\ Node(C.nxt, h, k) \in I \cup {Missing}
    BY <1>1, <2>2, <2>3 DEF After
  <2> QED
    BY <2>1, <2>4
<1>5. \A k \in 0 .. n : k \in P
  <2> HIDE DEF P
  <2> QED
    BY <1>3, <1>4, InductionUpTo
<1> QED
  BY <1>5 DEF c

\* ... and so reaches the same rows ...
LEMMA PartReached ==
  ASSUME NEW R, NEW I, NEW T, NEW C, NEW ord, PartLinked(R, I, T, C, ord),
         NEW h \in I \cup {Missing}, NEW n \in Nat
  PROVE  Reached(C.nxt, h, n) = Reached(PartOf(C, I).nxt, h, n)
<1> DEFINE c == PartOf(C, I)
           N(k) == Node(C.nxt, h, k)
           M(k) == Node(c.nxt, h, k)
<1>1. /\ DOMAIN c.nxt = I /\ I \subseteq R /\ Missing \notin R /\ DOMAIN C.nxt = R
  BY PartFields DEF PartLinked
<1>2. \A k \in 0 .. n - 1 : N(k) = M(k) /\ N(k) \in I \cup {Missing}
  BY PartNode
<1>3. /\ Reached(C.nxt, h, n) = {r \in R : \E k \in 0 .. n - 1 : N(k) = r}
      /\ Reached(c.nxt, h, n) = {r \in I : \E k \in 0 .. n - 1 : M(k) = r}
  BY <1>1 DEF Reached
<1> HIDE DEF c, N, M
<1> QED
  BY <1>1, <1>2, <1>3 DEF c

\* ... and the same survivor.
LEMMA PartSurvivor ==
  ASSUME NEW R, NEW I, NEW T, NEW C, NEW ord, PartLinked(R, I, T, C, ord),
         NEW h \in I \cup {Missing}, NEW dead \in SUBSET R
  PROVE  SurvivingNeighbor(C.nxt, h, dead) = SurvivingNeighbor(PartOf(C, I).nxt, h, dead \cap I)
<1> DEFINE c == PartOf(C, I)
           D == dead \cap I
           N(k) == Node(C.nxt, h, k)
           M(k) == Node(c.nxt, h, k)
           Is(k) == N(k) \notin dead /\ \A j \in 0 .. k - 1 : N(j) \in dead
           Was(k) == M(k) \notin D /\ \A j \in 0 .. k - 1 : M(j) \in D
           m == CHOOSE k \in 0 .. Cardinality(R) : Is(k)
           i == CHOOSE k \in 0 .. Cardinality(I) : Was(k)
<1>1. /\ DOMAIN c.nxt = I /\ I \subseteq R /\ Missing \notin R /\ DOMAIN C.nxt = R
      /\ IsFiniteSet(I) /\ IsFiniteSet(R) /\ Linked(I, T, c, ord)
  BY PartFields DEF PartLinked
<1>2. SurvivingNeighbor(C.nxt, h, dead) = N(m)
  BY <1>1 DEF SurvivingNeighbor
<1>3. SurvivingNeighbor(c.nxt, h, D) = M(i)
  BY <1>1 DEF SurvivingNeighbor
<1>4. \A k \in Nat : N(k) = M(k) /\ N(k) \in I \cup {Missing}
  BY PartNode
<1>5. \A k \in Nat : N(k) \in dead <=> M(k) \in D
  BY <1>1, <1>4
<1>6. \A k \in Nat : Is(k) <=> Was(k)
  <2> HIDE DEF N, M, D
  <2> SUFFICES ASSUME NEW k \in Nat PROVE Is(k) <=> Was(k)
    OBVIOUS
  <2>1. \A j \in 0 .. k - 1 : j \in Nat
    OBVIOUS
  <2> QED
    BY <1>5, <2>1
<1>7. \A k, l \in Nat : Is(k) /\ Is(l) => k = l
  <2> HIDE DEF N
  <2>1. ASSUME NEW k \in Nat, NEW l \in Nat, Is(k), Is(l), k < l PROVE FALSE
    <3>1. k \in 0 .. l - 1
      BY <2>1
    <3> QED
      BY <2>1, <3>1
  <2> HIDE DEF Is
  <2> QED
    BY <2>1
<1>8. i \in 0 .. Cardinality(I) /\ Was(i)
  <2>1. \E k \in 0 .. Cardinality(I) : Was(k)
    <3> HIDE DEF c
    <3>1. D \in SUBSET I
      OBVIOUS
    <3> HIDE DEF D
    <3> QED
      BY <1>1, <3>1, SurvivorExists
  <2> HIDE DEF Was
  <2> QED
    BY <2>1
<1>9. /\ Cardinality(I) \in Nat /\ Cardinality(R) \in Nat /\ Cardinality(I) <= Cardinality(R)
  BY <1>1, FS_Subset, FS_CardinalityType
<1> HIDE DEF Is, Was
<1>10. i \in Nat /\ i \in 0 .. Cardinality(R) /\ Is(i)
  <2> HIDE DEF i
  <2> QED
    BY <1>6, <1>8, <1>9
<1>11. m \in 0 .. Cardinality(R) /\ Is(m)
  <2> HIDE DEF i
  <2> QED
    BY <1>10
<1>12. m = i
  <2> HIDE DEF m, i
  <2> QED
    BY <1>7, <1>9, <1>10, <1>11
<1> HIDE DEF m, i
<1> QED
  BY <1>2, <1>3, <1>4, <1>10, <1>12 DEF c, D

\* The phases of a patch are those of the columns of these rows alone.
LEMMA PartUnlinked ==
  ASSUME NEW R, NEW I, NEW T, NEW C, NEW ord, PartLinked(R, I, T, C, ord),
         NEW dead \in SUBSET I, NEW ignore
  PROVE  PatchUnlinked(C, dead, ignore) = PatchUnlinked(PartOf(C, I), dead, ignore)
<1> DEFINE c == PartOf(C, I)
           after(r) == SurvivingNeighbor(C.nxt, C.nxt[r], dead)
           before(r) == C.prv[r]
           parent(r) == C.fk[r]
           after2(r) == SurvivingNeighbor(c.nxt, c.nxt[r], dead)
           before2(r) == c.prv[r]
           parent2(r) == c.fk[r]
           starts == {r \in dead : before(r) \notin dead}
           starts2 == {r \in dead : before2(r) \notin dead}
           N == {r \in starts : before(r) # Missing}
           N2 == {r \in starts2 : before2(r) # Missing}
           P == {r \in starts : after(r) # Missing}
           P2 == {r \in starts2 : after2(r) # Missing}
           H == {r \in starts : /\ before(r) = Missing
                                /\ parent(r) # Missing
                                /\ parent(r) \notin ignore
                                /\ C.head[parent(r)] = r}
           H2 == {r \in starts2 : /\ before2(r) = Missing
                                  /\ parent2(r) # Missing
                                  /\ parent2(r) \notin ignore
                                  /\ c.head[parent2(r)] = r}
           toN(i) == after(CHOOSE x \in N : before(x) = i)
           toN2(i) == after2(CHOOSE x \in N2 : before2(x) = i)
           toP(i) == before(CHOOSE x \in P : after(x) = i)
           toP2(i) == before2(CHOOSE x \in P2 : after2(x) = i)
           toH(i) == after(CHOOSE x \in H : parent(x) = i)
           toH2(i) == after2(CHOOSE x \in H2 : parent2(x) = i)
<1>1. PatchUnlinked(C, dead, ignore)
        = [nxt  |-> [i \in {before(x) : x \in N} |-> toN(i)],
           prv  |-> [i \in {after(x) : x \in P} |-> toP(i)],
           head |-> [i \in {parent(x) : x \in H} |-> toH(i)]]
  BY DEF PatchUnlinked, Writes
<1>2. PatchUnlinked(c, dead, ignore)
        = [nxt  |-> [i \in {before2(x) : x \in N2} |-> toN2(i)],
           prv  |-> [i \in {after2(x) : x \in P2} |-> toP2(i)],
           head |-> [i \in {parent2(x) : x \in H2} |-> toH2(i)]]
  BY DEF PatchUnlinked, Writes
<1>3. c.head = C.head
  BY PartFields
<1>4. ASSUME NEW r \in dead
      PROVE  before(r) = before2(r) /\ parent(r) = parent2(r) /\ after(r) = after2(r)
  <2>1. /\ c.fk[r] = C.fk[r] /\ c.nxt[r] = C.nxt[r] /\ c.prv[r] = C.prv[r]
        /\ C.nxt[r] \in I \cup {Missing}
    BY PartFields
  <2>2. dead \in SUBSET R /\ dead \cap I = dead
    BY DEF PartLinked
  <2>3. SurvivingNeighbor(C.nxt, C.nxt[r], dead) = SurvivingNeighbor(c.nxt, C.nxt[r], dead)
    BY <2>1, <2>2, PartSurvivor
  <2> QED
    BY <2>1, <2>3
<1> HIDE DEF before, before2, parent, parent2, after, after2, c
<1>5. N2 = N /\ P2 = P /\ H2 = H
  <2>1. starts2 = starts
    BY <1>4
  <2>2. starts \subseteq dead
    OBVIOUS
  <2> HIDE DEF starts, starts2
  <2>3. N2 = N /\ P2 = P
    BY <1>4, <2>1, <2>2
  <2>4. H2 = H
    BY <1>3, <1>4, <2>1, <2>2
  <2> QED
    BY <2>3, <2>4
<1>6. N \subseteq dead /\ P \subseteq dead /\ H \subseteq dead
  OBVIOUS
<1> HIDE DEF N, N2, P, P2, H, H2, starts, starts2
<1>7. /\ {before(x) : x \in N} = {before2(x) : x \in N2}
      /\ {after(x) : x \in P} = {after2(x) : x \in P2}
      /\ {parent(x) : x \in H} = {parent2(x) : x \in H2}
  BY <1>4, <1>5, <1>6
<1>8. ASSUME NEW i, i \in {before(x) : x \in N}
      PROVE  toN(i) = toN2(i)
  <2>1. \A x : (x \in N /\ before(x) = i) <=> (x \in N2 /\ before2(x) = i)
    BY <1>4, <1>5, <1>6
  <2>2. (CHOOSE x \in N : before(x) = i) = CHOOSE x \in N2 : before2(x) = i
    BY <2>1, Zenon
  <2>3. (CHOOSE x \in N : before(x) = i) \in N
    BY <1>8
  <2> QED
    BY <1>4, <1>6, <2>2, <2>3
<1>9. ASSUME NEW i, i \in {after(x) : x \in P}
      PROVE  toP(i) = toP2(i)
  <2>1. \A x : (x \in P /\ after(x) = i) <=> (x \in P2 /\ after2(x) = i)
    BY <1>4, <1>5, <1>6
  <2>2. (CHOOSE x \in P : after(x) = i) = CHOOSE x \in P2 : after2(x) = i
    BY <2>1, Zenon
  <2>3. (CHOOSE x \in P : after(x) = i) \in P
    BY <1>9
  <2> QED
    BY <1>4, <1>6, <2>2, <2>3
<1>10. ASSUME NEW i, i \in {parent(x) : x \in H}
       PROVE  toH(i) = toH2(i)
  <2>1. \A x : (x \in H /\ parent(x) = i) <=> (x \in H2 /\ parent2(x) = i)
    BY <1>4, <1>5, <1>6
  <2>2. (CHOOSE x \in H : parent(x) = i) = CHOOSE x \in H2 : parent2(x) = i
    BY <2>1, Zenon
  <2>3. (CHOOSE x \in H : parent(x) = i) \in H
    BY <1>10
  <2> QED
    BY <1>4, <1>6, <2>2, <2>3
<1> HIDE DEF toN, toN2, toP, toP2, toH, toH2
<1>11. PatchUnlinked(C, dead, ignore) = PatchUnlinked(c, dead, ignore)
  BY <1>1, <1>2, <1>7, <1>8, <1>9, <1>10
<1> QED
  BY <1>11 DEF c

LEMMA PartRelocated ==
  ASSUME NEW R, NEW I, NEW T, NEW C, NEW ord, PartLinked(R, I, T, C, ord),
         NEW moved \in SUBSET I, NEW ignore
  PROVE  PatchRelocated(C, moved, ignore) = PatchRelocated(PartOf(C, I), moved, ignore)
<1> DEFINE c == PartOf(C, I)
           before(r) == C.prv[r]
           after(r) == C.nxt[r]
           parent(r) == C.fk[r]
           before2(r) == c.prv[r]
           after2(r) == c.nxt[r]
           parent2(r) == c.fk[r]
           N == {r \in moved : before(r) # Missing /\ C.nxt[before(r)] = r}
           N2 == {r \in moved : before2(r) # Missing /\ c.nxt[before2(r)] = r}
           P == {r \in moved : after(r) # Missing /\ C.prv[after(r)] = r}
           P2 == {r \in moved : after2(r) # Missing /\ c.prv[after2(r)] = r}
           H == {r \in moved : /\ parent(r) # Missing /\ parent(r) \notin ignore
                               /\ C.head[parent(r)] = r}
           H2 == {r \in moved : /\ parent2(r) # Missing /\ parent2(r) \notin ignore
                                /\ c.head[parent2(r)] = r}
           toN(i) == CHOOSE x \in N : before(x) = i
           toN2(i) == CHOOSE x \in N2 : before2(x) = i
           toP(i) == CHOOSE x \in P : after(x) = i
           toP2(i) == CHOOSE x \in P2 : after2(x) = i
           toH(i) == CHOOSE x \in H : parent(x) = i
           toH2(i) == CHOOSE x \in H2 : parent2(x) = i
<1>1. PatchRelocated(C, moved, ignore)
        = [nxt  |-> [i \in {before(x) : x \in N} |-> toN(i)],
           prv  |-> [i \in {after(x) : x \in P} |-> toP(i)],
           head |-> [i \in {parent(x) : x \in H} |-> toH(i)]]
  BY DEF PatchRelocated, Writes
<1>2. PatchRelocated(c, moved, ignore)
        = [nxt  |-> [i \in {before2(x) : x \in N2} |-> toN2(i)],
           prv  |-> [i \in {after2(x) : x \in P2} |-> toP2(i)],
           head |-> [i \in {parent2(x) : x \in H2} |-> toH2(i)]]
  BY DEF PatchRelocated, Writes
<1>3. /\ c.head = C.head
      /\ \A x \in I : /\ c.fk[x] = C.fk[x] /\ c.nxt[x] = C.nxt[x] /\ c.prv[x] = C.prv[x]
                      /\ C.nxt[x] \in I \cup {Missing} /\ C.prv[x] \in I \cup {Missing}
  BY PartFields
<1>4. ASSUME NEW r \in moved
      PROVE  /\ before(r) = before2(r) /\ parent(r) = parent2(r) /\ after(r) = after2(r)
             /\ before(r) # Missing => C.nxt[before(r)] = c.nxt[before(r)]
             /\ after(r) # Missing => C.prv[after(r)] = c.prv[after(r)]
  BY <1>3
<1> HIDE DEF before, before2, parent, parent2, after, after2, c
<1>5. N2 = N /\ P2 = P /\ H2 = H
  BY <1>3, <1>4
<1>6. N \subseteq moved /\ P \subseteq moved /\ H \subseteq moved
  OBVIOUS
<1> HIDE DEF N, N2, P, P2, H, H2
<1>7. /\ {before(x) : x \in N} = {before2(x) : x \in N2}
      /\ {after(x) : x \in P} = {after2(x) : x \in P2}
      /\ {parent(x) : x \in H} = {parent2(x) : x \in H2}
  BY <1>4, <1>5, <1>6
<1>8. ASSUME NEW i
      PROVE  toN(i) = toN2(i) /\ toP(i) = toP2(i) /\ toH(i) = toH2(i)
  <2>1. /\ \A x : (x \in N /\ before(x) = i) <=> (x \in N2 /\ before2(x) = i)
        /\ \A x : (x \in P /\ after(x) = i) <=> (x \in P2 /\ after2(x) = i)
        /\ \A x : (x \in H /\ parent(x) = i) <=> (x \in H2 /\ parent2(x) = i)
    BY <1>4, <1>5, <1>6
  <2> QED
    BY <2>1, Zenon
<1> HIDE DEF toN, toN2, toP, toP2, toH, toH2
<1>9. PatchRelocated(C, moved, ignore) = PatchRelocated(c, moved, ignore)
  BY <1>1, <1>2, <1>7, <1>8
<1> QED
  BY <1>9 DEF c

LEMMA PartSplice ==
  ASSUME NEW R, NEW I, NEW T, NEW C, NEW ord, PartLinked(R, I, T, C, ord),
         NEW dead \in SUBSET R, NEW items
  PROVE  Splice(C, items, dead) = Splice(PartOf(C, I), items, dead \cap I)
<1> DEFINE c == PartOf(C, I)
           J == DOMAIN items
           targets == {items[i].target : i \in J} \ {Missing}
           mates(i) == {j \in J : items[j].target = items[i].target}
           earlier(i) == {j \in mates(i) : j < i}
           later(i) == {j \in mates(i) : j > i}
           group(t) == {i \in J : items[i].target = t}
           first(t) == CHOOSE i \in group(t) : earlier(i) = {}
           last(t)  == CHOOSE i \in group(t) : later(i) = {}
           row(i) == items[i].row
           prevOf(i) ==
             IF items[i].target = Missing \/ earlier(i) = {} THEN Missing
             ELSE row(CHOOSE j \in earlier(i) : \A k \in earlier(i) : j >= k)
           firstRow(t) == row(first(t))
           lastRow(t) == row(last(t))
           old(t) == SurvivingNeighbor(
                       C.nxt, IF t \in DOMAIN C.head THEN C.head[t] ELSE Missing, dead)
           old2(t) == SurvivingNeighbor(
                       c.nxt, IF t \in DOMAIN c.head THEN c.head[t] ELSE Missing, dead \cap I)
           nextOf(i) ==
             CASE items[i].target = Missing -> Missing
               [] items[i].target # Missing /\ later(i) # {} ->
                    row(CHOOSE j \in later(i) : \A k \in later(i) : j <= k)
               [] OTHER -> old(items[i].target)
           nextOf2(i) ==
             CASE items[i].target = Missing -> Missing
               [] items[i].target # Missing /\ later(i) # {} ->
                    row(CHOOSE j \in later(i) : \A k \in later(i) : j <= k)
               [] OTHER -> old2(items[i].target)
           K == {t \in targets : old(t) # Missing}
           K2 == {t \in targets : old2(t) # Missing}
           toK(i) == CHOOSE t \in K : old(t) = i
           toK2(i) == CHOOSE t \in K2 : old2(t) = i
           w == [i \in {row(x) : x \in J} |-> prevOf(CHOOSE x \in J : row(x) = i)]
           h == [i \in {t : t \in targets} |-> firstRow(CHOOSE x \in targets : x = i)]
<1>1. Splice(C, items, dead)
        = [nxt  |-> [i \in {row(x) : x \in J} |-> nextOf(CHOOSE x \in J : row(x) = i)],
           prv  |-> Then(w, [i \in {old(t) : t \in K} |-> lastRow(toK(i))]),
           head |-> h]
  BY DEF Splice, Writes
<1>2. Splice(c, items, dead \cap I)
        = [nxt  |-> [i \in {row(x) : x \in J} |-> nextOf2(CHOOSE x \in J : row(x) = i)],
           prv  |-> Then(w, [i \in {old2(t) : t \in K2} |-> lastRow(toK2(i))]),
           head |-> h]
  BY DEF Splice, Writes
<1>3. ASSUME NEW t PROVE old(t) = old2(t)
  <2>1. c.head = C.head /\ DOMAIN C.head = T /\ \A u \in T : C.head[u] \in I \cup {Missing}
    BY PartFields
  <2> QED
    BY <2>1, PartSurvivor
<1> HIDE DEF old, old2, c
<1>4. K2 = K
  BY <1>3
<1> HIDE DEF K, K2, w, h, targets, J
<1>5. {old(t) : t \in K} = {old2(t) : t \in K2}
  BY <1>3, <1>4
<1>6. ASSUME NEW i
      PROVE  toK(i) = toK2(i)
  <2>1. \A t : (t \in K /\ old(t) = i) <=> (t \in K2 /\ old2(t) = i)
    BY <1>3, <1>4
  <2> QED
    BY <2>1, Zenon
<1> HIDE DEF lastRow, row, toK, toK2
<1>7. [i \in {old(t) : t \in K} |-> lastRow(toK(i))]
        = [i \in {old2(t) : t \in K2} |-> lastRow(toK2(i))]
  BY <1>5, <1>6
<1>8. ASSUME NEW i PROVE nextOf(i) = nextOf2(i)
  <2> HIDE DEF later, mates
  <2>1. old(items[i].target) = old2(items[i].target)
    BY <1>3
  <2> QED
    BY <2>1
<1> HIDE DEF nextOf, nextOf2
<1>9. [i \in {row(x) : x \in J} |-> nextOf(CHOOSE x \in J : row(x) = i)]
        = [i \in {row(x) : x \in J} |-> nextOf2(CHOOSE x \in J : row(x) = i)]
  BY <1>8
<1>10. Splice(C, items, dead) = Splice(c, items, dead \cap I)
  BY <1>1, <1>2, <1>7, <1>9
<1> QED
  BY <1>10 DEF c

\* Of columns c whose links are those of C, FixMovedTargets changes only the
\* keys of the rows of I, to those of C.
LEMMA PartFixed ==
  ASSUME NEW R, NEW I, NEW T, NEW C, NEW ord, PartLinked(R, I, T, C, ord),
         C.prv = [x \in R |-> C.prv[x]],
         NEW c, c = [fk |-> c.fk, nxt |-> C.nxt, prv |-> C.prv, head |-> C.head],
         DOMAIN c.fk = R, NEW movedTo \in SUBSET T
  PROVE  /\ FixMovedTargets(c, movedTo).prv = C.prv
         /\ DOMAIN FixMovedTargets(c, movedTo).fk = R
         /\ \A x \in R : FixMovedTargets(c, movedTo).fk[x]
                           = IF x \in I /\ C.fk[x] \in movedTo THEN C.fk[x] ELSE c.fk[x]
<1> DEFINE chain(t) == Reached(c.nxt, c.head[t], Cardinality(DOMAIN c.nxt))
           hits == {t \in movedTo : c.head[t] # Missing}
           owner(x) == {t \in hits : x \in chain(t)}
           keys == [x \in R |-> IF owner(x) # {} THEN CHOOSE t \in owner(x) : TRUE ELSE c.fk[x]]
           prevs == [x \in R |-> IF \E t \in hits : c.head[t] = x THEN Missing ELSE c.prv[x]]
           e == PartOf(C, I)
<1>1. /\ Linked(I, T, e, ord) /\ IsFiniteSet(I) /\ e.head = C.head
      /\ \A x \in I : e.fk[x] = C.fk[x] /\ e.prv[x] = C.prv[x]
      /\ \A t \in T : C.head[t] \in I \cup {Missing}
      /\ Missing \notin I /\ Missing \notin T
      /\ IsFiniteSet(R) /\ I \subseteq R /\ DOMAIN C.nxt = R /\ DOMAIN e.fk = I
  <2>1. /\ Linked(I, T, e, ord) /\ IsFiniteSet(I) /\ e.head = C.head
        /\ \A x \in I : e.fk[x] = C.fk[x] /\ e.prv[x] = C.prv[x]
        /\ \A t \in T : C.head[t] \in I \cup {Missing}
        /\ Missing \notin I /\ Missing \notin T
    BY PartFields
  <2>2. DOMAIN e.fk = I
    BY DEF PartOf
  <2>3. IsFiniteSet(R) /\ I \subseteq R /\ DOMAIN C.nxt = R
    BY DEF PartLinked
  <2> QED
    BY <2>1, <2>2, <2>3
<1>2. c.nxt = C.nxt /\ c.prv = C.prv /\ c.head = C.head /\ DOMAIN c.prv = R
      /\ DOMAIN c = {"fk", "nxt", "prv", "head"}
  <2>1. c.nxt = C.nxt /\ c.prv = C.prv /\ c.head = C.head /\ DOMAIN c = {"fk", "nxt", "prv", "head"}
    OBVIOUS
  <2> QED
    BY <2>1
<1>3. /\ FixMovedTargets(c, movedTo).fk = keys /\ FixMovedTargets(c, movedTo).prv = prevs
  <2>1. FixMovedTargets(c, movedTo) = [c EXCEPT !.fk = keys, !.prv = prevs]
    BY <1>2 DEF FixMovedTargets
  <2> HIDE DEF keys, prevs
  <2> QED
    BY <1>2, <2>1
<1>4. ASSUME NEW t \in T PROVE chain(t) = RowsTo(I, e.fk, t)
  <2>1. RowsTo(I, e.fk, t) \subseteq R
    BY <1>1 DEF RowsTo
  <2>2. /\ Cardinality(R) \in Nat /\ Cardinality(RowsTo(I, e.fk, t)) <= Cardinality(R)
    BY <1>1, <2>1, FS_Subset, FS_CardinalityType
  <2> HIDE DEF e
  <2>3. Reached(e.nxt, e.head[t], Cardinality(R)) = RowsTo(I, e.fk, t)
    BY <1>1, <2>2, WalkFindsRows
  <2>4. Reached(C.nxt, C.head[t], Cardinality(R)) = Reached(e.nxt, C.head[t], Cardinality(R))
    BY <1>1, <2>2, PartReached DEF e
  <2> QED
    BY <1>1, <1>2, <2>3, <2>4
<1>5. \A t \in T : HeadIs(I, e.fk, ord, t, C.head[t])
  <2> HIDE DEF e
  <2> QED
    BY <1>1 DEF Linked
<1> HIDE DEF chain
<1>6. ASSUME NEW x \in R
      PROVE  keys[x] = IF x \in I /\ C.fk[x] \in movedTo THEN C.fk[x] ELSE c.fk[x]
  <2>1. \A t \in owner(x) : x \in I /\ t = C.fk[x]
    BY <1>1, <1>4 DEF RowsTo
  <2>2. CASE x \in I /\ C.fk[x] \in movedTo
    <3>1. C.fk[x] \in T
      BY <2>2
    <3>2. C.head[C.fk[x]] # Missing
      BY <1>1, <1>5, <2>2, <3>1 DEF HeadIs
    <3>3. C.fk[x] \in hits /\ x \in chain(C.fk[x])
      BY <1>1, <1>2, <1>4, <2>2, <3>1, <3>2 DEF RowsTo
    <3>4. C.fk[x] \in owner(x)
      BY <3>3
    <3> HIDE DEF owner
    <3> QED
      BY <2>1, <2>2, <3>4
  <2>3. CASE ~(x \in I /\ C.fk[x] \in movedTo)
    <3>1. owner(x) = {}
      BY <2>1, <2>3
    <3> HIDE DEF owner
    <3> QED
      BY <2>3, <3>1
  <2> QED
    BY <2>2, <2>3
<1>7. ASSUME NEW x \in R PROVE prevs[x] = C.prv[x]
  <2>1. ASSUME NEW t \in hits, c.head[t] = x PROVE C.prv[x] = Missing
    <3>1. t \in T /\ C.head[t] \in I /\ x \in I /\ e.head[t] = x
      BY <1>1, <1>2, <2>1
    <3>2. e.prv[e.head[t]] = Missing
      <4> HIDE DEF e, hits
      <4> QED
        BY <1>1, <3>1, HeadsHaveNoPrevious
    <3> QED
      BY <1>1, <3>1, <3>2
  <2> HIDE DEF hits
  <2> QED
    BY <1>2, <2>1
<1>8. prevs = C.prv
  <2> HIDE DEF hits, e
  <2> QED
    BY <1>7
<1> QED
  BY <1>3, <1>6, <1>8
=============================================================================
