--------------------------- MODULE Session_proofs ---------------------------
(***************************************************************************)
(* What a program can rely on across blocks, for every nesting depth, every *)
(* number of rows and every choice of hooks: the commit of a context that is *)
(* up to date leaves exactly the rows it should and fills its trackers     *)
(* rightly, and what the last block of a context drops is never committed. *)
(***************************************************************************)
EXTENDS Session, RemapOracle_proofs, SequenceTheorems

(***************************************************************************)
(* The chunks of a context one after the other (np.concatenate).           *)
(***************************************************************************)
\* The values v[0], v[1], ... are the concatenations of the first chunks.
Concatenates(v, chunks) ==
  /\ v[0] = <<>>
  /\ \A k \in 1 .. Len(chunks) : v[k] = v[k - 1] \o chunks[k]

\* The first chunks have concatenations, which are sequences of rows.
LEMMA Concatenations ==
  ASSUME NEW S, NEW chunks \in Seq(Seq(S))
  PROVE  \E v \in [0 .. Len(chunks) -> Seq(S)] : Concatenates(v, chunks)
<1> DEFINE n == Len(chunks)
           T == Seq(S)
           F == [k \in 1 .. n |-> [s \in T |-> s \o chunks[k]]]
<1>1. n \in Nat /\ <<>> \in T
  BY LenProperties, EmptySeq
<1>2. ASSUME NEW s \in T, NEW k \in 1 .. n PROVE s \o chunks[k] \in T
  <2>1. chunks[k] \in T
    BY ElementOfSeq
  <2> QED
    BY <2>1, ConcatProperties
<1>3. IsStep(F, n, T)
  <2> HIDE DEF n, T
  <2> QED
    BY <1>2 DEF IsStep
<1>4. PICK v : Follows(v, n, T, <<>>, F)
  <2> HIDE DEF n, T, F
  <2> QED
    BY <1>1, <1>3, RecursionUpTo
<1>5. v \in [0 .. n -> T] /\ v[0] = <<>> /\ \A k \in 1 .. n : v[k] = F[k][v[k - 1]]
  <2> HIDE DEF n, T, F
  <2> QED
    BY <1>4 DEF Follows
<1>6. ASSUME NEW k \in 1 .. n PROVE v[k] = v[k - 1] \o chunks[k]
  <2>1. k - 1 \in 0 .. n
    BY <1>1
  <2> HIDE DEF T, n
  <2>2. v[k - 1] \in T
    BY <1>5, <2>1
  <2>3. F[k][v[k - 1]] = v[k - 1] \o chunks[k]
    BY <2>2
  <2> HIDE DEF F
  <2> QED
    BY <1>5, <2>3
<1> HIDE DEF F
<1> QED
  BY <1>5, <1>6 DEF Concatenates

\* Flat is the last of them.
LEMMA FlatIsLast ==
  ASSUME NEW S, NEW chunks \in Seq(Seq(S)),
         NEW v \in [0 .. Len(chunks) -> Seq(S)], Concatenates(v, chunks)
  PROVE  Flat(chunks) = v[Len(chunks)]
<1> DEFINE n == Len(chunks)
           Join(s, k) == s \o chunks[k]
           Eq(f) == f = [k \in 0 .. n |-> IF k = 0 THEN <<>> ELSE Join(f[k - 1], k)]
           cat == CHOOSE f : Eq(f)
           P == {k \in 0 .. n : cat[k] = v[k]}
<1>1. n \in Nat
  BY LenProperties
<1>2. v[0] = <<>> /\ \A k \in 1 .. n : v[k] = Join(v[k - 1], k)
  BY Zenon DEF Concatenates
<1>3. Flat(chunks) = cat[n]
  BY DEF Flat
<1> HIDE DEF Join, n
<1>4. Eq(v)
  <2>1. \A k \in 0 .. n : k # 0 => k \in 1 .. n
    BY <1>1
  <2>2. \A k \in 0 .. n : v[k] = IF k = 0 THEN <<>> ELSE Join(v[k - 1], k)
    BY <1>2, <2>1
  <2>3. v \in [0 .. n -> Seq(S)]
    BY DEF n
  <2> QED
    BY <2>2, <2>3
<1>5. Eq(cat)
  <2> HIDE DEF Eq
  <2> QED
    BY <1>4
<1>6. cat = [k \in 0 .. n |-> IF k = 0 THEN <<>> ELSE Join(cat[k - 1], k)]
  BY <1>5
<1> HIDE DEF cat, Eq
<1>7. cat[0] = <<>> /\ \A k \in 1 .. n : cat[k] = Join(cat[k - 1], k)
  <2>1. 0 \in 0 .. n /\ \A k \in 1 .. n : k \in 0 .. n /\ k # 0
    BY <1>1
  <2> QED
    BY <1>6, <2>1
<1>8. 0 \in P
  BY <1>1, <1>2, <1>7
<1>9. ASSUME NEW k \in 1 .. n, k - 1 \in P PROVE k \in P
  <2>1. v[k] = Join(v[k - 1], k) /\ cat[k] = Join(cat[k - 1], k) /\ k \in 0 .. n
    BY <1>1, <1>2, <1>7
  <2> QED
    BY <1>9, <2>1
<1>10. \A k \in 0 .. n : k \in P
  <2> HIDE DEF P
  <2> QED
    BY <1>1, <1>8, <1>9, InductionUpTo
<1>11. n \in P
  BY <1>1, <1>10
<1> QED
  BY <1>3, <1>11 DEF n

\* The rows of the chunks are rows; those of no chunk are none; a chunk adds
\* its rows at the end.
LEMMA FlatProperties ==
  ASSUME NEW S, NEW chunks \in Seq(Seq(S))
  PROVE  /\ Flat(chunks) \in Seq(S)
         /\ chunks = <<>> => Flat(chunks) = <<>>
         /\ \A batch \in Seq(S) : Flat(Append(chunks, batch)) = Flat(chunks) \o batch
<1> DEFINE n == Len(chunks)
<1>1. PICK v \in [0 .. n -> Seq(S)] : Concatenates(v, chunks)
  BY Concatenations
<1>2. n \in Nat /\ n \in 0 .. n
  BY LenProperties
<1>3. Flat(chunks) = v[n]
  BY <1>1, FlatIsLast
<1>4. chunks = <<>> => Flat(chunks) = <<>>
  <2>1. chunks = <<>> => n = 0
    OBVIOUS
  <2> QED
    BY <1>1, <1>3, <2>1 DEF Concatenates
<1>5. ASSUME NEW batch \in Seq(S)
      PROVE  Flat(Append(chunks, batch)) = Flat(chunks) \o batch
  <2> DEFINE more == Append(chunks, batch)
             w == [k \in 0 .. n + 1 |-> IF k <= n THEN v[k] ELSE v[n] \o batch]
  <2>1. /\ more \in Seq(Seq(S)) /\ Len(more) = n + 1
        /\ more[n + 1] = batch /\ \A k \in 1 .. n : more[k] = chunks[k]
    BY <1>2
  <2>2. v[n] \o batch \in Seq(S)
    <3>1. v[n] \in Seq(S)
      BY <1>1, <1>2
    <3> QED
      BY <3>1, ConcatProperties
  <2>3. w \in [0 .. n + 1 -> Seq(S)]
    <3> HIDE DEF n
    <3>1. ASSUME NEW k \in 0 .. n + 1
          PROVE  (IF k <= n THEN v[k] ELSE v[n] \o batch) \in Seq(S)
      <4>1. k <= n => k \in 0 .. n
        BY <1>2
      <4> QED
        BY <1>1, <2>2, <4>1
    <3> QED
      BY <3>1
  <2>4. Concatenates(w, more)
    <3> SUFFICES ASSUME NEW k \in 1 .. n + 1 PROVE w[k] = w[k - 1] \o more[k]
      <4>1. w[0] = v[0]
        BY <1>2
      <4> HIDE DEF w, more
      <4> QED
        BY <1>1, <2>1, <4>1 DEF Concatenates
    <3>1. w[k - 1] = v[k - 1]
      BY <1>2
    <3>2. CASE k = n + 1
      <4>1. w[k] = v[n] \o batch /\ k - 1 = n
        BY <1>2, <3>2
      <4> HIDE DEF w, more, n
      <4> QED
        BY <2>1, <3>1, <3>2, <4>1
    <3>3. CASE k # n + 1
      <4>1. k \in 1 .. n /\ w[k] = v[k]
        BY <1>2, <3>3
      <4>2. v[k] = v[k - 1] \o chunks[k]
        BY <1>1, <4>1 DEF Concatenates
      <4> HIDE DEF w, more
      <4> QED
        BY <2>1, <3>1, <4>1, <4>2
    <3> QED
      BY <3>2, <3>3
  <2>5. w[n + 1] = v[n] \o batch
    BY <1>2
  <2> HIDE DEF w, more
  <2>6. Flat(more) = w[n + 1]
    <3> HIDE DEF n
    <3> QED
      BY <2>1, <2>3, <2>4, FlatIsLast
  <2> QED
    BY <1>3, <2>5, <2>6 DEF more
<1> QED
  BY <1>1, <1>2, <1>3, <1>4, <1>5

(***************************************************************************)
(* The invariant.                                                          *)
(***************************************************************************)
\* A row of the table or of a chunk.
Row == [label : Nat \ {0}, val : Values]

\* The attributes of a context.
Fields == {"start", "counter", "chunks", "dead", "updates", "broken", "trackers", "names"}

\* A tracker is for ids up to last, those of a range one after the other.
TrackerFits(t, last) ==
  /\ t.ids \in Seq(0 .. last)
  /\ t.kind = "range" => \A k \in DOMAIN t.ids : t.ids[k] = t.ids[1] + k - 1

\* The labels a context names are among the first m, its staged ids, which
\* follow its start without a gap, name the rows of its chunks in order, and
\* its edits are of rows the table had when it was made.
WellFormed(ctx, m) ==
  /\ DOMAIN ctx = Fields
  /\ ctx.start \in Nat /\ ctx.counter \in Nat
  /\ ctx.chunks \in Seq(Seq(Row))
  /\ ctx.counter = ctx.start + Len(Flat(ctx.chunks))
  /\ ctx.names \in [0 .. ctx.counter - 1 -> 1 .. m]
  /\ \A k \in 1 .. Len(Flat(ctx.chunks)) :
       Flat(ctx.chunks)[k].label = ctx.names[ctx.start + k - 1]
  /\ ctx.dead \subseteq 0 .. ctx.start - 1
  /\ DOMAIN ctx.updates \subseteq 0 .. ctx.start - 1
  /\ \A i \in DOMAIN ctx.updates : ctx.updates[i] \in Values
  /\ \A t \in ctx.trackers : TrackerFits(t, ctx.counter)

\* A context is current for a table: its staged ids start where the table ends,
\* and the ids before name the rows of the table.
Current(ctx, table) ==
  /\ ctx.start = Len(table)
  /\ \A i \in 0 .. ctx.start - 1 : ctx.names[i] = table[i + 1].label

\* The rows of the table are rows, and no more than there may be.
TableOK(table, m) ==
  /\ table \in Seq(Row) /\ Len(table) <= MaxRows
  /\ \A i \in 1 .. Len(table) : table[i].label <= m

StagedBy(ctx) == Labels(Flat(ctx.chunks))

\* No context stages a row that was dropped, and no two contexts one row.
Separate ==
  /\ \A c \in Held : StagedBy(ctxs[c]) \cap dropped = {}
  /\ \A c, d \in Held : c # d => StagedBy(ctxs[c]) \cap StagedBy(ctxs[d]) = {}

\* The context that edits go to is current: it was made from the table as it
\* is, because a commit of another context leaves it.  The others need only be
\* well formed.  Rows that were dropped are not in the table, and as no context
\* holds them they stay away.
Orderly ==
  /\ made \in Nat /\ made <= MaxLabels
  /\ TableOK(rows, made)
  /\ blocks \in Seq([ctx : Ctxs, since : Nat]) /\ Len(blocks) <= MaxDepth
  /\ DOMAIN ctxs = Ctxs
  /\ active \in Held \cup {NoCtx}
  /\ \A c \in Held : WellFormed(ctxs[c], made)
  /\ active # NoCtx => Current(ctxs[active], rows)
  /\ dropped \subseteq 1 .. made
  /\ dropped \cap Labels(rows) = {}
  /\ Separate

(***************************************************************************)
(* Contexts: a new one, and one with another chunk.                        *)
(***************************************************************************)
\* Rows of the table have labels in reach.
LEMMA TableFacts ==
  ASSUME NEW m \in Nat, NEW table, TableOK(table, m)
  PROVE  /\ Len(table) \in Nat /\ DOMAIN table = 1 .. Len(table)
         /\ \A i \in 1 .. Len(table) : /\ table[i] \in Row /\ table[i].label \in 1 .. m
                                       /\ table[i].val \in Values
         /\ \A l : l \in Labels(table) <=> \E i \in 1 .. Len(table) : table[i].label = l
<1>1. Len(table) \in Nat /\ DOMAIN table = 1 .. Len(table)
  BY LenProperties DEF TableOK
<1>2. ASSUME NEW i \in 1 .. Len(table)
      PROVE  table[i] \in Row /\ table[i].label \in 1 .. m /\ table[i].val \in Values
  <2>1. table[i] \in Row
    BY ElementOfSeq DEF TableOK
  <2>2. table[i].label \in Nat \ {0} /\ table[i].val \in Values /\ table[i].label <= m
    BY <2>1 DEF Row, TableOK
  <2> QED
    BY <2>1, <2>2
<1> QED
  BY <1>1, <1>2 DEF Labels

\* A context that has just been made is well formed and current.
LEMMA FreshIsCurrent ==
  ASSUME NEW m \in Nat, NEW table, TableOK(table, m)
  PROVE  /\ WellFormed(Fresh(table), m) /\ Current(Fresh(table), table)
         /\ StagedBy(Fresh(table)) = {}
<1> DEFINE ctx == Fresh(table)
<1>1. /\ DOMAIN ctx = Fields
      /\ ctx.start = Len(table) /\ ctx.counter = Len(table) /\ ctx.chunks = <<>>
      /\ ctx.dead = {} /\ ctx.trackers = {} /\ DOMAIN ctx.updates = {}
      /\ ctx.names = [i \in 0 .. Len(table) - 1 |-> table[i + 1].label]
  BY DEF Fresh, Fields
<1> HIDE DEF ctx
<1>2. Len(table) \in Nat /\ \A i \in 0 .. Len(table) - 1 : i + 1 \in 1 .. Len(table)
  BY TableFacts
<1>3. /\ \A i \in 0 .. Len(table) - 1 : ctx.names[i] = table[i + 1].label
      /\ ctx.names \in [0 .. Len(table) - 1 -> 1 .. m] /\ DOMAIN ctx.names = 0 .. Len(table) - 1
  BY <1>1, <1>2, TableFacts
<1>4. ctx.chunks \in Seq(Seq(Row)) /\ Flat(ctx.chunks) = <<>> /\ Len(Flat(ctx.chunks)) = 0
  BY <1>1, EmptySeq, FlatProperties
<1>5. WellFormed(ctx, m)
  BY <1>1, <1>2, <1>3, <1>4 DEF WellFormed
<1>6. Current(ctx, table)
  BY <1>1, <1>3 DEF Current
<1>7. StagedBy(ctx) = {}
  BY <1>4 DEF StagedBy, Labels
<1> QED
  BY <1>5, <1>6, <1>7 DEF ctx

\* The labels of a context's staged rows are labels.
LEMMA StagedLabels ==
  ASSUME NEW m \in Nat, NEW ctx, WellFormed(ctx, m), NEW l \in Labels(Flat(ctx.chunks))
  PROVE  \E k \in 1 .. Len(Flat(ctx.chunks)) :
           /\ l = ctx.names[ctx.start + k - 1] /\ l \in 1 .. m
           /\ ctx.start + k - 1 \in DOMAIN ctx.names
<1> DEFINE flat == Flat(ctx.chunks)
           n == Len(flat)
           s == ctx.start
<1>1. flat \in Seq(Row) /\ n \in Nat /\ DOMAIN flat = 1 .. n
  BY FlatProperties, LenProperties DEF WellFormed
<1>2. /\ s \in Nat /\ ctx.counter = s + n
      /\ ctx.names \in [0 .. ctx.counter - 1 -> 1 .. m]
      /\ \A k \in 1 .. n : flat[k].label = ctx.names[s + k - 1]
  BY DEF WellFormed
<1>3. PICK k \in 1 .. n : l = flat[k].label
  BY <1>1 DEF Labels
<1> HIDE DEF n, s, flat
<1>4. s + k - 1 \in 0 .. ctx.counter - 1
  BY <1>1, <1>2
<1> QED
  BY <1>2, <1>3, <1>4 DEF n, s, flat

\* What a chunk changes of a context.
LEMMA ChunkFields ==
  ASSUME NEW ctx, DOMAIN ctx = Fields, NEW batch
  PROVE  LET w == WithChunk(ctx, batch)
         IN  /\ DOMAIN w = Fields
             /\ w.start = ctx.start /\ w.dead = ctx.dead /\ w.updates = ctx.updates
             /\ w.trackers = ctx.trackers /\ w.broken = ctx.broken
             /\ w.chunks = Append(ctx.chunks, batch)
             /\ w.counter = ctx.counter + Len(batch)
             /\ w.names = [i \in DOMAIN ctx.names
                                   \cup ctx.counter .. ctx.counter + Len(batch) - 1 |->
                             IF i < ctx.counter THEN ctx.names[i]
                             ELSE batch[i - ctx.counter + 1].label]
BY DEF WithChunk, Fields

\* A context stays well formed when more labels are handed out.
LEMMA MoreLabels ==
  ASSUME NEW m \in Nat, NEW l \in Nat, m <= l, NEW ctx, WellFormed(ctx, m)
  PROVE  WellFormed(ctx, l)
<1>1. 1 .. m \subseteq 1 .. l
  OBVIOUS
<1>2. ctx.names \in [0 .. ctx.counter - 1 -> 1 .. l]
  BY <1>1 DEF WellFormed
<1> QED
  BY <1>2 DEF WellFormed

\* So does the table.
LEMMA MoreRows ==
  ASSUME NEW m \in Nat, NEW l \in Nat, m <= l, NEW table, TableOK(table, m)
  PROVE  TableOK(table, l)
<1>1. \A i \in 1 .. Len(table) : table[i].label <= l
  BY TableFacts
<1> QED
  BY <1>1 DEF TableOK

\* Staging new rows keeps a context well formed, and current if it was.
LEMMA ChunkStaged ==
  ASSUME NEW m \in Nat, NEW ctx, WellFormed(ctx, m), NEW batch \in Seq(Row),
         \A k \in 1 .. Len(batch) : batch[k].label = m + k
  PROVE  LET w == WithChunk(ctx, batch)
         IN  /\ WellFormed(w, m + Len(batch))
             /\ Flat(w.chunks) = Flat(ctx.chunks) \o batch
             /\ \A table : Current(ctx, table) => Current(w, table)
             /\ \A l \in StagedBy(w) : l \in StagedBy(ctx) \/ l \in m + 1 .. m + Len(batch)
<1> DEFINE w == WithChunk(ctx, batch)
           n == Len(batch)
           flat == Flat(ctx.chunks)
           c == ctx.counter
           start == ctx.start
           len == Len(flat)
<1>0. DOMAIN ctx = Fields
  BY DEF WellFormed
<1>1. /\ DOMAIN w = Fields
      /\ w.start = ctx.start /\ w.dead = ctx.dead /\ w.updates = ctx.updates
      /\ w.trackers = ctx.trackers
      /\ w.chunks = Append(ctx.chunks, batch)
      /\ w.counter = c + n
      /\ w.names = [i \in DOMAIN ctx.names \cup c .. c + n - 1 |->
                      IF i < c THEN ctx.names[i] ELSE batch[i - c + 1].label]
  BY <1>0, ChunkFields
<1> HIDE DEF w
<1>2. /\ ctx.start \in Nat /\ c \in Nat /\ ctx.chunks \in Seq(Seq(Row))
      /\ c = ctx.start + Len(flat)
      /\ ctx.names \in [0 .. c - 1 -> 1 .. m]
      /\ \A k \in 1 .. Len(flat) : flat[k].label = ctx.names[ctx.start + k - 1]
  BY DEF WellFormed
<1>3. flat \in Seq(Row) /\ Len(flat) \in Nat /\ n \in Nat
  BY <1>2, FlatProperties, LenProperties
<1>4. w.chunks \in Seq(Seq(Row)) /\ Flat(w.chunks) = flat \o batch
  BY <1>1, <1>2, FlatProperties, SMTT(30)
<1>5. start \in Nat /\ c \in Nat /\ n \in Nat /\ len \in Nat /\ c = start + len
  BY <1>2, <1>3
<1> HIDE DEF c, n, flat, len, start
<1>6. /\ Len(flat \o batch) = len + n
      /\ \A i \in 1 .. len + n :
           (flat \o batch)[i] = IF i <= len THEN flat[i] ELSE batch[i - len]
      /\ \A k \in 1 .. len : flat[k].label = ctx.names[start + k - 1]
  BY <1>2, <1>3, ConcatProperties DEF n, len, start
<1>7. /\ DOMAIN w.names = 0 .. c + n - 1
      /\ \A i \in 0 .. c - 1 : w.names[i] = ctx.names[i] /\ w.names[i] \in 1 .. m
      /\ \A i \in c .. c + n - 1 :
           w.names[i] = m + (i - c + 1) /\ w.names[i] \in m + 1 .. m + n
  <2>1. DOMAIN ctx.names = 0 .. c - 1
    BY <1>2
  <2>2. (0 .. c - 1) \cup c .. c + n - 1 = 0 .. c + n - 1
    BY <1>5
  <2>3. DOMAIN w.names = 0 .. c + n - 1
    BY <1>1, <2>1, <2>2
  <2>4. ASSUME NEW i \in 0 .. c - 1 PROVE w.names[i] = ctx.names[i] /\ w.names[i] \in 1 .. m
    <3>1. i \in 0 .. c + n - 1 /\ i < c
      BY <1>5
    <3>2. w.names[i] = ctx.names[i]
      BY <1>1, <2>1, <2>2, <3>1
    <3> QED
      BY <1>2, <3>2
  <2>5. ASSUME NEW i \in c .. c + n - 1
        PROVE  w.names[i] = m + (i - c + 1) /\ w.names[i] \in m + 1 .. m + n
    <3>1. i \in 0 .. c + n - 1 /\ ~(i < c) /\ i - c + 1 \in 1 .. n
      BY <1>5
    <3>2. w.names[i] = batch[i - c + 1].label
      BY <1>1, <2>1, <2>2, <3>1
    <3>3. batch[i - c + 1].label = m + (i - c + 1)
      BY <3>1 DEF n
    <3>4. m + (i - c + 1) \in m + 1 .. m + n
      BY <1>5, <3>1
    <3> QED
      BY <3>2, <3>3, <3>4
  <2> QED
    BY <2>3, <2>4, <2>5
<1>8. WellFormed(w, m + n)
  <2>1. w.names \in [0 .. w.counter - 1 -> 1 .. m + n]
    <3>1. ASSUME NEW i \in 0 .. c + n - 1 PROVE w.names[i] \in 1 .. m + n
      <4>1. i \in 0 .. c - 1 \/ i \in c .. c + n - 1
        BY <1>5
      <4>2. w.names[i] \in 1 .. m \/ w.names[i] \in m + 1 .. m + n
        BY <1>7, <4>1
      <4> QED
        BY <1>5, <4>2
    <3>2. w.names = [i \in 0 .. c + n - 1 |-> w.names[i]]
      BY <1>1, <1>7
    <3>3. w.names \in [0 .. c + n - 1 -> 1 .. m + n]
      BY <3>1, <3>2
    <3>4. w.counter = c + n
      BY <1>1
    <3>5. w.counter - 1 = c + n - 1
      BY <1>5, <3>4
    <3> QED
      BY <3>3, <3>5
  <2>2. Len(Flat(w.chunks)) = len + n
    BY <1>4, <1>6
  <2>3. ASSUME NEW k \in 1 .. len + n
        PROVE  Flat(w.chunks)[k].label = w.names[start + k - 1]
    <3>1. CASE k <= len
      <4>1. k \in 1 .. len /\ start + k - 1 \in 0 .. c - 1
        BY <1>5, <3>1
      <4>2. Flat(w.chunks)[k] = flat[k]
        BY <1>4, <1>6, <3>1
      <4> QED
        BY <1>7, <1>6, <4>1, <4>2
    <3>2. CASE ~(k <= len)
      <4>1. start + k - 1 \in c .. c + n - 1 /\ k - len \in 1 .. n
            /\ start + k - 1 - c + 1 = k - len
        BY <1>5, <3>2
      <4>2. Flat(w.chunks)[k] = batch[k - len]
        BY <1>4, <1>6, <3>2
      <4>3. batch[k - len].label = m + (k - len)
        BY <4>1 DEF n
      <4>4. PICK j \in c .. c + n - 1 : j = start + k - 1
        BY <4>1
      <4>5. w.names[j] = m + (j - c + 1)
        BY <1>7
      <4>6. j - c + 1 = k - len
        BY <1>5, <4>1, <4>4
      <4> QED
        BY <4>2, <4>3, <4>4, <4>5, <4>6
    <3> QED
      BY <3>1, <3>2
  <2>4. w.counter \in Nat /\ w.start = start /\ w.counter = w.start + Len(Flat(w.chunks))
    <3>1. c + n \in Nat /\ c + n = start + (len + n)
      BY <1>5
    <3> QED
      BY <1>1, <2>2, <3>1 DEF start
  <2>5. ASSUME NEW t \in ctx.trackers PROVE TrackerFits(t, w.counter)
    <3>1. 0 .. c \subseteq 0 .. c + n
      BY <1>5
    <3>2. t.ids \in Seq(0 .. c) /\ TrackerFits(t, c)
      BY DEF TrackerFits, WellFormed, c
    <3>3. t.ids \in Seq(0 .. c + n)
      BY <3>1, <3>2, SeqMonotonic
    <3> QED
      BY <1>1, <3>2, <3>3 DEF TrackerFits
  <2>6. /\ w.dead \subseteq 0 .. w.start - 1 /\ DOMAIN w.updates \subseteq 0 .. w.start - 1
        /\ \A i \in DOMAIN w.updates : w.updates[i] \in Values
    BY <1>1 DEF WellFormed
  <2> QED
    BY <1>1, <1>2, <1>4, <2>1, <2>2, <2>3, <2>4, <2>5, <2>6 DEF WellFormed
<1>9. ASSUME NEW table, Current(ctx, table) PROVE Current(w, table)
  <2>1. start = Len(table) /\ \A i \in 0 .. start - 1 : ctx.names[i] = table[i + 1].label
    BY <1>9 DEF Current, start
  <2>2. \A i \in 0 .. start - 1 : i \in 0 .. c - 1
    BY <1>5
  <2>3. \A i \in 0 .. start - 1 : w.names[i] = table[i + 1].label
    BY <1>7, <2>1, <2>2
  <2> QED
    BY <1>1, <2>1, <2>3 DEF Current, start
<1>10. ASSUME NEW l \in StagedBy(w) PROVE l \in StagedBy(ctx) \/ l \in m + 1 .. m + n
  <2>1. PICK k \in 1 .. len + n : l = (flat \o batch)[k].label
    BY <1>3, <1>4, <1>6, ConcatProperties, LenProperties DEF StagedBy, Labels, len
  <2>2. CASE k <= len
    <3>1. k \in DOMAIN flat /\ l = flat[k].label
      BY <1>3, <1>6, <2>1, <2>2, LenProperties DEF len
    <3> QED
      BY <3>1 DEF StagedBy, Labels, flat
  <2>3. CASE ~(k <= len)
    <3>1. PICK j \in 1 .. n : j = k - len
      BY <1>5, <2>3
    <3>2. l = batch[j].label
      BY <1>6, <2>1, <2>3, <3>1
    <3>3. batch[j].label = m + j
      BY DEF n
    <3> QED
      BY <1>5, <3>2, <3>3
  <2> QED
    BY <2>2, <2>3
<1> QED
  BY <1>4, <1>8, <1>9, <1>10 DEF w, n, flat

(***************************************************************************)
(* The commit of a current context.                                        *)
(***************************************************************************)
\* A context that a commit finds up to date, and what it has staged has room.
Ready(ctx, m) ==
  /\ m \in Nat
  /\ TableOK(rows, m)
  /\ WellFormed(ctx, m)
  /\ Current(ctx, rows)
  /\ Len(rows) + Len(Flat(ctx.chunks)) <= MaxRows

\* The table before the commit, the rows a context has staged, its oracle, and the
\* ids that live through its commit.
Size == Len(rows)
Staged(ctx) == Flat(ctx.chunks)
OracleFor(ctx) == Oracle(Size, Len(Staged(ctx)), ctx.dead)
LiveIn(ctx) == Live(Size, Len(Staged(ctx)), ctx.dead)

\* What is known of such a context.
LEMMA ReadyFacts ==
  ASSUME NEW m, NEW ctx, Ready(ctx, m)
  PROVE  /\ Size \in Nat /\ Len(Staged(ctx)) \in Nat /\ Staged(ctx) \in Seq(Row)
         /\ ctx.start = Size /\ ctx.counter = Size + Len(Staged(ctx))
         /\ Size + Len(Staged(ctx)) < Missing /\ m \in Nat /\ Missing \in Nat
         /\ ctx.dead \in SUBSET (0 .. Size - 1)
         /\ DOMAIN ctx.updates \subseteq 0 .. Size - 1
         /\ \A i \in DOMAIN ctx.updates : ctx.updates[i] \in Values
         /\ ctx.names \in [0 .. Size + Len(Staged(ctx)) - 1 -> 1 .. m]
         /\ \A i \in 0 .. Size - 1 : ctx.names[i] = rows[i + 1].label
         /\ \A k \in 1 .. Len(Staged(ctx)) : Staged(ctx)[k].label = ctx.names[Size + k - 1]
<1>1. m \in Nat /\ WellFormed(ctx, m) /\ TableOK(rows, m) /\ Current(ctx, rows)
  BY DEF Ready
<1>2. Size \in Nat
  BY <1>1, TableFacts DEF Size
<1>3. Staged(ctx) \in Seq(Row) /\ Len(Staged(ctx)) \in Nat
  BY <1>1, FlatProperties, LenProperties DEF WellFormed, Staged
<1>4. Size + Len(Staged(ctx)) < Missing
  <2>1. Size + Len(Staged(ctx)) <= MaxRows
    BY DEF Ready, Size, Staged
  <2> QED
    BY <1>2, <1>3, <2>1, SessionAssumption, MissingIsNat
<1> QED
  BY <1>1, <1>2, <1>3, <1>4, MissingIsNat DEF WellFormed, Current, Size, Staged

\* The oracle of the commit, and that of the trackers, is the oracle on sets.
LEMMA CommitOracle ==
  ASSUME NEW m, NEW ctx, Ready(ctx, m)
  PROVE  OracleOf(ctx) = OracleFor(ctx) /\ TrackerOracle(ctx) = OracleFor(ctx)
<1>1. /\ Size \in Nat /\ ctx.dead \in SUBSET (0 .. Size - 1) /\ ctx.start = Size
  BY ReadyFacts
<1>2. Normalize(Size, ctx.dead) = ctx.dead
  BY <1>1, NormalizeValid
<1>3. OracleOf(ctx) = [OracleFor(ctx) EXCEPT !.start = Size]
  BY <1>1, <1>2 DEF OracleOf, OracleFor, Size, Staged
<1>4. OracleOf(ctx) = OracleFor(ctx)
  BY <1>3 DEF OracleFor, Oracle
<1>5. ~Dirty(ctx) => OracleFor(ctx) = Oracle(Size, 0, {})
  <2> SUFFICES ASSUME ~Dirty(ctx) PROVE OracleFor(ctx) = Oracle(Size, 0, {})
    OBVIOUS
  <2>1. ctx.chunks = <<>> /\ ctx.dead = {}
    BY DEF Dirty
  <2>2. Staged(ctx) = <<>>
    BY <2>1, FlatProperties DEF Ready, WellFormed, Staged
  <2>3. Len(Staged(ctx)) = 0
    BY <2>2
  <2> QED
    BY <2>1, <2>3 DEF OracleFor
<1> QED
  BY <1>4, <1>5 DEF TrackerOracle, Size

\* What the oracle says of the ids, and which places of it are whose.
LEMMA CommitDestinations ==
  ASSUME NEW m, NEW ctx, Ready(ctx, m)
  PROVE  LET o == OracleFor(ctx)
             live == LiveIn(ctx)
             n == Len(Staged(ctx))
         IN  /\ o.newSize \in Nat /\ o.newSize < Missing /\ o.start = Size
             /\ \A i \in live : Resolve(o, i) \in 0 .. o.newSize - 1 /\ i \in 0 .. Size + n - 1
             /\ \A i, j \in live : Resolve(o, i) = Resolve(o, j) => i = j
             /\ \A p \in 0 .. o.newSize - 1 : \E i \in live : Resolve(o, i) = p
             /\ \A i \in ctx.dead : Resolve(o, i) = Missing
             /\ DOMAIN o.dest = 0 .. n - 1
             /\ \A k \in 0 .. n - 1 : Size + k \in live /\ o.dest[k] = Resolve(o, Size + k)
             /\ \A i \in DOMAIN o.moves : i \in live /\ i < Size /\ o.moves[i] = Resolve(o, i)
             /\ \A i \in live : i < Size /\ i \notin DOMAIN o.moves => Resolve(o, i) = i
             /\ Resolve(o, Size + n) = Missing
             /\ \A i \in 0 .. Size + n - 1 : i \in live \/ i \in ctx.dead
             /\ \A i \in live : i \notin ctx.dead
<1> DEFINE n == Len(Staged(ctx))
           o == Oracle(Size, n, ctx.dead)
           live == Live(Size, n, ctx.dead)
<1>1. /\ Size \in Nat /\ n \in Nat /\ Size + n < Missing /\ Missing \in Nat
      /\ ctx.dead \in SUBSET (0 .. Size - 1)
  BY ReadyFacts
<1>2. Renumbers(Size, n, ctx.dead)
  BY <1>1, OracleRenumbers
<1>3. /\ \A i \in live : Resolve(o, i) \in 0 .. o.newSize - 1
      /\ \A i, j \in live : Resolve(o, i) = Resolve(o, j) => i = j
      /\ \A p \in 0 .. o.newSize - 1 : \E i \in live : Resolve(o, i) = p
      /\ \A i \in ctx.dead : Resolve(o, i) = Missing
  BY <1>2 DEF Renumbers
<1>4. \A i : i \in live <=> i \in 0 .. Size + n - 1 /\ i \notin ctx.dead
  BY DEF Live
<1> HIDE DEF n
<1>5. /\ o.start = Size
      /\ o.newSize \in Nat /\ o.newSize <= Size + n
      /\ DOMAIN o.dest = 0 .. n - 1
      /\ \A k \in 0 .. n - 1 : Size + k \in live /\ o.dest[k] = Resolve(o, Size + k)
      /\ \A i \in DOMAIN o.moves : i \in live /\ i < Size /\ o.moves[i] = Resolve(o, i)
      /\ \A i \in live : i < Size /\ i \notin DOMAIN o.moves => Resolve(o, i) = i
      /\ Resolve(o, Size + n) = Missing
  BY <1>1, Destinations
<1> HIDE DEF o, live
<1>6. o.newSize < Missing
  BY <1>1, <1>5
<1>7. \A i \in 0 .. Size + n - 1 : i \in live \/ i \in ctx.dead
  BY <1>4
<1>8. \A i \in live : i \notin ctx.dead /\ i \in 0 .. Size + n - 1
  BY <1>4
<1> QED
  BY <1>3, <1>5, <1>6, <1>7, <1>8 DEF OracleFor, LiveIn, o, live, n

\* The row that a live id means, as the commit leaves it.
RowOf(ctx, i) ==
  IF i < Size
    THEN [label |-> rows[i + 1].label,
          val   |-> IF i \in DOMAIN ctx.updates THEN ctx.updates[i] ELSE rows[i + 1].val]
    ELSE Staged(ctx)[i - Size + 1]

\* The row at place p of the table before the updates, and with them.
Content(ctx, o, p) ==
  IF \E k \in DOMAIN o.dest : o.dest[k] = p
    THEN Staged(ctx)[(CHOOSE k \in DOMAIN o.dest : o.dest[k] = p) + 1]
  ELSE IF \E i \in DOMAIN o.moves : o.moves[i] = p
    THEN rows[(CHOOSE i \in DOMAIN o.moves : o.moves[i] = p) + 1]
  ELSE rows[p + 1]

\* The row after the staged update of the row at its place, if there is one.
Updated(ctx, o, r, p) ==
  IF \E i \in DOMAIN ctx.updates : Resolve(o, i) = p
    THEN [r EXCEPT !.val = ctx.updates[CHOOSE i \in DOMAIN ctx.updates : Resolve(o, i) = p]]
    ELSE r

\* The committed table, place by place: the content with its update.
LEMMA MaterializedIs ==
  ASSUME NEW m, NEW ctx, Ready(ctx, m)
  PROVE  Materialized(ctx) = [q \in 1 .. OracleFor(ctx).newSize |->
           Updated(ctx, OracleFor(ctx), Content(ctx, OracleFor(ctx), q - 1), q - 1)]
BY CommitOracle DEF Materialized, Updated, Content, Staged

\* A live id's row has the place the oracle gives the id.
LEMMA ContentOf ==
  ASSUME NEW m, NEW ctx, Ready(ctx, m), NEW i \in LiveIn(ctx)
  PROVE  Content(ctx, OracleFor(ctx), Resolve(OracleFor(ctx), i))
           = IF i < Size THEN rows[i + 1] ELSE Staged(ctx)[i - Size + 1]
<1> DEFINE o == OracleFor(ctx)
           live == LiveIn(ctx)
           n == Len(Staged(ctx))
           p == Resolve(o, i)
<1>1. Size \in Nat /\ n \in Nat
  BY ReadyFacts
<1>2. /\ \A a \in live : a \in 0 .. Size + n - 1
      /\ \A a, b \in live : Resolve(o, a) = Resolve(o, b) => a = b
      /\ DOMAIN o.dest = 0 .. n - 1
      /\ \A k \in 0 .. n - 1 : Size + k \in live /\ o.dest[k] = Resolve(o, Size + k)
      /\ \A a \in DOMAIN o.moves : a \in live /\ a < Size /\ o.moves[a] = Resolve(o, a)
      /\ \A a \in live : a < Size /\ a \notin DOMAIN o.moves => Resolve(o, a) = a
  BY CommitDestinations
<1>3. i \in live /\ i \in 0 .. Size + n - 1
  BY <1>2
<1> HIDE DEF o, live, n
<1>4. \A k \in DOMAIN o.dest : o.dest[k] = p => Size + k = i
  <2> SUFFICES ASSUME NEW k \in DOMAIN o.dest, o.dest[k] = p PROVE Size + k = i
    OBVIOUS
  <2>1. Size + k \in live /\ Resolve(o, Size + k) = Resolve(o, i)
    BY <1>2
  <2> QED
    BY <1>2, <1>3, <2>1
<1>5. \A a \in DOMAIN o.moves : o.moves[a] = p => a = i
  BY <1>2, <1>3
<1>6. CASE ~(i < Size)
  <2> DEFINE k == i - Size
  <2>1. k \in 0 .. n - 1 /\ Size + k = i
    BY <1>1, <1>3, <1>6
  <2>2. k \in DOMAIN o.dest /\ o.dest[k] = p
    BY <1>2, <2>1
  <2>3. \A j \in DOMAIN o.dest : o.dest[j] = p => j = k
    BY <1>1, <1>2, <1>3, <1>4
  <2> HIDE DEF k, p
  <2>4. (CHOOSE j \in DOMAIN o.dest : o.dest[j] = p) = k
    BY <2>2, <2>3
  <2>5. Content(ctx, o, p) = Staged(ctx)[k + 1]
    BY <2>2, <2>4 DEF Content
  <2> QED
    BY <1>6, <2>5 DEF k, p, o
<1>7. CASE i < Size
  <2>1. ~\E k \in DOMAIN o.dest : o.dest[k] = p
    <3> SUFFICES ASSUME NEW k \in DOMAIN o.dest, o.dest[k] = p PROVE FALSE
      OBVIOUS
    <3>1. Size + k = i /\ k \in 0 .. n - 1
      BY <1>2, <1>4
    <3> QED
      BY <1>1, <1>7, <3>1
  <2>2. CASE i \in DOMAIN o.moves
    <3>1. o.moves[i] = p
      BY <1>2, <2>2
    <3> HIDE DEF p
    <3>2. (CHOOSE a \in DOMAIN o.moves : o.moves[a] = p) = i
      BY <1>5, <2>2, <3>1
    <3>3. Content(ctx, o, p) = rows[i + 1]
      BY <2>1, <2>2, <3>1, <3>2 DEF Content
    <3> QED
      BY <1>7, <3>3 DEF p, o
  <2>3. CASE i \notin DOMAIN o.moves
    <3>1. p = i
      BY <1>2, <1>3, <1>7, <2>3
    <3>2. ~\E a \in DOMAIN o.moves : o.moves[a] = p
      BY <1>5, <2>3
    <3> HIDE DEF p
    <3>3. Content(ctx, o, p) = rows[i + 1]
      BY <2>1, <3>1, <3>2 DEF Content
    <3> QED
      BY <1>7, <3>3 DEF p, o
  <2> QED
    BY <2>2, <2>3
<1> QED
  BY <1>6, <1>7

\* It has the value of its update, if there is one.
LEMMA MaterializedRow ==
  ASSUME NEW m, NEW ctx, Ready(ctx, m), NEW i \in LiveIn(ctx)
  PROVE  Materialized(ctx)[Resolve(OracleFor(ctx), i) + 1] = RowOf(ctx, i)
<1> DEFINE o == OracleFor(ctx)
           live == LiveIn(ctx)
           n == Len(Staged(ctx))
           p == Resolve(o, i)
           r == Content(ctx, o, p)
<1>1. /\ Size \in Nat /\ n \in Nat /\ DOMAIN ctx.updates \subseteq 0 .. Size - 1
      /\ TableOK(rows, m) /\ m \in Nat
  BY ReadyFacts DEF Ready
<1>2. /\ p \in 0 .. o.newSize - 1 /\ o.newSize \in Nat /\ o.newSize < Missing
      /\ i \in 0 .. Size + n - 1
      /\ \A a, b \in live : Resolve(o, a) = Resolve(o, b) => a = b
      /\ \A a \in ctx.dead : Resolve(o, a) = Missing
      /\ \A a \in 0 .. Size + n - 1 : a \in live \/ a \in ctx.dead
  BY CommitDestinations
<1>3. Materialized(ctx) = [q \in 1 .. o.newSize |->
        Updated(ctx, o, Content(ctx, o, q - 1), q - 1)]
  BY MaterializedIs
<1>4. r = IF i < Size THEN rows[i + 1] ELSE Staged(ctx)[i - Size + 1]
  BY ContentOf
<1> HIDE DEF o, n
<1>5. Materialized(ctx)[p + 1] = Updated(ctx, o, r, p)
  <2> HIDE DEF p
  <2>1. p + 1 \in 1 .. o.newSize /\ (p + 1) - 1 = p
    BY <1>2
  <2> QED
    BY <1>3, <2>1
<1>6. \A a \in DOMAIN ctx.updates : Resolve(o, a) = p => a = i
  <2> SUFFICES ASSUME NEW a \in DOMAIN ctx.updates, Resolve(o, a) = p PROVE a = i
    OBVIOUS
  <2>1. a \in 0 .. Size + n - 1
    BY <1>1
  <2>2. Resolve(o, a) # Missing
    <3> HIDE DEF p
    <3> QED
      BY <1>2, MissingIsNat
  <2>3. a \in live
    BY <1>2, <2>1, <2>2
  <2> QED
    BY <1>2, <2>3
<1> HIDE DEF r, live
<1>7. CASE i < Size
  <2>1. r \in Row /\ r = rows[i + 1]
    <3>1. i + 1 \in 1 .. Len(rows)
      BY <1>1, <1>2, <1>7 DEF Size
    <3> QED
      BY <1>1, <1>4, <1>7, <3>1, TableFacts
  <2>2. CASE i \in DOMAIN ctx.updates
    <3>1. \E a \in DOMAIN ctx.updates : Resolve(o, a) = p
      BY <2>2
    <3>2. (CHOOSE a \in DOMAIN ctx.updates : Resolve(o, a) = p) = i
      BY <1>6, <2>2
    <3>3. Updated(ctx, o, r, p) = [r EXCEPT !.val = ctx.updates[i]]
      BY <3>1, <3>2 DEF Updated
    <3>4. [r EXCEPT !.val = ctx.updates[i]] = [label |-> r.label, val |-> ctx.updates[i]]
      BY <2>1 DEF Row
    <3> QED
      BY <1>5, <1>7, <2>1, <2>2, <3>3, <3>4 DEF RowOf, o
  <2>3. CASE i \notin DOMAIN ctx.updates
    <3>1. Updated(ctx, o, r, p) = r
      BY <1>6, <2>3 DEF Updated
    <3>2. r = [label |-> r.label, val |-> r.val]
      BY <2>1 DEF Row
    <3> QED
      BY <1>5, <1>7, <2>1, <2>3, <3>1, <3>2 DEF RowOf, o
  <2> QED
    BY <2>2, <2>3
<1>8. CASE ~(i < Size)
  <2>1. i \notin DOMAIN ctx.updates
    BY <1>1, <1>8
  <2>2. Updated(ctx, o, r, p) = r
    BY <1>6, <2>1 DEF Updated
  <2> QED
    BY <1>4, <1>5, <1>8, <2>2 DEF RowOf, o
<1> QED
  BY <1>7, <1>8

\* The rows of the committed table are those of the live ids, each once.
LEMMA RowOfType ==
  ASSUME NEW m, NEW ctx, Ready(ctx, m), NEW i \in LiveIn(ctx)
  PROVE  /\ RowOf(ctx, i) \in Row
         /\ RowOf(ctx, i).label = ctx.names[i]
         /\ ctx.names[i] \in 1 .. m
<1> DEFINE n == Len(Staged(ctx))
<1>1. /\ Size \in Nat /\ n \in Nat /\ Staged(ctx) \in Seq(Row)
      /\ \A a \in DOMAIN ctx.updates : ctx.updates[a] \in Values
      /\ ctx.names \in [0 .. Size + n - 1 -> 1 .. m]
      /\ \A a \in 0 .. Size - 1 : ctx.names[a] = rows[a + 1].label
      /\ \A k \in 1 .. n : Staged(ctx)[k].label = ctx.names[Size + k - 1]
      /\ TableOK(rows, m) /\ m \in Nat
  BY ReadyFacts, SMTT(30) DEF Ready
<1>2. i \in 0 .. Size + n - 1
  BY CommitDestinations
<1>3. ctx.names[i] \in 1 .. m
  BY <1>1, <1>2
<1>4. CASE i < Size
  <2>1. i + 1 \in 1 .. Len(rows) /\ i \in 0 .. Size - 1
    BY <1>1, <1>2, <1>4 DEF Size
  <2>2. /\ rows[i + 1] \in Row /\ rows[i + 1].val \in Values
        /\ rows[i + 1].label = ctx.names[i]
    BY <1>1, <2>1, TableFacts
  <2>3. rows[i + 1].label \in Nat \ {0}
    BY <2>2 DEF Row
  <2> DEFINE v == IF i \in DOMAIN ctx.updates THEN ctx.updates[i] ELSE rows[i + 1].val
  <2>4. v \in Values
    BY <1>1, <2>2
  <2>5. RowOf(ctx, i) = [label |-> rows[i + 1].label, val |-> v]
    BY <1>4 DEF RowOf
  <2> HIDE DEF v
  <2> QED
    BY <1>3, <2>2, <2>3, <2>4, <2>5 DEF Row
<1>5. CASE ~(i < Size)
  <2> DEFINE k == i - Size + 1
  <2>1. k \in 1 .. n /\ Size + k - 1 = i
    BY <1>1, <1>2, <1>5
  <2>2. RowOf(ctx, i) = Staged(ctx)[k]
    BY <1>5 DEF RowOf
  <2> HIDE DEF k
  <2>3. Staged(ctx)[k] \in Row
    BY <1>1, <2>1, ElementOfSeq
  <2>4. Staged(ctx)[k].label = ctx.names[Size + k - 1]
    BY <1>1, <2>1
  <2> QED
    BY <1>3, <2>1, <2>2, <2>3, <2>4
<1> QED
  BY <1>4, <1>5

\* The committed table holds each live row once, at the place the oracle gives its
\* id, and no other row.
LEMMA CommittedTable ==
  ASSUME NEW m, NEW ctx, Ready(ctx, m)
  PROVE  LET t == Materialized(ctx)
             o == OracleFor(ctx)
         IN  /\ Len(t) = o.newSize /\ o.newSize \in Nat /\ DOMAIN t = 1 .. o.newSize
             /\ \A q \in 1 .. o.newSize : \E i \in LiveIn(ctx) :
                  q = Resolve(o, i) + 1 /\ t[q] = RowOf(ctx, i)
             /\ \A i \in LiveIn(ctx) :
                  /\ Resolve(o, i) + 1 \in 1 .. o.newSize
                  /\ t[Resolve(o, i) + 1] = RowOf(ctx, i)
<1> DEFINE t == Materialized(ctx)
           o == OracleFor(ctx)
           live == LiveIn(ctx)
           N == o.newSize
<1>1. /\ N \in Nat
      /\ \A i \in live : Resolve(o, i) \in 0 .. N - 1
      /\ \A p \in 0 .. N - 1 : \E i \in live : Resolve(o, i) = p
  BY CommitDestinations
<1>2. DOMAIN t = 1 .. N /\ t = [q \in 1 .. N |-> t[q]]
  BY MaterializedIs
<1>3. \A i \in live : t[Resolve(o, i) + 1] = RowOf(ctx, i)
  BY MaterializedRow
<1> HIDE DEF t, o, live, N
<1>4. ASSUME NEW q \in 1 .. N
      PROVE  \E i \in live : q = Resolve(o, i) + 1 /\ t[q] = RowOf(ctx, i)
  <2>1. q - 1 \in 0 .. N - 1
    BY <1>1
  <2>2. PICK i \in live : Resolve(o, i) = q - 1
    BY <1>1, <2>1
  <2>3. q = Resolve(o, i) + 1
    BY <2>2
  <2> QED
    BY <1>3, <2>3
<1>5. Len(t) = N
  BY <1>1, <1>2
<1>6. \A i \in live : Resolve(o, i) + 1 \in 1 .. N
  BY <1>1
<1> QED
  BY <1>1, <1>2, <1>3, <1>4, <1>5, <1>6 DEF t, o, live, N

(***************************************************************************)
(* What a filled tracker answers.                                          *)
(***************************************************************************)
\* A range of staged ids that was filled from a slice of the destinations has
\* the answers it would have had one by one.
LEMMA FilledIsResolved ==
  ASSUME NEW m, NEW ctx, Ready(ctx, m), NEW t, TrackerFits(t, ctx.counter),
         NEW k \in DOMAIN t.ids
  PROVE  LET o == OracleFor(ctx)
             data == Filled(t, o)
         IN  (IF k \in DOMAIN data THEN data[k] ELSE Missing) = Resolve(o, t.ids[k])
<1> DEFINE o == OracleFor(ctx)
           ids == t.ids
           data == Filled(t, o)
           last == ctx.counter
<1>1. /\ Size \in Nat /\ last \in Nat /\ Missing \in Nat /\ last < Missing
  <2> HIDE DEF last
  <2> QED
    BY ReadyFacts DEF last
<1>2. o.start = Size
  BY CommitDestinations
<1>3. /\ ids \in Seq(0 .. last)
      /\ t.kind = "range" => \A j \in DOMAIN ids : ids[j] = ids[1] + j - 1
  BY DEF TrackerFits
<1> HIDE DEF o, last, ids
<1>4. /\ Len(ids) \in Nat /\ DOMAIN ids = 1 .. Len(ids)
      /\ \A j \in 1 .. Len(ids) : ids[j] \in 0 .. last
  BY <1>3, LenProperties, ElementOfSeq
<1>5. k \in 1 .. Len(ids) /\ ids[k] \in 0 .. last
  BY <1>4 DEF ids
<1>6. CASE t.kind = "range" /\ ids[1] >= o.start
  <2> DEFINE known == {j \in DOMAIN ids : ids[j] - o.start \in DOMAIN o.dest}
  <2>1. data = [j \in known |-> o.dest[ids[j] - o.start]]
    BY <1>6 DEF Filled, ids
  <2>2. ids[k] >= o.start
    <3>1. 1 \in 1 .. Len(ids)
      BY <1>4, <1>5
    <3>2. ids[1] \in 0 .. last /\ ids[k] = ids[1] + k - 1
      BY <1>3, <1>4, <1>5, <1>6, <3>1
    <3> QED
      BY <1>1, <1>2, <1>4, <1>5, <1>6, <3>2
  <2>3. ids[k] # Missing
    BY <1>1, <1>5
  <2>4. Resolve(o, ids[k]) = IF ids[k] - o.start \in DOMAIN o.dest
                               THEN o.dest[ids[k] - o.start] ELSE Missing
    BY <2>2, <2>3 DEF Resolve
  <2>5. k \in known <=> ids[k] - o.start \in DOMAIN o.dest
    BY <1>4, <1>5
  <2> HIDE DEF known, data
  <2>6. k \in known => data[k] = o.dest[ids[k] - o.start]
    BY <2>1
  <2>7. DOMAIN data = known
    BY <2>1
  <2> QED
    BY <2>4, <2>5, <2>6, <2>7 DEF data, o, ids
<1>7. CASE ~(t.kind = "range" /\ ids[1] >= o.start)
  <2>1. data = [j \in DOMAIN ids |-> Resolve(o, ids[j])]
    BY <1>7 DEF Filled, ids
  <2> HIDE DEF data
  <2>2. k \in DOMAIN data /\ data[k] = Resolve(o, ids[k])
    BY <1>4, <1>5, <2>1
  <2> QED
    BY <2>2 DEF data, o, ids
<1> QED
  BY <1>6, <1>7

\* A tracker of a context that commits finds its rows in the committed table,
\* and no row where there is none.
LEMMA AnswersRight ==
  ASSUME NEW m, NEW ctx, Ready(ctx, m), NEW t, TrackerFits(t, ctx.counter),
         NEW a \in Answer(ctx, t)
  PROVE  LET table == Materialized(ctx)
         IN  IF a.means # 0
               THEN a.at < Len(table) /\ table[a.at + 1].label = a.means
               ELSE a.at = Missing
<1> DEFINE o == OracleFor(ctx)
           table == Materialized(ctx)
           live == LiveIn(ctx)
           n == Len(Staged(ctx))
           ids == t.ids
           names == ctx.names
           data == Filled(t, o)
           at(k) == IF k \in DOMAIN data THEN data[k] ELSE Missing
           means(k) == IF ids[k] \in DOMAIN names \ ctx.dead THEN names[ids[k]] ELSE 0
<1>1. /\ Size \in Nat /\ n \in Nat /\ ctx.counter = Size + n /\ m \in Nat
      /\ names \in [0 .. Size + n - 1 -> 1 .. m]
  BY ReadyFacts
<1>2. /\ o.newSize \in Nat
      /\ \A i \in live : Resolve(o, i) \in 0 .. o.newSize - 1 /\ i \in 0 .. Size + n - 1
      /\ \A i \in ctx.dead : Resolve(o, i) = Missing
      /\ Resolve(o, Size + n) = Missing
      /\ \A i \in 0 .. Size + n - 1 : i \in live \/ i \in ctx.dead
      /\ \A i \in live : i \notin ctx.dead
  BY CommitDestinations
<1>3. /\ Len(table) = o.newSize
      /\ \A i \in live : table[Resolve(o, i) + 1] = RowOf(ctx, i)
  BY CommittedTable
<1>4. \A i \in live : RowOf(ctx, i).label = names[i]
  BY RowOfType
<1>5. TrackerOracle(ctx) = o
  BY CommitOracle
<1>6. PICK k \in DOMAIN ids : a = [means |-> means(k), at |-> at(k)]
  BY <1>5 DEF Answer
<1>7. at(k) = Resolve(o, ids[k])
  BY FilledIsResolved
<1>8. ids[k] \in 0 .. Size + n
  <2>1. ids \in Seq(0 .. ctx.counter)
    BY DEF TrackerFits
  <2>2. k \in 1 .. Len(ids)
    BY <2>1, LenProperties
  <2>3. ids[k] \in 0 .. ctx.counter
    BY <2>1, <2>2, ElementOfSeq
  <2> QED
    BY <1>1, <2>3
<1> DEFINE i == ids[k]
<1>9. a.means = IF i \in DOMAIN names \ ctx.dead THEN names[i] ELSE 0
  BY <1>6
<1>10. a.at = Resolve(o, i)
  BY <1>6, <1>7
<1>11. DOMAIN names = 0 .. Size + n - 1
  BY <1>1
<1> SUFFICES IF a.means # 0
               THEN a.at < Len(table) /\ table[a.at + 1].label = a.means
               ELSE a.at = Missing
  OBVIOUS
<1> HIDE DEF o, table, live, n, ids, i, names, data, at, means
<1>12. CASE i \in live
  <2>1. a.means = names[i] /\ names[i] \in 1 .. m
    BY <1>1, <1>2, <1>9, <1>11, <1>12
  <2>2. a.means # 0
    BY <2>1
  <2>3. a.at \in 0 .. o.newSize - 1
    BY <1>2, <1>10, <1>12
  <2>4. table[a.at + 1].label = names[i]
    BY <1>3, <1>4, <1>10, <1>12
  <2> QED
    BY <1>2, <1>3, <2>1, <2>2, <2>3, <2>4
<1>13. CASE i \in ctx.dead
  BY <1>2, <1>9, <1>10, <1>13
<1>14. CASE i = Size + n
  <2>1. a.at = Missing
    BY <1>2, <1>10, <1>14
  <2>2. i \notin DOMAIN names
    BY <1>1, <1>11, <1>14
  <2> QED
    BY <1>9, <2>1, <2>2
<1>15. i \in 0 .. Size + n - 1 \/ i = Size + n
  <2>1. i \in 0 .. Size + n
    BY <1>8 DEF i, ids, n
  <2> QED
    BY <1>1, <2>1
<1> QED
  BY <1>2, <1>12, <1>13, <1>14, <1>15

(***************************************************************************)
(* The commit of any context, which may be of a table that is no more: the *)
(* rows are still rows of the table or of the context.                     *)
(***************************************************************************)
LEMMA AnyCommit ==
  ASSUME NEW m \in Nat, TableOK(rows, m), NEW ctx, WellFormed(ctx, m),
         Len(rows) + Len(Flat(ctx.chunks)) <= MaxRows
  PROVE  /\ TableOK(Materialized(ctx), m)
         /\ \A l \in Labels(Materialized(ctx)) : l \in Labels(rows) \/ l \in StagedBy(ctx)
<1> DEFINE n == Len(Staged(ctx))
           gone == Normalize(Size, ctx.dead)
           O == Oracle(Size, n, gone)
           o == OracleOf(ctx)
           live == Live(Size, n, gone)
           N == O.newSize
<1>1. /\ Size \in Nat /\ Staged(ctx) \in Seq(Row) /\ n \in Nat /\ DOMAIN Staged(ctx) = 1 .. n
      /\ Missing \in Nat /\ Size + n < Missing /\ MaxRows \in Nat /\ Size + n <= MaxRows
  <2>1. Size \in Nat
    BY TableFacts DEF Size
  <2>2. Staged(ctx) \in Seq(Row) /\ n \in Nat /\ DOMAIN Staged(ctx) = 1 .. n
    BY FlatProperties, LenProperties DEF WellFormed, Staged
  <2>3. Size + n <= MaxRows
    BY DEF Size, Staged
  <2> HIDE DEF n
  <2> QED
    BY <2>1, <2>2, <2>3, SessionAssumption, MissingIsNat
<1>2. gone \in SUBSET (0 .. Size - 1)
  BY DEF Normalize
<1> HIDE DEF n, gone
<1>3. Renumbers(Size, n, gone)
  BY <1>1, <1>2, OracleRenumbers
<1>4. \A p \in 0 .. N - 1 : \E i \in live : Resolve(O, i) = p
  BY <1>3 DEF Renumbers
<1>5. /\ O.start = Size
      /\ N \in Nat /\ N <= Size + n
      /\ DOMAIN O.dest = 0 .. n - 1
      /\ \A k \in 0 .. n - 1 : Size + k \in live /\ O.dest[k] = Resolve(O, Size + k)
      /\ \A i \in DOMAIN O.moves : i \in live /\ i < Size /\ O.moves[i] = Resolve(O, i)
      /\ \A i \in live : i < Size /\ i \notin DOMAIN O.moves => Resolve(O, i) = i
  <2>1. Size \in Nat /\ n \in Nat /\ Size + n <= Missing
    BY <1>1
  <2> QED
    BY <1>2, <2>1, Destinations
<1>6. \A i \in live : i \in 0 .. Size + n - 1
  BY DEF Live
<1>7. o.dest = O.dest /\ o.moves = O.moves /\ o.newSize = N
  BY DEF OracleOf, Size, Staged, n, gone, Oracle
<1>8. Materialized(ctx) = [q \in 1 .. o.newSize |-> Updated(ctx, o, Content(ctx, o, q - 1), q - 1)]
  BY DEF Materialized, Updated, Content, Staged
<1> HIDE DEF O, o, live, N
<1>9. \A i \in 1 .. Size : rows[i] \in Row /\ rows[i].label \in 1 .. m /\ rows[i].label \in Labels(rows)
  BY TableFacts DEF Size
<1>10. \A k \in 1 .. n : /\ Staged(ctx)[k] \in Row /\ Staged(ctx)[k].label \in 1 .. m
                         /\ Staged(ctx)[k].label \in StagedBy(ctx)
  <2> SUFFICES ASSUME NEW k \in 1 .. n
               PROVE  /\ Staged(ctx)[k] \in Row /\ Staged(ctx)[k].label \in 1 .. m
                      /\ Staged(ctx)[k].label \in StagedBy(ctx)
    OBVIOUS
  <2>1. Staged(ctx)[k] \in Row
    BY <1>1, ElementOfSeq DEF n
  <2>2. Staged(ctx)[k].label \in StagedBy(ctx)
    BY <1>1 DEF StagedBy, Staged, Labels
  <2>3. \E j \in 1 .. Len(Flat(ctx.chunks)) : Staged(ctx)[k].label \in 1 .. m
    BY <2>2, StagedLabels DEF StagedBy
  <2> QED
    BY <2>1, <2>2, <2>3
<1> DEFINE Good(r) == /\ r \in Row /\ r.label \in 1 .. m
                      /\ r.label \in Labels(rows) \/ r.label \in StagedBy(ctx)
<1>11. ASSUME NEW p \in 0 .. N - 1 PROVE Good(Content(ctx, o, p))
  <2>1. CASE \E k \in DOMAIN o.dest : o.dest[k] = p
    <3>1. PICK k \in DOMAIN o.dest : Content(ctx, o, p) = Staged(ctx)[k + 1]
      BY <2>1 DEF Content
    <3>2. k + 1 \in 1 .. n
      BY <1>1, <1>5, <1>7, <3>1
    <3> QED
      BY <1>10, <3>1, <3>2
  <2>2. CASE /\ ~\E k \in DOMAIN o.dest : o.dest[k] = p
             /\ \E i \in DOMAIN o.moves : o.moves[i] = p
    <3>1. PICK i \in DOMAIN o.moves : Content(ctx, o, p) = rows[i + 1]
      BY <2>2 DEF Content
    <3>2. i + 1 \in 1 .. Size
      BY <1>1, <1>5, <1>6, <1>7, <3>1
    <3> QED
      BY <1>9, <3>1, <3>2
  <2>3. CASE /\ ~\E k \in DOMAIN o.dest : o.dest[k] = p
             /\ ~\E i \in DOMAIN o.moves : o.moves[i] = p
    <3>1. Content(ctx, o, p) = rows[p + 1]
      BY <2>3 DEF Content
    <3>2. PICK i \in live : Resolve(O, i) = p
      BY <1>4
    <3>3. i < Size
      <4> SUFFICES ASSUME ~(i < Size) PROVE FALSE
        OBVIOUS
      <4>1. PICK k \in 0 .. n - 1 : i = Size + k
        <5>1. i - Size \in 0 .. n - 1 /\ i = Size + (i - Size)
          BY <1>1, <1>6, <3>2
        <5> QED
          BY <5>1
      <4>2. O.dest[k] = p
        BY <1>5, <3>2, <4>1
      <4> QED
        BY <1>5, <1>7, <2>3, <4>2
    <3>4. i \notin DOMAIN O.moves
      BY <1>5, <1>7, <2>3, <3>2
    <3>5. p = i
      BY <1>5, <3>2, <3>3, <3>4
    <3>6. p + 1 \in 1 .. Size
      BY <1>1, <3>3, <3>5
    <3> QED
      BY <1>9, <3>1, <3>6
  <2> QED
    BY <2>1, <2>2, <2>3
<1>12. ASSUME NEW r, Good(r), NEW p PROVE Good(Updated(ctx, o, r, p))
  <2>1. CASE ~\E i \in DOMAIN ctx.updates : Resolve(o, i) = p
    BY <1>12, <2>1 DEF Updated
  <2>2. CASE \E i \in DOMAIN ctx.updates : Resolve(o, i) = p
    <3>1. PICK i \in DOMAIN ctx.updates : Updated(ctx, o, r, p) = [r EXCEPT !.val = ctx.updates[i]]
      BY <2>2 DEF Updated
    <3>2. ctx.updates[i] \in Values
      BY DEF WellFormed
    <3>3. r \in Row
      BY <1>12
    <3> DEFINE w == [r EXCEPT !.val = ctx.updates[i]]
    <3>4. w \in Row /\ w.label = r.label
      BY <3>2, <3>3 DEF Row
    <3> QED
      BY <1>12, <3>1, <3>4
  <2> QED
    BY <2>1, <2>2
<1> DEFINE t == Materialized(ctx)
<1>13. /\ t = [q \in 1 .. N |-> t[q]] /\ DOMAIN t = 1 .. N
       /\ \A q \in 1 .. N : t[q] = Updated(ctx, o, Content(ctx, o, q - 1), q - 1)
  BY <1>7, <1>8
<1> HIDE DEF t, Good
<1>14. \A q \in 1 .. N : Good(t[q])
  <2> SUFFICES ASSUME NEW q \in 1 .. N PROVE Good(t[q])
    OBVIOUS
  <2>1. q - 1 \in 0 .. N - 1
    BY <1>5
  <2> QED
    BY <1>11, <1>12, <1>13, <2>1
<1>15. t \in Seq(Row) /\ Len(t) = N
  <2>1. \A q \in 1 .. N : t[q] \in Row
    BY <1>14 DEF Good
  <2> QED
    BY <1>5, <1>13, <2>1
<1>16. \A q \in 1 .. N : t[q].label <= m
  <2>1. \A q \in 1 .. N : t[q].label \in 1 .. m
    BY <1>14 DEF Good
  <2> QED
    BY <2>1
<1>17. TableOK(t, m)
  BY <1>1, <1>5, <1>15, <1>16 DEF TableOK
<1>18. ASSUME NEW l \in Labels(t) PROVE l \in Labels(rows) \/ l \in StagedBy(ctx)
  <2>1. PICK q \in 1 .. N : l = t[q].label
    BY <1>13 DEF Labels
  <2> QED
    BY <1>14, <2>1 DEF Good
<1> QED
  BY <1>17, <1>18 DEF t

(***************************************************************************)
(* The steps keep the invariant.                                           *)
(***************************************************************************)
\* The open blocks hold contexts.
LEMMA BlockFacts ==
  ASSUME Orderly
  PROVE  /\ Len(blocks) \in Nat /\ DOMAIN blocks = 1 .. Len(blocks)
         /\ \A i \in 1 .. Len(blocks) : blocks[i].ctx \in Ctxs /\ blocks[i].since \in Nat
         /\ Held \subseteq Ctxs
         /\ \A c : c \in Held <=> \E i \in 1 .. Len(blocks) : blocks[i].ctx = c
         /\ NoCtx \notin Ctxs
<1>1. blocks \in Seq([ctx : Ctxs, since : Nat])
  BY DEF Orderly
<1>2. Len(blocks) \in Nat /\ DOMAIN blocks = 1 .. Len(blocks)
  BY <1>1, LenProperties
<1>3. \A i \in 1 .. Len(blocks) : blocks[i] \in [ctx : Ctxs, since : Nat]
  BY <1>1, ElementOfSeq
<1>4. NoCtx \notin Ctxs
  BY DEF NoCtx, Ctxs
<1> QED
  BY <1>2, <1>3, <1>4 DEF Held

\* A block is opened with the context it holds.
LEMMA BlockOpened ==
  ASSUME Orderly, NEW c \in Ctxs, NEW s \in Nat, Len(blocks) < MaxDepth,
         blocks' = Append(blocks, [ctx |-> c, since |-> s])
  PROVE  /\ blocks' \in Seq([ctx : Ctxs, since : Nat]) /\ Len(blocks') <= MaxDepth
         /\ Held' = Held \cup {c}
<1> DEFINE b == [ctx |-> c, since |-> s]
           n == Len(blocks)
<1>1. n \in Nat /\ blocks \in Seq([ctx : Ctxs, since : Nat]) /\ DOMAIN blocks = 1 .. n
  BY BlockFacts DEF Orderly
<1>2. b \in [ctx : Ctxs, since : Nat]
  OBVIOUS
<1> HIDE DEF b, n
<1>3. /\ blocks' \in Seq([ctx : Ctxs, since : Nat]) /\ Len(blocks') = n + 1
      /\ \A i \in 1 .. n : blocks'[i] = blocks[i]
      /\ blocks'[n + 1] = b
  BY <1>1, <1>2, AppendProperties DEF b, n
<1>4. Len(blocks') <= MaxDepth
  BY <1>1, <1>3, SessionAssumption DEF n
<1>5. DOMAIN blocks' = 1 .. n + 1
  BY <1>3, LenProperties
<1>6. \A i : i \in 1 .. n + 1 <=> i \in 1 .. n \/ i = n + 1
  BY <1>1
<1>7. Held' = {blocks[i].ctx : i \in 1 .. n} \cup {b.ctx}
  BY <1>3, <1>5, <1>6 DEF Held
<1>8. b.ctx = c
  BY DEF b
<1> QED
  BY <1>1, <1>3, <1>4, <1>7, <1>8 DEF Held

\* Fewer blocks than contexts leave a context free.
LEMMA ContextFree ==
  ASSUME Orderly, Len(blocks) < MaxDepth
  PROVE  \E c \in Ctxs : c \notin Held
<1> DEFINE n == Len(blocks)
<1>1. /\ n \in Nat /\ MaxDepth \in Nat /\ n < MaxDepth
      /\ \A i \in 1 .. n : blocks[i].ctx \in Ctxs
      /\ \A c : c \in Held <=> \E i \in 1 .. n : blocks[i].ctx = c
  BY BlockFacts, SessionAssumption
<1> HIDE DEF n
<1> SUFFICES ASSUME \A c \in Ctxs : c \in Held PROVE FALSE
  OBVIOUS
<1> DEFINE f == [i \in 1 .. n |-> blocks[i].ctx]
<1>2. f \in Surjection(1 .. n, Ctxs)
  <2>1. f \in [1 .. n -> Ctxs]
    BY <1>1
  <2>2. ASSUME NEW c \in Ctxs PROVE \E i \in 1 .. n : f[i] = c
    <3>1. PICK i \in 1 .. n : blocks[i].ctx = c
      BY <1>1
    <3> QED
      BY <3>1
  <2> HIDE DEF f
  <2> QED
    BY <2>1, <2>2, Fun_IsSurj
<1>3. IsFiniteSet(1 .. n) /\ Cardinality(1 .. n) = n
  <2>1. Cardinality(1 .. n) = IF 1 > n THEN 0 ELSE n - 1 + 1
    BY <1>1, FS_Interval
  <2> QED
    BY <1>1, <2>1, FS_Interval
<1>4. Cardinality(Ctxs) = MaxDepth
  <2>1. Cardinality(1 .. MaxDepth) = IF 1 > MaxDepth THEN 0 ELSE MaxDepth - 1 + 1
    BY <1>1, FS_Interval
  <2> QED
    BY <1>1, <2>1 DEF Ctxs
<1>5. Cardinality(Ctxs) <= Cardinality(1 .. n)
  BY <1>2, <1>3, FS_Surjection
<1> QED
  BY <1>1, <1>3, <1>4, <1>5

\* What no other context and no dropped row has to do with a context that
\* changes, ends or takes new rows in.
LEMMA StaysSeparate ==
  ASSUME Orderly, NEW k \in Held, Held' \subseteq Held, made' \in Nat, made <= made',
         \A c \in Held' : c # k => ctxs'[c] = ctxs[c],
         k \in Held' => \A l \in StagedBy(ctxs'[k]) :
                          l \in StagedBy(ctxs[k]) \/ l \in made + 1 .. made',
         \A l \in dropped' : \/ l \in dropped
                             \/ /\ k \notin Held'
                                /\ l \in StagedBy(ctxs[k]) \/ l \in made + 1 .. made'
  PROVE  Separate'
<1>1. /\ made \in Nat /\ dropped \subseteq 1 .. made
      /\ \A c \in Held : WellFormed(ctxs[c], made)
      /\ \A c \in Held : StagedBy(ctxs[c]) \cap dropped = {}
      /\ \A c, d \in Held : c # d => StagedBy(ctxs[c]) \cap StagedBy(ctxs[d]) = {}
  BY DEF Orderly, Separate
<1>2. \A c \in Held : \A l \in StagedBy(ctxs[c]) : l \in 1 .. made
  BY <1>1, StagedLabels DEF StagedBy
<1>3. \A l : l \in 1 .. made => l \notin made + 1 .. made'
  BY <1>1
<1>4. ASSUME NEW c \in Held' PROVE StagedBy(ctxs'[c]) \cap dropped' = {}
  <2> SUFFICES ASSUME NEW l \in StagedBy(ctxs'[c]), l \in dropped' PROVE FALSE
    OBVIOUS
  <2>1. CASE c = k
    BY <1>1, <1>3, <2>1
  <2>2. CASE c # k
    <3>1. c \in Held /\ l \in StagedBy(ctxs[c])
      BY <2>2
    <3> QED
      BY <1>1, <1>2, <1>3, <2>2, <3>1
  <2> QED
    BY <2>1, <2>2
<1>5. ASSUME NEW c \in Held', NEW d \in Held', c # d
      PROVE  StagedBy(ctxs'[c]) \cap StagedBy(ctxs'[d]) = {}
  <2> SUFFICES ASSUME NEW l \in StagedBy(ctxs'[c]), l \in StagedBy(ctxs'[d]) PROVE FALSE
    OBVIOUS
  <2>0. c \in Held /\ d \in Held
    OBVIOUS
  <2>1. CASE c = k
    <3>1. l \in StagedBy(ctxs[d]) /\ l \in 1 .. made
      BY <1>2, <1>5, <2>0, <2>1
    <3>2. l \in StagedBy(ctxs[k])
      BY <1>3, <2>1, <3>1
    <3> QED
      BY <1>1, <1>5, <2>0, <2>1, <3>1, <3>2
  <2>2. CASE d = k
    <3>1. l \in StagedBy(ctxs[c]) /\ l \in 1 .. made
      BY <1>2, <1>5, <2>0, <2>2
    <3>2. l \in StagedBy(ctxs[k])
      BY <1>3, <2>2, <3>1
    <3> QED
      BY <1>1, <1>5, <2>0, <2>2, <3>1, <3>2
  <2>3. CASE c # k /\ d # k
    <3>1. l \in StagedBy(ctxs[c]) /\ l \in StagedBy(ctxs[d])
      BY <2>3
    <3> QED
      BY <1>1, <1>5, <2>0, <3>1
  <2> QED
    BY <2>1, <2>2, <2>3
<1> QED
  BY <1>4, <1>5 DEF Separate

\* Before anything happened.
LEMMA InitOrderly == Init => Orderly
<1> SUFFICES ASSUME Init PROVE Orderly
  OBVIOUS
<1>1. rows = <<>> /\ blocks = <<>> /\ made = 0 /\ dropped = {} /\ active = NoCtx
      /\ DOMAIN ctxs = Ctxs
  BY DEF Init
<1>2. TableOK(rows, made)
  <2>1. rows \in Seq(Row) /\ Len(rows) = 0
    BY <1>1, EmptySeq
  <2>2. ~\E i : i \in 1 .. Len(rows)
    BY <2>1
  <2>3. Len(rows) <= MaxRows
    BY <2>1, SessionAssumption
  <2> QED
    BY <2>1, <2>2, <2>3 DEF TableOK
<1>3. Held = {}
  BY <1>1 DEF Held
<1>4. blocks \in Seq([ctx : Ctxs, since : Nat]) /\ Len(blocks) <= MaxDepth
  BY <1>1, EmptySeq, SessionAssumption
<1>5. made \in Nat /\ made <= MaxLabels
  BY <1>1, SessionAssumption
<1> QED
  BY <1>1, <1>2, <1>3, <1>4, <1>5 DEF Orderly, Separate

\* A block is entered.
LEMMA EnterOrderly == Orderly /\ EnterBlock => Orderly'
<1> SUFFICES ASSUME Orderly, EnterBlock PROVE Orderly'
  OBVIOUS
<1>1. Len(blocks) < MaxDepth /\ UNCHANGED <<rows, made, dropped>>
  BY DEF EnterBlock
<1>2. /\ made \in Nat /\ made <= MaxLabels /\ TableOK(rows, made)
      /\ DOMAIN ctxs = Ctxs /\ active \in Held \cup {NoCtx}
      /\ dropped \subseteq 1 .. made /\ dropped \cap Labels(rows) = {}
      /\ active # NoCtx => Current(ctxs[active], rows)
  BY DEF Orderly
<1>3. (\A c \in Held : WellFormed(ctxs[c], made)) /\ Separate
  BY DEF Orderly
<1>4. CASE active # NoCtx
  <2>1. blocks' = Append(blocks, [ctx |-> active, since |-> made]) /\ UNCHANGED <<ctxs, active>>
    BY <1>4 DEF EnterBlock
  <2>2. active \in Held /\ active \in Ctxs
    BY <1>2, <1>4, BlockFacts
  <2>3. /\ blocks' \in Seq([ctx : Ctxs, since : Nat]) /\ Len(blocks') <= MaxDepth
        /\ Held' = Held \cup {active}
    BY <1>1, <1>2, <2>1, <2>2, BlockOpened
  <2>4. Held' = Held
    BY <2>2, <2>3
  <2>5. Separate'
    BY <1>1, <1>3, <2>1, <2>4 DEF Separate
  <2> QED
    BY <1>1, <1>2, <1>3, <2>1, <2>3, <2>4, <2>5 DEF Orderly
<1>5. CASE active = NoCtx
  <2> DEFINE c == CHOOSE i \in Ctxs \ Held : TRUE
  <2>1. /\ blocks' = Append(blocks, [ctx |-> c, since |-> made])
        /\ ctxs' = [ctxs EXCEPT ![c] = Fresh(rows)] /\ active' = c
    BY <1>5 DEF EnterBlock
  <2>2. c \in Ctxs /\ c \notin Held
    BY <1>1, ContextFree
  <2> HIDE DEF c
  <2>3. /\ blocks' \in Seq([ctx : Ctxs, since : Nat]) /\ Len(blocks') <= MaxDepth
        /\ Held' = Held \cup {c}
    BY <1>1, <1>2, <2>1, <2>2, BlockOpened
  <2>4. DOMAIN ctxs' = Ctxs /\ ctxs'[c] = Fresh(rows) /\ \A d \in Held : ctxs'[d] = ctxs[d]
    BY <1>2, <2>1, <2>2, BlockFacts
  <2>5. /\ WellFormed(Fresh(rows), made) /\ Current(Fresh(rows), rows)
        /\ StagedBy(Fresh(rows)) = {}
    BY <1>2, FreshIsCurrent
  <2>6. \A d \in Held' : WellFormed(ctxs'[d], made)
    BY <1>3, <2>3, <2>4, <2>5
  <2>7. Separate'
    BY <1>1, <1>3, <2>3, <2>4, <2>5 DEF Separate
  <2> QED
    BY <1>1, <1>2, <2>1, <2>3, <2>4, <2>5, <2>6, <2>7 DEF Orderly
<1> QED
  BY <1>4, <1>5

\* A step that moves nothing keeps the order.
LEMMA Unmoved ==
  ASSUME Orderly, UNCHANGED <<rows, ctxs, active, blocks, made, dropped>>
  PROVE  Orderly'
<1>1. /\ rows' = rows /\ ctxs' = ctxs /\ active' = active
      /\ made' = made /\ blocks' = blocks /\ dropped' = dropped
  OBVIOUS
<1>2. Held' = Held
  BY <1>1 DEF Held
<1>3. Separate'
  BY <1>1, <1>2 DEF Orderly, Separate
<1>4. TableOK(rows, made)' /\ (active # NoCtx => Current(ctxs[active], rows))'
  BY <1>1 DEF Orderly
<1>5. \A c \in Held' : WellFormed(ctxs'[c], made')
  BY <1>1, <1>2 DEF Orderly
<1> QED
  BY <1>1, <1>2, <1>3, <1>4, <1>5 DEF Orderly

\* An edit that leaves a well-formed context that is current.
LEMMA EditOrderly ==
  ASSUME Orderly, active # NoCtx, NEW ctx, Edit(ctx),
         made' \in Nat, made <= made', made' <= MaxLabels,
         WellFormed(ctx, made'), Current(ctx, rows),
         \A l \in StagedBy(ctx) : l \in StagedBy(ctxs[active]) \/ l \in made + 1 .. made'
  PROVE  Orderly'
<1>1. /\ made \in Nat /\ TableOK(rows, made)
      /\ DOMAIN ctxs = Ctxs /\ active \in Held \cup {NoCtx}
      /\ dropped \subseteq 1 .. made /\ dropped \cap Labels(rows) = {}
      /\ blocks \in Seq([ctx : Ctxs, since : Nat]) /\ Len(blocks) <= MaxDepth
  BY DEF Orderly
<1>2. \A c \in Held : WellFormed(ctxs[c], made)
  BY DEF Orderly
<1>3. /\ ctxs' = [ctxs EXCEPT ![active] = ctx]
      /\ UNCHANGED <<rows, active, blocks, dropped>>
  BY DEF Edit
<1>4. active \in Ctxs /\ active \in Held
  BY <1>1, BlockFacts
<1>5. DOMAIN ctxs' = Ctxs /\ ctxs'[active] = ctx /\ \A c \in Ctxs : c # active => ctxs'[c] = ctxs[c]
  BY <1>1, <1>3, <1>4
<1>6. Held' = Held
  BY <1>3 DEF Held
<1>7. \A c \in Held : WellFormed(ctxs[c], made')
  BY <1>1, <1>2, MoreLabels
<1>8. \A c \in Held : WellFormed(ctxs'[c], made')
  BY <1>5, <1>7, BlockFacts
<1>9. TableOK(rows, made')
  BY <1>1, MoreRows
<1>10. dropped \subseteq 1 .. made'
  BY <1>1
<1>11. \A c \in Held : c # active => ctxs'[c] = ctxs[c]
  BY <1>5, BlockFacts
<1>12. Separate'
  <2>1. Held' \subseteq Held /\ \A l \in dropped' : l \in dropped
    BY <1>3, <1>6
  <2> QED
    BY <1>4, <1>5, <1>6, <1>11, <2>1, StaysSeparate
<1> QED
  BY <1>1, <1>3, <1>5, <1>6, <1>8, <1>9, <1>10, <1>12 DEF Orderly

\* What an edit finds.
LEMMA ActiveContext ==
  ASSUME Orderly, active # NoCtx
  PROVE  /\ WellFormed(ctxs[active], made) /\ Current(ctxs[active], rows)
         /\ active \in Ctxs /\ active \in Held
         /\ made \in Nat /\ made <= MaxLabels /\ MaxLabels \in Nat
         /\ TableOK(rows, made)
BY BlockFacts, SessionAssumption DEF Orderly

\* New rows are rows, labelled in order.
LEMMA NewRowsAre ==
  ASSUME made \in Nat, NEW n \in Nat
  PROVE  /\ NewRows(n) \in Seq(Row) /\ Len(NewRows(n)) = n
         /\ \A k \in 1 .. n : NewRows(n)[k].label = made + k
         /\ \A k \in 1 .. n : NewRows(n)[k] = [label |-> made + k, val |-> "added"]
<1>1. \A k \in 1 .. n : [label |-> made + k, val |-> "added"] \in Row
  BY DEF Row, Values
<1> QED
  BY <1>1 DEF NewRows

\* Rows are staged.
LEMMA AddOrderly ==
  ASSUME Orderly, NEW n \in 0 .. MaxBatch, NEW echo \in BOOLEAN, AddEntries(n, echo)
  PROVE  Orderly'
<1> DEFINE batch == NewRows(n)
           extra == <<[label |-> made + n + 1, val |-> "added"]>>
           ctx == ctxs[active]
           staged == WithChunk(ctx, batch)
<1>1. /\ active # NoCtx /\ made + n + (IF echo THEN 1 ELSE 0) <= MaxLabels
      /\ Edit(IF echo THEN WithChunk(staged, extra) ELSE staged)
      /\ made' = made + n + (IF echo THEN 1 ELSE 0)
  BY DEF AddEntries, MayEdit
<1>2. WellFormed(ctx, made) /\ Current(ctx, rows) /\ made \in Nat /\ MaxLabels \in Nat
  BY <1>1, ActiveContext
<1>3. n \in Nat
  BY SessionAssumption
<1>4. batch \in Seq(Row) /\ Len(batch) = n /\ \A k \in 1 .. Len(batch) : batch[k].label = made + k
  BY <1>2, <1>3, NewRowsAre
<1> HIDE DEF batch, ctx
<1>5. /\ WellFormed(staged, made + n) /\ Current(staged, rows)
      /\ \A l \in StagedBy(staged) : l \in StagedBy(ctx) \/ l \in made + 1 .. made + n
  BY <1>2, <1>4, ChunkStaged
<1> HIDE DEF staged
<1>6. CASE ~echo
  <2>1. made' = made + n /\ Edit(staged)
    BY <1>1, <1>2, <1>3, <1>6
  <2>2. made' \in Nat /\ made <= made' /\ made' <= MaxLabels
    BY <1>1, <1>2, <1>3, <1>6, <2>1
  <2> QED
    BY <1>1, <1>5, <2>1, <2>2, EditOrderly DEF ctx
<1>7. CASE echo
  <2>1. made' = made + n + 1 /\ Edit(WithChunk(staged, extra)) /\ made + n + 1 <= MaxLabels
    BY <1>1, <1>7
  <2>2. /\ extra \in Seq(Row) /\ Len(extra) = 1
        /\ \A k \in 1 .. Len(extra) : extra[k].label = (made + n) + k
    <3>1. [label |-> made + n + 1, val |-> "added"] \in Row
      BY <1>2, <1>3 DEF Row, Values
    <3>2. extra \in Seq(Row) /\ Len(extra) = 1
      BY <3>1
    <3>3. extra[1].label = (made + n) + 1
      OBVIOUS
    <3> HIDE DEF extra
    <3> QED
      BY <3>2, <3>3
  <2>3. made + n \in Nat
    BY <1>2, <1>3
  <2> HIDE DEF extra
  <2>4. WellFormed(WithChunk(staged, extra), made + n + 1)
    BY <1>5, <2>2, <2>3, ChunkStaged
  <2>5. Current(WithChunk(staged, extra), rows)
    BY <1>5, <2>2, <2>3, ChunkStaged
  <2>6. made' \in Nat /\ made <= made' /\ made' <= MaxLabels
    BY <1>2, <1>3, <2>1
  <2>7. ASSUME NEW l \in StagedBy(WithChunk(staged, extra))
        PROVE  l \in StagedBy(ctx) \/ l \in made + 1 .. made'
    <3>1. l \in StagedBy(staged) \/ l \in made + n + 1 .. made + n + 1
      BY <1>5, <2>2, <2>3, ChunkStaged
    <3>2. l \in StagedBy(ctx) \/ l \in made + 1 .. made + n \/ l \in made + n + 1 .. made + n + 1
      BY <1>5, <3>1
    <3>3. l \in made + 1 .. made + n => l \in made + 1 .. made'
      BY <1>2, <1>3, <2>1
    <3>4. l \in made + n + 1 .. made + n + 1 => l \in made + 1 .. made'
      BY <1>2, <1>3, <2>1
    <3> QED
      BY <3>2, <3>3, <3>4
  <2> QED
    BY <1>1, <2>1, <2>4, <2>5, <2>6, <2>7, EditOrderly DEF ctx
<1> QED
  BY <1>6, <1>7

\* A row gets a value.
LEMMA UpdateOrderly ==
  ASSUME Orderly, active # NoCtx, NEW i \in Ids, NEW val \in Values, UpdateEntry(i, val)
  PROVE  Orderly'
<1> DEFINE ctx == ctxs[active]
           w == [ctx EXCEPT !.updates = [j \in DOMAIN @ \cup {i} |-> IF j = i THEN val ELSE @[j]]]
<1>1. /\ WellFormed(ctx, made) /\ Current(ctx, rows) /\ made \in Nat
      /\ made <= MaxLabels
  BY ActiveContext
<1>2. CASE outcome' # "ok"
  <2>1. UNCHANGED <<rows, ctxs, active, blocks, made, dropped>>
    BY <1>2 DEF UpdateEntry, Refuse, Edit
  <2> QED
    BY <2>1, Unmoved
<1>3. CASE outcome' = "ok"
  <2>1. ~(i >= ctx.start) /\ Edit(w) /\ made' = made
    BY <1>3 DEF UpdateEntry, Refuse
  <2>2. i \in 0 .. ctx.start - 1
    <3>1. ctx.start \in Nat /\ ctx.counter \in Nat
      BY <1>1 DEF WellFormed
    <3>2. i \in 0 .. ctx.counter
      BY DEF Ids
    <3> QED
      BY <2>1, <3>1, <3>2
  <2>3. /\ DOMAIN w = DOMAIN ctx /\ w.start = ctx.start /\ w.counter = ctx.counter
        /\ w.chunks = ctx.chunks /\ w.names = ctx.names /\ w.dead = ctx.dead
        /\ w.trackers = ctx.trackers
        /\ w.updates = [j \in DOMAIN ctx.updates \cup {i} |-> IF j = i THEN val ELSE ctx.updates[j]]
    <3>1. DOMAIN ctx = Fields
      BY <1>1 DEF WellFormed
    <3> HIDE DEF ctx
    <3> QED
      BY <3>1 DEF Fields
  <2> HIDE DEF w
  <2>4. WellFormed(w, made)
    BY <1>1, <2>2, <2>3 DEF WellFormed
  <2>5. Current(w, rows) /\ StagedBy(w) = StagedBy(ctx)
    BY <1>1, <2>3 DEF Current, StagedBy
  <2> QED
    BY <1>1, <2>1, <2>4, <2>5, EditOrderly
<1> QED
  BY <1>2, <1>3

\* Rows are deleted.
LEMMA DeleteOrderly ==
  ASSUME Orderly, active # NoCtx, NEW ids \in SUBSET Ids, DelEntries(ids)
  PROVE  Orderly'
<1> DEFINE ctx == ctxs[active]
           w == [ctx EXCEPT !.dead = @ \cup ids]
<1>1. /\ WellFormed(ctx, made) /\ Current(ctx, rows) /\ made \in Nat
      /\ made <= MaxLabels
  BY ActiveContext
<1>2. CASE \E i \in ids : i > Len(rows) - 1
  <2>1. UNCHANGED <<rows, ctxs, active, blocks, made, dropped>>
    BY <1>2 DEF DelEntries, Refuse
  <2> QED
    BY <2>1, Unmoved
<1>3. CASE ~\E i \in ids : i > Len(rows) - 1
  <2>1. Edit(w) /\ made' = made
    BY <1>3 DEF DelEntries
  <2>2. \A i \in ids : i \in 0 .. ctx.start - 1
    <3>1. ctx.start \in Nat /\ ctx.counter \in Nat /\ ctx.start = Len(rows)
      BY <1>1 DEF WellFormed, Current
    <3>2. \A i \in ids : i \in 0 .. ctx.counter
      BY DEF Ids
    <3> QED
      BY <1>3, <3>1, <3>2
  <2>3. /\ DOMAIN w = DOMAIN ctx /\ w.start = ctx.start /\ w.counter = ctx.counter
        /\ w.chunks = ctx.chunks /\ w.names = ctx.names /\ w.updates = ctx.updates
        /\ w.trackers = ctx.trackers
        /\ w.dead = ctx.dead \cup ids
    <3>1. DOMAIN ctx = Fields
      BY <1>1 DEF WellFormed
    <3> HIDE DEF ctx
    <3> QED
      BY <3>1 DEF Fields
  <2> HIDE DEF w
  <2>4. WellFormed(w, made)
    BY <1>1, <2>2, <2>3 DEF WellFormed
  <2>5. Current(w, rows) /\ StagedBy(w) = StagedBy(ctx)
    BY <1>1, <2>3 DEF Current, StagedBy
  <2> QED
    BY <1>1, <2>1, <2>4, <2>5, EditOrderly
<1> QED
  BY <1>2, <1>3

\* The trackers a program can create are for ids the context knows.
LEMMA TrackersFit ==
  ASSUME NEW t \in Trackers, ctxs[active].counter \in Nat
  PROVE  TrackerFits(t, ctxs[active].counter)
<1> DEFINE c == ctxs[active].counter
<1>1. Ids = 0 .. c /\ c \in Nat
  BY DEF Ids
<1> HIDE DEF c
<1>2. CASE t \in [kind : {"single"}, ids : {<<i>> : i \in Ids}]
  <2>1. PICK i \in Ids : t.ids = <<i>>
    BY <1>2
  <2>2. t.ids \in Seq(0 .. c)
    BY <1>1, <2>1
  <2>3. t.kind # "range"
    BY <1>2
  <2> QED
    BY <2>2, <2>3 DEF TrackerFits, c
<1>3. CASE t \in {[kind |-> "array", ids |-> <<p[2], p[1]>>] : p \in {q \in Ids \X Ids : q[1] < q[2]}}
  <2>1. PICK p \in Ids \X Ids : t = [kind |-> "array", ids |-> <<p[2], p[1]>>]
    BY <1>3
  <2>2. p[1] \in 0 .. c /\ p[2] \in 0 .. c
    BY <1>1, <2>1
  <2>3. t.ids \in Seq(0 .. c)
    BY <2>1, <2>2
  <2>4. t.kind # "range"
    BY <2>1
  <2> QED
    BY <2>3, <2>4 DEF TrackerFits, c
<1>4. CASE t \in {[kind |-> "range", ids |-> [k \in 1 .. p[2] + 1 - p[1] |-> p[1] + k - 1]] :
                    p \in {q \in Ids \X Ids : q[1] < q[2]}}
  <2>1. PICK p \in Ids \X Ids : /\ p[1] < p[2]
                                /\ t = [kind |-> "range",
                                        ids |-> [k \in 1 .. p[2] + 1 - p[1] |-> p[1] + k - 1]]
    BY <1>4
  <2> DEFINE a == p[1]
             b == p[2]
  <2>2. a \in 0 .. c /\ b \in 0 .. c /\ a < b
    BY <1>1, <2>1
  <2>3. t.ids = [k \in 1 .. b + 1 - a |-> a + k - 1]
    BY <2>1
  <2> HIDE DEF a, b
  <2>4. b + 1 - a \in Nat /\ a \in Nat
    BY <2>2, SessionAssumption
  <2>5. \A k \in 1 .. b + 1 - a : a + k - 1 \in 0 .. c
    BY <1>1, <2>2
  <2>6. t.ids \in Seq(0 .. c)
    <3> DEFINE last == b + 1 - a
    <3>1. last \in Nat /\ \A k \in 1 .. last : t.ids[k] \in 0 .. c
      BY <2>3, <2>4, <2>5
    <3>2. t.ids = [k \in 1 .. last |-> t.ids[k]]
      BY <2>3
    <3> HIDE DEF last
    <3> QED
      BY <3>1, <3>2
  <2>7. DOMAIN t.ids = 1 .. b + 1 - a /\ 1 \in 1 .. b + 1 - a
    BY <2>2, <2>3
  <2>8. \A k \in DOMAIN t.ids : t.ids[k] = t.ids[1] + k - 1
    BY <2>3, <2>4, <2>7
  <2> QED
    BY <2>6, <2>8 DEF TrackerFits, c
<1> QED
  BY <1>2, <1>3, <1>4 DEF Trackers

\* A tracker is created.
LEMMA TrackOrderly ==
  ASSUME Orderly, active # NoCtx, NEW t \in Trackers, CreateTracker(t)
  PROVE  Orderly'
<1> DEFINE ctx == ctxs[active]
           w == [ctx EXCEPT !.trackers = @ \cup {t}]
<1>1. /\ WellFormed(ctx, made) /\ Current(ctx, rows) /\ made \in Nat
      /\ made <= MaxLabels
  BY ActiveContext
<1>2. Edit(w) /\ made' = made
  BY DEF CreateTracker
<1>3. TrackerFits(t, ctx.counter)
  BY <1>1, TrackersFit DEF WellFormed
<1>4. /\ DOMAIN w = DOMAIN ctx /\ w.start = ctx.start /\ w.counter = ctx.counter
      /\ w.chunks = ctx.chunks /\ w.names = ctx.names /\ w.updates = ctx.updates
      /\ w.dead = ctx.dead /\ w.trackers = ctx.trackers \cup {t}
  <2>1. DOMAIN ctx = Fields
    BY <1>1 DEF WellFormed
  <2> HIDE DEF ctx
  <2> QED
    BY <2>1 DEF Fields
<1> HIDE DEF w
<1>5. WellFormed(w, made)
  BY <1>1, <1>3, <1>4 DEF WellFormed
<1>6. Current(w, rows) /\ StagedBy(w) = StagedBy(ctx)
  BY <1>1, <1>4 DEF Current, StagedBy
<1> QED
  BY <1>1, <1>2, <1>5, <1>6, EditOrderly

\* A step that refuses leaves everything as it was.
LEMMA RefuseOrderly == Orderly /\ EditOutside => Orderly'
BY DEF EditOutside, Refuse, Orderly, Held, Separate

\* A block is left.  No context is active then, so that those other blocks
\* still hold need only be well formed.
LEMMA LeaveOrderly ==
  ASSUME Orderly, blocks # <<>>, NEW ctx, Leave(ctx),
         made' \in Nat, made <= made', made' <= MaxLabels, TableOK(rows', made'),
         WellFormed(ctx, made'),
         \A l \in StagedBy(ctx) : l \in StagedBy(ctxs[Innermost.ctx]) \/ l \in made + 1 .. made',
         \A l \in dropped' : \/ l \in dropped
                             \/ /\ ~IsShared
                                /\ \/ l \in StagedBy(ctxs[Innermost.ctx])
                                   \/ l \in made + 1 .. made',
         dropped' \cap Labels(rows') = {}
  PROVE  Orderly'
<1> DEFINE n == Len(blocks)
           R == [ctx : Ctxs, since : Nat]
<1>1. /\ made \in Nat /\ DOMAIN ctxs = Ctxs /\ blocks \in Seq(R) /\ n <= MaxDepth
      /\ \A c \in Held : WellFormed(ctxs[c], made)
  BY DEF Orderly
<1>2. /\ n \in Nat /\ n # 0 /\ MaxDepth \in Nat
      /\ \A i \in 1 .. n : blocks[i] \in R
  <2>1. n \in Nat /\ n # 0
    BY <1>1, EmptySeq, LenProperties
  <2> QED
    BY <1>1, <2>1, ElementOfSeq, SessionAssumption
<1>3. /\ \A i \in 1 .. n : blocks[i].ctx \in Ctxs
      /\ \A c : c \in Held <=> \E i \in 1 .. n : blocks[i].ctx = c
  BY BlockFacts
<1>4. /\ blocks' = SubSeq(blocks, 1, n - 1) /\ active' = NoCtx
      /\ ctxs' = [ctxs EXCEPT ![Innermost.ctx] = IF IsShared THEN ctx ELSE Fresh(<<>>)]
  BY DEF Leave
<1>5. Innermost.ctx = blocks[n].ctx
  BY DEF Innermost
<1> HIDE DEF n, R
<1>6. /\ blocks' \in Seq(R) /\ Len(blocks') = n - 1
      /\ \A i \in 1 .. n - 1 : blocks'[i] = blocks[i]
  <2>1. 1 \in Int /\ n - 1 \in Int /\ \A i \in 1 .. n - 1 : blocks[i] \in R
    BY <1>2
  <2>2. /\ SubSeq(blocks, 1, n - 1) \in Seq(R)
        /\ Len(SubSeq(blocks, 1, n - 1)) = IF 1 <= n - 1 THEN n - 1 - 1 + 1 ELSE 0
        /\ \A i \in 1 .. n - 1 - 1 + 1 : SubSeq(blocks, 1, n - 1)[i] = blocks[1 + i - 1]
    BY <2>1, SubSeqProperties
  <2>3. \A i \in 1 .. n - 1 : i \in 1 .. n - 1 - 1 + 1 /\ 1 + i - 1 = i
    BY <1>2
  <2>4. (IF 1 <= n - 1 THEN n - 1 - 1 + 1 ELSE 0) = n - 1
    BY <1>2
  <2> QED
    BY <1>4, <2>2, <2>3, <2>4
<1>7. n - 1 <= MaxDepth
  BY <1>1, <1>2
<1>8. DOMAIN blocks' = 1 .. n - 1
  BY <1>6, LenProperties
<1>9. \A c : c \in Held' => \E i \in 1 .. n - 1 : blocks[i].ctx = c
  BY <1>6, <1>8 DEF Held
<1>10. ASSUME NEW c \in Held' PROVE WellFormed(ctxs'[c], made')
  <2>1. PICK i \in 1 .. n - 1 : blocks[i].ctx = c
    BY <1>9
  <2>2. i \in 1 .. n
    BY <1>2
  <2>3. c \in Ctxs /\ c \in Held
    BY <1>3, <2>1, <2>2
  <2>4. CASE c = Innermost.ctx
    <3>1. IsShared
      BY <2>1, <2>4 DEF IsShared, n
    <3>2. ctxs'[c] = ctx
      BY <1>1, <1>4, <2>3, <2>4, <3>1
    <3> QED
      BY <3>1, <3>2
  <2>5. CASE c # Innermost.ctx
    <3>1. ctxs'[c] = ctxs[c]
      BY <1>1, <1>4, <2>3, <2>5
    <3>2. WellFormed(ctxs[c], made)
      BY <1>1, <2>3
    <3> QED
      BY <1>1, <3>1, <3>2, MoreLabels
  <2> QED
    BY <2>4, <2>5
<1>11. DOMAIN ctxs' = Ctxs
  BY <1>1, <1>4
<1>12. Innermost.ctx \in Held /\ Innermost.ctx \in Ctxs
  BY <1>2, <1>3, <1>5
<1>13. Held' \subseteq Held
  <2>1. \A i \in 1 .. n - 1 : i \in 1 .. n
    BY <1>2
  <2> QED
    BY <1>3, <1>9, <2>1
<1>14. ~IsShared => Innermost.ctx \notin Held'
  BY <1>9 DEF IsShared, n
<1>15. IsShared => ctxs'[Innermost.ctx] = ctx
  BY <1>1, <1>4, <1>12
<1>16. \A c \in Held' : c # Innermost.ctx => ctxs'[c] = ctxs[c]
  BY <1>1, <1>3, <1>4, <1>12, <1>13
<1>17. Separate'
  <2> DEFINE k == Innermost.ctx
  <2>1. k \in Held' => \A l \in StagedBy(ctxs'[k]) :
                         l \in StagedBy(ctxs[k]) \/ l \in made + 1 .. made'
    BY <1>14, <1>15
  <2>2. \A l \in dropped' : \/ l \in dropped
                            \/ /\ k \notin Held'
                               /\ l \in StagedBy(ctxs[k]) \/ l \in made + 1 .. made'
    BY <1>14
  <2> HIDE DEF k
  <2>3. k \in Held /\ \A c \in Held' : c # k => ctxs'[c] = ctxs[c]
    BY <1>12, <1>16 DEF k
  <2> QED
    BY <1>13, <2>1, <2>2, <2>3, StaysSeparate
<1>18. dropped' \subseteq 1 .. made'
  <2>1. dropped \subseteq 1 .. made
    BY DEF Orderly
  <2>2. \A l \in StagedBy(ctxs[Innermost.ctx]) : l \in 1 .. made
    BY <1>1, <1>12, StagedLabels DEF StagedBy
  <2>3. \A l : l \in 1 .. made => l \in 1 .. made'
    BY <1>1
  <2>4. \A l : l \in made + 1 .. made' => l \in 1 .. made'
    BY <1>1
  <2> QED
    BY <2>1, <2>2, <2>3, <2>4
<1> QED
  BY <1>4, <1>6, <1>7, <1>10, <1>11, <1>17, <1>18 DEF Orderly, R

\* What a block finds when it is left.
LEMMA InnermostContext ==
  ASSUME Orderly, blocks # <<>>
  PROVE  /\ Innermost.ctx \in Held /\ Innermost.ctx \in Ctxs
         /\ WellFormed(ctxs[Innermost.ctx], made)
<1>1. Len(blocks) \in Nat /\ Len(blocks) # 0
  <2>1. blocks \in Seq([ctx : Ctxs, since : Nat])
    BY DEF Orderly
  <2> QED
    BY <2>1, EmptySeq, LenProperties
<1>2. Len(blocks) \in 1 .. Len(blocks)
  BY <1>1
<1>3. Innermost.ctx \in Held /\ Innermost.ctx \in Ctxs
  BY <1>2, BlockFacts DEF Innermost
<1> QED
  BY <1>3 DEF Orderly

\* What the step that leaves a block commits: the context with the hook's row.
LEMMA CommitContext ==
  ASSUME Orderly, NEW stage \in BOOLEAN, NEW patch, LeaveBlock(stage, patch)
  PROVE  LET own == ctxs[Innermost.ctx]
             ctx == IF stage THEN WithChunk(own, NewRows(1)) ELSE own
         IN  /\ made \in Nat /\ made' \in Nat /\ made <= made' /\ made' <= MaxLabels
             /\ WellFormed(own, made) /\ WellFormed(ctx, made') /\ TableOK(rows, made')
             /\ Flat(ctx.chunks) = Flat(own.chunks) \o NewRows(made' - made)
             /\ \A l \in StagedBy(ctx) : l \in StagedBy(own) \/ l \in made + 1 .. made'
             /\ Len(rows) + Len(Flat(ctx.chunks)) <= MaxRows
             /\ UpToDate(own) => Ready(ctx, made')
<1> DEFINE own == ctxs[Innermost.ctx]
           ctx == IF stage THEN WithChunk(own, NewRows(1)) ELSE own
<1>1. /\ blocks # <<>> /\ (stage => own.chunks # <<>> /\ made < MaxLabels)
      /\ made' = IF stage THEN made + 1 ELSE made
      /\ Len(rows) + Len(Flat(ctx.chunks)) <= MaxRows
  BY DEF LeaveBlock
<1>2. /\ WellFormed(own, made) /\ made \in Nat /\ made <= MaxLabels /\ MaxLabels \in Nat
      /\ TableOK(rows, made)
  BY <1>1, InnermostContext, SessionAssumption DEF Orderly
<1>3. UpToDate(own) => Current(own, rows)
  BY DEF UpToDate, Current
<1> HIDE DEF own
<1>4. made' \in Nat /\ made <= made' /\ made' <= MaxLabels
  BY <1>1, <1>2
<1>5. /\ WellFormed(ctx, made')
      /\ Flat(ctx.chunks) = Flat(own.chunks) \o NewRows(made' - made)
      /\ \A l \in StagedBy(ctx) : l \in StagedBy(own) \/ l \in made + 1 .. made'
      /\ Current(own, rows) => Current(ctx, rows)
  <2>1. CASE ~stage
    <3>1. made' - made = 0 /\ made' = made
      BY <1>1, <1>2, <2>1
    <3>2. NewRows(0) \in Seq(Row) /\ Len(NewRows(0)) = 0
      BY <1>2, NewRowsAre
    <3>3. NewRows(0) = <<>>
      BY <3>2, EmptySeq
    <3>4. Flat(own.chunks) \in Seq(Row)
      BY <1>2, FlatProperties DEF WellFormed
    <3>5. Flat(own.chunks) \o <<>> = Flat(own.chunks)
      BY <3>4, ConcatEmptySeq
    <3> QED
      BY <1>2, <2>1, <3>1, <3>3, <3>5
  <2>2. CASE stage
    <3> DEFINE batch == NewRows(1)
    <3>1. /\ batch \in Seq(Row) /\ Len(batch) = 1
          /\ \A k \in 1 .. Len(batch) : batch[k].label = made + k
      BY <1>2, NewRowsAre
    <3>2. ctx = WithChunk(own, batch) /\ made' = made + 1 /\ made' - made = 1
      BY <1>1, <1>2, <2>2
    <3> HIDE DEF ctx, batch
    <3>3. /\ WellFormed(WithChunk(own, batch), made + 1)
          /\ Flat(WithChunk(own, batch).chunks) = Flat(own.chunks) \o batch
      BY <1>2, <3>1, ChunkStaged
    <3>4. Current(own, rows) => Current(WithChunk(own, batch), rows)
      BY <1>2, <3>1, ChunkStaged
    <3>5. \A l \in StagedBy(WithChunk(own, batch)) : l \in StagedBy(own) \/ l \in made + 1 .. made + 1
      BY <1>2, <3>1, ChunkStaged
    <3> QED
      BY <3>2, <3>3, <3>4, <3>5 DEF batch
  <2> QED
    BY <2>1, <2>2
<1>6. TableOK(rows, made')
  BY <1>2, <1>4, MoreRows
<1>7. UpToDate(own) => Ready(ctx, made')
  BY <1>1, <1>3, <1>4, <1>5, <1>6 DEF Ready
<1> QED
  BY <1>1, <1>2, <1>4, <1>5, <1>6, <1>7 DEF own

\* Its chunks become one, which keeps it as it is.
LEMMA OneChunk ==
  ASSUME NEW m \in Nat, NEW ctx, WellFormed(ctx, m)
  PROVE  LET left == [ctx EXCEPT !.chunks = <<Flat(@)>>]
         IN  WellFormed(left, m) /\ StagedBy(left) = StagedBy(ctx)
<1> DEFINE left == [ctx EXCEPT !.chunks = <<Flat(@)>>]
           flat == Flat(ctx.chunks)
<1>1. /\ DOMAIN left = Fields /\ left.chunks = <<flat>>
      /\ left.start = ctx.start /\ left.counter = ctx.counter /\ left.names = ctx.names
      /\ left.dead = ctx.dead /\ left.updates = ctx.updates /\ left.trackers = ctx.trackers
  <2>1. DOMAIN ctx = Fields
    BY DEF WellFormed
  <2> QED
    BY <2>1 DEF Fields
<1>2. flat \in Seq(Row)
  BY FlatProperties DEF WellFormed
<1> HIDE DEF left, flat
<1>3. left.chunks \in Seq(Seq(Row)) /\ Flat(left.chunks) = flat
  <2>1. <<>> \in Seq(Seq(Row)) /\ <<flat>> = Append(<<>>, flat) /\ <<flat>> \in Seq(Seq(Row))
    BY <1>2, EmptySeq
  <2>2. Flat(Append(<<>>, flat)) = Flat(<<>>) \o flat /\ Flat(<<>>) = <<>>
    BY <1>2, <2>1, FlatProperties
  <2>3. <<>> \o flat = flat
    BY <1>2, ConcatEmptySeq
  <2> QED
    BY <1>1, <2>1, <2>2, <2>3
<1>4. WellFormed(left, m)
  BY <1>1, <1>3 DEF WellFormed, flat
<1> QED
  BY <1>3, <1>4 DEF left, flat, StagedBy

\* The exception that ends a block drops rows the table does not have.
LEMMA Undone ==
  ASSUME Orderly, blocks # <<>>, NEW ctx, Undo(ctx), rows' = rows,
         \A l \in StagedBy(ctx) : l \in StagedBy(ctxs[Innermost.ctx]) \/ l \in made + 1 .. made'
  PROVE  /\ \A l \in dropped' : \/ l \in dropped
                                \/ /\ ~IsShared
                                   /\ \/ l \in StagedBy(ctxs[Innermost.ctx])
                                      \/ l \in made + 1 .. made'
         /\ dropped' \cap Labels(rows') = {}
<1>1. dropped \cap Labels(rows) = {}
  BY DEF Orderly
<1>2. dropped' = IF IsShared THEN dropped ELSE dropped \cup (StagedBy(ctx) \ Labels(rows))
  BY DEF Undo, StagedBy
<1> QED
  BY <1>1, <1>2

\* A block ends.
LEMMA LeaveBlockOrderly ==
  ASSUME Orderly, NEW stage \in BOOLEAN, NEW patch, LeaveBlock(stage, patch)
  PROVE  Orderly'
<1> DEFINE own == ctxs[Innermost.ctx]
           ctx == IF stage THEN WithChunk(own, NewRows(1)) ELSE own
<1>1. blocks # <<>>
  BY DEF LeaveBlock
<1>2. dropped \cap Labels(rows) = {} /\ dropped \subseteq 1 .. made /\ Innermost.ctx \in Held
      /\ StagedBy(own) \cap dropped = {}
  BY <1>1, InnermostContext DEF Orderly, Separate
<1>3. /\ made \in Nat /\ made' \in Nat /\ made <= made' /\ made' <= MaxLabels
      /\ WellFormed(ctx, made') /\ TableOK(rows, made')
      /\ \A l \in StagedBy(ctx) : l \in StagedBy(own) \/ l \in made + 1 .. made'
      /\ Len(rows) + Len(Flat(ctx.chunks)) <= MaxRows
  BY CommitContext
<1>4. CASE Breaks(ctx, patch)
  <2> DEFINE left == [ctx EXCEPT !.broken = TRUE]
  <2>1. Undo(ctx) /\ Leave(left) /\ rows' = rows
    BY <1>4 DEF LeaveBlock
  <2> HIDE DEF ctx
  <2>2. WellFormed(left, made') /\ StagedBy(left) = StagedBy(ctx)
    <3>1. DOMAIN ctx = Fields
      BY <1>3 DEF WellFormed
    <3>2. /\ DOMAIN left = Fields /\ left.chunks = ctx.chunks
          /\ left.start = ctx.start /\ left.counter = ctx.counter /\ left.names = ctx.names
          /\ left.dead = ctx.dead /\ left.updates = ctx.updates /\ left.trackers = ctx.trackers
      BY <3>1 DEF Fields
    <3> HIDE DEF left
    <3> QED
      BY <1>3, <3>2 DEF WellFormed, StagedBy
  <2>3. /\ \A l \in dropped' : \/ l \in dropped
                               \/ /\ ~IsShared
                                  /\ \/ l \in StagedBy(own)
                                     \/ l \in made + 1 .. made'
        /\ dropped' \cap Labels(rows') = {}
    BY <1>1, <1>3, <2>1, Undone
  <2> HIDE DEF left
  <2> QED
    BY <1>1, <1>3, <2>1, <2>2, <2>3, LeaveOrderly
<1>5. CASE ~Breaks(ctx, patch) /\ Tears(ctx)
  <2>1. Leave(ctx) /\ rows' = rows /\ dropped' = dropped
    BY <1>5 DEF LeaveBlock
  <2> HIDE DEF ctx
  <2> QED
    BY <1>1, <1>2, <1>3, <2>1, LeaveOrderly
<1>6. CASE ~Breaks(ctx, patch) /\ ~Tears(ctx)
  <2> DEFINE left == IF ctx.chunks = <<>> THEN ctx ELSE [ctx EXCEPT !.chunks = <<Flat(@)>>]
  <2>1. rows' = Materialized(ctx) /\ dropped' = dropped /\ Leave(left)
    BY <1>6 DEF LeaveBlock
  <2> HIDE DEF ctx
  <2>2. WellFormed(left, made') /\ StagedBy(left) = StagedBy(ctx)
    BY <1>3, OneChunk
  <2>3. /\ TableOK(rows', made')
        /\ \A l \in Labels(rows') : l \in Labels(rows) \/ l \in StagedBy(ctx)
    BY <1>3, <2>1, AnyCommit
  <2>4. dropped' \cap Labels(rows') = {}
    <3>1. \A l : l \in 1 .. made => l \notin made + 1 .. made'
      BY <1>3
    <3> QED
      BY <1>2, <1>3, <2>1, <2>3, <3>1
  <2> HIDE DEF left
  <2> QED
    BY <1>1, <1>3, <2>1, <2>2, <2>3, <2>4, LeaveOrderly
<1> QED
  BY <1>4, <1>5, <1>6

\* A block is left by an exception.
LEMMA RaiseOrderly == Orderly /\ RaiseFromBlock => Orderly'
<1> SUFFICES ASSUME Orderly, RaiseFromBlock PROVE Orderly'
  OBVIOUS
<1> DEFINE own == ctxs[Innermost.ctx]
<1>1. blocks # <<>> /\ Leave(own) /\ Undo(own) /\ rows' = rows /\ made' = made
  BY DEF RaiseFromBlock
<1>2. made \in Nat /\ made <= MaxLabels /\ TableOK(rows, made)
  BY DEF Orderly
<1>3. WellFormed(own, made)
  BY <1>1, InnermostContext
<1> HIDE DEF own
<1>4. /\ \A l \in dropped' : \/ l \in dropped
                             \/ /\ ~IsShared
                                /\ \/ l \in StagedBy(own)
                                   \/ l \in made + 1 .. made'
      /\ dropped' \cap Labels(rows') = {}
  BY <1>1, Undone DEF own
<1> QED
  BY <1>1, <1>2, <1>3, <1>4, LeaveOrderly DEF own

(***************************************************************************)
(* What a commit leaves.                                                   *)
(***************************************************************************)
\* The rows of a table that a context does not delete, with its updates.
KeptRow(ctx, i) ==
  [rows[i + 1] EXCEPT !.val = IF i \in DOMAIN ctx.updates THEN ctx.updates[i] ELSE @]

\* Those that come to be r.
Survivors(ctx, r) == {i \in 0 .. Len(rows) - 1 : i \notin ctx.dead /\ KeptRow(ctx, i) = r}

\* The rows of the committed table that are r are those of the live ids that come
\* to be r: old rows that survive and staged rows.
LEMMA CommitCounts ==
  ASSUME NEW m, NEW ctx, Ready(ctx, m), NEW r
  PROVE  Times(r, Materialized(ctx))
           = Cardinality(Survivors(ctx, r)) + Times(r, Staged(ctx))
<1> DEFINE t == Materialized(ctx)
           o == OracleFor(ctx)
           live == LiveIn(ctx)
           n == Len(Staged(ctx))
           N == o.newSize
           A == Survivors(ctx, r)
           B == {k \in 1 .. n : Staged(ctx)[k] = r}
           later == {i \in Size .. Size + n - 1 : Staged(ctx)[i - Size + 1] = r}
           L == {i \in live : RowOf(ctx, i) = r}
           C == {q \in 1 .. N : t[q] = r}
<1>1. /\ Size \in Nat /\ n \in Nat /\ Staged(ctx) \in Seq(Row)
      /\ ctx.dead \in SUBSET (0 .. Size - 1)
      /\ TableOK(rows, m) /\ m \in Nat
  BY ReadyFacts DEF Ready
<1>2. /\ DOMAIN t = 1 .. N /\ N \in Nat
      /\ \A q \in 1 .. N : \E i \in live : q = Resolve(o, i) + 1 /\ t[q] = RowOf(ctx, i)
      /\ \A i \in live : /\ Resolve(o, i) + 1 \in 1 .. N
                         /\ t[Resolve(o, i) + 1] = RowOf(ctx, i)
  BY CommittedTable
<1>3. /\ \A i \in live : i \in 0 .. Size + n - 1 /\ Resolve(o, i) \in 0 .. N - 1
      /\ \A i, j \in live : Resolve(o, i) = Resolve(o, j) => i = j
      /\ \A i : i \in live <=> i \in 0 .. Size + n - 1 /\ i \notin ctx.dead
  <2>1. \A i : i \in live <=> i \in 0 .. Size + n - 1 /\ i \notin ctx.dead
    BY DEF LiveIn, Live
  <2> QED
    BY <2>1, CommitDestinations
<1>4. /\ Times(r, t) = Cardinality(C)
      /\ Times(r, Staged(ctx)) = Cardinality(B)
  <2>1. DOMAIN Staged(ctx) = 1 .. n
    BY <1>1, LenProperties
  <2> QED
    BY <1>2, <2>1 DEF Times
<1>5. ASSUME NEW i \in 0 .. Size - 1 PROVE KeptRow(ctx, i) = RowOf(ctx, i)
  <2>1. rows[i + 1] \in Row
    <3>1. i + 1 \in 1 .. Len(rows)
      BY <1>1 DEF Size
    <3> QED
      BY <1>1, <3>1, TableFacts
  <2>2. i < Size
    BY <1>1
  <2> DEFINE w == rows[i + 1]
             v == IF i \in DOMAIN ctx.updates THEN ctx.updates[i] ELSE w.val
  <2>3. KeptRow(ctx, i) = [w EXCEPT !.val = v]
    BY DEF KeptRow
  <2>4. [w EXCEPT !.val = v] = [label |-> w.label, val |-> v]
    <3> HIDE DEF v
    <3> QED
      BY <2>1 DEF Row
  <2> QED
    BY <2>2, <2>3, <2>4 DEF RowOf
<1>6. \A i \in Size .. Size + n - 1 : RowOf(ctx, i) = Staged(ctx)[i - Size + 1]
  BY <1>1 DEF RowOf
<1>7. A = {i \in 0 .. Size - 1 : i \notin ctx.dead /\ KeptRow(ctx, i) = r}
  BY DEF Survivors, Size
<1> HIDE DEF t, o, live, n, N, A
<1>8. L = A \cup later
  <2>1. ASSUME NEW i \in L PROVE i \in A \cup later
    <3>1. i \in 0 .. Size + n - 1 /\ i \notin ctx.dead /\ RowOf(ctx, i) = r
      BY <1>3
    <3>2. i \in 0 .. Size - 1 \/ i \in Size .. Size + n - 1
      BY <1>1, <3>1
    <3> QED
      BY <1>5, <1>6, <1>7, <3>1, <3>2
  <2>2. ASSUME NEW i \in A PROVE i \in L
    <3>1. i \in 0 .. Size - 1 /\ i \notin ctx.dead /\ RowOf(ctx, i) = r
      BY <1>5, <1>7
    <3>2. i \in 0 .. Size + n - 1
      BY <1>1, <3>1
    <3> QED
      BY <1>3, <3>1, <3>2
  <2>3. ASSUME NEW i \in later PROVE i \in L
    <3>1. i \in Size .. Size + n - 1 /\ RowOf(ctx, i) = r
      BY <1>6
    <3>2. i \in 0 .. Size + n - 1 /\ i \notin 0 .. Size - 1
      BY <1>1, <3>1
    <3> QED
      BY <1>1, <1>3, <3>1, <3>2
  <2> HIDE DEF later, L
  <2> QED
    BY <2>1, <2>2, <2>3
<1>9. A \cap later = {}
  BY <1>1, <1>7
<1>10. IsFiniteSet(A) /\ IsFiniteSet(B) /\ IsFiniteSet(later)
  <2>1. IsFiniteSet(0 .. Size - 1) /\ IsFiniteSet(1 .. n) /\ IsFiniteSet(Size .. Size + n - 1)
    BY <1>1, FS_Interval
  <2>2. A \subseteq 0 .. Size - 1 /\ B \subseteq 1 .. n /\ later \subseteq Size .. Size + n - 1
    BY <1>7
  <2> HIDE DEF B, later
  <2> QED
    BY <2>1, <2>2, FS_Subset
<1>11. Cardinality(later) = Cardinality(B)
  <2> DEFINE f == [k \in B |-> Size + k - 1]
  <2>1. f \in [B -> later]
    <3>1. ASSUME NEW k \in B PROVE Size + k - 1 \in later
      <4>1. k \in 1 .. n /\ Staged(ctx)[k] = r
        OBVIOUS
      <4>2. PICK i \in Size .. Size + n - 1 : i = Size + k - 1
        BY <1>1, <4>1
      <4>3. i - Size + 1 = k
        BY <1>1, <4>1, <4>2
      <4> QED
        BY <4>1, <4>2, <4>3
    <3> QED
      BY <3>1
  <2>2. \A k, j \in B : f[k] = f[j] => k = j
    BY <1>1
  <2>3. ASSUME NEW i \in later PROVE \E k \in B : f[k] = i
    <3>1. i \in Size .. Size + n - 1 /\ Staged(ctx)[i - Size + 1] = r
      OBVIOUS
    <3>2. PICK k \in 1 .. n : k = i - Size + 1
      BY <1>1, <3>1
    <3>3. k \in B /\ Size + k - 1 = i
      BY <1>1, <3>1, <3>2
    <3> QED
      BY <3>3
  <2> HIDE DEF f, B, later
  <2>4. f \in Injection(B, later) /\ f \in Surjection(B, later)
    BY <2>1, <2>2, <2>3, Fun_IsInj, Fun_IsSurj
  <2>5. ExistsBijection(B, later)
    BY <2>4 DEF ExistsBijection, Bijection
  <2> QED
    BY <1>10, <2>5, FS_Bijection
<1>14. IsFiniteSet(L)
  <2> HIDE DEF L, later
  <2>1. IsFiniteSet(A \cup later)
    BY <1>10, FS_Union
  <2> QED
    BY <1>8, <2>1
<1>12. Cardinality(C) = Cardinality(L)
  <2> DEFINE f == [i \in L |-> Resolve(o, i) + 1]
  <2>1. f \in [L -> C]
    BY <1>2
  <2>2. \A i, j \in L : f[i] = f[j] => i = j
    <3> SUFFICES ASSUME NEW i \in L, NEW j \in L, f[i] = f[j] PROVE i = j
      OBVIOUS
    <3>1. i \in live /\ j \in live /\ Resolve(o, i) + 1 = Resolve(o, j) + 1
      OBVIOUS
    <3>2. Resolve(o, i) \in 0 .. N - 1 /\ Resolve(o, j) \in 0 .. N - 1
      BY <1>3, <3>1
    <3>3. Resolve(o, i) = Resolve(o, j)
      BY <1>2, <3>1, <3>2
    <3> QED
      BY <1>3, <3>1, <3>3
  <2>3. ASSUME NEW q \in C PROVE \E i \in L : f[i] = q
    <3>1. q \in 1 .. N /\ t[q] = r
      OBVIOUS
    <3>2. PICK i \in live : q = Resolve(o, i) + 1 /\ t[q] = RowOf(ctx, i)
      BY <1>2, <3>1
    <3>3. i \in L
      BY <3>1, <3>2
    <3> QED
      BY <3>2, <3>3
  <2> HIDE DEF f, L, C
  <2>5. f \in Injection(L, C) /\ f \in Surjection(L, C)
    BY <2>1, <2>2, <2>3, Fun_IsInj, Fun_IsSurj
  <2>6. ExistsBijection(L, C)
    BY <2>5 DEF ExistsBijection, Bijection
  <2> QED
    BY <1>14, <2>6, FS_Bijection
<1> HIDE DEF B, later, L, C
<1>13. Cardinality(L) = Cardinality(A) + Cardinality(later)
  <2>1. Cardinality(A \cup later) = Cardinality(A) + Cardinality(later) - Cardinality(A \cap later)
    BY <1>10, FS_Union
  <2>2. Cardinality({}) = 0 /\ Cardinality(A) \in Nat /\ Cardinality(later) \in Nat
    BY <1>10, FS_EmptySet, FS_CardinalityType
  <2>3. Cardinality(A \cap later) = 0
    BY <1>9, <2>2
  <2>4. Cardinality(L) = Cardinality(A \cup later)
    BY <1>8
  <2> QED
    BY <2>1, <2>2, <2>3, <2>4
<1> QED
  BY <1>4, <1>11, <1>12, <1>13 DEF A, t

\* What CommitsAreExact and TrackersFindRows say of a step.
Exact ==
  outcome' = "committed" /\ UpToDate(ctxs[Innermost.ctx]) =>
    LET ctx == ctxs[Innermost.ctx]
        staged == Flat(ctx.chunks) \o NewRows(made' - made)
        kept(i) == [rows[i + 1] EXCEPT
                      !.val = IF i \in DOMAIN ctx.updates THEN ctx.updates[i] ELSE @]
        survivors(r) == {i \in 0 .. Len(rows) - 1 : i \notin ctx.dead /\ kept(i) = r}
    IN  \A r \in [label : 1 .. made', val : Values] :
          Times(r, rows') = Cardinality(survivors(r)) + Times(r, staged)

Found ==
  outcome' = "committed" /\ UpToDate(ctxs[Innermost.ctx]) =>
    \A a \in answers' :
      IF a.means # 0
        THEN a.at < Len(rows') /\ rows'[a.at + 1].label = a.means
        ELSE a.at = Missing

\* Leaving a block is exact, and fills the trackers.
LEMMA LeaveBlockExact ==
  ASSUME Orderly, NEW stage \in BOOLEAN, NEW patch, LeaveBlock(stage, patch)
  PROVE  Exact /\ Found
<1> DEFINE own == ctxs[Innermost.ctx]
           ctx == IF stage THEN WithChunk(own, NewRows(1)) ELSE own
<1>1. CASE ~(outcome' = "committed" /\ UpToDate(own))
  BY <1>1 DEF Exact, Found
<1>2. CASE outcome' = "committed" /\ UpToDate(own)
  <2>1. /\ WellFormed(own, made) /\ WellFormed(ctx, made') /\ Ready(ctx, made')
        /\ Flat(ctx.chunks) = Flat(own.chunks) \o NewRows(made' - made)
    BY <1>2, CommitContext
  <2>2. ~Breaks(ctx, patch) /\ ~Tears(ctx)
    BY <1>2 DEF LeaveBlock
  <2>3. /\ rows' = Materialized(ctx)
        /\ answers' = UNION {Answer(ctx, t) : t \in ctx.trackers}
    BY <2>2 DEF LeaveBlock
  <2>4. ctx.updates = own.updates /\ ctx.dead = own.dead
    <3>1. DOMAIN own = Fields
      BY <2>1 DEF WellFormed
    <3> HIDE DEF own
    <3> QED
      BY <3>1, ChunkFields
  <2> HIDE DEF own, ctx
  <2>5. ASSUME NEW r
        PROVE  Times(r, rows') = Cardinality(Survivors(own, r))
                                   + Times(r, Flat(own.chunks) \o NewRows(made' - made))
    <3>1. Times(r, Materialized(ctx)) = Cardinality(Survivors(ctx, r)) + Times(r, Staged(ctx))
      BY <2>1, CommitCounts
    <3>2. Survivors(ctx, r) = Survivors(own, r)
      BY <2>4 DEF Survivors, KeptRow
    <3> QED
      BY <2>1, <2>3, <3>1, <3>2 DEF Staged
  <2>6. Exact
    BY <2>5 DEF Exact, Survivors, KeptRow, own
  <2>7. ASSUME NEW a \in answers'
        PROVE  IF a.means # 0
                 THEN a.at < Len(rows') /\ rows'[a.at + 1].label = a.means
                 ELSE a.at = Missing
    <3>1. PICK t \in ctx.trackers : a \in Answer(ctx, t)
      BY <2>3
    <3>2. TrackerFits(t, ctx.counter)
      BY <2>1 DEF WellFormed
    <3> QED
      BY <2>1, <2>3, <3>1, <3>2, AnswersRight
  <2>8. Found
    BY <2>7 DEF Found
  <2> QED
    BY <2>6, <2>8
<1> QED
  BY <1>1, <1>2

(***************************************************************************)
(* The theorems.                                                           *)
(***************************************************************************)
\* Every step keeps the invariant.
LEMMA StepOrderly == Orderly /\ [Next]_vars => Orderly'
<1> SUFFICES ASSUME Orderly, [Next]_vars PROVE Orderly'
  OBVIOUS
<1>1. CASE EnterBlock
  BY <1>1, EnterOrderly
<1>2. CASE EditOutside
  BY <1>2, RefuseOrderly
<1>3. ASSUME NEW n \in 0 .. MaxBatch, NEW echo \in BOOLEAN, AddEntries(n, echo) PROVE Orderly'
  BY <1>3, AddOrderly
<1>4. ASSUME active # NoCtx, NEW i \in Ids, NEW val \in Values, UpdateEntry(i, val)
      PROVE  Orderly'
  BY <1>4, UpdateOrderly
<1>5. ASSUME active # NoCtx, NEW ids \in SUBSET Ids, DelEntries(ids) PROVE Orderly'
  BY <1>5, DeleteOrderly
<1>6. ASSUME active # NoCtx, NEW t \in Trackers, CreateTracker(t) PROVE Orderly'
  BY <1>6, TrackOrderly
<1>7. ASSUME NEW stage \in BOOLEAN, NEW patch, LeaveBlock(stage, patch) PROVE Orderly'
  BY <1>7, LeaveBlockOrderly
<1>8. CASE RaiseFromBlock
  BY <1>8, RaiseOrderly
<1>9. CASE UNCHANGED vars
  BY <1>9, Unmoved DEF vars
<1> QED
  BY <1>1, <1>2, <1>3, <1>4, <1>5, <1>6, <1>7, <1>8, <1>9 DEF Next

\* The invariant holds from the start.
LEMMA AlwaysOrderly == Spec => []Orderly
<1>1. Init => Orderly
  BY InitOrderly
<1>2. Orderly /\ [Next]_vars => Orderly'
  BY StepOrderly
<1> QED
  BY <1>1, <1>2, PTL DEF Spec

\* A step that ends in a commit of a context that is up to date is exact.
LEMMA StepExact == Orderly /\ [Next]_vars => [Exact /\ Found]_vars
<1> SUFFICES ASSUME Orderly, Next PROVE Exact /\ Found
  BY DEF vars
<1>1. CASE EnterBlock
  BY <1>1 DEF EnterBlock, Exact, Found
<1>2. CASE EditOutside
  BY <1>2 DEF EditOutside, Refuse, Exact, Found
<1>3. ASSUME NEW n \in 0 .. MaxBatch, NEW echo \in BOOLEAN, AddEntries(n, echo)
      PROVE  Exact /\ Found
  BY <1>3 DEF AddEntries, Edit, Exact, Found
<1>4. ASSUME NEW i \in Ids, NEW val \in Values, UpdateEntry(i, val)
      PROVE  Exact /\ Found
  BY <1>4 DEF UpdateEntry, Edit, Refuse, Exact, Found
<1>5. ASSUME NEW ids \in SUBSET Ids, DelEntries(ids)
      PROVE  Exact /\ Found
  BY <1>5 DEF DelEntries, Edit, Refuse, Exact, Found
<1>6. ASSUME NEW t \in Trackers, CreateTracker(t)
      PROVE  Exact /\ Found
  BY <1>6 DEF CreateTracker, Edit, Exact, Found
<1>7. ASSUME NEW stage \in BOOLEAN, NEW patch, LeaveBlock(stage, patch)
      PROVE  Exact /\ Found
  BY <1>7, LeaveBlockExact
<1>8. CASE RaiseFromBlock
  BY <1>8 DEF RaiseFromBlock, Exact, Found
<1> QED
  BY <1>1, <1>2, <1>3, <1>4, <1>5, <1>6, <1>7, <1>8 DEF Next

\* The commit of a context that no commit has overtaken fills its trackers with
\* the places of the rows their ids meant, and with none where there is no row,
\* whatever the batches, the kinds of tracker and the hooks were.
THEOREM TrackersAlwaysFindRows == Spec => TrackersFindRows
<1>1. Spec => []Orderly
  BY AlwaysOrderly
<1>2. Orderly /\ [Next]_vars => [Found]_vars
  BY StepExact
<1>3. [][Found]_vars => TrackersFindRows
  BY DEF TrackersFindRows, Found
<1> QED
  BY <1>1, <1>2, <1>3, PTL DEF Spec

\* What was not in the table when the last block of its context was left by an
\* exception is never in it.
THEOREM NothingDroppedReturns == Spec => []DroppedContextsLeaveNothing
<1>1. Spec => []Orderly
  BY AlwaysOrderly
<1>2. Orderly => DroppedContextsLeaveNothing
  BY DEF Orderly, DroppedContextsLeaveNothing
<1> QED
  BY <1>1, <1>2, PTL

\* The ids of every context a block holds name the rows of its chunks, also of
\* a context that was committed by an inner block.
THEOREM TypeCorrect == Spec => []TypeOK
<1>1. Spec => []Orderly
  BY AlwaysOrderly
<1>2. Orderly => TypeOK
  <2> SUFFICES ASSUME Orderly PROVE TypeOK
    OBVIOUS
  <2>1. /\ made \in Nat /\ TableOK(rows, made) /\ active \in Held \cup {NoCtx}
        /\ \A c \in Held : WellFormed(ctxs[c], made)
    BY DEF Orderly
  <2>2. Len(rows) <= MaxRows
    BY <2>1 DEF TableOK
  <2>3. \A i \in DOMAIN rows : rows[i].label \in 1 .. made /\ rows[i].val \in Values
    BY <2>1, TableFacts
  <2>4. ASSUME NEW c \in Held
        PROVE  LET ctx == ctxs[c]
               IN  /\ ctx.counter - ctx.start = Len(Flat(ctx.chunks))
                   /\ DOMAIN ctx.names = 0 .. ctx.counter - 1
                   /\ ctx.dead \cup DOMAIN ctx.updates \subseteq 0 .. ctx.start - 1
                   /\ \A k \in DOMAIN Flat(ctx.chunks) :
                        Flat(ctx.chunks)[k].label = ctx.names[ctx.start + k - 1]
    <3> DEFINE ctx == ctxs[c]
               flat == Flat(ctx.chunks)
               n == Len(flat)
    <3>1. flat \in Seq(Row) /\ n \in Nat /\ DOMAIN flat = 1 .. n
      BY <2>1, FlatProperties, LenProperties DEF WellFormed
    <3>2. /\ ctx.start \in Nat /\ ctx.counter = ctx.start + n
          /\ DOMAIN ctx.names = 0 .. ctx.counter - 1
          /\ ctx.dead \subseteq 0 .. ctx.start - 1 /\ DOMAIN ctx.updates \subseteq 0 .. ctx.start - 1
          /\ \A k \in 1 .. n : flat[k].label = ctx.names[ctx.start + k - 1]
      BY <2>1 DEF WellFormed
    <3> HIDE DEF n, flat
    <3>3. ctx.counter - ctx.start = n
      BY <3>1, <3>2
    <3> QED
      BY <3>1, <3>2, <3>3 DEF n, flat
  <2> QED
    BY <2>1, <2>2, <2>3, <2>4 DEF TypeOK
<1> QED
  BY <1>1, <1>2, PTL

\* The commit of a context that no commit has overtaken leaves every row as often
\* as it survives and was staged, by the program or by a hook, in whichever of
\* the blocks that share the context.
THEOREM EveryCommitIsExact == Spec => CommitsAreExact
<1>1. Spec => []Orderly
  BY AlwaysOrderly
<1>2. Orderly /\ [Next]_vars => [Exact]_vars
  BY StepExact
<1>3. [][Exact]_vars => CommitsAreExact
  BY DEF CommitsAreExact, Exact
<1> QED
  BY <1>1, <1>2, <1>3, PTL DEF Spec
=============================================================================
