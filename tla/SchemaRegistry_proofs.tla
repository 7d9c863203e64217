----------------------- MODULE SchemaRegistry_proofs -----------------------
(***************************************************************************)
(* What an overlay database can rely on when its schemas come from a       *)
(* registry, for any number of tables, keys and columns and in whatever    *)
(* order overlays hand them over.                                          *)
(*                                                                         *)
(* The invariant (Sound) speaks of pairs of a schema and a column of it.   *)
(* Every column is in one place; the columns in the schemas are those that *)
(* came by themselves (roots) and all that each of these brings along; the *)
(* columns that wait are roots that are in no schema.  If programs follow  *)
(* both rules, the targets and the subscribers of schemas that no database *)
(* has are among these schemas (Ruled).  A failure of the registry ends    *)
(* that, but not what databases have (Inv).                                *)
(***************************************************************************)
EXTENDS SchemaRegistry, RemapOracle_proofs, SequenceTheorems

(***************************************************************************)
(* Columns and where they are.                                             *)
(***************************************************************************)
Kinds == {"data", "key", "head", "type", "next", "prev", "count"}

Columns == [kind : Kinds, of : Nat, type : Nat]

\* What requests may ask for: counts without a dtype are never placed.
AskedKinds == Kinds \cup {"untyped"}

Asked == [kind : AskedKinds, of : Nat, type : Nat]

IdMaps == UNION {[D -> Int] : D \in SUBSET Columns}

SchemaRecords ==
  [name : Names, cols : Seq(Columns), ids : IdMaps, subs : SUBSET Nat, final : BOOLEAN]

\* The columns that do not come with another one, for the keys ks and d data
\* columns.
Roots(ks, d) == {DataColumn(i) : i \in 1 .. d} \cup {KeyColumn(k) : k \in DOMAIN ks}

\* The column that a column came with.
RootOf(c) == IF c.kind = "data" THEN c ELSE KeyColumn(c.of)

\* Which schema has which column.
Placed(ss) == UNION {{<<s, ss[s].cols[i]>> : i \in DOMAIN ss[s].cols} : s \in DOMAIN ss}

\* What key k brings along when schema s takes it in.
Along(ks, s, k) ==
  {<<s, Injected("next", k, 0)>>, <<s, Injected("prev", k, 0)>>}
    \cup (IF Len(ks[k]) > 1 THEN {<<s, Injected("type", k, 0)>>} ELSE {})
    \cup {<<ks[k][i], Injected("head", k, i)>> : i \in DOMAIN ks[k]}
    \cup (IF ~TrackCounts THEN {}
          ELSE IF CountsTyped
            THEN {<<ks[k][i], Injected("count", k, i)>> : i \in DOMAIN ks[k]}
          ELSE {<<s, Injected("untyped", k, 0)>>})

\* A root in schema s with what it brings along.
Brought(ks, s, c) ==
  {<<s, c>>} \cup (IF c.kind = "key" THEN Along(ks, s, c.of) ELSE {})

(***************************************************************************)
(* The invariant.                                                          *)
(***************************************************************************)
\* Every column is in one place.
OnePlace(ss) ==
  \A s, t \in DOMAIN ss : \A i \in DOMAIN ss[s].cols, j \in DOMAIN ss[t].cols :
    ss[s].cols[i] = ss[t].cols[j] => s = t /\ i = j

\* The columns of a schema have the numbers of their positions.
Numbered(schema) ==
  /\ DOMAIN schema.ids = {schema.cols[i] : i \in DOMAIN schema.cols}
  /\ \A i \in DOMAIN schema.cols : schema.ids[schema.cols[i]] = i - 1

\* What is placed came with a root, and every root with all it brings along.
Whole(placed, ks, d) ==
  /\ \A p \in placed :
       /\ RootOf(p[2]) \in Roots(ks, d)
       /\ \E q \in placed : q[2] = RootOf(p[2]) /\ p \in Brought(ks, q[1], q[2])
  /\ \A p \in placed : p[2] \in Roots(ks, d) => Brought(ks, p[1], p[2]) \subseteq placed

\* The columns that wait are in no schema, and each waits once.
Waiting(waits, placed) ==
  /\ \A m, n \in Names : \A i \in DOMAIN waits[m], j \in DOMAIN waits[n] :
       waits[m][i] = waits[n][j] => m = n /\ i = j
  /\ \A n \in Names : \A i \in DOMAIN waits[n] : \A p \in placed : p[2] # waits[n][i]

RangeOf(q) == {q[i] : i \in DOMAIN q}

\* A table of ts that is called n has column c.
Tabled(n, c, ts, ss) == \E s \in RangeOf(ts) : ss[s].name = n /\ <<s, c>> \in Placed(ss)

\* Whatever was handed over waits or is in a table of its name.
HandedFound(hs, ks, d, waits, ts, ss) ==
  \A h \in hs :
    /\ h[1] \in Names /\ h[2] \in Roots(ks, d)
    /\ h[2] \in RangeOf(waits[h[1]]) \/ Tabled(h[1], h[2], ts, ss)

\* The schemas that no database has.
Open(ss) == {s \in DOMAIN ss : ~ss[s].final}

\* A column waits, or is in one of these.
Somewhere(c, waits, ss) ==
  \/ \E n \in Names : c \in RangeOf(waits[n])
  \/ \E t \in Open(ss) : <<t, c>> \in Placed(ss)

\* Who subscribes to one of them does so too.
SubscribersFound(ks, waits, ss) ==
  \A s \in Open(ss) : \A k \in ss[s].subs :
    k \in DOMAIN ks /\ Somewhere(KeyColumn(k), waits, ss)

\* A key is in a schema that some database has, or it is, with its targets, among
\* those that no database has.
KeysFound(ks, waits, ss) ==
  \A k \in DOMAIN ks :
    \/ RangeOf(ks[k]) \subseteq Open(ss) /\ Somewhere(KeyColumn(k), waits, ss)
    \/ \E t \in DOMAIN ss : ss[t].final /\ <<t, KeyColumn(k)>> \in Placed(ss)

DatabasesFinal(ds, ss) ==
  \A d \in ds : \A i \in DOMAIN d : d[i] \in DOMAIN ss /\ ss[d[i]].final

\* The schemas ss, with the keys ks, d data columns and the columns that wait.
Core(ss, ks, d, waits) ==
  /\ ss \in Seq(SchemaRecords) /\ ks \in Seq(Seq(DOMAIN ss)) /\ d \in Nat
  /\ waits \in [Names -> Seq(Roots(ks, d))]
  /\ OnePlace(ss)
  /\ \A s \in DOMAIN ss : Numbered(ss[s])
  /\ Whole(Placed(ss), ks, d)
  /\ Waiting(waits, Placed(ss))

Sound ==
  /\ Core(schemas, keys, data, pending)
  /\ layers \in Seq(DOMAIN schemas) /\ tables \in Seq(DOMAIN schemas)
  /\ nodes \subseteq DOMAIN schemas
  /\ HandedFound(handed, keys, data, pending, tables, schemas)
  /\ DatabasesFinal(dbs, schemas)

\* What the rules add.
Ruled == SubscribersFound(keys, pending, schemas) /\ KeysFound(keys, pending, schemas)

(***************************************************************************)
(* One more column.                                                        *)
(***************************************************************************)
\* What the pairs are.
LEMMA InPlaced ==
  ASSUME NEW ss, NEW p \in Placed(ss)
  PROVE  \E s \in DOMAIN ss : \E i \in DOMAIN ss[s].cols : p = <<s, ss[s].cols[i]>>
BY DEF Placed

\* Every column of a schema makes one.
LEMMA ColumnIsPlaced ==
  ASSUME NEW ss, NEW s \in DOMAIN ss, NEW i \in DOMAIN ss[s].cols
  PROVE  <<s, ss[s].cols[i]>> \in Placed(ss)
BY DEF Placed

\* What registering columns leaves of the schemas.
Extends(new, old) ==
  /\ new \in Seq(SchemaRecords) /\ DOMAIN new = DOMAIN old
  /\ \A s \in DOMAIN old :
       /\ new[s].name = old[s].name
       /\ new[s].subs = old[s].subs
       /\ new[s].final = old[s].final
       /\ old[s].final => new[s] = old[s]
  /\ Placed(old) \subseteq Placed(new)

\* register_new_column gives a schema one more column and changes no other.
LEMMA WithColumnIs ==
  ASSUME NEW ss \in Seq(SchemaRecords), NEW s \in DOMAIN ss, NEW col \in Columns
  PROVE  LET new == WithColumn(ss, s, col)
         IN  /\ new \in Seq(SchemaRecords) /\ DOMAIN new = DOMAIN ss
             /\ \A t \in DOMAIN ss : t # s => new[t] = ss[t]
             /\ new[s].name = ss[s].name /\ new[s].subs = ss[s].subs
             /\ new[s].final = ss[s].final
             /\ new[s].cols = Append(ss[s].cols, col)
             /\ new[s].ids = [c \in DOMAIN ss[s].ids \cup {col} |->
                                IF c = col THEN Len(ss[s].cols) ELSE ss[s].ids[c]]
<1> DEFINE R == ss[s]
           ids == [c \in DOMAIN R.ids \cup {col} |-> IF c = col THEN Len(R.cols) ELSE R.ids[c]]
           new == WithColumn(ss, s, col)
<1>1. R \in SchemaRecords
  BY ElementOfSeq
<1>2. R.cols \in Seq(Columns) /\ R.ids \in IdMaps
  BY <1>1 DEF SchemaRecords
<1>3. Append(R.cols, col) \in Seq(Columns) /\ Len(R.cols) \in Nat
  BY <1>2, AppendProperties, LenProperties
<1>4. PICK D \in SUBSET Columns : R.ids \in [D -> Int]
  BY <1>2 DEF IdMaps
<1>5. ids \in [D \cup {col} -> Int]
  BY <1>3, <1>4
<1>6. ids \in IdMaps
  BY <1>5 DEF IdMaps
<1>7. /\ new = [ss EXCEPT ![s] = [R EXCEPT !.ids = ids, !.cols = Append(R.cols, col)]]
  BY <1>1 DEF WithColumn, SchemaRecords
<1>8. [R EXCEPT !.ids = ids, !.cols = Append(R.cols, col)] \in SchemaRecords
  BY <1>1, <1>3, <1>6 DEF SchemaRecords
<1> HIDE DEF ids
<1>9. new \in Seq(SchemaRecords) /\ DOMAIN new = DOMAIN ss
  BY <1>7, <1>8
<1>10. /\ new[s] = [R EXCEPT !.ids = ids, !.cols = Append(R.cols, col)]
       /\ \A t \in DOMAIN ss : t # s => new[t] = ss[t]
  BY <1>7
<1>11. /\ new[s].name = R.name /\ new[s].subs = R.subs /\ new[s].final = R.final
       /\ new[s].ids = ids /\ new[s].cols = Append(R.cols, col)
  BY <1>1, <1>10 DEF SchemaRecords
<1> HIDE DEF new
<1> QED
  BY <1>9, <1>10, <1>11 DEF ids, new

\* So it extends them, and keeps columns in one place and numbered if the column is new.
LEMMA WithColumnPlaces ==
  ASSUME NEW ss \in Seq(SchemaRecords), NEW s \in DOMAIN ss, NEW col \in Columns,
         ~ss[s].final
  PROVE  LET new == WithColumn(ss, s, col)
         IN  /\ Extends(new, ss)
             /\ Placed(new) = Placed(ss) \cup {<<s, col>>}
             /\ (\A p \in Placed(ss) : p[2] # col) =>
                  /\ OnePlace(ss) => OnePlace(new)
                  /\ \A t \in DOMAIN ss : Numbered(ss[t]) => Numbered(new[t])
<1> DEFINE new == WithColumn(ss, s, col)
           n == Len(ss[s].cols)
<1>1. /\ new \in Seq(SchemaRecords) /\ DOMAIN new = DOMAIN ss
      /\ \A t \in DOMAIN ss : t # s => new[t] = ss[t]
      /\ new[s].name = ss[s].name /\ new[s].subs = ss[s].subs /\ new[s].final = ss[s].final
      /\ new[s].cols = Append(ss[s].cols, col)
      /\ new[s].ids = [c \in DOMAIN ss[s].ids \cup {col} |->
                         IF c = col THEN n ELSE ss[s].ids[c]]
  BY WithColumnIs
<1> HIDE DEF new
<1>2. ss[s].cols \in Seq(Columns)
  <2>1. ss[s] \in SchemaRecords
    BY ElementOfSeq
  <2> QED
    BY <2>1 DEF SchemaRecords
<1>3. /\ n \in Nat /\ DOMAIN ss[s].cols = 1 .. n
      /\ DOMAIN new[s].cols = 1 .. n + 1
      /\ new[s].cols[n + 1] = col
      /\ \A i \in 1 .. n : new[s].cols[i] = ss[s].cols[i]
  BY <1>1, <1>2, AppendProperties, LenProperties
<1>4. \A t \in DOMAIN ss : \A i \in DOMAIN ss[t].cols :
        i \in DOMAIN new[t].cols /\ new[t].cols[i] = ss[t].cols[i]
  <2> SUFFICES ASSUME NEW t \in DOMAIN ss, NEW i \in DOMAIN ss[t].cols
               PROVE  i \in DOMAIN new[t].cols /\ new[t].cols[i] = ss[t].cols[i]
    OBVIOUS
  <2>1. CASE t = s
    <3>1. i \in 1 .. n /\ i \in 1 .. n + 1
      BY <1>3, <2>1
    <3> QED
      BY <1>3, <2>1, <3>1
  <2>2. CASE t # s
    BY <1>1, <2>2
  <2> QED
    BY <2>1, <2>2
<1>5. \A t \in DOMAIN ss : \A i \in DOMAIN new[t].cols :
        \/ i \in DOMAIN ss[t].cols /\ new[t].cols[i] = ss[t].cols[i]
        \/ t = s /\ i = n + 1 /\ new[t].cols[i] = col
  <2> SUFFICES ASSUME NEW t \in DOMAIN ss, NEW i \in DOMAIN new[t].cols
               PROVE  \/ i \in DOMAIN ss[t].cols /\ new[t].cols[i] = ss[t].cols[i]
                      \/ t = s /\ i = n + 1 /\ new[t].cols[i] = col
    OBVIOUS
  <2>1. CASE t = s
    <3>1. i \in 1 .. n \/ i = n + 1
      BY <1>3, <2>1
    <3> QED
      BY <1>3, <2>1, <3>1
  <2>2. CASE t # s
    BY <1>1, <2>2
  <2> QED
    BY <2>1, <2>2
<1> HIDE DEF n
<1>6. Placed(new) = Placed(ss) \cup {<<s, col>>}
  <2>1. \A p \in Placed(ss) : p \in Placed(new)
    <3> SUFFICES ASSUME NEW p \in Placed(ss) PROVE p \in Placed(new)
      OBVIOUS
    <3>1. PICK t \in DOMAIN ss : \E i \in DOMAIN ss[t].cols : p = <<t, ss[t].cols[i]>>
      BY InPlaced
    <3>2. PICK i \in DOMAIN ss[t].cols : p = <<t, ss[t].cols[i]>>
      BY <3>1
    <3>3. i \in DOMAIN new[t].cols /\ new[t].cols[i] = ss[t].cols[i] /\ t \in DOMAIN new
      BY <1>1, <1>4
    <3> QED
      BY <3>2, <3>3, ColumnIsPlaced
  <2>2. \A p \in Placed(new) : p \in Placed(ss) \/ p = <<s, col>>
    <3> SUFFICES ASSUME NEW p \in Placed(new) PROVE p \in Placed(ss) \/ p = <<s, col>>
      OBVIOUS
    <3>1. PICK t \in DOMAIN new : \E i \in DOMAIN new[t].cols : p = <<t, new[t].cols[i]>>
      BY InPlaced
    <3>2. PICK i \in DOMAIN new[t].cols : p = <<t, new[t].cols[i]>>
      BY <3>1
    <3>3. /\ t \in DOMAIN ss
          /\ \/ i \in DOMAIN ss[t].cols /\ new[t].cols[i] = ss[t].cols[i]
             \/ t = s /\ i = n + 1 /\ new[t].cols[i] = col
      BY <1>1, <1>5
    <3> QED
      BY <3>2, <3>3, ColumnIsPlaced
  <2>3. <<s, col>> \in Placed(new)
    <3>1. n + 1 \in DOMAIN new[s].cols /\ new[s].cols[n + 1] = col
      BY <1>3
    <3> QED
      BY <1>1, <3>1, ColumnIsPlaced
  <2> QED
    BY <2>1, <2>2, <2>3
<1>7. Extends(new, ss)
  BY <1>1, <1>6 DEF Extends
<1>8. ASSUME \A p \in Placed(ss) : p[2] # col, OnePlace(ss) PROVE OnePlace(new)
  <2>1. \A t \in DOMAIN ss : \A i \in DOMAIN ss[t].cols : ss[t].cols[i] # col
    <3> SUFFICES ASSUME NEW t \in DOMAIN ss, NEW i \in DOMAIN ss[t].cols
                 PROVE  ss[t].cols[i] # col
      OBVIOUS
    <3>1. <<t, ss[t].cols[i]>> \in Placed(ss)
      BY ColumnIsPlaced
    <3>2. <<t, ss[t].cols[i]>>[2] # col
      BY <1>8, <3>1
    <3> QED
      BY <3>2
  <2>2. ASSUME NEW t \in DOMAIN ss, NEW u \in DOMAIN ss,
               NEW i \in DOMAIN new[t].cols, NEW j \in DOMAIN new[u].cols,
               new[t].cols[i] = new[u].cols[j]
        PROVE  t = u /\ i = j
    <3>1. \/ i \in DOMAIN ss[t].cols /\ new[t].cols[i] = ss[t].cols[i]
          \/ t = s /\ i = n + 1 /\ new[t].cols[i] = col
      BY <1>5
    <3>2. \/ j \in DOMAIN ss[u].cols /\ new[u].cols[j] = ss[u].cols[j]
          \/ u = s /\ j = n + 1 /\ new[u].cols[j] = col
      BY <1>5
    <3> QED
      BY <1>8, <2>1, <2>2, <3>1, <3>2 DEF OnePlace
  <2> QED
    BY <1>1, <2>2 DEF OnePlace
<1>9. ASSUME \A p \in Placed(ss) : p[2] # col, NEW t \in DOMAIN ss, Numbered(ss[t])
      PROVE  Numbered(new[t])
  <2>1. CASE t # s
    BY <1>1, <1>9, <2>1
  <2>2. CASE t = s
    <3>1. \A i \in DOMAIN ss[s].cols : ss[s].cols[i] # col
      <4> SUFFICES ASSUME NEW i \in DOMAIN ss[s].cols PROVE ss[s].cols[i] # col
        OBVIOUS
      <4>1. <<s, ss[s].cols[i]>> \in Placed(ss)
        BY ColumnIsPlaced
      <4>2. <<s, ss[s].cols[i]>>[2] # col
        BY <1>9, <4>1
      <4> QED
        BY <4>2
    <3>2. /\ DOMAIN ss[s].ids = {ss[s].cols[i] : i \in DOMAIN ss[s].cols}
          /\ \A i \in DOMAIN ss[s].cols : ss[s].ids[ss[s].cols[i]] = i - 1
      BY <1>9, <2>2 DEF Numbered
    <3>3. DOMAIN new[s].ids = {new[s].cols[i] : i \in DOMAIN new[s].cols}
      <4>1. DOMAIN new[s].ids = DOMAIN ss[s].ids \cup {col}
        BY <1>1
      <4>2. \A c : c \in DOMAIN ss[s].ids <=> \E i \in 1 .. n : c = ss[s].cols[i]
        BY <1>3, <3>2
      <4>3. \A i : i \in 1 .. n + 1 <=> i \in 1 .. n \/ i = n + 1
        BY <1>3
      <4>4. \A c : c \in {new[s].cols[i] : i \in DOMAIN new[s].cols}
                     <=> c = col \/ \E i \in 1 .. n : c = ss[s].cols[i]
        BY <1>3, <4>3
      <4> QED
        BY <4>1, <4>2, <4>4
    <3>4. ASSUME NEW i \in DOMAIN new[s].cols
          PROVE  new[s].ids[new[s].cols[i]] = i - 1
      <4>1. CASE i = n + 1
        BY <1>1, <1>3, <4>1
      <4>2. CASE i \in 1 .. n
        <5>1. /\ new[s].cols[i] = ss[s].cols[i] /\ ss[s].cols[i] # col
              /\ ss[s].cols[i] \in DOMAIN ss[s].ids
              /\ ss[s].ids[ss[s].cols[i]] = i - 1
          BY <1>3, <3>1, <3>2, <4>2
        <5> QED
          BY <1>1, <5>1
      <4> QED
        BY <1>3, <4>1, <4>2
    <3> QED
      BY <2>2, <3>3, <3>4 DEF Numbered
  <2> QED
    BY <2>1, <2>2
<1> QED
  BY <1>6, <1>7, <1>8, <1>9 DEF new

(***************************************************************************)
(* Several requests, one after the other.                                  *)
(***************************************************************************)
RequestsTo(T) == [to : T, col : Asked]

\* The pairs that requests ask for.
PairsOf(q) == {<<q[i].to, q[i].col>> : i \in DOMAIN q}

\* No column is asked for twice.
Differ(q) == \A i, j \in DOMAIN q : q[i].col = q[j].col => i = j

\* No column that is asked for is there.
AllNew(q, ss) == \A i \in DOMAIN q : \A p \in Placed(ss) : p[2] # q[i].col

\* What extends an extension extends.
LEMMA ExtendsTwice ==
  ASSUME NEW a, NEW b, NEW c, Extends(b, a), Extends(c, b)
  PROVE  Extends(c, a)
BY DEF Extends

\* One request, as Registered carries it out.
Took(now, r) ==
  IF ~now.ok THEN now
  ELSE IF now.schemas[r.to].final \/ r.col.kind = "untyped" THEN [now EXCEPT !.ok = FALSE]
  ELSE [now EXCEPT !.schemas = WithColumn(@, r.to, r.col)]

\* It extends the schemas, by its column unless it raises.
LEMMA TookIs ==
  ASSUME NEW ss \in Seq(SchemaRecords), NEW ok \in BOOLEAN,
         NEW r \in RequestsTo(DOMAIN ss)
  PROVE  LET now == Took([schemas |-> ss, ok |-> ok], r)
         IN  /\ now = [schemas |-> now.schemas, ok |-> now.ok]
             /\ now.ok \in BOOLEAN /\ (now.ok => ok)
             /\ Extends(now.schemas, ss)
             /\ now.ok =>
                  /\ Placed(now.schemas) = Placed(ss) \cup {<<r.to, r.col>>}
                  /\ (\A p \in Placed(ss) : p[2] # r.col) =>
                       /\ OnePlace(ss) => OnePlace(now.schemas)
                       /\ \A t \in DOMAIN ss : Numbered(ss[t]) => Numbered(now.schemas[t])
<1> DEFINE was == [schemas |-> ss, ok |-> ok]
           now == Took(was, r)
           Good == /\ now = [schemas |-> now.schemas, ok |-> now.ok]
                   /\ now.ok \in BOOLEAN /\ (now.ok => ok)
                   /\ Extends(now.schemas, ss)
                   /\ now.ok =>
                        /\ Placed(now.schemas) = Placed(ss) \cup {<<r.to, r.col>>}
                        /\ (\A p \in Placed(ss) : p[2] # r.col) =>
                             /\ OnePlace(ss) => OnePlace(now.schemas)
                             /\ \A t \in DOMAIN ss :
                                  Numbered(ss[t]) => Numbered(now.schemas[t])
<1>1. /\ r.to \in DOMAIN ss
      /\ r.col.kind # "untyped" => r.col \in Columns
  BY DEF RequestsTo, Asked, AskedKinds, Columns
<1>2. Extends(ss, ss)
  BY DEF Extends
<1>3. ASSUME ~ok \/ ss[r.to].final \/ r.col.kind = "untyped" PROVE Good
  <2>1. now = [schemas |-> ss, ok |-> FALSE]
    BY <1>3 DEF Took
  <2> HIDE DEF now
  <2>2. now.schemas = ss /\ now.ok = FALSE
    BY <2>1
  <2> QED
    BY <1>2, <2>1, <2>2
<1>4. ASSUME ok, ~ss[r.to].final, r.col.kind # "untyped" PROVE Good
  <2> DEFINE new == WithColumn(ss, r.to, r.col)
  <2>1. now = [was EXCEPT !.schemas = new]
    BY <1>4 DEF Took
  <2>2. /\ Extends(new, ss)
        /\ Placed(new) = Placed(ss) \cup {<<r.to, r.col>>}
        /\ (\A p \in Placed(ss) : p[2] # r.col) =>
             /\ OnePlace(ss) => OnePlace(new)
             /\ \A t \in DOMAIN ss : Numbered(ss[t]) => Numbered(new[t])
    BY <1>1, <1>4, WithColumnPlaces
  <2> HIDE DEF new, now
  <2>3. now = [schemas |-> new, ok |-> ok] /\ now.schemas = new /\ now.ok = ok
    BY <2>1
  <2> QED
    BY <2>2, <2>3
<1>5. Good
  <2> HIDE DEF Good
  <2> QED
    BY <1>3, <1>4
<1> QED
  BY <1>5

\* The states Registered goes through.
LEMMA RegisteredSteps ==
  ASSUME NEW ss \in Seq(SchemaRecords), NEW q \in Seq(RequestsTo(DOMAIN ss))
  PROVE  \E v :
           /\ v[0] = [schemas |-> ss, ok |-> TRUE]
           /\ \A k \in 1 .. Len(q) : v[k] = Took(v[k - 1], q[k])
           /\ v[Len(q)] = Registered(ss, q)
<1> DEFINE n == Len(q)
           a == [schemas |-> ss, ok |-> TRUE]
           S == [schemas : {x \in Seq(SchemaRecords) : DOMAIN x = DOMAIN ss}, ok : BOOLEAN]
           F == [k \in 1 .. n |-> [now \in S |-> Took(now, q[k])]]
           Eq(f) == f = [k \in 0 .. n |-> IF k = 0 THEN a ELSE Took(f[k - 1], q[k])]
           c == CHOOSE f : Eq(f)
<1>1. n \in Nat /\ a \in S
  BY LenProperties
<1>2. ASSUME NEW now \in S, NEW k \in 1 .. n PROVE Took(now, q[k]) \in S
  <2>1. PICK x \in Seq(SchemaRecords), ok \in BOOLEAN :
          DOMAIN x = DOMAIN ss /\ now = [schemas |-> x, ok |-> ok]
    OBVIOUS
  <2>2. q[k] \in RequestsTo(DOMAIN x)
    BY <2>1, ElementOfSeq
  <2> DEFINE then == Took([schemas |-> x, ok |-> ok], q[k])
  <2>3. /\ then = [schemas |-> then.schemas, ok |-> then.ok] /\ then.ok \in BOOLEAN
        /\ Extends(then.schemas, x)
    BY <2>2, TookIs
  <2> HIDE DEF then
  <2>4. then.schemas \in Seq(SchemaRecords) /\ DOMAIN then.schemas = DOMAIN ss
    BY <2>1, <2>3 DEF Extends
  <2>5. [schemas |-> then.schemas, ok |-> then.ok] \in S
    BY <2>3, <2>4
  <2> QED
    BY <2>1, <2>3, <2>5 DEF then
<1>3. IsStep(F, n, S)
  <2> HIDE DEF n, S
  <2> QED
    BY <1>2 DEF IsStep
<1>4. PICK v : Follows(v, n, S, a, F)
  <2> HIDE DEF n, S, F, a
  <2> QED
    BY <1>1, <1>3, RecursionUpTo
<1>5. v \in [0 .. n -> S] /\ v[0] = a /\ \A k \in 1 .. n : v[k] = F[k][v[k - 1]]
  <2> HIDE DEF n, S, F, a
  <2> QED
    BY <1>4 DEF Follows
<1>6. ASSUME NEW k \in 1 .. n PROVE v[k] = Took(v[k - 1], q[k])
  <2>1. k - 1 \in 0 .. n
    BY <1>1
  <2> HIDE DEF S, n
  <2>2. v[k - 1] \in S
    BY <1>5, <2>1
  <2>3. F[k][v[k - 1]] = Took(v[k - 1], q[k])
    BY <2>2
  <2> HIDE DEF F
  <2> QED
    BY <1>5, <2>3
<1>7. Registered(ss, q) = c[n]
  BY DEF Registered, Took
<1> HIDE DEF n, a
<1>8. Eq(v)
  <2> HIDE DEF F, S
  <2>1. \A k \in 0 .. n : k # 0 => k \in 1 .. n
    BY <1>1
  <2>2. \A k \in 0 .. n : v[k] = IF k = 0 THEN a ELSE Took(v[k - 1], q[k])
    BY <1>5, <1>6, <2>1
  <2> QED
    BY <1>5, <2>2
<1> HIDE DEF F, S
<1>9. Eq(c)
  <2> HIDE DEF Eq
  <2> QED
    BY <1>8
<1>10. c = [k \in 0 .. n |-> IF k = 0 THEN a ELSE Took(c[k - 1], q[k])]
  BY <1>9
<1> HIDE DEF c, Eq
<1>11. c[0] = a /\ \A k \in 1 .. n : c[k] = Took(c[k - 1], q[k])
  <2>1. 0 \in 0 .. n /\ \A k \in 1 .. n : k \in 0 .. n /\ k # 0
    BY <1>1
  <2> QED
    BY <1>10, <2>1
<1> QED
  BY <1>7, <1>11 DEF n, a

\* The requests up to the k-th have been carried out, or one of them has raised.
CarriedOut(now, k, ss, q) ==
  /\ now = [schemas |-> now.schemas, ok |-> now.ok]
  /\ now.ok \in BOOLEAN
  /\ Extends(now.schemas, ss)
  /\ now.ok =>
       /\ Placed(now.schemas) = Placed(ss) \cup {<<q[i].to, q[i].col>> : i \in 1 .. k}
       /\ Differ(q) /\ AllNew(q, ss) =>
            /\ OnePlace(ss) => OnePlace(now.schemas)
            /\ \A t \in DOMAIN ss : Numbered(ss[t]) => Numbered(now.schemas[t])

\* So it is when all have.
LEMMA RegisteredIs ==
  ASSUME NEW ss \in Seq(SchemaRecords), NEW q \in Seq(RequestsTo(DOMAIN ss))
  PROVE  CarriedOut(Registered(ss, q), Len(q), ss, q)
<1> DEFINE n == Len(q)
<1>1. PICK v : /\ v[0] = [schemas |-> ss, ok |-> TRUE]
               /\ \A k \in 1 .. n : v[k] = Took(v[k - 1], q[k])
               /\ v[n] = Registered(ss, q)
  BY RegisteredSteps
<1> DEFINE P == {k \in 0 .. n : CarriedOut(v[k], k, ss, q)}
<1>2. n \in Nat /\ DOMAIN q = 1 .. n
  BY LenProperties
<1>3. 0 \in P
  <2>1. Extends(ss, ss)
    BY DEF Extends
  <2>2. v[0].schemas = ss /\ v[0].ok = TRUE
    BY <1>1
  <2>3. {<<q[i].to, q[i].col>> : i \in 1 .. 0} = {}
    OBVIOUS
  <2>4. CarriedOut(v[0], 0, ss, q)
    BY <1>1, <2>1, <2>2, <2>3 DEF CarriedOut
  <2> QED
    BY <1>2, <2>4
<1>4. ASSUME NEW k \in 1 .. n, k - 1 \in P PROVE k \in P
  <2> DEFINE was == v[k - 1]
             now == v[k]
             r == q[k]
             before == {<<q[i].to, q[i].col>> : i \in 1 .. k - 1}
  <2>1. CarriedOut(was, k - 1, ss, q)
    BY <1>4
  <2>2. /\ was = [schemas |-> was.schemas, ok |-> was.ok] /\ was.ok \in BOOLEAN
        /\ Extends(was.schemas, ss)
        /\ was.ok => Placed(was.schemas) = Placed(ss) \cup before
    BY <2>1 DEF CarriedOut
  <2>3. was.schemas \in Seq(SchemaRecords) /\ DOMAIN was.schemas = DOMAIN ss
    BY <2>2 DEF Extends
  <2>4. r \in RequestsTo(DOMAIN was.schemas) /\ k \in DOMAIN q
    BY <1>2, <2>3, ElementOfSeq
  <2>5. now = Took([schemas |-> was.schemas, ok |-> was.ok], r)
    BY <1>1, <2>2
  <2> HIDE DEF was, now, r
  <2>6. /\ now = [schemas |-> now.schemas, ok |-> now.ok]
        /\ now.ok \in BOOLEAN /\ (now.ok => was.ok)
        /\ Extends(now.schemas, was.schemas)
        /\ now.ok =>
             /\ Placed(now.schemas) = Placed(was.schemas) \cup {<<r.to, r.col>>}
             /\ (\A p \in Placed(was.schemas) : p[2] # r.col) =>
                  /\ OnePlace(was.schemas) => OnePlace(now.schemas)
                  /\ \A t \in DOMAIN was.schemas :
                       Numbered(was.schemas[t]) => Numbered(now.schemas[t])
    BY <2>2, <2>3, <2>4, <2>5, TookIs
  <2>7. Extends(now.schemas, ss)
    BY <2>2, <2>6, ExtendsTwice
  <2>8. {<<q[i].to, q[i].col>> : i \in 1 .. k} = before \cup {<<r.to, r.col>>}
    <3>1. \A i : i \in 1 .. k <=> i \in 1 .. k - 1 \/ i = k
      BY <1>2
    <3> QED
      BY <3>1 DEF r
  <2>9. now.ok => Placed(now.schemas)
                    = Placed(ss) \cup {<<q[i].to, q[i].col>> : i \in 1 .. k}
    BY <2>2, <2>6, <2>8
  <2>10. ASSUME now.ok, Differ(q), AllNew(q, ss)
         PROVE  /\ OnePlace(ss) => OnePlace(now.schemas)
                /\ \A t \in DOMAIN ss : Numbered(ss[t]) => Numbered(now.schemas[t])
    <3>1. ASSUME NEW p \in Placed(was.schemas) PROVE p[2] # r.col
      <4>1. CASE p \in Placed(ss)
        BY <2>4, <2>10, <4>1 DEF AllNew, r
      <4>2. CASE p \in before
        <5>1. PICK i \in 1 .. k - 1 : p = <<q[i].to, q[i].col>>
          BY <4>2
        <5>2. i \in DOMAIN q /\ i # k
          BY <1>2
        <5> QED
          BY <2>4, <2>10, <5>1, <5>2 DEF Differ, r
      <4> QED
        BY <2>2, <2>6, <2>10, <4>1, <4>2
    <3>2. /\ OnePlace(ss) => OnePlace(was.schemas)
          /\ \A t \in DOMAIN ss : Numbered(ss[t]) => Numbered(was.schemas[t])
      BY <2>1, <2>6, <2>10 DEF CarriedOut
    <3> QED
      BY <2>3, <2>6, <2>10, <3>1, <3>2
  <2>11. CarriedOut(now, k, ss, q)
    BY <2>6, <2>7, <2>9, <2>10 DEF CarriedOut
  <2> QED
    BY <1>2, <2>11 DEF now
<1>5. \A k \in 0 .. n : k \in P
  <2> HIDE DEF P, n
  <2> QED
    BY <1>2, <1>3, <1>4, InductionUpTo
<1>6. n \in P
  BY <1>2, <1>5
<1> QED
  BY <1>1, <1>6

(***************************************************************************)
(* What a column brings along.                                             *)
(***************************************************************************)
\* The pairs of two sets have no column in common.
Apart(A, B) == \A a \in A, b \in B : a[2] # b[2]

\* q is a sequence of requests to schemas of T for the pairs A, each once.
Asks(q, T, A) == q \in Seq(RequestsTo(T)) /\ PairsOf(q) = A /\ Differ(q)

LEMMA NoRequests ==
  ASSUME NEW T
  PROVE  Asks(<<>>, T, {})
<1>1. <<>> \in Seq(RequestsTo(T)) /\ DOMAIN <<>> = {}
  BY EmptySeq
<1> QED
  BY <1>1 DEF Asks, PairsOf, Differ

LEMMA OneRequest ==
  ASSUME NEW T, NEW s \in T, NEW col \in Asked
  PROVE  Asks(<<[to |-> s, col |-> col]>>, T, {<<s, col>>})
<1> DEFINE q == <<[to |-> s, col |-> col]>>
<1>1. q \in Seq(RequestsTo(T)) /\ DOMAIN q = {1} /\ q[1] = [to |-> s, col |-> col]
  BY DEF RequestsTo
<1>2. q[1].to = s /\ q[1].col = col
  BY <1>1
<1> HIDE DEF q
<1> QED
  BY <1>1, <1>2 DEF Asks, PairsOf, Differ, q

\* Requests one after the other ask for all that either asks for.
LEMMA JoinedRequests ==
  ASSUME NEW T, NEW A, NEW B, NEW p, NEW q, Asks(p, T, A), Asks(q, T, B), Apart(A, B)
  PROVE  Asks(p \o q, T, A \cup B)
<1> DEFINE m == Len(p)
           n == Len(q)
           r == p \o q
<1>1. /\ p \in Seq(RequestsTo(T)) /\ q \in Seq(RequestsTo(T))
      /\ PairsOf(p) = A /\ PairsOf(q) = B /\ Differ(p) /\ Differ(q)
  BY DEF Asks
<1>2. /\ m \in Nat /\ n \in Nat /\ DOMAIN p = 1 .. m /\ DOMAIN q = 1 .. n
      /\ r \in Seq(RequestsTo(T)) /\ DOMAIN r = 1 .. m + n
      /\ \A i \in 1 .. m + n : r[i] = IF i <= m THEN p[i] ELSE q[i - m]
  BY <1>1, ConcatProperties, LenProperties
<1> HIDE DEF m, n, r
<1>3. \A i \in DOMAIN r : \/ i \in DOMAIN p /\ r[i] = p[i]
                          \/ i - m \in DOMAIN q /\ r[i] = q[i - m]
  BY <1>2
<1>4. /\ \A i \in DOMAIN p : i \in DOMAIN r /\ r[i] = p[i]
      /\ \A i \in DOMAIN q : i + m \in DOMAIN r /\ r[i + m] = q[i]
  BY <1>2
<1>5. PairsOf(r) = A \cup B
  <2>1. ASSUME NEW x \in PairsOf(r) PROVE x \in A \cup B
    <3>1. PICK i \in DOMAIN r : x = <<r[i].to, r[i].col>>
      BY <2>1 DEF PairsOf
    <3> QED
      BY <1>1, <1>3, <3>1 DEF PairsOf
  <2>2. ASSUME NEW x \in A PROVE x \in PairsOf(r)
    <3>1. PICK i \in DOMAIN p : x = <<p[i].to, p[i].col>>
      BY <1>1, <2>2 DEF PairsOf
    <3> QED
      BY <1>4, <3>1 DEF PairsOf
  <2>3. ASSUME NEW x \in B PROVE x \in PairsOf(r)
    <3>1. PICK i \in DOMAIN q : x = <<q[i].to, q[i].col>>
      BY <1>1, <2>3 DEF PairsOf
    <3>2. i + m \in DOMAIN r /\ r[i + m] = q[i]
      BY <1>4
    <3> QED
      BY <3>1, <3>2 DEF PairsOf
  <2> QED
    BY <2>1, <2>2, <2>3
<1>6. ASSUME NEW i \in DOMAIN p, NEW j \in DOMAIN q PROVE p[i].col # q[j].col
  <2>1. <<p[i].to, p[i].col>> \in A /\ <<q[j].to, q[j].col>> \in B
    BY <1>1 DEF PairsOf
  <2>2. <<p[i].to, p[i].col>>[2] # <<q[j].to, q[j].col>>[2]
    BY <2>1 DEF Apart
  <2> QED
    BY <2>2
<1>7. ASSUME NEW i \in DOMAIN r, NEW j \in DOMAIN r, r[i].col = r[j].col PROVE i = j
  <2>1. CASE i \in DOMAIN p /\ r[i] = p[i] /\ j \in DOMAIN p /\ r[j] = p[j]
    BY <1>1, <1>7, <2>1 DEF Differ
  <2>2. CASE i - m \in DOMAIN q /\ r[i] = q[i - m] /\ j - m \in DOMAIN q /\ r[j] = q[j - m]
    <3>1. i - m = j - m
      BY <1>1, <1>7, <2>2 DEF Differ
    <3> QED
      BY <1>2, <3>1
  <2>3. CASE i \in DOMAIN p /\ r[i] = p[i] /\ j - m \in DOMAIN q /\ r[j] = q[j - m]
    BY <1>6, <1>7, <2>3
  <2>4. CASE i - m \in DOMAIN q /\ r[i] = q[i - m] /\ j \in DOMAIN p /\ r[j] = p[j]
    BY <1>6, <1>7, <2>4
  <2> QED
    BY <1>3, <2>1, <2>2, <2>3, <2>4
<1> QED
  BY <1>2, <1>5, <1>7 DEF Asks, Differ, r

\* Requests of a kind to each target.
LEMMA RequestToEach ==
  ASSUME NEW T, NEW targets \in Seq(T), NEW kind \in AskedKinds, NEW k \in Nat
  PROVE  Asks([i \in DOMAIN targets |-> [to |-> targets[i], col |-> Injected(kind, k, i)]],
              T, {<<targets[i], Injected(kind, k, i)>> : i \in DOMAIN targets})
<1> DEFINE q == [i \in DOMAIN targets |-> [to |-> targets[i], col |-> Injected(kind, k, i)]]
           n == Len(targets)
<1>1. n \in Nat /\ DOMAIN targets = 1 .. n /\ \A i \in 1 .. n : targets[i] \in T
  BY LenProperties, ElementOfSeq
<1>2. \A i \in 1 .. n : i \in Nat /\ Injected(kind, k, i) \in Asked
  BY <1>1 DEF Injected, Asked
<1>3. \A i \in 1 .. n : q[i] = [to |-> targets[i], col |-> Injected(kind, k, i)]
  BY <1>1
<1>4. \A i \in 1 .. n : /\ q[i] \in RequestsTo(T)
                        /\ q[i].to = targets[i] /\ q[i].col = Injected(kind, k, i)
  BY <1>1, <1>2, <1>3 DEF RequestsTo
<1>5. q \in [1 .. n -> RequestsTo(T)]
  <2>1. q = [i \in 1 .. n |-> [to |-> targets[i], col |-> Injected(kind, k, i)]]
    BY <1>1
  <2> QED
    BY <1>3, <1>4, <2>1
<1>6. q \in Seq(RequestsTo(T)) /\ DOMAIN q = 1 .. n
  BY <1>1, <1>5
<1> HIDE DEF q, n
<1>7. Differ(q)
  <2> SUFFICES ASSUME NEW i \in 1 .. n, NEW j \in 1 .. n, q[i].col = q[j].col
               PROVE  i = j
    BY <1>6 DEF Differ
  <2>1. Injected(kind, k, i) = Injected(kind, k, j)
    BY <1>4
  <2>2. Injected(kind, k, i).type = i /\ Injected(kind, k, j).type = j
    BY DEF Injected
  <2> QED
    BY <2>1, <2>2
<1>8. PairsOf(q) = {<<targets[i], Injected(kind, k, i)>> : i \in DOMAIN targets}
  BY <1>1, <1>4, <1>6 DEF PairsOf
<1> QED
  BY <1>6, <1>7, <1>8 DEF Asks, q

\* A key asks for what is along with it, each column once.
LEMMA InjectionsAre ==
  ASSUME NEW T, NEW ks \in Seq(Seq(T)), NEW k \in DOMAIN ks, NEW s \in T
  PROVE  /\ Asks(Injections(k, ks[k], s), T, Along(ks, s, k))
         /\ \A p \in Along(ks, s, k) :
              p[2].of = k /\ p[2].kind \notin {"data", "key"}
<1> DEFINE targets == ks[k]
           each(kind) == [i \in DOMAIN targets |->
                            [to |-> targets[i], col |-> Injected(kind, k, i)]]
           own(kind) == <<[to |-> s, col |-> Injected(kind, k, 0)]>>
           eachPair(kind) == {<<targets[i], Injected(kind, k, i)>> : i \in DOMAIN targets}
           ownPair(kind) == {<<s, Injected(kind, k, 0)>>}
           heads == eachPair("head")
           type == IF Len(targets) > 1 THEN ownPair("type") ELSE {}
           counts == IF ~TrackCounts THEN {}
                     ELSE IF CountsTyped THEN eachPair("count") ELSE ownPair("untyped")
<1>1. k \in Nat /\ targets \in Seq(T)
  BY ElementOfSeq, LenProperties
<1>2. \A kind \in AskedKinds : Injected(kind, k, 0) \in Asked
  BY <1>1 DEF Injected, Asked
<1>3. {"head", "type", "next", "prev", "count", "untyped"} \subseteq AskedKinds
  BY DEF AskedKinds, Kinds
<1>4. ASSUME NEW kind \in AskedKinds
      PROVE  /\ Asks(each(kind), T, eachPair(kind))
             /\ Asks(own(kind), T, ownPair(kind))
             /\ \A p \in eachPair(kind) \cup ownPair(kind) : p[2].of = k /\ p[2].kind = kind
  <2>1. Asks(each(kind), T, eachPair(kind))
    BY <1>1, RequestToEach
  <2>2. Asks(own(kind), T, ownPair(kind))
    BY <1>2, OneRequest
  <2>3. ASSUME NEW i PROVE Injected(kind, k, i).of = k /\ Injected(kind, k, i).kind = kind
    BY DEF Injected
  <2>4. \A p \in eachPair(kind) : p[2].of = k /\ p[2].kind = kind
    BY <2>3
  <2>5. \A p \in ownPair(kind) : p[2].of = k /\ p[2].kind = kind
    BY <2>3
  <2> QED
    BY <2>1, <2>2, <2>4, <2>5
<1> DEFINE q1 == each("head")
           q2 == IF Len(targets) > 1 THEN own("type") ELSE <<>>
           q5 == IF ~TrackCounts THEN <<>>
                 ELSE IF CountsTyped THEN each("count") ELSE own("untyped")
<1>5. /\ Asks(q1, T, heads) /\ \A p \in heads : p[2].of = k /\ p[2].kind = "head"
      /\ Asks(own("next"), T, ownPair("next"))
      /\ \A p \in ownPair("next") : p[2].of = k /\ p[2].kind = "next"
      /\ Asks(own("prev"), T, ownPair("prev"))
      /\ \A p \in ownPair("prev") : p[2].of = k /\ p[2].kind = "prev"
  <2> HIDE DEF each, own, eachPair, ownPair
  <2> QED
    BY <1>3, <1>4
<1>6. Asks(q2, T, type) /\ \A p \in type : p[2].of = k /\ p[2].kind = "type"
  <2> HIDE DEF each, own, eachPair, ownPair
  <2> QED
    BY <1>3, <1>4, NoRequests
<1>7. Asks(q5, T, counts) /\ \A p \in counts : p[2].of = k /\ p[2].kind \in {"count", "untyped"}
  <2> HIDE DEF each, own, eachPair, ownPair
  <2> QED
    BY <1>3, <1>4, NoRequests
<1>8. /\ Injections(k, targets, s) = q1 \o q2 \o own("next") \o own("prev") \o q5
      /\ Along(ks, s, k) = heads \cup type \cup ownPair("next") \cup ownPair("prev") \cup counts
  <2>1. Injections(k, targets, s) = q1 \o q2 \o own("next") \o own("prev") \o q5
    BY DEF Injections
  <2>2. Along(ks, s, k) = heads \cup type \cup ownPair("next") \cup ownPair("prev") \cup counts
    BY DEF Along
  <2> QED
    BY <2>1, <2>2
<1> DEFINE n == own("next")
           p == own("prev")
           next == ownPair("next")
           prev == ownPair("prev")
<1>9. /\ Asks(n, T, next) /\ \A x \in next : x[2].of = k /\ x[2].kind = "next"
      /\ Asks(p, T, prev) /\ \A x \in prev : x[2].of = k /\ x[2].kind = "prev"
  BY <1>5
<1>10. /\ Injections(k, targets, s) = q1 \o q2 \o n \o p \o q5
       /\ Along(ks, s, k) = heads \cup type \cup next \cup prev \cup counts
  BY <1>8
<1> HIDE DEF q1, q2, q5, n, p, heads, type, next, prev, counts, each, own, eachPair, ownPair
<1>11. Asks(q1 \o q2, T, heads \cup type)
  <2>1. Apart(heads, type)
    BY <1>5, <1>6 DEF Apart
  <2> QED
    BY <1>5, <1>6, <2>1, JoinedRequests
<1>12. Asks(q1 \o q2 \o n, T, heads \cup type \cup next)
  <2>1. Apart(heads \cup type, next)
    BY <1>5, <1>6, <1>9 DEF Apart
  <2> QED
    BY <1>9, <1>11, <2>1, JoinedRequests
<1>13. Asks(q1 \o q2 \o n \o p, T, heads \cup type \cup next \cup prev)
  <2>1. Apart(heads \cup type \cup next, prev)
    BY <1>5, <1>6, <1>9 DEF Apart
  <2> QED
    BY <1>9, <1>12, <2>1, JoinedRequests
<1>14. Asks(q1 \o q2 \o n \o p \o q5, T, heads \cup type \cup next \cup prev \cup counts)
  <2>1. Apart(heads \cup type \cup next \cup prev, counts)
    BY <1>5, <1>6, <1>7, <1>9 DEF Apart
  <2> QED
    BY <1>7, <1>13, <2>1, JoinedRequests
<1>15. \A x \in Along(ks, s, k) : x[2].of = k /\ x[2].kind \notin {"data", "key"}
  BY <1>5, <1>6, <1>7, <1>9, <1>10
<1> QED
  BY <1>10, <1>14, <1>15

\* Roots are columns that did not come with others.
LEMMA RootsAre ==
  ASSUME NEW ks, DOMAIN ks \in SUBSET Nat, NEW d \in Nat, NEW c \in Roots(ks, d)
  PROVE  /\ c \in Columns /\ RootOf(c) = c
         /\ c.kind = "key" => c.of \in DOMAIN ks
         /\ c.kind \in {"data", "key"}
<1>1. CASE \E i \in 1 .. d : c = DataColumn(i)
  <2>1. PICK i \in 1 .. d : c = DataColumn(i)
    BY <1>1
  <2>2. i \in Nat
    OBVIOUS
  <2> QED
    BY <2>1, <2>2 DEF DataColumn, Columns, Kinds, RootOf
<1>2. CASE \E k \in DOMAIN ks : c = KeyColumn(k)
  <2>1. PICK k \in DOMAIN ks : c = KeyColumn(k)
    BY <1>2
  <2>2. k \in Nat
    OBVIOUS
  <2> QED
    BY <2>1, <2>2 DEF KeyColumn, Columns, Kinds, RootOf
<1> QED
  BY <1>1, <1>2 DEF Roots

\* A root asks for itself and then for what it brings along.
LEMMA RootAsks ==
  ASSUME NEW T, NEW ks \in Seq(Seq(T)), NEW d \in Nat, NEW c \in Roots(ks, d), NEW s \in T
  PROVE  /\ Asks(WithInjections(ks, s, c), T, Brought(ks, s, c))
         /\ Asks(Tail(WithInjections(ks, s, c)), T, Brought(ks, s, c) \ {<<s, c>>})
         /\ \A p \in Brought(ks, s, c) : RootOf(p[2]) = c
<1> DEFINE first == <<[to |-> s, col |-> c]>>
           along == IF c.kind = "key" THEN Along(ks, s, c.of) ELSE {}
           rest == IF c.kind = "key" THEN Injections(c.of, ks[c.of], s) ELSE <<>>
<1>1. /\ c \in Columns /\ RootOf(c) = c
      /\ c.kind = "key" => c.of \in DOMAIN ks
      /\ c.kind \in {"data", "key"}
  <2>1. DOMAIN ks \in SUBSET Nat
    BY LenProperties
  <2> QED
    BY <2>1, RootsAre
<1>2. /\ Asks(rest, T, along)
      /\ \A p \in along : RootOf(p[2]) = c /\ p[2].kind \notin {"data", "key"}
  <2>1. CASE c.kind = "key"
    <3>1. c.of \in DOMAIN ks
      BY <1>1, <2>1
    <3>2. /\ Asks(rest, T, along)
          /\ \A p \in along : p[2].of = c.of /\ p[2].kind \notin {"data", "key"}
      BY <2>1, <3>1, InjectionsAre
    <3>3. c = KeyColumn(c.of)
      BY <1>1, <2>1 DEF RootOf
    <3>4. ASSUME NEW x, x.of = c.of, x.kind \notin {"data", "key"} PROVE RootOf(x) = c
      BY <3>3, <3>4 DEF RootOf
    <3> QED
      BY <3>2, <3>4
  <2>2. CASE c.kind # "key"
    BY <2>2, NoRequests
  <2> QED
    BY <2>1, <2>2
<1>3. Asks(first, T, {<<s, c>>})
  BY <1>1, OneRequest DEF Columns, Asked, AskedKinds
<1>4. Apart({<<s, c>>}, along)
  BY <1>1, <1>2 DEF Apart
<1>5. WithInjections(ks, s, c) = first \o rest /\ Brought(ks, s, c) = {<<s, c>>} \cup along
  BY DEF WithInjections, Brought
<1>6. Tail(first \o rest) = rest
  <2>1. rest \in Seq(RequestsTo(T))
    BY <1>2 DEF Asks
  <2>2. first \in Seq(RequestsTo(T)) /\ Len(first) = 1
    BY <1>3 DEF Asks
  <2> HIDE DEF first, rest
  <2> DEFINE all == first \o rest
  <2>3. /\ all \in Seq(RequestsTo(T)) /\ Len(all) = 1 + Len(rest) /\ Len(rest) \in Nat
        /\ \A i \in 1 .. 1 + Len(rest) : all[i] = IF i <= 1 THEN first[i] ELSE rest[i - 1]
    <3>1. /\ all \in Seq(RequestsTo(T)) /\ Len(all) = Len(first) + Len(rest)
          /\ \A i \in 1 .. Len(first) + Len(rest) :
               all[i] = IF i <= Len(first) THEN first[i] ELSE rest[i - Len(first)]
      BY <2>1, <2>2, ConcatProperties
    <3>2. Len(rest) \in Nat
      BY <2>1, LenProperties
    <3> HIDE DEF all
    <3> QED
      BY <2>2, <3>1, <3>2
  <2> HIDE DEF all
  <2>4. all # <<>>
    BY <2>3, EmptySeq
  <2>5. /\ Tail(all) \in Seq(RequestsTo(T)) /\ Len(Tail(all)) = Len(rest)
        /\ \A i \in 1 .. Len(rest) : Tail(all)[i] = all[i + 1]
    BY <2>3, <2>4, HeadTailProperties
  <2>6. \A i \in 1 .. Len(rest) : Tail(all)[i] = rest[i]
    BY <2>3, <2>5
  <2>7. Tail(all) = rest
    BY <2>1, <2>5, <2>6, SeqEqual
  <2> QED
    BY <2>7 DEF all
<1>7. <<s, c>> \notin along
  BY <1>1, <1>2
<1> HIDE DEF first, along, rest
<1>8. Asks(first \o rest, T, {<<s, c>>} \cup along)
  BY <1>2, <1>3, <1>4, JoinedRequests
<1>9. ({<<s, c>>} \cup along) \ {<<s, c>>} = along
  BY <1>7
<1>10. Asks(Tail(first \o rest), T, along)
  BY <1>2, <1>6
<1>11. \A p \in {<<s, c>>} \cup along : RootOf(p[2]) = c
  BY <1>1, <1>2
<1> QED
  BY <1>5, <1>8, <1>9, <1>10, <1>11

\* v[n] is the concatenation of the first n parts.
Joins(v, part, n) == v = [k \in 0 .. n |-> IF k = 0 THEN <<>> ELSE v[k - 1] \o part[k]]

\* There are concatenations.
LEMMA JoinsExist ==
  ASSUME NEW S, NEW n \in Nat, NEW part, \A k \in 1 .. n : part[k] \in Seq(S)
  PROVE  \E v : Joins(v, part, n)
<1> DEFINE T == Seq(S)
           F == [k \in 1 .. n |-> [s \in T |-> s \o part[k]]]
<1>1. <<>> \in T
  BY EmptySeq
<1>2. ASSUME NEW s \in T, NEW k \in 1 .. n PROVE s \o part[k] \in T
  BY ConcatProperties
<1>3. IsStep(F, n, T)
  <2> HIDE DEF T
  <2> QED
    BY <1>2 DEF IsStep
<1>4. PICK v : Follows(v, n, T, <<>>, F)
  <2> HIDE DEF T, F
  <2> QED
    BY <1>1, <1>3, RecursionUpTo
<1>5. v \in [0 .. n -> T] /\ v[0] = <<>> /\ \A k \in 1 .. n : v[k] = F[k][v[k - 1]]
  <2> HIDE DEF T, F
  <2> QED
    BY <1>4 DEF Follows
<1>6. ASSUME NEW k \in 1 .. n PROVE v[k] = v[k - 1] \o part[k]
  <2>1. k - 1 \in 0 .. n
    OBVIOUS
  <2> HIDE DEF T
  <2>2. v[k - 1] \in T
    BY <1>5, <2>1
  <2>3. F[k][v[k - 1]] = v[k - 1] \o part[k]
    BY <2>2
  <2> HIDE DEF F
  <2> QED
    BY <1>5, <2>3
<1> HIDE DEF F, T
<1>7. \A k \in 0 .. n : v[k] = IF k = 0 THEN <<>> ELSE v[k - 1] \o part[k]
  <2>1. \A k \in 0 .. n : k # 0 => k \in 1 .. n
    OBVIOUS
  <2> QED
    BY <1>5, <1>6, <2>1
<1>8. v = [k \in 0 .. n |-> IF k = 0 THEN <<>> ELSE v[k - 1] \o part[k]]
  BY <1>5, <1>7
<1> QED
  BY <1>8 DEF Joins

\* The first n of the sets A.
AllOf(A, n) == UNION {A[k] : k \in 1 .. n}

\* The concatenation asks for what the parts ask for.
LEMMA JoinedParts ==
  ASSUME NEW T, NEW n \in Nat, NEW part, NEW A, NEW v, Joins(v, part, n),
         \A k \in 1 .. n : Asks(part[k], T, A[k]),
         \A j, k \in 1 .. n : j # k => Apart(A[j], A[k])
  PROVE  Asks(v[n], T, AllOf(A, n))
<1> DEFINE U(k) == UNION {A[i] : i \in 1 .. k}
           P == {k \in 0 .. n : Asks(v[k], T, U(k))}
<1>1. v[0] = <<>> /\ \A k \in 1 .. n : v[k] = v[k - 1] \o part[k]
  <2>1. v = [k \in 0 .. n |-> IF k = 0 THEN <<>> ELSE v[k - 1] \o part[k]]
    BY DEF Joins
  <2>2. 0 \in 0 .. n /\ \A k \in 1 .. n : k \in 0 .. n /\ k # 0
    OBVIOUS
  <2> QED
    BY <2>1, <2>2
<1>2. 0 \in P
  <2>1. U(0) = {}
    OBVIOUS
  <2> HIDE DEF U
  <2>2. Asks(v[0], T, U(0))
    BY <1>1, <2>1, NoRequests
  <2> QED
    BY <2>2
<1>3. ASSUME NEW k \in 1 .. n, k - 1 \in P PROVE k \in P
  <2>1. U(k) = U(k - 1) \cup A[k]
    <3>1. \A i : i \in 1 .. k <=> i \in 1 .. k - 1 \/ i = k
      OBVIOUS
    <3> QED
      BY <3>1
  <2>2. Apart(U(k - 1), A[k])
    <3> SUFFICES ASSUME NEW a \in U(k - 1), NEW b \in A[k] PROVE a[2] # b[2]
      BY DEF Apart
    <3>1. PICK i \in 1 .. k - 1 : a \in A[i]
      OBVIOUS
    <3>2. i \in 1 .. n /\ i # k
      OBVIOUS
    <3>3. Apart(A[i], A[k])
      BY <3>2
    <3> QED
      BY <3>1, <3>3 DEF Apart
  <2>3. Asks(v[k - 1], T, U(k - 1)) /\ Asks(part[k], T, A[k]) /\ v[k] = v[k - 1] \o part[k]
    BY <1>1, <1>3
  <2> HIDE DEF U
  <2>4. Asks(v[k], T, U(k))
    BY <2>1, <2>2, <2>3, JoinedRequests
  <2> QED
    BY <2>4
<1>4. \A k \in 0 .. n : k \in P
  <2> HIDE DEF P
  <2> QED
    BY <1>2, <1>3, InductionUpTo
<1>5. n \in P
  <2>1. n \in 0 .. n
    OBVIOUS
  <2> HIDE DEF P
  <2> QED
    BY <1>4, <2>1
<1> QED
  BY <1>5 DEF AllOf

\* No column twice.
Distinct(cols) == \A i, j \in DOMAIN cols : cols[i] = cols[j] => i = j

\* What roots bring into schema s.
AllBrought(ks, s, cols) == UNION {Brought(ks, s, cols[i]) : i \in DOMAIN cols}

\* What different roots bring has no column in common.
LEMMA RootsApart ==
  ASSUME NEW T, NEW ks \in Seq(Seq(T)), NEW d \in Nat, NEW s \in T,
         NEW b \in Roots(ks, d), NEW c \in Roots(ks, d), b # c
  PROVE  Apart(Brought(ks, s, b), Brought(ks, s, c))
<1>1. /\ \A p \in Brought(ks, s, b) : RootOf(p[2]) = b
      /\ \A p \in Brought(ks, s, c) : RootOf(p[2]) = c
  BY RootAsks
<1> QED
  BY <1>1 DEF Apart

\* The requests for several roots ask for all that they bring.
LEMMA RequestsAre ==
  ASSUME NEW T, NEW ks \in Seq(Seq(T)), NEW d \in Nat, NEW s \in T,
         NEW cols \in Seq(Roots(ks, d)), Distinct(cols)
  PROVE  /\ Asks(Requests(ks, s, cols), T, AllBrought(ks, s, cols))
         /\ \A p \in AllBrought(ks, s, cols) : RootOf(p[2]) \in RangeOf(cols)
<1> DEFINE n == Len(cols)
           part == [k \in 1 .. n |-> WithInjections(ks, s, cols[k])]
           A == [k \in 1 .. n |-> Brought(ks, s, cols[k])]
           Eq(f) == f = [k \in 0 .. n |->
                           IF k = 0 THEN <<>> ELSE f[k - 1] \o WithInjections(ks, s, cols[k])]
           c == CHOOSE f : Eq(f)
<1>1. n \in Nat /\ DOMAIN cols = 1 .. n /\ \A k \in 1 .. n : cols[k] \in Roots(ks, d)
  BY LenProperties, ElementOfSeq
<1>2. \A k \in 1 .. n : /\ Asks(part[k], T, A[k])
                        /\ \A p \in A[k] : RootOf(p[2]) = cols[k]
  BY <1>1, RootAsks
<1>3. \A j, k \in 1 .. n : j # k => Apart(A[j], A[k])
  BY <1>1, RootsApart DEF Distinct
<1>4. PICK v : Joins(v, part, n)
  <2>1. \A k \in 1 .. n : part[k] \in Seq(RequestsTo(T))
    BY <1>2 DEF Asks
  <2> HIDE DEF part, n
  <2> QED
    BY <1>1, <2>1, JoinsExist
<1>5. Requests(ks, s, cols) = c[n]
  BY DEF Requests
<1>6. \A k \in 0 .. n : k # 0 => part[k] = WithInjections(ks, s, cols[k])
  BY <1>1
<1> HIDE DEF part, n
<1>7. Eq(v)
  BY <1>4, <1>6 DEF Joins
<1>8. Eq(c)
  <2> HIDE DEF Eq
  <2> QED
    BY <1>7
<1>9. Joins(c, part, n)
  <2> HIDE DEF c
  <2> QED
    BY <1>6, <1>8 DEF Joins
<1> HIDE DEF c, Eq
<1>10. Asks(c[n], T, AllOf(A, n))
  <2> HIDE DEF A
  <2> QED
    BY <1>1, <1>2, <1>3, <1>9, JoinedParts
<1>11. AllOf(A, n) = AllBrought(ks, s, cols)
  BY <1>1 DEF AllBrought, AllOf
<1>12. \A p \in AllBrought(ks, s, cols) : RootOf(p[2]) \in RangeOf(cols)
  <2> SUFFICES ASSUME NEW p \in AllBrought(ks, s, cols) PROVE RootOf(p[2]) \in RangeOf(cols)
    OBVIOUS
  <2>1. PICK k \in 1 .. n : p \in A[k]
    BY <1>11 DEF AllOf
  <2> QED
    BY <1>1, <1>2, <2>1 DEF RangeOf
<1> QED
  BY <1>5, <1>10, <1>11, <1>12

\* The requests of columns that are in their table already, as TableSchema makes them.
Bring(ks, s, cols) ==
  LET bring[n \in 0 .. Len(cols)] ==
        IF n = 0 THEN <<>> ELSE bring[n - 1] \o Tail(WithInjections(ks, s, cols[n]))
  IN  bring[Len(cols)]

\* The columns themselves.
Firsts(s, cols) == {<<s, cols[i]>> : i \in DOMAIN cols}

\* They ask for the rest.
LEMMA BringIs ==
  ASSUME NEW T, NEW ks \in Seq(Seq(T)), NEW d \in Nat, NEW s \in T,
         NEW cols \in Seq(Roots(ks, d)), Distinct(cols)
  PROVE  Asks(Bring(ks, s, cols), T, AllBrought(ks, s, cols) \ Firsts(s, cols))
<1> DEFINE n == Len(cols)
           part == [k \in 1 .. n |-> Tail(WithInjections(ks, s, cols[k]))]
           A == [k \in 1 .. n |-> Brought(ks, s, cols[k]) \ {<<s, cols[k]>>}]
           Eq(f) == f = [k \in 0 .. n |->
                           IF k = 0 THEN <<>>
                           ELSE f[k - 1] \o Tail(WithInjections(ks, s, cols[k]))]
           c == CHOOSE f : Eq(f)
<1>1. n \in Nat /\ DOMAIN cols = 1 .. n /\ \A k \in 1 .. n : cols[k] \in Roots(ks, d)
  BY LenProperties, ElementOfSeq
<1>2. \A k \in 1 .. n : /\ Asks(part[k], T, A[k])
                        /\ \A p \in Brought(ks, s, cols[k]) : RootOf(p[2]) = cols[k]
                        /\ RootOf(cols[k]) = cols[k]
  <2>1. DOMAIN ks \in SUBSET Nat
    BY LenProperties
  <2> SUFFICES ASSUME NEW k \in 1 .. n
               PROVE  /\ Asks(part[k], T, A[k])
                      /\ \A p \in Brought(ks, s, cols[k]) : RootOf(p[2]) = cols[k]
                      /\ RootOf(cols[k]) = cols[k]
    OBVIOUS
  <2>2. cols[k] \in Roots(ks, d)
    BY <1>1
  <2>3. RootOf(cols[k]) = cols[k]
    BY <2>1, <2>2, RootsAre
  <2>4. /\ Asks(Tail(WithInjections(ks, s, cols[k])), T, Brought(ks, s, cols[k]) \ {<<s, cols[k]>>})
        /\ \A p \in Brought(ks, s, cols[k]) : RootOf(p[2]) = cols[k]
    BY <2>2, RootAsks
  <2> QED
    BY <2>3, <2>4
<1>3. \A j, k \in 1 .. n : j # k => Apart(A[j], A[k])
  <2> SUFFICES ASSUME NEW j \in 1 .. n, NEW k \in 1 .. n, j # k
               PROVE  Apart(A[j], A[k])
    OBVIOUS
  <2>1. cols[j] # cols[k] /\ cols[j] \in Roots(ks, d) /\ cols[k] \in Roots(ks, d)
    BY <1>1 DEF Distinct
  <2>2. Apart(Brought(ks, s, cols[j]), Brought(ks, s, cols[k]))
    BY <2>1, RootsApart
  <2> QED
    BY <2>2 DEF Apart
<1>4. PICK v : Joins(v, part, n)
  <2>1. \A k \in 1 .. n : part[k] \in Seq(RequestsTo(T))
    BY <1>2 DEF Asks
  <2> HIDE DEF part, n
  <2> QED
    BY <1>1, <2>1, JoinsExist
<1>5. Bring(ks, s, cols) = c[n]
  BY DEF Bring
<1>6. \A k \in 0 .. n : k # 0 => part[k] = Tail(WithInjections(ks, s, cols[k]))
  BY <1>1
<1> HIDE DEF part, n
<1>7. Eq(v)
  BY <1>4, <1>6 DEF Joins
<1>8. Eq(c)
  <2> HIDE DEF Eq
  <2> QED
    BY <1>7
<1>9. Joins(c, part, n)
  <2> HIDE DEF c
  <2> QED
    BY <1>6, <1>8 DEF Joins
<1> HIDE DEF c, Eq
<1>10. Asks(c[n], T, AllOf(A, n))
  <2> HIDE DEF A
  <2> QED
    BY <1>1, <1>2, <1>3, <1>9, JoinedParts
<1>11. \A j, k \in 1 .. n : <<s, cols[j]>> \in Brought(ks, s, cols[k]) => j = k
  <2> SUFFICES ASSUME NEW j \in 1 .. n, NEW k \in 1 .. n,
                      <<s, cols[j]>> \in Brought(ks, s, cols[k])
               PROVE  j = k
    OBVIOUS
  <2>1. RootOf(<<s, cols[j]>>[2]) = cols[k]
    BY <1>2
  <2>2. cols[j] = cols[k]
    BY <1>2, <2>1
  <2> QED
    BY <1>1, <2>2 DEF Distinct
<1>12. AllOf(A, n) = AllBrought(ks, s, cols) \ Firsts(s, cols)
  BY <1>1, <1>11 DEF AllBrought, AllOf, Firsts
<1> QED
  BY <1>5, <1>10, <1>12

(***************************************************************************)
(* Schemas that take roots in.                                             *)
(***************************************************************************)
\* A column is asked for in one place.
LEMMA AskedOnce ==
  ASSUME NEW q, NEW T, NEW A, Asks(q, T, A), NEW a \in A, NEW b \in A, a[2] = b[2]
  PROVE  a = b
<1>1. PairsOf(q) = A /\ Differ(q)
  BY DEF Asks
<1>2. PICK i \in DOMAIN q : a = <<q[i].to, q[i].col>>
  BY <1>1 DEF PairsOf
<1>3. PICK j \in DOMAIN q : b = <<q[j].to, q[j].col>>
  BY <1>1 DEF PairsOf
<1>4. q[i].col = q[j].col
  BY <1>2, <1>3
<1> QED
  BY <1>1, <1>2, <1>3, <1>4 DEF Differ

\* None of the columns is there.
Absent(cols, placed) == \A i \in DOMAIN cols : \A p \in placed : p[2] # cols[i]

\* What new roots bring is new, and leaves the pairs whole.
LEMMA WholeTakes ==
  ASSUME NEW T, NEW ks \in Seq(Seq(T)), NEW d \in Nat, NEW s \in T,
         NEW cols \in Seq(Roots(ks, d)), Distinct(cols),
         NEW P, Whole(P, ks, d), Absent(cols, P)
  PROVE  /\ \A p \in P, x \in AllBrought(ks, s, cols) : p[2] # x[2]
         /\ Whole(P \cup AllBrought(ks, s, cols), ks, d)
<1> DEFINE B == AllBrought(ks, s, cols)
           Come(Q) == \A p \in Q :
                        /\ RootOf(p[2]) \in Roots(ks, d)
                        /\ \E q \in Q : q[2] = RootOf(p[2]) /\ p \in Brought(ks, q[1], q[2])
           Full(Q) == \A p \in Q : p[2] \in Roots(ks, d) => Brought(ks, p[1], p[2]) \subseteq Q
<1>1. Come(P) /\ Full(P)
  BY DEF Whole
<1>2. \A i \in DOMAIN cols : cols[i] \in Roots(ks, d) /\ RootOf(cols[i]) = cols[i]
  <2>1. DOMAIN ks \in SUBSET Nat
    BY LenProperties
  <2>2. \A i \in DOMAIN cols : cols[i] \in Roots(ks, d)
    BY ElementOfSeq
  <2> QED
    BY <2>1, <2>2, RootsAre
<1>3. Asks(Requests(ks, s, cols), T, B) /\ \A x \in B : RootOf(x[2]) \in RangeOf(cols)
  BY RequestsAre
<1>4. \A i \in DOMAIN cols : /\ <<s, cols[i]>> \in Brought(ks, s, cols[i])
                             /\ Brought(ks, s, cols[i]) \subseteq B
  BY DEF Brought, AllBrought
<1>5. \A p \in P : RootOf(p[2]) \notin RangeOf(cols)
  BY <1>1 DEF Absent, RangeOf
<1>6. \A p \in P, x \in B : p[2] # x[2]
  BY <1>3, <1>5
<1>7. ASSUME NEW x \in B
      PROVE  /\ RootOf(x[2]) \in Roots(ks, d)
             /\ \E q \in B : q[2] = RootOf(x[2]) /\ x \in Brought(ks, q[1], q[2])
             /\ x[2] \in Roots(ks, d) => Brought(ks, x[1], x[2]) \subseteq B
  <2>1. PICK i \in DOMAIN cols : x \in Brought(ks, s, cols[i])
    BY DEF AllBrought
  <2>2. RootOf(x[2]) = cols[i]
    BY <1>2, <2>1, RootAsks
  <2> DEFINE q == <<s, cols[i]>>
  <2>3. q \in B /\ q[1] = s /\ q[2] = cols[i]
    BY <1>4
  <2>4. ASSUME x[2] \in Roots(ks, d) PROVE Brought(ks, x[1], x[2]) \subseteq B
    <3>1. RootOf(x[2]) = x[2]
      <4>1. DOMAIN ks \in SUBSET Nat
        BY LenProperties
      <4> QED
        BY <2>4, <4>1, RootsAre
    <3>2. x = q
      BY <1>3, <2>2, <2>3, <3>1, AskedOnce
    <3> QED
      BY <1>4, <2>3, <3>2
  <2> HIDE DEF q
  <2> QED
    BY <1>2, <2>1, <2>2, <2>3, <2>4
<1> HIDE DEF B
<1>8. Come(P \cup B)
  <2> SUFFICES ASSUME NEW p \in P \cup B
               PROVE  /\ RootOf(p[2]) \in Roots(ks, d)
                      /\ \E q \in P \cup B :
                           q[2] = RootOf(p[2]) /\ p \in Brought(ks, q[1], q[2])
    OBVIOUS
  <2>1. CASE p \in P
    BY <1>1, <2>1
  <2>2. CASE p \in B
    BY <1>7, <2>2
  <2> QED
    BY <2>1, <2>2
<1>9. Full(P \cup B)
  BY <1>1, <1>7
<1> QED
  BY <1>6, <1>8, <1>9 DEF Whole, B

\* New roots, left those that wait on: the core stays sound unless one is refused.
LEMMA TakesIn ==
  ASSUME NEW ss, NEW ks, NEW d, NEW waits, Core(ss, ks, d, waits),
         NEW s \in DOMAIN ss, NEW cols \in Seq(Roots(ks, d)), Distinct(cols),
         Absent(cols, Placed(ss)),
         NEW left \in [Names -> Seq(Roots(ks, d))], Waiting(left, Placed(ss)),
         \A n \in Names : \A i \in DOMAIN left[n] : left[n][i] \notin RangeOf(cols),
         NEW q, Asks(q, DOMAIN ss, AllBrought(ks, s, cols))
  PROVE  LET result == Registered(ss, q)
         IN  /\ result.ok \in BOOLEAN
             /\ Extends(result.schemas, ss)
             /\ result.ok =>
                  /\ Core(result.schemas, ks, d, left)
                  /\ Placed(result.schemas) = Placed(ss) \cup AllBrought(ks, s, cols)
<1> DEFINE result == Registered(ss, q)
           B == AllBrought(ks, s, cols)
<1>1. /\ ss \in Seq(SchemaRecords) /\ ks \in Seq(Seq(DOMAIN ss)) /\ d \in Nat
      /\ OnePlace(ss)
      /\ \A t \in DOMAIN ss : Numbered(ss[t])
      /\ Whole(Placed(ss), ks, d)
  BY DEF Core
<1>2. Asks(q, DOMAIN ss, B) /\ \A x \in B : RootOf(x[2]) \in RangeOf(cols)
  BY <1>1, RequestsAre
<1>3. /\ \A p \in Placed(ss), x \in B : p[2] # x[2]
      /\ Whole(Placed(ss) \cup B, ks, d)
  BY <1>1, WholeTakes
<1>4. q \in Seq(RequestsTo(DOMAIN ss)) /\ PairsOf(q) = B /\ Differ(q)
  BY <1>2 DEF Asks
<1>5. CarriedOut(result, Len(q), ss, q)
  BY <1>1, <1>4, RegisteredIs
<1> HIDE DEF result, B
<1>6. {<<q[i].to, q[i].col>> : i \in 1 .. Len(q)} = B
  <2>1. DOMAIN q = 1 .. Len(q)
    BY <1>4, LenProperties
  <2> QED
    BY <1>4, <2>1 DEF PairsOf
<1>7. AllNew(q, ss)
  <2> SUFFICES ASSUME NEW i \in DOMAIN q, NEW p \in Placed(ss) PROVE p[2] # q[i].col
    BY DEF AllNew
  <2>1. <<q[i].to, q[i].col>> \in B
    BY <1>4 DEF PairsOf
  <2>2. p[2] # <<q[i].to, q[i].col>>[2]
    BY <1>3, <2>1
  <2> QED
    BY <2>2
<1>8. /\ result.ok \in BOOLEAN
      /\ Extends(result.schemas, ss)
      /\ result.ok => /\ Placed(result.schemas) = Placed(ss) \cup B
                      /\ OnePlace(result.schemas)
                      /\ \A t \in DOMAIN ss : Numbered(result.schemas[t])
  BY <1>1, <1>4, <1>5, <1>6, <1>7 DEF CarriedOut
<1>9. ASSUME result.ok PROVE Core(result.schemas, ks, d, left)
  <2>1. /\ result.schemas \in Seq(SchemaRecords) /\ DOMAIN result.schemas = DOMAIN ss
    BY <1>8 DEF Extends
  <2>2. Waiting(left, Placed(ss) \cup B)
    <3> SUFFICES ASSUME NEW n \in Names, NEW i \in DOMAIN left[n], NEW x \in B
                 PROVE  x[2] # left[n][i]
      BY DEF Waiting
    <3>1. left[n][i] \in Roots(ks, d)
      BY ElementOfSeq
    <3>2. RootOf(left[n][i]) = left[n][i]
      <4>1. DOMAIN ks \in SUBSET Nat
        BY <1>1, LenProperties
      <4> QED
        BY <1>1, <3>1, <4>1, RootsAre
    <3> QED
      BY <1>2, <3>2
  <2> QED
    BY <1>1, <1>3, <1>8, <1>9, <2>1, <2>2 DEF Core
<1> QED
  BY <1>8, <1>9 DEF result, B

(***************************************************************************)
(* New schemas, keys, columns and subscribers.                             *)
(***************************************************************************)
LEMMA NewSchemaIs ==
  ASSUME NEW name \in Names, NEW cols \in Seq(Columns)
  PROVE  /\ NewSchema(name, cols) \in SchemaRecords
         /\ NewSchema(name, cols).name = name /\ NewSchema(name, cols).cols = cols
         /\ NewSchema(name, cols).subs = {} /\ ~NewSchema(name, cols).final
         /\ DOMAIN NewSchema(name, cols).ids = {}
<1>1. [c \in {} |-> 0] \in IdMaps
  <2>1. {} \in SUBSET Columns /\ [c \in {} |-> 0] \in [{} -> Int]
    OBVIOUS
  <2> QED
    BY <2>1 DEF IdMaps
<1> QED
  BY <1>1 DEF NewSchema, SchemaRecords

\* One more schema.
LEMMA AppendedSchema ==
  ASSUME NEW ss \in Seq(SchemaRecords), NEW R \in SchemaRecords
  PROVE  LET new == Append(ss, R)
             s == Len(ss) + 1
         IN  /\ new \in Seq(SchemaRecords) /\ s \in Nat /\ s \notin DOMAIN ss
             /\ DOMAIN new = DOMAIN ss \cup {s} /\ DOMAIN ss = 1 .. Len(ss)
             /\ \A t \in DOMAIN ss : new[t] = ss[t]
             /\ new[s] = R
             /\ Placed(new) = Placed(ss) \cup {<<s, R.cols[i]>> : i \in DOMAIN R.cols}
<1> DEFINE new == Append(ss, R)
           s == Len(ss) + 1
<1>1. /\ Len(ss) \in Nat /\ DOMAIN ss = 1 .. Len(ss) /\ new \in Seq(SchemaRecords)
      /\ DOMAIN new = 1 .. s
      /\ \A t \in 1 .. Len(ss) : new[t] = ss[t]
      /\ new[s] = R
  BY LenProperties, AppendProperties
<1>2. DOMAIN new = DOMAIN ss \cup {s} /\ s \notin DOMAIN ss /\ s \in Nat
  BY <1>1
<1> HIDE DEF new, s
<1>3. ASSUME NEW p \in Placed(new)
      PROVE  p \in Placed(ss) \/ p \in {<<s, R.cols[i]>> : i \in DOMAIN R.cols}
  <2>1. PICK t \in DOMAIN new : \E i \in DOMAIN new[t].cols : p = <<t, new[t].cols[i]>>
    BY InPlaced
  <2>2. PICK i \in DOMAIN new[t].cols : p = <<t, new[t].cols[i]>>
    BY <2>1
  <2>3. CASE t = s
    BY <1>1, <2>2, <2>3
  <2>4. CASE t \in DOMAIN ss
    BY <1>1, <2>2, <2>4, ColumnIsPlaced
  <2> QED
    BY <1>2, <2>3, <2>4
<1>4. ASSUME NEW p \in Placed(ss) PROVE p \in Placed(new)
  <2>1. PICK t \in DOMAIN ss : \E i \in DOMAIN ss[t].cols : p = <<t, ss[t].cols[i]>>
    BY InPlaced
  <2>2. PICK i \in DOMAIN ss[t].cols : p = <<t, ss[t].cols[i]>>
    BY <2>1
  <2>3. t \in DOMAIN new /\ new[t] = ss[t]
    BY <1>1, <1>2
  <2> QED
    BY <2>2, <2>3, ColumnIsPlaced
<1>5. ASSUME NEW i \in DOMAIN R.cols PROVE <<s, R.cols[i]>> \in Placed(new)
  BY <1>1, <1>2, ColumnIsPlaced
<1>6. Placed(new) = Placed(ss) \cup {<<s, R.cols[i]>> : i \in DOMAIN R.cols}
  BY <1>3, <1>4, <1>5
<1> QED
  BY <1>1, <1>2, <1>6 DEF new, s

\* Sequences over a set are sequences over a larger one.
LEMMA SequencesMore ==
  ASSUME NEW A, NEW B, A \subseteq B
  PROVE  /\ \A q \in Seq(A) : q \in Seq(B)
         /\ \A q \in Seq(Seq(A)) : q \in Seq(Seq(B))
<1>1. ASSUME NEW C, NEW D, C \subseteq D, NEW q \in Seq(C) PROVE q \in Seq(D)
  <2>1. Len(q) \in Nat /\ q \in [1 .. Len(q) -> C]
    BY <1>1, LenProperties
  <2>2. q \in [1 .. Len(q) -> D]
    BY <1>1, <2>1
  <2> QED
    BY <2>1, <2>2
<1>2. Seq(A) \subseteq Seq(B)
  BY <1>1
<1> QED
  BY <1>1, <1>2

\* A new schema has no columns.
LEMMA CoreNewSchema ==
  ASSUME NEW ss, NEW ks, NEW d, NEW waits, Core(ss, ks, d, waits), NEW name \in Names
  PROVE  LET new == Append(ss, NewSchema(name, <<>>))
         IN  /\ Core(new, ks, d, waits)
             /\ Placed(new) = Placed(ss)
<1> DEFINE R == NewSchema(name, <<>>)
           new == Append(ss, R)
           s == Len(ss) + 1
<1>1. /\ ss \in Seq(SchemaRecords) /\ ks \in Seq(Seq(DOMAIN ss)) /\ OnePlace(ss)
      /\ \A t \in DOMAIN ss : Numbered(ss[t])
  BY DEF Core
<1>2. R \in SchemaRecords /\ R.cols = <<>> /\ DOMAIN R.ids = {}
  <2>1. <<>> \in Seq(Columns)
    OBVIOUS
  <2> QED
    BY <2>1, NewSchemaIs
<1> HIDE DEF R
<1>3. /\ new \in Seq(SchemaRecords) /\ s \notin DOMAIN ss
      /\ DOMAIN new = DOMAIN ss \cup {s}
      /\ \A t \in DOMAIN ss : new[t] = ss[t]
      /\ new[s] = R
      /\ Placed(new) = Placed(ss) \cup {<<s, R.cols[i]>> : i \in DOMAIN R.cols}
  BY <1>1, <1>2, AppendedSchema
<1> HIDE DEF new, s
<1>4. DOMAIN R.cols = {} /\ DOMAIN R.ids = {}
  BY <1>2
<1>5. Placed(new) = Placed(ss)
  BY <1>3, <1>4
<1>6. OnePlace(new)
  <2>1. \A t \in DOMAIN new : \A i \in DOMAIN new[t].cols : t \in DOMAIN ss
    BY <1>3, <1>4
  <2> QED
    BY <1>1, <1>3, <2>1 DEF OnePlace
<1>7. \A t \in DOMAIN new : Numbered(new[t])
  <2>1. Numbered(R)
    BY <1>4 DEF Numbered
  <2> QED
    BY <1>1, <1>3, <2>1
<1>8. ks \in Seq(Seq(DOMAIN new))
  BY <1>1, <1>3, SequencesMore
<1> QED
  BY <1>3, <1>5, <1>6, <1>7, <1>8 DEF Core, new, R

\* What a key column is.
LEMMA KeyColumnIs ==
  ASSUME NEW k, NEW ks, NEW d
  PROVE  /\ KeyColumn(k).kind = "key" /\ KeyColumn(k).of = k /\ RootOf(KeyColumn(k)) = KeyColumn(k)
         /\ KeyColumn(k) \in Roots(ks, d) <=> k \in DOMAIN ks
         /\ \A j : KeyColumn(j) = KeyColumn(k) => j = k
<1>1. \A j : KeyColumn(j).kind = "key" /\ KeyColumn(j).of = j
  BY DEF KeyColumn
<1>2. \A i : DataColumn(i).kind = "data"
  BY DEF DataColumn
<1>3. RootOf(KeyColumn(k)) = KeyColumn(k)
  BY <1>1 DEF RootOf
<1>4. \A j : KeyColumn(j) = KeyColumn(k) => j = k
  BY <1>1
<1>5. KeyColumn(k) \in Roots(ks, d) <=> k \in DOMAIN ks
  BY <1>1, <1>2 DEF Roots
<1> QED
  BY <1>1, <1>3, <1>4, <1>5

\* What a root brings does not depend on the keys that come after it.
LEMMA BroughtMore ==
  ASSUME NEW ks, DOMAIN ks \in SUBSET Nat, NEW d \in Nat, NEW more,
         \A k \in DOMAIN ks : more[k] = ks[k], NEW s, NEW c \in Roots(ks, d)
  PROVE  Brought(more, s, c) = Brought(ks, s, c)
<1>1. c.kind = "key" => c.of \in DOMAIN ks
  BY RootsAre
<1>2. c.kind = "key" => more[c.of] = ks[c.of]
  BY <1>1
<1>3. c.kind = "key" => Along(more, s, c.of) = Along(ks, s, c.of)
  BY <1>2 DEF Along
<1> QED
  BY <1>3 DEF Brought

\* More keys and data columns leave the pairs whole: no new root is there.
LEMMA WholeMore ==
  ASSUME NEW T, NEW ks \in Seq(Seq(T)), NEW d \in Nat, NEW P, Whole(P, ks, d),
         NEW more \in Seq(Seq(T)), NEW e \in Nat, e >= d,
         Len(more) >= Len(ks), \A k \in DOMAIN ks : more[k] = ks[k]
  PROVE  /\ Whole(P, more, e)
         /\ Roots(ks, d) \subseteq Roots(more, e)
         /\ \A p \in P : p[2] \in Roots(more, e) => p[2] \in Roots(ks, d)
<1>1. DOMAIN ks \subseteq DOMAIN more /\ DOMAIN ks \subseteq Nat /\ DOMAIN more \subseteq Nat
  BY LenProperties
<1>2. Roots(ks, d) \subseteq Roots(more, e)
  BY <1>1 DEF Roots
<1>3. \A s : \A c \in Roots(ks, d) : Brought(more, s, c) = Brought(ks, s, c)
  BY <1>1, BroughtMore
<1>4. \A p \in P : /\ RootOf(p[2]) \in Roots(ks, d)
                   /\ \E q \in P : q[2] = RootOf(p[2]) /\ p \in Brought(ks, q[1], q[2])
                   /\ p[2] \in Roots(ks, d) => Brought(ks, p[1], p[2]) \subseteq P
  BY DEF Whole
<1>5. \A p \in P : p[2] \in Roots(more, e) => p[2] \in Roots(ks, d)
  <2> SUFFICES ASSUME NEW p \in P, p[2] \in Roots(more, e) PROVE p[2] \in Roots(ks, d)
    OBVIOUS
  <2>1. RootOf(p[2]) = p[2]
    BY <1>1, RootsAre
  <2> QED
    BY <1>4, <2>1
<1>6. ASSUME NEW p \in P
      PROVE  /\ RootOf(p[2]) \in Roots(more, e)
             /\ \E q \in P : q[2] = RootOf(p[2]) /\ p \in Brought(more, q[1], q[2])
             /\ p[2] \in Roots(more, e) => Brought(more, p[1], p[2]) \subseteq P
  <2>1. RootOf(p[2]) \in Roots(ks, d)
    BY <1>4
  <2>2. PICK q \in P : q[2] = RootOf(p[2]) /\ p \in Brought(ks, q[1], q[2])
    BY <1>4
  <2>3. p \in Brought(more, q[1], q[2])
    BY <1>3, <2>1, <2>2
  <2>4. p[2] \in Roots(more, e) => Brought(more, p[1], p[2]) \subseteq P
    BY <1>3, <1>4, <1>5
  <2> QED
    BY <1>2, <2>1, <2>2, <2>3, <2>4
<1>7. Whole(P, more, e)
  BY <1>6 DEF Whole
<1> QED
  BY <1>2, <1>5, <1>7

\* Columns that may wait may still.
LEMMA MayWait ==
  ASSUME NEW A, NEW B, A \subseteq B, NEW waits \in [Names -> Seq(A)]
  PROVE  waits \in [Names -> Seq(B)]
BY SequencesMore

\* A new column is nowhere.
New(c, ss, waits) ==
  /\ \A p \in Placed(ss) : p[2] # c
  /\ \A n \in Names : \A i \in DOMAIN waits[n] : waits[n][i] # c

\* A new key.
LEMMA CoreNewKey ==
  ASSUME NEW ss, NEW ks, NEW d, NEW waits, Core(ss, ks, d, waits), NEW targets \in Seq(DOMAIN ss)
  PROVE  LET k == Len(ks) + 1
             more == Append(ks, targets)
         IN  /\ Core(ss, more, d, waits)
             /\ k \in Nat /\ k \notin DOMAIN ks /\ DOMAIN more = DOMAIN ks \cup {k}
             /\ more[k] = targets /\ \A j \in DOMAIN ks : more[j] = ks[j]
             /\ KeyColumn(k) \in Roots(more, d) /\ Roots(ks, d) \subseteq Roots(more, d)
             /\ New(KeyColumn(k), ss, waits)
<1> DEFINE k == Len(ks) + 1
           more == Append(ks, targets)
<1>1. /\ ks \in Seq(Seq(DOMAIN ss)) /\ d \in Nat /\ Whole(Placed(ss), ks, d)
      /\ waits \in [Names -> Seq(Roots(ks, d))]
  BY DEF Core
<1>2. /\ Len(ks) \in Nat /\ DOMAIN ks = 1 .. Len(ks)
      /\ more \in Seq(Seq(DOMAIN ss)) /\ Len(more) = k /\ DOMAIN more = 1 .. k
      /\ more[k] = targets /\ \A j \in 1 .. Len(ks) : more[j] = ks[j]
  BY <1>1, LenProperties, AppendProperties
<1>3. k \in Nat /\ k \notin DOMAIN ks /\ DOMAIN more = DOMAIN ks \cup {k} /\ Len(more) >= Len(ks)
  BY <1>2
<1> HIDE DEF k, more
<1>4. /\ Whole(Placed(ss), more, d) /\ Roots(ks, d) \subseteq Roots(more, d)
      /\ \A p \in Placed(ss) : p[2] \in Roots(more, d) => p[2] \in Roots(ks, d)
  <2>1. d >= d
    BY <1>1
  <2> QED
    BY <1>1, <1>2, <1>3, <2>1, WholeMore
<1>5. KeyColumn(k) \in Roots(more, d) /\ KeyColumn(k) \notin Roots(ks, d)
  BY <1>3, KeyColumnIs
<1>6. New(KeyColumn(k), ss, waits)
  <2>1. \A n \in Names : \A i \in DOMAIN waits[n] : waits[n][i] \in Roots(ks, d)
    BY <1>1, ElementOfSeq
  <2> QED
    BY <1>4, <1>5, <2>1 DEF New
<1>7. waits \in [Names -> Seq(Roots(more, d))]
  BY <1>1, <1>4, MayWait
<1>8. Core(ss, more, d, waits)
  BY <1>2, <1>4, <1>7 DEF Core
<1> QED
  BY <1>2, <1>3, <1>4, <1>5, <1>6, <1>8 DEF k, more

\* A new data column.
LEMMA CoreNewData ==
  ASSUME NEW ss, NEW ks, NEW d, NEW waits, Core(ss, ks, d, waits)
  PROVE  /\ Core(ss, ks, d + 1, waits)
         /\ DataColumn(d + 1) \in Roots(ks, d + 1) /\ Roots(ks, d) \subseteq Roots(ks, d + 1)
         /\ New(DataColumn(d + 1), ss, waits)
<1>1. /\ ks \in Seq(Seq(DOMAIN ss)) /\ d \in Nat /\ Whole(Placed(ss), ks, d)
      /\ waits \in [Names -> Seq(Roots(ks, d))]
  BY DEF Core
<1>2. d + 1 \in Nat /\ d + 1 >= d /\ d + 1 \in 1 .. d + 1 /\ d + 1 \notin 1 .. d
  BY <1>1
<1>3. /\ Whole(Placed(ss), ks, d + 1) /\ Roots(ks, d) \subseteq Roots(ks, d + 1)
      /\ \A p \in Placed(ss) : p[2] \in Roots(ks, d + 1) => p[2] \in Roots(ks, d)
  <2>1. Len(ks) >= Len(ks)
    BY <1>1, LenProperties
  <2> QED
    BY <1>1, <1>2, <2>1, WholeMore
<1>4. DataColumn(d + 1) \in Roots(ks, d + 1) /\ DataColumn(d + 1) \notin Roots(ks, d)
  <2>1. \A i : DataColumn(i).kind = "data" /\ DataColumn(i).of = i /\ KeyColumn(i).kind = "key"
    BY DEF DataColumn, KeyColumn
  <2> QED
    BY <1>2, <2>1 DEF Roots
<1>5. New(DataColumn(d + 1), ss, waits)
  <2>1. \A n \in Names : \A i \in DOMAIN waits[n] : waits[n][i] \in Roots(ks, d)
    BY <1>1, ElementOfSeq
  <2> QED
    BY <1>3, <1>4, <2>1 DEF New
<1>6. waits \in [Names -> Seq(Roots(ks, d + 1))]
  BY <1>1, <1>3, MayWait
<1>7. Core(ss, ks, d + 1, waits)
  BY <1>2, <1>3, <1>6 DEF Core
<1> QED
  BY <1>3, <1>4, <1>5, <1>7

\* Nothing of this is about subscribers, nor about who is finalized.
SameColumns(new, old) ==
  /\ new \in Seq(SchemaRecords) /\ DOMAIN new = DOMAIN old
  /\ \A s \in DOMAIN old : new[s].cols = old[s].cols /\ new[s].ids = old[s].ids

LEMMA CoreSameColumns ==
  ASSUME NEW ss, NEW ks, NEW d, NEW waits, Core(ss, ks, d, waits), NEW new, SameColumns(new, ss)
  PROVE  Core(new, ks, d, waits) /\ Placed(new) = Placed(ss)
<1>1. Placed(new) = Placed(ss)
  BY DEF Placed, SameColumns
<1>2. OnePlace(new)
  BY DEF Core, OnePlace, SameColumns
<1>3. \A s \in DOMAIN new : Numbered(new[s])
  BY DEF Core, Numbered, SameColumns
<1> QED
  BY <1>1, <1>2, <1>3 DEF Core, SameColumns

\* A subscriber.
LEMMA SubscribedIs ==
  ASSUME NEW ss \in Seq(SchemaRecords), NEW k \in Nat, NEW targets
  PROVE  LET new == Subscribed(ss, k, targets)
         IN  /\ SameColumns(new, ss)
             /\ \A s \in DOMAIN ss :
                  /\ new[s].name = ss[s].name /\ new[s].final = ss[s].final
                  /\ new[s].subs \subseteq ss[s].subs \cup {k}
                  /\ s \notin RangeOf(targets) => new[s] = ss[s]
<1> DEFINE new == Subscribed(ss, k, targets)
<1>1. DOMAIN new = DOMAIN ss
  BY DEF Subscribed
<1>2. ASSUME NEW s \in DOMAIN ss
      PROVE  /\ new[s] \in SchemaRecords
             /\ new[s].cols = ss[s].cols /\ new[s].ids = ss[s].ids
             /\ new[s].name = ss[s].name /\ new[s].final = ss[s].final
             /\ new[s].subs \subseteq ss[s].subs \cup {k}
             /\ s \notin RangeOf(targets) => new[s] = ss[s]
  <2>1. ss[s] \in SchemaRecords
    BY ElementOfSeq
  <2>2. CASE \E i \in DOMAIN targets : targets[i] = s
    <3>1. new[s] = [ss[s] EXCEPT !.subs = ss[s].subs \cup {k}]
      BY <2>1, <2>2 DEF Subscribed, SchemaRecords
    <3>2. s \in RangeOf(targets)
      BY <2>2 DEF RangeOf
    <3> QED
      BY <2>1, <3>1, <3>2 DEF SchemaRecords
  <2>3. CASE ~\E i \in DOMAIN targets : targets[i] = s
    <3>1. new[s] = ss[s]
      BY <2>3 DEF Subscribed
    <3> QED
      BY <2>1, <3>1
  <2> QED
    BY <2>2, <2>3
<1>3. new \in Seq(SchemaRecords)
  <2>1. Len(ss) \in Nat /\ DOMAIN ss = 1 .. Len(ss)
    BY LenProperties
  <2>2. new \in [1 .. Len(ss) -> SchemaRecords]
    <3>1. new = [s \in 1 .. Len(ss) |-> new[s]]
      BY <1>1, <2>1 DEF Subscribed
    <3> HIDE DEF new
    <3> QED
      BY <1>2, <2>1, <3>1
  <2> QED
    BY <2>1, <2>2
<1> HIDE DEF new
<1> QED
  BY <1>1, <1>2, <1>3 DEF SameColumns, new

\* A new column waits.
OneMoreWaits(new, ss, ks, d, waits, c, name) ==
  /\ Core(ss, ks, d, new)
  /\ RangeOf(new[name]) = RangeOf(waits[name]) \cup {c}
  /\ \A n \in Names : n # name => new[n] = waits[n]

LEMMA CoreWaits ==
  ASSUME NEW ss, NEW ks, NEW d, NEW waits, Core(ss, ks, d, waits),
         NEW c \in Roots(ks, d), New(c, ss, waits), NEW name \in Names
  PROVE  OneMoreWaits([waits EXCEPT ![name] = Append(@, c)], ss, ks, d, waits, c, name)
<1> DEFINE q == Append(waits[name], c)
           new == [waits EXCEPT ![name] = q]
           S == Roots(ks, d)
           l == Len(waits[name])
<1>1. waits \in [Names -> Seq(S)] /\ Waiting(waits, Placed(ss))
  BY DEF Core
<1>2. waits[name] \in Seq(S)
  BY <1>1
<1>3. /\ l \in Nat /\ DOMAIN waits[name] = 1 .. l /\ q \in Seq(S) /\ DOMAIN q = 1 .. l + 1
      /\ q[l + 1] = c /\ \A i \in 1 .. l : q[i] = waits[name][i]
  BY <1>2, LenProperties, AppendProperties
<1> HIDE DEF q, S, l
<1>4. new \in [Names -> Seq(S)] /\ new[name] = q /\ \A n \in Names : n # name => new[n] = waits[n]
  BY <1>1, <1>3
<1> HIDE DEF new
<1>5. \A n \in Names : \A i \in DOMAIN new[n] :
        \/ i \in DOMAIN waits[n] /\ new[n][i] = waits[n][i]
        \/ n = name /\ i = l + 1 /\ new[n][i] = c
  <2> SUFFICES ASSUME NEW n \in Names, NEW i \in DOMAIN new[n]
               PROVE  \/ i \in DOMAIN waits[n] /\ new[n][i] = waits[n][i]
                      \/ n = name /\ i = l + 1 /\ new[n][i] = c
    OBVIOUS
  <2>1. CASE n # name
    BY <1>4, <2>1
  <2>2. CASE n = name
    <3>1. i \in 1 .. l \/ i = l + 1
      BY <1>3, <1>4, <2>2
    <3> QED
      BY <1>3, <1>4, <2>2, <3>1
  <2> QED
    BY <2>1, <2>2
<1>6. Waiting(new, Placed(ss))
  <2>1. ASSUME NEW m \in Names, NEW n \in Names, NEW i \in DOMAIN new[m], NEW j \in DOMAIN new[n],
               new[m][i] = new[n][j]
        PROVE  m = n /\ i = j
    <3>1. \/ i \in DOMAIN waits[m] /\ new[m][i] = waits[m][i]
          \/ m = name /\ i = l + 1 /\ new[m][i] = c
      BY <1>5
    <3>2. \/ j \in DOMAIN waits[n] /\ new[n][j] = waits[n][j]
          \/ n = name /\ j = l + 1 /\ new[n][j] = c
      BY <1>5
    <3> QED
      BY <1>1, <2>1, <3>1, <3>2 DEF Waiting, New
  <2>2. ASSUME NEW n \in Names, NEW i \in DOMAIN new[n], NEW p \in Placed(ss)
        PROVE  p[2] # new[n][i]
    BY <1>1, <1>5 DEF Waiting, New
  <2> QED
    BY <2>1, <2>2 DEF Waiting
<1>7. RangeOf(new[name]) = RangeOf(waits[name]) \cup {c}
  <2>1. \A i : i \in 1 .. l + 1 <=> i \in 1 .. l \/ i = l + 1
    BY <1>3
  <2>2. \A x : x \in RangeOf(q) <=> \E i \in 1 .. l + 1 : x = q[i]
    BY <1>3 DEF RangeOf
  <2>3. \A x : x \in RangeOf(waits[name]) <=> \E i \in 1 .. l : x = waits[name][i]
    BY <1>3 DEF RangeOf
  <2>4. \A x : x \in RangeOf(q) <=> x \in RangeOf(waits[name]) \/ x = c
    BY <1>3, <2>1, <2>2, <2>3
  <2> QED
    BY <1>4, <2>4
<1>8. Core(ss, ks, d, new)
  BY <1>4, <1>6 DEF Core, S
<1> QED
  BY <1>4, <1>7, <1>8 DEF new, q, OneMoreWaits

(***************************************************************************)
(* Tables of the registry.                                                 *)
(***************************************************************************)
\* Where register_table starts.
From(ss, tabs, waits) == [schemas |-> ss, tables |-> tabs, pending |-> waits, ok |-> TRUE]

\* s became a table and took in the columns that wait for its name, unless one
\* was refused.
TookWaiting(result, ss, tabs, waits, ks, d, e, s) ==
  /\ result = [schemas |-> result.schemas, tables |-> result.tables,
               pending |-> result.pending, ok |-> result.ok]
  /\ result.ok \in BOOLEAN
  /\ Extends(result.schemas, ss)
  /\ result.tables = Append(tabs, s)
  /\ result.pending \in [Names -> Seq(Roots(keys, e))]
  /\ result.ok =>
       /\ Core(result.schemas, ks, d, result.pending)
       /\ \A n \in Names : n # ss[s].name => result.pending[n] = waits[n]
       /\ \A c \in RangeOf(waits[ss[s].name]) : <<s, c>> \in Placed(result.schemas)

\* That is what a table does.  ks and d may have more than the keys and data of
\* the registry's columns.
LEMMA FlushedIs ==
  ASSUME NEW ss, NEW ks, NEW d, NEW waits, Core(ss, ks, d, waits), NEW tabs,
         NEW s \in DOMAIN ss,
         keys \in Seq(Seq(DOMAIN ss)), \A k \in DOMAIN keys : ks[k] = keys[k],
         NEW e \in Nat, waits \in [Names -> Seq(Roots(keys, e))]
  PROVE  TookWaiting(Flushed(From(ss, tabs, waits), s), ss, tabs, waits, ks, d, e, s)
<1> DEFINE now == From(ss, tabs, waits)
           name == ss[s].name
           cols == waits[name]
           q == Requests(keys, s, cols)
           left == [waits EXCEPT ![name] = <<>>]
           done == Registered(ss, q)
           result == Flushed(now, s)
<1>1. /\ ss \in Seq(SchemaRecords) /\ ks \in Seq(Seq(DOMAIN ss)) /\ d \in Nat
      /\ waits \in [Names -> Seq(Roots(ks, d))]
      /\ Waiting(waits, Placed(ss))
  BY DEF Core
<1>2. name \in Names
  <2>1. ss[s] \in SchemaRecords
    BY <1>1, ElementOfSeq
  <2> QED
    BY <2>1 DEF SchemaRecords
<1>3. /\ cols \in Seq(Roots(ks, d)) /\ cols \in Seq(Roots(keys, e))
      /\ Distinct(cols) /\ Absent(cols, Placed(ss))
  BY <1>1, <1>2 DEF Waiting, Distinct, Absent
<1>4. Asks(q, DOMAIN ss, AllBrought(ks, s, cols))
  <2> HIDE DEF now, name, cols, left, done, result
  <2>1. Asks(q, DOMAIN ss, AllBrought(keys, s, cols))
    BY <1>3, RequestsAre
  <2>2. DOMAIN keys \in SUBSET Nat
    BY LenProperties
  <2>3. \A i \in DOMAIN cols : cols[i] \in Roots(keys, e)
    BY <1>3, ElementOfSeq
  <2>4. ASSUME NEW c \in Roots(keys, e) PROVE Brought(ks, s, c) = Brought(keys, s, c)
    <3>1. \A k \in DOMAIN keys : ks[k] = keys[k]
      OBVIOUS
    <3> QED
      BY ONLY <2>2, <3>1, <2>4, BroughtMore
  <2>5. AllBrought(ks, s, cols) = AllBrought(keys, s, cols)
    BY <2>3, <2>4 DEF AllBrought
  <2> QED
    BY <2>1, <2>5
<1>5. /\ left \in [Names -> Seq(Roots(ks, d))] /\ left \in [Names -> Seq(Roots(keys, e))]
      /\ left[name] = <<>> /\ \A n \in Names : n # name => left[n] = waits[n]
  <2>1. <<>> \in Seq(Roots(ks, d)) /\ <<>> \in Seq(Roots(keys, e))
    BY EmptySeq
  <2> QED
    BY <1>1, <1>2, <2>1
<1>6. result = [now EXCEPT !.schemas = done.schemas, !.ok = done.ok, !.tables = Append(tabs, s),
                           !.pending = IF done.ok THEN left ELSE waits]
  <2>1. now.schemas = ss /\ now.pending = waits /\ now.tables = tabs
    BY DEF From
  <2>2. ~done.ok => [now EXCEPT !.schemas = done.schemas, !.ok = done.ok,
                                !.tables = Append(tabs, s), !.pending[name] = cols]
                    = [now EXCEPT !.schemas = done.schemas, !.ok = done.ok,
                                  !.tables = Append(tabs, s), !.pending = waits]
    <3>1. [waits EXCEPT ![name] = cols] = waits
      BY <1>1, <1>2
    <3> QED
      BY <3>1 DEF From
  <2>3. done.ok => [now EXCEPT !.schemas = done.schemas, !.ok = done.ok,
                               !.tables = Append(tabs, s), !.pending[name] = <<>>]
                    = [now EXCEPT !.schemas = done.schemas, !.ok = done.ok,
                                  !.tables = Append(tabs, s), !.pending = left]
    BY DEF From
  <2> QED
    BY <2>1, <2>2, <2>3 DEF Flushed
<1> HIDE DEF q, done, cols, left, result, name
<1>7. /\ result.schemas = done.schemas /\ result.ok = done.ok /\ result.tables = Append(tabs, s)
      /\ result.pending = IF done.ok THEN left ELSE waits
      /\ result = [schemas |-> result.schemas, tables |-> result.tables,
                   pending |-> result.pending, ok |-> result.ok]
  BY <1>6 DEF From
<1>8. Waiting(left, Placed(ss)) /\ \A n \in Names : \A i \in DOMAIN left[n] : left[n][i] \notin RangeOf(cols)
  <2>1. \A n \in Names : \A i \in DOMAIN left[n] : n # name /\ i \in DOMAIN waits[n] /\ left[n][i] = waits[n][i]
    BY <1>5
  <2> QED
    BY <1>1, <1>2, <2>1 DEF Waiting, RangeOf, cols
<1>9. /\ done.ok \in BOOLEAN
      /\ Extends(done.schemas, ss)
      /\ done.ok =>
           /\ Core(done.schemas, ks, d, left)
           /\ Placed(done.schemas) = Placed(ss) \cup AllBrought(ks, s, cols)
  BY <1>3, <1>4, <1>5, <1>8, TakesIn DEF done
<1>10. \A c \in RangeOf(cols) : <<s, c>> \in AllBrought(ks, s, cols)
  BY DEF RangeOf, AllBrought, Brought
<1> QED
  BY <1>5, <1>7, <1>9, <1>10 DEF result, name, cols, TookWaiting

\* register_table of one schema, as WithTables carries it out.
Put(now, s) ==
  IF ~now.ok THEN now
  ELSE IF \E i \in DOMAIN now.tables : schemas[now.tables[i]].name = schemas[s].name
    THEN [now EXCEPT !.ok = FALSE]
  ELSE Flushed(now, s)

\* Whatever waited still waits or is in a table of its name.
Moved(tabs, waits, ss) ==
  \A n \in Names : \A c \in RangeOf(pending[n]) :
    c \in RangeOf(waits[n]) \/ Tabled(n, c, tabs, ss)

\* What register_table can have got to.
Reached ==
  {now \in [schemas : Seq(SchemaRecords), tables : Seq(Schemas),
            pending : [Names -> Seq(Roots(keys, data))], ok : BOOLEAN] :
     /\ Extends(now.schemas, schemas)
     /\ now.ok =>
          /\ Core(now.schemas, keys, data, now.pending)
          /\ Moved(now.tables, now.pending, now.schemas)}

\* One more value in a sequence.
LEMMA RangeOfAppend ==
  ASSUME NEW T, NEW q \in Seq(T), NEW x \in T
  PROVE  /\ Append(q, x) \in Seq(T)
         /\ RangeOf(Append(q, x)) = RangeOf(q) \cup {x}
<1> DEFINE n == Len(q)
           r == Append(q, x)
<1>1. /\ n \in Nat /\ DOMAIN q = 1 .. n /\ r \in Seq(T) /\ DOMAIN r = 1 .. n + 1
      /\ r[n + 1] = x /\ \A i \in 1 .. n : r[i] = q[i]
  BY LenProperties, AppendProperties
<1> HIDE DEF n, r
<1>2. \A i : i \in 1 .. n + 1 <=> i \in 1 .. n \/ i = n + 1
  BY <1>1
<1>3. \A y : y \in RangeOf(r) <=> \E i \in 1 .. n + 1 : y = r[i]
  BY <1>1 DEF RangeOf
<1>4. \A y : y \in RangeOf(q) <=> \E i \in 1 .. n : y = q[i]
  BY <1>1 DEF RangeOf
<1>5. \A y : y \in RangeOf(r) <=> y \in RangeOf(q) \/ y = x
  BY <1>1, <1>2, <1>3, <1>4
<1> QED
  BY <1>1, <1>5 DEF r

\* It keeps what has been reached.
LEMMA PutIs ==
  ASSUME NEW now \in Reached, NEW s \in Schemas
  PROVE  LET then == Put(now, s)
         IN  /\ then \in Reached
             /\ then.ok => now.ok /\ then.tables = Append(now.tables, s)
<1> DEFINE ss == now.schemas
           then == Put(now, s)
           Good == then \in Reached /\ (then.ok => now.ok /\ then.tables = Append(now.tables, s))
<1>1. /\ now = [schemas |-> ss, tables |-> now.tables, pending |-> now.pending, ok |-> now.ok]
      /\ ss \in Seq(SchemaRecords) /\ now.tables \in Seq(Schemas)
      /\ now.pending \in [Names -> Seq(Roots(keys, data))] /\ now.ok \in BOOLEAN
      /\ Extends(ss, schemas)
      /\ now.ok => /\ Core(ss, keys, data, now.pending)
                   /\ Moved(now.tables, now.pending, ss)
  BY DEF Reached
<1>2. ASSUME ~now.ok PROVE Good
  BY <1>2 DEF Put
<1>3. ASSUME now.ok, \E i \in DOMAIN now.tables : schemas[now.tables[i]].name = schemas[s].name
      PROVE  Good
  <2>1. then = [schemas |-> ss, tables |-> now.tables, pending |-> now.pending, ok |-> FALSE]
    BY <1>1, <1>3 DEF Put
  <2> HIDE DEF then
  <2>2. /\ then.schemas = ss /\ then.ok = FALSE
        /\ then \in [schemas : Seq(SchemaRecords), tables : Seq(Schemas),
                     pending : [Names -> Seq(Roots(keys, data))], ok : BOOLEAN]
    BY <1>1, <2>1
  <2> QED
    BY <1>1, <2>2 DEF Reached
<1>4. ASSUME now.ok, ~\E i \in DOMAIN now.tables : schemas[now.tables[i]].name = schemas[s].name
      PROVE  Good
  <2>1. then = Flushed(From(ss, now.tables, now.pending), s)
    BY <1>1, <1>4 DEF Put, From
  <2> HIDE DEF then
  <2> DEFINE name == ss[s].name
             waits == now.pending
  <2>2. s \in DOMAIN schemas /\ s \in DOMAIN ss /\ name = schemas[s].name
    <3>1. schemas \in Seq(SchemaRecords) \/ DOMAIN schemas = DOMAIN ss
      BY <1>1 DEF Extends
    <3>2. DOMAIN ss = 1 .. Len(ss) /\ DOMAIN schemas = DOMAIN ss
      BY <1>1, LenProperties DEF Extends
    <3>3. s \in DOMAIN schemas
      BY DEF Schemas
    <3> QED
      BY <1>1, <3>2, <3>3 DEF Extends
  <2>3. /\ Core(ss, keys, data, waits) /\ keys \in Seq(Seq(DOMAIN ss)) /\ data \in Nat
        /\ waits \in [Names -> Seq(Roots(keys, data))]
    BY <1>1, <1>4 DEF Core
  <2> DEFINE tabs == now.tables
  <2> HIDE DEF name, waits, ss, tabs
  <2>4. TookWaiting(then, ss, tabs, waits, keys, data, data, s)
    <3>1. \A k \in DOMAIN keys : keys[k] = keys[k]
      OBVIOUS
    <3>2. s \in DOMAIN ss
      BY <2>2
    <3>3. TookWaiting(Flushed(From(ss, tabs, waits), s), ss, tabs, waits, keys, data, data, s)
      BY ONLY <2>3, <3>1, <3>2, FlushedIs
    <3> QED
      BY <2>1, <3>3 DEF tabs, waits
  <2>5. /\ then = [schemas |-> then.schemas, tables |-> then.tables,
                   pending |-> then.pending, ok |-> then.ok]
        /\ then.ok \in BOOLEAN
        /\ Extends(then.schemas, ss)
        /\ then.tables = Append(tabs, s)
        /\ then.pending \in [Names -> Seq(Roots(keys, data))]
        /\ then.ok =>
             /\ Core(then.schemas, keys, data, then.pending)
             /\ \A n \in Names : n # name => then.pending[n] = waits[n]
             /\ \A c \in RangeOf(waits[name]) : <<s, c>> \in Placed(then.schemas)
    BY <2>4 DEF TookWaiting, name
  <2>6. Extends(then.schemas, schemas)
    BY <1>1, <2>5, ExtendsTwice
  <2>7. then.tables \in Seq(Schemas) /\ RangeOf(then.tables) = RangeOf(now.tables) \cup {s}
    BY <1>1, <2>5, RangeOfAppend DEF tabs
  <2>8. ASSUME then.ok PROVE Moved(then.tables, then.pending, then.schemas)
    <3> SUFFICES ASSUME NEW n \in Names, NEW c \in RangeOf(pending[n]),
                        c \notin RangeOf(then.pending[n])
                 PROVE  \E t \in RangeOf(then.tables) :
                          then.schemas[t].name = n /\ <<t, c>> \in Placed(then.schemas)
      BY DEF Moved, Tabled
    <3>1. CASE c \in RangeOf(waits[n])
      <4>1. n = name
        BY <2>5, <2>8, <3>1
      <4> QED
        BY <2>2, <2>5, <2>6, <2>7, <2>8, <3>1, <4>1 DEF Extends
    <3>2. CASE c \notin RangeOf(waits[n])
      <4>1. PICK t \in RangeOf(now.tables) : ss[t].name = n /\ <<t, c>> \in Placed(ss)
        BY <1>1, <1>4, <3>2 DEF Moved, Tabled, waits
      <4>2. PICK u \in DOMAIN ss : \E i \in DOMAIN ss[u].cols : <<t, c>> = <<u, ss[u].cols[i]>>
        BY <4>1, InPlaced
      <4>3. t \in DOMAIN ss
        BY <4>2
      <4>4. <<t, c>> \in Placed(then.schemas) /\ then.schemas[t].name = n
        BY <2>5, <4>1, <4>3 DEF Extends
      <4> QED
        BY <2>7, <4>4
    <3> QED
      BY <3>1, <3>2
  <2>9. then \in [schemas : Seq(SchemaRecords), tables : Seq(Schemas),
                  pending : [Names -> Seq(Roots(keys, data))], ok : BOOLEAN]
    <3>1. then.schemas \in Seq(SchemaRecords)
      BY <2>6 DEF Extends
    <3> QED
      BY <2>5, <2>7, <3>1
  <2> QED
    BY <1>4, <2>5, <2>6, <2>8, <2>9 DEF Reached, tabs
<1>5. Good
  <2>1. now.ok \in BOOLEAN
    BY <1>1
  <2> HIDE DEF Good
  <2> QED
    BY <1>2, <1>3, <1>4, <2>1
<1> QED
  BY <1>5

\* The layers of an overlay become tables, each with the columns that waited for it.
LEMMA WithTablesIs ==
  ASSUME Core(schemas, keys, data, pending), tables \in Seq(Schemas), NEW list \in Seq(Schemas)
  PROVE  LET result == WithTables(list)
         IN  /\ result \in Reached
             /\ result.ok => RangeOf(result.tables) = RangeOf(tables) \cup RangeOf(list)
<1> DEFINE n == Len(list)
           a == [schemas |-> schemas, tables |-> tables, pending |-> pending, ok |-> TRUE]
           S == Reached
           F == [k \in 1 .. n |-> [now \in S |-> Put(now, list[k])]]
           Eq(f) == f = [k \in 0 .. n |-> IF k = 0 THEN a ELSE Put(f[k - 1], list[k])]
           c == CHOOSE f : Eq(f)
<1>1. n \in Nat /\ DOMAIN list = 1 .. n /\ \A k \in 1 .. n : list[k] \in Schemas
  BY LenProperties, ElementOfSeq
<1>2. a \in S
  <2>1. /\ schemas \in Seq(SchemaRecords) /\ pending \in [Names -> Seq(Roots(keys, data))]
    BY DEF Core
  <2>2. Extends(schemas, schemas)
    BY <2>1 DEF Extends
  <2>3. Moved(tables, pending, schemas)
    BY DEF Moved
  <2>4. /\ a.schemas = schemas /\ a.pending = pending /\ a.tables = tables
        /\ a \in [schemas : Seq(SchemaRecords), tables : Seq(Schemas),
                  pending : [Names -> Seq(Roots(keys, data))], ok : BOOLEAN]
    BY <2>1
  <2> HIDE DEF a
  <2> QED
    BY <2>2, <2>3, <2>4 DEF Reached
<1>3. ASSUME NEW now \in S, NEW k \in 1 .. n
      PROVE  /\ Put(now, list[k]) \in S
             /\ Put(now, list[k]).ok => /\ now.ok
                                        /\ Put(now, list[k]).tables = Append(now.tables, list[k])
  BY <1>1, PutIs
<1>4. IsStep(F, n, S)
  <2> HIDE DEF n, S
  <2> QED
    BY <1>3 DEF IsStep
<1>5. PICK v : Follows(v, n, S, a, F)
  <2> HIDE DEF n, S, F, a
  <2> QED
    BY <1>1, <1>2, <1>4, RecursionUpTo
<1>6. v \in [0 .. n -> S] /\ v[0] = a /\ \A k \in 1 .. n : v[k] = F[k][v[k - 1]]
  <2> HIDE DEF n, S, F, a
  <2> QED
    BY <1>5 DEF Follows
<1>7. ASSUME NEW k \in 1 .. n PROVE v[k - 1] \in S /\ v[k] = Put(v[k - 1], list[k])
  <2>1. k - 1 \in 0 .. n
    BY <1>1
  <2> HIDE DEF S, n
  <2>2. v[k - 1] \in S
    BY <1>6, <2>1
  <2>3. F[k][v[k - 1]] = Put(v[k - 1], list[k])
    BY <2>2
  <2> HIDE DEF F
  <2> QED
    BY <1>6, <2>2, <2>3
<1>8. WithTables(list) = c[n]
  BY DEF WithTables, Put
<1> HIDE DEF n, a
<1>9. Eq(v)
  <2> HIDE DEF F, S
  <2>1. \A k \in 0 .. n : k # 0 => k \in 1 .. n
    BY <1>1
  <2>2. \A k \in 0 .. n : v[k] = IF k = 0 THEN a ELSE Put(v[k - 1], list[k])
    BY <1>6, <1>7, <2>1
  <2> QED
    BY <1>6, <2>2
<1>10. Eq(c)
  <2> HIDE DEF F, S, Eq
  <2> QED
    BY <1>9
<1> HIDE DEF F, S
<1>11. /\ c = [k \in 0 .. n |-> IF k = 0 THEN a ELSE Put(c[k - 1], list[k])]
  <2> HIDE DEF c
  <2> QED
    BY <1>10
<1> HIDE DEF c, Eq
<1>12. c[0] = a /\ \A k \in 1 .. n : c[k] = Put(c[k - 1], list[k])
  <2>1. 0 \in 0 .. n /\ \A k \in 1 .. n : k \in 0 .. n /\ k # 0
    BY <1>1
  <2> QED
    BY <1>11, <2>1
<1> DEFINE Some(k) == {list[i] : i \in 1 .. k}
           P == {k \in 0 .. n : /\ c[k] \in S
                                /\ c[k].ok => RangeOf(c[k].tables) = RangeOf(tables) \cup Some(k)}
<1>13. 0 \in P
  <2>1. a.tables = tables
    BY DEF a
  <2>2. Some(0) = {}
    OBVIOUS
  <2> HIDE DEF Some
  <2>3. c[0] \in S /\ RangeOf(c[0].tables) = RangeOf(tables) \cup Some(0)
    BY <1>2, <1>12, <2>1, <2>2
  <2> QED
    BY <1>1, <2>3
<1>14. ASSUME NEW k \in 1 .. n, k - 1 \in P PROVE k \in P
  <2> DEFINE was == c[k - 1]
  <2>1. was \in S /\ (was.ok => RangeOf(was.tables) = RangeOf(tables) \cup Some(k - 1))
    BY <1>14
  <2>2. c[k] = Put(was, list[k])
    BY <1>12
  <2> HIDE DEF was
  <2>3. /\ c[k] \in S
        /\ c[k].ok => was.ok /\ c[k].tables = Append(was.tables, list[k])
    BY <1>3, <2>1, <2>2
  <2>4. was.tables \in Seq(Schemas)
    BY <2>1 DEF S, Reached
  <2>5. RangeOf(Append(was.tables, list[k])) = RangeOf(was.tables) \cup {list[k]}
    BY <1>1, <2>4, RangeOfAppend
  <2>6. Some(k) = Some(k - 1) \cup {list[k]}
    <3>1. \A i : i \in 1 .. k <=> i \in 1 .. k - 1 \/ i = k
      BY <1>1
    <3> QED
      BY <3>1
  <2> HIDE DEF Some
  <2>7. c[k].ok => RangeOf(c[k].tables) = RangeOf(tables) \cup Some(k)
    BY <2>1, <2>3, <2>5, <2>6
  <2> QED
    BY <1>1, <2>3, <2>7
<1>15. \A k \in 0 .. n : k \in P
  <2> HIDE DEF P
  <2> QED
    BY <1>1, <1>13, <1>14, InductionUpTo
<1>16. n \in P
  <2>1. n \in 0 .. n
    BY <1>1
  <2> HIDE DEF P
  <2> QED
    BY <1>15, <2>1
<1>17. Some(n) = RangeOf(list)
  BY <1>1 DEF RangeOf
<1> QED
  BY <1>8, <1>16, <1>17 DEF S

\* A table that is made with columns, as its position and the schemas before it
\* let one describe it.
Made(result, ss, ks, d, waits, name, cols) ==
  /\ result = [schemas |-> result.schemas, ok |-> result.ok]
  /\ result.ok \in BOOLEAN
  /\ result.schemas \in Seq(SchemaRecords)
  /\ DOMAIN result.schemas = DOMAIN ss \cup {Len(ss) + 1}
  /\ Placed(ss) \subseteq Placed(result.schemas)
  /\ \A t \in DOMAIN ss :
       /\ result.schemas[t].name = ss[t].name
       /\ result.schemas[t].subs = ss[t].subs
       /\ result.schemas[t].final = ss[t].final
       /\ ss[t].final => result.schemas[t] = ss[t]
  /\ result.schemas[Len(ss) + 1].name = name
  /\ result.schemas[Len(ss) + 1].subs = {}
  /\ ~result.schemas[Len(ss) + 1].final
  /\ result.ok =>
       /\ Core(result.schemas, ks, d, waits)
       /\ \A i \in DOMAIN cols : <<Len(ss) + 1, cols[i]>> \in Placed(result.schemas)

\* TableSchema(name, spec, cols) for new columns.
LEMMA WithTableIs ==
  ASSUME NEW ss, NEW ks, NEW d, NEW waits, Core(ss, ks, d, waits), NEW name \in Names,
         NEW cols \in Seq(Roots(ks, d)), Distinct(cols),
         \A i \in DOMAIN cols : New(cols[i], ss, waits)
  PROVE  Made(WithTable(ss, ks, name, cols), ss, ks, d, waits, name, cols)
<1> DEFINE s == Len(ss) + 1
           R == NewSchema(name, cols)
           base == Append(ss, R)
           q == Bring(ks, s, cols)
           done == Registered(base, q)
           mid == done.schemas
           all == mid[s].cols
           number(c) == (CHOOSE i \in DOMAIN all : all[i] = c) - 1
           ids == [c \in {all[i] : i \in DOMAIN all} |-> number(c)]
           result == WithTable(ss, ks, name, cols)
           first == Firsts(s, cols)
           B == AllBrought(ks, s, cols)
<1>1. /\ ss \in Seq(SchemaRecords) /\ ks \in Seq(Seq(DOMAIN ss)) /\ d \in Nat
      /\ waits \in [Names -> Seq(Roots(ks, d))]
      /\ OnePlace(ss)
      /\ \A t \in DOMAIN ss : Numbered(ss[t])
      /\ Whole(Placed(ss), ks, d)
      /\ Waiting(waits, Placed(ss))
  BY DEF Core
<1>2. DOMAIN ks \in SUBSET Nat
  BY <1>1, LenProperties
<1>3. \A i \in DOMAIN cols : cols[i] \in Roots(ks, d) /\ cols[i] \in Columns
  <2>1. \A i \in DOMAIN cols : cols[i] \in Roots(ks, d)
    BY ElementOfSeq
  <2> QED
    BY <1>1, <1>2, <2>1, RootsAre
<1>4. cols \in Seq(Columns)
  <2>1. Len(cols) \in Nat /\ DOMAIN cols = 1 .. Len(cols) /\ cols \in [1 .. Len(cols) -> Roots(ks, d)]
    BY LenProperties
  <2>2. cols \in [1 .. Len(cols) -> Columns]
    BY <1>3, <2>1
  <2> QED
    BY <2>1, <2>2
<1>5. /\ R \in SchemaRecords /\ R.name = name /\ R.cols = cols /\ R.subs = {} /\ ~R.final
  BY <1>4, NewSchemaIs
<1> HIDE DEF R
<1>6. /\ base \in Seq(SchemaRecords) /\ s \in Nat /\ s \notin DOMAIN ss
      /\ DOMAIN base = DOMAIN ss \cup {s}
      /\ \A t \in DOMAIN ss : base[t] = ss[t]
      /\ base[s] = R
      /\ Placed(base) = Placed(ss) \cup first
  <2> HIDE DEF s, base, first
  <2> QED
    BY <1>1, <1>5, AppendedSchema DEF s, base, first, Firsts
<1> HIDE DEF s, base
<1>7. s \in DOMAIN base /\ ks \in Seq(Seq(DOMAIN base))
  BY <1>1, <1>6, SequencesMore
<1>8. OnePlace(base)
  <2>1. ASSUME NEW t \in DOMAIN base, NEW u \in DOMAIN base,
               NEW i \in DOMAIN base[t].cols, NEW j \in DOMAIN base[u].cols,
               base[t].cols[i] = base[u].cols[j]
        PROVE  t = u /\ i = j
    <3>1. CASE t \in DOMAIN ss /\ u \in DOMAIN ss
      BY <1>1, <1>6, <2>1, <3>1 DEF OnePlace
    <3>2. CASE t = s /\ u = s
      BY <1>5, <1>6, <2>1, <3>2 DEF Distinct
    <3>3. ASSUME NEW v \in DOMAIN ss, NEW l \in DOMAIN ss[v].cols, NEW m \in DOMAIN cols
          PROVE  ss[v].cols[l] # cols[m]
      <4>1. <<v, ss[v].cols[l]>> \in Placed(ss)
        BY ColumnIsPlaced
      <4>2. <<v, ss[v].cols[l]>>[2] # cols[m]
        BY <4>1 DEF New
      <4> QED
        BY <4>2
    <3>4. CASE t \in DOMAIN ss /\ u = s
      BY <1>5, <1>6, <2>1, <3>3, <3>4
    <3>5. CASE t = s /\ u \in DOMAIN ss
      BY <1>5, <1>6, <2>1, <3>3, <3>5
    <3> QED
      BY <1>6, <3>1, <3>2, <3>4, <3>5
  <2> QED
    BY <2>1 DEF OnePlace
<1>9. Asks(q, DOMAIN base, B \ first)
  <2> HIDE DEF q, B, first
  <2> QED
    BY <1>1, <1>7, BringIs DEF q, B, first
<1>10. /\ \A p \in Placed(ss), x \in B : p[2] # x[2]
       /\ Whole(Placed(ss) \cup B, ks, d)
  <2>1. Absent(cols, Placed(ss))
    BY DEF New, Absent
  <2> HIDE DEF B
  <2> QED
    BY <1>1, <1>7, <2>1, WholeTakes DEF B
<1>11. /\ Asks(Requests(ks, s, cols), DOMAIN base, B)
       /\ \A x \in B : RootOf(x[2]) \in RangeOf(cols)
  BY <1>1, <1>7, RequestsAre
<1>12. first \subseteq B
  BY DEF AllBrought, Brought, Firsts
<1> HIDE DEF q, B, first, done
<1>13. q \in Seq(RequestsTo(DOMAIN base)) /\ PairsOf(q) = B \ first /\ Differ(q)
  BY <1>9 DEF Asks
<1>14. CarriedOut(done, Len(q), base, q)
  BY <1>6, <1>13, RegisteredIs DEF done
<1>15. AllNew(q, base)
  <2> SUFFICES ASSUME NEW i \in DOMAIN q, NEW p \in Placed(base) PROVE p[2] # q[i].col
    BY DEF AllNew
  <2> DEFINE x == <<q[i].to, q[i].col>>
  <2>1. x \in B /\ x \notin first /\ x[2] = q[i].col
    BY <1>13 DEF PairsOf
  <2> HIDE DEF x
  <2>2. CASE p \in Placed(ss)
    BY <1>10, <2>1, <2>2
  <2>3. CASE p \in first
    BY <1>11, <1>12, <2>1, <2>3, AskedOnce
  <2> QED
    BY <1>6, <2>2, <2>3
<1>16. {<<q[i].to, q[i].col>> : i \in 1 .. Len(q)} = B \ first
  <2>1. DOMAIN q = 1 .. Len(q)
    BY <1>13, LenProperties
  <2> QED
    BY <1>13, <2>1 DEF PairsOf
<1>17. /\ done = [schemas |-> mid, ok |-> done.ok] /\ done.ok \in BOOLEAN
       /\ Extends(mid, base)
       /\ done.ok => /\ Placed(mid) = Placed(ss) \cup B
                     /\ OnePlace(mid)
                     /\ \A t \in DOMAIN base : Numbered(base[t]) => Numbered(mid[t])
  <2>1. Placed(base) \cup (B \ first) = Placed(ss) \cup B
    BY <1>6, <1>12
  <2> QED
    BY <1>8, <1>13, <1>14, <1>15, <1>16, <2>1 DEF CarriedOut
<1>18. result = [done EXCEPT !.schemas[s].ids = ids]
  BY DEF WithTable, Bring, s, R, base, q, done
<1> HIDE DEF mid, result
<1>19. mid \in Seq(SchemaRecords) /\ DOMAIN mid = DOMAIN base /\ s \in DOMAIN mid
  BY <1>6, <1>17 DEF Extends
<1>20. mid[s] \in SchemaRecords /\ all \in Seq(Columns) /\ DOMAIN all \subseteq Nat
  <2>1. mid[s] \in SchemaRecords
    BY <1>19, ElementOfSeq
  <2>2. all \in Seq(Columns)
    BY <2>1 DEF SchemaRecords
  <2> QED
    BY <2>1, <2>2, LenProperties
<1> HIDE DEF all
<1>21. ids \in IdMaps /\ DOMAIN ids = {all[i] : i \in DOMAIN all}
  <2>1. {all[i] : i \in DOMAIN all} \in SUBSET Columns
    BY <1>20, ElementOfSeq
  <2>2. ASSUME NEW c \in {all[i] : i \in DOMAIN all} PROVE number(c) \in Int
    <3>1. (CHOOSE i \in DOMAIN all : all[i] = c) \in DOMAIN all
      OBVIOUS
    <3> QED
      BY <1>20, <3>1
  <2> HIDE DEF number
  <2>3. ids \in [{all[i] : i \in DOMAIN all} -> Int]
    BY <2>2
  <2> QED
    BY <2>1, <2>3 DEF IdMaps
<1>22. ASSUME \A i, j \in DOMAIN all : all[i] = all[j] => i = j, NEW i \in DOMAIN all
       PROVE  ids[all[i]] = i - 1
  <2>1. (CHOOSE j \in DOMAIN all : all[j] = all[i]) = i
    BY <1>22
  <2> QED
    BY <2>1
<1> HIDE DEF ids, number
<1> DEFINE last == [mid[s] EXCEPT !.ids = ids]
           new == [mid EXCEPT ![s] = last]
<1>23. /\ result = [schemas |-> new, ok |-> done.ok]
       /\ result.schemas = new /\ result.ok = done.ok
  <2>1. result = [done EXCEPT !.schemas = [done.schemas EXCEPT ![s] = [@ EXCEPT !.ids = ids]]]
    BY <1>18
  <2>2. done.schemas = mid
    BY DEF mid
  <2>3. [mid EXCEPT ![s] = [@ EXCEPT !.ids = ids]] = new
    BY <1>19
  <2>4. result = [done EXCEPT !.schemas = new]
    BY <2>1, <2>2, <2>3
  <2> HIDE DEF new
  <2>5. result = [schemas |-> new, ok |-> done.ok]
    BY <1>17, <2>4
  <2> QED
    BY <2>5
<1>24. /\ last \in SchemaRecords /\ last.name = mid[s].name /\ last.subs = mid[s].subs
       /\ last.final = mid[s].final /\ last.cols = all /\ last.ids = ids
  BY <1>20, <1>21 DEF SchemaRecords, all
<1> HIDE DEF last
<1>25. /\ new \in Seq(SchemaRecords) /\ DOMAIN new = DOMAIN mid
       /\ new[s] = last /\ \A t \in DOMAIN ss : new[t] = mid[t]
  <2>1. new \in Seq(SchemaRecords) /\ DOMAIN new = DOMAIN mid
    BY <1>19, <1>24
  <2>2. new[s] = last
    BY <1>19
  <2>3. \A t \in DOMAIN ss : t \in DOMAIN mid /\ t # s
    BY <1>6, <1>19
  <2>4. \A t \in DOMAIN mid : t # s => new[t] = mid[t]
    BY <1>19
  <2> QED
    BY <2>1, <2>2, <2>3, <2>4
<1> HIDE DEF new
<1>26. \A t \in DOMAIN mid : new[t].cols = mid[t].cols
  BY <1>6, <1>19, <1>24, <1>25 DEF all
<1>27. Placed(new) = Placed(mid)
  BY <1>25, <1>26 DEF Placed
<1>28. ASSUME NEW t \in DOMAIN ss
       PROVE  /\ new[t].name = ss[t].name /\ new[t].subs = ss[t].subs
              /\ new[t].final = ss[t].final /\ (ss[t].final => new[t] = ss[t])
  BY <1>6, <1>17, <1>25 DEF Extends
<1>29. new[s].name = name /\ new[s].subs = {} /\ ~new[s].final
  BY <1>5, <1>6, <1>17, <1>24, <1>25 DEF Extends
<1>30. Placed(ss) \subseteq Placed(new)
  BY <1>6, <1>17, <1>27 DEF Extends
<1>31. ASSUME done.ok PROVE Core(new, ks, d, waits)
  <2>1. OnePlace(new)
    BY <1>17, <1>25, <1>26, <1>31 DEF OnePlace
  <2>2. ASSUME NEW t \in DOMAIN new PROVE Numbered(new[t])
    <3>1. CASE t \in DOMAIN ss
      BY <1>1, <1>6, <1>17, <1>25, <1>31, <3>1
    <3>2. CASE t = s
      <4>1. \A i, j \in DOMAIN all : all[i] = all[j] => i = j
        BY <1>17, <1>19, <1>31 DEF OnePlace, all
      <4>2. \A i \in DOMAIN all : ids[all[i]] = i - 1
        BY <1>22, <4>1
      <4> QED
        BY <1>21, <1>24, <1>25, <3>2, <4>2 DEF Numbered
    <3> QED
      BY <1>6, <1>19, <1>25, <3>1, <3>2
  <2>3. Waiting(waits, Placed(ss) \cup B)
    <3> SUFFICES ASSUME NEW n \in Names, NEW i \in DOMAIN waits[n], NEW x \in B
                 PROVE  x[2] # waits[n][i]
      BY <1>1 DEF Waiting
    <3>1. waits[n][i] \in Roots(ks, d)
      BY <1>1, ElementOfSeq
    <3>2. RootOf(waits[n][i]) = waits[n][i]
      BY <1>1, <1>2, <3>1, RootsAre
    <3>3. waits[n][i] \notin RangeOf(cols)
      BY DEF New, RangeOf
    <3> QED
      BY <1>11, <3>2, <3>3
  <2> QED
    BY <1>1, <1>7, <1>10, <1>17, <1>19, <1>25, <1>27, <1>31, <2>1, <2>2, <2>3 DEF Core
<1>32. done.ok => \A i \in DOMAIN cols : <<s, cols[i]>> \in Placed(new)
  BY <1>12, <1>17, <1>27 DEF first, Firsts
<1>33. DOMAIN new = DOMAIN ss \cup {s}
  BY <1>6, <1>19, <1>25
<1> QED
  BY <1>17, <1>23, <1>25, <1>28, <1>29, <1>30, <1>31, <1>32, <1>33 DEF Made, s, result

(***************************************************************************)
(* Steps.                                                                  *)
(***************************************************************************)
\* What a pair is.
LEMMA PlacedIs ==
  ASSUME NEW ss, NEW s, NEW c
  PROVE  <<s, c>> \in Placed(ss) <=> s \in DOMAIN ss /\ \E i \in DOMAIN ss[s].cols : ss[s].cols[i] = c
<1>1. ASSUME <<s, c>> \in Placed(ss)
      PROVE  s \in DOMAIN ss /\ \E i \in DOMAIN ss[s].cols : ss[s].cols[i] = c
  <2>1. PICK t \in DOMAIN ss : \E i \in DOMAIN ss[t].cols : <<s, c>> = <<t, ss[t].cols[i]>>
    BY <1>1, InPlaced
  <2> QED
    BY <2>1
<1> QED
  BY <1>1, ColumnIsPlaced

\* No schema has a column for counts without a dtype.
LEMMA PlacedColumns ==
  ASSUME NEW ss \in Seq(SchemaRecords), NEW s, NEW c, <<s, c>> \in Placed(ss)
  PROVE  c.kind # "untyped"
<1>1. PICK i \in DOMAIN ss[s].cols : s \in DOMAIN ss /\ ss[s].cols[i] = c
  BY PlacedIs
<1>2. ss[s] \in SchemaRecords
  BY <1>1, ElementOfSeq
<1>3. ss[s].cols \in Seq(Columns)
  BY <1>2 DEF SchemaRecords
<1>4. c \in Columns
  BY <1>1, <1>3, ElementOfSeq
<1> QED
  BY <1>4 DEF Columns, Kinds

\* There may be more schemas; of those there are, the open ones may get columns
\* and subscribers.
Grows(new, old) ==
  /\ DOMAIN old \subseteq DOMAIN new
  /\ Placed(old) \subseteq Placed(new)
  /\ \A s \in DOMAIN old :
       /\ new[s].name = old[s].name /\ new[s].final = old[s].final
       /\ old[s].final => new[s].cols = old[s].cols

\* What a step does to databases: nothing but subscribe to targets of new keys.
KeepsDatabases ==
  /\ dbs' = dbs
  /\ Grows(schemas', schemas)
  /\ DOMAIN keys \subseteq DOMAIN keys' /\ \A k \in DOMAIN keys : keys'[k] = keys[k]
  /\ \A s \in DOMAIN schemas \ Targets : schemas'[s].subs = schemas[s].subs

\* What a step that succeeds does to the rest.
KeepsSound ==
  /\ Core(schemas', keys', data', pending')
  /\ layers' \in Seq(DOMAIN schemas') /\ tables' \in Seq(DOMAIN schemas')
  /\ nodes' \subseteq DOMAIN schemas'
  /\ RangeOf(tables) \subseteq RangeOf(tables')
  /\ \A s \in DOMAIN schemas' \ DOMAIN schemas : ~schemas'[s].final
  /\ Roots(keys, data) \subseteq Roots(keys', data')
  /\ \A n \in Names : \A c \in RangeOf(pending[n]) :
       c \in RangeOf(pending'[n]) \/ Tabled(n, c, tables', schemas')
  /\ \A h \in handed' : h \notin handed =>
       /\ h[1] \in Names /\ h[2] \in Roots(keys', data')
       /\ h[2] \in RangeOf(pending'[h[1]]) \/ Tabled(h[1], h[2], tables', schemas')
  /\ \A s \in DOMAIN schemas' : \A k \in schemas'[s].subs :
       \/ s \in DOMAIN schemas /\ k \in schemas[s].subs
       \/ k \in DOMAIN keys' /\ Somewhere(KeyColumn(k), pending', schemas')
  /\ \A k \in DOMAIN keys' \ DOMAIN keys :
       RangeOf(keys'[k]) \subseteq Targets /\ Somewhere(KeyColumn(k), pending', schemas')

\* A column in a table stays there.
LEMMA StaysTabled ==
  ASSUME NEW n, NEW c, NEW ts, NEW ss, Tabled(n, c, ts, ss), RangeOf(ts) \subseteq DOMAIN ss,
         NEW more, RangeOf(ts) \subseteq RangeOf(more), NEW new, Grows(new, ss)
  PROVE  Tabled(n, c, more, new)
<1>1. PICK s \in RangeOf(ts) : ss[s].name = n /\ <<s, c>> \in Placed(ss)
  BY DEF Tabled
<1>2. new[s].name = n /\ <<s, c>> \in Placed(new)
  BY <1>1 DEF Grows
<1> QED
  BY <1>1, <1>2 DEF Tabled

LEMMA SoundAfter ==
  ASSUME Sound, KeepsDatabases, KeepsSound
  PROVE  Sound'
<1>1. /\ tables \in Seq(DOMAIN schemas)
      /\ HandedFound(handed, keys, data, pending, tables, schemas)
      /\ DatabasesFinal(dbs, schemas)
  BY DEF Sound
<1>2. dbs' = dbs /\ Grows(schemas', schemas)
  BY DEF KeepsDatabases
<1>3. /\ RangeOf(tables) \subseteq RangeOf(tables')
      /\ Roots(keys, data) \subseteq Roots(keys', data')
      /\ \A n \in Names : \A c \in RangeOf(pending[n]) :
           c \in RangeOf(pending'[n]) \/ Tabled(n, c, tables', schemas')
  BY DEF KeepsSound
<1>4. RangeOf(tables) \subseteq DOMAIN schemas
  BY <1>1, ElementOfSeq DEF RangeOf
<1>5. HandedFound(handed', keys', data', pending', tables', schemas')
  <2> SUFFICES ASSUME NEW h \in handed'
               PROVE  /\ h[1] \in Names /\ h[2] \in Roots(keys', data')
                      /\ \/ h[2] \in RangeOf(pending'[h[1]])
                         \/ Tabled(h[1], h[2], tables', schemas')
    BY DEF HandedFound
  <2>1. CASE h \notin handed
    BY <2>1 DEF KeepsSound
  <2>2. CASE h \in handed
    <3>1. /\ h[1] \in Names /\ h[2] \in Roots(keys, data)
          /\ h[2] \in RangeOf(pending[h[1]]) \/ Tabled(h[1], h[2], tables, schemas)
      BY <1>1, <2>2 DEF HandedFound
    <3>2. Tabled(h[1], h[2], tables, schemas) => Tabled(h[1], h[2], tables', schemas')
      BY <1>2, <1>3, <1>4, StaysTabled
    <3> QED
      BY <1>3, <3>1, <3>2
  <2> QED
    BY <2>1, <2>2
<1>6. DatabasesFinal(dbs', schemas')
  BY <1>1, <1>2 DEF DatabasesFinal, Grows
<1>7. /\ Core(schemas', keys', data', pending')
      /\ layers' \in Seq(DOMAIN schemas') /\ tables' \in Seq(DOMAIN schemas')
      /\ nodes' \subseteq DOMAIN schemas'
  BY DEF KeepsSound
<1> QED
  BY <1>5, <1>6, <1>7 DEF Sound

\* A column that waited is in an open schema where it does not wait any more: those
\* of databases get no columns.
LEMMA StaysSomewhere ==
  ASSUME Sound, KeepsDatabases, KeepsSound, NEW c, Somewhere(c, pending, schemas)
  PROVE  Somewhere(c, pending', schemas')
<1>1. Grows(schemas', schemas)
  BY DEF KeepsDatabases
<1>2. /\ \A s \in DOMAIN schemas' \ DOMAIN schemas : ~schemas'[s].final
      /\ \A n \in Names : \A x \in RangeOf(pending[n]) :
           x \in RangeOf(pending'[n]) \/ Tabled(n, x, tables', schemas')
      /\ tables' \in Seq(DOMAIN schemas')
  BY DEF KeepsSound
<1>3. Waiting(pending, Placed(schemas))
  BY DEF Sound, Core
<1>4. CASE \E t \in Open(schemas) : <<t, c>> \in Placed(schemas)
  <2>1. PICK t \in Open(schemas) : <<t, c>> \in Placed(schemas)
    BY <1>4
  <2>2. t \in Open(schemas') /\ <<t, c>> \in Placed(schemas')
    BY <1>1, <2>1 DEF Grows, Open
  <2> QED
    BY <2>2 DEF Somewhere
<1>5. CASE \E n \in Names : c \in RangeOf(pending[n])
  <2>1. PICK n \in Names : c \in RangeOf(pending[n])
    BY <1>5
  <2>2. CASE c \in RangeOf(pending'[n])
    BY <2>2 DEF Somewhere
  <2>3. CASE Tabled(n, c, tables', schemas')
    <3>1. PICK t \in RangeOf(tables') : <<t, c>> \in Placed(schemas')
      BY <2>3 DEF Tabled
    <3>2. t \in DOMAIN schemas'
      BY <3>1, PlacedIs
    <3>3. ASSUME schemas'[t].final PROVE FALSE
      <4>1. t \in DOMAIN schemas
        BY <1>2, <3>2, <3>3
      <4>2. schemas'[t].cols = schemas[t].cols
        BY <1>1, <3>3, <4>1 DEF Grows
      <4>3. <<t, c>> \in Placed(schemas)
        BY <3>1, <4>1, <4>2, PlacedIs
      <4>4. PICK i \in DOMAIN pending[n] : pending[n][i] = c
        BY <2>1 DEF RangeOf
      <4>5. <<t, c>>[2] = c
        OBVIOUS
      <4> QED
        BY <1>3, <4>3, <4>4, <4>5 DEF Waiting
    <3>4. t \in Open(schemas')
      BY <3>2, <3>3 DEF Open
    <3> QED
      BY <3>1, <3>4 DEF Somewhere
  <2> QED
    BY <1>2, <2>1, <2>2, <2>3
<1> QED
  BY <1>4, <1>5 DEF Somewhere

LEMMA RuledAfter ==
  ASSUME Sound, Ruled, Rules = AllRules, KeepsDatabases, KeepsSound
  PROVE  Ruled'
<1>1. SubscribersFound(keys, pending, schemas) /\ KeysFound(keys, pending, schemas)
  BY DEF Ruled
<1>2. /\ Grows(schemas', schemas)
      /\ DOMAIN keys \subseteq DOMAIN keys' /\ \A k \in DOMAIN keys : keys'[k] = keys[k]
  BY DEF KeepsDatabases
<1>3. Open(schemas) \subseteq Open(schemas')
  BY <1>2 DEF Grows, Open
<1>4. Targets \subseteq Open(schemas)
  <2>1. schemas \in Seq(SchemaRecords)
    BY DEF Sound, Core
  <2> QED
    BY <2>1, LenProperties DEF Targets, Schemas, Open, AllRules
<1>5. \A c : Somewhere(c, pending, schemas) => Somewhere(c, pending', schemas')
  BY StaysSomewhere
<1>6. SubscribersFound(keys', pending', schemas')
  <2> SUFFICES ASSUME NEW s \in Open(schemas'), NEW k \in schemas'[s].subs
               PROVE  k \in DOMAIN keys' /\ Somewhere(KeyColumn(k), pending', schemas')
    BY DEF SubscribersFound
  <2>1. s \in DOMAIN schemas' /\ ~schemas'[s].final
    BY DEF Open
  <2>2. \/ s \in DOMAIN schemas /\ k \in schemas[s].subs
        \/ k \in DOMAIN keys' /\ Somewhere(KeyColumn(k), pending', schemas')
    BY <2>1 DEF KeepsSound
  <2>3. CASE s \in DOMAIN schemas /\ k \in schemas[s].subs
    <3>1. s \in Open(schemas)
      BY <1>2, <2>1, <2>3 DEF Grows, Open
    <3>2. k \in DOMAIN keys /\ Somewhere(KeyColumn(k), pending, schemas)
      BY <1>1, <2>3, <3>1 DEF SubscribersFound
    <3> QED
      BY <1>2, <1>5, <3>2
  <2> QED
    BY <2>2, <2>3
<1>7. KeysFound(keys', pending', schemas')
  <2> SUFFICES ASSUME NEW k \in DOMAIN keys'
               PROVE  \/ /\ RangeOf(keys'[k]) \subseteq Open(schemas')
                         /\ Somewhere(KeyColumn(k), pending', schemas')
                      \/ \E t \in DOMAIN schemas' :
                           schemas'[t].final /\ <<t, KeyColumn(k)>> \in Placed(schemas')
    BY DEF KeysFound
  <2>1. CASE k \notin DOMAIN keys
    <3>1. RangeOf(keys'[k]) \subseteq Targets /\ Somewhere(KeyColumn(k), pending', schemas')
      BY <2>1 DEF KeepsSound
    <3> QED
      BY <1>3, <1>4, <3>1
  <2>2. CASE k \in DOMAIN keys
    <3>1. keys'[k] = keys[k]
      BY <1>2, <2>2
    <3>2. CASE RangeOf(keys[k]) \subseteq Open(schemas) /\ Somewhere(KeyColumn(k), pending, schemas)
      BY <1>3, <1>5, <3>1, <3>2
    <3>3. CASE \E t \in DOMAIN schemas : schemas[t].final /\ <<t, KeyColumn(k)>> \in Placed(schemas)
      BY <1>2, <3>3 DEF Grows
    <3> QED
      BY <1>1, <2>2, <3>2, <3>3 DEF KeysFound
  <2> QED
    BY <2>1, <2>2
<1> QED
  BY <1>6, <1>7 DEF Ruled

(***************************************************************************)
(* Databases.                                                              *)
(***************************************************************************)
\* KeysComplete, of the pairs.
Complete(ss, ks, ds) ==
  \A d \in ds : \A s \in RangeOf(d) : \A c : <<s, c>> \in Placed(ss) =>
    /\ c.kind = "key" =>
         /\ <<s, Injected("next", c.of, 0)>> \in Placed(ss)
         /\ <<s, Injected("prev", c.of, 0)>> \in Placed(ss)
         /\ Len(ks[c.of]) > 1 => <<s, Injected("type", c.of, 0)>> \in Placed(ss)
         /\ \A i \in DOMAIN ks[c.of] :
              /\ <<ks[c.of][i], Injected("head", c.of, i)>> \in Placed(ss)
              /\ TrackCounts => <<ks[c.of][i], Injected("count", c.of, i)>> \in Placed(ss)
    /\ c.kind \in {"next", "prev", "type"} => <<s, KeyColumn(c.of)>> \in Placed(ss)
    /\ c.kind \in {"head", "count"} => ks[c.of][c.type] = s

\* TargetsPresent, of the pairs.
TargetsInside(ss, ks, ds) ==
  \A d \in ds : \A s \in RangeOf(d) : \A k : <<s, KeyColumn(k)>> \in Placed(ss) =>
    RangeOf(ks[k]) \subseteq RangeOf(d)

\* SubscribersPresent, of the pairs.
Present(ss, ds) ==
  \A d \in ds : \A s \in RangeOf(d) : \A k \in ss[s].subs :
    \E t \in RangeOf(d) : <<t, KeyColumn(k)>> \in Placed(ss)

\* What came along is what its kind says, for the key it came with.
LEMMA CameWith ==
  ASSUME NEW ks, NEW s, NEW k, NEW p \in Along(ks, s, k)
  PROVE  /\ p[2].of = k
         /\ \/ p[1] = s /\ p[2].kind \in {"next", "prev", "type", "untyped"}
            \/ /\ p[2].kind \in {"head", "count"}
               /\ p[2].type \in DOMAIN ks[k] /\ p[1] = ks[k][p[2].type]
<1>1. \A kind, i : /\ Injected(kind, k, i).kind = kind /\ Injected(kind, k, i).of = k
                   /\ Injected(kind, k, i).type = i
  BY DEF Injected
<1>2. \/ \E kind \in {"next", "prev", "type", "untyped"} : p = <<s, Injected(kind, k, 0)>>
      \/ \E kind \in {"head", "count"} : \E i \in DOMAIN ks[k] :
           p = <<ks[k][i], Injected(kind, k, i)>>
  BY DEF Along
<1>3. CASE \E kind \in {"next", "prev", "type", "untyped"} : p = <<s, Injected(kind, k, 0)>>
  BY <1>1, <1>3
<1>4. CASE \E kind \in {"head", "count"} : \E i \in DOMAIN ks[k] :
             p = <<ks[k][i], Injected(kind, k, i)>>
  BY <1>1, <1>4
<1> QED
  BY <1>2, <1>3, <1>4

\* Whole schemas have all that keys bring along where it belongs.
LEMMA CompleteIs ==
  ASSUME NEW ss, NEW ks, NEW d, NEW waits, Core(ss, ks, d, waits), NEW ds
  PROVE  Complete(ss, ks, ds)
<1> SUFFICES ASSUME NEW s, NEW c, <<s, c>> \in Placed(ss)
             PROVE  /\ c.kind = "key" =>
                         /\ <<s, Injected("next", c.of, 0)>> \in Placed(ss)
                         /\ <<s, Injected("prev", c.of, 0)>> \in Placed(ss)
                         /\ Len(ks[c.of]) > 1 => <<s, Injected("type", c.of, 0)>> \in Placed(ss)
                         /\ \A i \in DOMAIN ks[c.of] :
                              /\ <<ks[c.of][i], Injected("head", c.of, i)>> \in Placed(ss)
                              /\ TrackCounts =>
                                   <<ks[c.of][i], Injected("count", c.of, i)>> \in Placed(ss)
                    /\ c.kind \in {"next", "prev", "type"} => <<s, KeyColumn(c.of)>> \in Placed(ss)
                    /\ c.kind \in {"head", "count"} => ks[c.of][c.type] = s
  BY DEF Complete
<1> DEFINE p == <<s, c>>
<1>1. p \in Placed(ss) /\ p[1] = s /\ p[2] = c
  OBVIOUS
<1> HIDE DEF p
<1>2. /\ ks \in Seq(Seq(DOMAIN ss)) /\ d \in Nat /\ Whole(Placed(ss), ks, d)
  BY DEF Core
<1>3. DOMAIN ks \in SUBSET Nat
  BY <1>2, LenProperties
<1>4. PICK q \in Placed(ss) : q[2] = RootOf(c) /\ p \in Brought(ks, q[1], q[2])
  BY <1>1, <1>2 DEF Whole
<1>5. RootOf(c) \in Roots(ks, d)
  BY <1>1, <1>2 DEF Whole
<1>6. CASE p = <<q[1], q[2]>>
  <2>1. c = RootOf(c)
    BY <1>1, <1>4, <1>6
  <2>2. c \in Roots(ks, d) /\ c.kind \in {"data", "key"}
    BY <1>2, <1>3, <1>5, <2>1, RootsAre
  <2>3. Brought(ks, s, c) \subseteq Placed(ss)
    BY <1>1, <1>2, <2>2 DEF Whole
  <2>4. c.kind = "key" => Along(ks, s, c.of) \subseteq Placed(ss)
    BY <2>3 DEF Brought
  <2>5. ASSUME c.kind = "key", TrackCounts PROVE CountsTyped
    <3> SUFFICES ASSUME ~CountsTyped PROVE FALSE
      OBVIOUS
    <3>1. <<s, Injected("untyped", c.of, 0)>> \in Placed(ss)
      BY <2>4, <2>5 DEF Along
    <3>2. Injected("untyped", c.of, 0).kind = "untyped"
      BY DEF Injected
    <3>3. ss \in Seq(SchemaRecords)
      BY DEF Core
    <3> QED
      BY <3>1, <3>2, <3>3, PlacedColumns
  <2> QED
    BY <2>2, <2>4, <2>5 DEF Along
<1>7. CASE p # <<q[1], q[2]>>
  <2>1. q[2].kind = "key" /\ p \in Along(ks, q[1], q[2].of)
    BY <1>4, <1>7 DEF Brought
  <2>2. /\ c.of = q[2].of
        /\ \/ s = q[1] /\ c.kind \in {"next", "prev", "type"}
           \/ c.kind \in {"head", "count"} /\ s = ks[c.of][c.type]
    <3>1. ss \in Seq(SchemaRecords)
      BY DEF Core
    <3>2. c.kind # "untyped"
      BY <3>1, PlacedColumns
    <3> QED
      BY <1>1, <2>1, <3>2, CameWith
  <2>3. RootOf(c) = KeyColumn(c.of)
    BY <2>2 DEF RootOf
  <2>4. q = <<q[1], q[2]>>
    BY InPlaced
  <2>5. c.kind \in {"next", "prev", "type"} => <<s, KeyColumn(c.of)>> \in Placed(ss)
    BY <1>4, <2>2, <2>3, <2>4
  <2> QED
    BY <2>2, <2>5
<1> QED
  BY <1>6, <1>7

\* Steps that leave databases alone keep them complete.
LEMMA CompleteStays ==
  ASSUME NEW ss, NEW ks, NEW d, NEW waits, Core(ss, ks, d, waits), NEW ds, DatabasesFinal(ds, ss),
         NEW new, Grows(new, ss),
         NEW more, \A k \in DOMAIN ks : more[k] = ks[k]
  PROVE  /\ Complete(new, more, ds)
         /\ TargetsInside(ss, ks, ds) => TargetsInside(new, more, ds)
<1>1. Complete(ss, ks, ds)
  BY CompleteIs
<1>2. /\ ks \in Seq(Seq(DOMAIN ss)) /\ d \in Nat /\ Whole(Placed(ss), ks, d)
  BY DEF Core
<1>3. ASSUME NEW s \in DOMAIN ss, ss[s].final, NEW c, <<s, c>> \in Placed(new)
      PROVE  <<s, c>> \in Placed(ss)
  <2>1. new[s].cols = ss[s].cols /\ s \in DOMAIN new
    BY <1>3 DEF Grows
  <2> QED
    BY <1>3, <2>1, PlacedIs
<1>4. \A e \in ds : \A s \in RangeOf(e) : s \in DOMAIN ss /\ ss[s].final
  BY DEF DatabasesFinal, RangeOf
<1>5. \A p \in Placed(ss) : p[2].kind # "data" => p[2].of \in DOMAIN ks
  <2> SUFFICES ASSUME NEW p \in Placed(ss), p[2].kind # "data" PROVE p[2].of \in DOMAIN ks
    OBVIOUS
  <2>1. RootOf(p[2]) = KeyColumn(p[2].of)
    BY DEF RootOf
  <2> QED
    BY <1>2, <2>1, KeyColumnIs DEF Whole
<1>6. ASSUME TargetsInside(ss, ks, ds) PROVE TargetsInside(new, more, ds)
  <2> SUFFICES ASSUME NEW e \in ds, NEW s \in RangeOf(e), NEW k, <<s, KeyColumn(k)>> \in Placed(new)
               PROVE  RangeOf(more[k]) \subseteq RangeOf(e)
    BY DEF TargetsInside
  <2>1. <<s, KeyColumn(k)>> \in Placed(ss)
    BY <1>3, <1>4
  <2>2. k \in DOMAIN ks
    <3>1. <<s, KeyColumn(k)>>[2].kind # "data" /\ <<s, KeyColumn(k)>>[2].of = k
      BY DEF KeyColumn
    <3> QED
      BY <1>5, <2>1, <3>1
  <2> QED
    BY <1>6, <2>1, <2>2 DEF TargetsInside
<1> SUFFICES ASSUME NEW e \in ds, NEW s \in RangeOf(e), NEW c, <<s, c>> \in Placed(new)
             PROVE  /\ c.kind = "key" =>
                         /\ <<s, Injected("next", c.of, 0)>> \in Placed(new)
                         /\ <<s, Injected("prev", c.of, 0)>> \in Placed(new)
                         /\ Len(more[c.of]) > 1 => <<s, Injected("type", c.of, 0)>> \in Placed(new)
                         /\ \A i \in DOMAIN more[c.of] :
                              /\ <<more[c.of][i], Injected("head", c.of, i)>> \in Placed(new)
                              /\ TrackCounts =>
                                   <<more[c.of][i], Injected("count", c.of, i)>> \in Placed(new)
                    /\ c.kind \in {"next", "prev", "type"} => <<s, KeyColumn(c.of)>> \in Placed(new)
                    /\ c.kind \in {"head", "count"} => more[c.of][c.type] = s
  BY <1>6 DEF Complete
<1>7. <<s, c>> \in Placed(ss)
  BY <1>3, <1>4
<1>8. c.kind # "data" => more[c.of] = ks[c.of]
  <2>1. <<s, c>>[2] = c
    OBVIOUS
  <2> QED
    BY <1>5, <1>7, <2>1
<1>9. Placed(ss) \subseteq Placed(new)
  BY DEF Grows
<1>10. c.kind \in {"key", "head", "count"} => c.kind # "data"
  OBVIOUS
<1> QED
  BY <1>1, <1>7, <1>8, <1>9, <1>10 DEF Complete

\* Subscribers stay where nobody subscribes to tables of databases.
LEMMA PresentStays ==
  ASSUME NEW ss, NEW ds, DatabasesFinal(ds, ss), Present(ss, ds), NEW new, Grows(new, ss),
         \A s \in DOMAIN ss : ss[s].final => new[s].subs = ss[s].subs
  PROVE  Present(new, ds)
<1> SUFFICES ASSUME NEW d \in ds, NEW s \in RangeOf(d), NEW k \in new[s].subs
             PROVE  \E t \in RangeOf(d) : <<t, KeyColumn(k)>> \in Placed(new)
  BY DEF Present
<1>1. s \in DOMAIN ss /\ ss[s].final
  BY DEF DatabasesFinal, RangeOf
<1>2. k \in ss[s].subs /\ Placed(ss) \subseteq Placed(new)
  BY <1>1 DEF Grows
<1> QED
  BY <1>2 DEF Present

\* The whole invariant: what databases have outlives a failure.
Inv ==
  /\ Complete(schemas, keys, dbs)
  /\ DatabasesFinal(dbs, schemas)
  /\ outcome # "failed" => Sound
  /\ Rules = AllRules =>
       /\ TargetsInside(schemas, keys, dbs) /\ Present(schemas, dbs)
       /\ outcome # "failed" => Ruled

LEMMA InvAfter ==
  ASSUME Sound, Inv, Running, KeepsDatabases, outcome' = "failed" \/ KeepsSound
  PROVE  Inv'
<1>1. Core(schemas, keys, data, pending) /\ DatabasesFinal(dbs, schemas)
  BY DEF Sound
<1>2. /\ dbs' = dbs /\ Grows(schemas', schemas)
      /\ \A k \in DOMAIN keys : keys'[k] = keys[k]
      /\ \A s \in DOMAIN schemas \ Targets : schemas'[s].subs = schemas[s].subs
  BY DEF KeepsDatabases
<1>3. /\ Complete(schemas', keys', dbs')
      /\ TargetsInside(schemas, keys, dbs) => TargetsInside(schemas', keys', dbs')
  <2>1. /\ Complete(schemas', keys', dbs)
        /\ TargetsInside(schemas, keys, dbs) => TargetsInside(schemas', keys', dbs)
    BY <1>1, <1>2, CompleteStays
  <2> QED
    BY <1>2, <2>1
<1>4. DatabasesFinal(dbs', schemas')
  BY <1>1, <1>2 DEF DatabasesFinal, Grows
<1>5. outcome' # "failed" => Sound'
  BY SoundAfter
<1>6. ASSUME Rules = AllRules
      PROVE  /\ TargetsInside(schemas', keys', dbs') /\ Present(schemas', dbs')
             /\ outcome' # "failed" => Ruled'
  <2>1. TargetsInside(schemas, keys, dbs) /\ Present(schemas, dbs) /\ Ruled
    BY <1>6 DEF Inv, Running
  <2>2. \A s \in DOMAIN schemas : schemas[s].final => schemas'[s].subs = schemas[s].subs
    BY <1>2, <1>6 DEF Targets, AllRules
  <2>3. Present(schemas', dbs)
    BY <1>1, <1>2, <2>1, <2>2, PresentStays
  <2>4. outcome' # "failed" => Ruled'
    BY <1>6, <2>1, RuledAfter
  <2> QED
    BY <1>2, <1>3, <2>1, <2>3, <2>4
<1> QED
  BY <1>3, <1>4, <1>5, <1>6 DEF Inv

(***************************************************************************)
(* The actions.                                                            *)
(***************************************************************************)
LEMMA GrowsTwice ==
  ASSUME NEW a, NEW b, NEW c, Grows(b, a), Grows(c, b)
  PROVE  Grows(c, a)
BY DEF Grows

LEMMA ExtendsGrows ==
  ASSUME NEW new, NEW old, Extends(new, old)
  PROVE  Grows(new, old) /\ DOMAIN new = DOMAIN old /\ \A s \in DOMAIN old : new[s].subs = old[s].subs
BY DEF Extends, Grows

\* What the parts of the invariant say of the variables.
LEMMA SoundFacts ==
  ASSUME Sound
  PROVE  /\ Core(schemas, keys, data, pending)
         /\ schemas \in Seq(SchemaRecords) /\ keys \in Seq(Seq(DOMAIN schemas)) /\ data \in Nat
         /\ pending \in [Names -> Seq(Roots(keys, data))]
         /\ Schemas = DOMAIN schemas
         /\ layers \in Seq(DOMAIN schemas) /\ tables \in Seq(DOMAIN schemas)
         /\ nodes \subseteq DOMAIN schemas
         /\ Grows(schemas, schemas)
<1>1. /\ Core(schemas, keys, data, pending)
      /\ layers \in Seq(DOMAIN schemas) /\ tables \in Seq(DOMAIN schemas)
      /\ nodes \subseteq DOMAIN schemas
  BY DEF Sound
<1>2. /\ schemas \in Seq(SchemaRecords) /\ keys \in Seq(Seq(DOMAIN schemas)) /\ data \in Nat
      /\ pending \in [Names -> Seq(Roots(keys, data))]
  BY <1>1 DEF Core
<1>3. Schemas = DOMAIN schemas
  BY <1>2, LenProperties DEF Schemas
<1>4. Grows(schemas, schemas)
  BY DEF Grows
<1> QED
  BY <1>1, <1>2, <1>3, <1>4

\* A new schema without columns, next to those there are.
LEMMA NextSchema ==
  ASSUME NEW ss, NEW ks, NEW d, NEW waits, Core(ss, ks, d, waits), NEW name \in Names
  PROVE  LET new == Append(ss, NewSchema(name, <<>>))
             s == Len(ss) + 1
         IN  /\ Core(new, ks, d, waits)
             /\ new \in Seq(SchemaRecords) /\ s \in Nat /\ s \notin DOMAIN ss
             /\ DOMAIN new = DOMAIN ss \cup {s}
             /\ \A t \in DOMAIN ss : new[t] = ss[t]
             /\ new[s].name = name /\ new[s].subs = {} /\ ~new[s].final
             /\ Grows(new, ss)
<1> DEFINE R == NewSchema(name, <<>>)
           new == Append(ss, R)
           s == Len(ss) + 1
<1>1. ss \in Seq(SchemaRecords)
  BY DEF Core
<1>2. Core(new, ks, d, waits) /\ Placed(new) = Placed(ss)
  BY CoreNewSchema
<1>3. /\ R \in SchemaRecords /\ R.name = name /\ R.subs = {} /\ ~R.final
  <2>1. <<>> \in Seq(Columns)
    OBVIOUS
  <2> QED
    BY <2>1, NewSchemaIs
<1> HIDE DEF R
<1>4. /\ new \in Seq(SchemaRecords) /\ s \in Nat /\ s \notin DOMAIN ss
      /\ DOMAIN new = DOMAIN ss \cup {s}
      /\ \A t \in DOMAIN ss : new[t] = ss[t]
      /\ new[s] = R
  BY <1>1, <1>3, AppendedSchema
<1> HIDE DEF new, s
<1>5. Grows(new, ss)
  BY <1>2, <1>4 DEF Grows
<1> QED
  BY <1>2, <1>3, <1>4, <1>5 DEF new, s, R

\* A sequence of schemas may get one of more schemas.
LEMMA OneMore ==
  ASSUME NEW A, NEW B, A \subseteq B, NEW q \in Seq(A), NEW s \in B
  PROVE  /\ q \in Seq(B) /\ Append(q, s) \in Seq(B)
         /\ RangeOf(Append(q, s)) = RangeOf(q) \cup {s}
<1>1. q \in Seq(B)
  BY SequencesMore
<1> QED
  BY <1>1, RangeOfAppend

\* A layer is replaced or comes last.
LEMMA LayersMore ==
  ASSUME NEW A, NEW B, A \subseteq B, layers \in Seq(A), NEW s \in B, NEW name
  PROVE  WithLayer(name, s) \in Seq(B)
<1>1. layers \in Seq(B) /\ Append(layers, s) \in Seq(B)
  BY OneMore
<1> DEFINE n == Len(layers)
           new == [i \in DOMAIN layers |->
                     IF schemas[layers[i]].name = name THEN s ELSE layers[i]]
<1>2. n \in Nat /\ DOMAIN layers = 1 .. n /\ \A i \in 1 .. n : layers[i] \in B
  BY <1>1, LenProperties, ElementOfSeq
<1> HIDE DEF n
<1>3. new \in [1 .. n -> B]
  BY <1>2
<1>4. new \in Seq(B)
  BY <1>2, <1>3
<1> HIDE DEF new
<1>5. WithLayer(name, s) = new \/ WithLayer(name, s) = Append(layers, s)
  BY DEF WithLayer, new
<1> QED
  BY <1>1, <1>4, <1>5

LEMMA AddNodeLayerKeeps ==
  ASSUME Sound, NEW name \in Names, AddNodeLayer(name)
  PROVE  KeepsDatabases /\ KeepsSound
<1> DEFINE new == Append(schemas, NewSchema(name, <<>>))
           s == Len(schemas) + 1
<1>1. /\ schemas' = new /\ layers' = WithLayer(name, s) /\ nodes' = nodes \cup {s}
      /\ UNCHANGED <<keys, data, tables, pending, handed, dbs>>
  BY DEF AddNodeLayer
<1>2. /\ Core(schemas, keys, data, pending)
      /\ layers \in Seq(DOMAIN schemas) /\ tables \in Seq(DOMAIN schemas)
      /\ nodes \subseteq DOMAIN schemas
  BY SoundFacts
<1>3. /\ Core(new, keys, data, pending)
      /\ s \notin DOMAIN schemas /\ DOMAIN new = DOMAIN schemas \cup {s}
      /\ \A t \in DOMAIN schemas : new[t] = schemas[t]
      /\ new[s].subs = {} /\ ~new[s].final
      /\ Grows(new, schemas)
  BY <1>2, NextSchema
<1> HIDE DEF new, s
<1>4. /\ layers' \in Seq(DOMAIN new) /\ tables' \in Seq(DOMAIN new)
      /\ nodes' \subseteq DOMAIN new
  BY <1>1, <1>2, <1>3, LayersMore, SequencesMore
<1>5. KeepsDatabases
  BY <1>1, <1>3 DEF KeepsDatabases
<1>6. KeepsSound
  <2>1. \A t \in DOMAIN schemas' : \A k \in schemas'[t].subs :
          t \in DOMAIN schemas /\ k \in schemas[t].subs
    BY <1>1, <1>3
  <2>2. \A t \in DOMAIN schemas' \ DOMAIN schemas : ~schemas'[t].final
    BY <1>1, <1>3
  <2> QED
    BY <1>1, <1>3, <1>4, <2>1, <2>2 DEF KeepsSound
<1> QED
  BY <1>5, <1>6

LEMMA EnsureTableKeeps ==
  ASSUME Sound, NEW name \in Names, EnsureTable(name)
  PROVE  KeepsDatabases /\ (outcome' = "failed" \/ KeepsSound)
<1> DEFINE new == Append(schemas, NewSchema(name, <<>>))
           s == Len(schemas) + 1
           result == Flushed(From(new, tables, pending), s)
<1>1. /\ schemas' = result.schemas /\ tables' = result.tables /\ pending' = result.pending
      /\ outcome' = IF result.ok THEN "ok" ELSE "failed"
      /\ UNCHANGED <<keys, data, layers, nodes, handed, dbs>>
  BY DEF EnsureTable, Ended, From
<1>2. /\ Core(schemas, keys, data, pending) /\ keys \in Seq(Seq(DOMAIN schemas)) /\ data \in Nat
      /\ pending \in [Names -> Seq(Roots(keys, data))]
      /\ layers \in Seq(DOMAIN schemas) /\ tables \in Seq(DOMAIN schemas)
      /\ nodes \subseteq DOMAIN schemas
  BY SoundFacts
<1>3. /\ Core(new, keys, data, pending)
      /\ s \notin DOMAIN schemas /\ DOMAIN new = DOMAIN schemas \cup {s}
      /\ \A t \in DOMAIN schemas : new[t] = schemas[t]
      /\ new[s].name = name /\ new[s].subs = {} /\ ~new[s].final
      /\ Grows(new, schemas)
  BY <1>2, NextSchema
<1> HIDE DEF new, s
<1>4. TookWaiting(result, new, tables, pending, keys, data, data, s)
  <2>1. keys \in Seq(Seq(DOMAIN new)) /\ s \in DOMAIN new
    BY <1>2, <1>3, SequencesMore
  <2>2. \A k \in DOMAIN keys : keys[k] = keys[k]
    OBVIOUS
  <2> QED
    BY ONLY <1>2, <1>3, <2>1, <2>2, FlushedIs DEF result
<1> HIDE DEF result
<1>5. /\ Extends(result.schemas, new) /\ result.tables = Append(tables, s)
      /\ result.ok =>
           /\ Core(result.schemas, keys, data, result.pending)
           /\ \A n \in Names : n # name => result.pending[n] = pending[n]
           /\ \A c \in RangeOf(pending[name]) : <<s, c>> \in Placed(result.schemas)
  BY <1>3, <1>4 DEF TookWaiting
<1>6. /\ Grows(result.schemas, new) /\ DOMAIN result.schemas = DOMAIN new
      /\ \A t \in DOMAIN new : result.schemas[t].subs = new[t].subs
  BY <1>5, ExtendsGrows
<1>7. Grows(result.schemas, schemas)
  BY <1>3, <1>6, GrowsTwice
<1>8. /\ layers' \in Seq(DOMAIN new) /\ nodes' \subseteq DOMAIN new
      /\ tables' \in Seq(DOMAIN new) /\ RangeOf(tables') = RangeOf(tables) \cup {s}
  <2>1. DOMAIN schemas \subseteq DOMAIN new /\ s \in DOMAIN new
    BY <1>3
  <2>2. layers \in Seq(DOMAIN new) /\ nodes \subseteq DOMAIN new
    BY <1>2, <2>1, SequencesMore
  <2>3. /\ Append(tables, s) \in Seq(DOMAIN new)
        /\ RangeOf(Append(tables, s)) = RangeOf(tables) \cup {s}
    <3>1. tables \in Seq(DOMAIN schemas)
      BY <1>2
    <3> QED
      BY ONLY <2>1, <3>1, OneMore
  <2> QED
    BY <1>1, <1>5, <2>2, <2>3
<1>9. /\ DOMAIN new \ DOMAIN schemas = {s}
      /\ result.schemas[s].name = name /\ ~result.schemas[s].final
  BY <1>3, <1>6 DEF Grows
<1>10. KeepsDatabases
  BY <1>1, <1>3, <1>6, <1>7 DEF KeepsDatabases
<1>11. ASSUME result.ok PROVE KeepsSound
  <2>1. \A n \in Names : \A c \in RangeOf(pending[n]) :
          c \in RangeOf(pending'[n]) \/ Tabled(n, c, tables', schemas')
    <3> SUFFICES ASSUME NEW n \in Names, NEW c \in RangeOf(pending[n])
                 PROVE  c \in RangeOf(pending'[n]) \/ Tabled(n, c, tables', schemas')
      OBVIOUS
    <3>1. CASE n = name
      BY <1>1, <1>5, <1>8, <1>9, <1>11, <3>1 DEF Tabled
    <3>2. CASE n # name
      BY <1>1, <1>5, <1>11, <3>2
    <3> QED
      BY <3>1, <3>2
  <2>2. \A t \in DOMAIN schemas' : \A k \in schemas'[t].subs :
          t \in DOMAIN schemas /\ k \in schemas[t].subs
    BY <1>1, <1>3, <1>6
  <2> QED
    BY <1>1, <1>5, <1>6, <1>8, <1>9, <1>11, <2>1, <2>2 DEF KeepsSound
<1> QED
  BY <1>1, <1>10, <1>11

\* One column at a time.
LEMMA OneColumn ==
  ASSUME NEW S, NEW c \in S
  PROVE  /\ <<c>> \in Seq(S) /\ DOMAIN <<c>> = {1} /\ <<c>>[1] = c
         /\ Distinct(<<c>>) /\ RangeOf(<<c>>) = {c}
<1>1. <<c>> \in Seq(S) /\ DOMAIN <<c>> = {1} /\ <<c>>[1] = c
  OBVIOUS
<1> DEFINE q == <<c>>
<1>2. DOMAIN q = {1} /\ q[1] = c
  BY <1>1
<1> HIDE DEF q
<1>3. Distinct(q) /\ RangeOf(q) = {c}
  BY <1>2 DEF Distinct, RangeOf
<1> QED
  BY <1>1, <1>3 DEF q

\* A table takes in a new column.
LEMMA TakesOne ==
  ASSUME NEW ss, NEW ks, NEW d, NEW waits, Core(ss, ks, d, waits), NEW s \in DOMAIN ss,
         NEW c \in Roots(ks, d), New(c, ss, waits)
  PROVE  LET result == Registered(ss, Requests(ks, s, <<c>>))
         IN  /\ result.ok \in BOOLEAN
             /\ Extends(result.schemas, ss)
             /\ result.ok => /\ Core(result.schemas, ks, d, waits)
                             /\ <<s, c>> \in Placed(result.schemas)
<1> DEFINE cols == <<c>>
           q == Requests(ks, s, cols)
           result == Registered(ss, q)
<1>1. /\ ss \in Seq(SchemaRecords) /\ ks \in Seq(Seq(DOMAIN ss)) /\ d \in Nat
      /\ waits \in [Names -> Seq(Roots(ks, d))] /\ Waiting(waits, Placed(ss))
  BY DEF Core
<1>2. /\ cols \in Seq(Roots(ks, d)) /\ DOMAIN cols = {1} /\ cols[1] = c
      /\ Distinct(cols) /\ RangeOf(cols) = {c}
  BY OneColumn
<1> HIDE DEF cols
<1>3. Absent(cols, Placed(ss))
  BY <1>2 DEF Absent, New
<1>4. \A n \in Names : \A i \in DOMAIN waits[n] : waits[n][i] \notin RangeOf(cols)
  BY <1>2 DEF New
<1>5. Asks(q, DOMAIN ss, AllBrought(ks, s, cols))
  BY <1>1, <1>2, RequestsAre
<1> HIDE DEF q
<1>6. /\ result.ok \in BOOLEAN
      /\ Extends(result.schemas, ss)
      /\ result.ok => /\ Core(result.schemas, ks, d, waits)
                      /\ Placed(result.schemas) = Placed(ss) \cup AllBrought(ks, s, cols)
  BY <1>1, <1>2, <1>3, <1>4, <1>5, TakesIn
<1>7. <<s, c>> \in AllBrought(ks, s, cols)
  BY <1>2 DEF AllBrought, Brought
<1> HIDE DEF result
<1>8. result.ok => <<s, c>> \in Placed(result.schemas)
  BY <1>6, <1>7
<1> QED
  BY <1>6, <1>8 DEF result, q, cols

\* add_column of a new column, once what comes with it is there.
LEMMA AddColumnKeeps ==
  ASSUME Sound, NEW ss, NEW ks, NEW d, NEW name \in Names, NEW col,
         AddColumn(ss, ks, name, col), data' = d,
         Core(ss, ks, d, pending), New(col, ss, pending), col \in Roots(ks, d),
         Grows(ss, schemas), DOMAIN ss = DOMAIN schemas,
         DOMAIN keys \subseteq DOMAIN ks, \A k \in DOMAIN keys : ks[k] = keys[k],
         Roots(keys, data) \subseteq Roots(ks, d),
         \A s \in DOMAIN ss : \A k \in ss[s].subs :
           k \in schemas[s].subs \/ (k \in DOMAIN ks /\ KeyColumn(k) = col),
         \A s \in DOMAIN ss \ Targets : ss[s].subs = schemas[s].subs,
         \A k \in DOMAIN ks \ DOMAIN keys :
           KeyColumn(k) = col /\ RangeOf(ks[k]) \subseteq Targets
  PROVE  KeepsDatabases /\ (outcome' = "failed" \/ KeepsSound)
<1> DEFINE Good == KeepsDatabases /\ (outcome' = "failed" \/ KeepsSound)
<1>1. /\ keys' = ks /\ handed' = handed \cup {<<name, col>>}
      /\ UNCHANGED <<layers, nodes, tables, dbs>>
  BY DEF AddColumn
<1>2. /\ layers \in Seq(DOMAIN schemas) /\ tables \in Seq(DOMAIN schemas)
      /\ nodes \subseteq DOMAIN schemas
  BY SoundFacts
<1>3. \A h \in handed' : h \notin handed => h[1] = name /\ h[2] = col
  BY <1>1
<1>4. ASSUME NEW new, Grows(new, ss), DOMAIN new = DOMAIN ss,
             \A s \in DOMAIN ss : new[s].subs = ss[s].subs,
             schemas' = new,
             outcome' # "failed" =>
               /\ Core(new, ks, d, pending')
               /\ \A n \in Names : RangeOf(pending[n]) \subseteq RangeOf(pending'[n])
               /\ \/ col \in RangeOf(pending'[name])
                  \/ Tabled(name, col, tables, new)
               /\ Somewhere(col, pending', new)
      PROVE  Good
  <2>1. Grows(new, schemas) /\ DOMAIN new = DOMAIN schemas
    BY <1>4, GrowsTwice
  <2>2. KeepsDatabases
    BY <1>1, <1>4, <2>1 DEF KeepsDatabases
  <2>3. ASSUME outcome' # "failed" PROVE KeepsSound
    <3>1. Somewhere(col, pending', schemas')
      BY <1>4, <2>3
    <3>2. \A k \in DOMAIN keys' \ DOMAIN keys :
            RangeOf(keys'[k]) \subseteq Targets /\ Somewhere(KeyColumn(k), pending', schemas')
      BY <1>1, <3>1
    <3>3. \A s \in DOMAIN schemas' : \A k \in schemas'[s].subs :
            \/ s \in DOMAIN schemas /\ k \in schemas[s].subs
            \/ k \in DOMAIN keys' /\ Somewhere(KeyColumn(k), pending', schemas')
      BY <1>1, <1>4, <3>1
    <3>4. DOMAIN schemas' \ DOMAIN schemas = {}
      BY <1>4, <2>1
    <3>5. \A h \in handed' : h \notin handed =>
            /\ h[1] \in Names /\ h[2] \in Roots(keys', data')
            /\ h[2] \in RangeOf(pending'[h[1]]) \/ Tabled(h[1], h[2], tables', schemas')
      BY <1>1, <1>3, <1>4, <2>3
    <3> QED
      BY <1>1, <1>2, <1>4, <2>1, <2>3, <3>3, <3>4, <3>5, <3>2 DEF KeepsSound
  <2> QED
    BY <2>2, <2>3
<1> HIDE DEF Good
<1>5. ASSUME Named(name) # {} PROVE Good
  <2> DEFINE s == CHOOSE t \in Named(name) : TRUE
             result == Registered(ss, Requests(ks, s, <<col>>))
  <2>1. s \in Named(name)
    BY <1>5
  <2>2. /\ schemas' = result.schemas /\ pending' = pending
        /\ outcome' = IF result.ok THEN "ok" ELSE "failed"
    BY <1>5 DEF AddColumn, Ended
  <2> HIDE DEF s
  <2>3. s \in RangeOf(tables) /\ schemas[s].name = name
    BY <2>1 DEF Named, RangeOf
  <2>4. s \in DOMAIN ss /\ s \in DOMAIN schemas
    BY <1>2, <2>3, ElementOfSeq DEF RangeOf
  <2>5. /\ result.ok \in BOOLEAN
        /\ Extends(result.schemas, ss)
        /\ result.ok => /\ Core(result.schemas, ks, d, pending)
                        /\ <<s, col>> \in Placed(result.schemas)
    BY <2>4, TakesOne
  <2> HIDE DEF result
  <2>6. /\ Grows(result.schemas, ss) /\ DOMAIN result.schemas = DOMAIN ss
        /\ \A t \in DOMAIN ss : result.schemas[t].subs = ss[t].subs
    BY <2>5, ExtendsGrows
  <2>7. result.schemas[s].name = name
    BY <2>3, <2>4, <2>6 DEF Grows
  <2>8. result.ok => Tabled(name, col, tables, result.schemas)
    BY <2>3, <2>5, <2>7 DEF Tabled
  <2>9. result.ok => Somewhere(col, pending, result.schemas)
    <3> SUFFICES ASSUME result.ok PROVE Somewhere(col, pending, result.schemas)
      OBVIOUS
    <3>1. ASSUME result.schemas[s].final PROVE FALSE
      <4>1. ss[s].final
        BY <2>4, <2>6, <3>1 DEF Grows
      <4>2. result.schemas[s].cols = ss[s].cols
        BY <2>4, <2>6, <4>1 DEF Grows
      <4>3. <<s, col>> \in Placed(ss)
        BY <2>4, <2>5, <4>2, PlacedIs
      <4>4. <<s, col>>[2] = col
        OBVIOUS
      <4> QED
        BY <4>3, <4>4 DEF New
    <3>2. s \in Open(result.schemas)
      BY <2>4, <2>6, <3>1 DEF Open
    <3> QED
      BY <2>5, <3>2 DEF Somewhere
  <2> QED
    BY <1>4, <2>2, <2>5, <2>6, <2>8, <2>9
<1>6. ASSUME Named(name) = {} PROVE Good
  <2> DEFINE waits == [pending EXCEPT ![name] = Append(@, col)]
  <2>1. schemas' = ss /\ pending' = waits
    BY <1>6 DEF AddColumn
  <2>2. /\ Core(ss, ks, d, waits)
        /\ RangeOf(waits[name]) = RangeOf(pending[name]) \cup {col}
        /\ \A n \in Names : n # name => waits[n] = pending[n]
    <3>1. Core(ss, ks, d, pending) /\ New(col, ss, pending) /\ col \in Roots(ks, d) /\ name \in Names
      OBVIOUS
    <3>2. OneMoreWaits(waits, ss, ks, d, pending, col, name)
      BY ONLY <3>1, CoreWaits DEF waits
    <3> QED
      BY ONLY <3>2 DEF OneMoreWaits
  <2> HIDE DEF waits
  <2>3. Grows(ss, ss)
    BY DEF Grows
  <2>4. \A n \in Names : RangeOf(pending[n]) \subseteq RangeOf(waits[n])
    BY <2>2
  <2>5. col \in RangeOf(waits[name]) /\ Somewhere(col, waits, ss)
    BY <2>2 DEF Somewhere
  <2> QED
    BY <1>4, <2>1, <2>2, <2>3, <2>4, <2>5
<1> QED
  BY <1>5, <1>6 DEF Good

LEMMA AddDataColumnKeeps ==
  ASSUME Sound, NEW name \in Names, AddDataColumn(name)
  PROVE  KeepsDatabases /\ (outcome' = "failed" \/ KeepsSound)
<1>1. data' = data + 1 /\ AddColumn(schemas, keys, name, DataColumn(data + 1))
  BY DEF AddDataColumn
<1>2. Core(schemas, keys, data, pending) /\ Grows(schemas, schemas)
  BY SoundFacts
<1>3. /\ Core(schemas, keys, data + 1, pending)
      /\ DataColumn(data + 1) \in Roots(keys, data + 1)
      /\ Roots(keys, data) \subseteq Roots(keys, data + 1)
      /\ New(DataColumn(data + 1), schemas, pending)
  BY <1>2, CoreNewData
<1>4. \A s \in DOMAIN schemas : \A k \in schemas[s].subs : k \in schemas[s].subs
  OBVIOUS
<1>5. \A s \in DOMAIN schemas \ Targets : schemas[s].subs = schemas[s].subs
  OBVIOUS
<1>6. \A k \in DOMAIN keys \ DOMAIN keys :
        KeyColumn(k) = DataColumn(data + 1) /\ RangeOf(keys[k]) \subseteq Targets
  OBVIOUS
<1> QED
  BY <1>1, <1>2, <1>3, <1>4, <1>5, <1>6, AddColumnKeeps

\* There is one more key, k, that subscribed to its targets.
KeyMade(new, more, k, targets, ss, ks, d, waits) ==
  /\ Core(new, more, d, waits)
  /\ k \in Nat /\ k \notin DOMAIN ks /\ DOMAIN more = DOMAIN ks \cup {k}
  /\ \A j \in DOMAIN ks : more[j] = ks[j]
  /\ KeyColumn(k) \in Roots(more, d) /\ Roots(ks, d) \subseteq Roots(more, d)
  /\ New(KeyColumn(k), new, waits)
  /\ Grows(new, ss) /\ DOMAIN new = DOMAIN ss /\ Placed(new) = Placed(ss)
  /\ \A s \in DOMAIN ss : new[s].subs \subseteq ss[s].subs \cup {k}
  /\ \A s \in DOMAIN ss : s \notin RangeOf(targets) => new[s].subs = ss[s].subs

LEMMA NewKey ==
  ASSUME NEW ss, NEW ks, NEW d, NEW waits, Core(ss, ks, d, waits),
         NEW targets \in Seq(DOMAIN ss)
  PROVE  KeyMade(Subscribed(ss, Len(ks) + 1, targets), Append(ks, targets), Len(ks) + 1,
                 targets, ss, ks, d, waits)
<1> DEFINE k == Len(ks) + 1
           more == Append(ks, targets)
           new == Subscribed(ss, k, targets)
<1>1. /\ Core(ss, more, d, waits)
      /\ k \in Nat /\ k \notin DOMAIN ks /\ DOMAIN more = DOMAIN ks \cup {k}
      /\ \A j \in DOMAIN ks : more[j] = ks[j]
      /\ KeyColumn(k) \in Roots(more, d) /\ Roots(ks, d) \subseteq Roots(more, d)
      /\ New(KeyColumn(k), ss, waits)
  BY CoreNewKey
<1> HIDE DEF k, more
<1>2. /\ SameColumns(new, ss)
      /\ \A s \in DOMAIN ss :
           /\ new[s].name = ss[s].name /\ new[s].final = ss[s].final
           /\ new[s].subs \subseteq ss[s].subs \cup {k}
           /\ s \notin RangeOf(targets) => new[s] = ss[s]
  <2>1. ss \in Seq(SchemaRecords)
    BY DEF Core
  <2> QED
    BY <1>1, <2>1, SubscribedIs
<1> HIDE DEF new
<1>3. Core(new, more, d, waits) /\ Placed(new) = Placed(ss)
  BY <1>1, <1>2, CoreSameColumns
<1>4. DOMAIN new = DOMAIN ss
  BY <1>2 DEF SameColumns
<1>5. Grows(new, ss)
  BY <1>2, <1>3, <1>4 DEF Grows, SameColumns
<1>6. New(KeyColumn(k), new, waits)
  BY <1>1, <1>3 DEF New
<1> QED
  BY <1>1, <1>2, <1>3, <1>4, <1>5, <1>6 DEF k, more, new, KeyMade

\* The targets that a key may have.
LEMMA TargetListsAre ==
  ASSUME Sound, NEW ts \in TargetLists
  PROVE  ts \in Seq(DOMAIN schemas) /\ RangeOf(ts) \subseteq Targets
<1>1. \A s \in Targets : s \in DOMAIN schemas
  BY SoundFacts DEF Targets
<1>2. CASE \E s \in Targets : ts = <<s>>
  <2>1. PICK s \in Targets : ts = <<s>>
    BY <1>2
  <2> QED
    BY <1>1, <2>1, OneColumn
<1>3. CASE \E a, b \in Targets : ts = <<a, b>>
  <2>1. PICK a \in Targets, b \in Targets : ts = <<a, b>>
    BY <1>3
  <2>2. a \in DOMAIN schemas /\ b \in DOMAIN schemas
    BY <1>1
  <2>3. <<a, b>> \in Seq(DOMAIN schemas) /\ DOMAIN <<a, b>> = 1 .. 2
    BY <2>2
  <2>4. \A s \in RangeOf(ts) : s = a \/ s = b
    BY <2>1, <2>3 DEF RangeOf
  <2> QED
    BY <2>1, <2>3, <2>4
<1> QED
  BY <1>2, <1>3 DEF TargetLists

LEMMA NewTargets ==
  ASSUME Sound, NEW ts \in TargetLists
  PROVE  Append(keys, ts)[Len(keys) + 1] = ts
BY SoundFacts, TargetListsAre, AppendProperties

LEMMA AddKeyColumnKeeps ==
  ASSUME Sound, NEW name \in Names, NEW ts \in TargetLists, AddKeyColumn(name, ts)
  PROVE  KeepsDatabases /\ (outcome' = "failed" \/ KeepsSound)
<1> DEFINE k == Len(keys) + 1
           more == Append(keys, ts)
           new == Subscribed(schemas, k, ts)
<1>1. data' = data /\ AddColumn(new, more, name, KeyColumn(k))
  BY DEF AddKeyColumn
<1>2. Core(schemas, keys, data, pending)
  BY SoundFacts
<1>3. more[k] = ts /\ RangeOf(ts) \subseteq Targets
  BY NewTargets, TargetListsAre
<1>4. /\ Core(new, more, data, pending)
      /\ k \in Nat /\ k \notin DOMAIN keys /\ DOMAIN more = DOMAIN keys \cup {k}
      /\ \A j \in DOMAIN keys : more[j] = keys[j]
      /\ KeyColumn(k) \in Roots(more, data) /\ Roots(keys, data) \subseteq Roots(more, data)
      /\ New(KeyColumn(k), new, pending)
      /\ Grows(new, schemas) /\ DOMAIN new = DOMAIN schemas
      /\ \A s \in DOMAIN schemas : new[s].subs \subseteq schemas[s].subs \cup {k}
      /\ \A s \in DOMAIN schemas : s \notin RangeOf(ts) => new[s].subs = schemas[s].subs
  BY <1>2, TargetListsAre, NewKey DEF KeyMade
<1> HIDE DEF k, more, new
<1>5. \A s \in DOMAIN new : \A j \in new[s].subs :
        j \in schemas[s].subs \/ (j \in DOMAIN more /\ KeyColumn(j) = KeyColumn(k))
  BY <1>4
<1>6. DOMAIN keys \subseteq DOMAIN more
  BY <1>4
<1>7. \A j \in DOMAIN more \ DOMAIN keys :
        KeyColumn(j) = KeyColumn(k) /\ RangeOf(more[j]) \subseteq Targets
  BY <1>4, <1>3
<1>8. \A s \in DOMAIN new \ Targets : new[s].subs = schemas[s].subs
  BY <1>3, <1>4
<1> QED
  BY <1>1, <1>4, <1>5, <1>6, <1>7, <1>8, AddColumnKeeps

\* A table takes in two new columns.
LEMMA TakesTwo ==
  ASSUME NEW ss, NEW ks, NEW d, NEW waits, Core(ss, ks, d, waits), NEW s \in DOMAIN ss,
         NEW b \in Roots(ks, d), New(b, ss, waits), NEW c \in Roots(ks, d), New(c, ss, waits),
         b # c
  PROVE  LET result == Registered(ss, Requests(ks, s, <<b, c>>))
         IN  /\ result.ok \in BOOLEAN
             /\ Extends(result.schemas, ss)
             /\ result.ok => /\ Core(result.schemas, ks, d, waits)
                             /\ {<<s, b>>, <<s, c>>} \subseteq Placed(result.schemas)
<1> DEFINE cols == <<b, c>>
           q == Requests(ks, s, cols)
           result == Registered(ss, q)
<1>1. /\ ss \in Seq(SchemaRecords) /\ ks \in Seq(Seq(DOMAIN ss)) /\ d \in Nat
      /\ waits \in [Names -> Seq(Roots(ks, d))] /\ Waiting(waits, Placed(ss))
  BY DEF Core
<1>2. /\ cols \in Seq(Roots(ks, d)) /\ DOMAIN cols = 1 .. 2 /\ cols[1] = b /\ cols[2] = c
  OBVIOUS
<1> HIDE DEF cols
<1>3. \A i \in DOMAIN cols : i = 1 \/ i = 2
  BY <1>2
<1>4. Distinct(cols) /\ \A x \in RangeOf(cols) : x = b \/ x = c
  BY <1>2, <1>3 DEF Distinct, RangeOf
<1>5. Absent(cols, Placed(ss))
  BY <1>2, <1>3 DEF Absent, New
<1>6. \A n \in Names : \A i \in DOMAIN waits[n] : waits[n][i] \notin RangeOf(cols)
  BY <1>4 DEF New
<1>7. Asks(q, DOMAIN ss, AllBrought(ks, s, cols))
  BY <1>1, <1>2, <1>4, RequestsAre
<1> HIDE DEF q
<1>8. /\ result.ok \in BOOLEAN
      /\ Extends(result.schemas, ss)
      /\ result.ok => /\ Core(result.schemas, ks, d, waits)
                      /\ Placed(result.schemas) = Placed(ss) \cup AllBrought(ks, s, cols)
  BY <1>1, <1>2, <1>4, <1>5, <1>6, <1>7, TakesIn
<1>9. {<<s, b>>, <<s, c>>} \subseteq AllBrought(ks, s, cols)
  <2>1. \A i \in DOMAIN cols : <<s, cols[i]>> \in AllBrought(ks, s, cols)
    BY DEF AllBrought, Brought
  <2>2. 1 \in DOMAIN cols /\ 2 \in DOMAIN cols
    BY <1>2
  <2> QED
    BY <1>2, <2>1, <2>2
<1> HIDE DEF result
<1>10. result.ok => {<<s, b>>, <<s, c>>} \subseteq Placed(result.schemas)
  BY <1>8, <1>9
<1> QED
  BY <1>8, <1>10 DEF result, q, cols

\* Nothing that the invariant speaks of changes.
LEMMA NothingKeeps ==
  ASSUME Sound, schemas' = schemas, keys' = keys, data' = data, layers' = layers, nodes' = nodes,
         tables' = tables, pending' = pending, handed' = handed, dbs' = dbs
  PROVE  KeepsDatabases /\ KeepsSound
<1>1. /\ Core(schemas, keys, data, pending) /\ Grows(schemas, schemas)
      /\ layers \in Seq(DOMAIN schemas) /\ tables \in Seq(DOMAIN schemas)
      /\ nodes \subseteq DOMAIN schemas
  BY SoundFacts
<1>2. KeepsDatabases
  BY <1>1 DEF KeepsDatabases
<1>3. KeepsSound
  BY <1>1 DEF KeepsSound
<1> QED
  BY <1>2, <1>3

LEMMA AddEdgeLayerKeeps ==
  ASSUME Sound, NEW name \in Names, NEW source \in Targets, NEW target \in Targets,
         AddEdgeLayer(name, source, target)
  PROVE  KeepsDatabases /\ (outcome' = "failed" \/ KeepsSound)
<1> DEFINE s == Len(schemas) + 1
           k == Len(keys) + 1
           base == Append(schemas, NewSchema(name, <<>>))
           ks1 == Append(keys, <<source>>)
           m1 == Subscribed(base, k, <<source>>)
           l == Len(ks1) + 1
           ks2 == Append(ks1, <<target>>)
           m2 == Subscribed(m1, l, <<target>>)
           result == Registered(m2, Requests(ks2, s, <<KeyColumn(k), KeyColumn(l)>>))
<1>1. /\ Core(schemas, keys, data, pending) /\ keys \in Seq(Seq(DOMAIN schemas))
      /\ layers \in Seq(DOMAIN schemas) /\ tables \in Seq(DOMAIN schemas)
      /\ nodes \subseteq DOMAIN schemas
      /\ source \in DOMAIN schemas /\ target \in DOMAIN schemas
  BY SoundFacts DEF Targets
<1>2. ks1 \in Seq(Seq(DOMAIN schemas)) /\ l = k + 1 /\ keys \o <<<<source>>, <<target>>>> = ks2
  <2>1. <<source>> \in Seq(DOMAIN schemas) /\ <<target>> \in Seq(DOMAIN schemas)
    BY <1>1, OneColumn
  <2>2. /\ ks1 \in Seq(Seq(DOMAIN schemas)) /\ Len(ks1) = Len(keys) + 1 /\ Len(keys) \in Nat
    BY <1>1, <2>1, AppendProperties, LenProperties
  <2>3. keys \o <<<<source>>, <<target>>>> = ks2
    BY <1>1, <2>1
  <2> QED
    BY <2>2, <2>3
<1>3. ks1[k] = <<source>> /\ ks2[l] = <<target>>
  <2>1. <<source>> \in Seq(DOMAIN schemas) /\ <<target>> \in Seq(DOMAIN schemas)
    BY <1>1, OneColumn
  <2> QED
    BY <1>1, <1>2, <2>1, AppendProperties
<1>4. CASE TrackCounts /\ ~CountsTyped
  <2>1. UNCHANGED <<schemas, keys, data, layers, nodes, tables, pending, handed, dbs>>
    BY <1>4 DEF AddEdgeLayer
  <2> QED
    BY <2>1, NothingKeeps
<1>5. ASSUME ~(TrackCounts /\ ~CountsTyped)
      PROVE  /\ schemas' = result.schemas /\ keys' = ks2
             /\ layers' = IF result.ok THEN WithLayer(name, s) ELSE layers
             /\ outcome' = IF result.ok THEN "ok" ELSE "failed"
             /\ UNCHANGED <<data, nodes, tables, pending, handed, dbs>>
  BY <1>2, <1>5 DEF AddEdgeLayer, Ended
<1>6. /\ Core(base, keys, data, pending)
      /\ s \notin DOMAIN schemas /\ DOMAIN base = DOMAIN schemas \cup {s}
      /\ \A t \in DOMAIN schemas : base[t] = schemas[t]
      /\ base[s].subs = {} /\ ~base[s].final
      /\ Grows(base, schemas)
  BY <1>1, NextSchema
<1> HIDE DEF base, s
<1>7. /\ Core(m1, ks1, data, pending)
      /\ k \in Nat /\ k \notin DOMAIN keys /\ DOMAIN ks1 = DOMAIN keys \cup {k}
      /\ \A j \in DOMAIN keys : ks1[j] = keys[j]
      /\ KeyColumn(k) \in Roots(ks1, data) /\ Roots(keys, data) \subseteq Roots(ks1, data)
      /\ New(KeyColumn(k), m1, pending)
      /\ Grows(m1, base) /\ DOMAIN m1 = DOMAIN base
      /\ \A t \in DOMAIN base : m1[t].subs \subseteq base[t].subs \cup {k}
      /\ \A t \in DOMAIN base : t # source => m1[t].subs = base[t].subs
  <2>1. source \in DOMAIN base
    BY <1>1, <1>6
  <2>2. <<source>> \in Seq(DOMAIN base) /\ RangeOf(<<source>>) = {source}
    BY <2>1, OneColumn
  <2>3. Core(base, keys, data, pending)
    BY <1>6
  <2> HIDE DEF m1, ks1, k
  <2>4. KeyMade(m1, ks1, k, <<source>>, base, keys, data, pending)
    BY ONLY <2>2, <2>3, NewKey DEF m1, ks1, k
  <2> QED
    BY <2>2, <2>4 DEF KeyMade
<1> HIDE DEF m1, ks1, k
<1>8. /\ Core(m2, ks2, data, pending)
      /\ l \in Nat /\ l \notin DOMAIN ks1 /\ DOMAIN ks2 = DOMAIN ks1 \cup {l}
      /\ \A j \in DOMAIN ks1 : ks2[j] = ks1[j]
      /\ KeyColumn(l) \in Roots(ks2, data) /\ Roots(ks1, data) \subseteq Roots(ks2, data)
      /\ New(KeyColumn(l), m2, pending)
      /\ Grows(m2, m1) /\ DOMAIN m2 = DOMAIN m1 /\ Placed(m2) = Placed(m1)
      /\ \A t \in DOMAIN m1 : m2[t].subs \subseteq m1[t].subs \cup {l}
      /\ \A t \in DOMAIN m1 : t # target => m2[t].subs = m1[t].subs
  <2>1. target \in DOMAIN m1
    BY <1>1, <1>6, <1>7
  <2>2. <<target>> \in Seq(DOMAIN m1) /\ RangeOf(<<target>>) = {target}
    BY <2>1, OneColumn
  <2>3. Core(m1, ks1, data, pending)
    BY <1>7
  <2> HIDE DEF m2, ks2, l
  <2>4. KeyMade(m2, ks2, l, <<target>>, m1, ks1, data, pending)
    BY ONLY <2>2, <2>3, NewKey DEF m2, ks2, l
  <2> QED
    BY <2>2, <2>4 DEF KeyMade
<1> HIDE DEF m2, ks2, l
<1>9. /\ result.ok \in BOOLEAN
      /\ Extends(result.schemas, m2)
      /\ result.ok => /\ Core(result.schemas, ks2, data, pending)
                      /\ {<<s, KeyColumn(k)>>, <<s, KeyColumn(l)>>} \subseteq Placed(result.schemas)
  <2>1. New(KeyColumn(k), m2, pending)
    BY <1>7, <1>8 DEF New
  <2>2. KeyColumn(k) # KeyColumn(l)
    <3>1. k # l
      BY <1>7, <1>8
    <3> QED
      BY <3>1, KeyColumnIs
  <2>3. s \in DOMAIN m2 /\ KeyColumn(k) \in Roots(ks2, data)
    BY <1>6, <1>7, <1>8
  <2>4. /\ Core(m2, ks2, data, pending) /\ KeyColumn(l) \in Roots(ks2, data)
        /\ New(KeyColumn(l), m2, pending)
    BY <1>8
  <2> QED
    BY ONLY <2>1, <2>2, <2>3, <2>4, TakesTwo DEF result
<1> HIDE DEF result
<1>10. /\ Grows(result.schemas, m2) /\ DOMAIN result.schemas = DOMAIN m2
       /\ \A t \in DOMAIN m2 : result.schemas[t].subs = m2[t].subs
  BY <1>9, ExtendsGrows
<1>11. Grows(result.schemas, base)
  <2>1. Grows(m2, base)
    BY <1>7, <1>8, GrowsTwice
  <2> QED
    BY <1>10, <2>1, GrowsTwice
<1>12. Grows(result.schemas, schemas)
  BY <1>6, <1>11, GrowsTwice
<1>13. DOMAIN keys \subseteq DOMAIN ks2 /\ \A j \in DOMAIN keys : ks2[j] = keys[j]
  BY <1>7, <1>8
<1>14. \A t \in DOMAIN schemas \ Targets : result.schemas[t].subs = schemas[t].subs
  BY <1>6, <1>7, <1>8, <1>10
<1>15. DOMAIN result.schemas = DOMAIN schemas \cup {s}
  BY <1>6, <1>7, <1>8, <1>10
<1>16. ASSUME ~(TrackCounts /\ ~CountsTyped) PROVE KeepsDatabases
  BY <1>5, <1>12, <1>13, <1>14, <1>16 DEF KeepsDatabases
<1>17. ASSUME ~(TrackCounts /\ ~CountsTyped), result.ok PROVE KeepsSound
  <2>1. /\ schemas' = result.schemas /\ keys' = ks2 /\ layers' = WithLayer(name, s)
        /\ UNCHANGED <<data, nodes, tables, pending, handed, dbs>>
    BY <1>5, <1>17
  <2>2. /\ layers' \in Seq(DOMAIN schemas') /\ tables' \in Seq(DOMAIN schemas')
        /\ nodes' \subseteq DOMAIN schemas'
    <3> DEFINE D == DOMAIN result.schemas
    <3>1. DOMAIN schemas \subseteq D /\ s \in D
      BY <1>15
    <3>2. layers \in Seq(DOMAIN schemas) /\ tables \in Seq(DOMAIN schemas)
      BY <1>1
    <3> HIDE DEF D
    <3>3. tables \in Seq(D)
      BY <3>1, <3>2, SequencesMore
    <3>4. WithLayer(name, s) \in Seq(D)
      BY ONLY <3>1, <3>2, LayersMore
    <3> QED
      BY <1>1, <2>1, <3>1, <3>3, <3>4 DEF D
  <2>3. DOMAIN schemas' \ DOMAIN schemas = {s} /\ ~schemas'[s].final
    <3>1. ~result.schemas[s].final
      BY <1>6, <1>11 DEF Grows
    <3> QED
      BY <1>6, <1>15, <2>1, <3>1
  <2>4. /\ Somewhere(KeyColumn(k), pending', schemas')
        /\ Somewhere(KeyColumn(l), pending', schemas')
    <3>1. s \in Open(schemas')
      BY <2>3 DEF Open
    <3>2. <<s, KeyColumn(k)>> \in Placed(schemas') /\ <<s, KeyColumn(l)>> \in Placed(schemas')
      BY <1>9, <1>17, <2>1
    <3> QED
      BY <3>1, <3>2 DEF Somewhere
  <2>5. k \in DOMAIN keys' /\ l \in DOMAIN keys'
    BY <1>7, <1>8, <2>1
  <2>6. \A t \in DOMAIN schemas' : \A j \in schemas'[t].subs :
          \/ t \in DOMAIN schemas /\ j \in schemas[t].subs
          \/ j \in DOMAIN keys' /\ Somewhere(KeyColumn(j), pending', schemas')
    <3> SUFFICES ASSUME NEW t \in DOMAIN schemas', NEW j \in schemas'[t].subs
                 PROVE  (t \in DOMAIN schemas /\ j \in schemas[t].subs) \/ j = k \/ j = l
      BY <2>4, <2>5
    <3>1. t \in DOMAIN base /\ (t = s \/ t \in DOMAIN schemas)
      BY <1>6, <1>15, <2>1
    <3>2. result.schemas[t].subs \subseteq base[t].subs \cup {k, l}
      BY <1>7, <1>8, <1>10, <3>1
    <3> QED
      BY <1>6, <2>1, <3>1, <3>2
  <2>7. \A j \in DOMAIN keys' \ DOMAIN keys :
          RangeOf(keys'[j]) \subseteq Targets /\ Somewhere(KeyColumn(j), pending', schemas')
    <3>1. \A j \in DOMAIN keys' \ DOMAIN keys : j = k \/ j = l
      BY <1>7, <1>8, <2>1
    <3>2. keys'[k] = <<source>> /\ keys'[l] = <<target>>
      BY <1>3, <1>7, <1>8, <2>1
    <3>3. RangeOf(<<source>>) \subseteq Targets /\ RangeOf(<<target>>) \subseteq Targets
      BY OneColumn
    <3> QED
      BY <2>4, <3>1, <3>2, <3>3
  <2>8. Roots(keys, data) \subseteq Roots(keys', data')
    BY <1>7, <1>8, <2>1
  <2> QED
    BY <1>9, <1>17, <2>1, <2>2, <2>3, <2>6, <2>7, <2>8 DEF KeepsSound
<1> QED
  BY <1>4, <1>5, <1>9, <1>16, <1>17

\* Tables of a list get into the registry.
LEMMA RegistersKeeps ==
  ASSUME Sound, NEW list \in Seq(DOMAIN schemas), NEW result, result = WithTables(list),
         schemas' = result.schemas, tables' = result.tables, pending' = result.pending,
         outcome' = (IF result.ok THEN "ok" ELSE "failed"),
         layers' \in Seq(DOMAIN schemas),
         keys' = keys, data' = data, nodes' = nodes, handed' = handed, dbs' = dbs
  PROVE  KeepsDatabases /\ (outcome' = "failed" \/ KeepsSound)
<1>1. /\ Core(schemas, keys, data, pending) /\ Schemas = DOMAIN schemas
      /\ tables \in Seq(DOMAIN schemas) /\ nodes \subseteq DOMAIN schemas
  BY SoundFacts
<1>2. /\ result \in Reached
      /\ result.ok => RangeOf(result.tables) = RangeOf(tables) \cup RangeOf(list)
  <2>1. list \in Seq(Schemas) /\ tables \in Seq(Schemas)
    BY <1>1
  <2> QED
    BY <1>1, <2>1, WithTablesIs
<1>3. /\ Extends(result.schemas, schemas)
      /\ result.tables \in Seq(DOMAIN schemas)
      /\ result.ok =>
           /\ Core(result.schemas, keys, data, result.pending)
           /\ Moved(result.tables, result.pending, result.schemas)
  BY <1>1, <1>2 DEF Reached
<1>4. /\ Grows(result.schemas, schemas) /\ DOMAIN result.schemas = DOMAIN schemas
      /\ \A t \in DOMAIN schemas : result.schemas[t].subs = schemas[t].subs
  BY <1>3, ExtendsGrows
<1>5. KeepsDatabases
  BY <1>4 DEF KeepsDatabases
<1>6. ASSUME result.ok PROVE KeepsSound
  <2>1. DOMAIN schemas' \ DOMAIN schemas = {}
    BY <1>4
  <2>2. \A n \in Names : \A c \in RangeOf(pending[n]) :
          c \in RangeOf(pending'[n]) \/ Tabled(n, c, tables', schemas')
    BY <1>3, <1>6 DEF Moved
  <2>3. \A t \in DOMAIN schemas' : \A k \in schemas'[t].subs :
          t \in DOMAIN schemas /\ k \in schemas[t].subs
    BY <1>4
  <2>4. RangeOf(tables) \subseteq RangeOf(tables')
    BY <1>2, <1>6
  <2>5. /\ layers' \in Seq(DOMAIN schemas') /\ tables' \in Seq(DOMAIN schemas')
        /\ nodes' \subseteq DOMAIN schemas'
    BY <1>1, <1>3, <1>4
  <2> QED
    BY <1>3, <1>6, <2>1, <2>2, <2>3, <2>4, <2>5 DEF KeepsSound
<1> QED
  BY <1>5, <1>6

LEMMA RegisterLayersKeeps ==
  ASSUME Sound, RegisterLayers
  PROVE  KeepsDatabases /\ (outcome' = "failed" \/ KeepsSound)
<1>1. PICK result : result = WithTables(layers)
  OBVIOUS
<1>2. /\ schemas' = result.schemas /\ tables' = result.tables /\ pending' = result.pending
      /\ outcome' = (IF result.ok THEN "ok" ELSE "failed") /\ layers' = <<>>
      /\ keys' = keys /\ data' = data /\ nodes' = nodes /\ handed' = handed /\ dbs' = dbs
  BY <1>1 DEF RegisterLayers, Ended
<1>3. layers \in Seq(DOMAIN schemas) /\ <<>> \in Seq(DOMAIN schemas)
  BY SoundFacts, EmptySeq
<1> QED
  BY <1>1, <1>2, <1>3, RegistersKeeps

LEMMA RegisterTableKeeps ==
  ASSUME Sound, NEW s \in Schemas, RegisterTable(s)
  PROVE  KeepsDatabases /\ (outcome' = "failed" \/ KeepsSound)
<1>1. PICK result : result = WithTables(<<s>>)
  OBVIOUS
<1>2. /\ schemas' = result.schemas /\ tables' = result.tables /\ pending' = result.pending
      /\ outcome' = (IF result.ok THEN "ok" ELSE "failed") /\ layers' = layers
      /\ keys' = keys /\ data' = data /\ nodes' = nodes /\ handed' = handed /\ dbs' = dbs
  BY <1>1 DEF RegisterTable, Ended
<1>3. layers' \in Seq(DOMAIN schemas) /\ <<s>> \in Seq(DOMAIN schemas)
  BY <1>2, SoundFacts, OneColumn
<1> QED
  BY <1>1, <1>2, <1>3, RegistersKeeps

\* Schemas have as many positions as their length says.
LEMMA SameLength ==
  ASSUME NEW S, NEW p \in Seq(S), NEW q \in Seq(S), DOMAIN p = DOMAIN q
  PROVE  Len(p) = Len(q)
<1>1. /\ Len(p) \in Nat /\ Len(q) \in Nat
      /\ DOMAIN p = 1 .. Len(p) /\ DOMAIN q = 1 .. Len(q)
  BY LenProperties
<1>2. ASSUME Len(p) < Len(q) PROVE FALSE
  <2>1. Len(q) \in 1 .. Len(q) /\ Len(q) \notin 1 .. Len(p)
    BY <1>1, <1>2
  <2> QED
    BY <1>1, <2>1
<1>3. ASSUME Len(q) < Len(p) PROVE FALSE
  <2>1. Len(p) \in 1 .. Len(p) /\ Len(p) \notin 1 .. Len(q)
    BY <1>1, <1>3
  <2> QED
    BY <1>1, <2>1
<1>4. Len(p) \in Nat /\ Len(q) \in Nat
  BY <1>1
<1>5. ~(Len(p) < Len(q)) /\ ~(Len(q) < Len(p))
  BY <1>2, <1>3
<1> QED
  BY ONLY <1>4, <1>5

LEMMA MakeTableKeeps ==
  ASSUME Sound, NEW name \in Names, NEW ts \in TargetLists, MakeTable(name, ts)
  PROVE  KeepsDatabases /\ (outcome' = "failed" \/ KeepsSound)
<1> DEFINE k == Len(keys) + 1
           s == Len(schemas) + 1
           more == Append(keys, ts)
           d == data + 1
           m == Subscribed(schemas, k, ts)
           cols == <<DataColumn(d), KeyColumn(k)>>
           made == WithTable(m, more, name, cols)
<1>1. /\ keys' = more /\ data' = d /\ schemas' = made.schemas
      /\ outcome' = IF made.ok THEN "ok" ELSE "failed"
      /\ UNCHANGED <<layers, nodes, tables, pending, handed, dbs>>
  BY DEF MakeTable, Ended
<1>2. /\ Core(schemas, keys, data, pending) /\ schemas \in Seq(SchemaRecords)
      /\ layers \in Seq(DOMAIN schemas) /\ tables \in Seq(DOMAIN schemas)
      /\ nodes \subseteq DOMAIN schemas
  BY SoundFacts
<1>3. more[k] = ts /\ RangeOf(ts) \subseteq Targets
  BY NewTargets, TargetListsAre
<1>4. KeyMade(m, more, k, ts, schemas, keys, data, pending)
  <2>1. Core(schemas, keys, data, pending)
    BY <1>2
  <2>2. ts \in Seq(DOMAIN schemas)
    BY TargetListsAre
  <2> QED
    BY ONLY <2>1, <2>2, NewKey DEF m, more, k
<1> HIDE DEF m, more, k
<1>5. /\ Core(m, more, data, pending)
      /\ k \in Nat /\ k \notin DOMAIN keys /\ DOMAIN more = DOMAIN keys \cup {k}
      /\ \A j \in DOMAIN keys : more[j] = keys[j]
      /\ KeyColumn(k) \in Roots(more, data) /\ Roots(keys, data) \subseteq Roots(more, data)
      /\ New(KeyColumn(k), m, pending)
      /\ Grows(m, schemas) /\ DOMAIN m = DOMAIN schemas
      /\ \A t \in DOMAIN schemas : m[t].subs \subseteq schemas[t].subs \cup {k}
      /\ \A t \in DOMAIN schemas : t \notin RangeOf(ts) => m[t].subs = schemas[t].subs
  BY <1>4 DEF KeyMade
<1>6. /\ Core(m, more, d, pending)
      /\ DataColumn(d) \in Roots(more, d) /\ Roots(more, data) \subseteq Roots(more, d)
      /\ New(DataColumn(d), m, pending)
  <2>1. Core(m, more, data, pending)
    BY <1>5
  <2> QED
    BY ONLY <2>1, CoreNewData DEF d
<1> HIDE DEF d
<1>7. s = Len(m) + 1
  <2>1. m \in Seq(SchemaRecords)
    BY <1>5 DEF Core
  <2> QED
    BY <1>2, <1>5, <2>1, SameLength
<1> HIDE DEF s
<1>8. /\ cols \in Seq(Roots(more, d)) /\ DOMAIN cols = 1 .. 2
      /\ cols[1] = DataColumn(d) /\ cols[2] = KeyColumn(k)
  BY <1>5, <1>6
<1>9. DataColumn(d) # KeyColumn(k)
  BY DEF DataColumn, KeyColumn
<1> HIDE DEF cols
<1>10. Distinct(cols) /\ \A i \in DOMAIN cols : New(cols[i], m, pending)
  <2>1. \A i \in DOMAIN cols : i = 1 \/ i = 2
    BY <1>8
  <2> QED
    BY <1>5, <1>6, <1>8, <1>9, <2>1 DEF Distinct
<1>11. Made(made, m, more, d, pending, name, cols)
  <2>1. Core(m, more, d, pending) /\ cols \in Seq(Roots(more, d))
    BY <1>6, <1>8
  <2> QED
    BY <1>10, <2>1, WithTableIs DEF made
<1> HIDE DEF made
<1>12. /\ made.ok \in BOOLEAN
       /\ DOMAIN made.schemas = DOMAIN schemas \cup {s}
       /\ Grows(made.schemas, m)
       /\ \A t \in DOMAIN schemas : made.schemas[t].subs = m[t].subs
       /\ made.schemas[s].subs = {} /\ ~made.schemas[s].final
       /\ made.ok => /\ Core(made.schemas, more, d, pending)
                     /\ <<s, KeyColumn(k)>> \in Placed(made.schemas)
  <2>1. 2 \in DOMAIN cols
    BY <1>8
  <2> QED
    BY <1>5, <1>7, <1>8, <1>11, <2>1 DEF Made, Grows
<1>13. Grows(made.schemas, schemas)
  BY <1>5, <1>12, GrowsTwice
<1>14. s \notin DOMAIN schemas
  BY <1>2, LenProperties DEF s
<1>15. DOMAIN keys \subseteq DOMAIN more
  BY <1>5
<1>16. \A t \in DOMAIN schemas \ Targets : made.schemas[t].subs = schemas[t].subs
  BY <1>3, <1>5, <1>12
<1>17. KeepsDatabases
  BY <1>1, <1>5, <1>13, <1>15, <1>16 DEF KeepsDatabases
<1>18. ASSUME made.ok PROVE KeepsSound
  <2>1. DOMAIN schemas' \ DOMAIN schemas = {s} /\ ~schemas'[s].final
    BY <1>1, <1>12, <1>14
  <2>2. /\ layers' \in Seq(DOMAIN schemas') /\ tables' \in Seq(DOMAIN schemas')
        /\ nodes' \subseteq DOMAIN schemas'
    <3> DEFINE D == DOMAIN made.schemas
    <3>1. DOMAIN schemas \subseteq D
      BY <1>12
    <3> HIDE DEF D
    <3>2. layers \in Seq(D) /\ tables \in Seq(D) /\ nodes \subseteq D
      BY <1>2, <3>1, SequencesMore
    <3> QED
      BY <1>1, <3>2 DEF D
  <2>3. Somewhere(KeyColumn(k), pending', schemas')
    <3>1. s \in Open(schemas')
      BY <2>1 DEF Open
    <3>2. <<s, KeyColumn(k)>> \in Placed(schemas')
      BY <1>1, <1>12, <1>18
    <3> QED
      BY <3>1, <3>2 DEF Somewhere
  <2>4. \A t \in DOMAIN schemas' : \A j \in schemas'[t].subs :
          \/ t \in DOMAIN schemas /\ j \in schemas[t].subs
          \/ j \in DOMAIN keys' /\ Somewhere(KeyColumn(j), pending', schemas')
    <3> SUFFICES ASSUME NEW t \in DOMAIN schemas', NEW j \in schemas'[t].subs
                 PROVE  (t \in DOMAIN schemas /\ j \in schemas[t].subs) \/ j = k
      BY <1>1, <1>5, <2>3
    <3>1. CASE t = s
      BY <1>1, <1>12, <3>1
    <3>2. CASE t \in DOMAIN schemas
      BY <1>1, <1>5, <1>12, <3>2
    <3> QED
      BY <2>1, <3>1, <3>2
  <2>5. Roots(keys, data) \subseteq Roots(keys', data')
    BY <1>1, <1>5, <1>6
  <2>6. Core(schemas', keys', data', pending')
    BY <1>1, <1>12, <1>18
  <2>7. \A n \in Names : \A c \in RangeOf(pending[n]) : c \in RangeOf(pending'[n])
    BY <1>1
  <2>8. \A j \in DOMAIN keys' \ DOMAIN keys :
          RangeOf(keys'[j]) \subseteq Targets /\ Somewhere(KeyColumn(j), pending', schemas')
    <3>1. \A j \in DOMAIN keys' \ DOMAIN keys : j = k
      BY <1>1, <1>5
    <3> QED
      BY <1>1, <1>3, <2>3, <3>1
  <2> QED
    BY <1>1, <2>1, <2>2, <2>4, <2>5, <2>6, <2>7, <2>8 DEF KeepsSound
<1> QED
  BY <1>1, <1>17, <1>18

LEMMA AddColumnLateKeeps ==
  ASSUME Sound, NEW t \in Schemas, AddColumnLate(t)
  PROVE  KeepsDatabases /\ KeepsSound
BY NothingKeeps DEF AddColumnLate

\* A database is made of the tables, once no column waits.
LEMMA BuildKeeps ==
  ASSUME Sound, Inv, Build
  PROVE  Inv'
<1> DEFINE new == [s \in Schemas |-> [schemas[s] EXCEPT !.final =
                                        @ \/ \E i \in DOMAIN tables : tables[i] = s]]
<1>1. /\ Core(schemas, keys, data, pending) /\ schemas \in Seq(SchemaRecords)
      /\ Schemas = DOMAIN schemas
      /\ layers \in Seq(DOMAIN schemas) /\ tables \in Seq(DOMAIN schemas)
      /\ nodes \subseteq DOMAIN schemas
      /\ pending \in [Names -> Seq(Roots(keys, data))]
      /\ Grows(schemas, schemas)
  BY SoundFacts
<1>2. /\ UNCHANGED <<keys, data, layers, nodes, pending>> /\ Running
      /\ Rules = AllRules => RangeOf(tables) = Open(schemas)
  BY <1>1 DEF Build, MayBuild, AllRules, RangeOf, Open
<1>3. CASE \E n \in Names : pending[n] # <<>>
  <2>1. outcome' = "failed" /\ UNCHANGED <<schemas, tables, handed, dbs>>
    BY <1>3 DEF Build
  <2>2. KeepsDatabases
    BY <1>1, <1>2, <2>1 DEF KeepsDatabases
  <2> QED
    BY <1>2, <2>1, <2>2, InvAfter
<1>4. CASE ~\E n \in Names : pending[n] # <<>>
  <2>1. /\ outcome' = "built" /\ dbs' = dbs \cup {tables} /\ schemas' = new
        /\ tables' = <<>> /\ handed' = {}
    BY <1>4 DEF Build
  <2>2. ASSUME NEW s \in DOMAIN schemas
        PROVE  /\ new[s] \in SchemaRecords
               /\ new[s].cols = schemas[s].cols /\ new[s].ids = schemas[s].ids
               /\ new[s].subs = schemas[s].subs
               /\ new[s].final = (schemas[s].final \/ s \in RangeOf(tables))
    <3>1. schemas[s] \in SchemaRecords
      BY <1>1, ElementOfSeq
    <3> DEFINE f == (schemas[s].final \/ \E i \in DOMAIN tables : tables[i] = s)
    <3>2. new[s] = [schemas[s] EXCEPT !.final = f]
      BY <1>1, <3>1 DEF SchemaRecords
    <3>3. f \in BOOLEAN /\ f = (schemas[s].final \/ s \in RangeOf(tables))
      BY <3>1 DEF SchemaRecords, RangeOf
    <3> HIDE DEF f
    <3> QED
      BY <3>1, <3>2, <3>3 DEF SchemaRecords
  <2>3. SameColumns(new, schemas)
    <3>1. DOMAIN new = DOMAIN schemas
      BY <1>1
    <3>2. Len(schemas) \in Nat /\ DOMAIN schemas = 1 .. Len(schemas)
      BY <1>1, LenProperties
    <3>3. new = [s \in 1 .. Len(schemas) |-> new[s]]
      BY <1>1, <3>2
    <3> HIDE DEF new
    <3>4. new \in [1 .. Len(schemas) -> SchemaRecords]
      BY <2>2, <3>2, <3>3
    <3>5. new \in Seq(SchemaRecords)
      BY <3>2, <3>4
    <3> QED
      BY <2>2, <3>1, <3>5 DEF SameColumns
  <2> HIDE DEF new
  <2>4. Core(new, keys, data, pending) /\ Placed(new) = Placed(schemas)
    BY <1>1, <2>3, CoreSameColumns
  <2>5. DOMAIN new = DOMAIN schemas
    BY <2>3 DEF SameColumns
  <2>6. RangeOf(<<>>) = {} /\ <<>> \in Seq(DOMAIN new)
    BY EmptySeq DEF RangeOf
  <2>7. DatabasesFinal(dbs', new)
    <3>1. \A i \in DOMAIN tables : tables[i] \in DOMAIN schemas /\ tables[i] \in RangeOf(tables)
      BY <1>1, ElementOfSeq DEF RangeOf
    <3>2. DatabasesFinal(dbs, schemas)
      BY DEF Sound
    <3>3. \A s \in DOMAIN schemas : schemas[s].final \/ s \in RangeOf(tables) => new[s].final
      BY <2>2
    <3> QED
      BY <2>1, <2>5, <3>1, <3>2, <3>3 DEF DatabasesFinal
  <2>8. Complete(new, keys, dbs')
    BY <2>4, CompleteIs
  <2>9. Sound'
    <3>1. HandedFound(handed', keys', data', pending', tables', schemas')
      BY <2>1 DEF HandedFound
    <3> QED
      BY <1>1, <1>2, <2>1, <2>4, <2>5, <2>6, <2>7, <3>1 DEF Sound
  <2>10. ASSUME Rules = AllRules
         PROVE  TargetsInside(new, keys, dbs') /\ Present(new, dbs') /\ Ruled'
    <3>1. /\ TargetsInside(schemas, keys, dbs) /\ Present(schemas, dbs)
          /\ SubscribersFound(keys, pending, schemas) /\ KeysFound(keys, pending, schemas)
      BY <1>2, <2>10 DEF Inv, Running, Ruled
    <3>2. RangeOf(tables) = Open(schemas) /\ \A n \in Names : RangeOf(pending[n]) = {}
      BY <1>2, <1>4, <2>6, <2>10
    <3>3. Open(new) = {}
      <4>1. \A s \in DOMAIN schemas : new[s].final
        BY <2>2, <3>2 DEF Open
      <4> QED
        BY <2>5, <4>1 DEF Open
    <3>4. ASSUME NEW s \in Open(schemas), NEW k, <<s, KeyColumn(k)>> \in Placed(schemas)
          PROVE  RangeOf(keys[k]) \subseteq Open(schemas)
      <4>1. k \in DOMAIN keys
        <5>1. Whole(Placed(schemas), keys, data)
          BY <1>1 DEF Core
        <5>2. <<s, KeyColumn(k)>>[2] = KeyColumn(k)
          OBVIOUS
        <5> QED
          BY <3>4, <5>1, <5>2, KeyColumnIs DEF Whole
      <4>2. CASE \E t \in DOMAIN schemas : schemas[t].final /\ <<t, KeyColumn(k)>> \in Placed(schemas)
        <5>1. PICK t \in DOMAIN schemas : schemas[t].final /\ <<t, KeyColumn(k)>> \in Placed(schemas)
          BY <4>2
        <5>2. OnePlace(schemas)
          BY <1>1 DEF Core
        <5>3. s = t
          BY <3>4, <5>1, <5>2, PlacedIs DEF OnePlace
        <5> QED
          BY <5>1, <5>3 DEF Open
      <4> QED
        BY <3>1, <4>1, <4>2 DEF KeysFound
    <3>5. TargetsInside(new, keys, dbs')
      <4> SUFFICES ASSUME NEW d \in dbs', NEW s \in RangeOf(d), NEW k,
                          <<s, KeyColumn(k)>> \in Placed(schemas)
                   PROVE  RangeOf(keys[k]) \subseteq RangeOf(d)
        BY <2>4 DEF TargetsInside
      <4>1. CASE d \in dbs
        BY <3>1, <4>1 DEF TargetsInside
      <4>2. CASE d = tables
        BY <3>2, <3>4, <4>2
      <4> QED
        BY <2>1, <4>1, <4>2
    <3>6. Present(new, dbs')
      <4> SUFFICES ASSUME NEW d \in dbs', NEW s \in RangeOf(d), NEW k \in new[s].subs
                   PROVE  \E t \in RangeOf(d) : <<t, KeyColumn(k)>> \in Placed(new)
        BY DEF Present
      <4>1. s \in DOMAIN schemas
        BY <2>5, <2>7 DEF DatabasesFinal, RangeOf
      <4>2. k \in schemas[s].subs
        BY <2>2, <4>1
      <4>3. CASE d \in dbs
        BY <2>4, <3>1, <4>2, <4>3 DEF Present
      <4>4. CASE d = tables
        <5>1. Somewhere(KeyColumn(k), pending, schemas)
          BY <3>1, <3>2, <4>2, <4>4 DEF SubscribersFound
        <5> QED
          BY <2>4, <3>2, <4>4, <5>1 DEF Somewhere
      <4> QED
        BY <2>1, <4>3, <4>4
    <3>7. SubscribersFound(keys, pending, new)
      BY <3>3 DEF SubscribersFound
    <3>8. KeysFound(keys, pending, new)
      <4> SUFFICES ASSUME NEW k \in DOMAIN keys
                   PROVE  \E t \in DOMAIN new : new[t].final /\ <<t, KeyColumn(k)>> \in Placed(new)
        BY DEF KeysFound
      <4>1. \E t \in DOMAIN schemas : <<t, KeyColumn(k)>> \in Placed(schemas)
        <5>1. CASE Somewhere(KeyColumn(k), pending, schemas)
          BY <3>2, <5>1 DEF Somewhere, Open
        <5> QED
          BY <3>1, <5>1 DEF KeysFound
      <4>2. \A t \in DOMAIN new : new[t].final
        BY <3>3 DEF Open
      <4> QED
        BY <2>4, <2>5, <4>1, <4>2
    <3> QED
      BY <1>2, <2>1, <3>5, <3>6, <3>7, <3>8 DEF Ruled
  <2> QED
    BY <1>2, <2>1, <2>7, <2>8, <2>9, <2>10 DEF Inv
<1> QED
  BY <1>3, <1>4

(***************************************************************************)
(* The invariant of the specification.                                     *)
(***************************************************************************)
\* There is nothing yet.
LEMMA InitInv ==
  ASSUME Init
  PROVE  Inv
<1>1. /\ schemas = <<>> /\ keys = <<>> /\ data = 0 /\ layers = <<>> /\ tables = <<>>
      /\ nodes = {} /\ pending = [n \in Names |-> <<>>] /\ handed = {} /\ dbs = {}
      /\ outcome = "ok"
  BY DEF Init
<1>2. /\ \A S : <<>> \in Seq(S)
      /\ DOMAIN <<>> = {}
  BY EmptySeq
<1>3. Placed(<<>>) = {} /\ Open(<<>>) = {}
  BY <1>2 DEF Placed, Open
<1>4. Core(<<>>, <<>>, 0, pending)
  <2>1. OnePlace(<<>>) /\ \A s \in DOMAIN <<>> : Numbered(<<>>[s])
    BY <1>2 DEF OnePlace
  <2>2. Whole({}, <<>>, 0)
    BY DEF Whole
  <2>3. Waiting(pending, {})
    BY <1>1, <1>2 DEF Waiting
  <2>4. pending \in [Names -> Seq(Roots(<<>>, 0))]
    BY <1>1, <1>2
  <2> QED
    BY <1>2, <1>3, <2>1, <2>2, <2>3, <2>4 DEF Core
<1>5. Ruled
  <2>1. SubscribersFound(<<>>, pending, <<>>)
    BY <1>3 DEF SubscribersFound
  <2>2. KeysFound(<<>>, pending, <<>>)
    BY <1>2 DEF KeysFound
  <2> QED
    BY <1>1, <2>1, <2>2 DEF Ruled
<1>6. HandedFound({}, keys, data, pending, tables, schemas)
  BY DEF HandedFound
<1>7. DatabasesFinal({}, schemas)
  BY DEF DatabasesFinal
<1>8. Sound
  BY <1>1, <1>2, <1>4, <1>6, <1>7 DEF Sound
<1>9. Complete(schemas, keys, {}) /\ TargetsInside(schemas, keys, {}) /\ Present(schemas, {})
  BY DEF Complete, TargetsInside, Present
<1> QED
  BY <1>1, <1>5, <1>7, <1>8, <1>9 DEF Inv

\* A step that changes nothing.
LEMMA NothingInv ==
  ASSUME Inv, UNCHANGED vars
  PROVE  Inv'
<1>1. /\ schemas' = schemas /\ keys' = keys /\ data' = data /\ layers' = layers
      /\ nodes' = nodes /\ tables' = tables /\ pending' = pending /\ handed' = handed
      /\ dbs' = dbs /\ outcome' = outcome
  BY DEF vars
<1> QED
  BY <1>1 DEF Inv, Sound, Ruled

\* Every step keeps it.
LEMMA NextInv ==
  ASSUME Inv, [Next]_vars
  PROVE  Inv'
<1>1. CASE UNCHANGED vars
  BY <1>1, NothingInv
<1>2. CASE Next
  <2>1. Running
    BY <1>2 DEF Next, AddNodeLayer, AddEdgeLayer, RegisterLayers, MakeTable, RegisterTable,
                EnsureTable, AddDataColumn, AddKeyColumn, AddColumnLate, Build, MayBuild, Room
  <2>2. Sound /\ Running
    BY <2>1 DEF Inv, Running
  <2>3. ASSUME NEW n \in Names, AddNodeLayer(n) PROVE Inv'
    BY <2>2, <2>3, AddNodeLayerKeeps, InvAfter
  <2>4. ASSUME NEW n \in Names, NEW s \in nodes \cap Targets, NEW t \in nodes \cap Targets,
               AddEdgeLayer(n, s, t)
        PROVE  Inv'
    BY <2>2, <2>4, AddEdgeLayerKeeps, InvAfter
  <2>5. CASE RegisterLayers
    BY <2>2, <2>5, RegisterLayersKeeps, InvAfter
  <2>6. ASSUME NEW n \in Names, NEW ts \in TargetLists, MakeTable(n, ts) PROVE Inv'
    BY <2>2, <2>6, MakeTableKeeps, InvAfter
  <2>7. ASSUME NEW s \in Schemas, RegisterTable(s) PROVE Inv'
    BY <2>2, <2>7, RegisterTableKeeps, InvAfter
  <2>8. ASSUME NEW n \in Names, EnsureTable(n) PROVE Inv'
    BY <2>2, <2>8, EnsureTableKeeps, InvAfter
  <2>9. ASSUME NEW n \in Names, AddDataColumn(n) PROVE Inv'
    BY <2>2, <2>9, AddDataColumnKeeps, InvAfter
  <2>10. ASSUME NEW n \in Names, NEW ts \in TargetLists, AddKeyColumn(n, ts) PROVE Inv'
    BY <2>2, <2>10, AddKeyColumnKeeps, InvAfter
  <2>11. ASSUME NEW s \in Schemas, AddColumnLate(s) PROVE Inv'
    BY <2>2, <2>11, AddColumnLateKeeps, InvAfter
  <2>12. CASE Build
    BY <2>2, <2>12, BuildKeeps
  <2> QED
    BY <1>2, <2>3, <2>4, <2>5, <2>6, <2>7, <2>8, <2>9, <2>10, <2>11, <2>12 DEF Next
<1> QED
  BY <1>1, <1>2

LEMMA RegistryInvariant == Spec => []Inv
<1>1. Init => Inv
  BY InitInv
<1>2. Inv /\ [Next]_vars => Inv'
  BY NextInv
<1> QED
  BY <1>1, <1>2, PTL DEF Spec

(***************************************************************************)
(* What follows for the properties.                                        *)
(***************************************************************************)
LEMMA ColumnsOfPlaced ==
  ASSUME NEW s
  PROVE  /\ s \in DOMAIN schemas =>
              \A c : c \in ColumnsOf(s) <=> <<s, c>> \in Placed(schemas)
         /\ \A c : <<s, c>> \in Placed(schemas) => s \in DOMAIN schemas /\ c \in ColumnsOf(s)
BY PlacedIs DEF ColumnsOf

\* Columns are numbered with their positions in every schema, for any number of
\* tables and columns and whatever came along with what: register_new_column,
\* set_parent and the registry leave no gap and no column with two numbers.
THEOREM LayoutAlwaysConsistent == Spec => []LayoutConsistent
<1>1. ASSUME Inv PROVE LayoutConsistent
  <2> SUFFICES ASSUME outcome # "failed", NEW s \in Schemas
               PROVE  /\ DOMAIN schemas[s].ids = ColumnsOf(s)
                      /\ \A i \in DOMAIN schemas[s].cols :
                           schemas[s].ids[schemas[s].cols[i]] = i - 1
    BY DEF LayoutConsistent
  <2>1. Sound
    BY <1>1 DEF Inv
  <2>2. s \in DOMAIN schemas /\ Core(schemas, keys, data, pending)
    BY <2>1, SoundFacts
  <2>3. Numbered(schemas[s])
    BY <2>2 DEF Core
  <2> QED
    BY <2>3 DEF Numbered, ColumnsOf
<1> QED
  BY <1>1, RegistryInvariant, PTL

\* A column that add_column took in waits for its table once, or is in it once.
THEOREM ColumnsAlwaysReachTheirTables == Spec => []ColumnsReachTheirTables
<1>1. ASSUME Inv PROVE ColumnsReachTheirTables
  <2> SUFFICES ASSUME outcome # "failed", NEW h \in handed
               PROVE  LET waits == {i \in DOMAIN pending[h[1]] : pending[h[1]][i] = h[2]}
                          placed == UNION {{<<s, i>> : i \in {j \in DOMAIN schemas[s].cols :
                                              schemas[s].cols[j] = h[2]}} : s \in Named(h[1])}
                      IN  Cardinality(waits) + Cardinality(placed) = 1
    BY DEF ColumnsReachTheirTables
  <2> DEFINE waits == {i \in DOMAIN pending[h[1]] : pending[h[1]][i] = h[2]}
             there(s) == {j \in DOMAIN schemas[s].cols : schemas[s].cols[j] = h[2]}
             placed == UNION {{<<s, i>> : i \in there(s)} : s \in Named(h[1])}
  <2>1. Sound
    BY <1>1 DEF Inv
  <2>2. /\ OnePlace(schemas) /\ Waiting(pending, Placed(schemas))
        /\ tables \in Seq(DOMAIN schemas)
        /\ HandedFound(handed, keys, data, pending, tables, schemas)
    BY <2>1 DEF Sound, Core
  <2>3. /\ h[1] \in Names
        /\ h[2] \in RangeOf(pending[h[1]]) \/ Tabled(h[1], h[2], tables, schemas)
    BY <2>2 DEF HandedFound
  <2>4. \A s \in Named(h[1]) : s \in DOMAIN schemas
    BY <2>2, ElementOfSeq DEF Named
  <2>5. \A x : x \in placed <=> \E s \in Named(h[1]) : \E i \in there(s) : x = <<s, i>>
    OBVIOUS
  <2>6. CASE h[2] \in RangeOf(pending[h[1]])
    <3>1. PICK i \in DOMAIN pending[h[1]] : pending[h[1]][i] = h[2]
      BY <2>6 DEF RangeOf
    <3>2. waits = {i}
      BY <2>2, <2>3, <3>1 DEF Waiting
    <3>3. \A s \in DOMAIN schemas : \A j \in DOMAIN schemas[s].cols : schemas[s].cols[j] # h[2]
      <4> SUFFICES ASSUME NEW s \in DOMAIN schemas, NEW j \in DOMAIN schemas[s].cols
                   PROVE  schemas[s].cols[j] # h[2]
        OBVIOUS
      <4> DEFINE p == <<s, schemas[s].cols[j]>>
      <4>1. p \in Placed(schemas)
        BY ColumnIsPlaced
      <4> HIDE DEF p
      <4>2. p[2] # pending[h[1]][i]
        BY <2>2, <2>3, <3>1, <4>1 DEF Waiting
      <4>3. schemas[s].cols[j] # pending[h[1]][i]
        BY <4>2 DEF p
      <4> QED
        BY <3>1, <4>3
    <3>4. placed = {}
      BY <2>4, <2>5, <3>3
    <3>5. Cardinality(waits) = 1 /\ Cardinality(placed) = 0
      BY <3>2, <3>4, FS_EmptySet, FS_Singleton
    <3> QED
      BY <3>5
  <2>7. CASE Tabled(h[1], h[2], tables, schemas)
    <3>1. PICK s \in RangeOf(tables) : schemas[s].name = h[1] /\ <<s, h[2]>> \in Placed(schemas)
      BY <2>7 DEF Tabled
    <3>2. s \in Named(h[1]) /\ s \in DOMAIN schemas
      BY <3>1, PlacedIs DEF Named, RangeOf
    <3>3. PICK i \in DOMAIN schemas[s].cols : schemas[s].cols[i] = h[2]
      BY <3>1, PlacedIs
    <3>4. placed = {<<s, i>>}
      <4>1. <<s, i>> \in placed
        BY <2>5, <3>2, <3>3
      <4>2. \A x \in placed : x = <<s, i>>
        BY <2>2, <2>4, <2>5, <3>2, <3>3 DEF OnePlace
      <4> QED
        BY <4>1, <4>2
    <3>5. waits = {}
      <4>1. <<s, h[2]>>[2] = h[2]
        OBVIOUS
      <4> QED
        BY <2>2, <2>3, <3>1, <4>1 DEF Waiting
    <3>6. Cardinality(waits) = 0 /\ Cardinality(placed) = 1
      BY <3>4, <3>5, FS_EmptySet, FS_Singleton
    <3> QED
      BY <3>6
  <2> QED
    BY <2>3, <2>6, <2>7
<1> QED
  BY <1>1, RegistryInvariant, PTL

\* A key of a database has its links in its own table, a head in every target,
\* and a count if they are tracked; what it brings along is nowhere else.  That
\* holds for every database that is built, of whichever schemas, and stays so
\* whatever is registered later, and after a failure too.
THEOREM KeysAlwaysComplete == Spec => []KeysComplete
<1>1. ASSUME Inv PROVE KeysComplete
  <2> SUFFICES ASSUME NEW d \in dbs, NEW s \in {d[i] : i \in DOMAIN d}, NEW c \in ColumnsOf(s)
               PROVE  /\ c.kind = "key" =>
                           /\ {Injected("next", c.of, 0), Injected("prev", c.of, 0)} \subseteq ColumnsOf(s)
                           /\ Len(keys[c.of]) > 1 => Injected("type", c.of, 0) \in ColumnsOf(s)
                           /\ \A i \in DOMAIN keys[c.of] :
                                /\ Injected("head", c.of, i) \in ColumnsOf(keys[c.of][i])
                                /\ TrackCounts =>
                                     Injected("count", c.of, i) \in ColumnsOf(keys[c.of][i])
                      /\ c.kind \in {"next", "prev", "type"} => KeyColumn(c.of) \in ColumnsOf(s)
                      /\ c.kind \in {"head", "count"} => keys[c.of][c.type] = s
    BY DEF KeysComplete
  <2>1. s \in RangeOf(d)
    BY DEF RangeOf
  <2>2. s \in DOMAIN schemas
    BY <1>1, <2>1 DEF Inv, DatabasesFinal, RangeOf
  <2>3. <<s, c>> \in Placed(schemas)
    BY <2>2, ColumnsOfPlaced
  <2>4. Complete(schemas, keys, dbs)
    BY <1>1 DEF Inv
  <2>5. /\ c.kind = "key" =>
             /\ <<s, Injected("next", c.of, 0)>> \in Placed(schemas)
             /\ <<s, Injected("prev", c.of, 0)>> \in Placed(schemas)
             /\ Len(keys[c.of]) > 1 => <<s, Injected("type", c.of, 0)>> \in Placed(schemas)
             /\ \A i \in DOMAIN keys[c.of] :
                  /\ <<keys[c.of][i], Injected("head", c.of, i)>> \in Placed(schemas)
                  /\ TrackCounts => <<keys[c.of][i], Injected("count", c.of, i)>> \in Placed(schemas)
        /\ c.kind \in {"next", "prev", "type"} => <<s, KeyColumn(c.of)>> \in Placed(schemas)
        /\ c.kind \in {"head", "count"} => keys[c.of][c.type] = s
    BY <2>1, <2>3, <2>4 DEF Complete
  <2> QED
    BY <2>5, ColumnsOfPlaced
<1> QED
  BY <1>1, RegistryInvariant, PTL

\* If keys are made before their targets are in a database, and databases are
\* built of all schemas there are, the targets of a database's keys are its
\* tables: commits and delete calls find them.
THEOREM TargetsAlwaysPresent ==
  Rules = AllRules => (Spec => []TargetsPresent)
<1> SUFFICES ASSUME Rules = AllRules PROVE Spec => []TargetsPresent
  OBVIOUS
<1>1. ASSUME Inv PROVE TargetsPresent
  <2> SUFFICES ASSUME NEW d \in dbs, NEW s \in {d[i] : i \in DOMAIN d}, NEW c \in ColumnsOf(s),
                      c.kind = "key"
               PROVE  {keys[c.of][i] : i \in DOMAIN keys[c.of]} \subseteq {d[i] : i \in DOMAIN d}
    BY DEF TargetsPresent
  <2>1. s \in RangeOf(d)
    BY DEF RangeOf
  <2>2. s \in DOMAIN schemas
    BY <1>1, <2>1 DEF Inv, DatabasesFinal, RangeOf
  <2>3. <<s, c>> \in Placed(schemas)
    BY <2>2, ColumnsOfPlaced
  <2>4. <<s, KeyColumn(c.of)>> \in Placed(schemas)
    <3>1. /\ <<s, Injected("next", c.of, 0)>> \in Placed(schemas)
      BY <1>1, <2>1, <2>3 DEF Inv, Complete
    <3>2. Injected("next", c.of, 0).kind = "next" /\ Injected("next", c.of, 0).of = c.of
      BY DEF Injected
    <3> QED
      BY <1>1, <2>1, <3>1, <3>2 DEF Inv, Complete
  <2>5. RangeOf(keys[c.of]) \subseteq RangeOf(d)
    BY <1>1, <2>1, <2>4 DEF Inv, TargetsInside
  <2> QED
    BY <2>5 DEF RangeOf
<1> QED
  BY <1>1, RegistryInvariant, PTL

\* By the same rules whoever subscribes to a table of a database is a column of
\* one of its tables, which is where a delete call looks for it.
THEOREM SubscribersAlwaysPresent ==
  Rules = AllRules => (Spec => []SubscribersPresent)
<1> SUFFICES ASSUME Rules = AllRules PROVE Spec => []SubscribersPresent
  OBVIOUS
<1>1. ASSUME Inv PROVE SubscribersPresent
  <2> SUFFICES ASSUME NEW d \in dbs, NEW s \in {d[i] : i \in DOMAIN d}, NEW k \in schemas[s].subs
               PROVE  \E t \in {d[i] : i \in DOMAIN d} : KeyColumn(k) \in ColumnsOf(t)
    BY DEF SubscribersPresent
  <2>1. \E t \in RangeOf(d) : <<t, KeyColumn(k)>> \in Placed(schemas)
    BY <1>1 DEF Inv, Present, RangeOf
  <2> QED
    BY <2>1, ColumnsOfPlaced DEF RangeOf
<1> QED
  BY <1>1, RegistryInvariant, PTL
=============================================================================
