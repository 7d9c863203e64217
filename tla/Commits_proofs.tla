--------------------------- MODULE Commits_proofs ---------------------------
(***************************************************************************)
(* That commits keep lists, keys and counts in step.                       *)
(*                                                                         *)
(* The links of a commit are made in three steps: the patch, in indices    *)
(* from before the commit, turns the lists into those of the rows that     *)
(* stay and the rows that are staged (AdjacencyLists_proofs); oracles      *)
(* renumber both patch and rows (RemapOracle_proofs); materialization      *)
(* moves the rows that no patch touches.  The lemmas follow them: what the *)
(* patch of a commit is, the columns it makes in old indices               *)
(* (ColumnsAfter), the same columns in new ones (ResolvedColumns), which   *)
(* are the ones that CommitColumn computes, and their counts.  Then the    *)
(* invariant that the steps of a transaction and its commit keep, and last *)
(* that they implement RelationalStore.                                    *)
(***************************************************************************)
EXTENDS TransactionContext_proofs, TransactionRefinement

(***************************************************************************)
(* The new indices of a table.                                             *)
(***************************************************************************)
\* The ids of table t that denote a row after the commit, and what they become.
LiveIds(t) == Live(db.len[t], Len(tx.additions[t]), tx.deletions[t])
NewRows(t) == 0 .. OracleOf(t).newSize - 1
NewIndex(t) == [x \in LiveIds(t) |-> Resolve(OracleOf(t), x)]

\* The oracle of a table numbers its live ids.
LEMMA TableRenumbered ==
  ASSUME TypeOK, NEW t \in Tables
  PROVE  /\ Numbers(NewIndex(t), LiveIds(t), NewRows(t))
         /\ Missing \notin LiveIds(t) /\ Missing \notin NewRows(t)
         /\ IsFiniteSet(LiveIds(t)) /\ IsFiniteSet(NewRows(t))
         /\ LiveIds(t) = (RowsOf(t) \ tx.deletions[t]) \cup StagedIds(t)
         /\ tx.deletions[t] \subseteq RowsOf(t)
         /\ \A x \in LiveIds(t) \cup {Missing} :
              To(NewIndex(t), x) = Resolve(OracleOf(t), x)
         /\ \A x, y \in LiveIds(t) :
              Resolve(OracleOf(t), x) = Resolve(OracleOf(t), y) => x = y
         /\ \A x \in LiveIds(t) : Resolve(OracleOf(t), x) # Missing
         /\ \A x \in tx.deletions[t] \cup {Missing} : Resolve(OracleOf(t), x) = Missing
         /\ \A x \in LiveIds(t) : Resolve(OracleOf(t), x) \in NewRows(t)
<1> DEFINE n == db.len[t]
           a == Len(tx.additions[t])
           del == tx.deletions[t]
<1>1. Plannable(n, a, del)
  BY PlanApplies, RowsAreIndices DEF Plannable
<1>2. /\ OracleOf(t) = Oracle(n, a, del) /\ LiveIds(t) = Live(n, a, del)
      /\ NewRows(t) = Places(n, a, del) /\ NewIndex(t) = NumberedBy(n, a, del)
      /\ StagedIds(t) = n .. n + a - 1 /\ RowsOf(t) = 0 .. n - 1
  BY DEF OracleOf, LiveIds, NewRows, Places, NewIndex, NumberedBy, StagedIds, RowsOf
<1> HIDE DEF n, a
<1> QED
  BY <1>1, <1>2, LiveNumbered

\* What materialization puts at the new index of a live id: staged rows where
\* they are sent, moved rows where they move, the others where they are.
LEMMA PlaceOf ==
  ASSUME TypeOK, NEW t \in Tables, NEW x \in LiveIds(t)
  PROVE  LET o == OracleOf(t)
             p == Resolve(o, x)
         IN  /\ x \in StagedIds(t) =>
                  /\ \E k \in DOMAIN o.dest : o.dest[k] = p
                  /\ (CHOOSE k \in DOMAIN o.dest : o.dest[k] = p) = x - db.len[t]
                  /\ x - db.len[t] \in 0 .. Len(tx.additions[t]) - 1
             /\ x \notin StagedIds(t) =>
                  /\ x \in RowsOf(t)
                  /\ ~ \E k \in DOMAIN o.dest : o.dest[k] = p
                  /\ x \in DOMAIN o.moves =>
                       /\ \E i \in DOMAIN o.moves : o.moves[i] = p
                       /\ (CHOOSE i \in DOMAIN o.moves : o.moves[i] = p) = x
                  /\ x \notin DOMAIN o.moves =>
                       /\ ~ \E i \in DOMAIN o.moves : o.moves[i] = p
                       /\ p = x
<1> DEFINE n == db.len[t]
           a == Len(tx.additions[t])
           del == tx.deletions[t]
<1>1. Plannable(n, a, del)
  BY PlanApplies, RowsAreIndices DEF Plannable
<1>2. /\ OracleOf(t) = Oracle(n, a, del) /\ LiveIds(t) = Live(n, a, del)
      /\ StagedIds(t) = n .. n + a - 1 /\ RowsOf(t) = 0 .. n - 1
  BY DEF OracleOf, LiveIds, StagedIds, RowsOf
<1> HIDE DEF n, a, del
<1>3. x \in Live(n, a, del)
  BY <1>2
<1> QED
  BY <1>1, <1>2, <1>3, LivePlace, SMTT(30) DEF n, a

\* The rows a commit moves stay.
LEMMA MovedRows ==
  ASSUME TypeOK, NEW t \in Tables
  PROVE  /\ DOMAIN OracleOf(t).moves \subseteq RowsOf(t) \ tx.deletions[t]
         /\ \A x \in LiveIds(t) : x \notin StagedIds(t) /\ x \notin DOMAIN OracleOf(t).moves =>
              Resolve(OracleOf(t), x) = x
         /\ MovedTo(t) = {Resolve(OracleOf(t), i) : i \in DOMAIN OracleOf(t).moves}
         /\ MovedTo(t) \subseteq NewRows(t)
<1> DEFINE n == db.len[t]
           a == Len(tx.additions[t])
           del == tx.deletions[t]
<1>1. Plannable(n, a, del)
  BY PlanApplies, RowsAreIndices DEF Plannable
<1>2. /\ OracleOf(t) = Oracle(n, a, del) /\ LiveIds(t) = Live(n, a, del)
      /\ NewRows(t) = Places(n, a, del) /\ RowsOf(t) = 0 .. n - 1
      /\ MovedTo(t) = {OracleOf(t).moves[i] : i \in DOMAIN OracleOf(t).moves}
  BY DEF OracleOf, LiveIds, NewRows, Places, RowsOf, MovedTo
<1>3. /\ LiveIds(t) = (RowsOf(t) \ tx.deletions[t]) \cup StagedIds(t)
      /\ db.len[t] \in Nat
  BY TableRenumbered, PlanApplies
<1> HIDE DEF n, a, del
<1> DEFINE o == Oracle(n, a, del)
<1>4. DOMAIN o.moves \subseteq (0 .. n - 1) \ del
  BY <1>1, LiveMoves
<1>5. \A x \in Live(n, a, del) : x \in 0 .. n - 1 /\ x \notin DOMAIN o.moves => Resolve(o, x) = x
  BY <1>1, LiveMoves
<1>6. /\ {o.moves[i] : i \in DOMAIN o.moves} = {Resolve(o, i) : i \in DOMAIN o.moves}
      /\ {o.moves[i] : i \in DOMAIN o.moves} \subseteq Places(n, a, del)
  BY ONLY <1>1, LiveMoves
<1> HIDE DEF o
<1>7. OracleOf(t) = o
  BY <1>2 DEF o
<1>8. DOMAIN o.moves \subseteq RowsOf(t) \ tx.deletions[t]
  BY <1>2, <1>4 DEF del
<1>9. \A x \in LiveIds(t) : x \notin StagedIds(t) /\ x \notin DOMAIN o.moves => Resolve(o, x) = x
  BY <1>2, <1>3, <1>5
<1>10. MovedTo(t) = {Resolve(o, i) : i \in DOMAIN o.moves} /\ MovedTo(t) \subseteq NewRows(t)
  BY <1>2, <1>6, <1>7
<1> QED
  BY <1>7, <1>8, <1>9, <1>10

\* When no relinked row is deleted, all updates survive.
LEMMA UpdatesSurvive ==
  ASSUME TypeOK, RelinkedRowsStay, NEW f \in ForeignKeys
  PROVE  SurvivingUpdates(tx.updates[f], OracleOf(Source[f])) = tx.updates[f]
<1> DEFINE upd == tx.updates[f]
           n == Len(upd)
           so == OracleOf(Source[f])
           places == {k \in DOMAIN upd : Resolve(so, upd[k].row) # Missing}
<1>1. Source[f] \in Tables
  BY SchemaAssumption
<1>2. upd \in Seq(StagedKey) /\ n \in Nat /\ DOMAIN upd = 1 .. n
  <2>1. upd \in Seq(StagedKey)
    BY EditFields DEF TypeOK, EditsTyped, StagedUpdates
  <2> QED
    BY <2>1
<1>3. ASSUME NEW k \in DOMAIN upd PROVE Resolve(so, upd[k].row) # Missing
  <2>1. upd[k].row \in Relinked(f)
    BY DEF Relinked
  <2>2. upd[k].row \in RowsOf(Source[f]) /\ upd[k].row \notin tx.deletions[Source[f]]
    BY <2>1 DEF TypeOK, EditsTyped, RelinkedRowsStay
  <2>3. upd[k].row \in LiveIds(Source[f])
    BY <1>1, <2>2, TableRenumbered
  <2> QED
    BY <1>1, <2>3, TableRenumbered
<1>4. places = 1 .. n
  BY <1>2, <1>3
<1>5. SurvivingUpdates(upd, so)
        = [i \in 1 .. Cardinality(places) |-> upd[Nth(i - 1, places)]]
  BY DEF SurvivingUpdates, EntriesAt
<1> HIDE DEF upd, n, so, places
<1>6. CASE n = 0
  <2>1. Cardinality(places) = 0
    <3>1. 1 .. 0 = {}
      OBVIOUS
    <3> QED
      BY <1>4, <1>6, <3>1, FS_EmptySet
  <2>2. SurvivingUpdates(upd, so) = [i \in 1 .. 0 |-> upd[Nth(i - 1, places)]]
    BY <1>5, <2>1
  <2>3. SurvivingUpdates(upd, so) = [i \in 1 .. 0 |-> upd[i]]
    BY <2>2
  <2> QED
    BY <1>2, <1>6, <2>3 DEF upd, so, n
<1>7. CASE n # 0
  <2>1. Cardinality(places) = n /\ \A i \in 1 .. n : Nth(i - 1, places) = i
    <3>1. 1 \in 1 .. n
      BY <1>2, <1>7
    <3> QED
      BY <1>2, <1>4, <3>1, NthPlace
  <2>2. SurvivingUpdates(upd, so) = [i \in 1 .. n |-> upd[Nth(i - 1, places)]]
    BY <1>5, <2>1
  <2>3. SurvivingUpdates(upd, so) = [i \in 1 .. n |-> upd[i]]
    BY <2>1, <2>2
  <2> QED
    BY <1>2, <2>3 DEF upd, so, n
<1> QED
  BY <1>6, <1>7

(***************************************************************************)
(* The patch of a commit.                                                  *)
(***************************************************************************)
\* What is staged has the keys it may have.
StagedTargetsExist ==
  \A f \in ForeignKeys :
    /\ \A k \in DOMAIN tx.additions[Source[f]] :
         tx.additions[Source[f]][k][f] \in KeysTo(Target[f])
    /\ \A k \in DOMAIN tx.updates[f] : tx.updates[f][k].target \in KeysTo(Target[f])

\* No row is relinked twice.
UpdatesDiffer ==
  \A f \in ForeignKeys : \A i, j \in DOMAIN tx.updates[f] :
    tx.updates[f][i].row = tx.updates[f][j].row => i = j

\* A transaction that commits.
Committing ==
  /\ TypeOK /\ StagedTargetsExist /\ UpdatesDiffer /\ StagedKeysLive /\ DeletionsClosed
  /\ RelinkedRowsStay /\ RelinkTargetsStay /\ RelinkTargetsKeepTheirIndex /\ RelinkOrAdd
  /\ \A f \in ForeignKeys : ToNullify(f) = {}

\* The rows that leave their lists of key f, and the items put into its lists.
Departing(f) == tx.deletions[Source[f]] \cup tx.unlinks[f] \cup Relinked(f)
Staged(f) == StagedItems(f, OracleOf(Source[f]))
Arriving(f) == tx.updates[f] \o Staged(f)

\* Staged rows and updates of a commit.
LEMMA StagedItemsAre ==
  ASSUME TypeOK, NEW f \in ForeignKeys
  PROVE  /\ DOMAIN Staged(f) = 1 .. Len(tx.additions[Source[f]])
         /\ Len(tx.additions[Source[f]]) \in Nat
         /\ \A k \in 1 .. Len(tx.additions[Source[f]]) :
              /\ Staged(f)[k].row = db.len[Source[f]] + (k - 1)
              /\ Staged(f)[k].target = tx.additions[Source[f]][k][f]
         /\ {Staged(f)[k].row : k \in DOMAIN Staged(f)} = StagedIds(Source[f])
         /\ tx.updates[f] \in Seq(StagedKey)
         /\ DOMAIN tx.updates[f] = 1 .. Len(tx.updates[f]) /\ Len(tx.updates[f]) \in Nat
         /\ {tx.updates[f][k].row : k \in DOMAIN tx.updates[f]} = Relinked(f)
         /\ Follow(tx.updates[f], Len(tx.updates[f]),
                   Staged(f), Len(tx.additions[Source[f]]), Arriving(f))
         /\ DOMAIN Arriving(f) = 1 .. Len(tx.updates[f]) + Len(tx.additions[Source[f]])
<1> DEFINE n == db.len[Source[f]]
           a == Len(tx.additions[Source[f]])
           add == tx.additions[Source[f]]
           upd == tx.updates[f]
           u == Len(upd)
<1>1. Source[f] \in Tables
  BY SchemaAssumption
<1>2. n \in Nat /\ a \in Nat
  BY <1>1, PlanApplies
<1>3. OracleOf(Source[f]).start = n
  BY DEF OracleOf, Oracle
<1>4. Staged(f) = [k \in 1 .. a |-> [row |-> n + (k - 1), target |-> add[k][f]]]
  BY <1>3 DEF Staged, StagedItems
<1>5. upd \in Seq(StagedKey)
  BY EditFields DEF TypeOK, EditsTyped, StagedUpdates
<1>6. StagedIds(Source[f]) = n .. n + a - 1
  BY DEF StagedIds
<1>7. {upd[k].row : k \in DOMAIN upd} = Relinked(f)
  BY DEF Relinked
<1>8. Arriving(f) = upd \o Staged(f)
  BY DEF Arriving
<1> HIDE DEF n, a, upd, add
<1>9. DOMAIN Staged(f) = 1 .. a /\ \A k \in 1 .. a : /\ Staged(f)[k].row = n + (k - 1)
                                                   /\ Staged(f)[k].target = add[k][f]
  BY <1>4
<1>10. {Staged(f)[k].row : k \in DOMAIN Staged(f)} = n .. n + a - 1
  <2>1. {Staged(f)[k].row : k \in DOMAIN Staged(f)} = {n + (k - 1) : k \in 1 .. a}
    BY <1>9
  <2>2. \A x \in n .. n + a - 1 : x - n + 1 \in 1 .. a /\ x = n + ((x - n + 1) - 1)
    BY <1>2
  <2>3. \A k \in 1 .. a : n + (k - 1) \in n .. n + a - 1
    BY <1>2
  <2> QED
    BY <2>1, <2>2, <2>3
<1>11. Staged(f) \in Seq({Staged(f)[k] : k \in 1 .. a}) /\ Len(Staged(f)) = a
  <2> DEFINE st == Staged(f)
             S == {st[k] : k \in 1 .. a}
  <2>1. st = [k \in 1 .. a |-> st[k]]
    BY <1>4
  <2>2. \A k \in 1 .. a : st[k] \in S
    OBVIOUS
  <2> HIDE DEF st, S
  <2>3. st \in [1 .. a -> S]
    BY <2>1, <2>2
  <2>4. st \in Seq(S) /\ Len(st) = a
    BY <1>2, <2>3
  <2> QED
    BY <2>4 DEF st, S
<1>12. Follow(upd, u, Staged(f), a, Arriving(f))
  <2>1. DOMAIN upd = 1 .. u /\ u \in Nat
    BY <1>5
  <2>2. /\ DOMAIN Arriving(f) = 1 .. u + a
        /\ \A i \in 1 .. u + a : Arriving(f)[i] = IF i <= u THEN upd[i] ELSE Staged(f)[i - u]
    <3> DEFINE st == Staged(f)
               S == {st[k] : k \in 1 .. a}
               Z == StagedKey \cup S
               both == upd \o st
    <3>1. st \in Seq(S) /\ Len(st) = a
      BY <1>11
    <3> HIDE DEF st, S
    <3>2. st \in Seq(Z) /\ upd \in Seq(Z)
      BY <1>5, <3>1
    <3> HIDE DEF Z
    <3>3. /\ both \in Seq(Z) /\ Len(both) = u + a
          /\ \A i \in 1 .. u + a : both[i] = IF i <= u THEN upd[i] ELSE st[i - u]
      BY <3>1, <3>2, ConcatProperties
    <3>4. Arriving(f) = both
      BY <1>8 DEF st
    <3> HIDE DEF both
    <3> QED
      BY <3>3, <3>4 DEF st
  <2> HIDE DEF u
  <2>3. \A i \in 1 .. u : Arriving(f)[i] = upd[i]
    BY <1>2, <2>1, <2>2
  <2>4. \A i \in 1 .. a : Arriving(f)[u + i] = Staged(f)[i]
    <3> SUFFICES ASSUME NEW i \in 1 .. a PROVE Arriving(f)[u + i] = Staged(f)[i]
      OBVIOUS
    <3>1. u + i \in 1 .. u + a /\ ~(u + i <= u) /\ (u + i) - u = i
      BY <1>2, <2>1
    <3> DEFINE z == u + i
    <3> HIDE DEF z
    <3>2. Arriving(f)[z] = Staged(f)[z - u]
      BY <2>2, <3>1 DEF z
    <3> QED
      BY <3>1, <3>2 DEF z
  <2> QED
    BY <1>9, <2>1, <2>2, <2>3, <2>4 DEF Follow
<1>13. DOMAIN upd = 1 .. u /\ u \in Nat
  BY <1>5
<1> QED
  BY <1>2, <1>5, <1>6, <1>7, <1>9, <1>10, <1>12, <1>13 DEF n, a, upd, add, u, Follow

\* The rows that leave lists and those that are put into lists.
LEMMA RowsOfCommit ==
  ASSUME Committing, NEW f \in ForeignKeys
  PROVE  /\ Departing(f) \subseteq RowsOf(Source[f])
         /\ Departing(f) = tx.deletions[Source[f]] \cup Relinked(f)
         /\ Relinked(f) \cap tx.deletions[Source[f]] = {}
         /\ Relinked(f) \subseteq RowsOf(Source[f])
         /\ RowsOf(Source[f]) \cap StagedIds(Source[f]) = {}
         /\ LiveIds(Source[f])
              = (RowsOf(Source[f]) \ Departing(f)) \cup Relinked(f) \cup StagedIds(Source[f])
<1> DEFINE I == RowsOf(Source[f])
           del == tx.deletions[Source[f]]
<1>1. Source[f] \in Tables /\ TypeOK /\ RelinkedRowsStay /\ ToNullify(f) = {}
  BY SchemaAssumption DEF Committing
<1>2. /\ del \subseteq I /\ Relinked(f) \subseteq I /\ tx.unlinks[f] \subseteq I
      /\ Relinked(f) \cap del = {}
  BY <1>1 DEF TypeOK, EditsTyped, RelinkedRowsStay
<1>3. I \cap StagedIds(Source[f]) = {}
  <2>1. db.len[Source[f]] \in Nat
    BY <1>1, PlanApplies
  <2> QED
    BY <2>1 DEF RowsOf, StagedIds
<1>4. /\ LiveIds(Source[f]) = (I \ del) \cup StagedIds(Source[f])
      /\ \A x \in LiveIds(Source[f]) : Resolve(OracleOf(Source[f]), x) # Missing
  BY <1>1, TableRenumbered
<1>5. tx.unlinks[f] \subseteq del
  <2> SUFFICES ASSUME NEW x \in tx.unlinks[f], x \notin del PROVE FALSE
    OBVIOUS
  <2>1. x \in LiveIds(Source[f])
    BY <1>2, <1>4
  <2>2. x \in ToNullify(f)
    BY <1>4, <2>1 DEF ToNullify
  <2> QED
    BY <1>1, <2>2
<1>6. Departing(f) = del \cup Relinked(f)
  BY <1>5 DEF Departing
<1> HIDE DEF I, del
<1>7. LiveIds(Source[f]) = (I \ Departing(f)) \cup Relinked(f) \cup StagedIds(Source[f])
  BY <1>2, <1>4, <1>6
<1> QED
  BY <1>2, <1>3, <1>6, <1>7 DEF I, del

\* The items of a commit: which rows they are, and that their targets stay.
LEMMA ItemsOfCommit ==
  ASSUME Committing, NEW f \in ForeignKeys
  PROVE  LET n == Len(tx.updates[f]) + Len(tx.additions[Source[f]])
             items == Arriving(f)
         IN  /\ n \in Nat /\ DOMAIN items = 1 .. n
             /\ {items[i].row : i \in 1 .. n} = Relinked(f) \cup StagedIds(Source[f])
             /\ \A i, j \in 1 .. n : items[i].row = items[j].row => i = j
             /\ \A i \in 1 .. n : items[i].target \in LiveIds(Target[f]) \cup {Missing}
<1> DEFINE u == Len(tx.updates[f])
           a == Len(tx.additions[Source[f]])
           upd == tx.updates[f]
           st == Staged(f)
           items == Arriving(f)
           len == db.len[Source[f]]
<1>1. /\ Source[f] \in Tables /\ Target[f] \in Tables /\ TypeOK /\ StagedTargetsExist
      /\ UpdatesDiffer /\ StagedKeysLive /\ RelinkTargetsStay
  BY SchemaAssumption DEF Committing
<1>2. /\ DOMAIN st = 1 .. a /\ a \in Nat
      /\ \A k \in 1 .. a : /\ st[k].row = len + (k - 1)
                           /\ st[k].target = tx.additions[Source[f]][k][f]
      /\ {st[k].row : k \in DOMAIN st} = StagedIds(Source[f])
      /\ DOMAIN upd = 1 .. u /\ u \in Nat
      /\ {upd[k].row : k \in DOMAIN upd} = Relinked(f)
      /\ Follow(upd, u, st, a, items)
      /\ DOMAIN items = 1 .. u + a
  BY <1>1, StagedItemsAre
<1>3. DOMAIN tx.additions[Source[f]] = 1 .. a
  <2>1. tx.additions[Source[f]] \in Seq(StagedRow(Source[f]))
    BY <1>1 DEF TypeOK, EditsTyped
  <2> QED
    BY <2>1
<1>4. /\ \A k \in 1 .. u : /\ upd[k].target \in KeysTo(Target[f])
                           /\ upd[k].target \notin tx.deletions[Target[f]]
      /\ \A k \in 1 .. a : /\ tx.additions[Source[f]][k][f] \in KeysTo(Target[f])
                           /\ tx.additions[Source[f]][k][f] \notin tx.deletions[Target[f]]
      /\ \A i, j \in 1 .. u : upd[i].row = upd[j].row => i = j
  BY <1>1, <1>2, <1>3 DEF StagedTargetsExist, RelinkTargetsStay, StagedKeysLive, UpdatesDiffer
<1>5. \A x \in KeysTo(Target[f]) : x \notin tx.deletions[Target[f]] =>
        x \in LiveIds(Target[f]) \cup {Missing}
  BY <1>1, TableRenumbered DEF KeysTo
<1>6. len \in Nat
  BY <1>1, PlanApplies
<1>7. /\ Relinked(f) \cap StagedIds(Source[f]) = {}
  BY RowsOfCommit
<1> HIDE DEF u, a, upd, st, items, len
<1> DEFINE J == 1 .. u
           K == 1 .. a
           N == 1 .. u + a
           at(i) == u + i
<1>17. u \in Nat /\ a \in Nat /\ Follow(upd, u, st, a, items)
  BY <1>2
<1>8. /\ \A i \in J : i \in N /\ items[i] = upd[i]
      /\ \A i \in K : at(i) \in N /\ items[at(i)] = st[i]
      /\ \A i \in N : i \in J \/ \E j \in K : i = at(j)
  <2>1. \A i \in N : i \notin J => i - u \in K /\ i = at(i - u)
    BY <1>17
  <2>2. /\ \A i \in J : i \in N /\ items[i] = upd[i]
        /\ \A i \in K : at(i) \in N /\ items[at(i)] = st[i]
    BY <1>17 DEF Follow
  <2> HIDE DEF J, K, N, at
  <2> QED
    BY <2>1, <2>2
<1>9. \A i, j \in K : st[i].row = st[j].row => i = j
  BY <1>2, <1>6
<1>10. /\ \A i \in J : upd[i].row \in Relinked(f)
       /\ \A i \in K : st[i].row \in StagedIds(Source[f])
       /\ \A x \in Relinked(f) : \E i \in J : upd[i].row = x
       /\ \A x \in StagedIds(Source[f]) : \E i \in K : st[i].row = x
  BY <1>2
<1>11. /\ \A i \in J : upd[i].target \in LiveIds(Target[f]) \cup {Missing}
       /\ \A i \in K : st[i].target \in LiveIds(Target[f]) \cup {Missing}
  BY <1>2, <1>4, <1>5
<1>12. \A i, j \in J : upd[i].row = upd[j].row => i = j
  BY <1>4
<1>13. DOMAIN items = N /\ u + a \in Nat
  BY <1>17 DEF Follow
<1> HIDE DEF J, K, N, at
<1>14. {items[i].row : i \in N} = Relinked(f) \cup StagedIds(Source[f])
  <2>1. \A i \in N : items[i].row \in Relinked(f) \cup StagedIds(Source[f])
    BY <1>8, <1>10
  <2>2. \A x \in Relinked(f) : \E i \in N : items[i].row = x
    BY <1>8, <1>10
  <2>3. \A x \in StagedIds(Source[f]) : \E i \in N : items[i].row = x
    BY <1>8, <1>10
  <2> QED
    BY <2>1, <2>2, <2>3
<1>15. \A i, j \in N : items[i].row = items[j].row => i = j
  BY <1>7, <1>8, <1>9, <1>10, <1>12
<1>16. \A i \in N : items[i].target \in LiveIds(Target[f]) \cup {Missing}
  BY <1>8, <1>11
<1> QED
  BY <1>13, <1>14, <1>15, <1>16 DEF N, u, a, items

\* The heads a commit leaves to the items: those of targets that are staged for,
\* deleted or relinked to.
Ignored(f) ==
  ({Staged(f)[k].target : k \in DOMAIN Staged(f)} \ {Missing})
    \cup tx.deletions[Target[f]]
    \cup {Resolve(OracleOf(Target[f]), tx.updates[f][k].target) : k \in DOMAIN tx.updates[f]}

MovedOf(f) == DOMAIN OracleOf(Source[f]).moves \ Departing(f)

\* The patch of a commit is one that keeps the rows that stay in their order,
\* followed by one splice of all items.
LEMMA PatchOfCommit ==
  ASSUME Committing, NEW f \in ForeignKeys, NEW ord,
         Linked(RowsOf(Source[f]), RowsOf(Target[f]), db.col[f], ord)
  PROVE  \E q, s :
           /\ KeptLinks(RowsOf(Source[f]), RowsOf(Target[f]), db.col[f], ord,
                        Departing(f), MovedOf(f), Ignored(f), q)
           /\ SplicedLinks(db.col[f], Arriving(f), Departing(f), s)
           /\ TopologyPatch(f, OracleOf(Source[f]), OracleOf(Target[f])) = ThenPatch(q, s)
<1> DEFINE I == RowsOf(Source[f])
           T == RowsOf(Target[f])
           c == db.col[f]
           dead == Departing(f)
           upd == tx.updates[f]
           st == Staged(f)
           u == Len(tx.updates[f])
           a == Len(tx.additions[Source[f]])
           moved == MovedOf(f)
           ignore == Ignored(f)
           q == ThenPatch(PatchUnlinked(c, dead, ignore), PatchRelocated(c, moved, ignore))
           s1 == Splice(c, upd, dead)
           s2 == Splice(c, st, dead)
<1>1. /\ Source[f] \in Tables /\ TypeOK /\ RelinkedRowsStay /\ UpdatesDiffer /\ RelinkOrAdd
  BY SchemaAssumption DEF Committing
<1>2. /\ dead \subseteq I /\ Relinked(f) \subseteq dead /\ I \cap StagedIds(Source[f]) = {}
  BY RowsOfCommit
<1>3. IsFiniteSet(I)
  BY <1>1, RowsAreIndices
<1>4. moved \in SUBSET I /\ moved \cap dead = {}
  BY <1>1, MovedRows DEF MovedOf
<1>5. TopologyPatch(f, OracleOf(Source[f]), OracleOf(Target[f]))
        = ThenPatch(ThenPatch(q, s1), s2)
  <2>1. /\ OracleOf(Source[f]).deletions = tx.deletions[Source[f]]
        /\ OracleOf(Target[f]).deletions = tx.deletions[Target[f]]
    BY DEF OracleOf, Oracle
  <2>2. SurvivingUpdates(upd, OracleOf(Source[f])) = upd
    BY <1>1, UpdatesSurvive
  <2> QED
    BY <2>1, <2>2 DEF TopologyPatch, Staged, Departing, MovedOf, Ignored
<1>6. /\ DOMAIN st = 1 .. a /\ a \in Nat
      /\ \A k \in 1 .. a : /\ st[k].row = db.len[Source[f]] + (k - 1)
                           /\ st[k].target = tx.additions[Source[f]][k][f]
      /\ {st[k].row : k \in DOMAIN st} = StagedIds(Source[f])
      /\ DOMAIN upd = 1 .. u /\ u \in Nat
      /\ {upd[k].row : k \in DOMAIN upd} = Relinked(f)
      /\ Follow(upd, u, st, a, Arriving(f))
  BY <1>1, StagedItemsAre
<1>7. \A i, j \in 1 .. a : st[i].row = st[j].row => i = j
  <2> DEFINE len == db.len[Source[f]]
  <2>1. len \in Nat
    BY <1>1, PlanApplies
  <2>2. \A k \in 1 .. a : st[k].row = len + (k - 1)
    BY <1>6
  <2> HIDE DEF a, st, len
  <2> QED
    BY <2>1, <2>2
<1>8. \A i, j \in 1 .. u : upd[i].row = upd[j].row => i = j
  BY <1>1, <1>6 DEF UpdatesDiffer
<1>9. \A i \in 1 .. u, j \in 1 .. a : upd[i].target = st[j].target => upd[i].target = Missing
  <2>1. DOMAIN tx.additions[Source[f]] = 1 .. a
    <3>1. tx.additions[Source[f]] \in Seq(StagedRow(Source[f]))
      BY <1>1 DEF TypeOK, EditsTyped
    <3> QED
      BY <3>1
  <2> QED
    BY <1>1, <1>6, <2>1 DEF RelinkOrAdd
<1>10. /\ \A i \in 1 .. u : upd[i].row \in dead
       /\ \A i \in 1 .. a : st[i].row \in StagedIds(Source[f])
  BY <1>2, <1>6
<1> HIDE DEF I, T, c, dead, upd, st, u, a, moved, ignore
<1>11. Linked(I, T, c, ord)
  BY DEF I, T, c
<1>12. /\ \A i \in 1 .. u : upd[i].row \notin I \ dead
       /\ \A i \in 1 .. a : st[i].row \notin I \ dead
       /\ \A i \in 1 .. u, j \in 1 .. a : upd[i].row # st[j].row
  BY <1>2, <1>10
<1>13. KeptLinks(I, T, c, ord, dead, moved, ignore, q)
  BY <1>2, <1>3, <1>4, <1>11, KeptLinksHold
<1>14. SplicedLinks(c, upd, dead, s1)
  BY <1>2, <1>3, <1>6, <1>8, <1>11, <1>12, SpliceLinks
<1>15. SplicedLinks(c, st, dead, s2)
  BY <1>2, <1>3, <1>6, <1>7, <1>11, <1>12, SpliceLinks
<1> HIDE DEF q, s1, s2
<1>16. SplicedLinks(c, Arriving(f), dead, ThenPatch(s1, s2))
  BY <1>2, <1>3, <1>6, <1>9, <1>11, <1>12, <1>14, <1>15, SplicesJoin
<1>17. TopologyPatch(f, OracleOf(Source[f]), OracleOf(Target[f]))
         = ThenPatch(q, ThenPatch(s1, s2))
  BY <1>5, PatchesCompose
<1> QED
  BY <1>13, <1>16, <1>17 DEF I, T, c, dead, moved, ignore

\* The patch of the commit for key f.
PatchOf(f) == TopologyPatch(f, OracleOf(Source[f]), OracleOf(Target[f]))

\* The key a live row has after the commit, in indices from before.
KeyAfter(f, x) ==
  IF x \in RowsOf(Source[f]) \ Departing(f) THEN db.col[f].fk[x]
  ELSE Arriving(f)[CHOOSE i \in DOMAIN Arriving(f) : Arriving(f)[i].row = x].target

HeadAfter(f, t) ==
  IF t \in DOMAIN PatchOf(f).head THEN PatchOf(f).head[t]
  ELSE IF t \in RowsOf(Target[f]) THEN db.col[f].head[t] ELSE Missing

\* The columns of key f after the commit, in indices from before.
ColumnsAfter(f) ==
  [fk   |-> [x \in LiveIds(Source[f]) |-> KeyAfter(f, x)],
   nxt  |-> [x \in LiveIds(Source[f]) |-> PatchedAt(db.col[f].nxt, PatchOf(f).nxt, x)],
   prv  |-> [x \in LiveIds(Source[f]) |-> PatchedAt(db.col[f].prv, PatchOf(f).prv, x)],
   head |-> [t \in LiveIds(Target[f]) |-> HeadAfter(f, t)]]

\* Their keys are those of the rows that stay and of the items.
LEMMA ColumnsAfterPatched ==
  ASSUME Committing, NEW f \in ForeignKeys
  PROVE  PatchedColumns(RowsOf(Source[f]), RowsOf(Target[f]), db.col[f], Departing(f),
                        Arriving(f), LiveIds(Source[f]), LiveIds(Target[f]),
                        ColumnsAfter(f), PatchOf(f))
<1> DEFINE n == Len(tx.updates[f]) + Len(tx.additions[Source[f]])
           items == Arriving(f)
           I == RowsOf(Source[f])
           L == LiveIds(Source[f])
           LT == LiveIds(Target[f])
           dead == Departing(f)
           d == ColumnsAfter(f)
<1>1. /\ DOMAIN items = 1 .. n
      /\ {items[i].row : i \in 1 .. n} = Relinked(f) \cup StagedIds(Source[f])
      /\ \A i, j \in 1 .. n : items[i].row = items[j].row => i = j
  BY ItemsOfCommit
<1>2. /\ L = (I \ dead) \cup Relinked(f) \cup StagedIds(Source[f])
      /\ Relinked(f) \subseteq dead /\ I \cap StagedIds(Source[f]) = {}
  BY RowsOfCommit
<1>3. /\ DOMAIN d.fk = L /\ DOMAIN d.nxt = L /\ DOMAIN d.prv = L /\ DOMAIN d.head = LT
      /\ \A x \in L : /\ d.fk[x] = KeyAfter(f, x)
                      /\ d.nxt[x] = PatchedAt(db.col[f].nxt, PatchOf(f).nxt, x)
                      /\ d.prv[x] = PatchedAt(db.col[f].prv, PatchOf(f).prv, x)
      /\ \A t \in LT : d.head[t] = HeadAfter(f, t)
  BY DEF ColumnsAfter
<1> HIDE DEF items, I, L, LT, dead, d, n
<1>4. ASSUME NEW x \in I \ dead PROVE d.fk[x] = db.col[f].fk[x]
  BY <1>2, <1>3 DEF KeyAfter, I, dead
<1>5. ASSUME NEW i \in 1 .. n PROVE d.fk[items[i].row] = items[i].target
  <2>1. items[i].row \in L /\ items[i].row \notin I \ dead
    BY <1>1, <1>2
  <2>2. d.fk[items[i].row]
          = items[CHOOSE j \in DOMAIN items : items[j].row = items[i].row].target
    BY <1>3, <2>1 DEF KeyAfter, I, dead, items
  <2>3. (CHOOSE j \in DOMAIN items : items[j].row = items[i].row) = i
    BY <1>1
  <2> QED
    BY <2>2, <2>3
<1>6. L = (I \ dead) \cup {items[i].row : i \in DOMAIN items}
  BY <1>1, <1>2
<1> QED
  BY <1>1, <1>3, <1>4, <1>5, <1>6 DEF PatchedColumns, HeadAfter, items, I, L, LT, dead, d

\* Every target whose head is left to the items gets an item, if it stays.
LEMMA IgnoredAreTargets ==
  ASSUME Committing, NEW f \in ForeignKeys, NEW t \in Ignored(f) \cap LiveIds(Target[f])
  PROVE  \E i \in DOMAIN Arriving(f) : Arriving(f)[i].target = t
<1> DEFINE u == Len(tx.updates[f])
           a == Len(tx.additions[Source[f]])
           upd == tx.updates[f]
           st == Staged(f)
           items == Arriving(f)
<1>1. Source[f] \in Tables /\ Target[f] \in Tables /\ TypeOK /\ RelinkTargetsKeepTheirIndex
  BY SchemaAssumption DEF Committing
<1>2. /\ DOMAIN st = 1 .. a /\ a \in Nat /\ DOMAIN upd = 1 .. u /\ u \in Nat
      /\ Follow(upd, u, st, a, items) /\ DOMAIN items = 1 .. u + a
  BY <1>1, StagedItemsAre
<1>3. t \notin tx.deletions[Target[f]] /\ t # Missing
  BY <1>1, TableRenumbered DEF LiveIds, Live
<1>4. CASE t \in {st[k].target : k \in DOMAIN st}
  <2>1. PICK k \in 1 .. a : t = st[k].target
    BY <1>2, <1>4
  <2> HIDE DEF u, a, items, st
  <2>2. u + k \in 1 .. u + a /\ items[u + k] = st[k]
    BY <1>2 DEF Follow
  <2> QED
    BY <1>2, <2>1, <2>2 DEF items
<1>5. CASE t \in {Resolve(OracleOf(Target[f]), upd[k].target) : k \in DOMAIN upd}
  <2>1. PICK k \in DOMAIN upd : t = Resolve(OracleOf(Target[f]), upd[k].target)
    BY <1>5
  <2>2. t = upd[k].target
    BY <1>1, <1>3, <2>1 DEF RelinkTargetsKeepTheirIndex
  <2> HIDE DEF u, a, items, upd
  <2>3. k \in 1 .. u + a /\ items[k] = upd[k]
    BY <1>2 DEF Follow
  <2> QED
    BY <1>2, <2>2, <2>3 DEF items
<1> QED
  BY <1>3, <1>4, <1>5 DEF Ignored

\* The keys of rows that stay do.
LEMMA KeptKeysStay ==
  ASSUME Committing, NEW f \in ForeignKeys, NEW ord,
         Linked(RowsOf(Source[f]), RowsOf(Target[f]), db.col[f], ord),
         NEW x \in RowsOf(Source[f]) \ Departing(f)
  PROVE  db.col[f].fk[x] \in (LiveIds(Target[f]) \cap RowsOf(Target[f])) \cup {Missing}
<1>1. TypeOK /\ DeletionsClosed /\ Target[f] \in Tables
  BY SchemaAssumption DEF Committing
<1>2. db.col[f].fk[x] \in RowsOf(Target[f]) \cup {Missing}
  BY DEF Linked, Columns
<1>3. db.col[f].fk[x] \notin tx.deletions[Target[f]]
  BY <1>1 DEF DeletionsClosed, Departing
<1> QED
  BY <1>1, <1>2, <1>3, TableRenumbered

\* In indices from before, the patch leaves every list linked.
LEMMA PatchedListsLinked ==
  ASSUME Committing, NEW f \in ForeignKeys, NEW ord,
         Linked(RowsOf(Source[f]), RowsOf(Target[f]), db.col[f], ord)
  PROVE  \E new : Linked(LiveIds(Source[f]), LiveIds(Target[f]), ColumnsAfter(f), new)
<1> DEFINE I == RowsOf(Source[f])
           T == RowsOf(Target[f])
           c == db.col[f]
           dead == Departing(f)
           items == Arriving(f)
           L == LiveIds(Source[f])
           LT == LiveIds(Target[f])
           d == ColumnsAfter(f)
           n == Len(tx.updates[f]) + Len(tx.additions[Source[f]])
           ignore == Ignored(f)
           moved == MovedOf(f)
<1>1. PICK q, s : /\ KeptLinks(I, T, c, ord, dead, moved, ignore, q)
                  /\ SplicedLinks(c, items, dead, s)
                  /\ PatchOf(f) = ThenPatch(q, s)
  BY PatchOfCommit DEF PatchOf
<1>2. PatchedColumns(I, T, c, dead, items, L, LT, d, ThenPatch(q, s))
  BY <1>1, ColumnsAfterPatched
<1>3. /\ n \in Nat /\ DOMAIN items = 1 .. n
      /\ {items[i].row : i \in 1 .. n} = Relinked(f) \cup StagedIds(Source[f])
      /\ \A i, j \in 1 .. n : items[i].row = items[j].row => i = j
      /\ \A i \in 1 .. n : items[i].target \in LT \cup {Missing}
  BY ItemsOfCommit
<1>4. \A x \in I \ dead : c.fk[x] \in LT \cup {Missing}
  BY KeptKeysStay
<1>5. \A t \in ignore \cap LT : \E i \in 1 .. n : items[i].target = t
  BY <1>3, IgnoredAreTargets, ZenonT(30)
<1>6. /\ dead \in SUBSET I /\ Relinked(f) \subseteq dead /\ I \cap StagedIds(Source[f]) = {}
      /\ L = (I \ dead) \cup Relinked(f) \cup StagedIds(Source[f])
  BY RowsOfCommit
<1>7. Source[f] \in Tables /\ Target[f] \in Tables /\ TypeOK
  BY SchemaAssumption DEF Committing
<1>8. Missing \notin L /\ Missing \notin LT
  BY <1>7, TableRenumbered
<1>9. IsFiniteSet(I)
  BY <1>7, RowsAreIndices
<1>10. Linked(I, T, c, ord)
  OBVIOUS
<1> HIDE DEF I, T, c, dead, items, L, LT, d, n, ignore, moved
<1>11. \A i \in 1 .. n : items[i].row \notin I \ dead /\ items[i].row # Missing
  <2>1. \A i \in 1 .. n : items[i].row \in Relinked(f) \cup StagedIds(Source[f])
    BY <1>3
  <2> QED
    BY <1>6, <1>8, <2>1
<1>12. SplicedAfterKept(I, T, c, ord, dead, moved, ignore, q, n, items, s, LT)
  BY <1>1, <1>3, <1>4, <1>5, <1>6, <1>8, <1>9, <1>10, <1>11 DEF SplicedAfterKept
<1>13. \E new : Linked(L, LT, d, new)
  BY <1>2, <1>12, PatchLinks
<1> QED
  BY <1>13 DEF L, LT, d

\* What the patch does not write is neither gone nor moved.
LEMMA UnwrittenLinks ==
  ASSUME Committing, NEW f \in ForeignKeys, NEW ord,
         Linked(RowsOf(Source[f]), RowsOf(Target[f]), db.col[f], ord)
  PROVE  LET c == db.col[f]
             stays == (RowsOf(Source[f]) \ Departing(f)) \ MovedOf(f)
         IN  /\ DOMAIN PatchOf(f).nxt \subseteq LiveIds(Source[f]) \cup tx.deletions[Source[f]]
             /\ DOMAIN PatchOf(f).prv \subseteq LiveIds(Source[f]) \cup tx.deletions[Source[f]]
             /\ DOMAIN PatchOf(f).head
                  \subseteq LiveIds(Target[f]) \cup tx.deletions[Target[f]]
             /\ \A x \in LiveIds(Source[f]) \ DOMAIN PatchOf(f).nxt :
                  /\ x \in RowsOf(Source[f]) \ Departing(f)
                  /\ c.nxt[x] \in stays \cup {Missing}
             /\ \A x \in LiveIds(Source[f]) \ DOMAIN PatchOf(f).prv :
                  /\ x \in RowsOf(Source[f]) \ Departing(f)
                  /\ c.prv[x] \in stays \cup {Missing}
             /\ \A t \in (LiveIds(Target[f]) \cap RowsOf(Target[f])) \ DOMAIN PatchOf(f).head :
                  c.head[t] \in stays \cup {Missing}
<1> DEFINE I == RowsOf(Source[f])
           T == RowsOf(Target[f])
           c == db.col[f]
           dead == Departing(f)
           items == Arriving(f)
           L == LiveIds(Source[f])
           LT == LiveIds(Target[f])
           n == Len(tx.updates[f]) + Len(tx.additions[Source[f]])
           J == 1 .. n
           ignore == Ignored(f)
           moved == MovedOf(f)
           stays == (I \ dead) \ moved
           delS == tx.deletions[Source[f]]
           delT == tx.deletions[Target[f]]
           p == PatchOf(f)
<1>1. PICK q, s : /\ KeptLinks(I, T, c, ord, dead, moved, ignore, q)
                  /\ SplicedLinks(c, items, dead, s)
                  /\ p = ThenPatch(q, s)
  BY PatchOfCommit DEF PatchOf
<1>2. /\ DOMAIN items = J
      /\ {items[i].row : i \in J} = Relinked(f) \cup StagedIds(Source[f])
      /\ \A i \in J : items[i].target \in LT \cup {Missing}
  BY ItemsOfCommit
<1>3. \A t \in ignore \cap LT : \E i \in J : items[i].target = t
  BY <1>2, IgnoredAreTargets
<1>4. /\ dead \in SUBSET I /\ Relinked(f) \subseteq dead /\ I \cap StagedIds(Source[f]) = {}
      /\ L = (I \ dead) \cup Relinked(f) \cup StagedIds(Source[f])
      /\ dead = delS \cup Relinked(f)
  BY RowsOfCommit
<1>5. Source[f] \in Tables /\ Target[f] \in Tables /\ TypeOK
  BY SchemaAssumption DEF Committing
<1>6. Missing \notin L /\ Missing \notin LT /\ T \subseteq LT \cup delT
  BY <1>5, TableRenumbered
<1>7. IsFiniteSet(I)
  BY <1>5, RowsAreIndices
<1>8. Linked(I, T, c, ord)
  OBVIOUS
<1> HIDE DEF I, T, c, dead, items, L, LT, n, J, ignore, moved, delS, delT, p
<1>9. /\ DOMAIN p.nxt = DOMAIN q.nxt \cup DOMAIN s.nxt
      /\ DOMAIN p.prv = DOMAIN q.prv \cup DOMAIN s.prv
      /\ DOMAIN p.head = DOMAIN q.head \cup DOMAIN s.head
  BY <1>1 DEF ThenPatch, Then
<1>10. /\ DOMAIN s.nxt = {items[i].row : i \in J}
       /\ DOMAIN s.prv = {items[i].row : i \in J}
                           \cup ({OldHead(c, items[i].target, dead) :
                                    i \in {k \in J : items[k].target # Missing}} \ {Missing})
       /\ DOMAIN s.head = {items[i].target : i \in J} \ {Missing}
  BY <1>1, <1>2 DEF SplicedLinks
<1>11. \A t : t # Missing => OldHead(c, t, dead) \in I \cup {Missing}
  BY <1>4, <1>7, <1>8, OldHeadIs DEF AliveFirst
<1>12. /\ DOMAIN q.nxt \subseteq I /\ DOMAIN q.prv \subseteq I /\ DOMAIN q.head \subseteq T
       /\ \A x \in I \ dead :
            /\ c.fk[x] = Missing => PatchedAt(c.nxt, q.nxt, x) = Missing
                                    /\ PatchedAt(c.prv, q.prv, x) = Missing
            /\ c.fk[x] # Missing =>
                 /\ AliveAfter(I, c.fk, ord, dead, x, PatchedAt(c.nxt, q.nxt, x))
                 /\ AliveBefore(I, c.fk, ord, dead, x, PatchedAt(c.prv, q.prv, x))
            /\ x \notin DOMAIN q.nxt => c.nxt[x] \notin moved
            /\ x \notin DOMAIN q.prv => c.prv[x] \notin moved
       /\ \A t \in T \ ignore :
            /\ AliveFirst(I, c.fk, ord, dead, t, PatchedAt(c.head, q.head, t))
            /\ t \notin DOMAIN q.head => c.head[t] \notin moved
  BY <1>1 DEF KeptLinks
<1>13. ASSUME NEW x \in L, x \notin DOMAIN p.nxt
       PROVE  x \in I \ dead /\ c.nxt[x] \in stays \cup {Missing}
  <2>1. x \in I \ dead /\ x \notin DOMAIN q.nxt
    BY <1>2, <1>4, <1>9, <1>10, <1>13
  <2>2. c.nxt[x] \notin moved /\ PatchedAt(c.nxt, q.nxt, x) = c.nxt[x]
    BY <1>12, <2>1 DEF PatchedAt
  <2>3. c.nxt[x] = Missing \/ c.nxt[x] \in I \ dead
    BY <1>12, <2>1, <2>2 DEF AliveAfter
  <2> QED
    BY <2>1, <2>2, <2>3
<1>14. ASSUME NEW x \in L, x \notin DOMAIN p.prv
       PROVE  x \in I \ dead /\ c.prv[x] \in stays \cup {Missing}
  <2>1. x \in I \ dead /\ x \notin DOMAIN q.prv
    BY <1>2, <1>4, <1>9, <1>10, <1>14
  <2>2. c.prv[x] \notin moved /\ PatchedAt(c.prv, q.prv, x) = c.prv[x]
    BY <1>12, <2>1 DEF PatchedAt
  <2>3. c.prv[x] = Missing \/ c.prv[x] \in I \ dead
    BY <1>12, <2>1, <2>2 DEF AliveBefore
  <2> QED
    BY <2>1, <2>2, <2>3
<1>15. ASSUME NEW t \in LT \cap T, t \notin DOMAIN p.head
       PROVE  c.head[t] \in stays \cup {Missing}
  <2>1. t \notin ignore /\ t \notin DOMAIN q.head
    BY <1>3, <1>6, <1>9, <1>10, <1>15
  <2>2. c.head[t] \notin moved /\ PatchedAt(c.head, q.head, t) = c.head[t]
        /\ AliveFirst(I, c.fk, ord, dead, t, PatchedAt(c.head, q.head, t))
    BY <1>12, <2>1 DEF PatchedAt
  <2>3. c.head[t] = Missing \/ c.head[t] \in I \ dead
    BY <2>2 DEF AliveFirst
  <2> QED
    BY <2>2, <2>3
<1>16. \A i \in J : items[i].row \in L
  BY <1>2, <1>4
<1>17. I \subseteq L \cup delS
  BY <1>4
<1>18. DOMAIN p.nxt \subseteq L \cup delS
  BY <1>9, <1>10, <1>12, <1>16, <1>17
<1>19. DOMAIN p.prv \subseteq L \cup delS
  <2>1. \A i \in J : items[i].target # Missing =>
          OldHead(c, items[i].target, dead) \in I \cup {Missing}
    BY <1>11
  <2>2. DOMAIN s.prv \subseteq L \cup delS
    BY <1>10, <1>16, <1>17, <2>1
  <2> QED
    BY <1>9, <1>12, <1>17, <2>2
<1>20. DOMAIN p.head \subseteq LT \cup delT
  BY <1>2, <1>6, <1>9, <1>10, <1>12
<1> QED
  BY <1>13, <1>14, <1>15, <1>18, <1>19, <1>20
    DEF I, T, c, dead, L, LT, moved, delS, delT, p

\* Every live id gets its old or its fresh value.
LEMMA MaterializedAt ==
  ASSUME TypeOK, NEW t \in Tables, NEW x \in LiveIds(t), NEW col, NEW v
  PROVE  /\ NewIndex(t)[x] \in NewRows(t)
         /\ NewIndex(t)[x] = Resolve(OracleOf(t), x)
         /\ DOMAIN MaterializedAs(col, OracleOf(t), v) = NewRows(t)
         /\ MaterializedAs(col, OracleOf(t), v)[NewIndex(t)[x]]
              = IF x \in StagedIds(t) THEN v[x - db.len[t]] ELSE col[x]
<1> DEFINE n == db.len[t]
           a == Len(tx.additions[t])
           del == tx.deletions[t]
<1>1. Plannable(n, a, del)
  BY PlanApplies, RowsAreIndices DEF Plannable
<1>2. /\ OracleOf(t) = Oracle(n, a, del) /\ LiveIds(t) = Live(n, a, del)
      /\ NewRows(t) = Places(n, a, del) /\ NewIndex(t) = NumberedBy(n, a, del)
      /\ StagedIds(t) = n .. n + a - 1
  BY DEF OracleOf, LiveIds, NewRows, Places, NewIndex, NumberedBy, StagedIds
<1> HIDE DEF n, a, del
<1>3. x \in Live(n, a, del)
  BY <1>2
<1> QED
  BY <1>1, <1>2, <1>3, LiveMaterialized DEF n

\* A column of links after materialization and the writes w of a patch: the new
\* index of what it is in old indices.
LEMMA WrittenLink ==
  ASSUME TypeOK, NEW t \in Tables, NEW u \in Tables, NEW col, NEW w,
         DOMAIN w \subseteq LiveIds(t) \cup tx.deletions[t],
         NEW x \in LiveIds(t), NEW val \in LiveIds(u) \cup {Missing},
         x \in DOMAIN w => val = w[x],
         x \notin DOMAIN w =>
           IF x \in RowsOf(t)
             THEN /\ val = col[x]
                  /\ val = Missing \/ (val \in RowsOf(u) /\ val \notin DOMAIN OracleOf(u).moves)
             ELSE val = Missing
  PROVE  Overwrite(MaterializedAs(col, OracleOf(t), AbsentLinks(OracleOf(t))),
                   TranslateWrites(w, OracleOf(t), OracleOf(u)))[NewIndex(t)[x]]
           = To(NewIndex(u), val)
<1> DEFINE n == db.len[t]
           a == Len(tx.additions[t])
           del == tx.deletions[t]
           m == db.len[u]
           b == Len(tx.additions[u])
           gone == tx.deletions[u]
<1>1. Plannable(n, a, del) /\ Plannable(m, b, gone)
  BY PlanApplies, RowsAreIndices DEF Plannable
<1>2. /\ OracleOf(t) = Oracle(n, a, del) /\ LiveIds(t) = Live(n, a, del)
      /\ NewIndex(t) = NumberedBy(n, a, del) /\ RowsOf(t) = 0 .. n - 1
      /\ OracleOf(u) = Oracle(m, b, gone) /\ LiveIds(u) = Live(m, b, gone)
      /\ NewIndex(u) = NumberedBy(m, b, gone) /\ RowsOf(u) = 0 .. m - 1
  BY DEF OracleOf, LiveIds, NewIndex, NumberedBy, RowsOf
<1> HIDE DEF n, a, del, m, b, gone
<1>3. /\ DOMAIN w \subseteq Live(n, a, del) \cup del
      /\ x \in Live(n, a, del) /\ val \in Live(m, b, gone) \cup {Missing}
      /\ x \in DOMAIN w => val = w[x]
      /\ x \notin DOMAIN w =>
           IF x \in 0 .. n - 1
             THEN /\ val = col[x]
                  /\ val = Missing
                       \/ (val \in 0 .. m - 1 /\ val \notin DOMAIN Oracle(m, b, gone).moves)
             ELSE val = Missing
  BY <1>2 DEF del
<1>4. Overwrite(MaterializedAs(col, Oracle(n, a, del), AbsentLinks(Oracle(n, a, del))),
                TranslateWrites(w, Oracle(n, a, del), Oracle(m, b, gone)))[NumberedBy(n, a, del)[x]]
        = To(NumberedBy(m, b, gone), val)
  BY <1>1, <1>3, LiveWritten
<1> QED
  BY <1>2, <1>4

\* The link columns of a commit.
LEMMA LinkColumns ==
  ASSUME NEW f \in ForeignKeys
  PROVE  LET so == OracleOf(Source[f])
             to == OracleOf(Target[f])
             c == db.col[f]
         IN  /\ CommitColumn(f).nxt = Overwrite(MaterializedAs(c.nxt, so, AbsentLinks(so)),
                                                TranslateWrites(PatchOf(f).nxt, so, so))
             /\ CommitColumn(f).prv = Overwrite(MaterializedAs(c.prv, so, AbsentLinks(so)),
                                                TranslateWrites(PatchOf(f).prv, so, so))
             /\ CommitColumn(f).head = Overwrite(MaterializedAs(c.head, to, AbsentLinks(to)),
                                                 TranslateWrites(PatchOf(f).head, to, so))
<1>1. /\ Translate(PatchOf(f), OracleOf(Source[f]), OracleOf(Target[f])).nxt
           = TranslateWrites(PatchOf(f).nxt, OracleOf(Source[f]), OracleOf(Source[f]))
      /\ Translate(PatchOf(f), OracleOf(Source[f]), OracleOf(Target[f])).prv
           = TranslateWrites(PatchOf(f).prv, OracleOf(Source[f]), OracleOf(Source[f]))
      /\ Translate(PatchOf(f), OracleOf(Source[f]), OracleOf(Target[f])).head
           = TranslateWrites(PatchOf(f).head, OracleOf(Target[f]), OracleOf(Source[f]))
  BY DEF Translate
<1> DEFINE so == OracleOf(Source[f])
           to == OracleOf(Target[f])
           c == db.col[f]
           bare(col, o) == [p \in 0 .. o.newSize - 1 |->
                IF \E k \in DOMAIN o.dest : o.dest[k] = p THEN Missing
                ELSE IF \E i \in DOMAIN o.moves : o.moves[i] = p
                  THEN col[CHOOSE i \in DOMAIN o.moves : o.moves[i] = p]
                ELSE col[p]]
           t == Translate(PatchOf(f), so, to)
<1>2. CommitColumn(f).nxt = Overwrite(bare(c.nxt, so), t.nxt)
  BY DEF CommitColumn, Materialize, PatchOf
<1>3. CommitColumn(f).prv = Overwrite(bare(c.prv, so), t.prv)
  BY DEF CommitColumn, Materialize, PatchOf
<1>4. CommitColumn(f).head = Overwrite(bare(c.head, to), t.head)
  BY DEF CommitColumn, Materialize, PatchOf
<1>5. \A col, o : MaterializedAs(col, o, AbsentLinks(o)) = bare(col, o)
  BY AbsentMaterialized
<1> HIDE DEF so, to, c, bare, t
<1> QED
  BY <1>1, <1>2, <1>3, <1>4, <1>5 DEF so, to, c, t

\* The links of a commit are, in new indices, those the patch leaves.
LEMMA NewLinks ==
  ASSUME Committing, NEW f \in ForeignKeys, NEW ord,
         Linked(RowsOf(Source[f]), RowsOf(Target[f]), db.col[f], ord)
  PROVE  LET r == NewIndex(Source[f])
             rt == NewIndex(Target[f])
             k == CommitColumn(f)
             d == ColumnsAfter(f)
         IN  /\ \A x \in LiveIds(Source[f]) : /\ k.nxt[r[x]] = To(r, d.nxt[x])
                                              /\ k.prv[r[x]] = To(r, d.prv[x])
             /\ \A t \in LiveIds(Target[f]) : k.head[rt[t]] = To(r, d.head[t])
<1> DEFINE S == Source[f]
           T == Target[f]
           L == LiveIds(S)
           LT == LiveIds(T)
           c == db.col[f]
           P == PatchOf(f)
           d == ColumnsAfter(f)
           k == CommitColumn(f)
           so == OracleOf(S)
           to == OracleOf(T)
<1>1. /\ S \in Tables /\ T \in Tables /\ TypeOK
  BY SchemaAssumption DEF Committing
<1>2. PICK new : Linked(L, LT, d, new)
  BY PatchedListsLinked
<1>3. /\ \A x \in L : d.nxt[x] \in L \cup {Missing} /\ d.prv[x] \in L \cup {Missing}
      /\ \A t \in LT : d.head[t] \in L \cup {Missing}
  BY <1>2 DEF Linked, Columns
<1>4. /\ \A x \in L : /\ d.nxt[x] = PatchedAt(c.nxt, P.nxt, x)
                      /\ d.prv[x] = PatchedAt(c.prv, P.prv, x)
      /\ \A t \in LT : d.head[t] = HeadAfter(f, t)
  BY DEF ColumnsAfter
<1>5. /\ DOMAIN P.nxt \subseteq L \cup tx.deletions[S]
      /\ DOMAIN P.prv \subseteq L \cup tx.deletions[S]
      /\ DOMAIN P.head \subseteq LT \cup tx.deletions[T]
      /\ \A x \in L \ DOMAIN P.nxt :
           /\ x \in RowsOf(S) \ Departing(f)
           /\ c.nxt[x] \in ((RowsOf(S) \ Departing(f)) \ MovedOf(f)) \cup {Missing}
      /\ \A x \in L \ DOMAIN P.prv :
           /\ x \in RowsOf(S) \ Departing(f)
           /\ c.prv[x] \in ((RowsOf(S) \ Departing(f)) \ MovedOf(f)) \cup {Missing}
      /\ \A t \in (LT \cap RowsOf(T)) \ DOMAIN P.head :
           c.head[t] \in ((RowsOf(S) \ Departing(f)) \ MovedOf(f)) \cup {Missing}
  BY UnwrittenLinks
<1>6. \A y \in ((RowsOf(S) \ Departing(f)) \ MovedOf(f)) \cup {Missing} :
        y = Missing \/ (y \in RowsOf(S) /\ y \notin DOMAIN so.moves)
  BY DEF MovedOf
<1>7. /\ k.nxt = Overwrite(MaterializedAs(c.nxt, so, AbsentLinks(so)),
                           TranslateWrites(P.nxt, so, so))
      /\ k.prv = Overwrite(MaterializedAs(c.prv, so, AbsentLinks(so)),
                           TranslateWrites(P.prv, so, so))
      /\ k.head = Overwrite(MaterializedAs(c.head, to, AbsentLinks(to)),
                            TranslateWrites(P.head, to, so))
  BY LinkColumns
<1> HIDE DEF S, T, c, P, d, k
<1>8. ASSUME NEW x \in L PROVE k.nxt[NewIndex(S)[x]] = To(NewIndex(S), d.nxt[x])
  <2>1. x \in DOMAIN P.nxt => d.nxt[x] = P.nxt[x]
    BY <1>4 DEF PatchedAt
  <2>2. x \notin DOMAIN P.nxt =>
          /\ x \in RowsOf(S) /\ d.nxt[x] = c.nxt[x]
          /\ d.nxt[x] = Missing \/ (d.nxt[x] \in RowsOf(S) /\ d.nxt[x] \notin DOMAIN so.moves)
    BY <1>4, <1>5, <1>6 DEF PatchedAt
  <2>3. d.nxt[x] \in L \cup {Missing} /\ DOMAIN P.nxt \subseteq L \cup tx.deletions[S]
    BY <1>3, <1>5
  <2> QED
    BY <1>1, <1>7, <2>1, <2>2, <2>3, WrittenLink
<1>9. ASSUME NEW x \in L PROVE k.prv[NewIndex(S)[x]] = To(NewIndex(S), d.prv[x])
  <2>1. x \in DOMAIN P.prv => d.prv[x] = P.prv[x]
    BY <1>4 DEF PatchedAt
  <2>2. x \notin DOMAIN P.prv =>
          /\ x \in RowsOf(S) /\ d.prv[x] = c.prv[x]
          /\ d.prv[x] = Missing \/ (d.prv[x] \in RowsOf(S) /\ d.prv[x] \notin DOMAIN so.moves)
    BY <1>4, <1>5, <1>6 DEF PatchedAt
  <2>3. d.prv[x] \in L \cup {Missing} /\ DOMAIN P.prv \subseteq L \cup tx.deletions[S]
    BY <1>3, <1>5
  <2> QED
    BY <1>1, <1>7, <2>1, <2>2, <2>3, WrittenLink
<1>10. ASSUME NEW t \in LT PROVE k.head[NewIndex(T)[t]] = To(NewIndex(S), d.head[t])
  <2>1. t \in DOMAIN P.head => d.head[t] = P.head[t]
    BY <1>4 DEF HeadAfter, P
  <2>2. t \notin DOMAIN P.head =>
          IF t \in RowsOf(T)
            THEN /\ d.head[t] = c.head[t]
                 /\ \/ d.head[t] = Missing
                    \/ d.head[t] \in RowsOf(S) /\ d.head[t] \notin DOMAIN so.moves
            ELSE d.head[t] = Missing
    BY <1>4, <1>5, <1>6 DEF HeadAfter, P, T, c
  <2>3. d.head[t] \in L \cup {Missing} /\ DOMAIN P.head \subseteq LT \cup tx.deletions[T]
    BY <1>3, <1>5
  <2> QED
    BY <1>1, <1>7, <2>1, <2>2, <2>3, WrittenLink
<1> QED
  BY <1>8, <1>9, <1>10 DEF S, T, k, d

\* The keys of staged rows, and those of relinked rows, in new indices.
FreshKeys(f) ==
  [k \in DOMAIN OracleOf(Source[f]).dest |->
     Resolve(OracleOf(Target[f]), tx.additions[Source[f]][k + 1][f])]

RelinkedKeys(f) ==
  LET upd == tx.updates[f]
      D == {k \in DOMAIN upd : Resolve(OracleOf(Source[f]), upd[k].row) # Missing}
  IN  [i \in {Resolve(OracleOf(Source[f]), upd[k].row) : k \in D} |->
         Resolve(OracleOf(Target[f]),
                 upd[CHOOSE k \in D : Resolve(OracleOf(Source[f]), upd[k].row) = i].target)]

\* The key column of a commit: fresh keys for staged rows, then relinked rows.
LEMMA KeyColumn ==
  ASSUME NEW f \in ForeignKeys
  PROVE  CommitColumn(f).fk
           = Overwrite(MaterializedAs(db.col[f].fk, OracleOf(Source[f]), FreshKeys(f)),
                       RelinkedKeys(f))
<1> DEFINE so == OracleOf(Source[f])
           to == OracleOf(Target[f])
           c == db.col[f]
           fresh(k) == Resolve(to, tx.additions[Source[f]][k + 1][f])
           new(p) == CHOOSE k \in DOMAIN so.dest : so.dest[k] = p
           moved(p) == CHOOSE i \in DOMAIN so.moves : so.moves[i] = p
           staged(p) == \E k \in DOMAIN so.dest : so.dest[k] = p
           isMoved(p) == \E i \in DOMAIN so.moves : so.moves[i] = p
           N == 0 .. so.newSize - 1
           m == [p \in N |-> IF staged(p) THEN fresh(new(p))
                             ELSE IF isMoved(p) THEN c.fk[moved(p)] ELSE c.fk[p]]
<1>1. CommitColumn(f).fk = Overwrite(m, RelinkedKeys(f))
  BY DEF CommitColumn, Materialize, Writes, RelinkedKeys
<1>2. MaterializedAs(c.fk, so, FreshKeys(f))
        = [p \in N |-> IF staged(p) THEN FreshKeys(f)[new(p)]
                       ELSE IF isMoved(p) THEN c.fk[moved(p)] ELSE c.fk[p]]
  BY DEF MaterializedAs
<1>3. ASSUME NEW p \in N, staged(p) PROVE FreshKeys(f)[new(p)] = fresh(new(p))
  <2>1. new(p) \in DOMAIN so.dest
    BY <1>3
  <2> HIDE DEF new
  <2> QED
    BY <2>1 DEF FreshKeys
<1> HIDE DEF so, to, c, new, moved, staged, isMoved, N, fresh
<1>4. MaterializedAs(c.fk, so, FreshKeys(f)) = m
  BY <1>2, <1>3
<1> QED
  BY <1>1, <1>4 DEF c, so

\* The keys that RelinkedKeys writes.
LEMMA RelinkedKeysAre ==
  ASSUME Committing, NEW f \in ForeignKeys, NEW x \in LiveIds(Source[f])
  PROVE  /\ NewIndex(Source[f])[x] \in DOMAIN RelinkedKeys(f) <=> x \in Relinked(f)
         /\ \A k \in DOMAIN tx.updates[f] : tx.updates[f][k].row = x =>
              RelinkedKeys(f)[NewIndex(Source[f])[x]]
                = Resolve(OracleOf(Target[f]), tx.updates[f][k].target)
<1> DEFINE S == Source[f]
           so == OracleOf(S)
           to == OracleOf(Target[f])
           upd == tx.updates[f]
           row(k) == Resolve(so, upd[k].row)
           D == {k \in DOMAIN upd : row(k) # Missing}
           w == RelinkedKeys(f)
           p == NewIndex(S)[x]
           L == LiveIds(S)
<1>1. S \in Tables /\ TypeOK /\ UpdatesDiffer
  BY SchemaAssumption DEF Committing
<1>2. /\ \A i, j \in L : Resolve(so, i) = Resolve(so, j) => i = j
      /\ \A i \in L : Resolve(so, i) # Missing
  BY <1>1, TableRenumbered
<1>3. p = Resolve(so, x)
  BY DEF NewIndex
<1>4. \A k \in DOMAIN upd : upd[k].row \in L /\ upd[k].row \in Relinked(f)
  BY RowsOfCommit DEF Relinked
<1>5. D = DOMAIN upd
  BY <1>2, <1>4
<1>6. w = [i \in {row(k) : k \in D} |-> Resolve(to, upd[CHOOSE k \in D : row(k) = i].target)]
  BY DEF RelinkedKeys
<1>7. \A k \in DOMAIN upd : row(k) = p <=> upd[k].row = x
  BY <1>2, <1>3, <1>4
<1>8. \A i, j \in DOMAIN upd : upd[i].row = upd[j].row => i = j
  BY <1>1 DEF UpdatesDiffer
<1>9. x \in Relinked(f) <=> \E k \in DOMAIN upd : upd[k].row = x
  BY DEF Relinked
<1> HIDE DEF S, so, to, upd, row, D, w, p, L
<1>10. p \in DOMAIN w <=> x \in Relinked(f)
  BY <1>5, <1>6, <1>7, <1>9
<1>11. ASSUME NEW k \in DOMAIN upd, upd[k].row = x
       PROVE  w[p] = Resolve(to, upd[k].target)
  <2>1. (CHOOSE j \in D : row(j) = p) = k
    BY <1>5, <1>7, <1>8, <1>11
  <2>2. p \in {row(j) : j \in D}
    BY <1>5, <1>7, <1>11
  <2>3. w[p] = Resolve(to, upd[CHOOSE j \in D : row(j) = p].target)
    BY <1>6, <2>2
  <2> QED
    BY <2>1, <2>3
<1> QED
  BY <1>10, <1>11 DEF S, to, upd, w, p

\* Keys to targets that do not move are right when the patch has been applied.
LEMMA NewKeys ==
  ASSUME Committing, NEW f \in ForeignKeys, NEW ord,
         Linked(RowsOf(Source[f]), RowsOf(Target[f]), db.col[f], ord),
         NEW x \in LiveIds(Source[f]),
         To(NewIndex(Target[f]), ColumnsAfter(f).fk[x]) \notin MovedTo(Target[f])
  PROVE  CommitColumn(f).fk[NewIndex(Source[f])[x]]
           = To(NewIndex(Target[f]), ColumnsAfter(f).fk[x])
<1> DEFINE S == Source[f]
           T == Target[f]
           u == Len(tx.updates[f])
           a == Len(tx.additions[S])
           add == tx.additions[S]
           upd == tx.updates[f]
           st == Staged(f)
           items == Arriving(f)
           key == ColumnsAfter(f).fk[x]
           p == NewIndex(S)[x]
           m == MaterializedAs(db.col[f].fk, OracleOf(S), FreshKeys(f))
           z == x - db.len[S]
<1>1. /\ S \in Tables /\ T \in Tables /\ TypeOK
  BY SchemaAssumption DEF Committing
<1>2. CommitColumn(f).fk = Overwrite(m, RelinkedKeys(f))
  BY KeyColumn
<1>3. /\ p \in DOMAIN m
      /\ m[p] = IF x \in StagedIds(S) THEN FreshKeys(f)[z] ELSE db.col[f].fk[x]
  BY <1>1, MaterializedAt
<1>4. CommitColumn(f).fk[p] = IF p \in DOMAIN RelinkedKeys(f) THEN RelinkedKeys(f)[p] ELSE m[p]
  BY <1>2, <1>3 DEF Overwrite
<1>5. \A t \in LiveIds(T) \cup {Missing} : To(NewIndex(T), t) = Resolve(OracleOf(T), t)
  BY <1>1, TableRenumbered
<1>6. PICK new : Linked(LiveIds(S), LiveIds(T), ColumnsAfter(f), new)
  BY PatchedListsLinked
<1>7. To(NewIndex(T), key) = Resolve(OracleOf(T), key)
  BY <1>5, <1>6 DEF Linked, Columns
<1>8. /\ DOMAIN st = 1 .. a /\ a \in Nat
      /\ \A k \in 1 .. a : /\ st[k].row = db.len[S] + (k - 1)
                           /\ st[k].target = add[k][f]
      /\ DOMAIN upd = 1 .. u /\ u \in Nat
      /\ Follow(upd, u, st, a, items)
      /\ DOMAIN items = 1 .. u + a
  BY <1>1, StagedItemsAre
<1>9. /\ \A y \in RowsOf(S) \ Departing(f) : ColumnsAfter(f).fk[y] = db.col[f].fk[y]
      /\ \A i \in DOMAIN items : ColumnsAfter(f).fk[items[i].row] = items[i].target
  BY ColumnsAfterPatched DEF PatchedColumns
<1>10. CASE x \in Relinked(f)
  <2>1. PICK k \in DOMAIN upd : upd[k].row = x
    BY <1>10 DEF Relinked
  <2>2. p \in DOMAIN RelinkedKeys(f)
        /\ RelinkedKeys(f)[p] = Resolve(OracleOf(T), upd[k].target)
    BY <1>10, <2>1, RelinkedKeysAre
  <2>3. key = upd[k].target
    <3> HIDE DEF u, a, items, upd, st
    <3>1. k \in 1 .. u + a /\ items[k] = upd[k]
      BY <1>8 DEF Follow
    <3> QED
      BY <1>8, <1>9, <2>1, <3>1
  <2> QED
    BY <1>4, <1>7, <2>2, <2>3
<1>11. ASSUME x \notin Relinked(f)
       PROVE  CommitColumn(f).fk[p] = m[p]
  BY <1>4, <1>11, RelinkedKeysAre
<1>12. CASE x \notin Relinked(f) /\ x \in StagedIds(S)
  <2>1. z \in 0 .. a - 1
    BY <1>1, <1>12, PlaceOf
  <2>2. DOMAIN OracleOf(S).dest = 0 .. a - 1
    BY DEF OracleOf, Oracle, AdditionDest
  <2>3. FreshKeys(f)[z] = Resolve(OracleOf(T), add[z + 1][f])
    BY <2>1, <2>2 DEF FreshKeys
  <2>4. db.len[S] \in Nat
    BY <1>1, PlanApplies
  <2>5. key = add[z + 1][f]
    <3> DEFINE i == z + 1
               len == db.len[S]
    <3>1. i \in 1 .. a /\ len + (i - 1) = x
      <4> HIDE DEF a
      <4>1. x = len + z /\ z \in Int
        <5>1. x \in Nat
          BY <1>12, <2>4 DEF StagedIds
        <5> QED
          BY <2>1, <2>4, <5>1
      <4> QED
        BY <1>8, <2>1, <2>4, <4>1, SMTT(30)
    <3> HIDE DEF i, u, a, items, upd, st, len, z
    <3>2. st[i].row = x /\ st[i].target = add[i][f]
      BY <1>8, <3>1 DEF len
    <3>3. u + i \in 1 .. u + a /\ items[u + i] = st[i]
      BY <1>8, <3>1 DEF Follow
    <3>4. key = add[i][f]
      BY <1>8, <1>9, <3>2, <3>3
    <3> QED
      BY <3>4 DEF i
  <2> QED
    BY <1>3, <1>7, <1>11, <1>12, <2>3, <2>5
<1>13. CASE x \notin Relinked(f) /\ x \notin StagedIds(S)
  <2>1. x \in RowsOf(S) \ Departing(f)
    BY <1>13, RowsOfCommit
  <2>2. key = db.col[f].fk[x]
    BY <1>9, <2>1
  <2>3. key \in (LiveIds(T) \cap RowsOf(T)) \cup {Missing}
    BY <2>1, <2>2, KeptKeysStay
  <2>4. Resolve(OracleOf(T), key) = key
    <3>1. CASE key = Missing
      BY <3>1 DEF Resolve
    <3>2. CASE key # Missing
      <4>1. RowsOf(T) \cap StagedIds(T) = {}
        <5>1. db.len[T] \in Nat
          BY <1>1, PlanApplies
        <5> QED
          BY <5>1 DEF RowsOf, StagedIds
      <4>2. Resolve(OracleOf(T), key) \notin MovedTo(T)
        BY <1>7
      <4>3. key \notin DOMAIN OracleOf(T).moves
        BY <1>1, <4>2, MovedRows
      <4> QED
        BY <1>1, <2>3, <3>2, <4>1, <4>3, MovedRows
    <3> QED
      BY <3>1, <3>2
  <2> QED
    BY <1>3, <1>7, <1>11, <1>13, <2>2, <2>4
<1> QED
  BY <1>10, <1>12, <1>13

(***************************************************************************)
(* The columns a commit leaves.                                            *)
(***************************************************************************)
\* The columns in new indices, with keys that know where their targets are.
ResolvedColumns(f) ==
  [fk   |-> [p \in NewRows(Source[f]) |->
               To(NewIndex(Target[f]),
                  ColumnsAfter(f).fk[CHOOSE x \in LiveIds(Source[f]) :
                                       NewIndex(Source[f])[x] = p])],
   nxt  |-> CommitColumn(f).nxt,
   prv  |-> CommitColumn(f).prv,
   head |-> CommitColumn(f).head]

\* They are the columns in old indices, renumbered.
LEMMA ColumnsRenumbered ==
  ASSUME Committing, NEW f \in ForeignKeys, NEW ord,
         Linked(RowsOf(Source[f]), RowsOf(Target[f]), db.col[f], ord)
  PROVE  RenumberedColumns(LiveIds(Source[f]), LiveIds(Target[f]), ColumnsAfter(f),
                           NewRows(Source[f]), NewRows(Target[f]), ResolvedColumns(f),
                           NewIndex(Source[f]), NewIndex(Target[f]))
<1> DEFINE S == Source[f]
           T == Target[f]
           r == NewIndex(S)
           rt == NewIndex(T)
           L == LiveIds(S)
           d == ColumnsAfter(f)
           e == ResolvedColumns(f)
           k == CommitColumn(f)
           back(p) == CHOOSE x \in L : r[x] = p
<1>1. /\ S \in Tables /\ T \in Tables /\ TypeOK
  BY SchemaAssumption DEF Committing
<1>2. Numbers(r, L, NewRows(S))
  BY <1>1, TableRenumbered
<1>3. HasCommittedRows(k, f)
  BY CommitColumnRows
<1>4. /\ DOMAIN k.nxt = NewRows(S) /\ DOMAIN k.prv = NewRows(S) /\ DOMAIN k.head = NewRows(T)
  BY <1>3 DEF HasCommittedRows, NewRows
<1>5. /\ \A x \in L : k.nxt[r[x]] = To(r, d.nxt[x]) /\ k.prv[r[x]] = To(r, d.prv[x])
      /\ \A t \in LiveIds(T) : k.head[rt[t]] = To(r, d.head[t])
  BY NewLinks
<1>6. /\ e.fk = [p \in NewRows(S) |-> To(rt, d.fk[back(p)])]
      /\ e.nxt = k.nxt /\ e.prv = k.prv /\ e.head = k.head
  BY DEF ResolvedColumns
<1> HIDE DEF S, T, r, rt, L, d, e, k
<1>7. \A x \in L : r[x] \in NewRows(S) /\ back(r[x]) = x
  BY <1>2 DEF Numbers
<1> HIDE DEF back
<1>8. \A x \in L : e.fk[r[x]] = To(rt, d.fk[x])
  BY <1>6, <1>7
<1>9. RenumberedColumns(L, LiveIds(T), d, NewRows(S), NewRows(T), e, r, rt)
  BY <1>4, <1>5, <1>6, <1>8 DEF RenumberedColumns
<1> QED
  BY <1>9 DEF S, T, r, rt, L, d, e

\* Once the keys to moved targets are fixed, the columns are these.
LEMMA CommitColumnsAre ==
  ASSUME Committing, NEW f \in ForeignKeys, NEW ord,
         Linked(RowsOf(Source[f]), RowsOf(Target[f]), db.col[f], ord)
  PROVE  /\ \E new : Linked(NewRows(Source[f]), NewRows(Target[f]), ResolvedColumns(f), new)
         /\ FixMovedTargets(CommitColumn(f), MovedTo(Target[f]))
              = [fk   |-> ResolvedColumns(f).fk,
                 nxt  |-> ResolvedColumns(f).nxt,
                 prv  |-> ResolvedColumns(f).prv,
                 head |-> ResolvedColumns(f).head,
                 cnt  |-> CommitColumn(f).cnt]
<1> DEFINE S == Source[f]
           T == Target[f]
           r == NewIndex(S)
           rt == NewIndex(T)
           L == LiveIds(S)
           LT == LiveIds(T)
           I == NewRows(S)
           IT == NewRows(T)
           d == ColumnsAfter(f)
           e == ResolvedColumns(f)
           c == CommitColumn(f)
           movedTo == MovedTo(T)
<1>1. /\ S \in Tables /\ T \in Tables /\ TypeOK
  BY SchemaAssumption DEF Committing
<1>2. /\ Numbers(r, L, I) /\ Missing \notin I /\ IsFiniteSet(I)
  BY <1>1, TableRenumbered
<1>3. Numbers(rt, LT, IT) /\ Missing \notin IT
  BY <1>1, TableRenumbered
<1>4. RenumberedColumns(L, LT, d, I, IT, e, r, rt)
  BY ColumnsRenumbered
<1>5. PICK old : Linked(L, LT, d, old)
  BY PatchedListsLinked
<1>6. /\ e.nxt = c.nxt /\ e.prv = c.prv /\ e.head = c.head
      /\ e.fk = [x \in I |-> e.fk[x]]
  BY DEF ResolvedColumns
<1>7. HasCommittedRows(c, f)
  BY CommitColumnRows
<1>8. DOMAIN c.fk = I /\ DOMAIN c.prv = I
  BY <1>7 DEF HasCommittedRows, NewRows
<1>9. c.prv = [x \in I |-> c.prv[x]]
  <2>1. c.prv = [i \in DOMAIN c.prv |-> c.prv[i]]
    BY LinkColumns DEF Overwrite
  <2> HIDE DEF c
  <2> QED
    BY <1>8, <2>1
<1>10. c = [fk |-> c.fk, nxt |-> c.nxt, prv |-> c.prv, head |-> c.head, cnt |-> c.cnt]
  BY DEF CommitColumn
<1>11. movedTo \in SUBSET IT
  BY <1>1, MovedRows
<1>12. \A x \in L : To(rt, d.fk[x]) \notin movedTo => c.fk[r[x]] = To(rt, d.fk[x])
  BY NewKeys
<1> HIDE DEF S, T, r, rt, L, LT, I, IT, d, e, c, movedTo
<1>13. PICK new : Linked(I, IT, e, new)
  BY <1>2, <1>3, <1>4, <1>5, RenumberedLinks
<1>14. ASSUME NEW p \in I, e.fk[p] \notin movedTo PROVE c.fk[p] = e.fk[p]
  <2>1. PICK x \in L : r[x] = p
    BY <1>2 DEF Numbers
  <2>2. e.fk[p] = To(rt, d.fk[x])
    BY <1>4, <2>1 DEF RenumberedColumns
  <2> QED
    BY <1>12, <1>14, <2>1, <2>2
<1>15. c = [fk |-> c.fk, nxt |-> e.nxt, prv |-> e.prv, head |-> e.head, cnt |-> c.cnt]
  BY <1>6, <1>10
<1>16. e.prv = [x \in I |-> e.prv[x]]
  BY <1>6, <1>9
<1>17. FixMovedTargets(c, movedTo)
         = [fk |-> e.fk, nxt |-> e.nxt, prv |-> e.prv, head |-> e.head, cnt |-> c.cnt]
  BY <1>2, <1>6, <1>8, <1>11, <1>13, <1>14, <1>15, <1>16, FixedTargets
<1> QED
  BY <1>13, <1>17 DEF S, T, I, IT, e, c, movedTo

(***************************************************************************)
(* Counts.                                                                 *)
(***************************************************************************)
\* The integer types are wide enough: the count type divides the index type of
\* the source table, through which the patch's targets and deltas pass, every
\* target fits that type, and every count fits its own.
CountsFit ==
  TrackCounts =>
    \A f \in ForeignKeys :
      /\ \E q \in Nat : IndexMod[Source[f]] = CountMod * q
      /\ MaxRows[Target[f]] + MaxStaged <= IndexMod[Source[f]]
      /\ MaxRows[Source[f]] < CountMod

\* Ids of a target table pass through the index type of the source table.
LEMMA TargetsAreNarrow ==
  ASSUME TypeOK, CountsFit, TrackCounts, NEW f \in ForeignKeys,
         NEW x \in RowsOf(Target[f]) \cup StagedIds(Target[f])
  PROVE  x % IndexMod[Source[f]] = x
<1>1. Source[f] \in Tables /\ Target[f] \in Tables
  BY SchemaAssumption
<1> DEFINE n == db.len[Target[f]]
           a == Len(tx.additions[Target[f]])
           m == IndexMod[Source[f]]
           big == MaxRows[Target[f]]
<1>2. n \in Nat /\ a \in Nat
  BY <1>1, PlanApplies
<1>3. n <= big /\ a <= MaxStaged
  BY <1>1 DEF TypeOK, DatabaseTyped, EditsTyped
<1>4. big + MaxStaged <= m
  BY DEF CountsFit
<1>5. m \in Nat \ {0} /\ big \in Nat /\ MaxStaged \in Nat
  BY <1>1, SizeAssumption
<1>6. x \in 0 .. n - 1 \/ x \in n .. n + a - 1
  BY DEF RowsOf, StagedIds
<1> HIDE DEF n, a, m, big
<1>7. x \in 0 .. m - 1 /\ x \in Int
  BY <1>2, <1>3, <1>4, <1>5, <1>6
<1>8. x = m * 0 + x
  BY <1>5, <1>7
<1>9. x % m = x
  BY <1>5, <1>7, <1>8, ModIs
<1> QED
  BY <1>9 DEF m

\* What the patch adds to the count of a target: the items put into its list
\* and, each as the largest value of the index type, the rows that leave it.
LEMMA CountDeltaIs ==
  ASSUME Committing, CountsFit, TrackCounts, NEW f \in ForeignKeys, NEW ord,
         Linked(RowsOf(Source[f]), RowsOf(Target[f]), db.col[f], ord),
         NEW t \in LiveIds(Target[f])
  PROVE  CountDelta(f, OracleOf(Source[f]), OracleOf(Target[f]), NewIndex(Target[f])[t])
           = Cardinality(ItemsTo(Staged(f), t)) + Cardinality(ItemsTo(tx.updates[f], t))
               + Cardinality(RowsTo(RowsOf(Source[f]), db.col[f].fk, t) \cap Departing(f))
                   * (IndexMod[Source[f]] - 1)
<1> DEFINE S == Source[f]
           T == Target[f]
           so == OracleOf(S)
           to == OracleOf(T)
           c == db.col[f]
           st == Staged(f)
           upd == tx.updates[f]
           p == NewIndex(T)[t]
           dead == Departing(f)
           LT == LiveIds(T)
           narrow(x) == x % IndexMod[S]
           lost == {x \in dead : c.fk[x] # Missing /\ Resolve(to, narrow(c.fk[x])) = p}
           gained == {k \in DOMAIN st : /\ st[k].target # Missing
                                        /\ Resolve(to, narrow(st[k].target)) = p}
           relinked == {k \in DOMAIN upd : Resolve(to, Resolve(to, upd[k].target)) = p}
<1>1. /\ S \in Tables /\ T \in Tables /\ TypeOK /\ RelinkTargetsKeepTheirIndex
      /\ StagedTargetsExist /\ StagedKeysLive /\ RelinkTargetsStay
  BY SchemaAssumption DEF Committing
<1>2. CountDelta(f, so, to, p)
        = Cardinality(gained) + Cardinality(relinked) + Cardinality(lost) * (IndexMod[S] - 1)
  <2>1. so.deletions = tx.deletions[S]
    BY DEF OracleOf, Oracle
  <2> QED
    BY <2>1 DEF CountDelta, Staged, Departing
<1>3. /\ p = Resolve(to, t) /\ p # Missing /\ t # Missing
      /\ \A x, y \in LT : Resolve(to, x) = Resolve(to, y) => x = y
      /\ \A x \in tx.deletions[T] \cup {Missing} : Resolve(to, x) = Missing
      /\ LT = (RowsOf(T) \ tx.deletions[T]) \cup StagedIds(T)
      /\ \A x \in LT : Resolve(to, x) # Missing
  BY <1>1, TableRenumbered DEF NewIndex
<1>4. \A x \in RowsOf(T) \cup StagedIds(T) : narrow(x) = x
  BY <1>1, TargetsAreNarrow
<1>5. \A x \in RowsOf(T) \cup StagedIds(T) : Resolve(to, narrow(x)) = p <=> x = t
  BY <1>3, <1>4
<1>6. /\ \A x \in dead : c.fk[x] \in RowsOf(T) \cup {Missing} /\ x \in RowsOf(S)
  <2>1. dead \subseteq RowsOf(S)
    BY RowsOfCommit
  <2> QED
    BY <2>1 DEF Linked, Columns
<1>7. lost = RowsTo(RowsOf(S), c.fk, t) \cap dead
  <2>1. \A x \in dead : (c.fk[x] # Missing /\ Resolve(to, narrow(c.fk[x])) = p) <=> c.fk[x] = t
    BY <1>3, <1>5, <1>6
  <2> HIDE DEF dead, to, c, narrow, p
  <2> QED
    BY <1>6, <2>1 DEF RowsTo
<1>8. /\ DOMAIN st = 1 .. Len(tx.additions[S])
      /\ \A k \in 1 .. Len(tx.additions[S]) : st[k].target = tx.additions[S][k][f]
      /\ DOMAIN tx.additions[S] = 1 .. Len(tx.additions[S])
  <2>1. tx.additions[S] \in Seq(StagedRow(S))
    BY <1>1 DEF TypeOK, EditsTyped
  <2>2. DOMAIN tx.additions[S] = 1 .. Len(tx.additions[S])
    BY <2>1
  <2> QED
    BY <1>1, <2>2, StagedItemsAre
<1>9. /\ \A k \in DOMAIN st : st[k].target \in RowsOf(T) \cup StagedIds(T) \cup {Missing}
      /\ \A k \in DOMAIN upd : upd[k].target \in LT \cup {Missing}
  <2>1. \A k \in DOMAIN st : st[k].target \in KeysTo(T)
    BY <1>1, <1>8 DEF StagedTargetsExist
  <2>2. \A k \in DOMAIN upd : upd[k].target \in KeysTo(T) /\ upd[k].target \notin tx.deletions[T]
    BY <1>1 DEF StagedTargetsExist, RelinkTargetsStay
  <2> QED
    BY <1>3, <2>1, <2>2 DEF KeysTo
<1>10. gained = ItemsTo(st, t)
  <2>1. \A k \in DOMAIN st : (st[k].target # Missing /\ Resolve(to, narrow(st[k].target)) = p)
                               <=> st[k].target = t
    BY <1>3, <1>5, <1>9
  <2> HIDE DEF st, to, narrow, p
  <2> QED
    BY <2>1 DEF ItemsTo
<1>11. relinked = ItemsTo(upd, t)
  <2>1. \A k \in DOMAIN upd : Resolve(to, upd[k].target) \in {upd[k].target, Missing}
    BY <1>1 DEF RelinkTargetsKeepTheirIndex
  <2>2. \A k \in DOMAIN upd : Resolve(to, Resolve(to, upd[k].target)) = p <=> upd[k].target = t
    BY <1>3, <1>9, <2>1
  <2> HIDE DEF upd, to, p
  <2> QED
    BY <2>2 DEF ItemsTo
<1> HIDE DEF lost, gained, relinked
<1> QED
  BY <1>2, <1>7, <1>10, <1>11

\* No target has more rows than the table will have.
LEMMA RowsAreFew ==
  ASSUME TypeOK, NEW t \in Tables
  PROVE  /\ Cardinality(NewRows(t)) = OracleOf(t).newSize
         /\ OracleOf(t).newSize \in Nat /\ OracleOf(t).newSize <= MaxRows[t]
<1>1. /\ db.len[t] \in Nat /\ Len(tx.additions[t]) \in Nat
      /\ OracleOf(t).newSize \in Nat
      /\ OracleOf(t).newSize =
           db.len[t] + Len(tx.additions[t]) - Cardinality(tx.deletions[t])
      /\ Cardinality(tx.deletions[t]) \in Nat
  BY PlanApplies
<1>2. db.len[t] + Len(tx.additions[t]) <= MaxRows[t] + Cardinality(tx.deletions[t])
  BY DEF TypeOK, EditsTyped
<1>3. MaxRows[t] \in Nat
  BY SizeAssumption
<1>4. OracleOf(t).newSize <= MaxRows[t]
  BY <1>1, <1>2, <1>3
<1>5. Cardinality(NewRows(t)) = OracleOf(t).newSize
  <2> DEFINE n == OracleOf(t).newSize
  <2>1. n \in Nat /\ NewRows(t) = 0 .. n - 1
    BY <1>1 DEF NewRows
  <2> HIDE DEF n
  <2>2. Cardinality(0 .. n - 1) = n
    BY <2>1, FS_Interval
  <2> QED
    BY <2>1, <2>2 DEF n
<1> QED
  BY <1>1, <1>4, <1>5

\* The count of a target before its patch: its old count, 0 if it is staged.
LEMMA CountColumn ==
  ASSUME TypeOK, TrackCounts, NEW f \in ForeignKeys, NEW t \in LiveIds(Target[f])
  PROVE  CommitColumn(f).cnt[NewIndex(Target[f])[t]]
           = ((IF t \in StagedIds(Target[f]) THEN 0 ELSE db.col[f].cnt[t])
                + CountDelta(f, OracleOf(Source[f]), OracleOf(Target[f]),
                             NewIndex(Target[f])[t])) % CountMod
<1> DEFINE to == OracleOf(Target[f])
           so == OracleOf(Source[f])
           col == db.col[f].cnt
           zeros == [k \in DOMAIN to.dest |-> 0]
           new(p) == CHOOSE k \in DOMAIN to.dest : to.dest[k] = p
           moved(p) == CHOOSE i \in DOMAIN to.moves : to.moves[i] = p
           staged(p) == \E k \in DOMAIN to.dest : to.dest[k] = p
           isMoved(p) == \E i \in DOMAIN to.moves : to.moves[i] = p
           N == 0 .. to.newSize - 1
           m == [p \in N |-> IF staged(p) THEN 0
                             ELSE IF isMoved(p) THEN col[moved(p)] ELSE col[p]]
           x == NewIndex(Target[f])[t]
           z == t - db.len[Target[f]]
           all == [i \in DOMAIN m |-> (m[i] + CountDelta(f, so, to, i)) % CountMod]
<1>1. Target[f] \in Tables
  BY SchemaAssumption
<1>2. CommitColumn(f).cnt = all
  BY DEF CommitColumn, Materialize
<1>3. MaterializedAs(col, to, zeros)
        = [p \in N |-> IF staged(p) THEN zeros[new(p)]
                       ELSE IF isMoved(p) THEN col[moved(p)] ELSE col[p]]
  BY DEF MaterializedAs
<1>4. ASSUME NEW p \in N, staged(p) PROVE zeros[new(p)] = 0
  <2>1. new(p) \in DOMAIN to.dest
    BY <1>4
  <2> HIDE DEF new
  <2> QED
    BY <2>1
<1>5. /\ x \in DOMAIN MaterializedAs(col, to, zeros)
      /\ MaterializedAs(col, to, zeros)[x] = IF t \in StagedIds(Target[f]) THEN zeros[z]
                                             ELSE col[t]
  BY <1>1, MaterializedAt
<1>6. t \in StagedIds(Target[f]) => zeros[z] = 0
  <2>1. t \in StagedIds(Target[f]) => z \in 0 .. Len(tx.additions[Target[f]]) - 1
    BY <1>1, PlaceOf
  <2>2. DOMAIN to.dest = 0 .. Len(tx.additions[Target[f]]) - 1
    BY DEF OracleOf, Oracle, AdditionDest
  <2> QED
    BY <2>1, <2>2
<1> HIDE DEF new, moved, staged, isMoved, N, zeros, x, z, to, so, col
<1>7. MaterializedAs(col, to, zeros) = m
  BY <1>3, <1>4
<1> HIDE DEF m
<1>8. all[x] = (m[x] + CountDelta(f, so, to, x)) % CountMod
  BY <1>5, <1>7
<1>9. m[x] = IF t \in StagedIds(Target[f]) THEN 0 ELSE col[t]
  BY <1>5, <1>6, <1>7
<1> HIDE DEF all
<1>10. CommitColumn(f).cnt[x]
         = ((IF t \in StagedIds(Target[f]) THEN 0 ELSE col[t])
              + CountDelta(f, so, to, x)) % CountMod
  BY <1>2, <1>8, <1>9
<1> QED
  BY <1>10 DEF x, so, to, col

\* Every count is the number of rows that have the target, after as before.
LEMMA NewCounts ==
  ASSUME Committing, CountsFit, TrackCounts, NEW f \in ForeignKeys, NEW ord,
         Linked(RowsOf(Source[f]), RowsOf(Target[f]), db.col[f], ord),
         \A t \in RowsOf(Target[f]) :
           db.col[f].cnt[t] = Cardinality(RowsTo(RowsOf(Source[f]), db.col[f].fk, t)),
         NEW p \in NewRows(Target[f])
  PROVE  CommitColumn(f).cnt[p]
           = Cardinality(RowsTo(NewRows(Source[f]), ResolvedColumns(f).fk, p))
<1> DEFINE S == Source[f]
           T == Target[f]
           c == db.col[f]
           I == RowsOf(S)
           L == LiveIds(S)
           LT == LiveIds(T)
           d == ColumnsAfter(f)
           e == ResolvedColumns(f)
           dead == Departing(f)
           st == Staged(f)
           upd == tx.updates[f]
           items == Arriving(f)
           u == Len(upd)
           a == Len(tx.additions[S])
           rt == NewIndex(T)
           m == IndexMod[S]
<1>1. /\ S \in Tables /\ T \in Tables /\ TypeOK
  BY SchemaAssumption DEF Committing
<1>2. PICK t \in LT : rt[t] = p
  <2>1. Numbers(rt, LT, NewRows(T))
    BY <1>1, TableRenumbered
  <2> HIDE DEF rt, LT
  <2> QED
    BY <2>1 DEF Numbers
<1> DEFINE A == RowsTo(I, c.fk, t)
           l == Cardinality(A \cap dead)
           g == Cardinality(ItemsTo(st, t))
           q == Cardinality(ItemsTo(upd, t))
           n == Cardinality(RowsTo(L, d.fk, t))
<1>3. CountDelta(f, OracleOf(S), OracleOf(T), p) = g + q + l * (m - 1)
  BY <1>2, CountDeltaIs
<1>4. (IF t \in StagedIds(T) THEN 0 ELSE c.cnt[t]) = Cardinality(A)
  <2>1. CASE t \in StagedIds(T)
    <3>1. db.len[T] \in Nat
      BY <1>1, PlanApplies
    <3>2. t \notin RowsOf(T)
      BY <2>1, <3>1 DEF StagedIds, RowsOf
    <3>3. t # Missing
      BY <1>1, TableRenumbered
    <3>4. A = {}
      BY <3>2, <3>3 DEF RowsTo, Linked, Columns
    <3> QED
      BY <2>1, <3>4, FS_EmptySet
  <2>2. CASE t \notin StagedIds(T)
    <3>1. t \in RowsOf(T)
      BY <1>1, <2>2, TableRenumbered
    <3> QED
      BY <2>2, <3>1
  <2> QED
    BY <2>1, <2>2
<1>5. CommitColumn(f).cnt[p] = (Cardinality(A) + (g + q + l * (m - 1))) % CountMod
  <2>1. CommitColumn(f).cnt[p]
          = ((IF t \in StagedIds(T) THEN 0 ELSE c.cnt[t])
               + CountDelta(f, OracleOf(S), OracleOf(T), p)) % CountMod
    BY <1>1, <1>2, CountColumn
  <2> QED
    BY <1>3, <1>4, <2>1
<1>6. /\ u \in Nat /\ a \in Nat /\ Follow(upd, u, st, a, items) /\ DOMAIN items = 1 .. u + a
  BY <1>1, StagedItemsAre
<1>7. /\ IsFiniteSet(ItemsTo(st, t)) /\ IsFiniteSet(ItemsTo(upd, t))
      /\ Cardinality(ItemsTo(items, t)) = q + g
  <2> HIDE DEF st, upd, items, u, a
  <2> QED
    BY <1>6, ItemsAdd
<1>8. PatchedColumns(I, RowsOf(T), c, dead, items, L, LT, d, PatchOf(f))
  BY ColumnsAfterPatched
<1>9. IsFiniteSet(I)
  BY <1>1, RowsAreIndices
<1>10. /\ \A i, j \in 1 .. u + a : items[i].row = items[j].row => i = j
       /\ \A i \in 1 .. u + a : items[i].row \in Relinked(f) \cup StagedIds(S)
  BY ItemsOfCommit, ZenonT(30)
<1>11. \A i \in 1 .. u + a : items[i].row \notin I \ dead
  <2>1. (I \ dead) \cap (Relinked(f) \cup StagedIds(S)) = {}
    BY RowsOfCommit
  <2> QED
    BY <1>10, <2>1
<1>12. /\ IsFiniteSet(A \cap dead) /\ IsFiniteSet(A)
       /\ n = Cardinality(A) - l + Cardinality(ItemsTo(items, t))
  <2> HIDE DEF I, c, dead, items, L, LT, d, u, a
  <2>1. u + a \in Nat
    BY <1>6
  <2> DEFINE k == u + a
             T0 == RowsOf(T)
             P == PatchOf(f)
  <2> HIDE DEF k, T0, P
  <2>2. ItemsPatched(I, T0, c, dead, k, items, L, LT, d, P)
    BY <1>6, <1>8, <1>9, <1>10, <1>11, <2>1 DEF ItemsPatched, k, T0, P
  <2>3. /\ IsFiniteSet(RowsTo(I, c.fk, t) \cap dead) /\ IsFiniteSet(RowsTo(I, c.fk, t))
        /\ Cardinality(RowsTo(L, d.fk, t))
              = Cardinality(RowsTo(I, c.fk, t)) - Cardinality(RowsTo(I, c.fk, t) \cap dead)
                  + Cardinality(ItemsTo(items, t))
    BY <2>2, PatchedCount
  <2> QED
    BY <2>3
<1>13. /\ IsFiniteSet(RowsTo(NewRows(S), e.fk, p))
       /\ Cardinality(RowsTo(NewRows(S), e.fk, p)) = n
  <2>1. PICK new : Linked(L, LT, d, new)
    BY PatchedListsLinked
  <2>2. /\ \A x \in L : d.fk[x] \in LT \cup {Missing}
        /\ Missing \notin LT
    BY <2>1 DEF Linked, Columns
  <2>3. RenumberedColumns(L, LT, d, NewRows(S), NewRows(T), e, NewIndex(S), rt)
    BY ColumnsRenumbered
  <2>4. /\ Numbers(NewIndex(S), L, NewRows(S)) /\ IsFiniteSet(L)
    BY <1>1, TableRenumbered
  <2>5. Numbers(rt, LT, NewRows(T)) /\ Missing \notin NewRows(T)
    BY <1>1, TableRenumbered
  <2> DEFINE r == NewIndex(S)
             N == NewRows(S)
             NT == NewRows(T)
  <2>6. /\ RenumberedColumns(L, LT, d, N, NT, e, r, rt) /\ t \in LT
        /\ Numbers(r, L, N) /\ IsFiniteSet(L) /\ Numbers(rt, LT, NT) /\ Missing \notin NT
        /\ \A x \in L : d.fk[x] \in LT \cup {Missing}
        /\ Missing \notin LT
    BY <1>2, <2>2, <2>3, <2>4, <2>5
  <2> HIDE DEF L, LT, d, e, rt, r, N, NT
  <2>7. /\ IsFiniteSet(RowsTo(N, e.fk, rt[t]))
        /\ Cardinality(RowsTo(N, e.fk, rt[t])) = Cardinality(RowsTo(L, d.fk, t))
    BY <2>6, RenumberedRows
  <2> QED
    BY <1>2, <2>7 DEF N
<1>14. n \in Nat /\ n < CountMod
  <2>1. RowsTo(NewRows(S), e.fk, p) \subseteq NewRows(S)
    BY DEF RowsTo
  <2>2. IsFiniteSet(NewRows(S)) /\ Cardinality(NewRows(S)) \in Nat
        /\ Cardinality(NewRows(S)) <= MaxRows[S]
    <3>1. IsFiniteSet(NewRows(S))
      BY <1>1, TableRenumbered
    <3> QED
      BY <1>1, <3>1, RowsAreFew
  <2>3. MaxRows[S] < CountMod /\ MaxRows[S] \in Nat /\ CountMod \in Nat
    BY <1>1, SizeAssumption DEF CountsFit
  <2>4. n <= Cardinality(NewRows(S)) /\ n \in Nat
    BY <1>13, <2>1, <2>2, FS_Subset, FS_CardinalityType
  <2> QED
    BY <2>2, <2>3, <2>4
<1>15. PICK z \in Nat : m = CountMod * z
  BY DEF CountsFit
<1>16. l \in Nat /\ g \in Nat /\ q \in Nat /\ Cardinality(A) \in Nat
  BY <1>7, <1>12, FS_CardinalityType
<1>17. CountMod \in Nat \ {0}
  BY SizeAssumption
<1> HIDE DEF l, g, q, n, A, m
<1>18. Cardinality(A) + (g + q + l * (m - 1)) = CountMod * (z * l) + n
  <2>1. l * (m - 1) = l * m - l /\ l * m = CountMod * (z * l)
    BY <1>15, <1>16, <1>17
  <2> DEFINE lm == l * m
             lm1 == l * (m - 1)
             C == Cardinality(A)
             D == Cardinality(ItemsTo(items, t))
             w == CountMod * (z * l)
  <2>2. /\ lm1 = lm - l /\ lm = w /\ n = C - l + D /\ D = q + g /\ C \in Nat
    BY <1>7, <1>12, <1>16, <2>1 DEF n, A, l, g, q
  <2>3. w \in Int /\ lm \in Int /\ lm1 \in Int
    BY <1>15, <1>16, <1>17
  <2> HIDE DEF lm, lm1, C, D, w
  <2>4. C + (g + q + lm1) = w + n
    BY <1>16, <2>2, <2>3
  <2> QED
    BY <2>4 DEF C, lm1, w
<1>19. (Cardinality(A) + (g + q + l * (m - 1))) % CountMod = n
  <2> DEFINE w == z * l
             x == Cardinality(A) + (g + q + l * (m - 1))
  <2>1. w \in Int /\ x = CountMod * w + n /\ n \in 0 .. CountMod - 1
    BY <1>14, <1>15, <1>16, <1>17, <1>18
  <2>2. x \in Int
    BY <1>14, <1>17, <2>1
  <2> HIDE DEF w, x
  <2>3. x % CountMod = n
    BY <1>17, <2>1, <2>2, ModIs
  <2> QED
    BY <2>3 DEF x
<1> QED
  BY <1>5, <1>13, <1>19 DEF S, e

(***************************************************************************)
(* What is staged.                                                         *)
(***************************************************************************)
\* Nothing staged is as it should be.
LEMMA NothingIsStaged ==
  ASSUME \A t \in Tables : tx'.additions[t] = <<>>,
         \A f \in ForeignKeys : tx'.updates[f] = <<>>
  PROVE  StagedTargetsExist' /\ UpdatesDiffer'
<1>1. DOMAIN <<>> = {}
  OBVIOUS
<1> QED
  BY <1>1, SchemaAssumption DEF StagedTargetsExist, UpdatesDiffer

\* Steps that stage neither rows nor keys.
LEMMA StagedStays ==
  ASSUME StagedTargetsExist, UpdatesDiffer, db' = db,
         tx'.additions = tx.additions, tx'.updates = tx.updates
  PROVE  StagedTargetsExist' /\ UpdatesDiffer'
<1>1. \A t : KeysTo(t)' = KeysTo(t)
  BY DEF KeysTo, RowsOf, StagedIds
<1> QED
  BY <1>1 DEF StagedTargetsExist, UpdatesDiffer

\* A key that may be staged may be staged later, too.
LEMMA KeysToGrow ==
  ASSUME NEW t \in Tables, db.len[t] \in Nat, db'.len[t] = db.len[t],
         Len(tx.additions[t]) \in Nat, Len(tx'.additions[t]) \in Nat,
         Len(tx.additions[t]) <= Len(tx'.additions[t])
  PROVE  KeysTo(t) \subseteq KeysTo(t)'
<1> DEFINE n == db.len[t]
           a == Len(tx.additions[t])
           b == Len(tx'.additions[t])
<1>1. /\ KeysTo(t) = (0 .. n - 1) \cup (n .. n + a - 1) \cup {Missing}
      /\ KeysTo(t)' = (0 .. n - 1) \cup (n .. n + b - 1) \cup {Missing}
  BY DEF KeysTo, RowsOf, StagedIds
<1>2. n \in Nat /\ a \in Nat /\ b \in Nat /\ a <= b
  OBVIOUS
<1> HIDE DEF n, a, b
<1> QED
  BY <1>1, <1>2

\* register_additions stages keys the program may write.
LEMMA AddKeepsStaged ==
  ASSUME TypeOK, StagedTargetsExist, UpdatesDiffer, NEW t \in Tables, NEW n \in Nat,
         NEW newRows \in [1 .. n -> RowsToAdd(t)], AddEntries(t, newRows)
  PROVE  StagedTargetsExist' /\ UpdatesDiffer'
<1> DEFINE targets(f) == {newRows[i][f] : i \in DOMAIN newRows}
           claims == [u \in Tables |-> tx.claims[u] \cup
                        UNION {targets(f) : f \in {g \in KeysOf(t) : Target[g] = u}}]
<1>0. tx \in StagedEdits
  BY DEF TypeOK, EditsTyped
<1>1. db' = db
  BY DEF AddEntries
<1>2. CASE tx' = [tx EXCEPT !.calls = @ + 1, !.staged = @ \cup {t}]
  <2>1. tx'.additions = tx.additions /\ tx'.updates = tx.updates
    BY <1>0, <1>2 DEF StagedEdits
  <2> QED
    BY <1>1, <2>1, StagedStays
<1>3. CASE tx' = [tx EXCEPT !.calls = @ + 1, !.staged = @ \cup {t},
                            !.additions[t] = @ \o newRows, !.claims = claims]
  <2> HIDE DEF claims
  <2>1. tx'.updates = tx.updates /\ tx'.additions = [tx.additions EXCEPT ![t] = @ \o newRows]
    BY <1>0, <1>3 DEF StagedEdits
  <2> DEFINE R == RowsToAdd(t) \cup UNION {StagedRow(u) : u \in Tables}
             S == Seq(R)
             old == tx.additions[t]
  <2>2. /\ tx.additions \in [Tables -> Seq(UNION {StagedRow(u) : u \in Tables})]
        /\ \A u \in Tables : Len(tx.additions[u]) \in Nat
    BY <1>0, LenProperties DEF StagedEdits, StagedAdditions
  <2>3. old \in S
    <3>1. old \in Seq(UNION {StagedRow(u) : u \in Tables})
      BY <2>2
    <3> HIDE DEF old
    <3> QED
      BY <3>1
  <2>4. newRows \in S /\ Len(newRows) = n
    BY DEF S
  <2> HIDE DEF R, old
  <2>5. /\ Len(old) \in Nat /\ Len(newRows) \in Nat
        /\ Len(old \o newRows) = Len(old) + Len(newRows)
        /\ DOMAIN old = 1 .. Len(old)
        /\ DOMAIN (old \o newRows) = 1 .. Len(old) + Len(newRows)
        /\ \A i \in 1 .. Len(old) + Len(newRows) :
             (old \o newRows)[i] = IF i <= Len(old) THEN old[i] ELSE newRows[i - Len(old)]
    BY <2>3, <2>4, EntriesFollow
  <2> HIDE DEF S
  <2>6. /\ tx'.additions[t] = old \o newRows
        /\ \A u \in Tables : u # t => tx'.additions[u] = tx.additions[u]
    BY <2>1, <2>2 DEF old
  <2>7. ASSUME NEW u \in Tables PROVE KeysTo(u) \subseteq KeysTo(u)'
    <3>1. Len(tx'.additions[u]) \in Nat /\ Len(tx.additions[u]) <= Len(tx'.additions[u])
      <4>1. CASE u = t
        BY <2>5, <2>6, <4>1 DEF old
      <4>2. CASE u # t
        BY <2>2, <2>6, <4>2
      <4> QED
        BY <4>1, <4>2
    <3>2. db.len[u] \in Nat
      BY RowsAreIndices
    <3> QED
      BY <1>1, <2>2, <3>1, <3>2, KeysToGrow
  <2>8. ASSUME NEW f \in ForeignKeys
        PROVE  /\ \A k \in DOMAIN tx'.additions[Source[f]] :
                    tx'.additions[Source[f]][k][f] \in KeysTo(Target[f])'
               /\ \A k \in DOMAIN tx'.updates[f] :
                    tx'.updates[f][k].target \in KeysTo(Target[f])'
    <3>0. Source[f] \in Tables /\ Target[f] \in Tables
      BY SchemaAssumption
    <3>1. /\ KeysTo(Target[f]) \subseteq KeysTo(Target[f])'
          /\ \A k \in DOMAIN tx.additions[Source[f]] :
               tx.additions[Source[f]][k][f] \in KeysTo(Target[f])
          /\ \A k \in DOMAIN tx.updates[f] : tx.updates[f][k].target \in KeysTo(Target[f])
      BY <2>7, <3>0 DEF StagedTargetsExist
    <3>2. CASE Source[f] # t
      BY <2>1, <2>6, <3>0, <3>1, <3>2
    <3>3. CASE Source[f] = t
      <4>1. \A i \in 1 .. n : newRows[i][f] \in KeysTo(Target[f])
        <5>1. f \in KeysOf(t)
          BY <3>3 DEF KeysOf
        <5>2. \A i \in 1 .. n : newRows[i] \in RowsToAdd(t)
          OBVIOUS
        <5> QED
          BY <5>1, <5>2 DEF RowsToAdd
      <4>2. ASSUME NEW k \in 1 .. Len(old) + Len(newRows)
            PROVE  (old \o newRows)[k][f] \in KeysTo(Target[f])
        <5>1. CASE k <= Len(old)
          BY <2>5, <3>1, <3>3, <5>1 DEF old
        <5>2. CASE ~(k <= Len(old))
          <6>1. k - Len(old) \in 1 .. n
            BY <2>4, <2>5, <5>2
          <6> QED
            BY <2>5, <4>1, <5>2, <6>1
        <5> QED
          BY <5>1, <5>2
      <4> HIDE DEF old
      <4> QED
        BY <2>1, <2>5, <2>6, <3>1, <3>3, <4>2
    <3> QED
      BY <3>2, <3>3
  <2> QED
    BY <2>1, <2>8 DEF StagedTargetsExist, UpdatesDiffer
<1> QED
  BY <1>2, <1>3 DEF AddEntries

\* register_updates stages one update for each row, of rows that have none.
LEMMA UpdateKeepsStaged ==
  ASSUME TypeOK, StagedTargetsExist, UpdatesDiffer, NEW f \in ForeignKeys,
         NEW rows, rows \subseteq Nat,
         NEW target \in KeysTo(Target[f]), UpdateEntries(f, rows, target)
  PROVE  StagedTargetsExist' /\ UpdatesDiffer'
<1> DEFINE changed == {r \in rows : db.col[f].fk[r] # target}
           entry == [k \in 1 .. Cardinality(changed) |->
                       [row |-> Nth(k - 1, changed), target |-> target]]
<1>0. tx \in StagedEdits
  BY DEF TypeOK, EditsTyped
<1>1. db' = db
  BY DEF UpdateEntries
<1>2. CASE tx' = [tx EXCEPT !.calls = @ + 1]
  <2>1. tx'.additions = tx.additions /\ tx'.updates = tx.updates
    BY <1>0, <1>2 DEF StagedEdits
  <2> QED
    BY <1>1, <2>1, StagedStays
<1>3. CASE /\ \A r \in rows : ~(r >= db.len[Source[f]])
           /\ rows \cap Relinked(f) = {}
           /\ tx' = [tx EXCEPT !.calls = @ + 1, !.updates[f] = @ \o entry]
  <2>1. Source[f] \in Tables /\ db.len[Source[f]] \in Nat
    BY SchemaAssumption, RowsAreIndices
  <2>2. rows \subseteq RowsOf(Source[f])
    BY <1>3, <2>1 DEF RowsOf
  <2>3. /\ entry \in Seq(StagedKey)
        /\ \A k \in 1 .. Len(entry) : entry[k].row \in changed
    BY <2>2, UpdateEntryTyped
  <2>3a. /\ \A k \in 1 .. Len(entry) : entry[k].target = target
         /\ \A i, j \in 1 .. Len(entry) : entry[i].row = entry[j].row => i = j
    <3>1. IsFiniteSet(changed) /\ changed \in SUBSET Int /\ Cardinality(changed) \in Nat
      <4>1. IsFiniteSet(RowsOf(Source[f])) /\ RowsOf(Source[f]) \subseteq Nat
        BY <2>1, RowsAreIndices
      <4> QED
        BY <2>2, <4>1, FS_Subset, FS_CardinalityType
    <3> DEFINE n == Cardinality(changed)
    <3>2. ASSUME NEW k \in 1 .. n PROVE Rank(Nth(k - 1, changed), changed) = k - 1
      <4>1. k - 1 \in 0 .. Cardinality(changed) - 1
        BY <3>1
      <4> QED
        BY <3>1, <4>1, NthProperties
    <3>3. /\ Len(entry) = n
          /\ \A k \in 1 .. n : entry[k].row = Nth(k - 1, changed) /\ entry[k].target = target
      BY <3>1
    <3> HIDE DEF entry, changed, n
    <3>4. ASSUME NEW i \in 1 .. n, NEW j \in 1 .. n, entry[i].row = entry[j].row
          PROVE  i = j
      <4>1. Rank(entry[i].row, changed) = i - 1 /\ Rank(entry[j].row, changed) = j - 1
        BY <3>2, <3>3
      <4>2. n \in Nat
        BY <3>1 DEF n
      <4> QED
        BY <3>4, <4>1, <4>2
    <3> QED
      BY <3>3, <3>4
  <2> HIDE DEF entry
  <2>4. /\ tx'.additions = tx.additions
        /\ tx'.updates = [tx.updates EXCEPT ![f] = @ \o entry]
    BY <1>0, <1>3 DEF StagedEdits
  <2> DEFINE S == Seq(StagedKey)
             old == tx.updates[f]
  <2>5. tx.updates \in [ForeignKeys -> S]
    BY <1>0, EditFields DEF StagedUpdates
  <2>6. /\ old \o entry \in S
        /\ Len(old) \in Nat /\ Len(entry) \in Nat /\ DOMAIN old = 1 .. Len(old)
        /\ DOMAIN (old \o entry) = 1 .. Len(old) + Len(entry)
        /\ \A i \in 1 .. Len(old) + Len(entry) :
             (old \o entry)[i] = IF i <= Len(old) THEN old[i] ELSE entry[i - Len(old)]
    BY <2>3, <2>5, ConcatProperties, LenProperties
  <2> HIDE DEF S
  <2>7. /\ tx'.updates[f] = old \o entry
        /\ \A g \in ForeignKeys : g # f => tx'.updates[g] = tx.updates[g]
    BY <2>4, <2>5
  <2>8. /\ \A i \in 1 .. Len(old) :
             old[i].row \in Relinked(f) /\ old[i].target \in KeysTo(Target[f])
        /\ \A i, j \in 1 .. Len(old) : old[i].row = old[j].row => i = j
    BY <2>6 DEF Relinked, StagedTargetsExist, UpdatesDiffer
  <2>9. \A k \in 1 .. Len(entry) : entry[k].row \notin Relinked(f)
    BY <1>3, <2>3
  <2> HIDE DEF old
  <2>10. ASSUME NEW i \in 1 .. Len(old) + Len(entry)
         PROVE  \/ /\ i \in 1 .. Len(old) /\ (old \o entry)[i] = old[i]
                \/ /\ i \notin 1 .. Len(old) /\ i - Len(old) \in 1 .. Len(entry)
                   /\ (old \o entry)[i] = entry[i - Len(old)]
    BY <2>6
  <2>11. ASSUME NEW i \in 1 .. Len(old) + Len(entry), NEW j \in 1 .. Len(old) + Len(entry),
                (old \o entry)[i].row = (old \o entry)[j].row
         PROVE  i = j
    <3>1. CASE i \in 1 .. Len(old) /\ j \in 1 .. Len(old)
      BY <2>8, <2>10, <2>11, <3>1
    <3>2. CASE i \notin 1 .. Len(old) /\ j \notin 1 .. Len(old)
      <4>1. i - Len(old) = j - Len(old)
        BY <2>3a, <2>10, <2>11, <3>2
      <4> QED
        BY <2>6, <4>1
    <3>3. CASE (i \in 1 .. Len(old)) # (j \in 1 .. Len(old))
      BY <2>8, <2>9, <2>10, <2>11, <3>3
    <3> QED
      BY <3>1, <3>2, <3>3
  <2>12. \A i \in 1 .. Len(old) + Len(entry) : (old \o entry)[i].target \in KeysTo(Target[f])
    BY <2>3a, <2>8, <2>10
  <2>13. \A t : KeysTo(t)' = KeysTo(t)
    BY <1>1, <2>4 DEF KeysTo, RowsOf, StagedIds
  <2>14. StagedTargetsExist'
    <3> SUFFICES ASSUME NEW g \in ForeignKeys
                 PROVE  /\ \A k \in DOMAIN tx.additions[Source[g]] :
                             tx.additions[Source[g]][k][g] \in KeysTo(Target[g])
                        /\ \A k \in DOMAIN tx'.updates[g] :
                             tx'.updates[g][k].target \in KeysTo(Target[g])
      BY <2>4, <2>13 DEF StagedTargetsExist
    <3>1. CASE g = f
      BY <2>6, <2>7, <2>12, <3>1 DEF StagedTargetsExist
    <3>2. CASE g # f
      BY <2>7, <3>2 DEF StagedTargetsExist
    <3> QED
      BY <3>1, <3>2
  <2>15. UpdatesDiffer'
    <3> SUFFICES ASSUME NEW g \in ForeignKeys, NEW i \in DOMAIN tx'.updates[g],
                        NEW j \in DOMAIN tx'.updates[g],
                        tx'.updates[g][i].row = tx'.updates[g][j].row
                 PROVE  i = j
      BY DEF UpdatesDiffer
    <3>1. CASE g = f
      BY <2>6, <2>7, <2>11, <3>1
    <3>2. CASE g # f
      BY <2>7, <3>2 DEF UpdatesDiffer
    <3> QED
      BY <3>1, <3>2
  <2> QED
    BY <2>14, <2>15
<1> QED
  BY <1>2, <1>3 DEF UpdateEntries, Refuse

\* Every step keeps what is staged as it should be.
LEMMA StepKeepsStaged ==
  ASSUME TypeOK, StagedTargetsExist, UpdatesDiffer, [Next]_vars
  PROVE  StagedTargetsExist' /\ UpdatesDiffer'
<1>0. tx \in StagedEdits
  BY DEF TypeOK, EditsTyped
<1>1. CASE Begin \/ Commit \/ CommitTorn \/ CommitRefused \/ Rollback
  <2>1. tx' = NoTx \/ tx' = [NoTx EXCEPT !.open = TRUE]
    BY <1>1 DEF Begin, Commit, CommitTorn, CommitRefused, Rollback, Close
  <2>2. /\ tx'.additions = [t \in Tables |-> <<>>]
        /\ tx'.updates = [f \in ForeignKeys |-> <<>>]
    BY <2>1 DEF NoTx
  <2> QED
    BY <2>2, NothingIsStaged
<1>2. CASE \E t \in Tables : \E n \in 1 .. MaxStaged :
             \E rows \in [1 .. n -> RowsToAdd(t)] : AddEntries(t, rows)
  <2>1. PICK t \in Tables, n \in 1 .. MaxStaged :
          \E rows \in [1 .. n -> RowsToAdd(t)] : AddEntries(t, rows)
    BY <1>2
  <2>2. n \in Nat
    BY SizeAssumption
  <2> QED
    BY <2>1, <2>2, AddKeepsStaged
<1>3. CASE \E f \in ForeignKeys :
             \E rows \in (SUBSET (RowsOf(Source[f]) \cup StagedIds(Source[f]))) \ {{}} :
               \E target \in KeysTo(Target[f]) : UpdateEntries(f, rows, target)
  <2>1. PICK f \in ForeignKeys :
          \E rows \in (SUBSET (RowsOf(Source[f]) \cup StagedIds(Source[f]))) \ {{}} :
            \E target \in KeysTo(Target[f]) : UpdateEntries(f, rows, target)
    BY <1>3
  <2>2. PICK rows \in SUBSET (RowsOf(Source[f]) \cup StagedIds(Source[f])) :
          \E target \in KeysTo(Target[f]) : UpdateEntries(f, rows, target)
    BY <2>1
  <2>4. rows \subseteq Nat
    BY RowsAreIndices, SchemaAssumption
  <2> QED
    BY <2>2, <2>4, UpdateKeepsStaged
<1>4. CASE \E t \in Tables :
             \E ids \in (SUBSET (RowsOf(t) \cup StagedIds(t))) \ {{}} : DelEntries(t, ids)
  <2>1. db' = db /\ tx' = [tx EXCEPT !.calls = @ + 1]
    BY <1>4 DEF DelEntries
  <2>2. tx'.additions = tx.additions /\ tx'.updates = tx.updates
    BY <1>0, <2>1 DEF StagedEdits
  <2> QED
    BY <2>1, <2>2, StagedStays
<1>5. CASE ExpandSubscriber \/ ReturnInner \/ UNCHANGED vars
  <2>1. db' = db /\ tx' = tx
    BY <1>5 DEF ExpandSubscriber, ReturnInner, vars
  <2> QED
    BY <2>1, StagedStays
<1>6. CASE ReturnOuter
  <2> DEFINE final == [call.expanded EXCEPT ![Top.table] = @ \cup Top.ids]
             deletions == [t \in Tables |-> tx.deletions[t] \cup final[t]]
             unlinks == [f \in ForeignKeys |->
                           tx.unlinks[f] \cup (Top.nulled[f] \ final[Source[f]])]
  <2>1. db' = db /\ tx' = [tx EXCEPT !.deletions = deletions, !.unlinks = unlinks]
    BY <1>6 DEF ReturnOuter
  <2> HIDE DEF deletions, unlinks
  <2>2. tx'.additions = tx.additions /\ tx'.updates = tx.updates
    BY <1>0, <2>1 DEF StagedEdits
  <2> QED
    BY <2>1, <2>2, StagedStays
<1> QED
  BY <1>1, <1>2, <1>3, <1>4, <1>5, <1>6 DEF Next

(***************************************************************************)
(* Lists, keys and counts.                                                 *)
(***************************************************************************)
\* Some order of the rows of each target explains all links of the committed
\* lists, and the counts are those of the keys.
ListsLinked ==
  \A f \in ForeignKeys : \E ord :
    Linked(RowsOf(Source[f]), RowsOf(Target[f]), db.col[f], ord)

CountsExact ==
  TrackCounts =>
    \A f \in ForeignKeys : \A t \in RowsOf(Target[f]) :
      db.col[f].cnt[t] = Cardinality(RowsTo(RowsOf(Source[f]), db.col[f].fk, t))

\* Lists are about keys, links and heads alone.
LEMMA LinkedColumns ==
  ASSUME NEW I, NEW T, NEW c, NEW d, NEW ord, Linked(I, T, c, ord),
         d.fk = c.fk, d.nxt = c.nxt, d.prv = c.prv, d.head = c.head
  PROVE  Linked(I, T, d, ord)
BY DEF Linked, Columns

\* Lists that are linked match the keys.
LEMMA LinkedListsMatch ==
  ASSUME TypeOK, ListsLinked
  PROVE  KeysResolve /\ ListsMatchKeys
<1> SUFFICES ASSUME NEW f \in ForeignKeys
             PROVE  LET c == db.col[f]
                        I == RowsOf(Source[f])
                        T == RowsOf(Target[f])
                    IN  /\ \A r \in I : c.fk[r] \in T \cup {Missing}
                        /\ \A t \in T :
                             /\ Chain(f, t) = ReferrersOf(f, t)
                             /\ Node(c.nxt, c.head[t], Cardinality(ReferrersOf(f, t))) = Missing
                             /\ c.head[t] # Missing => c.prv[c.head[t]] = Missing
                        /\ \A r \in I :
                             /\ c.nxt[r] # Missing => c.prv[c.nxt[r]] = r
                             /\ c.prv[r] # Missing => c.nxt[c.prv[r]] = r
  BY DEF KeysResolve, ListsMatchKeys
<1> DEFINE c == db.col[f]
           I == RowsOf(Source[f])
           T == RowsOf(Target[f])
           n == db.len[Source[f]]
<1>1. PICK ord : Linked(I, T, c, ord)
  BY DEF ListsLinked
<1>2. /\ IsFiniteSet(I) /\ n \in Nat /\ I = 0 .. n - 1
  BY RowsAreIndices, SchemaAssumption DEF RowsOf
<1>3. \A t : ReferrersOf(f, t) = RowsTo(I, c.fk, t) /\ Chain(f, t) = Reached(c.nxt, c.head[t], n)
  BY DEF ReferrersOf, RowsTo, Chain
<1> HIDE DEF c, I, T, n
<1>4. ASSUME NEW t PROVE Cardinality(RowsTo(I, c.fk, t)) <= n
  <2>1. RowsTo(I, c.fk, t) \subseteq I
    BY DEF RowsTo
  <2>2. Cardinality(I) = n
    BY <1>2, FS_Interval
  <2> QED
    BY <1>2, <2>1, <2>2, FS_Subset
<1>5. ASSUME NEW t \in T
      PROVE  /\ Chain(f, t) = ReferrersOf(f, t)
             /\ Node(c.nxt, c.head[t], Cardinality(ReferrersOf(f, t))) = Missing
  BY <1>1, <1>2, <1>3, <1>4, WalkFindsRows
<1>6. Columns(I, T, c)
  BY <1>1 DEF Linked
<1>7. ASSUME NEW t \in T, c.head[t] # Missing PROVE c.prv[c.head[t]] = Missing
  BY <1>1, <1>6, <1>7, HeadsHaveNoPrevious DEF Columns
<1>8. ASSUME NEW r \in I
      PROVE  /\ c.nxt[r] # Missing => c.prv[c.nxt[r]] = r
             /\ c.prv[r] # Missing => c.nxt[c.prv[r]] = r
  <2>1. c.nxt[r] \in I \cup {Missing} /\ c.prv[r] \in I \cup {Missing}
    BY <1>6 DEF Columns
  <2> QED
    BY <1>1, <2>1, LinksMatch
<1>9. \A r \in I : c.fk[r] \in T \cup {Missing}
  BY <1>6 DEF Columns
<1> QED
  BY <1>5, <1>7, <1>8, <1>9 DEF c, I, T

\* So do counts.
LEMMA ExactCountsMatch == CountsExact => CountsMatchLists
BY DEF CountsExact, CountsMatchLists, ReferrersOf, RowsTo

\* What is known of a transaction when its block ends.
LEMMA LeavingCommits ==
  ASSUME TypeOK, ClaimsKept, DeletionsClosed, StagedTargetsExist, UpdatesDiffer,
         Rules = AllRules, Commit
  PROVE  Committing
<1>1. StagedKeysLive
  BY SchemaAssumption DEF ClaimsKept, StagedKeysLive
<1>2. RulesKept /\ \A f \in ForeignKeys : ToNullify(f) = {}
  BY DEF Commit, Leaving
<1>3. RelinkedRowsStay /\ RelinkTargetsStay /\ RelinkTargetsKeepTheirIndex /\ RelinkOrAdd
  BY <1>2 DEF RulesKept, AllRules
<1> QED
  BY <1>1, <1>2, <1>3 DEF Committing

\* A commit links the lists and counts the keys anew.
LEMMA CommitKeepsLists ==
  ASSUME Committing, CountsFit, ListsLinked, CountsExact, Commit
  PROVE  ListsLinked' /\ CountsExact'
<1>1. /\ db'.len = [t \in Tables |-> OracleOf(t).newSize]
      /\ \A f \in ForeignKeys : db'.col[f] =
           FixMovedTargets(CommitColumn(f), MovedTo(Target[f]))
  BY DEF Commit, Stored
<1>2. \A t \in Tables : RowsOf(t)' = NewRows(t)
  BY <1>1 DEF RowsOf, NewRows
<1>3. ASSUME NEW f \in ForeignKeys
      PROVE  /\ RowsOf(Source[f])' = NewRows(Source[f])
             /\ RowsOf(Target[f])' = NewRows(Target[f])
             /\ \E new : Linked(NewRows(Source[f]), NewRows(Target[f]), db'.col[f], new)
             /\ db'.col[f].fk = ResolvedColumns(f).fk
             /\ db'.col[f].cnt = CommitColumn(f).cnt
  <2>1. PICK ord : Linked(RowsOf(Source[f]), RowsOf(Target[f]), db.col[f], ord)
    BY DEF ListsLinked
  <2>2. /\ \E new : Linked(NewRows(Source[f]), NewRows(Target[f]), ResolvedColumns(f), new)
        /\ db'.col[f] = [fk   |-> ResolvedColumns(f).fk,
                         nxt  |-> ResolvedColumns(f).nxt,
                         prv  |-> ResolvedColumns(f).prv,
                         head |-> ResolvedColumns(f).head,
                         cnt  |-> CommitColumn(f).cnt]
    BY <1>1, <2>1, CommitColumnsAre
  <2>3. PICK new : Linked(NewRows(Source[f]), NewRows(Target[f]), ResolvedColumns(f), new)
    BY <2>2
  <2>4. Linked(NewRows(Source[f]), NewRows(Target[f]), db'.col[f], new)
    <3>1. /\ db'.col[f].fk = ResolvedColumns(f).fk /\ db'.col[f].nxt = ResolvedColumns(f).nxt
          /\ db'.col[f].prv = ResolvedColumns(f).prv /\ db'.col[f].head = ResolvedColumns(f).head
      BY <2>2
    <3> QED
      BY <2>3, <3>1, LinkedColumns
  <2>5. Source[f] \in Tables /\ Target[f] \in Tables
    BY SchemaAssumption
  <2> QED
    BY <1>2, <2>2, <2>4, <2>5
<1>4. ListsLinked'
  <2> SUFFICES ASSUME NEW f \in ForeignKeys
               PROVE  \E ord : Linked(RowsOf(Source[f])', RowsOf(Target[f])', db'.col[f], ord)
    BY DEF ListsLinked
  <2> QED
    BY <1>3
<1>5. CountsExact'
  <2> SUFFICES ASSUME TrackCounts, NEW f \in ForeignKeys, NEW t \in RowsOf(Target[f])'
               PROVE  db'.col[f].cnt[t]
                        = Cardinality(RowsTo(RowsOf(Source[f])', db'.col[f].fk, t))
    BY DEF CountsExact
  <2>1. PICK ord : Linked(RowsOf(Source[f]), RowsOf(Target[f]), db.col[f], ord)
    BY DEF ListsLinked
  <2>2. \A p \in RowsOf(Target[f]) :
          db.col[f].cnt[p] = Cardinality(RowsTo(RowsOf(Source[f]), db.col[f].fk, p))
    BY DEF CountsExact
  <2>3. t \in NewRows(Target[f])
    BY <1>3
  <2>4. CommitColumn(f).cnt[t]
          = Cardinality(RowsTo(NewRows(Source[f]), ResolvedColumns(f).fk, t))
    BY <2>1, <2>2, <2>3, NewCounts
  <2> QED
    BY <1>3, <2>4
<1> QED
  BY <1>4, <1>5

\* What every step but a commit does to the lists: nothing, or it leaves them torn.
LEMMA StepKeepsLists ==
  ASSUME TypeOK, ClaimsKept, DeletionsClosed, StagedTargetsExist, UpdatesDiffer,
         Rules = AllRules, CountsFit, CallsInBlocks,
         ~db.torn => ListsLinked /\ CountsExact, [Next]_vars
  PROVE  ~db'.torn => ListsLinked' /\ CountsExact'
<1>1. CASE Commit
  <2>1. tx # NoTx
    BY <1>1 DEF Commit, Leaving, NoTx
  <2>2. ~db.torn
    BY <2>1 DEF CallsInBlocks
  <2>3. Committing
    BY <1>1, LeavingCommits
  <2> QED
    BY <1>1, <2>2, <2>3, CommitKeepsLists
<1>2. CASE CommitTorn
  <2>1. db'.torn = TRUE
    BY <1>2 DEF CommitTorn, Stored
  <2> QED
    BY <2>1
<1>3. CASE db' = db
  <2>1. ListsLinked' <=> ListsLinked
    BY <1>3 DEF ListsLinked, RowsOf
  <2>2. CountsExact' <=> CountsExact
    BY <1>3 DEF CountsExact, RowsOf
  <2> QED
    BY <1>3, <2>1, <2>2
<1>4. Commit \/ CommitTorn \/ db' = db
  BY DEF Next, vars, Begin, AddEntries, UpdateEntries, DelEntries, ExpandSubscriber,
         ReturnInner, ReturnOuter, CommitRefused, Rollback
<1> QED
  BY <1>1, <1>2, <1>3, <1>4

\* An empty database has empty lists.
LEMMA NoListsAtFirst == Init => ListsLinked /\ CountsExact
<1> SUFFICES ASSUME Init PROVE ListsLinked /\ CountsExact
  OBVIOUS
<1>1. /\ \A t \in Tables : db.len[t] = 0
      /\ \A f \in ForeignKeys :
           db.col[f] = [fk |-> NoRows, nxt |-> NoRows, prv |-> NoRows,
                        head |-> NoRows, cnt |-> NoRows]
  BY DEF Init
<1>2. \A t \in Tables : RowsOf(t) = {}
  BY <1>1 DEF RowsOf
<1>3. DOMAIN NoRows = {}
  BY DEF NoRows
<1>4. ASSUME NEW f \in ForeignKeys
      PROVE  \E ord : Linked(RowsOf(Source[f]), RowsOf(Target[f]), db.col[f], ord)
  <2>1. RowsOf(Source[f]) = {} /\ RowsOf(Target[f]) = {}
    BY <1>2, SchemaAssumption
  <2>2. Linked(RowsOf(Source[f]), RowsOf(Target[f]), db.col[f], NoRows)
    BY <1>1, <1>3, <2>1 DEF Linked, Columns, Ordered
  <2> QED
    BY <2>2
<1> QED
  BY <1>2, <1>4, SchemaAssumption DEF ListsLinked, CountsExact

-----------------------------------------------------------------------------
(***************************************************************************)
(* The theorems.                                                           *)
(***************************************************************************)
\* The inductive invariant: what is staged can be committed, and the committed
\* lists are linked and counted.
Kept ==
  /\ Followed
  /\ StagedTargetsExist
  /\ UpdatesDiffer
  /\ ~db.torn => ListsLinked /\ CountsExact

\* It holds all along.
LEMMA AllIsKept ==
  ASSUME SubscribersMatch, NullsOnTop, Rules = AllRules, CountsFit
  PROVE  Spec => []Kept
<1>1. Init => Kept
  <2> SUFFICES ASSUME Init PROVE Kept
    OBVIOUS
  <2>1. Followed
    BY NothingToFollow
  <2>2. StagedTargetsExist /\ UpdatesDiffer
    <3>1. /\ tx.additions = [t \in Tables |-> <<>>]
          /\ tx.updates = [f \in ForeignKeys |-> <<>>]
      BY DEF Init, NoTx
    <3>2. DOMAIN <<>> = {}
      OBVIOUS
    <3> QED
      BY <3>1, <3>2, SchemaAssumption DEF StagedTargetsExist, UpdatesDiffer
  <2> QED
    BY <2>1, <2>2, NoListsAtFirst DEF Kept
<1>2. TypeOK /\ ClaimsKept /\ Kept /\ [Next]_vars => Kept'
  <2> SUFFICES ASSUME TypeOK, ClaimsKept, Kept, [Next]_vars PROVE Kept'
    OBVIOUS
  <2>1. ~db.torn => ListsMatchKeys /\ CountsMatchLists
    BY LinkedListsMatch, ExactCountsMatch DEF Kept
  <2>2. Followed'
    BY <2>1, StepFollowed DEF Kept
  <2>3. StagedTargetsExist' /\ UpdatesDiffer'
    BY StepKeepsStaged DEF Kept
  <2>4. ~db'.torn => ListsLinked' /\ CountsExact'
    BY StepKeepsLists DEF Kept, Followed
  <2> QED
    BY <2>2, <2>3, <2>4 DEF Kept
<1> QED
  BY <1>1, <1>2, TypeCorrect, ClaimsAreKept, PTL DEF Spec

\* Every key is absent or denotes a row of its target, after any commit: whatever
\* additions, updates and deletions are staged, in whatever order, and however
\* rows move.
THEOREM KeysAlwaysResolve ==
  SubscribersMatch /\ NullsOnTop /\ Rules = AllRules /\ CountsFit =>
    (Spec => [](~db.torn => KeysResolve))
<1> SUFFICES ASSUME SubscribersMatch, NullsOnTop, Rules = AllRules, CountsFit
             PROVE  Spec => [](~db.torn => KeysResolve)
  OBVIOUS
<1>1. TypeOK /\ Kept => (~db.torn => KeysResolve)
  BY LinkedListsMatch DEF Kept
<1>2. Spec => []Kept
  BY AllIsKept
<1> QED
  BY <1>1, <1>2, TypeCorrect, PTL

\* The list of a row holds exactly the rows whose key denotes it, ends, and is
\* linked the same way in both directions: the four phases of patches of a
\* commit, each written against the lists before it, translated and laid over
\* the moved rows, are again the lists of the keys.
THEOREM ListsAlwaysMatchKeys ==
  SubscribersMatch /\ NullsOnTop /\ Rules = AllRules /\ CountsFit =>
    (Spec => [](~db.torn => ListsMatchKeys))
<1> SUFFICES ASSUME SubscribersMatch, NullsOnTop, Rules = AllRules, CountsFit
             PROVE  Spec => [](~db.torn => ListsMatchKeys)
  OBVIOUS
<1>1. TypeOK /\ Kept => (~db.torn => ListsMatchKeys)
  BY LinkedListsMatch DEF Kept
<1>2. Spec => []Kept
  BY AllIsKept
<1> QED
  BY <1>1, <1>2, TypeCorrect, PTL

\* Every count is the number of rows that reference its row, although the deltas
\* of a commit wrap around at the width of an index and its sums at that of a count.
THEOREM CountsAlwaysMatchLists ==
  SubscribersMatch /\ NullsOnTop /\ Rules = AllRules /\ CountsFit =>
    (Spec => [](~db.torn => CountsMatchLists))
<1> SUFFICES ASSUME SubscribersMatch, NullsOnTop, Rules = AllRules, CountsFit
             PROVE  Spec => [](~db.torn => CountsMatchLists)
  OBVIOUS
<1>1. Kept => (~db.torn => CountsMatchLists)
  BY ExactCountsMatch DEF Kept
<1>2. Spec => []Kept
  BY AllIsKept
<1> QED
  BY <1>1, <1>2, PTL

\* Delete calls forget no row whose key references a row marked for deletion: now
\* without assuming that the lists and counts they walk are right.
THEOREM DeletionsAlwaysClosed ==
  SubscribersMatch /\ NullsOnTop /\ Rules = AllRules /\ CountsFit =>
    (Spec => []DeletionsClosed)
<1> SUFFICES ASSUME SubscribersMatch, NullsOnTop, Rules = AllRules, CountsFit
             PROVE  Spec => []DeletionsClosed
  OBVIOUS
<1>1. Kept => DeletionsClosed
  BY DEF Kept, Followed
<1>2. Spec => []Kept
  BY AllIsKept
<1> QED
  BY <1>1, <1>2, PTL

(***************************************************************************)
(* Commits that do not stop halfway.                                       *)
(***************************************************************************)
\* No key is set to null when its target is deleted.
NoKeyNulls == \A f \in ForeignKeys : OnDelete[f] # "SET_NULL"

\* No level of a stack is to null anything.
NullsNothing(stack) == \A i \in 1 .. Len(stack) : stack[i].nulled = NothingNulled

\* No key is about to be set to null.
NothingToNull ==
  /\ \A f \in ForeignKeys : tx.unlinks[f] = {}
  /\ NullsNothing(call.stack)

\* One more level that nulls nothing.
LEMMA LevelNullsNothing ==
  ASSUME NEW stack \in Seq(Frames), NEW frame \in Frames,
         NullsNothing(stack), frame.nulled = NothingNulled
  PROVE  Append(stack, frame) \in Seq(Frames) /\ NullsNothing(Append(stack, frame))
<1>1. /\ Len(stack) \in Nat /\ Len(Append(stack, frame)) = Len(stack) + 1
      /\ \A i \in 1 .. Len(stack) : Append(stack, frame)[i] = stack[i]
      /\ Append(stack, frame)[Len(stack) + 1] = frame
      /\ Append(stack, frame) \in Seq(Frames)
  BY AppendProperties, LenProperties
<1>2. \A i \in 1 .. Len(stack) + 1 : i \in 1 .. Len(stack) \/ i = Len(stack) + 1
  BY <1>1
<1> QED
  BY <1>1, <1>2 DEF NullsNothing

\* A level is entered, or the call ends.
LEMMA EnterNullsNothing ==
  ASSUME NEW stack \in Seq(Frames), NEW frame \in Frames, NEW expanded,
         NullsNothing(stack), frame.nulled = NothingNulled,
         Enter(frame, stack, expanded)
  PROVE  NullsNothing(call'.stack)
<1>1. CASE call' = NoCall
  <2>1. call'.stack = <<>> /\ Len(<<>>) = 0
    BY <1>1, EmptySeq DEF NoCall
  <2> QED
    BY <2>1 DEF NullsNothing
<1>2. CASE call' = [stack |-> Append(stack, frame), expanded |-> expanded]
  BY <1>2, LevelNullsNothing
<1> QED
  BY <1>1, <1>2 DEF Enter

\* A turn of the loop meets no key that nulls.
LEMMA ExpandNullsNothing ==
  ASSUME NoKeyNulls, TypeOK, NothingToNull, ExpandSubscriber
  PROVE  NothingToNull'
<1> DEFINE f == Subscribers[Top.table][Top.sub]
           hit == NewlyHit(Top, f)
           next == [Top EXCEPT !.sub = @ + 1]
<1>1. tx' = tx /\ call.stack # <<>>
  BY DEF ExpandSubscriber
<1>2. /\ Top.table \in Tables /\ Below \in Seq(Frames) /\ Top \in Frames
      /\ Len(Below) = Len(call.stack) - 1 /\ Len(call.stack) \in Nat \ {0}
  BY <1>1, TopTyped DEF FrameTyped, StackTyped
<1>3. f \in ForeignKeys /\ Source[f] \in Tables
  <2>1. Subscribers[Top.table] \in Seq(ForeignKeys)
    BY <1>2, SchemaAssumption
  <2>2. Len(Subscribers[Top.table]) \in Nat /\ Top.sub \in Nat \ {0}
    BY <1>2, <2>1, LenProperties DEF Frames
  <2>3. Top.sub <= Len(Subscribers[Top.table])
    BY DEF ExpandSubscriber
  <2>4. Top.sub \in 1 .. Len(Subscribers[Top.table])
    BY <2>2, <2>3
  <2> QED
    BY <2>1, <2>4, ElementOfSeq, SchemaAssumption
<1>4. hit \subseteq RowsOf(Source[f]) /\ RowsOf(Source[f]) \subseteq Nat
  BY <1>3, NewlyHitRows, RowsAreIndices DEF TypeOK, DatabaseTyped
<1>5. Top.nulled = NothingNulled /\ NullsNothing(Below)
  BY <1>1, <1>2, BelowIs DEF NothingToNull, NullsNothing, Top
<1> HIDE DEF f, hit
<1>6. next \in Frames /\ next.nulled = NothingNulled
  <2>1. next = [table |-> Top.table, ids |-> Top.ids, sub |-> Top.sub + 1,
                nulled |-> Top.nulled]
    BY <1>2 DEF Frames
  <2> QED
    BY <1>2, <1>5, <2>1, SMTT(30) DEF Frames
<1>7. Append(Below, next) \in Seq(Frames) /\ NullsNothing(Append(Below, next))
  BY <1>2, <1>5, <1>6, LevelNullsNothing
<1>8. CASE call' = [call EXCEPT !.stack = Append(Below, next)]
  <2>1. call'.stack = Append(Below, next)
    BY <1>8 DEF TypeOK, CallTyped
  <2> QED
    BY <1>1, <1>7, <2>1 DEF NothingToNull
<1>9. CASE call' = NoCall
  <2>1. call'.stack = <<>> /\ Len(<<>>) = 0
    BY <1>9, EmptySeq DEF NoCall
  <2> QED
    BY <1>1, <2>1 DEF NothingToNull, NullsNothing
<1>10. CASE Enter(Frame(Source[f], hit, Top.nulled), Append(Below, next), call.expanded)
  <2>1. /\ Frame(Source[f], hit, Top.nulled) \in Frames
        /\ Frame(Source[f], hit, Top.nulled).nulled = NothingNulled
    BY <1>2, <1>3, <1>4, <1>5 DEF Frame, Frames
  <2> HIDE DEF next
  <2>2. NullsNothing(call'.stack)
    BY <1>7, <1>10, <2>1, EnterNullsNothing
  <2> QED
    BY <1>1, <2>2 DEF NothingToNull
<1>11. OnDelete[f] # "SET_NULL"
  BY <1>3 DEF NoKeyNulls
<1> QED
  BY <1>8, <1>9, <1>10, <1>11 DEF ExpandSubscriber, f, hit

\* An inner level hands nothing up.
LEMMA ReturnInnerNullsNothing ==
  ASSUME TypeOK, NothingToNull, ReturnInner
  PROVE  NothingToNull'
<1>1. /\ tx' = tx /\ Len(call.stack) > 1
      /\ call'.stack = [Below EXCEPT ![Len(Below)].nulled =
           IF Below[Len(Below)].nulled # NothingNulled THEN Top.nulled ELSE @]
  BY DEF ReturnInner
<1>2. call.stack # <<>>
  BY <1>1, EmptySeq
<1>3. /\ Below \in Seq(Frames) /\ Len(call.stack) \in Nat
      /\ Len(Below) = Len(call.stack) - 1
  BY <1>2, TopTyped DEF StackTyped
<1>4. NullsNothing(Below) /\ Top.nulled = NothingNulled
  BY <1>1, <1>2, <1>3, BelowIs DEF NothingToNull, NullsNothing, Top
<1>5. Len(Below) \in 1 .. Len(Below) /\ DOMAIN Below = 1 .. Len(Below)
  BY <1>1, <1>3, LenProperties
<1>6. Below[Len(Below)].nulled = NothingNulled /\ Below[Len(Below)] \in Frames
  BY <1>3, <1>4, <1>5, ElementOfSeq DEF NullsNothing
<1>7. call'.stack = Below
  <2> DEFINE top == Below[Len(Below)]
  <2>1. [top EXCEPT !.nulled = top.nulled] = top
    BY <1>6 DEF Frames
  <2>2. call'.stack = [Below EXCEPT ![Len(Below)] = [top EXCEPT !.nulled = top.nulled]]
    BY <1>1, <1>6
  <2>3. Below = [i \in 1 .. Len(Below) |-> Below[i]]
    BY <1>3, <1>5
  <2> HIDE DEF top
  <2>4. call'.stack = [Below EXCEPT ![Len(Below)] = top]
    BY <2>1, <2>2
  <2> QED
    BY <1>5, <2>3, <2>4 DEF top
<1> QED
  BY <1>1, <1>4, <1>7 DEF NothingToNull

\* The outermost level stages nothing to null.
LEMMA ReturnOuterNullsNothing ==
  ASSUME TypeOK, NothingToNull, ReturnOuter
  PROVE  NothingToNull'
<1> DEFINE final == [call.expanded EXCEPT ![Top.table] = @ \cup Top.ids]
           deletions == [t \in Tables |-> tx.deletions[t] \cup final[t]]
           unlinks == [f \in ForeignKeys |->
                         tx.unlinks[f] \cup (Top.nulled[f] \ final[Source[f]])]
<1>0. tx \in StagedEdits
  BY DEF TypeOK, EditsTyped
<1>1. /\ tx' = [tx EXCEPT !.deletions = deletions, !.unlinks = unlinks]
      /\ call' = NoCall /\ Len(call.stack) = 1
  BY DEF ReturnOuter
<1>2. Top.nulled = NothingNulled
  BY <1>1 DEF Top, NothingToNull, NullsNothing
<1>3. \A f \in ForeignKeys : unlinks[f] = {}
  BY <1>2 DEF NothingNulled, NothingToNull
<1> HIDE DEF deletions, unlinks
<1>4. tx'.unlinks = unlinks
  BY <1>0, <1>1 DEF StagedEdits
<1>5. call'.stack = <<>> /\ Len(<<>>) = 0
  BY <1>1, EmptySeq DEF NoCall
<1> QED
  BY <1>3, <1>4, <1>5 DEF NothingToNull, NullsNothing

\* Every step.
LEMMA StepNullsNothing ==
  ASSUME NoKeyNulls, TypeOK, NothingToNull, ~db.torn, [Next]_vars
  PROVE  NothingToNull' /\ ~db'.torn
<1>0. tx \in StagedEdits
  BY DEF TypeOK, EditsTyped
<1>1. ~CommitTorn
  BY DEF CommitTorn, ToNullify, NothingToNull
<1>2. CASE Begin \/ Commit \/ CommitRefused \/ Rollback
  <2>1. tx' = NoTx \/ tx' = [NoTx EXCEPT !.open = TRUE]
    BY <1>2 DEF Begin, Commit, CommitRefused, Rollback, Close
  <2>2. \A f \in ForeignKeys : tx'.unlinks[f] = {}
    <3>1. NoTx.unlinks = [f \in ForeignKeys |-> {}]
      BY DEF NoTx
    <3>2. [NoTx EXCEPT !.open = TRUE].unlinks = [f \in ForeignKeys |-> {}]
      BY DEF NoTx
    <3> QED
      BY <2>1, <3>1, <3>2
  <2>3. call' = call
    BY <1>2 DEF Begin, Commit, CommitRefused, Rollback, Close
  <2>4. db'.torn = FALSE \/ db' = db
    <3>1. Commit => db'.torn = FALSE
      BY DEF Commit, Stored
    <3>2. Begin \/ CommitRefused \/ Rollback => db' = db
      BY DEF Begin, CommitRefused, Rollback
    <3> QED
      BY <1>2, <3>1, <3>2
  <2> QED
    BY <2>2, <2>3, <2>4 DEF NothingToNull
<1>3. CASE \E t \in Tables : \E n \in 1 .. MaxStaged :
             \E rows \in [1 .. n -> RowsToAdd(t)] : AddEntries(t, rows)
  <2>1. PICK t, rows : AddEntries(t, rows)
    BY <1>3
  <2> DEFINE targets(f) == {rows[i][f] : i \in DOMAIN rows}
             claims == [u \in Tables |-> tx.claims[u] \cup
                          UNION {targets(f) : f \in {g \in KeysOf(t) : Target[g] = u}}]
  <2>2. \/ tx' = [tx EXCEPT !.calls = @ + 1, !.staged = @ \cup {t}]
        \/ tx' = [tx EXCEPT !.calls = @ + 1, !.staged = @ \cup {t},
                            !.additions[t] = @ \o rows, !.claims = claims]
    BY <2>1 DEF AddEntries
  <2> HIDE DEF claims
  <2>3. tx'.unlinks = tx.unlinks
    BY <1>0, <2>2 DEF StagedEdits
  <2>4. db' = db /\ call' = call
    BY <2>1 DEF AddEntries
  <2> QED
    BY <2>3, <2>4 DEF NothingToNull
<1>4. CASE \E f \in ForeignKeys :
             \E rows \in (SUBSET (RowsOf(Source[f]) \cup StagedIds(Source[f]))) \ {{}} :
               \E target \in KeysTo(Target[f]) : UpdateEntries(f, rows, target)
  <2>1. PICK f, rows, target : UpdateEntries(f, rows, target)
    BY <1>4
  <2> DEFINE changed == {r \in rows : db.col[f].fk[r] # target}
             entry == [k \in 1 .. Cardinality(changed) |->
                         [row |-> Nth(k - 1, changed), target |-> target]]
  <2>2. \/ tx' = [tx EXCEPT !.calls = @ + 1]
        \/ tx' = [tx EXCEPT !.calls = @ + 1, !.updates[f] = @ \o entry]
    BY <2>1 DEF UpdateEntries, Refuse
  <2> HIDE DEF entry
  <2>3. tx'.unlinks = tx.unlinks
    BY <1>0, <2>2 DEF StagedEdits
  <2>4. db' = db /\ call' = call
    BY <2>1 DEF UpdateEntries
  <2> QED
    BY <2>3, <2>4 DEF NothingToNull
<1>5. CASE \E t \in Tables :
             \E ids \in (SUBSET (RowsOf(t) \cup StagedIds(t))) \ {{}} : DelEntries(t, ids)
  <2>0. PICK t \in Tables :
          \E ids \in (SUBSET (RowsOf(t) \cup StagedIds(t))) \ {{}} : DelEntries(t, ids)
    BY <1>5
  <2>1. PICK ids \in SUBSET (RowsOf(t) \cup StagedIds(t)) : DelEntries(t, ids)
    BY <2>0
  <2>2. db' = db /\ tx' = [tx EXCEPT !.calls = @ + 1]
    BY <2>1 DEF DelEntries
  <2>3. tx'.unlinks = tx.unlinks
    BY <1>0, <2>2 DEF StagedEdits
  <2>4. NullsNothing(<<>>) /\ <<>> \in Seq(Frames)
    BY EmptySeq DEF NullsNothing
  <2>5. Frame(t, ids, NothingNulled) \in Frames
    BY <2>1, RowsAreIndices DEF Frame, Frames, NothingNulled, Unlinks
  <2>6. Frame(t, ids, NothingNulled).nulled = NothingNulled
    BY DEF Frame
  <2>7. CASE Enter(Frame(t, ids, NothingNulled), <<>>, NoCall.expanded)
    <3>1. NullsNothing(call'.stack)
      BY <2>4, <2>5, <2>6, <2>7, EnterNullsNothing
    <3> QED
      BY <2>2, <2>3, <3>1 DEF NothingToNull
  <2>8. CASE call' = NoCall
    <3>1. call'.stack = <<>>
      BY <2>8 DEF NoCall
    <3> QED
      BY <2>2, <2>3, <2>4, <3>1 DEF NothingToNull
  <2> QED
    BY <2>1, <2>7, <2>8 DEF DelEntries
<1>6. CASE ExpandSubscriber
  BY <1>6, ExpandNullsNothing DEF ExpandSubscriber
<1>7. CASE ReturnInner
  BY <1>7, ReturnInnerNullsNothing DEF ReturnInner
<1>8. CASE ReturnOuter
  BY <1>8, ReturnOuterNullsNothing DEF ReturnOuter
<1>9. CASE UNCHANGED vars
  BY <1>9 DEF vars, NothingToNull
<1> QED
  BY <1>1, <1>2, <1>3, <1>4, <1>5, <1>6, <1>7, <1>8, <1>9 DEF Next

\* In a schema without nulling keys every commit is done or not: none stops
\* halfway.
THEOREM CommitsAlwaysAtomic == NoKeyNulls => (Spec => []CommitsAreAtomic)
<1> SUFFICES ASSUME NoKeyNulls PROVE Spec => []CommitsAreAtomic
  OBVIOUS
<1>1. Init => NothingToNull /\ ~db.torn
  <2> SUFFICES ASSUME Init PROVE NothingToNull /\ ~db.torn
    OBVIOUS
  <2>1. /\ tx.unlinks = [f \in ForeignKeys |-> {}] /\ call.stack = <<>> /\ Len(<<>>) = 0
        /\ ~db.torn
    BY EmptySeq DEF Init, NoTx, NoCall
  <2> QED
    BY <2>1 DEF NothingToNull, NullsNothing
<1>2. TypeOK /\ (NothingToNull /\ ~db.torn) /\ [Next]_vars => (NothingToNull /\ ~db.torn)'
  BY StepNullsNothing
<1>3. (NothingToNull /\ ~db.torn) => CommitsAreAtomic
  BY DEF CommitsAreAtomic
<1> QED
  BY <1>1, <1>2, <1>3, TypeCorrect, PTL DEF Spec

(***************************************************************************)
(* TransactionContext implements RelationalStore, for every schema without *)
(* nulling keys.                                                           *)
(*                                                                         *)
(* Every action maps to an action of the store or to none: a step of a     *)
(* delete call to none but the last, which maps to Delete.  What is marked *)
(* then is closed under cascades because the call forgets no row           *)
(* (Followed), and contains nothing else because every row it hits is tied *)
(* by a key to a row that was hit before (CallCascades).  A commit maps to *)
(* Commit by what is proved above of the columns it leaves.                *)
(***************************************************************************)

(***************************************************************************)
(* What the store sees.                                                    *)
(***************************************************************************)
\* What the steps of a transaction that stage nothing leave as it is.
LEMMA StoreUntouched ==
  ASSUME db' = db, trackers' = trackers, tx'.open = tx.open,
         tx'.additions = tx.additions, tx'.deletions = tx.deletions,
         tx'.updates = tx.updates
  PROVE  UNCHANGED Relational!storeVars
BY DEF Relational!storeVars, RowsOf, Relinked

\* The keys set so far, by row.
RelinkedTo(f) ==
  [r \in Relinked(f) |->
     LET k == CHOOSE k \in DOMAIN tx.updates[f] : tx.updates[f][k].row = r
     IN  tx.updates[f][k].target]

\* Nothing staged is nothing staged.
LEMMA NothingStagedInStore ==
  ASSUME tx = NoTx
  PROVE  /\ tx.open = FALSE
         /\ tx.additions = [t \in Tables |-> <<>>]
         /\ tx.deletions = [t \in Tables |-> {}]
         /\ [f \in ForeignKeys |-> RelinkedTo(f)] = [f \in ForeignKeys |-> Relational!NoIds]
<1>1. \A f \in ForeignKeys : Relinked(f) = {}
  BY DEF NoTx, Relinked
<1>2. \A f \in ForeignKeys : RelinkedTo(f) = Relational!NoIds
  BY <1>1 DEF RelinkedTo, Relational!NoIds
<1> QED
  BY <1>2 DEF NoTx

\* The first state is one of the store.
LEMMA InitRefined ==
  ASSUME Init
  PROVE  Relational!Init
<1>1. tx = NoTx
  BY DEF Init
<1>2. /\ \A t \in Tables : RowsOf(t) = {}
      /\ \A f \in ForeignKeys : db.col[f].fk = NoRows
      /\ trackers = Unfilled
  BY DEF Init, RowsOf
<1>3. Relational!NoIds = NoRows
  BY DEF Relational!NoIds, NoRows
<1> QED
  BY <1>1, <1>2, <1>3, NothingStagedInStore
     DEF Relational!Init, Relational!NothingStaged, Unfilled, RelinkedTo

\* The numbers of elements are the same.
LEMMA CardinalityInStore == \A S : Relational!Cardinality(S) = Cardinality(S)
BY Zenon DEF Relational!Cardinality, Cardinality

\* The abstract operators, in terms of the transaction context.
LEMMA IdsInStore ==
  ASSUME TypeOK, NEW t \in Tables
  PROVE  /\ Relational!AddedIds(t) = StagedIds(t)
         /\ Relational!Ids(t) = RowsOf(t) \cup StagedIds(t)
         /\ Relational!LiveIds(t) = LiveIds(t)
         /\ \A i : Relational!AddedRow(t, i) = tx.additions[t][i - db.len[t] + 1]
<1>1. db.len[t] \in Nat
  BY RowsAreIndices
<1>2. Cardinality(RowsOf(t)) = db.len[t]
  <2>1. 0 \in Int /\ db.len[t] - 1 \in Int
    BY <1>1
  <2>2. Cardinality(0 .. db.len[t] - 1)
          = IF 0 > db.len[t] - 1 THEN 0 ELSE (db.len[t] - 1) - 0 + 1
    BY <2>1, FS_Interval
  <2> QED
    BY <1>1, <2>2 DEF RowsOf
<1> DEFINE rows == [u \in Tables |-> RowsOf(u)]
<1>9. Relational!Cardinality(rows[t]) = db.len[t]
  BY <1>2, CardinalityInStore
<1>3. Relational!AddedIds(t) = StagedIds(t)
  BY <1>9, Zenon DEF Relational!AddedIds, StagedIds
<1>4. Relational!Ids(t) = RowsOf(t) \cup StagedIds(t)
  BY <1>3 DEF Relational!Ids
<1> HIDE DEF rows
<1>5. LiveIds(t) = (RowsOf(t) \ tx.deletions[t]) \cup StagedIds(t)
      /\ tx.deletions[t] \subseteq RowsOf(t)
  BY TableRenumbered
<1>6. StagedIds(t) \cap RowsOf(t) = {}
  BY <1>1 DEF RowsOf, StagedIds
<1>7. Relational!LiveIds(t) = LiveIds(t)
  BY <1>4, <1>5, <1>6 DEF Relational!LiveIds
<1>8. \A i : Relational!AddedRow(t, i) = tx.additions[t][i - db.len[t] + 1]
  BY <1>9, Zenon DEF Relational!AddedRow, rows
<1> QED
  BY <1>3, <1>4, <1>7, <1>8

\* Who references a row by a key that stays, in terms of the transaction context.
LEMMA ReferrersInStore ==
  ASSUME NEW f \in ForeignKeys, NEW D
  PROVE  Relational!Referrers(f, D)
           = {r \in RowsOf(Source[f]) : db.col[f].fk[r] \in D[Target[f]]} \ Relinked(f)
BY SchemaAssumption DEF Relational!Referrers

\* No block is open while nothing can be staged.
ClosedIsEmpty == (~tx.open => tx = NoTx) /\ tx.open \in BOOLEAN

(***************************************************************************)
(* Blocks, additions and updates.                                          *)
(***************************************************************************)
\* A block begins.
LEMMA BeginRefined ==
  ASSUME ClosedIsEmpty, Begin
  PROVE  Relational!Begin
<1>1. /\ tx = NoTx /\ tx' = [NoTx EXCEPT !.open = TRUE] /\ trackers' = Unfilled /\ db' = db
      /\ ~tx.open
  BY DEF Begin, ClosedIsEmpty
<1>2. /\ tx'.open = TRUE /\ tx'.additions = tx.additions /\ tx'.deletions = tx.deletions
      /\ tx'.updates = tx.updates
  BY <1>1 DEF NoTx
<1>3. Relational!NoIds = NoRows
  BY DEF Relational!NoIds, NoRows
<1> QED
  BY <1>1, <1>2, <1>3 DEF Relational!Begin, Unfilled, RowsOf, Relinked

\* A block ends without a commit.
LEMMA DropRefined ==
  ASSUME tx.open, db' = db, trackers' = trackers, tx' = NoTx
  PROVE  Relational!Rollback
<1>1. \A f \in ForeignKeys : Relinked(f)' = {}
  BY DEF NoTx, Relinked
<1>2. Relational!NothingStaged(tx'.open, tx'.additions, tx'.deletions,
                               [f \in ForeignKeys |-> RelinkedTo(f)'])
  BY <1>1 DEF NoTx, Relational!NothingStaged, RelinkedTo, Relational!NoIds
<1> QED
  BY <1>2 DEF Relational!Rollback, RelinkedTo, RowsOf

\* A sequence starts with the one that has been appended to.
LEMMA ConcatStart ==
  ASSUME NEW R, NEW s \in Seq(R), NEW u \in Seq(R)
  PROVE  SubSeq(s \o u, 1, Len(s)) = s
<1> DEFINE w == SubSeq(s \o u, 1, Len(s))
<1>1. /\ Len(s) \in Nat /\ Len(u) \in Nat
      /\ \A i \in 1 .. Len(s) + Len(u) :
           (s \o u)[i] = IF i <= Len(s) THEN s[i] ELSE u[i - Len(s)]
  BY EntriesFollow
<1>2. \A i \in 1 .. Len(s) : (s \o u)[i] = s[i] /\ s[i] \in R
  <2>1. \A i \in 1 .. Len(s) : s[i] \in R
    BY LenProperties
  <2>2. \A i \in 1 .. Len(s) : i \in 1 .. Len(s) + Len(u) /\ i <= Len(s)
    BY <1>1
  <2> QED
    BY <1>1, <2>1, <2>2
<1>3. /\ w \in Seq(R) /\ Len(w) = IF 1 <= Len(s) THEN Len(s) - 1 + 1 ELSE 0
      /\ \A i \in 1 .. Len(s) - 1 + 1 : w[i] = (s \o u)[1 + i - 1]
  BY <1>1, <1>2, SubSeqProperties
<1> HIDE DEF w
<1>4. Len(w) = Len(s) /\ \A i \in 1 .. Len(w) : w[i] = s[i]
  <2>1. Len(w) = Len(s) /\ Len(s) - 1 + 1 = Len(s)
    BY <1>1, <1>3
  <2>2. \A i \in 1 .. Len(s) : 1 + i - 1 = i
    BY <1>1
  <2> QED
    BY <1>2, <1>3, <2>1, <2>2
<1>5. w = s
  BY <1>3, <1>4, SeqEqual
<1> QED
  BY <1>5 DEF w

\* register_additions stages rows whose keys are not marked for deletion, or
\* refuses them.
LEMMA AddRefined ==
  ASSUME TypeOK, NEW t \in Tables, NEW n \in 1 .. MaxStaged,
         NEW newRows \in [1 .. n -> RowsToAdd(t)], AddEntries(t, newRows)
  PROVE  Relational!Add(t) \/ UNCHANGED Relational!storeVars
<1> DEFINE targets(f) == {newRows[i][f] : i \in DOMAIN newRows}
           void == \E f \in KeysOf(t) : targets(f) \cap tx.deletions[Target[f]] # {}
           claims == [u \in Tables |-> tx.claims[u] \cup
                        UNION {targets(f) : f \in {g \in KeysOf(t) : Target[g] = u}}]
<1>0. tx \in StagedEdits
  BY DEF TypeOK, EditsTyped
<1>1. db' = db /\ trackers' = trackers /\ tx.open
  BY DEF AddEntries, Ready
<1>2. CASE void
  <2>1. tx' = [tx EXCEPT !.calls = @ + 1, !.staged = @ \cup {t}]
    BY <1>2 DEF AddEntries
  <2>2. /\ tx'.additions = tx.additions /\ tx'.updates = tx.updates
        /\ tx'.deletions = tx.deletions /\ tx'.open = tx.open
    BY <1>0, <2>1 DEF StagedEdits
  <2> QED
    BY <1>1, <2>2, StoreUntouched
<1>3. CASE ~void
  <2>1. tx' = [tx EXCEPT !.calls = @ + 1, !.staged = @ \cup {t},
                         !.additions[t] = @ \o newRows, !.claims = claims]
    BY <1>3 DEF AddEntries
  <2> HIDE DEF claims
  <2>2. /\ tx'.updates = tx.updates /\ tx'.additions = [tx.additions EXCEPT ![t] = @ \o newRows]
        /\ tx'.deletions = tx.deletions /\ tx'.open = tx.open
    BY <1>0, <2>1 DEF StagedEdits
  <2>3. \A i \in 1 .. n : \A f \in KeysOf(t) :
          newRows[i][f] \in KeysTo(Target[f]) \ tx.deletions[Target[f]]
    <3>1. ASSUME NEW i \in 1 .. n, NEW f \in KeysOf(t)
          PROVE  newRows[i][f] \in KeysTo(Target[f]) \ tx.deletions[Target[f]]
      <4>1. newRows[i] \in RowsToAdd(t)
        OBVIOUS
      <4>2. newRows[i][f] \in KeysTo(Target[f])
        BY <4>1 DEF RowsToAdd
      <4>3. newRows[i][f] \in targets(f)
        OBVIOUS
      <4>4. targets(f) \cap tx.deletions[Target[f]] = {}
        BY <1>3
      <4> QED
        BY <4>2, <4>3, <4>4
    <3> QED
      BY <3>1
  <2> HIDE DEF targets, void
  <2> DEFINE R == RowsToAdd(t) \cup UNION {StagedRow(u) : u \in Tables}
             S == Seq(R)
             old == tx.additions[t]
  <2>4. tx.additions \in [Tables -> Seq(UNION {StagedRow(u) : u \in Tables})]
    BY <1>0 DEF StagedEdits, StagedAdditions
  <2>5. old \in S
    <3>1. old \in Seq(UNION {StagedRow(u) : u \in Tables})
      BY <2>4
    <3> HIDE DEF old
    <3> QED
      BY <3>1
  <2>6. newRows \in S /\ Len(newRows) = n /\ n \in Nat /\ n > 0
    <3>1. n \in Nat /\ n > 0
      BY SizeAssumption
    <3> QED
      BY <3>1 DEF S
  <2> HIDE DEF old
  <2>10. SubSeq(old \o newRows, 1, Len(old)) = old
    BY <2>5, <2>6, ConcatStart DEF S
  <2> HIDE DEF R
  <2>7. /\ Len(old) \in Nat /\ Len(newRows) \in Nat
        /\ Len(old \o newRows) = Len(old) + Len(newRows)
        /\ \A i \in 1 .. Len(old) + Len(newRows) :
             (old \o newRows)[i] = IF i <= Len(old) THEN old[i] ELSE newRows[i - Len(old)]
    BY <2>5, <2>6, EntriesFollow
  <2> HIDE DEF S
  <2>8. tx'.additions[t] = old \o newRows /\ tx.additions[t] = old
    BY <2>2, <2>4 DEF old
  <2>9. tx'.additions = [tx.additions EXCEPT ![t] = tx'.additions[t]]
    BY <2>2, <2>4
  <2>11. \A k \in Len(old) + 1 .. Len(old \o newRows) :
           \A f \in {g \in ForeignKeys : Source[g] = t} :
             (old \o newRows)[k][f] \in (Relational!Ids(Target[f]) \ tx.deletions[Target[f]])
                                          \cup {Missing}
    <3> SUFFICES ASSUME NEW k \in Len(old) + 1 .. Len(old \o newRows),
                        NEW f \in {g \in ForeignKeys : Source[g] = t}
                 PROVE  (old \o newRows)[k][f]
                          \in (Relational!Ids(Target[f]) \ tx.deletions[Target[f]]) \cup {Missing}
      OBVIOUS
    <3>1. k - Len(old) \in 1 .. n /\ k \in 1 .. Len(old) + Len(newRows) /\ ~(k <= Len(old))
      BY <2>6, <2>7
    <3>2. (old \o newRows)[k] = newRows[k - Len(old)]
      BY <2>7, <3>1
    <3>3. f \in KeysOf(t) /\ Target[f] \in Tables
      BY SchemaAssumption DEF KeysOf
    <3>4. newRows[k - Len(old)][f] \in KeysTo(Target[f]) \ tx.deletions[Target[f]]
      BY <2>3, <3>1, <3>3
    <3>5. KeysTo(Target[f]) = Relational!Ids(Target[f]) \cup {Missing}
      BY <3>3, IdsInStore DEF KeysTo
    <3> QED
      BY <3>2, <3>4, <3>5
  <2>12. Len(tx'.additions[t]) > Len(tx.additions[t])
    BY <2>6, <2>7, <2>8
  <2>13. \A f \in ForeignKeys : Relinked(f)' = Relinked(f)
    BY <2>2 DEF Relinked
  <2> QED
    BY <1>1, <2>2, <2>8, <2>9, <2>10, <2>11, <2>12, <2>13 DEF Relational!Add, RowsOf
<1> QED
  BY <1>2, <1>3

(***************************************************************************)
(* Keys that are set.                                                      *)
(***************************************************************************)
\* The keys that a sequence of updates sets, by row.
KeysSetBy(upd) ==
  [r \in {upd[i].row : i \in DOMAIN upd} |->
     LET k == CHOOSE k \in DOMAIN upd : upd[k].row = r
     IN  upd[k].target]

\* Each is that of the update of its row.
LEMMA KeySetBy ==
  ASSUME NEW upd, \A i, j \in DOMAIN upd : upd[i].row = upd[j].row => i = j
  PROVE  \A k \in DOMAIN upd : /\ upd[k].row \in DOMAIN KeysSetBy(upd)
                               /\ KeysSetBy(upd)[upd[k].row] = upd[k].target
<1> SUFFICES ASSUME NEW k \in DOMAIN upd
             PROVE  /\ upd[k].row \in DOMAIN KeysSetBy(upd)
                    /\ KeysSetBy(upd)[upd[k].row] = upd[k].target
  OBVIOUS
<1> DEFINE c == CHOOSE i \in DOMAIN upd : upd[i].row = upd[k].row
<1>1. c \in DOMAIN upd /\ upd[c].row = upd[k].row
  OBVIOUS
<1>2. c = k
  BY <1>1
<1>3. KeysSetBy(upd)[upd[k].row] = upd[c].target
  BY DEF KeysSetBy
<1>4. upd[k].row \in DOMAIN KeysSetBy(upd)
  BY DEF KeysSetBy
<1> QED
  BY <1>2, <1>3, <1>4

\* The keys keys and those of the rows in changed, set to target.
AlsoSet(keys, changed, target) ==
  [i \in DOMAIN keys \cup changed |-> IF i \in DOMAIN keys THEN keys[i] ELSE target]

\* More updates, of rows that have none, to the same target.
LEMMA MoreKeysSet ==
  ASSUME NEW R, NEW old \in Seq(R), NEW entry \in Seq(R), NEW target, NEW changed,
         \A i, j \in DOMAIN (old \o entry) :
           (old \o entry)[i].row = (old \o entry)[j].row => i = j,
         \A k \in 1 .. Len(entry) : entry[k].row \in changed /\ entry[k].target = target,
         \A x \in changed : \E k \in 1 .. Len(entry) : entry[k].row = x,
         changed \cap DOMAIN KeysSetBy(old) = {}
  PROVE  KeysSetBy(old \o entry) = AlsoSet(KeysSetBy(old), changed, target)
<1> DEFINE all == old \o entry
           n == Len(old)
           m == Len(entry)
           D == DOMAIN KeysSetBy(old)
<1>1. /\ n \in Nat /\ m \in Nat /\ DOMAIN old = 1 .. n /\ DOMAIN all = 1 .. n + m
      /\ \A i \in 1 .. n + m : all[i] = IF i <= n THEN old[i] ELSE entry[i - n]
  BY EntriesFollow
<1>2. D = {old[i].row : i \in 1 .. n}
  BY <1>1 DEF KeysSetBy
<1> HIDE DEF all, n, m, D
<1>3. ASSUME NEW i \in 1 .. n
      PROVE  i \in DOMAIN all /\ all[i] = old[i]
  BY <1>1
<1>4. ASSUME NEW i \in 1 .. m
      PROVE  n + i \in DOMAIN all /\ all[n + i] = entry[i]
  <2>1. n + i \in 1 .. n + m /\ ~(n + i <= n) /\ (n + i) - n = i
    BY <1>1
  <2> QED
    BY <1>1, <2>1
<1>5. ASSUME NEW i \in DOMAIN all
      PROVE  \/ i \in 1 .. n /\ all[i] = old[i]
             \/ \E k \in 1 .. m : i = n + k /\ all[i] = entry[k]
  <2>1. CASE i <= n
    BY <1>1, <2>1
  <2>2. CASE ~(i <= n)
    <3>1. i - n \in 1 .. m /\ i = n + (i - n) /\ all[i] = entry[i - n]
      BY <1>1, <2>2
    <3> QED
      BY <3>1
  <2> QED
    BY <2>1, <2>2
<1>6. /\ \A i, j \in DOMAIN all : all[i].row = all[j].row => i = j
      /\ \A k \in 1 .. m : entry[k].row \in changed /\ entry[k].target = target
      /\ \A x \in changed : \E k \in 1 .. m : entry[k].row = x
  BY DEF all, m
<1>7. \A i, j \in DOMAIN old : old[i].row = old[j].row => i = j
  BY <1>1, <1>3, <1>6
<1>8. \A k \in DOMAIN all : KeysSetBy(all)[all[k].row] = all[k].target
  BY <1>6, KeySetBy
<1>9. \A k \in 1 .. n : old[k].row \in D /\ KeysSetBy(old)[old[k].row] = old[k].target
  BY <1>1, <1>7, KeySetBy DEF D
<1>10. {all[i].row : i \in DOMAIN all} = D \cup changed
  <2>1. \A i \in DOMAIN all : all[i].row \in D \cup changed
    BY <1>2, <1>5, <1>6
  <2>2. \A x \in D : \E i \in DOMAIN all : all[i].row = x
    BY <1>2, <1>3
  <2>3. \A x \in changed : \E i \in DOMAIN all : all[i].row = x
    BY <1>4, <1>6
  <2> QED
    BY <2>1, <2>2, <2>3
<1>11. ASSUME NEW x \in D \cup changed
       PROVE  KeysSetBy(all)[x] = IF x \in D THEN KeysSetBy(old)[x] ELSE target
  <2>1. CASE x \in D
    <3>1. PICK k \in 1 .. n : old[k].row = x
      BY <1>2, <2>1
    <3> QED
      BY <1>3, <1>8, <1>9, <2>1, <3>1
  <2>2. CASE x \notin D
    <3>1. PICK k \in 1 .. m : entry[k].row = x
      BY <1>6, <2>2
    <3> QED
      BY <1>4, <1>6, <1>8, <2>2, <3>1
  <2> QED
    BY <2>1, <2>2
<1>12. KeysSetBy(all) = [x \in D \cup changed |-> KeysSetBy(all)[x]]
  <2>1. DOMAIN KeysSetBy(all) = D \cup changed
    BY <1>10 DEF KeysSetBy
  <2> QED
    BY <2>1 DEF KeysSetBy
<1> QED
  BY <1>11, <1>12 DEF all, D, AlsoSet

\* The updates of a call.
EntryOf(changed, target) ==
  [k \in 1 .. Cardinality(changed) |-> [row |-> Nth(k - 1, changed), target |-> target]]

\* Every entry sets target, and each changed row has one.
EachIn(changed, entry, target) ==
  /\ \A k \in 1 .. Len(entry) : entry[k].target = target
  /\ \A x \in changed : \E k \in 1 .. Len(entry) : entry[k].row = x

\* Each row that a call updates is in its entry.
LEMMA EntryOfEach ==
  ASSUME NEW changed, IsFiniteSet(changed), changed \in SUBSET Int, NEW target
  PROVE  EachIn(changed, EntryOf(changed, target), target)
<1> DEFINE n == Cardinality(changed)
           entry == EntryOf(changed, target)
<1>1. n \in Nat
  BY FS_CardinalityType
<1>2. /\ Len(entry) = n
      /\ \A k \in 1 .. n : entry[k].row = Nth(k - 1, changed) /\ entry[k].target = target
  BY <1>1 DEF EntryOf
<1>3. ASSUME NEW x \in changed
      PROVE  \E k \in 1 .. n : Nth(k - 1, changed) = x
  <2>1. x \in Int /\ Rank(x, changed) \in 0 .. n /\ Rank(x, changed) < n
    BY RankType
  <2> DEFINE k == Rank(x, changed) + 1
  <2>2. k \in 1 .. n /\ k - 1 = Rank(x, changed) /\ k - 1 \in 0 .. n - 1
    BY <1>1, <2>1
  <2>3. Nth(k - 1, changed) \in changed /\ Rank(Nth(k - 1, changed), changed) = k - 1
    BY <2>2, NthProperties
  <2> HIDE DEF k
  <2>4. Nth(k - 1, changed) = x
    BY <2>2, <2>3, RankInjective
  <2> QED
    BY <2>2, <2>4
<1> QED
  BY <1>2, <1>3 DEF EachIn

\* What the store knows of the keys that are set.
LEMMA RelinkedInStore ==
  ASSUME NEW f \in ForeignKeys
  PROVE  /\ DOMAIN KeysSetBy(tx.updates[f]) = Relinked(f)
         /\ KeysSetBy(tx.updates[f]) = RelinkedTo(f)
BY DEF KeysSetBy, RelinkedTo, Relinked

\* register_updates sets the key of rows that are neither deleted nor relinked, or
\* refuses to.
LEMMA UpdateRefined ==
  ASSUME TypeOK, StagedTargetsExist, UpdatesDiffer, NEW f \in ForeignKeys,
         NEW rows, rows \subseteq Nat,
         NEW target \in KeysTo(Target[f]), UpdateEntries(f, rows, target)
  PROVE  Relational!Relink(f) \/ UNCHANGED Relational!storeVars
<1> DEFINE changed == {r \in rows : db.col[f].fk[r] # target}
           entry == [k \in 1 .. Cardinality(changed) |->
                       [row |-> Nth(k - 1, changed), target |-> target]]
<1>0. tx \in StagedEdits
  BY DEF TypeOK, EditsTyped
<1>1. db' = db /\ trackers' = trackers /\ tx.open
  BY DEF UpdateEntries, Ready
<1>2. CASE tx' = [tx EXCEPT !.calls = @ + 1]
  <2>1. /\ tx'.additions = tx.additions /\ tx'.updates = tx.updates
        /\ tx'.deletions = tx.deletions /\ tx'.open = tx.open
    BY <1>0, <1>2 DEF StagedEdits
  <2> QED
    BY <1>1, <2>1, StoreUntouched
<1>3. CASE /\ \A r \in rows : ~(r >= db.len[Source[f]])
           /\ rows \cap tx.deletions[Source[f]] = {}
           /\ rows \cap Relinked(f) = {}
           /\ tx' = [tx EXCEPT !.calls = @ + 1, !.updates[f] = @ \o entry]
  <2>1. Source[f] \in Tables /\ Target[f] \in Tables /\ db.len[Source[f]] \in Nat
    BY SchemaAssumption, RowsAreIndices
  <2>2. rows \subseteq RowsOf(Source[f])
    BY <1>3, <2>1 DEF RowsOf
  <2>3. /\ entry \in Seq(StagedKey)
        /\ \A k \in 1 .. Len(entry) : entry[k].row \in changed
    BY <2>2, UpdateEntryTyped
  <2>11. changed \subseteq rows
    OBVIOUS
  <2>18. entry = EntryOf(changed, target)
    BY DEF EntryOf
  <2> HIDE DEF changed, entry
  <2>4. IsFiniteSet(changed) /\ changed \in SUBSET Int
    <3>1. IsFiniteSet(RowsOf(Source[f])) /\ RowsOf(Source[f]) \subseteq Nat
      BY <2>1, RowsAreIndices
    <3>2. changed \in SUBSET RowsOf(Source[f])
      BY <2>2, <2>11
    <3> QED
      BY <3>1, <3>2, FS_Subset
  <2>5. /\ \A k \in 1 .. Len(entry) : entry[k].target = target
        /\ \A x \in changed : \E k \in 1 .. Len(entry) : entry[k].row = x
    <3>1. EachIn(changed, EntryOf(changed, target), target)
      BY <2>4, EntryOfEach
    <3> QED
      BY <2>18, <3>1 DEF EachIn
  <2>6. /\ tx'.additions = tx.additions /\ tx'.deletions = tx.deletions /\ tx'.open = tx.open
        /\ tx'.updates = [tx.updates EXCEPT ![f] = @ \o entry]
    BY <1>0, <1>3 DEF StagedEdits
  <2> DEFINE S == Seq(StagedKey)
             old == tx.updates[f]
  <2>7. tx.updates \in [ForeignKeys -> S]
    BY <1>0, EditFields DEF StagedUpdates
  <2>8. /\ tx'.updates[f] = old \o entry
        /\ \A g \in ForeignKeys : g # f => tx'.updates[g] = tx.updates[g]
    BY <2>6, <2>7
  <2>9. old \in S
    BY <2>7
  <2>10. DOMAIN KeysSetBy(old) = Relinked(f)
    BY RelinkedInStore
  <2>12. UpdatesDiffer'
    BY UpdateKeepsStaged
  <2> HIDE DEF old
  <2>13. \A i, j \in DOMAIN (old \o entry) :
           (old \o entry)[i].row = (old \o entry)[j].row => i = j
    BY <2>8, <2>12 DEF UpdatesDiffer
  <2>14. changed \cap DOMAIN KeysSetBy(old) = {}
    BY <1>3, <2>10, <2>11
  <2>15. KeysSetBy(old \o entry) = AlsoSet(KeysSetBy(old), changed, target)
    <3>1. old \in Seq(StagedKey) /\ entry \in Seq(StagedKey)
      BY <2>3, <2>9
    <3>2. \A k \in 1 .. Len(entry) : entry[k].row \in changed /\ entry[k].target = target
      BY <2>3, <2>5
    <3>3. \A x \in changed : \E k \in 1 .. Len(entry) : entry[k].row = x
      BY <2>5
    <3> HIDE DEF S
    <3> QED
      BY <2>13, <2>14, <3>1, <3>2, <3>3, MoreKeysSet
  <2> DEFINE before == [g \in ForeignKeys |-> RelinkedTo(g)]
             after == [g \in ForeignKeys |-> RelinkedTo(g)']
  <2>16. after = [before EXCEPT ![f] =
                    [i \in DOMAIN @ \cup {j \in rows : db.col[f].fk[j] # target} |->
                       IF i \in DOMAIN @ THEN @[i] ELSE target]]
    <3>1. \A g \in ForeignKeys : g # f => RelinkedTo(g)' = RelinkedTo(g)
      <4>1. \A g : /\ RelinkedTo(g)' = KeysSetBy(tx'.updates[g])
                   /\ RelinkedTo(g) = KeysSetBy(tx.updates[g])
        BY DEF RelinkedTo, Relinked, KeysSetBy
      <4> QED
        BY <2>8, <4>1
    <3>2. RelinkedTo(f)' = KeysSetBy(old \o entry) /\ RelinkedTo(f) = KeysSetBy(old)
      BY <2>8 DEF RelinkedTo, Relinked, KeysSetBy, old
    <3>3. RelinkedTo(f)' = [i \in DOMAIN RelinkedTo(f) \cup changed |->
                IF i \in DOMAIN RelinkedTo(f) THEN RelinkedTo(f)[i] ELSE target]
      BY <2>15, <3>2 DEF AlsoSet
    <3> QED
      BY <3>1, <3>3 DEF changed
  <2>17. /\ rows \in SUBSET RowsOf(Source[f])
         /\ target \in Relational!Ids(Target[f]) \cup {Missing}
         /\ rows \cap (tx.deletions[Source[f]] \cup DOMAIN RelinkedTo(f)) = {}
    <3>1. DOMAIN RelinkedTo(f) = Relinked(f)
      BY RelinkedInStore
    <3>2. target \in Relational!Ids(Target[f]) \cup {Missing}
      BY <2>1, IdsInStore DEF KeysTo
    <3> QED
      BY <1>3, <2>2, <3>1, <3>2
  <2> DEFINE tables == [t \in Tables |-> RowsOf(t)]
             ref == [g \in ForeignKeys |-> db.col[g].fk]
  <2>19. /\ tables[Source[f]] = RowsOf(Source[f]) /\ ref[f] = db.col[f].fk
         /\ before[f] = RelinkedTo(f)
    BY <2>1
  <2>20. tables' = tables /\ ref' = ref
    BY <1>1 DEF RowsOf
  <2> HIDE DEF tables, ref, before, after
  <2>21. \E some \in SUBSET tables[Source[f]], to \in Relational!Ids(Target[f]) \cup {Missing} :
           /\ some \cap (tx.deletions[Source[f]] \cup DOMAIN before[f]) = {}
           /\ after = [before EXCEPT ![f] =
                    [i \in DOMAIN @ \cup {j \in some : ref[f][j] # to} |->
                       IF i \in DOMAIN @ THEN @[i] ELSE to]]
    <3>1. /\ rows \in SUBSET tables[Source[f]]
          /\ target \in Relational!Ids(Target[f]) \cup {Missing}
          /\ rows \cap (tx.deletions[Source[f]] \cup DOMAIN before[f]) = {}
      BY <2>17, <2>19
    <3>2. after = [before EXCEPT ![f] =
                    [i \in DOMAIN @ \cup {j \in rows : ref[f][j] # target} |->
                       IF i \in DOMAIN @ THEN @[i] ELSE target]]
      BY <2>16, <2>19
    <3> QED
      BY <3>1, <3>2
  <2> QED
    BY <1>1, <2>6, <2>20, <2>21, Zenon
       DEF Relational!Relink, RelinkedTo, tables, ref, before, after
<1> QED
  BY <1>2, <1>3 DEF UpdateEntries, Refuse

(***************************************************************************)
(* Delete calls.                                                           *)
(***************************************************************************)
\* Walking as many rows as the count says, or as there are, finds no row that
\* does not reference the target.
LEMMA FoundReferences ==
  ASSUME TypeOK, ListsMatchKeys, CountsMatchLists,
         NEW f \in ForeignKeys, NEW i \in RowsOf(Target[f])
  PROVE  Referencing(f, i) \subseteq ReferrersOf(f, i)
<1> DEFINE c == db.col[f]
           n == db.len[Source[f]]
           m == IF TrackCounts THEN c.cnt[i] ELSE Cardinality(DOMAIN c.nxt)
           R == ReferrersOf(f, i)
<1>1. Source[f] \in Tables /\ Target[f] \in Tables
  BY SchemaAssumption
<1>2. /\ DOMAIN c.nxt = RowsOf(Source[f]) /\ IsFiniteSet(RowsOf(Source[f])) /\ n \in Nat
  BY <1>1, RowsAreIndices DEF TypeOK, DatabaseTyped, ColumnsHaveTheRows
<1>3. Cardinality(RowsOf(Source[f])) = n
  <2>1. 0 \in Int /\ n - 1 \in Int
    BY <1>2
  <2>2. Cardinality(0 .. n - 1) = IF 0 > n - 1 THEN 0 ELSE (n - 1) - 0 + 1
    BY <2>1, FS_Interval
  <2> QED
    BY <1>2, <2>2 DEF RowsOf
<1>4. /\ Chain(f, i) = R
      /\ TrackCounts => c.cnt[i] = Cardinality(R)
  BY DEF ListsMatchKeys, CountsMatchLists
<1>5. Cardinality(R) \in Nat /\ Cardinality(R) <= n
  <2>1. R \in SUBSET RowsOf(Source[f])
    BY DEF ReferrersOf
  <2> QED
    BY <1>2, <1>3, <2>1, FS_Subset, FS_CardinalityType
<1>6. m \in Nat /\ m <= n
  BY <1>2, <1>3, <1>4, <1>5
<1>7. Referencing(f, i) = Reached(c.nxt, c.head[i], m)
  BY DEF Referencing
<1>8. Chain(f, i) = Reached(c.nxt, c.head[i], n)
  BY DEF Chain
<1> HIDE DEF c, m, n, R
<1>9. 0 .. m - 1 \subseteq 0 .. n - 1
  BY <1>2, <1>6
<1>10. Reached(c.nxt, c.head[i], m) \subseteq Reached(c.nxt, c.head[i], n)
  BY <1>9 DEF Reached
<1> QED
  BY <1>4, <1>7, <1>8, <1>10 DEF R

\* F has what is marked for deletion, the rows the call was made with, and, with
\* a row, those that cascading keys tie to it.
CascadesInto(F) ==
  /\ \A t \in Tables : tx.deletions[t] \subseteq F[t]
  /\ call.stack # <<>> => call.stack[1].ids \subseteq F[call.stack[1].table]
  /\ \A f \in ForeignKeys : OnDelete[f] = "CASCADE" =>
       \A r \in RowsOf(Source[f]) \ Relinked(f) :
         db.col[f].fk[r] \in F[Target[f]] => r \in F[Source[f]]

\* A call expands to what cascades from its rows, and to nothing else.
CallCascades ==
  \A F : CascadesInto(F) =>
    /\ \A t \in Tables : call.expanded[t] \subseteq F[t]
    /\ \A k \in 1 .. Len(call.stack) : call.stack[k].ids \subseteq F[call.stack[k].table]

\* It does when there is no call.
LEMMA NoCallCascades ==
  ASSUME call' = NoCall
  PROVE  CallCascades'
<1>1. /\ call'.stack = <<>> /\ Len(<<>>) = 0
      /\ \A t \in Tables : call'.expanded[t] = {}
  BY EmptySeq DEF NoCall
<1>2. \A k \in 1 .. Len(call'.stack) : FALSE
  BY <1>1
<1> QED
  BY <1>1, <1>2 DEF CallCascades

\* A call that goes on begins with the same rows.
LEMMA CascadeGoesOn ==
  ASSUME db' = db, tx' = tx, call'.stack # <<>>, NEW F, CascadesInto(F)',
         call'.stack[1].ids = call.stack[1].ids, call'.stack[1].table = call.stack[1].table
  PROVE  CascadesInto(F)
<1>1. \A f : Relinked(f)' = Relinked(f) /\ RowsOf(Source[f])' = RowsOf(Source[f])
  BY DEF Relinked, RowsOf
<1> QED
  BY <1>1 DEF CascadesInto

\* register_deletions begins with rows of its own.
LEMMA DelCascades ==
  ASSUME NEW t \in Tables, NEW ids, DelEntries(t, ids)
  PROVE  CallCascades'
<1> DEFINE frame == Frame(t, ids, NothingNulled)
<1>1. CASE call' = NoCall
  BY <1>1, NoCallCascades
<1>2. CASE call' = [stack |-> Append(<<>>, frame), expanded |-> NoCall.expanded]
  <2>1. /\ call'.stack = <<frame>> /\ Len(call'.stack) = 1 /\ call'.stack[1] = frame
        /\ \A u \in Tables : call'.expanded[u] = {} /\ call'.stack # <<>>
    BY <1>2 DEF NoCall
  <2>2. \A k \in 1 .. Len(call'.stack) : k = 1
    BY <2>1
  <2> QED
    BY <2>1, <2>2 DEF CallCascades, CascadesInto
<1>3. call' = NoCall \/ call' = [stack |-> Append(<<>>, frame), expanded |-> NoCall.expanded]
  BY DEF DelEntries, Enter
<1> QED
  BY <1>1, <1>2, <1>3

\* A turn of the loop for key f at level n leaves the rows of the levels as they
\* are, and may enter a level for the rows in hit.
TurnsTo(f, n, hit) ==
  /\ call'.expanded = call.expanded
  /\ Len(call'.stack) = n \/ Len(call'.stack) = n + 1
  /\ \A k \in 1 .. n : /\ call'.stack[k].table = call.stack[k].table
                       /\ call'.stack[k].ids = call.stack[k].ids
  /\ Len(call'.stack) = n + 1 =>
       /\ OnDelete[f] = "CASCADE"
       /\ call'.stack[n + 1].table = Source[f] /\ call'.stack[n + 1].ids = hit

\* If these reference rows of the level, they cascade from it.
LEMMA TurnCascades ==
  ASSUME TypeOK, CallCascades, db' = db, tx' = tx,
         NEW f \in ForeignKeys, Target[f] = Top.table,
         NEW n \in Nat \ {0}, n = Len(call.stack), NEW hit, TurnsTo(f, n, hit),
         \A r \in hit : /\ r \in RowsOf(Source[f]) \ Relinked(f)
                        /\ db.col[f].fk[r] \in Top.ids
  PROVE  CallCascades'
<1> SUFFICES ASSUME NEW F, CascadesInto(F)'
             PROVE  /\ \A t \in Tables : call'.expanded[t] \subseteq F[t]
                    /\ \A k \in 1 .. Len(call'.stack) :
                         call'.stack[k].ids \subseteq F[call'.stack[k].table]
  BY DEF CallCascades
<1>1. 1 \in 1 .. n /\ n \in 1 .. n /\ Len(<<>>) = 0
  BY EmptySeq
<1>2. call'.stack # <<>>
  <2> DEFINE m == Len(call'.stack)
  <2>1. m = n \/ m = n + 1
    BY DEF TurnsTo
  <2> HIDE DEF m
  <2>2. m # 0
    BY <2>1
  <2> QED
    BY <1>1, <2>2 DEF m
<1>3. CascadesInto(F)
  BY <1>1, <1>2, CascadeGoesOn DEF TurnsTo
<1>4. /\ \A t \in Tables : call.expanded[t] \subseteq F[t]
      /\ \A k \in 1 .. n : call.stack[k].ids \subseteq F[call.stack[k].table]
  BY <1>3 DEF CallCascades
<1>5. Top.ids \subseteq F[Target[f]]
  BY <1>1, <1>4 DEF Top
<1>6. OnDelete[f] = "CASCADE" => hit \subseteq F[Source[f]]
  BY <1>3, <1>5 DEF CascadesInto
<1>7. ASSUME NEW k \in 1 .. Len(call'.stack)
      PROVE  k \in 1 .. n \/ (k = n + 1 /\ Len(call'.stack) = n + 1)
  <2> DEFINE m == Len(call'.stack)
  <2>1. k \in 1 .. m /\ (m = n \/ m = n + 1)
    BY DEF TurnsTo
  <2> HIDE DEF m
  <2>2. k \in 1 .. n \/ (k = n + 1 /\ m = n + 1)
    BY <2>1
  <2> QED
    BY <2>2 DEF m
<1> QED
  BY <1>4, <1>6, <1>7 DEF TurnsTo

\* A row that a turn hits references a row of the level and is not relinked.
LEMMA HitRows ==
  ASSUME TypeOK, ListsMatchKeys, CountsMatchLists, NEW f \in ForeignKeys,
         NEW frame, frame.ids \subseteq RowsOf(Target[f])
  PROVE  \A r \in NewlyHit(frame, f) : /\ r \in RowsOf(Source[f]) \ Relinked(f)
                                       /\ db.col[f].fk[r] \in frame.ids
<1> SUFFICES ASSUME NEW r \in NewlyHit(frame, f)
             PROVE  /\ r \in RowsOf(Source[f]) \ Relinked(f)
                    /\ db.col[f].fk[r] \in frame.ids
  OBVIOUS
<1>1. PICK i \in frame.ids : r \in Referencing(f, i)
  BY DEF NewlyHit
<1>2. r \notin Relinked(f)
  BY DEF NewlyHit
<1>3. r \in ReferrersOf(f, i)
  BY <1>1, FoundReferences
<1> QED
  BY <1>1, <1>2, <1>3 DEF ReferrersOf

\* One turn of the loop of expand_and_validate_deletions.
LEMMA ExpandCascades ==
  ASSUME SubscribersMatch, TypeOK, CallCascades, ListsMatchKeys, CountsMatchLists,
         ExpandSubscriber
  PROVE  CallCascades'
<1> DEFINE n == Len(call.stack)
           f == Subscribers[Top.table][Top.sub]
           hit == NewlyHit(Top, f)
           next == [Top EXCEPT !.sub = @ + 1]
           nulling == [Top EXCEPT !.sub = @ + 1, !.nulled[f] = @ \cup hit]
           frame == Frame(Source[f], hit, Top.nulled)
<1>1. call.stack # <<>> /\ db' = db /\ tx' = tx
  BY DEF ExpandSubscriber
<1>2. /\ Top.table \in Tables /\ Below \in Seq(Frames)
      /\ Top \in Frames /\ Top.ids \subseteq RowsOf(Top.table)
      /\ n \in Nat \ {0} /\ Len(Below) = n - 1 /\ n - 1 \in Nat
  BY <1>1, TopTyped DEF StackTyped, FrameTyped
<1>3. /\ Top = [table |-> Top.table, ids |-> Top.ids, sub |-> Top.sub,
                nulled |-> Top.nulled]
      /\ Top.sub \in Nat \ {0} /\ Top.nulled \in [ForeignKeys -> SUBSET Nat]
      /\ Top.ids \in SUBSET Nat
  BY <1>2 DEF Frames, Unlinks
<1>4. Top.sub \in 1 .. Len(Subscribers[Top.table]) /\ f \in ForeignKeys
  <2>1. Subscribers[Top.table] \in Seq(ForeignKeys)
    BY <1>2, SchemaAssumption
  <2>2. Len(Subscribers[Top.table]) \in Nat
    BY <2>1, LenProperties
  <2>3. Top.sub <= Len(Subscribers[Top.table])
    BY DEF ExpandSubscriber
  <2>4. Top.sub \in 1 .. Len(Subscribers[Top.table])
    BY <1>3, <2>2, <2>3
  <2> QED
    BY <2>1, <2>4, ElementOfSeq
<1>5. Target[f] = Top.table
  BY <1>2, <1>4 DEF SubscribersMatch
<1>6. \A r \in hit : /\ r \in RowsOf(Source[f]) \ Relinked(f)
                     /\ db.col[f].fk[r] \in Top.ids
  <2>1. f \in ForeignKeys /\ Top.ids \subseteq RowsOf(Target[f])
    BY <1>2, <1>4, <1>5
  <2> HIDE DEF f
  <2> QED
    BY <2>1, HitRows
<1> HIDE DEF f, hit
<1>7. /\ next.table = Top.table /\ next.ids = Top.ids /\ next \in Frames
      /\ nulling.table = Top.table /\ nulling.ids = Top.ids
  <2>1. next = [table |-> Top.table, ids |-> Top.ids, sub |-> Top.sub + 1,
                nulled |-> Top.nulled]
    BY <1>3
  <2>2. nulling.table = Top.table /\ nulling.ids = Top.ids
    BY <1>3
  <2> HIDE DEF next, nulling
  <2>3. Top.sub + 1 \in Nat \ {0}
    BY <1>3
  <2> QED
    BY <1>2, <1>3, <2>1, <2>2, <2>3 DEF Frames, Unlinks
<1>8. nulling \in Frames
  <2> DEFINE more == [Top.nulled EXCEPT ![f] = @ \cup hit]
  <2>1. nulling = [Top EXCEPT !.sub = Top.sub + 1, !.nulled = more]
    BY <1>3
  <2>2. hit \subseteq Nat
    BY <1>4, <1>6, RowsAreIndices, SchemaAssumption
  <2>3. more \in [ForeignKeys -> SUBSET Nat]
    BY <1>3, <2>2
  <2> HIDE DEF more, nulling
  <2>4. nulling = [table |-> Top.table, ids |-> Top.ids, sub |-> Top.sub + 1, nulled |-> more]
    BY <1>3, <2>1
  <2> QED
    BY <1>2, <1>3, <2>3, <2>4 DEF Frames, Unlinks
<1>9. frame.table = Source[f] /\ frame.ids = hit /\ frame \in Frames
  <2>1. hit \subseteq Nat
    BY <1>4, <1>6, RowsAreIndices, SchemaAssumption
  <2> QED
    BY <1>2, <1>3, <1>4, <2>1, SchemaAssumption DEF Frame, Frames, Unlinks
<1> HIDE DEF next, nulling, frame
<1>10. \A k \in 1 .. n - 1 : Below[k] = call.stack[k]
  BY <1>1, BelowIs
<1>11. ASSUME NEW top \in Frames, top.table = Top.table, top.ids = Top.ids
       PROVE  /\ Append(Below, top) \in Seq(Frames) /\ Len(Append(Below, top)) = n
              /\ \A k \in 1 .. n : /\ Append(Below, top)[k].table = call.stack[k].table
                                   /\ Append(Below, top)[k].ids = call.stack[k].ids
  <2>1. /\ Append(Below, top) \in Seq(Frames) /\ Len(Append(Below, top)) = n
        /\ \A k \in 1 .. n - 1 : Append(Below, top)[k] = call.stack[k]
        /\ Append(Below, top)[n] = top
    BY <1>2, <1>10, AppendProperties
  <2>2. \A k \in 1 .. n : k \in 1 .. n - 1 \/ k = n
    BY <1>2
  <2> QED
    BY <1>11, <2>1, <2>2 DEF Top
<1>12. CASE call' = NoCall
  BY <1>12, NoCallCascades
<1>13. ASSUME NEW top \in {next, nulling}, call' = [call EXCEPT !.stack = Append(Below, top)]
       PROVE  CallCascades'
  <2>1. call'.stack = Append(Below, top) /\ call'.expanded = call.expanded
    BY <1>13 DEF TypeOK, CallTyped
  <2>2. top \in Frames /\ top.table = Top.table /\ top.ids = Top.ids
    BY <1>7, <1>8
  <2>3. Len(call'.stack) # n + 1 /\ Len(call'.stack) = n
    BY <1>2, <1>11, <2>1, <2>2
  <2>4. TurnsTo(f, n, hit)
    BY <1>11, <2>1, <2>2, <2>3 DEF TurnsTo
  <2> QED
    BY <1>1, <1>2, <1>4, <1>5, <1>6, <2>4, TurnCascades DEF n
<1>14. CASE /\ OnDelete[f] = "CASCADE"
            /\ call' = [stack |-> Append(Append(Below, next), frame), expanded |-> call.expanded]
  <2> DEFINE s == Append(Below, next)
  <2>1. /\ s \in Seq(Frames) /\ Len(s) = n
        /\ \A k \in 1 .. n : s[k].table = call.stack[k].table /\ s[k].ids = call.stack[k].ids
    BY <1>7, <1>11
  <2>2. call'.stack = Append(s, frame) /\ call'.expanded = call.expanded
    BY <1>14
  <2> HIDE DEF s
  <2>3. /\ Len(call'.stack) = n + 1 /\ call'.stack[n + 1] = frame
        /\ \A k \in 1 .. n : call'.stack[k] = s[k]
    BY <1>9, <2>1, <2>2, AppendProperties
  <2>4. TurnsTo(f, n, hit)
    BY <1>9, <1>14, <2>1, <2>2, <2>3 DEF TurnsTo
  <2> QED
    BY <1>1, <1>2, <1>4, <1>5, <1>6, <2>4, TurnCascades DEF n
<1>15. \/ call' = NoCall
       \/ call' = [call EXCEPT !.stack = Append(Below, next)]
       \/ call' = [call EXCEPT !.stack = Append(Below, nulling)]
       \/ /\ OnDelete[f] = "CASCADE"
          /\ call' = [stack |-> Append(Append(Below, next), frame), expanded |-> call.expanded]
  BY DEF ExpandSubscriber, Enter, f, hit, next, nulling, frame
<1> QED
  BY <1>12, <1>13, <1>14, <1>15

\* An inner level returns: its rows are expanded.
LEMMA ReturnInnerCascades ==
  ASSUME TypeOK, CallCascades, ReturnInner
  PROVE  CallCascades'
<1> DEFINE n == Len(call.stack)
           nulled == IF Below[Len(Below)].nulled # NothingNulled
                       THEN Top.nulled ELSE Below[Len(Below)].nulled
<1>1. call.stack # <<>> /\ db' = db /\ tx' = tx /\ n > 1
  <2>1. n > 1 /\ db' = db /\ tx' = tx
    BY DEF ReturnInner
  <2>2. Len(<<>>) = 0
    BY EmptySeq
  <2> QED
    BY <2>1, <2>2
<1>2. /\ n \in Nat /\ Len(Below) = n - 1 /\ Below \in Seq(Frames)
      /\ Top.table \in Tables
  BY <1>1, TopTyped DEF StackTyped
<1>3. DOMAIN Below = 1 .. n - 1
  BY <1>2, LenProperties
<1>4. \A k \in 1 .. n - 1 : Below[k] = call.stack[k] /\ Below[k] \in Frames
  <2>1. \A k \in 1 .. n - 1 : Below[k] = call.stack[k]
    BY <1>1, BelowIs
  <2> QED
    BY <1>2, <2>1, ElementOfSeq
<1>5. /\ call'.stack = [Below EXCEPT ![Len(Below)].nulled = nulled]
      /\ call'.expanded = [call.expanded EXCEPT ![Top.table] = @ \cup Top.ids]
  BY <1>2, <1>3 DEF ReturnInner
<1>6. Top = call.stack[n]
  BY DEF Top
<1> HIDE DEF n, nulled
<1>7. /\ n \in 1 .. n /\ 1 \in 1 .. n - 1
      /\ \A k \in 1 .. n - 1 : k \in 1 .. n
  BY <1>1, <1>2
<1>8. \A k \in 1 .. n - 1 : /\ call'.stack[k].table = call.stack[k].table
                            /\ call'.stack[k].ids = call.stack[k].ids
  <2> SUFFICES ASSUME NEW k \in 1 .. n - 1
               PROVE  /\ call'.stack[k].table = Below[k].table
                      /\ call'.stack[k].ids = Below[k].ids
    BY <1>4
  <2>1. CASE k = n - 1
    <3>1. call'.stack[k] = [Below[k] EXCEPT !.nulled = nulled]
      BY <1>2, <1>3, <1>5, <2>1
    <3>2. Below[k] \in Frames
      BY <1>4
    <3> QED
      BY <3>1, <3>2 DEF Frames
  <2>2. CASE k # n - 1
    BY <1>2, <1>3, <1>5, <2>2
  <2> QED
    BY <2>1, <2>2
<1>9. Len(call'.stack) = n - 1 /\ call'.stack # <<>>
  <2>1. DOMAIN call'.stack = 1 .. n - 1
    BY <1>3, <1>5
  <2>2. call'.stack \in Seq(Frames)
    <3>1. TypeOK'
      BY ReturnInnerTyped
    <3> QED
      BY <3>1 DEF TypeOK, CallTyped
  <2>3. Len(call'.stack) \in Nat /\ DOMAIN call'.stack = 1 .. Len(call'.stack)
    BY <2>2, LenProperties
  <2>4. n - 1 \in Nat /\ n - 1 # 0 /\ Len(<<>>) = 0
    BY <1>1, <1>2, EmptySeq
  <2> DEFINE m == Len(call'.stack)
  <2>5. m \in Nat /\ 1 .. m = 1 .. n - 1
    BY <2>1, <2>3
  <2> HIDE DEF m
  <2>6. m = n - 1
    BY <2>4, <2>5
  <2> QED
    BY <2>4, <2>6 DEF m
<1>10. \A t \in Tables : \A i \in call'.expanded[t] :
         i \in call.expanded[t] \/ (t = Top.table /\ i \in Top.ids)
  <2>1. call.expanded \in [Tables -> SUBSET Nat]
    BY DEF TypeOK, CallTyped, RowSets
  <2> QED
    BY <1>2, <1>5, <2>1
<1> SUFFICES ASSUME NEW F, CascadesInto(F)'
             PROVE  /\ \A t \in Tables : call'.expanded[t] \subseteq F[t]
                    /\ \A k \in 1 .. n - 1 :
                         call'.stack[k].ids \subseteq F[call'.stack[k].table]
  BY <1>9 DEF CallCascades
<1>11. CascadesInto(F)
  BY <1>1, <1>7, <1>8, <1>9, CascadeGoesOn
<1>12. /\ \A t \in Tables : call.expanded[t] \subseteq F[t]
       /\ \A k \in 1 .. n : call.stack[k].ids \subseteq F[call.stack[k].table]
  BY <1>11 DEF CallCascades, n
<1>13. Top.ids \subseteq F[Top.table]
  BY <1>6, <1>7, <1>12
<1> QED
  BY <1>7, <1>8, <1>10, <1>12, <1>13

\* A step that changes neither the database, nor what is staged, nor the call.
LEMMA CascadesUntouched ==
  ASSUME CallCascades, call' = call, db' = db, tx' = tx
  PROVE  CallCascades'
BY DEF CallCascades, CascadesInto, RowsOf, Relinked

\* Every step.
LEMMA StepCascades ==
  ASSUME SubscribersMatch, TypeOK, Followed, CallCascades,
         ListsMatchKeys, CountsMatchLists, [Next]_vars
  PROVE  CallCascades'
<1>1. CASE Begin \/ Commit \/ CommitTorn \/ CommitRefused \/ Rollback
  <2>1. call' = call
    BY <1>1 DEF Begin, Commit, CommitTorn, CommitRefused, Rollback, Close
  <2>2. call = NoCall
    <3>1. CASE Begin
      BY <3>1 DEF Begin, Followed, CallsInBlocks
    <3>2. CASE ~Begin
      <4>1. call.stack = <<>>
        BY <1>1, <3>2 DEF Commit, CommitTorn, CommitRefused, Rollback, Leaving
      <4> QED
        BY <4>1 DEF TypeOK, CallTyped
    <3> QED
      BY <3>1, <3>2
  <2> QED
    BY <2>1, <2>2, NoCallCascades
<1>2. CASE \E t \in Tables : \E n \in 1 .. MaxStaged :
             \E rows \in [1 .. n -> RowsToAdd(t)] : AddEntries(t, rows)
  <2>1. call' = NoCall
    BY <1>2 DEF AddEntries, Ready, TypeOK, CallTyped
  <2> QED
    BY <2>1, NoCallCascades
<1>3. CASE \E f \in ForeignKeys :
             \E rows \in (SUBSET (RowsOf(Source[f]) \cup StagedIds(Source[f]))) \ {{}} :
               \E target \in KeysTo(Target[f]) : UpdateEntries(f, rows, target)
  <2>1. call' = NoCall
    BY <1>3 DEF UpdateEntries, Ready, TypeOK, CallTyped
  <2> QED
    BY <2>1, NoCallCascades
<1>4. CASE \E t \in Tables :
             \E ids \in (SUBSET (RowsOf(t) \cup StagedIds(t))) \ {{}} : DelEntries(t, ids)
  BY <1>4, DelCascades
<1>5. CASE ExpandSubscriber
  BY <1>5, ExpandCascades
<1>6. CASE ReturnInner
  BY <1>6, ReturnInnerCascades
<1>7. CASE ReturnOuter
  <2>1. call' = NoCall
    BY <1>7 DEF ReturnOuter
  <2> QED
    BY <2>1, NoCallCascades
<1>8. CASE UNCHANGED vars
  BY <1>8, CascadesUntouched DEF vars
<1> QED
  BY <1>1, <1>2, <1>3, <1>4, <1>5, <1>6, <1>7, <1>8 DEF Next

\* Every step.
LEMMA StepClosed ==
  ASSUME TypeOK, Followed, ClosedIsEmpty, [Next]_vars
  PROVE  ClosedIsEmpty'
<1>0. tx \in StagedEdits
  BY DEF TypeOK, EditsTyped
<1>1. CASE Commit \/ CommitTorn \/ CommitRefused \/ Rollback
  <2>1. tx' = NoTx
    BY <1>1 DEF Commit, CommitTorn, CommitRefused, Rollback, Close
  <2> QED
    BY <2>1 DEF ClosedIsEmpty, NoTx
<1>2. CASE Begin
  <2>1. tx' = [NoTx EXCEPT !.open = TRUE]
    BY <1>2 DEF Begin
  <2> QED
    BY <2>1 DEF ClosedIsEmpty, NoTx
<1>3. CASE ExpandSubscriber \/ ReturnInner \/ UNCHANGED vars
  <2>1. tx' = tx
    BY <1>3 DEF ExpandSubscriber, ReturnInner, vars
  <2> QED
    BY <2>1 DEF ClosedIsEmpty
<1>4. CASE \E t \in Tables : \E n \in 1 .. MaxStaged :
             \E rows \in [1 .. n -> RowsToAdd(t)] : AddEntries(t, rows)
  <2>1. PICK t, rows : AddEntries(t, rows)
    BY <1>4
  <2> DEFINE targets(f) == {rows[i][f] : i \in DOMAIN rows}
             claims == [u \in Tables |-> tx.claims[u] \cup
                          UNION {targets(f) : f \in {g \in KeysOf(t) : Target[g] = u}}]
  <2>2. /\ \/ tx' = [tx EXCEPT !.calls = @ + 1, !.staged = @ \cup {t}]
           \/ tx' = [tx EXCEPT !.calls = @ + 1, !.staged = @ \cup {t},
                               !.additions[t] = @ \o rows, !.claims = claims]
        /\ tx.open
    BY <2>1 DEF AddEntries, Ready
  <2> HIDE DEF claims
  <2>3. tx'.open = tx.open
    BY <1>0, <2>2 DEF StagedEdits
  <2> QED
    BY <2>2, <2>3 DEF ClosedIsEmpty
<1>5. CASE \E f \in ForeignKeys :
             \E rows \in (SUBSET (RowsOf(Source[f]) \cup StagedIds(Source[f]))) \ {{}} :
               \E target \in KeysTo(Target[f]) : UpdateEntries(f, rows, target)
  <2>1. PICK f, rows, target : UpdateEntries(f, rows, target)
    BY <1>5
  <2> DEFINE changed == {r \in rows : db.col[f].fk[r] # target}
             entry == [k \in 1 .. Cardinality(changed) |->
                         [row |-> Nth(k - 1, changed), target |-> target]]
  <2>2. /\ \/ tx' = [tx EXCEPT !.calls = @ + 1]
           \/ tx' = [tx EXCEPT !.calls = @ + 1, !.updates[f] = @ \o entry]
        /\ tx.open
    BY <2>1 DEF UpdateEntries, Refuse, Ready
  <2> HIDE DEF entry
  <2>3. tx'.open = tx.open
    BY <1>0, <2>2 DEF StagedEdits
  <2> QED
    BY <2>2, <2>3 DEF ClosedIsEmpty
<1>6. CASE \E t \in Tables :
             \E ids \in (SUBSET (RowsOf(t) \cup StagedIds(t))) \ {{}} : DelEntries(t, ids)
  <2>1. tx' = [tx EXCEPT !.calls = @ + 1] /\ tx.open
    BY <1>6 DEF DelEntries, Ready
  <2>2. tx'.open = tx.open
    BY <1>0, <2>1 DEF StagedEdits
  <2> QED
    BY <2>1, <2>2 DEF ClosedIsEmpty
<1>7. CASE ReturnOuter
  <2> DEFINE final == [call.expanded EXCEPT ![Top.table] = @ \cup Top.ids]
             deletions == [t \in Tables |-> tx.deletions[t] \cup final[t]]
             unlinks == [f \in ForeignKeys |->
                           tx.unlinks[f] \cup (Top.nulled[f] \ final[Source[f]])]
  <2>1. tx' = [tx EXCEPT !.deletions = deletions, !.unlinks = unlinks]
    BY <1>7 DEF ReturnOuter
  <2> HIDE DEF deletions, unlinks
  <2>2. tx'.open = tx.open
    BY <1>0, <2>1 DEF StagedEdits
  <2>3. tx.open
    <3>1. call # NoCall
      BY <1>7, EmptySeq DEF ReturnOuter, NoCall
    <3> QED
      BY <3>1 DEF Followed, CallsInBlocks
  <2> QED
    BY <2>2, <2>3 DEF ClosedIsEmpty
<1> QED
  BY <1>1, <1>2, <1>3, <1>4, <1>5, <1>6, <1>7 DEF Next

(***************************************************************************)
(* Deletions.                                                              *)
(***************************************************************************)
\* What the outermost level stages.
LEMMA ReturnOuterStages ==
  ASSUME TypeOK, NothingToNull, ReturnOuter
  PROVE  /\ Top = call.stack[1] /\ Len(call.stack) = 1 /\ call.stack # <<>>
         /\ Top.table \in Tables /\ Top.ids \subseteq RowsOf(Top.table)
         /\ tx'.open = tx.open /\ tx'.additions = tx.additions /\ tx'.updates = tx.updates
         /\ tx'.deletions \in [Tables -> SUBSET Nat]
         /\ \A t \in Tables : \A i : i \in tx'.deletions[t] <=>
              \/ i \in tx.deletions[t]
              \/ i \in call.expanded[t]
              \/ t = Top.table /\ i \in Top.ids
<1> DEFINE final == [call.expanded EXCEPT ![Top.table] = @ \cup Top.ids]
           deletions == [t \in Tables |-> tx.deletions[t] \cup final[t]]
           unlinks == [f \in ForeignKeys |->
                         tx.unlinks[f] \cup (Top.nulled[f] \ final[Source[f]])]
<1>0. tx \in StagedEdits
  BY DEF TypeOK, EditsTyped
<1>1. call.stack # <<>> /\ Len(call.stack) = 1
  BY EmptySeq DEF ReturnOuter
<1>2. Top = call.stack[1] /\ Top.table \in Tables /\ Top.ids \subseteq RowsOf(Top.table)
  BY <1>1, TopTyped DEF Top, FrameTyped
<1>3. tx' = [tx EXCEPT !.deletions = deletions, !.unlinks = unlinks]
  BY DEF ReturnOuter
<1>4. \A t \in Tables : \A i : i \in final[t] <=>
        i \in call.expanded[t] \/ (t = Top.table /\ i \in Top.ids)
  <2>1. call.expanded \in [Tables -> SUBSET Nat]
    BY DEF TypeOK, CallTyped, RowSets
  <2> QED
    BY <1>2, <2>1
<1> HIDE DEF final
<1>5. \A t \in Tables : deletions[t] = tx.deletions[t] \cup final[t]
  OBVIOUS
<1> HIDE DEF deletions, unlinks
<1>6. /\ tx'.open = tx.open /\ tx'.additions = tx.additions /\ tx'.updates = tx.updates
      /\ tx'.deletions = deletions
  BY <1>0, <1>3 DEF StagedEdits
<1>7. tx'.deletions \in [Tables -> SUBSET Nat]
  <2>1. TypeOK'
    BY ReturnOuterTyped
  <2>2. tx' \in StagedEdits
    BY <2>1 DEF TypeOK, EditsTyped
  <2> QED
    BY <2>2, EditFields DEF RowSets
<1> QED
  BY <1>1, <1>2, <1>4, <1>5, <1>6, <1>7

\* It is what cascades from the rows of the call, as Delete has it, and no row
\* more.
LEMMA ReturnOuterRefined ==
  ASSUME SubscribersMatch, TypeOK, ClaimsKept, Followed, NothingToNull, CallCascades,
         ReturnOuter
  PROVE  Relational!Delete(Top.table)
<1> DEFINE T == Top.table
           D == tx'.deletions
           base == [tx.deletions EXCEPT ![T] = @ \cup Top.ids]
<1>0. /\ Top = call.stack[1] /\ Len(call.stack) = 1 /\ call.stack # <<>>
      /\ T \in Tables /\ Top.ids \subseteq RowsOf(T)
      /\ tx'.open = tx.open /\ tx'.additions = tx.additions /\ tx'.updates = tx.updates
      /\ D \in [Tables -> SUBSET Nat]
      /\ \A t \in Tables : \A i : i \in D[t] <=>
           i \in tx.deletions[t] \/ i \in call.expanded[t] \/ (t = T /\ i \in Top.ids)
  BY ReturnOuterStages
<1>1. db' = db /\ trackers' = trackers /\ tx.open
  <2>1. call # NoCall
    BY <1>0 DEF NoCall
  <2> QED
    BY <2>1 DEF ReturnOuter, Followed, CallsInBlocks
<1>2. tx.deletions \in [Tables -> SUBSET Nat]
  <2>1. tx \in StagedEdits
    BY DEF TypeOK, EditsTyped
  <2> QED
    BY <2>1, EditFields DEF RowSets
<1>3. TypeOK' /\ ClaimsKept' /\ DeletionsClosed' /\ NothingToNull'
  BY ReturnOuterTyped, ReturnOuterKeepsClaims, ReturnOuterFollowed, ReturnOuterNullsNothing
     DEF Followed
<1>4. \A f \in ForeignKeys : Relinked(f)' = Relinked(f) /\ RowsOf(Source[f])' = RowsOf(Source[f])
  BY <1>0, <1>1 DEF Relinked, RowsOf
<1>5. \A t \in Tables : D[t] \subseteq RowsOf(t)
  BY <1>1, <1>3 DEF TypeOK, EditsTyped, RowsOf
<1>6. \A f \in ForeignKeys : \A r \in RowsOf(Source[f]) \ Relinked(f) :
        db.col[f].fk[r] \in D[Target[f]] => r \in D[Source[f]]
  BY <1>1, <1>3, <1>4 DEF DeletionsClosed, NothingToNull
<1>7. \A f \in ForeignKeys : \A k \in DOMAIN tx.additions[Source[f]] :
        tx.additions[Source[f]][k][f] \notin D[Target[f]]
  <2>1. \A f \in ForeignKeys : Target[f] \in Tables
    BY SchemaAssumption
  <2> QED
    BY <1>0, <1>3, <2>1 DEF ClaimsKept
<1>8. \A t \in Tables : \A i : i \in base[t] <=> i \in tx.deletions[t] \/ (t = T /\ i \in Top.ids)
  BY <1>0, <1>2
<1>9. \A F \in [Tables -> SUBSET UNION {RowsOf(t) : t \in Tables}] :
        /\ \A t \in Tables : base[t] \subseteq F[t]
        /\ \A f \in ForeignKeys : OnDelete[f] = "CASCADE" =>
             \A r \in RowsOf(Source[f]) \ Relinked(f) :
               db.col[f].fk[r] \in F[Target[f]] => r \in F[Source[f]]
        => \A t \in Tables : D[t] \subseteq F[t]
  <2> HIDE DEF base, T
  <2> SUFFICES ASSUME NEW F,
                      \A t \in Tables : base[t] \subseteq F[t],
                      \A f \in ForeignKeys : OnDelete[f] = "CASCADE" =>
                         \A r \in RowsOf(Source[f]) \ Relinked(f) :
                           db.col[f].fk[r] \in F[Target[f]] => r \in F[Source[f]]
               PROVE  \A t \in Tables : D[t] \subseteq F[t]
    OBVIOUS
  <2>1. \A t \in Tables : tx.deletions[t] \subseteq F[t]
    BY <1>8
  <2>2. call.stack[1].ids \subseteq F[call.stack[1].table]
    BY <1>0, <1>8 DEF T
  <2>3. CascadesInto(F)
    BY <2>1, <2>2 DEF CascadesInto
  <2>4. \A t \in Tables : call.expanded[t] \subseteq F[t]
    BY <2>3 DEF CallCascades
  <2>5. Top.ids \subseteq F[T]
    BY <1>0, <2>2 DEF T
  <2> QED
    BY <1>0, <2>1, <2>4, <2>5
<1> HIDE DEF base, D, T
<1> DEFINE rows == [t \in Tables |-> RowsOf(t)]
           ref == [f \in ForeignKeys |-> db.col[f].fk]
           relinked == [f \in ForeignKeys |-> RelinkedTo(f)]
<1>10. /\ \A t \in Tables : rows[t] = RowsOf(t)
       /\ {rows[t] : t \in Tables} = {RowsOf(t) : t \in Tables}
  OBVIOUS
<1>11. rows' = rows /\ ref' = ref /\ relinked' = relinked
  BY <1>0, <1>1 DEF RowsOf, RelinkedTo, Relinked
<1>12. \A f \in ForeignKeys : \A E :
         Relational!Referrers(f, E)
           = {r \in RowsOf(Source[f]) : db.col[f].fk[r] \in E[Target[f]]} \ Relinked(f)
  BY ReferrersInStore
<1> HIDE DEF rows, ref, relinked
<1>13. Relational!Deletions
         = {E \in [Tables -> SUBSET UNION {RowsOf(t) : t \in Tables}] :
              \A t \in Tables : E[t] \subseteq RowsOf(t)}
  BY <1>10, Zenon DEF Relational!Deletions, rows
<1>14. D \in Relational!Deletions
  <2>1. D \in [Tables -> SUBSET UNION {RowsOf(t) : t \in Tables}]
    BY <1>0, <1>5
  <2> QED
    BY <1>5, <1>13, <2>1
<1>15. \A E : Relational!Cascades(base, E) <=>
         /\ \A t \in Tables : base[t] \subseteq E[t]
         /\ \A f \in ForeignKeys : OnDelete[f] = "CASCADE" =>
              \A r \in RowsOf(Source[f]) \ Relinked(f) :
                db.col[f].fk[r] \in E[Target[f]] => r \in E[Source[f]]
  BY <1>12 DEF Relational!Cascades
<1>16. Relational!CascadeOf(base, D)
  <2>1. Relational!Cascades(base, D)
    BY <1>0, <1>6, <1>8, <1>15
  <2>2. \A F \in Relational!Deletions :
          Relational!Cascades(base, F) => \A t \in Tables : D[t] \subseteq F[t]
    BY <1>9, <1>13, <1>15
  <2> QED
    BY <1>14, <2>1, <2>2 DEF Relational!CascadeOf
<1>17. \A f \in ForeignKeys :
         /\ OnDelete[f] = "RESTRICT" => Relational!Referrers(f, D) \subseteq D[Source[f]]
         /\ \A k \in DOMAIN tx.additions[Source[f]] :
              tx.additions[Source[f]][k][f] \notin D[Target[f]]
  BY <1>6, <1>7, <1>12
<1>18. \E some \in SUBSET rows[T] :
         Relational!CascadeOf([tx.deletions EXCEPT ![T] = @ \cup some], D)
  <2>1. Top.ids \in SUBSET rows[T]
    BY <1>0, <1>10
  <2> QED
    BY <1>16, <2>1 DEF base
<1> QED
  BY <1>0, <1>1, <1>11, <1>17, <1>18, Zenon
     DEF Relational!Delete, rows, ref, relinked, RelinkedTo, D, T

(***************************************************************************)
(* Commits.                                                                *)
(***************************************************************************)
\* The key that the abstract store gives a live row is the one that the patched
\* columns have.
LEMMA NewRefIs ==
  ASSUME Committing, NEW f \in ForeignKeys, NEW x \in LiveIds(Source[f])
  PROVE  Relational!NewRef(f, x) = ColumnsAfter(f).fk[x]
<1> DEFINE S == Source[f]
           u == Len(tx.updates[f])
           a == Len(tx.additions[S])
           add == tx.additions[S]
           upd == tx.updates[f]
           st == Staged(f)
           items == Arriving(f)
           key == ColumnsAfter(f).fk[x]
           len == db.len[S]
           ref == [g \in ForeignKeys |-> db.col[g].fk]
           relinked == [g \in ForeignKeys |-> RelinkedTo(g)]
<1>1. S \in Tables /\ TypeOK /\ UpdatesDiffer
  BY SchemaAssumption DEF Committing
<1>2. /\ Relational!AddedIds(S) = StagedIds(S)
      /\ \A i : Relational!AddedRow(S, i) = add[i - len + 1]
  BY <1>1, IdsInStore
<1>3. ref[f] = db.col[f].fk /\ relinked[f] = RelinkedTo(f) /\ DOMAIN RelinkedTo(f) = Relinked(f)
  BY RelinkedInStore
<1> HIDE DEF ref, relinked
<1>4. Relational!NewRef(f, x) =
        IF x \in Relational!AddedIds(S) THEN Relational!AddedRow(S, x)[f]
        ELSE IF x \in DOMAIN relinked[f] THEN relinked[f][x]
        ELSE ref[f][x]
  BY Zenon DEF Relational!NewRef, ref, relinked, RelinkedTo
<1>5. Relational!NewRef(f, x) =
        IF x \in StagedIds(S) THEN add[x - len + 1][f]
        ELSE IF x \in Relinked(f) THEN RelinkedTo(f)[x]
        ELSE db.col[f].fk[x]
  BY <1>2, <1>3, <1>4
<1>6. /\ DOMAIN st = 1 .. a /\ a \in Nat
      /\ \A k \in 1 .. a : /\ st[k].row = len + (k - 1)
                           /\ st[k].target = add[k][f]
      /\ DOMAIN upd = 1 .. u /\ u \in Nat
      /\ Follow(upd, u, st, a, items)
      /\ DOMAIN items = 1 .. u + a
  BY <1>1, StagedItemsAre
<1>7. /\ \A y \in RowsOf(S) \ Departing(f) : ColumnsAfter(f).fk[y] = db.col[f].fk[y]
      /\ \A i \in DOMAIN items : ColumnsAfter(f).fk[items[i].row] = items[i].target
  BY ColumnsAfterPatched DEF PatchedColumns
<1>8. /\ LiveIds(S) = (RowsOf(S) \ Departing(f)) \cup Relinked(f) \cup StagedIds(S)
      /\ Relinked(f) \subseteq RowsOf(S) /\ RowsOf(S) \cap StagedIds(S) = {}
  BY RowsOfCommit
<1>9. CASE x \in StagedIds(S)
  <2> DEFINE i == x - len + 1
  <2>1. len \in Nat
    BY <1>1, PlanApplies
  <2>2. x \in len .. len + a - 1
    BY <1>9 DEF StagedIds
  <2>3. i \in 1 .. a /\ len + (i - 1) = x
    <3> HIDE DEF len, a
    <3> QED
      BY <1>6, <2>1, <2>2
  <2> HIDE DEF i, u, a, items, upd, st, len
  <2>4. st[i].row = x /\ st[i].target = add[i][f]
    BY <1>6, <2>3
  <2>5. u + i \in 1 .. u + a /\ items[u + i] = st[i]
    BY <1>6, <2>3 DEF Follow
  <2>6. key = add[i][f]
    BY <1>6, <1>7, <2>4, <2>5
  <2> QED
    BY <1>5, <1>9, <2>6 DEF i
<1>10. CASE x \in Relinked(f)
  <2>1. PICK k \in DOMAIN upd : upd[k].row = x
    BY <1>10 DEF Relinked
  <2>2. RelinkedTo(f)[x] = upd[k].target
    <3>1. \A i, j \in DOMAIN upd : upd[i].row = upd[j].row => i = j
      BY <1>1 DEF UpdatesDiffer
    <3>2. KeysSetBy(upd)[upd[k].row] = upd[k].target
      BY <3>1, KeySetBy
    <3> QED
      BY <2>1, <3>2, RelinkedInStore
  <2> HIDE DEF u, a, items, upd, st, len
  <2>3. k \in 1 .. u + a /\ items[k] = upd[k]
    BY <1>6 DEF Follow
  <2>4. key = upd[k].target
    BY <1>6, <1>7, <2>1, <2>3
  <2>5. x \notin StagedIds(S)
    BY <1>8, <1>10
  <2> QED
    BY <1>5, <1>10, <2>2, <2>4, <2>5
<1>11. CASE x \notin StagedIds(S) /\ x \notin Relinked(f)
  <2>1. x \in RowsOf(S) \ Departing(f)
    BY <1>8, <1>11
  <2> QED
    BY <1>5, <1>7, <1>11, <2>1
<1> QED
  BY <1>9, <1>10, <1>11

\* As many rows as live ids.
LEMMA NewRowsAre ==
  ASSUME TypeOK, NEW t \in Tables
  PROVE  NewRows(t) = 0 .. Cardinality(LiveIds(t)) - 1
<1> DEFINE n == OracleOf(t).newSize
           L == LiveIds(t)
           N == NewRows(t)
           r == NewIndex(t)
<1>1. Numbers(r, L, N) /\ IsFiniteSet(L)
  BY TableRenumbered
<1>2. N = 0 .. n - 1
  BY DEF NewRows
<1>3. n \in Nat
  BY PlanApplies
<1> HIDE DEF n, L, N, r
<1>4. Cardinality(N) = Cardinality(L)
  BY <1>1, SameCount DEF Numbers
<1>5. Cardinality(0 .. n - 1) = n
  BY <1>3, FS_Interval
<1> QED
  BY <1>2, <1>4, <1>5 DEF L, N

\* Trackers know where every id is.
LEMMA TrackersFilled ==
  ASSUME TypeOK, FillTrackers, NEW t \in Tables
  PROVE  /\ DOMAIN trackers'[t] = RowsOf(t) \cup StagedIds(t)
         /\ \A i \in LiveIds(t) : trackers'[t][i] = NewIndex(t)[i]
         /\ \A i \in tx.deletions[t] : trackers'[t][i] = Missing
         /\ {trackers'[t][i] : i \in LiveIds(t)} = NewRows(t)
<1>1. trackers'[t] = [i \in RowsOf(t) \cup StagedIds(t) |-> Resolve(OracleOf(t), i)]
  BY DEF FillTrackers
<1>2. /\ LiveIds(t) = (RowsOf(t) \ tx.deletions[t]) \cup StagedIds(t)
      /\ tx.deletions[t] \subseteq RowsOf(t)
      /\ \A x \in tx.deletions[t] : Resolve(OracleOf(t), x) = Missing
      /\ Numbers(NewIndex(t), LiveIds(t), NewRows(t))
  BY TableRenumbered
<1>3. \A i \in LiveIds(t) : trackers'[t][i] = NewIndex(t)[i]
  BY <1>1, <1>2 DEF NewIndex
<1>4. {trackers'[t][i] : i \in LiveIds(t)} = NewRows(t)
  BY <1>2, <1>3 DEF Numbers
<1> QED
  BY <1>1, <1>2, <1>3, <1>4

\* The keys that a commit leaves.
LEMMA CommittedKeys ==
  ASSUME Committing, ListsLinked, Commit, NEW f \in ForeignKeys
  PROVE  /\ DOMAIN db'.col[f].fk = NewRows(Source[f])
         /\ \A x \in LiveIds(Source[f]) :
              /\ db'.col[f].fk[NewIndex(Source[f])[x]]
                   = To(NewIndex(Target[f]), ColumnsAfter(f).fk[x])
              /\ ColumnsAfter(f).fk[x] \in LiveIds(Target[f]) \cup {Missing}
<1>1. PICK ord : Linked(RowsOf(Source[f]), RowsOf(Target[f]), db.col[f], ord)
  BY DEF ListsLinked
<1>2. db'.col[f] = FixMovedTargets(CommitColumn(f), MovedTo(Target[f]))
  BY DEF Commit, Stored
<1>3. db'.col[f].fk = ResolvedColumns(f).fk
  <2>1. FixMovedTargets(CommitColumn(f), MovedTo(Target[f]))
          = [fk   |-> ResolvedColumns(f).fk,
             nxt  |-> ResolvedColumns(f).nxt,
             prv  |-> ResolvedColumns(f).prv,
             head |-> ResolvedColumns(f).head,
             cnt  |-> CommitColumn(f).cnt]
    BY <1>1, CommitColumnsAre
  <2> QED
    BY <1>2, <2>1
<1>4. RenumberedColumns(LiveIds(Source[f]), LiveIds(Target[f]), ColumnsAfter(f),
                        NewRows(Source[f]), NewRows(Target[f]), ResolvedColumns(f),
                        NewIndex(Source[f]), NewIndex(Target[f]))
  BY <1>1, ColumnsRenumbered
<1>5. PICK new : Linked(LiveIds(Source[f]), LiveIds(Target[f]), ColumnsAfter(f), new)
  BY <1>1, PatchedListsLinked
<1>6. \A x \in LiveIds(Source[f]) : ColumnsAfter(f).fk[x] \in LiveIds(Target[f]) \cup {Missing}
  BY <1>5 DEF Linked, Columns
<1>7. /\ DOMAIN ResolvedColumns(f).fk = NewRows(Source[f])
      /\ \A x \in LiveIds(Source[f]) :
           ResolvedColumns(f).fk[NewIndex(Source[f])[x]]
             = To(NewIndex(Target[f]), ColumnsAfter(f).fk[x])
  BY <1>4 DEF RenumberedColumns
<1> QED
  BY <1>3, <1>6, <1>7

\* Ending a block that commits.
LEMMA CommitRefined ==
  ASSUME Committing, ListsLinked, Commit
  PROVE  Relational!Commit
<1>0. TypeOK /\ tx.open /\ tx' = NoTx /\ FillTrackers
  BY DEF Committing, Commit, Leaving, Close
<1>1. \A t \in Tables : RowsOf(t)' = NewRows(t) /\ NewRows(t) = 0 .. Cardinality(LiveIds(t)) - 1
  <2>1. \A t \in Tables : RowsOf(t)' = NewRows(t)
    BY DEF Commit, Stored, RowsOf, NewRows
  <2> QED
    BY <1>0, <2>1, NewRowsAre
<1>2. \A t \in Tables : /\ Relational!Ids(t) = RowsOf(t) \cup StagedIds(t)
                        /\ Relational!LiveIds(t) = LiveIds(t)
  BY <1>0, IdsInStore
<1>3. \A f \in ForeignKeys : Source[f] \in Tables /\ Target[f] \in Tables
  BY SchemaAssumption
<1>4. \A f \in ForeignKeys : \A i \in LiveIds(Source[f]) :
        /\ Relational!NewRef(f, i) = ColumnsAfter(f).fk[i]
        /\ Relational!NewRef(f, i) \in LiveIds(Target[f]) \cup {Missing}
  BY NewRefIs, CommittedKeys
<1>5. \A t \in Tables : Missing \notin LiveIds(t)
  BY <1>0, TableRenumbered
<1> DEFINE rows == [t \in Tables |-> RowsOf(t)]
           ref == [f \in ForeignKeys |-> db.col[f].fk]
<1>6. /\ \A t \in Tables : rows'[t] = NewRows(t)
      /\ \A f \in ForeignKeys : ref'[f] = db'.col[f].fk
  BY <1>1
<1>7. rows' = [t \in Tables |-> 0 .. Relational!Cardinality(Relational!LiveIds(t)) - 1]
  <2>1. \A t \in Tables :
          RowsOf(t)' = 0 .. Relational!Cardinality(Relational!LiveIds(t)) - 1
    BY <1>1, <1>2, CardinalityInStore
  <2> QED
    BY <2>1
<1>8. \A t \in Tables : Relational!Renumbers(t)
  <2> SUFFICES ASSUME NEW t \in Tables PROVE Relational!Renumbers(t)
    OBVIOUS
  <2>1. /\ DOMAIN trackers'[t] = Relational!Ids(t)
        /\ \A i \in tx.deletions[t] : trackers'[t][i] = Missing
        /\ {trackers'[t][i] : i \in Relational!LiveIds(t)}
             = 0 .. Relational!Cardinality(Relational!LiveIds(t)) - 1
    BY <1>0, <1>1, <1>2, TrackersFilled, CardinalityInStore
  <2> QED
    BY <2>1, Zenon DEF Relational!Renumbers
<1>9. ASSUME NEW f \in ForeignKeys
      PROVE  /\ DOMAIN ref'[f] = rows'[Source[f]]
             /\ \A i \in Relational!LiveIds(Source[f]) :
                  ref'[f][trackers'[Source[f]][i]] =
                    IF Relational!NewRef(f, i) = Missing THEN Missing
                    ELSE trackers'[Target[f]][Relational!NewRef(f, i)]
  <2>1. DOMAIN ref'[f] = rows'[Source[f]]
    BY <1>3, <1>6, CommittedKeys
  <2>2. ASSUME NEW i \in LiveIds(Source[f])
        PROVE  ref'[f][trackers'[Source[f]][i]] =
                 IF Relational!NewRef(f, i) = Missing THEN Missing
                 ELSE trackers'[Target[f]][Relational!NewRef(f, i)]
    <3>1. trackers'[Source[f]][i] = NewIndex(Source[f])[i]
      BY <1>0, <1>3, TrackersFilled
    <3>2. ref'[f][NewIndex(Source[f])[i]] = To(NewIndex(Target[f]), Relational!NewRef(f, i))
      BY <1>4, <1>6, CommittedKeys
    <3>3. \A x \in LiveIds(Target[f]) : trackers'[Target[f]][x] = NewIndex(Target[f])[x]
      BY <1>0, <1>3, TrackersFilled
    <3>4. Relational!NewRef(f, i) \in LiveIds(Target[f]) \cup {Missing}
      BY <1>4
    <3> QED
      BY <3>1, <3>2, <3>3, <3>4 DEF To
  <2> QED
    BY <1>2, <1>3, <2>1, <2>2
<1>10. \A f \in ForeignKeys : \A i \in Relational!LiveIds(Source[f]) :
         Relational!NewRef(f, i) \in Relational!LiveIds(Target[f]) \cup {Missing}
  BY <1>2, <1>3, <1>4
<1>11. Relational!NothingStaged(tx'.open, tx'.additions, tx'.deletions,
                                [f \in ForeignKeys |-> RelinkedTo(f)'])
  <2>1. \A f \in ForeignKeys : Relinked(f)' = {}
    BY <1>0 DEF NoTx, Relinked
  <2> QED
    BY <1>0, <2>1 DEF NoTx, Relational!NothingStaged, RelinkedTo, Relational!NoIds
<1> HIDE DEF rows, ref
<1> QED
  BY <1>0, <1>7, <1>8, <1>9, <1>10, <1>11, Zenon DEF Relational!Commit, rows, ref, RelinkedTo

(***************************************************************************)
(* The theorem.                                                            *)
(***************************************************************************)
\* A step that begins or continues a delete call changes nothing the store knows.
LEMMA CallUnseen ==
  ASSUME TypeOK,
         \/ \E t \in Tables : \E ids : DelEntries(t, ids)
         \/ ExpandSubscriber
         \/ ReturnInner
  PROVE  UNCHANGED Relational!storeVars
<1>0. tx \in StagedEdits
  BY DEF TypeOK, EditsTyped
<1>1. db' = db /\ trackers' = trackers /\ (tx' = tx \/ tx' = [tx EXCEPT !.calls = @ + 1])
  BY DEF DelEntries, ExpandSubscriber, ReturnInner
<1>2. /\ tx'.open = tx.open /\ tx'.additions = tx.additions
      /\ tx'.deletions = tx.deletions /\ tx'.updates = tx.updates
  BY <1>0, <1>1 DEF StagedEdits
<1> QED
  BY <1>1, <1>2, StoreUntouched

\* The invariant of the refinement.
Refinable ==
  /\ Kept
  /\ ~db.torn /\ NothingToNull
  /\ ClosedIsEmpty
  /\ CallCascades

\* Every step of a transaction is a step of the store or none.
LEMMA StepRefined ==
  ASSUME SubscribersMatch, NullsOnTop, Rules = AllRules, CountsFit,
         TypeOK, ClaimsKept, Refinable, [Next]_vars
  PROVE  [Relational!Next]_(Relational!storeVars)
<1>0. /\ Followed /\ StagedTargetsExist /\ UpdatesDiffer /\ ListsLinked
      /\ DeletionsClosed
  BY DEF Refinable, Kept, Followed
<1>1. CASE Begin
  BY <1>1, BeginRefined DEF Refinable, Relational!Next
<1>2. CASE \E t \in Tables : \E n \in 1 .. MaxStaged :
             \E rows \in [1 .. n -> RowsToAdd(t)] : AddEntries(t, rows)
  BY <1>2, AddRefined DEF Relational!Next
<1>3. CASE \E f \in ForeignKeys :
             \E rows \in (SUBSET (RowsOf(Source[f]) \cup StagedIds(Source[f]))) \ {{}} :
               \E target \in KeysTo(Target[f]) : UpdateEntries(f, rows, target)
  <2>1. PICK f \in ForeignKeys :
          \E rows \in SUBSET (RowsOf(Source[f]) \cup StagedIds(Source[f])) :
            \E target \in KeysTo(Target[f]) : UpdateEntries(f, rows, target)
    BY <1>3
  <2>2. PICK rows \in SUBSET (RowsOf(Source[f]) \cup StagedIds(Source[f])) :
          \E target \in KeysTo(Target[f]) : UpdateEntries(f, rows, target)
    BY <2>1
  <2>3. PICK target \in KeysTo(Target[f]) : UpdateEntries(f, rows, target)
    BY <2>2
  <2>4. rows \subseteq Nat
    <3>1. db.len[Source[f]] \in Nat
      BY SchemaAssumption, RowsAreIndices
    <3> QED
      BY <3>1 DEF RowsOf, StagedIds
  <2> QED
    BY <1>0, <2>3, <2>4, UpdateRefined DEF Relational!Next
<1>4. CASE \/ \E t \in Tables :
                \E ids \in (SUBSET (RowsOf(t) \cup StagedIds(t))) \ {{}} : DelEntries(t, ids)
           \/ ExpandSubscriber
           \/ ReturnInner
  BY <1>4, CallUnseen
<1>5. CASE ReturnOuter
  <2>1. Top.table \in Tables /\ NothingToNull
    BY <1>5, ReturnOuterStages DEF Refinable
  <2> QED
    BY <1>0, <1>5, <2>1, ReturnOuterRefined DEF Refinable, Relational!Next
<1>6. CASE Commit
  BY <1>0, <1>6, LeavingCommits, CommitRefined DEF Relational!Next
<1>7. CASE CommitRefused \/ Rollback
  <2>1. tx.open /\ db' = db /\ trackers' = trackers /\ tx' = NoTx
    BY <1>7 DEF CommitRefused, Rollback, Leaving, Close
  <2> QED
    BY <2>1, DropRefined DEF Relational!Next
<1>8. ~CommitTorn
  BY DEF CommitTorn, ToNullify, Refinable, NothingToNull
<1>9. CASE UNCHANGED vars
  BY <1>9, StoreUntouched DEF vars
<1> QED
  BY <1>1, <1>2, <1>3, <1>4, <1>5, <1>6, <1>7, <1>8, <1>9 DEF Next

\* It holds all along.
LEMMA AlwaysRefinable ==
  ASSUME SubscribersMatch, NullsOnTop, Rules = AllRules, CountsFit, NoKeyNulls
  PROVE  Spec => []Refinable
<1> DEFINE Rest == ~db.torn /\ NothingToNull /\ ClosedIsEmpty /\ CallCascades
<1>1. Init => Rest
  <2> SUFFICES ASSUME Init PROVE Rest
    OBVIOUS
  <2>1. /\ tx = NoTx /\ call = NoCall /\ ~db.torn
        /\ call.stack = <<>> /\ Len(<<>>) = 0 /\ \A t \in Tables : call.expanded[t] = {}
    BY EmptySeq DEF Init, NoCall
  <2>2. NothingToNull /\ ClosedIsEmpty
    BY <2>1 DEF NothingToNull, NullsNothing, ClosedIsEmpty, NoTx
  <2>3. \A k \in 1 .. Len(call.stack) : FALSE
    BY <2>1
  <2> QED
    BY <2>1, <2>2, <2>3 DEF CallCascades
<1>2. TypeOK /\ Kept /\ Rest /\ [Next]_vars => Rest'
  <2> SUFFICES ASSUME TypeOK, Kept, Rest, [Next]_vars PROVE Rest'
    OBVIOUS
  <2>1. ListsMatchKeys /\ CountsMatchLists /\ Followed
    BY LinkedListsMatch, ExactCountsMatch DEF Kept
  <2> QED
    BY <2>1, StepNullsNothing, StepClosed, StepCascades
<1>3. Spec => []Kept
  BY AllIsKept
<1>4. Kept /\ Rest => Refinable
  BY DEF Refinable
<1> HIDE DEF Rest
<1> QED
  BY <1>1, <1>2, <1>3, <1>4, TypeCorrect, PTL DEF Spec

\* Transactions on packed tables, with their adjacency lists, counts, plans and
\* oracles, have the effect that they have on plain tables with references: rows
\* survive, references follow the rows they denote through swap-and-pop, deletions
\* cascade as far as they must and no further or are refused, and trackers name the
\* new indices.  So it is for every schema without nulling keys and every program
\* that keeps the rules for callers.
THEOREM StoreIsImplemented ==
  SubscribersMatch /\ Rules = AllRules /\ CountsFit /\ NoKeyNulls =>
    (Spec => ImplementsRelationalStore)
<1> SUFFICES ASSUME SubscribersMatch, Rules = AllRules, CountsFit, NoKeyNulls
             PROVE  Spec => ImplementsRelationalStore
  OBVIOUS
<1>1. NullsOnTop
  <2> SUFFICES ASSUME NEW g \in ForeignKeys, NEW j \in 1 .. Len(Subscribers[Source[g]])
               PROVE  OnDelete[Subscribers[Source[g]][j]] # "SET_NULL"
    BY DEF NullsOnTop
  <2>1. Subscribers[Source[g]] \in Seq(ForeignKeys)
    BY SchemaAssumption
  <2>2. Subscribers[Source[g]][j] \in ForeignKeys
    BY <2>1, ElementOfSeq
  <2> QED
    BY <2>2 DEF NoKeyNulls
<1>2. Init => Relational!Init
  BY InitRefined
<1>3. TypeOK /\ ClaimsKept /\ Refinable /\ [Next]_vars
        => [Relational!Next]_(Relational!storeVars)
  BY <1>1, StepRefined
<1>4. Spec => []Refinable
  BY <1>1, AlwaysRefinable
<1> QED
  BY <1>2, <1>3, <1>4, TypeCorrect, ClaimsAreKept, PTL
     DEF Spec, ImplementsRelationalStore, Relational!Spec
=============================================================================
