---------------------- MODULE TransactionContext_proofs ----------------------
(***************************************************************************)
(* Invariants of TransactionContext, for every schema, every bound and     *)
(* every rule the callers keep: the type invariant, which is inductive as  *)
(* it stands, and on top of it that staged keys stay alive and that the    *)
(* oracles renumber what is staged.                                        *)
(*                                                                         *)
(* What a delete call stages: no staged row references a row that is       *)
(* marked for deletion, since every key of a staged row is claimed, calls  *)
(* that add rows claim nothing that is deleted, and calls that delete rows *)
(* enter no level with a claimed row (ClaimsKept).  The last fact is about *)
(* a single call only because no row is added while a delete call expands. *)
(* And no row is forgotten that references one marked for deletion: at     *)
(* any time of a delete call, all rows that reference an expanded row are  *)
(* deleted, relinked, nulled or in some level of the call (Followed).      *)
(***************************************************************************)
EXTENDS TransactionProperties, AdjacencyLists_proofs

(***************************************************************************)
(* Helpers.                                                                *)
(***************************************************************************)
\* The walk over a list yields rows of its column (get_referencing_indices).
LEMMA ReferencingRows ==
  ASSUME NEW f \in ForeignKeys, NEW i, ColumnsHaveTheRows(f)
  PROVE  Referencing(f, i) \subseteq RowsOf(Source[f])
BY DEF Referencing, Reached, ColumnsHaveTheRows

\* What a turn of the expansion finds are rows of the table with the key.
LEMMA NewlyHitRows ==
  ASSUME NEW f \in ForeignKeys, NEW frame, ColumnsHaveTheRows(f)
  PROVE  NewlyHit(frame, f) \subseteq RowsOf(Source[f])
BY ReferencingRows DEF NewlyHit

\* Rows are natural numbers below the sentinel.
LEMMA RowsAreIndices ==
  ASSUME TypeOK, NEW t \in Tables
  PROVE  /\ RowsOf(t) \subseteq 0 .. Missing /\ RowsOf(t) \subseteq Nat
         /\ StagedIds(t) \subseteq 0 .. Missing /\ StagedIds(t) \subseteq Nat
         /\ IsFiniteSet(RowsOf(t))
         /\ db.len[t] \in Nat /\ Len(tx.additions[t]) \in Nat
         /\ db.len[t] + Len(tx.additions[t]) <= Missing
<1>1. /\ db.len[t] \in Nat /\ db.len[t] <= MaxRows[t]
      /\ Len(tx.additions[t]) \in Nat /\ Len(tx.additions[t]) <= MaxStaged
  <2>1. tx.additions[t] \in Seq(StagedRow(t))
    BY DEF TypeOK, EditsTyped
  <2>2. Len(tx.additions[t]) \in Nat
    BY <2>1, LenProperties
  <2> QED
    BY <2>2 DEF TypeOK, EditsTyped, DatabaseTyped
<1>2. /\ MaxRows[t] \in Nat /\ MaxStaged \in Nat /\ MaxRows[t] + MaxStaged <= Missing
      /\ Missing \in Nat
  BY SizeAssumption, MissingIsNat
<1>3. IsFiniteSet(RowsOf(t))
  <2>1. 0 \in Int /\ db.len[t] - 1 \in Int
    BY <1>1
  <2> QED
    BY <2>1, FS_Interval DEF RowsOf
<1>4. db.len[t] + Len(tx.additions[t]) <= Missing
  BY <1>1, <1>2
<1>5. RowsOf(t) \subseteq 0 .. Missing /\ RowsOf(t) \subseteq Nat
  BY <1>1, <1>2, <1>4 DEF RowsOf
<1>6. StagedIds(t) \subseteq 0 .. Missing /\ StagedIds(t) \subseteq Nat
  BY <1>1, <1>2, <1>4, SMTT(30) DEF StagedIds
<1> QED
  BY <1>1, <1>3, <1>4, <1>5, <1>6

\* The staged edits of a table fit the plan's assumptions.
LEMMA PlanApplies ==
  ASSUME TypeOK, NEW t \in Tables
  PROVE  /\ db.len[t] \in Nat /\ Len(tx.additions[t]) \in Nat
         /\ tx.deletions[t] \in SUBSET (0 .. db.len[t] - 1)
         /\ OracleOf(t).newSize \in Nat
         /\ OracleOf(t).newSize =
              db.len[t] + Len(tx.additions[t]) - Cardinality(tx.deletions[t])
         /\ Cardinality(tx.deletions[t]) \in Nat
<1>1. /\ db.len[t] \in Nat /\ Len(tx.additions[t]) \in Nat
      /\ tx.deletions[t] \in SUBSET (0 .. db.len[t] - 1)
  BY RowsAreIndices DEF TypeOK, EditsTyped, RowsOf
<1>2. OracleOf(t).newSize = PlanSize(db.len[t], Len(tx.additions[t]), tx.deletions[t])
  BY DEF OracleOf, Oracle
<1>3. /\ Cardinality(tx.deletions[t]) \in 0 .. db.len[t]
      /\ PlanSize(db.len[t], Len(tx.additions[t]), tx.deletions[t]) =
           db.len[t] + Len(tx.additions[t]) - Cardinality(tx.deletions[t])
      /\ PlanSize(db.len[t], Len(tx.additions[t]), tx.deletions[t]) \in Nat
  BY <1>1, PlanSizes
<1> QED
  BY <1>1, <1>2, <1>3

(***************************************************************************)
(* The oracles renumber what is staged.                                    *)
(***************************************************************************)
\* Whatever is staged, the oracle a commit would build now renumbers the rows
\* that stay or are added (TransactionContext._create_oracle).
LEMMA TypedRowsRenumbered == TypeOK => StagedRowsRenumbered
<1> SUFFICES ASSUME TypeOK, NEW t \in Tables
             PROVE  Renumbers(db.len[t], Len(tx.additions[t]), tx.deletions[t])
  BY DEF StagedRowsRenumbered
<1>1. db.len[t] + Len(tx.additions[t]) <= Missing
  BY RowsAreIndices
<1> QED
  BY <1>1, PlanApplies, OracleRenumbers

(***************************************************************************)
(* The type invariant.                                                     *)
(***************************************************************************)
\* StagedEdits, field by field.
LEMMA EditFields ==
  ASSUME NEW e
  PROVE  e \in StagedEdits <=>
           /\ e = [open |-> e.open, calls |-> e.calls, staged |-> e.staged,
                   additions |-> e.additions, deletions |-> e.deletions,
                   unlinks |-> e.unlinks, claims |-> e.claims,
                   updates |-> e.updates]
           /\ e.open \in BOOLEAN /\ e.calls \in Nat /\ e.staged \in SUBSET Tables
           /\ e.additions \in StagedAdditions /\ e.deletions \in RowSets
           /\ e.unlinks \in Unlinks /\ e.claims \in RowSets
           /\ e.updates \in StagedUpdates
BY DEF StagedEdits

\* No sequence has anything in it.
LEMMA EmptySeqs ==
  ASSUME NEW D, NEW S
  PROVE  [x \in D |-> <<>>] \in [D -> Seq(S)]
BY EmptySeq

\* A transaction nothing is staged in.
LEMMA NothingStaged ==
  ASSUME NEW e, e = NoTx \/ e = [NoTx EXCEPT !.open = TRUE]
  PROVE  /\ e \in StagedEdits
         /\ \A t \in Tables : e.additions[t] = <<>> /\ e.deletions[t] = {}
         /\ \A f \in ForeignKeys : e.unlinks[f] = {} /\ e.updates[f] = <<>>
<1>1. /\ e.open \in BOOLEAN /\ e.calls = 0 /\ e.staged = {}
      /\ e.additions = [t \in Tables |-> <<>>]
      /\ e.deletions = [t \in Tables |-> {}]
      /\ e.unlinks = [f \in ForeignKeys |-> {}]
      /\ e.claims = [t \in Tables |-> {}]
      /\ e.updates = [f \in ForeignKeys |-> <<>>]
      /\ e = [open |-> e.open, calls |-> e.calls, staged |-> e.staged,
              additions |-> e.additions, deletions |-> e.deletions,
              unlinks |-> e.unlinks, claims |-> e.claims,
              updates |-> e.updates]
  <2>1. CASE e = NoTx
    BY <2>1 DEF NoTx
  <2>2. CASE e = [NoTx EXCEPT !.open = TRUE]
    BY <2>2 DEF NoTx
  <2> QED
    BY <2>1, <2>2
<1>2. [t \in Tables |-> <<>>] \in StagedAdditions
  BY EmptySeqs DEF StagedAdditions
<1>3. [f \in ForeignKeys |-> <<>>] \in StagedUpdates
  BY EmptySeqs DEF StagedUpdates
<1>4. /\ [t \in Tables |-> {}] \in RowSets
      /\ [f \in ForeignKeys |-> {}] \in Unlinks
  BY DEF RowSets, Unlinks
<1>5. e.staged \in SUBSET Tables /\ e.calls \in Nat /\ e.open \in BOOLEAN
  BY <1>1
<1>6. /\ e.additions \in StagedAdditions /\ e.updates \in StagedUpdates
      /\ e.deletions \in RowSets /\ e.claims \in RowSets /\ e.unlinks \in Unlinks
  BY <1>1, <1>2, <1>3, <1>4
<1>7. e \in StagedEdits
  BY ONLY <1>1, <1>5, <1>6, EditFields
<1> QED
  BY <1>1, <1>7

\* Nothing staged is well typed in any database that is.
LEMMA NothingStagedTyped ==
  ASSUME DatabaseTyped', tx' = NoTx \/ tx' = [NoTx EXCEPT !.open = TRUE]
  PROVE  EditsTyped'
<1>1. /\ tx' \in StagedEdits
      /\ \A t \in Tables : tx'.additions[t] = <<>> /\ tx'.deletions[t] = {}
      /\ \A f \in ForeignKeys : tx'.unlinks[f] = {} /\ tx'.updates[f] = <<>>
  BY NothingStaged
<1>2. ASSUME NEW t \in Tables
      PROVE  /\ tx'.additions[t] \in Seq(StagedRow(t))
             /\ Len(tx'.additions[t]) <= MaxStaged
             /\ tx'.deletions[t] \subseteq RowsOf(t)'
             /\ db'.len[t] + Len(tx'.additions[t])
                  <= MaxRows[t] + Cardinality(tx'.deletions[t])
  <2>1. tx'.additions[t] = <<>> /\ tx'.deletions[t] = {}
    BY <1>1
  <2>2. <<>> \in Seq(StagedRow(t)) /\ Len(<<>>) = 0 /\ Cardinality({}) = 0
    BY EmptySeq, FS_EmptySet
  <2>3. db'.len[t] \in Nat /\ db'.len[t] <= MaxRows[t] /\ MaxRows[t] \in Nat
        /\ MaxStaged \in Nat
    BY SizeAssumption DEF DatabaseTyped
  <2>4. 0 <= MaxStaged /\ db'.len[t] + 0 <= MaxRows[t] + 0
    BY <2>3
  <2> QED
    BY <2>1, <2>2, <2>4
<1>3. ASSUME NEW f \in ForeignKeys
      PROVE  tx'.unlinks[f] = {} /\ Relinked(f)' = {}
  <2>1. tx'.updates[f] = <<>> /\ tx'.unlinks[f] = {}
    BY <1>1
  <2>2. DOMAIN tx'.updates[f] = {}
    BY <2>1
  <2> QED
    BY <2>1, <2>2 DEF Relinked
<1> QED
  BY <1>1, <1>2, <1>3 DEF EditsTyped

\* The database starts empty, with no block and no call.
LEMMA InitTyped == Init => TypeOK
<1> SUFFICES ASSUME Init PROVE TypeOK
  OBVIOUS
<1>1. \A t \in Tables : db.len[t] = 0 /\ RowsOf(t) = {}
  BY DEF Init, RowsOf
<1>2. DatabaseTyped
  <2>1. db.len \in [Tables -> Nat]
    BY DEF Init
  <2>2. \A t \in Tables : db.len[t] <= MaxRows[t]
    BY <1>1, SizeAssumption
  <2>3. \A f \in ForeignKeys : Source[f] \in Tables /\ Target[f] \in Tables
    BY SchemaAssumption
  <2>4. \A f \in ForeignKeys : ColumnsHaveTheRows(f)
    BY <1>1, <2>3 DEF Init, ColumnsHaveTheRows, NoRows
  <2> QED
    BY <2>1, <2>2, <2>4 DEF DatabaseTyped
<1>3. EditsTyped
  <2>1. /\ tx \in StagedEdits
        /\ \A t \in Tables : tx.additions[t] = <<>> /\ tx.deletions[t] = {}
        /\ \A f \in ForeignKeys : tx.unlinks[f] = {} /\ tx.updates[f] = <<>>
    BY NothingStaged DEF Init
  <2>2. ASSUME NEW t \in Tables
        PROVE  /\ tx.additions[t] \in Seq(StagedRow(t))
               /\ Len(tx.additions[t]) <= MaxStaged
               /\ tx.deletions[t] \subseteq RowsOf(t)
               /\ db.len[t] + Len(tx.additions[t])
                    <= MaxRows[t] + Cardinality(tx.deletions[t])
    <3>1. tx.additions[t] = <<>> /\ tx.deletions[t] = {} /\ db.len[t] = 0
      BY <1>1, <2>1
    <3>2. <<>> \in Seq(StagedRow(t)) /\ Len(<<>>) = 0 /\ Cardinality({}) = 0
      BY EmptySeq, FS_EmptySet
    <3> QED
      BY <3>1, <3>2, SizeAssumption
  <2>3. ASSUME NEW f \in ForeignKeys
        PROVE  tx.unlinks[f] = {} /\ Relinked(f) = {}
    BY <2>1 DEF Relinked
  <2> QED
    BY <2>1, <2>2, <2>3 DEF EditsTyped
<1>4. CallTyped
  <2>1. call = NoCall
    BY DEF Init
  <2>2. <<>> \in Seq(Frames)
    BY EmptySeq
  <2> QED
    BY <2>1, <2>2 DEF CallTyped, NoCall, RowSets
<1> QED
  BY <1>2, <1>3, <1>4 DEF TypeOK

\* A call that stages nothing is counted.
LEMMA CountedTyped ==
  ASSUME TypeOK, db' = db, tx' = [tx EXCEPT !.calls = @ + 1]
  PROVE  EditsTyped'
<1>1. EditsTyped /\ tx \in StagedEdits
  BY DEF TypeOK, EditsTyped
<1>2. tx' \in StagedEdits
  BY <1>1 DEF StagedEdits
<1>3. /\ tx'.additions = tx.additions /\ tx'.deletions = tx.deletions
      /\ tx'.unlinks = tx.unlinks /\ tx'.updates = tx.updates
  BY <1>1 DEF StagedEdits
<1> QED
  BY <1>1, <1>2, <1>3 DEF EditsTyped, RowsOf, Relinked

\* While the database stays, the staged edits stay well typed if what is added,
\* deleted, nulled and relinked does.
LEMMA EditsKept ==
  ASSUME TypeOK, db' = db, tx' \in StagedEdits,
         \A t \in Tables :
           \/ tx'.additions[t] = tx.additions[t] /\ tx'.deletions[t] = tx.deletions[t]
           \/ /\ tx'.additions[t] \in Seq(StagedRow(t))
              /\ Len(tx'.additions[t]) <= MaxStaged
              /\ tx'.deletions[t] \subseteq RowsOf(t)
              /\ db.len[t] + Len(tx'.additions[t])
                   <= MaxRows[t] + Cardinality(tx'.deletions[t]),
         \A f \in ForeignKeys : tx'.unlinks[f] \subseteq RowsOf(Source[f]),
         \A f \in ForeignKeys : Relinked(f)' \subseteq RowsOf(Source[f])
  PROVE  DatabaseTyped' /\ EditsTyped'
<1>1. DatabaseTyped'
  BY DEF TypeOK, DatabaseTyped, ColumnsHaveTheRows, RowsOf
<1>2. EditsTyped
  BY DEF TypeOK
<1>3. \A t \in Tables : RowsOf(t)' = RowsOf(t)
  BY DEF RowsOf
<1>4. \A f \in ForeignKeys : RowsOf(Source[f])' = RowsOf(Source[f])
  BY DEF RowsOf
<1>5. ASSUME NEW t \in Tables
      PROVE  /\ tx'.additions[t] \in Seq(StagedRow(t))
             /\ Len(tx'.additions[t]) <= MaxStaged
             /\ tx'.deletions[t] \subseteq RowsOf(t)'
             /\ db'.len[t] + Len(tx'.additions[t])
                  <= MaxRows[t] + Cardinality(tx'.deletions[t])
  <2>1. CASE tx'.additions[t] = tx.additions[t] /\ tx'.deletions[t] = tx.deletions[t]
    BY <1>2, <1>3, <2>1 DEF EditsTyped
  <2>2. CASE /\ tx'.additions[t] \in Seq(StagedRow(t))
             /\ Len(tx'.additions[t]) <= MaxStaged
             /\ tx'.deletions[t] \subseteq RowsOf(t)
             /\ db.len[t] + Len(tx'.additions[t])
                  <= MaxRows[t] + Cardinality(tx'.deletions[t])
    BY <1>3, <2>2
  <2> QED
    BY <2>1, <2>2
<1> QED
  BY <1>1, <1>4, <1>5 DEF EditsTyped

\* A step that touches neither the database nor what is staged.
LEMMA EditsUntouched ==
  ASSUME TypeOK, db' = db, tx' = tx
  PROVE  DatabaseTyped' /\ EditsTyped'
<1>1. EditsTyped
  BY DEF TypeOK
<1>2. \A f \in ForeignKeys : Relinked(f)' = Relinked(f)
  BY DEF Relinked
<1> QED
  BY <1>1, <1>2, EditsKept DEF EditsTyped

\* A delete call that is not touched stays well typed while the database stays.
LEMMA CallKept ==
  ASSUME TypeOK, db' = db, call' = call
  PROVE  CallTyped'
BY DEF TypeOK, CallTyped, RowsOf

\* No call is a well typed call.
LEMMA NoCallTyped ==
  ASSUME call' = NoCall
  PROVE  CallTyped'
<1>1. <<>> \in Seq(Frames)
  BY EmptySeq
<1>2. /\ call'.stack = <<>>
      /\ call'.expanded = [t \in Tables |-> {}]
      /\ call' = [stack |-> call'.stack, expanded |-> call'.expanded]
  BY DEF NoCall
<1>3. call' \in [stack : Seq(Frames), expanded : RowSets]
  BY <1>1, <1>2 DEF RowSets
<1> QED
  BY <1>2, <1>3 DEF CallTyped

(***************************************************************************)
(* One lemma per action.                                                   *)
(***************************************************************************)
\* PackedArrayDB.transaction.
LEMMA BeginTyped == TypeOK /\ Begin => TypeOK'
<1> SUFFICES ASSUME TypeOK, Begin PROVE TypeOK'
  OBVIOUS
<1>1. db' = db /\ call' = call /\ tx' = [NoTx EXCEPT !.open = TRUE]
  BY DEF Begin
<1>2. DatabaseTyped'
  BY <1>1 DEF TypeOK, DatabaseTyped, ColumnsHaveTheRows, RowsOf
<1>3. EditsTyped'
  BY <1>1, <1>2, NothingStagedTyped
<1> QED
  BY <1>1, <1>2, <1>3, CallKept DEF TypeOK

\* What the program may stage for a table is a row of it.
LEMMA RowsToAddAreRows ==
  ASSUME TypeOK, NEW t \in Tables
  PROVE  RowsToAdd(t) \subseteq StagedRow(t)
<1> SUFFICES ASSUME NEW r \in RowsToAdd(t)
             PROVE  r \in StagedRow(t)
  OBVIOUS
<1>1. /\ r = [f \in KeysOf(t) |-> r[f]]
      /\ \A f \in KeysOf(t) : r[f] \in KeysTo(Target[f])
  BY DEF RowsToAdd
<1>2. \A f \in KeysOf(t) : Target[f] \in Tables
  BY SchemaAssumption DEF KeysOf
<1>3. \A u \in Tables : KeysTo(u) \subseteq 0 .. Missing
  BY RowsAreIndices, MissingIsNat DEF KeysTo
<1> QED
  BY <1>1, <1>2, <1>3 DEF StagedRow

\* register_additions.
LEMMA AddTyped ==
  ASSUME TypeOK, NEW t \in Tables, NEW n \in 1 .. MaxStaged,
         NEW newRows \in [1 .. n -> RowsToAdd(t)], AddEntries(t, newRows)
  PROVE  TypeOK'
<1> DEFINE targets(f) == {newRows[i][f] : i \in DOMAIN newRows}
           void == \E f \in KeysOf(t) : targets(f) \cap tx.deletions[Target[f]] # {}
           claimed(u) == UNION {targets(f) : f \in {g \in KeysOf(t) : Target[g] = u}}
<1>0. tx \in StagedEdits /\ EditsTyped
  BY DEF TypeOK, EditsTyped
<1>1. db' = db /\ call' = call
  BY DEF AddEntries
<1>2. newRows \in Seq(StagedRow(t)) /\ Len(newRows) \in Nat
  <2>1. newRows \in [1 .. n -> StagedRow(t)]
    BY RowsToAddAreRows
  <2>2. n \in Nat
    BY SizeAssumption
  <2>3. newRows \in Seq(StagedRow(t))
    BY <2>1, <2>2, SeqDef
  <2> QED
    BY <2>3, LenProperties
<1>3. CASE void
  <2>1. tx' = [tx EXCEPT !.calls = @ + 1, !.staged = @ \cup {t}]
    BY <1>3 DEF AddEntries
  <2>2. /\ tx'.additions = tx.additions /\ tx'.deletions = tx.deletions
        /\ tx'.unlinks = tx.unlinks /\ tx'.updates = tx.updates
        /\ tx'.open = tx.open /\ tx'.claims = tx.claims
        /\ tx'.calls = tx.calls + 1 /\ tx'.staged = tx.staged \cup {t}
        /\ tx' = [open |-> tx'.open, calls |-> tx'.calls, staged |-> tx'.staged,
                  additions |-> tx'.additions, deletions |-> tx'.deletions,
                  unlinks |-> tx'.unlinks, claims |-> tx'.claims,
                  updates |-> tx'.updates]
    BY <1>0, <2>1 DEF StagedEdits
  <2>3. tx' \in StagedEdits
    BY <1>0, <2>2, EditFields
  <2>4. \A f \in ForeignKeys : Relinked(f)' = Relinked(f)
    BY <2>2 DEF Relinked
  <2>5. DatabaseTyped' /\ EditsTyped'
    BY <1>0, <1>1, <2>2, <2>3, <2>4, EditsKept DEF EditsTyped
  <2> QED
    BY <1>1, <2>5, CallKept DEF TypeOK
<1>4. CASE ~void
  <2>1. tx' = [tx EXCEPT !.calls = @ + 1, !.staged = @ \cup {t},
                         !.additions[t] = @ \o newRows,
                         !.claims = [u \in Tables |-> @[u] \cup claimed(u)]]
    BY <1>4 DEF AddEntries
  <2>2. /\ tx'.additions = [tx.additions EXCEPT ![t] = @ \o newRows]
        /\ tx'.claims = [u \in Tables |-> tx.claims[u] \cup claimed(u)]
        /\ tx'.deletions = tx.deletions /\ tx'.unlinks = tx.unlinks
        /\ tx'.updates = tx.updates /\ tx'.open = tx.open
        /\ tx'.calls = tx.calls + 1 /\ tx'.staged = tx.staged \cup {t}
        /\ tx' = [open |-> tx'.open, calls |-> tx'.calls, staged |-> tx'.staged,
                  additions |-> tx'.additions, deletions |-> tx'.deletions,
                  unlinks |-> tx'.unlinks, claims |-> tx'.claims,
                  updates |-> tx'.updates]
    <3> HIDE DEF claimed
    <3> QED
      BY <1>0, <2>1 DEF StagedEdits
  <2>3. \A u \in Tables : claimed(u) \subseteq Nat
    <3>1. \A i \in DOMAIN newRows : newRows[i] \in [KeysOf(t) -> 0 .. Missing]
      BY RowsToAddAreRows DEF StagedRow
    <3> QED
      BY <3>1, MissingIsNat
  <2>4. /\ tx.additions[t] \o newRows \in Seq(StagedRow(t))
        /\ Len(tx.additions[t] \o newRows) = Len(tx.additions[t]) + Len(newRows)
    BY <1>0, <1>2, ConcatProperties DEF EditsTyped
  <2>5. tx'.additions \in StagedAdditions
    <3>1. StagedRow(t) \subseteq UNION {StagedRow(u) : u \in Tables}
      OBVIOUS
    <3>2. tx.additions[t] \o newRows \in Seq(UNION {StagedRow(u) : u \in Tables})
      BY <2>4, <3>1, SeqMonotonic
    <3>3. tx.additions \in StagedAdditions
      BY <1>0, EditFields
    <3> DEFINE S == Seq(UNION {StagedRow(u) : u \in Tables})
    <3>4. tx.additions \in [Tables -> S] /\ tx.additions[t] \o newRows \in S
      BY <3>2, <3>3 DEF StagedAdditions
    <3> HIDE DEF S
    <3>5. tx'.additions \in [Tables -> S]
      BY <2>2, <3>4
    <3> QED
      BY <3>5 DEF S, StagedAdditions
  <2>6. tx'.claims \in RowSets
    <3>1. tx.claims \in RowSets
      BY <1>0, EditFields
    <3> HIDE DEF claimed
    <3> QED
      BY <2>2, <2>3, <3>1 DEF RowSets
  <2>7. tx' \in StagedEdits
    <3>1. /\ tx'.open \in BOOLEAN /\ tx'.calls \in Nat
          /\ tx'.staged \in SUBSET Tables
          /\ tx'.deletions \in RowSets /\ tx'.unlinks \in Unlinks
          /\ tx'.updates \in StagedUpdates
      BY <1>0, <2>2, EditFields
    <3> QED
      BY ONLY <2>2, <2>5, <2>6, <3>1, EditFields
  <2>8. ASSUME NEW u \in Tables
        PROVE  \/ /\ tx'.additions[u] = tx.additions[u]
                  /\ tx'.deletions[u] = tx.deletions[u]
               \/ /\ tx'.additions[u] \in Seq(StagedRow(u))
                  /\ Len(tx'.additions[u]) <= MaxStaged
                  /\ tx'.deletions[u] \subseteq RowsOf(u)
                  /\ db.len[u] + Len(tx'.additions[u])
                       <= MaxRows[u] + Cardinality(tx'.deletions[u])
    <3>1. tx.additions \in [Tables -> Seq(UNION {StagedRow(v) : v \in Tables})]
      BY <1>0, EditFields DEF StagedAdditions
    <3>2. DOMAIN tx.additions = Tables
      BY <3>1
    <3>3. CASE u = t
      <4>1. tx'.additions[t] = tx.additions[t] \o newRows
        BY <2>2, <3>2
      <4>2. /\ Len(tx.additions[t]) + Len(newRows) <= MaxStaged
            /\ db.len[t] + Len(tx.additions[t]) + Len(newRows)
                 <= MaxRows[t] + Cardinality(tx.deletions[t])
        BY DEF AddEntries
      <4>3. db.len[t] \in Nat /\ Len(tx.additions[t]) \in Nat
        BY RowsAreIndices
      <4>4. db.len[t] + (Len(tx.additions[t]) + Len(newRows))
              = db.len[t] + Len(tx.additions[t]) + Len(newRows)
        BY <1>2, <4>3
      <4>5. tx.deletions[t] \subseteq RowsOf(t)
        BY <1>0 DEF EditsTyped
      <4> QED
        BY <2>2, <2>4, <3>3, <4>1, <4>2, <4>4, <4>5
    <3>4. CASE u # t
      BY <2>2, <3>2, <3>4
    <3> QED
      BY <3>3, <3>4
  <2>9. \A f \in ForeignKeys : Relinked(f)' = Relinked(f)
    BY <2>2 DEF Relinked
  <2>10. /\ \A f \in ForeignKeys : tx'.unlinks[f] \subseteq RowsOf(Source[f])
         /\ \A f \in ForeignKeys : Relinked(f)' \subseteq RowsOf(Source[f])
    BY <1>0, <2>2, <2>9 DEF EditsTyped
  <2>11. DatabaseTyped' /\ EditsTyped'
    BY <1>1, <2>7, <2>8, <2>10, EditsKept
  <2> QED
    BY <1>1, <2>11, CallKept DEF TypeOK
<1> QED
  BY <1>3, <1>4

\* The entries update_entries stages are for rows of the table.
LEMMA UpdateEntryTyped ==
  ASSUME TypeOK, NEW f \in ForeignKeys, NEW rows, rows \subseteq RowsOf(Source[f]),
         NEW target \in KeysTo(Target[f]), NEW changed, changed \subseteq rows,
         NEW entry,
         entry = [k \in 1 .. Cardinality(changed) |->
                    [row |-> Nth(k - 1, changed), target |-> target]]
  PROVE  /\ entry \in Seq(StagedKey)
         /\ \A k \in 1 .. Len(entry) : entry[k].row \in changed
<1>1. Source[f] \in Tables /\ Target[f] \in Tables
  BY SchemaAssumption
<1>2. IsFiniteSet(changed) /\ Cardinality(changed) \in Nat /\ changed \in SUBSET Int
  <2>1. IsFiniteSet(RowsOf(Source[f])) /\ RowsOf(Source[f]) \subseteq Nat
    BY <1>1, RowsAreIndices
  <2>2. changed \in SUBSET RowsOf(Source[f])
    OBVIOUS
  <2> QED
    BY <2>1, <2>2, FS_Subset, FS_CardinalityType
<1>3. target \in 0 .. Missing
  BY <1>1, RowsAreIndices, MissingIsNat DEF KeysTo
<1>4. ASSUME NEW k \in 1 .. Cardinality(changed)
      PROVE  Nth(k - 1, changed) \in changed
  <2>1. k - 1 \in 0 .. Cardinality(changed) - 1
    BY <1>2
  <2> QED
    BY <1>2, <2>1, NthProperties
<1>5. changed \subseteq Nat
  BY <1>1, RowsAreIndices
<1>6. \A k \in 1 .. Cardinality(changed) : entry[k].row \in changed
  BY <1>4
<1>7. entry \in [1 .. Cardinality(changed) -> StagedKey]
  <2>1. \A k \in 1 .. Cardinality(changed) :
          [row |-> Nth(k - 1, changed), target |-> target] \in StagedKey
    BY <1>3, <1>4, <1>5 DEF StagedKey
  <2> QED
    BY <2>1
<1>8. entry \in Seq(StagedKey)
  BY ONLY <1>2, <1>7, SeqDef
<1>9. Len(entry) = Cardinality(changed)
  BY <1>2, <1>7, <1>8, LenProperties
<1> QED
  BY <1>6, <1>8, <1>9

\* register_updates.
LEMMA UpdateTyped ==
  ASSUME TypeOK, NEW f \in ForeignKeys, NEW rows, rows \subseteq Nat,
         NEW target \in KeysTo(Target[f]), UpdateEntries(f, rows, target)
  PROVE  TypeOK'
<1> DEFINE changed == {r \in rows : db.col[f].fk[r] # target}
           entry == [k \in 1 .. Cardinality(changed) |->
                       [row |-> Nth(k - 1, changed), target |-> target]]
<1>0. tx \in StagedEdits /\ EditsTyped
  BY DEF TypeOK, EditsTyped
<1>1. db' = db /\ call' = call
  BY DEF UpdateEntries
<1>2. CASE tx' = [tx EXCEPT !.calls = @ + 1]
  <2>1. EditsTyped'
    BY <1>1, <1>2, CountedTyped
  <2>2. DatabaseTyped'
    BY <1>1 DEF TypeOK, DatabaseTyped, ColumnsHaveTheRows, RowsOf
  <2> QED
    BY <1>1, <2>1, <2>2, CallKept DEF TypeOK
<1>3. CASE /\ \A r \in rows : ~(r >= db.len[Source[f]])
           /\ tx' = [tx EXCEPT !.calls = @ + 1, !.updates[f] = @ \o entry]
  <2>1. Source[f] \in Tables /\ db.len[Source[f]] \in Nat
    BY SchemaAssumption, RowsAreIndices
  <2>2. rows \subseteq RowsOf(Source[f])
    BY <1>3, <2>1 DEF RowsOf
  <2>3. /\ entry \in Seq(StagedKey)
        /\ \A k \in 1 .. Len(entry) : entry[k].row \in changed
    BY <2>2, UpdateEntryTyped
  <2> HIDE DEF entry
  <2>4. /\ tx'.additions = tx.additions /\ tx'.deletions = tx.deletions
        /\ tx'.unlinks = tx.unlinks /\ tx'.claims = tx.claims
        /\ tx'.updates = [tx.updates EXCEPT ![f] = @ \o entry]
        /\ tx'.open = tx.open /\ tx'.staged = tx.staged
        /\ tx'.calls = tx.calls + 1
        /\ tx' = [open |-> tx'.open, calls |-> tx'.calls, staged |-> tx'.staged,
                  additions |-> tx'.additions, deletions |-> tx'.deletions,
                  unlinks |-> tx'.unlinks, claims |-> tx'.claims,
                  updates |-> tx'.updates]
    BY <1>0, <1>3 DEF StagedEdits
  <2> DEFINE S == Seq(StagedKey)
  <2>5. tx.updates \in [ForeignKeys -> S]
    BY <1>0, EditFields DEF StagedUpdates
  <2>6. /\ tx.updates[f] \o entry \in S
        /\ Len(tx.updates[f] \o entry) = Len(tx.updates[f]) + Len(entry)
        /\ \A i \in 1 .. Len(tx.updates[f]) + Len(entry) :
             (tx.updates[f] \o entry)[i] =
               IF i <= Len(tx.updates[f]) THEN tx.updates[f][i]
                                          ELSE entry[i - Len(tx.updates[f])]
    BY <2>3, <2>5, ConcatProperties
  <2>7. tx'.updates \in StagedUpdates
    <3> HIDE DEF S
    <3>1. tx'.updates \in [ForeignKeys -> S]
      BY <2>4, <2>5, <2>6
    <3> QED
      BY <3>1 DEF S, StagedUpdates
  <2>8. tx' \in StagedEdits
    <3>1. /\ tx'.open \in BOOLEAN /\ tx'.calls \in Nat
          /\ tx'.staged \in SUBSET Tables
          /\ tx'.deletions \in RowSets /\ tx'.claims \in RowSets
          /\ tx'.unlinks \in Unlinks /\ tx'.additions \in StagedAdditions
      BY <1>0, <2>4, EditFields
    <3> QED
      BY ONLY <2>4, <2>7, <3>1, EditFields
  <2>9. ASSUME NEW g \in ForeignKeys
        PROVE  Relinked(g)' \subseteq RowsOf(Source[g])
    <3>1. Relinked(g) \subseteq RowsOf(Source[g])
      BY <1>0 DEF EditsTyped
    <3>2. CASE g = f
      <4>1. tx'.updates[f] = tx.updates[f] \o entry
        BY <2>4, <2>5
      <4>2. /\ Len(tx.updates[f]) \in Nat
            /\ DOMAIN tx.updates[f] = 1 .. Len(tx.updates[f])
            /\ Len(entry) \in Nat
            /\ DOMAIN (tx.updates[f] \o entry)
                 = 1 .. Len(tx.updates[f]) + Len(entry)
        BY <2>3, <2>5, <2>6, LenProperties
      <4>3. ASSUME NEW i \in 1 .. Len(tx.updates[f]) + Len(entry)
            PROVE  (tx.updates[f] \o entry)[i].row \in RowsOf(Source[f])
        <5>1. CASE i <= Len(tx.updates[f])
          <6>1. i \in DOMAIN tx.updates[f]
            BY <4>2, <5>1
          <6>2. tx.updates[f][i].row \in Relinked(f)
            BY <6>1 DEF Relinked
          <6> QED
            BY <2>6, <3>1, <3>2, <5>1, <6>2
        <5>2. CASE ~(i <= Len(tx.updates[f]))
          <6>1. i - Len(tx.updates[f]) \in 1 .. Len(entry)
            BY <4>2, <5>2
          <6>2. entry[i - Len(tx.updates[f])].row \in changed
            BY <2>3, <6>1
          <6> QED
            BY <2>2, <2>6, <5>2, <6>2
        <5> QED
          BY <5>1, <5>2
      <4> QED
        BY <3>2, <4>1, <4>2, <4>3 DEF Relinked
    <3>3. CASE g # f
      <4>1. tx'.updates[g] = tx.updates[g]
        BY <2>4, <2>5, <3>3
      <4> QED
        BY <3>1, <4>1 DEF Relinked
    <3> QED
      BY <3>2, <3>3
  <2>10. DatabaseTyped' /\ EditsTyped'
    <3>1. \A g \in ForeignKeys : tx'.unlinks[g] \subseteq RowsOf(Source[g])
      BY <1>0, <2>4 DEF EditsTyped
    <3>2. \A t \in Tables : /\ tx'.additions[t] = tx.additions[t]
                            /\ tx'.deletions[t] = tx.deletions[t]
      BY <2>4
    <3> QED
      BY <1>1, <2>8, <2>9, <3>1, <3>2, EditsKept
  <2> QED
    BY <1>1, <2>10, CallKept DEF TypeOK
<1> QED
  BY <1>2, <1>3 DEF UpdateEntries, Refuse

(***************************************************************************)
(* Delete calls.                                                           *)
(***************************************************************************)
\* A level of a delete call whose rows, and the rows it is to null, exist.
FrameTyped(frame) ==
  /\ frame \in Frames
  /\ frame.ids \subseteq RowsOf(frame.table)
  /\ \A f \in ForeignKeys : frame.nulled[f] \subseteq RowsOf(Source[f])

\* A stack of such levels.
StackTyped(stack) ==
  /\ stack \in Seq(Frames)
  /\ \A i \in 1 .. Len(stack) : FrameTyped(stack[i])

\* The rows a call has expanded exist.
ExpandedTyped(expanded) ==
  /\ expanded \in RowSets
  /\ \A t \in Tables : expanded[t] \subseteq RowsOf(t)

\* CallTyped in these terms.
LEMMA CallParts ==
  ASSUME TypeOK
  PROVE  StackTyped(call.stack) /\ ExpandedTyped(call.expanded)
<1>1. call.stack \in Seq(Frames) /\ call.expanded \in RowSets
  BY DEF TypeOK, CallTyped
<1>2. DOMAIN call.stack = 1 .. Len(call.stack)
  BY <1>1, LenProperties
<1>3. \A i \in 1 .. Len(call.stack) : call.stack[i] \in Frames
  BY <1>1, ElementOfSeq
<1> QED
  BY <1>1, <1>2, <1>3 DEF TypeOK, CallTyped, StackTyped, ExpandedTyped, FrameTyped

\* A call with a typed, nonempty stack is well typed.
LEMMA CallMade ==
  ASSUME TypeOK, db' = db, NEW stack, NEW expanded, stack # <<>>,
         StackTyped(stack), ExpandedTyped(expanded),
         call' = [stack |-> stack, expanded |-> expanded]
  PROVE  CallTyped'
<1>1. /\ call'.stack = stack /\ call'.expanded = expanded
      /\ call' = [stack |-> call'.stack, expanded |-> call'.expanded]
  OBVIOUS
<1>2. call' \in [stack : Seq(Frames), expanded : RowSets]
  BY DEF StackTyped, ExpandedTyped
<1>3. DOMAIN stack = 1 .. Len(stack)
  BY LenProperties DEF StackTyped
<1>4. /\ \A t \in Tables : RowsOf(t)' = RowsOf(t)
      /\ \A f \in ForeignKeys : RowsOf(Source[f])' = RowsOf(Source[f])
  BY DEF RowsOf
<1>5. \A t \in Tables : call'.expanded[t] \subseteq RowsOf(t)'
  BY <1>1, <1>4 DEF ExpandedTyped
<1>6. ASSUME NEW i \in DOMAIN call'.stack
      PROVE  /\ call'.stack[i].ids \subseteq RowsOf(call.stack[i].table)'
             /\ \A f \in ForeignKeys :
                  call'.stack[i].nulled[f] \subseteq RowsOf(Source[f])'
  <2>1. FrameTyped(stack[i]) /\ call'.stack[i] = stack[i]
    BY <1>1, <1>3 DEF StackTyped
  <2>2. stack[i].table \in Tables
    BY <2>1 DEF FrameTyped, Frames
  <2> QED
    BY <1>1, <2>1, <2>2 DEF FrameTyped, RowsOf
<1> QED
  BY <1>1, <1>2, <1>5, <1>6 DEF CallTyped

\* A typed level may be pushed.
LEMMA FramePushed ==
  ASSUME NEW stack, NEW frame, StackTyped(stack), FrameTyped(frame)
  PROVE  StackTyped(Append(stack, frame)) /\ Append(stack, frame) # <<>>
<1>1. frame \in Frames /\ stack \in Seq(Frames) /\ Len(stack) \in Nat
  BY LenProperties DEF StackTyped, FrameTyped
<1>2. /\ Append(stack, frame) \in Seq(Frames)
      /\ Append(stack, frame) # <<>>
      /\ Len(Append(stack, frame)) = Len(stack) + 1
      /\ \A i \in 1 .. Len(stack) : Append(stack, frame)[i] = stack[i]
      /\ Append(stack, frame)[Len(stack) + 1] = frame
  BY <1>1, AppendProperties
<1>3. \A i \in 1 .. Len(stack) + 1 : i \in 1 .. Len(stack) \/ i = Len(stack) + 1
  BY <1>1
<1> QED
  BY <1>2, <1>3 DEF StackTyped

\* expand_and_validate_deletions enters a level, or raises.
LEMMA EnterTyped ==
  ASSUME TypeOK, db' = db, NEW frame, NEW stack, NEW expanded,
         FrameTyped(frame), StackTyped(stack), ExpandedTyped(expanded),
         Enter(frame, stack, expanded)
  PROVE  CallTyped'
<1>1. \/ call' = NoCall
      \/ call' = [stack |-> Append(stack, frame), expanded |-> expanded]
  BY DEF Enter
<1> QED
  BY <1>1, FramePushed, CallMade, NoCallTyped

\* The stack without its top, and the top.
LEMMA TopTyped ==
  ASSUME TypeOK, call.stack # <<>>
  PROVE  /\ FrameTyped(Top) /\ Top.table \in Tables
         /\ StackTyped(Below) /\ Len(Below) = Len(call.stack) - 1
         /\ Len(call.stack) \in Nat \ {0}
         /\ Len(Below) \in Nat
<1>1. StackTyped(call.stack)
  BY CallParts
<1>2. Len(call.stack) \in Nat \ {0}
  BY <1>1, EmptySeq DEF StackTyped
<1>3. Len(call.stack) \in 1 .. Len(call.stack)
  BY <1>2
<1>4. FrameTyped(Top)
  BY <1>1, <1>3 DEF StackTyped, Top
<1>5. Top.table \in Tables
  BY <1>4 DEF FrameTyped, Frames
<1>6. \A i \in 1 .. Len(call.stack) - 1 :
        FrameTyped(call.stack[i]) /\ call.stack[i] \in Frames
  BY <1>1, <1>2 DEF StackTyped, FrameTyped
<1>7. 1 \in Int /\ Len(call.stack) - 1 \in Int
  BY <1>2
<1>8. /\ Below \in Seq(Frames)
      /\ Len(Below) = IF 1 <= Len(call.stack) - 1 THEN Len(call.stack) - 1 - 1 + 1
                                                  ELSE 0
      /\ \A i \in 1 .. Len(call.stack) - 1 - 1 + 1 :
           Below[i] = call.stack[1 + i - 1]
  BY <1>6, <1>7, SubSeqProperties DEF Below
<1>9. Len(Below) = Len(call.stack) - 1
  BY <1>2, <1>8
<1>10. \A i \in 1 .. Len(Below) : FrameTyped(Below[i])
  <2>1. \A i \in 1 .. Len(Below) : Below[i] = call.stack[i]
    BY <1>2, <1>8, <1>9
  <2> QED
    BY <1>6, <1>9, <2>1
<1> QED
  BY <1>2, <1>4, <1>5, <1>8, <1>9, <1>10 DEF StackTyped

\* register_deletions.
LEMMA DelTyped ==
  ASSUME TypeOK, NEW t \in Tables, NEW ids, DelEntries(t, ids)
  PROVE  TypeOK'
<1>1. db' = db /\ tx' = [tx EXCEPT !.calls = @ + 1]
  BY DEF DelEntries
<1>2. DatabaseTyped' /\ EditsTyped'
  BY <1>1, CountedTyped DEF TypeOK, DatabaseTyped, ColumnsHaveTheRows, RowsOf
<1>3. CASE ids \subseteq RowsOf(t)
  <2>1. FrameTyped(Frame(t, ids, NothingNulled))
    <3>1. RowsOf(t) \subseteq Nat
      BY RowsAreIndices
    <3> QED
      BY <1>3, <3>1 DEF FrameTyped, Frame, Frames, NothingNulled, Unlinks
  <2>2. StackTyped(<<>>)
    BY EmptySeq DEF StackTyped
  <2>3. ExpandedTyped(NoCall.expanded)
    BY DEF ExpandedTyped, NoCall, RowSets
  <2>4. Enter(Frame(t, ids, NothingNulled), <<>>, NoCall.expanded)
    BY <1>3 DEF DelEntries
  <2>5. CallTyped'
    BY <1>1, <2>1, <2>2, <2>3, <2>4, EnterTyped
  <2> QED
    BY <1>2, <2>5 DEF TypeOK
<1>4. CASE ~(ids \subseteq RowsOf(t))
  <2>1. call' = NoCall
    BY <1>4 DEF DelEntries
  <2> QED
    BY <1>2, <2>1, NoCallTyped DEF TypeOK
<1> QED
  BY <1>3, <1>4

\* A level keeps its type when its loop advances or its nulled keys change.
LEMMA FrameChanged ==
  ASSUME NEW frame, FrameTyped(frame),
         NEW sub \in Nat \ {0}, NEW nulled \in Unlinks,
         \A f \in ForeignKeys : nulled[f] \subseteq RowsOf(Source[f]),
         NEW new, new = [frame EXCEPT !.sub = sub, !.nulled = nulled]
  PROVE  FrameTyped(new)
<1>1. /\ frame = [table |-> frame.table, ids |-> frame.ids,
                  sub |-> frame.sub, nulled |-> frame.nulled]
      /\ frame.table \in Tables /\ frame.ids \in SUBSET Nat
  BY DEF FrameTyped, Frames
<1>2. new = [table |-> frame.table, ids |-> frame.ids, sub |-> sub, nulled |-> nulled]
  BY <1>1
<1>3. new \in Frames
  BY <1>1, <1>2 DEF Frames
<1> QED
  BY <1>2, <1>3 DEF FrameTyped

\* One turn of the loop of expand_and_validate_deletions.
LEMMA ExpandTyped == TypeOK /\ ExpandSubscriber => TypeOK'
<1> SUFFICES ASSUME TypeOK, ExpandSubscriber PROVE TypeOK'
  OBVIOUS
<1> DEFINE f    == Subscribers[Top.table][Top.sub]
           hit  == NewlyHit(Top, f)
           next == [Top EXCEPT !.sub = @ + 1]
           rest == Append(Below, next)
           nulling == [Top EXCEPT !.sub = @ + 1, !.nulled[f] = @ \cup hit]
<1>1. db' = db /\ tx' = tx /\ call.stack # <<>>
  BY DEF ExpandSubscriber
<1>2. DatabaseTyped' /\ EditsTyped'
  BY <1>1, EditsUntouched
<1>3. /\ FrameTyped(Top) /\ Top.table \in Tables /\ StackTyped(Below)
      /\ ExpandedTyped(call.expanded)
  BY <1>1, TopTyped, CallParts
<1>4. Top.sub \in Nat \ {0} /\ Top.nulled \in Unlinks
  BY <1>3 DEF FrameTyped, Frames
<1>5. f \in ForeignKeys
  <2>1. Subscribers[Top.table] \in Seq(ForeignKeys)
    BY <1>3, SchemaAssumption
  <2>2. Len(Subscribers[Top.table]) \in Nat
    BY <2>1, LenProperties
  <2>3. Top.sub <= Len(Subscribers[Top.table])
    BY DEF ExpandSubscriber
  <2>4. Top.sub \in 1 .. Len(Subscribers[Top.table])
    BY <1>4, <2>2, <2>3
  <2> QED
    BY <2>1, <2>4, ElementOfSeq
<1>6. Source[f] \in Tables
  BY <1>5, SchemaAssumption
<1>7. hit \subseteq RowsOf(Source[f]) /\ RowsOf(Source[f]) \subseteq Nat
  BY <1>5, <1>6, NewlyHitRows, RowsAreIndices DEF TypeOK, DatabaseTyped
<1> HIDE DEF f, hit
<1>8. FrameTyped(next) /\ next = [Top EXCEPT !.sub = Top.sub + 1, !.nulled = Top.nulled]
  <2>1. next = [Top EXCEPT !.sub = Top.sub + 1, !.nulled = Top.nulled]
    BY <1>3 DEF FrameTyped, Frames
  <2>2. \A g \in ForeignKeys : Top.nulled[g] \subseteq RowsOf(Source[g])
    BY <1>3 DEF FrameTyped
  <2>3. Top.sub + 1 \in Nat \ {0}
    BY <1>4
  <2> QED
    BY <1>3, <1>4, <2>1, <2>2, <2>3, FrameChanged
<1>9. StackTyped(rest) /\ rest # <<>>
  BY <1>3, <1>8, FramePushed
<1>10. FrameTyped(nulling)
  <2> DEFINE nulled == [Top.nulled EXCEPT ![f] = @ \cup hit]
  <2>1. nulling = [Top EXCEPT !.sub = Top.sub + 1, !.nulled = nulled]
    BY <1>3 DEF FrameTyped, Frames
  <2>2. nulled \in Unlinks
    BY <1>4, <1>5, <1>7 DEF Unlinks
  <2>3. \A g \in ForeignKeys : nulled[g] \subseteq RowsOf(Source[g])
    BY <1>3, <1>4, <1>7 DEF FrameTyped, Unlinks
  <2>4. Top.sub + 1 \in Nat \ {0}
    BY <1>4
  <2> HIDE DEF nulled
  <2> QED
    BY <1>3, <2>1, <2>2, <2>3, <2>4, FrameChanged
<1>11. FrameTyped(Frame(Source[f], hit, Top.nulled))
  <2>1. \A g \in ForeignKeys : Top.nulled[g] \subseteq RowsOf(Source[g])
    BY <1>3 DEF FrameTyped
  <2> QED
    BY <1>4, <1>6, <1>7, <2>1 DEF FrameTyped, Frame, Frames
<1>12. /\ StackTyped(Append(Below, nulling)) /\ Append(Below, nulling) # <<>>
  BY <1>3, <1>10, FramePushed
<1>13. call = [stack |-> call.stack, expanded |-> call.expanded]
  BY DEF TypeOK, CallTyped
<1>14. CASE call' = [call EXCEPT !.stack = rest]
  <2>1. call' = [stack |-> rest, expanded |-> call.expanded]
    BY <1>13, <1>14
  <2> QED
    BY <1>1, <1>2, <1>3, <1>9, <2>1, CallMade DEF TypeOK
<1>15. CASE call' = NoCall
  BY <1>2, <1>15, NoCallTyped DEF TypeOK
<1>16. CASE call' = [call EXCEPT !.stack = Append(Below, nulling)]
  <2>1. call' = [stack |-> Append(Below, nulling), expanded |-> call.expanded]
    BY <1>13, <1>16
  <2> QED
    BY <1>1, <1>2, <1>3, <1>12, <2>1, CallMade DEF TypeOK
<1>17. CASE Enter(Frame(Source[f], hit, Top.nulled), rest, call.expanded)
  BY <1>1, <1>2, <1>3, <1>9, <1>11, <1>17, EnterTyped DEF TypeOK
<1> QED
  BY <1>14, <1>15, <1>16, <1>17 DEF ExpandSubscriber, f, hit

\* An inner level returns.
LEMMA ReturnInnerTyped == TypeOK /\ ReturnInner => TypeOK'
<1> SUFFICES ASSUME TypeOK, ReturnInner PROVE TypeOK'
  OBVIOUS
<1> DEFINE n == Len(Below)
           nulled == IF Below[n].nulled # NothingNulled THEN Top.nulled
                                                        ELSE Below[n].nulled
           back == [Below[n] EXCEPT !.sub = Below[n].sub, !.nulled = nulled]
           stack == [Below EXCEPT ![n] = back]
           expanded == [call.expanded EXCEPT ![Top.table] = @ \cup Top.ids]
<1>1. db' = db /\ tx' = tx /\ call.stack # <<>>
  <2>1. Len(<<>>) = 0
    BY EmptySeq
  <2> QED
    BY <2>1 DEF ReturnInner
<1>2. DatabaseTyped' /\ EditsTyped'
  BY <1>1, EditsUntouched
<1>3. /\ FrameTyped(Top) /\ Top.table \in Tables /\ StackTyped(Below)
      /\ ExpandedTyped(call.expanded) /\ n \in Nat \ {0} /\ n \in 1 .. Len(Below)
  <2>1. Len(call.stack) > 1
    BY DEF ReturnInner
  <2> QED
    BY <1>1, <2>1, TopTyped, CallParts
<1>4. Below \in Seq(Frames) /\ FrameTyped(Below[n])
  BY <1>3 DEF StackTyped
<1>5. Top.nulled \in Unlinks /\ Below[n].nulled \in Unlinks /\ Below[n].sub \in Nat \ {0}
  BY <1>3, <1>4 DEF FrameTyped, Frames
<1>6. FrameTyped(back)
  <2>1. nulled \in Unlinks
    BY <1>5
  <2>2. \A f \in ForeignKeys : nulled[f] \subseteq RowsOf(Source[f])
    BY <1>3, <1>4 DEF FrameTyped
  <2> HIDE DEF nulled, n
  <2> QED
    BY <1>4, <1>5, <2>1, <2>2, FrameChanged
<1>7. StackTyped(stack) /\ stack # <<>>
  <2> HIDE DEF back
  <2>1. back \in Frames
    BY <1>6 DEF FrameTyped
  <2>2. /\ stack \in Seq(Frames) /\ Len(stack) = Len(Below)
        /\ \A j \in 1 .. Len(Below) : stack[j] = IF j = n THEN back ELSE Below[j]
    BY <1>3, <1>4, <2>1, ExceptSeq
  <2>3. Len(<<>>) = 0
    BY EmptySeq
  <2>4. stack # <<>>
    BY <1>3, <2>2, <2>3
  <2> QED
    BY <1>3, <1>6, <2>2, <2>4 DEF StackTyped
<1>8. ExpandedTyped(expanded)
  BY <1>3 DEF ExpandedTyped, RowSets, FrameTyped, Frames
<1>9. call' = [stack |-> stack, expanded |-> expanded]
  <2>1. Below[n] = [table |-> Below[n].table, ids |-> Below[n].ids,
                    sub |-> Below[n].sub, nulled |-> Below[n].nulled]
    BY <1>4 DEF FrameTyped, Frames
  <2>2. [Below[n] EXCEPT !.nulled = nulled] = back
    BY <2>1
  <2>3. call'.stack = [Below EXCEPT ![n].nulled =
                         IF Below[n].nulled # NothingNulled THEN Top.nulled ELSE @]
    BY DEF ReturnInner
  <2>4. [Below EXCEPT ![n].nulled =
            IF Below[n].nulled # NothingNulled THEN Top.nulled ELSE @]
          = [Below EXCEPT ![n] = [Below[n] EXCEPT !.nulled = nulled]]
    OBVIOUS
  <2>5. /\ call'.expanded = expanded
        /\ call' = [stack |-> call'.stack, expanded |-> call'.expanded]
    BY DEF ReturnInner
  <2> QED
    BY <2>2, <2>3, <2>4, <2>5
<1>10. CallTyped'
  <2> HIDE DEF stack, expanded
  <2> QED
    BY <1>1, <1>7, <1>8, <1>9, CallMade
<1> QED
  BY <1>2, <1>10 DEF TypeOK

\* The outermost level returns and its result is staged.
LEMMA ReturnOuterTyped == TypeOK /\ ReturnOuter => TypeOK'
<1> SUFFICES ASSUME TypeOK, ReturnOuter PROVE TypeOK'
  OBVIOUS
<1> DEFINE final == [call.expanded EXCEPT ![Top.table] = @ \cup Top.ids]
           deletions == [t \in Tables |-> tx.deletions[t] \cup final[t]]
           unlinks == [f \in ForeignKeys |->
                         tx.unlinks[f] \cup (Top.nulled[f] \ final[Source[f]])]
<1>0. tx \in StagedEdits /\ EditsTyped
  BY DEF TypeOK, EditsTyped
<1>1. db' = db /\ call' = NoCall /\ call.stack # <<>>
  <2>1. Len(<<>>) = 0
    BY EmptySeq
  <2>2. db' = db /\ call' = NoCall /\ Len(call.stack) = 1
    BY DEF ReturnOuter
  <2> QED
    BY <2>1, <2>2
<1>2. FrameTyped(Top) /\ Top.table \in Tables /\ ExpandedTyped(call.expanded)
  BY <1>1, TopTyped, CallParts
<1>3. final \in RowSets /\ \A t \in Tables : final[t] \subseteq RowsOf(t)
  BY <1>2 DEF ExpandedTyped, RowSets, FrameTyped, Frames
<1>4. Top.nulled \in Unlinks
      /\ \A f \in ForeignKeys : Top.nulled[f] \subseteq RowsOf(Source[f])
  BY <1>2 DEF FrameTyped, Frames
<1>5. tx' = [tx EXCEPT !.deletions = deletions, !.unlinks = unlinks]
  BY DEF ReturnOuter
<1> HIDE DEF final
<1>6. /\ deletions \in RowSets /\ unlinks \in Unlinks
      /\ \A t \in Tables : deletions[t] \subseteq RowsOf(t)
      /\ \A f \in ForeignKeys : unlinks[f] \subseteq RowsOf(Source[f])
  <2>1. tx.deletions \in RowSets /\ tx.unlinks \in Unlinks
    BY <1>0, EditFields
  <2>2. /\ \A t \in Tables : tx.deletions[t] \subseteq RowsOf(t)
        /\ \A f \in ForeignKeys : tx.unlinks[f] \subseteq RowsOf(Source[f])
    BY <1>0 DEF EditsTyped
  <2> QED
    BY <1>3, <1>4, <2>1, <2>2 DEF RowSets, Unlinks
<1>7. \A t \in Tables : tx.deletions[t] \subseteq deletions[t]
  OBVIOUS
<1> HIDE DEF deletions, unlinks
<1>8. /\ tx'.additions = tx.additions /\ tx'.deletions = deletions
      /\ tx'.unlinks = unlinks /\ tx'.claims = tx.claims
      /\ tx'.updates = tx.updates /\ tx'.open = tx.open
      /\ tx'.staged = tx.staged /\ tx'.calls = tx.calls
      /\ tx' = [open |-> tx'.open, calls |-> tx'.calls, staged |-> tx'.staged,
                additions |-> tx'.additions, deletions |-> tx'.deletions,
                unlinks |-> tx'.unlinks, claims |-> tx'.claims,
                updates |-> tx'.updates]
  BY <1>0, <1>5 DEF StagedEdits
<1>9. tx' \in StagedEdits
  BY <1>0, <1>6, <1>8, EditFields
<1>10. ASSUME NEW t \in Tables
       PROVE  db.len[t] + Len(tx.additions[t]) <= MaxRows[t] + Cardinality(deletions[t])
  <2>1. IsFiniteSet(RowsOf(t)) /\ db.len[t] \in Nat /\ Len(tx.additions[t]) \in Nat
    BY RowsAreIndices
  <2>2. deletions[t] \in SUBSET RowsOf(t)
    BY <1>6
  <2>3. IsFiniteSet(deletions[t])
    BY <2>1, <2>2, FS_Subset
  <2>4. tx.deletions[t] \in SUBSET deletions[t]
    BY <1>7
  <2>5. Cardinality(tx.deletions[t]) <= Cardinality(deletions[t])
        /\ IsFiniteSet(tx.deletions[t])
    BY <2>3, <2>4, FS_Subset
  <2>6. Cardinality(tx.deletions[t]) \in Nat /\ Cardinality(deletions[t]) \in Nat
    BY <2>3, <2>5, FS_CardinalityType
  <2>7. MaxRows[t] \in Nat
    BY SizeAssumption
  <2>8. db.len[t] + Len(tx.additions[t]) <= MaxRows[t] + Cardinality(tx.deletions[t])
    BY <1>0 DEF EditsTyped
  <2> QED
    BY <2>1, <2>5, <2>6, <2>7, <2>8
<1>11. ASSUME NEW t \in Tables
       PROVE  /\ tx'.additions[t] \in Seq(StagedRow(t))
              /\ Len(tx'.additions[t]) <= MaxStaged
              /\ tx'.deletions[t] \subseteq RowsOf(t)
              /\ db.len[t] + Len(tx'.additions[t])
                   <= MaxRows[t] + Cardinality(tx'.deletions[t])
  BY <1>0, <1>6, <1>8, <1>10 DEF EditsTyped
<1>12. ASSUME NEW f \in ForeignKeys
       PROVE  /\ tx'.unlinks[f] \subseteq RowsOf(Source[f])
              /\ Relinked(f)' \subseteq RowsOf(Source[f])
  <2>1. Relinked(f)' = Relinked(f)
    BY <1>8 DEF Relinked
  <2> QED
    BY <1>0, <1>6, <1>8, <2>1 DEF EditsTyped
<1>13. DatabaseTyped' /\ EditsTyped'
  BY <1>1, <1>9, <1>11, <1>12, EditsKept
<1> QED
  BY <1>1, <1>13, NoCallTyped DEF TypeOK

(***************************************************************************)
(* The end of a block.                                                     *)
(***************************************************************************)
\* The columns of key f have as many rows as the commit leaves their tables.
HasCommittedRows(c, f) ==
  LET sourceRows == 0 .. OracleOf(Source[f]).newSize - 1
      targetRows == 0 .. OracleOf(Target[f]).newSize - 1
  IN  /\ DOMAIN c.fk = sourceRows /\ DOMAIN c.nxt = sourceRows
      /\ DOMAIN c.prv = sourceRows
      /\ DOMAIN c.head = targetRows /\ DOMAIN c.cnt = targetRows

\* Materialization sizes the columns and the patches write within them.
LEMMA CommitColumnRows ==
  ASSUME NEW f \in ForeignKeys
  PROVE  /\ HasCommittedRows(CommitColumn(f), f)
         /\ HasCommittedRows(MaterializedColumn(f), f)
         /\ HasCommittedRows(
              FixMovedTargets(CommitColumn(f), MovedTo(Target[f])), f)
<1>1. \A col, w : DOMAIN Overwrite(col, w) = DOMAIN col
  BY DEF Overwrite
<1>2. HasCommittedRows(CommitColumn(f), f)
  <2>1. DOMAIN CommitColumn(f).fk = 0 .. OracleOf(Source[f]).newSize - 1
    BY <1>1 DEF CommitColumn, Materialize
  <2>2. DOMAIN CommitColumn(f).nxt = 0 .. OracleOf(Source[f]).newSize - 1
    BY <1>1 DEF CommitColumn, Materialize
  <2>3. DOMAIN CommitColumn(f).prv = 0 .. OracleOf(Source[f]).newSize - 1
    BY <1>1 DEF CommitColumn, Materialize
  <2>4. DOMAIN CommitColumn(f).head = 0 .. OracleOf(Target[f]).newSize - 1
    BY <1>1 DEF CommitColumn, Materialize
  <2>5. DOMAIN CommitColumn(f).cnt = 0 .. OracleOf(Target[f]).newSize - 1
    BY DEF CommitColumn, Materialize
  <2> QED
    BY <2>1, <2>2, <2>3, <2>4, <2>5 DEF HasCommittedRows
<1>3. HasCommittedRows(MaterializedColumn(f), f)
  <2>1. MaterializedColumn(f).fk = CommitColumn(f).fk
    BY DEF MaterializedColumn
  <2>2. DOMAIN MaterializedColumn(f).nxt = 0 .. OracleOf(Source[f]).newSize - 1
    BY DEF MaterializedColumn, Materialize
  <2>3. DOMAIN MaterializedColumn(f).prv = 0 .. OracleOf(Source[f]).newSize - 1
    BY DEF MaterializedColumn, Materialize
  <2>4. DOMAIN MaterializedColumn(f).head = 0 .. OracleOf(Target[f]).newSize - 1
    BY DEF MaterializedColumn, Materialize
  <2>5. DOMAIN MaterializedColumn(f).cnt = 0 .. OracleOf(Target[f]).newSize - 1
    BY DEF MaterializedColumn, Materialize
  <2> QED
    BY <1>2, <2>1, <2>2, <2>3, <2>4, <2>5 DEF HasCommittedRows
<1>4. HasCommittedRows(FixMovedTargets(CommitColumn(f), MovedTo(Target[f])), f)
  <2> DEFINE c == CommitColumn(f)
             d == FixMovedTargets(c, MovedTo(Target[f]))
  <2>1. c = [fk |-> c.fk, nxt |-> c.nxt, prv |-> c.prv, head |-> c.head, cnt |-> c.cnt]
    BY DEF CommitColumn
  <2> HIDE DEF c
  <2>2. /\ DOMAIN d.fk = DOMAIN c.fk /\ DOMAIN d.prv = DOMAIN c.prv
        /\ d.nxt = c.nxt /\ d.head = c.head /\ d.cnt = c.cnt
    BY <2>1 DEF FixMovedTargets
  <2>3. HasCommittedRows(c, f)
    BY <1>2 DEF c
  <2> HIDE DEF d
  <2>4. HasCommittedRows(d, f)
    BY <2>2, <2>3 DEF HasCommittedRows
  <2> QED
    BY <2>4 DEF c, d
<1> QED
  BY <1>2, <1>3, <1>4

\* A database sized by the oracles is well typed: what was staged fits.
LEMMA StoredTyped ==
  ASSUME TypeOK, db'.len = [t \in Tables |-> OracleOf(t).newSize],
         \A f \in ForeignKeys : HasCommittedRows(db'.col[f], f)
  PROVE  DatabaseTyped'
<1>1. ASSUME NEW t \in Tables
      PROVE  db'.len[t] \in Nat /\ db'.len[t] <= MaxRows[t]
  <2>1. /\ db.len[t] \in Nat /\ Len(tx.additions[t]) \in Nat
        /\ OracleOf(t).newSize \in Nat
        /\ OracleOf(t).newSize =
             db.len[t] + Len(tx.additions[t]) - Cardinality(tx.deletions[t])
        /\ Cardinality(tx.deletions[t]) \in Nat
    BY PlanApplies
  <2>2. db.len[t] + Len(tx.additions[t]) <= MaxRows[t] + Cardinality(tx.deletions[t])
    BY DEF TypeOK, EditsTyped
  <2>3. MaxRows[t] \in Nat
    BY SizeAssumption
  <2>4. OracleOf(t).newSize <= MaxRows[t]
    BY <2>1, <2>2, <2>3
  <2> QED
    BY <2>1, <2>4
<1>2. db'.len \in [Tables -> Nat]
  BY <1>1
<1>3. ASSUME NEW f \in ForeignKeys
      PROVE  ColumnsHaveTheRows(f)'
  <2>1. Source[f] \in Tables /\ Target[f] \in Tables
    BY SchemaAssumption
  <2>2. /\ db'.len[Source[f]] = OracleOf(Source[f]).newSize
        /\ db'.len[Target[f]] = OracleOf(Target[f]).newSize
    BY <2>1
  <2> QED
    BY <2>2 DEF ColumnsHaveTheRows, RowsOf, HasCommittedRows
<1> QED
  BY <1>1, <1>2, <1>3 DEF DatabaseTyped

\* Leaving a block drops what was staged.
LEMMA CloseTyped ==
  ASSUME TypeOK, DatabaseTyped', Close, call.stack = <<>>
  PROVE  TypeOK'
<1>1. tx' = NoTx /\ call' = NoCall
  BY DEF Close, TypeOK, CallTyped
<1> QED
  BY <1>1, NothingStagedTyped, NoCallTyped DEF TypeOK

\* TransactionContext.commit.
LEMMA CommitTyped == TypeOK /\ Commit => TypeOK'
<1> SUFFICES ASSUME TypeOK, Commit PROVE TypeOK'
  OBVIOUS
<1>1. /\ db'.len = [t \in Tables |-> OracleOf(t).newSize]
      /\ \A f \in ForeignKeys : db'.col[f] =
           FixMovedTargets(CommitColumn(f), MovedTo(Target[f]))
  BY DEF Commit, Stored
<1>2. DatabaseTyped'
  BY <1>1, CommitColumnRows, StoredTyped
<1> QED
  BY <1>2, CloseTyped DEF Commit, Leaving

\* A commit that raises after it has materialized the tables.
LEMMA CommitTornTyped == TypeOK /\ CommitTorn => TypeOK'
<1> SUFFICES ASSUME TypeOK, CommitTorn PROVE TypeOK'
  OBVIOUS
<1>1. /\ db'.len = [t \in Tables |-> OracleOf(t).newSize]
      /\ \A f \in ForeignKeys : db'.col[f] \in {CommitColumn(f), MaterializedColumn(f)}
  BY DEF CommitTorn, Stored
<1>2. DatabaseTyped'
  BY <1>1, CommitColumnRows, StoredTyped
<1> QED
  BY <1>2, CloseTyped DEF CommitTorn, Leaving

\* A block that ends without a commit.
LEMMA DropTyped == TypeOK /\ (CommitRefused \/ Rollback) => TypeOK'
<1> SUFFICES ASSUME TypeOK, CommitRefused \/ Rollback PROVE TypeOK'
  OBVIOUS
<1>1. db' = db /\ Close /\ call.stack = <<>>
  BY DEF CommitRefused, Rollback, Leaving
<1>2. DatabaseTyped'
  BY <1>1 DEF TypeOK, DatabaseTyped, ColumnsHaveTheRows, RowsOf
<1> QED
  BY <1>1, <1>2, CloseTyped

(***************************************************************************)
(* The theorems.                                                           *)
(***************************************************************************)
\* No step of the program leaves the types.
LEMMA StepTyped == TypeOK /\ [Next]_vars => TypeOK'
<1> SUFFICES ASSUME TypeOK, [Next]_vars PROVE TypeOK'
  OBVIOUS
<1>1. CASE Begin
  BY <1>1, BeginTyped
<1>2. CASE \E t \in Tables : \E n \in 1 .. MaxStaged :
             \E rows \in [1 .. n -> RowsToAdd(t)] : AddEntries(t, rows)
  BY <1>2, AddTyped
<1>3. CASE \E f \in ForeignKeys :
             \E rows \in (SUBSET (RowsOf(Source[f]) \cup StagedIds(Source[f]))) \ {{}} :
               \E target \in KeysTo(Target[f]) : UpdateEntries(f, rows, target)
  <2>1. \A f \in ForeignKeys : RowsOf(Source[f]) \cup StagedIds(Source[f]) \subseteq Nat
    BY SchemaAssumption, RowsAreIndices
  <2> QED
    BY <1>3, <2>1, UpdateTyped
<1>4. CASE \E t \in Tables :
             \E ids \in (SUBSET (RowsOf(t) \cup StagedIds(t))) \ {{}} : DelEntries(t, ids)
  BY <1>4, DelTyped
<1>5. CASE ExpandSubscriber
  BY <1>5, ExpandTyped
<1>6. CASE ReturnInner
  BY <1>6, ReturnInnerTyped
<1>7. CASE ReturnOuter
  BY <1>7, ReturnOuterTyped
<1>8. CASE Commit
  BY <1>8, CommitTyped
<1>9. CASE CommitTorn
  BY <1>9, CommitTornTyped
<1>10. CASE CommitRefused \/ Rollback
  BY <1>10, DropTyped
<1>11. CASE UNCHANGED vars
  <2>1. db' = db /\ tx' = tx /\ call' = call
    BY <1>11 DEF vars
  <2> QED
    BY <2>1, EditsUntouched, CallKept DEF TypeOK
<1> QED
  BY <1>1, <1>2, <1>3, <1>4, <1>5, <1>6, <1>7, <1>8, <1>9, <1>10, <1>11 DEF Next

\* Type correctness: through every call, cascade and commit, whatever is staged
\* or being expanded concerns committed rows, columns keep the size of their
\* table and no table outgrows its bound.
THEOREM TypeCorrect == Spec => []TypeOK
<1>1. Init => TypeOK
  BY InitTyped
<1>2. TypeOK /\ [Next]_vars => TypeOK'
  BY StepTyped
<1> QED
  BY <1>1, <1>2, PTL DEF Spec

\* In every reachable state, whatever is staged, the oracle that a commit would
\* build numbers the rows that stay or are added without gaps or collisions.
THEOREM RowsRenumbered == Spec => []StagedRowsRenumbered
<1>1. TypeOK => StagedRowsRenumbered
  BY TypedRowsRenumbered
<1> QED
  BY <1>1, TypeCorrect, PTL

-----------------------------------------------------------------------------
(***************************************************************************)
(* Staged keys stay alive.                                                 *)
(***************************************************************************)
\* Keys of staged rows are claimed.
KeysClaimed ==
  \A f \in ForeignKeys : \A k \in DOMAIN tx.additions[Source[f]] :
    tx.additions[Source[f]][k][f] \in tx.claims[Target[f]]

\* No row that is deleted is claimed.
ClaimsStay ==
  \A t \in Tables : tx.claims[t] \cap (tx.deletions[t] \cup call.expanded[t]) = {}

\* No row of a level of the delete call is claimed.
FramesUnclaimed ==
  \A i \in 1 .. Len(call.stack) :
    tx.claims[call.stack[i].table] \cap call.stack[i].ids = {}

\* ClaimsKept in these terms.
LEMMA ClaimsKeptParts ==
  ASSUME TypeOK
  PROVE  ClaimsKept <=> KeysClaimed /\ ClaimsStay /\ FramesUnclaimed
<1>1. DOMAIN call.stack = 1 .. Len(call.stack)
  BY LenProperties DEF TypeOK, CallTyped
<1> QED
  BY <1>1 DEF ClaimsKept, KeysClaimed, ClaimsStay, FramesUnclaimed

\* A step after which nothing is staged or expanded.
LEMMA NothingClaimed ==
  ASSUME tx' = NoTx \/ tx' = [NoTx EXCEPT !.open = TRUE], call' = NoCall
  PROVE  ClaimsKept'
<1>1. /\ \A t \in Tables : tx'.additions[t] = <<>> /\ tx'.claims[t] = {}
      /\ call'.stack = <<>>
  BY DEF NoTx, NoCall
<1>2. DOMAIN <<>> = {}
  OBVIOUS
<1>3. \A f \in ForeignKeys : Source[f] \in Tables
  BY SchemaAssumption
<1> QED
  BY <1>1, <1>2, <1>3 DEF ClaimsKept

\* A call that stages nothing and expands nothing.
LEMMA ClaimsUntouched ==
  ASSUME TypeOK, ClaimsKept,
         tx'.additions = tx.additions, tx'.claims = tx.claims,
         tx'.deletions = tx.deletions, call' = call \/ call' = NoCall
  PROVE  ClaimsKept'
<1>1. CASE call' = call
  BY <1>1 DEF ClaimsKept
<1>2. CASE call' = NoCall
  <2>1. /\ call'.stack = <<>> /\ DOMAIN <<>> = {}
        /\ \A t \in Tables : call'.expanded[t] = {}
    BY <1>2 DEF NoCall
  <2> QED
    BY <2>1 DEF ClaimsKept
<1> QED
  BY <1>1, <1>2

\* register_additions: what it claims is not marked for deletion, and no delete
\* call is under way.
LEMMA AddKeepsClaims ==
  ASSUME TypeOK, ClaimsKept, NEW t \in Tables, NEW n \in 1 .. MaxStaged,
         NEW newRows \in [1 .. n -> RowsToAdd(t)], AddEntries(t, newRows)
  PROVE  ClaimsKept'
<1> DEFINE targets(f) == {newRows[i][f] : i \in DOMAIN newRows}
           void == \E f \in KeysOf(t) : targets(f) \cap tx.deletions[Target[f]] # {}
           claimed(u) == UNION {targets(f) : f \in {g \in KeysOf(t) : Target[g] = u}}
<1>0. tx \in StagedEdits
  BY DEF TypeOK, EditsTyped
<1>1. call' = call /\ call = NoCall
  BY DEF AddEntries, Ready, TypeOK, CallTyped
<1>2. CASE void
  <2>1. tx' = [tx EXCEPT !.calls = @ + 1, !.staged = @ \cup {t}]
    BY <1>2 DEF AddEntries
  <2>2. /\ tx'.additions = tx.additions /\ tx'.claims = tx.claims
        /\ tx'.deletions = tx.deletions
    BY <1>0, <2>1 DEF StagedEdits
  <2> QED
    BY <1>1, <2>2, ClaimsUntouched
<1>3. CASE ~void
  <2>1. /\ tx'.additions = [tx.additions EXCEPT ![t] = @ \o newRows]
        /\ tx'.claims = [u \in Tables |-> tx.claims[u] \cup claimed(u)]
        /\ tx'.deletions = tx.deletions
    <3>1. tx' = [tx EXCEPT !.calls = @ + 1, !.staged = @ \cup {t},
                           !.additions[t] = @ \o newRows,
                           !.claims = [u \in Tables |-> @[u] \cup claimed(u)]]
      BY <1>3 DEF AddEntries
    <3> HIDE DEF claimed
    <3> QED
      BY <1>0, <3>1 DEF StagedEdits
  <2>2. ASSUME NEW u \in Tables
        PROVE  claimed(u) \cap tx.deletions[u] = {}
    BY <1>3
  <2>3. KeysClaimed'
    <3> SUFFICES ASSUME NEW f \in ForeignKeys, NEW k \in DOMAIN tx'.additions[Source[f]]
                 PROVE  tx'.additions[Source[f]][k][f] \in tx'.claims[Target[f]]
      BY DEF KeysClaimed
    <3>1. Source[f] \in Tables /\ Target[f] \in Tables
      BY SchemaAssumption
    <3>2. DOMAIN tx.additions = Tables
      BY <1>0, EditFields DEF StagedAdditions
    <3>3. tx'.claims[Target[f]] = tx.claims[Target[f]] \cup claimed(Target[f])
      BY <2>1, <3>1
    <3>4. \A j \in DOMAIN tx.additions[Source[f]] :
            tx.additions[Source[f]][j][f] \in tx.claims[Target[f]]
      BY DEF ClaimsKept
    <3>5. CASE Source[f] # t
      <4> HIDE DEF claimed
      <4> QED
        BY <2>1, <3>2, <3>3, <3>4, <3>5
    <3>6. CASE Source[f] = t
      <4>1. tx'.additions[t] = tx.additions[t] \o newRows
        BY <2>1, <3>2
      <4>2. newRows \in Seq(StagedRow(t)) /\ DOMAIN newRows = 1 .. Len(newRows)
            /\ Len(newRows) \in Nat
        <5>1. newRows \in [1 .. n -> StagedRow(t)]
          BY RowsToAddAreRows
        <5>2. n \in Nat
          BY SizeAssumption
        <5>3. newRows \in Seq(StagedRow(t))
          BY <5>1, <5>2, SeqDef
        <5> QED
          BY <5>3, LenProperties
      <4>3. tx.additions[t] \in Seq(StagedRow(t))
            /\ DOMAIN tx.additions[t] = 1 .. Len(tx.additions[t])
            /\ Len(tx.additions[t]) \in Nat
        <5>1. tx.additions[t] \in Seq(StagedRow(t))
          BY DEF TypeOK, EditsTyped
        <5> QED
          BY <5>1, LenProperties
      <4>4. /\ tx.additions[t] \o newRows \in Seq(StagedRow(t))
            /\ Len(tx.additions[t] \o newRows) = Len(tx.additions[t]) + Len(newRows)
            /\ \A i \in 1 .. Len(tx.additions[t]) + Len(newRows) :
                 (tx.additions[t] \o newRows)[i] =
                   IF i <= Len(tx.additions[t]) THEN tx.additions[t][i]
                                                ELSE newRows[i - Len(tx.additions[t])]
        BY <4>2, <4>3, ConcatProperties
      <4>5. k \in 1 .. Len(tx.additions[t]) + Len(newRows)
        <5>1. DOMAIN (tx.additions[t] \o newRows)
                = 1 .. Len(tx.additions[t] \o newRows)
          BY <4>4, LenProperties
        <5> QED
          BY <3>6, <4>1, <4>4, <5>1
      <4>6. CASE k <= Len(tx.additions[t])
        <5>1. k \in DOMAIN tx.additions[Source[f]]
          BY <3>6, <4>3, <4>5, <4>6
        <5>2. tx'.additions[Source[f]][k] = tx.additions[Source[f]][k]
          BY <3>6, <4>1, <4>4, <4>5, <4>6
        <5> HIDE DEF claimed
        <5> QED
          BY <3>3, <3>4, <5>1, <5>2
      <4>7. CASE ~(k <= Len(tx.additions[t]))
        <5>1. k - Len(tx.additions[t]) \in DOMAIN newRows
          BY <4>2, <4>3, <4>5, <4>7, SMTT(30)
        <5>2. tx'.additions[Source[f]][k] = newRows[k - Len(tx.additions[t])]
          BY <3>6, <4>1, <4>4, <4>5, <4>7, SMTT(30)
        <5>3. f \in KeysOf(t)
          BY <3>6 DEF KeysOf
        <5>4. newRows[k - Len(tx.additions[t])][f] \in claimed(Target[f])
          BY <5>1, <5>3
        <5> HIDE DEF claimed
        <5> QED
          BY <3>3, <5>2, <5>4
      <4> QED
        BY <4>6, <4>7
    <3> QED
      BY <3>5, <3>6
  <2>4. ClaimsKept'
    <3>1. \A u \in Tables : call.expanded[u] = {} /\ call.stack = <<>> /\ DOMAIN <<>> = {}
      BY <1>1 DEF NoCall
    <3>2. ASSUME NEW u \in Tables
          PROVE  tx'.claims[u] \cap (tx'.deletions[u] \cup call'.expanded[u]) = {}
      <4>1. tx.claims[u] \cap tx.deletions[u] = {}
        BY DEF ClaimsKept
      <4> HIDE DEF claimed
      <4> QED
        BY <1>1, <2>1, <2>2, <3>1, <4>1
    <3>3. \A i \in DOMAIN call'.stack :
            tx'.claims[call'.stack[i].table] \cap call'.stack[i].ids = {}
      BY <1>1 DEF NoCall
    <3> QED
      BY <2>3, <3>2, <3>3 DEF ClaimsKept, KeysClaimed
  <2> QED
    BY <2>4
<1> QED
  BY <1>2, <1>3

\* A level is entered only if its rows are not claimed.
LEMMA EnterKeepsClaims ==
  ASSUME TypeOK, ClaimsKept,
         tx'.additions = tx.additions, tx'.claims = tx.claims,
         tx'.deletions = tx.deletions,
         NEW frame \in Frames, NEW stack \in Seq(Frames), NEW expanded,
         \A i \in 1 .. Len(stack) : tx.claims[stack[i].table] \cap stack[i].ids = {},
         \A t \in Tables : tx.claims[t] \cap expanded[t] = {},
         Enter(frame, stack, expanded)
  PROVE  ClaimsKept'
<1>1. CASE call' = NoCall
  BY <1>1, ClaimsUntouched
<1>2. CASE /\ tx.claims[frame.table] \cap frame.ids = {}
           /\ call' = [stack |-> Append(stack, frame), expanded |-> expanded]
  <2>1. Len(stack) \in Nat
    BY LenProperties
  <2>2. /\ Append(stack, frame) \in Seq(Frames)
        /\ Len(Append(stack, frame)) = Len(stack) + 1
        /\ \A i \in 1 .. Len(stack) : Append(stack, frame)[i] = stack[i]
        /\ Append(stack, frame)[Len(stack) + 1] = frame
    BY AppendProperties
  <2>3. DOMAIN Append(stack, frame) = 1 .. Len(stack) + 1
    BY <2>2, LenProperties
  <2>4. call'.stack = Append(stack, frame) /\ call'.expanded = expanded
    BY <1>2
  <2>5. ASSUME NEW i \in DOMAIN call'.stack
        PROVE  tx'.claims[call'.stack[i].table] \cap call'.stack[i].ids = {}
    <3>1. i \in 1 .. Len(stack) \/ i = Len(stack) + 1
      BY <2>1, <2>3, <2>4
    <3> QED
      BY <1>2, <2>2, <2>4, <3>1
  <2>6. \A t \in Tables : tx'.claims[t] \cap (tx'.deletions[t] \cup call'.expanded[t]) = {}
    BY <2>4 DEF ClaimsKept
  <2>7. KeysClaimed'
    BY DEF ClaimsKept, KeysClaimed
  <2> QED
    BY <2>5, <2>6, <2>7 DEF ClaimsKept, KeysClaimed
<1> QED
  BY <1>1, <1>2 DEF Enter

\* register_deletions.
LEMMA DelKeepsClaims ==
  ASSUME TypeOK, ClaimsKept, NEW t \in Tables, NEW ids, DelEntries(t, ids)
  PROVE  ClaimsKept'
<1>0. tx \in StagedEdits
  BY DEF TypeOK, EditsTyped
<1>1. tx' = [tx EXCEPT !.calls = @ + 1]
  BY DEF DelEntries
<1>2. /\ tx'.additions = tx.additions /\ tx'.claims = tx.claims
      /\ tx'.deletions = tx.deletions
  BY <1>0, <1>1 DEF StagedEdits
<1>3. CASE ids \subseteq RowsOf(t)
  <2>1. Frame(t, ids, NothingNulled) \in Frames
    <3>1. RowsOf(t) \subseteq Nat
      BY RowsAreIndices
    <3> QED
      BY <1>3, <3>1 DEF Frame, Frames, NothingNulled, Unlinks
  <2>2. <<>> \in Seq(Frames) /\ Len(<<>>) = 0
    BY EmptySeq
  <2>3. \A u \in Tables : NoCall.expanded[u] = {}
    BY DEF NoCall
  <2>4. Enter(Frame(t, ids, NothingNulled), <<>>, NoCall.expanded)
    BY <1>3 DEF DelEntries
  <2>5. \A i \in 1 .. Len(<<>>) : FALSE
    BY <2>2
  <2> QED
    BY <1>2, <2>1, <2>2, <2>3, <2>4, <2>5, EnterKeepsClaims
<1>4. CASE ~(ids \subseteq RowsOf(t))
  BY <1>2, <1>4, ClaimsUntouched DEF DelEntries
<1> QED
  BY <1>3, <1>4

\* No row of the top level, nor of any level below, is claimed.
LEMMA LevelsUnclaimed ==
  ASSUME TypeOK, ClaimsKept, call.stack # <<>>
  PROVE  /\ tx.claims[Top.table] \cap Top.ids = {}
         /\ \A i \in 1 .. Len(Below) : tx.claims[Below[i].table] \cap Below[i].ids = {}
<1>1. FramesUnclaimed
  BY ClaimsKeptParts
<1>2. Len(call.stack) \in Nat \ {0} /\ Len(Below) = Len(call.stack) - 1
  BY TopTyped
<1>3. call.stack \in Seq(Frames)
  BY DEF TypeOK, CallTyped
<1>4. \A i \in 1 .. Len(call.stack) - 1 : call.stack[i] \in Frames
  BY <1>2, <1>3, ElementOfSeq
<1>5. 1 \in Int /\ Len(call.stack) - 1 \in Int
  BY <1>2
<1>6. \A i \in 1 .. Len(call.stack) - 1 - 1 + 1 : Below[i] = call.stack[1 + i - 1]
  BY <1>4, <1>5, SubSeqProperties DEF Below
<1>7. \A i \in 1 .. Len(Below) : Below[i] = call.stack[i]
  BY <1>2, <1>6
<1>8. Len(call.stack) \in 1 .. Len(call.stack)
      /\ \A i \in 1 .. Len(Below) : i \in 1 .. Len(call.stack)
  BY <1>2
<1> QED
  BY <1>1, <1>7, <1>8 DEF FramesUnclaimed, Top

\* One turn of the loop of expand_and_validate_deletions.
LEMMA ExpandKeepsClaims == TypeOK /\ ClaimsKept /\ ExpandSubscriber => ClaimsKept'
<1> SUFFICES ASSUME TypeOK, ClaimsKept, ExpandSubscriber PROVE ClaimsKept'
  OBVIOUS
<1> DEFINE f == Subscribers[Top.table][Top.sub]
           hit == NewlyHit(Top, f)
           next == [Top EXCEPT !.sub = @ + 1]
           nulling == [Top EXCEPT !.sub = @ + 1, !.nulled[f] = @ \cup hit]
<1>1. tx' = tx /\ call.stack # <<>>
  BY DEF ExpandSubscriber
<1>2. /\ FrameTyped(Top) /\ Top.table \in Tables /\ StackTyped(Below)
      /\ Top.sub \in Nat \ {0} /\ Top.nulled \in Unlinks
  <2>1. FrameTyped(Top) /\ Top.table \in Tables /\ StackTyped(Below)
    BY <1>1, TopTyped
  <2> QED
    BY <2>1 DEF FrameTyped, Frames
<1>3. f \in ForeignKeys /\ Source[f] \in Tables
  <2>1. Subscribers[Top.table] \in Seq(ForeignKeys)
    BY <1>2, SchemaAssumption
  <2>2. Len(Subscribers[Top.table]) \in Nat
    BY <2>1, LenProperties
  <2>3. Top.sub <= Len(Subscribers[Top.table])
    BY DEF ExpandSubscriber
  <2>4. Top.sub \in 1 .. Len(Subscribers[Top.table])
    BY <1>2, <2>2, <2>3
  <2> QED
    BY <2>1, <2>4, ElementOfSeq, SchemaAssumption
<1>4. hit \subseteq RowsOf(Source[f]) /\ RowsOf(Source[f]) \subseteq Nat
  BY <1>3, NewlyHitRows, RowsAreIndices DEF TypeOK, DatabaseTyped
<1> HIDE DEF f, hit
<1>5. /\ Top = [table |-> Top.table, ids |-> Top.ids, sub |-> Top.sub,
                nulled |-> Top.nulled]
      /\ Top.table \in Tables /\ Top.ids \in SUBSET Nat
  BY <1>2 DEF FrameTyped, Frames
<1>6. next \in Frames /\ next.table = Top.table /\ next.ids = Top.ids
  <2>1. next = [table |-> Top.table, ids |-> Top.ids, sub |-> Top.sub + 1,
                nulled |-> Top.nulled]
    BY <1>5
  <2> QED
    BY <1>2, <1>5, <2>1 DEF Frames
<1>7. nulling \in Frames /\ nulling.table = Top.table /\ nulling.ids = Top.ids
  <2> DEFINE nulled == [Top.nulled EXCEPT ![f] = @ \cup hit]
  <2>0. nulling = [Top EXCEPT !.sub = Top.sub + 1, !.nulled = nulled]
    BY <1>2 DEF FrameTyped, Frames
  <2>1. nulling = [table |-> Top.table, ids |-> Top.ids, sub |-> Top.sub + 1,
                   nulled |-> nulled]
    <3> HIDE DEF nulled, nulling
    <3> QED
      BY <1>5, <2>0
  <2>2. nulled \in Unlinks
    BY <1>2, <1>3, <1>4 DEF Unlinks
  <2> HIDE DEF nulled
  <2> QED
    BY <1>2, <1>5, <2>1, <2>2 DEF Frames
<1>8. /\ tx.claims[Top.table] \cap Top.ids = {}
      /\ \A i \in 1 .. Len(Below) : tx.claims[Below[i].table] \cap Below[i].ids = {}
  BY <1>1, LevelsUnclaimed
<1>9. ASSUME NEW top \in {next, nulling}
      PROVE  /\ Append(Below, top) \in Seq(Frames)
             /\ DOMAIN Append(Below, top) = 1 .. Len(Append(Below, top))
             /\ \A i \in 1 .. Len(Append(Below, top)) :
                  tx.claims[Append(Below, top)[i].table]
                    \cap Append(Below, top)[i].ids = {}
  <2>1. Below \in Seq(Frames) /\ Len(Below) \in Nat /\ top \in Frames
    BY <1>2, <1>6, <1>7, LenProperties DEF StackTyped
  <2>2. /\ Append(Below, top) \in Seq(Frames)
        /\ Len(Append(Below, top)) = Len(Below) + 1
        /\ \A i \in 1 .. Len(Below) : Append(Below, top)[i] = Below[i]
        /\ Append(Below, top)[Len(Below) + 1] = top
    BY <2>1, AppendProperties
  <2>3. DOMAIN Append(Below, top) = 1 .. Len(Append(Below, top))
    BY <2>2, LenProperties
  <2>4. top.table = Top.table /\ top.ids = Top.ids
    BY <1>6, <1>7
  <2>5. \A i \in 1 .. Len(Below) + 1 : i \in 1 .. Len(Below) \/ i = Len(Below) + 1
    BY <2>1
  <2> QED
    BY <1>8, <2>2, <2>3, <2>4, <2>5
<1>10. ASSUME NEW top \in {next, nulling},
              call' = [call EXCEPT !.stack = Append(Below, top)]
       PROVE  ClaimsKept'
  <2>1. call'.stack = Append(Below, top) /\ call'.expanded = call.expanded
    BY <1>10 DEF TypeOK, CallTyped
  <2>2. \A i \in DOMAIN call'.stack :
          tx'.claims[call'.stack[i].table] \cap call'.stack[i].ids = {}
    BY <1>1, <1>9, <2>1
  <2> QED
    BY <1>1, <2>1, <2>2 DEF ClaimsKept
<1>11. CASE call' = NoCall
  BY <1>1, <1>11, ClaimsUntouched
<1>12. CASE Enter(Frame(Source[f], hit, Top.nulled), Append(Below, next), call.expanded)
  <2>1. Frame(Source[f], hit, Top.nulled) \in Frames
    BY <1>2, <1>3, <1>4 DEF Frame, Frames
  <2>2. \A t \in Tables : tx.claims[t] \cap call.expanded[t] = {}
    BY DEF ClaimsKept
  <2>3. /\ Append(Below, next) \in Seq(Frames)
        /\ \A i \in 1 .. Len(Append(Below, next)) :
             tx.claims[Append(Below, next)[i].table] \cap Append(Below, next)[i].ids = {}
    BY <1>9
  <2>4. /\ tx'.additions = tx.additions /\ tx'.claims = tx.claims
        /\ tx'.deletions = tx.deletions
    BY <1>1
  <2> HIDE DEF next
  <2> QED
    BY <1>12, <2>1, <2>2, <2>3, <2>4, EnterKeepsClaims
<1> QED
  BY <1>10, <1>11, <1>12 DEF ExpandSubscriber, f, hit

\* An inner level returns: what it expanded is not claimed.
LEMMA ReturnInnerKeepsClaims == TypeOK /\ ClaimsKept /\ ReturnInner => ClaimsKept'
<1> SUFFICES ASSUME TypeOK, ClaimsKept, ReturnInner PROVE ClaimsKept'
  OBVIOUS
<1> DEFINE n == Len(Below)
           nulled == IF Below[n].nulled # NothingNulled THEN Top.nulled
                                                        ELSE Below[n].nulled
<1>1. tx' = tx /\ call.stack # <<>>
  <2>1. Len(<<>>) = 0
    BY EmptySeq
  <2> QED
    BY <2>1 DEF ReturnInner
<1>2. /\ Top.table \in Tables /\ Below \in Seq(Frames) /\ DOMAIN Below = 1 .. Len(Below)
  BY <1>1, TopTyped, LenProperties DEF StackTyped
<1>3. /\ tx.claims[Top.table] \cap Top.ids = {}
      /\ \A i \in 1 .. Len(Below) : tx.claims[Below[i].table] \cap Below[i].ids = {}
  BY <1>1, LevelsUnclaimed
<1>4. /\ call'.stack = [Below EXCEPT ![n].nulled =
                          IF Below[n].nulled # NothingNulled THEN Top.nulled ELSE @]
      /\ call'.expanded = [call.expanded EXCEPT ![Top.table] = @ \cup Top.ids]
  BY DEF ReturnInner
<1>5. DOMAIN call'.stack = 1 .. Len(Below)
  BY <1>2, <1>4
<1>6. ASSUME NEW i \in 1 .. Len(Below)
      PROVE  call'.stack[i].table = Below[i].table /\ call'.stack[i].ids = Below[i].ids
  <2>1. Below[i] \in Frames
    BY <1>2, ElementOfSeq
  <2>2. CASE i = n
    <3>1. call'.stack[i] = [Below[i] EXCEPT !.nulled = nulled]
      BY <1>2, <1>4, <2>2
    <3> HIDE DEF nulled
    <3> QED
      BY <2>1, <3>1 DEF Frames
  <2>3. CASE i # n
    BY <1>2, <1>4, <2>3
  <2> QED
    BY <2>2, <2>3
<1>7. \A t \in Tables : tx.claims[t] \cap call'.expanded[t] = {}
  <2>1. call.expanded \in [Tables -> SUBSET Nat]
    BY DEF TypeOK, CallTyped, RowSets
  <2>2. \A t \in Tables : tx.claims[t] \cap call.expanded[t] = {}
    BY DEF ClaimsKept
  <2> QED
    BY <1>3, <1>4, <2>1, <2>2
<1>8. \A t \in Tables : tx'.claims[t] \cap (tx'.deletions[t] \cup call'.expanded[t]) = {}
  BY <1>1, <1>7 DEF ClaimsKept
<1>9. \A i \in DOMAIN call'.stack :
        tx'.claims[call'.stack[i].table] \cap call'.stack[i].ids = {}
  BY <1>1, <1>3, <1>5, <1>6
<1> QED
  BY <1>1, <1>8, <1>9 DEF ClaimsKept

\* The outermost level returns: no row of any level was claimed, so none of the
\* rows it stages is.
LEMMA ReturnOuterKeepsClaims == TypeOK /\ ClaimsKept /\ ReturnOuter => ClaimsKept'
<1> SUFFICES ASSUME TypeOK, ClaimsKept, ReturnOuter PROVE ClaimsKept'
  OBVIOUS
<1> DEFINE final == [call.expanded EXCEPT ![Top.table] = @ \cup Top.ids]
           deletions == [t \in Tables |-> tx.deletions[t] \cup final[t]]
           unlinks == [f \in ForeignKeys |->
                         tx.unlinks[f] \cup (Top.nulled[f] \ final[Source[f]])]
<1>0. tx \in StagedEdits
  BY DEF TypeOK, EditsTyped
<1>1. call' = NoCall /\ call.stack # <<>>
  <2>1. Len(<<>>) = 0
    BY EmptySeq
  <2>2. Len(call.stack) = 1 /\ call' = NoCall
    BY DEF ReturnOuter
  <2> QED
    BY <2>1, <2>2
<1>2. Top.table \in Tables /\ tx.claims[Top.table] \cap Top.ids = {}
  BY <1>1, TopTyped, LevelsUnclaimed
<1>3. \A t \in Tables : tx.claims[t] \cap deletions[t] = {}
  <2>1. call.expanded \in [Tables -> SUBSET Nat]
    BY DEF TypeOK, CallTyped, RowSets
  <2>2. \A t \in Tables : tx.claims[t] \cap (tx.deletions[t] \cup call.expanded[t]) = {}
    BY DEF ClaimsKept
  <2> QED
    BY <1>2, <2>1, <2>2
<1>4. tx' = [tx EXCEPT !.deletions = deletions, !.unlinks = unlinks]
  BY DEF ReturnOuter
<1> HIDE DEF deletions, unlinks
<1>5. /\ tx'.additions = tx.additions /\ tx'.claims = tx.claims
      /\ tx'.deletions = deletions
  BY <1>0, <1>4 DEF StagedEdits
<1>6. /\ \A t \in Tables : call'.expanded[t] = {}
      /\ call'.stack = <<>> /\ DOMAIN <<>> = {}
  BY <1>1 DEF NoCall
<1>7. \A t \in Tables : tx'.claims[t] \cap (tx'.deletions[t] \cup call'.expanded[t]) = {}
  BY <1>3, <1>5, <1>6
<1> QED
  BY <1>5, <1>6, <1>7 DEF ClaimsKept

\* Every other step stages nothing, or drops what is staged.
LEMMA UpdateKeepsClaims ==
  ASSUME TypeOK, ClaimsKept, NEW f, NEW rows, NEW target, UpdateEntries(f, rows, target)
  PROVE  ClaimsKept'
<1> DEFINE changed == {r \in rows : db.col[f].fk[r] # target}
           entry == [k \in 1 .. Cardinality(changed) |->
                       [row |-> Nth(k - 1, changed), target |-> target]]
<1>0. tx \in StagedEdits
  BY DEF TypeOK, EditsTyped
<1>1. call' = call
  BY DEF UpdateEntries
<1>2. \/ tx' = [tx EXCEPT !.calls = @ + 1]
      \/ tx' = [tx EXCEPT !.calls = @ + 1, !.updates[f] = @ \o entry]
  BY DEF UpdateEntries, Refuse
<1> HIDE DEF entry
<1>3. /\ tx'.additions = tx.additions /\ tx'.claims = tx.claims
      /\ tx'.deletions = tx.deletions
  BY <1>0, <1>2 DEF StagedEdits
<1> QED
  BY <1>1, <1>3, ClaimsUntouched

\* Blocks begin and end without claims.
LEMMA BlockEndsClaims ==
  TypeOK /\ ClaimsKept /\ (Begin \/ Commit \/ CommitTorn \/ CommitRefused \/ Rollback)
    => ClaimsKept'
<1> SUFFICES ASSUME TypeOK, ClaimsKept,
                    Begin \/ Commit \/ CommitTorn \/ CommitRefused \/ Rollback
             PROVE  ClaimsKept'
  OBVIOUS
<1>1. CASE Begin
  <2>1. tx' = [NoTx EXCEPT !.open = TRUE] /\ call' = call
    BY <1>1 DEF Begin
  <2>2. /\ \A t \in Tables : tx'.additions[t] = <<>> /\ tx'.claims[t] = {}
        /\ DOMAIN <<>> = {}
    BY <2>1 DEF NoTx
  <2>3. /\ \A f \in ForeignKeys : Source[f] \in Tables
        /\ \A i \in DOMAIN call.stack : call.stack[i].table \in Tables
    <3>1. call.stack \in Seq(Frames) /\ DOMAIN call.stack = 1 .. Len(call.stack)
      BY LenProperties DEF TypeOK, CallTyped
    <3>2. \A i \in DOMAIN call.stack : call.stack[i] \in Frames
      BY <3>1, ElementOfSeq
    <3> QED
      BY <3>2, SchemaAssumption DEF Frames
  <2> QED
    BY <2>1, <2>2, <2>3 DEF ClaimsKept
<1>2. CASE Commit \/ CommitTorn \/ CommitRefused \/ Rollback
  <2>1. call.stack = <<>> /\ Close
    BY <1>2 DEF Commit, CommitTorn, CommitRefused, Rollback, Leaving
  <2>2. tx' = NoTx /\ call' = NoCall
    BY <2>1 DEF Close, TypeOK, CallTyped
  <2> QED
    BY <2>2, NothingClaimed
<1> QED
  BY <1>1, <1>2

\* No claimed row is ever marked for deletion or expanded
\* (TransactionContext.new_fk_claims).
THEOREM ClaimsAreKept == Spec => []ClaimsKept
<1>1. Init => ClaimsKept
  <2>1. Init => call = NoCall /\ tx = NoTx
    BY DEF Init
  <2>2. /\ \A t \in Tables : NoTx.additions[t] = <<>> /\ NoTx.claims[t] = {}
        /\ NoCall.stack = <<>> /\ DOMAIN <<>> = {}
    BY DEF NoTx, NoCall
  <2>3. \A f \in ForeignKeys : Source[f] \in Tables
    BY SchemaAssumption
  <2> QED
    BY <2>1, <2>2, <2>3 DEF ClaimsKept
<1>2. TypeOK /\ ClaimsKept /\ [Next]_vars => ClaimsKept'
  <2> SUFFICES ASSUME TypeOK, ClaimsKept, [Next]_vars PROVE ClaimsKept'
    OBVIOUS
  <2>1. CASE Begin \/ Commit \/ CommitTorn \/ CommitRefused \/ Rollback
    BY <2>1, BlockEndsClaims
  <2>2. CASE \E t \in Tables : \E n \in 1 .. MaxStaged :
               \E rows \in [1 .. n -> RowsToAdd(t)] : AddEntries(t, rows)
    BY <2>2, AddKeepsClaims
  <2>3. CASE \E f \in ForeignKeys :
               \E rows \in (SUBSET (RowsOf(Source[f]) \cup StagedIds(Source[f]))) \ {{}} :
                 \E target \in KeysTo(Target[f]) : UpdateEntries(f, rows, target)
    BY <2>3, UpdateKeepsClaims
  <2>4. CASE \E t \in Tables :
               \E ids \in (SUBSET (RowsOf(t) \cup StagedIds(t))) \ {{}} : DelEntries(t, ids)
    BY <2>4, DelKeepsClaims
  <2>5. CASE ExpandSubscriber
    BY <2>5, ExpandKeepsClaims
  <2>6. CASE ReturnInner
    BY <2>6, ReturnInnerKeepsClaims
  <2>7. CASE ReturnOuter
    BY <2>7, ReturnOuterKeepsClaims
  <2>8. CASE UNCHANGED vars
    BY <2>8, ClaimsUntouched DEF vars
  <2> QED
    BY <2>1, <2>2, <2>3, <2>4, <2>5, <2>6, <2>7, <2>8 DEF Next
<1> QED
  BY <1>1, <1>2, TypeCorrect, PTL DEF Spec

\* No staged row ever references a row that is marked for deletion, whichever
\* call comes first and however far a deletion cascades.
THEOREM StagedKeysAreLive == Spec => []StagedKeysLive
<1>1. ClaimsKept => StagedKeysLive
  BY SchemaAssumption DEF ClaimsKept, StagedKeysLive
<1> QED
  BY <1>1, ClaimsAreKept, PTL

(***************************************************************************)
(* Deletions are closed.                                                   *)
(***************************************************************************)
\* The subscribers of a table are the keys that target it, all of them and no
\* others (SchemaRegistry models how the schemas enter them).
SubscribersMatch ==
  /\ \A f \in ForeignKeys : \E j \in 1 .. Len(Subscribers[Target[f]]) :
       Subscribers[Target[f]][j] = f
  /\ \A t \in Tables : \A j \in 1 .. Len(Subscribers[t]) :
       Target[Subscribers[t][j]] = t

\* No nulling key refers to a table whose rows can go by a cascade: what a level
\* below nulls is lost when the level above has nulled nothing.
NullsOnTop ==
  \A g \in ForeignKeys : OnDelete[g] = "CASCADE" =>
    \A j \in 1 .. Len(Subscribers[Source[g]]) :
      OnDelete[Subscribers[Source[g]][j]] # "SET_NULL"

\* Key f of row r needs no more care: the row is deleted or about to be, or its
\* key is replaced, nulled, or about to be.
Handled(f, r) ==
  \/ r \in tx.deletions[Source[f]]
  \/ r \in Relinked(f)
  \/ r \in call.expanded[Source[f]]
  \/ \E k \in 1 .. Len(call.stack) :
       \/ call.stack[k].table = Source[f] /\ r \in call.stack[k].ids
       \/ r \in call.stack[k].nulled[f]

\* No row that references an expanded row has been forgotten,
ExpandedHandled ==
  \A f \in ForeignKeys : \A r \in RowsOf(Source[f]) :
    db.col[f].fk[r] \in call.expanded[Target[f]] => Handled(f, r)

\* nor one that references a row of a level by a key the level is through with.
Passed(frame, f) ==
  \E j \in 1 .. Len(Subscribers[frame.table]) :
    j < frame.sub /\ Subscribers[frame.table][j] = f

LevelsHandled ==
  \A k \in 1 .. Len(call.stack) : \A f \in ForeignKeys : Passed(call.stack[k], f) =>
    \A r \in RowsOf(Source[f]) :
      db.col[f].fk[r] \in call.stack[k].ids => Handled(f, r)

\* The levels below the first belong to cascading keys, and know the keys that
\* the first has nulled and no others.
LevelsCascade ==
  \A k \in 1 .. Len(call.stack) :
    /\ call.stack[k].nulled = call.stack[1].nulled
    /\ k > 1 => \E g \in ForeignKeys :
                  OnDelete[g] = "CASCADE" /\ call.stack[k].table = Source[g]

\* Delete calls are made in blocks, and a database that a commit has left torn
\* sees no more of them.
CallsInBlocks ==
  /\ call # NoCall => tx.open
  /\ db.torn => tx = NoTx

Followed ==
  /\ DeletionsClosed
  /\ ExpandedHandled
  /\ LevelsHandled
  /\ LevelsCascade
  /\ CallsInBlocks

\* Walking as many rows as the count says, or as there are, finds every row that
\* references the target, as long as lists and counts match the keys.
LEMMA ReferrersFound ==
  ASSUME TypeOK, ListsMatchKeys, CountsMatchLists,
         NEW f \in ForeignKeys, NEW i \in RowsOf(Target[f])
  PROVE  ReferrersOf(f, i) \subseteq Referencing(f, i)
<1> DEFINE c == db.col[f]
           h == c.head[i]
           R == ReferrersOf(f, i)
           n == Cardinality(R)
<1>1. Source[f] \in Tables /\ Target[f] \in Tables
  BY SchemaAssumption
<1>2. /\ DOMAIN c.nxt = RowsOf(Source[f]) /\ RowsOf(Source[f]) \subseteq Nat
      /\ IsFiniteSet(RowsOf(Source[f]))
  BY <1>1, RowsAreIndices DEF TypeOK, DatabaseTyped, ColumnsHaveTheRows
<1>3. db.len[Source[f]] \in Nat /\ Missing \notin RowsOf(Source[f])
  <2>1. /\ db.len[Source[f]] \in Nat /\ MaxRows[Source[f]] \in Nat /\ MaxStaged \in Nat
        /\ db.len[Source[f]] <= MaxRows[Source[f]]
        /\ MaxRows[Source[f]] + MaxStaged <= Missing
    BY <1>1, SizeAssumption DEF TypeOK, DatabaseTyped
  <2> QED
    BY <2>1, MissingIsNat DEF RowsOf
<1>4. /\ Chain(f, i) = R
      /\ Node(c.nxt, h, n) = Missing
  BY DEF ListsMatchKeys
<1>5. CASE TrackCounts
  <2>1. c.cnt[i] = n
    BY <1>5 DEF CountsMatchLists
  <2>2. n \in Nat
    <3>1. R \subseteq RowsOf(Source[f])
      BY DEF ReferrersOf
    <3>2. IsFiniteSet(R)
      BY <1>2, <3>1, FS_Subset
    <3> QED
      BY <3>2, FS_CardinalityType
  <2>3. ASSUME NEW r \in R PROVE r \in Referencing(f, i)
    <3>1. /\ r \in DOMAIN c.nxt
          /\ \E k \in 0 .. db.len[Source[f]] - 1 : Node(c.nxt, h, k) = r
      BY <1>4, <2>3 DEF Chain, Reached
    <3>2. PICK k \in 0 .. db.len[Source[f]] - 1 : Node(c.nxt, h, k) = r
      BY <3>1
    <3>3. k \in Nat
      OBVIOUS
    <3> HIDE DEF n, R, c, h
    <3>4. k < n
      <4>1. SUFFICES ASSUME n <= k PROVE FALSE
        BY <2>2, <3>3
      <4>2. Node(c.nxt, h, k) = Missing
        BY <1>2, <1>3, <1>4, <2>2, <3>3, <4>1, NodeStaysMissing
      <4> QED
        BY <1>2, <1>3, <3>1, <3>2, <4>2
    <3>5. k \in 0 .. n - 1
      BY <2>2, <3>3, <3>4
    <3>6. r \in Reached(c.nxt, h, n)
      BY <3>1, <3>2, <3>5 DEF Reached
    <3> QED
      BY <1>5, <2>1, <3>6 DEF Referencing, c, h
  <2> QED
    BY <2>3
<1>6. CASE ~TrackCounts
  <2>1. Cardinality(DOMAIN c.nxt) = db.len[Source[f]]
    <3> DEFINE m == db.len[Source[f]]
    <3>1. 0 \in Int /\ m - 1 \in Int /\ m \in Nat
      BY <1>3
    <3>2. Cardinality(0 .. m - 1) = IF 0 > m - 1 THEN 0 ELSE (m - 1) - 0 + 1
      BY <3>1, FS_Interval
    <3>3. Cardinality(0 .. m - 1) = m
      BY <3>1, <3>2
    <3> QED
      BY <1>2, <3>3 DEF RowsOf
  <2>2. Referencing(f, i) = Chain(f, i)
    BY <1>6, <2>1 DEF Referencing, Chain
  <2> QED
    BY <1>4, <2>2
<1> QED
  BY <1>5, <1>6

\* A key that needs no more care still needs none when rows only go from a level
\* to the expanded ones and nulled keys stay nulled.
LEMMA HandledStays ==
  ASSUME NEW f \in ForeignKeys, NEW r, Handled(f, r),
         tx'.deletions = tx.deletions, tx'.updates = tx.updates,
         call.expanded[Source[f]] \subseteq call'.expanded[Source[f]],
         \A k \in 1 .. Len(call.stack) :
           \/ call.stack[k].table = Source[f] => call.stack[k].ids \subseteq call'.expanded[Source[f]]
           \/ \E m \in 1 .. Len(call'.stack) :
                /\ call'.stack[m].table = call.stack[k].table
                /\ call'.stack[m].ids = call.stack[k].ids,
         \A k \in 1 .. Len(call.stack) : \E m \in 1 .. Len(call'.stack) :
           call.stack[k].nulled[f] \subseteq call'.stack[m].nulled[f]
  PROVE  Handled(f, r)'
<1>1. CASE r \in tx.deletions[Source[f]] \/ r \in Relinked(f) \/ r \in call.expanded[Source[f]]
  BY <1>1 DEF Handled, Relinked
<1>2. ASSUME NEW k \in 1 .. Len(call.stack),
             call.stack[k].table = Source[f] /\ r \in call.stack[k].ids
      PROVE  Handled(f, r)'
  BY <1>2 DEF Handled
<1>3. ASSUME NEW k \in 1 .. Len(call.stack), r \in call.stack[k].nulled[f]
      PROVE  Handled(f, r)'
  BY <1>3 DEF Handled
<1> QED
  BY <1>1, <1>2, <1>3 DEF Handled

\* One turn of the loop for key f at level n, whatever it does with the rows it
\* finds: the level moves on to the next key, perhaps by way of a level below.
Turned(f, n) ==
  /\ call'.expanded = call.expanded
  /\ Len(call'.stack) = n \/ Len(call'.stack) = n + 1
  /\ \A k \in 1 .. n - 1 : call'.stack[k] = call.stack[k]
  /\ call'.stack[n].table = Top.table /\ call'.stack[n].ids = Top.ids
  /\ call'.stack[n].sub = Top.sub + 1
  /\ \A g \in ForeignKeys : Top.nulled[g] \subseteq call'.stack[n].nulled[g]
  /\ call'.stack[n].nulled = Top.nulled \/ n = 1
  /\ Len(call'.stack) = n + 1 =>
       /\ call'.stack[n + 1].table = Source[f] /\ OnDelete[f] = "CASCADE"
       /\ call'.stack[n + 1].sub = 1
       /\ call'.stack[n + 1].nulled = call'.stack[n].nulled
  /\ \A r \in RowsOf(Source[f]) : db.col[f].fk[r] \in Top.ids =>
       \/ Handled(f, r)
       \/ r \in call'.stack[n].nulled[f]
       \/ Len(call'.stack) = n + 1 /\ r \in call'.stack[n + 1].ids

\* Such a turn forgets no row.
LEMMA TurnFollowed ==
  ASSUME TypeOK, Followed, call.stack # <<>>, db' = db, tx' = tx,
         NEW f \in ForeignKeys, f = Subscribers[Top.table][Top.sub],
         NEW n \in Nat, n = Len(call.stack), Turned(f, n)
  PROVE  Followed'
<1>1. n # 0 /\ Top = call.stack[n] /\ n \in 1 .. n /\ 1 \in 1 .. n
  <2>1. n # 0
    BY TopTyped
  <2> QED
    BY <2>1 DEF Top
<1>2. /\ \A k \in 1 .. n : k \in 1 .. Len(call'.stack)
      /\ Len(call'.stack) = n + 1 => n + 1 \in 1 .. Len(call'.stack)
      /\ \A k \in 1 .. n : k \in 1 .. n - 1 \/ k = n
      /\ \A k \in 1 .. Len(call'.stack) : k \in 1 .. n \/ (k = n + 1 /\ Len(call'.stack) = n + 1)
  <2> DEFINE m == Len(call'.stack)
  <2>1. m = n \/ m = n + 1
    BY DEF Turned
  <2> HIDE DEF m
  <2>2. /\ \A k \in 1 .. n : k \in 1 .. m
        /\ m = n + 1 => n + 1 \in 1 .. m
        /\ \A k \in 1 .. n : k \in 1 .. n - 1 \/ k = n
        /\ \A k \in 1 .. m : k \in 1 .. n \/ (k = n + 1 /\ m = n + 1)
    BY <1>1, <2>1
  <2> QED
    BY <2>2 DEF m
<1>3. \A k \in 1 .. n : /\ call'.stack[k].table = call.stack[k].table
                        /\ call'.stack[k].ids = call.stack[k].ids
                        /\ k # n => call'.stack[k] = call.stack[k]
                        /\ \A g \in ForeignKeys :
                             call.stack[k].nulled[g] \subseteq call'.stack[k].nulled[g]
  BY <1>1, <1>2 DEF Turned
<1>4. ASSUME NEW g \in ForeignKeys, NEW r, Handled(g, r) PROVE Handled(g, r)'
  <2>1. \A k \in 1 .. Len(call.stack) : \E m \in 1 .. Len(call'.stack) :
          /\ call'.stack[m].table = call.stack[k].table
          /\ call'.stack[m].ids = call.stack[k].ids
    BY <1>2, <1>3
  <2>2. \A k \in 1 .. Len(call.stack) : \E m \in 1 .. Len(call'.stack) :
          call.stack[k].nulled[g] \subseteq call'.stack[m].nulled[g]
    BY <1>2, <1>3
  <2> QED
    BY <1>4, <2>1, <2>2, HandledStays DEF Turned
<1>5. ASSUME NEW r \in RowsOf(Source[f]), db.col[f].fk[r] \in Top.ids
      PROVE  Handled(f, r)'
  <2>1. CASE Handled(f, r)
    BY <1>4, <2>1
  <2>2. CASE r \in call'.stack[n].nulled[f]
    BY <1>1, <1>2, <2>2 DEF Handled
  <2>3. CASE Len(call'.stack) = n + 1 /\ r \in call'.stack[n + 1].ids
    BY <1>2, <2>3 DEF Handled, Turned
  <2> QED
    BY <1>5, <2>1, <2>2, <2>3 DEF Turned
<1>6. DeletionsClosed'
  BY DEF Followed, DeletionsClosed, RowsOf, Relinked
<1>7. ExpandedHandled'
  <2> SUFFICES ASSUME NEW g \in ForeignKeys, NEW r \in RowsOf(Source[g]),
                      db.col[g].fk[r] \in call.expanded[Target[g]]
               PROVE  Handled(g, r)'
    BY DEF ExpandedHandled, RowsOf, Turned
  <2> QED
    BY <1>4 DEF Followed, ExpandedHandled
<1>8. LevelsHandled'
  <2> SUFFICES ASSUME NEW k \in 1 .. Len(call'.stack), NEW g \in ForeignKeys,
                      Passed(call'.stack[k], g),
                      NEW r \in RowsOf(Source[g]), db.col[g].fk[r] \in call'.stack[k].ids
               PROVE  Handled(g, r)'
    BY DEF LevelsHandled, RowsOf
  <2>1. PICK j \in 1 .. Len(Subscribers[call'.stack[k].table]) :
          j < call'.stack[k].sub /\ Subscribers[call'.stack[k].table][j] = g
    BY DEF Passed
  <2>2. CASE k = n + 1 /\ Len(call'.stack) = n + 1
    <3>1. call'.stack[k].sub = 1
      BY <2>2 DEF Turned
    <3> QED
      BY <2>1, <3>1
  <2>3. CASE k \in 1 .. n
    <3>1. call'.stack[k].table = call.stack[k].table /\ call'.stack[k].ids = call.stack[k].ids
      BY <1>3, <2>3
    <3>2. CASE j < call.stack[k].sub
      <4>1. Passed(call.stack[k], g)
        BY <2>1, <3>1, <3>2 DEF Passed
      <4>2. Handled(g, r)
        BY <2>3, <3>1, <4>1 DEF Followed, LevelsHandled
      <4> QED
        BY <1>4, <4>2
    <3>3. CASE ~(j < call.stack[k].sub)
      <4>1. k = n
        BY <1>3, <2>1, <2>3, <3>3
      <4>2. Top.sub \in Nat
        BY TopTyped DEF FrameTyped, Frames
      <4>3. j \in Int /\ j < Top.sub + 1 /\ ~(j < Top.sub)
        <5>1. call'.stack[n].sub = Top.sub + 1 /\ j < call'.stack[n].sub
          BY <2>1, <4>1 DEF Turned
        <5>2. ~(j < Top.sub)
          BY <1>1, <3>3, <4>1
        <5> QED
          BY <5>1, <5>2
      <4>4. j = Top.sub
        BY <4>2, <4>3
      <4>5. g = f /\ call'.stack[k].ids = Top.ids
        BY <1>1, <2>1, <3>1, <4>1, <4>4
      <4> QED
        BY <1>5, <4>5
    <3> QED
      BY <3>2, <3>3
  <2> QED
    BY <1>2, <2>2, <2>3
<1>9. LevelsCascade'
  <2> SUFFICES ASSUME NEW k \in 1 .. Len(call'.stack)
               PROVE  /\ call'.stack[k].nulled = call'.stack[1].nulled
                      /\ k > 1 => \E g \in ForeignKeys :
                            OnDelete[g] = "CASCADE" /\ call'.stack[k].table = Source[g]
    BY DEF LevelsCascade
  <2>1. ASSUME NEW m \in 1 .. n
        PROVE  call'.stack[m].nulled = call'.stack[1].nulled
    <3>1. CASE n = 1
      <4>1. m = 1
        BY <3>1
      <4> QED
        BY <4>1
    <3>2. CASE n # 1
      <4>1. 1 \in 1 .. n /\ 1 # n
        BY <1>1, <3>2
      <4>2. call'.stack[m].nulled = call.stack[m].nulled
        BY <1>1, <1>3, <3>2 DEF Turned
      <4>3. call'.stack[1].nulled = call.stack[1].nulled
        BY <1>3, <4>1
      <4>4. call.stack[m].nulled = call.stack[1].nulled
        BY DEF Followed, LevelsCascade
      <4> QED
        BY <4>2, <4>3, <4>4
    <3> QED
      BY <3>1, <3>2
  <2>2. CASE k \in 1 .. n
    BY <1>3, <2>1, <2>2 DEF Followed, LevelsCascade
  <2>3. CASE k = n + 1 /\ Len(call'.stack) = n + 1
    BY <1>1, <2>1, <2>3 DEF Turned
  <2> QED
    BY <1>2, <2>2, <2>3
<1>10. CallsInBlocks'
  <2>1. call # NoCall
    BY DEF NoCall
  <2> QED
    BY <2>1 DEF Followed, CallsInBlocks
<1> QED
  BY <1>6, <1>7, <1>8, <1>9, <1>10 DEF Followed

\* The levels below the top are those of the stack.
LEMMA BelowIs ==
  ASSUME TypeOK, call.stack # <<>>
  PROVE  \A k \in 1 .. Len(call.stack) - 1 : Below[k] = call.stack[k]
<1>1. Len(call.stack) \in Nat \ {0}
  BY TopTyped
<1>2. call.stack \in Seq(Frames)
  BY DEF TypeOK, CallTyped
<1>3. \A i \in 1 .. Len(call.stack) - 1 : call.stack[i] \in Frames
  BY <1>1, <1>2, ElementOfSeq
<1>4. 1 \in Int /\ Len(call.stack) - 1 \in Int
  BY <1>1
<1>5. \A i \in 1 .. Len(call.stack) - 1 - 1 + 1 : Below[i] = call.stack[1 + i - 1]
  BY <1>3, <1>4, SubSeqProperties DEF Below
<1> QED
  BY <1>1, <1>5

\* When no call is expanding there is only what is staged.
LEMMA CallEndsFollowed ==
  ASSUME call' = NoCall, db'.torn => tx' = NoTx, DeletionsClosed'
  PROVE  Followed'
<1>1. /\ call'.stack = <<>> /\ Len(<<>>) = 0
      /\ \A t \in Tables : call'.expanded[t] = {}
  BY EmptySeq DEF NoCall
<1>2. ExpandedHandled'
  <2>1. \A f \in ForeignKeys : call'.expanded[Target[f]] = {}
    BY <1>1, SchemaAssumption
  <2> QED
    BY <2>1 DEF ExpandedHandled
<1>3. \A k \in 1 .. Len(call'.stack) : FALSE
  BY <1>1
<1>4. LevelsHandled' /\ LevelsCascade'
  BY <1>3 DEF LevelsHandled, LevelsCascade
<1>5. CallsInBlocks'
  BY DEF CallsInBlocks, NoCall
<1> QED
  BY <1>2, <1>4, <1>5 DEF Followed

\* A step that keeps the database and what is staged keeps the deletions closed.
LEMMA ClosedStays ==
  ASSUME DeletionsClosed, db' = db, tx'.deletions = tx.deletions,
         tx'.unlinks = tx.unlinks, \A f \in ForeignKeys : Relinked(f) \subseteq Relinked(f)'
  PROVE  DeletionsClosed'
BY DEF DeletionsClosed, RowsOf

\* A row found from a row of a level is hit, unless it needs no more care.
LEMMA FoundIsHitOrHandled ==
  ASSUME NEW frame, NEW f, NEW i \in frame.ids, NEW r \in Referencing(f, i)
  PROVE  Handled(f, r) \/ r \in NewlyHit(frame, f)
<1> DEFINE found == UNION {Referencing(f, j) : j \in frame.ids}
           done == Relinked(f) \cup tx.deletions[Source[f]] \cup call.expanded[Source[f]]
<1>1. r \in found
  OBVIOUS
<1>2. NewlyHit(frame, f) = found \ done
  BY DEF NewlyHit
<1>3. r \in done => Handled(f, r)
  BY DEF Handled
<1> HIDE DEF found, done
<1> QED
  BY <1>1, <1>2, <1>3

\* One turn of the loop of expand_and_validate_deletions.
LEMMA ExpandFollowed ==
  ASSUME SubscribersMatch, NullsOnTop, TypeOK, Followed,
         ~db.torn => ListsMatchKeys /\ CountsMatchLists, ExpandSubscriber
  PROVE  Followed'
<1> DEFINE n == Len(call.stack)
           f == Subscribers[Top.table][Top.sub]
           hit == NewlyHit(Top, f)
           next == [Top EXCEPT !.sub = @ + 1]
           nulling == [Top EXCEPT !.sub = @ + 1, !.nulled[f] = @ \cup hit]
           frame == Frame(Source[f], hit, Top.nulled)
<1>1. call.stack # <<>> /\ db' = db /\ tx' = tx
  BY DEF ExpandSubscriber
<1>2. /\ FrameTyped(Top) /\ Top.table \in Tables /\ Below \in Seq(Frames)
      /\ Top \in Frames /\ Top.ids \subseteq RowsOf(Top.table)
      /\ n \in Nat /\ n # 0 /\ Len(Below) = n - 1 /\ n - 1 \in Nat
  BY <1>1, TopTyped DEF StackTyped, FrameTyped
<1>3. /\ Top = [table |-> Top.table, ids |-> Top.ids, sub |-> Top.sub,
                nulled |-> Top.nulled]
      /\ Top.sub \in Nat \ {0} /\ Top.nulled \in [ForeignKeys -> SUBSET Nat]
      /\ Top.ids \in SUBSET Nat
  BY <1>2 DEF Frames, Unlinks
<1>4. Top.sub \in 1 .. Len(Subscribers[Top.table]) /\ f \in ForeignKeys
  <2>1. Subscribers[Top.table] \in Seq(ForeignKeys)
    BY <1>2, SchemaAssumption
  <2>2. Len(Subscribers[Top.table]) \in Nat
    BY <2>1, LenProperties
  <2>3. Top.sub <= Len(Subscribers[Top.table])
    BY DEF ExpandSubscriber
  <2>4. Top.sub \in 1 .. Len(Subscribers[Top.table])
    BY <1>3, <2>2, <2>3
  <2> QED
    BY <2>1, <2>4, ElementOfSeq

<1>5. Target[f] = Top.table
  BY <1>2, <1>4 DEF SubscribersMatch
<1>6. ~db.torn /\ ListsMatchKeys /\ CountsMatchLists
  <2>1. call # NoCall
    BY <1>1 DEF NoCall
  <2> QED
    BY <2>1 DEF Followed, CallsInBlocks, NoTx
<1>7. ASSUME NEW r \in RowsOf(Source[f]), db.col[f].fk[r] \in Top.ids
      PROVE  Handled(f, r) \/ r \in hit
  <2>1. db.col[f].fk[r] \in RowsOf(Target[f])
    BY <1>2, <1>5, <1>7
  <2>2. r \in Referencing(f, db.col[f].fk[r])
    <3>1. r \in ReferrersOf(f, db.col[f].fk[r])
      BY DEF ReferrersOf
    <3> HIDE DEF f
    <3> QED
      BY <1>4, <1>6, <2>1, <3>1, ReferrersFound
  <2> HIDE DEF f
  <2> QED
    BY <1>7, <2>2, FoundIsHitOrHandled
<1> HIDE DEF f, hit
<1>8. /\ next.table = Top.table /\ next.ids = Top.ids /\ next.sub = Top.sub + 1
      /\ next.nulled = Top.nulled /\ next \in Frames
  <2>1. next = [table |-> Top.table, ids |-> Top.ids, sub |-> Top.sub + 1,
                nulled |-> Top.nulled]
    BY <1>3
  <2> HIDE DEF next
  <2>2. Top.sub + 1 \in Nat \ {0}
    BY <1>3
  <2> QED
    BY <1>2, <1>3, <2>1, <2>2 DEF Frames, Unlinks
<1>9. hit \subseteq Nat
  <2>1. hit \subseteq RowsOf(Source[f])
    BY <1>4, NewlyHitRows DEF hit, TypeOK, DatabaseTyped
  <2> QED
    BY <1>4, <2>1, RowsAreIndices, SchemaAssumption
<1>10. /\ nulling.table = Top.table /\ nulling.ids = Top.ids /\ nulling.sub = Top.sub + 1
       /\ nulling.nulled = [Top.nulled EXCEPT ![f] = @ \cup hit] /\ nulling \in Frames
  <2> DEFINE more == [Top.nulled EXCEPT ![f] = @ \cup hit]
  <2>1. nulling = [Top EXCEPT !.sub = Top.sub + 1, !.nulled = more]
    BY <1>3
  <2>2. more \in [ForeignKeys -> SUBSET Nat]
    BY <1>3, <1>9
  <2> HIDE DEF more, nulling
  <2>3. nulling = [table |-> Top.table, ids |-> Top.ids, sub |-> Top.sub + 1, nulled |-> more]
    BY <1>3, <2>1
  <2>4. nulling.nulled = more
    BY <2>3
  <2> QED
    BY <1>2, <1>3, <2>2, <2>3, <2>4 DEF Frames, Unlinks, more
<1>11. frame.table = Source[f] /\ frame.ids = hit /\ frame.sub = 1 /\ frame.nulled = Top.nulled
       /\ frame \in Frames
  BY <1>2, <1>3, <1>4, <1>9, SchemaAssumption DEF Frame, Frames, Unlinks
<1> HIDE DEF next, nulling, frame
<1>12. \A k \in 1 .. n - 1 : Below[k] = call.stack[k]
  BY <1>1, BelowIs
<1>13. ASSUME NEW top \in Frames
       PROVE  /\ Append(Below, top) \in Seq(Frames) /\ Len(Append(Below, top)) = n
              /\ \A k \in 1 .. n - 1 : Append(Below, top)[k] = call.stack[k]
              /\ Append(Below, top)[n] = top
  BY <1>2, <1>12, AppendProperties
<1>14. call.stack[n] = Top /\ n \in Nat
  BY <1>2 DEF Top
<1>15. CASE call' = NoCall
  <2>1. DeletionsClosed'
    BY <1>1, ClosedStays DEF Followed, Relinked
  <2> QED
    BY <1>1, <1>6, <1>15, <2>1, CallEndsFollowed
<1>16. CASE hit = {} /\ call' = [call EXCEPT !.stack = Append(Below, next)]
  <2>1. call'.stack = Append(Below, next) /\ call'.expanded = call.expanded
    BY <1>16 DEF TypeOK, CallTyped
  <2>2. /\ Len(call'.stack) = n /\ call'.stack[n] = next
        /\ \A k \in 1 .. n - 1 : call'.stack[k] = call.stack[k]
    BY <1>8, <1>13, <2>1
  <2>3. Turned(f, n)
    <3>1. Len(call'.stack) # n + 1
      BY <1>2, <2>2
    <3> QED
      BY <1>7, <1>8, <1>16, <2>1, <2>2, <3>1 DEF Turned
  <2> QED
    BY <1>1, <1>2, <1>4, <2>3, TurnFollowed DEF f
<1>17. CASE /\ OnDelete[f] = "SET_NULL"
            /\ call' = [call EXCEPT !.stack = Append(Below, nulling)]
  <2>1. call'.stack = Append(Below, nulling) /\ call'.expanded = call.expanded
    BY <1>17 DEF TypeOK, CallTyped
  <2>2. /\ Len(call'.stack) = n /\ call'.stack[n] = nulling
        /\ \A k \in 1 .. n - 1 : call'.stack[k] = call.stack[k]
    BY <1>10, <1>13, <2>1
  <2>3. n = 1
    <3>1. SUFFICES ASSUME n # 1 PROVE FALSE
      OBVIOUS
    <3>2. n \in 1 .. n /\ n > 1
      <4>1. n \in Nat /\ n # 0
        BY <1>2
      <4> HIDE DEF n
      <4> QED
        BY <3>1, <4>1
    <3>3. PICK g \in ForeignKeys : OnDelete[g] = "CASCADE" /\ call.stack[n].table = Source[g]
      BY <3>2 DEF Followed, LevelsCascade
    <3>4. OnDelete[f] # "SET_NULL"
      BY <1>4, <1>14, <3>3 DEF NullsOnTop, f
    <3> QED
      BY <1>17, <3>4
  <2>4. Turned(f, n)
    <3>1. Len(call'.stack) # n + 1
      BY <1>2, <2>2
    <3>2. /\ \A g \in ForeignKeys : Top.nulled[g] \subseteq nulling.nulled[g]
          /\ hit \subseteq nulling.nulled[f]
      BY <1>3, <1>4, <1>10
    <3> QED
      BY <1>7, <1>10, <2>1, <2>2, <2>3, <3>1, <3>2 DEF Turned
  <2> QED
    BY <1>1, <1>2, <1>4, <2>4, TurnFollowed DEF f
<1>18. CASE /\ OnDelete[f] = "CASCADE"
            /\ call' = [stack |-> Append(Append(Below, next), frame), expanded |-> call.expanded]
  <2> DEFINE s == Append(Below, next)
  <2>1. /\ s \in Seq(Frames) /\ Len(s) = n /\ s[n] = next
        /\ \A k \in 1 .. n - 1 : s[k] = call.stack[k]
    BY <1>8, <1>13
  <2>2. call'.stack = Append(s, frame) /\ call'.expanded = call.expanded
    BY <1>18
  <2> HIDE DEF s
  <2>3. /\ Len(call'.stack) = n + 1 /\ call'.stack[n + 1] = frame
        /\ \A k \in 1 .. n : call'.stack[k] = s[k]
    BY <1>11, <2>1, <2>2, AppendProperties
  <2>4. n \in 1 .. n /\ \A k \in 1 .. n - 1 : k \in 1 .. n
    BY <1>2
  <2>5. Turned(f, n)
    BY <1>7, <1>8, <1>11, <1>18, <2>1, <2>2, <2>3, <2>4 DEF Turned
  <2> QED
    BY <1>1, <1>2, <1>4, <2>5, TurnFollowed DEF f
<1>19. \/ call' = NoCall
       \/ hit = {} /\ call' = [call EXCEPT !.stack = Append(Below, next)]
       \/ OnDelete[f] = "SET_NULL" /\ call' = [call EXCEPT !.stack = Append(Below, nulling)]
       \/ /\ OnDelete[f] = "CASCADE"
          /\ call' = [stack |-> Append(Append(Below, next), frame), expanded |-> call.expanded]
  BY DEF ExpandSubscriber, Enter, f, hit, next, nulling, frame
<1> QED
  BY <1>15, <1>16, <1>17, <1>18, <1>19

\* A level that has been through all keys is through with every key of its table.
LEMMA AllPassed ==
  ASSUME SubscribersMatch, TypeOK, call.stack # <<>>,
         Top.sub > Len(Subscribers[Top.table]),
         NEW f \in ForeignKeys, Target[f] = Top.table
  PROVE  Passed(Top, f)
<1>1. PICK j \in 1 .. Len(Subscribers[Top.table]) : Subscribers[Top.table][j] = f
  BY DEF SubscribersMatch
<1>2. Len(Subscribers[Top.table]) \in Nat
  <2>1. Subscribers[Top.table] \in Seq(ForeignKeys)
    BY TopTyped, SchemaAssumption
  <2> QED
    BY <2>1, LenProperties
<1>3. Top.sub \in Nat
  BY TopTyped DEF FrameTyped, Frames
<1>4. j < Top.sub
  BY <1>2, <1>3
<1> QED
  BY <1>1, <1>4 DEF Passed

\* Who references a row of such a level has been dealt with.
LEMMA TopHandled ==
  ASSUME SubscribersMatch, TypeOK, LevelsHandled, call.stack # <<>>,
         Top.sub > Len(Subscribers[Top.table]),
         NEW f \in ForeignKeys, Target[f] = Top.table,
         NEW r \in RowsOf(Source[f]), db.col[f].fk[r] \in Top.ids
  PROVE  Handled(f, r)
<1>1. Passed(Top, f)
  BY AllPassed
<1>2. Len(call.stack) \in Nat \ {0}
  BY TopTyped
<1>3. Len(call.stack) \in 1 .. Len(call.stack)
  BY <1>2
<1>4. Top = call.stack[Len(call.stack)]
  BY DEF Top
<1> QED
  BY <1>1, <1>3, <1>4 DEF LevelsHandled

\* An inner level returns: its rows are expanded, and its caller knows the nulled
\* keys already.
LEMMA ReturnInnerFollowed ==
  ASSUME SubscribersMatch, TypeOK, Followed, ReturnInner
  PROVE  Followed'
<1> DEFINE n == Len(call.stack)
           nulled == IF Below[Len(Below)].nulled # NothingNulled
                       THEN Top.nulled ELSE Below[Len(Below)].nulled
<1>1. call.stack # <<>> /\ db' = db /\ tx' = tx /\ n > 1
  <2>1. n > 1 /\ db' = db /\ tx' = tx
    BY DEF ReturnInner
  <2>2. Len(<<>>) = 0
    BY EmptySeq
  <2> QED
    BY <2>1, <2>2
<1>2. /\ n \in Nat /\ Len(Below) = n - 1 /\ Below \in Seq(Frames)
      /\ Top.table \in Tables
  BY <1>1, TopTyped DEF StackTyped
<1>3. DOMAIN Below = 1 .. n - 1
  BY <1>2, LenProperties
<1>4. \A k \in 1 .. n - 1 : Below[k] = call.stack[k] /\ Below[k] \in Frames
  <2>1. \A k \in 1 .. n - 1 : Below[k] = call.stack[k]
    BY <1>1, BelowIs
  <2> QED
    BY <1>2, <2>1, ElementOfSeq
<1>5. /\ call'.stack = [Below EXCEPT ![Len(Below)].nulled = nulled]
      /\ call'.expanded = [call.expanded EXCEPT ![Top.table] = @ \cup Top.ids]
  BY <1>2, <1>3 DEF ReturnInner
<1>6. Top = call.stack[n]
  BY DEF Top
<1> HIDE DEF n
<1>7. /\ n \in 1 .. n /\ n - 1 \in 1 .. n - 1 /\ 1 \in 1 .. n /\ 1 \in 1 .. n - 1
      /\ \A k \in 1 .. n - 1 : k \in 1 .. n
      /\ \A k \in 1 .. n : k \in 1 .. n - 1 \/ k = n
  BY <1>1, <1>2
<1>8. nulled = Below[n - 1].nulled
  <2>1. Top.nulled = Below[n - 1].nulled
    <3>1. Top.nulled = call.stack[1].nulled /\ call.stack[n - 1].nulled = call.stack[1].nulled
      BY <1>6, <1>7 DEF Followed, LevelsCascade, n
    <3> QED
      BY <1>4, <1>7, <3>1
  <2> QED
    BY <1>2, <2>1
<1> HIDE DEF nulled
<1>9. \A k \in 1 .. n - 1 : call'.stack[k] = call.stack[k]
  <2> SUFFICES ASSUME NEW k \in 1 .. n - 1 PROVE call'.stack[k] = Below[k]
    BY <1>4
  <2>1. CASE k = n - 1
    <3>1. call'.stack[k] = [Below[k] EXCEPT !.nulled = nulled]
      BY <1>2, <1>3, <1>5, <2>1
    <3>2. Below[k] \in Frames /\ nulled = Below[k].nulled
      BY <1>4, <1>8, <2>1
    <3> QED
      BY <3>1, <3>2 DEF Frames
  <2>2. CASE k # n - 1
    BY <1>2, <1>3, <1>5, <2>2
  <2> QED
    BY <2>1, <2>2
<1>10. Len(call'.stack) = n - 1
  <2>1. DOMAIN call'.stack = 1 .. n - 1
    BY <1>3, <1>5
  <2>2. call'.stack \in Seq(Frames)
    <3>1. TypeOK'
      BY ReturnInnerTyped
    <3> QED
      BY <3>1 DEF TypeOK, CallTyped
  <2>3. Len(call'.stack) \in Nat /\ DOMAIN call'.stack = 1 .. Len(call'.stack)
    BY <2>2, LenProperties
  <2>4. n - 1 \in Nat
    BY <1>1, <1>2
  <2> DEFINE m == Len(call'.stack)
  <2>5. m \in Nat /\ 1 .. m = 1 .. n - 1
    BY <2>1, <2>3
  <2> HIDE DEF m
  <2>6. m = n - 1
    BY <2>4, <2>5
  <2> QED
    BY <2>6 DEF m
<1>11. /\ \A t \in Tables : call.expanded[t] \subseteq call'.expanded[t]
       /\ Top.ids \subseteq call'.expanded[Top.table]
       /\ \A t \in Tables : \A i \in call'.expanded[t] :
            i \in call.expanded[t] \/ (t = Top.table /\ i \in Top.ids)
  <2>1. call.expanded \in [Tables -> SUBSET Nat]
    BY DEF TypeOK, CallTyped, RowSets
  <2> QED
    BY <1>2, <1>5, <2>1
<1>12. ASSUME NEW f \in ForeignKeys, NEW r, Handled(f, r) PROVE Handled(f, r)'
  <2>1. Source[f] \in Tables
    BY SchemaAssumption
  <2>2. ASSUME NEW k \in 1 .. n
        PROVE  \/ call.stack[k].table = Source[f]
                    => call.stack[k].ids \subseteq call'.expanded[Source[f]]
               \/ \E m \in 1 .. Len(call'.stack) :
                    /\ call'.stack[m].table = call.stack[k].table
                    /\ call'.stack[m].ids = call.stack[k].ids
    BY <1>6, <1>7, <1>9, <1>10, <1>11
  <2>3. ASSUME NEW k \in 1 .. n
        PROVE  \E m \in 1 .. Len(call'.stack) :
                 call.stack[k].nulled[f] \subseteq call'.stack[m].nulled[f]
    <3>1. call.stack[k].nulled = call.stack[1].nulled
      BY DEF Followed, LevelsCascade, n
    <3>2. call'.stack[1].nulled = call.stack[1].nulled
      BY <1>7, <1>9
    <3> QED
      BY <1>7, <1>10, <3>1, <3>2
  <2>4. call.expanded[Source[f]] \subseteq call'.expanded[Source[f]]
    BY <1>11, <2>1
  <2> QED
    BY <1>1, <1>12, <2>2, <2>3, <2>4, HandledStays DEF n
<1>13. ExpandedHandled'
  <2> SUFFICES ASSUME NEW f \in ForeignKeys, NEW r \in RowsOf(Source[f]),
                      db.col[f].fk[r] \in call'.expanded[Target[f]]
               PROVE  Handled(f, r)'
    BY <1>1 DEF ExpandedHandled, RowsOf
  <2>1. Target[f] \in Tables
    BY SchemaAssumption
  <2>2. CASE db.col[f].fk[r] \in call.expanded[Target[f]]
    <3>1. Handled(f, r)
      BY <2>2 DEF Followed, ExpandedHandled
    <3> QED
      BY <1>12, <3>1
  <2>3. CASE Target[f] = Top.table /\ db.col[f].fk[r] \in Top.ids
    <3>1. Top.sub > Len(Subscribers[Top.table])
      BY DEF ReturnInner
    <3>2. LevelsHandled
      BY DEF Followed
    <3>3. Handled(f, r)
      BY <1>1, <2>3, <3>1, <3>2, TopHandled
    <3> QED
      BY <1>12, <3>3
  <2> QED
    BY <1>11, <2>1, <2>2, <2>3
<1>14. LevelsHandled'
  <2> SUFFICES ASSUME NEW k \in 1 .. n - 1, NEW f \in ForeignKeys,
                      Passed(call'.stack[k], f),
                      NEW r \in RowsOf(Source[f]), db.col[f].fk[r] \in call'.stack[k].ids
               PROVE  Handled(f, r)'
    BY <1>1, <1>10 DEF LevelsHandled, RowsOf
  <2>1. Handled(f, r)
    BY <1>7, <1>9 DEF Followed, LevelsHandled, n
  <2> QED
    BY <1>12, <2>1
<1>15. LevelsCascade'
  <2> SUFFICES ASSUME NEW k \in 1 .. n - 1
               PROVE  /\ call'.stack[k].nulled = call'.stack[1].nulled
                      /\ k > 1 => \E g \in ForeignKeys :
                            OnDelete[g] = "CASCADE" /\ call'.stack[k].table = Source[g]
    BY <1>10 DEF LevelsCascade
  <2>1. call'.stack[k] = call.stack[k] /\ call'.stack[1] = call.stack[1]
    BY <1>7, <1>9
  <2>2. k \in 1 .. Len(call.stack)
    BY <1>7 DEF n
  <2> QED
    BY <2>1, <2>2 DEF Followed, LevelsCascade
<1>16. DeletionsClosed'
  BY <1>1, ClosedStays DEF Followed, Relinked
<1>17. CallsInBlocks'
  <2>1. call # NoCall
    BY <1>1 DEF NoCall
  <2> QED
    BY <1>1, <2>1 DEF Followed, CallsInBlocks
<1> QED
  BY <1>13, <1>14, <1>15, <1>16, <1>17 DEF Followed

\* The outermost level returns: the rows staged for deletion are those of all
\* levels, and what was left for nulling is staged for that or deleted.
LEMMA ReturnOuterFollowed ==
  ASSUME SubscribersMatch, TypeOK, Followed, ReturnOuter
  PROVE  Followed'
<1> DEFINE final == [call.expanded EXCEPT ![Top.table] = @ \cup Top.ids]
           deletions == [t \in Tables |-> tx.deletions[t] \cup final[t]]
           unlinks == [f \in ForeignKeys |->
                         tx.unlinks[f] \cup (Top.nulled[f] \ final[Source[f]])]
<1>0. tx \in StagedEdits
  BY DEF TypeOK, EditsTyped
<1>1. /\ call.stack # <<>> /\ Len(call.stack) = 1 /\ call' = NoCall /\ db' = db
      /\ Top.sub > Len(Subscribers[Top.table])
  <2>1. Len(<<>>) = 0
    BY EmptySeq
  <2>2. Len(call.stack) = 1 /\ call' = NoCall /\ db' = db
    BY DEF ReturnOuter
  <2>3. Top.sub > Len(Subscribers[Top.table])
    BY DEF ReturnOuter
  <2>4. call.stack # <<>>
    BY <2>1, <2>2
  <2> QED
    BY <2>2, <2>3, <2>4, Zenon
<1>2. Top = call.stack[1] /\ Top.table \in Tables
  BY <1>1, TopTyped DEF Top
<1>3. tx' = [tx EXCEPT !.deletions = deletions, !.unlinks = unlinks]
  BY DEF ReturnOuter
<1>4. /\ \A t \in Tables : call.expanded[t] \subseteq final[t]
      /\ Top.ids \subseteq final[Top.table]
      /\ \A t \in Tables : \A i \in final[t] :
           i \in call.expanded[t] \/ (t = Top.table /\ i \in Top.ids)
  <2>1. call.expanded \in [Tables -> SUBSET Nat]
    BY DEF TypeOK, CallTyped, RowSets
  <2> QED
    BY <1>2, <2>1
<1> HIDE DEF final
<1>5. /\ \A t \in Tables : deletions[t] = tx.deletions[t] \cup final[t]
      /\ \A f \in ForeignKeys :
           unlinks[f] = tx.unlinks[f] \cup (Top.nulled[f] \ final[Source[f]])
  OBVIOUS
<1> HIDE DEF deletions, unlinks
<1>6. tx'.updates = tx.updates /\ tx'.deletions = deletions /\ tx'.unlinks = unlinks
  BY <1>0, <1>3 DEF StagedEdits
<1>7. \A f \in ForeignKeys : Relinked(f)' = Relinked(f)
  BY <1>6 DEF Relinked
<1>8. ASSUME NEW f \in ForeignKeys, NEW r, Handled(f, r)
      PROVE  r \in deletions[Source[f]] \/ r \in unlinks[f] \/ r \in Relinked(f)
  <2>0. Source[f] \in Tables
    BY SchemaAssumption
  <2>1. CASE r \in tx.deletions[Source[f]] \/ r \in Relinked(f) \/ r \in call.expanded[Source[f]]
    BY <1>4, <1>5, <2>0, <2>1
  <2>2. ASSUME NEW k \in 1 .. Len(call.stack),
               call.stack[k].table = Source[f] /\ r \in call.stack[k].ids
        PROVE  r \in deletions[Source[f]]
    <3>1. k = 1
      BY <1>1
    <3> QED
      BY <1>2, <1>4, <1>5, <2>0, <2>2, <3>1
  <2>3. ASSUME NEW k \in 1 .. Len(call.stack), r \in call.stack[k].nulled[f]
        PROVE  r \in deletions[Source[f]] \/ r \in unlinks[f]
    <3>1. k = 1
      BY <1>1
    <3> QED
      BY <1>2, <1>5, <2>0, <2>3, <3>1
  <2> QED
    BY <1>8, <2>1, <2>2, <2>3 DEF Handled
<1>9. DeletionsClosed'
  <2> SUFFICES ASSUME NEW f \in ForeignKeys, NEW r \in RowsOf(Source[f]),
                      db.col[f].fk[r] \in deletions[Target[f]]
               PROVE  r \in deletions[Source[f]] \/ r \in unlinks[f] \/ r \in Relinked(f)
    BY <1>1, <1>6, <1>7 DEF DeletionsClosed, RowsOf
  <2>0. Source[f] \in Tables /\ Target[f] \in Tables
    BY SchemaAssumption
  <2>1. CASE db.col[f].fk[r] \in tx.deletions[Target[f]]
    <3>1. r \in tx.deletions[Source[f]] \/ r \in tx.unlinks[f] \/ r \in Relinked(f)
      BY <2>1 DEF Followed, DeletionsClosed
    <3> QED
      BY <1>5, <2>0, <3>1
  <2>2. CASE db.col[f].fk[r] \in call.expanded[Target[f]]
    BY <1>8, <2>2 DEF Followed, ExpandedHandled
  <2>3. CASE Target[f] = Top.table /\ db.col[f].fk[r] \in Top.ids
    <3>1. LevelsHandled
      BY DEF Followed
    <3>2. Handled(f, r)
      BY <1>1, <2>3, <3>1, TopHandled
    <3> QED
      BY <1>8, <3>2
  <2> QED
    BY <1>4, <1>5, <2>0, <2>1, <2>2, <2>3
<1>10. ~db.torn
  <2>1. call # NoCall
    BY <1>1 DEF NoCall
  <2> QED
    BY <2>1 DEF Followed, CallsInBlocks, NoTx
<1> QED
  BY <1>1, <1>9, <1>10, CallEndsFollowed

\* A call that begins has nothing to care for but its own rows.
LEMMA DelFollowed ==
  ASSUME TypeOK, Followed, NEW t \in Tables, NEW ids, DelEntries(t, ids)
  PROVE  Followed'
<1> DEFINE frame == Frame(t, ids, NothingNulled)
<1>0. tx \in StagedEdits
  BY DEF TypeOK, EditsTyped
<1>1. tx' = [tx EXCEPT !.calls = @ + 1] /\ db' = db /\ Ready
  BY DEF DelEntries
<1>2. tx'.deletions = tx.deletions /\ tx'.unlinks = tx.unlinks /\ tx'.updates = tx.updates
  BY <1>0, <1>1 DEF StagedEdits
<1>3. DeletionsClosed'
  BY <1>1, <1>2, ClosedStays DEF Followed, Relinked
<1>4. ~db.torn
  <2>1. tx # NoTx
    BY <1>1 DEF Ready, NoTx
  <2> QED
    BY <2>1 DEF Followed, CallsInBlocks, NoTx
<1>5. CASE call' = NoCall
  BY <1>1, <1>3, <1>4, <1>5, CallEndsFollowed
<1>6. CASE call' = [stack |-> Append(<<>>, frame), expanded |-> NoCall.expanded]
  <2> HIDE DEF frame
  <2>1. /\ call'.stack = <<frame>> /\ Len(call'.stack) = 1 /\ call'.stack[1] = frame
        /\ \A u \in Tables : call'.expanded[u] = {}
    BY <1>6 DEF NoCall
  <2>2. \A k \in 1 .. Len(call'.stack) : k = 1
    BY <2>1
  <2>3. frame.sub = 1
    BY DEF frame, Frame
  <2>4. \A f : ~Passed(frame, f)
    BY <2>3 DEF Passed
  <2>5. ExpandedHandled'
    BY <2>1, SchemaAssumption DEF ExpandedHandled
  <2>6. LevelsHandled'
    BY <2>1, <2>2, <2>4 DEF LevelsHandled
  <2>7. LevelsCascade'
    BY <2>2 DEF LevelsCascade
  <2>8. CallsInBlocks'
    <3>1. tx'.open
      BY <1>0, <1>1 DEF Ready, StagedEdits
    <3> QED
      BY <1>1, <1>4, <3>1 DEF CallsInBlocks
  <2> QED
    BY <1>3, <2>5, <2>6, <2>7, <2>8 DEF Followed
<1>7. call' = NoCall \/ call' = [stack |-> Append(<<>>, frame), expanded |-> NoCall.expanded]
  BY DEF DelEntries, Enter
<1> QED
  BY <1>5, <1>6, <1>7

\* Between delete calls, what is staged for a row stays staged.
LEMMA EditsFollowed ==
  ASSUME TypeOK, Followed, Ready, db' = db, call' = call,
         tx'.deletions = tx.deletions, tx'.unlinks = tx.unlinks,
         \A f \in ForeignKeys : Relinked(f) \subseteq Relinked(f)'
  PROVE  Followed'
<1>1. call = NoCall
  BY DEF Ready, TypeOK, CallTyped
<1>2. ~db.torn
  <2>1. tx # NoTx
    BY DEF Ready, NoTx
  <2> QED
    BY <2>1 DEF Followed, CallsInBlocks, NoTx
<1>3. call' = NoCall /\ ~db'.torn
  BY <1>1, <1>2
<1>4. DeletionsClosed'
  BY ClosedStays DEF Followed
<1> QED
  BY <1>3, <1>4, CallEndsFollowed

\* register_additions.
LEMMA AddFollowed ==
  ASSUME TypeOK, Followed, NEW t \in Tables, NEW newRows, AddEntries(t, newRows)
  PROVE  Followed'
<1> DEFINE targets(f) == {newRows[i][f] : i \in DOMAIN newRows}
           claims == [u \in Tables |-> tx.claims[u] \cup
                        UNION {targets(f) : f \in {g \in KeysOf(t) : Target[g] = u}}]
<1>0. tx \in StagedEdits
  BY DEF TypeOK, EditsTyped
<1>1. Ready /\ db' = db /\ call' = call
  BY DEF AddEntries
<1>2. \/ tx' = [tx EXCEPT !.calls = @ + 1, !.staged = @ \cup {t}]
      \/ tx' = [tx EXCEPT !.calls = @ + 1, !.staged = @ \cup {t},
                          !.additions[t] = @ \o newRows, !.claims = claims]
  BY DEF AddEntries
<1> HIDE DEF claims
<1>3. tx'.deletions = tx.deletions /\ tx'.unlinks = tx.unlinks /\ tx'.updates = tx.updates
  BY <1>0, <1>2 DEF StagedEdits
<1>4. \A f \in ForeignKeys : Relinked(f)' = Relinked(f)
  BY <1>3 DEF Relinked
<1> QED
  BY <1>1, <1>3, <1>4, EditsFollowed

\* register_updates.
LEMMA UpdateFollowed ==
  ASSUME TypeOK, Followed, NEW f \in ForeignKeys, NEW rows, rows \subseteq Nat,
         NEW target \in KeysTo(Target[f]), UpdateEntries(f, rows, target)
  PROVE  Followed'
<1> DEFINE changed == {r \in rows : db.col[f].fk[r] # target}
           entry == [k \in 1 .. Cardinality(changed) |->
                       [row |-> Nth(k - 1, changed), target |-> target]]
<1>0. tx \in StagedEdits
  BY DEF TypeOK, EditsTyped
<1>1. Ready /\ db' = db /\ call' = call
  BY DEF UpdateEntries
<1>2. CASE tx' = [tx EXCEPT !.calls = @ + 1]
  <2>1. tx'.deletions = tx.deletions /\ tx'.unlinks = tx.unlinks /\ tx'.updates = tx.updates
    BY <1>0, <1>2 DEF StagedEdits
  <2>2. \A g \in ForeignKeys : Relinked(g)' = Relinked(g)
    BY <2>1 DEF Relinked
  <2> QED
    BY <1>1, <2>1, <2>2, EditsFollowed
<1>3. CASE /\ \A r \in rows : ~(r >= db.len[Source[f]])
           /\ tx' = [tx EXCEPT !.calls = @ + 1, !.updates[f] = @ \o entry]
  <2>1. Source[f] \in Tables /\ db.len[Source[f]] \in Nat
    BY SchemaAssumption, RowsAreIndices
  <2>2. rows \subseteq RowsOf(Source[f])
    BY <1>3, <2>1 DEF RowsOf
  <2>3. /\ entry \in Seq(StagedKey)
        /\ \A k \in 1 .. Len(entry) : entry[k].row \in changed
    BY <2>2, UpdateEntryTyped
  <2> HIDE DEF entry
  <2>4. /\ tx'.deletions = tx.deletions /\ tx'.unlinks = tx.unlinks
        /\ tx'.updates = [tx.updates EXCEPT ![f] = @ \o entry]
    BY <1>0, <1>3 DEF StagedEdits
  <2> DEFINE S == Seq(StagedKey)
             old == tx.updates[f]
  <2>5. tx.updates \in [ForeignKeys -> S]
    BY <1>0, EditFields DEF StagedUpdates
  <2>6. /\ old \o entry \in S
        /\ Len(old) \in Nat /\ Len(entry) \in Nat /\ DOMAIN old = 1 .. Len(old)
        /\ DOMAIN (old \o entry) = 1 .. Len(old) + Len(entry)
        /\ \A i \in 1 .. Len(old) + Len(entry) :
             (old \o entry)[i] = IF i <= Len(old) THEN old[i] ELSE entry[i - Len(old)]
    BY <2>3, <2>5, ConcatProperties, LenProperties
  <2> HIDE DEF S
  <2>7. tx'.updates[f] = old \o entry
    BY <2>4, <2>5
  <2> HIDE DEF old
  <2>8. ASSUME NEW i \in DOMAIN old
        PROVE  i \in DOMAIN (old \o entry) /\ (old \o entry)[i] = old[i]
    BY <2>6
  <2>9. Relinked(f) \subseteq Relinked(f)'
    BY <2>7, <2>8 DEF Relinked, old
  <2>10. \A g \in ForeignKeys : g # f => Relinked(g)' = Relinked(g)
    BY <2>4, <2>5 DEF Relinked
  <2>11. \A g \in ForeignKeys : Relinked(g) \subseteq Relinked(g)'
    BY <2>9, <2>10
  <2> QED
    BY <1>1, <2>4, <2>11, EditsFollowed
<1> QED
  BY <1>2, <1>3 DEF UpdateEntries, Refuse

\* Blocks begin and end with nothing staged.
LEMMA BlockEndsFollowed ==
  ASSUME TypeOK, Followed, Begin \/ Commit \/ CommitTorn \/ CommitRefused \/ Rollback
  PROVE  Followed'
<1>1. CASE Begin
  <2>1. /\ tx' = [NoTx EXCEPT !.open = TRUE] /\ call' = call /\ db' = db
        /\ ~db.torn
    BY <1>1 DEF Begin
  <2>2. tx'.deletions = [t \in Tables |-> {}]
    BY <2>1 DEF NoTx
  <2>3. DeletionsClosed'
    BY <2>2, SchemaAssumption DEF DeletionsClosed
  <2>4. call = NoCall
    BY <1>1 DEF Begin, Followed, CallsInBlocks
  <2> QED
    BY <2>1, <2>3, <2>4, CallEndsFollowed
<1>2. CASE Commit \/ CommitTorn \/ CommitRefused \/ Rollback
  <2>1. call.stack = <<>> /\ Close
    BY <1>2 DEF Commit, CommitTorn, CommitRefused, Rollback, Leaving
  <2>2. tx' = NoTx /\ call' = NoCall
    BY <2>1 DEF Close, TypeOK, CallTyped
  <2>3. tx'.deletions = [t \in Tables |-> {}]
    BY <2>2 DEF NoTx
  <2>4. DeletionsClosed'
    BY <2>3, SchemaAssumption DEF DeletionsClosed
  <2> QED
    BY <2>2, <2>4, CallEndsFollowed
<1> QED
  BY <1>1, <1>2

\* At first there is nothing to care for.
LEMMA NothingToFollow == Init => Followed
<1> SUFFICES ASSUME Init PROVE Followed
  OBVIOUS
<1>1. /\ call = NoCall /\ tx = NoTx /\ ~db.torn /\ Len(<<>>) = 0 /\ call.stack = <<>>
      /\ \A t \in Tables : call.expanded[t] = {} /\ tx.deletions[t] = {}
  BY EmptySeq DEF Init, NoCall, NoTx
<1>2. \A f \in ForeignKeys : Target[f] \in Tables
  BY SchemaAssumption
<1>3. \A k \in 1 .. Len(call.stack) : FALSE
  BY <1>1
<1> QED
  BY <1>1, <1>2, <1>3 DEF Followed, DeletionsClosed, ExpandedHandled, LevelsHandled,
                          LevelsCascade, CallsInBlocks

\* Every step.
LEMMA StepFollowed ==
  ASSUME SubscribersMatch, NullsOnTop, TypeOK, Followed,
         ~db.torn => ListsMatchKeys /\ CountsMatchLists, [Next]_vars
  PROVE  Followed'
<1>1. CASE Begin \/ Commit \/ CommitTorn \/ CommitRefused \/ Rollback
  BY <1>1, BlockEndsFollowed
<1>2. CASE \E t \in Tables : \E n \in 1 .. MaxStaged :
             \E rows \in [1 .. n -> RowsToAdd(t)] : AddEntries(t, rows)
  BY <1>2, AddFollowed
<1>3. CASE \E f \in ForeignKeys :
             \E rows \in (SUBSET (RowsOf(Source[f]) \cup StagedIds(Source[f]))) \ {{}} :
               \E target \in KeysTo(Target[f]) : UpdateEntries(f, rows, target)
  <2>1. PICK f \in ForeignKeys :
          \E rows \in (SUBSET (RowsOf(Source[f]) \cup StagedIds(Source[f]))) \ {{}} :
            \E target \in KeysTo(Target[f]) : UpdateEntries(f, rows, target)
    BY <1>3
  <2>2. PICK rows \in SUBSET (RowsOf(Source[f]) \cup StagedIds(Source[f])) :
          \E target \in KeysTo(Target[f]) : UpdateEntries(f, rows, target)
    BY <2>1
  <2>4. rows \subseteq Nat
    BY RowsAreIndices, SchemaAssumption
  <2> QED
    BY <2>2, <2>4, UpdateFollowed
<1>4. CASE \E t \in Tables :
             \E ids \in (SUBSET (RowsOf(t) \cup StagedIds(t))) \ {{}} : DelEntries(t, ids)
  BY <1>4, DelFollowed
<1>5. CASE ExpandSubscriber
  BY <1>5, ExpandFollowed
<1>6. CASE ReturnInner
  BY <1>6, ReturnInnerFollowed
<1>7. CASE ReturnOuter
  BY <1>7, ReturnOuterFollowed
<1>8. CASE UNCHANGED vars
  <2>1. db' = db /\ tx' = tx /\ call' = call
    BY <1>8 DEF vars
  <2> QED
    BY <2>1 DEF Followed, DeletionsClosed, ExpandedHandled, LevelsHandled, LevelsCascade,
                CallsInBlocks, Handled, Relinked, RowsOf
<1> QED
  BY <1>1, <1>2, <1>3, <1>4, <1>5, <1>6, <1>7, <1>8 DEF Next

\* As long as lists and counts match the keys, which delete calls rely on, a row
\* whose key references a row marked for deletion is marked itself, or its key is
\* about to be nulled or replaced: register_deletions forgets no row, however
\* deep a cascade goes, however often rows reference each other in circles, and
\* in whatever order it is called with the other calls of a block.
THEOREM DeletionsStayClosed ==
  SubscribersMatch /\ NullsOnTop =>
    (Spec /\ [](~db.torn => ListsMatchKeys /\ CountsMatchLists) => []DeletionsClosed)
<1> SUFFICES ASSUME SubscribersMatch, NullsOnTop
             PROVE  Spec /\ [](~db.torn => ListsMatchKeys /\ CountsMatchLists)
                      => []DeletionsClosed
  OBVIOUS
<1>1. Init => Followed
  BY NothingToFollow
<1>2. TypeOK /\ Followed /\ (~db.torn => ListsMatchKeys /\ CountsMatchLists) /\ [Next]_vars
        => Followed'
  BY StepFollowed
<1>3. Followed => DeletionsClosed
  BY DEF Followed
<1> QED
  BY <1>1, <1>2, <1>3, TypeCorrect, PTL DEF Spec
=============================================================================
