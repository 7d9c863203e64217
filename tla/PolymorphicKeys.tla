--------------------------- MODULE PolymorphicKeys ---------------------------
(***************************************************************************)
(* A table whose rows have a polymorphic foreign key, the tables the key   *)
(* may target, and the transaction that edits them (transaction_context.py,*)
(* schemas/pm_foreign_key_col.py).                                         *)
(*                                                                         *)
(* The key is two columns: the type id, which is the position of a table   *)
(* in target_tables, and the index of a row of that table.  Each target    *)
(* table has heads and counts of its own; nxt and prv are shared by the    *)
(* lists of all types.  A commit computes one patch per type, as if the    *)
(* rows of a type had a plain key.                                         *)
(*                                                                         *)
(* No key targets the table itself and no other table has keys, so that a  *)
(* delete call has at most two levels and is one action here;              *)
(* TransactionContext has the recursion.                                   *)
(***************************************************************************)
EXTENDS AdjacencyLists

CONSTANTS
  NTypes,       (* the number of target tables                             *)
  OnDelete,     (* FksOnDeleteStyle of the key                             *)
  TrackCounts,  (* AdjacencyListConf.track_counts                          *)
  NullOf,       (* per type, the sentinel of the target's own index dtype  *)
  Rules,        (* the rules the callers keep, a subset of AllRules        *)
  MaxRows,      (* bound: rows of the table                                *)
  MaxTargets,   (* bound: per type, rows of the target table               *)
  MaxStaged,    (* bound: rows staged per table and transaction            *)
  MaxNamed,     (* bound: rows an update or delete call names              *)
  MaxCalls      (* bound: calls per transaction                            *)

Types == 0 .. NTypes - 1

\* type_id_sentinel, the type of a row without a reference.
NoType == NTypes

AllRules == {"relinked rows stay", "relink targets stay",
             "relink targets keep their index", "relink or add",
             "neighbours of retyped rows stay"}

ASSUME KeyAssumption ==
  /\ NTypes \in Nat \ {0}
  /\ OnDelete \in {"CASCADE", "RESTRICT", "SET_NULL"}
  /\ TrackCounts \in BOOLEAN
  /\ NullOf \in [Types -> Nat]
  /\ Rules \subseteq AllRules

ASSUME BoundAssumption ==
  /\ MaxRows \in Nat /\ MaxTargets \in [Types -> Nat]
  /\ MaxStaged \in Nat /\ MaxNamed \in Nat /\ MaxCalls \in Nat
  /\ MaxRows + MaxStaged <= Missing
  /\ \A ty \in Types : MaxTargets[ty] + MaxStaged <= Missing

VARIABLES
  db,       (* the committed database                                      *)
  tx,       (* the transaction context                                     *)
  outcome   (* how the last call, commit or rollback ended                 *)

vars == <<db, tx, outcome>>

Rows == 0 .. db.len - 1

TargetRows(ty) == 0 .. db.size[ty] - 1

NoRows == [i \in {} |-> Missing]

NoTx ==
  [open      |-> FALSE,
   calls     |-> 0,
   staged    |-> FALSE,                    \* the table is a key of `additions`
   additions |-> <<>>,                     \* staged rows, [type, key] each
   added     |-> [ty \in Types |-> 0],     \* rows staged for the targets
   deleted   |-> {},
   gone      |-> [ty \in Types |-> {}],    \* deletions of the targets
   unlinks   |-> {},                       \* fk_set_null_unlinks
   claims    |-> [ty \in Types |-> {}],    \* new_fk_claims
   relinks   |-> <<>>,                     \* pm_fk_target_updates
   retypes   |-> NoRows,                   \* pm_fk_type_id_updates
   keySet    |-> {},                       \* rows with a staged key ...
   typeSet   |-> {}]                       \* ... and with a staged type

Relinked == {tx.relinks[i].row : i \in DOMAIN tx.relinks}

\* The type a row is to have.
NewType(r) == IF r \in DOMAIN tx.retypes THEN tx.retypes[r] ELSE db.type[r]

\* The relinks of rows that are to have a type.
TypedRelinks ==
  {u \in {tx.relinks[i] : i \in DOMAIN tx.relinks} : NewType(u.row) \in Types}

Init ==
  /\ db = [len  |-> 0, size |-> [ty \in Types |-> 0],
           key  |-> NoRows, type |-> NoRows, nxt |-> NoRows, prv |-> NoRows,
           head |-> [ty \in Types |-> NoRows],
           cnt  |-> [ty \in Types |-> NoRows],
           torn |-> FALSE]
  /\ tx = NoTx
  /\ outcome = "ok"

\* PackedArrayDB.transaction.  After a commit that raised, the program stops.
Begin ==
  /\ ~tx.open
  /\ ~db.torn
  /\ tx' = [NoTx EXCEPT !.open = TRUE]
  /\ outcome' = "ok"
  /\ UNCHANGED db

Ready == tx.open /\ tx.calls < MaxCalls

Refuse(reason) ==
  /\ outcome' = reason
  /\ tx' = [tx EXCEPT !.calls = @ + 1]

(***************************************************************************)
(* register_additions_col_major.                                           *)
(***************************************************************************)
\* Mutant: a call claims the key of its last row only.
AddEntriesClaimLast(newRows) ==
  LET keysOf(ty) == {newRows[i].key : i \in {j \in {Len(newRows)} : newRows[j].type = ty}}
  IN  /\ Ready
      /\ Len(tx.additions) + Len(newRows) <= MaxStaged
      /\ db.len + Len(tx.additions) + Len(newRows) <= MaxRows + Cardinality(tx.deleted)
      /\ \A ty \in Types : keysOf(ty) \cap tx.gone[ty] = {}
      /\ outcome' = "ok"
      /\ tx' = [tx EXCEPT !.calls = @ + 1, !.staged = TRUE,
                  !.additions = @ \o newRows,
                  !.claims = [ty \in Types |-> @[ty] \cup keysOf(ty)]]
      /\ UNCHANGED db

\* Stage rows of the table; their keys are claims on the table their type
\* names.  A row without a type claims nothing.
AddEntries(newRows) ==
  LET keysOf(ty) == {newRows[i].key : i \in {j \in DOMAIN newRows : newRows[j].type = ty}}
  IN  /\ Ready
      /\ Len(tx.additions) + Len(newRows) <= MaxStaged
      /\ db.len + Len(tx.additions) + Len(newRows) <= MaxRows + Cardinality(tx.deleted)
      /\ IF \E ty \in Types : keysOf(ty) \cap tx.gone[ty] # {}
           THEN /\ outcome' = "VoidReference"
                /\ tx' = [tx EXCEPT !.calls = @ + 1, !.staged = TRUE]
           ELSE /\ outcome' = "ok"
                /\ tx' = [tx EXCEPT !.calls = @ + 1, !.staged = TRUE,
                            !.additions = @ \o newRows,
                            !.claims = [ty \in Types |-> @[ty] \cup keysOf(ty)]]
      /\ UNCHANGED db

\* Stage n rows of a target table.
AddTargets(ty, n) ==
  /\ Ready
  /\ tx.added[ty] + n <= MaxStaged
  /\ db.size[ty] + tx.added[ty] + n <= MaxTargets[ty] + Cardinality(tx.gone[ty])
  /\ outcome' = "ok"
  /\ tx' = [tx EXCEPT !.calls = @ + 1, !.added[ty] = @ + n]
  /\ UNCHANGED db

(***************************************************************************)
(* register_updates_col_major.  A call sets the key, the type or both of   *)
(* some rows; keys and types are sets of at most one value, empty for a    *)
(* column the call leaves out.  A value equal to the committed one is left *)
(* out, and the other half of the pair is taken from the committed row.    *)
(***************************************************************************)
\* The relinks with those of the rows in changed, in ascending order; a row
\* that has one keeps its place.
WithRelinks(relinks, changed, target(_)) ==
  LET has == {relinks[i].row : i \in DOMAIN relinks}
      new == changed \ has
  IN  [i \in DOMAIN relinks |->
         IF relinks[i].row \in changed
           THEN [relinks[i] EXCEPT !.target = target(relinks[i].row)]
           ELSE relinks[i]]
      \o [i \in 1 .. Cardinality(new) |->
            [row |-> Nth(i - 1, new), target |-> target(Nth(i - 1, new))]]

UpdateEntries(rows, keys, types) ==
  LET keyed   == {r \in rows : \E k \in keys : db.key[r] # k}
      typed   == {r \in rows : \E ty \in types : db.type[r] # ty}
      given(r)   == CHOOSE k \in keys : TRUE
      current(r) == db.key[r]
      byKey == WithRelinks(tx.relinks, keyed, given)
      byType == WithRelinks(byKey,
                  typed \ {byKey[i].row : i \in DOMAIN byKey}, current)
  IN  /\ Ready
      /\ IF \E r \in rows : r >= db.len
           THEN Refuse("UpdateStagedRow")
         ELSE IF rows \cap tx.deleted # {}
           THEN Refuse("UpdateDeletedRow")
         ELSE IF \/ keys # {} /\ rows \cap tx.keySet # {}
                 \/ types # {} /\ rows \cap tx.typeSet # {}
           THEN Refuse("UpdateQueuedEdit")
         ELSE /\ outcome' = "ok"
              /\ tx' = [tx EXCEPT
                   !.calls = @ + 1,
                   !.relinks = byType,
                   !.retypes = [r \in DOMAIN @ \cup keyed \cup typed |->
                                  IF r \in typed THEN CHOOSE ty \in types : TRUE
                                  ELSE IF r \in DOMAIN @ THEN @[r]
                                  ELSE db.type[r]],
                   !.keySet = @ \cup keyed,
                   !.typeSet = @ \cup typed]
      /\ UNCHANGED db

(***************************************************************************)
(* register_deletions.                                                     *)
(***************************************************************************)
\* The columns of a plain key of type ty.
Group(ty) == [fk |-> db.key, nxt |-> db.nxt, prv |-> db.prv, head |-> db.head[ty]]

\* Mutant: the walk ends one row early.
ReferencingButLast(ty, i) ==
  Reached(db.nxt, db.head[ty][i],
          (IF TrackCounts THEN db.cnt[ty][i] ELSE Cardinality(Rows)) - 1)

\* get_referencing_indices(type_id, ...).
Referencing(ty, i) ==
  Reached(db.nxt, db.head[ty][i],
          IF TrackCounts THEN db.cnt[ty][i] ELSE Cardinality(Rows))

\* Delete rows of a target table.  del_entries refuses ids that are no rows
\* (table.py:458) before register_deletions looks at claims.  Rows that are
\* relinked are not spared: only fk_updates is looked up, which holds the updates
\* of plain keys.
DelTargets(ty, ids) ==
  LET hit == (UNION {Referencing(ty, i) : i \in ids}) \ tx.deleted
  IN  /\ Ready
      /\ IF ~(ids \subseteq TargetRows(ty))
           THEN Refuse("IndexError")
         ELSE IF tx.claims[ty] \cap ids # {}
           THEN Refuse("DeleteNewlyClaimed")
         ELSE IF hit # {} /\ OnDelete = "RESTRICT"
           THEN Refuse("DeleteClaimedByStrictFk")
         ELSE /\ outcome' = "ok"
              /\ tx' = [tx EXCEPT
                   !.calls = @ + 1,
                   !.gone[ty] = @ \cup ids,
                   !.deleted = IF OnDelete = "CASCADE" THEN @ \cup hit ELSE @,
                   !.unlinks = IF OnDelete = "SET_NULL" THEN @ \cup hit ELSE @]
      /\ UNCHANGED db

\* Mutant: staged ids are taken for rows.
DelEntriesOrStaged(ids) ==
  /\ Ready
  /\ outcome' = "ok"
  /\ tx' = [tx EXCEPT !.calls = @ + 1, !.deleted = @ \cup ids]
  /\ UNCHANGED db

\* Delete rows of the table; nothing references them.
DelEntries(ids) ==
  /\ Ready
  /\ IF ids \subseteq Rows
       THEN /\ outcome' = "ok"
            /\ tx' = [tx EXCEPT !.calls = @ + 1, !.deleted = @ \cup ids]
       ELSE Refuse("IndexError")
  /\ UNCHANGED db

-----------------------------------------------------------------------------
(***************************************************************************)
(* TransactionContext.commit.                                              *)
(***************************************************************************)
SourceOracle == Oracle(db.len, Len(tx.additions), tx.deleted)

TargetOracle(ty) == Oracle(db.size[ty], tx.added[ty], tx.gone[ty])

\* Mutant: all keys of the column are looked up in the first table.
ResolveInFirst(ty, k) ==
  LET p == Resolve(TargetOracle(0), k)
  IN  IF p = Missing THEN NullOf[0] ELSE p

\* A key of type ty through its oracle, which says NullOf for "nowhere".
ResolveKey(ty, k) ==
  LET p == Resolve(TargetOracle(ty), k)
  IN  IF p = Missing THEN NullOf[ty] ELSE p

Dead == tx.deleted \cup tx.unlinks \cup Relinked

\* Mutant: rows leave the list of the type they are to have.
DeadOfNewType(ty) == {r \in Dead : NewType(r) = ty}

\* The rows that leave a list of type ty: those whose old type it is.
DeadOf(ty) == {r \in Dead : db.type[r] = ty}

\* The rows that are put into a list of type ty: those whose new type it is.
RelinksTo(ty) ==
  EntriesAt(tx.relinks, {i \in DOMAIN tx.relinks : NewType(tx.relinks[i].row) = ty})

\* Mutant: the staged rows of a type are taken to follow each other.
StagedOfContiguous(ty) ==
  LET batch == EntriesAt(tx.additions, {k \in DOMAIN tx.additions : tx.additions[k].type = ty})
  IN  [k \in DOMAIN batch |-> [row    |-> SourceOracle.start + (k - 1),
                               target |-> batch[k].key,
                               type   |-> ty]]

\* The staged rows of type ty as items to splice, each with its own staged id.
StagedOf(ty) ==
  LET items == [k \in DOMAIN tx.additions |->
                  [row    |-> SourceOracle.start + (k - 1),
                   target |-> tx.additions[k].key,
                   type   |-> tx.additions[k].type]]
  IN  EntriesAt(items, {k \in DOMAIN items : items[k].type = ty})

\* interleave_existing_rows: the relinked rows that stay, before the lists of
\* their new targets.
SplicedRelinks(c, so, relinks) ==
  Splice(c, EntriesAt(relinks, {i \in DOMAIN relinks : Resolve(so, relinks[i].row) # Missing}),
         Dead)

\* interleave_new_rows_non_contiguous.
SplicedStaged(c, staged) == Splice(c, staged, Dead)

\* The patch for the lists of type ty, in indices from before.
TypePatch(ty) ==
  LET c  == Group(ty)
      so == SourceOracle
      to == TargetOracle(ty)
      staged == StagedOf(ty)
      relinks == RelinksTo(ty)
      ignore == {staged[k].target : k \in DOMAIN staged} \cup to.deletions
                  \cup {Resolve(to, relinks[k].target) : k \in DOMAIN relinks}
      moved == {r \in DOMAIN so.moves \ Dead : db.type[r] = ty}
  IN  ThenPatch(ThenPatch(ThenPatch(
        PatchUnlinked(c, DeadOf(ty), ignore),
        PatchRelocated(c, moved, ignore)),
        SplicedRelinks(c, so, relinks)),
        SplicedStaged(c, staged))

\* Mutant: a target loses the rows that are to have its type.
CountDeltaOfNewTypes(ty, p) ==
  LET to == TargetOracle(ty)
      staged == StagedOf(ty)
      relinks == RelinksTo(ty)
      lost == {r \in DeadOfNewType(ty) : db.key[r] # Missing /\ Resolve(to, db.key[r]) = p}
      gained == {k \in DOMAIN staged : Resolve(to, staged[k].target) = p}
      relinked == {k \in DOMAIN relinks :
                     Resolve(to, Resolve(to, relinks[k].target)) = p}
  IN  Cardinality(gained) + Cardinality(relinked) - Cardinality(lost)

\* What the patch adds to the count of target p; the targets of relinked rows
\* are resolved twice.  Counts are numbers here: what the casts of deltas and
\* targets to the index type do, CountDelta of TransactionContext says.
CountDelta(ty, p) ==
  LET to == TargetOracle(ty)
      staged == StagedOf(ty)
      relinks == RelinksTo(ty)
      lost == {r \in DeadOf(ty) : db.key[r] # Missing /\ Resolve(to, db.key[r]) = p}
      gained == {k \in DOMAIN staged : Resolve(to, staged[k].target) = p}
      relinked == {k \in DOMAIN relinks :
                     Resolve(to, Resolve(to, relinks[k].target)) = p}
  IN  Cardinality(gained) + Cardinality(relinked) - Cardinality(lost)

\* Materialization of a column of a table with oracle o: moved rows, then
\* staged rows, whose k-th value is fresh(k).
Materialize(col, o, fresh(_)) ==
  [p \in 0 .. o.newSize - 1 |->
     IF \E k \in DOMAIN o.dest : o.dest[k] = p
       THEN fresh(CHOOSE k \in DOMAIN o.dest : o.dest[k] = p)
     ELSE IF \E i \in DOMAIN o.moves : o.moves[i] = p
       THEN col[CHOOSE i \in DOMAIN o.moves : o.moves[i] = p]
     ELSE col[p]]

\* The columns of the table and of its targets after the patches of all types,
\* in the order of the types.
Patched ==
  LET so == SourceOracle
      patch(ty) == Translate(TypePatch(ty), so, TargetOracle(ty))
      nxt[n \in 0 .. NTypes] ==
        IF n = 0 THEN NoRows ELSE Then(nxt[n - 1], patch(n - 1).nxt)
      prv[n \in 0 .. NTypes] ==
        IF n = 0 THEN NoRows ELSE Then(prv[n - 1], patch(n - 1).prv)
      lives(r) == Resolve(so, r) # Missing
      newRow(r) == Resolve(so, r)
      newKey(r) ==
        ResolveKey(NewType(r),
          tx.relinks[CHOOSE i \in DOMAIN tx.relinks : tx.relinks[i].row = r].target)
      stagedKey(k) == LET a == tx.additions[k + 1]
                      IN  IF a.type = NoType THEN a.key ELSE ResolveKey(a.type, a.key)
      stagedType(k) == tx.additions[k + 1].type
      none(k) == Missing
      zero(k) == 0
  IN  [len  |-> so.newSize,
       size |-> [ty \in Types |-> TargetOracle(ty).newSize],
       key  |-> Overwrite(Materialize(db.key, so, stagedKey),
                          Writes({r \in tx.keySet : lives(r)}, newRow, newKey)),
       type |-> Overwrite(Materialize(db.type, so, stagedType),
                          Writes({r \in tx.typeSet : lives(r)}, newRow, NewType)),
       nxt  |-> Overwrite(Materialize(db.nxt, so, none), nxt[NTypes]),
       prv  |-> Overwrite(Materialize(db.prv, so, none), prv[NTypes]),
       head |-> [ty \in Types |->
                   Overwrite(Materialize(db.head[ty], TargetOracle(ty), none),
                             patch(ty).head)],
       cnt  |-> [ty \in Types |->
                   LET count == Materialize(db.cnt[ty], TargetOracle(ty), zero)
                   IN  [p \in DOMAIN count |->
                          count[p] + (IF TrackCounts THEN CountDelta(ty, p) ELSE 0)]],
       torn |-> FALSE]

\* Mutant: only the keys of the last type follow their targets.
FixLast(d) ==
  LET m == TargetOracle(NTypes - 1).moves
      c == [fk |-> d.key, nxt |-> d.nxt, prv |-> d.prv, head |-> d.head[NTypes - 1]]
      fixed == FixMovedTargets(c, {m[i] : i \in DOMAIN m})
  IN  [d EXCEPT !.key = fixed.fk, !.prv = fixed.prv]

\* fix_keys_broken_by_moved_targets, table by table: the lists of a type lead
\* to the keys that follow its targets.
FixAll(d) ==
  LET fixed[n \in 0 .. NTypes] ==
        IF n = 0 THEN d
        ELSE LET before == fixed[n - 1]
                 m == TargetOracle(n - 1).moves
                 c == [fk |-> before.key, nxt |-> d.nxt, prv |-> before.prv,
                       head |-> d.head[n - 1]]
                 after == FixMovedTargets(c, {m[i] : i \in DOMAIN m})
             IN  [before EXCEPT !.key = after.fk, !.prv = after.prv]
  IN  fixed[NTypes]

(***************************************************************************)
(* Rules for callers.                                                      *)
(***************************************************************************)
\* No row is relinked and then deleted in the same transaction, by a call of
\* its own or by the cascade of one of its targets, old or new.
RelinkedRowsStay == Relinked \cap tx.deleted = {}

\* No row is relinked to a row that the same transaction deletes.
RelinkTargetsStay ==
  \A u \in TypedRelinks : u.target \notin tx.gone[NewType(u.row)]

\* No row is relinked to a row that the commit moves, nor to a staged one that
\* comes to lie elsewhere than its id says.
RelinkTargetsKeepTheirIndex ==
  \A u \in TypedRelinks :
    Resolve(TargetOracle(NewType(u.row)), u.target) \in {u.target, Missing}

\* No row gets both relinked and staged references.
RelinkOrAdd ==
  \A u \in TypedRelinks : \A k \in DOMAIN tx.additions :
    tx.additions[k] = [type |-> NewType(u.row), key |-> u.target] => u.target = Missing

\* No row gets an earlier type while a row next to it in its old list moves:
\* the patch of the old type, applied later, overwrites the links of the new.
NeighboursOfRetypedStay ==
  \A r \in Relinked :
    NewType(r) < db.type[r] /\ db.type[r] # NoType =>
      {db.nxt[r], db.prv[r]} \cap (DOMAIN SourceOracle.moves \ Dead) = {}

RulesKept ==
  /\ "relinked rows stay" \in Rules => RelinkedRowsStay
  /\ "relink targets stay" \in Rules => RelinkTargetsStay
  /\ "relink targets keep their index" \in Rules => RelinkTargetsKeepTheirIndex
  /\ "relink or add" \in Rules => RelinkOrAdd
  /\ "neighbours of retyped rows stay" \in Rules => NeighboursOfRetypedStay

\* Only refused calls: nothing to concatenate (_prepare_additions).
NothingToConcatenate == tx.staged /\ tx.additions = <<>>

\* The commit raises half-way: there is no target table to resolve the key of
\* a row without a type in, and a key to null cannot be written.
CannotFinish ==
  \/ \E r \in tx.keySet : NewType(r) = NoType
  \/ \E r \in tx.unlinks : Resolve(SourceOracle, r) # Missing

Commit ==
  /\ tx.open
  /\ ~NothingToConcatenate
  /\ ~CannotFinish
  /\ RulesKept
  /\ db' = FixAll(Patched)
  /\ outcome' = "committed"
  /\ tx' = NoTx

\* What the columns are then like is left open: the program stops.
CommitTorn ==
  /\ tx.open
  /\ ~NothingToConcatenate
  /\ CannotFinish
  /\ RulesKept
  /\ db' = [db EXCEPT !.torn = TRUE]
  /\ outcome' = "raised"
  /\ tx' = NoTx

CommitRefused ==
  /\ tx.open
  /\ NothingToConcatenate
  /\ RulesKept
  /\ outcome' = "ValueError"
  /\ tx' = NoTx
  /\ UNCHANGED db

Rollback ==
  /\ tx.open
  /\ outcome' = "rolled back"
  /\ tx' = NoTx
  /\ UNCHANGED db

-----------------------------------------------------------------------------
\* What a call may name of a table of n rows, staged ones included.
Named(n) == {ids \in SUBSET (0 .. n - 1) : Cardinality(ids) \in 1 .. MaxNamed}

\* A key of type ty the program may write: a row, a staged row or no row.
KeysTo(ty) == (0 .. db.size[ty] + tx.added[ty] - 1) \cup {Missing}

\* A row to stage: a type and a key of it, or no reference at all.
References ==
  (UNION {[type : {ty}, key : KeysTo(ty)] : ty \in Types})
    \cup [type : {NoType}, key : {Missing}]

\* A call sets the type with a key of it, the key alone, to one of the type the
\* row is to have, or takes the reference away.
UpdateKeys ==
  \E rows \in Named(db.len + Len(tx.additions)) :
    \/ \E ref \in References : UpdateEntries(rows, {ref.key}, {ref.type})
    \/ \E ty \in Types : \E k \in KeysTo(ty) :
         /\ \A r \in rows \cap Rows : NewType(r) \in {ty, NoType}
         /\ UpdateEntries(rows, {k}, {})

Next ==
  \/ Begin
  \/ \E n \in 1 .. MaxStaged : \E rows \in [1 .. n -> References] : AddEntries(rows)
  \/ \E ty \in Types : \E n \in 1 .. MaxStaged : AddTargets(ty, n)
  \/ UpdateKeys
  \/ \E ty \in Types :
       \E ids \in Named(db.size[ty] + tx.added[ty]) :
         DelTargets(ty, ids)
  \/ \E ids \in Named(db.len + Len(tx.additions)) : DelEntries(ids)
  \/ Commit
  \/ CommitTorn
  \/ CommitRefused
  \/ Rollback

Spec == Init /\ [][Next]_vars

-----------------------------------------------------------------------------
(***************************************************************************)
(* What should hold.                                                       *)
(***************************************************************************)
ReferrersOf(ty, t) == {r \in Rows : db.type[r] = ty /\ db.key[r] = t}

Typed == {r \in Rows : db.type[r] \in Types}

\* Type invariant.  The columns of each table have as many rows as the table,
\* whatever is staged concerns committed rows, and both columns of the key
\* have an entry in the relinks.
TypeOK ==
  /\ db.len \in 0 .. MaxRows
  /\ \A ty \in Types : db.size[ty] \in 0 .. MaxTargets[ty]
  /\ \A col \in {db.key, db.type, db.nxt, db.prv} : DOMAIN col = Rows
  /\ \A ty \in Types : DOMAIN db.head[ty] = TargetRows(ty) /\ DOMAIN db.cnt[ty] = TargetRows(ty)
  /\ \A r \in Rows : db.type[r] \in Types \cup {NoType}
  /\ tx.deleted \cup tx.unlinks \cup Relinked \subseteq Rows
  /\ \A ty \in Types : tx.gone[ty] \subseteq TargetRows(ty)
  /\ Relinked = DOMAIN tx.retypes
  /\ tx.keySet \cup tx.typeSet = Relinked

\* Every key is null or denotes a row of the table its type names.
KeysResolve ==
  ~db.torn => \A r \in Typed : db.key[r] \in TargetRows(db.type[r]) \cup {Missing}

\* The list of a target row holds exactly the rows whose type and key denote
\* it, ends, and is linked the same way in both directions: lists of several
\* types share the links without running into each other.
ListsMatchKeys ==
  ~db.torn =>
    /\ \A ty \in Types : \A t \in TargetRows(ty) :
         /\ Reached(db.nxt, db.head[ty][t], db.len) = ReferrersOf(ty, t)
         /\ Node(db.nxt, db.head[ty][t], Cardinality(ReferrersOf(ty, t))) = Missing
         /\ db.head[ty][t] # Missing => db.prv[db.head[ty][t]] = Missing
    /\ \A r \in Typed :
         /\ db.nxt[r] # Missing => db.prv[db.nxt[r]] = r
         /\ db.prv[r] # Missing => db.nxt[db.prv[r]] = r

\* The count of a target row is the number of rows that reference it.
CountsMatchLists ==
  ~db.torn /\ TrackCounts =>
    \A ty \in Types : \A t \in TargetRows(ty) :
      db.cnt[ty][t] = Cardinality(ReferrersOf(ty, t))

\* A row that references a row marked for deletion is marked itself, is to be
\* nulled, or is to reference another one.
DeletionsClosed ==
  \A r \in Typed : db.key[r] \in tx.gone[db.type[r]] =>
    r \in tx.deleted \cup tx.unlinks \cup Relinked

\* No staged row references a row marked for deletion in the table its type
\* names, whichever of the two calls comes first.
StagedKeysLive ==
  \A k \in DOMAIN tx.additions :
    tx.additions[k].type \in Types =>
      tx.additions[k].key \notin tx.gone[tx.additions[k].type]

\* get_referencing_indices returns the rows that reference a target
\* (references/columns/polymorphic_foreign_key.md:39).
ReferrersFound ==
  ~db.torn =>
    \A ty \in Types : \A t \in TargetRows(ty) : Referencing(ty, t) = ReferrersOf(ty, t)

\* After a commit every row that was not deleted has the type and the key that
\* it was left with, the key at the index its target now has.
CommitsFollowKeys ==
  [][outcome' = "committed" =>
       \A r \in Rows \ tx.deleted :
         LET p == Resolve(SourceOracle, r)
             given == {i \in DOMAIN tx.relinks : tx.relinks[i].row = r}
             key == IF given = {} THEN db.key[r]
                    ELSE tx.relinks[CHOOSE i \in given : TRUE].target
         IN  /\ db'.type[p] = NewType(r)
             /\ NewType(r) \in Types =>
                  db'.key[p] = Resolve(TargetOracle(NewType(r)), key)]_vars
=============================================================================
