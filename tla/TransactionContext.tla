------------------------- MODULE TransactionContext -------------------------
(***************************************************************************)
(* The tables of a PackedArrayDB and the transaction that edits them       *)
(* (transaction_context.py, table.py, database.py).                        *)
(*                                                                         *)
(* A schema is a set of tables and of plain foreign key columns.  The      *)
(* database is structure-of-arrays: db.col[f] holds the columns of the     *)
(* foreign key f, the key and the links of its lists (fk, nxt, prv) in the *)
(* source table, the heads and counts of the lists (head, cnt) in the      *)
(* target table.  A `with db.transaction()` block stages additions,        *)
(* updates and deletions in tx, and leaving it commits them in one pass.   *)
(*                                                                         *)
(* The library runs in one thread.  A delete call is a recursion over the  *)
(* rows that reference what it deletes; call.stack holds its frames, and   *)
(* nothing else happens until it returns.                                  *)
(***************************************************************************)
EXTENDS AdjacencyLists

CONSTANTS
  Tables,        (* the tables of the schema                               *)
  ForeignKeys,   (* its plain foreign key columns                          *)
  Source,        (* [ForeignKeys -> Tables]: the table that has the column *)
  Target,        (* [ForeignKeys -> Tables]: the table its keys index      *)
  OnDelete,      (* [ForeignKeys -> FksOnDeleteStyle]                      *)
  Subscribers,   (* [Tables -> Seq(ForeignKeys)]: the keys that target it  *)
  TrackCounts,   (* AdjacencyListConf.track_counts                         *)
  IndexMod,      (* [Tables -> Nat]: 2^w for index columns w bits wide     *)
  CountMod,      (* 2^w for count columns w bits wide                      *)
  Rules,         (* the rules the callers keep, a subset of AllRules       *)
  MaxRows,       (* bound, [Tables -> Nat]: rows of a table                *)
  MaxStaged,     (* bound: rows staged per table and transaction           *)
  MaxCalls,      (* bound: calls per transaction                           *)
  MaxDepth       (* the recursion limit of the interpreter                 *)

FksOnDeleteStyle == {"CASCADE", "RESTRICT", "SET_NULL"}

AllRules == {"relinked rows stay", "relink targets stay",
             "relink targets keep their index", "relink or add"}

ASSUME SchemaAssumption ==
  /\ Source \in [ForeignKeys -> Tables]
  /\ Target \in [ForeignKeys -> Tables]
  /\ OnDelete \in [ForeignKeys -> FksOnDeleteStyle]
  /\ Subscribers \in [Tables -> Seq(ForeignKeys)]
  /\ TrackCounts \in BOOLEAN
  /\ Rules \subseteq AllRules

ASSUME SizeAssumption ==
  /\ IndexMod \in [Tables -> Nat \ {0}]
  /\ CountMod \in Nat \ {0}
  /\ MaxRows \in [Tables -> Nat] /\ MaxStaged \in Nat
  /\ MaxCalls \in Nat /\ MaxDepth \in Nat
  /\ \A t \in Tables : MaxRows[t] + MaxStaged <= Missing

VARIABLES
  db,        (* the committed database                                     *)
  tx,        (* the transaction context                                    *)
  call,      (* the delete call that is expanding, if any                  *)
  trackers,  (* what the block's trackers say, once the commit fills them  *)
  outcome    (* how the last call, commit or rollback ended                *)

vars == <<db, tx, call, trackers, outcome>>

KeysOf(t) == {f \in ForeignKeys : Source[f] = t}

RowsOf(t) == 0 .. db.len[t] - 1

\* Staged ids continue the indices of the table (register_additions).
StagedIds(t) == db.len[t] .. db.len[t] + Len(tx.additions[t]) - 1

NoRows == [i \in {} |-> Missing]

NoTx ==
  [open      |-> FALSE,
   calls     |-> 0,
   staged    |-> {},                          \* the keys of `additions`
   additions |-> [t \in Tables |-> <<>>],
   deletions |-> [t \in Tables |-> {}],
   unlinks   |-> [f \in ForeignKeys |-> {}],  \* fk_set_null_unlinks
   claims    |-> [t \in Tables |-> {}],       \* new_fk_claims
   updates   |-> [f \in ForeignKeys |-> <<>>]]

\* The block tracks every id of every table; no tracker is filled yet.
Unfilled == [t \in Tables |-> NoRows]

NoCall == [stack |-> <<>>, expanded |-> [t \in Tables |-> {}]]

\* The rows whose key f has a staged update.
Relinked(f) == {tx.updates[f][i].row : i \in DOMAIN tx.updates[f]}

-----------------------------------------------------------------------------
Init ==
  /\ db = [len  |-> [t \in Tables |-> 0],
           col  |-> [f \in ForeignKeys |->
                      [fk   |-> NoRows, nxt |-> NoRows, prv |-> NoRows,
                       head |-> NoRows, cnt |-> NoRows]],
           torn |-> FALSE]
  /\ tx = NoTx
  /\ call = NoCall
  /\ trackers = Unfilled
  /\ outcome = "ok"

\* PackedArrayDB.transaction.  After a commit that raised, the program stops.
Begin ==
  /\ ~tx.open
  /\ ~db.torn
  /\ tx' = [NoTx EXCEPT !.open = TRUE]
  /\ trackers' = Unfilled
  /\ outcome' = "ok"
  /\ UNCHANGED <<db, call>>

\* The program may make another call in the block.
Ready == tx.open /\ call.stack = <<>> /\ tx.calls < MaxCalls

Refuse(reason) ==
  /\ outcome' = reason
  /\ tx' = [tx EXCEPT !.calls = @ + 1]

(***************************************************************************)
(* PackedArrayTable.add_entries / register_additions_col_major: newRows is *)
(* the sequence of rows of one call, each a function from the foreign keys *)
(* of the table to targets.  Keys to a row marked for deletion are         *)
(* refused, after the entry for the table has been made.                   *)
(***************************************************************************)
AddEntries(t, newRows) ==
  LET targets(f) == {newRows[i][f] : i \in DOMAIN newRows}
      void == \E f \in KeysOf(t) : targets(f) \cap tx.deletions[Target[f]] # {}
  IN  /\ Ready
      /\ Len(tx.additions[t]) + Len(newRows) <= MaxStaged
      /\ db.len[t] + Len(tx.additions[t]) + Len(newRows)
           <= MaxRows[t] + Cardinality(tx.deletions[t])
      /\ IF void
           THEN /\ outcome' = "VoidReference"
                /\ tx' = [tx EXCEPT !.calls = @ + 1, !.staged = @ \cup {t}]
           ELSE /\ outcome' = "ok"
                /\ tx' = [tx EXCEPT
                     !.calls = @ + 1,
                     !.staged = @ \cup {t},
                     !.additions[t] = @ \o newRows,
                     !.claims = [u \in Tables |-> @[u] \cup UNION
                        {targets(f) : f \in {g \in KeysOf(t) : Target[g] = u}}]]
      /\ UNCHANGED <<db, call, trackers>>

(***************************************************************************)
(* PackedArrayTable.update_entries / register_updates_col_major on a       *)
(* foreign key column: set the key of every row of rows, in ascending      *)
(* order, to target.  Rows that hold the value already are left out.       *)
(***************************************************************************)
UpdateEntries(f, rows, target) ==
  LET t == Source[f]
      changed == {r \in rows : db.col[f].fk[r] # target}
      entry == [k \in 1 .. Cardinality(changed) |->
                  [row |-> Nth(k - 1, changed), target |-> target]]
  IN  /\ Ready
      /\ IF \E r \in rows : r >= db.len[t]
           THEN Refuse("UpdateStagedRow")
         ELSE IF rows \cap tx.deletions[t] # {}
           THEN Refuse("UpdateDeletedRow")
         ELSE IF rows \cap Relinked(f) # {}
           THEN Refuse("UpdateQueuedEdit")
         ELSE /\ outcome' = "ok"
              /\ tx' = [tx EXCEPT !.calls = @ + 1,
                                  !.updates[f] = @ \o entry]
      /\ UNCHANGED <<db, call, trackers>>

-----------------------------------------------------------------------------
(***************************************************************************)
(* PackedArrayTable.del_entries / register_deletions.                      *)
(***************************************************************************)
\* get_referencing_indices: the rows in the list of target i, as many as its
\* count says when counts are tracked.
Referencing(f, i) ==
  LET c == db.col[f]
  IN  Reached(c.nxt, c.head[i],
              IF TrackCounts THEN c.cnt[i] ELSE Cardinality(DOMAIN c.nxt))

\* A level of expand_and_validate_deletions.
Frame(t, ids, nulled) == [table |-> t, ids |-> ids, sub |-> 1, nulled |-> nulled]

NothingNulled == [f \in ForeignKeys |-> {}]

\* Mutant: rows claimed by staged keys are deleted all the same.
EnterUnchecked(frame, stack, expanded) ==
  IF Len(stack) >= MaxDepth
    THEN call' = NoCall /\ outcome' = "RecursionError"
  ELSE /\ call' = [stack |-> Append(stack, frame), expanded |-> expanded]
       /\ outcome' = "ok"

\* Enter a level, unless its rows are claimed by staged keys or the
\* interpreter's stack is full.
Enter(frame, stack, expanded) ==
  IF tx.claims[frame.table] \cap frame.ids # {}
    THEN call' = NoCall /\ outcome' = "DeleteNewlyClaimed"
  ELSE IF Len(stack) >= MaxDepth
    THEN call' = NoCall /\ outcome' = "RecursionError"
  ELSE /\ call' = [stack |-> Append(stack, frame), expanded |-> expanded]
       /\ outcome' = "ok"

\* Mutant: staged ids are not refused.
DelEntriesOrStaged(t, ids) ==
  /\ Ready
  /\ tx' = [tx EXCEPT !.calls = @ + 1]
  /\ Enter(Frame(t, ids, NothingNulled), <<>>, NoCall.expanded)
  /\ UNCHANGED <<db, trackers>>

DelEntries(t, ids) ==
  /\ Ready
  /\ tx' = [tx EXCEPT !.calls = @ + 1]
  /\ IF ids \subseteq RowsOf(t)
       THEN Enter(Frame(t, ids, NothingNulled), <<>>, NoCall.expanded)
       ELSE call' = NoCall /\ outcome' = "IndexError"
  /\ UNCHANGED <<db, trackers>>

Top == call.stack[Len(call.stack)]
Below == SubSeq(call.stack, 1, Len(call.stack) - 1)

\* Mutant: a cascade ends after one level.
NewlyHitOnce(frame, f) ==
  IF Len(call.stack) > 1 THEN {}
  ELSE (UNION {Referencing(f, i) : i \in frame.ids})
         \ (Relinked(f) \cup tx.deletions[Source[f]] \cup call.expanded[Source[f]])

\* The rows that key f ties to the rows of the frame and that nothing has
\* dealt with yet.
NewlyHit(frame, f) ==
  (UNION {Referencing(f, i) : i \in frame.ids})
    \ (Relinked(f) \cup tx.deletions[Source[f]] \cup call.expanded[Source[f]])

\* One turn of the loop over the subscribers of the table.
ExpandSubscriber ==
  /\ call.stack # <<>>
  /\ Top.sub <= Len(Subscribers[Top.table])
  /\ LET f    == Subscribers[Top.table][Top.sub]
         hit  == NewlyHit(Top, f)
         rest == Append(Below, [Top EXCEPT !.sub = @ + 1])
     IN  \/ /\ hit = {}
            /\ call' = [call EXCEPT !.stack = rest]
            /\ outcome' = "ok"
         \/ /\ hit # {} /\ OnDelete[f] = "RESTRICT"
            /\ call' = NoCall
            /\ outcome' = "DeleteClaimedByStrictFk"
         \/ /\ hit # {} /\ OnDelete[f] = "SET_NULL"
            /\ call' = [call EXCEPT !.stack =
                 Append(Below, [Top EXCEPT !.sub = @ + 1, !.nulled[f] = @ \cup hit])]
            /\ outcome' = "ok"
         \/ /\ hit # {} /\ OnDelete[f] = "CASCADE"
            /\ Enter(Frame(Source[f], hit, Top.nulled), rest, call.expanded)
  /\ UNCHANGED <<db, tx, trackers>>

\* Mutant: the level records nothing and its caller turns to the same key again.
ReturnInnerAgain ==
  /\ Len(call.stack) > 1
  /\ Top.sub > Len(Subscribers[Top.table])
  /\ call' = [call EXCEPT !.stack = [Below EXCEPT ![Len(Below)].sub = @ - 1]]
  /\ outcome' = "ok"
  /\ UNCHANGED <<db, tx, trackers>>

\* An inner level returns.  It has filled the caller's dictionary of nulled
\* keys only if that was not empty: `prev or defaultdict(list)` takes a new
\* one for an empty one.
ReturnInner ==
  /\ Len(call.stack) > 1
  /\ Top.sub > Len(Subscribers[Top.table])
  /\ LET caller == Below[Len(Below)]
         shared == caller.nulled # NothingNulled
     IN  call' = [stack    |-> [Below EXCEPT ![Len(Below)].nulled =
                                  IF shared THEN Top.nulled ELSE @],
                  expanded |-> [call.expanded EXCEPT ![Top.table] = @ \cup Top.ids]]
  /\ outcome' = "ok"
  /\ UNCHANGED <<db, tx, trackers>>

\* Mutant: only the rows of the call itself are staged.
ReturnOuterAlone ==
  /\ Len(call.stack) = 1
  /\ Top.sub > Len(Subscribers[Top.table])
  /\ tx' = [tx EXCEPT !.deletions[Top.table] = @ \cup Top.ids]
  /\ call' = NoCall
  /\ outcome' = "ok"
  /\ UNCHANGED <<db, trackers>>

\* The outermost level returns and register_deletions stages the result.
ReturnOuter ==
  /\ Len(call.stack) = 1
  /\ Top.sub > Len(Subscribers[Top.table])
  /\ LET final == [call.expanded EXCEPT ![Top.table] = @ \cup Top.ids]
     IN  tx' = [tx EXCEPT
           !.deletions = [t \in Tables |-> @[t] \cup final[t]],
           !.unlinks = [f \in ForeignKeys |->
                          @[f] \cup (Top.nulled[f] \ final[Source[f]])]]
  /\ call' = NoCall
  /\ outcome' = "ok"
  /\ UNCHANGED <<db, trackers>>

-----------------------------------------------------------------------------
(***************************************************************************)
(* TransactionContext.commit.                                              *)
(***************************************************************************)
\* _create_oracle: a table nothing is staged for gets the identity.
OracleOf(t) == Oracle(db.len[t], Len(tx.additions[t]), tx.deletions[t])

\* Materialization of a column of a table with oracle o: moved rows, then
\* staged rows, whose k-th value is fresh(k).
Materialize(col, o, fresh(_)) ==
  [p \in 0 .. o.newSize - 1 |->
     IF \E k \in DOMAIN o.dest : o.dest[k] = p
       THEN fresh(CHOOSE k \in DOMAIN o.dest : o.dest[k] = p)
     ELSE IF \E i \in DOMAIN o.moves : o.moves[i] = p
       THEN col[CHOOSE i \in DOMAIN o.moves : o.moves[i] = p]
     ELSE col[p]]

\* The staged rows of f's source table as items to splice.
StagedItems(f, so) ==
  [k \in 1 .. Len(tx.additions[Source[f]]) |->
     [row |-> so.start + (k - 1), target |-> tx.additions[Source[f]][k][f]]]

\* The staged updates, in their order, of the rows that oracle so still knows.
SurvivingUpdates(upd, so) ==
  EntriesAt(upd, {k \in DOMAIN upd : Resolve(so, upd[k].row) # Missing})

\* _compute_topology_patches: the patch for f, in indices from before.
TopologyPatch(f, so, to) ==
  LET c == db.col[f]
      staged == StagedItems(f, so)
      upd == tx.updates[f]
      dead == so.deletions \cup tx.unlinks[f] \cup Relinked(f)
      claimed == {staged[k].target : k \in DOMAIN staged} \ {Missing}
      ignore == claimed \cup to.deletions
                  \cup {Resolve(to, upd[k].target) : k \in DOMAIN upd}
  IN  ThenPatch(ThenPatch(ThenPatch(
        PatchUnlinked(c, dead, ignore),
        PatchRelocated(c, DOMAIN so.moves \ dead, ignore)),
        Splice(c, SurvivingUpdates(upd, so), dead)),
        Splice(c, staged, dead))

\* Mutant: rows that leave a list are not subtracted.
CountDeltaOfArrivals(f, so, to, p) ==
  Cardinality({k \in DOMAIN tx.additions[Source[f]] :
                 Resolve(to, tx.additions[Source[f]][k][f]) = p})
  + Cardinality({k \in DOMAIN tx.updates[f] :
                   Resolve(to, tx.updates[f][k].target) = p})

\* What the patch adds to the count of target p: the rows that leave it, the
\* rows staged for it and the rows relinked to it.  Every delta is cast to the
\* index type of the source table, so -1 is IndexMod - 1; so are the targets,
\* but for those of relinked rows, which have gone through the oracle already.
CountDelta(f, so, to, p) ==
  LET c == db.col[f]
      dead == so.deletions \cup tx.unlinks[f] \cup Relinked(f)
      staged == StagedItems(f, so)
      upd == tx.updates[f]
      narrow(t) == t % IndexMod[Source[f]]
      lost == {r \in dead : c.fk[r] # Missing /\ Resolve(to, narrow(c.fk[r])) = p}
      gained == {k \in DOMAIN staged :
                   /\ staged[k].target # Missing
                   /\ Resolve(to, narrow(staged[k].target)) = p}
      relinked == {k \in DOMAIN upd :
                     Resolve(to, Resolve(to, upd[k].target)) = p}
  IN  Cardinality(gained) + Cardinality(relinked)
        + Cardinality(lost) * (IndexMod[Source[f]] - 1)

\* The columns of f after materialization and its patch.
CommitColumn(f) ==
  LET so == OracleOf(Source[f])
      to == OracleOf(Target[f])
      c  == db.col[f]
      p  == Translate(TopologyPatch(f, so, to), so, to)
      upd == tx.updates[f]
      newRow(k) == Resolve(so, upd[k].row)
      newKey(k) == Resolve(to, upd[k].target)
      stagedKey(k) == Resolve(to, tx.additions[Source[f]][k + 1][f])
      none(k) == Missing
      zero(k) == 0
      count == Materialize(c.cnt, to, zero)
  IN  [fk   |-> Overwrite(Materialize(c.fk, so, stagedKey),
                          Writes({k \in DOMAIN upd : newRow(k) # Missing},
                                 newRow, newKey)),
       nxt  |-> Overwrite(Materialize(c.nxt, so, none), p.nxt),
       prv  |-> Overwrite(Materialize(c.prv, so, none), p.prv),
       head |-> Overwrite(Materialize(c.head, to, none), p.head),
       cnt  |-> IF TrackCounts
                  THEN [i \in DOMAIN count |->
                          (count[i] + CountDelta(f, so, to, i)) % CountMod]
                  ELSE count]

\* The columns of f before its patch: what materialization alone leaves.
MaterializedColumn(f) ==
  LET so == OracleOf(Source[f])
      to == OracleOf(Target[f])
      c  == db.col[f]
      p  == Translate(Splice(c, StagedItems(f, so),
              so.deletions \cup tx.unlinks[f] \cup Relinked(f)), so, to)
      stagedRow(k) == so.dest[k]
      newNext(k) == p.nxt[stagedRow(k)]
      newPrev(k) == p.prv[stagedRow(k)]
      none(k) == Missing
      zero(k) == 0
  IN  [fk   |-> CommitColumn(f).fk,
       nxt  |-> Materialize(c.nxt, so, newNext),
       prv  |-> Materialize(c.prv, so, newPrev),
       head |-> Materialize(c.head, to, none),
       cnt  |-> Materialize(c.cnt, to, zero)]

MovedTo(t) == LET m == OracleOf(t).moves IN {m[i] : i \in DOMAIN m}

Stored(column(_), torn) ==
  db' = [len  |-> [t \in Tables |-> OracleOf(t).newSize],
         col  |-> [f \in ForeignKeys |-> column(f)],
         torn |-> torn]

\* The oracles tell every tracker where its ids are, before anything is moved.
FillTrackers ==
  trackers' = [t \in Tables |->
                 [i \in RowsOf(t) \cup StagedIds(t) |-> Resolve(OracleOf(t), i)]]

\* Keys of surviving rows that the commit is to set to null.
ToNullify(f) == {r \in tx.unlinks[f] : Resolve(OracleOf(Source[f]), r) # Missing}

\* A table whose only add_entries calls were refused has nothing to
\* concatenate (_prepare_additions).
NothingToConcatenate == \E t \in tx.staged : tx.additions[t] = <<>>

(***************************************************************************)
(* Rules for callers.  The code relies on them and does not check them: a  *)
(* commit that breaks one leaves lists or counts that do not match the     *)
(* keys, or keys to deleted rows.                                          *)
(***************************************************************************)
\* No row is relinked and then deleted in the same transaction.
RelinkedRowsStay ==
  \A f \in ForeignKeys : Relinked(f) \cap tx.deletions[Source[f]] = {}

\* No row is relinked to a row that the same transaction deletes.
RelinkTargetsStay ==
  \A f \in ForeignKeys : \A k \in DOMAIN tx.updates[f] :
    tx.updates[f][k].target \notin tx.deletions[Target[f]]

\* No row is relinked to a row that the commit moves.
RelinkTargetsKeepTheirIndex ==
  \A f \in ForeignKeys : \A k \in DOMAIN tx.updates[f] :
    LET target == tx.updates[f][k].target
    IN  Resolve(OracleOf(Target[f]), target) \in {target, Missing}

\* No row gets both relinked and staged references.
RelinkOrAdd ==
  \A f \in ForeignKeys : \A k \in DOMAIN tx.updates[f] :
    \A i \in DOMAIN tx.additions[Source[f]] :
      tx.updates[f][k].target = tx.additions[Source[f]][i][f]
        => tx.updates[f][k].target = Missing

RulesKept ==
  /\ "relinked rows stay" \in Rules => RelinkedRowsStay
  /\ "relink targets stay" \in Rules => RelinkTargetsStay
  /\ "relink targets keep their index" \in Rules => RelinkTargetsKeepTheirIndex
  /\ "relink or add" \in Rules => RelinkOrAdd

\* The block ends normally; __exit__ has the transaction closed first.
Leaving == tx.open /\ call.stack = <<>> /\ RulesKept

Close ==
  /\ tx' = NoTx
  /\ UNCHANGED call

Commit ==
  /\ Leaving
  /\ ~NothingToConcatenate
  /\ \A f \in ForeignKeys : ToNullify(f) = {}
  /\ LET fixed(f) == FixMovedTargets(CommitColumn(f), MovedTo(Target[f]))
     IN  Stored(fixed, FALSE)
  /\ FillTrackers
  /\ outcome' = "committed"
  /\ Close

\* `view[nullify_indices] = ()` cannot be broadcast: the commit raises after
\* it has materialized every table and applied the patches of some columns,
\* the first column with keys to nullify among them.
CommitTorn ==
  /\ Leaving
  /\ ~NothingToConcatenate
  /\ \E g \in ForeignKeys :
       /\ ToNullify(g) # {}
       /\ \E done \in SUBSET {f \in ForeignKeys : ToNullify(f) = {}} :
            LET column(f) == IF f \in done \cup {g} THEN CommitColumn(f)
                                                    ELSE MaterializedColumn(f)
            IN  Stored(column, TRUE)
  /\ FillTrackers
  /\ outcome' = "ValueError"
  /\ Close

\* The commit raises before it changes anything.
CommitRefused ==
  /\ Leaving
  /\ NothingToConcatenate
  /\ outcome' = "ValueError"
  /\ UNCHANGED <<db, trackers>>
  /\ Close

\* An exception leaves the block: nothing is committed.
Rollback ==
  /\ tx.open
  /\ call.stack = <<>>
  /\ outcome' = "rolled back"
  /\ UNCHANGED <<db, trackers>>
  /\ Close

-----------------------------------------------------------------------------
\* A key the program may write: a row, a staged row or no row.
KeysTo(t) == RowsOf(t) \cup StagedIds(t) \cup {Missing}

\* Targets of a staged row, which may be staged rows of its own table only if
\* they are staged already.
RowsToAdd(t) ==
  {r \in [KeysOf(t) -> UNION {KeysTo(Target[f]) : f \in KeysOf(t)}] :
     \A f \in KeysOf(t) : r[f] \in KeysTo(Target[f])}

Next ==
  \/ Begin
  \/ \E t \in Tables : \E n \in 1 .. MaxStaged : \E rows \in [1 .. n -> RowsToAdd(t)] :
       AddEntries(t, rows)
  \/ \E f \in ForeignKeys :
       \E rows \in (SUBSET (RowsOf(Source[f]) \cup StagedIds(Source[f]))) \ {{}} :
         \E target \in KeysTo(Target[f]) : UpdateEntries(f, rows, target)
  \/ \E t \in Tables : \E ids \in (SUBSET (RowsOf(t) \cup StagedIds(t))) \ {{}} :
       DelEntries(t, ids)
  \/ ExpandSubscriber
  \/ ReturnInner
  \/ ReturnOuter
  \/ Commit
  \/ CommitTorn
  \/ CommitRefused
  \/ Rollback

Spec == Init /\ [][Next]_vars
=============================================================================
