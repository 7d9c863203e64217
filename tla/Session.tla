------------------------------- MODULE Session -------------------------------
(***************************************************************************)
(* What a program does with a database over time: blocks `with             *)
(* db.transaction()`, one after the other or nested, the edits it makes in *)
(* them to the rows of one table, trackers for ids it wants to find again, *)
(* and the hooks an overlay database calls (database.py, table.py,         *)
(* transaction_context.py, trackers.py, overlays/database.py).             *)
(*                                                                         *)
(* A row is a label, which no other row ever has, and the value of a data  *)
(* column.  The table has no keys: those are the subject of                *)
(* TransactionContext.  The program is sequential, so that leaving a block *)
(* is one step, with the commit and all hooks in it.                       *)
(***************************************************************************)
EXTENDS RemapOracle, Sequences

CONSTANTS
  HookActions,  (* what the overlay's hooks may do                         *)
  MaxDepth,     (* bound: blocks within each other                         *)
  MaxBatch,     (* bound: rows staged by one call                          *)
  MaxLabels,    (* bound: rows ever staged                                 *)
  MaxCalls,     (* bound: edits and trackers of a context                  *)
  MaxRows       (* bound: rows of the table and staged rows at a commit    *)

ASSUME SessionAssumption ==
  /\ HookActions \subseteq {"echo", "stage", "patch"}
  /\ MaxDepth \in Nat \ {0} /\ MaxBatch \in Nat /\ MaxLabels \in Nat
  /\ MaxCalls \in Nat
  /\ MaxRows \in Nat /\ MaxRows < Missing

VARIABLES
  rows,      (* the committed table, a sequence of [label, val]            *)
  ctxs,      (* the contexts some block holds, by identity                 *)
  active,    (* PackedArrayDB._transaction_ctx, NoCtx if None              *)
  blocks,    (* the open blocks, innermost last: [ctx, since]              *)
  made,      (* labels handed out so far: 1 .. made                        *)
  calls,     (* edits and trackers since the outermost block was entered   *)
  undone,    (* labels staged in a block that was left by an exception     *)
  dropped,   (* labels no row had when the last block of their context     *)
             (* was left by an exception                                   *)
  answers,   (* what the trackers filled by the last step say              *)
  outcome    (* how the last step ended                                    *)

vars == <<rows, ctxs, active, blocks, made, calls, undone, dropped, answers, outcome>>

\* The values of the data column: the one rows are added with, and another.
Values == {"added", "updated"}

Ctxs == 1 .. MaxDepth

NoCtx == 0

\* A new TransactionContext.  "names" says which row every id means that is or
\* was valid in the context.
Fresh(table) ==
  [start    |-> Len(table),                          \* _staged_starts
   counter  |-> Len(table),                          \* _staged_counters
   chunks   |-> <<>>,                                \* additions
   dead     |-> {},                                  \* deletions
   updates  |-> [i \in {} |-> 0],                    \* updates of the column
   broken   |-> FALSE,                               \* a chunk is no array any more
   trackers |-> {},
   names    |-> [i \in 0 .. Len(table) - 1 |-> table[i + 1].label]]

Flat(chunks) ==
  LET cat[n \in 0 .. Len(chunks)] ==
        IF n = 0 THEN <<>> ELSE cat[n - 1] \o chunks[n]
  IN  cat[Len(chunks)]

Labels(seq) == {seq[i].label : i \in DOMAIN seq}

Held == {blocks[i].ctx : i \in DOMAIN blocks}

Init ==
  /\ rows = <<>>
  /\ ctxs = [c \in Ctxs |-> Fresh(<<>>)]
  /\ active = NoCtx
  /\ blocks = <<>>
  /\ made = 0
  /\ calls = 0
  /\ undone = {}
  /\ dropped = {}
  /\ answers = {}
  /\ outcome = "ok"

-----------------------------------------------------------------------------
\* A commit that raised half-way leaves columns of different lengths; the
\* program stops there.
Running == outcome # "torn"

\* `with db.transaction()`: the open context if there is one, else a new one.
EnterBlock ==
  /\ Running
  /\ Len(blocks) < MaxDepth
  /\ IF active # NoCtx
       THEN /\ blocks' = Append(blocks, [ctx |-> active, since |-> made])
            /\ UNCHANGED <<ctxs, active>>
       ELSE LET c == CHOOSE i \in Ctxs \ Held : TRUE
            IN  /\ blocks' = Append(blocks, [ctx |-> c, since |-> made])
                /\ ctxs' = [ctxs EXCEPT ![c] = Fresh(rows)]
                /\ active' = c
  /\ calls' = IF blocks = <<>> THEN 0 ELSE calls
  /\ answers' = {}
  /\ outcome' = "ok"
  /\ UNCHANGED <<rows, made, undone, dropped>>

MayEdit == Running /\ active # NoCtx /\ calls < MaxCalls

\* An edit replaces the active context by ctx.
Edit(ctx) ==
  /\ ctxs' = [ctxs EXCEPT ![active] = ctx]
  /\ calls' = calls + 1
  /\ answers' = {}
  /\ outcome' = "ok"
  /\ UNCHANGED <<rows, active, blocks, undone, dropped>>

\* An edit raises, and the program catches the exception.
Refuse(error) ==
  /\ outcome' = error
  /\ answers' = {}
  /\ UNCHANGED <<rows, ctxs, active, blocks, made, calls, undone, dropped>>

\* _check_transaction_context: a block whose context is finished goes on.
EditOutside ==
  /\ Running
  /\ blocks # <<>>
  /\ active = NoCtx
  /\ Refuse("RuntimeError")

\* Mutant: the rows that have been staged before are forgotten.
WithChunkAlone(ctx, batch) ==
  [ctx EXCEPT
     !.chunks = <<batch>>,
     !.counter = @ + Len(batch),
     !.names = [i \in DOMAIN @ \cup ctx.counter .. ctx.counter + Len(batch) - 1 |->
                  IF i < ctx.counter THEN @[i] ELSE batch[i - ctx.counter + 1].label]]

\* The context with a chunk of new rows; their ids count on from its counter.
WithChunk(ctx, batch) ==
  [ctx EXCEPT
     !.chunks = Append(@, batch),
     !.counter = @ + Len(batch),
     !.names = [i \in DOMAIN @ \cup ctx.counter .. ctx.counter + Len(batch) - 1 |->
                  IF i < ctx.counter THEN @[i] ELSE batch[i - ctx.counter + 1].label]]

NewRows(n) == [i \in 1 .. n |-> [label |-> made + i, val |-> "added"]]

\* add_entries, of no rows too.  The hooks are told afterwards; one may echo
\* the batch with a row of its own.
AddEntries(n, echo) ==
  LET batch == NewRows(n)
      extra == <<[label |-> made + n + 1, val |-> "added"]>>
      staged == WithChunk(ctxs[active], batch)
  IN  /\ MayEdit
      /\ made + n + (IF echo THEN 1 ELSE 0) <= MaxLabels
      /\ Edit(IF echo THEN WithChunk(staged, extra) ELSE staged)
      /\ made' = made + n + (IF echo THEN 1 ELSE 0)

\* update_entries of row i with a value it does not have.
UpdateEntry(i, val) ==
  LET ctx == ctxs[active]
  IN  /\ MayEdit
      /\ IF i >= ctx.start THEN Refuse("UpdateStagedRow")
         ELSE IF i \in ctx.dead THEN Refuse("UpdateDeletedRow")
         ELSE IF i \in DOMAIN ctx.updates THEN Refuse("UpdateQueuedEdit")
         ELSE /\ rows[i + 1].val # val
              /\ Edit([ctx EXCEPT !.updates = [j \in DOMAIN @ \cup {i} |->
                                                 IF j = i THEN val ELSE @[j]]])
              /\ UNCHANGED made

\* del_entries.
DelEntries(ids) ==
  /\ MayEdit
  /\ IF \E i \in ids : i > Len(rows) - 1
       THEN Refuse("IndexError")
       ELSE Edit([ctxs[active] EXCEPT !.dead = @ \cup ids]) /\ UNCHANGED made

\* create_tracker: of one id, of an array of ids or of a range.
CreateTracker(tracker) ==
  /\ MayEdit
  /\ Edit([ctxs[active] EXCEPT !.trackers = @ \cup {tracker}])
  /\ UNCHANGED made

-----------------------------------------------------------------------------
(***************************************************************************)
(* Leaving a block.                                                        *)
(***************************************************************************)
\* _create_oracle.  Staged ids start where the table ended when the context
\* was made, which a commit of another context may have changed since.
OracleOf(ctx) ==
  [Oracle(Len(rows), Len(Flat(ctx.chunks)), Normalize(Len(rows), ctx.dead))
     EXCEPT !.start = ctx.start]

\* get_dirty_tables; a table that is not dirty has the identity oracle.
Dirty(ctx) == ctx.chunks # <<>> \/ ctx.dead # {} \/ DOMAIN ctx.updates # {}

TrackerOracle(ctx) == IF Dirty(ctx) THEN OracleOf(ctx) ELSE Oracle(Len(rows), 0, {})

\* Mutant: a range that reaches staged ids is taken to start with them.
FilledByStop(tracker, o) ==
  LET ids == tracker.ids
  IN  IF tracker.kind = "range" /\ ids[Len(ids)] >= o.start
        THEN LET known == {k \in DOMAIN ids : ids[k] - ids[1] \in DOMAIN o.dest}
             IN  [k \in known |-> o.dest[ids[k] - ids[1]]]
        ELSE [k \in DOMAIN ids |-> Resolve(o, ids[k])]

\* _perform_fill.  A range of staged ids is a slice of the destinations, cut
\* off where they end; the others are resolved one by one.
Filled(tracker, o) ==
  LET ids == tracker.ids
  IN  IF tracker.kind = "range" /\ ids[1] >= o.start
        THEN LET known == {k \in DOMAIN ids : ids[k] - o.start \in DOMAIN o.dest}
             IN  [k \in known |-> o.dest[ids[k] - o.start]]
        ELSE [k \in DOMAIN ids |-> Resolve(o, ids[k])]

\* What a filled tracker answers to each of its ids, Missing if it raises, and
\* the row the id means, 0 if it was deleted or there never was one.
Answer(ctx, tracker) ==
  LET data == Filled(tracker, TrackerOracle(ctx))
      ids == tracker.ids
  IN  {[means |-> IF ids[k] \in DOMAIN ctx.names \ ctx.dead THEN ctx.names[ids[k]] ELSE 0,
        at    |-> IF k \in DOMAIN data THEN data[k] ELSE Missing] : k \in DOMAIN ids}

\* Mutant: updates are written where the row was.
MaterializedInPlace(ctx) ==
  LET o == OracleOf(ctx)
      staged == Flat(ctx.chunks)
      updated(r, p) == IF p \in DOMAIN ctx.updates THEN [r EXCEPT !.val = ctx.updates[p]] ELSE r
      content(p) ==
        IF \E k \in DOMAIN o.dest : o.dest[k] = p
          THEN staged[(CHOOSE k \in DOMAIN o.dest : o.dest[k] = p) + 1]
        ELSE IF \E i \in DOMAIN o.moves : o.moves[i] = p
          THEN rows[(CHOOSE i \in DOMAIN o.moves : o.moves[i] = p) + 1]
        ELSE rows[p + 1]
  IN  [q \in 1 .. o.newSize |-> updated(content(q - 1), q - 1)]

\* The table after the materialization of ctx's edits.
Materialized(ctx) ==
  LET o == OracleOf(ctx)
      staged == Flat(ctx.chunks)
      updated(r, p) ==
        IF \E i \in DOMAIN ctx.updates : Resolve(o, i) = p
          THEN [r EXCEPT !.val = ctx.updates[CHOOSE i \in DOMAIN ctx.updates :
                                               Resolve(o, i) = p]]
          ELSE r
      content(p) ==
        IF \E k \in DOMAIN o.dest : o.dest[k] = p
          THEN staged[(CHOOSE k \in DOMAIN o.dest : o.dest[k] = p) + 1]
        ELSE IF \E i \in DOMAIN o.moves : o.moves[i] = p
          THEN rows[(CHOOSE i \in DOMAIN o.moves : o.moves[i] = p) + 1]
        ELSE rows[p + 1]
  IN  [q \in 1 .. o.newSize |-> updated(content(q - 1), q - 1)]

\* An update whose row, by the oracle, is outside the old table and the new one:
\* the table has shrunk since the update was staged.  Numpy raises an IndexError
\* after rows have moved and been added, column by column.
Tears(ctx) ==
  \E i \in DOMAIN ctx.updates : i >= Len(rows) /\ i >= OracleOf(ctx).newSize

\* The first row _OverlaidTransactionContext.commit takes for a staged one: it
\* subtracts the number of chunks from the counter, not the number of rows.
PatchStart(ctx) == ctx.counter - Len(ctx.chunks)

\* A value a hook returns for such a row replaces a chunk of the column, which
\* can then not be concatenated; for any other row it is ignored.
Breaks(ctx, patch) ==
  \/ ctx.broken
  \/ ctx.chunks # <<>> /\ \E i \in patch : i >= PatchStart(ctx)

Innermost == blocks[Len(blocks)]

\* Blocks that share a context: the inner one commits or drops what the outer
\* one has staged, and the outer one commits it all the same.
IsShared == \E i \in 1 .. Len(blocks) - 1 : blocks[i].ctx = Innermost.ctx

\* Mutant: the context stays the database's.
LeaveUnfinished(ctx) ==
  /\ blocks' = SubSeq(blocks, 1, Len(blocks) - 1)
  /\ ctxs' = [ctxs EXCEPT ![Innermost.ctx] = ctx]
  /\ active' = active
  /\ UNCHANGED calls

\* The innermost block ends and leaves its context as ctx, which is forgotten
\* when no block holds it.  It is the database's no more: __exit__ sees to that
\* before it commits or not.
Leave(ctx) ==
  /\ blocks' = SubSeq(blocks, 1, Len(blocks) - 1)
  /\ ctxs' = [ctxs EXCEPT ![Innermost.ctx] = IF IsShared THEN ctx ELSE Fresh(<<>>)]
  /\ active' = NoCtx
  /\ UNCHANGED calls

\* What an exception that ends the innermost block undoes.
Undo(ctx) ==
  LET absent == Labels(Flat(ctx.chunks)) \ Labels(rows)
  IN  /\ undone' = undone \cup {l \in absent : l > Innermost.since}
      /\ dropped' = IF IsShared THEN dropped ELSE dropped \cup absent

\* The block ends: hooks prepare the commit, the context commits.  "stage" is a
\* hook that stages a row, as long as the program has staged one; "patch" has
\* hooks return values for the staged rows in patch.
LeaveBlock(stage, patch) ==
  LET own == ctxs[Innermost.ctx]
      ctx == IF stage THEN WithChunk(own, NewRows(1)) ELSE own
  IN  /\ Running
      /\ blocks # <<>>
      /\ stage => own.chunks # <<>> /\ made < MaxLabels
      /\ patch \subseteq own.start .. own.counter - 1
      /\ Len(rows) + Len(Flat(ctx.chunks)) <= MaxRows
      /\ made' = IF stage THEN made + 1 ELSE made
      /\ IF Breaks(ctx, patch)
           THEN /\ outcome' = "ValueError"
                /\ answers' = {}
                /\ Undo(ctx)
                /\ Leave([ctx EXCEPT !.broken = TRUE])
                /\ UNCHANGED rows
         ELSE IF Tears(ctx)
           THEN /\ outcome' = "torn"
                /\ answers' = {}
                /\ Leave(ctx)
                /\ UNCHANGED <<rows, undone, dropped>>
           ELSE /\ outcome' = IF patch = {} THEN "committed" ELSE "committed unpatched"
                /\ rows' = Materialized(ctx)
                /\ answers' = UNION {Answer(ctx, t) : t \in ctx.trackers}
                /\ Leave(IF ctx.chunks = <<>> THEN ctx
                         ELSE [ctx EXCEPT !.chunks = <<Flat(@)>>])
                /\ UNCHANGED <<undone, dropped>>

\* The block is left by an exception: nothing is committed.
RaiseFromBlock ==
  /\ Running
  /\ blocks # <<>>
  /\ Leave(ctxs[Innermost.ctx])
  /\ Undo(ctxs[Innermost.ctx])
  /\ outcome' = "raised"
  /\ answers' = {}
  /\ UNCHANGED <<rows, made>>

-----------------------------------------------------------------------------
\* The ids a call may name: of rows, of staged rows and one past the end.
Ids == 0 .. ctxs[active].counter

Trackers ==
  [kind : {"single"}, ids : {<<i>> : i \in Ids}]
    \cup {[kind |-> "array", ids |-> <<p[2], p[1]>>] : p \in {q \in Ids \X Ids : q[1] < q[2]}}
    \cup {[kind |-> "range", ids |-> [k \in 1 .. p[2] + 1 - p[1] |-> p[1] + k - 1]] :
            p \in {q \in Ids \X Ids : q[1] < q[2]}}

\* Patches are for rows that were staged in a block.
Patches ==
  {patch \in SUBSET (ctxs[Innermost.ctx].start .. ctxs[Innermost.ctx].counter - 1) : patch # {}}

Next ==
  \/ EnterBlock
  \/ EditOutside
  \/ \E n \in 0 .. MaxBatch : \E echo \in BOOLEAN :
       /\ echo => "echo" \in HookActions
       /\ AddEntries(n, echo)
  \/ active # NoCtx /\ \E i \in Ids : \E val \in Values : UpdateEntry(i, val)
  \/ active # NoCtx /\ \E ids \in (SUBSET Ids) \ {{}} : DelEntries(ids)
  \/ active # NoCtx /\ \E tracker \in Trackers : CreateTracker(tracker)
  \/ LeaveBlock(FALSE, {})
  \/ "stage" \in HookActions /\ LeaveBlock(TRUE, {})
  \/ "patch" \in HookActions /\ blocks # <<>> /\ \E patch \in Patches : LeaveBlock(FALSE, patch)
  \/ RaiseFromBlock

Spec == Init /\ [][Next]_vars

-----------------------------------------------------------------------------
\* Type invariant.  The staged ids of a context are as many as the rows in its
\* chunks, and each means one of them; edits are of rows the table had.
TypeOK ==
  /\ Len(rows) <= MaxRows
  /\ \A r \in {rows[i] : i \in DOMAIN rows} : r.label \in 1 .. made /\ r.val \in Values
  /\ active \in Held \cup {NoCtx}
  /\ \A c \in Held :
       LET ctx == ctxs[c]
       IN  /\ ctx.counter - ctx.start = Len(Flat(ctx.chunks))
           /\ DOMAIN ctx.names = 0 .. ctx.counter - 1
           /\ ctx.dead \cup DOMAIN ctx.updates \subseteq 0 .. ctx.start - 1
           /\ \A k \in DOMAIN Flat(ctx.chunks) :
                Flat(ctx.chunks)[k].label = ctx.names[ctx.start + k - 1]

\* The table has the rows it had when the context was made, where they were: no
\* commit has added, deleted or moved one since.
UpToDate(ctx) ==
  /\ ctx.start = Len(rows)
  /\ \A i \in 0 .. ctx.start - 1 : ctx.names[i] = rows[i + 1].label

Times(r, seq) == Cardinality({q \in DOMAIN seq : seq[q] = r})

\* A commit of a context that is up to date leaves the rows that were not deleted,
\* with the values they were given, and the rows that were staged, each as
\* often as it was there or was staged: whatever the batches, the order of the
\* edits, the hooks and the blocks they were made in were.
CommitsAreExact ==
  [][outcome' = "committed" /\ UpToDate(ctxs[Innermost.ctx]) =>
       LET ctx == ctxs[Innermost.ctx]
           staged == Flat(ctx.chunks) \o NewRows(made' - made)
           kept(i) == [rows[i + 1] EXCEPT
                         !.val = IF i \in DOMAIN ctx.updates THEN ctx.updates[i] ELSE @]
           survivors(r) == {i \in 0 .. Len(rows) - 1 : i \notin ctx.dead /\ kept(i) = r}
       IN  \A r \in [label : 1 .. made', val : Values] :
             Times(r, rows') = Cardinality(survivors(r)) + Times(r, staged)]_vars

\* A tracker that the commit of a context that is up to date has filled says of
\* every id where the row is that the id meant, and that there is none if it was
\* deleted or there never was one.
TrackersFindRows ==
  [][outcome' = "committed" /\ UpToDate(ctxs[Innermost.ctx]) =>
       \A a \in answers' :
         IF a.means # 0
           THEN a.at < Len(rows') /\ rows'[a.at + 1].label = a.means
           ELSE a.at = Missing]_vars

\* No row is in the table that was staged in a block which an exception ended
\* ("rolls back if an exception is raised", references/core/transactions.md:13).
RaisedBlocksLeaveNothing == undone \cap Labels(rows) = {}

\* A row that was not in the table when the last block of its context was left
\* by an exception, raised in the block or by the commit, is never in the table:
\* no later block finds the context and commits it.
DroppedContextsLeaveNothing == dropped \cap Labels(rows) = {}

\* The values hooks return for staged rows are written ("The DB will apply these
\* updates to the staging buffer before committing", overlays/hooks.py:32).
HookUpdatesApplied == outcome # "committed unpatched"
=============================================================================
