# A TLA+ model of packed_data_structures

`packed_data_structures` is a Python library: an in-memory, structure-of-arrays
database whose tables stay contiguous by swap-and-pop. Rows may reference rows
of other tables by foreign keys; every target row heads a doubly linked
*adjacency list* of the rows that reference it. All edits are staged in a
transaction and committed in one bulk pass, which moves rows, and rewrites every
key, list and count that named a moved row.

This directory models that machinery in TLA+, model-checks it with TLC and
proves some of it with TLAPS. Paths below are relative to
`src/src/packed_data_structures/` unless they start with `src/`.

## 1. Inventory

| Component | Code | State | Operations | Correct when |
|---|---|---|---|---|
| Packed array | `arrays/packed_array.py` | buffer, size, cached view | `append`, `ensure_size`, `remove`, `swap`, `bulk_edit`, `apply_bulk_edit_plan`, writes | `view` is the live buffer; the size fits it |
| Dirty tracking | `arrays/dirty_tracking.py` | one time stamp per column | moved by writes | no change without a new stamp |
| Bulk edit plan | `edit_helpers.py:18-97` | none | size, removals, additions -> destinations and moves | a renumbering without gaps or collisions |
| Remap oracle | `remap_oracle.py` | none | old or staged id -> new index | agrees with where the data goes |
| Adjacency lists | `edit_helpers.py`, `nb_adjacency_list_helpers.py`, `transaction_context.py:70-263` | columns key, next, prev; head, count | four patch phases, translation, application | lists and counts are those of the keys |
| Transaction context | `transaction_context.py`, `table.py`, `database.py` | staged additions, updates, deletions, nulls, claims | add, update, delete (recursive), commit, rollback | the effect of the block on plain tables with references |
| Blocks | `database.py`, `transaction_context.py:332`, `table.py:369` | the active context, the contexts that blocks hold | enter, leave, raise, one block within another | each block's edits are committed as they were staged, or not at all |
| Trackers | `trackers.py` | ids (one, an array, a range), their resolution | filled at commit, asked afterwards | name the row's new index |
| Polymorphic keys | `schemas/pm_foreign_key_col.py`, its accessor, `transaction_context.py` | key and type id columns, heads and counts per target table | as plain keys; one patch per target table | as plain keys, and the lists of two types never meet |
| Overlay transactions | `overlays/database.py` | hooks | are told of additions and may stage more; prepare the commit, may stage rows and return values for staged rows | hooks neither lose nor duplicate an edit; their values reach the rows they name |
| Schemas and registry | `schemas/`, `overlays/registry.py`, `graph/overlay.py` | tables, keys, columns that wait for their table | add layers, tables, keys and columns, build a database | every key of a database has its columns and tables |
| Conversions, hash set, id ranges, visualizer | `schemas/*_col.py`, `arrays/packed_*_array.py`, `schema_accessors/`, `nb_hash_set.py`, `id_range.py`, `db_visualizer.py` | none of their own | - | - |

How they interact. `db.transaction()` returns the one open context of the
database. `table.add_entries`, `update_entries` and `del_entries` stage edits in
it. A delete call reads the committed adjacency lists
(`ForeignKeySchemaAccessor.get_referencing_indices`) and recurses through the
tables subscribed to the deleted rows. Leaving the block runs `commit`: it builds
one oracle per table (from a bulk edit plan), computes the sparse patches of
every key column *from the columns before the commit*, fills the trackers,
materializes table after table (moves, staged rows, updates, resize), applies the
patches through the oracles, and last rewrites keys whose target has moved.

Before there is a database, overlays hand tables, keys and columns to a
`SchemaRegistry`, in any order; a key subscribes to its targets when it is made
and, when its table takes it in, puts heads and counts into them and links into its
own table. `OverlaidDB` builds the tables of the registry and calls the hooks of
its overlays from within `register_additions_col_major` and `commit`.

There are no threads, no I/O and nothing is persisted. The hard behaviours are

- the **order** of phases that write the same columns, and indices that must
  pass through the right oracle exactly once;
- **stale state**: lists, heads, counts and cached views read before the edit
  that changes them;
- **sequences of legal calls** in one block whose staged effects interact (add
  after delete, delete after add, relink and delete, relink and add);
- **lists that share columns**: the lists of all types of a polymorphic key are
  linked in the same two columns, and patched apart;
- **blocks within blocks** that share one context, and hooks that stage edits
  while edits are staged or committed;
- **partial failure**: a call refused deep in its recursion, a commit that raises
  half-way;
- **termination** of the recursive delete;
- **boundaries**: the sentinel, the width of counts, plans that empty or refill
  a table, arrays at their capacity.

`PROJECT.json` lists each of these at its line, with the properties that
cover it or the reason none does.

## 2. Modules

```
RemapOracle             plan and oracle on sets                    (pure)
 |- BulkEditPlan        the same on the arrays of the code         (pure)
 |   `- PackedArray     the storage of a column, views, time stamps
 |- AdjacencyLists      patch phases, translation                  (pure)
 |   |- TransactionContext   database, transaction, delete calls, commit
 |   |   `- TransactionProperties   what should hold
 |   |       `- TransactionRefinement   INSTANCE RelationalStore WITH ...
 |   |           `- MCTransaction       schemas for TLC
 |   `- PolymorphicKeys      the same for a key over several tables
 |       `- MCPolymorphic
 `- Session             blocks, batches, data, trackers, hooks
RelationalStore         the abstract specification: tables with references
SchemaRegistry          how tables, keys and columns become a database
 `- MCRegistry

RemapOracle_proofs
 |- PackedArray_proofs            the plan on arrays, then the arrays it changes
 |- AdjacencyLists_proofs         what walks, patches and translation compute
 |   |- TransactionContext_proofs    types, staged keys, cascades
 |   |   `- Commits_proofs           lists, keys and counts after a commit; the store is implemented
 |   `- PolymorphicKeys_proofs       the same for the lists of several types in one pair of links
 |- Session_proofs
 `- SchemaRegistry_proofs         where columns go, and what databases have
```

- **RemapOracle**. `AdditionDest`, `Moves`, `PlanSize` are `plan_bulk_edit`;
  `Resolve` is `oracle_resolve`. A sorted array is a set, and its k-th entry is
  the element of rank k.
- **BulkEditPlan** says the same as the code computes it: `ScanTail` is the
  backward scan with its `void_ptr`, `OracleArrays` the reversed and sorted arrays
  of `_create_oracle`, `ResolveInArrays` the binary searches.
- **AdjacencyLists**. A patch is a sparse function from indices to values, in
  indices of before the commit. `PatchUnlinked`, `PatchRelocated` and `Splice`
  (once for relinked, once for staged rows) are the four phases; `Then` is the
  overwriting of one by the next; `Translate` and `Overwrite` are
  `TopologyScratchpad.translate_in_place` and `apply`; `FixMovedTargets` is
  `fix_keys_broken_by_moved_targets`.
- **TransactionContext**. Five variables: `db` (lengths and column groups), `tx`
  (the staging area), `call` (the stack of `expand_and_validate_deletions` and the
  set it shares), `trackers`, `outcome` (how the last call ended, so that
  properties can speak of exceptions). One action per entry point: `Begin`,
  `AddEntries`, `UpdateEntries`, `DelEntries`, `Commit`, `Rollback`; the recursion
  of a delete is `ExpandSubscriber` (one turn of the loop over subscribers),
  `ReturnInner` and `ReturnOuter`. `CommitTorn` and `CommitRefused` are the two
  ways a commit raises. A commit is one action: nothing else runs meanwhile, and
  every phase reads what the code's phase reads.
- **PackedArray**. `cells` is the buffer, whose capacity identifies it
  (reallocation only grows); `cached` is the view that `view` keeps; `told` is what a
  consumer has seen and whether the stamp has moved since. `Materialize` is what a
  commit does to one column.
- **RelationalStore** knows no lists, counts, plans or oracles: a transaction
  adds, relinks and deletes rows of plain tables, a deletion marks the least set of
  rows that is closed under cascading keys (`CascadeOf`) or is refused, and a commit renumbers what survives, carries each
  reference over to the new index of the row it denotes, and tells the trackers.

- **PolymorphicKeys**. One table with a polymorphic key and the `NTypes` tables it
  targets. `db` has a head and a count column per target and one pair of links for
  all; `tx` has the claims and deletions per type and the rows whose key, type or
  both are updated (`UpdateEntries` is the pairing of the two columns,
  `transaction_context.py:459-504`). `TypePatch(ty)` is the patch of one type: rows
  leave by their old type (`DeadOf`) and enter by their new one (`RelinksTo`,
  `StagedOf`); `Patched` applies the patches in the order of the types and `FixAll`
  rewrites the keys of one type after the other. A delete call has at most two
  levels here and is one action. `CommitTorn` is a commit that looks up the target
  table of a row without a type, or writes a null key.
- **Session**. What a program does over time with one table without keys: blocks,
  batches (of no rows too), refused edits it catches, updates of a data column,
  trackers of the three kinds, and an overlay's hooks. A row is a label and a value,
  so that a property can follow a row through any number of commits. A context is a
  record that `blocks` hold by identity: blocks within each other share it, `Leave`
  detaches it from the database before the commit (`database.py:93`), and another
  block may find it closed (`EditOutside`), or open a context of its own while the
  outer block still holds the first. `LeaveBlock` commits whatever the context has, the
  second time too, with the hooks of `_OverlaidTransactionContext.commit` in it; it has
  three ends. A hook's value that replaces a chunk makes the commit raise before it has
  changed anything (`Breaks`, and the context stays `broken`). An update that the oracle
  sends outside the table makes it raise half-way (`Tears`), and the program ends. Else the
  table is `Materialized`. Names of staged ids (`names`) and the labels an exception has undone
  (`undone`, `dropped`) are history.
- **SchemaRegistry**. Schemas are numbered in the order they are made; a program may
  make one and never register it (`MakeTable`), or replace a layer (`WithLayer`). A
  request `[to, col]` asks for column `col` in schema `to`; `Requests` are those
  `set_parent` of a key makes, the one that fails for want of a dtype included,
  `Registered` carries out a sequence of them until one fails, `Flushed` gives a new
  table the columns that waited for its name, `WithTable` is the constructor of a table
  that is given its columns, which numbers them at the end instead of one by one.
  `Build` finalizes what the registry has; up to `MaxDbs` databases are built, one after
  the other, and later keys may target tables of earlier ones.

### Rules for callers

The code relies on some rules and checks none of them. Each is a member of the constant
`Rules` and a guard of the model only if the instance says so. The tables name the
configuration that shows what goes wrong without it, and the property it refutes. For plain
keys (`Leaving`), guards of the commit:

| Rule | Without it | Shown by |
|---|---|---|
| relink targets keep their index | the count of a relinked row's target is resolved twice (`transaction_context.py:850`, `:953`) and goes to another row | `RelinkToMoved.cfg`: CountsMatchLists |
| relink or add | a relinked and a staged row for one target are both put before the old head; one is lost (`:980`, `:1022`) | `RelinkAndAdd.cfg`: ListsMatchKeys |
| relinked rows stay | a row relinked and then deleted is still counted at its new target (`:971` drops it from the splice only) | `RelinkThenDelete.cfg`: CountsMatchLists |
| relink targets stay | a key may be set to a row the block deletes (`:459` checks the rows, not the targets) | drop the rule in `Tree.cfg`: ImplementsRelationalStore (the commit writes a null where the call asked for a row) |

For polymorphic keys (`RulesKept`) there are the same four. Rows that are
relinked are not even spared by the cascade of the target they have left, since
only relinks of plain keys are looked up there (`transaction_context.py:660`), and a
row whose type alone is updated keeps the number of a deleted row. In
`Polymorphic.cfg`, without "relinked rows stay" or "relink targets keep their index"
CountsMatchLists fails, without "relink targets stay" KeysResolve, without "relink or
add" ListsMatchKeys. There is one more:

| Rule | Without it | Shown by |
|---|---|---|
| neighbours of retyped rows stay | the patch of the old type, applied last, overwrites the links of a row that has left for an earlier type (`:1221`, `edit_helpers.py:227`) | run PolymorphicRetype |

For the registry there are two. LayoutConsistent, ColumnsReachTheirTables and KeysComplete
need neither; TargetsPresent and SubscribersPresent, about the tables of a database, need both
(`RuledRegistry.cfg` and two theorems).

| Rule | Without it | Shown by |
|---|---|---|
| whole databases (a database is built of all schemas that were made and that no earlier one has) | `build` (`overlays/registry.py:80-91`) looks at pending columns only: a layer that was replaced under its name (`graph/overlay.py:219`, `:238`) or a table that was never registered may be the target of a key, or subscribe to one | `ReplacedLayers.cfg`: TargetsPresent |
| keys first (a key is made while no database has its targets) | a key that comes later is refused, but stays subscribed, and every delete call on its target looks up a table that is not there | drop the rule in `RuledRegistry.cfg`: SubscribersPresent |

`Session` has no rules. Blocks within each other may commit a context twice or after
an exception; CommitsAreExact and TrackersFindRows speak of commits of a context that is
`UpToDate`: no other one has added, deleted or moved a row since it was made.

## 3. Runs

All instances use one-byte indices (`Missing = 255`), start from the empty
database, and have no bound on the number of transactions.

| Run | Instance | Checks | Distinct states |
|---|---|---|---|
| ParentChild | one cascading key with counts, 2 parents, 3 children, 1 row staged per table, 3 calls | TypeOK, KeysResolve, ListsMatchKeys, CountsMatchLists, StagedKeysLive, StagedRowsRenumbered | 297k |
| Graph | two keys to the same table (restrict, cascade), no counts, 2 nodes, 2 edges, 2 calls | ListsMatchKeys, DeletionsClosed, ImplementsRelationalStore | 50k |
| Tree | a cascading key to its own table, 3 rows, 2 staged at once, 2 calls, FairSpec | ListsMatchKeys, DeleteCallsReturn, ImplementsRelationalStore | 81k |
| Chain | cascade above restrict over three tables, 3 calls, FairSpec | ClaimsKept, DeleteCallsReturn, ImplementsRelationalStore | 11k |
| SetNull | one SET_NULL key, 2 parents, 3 children, 2 calls | DeletionsClosed | 40k |
| PackedArray | 2 values, up to 4 cells, edits of up to 2 values, growing and fixed arrays | TypeOK, ViewsCurrent, OracleFindsRows, ChangesAreStamped | 4.6k |
| Polymorphic | a CASCADE key with counts to two tables of 2 and 1 rows, 3 rows, 2 staged per table, 2 calls of one named row each | TypeOK, KeysResolve, ListsMatchKeys, CountsMatchLists, DeletionsClosed, StagedKeysLive, CommitsFollowKeys | 289k |
| Session | 2 blocks within each other, batches of 0 to 2 rows, 2 rows ever staged, 2 calls, all hooks | TypeOK, CommitsAreExact, TrackersFindRows, DroppedContextsLeaveNothing | 844k |
| SchemaRegistry | no rules, 2 names (symmetric), 2 schemas, 2 keys with counts, 1 data column, 2 databases | LayoutConsistent, ColumnsReachTheirTables, KeysComplete | 719k |
| SetNullCommit | as SetNull | CommitsAreAtomic **violated** | |
| PolymorphicRetype | as Polymorphic without counts and one rule, targets of one row | ReferrersFound **violated** | |
| NestedBlocks | as Session, without hooks | RaisedBlocksLeaveNothing **violated** | |

More configurations stand beside these. Two pass: `OneBlock.cfg` is Session without blocks
within each other, with 4 rows ever staged and 3 calls (TypeOK, CommitsAreExact,
TrackersFindRows; 895k states), and `RuledRegistry.cfg` is the registry with both of its
rules, 3 schemas and no data column (TargetsPresent, SubscribersPresent; 331k states). Eleven
end in a violation, each of one property:

| Configuration | Refutes | What happens |
|---|---|---|
| `RelinkToMoved`, `RelinkThenDelete`, `RelinkAndAdd` | CountsMatchLists, CountsMatchLists, ListsMatchKeys | ParentChild without one of the rules of section 2 |
| `WideCounts` | CountsMatchLists | count deltas pass through the index type of the source table (`transaction_context.py:948`): if counts are wider, -1 adds 255 |
| `RefusedAdd` | CommitsAreNotRefused | an `add_entries` that is refused and caught leaves an empty entry that the commit stumbles over (`:511`, `:724`) |
| `CascadeOnCycle` | CascadesComplete | a level is marked as expanded after its loop only (`:690`, `:697`): rows in a circle exhaust the stack |
| `SetNullNested` | DeletionsClosed | nulls found below a cascade are lost (`:631` replaces an empty dictionary that is passed down) |
| `UnstampedShrink` | StampsTellAll | a cut by `ensure_size` moves no time stamp (`arrays/packed_array.py:194`) |
| `HookPatches` | HookUpdatesApplied | the values hooks return for staged rows (`overlays/hooks.py:29-32`: "The DB will apply these updates to the staging buffer before committing") are put at an offset that takes the number of chunks for the number of rows (`overlays/database.py:111`), and into the list of chunks instead of a chunk: a commit drops a value, or (outcome "ValueError") cannot concatenate a chunk that has become a number |
| `ReplacedLayers` | TargetsPresent | a node layer that is added again takes the place of the first (`graph/overlay.py:219`), which keys go on targeting and no database gets |
| `UntypedCounts` | CountsByDefault | `AdjacencyListConf(track_counts=True)`, as in `src/docs/guide/schemas.md:68`, has no dtype for counts; `set_parent` asserts that there is one after it has injected heads and links (`schemas/foreign_key_col.py:129`) |

What the properties say:

- **KeysResolve**: a commit leaves no dangling key. **ListsMatchKeys**: each list
  holds exactly the rows whose key denotes its owner, ends, and is linked the same
  both ways. **CountsMatchLists**: counts are the lengths; deletes trust them.
- **StagedKeysLive**, **ClaimsKept**: no staged row references a row marked for
  deletion, in either order of the calls and at any depth of a cascade.
  **DeletionsClosed**: the expansion of deletes forgets no referring row.
- **StagedRowsRenumbered**: the oracle of what is staged has no gap or collision.
- **DeleteCallsReturn**: the recursion of a delete call ends, by an exception at worst, on
  acyclic data (Chain) and on data with circles (Tree). **CascadesComplete**, that it
  never exhausts the stack, is false of circles. It is not true of all other data either: the
  interpreter has about a thousand frames and a chain of rows may be longer.
- **ImplementsRelationalStore**: the whole step-by-step refinement.
- **ViewsCurrent**: `view` is a slice of the live buffer. **OracleFindsRows**: the
  data is where the arrays of the oracle, and the oracle on sets, say it is.
  **ChangesAreStamped**: until the stamp moves, what a consumer saw is still
  there, except rows cut from the end; columns of counts are exempt, because
  `np.add.at` moves no stamp. **StampsTellAll** is the documented promise without
  these exceptions, and fails.

- **CommitsFollowKeys**: after a commit every row that was kept has the type it was
  left with and its key names the row it named before, wherever that row went.
  For polymorphic keys ListsMatchKeys says besides that the lists of several types,
  which share their links, do not run into each other.
- **CommitsAreExact**: a commit of a context that no other has overtaken leaves the rows
  that were not deleted, with the values they were given, and the staged rows, each as often
  as it was staged. It says nothing of a commit that a hook gave values for staged rows
  to: those should be written and are not (`HookPatches.cfg`). **TrackersFindRows**: a tracker
  filled by such a commit says of each of its ids where the row is that the id meant.
  **RaisedBlocksLeaveNothing**: no committed row was staged in a block that an
  exception ended; it is violated. **DroppedContextsLeaveNothing** is what is left of it: rows
  that were in no table when an exception ended the *last* block of their context stay out.
- **LayoutConsistent**: every column has the number of its position, whatever
  columns came along with it. **ColumnsReachTheirTables**: a column handed over
  waits for its table or is in it once. **KeysComplete**: every key in a database
  has its links in its table and its heads and counts in its targets, wherever these
  are, and nothing a key brings along is elsewhere. **TargetsPresent**,
  **SubscribersPresent**: the targets of a database's keys, and the subscribers of its tables,
  are in that database; both fail without the rules.

What the three runs with a violation show (the findings in `PROJECT.json` quote the statements).
*SetNullCommit*: a commit that nulls a key raises half-way, with the tables torn.
*PolymorphicRetype*: two rows in the list of a target of the second type; one gets
the first type while the other moves; the patch of the second type then writes the
links of a row that has left, and the walk from its new target finds a row of the other
type. *NestedBlocks*: the program catches an exception that ends an inner block; the
outer block commits what the inner one staged.

Why the bounds are enough. A list of three rows has a first, a middle and a last
row, so every shape of unlinking (head, run, tail) and of relocation occurs; two
targets are needed for a relink and for one target to move into the other's
place; three calls are an addition, an update and a deletion in any order; two
rows staged at once give a splice of several items. Plans over up to four cells
and two additions include no, some and all holes filled, voids in the tail, one
and two moves, and edits that empty or refill the array. `MaxDepth` stands for the
interpreter's recursion limit and is deeper than any acyclic path of the instances, so that
RecursionError there means a circle; in the program a long chain will do as well. For
polymorphic keys, three rows and targets of two and one row give lists of one to three rows
of either type, two staged rows of one type or of both, and a retyped row with a
neighbour. In Session two labels and two calls allow two batches, a deletion or an update and
a tracker, ranges that begin before, at and behind the staged ids, a row staged by a hook
besides, and a context that is committed or dropped while another block holds it;
`OneBlock.cfg` adds to it an addition, a deletion and a tracker of both in one block. The
theorems about both modules hold for all bounds. Two schemas and two keys let a key, its
table and its target come in every order, and a layer be replaced by another; with three
(`RuledRegistry.cfg`) an edge layer or a polymorphic key has two targets besides its own
table. Bounds that are not in
the code: `MaxRows`, `MaxTargets`, `MaxStaged`, `MaxNamed`, `MaxCalls`, `MaxSize`,
`MaxBatch`, `MaxDepth` of Session (blocks within each other), `MaxLabels`, `MaxSchemas`,
`MaxKeys`, `MaxData`, `MaxDbs`.

`SizeAssumption` keeps committed and staged ids below the sentinel. This is a limit of the model
and not one the documentation sets: ids of staged rows are Python ints, so that they may pass
the index type while a block is open (`src/docs/guide/crud.md:70`). A key that names such a row is
put into an array of the index type all the same (`table.py:302`); what becomes of it is not
modelled.

Deadlock is checked except in SetNull, SetNullCommit, SetNullNested and the runs of
polymorphic keys, where the program stops after a commit that raised (`db.torn`), in Session
(outcome "torn", likewise), and in SchemaRegistry, where it stops when the registry has raised
or the bounds are used up. `PackedArray` assumes that
callers of `bulk_edit` leave room (`BulkEditsFit`): the function sets the size
without growing the buffer (`arrays/packed_array.py:296`), so TypeOK fails
without the assumption. Its test `if relocations[0]:` raises for two or more
relocations, and, with newer NumPy versions, for none; the repository pins no
version and the model allows both outcomes. Nothing in the repository calls it.

**Fairness.** FairSpec (Chain, Tree) has weak fairness on the steps of a delete call
(`ExpandSubscriber \/ ReturnInner \/ ReturnOuter`) and on nothing else. A call
that has been entered runs to its end in the one thread; the program is free never
to make another call or to leave a block.

## 4. Proofs

| Theorem | States |
|---|---|
| `RemapOracle_proofs!OracleRenumbers` | for every size, number of additions and set of removals, the oracle maps the live ids one to one onto `0 .. newSize - 1`, and the removed to Missing |
| `PackedArray_proofs!ArraysResolve` | the arrays of `plan_bulk_edit` and `_create_oracle`, searched as the code searches them, resolve every id as the oracle on sets does |
| `PackedArray_proofs!TypeCorrect` | `BulkEditsFit => (Spec => []TypeOK)` |
| `PackedArray_proofs!OracleAlwaysFindsRows` | `OracleFindsRows` at all times, if BulkEditsFit and no index reaches the sentinel |
| `PackedArray_proofs!ViewsAreCurrent` | `Spec => []ViewsCurrent` |
| `PackedArray_proofs!StampsTellOfChanges` | `Spec => []ChangesAreStamped` |
| `TransactionContext_proofs!TypeCorrect` | `Spec => []TypeOK` |
| `TransactionContext_proofs!RowsRenumbered` | `Spec => []StagedRowsRenumbered` |
| `TransactionContext_proofs!ClaimsAreKept` | `Spec => []ClaimsKept` |
| `TransactionContext_proofs!StagedKeysAreLive` | `Spec => []StagedKeysLive` |
| `TransactionContext_proofs!DeletionsStayClosed` | `DeletionsClosed` at all times, if lists and counts match the keys at all times, for schemas whose nulling keys lie on top |
| `Commits_proofs!KeysAlwaysResolve`, `ListsAlwaysMatchKeys`, `CountsAlwaysMatchLists`, `DeletionsAlwaysClosed` | KeysResolve, ListsMatchKeys and CountsMatchLists in every database that is not torn, and DeletionsClosed always, under the hypotheses named below |
| `Commits_proofs!CommitsAlwaysAtomic` | `Spec => []CommitsAreAtomic` for schemas without nulling keys |
| `Commits_proofs!StoreIsImplemented` | `Spec => ImplementsRelationalStore`, under the same hypotheses without nulling keys |
| `Session_proofs!TypeCorrect`, `EveryCommitIsExact`, `TrackersAlwaysFindRows`, `NothingDroppedReturns` | `Spec => ...` of TypeOK, CommitsAreExact, TrackersFindRows and DroppedContextsLeaveNothing |
| `PolymorphicKeys_proofs!StagedKeysAreLive` | `Spec => []StagedKeysLive` |
| `PolymorphicKeys_proofs!TypeCorrect` | `Spec => []TypeOK` |
| `PolymorphicKeys_proofs!KeysAlwaysResolve`, `ListsAlwaysMatchKeys`, `CountsAlwaysMatchLists`, `DeletionsAlwaysClosed`, `ReferrersAlwaysFound` | `Rules = AllRules /\ NullsAlike => (Spec => []...)` of KeysResolve, ListsMatchKeys, CountsMatchLists, DeletionsClosed and ReferrersFound |
| `PolymorphicKeys_proofs!CommitsAlwaysFollowKeys` | `Rules = AllRules /\ NullsAlike => (Spec => CommitsFollowKeys)` |
| `SchemaRegistry_proofs!LayoutAlwaysConsistent`, `ColumnsAlwaysReachTheirTables`, `KeysAlwaysComplete` | `Spec => []...` of LayoutConsistent, ColumnsReachTheirTables and KeysComplete, with no rule |
| `SchemaRegistry_proofs!TargetsAlwaysPresent`, `SubscribersAlwaysPresent` | `Rules = AllRules => (Spec => []...)` of TargetsPresent and SubscribersPresent |

Those of the transaction context hold for every finite or infinite set of tables
and keys, every schema, on-delete style, width, bound and subset of the rules, under
`MissingIsNat`, `SchemaAssumption` and `SizeAssumption`; those of the packed array for
every capacity, value set and bound under `ArrayAssumption`; those of sessions for
every nesting depth, batch and bound under the assumptions of `Session`; those of
polymorphic keys
for any number of target tables under `KeyAssumption` and `BoundAssumption`; those of
the registry for any number of names, tables, keys, columns and databases, with and without
counts, typed or not, for the keys with one or two targets that `TargetLists` offers. TLC
evaluates the assumptions in the runs of these modules.

*OracleRenumbers.* `RankInjective` and `RankOnto` make rank a bijection of a finite
set onto an interval; `UpperRanks` splits the removals into those the staged rows
fill and the rest; `TailFitsHoles` counts the tail survivors against the open
holes, the heart of the plan; `ResolveCases` and `LiveCount` conclude by the
pigeonhole of a one-to-one map between sets of equal size.

*Recursive functions.* The induction theorems of the library take an operator as
parameter and cannot be used. `InductionUpTo` and `RecursionUpTo` stand in for them:
induction over `0 .. n` for a *set* of numbers, and the existence of a function
that follows a sequence of step functions, both from the finite cardinality of
`0 .. n`. What the scan of the plan, the doubling of a buffer, the chunks of a commit
and the walk of a list compute is proved with these two.

*ArraysResolve.* `ScanTail` walks the table backwards beside the removals; the
invariant of the scan says that what it has collected so far are the survivors above
its position, last first, and that the void pointer is the rank of the position among
the removals. The binary search is then the rank in a sorted array.

*TypeCorrect* of the transaction context. `TypeOK` is inductive: it says that
whatever is staged, or on the
stack of a delete call, concerns committed rows, and that no table outgrows its
bound. Its conjuncts are needed together: the length after a commit is bounded
only because deletions are committed rows. There is one lemma per action.

*RowsRenumbered* is `OracleRenumbers` applied through `TypeOK`.

*StagedKeysAreLive.* The property is not inductive: a cascade in progress has
marked nothing in `tx.deletions` yet. `ClaimsKept` is the strengthening: the claims
cover the keys of all staged rows, and are disjoint from the deletions, from the
set a delete call has expanded *and* from the rows of every frame on its stack.
A step that enters a frame checks the claims (`Enter`); between entering and
returning, no addition can be staged, because a call is in progress. With `TypeOK`
it is inductive, and implies the property.

*DeletionsStayClosed.* Rows are marked when the outermost call returns, so the
invariant (`Followed`) speaks of calls in progress: every row that references an
expanded row is *handled* (deleted, relinked, nulled, expanded, or in a level of the
stack); for every level and every subscriber it has passed, the rows that reference
the level's rows are handled; each level below another cascaded into it through the
subscriber it is about to leave. Three hypotheses are needed. `SubscribersMatch`: the
subscribers of a table are the keys that target it, which `ForeignKeySchema` sees to
when a key is made. `NullsOnTop`: no key with SET_NULL targets a table whose rows a cascade
deletes; without it the code loses nulled keys (section 2) and the theorem is false.
And that lists and counts match the keys while the database is whole, because a
delete call finds the rows by walking as many rows of a list as its count says.
`WalksAgree` and `NodeEnds` relate the walk to the recursive `Node`. *DeletionsAlwaysClosed*
discharges this last hypothesis by the next theorems; both inductions are one, since
commits in turn rely on closed deletions.

*KeysAlwaysResolve, ListsAlwaysMatchKeys, CountsAlwaysMatchLists.* That the lists hold the
right rows is not inductive in the form the properties have, as walks; the invariant is
`ListsLinked`: for every key *some* order of the rows explains all links and heads (`Linked`:
the next row of x is the one right after it among the rows with its key, a head is the
first one). Walks follow from it (`WalkFindsRows`), and it says row by row what a patch has
to achieve. The argument has three parts.

1. *In old indices* (`AdjacencyLists_proofs`). `PatchUnlinked` then `PatchRelocated` leave
   every row that stays with the survivors around it (`KeptLinksHold`); each `Splice` puts its
   items, in the order of a new `ord`, before the old head of their target
   (`PatchLinks`), unless both kinds of items claim one target, which is the rule
   "relink or add". So the columns overwritten with the patch are `Linked` again.
2. *Renumbering.* Oracles are one to one on live ids (`TableRenumbered`, from
   `OracleRenumbers`), so translated columns are linked if the columns were, and translation
   of sparse writes is that of the columns (`TranslatedWrites`).
3. *The code does not translate whole columns*: it moves rows, writes the patch, and rewrites
   keys of moved targets. `CommitColumnsAre` shows that row by row the result is the
   translated column: for a row the patch writes, by 2; for a row that it leaves alone and
   that moves or stays, because then its neighbours have not moved (`PatchRelocated` would have
   written it); for a staged row, because `Splice` writes all of its links.

Counts (`NewCounts`): the rows with key p after the commit are those that had it, without those that
left, plus the arriving ones (`PatchedCount`); the deltas sum to that modulo the widths.

Their hypotheses are `SubscribersMatch` and `NullsOnTop` as above; `Rules = AllRules`: each of
the four rules of section 2 is needed, as the table there shows; and `CountsFit`, when
counts are tracked: counts are no wider than indices of the source table, the ids of target rows fit
the index type of the source table they are cast to (`transaction_context.py:948`), and
no target is referenced more often than a count can say. The runs
ParentChild, Graph, Tree and Chain satisfy all of them, and check the same properties. That every
staged key is one the program could write (`StagedTargetsExist`) and that no row is relinked
twice (`UpdatesDiffer`) are invariants proved along the way. A database may be
torn only by keys that are set to null; `CommitsAlwaysAtomic` proves that it never is without such keys, so
that there the properties hold without exception.

*StoreIsImplemented.* The refinement mapping keeps the lengths of tables, the key
columns, what is staged and the trackers, and forgets links, heads, counts, claims and
calls in progress. Each action is matched with one of the store or with none.

- `Begin`, `AddEntries`, `UpdateEntries` and `Rollback` are `Begin`, `Add`, `Relink` and
  `Rollback`: added keys denote rows that stay because of the claims, and a relinked row
  has the target of the one entry that names it (`EntryOfEach`, `UpdatesDiffer`).
- `DelEntries`, `ExpandSubscriber` and `ReturnInner` change nothing that the store has;
  the call is `Delete` when `ReturnOuter` marks the rows (`ReturnOuterRefined`). That
  these are closed under cascading keys, and that no restricting key of a row that stays
  denotes one of them, is `Followed`. That they are the *least* such set is a second
  invariant of calls in progress (`CallCascades`): any closed set that has the rows the
  call was made with has every expanded row and every row of every level of the stack. The store states the closure so, and not by recursion, because a least
  set can be reasoned about without induction over its depth.
- A commit is `Commit`: `CommittedKeys` says, from `CommitColumnsAre`, that the key
  column of row `NewIndex(i)` is the translation of the key that `i` was left with (`NewRefIs`),
  `TableRenumbered` that the oracle is a renumbering; trackers are filled with it.

The invariant is `Refinable`: what *KeysAlwaysResolve* has, that the database is not torn,
that nothing is marked to be nulled, that nothing is staged while no transaction is open,
and `CallCascades`. Keys with SET_NULL are excluded (`NoKeyNulls`) because a commit that
nulls a key raises half-way (run SetNullCommit), and then there is nothing to implement.
Graph, Tree and Chain satisfy the hypotheses and check the same property.

*TypeCorrect, OracleAlwaysFindsRows* of the packed array. The doubling of the buffer
ends at a capacity that suffices; `ArraysResolve` says where the moved and placed cells
go. `BulkEditsFit` is the assumption about the callers of `bulk_edit` of section 3.

*ViewsAreCurrent, StampsTellOfChanges.* `Consistent` is the invariant. `ViewsCurrent`
alone is not inductive: it forgives a stale cache as long as its length differs, and
the next edit may make the lengths agree. `ViewOrNone` says that what is cached is a slice
of the buffer in use. The stamp needs that the size is a natural number and that a
plan without moves and additions leaves the cells as they are (`SilentEdit`), which
`PlanType` gets from the sorted arrays of the plan. Neither needs the capacity to
suffice.

*Sessions.* The invariant (`Orderly`) says of every context some block holds that its staged
ids follow its start without a gap and name the rows of its chunks in order, and that its edits
are of rows the table had (`WellFormed`); of the context that edits go to, that it was made from
the table as it is (`Current`), because a commit of another context closes it; and of the
rows that were dropped, that neither the table nor any context has them, which no two
contexts share (`Separate`). Blocks that share a context make all of this weaker than one would
like: a label may be staged in a context and be in the table, since the context has been
committed, and a context may have names for rows that have moved. What a commit does is therefore
only said of one that is `UpToDate`: a condition on the state, not on the program.
`EveryCommitIsExact` says that the concatenated chunks, laid out by the oracle, are the staged
rows, each as often as it was staged; `TrackersAlwaysFindRows`, that a range is filled by the
slice of destinations it names. None of the four theorems has a hypothesis but the assumptions on
the constants.

*StagedKeysAreLive* of polymorphic keys. Again the property is about staged rows and
deletions, and the calls look at claims: `ClaimsCover` and `ClaimsApart`, type by type,
are the strengthening.

*TypeCorrect* of polymorphic keys. `WellTyped` is inductive and says besides where the
edits may point and that the entries of `tx.relinks` are of different rows (`RegivenAre` says
what pairing the two updated columns makes of the old entries). A commit merges the
patches of the types and fixes keys type by type, both by recursive functions; `MergesExist`,
`MergedLast` and `FixesExist` say what these compute for any number of types, `PatchedIs`
what they come to in the columns.

*The lists of polymorphic keys* (`KeysAlwaysResolve` to `CommitsAlwaysFollowKeys`). The
invariant, next to `WellTyped` and `ClaimsKept`, is `Kept`: lists (`ListsLinked`) and counts
(`CountsExact`) are right while the database is whole, deletions are closed, every staged
or relinked key denotes a row its type's table has or will have (`StagedKeysExist`), and
nothing is open after a torn commit. `AllIsKept` is its induction.

- *One type alone.* `ListsLinked` says of each type that its rows, seen alone, are `Linked`
  in the columns all types share (`ColumnsOf`, `PartLinked`). Patch and renumbering of
  one type are then those of plain keys: `PatchLinks` and the lemmas on live ids of
  `AdjacencyLists_proofs` are stated for a part of a table (`Part...`), and `Plannable` is what
  both kinds of keys know of a table before a commit.
- *The types together.* Patches of different types may write the same link: a row that is
  retyped is unlinked by its old type's patch and spliced by its new one's. The
  patches are applied in the order of the types, so the one that should count must be the
  last that writes (`OwnTypesLast`). The patch of a type that a row has left writes the row's
  links only if a neighbour in the old list moves; when the old type comes after the new one,
  the rule "neighbours of retyped rows stay" excludes just that, and the run
  PolymorphicRetype refutes ReferrersFound without it.
- *Keys.* A commit moves keys with their rows, overwrites them for relinked rows, and then,
  one type after the other, rewrites those whose target has moved, which it finds by
  walking the new lists. A walk that strayed into rows of another type would write keys of
  the wrong table; `FixedUpTo` says that each row's key is rewritten in the turn of
  its own type only: afterwards the key of every live row is the translation of the key it was
  left with (`KeyToBe`). CommitsFollowKeys and KeysResolve follow.
- *Counts.* Rows that leave a target and rows that arrive, type by type. The target of a
  relinked row is resolved twice, and the rule "relink targets keep their index" makes the
  second resolution the identity: the theorem does not say that resolving twice does no
  harm, and without the rule it does.
- *Delete calls.* `ReferencingFinds`: a walk of as many steps as the count says returns the
  rows of the list, so that a call marks all rows that reference what it marks. Later
  calls only relink rows that are not marked, and commits start anew.

The hypotheses are two. `Rules = AllRules`: the five rules of section 2, each with a
counterexample for the property that fails without it. `NullsAlike`: the sentinels of the
target tables are that of the keys, as in all schemas that give the tables and the keys the
same index type; otherwise an unresolved key would be stored as another number than
the code tests for (`transaction_context.py:1436`). The run Polymorphic satisfies both.

*The registry.* KeysComplete speaks of columns that are there by a chain of calls: a key
waits under the name of its table, is taken in when that table is registered, by then
with others, and only then puts columns into its targets. The
invariant (`Sound`) therefore speaks of pairs of a schema and a column of it (`Placed`).
No column is in two places (`OnePlace`); what is placed came with a *root*, a data or key
column, and every root that is placed has all that it brings along (`Whole`); roots that
wait are placed nowhere (`Waiting`), and those that were handed over wait or are in a
table of their name (`HandedFound`). `RegisteredIs` and the lemmas after it say what a list of
requests makes of this: all are taken in, or one fails and the registry has failed with it.
A step that fails leaves schemas half-way, but never the schemas of a database, which
are final, nor the columns their keys have put elsewhere: that is why KeysComplete holds after
a failure too (`Inv`), while `Sound` does not. None of this needs a rule. The two theorems about
the tables of a database do (`Ruled`). Who subscribes to a schema that no database has (`Open`)
waits or is in such a schema (`SubscribersFound`), and a key is in a schema that some database
has, or it waits or is, with all its targets, among the open ones (`KeysFound`). Under
"whole databases" `Build` takes all open schemas, so that these two give the new database its
subscribers and targets; "keys first" keeps them when a key is made.

*Only model-checked*: the liveness of delete calls (DeleteCallsReturn), which is beyond the
prover.

## 5. Not modelled

- **Conversions of single values** (string, ASCII, object columns): no state of
  their own; data moves like keys do, by the plan.
- **Dtypes of the polymorphic columns**: four to seven targets need a type id of
  three bits, for which there is no dtype (`schemas/pm_foreign_key_col.py:105`,
  KeyError); sentinels of targets whose width differs from that of the keys
  (`NullOf` allows them, the runs take equal widths), and casts of count deltas, which
  CountDelta of TransactionContext has.
- **Views a program holds across an edit**, and **keys to staged ids beyond the index
  type** (section 3).
- **An overlay used for two databases**: layers that are registered a second time.
- **A second commit of a context that moves rows under stale ids** is modelled, but no
  property says what it should do.
- **Polymorphic keys to their own table**, or with keys further below: the recursion
  of delete calls is in TransactionContext, where all keys are plain.
- **Row-wise additions of no rows to a table with vector columns**, and other shapes
  of arguments: the normalization of records comes to the same batches.
- **Registration calls of hooks that only notify** (`on_transaction_start`,
  `after_commit`), and `get_touching` of the graph overlay, which only reads.
- **Aggregated time stamps** over columns, tables and overlays, a maximum; and equal
  stamps of two edits in the same nanosecond.
- **Names of columns and layers, visualizer, hash sets, id ranges**: wording,
  output, and helpers without state.
- **Crashes, lost messages, concurrency**: nothing is persisted, sent or run in
  parallel.

## 6. Order of the work, and what could follow

The modules were written in the order of their importance: the plan and its oracle,
the lists, the transaction and its refinement, the storage of a column; then
polymorphic keys, sessions and the registry; proofs after each, those about the
lists of polymorphic keys last. What could follow: the refinement of RelationalStore by
polymorphic keys, for which CommitsFollowKeys and DeletionsClosed are the steps; a module
that composes sessions with keys; values of different widths; keys with SET_NULL below
a cascade, once the code keeps their nulls.

## 7. Running

```
tlc -workers 2 -config ParentChild.cfg MCTransaction   # and the other .cfg
tlc -workers 2 -config PackedArray.cfg PackedArray     # also UnstampedShrink
tlc -workers 2 -config Polymorphic.cfg MCPolymorphic   # also PolymorphicRetype
tlc -workers 2 -config Session.cfg Session             # also NestedBlocks, OneBlock, HookPatches
tlc -workers 2 -config SchemaRegistry.cfg MCRegistry   # also RuledRegistry, ReplacedLayers, UntypedCounts
tlapm Commits_proofs.tla                              # and the other _proofs
```

A definition preceded by a comment "Mutant" is a plausible bug, or a part of one; `PROJECT.json`
says which property notices it.
