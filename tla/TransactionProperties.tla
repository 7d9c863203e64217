----------------------- MODULE TransactionProperties -----------------------
(***************************************************************************)
(* What should hold of the database and of its transactions.               *)
(***************************************************************************)
EXTENDS TransactionContext

\* The columns of a table all have as many rows as the table, after every
\* commit (PackedArrayTable.__len__ answers for all of them).
ColumnsHaveTheRows(f) ==
  LET c == db.col[f]
  IN  /\ \A col \in {c.fk, c.nxt, c.prv} : DOMAIN col = RowsOf(Source[f])
      /\ \A col \in {c.head, c.cnt} : DOMAIN col = RowsOf(Target[f])

\* A row as it is staged: its keys.
StagedRow(t) == [KeysOf(t) -> 0 .. Missing]

\* A key as it is staged for a committed row.
StagedKey == [row : Nat, target : 0 .. Missing]

RowSets == [Tables -> SUBSET Nat]
StagedAdditions == [Tables -> Seq(UNION {StagedRow(t) : t \in Tables})]
StagedUpdates == [ForeignKeys -> Seq(StagedKey)]
Unlinks == [ForeignKeys -> SUBSET Nat]

StagedEdits ==
  [open      : BOOLEAN,
   calls     : Nat,
   staged    : SUBSET Tables,
   additions : StagedAdditions,
   deletions : RowSets,
   unlinks   : Unlinks,
   claims    : RowSets,
   updates   : StagedUpdates]

Frames == [table  : Tables,
           ids    : SUBSET Nat,
           sub    : Nat \ {0},
           nulled : Unlinks]

DatabaseTyped ==
  /\ db.len \in [Tables -> Nat]
  /\ \A t \in Tables : db.len[t] <= MaxRows[t]
  /\ \A f \in ForeignKeys : ColumnsHaveTheRows(f)

EditsTyped ==
  /\ tx \in StagedEdits
  /\ \A t \in Tables :
       /\ tx.additions[t] \in Seq(StagedRow(t))
       /\ Len(tx.additions[t]) <= MaxStaged
       /\ tx.deletions[t] \subseteq RowsOf(t)
       /\ db.len[t] + Len(tx.additions[t]) <= MaxRows[t] + Cardinality(tx.deletions[t])
  /\ \A f \in ForeignKeys :
       /\ tx.unlinks[f] \subseteq RowsOf(Source[f])
       /\ Relinked(f) \subseteq RowsOf(Source[f])

CallTyped ==
  /\ call \in [stack : Seq(Frames), expanded : RowSets]
  /\ call.stack = <<>> => call = NoCall
  /\ \A t \in Tables : call.expanded[t] \subseteq RowsOf(t)
  /\ \A i \in DOMAIN call.stack :
       /\ call.stack[i].ids \subseteq RowsOf(call.stack[i].table)
       /\ \A f \in ForeignKeys : call.stack[i].nulled[f] \subseteq RowsOf(Source[f])

\* Type invariant.  Whatever is staged or being expanded concerns committed
\* rows only, and a table never outgrows its bound.
TypeOK == DatabaseTyped /\ EditsTyped /\ CallTyped

-----------------------------------------------------------------------------
(***************************************************************************)
(* The committed database.                                                 *)
(***************************************************************************)
ReferrersOf(f, t) == {r \in RowsOf(Source[f]) : db.col[f].fk[r] = t}

Chain(f, t) == Reached(db.col[f].nxt, db.col[f].head[t], db.len[Source[f]])

\* Every key is absent or denotes a row of the target table, whatever was
\* deleted, moved or staged with it: commit leaves no dangling reference.
KeysResolve ==
  \A f \in ForeignKeys : \A r \in RowsOf(Source[f]) :
    db.col[f].fk[r] \in RowsOf(Target[f]) \cup {Missing}

\* The list of a target row holds exactly the rows whose key denotes it, ends,
\* and is linked the same way in both directions: the patches of a commit, each
\* written against the database before it, leave no row out and share none.
ListsMatchKeys ==
  \A f \in ForeignKeys :
    LET c == db.col[f]
    IN  /\ \A t \in RowsOf(Target[f]) :
             /\ Chain(f, t) = ReferrersOf(f, t)
             /\ Node(c.nxt, c.head[t], Cardinality(ReferrersOf(f, t))) = Missing
             /\ c.head[t] # Missing => c.prv[c.head[t]] = Missing
        /\ \A r \in RowsOf(Source[f]) :
             /\ c.nxt[r] # Missing => c.prv[c.nxt[r]] = r
             /\ c.prv[r] # Missing => c.nxt[c.prv[r]] = r

\* The count of a target row is the number of rows that reference it.  Deletes
\* walk as many rows of a list as its count says, so a wrong count makes them
\* miss rows or read past the end.
CountsMatchLists ==
  TrackCounts =>
    \A f \in ForeignKeys : \A t \in RowsOf(Target[f]) :
      db.col[f].cnt[t] = Cardinality(ReferrersOf(f, t))

\* A commit is done or not: none stops halfway (TransactionContext.commit
\* changes table after table and has nothing to undo it with).
CommitsAreAtomic == ~db.torn

\* A block that ends normally is committed.
CommitsAreNotRefused == outcome = "ValueError" => db.torn

-----------------------------------------------------------------------------
(***************************************************************************)
(* What is staged.                                                         *)
(***************************************************************************)
\* No staged row references a row that is marked for deletion, whichever of
\* the two calls comes first and however far the deletion has cascaded.
StagedKeysLive ==
  \A f \in ForeignKeys : \A k \in DOMAIN tx.additions[Source[f]] :
    tx.additions[Source[f]][k][f] \notin tx.deletions[Target[f]]

\* Why: claims covers the keys of the staged rows, and neither the deletions
\* nor any level of a delete call ever includes a claimed row.
ClaimsKept ==
  /\ \A f \in ForeignKeys : \A k \in DOMAIN tx.additions[Source[f]] :
       tx.additions[Source[f]][k][f] \in tx.claims[Target[f]]
  /\ \A t \in Tables : tx.claims[t] \cap (tx.deletions[t] \cup call.expanded[t]) = {}
  /\ \A i \in DOMAIN call.stack :
       tx.claims[call.stack[i].table] \cap call.stack[i].ids = {}

\* The oracle of every table, of what is staged so far, renumbers the rows that
\* stay or are added without gaps or collisions.
StagedRowsRenumbered ==
  \A t \in Tables :
    Renumbers(db.len[t], Len(tx.additions[t]), tx.deletions[t])

\* A row whose key references a row marked for deletion is marked itself, or
\* its key is about to be nulled or replaced: the expansion of delete calls,
\* one after the other and in any order with updates, forgets no row.
DeletionsClosed ==
  \A f \in ForeignKeys : \A r \in RowsOf(Source[f]) :
    db.col[f].fk[r] \in tx.deletions[Target[f]] =>
      \/ r \in tx.deletions[Source[f]]
      \/ r \in tx.unlinks[f]
      \/ r \in Relinked(f)

-----------------------------------------------------------------------------
(***************************************************************************)
(* Delete calls.                                                           *)
(***************************************************************************)
\* A cascade schedules the deletion of all referencing rows ("CASCADE: Deleting a
\* target row automatically schedules deletions of all referencing source rows.",
\* columns/foreign_key.md:31), and never exhausts the stack instead.
CascadesComplete == outcome # "RecursionError"

\* A delete call returns, or raises, whatever circles the data has: no level of its
\* recursion through the subscribers is expanded forever.
DeleteCallsReturn == call.stack # <<>> ~> call.stack = <<>>

\* A call that has been entered runs on to its end: there is one thread.
FairSpec == Spec /\ WF_vars(ExpandSubscriber \/ ReturnInner \/ ReturnOuter)
=============================================================================
