----------------------- MODULE TransactionRefinement -----------------------
(***************************************************************************)
(* TransactionContext implements RelationalStore: forget the lists, the    *)
(* counts, the delete call in progress and how calls ended.                *)
(***************************************************************************)
EXTENDS TransactionProperties

Relational == INSTANCE RelationalStore WITH
  NoRow    <- Missing,
  rows     <- [t \in Tables |-> RowsOf(t)],
  ref      <- [f \in ForeignKeys |-> db.col[f].fk],
  open     <- tx.open,
  added    <- tx.additions,
  deleted  <- tx.deletions,
  relinked <- [f \in ForeignKeys |-> [r \in Relinked(f) |->
                 LET k == CHOOSE k \in DOMAIN tx.updates[f] : tx.updates[f][k].row = r
                 IN  tx.updates[f][k].target]],
  where    <- trackers

\* Every transaction has the effect it has on plain tables with references:
\* rows survive, references follow the rows they denote through swap-and-pop,
\* deletions cascade or are refused, and trackers name the new indices.
ImplementsRelationalStore == Relational!Spec
=============================================================================
