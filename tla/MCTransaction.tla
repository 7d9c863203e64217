--------------------------- MODULE MCTransaction ---------------------------
(***************************************************************************)
(* Schemas to model-check TransactionContext with.                         *)
(***************************************************************************)
EXTENDS TransactionRefinement, TLC

\* One foreign key from "child" to "parent".
ParentChildTables == {"parent", "child"}
ParentChildKeys == {"ref"}
ParentChildSource == [f \in ParentChildKeys |-> "child"]
ParentChildTarget == [f \in ParentChildKeys |-> "parent"]
ParentChildSubscribers == [t \in ParentChildTables |->
                             IF t = "parent" THEN <<"ref">> ELSE <<>>]
ParentChildRows == [t \in ParentChildTables |-> IF t = "parent" THEN 2 ELSE 3]

\* Edges with two keys to the same table of nodes (the graph overlay).
GraphTables == {"node", "edge"}
GraphKeys == {"from", "to"}
GraphSource == [f \in GraphKeys |-> "edge"]
GraphTarget == [f \in GraphKeys |-> "node"]
GraphSubscribers == [t \in GraphTables |->
                       IF t = "node" THEN <<"from", "to">> ELSE <<>>]
GraphRows == [t \in GraphTables |-> 2]

\* A table with a key to itself.
TreeTables == {"tree"}
TreeKeys == {"up"}
TreeSource == [f \in TreeKeys |-> "tree"]
TreeTarget == [f \in TreeKeys |-> "tree"]
TreeSubscribers == [t \in TreeTables |-> <<"up">>]
TreeRows == [t \in TreeTables |-> 3]

\* A chain of three tables; "leaf" keys reach "top" in two levels.
ChainTables == {"top", "middle", "leaf"}
ChainKeys == {"toTop", "toMiddle"}
ChainSource == [f \in ChainKeys |-> IF f = "toTop" THEN "middle" ELSE "leaf"]
ChainTarget == [f \in ChainKeys |-> IF f = "toTop" THEN "top" ELSE "middle"]
ChainSubscribers == [t \in ChainTables |->
                       CASE t = "top" -> <<"toTop">>
                         [] t = "middle" -> <<"toMiddle">>
                         [] OTHER -> <<>>]
ChainRows == [t \in ChainTables |-> IF t = "leaf" THEN 2 ELSE 1]
CascadeThenNull == [f \in ForeignKeys |-> IF f = "toTop" THEN "CASCADE" ELSE "SET_NULL"]
CascadeThenRestrict == [f \in ForeignKeys |-> IF f = "toTop" THEN "CASCADE" ELSE "RESTRICT"]

Cascade == [f \in ForeignKeys |-> "CASCADE"]
Restrict == [f \in ForeignKeys |-> "RESTRICT"]
RestrictThenCascade ==
  [f \in ForeignKeys |-> IF f = "from" THEN "RESTRICT" ELSE "CASCADE"]
SetNull == [f \in ForeignKeys |-> "SET_NULL"]
\* Index and count columns wide enough for every index and count.
Bits8 == [t \in Tables |-> 256]
=============================================================================
