-------------------------- MODULE RelationalStore --------------------------
(***************************************************************************)
(* What the database promises, without adjacency lists, counts, plans or   *)
(* oracles: tables of rows with references between them, edited in         *)
(* transactions.  A commit gives every row that survives or was added an   *)
(* index in a packed table, tells the trackers which, and carries every    *)
(* reference over to the new index of the row it denotes.                  *)
(***************************************************************************)
EXTENDS Integers, FiniteSets, Sequences

CONSTANTS Tables, ForeignKeys, Source, Target, OnDelete, NoRow

VARIABLES
  rows,      (* [Tables -> SUBSET Nat]: the indices of the rows            *)
  ref,       (* [ForeignKeys -> [row -> row or NoRow]]                     *)
  open,      (* a transaction is open                                      *)
  added,     (* [Tables -> Seq]: the rows it adds, by their references     *)
  deleted,   (* [Tables -> SUBSET Nat]: the rows it deletes                *)
  relinked,  (* [ForeignKeys -> [row -> row or NoRow]]: references it sets *)
  where      (* [Tables -> [id -> index]]: where the last commit put it    *)

storeVars == <<rows, ref, open, added, deleted, relinked, where>>

NoIds == [i \in {} |-> NoRow]

\* The id of the k-th row added to t follows the indices of t.
AddedIds(t) == Cardinality(rows[t]) .. Cardinality(rows[t]) + Len(added[t]) - 1

AddedRow(t, i) == added[t][i - Cardinality(rows[t]) + 1]

Ids(t) == rows[t] \cup AddedIds(t)

LiveIds(t) == Ids(t) \ deleted[t]

\* The reference f of row i as the transaction leaves it.
NewRef(f, i) ==
  IF i \in AddedIds(Source[f]) THEN AddedRow(Source[f], i)[f]
  ELSE IF i \in DOMAIN relinked[f] THEN relinked[f][i]
  ELSE ref[f][i]

NothingStaged(o, a, d, r) ==
  /\ o = FALSE
  /\ a = [t \in Tables |-> <<>>]
  /\ d = [t \in Tables |-> {}]
  /\ r = [f \in ForeignKeys |-> NoIds]

Init ==
  /\ rows = [t \in Tables |-> {}]
  /\ ref = [f \in ForeignKeys |-> NoIds]
  /\ where = [t \in Tables |-> NoIds]
  /\ NothingStaged(open, added, deleted, relinked)

Begin ==
  /\ ~open
  /\ open' = TRUE
  /\ where' = [t \in Tables |-> NoIds]
  /\ UNCHANGED <<rows, ref, added, deleted, relinked>>

\* No added row references a row that is being deleted.
Add(t) ==
  /\ open
  /\ Len(added'[t]) > Len(added[t])
  /\ SubSeq(added'[t], 1, Len(added[t])) = added[t]
  /\ added' = [added EXCEPT ![t] = added'[t]]
  /\ \A k \in Len(added[t]) + 1 .. Len(added'[t]) :
       \A f \in {g \in ForeignKeys : Source[g] = t} :
         added'[t][k][f] \in (Ids(Target[f]) \ deleted[Target[f]]) \cup {NoRow}
  /\ UNCHANGED <<rows, ref, open, deleted, relinked, where>>

\* Set the reference f of some rows that are neither deleted nor relinked.
Relink(f) ==
  /\ open
  /\ \E some \in SUBSET rows[Source[f]], target \in Ids(Target[f]) \cup {NoRow} :
       /\ some \cap (deleted[Source[f]] \cup DOMAIN relinked[f]) = {}
       /\ relinked' = [relinked EXCEPT ![f] =
            [i \in DOMAIN @ \cup {j \in some : ref[f][j] # target} |->
               IF i \in DOMAIN @ THEN @[i] ELSE target]]
  /\ UNCHANGED <<rows, ref, open, added, deleted, where>>

\* The rows whose reference f denotes a row of D and stays.
Referrers(f, D) ==
  {r \in rows[Source[f]] : ref[f][r] \in D[Target[f]]} \ DOMAIN relinked[f]

\* What a transaction may mark for deletion.
Deletions ==
  {E \in [Tables -> SUBSET UNION {rows[t] : t \in Tables}] :
     \A t \in Tables : E[t] \subseteq rows[t]}

\* E has the rows of D and, with a row, those that cascading keys tie to it.
Cascades(D, E) ==
  /\ \A t \in Tables : D[t] \subseteq E[t]
  /\ \A f \in {g \in ForeignKeys : OnDelete[g] = "CASCADE"} :
       Referrers(f, E) \subseteq E[Source[f]]

\* E is D and what cascades from it, no row more.
CascadeOf(D, E) ==
  /\ E \in Deletions
  /\ Cascades(D, E)
  /\ \A F \in Deletions : Cascades(D, F) => \A t \in Tables : E[t] \subseteq F[t]

\* Delete rows and what cascades from them; no row that is being added and no
\* restricting key may reference any of these.
Delete(t) ==
  /\ open
  /\ \E some \in SUBSET rows[t] :
       CascadeOf([deleted EXCEPT ![t] = @ \cup some], deleted')
  /\ \A f \in ForeignKeys :
       /\ OnDelete[f] = "RESTRICT" => Referrers(f, deleted') \subseteq deleted'[Source[f]]
       /\ \A k \in DOMAIN added[Source[f]] :
            added[Source[f]][k][f] \notin deleted'[Target[f]]
  /\ UNCHANGED <<rows, ref, open, added, relinked, where>>

Rollback ==
  /\ open
  /\ NothingStaged(open', added', deleted', relinked')
  /\ UNCHANGED <<rows, ref, where>>

\* where'[t] numbers the live ids of t from 0 without gaps.
Renumbers(t) ==
  /\ DOMAIN where'[t] = Ids(t)
  /\ \A i \in deleted[t] : where'[t][i] = NoRow
  /\ {where'[t][i] : i \in LiveIds(t)} = 0 .. Cardinality(LiveIds(t)) - 1

Commit ==
  /\ open
  /\ \A f \in ForeignKeys : \A i \in LiveIds(Source[f]) :
       NewRef(f, i) \in LiveIds(Target[f]) \cup {NoRow}
  /\ \A t \in Tables : Renumbers(t)
  /\ rows' = [t \in Tables |-> 0 .. Cardinality(LiveIds(t)) - 1]
  /\ \A f \in ForeignKeys :
       /\ DOMAIN ref'[f] = rows'[Source[f]]
       /\ \A i \in LiveIds(Source[f]) :
            ref'[f][where'[Source[f]][i]] =
              IF NewRef(f, i) = NoRow THEN NoRow ELSE where'[Target[f]][NewRef(f, i)]
  /\ NothingStaged(open', added', deleted', relinked')

Next ==
  \/ Begin
  \/ \E t \in Tables : Add(t) \/ Delete(t)
  \/ \E f \in ForeignKeys : Relink(f)
  \/ Rollback
  \/ Commit

Spec == Init /\ [][Next]_storeVars
=============================================================================
