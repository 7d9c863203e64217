---------------------------- MODULE RemapOracle ----------------------------
(***************************************************************************)
(* The bulk edit plan of a table and the oracle built from it.             *)
(*                                                                         *)
(* plan_bulk_edit (edit_helpers.py) decides where staged rows go and which *)
(* tail rows move when a table is edited in bulk by swap-and-pop; the      *)
(* RemapOracle (remap_oracle.py) answers where an index has gone.  Both    *)
(* are pure: this module holds no state.  The sorted arrays of the code    *)
(* are sets here, and "the k-th entry of the array" is the element whose   *)
(* rank is k.                                                              *)
(***************************************************************************)
EXTENDS Integers, FiniteSets

CONSTANT Missing        (* the sentinel of an absent index: the largest    *)
                        (* value of the index dtype (IndexSpec.missing)    *)

ASSUME MissingIsNat == Missing \in Nat

\* How many elements of S are below x: the position of x in the sorted array S.
Rank(x, S) == Cardinality({y \in S : y < x})

\* How many elements of S are above x: its position in the array S reversed.
RankFromTop(x, S) == Cardinality({y \in S : y > x})

\* The k-th entry of the sorted array S, counted from 0.
Nth(k, S) == CHOOSE x \in S : Rank(x, S) = k

\* Removal arguments as the caller may give them, negative ones counted from
\* the end, reduced to the valid ones without duplicates.
Normalize(size, raw) ==
  {IF r < 0 THEN r + size ELSE r : r \in raw} \cap (0 .. size - 1)

(***************************************************************************)
(* The plan for a table of the given size, nAdd staged rows and the        *)
(* normalized set of removals.  The first staged rows fill the first       *)
(* holes.  A growing table takes the others at its end; a shrinking one    *)
(* moves the survivors of its tail, last first, into the holes that are    *)
(* left, first first.                                                      *)
(***************************************************************************)
PlanSize(size, nAdd, removals) == size + nAdd - Cardinality(removals)

Replacements(nAdd, removals) ==
  IF nAdd < Cardinality(removals) THEN nAdd ELSE Cardinality(removals)

\* Holes no staged row fills, below the new end of the table.
OpenHoles(size, nAdd, removals) ==
  {r \in removals : /\ Rank(r, removals) >= Replacements(nAdd, removals)
                    /\ r < PlanSize(size, nAdd, removals)}

\* Mutant: the first row beyond the new end is forgotten.
TailSurvivorsButFirst(size, nAdd, removals) ==
  {i \in PlanSize(size, nAdd, removals) + 1 .. size - 1 : i \notin removals}

\* Rows beyond the new end of the table that are not removed.
TailSurvivors(size, nAdd, removals) ==
  {i \in PlanSize(size, nAdd, removals) .. size - 1 : i \notin removals}

\* Mutant: staged rows all go to the end, and leave the holes open.
AdditionDestAtEnd(size, nAdd, removals) == [k \in 0 .. nAdd - 1 |-> size + k]

AdditionDest(size, nAdd, removals) ==
  [k \in 0 .. nAdd - 1 |->
     IF k < Replacements(nAdd, removals)
       THEN Nth(k, removals)
       ELSE size + (k - Replacements(nAdd, removals))]

Moves(size, nAdd, removals) ==
  LET tail  == TailSurvivors(size, nAdd, removals)
      holes == OpenHoles(size, nAdd, removals)
  IN  [i \in tail |-> Nth(RankFromTop(i, tail), holes)]

\* The oracle of a table; staged ids start at the size the table has when the
\* transaction begins, which no call changes before the commit.
Oracle(size, nAdd, removals) ==
  [start     |-> size,
   deletions |-> removals,
   newSize   |-> PlanSize(size, nAdd, removals),
   dest      |-> AdditionDest(size, nAdd, removals),
   moves     |-> Moves(size, nAdd, removals)]

(***************************************************************************)
(* Where index idx of oracle o's table is after the edit: a staged id at   *)
(* its destination, a deleted row nowhere, a moved row where it moved, any *)
(* other row where it was.                                                 *)
(***************************************************************************)
Resolve(o, idx) ==
  IF idx = Missing THEN Missing
  ELSE IF idx >= o.start
    THEN IF (idx - o.start) \in DOMAIN o.dest THEN o.dest[idx - o.start]
                                              ELSE Missing
  ELSE IF idx \in o.deletions THEN Missing
  ELSE IF idx \in DOMAIN o.moves THEN o.moves[idx]
  ELSE idx

\* The ids of a table that denote a row after the edit: rows not removed and
\* staged rows.
Live(size, nAdd, removals) ==
  (0 .. size + nAdd - 1) \ removals

\* The oracle numbers the live ids 0 .. newSize - 1, one each, and says of the
\* removed rows, and only of these, that they are gone.
Renumbers(size, nAdd, removals) ==
  LET o == Oracle(size, nAdd, removals)
      live == Live(size, nAdd, removals)
  IN  /\ \A i \in live : Resolve(o, i) \in 0 .. o.newSize - 1
      /\ \A i, j \in live : Resolve(o, i) = Resolve(o, j) => i = j
      /\ \A p \in 0 .. o.newSize - 1 : \E i \in live : Resolve(o, i) = p
      /\ \A i \in removals : Resolve(o, i) = Missing
=============================================================================
