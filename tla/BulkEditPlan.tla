---------------------------- MODULE BulkEditPlan ----------------------------
(***************************************************************************)
(* plan_bulk_edit (edit_helpers.py) as it computes: on arrays, with one    *)
(* scan from the end of the table; and the arrays that _create_oracle      *)
(* makes of the plan, which oracle_resolve (remap_oracle.py) searches.     *)
(* RemapOracle says the same on sets; OracleFindsRows compares them.       *)
(*                                                                         *)
(* An array is a sequence here; entry k of the array is its k+1st element. *)
(***************************************************************************)
EXTENDS RemapOracle, Sequences

\* The sorted array of the elements of S (np.unique).
Sorted(S) == [k \in 1 .. Cardinality(S) |-> Nth(k - 1, S)]

Reversed(s) == [k \in DOMAIN s |-> s[Len(s) + 1 - k]]

\* np.searchsorted: how many entries of the sorted array s are below x.
SearchSorted(s, x) == Cardinality({k \in DOMAIN s : s[k] < x})

\* The backward scan of the tail: void_ptr runs through the removed rows of
\* the tail from the last to the first, every other row is to move.
ScanTail(size, newSize, voids) ==
  LET scan[k \in 0 .. size - newSize] ==
        IF k = 0 THEN [voidPtr |-> Len(voids), from |-> <<>>]
        ELSE LET s == scan[k - 1]
                 i == size - k
             IN  IF s.voidPtr > 0 /\ voids[s.voidPtr] = i
                   THEN [s EXCEPT !.voidPtr = @ - 1]
                   ELSE [s EXCEPT !.from = Append(@, i)]
  IN  scan[size - newSize].from

\* The plan for a table of the given size, nAdd new rows and the removal
\* arguments raw, which may be negative or out of range.
Plan(size, nAdd, raw) ==
  LET removals  == Sorted(Normalize(size, raw))
      filled    == IF nAdd < Len(removals) THEN nAdd ELSE Len(removals)
      newSize   == size + nAdd - Len(removals)
      remaining == SubSeq(removals, filled + 1, Len(removals))
      split     == SearchSorted(remaining, newSize)
      shrinks   == newSize < size
  IN  [newSize  |-> newSize,
       dests    |-> SubSeq(removals, 1, filled)
                      \o [k \in 1 .. newSize - size |-> size + k - 1],
       from     |-> IF shrinks
                      THEN ScanTail(size, newSize,
                                    SubSeq(remaining, split + 1, Len(remaining)))
                      ELSE <<>>,
       to       |-> IF shrinks THEN SubSeq(remaining, 1, split) ELSE <<>>,
       removals |-> removals]

\* Mutant: the second array is not reversed with the first.
OracleArraysHalfReversed(size, p) ==
  [deletions |-> p.removals,
   movesFrom |-> Reversed(p.from),
   movesTo   |-> p.to,
   dests     |-> p.dests,
   start     |-> size]

\* The arrays of the oracle of the plan p: the moves in ascending order.
OracleArrays(size, p) ==
  [deletions |-> p.removals,
   movesFrom |-> Reversed(p.from),
   movesTo   |-> Reversed(p.to),
   dests     |-> p.dests,
   start     |-> size]

\* idx is an entry of the sorted array s, found by binary search.
Found(s, idx) ==
  LET k == SearchSorted(s, idx)
  IN  k < Len(s) /\ s[k + 1] = idx

\* oracle_resolve.
ResolveInArrays(a, idx) ==
  CASE idx = Missing -> Missing
    [] idx # Missing /\ idx >= a.start ->
         IF idx - a.start < Len(a.dests) THEN a.dests[idx - a.start + 1] ELSE Missing
    [] idx < a.start /\ Found(a.deletions, idx) -> Missing
    [] idx < a.start /\ ~Found(a.deletions, idx) /\ Found(a.movesFrom, idx) ->
         a.movesTo[SearchSorted(a.movesFrom, idx) + 1]
    [] OTHER -> idx
=============================================================================
