---------------------------- MODULE PackedArray ----------------------------
(***************************************************************************)
(* A packed array: the storage of one column (packed_array.py), with the   *)
(* view it caches of itself and the modification time that tells consumers *)
(* of changes (dirty_tracking.py).                                         *)
(*                                                                         *)
(* The buffer is cells, a function on 0 .. capacity - 1, of which the      *)
(* first size cells are the contents.  A reallocation always takes a       *)
(* larger buffer, so its capacity tells one buffer from another.  A view   *)
(* is a slice of a buffer: [cap, len].                                     *)
(***************************************************************************)
EXTENDS BulkEditPlan

CONSTANTS
  Values,          (* what a cell may hold                                 *)
  Fill,            (* empty_fill, the default of the column                *)
  InitialCapacity, (* pre_allocated_capacity                               *)
  BulkEditsFit,    (* rule: no caller lets bulk_edit outgrow the buffer,   *)
                   (* which it does not check                              *)
  MaxSize,         (* bound: cells in use                                  *)
  MaxBatch         (* bound: values added by one edit                      *)

ASSUME ArrayAssumption ==
  /\ Fill \in Values
  /\ InitialCapacity \in Nat /\ MaxSize \in Nat /\ MaxBatch \in Nat
  /\ BulkEditsFit \in BOOLEAN

VARIABLES
  cells,   (* the buffer                                                   *)
  size,    (* the number of cells in use                                   *)
  cached,  (* _cached_view with _cached_size, or NoView                    *)
  told,    (* what a consumer saw last, and whether the time stamp has     *)
           (* moved since: [seen, stamped]                                 *)
  kind     (* how the array was made and what it is for:                   *)
           (* resize_factor, and whether it is a column of counts          *)

arrayVars == <<cells, size, cached, told, kind>>

NoView == [cap |-> -1, len |-> -1]

Capacity == Cardinality(DOMAIN cells)

\* The cells in use, as a sequence.
Contents == [k \in 1 .. size |-> cells[k - 1]]

\* A fresh slice of the buffer.
Slice == [cap |-> Capacity, len |-> size]

\* What the property `view` returns, which caches it.
View == IF cached # NoView /\ cached.len = size THEN cached ELSE Slice

\* A write through an array or one of its views moves the shared time stamp.
Stamped == told' = [seen |-> <<>>, stamped |-> TRUE]

\* The buffer b with the cells of S set to x.
Put(b, S, x) == [i \in DOMAIN b |-> IF i \in S THEN x ELSE b[i]]

\* The first n cells of b in a buffer of the given capacity, the rest empty
\* (PackedArrayBuffer.resize, then the fill every caller adds).
Reallocated(b, n, capacity) ==
  [i \in 0 .. capacity - 1 |-> IF i < n THEN b[i] ELSE Fill]

\* A bulk edit that outgrew the buffer leaves a size beyond it; the program
\* gets an exception and stops.
Sound == size <= Capacity

\* The arrays of a table double; only an array of its own may have a limit.
Kinds == {[factor |-> 2, counts |-> FALSE], [factor |-> 2, counts |-> TRUE],
          [factor |-> 0, counts |-> FALSE]}

Init ==
  /\ cells = [i \in 0 .. InitialCapacity - 1 |-> Fill]
  /\ size = 0
  /\ cached = NoView
  /\ told = [seen |-> <<>>, stamped |-> FALSE]
  /\ kind \in Kinds

-----------------------------------------------------------------------------
(***************************************************************************)
(* Readers and writers.                                                    *)
(***************************************************************************)
\* A consumer reads the contents and the time stamp.
Look ==
  /\ Sound
  /\ told' = [seen |-> Contents, stamped |-> FALSE]
  /\ cached' = View
  /\ UNCHANGED <<cells, size, kind>>

\* array[i] = x, or a write through `view`.
Write(i, x) ==
  /\ Sound
  /\ i < size
  /\ cells' = IF View.cap = Capacity THEN [cells EXCEPT ![i] = x] ELSE cells
  /\ cached' = View
  /\ Stamped
  /\ UNCHANGED <<size, kind>>

\* np.add.at on a column of counts (TopologyScratchpad.apply): the ufunc has
\* no output argument, so the time stamp stays.
Accumulate(i, x) ==
  /\ Sound
  /\ kind.counts
  /\ i < size
  /\ cells' = IF View.cap = Capacity THEN [cells EXCEPT ![i] = x] ELSE cells
  /\ cached' = View
  /\ UNCHANGED <<size, told, kind>>

-----------------------------------------------------------------------------
(***************************************************************************)
(* Operations of PackedArray.                                              *)
(***************************************************************************)
Larger(a, b) == IF a > b THEN a ELSE b

\* Mutant: the array grows when it is past its capacity, not when it is full.
AppendPastCapacity(x) ==
  /\ Sound
  /\ size < MaxSize
  /\ size <= Capacity \/ kind.factor # 0
  /\ cells' = [i \in DOMAIN cells |-> IF i = size THEN x ELSE cells[i]]
  /\ size' = size + 1
  /\ cached' = NoView
  /\ Stamped
  /\ UNCHANGED kind

\* append; a full array that may not grow refuses.
AppendElement(x) ==
  /\ Sound
  /\ size < MaxSize
  /\ size < Capacity \/ kind.factor # 0
  /\ LET b == IF size < Capacity THEN cells
              ELSE Reallocated(cells, size,
                     Larger(Capacity * kind.factor, Capacity + 1))
     IN  cells' = [b EXCEPT ![size] = x]
  /\ size' = size + 1
  /\ cached' = NoView
  /\ Stamped
  /\ UNCHANGED kind

\* The capacity ensure_size grows to: doubled until n fits.
GrownCapacity(n) ==
  LET c[k \in 0 .. n] == IF k = 0 THEN Capacity
                         ELSE IF c[k - 1] >= n THEN c[k - 1]
                         ELSE Larger(c[k - 1] * kind.factor, c[k - 1] + 1)
  IN  c[n]

\* The buffer after ensure_size(n) has made room: every new cell is empty.
EnsuredCells(n) ==
  IF n <= Capacity THEN Put(cells, size .. n - 1, Fill)
                   ELSE Reallocated(cells, size, GrownCapacity(n))

\* Mutant: the cache is left to the size check of `view`.
EnsureSizeOnly(n, shrink) ==
  /\ Sound
  /\ n <= Capacity \/ kind.factor # 0
  /\ n > size \/ (n < size /\ shrink)
  /\ cells' = IF n > size THEN EnsuredCells(n) ELSE cells
  /\ size' = n
  /\ told' = IF n > size THEN [seen |-> <<>>, stamped |-> TRUE] ELSE told
  /\ UNCHANGED <<cached, kind>>

\* ensure_size; an array that may not grow refuses.
EnsureSize(n, shrink) ==
  /\ Sound
  /\ n <= Capacity \/ kind.factor # 0
  /\ \/ /\ n < size /\ ~shrink
        /\ UNCHANGED <<cells, size, cached, told>>
     \/ /\ n < size /\ shrink
        /\ size' = n
        /\ cached' = NoView
        /\ UNCHANGED <<cells, told>>
     \/ /\ n >= size
        /\ cells' = EnsuredCells(n)
        /\ size' = n
        /\ cached' = NoView
        /\ Stamped
  /\ UNCHANGED kind

\* remove: empty the cell, then swap the last one in.
Remove(index) ==
  LET i == IF index < 0 THEN index + size ELSE index
      b == [cells EXCEPT ![i] = Fill]
  IN  /\ Sound
      /\ index \in -size .. size - 1
      /\ cells' = [b EXCEPT ![i] = b[size - 1], ![size - 1] = b[i]]
      /\ size' = size - 1
      /\ cached' = NoView
      /\ Stamped
      /\ UNCHANGED kind

\* Mutant: the cells are exchanged below __setitem__.
SwapUnstamped(a, b) ==
  LET i == IF a < 0 THEN a + size ELSE a
      j == IF b < 0 THEN b + size ELSE b
  IN  /\ Sound
      /\ {a, b} \subseteq -size .. size - 1
      /\ cells' = [cells EXCEPT ![i] = cells[j], ![j] = cells[i]]
      /\ UNCHANGED <<size, cached, told, kind>>

Swap(a, b) ==
  LET i == IF a < 0 THEN a + size ELSE a
      j == IF b < 0 THEN b + size ELSE b
  IN  /\ Sound
      /\ {a, b} \subseteq -size .. size - 1
      /\ cells' = [cells EXCEPT ![i] = cells[j], ![j] = cells[i]]
      /\ Stamped
      /\ UNCHANGED <<size, cached, kind>>

-----------------------------------------------------------------------------
(***************************************************************************)
(* Bulk edits, by a plan of BulkEditPlan.                                  *)
(***************************************************************************)
\* data[plan.to] = data[plan.from]
Relocate(b, plan) ==
  [i \in DOMAIN b |-> IF \E k \in DOMAIN plan.to : plan.to[k] = i
                        THEN b[plan.from[CHOOSE k \in DOMAIN plan.to : plan.to[k] = i]]
                        ELSE b[i]]

\* data[plan.dests] = vals
Place(b, plan, vals) ==
  [i \in DOMAIN b |-> IF \E k \in DOMAIN plan.dests : plan.dests[k] = i
                        THEN vals[CHOOSE k \in DOMAIN plan.dests : plan.dests[k] = i]
                        ELSE b[i]]

\* The buffer after the plan: rows are moved, if any are (only a plan that
\* shrinks the array moves some), room is made, values are placed.
Edited(plan, vals) ==
  Place(IF plan.newSize > size THEN EnsuredCells(plan.newSize)
        ELSE IF plan.from = <<>> THEN cells
        ELSE Relocate(cells, plan), plan, vals)

\* bulk_edit with lists.  `if relocations[0]:` asks an array for its truth:
\* with two or more relocations it raises, with none it may (newer NumPy).
\* The new size is set without making room for it.
BulkEdit(vals, raw) ==
  LET plan == Plan(size, Len(vals), raw)
      fits == plan.newSize <= Capacity
  IN  /\ Sound
      /\ plan.newSize <= MaxSize
      /\ BulkEditsFit => fits
      /\ \/ /\ Len(plan.from) # 1
            /\ cached' = View
            /\ UNCHANGED <<cells, size, told>>
         \/ /\ Len(plan.from) <= 1
            /\ size' = plan.newSize
            /\ cells' = IF fits THEN Edited(plan, vals) ELSE cells
            /\ cached' = IF View.len = size' THEN View
                         ELSE [cap |-> Capacity, len |-> size']
            /\ IF plan.from # <<>> \/ vals # <<>> THEN Stamped ELSE UNCHANGED told
      /\ UNCHANGED kind

\* apply_bulk_edit_plan with the plan for the array, its relocations as lists.
ApplyPlan(vals, removals, skipShrink) ==
  LET plan == Plan(size, Len(vals), removals)
      n    == plan.newSize
      keep == n < size /\ skipShrink
  IN  /\ Sound
      /\ n <= MaxSize
      /\ n <= Capacity \/ kind.factor # 0
      /\ cells' = Edited(plan, vals)
      /\ size' = IF keep THEN size ELSE n
      /\ cached' = IF keep THEN View ELSE [cap |-> Cardinality(DOMAIN cells'), len |-> n]
      /\ IF plan.from # <<>> \/ vals # <<>> \/ n >= size THEN Stamped ELSE UNCHANGED told
      /\ UNCHANGED kind

\* The materialization of the column by TransactionContext.commit; staged
\* means the transaction has an entry for additions, which may be empty.
Materialize(vals, removals, staged) ==
  LET plan == Plan(size, Len(vals), removals)
      n    == plan.newSize
  IN  /\ Sound
      /\ n <= MaxSize
      /\ kind.factor # 0
      /\ vals # <<>> => staged
      /\ cells' = Edited(plan, vals)
      /\ size' = n
      /\ cached' = IF n < size THEN NoView
                   ELSE IF n = size THEN View
                   ELSE [cap |-> Cardinality(DOMAIN cells'), len |-> n]
      /\ IF plan.from # <<>> \/ staged THEN Stamped ELSE UNCHANGED told
      /\ UNCHANGED kind

-----------------------------------------------------------------------------
Batches == UNION {[1 .. n -> Values] : n \in 0 .. MaxBatch}

\* Removal arguments of bulk_edit: indices counted from either end, and one
\* that is out of range.
Requests ==
  UNION {{S, {r - size : r \in S}, S \cup {size}} : S \in SUBSET (0 .. size - 1)}

Next ==
  \/ Look
  \/ \E i \in 0 .. size - 1, x \in Values : Write(i, x) \/ Accumulate(i, x)
  \/ \E x \in Values : AppendElement(x)
  \/ \E n \in 0 .. MaxSize, shrink \in BOOLEAN : EnsureSize(n, shrink)
  \/ \E i \in -size .. size - 1 : Remove(i)
  \/ \E i \in -size .. size - 1, j \in 0 .. size - 1 : Swap(i, j)
  \/ \E vals \in Batches, raw \in Requests : BulkEdit(vals, raw)
  \/ \E vals \in Batches, S \in SUBSET (0 .. size - 1), skip \in BOOLEAN :
       ApplyPlan(vals, S, skip)
  \/ \E vals \in Batches, S \in SUBSET (0 .. size - 1), staged \in BOOLEAN :
       Materialize(vals, S, staged)

Spec == Init /\ [][Next]_arrayVars

-----------------------------------------------------------------------------
(***************************************************************************)
(* Properties.                                                             *)
(***************************************************************************)
Views == [cap : Nat, len : Nat]

\* Type invariant.  The buffer is big enough for what is in use.
TypeOK ==
  /\ size \in Nat
  /\ Sound
  /\ cells \in [0 .. Capacity - 1 -> Values]
  /\ cached \in Views \cup {NoView}
  /\ told \in [seen : Seq(Values), stamped : BOOLEAN]
  /\ kind \in Kinds

\* What `view` returns is a slice of the buffer the array has now and as long
\* as its contents, whatever has been cached, reallocated or resized since: a
\* write through it cannot be lost.
ViewsCurrent == View = Slice

\* A row is, after an edit by a plan, where the arrays of the oracle say it is,
\* and where the oracle on sets (RemapOracle) says it is; the removed rows are
\* nowhere.  Keys and trackers go by the oracle, the data by the plan.
OracleFindsRows ==
  \A n \in 0 .. MaxBatch : \A removals \in SUBSET (0 .. size - 1) :
    LET plan == Plan(size, n, removals)
        vals == [k \in 1 .. n |-> <<k>>]
        rows == Edited(plan, vals)
        a    == OracleArrays(size, plan)
        o    == Oracle(size, n, removals)
    IN  plan.newSize <= MaxSize =>
          \A i \in 0 .. size + n :
            /\ ResolveInArrays(a, i) = Resolve(o, i)
            /\ i \in Live(size, n, removals) =>
                 rows[ResolveInArrays(a, i)] = IF i < size THEN cells[i] ELSE vals[i - size + 1]

\* While the time stamp of a column stays, what a consumer has seen of it is
\* still there: at most rows at the end are gone.  Counts are excepted.
ChangesAreStamped ==
  ~told.stamped /\ ~kind.counts =>
    /\ size <= Len(told.seen)
    /\ \A k \in 1 .. size : cells[k - 1] = told.seen[k]

\* While the time stamp stays, nothing has changed.
StampsTellAll == ~told.stamped => Contents = told.seen
=============================================================================
