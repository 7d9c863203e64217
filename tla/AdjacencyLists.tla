--------------------------- MODULE AdjacencyLists ---------------------------
(***************************************************************************)
(* The adjacency lists of a foreign key column, and the sparse patches a   *)
(* commit computes for them (edit_helpers.py, TopologyScratchpad).         *)
(*                                                                         *)
(* The rows of the source table that reference one target form a doubly    *)
(* linked list: head (a column of the target table) is its first row, nxt  *)
(* and prv (columns of the source table) link it.  A column group c is a   *)
(* record [fk, nxt, prv, head] of functions on row indices.                *)
(*                                                                         *)
(* A patch is a record [nxt, prv, head] of functions on the indices it     *)
(* writes, all in index values from before the commit; Translate maps it   *)
(* through the oracles.                                                    *)
(***************************************************************************)
EXTENDS RemapOracle, Sequences

(***************************************************************************)
(* Functions as sparse writes.                                             *)
(***************************************************************************)
\* The write Key(x) := Val(x) for every x in S.
Writes(S, Key(_), Val(_)) ==
  [i \in {Key(x) : x \in S} |-> Val(CHOOSE x \in S : Key(x) = i)]

\* The column col with the writes of w that hit one of its rows.
Overwrite(col, w) ==
  [i \in DOMAIN col |-> IF i \in DOMAIN w THEN w[i] ELSE col[i]]

\* Mutant: the earlier phase wins.
ThenKeep(w, v) ==
  [i \in DOMAIN w \cup DOMAIN v |-> IF i \in DOMAIN w THEN w[i] ELSE v[i]]

\* The writes of w followed by those of v: the later one of an index wins.
Then(w, v) ==
  [i \in DOMAIN w \cup DOMAIN v |-> IF i \in DOMAIN v THEN v[i] ELSE w[i]]

ThenPatch(p, q) ==
  [nxt  |-> Then(p.nxt, q.nxt),
   prv  |-> Then(p.prv, q.prv),
   head |-> Then(p.head, q.head)]

\* The entries of the sequence s at some of its places, in their order.
EntriesAt(s, places) == [i \in 1 .. Cardinality(places) |-> s[Nth(i - 1, places)]]

(***************************************************************************)
(* Walking a list.                                                         *)
(***************************************************************************)
\* The row k steps after h, Missing once the list has ended.
Node(nxt, h, k) ==
  LET n[i \in 0 .. k] ==
        IF i = 0 THEN h
        ELSE IF n[i - 1] \in DOMAIN nxt THEN nxt[n[i - 1]]
        ELSE Missing
  IN  n[k]

\* The rows among the first count ones of the list that starts at h.
Reached(nxt, h, count) ==
  {r \in DOMAIN nxt : \E k \in 0 .. count - 1 : Node(nxt, h, k) = r}

\* Mutant: the next row is taken to survive.
NextNeighbor(nxt, h, dead) == h

\* The first row of the list from h on that is not dead.
SurvivingNeighbor(nxt, h, dead) ==
  LET k == CHOOSE i \in 0 .. Cardinality(DOMAIN nxt) :
             /\ Node(nxt, h, i) \notin dead
             /\ \A j \in 0 .. i - 1 : Node(nxt, h, j) \in dead
  IN  Node(nxt, h, k)

(***************************************************************************)
(* The four phases of a patch.  A later phase overwrites an earlier one.   *)
(***************************************************************************)
\* Close the gap every run of dead (deleted, nulled, relinked) rows leaves.
\* The heads of the targets in ignore are written by a later phase.
PatchUnlinked(c, dead, ignore) ==
  LET starts   == {r \in dead : c.prv[r] \notin dead}
      after(r) == SurvivingNeighbor(c.nxt, c.nxt[r], dead)
      before(r) == c.prv[r]
      parent(r) == c.fk[r]
  IN  [nxt  |-> Writes({r \in starts : before(r) # Missing}, before, after),
       prv  |-> Writes({r \in starts : after(r) # Missing}, after, before),
       head |-> Writes({r \in starts : /\ before(r) = Missing
                                       /\ parent(r) # Missing
                                       /\ parent(r) \notin ignore
                                       /\ c.head[parent(r)] = r},
                       parent, after)]

\* Rewrite the pointers at every surviving row that moves: the value written
\* is the old index, which Translate turns into the new one.
PatchRelocated(c, moved, ignore) ==
  LET self(r) == r
      before(r) == c.prv[r]
      after(r)  == c.nxt[r]
      parent(r) == c.fk[r]
  IN  [nxt  |-> Writes({r \in moved : /\ before(r) # Missing
                                      /\ c.nxt[before(r)] = r}, before, self),
       prv  |-> Writes({r \in moved : /\ after(r) # Missing
                                      /\ c.prv[after(r)] = r}, after, self),
       head |-> Writes({r \in moved : /\ parent(r) # Missing
                                      /\ parent(r) \notin ignore
                                      /\ c.head[parent(r)] = r}, parent, self)]

\* Put the items, a sequence of [row, target], in front of the lists of their
\* targets, those of one target in their order; an item without a target is
\* isolated.  The list it is put before is the one the dead rows have left.
Splice(c, items, dead) ==
  LET I == DOMAIN items
      targets == {items[i].target : i \in I} \ {Missing}
      mates(i) == {j \in I : items[j].target = items[i].target}
      earlier(i) == {j \in mates(i) : j < i}
      later(i) == {j \in mates(i) : j > i}
      group(t) == {i \in I : items[i].target = t}
      first(t) == CHOOSE i \in group(t) : earlier(i) = {}
      last(t)  == CHOOSE i \in group(t) : later(i) = {}
      oldHead(t) == SurvivingNeighbor(
                      c.nxt, IF t \in DOMAIN c.head THEN c.head[t] ELSE Missing, dead)
      row(i) == items[i].row
      nextOf(i) ==
        CASE items[i].target = Missing -> Missing
          [] items[i].target # Missing /\ later(i) # {} ->
               row(CHOOSE j \in later(i) : \A k \in later(i) : j <= k)
          [] OTHER -> oldHead(items[i].target)
      prevOf(i) ==
        IF items[i].target = Missing \/ earlier(i) = {} THEN Missing
        ELSE row(CHOOSE j \in earlier(i) : \A k \in earlier(i) : j >= k)
      self(t) == t
      firstRow(t) == row(first(t))
      lastRow(t) == row(last(t))
  IN  [nxt  |-> Writes(I, row, nextOf),
       prv  |-> Then(Writes(I, row, prevOf),
                     Writes({t \in targets : oldHead(t) # Missing}, oldHead, lastRow)),
       head |-> Writes(targets, self, firstRow)]

(***************************************************************************)
(* Applying a patch.                                                       *)
(***************************************************************************)
\* Mutant: values are written as they were before the commit.
TranslateIndices(w, ko, vo) ==
  LET key(i) == Resolve(ko, i)
      val(i) == w[i]
  IN  Writes({i \in DOMAIN w : key(i) # Missing}, key, val)

\* Writes whose indices go through the oracle ko and whose values go through
\* vo; a write to a row that is gone is dropped.
TranslateWrites(w, ko, vo) ==
  LET key(i) == Resolve(ko, i)
      val(i) == Resolve(vo, w[i])
  IN  Writes({i \in DOMAIN w : key(i) # Missing}, key, val)

Translate(p, so, to) ==
  [nxt  |-> TranslateWrites(p.nxt, so, so),
   prv  |-> TranslateWrites(p.prv, so, so),
   head |-> TranslateWrites(p.head, to, so)]

\* Mutant: keys are not told that their target has moved.
KeepKeys(c, movedTo) == c

\* After the targets in movedTo have moved there, rewrite the keys of the rows
\* in their lists.
FixMovedTargets(c, movedTo) ==
  LET chain(t) == Reached(c.nxt, c.head[t], Cardinality(DOMAIN c.nxt))
      self(t) == t
      hits == {t \in movedTo : c.head[t] # Missing}
      owner(r) == {t \in hits : r \in chain(t)}
  IN  [c EXCEPT !.fk  = [r \in DOMAIN c.fk |->
                           IF owner(r) # {} THEN CHOOSE t \in owner(r) : TRUE
                                            ELSE c.fk[r]],
                !.prv = [r \in DOMAIN c.prv |->
                           IF \E t \in hits : c.head[t] = r THEN Missing
                                                            ELSE c.prv[r]]]
=============================================================================
