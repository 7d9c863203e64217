----------------------- MODULE PolymorphicKeys_proofs -----------------------
(***************************************************************************)
(* What holds of PolymorphicKeys for any number of target tables.          *)
(*                                                                         *)
(* The staged keys: a delete call does not look at the staged rows, it     *)
(* looks at the claims on its table; and an add call does not look at the  *)
(* deletions of other tables than the one its type names.  The invariant   *)
(* is therefore that the claims of each type cover the staged keys of that *)
(* type and stay apart from the deletions in the table of that type.       *)
(*                                                                         *)
(* The types: the invariant says besides TypeOK that the relinks are of    *)
(* different rows and what the columns hold, because a commit computes the *)
(* new columns from the old ones, the edits and the patches of the types.  *)
(*                                                                         *)
(* The lists: the rows of a type are the part of the table that its lists  *)
(* lead through, and for each type there is an order that makes this part  *)
(* Linked (ListsLinked).  A commit keeps that because                      *)
(*   - the patch of a type writes what it would write to its part alone,   *)
(*     which the generic lemmas about plain keys take on from there;       *)
(*   - the patches share nxt and prv, but of the writes to a row those of  *)
(*     the type it is to have come last (OwnTypesLast): the patch of its   *)
(*     old type writes to a retyped row only if a neighbour moves, and     *)
(*     then, by the last rule for callers, the new type is the later one;  *)
(*   - the keys of moved targets are fixed type by type along these lists, *)
(*     and a walk of one type meets no row of another.                     *)
(* A delete call finds the rows that reference a target by walking its     *)
(* list as far as its count says, so the counts and the closure of the     *)
(* deletions belong to the same invariant (Kept).                          *)
(***************************************************************************)
EXTENDS PolymorphicKeys, AdjacencyLists_proofs

\* What the transaction context consists of.
Fields == {"open", "calls", "staged", "additions", "added", "deleted", "gone",
           "unlinks", "claims", "relinks", "retypes", "keySet", "typeSet"}

ContextType ==
  /\ DOMAIN tx = Fields
  /\ DOMAIN tx.gone = Types /\ DOMAIN tx.claims = Types
  /\ \E S : tx.additions \in Seq(S)

\* The staged keys of a type are claims on its table.
ClaimsCover ==
  \A k \in DOMAIN tx.additions :
    tx.additions[k].type \in Types =>
      tx.additions[k].key \in tx.claims[tx.additions[k].type]

\* No claim is on a row marked for deletion.
ClaimsApart == \A ty \in Types : tx.claims[ty] \cap tx.gone[ty] = {}

ClaimsKept == ContextType /\ ClaimsCover /\ ClaimsApart

LEMMA FreshContext ==
  ASSUME tx = NoTx \/ tx = [NoTx EXCEPT !.open = TRUE]
  PROVE  ClaimsKept
<1>1. DOMAIN tx = Fields
  BY DEF NoTx, Fields
<1>2. tx.additions = <<>> /\ tx.gone = [ty \in Types |-> {}] /\ tx.claims = [ty \in Types |-> {}]
  <2>1. CASE tx = NoTx
    BY <2>1 DEF NoTx
  <2>2. CASE tx = [NoTx EXCEPT !.open = TRUE]
    <3>1. /\ tx.additions = NoTx.additions /\ tx.gone = NoTx.gone
          /\ tx.claims = NoTx.claims
      BY <2>2 DEF NoTx
    <3> QED
      BY <3>1 DEF NoTx
  <2> QED
    BY <2>1, <2>2
<1>3. tx.additions \in Seq({})
  BY <1>2
<1> QED
  BY <1>1, <1>2, <1>3 DEF ClaimsKept, ContextType, ClaimsCover, ClaimsApart

\* A change of anything but the staged rows, the claims and the deletions of
\* the targets.
LEMMA ClaimsUntouched ==
  ASSUME ClaimsKept, DOMAIN tx' = DOMAIN tx, tx'.additions = tx.additions,
         tx'.claims = tx.claims, tx'.gone = tx.gone
  PROVE  ClaimsKept'
BY DEF ClaimsKept, ContextType, ClaimsCover, ClaimsApart, Types

LEMMA RefuseKeeps ==
  ASSUME ClaimsKept, NEW reason, Refuse(reason)
  PROVE  ClaimsKept'
<1>1. /\ DOMAIN tx' = DOMAIN tx /\ tx'.additions = tx.additions
      /\ tx'.claims = tx.claims /\ tx'.gone = tx.gone
  BY DEF Refuse, ClaimsKept, ContextType, Fields
<1> QED
  BY <1>1, ClaimsUntouched

\* An add call claims the keys it stages, unless one of them is to go.
LEMMA AddKeeps ==
  ASSUME ClaimsKept, NEW n \in Nat, NEW newRows \in [1 .. n -> References],
         AddEntries(newRows)
  PROVE  ClaimsKept'
<1> DEFINE keysOf(ty) ==
             {newRows[i].key : i \in {j \in DOMAIN newRows : newRows[j].type = ty}}
<1>1. CASE tx' = [tx EXCEPT !.calls = @ + 1, !.staged = TRUE]
  <2>1. /\ DOMAIN tx' = DOMAIN tx /\ tx'.additions = tx.additions
        /\ tx'.claims = tx.claims /\ tx'.gone = tx.gone
    BY <1>1 DEF ClaimsKept, ContextType, Fields
  <2> QED
    BY <2>1, ClaimsUntouched
<1>2. CASE /\ ~(\E ty \in Types : keysOf(ty) \cap tx.gone[ty] # {})
           /\ tx' = [tx EXCEPT !.calls = @ + 1, !.staged = TRUE,
                       !.additions = @ \o newRows,
                       !.claims = [ty \in Types |-> @[ty] \cup keysOf(ty)]]
  <2>1. /\ DOMAIN tx' = Fields
        /\ tx'.additions = tx.additions \o newRows
        /\ tx'.claims = [ty \in Types |-> tx.claims[ty] \cup keysOf(ty)]
        /\ tx'.gone = tx.gone
    BY <1>2 DEF ClaimsKept, ContextType, Fields
  <2>2. PICK S : tx.additions \in Seq(S)
    BY DEF ClaimsKept, ContextType
  <2>3. newRows \in Seq(References) /\ Len(newRows) = n
    OBVIOUS
  <2> DEFINE U == S \cup References
  <2>4. tx.additions \in Seq(U) /\ newRows \in Seq(U)
    BY <2>2, <2>3
  <2> HIDE DEF U
  <2>5. ContextType'
    <3>1. tx'.additions \in Seq(U)
      BY <2>1, <2>4
    <3> QED
      BY <2>1, <3>1 DEF ClaimsKept, ContextType
  <2>6. ClaimsCover'
    <3> SUFFICES ASSUME NEW k \in DOMAIN tx'.additions, tx'.additions[k].type \in Types
                 PROVE  tx'.additions[k].key \in tx'.claims[tx'.additions[k].type]
      BY DEF ClaimsCover
    <3>1. k \in 1 .. Len(tx.additions) + n
      BY <2>1, <2>3, <2>4
    <3>2. CASE k \in 1 .. Len(tx.additions)
      <4>1. tx'.additions[k] = tx.additions[k] /\ k \in DOMAIN tx.additions
        BY <2>1, <2>4, <3>2
      <4> QED
        BY <2>1, <4>1 DEF ClaimsKept, ClaimsCover
    <3>3. CASE k \in Len(tx.additions) + 1 .. Len(tx.additions) + n
      <4> DEFINE i == k - Len(tx.additions)
      <4>1. i \in DOMAIN newRows /\ tx'.additions[k] = newRows[i]
        BY <2>1, <2>3, <2>4, <3>3
      <4>2. newRows[i].key \in keysOf(newRows[i].type)
        BY <4>1
      <4> QED
        BY <2>1, <4>1, <4>2
    <3> QED
      BY <2>4, <3>1, <3>2, <3>3
  <2>7. ClaimsApart'
    <3> SUFFICES ASSUME NEW ty \in Types PROVE tx'.claims[ty] \cap tx'.gone[ty] = {}
      BY DEF ClaimsApart, Types
    <3>1. tx.claims[ty] \cap tx.gone[ty] = {} /\ keysOf(ty) \cap tx.gone[ty] = {}
      BY <1>2 DEF ClaimsKept, ClaimsApart
    <3> QED
      BY <2>1, <3>1
  <2> QED
    BY <2>5, <2>6, <2>7 DEF ClaimsKept
<1> QED
  BY <1>1, <1>2 DEF AddEntries

\* A delete call marks no row that is claimed.
LEMMA DelTargetsKeeps ==
  ASSUME ClaimsKept, NEW ty \in Types, NEW ids, DelTargets(ty, ids)
  PROVE  ClaimsKept'
<1> DEFINE hit == (UNION {Referencing(ty, i) : i \in ids}) \ tx.deleted
<1>1. CASE \E reason : Refuse(reason)
  BY <1>1, RefuseKeeps
<1>2. CASE /\ tx.claims[ty] \cap ids = {}
           /\ tx' = [tx EXCEPT
                   !.calls = @ + 1,
                   !.gone[ty] = @ \cup ids,
                   !.deleted = IF OnDelete = "CASCADE" THEN @ \cup hit ELSE @,
                   !.unlinks = IF OnDelete = "SET_NULL" THEN @ \cup hit ELSE @]
  <2>1. /\ DOMAIN tx' = Fields
        /\ tx'.additions = tx.additions /\ tx'.claims = tx.claims
        /\ tx'.gone = [tx.gone EXCEPT ![ty] = @ \cup ids]
    BY <1>2 DEF ClaimsKept, ContextType, Fields
  <2>2. ContextType' /\ ClaimsCover'
    BY <2>1 DEF ClaimsKept, ContextType, ClaimsCover, Types
  <2>3. ClaimsApart'
    BY <1>2, <2>1 DEF ClaimsKept, ContextType, ClaimsApart, Types
  <2> QED
    BY <2>2, <2>3 DEF ClaimsKept
<1> QED
  BY <1>1, <1>2 DEF DelTargets

\* The other calls touch none of the three.
LEMMA OtherCallsKeep ==
  ASSUME ClaimsKept,
         \/ \E ty \in Types : \E n \in 1 .. MaxStaged : AddTargets(ty, n)
         \/ \E rows, keys, types : UpdateEntries(rows, keys, types)
         \/ \E ids : DelEntries(ids)
  PROVE  ClaimsKept'
<1>1. CASE \E reason : Refuse(reason)
  BY <1>1, RefuseKeeps
<1>2. CASE /\ DOMAIN tx' = DOMAIN tx /\ tx'.additions = tx.additions
           /\ tx'.claims = tx.claims /\ tx'.gone = tx.gone
  BY <1>2, ClaimsUntouched
<1> USE DEF ClaimsKept, ContextType, Fields
<1>3. ASSUME NEW ty \in Types, NEW n \in 1 .. MaxStaged, AddTargets(ty, n)
      PROVE  ClaimsKept'
  BY <1>2, <1>3 DEF AddTargets
<1>4. ASSUME NEW rows, NEW keys, NEW types, UpdateEntries(rows, keys, types)
      PROVE  ClaimsKept'
  BY <1>1, <1>2, <1>4 DEF UpdateEntries
<1>5. ASSUME NEW ids, DelEntries(ids)
      PROVE  ClaimsKept'
  BY <1>1, <1>2, <1>5 DEF DelEntries
<1> QED
  BY <1>3, <1>4, <1>5

\* Claims cover the keys of staged rows and avoid the deletions, type by type.
THEOREM ClaimsAreKept == Spec => []ClaimsKept
<1>1. Init => ClaimsKept
  BY FreshContext DEF Init
<1>2. ClaimsKept /\ [Next]_vars => ClaimsKept'
  <2> SUFFICES ASSUME ClaimsKept, [Next]_vars PROVE ClaimsKept'
    OBVIOUS
  <2>1. CASE Begin \/ Commit \/ CommitTorn \/ CommitRefused \/ Rollback
    <3>1. tx' = NoTx \/ tx' = [NoTx EXCEPT !.open = TRUE]
      BY <2>1 DEF Begin, Commit, CommitTorn, CommitRefused, Rollback
    <3>2. (tx = NoTx \/ tx = [NoTx EXCEPT !.open = TRUE] => ClaimsKept)'
      BY FreshContext, PTL
    <3>3. NoTx' = NoTx
      BY DEF NoTx, Types, NoRows
    <3> QED
      BY <3>1, <3>2, <3>3
  <2>2. CASE \E n \in 1 .. MaxStaged : \E rows \in [1 .. n -> References] : AddEntries(rows)
    BY <2>2, AddKeeps, BoundAssumption
  <2>3. CASE \E ty \in Types : \E n \in 1 .. MaxStaged : AddTargets(ty, n)
    BY <2>3, OtherCallsKeep
  <2>4. CASE UpdateKeys
    <3>1. \E rows, keys, types : UpdateEntries(rows, keys, types)
      BY <2>4 DEF UpdateKeys
    <3> QED
      BY <3>1, OtherCallsKeep
  <2>5. CASE \E ty \in Types :
               \E ids \in Named(db.size[ty] + tx.added[ty]) : DelTargets(ty, ids)
    BY <2>5, DelTargetsKeeps
  <2>6. CASE \E ids \in Named(db.len + Len(tx.additions)) : DelEntries(ids)
    BY <2>6, OtherCallsKeep
  <2>7. CASE UNCHANGED vars
    BY <2>7, ClaimsUntouched DEF vars
  <2> QED
    BY <2>1, <2>2, <2>3, <2>4, <2>5, <2>6, <2>7 DEF Next
<1> QED
  BY <1>1, <1>2, PTL DEF Spec

\* No staged row references a row marked for deletion in the table its type
\* names, in any order of calls and for any number of types.
THEOREM StagedKeysAreLive == Spec => []StagedKeysLive
<1>1. ClaimsKept => StagedKeysLive
  BY DEF ClaimsKept, ClaimsCover, ClaimsApart, StagedKeysLive
<1> QED
  BY <1>1, ClaimsAreKept, PTL

(***************************************************************************)
(* Types.                                                                  *)
(***************************************************************************)
StoreFields == {"len", "size", "key", "type", "nxt", "prv", "head", "cnt", "torn"}

\* What a row is of: one of the targets, or nothing.
RowTypes == Types \cup {NoType}

\* The tables and their columns.
StoreTyped ==
  /\ DOMAIN db = StoreFields
  /\ db.len \in 0 .. MaxRows
  /\ \A ty \in Types : db.size[ty] \in 0 .. MaxTargets[ty]
  /\ DOMAIN db.key = Rows /\ DOMAIN db.type = Rows
  /\ DOMAIN db.nxt = Rows /\ DOMAIN db.prv = Rows
  /\ \A ty \in Types : DOMAIN db.head[ty] = TargetRows(ty) /\ DOMAIN db.cnt[ty] = TargetRows(ty)
  /\ \A r \in Rows : db.type[r] \in RowTypes

\* Staged rows: not more than the commit has place for.
AdditionsTyped ==
  /\ Len(tx.additions) <= MaxStaged
  /\ \A k \in DOMAIN tx.additions : tx.additions[k].type \in RowTypes
  /\ db.len + Len(tx.additions) <= MaxRows + Cardinality(tx.deleted)
  /\ DOMAIN tx.added = Types
  /\ \A ty \in Types :
       /\ tx.added[ty] \in 0 .. MaxStaged
       /\ db.size[ty] + tx.added[ty] <= MaxTargets[ty] + Cardinality(tx.gone[ty])

DeletionsTyped ==
  /\ tx.deleted \subseteq Rows /\ tx.unlinks \subseteq Rows
  /\ \A ty \in Types : tx.gone[ty] \subseteq TargetRows(ty)

\* A relinked row has one entry and a type.
RelinksTyped ==
  /\ \E V : tx.relinks \in Seq([row : Nat, target : V])
  /\ \A i, j \in DOMAIN tx.relinks : tx.relinks[i].row = tx.relinks[j].row => i = j
  /\ Relinked \subseteq Rows
  /\ Relinked = DOMAIN tx.retypes
  /\ \A r \in DOMAIN tx.retypes : tx.retypes[r] \in RowTypes
  /\ tx.keySet \cup tx.typeSet = Relinked

EditsTyped == ContextType /\ AdditionsTyped /\ DeletionsTyped /\ RelinksTyped

WellTyped == StoreTyped /\ EditsTyped

LEMMA WellTypedIsTypeOK == WellTyped => TypeOK
BY DEF WellTyped, StoreTyped, EditsTyped, AdditionsTyped, DeletionsTyped, RelinksTyped, TypeOK,
       RowTypes

\* What is staged is within what the oracles can number.
LEMMA Sizes ==
  ASSUME WellTyped
  PROVE  /\ db.len \in Nat /\ Len(tx.additions) \in Nat
         /\ tx.deleted \in SUBSET (0 .. db.len - 1)
         /\ db.len + Len(tx.additions) <= Missing
         /\ DOMAIN tx.additions = 1 .. Len(tx.additions)
         /\ Rows \subseteq Nat /\ IsFiniteSet(Rows)
         /\ \A ty \in Types :
              /\ db.size[ty] \in Nat /\ tx.added[ty] \in Nat
              /\ tx.gone[ty] \in SUBSET (0 .. db.size[ty] - 1)
              /\ db.size[ty] + tx.added[ty] <= Missing
<1>1. /\ MaxRows \in Nat /\ MaxStaged \in Nat /\ MaxRows + MaxStaged <= Missing
      /\ \A ty \in Types : MaxTargets[ty] \in Nat /\ MaxTargets[ty] + MaxStaged <= Missing
      /\ Missing \in Nat
  BY BoundAssumption, MissingIsNat
<1>2. PICK S : tx.additions \in Seq(S)
  BY DEF WellTyped, EditsTyped, ContextType
<1>3. Len(tx.additions) \in Nat /\ DOMAIN tx.additions = 1 .. Len(tx.additions)
  BY <1>2
<1>4. db.len \in 0 .. MaxRows /\ Len(tx.additions) <= MaxStaged
  BY DEF WellTyped, EditsTyped, StoreTyped, AdditionsTyped
<1>5. tx.deleted \subseteq Rows /\ \A ty \in Types : tx.gone[ty] \subseteq TargetRows(ty)
  BY DEF WellTyped, EditsTyped, DeletionsTyped
<1>6. Rows \subseteq Nat /\ IsFiniteSet(Rows)
  <2>1. 0 \in Int /\ db.len - 1 \in Int
    BY <1>4
  <2> QED
    BY <2>1, FS_Interval DEF Rows
<1>7. ASSUME NEW ty \in Types
      PROVE  /\ db.size[ty] \in Nat /\ tx.added[ty] \in Nat
             /\ db.size[ty] + tx.added[ty] <= Missing
  <2>1. db.size[ty] \in 0 .. MaxTargets[ty] /\ tx.added[ty] \in 0 .. MaxStaged
    BY DEF WellTyped, EditsTyped, StoreTyped, AdditionsTyped
  <2>2. MaxTargets[ty] \in Nat /\ MaxTargets[ty] + MaxStaged <= Missing
    BY <1>1
  <2> QED
    BY <1>1, <2>1, <2>2
<1> QED
  BY <1>1, <1>3, <1>4, <1>5, <1>6, <1>7 DEF Rows, TargetRows

\* Nothing is staged.
LEMMA NothingStagedTyped ==
  ASSUME StoreTyped, tx = NoTx \/ tx = [NoTx EXCEPT !.open = TRUE]
  PROVE  EditsTyped
<1>1. ContextType
  BY FreshContext DEF ClaimsKept
<1>2. /\ tx.additions = <<>> /\ tx.added = [ty \in Types |-> 0] /\ tx.deleted = {}
      /\ tx.gone = [ty \in Types |-> {}] /\ tx.unlinks = {} /\ tx.relinks = <<>>
      /\ tx.retypes = NoRows /\ tx.keySet = {} /\ tx.typeSet = {}
  <2>1. CASE tx = NoTx
    BY <2>1 DEF NoTx
  <2>2. CASE tx = [NoTx EXCEPT !.open = TRUE]
    <3>1. /\ tx.additions = NoTx.additions /\ tx.added = NoTx.added
          /\ tx.deleted = NoTx.deleted /\ tx.gone = NoTx.gone /\ tx.unlinks = NoTx.unlinks
          /\ tx.relinks = NoTx.relinks /\ tx.retypes = NoTx.retypes
          /\ tx.keySet = NoTx.keySet /\ tx.typeSet = NoTx.typeSet
      BY <2>2 DEF NoTx
    <3> QED
      BY <3>1 DEF NoTx
  <2> QED
    BY <2>1, <2>2
<1>3. AdditionsTyped
  <2>1. Len(<<>>) = 0 /\ DOMAIN tx.additions = {} /\ Cardinality({}) = 0
    BY <1>2, FS_EmptySet
  <2>2. /\ db.len + 0 <= MaxRows + 0 /\ 0 <= MaxStaged /\ 0 \in 0 .. MaxStaged
        /\ \A ty \in Types : db.size[ty] + 0 <= MaxTargets[ty] + 0
    BY BoundAssumption DEF StoreTyped
  <2> QED
    BY <1>2, <2>1, <2>2 DEF AdditionsTyped
<1>4. DeletionsTyped
  BY <1>2 DEF DeletionsTyped
<1>5. RelinksTyped
  <2>1. tx.relinks \in Seq([row : Nat, target : {}]) /\ DOMAIN tx.relinks = {}
    BY <1>2
  <2>2. Relinked = {} /\ DOMAIN tx.retypes = {}
    BY <1>2, <2>1 DEF Relinked, NoRows
  <2>3. \E V : tx.relinks \in Seq([row : Nat, target : V])
    BY <2>1
  <2> QED
    BY <1>2, <2>1, <2>2, <2>3 DEF RelinksTyped
<1> QED
  BY <1>1, <1>3, <1>4, <1>5 DEF EditsTyped

\* The tables start empty.
LEMMA InitTyped == Init => WellTyped
<1> SUFFICES ASSUME Init PROVE WellTyped
  OBVIOUS
<1>1. Rows = {} /\ \A ty \in Types : TargetRows(ty) = {}
  BY DEF Init, Rows, TargetRows
<1>2. StoreTyped
  <2>1. DOMAIN db = StoreFields
    BY DEF Init, StoreFields
  <2>2. db.len \in 0 .. MaxRows /\ \A ty \in Types : db.size[ty] \in 0 .. MaxTargets[ty]
    BY BoundAssumption DEF Init
  <2>3. DOMAIN NoRows = {}
    BY DEF NoRows
  <2> QED
    BY <1>1, <2>1, <2>2, <2>3 DEF Init, StoreTyped
<1>3. EditsTyped
  BY <1>2, NothingStagedTyped DEF Init
<1> QED
  BY <1>2, <1>3 DEF WellTyped

\* The tables are as they were.
LEMMA StoreUntouched ==
  ASSUME StoreTyped, db' = db
  PROVE  /\ StoreTyped' /\ Rows' = Rows
         /\ \A ty \in Types : TargetRows(ty)' = TargetRows(ty)
<1>1. Rows' = Rows /\ \A ty \in Types : TargetRows(ty)' = TargetRows(ty)
  BY DEF Rows, TargetRows
<1> QED
  BY <1>1 DEF StoreTyped, TargetRows, Types, RowTypes, NoType

\* Rows staged or not, the relinks are as they were.
LEMMA RelinksUntouched ==
  ASSUME WellTyped, db' = db, tx'.relinks = tx.relinks, tx'.retypes = tx.retypes,
         tx'.keySet = tx.keySet, tx'.typeSet = tx.typeSet
  PROVE  RelinksTyped'
<1>1. Rows' = Rows /\ Relinked' = Relinked /\ RowTypes' = RowTypes
  BY DEF Rows, Relinked, RowTypes, Types, NoType
<1>2. RelinksTyped
  BY DEF WellTyped, EditsTyped
<1> QED
  BY <1>1, <1>2 DEF RelinksTyped

LEMMA AdditionsUntouched ==
  ASSUME WellTyped, db' = db, tx'.additions = tx.additions, tx'.added = tx.added,
         tx'.deleted = tx.deleted, tx'.gone = tx.gone
  PROVE  AdditionsTyped'
<1>1. AdditionsTyped
  BY DEF WellTyped, EditsTyped
<1> QED
  BY <1>1 DEF AdditionsTyped, RowTypes, Types, NoType

LEMMA DeletionsUntouched ==
  ASSUME WellTyped, db' = db, tx'.deleted = tx.deleted, tx'.gone = tx.gone,
         tx'.unlinks = tx.unlinks
  PROVE  DeletionsTyped'
<1>1. DeletionsTyped
  BY DEF WellTyped, EditsTyped
<1> QED
  BY <1>1 DEF DeletionsTyped, Rows, TargetRows, Types

\* A call that stages nothing.
LEMMA NothingStagedByCall ==
  ASSUME WellTyped, db' = db,
         tx' = [tx EXCEPT !.calls = @ + 1]
           \/ tx' = [tx EXCEPT !.calls = @ + 1, !.staged = TRUE]
           \/ tx' = tx
  PROVE  WellTyped'
<1>1. /\ DOMAIN tx' = DOMAIN tx /\ tx'.additions = tx.additions /\ tx'.added = tx.added
      /\ tx'.deleted = tx.deleted /\ tx'.gone = tx.gone /\ tx'.unlinks = tx.unlinks
      /\ tx'.claims = tx.claims /\ tx'.relinks = tx.relinks /\ tx'.retypes = tx.retypes
      /\ tx'.keySet = tx.keySet /\ tx'.typeSet = tx.typeSet
  BY DEF WellTyped, EditsTyped, ContextType, Fields
<1>2. ContextType'
  BY <1>1 DEF WellTyped, EditsTyped, ContextType, Types
<1>3. StoreTyped'
  BY StoreUntouched DEF WellTyped
<1> QED
  BY <1>1, <1>2, <1>3, AdditionsUntouched, DeletionsUntouched, RelinksUntouched
     DEF WellTyped, EditsTyped

\* Staging rows of the table.
LEMMA AddTyped ==
  ASSUME WellTyped, NEW n \in Nat, NEW newRows \in [1 .. n -> References],
         AddEntries(newRows)
  PROVE  WellTyped'
<1> DEFINE keysOf(ty) ==
             {newRows[i].key : i \in {j \in DOMAIN newRows : newRows[j].type = ty}}
<1>1. CASE tx' = [tx EXCEPT !.calls = @ + 1, !.staged = TRUE]
  BY <1>1, NothingStagedByCall DEF AddEntries
<1>2. CASE tx' = [tx EXCEPT !.calls = @ + 1, !.staged = TRUE,
                    !.additions = @ \o newRows,
                    !.claims = [ty \in Types |-> @[ty] \cup keysOf(ty)]]
  <2>1. /\ DOMAIN tx' = Fields
        /\ tx'.additions = tx.additions \o newRows
        /\ tx'.claims = [ty \in Types |-> tx.claims[ty] \cup keysOf(ty)]
        /\ tx'.added = tx.added /\ tx'.deleted = tx.deleted /\ tx'.gone = tx.gone
        /\ tx'.unlinks = tx.unlinks /\ tx'.relinks = tx.relinks
        /\ tx'.retypes = tx.retypes /\ tx'.keySet = tx.keySet /\ tx'.typeSet = tx.typeSet
    BY <1>2 DEF WellTyped, EditsTyped, ContextType, Fields
  <2>2. PICK S : tx.additions \in Seq(S)
    BY DEF WellTyped, EditsTyped, ContextType
  <2> DEFINE U == S \cup References
  <2>3. tx.additions \in Seq(U) /\ newRows \in Seq(U) /\ Len(newRows) = n
    BY <2>2
  <2> HIDE DEF U
  <2>4. ContextType'
    <3>1. tx'.additions \in Seq(U)
      BY <2>1, <2>3
    <3> QED
      BY <2>1, <3>1 DEF WellTyped, EditsTyped, ContextType, Types
  <2>5. \A i \in 1 .. n : newRows[i].type \in RowTypes
    <3>1. \A ref \in References : ref.type \in RowTypes
      BY DEF References, RowTypes
    <3> QED
      BY <3>1
  <2>6. /\ Len(tx'.additions) = Len(tx.additions) + n
        /\ DOMAIN tx'.additions = 1 .. Len(tx.additions) + n
        /\ \A k \in 1 .. Len(tx.additions) + n : tx'.additions[k].type \in RowTypes
    <3>1. /\ Len(tx.additions) \in Nat /\ Len(tx'.additions) = Len(tx.additions) + n
          /\ DOMAIN tx'.additions = 1 .. Len(tx.additions) + n
          /\ DOMAIN tx.additions = 1 .. Len(tx.additions)
          /\ \A k \in 1 .. Len(tx.additions) + n :
               tx'.additions[k] = IF k <= Len(tx.additions) THEN tx.additions[k]
                                  ELSE newRows[k - Len(tx.additions)]
      <4> DEFINE a == tx.additions
                 w == tx'.additions
      <4>1. w = a \o newRows /\ a \in Seq(U) /\ newRows \in Seq(U) /\ Len(newRows) = n
        BY <2>1, <2>3
      <4> HIDE DEF a, w
      <4>2. /\ Follow(a, Len(a), newRows, n, w) /\ n \in Nat
            /\ Len(a) \in Nat /\ Len(w) = Len(a) + n
        BY ONLY <4>1, SeqsFollow
      <4>3. /\ DOMAIN a = 1 .. Len(a) /\ DOMAIN w = 1 .. Len(a) + n
            /\ \A k \in 1 .. Len(a) + n : w[k] = IF k <= Len(a) THEN a[k] ELSE newRows[k - Len(a)]
        BY ONLY <4>2, FollowPlaces
      <4> QED
        BY <4>2, <4>3 DEF a, w
    <3>2. \A k \in DOMAIN tx.additions : tx.additions[k].type \in RowTypes
      BY DEF WellTyped, EditsTyped, AdditionsTyped
    <3>3. ASSUME NEW k \in 1 .. Len(tx.additions) + n
          PROVE  tx'.additions[k].type \in RowTypes
      <4>1. CASE k <= Len(tx.additions)
        <5>1. k \in DOMAIN tx.additions /\ tx'.additions[k] = tx.additions[k]
          BY <3>1, <4>1
        <5> QED
          BY <3>2, <5>1
      <4>2. CASE ~(k <= Len(tx.additions))
        <5>1. k - Len(tx.additions) \in 1 .. n
          BY <3>1, <4>2
        <5> QED
          BY <2>5, <3>1, <4>2, <5>1
      <4> QED
        BY <4>1, <4>2
    <3> QED
      BY <3>1, <3>3
  <2>7. AdditionsTyped'
    <3>1. AdditionsTyped
      BY DEF WellTyped, EditsTyped
    <3>2. /\ Len(tx.additions) + Len(newRows) <= MaxStaged
          /\ db.len + Len(tx.additions) + Len(newRows) <= MaxRows + Cardinality(tx.deleted)
          /\ db' = db
      BY DEF AddEntries
    <3>3. RowTypes' = RowTypes /\ Types' = Types
      BY DEF RowTypes, Types, NoType
    <3>4. db.len \in Nat /\ Len(tx.additions) \in Nat
      BY Sizes
    <3>5. db.len + (Len(tx.additions) + n) <= MaxRows + Cardinality(tx.deleted)
      BY <2>3, <3>2, <3>4
    <3> QED
      BY <2>1, <2>3, <2>6, <3>1, <3>2, <3>3, <3>5 DEF AdditionsTyped
  <2>8. StoreTyped'
    BY StoreUntouched DEF WellTyped, AddEntries
  <2>9. DeletionsTyped' /\ RelinksTyped'
    BY <2>1, DeletionsUntouched, RelinksUntouched DEF AddEntries
  <2> QED
    BY <2>4, <2>7, <2>8, <2>9 DEF WellTyped, EditsTyped
<1> QED
  BY <1>1, <1>2 DEF AddEntries

\* Staging rows of a target.
LEMMA AddTargetsTyped ==
  ASSUME WellTyped, NEW ty \in Types, NEW n \in 1 .. MaxStaged, AddTargets(ty, n)
  PROVE  WellTyped'
<1>1. /\ DOMAIN tx' = Fields
      /\ tx'.added = [tx.added EXCEPT ![ty] = @ + n]
      /\ tx'.additions = tx.additions /\ tx'.claims = tx.claims
      /\ tx'.deleted = tx.deleted /\ tx'.gone = tx.gone
      /\ tx'.unlinks = tx.unlinks /\ tx'.relinks = tx.relinks
      /\ tx'.retypes = tx.retypes /\ tx'.keySet = tx.keySet /\ tx'.typeSet = tx.typeSet
      /\ db' = db
  BY DEF AddTargets, WellTyped, EditsTyped, ContextType, Fields
<1>2. AdditionsTyped'
  <2>1. AdditionsTyped
    BY DEF WellTyped, EditsTyped
  <2>2. /\ tx.added[ty] + n <= MaxStaged
        /\ db.size[ty] + tx.added[ty] + n <= MaxTargets[ty] + Cardinality(tx.gone[ty])
    BY DEF AddTargets
  <2>3. RowTypes' = RowTypes /\ Types' = Types
    BY DEF RowTypes, Types, NoType
  <2>4. db.size[ty] \in Nat /\ tx.added[ty] \in Nat /\ MaxStaged \in Nat
    BY Sizes, BoundAssumption
  <2>5. /\ tx.added[ty] + n \in 0 .. MaxStaged
        /\ db.size[ty] + (tx.added[ty] + n) <= MaxTargets[ty] + Cardinality(tx.gone[ty])
    BY <2>2, <2>4
  <2>6. DOMAIN tx'.added = Types /\ tx'.added[ty] = tx.added[ty] + n
    BY <1>1, <2>1 DEF AdditionsTyped
  <2>7. ASSUME NEW u \in Types
        PROVE  /\ tx'.added[u] \in 0 .. MaxStaged
               /\ db.size[u] + tx'.added[u] <= MaxTargets[u] + Cardinality(tx.gone[u])
    <3>1. CASE u = ty
      BY <2>5, <2>6, <3>1
    <3>2. CASE u # ty
      BY <1>1, <2>1, <3>2 DEF AdditionsTyped
    <3> QED
      BY <3>1, <3>2
  <2> QED
    BY <1>1, <2>1, <2>3, <2>6, <2>7 DEF AdditionsTyped
<1>3. ContextType'
  BY <1>1 DEF WellTyped, EditsTyped, ContextType, Types
<1>4. StoreTyped'
  BY <1>1, StoreUntouched DEF WellTyped
<1> QED
  BY <1>1, <1>2, <1>3, <1>4, DeletionsUntouched, RelinksUntouched DEF WellTyped, EditsTyped

(***************************************************************************)
(* Relinks.                                                                *)
(***************************************************************************)
RowsIn(s) == {s[i].row : i \in DOMAIN s}

DifferentRows(s) == \A i, j \in DOMAIN s : s[i].row = s[j].row => i = j

\* WithRelinks with the targets as a function of the rows in changed.
Regiven(relinks, changed, f) ==
  LET new == changed \ RowsIn(relinks)
  IN  [i \in DOMAIN relinks |->
         IF relinks[i].row \in changed
           THEN [relinks[i] EXCEPT !.target = f[relinks[i].row]]
           ELSE relinks[i]]
      \o [i \in 1 .. Cardinality(new) |-> [row |-> Nth(i - 1, new), target |-> f[Nth(i - 1, new)]]]

\* The rows of changed have the targets of f, those of the others are old.
AreRegiven(old, changed, f, new) ==
  /\ \E V : new \in Seq([row : Nat, target : V])
  /\ DifferentRows(new)
  /\ RowsIn(new) = RowsIn(old) \cup changed
  /\ \A i \in DOMAIN new :
       IF new[i].row \in changed THEN new[i].target = f[new[i].row]
       ELSE \E j \in DOMAIN old : new[i] = old[j]

\* A row keeps its place, and the rows that had none come last.
LEMMA RegivenAre ==
  ASSUME NEW V, NEW old \in Seq([row : Nat, target : V]), DifferentRows(old),
         NEW changed \in SUBSET Nat, IsFiniteSet(changed), NEW f
  PROVE  AreRegiven(old, changed, f, Regiven(old, changed, f))
<1> DEFINE S == changed \ RowsIn(old)
           W == V \cup {f[r] : r \in changed}
           R == [row : Nat, target : W]
           a == [i \in DOMAIN old |->
                   IF old[i].row \in changed
                     THEN [old[i] EXCEPT !.target = f[old[i].row]]
                     ELSE old[i]]
           b == [i \in 1 .. Cardinality(S) |-> [row |-> Nth(i - 1, S), target |-> f[Nth(i - 1, S)]]]
           ab == a \o b
<1>1. /\ S \in SUBSET Int /\ IsFiniteSet(S) /\ S \subseteq changed /\ S \subseteq Nat
      /\ S \cap RowsIn(old) = {}
  <2>1. S \subseteq changed
    OBVIOUS
  <2>2. IsFiniteSet(S)
    BY <2>1, FS_Subset
  <2>3. S \in SUBSET Int /\ S \subseteq Nat
    <3> HIDE DEF S
    <3> QED
      BY <2>1
  <2>4. S \cap RowsIn(old) = {}
    OBVIOUS
  <2> QED
    BY <2>1, <2>2, <2>3, <2>4
<1>2. /\ Cardinality(S) \in Nat
      /\ \A i \in 1 .. Cardinality(S) : Nth(i - 1, S) \in S
      /\ \A i, j \in 1 .. Cardinality(S) : Nth(i - 1, S) = Nth(j - 1, S) => i = j
      /\ \A x \in S : \E i \in 1 .. Cardinality(S) : Nth(i - 1, S) = x
  <2> HIDE DEF S
  <2> QED
    BY ONLY <1>1, SortedRows
<1>3. /\ Len(old) \in Nat /\ DOMAIN old = 1 .. Len(old) /\ DOMAIN a = 1 .. Len(old)
      /\ \A i \in DOMAIN old : /\ old[i].row \in Nat /\ old[i].target \in V
                               /\ old[i] = [row |-> old[i].row, target |-> old[i].target]
  <2>1. Len(old) \in Nat /\ DOMAIN old = 1 .. Len(old)
    OBVIOUS
  <2>2. \A i \in DOMAIN old : old[i] \in [row : Nat, target : V]
    <3> DEFINE Q == [row : Nat, target : V]
    <3>1. old \in Seq(Q)
      OBVIOUS
    <3> HIDE DEF Q
    <3>2. \A i \in DOMAIN old : old[i] \in Q
      BY ONLY <3>1
    <3> QED
      BY <3>2 DEF Q
  <2> QED
    BY <2>1, <2>2
<1>4. \A i \in DOMAIN old :
        /\ a[i].row = old[i].row /\ a[i] \in R
        /\ IF old[i].row \in changed THEN a[i].target = f[old[i].row] ELSE a[i] = old[i]
  <2> SUFFICES ASSUME NEW i \in DOMAIN old
               PROVE  /\ a[i].row = old[i].row /\ a[i] \in R
                      /\ IF old[i].row \in changed THEN a[i].target = f[old[i].row]
                                                   ELSE a[i] = old[i]
    BY <1>3
  <2>1. CASE old[i].row \in changed
    <3>1. a[i] = [row |-> old[i].row, target |-> f[old[i].row]]
      BY <1>3, <2>1
    <3> QED
      BY <1>3, <2>1, <3>1
  <2>2. CASE old[i].row \notin changed
    BY <1>3, <2>2
  <2> QED
    BY <2>1, <2>2
<1>5. a \in Seq(R) /\ Len(a) = Len(old)
  <2>1. a \in [1 .. Len(old) -> R]
    BY <1>3, <1>4
  <2> QED
    BY <1>3, <2>1
<1>6. /\ \A i \in 1 .. Cardinality(S) : b[i].row = Nth(i - 1, S) /\ b[i].target = f[b[i].row]
      /\ b \in Seq(R) /\ Len(b) = Cardinality(S)
  <2>1. \A i \in 1 .. Cardinality(S) :
          b[i].row = Nth(i - 1, S) /\ b[i].target = f[b[i].row] /\ b[i] \in R
    <3> SUFFICES ASSUME NEW i \in 1 .. Cardinality(S)
                 PROVE  b[i].row = Nth(i - 1, S) /\ b[i].target = f[b[i].row] /\ b[i] \in R
      OBVIOUS
    <3>1. b[i] = [row |-> Nth(i - 1, S), target |-> f[Nth(i - 1, S)]]
      OBVIOUS
    <3>2. Nth(i - 1, S) \in Nat /\ f[Nth(i - 1, S)] \in W
      BY <1>1, <1>2
    <3> QED
      BY <3>1, <3>2
  <2>2. b \in [1 .. Cardinality(S) -> R]
    BY <2>1
  <2>3. b \in Seq(R) /\ Len(b) = Cardinality(S)
    <3> HIDE DEF b, R, S
    <3> QED
      BY <1>2, <2>2
  <2> QED
    BY <2>1, <2>3
<1>7. Regiven(old, changed, f) = ab
  BY DEF Regiven
<1> DEFINE n == Len(old)
           m == Cardinality(S)
<1>8. /\ ab \in Seq(R) /\ DOMAIN ab = 1 .. n + m
      /\ \A i \in 1 .. n + m : ab[i] = IF i <= n THEN a[i] ELSE b[i - n]
  <2> HIDE DEF R, a, b
  <2>1. Follow(a, n, b, m, ab) /\ ab \in Seq(R)
    BY <1>5, <1>6, SeqsFollow
  <2> HIDE DEF n, m, ab
  <2>2. n \in Nat /\ m \in Nat
    BY <1>2, <1>3 DEF n, m
  <2> QED
    BY ONLY <2>1, <2>2, FollowPlaces
<1> HIDE DEF a, b, ab, R, S
<1>14. \A i \in 1 .. m : /\ b[i].row \in changed /\ b[i].row \notin RowsIn(old)
                         /\ b[i].target = f[b[i].row]
  <2>1. \A i \in 1 .. m : b[i].row \in S /\ b[i].target = f[b[i].row]
    BY ONLY <1>2, <1>6
  <2> QED
    BY <1>1, <2>1
<1>15. \A i, j \in 1 .. m : b[i].row = b[j].row => i = j
  <2> SUFFICES ASSUME NEW i \in 1 .. m, NEW j \in 1 .. m, b[i].row = b[j].row
               PROVE  i = j
    OBVIOUS
  <2>1. b[i].row = Nth(i - 1, S) /\ b[j].row = Nth(j - 1, S)
    BY <1>6
  <2> QED
    BY <1>2, <2>1
\* Every place of the result is one of the old or one of the new.
<1>9. \A i \in 1 .. n + m :
        \/ i \in 1 .. n /\ ab[i] = a[i]
        \/ i - n \in 1 .. m /\ ~(i <= n) /\ ab[i] = b[i - n]
  BY <1>2, <1>3, <1>8
<1>10. DifferentRows(ab)
  <2> SUFFICES ASSUME NEW i \in 1 .. n + m, NEW j \in 1 .. n + m, ab[i].row = ab[j].row
               PROVE  i = j
    BY <1>8 DEF DifferentRows
  <2>0. \A k \in 1 .. n : old[k].row \in RowsIn(old)
    BY <1>3 DEF RowsIn
  <2>1. CASE i \in 1 .. n /\ ab[i] = a[i] /\ j \in 1 .. n /\ ab[j] = a[j]
    <3>1. i \in DOMAIN old /\ j \in DOMAIN old
      BY <1>3, <2>1
    <3>2. ab[i].row = old[i].row /\ ab[j].row = old[j].row
      BY <1>4, <2>1
    <3> QED
      BY <3>1, <3>2 DEF DifferentRows
  <2>2. CASE i \in 1 .. n /\ ab[i] = a[i] /\ j - n \in 1 .. m /\ ab[j] = b[j - n]
    <3>1. ab[i].row = old[i].row /\ old[i].row \in RowsIn(old)
      BY <1>4, <2>0, <2>2
    <3>2. ab[j].row \notin RowsIn(old)
      BY <1>14, <2>2
    <3> QED
      BY <3>1, <3>2
  <2>3. CASE j \in 1 .. n /\ ab[j] = a[j] /\ i - n \in 1 .. m /\ ab[i] = b[i - n]
    <3>1. ab[j].row = old[j].row /\ old[j].row \in RowsIn(old)
      BY <1>4, <2>0, <2>3
    <3>2. ab[i].row \notin RowsIn(old)
      BY <1>14, <2>3
    <3> QED
      BY <3>1, <3>2
  <2>4. CASE i - n \in 1 .. m /\ ab[i] = b[i - n] /\ j - n \in 1 .. m /\ ab[j] = b[j - n]
    <3>1. i - n = j - n
      BY <1>15, <2>4
    <3> QED
      BY <1>2, <1>3, <3>1
  <2> QED
    BY <1>9, <2>1, <2>2, <2>3, <2>4
<1>11. RowsIn(ab) = RowsIn(old) \cup changed
  <2>1. ASSUME NEW i \in DOMAIN ab PROVE ab[i].row \in RowsIn(old) \cup changed
    <3>1. i \in 1 .. n + m
      BY <1>8
    <3>2. CASE i \in 1 .. n /\ ab[i] = a[i]
      BY <1>3, <1>4, <3>2 DEF RowsIn
    <3>3. CASE i - n \in 1 .. m /\ ab[i] = b[i - n]
      BY <1>14, <3>3
    <3> QED
      BY <1>9, <3>1, <3>2, <3>3
  <2>2. ASSUME NEW r \in RowsIn(old) PROVE \E i \in DOMAIN ab : ab[i].row = r
    <3>1. PICK i \in DOMAIN old : old[i].row = r
      BY DEF RowsIn
    <3>2. i \in 1 .. n + m /\ i <= n
      BY <1>2, <1>3, <3>1
    <3> QED
      BY <1>3, <1>4, <1>8, <3>1, <3>2
  <2>3. ASSUME NEW r \in changed, r \notin RowsIn(old) PROVE \E i \in DOMAIN ab : ab[i].row = r
    <3>1. r \in S
      BY <2>3 DEF S
    <3>2. PICK k \in 1 .. m : Nth(k - 1, S) = r
      BY <1>2, <3>1
    <3>3. n + k \in 1 .. n + m /\ ~(n + k <= n) /\ (n + k) - n = k
      BY <1>2, <1>3
    <3>4. ab[n + k] = b[k]
      BY <1>8, <3>3
    <3> QED
      BY <1>6, <1>8, <3>2, <3>3, <3>4
  <2> QED
    BY <2>1, <2>2, <2>3 DEF RowsIn
<1>12. \A i \in DOMAIN ab :
         IF ab[i].row \in changed THEN ab[i].target = f[ab[i].row]
         ELSE \E j \in DOMAIN old : ab[i] = old[j]
  <2> SUFFICES ASSUME NEW i \in 1 .. n + m
               PROVE  IF ab[i].row \in changed THEN ab[i].target = f[ab[i].row]
                      ELSE \E j \in DOMAIN old : ab[i] = old[j]
    BY <1>8
  <2>1. CASE i \in 1 .. n /\ ab[i] = a[i]
    BY <1>3, <1>4, <2>1
  <2>2. CASE i - n \in 1 .. m /\ ab[i] = b[i - n]
    BY <1>14, <2>2
  <2> QED
    BY <1>9, <2>1, <2>2
<1>13. \E U : ab \in Seq([row : Nat, target : U])
  BY <1>8 DEF R
<1> QED
  BY <1>7, <1>10, <1>11, <1>12, <1>13 DEF AreRegiven

\* WithRelinks is Regiven, for a target(r) that is f[r].
RowsKeyed(rows, keys) == {r \in rows : \E k \in keys : db.key[r] # k}

RowsTyped(rows, types) == {r \in rows : \E ty \in types : db.type[r] # ty}

\* What an update call that is not refused stages.
UpdateStaged(rows, keys, types, byKey) ==
  LET keyed == RowsKeyed(rows, keys)
      typed == RowsTyped(rows, types)
  IN  /\ rows \subseteq Rows /\ rows \cap tx.deleted = {}
      /\ keys # {} => rows \cap tx.keySet = {}
      /\ types # {} => rows \cap tx.typeSet = {}
      /\ DOMAIN tx' = Fields
      /\ tx'.additions = tx.additions /\ tx'.added = tx.added /\ tx'.deleted = tx.deleted
      /\ tx'.gone = tx.gone /\ tx'.unlinks = tx.unlinks /\ tx'.claims = tx.claims
      /\ AreRegiven(tx.relinks, keyed, [r \in keyed |-> CHOOSE k \in keys : TRUE], byKey)
      /\ AreRegiven(byKey, typed \ RowsIn(byKey), db.key, tx'.relinks)
      /\ tx'.retypes = [r \in DOMAIN tx.retypes \cup keyed \cup typed |->
                          IF r \in typed THEN CHOOSE ty \in types : TRUE
                          ELSE IF r \in DOMAIN tx.retypes THEN tx.retypes[r]
                          ELSE db.type[r]]
      /\ tx'.keySet = tx.keySet \cup keyed
      /\ tx'.typeSet = tx.typeSet \cup typed

LEMMA UpdateStages ==
  ASSUME WellTyped, NEW rows \in SUBSET Nat, NEW keys, NEW types,
         UpdateEntries(rows, keys, types)
  PROVE  \/ \E reason : Refuse(reason)
         \/ \E byKey : UpdateStaged(rows, keys, types, byKey)
<1> SUFFICES ASSUME ~(\E reason : Refuse(reason))
             PROVE  \E byKey : UpdateStaged(rows, keys, types, byKey)
  OBVIOUS
<1> DEFINE keyed == RowsKeyed(rows, keys)
           typed == RowsTyped(rows, types)
           given(r) == CHOOSE k \in keys : TRUE
           current(r) == db.key[r]
           byKey == WithRelinks(tx.relinks, keyed, given)
           rest == typed \ RowsIn(byKey)
           byType == WithRelinks(byKey, rest, current)
           f == [r \in keyed |-> CHOOSE k \in keys : TRUE]
<1>1. /\ ~(\E r \in rows : r >= db.len)
      /\ ~(rows \cap tx.deleted # {})
      /\ ~(\/ keys # {} /\ rows \cap tx.keySet # {}
           \/ types # {} /\ rows \cap tx.typeSet # {})
      /\ tx' = [tx EXCEPT
                   !.calls = @ + 1,
                   !.relinks = byType,
                   !.retypes = [r \in DOMAIN @ \cup keyed \cup typed |->
                                  IF r \in typed THEN CHOOSE ty \in types : TRUE
                                  ELSE IF r \in DOMAIN @ THEN @[r]
                                  ELSE db.type[r]],
                   !.keySet = @ \cup keyed,
                   !.typeSet = @ \cup typed]
  BY DEF UpdateEntries, RowsKeyed, RowsTyped, RowsIn
<1>2. rows \subseteq Rows
  <2>1. db.len \in Nat
    BY Sizes
  <2> QED
    BY <1>1, <2>1 DEF Rows
<1> HIDE DEF byType
<1>3. /\ DOMAIN tx' = Fields
      /\ tx'.additions = tx.additions /\ tx'.added = tx.added /\ tx'.deleted = tx.deleted
      /\ tx'.gone = tx.gone /\ tx'.unlinks = tx.unlinks /\ tx'.claims = tx.claims
      /\ tx'.relinks = byType
      /\ tx'.retypes = [r \in DOMAIN tx.retypes \cup keyed \cup typed |->
                          IF r \in typed THEN CHOOSE ty \in types : TRUE
                          ELSE IF r \in DOMAIN tx.retypes THEN tx.retypes[r]
                          ELSE db.type[r]]
      /\ tx'.keySet = tx.keySet \cup keyed
      /\ tx'.typeSet = tx.typeSet \cup typed
  <2> HIDE DEF keyed, typed
  <2>1. DOMAIN tx = Fields
    BY DEF WellTyped, EditsTyped, ContextType
  <2> QED
    BY <1>1, <2>1 DEF Fields
<1>4. /\ keyed \in SUBSET Nat /\ IsFiniteSet(keyed)
      /\ typed \in SUBSET Nat /\ IsFiniteSet(typed)
      /\ rest \in SUBSET Nat /\ IsFiniteSet(rest)
  <2>1. keyed \subseteq Rows /\ typed \subseteq Rows /\ rest \subseteq Rows
    BY <1>2 DEF RowsKeyed, RowsTyped
  <2>2. Rows \subseteq Nat /\ IsFiniteSet(Rows)
    BY Sizes
  <2> HIDE DEF keyed, typed, rest
  <2>3. IsFiniteSet(keyed) /\ IsFiniteSet(typed) /\ IsFiniteSet(rest)
    BY <2>1, <2>2, FS_Subset
  <2>4. keyed \subseteq Nat /\ typed \subseteq Nat /\ rest \subseteq Nat
    BY <2>1, <2>2
  <2> QED
    BY <2>3, <2>4
<1>5. byKey = Regiven(tx.relinks, keyed, f)
  <2> HIDE DEF keyed
  <2> DEFINE n == keyed \ RowsIn(tx.relinks)
  <2>1. n \in SUBSET Int /\ IsFiniteSet(n) /\ n \subseteq keyed
    <3>1. n \subseteq keyed
      OBVIOUS
    <3> HIDE DEF n
    <3>2. n \in SUBSET Int
      BY <1>4, <3>1
    <3>3. IsFiniteSet(n)
      BY <1>4, <3>1, FS_Subset
    <3> QED
      BY <3>1, <3>2, <3>3
  <2>2. \A i \in 1 .. Cardinality(n) : Nth(i - 1, n) \in keyed
    <3> HIDE DEF n
    <3> QED
      BY <2>1, SortedRows
  <2>3. \A r \in keyed : f[r] = given(r)
    OBVIOUS
  <2> DEFINE a == [i \in DOMAIN tx.relinks |->
                     IF tx.relinks[i].row \in keyed
                       THEN [tx.relinks[i] EXCEPT !.target = f[tx.relinks[i].row]]
                       ELSE tx.relinks[i]]
             b == [i \in 1 .. Cardinality(n) |-> [row |-> Nth(i - 1, n), target |-> f[Nth(i - 1, n)]]]
             c == [i \in DOMAIN tx.relinks |->
                     IF tx.relinks[i].row \in keyed
                       THEN [tx.relinks[i] EXCEPT !.target = given(tx.relinks[i].row)]
                       ELSE tx.relinks[i]]
             d == [i \in 1 .. Cardinality(n) |-> [row |-> Nth(i - 1, n), target |-> given(Nth(i - 1, n))]]
  <2>4. Regiven(tx.relinks, keyed, f) = a \o b /\ byKey = c \o d
    BY DEF Regiven, WithRelinks, RowsIn
  <2>5. a = c
    BY <2>3
  <2>6. b = d
    <3> HIDE DEF f, n
    <3> QED
      BY <2>2, <2>3
  <2> QED
    BY <2>4, <2>5, <2>6
<1>6. AreRegiven(tx.relinks, keyed, f, byKey)
  <2>1. PICK V : tx.relinks \in Seq([row : Nat, target : V])
    BY DEF WellTyped, EditsTyped, RelinksTyped
  <2>2. DifferentRows(tx.relinks)
    BY DEF WellTyped, EditsTyped, RelinksTyped, DifferentRows
  <2> DEFINE old == tx.relinks
  <2>3. AreRegiven(old, keyed, f, Regiven(old, keyed, f))
    <3>1. /\ old \in Seq([row : Nat, target : V]) /\ DifferentRows(old)
          /\ keyed \in SUBSET Nat /\ IsFiniteSet(keyed)
      BY <1>4, <2>1, <2>2
    <3> HIDE DEF old, keyed, f
    <3> QED
      BY ONLY <3>1, RegivenAre
  <2> QED
    BY <1>5, <2>3
<1> HIDE DEF byKey
<1>7. byType = Regiven(byKey, rest, db.key)
  BY DEF byType, Regiven, WithRelinks, RowsIn
<1>8. AreRegiven(byKey, rest, db.key, byType)
  <2>1. PICK V : byKey \in Seq([row : Nat, target : V])
    BY <1>6 DEF AreRegiven
  <2>2. DifferentRows(byKey) /\ rest \in SUBSET Nat /\ IsFiniteSet(rest)
    BY <1>4, <1>6 DEF AreRegiven
  <2> DEFINE g == db.key
  <2> HIDE DEF rest, g
  <2>3. AreRegiven(byKey, rest, g, Regiven(byKey, rest, g))
    BY ONLY <2>1, <2>2, RegivenAre
  <2> QED
    BY <1>7, <2>3 DEF g
<1>9. UpdateStaged(rows, keys, types, byKey)
  BY <1>1, <1>2, <1>3, <1>6, <1>8 DEF UpdateStaged
<1> QED
  BY <1>9

\* A call that sets keys or types.
LEMMA UpdateTyped ==
  ASSUME WellTyped, NEW rows \in SUBSET Nat, NEW keys, NEW types \in SUBSET RowTypes,
         UpdateEntries(rows, keys, types)
  PROVE  WellTyped'
<1>1. db' = db
  BY DEF UpdateEntries
<1>2. CASE \E reason : Refuse(reason)
  BY <1>1, <1>2, NothingStagedByCall DEF Refuse
<1>3. CASE \E byKey : UpdateStaged(rows, keys, types, byKey)
  <2>1. PICK byKey : UpdateStaged(rows, keys, types, byKey)
    BY <1>3
  <2> DEFINE keyed == RowsKeyed(rows, keys)
             typed == RowsTyped(rows, types)
             f == [r \in keyed |-> CHOOSE k \in keys : TRUE]
  <2>2. keyed \subseteq Rows /\ typed \subseteq Rows
    BY <2>1 DEF UpdateStaged, RowsKeyed, RowsTyped
  <2>3. /\ AreRegiven(tx.relinks, keyed, f, byKey)
        /\ AreRegiven(byKey, typed \ RowsIn(byKey), db.key, tx'.relinks)
        /\ tx'.retypes = [r \in DOMAIN tx.retypes \cup keyed \cup typed |->
                            IF r \in typed THEN CHOOSE ty \in types : TRUE
                            ELSE IF r \in DOMAIN tx.retypes THEN tx.retypes[r]
                            ELSE db.type[r]]
        /\ tx'.keySet = tx.keySet \cup keyed
        /\ tx'.typeSet = tx.typeSet \cup typed
    BY <2>1 DEF UpdateStaged
  <2>4. \A r \in typed : (CHOOSE ty \in types : TRUE) \in RowTypes
    BY DEF RowsTyped
  <2>5. RelinksTyped /\ StoreTyped
    BY DEF WellTyped, EditsTyped
  <2> HIDE DEF keyed, typed, f
  <2>6. Relinked' = Relinked \cup keyed \cup typed
    <3>1. RowsIn(tx'.relinks) = Relinked \cup keyed \cup typed
      BY <2>3 DEF AreRegiven, RowsIn, Relinked
    <3> QED
      BY <3>1 DEF RowsIn, Relinked
  <2>7. RelinksTyped'
    <3>1. RowTypes' = RowTypes /\ Rows' = Rows
      BY <1>1 DEF RowTypes, Types, NoType, Rows
    <3>2. (\E V : tx.relinks \in Seq([row : Nat, target : V]))'
      BY <2>3 DEF AreRegiven
    <3>3. \A i, j \in DOMAIN tx'.relinks : tx'.relinks[i].row = tx'.relinks[j].row => i = j
      BY <2>3 DEF AreRegiven, DifferentRows
    <3>4. Relinked' \subseteq Rows /\ Relinked' = DOMAIN tx'.retypes
      BY <2>2, <2>3, <2>5, <2>6 DEF RelinksTyped
    <3>5. \A r \in DOMAIN tx'.retypes : tx'.retypes[r] \in RowTypes
      BY <2>2, <2>3, <2>4, <2>5 DEF RelinksTyped, StoreTyped
    <3>6. (tx.keySet \cup tx.typeSet = Relinked)'
      BY <2>3, <2>5, <2>6 DEF RelinksTyped
    <3> QED
      BY <3>1, <3>2, <3>3, <3>4, <3>5, <3>6 DEF RelinksTyped
  <2>8. ContextType'
    <3>1. DOMAIN tx' = Fields /\ tx'.additions = tx.additions /\ tx'.gone = tx.gone
          /\ tx'.claims = tx.claims
      BY <2>1 DEF UpdateStaged
    <3> QED
      BY <3>1 DEF WellTyped, EditsTyped, ContextType, Types
  <2>9. AdditionsTyped' /\ DeletionsTyped' /\ StoreTyped'
    BY <1>1, <2>1, AdditionsUntouched, DeletionsUntouched, StoreUntouched
       DEF UpdateStaged, WellTyped
  <2> QED
    BY <2>7, <2>8, <2>9 DEF WellTyped, EditsTyped
<1> QED
  BY <1>2, <1>3, UpdateStages

\* Rows that are reached by a walk are rows.
LEMMA ReferencingAreRows ==
  ASSUME WellTyped, NEW ty \in Types, NEW i
  PROVE  Referencing(ty, i) \subseteq Rows
BY DEF Referencing, Reached, WellTyped, StoreTyped

\* Deletions do not take away the place staged rows have.
LEMMA MoreRoom ==
  ASSUME NEW S, NEW T, S \subseteq T, IsFiniteSet(T)
  PROVE  IsFiniteSet(S) /\ Cardinality(S) \in Nat /\ Cardinality(T) \in Nat
           /\ Cardinality(S) <= Cardinality(T)
BY FS_Subset, FS_CardinalityType

\* A call that deletes targets.
LEMMA DelTargetsTyped ==
  ASSUME WellTyped, NEW ty \in Types, NEW ids, DelTargets(ty, ids)
  PROVE  WellTyped'
<1> DEFINE hit == (UNION {Referencing(ty, i) : i \in ids}) \ tx.deleted
<1>1. db' = db
  BY DEF DelTargets
<1>2. CASE \E reason : Refuse(reason)
  BY <1>1, <1>2, NothingStagedByCall DEF Refuse
<1>3. CASE ~(\E reason : Refuse(reason))
  <2>1. /\ ids \subseteq TargetRows(ty)
        /\ tx' = [tx EXCEPT
                   !.calls = @ + 1,
                   !.gone[ty] = @ \cup ids,
                   !.deleted = IF OnDelete = "CASCADE" THEN @ \cup hit ELSE @,
                   !.unlinks = IF OnDelete = "SET_NULL" THEN @ \cup hit ELSE @]
    BY <1>3 DEF DelTargets
  <2>2. hit \subseteq Rows
    BY ReferencingAreRows
  <2> HIDE DEF hit
  <2>3. DOMAIN tx = Fields /\ DOMAIN tx.gone = Types
    BY DEF WellTyped, EditsTyped, ContextType
  <2>4. /\ DOMAIN tx' = Fields
        /\ tx'.additions = tx.additions /\ tx'.added = tx.added /\ tx'.claims = tx.claims
        /\ tx'.relinks = tx.relinks
        /\ tx'.retypes = tx.retypes /\ tx'.keySet = tx.keySet /\ tx'.typeSet = tx.typeSet
        /\ tx'.gone = [tx.gone EXCEPT ![ty] = @ \cup ids]
        /\ tx'.deleted = IF OnDelete = "CASCADE" THEN tx.deleted \cup hit ELSE tx.deleted
        /\ tx'.unlinks = IF OnDelete = "SET_NULL" THEN tx.unlinks \cup hit ELSE tx.unlinks
    BY <2>1, <2>3 DEF Fields
  <2>5. ContextType'
    BY <2>3, <2>4 DEF WellTyped, EditsTyped, ContextType, Types
  <2>6. DeletionsTyped' /\ tx.deleted \subseteq tx'.deleted /\ tx'.deleted \subseteq Rows
        /\ \A u \in Types : tx.gone[u] \subseteq tx'.gone[u] /\ tx'.gone[u] \subseteq TargetRows(u)
    <3>1. DeletionsTyped
      BY DEF WellTyped, EditsTyped
    <3>2. Rows' = Rows /\ Types' = Types /\ \A u \in Types : TargetRows(u)' = TargetRows(u)
      BY <1>1 DEF Rows, TargetRows, Types
    <3>3. ASSUME NEW u \in Types
          PROVE  tx.gone[u] \subseteq tx'.gone[u] /\ tx'.gone[u] \subseteq TargetRows(u)
      BY <2>1, <2>3, <2>4, <3>1 DEF DeletionsTyped
    <3>4. tx'.deleted \subseteq Rows /\ tx'.unlinks \subseteq Rows /\ tx.deleted \subseteq tx'.deleted
      BY <2>2, <2>4, <3>1 DEF DeletionsTyped
    <3>5. DeletionsTyped'
      BY <3>2, <3>3, <3>4 DEF DeletionsTyped
    <3> QED
      BY <3>3, <3>4, <3>5
  <2>7. AdditionsTyped'
    <3>1. AdditionsTyped
      BY DEF WellTyped, EditsTyped
    <3>2. RowTypes' = RowTypes /\ Types' = Types
      BY DEF RowTypes, Types, NoType
    <3>3. /\ Cardinality(tx.deleted) \in Nat /\ Cardinality(tx'.deleted) \in Nat
          /\ Cardinality(tx.deleted) <= Cardinality(tx'.deleted)
      BY <2>6, Sizes, MoreRoom, FS_Subset
    <3>4. ASSUME NEW u \in Types
          PROVE  /\ Cardinality(tx.gone[u]) \in Nat /\ Cardinality(tx'.gone[u]) \in Nat
                 /\ Cardinality(tx.gone[u]) <= Cardinality(tx'.gone[u])
                 /\ db.size[u] + tx.added[u] <= MaxTargets[u] + Cardinality(tx.gone[u])
                 /\ db.size[u] \in Nat /\ tx.added[u] \in Nat /\ MaxTargets[u] \in Nat
      <4>1. db.size[u] \in Nat /\ tx.added[u] \in Nat /\ MaxTargets[u] \in Nat
        BY Sizes, BoundAssumption
      <4>2. IsFiniteSet(tx'.gone[u])
        <5>1. 0 \in Int /\ db.size[u] - 1 \in Int
          BY <4>1
        <5>2. IsFiniteSet(0 .. db.size[u] - 1)
          BY <5>1, FS_Interval
        <5> QED
          BY <2>6, <5>2, FS_Subset DEF TargetRows
      <4> QED
        BY <2>6, <3>1, <4>1, <4>2, MoreRoom DEF AdditionsTyped
    <3>5. /\ db.len \in Nat /\ Len(tx.additions) \in Nat /\ MaxRows \in Nat
          /\ db.len + Len(tx.additions) <= MaxRows + Cardinality(tx.deleted)
      BY <3>1, Sizes, BoundAssumption DEF AdditionsTyped
    <3>6. db.len + Len(tx.additions) <= MaxRows + Cardinality(tx'.deleted)
      BY <3>3, <3>5
    <3>7. ASSUME NEW u \in Types
          PROVE  db.size[u] + tx.added[u] <= MaxTargets[u] + Cardinality(tx'.gone[u])
      BY <3>4
    <3> QED
      BY <1>1, <2>4, <3>1, <3>2, <3>6, <3>7 DEF AdditionsTyped
  <2>8. StoreTyped' /\ RelinksTyped'
    BY <1>1, <2>4, StoreUntouched, RelinksUntouched DEF WellTyped
  <2> QED
    BY <2>5, <2>6, <2>7, <2>8 DEF WellTyped, EditsTyped
<1> QED
  BY <1>2, <1>3

\* A call that deletes rows of the table.
LEMMA DelEntriesTyped ==
  ASSUME WellTyped, NEW ids, DelEntries(ids)
  PROVE  WellTyped'
<1>1. db' = db
  BY DEF DelEntries
<1>2. CASE \E reason : Refuse(reason)
  BY <1>1, <1>2, NothingStagedByCall DEF Refuse
<1>3. CASE ids \subseteq Rows /\ tx' = [tx EXCEPT !.calls = @ + 1, !.deleted = @ \cup ids]
  <2>1. DOMAIN tx = Fields
    BY DEF WellTyped, EditsTyped, ContextType
  <2>2. /\ DOMAIN tx' = Fields
        /\ tx'.additions = tx.additions /\ tx'.added = tx.added /\ tx'.claims = tx.claims
        /\ tx'.relinks = tx.relinks
        /\ tx'.retypes = tx.retypes /\ tx'.keySet = tx.keySet /\ tx'.typeSet = tx.typeSet
        /\ tx'.gone = tx.gone /\ tx'.unlinks = tx.unlinks
        /\ tx'.deleted = tx.deleted \cup ids
    BY <1>3, <2>1 DEF Fields
  <2>3. ContextType' /\ StoreTyped' /\ RelinksTyped'
    BY <1>1, <2>2, StoreUntouched, RelinksUntouched
       DEF WellTyped, EditsTyped, ContextType, Types
  <2>4. DeletionsTyped' /\ tx.deleted \subseteq tx'.deleted /\ tx'.deleted \subseteq Rows
    <3>1. DeletionsTyped
      BY DEF WellTyped, EditsTyped
    <3>2. Rows' = Rows /\ Types' = Types /\ \A u \in Types : TargetRows(u)' = TargetRows(u)
      BY <1>1 DEF Rows, TargetRows, Types
    <3> QED
      BY <1>3, <2>2, <3>1, <3>2 DEF DeletionsTyped
  <2>5. AdditionsTyped'
    <3>1. AdditionsTyped
      BY DEF WellTyped, EditsTyped
    <3>2. RowTypes' = RowTypes /\ Types' = Types
      BY DEF RowTypes, Types, NoType
    <3>3. /\ Cardinality(tx.deleted) \in Nat /\ Cardinality(tx'.deleted) \in Nat
          /\ Cardinality(tx.deleted) <= Cardinality(tx'.deleted)
      BY <2>4, Sizes, MoreRoom, FS_Subset
    <3>4. /\ db.len \in Nat /\ Len(tx.additions) \in Nat /\ MaxRows \in Nat
          /\ db.len + Len(tx.additions) <= MaxRows + Cardinality(tx.deleted)
      BY <3>1, Sizes, BoundAssumption DEF AdditionsTyped
    <3>5. db.len + Len(tx.additions) <= MaxRows + Cardinality(tx'.deleted)
      BY <3>3, <3>4
    <3> QED
      BY <1>1, <2>2, <3>1, <3>2, <3>5 DEF AdditionsTyped
  <2> QED
    BY <2>3, <2>4, <2>5 DEF WellTyped, EditsTyped
<1> QED
  BY <1>2, <1>3 DEF DelEntries

(***************************************************************************)
(* What a commit computes.                                                 *)
(***************************************************************************)
\* v[k] is what the first k of the writes w make together.
Merges(v, w, n) ==
  v = [k \in 0 .. n |-> IF k = 0 THEN NoRows ELSE Then(v[k - 1], w[k - 1])]

LEMMA MergesExist ==
  ASSUME NEW n \in Nat, NEW w
  PROVE  \E v : Merges(v, w, n)
<1> DEFINE K == 0 .. n - 1
           D == UNION {DOMAIN w[k] : k \in K}
           V == {w[k][i] : k \in K, i \in D}
           S == UNION {[A -> V] : A \in SUBSET D}
           step == [k \in 1 .. n |-> [f \in S |-> Then(f, w[k - 1])]]
<1>0. \A k \in K : DOMAIN w[k] \subseteq D /\ \A i \in DOMAIN w[k] : w[k][i] \in V
  OBVIOUS
<1> HIDE DEF D, V
<1>1. NoRows \in S
  <2>1. NoRows \in [{} -> V]
    BY DEF NoRows
  <2> QED
    BY <2>1
<1>2. ASSUME NEW k \in 1 .. n, NEW f \in S PROVE Then(f, w[k - 1]) \in S
  <2>1. PICK A \in SUBSET D : f \in [A -> V]
    OBVIOUS
  <2>2. k - 1 \in K
    OBVIOUS
  <2> DEFINE B == A \cup DOMAIN w[k - 1]
             g == w[k - 1]
  <2>3. DOMAIN g \subseteq D /\ \A i \in DOMAIN g : g[i] \in V
    BY <1>0, <2>2
  <2> HIDE DEF g
  <2>4. Then(f, g) \in [B -> V] /\ B \in SUBSET D
    BY <2>1, <2>3 DEF Then, g
  <2> QED
    BY <2>4 DEF g
<1>3. IsStep(step, n, S)
  <2> HIDE DEF S
  <2> QED
    BY <1>2 DEF IsStep
<1>4. PICK v : Follows(v, n, S, NoRows, step)
  <2> HIDE DEF S, step
  <2> QED
    BY <1>1, <1>3, RecursionUpTo
<1> HIDE DEF S
<1>5. v \in [0 .. n -> S] /\ v[0] = NoRows /\ \A k \in 1 .. n : v[k] = step[k][v[k - 1]]
  BY <1>4 DEF Follows
<1>6. ASSUME NEW k \in 0 .. n
      PROVE  v[k] = IF k = 0 THEN NoRows ELSE Then(v[k - 1], w[k - 1])
  <2>1. CASE k = 0
    BY <1>5, <2>1
  <2>2. CASE k # 0
    <3>1. k \in 1 .. n /\ k - 1 \in 0 .. n
      BY <2>2
    <3>2. v[k - 1] \in S
      BY <1>5, <3>1
    <3> QED
      BY <1>5, <2>2, <3>1, <3>2
  <2> QED
    BY <2>1, <2>2
<1>7. v = [k \in 0 .. n |-> IF k = 0 THEN NoRows ELSE Then(v[k - 1], w[k - 1])]
  BY <1>5, <1>6
<1> QED
  BY <1>7 DEF Merges

\* The later of two writes to an index wins.
MergedBy(m, w, n) ==
  /\ DOMAIN m = UNION {DOMAIN w[k] : k \in 0 .. n - 1}
  /\ \A k \in 0 .. n - 1 : \A x \in DOMAIN w[k] :
       (\A j \in k + 1 .. n - 1 : x \notin DOMAIN w[j]) => m[x] = w[k][x]

LEMMA MergedLast ==
  ASSUME NEW n \in Nat, NEW w, NEW v, Merges(v, w, n)
  PROVE  MergedBy(v[n], w, n)
<1> DEFINE P == {k \in 0 .. n : MergedBy(v[k], w, k)}
<1>1. \A k \in 0 .. n : v[k] = IF k = 0 THEN NoRows ELSE Then(v[k - 1], w[k - 1])
  BY DEF Merges
<1>2. 0 \in P
  <2>1. v[0] = NoRows /\ DOMAIN NoRows = {} /\ 0 .. 0 - 1 = {}
    BY <1>1 DEF NoRows
  <2> QED
    BY <2>1 DEF MergedBy
<1>3. ASSUME NEW k \in 1 .. n, k - 1 \in P PROVE k \in P
  <2> DEFINE h == k - 1
  <2>1. h \in 0 .. n /\ h + 1 = k /\ 0 .. k - 1 = (0 .. h - 1) \cup {h} /\ h \in Nat
    OBVIOUS
  <2>2. v[k] = Then(v[h], w[h]) /\ MergedBy(v[h], w, h)
    BY <1>1, <1>3
  <2> HIDE DEF h
  <2>3. /\ DOMAIN v[k] = DOMAIN v[h] \cup DOMAIN w[h]
        /\ \A x \in DOMAIN v[k] : v[k][x] = IF x \in DOMAIN w[h] THEN w[h][x] ELSE v[h][x]
    BY <2>2 DEF Then
  <2>4. DOMAIN v[k] = UNION {DOMAIN w[i] : i \in 0 .. k - 1}
    BY <2>1, <2>2, <2>3 DEF MergedBy
  <2>5. ASSUME NEW i \in 0 .. k - 1, NEW x \in DOMAIN w[i],
               \A j \in i + 1 .. k - 1 : x \notin DOMAIN w[j]
        PROVE  v[k][x] = w[i][x]
    <3>1. CASE i = h
      BY <2>3, <3>1
    <3>2. CASE i # h
      <4>1. i \in 0 .. h - 1 /\ h \in i + 1 .. k - 1 /\ i + 1 .. h - 1 \subseteq i + 1 .. k - 1
        BY <2>1, <3>2
      <4>2. x \in DOMAIN v[h] /\ x \notin DOMAIN w[h]
        BY <2>2, <2>5, <4>1 DEF MergedBy
      <4>3. v[h][x] = w[i][x]
        BY <2>2, <2>5, <4>1 DEF MergedBy
      <4> QED
        BY <2>3, <4>2, <4>3
    <3> QED
      BY <3>1, <3>2
  <2>6. MergedBy(v[k], w, k)
    BY <2>4, <2>5 DEF MergedBy
  <2> QED
    BY <2>6
<1>4. \A k \in 0 .. n : k \in P
  <2> HIDE DEF P
  <2> QED
    BY <1>2, <1>3, InductionUpTo
<1> QED
  BY <1>4

\* The keys and the types of the staged rows, by the order they were staged in.
FreshKeys ==
  [k \in DOMAIN SourceOracle.dest |->
     LET a == tx.additions[k + 1]
     IN  IF a.type = NoType THEN a.key ELSE ResolveKey(a.type, a.key)]

FreshTypes == [k \in DOMAIN SourceOracle.dest |-> tx.additions[k + 1].type]

NoCounts(o) == [k \in DOMAIN o.dest |-> 0]

\* The target a relinked row is given.
GivenTo(r) == tx.relinks[CHOOSE i \in DOMAIN tx.relinks : tx.relinks[i].row = r].target

Remaining(S) == {r \in S : Resolve(SourceOracle, r) # Missing}

\* The staged keys and types of committed rows, at their new indices.
KeyWrites ==
  LET newRow(r) == Resolve(SourceOracle, r)
      newKey(r) == ResolveKey(NewType(r), GivenTo(r))
  IN  Writes(Remaining(tx.keySet), newRow, newKey)

TypeWrites ==
  LET newRow(r) == Resolve(SourceOracle, r)
  IN  Writes(Remaining(tx.typeSet), newRow, NewType)

\* The patch of a type in new indices.
PatchNow(ty) == Translate(TypePatch(ty), SourceOracle, TargetOracle(ty))

NxtPatches == [ty \in Types |-> PatchNow(ty).nxt]
PrvPatches == [ty \in Types |-> PatchNow(ty).prv]

\* The store of a commit before the keys follow their targets, with what the
\* patches make of the links.
PatchedStore(nxt, prv) ==
  LET so == SourceOracle
  IN  [len  |-> so.newSize,
       size |-> [ty \in Types |-> TargetOracle(ty).newSize],
       key  |-> Overwrite(MaterializedAs(db.key, so, FreshKeys), KeyWrites),
       type |-> Overwrite(MaterializedAs(db.type, so, FreshTypes), TypeWrites),
       nxt  |-> Overwrite(MaterializedAs(db.nxt, so, AbsentLinks(so)), nxt),
       prv  |-> Overwrite(MaterializedAs(db.prv, so, AbsentLinks(so)), prv),
       head |-> [ty \in Types |->
                   Overwrite(MaterializedAs(db.head[ty], TargetOracle(ty),
                                            AbsentLinks(TargetOracle(ty))),
                             PatchNow(ty).head)],
       cnt  |-> [ty \in Types |->
                   LET count == MaterializedAs(db.cnt[ty], TargetOracle(ty),
                                               NoCounts(TargetOracle(ty)))
                   IN  [p \in DOMAIN count |->
                          count[p] + (IF TrackCounts THEN CountDelta(ty, p) ELSE 0)]],
       torn |-> FALSE]

\* Materialization with nothing fresh but zeros.
LEMMA ZerosMaterialized ==
  ASSUME NEW col, NEW o
  PROVE  MaterializedAs(col, o, NoCounts(o))
           = [p \in 0 .. o.newSize - 1 |->
                IF \E k \in DOMAIN o.dest : o.dest[k] = p THEN 0
                ELSE IF \E i \in DOMAIN o.moves : o.moves[i] = p
                  THEN col[CHOOSE i \in DOMAIN o.moves : o.moves[i] = p]
                ELSE col[p]]
<1> DEFINE new(p) == CHOOSE k \in DOMAIN o.dest : o.dest[k] = p
           moved(p) == CHOOSE i \in DOMAIN o.moves : o.moves[i] = p
           staged(p) == \E k \in DOMAIN o.dest : o.dest[k] = p
           isMoved(p) == \E i \in DOMAIN o.moves : o.moves[i] = p
           N == 0 .. o.newSize - 1
<1>1. ASSUME NEW p \in N, staged(p) PROVE NoCounts(o)[new(p)] = 0
  <2>1. new(p) \in DOMAIN o.dest
    BY <1>1
  <2> HIDE DEF new
  <2> QED
    BY <2>1 DEF NoCounts
<1>2. MaterializedAs(col, o, NoCounts(o))
        = [p \in N |-> IF staged(p) THEN NoCounts(o)[new(p)]
                       ELSE IF isMoved(p) THEN col[moved(p)] ELSE col[p]]
  BY DEF MaterializedAs
<1> HIDE DEF new, moved, staged, isMoved, N
<1>3. MaterializedAs(col, o, NoCounts(o))
        = [p \in N |-> IF staged(p) THEN 0
                       ELSE IF isMoved(p) THEN col[moved(p)] ELSE col[p]]
  BY <1>1, <1>2
<1> QED
  BY <1>3 DEF new, moved, staged, isMoved, N

\* Materialization with the fresh keys and types.
LEMMA KeysMaterialized ==
  LET o == SourceOracle
  IN  /\ MaterializedAs(db.key, o, FreshKeys)
           = [p \in 0 .. o.newSize - 1 |->
                IF \E k \in DOMAIN o.dest : o.dest[k] = p
                  THEN LET a == tx.additions[(CHOOSE k \in DOMAIN o.dest : o.dest[k] = p) + 1]
                       IN  IF a.type = NoType THEN a.key ELSE ResolveKey(a.type, a.key)
                ELSE IF \E i \in DOMAIN o.moves : o.moves[i] = p
                  THEN db.key[CHOOSE i \in DOMAIN o.moves : o.moves[i] = p]
                ELSE db.key[p]]
      /\ MaterializedAs(db.type, o, FreshTypes)
           = [p \in 0 .. o.newSize - 1 |->
                IF \E k \in DOMAIN o.dest : o.dest[k] = p
                  THEN tx.additions[(CHOOSE k \in DOMAIN o.dest : o.dest[k] = p) + 1].type
                ELSE IF \E i \in DOMAIN o.moves : o.moves[i] = p
                  THEN db.type[CHOOSE i \in DOMAIN o.moves : o.moves[i] = p]
                ELSE db.type[p]]
<1> DEFINE o == SourceOracle
           new(p) == CHOOSE k \in DOMAIN o.dest : o.dest[k] = p
           moved(p) == CHOOSE i \in DOMAIN o.moves : o.moves[i] = p
           staged(p) == \E k \in DOMAIN o.dest : o.dest[k] = p
           isMoved(p) == \E i \in DOMAIN o.moves : o.moves[i] = p
           N == 0 .. o.newSize - 1
           keyOf(k) == LET a == tx.additions[k + 1]
                       IN  IF a.type = NoType THEN a.key ELSE ResolveKey(a.type, a.key)
           typeOf(k) == tx.additions[k + 1].type
<1>0. FreshKeys = [k \in DOMAIN o.dest |-> keyOf(k)] /\ FreshTypes = [k \in DOMAIN o.dest |-> typeOf(k)]
  BY DEF FreshKeys, FreshTypes
<1>1. ASSUME NEW p \in N, staged(p)
      PROVE  FreshKeys[new(p)] = keyOf(new(p)) /\ FreshTypes[new(p)] = typeOf(new(p))
  <2>1. new(p) \in DOMAIN o.dest
    BY <1>1
  <2> HIDE DEF new, keyOf, typeOf, o
  <2> QED
    BY <1>0, <2>1
<1>2. /\ MaterializedAs(db.key, o, FreshKeys)
           = [p \in N |-> IF staged(p) THEN FreshKeys[new(p)]
                          ELSE IF isMoved(p) THEN db.key[moved(p)] ELSE db.key[p]]
      /\ MaterializedAs(db.type, o, FreshTypes)
           = [p \in N |-> IF staged(p) THEN FreshTypes[new(p)]
                          ELSE IF isMoved(p) THEN db.type[moved(p)] ELSE db.type[p]]
  BY DEF MaterializedAs
<1> HIDE DEF o, new, moved, staged, isMoved, N, keyOf, typeOf
<1>3. /\ MaterializedAs(db.key, o, FreshKeys)
           = [p \in N |-> IF staged(p) THEN keyOf(new(p))
                          ELSE IF isMoved(p) THEN db.key[moved(p)] ELSE db.key[p]]
      /\ MaterializedAs(db.type, o, FreshTypes)
           = [p \in N |-> IF staged(p) THEN typeOf(new(p))
                          ELSE IF isMoved(p) THEN db.type[moved(p)] ELSE db.type[p]]
  BY <1>1, <1>2
<1> QED
  BY <1>3 DEF o, new, moved, staged, isMoved, N, keyOf, typeOf

\* The store that a commit computes.
LEMMA PatchedIs ==
  \E nxt, prv : /\ MergedBy(nxt, NxtPatches, NTypes)
                /\ MergedBy(prv, PrvPatches, NTypes)
                /\ Patched = PatchedStore(nxt, prv)
<1> DEFINE patch(ty) == Translate(TypePatch(ty), SourceOracle, TargetOracle(ty))
           EqN(f) == f = [n \in 0 .. NTypes |->
                            IF n = 0 THEN NoRows ELSE Then(f[n - 1], patch(n - 1).nxt)]
           EqP(f) == f = [n \in 0 .. NTypes |->
                            IF n = 0 THEN NoRows ELSE Then(f[n - 1], patch(n - 1).prv)]
           cn == CHOOSE f : EqN(f)
           cp == CHOOSE f : EqP(f)
<1>0. NTypes \in Nat
  BY KeyAssumption
<1>1. \A n \in 0 .. NTypes : n # 0 =>
        NxtPatches[n - 1] = patch(n - 1).nxt /\ PrvPatches[n - 1] = patch(n - 1).prv
  <2> SUFFICES ASSUME NEW n \in 0 .. NTypes, n # 0
               PROVE  NxtPatches[n - 1] = patch(n - 1).nxt /\ PrvPatches[n - 1] = patch(n - 1).prv
    OBVIOUS
  <2>1. n - 1 \in Types
    BY <1>0 DEF Types
  <2> QED
    BY <2>1 DEF NxtPatches, PrvPatches, PatchNow
<1>2. \A f : EqN(f) <=> Merges(f, NxtPatches, NTypes)
  <2> HIDE DEF patch
  <2> QED
    BY <1>1 DEF Merges
<1>3. \A f : EqP(f) <=> Merges(f, PrvPatches, NTypes)
  <2> HIDE DEF patch
  <2> QED
    BY <1>1 DEF Merges
<1>4. Patched.nxt = Overwrite(MaterializedAs(db.nxt, SourceOracle, AbsentLinks(SourceOracle)), cn[NTypes])
  <2>1. MaterializedAs(db.nxt, SourceOracle, AbsentLinks(SourceOracle))
          = [p \in 0 .. SourceOracle.newSize - 1 |->
                IF \E k \in DOMAIN SourceOracle.dest : SourceOracle.dest[k] = p THEN Missing
                ELSE IF \E i \in DOMAIN SourceOracle.moves : SourceOracle.moves[i] = p
                  THEN db.nxt[CHOOSE i \in DOMAIN SourceOracle.moves : SourceOracle.moves[i] = p]
                ELSE db.nxt[p]]
    BY AbsentMaterialized, ZenonT(60)
  <2> QED
    BY <2>1, ZenonT(120) DEF Patched, Materialize
<1>5. Patched.prv = Overwrite(MaterializedAs(db.prv, SourceOracle, AbsentLinks(SourceOracle)), cp[NTypes])
  <2>1. MaterializedAs(db.prv, SourceOracle, AbsentLinks(SourceOracle))
          = [p \in 0 .. SourceOracle.newSize - 1 |->
                IF \E k \in DOMAIN SourceOracle.dest : SourceOracle.dest[k] = p THEN Missing
                ELSE IF \E i \in DOMAIN SourceOracle.moves : SourceOracle.moves[i] = p
                  THEN db.prv[CHOOSE i \in DOMAIN SourceOracle.moves : SourceOracle.moves[i] = p]
                ELSE db.prv[p]]
    BY AbsentMaterialized, ZenonT(60)
  <2> QED
    BY <2>1, ZenonT(120) DEF Patched, Materialize
<1>6. Patched.key = Overwrite(MaterializedAs(db.key, SourceOracle, FreshKeys), KeyWrites)
  BY KeysMaterialized DEF Patched, Materialize, KeyWrites, Remaining, GivenTo
<1>7. Patched.type = Overwrite(MaterializedAs(db.type, SourceOracle, FreshTypes), TypeWrites)
  BY KeysMaterialized DEF Patched, Materialize, TypeWrites, Remaining
<1>8. Patched.head = [ty \in Types |->
                        Overwrite(MaterializedAs(db.head[ty], TargetOracle(ty),
                                                 AbsentLinks(TargetOracle(ty))),
                                  PatchNow(ty).head)]
  <2> DEFINE h(ty) == [p \in 0 .. TargetOracle(ty).newSize - 1 |->
                IF \E k \in DOMAIN TargetOracle(ty).dest : TargetOracle(ty).dest[k] = p THEN Missing
                ELSE IF \E i \in DOMAIN TargetOracle(ty).moves : TargetOracle(ty).moves[i] = p
                  THEN db.head[ty][CHOOSE i \in DOMAIN TargetOracle(ty).moves : TargetOracle(ty).moves[i] = p]
                ELSE db.head[ty][p]]
  <2>1. Patched.head = [ty \in Types |-> Overwrite(h(ty), PatchNow(ty).head)]
    BY ZenonT(120) DEF Patched, Materialize, PatchNow
  <2>2. \A ty \in Types : h(ty) = MaterializedAs(db.head[ty], TargetOracle(ty), AbsentLinks(TargetOracle(ty)))
    BY AbsentMaterialized, ZenonT(60)
  <2> HIDE DEF h
  <2> QED
    BY <2>1, <2>2
<1>9. Patched.cnt = [ty \in Types |->
                   LET count == MaterializedAs(db.cnt[ty], TargetOracle(ty),
                                               NoCounts(TargetOracle(ty)))
                   IN  [p \in DOMAIN count |->
                          count[p] + (IF TrackCounts THEN CountDelta(ty, p) ELSE 0)]]
  <2> DEFINE h(ty) == [p \in 0 .. TargetOracle(ty).newSize - 1 |->
                IF \E k \in DOMAIN TargetOracle(ty).dest : TargetOracle(ty).dest[k] = p THEN 0
                ELSE IF \E i \in DOMAIN TargetOracle(ty).moves : TargetOracle(ty).moves[i] = p
                  THEN db.cnt[ty][CHOOSE i \in DOMAIN TargetOracle(ty).moves : TargetOracle(ty).moves[i] = p]
                ELSE db.cnt[ty][p]]
             plus(c, ty) == [p \in DOMAIN c |->
                               c[p] + (IF TrackCounts THEN CountDelta(ty, p) ELSE 0)]
  <2>1. Patched.cnt = [ty \in Types |-> plus(h(ty), ty)]
    BY ZenonT(120) DEF Patched, Materialize
  <2>2. \A ty \in Types : h(ty) = MaterializedAs(db.cnt[ty], TargetOracle(ty), NoCounts(TargetOracle(ty)))
    BY ZerosMaterialized, ZenonT(60)
  <2> HIDE DEF h
  <2>3. [ty \in Types |-> plus(h(ty), ty)]
          = [ty \in Types |-> plus(MaterializedAs(db.cnt[ty], TargetOracle(ty), NoCounts(TargetOracle(ty))), ty)]
    BY <2>2
  <2> QED
    BY <2>1, <2>3
<1>10. Patched.len = SourceOracle.newSize /\ Patched.size = [ty \in Types |-> TargetOracle(ty).newSize]
       /\ Patched.torn = FALSE
  BY DEF Patched
<1>11. Patched = [len |-> Patched.len, size |-> Patched.size, key |-> Patched.key,
                  type |-> Patched.type, nxt |-> Patched.nxt, prv |-> Patched.prv,
                  head |-> Patched.head, cnt |-> Patched.cnt, torn |-> Patched.torn]
  <2> DEFINE so == SourceOracle
             nxt == CHOOSE f : f = [n \in 0 .. NTypes |->
                       IF n = 0 THEN NoRows ELSE Then(f[n - 1], patch(n - 1).nxt)]
             prv == CHOOSE f : f = [n \in 0 .. NTypes |->
                       IF n = 0 THEN NoRows ELSE Then(f[n - 1], patch(n - 1).prv)]
             lives(r) == Resolve(so, r) # Missing
             newRow(r) == Resolve(so, r)
             newKey(r) ==
               ResolveKey(NewType(r),
                 tx.relinks[CHOOSE i \in DOMAIN tx.relinks : tx.relinks[i].row = r].target)
             stagedKey(k) == LET x == tx.additions[k + 1]
                             IN  IF x.type = NoType THEN x.key ELSE ResolveKey(x.type, x.key)
             stagedType(k) == tx.additions[k + 1].type
             none(k) == Missing
             zero(k) == 0
             dSize == [ty \in Types |-> TargetOracle(ty).newSize]
             dKey == Overwrite(Materialize(db.key, so, stagedKey),
                               Writes({r \in tx.keySet : lives(r)}, newRow, newKey))
             dType == Overwrite(Materialize(db.type, so, stagedType),
                                Writes({r \in tx.typeSet : lives(r)}, newRow, NewType))
             dNxt == Overwrite(Materialize(db.nxt, so, none), nxt[NTypes])
             dPrv == Overwrite(Materialize(db.prv, so, none), prv[NTypes])
             dHead == [ty \in Types |->
                         Overwrite(Materialize(db.head[ty], TargetOracle(ty), none),
                                   patch(ty).head)]
             dCnt == [ty \in Types |->
                        LET count == Materialize(db.cnt[ty], TargetOracle(ty), zero)
                        IN  [p \in DOMAIN count |->
                               count[p] + (IF TrackCounts THEN CountDelta(ty, p) ELSE 0)]]
  <2>1. Patched = [len |-> so.newSize, size |-> dSize, key |-> dKey, type |-> dType,
                   nxt |-> dNxt, prv |-> dPrv, head |-> dHead, cnt |-> dCnt, torn |-> FALSE]
    BY DEF Patched
  <2> HIDE DEF so, dSize, dKey, dType, dNxt, dPrv, dHead, dCnt
  <2> QED
    BY <2>1
<1> HIDE DEF EqN, EqP
<1>12. Merges(cn, NxtPatches, NTypes) /\ Merges(cp, PrvPatches, NTypes)
  BY <1>0, <1>2, <1>3, MergesExist
<1> HIDE DEF cn, cp
<1>13. MergedBy(cn[NTypes], NxtPatches, NTypes) /\ MergedBy(cp[NTypes], PrvPatches, NTypes)
  BY <1>0, <1>12, MergedLast
<1>14. Patched = PatchedStore(cn[NTypes], cp[NTypes])
  BY <1>4, <1>5, <1>6, <1>7, <1>8, <1>9, <1>10, <1>11 DEF PatchedStore
<1> QED
  BY <1>13, <1>14

\* The store before after the keys of type ty have followed their targets.
FixedOnce(d, before, ty) ==
  LET m == TargetOracle(ty).moves
      c == [fk |-> before.key, nxt |-> d.nxt, prv |-> before.prv, head |-> d.head[ty]]
      after == FixMovedTargets(c, {m[i] : i \in DOMAIN m})
  IN  [before EXCEPT !.key = after.fk, !.prv = after.prv]

\* v[k] is the store after the keys of the first k types have.
Fixes(v, d, n) ==
  v = [k \in 0 .. n |-> IF k = 0 THEN d ELSE FixedOnce(d, v[k - 1], k - 1)]

\* The store d with the keys f and the backward links g.
WithKeys(d, f, g) == [d EXCEPT !.key = f, !.prv = g]

\* e is the store d but for the keys, in KV, and the backward links, in LW.
IsWithKeys(e, d, KV, LW) == \E f \in KV : \E g \in LW : e = WithKeys(d, f, g)

\* The keys are targets or what they were, the links what they were or none.
LEMMA FixedKeys ==
  ASSUME NEW d, NEW before, NEW ty \in Types, NEW K, NEW L, NEW V, NEW W,
         before.key \in [K -> V], before.prv \in [L -> W], Missing \in W,
         \A i \in DOMAIN TargetOracle(ty).moves : TargetOracle(ty).moves[i] \in V
  PROVE  IsWithKeys(FixedOnce(d, before, ty), before, [K -> V], [L -> W])
<1> DEFINE m == TargetOracle(ty).moves
           c == [fk |-> before.key, nxt |-> d.nxt, prv |-> before.prv, head |-> d.head[ty]]
           movedTo == {m[i] : i \in DOMAIN m}
           chain(t) == Reached(c.nxt, c.head[t], Cardinality(DOMAIN c.nxt))
           hits == {t \in movedTo : c.head[t] # Missing}
           owner(r) == {t \in hits : r \in chain(t)}
           after == FixMovedTargets(c, movedTo)
<1>1. after = [c EXCEPT !.fk  = [r \in DOMAIN c.fk |->
                                   IF owner(r) # {} THEN CHOOSE t \in owner(r) : TRUE
                                                    ELSE c.fk[r]],
                        !.prv = [r \in DOMAIN c.prv |->
                                   IF \E t \in hits : c.head[t] = r THEN Missing
                                                                    ELSE c.prv[r]]]
  BY DEF FixMovedTargets
<1>2. movedTo \subseteq V /\ \A r : owner(r) \subseteq V
  OBVIOUS
<1>3. FixedOnce(d, before, ty) = WithKeys(before, after.fk, after.prv)
  BY DEF FixedOnce, WithKeys
<1>4. c.fk = before.key /\ c.prv = before.prv /\ DOMAIN c = {"fk", "nxt", "prv", "head"}
  OBVIOUS
<1> HIDE DEF after, owner, hits, c, movedTo
<1>5. /\ after.fk = [r \in DOMAIN c.fk |-> IF owner(r) # {} THEN CHOOSE t \in owner(r) : TRUE
                                                        ELSE c.fk[r]]
      /\ after.prv = [r \in DOMAIN c.prv |-> IF \E t \in hits : c.head[t] = r THEN Missing
                                                                          ELSE c.prv[r]]
  BY <1>1, <1>4
<1>6. after.fk \in [K -> V]
  BY <1>2, <1>4, <1>5
<1>7. after.prv \in [L -> W]
  BY <1>4, <1>5
<1> QED
  BY <1>3, <1>6, <1>7 DEF IsWithKeys

\* What fixing the keys leaves as it is.
KeepsShape(e, d) ==
  /\ DOMAIN e = StoreFields
  /\ e.len = d.len /\ e.size = d.size /\ e.type = d.type /\ e.nxt = d.nxt
  /\ e.head = d.head /\ e.cnt = d.cnt /\ e.torn = d.torn
  /\ DOMAIN e.key = DOMAIN d.key /\ DOMAIN e.prv = DOMAIN d.prv

LEMMA FixesExist ==
  ASSUME NEW d, DOMAIN d = StoreFields, d = WithKeys(d, d.key, d.prv),
         d.key = [x \in DOMAIN d.key |-> d.key[x]],
         d.prv = [x \in DOMAIN d.prv |-> d.prv[x]]
  PROVE  \E v : /\ Fixes(v, d, NTypes) /\ FixAll(d) = v[NTypes]
                /\ \A k \in 0 .. NTypes : KeepsShape(v[k], d)
<1> DEFINE n == NTypes
           K == DOMAIN d.key
           L == DOMAIN d.prv
           targets(ty) == {TargetOracle(ty).moves[i] : i \in DOMAIN TargetOracle(ty).moves}
           V == {d.key[x] : x \in K} \cup UNION {targets(ty) : ty \in Types}
           W == {d.prv[x] : x \in L} \cup {Missing}
           KV == [K -> V]
           LW == [L -> W]
           S == UNION {{WithKeys(d, f, g) : f \in KV} : g \in LW}
           step == [k \in 1 .. n |-> [e \in S |-> FixedOnce(d, e, k - 1)]]
<1>0. n \in Nat /\ \A k \in 1 .. n : k - 1 \in Types
  BY KeyAssumption DEF Types
<1>1. /\ \A ty \in Types : \A i \in DOMAIN TargetOracle(ty).moves : TargetOracle(ty).moves[i] \in V
      /\ d.key \in KV /\ d.prv \in LW /\ Missing \in W
  OBVIOUS
<1> HIDE DEF V, W, n, K, L
<1>2. \A f, g : /\ WithKeys(d, f, g).key = f /\ WithKeys(d, f, g).prv = g
                /\ DOMAIN WithKeys(d, f, g) = StoreFields
                /\ \A x \in StoreFields \ {"key", "prv"} : WithKeys(d, f, g)[x] = d[x]
  BY DEF StoreFields, WithKeys
<1>3. \A f, g, a, b : WithKeys(WithKeys(d, f, g), a, b) = WithKeys(d, a, b)
  <2> TAKE f, g, a, b
  <2> DEFINE e == WithKeys(d, f, g)
             h == WithKeys(e, a, b)
  <2>1. h = [x \in StoreFields |-> IF x = "prv" THEN b ELSE IF x = "key" THEN a ELSE e[x]]
    <3> HIDE DEF e
    <3>1. DOMAIN e = StoreFields
      BY <1>2 DEF e
    <3> QED
      BY <3>1 DEF StoreFields, WithKeys
  <2>2. WithKeys(d, a, b) = [x \in StoreFields |-> IF x = "prv" THEN b ELSE IF x = "key" THEN a ELSE d[x]]
    BY DEF StoreFields, WithKeys
  <2>3. \A x \in StoreFields \ {"key", "prv"} : e[x] = d[x]
    BY <1>2
  <2> HIDE DEF e, h
  <2>4. h = WithKeys(d, a, b)
    BY <2>1, <2>2, <2>3
  <2> QED
    BY <2>4 DEF h, e
<1>4. d = WithKeys(d, d.key, d.prv)
  OBVIOUS
<1>15. \A e : e \in S <=> \E f \in KV, g \in LW : e = WithKeys(d, f, g)
  OBVIOUS
<1> HIDE DEF S
<1>16. d \in S
  BY <1>1, <1>4, <1>15
<1>17. ASSUME NEW k \in 1 .. n, NEW e \in S
      PROVE  FixedOnce(d, e, k - 1) \in S
  <2>1. PICK f \in KV, g \in LW : e = WithKeys(d, f, g)
    BY <1>15
  <2>2. e.key = f /\ e.prv = g
    BY <1>2, <2>1
  <2> DEFINE ty == k - 1
  <2>3. ty \in Types
    BY <1>0
  <2> HIDE DEF ty
  <2>4. IsWithKeys(FixedOnce(d, e, ty), e, [K -> V], [L -> W])
    <3>1. /\ e.key \in [K -> V] /\ e.prv \in [L -> W] /\ Missing \in W
          /\ \A i \in DOMAIN TargetOracle(ty).moves : TargetOracle(ty).moves[i] \in V
      BY <1>1, <2>2, <2>3
    <3> QED
      BY ONLY <2>3, <3>1, FixedKeys
  <2>5. PICK a \in KV, b \in LW : FixedOnce(d, e, ty) = WithKeys(e, a, b)
    BY <2>4 DEF IsWithKeys
  <2>6. WithKeys(e, a, b) = WithKeys(d, a, b)
    BY <1>3, <2>1
  <2> QED
    BY <1>15, <2>5, <2>6 DEF ty
<1>18. \A e \in S : KeepsShape(e, d)
  <2> SUFFICES ASSUME NEW f \in KV, NEW g \in LW, NEW e, e = WithKeys(d, f, g)
               PROVE  KeepsShape(e, d)
    BY <1>15
  <2>1. DOMAIN f = DOMAIN d.key /\ DOMAIN g = DOMAIN d.prv
    BY DEF K, L
  <2>2. /\ e.key = f /\ e.prv = g /\ DOMAIN e = StoreFields
        /\ \A x \in StoreFields \ {"key", "prv"} : e[x] = d[x]
    BY <1>2
  <2>3. /\ e.len = d.len /\ e.size = d.size /\ e.type = d.type /\ e.nxt = d.nxt
        /\ e.head = d.head /\ e.cnt = d.cnt /\ e.torn = d.torn
    BY <2>2 DEF StoreFields
  <2> QED
    BY <2>1, <2>2, <2>3 DEF KeepsShape
<1>5. IsStep(step, n, S)
  BY <1>17 DEF IsStep
<1>6. PICK v : Follows(v, n, S, d, step)
  <2> HIDE DEF step
  <2> QED
    BY <1>0, <1>16, <1>5, RecursionUpTo
<1>7. v \in [0 .. n -> S] /\ v[0] = d /\ \A k \in 1 .. n : v[k] = step[k][v[k - 1]]
  BY <1>6 DEF Follows
<1>8. ASSUME NEW k \in 0 .. n
      PROVE  v[k] = IF k = 0 THEN d ELSE FixedOnce(d, v[k - 1], k - 1)
  <2>1. CASE k = 0
    BY <1>7, <2>1
  <2>2. CASE k # 0
    <3>1. k \in 1 .. n /\ k - 1 \in 0 .. n
      BY <1>0, <2>2
    <3>2. v[k - 1] \in S
      BY <1>7, <3>1
    <3> QED
      BY <1>7, <2>2, <3>1, <3>2
  <2> QED
    BY <2>1, <2>2
<1>9. Fixes(v, d, n)
  <2>1. v = [k \in 0 .. n |-> IF k = 0 THEN d ELSE FixedOnce(d, v[k - 1], k - 1)]
    BY <1>7, <1>8
  <2> QED
    BY <2>1 DEF Fixes
<1> DEFINE Eq(f) == f = [k \in 0 .. NTypes |->
             IF k = 0 THEN d
             ELSE LET before == f[k - 1]
                      m == TargetOracle(k - 1).moves
                      c == [fk |-> before.key, nxt |-> d.nxt, prv |-> before.prv,
                            head |-> d.head[k - 1]]
                      after == FixMovedTargets(c, {m[i] : i \in DOMAIN m})
                  IN  [before EXCEPT !.key = after.fk, !.prv = after.prv]]
           c == CHOOSE f : Eq(f)
<1>10. FixAll(d) = c[n]
  BY DEF FixAll, n
<1>11. \A f : Eq(f) <=> Fixes(f, d, n)
  BY DEF Fixes, FixedOnce, n
<1> HIDE DEF Eq
<1>12. Fixes(c, d, n)
  BY <1>9, <1>11
<1> HIDE DEF c
<1>13. \A k \in 0 .. n : c[k] = v[k]
  <2> DEFINE P == {k \in 0 .. n : c[k] = v[k]}
  <2>1. /\ \A k \in 0 .. n : c[k] = IF k = 0 THEN d ELSE FixedOnce(d, c[k - 1], k - 1)
        /\ \A k \in 0 .. n : v[k] = IF k = 0 THEN d ELSE FixedOnce(d, v[k - 1], k - 1)
    BY <1>9, <1>12 DEF Fixes
  <2>2. 0 \in P
    BY <1>0, <2>1
  <2>3. ASSUME NEW k \in 1 .. n, k - 1 \in P PROVE k \in P
    <3>1. k \in 0 .. n /\ k # 0 /\ c[k - 1] = v[k - 1]
      BY <1>0, <2>3
    <3> QED
      BY <2>1, <3>1
  <2>4. \A k \in 0 .. n : k \in P
    <3> HIDE DEF P
    <3> QED
      BY <1>0, <2>2, <2>3, InductionUpTo
  <2> QED
    BY <2>4
<1>14. \A k \in 0 .. n : KeepsShape(v[k], d)
  BY <1>18, <1>7
<1> QED
  BY <1>0, <1>9, <1>10, <1>13, <1>14 DEF n

\* The oracles of a transaction have plans.
LEMMA OraclesPlan ==
  ASSUME WellTyped
  PROVE  /\ Plannable(db.len, Len(tx.additions), tx.deleted)
         /\ \A ty \in Types : Plannable(db.size[ty], tx.added[ty], tx.gone[ty])
<1>1. /\ db.len \in Nat /\ Len(tx.additions) \in Nat
      /\ tx.deleted \in SUBSET (0 .. db.len - 1)
      /\ db.len + Len(tx.additions) <= Missing
  BY Sizes
<1>2. \A ty \in Types : /\ db.size[ty] \in Nat /\ tx.added[ty] \in Nat
                        /\ tx.gone[ty] \in SUBSET (0 .. db.size[ty] - 1)
                        /\ db.size[ty] + tx.added[ty] <= Missing
  BY Sizes
<1> QED
  BY <1>1, <1>2 DEF Plannable

\* The tables after a commit are within their bounds.
LEMMA CommitSizes ==
  ASSUME WellTyped
  PROVE  /\ SourceOracle.newSize \in 0 .. MaxRows
         /\ \A ty \in Types : TargetOracle(ty).newSize \in 0 .. MaxTargets[ty]
<1>0. AdditionsTyped
  BY DEF WellTyped, EditsTyped
<1>1. SourceOracle.newSize \in 0 .. MaxRows
  <2> DEFINE n == db.len
             a == Len(tx.additions)
             del == tx.deleted
  <2>1. n \in Nat /\ a \in Nat /\ del \in SUBSET (0 .. n - 1) /\ MaxRows \in Nat
    BY Sizes, BoundAssumption
  <2>2. n + a <= MaxRows + Cardinality(del)
    BY <1>0 DEF AdditionsTyped
  <2>3. SourceOracle.newSize = PlanSize(n, a, del)
    BY DEF SourceOracle, Oracle
  <2> HIDE DEF n, a, del
  <2>4. /\ Cardinality(del) \in 0 .. n /\ PlanSize(n, a, del) = n + a - Cardinality(del)
        /\ PlanSize(n, a, del) \in Nat
    BY <2>1, PlanSizes
  <2> QED
    BY <2>1, <2>2, <2>3, <2>4
<1>2. ASSUME NEW ty \in Types PROVE TargetOracle(ty).newSize \in 0 .. MaxTargets[ty]
  <2> DEFINE n == db.size[ty]
             a == tx.added[ty]
             del == tx.gone[ty]
             max == MaxTargets[ty]
  <2>1. n \in Nat /\ a \in Nat /\ del \in SUBSET (0 .. n - 1) /\ max \in Nat
    BY Sizes, BoundAssumption
  <2>2. n + a <= max + Cardinality(del)
    BY <1>0 DEF AdditionsTyped
  <2>3. TargetOracle(ty).newSize = PlanSize(n, a, del)
    BY DEF TargetOracle, Oracle
  <2> HIDE DEF n, a, del, max
  <2>4. /\ Cardinality(del) \in 0 .. n /\ PlanSize(n, a, del) = n + a - Cardinality(del)
        /\ PlanSize(n, a, del) \in Nat
    BY <2>1, PlanSizes
  <2>5. TargetOracle(ty).newSize \in 0 .. max
    BY <2>1, <2>2, <2>3, <2>4
  <2> QED
    BY <2>5 DEF max
<1> QED
  BY <1>1, <1>2

\* Rows keep their type, get a new one or are staged with one.
LEMMA CommittedTypes ==
  ASSUME WellTyped, NEW p \in 0 .. SourceOracle.newSize - 1
  PROVE  Overwrite(MaterializedAs(db.type, SourceOracle, FreshTypes), TypeWrites)[p] \in RowTypes
<1> DEFINE n == db.len
           a == Len(tx.additions)
           del == tx.deleted
           m == MaterializedAs(db.type, SourceOracle, FreshTypes)
           S == Remaining(tx.typeSet)
           at(r) == Resolve(SourceOracle, r)
<1>1. Plannable(n, a, del) /\ n \in Nat /\ a \in Nat
  BY OraclesPlan, Sizes
<1>2. SourceOracle = Oracle(n, a, del) /\ Places(n, a, del) = 0 .. SourceOracle.newSize - 1
  BY DEF SourceOracle, Places
<1>3. DOMAIN m = 0 .. SourceOracle.newSize - 1
  BY DEF MaterializedAs
<1>4. m[p] \in RowTypes
  <2> HIDE DEF n, a, del, m
  <2>1. /\ Numbers(NumberedBy(n, a, del), Live(n, a, del), Places(n, a, del))
        /\ Live(n, a, del) = ((0 .. n - 1) \ del) \cup (n .. n + a - 1)
    BY <1>1, LiveNumbered
  <2>2. PICK x \in Live(n, a, del) : NumberedBy(n, a, del)[x] = p
    BY <1>2, <2>1 DEF Numbers
  <2>3. m[p] = IF x \in n .. n + a - 1 THEN FreshTypes[x - n] ELSE db.type[x]
    <3>1. MaterializedAs(db.type, Oracle(n, a, del), FreshTypes)[NumberedBy(n, a, del)[x]]
            = IF x \in n .. n + a - 1 THEN FreshTypes[x - n] ELSE db.type[x]
      BY <1>1, LiveMaterialized
    <3> QED
      BY <1>2, <2>2, <3>1 DEF m
  <2>4. CASE x \in n .. n + a - 1
    <3>1. x - n \in 0 .. a - 1 /\ (x - n) + 1 \in 1 .. a
      BY <1>1, <2>4
    <3>2. DOMAIN SourceOracle.dest = 0 .. a - 1
      BY DEF SourceOracle, Oracle, AdditionDest, a
    <3>3. FreshTypes[x - n] = tx.additions[(x - n) + 1].type
      BY <3>1, <3>2 DEF FreshTypes
    <3>4. (x - n) + 1 \in DOMAIN tx.additions
      BY <3>1, Sizes DEF a
    <3>5. tx.additions[(x - n) + 1].type \in RowTypes
      BY <3>4 DEF WellTyped, EditsTyped, AdditionsTyped
    <3> QED
      BY <2>3, <2>4, <3>3, <3>5
  <2>5. CASE x \notin n .. n + a - 1
    <3>1. x \in Rows
      BY <2>1, <2>5 DEF Rows, n
    <3> QED
      BY <2>3, <2>5, <3>1 DEF WellTyped, StoreTyped
  <2> QED
    BY <2>4, <2>5
<1>5. TypeWrites = [q \in {at(r) : r \in S} |-> NewType(CHOOSE r \in S : at(r) = q)]
  BY DEF TypeWrites, Writes
<1>6. \A r \in S : NewType(r) \in RowTypes
  BY DEF Remaining, WellTyped, EditsTyped, RelinksTyped, NewType
<1>7. p \in DOMAIN TypeWrites => TypeWrites[p] \in RowTypes
  <2> HIDE DEF at, S
  <2> QED
    BY <1>5, <1>6
<1> HIDE DEF m
<1>8. Overwrite(m, TypeWrites)[p] = IF p \in DOMAIN TypeWrites THEN TypeWrites[p] ELSE m[p]
  BY <1>3 DEF Overwrite
<1> QED
  BY <1>4, <1>7, <1>8 DEF m

\* The shape of the patched store.
LEMMA PatchedShape ==
  ASSUME WellTyped, NEW nxt, NEW prv, NEW d, d = PatchedStore(nxt, prv)
  PROVE  /\ DOMAIN d = StoreFields /\ d = WithKeys(d, d.key, d.prv)
         /\ d.len = SourceOracle.newSize /\ d.size = [ty \in Types |-> TargetOracle(ty).newSize]
         /\ DOMAIN d.key = 0 .. d.len - 1 /\ DOMAIN d.type = 0 .. d.len - 1
         /\ DOMAIN d.nxt = 0 .. d.len - 1 /\ DOMAIN d.prv = 0 .. d.len - 1
         /\ \A ty \in Types : /\ DOMAIN d.head[ty] = 0 .. d.size[ty] - 1
                              /\ DOMAIN d.cnt[ty] = 0 .. d.size[ty] - 1
         /\ \A p \in 0 .. d.len - 1 : d.type[p] \in RowTypes
         /\ d.key = [x \in DOMAIN d.key |-> d.key[x]]
         /\ d.prv = [x \in DOMAIN d.prv |-> d.prv[x]]
<1> DEFINE so == SourceOracle
           key == Overwrite(MaterializedAs(db.key, so, FreshKeys), KeyWrites)
           type == Overwrite(MaterializedAs(db.type, so, FreshTypes), TypeWrites)
           dNxt == Overwrite(MaterializedAs(db.nxt, so, AbsentLinks(so)), nxt)
           dPrv == Overwrite(MaterializedAs(db.prv, so, AbsentLinks(so)), prv)
           head(ty) == Overwrite(MaterializedAs(db.head[ty], TargetOracle(ty),
                                                AbsentLinks(TargetOracle(ty))),
                                 PatchNow(ty).head)
           count(ty) == MaterializedAs(db.cnt[ty], TargetOracle(ty), NoCounts(TargetOracle(ty)))
           cnt(ty) == [p \in DOMAIN count(ty) |->
                         count(ty)[p] + (IF TrackCounts THEN CountDelta(ty, p) ELSE 0)]
           N == 0 .. so.newSize - 1
<1>1. /\ DOMAIN key = N /\ DOMAIN type = N /\ DOMAIN dNxt = N /\ DOMAIN dPrv = N
      /\ key = [x \in DOMAIN key |-> key[x]] /\ dPrv = [x \in DOMAIN dPrv |-> dPrv[x]]
  BY DEF Overwrite, MaterializedAs
<1>2. \A ty \in Types : /\ DOMAIN head(ty) = 0 .. TargetOracle(ty).newSize - 1
                        /\ DOMAIN cnt(ty) = 0 .. TargetOracle(ty).newSize - 1
  BY DEF Overwrite, MaterializedAs
<1>3. \A p \in N : type[p] \in RowTypes
  BY CommittedTypes
<1>4. d = [len |-> so.newSize, size |-> [ty \in Types |-> TargetOracle(ty).newSize],
           key |-> key, type |-> type, nxt |-> dNxt, prv |-> dPrv,
           head |-> [ty \in Types |-> head(ty)], cnt |-> [ty \in Types |-> cnt(ty)],
           torn |-> FALSE]
  BY DEF PatchedStore
<1> HIDE DEF key, type, dNxt, dPrv, head, cnt
<1>5. DOMAIN d = StoreFields /\ d = WithKeys(d, d.key, d.prv)
  BY <1>4 DEF StoreFields, WithKeys
<1>6. /\ d.len = so.newSize /\ d.size = [ty \in Types |-> TargetOracle(ty).newSize]
      /\ d.key = key /\ d.type = type /\ d.nxt = dNxt /\ d.prv = dPrv
      /\ \A ty \in Types : d.head[ty] = head(ty) /\ d.cnt[ty] = cnt(ty)
  BY <1>4
<1> QED
  BY <1>1, <1>2, <1>3, <1>5, <1>6

\* A commit leaves tables that are as they should be.
LEMMA CommitTyped ==
  ASSUME WellTyped, Commit
  PROVE  StoreTyped'
<1>1. PICK nxt, prv : Patched = PatchedStore(nxt, prv)
  BY PatchedIs
<1> DEFINE d == PatchedStore(nxt, prv)
<1>2. /\ DOMAIN d = StoreFields /\ d = WithKeys(d, d.key, d.prv)
      /\ d.len = SourceOracle.newSize /\ d.size = [ty \in Types |-> TargetOracle(ty).newSize]
      /\ DOMAIN d.key = 0 .. d.len - 1 /\ DOMAIN d.type = 0 .. d.len - 1
      /\ DOMAIN d.nxt = 0 .. d.len - 1 /\ DOMAIN d.prv = 0 .. d.len - 1
      /\ \A ty \in Types : /\ DOMAIN d.head[ty] = 0 .. d.size[ty] - 1
                           /\ DOMAIN d.cnt[ty] = 0 .. d.size[ty] - 1
      /\ \A p \in 0 .. d.len - 1 : d.type[p] \in RowTypes
      /\ d.key = [x \in DOMAIN d.key |-> d.key[x]]
      /\ d.prv = [x \in DOMAIN d.prv |-> d.prv[x]]
  BY PatchedShape
<1>3. db' = FixAll(d)
  BY <1>1 DEF Commit
<1> HIDE DEF d
<1>4. PICK v : FixAll(d) = v[NTypes] /\ \A k \in 0 .. NTypes : KeepsShape(v[k], d)
  BY <1>2, FixesExist
<1>5. KeepsShape(db', d)
  <2>1. NTypes \in 0 .. NTypes
    BY KeyAssumption
  <2> QED
    BY <1>3, <1>4, <2>1
<1>6. /\ d.len \in 0 .. MaxRows
      /\ \A ty \in Types : d.size[ty] \in 0 .. MaxTargets[ty]
  BY <1>2, CommitSizes
<1>7. /\ Rows' = 0 .. d.len - 1 /\ \A ty \in Types : TargetRows(ty)' = 0 .. d.size[ty] - 1
      /\ Types' = Types /\ RowTypes' = RowTypes
  BY <1>5 DEF Rows, TargetRows, KeepsShape, Types, RowTypes, NoType
<1> QED
  BY <1>2, <1>5, <1>6, <1>7 DEF StoreTyped, KeepsShape

\* A commit that raised half-way changes nothing that is looked at again.
LEMMA TornTyped ==
  ASSUME WellTyped, CommitTorn
  PROVE  StoreTyped'
<1>1. db' = [db EXCEPT !.torn = TRUE] /\ StoreTyped
  BY DEF CommitTorn, WellTyped
<1>2. /\ DOMAIN db' = DOMAIN db /\ db'.len = db.len /\ db'.size = db.size
      /\ db'.key = db.key /\ db'.type = db.type /\ db'.nxt = db.nxt /\ db'.prv = db.prv
      /\ db'.head = db.head /\ db'.cnt = db.cnt
  BY <1>1 DEF StoreTyped, StoreFields
<1>3. /\ Rows' = Rows /\ \A ty \in Types : TargetRows(ty)' = TargetRows(ty)
      /\ Types' = Types /\ RowTypes' = RowTypes
  BY <1>2 DEF Rows, TargetRows, Types, RowTypes, NoType
<1> QED
  BY <1>1, <1>2, <1>3 DEF StoreTyped

LEMMA StepTyped ==
  ASSUME WellTyped, [Next]_vars
  PROVE  WellTyped'
<1>1. CASE Begin \/ Commit \/ CommitTorn \/ CommitRefused \/ Rollback
  <2>1. StoreTyped'
    <3>1. CASE db' = db
      BY <3>1, StoreUntouched DEF WellTyped
    <3>2. CASE Commit
      BY <3>2, CommitTyped
    <3>3. CASE CommitTorn
      BY <3>3, TornTyped
    <3> QED
      BY <1>1, <3>1, <3>2, <3>3 DEF Begin, CommitRefused, Rollback
  <2>2. tx' = NoTx \/ tx' = [NoTx EXCEPT !.open = TRUE]
    BY <1>1 DEF Begin, Commit, CommitTorn, CommitRefused, Rollback
  <2>3. (StoreTyped /\ (tx = NoTx \/ tx = [NoTx EXCEPT !.open = TRUE]) => EditsTyped)'
    BY NothingStagedTyped, PTL
  <2>4. NoTx' = NoTx
    BY DEF NoTx, Types, NoRows
  <2> QED
    BY <2>1, <2>2, <2>3, <2>4 DEF WellTyped
<1>2. CASE \E n \in 1 .. MaxStaged : \E rows \in [1 .. n -> References] : AddEntries(rows)
  <2>1. PICK n \in 1 .. MaxStaged : \E rows \in [1 .. n -> References] : AddEntries(rows)
    BY <1>2
  <2>2. PICK rows \in [1 .. n -> References] : AddEntries(rows)
    BY <2>1
  <2>3. n \in Nat
    BY BoundAssumption
  <2> QED
    BY <2>2, <2>3, AddTyped
<1>3. CASE \E ty \in Types : \E n \in 1 .. MaxStaged : AddTargets(ty, n)
  BY <1>3, AddTargetsTyped
<1>4. CASE UpdateKeys
  <2>1. PICK rows \in Named(db.len + Len(tx.additions)) :
          \/ \E ref \in References : UpdateEntries(rows, {ref.key}, {ref.type})
          \/ \E k : UpdateEntries(rows, {k}, {})
    BY <1>4 DEF UpdateKeys
  <2>2. rows \in SUBSET Nat
    <3>1. db.len + Len(tx.additions) \in Nat
      BY Sizes
    <3> QED
      BY <3>1 DEF Named
  <2>3. CASE \E ref \in References : UpdateEntries(rows, {ref.key}, {ref.type})
    <3>1. PICK ref \in References : UpdateEntries(rows, {ref.key}, {ref.type})
      BY <2>3
    <3>2. {ref.type} \in SUBSET RowTypes
      BY DEF References, RowTypes
    <3> QED
      BY <2>2, <3>1, <3>2, UpdateTyped
  <2>4. CASE \E k : UpdateEntries(rows, {k}, {})
    <3>1. PICK k : UpdateEntries(rows, {k}, {})
      BY <2>4
    <3>2. {} \in SUBSET RowTypes
      OBVIOUS
    <3> QED
      BY <2>2, <3>1, <3>2, UpdateTyped
  <2> QED
    BY <2>1, <2>3, <2>4
<1>5. CASE \E ty \in Types :
             \E ids \in Named(db.size[ty] + tx.added[ty]) : DelTargets(ty, ids)
  BY <1>5, DelTargetsTyped
<1>6. CASE \E ids \in Named(db.len + Len(tx.additions)) : DelEntries(ids)
  BY <1>6, DelEntriesTyped
<1>7. CASE UNCHANGED vars
  BY <1>7, NothingStagedByCall DEF vars
<1> QED
  BY <1>1, <1>2, <1>3, <1>4, <1>5, <1>6, <1>7 DEF Next

LEMMA TypesKept == Spec => []WellTyped
<1>1. WellTyped /\ [Next]_vars => WellTyped'
  BY StepTyped
<1> QED
  BY InitTyped, <1>1, PTL DEF Spec

\* The tables and the edits have their types, whatever the callers do.
THEOREM TypeCorrect == Spec => []TypeOK
BY TypesKept, WellTypedIsTypeOK, PTL

(***************************************************************************)
(* The lists of each type.                                                 *)
(***************************************************************************)
\* The rows after a commit, in indices from before it, and their new places.
LiveRows == Live(db.len, Len(tx.additions), tx.deleted)
StagedRows == db.len .. db.len + Len(tx.additions) - 1
NewPlace == NumberedBy(db.len, Len(tx.additions), tx.deleted)
PlacesAfter == Places(db.len, Len(tx.additions), tx.deleted)

\* Those of the target table of type ty.
LiveTargets(ty) == Live(db.size[ty], tx.added[ty], tx.gone[ty])
NewTarget(ty) == NumberedBy(db.size[ty], tx.added[ty], tx.gone[ty])
TargetsAfter(ty) == Places(db.size[ty], tx.added[ty], tx.gone[ty])

\* The type that a row, or a staged one, has after a commit.
TypeAfter(x) == IF x \in Rows THEN NewType(x) ELSE tx.additions[x - db.len + 1].type

RowsOfType(ty) == {r \in Rows : db.type[r] = ty}
LiveOfType(ty) == {x \in LiveRows : TypeAfter(x) = ty}

\* The columns of the rows of a type, as of a plain key.
ColumnsOf(ty) == PartOf(Group(ty), RowsOfType(ty))

\* The lists of every type are linked.
ListsLinked ==
  \A ty \in Types : \E ord : Linked(RowsOfType(ty), TargetRows(ty), ColumnsOf(ty), ord)

\* Every count is the number of rows that have the type and the key.
CountsExact ==
  TrackCounts =>
    \A ty \in Types : \A t \in TargetRows(ty) :
      db.cnt[ty][t] = Cardinality(RowsTo(RowsOfType(ty), db.key, t))

\* A reference is a type and a key of the table it names.
LEMMA ReferencesAre ==
  ASSUME NEW a \in References
  PROVE  /\ a = [type |-> a.type, key |-> a.key] /\ a.type \in RowTypes
         /\ a.type \in Types => a.key \in KeysTo(a.type)
<1>1. CASE a \in [type : {NoType}, key : {Missing}]
  <2>1. a = [type |-> a.type, key |-> a.key] /\ a.type = NoType
    BY <1>1
  <2>2. NoType \notin Types
    BY KeyAssumption DEF NoType, Types
  <2> QED
    BY <2>1, <2>2 DEF RowTypes
<1>2. CASE \E ty \in Types : a \in [type : {ty}, key : KeysTo(ty)]
  <2>1. PICK ty \in Types : a \in [type : {ty}, key : KeysTo(ty)]
    BY <1>2
  <2>2. a = [type |-> a.type, key |-> a.key] /\ a.type = ty /\ a.key \in KeysTo(ty)
    BY <2>1
  <2> QED
    BY <2>2 DEF RowTypes
<1> QED
  BY <1>1, <1>2 DEF References

\* A staged key is one that the program may write.  The half of a relink that
\* no call sets is the one of the committed row.
StagedKeysExist ==
  /\ \A k \in DOMAIN tx.additions : tx.additions[k] \in References
  /\ \A i \in DOMAIN tx.relinks :
       /\ NewType(tx.relinks[i].row) \in Types =>
            tx.relinks[i].target \in KeysTo(NewType(tx.relinks[i].row))
       /\ tx.relinks[i].row \notin tx.keySet =>
            tx.relinks[i].target = db.key[tx.relinks[i].row]
  /\ \A r \in Relinked \ tx.typeSet : NewType(r) = db.type[r]

\* The sentinels of the targets' index dtypes are the one of the keys.
NullsAlike == \A ty \in Types : NullOf[ty] = Missing

\* A transaction that commits.
Committing ==
  /\ WellTyped /\ StagedKeysExist /\ StagedKeysLive /\ DeletionsClosed
  /\ RelinkedRowsStay /\ RelinkTargetsStay /\ RelinkTargetsKeepTheirIndex
  /\ RelinkOrAdd /\ NeighboursOfRetypedStay
  /\ ~CannotFinish /\ NullsAlike

\* The rows of the table in their new places.
LEMMA RowsNumbered ==
  ASSUME WellTyped
  PROVE  /\ Numbers(NewPlace, LiveRows, PlacesAfter)
         /\ Missing \notin LiveRows /\ Missing \notin PlacesAfter /\ Missing \notin Rows
         /\ IsFiniteSet(LiveRows) /\ IsFiniteSet(PlacesAfter) /\ IsFiniteSet(Rows)
         /\ LiveRows = (Rows \ tx.deleted) \cup StagedRows
         /\ tx.deleted \subseteq Rows /\ Rows \cap StagedRows = {}
         /\ \A x \in LiveRows \cup {Missing} : To(NewPlace, x) = Resolve(SourceOracle, x)
         /\ \A x, y \in LiveRows :
              Resolve(SourceOracle, x) = Resolve(SourceOracle, y) => x = y
         /\ \A x \in LiveRows : Resolve(SourceOracle, x) # Missing
         /\ \A x \in tx.deleted \cup {Missing} : Resolve(SourceOracle, x) = Missing
         /\ \A x \in LiveRows : Resolve(SourceOracle, x) \in PlacesAfter
         /\ DOMAIN SourceOracle.moves \subseteq Rows \ tx.deleted
<1>1. Plannable(db.len, Len(tx.additions), tx.deleted)
  BY OraclesPlan
<1>2. DOMAIN SourceOracle.moves \subseteq Rows \ tx.deleted
  BY <1>1, LiveMoves DEF SourceOracle, Rows
<1>3. db.len \in Nat /\ Len(tx.additions) \in Nat /\ db.len + Len(tx.additions) <= Missing
      /\ IsFiniteSet(Rows)
  BY Sizes
<1>4. Missing \notin Rows /\ Rows \cap StagedRows = {}
  BY <1>3 DEF Rows, StagedRows
<1> QED
  BY <1>1, <1>2, <1>3, <1>4, LiveNumbered
    DEF NewPlace, LiveRows, PlacesAfter, Rows, StagedRows, SourceOracle

\* Those of a target table in theirs.
LEMMA TargetsNumbered ==
  ASSUME WellTyped, NEW ty \in Types
  PROVE  /\ Numbers(NewTarget(ty), LiveTargets(ty), TargetsAfter(ty))
         /\ Missing \notin LiveTargets(ty) /\ Missing \notin TargetsAfter(ty)
         /\ IsFiniteSet(LiveTargets(ty)) /\ IsFiniteSet(TargetsAfter(ty))
         /\ TargetRows(ty) \subseteq LiveTargets(ty) \cup tx.gone[ty]
         /\ tx.gone[ty] \subseteq TargetRows(ty) /\ tx.gone[ty] \cap LiveTargets(ty) = {}
         /\ KeysTo(ty) \subseteq LiveTargets(ty) \cup tx.gone[ty] \cup {Missing}
         /\ \A x \in LiveTargets(ty) \cup {Missing} :
              To(NewTarget(ty), x) = Resolve(TargetOracle(ty), x)
         /\ \A x, y \in LiveTargets(ty) :
              Resolve(TargetOracle(ty), x) = Resolve(TargetOracle(ty), y) => x = y
         /\ \A x \in LiveTargets(ty) : Resolve(TargetOracle(ty), x) # Missing
         /\ \A x \in tx.gone[ty] \cup {Missing} : Resolve(TargetOracle(ty), x) = Missing
         /\ \A x \in LiveTargets(ty) : Resolve(TargetOracle(ty), x) \in TargetsAfter(ty)
         /\ TargetOracle(ty).deletions = tx.gone[ty]
<1> DEFINE n == db.size[ty]
           a == tx.added[ty]
           del == tx.gone[ty]
<1>1. Plannable(n, a, del)
  BY OraclesPlan
<1>2. /\ Numbers(NewTarget(ty), LiveTargets(ty), TargetsAfter(ty))
      /\ Missing \notin LiveTargets(ty) /\ Missing \notin TargetsAfter(ty)
      /\ IsFiniteSet(LiveTargets(ty)) /\ IsFiniteSet(TargetsAfter(ty))
      /\ LiveTargets(ty) = ((0 .. n - 1) \ del) \cup (n .. n + a - 1)
      /\ del \subseteq 0 .. n - 1
      /\ \A x \in LiveTargets(ty) \cup {Missing} :
           To(NewTarget(ty), x) = Resolve(TargetOracle(ty), x)
      /\ \A x, y \in LiveTargets(ty) :
           Resolve(TargetOracle(ty), x) = Resolve(TargetOracle(ty), y) => x = y
      /\ \A x \in LiveTargets(ty) : Resolve(TargetOracle(ty), x) # Missing
      /\ \A x \in del \cup {Missing} : Resolve(TargetOracle(ty), x) = Missing
      /\ \A x \in LiveTargets(ty) : Resolve(TargetOracle(ty), x) \in TargetsAfter(ty)
  BY <1>1, LiveNumbered DEF NewTarget, LiveTargets, TargetsAfter, TargetOracle
<1>3. n \in Nat /\ a \in Nat
  BY Sizes
<1>4. TargetRows(ty) = 0 .. n - 1 /\ KeysTo(ty) = (0 .. n + a - 1) \cup {Missing}
  BY DEF TargetRows, KeysTo
<1>5. TargetOracle(ty).deletions = del
  BY DEF TargetOracle, Oracle
<1> HIDE DEF n, a, del
<1>6. 0 .. n + a - 1 \subseteq (0 .. n - 1) \cup (n .. n + a - 1)
  BY <1>3
<1>7. (0 .. n - 1) \cap (n .. n + a - 1) = {}
  BY <1>3
<1>8. del \cap LiveTargets(ty) = {}
  BY <1>2, <1>7
<1>9. /\ TargetRows(ty) \subseteq LiveTargets(ty) \cup del
      /\ KeysTo(ty) \subseteq LiveTargets(ty) \cup del \cup {Missing}
      /\ del \subseteq TargetRows(ty)
  BY <1>2, <1>4, <1>6
<1> QED
  BY <1>2, <1>5, <1>8, <1>9 DEF del

\* The rows that leave the lists of a type, and those it has afterwards.
LEMMA RowsOfCommit ==
  ASSUME Committing, NEW ty \in Types
  PROVE  /\ RowsOfType(ty) \subseteq Rows /\ IsFiniteSet(RowsOfType(ty))
         /\ Relinked \subseteq Rows
         /\ Dead = tx.deleted \cup Relinked /\ Relinked \cap tx.deleted = {}
         /\ Dead \subseteq Rows
         /\ DeadOf(ty) = Dead \cap RowsOfType(ty)
         /\ \A x \in Rows \ Dead : NewType(x) = db.type[x]
         /\ LiveOfType(ty) = (RowsOfType(ty) \ DeadOf(ty))
                               \cup {r \in Relinked : NewType(r) = ty}
                               \cup {x \in StagedRows : TypeAfter(x) = ty}
<1>1. WellTyped /\ ~CannotFinish /\ RelinkedRowsStay
  BY DEF Committing
<1>2. /\ LiveRows = (Rows \ tx.deleted) \cup StagedRows
      /\ tx.deleted \subseteq Rows /\ Rows \cap StagedRows = {} /\ IsFiniteSet(Rows)
      /\ \A x \in LiveRows : Resolve(SourceOracle, x) # Missing
  BY <1>1, RowsNumbered
<1>3. Relinked \subseteq Rows /\ Relinked = DOMAIN tx.retypes /\ tx.unlinks \subseteq Rows
  BY <1>1 DEF WellTyped, EditsTyped, RelinksTyped, DeletionsTyped
<1>4. Relinked \cap tx.deleted = {}
  BY <1>1 DEF RelinkedRowsStay
<1>5. tx.unlinks \subseteq tx.deleted
  BY <1>1, <1>2, <1>3 DEF CannotFinish
<1>6. Dead = tx.deleted \cup Relinked
  BY <1>5 DEF Dead
<1>7. RowsOfType(ty) \subseteq Rows /\ IsFiniteSet(RowsOfType(ty))
  BY <1>2, FS_Subset DEF RowsOfType
<1>8. DeadOf(ty) = Dead \cap RowsOfType(ty)
  BY <1>2, <1>3, <1>6 DEF DeadOf, RowsOfType
<1>9. \A x \in Rows \ Dead : NewType(x) = db.type[x]
  BY <1>3, <1>6 DEF NewType
<1>10. \A x \in LiveOfType(ty) : \/ x \in RowsOfType(ty) \ DeadOf(ty)
                                 \/ x \in Relinked /\ NewType(x) = ty
                                 \/ x \in StagedRows /\ TypeAfter(x) = ty
  BY <1>2, <1>6, <1>8, <1>9 DEF LiveOfType, TypeAfter, RowsOfType
<1>11. /\ RowsOfType(ty) \ DeadOf(ty) \subseteq LiveOfType(ty)
       /\ \A x \in Relinked : NewType(x) = ty => x \in LiveOfType(ty)
       /\ \A x \in StagedRows : TypeAfter(x) = ty => x \in LiveOfType(ty)
  BY <1>2, <1>3, <1>4, <1>6, <1>8, <1>9 DEF LiveOfType, TypeAfter, RowsOfType
<1>12. LiveOfType(ty) = (RowsOfType(ty) \ DeadOf(ty))
                          \cup {r \in Relinked : NewType(r) = ty}
                          \cup {x \in StagedRows : TypeAfter(x) = ty}
  BY <1>10, <1>11
<1> QED
  BY <1>2, <1>3, <1>4, <1>6, <1>7, <1>8, <1>9, <1>12

(***************************************************************************)
(* What a commit puts into the lists.                                      *)
(***************************************************************************)
\* The items put into the lists of a type: relinked rows, then staged ones.
Arriving(ty) == RelinksTo(ty) \o StagedOf(ty)

RelinkedTo(ty) == {r \in Relinked : NewType(r) = ty}
StagedAs(ty) == {x \in StagedRows : TypeAfter(x) = ty}

RelinkPlaces(ty) == {i \in DOMAIN tx.relinks : NewType(tx.relinks[i].row) = ty}
StagedPlaces(ty) == {k \in DOMAIN tx.additions : tx.additions[k].type = ty}

\* The relinks of the rows that are to have the type.
LEMMA RelinksAre ==
  ASSUME WellTyped, NEW ty
  PROVE  LET e == RelinksTo(ty)
             m == Cardinality(RelinkPlaces(ty))
         IN  /\ AreItems(e, m, RelinkedTo(ty))
             /\ \A i \in 1 .. m : \E k \in RelinkPlaces(ty) : e[i] = tx.relinks[k]
             /\ \A k \in RelinkPlaces(ty) : \E i \in 1 .. m : e[i] = tx.relinks[k]
<1> DEFINE n == Len(tx.relinks)
           s == tx.relinks
           P == RelinkPlaces(ty)
<1>1. /\ DOMAIN s = 1 .. n /\ n \in Nat
      /\ \A i, j \in 1 .. n : s[i].row = s[j].row => i = j
  BY DEF WellTyped, EditsTyped, RelinksTyped
<1>2. P \in SUBSET (1 .. n)
  BY <1>1 DEF RelinkPlaces
<1>3. RelinksTo(ty) = EntriesAt(s, P)
  BY DEF RelinksTo, RelinkPlaces
<1>4. {s[k].row : k \in P} = RelinkedTo(ty)
  BY DEF RelinkedTo, Relinked, RelinkPlaces
<1> HIDE DEF n, s, P
<1>5. /\ AreItems(EntriesAt(s, P), Cardinality(P), {s[k].row : k \in P})
      /\ \A i \in 1 .. Cardinality(P) : \E k \in P : EntriesAt(s, P)[i] = s[k]
      /\ \A k \in P : \E i \in 1 .. Cardinality(P) : EntriesAt(s, P)[i] = s[k]
  BY <1>1, <1>2, PickedItems
<1> QED
  BY <1>3, <1>4, <1>5 DEF s, P

\* A staged row as an item.
StagedItem(k) ==
  [row    |-> SourceOracle.start + (k - 1),
   target |-> tx.additions[k].key,
   type   |-> tx.additions[k].type]

\* The staged rows of the type.
LEMMA StagedAre ==
  ASSUME WellTyped, NEW ty
  PROVE  LET e == StagedOf(ty)
             m == Cardinality(StagedPlaces(ty))
         IN  /\ AreItems(e, m, StagedAs(ty))
             /\ \A i \in 1 .. m : \E k \in StagedPlaces(ty) : e[i] = StagedItem(k)
             /\ \A k \in StagedPlaces(ty) : \E i \in 1 .. m : e[i] = StagedItem(k)
             /\ \A k \in StagedPlaces(ty) : StagedItem(k).row = db.len + (k - 1)
<1> DEFINE n == Len(tx.additions)
           s == [k \in DOMAIN tx.additions |-> StagedItem(k)]
           P == StagedPlaces(ty)
           len == db.len
<1>1. DOMAIN tx.additions = 1 .. n /\ n \in Nat /\ len \in Nat
  BY Sizes
<1>2. \A k : StagedItem(k).row = len + (k - 1)
  BY DEF StagedItem, SourceOracle, Oracle
<1>3. /\ DOMAIN s = 1 .. n
      /\ \A k \in 1 .. n : s[k] = StagedItem(k) /\ s[k].row = len + (k - 1)
  BY <1>1, <1>2
<1>4. P \in SUBSET (1 .. n)
  BY <1>1 DEF StagedPlaces
<1>5. StagedOf(ty) = EntriesAt(s, P)
  <2>1. s = [k \in DOMAIN tx.additions |->
               [row    |-> SourceOracle.start + (k - 1),
                target |-> tx.additions[k].key,
                type   |-> tx.additions[k].type]]
    BY DEF StagedItem
  <2>2. {k \in DOMAIN s : s[k].type = ty} = P
    BY DEF StagedItem, StagedPlaces
  <2> HIDE DEF s, P
  <2> QED
    BY <2>1, <2>2 DEF StagedOf
<1>6. {len + (k - 1) : k \in P} = StagedAs(ty)
  <2>1. StagedRows = len .. len + n - 1 /\ Rows = 0 .. len - 1
    BY DEF StagedRows, Rows
  <2>2. \A x \in StagedRows : /\ TypeAfter(x) = tx.additions[x - len + 1].type
                              /\ x - len + 1 \in 1 .. n /\ x = len + ((x - len + 1) - 1)
    <3> SUFFICES ASSUME NEW x \in StagedRows
                 PROVE  /\ TypeAfter(x) = tx.additions[x - len + 1].type
                        /\ x - len + 1 \in 1 .. n /\ x = len + ((x - len + 1) - 1)
      OBVIOUS
    <3>1. x \notin Rows
      BY <1>1, <2>1
    <3>2. TypeAfter(x) = tx.additions[x - len + 1].type
      BY <3>1 DEF TypeAfter
    <3> HIDE DEF n, len
    <3>3. x - len + 1 \in 1 .. n /\ x = len + ((x - len + 1) - 1)
      BY <1>1, <2>1
    <3> QED
      BY <3>2, <3>3
  <2>3. \A k \in 1 .. n : len + (k - 1) \in StagedRows /\ (len + (k - 1)) - len + 1 = k
    <3> HIDE DEF n, len
    <3> QED
      BY <1>1, <2>1
  <2>4. \A k \in P : len + (k - 1) \in StagedAs(ty)
    <3> SUFFICES ASSUME NEW k \in P PROVE len + (k - 1) \in StagedAs(ty)
      OBVIOUS
    <3>1. k \in 1 .. n /\ tx.additions[k].type = ty
      BY <1>4 DEF StagedPlaces
    <3> DEFINE x == len + (k - 1)
    <3>2. x \in StagedRows /\ x - len + 1 = k
      BY <2>3, <3>1
    <3> HIDE DEF x, len
    <3>3. TypeAfter(x) = ty
      BY <2>2, <3>1, <3>2
    <3> QED
      BY <3>2, <3>3 DEF StagedAs, x
  <2>5. \A x \in StagedAs(ty) : \E k \in P : x = len + (k - 1)
    <3> SUFFICES ASSUME NEW x \in StagedAs(ty) PROVE \E k \in P : x = len + (k - 1)
      OBVIOUS
    <3>1. x \in StagedRows /\ TypeAfter(x) = ty
      BY DEF StagedAs
    <3> DEFINE k == x - len + 1
    <3>2. k \in 1 .. n /\ x = len + (k - 1) /\ tx.additions[k].type = ty
      BY <2>2, <3>1
    <3> HIDE DEF k, len, n
    <3>3. k \in P
      BY <1>1, <3>2 DEF StagedPlaces
    <3> QED
      BY <3>2, <3>3
  <2> HIDE DEF P, len
  <2> QED
    BY <2>4, <2>5
<1> HIDE DEF n, s, P, len
<1>7. \A i, j \in 1 .. n : s[i].row = s[j].row => i = j
  BY <1>1, <1>3
<1>8. /\ AreItems(EntriesAt(s, P), Cardinality(P), {s[k].row : k \in P})
      /\ \A i \in 1 .. Cardinality(P) : \E k \in P : EntriesAt(s, P)[i] = s[k]
      /\ \A k \in P : \E i \in 1 .. Cardinality(P) : EntriesAt(s, P)[i] = s[k]
  <2>1. n \in Nat
    BY <1>1
  <2> QED
    BY ONLY <2>1, <1>4, <1>7, PickedItems, ZenonT(60)
<1>9. {s[k].row : k \in P} = StagedAs(ty)
  BY <1>3, <1>4, <1>6
<1>10. \A k \in P : s[k] = StagedItem(k)
  BY <1>3, <1>4
<1> QED
  BY <1>2, <1>5, <1>8, <1>9, <1>10, ZenonT(60) DEF P, len

\* The target of a relink stays, at its index.
LEMMA RelinkTargets ==
  ASSUME Committing, NEW ty \in Types, NEW k \in RelinkPlaces(ty)
  PROVE  /\ tx.relinks[k].target \in LiveTargets(ty) \cup {Missing}
         /\ Resolve(TargetOracle(ty), tx.relinks[k].target) = tx.relinks[k].target
<1> DEFINE u == tx.relinks[k]
<1>1. WellTyped /\ StagedKeysExist /\ RelinkTargetsStay /\ RelinkTargetsKeepTheirIndex
  BY DEF Committing
<1>2. k \in DOMAIN tx.relinks /\ NewType(u.row) = ty
  BY DEF RelinkPlaces
<1>3. u \in TypedRelinks
  BY <1>2 DEF TypedRelinks
<1>4. /\ u.target \in KeysTo(ty) /\ u.target \notin tx.gone[ty]
      /\ Resolve(TargetOracle(ty), u.target) \in {u.target, Missing}
  BY <1>1, <1>2, <1>3 DEF StagedKeysExist, RelinkTargetsStay, RelinkTargetsKeepTheirIndex
<1>5. /\ KeysTo(ty) \subseteq LiveTargets(ty) \cup tx.gone[ty] \cup {Missing}
      /\ \A x \in LiveTargets(ty) : Resolve(TargetOracle(ty), x) # Missing
      /\ \A x \in tx.gone[ty] \cup {Missing} : Resolve(TargetOracle(ty), x) = Missing
  BY <1>1, TargetsNumbered
<1> HIDE DEF u
<1>6. u.target \in LiveTargets(ty) \cup {Missing}
  BY <1>4, <1>5
<1>7. Resolve(TargetOracle(ty), u.target) = u.target
  BY <1>4, <1>5, <1>6
<1> QED
  BY <1>6, <1>7 DEF u

\* So does that of a staged row.
LEMMA StagedTargets ==
  ASSUME Committing, NEW ty \in Types, NEW k \in StagedPlaces(ty)
  PROVE  /\ StagedItem(k).target = tx.additions[k].key
         /\ tx.additions[k].key \in LiveTargets(ty) \cup {Missing}
<1>1. WellTyped /\ StagedKeysExist /\ StagedKeysLive
  BY DEF Committing
<1>2. k \in DOMAIN tx.additions /\ tx.additions[k].type = ty
  BY DEF StagedPlaces
<1>3. tx.additions[k].key \in KeysTo(ty) /\ tx.additions[k].key \notin tx.gone[ty]
  <2>1. tx.additions[k] \in References
    BY <1>1, <1>2 DEF StagedKeysExist
  <2> QED
    BY <1>1, <1>2, <2>1, ReferencesAre DEF StagedKeysLive
<1>4. KeysTo(ty) \subseteq LiveTargets(ty) \cup tx.gone[ty] \cup {Missing}
  BY <1>1, TargetsNumbered
<1>5. StagedItem(k).target = tx.additions[k].key
  BY DEF StagedItem
<1> QED
  BY <1>3, <1>4, <1>5

Relinkings(ty) == Cardinality(RelinkPlaces(ty))
Stagings(ty) == Cardinality(StagedPlaces(ty))
Arrivals(ty) == Relinkings(ty) + Stagings(ty)

\* The items of a commit: which rows they are, and that their targets stay.
LEMMA ItemsOfCommit ==
  ASSUME Committing, NEW ty \in Types
  PROVE  LET e == RelinksTo(ty)
             s == StagedOf(ty)
             items == Arriving(ty)
             n == Relinkings(ty)
             m == Stagings(ty)
         IN  /\ AreItems(e, n, RelinkedTo(ty)) /\ AreItems(s, m, StagedAs(ty))
             /\ AreItems(items, n + m, RelinkedTo(ty) \cup StagedAs(ty))
             /\ Follow(e, n, s, m, items)
             /\ RelinkedTo(ty) \cap StagedAs(ty) = {}
             /\ \A i \in 1 .. n : \E k \in RelinkPlaces(ty) : e[i] = tx.relinks[k]
             /\ \A i \in 1 .. m : \E k \in StagedPlaces(ty) : s[i] = StagedItem(k)
             /\ \A k \in RelinkPlaces(ty) : \E i \in 1 .. n + m : items[i] = tx.relinks[k]
             /\ \A k \in StagedPlaces(ty) : \E i \in 1 .. n + m : items[i] = StagedItem(k)
             /\ \A i \in 1 .. n + m : (\E k \in RelinkPlaces(ty) : items[i] = tx.relinks[k])
                                      \/ (\E k \in StagedPlaces(ty) : items[i] = StagedItem(k))
             /\ \A i \in 1 .. n + m : items[i].target \in LiveTargets(ty) \cup {Missing}
<1> DEFINE e == RelinksTo(ty)
           s == StagedOf(ty)
           items == Arriving(ty)
           n == Relinkings(ty)
           m == Stagings(ty)
           P == RelinkPlaces(ty)
           Q == StagedPlaces(ty)
           N == 1 .. n + m
<1>1. WellTyped
  BY DEF Committing
<1>2. /\ AreItems(e, n, RelinkedTo(ty))
      /\ \A i \in 1 .. n : \E k \in P : e[i] = tx.relinks[k]
      /\ \A k \in P : \E i \in 1 .. n : e[i] = tx.relinks[k]
  BY <1>1, RelinksAre DEF Relinkings
<1>3. /\ AreItems(s, m, StagedAs(ty))
      /\ \A i \in 1 .. m : \E k \in Q : s[i] = StagedItem(k)
      /\ \A k \in Q : \E i \in 1 .. m : s[i] = StagedItem(k)
  BY <1>1, StagedAre DEF Stagings
<1>4. RelinkedTo(ty) \cap StagedAs(ty) = {}
  <2>1. Rows \cap StagedRows = {} /\ Relinked \subseteq Rows
    BY <1>1, RowsNumbered, RowsOfCommit
  <2> QED
    BY <2>1 DEF RelinkedTo, StagedAs
<1>5. items = e \o s
  BY DEF Arriving
<1> HIDE DEF e, s, items, n, m, P, Q
<1>6. /\ Follow(e, n, s, m, items) /\ AreItems(items, n + m, RelinkedTo(ty) \cup StagedAs(ty))
      /\ \A i \in 1 .. n : \E k \in N : items[k] = e[i]
      /\ \A i \in 1 .. m : \E k \in N : items[k] = s[i]
      /\ \A k \in N : (\E i \in 1 .. n : items[k] = e[i]) \/ (\E i \in 1 .. m : items[k] = s[i])
  <2>1. AreItems(e, n, RelinkedTo(ty)) /\ AreItems(s, m, StagedAs(ty))
    BY <1>2, <1>3
  <2>2. Joined(e, n, RelinkedTo(ty), s, m, StagedAs(ty), e \o s)
    BY ONLY <2>1, <1>4, ItemsJoin
  <2> QED
    BY <1>5, <2>2 DEF Joined
<1>7. \A k \in P : \E i \in N : items[i] = tx.relinks[k]
  BY <1>2, <1>6
<1>8. \A k \in Q : \E i \in N : items[i] = StagedItem(k)
  BY <1>3, <1>6
<1>9. \A i \in N : (\E k \in P : items[i] = tx.relinks[k])
                   \/ (\E k \in Q : items[i] = StagedItem(k))
  BY <1>2, <1>3, <1>6
<1>10. \A k \in P : tx.relinks[k].target \in LiveTargets(ty) \cup {Missing}
  BY RelinkTargets DEF P
<1>11. \A k \in Q : StagedItem(k).target \in LiveTargets(ty) \cup {Missing}
  BY StagedTargets DEF Q
<1> HIDE DEF N
<1>12. \A i \in N : items[i].target \in LiveTargets(ty) \cup {Missing}
  BY <1>9, <1>10, <1>11
<1> QED
  BY <1>2, <1>3, <1>4, <1>6, <1>7, <1>8, <1>9, <1>12 DEF e, s, items, n, m, P, Q, N

\* The heads a commit leaves to the items, and the rows it moves.
Ignored(ty) ==
  {StagedOf(ty)[k].target : k \in DOMAIN StagedOf(ty)} \cup TargetOracle(ty).deletions
    \cup {Resolve(TargetOracle(ty), RelinksTo(ty)[k].target) : k \in DOMAIN RelinksTo(ty)}

MovedOf(ty) == {r \in DOMAIN SourceOracle.moves \ Dead : db.type[r] = ty}

\* Every target whose head is left to the items gets an item, if it stays.
LEMMA IgnoredAreTargets ==
  ASSUME Committing, NEW ty \in Types, NEW t \in Ignored(ty) \cap LiveTargets(ty)
  PROVE  \E i \in 1 .. Arrivals(ty) : Arriving(ty)[i].target = t
<1> DEFINE e == RelinksTo(ty)
           s == StagedOf(ty)
           items == Arriving(ty)
           n == Relinkings(ty)
           m == Stagings(ty)
           N == 1 .. Arrivals(ty)
<1>1. WellTyped
  BY DEF Committing
<1>2. /\ DOMAIN e = 1 .. n /\ DOMAIN s = 1 .. m
      /\ \A i \in 1 .. n : \E k \in RelinkPlaces(ty) : e[i] = tx.relinks[k]
      /\ \A i \in 1 .. m : \E k \in StagedPlaces(ty) : s[i] = StagedItem(k)
      /\ \A k \in RelinkPlaces(ty) : \E i \in N : items[i] = tx.relinks[k]
      /\ \A k \in StagedPlaces(ty) : \E i \in N : items[i] = StagedItem(k)
  BY ItemsOfCommit DEF Arrivals, AreItems, Listed
<1>3. tx.gone[ty] \cap LiveTargets(ty) = {} /\ TargetOracle(ty).deletions = tx.gone[ty]
  BY <1>1, TargetsNumbered
<1> HIDE DEF e, s, items, n, m, N
<1>4. ASSUME NEW i \in 1 .. m, t = s[i].target PROVE \E k \in N : items[k].target = t
  BY <1>2, <1>4
<1>5. ASSUME NEW i \in 1 .. n, t = Resolve(TargetOracle(ty), e[i].target)
      PROVE  \E k \in N : items[k].target = t
  <2>1. PICK k \in RelinkPlaces(ty) : e[i] = tx.relinks[k]
    BY <1>2
  <2>2. Resolve(TargetOracle(ty), tx.relinks[k].target) = tx.relinks[k].target
    BY RelinkTargets
  <2> QED
    BY <1>2, <1>5, <2>1, <2>2
<1>6. \/ \E i \in 1 .. m : t = s[i].target
      \/ \E i \in 1 .. n : t = Resolve(TargetOracle(ty), e[i].target)
  BY <1>2, <1>3 DEF Ignored, e, s
<1> QED
  BY <1>4, <1>5, <1>6 DEF items, N

\* The keys of rows that stay do.
LEMMA KeptKeysStay ==
  ASSUME Committing, NEW ty \in Types, NEW ord,
         Linked(RowsOfType(ty), TargetRows(ty), ColumnsOf(ty), ord),
         NEW x \in RowsOfType(ty) \ DeadOf(ty)
  PROVE  /\ ColumnsOf(ty).fk[x] = db.key[x]
         /\ db.key[x] \in (LiveTargets(ty) \cap TargetRows(ty)) \cup {Missing}
<1>1. WellTyped /\ DeletionsClosed
  BY DEF Committing
<1>2. ColumnsOf(ty).fk[x] = db.key[x]
  BY DEF ColumnsOf, PartOf, Group
<1>3. db.key[x] \in TargetRows(ty) \cup {Missing}
  BY <1>2 DEF Linked, Columns
<1>4. x \in Rows /\ db.type[x] = ty /\ x \notin Dead
  BY DEF RowsOfType, DeadOf
<1>5. db.key[x] \notin tx.gone[ty]
  BY <1>1, <1>4 DEF DeletionsClosed, Dead, Typed
<1>6. TargetRows(ty) \subseteq LiveTargets(ty) \cup tx.gone[ty]
  BY <1>1, TargetsNumbered
<1> QED
  BY <1>2, <1>3, <1>5, <1>6

(***************************************************************************)
(* The patch of a type.                                                    *)
(***************************************************************************)
\* The rows of a type among all rows, which share the columns.
LEMMA TypeLinked ==
  ASSUME WellTyped, NEW ty \in Types, NEW ord,
         Linked(RowsOfType(ty), TargetRows(ty), ColumnsOf(ty), ord)
  PROVE  PartLinked(Rows, RowsOfType(ty), TargetRows(ty), Group(ty), ord)
<1>1. IsFiniteSet(Rows) /\ Missing \notin Rows
  BY RowsNumbered
<1>2. DOMAIN Group(ty).nxt = Rows
  BY DEF Group, WellTyped, StoreTyped
<1>3. RowsOfType(ty) \subseteq Rows
  BY DEF RowsOfType
<1> QED
  BY <1>1, <1>2, <1>3 DEF PartLinked, ColumnsOf

\* The phases of a patch write what they would write to the rows of the type
\* alone, and every relink survives.
LEMMA PhasesOfPatch ==
  ASSUME Committing, NEW ty \in Types, NEW ord,
         Linked(RowsOfType(ty), TargetRows(ty), ColumnsOf(ty), ord)
  PROVE  LET c == ColumnsOf(ty)
         IN  TypePatch(ty) = ThenPatch(ThenPatch(ThenPatch(
               PatchUnlinked(c, DeadOf(ty), Ignored(ty)),
               PatchRelocated(c, MovedOf(ty), Ignored(ty))),
               Splice(c, RelinksTo(ty), DeadOf(ty))),
               Splice(c, StagedOf(ty), DeadOf(ty)))
<1> DEFINE c == ColumnsOf(ty)
           C == Group(ty)
           I == RowsOfType(ty)
           T == TargetRows(ty)
           e == RelinksTo(ty)
           n == Relinkings(ty)
<1>1. WellTyped
  BY DEF Committing
<1>2. PartLinked(Rows, I, T, C, ord) /\ c = PartOf(C, I)
  BY <1>1, TypeLinked DEF ColumnsOf
<1>3. /\ Dead \in SUBSET Rows /\ DeadOf(ty) = Dead \cap I /\ Relinked \subseteq Rows
      /\ Dead = tx.deleted \cup Relinked /\ Relinked \cap tx.deleted = {}
  BY RowsOfCommit
<1>4. MovedOf(ty) \in SUBSET I
  BY <1>1, RowsNumbered DEF MovedOf, RowsOfType
<1>5. /\ Listed(e, n) /\ \A i \in 1 .. n : e[i].row \in RelinkedTo(ty)
  BY ItemsOfCommit DEF AreItems
<1>6. SplicedRelinks(C, SourceOracle, e) = Splice(C, e, Dead)
  <2>1. \A x \in RelinkedTo(ty) : Resolve(SourceOracle, x) # Missing
    BY <1>1, <1>3, RowsNumbered DEF RelinkedTo
  <2>2. {i \in DOMAIN e : Resolve(SourceOracle, e[i].row) # Missing} = 1 .. n
    BY <1>5, <2>1 DEF Listed
  <2>3. EntriesAt(e, 1 .. n) = e
    BY <1>5, AllEntries DEF Listed
  <2> HIDE DEF e, n, C
  <2> QED
    BY <2>2, <2>3 DEF SplicedRelinks
<1>7. TypePatch(ty) = ThenPatch(ThenPatch(ThenPatch(
               PatchUnlinked(C, DeadOf(ty), Ignored(ty)),
               PatchRelocated(C, MovedOf(ty), Ignored(ty))),
               Splice(C, e, Dead)),
               Splice(C, StagedOf(ty), Dead))
  BY <1>6 DEF TypePatch, Ignored, MovedOf, SplicedStaged
<1> HIDE DEF C, c, I, T, e
<1>8. DeadOf(ty) \in SUBSET I
  BY <1>3
<1>9. PatchUnlinked(C, DeadOf(ty), Ignored(ty)) = PatchUnlinked(c, DeadOf(ty), Ignored(ty))
  BY <1>2, <1>8, PartUnlinked
<1>10. PatchRelocated(C, MovedOf(ty), Ignored(ty)) = PatchRelocated(c, MovedOf(ty), Ignored(ty))
  BY <1>2, <1>4, PartRelocated
<1>11. \A items : Splice(C, items, Dead) = Splice(c, items, DeadOf(ty))
  BY <1>2, <1>3, PartSplice
<1> QED
  BY <1>7, <1>9, <1>10, <1>11 DEF c, e

\* The patch of a type is one that keeps the rows that stay in their order,
\* followed by one splice of all items.
LEMMA PatchOfCommit ==
  ASSUME Committing, NEW ty \in Types, NEW ord,
         Linked(RowsOfType(ty), TargetRows(ty), ColumnsOf(ty), ord)
  PROVE  \E q, s :
           /\ SplicedAfterKept(RowsOfType(ty), TargetRows(ty), ColumnsOf(ty), ord, DeadOf(ty),
                               MovedOf(ty), Ignored(ty), q, Arrivals(ty), Arriving(ty), s,
                               LiveTargets(ty))
           /\ TypePatch(ty) = ThenPatch(q, s)
<1> DEFINE I == RowsOfType(ty)
           T == TargetRows(ty)
           c == ColumnsOf(ty)
           dead == DeadOf(ty)
           upd == RelinksTo(ty)
           st == StagedOf(ty)
           items == Arriving(ty)
           u == Relinkings(ty)
           a == Stagings(ty)
           moved == MovedOf(ty)
           ignore == Ignored(ty)
           LT == LiveTargets(ty)
           q == ThenPatch(PatchUnlinked(c, dead, ignore), PatchRelocated(c, moved, ignore))
           s1 == Splice(c, upd, dead)
           s2 == Splice(c, st, dead)
<1>1. WellTyped /\ RelinkOrAdd /\ StagedKeysExist
  BY DEF Committing
<1>2. /\ I \subseteq Rows /\ IsFiniteSet(I) /\ Relinked \subseteq Rows
      /\ Dead = tx.deleted \cup Relinked /\ dead = Dead \cap I
  BY RowsOfCommit
<1>3. Rows \cap StagedRows = {} /\ Missing \notin Rows /\ Missing \notin LiveRows
      /\ StagedRows \subseteq LiveRows
  BY <1>1, RowsNumbered
<1>4. moved \in SUBSET I /\ moved \cap dead = {} /\ dead \in SUBSET I
  BY <1>1, <1>2, RowsNumbered DEF MovedOf, RowsOfType
<1>5. TypePatch(ty) = ThenPatch(ThenPatch(q, s1), s2)
  BY PhasesOfPatch
<1>6. /\ AreItems(upd, u, RelinkedTo(ty)) /\ AreItems(st, a, StagedAs(ty))
      /\ AreItems(items, u + a, RelinkedTo(ty) \cup StagedAs(ty))
      /\ Follow(upd, u, st, a, items)
      /\ RelinkedTo(ty) \cap StagedAs(ty) = {}
      /\ \A i \in 1 .. u : \E k \in RelinkPlaces(ty) : upd[i] = tx.relinks[k]
      /\ \A i \in 1 .. a : \E k \in StagedPlaces(ty) : st[i] = StagedItem(k)
      /\ \A i \in 1 .. u + a : items[i].target \in LT \cup {Missing}
  BY ItemsOfCommit
<1>7. \A i \in 1 .. u, j \in 1 .. a : upd[i].target = st[j].target => upd[i].target = Missing
  <2> SUFFICES ASSUME NEW i \in 1 .. u, NEW j \in 1 .. a, upd[i].target = st[j].target
               PROVE  upd[i].target = Missing
    OBVIOUS
  <2>1. PICK k \in RelinkPlaces(ty) : upd[i] = tx.relinks[k]
    BY <1>6
  <2>2. PICK l \in StagedPlaces(ty) : st[j] = StagedItem(l)
    BY <1>6
  <2>3. k \in DOMAIN tx.relinks /\ NewType(tx.relinks[k].row) = ty
    BY DEF RelinkPlaces
  <2>4. tx.relinks[k] \in TypedRelinks
    BY <2>3 DEF TypedRelinks
  <2>5. l \in DOMAIN tx.additions /\ tx.additions[l].type = ty
        /\ tx.additions[l].key = tx.relinks[k].target
    BY <2>1, <2>2 DEF StagedPlaces, StagedItem
  <2>6. tx.additions[l] = [type |-> tx.additions[l].type, key |-> tx.additions[l].key]
    BY <1>1, <2>5, ReferencesAre DEF StagedKeysExist
  <2> QED
    BY <1>1, <2>1, <2>3, <2>4, <2>5, <2>6 DEF RelinkOrAdd
<1>8. \A x \in RelinkedTo(ty) \cup StagedAs(ty) : x \notin I \ dead /\ x # Missing
  BY <1>2, <1>3 DEF RelinkedTo, StagedAs
<1>9. /\ u \in Nat /\ DOMAIN upd = 1 .. u /\ a \in Nat /\ DOMAIN st = 1 .. a
      /\ \A i, j \in 1 .. u : upd[i].row = upd[j].row => i = j
      /\ \A i, j \in 1 .. a : st[i].row = st[j].row => i = j
      /\ \A i \in 1 .. u : upd[i].row \in RelinkedTo(ty)
      /\ \A i \in 1 .. a : st[i].row \in StagedAs(ty)
  BY <1>6 DEF AreItems, Listed
<1>10. /\ u + a \in Nat /\ DOMAIN items = 1 .. u + a
       /\ \A i, j \in 1 .. u + a : items[i].row = items[j].row => i = j
       /\ \A i \in 1 .. u + a : items[i].row \in RelinkedTo(ty) \cup StagedAs(ty)
  BY <1>6 DEF AreItems, Listed
<1>11. \A t \in ignore \cap LT : \E i \in 1 .. u + a : items[i].target = t
  BY IgnoredAreTargets DEF Arrivals
<1>12. \A x \in I \ dead : c.fk[x] \in LT \cup {Missing}
  <2> SUFFICES ASSUME NEW x \in I \ dead PROVE c.fk[x] \in LT \cup {Missing}
    OBVIOUS
  <2>1. c.fk[x] = db.key[x] /\ db.key[x] \in (LT \cap T) \cup {Missing}
    BY KeptKeysStay
  <2> QED
    BY <2>1
<1>13. Missing \notin LT
  BY <1>1, TargetsNumbered
<1>14. Linked(I, T, c, ord)
  OBVIOUS
<1> HIDE DEF I, T, c, dead, upd, st, u, a, moved, ignore, LT, items
<1>15. /\ \A i \in 1 .. u : upd[i].row \notin I \ dead
       /\ \A i \in 1 .. a : st[i].row \notin I \ dead
       /\ \A i \in 1 .. u, j \in 1 .. a : upd[i].row # st[j].row
       /\ \A i \in 1 .. u + a : items[i].row \notin I \ dead /\ items[i].row # Missing
  BY <1>6, <1>8, <1>9, <1>10
<1>16. KeptLinks(I, T, c, ord, dead, moved, ignore, q)
  BY <1>2, <1>4, <1>14, KeptLinksHold
<1>17. SplicedLinks(c, upd, dead, s1)
  BY <1>2, <1>4, <1>9, <1>14, <1>15, SpliceLinks
<1>18. SplicedLinks(c, st, dead, s2)
  BY <1>2, <1>4, <1>9, <1>14, <1>15, SpliceLinks
<1> HIDE DEF q, s1, s2
<1>19. SplicedLinks(c, items, dead, ThenPatch(s1, s2))
  BY <1>2, <1>4, <1>6, <1>7, <1>9, <1>14, <1>15, <1>17, <1>18, SplicesJoin
<1>20. TypePatch(ty) = ThenPatch(q, ThenPatch(s1, s2))
  BY <1>5, PatchesCompose
<1>21. SplicedAfterKept(I, T, c, ord, dead, moved, ignore, q, u + a, items,
                        ThenPatch(s1, s2), LT)
  BY <1>2, <1>4, <1>6, <1>10, <1>11, <1>12, <1>13, <1>14, <1>15, <1>16, <1>19
    DEF SplicedAfterKept
<1> QED
  BY <1>20, <1>21 DEF I, T, c, dead, moved, ignore, LT, items, u, a, Arrivals

\* The key a live row has after the commit, in indices from before.
KeyAfter(x) ==
  IF x \in StagedRows THEN tx.additions[x - db.len + 1].key
  ELSE IF x \in Relinked THEN GivenTo(x)
  ELSE db.key[x]

HeadAfter(ty, t) ==
  IF t \in DOMAIN TypePatch(ty).head THEN TypePatch(ty).head[t]
  ELSE IF t \in TargetRows(ty) THEN db.head[ty][t] ELSE Missing

\* The columns of type ty after the commit, in indices from before.
ColumnsAfter(ty) ==
  [fk   |-> [x \in LiveOfType(ty) |-> KeyAfter(x)],
   nxt  |-> [x \in LiveOfType(ty) |-> PatchedAt(ColumnsOf(ty).nxt, TypePatch(ty).nxt, x)],
   prv  |-> [x \in LiveOfType(ty) |-> PatchedAt(ColumnsOf(ty).prv, TypePatch(ty).prv, x)],
   head |-> [t \in LiveTargets(ty) |-> HeadAfter(ty, t)]]

\* The key that an item sets is the one its row has.
LEMMA ItemKeys ==
  ASSUME WellTyped, NEW ty
  PROVE  /\ \A k \in RelinkPlaces(ty) :
              KeyAfter(tx.relinks[k].row) = tx.relinks[k].target
         /\ \A k \in StagedPlaces(ty) : KeyAfter(StagedItem(k).row) = StagedItem(k).target
<1>1. /\ \A i, j \in DOMAIN tx.relinks : tx.relinks[i].row = tx.relinks[j].row => i = j
      /\ Relinked \subseteq Rows
  BY DEF WellTyped, EditsTyped, RelinksTyped
<1>2. Rows \cap StagedRows = {}
  BY RowsNumbered
<1>3. ASSUME NEW k \in RelinkPlaces(ty)
      PROVE  KeyAfter(tx.relinks[k].row) = tx.relinks[k].target
  <2> DEFINE r == tx.relinks[k].row
  <2>1. k \in DOMAIN tx.relinks
    BY DEF RelinkPlaces
  <2>2. r \in Relinked /\ r \notin StagedRows
    BY <1>1, <1>2, <2>1 DEF Relinked
  <2>3. (CHOOSE i \in DOMAIN tx.relinks : tx.relinks[i].row = r) = k
    BY <1>1, <2>1
  <2> QED
    BY <2>2, <2>3 DEF KeyAfter, GivenTo
<1>4. ASSUME NEW k \in StagedPlaces(ty)
      PROVE  KeyAfter(StagedItem(k).row) = StagedItem(k).target
  <2> DEFINE x == StagedItem(k).row
             len == db.len
             a == Len(tx.additions)
  <2>1. x = len + (k - 1)
    BY StagedAre
  <2>2. k \in 1 .. a /\ len \in Nat /\ a \in Nat /\ StagedRows = len .. len + a - 1
    BY Sizes DEF StagedPlaces, StagedRows
  <2> HIDE DEF a, x
  <2>3. x \in StagedRows /\ x - len + 1 = k
    <3> HIDE DEF len
    <3> QED
      BY <2>1, <2>2
  <2>4. KeyAfter(x) = tx.additions[k].key
    BY <2>3 DEF KeyAfter
  <2> QED
    BY <2>4 DEF x, StagedItem
<1> QED
  BY <1>3, <1>4

\* The keys afterwards are those of the rows that stay and of the items.
LEMMA ColumnsAfterPatched ==
  ASSUME Committing, NEW ty \in Types
  PROVE  PatchedColumns(RowsOfType(ty), TargetRows(ty), ColumnsOf(ty), DeadOf(ty),
                        Arriving(ty), LiveOfType(ty), LiveTargets(ty), ColumnsAfter(ty),
                        TypePatch(ty))
<1> DEFINE n == Arrivals(ty)
           items == Arriving(ty)
           I == RowsOfType(ty)
           L == LiveOfType(ty)
           LT == LiveTargets(ty)
           dead == DeadOf(ty)
           c == ColumnsOf(ty)
           p == TypePatch(ty)
           d == ColumnsAfter(ty)
<1>1. WellTyped
  BY DEF Committing
<1>2. /\ AreItems(items, n, RelinkedTo(ty) \cup StagedAs(ty))
      /\ \A i \in 1 .. n : (\E k \in RelinkPlaces(ty) : items[i] = tx.relinks[k])
                           \/ (\E k \in StagedPlaces(ty) : items[i] = StagedItem(k))
  BY ItemsOfCommit DEF Arrivals
<1>3. /\ DOMAIN items = 1 .. n /\ {items[i].row : i \in 1 .. n} = RelinkedTo(ty) \cup StagedAs(ty)
  BY <1>2 DEF AreItems, Listed
<1>4. /\ L = (I \ dead) \cup RelinkedTo(ty) \cup StagedAs(ty)
      /\ Dead = tx.deleted \cup Relinked /\ dead = Dead \cap I /\ I \subseteq Rows
  BY RowsOfCommit DEF RelinkedTo, StagedAs
<1>5. /\ DOMAIN d.fk = L /\ DOMAIN d.nxt = L /\ DOMAIN d.prv = L /\ DOMAIN d.head = LT
      /\ \A x \in L : /\ d.fk[x] = KeyAfter(x)
                      /\ d.nxt[x] = PatchedAt(c.nxt, p.nxt, x)
                      /\ d.prv[x] = PatchedAt(c.prv, p.prv, x)
      /\ \A t \in LT : d.head[t] = HeadAfter(ty, t)
  BY DEF ColumnsAfter
<1>6. c.head = db.head[ty] /\ \A x \in I : c.fk[x] = db.key[x]
  BY DEF ColumnsOf, PartOf, Group
<1>7. \A t \in LT : d.head[t] = IF t \in DOMAIN p.head THEN p.head[t]
                                ELSE IF t \in TargetRows(ty) THEN c.head[t] ELSE Missing
  BY <1>5, <1>6 DEF HeadAfter
<1>8. Rows \cap StagedRows = {}
  BY <1>1, RowsNumbered
<1>9. /\ \A k \in RelinkPlaces(ty) : KeyAfter(tx.relinks[k].row) = tx.relinks[k].target
      /\ \A k \in StagedPlaces(ty) : KeyAfter(StagedItem(k).row) = StagedItem(k).target
  BY <1>1, ItemKeys
<1> HIDE DEF items, I, L, LT, dead, d, n, c, p
<1>10. ASSUME NEW x \in I \ dead PROVE d.fk[x] = c.fk[x]
  <2>1. x \in L /\ x \notin StagedRows /\ x \notin Relinked
    BY <1>4, <1>8
  <2> QED
    BY <1>5, <1>6, <2>1 DEF KeyAfter
<1>11. ASSUME NEW i \in 1 .. n PROVE d.fk[items[i].row] = items[i].target
  <2>1. items[i].row \in L
    BY <1>3, <1>4
  <2>2. KeyAfter(items[i].row) = items[i].target
    BY <1>2, <1>9
  <2> QED
    BY <1>5, <2>1, <2>2
<1>12. L = (I \ dead) \cup {items[i].row : i \in DOMAIN items}
  BY <1>3, <1>4
<1> QED
  BY <1>3, <1>5, <1>7, <1>10, <1>11, <1>12 DEF PatchedColumns, items, I, L, LT, dead, d, c, p

\* In indices from before, the patch leaves every list of the type linked.
LEMMA PatchedListsLinked ==
  ASSUME Committing, NEW ty \in Types, NEW ord,
         Linked(RowsOfType(ty), TargetRows(ty), ColumnsOf(ty), ord)
  PROVE  \E new : Linked(LiveOfType(ty), LiveTargets(ty), ColumnsAfter(ty), new)
<1> DEFINE I == RowsOfType(ty)
           T == TargetRows(ty)
           c == ColumnsOf(ty)
           dead == DeadOf(ty)
           items == Arriving(ty)
           L == LiveOfType(ty)
           LT == LiveTargets(ty)
           d == ColumnsAfter(ty)
           n == Arrivals(ty)
           ignore == Ignored(ty)
           moved == MovedOf(ty)
<1>1. PICK q, s : /\ SplicedAfterKept(I, T, c, ord, dead, moved, ignore, q, n, items, s, LT)
                  /\ TypePatch(ty) = ThenPatch(q, s)
  BY PatchOfCommit
<1>2. PatchedColumns(I, T, c, dead, items, L, LT, d, ThenPatch(q, s))
  BY <1>1, ColumnsAfterPatched
<1> HIDE DEF I, T, c, dead, items, L, LT, d, n, ignore, moved
<1>3. \E new : Linked(L, LT, d, new)
  BY <1>1, <1>2, PatchLinks
<1> QED
  BY <1>3 DEF L, LT, d

\* What the patch of a type writes.
LEMMA PatchOfTypeLeaves ==
  ASSUME Committing, NEW ty \in Types, NEW ord,
         Linked(RowsOfType(ty), TargetRows(ty), ColumnsOf(ty), ord)
  PROVE  Leaves(RowsOfType(ty), TargetRows(ty), ColumnsOf(ty), DeadOf(ty), MovedOf(ty),
                RelinkedTo(ty) \cup StagedAs(ty), LiveTargets(ty), TypePatch(ty))
<1> DEFINE I == RowsOfType(ty)
           T == TargetRows(ty)
           c == ColumnsOf(ty)
           dead == DeadOf(ty)
           items == Arriving(ty)
           LT == LiveTargets(ty)
           n == Arrivals(ty)
           ignore == Ignored(ty)
           moved == MovedOf(ty)
           rows == RelinkedTo(ty) \cup StagedAs(ty)
<1>1. PICK q, s : /\ SplicedAfterKept(I, T, c, ord, dead, moved, ignore, q, n, items, s, LT)
                  /\ TypePatch(ty) = ThenPatch(q, s)
  BY PatchOfCommit
<1>2. {items[i].row : i \in 1 .. n} = rows
  BY ItemsOfCommit DEF Arrivals, AreItems
<1> HIDE DEF I, T, c, dead, items, LT, n, ignore, moved, rows
<1>3. Leaves(I, T, c, dead, moved, {items[i].row : i \in 1 .. n}, LT, ThenPatch(q, s))
  BY <1>1, PatchLeaves
<1> QED
  BY <1>1, <1>2, <1>3 DEF I, T, c, dead, LT, moved, rows

(***************************************************************************)
(* The patches of all types in the links they share.                       *)
(***************************************************************************)
NxtWrites == [ty \in Types |-> TypePatch(ty).nxt]
PrvWrites == [ty \in Types |-> TypePatch(ty).prv]
TranslatedBy(w) == [ty \in Types |-> TranslateWrites(w[ty], SourceOracle, SourceOracle)]

\* Of the writes of several types to a row, those of its own type come last.
OwnTypeLast(w, x, ty) ==
  \A other \in Types \ {ty} : x \in DOMAIN w[other] => other < ty /\ x \in DOMAIN w[ty]

LEMMA LinksTranslated ==
  NxtPatches = TranslatedBy(NxtWrites) /\ PrvPatches = TranslatedBy(PrvWrites)
<1>1. \A ty : /\ PatchNow(ty).nxt = TranslateWrites(TypePatch(ty).nxt, SourceOracle, SourceOracle)
              /\ PatchNow(ty).prv = TranslateWrites(TypePatch(ty).prv, SourceOracle, SourceOracle)
  BY DEF PatchNow, Translate
<1>2. \A ty \in Types : NxtWrites[ty] = TypePatch(ty).nxt /\ PrvWrites[ty] = TypePatch(ty).prv
  BY DEF NxtWrites, PrvWrites
<1>3. NxtPatches = TranslatedBy(NxtWrites)
  BY <1>1, <1>2 DEF NxtPatches, TranslatedBy
<1>4. PrvPatches = TranslatedBy(PrvWrites)
  BY <1>1, <1>2 DEF PrvPatches, TranslatedBy
<1> QED
  BY <1>3, <1>4

\* A row gets what the patch of its own type writes.
LEMMA MergedWrites ==
  ASSUME WellTyped, NEW w, NEW m, MergedBy(m, TranslatedBy(w), NTypes),
         \A ty \in Types : DOMAIN w[ty] \subseteq LiveRows \cup tx.deleted,
         NEW own \in Types, NEW x \in LiveRows, OwnTypeLast(w, x, own), NEW col,
         NewPlace[x] \in DOMAIN col
  PROVE  Overwrite(col, m)[NewPlace[x]]
           = Overwrite(col, TranslateWrites(w[own], SourceOracle, SourceOracle))[NewPlace[x]]
<1> DEFINE so == SourceOracle
           p == NewPlace[x]
           tw == TranslatedBy(w)
<1>1. /\ \A i, j \in LiveRows : Resolve(so, i) = Resolve(so, j) => i = j
      /\ \A i \in LiveRows : Resolve(so, i) # Missing
      /\ \A i \in tx.deleted : Resolve(so, i) = Missing
      /\ Missing \notin LiveRows /\ To(NewPlace, x) = Resolve(so, x)
  BY RowsNumbered
<1>2. p = Resolve(so, x)
  BY <1>1 DEF To
<1>3. NTypes \in Nat /\ Types = 0 .. NTypes - 1 /\ own \in 0 .. NTypes - 1
  BY KeyAssumption DEF Types
<1>4. \A k \in Types : tw[k] = TranslateWrites(w[k], so, so)
  BY DEF TranslatedBy
<1> HIDE DEF so, p, tw
<1>5. ASSUME NEW k \in Types PROVE p \in DOMAIN tw[k] <=> x \in DOMAIN w[k]
  <2>1. AreTranslated(TranslateWrites(w[k], so, so), w[k], so, so, LiveRows)
    <3>1. \A i \in DOMAIN w[k] : i \in LiveRows \/ Resolve(so, i) = Missing
      BY <1>1
    <3> QED
      BY <1>1, <3>1, TranslatedWrites
  <2>2. DOMAIN tw[k] = {Resolve(so, i) : i \in LiveRows \cap DOMAIN w[k]}
    BY <1>4, <2>1 DEF AreTranslated
  <2> QED
    BY <1>1, <1>2, <2>2
<1>6. /\ DOMAIN m = UNION {DOMAIN tw[k] : k \in 0 .. NTypes - 1}
      /\ \A k \in 0 .. NTypes - 1 : \A y \in DOMAIN tw[k] :
           (\A j \in k + 1 .. NTypes - 1 : y \notin DOMAIN tw[j]) => m[y] = tw[k][y]
  BY DEF MergedBy, tw
<1>7. Overwrite(col, m)[p] = (IF p \in DOMAIN m THEN m[p] ELSE col[p])
      /\ Overwrite(col, tw[own])[p] = (IF p \in DOMAIN tw[own] THEN tw[own][p] ELSE col[p])
  BY DEF Overwrite, p
<1>8. CASE x \in DOMAIN w[own]
  <2>1. p \in DOMAIN tw[own] /\ p \in DOMAIN m
    BY <1>3, <1>5, <1>6, <1>8
  <2>2. \A j \in own + 1 .. NTypes - 1 : p \notin DOMAIN tw[j]
    <3> SUFFICES ASSUME NEW j \in own + 1 .. NTypes - 1, p \in DOMAIN tw[j] PROVE FALSE
      OBVIOUS
    <3>1. j \in Types /\ j # own /\ ~(j < own)
      BY <1>3
    <3>2. x \in DOMAIN w[j]
      BY <1>5, <3>1
    <3> QED
      BY <3>1, <3>2 DEF OwnTypeLast
  <2>3. m[p] = tw[own][p]
    BY <1>3, <1>6, <2>1, <2>2
  <2> QED
    BY <1>4, <1>7, <2>1, <2>3 DEF p, so
<1>9. CASE x \notin DOMAIN w[own]
  <2>1. \A k \in Types : p \notin DOMAIN tw[k]
    BY <1>5, <1>9 DEF OwnTypeLast
  <2>2. p \notin DOMAIN m
    BY <1>3, <1>6, <2>1
  <2> QED
    BY <1>4, <1>7, <2>1, <2>2 DEF p, so
<1> QED
  BY <1>8, <1>9

\* A row that changes its type is written by the patch of its old type only
\* where it is the neighbour of a row that moves.
LEMMA OwnTypesLast ==
  ASSUME Committing, ListsLinked, NEW ty \in Types, NEW x \in LiveOfType(ty)
  PROVE  OwnTypeLast(NxtWrites, x, ty) /\ OwnTypeLast(PrvWrites, x, ty)
<1>1. WellTyped /\ NeighboursOfRetypedStay
  BY DEF Committing
<1>2. x \in LiveRows /\ TypeAfter(x) = ty
  BY DEF LiveOfType
<1>3. /\ LiveRows = (Rows \ tx.deleted) \cup StagedRows /\ tx.deleted \subseteq Rows
      /\ Rows \cap StagedRows = {}
  BY <1>1, RowsNumbered
<1>4. /\ Relinked \subseteq Rows /\ Dead = tx.deleted \cup Relinked
      /\ \A y \in Rows \ Dead : NewType(y) = db.type[y]
  BY RowsOfCommit
<1>5. Leaves(RowsOfType(ty), TargetRows(ty), ColumnsOf(ty), DeadOf(ty), MovedOf(ty),
             RelinkedTo(ty) \cup StagedAs(ty), LiveTargets(ty), TypePatch(ty))
  BY PatchOfTypeLeaves DEF ListsLinked
<1>6. /\ RelinkedTo(ty) \subseteq DOMAIN TypePatch(ty).nxt
      /\ RelinkedTo(ty) \subseteq DOMAIN TypePatch(ty).prv
  BY <1>5 DEF Leaves
<1>7. NTypes \in Nat /\ Types = 0 .. NTypes - 1 /\ NoType \notin Types
  BY KeyAssumption DEF Types, NoType
<1>8. ASSUME NEW other \in Types \ {ty},
             x \in DOMAIN TypePatch(other).nxt \/ x \in DOMAIN TypePatch(other).prv
      PROVE  other < ty /\ x \in RelinkedTo(ty)
  <2> DEFINE I == RowsOfType(other)
             c == ColumnsOf(other)
             rows == RelinkedTo(other) \cup StagedAs(other)
             P == TypePatch(other)
  <2>1. Leaves(I, TargetRows(other), c, DeadOf(other), MovedOf(other), rows,
               LiveTargets(other), P)
    BY PatchOfTypeLeaves DEF ListsLinked
  <2>2. x \notin rows
    <3>1. \A y \in rows : TypeAfter(y) = other
      BY <1>4 DEF RelinkedTo, StagedAs, TypeAfter
    <3> QED
      BY <1>2, <3>1
  <2>3. x \in I
    BY <1>8, <2>1, <2>2 DEF Leaves
  <2>4. x \in Rows /\ db.type[x] = other /\ NewType(x) = ty
    BY <1>2, <2>3 DEF RowsOfType, TypeAfter
  <2>5. x \in Dead
    BY <1>4, <2>4
  <2>6. x \in Relinked /\ x \in DeadOf(other)
    BY <1>2, <1>3, <1>4, <2>4, <2>5 DEF DeadOf
  <2>7. c.nxt[x] \in MovedOf(other) \/ c.prv[x] \in MovedOf(other)
    BY <1>8, <2>1, <2>2, <2>6 DEF Leaves
  <2>8. c.nxt[x] = db.nxt[x] /\ c.prv[x] = db.prv[x]
    BY <2>3 DEF ColumnsOf, PartOf, Group
  <2>9. MovedOf(other) \subseteq DOMAIN SourceOracle.moves \ Dead
    BY DEF MovedOf
  <2>10. ~(ty < other)
    BY <1>1, <1>7, <2>4, <2>6, <2>7, <2>8, <2>9 DEF NeighboursOfRetypedStay
  <2>11. other < ty
    BY <1>7, <2>10
  <2> QED
    BY <2>4, <2>6, <2>11 DEF RelinkedTo
<1>9. \A k \in Types : NxtWrites[k] = TypePatch(k).nxt /\ PrvWrites[k] = TypePatch(k).prv
  BY DEF NxtWrites, PrvWrites
<1> QED
  BY <1>6, <1>8, <1>9 DEF OwnTypeLast

\* Where the patch of a type does not write, the link stays right.
LEMMA UnwrittenLinks ==
  ASSUME Committing, ListsLinked, NEW ty \in Types
  PROVE  LET P == TypePatch(ty)
             c == ColumnsOf(ty)
             kept == Rows \ DOMAIN SourceOracle.moves
         IN  /\ DOMAIN P.nxt \subseteq LiveRows \cup tx.deleted
             /\ DOMAIN P.prv \subseteq LiveRows \cup tx.deleted
             /\ DOMAIN P.head \subseteq LiveTargets(ty) \cup tx.gone[ty]
             /\ \A x \in LiveOfType(ty) \ DOMAIN P.nxt :
                  x \in RowsOfType(ty) /\ c.nxt[x] \in kept \cup {Missing}
             /\ \A x \in LiveOfType(ty) \ DOMAIN P.prv :
                  x \in RowsOfType(ty) /\ c.prv[x] \in kept \cup {Missing}
             /\ \A t \in (LiveTargets(ty) \cap TargetRows(ty)) \ DOMAIN P.head :
                  c.head[t] \in kept \cup {Missing}
<1> DEFINE P == TypePatch(ty)
           c == ColumnsOf(ty)
           I == RowsOfType(ty)
           dead == DeadOf(ty)
           rows == RelinkedTo(ty) \cup StagedAs(ty)
           stays == (I \ dead) \ MovedOf(ty)
           kept == Rows \ DOMAIN SourceOracle.moves
<1>1. WellTyped
  BY DEF Committing
<1>2. Leaves(I, TargetRows(ty), c, dead, MovedOf(ty), rows, LiveTargets(ty), P)
  BY PatchOfTypeLeaves DEF ListsLinked
<1>3. /\ I \subseteq Rows /\ dead = Dead \cap I /\ Relinked \subseteq Rows
      /\ LiveOfType(ty) = (I \ dead) \cup rows
  BY RowsOfCommit DEF RelinkedTo, StagedAs
<1>4. /\ LiveRows = (Rows \ tx.deleted) \cup StagedRows
      /\ TargetRows(ty) \subseteq LiveTargets(ty) \cup tx.gone[ty]
  BY <1>1, RowsNumbered, TargetsNumbered
<1>5. I \cup rows \subseteq LiveRows \cup tx.deleted
  BY <1>3, <1>4 DEF RelinkedTo, StagedAs
<1>6. stays \subseteq kept
  BY <1>3 DEF MovedOf, RowsOfType
<1> HIDE DEF P, c, I, dead, rows, stays, kept
<1>7. /\ rows \subseteq DOMAIN P.nxt /\ rows \subseteq DOMAIN P.prv
      /\ DOMAIN P.nxt \subseteq I \cup rows /\ DOMAIN P.prv \subseteq I \cup rows
      /\ DOMAIN P.head \subseteq TargetRows(ty) \cup LiveTargets(ty)
      /\ \A x \in I \ dead : /\ x \notin DOMAIN P.nxt => c.nxt[x] \in stays \cup {Missing}
                             /\ x \notin DOMAIN P.prv => c.prv[x] \in stays \cup {Missing}
      /\ \A t \in LiveTargets(ty) \cap TargetRows(ty) :
           t \notin DOMAIN P.head => c.head[t] \in stays \cup {Missing}
  BY <1>2 DEF Leaves, stays
<1> QED
  BY <1>3, <1>4, <1>5, <1>6, <1>7 DEF P, c, I, kept

\* The links of the patched store.
LEMMA NewLinks ==
  ASSUME Committing, ListsLinked, NEW nxt, NEW prv,
         MergedBy(nxt, NxtPatches, NTypes), MergedBy(prv, PrvPatches, NTypes),
         NEW k, k = PatchedStore(nxt, prv), NEW ty \in Types
  PROVE  LET r == NewPlace
             rt == NewTarget(ty)
             d == ColumnsAfter(ty)
         IN  /\ \A x \in LiveOfType(ty) : /\ k.nxt[r[x]] = To(r, d.nxt[x])
                                          /\ k.prv[r[x]] = To(r, d.prv[x])
             /\ \A t \in LiveTargets(ty) : k.head[ty][rt[t]] = To(r, d.head[t])
<1> DEFINE L == LiveOfType(ty)
           LT == LiveTargets(ty)
           c == ColumnsOf(ty)
           P == TypePatch(ty)
           d == ColumnsAfter(ty)
           so == SourceOracle
           to == TargetOracle(ty)
           n == db.len
           a == Len(tx.additions)
           del == tx.deleted
           m == db.size[ty]
           b == tx.added[ty]
           gone == tx.gone[ty]
           kept == Rows \ DOMAIN so.moves
<1>1. /\ WellTyped /\ Plannable(n, a, del) /\ Plannable(m, b, gone)
      /\ so = Oracle(n, a, del) /\ to = Oracle(m, b, gone)
      /\ Rows = 0 .. n - 1 /\ TargetRows(ty) = 0 .. m - 1
  BY OraclesPlan DEF Committing, SourceOracle, TargetOracle, Rows, TargetRows
<1>2. PICK new : Linked(L, LT, d, new)
  BY PatchedListsLinked DEF ListsLinked
<1>3. /\ \A x \in L : d.nxt[x] \in LiveRows \cup {Missing} /\ d.prv[x] \in LiveRows \cup {Missing}
      /\ \A t \in LT : d.head[t] \in LiveRows \cup {Missing}
      /\ L \subseteq LiveRows
  <2>1. L \subseteq LiveRows
    BY DEF LiveOfType
  <2> HIDE DEF L, LT, d
  <2> QED
    BY <1>2, <2>1 DEF Linked, Columns
<1>4. /\ \A x \in L : /\ d.nxt[x] = PatchedAt(c.nxt, P.nxt, x)
                      /\ d.prv[x] = PatchedAt(c.prv, P.prv, x)
      /\ \A t \in LT : d.head[t] = HeadAfter(ty, t)
  BY DEF ColumnsAfter
<1>5. /\ DOMAIN P.nxt \subseteq LiveRows \cup del
      /\ DOMAIN P.prv \subseteq LiveRows \cup del
      /\ DOMAIN P.head \subseteq LT \cup gone
      /\ \A x \in L \ DOMAIN P.nxt : x \in RowsOfType(ty) /\ c.nxt[x] \in kept \cup {Missing}
      /\ \A x \in L \ DOMAIN P.prv : x \in RowsOfType(ty) /\ c.prv[x] \in kept \cup {Missing}
      /\ \A t \in (LT \cap TargetRows(ty)) \ DOMAIN P.head : c.head[t] \in kept \cup {Missing}
  BY UnwrittenLinks
<1>6. /\ \A x \in RowsOfType(ty) : x \in Rows /\ c.nxt[x] = db.nxt[x] /\ c.prv[x] = db.prv[x]
      /\ c.head = db.head[ty]
  BY DEF ColumnsOf, PartOf, Group, RowsOfType
<1>7. \A y \in kept \cup {Missing} :
        y = Missing \/ (y \in 0 .. n - 1 /\ y \notin DOMAIN so.moves)
  BY <1>1
<1>8. /\ k.nxt = Overwrite(MaterializedAs(db.nxt, so, AbsentLinks(so)), nxt)
      /\ k.prv = Overwrite(MaterializedAs(db.prv, so, AbsentLinks(so)), prv)
      /\ k.head[ty] = Overwrite(MaterializedAs(db.head[ty], to, AbsentLinks(to)),
                                TranslateWrites(P.head, to, so))
  BY DEF PatchedStore, PatchNow, Translate
<1>9. /\ MergedBy(nxt, TranslatedBy(NxtWrites), NTypes)
      /\ MergedBy(prv, TranslatedBy(PrvWrites), NTypes)
  BY LinksTranslated
<1>10. /\ NxtWrites[ty] = P.nxt /\ PrvWrites[ty] = P.prv
       /\ \A o \in Types : /\ DOMAIN NxtWrites[o] \subseteq LiveRows \cup tx.deleted
                           /\ DOMAIN PrvWrites[o] \subseteq LiveRows \cup tx.deleted
  BY UnwrittenLinks DEF NxtWrites, PrvWrites
<1>11. /\ LiveRows = Live(n, a, del) /\ NewPlace = NumberedBy(n, a, del)
       /\ LT = Live(m, b, gone) /\ NewTarget(ty) = NumberedBy(m, b, gone)
  BY DEF LiveRows, NewPlace, LiveTargets, NewTarget
<1>12. \A x \in L : \A col, v : NewPlace[x] \in DOMAIN MaterializedAs(col, so, v)
  BY <1>1, <1>3, <1>11, LiveMaterialized
<1>13. \A x \in L : OwnTypeLast(NxtWrites, x, ty) /\ OwnTypeLast(PrvWrites, x, ty)
  BY OwnTypesLast
<1> HIDE DEF L, LT, c, P, d, so, to, n, a, del, m, b, gone, kept
<1>14. ASSUME NEW x \in L PROVE k.nxt[NewPlace[x]] = To(NewPlace, d.nxt[x])
  <2> DEFINE col == MaterializedAs(db.nxt, so, AbsentLinks(so))
  <2>1. Overwrite(col, nxt)[NewPlace[x]]
          = Overwrite(col, TranslateWrites(P.nxt, so, so))[NewPlace[x]]
    <3>1. x \in LiveRows /\ OwnTypeLast(NxtWrites, x, ty) /\ NewPlace[x] \in DOMAIN col
      BY <1>3, <1>12, <1>13
    <3> HIDE DEF col
    <3>2. Overwrite(col, nxt)[NewPlace[x]]
            = Overwrite(col, TranslateWrites(NxtWrites[ty], SourceOracle, SourceOracle))[NewPlace[x]]
      BY <1>1, <1>9, <1>10, <3>1, MergedWrites
    <3> QED
      BY <1>10, <3>2 DEF so
  <2>2. x \in DOMAIN P.nxt => d.nxt[x] = P.nxt[x]
    BY <1>4 DEF PatchedAt
  <2>3. x \notin DOMAIN P.nxt =>
          /\ x \in 0 .. n - 1 /\ d.nxt[x] = db.nxt[x]
          /\ d.nxt[x] = Missing \/ (d.nxt[x] \in 0 .. n - 1 /\ d.nxt[x] \notin DOMAIN so.moves)
    BY <1>1, <1>4, <1>5, <1>6, <1>7 DEF PatchedAt
  <2>4. /\ d.nxt[x] \in Live(n, a, del) \cup {Missing} /\ x \in Live(n, a, del)
        /\ DOMAIN P.nxt \subseteq Live(n, a, del) \cup del
    BY <1>3, <1>5, <1>11
  <2>5. Overwrite(col, TranslateWrites(P.nxt, so, so))[NewPlace[x]] = To(NewPlace, d.nxt[x])
    BY <1>1, <1>11, <2>2, <2>3, <2>4, LiveWritten
  <2> QED
    BY <1>8, <2>1, <2>5
<1>15. ASSUME NEW x \in L PROVE k.prv[NewPlace[x]] = To(NewPlace, d.prv[x])
  <2> DEFINE col == MaterializedAs(db.prv, so, AbsentLinks(so))
  <2>1. Overwrite(col, prv)[NewPlace[x]]
          = Overwrite(col, TranslateWrites(P.prv, so, so))[NewPlace[x]]
    <3>1. x \in LiveRows /\ OwnTypeLast(PrvWrites, x, ty) /\ NewPlace[x] \in DOMAIN col
      BY <1>3, <1>12, <1>13
    <3> HIDE DEF col
    <3>2. Overwrite(col, prv)[NewPlace[x]]
            = Overwrite(col, TranslateWrites(PrvWrites[ty], SourceOracle, SourceOracle))[NewPlace[x]]
      BY <1>1, <1>9, <1>10, <3>1, MergedWrites
    <3> QED
      BY <1>10, <3>2 DEF so
  <2>2. x \in DOMAIN P.prv => d.prv[x] = P.prv[x]
    BY <1>4 DEF PatchedAt
  <2>3. x \notin DOMAIN P.prv =>
          /\ x \in 0 .. n - 1 /\ d.prv[x] = db.prv[x]
          /\ d.prv[x] = Missing \/ (d.prv[x] \in 0 .. n - 1 /\ d.prv[x] \notin DOMAIN so.moves)
    BY <1>1, <1>4, <1>5, <1>6, <1>7 DEF PatchedAt
  <2>4. /\ d.prv[x] \in Live(n, a, del) \cup {Missing} /\ x \in Live(n, a, del)
        /\ DOMAIN P.prv \subseteq Live(n, a, del) \cup del
    BY <1>3, <1>5, <1>11
  <2>5. Overwrite(col, TranslateWrites(P.prv, so, so))[NewPlace[x]] = To(NewPlace, d.prv[x])
    BY <1>1, <1>11, <2>2, <2>3, <2>4, LiveWritten
  <2> QED
    BY <1>8, <2>1, <2>5
<1>16. ASSUME NEW t \in LT PROVE k.head[ty][NewTarget(ty)[t]] = To(NewPlace, d.head[t])
  <2>1. t \in DOMAIN P.head => d.head[t] = P.head[t]
    BY <1>4 DEF HeadAfter, P
  <2>2. t \notin DOMAIN P.head =>
          IF t \in 0 .. m - 1
            THEN /\ d.head[t] = db.head[ty][t]
                 /\ \/ d.head[t] = Missing
                    \/ d.head[t] \in 0 .. n - 1 /\ d.head[t] \notin DOMAIN so.moves
            ELSE d.head[t] = Missing
    BY <1>1, <1>4, <1>5, <1>6, <1>7 DEF HeadAfter, P
  <2>3. /\ d.head[t] \in Live(n, a, del) \cup {Missing} /\ t \in Live(m, b, gone)
        /\ DOMAIN P.head \subseteq Live(m, b, gone) \cup gone
    BY <1>3, <1>5, <1>11
  <2> QED
    BY <1>1, <1>8, <1>11, <2>1, <2>2, <2>3, LiveWritten
<1> QED
  BY <1>14, <1>15, <1>16 DEF L, LT, d

(***************************************************************************)
(* The types and the keys a commit writes.                                 *)
(***************************************************************************)
\* A remaining row of a set is where its place says.
LEMMA RemainingAt ==
  ASSUME Committing, NEW S, S \subseteq Relinked, NEW x \in LiveRows
  PROVE  /\ NewPlace[x] \in {Resolve(SourceOracle, r) : r \in Remaining(S)} <=> x \in S
         /\ x \in S => (CHOOSE r \in Remaining(S) : Resolve(SourceOracle, r) = NewPlace[x]) = x
         /\ NewPlace[x] = Resolve(SourceOracle, x)
<1>1. WellTyped
  BY DEF Committing
<1>2. /\ \A i, j \in LiveRows : Resolve(SourceOracle, i) = Resolve(SourceOracle, j) => i = j
      /\ \A i \in LiveRows : Resolve(SourceOracle, i) # Missing
      /\ \A i \in tx.deleted : Resolve(SourceOracle, i) = Missing
      /\ Missing \notin LiveRows /\ To(NewPlace, x) = Resolve(SourceOracle, x)
      /\ LiveRows = (Rows \ tx.deleted) \cup StagedRows
  BY <1>1, RowsNumbered
<1>3. Relinked \subseteq Rows
  BY <1>1 DEF WellTyped, EditsTyped, RelinksTyped
<1>4. NewPlace[x] = Resolve(SourceOracle, x)
  BY <1>2 DEF To
<1>5. Remaining(S) \subseteq LiveRows /\ Remaining(S) \subseteq S /\ S \cap LiveRows \subseteq Remaining(S)
  BY <1>2, <1>3 DEF Remaining
<1>6. \A r \in Remaining(S) : Resolve(SourceOracle, r) = NewPlace[x] <=> r = x
  BY <1>2, <1>4, <1>5
<1>7. NewPlace[x] \in {Resolve(SourceOracle, r) : r \in Remaining(S)} <=> x \in S
  BY <1>4, <1>5, <1>6
<1>8. ASSUME x \in S
      PROVE  (CHOOSE r \in Remaining(S) : Resolve(SourceOracle, r) = NewPlace[x]) = x
  <2>1. x \in Remaining(S)
    BY <1>5, <1>8
  <2> QED
    BY <1>6, <2>1
<1> QED
  BY <1>4, <1>7, <1>8

\* A row that is not staged keeps what its column has; a staged one gets its
\* fresh value.
LEMMA MaterializedRow ==
  ASSUME WellTyped, NEW x \in LiveRows, NEW col, NEW v
  PROVE  LET m == MaterializedAs(col, SourceOracle, v)
         IN  /\ NewPlace[x] \in DOMAIN m
             /\ x \in StagedRows => m[NewPlace[x]] = v[x - db.len]
             /\ x \in Rows => m[NewPlace[x]] = col[x]
<1> DEFINE n == db.len
           a == Len(tx.additions)
           del == tx.deleted
<1>1. Plannable(n, a, del) /\ SourceOracle = Oracle(n, a, del) /\ LiveRows = Live(n, a, del)
      /\ NewPlace = NumberedBy(n, a, del) /\ StagedRows = n .. n + a - 1
  BY OraclesPlan DEF SourceOracle, LiveRows, NewPlace, StagedRows
<1>2. Rows \cap StagedRows = {}
  BY RowsNumbered
<1> HIDE DEF n, a, del
<1>3. LET o == Oracle(n, a, del)
          p == NumberedBy(n, a, del)[x]
      IN  /\ p \in Places(n, a, del)
          /\ DOMAIN MaterializedAs(col, o, v) = Places(n, a, del)
          /\ MaterializedAs(col, o, v)[p] = IF x \in n .. n + a - 1 THEN v[x - n] ELSE col[x]
  BY <1>1, LiveMaterialized
<1> QED
  BY <1>1, <1>2, <1>3 DEF n

\* The place of a staged row among the staged rows.
LEMMA StagedPlace ==
  ASSUME WellTyped, NEW x \in StagedRows
  PROVE  /\ x - db.len \in DOMAIN SourceOracle.dest
         /\ x - db.len + 1 \in DOMAIN tx.additions
         /\ x \notin Rows
         /\ TypeAfter(x) = tx.additions[x - db.len + 1].type
<1> DEFINE n == db.len
           a == Len(tx.additions)
<1>1. n \in Nat /\ a \in Nat /\ DOMAIN tx.additions = 1 .. a /\ StagedRows = n .. n + a - 1
  BY Sizes DEF StagedRows
<1>2. DOMAIN SourceOracle.dest = 0 .. a - 1
  BY DEF SourceOracle, Oracle, AdditionDest, a
<1>3. x \notin Rows
  BY RowsNumbered
<1> HIDE DEF n, a
<1>4. x - n \in 0 .. a - 1 /\ x - n + 1 \in 1 .. a
  BY <1>1
<1> QED
  BY <1>1, <1>2, <1>3, <1>4 DEF n, TypeAfter

LEMMA NewTypes ==
  ASSUME Committing, NEW nxt, NEW prv, NEW k, k = PatchedStore(nxt, prv), NEW x \in LiveRows
  PROVE  k.type[NewPlace[x]] = TypeAfter(x)
<1> DEFINE S == Remaining(tx.typeSet)
           m == MaterializedAs(db.type, SourceOracle, FreshTypes)
           p == NewPlace[x]
           at(r) == Resolve(SourceOracle, r)
<1>1. WellTyped /\ StagedKeysExist
  BY DEF Committing
<1>2. tx.typeSet \subseteq Relinked /\ Relinked = DOMAIN tx.retypes
  BY <1>1 DEF WellTyped, EditsTyped, RelinksTyped
<1>3. /\ p \in {at(r) : r \in S} <=> x \in tx.typeSet
      /\ x \in tx.typeSet => (CHOOSE r \in S : at(r) = p) = x
  BY <1>2, RemainingAt
<1>4. k.type = Overwrite(m, TypeWrites)
  BY DEF PatchedStore
<1>5. TypeWrites = [q \in {at(r) : r \in S} |-> NewType(CHOOSE r \in S : at(r) = q)]
  BY DEF TypeWrites, Writes
<1>6. /\ p \in DOMAIN m
      /\ x \in StagedRows => m[p] = FreshTypes[x - db.len]
      /\ x \in Rows => m[p] = db.type[x]
  BY <1>1, MaterializedRow
<1>7. k.type[p] = IF p \in DOMAIN TypeWrites THEN TypeWrites[p] ELSE m[p]
  <2> HIDE DEF m, p
  <2> QED
    BY <1>4, <1>6 DEF Overwrite
<1>8. x \in Rows \/ x \in StagedRows
  BY <1>1, RowsNumbered
<1>9. Relinked \subseteq Rows
  BY <1>1 DEF WellTyped, EditsTyped, RelinksTyped
<1>10. p \in DOMAIN TypeWrites <=> x \in tx.typeSet
  BY <1>3, <1>5
<1>11. CASE x \in tx.typeSet
  <2>1. TypeWrites[p] = NewType(x)
    <3> HIDE DEF S, p
    <3> QED
      BY <1>3, <1>5, <1>11
  <2>2. x \in Rows
    BY <1>2, <1>9, <1>11
  <2> QED
    BY <1>7, <1>10, <1>11, <2>1, <2>2 DEF TypeAfter
<1>12. CASE x \notin tx.typeSet /\ x \in Rows
  <2>1. k.type[p] = db.type[x]
    BY <1>6, <1>7, <1>10, <1>12
  <2>2. NewType(x) = db.type[x]
    BY <1>1, <1>2, <1>12 DEF StagedKeysExist, NewType
  <2> QED
    BY <1>12, <2>1, <2>2 DEF TypeAfter
<1>13. CASE x \in StagedRows
  <2>1. x \notin tx.typeSet /\ TypeAfter(x) = tx.additions[x - db.len + 1].type
        /\ x - db.len \in DOMAIN SourceOracle.dest
    BY <1>1, <1>2, <1>9, <1>13, StagedPlace
  <2>2. FreshTypes[x - db.len] = tx.additions[x - db.len + 1].type
    BY <2>1 DEF FreshTypes
  <2> QED
    BY <1>6, <1>7, <1>10, <1>13, <2>1, <2>2
<1> QED
  BY <1>8, <1>11, <1>12, <1>13

MovedTargets(ty) ==
  {TargetOracle(ty).moves[i] : i \in DOMAIN TargetOracle(ty).moves}

\* The key a row should have after the commit.
KeyToBe(x) == To(NewTarget(TypeAfter(x)), KeyAfter(x))

LEMMA KeysToBe ==
  ASSUME Committing, ListsLinked, NEW ty \in Types, NEW x \in LiveOfType(ty)
  PROVE  /\ x \in LiveRows /\ TypeAfter(x) = ty
         /\ KeyAfter(x) \in LiveTargets(ty) \cup {Missing}
         /\ KeyToBe(x) = Resolve(TargetOracle(ty), KeyAfter(x))
         /\ KeyToBe(x) = To(NewTarget(ty), KeyAfter(x))
         /\ KeyToBe(x) \in TargetsAfter(ty) \cup {Missing}
<1> DEFINE L == LiveOfType(ty)
           LT == LiveTargets(ty)
           d == ColumnsAfter(ty)
<1>1. WellTyped /\ x \in LiveRows /\ TypeAfter(x) = ty
  BY DEF Committing, LiveOfType
<1>2. PICK new : Linked(L, LT, d, new)
  BY PatchedListsLinked DEF ListsLinked
<1>3. d.fk[x] = KeyAfter(x)
  BY DEF ColumnsAfter
<1>4. d.fk[x] \in LT \cup {Missing}
  <2> HIDE DEF d, LT
  <2> QED
    BY <1>2 DEF Linked, Columns
<1>5. /\ \A y \in LT \cup {Missing} : To(NewTarget(ty), y) = Resolve(TargetOracle(ty), y)
      /\ \A y \in LT : Resolve(TargetOracle(ty), y) \in TargetsAfter(ty)
      /\ \A y \in tx.gone[ty] \cup {Missing} : Resolve(TargetOracle(ty), y) = Missing
  BY <1>1, TargetsNumbered
<1>6. KeyToBe(x) = To(NewTarget(ty), KeyAfter(x))
  BY <1>1 DEF KeyToBe
<1> QED
  BY <1>1, <1>3, <1>4, <1>5, <1>6

\* Which keys a commit writes.
LEMMA KeysWritten ==
  ASSUME Committing, NEW nxt, NEW prv, NEW k, k = PatchedStore(nxt, prv), NEW x \in LiveRows
  PROVE  k.key[NewPlace[x]] = IF x \in tx.keySet THEN ResolveKey(NewType(x), GivenTo(x))
                              ELSE IF x \in StagedRows THEN FreshKeys[x - db.len]
                              ELSE db.key[x]
<1> DEFINE S == Remaining(tx.keySet)
           m == MaterializedAs(db.key, SourceOracle, FreshKeys)
           p == NewPlace[x]
           at(r) == Resolve(SourceOracle, r)
           newKey(r) == ResolveKey(NewType(r), GivenTo(r))
<1>1. WellTyped
  BY DEF Committing
<1>2. tx.keySet \subseteq Relinked
  BY <1>1 DEF WellTyped, EditsTyped, RelinksTyped
<1>3. /\ p \in {at(r) : r \in S} <=> x \in tx.keySet
      /\ x \in tx.keySet => (CHOOSE r \in S : at(r) = p) = x
  BY <1>2, RemainingAt
<1>4. k.key = Overwrite(m, KeyWrites)
  BY DEF PatchedStore
<1>5. KeyWrites = [q \in {at(r) : r \in S} |-> newKey(CHOOSE r \in S : at(r) = q)]
  BY DEF KeyWrites, Writes
<1>6. /\ p \in DOMAIN m
      /\ x \in StagedRows => m[p] = FreshKeys[x - db.len]
      /\ x \in Rows => m[p] = db.key[x]
      /\ x \in Rows \/ x \in StagedRows
  BY <1>1, MaterializedRow, RowsNumbered
<1>7. k.key[p] = IF p \in DOMAIN KeyWrites THEN KeyWrites[p] ELSE m[p]
  <2> HIDE DEF m, p
  <2> QED
    BY <1>4, <1>6 DEF Overwrite
<1>8. p \in DOMAIN KeyWrites <=> x \in tx.keySet
  BY <1>3, <1>5
<1>9. ASSUME x \in tx.keySet PROVE KeyWrites[p] = newKey(x)
  <2> HIDE DEF S, p, newKey
  <2> QED
    BY <1>3, <1>5, <1>9
<1> QED
  BY <1>6, <1>7, <1>8, <1>9

\* Before the lists are followed from the targets that moved, the keys to all
\* other targets are right.
LEMMA NewKeys ==
  ASSUME Committing, ListsLinked, NEW nxt, NEW prv, NEW k, k = PatchedStore(nxt, prv),
         NEW ty \in Types, NEW x \in LiveOfType(ty), KeyToBe(x) \notin MovedTargets(ty)
  PROVE  k.key[NewPlace[x]] = KeyToBe(x)
<1> DEFINE to == TargetOracle(ty)
           key == KeyAfter(x)
<1>1. WellTyped /\ StagedKeysExist /\ NullsAlike
  BY DEF Committing
<1>2. /\ x \in LiveRows /\ TypeAfter(x) = ty /\ key \in LiveTargets(ty) \cup {Missing}
      /\ KeyToBe(x) = Resolve(to, key)
  BY KeysToBe
<1>3. /\ LiveRows = (Rows \ tx.deleted) \cup StagedRows
      /\ Rows \cap StagedRows = {}
  BY <1>1, RowsNumbered
<1>4. /\ tx.keySet \subseteq Relinked /\ Relinked \subseteq Rows
      /\ \A i, j \in DOMAIN tx.relinks : tx.relinks[i].row = tx.relinks[j].row => i = j
  BY <1>1 DEF WellTyped, EditsTyped, RelinksTyped
<1>5. k.key[NewPlace[x]] = IF x \in tx.keySet THEN ResolveKey(NewType(x), GivenTo(x))
                           ELSE IF x \in StagedRows THEN FreshKeys[x - db.len]
                           ELSE db.key[x]
  BY <1>2, KeysWritten
<1>6. \A y : ResolveKey(ty, y) = Resolve(to, y)
  BY <1>1 DEF NullsAlike, ResolveKey
<1>7. CASE x \in tx.keySet
  <2>1. x \in Rows /\ x \in Relinked /\ x \notin StagedRows
    BY <1>3, <1>4, <1>7
  <2>2. NewType(x) = ty /\ key = GivenTo(x)
    BY <1>2, <2>1 DEF TypeAfter, KeyAfter
  <2> QED
    BY <1>2, <1>5, <1>6, <1>7, <2>2
<1>8. CASE x \in Relinked \ tx.keySet
  <2>1. x \in Rows /\ x \notin StagedRows
    BY <1>3, <1>4, <1>8
  <2>2. NewType(x) = ty /\ key = GivenTo(x)
    BY <1>2, <1>8, <2>1 DEF TypeAfter, KeyAfter
  <2>3. PICK i \in DOMAIN tx.relinks : tx.relinks[i].row = x
    BY <1>8 DEF Relinked
  <2>4. (CHOOSE j \in DOMAIN tx.relinks : tx.relinks[j].row = x) = i
    BY <1>4, <2>3
  <2>5. key = tx.relinks[i].target
    BY <2>2, <2>4 DEF GivenTo
  <2>6. tx.relinks[i].target = db.key[x]
    BY <1>1, <1>8, <2>3 DEF StagedKeysExist
  <2>7. i \in RelinkPlaces(ty)
    BY <2>2, <2>3 DEF RelinkPlaces
  <2>8. Resolve(to, key) = key
    BY <2>5, <2>7, RelinkTargets
  <2> QED
    BY <1>2, <1>5, <1>8, <2>1, <2>5, <2>6, <2>8
<1>9. CASE x \in Rows \ Relinked
  <2>1. x \notin StagedRows /\ x \notin tx.keySet /\ key = db.key[x]
    BY <1>3, <1>4, <1>9 DEF KeyAfter
  <2>2. x \in RowsOfType(ty) \ DeadOf(ty)
    <3>1. LiveOfType(ty) = (RowsOfType(ty) \ DeadOf(ty))
                             \cup {r \in Relinked : NewType(r) = ty}
                             \cup {y \in StagedRows : TypeAfter(y) = ty}
      BY RowsOfCommit
    <3> QED
      BY <1>9, <2>1, <3>1
  <2>3. key \in (LiveTargets(ty) \cap TargetRows(ty)) \cup {Missing}
    <3>1. PICK ord : Linked(RowsOfType(ty), TargetRows(ty), ColumnsOf(ty), ord)
      BY DEF ListsLinked
    <3> QED
      BY <2>1, <2>2, <3>1, KeptKeysStay
  <2>4. Resolve(to, Missing) = Missing
    BY <1>1, TargetsNumbered
  <2>5. CASE key \in LiveTargets(ty) \cap TargetRows(ty)
    <3>1. /\ \A y \in LiveTargets(ty) : y \in TargetRows(ty) /\ y \notin DOMAIN to.moves =>
               Resolve(to, y) = y
          /\ {to.moves[i] : i \in DOMAIN to.moves} = {Resolve(to, i) : i \in DOMAIN to.moves}
      <4>1. Plannable(db.size[ty], tx.added[ty], tx.gone[ty])
        BY <1>1, OraclesPlan
      <4> QED
        BY <4>1, LiveMoves DEF TargetOracle, LiveTargets, TargetRows
    <3>2. key \notin DOMAIN to.moves
      BY <1>2, <3>1 DEF MovedTargets
    <3> QED
      BY <1>2, <1>5, <2>1, <2>5, <3>1, <3>2
  <2> QED
    BY <1>2, <1>5, <2>1, <2>3, <2>4, <2>5
<1>10. CASE x \in StagedRows
  <2>1. /\ x - db.len \in DOMAIN SourceOracle.dest /\ x \notin Rows
        /\ TypeAfter(x) = tx.additions[x - db.len + 1].type
    BY <1>1, <1>10, StagedPlace
  <2>2. x \notin tx.keySet /\ key = tx.additions[x - db.len + 1].key
    BY <1>4, <1>10, <2>1 DEF KeyAfter
  <2>3. ty # NoType
    BY KeyAssumption DEF NoType, Types
  <2>4. FreshKeys[x - db.len] = ResolveKey(ty, key)
    BY <1>2, <2>1, <2>2, <2>3 DEF FreshKeys
  <2> QED
    BY <1>2, <1>5, <1>6, <1>10, <2>2, <2>4
<1> QED
  BY <1>2, <1>3, <1>7, <1>8, <1>9, <1>10

(***************************************************************************)
(* The lists of each type, renumbered.                                     *)
(***************************************************************************)
\* The row that lies at a place after the commit.
RowAt(p) == CHOOSE x \in LiveRows : NewPlace[x] = p

PlacesOfType(ty) == {p \in PlacesAfter : TypeAfter(RowAt(p)) = ty}

\* The keys as they should be after the commit, and the columns with them.
FinalKeys == [p \in PlacesAfter |-> IF TypeAfter(RowAt(p)) \in Types THEN KeyToBe(RowAt(p)) ELSE Missing]

FinalGroup(k, ty) == [fk |-> FinalKeys, nxt |-> k.nxt, prv |-> k.prv, head |-> k.head[ty]]

\* The new places of the rows of a type.
PlaceIn(ty) == [x \in LiveOfType(ty) |-> NewPlace[x]]

LEMMA RowsAt ==
  ASSUME WellTyped
  PROVE  /\ \A x \in LiveRows : NewPlace[x] \in PlacesAfter /\ RowAt(NewPlace[x]) = x
         /\ \A p \in PlacesAfter : RowAt(p) \in LiveRows /\ NewPlace[RowAt(p)] = p
<1>1. Numbers(NewPlace, LiveRows, PlacesAfter)
  BY RowsNumbered
<1>2. /\ \A x \in LiveRows : NewPlace[x] \in PlacesAfter
      /\ \A x, y \in LiveRows : NewPlace[x] = NewPlace[y] => x = y
      /\ \A p \in PlacesAfter : \E x \in LiveRows : NewPlace[x] = p
  BY <1>1 DEF Numbers
<1>3. \A p \in PlacesAfter : RowAt(p) \in LiveRows /\ NewPlace[RowAt(p)] = p
  BY <1>2 DEF RowAt
<1> QED
  BY <1>2, <1>3

\* The sizes of the columns of a patched store.
Sized(k) ==
  /\ k = WithKeys(k, k.key, k.prv) /\ DOMAIN k = StoreFields
  /\ k.len = SourceOracle.newSize /\ k.size = [ty \in Types |-> TargetOracle(ty).newSize]
  /\ k.key = [p \in PlacesAfter |-> k.key[p]] /\ k.prv = [p \in PlacesAfter |-> k.prv[p]]
  /\ DOMAIN k.key = PlacesAfter /\ DOMAIN k.type = PlacesAfter
  /\ DOMAIN k.nxt = PlacesAfter /\ DOMAIN k.prv = PlacesAfter
  /\ \A ty \in Types : /\ DOMAIN k.head[ty] = TargetsAfter(ty)
                       /\ DOMAIN k.cnt[ty] = TargetsAfter(ty)

LEMMA PatchedSizes ==
  ASSUME WellTyped, NEW nxt, NEW prv, NEW k, k = PatchedStore(nxt, prv)
  PROVE  Sized(k)
<1> DEFINE d == PatchedStore(nxt, prv)
<1>1. /\ DOMAIN d = StoreFields /\ d = WithKeys(d, d.key, d.prv)
      /\ d.len = SourceOracle.newSize /\ d.size = [ty \in Types |-> TargetOracle(ty).newSize]
      /\ DOMAIN d.key = 0 .. d.len - 1 /\ DOMAIN d.type = 0 .. d.len - 1
      /\ DOMAIN d.nxt = 0 .. d.len - 1 /\ DOMAIN d.prv = 0 .. d.len - 1
      /\ \A ty \in Types : /\ DOMAIN d.head[ty] = 0 .. d.size[ty] - 1
                           /\ DOMAIN d.cnt[ty] = 0 .. d.size[ty] - 1
      /\ \A p \in 0 .. d.len - 1 : d.type[p] \in RowTypes
      /\ d.key = [x \in DOMAIN d.key |-> d.key[x]]
      /\ d.prv = [x \in DOMAIN d.prv |-> d.prv[x]]
  BY PatchedShape
<1> HIDE DEF d
<1>2. PlacesAfter = 0 .. d.len - 1
  BY <1>1 DEF PlacesAfter, Places, SourceOracle
<1>3. \A ty \in Types : TargetsAfter(ty) = 0 .. d.size[ty] - 1
  BY <1>1 DEF TargetsAfter, Places, TargetOracle
<1>4. k = d
  BY DEF d
<1> QED
  BY <1>1, <1>2, <1>3, <1>4 DEF Sized

LEMMA TypeNumbered ==
  ASSUME WellTyped, NEW ty
  PROVE  /\ Numbers(PlaceIn(ty), LiveOfType(ty), PlacesOfType(ty))
         /\ \A x \in LiveOfType(ty) : PlaceIn(ty)[x] = NewPlace[x]
<1>1. /\ \A x \in LiveRows : NewPlace[x] \in PlacesAfter /\ RowAt(NewPlace[x]) = x
      /\ \A p \in PlacesAfter : RowAt(p) \in LiveRows /\ NewPlace[RowAt(p)] = p
  BY RowsAt
<1> DEFINE L == LiveOfType(ty)
           I == PlacesOfType(ty)
           r == PlaceIn(ty)
<1>2. DOMAIN r = L /\ r = [x \in L |-> r[x]] /\ \A x \in L : r[x] = NewPlace[x]
  BY DEF PlaceIn
<1>3. \A x \in L : x \in LiveRows /\ TypeAfter(x) = ty
  BY DEF LiveOfType
<1>4. \A x \in L : r[x] \in I
  BY <1>1, <1>2, <1>3 DEF PlacesOfType
<1>5. r \in [L -> I]
  <2> HIDE DEF r, L, I
  <2> QED
    BY <1>2, <1>4
<1>6. \A p \in I : RowAt(p) \in L /\ r[RowAt(p)] = p
  <2>1. \A p \in I : p \in PlacesAfter /\ TypeAfter(RowAt(p)) = ty
    BY DEF PlacesOfType
  <2>2. \A p \in I : RowAt(p) \in L
    BY <1>1, <2>1 DEF LiveOfType
  <2> HIDE DEF r, L, I
  <2> QED
    BY <1>1, <1>2, <2>1, <2>2
<1>7. \A x, y \in L : r[x] = r[y] => x = y
  <2> HIDE DEF r, L
  <2> QED
    BY <1>1, <1>2, <1>3
<1> HIDE DEF r, L, I
<1>8. Numbers(r, L, I)
  BY <1>5, <1>6, <1>7 DEF Numbers
<1> QED
  BY <1>2, <1>8 DEF r, L, I

\* With the keys as they should be, the columns of a type are those from
\* before, renumbered.
LEMMA TypeRenumbered ==
  ASSUME Committing, ListsLinked, NEW nxt, NEW prv,
         MergedBy(nxt, NxtPatches, NTypes), MergedBy(prv, PrvPatches, NTypes),
         NEW k, k = PatchedStore(nxt, prv), NEW ty \in Types
  PROVE  RenumberedColumns(LiveOfType(ty), LiveTargets(ty), ColumnsAfter(ty),
                           PlacesOfType(ty), TargetsAfter(ty),
                           PartOf(FinalGroup(k, ty), PlacesOfType(ty)),
                           PlaceIn(ty), NewTarget(ty))
<1> DEFINE L == LiveOfType(ty)
           LT == LiveTargets(ty)
           d == ColumnsAfter(ty)
           I == PlacesOfType(ty)
           T == TargetsAfter(ty)
           e == PartOf(FinalGroup(k, ty), I)
           r == PlaceIn(ty)
           rt == NewTarget(ty)
<1>1. WellTyped
  BY DEF Committing
<1>2. /\ DOMAIN e.fk = I /\ DOMAIN e.nxt = I /\ DOMAIN e.prv = I
      /\ \A p \in I : e.fk[p] = FinalKeys[p] /\ e.nxt[p] = k.nxt[p] /\ e.prv[p] = k.prv[p]
      /\ e.head = k.head[ty]
  BY DEF PartOf, FinalGroup
<1>3. DOMAIN e.head = T
  <2>1. Sized(k)
    BY <1>1, PatchedSizes
  <2> QED
    BY <1>2, <2>1 DEF Sized
<1>4. /\ \A x \in L : /\ k.nxt[NewPlace[x]] = To(NewPlace, d.nxt[x])
                      /\ k.prv[NewPlace[x]] = To(NewPlace, d.prv[x])
      /\ \A t \in LT : k.head[ty][rt[t]] = To(NewPlace, d.head[t])
  BY NewLinks
<1>5. PICK new : Linked(L, LT, d, new)
  BY PatchedListsLinked DEF ListsLinked
<1>6. Numbers(r, L, I) /\ \A x \in L : r[x] = NewPlace[x]
  BY <1>1, TypeNumbered
<1>7. /\ \A x \in LiveRows : NewPlace[x] \in PlacesAfter /\ RowAt(NewPlace[x]) = x
      /\ \A x \in L : x \in LiveRows /\ TypeAfter(x) = ty
  BY <1>1, RowsAt DEF LiveOfType
<1>8. \A x \in L : d.fk[x] = KeyAfter(x)
  BY DEF ColumnsAfter
<1>9. \A x \in L : KeyToBe(x) = To(rt, KeyAfter(x))
  BY KeysToBe
<1> HIDE DEF L, LT, d, I, T, e, r, rt
<1>10. /\ \A x \in L : d.nxt[x] \in L \cup {Missing} /\ d.prv[x] \in L \cup {Missing}
       /\ \A t \in LT : d.head[t] \in L \cup {Missing}
  BY <1>5 DEF Linked, Columns
<1>11. \A x \in L : r[x] \in I
  BY <1>6 DEF Numbers
<1>12. \A y \in L \cup {Missing} : To(NewPlace, y) = To(r, y)
  BY <1>6 DEF To
<1>13. ASSUME NEW x \in L PROVE e.fk[r[x]] = To(rt, d.fk[x])
  <2>1. FinalKeys[NewPlace[x]] = KeyToBe(x)
    BY <1>7 DEF FinalKeys
  <2> QED
    BY <1>2, <1>6, <1>8, <1>9, <1>11, <2>1
<1>14. \A x \in L : e.nxt[r[x]] = To(r, d.nxt[x]) /\ e.prv[r[x]] = To(r, d.prv[x])
  BY <1>2, <1>4, <1>6, <1>10, <1>11, <1>12
<1>15. \A t \in LT : e.head[rt[t]] = To(r, d.head[t])
  BY <1>2, <1>4, <1>10, <1>12
<1>16. RenumberedColumns(L, LT, d, I, T, e, r, rt)
  BY <1>2, <1>3, <1>13, <1>14, <1>15 DEF RenumberedColumns
<1> QED
  BY <1>16 DEF L, LT, d, I, T, e, r, rt

\* So are its lists.
LEMMA NewListsLinked ==
  ASSUME Committing, ListsLinked, NEW nxt, NEW prv,
         MergedBy(nxt, NxtPatches, NTypes), MergedBy(prv, PrvPatches, NTypes),
         NEW k, k = PatchedStore(nxt, prv), NEW ty \in Types
  PROVE  \E ord : PartLinked(PlacesAfter, PlacesOfType(ty), TargetsAfter(ty),
                             FinalGroup(k, ty), ord)
<1> DEFINE L == LiveOfType(ty)
           LT == LiveTargets(ty)
           d == ColumnsAfter(ty)
           I == PlacesOfType(ty)
           T == TargetsAfter(ty)
           C == FinalGroup(k, ty)
           e == PartOf(C, I)
           r == PlaceIn(ty)
           rt == NewTarget(ty)
<1>1. WellTyped
  BY DEF Committing
<1>2. PICK new : Linked(L, LT, d, new)
  BY PatchedListsLinked DEF ListsLinked
<1>3. RenumberedColumns(L, LT, d, I, T, e, r, rt)
  BY TypeRenumbered
<1>4. Numbers(r, L, I) /\ Numbers(rt, LT, T) /\ Missing \notin T
      /\ Missing \notin PlacesAfter /\ IsFiniteSet(PlacesAfter)
  BY <1>1, TypeNumbered, RowsNumbered, TargetsNumbered
<1>5. I \subseteq PlacesAfter
  BY DEF PlacesOfType
<1>6. DOMAIN C.nxt = PlacesAfter
  <2>1. Sized(k)
    BY <1>1, PatchedSizes
  <2> QED
    BY <2>1 DEF Sized, FinalGroup
<1> HIDE DEF L, LT, d, I, T, C, e, r, rt
<1>7. \E ord : Linked(I, T, e, ord)
  BY <1>2, <1>3, <1>4, <1>5, RenumberedLinks
<1> QED
  BY <1>4, <1>5, <1>6, <1>7 DEF PartLinked, I, T, C, e

(***************************************************************************)
(* The keys that follow their targets.                                     *)
(***************************************************************************)
\* The keys of the types below n are right, the others as before.
FixedUpTo(n, e, k) ==
  /\ KeepsShape(e, k) /\ e.prv = k.prv
  /\ \A ty \in Types : \A p \in PlacesOfType(ty) :
       e.key[p] = IF ty < n /\ FinalKeys[p] \in MovedTargets(ty) THEN FinalKeys[p] ELSE k.key[p]

\* The lists of one type lead to the keys of that type.
LEMMA TypeFixed ==
  ASSUME WellTyped, NEW k, Sized(k), NEW ty \in Types, NEW ord,
         PartLinked(PlacesAfter, PlacesOfType(ty), TargetsAfter(ty), FinalGroup(k, ty), ord),
         NEW before, FixedUpTo(ty, before, k), KeepsShape(FixedOnce(k, before, ty), k)
  PROVE  FixedUpTo(ty + 1, FixedOnce(k, before, ty), k)
<1> DEFINE C == FinalGroup(k, ty)
           R == PlacesAfter
           I == PlacesOfType(ty)
           T == TargetsAfter(ty)
           M == MovedTargets(ty)
           c == [fk |-> before.key, nxt |-> k.nxt, prv |-> before.prv, head |-> k.head[ty]]
           fixed == FixMovedTargets(c, M)
           after == FixedOnce(k, before, ty)
<1>1. /\ KeepsShape(before, k) /\ before.prv = k.prv /\ KeepsShape(after, k)
      /\ DOMAIN k.key = R /\ k.prv = [p \in R |-> k.prv[p]]
  BY DEF FixedUpTo, Sized
<1>2. DOMAIN before = StoreFields /\ DOMAIN before.key = R
  BY <1>1 DEF KeepsShape
<1>3. after.key = fixed.fk /\ after.prv = fixed.prv
  <2>1. after = [before EXCEPT !.key = fixed.fk, !.prv = fixed.prv]
    BY DEF FixedOnce, MovedTargets
  <2> HIDE DEF fixed, after
  <2> QED
    BY <1>2, <2>1 DEF StoreFields
<1>4. M \subseteq T
  <2>1. Plannable(db.size[ty], tx.added[ty], tx.gone[ty])
    BY OraclesPlan
  <2> QED
    BY <2>1, LiveMoves DEF MovedTargets, TargetsAfter, TargetOracle
<1>5. /\ c.nxt = C.nxt /\ c.prv = C.prv /\ c.head = C.head /\ c.fk = before.key
      /\ C.fk = FinalKeys /\ C.prv = k.prv
      /\ c = [fk |-> c.fk, nxt |-> C.nxt, prv |-> C.prv, head |-> C.head]
  BY <1>1 DEF FinalGroup
<1>6. /\ fixed.prv = C.prv
      /\ \A p \in R : fixed.fk[p] = IF p \in I /\ C.fk[p] \in M THEN C.fk[p] ELSE c.fk[p]
  <2> HIDE DEF C, R, I, T, M, c
  <2>1. PartLinked(R, I, T, C, ord)
    BY DEF C, R, I, T
  <2>2. /\ C.prv = [x \in R |-> C.prv[x]] /\ DOMAIN c.fk = R /\ M \in SUBSET T
    BY <1>1, <1>2, <1>4, <1>5
  <2> QED
    BY <1>5, <2>1, <2>2, PartFixed
<1>7. Types \subseteq Nat
  BY KeyAssumption DEF Types
<1>8. \A o \in Types : PlacesOfType(o) \subseteq R /\ (o # ty => PlacesOfType(o) \cap I = {})
  BY DEF PlacesOfType
<1> HIDE DEF C, R, I, T, M, c, fixed, after
<1>9. ASSUME NEW o \in Types, NEW p \in PlacesOfType(o)
      PROVE  after.key[p] = IF o < ty + 1 /\ FinalKeys[p] \in MovedTargets(o)
                              THEN FinalKeys[p] ELSE k.key[p]
  <2>1. p \in R /\ o \in Nat /\ ty \in Nat
    BY <1>7, <1>8
  <2>2. after.key[p] = IF p \in I /\ FinalKeys[p] \in M THEN FinalKeys[p] ELSE before.key[p]
    BY <1>3, <1>5, <1>6, <2>1
  <2>3. before.key[p] = IF o < ty /\ FinalKeys[p] \in MovedTargets(o) THEN FinalKeys[p] ELSE k.key[p]
    BY DEF FixedUpTo
  <2>4. CASE o = ty
    <3>1. p \in I /\ before.key[p] = k.key[p] /\ o < ty + 1
      BY <2>1, <2>3, <2>4 DEF I
    <3> QED
      BY <2>2, <2>4, <3>1 DEF M
  <2>5. CASE o # ty
    <3>1. p \notin I /\ (o < ty + 1 <=> o < ty)
      BY <1>8, <2>1, <2>5
    <3> QED
      BY <2>2, <2>3, <3>1
  <2> QED
    BY <2>4, <2>5
<1>10. after.prv = k.prv
  BY <1>3, <1>5, <1>6
<1>11. FixedUpTo(ty + 1, after, k)
  BY <1>1, <1>9, <1>10 DEF FixedUpTo
<1> QED
  BY <1>11 DEF after

\* What a commit leaves: the patched store k with the keys as they should be.
Leaving(e, k) ==
  /\ Sized(k) /\ KeepsShape(e, k) /\ e.prv = k.prv
  /\ \A x \in LiveRows : k.type[NewPlace[x]] = TypeAfter(x)
  /\ \A ty \in Types :
       /\ \A p \in PlacesOfType(ty) : e.key[p] = FinalKeys[p]
       /\ \E ord : PartLinked(PlacesAfter, PlacesOfType(ty), TargetsAfter(ty),
                              FinalGroup(k, ty), ord)
       /\ RenumberedColumns(LiveOfType(ty), LiveTargets(ty), ColumnsAfter(ty),
                            PlacesOfType(ty), TargetsAfter(ty),
                            PartOf(FinalGroup(k, ty), PlacesOfType(ty)),
                            PlaceIn(ty), NewTarget(ty))

LEMMA CommitLeaves ==
  ASSUME Committing, ListsLinked, Commit
  PROVE  \E nxt, prv : Leaving(db', PatchedStore(nxt, prv))
<1>1. PICK nxt, prv : /\ MergedBy(nxt, NxtPatches, NTypes)
                      /\ MergedBy(prv, PrvPatches, NTypes)
                      /\ Patched = PatchedStore(nxt, prv)
  BY PatchedIs
<1> DEFINE k == PatchedStore(nxt, prv)
<1>2. WellTyped
  BY DEF Committing
<1>3. Sized(k)
  BY <1>2, PatchedSizes
<1>4. \A ty \in Types : \E ord :
        PartLinked(PlacesAfter, PlacesOfType(ty), TargetsAfter(ty), FinalGroup(k, ty), ord)
  BY <1>1, NewListsLinked
<1>5. \A ty \in Types :
        RenumberedColumns(LiveOfType(ty), LiveTargets(ty), ColumnsAfter(ty),
                          PlacesOfType(ty), TargetsAfter(ty),
                          PartOf(FinalGroup(k, ty), PlacesOfType(ty)),
                          PlaceIn(ty), NewTarget(ty))
  BY <1>1, TypeRenumbered
<1>6. \A x \in LiveRows : k.type[NewPlace[x]] = TypeAfter(x)
  BY NewTypes
<1>7. \A ty \in Types : \A x \in LiveOfType(ty) :
        KeyToBe(x) \notin MovedTargets(ty) => k.key[NewPlace[x]] = KeyToBe(x)
  BY NewKeys
<1>8. db' = FixAll(k)
  BY <1>1 DEF Commit
<1> HIDE DEF k
<1>9. PICK v : /\ Fixes(v, k, NTypes) /\ FixAll(k) = v[NTypes]
               /\ \A j \in 0 .. NTypes : KeepsShape(v[j], k)
  <2>1. /\ DOMAIN k = StoreFields /\ k = WithKeys(k, k.key, k.prv)
        /\ k.key = [x \in DOMAIN k.key |-> k.key[x]]
        /\ k.prv = [x \in DOMAIN k.prv |-> k.prv[x]]
    BY <1>3 DEF Sized
  <2> QED
    BY <2>1, FixesExist
<1>10. NTypes \in Nat /\ Types = 0 .. NTypes - 1
  BY KeyAssumption DEF Types
<1>11. FixedUpTo(NTypes, v[NTypes], k)
  <2> DEFINE P == {j \in 0 .. NTypes : FixedUpTo(j, v[j], k)}
  <2>1. v = [j \in 0 .. NTypes |-> IF j = 0 THEN k ELSE FixedOnce(k, v[j - 1], j - 1)]
    BY <1>9 DEF Fixes
  <2>2. 0 \in P
    <3>1. v[0] = k
      BY <1>10, <2>1
    <3>2. \A ty \in Types : ~(ty < 0)
      BY <1>10
    <3>3. FixedUpTo(0, v[0], k)
      BY <1>9, <1>10, <3>1, <3>2 DEF FixedUpTo
    <3> QED
      BY <1>10, <3>3
  <2>3. ASSUME NEW j \in 1 .. NTypes, j - 1 \in P PROVE j \in P
    <3>1. j - 1 \in Types /\ (j - 1) + 1 = j /\ j # 0 /\ j \in 0 .. NTypes
      BY <1>10
    <3>2. v[j] = FixedOnce(k, v[j - 1], j - 1)
      BY <2>1, <3>1
    <3>3. FixedUpTo(j - 1, v[j - 1], k) /\ KeepsShape(FixedOnce(k, v[j - 1], j - 1), k)
      BY <1>9, <2>3, <3>1, <3>2
    <3>4. PICK ord : PartLinked(PlacesAfter, PlacesOfType(j - 1), TargetsAfter(j - 1),
                                FinalGroup(k, j - 1), ord)
      BY <1>4, <3>1
    <3>5. FixedUpTo((j - 1) + 1, FixedOnce(k, v[j - 1], j - 1), k)
      BY <1>2, <1>3, <3>1, <3>3, <3>4, TypeFixed
    <3> QED
      BY <3>1, <3>2, <3>5
  <2> HIDE DEF P
  <2>4. \A j \in 0 .. NTypes : j \in P
    BY <1>10, <2>2, <2>3, InductionUpTo
  <2> QED
    BY <1>10, <2>4 DEF P
<1>12. KeepsShape(db', k) /\ db'.prv = k.prv
  BY <1>8, <1>9, <1>11 DEF FixedUpTo
<1>13. ASSUME NEW ty \in Types, NEW p \in PlacesOfType(ty) PROVE db'.key[p] = FinalKeys[p]
  <2>1. ty < NTypes
    BY <1>10
  <2>2. db'.key[p] = IF FinalKeys[p] \in MovedTargets(ty) THEN FinalKeys[p] ELSE k.key[p]
    BY <1>8, <1>9, <1>11, <2>1 DEF FixedUpTo
  <2>3. p \in PlacesAfter /\ TypeAfter(RowAt(p)) = ty
    BY DEF PlacesOfType
  <2>4. RowAt(p) \in LiveOfType(ty) /\ NewPlace[RowAt(p)] = p
    BY <1>2, <2>3, RowsAt DEF LiveOfType
  <2>5. FinalKeys[p] = KeyToBe(RowAt(p))
    BY <2>3 DEF FinalKeys
  <2> QED
    BY <1>7, <2>2, <2>4, <2>5
<1> QED
  BY <1>3, <1>4, <1>5, <1>6, <1>12, <1>13 DEF Leaving, k

\* The tables of the store that a commit leaves.
LEMMA CommittedTables ==
  ASSUME WellTyped, NEW k, Leaving(db', k)
  PROVE  /\ Rows' = PlacesAfter
         /\ \A ty \in Types : /\ TargetRows(ty)' = TargetsAfter(ty)
                              /\ RowsOfType(ty)' = PlacesOfType(ty)
                              /\ ColumnsOf(ty)' = PartOf(FinalGroup(k, ty), PlacesOfType(ty))
                              /\ db'.cnt[ty] = k.cnt[ty]
<1>1. /\ Sized(k) /\ KeepsShape(db', k) /\ db'.prv = k.prv
      /\ \A x \in LiveRows : k.type[NewPlace[x]] = TypeAfter(x)
      /\ \A ty \in Types : \A p \in PlacesOfType(ty) : db'.key[p] = FinalKeys[p]
  BY DEF Leaving
<1>2. /\ db'.len = SourceOracle.newSize /\ db'.type = k.type /\ db'.nxt = k.nxt
      /\ db'.head = k.head /\ db'.cnt = k.cnt
      /\ db'.size = [ty \in Types |-> TargetOracle(ty).newSize]
  BY <1>1 DEF Sized, KeepsShape
<1>3. Rows' = PlacesAfter
  BY <1>2 DEF Rows, PlacesAfter, Places, SourceOracle
<1>4. ASSUME NEW ty \in Types PROVE TargetRows(ty)' = TargetsAfter(ty)
  BY <1>2 DEF TargetRows, TargetsAfter, Places, TargetOracle
<1>5. ASSUME NEW ty \in Types PROVE RowsOfType(ty)' = PlacesOfType(ty)
  <2>1. \A p \in PlacesAfter : k.type[p] = TypeAfter(RowAt(p))
    BY <1>1, RowsAt
  <2>2. RowsOfType(ty)' = {p \in Rows' : db'.type[p] = ty}
    BY DEF RowsOfType
  <2> QED
    BY <1>2, <1>3, <2>1, <2>2 DEF PlacesOfType
<1>6. ASSUME NEW ty \in Types
      PROVE  ColumnsOf(ty)' = PartOf(FinalGroup(k, ty), PlacesOfType(ty))
  <2> DEFINE I == PlacesOfType(ty)
  <2>1. Group(ty)' = [fk |-> db'.key, nxt |-> k.nxt, prv |-> k.prv, head |-> k.head[ty]]
    BY <1>1, <1>2 DEF Group
  <2>2. ColumnsOf(ty)' = [fk   |-> [x \in I |-> db'.key[x]], nxt  |-> [x \in I |-> k.nxt[x]],
                          prv  |-> [x \in I |-> k.prv[x]], head |-> k.head[ty]]
    BY <1>5, <2>1 DEF ColumnsOf, PartOf
  <2>3. [x \in I |-> db'.key[x]] = [x \in I |-> FinalKeys[x]]
    BY <1>1
  <2> HIDE DEF I
  <2> QED
    BY <2>2, <2>3 DEF PartOf, FinalGroup, I
<1> QED
  BY <1>2, <1>3, <1>4, <1>5, <1>6

\* After a commit the lists of every type are linked.
LEMMA CommitLinks ==
  ASSUME Committing, ListsLinked, Commit
  PROVE  ListsLinked'
<1>1. WellTyped
  BY DEF Committing
<1>2. PICK nxt, prv : Leaving(db', PatchedStore(nxt, prv))
  BY CommitLeaves
<1> DEFINE k == PatchedStore(nxt, prv)
<1> HIDE DEF k
<1>3. Leaving(db', k)
  BY <1>2 DEF k
<1>4. \A ty \in Types : /\ TargetRows(ty)' = TargetsAfter(ty)
                        /\ RowsOfType(ty)' = PlacesOfType(ty)
                        /\ ColumnsOf(ty)' = PartOf(FinalGroup(k, ty), PlacesOfType(ty))
  BY <1>1, <1>3, CommittedTables
<1>5. ASSUME NEW ty \in Types
      PROVE  \E ord : Linked(RowsOfType(ty)', TargetRows(ty)', ColumnsOf(ty)', ord)
  <2>1. PICK ord : PartLinked(PlacesAfter, PlacesOfType(ty), TargetsAfter(ty),
                              FinalGroup(k, ty), ord)
    BY <1>3 DEF Leaving
  <2>2. Linked(PlacesOfType(ty), TargetsAfter(ty), PartOf(FinalGroup(k, ty), PlacesOfType(ty)), ord)
    BY <2>1 DEF PartLinked
  <2> QED
    BY <1>4, <2>2
<1>6. Types' = Types
  BY DEF Types
<1> QED
  BY <1>5, <1>6 DEF ListsLinked

(***************************************************************************)
(* The counts.                                                             *)
(***************************************************************************)
\* CountDelta is the number of items to a target, less the rows that leave it.
LEMMA CountDeltaIs ==
  ASSUME Committing, ListsLinked, NEW ty \in Types, NEW t \in LiveTargets(ty)
  PROVE  CountDelta(ty, Resolve(TargetOracle(ty), t))
           = Cardinality(ItemsTo(StagedOf(ty), t)) + Cardinality(ItemsTo(RelinksTo(ty), t))
               - Cardinality(RowsTo(RowsOfType(ty), ColumnsOf(ty).fk, t) \cap DeadOf(ty))
<1> DEFINE to == TargetOracle(ty)
           p == Resolve(to, t)
           I == RowsOfType(ty)
           c == ColumnsOf(ty)
           staged == StagedOf(ty)
           relinks == RelinksTo(ty)
           lost == {r \in DeadOf(ty) : db.key[r] # Missing /\ Resolve(to, db.key[r]) = p}
           gained == {k \in DOMAIN staged : Resolve(to, staged[k].target) = p}
           relinked == {k \in DOMAIN relinks : Resolve(to, Resolve(to, relinks[k].target)) = p}
<1>1. WellTyped
  BY DEF Committing
<1>2. /\ TargetRows(ty) \subseteq LiveTargets(ty) \cup tx.gone[ty]
      /\ Missing \notin LiveTargets(ty)
      /\ \A x, y \in LiveTargets(ty) : Resolve(to, x) = Resolve(to, y) => x = y
      /\ \A x \in LiveTargets(ty) : Resolve(to, x) # Missing
      /\ \A x \in tx.gone[ty] \cup {Missing} : Resolve(to, x) = Missing
  BY <1>1, TargetsNumbered
<1>3. PICK ord : Linked(I, TargetRows(ty), c, ord)
  BY DEF ListsLinked
<1>4. DeadOf(ty) \subseteq I /\ \A x \in I : c.fk[x] = db.key[x]
  BY RowsOfCommit DEF ColumnsOf, PartOf, Group
<1>5. \A x \in I : db.key[x] \in TargetRows(ty) \cup {Missing}
  <2> HIDE DEF I, c
  <2> QED
    BY <1>3, <1>4 DEF Linked, Columns
<1>6. /\ DOMAIN staged = 1 .. Stagings(ty) /\ DOMAIN relinks = 1 .. Relinkings(ty)
      /\ \A i \in 1 .. Relinkings(ty) : \E k \in RelinkPlaces(ty) : relinks[i] = tx.relinks[k]
      /\ \A i \in 1 .. Stagings(ty) : \E k \in StagedPlaces(ty) : staged[i] = StagedItem(k)
  BY ItemsOfCommit DEF AreItems, Listed
<1>7. \A k \in StagedPlaces(ty) : StagedItem(k).target \in LiveTargets(ty) \cup {Missing}
  BY StagedTargets
<1>8. \A k \in RelinkPlaces(ty) :
        /\ tx.relinks[k].target \in LiveTargets(ty) \cup {Missing}
        /\ Resolve(to, tx.relinks[k].target) = tx.relinks[k].target
  BY RelinkTargets
<1>9. \A y \in LiveTargets(ty) \cup {Missing} : Resolve(to, y) = p <=> y = t
  BY <1>2
<1>10. CountDelta(ty, p) = Cardinality(gained) + Cardinality(relinked) - Cardinality(lost)
  BY DEF CountDelta
<1> HIDE DEF to, p, I, c, staged, relinks
<1>11. lost = RowsTo(I, c.fk, t) \cap DeadOf(ty)
  <2>1. \A r \in I : db.key[r] # Missing /\ Resolve(to, db.key[r]) = p <=> db.key[r] = t
    BY <1>2, <1>5, <1>9 DEF p
  <2> QED
    BY <1>4, <2>1 DEF RowsTo
<1>12. gained = ItemsTo(staged, t)
  BY <1>6, <1>7, <1>9 DEF ItemsTo
<1>13. relinked = ItemsTo(relinks, t)
  <2>1. \A i \in DOMAIN relinks : /\ relinks[i].target \in LiveTargets(ty) \cup {Missing}
                                  /\ Resolve(to, relinks[i].target) = relinks[i].target
    BY <1>6, <1>8
  <2>2. \A i \in DOMAIN relinks : Resolve(to, Resolve(to, relinks[i].target)) = p
                                  <=> relinks[i].target = t
    BY <1>9, <2>1
  <2> QED
    BY <2>2 DEF ItemsTo
<1> HIDE DEF lost, gained, relinked
<1> QED
  BY <1>10, <1>11, <1>12, <1>13 DEF to, p, I, c, staged, relinks

\* After a commit every count is exact again.
LEMMA CommitCounts ==
  ASSUME Committing, ListsLinked, CountsExact, Commit
  PROVE  CountsExact'
<1> SUFFICES ASSUME TrackCounts
             PROVE  \A ty \in Types : \A p \in TargetRows(ty)' :
                      db'.cnt[ty][p] = Cardinality(RowsTo(RowsOfType(ty)', db'.key, p))
  BY DEF CountsExact, Types
<1>1. WellTyped
  BY DEF Committing
<1>2. PICK nxt, prv : Leaving(db', PatchedStore(nxt, prv))
  BY CommitLeaves
<1> SUFFICES ASSUME NEW ty \in Types, NEW p \in TargetRows(ty)'
             PROVE  db'.cnt[ty][p] = Cardinality(RowsTo(RowsOfType(ty)', db'.key, p))
  OBVIOUS
<1> DEFINE k == PatchedStore(nxt, prv)
           I == RowsOfType(ty)
           c == ColumnsOf(ty)
           L == LiveOfType(ty)
           LT == LiveTargets(ty)
           d == ColumnsAfter(ty)
           J == PlacesOfType(ty)
           T == TargetsAfter(ty)
           e == PartOf(FinalGroup(k, ty), J)
           r == PlaceIn(ty)
           rt == NewTarget(ty)
           to == TargetOracle(ty)
           M == MaterializedAs(db.cnt[ty], to, NoCounts(to))
           items == Arriving(ty)
           dead == DeadOf(ty)
           n == db.size[ty]
           a == tx.added[ty]
           del == tx.gone[ty]
<1>3. /\ Sized(k)
      /\ \A x \in J : db'.key[x] = FinalKeys[x]
      /\ RenumberedColumns(L, LT, d, J, T, e, r, rt)
      /\ \E ord : PartLinked(PlacesAfter, J, T, FinalGroup(k, ty), ord)
  BY <1>2 DEF Leaving
<1>4. TargetRows(ty)' = T /\ RowsOfType(ty)' = J /\ db'.cnt[ty] = k.cnt[ty]
  <2>1. Leaving(db', k)
    BY <1>2
  <2> HIDE DEF k
  <2> QED
    BY <1>1, <2>1, CommittedTables
<1>5. /\ Numbers(rt, LT, T) /\ Missing \notin LT /\ Missing \notin T
      /\ \A x \in LT \cup {Missing} : To(rt, x) = Resolve(to, x)
      /\ Numbers(r, L, J)
  BY <1>1, TargetsNumbered, TypeNumbered
<1>6. PICK t \in LT : rt[t] = p
  BY <1>4, <1>5 DEF Numbers
<1>7. p = Resolve(to, t)
  BY <1>5, <1>6 DEF To
<1>8. k.cnt[ty][p] = M[p] + CountDelta(ty, p)
  <2>1. k.cnt[ty] = [q \in DOMAIN M |-> M[q] + (IF TrackCounts THEN CountDelta(ty, q) ELSE 0)]
    BY DEF PatchedStore
  <2>2. p \in DOMAIN M
    <3>1. DOMAIN k.cnt[ty] = T
      BY <1>3 DEF Sized
    <3> HIDE DEF k, M, T
    <3> QED
      BY <1>4, <2>1, <3>1
  <2> HIDE DEF k, M
  <2> QED
    BY <2>1, <2>2
<1>9. PICK ord : Linked(I, TargetRows(ty), c, ord)
  BY DEF ListsLinked
<1>10. /\ IsFiniteSet(I) /\ dead \subseteq I /\ \A x \in I : c.fk[x] = db.key[x]
       /\ L = (I \ dead) \cup RelinkedTo(ty) \cup StagedAs(ty)
  BY RowsOfCommit DEF ColumnsOf, PartOf, Group, RelinkedTo, StagedAs
<1>11. RowsTo(I, c.fk, t) = RowsTo(I, db.key, t)
  BY <1>10 DEF RowsTo
<1>12. M[p] = Cardinality(RowsTo(I, c.fk, t))
  <2>1. Plannable(n, a, del) /\ to = Oracle(n, a, del) /\ LT = Live(n, a, del)
        /\ rt = NumberedBy(n, a, del) /\ TargetRows(ty) = 0 .. n - 1
    BY <1>1, OraclesPlan DEF TargetOracle, LiveTargets, NewTarget, TargetRows
  <2>2. M[p] = IF t \in n .. n + a - 1 THEN NoCounts(to)[t - n] ELSE db.cnt[ty][t]
    <3> HIDE DEF n, a, del, LT, rt
    <3> QED
      BY <1>6, <2>1, LiveMaterialized
  <2>3. CASE t \in n .. n + a - 1
    <3>1. t - n \in 0 .. a - 1 /\ t \notin TargetRows(ty)
      <4> HIDE DEF n, a, del, LT, rt
      <4> QED
        BY <2>1, <2>3 DEF Plannable
    <3>2. DOMAIN to.dest = 0 .. a - 1
      BY DEF TargetOracle, Oracle, AdditionDest, a
    <3>3. NoCounts(to)[t - n] = 0
      BY <3>1, <3>2 DEF NoCounts
    <3>4. RowsTo(I, c.fk, t) = {}
      <4>1. \A x \in I : c.fk[x] \in TargetRows(ty) \cup {Missing}
        <5> HIDE DEF I, c
        <5> QED
          BY <1>9 DEF Linked, Columns
      <4> HIDE DEF I, c
      <4> QED
        BY <1>5, <3>1, <4>1 DEF RowsTo
    <3> QED
      BY <2>2, <2>3, <3>3, <3>4, FS_EmptySet
  <2>4. CASE t \notin n .. n + a - 1
    <3>1. t \in TargetRows(ty)
      <4>1. LT = ((0 .. n - 1) \ del) \cup (n .. n + a - 1)
        BY <2>1, LiveNumbered
      <4> QED
        BY <2>1, <2>4, <4>1
    <3>2. db.cnt[ty][t] = Cardinality(RowsTo(I, db.key, t))
      BY <3>1 DEF CountsExact
    <3> QED
      BY <1>11, <2>2, <2>4, <3>2
  <2> QED
    BY <2>3, <2>4
<1>13. CountDelta(ty, p)
         = Cardinality(ItemsTo(StagedOf(ty), t)) + Cardinality(ItemsTo(RelinksTo(ty), t))
             - Cardinality(RowsTo(I, c.fk, t) \cap dead)
  BY <1>7, CountDeltaIs
<1>14. /\ IsFiniteSet(RowsTo(I, c.fk, t) \cap dead) /\ IsFiniteSet(RowsTo(I, c.fk, t))
       /\ Cardinality(RowsTo(L, d.fk, t))
            = Cardinality(RowsTo(I, c.fk, t)) - Cardinality(RowsTo(I, c.fk, t) \cap dead)
                + Cardinality(ItemsTo(items, t))
  <2>1. PatchedColumns(I, TargetRows(ty), c, dead, items, L, LT, d, TypePatch(ty))
    BY ColumnsAfterPatched
  <2>2. AreItems(items, Arrivals(ty), RelinkedTo(ty) \cup StagedAs(ty))
    BY ItemsOfCommit DEF Arrivals
  <2>3. (RelinkedTo(ty) \cup StagedAs(ty)) \cap (I \ dead) = {}
    <3>1. /\ dead = Dead \cap I /\ Dead = tx.deleted \cup Relinked /\ I \subseteq Rows
          /\ Rows \cap StagedRows = {}
      BY <1>1, RowsOfCommit, RowsNumbered
    <3> QED
      BY <3>1 DEF RelinkedTo, StagedAs
  <2>4. ItemsPatched(I, TargetRows(ty), c, dead, Arrivals(ty), items, L, LT, d, TypePatch(ty))
    <3>1. /\ Arrivals(ty) \in Nat /\ DOMAIN items = 1 .. Arrivals(ty)
          /\ \A i, j \in 1 .. Arrivals(ty) : items[i].row = items[j].row => i = j
          /\ \A i \in 1 .. Arrivals(ty) : items[i].row \in RelinkedTo(ty) \cup StagedAs(ty)
      BY <2>2 DEF AreItems, Listed
    <3> HIDE DEF I, c, dead, items, L, LT, d
    <3> QED
      BY <1>10, <2>1, <2>3, <3>1 DEF ItemsPatched
  <2> HIDE DEF I, c, dead, items, L, LT, d
  <2> QED
    BY <2>4, PatchedCount
<1>15. Cardinality(ItemsTo(items, t))
         = Cardinality(ItemsTo(RelinksTo(ty), t)) + Cardinality(ItemsTo(StagedOf(ty), t))
       /\ IsFiniteSet(ItemsTo(RelinksTo(ty), t)) /\ IsFiniteSet(ItemsTo(StagedOf(ty), t))
  <2>1. /\ Follow(RelinksTo(ty), Relinkings(ty), StagedOf(ty), Stagings(ty), items)
        /\ Relinkings(ty) \in Nat /\ Stagings(ty) \in Nat
    BY ItemsOfCommit DEF AreItems, Listed
  <2> QED
    BY <2>1, ItemsAdd
<1>16. Cardinality(RowsTo(J, e.fk, p)) = Cardinality(RowsTo(L, d.fk, t))
  <2>1. \A x \in L : d.fk[x] \in LT \cup {Missing}
    <3>1. PICK new : Linked(L, LT, d, new)
      BY <1>9, PatchedListsLinked
    <3> HIDE DEF L, LT, d
    <3> QED
      BY <3>1 DEF Linked, Columns
  <2>2. IsFiniteSet(L)
    <3>1. L \subseteq LiveRows /\ IsFiniteSet(LiveRows)
      BY <1>1, RowsNumbered DEF LiveOfType
    <3> QED
      BY <3>1, FS_Subset
  <2>3. p = rt[t]
    BY <1>6
  <2> HIDE DEF L, LT, d, J, T, e, r, rt
  <2> QED
    BY <1>3, <1>5, <2>1, <2>2, <2>3, RenumberedRows
<1>17. RowsTo(J, e.fk, p) = RowsTo(J, db'.key, p)
  <2>1. \A x \in J : e.fk[x] = FinalKeys[x]
    BY DEF PartOf, FinalGroup
  <2> HIDE DEF J, e
  <2> QED
    BY <1>3, <2>1 DEF RowsTo
<1> HIDE DEF k, I, c, L, LT, d, J, T, e, r, rt, to, M, items, dead, n, a, del
<1>18. M[p] + CountDelta(ty, p) = Cardinality(RowsTo(L, d.fk, t))
  <2>1. /\ Cardinality(RowsTo(I, c.fk, t)) \in Nat
        /\ Cardinality(RowsTo(I, c.fk, t) \cap dead) \in Nat
        /\ Cardinality(ItemsTo(RelinksTo(ty), t)) \in Nat
        /\ Cardinality(ItemsTo(StagedOf(ty), t)) \in Nat
    BY <1>14, <1>15, FS_CardinalityType
  <2> QED
    BY <1>12, <1>13, <1>14, <1>15, <2>1
<1> QED
  BY <1>4, <1>8, <1>16, <1>17, <1>18

(***************************************************************************)
(* What the program stages.                                                *)
(***************************************************************************)
\* The i-th relink is to a row of the table that the new type of its row names.
RelinkExists(i) ==
  LET r == tx.relinks[i].row
  IN  /\ NewType(r) \in Types => tx.relinks[i].target \in KeysTo(NewType(r))
      /\ r \notin tx.keySet => tx.relinks[i].target = db.key[r]

\* Nothing is staged in a context that no call was made in.
LEMMA NothingStaged ==
  ASSUME tx = NoTx \/ tx = [NoTx EXCEPT !.open = TRUE]
  PROVE  StagedKeysExist /\ DeletionsClosed
<1>1. /\ tx.additions = <<>> /\ tx.relinks = <<>>
      /\ tx.gone = [ty \in Types |-> {}]
  <2>1. CASE tx = NoTx
    BY <2>1 DEF NoTx
  <2>2. CASE tx = [NoTx EXCEPT !.open = TRUE]
    <3>1. /\ tx.additions = NoTx.additions /\ tx.gone = NoTx.gone
          /\ tx.relinks = NoTx.relinks
      BY <2>2 DEF NoTx
    <3> QED
      BY <3>1 DEF NoTx
  <2> QED
    BY <2>1, <2>2
<1>2. DOMAIN tx.additions = {} /\ DOMAIN tx.relinks = {}
  BY <1>1
<1>3. Relinked = {}
  BY <1>2 DEF Relinked
<1> QED
  BY <1>1, <1>2, <1>3 DEF StagedKeysExist, DeletionsClosed, Typed

\* A program that may write a key may write it when more is staged.
LEMMA KeysGrow ==
  ASSUME WellTyped, db' = db, \A ty \in Types : tx'.added[ty] \in Nat,
         \A ty \in Types : tx.added[ty] <= tx'.added[ty]
  PROVE  /\ \A ty \in Types :
              KeysTo(ty) \subseteq (0 .. db'.size[ty] + tx'.added[ty] - 1) \cup {Missing}
         /\ References \subseteq References'
<1>1. ASSUME NEW ty \in Types
      PROVE  KeysTo(ty) \subseteq KeysTo(ty)'
  <2>1. db.size[ty] \in Nat /\ tx.added[ty] \in Nat /\ tx'.added[ty] \in Nat
        /\ tx.added[ty] <= tx'.added[ty]
    BY Sizes
  <2>2. 0 .. db.size[ty] + tx.added[ty] - 1 \subseteq 0 .. db.size[ty] + tx'.added[ty] - 1
    BY <2>1
  <2> QED
    BY <2>2 DEF KeysTo
<1>2. Types' = Types /\ NoType' = NoType
  BY DEF Types, NoType
<1>3. ASSUME NEW a \in References
      PROVE  a \in References'
  <2>1. CASE a \in [type : {NoType}, key : {Missing}]
    BY <1>2, <2>1 DEF References
  <2>2. CASE \E ty \in Types : a \in [type : {ty}, key : KeysTo(ty)]
    <3>1. PICK ty \in Types : a \in [type : {ty}, key : KeysTo(ty)]
      BY <2>2
    <3>2. a \in [type : {ty}, key : KeysTo(ty)']
      BY <1>1, <3>1
    <3> QED
      BY <1>2, <3>2 DEF References
  <2> QED
    BY <2>1, <2>2 DEF References
<1>4. ASSUME NEW ty \in Types
      PROVE  KeysTo(ty) \subseteq (0 .. db'.size[ty] + tx'.added[ty] - 1) \cup {Missing}
  BY <1>1 DEF KeysTo
<1> QED
  BY <1>3, <1>4

\* A call that edits no rows of the table.
LEMMA EditsUntouched ==
  ASSUME WellTyped, StagedKeysExist, db' = db, tx'.relinks = tx.relinks,
         tx'.retypes = tx.retypes, tx'.keySet = tx.keySet, tx'.typeSet = tx.typeSet,
         tx'.additions = tx.additions,
         \A ty \in Types : tx'.added[ty] \in Nat,
         \A ty \in Types : tx.added[ty] <= tx'.added[ty]
  PROVE  StagedKeysExist'
<1>1. Types' = Types /\ Relinked' = Relinked /\ \A r : NewType(r)' = NewType(r)
  BY DEF Types, Relinked, NewType
<1>2. /\ \A ty \in Types :
           KeysTo(ty) \subseteq (0 .. db'.size[ty] + tx'.added[ty] - 1) \cup {Missing}
      /\ References \subseteq References'
  BY KeysGrow
<1>3. \A k \in DOMAIN tx'.additions : tx'.additions[k] \in References'
  BY <1>2 DEF StagedKeysExist
<1>4. ASSUME NEW i \in DOMAIN tx'.relinks
      PROVE  RelinkExists(i)'
  <2> DEFINE r == tx.relinks[i].row
             ty == NewType(r)
  <2>1. ty \in Types => tx.relinks[i].target \in KeysTo(ty)
    BY DEF StagedKeysExist
  <2>2. r \notin tx.keySet => tx.relinks[i].target = db.key[r]
    BY DEF StagedKeysExist
  <2>3. ty \in Types =>
          tx'.relinks[i].target \in (0 .. db'.size[ty] + tx'.added[ty] - 1) \cup {Missing}
    BY <1>2, <2>1
  <2>4. (IF r \in DOMAIN tx'.retypes THEN tx'.retypes[r] ELSE db'.type[r]) = ty
    BY DEF NewType
  <2> HIDE DEF ty
  <2> QED
    BY <1>1, <2>2, <2>3, <2>4 DEF RelinkExists, NewType, KeysTo
<1>5. \A r \in Relinked' \ tx'.typeSet : NewType(r)' = db'.type[r]
  BY <1>1 DEF StagedKeysExist
<1> QED
  BY <1>1, <1>3, <1>4, <1>5 DEF StagedKeysExist, RelinkExists

\* Staging rows of the table.
LEMMA AddExists ==
  ASSUME WellTyped, StagedKeysExist, NEW n \in Nat,
         NEW newRows \in [1 .. n -> References], AddEntries(newRows)
  PROVE  StagedKeysExist'
<1> DEFINE keysOf(ty) ==
             {newRows[i].key : i \in {j \in DOMAIN newRows : newRows[j].type = ty}}
<1>1. db' = db /\ \A ty \in Types : tx.added[ty] \in Nat
  BY Sizes DEF AddEntries
<1>2. CASE tx' = [tx EXCEPT !.calls = @ + 1, !.staged = TRUE]
  <2>1. /\ tx'.additions = tx.additions /\ tx'.added = tx.added
        /\ tx'.relinks = tx.relinks /\ tx'.retypes = tx.retypes
        /\ tx'.keySet = tx.keySet /\ tx'.typeSet = tx.typeSet
    BY <1>2 DEF WellTyped, EditsTyped, ContextType, Fields
  <2> QED
    BY <1>1, <2>1, EditsUntouched
<1>3. CASE tx' = [tx EXCEPT !.calls = @ + 1, !.staged = TRUE,
                    !.additions = @ \o newRows,
                    !.claims = [ty \in Types |-> @[ty] \cup keysOf(ty)]]
  <2>1. /\ tx'.additions = tx.additions \o newRows /\ tx'.added = tx.added
        /\ tx'.relinks = tx.relinks /\ tx'.retypes = tx.retypes
        /\ tx'.keySet = tx.keySet /\ tx'.typeSet = tx.typeSet
    BY <1>3 DEF WellTyped, EditsTyped, ContextType, Fields
  <2>2. tx.additions \in Seq(References)
    <3>1. PICK S : tx.additions \in Seq(S)
      BY DEF WellTyped, EditsTyped, ContextType
    <3>2. \A k \in DOMAIN tx.additions : tx.additions[k] \in References
      BY DEF StagedKeysExist
    <3>3. tx.additions \in [1 .. Len(tx.additions) -> References] /\ Len(tx.additions) \in Nat
      BY <3>1, <3>2
    <3> QED
      BY <3>3
  <2>3. newRows \in Seq(References)
    OBVIOUS
  <2>4. tx'.additions \in Seq(References)
    BY <2>1, <2>2, <2>3
  <2>5. References' = References /\ Types' = Types /\ Relinked' = Relinked
        /\ (\A r : NewType(r)' = NewType(r)) /\ (\A ty : KeysTo(ty)' = KeysTo(ty))
    BY <1>1, <2>1 DEF References, Types, NoType, KeysTo, Relinked, NewType
  <2>6. \A k \in DOMAIN tx'.additions : tx'.additions[k] \in References'
    BY <2>4, <2>5
  <2>7. \A i \in DOMAIN tx'.relinks : RelinkExists(i)'
    BY <1>1, <2>1 DEF StagedKeysExist, RelinkExists, NewType, Types, KeysTo
  <2>8. \A r \in Relinked' \ tx'.typeSet : NewType(r)' = db'.type[r]
    BY <1>1, <2>1, <2>5 DEF StagedKeysExist
  <2> QED
    BY <2>5, <2>6, <2>7, <2>8 DEF StagedKeysExist, RelinkExists
<1> QED
  BY <1>2, <1>3 DEF AddEntries

\* What an update call does to the types the rows are to have.
LEMMA UpdatedTypes ==
  ASSUME WellTyped, db' = db, NEW rows, NEW keys, NEW types, NEW byKey,
         UpdateStaged(rows, keys, types, byKey), NEW r \in Rows
  PROVE  NewType(r)' = IF r \in RowsTyped(rows, types) THEN CHOOSE ty \in types : TRUE
                       ELSE NewType(r)
<1> DEFINE keyed == RowsKeyed(rows, keys)
           typed == RowsTyped(rows, types)
<1>1. tx'.retypes = [x \in DOMAIN tx.retypes \cup keyed \cup typed |->
                       IF x \in typed THEN CHOOSE ty \in types : TRUE
                       ELSE IF x \in DOMAIN tx.retypes THEN tx.retypes[x]
                       ELSE db.type[x]]
  BY DEF UpdateStaged
<1> HIDE DEF keyed, typed
<1>2. CASE r \in typed
  BY <1>1, <1>2 DEF NewType, typed
<1>3. CASE r \notin typed
  <2>1. CASE r \in DOMAIN tx.retypes
    BY <1>1, <1>3, <2>1 DEF NewType, typed
  <2>2. CASE r \notin DOMAIN tx.retypes
    BY <1>1, <1>3, <2>2 DEF NewType, typed
  <2> QED
    BY <2>1, <2>2
<1> QED
  BY <1>2, <1>3

\* A call that gives rows the key k, which is one of the type they come to have.
LEMMA UpdateStagedExists ==
  ASSUME WellTyped, StagedKeysExist, db' = db, NEW rows \in SUBSET Nat, NEW k, NEW types,
         NEW byKey, UpdateStaged(rows, {k}, types, byKey),
         \A r \in rows : \A ty \in Types : NewType(r)' = ty => k \in KeysTo(ty)
  PROVE  StagedKeysExist'
<1> DEFINE keyed == RowsKeyed(rows, {k})
           typed == RowsTyped(rows, types)
           f == [r \in keyed |-> CHOOSE x \in {k} : TRUE]
<1>1. /\ rows \subseteq Rows /\ rows \cap tx.keySet = {}
      /\ types # {} => rows \cap tx.typeSet = {}
      /\ tx'.additions = tx.additions /\ tx'.added = tx.added
      /\ AreRegiven(tx.relinks, keyed, f, byKey)
      /\ AreRegiven(byKey, typed \ RowsIn(byKey), db.key, tx'.relinks)
      /\ tx'.keySet = tx.keySet \cup keyed
      /\ tx'.typeSet = tx.typeSet \cup typed
  BY DEF UpdateStaged
<1>2. /\ \A r \in keyed : r \in rows /\ f[r] = k
      /\ \A r \in rows \ keyed : db.key[r] = k
      /\ \A r \in typed : r \in rows /\ types # {}
  BY DEF RowsKeyed, RowsTyped
<1>3. \A r \in Rows \ typed : NewType(r)' = NewType(r)
  BY UpdatedTypes
<1>4. /\ tx.keySet \cup tx.typeSet = Relinked /\ Relinked \subseteq Rows
      /\ Relinked = DOMAIN tx.retypes
  BY DEF WellTyped, EditsTyped, RelinksTyped
<1>5. (\A ty : KeysTo(ty)' = KeysTo(ty)) /\ Types' = Types /\ References' = References
  BY <1>1 DEF KeysTo, Types, References, NoType
<1> HIDE DEF keyed, typed, f
<1>6. /\ RowsIn(byKey) = Relinked \cup keyed
      /\ RowsIn(tx'.relinks) = Relinked \cup keyed \cup typed
      /\ Relinked' = Relinked \cup keyed \cup typed
  <2>1. RowsIn(tx.relinks) = Relinked /\ RowsIn(tx'.relinks) = Relinked'
    BY DEF RowsIn, Relinked
  <2> QED
    BY <1>1, <2>1 DEF AreRegiven
<1>7. ASSUME NEW i \in DOMAIN tx'.relinks
      PROVE  RelinkExists(i)'
  <2>0. PICK r, t : r = tx'.relinks[i].row /\ t = tx'.relinks[i].target
    OBVIOUS
  <2>1. r \in Rows
    <3>1. r \in RowsIn(tx'.relinks)
      BY <2>0 DEF RowsIn
    <3>2. r \in Relinked \cup keyed \cup typed
      BY <1>6, <3>1
    <3> QED
      BY <1>1, <1>2, <1>4, <3>2
  <2>2. /\ \A ty \in Types : NewType(r)' = ty => t \in KeysTo(ty)
        /\ r \notin tx'.keySet => t = db.key[r]
    <3>1. CASE r \in typed \ RowsIn(byKey)
      <4>1. t = db.key[r]
        BY <1>1, <2>0, <3>1 DEF AreRegiven
      <4>2. r \in rows /\ db.key[r] = k
        BY <1>2, <1>6, <3>1
      <4> QED
        BY <4>1, <4>2
    <3>2. CASE r \notin typed \ RowsIn(byKey)
      <4>1. PICK j \in DOMAIN byKey : tx'.relinks[i] = byKey[j]
        BY <1>1, <2>0, <3>2 DEF AreRegiven
      <4>2. CASE r \in keyed
        <5>1. t = k /\ r \in rows /\ r \in tx'.keySet
          BY <1>1, <1>2, <2>0, <4>1, <4>2 DEF AreRegiven
        <5> QED
          BY <5>1
      <4>3. CASE r \notin keyed
        <5>1. PICK l \in DOMAIN tx.relinks : byKey[j] = tx.relinks[l]
          BY <1>1, <2>0, <4>1, <4>3 DEF AreRegiven
        <5>2. r \in Relinked /\ r = tx.relinks[l].row /\ t = tx.relinks[l].target
          BY <2>0, <4>1, <5>1 DEF Relinked
        <5>3. r \notin typed
          BY <1>1, <1>2, <1>4, <5>2
        <5>4. NewType(r)' = NewType(r)
          BY <1>3, <2>1, <5>3
        <5>5. /\ NewType(r) \in Types => t \in KeysTo(NewType(r))
              /\ r \notin tx.keySet => t = db.key[r]
          BY <5>1, <5>2 DEF StagedKeysExist
        <5> QED
          BY <1>1, <5>4, <5>5
      <4> QED
        BY <4>2, <4>3
    <3> QED
      BY <3>1, <3>2
  <2>3. /\ NewType(r)' \in Types =>
             t \in (0 .. db.size[NewType(r)'] + tx.added[NewType(r)'] - 1) \cup {Missing}
        /\ r \notin tx'.keySet => t = db.key[r]
    BY <2>2 DEF KeysTo
  <2>4. NewType(r)' = IF r \in DOMAIN tx'.retypes THEN tx'.retypes[r] ELSE db'.type[r]
    BY DEF NewType
  <2> QED
    BY <1>1, <1>5, <2>0, <2>3, <2>4 DEF RelinkExists, NewType, KeysTo
<1>8. \A r \in Relinked' \ tx'.typeSet : NewType(r)' = db'.type[r]
  <2> SUFFICES ASSUME NEW r \in Relinked' \ tx'.typeSet
               PROVE  NewType(r)' = db.type[r]
    OBVIOUS
  <2>1. r \notin typed /\ r \notin tx.typeSet /\ r \in Rows
    BY <1>1, <1>2, <1>4, <1>6
  <2>2. NewType(r)' = NewType(r)
    BY <1>3, <2>1
  <2>3. NewType(r) = db.type[r]
    <3>1. CASE r \in Relinked
      BY <2>1, <3>1 DEF StagedKeysExist
    <3>2. CASE r \notin Relinked
      BY <1>4, <3>2 DEF NewType
    <3> QED
      BY <3>1, <3>2
  <2> QED
    BY <2>2, <2>3
<1>9. \A k1 \in DOMAIN tx'.additions : tx'.additions[k1] \in References'
  BY <1>1, <1>5 DEF StagedKeysExist
<1> QED
  BY <1>7, <1>8, <1>9 DEF StagedKeysExist, RelinkExists

\* The update calls that a program makes.
LEMMA UpdateExists ==
  ASSUME WellTyped, StagedKeysExist, UpdateKeys
  PROVE  StagedKeysExist'
<1>1. PICK rows \in Named(db.len + Len(tx.additions)) :
        \/ \E ref \in References : UpdateEntries(rows, {ref.key}, {ref.type})
        \/ \E ty \in Types : \E k \in KeysTo(ty) :
             /\ \A r \in rows \cap Rows : NewType(r) \in {ty, NoType}
             /\ UpdateEntries(rows, {k}, {})
  BY DEF UpdateKeys
<1>2. rows \in SUBSET Nat
  <2>1. db.len + Len(tx.additions) \in Nat
    BY Sizes
  <2> QED
    BY <2>1 DEF Named
<1>3. ASSUME NEW reason, Refuse(reason), db' = db
      PROVE  StagedKeysExist'
  <2>1. /\ tx'.additions = tx.additions /\ tx'.added = tx.added
        /\ tx'.relinks = tx.relinks /\ tx'.retypes = tx.retypes
        /\ tx'.keySet = tx.keySet /\ tx'.typeSet = tx.typeSet
    BY <1>3 DEF Refuse, WellTyped, EditsTyped, ContextType, Fields
  <2>2. \A ty \in Types : tx.added[ty] \in Nat
    BY Sizes
  <2> QED
    BY <1>3, <2>1, <2>2, EditsUntouched
<1>4. CASE \E ref \in References : UpdateEntries(rows, {ref.key}, {ref.type})
  <2>1. PICK ref \in References : UpdateEntries(rows, {ref.key}, {ref.type})
    BY <1>4
  <2>2. db' = db
    BY <2>1 DEF UpdateEntries
  <2>3. \/ \E reason : Refuse(reason)
        \/ \E byKey : UpdateStaged(rows, {ref.key}, {ref.type}, byKey)
    BY <1>2, <2>1, UpdateStages
  <2>4. ASSUME NEW byKey, UpdateStaged(rows, {ref.key}, {ref.type}, byKey)
        PROVE  StagedKeysExist'
    <3>1. rows \subseteq Rows /\ rows \cap tx.keySet = {} /\ rows \cap tx.typeSet = {}
      BY <2>4 DEF UpdateStaged
    <3>2. ASSUME NEW r \in rows
          PROVE  NewType(r)' = ref.type
      <4>1. NewType(r)' = IF r \in RowsTyped(rows, {ref.type})
                          THEN CHOOSE ty \in {ref.type} : TRUE ELSE NewType(r)
        BY <2>2, <2>4, <3>1, UpdatedTypes
      <4>2. r \notin DOMAIN tx.retypes
        BY <3>1 DEF WellTyped, EditsTyped, RelinksTyped
      <4>3. r \notin RowsTyped(rows, {ref.type}) => db.type[r] = ref.type
        BY DEF RowsTyped
      <4> QED
        BY <4>1, <4>2, <4>3 DEF NewType
    <3>3. \A r \in rows : \A ty \in Types : NewType(r)' = ty => ref.key \in KeysTo(ty)
      BY <3>2, ReferencesAre
    <3> QED
      BY <1>2, <2>2, <2>4, <3>3, UpdateStagedExists
  <2> QED
    BY <1>3, <2>2, <2>3, <2>4
<1>5. ASSUME NEW ty \in Types, NEW k \in KeysTo(ty),
             \A r \in rows \cap Rows : NewType(r) \in {ty, NoType},
             UpdateEntries(rows, {k}, {})
      PROVE  StagedKeysExist'
  <2>2. db' = db
    BY <1>5 DEF UpdateEntries
  <2>3. \/ \E reason : Refuse(reason)
        \/ \E byKey : UpdateStaged(rows, {k}, {}, byKey)
    BY <1>2, <1>5, UpdateStages
  <2>4. ASSUME NEW byKey, UpdateStaged(rows, {k}, {}, byKey)
        PROVE  StagedKeysExist'
    <3>1. rows \subseteq Rows
      BY <2>4 DEF UpdateStaged
    <3>2. ASSUME NEW r \in rows
          PROVE  NewType(r)' \in {ty, NoType}
      <4>1. NewType(r)' = NewType(r)
        <5>1. r \notin RowsTyped(rows, {})
          BY DEF RowsTyped
        <5> QED
          BY <2>2, <2>4, <3>1, <5>1, UpdatedTypes
      <4> QED
        BY <1>5, <3>1, <4>1
    <3>3. NoType \notin Types
      BY KeyAssumption DEF NoType, Types
    <3>4. \A r \in rows : \A other \in Types : NewType(r)' = other => k \in KeysTo(other)
      BY <3>2, <3>3
    <3> QED
      BY <1>2, <2>2, <2>4, <3>4, UpdateStagedExists
  <2> QED
    BY <1>3, <2>2, <2>3, <2>4
<1> QED
  BY <1>1, <1>4, <1>5

(***************************************************************************)
(* What the lists hold, and what a delete call finds in them.              *)
(***************************************************************************)
LEMMA ReferrersAre ==
  ASSUME WellTyped, NEW ty \in Types, NEW t
  PROVE  LET R == ReferrersOf(ty, t)
         IN  /\ R = RowsTo(RowsOfType(ty), ColumnsOf(ty).fk, t)
             /\ R = RowsTo(RowsOfType(ty), db.key, t)
             /\ IsFiniteSet(R) /\ Cardinality(R) \in Nat
             /\ Cardinality(R) <= db.len /\ Cardinality(Rows) = db.len
<1> DEFINE R == ReferrersOf(ty, t)
<1>1. \A x \in RowsOfType(ty) : ColumnsOf(ty).fk[x] = db.key[x]
  BY DEF ColumnsOf, PartOf, Group
<1>2. /\ R = RowsTo(RowsOfType(ty), db.key, t)
      /\ R = RowsTo(RowsOfType(ty), ColumnsOf(ty).fk, t)
  BY <1>1 DEF ReferrersOf, RowsTo, RowsOfType
<1>3. R \subseteq Rows
  BY DEF ReferrersOf
<1>4. IsFiniteSet(Rows) /\ db.len \in Nat
  BY Sizes
<1>5. Cardinality(Rows) = db.len
  <2>1. 0 \in Int /\ db.len - 1 \in Int
    BY <1>4
  <2>2. Cardinality(0 .. db.len - 1) = IF 0 > db.len - 1 THEN 0 ELSE db.len - 1 - 0 + 1
    BY ONLY <2>1, FS_Interval
  <2> QED
    BY <1>4, <2>2 DEF Rows
<1>6. IsFiniteSet(R) /\ Cardinality(R) \in Nat /\ Cardinality(R) <= Cardinality(Rows)
  <2> HIDE DEF R
  <2> QED
    BY <1>3, <1>4, MoreRoom
<1> QED
  BY <1>2, <1>5, <1>6

LEMMA ListOfTarget ==
  ASSUME WellTyped, ListsLinked, NEW ty \in Types, NEW t \in TargetRows(ty)
  PROVE  LET R == ReferrersOf(ty, t)
             h == db.head[ty][t]
         IN  /\ \A n \in Nat : Cardinality(R) <= n => Reached(db.nxt, h, n) = R
             /\ Node(db.nxt, h, Cardinality(R)) = Missing
             /\ h # Missing => db.prv[h] = Missing
<1> DEFINE R == ReferrersOf(ty, t)
           h == db.head[ty][t]
           I == RowsOfType(ty)
           T == TargetRows(ty)
           c == ColumnsOf(ty)
<1>1. PICK ord : Linked(I, T, c, ord)
  BY DEF ListsLinked
<1>2. PartLinked(Rows, I, T, Group(ty), ord)
  BY <1>1, TypeLinked
<1>3. /\ Group(ty).nxt = db.nxt /\ Group(ty).head[t] = h /\ Group(ty).prv = db.prv
      /\ c = PartOf(Group(ty), I) /\ c.head[t] = h
  BY DEF Group, ColumnsOf, PartOf
<1>4. IsFiniteSet(I) /\ h \in I \cup {Missing} /\ \A x \in I : c.prv[x] = db.prv[x]
  <2>1. /\ IsFiniteSet(I) /\ \A x \in I : PartOf(Group(ty), I).prv[x] = Group(ty).prv[x]
        /\ \A u \in T : Group(ty).head[u] \in I \cup {Missing}
    BY <1>2, PartFields
  <2> QED
    BY <1>3, <2>1
<1>5. R = RowsTo(I, c.fk, t) /\ Cardinality(R) \in Nat
  BY ReferrersAre
<1> HIDE DEF R, h, I, c, T
<1>6. t \in T
  BY DEF T
<1>7. ASSUME NEW n \in Nat, Cardinality(R) <= n
      PROVE  Reached(db.nxt, h, n) = R
  <2>1. Reached(c.nxt, c.head[t], n) = RowsTo(I, c.fk, t)
    BY <1>1, <1>4, <1>5, <1>6, <1>7, WalkFindsRows
  <2>2. Reached(Group(ty).nxt, h, n) = Reached(PartOf(Group(ty), I).nxt, h, n)
    BY <1>2, <1>4, PartReached
  <2> QED
    BY <1>3, <1>5, <2>1, <2>2
<1>8. Node(db.nxt, h, Cardinality(R)) = Missing
  <2>1. Cardinality(RowsTo(I, c.fk, t)) <= Cardinality(R)
    BY <1>5
  <2>2. Node(c.nxt, c.head[t], Cardinality(RowsTo(I, c.fk, t))) = Missing
    BY <1>1, <1>4, <1>5, <1>6, <2>1, WalkFindsRows
  <2>3. Node(Group(ty).nxt, h, Cardinality(R)) = Node(PartOf(Group(ty), I).nxt, h, Cardinality(R))
    BY <1>2, <1>4, <1>5, PartNode
  <2> QED
    BY <1>3, <1>5, <2>2, <2>3
<1>9. h # Missing => db.prv[h] = Missing
  <2> SUFFICES ASSUME h # Missing PROVE db.prv[h] = Missing
    OBVIOUS
  <2>1. c.head[t] \in I
    BY <1>3, <1>4
  <2>2. c.prv[c.head[t]] = Missing
    BY <1>1, <1>6, <2>1, HeadsHaveNoPrevious
  <2> QED
    BY <1>3, <1>4, <2>1, <2>2
<1> QED
  BY <1>7, <1>8, <1>9 DEF R, h

\* Linked lists are the lists of the keys.
LEMMA LinkedListsMatch ==
  ASSUME WellTyped, ListsLinked
  PROVE  KeysResolve /\ ListsMatchKeys
<1>1. ASSUME NEW ty \in Types, NEW t \in TargetRows(ty)
      PROVE  /\ Reached(db.nxt, db.head[ty][t], db.len) = ReferrersOf(ty, t)
             /\ Node(db.nxt, db.head[ty][t], Cardinality(ReferrersOf(ty, t))) = Missing
             /\ db.head[ty][t] # Missing => db.prv[db.head[ty][t]] = Missing
  <2>1. Cardinality(ReferrersOf(ty, t)) <= db.len
    BY ReferrersAre
  <2>2. db.len \in Nat
    BY Sizes
  <2> QED
    BY <2>1, <2>2, ListOfTarget
<1>2. ASSUME NEW r \in Typed
      PROVE  /\ db.key[r] \in TargetRows(db.type[r]) \cup {Missing}
             /\ db.nxt[r] # Missing => db.prv[db.nxt[r]] = r
             /\ db.prv[r] # Missing => db.nxt[db.prv[r]] = r
  <2> DEFINE ty == db.type[r]
             I == RowsOfType(ty)
             c == ColumnsOf(ty)
  <2>1. ty \in Types /\ r \in I
    BY DEF Typed, RowsOfType
  <2>2. PICK ord : Linked(I, TargetRows(ty), c, ord)
    BY <2>1 DEF ListsLinked
  <2>3. /\ \A x \in I : c.fk[x] = db.key[x] /\ c.nxt[x] = db.nxt[x] /\ c.prv[x] = db.prv[x]
    BY DEF ColumnsOf, PartOf, Group
  <2> HIDE DEF c, I, ty
  <2>4. Columns(I, TargetRows(ty), c)
    BY <2>2 DEF Linked
  <2>5. /\ db.key[r] \in TargetRows(ty) \cup {Missing}
        /\ db.nxt[r] \in I \cup {Missing} /\ db.prv[r] \in I \cup {Missing}
    BY <2>1, <2>3, <2>4 DEF Columns
  <2>6. \A x, y \in I : c.nxt[x] = y <=> c.prv[y] = x
    BY <2>2, LinksMatch
  <2> QED
    BY <2>1, <2>3, <2>5, <2>6 DEF ty
<1> QED
  BY <1>1, <1>2 DEF KeysResolve, ListsMatchKeys

\* Exact counts are the counts of the keys.
LEMMA ExactCountsMatch ==
  ASSUME WellTyped, CountsExact
  PROVE  CountsMatchLists
BY ReferrersAre DEF CountsExact, CountsMatchLists

\* A walk of as many steps as there are rows in the list finds them all.
LEMMA ReferencingFinds ==
  ASSUME WellTyped, ListsLinked, CountsExact, NEW ty \in Types, NEW t \in TargetRows(ty)
  PROVE  Referencing(ty, t) = ReferrersOf(ty, t)
<1> DEFINE n == IF TrackCounts THEN db.cnt[ty][t] ELSE Cardinality(Rows)
           R == ReferrersOf(ty, t)
<1>1. /\ Cardinality(R) \in Nat /\ Cardinality(R) <= db.len /\ Cardinality(Rows) = db.len
      /\ R = RowsTo(RowsOfType(ty), db.key, t) /\ db.len \in Nat
  BY ReferrersAre, Sizes
<1>2. TrackCounts => db.cnt[ty][t] = Cardinality(R)
  BY <1>1 DEF CountsExact
<1>3. n \in Nat /\ Cardinality(R) <= n
  BY <1>1, <1>2
<1> HIDE DEF n, R
<1>4. Reached(db.nxt, db.head[ty][t], n) = R
  BY <1>3, ListOfTarget DEF R
<1> QED
  BY <1>4 DEF Referencing, n, R

(***************************************************************************)
(* What is marked for deletion.                                            *)
(***************************************************************************)
\* A call that marks no target.
LEMMA NothingGone ==
  ASSUME DeletionsClosed, db' = db, tx'.gone = tx.gone, tx.deleted \subseteq tx'.deleted,
         tx.unlinks \subseteq tx'.unlinks, Relinked \subseteq Relinked'
  PROVE  DeletionsClosed'
<1>1. Typed' = Typed
  BY DEF Typed, Rows, Types
<1> QED
  BY <1>1 DEF DeletionsClosed

\* A call that deletes targets reaches the rows that reference them.
LEMMA DelTargetsCloses ==
  ASSUME WellTyped, ListsLinked, CountsExact, DeletionsClosed,
         NEW ty \in Types, NEW ids, DelTargets(ty, ids)
  PROVE  DeletionsClosed'
<1> DEFINE hit == (UNION {Referencing(ty, i) : i \in ids}) \ tx.deleted
<1>1. db' = db
  BY DEF DelTargets
<1>2. DOMAIN tx = Fields /\ DOMAIN tx.gone = Types
  BY DEF WellTyped, EditsTyped, ContextType
<1>3. CASE \E reason : Refuse(reason)
  <2>1. /\ tx'.gone = tx.gone /\ tx'.deleted = tx.deleted /\ tx'.unlinks = tx.unlinks
        /\ tx'.relinks = tx.relinks
    BY <1>2, <1>3 DEF Refuse, Fields
  <2>2. Relinked' = Relinked
    BY <2>1 DEF Relinked
  <2> QED
    BY <1>1, <2>1, <2>2, NothingGone
<1>4. CASE ~(\E reason : Refuse(reason))
  <2>1. /\ ids \subseteq TargetRows(ty)
        /\ hit # {} => OnDelete # "RESTRICT"
        /\ tx' = [tx EXCEPT
                   !.calls = @ + 1,
                   !.gone[ty] = @ \cup ids,
                   !.deleted = IF OnDelete = "CASCADE" THEN @ \cup hit ELSE @,
                   !.unlinks = IF OnDelete = "SET_NULL" THEN @ \cup hit ELSE @]
    BY <1>4 DEF DelTargets
  <2>2. \A i \in ids : Referencing(ty, i) = ReferrersOf(ty, i)
    BY <2>1, ReferencingFinds
  <2>3. \A r \in Rows : db.type[r] = ty /\ db.key[r] \in ids => r \in hit \cup tx.deleted
    BY <2>2 DEF ReferrersOf
  <2> HIDE DEF hit
  <2>4. /\ tx'.relinks = tx.relinks
        /\ tx'.gone = [tx.gone EXCEPT ![ty] = @ \cup ids]
        /\ tx'.deleted = IF OnDelete = "CASCADE" THEN tx.deleted \cup hit ELSE tx.deleted
        /\ tx'.unlinks = IF OnDelete = "SET_NULL" THEN tx.unlinks \cup hit ELSE tx.unlinks
    BY <1>2, <2>1 DEF Fields
  <2>5. hit \subseteq tx'.deleted \cup tx'.unlinks
    BY <2>1, <2>4, KeyAssumption
  <2>6. Relinked' = Relinked /\ Typed' = Typed
    BY <1>1, <2>4 DEF Relinked, Typed, Rows, Types
  <2>7. ASSUME NEW r \in Typed, db.key[r] \in tx'.gone[db.type[r]]
        PROVE  r \in tx'.deleted \cup tx'.unlinks \cup Relinked
    <3>1. r \in Rows /\ db.type[r] \in Types
      BY DEF Typed
    <3>2. CASE db.key[r] \in tx.gone[db.type[r]]
      <4>1. r \in tx.deleted \cup tx.unlinks \cup Relinked
        BY <3>2 DEF DeletionsClosed
      <4> QED
        BY <2>4, <4>1
    <3>3. CASE db.key[r] \notin tx.gone[db.type[r]]
      <4>1. db.type[r] = ty /\ db.key[r] \in ids
        BY <1>2, <2>4, <2>7, <3>1, <3>3
      <4> QED
        BY <2>3, <2>4, <2>5, <3>1, <4>1
    <3> QED
      BY <3>2, <3>3
  <2> QED
    BY <1>1, <2>6, <2>7 DEF DeletionsClosed
<1> QED
  BY <1>3, <1>4

\* An update call takes no relink back.
LEMMA UpdateCloses ==
  ASSUME WellTyped, DeletionsClosed, NEW rows \in SUBSET Nat, NEW keys, NEW types,
         UpdateEntries(rows, keys, types)
  PROVE  DeletionsClosed'
<1>1. db' = db
  BY DEF UpdateEntries
<1>2. CASE \E reason : Refuse(reason)
  <2>1. /\ tx'.gone = tx.gone /\ tx'.deleted = tx.deleted /\ tx'.unlinks = tx.unlinks
        /\ tx'.relinks = tx.relinks
    BY <1>2 DEF Refuse, WellTyped, EditsTyped, ContextType, Fields
  <2>2. Relinked' = Relinked
    BY <2>1 DEF Relinked
  <2> QED
    BY <1>1, <2>1, <2>2, NothingGone
<1>3. CASE \E byKey : UpdateStaged(rows, keys, types, byKey)
  <2>1. PICK byKey : UpdateStaged(rows, keys, types, byKey)
    BY <1>3
  <2>2. tx'.gone = tx.gone /\ tx'.deleted = tx.deleted /\ tx'.unlinks = tx.unlinks
    BY <2>1 DEF UpdateStaged
  <2>3. RowsIn(tx.relinks) \subseteq RowsIn(byKey) /\ RowsIn(byKey) \subseteq RowsIn(tx'.relinks)
    BY <2>1 DEF UpdateStaged, AreRegiven
  <2>4. Relinked = RowsIn(tx.relinks) /\ Relinked' = RowsIn(tx'.relinks)
    BY DEF Relinked, RowsIn
  <2> QED
    BY <1>1, <2>2, <2>3, <2>4, NothingGone
<1> QED
  BY <1>2, <1>3, UpdateStages

LEMMA StepCloses ==
  ASSUME WellTyped, DeletionsClosed, tx.open => ListsLinked /\ CountsExact, [Next]_vars
  PROVE  DeletionsClosed'
<1>1. CASE Begin \/ Commit \/ CommitTorn \/ CommitRefused \/ Rollback
  <2>1. tx' = NoTx \/ tx' = [NoTx EXCEPT !.open = TRUE]
    BY <1>1 DEF Begin, Commit, CommitTorn, CommitRefused, Rollback
  <2>2. (tx = NoTx \/ tx = [NoTx EXCEPT !.open = TRUE] => DeletionsClosed)'
    BY NothingStaged, PTL
  <2>3. NoTx' = NoTx
    BY DEF NoTx, Types, NoRows
  <2> QED
    BY <2>1, <2>2, <2>3
<1>2. ASSUME NEW newRows, AddEntries(newRows)
      PROVE  DeletionsClosed'
  <2>1. /\ db' = db /\ tx'.gone = tx.gone /\ tx'.deleted = tx.deleted
        /\ tx'.unlinks = tx.unlinks /\ tx'.relinks = tx.relinks
    BY <1>2 DEF AddEntries, WellTyped, EditsTyped, ContextType, Fields
  <2> QED
    BY <2>1, NothingGone DEF Relinked
<1>3. ASSUME NEW ty \in Types, NEW n, AddTargets(ty, n)
      PROVE  DeletionsClosed'
  <2>1. /\ db' = db /\ tx'.gone = tx.gone /\ tx'.deleted = tx.deleted
        /\ tx'.unlinks = tx.unlinks /\ tx'.relinks = tx.relinks
    BY <1>3 DEF AddTargets, WellTyped, EditsTyped, ContextType, Fields
  <2> QED
    BY <2>1, NothingGone DEF Relinked
<1>4. CASE UpdateKeys
  <2>1. PICK rows \in Named(db.len + Len(tx.additions)) :
          \E keys, types : UpdateEntries(rows, keys, types)
    BY <1>4 DEF UpdateKeys
  <2>2. rows \in SUBSET Nat
    <3>1. db.len + Len(tx.additions) \in Nat
      BY Sizes
    <3> QED
      BY <3>1 DEF Named
  <2> QED
    BY <2>1, <2>2, UpdateCloses
<1>5. ASSUME NEW ty \in Types, NEW ids, DelTargets(ty, ids)
      PROVE  DeletionsClosed'
  <2>1. tx.open
    BY <1>5 DEF DelTargets, Ready
  <2> QED
    BY <1>5, <2>1, DelTargetsCloses
<1>6. ASSUME NEW ids, DelEntries(ids)
      PROVE  DeletionsClosed'
  <2>1. /\ db' = db /\ tx'.gone = tx.gone /\ tx.deleted \subseteq tx'.deleted
        /\ tx'.unlinks = tx.unlinks /\ tx'.relinks = tx.relinks
    BY <1>6 DEF DelEntries, Refuse, WellTyped, EditsTyped, ContextType, Fields
  <2> QED
    BY <2>1, NothingGone DEF Relinked
<1>7. CASE UNCHANGED vars
  BY <1>7, NothingGone DEF vars, Relinked
<1> QED
  BY <1>1, <1>2, <1>3, <1>4, <1>5, <1>6, <1>7 DEF Next

(***************************************************************************)
(* The theorems about the lists.                                           *)
(***************************************************************************)
\* The inductive invariant: what is staged can be committed, and the committed
\* lists are linked and counted.
Kept ==
  /\ StagedKeysExist
  /\ DeletionsClosed
  /\ ~db.torn => ListsLinked /\ CountsExact
  /\ db.torn => ~tx.open

\* Empty tables have empty lists.
LEMMA NoListsAtFirst == Init => Kept
<1> SUFFICES ASSUME Init PROVE Kept
  OBVIOUS
<1>1. /\ db.len = 0 /\ db.size = [ty \in Types |-> 0] /\ db.torn = FALSE
      /\ db.head = [ty \in Types |-> NoRows]
  BY DEF Init
<1>2. Rows = {} /\ DOMAIN NoRows = {} /\ \A ty \in Types : TargetRows(ty) = {}
  BY <1>1 DEF Rows, TargetRows, NoRows
<1>3. ASSUME NEW ty \in Types
      PROVE  \E ord : Linked(RowsOfType(ty), TargetRows(ty), ColumnsOf(ty), ord)
  <2> DEFINE c == ColumnsOf(ty)
  <2>1. RowsOfType(ty) = {}
    BY <1>2 DEF RowsOfType
  <2>2. /\ DOMAIN c.fk = {} /\ DOMAIN c.nxt = {} /\ DOMAIN c.prv = {}
        /\ DOMAIN c.head = {}
    BY <1>1, <1>2, <2>1 DEF ColumnsOf, PartOf, Group
  <2> HIDE DEF c
  <2>3. Linked(RowsOfType(ty), TargetRows(ty), c, NoRows)
    BY <1>2, <2>1, <2>2 DEF Linked, Columns, Ordered
  <2> QED
    BY <2>3 DEF c
<1>4. ListsLinked /\ CountsExact
  BY <1>2, <1>3 DEF ListsLinked, CountsExact
<1>5. StagedKeysExist /\ DeletionsClosed
  BY NothingStaged DEF Init
<1> QED
  BY <1>1, <1>4, <1>5 DEF Kept

\* A commit finds the rules kept.
LEMMA CommitsCommit ==
  ASSUME Rules = AllRules, NullsAlike, WellTyped, ClaimsKept, Kept, Commit
  PROVE  Committing /\ ListsLinked /\ CountsExact
<1>1. StagedKeysLive
  BY DEF ClaimsKept, ClaimsCover, ClaimsApart, StagedKeysLive
<1>2. /\ RelinkedRowsStay /\ RelinkTargetsStay /\ RelinkTargetsKeepTheirIndex
      /\ RelinkOrAdd /\ NeighboursOfRetypedStay /\ ~CannotFinish
  BY DEF Commit, RulesKept, AllRules
<1>3. ListsLinked /\ CountsExact /\ StagedKeysExist /\ DeletionsClosed
  BY DEF Kept, Commit
<1> QED
  BY <1>1, <1>2, <1>3 DEF Committing

\* Every step keeps the relinks and the staged rows within the tables.
LEMMA StepExists ==
  ASSUME WellTyped, StagedKeysExist, [Next]_vars
  PROVE  StagedKeysExist'
<1>1. CASE Begin \/ Commit \/ CommitTorn \/ CommitRefused \/ Rollback
  <2>1. tx' = NoTx \/ tx' = [NoTx EXCEPT !.open = TRUE]
    BY <1>1 DEF Begin, Commit, CommitTorn, CommitRefused, Rollback
  <2>2. (tx = NoTx \/ tx = [NoTx EXCEPT !.open = TRUE] => StagedKeysExist)'
    BY NothingStaged, PTL
  <2>3. NoTx' = NoTx
    BY DEF NoTx, Types, NoRows
  <2> QED
    BY <2>1, <2>2, <2>3
<1>2. CASE \E n \in 1 .. MaxStaged : \E rows \in [1 .. n -> References] : AddEntries(rows)
  <2>1. PICK n \in 1 .. MaxStaged : \E rows \in [1 .. n -> References] : AddEntries(rows)
    BY <1>2
  <2>2. n \in Nat
    BY BoundAssumption
  <2> QED
    BY <2>1, <2>2, AddExists
<1>3. ASSUME NEW ty \in Types, NEW n \in 1 .. MaxStaged, AddTargets(ty, n)
      PROVE  StagedKeysExist'
  <2>1. /\ db' = db /\ tx'.added = [tx.added EXCEPT ![ty] = @ + n]
        /\ tx'.additions = tx.additions /\ tx'.relinks = tx.relinks
        /\ tx'.retypes = tx.retypes /\ tx'.keySet = tx.keySet /\ tx'.typeSet = tx.typeSet
    BY <1>3 DEF AddTargets, WellTyped, EditsTyped, ContextType, Fields
  <2>2. DOMAIN tx.added = Types /\ n \in Nat /\ \A u \in Types : tx.added[u] \in Nat
    BY Sizes, BoundAssumption DEF WellTyped, EditsTyped, AdditionsTyped
  <2>3. ASSUME NEW u \in Types
        PROVE  tx'.added[u] \in Nat /\ tx.added[u] <= tx'.added[u]
    <3>1. CASE u = ty
      BY <2>1, <2>2, <3>1
    <3>2. CASE u # ty
      BY <2>1, <2>2, <3>2
    <3> QED
      BY <3>1, <3>2
  <2> QED
    BY <2>1, <2>3, EditsUntouched
<1>4. CASE UpdateKeys
  BY <1>4, UpdateExists
<1>5. ASSUME db' = db, tx'.additions = tx.additions, tx'.added = tx.added,
             tx'.relinks = tx.relinks, tx'.retypes = tx.retypes, tx'.keySet = tx.keySet,
             tx'.typeSet = tx.typeSet
      PROVE  StagedKeysExist'
  <2>1. \A ty \in Types : tx.added[ty] \in Nat
    BY Sizes
  <2> QED
    BY <1>5, <2>1, EditsUntouched
<1>6. DOMAIN tx = Fields
  BY DEF WellTyped, EditsTyped, ContextType
<1>7. ASSUME NEW ty \in Types, NEW ids, DelTargets(ty, ids)
      PROVE  StagedKeysExist'
  BY <1>5, <1>6, <1>7 DEF DelTargets, Refuse, Fields
<1>8. ASSUME NEW ids, DelEntries(ids)
      PROVE  StagedKeysExist'
  BY <1>5, <1>6, <1>8 DEF DelEntries, Refuse, Fields
<1>9. CASE UNCHANGED vars
  BY <1>5, <1>9 DEF vars
<1> QED
  BY <1>1, <1>2, <1>3, <1>4, <1>7, <1>8, <1>9 DEF Next

\* Every step keeps the committed lists, if there is one to keep.
LEMMA StepKeepsLists ==
  ASSUME Rules = AllRules, NullsAlike, WellTyped, ClaimsKept, Kept, [Next]_vars
  PROVE  /\ ~db'.torn => ListsLinked' /\ CountsExact'
         /\ db'.torn => ~tx'.open
<1>1. CASE Commit
  <2>1. Committing /\ ListsLinked /\ CountsExact
    BY <1>1, CommitsCommit
  <2>2. ListsLinked' /\ CountsExact'
    BY <1>1, <2>1, CommitLinks, CommitCounts
  <2>3. tx'.open = FALSE
    BY <1>1 DEF Commit, NoTx
  <2> QED
    BY <2>2, <2>3
<1>2. CASE CommitTorn
  <2>1. tx'.open = FALSE
    BY <1>2 DEF CommitTorn, NoTx
  <2>2. db'.torn = TRUE
    BY <1>2 DEF CommitTorn, WellTyped, StoreTyped, StoreFields
  <2> QED
    BY <2>1, <2>2
<1>3. CASE db' = db /\ (~db.torn \/ ~tx'.open)
  <2>1. ListsLinked' <=> ListsLinked
    BY <1>3 DEF ListsLinked, RowsOfType, TargetRows, ColumnsOf, Group, Rows, Types
  <2>2. CountsExact' <=> CountsExact
    BY <1>3 DEF CountsExact, RowsOfType, TargetRows, Rows, Types
  <2> QED
    BY <1>3, <2>1, <2>2 DEF Kept
<1>4. Commit \/ CommitTorn \/ (db' = db /\ (~db.torn \/ ~tx'.open))
  <2>1. CASE UNCHANGED vars
    BY <2>1 DEF vars, Kept
  <2>2. CASE CommitRefused \/ Rollback
    <3>1. NoTx.open = FALSE
      BY DEF NoTx
    <3>2. db' = db /\ tx' = NoTx
      BY <2>2 DEF CommitRefused, Rollback
    <3> QED
      BY <3>1, <3>2
  <2>3. CASE Begin
    BY <2>3 DEF Begin
  <2>4. ASSUME db' = db, tx.open
        PROVE  db' = db /\ (~db.torn \/ ~tx'.open)
    BY <2>4 DEF Kept
  <2> QED
    BY <2>1, <2>2, <2>3, <2>4
       DEF Next, AddEntries, AddTargets, UpdateKeys, UpdateEntries, DelTargets, DelEntries, Ready
<1> QED
  BY <1>1, <1>2, <1>3, <1>4

LEMMA AllIsKept ==
  ASSUME Rules = AllRules, NullsAlike
  PROVE  Spec => [](WellTyped /\ ClaimsKept /\ Kept)
<1>1. WellTyped /\ ClaimsKept /\ Kept /\ [Next]_vars => Kept'
  <2> SUFFICES ASSUME WellTyped, ClaimsKept, Kept, [Next]_vars PROVE Kept'
    OBVIOUS
  <2>1. StagedKeysExist'
    BY StepExists DEF Kept
  <2>2. DeletionsClosed'
    BY StepCloses DEF Kept
  <2>3. /\ ~db'.torn => ListsLinked' /\ CountsExact'
        /\ db'.torn => ~tx'.open
    BY StepKeepsLists
  <2> QED
    BY <2>1, <2>2, <2>3 DEF Kept
<1> QED
  BY <1>1, NoListsAtFirst, TypesKept, ClaimsAreKept, PTL DEF Spec

\* Every key of a row that has a type is null or denotes a row of the table its
\* type names, after any commit: whatever is staged, relinked, retyped and
\* deleted, in whatever order, and however the rows of any table move.
THEOREM KeysAlwaysResolve ==
  Rules = AllRules /\ NullsAlike => (Spec => []KeysResolve)
<1> SUFFICES ASSUME Rules = AllRules, NullsAlike PROVE Spec => []KeysResolve
  OBVIOUS
<1>1. WellTyped /\ ClaimsKept /\ Kept => KeysResolve
  BY LinkedListsMatch DEF Kept, KeysResolve
<1> QED
  BY <1>1, AllIsKept, PTL

\* The list of a row of a target table holds exactly the rows whose type and key
\* denote it, ends, and is linked the same way in both directions: the patches of
\* the types, computed apart and written over each other into the links they
\* share, leave the lists of every type intact.
THEOREM ListsAlwaysMatchKeys ==
  Rules = AllRules /\ NullsAlike => (Spec => []ListsMatchKeys)
<1> SUFFICES ASSUME Rules = AllRules, NullsAlike PROVE Spec => []ListsMatchKeys
  OBVIOUS
<1>1. WellTyped /\ ClaimsKept /\ Kept => ListsMatchKeys
  BY LinkedListsMatch DEF Kept, ListsMatchKeys
<1> QED
  BY <1>1, AllIsKept, PTL

\* Every count is the number of rows that reference its row: what leaves and what
\* arrives, type by type, is what the deltas of the types sum up to. The commit
\* resolves the targets of relinked rows twice; the rule "relink targets keep their
\* index" makes the second resolution the identity (RelinkToMoved.cfg shows what
\* happens to plain keys without it).
THEOREM CountsAlwaysMatchLists ==
  Rules = AllRules /\ NullsAlike => (Spec => []CountsMatchLists)
<1> SUFFICES ASSUME Rules = AllRules, NullsAlike PROVE Spec => []CountsMatchLists
  OBVIOUS
<1>1. WellTyped /\ ClaimsKept /\ Kept => CountsMatchLists
  BY ExactCountsMatch DEF Kept, CountsMatchLists
<1> QED
  BY <1>1, AllIsKept, PTL

\* A row that references a row marked for deletion is marked itself, is to be
\* nulled or is relinked: the walks of delete calls forget no row, because the
\* lists and the counts they go by are right.
THEOREM DeletionsAlwaysClosed ==
  Rules = AllRules /\ NullsAlike => (Spec => []DeletionsClosed)
<1> SUFFICES ASSUME Rules = AllRules, NullsAlike PROVE Spec => []DeletionsClosed
  OBVIOUS
<1>1. WellTyped /\ ClaimsKept /\ Kept => DeletionsClosed
  BY DEF Kept
<1> QED
  BY <1>1, AllIsKept, PTL

\* get_referencing_indices returns exactly the rows that reference a target, as
\* long as no caller retypes a row next to one that moves; for callers that do,
\* a run refutes it.
THEOREM ReferrersAlwaysFound ==
  Rules = AllRules /\ NullsAlike => (Spec => []ReferrersFound)
<1> SUFFICES ASSUME Rules = AllRules, NullsAlike PROVE Spec => []ReferrersFound
  OBVIOUS
<1>1. WellTyped /\ ClaimsKept /\ Kept => ReferrersFound
  BY ReferencingFinds DEF Kept, ReferrersFound
<1> QED
  BY <1>1, AllIsKept, PTL

\* What a commit does to a row that is not deleted.
FollowsKeys ==
  outcome' = "committed" =>
    \A r \in Rows \ tx.deleted :
      LET p == Resolve(SourceOracle, r)
          given == {i \in DOMAIN tx.relinks : tx.relinks[i].row = r}
          key == IF given = {} THEN db.key[r]
                 ELSE tx.relinks[CHOOSE i \in given : TRUE].target
      IN  /\ db'.type[p] = NewType(r)
          /\ NewType(r) \in Types =>
               db'.key[p] = Resolve(TargetOracle(NewType(r)), key)

LEMMA CommitFollows ==
  ASSUME Committing, ListsLinked, Commit
  PROVE  FollowsKeys
<1>1. WellTyped
  BY DEF Committing
<1>2. PICK nxt, prv : Leaving(db', PatchedStore(nxt, prv))
  BY CommitLeaves
<1> DEFINE k == PatchedStore(nxt, prv)
<1> HIDE DEF k
<1>3. Leaving(db', k)
  BY <1>2 DEF k
<1>4. db'.type = k.type
  BY <1>3 DEF Leaving, KeepsShape
<1> SUFFICES ASSUME NEW r \in Rows \ tx.deleted
             PROVE  LET p == Resolve(SourceOracle, r)
                        given == {i \in DOMAIN tx.relinks : tx.relinks[i].row = r}
                        key == IF given = {} THEN db.key[r]
                               ELSE tx.relinks[CHOOSE i \in given : TRUE].target
                    IN  /\ db'.type[p] = NewType(r)
                        /\ NewType(r) \in Types =>
                             db'.key[p] = Resolve(TargetOracle(NewType(r)), key)
  BY DEF FollowsKeys
<1> DEFINE p == Resolve(SourceOracle, r)
           given == {i \in DOMAIN tx.relinks : tx.relinks[i].row = r}
           key == IF given = {} THEN db.key[r]
                  ELSE tx.relinks[CHOOSE i \in given : TRUE].target
<1>5. r \in LiveRows /\ r \notin StagedRows
  BY <1>1, RowsNumbered
<1>6. To(NewPlace, r) = p /\ Missing \notin LiveRows /\ r \in DOMAIN NewPlace
  BY <1>1, <1>5, RowsNumbered DEF Numbers
<1>7. NewPlace[r] = p
  BY <1>5, <1>6 DEF To
<1>8. TypeAfter(r) = NewType(r)
  BY DEF TypeAfter
<1>9. KeyAfter(r) = key
  <2>1. given = {} <=> r \notin Relinked
    BY DEF Relinked
  <2>2. GivenTo(r) = tx.relinks[CHOOSE i \in DOMAIN tx.relinks : tx.relinks[i].row = r].target
    BY DEF GivenTo
  <2>3. (CHOOSE i \in given : TRUE) = (CHOOSE i \in DOMAIN tx.relinks : tx.relinks[i].row = r)
          \/ given = {}
    <3>1. \A i, j \in DOMAIN tx.relinks : tx.relinks[i].row = tx.relinks[j].row => i = j
      BY <1>1 DEF WellTyped, EditsTyped, RelinksTyped
    <3>2. SUFFICES ASSUME NEW a \in given
                   PROVE  (CHOOSE i \in given : TRUE)
                            = (CHOOSE i \in DOMAIN tx.relinks : tx.relinks[i].row = r)
      OBVIOUS
    <3>3. \A i : i \in given <=> i = a
      BY <3>1
    <3>4. (CHOOSE i \in given : TRUE) = a
      BY <3>3
    <3>5. (CHOOSE i \in DOMAIN tx.relinks : tx.relinks[i].row = r) = a
      BY <3>3
    <3> QED
      BY <3>4, <3>5
  <2> HIDE DEF given
  <2> QED
    BY <1>5, <2>1, <2>2, <2>3 DEF KeyAfter
<1> HIDE DEF p, key
<1>10. db'.type[p] = NewType(r)
  BY <1>3, <1>4, <1>5, <1>7, <1>8 DEF Leaving
<1>11. ASSUME NewType(r) \in Types
       PROVE  db'.key[p] = Resolve(TargetOracle(NewType(r)), key)
  <2> DEFINE ty == NewType(r)
  <2>1. p \in PlacesAfter /\ RowAt(p) = r
    BY <1>1, <1>5, <1>7, RowsAt
  <2>2. p \in PlacesOfType(ty)
    BY <1>8, <2>1 DEF PlacesOfType
  <2>3. db'.key[p] = FinalKeys[p]
    BY <1>3, <1>11, <2>2 DEF Leaving
  <2>4. FinalKeys[p] = KeyToBe(r)
    BY <1>8, <1>11, <2>1 DEF FinalKeys
  <2>5. r \in LiveOfType(ty)
    BY <1>5, <1>8 DEF LiveOfType
  <2>6. KeyToBe(r) = Resolve(TargetOracle(ty), KeyAfter(r))
    BY <1>11, <2>5, KeysToBe
  <2> QED
    BY <1>9, <2>3, <2>4, <2>6
<1> QED
  BY <1>10, <1>11 DEF p, key

\* After a commit every row that was not deleted has the type and the key it was
\* left with, the key at the index its target now has: a key that is written for
\* a relinked row, one that moves with its row and one that follows its target
\* come out alike.
THEOREM CommitsAlwaysFollowKeys ==
  Rules = AllRules /\ NullsAlike => (Spec => CommitsFollowKeys)
<1> SUFFICES ASSUME Rules = AllRules, NullsAlike PROVE Spec => CommitsFollowKeys
  OBVIOUS
<1>1. WellTyped /\ ClaimsKept /\ Kept /\ [Next]_vars => [FollowsKeys]_vars
  <2> SUFFICES ASSUME WellTyped, ClaimsKept, Kept, Next PROVE FollowsKeys
    BY DEF vars
  <2>1. CASE Commit
    <3>1. Committing /\ ListsLinked
      BY <2>1, CommitsCommit
    <3> QED
      BY <2>1, <3>1, CommitFollows
  <2>2. CASE ~Commit
    <3>1. Begin \/ CommitTorn \/ CommitRefused \/ Rollback => outcome' # "committed"
      BY DEF Begin, CommitTorn, CommitRefused, Rollback
    <3>2. \A rows : AddEntries(rows) => outcome' # "committed"
      BY DEF AddEntries
    <3>3. \A ty, n : AddTargets(ty, n) => outcome' # "committed"
      BY DEF AddTargets
    <3>4. \A rows, keys, types : UpdateEntries(rows, keys, types) => outcome' # "committed"
      BY DEF UpdateEntries, Refuse
    <3>5. UpdateKeys => outcome' # "committed"
      BY <3>4 DEF UpdateKeys
    <3>6. \A ty, ids : DelTargets(ty, ids) => outcome' # "committed"
      BY DEF DelTargets, Refuse
    <3>7. \A ids : DelEntries(ids) => outcome' # "committed"
      BY DEF DelEntries, Refuse
    <3>8. outcome' # "committed"
      BY <2>2, <3>1, <3>2, <3>3, <3>5, <3>6, <3>7 DEF Next
    <3> QED
      BY <3>8 DEF FollowsKeys
  <2> QED
    BY <2>1, <2>2
<1>2. [][FollowsKeys]_vars => CommitsFollowKeys
  BY DEF CommitsFollowKeys, FollowsKeys
<1> QED
  BY <1>1, <1>2, AllIsKept, PTL DEF Spec
=============================================================================
