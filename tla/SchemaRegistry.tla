--------------------------- MODULE SchemaRegistry ---------------------------
(***************************************************************************)
(* How an overlay database comes to its tables: overlays make table and    *)
(* key schemas, hand columns to a registry by the name of their table,     *)
(* which may not be there yet, and the registry's tables become the        *)
(* database (overlays/registry.py, overlays/database.py, graph/overlay.py, *)
(* schemas/table.py, schemas/foreign_key_col.py, pm_foreign_key_col.py).   *)
(*                                                                         *)
(* Schemas are objects: a table schema is its position in schemas, a key   *)
(* its position in keys.  A key subscribes to its targets when it is made  *)
(* and puts columns into them and into its own table when it gets there.   *)
(***************************************************************************)
EXTENDS Integers, Sequences, FiniteSets

CONSTANTS
  Names,        (* the names tables may have                               *)
  TrackCounts,  (* AdjacencyListConf.track_counts                          *)
  CountsTyped,  (* AdjacencyListConf.counts_dtype is given                 *)
  Rules,        (* which of AllRules the program follows                   *)
  MaxSchemas,   (* bound: table schemas                                    *)
  MaxKeys,      (* bound: key schemas                                      *)
  MaxData,      (* bound: data columns                                     *)
  MaxDbs        (* bound: databases                                        *)

\* Rules no code enforces.  "keys first": a key is made while no database has its
\* targets.  "whole databases": a database is built of all schemas that have been
\* made, but for those that an earlier database has.
AllRules == {"keys first", "whole databases"}

ASSUME RegistryAssumption ==
  /\ TrackCounts \in BOOLEAN /\ CountsTyped \in BOOLEAN
  /\ Rules \subseteq AllRules
  /\ MaxSchemas \in Nat /\ MaxKeys \in Nat /\ MaxData \in Nat
  /\ MaxDbs \in Nat

VARIABLES
  schemas,   (* the table schemas: [name, cols, ids, subs, final]          *)
  keys,      (* the key schemas: their target_tables                       *)
  data,      (* how many data columns there are                            *)
  layers,    (* GraphOverlay.layers: schemas, in the order of the names    *)
  nodes,     (* the schemas of all node layers that were made              *)
  tables,    (* SchemaRegistry._tables, in the order of registration       *)
  pending,   (* SchemaRegistry._pending_cols                               *)
  handed,    (* the columns add_column took in, with the name they are for *)
  dbs,       (* the databases that have been built                         *)
  outcome    (* how the last step ended                                    *)

vars == <<schemas, keys, data, layers, nodes, tables, pending, handed, dbs, outcome>>

Schemas == 1 .. Len(schemas)

ColumnsOf(s) == {schemas[s].cols[i] : i \in DOMAIN schemas[s].cols}

\* Columns: of data, a key, or one that key `of' puts into a table for the
\* target at position `type'.
DataColumn(d) == [kind |-> "data", of |-> d, type |-> 0]
KeyColumn(k) == [kind |-> "key", of |-> k, type |-> 0]
Injected(kind, k, ty) == [kind |-> kind, of |-> k, type |-> ty]

NewSchema(name, cols) ==
  [name |-> name, cols |-> cols, ids |-> [c \in {} |-> 0], subs |-> {}, final |-> FALSE]

Init ==
  /\ schemas = <<>>
  /\ keys = <<>>
  /\ data = 0
  /\ layers = <<>>
  /\ nodes = {}
  /\ tables = <<>>
  /\ pending = [n \in Names |-> <<>>]
  /\ handed = {}
  /\ dbs = {}
  /\ outcome = "ok"

-----------------------------------------------------------------------------
(***************************************************************************)
(* Schemas.  ss is the sequence of schemas a step has got to; a request    *)
(* [to, col] is one for column col in schema to.                           *)
(***************************************************************************)
\* Mutant: the column is appended before it is numbered.
WithColumnLate(ss, s, col) ==
  [ss EXCEPT ![s].ids = [c \in DOMAIN @ \cup {col} |->
                           IF c = col THEN Len(ss[s].cols) + 1 ELSE @[c]],
             ![s].cols = Append(@, col)]

\* register_new_column of a schema that is not finalized.
WithColumn(ss, s, col) ==
  [ss EXCEPT ![s].ids = [c \in DOMAIN @ \cup {col} |->
                           IF c = col THEN Len(ss[s].cols) ELSE @[c]],
             ![s].cols = Append(@, col)]

\* The requests one after the other, until one meets a finalized schema or is for
\* counts that have no dtype: RuntimeError, AssertionError.
Registered(ss, requests) ==
  LET after[n \in 0 .. Len(requests)] ==
        IF n = 0 THEN [schemas |-> ss, ok |-> TRUE]
        ELSE LET r == requests[n]
                 now == after[n - 1]
             IN  IF ~now.ok THEN now
                 ELSE IF now.schemas[r.to].final \/ r.col.kind = "untyped"
                   THEN [now EXCEPT !.ok = FALSE]
                 ELSE [now EXCEPT !.schemas = WithColumn(@, r.to, r.col)]
  IN  after[Len(requests)]

\* Mutant: only the first target gets a head column.
InjectionsOfFirst(k, targets, parent) ==
  <<[to |-> targets[1], col |-> Injected("head", k, 1)],
    [to |-> parent, col |-> Injected("next", k, 0)],
    [to |-> parent, col |-> Injected("prev", k, 0)]>>

\* set_parent of a key: heads in its targets, the type id and the links in its
\* own table, counts in its targets, unless these have no dtype.  A key with one
\* target is a plain one.
Injections(k, targets, parent) ==
  LET each(kind) == [i \in DOMAIN targets |->
                       [to |-> targets[i], col |-> Injected(kind, k, i)]]
      own(kind) == <<[to |-> parent, col |-> Injected(kind, k, 0)]>>
  IN  each("head")
      \o (IF Len(targets) > 1 THEN own("type") ELSE <<>>)
      \o own("next") \o own("prev")
      \o (IF ~TrackCounts THEN <<>>
          ELSE IF CountsTyped THEN each("count")
          ELSE own("untyped"))

\* A column and what it brings along; ks are the targets of all keys.
WithInjections(ks, s, col) ==
  <<[to |-> s, col |-> col]>>
    \o (IF col.kind = "key" THEN Injections(col.of, ks[col.of], s) ELSE <<>>)

Requests(ks, s, cols) ==
  LET all[n \in 0 .. Len(cols)] ==
        IF n = 0 THEN <<>> ELSE all[n - 1] \o WithInjections(ks, s, cols[n])
  IN  all[Len(cols)]

\* __post_init__ of a key: it subscribes to its targets.
Subscribed(ss, k, targets) ==
  [s \in DOMAIN ss |->
     IF \E i \in DOMAIN targets : targets[i] = s
       THEN [ss[s] EXCEPT !.subs = @ \cup {k}] ELSE ss[s]]

\* TableSchema(name, spec, cols).  The columns are there before the first one
\* is told its parent; all are numbered at the end.
WithTable(ss, ks, name, cols) ==
  LET s == Len(ss) + 1
      bring[n \in 0 .. Len(cols)] ==
        IF n = 0 THEN <<>> ELSE bring[n - 1] \o Tail(WithInjections(ks, s, cols[n]))
      result == Registered(Append(ss, NewSchema(name, cols)), bring[Len(cols)])
      all == result.schemas[s].cols
      number(c) == (CHOOSE i \in DOMAIN all : all[i] = c) - 1
  IN  [result EXCEPT !.schemas[s].ids =
         [c \in {all[i] : i \in DOMAIN all} |-> number(c)]]

-----------------------------------------------------------------------------
(***************************************************************************)
(* SchemaRegistry.                                                         *)
(***************************************************************************)
Named(name) == {s \in {tables[i] : i \in DOMAIN tables} : schemas[s].name = name}

\* Mutant: a column that waited keeps waiting.
FlushedAndKept(now, s) ==
  LET name == now.schemas[s].name
      result == Registered(now.schemas, Requests(keys, s, now.pending[name]))
  IN  [now EXCEPT !.schemas = result.schemas, !.ok = result.ok,
                  !.tables = Append(@, s)]

\* A new table of the registry gets the columns that wait for its name.
Flushed(now, s) ==
  LET name == now.schemas[s].name
      result == Registered(now.schemas, Requests(keys, s, now.pending[name]))
  IN  [now EXCEPT !.schemas = result.schemas, !.ok = result.ok,
                  !.tables = Append(@, s),
                  !.pending[name] = IF result.ok THEN <<>> ELSE @]

\* register_table for each of the schemas in list, until one has the name of a
\* table that is registered or cannot take its columns.
WithTables(list) ==
  LET after[n \in 0 .. Len(list)] ==
        IF n = 0 THEN [schemas |-> schemas, tables |-> tables, pending |-> pending, ok |-> TRUE]
        ELSE LET now == after[n - 1]
                 name == schemas[list[n]].name
             IN  IF ~now.ok THEN now
                 ELSE IF \E i \in DOMAIN now.tables : schemas[now.tables[i]].name = name
                   THEN [now EXCEPT !.ok = FALSE]
                 ELSE Flushed(now, list[n])
  IN  after[Len(list)]

Running == outcome # "failed"

\* A call returned or raised; where the registry raises, no database is built
\* and the program stops.
Ended(ok) == outcome' = IF ok THEN "ok" ELSE "failed"

Room(nSchemas, nKeys, nData) ==
  /\ Running
  /\ Len(schemas) + nSchemas <= MaxSchemas
  /\ Len(keys) + nKeys <= MaxKeys
  /\ data + nData <= MaxData

\* The schemas a new key may target.
Targets == {s \in Schemas : "keys first" \in Rules => ~schemas[s].final}

\* self.layers[name] = layer: a layer of that name is replaced, in its place.
WithLayer(name, s) ==
  IF \E i \in DOMAIN layers : schemas[layers[i]].name = name
    THEN [i \in DOMAIN layers |-> IF schemas[layers[i]].name = name THEN s ELSE layers[i]]
    ELSE Append(layers, s)

\* add_node_layer.
AddNodeLayer(name) ==
  LET s == Len(schemas) + 1
  IN  /\ Room(1, 0, 0)
      /\ schemas' = Append(schemas, NewSchema(name, <<>>))
      /\ layers' = WithLayer(name, s)
      /\ nodes' = nodes \cup {s}
      /\ Ended(TRUE)
      /\ UNCHANGED <<keys, data, tables, pending, handed, dbs>>

\* add_edge_layer: a table with two keys, which must have a dtype for counts.
AddEdgeLayer(name, source, target) ==
  LET s == Len(schemas) + 1
      k == Len(keys) + 1
      ks == keys \o <<<<source>>, <<target>>>>
      made == Subscribed(Subscribed(Append(schemas, NewSchema(name, <<>>)), k, <<source>>),
                         k + 1, <<target>>)
      result == Registered(made, Requests(ks, s, <<KeyColumn(k), KeyColumn(k + 1)>>))
  IN  /\ Room(1, 2, 0)
      /\ IF TrackCounts /\ ~CountsTyped
           THEN /\ outcome' = "ValueError"
                /\ UNCHANGED <<schemas, keys, layers>>
           ELSE /\ schemas' = result.schemas
                /\ keys' = ks
                /\ layers' = IF result.ok THEN WithLayer(name, s) ELSE layers
                /\ Ended(result.ok)
      /\ UNCHANGED <<data, nodes, tables, pending, handed, dbs>>

\* GraphOverlay.register_schema, before its features (which call add_column).
\* The overlay is done with; the layers that follow are those of another.
RegisterLayers ==
  LET result == WithTables(layers)
  IN  /\ Running
      /\ layers # <<>>
      /\ schemas' = result.schemas
      /\ tables' = result.tables
      /\ pending' = result.pending
      /\ Ended(result.ok)
      /\ layers' = <<>>
      /\ UNCHANGED <<keys, data, nodes, handed, dbs>>

\* A program makes a table of a data column and a key, and has not registered it.
MakeTable(name, targets) ==
  LET k == Len(keys) + 1
      result == WithTable(Subscribed(schemas, k, targets), Append(keys, targets), name,
                          <<DataColumn(data + 1), KeyColumn(k)>>)
  IN  /\ Room(1, 1, 1)
      /\ keys' = Append(keys, targets)
      /\ data' = data + 1
      /\ schemas' = result.schemas
      /\ Ended(result.ok)
      /\ UNCHANGED <<layers, nodes, tables, pending, handed, dbs>>

\* An overlay registers a table, which may be one that a database has.
RegisterTable(s) ==
  LET result == WithTables(<<s>>)
  IN  /\ Running
      /\ schemas' = result.schemas
      /\ tables' = result.tables
      /\ pending' = result.pending
      /\ Ended(result.ok)
      /\ UNCHANGED <<keys, data, layers, nodes, handed, dbs>>

\* ensure_table; there is nothing to do for a table that is registered.
EnsureTable(name) ==
  LET s == Len(schemas) + 1
      result == Flushed([schemas |-> Append(schemas, NewSchema(name, <<>>)),
                         tables |-> tables, pending |-> pending, ok |-> TRUE], s)
  IN  /\ Room(1, 0, 0)
      /\ Named(name) = {}
      /\ schemas' = result.schemas
      /\ tables' = result.tables
      /\ pending' = result.pending
      /\ Ended(result.ok)
      /\ UNCHANGED <<keys, data, layers, nodes, handed, dbs>>

\* add_column of col, a new one; ss and ks are the schemas and keys with it.
AddColumn(ss, ks, name, col) ==
  /\ keys' = ks
  /\ handed' = handed \cup {<<name, col>>}
  /\ IF Named(name) # {}
       THEN LET s == CHOOSE t \in Named(name) : TRUE
                result == Registered(ss, Requests(ks, s, <<col>>))
            IN  /\ schemas' = result.schemas
                /\ Ended(result.ok)
                /\ UNCHANGED pending
       ELSE /\ schemas' = ss
            /\ pending' = [pending EXCEPT ![name] = Append(@, col)]
            /\ Ended(TRUE)
  /\ UNCHANGED <<layers, nodes, tables, dbs>>

AddDataColumn(name) ==
  /\ Room(0, 0, 1)
  /\ data' = data + 1
  /\ AddColumn(schemas, keys, name, DataColumn(data + 1))

\* A feature, or another overlay, adds a key.
AddKeyColumn(name, targets) ==
  LET k == Len(keys) + 1
  IN  /\ Room(0, 1, 0)
      /\ AddColumn(Subscribed(schemas, k, targets), Append(keys, targets), name, KeyColumn(k))
      /\ UNCHANGED data

\* register_new_column of a schema that a database has been made of.
AddColumnLate(s) ==
  /\ Room(0, 0, 1)
  /\ schemas[s].final
  /\ outcome' = "RuntimeError"
  /\ UNCHANGED <<schemas, keys, data, layers, nodes, tables, pending, handed, dbs>>

MayBuild ==
  /\ Running
  /\ Cardinality(dbs) < MaxDbs
  /\ tables # <<>>
  /\ "whole databases" \in Rules =>
       {tables[i] : i \in DOMAIN tables} = {s \in Schemas : ~schemas[s].final}

\* build, and the arrays of the database: its schemas are finalized.  Another
\* database may follow, with a registry of its own.
Build ==
  /\ MayBuild
  /\ IF \E n \in Names : pending[n] # <<>>
       THEN /\ outcome' = "failed"
            /\ UNCHANGED <<schemas, tables, handed, dbs>>
       ELSE /\ outcome' = "built"
            /\ dbs' = dbs \cup {tables}
            /\ schemas' = [s \in Schemas |->
                             [schemas[s] EXCEPT !.final =
                                @ \/ \E i \in DOMAIN tables : tables[i] = s]]
            /\ tables' = <<>>
            /\ handed' = {}
  /\ UNCHANGED <<keys, data, layers, nodes, pending>>

TargetLists == {<<s>> : s \in Targets} \cup {<<p[1], p[2]>> : p \in {q \in Targets \X Targets : q[1] # q[2]}}

Next ==
  \/ \E n \in Names : AddNodeLayer(n)
  \/ \E n \in Names : \E s, t \in nodes \cap Targets : AddEdgeLayer(n, s, t)
  \/ RegisterLayers
  \/ \E n \in Names : \E ts \in TargetLists : MakeTable(n, ts)
  \/ \E s \in Schemas : RegisterTable(s)
  \/ \E n \in Names : EnsureTable(n)
  \/ \E n \in Names : AddDataColumn(n)
  \/ \E n \in Names : \E ts \in TargetLists : AddKeyColumn(n, ts)
  \/ \E s \in Schemas : AddColumnLate(s)
  \/ Build

Spec == Init /\ [][Next]_vars

-----------------------------------------------------------------------------
\* Every column is numbered with its position, however many columns came along
\* with it or with others: accessors find arrays by these numbers.
LayoutConsistent ==
  outcome # "failed" =>
    \A s \in Schemas :
      /\ DOMAIN schemas[s].ids = ColumnsOf(s)
      /\ \A i \in DOMAIN schemas[s].cols : schemas[s].ids[schemas[s].cols[i]] = i - 1

\* No column that was handed to the registry is lost or taken twice: it waits
\* for its table or is in it once.
ColumnsReachTheirTables ==
  outcome # "failed" =>
    \A h \in handed :
      LET waits == {i \in DOMAIN pending[h[1]] : pending[h[1]][i] = h[2]}
          placed == UNION {{<<s, i>> : i \in {j \in DOMAIN schemas[s].cols :
                                               schemas[s].cols[j] = h[2]}} : s \in Named(h[1])}
      IN  Cardinality(waits) + Cardinality(placed) = 1

\* In a database every key has its links in its own table and a head, and a count
\* if counts are tracked, in each of its targets, whichever of them came first and
\* whoever put the key into its table.  Nothing that a key brings along is
\* anywhere else.
KeysComplete ==
  \A d \in dbs : \A s \in {d[i] : i \in DOMAIN d} : \A c \in ColumnsOf(s) :
    /\ c.kind = "key" =>
         /\ {Injected("next", c.of, 0), Injected("prev", c.of, 0)} \subseteq ColumnsOf(s)
         /\ Len(keys[c.of]) > 1 => Injected("type", c.of, 0) \in ColumnsOf(s)
         /\ \A i \in DOMAIN keys[c.of] :
              /\ Injected("head", c.of, i) \in ColumnsOf(keys[c.of][i])
              /\ TrackCounts => Injected("count", c.of, i) \in ColumnsOf(keys[c.of][i])
    /\ c.kind \in {"next", "prev", "type"} => KeyColumn(c.of) \in ColumnsOf(s)
    /\ c.kind \in {"head", "count"} => keys[c.of][c.type] = s

\* The targets of a database's keys are tables of the same database: commits and
\* delete calls look them up there ("ensuring adjacency lists are built
\* automatically for any connected NodeLayers", graph/overlay.py:128).
TargetsPresent ==
  \A d \in dbs :
    LET inDb == {d[i] : i \in DOMAIN d}
    IN  \A s \in inDb : \A c \in ColumnsOf(s) :
          c.kind = "key" => {keys[c.of][i] : i \in DOMAIN keys[c.of]} \subseteq inDb

\* Whoever subscribes to a table of a database is a column of one of its tables:
\* a delete call looks the tables of all subscribers up.
SubscribersPresent ==
  \A d \in dbs :
    LET inDb == {d[i] : i \in DOMAIN d}
    IN  \A s \in inDb : \A k \in schemas[s].subs :
          \E t \in inDb : KeyColumn(k) \in ColumnsOf(t)

\* A key that asks for counts and has its links has its counts too, also when no
\* dtype was given ("Dtype of the element count column.  Defaults to np.uint8",
\* schemas/foreign_key_col.py:27).
CountsByDefault ==
  \A s \in Schemas : \A k \in DOMAIN keys :
    TrackCounts /\ Injected("prev", k, 0) \in ColumnsOf(s) =>
      \A i \in DOMAIN keys[k] : Injected("count", k, i) \in ColumnsOf(keys[k][i])
=============================================================================
