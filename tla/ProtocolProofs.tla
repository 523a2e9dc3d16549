---------------------------- MODULE ProtocolProofs ----------------------------
(***************************************************************************)
(* The tables behind the protocols of a query server.                      *)
(*                                                                         *)
(* The writes of the DynamoDB protocol, each of which republishes the      *)
(* whole table, keep the items of every table keyed and touch only the     *)
(* keys they name, for every set of clients, requests, tables and rows.    *)
(*                                                                         *)
(* The serving patterns and Redis bindings derived from table              *)
(* descriptions, for every set of configuration requests, connections,     *)
(* databases, tables and checkpoints: they are current when they are used. *)
(* AdminsSound and ConnectionsSound say of every description a handler has *)
(* read, and of every binding cached or on its way, what it was made from. *)
(***************************************************************************)
EXTENDS DynamoProtocol, TableConfigs, TLAPS

-----------------------------------------------------------------------------
(* Items and keys (DynamoProtocol). *)

\* The key columns of an exposed table.
KeyNames == KeyFields(PrimaryKey)

\* The keys a set of operations names.
OpKeys(ops) == {OpKey(op) : op \in ops}

\* No two operations of a batch name one key.
KeysDiffer(ops) == \A a, b \in ops : OpKey(a) = OpKey(b) => a = b

\* The rows with none of the keys.
Others(rows, keys) == {r \in rows : ItemKey(r) \notin keys}

\* Rows that carry their keys, one row per key.
KeyedRows(rows) ==
  /\ \A r \in rows : CarriesKey(r)
  /\ \A a, b \in rows : ItemKey(a) = ItemKey(b) => a = b

\* The key columns are in the schema with their type.
KeyedSchema(schema) == \A f \in KeyNames : f \in DOMAIN schema /\ schema[f] = "N"

\* A sequence, of whatever its elements are.
Listed(q) == q \in Seq({q[i] : i \in DOMAIN q})

\* A checkpoint differs from the one its handler loaded only at the keys its
\* request names.
LocalAt(q, i) ==
  i = 1 \/ /\ q[i].original \in DOMAIN q
           /\ Items(Others(q[i].rows, q[i].written)) = Items(Others(q[q[i].original].rows, q[i].written))

\* What holds of all checkpoints of a table.
SoundTable(q) ==
  /\ Listed(q) /\ Len(q) > 0
  /\ \A i \in DOMAIN q : KeyedRows(q[i].rows) /\ KeyedSchema(q[i].schema) /\ LocalAt(q, i)

\* What a handler has yet to write: validated work, one operation per key.
SoundTodo(todo) ==
  /\ todo \in Seq(WorkItems) /\ Len(todo) > 0
  /\ \A i \in 1 .. Len(todo) : KeysDiffer(todo[i].ops)

\* What a handler is about to publish is the rows of an existing checkpoint,
\* rewritten only at the keys of the request.
SoundRewrite(mine, q) ==
  LET keys == OpKeys(Head(mine.todo).ops)
  IN /\ mine.base \in DOMAIN q
     /\ KeyedRows(mine.rows)
     /\ Others(mine.rows, keys) = Others(q[mine.base].rows, keys)

\* What a handler holds between two of its steps.
SoundWriter(mine) ==
  /\ mine.pc \in {"load", "publish"} => SoundTodo(mine.todo)
  /\ mine.pc = "publish" => SoundRewrite(mine, checkpoints[Head(mine.todo).table])

\* The inductive invariant. The two properties are not inductive: a handler
\* publishes rows it computed from a checkpoint that may no longer be the
\* latest, so the invariant says what the rows in its hands are.
KeyInv ==
  /\ DOMAIN checkpoints = Tables /\ DOMAIN writer = Writers
  /\ \A t \in Tables : SoundTable(checkpoints[t])
  /\ \A w \in Writers : SoundWriter(writer[w])

\* Appending a checkpoint leaves the earlier ones at their places.
LEMMA ListFacts ==
  ASSUME NEW q, Listed(q), NEW x
  PROVE  /\ Len(q) \in Nat /\ DOMAIN q = 1 .. Len(q)
         /\ Len(Append(q, x)) = Len(q) + 1 /\ DOMAIN Append(q, x) = 1 .. (Len(q) + 1)
         /\ \A i \in 1 .. Len(q) : Append(q, x)[i] = q[i]
         /\ Append(q, x)[Len(q) + 1] = x
         /\ Listed(Append(q, x))
<1> DEFINE S == {q[i] : i \in DOMAIN q} \cup {x}
           T == {Append(q, x)[i] : i \in DOMAIN Append(q, x)}
<1>1. q \in Seq({q[i] : i \in DOMAIN q})
  BY Zenon DEF Listed
<1>2. Len(q) \in Nat /\ DOMAIN q = 1 .. Len(q)
  BY <1>1
<1>3. q \in Seq(S) /\ x \in S
  <2>1. \A i \in 1 .. Len(q) : q[i] \in S
    BY <1>2, Zenon
  <2>2. q = [i \in 1 .. Len(q) |-> q[i]]
    BY <1>1
  <2> HIDE DEF S
  <2> QED
    BY <1>2, <2>1, <2>2 DEF S
<1> HIDE DEF S
<1>4. /\ Len(Append(q, x)) = Len(q) + 1 /\ DOMAIN Append(q, x) = 1 .. (Len(q) + 1)
      /\ \A i \in 1 .. Len(q) : Append(q, x)[i] = q[i]
      /\ Append(q, x)[Len(q) + 1] = x
      /\ Append(q, x) \in Seq(S)
  BY <1>3
<1> DEFINE p == Append(q, x)
<1>5. p \in Seq(T)
  <2>1. p \in Seq(S) /\ T = {p[i] : i \in DOMAIN p}
    BY <1>4, Zenon
  <2> HIDE DEF p, T
  <2>2. Len(p) \in Nat /\ DOMAIN p = 1 .. Len(p) /\ p = [i \in 1 .. Len(p) |-> p[i]]
    BY <2>1
  <2>3. \A i \in 1 .. Len(p) : p[i] \in T
    BY <2>1, <2>2, Zenon
  <2> QED
    BY <2>2, <2>3
<1> QED
  BY <1>2, <1>4, <1>5, Zenon DEF Listed

\* The head of sound work is work, and its tail is sound.
LEMMA TodoFacts ==
  ASSUME NEW todo, SoundTodo(todo)
  PROVE  /\ Head(todo) \in WorkItems /\ KeysDiffer(Head(todo).ops) /\ Head(todo).table \in Tables
         /\ Len(todo) # 1 => SoundTodo(Tail(todo))
<1>1. Head(todo) = todo[1] /\ todo[1] \in WorkItems /\ 1 \in 1 .. Len(todo) /\ Len(todo) \in Nat
  BY DEF SoundTodo
<1>2. KeysDiffer(Head(todo).ops)
  BY <1>1, Zenon DEF SoundTodo
<1>3. Head(todo).table \in Tables
  BY <1>1, WritesAssumption, Zenon
<1>4. ASSUME Len(todo) # 1
      PROVE  SoundTodo(Tail(todo))
  <2>1. /\ Tail(todo) \in Seq(WorkItems) /\ Len(Tail(todo)) = Len(todo) - 1
        /\ \A i \in 1 .. Len(Tail(todo)) : Tail(todo)[i] = todo[i + 1]
    BY <1>1 DEF SoundTodo
  <2>2. Len(Tail(todo)) > 0
    BY <1>1, <1>4, <2>1
  <2>3. \A i \in 1 .. Len(Tail(todo)) : KeysDiffer(Tail(todo)[i].ops)
    BY <1>1, <2>1 DEF SoundTodo
  <2> QED
    BY <2>1, <2>2, <2>3, Zenon DEF SoundTodo
<1> QED
  BY <1>1, <1>2, <1>3, <1>4, Zenon

-----------------------------------------------------------------------------
(* Rows and keys. *)

\* apply_update_expression leaves the key columns as the request's key has
\* them.
LEMMA UpdateFacts ==
  ASSUME NEW existing, NEW key, NEW actions
  PROVE  LET r == apply_update_expression(existing, key, actions)
         IN /\ DOMAIN key \subseteq DOMAIN r /\ r = [f \in DOMAIN r |-> r[f]]
            /\ \A f \in DOMAIN key : r[f] = key[f]
<1> DEFINE item == IF existing = {} THEN [f \in {} |-> JsonNull] ELSE CHOOSE i \in existing : TRUE
           Keeps(action) == action.op = "DELETE" /\ visible_object_value(item, action.field) = {}
           acts == {a \in actions : ~Keeps(a)}
           touched == {a.field : a \in acts}
           Result(field) == apply_update_action(item, CHOOSE a \in acts : a.field = field)
           there == (DOMAIN item \ touched) \cup DOMAIN key \cup {f \in touched : Result(f) # {}}
           Value(f) == CASE f \in DOMAIN key -> key[f]
                         [] f \in touched \ DOMAIN key -> CHOOSE v \in Result(f) : TRUE
                         [] OTHER -> item[f]
           r == apply_update_expression(existing, key, actions)
<1>1. r = [f \in there |-> Value(f)]
  BY Zenon DEF apply_update_expression
<1>2. DOMAIN key \subseteq there
  OBVIOUS
<1>3. \A f \in DOMAIN key : Value(f) = key[f]
  OBVIOUS
<1> HIDE DEF r, there, Value
<1> QED
  BY <1>1, <1>2, <1>3, Zenon DEF r

\* An operation writes at most one row, under its own key.
LEMMA WrittenFacts ==
  ASSUME NEW work \in WorkItems, NEW op \in work.ops, NEW rows
  PROVE  /\ \A r \in Written(rows, op) : CarriesKey(r) /\ ItemKey(r) = OpKey(op)
         /\ \A a, b \in Written(rows, op) : a = b
<1>1. \/ op.type = "put" /\ CarriesKey(op.item)
      \/ op.type \in {"update", "delete"} /\ CarriesKey(op.key) /\ DOMAIN op.key = KeyFields(PrimaryKey)
  BY WritesAssumption, Zenon
<1>2. CASE op.type = "put"
  BY <1>1, <1>2, Zenon DEF Written, OpKey
<1>3. CASE op.type = "delete"
  BY <1>3, Zenon DEF Written
<1>4. CASE op.type = "update"
  <2> DEFINE r == apply_update_expression(Existing(rows, op.key), op.key, op.actions)
  <2>1. Written(rows, op) = {r} /\ OpKey(op) = op.key
    BY <1>4, Zenon DEF Written, OpKey
  <2>2. CarriesKey(op.key) /\ DOMAIN op.key = KeyFields(PrimaryKey)
    BY <1>1, <1>4, Zenon
  <2>3. /\ DOMAIN op.key \subseteq DOMAIN r /\ r = [f \in DOMAIN r |-> r[f]]
        /\ \A f \in DOMAIN op.key : r[f] = op.key[f]
    BY UpdateFacts
  <2> HIDE DEF r
  <2>4. CarriesKey(r)
    BY <2>2, <2>3, Zenon DEF CarriesKey
  <2>5. ItemKey(r) = op.key
    BY <2>2, <2>3, Zenon DEF CarriesKey, ItemKey
  <2> QED
    BY <2>1, <2>4, <2>5, Zenon
<1> QED
  BY <1>1, <1>2, <1>3, <1>4, Zenon

\* Splitting off the rows of the request's keys and pushing the new ones
\* (split_rows_by_key and the handlers after it) keeps one row per key and
\* leaves the rows of other keys as they were.
LEMMA RewriteFacts ==
  ASSUME NEW work \in WorkItems, KeysDiffer(work.ops), NEW rows, KeyedRows(rows)
  PROVE  /\ KeyedRows(Rewrite(rows, work.ops))
         /\ Others(Rewrite(rows, work.ops), OpKeys(work.ops)) = Others(rows, OpKeys(work.ops))
<1> DEFINE keys == OpKeys(work.ops)
           kept == {r \in rows : \A op \in work.ops : r \in split_rows_by_key(rows, op)}
           new == UNION {Written(rows, op) : op \in work.ops}
<1>1. Rewrite(rows, work.ops) = kept \cup new
  BY Zenon DEF Rewrite
<1>2. kept = Others(rows, keys)
  BY Zenon DEF split_rows_by_key, Existing, Others, OpKeys
<1>3. \A op \in work.ops : /\ \A r \in Written(rows, op) : CarriesKey(r) /\ ItemKey(r) = OpKey(op)
                           /\ \A a, b \in Written(rows, op) : a = b
  BY WrittenFacts, Zenon
<1>4. \A r \in new : CarriesKey(r) /\ ItemKey(r) \in keys
  BY <1>3 DEF OpKeys
<1>5. \A a, b \in new : ItemKey(a) = ItemKey(b) => a = b
  <2> SUFFICES ASSUME NEW a \in new, NEW b \in new, ItemKey(a) = ItemKey(b)
               PROVE  a = b
    OBVIOUS
  <2>1. PICK op \in work.ops : a \in Written(rows, op)
    OBVIOUS
  <2>2. PICK oq \in work.ops : b \in Written(rows, oq)
    OBVIOUS
  <2>3. OpKey(op) = OpKey(oq)
    BY <1>3, <2>1, <2>2, Zenon
  <2>4. op = oq
    BY <2>3, Zenon DEF KeysDiffer
  <2> QED
    BY <1>3, <2>1, <2>2, <2>4, Zenon
<1> HIDE DEF kept, new, keys
<1>6. \A r \in kept : r \in rows /\ CarriesKey(r) /\ ItemKey(r) \notin keys
  BY <1>2, Zenon DEF Others, KeyedRows
<1>7. KeyedRows(kept \cup new)
  <2>1. \A r \in kept \cup new : CarriesKey(r)
    BY <1>4, <1>6, Zenon
  <2>2. \A a, b \in kept : ItemKey(a) = ItemKey(b) => a = b
    BY <1>6, Zenon DEF KeyedRows
  <2>3. \A a \in kept, b \in new : ItemKey(a) # ItemKey(b)
    BY <1>4, <1>6, Zenon
  <2> QED
    BY <1>5, <2>1, <2>2, <2>3, Zenon DEF KeyedRows
<1>8. Others(kept \cup new, keys) = kept
  BY <1>4, <1>6, Zenon DEF Others
<1> QED
  BY <1>1, <1>2, <1>7, <1>8, Zenon DEF keys

\* A row as coerce_rows_to_schema writes it.
Coerced(row, schema) == [f \in DOMAIN schema |-> IF f \in DOMAIN row THEN row[f] ELSE JsonNull]

\* Coercing a row to a schema that has all its columns keeps its key, and
\* the item a client reads.
LEMMA CoercedFacts ==
  ASSUME NEW row, NEW schema, CarriesKey(row), DOMAIN row \subseteq DOMAIN schema
  PROVE  /\ CarriesKey(Coerced(row, schema))
         /\ ItemKey(Coerced(row, schema)) = ItemKey(row)
         /\ json_row_to_dynamodb_item(Coerced(row, schema)) = json_row_to_dynamodb_item(row)
<1> DEFINE c == Coerced(row, schema)
<1>1. /\ DOMAIN c = DOMAIN schema /\ c = [f \in DOMAIN c |-> c[f]]
      /\ \A f \in DOMAIN row : c[f] = row[f]
      /\ \A f \in DOMAIN schema \ DOMAIN row : c[f] = JsonNull
  BY Zenon DEF Coerced
<1> HIDE DEF c
<1>2. KeyFields(PrimaryKey) \subseteq DOMAIN row /\ KeyFields(PrimaryKey) \subseteq DOMAIN c
  BY <1>1, Zenon DEF CarriesKey
<1>3. \A f \in KeyFields(PrimaryKey) : c[f] = row[f]
  BY <1>1, <1>2, Zenon
<1>4. CarriesKey(c)
  BY <1>1, <1>2, <1>3, Zenon DEF CarriesKey
<1>5. ItemKey(c) = ItemKey(row)
  BY <1>3, Zenon DEF ItemKey
<1>6. {f \in DOMAIN c : c[f] # JsonNull} = {f \in DOMAIN row : row[f] # JsonNull}
  BY <1>1, Zenon
<1>7. json_row_to_dynamodb_item(c) = json_row_to_dynamodb_item(row)
  <2> DEFINE seen == {f \in DOMAIN row : row[f] # JsonNull}
  <2>1. json_row_to_dynamodb_item(c) = [f \in seen |-> c[f]]
    BY <1>6, Zenon DEF json_row_to_dynamodb_item
  <2>2. json_row_to_dynamodb_item(row) = [f \in seen |-> row[f]]
    BY Zenon DEF json_row_to_dynamodb_item
  <2>3. \A f \in seen : c[f] = row[f]
    BY <1>1, Zenon
  <2> HIDE DEF seen
  <2> QED
    BY <2>1, <2>2, <2>3, Zenon
<1> QED
  BY <1>4, <1>5, <1>7, Zenon DEF c

\* merged_row_schema has every column of every row, and the key columns with
\* their type; without rows it is the schema of the checkpoint that was
\* loaded.
LEMMA SchemaFacts ==
  ASSUME NEW rows, KeyedRows(rows), NEW fallback, rows = {} => KeyedSchema(fallback)
  PROVE  LET schema == merged_row_schema(rows, fallback)
         IN /\ \A r \in rows : DOMAIN r \subseteq DOMAIN schema
            /\ KeyedSchema(schema)
<1> DEFINE schema == merged_row_schema(rows, fallback)
<1>1. CASE rows = {}
  BY <1>1, Zenon DEF merged_row_schema
<1>2. CASE rows # {}
  <2>1. /\ DOMAIN schema = UNION {DOMAIN row : row \in rows}
        /\ \A f \in DOMAIN schema : schema[f] = IF FieldTypes(rows, f) = {} THEN "JsonNull"
                                                ELSE CHOOSE type \in FieldTypes(rows, f) : TRUE
    BY <1>2, Zenon DEF merged_row_schema
  <2> HIDE DEF schema
  <2>2. \A f \in KeyNames : f \in DOMAIN schema
    BY <1>2, <2>1 DEF KeyNames, KeyedRows, CarriesKey
  <2>3. \A f \in KeyNames : FieldTypes(rows, f) = {"N"}
    BY <1>2 DEF KeyNames, KeyedRows, CarriesKey, FieldTypes
  <2>4. \A f \in KeyNames : schema[f] = "N"
    BY <2>1, <2>2, <2>3, Zenon
  <2> QED
    BY <2>1, <2>2, <2>4, Zenon DEF KeyedSchema, schema
<1> QED
  BY <1>1, <1>2, Zenon

\* coerce_rows_to_schema keeps one row per key and the items of other keys,
\* although it adds columns.
LEMMA CoerceFacts ==
  ASSUME NEW rows, KeyedRows(rows), NEW schema, \A r \in rows : DOMAIN r \subseteq DOMAIN schema,
         NEW keys
  PROVE  LET new == coerce_rows_to_schema(rows, schema)
         IN /\ KeyedRows(new)
            /\ Items(Others(new, keys)) = Items(Others(rows, keys))
<1> DEFINE new == coerce_rows_to_schema(rows, schema)
<1>1. new = {Coerced(r, schema) : r \in rows}
  BY Zenon DEF coerce_rows_to_schema, Coerced
<1>2. \A r \in rows : /\ CarriesKey(Coerced(r, schema))
                      /\ ItemKey(Coerced(r, schema)) = ItemKey(r)
                      /\ json_row_to_dynamodb_item(Coerced(r, schema)) = json_row_to_dynamodb_item(r)
  BY CoercedFacts, Zenon DEF KeyedRows
<1> HIDE DEF new
<1>3. KeyedRows(new)
  BY <1>1, <1>2 DEF KeyedRows
<1>4. Items(Others(new, keys)) = Items(Others(rows, keys))
  <2>1. Others(new, keys) = {Coerced(r, schema) : r \in Others(rows, keys)}
    BY <1>1, <1>2, Zenon DEF Others
  <2>2. \A r \in Others(rows, keys) : json_row_to_dynamodb_item(Coerced(r, schema)) = json_row_to_dynamodb_item(r)
    BY <1>2, Zenon DEF Others
  <2> QED
    BY <2>1, <2>2 DEF Items
<1> QED
  BY <1>3, <1>4, Zenon DEF new

\* The tables start keyed and no handler is at work.
LEMMA KeyInit == ASSUME DynamoInit PROVE KeyInv
<1>1. PICK rows \in InitialRows : checkpoints = [t \in Tables |->
             << [rows |-> rows[t], schema |-> merged_row_schema(rows[t], [f \in {} |-> "JsonNull"]),
                 original |-> 0, written |-> {}] >>]
  BY Zenon DEF DynamoInit
<1>2. ASSUME NEW t \in Tables
      PROVE  SoundTable(checkpoints[t])
  <2> DEFINE q == checkpoints[t]
             first == [rows |-> rows[t], schema |-> merged_row_schema(rows[t], [f \in {} |-> "JsonNull"]),
                       original |-> 0, written |-> {}]
  <2>1. q = <<first>>
    BY <1>1, Zenon
  <2>2. first.rows = rows[t] /\ first.schema = merged_row_schema(rows[t], [f \in {} |-> "JsonNull"])
    OBVIOUS
  <2>3. KeyedRows(rows[t]) /\ rows[t] # {}
    BY RowsAssumption, Zenon DEF KeyedRows
  <2>4. KeyedSchema(merged_row_schema(rows[t], [f \in {} |-> "JsonNull"]))
    BY <2>3, SchemaFacts, Zenon
  <2> HIDE DEF first, q
  <2>5. DOMAIN q = {1} /\ Len(q) = 1 /\ q[1] = first /\ q \in Seq({first})
    BY <2>1
  <2>6. Listed(q)
    <3>1. {q[i] : i \in DOMAIN q} = {first}
      BY <2>5, Zenon
    <3> QED
      BY <2>5, <3>1, Zenon DEF Listed
  <2>7. \A i \in DOMAIN q : KeyedRows(q[i].rows) /\ KeyedSchema(q[i].schema) /\ LocalAt(q, i)
    BY <2>2, <2>3, <2>4, <2>5, Zenon DEF LocalAt
  <2> QED
    BY <2>5, <2>6, <2>7 DEF SoundTable, q
<1>3. DOMAIN checkpoints = Tables
  BY <1>1, Zenon
<1>4. DOMAIN writer = Writers /\ \A w \in Writers : writer[w].pc = "idle"
  BY Zenon DEF DynamoInit, IdleHandler
<1>5. \A w \in Writers : SoundWriter(writer[w])
  BY <1>4, Zenon DEF SoundWriter
<1> QED
  BY <1>2, <1>3, <1>4, <1>5, Zenon DEF KeyInv

(* Nothing but the handler of one writer changes. *)
HandlerMoves(w, mine) ==
  checkpoints' = checkpoints /\ writer' = [writer EXCEPT ![w] = mine]

\* A step that leaves the checkpoints alone and the handler sound keeps the
\* invariant.
LEMMA HandlerKeeps ==
  ASSUME KeyInv, NEW w \in Writers, NEW mine, HandlerMoves(w, mine), SoundWriter(mine)
  PROVE  KeyInv'
<1>1. \A v \in Writers : writer'[v] = (IF v = w THEN mine ELSE writer[v])
  BY Zenon DEF HandlerMoves, KeyInv
<1>2. DOMAIN checkpoints' = Tables /\ DOMAIN writer' = Writers
  BY Zenon DEF HandlerMoves, KeyInv
<1>3. \A t \in Tables : SoundTable(checkpoints'[t])
  BY Zenon DEF HandlerMoves, KeyInv
<1>4. \A v \in Writers : SoundWriter(writer'[v])
  BY <1>1, Zenon DEF KeyInv
<1>5. \A v \in Writers : SoundWriter(writer[v])'
  BY <1>4, Zenon DEF SoundWriter, HandlerMoves
<1> QED
  BY <1>2, <1>3, <1>5, Zenon DEF KeyInv

\* An idle handler holds nothing.
LEMMA IdleHandlerIsSound == SoundWriter(IdleHandler)
BY Zenon DEF SoundWriter, IdleHandler

\* A handler about to load holds sound work.
LEMMA LoadIsSound ==
  ASSUME NEW req, NEW todo, SoundTodo(todo)
  PROVE  SoundWriter([pc |-> "load", req |-> req, todo |-> todo])
BY Zenon DEF SoundWriter

\* After one table of a batch a handler is idle or goes on to the next.
LEMMA ContinueIsSound ==
  ASSUME KeyInv, NEW w \in Writers, writer[w].pc \in {"load", "publish"}
  PROVE  SoundWriter(Continue(w))
<1>1. SoundTodo(writer[w].todo)
  BY Zenon DEF KeyInv, SoundWriter
<1>2. CASE Len(writer[w].todo) = 1
  BY <1>2, IdleHandlerIsSound, Zenon DEF Continue
<1>3. CASE Len(writer[w].todo) # 1
  <2>1. SoundTodo(Tail(writer[w].todo))
    BY <1>1, <1>3, TodoFacts, Zenon
  <2>2. SoundWriter([pc |-> "load", req |-> writer[w].req, todo |-> Tail(writer[w].todo)])
    BY <2>1, LoadIsSound, Zenon
  <2> QED
    BY <1>3, <2>2, Zenon DEF Continue
<1> QED
  BY <1>2, <1>3, Zenon

\* Parsing and validating a request keeps the invariant (handle_put_item,
\* handle_update_item, handle_delete_item, handle_batch_write_item).
LEMMA AcceptKeeps ==
  ASSUME KeyInv, NEW w \in Writers, NEW req \in WriteRequests, Accept(w, req)
  PROVE  KeyInv'
<1>1. CASE ~RequestIsValid(req)
  <2>1. HandlerMoves(w, IdleHandler)
    BY <1>1, Zenon DEF Accept, HandlerMoves
  <2> QED
    BY <2>1, HandlerKeeps, IdleHandlerIsSound, Zenon
<1>2. CASE RequestIsValid(req)
  <2>1. HandlerMoves(w, [pc |-> "load", req |-> req, todo |-> req.todo])
    BY <1>2, Zenon DEF Accept, HandlerMoves
  <2>2. req.todo \in Seq(WorkItems) /\ req.todo # <<>>
    BY <1>2, WritesAssumption, Zenon DEF RequestIsValid
  <2>3. Len(req.todo) > 0 /\ DOMAIN req.todo = 1 .. Len(req.todo)
    BY <2>2
  <2>4. \A i \in 1 .. Len(req.todo) : KeysDiffer(req.todo[i].ops)
    BY <1>2, <2>3, Zenon DEF RequestIsValid, KeysDiffer
  <2>5. SoundTodo(req.todo)
    BY <2>2, <2>3, <2>4, Zenon DEF SoundTodo
  <2> QED
    BY <2>1, <2>5, HandlerKeeps, LoadIsSound, Zenon
<1> QED
  BY <1>1, <1>2, Zenon

\* The latest checkpoint of a table is one of its checkpoints.
LEMMA LatestFacts ==
  ASSUME KeyInv, NEW t \in Tables
  PROVE  /\ latest(t) \in DOMAIN checkpoints[t]
         /\ KeyedRows(Active(t).rows) /\ KeyedSchema(Active(t).schema)
<1>1. SoundTable(checkpoints[t])
  BY Zenon DEF KeyInv
<1>2. Len(checkpoints[t]) \in DOMAIN checkpoints[t]
  <2>1. Len(checkpoints[t]) \in Nat /\ DOMAIN checkpoints[t] = 1 .. Len(checkpoints[t])
    BY <1>1, ListFacts, Zenon DEF SoundTable
  <2> QED
    BY <1>1, <2>1 DEF SoundTable
<1> QED
  BY <1>1, <1>2, Zenon DEF SoundTable, latest, Active

\* load_mutable_table_rows and the rewriting in memory keep the invariant.
LEMMA LoadRowsKeeps ==
  ASSUME KeyInv, NEW w \in Writers, load_mutable_table_rows(w)
  PROVE  KeyInv'
<1> DEFINE mine == writer[w]
           t == Head(mine.todo).table
           ops == Head(mine.todo).ops
           rows == Active(t).rows
           refused == ~ConditionHolds(rows, mine.req, ops) \/ \E op \in ops : UpdateIsRefused(rows, op)
           next == [pc |-> "publish", req |-> mine.req, todo |-> mine.todo,
                    base |-> latest(t), rows |-> Rewrite(rows, ops)]
<1>1. mine.pc = "load" /\ SoundTodo(mine.todo)
  BY Zenon DEF load_mutable_table_rows, KeyInv, SoundWriter
<1>2. Head(mine.todo) \in WorkItems /\ KeysDiffer(ops) /\ t \in Tables
  BY <1>1, TodoFacts, Zenon
<1>3. \/ HandlerMoves(w, IdleHandler)
      \/ HandlerMoves(w, Continue(w))
      \/ HandlerMoves(w, next)
  <2> DEFINE changes == Changes(rows, ops)
  <2>1. /\ checkpoints' = checkpoints
        /\ writer' = [writer EXCEPT ![w] = CASE refused -> IdleHandler
                                             [] ~refused /\ ~changes -> Continue(w)
                                             [] ~refused /\ changes -> next]
    BY Zenon DEF load_mutable_table_rows
  <2> HIDE DEF refused, next, rows, ops, t, mine, changes
  <2>2. CASE refused
    BY <2>1, <2>2, Zenon DEF HandlerMoves
  <2>3. CASE ~refused /\ ~changes
    BY <2>1, <2>3, Zenon DEF HandlerMoves
  <2>4. CASE ~refused /\ changes
    BY <2>1, <2>4, Zenon DEF HandlerMoves
  <2> QED
    BY <2>2, <2>3, <2>4, Zenon
<1>4. SoundWriter(next)
  <2>1. latest(t) \in DOMAIN checkpoints[t] /\ KeyedRows(rows)
    BY <1>2, LatestFacts, Zenon
  <2>2. KeyedRows(Rewrite(rows, ops)) /\ Others(Rewrite(rows, ops), OpKeys(ops)) = Others(rows, OpKeys(ops))
    BY <1>2, <2>1, RewriteFacts, Zenon
  <2>3. next.pc = "publish" /\ next.todo = mine.todo /\ next.base = latest(t) /\ next.rows = Rewrite(rows, ops)
    OBVIOUS
  <2>4. rows = checkpoints[t][latest(t)].rows
    BY Zenon DEF Active
  <2>5. t = Head(next.todo).table /\ ops = Head(next.todo).ops
    BY <2>3, Zenon
  <2> HIDE DEF next, rows, ops, t
  <2>6. SoundRewrite(next, checkpoints[t])
    BY <2>1, <2>2, <2>3, <2>4, <2>5, Zenon DEF SoundRewrite
  <2> QED
    BY <1>1, <2>3, <2>5, <2>6, Zenon DEF SoundWriter
<1>5. SoundWriter(Continue(w))
  BY <1>1, ContinueIsSound, Zenon
<1> HIDE DEF next
<1> QED
  BY <1>3, <1>4, <1>5, IdleHandlerIsSound, HandlerKeeps, Zenon

\* publish_mutated_checkpoint keeps the invariant, whatever was published
\* since the rows were loaded.
LEMMA PublishKeeps ==
  ASSUME KeyInv, NEW w \in Writers, publish_mutated_checkpoint(w)
  PROVE  KeyInv'
<1> DEFINE mine == writer[w]
           t == Head(mine.todo).table
           q == checkpoints[t]
           keys == OpKeys(Head(mine.todo).ops)
           schema == merged_row_schema(mine.rows, q[mine.base].schema)
           rows == coerce_rows_to_schema(mine.rows, schema)
           new == [rows |-> rows, schema |-> schema, original |-> mine.base, written |-> keys]
<1>1. mine.pc = "publish" /\ SoundTodo(mine.todo) /\ SoundRewrite(mine, q)
  BY Zenon DEF publish_mutated_checkpoint, KeyInv, SoundWriter
<1>2. t \in Tables
  BY <1>1, TodoFacts, Zenon
<1> HIDE DEF new, rows, schema, keys, q, t, mine
<1>3. CASE SchemaConflict(mine.rows)
  <2>1. HandlerMoves(w, IdleHandler)
    BY <1>3, Zenon DEF publish_mutated_checkpoint, HandlerMoves, mine
  <2> QED
    BY <2>1, HandlerKeeps, IdleHandlerIsSound, Zenon
<1>4. CASE ~SchemaConflict(mine.rows)
  <2>1. /\ checkpoints' = [checkpoints EXCEPT ![t] = Append(q, new)]
        /\ writer' = [writer EXCEPT ![w] = Continue(w)]
    BY <1>4, Zenon DEF publish_mutated_checkpoint, OpKeys, mine, t, q, keys, schema, rows, new
  <2>2. SoundTable(q) /\ mine.base \in DOMAIN q
    BY <1>1, <1>2, Zenon DEF KeyInv, SoundRewrite, q
  <2>3. KeyedRows(mine.rows) /\ Others(mine.rows, keys) = Others(q[mine.base].rows, keys)
    BY <1>1, Zenon DEF SoundRewrite, keys
  <2>4. KeyedSchema(q[mine.base].schema)
    BY <2>2, Zenon DEF SoundTable
  <2>5. (\A r \in mine.rows : DOMAIN r \subseteq DOMAIN schema) /\ KeyedSchema(schema)
    BY <2>3, <2>4, SchemaFacts, Zenon DEF schema
  <2>6. KeyedRows(rows) /\ Items(Others(rows, keys)) = Items(Others(mine.rows, keys))
    BY <2>3, <2>5, CoerceFacts, Zenon DEF rows
  <2>7. new.rows = rows /\ new.schema = schema /\ new.original = mine.base /\ new.written = keys
    BY Zenon DEF new
  <2> DEFINE p == Append(q, new)
  <2>8. /\ Listed(p) /\ Len(p) = Len(q) + 1 /\ DOMAIN p = 1 .. (Len(q) + 1) /\ DOMAIN q = 1 .. Len(q)
        /\ Len(q) \in Nat /\ (\A i \in 1 .. Len(q) : p[i] = q[i]) /\ p[Len(q) + 1] = new
    BY <2>2, ListFacts DEF SoundTable
  <2> HIDE DEF p
  <2>9. \A i \in DOMAIN q : i \in DOMAIN p /\ p[i] = q[i]
    BY <2>8
  <2>10. ASSUME NEW i \in DOMAIN p
         PROVE  KeyedRows(p[i].rows) /\ KeyedSchema(p[i].schema) /\ LocalAt(p, i)
    <3>1. CASE i \in DOMAIN q
      <4>1. KeyedRows(q[i].rows) /\ KeyedSchema(q[i].schema) /\ LocalAt(q, i)
        BY <2>2, <3>1, Zenon DEF SoundTable
      <4>2. LocalAt(p, i)
        BY <2>9, <3>1, <4>1, Zenon DEF LocalAt
      <4> QED
        BY <2>9, <3>1, <4>1, <4>2, Zenon
    <3>2. CASE i \notin DOMAIN q
      <4>1. p[i] = new
        BY <2>8, <3>2
      <4>2. p[mine.base] = q[mine.base] /\ mine.base \in DOMAIN p
        BY <2>2, <2>9, Zenon
      <4>3. LocalAt(p, i)
        BY <2>3, <2>6, <2>7, <4>1, <4>2, Zenon DEF LocalAt
      <4> QED
        BY <2>5, <2>6, <2>7, <4>1, <4>3, Zenon
    <3> QED
      BY <3>1, <3>2, Zenon
  <2>11. SoundTable(p)
    <3>1. Len(p) > 0
      BY <2>8
    <3> QED
      BY <2>8, <2>10, <3>1, Zenon DEF SoundTable
  <2>12. DOMAIN checkpoints' = Tables /\ \A u \in Tables : checkpoints'[u] = (IF u = t THEN p ELSE checkpoints[u])
    BY <1>2, <2>1, Zenon DEF KeyInv, p
  <2>13. \A u \in Tables : SoundTable(checkpoints'[u])
    BY <2>11, <2>12, Zenon DEF KeyInv
  <2>14. DOMAIN writer' = Writers /\ \A v \in Writers : writer'[v] = (IF v = w THEN Continue(w) ELSE writer[v])
    BY <2>1, Zenon DEF KeyInv
  <2>15. SoundWriter(Continue(w))
    BY <1>1, ContinueIsSound, Zenon DEF mine
  <2>16. \A v \in Writers : SoundWriter(writer'[v])
    BY <2>14, <2>15, Zenon DEF KeyInv
  <2>17. ASSUME NEW v \in Writers
         PROVE  SoundWriter(writer[v])'
    <3> DEFINE m == writer'[v]
               u == Head(m.todo).table
    <3>1. SoundWriter(m)
      BY <2>16, Zenon
    <3>2. m.pc \in {"load", "publish"} => SoundTodo(m.todo)
      BY <3>1, Zenon DEF SoundWriter
    <3>3. ASSUME m.pc = "publish"
          PROVE  SoundRewrite(m, checkpoints'[u])
      <4>1. SoundRewrite(m, checkpoints[u])
        BY <3>1, <3>3, Zenon DEF SoundWriter
      <4>2. u \in Tables
        BY <3>2, <3>3, TodoFacts, Zenon
      <4> HIDE DEF m, u
      <4>3. m.base \in DOMAIN checkpoints'[u] /\ checkpoints'[u][m.base] = checkpoints[u][m.base]
        <5>1. m.base \in DOMAIN checkpoints[u]
          BY <4>1, Zenon DEF SoundRewrite
        <5>2. CASE u # t
          BY <2>12, <4>2, <5>1, <5>2, Zenon
        <5>3. CASE u = t
          BY <2>9, <2>12, <4>2, <5>1, <5>3, Zenon DEF q
        <5> QED
          BY <5>2, <5>3, Zenon
      <4> QED
        BY <4>1, <4>3, Zenon DEF SoundRewrite
    <3> QED
      BY <3>2, <3>3, Zenon DEF SoundWriter
  <2> QED
    BY <2>12, <2>13, <2>14, <2>17, Zenon DEF KeyInv
<1> QED
  BY <1>3, <1>4, Zenon

\* Query and Scan change neither checkpoints nor write handlers.
LEMMA ReadsKeep ==
  ASSUME KeyInv, UNCHANGED <<checkpoints, writer>>
  PROVE  KeyInv'
BY Zenon DEF KeyInv, SoundWriter

\* Every step of the DynamoDB protocol keeps the invariant.
LEMMA KeyStep ==
  ASSUME KeyInv, [DynamoNext]_dynamoVars
  PROVE  KeyInv'
<1>1. CASE UNCHANGED dynamoVars
  BY <1>1, ReadsKeep, Zenon DEF dynamoVars
<1>2. ASSUME NEW w \in Writers, NEW req \in WriteRequests,
             \/ handle_put_item(w, req) \/ handle_update_item(w, req)
             \/ handle_delete_item(w, req) \/ handle_batch_write_item(w, req)
      PROVE  KeyInv'
  <2>1. Accept(w, req)
    BY <1>2, Zenon DEF handle_put_item, handle_update_item, handle_delete_item, handle_batch_write_item
  <2> QED
    BY <2>1, AcceptKeeps, Zenon
<1>3. ASSUME NEW w \in Writers, load_mutable_table_rows(w)
      PROVE  KeyInv'
  BY <1>3, LoadRowsKeeps, Zenon
<1>4. ASSUME NEW w \in Writers, publish_mutated_checkpoint(w)
      PROVE  KeyInv'
  BY <1>4, PublishKeeps, Zenon
<1>5. ASSUME NEW r \in Readers,
             \/ \E req \in ReadRequests : begin_read(r, req)
             \/ handle_query(r) \/ handle_scan(r) \/ read_fails(r)
      PROVE  KeyInv'
  <2>1. (\E req \in ReadRequests : begin_read(r, req)) => UNCHANGED <<checkpoints, writer>>
    BY Zenon DEF begin_read
  <2>2. Page(r) => UNCHANGED <<checkpoints, writer>>
    BY Zenon DEF Page
  <2>3. read_fails(r) => UNCHANGED <<checkpoints, writer>>
    BY Zenon DEF read_fails
  <2>4. UNCHANGED <<checkpoints, writer>>
    BY <1>5, <2>1, <2>2, <2>3, Zenon DEF handle_query, handle_scan
  <2> QED
    BY <2>4, ReadsKeep, Zenon
<1> QED
  BY <1>1, <1>2, <1>3, <1>4, <1>5, Zenon DEF DynamoNext

\* The invariant gives ItemsStayKeyed.
LEMMA KeyedIsKeyed == ASSUME KeyInv PROVE ItemsStayKeyed
<1>1. KeysStayUnique
  BY Zenon DEF KeyInv, SoundTable, KeyedRows, KeysStayUnique
<1>2. KeySchemaStaysValid
  BY LatestFacts, Zenon DEF KeySchemaStaysValid, KeyedSchema, KeyNames
<1> QED
  BY <1>1, <1>2, Zenon DEF ItemsStayKeyed

\* The invariant gives WritesAreLocal.
LEMMA LocalIsLocal == ASSUME KeyInv PROVE WritesAreLocal
<1>1. \A t \in Tables : \A i \in DOMAIN checkpoints[t] : LocalAt(checkpoints[t], i)
  BY Zenon DEF KeyInv, SoundTable
<1> QED
  BY <1>1, Zenon DEF LocalAt, Others, WritesAreLocal

\* Any mix of puts, updates, deletes and batches, however their loads and
\* publications interleave, leaves one row per primary key in every
\* checkpoint and the key columns with their type in the active schema.
THEOREM ItemsRemainKeyed == DynamoSpec => []ItemsStayKeyed
<1>1. DynamoInit => KeyInv
  BY KeyInit, Zenon
<1>2. KeyInv /\ [DynamoNext]_dynamoVars => KeyInv'
  BY KeyStep, Zenon
<1>3. KeyInv => ItemsStayKeyed
  BY KeyedIsKeyed, Zenon
<1> QED
  BY <1>1, <1>2, <1>3, PTL DEF DynamoSpec

\* A published checkpoint differs from the one its handler loaded only at
\* the keys the request names, although every row is rewritten and columns
\* come and go with the merged schema.
THEOREM WritesRemainLocal == DynamoSpec => []WritesAreLocal
<1>1. DynamoInit => KeyInv
  BY KeyInit, Zenon
<1>2. KeyInv /\ [DynamoNext]_dynamoVars => KeyInv'
  BY KeyStep, Zenon
<1>3. KeyInv => WritesAreLocal
  BY LocalIsLocal, Zenon
<1> QED
  BY <1>1, <1>2, <1>3, PTL DEF DynamoSpec

-----------------------------------------------------------------------------
(* Descriptions, serving patterns and bindings (TableConfigs). *)

Derived(serving) == {p \in serving : p.derived}

\* A table description whose derived patterns, if any, are those of its DynamoDB
\* configuration.
SoundDescription(d) ==
  /\ d = [serving |-> d.serving, dynamodb |-> d.dynamodb, mongodb |-> d.mongodb, redis |-> d.redis]
  /\ \/ Derived(d.serving) = {}
     \/ /\ d.dynamodb # NoConfig
        /\ Derived(d.serving) = derived_dynamodb_serving_patterns(d.dynamodb)

\* What a configuration handler carries from its read to its write.
SoundAdmin(h) ==
  h.pc \in {"list", "upsert"} =>
    /\ h = [pc |-> h.pc, put |-> h.put, existing |-> h.existing, unlisted |-> h.unlisted]
    /\ h.put \in Puts /\ SoundDescription(h.existing)

\* A binding of a database is to an enabled configuration for it, and knows the
\* columns of the checkpoint it names.
SoundBinding(b, db) ==
  /\ b.table \in ConfigTables
  /\ b.known_fields = ColumnsOf[b.table][b.active_checkpoint_id]
  /\ b.config.enabled /\ b.config.name = db

\* What a connection carries while it resolves its database.
SoundAt(k, now) ==
  k.pc # "idle" =>
    /\ k = [pc |-> k.pc, db |-> k.db, cached |-> k.cached, since |-> k.since,
            unlisted |-> k.unlisted, matches |-> k.matches]
    /\ k.db \in Databases
    /\ k.since = [t \in ConfigTables |-> k.since[t]]
    /\ \A t \in ConfigTables : now[t] \in k.since[t]
    /\ k.pc = "cached" => SoundBinding(k.cached, k.db)
    /\ k.pc = "bound" =>
         SoundBinding(k.cached, k.db) /\ k.cached.active_checkpoint_id \in k.since[k.cached.table]
    /\ k.pc \in {"list", "resolve"} =>
         \A m \in k.matches : m[1] \in ConfigTables /\ m[2].enabled /\ m[2].name = k.db

SoundConnection(k) == SoundAt(k, active_checkpoint)

\* Every pattern derived from a key schema is marked as derived.
LEMMA DerivedPatterns ==
  ASSUME NEW config, NEW p \in derived_dynamodb_serving_patterns(config)
  PROVE  p.derived
<1>1. \A schema, is_table : \A q \in derived_serving_patterns_for_key_schema(schema, is_table) : q.derived
  BY DEF derived_serving_patterns_for_key_schema, Pattern
<1> QED
  BY <1>1, Zenon DEF derived_dynamodb_serving_patterns

\* derived_serving_patterns_for_key_schema has a pattern for every request
\* handle_get_item and handle_query make for the schema; an index without a sort
\* key has none.
LEMMA PatternsAdmit ==
  ASSUME NEW schema, NEW is_table \in BOOLEAN, is_table \/ schema.sort_key # NoConfig,
         NEW serving, derived_serving_patterns_for_key_schema(schema, is_table) \subseteq serving,
         NEW shape \in RequestShapes(schema, is_table)
  PROVE  Admitted(shape, serving)
<1> DEFINE p == {schema.partition_key}
           s == schema.sort_key
           Ps == derived_serving_patterns_for_key_schema(schema, is_table)
           Shape(eq, range, order, desc, limit) ==
             [eq_fields |-> eq, range_field |-> range, order_field |-> order,
              descending |-> desc, limit |-> limit]
<1>1. ASSUME NEW eq, NEW range, NEW order, NEW desc, NEW limit, NEW max,
             Pattern(eq, range, order, desc, max) \in Ps,
             max = NoConfig \/ limit =< max,
             shape = Shape(eq, range, order, desc, limit)
      PROVE  Admitted(shape, serving)
  <2> DEFINE q == Pattern(eq, range, order, desc, max)
  <2>1. /\ q.eq_fields = eq /\ q.range_field = range /\ q.order_field = order
        /\ q.descending = desc /\ q.max_limit = max
    BY Zenon DEF Pattern
  <2>2. /\ shape.eq_fields = eq /\ shape.range_field = range /\ shape.order_field = order
        /\ shape.descending = desc /\ shape.limit = limit
    BY <1>1, Zenon
  <2>3. q \in serving
    BY <1>1, Zenon
  <2> HIDE DEF q, Shape
  <2> QED
    BY <1>1, <2>1, <2>2, <2>3, Zenon DEF Admitted
<1>2. CASE s = NoConfig
  <2>1. Pattern(p, NoConfig, NoConfig, FALSE, 1) \in Ps
    <3>1. p \cup ({s} \ {NoConfig}) = p
      BY <1>2, Zenon
    <3> QED
      BY <1>2, <3>1, Zenon DEF derived_serving_patterns_for_key_schema
  <2>2. shape = Shape(p, NoConfig, NoConfig, FALSE, 1)
    BY <1>2 DEF RequestShapes
  <2>3. 1 =< 1
    OBVIOUS
  <2> HIDE DEF p, s, Ps, Shape
  <2> QED
    BY <1>1, <2>1, <2>2, <2>3, Zenon
<1>3. CASE s # NoConfig
  <2>1. Pattern(p \cup {s}, NoConfig, NoConfig, FALSE, IF is_table THEN 1 ELSE NoConfig) \in Ps
    <3>1. {s} \ {NoConfig} = {s}
      BY <1>3, Zenon
    <3> QED
      BY <1>3, <3>1, Zenon DEF derived_serving_patterns_for_key_schema
  <2>2. \A r \in {NoConfig, s}, d \in BOOLEAN : Pattern(p, r, s, d, NoConfig) \in Ps
    BY <1>3 DEF derived_serving_patterns_for_key_schema
  <2>3. \/ shape = Shape(p \cup {s}, NoConfig, NoConfig, FALSE, IF is_table THEN 1 ELSE 2)
        \/ \E r \in {NoConfig, s}, d \in BOOLEAN : shape = Shape(p, r, s, d, 2)
    <3>1. shape \in {Shape(p \cup {s}, NoConfig, NoConfig, FALSE, IF is_table THEN 1 ELSE 2)}
                      \cup {Shape(p, r, s, d, 2) : r \in {NoConfig, s}, d \in BOOLEAN}
      BY <1>3 DEF RequestShapes
    <3>2. CASE shape \in {Shape(p, r, s, d, 2) : r \in {NoConfig, s}, d \in BOOLEAN}
      <4>1. \E r \in {NoConfig, s}, d \in BOOLEAN : shape = Shape(p, r, s, d, 2)
        BY <3>2
      <4> QED
        BY <4>1, Zenon
    <3> QED
      BY <3>1, <3>2
  <2> DEFINE max == IF is_table THEN 1 ELSE NoConfig
             limit == IF is_table THEN 1 ELSE 2
  <2>4. max = NoConfig \/ limit =< max
    OBVIOUS
  <2> HIDE DEF p, s, Ps, Shape, max, limit
  <2>5. CASE shape = Shape(p \cup {s}, NoConfig, NoConfig, FALSE, limit)
    BY <1>1, <2>1, <2>4, <2>5, Zenon DEF max
  <2>6. ASSUME NEW r \in {NoConfig, s}, NEW d \in BOOLEAN, shape = Shape(p, r, s, d, 2)
        PROVE  Admitted(shape, serving)
    BY <1>1, <2>2, <2>6, Zenon
  <2> QED
    BY <2>3, <2>5, <2>6, Zenon DEF limit
<1> QED
  BY <1>2, <1>3, Zenon

----------------------------------------------------------------------------
(* The steps of the configuration handlers. *)

\* The write of a handler: every kind of PUT keeps the derived patterns with the
\* DynamoDB configuration of the description it read.
LEMMA NewDescriptionIsSound ==
  ASSUME NEW put \in Puts, NEW d, SoundDescription(d)
  PROVE  SoundDescription(NewDescription(put, d))
<1> DEFINE D(s, y, m, r) == [serving |-> s, dynamodb |-> y, mongodb |-> m, redis |-> r]
<1>1. d = D(d.serving, d.dynamodb, d.mongodb, d.redis)
  BY Zenon DEF SoundDescription
<1>2. \A s, y, m, r : LET e == D(s, y, m, r) IN
        e.serving = s /\ e.dynamodb = y /\ e.mongodb = m /\ e.redis = r
  OBVIOUS
<1>3. CASE put.kind = "serving"
  <2>1. NewDescription(put, d) = D(put.body, d.dynamodb, d.mongodb, d.redis)
    BY <1>1, <1>3, Zenon DEF NewDescription
  <2>2. Derived(put.body) = {}
    BY <1>3, PutsAssumption, Zenon DEF Derived
  <2> QED
    BY <1>2, <2>1, <2>2 DEF SoundDescription
<1>4. CASE put.kind = "dynamodb"
  <2> DEFINE merged == merge_dynamodb_serving_patterns(d.serving, put.body)
  <2>1. NewDescription(put, d) = D(merged, put.body, d.mongodb, d.redis)
    BY <1>1, <1>4, Zenon DEF NewDescription
  <2>2. Derived(merged) = derived_dynamodb_serving_patterns(put.body)
    BY DerivedPatterns, Zenon DEF Derived, merge_dynamodb_serving_patterns
  <2>3. put.body # NoConfig
    BY <1>4, PutsAssumption, Zenon
  <2> HIDE DEF merged
  <2> QED
    BY <1>2, <2>1, <2>2, <2>3 DEF SoundDescription
<1>5. CASE put.kind = "mongodb"
  <2>1. NewDescription(put, d) = D(d.serving, d.dynamodb, put.body, d.redis)
    BY <1>1, <1>5, Zenon DEF NewDescription
  <2> QED
    BY <1>2, <2>1 DEF SoundDescription
<1>6. CASE put.kind = "redis"
  <2>1. NewDescription(put, d) = D(d.serving, d.dynamodb, d.mongodb, put.body)
    BY <1>1, <1>6, Zenon DEF NewDescription
  <2> QED
    BY <1>2, <2>1 DEF SoundDescription
<1> QED
  BY <1>3, <1>4, <1>5, <1>6, PutsAssumption, Zenon

\* What the other variables say is about the variables themselves.
ConnectionsSound ==
  /\ connection = [c \in Connections |-> connection[c]]
  /\ binding_cache = [db \in Databases |-> binding_cache[db]]
  /\ active_checkpoint = [t \in ConfigTables |-> active_checkpoint[t]]
  /\ \A db \in Databases : binding_cache[db] # NoConfig => SoundBinding(binding_cache[db], db)
  /\ \A c \in Connections : SoundConnection(connection[c])

AdminsSound ==
  /\ description = [t \in ConfigTables |-> description[t]]
  /\ admin = [a \in Admins |-> admin[a]]
  /\ \A t \in ConfigTables : SoundDescription(description[t])
  /\ \A a \in Admins : SoundAdmin(admin[a])

\* Steps that leave the connections and the caches alone.
LEMMA ConnectionsStay ==
  ASSUME ConnectionsSound, UNCHANGED <<active_checkpoint, binding_cache, connection>>
  PROVE  ConnectionsSound'
BY ZenonT(30) DEF ConnectionsSound, SoundConnection, SoundAt

\* A handler goes on, and may write the description of a table.
LEMMA AdminMoves ==
  ASSUME AdminsSound, NEW a \in Admins, NEW h, SoundAdmin(h),
         admin' = [admin EXCEPT ![a] = h],
         \/ UNCHANGED description
         \/ \E t \in ConfigTables : \E d : SoundDescription(d) /\ description' = [description EXCEPT ![t] = d]
  PROVE  AdminsSound'
<1>1. admin' = [b \in Admins |-> admin'[b]] /\ \A b \in Admins : admin'[b] = IF b = a THEN h ELSE admin[b]
  BY Zenon DEF AdminsSound
<1>2. \A b \in Admins : SoundAdmin(admin'[b])
  BY <1>1, Zenon DEF AdminsSound
<1>3. /\ description' = [t \in ConfigTables |-> description'[t]]
      /\ \A t \in ConfigTables : SoundDescription(description'[t])
  <2>1. CASE UNCHANGED description
    BY <2>1, Zenon DEF AdminsSound
  <2>2. ASSUME NEW t \in ConfigTables, NEW d, SoundDescription(d), description' = [description EXCEPT ![t] = d]
        PROVE  /\ description' = [u \in ConfigTables |-> description'[u]]
               /\ \A u \in ConfigTables : SoundDescription(description'[u])
    <3>1. /\ description' = [u \in ConfigTables |-> description'[u]]
          /\ \A u \in ConfigTables : description'[u] = IF u = t THEN d ELSE description[u]
      BY <2>2, Zenon DEF AdminsSound
    <3> QED
      BY <2>2, <3>1, Zenon DEF AdminsSound
  <2> QED
    BY <2>1, <2>2, Zenon
<1> QED
  BY <1>1, <1>2, <1>3, Zenon DEF AdminsSound, SoundAdmin

\* A request is read and checked against the description it found.
LEMMA AcceptedKeeps ==
  ASSUME AdminsSound, NEW a \in Admins, NEW put \in Puts, Accepted(a, put)
  PROVE  AdminsSound'
<1> DEFINE h == IF ~ConfigIsValid(put) THEN [pc |-> "done"]
                ELSE [pc |-> IF NeedsUniqueness(put) THEN "list" ELSE "upsert", put |-> put,
                      existing |-> description[put.table], unlisted |-> ConfigTables]
<1>1. SoundDescription(description[put.table])
  BY PutsAssumption, Zenon DEF AdminsSound
<1>2. SoundAdmin(h)
  <2>1. CASE ~ConfigIsValid(put)
    BY <2>1, Zenon DEF SoundAdmin
  <2>2. CASE ConfigIsValid(put)
    BY <1>1, <2>2, Zenon DEF SoundAdmin
  <2> QED
    BY <2>1, <2>2, Zenon
<1>3. admin' = [admin EXCEPT ![a] = h] /\ UNCHANGED description
  BY Zenon DEF Accepted
<1> HIDE DEF h
<1>4. \E g : SoundAdmin(g) /\ admin' = [admin EXCEPT ![a] = g]
  BY <1>2, <1>3, Zenon
<1> QED
  BY <1>3, <1>4, AdminMoves, Zenon

\* The listing of the other tables.
LEMMA UniquenessKeeps ==
  ASSUME AdminsSound, NEW a \in Admins, NEW t \in ConfigTables, validate_uniqueness(a, t)
  PROVE  AdminsSound'
<1> DEFINE h == IF Clashes(admin[a].put, t) THEN [pc |-> "done"]
                ELSE [admin[a] EXCEPT !.unlisted = admin[a].unlisted \ {t},
                                      !.pc = IF admin[a].unlisted = {t} THEN "upsert" ELSE "list"]
<1>1. SoundAdmin(admin[a]) /\ admin[a].pc = "list"
  BY Zenon DEF AdminsSound, validate_uniqueness
<1>2. SoundAdmin(h)
  <2>1. CASE Clashes(admin[a].put, t)
    BY <2>1, Zenon DEF SoundAdmin
  <2>2. CASE ~Clashes(admin[a].put, t)
    <3> DEFINE next == IF admin[a].unlisted = {t} THEN "upsert" ELSE "list"
               left == admin[a].unlisted \ {t}
    <3>1. h = [pc |-> next, put |-> admin[a].put, existing |-> admin[a].existing, unlisted |-> left]
      BY <1>1, <2>2, Zenon DEF SoundAdmin
    <3>2. admin[a].put \in Puts /\ SoundDescription(admin[a].existing)
      BY <1>1, Zenon DEF SoundAdmin
    <3> HIDE DEF h, next, left
    <3> QED
      BY <3>1, <3>2, Zenon DEF SoundAdmin
  <2> QED
    BY <2>1, <2>2, Zenon
<1>3. admin' = [admin EXCEPT ![a] = h] /\ UNCHANGED description
  BY Zenon DEF validate_uniqueness
<1> HIDE DEF h
<1>4. \E g : SoundAdmin(g) /\ admin' = [admin EXCEPT ![a] = g]
  BY <1>2, <1>3, Zenon
<1> QED
  BY <1>3, <1>4, AdminMoves, Zenon

\* The whole description is written back, whatever was written since it was read.
LEMMA UpsertKeeps ==
  ASSUME AdminsSound, NEW a \in Admins, upsert_table_metadata(a)
  PROVE  AdminsSound'
<1> DEFINE put == admin[a].put
           d == NewDescription(put, admin[a].existing)
           h == [pc |-> IF put.kind = "redis" THEN "clear" ELSE "done"]
<1>1. put \in Puts /\ SoundDescription(admin[a].existing)
  BY Zenon DEF AdminsSound, SoundAdmin, upsert_table_metadata
<1>2. SoundDescription(d) /\ put.table \in ConfigTables
  BY <1>1, NewDescriptionIsSound, PutsAssumption, Zenon
<1>3. SoundAdmin(h)
  BY Zenon DEF SoundAdmin
<1>4. description' = [description EXCEPT ![put.table] = d] /\ admin' = [admin EXCEPT ![a] = h]
  BY Zenon DEF upsert_table_metadata
<1> HIDE DEF put, d, h
<1>5. \E g : SoundAdmin(g) /\ admin' = [admin EXCEPT ![a] = g]
  BY <1>3, <1>4, Zenon
<1>6. \E t \in ConfigTables : \E e : SoundDescription(e) /\ description' = [description EXCEPT ![t] = e]
  BY <1>2, <1>4, Zenon
<1> QED
  BY <1>5, <1>6, AdminMoves, Zenon

\* A Redis PUT ends by clearing the bindings of all databases.
LEMMA ClearKeeps ==
  ASSUME AdminsSound, ConnectionsSound, NEW a \in Admins, clear_redis_database_binding_cache(a)
  PROVE  AdminsSound' /\ ConnectionsSound'
<1>1. SoundAdmin([pc |-> "done"])
  BY Zenon DEF SoundAdmin
<1>2. AdminsSound'
  BY <1>1, AdminMoves, Zenon DEF clear_redis_database_binding_cache
<1>3. ConnectionsSound'
  BY ZenonT(30) DEF ConnectionsSound, SoundConnection, SoundAt, clear_redis_database_binding_cache
<1> QED
  BY <1>2, <1>3, Zenon

----------------------------------------------------------------------------
(* The steps of the connections. *)

\* What a connection carries, as a record.
Conn(pc, db, cached, since, unlisted, matches) ==
  [pc |-> pc, db |-> db, cached |-> cached, since |-> since, unlisted |-> unlisted, matches |-> matches]

\* When such a record is sound.
LEMMA ConnIsSound ==
  ASSUME NEW pc, NEW db, NEW cached, NEW since, NEW unlisted, NEW matches,
         db \in Databases, since = [t \in ConfigTables |-> since[t]],
         \A t \in ConfigTables : active_checkpoint[t] \in since[t],
         pc = "cached" => SoundBinding(cached, db),
         pc = "bound" => SoundBinding(cached, db) /\ cached.active_checkpoint_id \in since[cached.table],
         pc \in {"list", "resolve"} =>
           \A m \in matches : m[1] \in ConfigTables /\ m[2].enabled /\ m[2].name = db
  PROVE  SoundConnection(Conn(pc, db, cached, since, unlisted, matches))
<1> DEFINE k == Conn(pc, db, cached, since, unlisted, matches)
<1>1. /\ k.pc = pc /\ k.db = db /\ k.cached = cached /\ k.since = since
      /\ k.unlisted = unlisted /\ k.matches = matches
      /\ k = [pc |-> k.pc, db |-> k.db, cached |-> k.cached, since |-> k.since,
              unlisted |-> k.unlisted, matches |-> k.matches]
  BY Zenon DEF Conn
<1> HIDE DEF k
<1> QED
  BY <1>1, Zenon DEF SoundConnection, SoundAt, k

\* A connection goes on, and may leave a binding in the cache.
LEMMA ConnectionMoves ==
  ASSUME ConnectionsSound, NEW c \in Connections, NEW k, SoundConnection(k),
         connection' = [connection EXCEPT ![c] = k], UNCHANGED active_checkpoint,
         \/ UNCHANGED binding_cache
         \/ \E db \in Databases : \E b : SoundBinding(b, db) /\ binding_cache' = [binding_cache EXCEPT ![db] = b]
  PROVE  ConnectionsSound'
<1>1. /\ connection' = [d \in Connections |-> connection'[d]]
      /\ \A d \in Connections : connection'[d] = IF d = c THEN k ELSE connection[d]
  BY Zenon DEF ConnectionsSound
<1>2. ASSUME NEW d \in Connections
      PROVE  SoundConnection(connection[d])'
  <2>1. PICK r : r = connection'[d]
    OBVIOUS
  <2>2. SoundConnection(r)
    BY <1>1, <2>1, Zenon DEF ConnectionsSound
  <2> QED
    BY <2>1, <2>2, Zenon DEF SoundConnection
<1>3. /\ binding_cache' = [db \in Databases |-> binding_cache'[db]]
      /\ \A db \in Databases : binding_cache'[db] # NoConfig => SoundBinding(binding_cache'[db], db)
  <2>1. CASE UNCHANGED binding_cache
    BY <2>1, Zenon DEF ConnectionsSound
  <2>2. ASSUME NEW db \in Databases, NEW b, SoundBinding(b, db),
               binding_cache' = [binding_cache EXCEPT ![db] = b]
        PROVE  /\ binding_cache' = [e \in Databases |-> binding_cache'[e]]
               /\ \A e \in Databases : binding_cache'[e] # NoConfig => SoundBinding(binding_cache'[e], e)
    <3>1. /\ binding_cache' = [e \in Databases |-> binding_cache'[e]]
          /\ \A e \in Databases : binding_cache'[e] = IF e = db THEN b ELSE binding_cache[e]
      BY <2>2, Zenon DEF ConnectionsSound
    <3> QED
      BY <2>2, <3>1, Zenon DEF ConnectionsSound
  <2> QED
    BY <2>1, <2>2, Zenon
<1>4. active_checkpoint' = [t \in ConfigTables |-> active_checkpoint'[t]]
  BY Zenon DEF ConnectionsSound
<1> QED
  BY <1>1, <1>2, <1>3, <1>4, Zenon DEF ConnectionsSound

\* A connection that is done is sound.
LEMMA IdleIsSound == SoundConnection([pc |-> "idle"])
BY Zenon DEF SoundConnection, SoundAt

\* A command looks at the cache first.
LEMMA LoadKeeps ==
  ASSUME ConnectionsSound, NEW c \in Connections, NEW db \in Databases, load_redis_database_binding(c, db)
  PROVE  ConnectionsSound'
<1> DEFINE pc == IF binding_cache[db] # NoConfig THEN "cached" ELSE "list"
           since == [t \in ConfigTables |-> {active_checkpoint[t]}]
           k == Conn(pc, db, binding_cache[db], since, ConfigTables, {})
<1>1. connection' = [connection EXCEPT ![c] = k] /\ UNCHANGED <<active_checkpoint, binding_cache>>
  BY Zenon DEF load_redis_database_binding, Conn
<1>2. /\ since = [t \in ConfigTables |-> since[t]]
      /\ \A t \in ConfigTables : active_checkpoint[t] \in since[t]
  OBVIOUS
<1>3. /\ pc = "cached" => SoundBinding(binding_cache[db], db)
      /\ pc # "bound"
  BY Zenon DEF ConnectionsSound
<1> HIDE DEF pc, since
<1>4. SoundConnection(k)
  BY <1>2, <1>3, ConnIsSound, Zenon
<1> HIDE DEF k
<1>5. \E r : SoundConnection(r) /\ connection' = [connection EXCEPT ![c] = r]
  BY <1>1, <1>4, Zenon
<1> QED
  BY <1>1, <1>5, ConnectionMoves, Zenon

\* A binding that is resolved names the checkpoint that is active now.
LEMMA ResolveKeeps ==
  ASSUME ConnectionsSound, NEW c \in Connections, connection[c].pc # "idle",
         NEW t \in ConfigTables, NEW config, config.enabled, config.name = connection[c].db,
         Resolve(c, resolved_redis_database_binding(t, config, active_checkpoint[t])),
         UNCHANGED active_checkpoint
  PROVE  ConnectionsSound'
<1> DEFINE b == resolved_redis_database_binding(t, config, active_checkpoint[t])
           old == connection[c]
           k == Conn("bound", old.db, b, old.since, old.unlisted, old.matches)
<1>1. b.table = t /\ b.active_checkpoint_id = active_checkpoint[t] /\ SoundBinding(b, old.db)
  BY Zenon DEF resolved_redis_database_binding, SoundBinding
<1>2. SoundConnection(old)
  BY Zenon DEF ConnectionsSound
<1>3. /\ old = Conn(old.pc, old.db, old.cached, old.since, old.unlisted, old.matches)
      /\ old.db \in Databases /\ old.since = [u \in ConfigTables |-> old.since[u]]
      /\ \A u \in ConfigTables : active_checkpoint[u] \in old.since[u]
  BY <1>2, Zenon DEF SoundConnection, SoundAt, Conn
<1> HIDE DEF b, old
<1>4. [old EXCEPT !.pc = "bound", !.cached = b] = k
  <2>1. PICK pc, db, cached, since, unlisted, matches :
          /\ old = Conn(pc, db, cached, since, unlisted, matches)
          /\ k = Conn("bound", db, b, since, unlisted, matches)
    BY <1>3, Zenon
  <2> HIDE DEF k
  <2>2. [old EXCEPT !.pc = "bound"] = Conn("bound", db, cached, since, unlisted, matches)
    BY <2>1 DEF Conn
  <2>3. [Conn("bound", db, cached, since, unlisted, matches) EXCEPT !.cached = b] = k
    BY <2>1 DEF Conn
  <2>4. [old EXCEPT !.pc = "bound", !.cached = b] = [[old EXCEPT !.pc = "bound"] EXCEPT !.cached = b]
    BY <2>1, Zenon DEF Conn
  <2> QED
    BY <2>2, <2>3, <2>4, Zenon
<1>5. connection' = [connection EXCEPT ![c] = k] /\ binding_cache' = [binding_cache EXCEPT ![old.db] = b]
  BY <1>4, Zenon DEF Resolve, b, old
<1>6. SoundConnection(k)
  BY <1>1, <1>3, ConnIsSound, Zenon
<1> HIDE DEF k
<1>7. \E r : SoundConnection(r) /\ connection' = [connection EXCEPT ![c] = r]
  BY <1>5, <1>6, Zenon
<1>8. \E db \in Databases : \E e : SoundBinding(e, db) /\ binding_cache' = [binding_cache EXCEPT ![db] = e]
  BY <1>1, <1>3, <1>5, Zenon
<1> QED
  BY <1>7, <1>8, ConnectionMoves, Zenon

\* A cached binding is used, or resolved again when its checkpoint is not the
\* active one.
LEMMA CachedKeeps ==
  ASSUME ConnectionsSound, NEW c \in Connections, use_cached_binding(c)
  PROVE  ConnectionsSound'
<1> DEFINE old == connection[c]
           b == old.cached
<1>1. SoundConnection(old) /\ old.pc = "cached"
  BY Zenon DEF ConnectionsSound, use_cached_binding
<1>2. SoundBinding(b, old.db) /\ b.table \in ConfigTables /\ b.config.enabled /\ b.config.name = old.db
  BY <1>1, Zenon DEF SoundConnection, SoundAt, SoundBinding
<1>3. CASE active_checkpoint[b.table] = b.active_checkpoint_id
  <2> DEFINE k == Conn("bound", old.db, b, old.since, old.unlisted, old.matches)
  <2>1. /\ old = Conn(old.pc, old.db, b, old.since, old.unlisted, old.matches)
        /\ old.db \in Databases /\ old.since = [u \in ConfigTables |-> old.since[u]]
        /\ \A u \in ConfigTables : active_checkpoint[u] \in old.since[u]
    BY <1>1, Zenon DEF SoundConnection, SoundAt, Conn
  <2>2. [old EXCEPT !.pc = "bound"] = k
    BY <2>1 DEF Conn
  <2>3. connection' = [connection EXCEPT ![c].pc = "bound"]
    BY <1>3, Zenon DEF use_cached_binding
  <2>4. connection' = [connection EXCEPT ![c] = k]
    BY <2>2, <2>3, Zenon
  <2>5. UNCHANGED <<active_checkpoint, binding_cache>>
    BY <1>3, Zenon DEF use_cached_binding
  <2>6. b.active_checkpoint_id \in old.since[b.table]
    BY <1>2, <1>3, <2>1, Zenon
  <2> HIDE DEF b, old
  <2>7. SoundConnection(k)
    BY <1>2, <2>1, <2>6, ConnIsSound, Zenon
  <2> HIDE DEF k
  <2>8. \E r : SoundConnection(r) /\ connection' = [connection EXCEPT ![c] = r]
    BY <2>4, <2>7, Zenon
  <2> QED
    BY <2>5, <2>8, ConnectionMoves, Zenon
<1>4. CASE active_checkpoint[b.table] # b.active_checkpoint_id
  <2>1. PICK t, config : t \in ConfigTables /\ t = b.table /\ config = b.config
    BY <1>2, Zenon
  <2>2. Resolve(c, resolved_redis_database_binding(t, config, active_checkpoint[t]))
    BY <1>4, <2>1, Zenon DEF use_cached_binding
  <2>3. UNCHANGED active_checkpoint
    BY Zenon DEF use_cached_binding
  <2>4. /\ t \in ConfigTables /\ config.enabled
        /\ config.name = connection[c].db /\ connection[c].pc # "idle"
    BY <1>1, <1>2, <2>1, Zenon
  <2> HIDE DEF b, old
  <2> QED
    BY <2>2, <2>3, <2>4, ResolveKeeps, Zenon
<1> QED
  BY <1>3, <1>4, Zenon

\* One table is described; a match is an enabled configuration for the database.
LEMMA ListKeeps ==
  ASSUME ConnectionsSound, NEW c \in Connections, NEW t \in ConfigTables, list_redis_bindings(c, t)
  PROVE  ConnectionsSound'
<1> DEFINE old == connection[c]
           config == description[t].redis
           hit == config # NoConfig /\ config.enabled /\ config.name = old.db
           left == old.unlisted \ {t}
           found == IF hit THEN old.matches \cup {<<t, config>>} ELSE old.matches
           pc == IF old.unlisted = {t} THEN "resolve" ELSE "list"
           k == Conn(pc, old.db, old.cached, old.since, left, found)
<1>1. SoundConnection(old) /\ old.pc = "list"
  BY Zenon DEF ConnectionsSound, list_redis_bindings
<1>2. /\ old = Conn(old.pc, old.db, old.cached, old.since, old.unlisted, old.matches)
      /\ old.db \in Databases /\ old.since = [u \in ConfigTables |-> old.since[u]]
      /\ \A u \in ConfigTables : active_checkpoint[u] \in old.since[u]
      /\ \A m \in old.matches : m[1] \in ConfigTables /\ m[2].enabled /\ m[2].name = old.db
  BY <1>1, Zenon DEF SoundConnection, SoundAt, Conn
<1>3. \A m \in found : m[1] \in ConfigTables /\ m[2].enabled /\ m[2].name = old.db
  <2> SUFFICES ASSUME NEW m \in found
               PROVE  m[1] \in ConfigTables /\ m[2].enabled /\ m[2].name = old.db
    OBVIOUS
  <2>1. m \in old.matches \/ (hit /\ m = <<t, config>>)
    OBVIOUS
  <2>2. CASE m \in old.matches
    BY <1>2, <2>2, Zenon
  <2>3. CASE hit /\ m = <<t, config>>
    <3>1. m[1] = t /\ m[2] = config
      BY <2>3, Zenon
    <3> QED
      BY <2>3, <3>1, Zenon
  <2> QED
    BY <2>1, <2>2, <2>3, Zenon
<1>4. connection' = [connection EXCEPT ![c] = [old EXCEPT !.unlisted = left, !.matches = found, !.pc = pc]]
  BY Zenon DEF list_redis_bindings
<1>5. UNCHANGED <<active_checkpoint, binding_cache>>
  BY Zenon DEF list_redis_bindings
<1>6. pc \notin {"cached", "bound"}
  OBVIOUS
<1> HIDE DEF left, found, pc, old
<1>7. [old EXCEPT !.unlisted = left, !.matches = found, !.pc = pc] = k
  <2> DEFINE pc0 == old.pc
             db == old.db
             cached == old.cached
             since == old.since
             unlisted == old.unlisted
             matches == old.matches
  <2>1. /\ old = Conn(pc0, db, cached, since, unlisted, matches)
        /\ k = Conn(pc, db, cached, since, left, found)
    <3> HIDE DEF k
    <3>1. old = Conn(pc0, db, cached, since, unlisted, matches)
      BY <1>2, Zenon
    <3> QED
      BY <3>1, Zenon DEF k
  <2> HIDE DEF k, pc0, db, cached, since, unlisted, matches
  <2>2. [old EXCEPT !.unlisted = left] = Conn(pc0, db, cached, since, left, matches)
    BY <2>1 DEF Conn
  <2>3. [Conn(pc0, db, cached, since, left, matches) EXCEPT !.matches = found]
          = Conn(pc0, db, cached, since, left, found)
    BY DEF Conn
  <2>4. [Conn(pc0, db, cached, since, left, found) EXCEPT !.pc = pc] = k
    BY <2>1 DEF Conn
  <2>5. [old EXCEPT !.unlisted = left, !.matches = found, !.pc = pc]
          = [[[old EXCEPT !.unlisted = left] EXCEPT !.matches = found] EXCEPT !.pc = pc]
    BY <2>1, Zenon DEF Conn
  <2> QED
    BY <2>2, <2>3, <2>4, <2>5, Zenon
<1>8. SoundConnection(k)
  BY <1>2, <1>3, <1>6, ConnIsSound, Zenon
<1> HIDE DEF k
<1>9. \E r : SoundConnection(r) /\ connection' = [connection EXCEPT ![c] = r]
  BY <1>4, <1>7, <1>8, Zenon
<1> QED
  BY <1>5, <1>9, ConnectionMoves, Zenon

\* The only match is resolved; otherwise the command fails.
LEMMA RefreshKeeps ==
  ASSUME ConnectionsSound, NEW c \in Connections, refresh_redis_database_binding(c)
  PROVE  ConnectionsSound'
<1>1. SoundConnection(connection[c]) /\ connection[c].pc = "resolve" /\ UNCHANGED active_checkpoint
  BY Zenon DEF ConnectionsSound, refresh_redis_database_binding
<1>2. CASE Cardinality(connection[c].matches) = 1
  <2>1. PICK m \in connection[c].matches :
          Resolve(c, resolved_redis_database_binding(m[1], m[2], active_checkpoint[m[1]]))
    BY <1>2, Zenon DEF refresh_redis_database_binding
  <2>2. m[1] \in ConfigTables /\ m[2].enabled /\ m[2].name = connection[c].db /\ connection[c].pc # "idle"
    BY <1>1, Zenon DEF SoundConnection, SoundAt
  <2> QED
    BY <1>1, <2>1, <2>2, ResolveKeeps, Zenon
<1>3. CASE Cardinality(connection[c].matches) # 1
  BY <1>1, <1>3, IdleIsSound, ConnectionMoves, Zenon DEF refresh_redis_database_binding
<1> QED
  BY <1>2, <1>3, Zenon

\* The command is over.
LEMMA UnboundKeeps ==
  ASSUME ConnectionsSound, NEW c \in Connections, release_binding(c)
  PROVE  ConnectionsSound'
BY IdleIsSound, ConnectionMoves, Zenon DEF release_binding

\* A cutover: the new checkpoint is one that was active during every command that
\* runs, and the bindings stay to the checkpoints they name.
LEMMA CutOverKeeps ==
  ASSUME ConnectionsSound, NEW t \in ConfigTables, cut_over(t)
  PROVE  ConnectionsSound'
<1> DEFINE n == active_checkpoint[t] + 1
<1>1. /\ active_checkpoint' = [u \in ConfigTables |-> active_checkpoint'[u]]
      /\ \A u \in ConfigTables : active_checkpoint'[u] = IF u = t THEN n ELSE active_checkpoint[u]
  BY Zenon DEF ConnectionsSound, cut_over
<1>2. /\ connection' = [c \in Connections |-> connection'[c]]
      /\ \A c \in Connections : connection'[c] =
           IF connection[c].pc = "idle" THEN connection[c]
           ELSE [connection[c] EXCEPT !.since[t] = connection[c].since[t] \cup {n}]
  BY Zenon DEF cut_over
<1>3. ASSUME NEW c \in Connections
      PROVE  SoundConnection(connection[c])'
  <2>1. CASE connection[c].pc = "idle"
    BY <1>2, <2>1, Zenon DEF SoundConnection, SoundAt
  <2>2. CASE connection[c].pc # "idle"
    <3> DEFINE old == connection[c]
               new == connection'[c]
               since == [u \in ConfigTables |-> IF u = t THEN old.since[t] \cup {n} ELSE old.since[u]]
    <3>1. SoundConnection(old)
      BY Zenon DEF ConnectionsSound
    <3>2. /\ old = Conn(old.pc, old.db, old.cached, old.since, old.unlisted, old.matches)
          /\ old.since = [u \in ConfigTables |-> old.since[u]]
      BY <2>2, <3>1, Zenon DEF SoundConnection, SoundAt, Conn
    <3>3. [old.since EXCEPT ![t] = old.since[t] \cup {n}] = since
      BY <3>2, Zenon
    <3>4. new = [old EXCEPT !.since = since]
      BY <1>2, <2>2, <3>3, Zenon
    <3>5. PICK pc, db, cached, since0, unlisted, matches :
            /\ old = Conn(pc, db, cached, since0, unlisted, matches)
            /\ pc = old.pc /\ db = old.db /\ cached = old.cached /\ since0 = old.since
            /\ unlisted = old.unlisted /\ matches = old.matches
      BY <3>2, Zenon
    <3>6. PICK s : s = since
      OBVIOUS
    <3>7. new = Conn(pc, db, cached, s, unlisted, matches)
      BY <3>4, <3>5, <3>6, Zenon DEF Conn
    <3>8. /\ s = [u \in ConfigTables |-> s[u]]
          /\ \A u \in ConfigTables : old.since[u] \subseteq s[u] /\ active_checkpoint'[u] \in s[u]
      BY <1>1, <2>2, <3>1, <3>6, Zenon DEF SoundConnection, SoundAt
    <3>9. /\ db \in Databases
          /\ pc = "cached" => SoundBinding(cached, db)
          /\ pc = "bound" => SoundBinding(cached, db) /\ cached.active_checkpoint_id \in s[cached.table]
          /\ pc \in {"list", "resolve"} =>
               \A m \in matches : m[1] \in ConfigTables /\ m[2].enabled /\ m[2].name = db
      <4>1. /\ db \in Databases
            /\ pc = "cached" => SoundBinding(cached, db)
            /\ pc = "bound" => SoundBinding(cached, db) /\ cached.active_checkpoint_id \in since0[cached.table]
            /\ pc \in {"list", "resolve"} =>
                 \A m \in matches : m[1] \in ConfigTables /\ m[2].enabled /\ m[2].name = db
        BY <2>2, <3>1, <3>5, Zenon DEF SoundConnection, SoundAt
      <4>2. pc = "bound" => cached.table \in ConfigTables
        BY <4>1, Zenon DEF SoundBinding
      <4>3. pc = "bound" => cached.active_checkpoint_id \in s[cached.table]
        BY <3>5, <3>8, <4>1, <4>2, Zenon
      <4> QED
        BY <4>1, <4>3, Zenon
    <3>10. /\ new.pc = pc /\ new.db = db /\ new.cached = cached /\ new.since = s
           /\ new.unlisted = unlisted /\ new.matches = matches
           /\ new = [pc |-> new.pc, db |-> new.db, cached |-> new.cached, since |-> new.since,
                     unlisted |-> new.unlisted, matches |-> new.matches]
      BY <3>7 DEF Conn
    <3> HIDE DEF old, new, since
    <3> QED
      BY <3>8, <3>9, <3>10, Zenon DEF SoundConnection, SoundAt, new
  <2> QED
    BY <2>1, <2>2, Zenon
<1>4. /\ binding_cache' = [db \in Databases |-> binding_cache'[db]]
      /\ \A db \in Databases : binding_cache'[db] # NoConfig => SoundBinding(binding_cache'[db], db)
  BY Zenon DEF ConnectionsSound, cut_over
<1> QED
  BY <1>1, <1>2, <1>3, <1>4, Zenon DEF ConnectionsSound

----------------------------------------------------------------------------
(* The configurations and bindings as a whole. *)

\* Init: nothing is configured and nothing is bound.
LEMMA ConfigStarts == ConfigInit => AdminsSound /\ ConnectionsSound
<1> SUFFICES ASSUME ConfigInit PROVE AdminsSound /\ ConnectionsSound
  OBVIOUS
<1>1. \A t \in ConfigTables : SoundDescription(description[t])
  BY Zenon DEF ConfigInit, SoundDescription, Derived
<1>2. \A a \in Admins : SoundAdmin(admin[a])
  BY Zenon DEF ConfigInit, SoundAdmin
<1>3. AdminsSound
  BY <1>1, <1>2, Zenon DEF ConfigInit, AdminsSound
<1>4. ConnectionsSound
  BY Zenon DEF ConfigInit, ConnectionsSound, SoundConnection, SoundAt
<1> QED
  BY <1>3, <1>4, Zenon

\* Steps that leave the descriptions and their handlers alone.
LEMMA AdminsStay ==
  ASSUME AdminsSound, UNCHANGED <<description, admin>>
  PROVE  AdminsSound'
BY Zenon DEF AdminsSound

\* Every step of a handler, of a connection and of the node keeps both.
LEMMA ConfigStep ==
  ASSUME AdminsSound, ConnectionsSound, [ConfigNext]_configVars
  PROVE  AdminsSound' /\ ConnectionsSound'
<1>1. ASSUME NEW a \in Admins, NEW put \in Puts, Accepted(a, put)
      PROVE  AdminsSound' /\ ConnectionsSound'
  BY <1>1, AcceptedKeeps, ConnectionsStay, Zenon DEF Accepted
<1>2. ASSUME NEW a \in Admins, NEW t \in ConfigTables, validate_uniqueness(a, t)
      PROVE  AdminsSound' /\ ConnectionsSound'
  BY <1>2, UniquenessKeeps, ConnectionsStay, Zenon DEF validate_uniqueness
<1>3. ASSUME NEW a \in Admins, upsert_table_metadata(a)
      PROVE  AdminsSound' /\ ConnectionsSound'
  BY <1>3, UpsertKeeps, ConnectionsStay, Zenon DEF upsert_table_metadata
<1>4. ASSUME NEW a \in Admins, clear_redis_database_binding_cache(a)
      PROVE  AdminsSound' /\ ConnectionsSound'
  BY <1>4, ClearKeeps, Zenon
<1>5. ASSUME NEW c \in Connections, NEW db \in Databases, load_redis_database_binding(c, db)
      PROVE  AdminsSound' /\ ConnectionsSound'
  BY <1>5, LoadKeeps, AdminsStay, Zenon DEF load_redis_database_binding
<1>6. ASSUME NEW c \in Connections, use_cached_binding(c)
      PROVE  AdminsSound' /\ ConnectionsSound'
  BY <1>6, CachedKeeps, AdminsStay, Zenon DEF use_cached_binding
<1>7. ASSUME NEW c \in Connections, NEW t \in ConfigTables, list_redis_bindings(c, t)
      PROVE  AdminsSound' /\ ConnectionsSound'
  BY <1>7, ListKeeps, AdminsStay, Zenon DEF list_redis_bindings
<1>8. ASSUME NEW c \in Connections, refresh_redis_database_binding(c)
      PROVE  AdminsSound' /\ ConnectionsSound'
  BY <1>8, RefreshKeeps, AdminsStay, Zenon DEF refresh_redis_database_binding
<1>9. ASSUME NEW c \in Connections, release_binding(c)
      PROVE  AdminsSound' /\ ConnectionsSound'
  BY <1>9, UnboundKeeps, AdminsStay, Zenon DEF release_binding
<1>10. ASSUME NEW t \in ConfigTables, cut_over(t)
       PROVE  AdminsSound' /\ ConnectionsSound'
  BY <1>10, CutOverKeeps, AdminsStay, Zenon DEF cut_over
<1>11. CASE UNCHANGED configVars
  BY <1>11, AdminsStay, ConnectionsStay, Zenon DEF configVars
<1> QED
  BY <1>1, <1>2, <1>3, <1>4, <1>5, <1>6, <1>7, <1>8, <1>9, <1>10, <1>11
  DEF ConfigNext, put_serving_config, put_dynamodb_config, put_mongodb_config, put_redis_config

\* A sound description with derived patterns admits what the table and its sorted
\* indexes are asked.
LEMMA SoundDescriptionsAdmit == AdminsSound => QueriesAreAdmitted
<1> SUFFICES ASSUME AdminsSound, NEW t \in ConfigTables, Derived(description[t].serving) # {}
             PROVE  LET d == description[t] IN
               /\ d.dynamodb # NoConfig
               /\ Derived(d.serving) = derived_dynamodb_serving_patterns(d.dynamodb)
               /\ \A shape \in RequestShapes(primary_key_schema(d.dynamodb), TRUE) : Admitted(shape, d.serving)
               /\ \A i \in {j \in IndexSchemas(d.dynamodb) : j.sort_key # NoConfig} :
                     \A shape \in RequestShapes(i, FALSE) : Admitted(shape, d.serving)
  BY Zenon DEF QueriesAreAdmitted, Derived
<1> DEFINE config == description[t].dynamodb
           serving == description[t].serving
<1>1. config # NoConfig /\ Derived(serving) = derived_dynamodb_serving_patterns(config)
  BY Zenon DEF AdminsSound, SoundDescription
<1>2. derived_dynamodb_serving_patterns(config) \subseteq serving
  BY <1>1, Zenon DEF Derived
<1>3. derived_serving_patterns_for_key_schema(primary_key_schema(config), TRUE) \subseteq serving
  BY <1>2, Zenon DEF derived_dynamodb_serving_patterns
<1>4. \A i \in IndexSchemas(config) : derived_serving_patterns_for_key_schema(i, FALSE) \subseteq serving
  BY <1>2, Zenon DEF derived_dynamodb_serving_patterns
<1> HIDE DEF config, serving
<1>5. \A shape \in RequestShapes(primary_key_schema(config), TRUE) : Admitted(shape, serving)
  BY <1>3, PatternsAdmit, Zenon
<1>6. \A i \in {j \in IndexSchemas(config) : j.sort_key # NoConfig} :
        \A shape \in RequestShapes(i, FALSE) : Admitted(shape, serving)
  BY <1>4, PatternsAdmit, Zenon
<1> QED
  BY <1>1, <1>5, <1>6, Zenon DEF config, serving

\* A sound connection that is bound knows the columns of a checkpoint that was
\* active while its command ran.
LEMMA SoundConnectionsAreFresh == ConnectionsSound => BoundFieldsAreFresh
BY Zenon DEF ConnectionsSound, SoundConnection, SoundAt, SoundBinding, BoundFieldsAreFresh

\* However PUTs of the four kinds interleave, and however Redis bindings are cached,
\* resolved again and cleared while tables cut over, the derived serving patterns of
\* a table fit its DynamoDB configuration (put_dynamodb_config) and a bound
\* connection knows columns that are current (refresh_redis_database_binding).
THEOREM BindingsStayCurrent == ConfigSpec => []BindingsAreCurrent
<1>1. AdminsSound /\ ConnectionsSound => BindingsAreCurrent
  BY SoundDescriptionsAdmit, SoundConnectionsAreFresh, Zenon DEF BindingsAreCurrent
<1> QED
  BY <1>1, ConfigStarts, ConfigStep, PTL DEF ConfigSpec

=============================================================================
