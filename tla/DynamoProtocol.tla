--------------------------- MODULE DynamoProtocol ---------------------------
(***************************************************************************)
(* Tables exposed through the DynamoDB protocol (query_server,             *)
(* dynamodb_protocol.rs).  A write loads every row of the latest           *)
(* checkpoint, evaluates its condition, rewrites the rows and publishes    *)
(* them as a new checkpoint; nothing ties the publication to the           *)
(* checkpoint that was read.  Query and Scan return one page at a time     *)
(* and the client passes the last key back.                                *)
(***************************************************************************)
EXTENDS DynamoItems, Sequences

CONSTANTS
    Tables,          \* names of the exposed tables
    Writers, Readers,\* client connections
    WriteRequests,   \* write requests a client may send
    ReadRequests,    \* Query and Scan requests a client may send
    InitialRows,     \* what the tables may start from: rows per table
    PrimaryKey,      \* primary_key_schema: [partition_key, sort_key]
    MAX_BATCH_WRITES,\* 25 in the code
    DEFAULT_QUERY_LIMIT,
    MaxCheckpoints   \* bound on the checkpoints of a table

(* A request is finite and, but for a batch, has one operation. *)
ASSUME RequestAssumption ==
    \A req \in WriteRequests : \A i \in DOMAIN req.todo :
        Cardinality(req.todo[i].ops) \in Nat /\ (req.type # "batch" => Cardinality(req.todo[i].ops) = 1)

KeyFields(schema) == {schema.partition_key, schema.sort_key} \ {JsonNull}
ItemKey(row) == [f \in KeyFields(PrimaryKey) |-> row[f]]

(* The key columns are there, with values of the keys' type. *)
CarriesKey(row) ==
    /\ KeyFields(PrimaryKey) \subseteq DOMAIN row /\ row = [f \in DOMAIN row |-> row[f]]
    /\ \A f \in KeyFields(PrimaryKey) : ValueType(row[f]) = "N"

(* What is written to one table by one request. *)
WorkItems == UNION {{req.todo[i] : i \in DOMAIN req.todo} : req \in WriteRequests}

(* parse_item_key_map and parse_key_map refuse a request without the key,  *)
(* or with more than the key where a key is asked for.  That a key value   *)
(* has the type of its column is left to the client.                       *)
ASSUME WritesAssumption ==
    /\ \A req \in WriteRequests : req.todo \in Seq(WorkItems)
    /\ \A work \in WorkItems : work.table \in Tables /\ \A op \in work.ops :
          \/ op.type = "put" /\ CarriesKey(op.item)
          \/ op.type \in {"update", "delete"} /\ CarriesKey(op.key) /\ DOMAIN op.key = KeyFields(PrimaryKey)

(* A table that is exposed has rows with the key columns and no key twice. *)
ASSUME RowsAssumption ==
    \A rows \in InitialRows, t \in Tables :
        /\ rows[t] # {} /\ \A r \in rows[t] : CarriesKey(r)
        /\ \A a, b \in rows[t] : ItemKey(a) = ItemKey(b) => a = b

VARIABLES
    checkpoints,     \* per table, the published checkpoints; the last is latest and active
    writer,          \* per writing client, the state of its handler
    reader           \* per reading client, the state of its paged read

dynamoVars == <<checkpoints, writer, reader>>

latest(t) == Len(checkpoints[t])
Active(t) == checkpoints[t][latest(t)]

(* Nulls are not attributes of an item. *)
json_row_to_dynamodb_item(row) ==
    LET visible == {f \in DOMAIN row : row[f] # JsonNull} IN [f \in visible |-> row[f]]

Items(rows) == {json_row_to_dynamodb_item(r) : r \in rows}
-----------------------------------------------------------------------------
(* Paged reads.  A request names its target index (the table itself is    *)
(* the index on the primary key), its direction, page limit, filter and,   *)
(* for Query, a partition value and bounds on the sort key.                *)

IsTable(req) == req.index = PrimaryKey

(* query_target gives the table unique lookups; validate_consistent_read. *)
page_limit(req) == IF req.limit = JsonNull THEN DEFAULT_QUERY_LIMIT ELSE IF req.limit < 1 THEN 1 ELSE req.limit

Bounds == [eq |-> JsonNull, gt |-> JsonNull, gte |-> JsonNull, lt |-> JsonNull, lte |-> JsonNull]

IsScalar(v) == v # JsonNull /\ v[1] = "N"

Greater(a, b) == IsScalar(a) /\ IsScalar(b) /\ a[2] > b[2]

SatisfiesBounds(v, b) ==
    /\ b.eq # JsonNull => v = b.eq
    /\ b.gt # JsonNull => Greater(v, b.gt)
    /\ b.gte # JsonNull => v = b.gte \/ Greater(v, b.gte)
    /\ b.lt # JsonNull => Greater(b.lt, v)
    /\ b.lte # JsonNull => v = b.lte \/ Greater(b.lte, v)

tighten_lower_bound(b, candidate) ==
    CASE b.gt # JsonNull /\ ~Greater(candidate, b.gt) -> b
      [] b.gte # JsonNull /\ Greater(b.gte, candidate) -> [b EXCEPT !.gt = b.gte, !.gte = JsonNull]
      [] OTHER -> [b EXCEPT !.gt = candidate, !.gte = JsonNull]

tighten_upper_bound(b, candidate) ==
    CASE b.lt # JsonNull /\ ~Greater(b.lt, candidate) -> b
      [] b.lte # JsonNull /\ Greater(candidate, b.lte) -> [b EXCEPT !.lt = b.lte, !.lte = JsonNull]
      [] OTHER -> [b EXCEPT !.lt = candidate, !.lte = JsonNull]

(* Only the sort key of the target moves the page; an index without one   *)
(* is not moved at all.                                                    *)
apply_exclusive_start_key(req, start) ==
    LET v == start[req.index.sort_key]
    IN  CASE req.index.sort_key = JsonNull -> req.bounds
          [] req.bounds.eq # JsonNull ->
                IF req.bounds.eq = v THEN [Bounds EXCEPT !.gt = v, !.lt = v] ELSE req.bounds
          [] req.ascending -> tighten_lower_bound(req.bounds, v)
          [] OTHER -> tighten_upper_bound(req.bounds, v)

(* A slip: no row beyond the page is fetched. *)
WithoutLookAhead(req) == page_limit(req)

query_fetch_limit(req) ==
    IF IsTable(req) /\ (req.bounds.eq # JsonNull \/ req.index.sort_key = JsonNull)
    THEN 1 ELSE page_limit(req) + 1

ordered_key_fields(req) ==
    LET Fields(schema) == SelectSeq(<<schema.partition_key, schema.sort_key>>, LAMBDA f : f # JsonNull)
        target == Fields(req.index)
    IN  target \o SelectSeq(Fields(PrimaryKey), LAMBDA f : \A i \in DOMAIN target : target[i] # f)

scan_start_key_clause(req, start, row) ==
    LET fields == ordered_key_fields(req)
    IN  \E i \in DOMAIN fields :
            /\ Greater(row[fields[i]], start[fields[i]])
            /\ \A j \in 1..(i - 1) : row[fields[j]] = start[fields[j]]

(* The rows a page is cut from. *)
Candidates(req, start, rows) ==
    IF req.op = "Scan" THEN {r \in rows : start = JsonNull \/ scan_start_key_clause(req, start, r)}
    ELSE LET bounds == IF start = JsonNull THEN req.bounds ELSE apply_exclusive_start_key(req, start)
         IN  {r \in rows : /\ r[req.index.partition_key] = req.partition
                           /\ req.index.sort_key = JsonNull
                              \/ SatisfiesBounds(r[req.index.sort_key], bounds)}

(* Nulls sort last when ascending; rows that compare equal come in any    *)
(* order.                                                                  *)
Rank(v) == IF IsScalar(v) THEN v[2] ELSE I64_SPAN

compare_scan_rows(req, a, b) ==
    LET fields == ordered_key_fields(req)
    IN  \E i \in DOMAIN fields :
            /\ Rank(a[fields[i]]) < Rank(b[fields[i]])
            /\ \A j \in 1..(i - 1) : Rank(a[fields[j]]) = Rank(b[fields[j]])

Before(req, a, b) ==
    CASE req.op = "Scan" -> compare_scan_rows(req, a, b)
      [] req.bounds.eq # JsonNull \/ req.index.sort_key = JsonNull -> FALSE
      [] req.ascending -> Rank(a[req.index.sort_key]) < Rank(b[req.index.sort_key])
      [] OTHER -> Rank(a[req.index.sort_key]) > Rank(b[req.index.sort_key])

FirstRows(req, rows, n) ==
    {page \in SUBSET rows :
        /\ Cardinality(page) = IF Cardinality(rows) < n THEN Cardinality(rows) ELSE n
        /\ \A a \in page, b \in rows \ page : ~Before(req, b, a)}

row_to_key(req, row) ==
    [f \in KeyFields(req.index) \cup KeyFields(PrimaryKey) |-> row[f]]

FetchLimit(req) == IF req.op = "Scan" THEN page_limit(req) + 1 ELSE query_fetch_limit(req)

(* Query also hands out a key when an index page is exactly full. *)
HasMore(req, fetched) ==
    \/ Cardinality(fetched) > page_limit(req)
    \/ /\ req.op = "Query" /\ ~IsTable(req) /\ req.bounds.eq = JsonNull
       /\ Cardinality(fetched) = page_limit(req)

apply_filter_expression(req, rows) == {r \in rows : evaluate_filter_node(r, req.filter)}

Matching(req, rows) == Items(apply_filter_expression(req, Candidates(req, JsonNull, rows)))

(* A column that the last write dropped from the schema cannot be read. *)
ReadableKeys(req) == KeyFields(req.index) \subseteq DOMAIN Active(req.table).schema

begin_read(r, req) ==
    /\ reader[r].pc = "idle"
    /\ ReadableKeys(req)
    /\ reader' = [reader EXCEPT ![r] =
          [pc |-> "paging", req |-> req, start |-> JsonNull, seen |-> {}, twice |-> FALSE,
           stable |-> Matching(req, Active(req.table).rows)]]
    /\ UNCHANGED <<checkpoints, writer>>

read_fails(r) ==
    /\ reader[r].pc = "paging" /\ ~ReadableKeys(reader[r].req)
    /\ reader' = [reader EXCEPT ![r] = [pc |-> "idle"]]
    /\ UNCHANGED <<checkpoints, writer>>

(* One page of the active checkpoint. *)
Page(r) ==
    /\ reader[r].pc = "paging"
    /\ ReadableKeys(reader[r].req)
    /\ LET req  == reader[r].req
           rows == Candidates(req, reader[r].start, Active(req.table).rows)
       IN  \E fetched \in FirstRows(req, rows, FetchLimit(req)) :
           \E page \in FirstRows(req, fetched, page_limit(req)) :
             LET returned == {ItemKey(row) : row \in apply_filter_expression(req, page)}
                 read == [reader[r] EXCEPT !.seen = @ \cup returned,
                                           !.twice = @ \/ returned \cap reader[r].seen # {}]
             IN  IF HasMore(req, fetched)
                 THEN \E last \in page :
                        /\ \A row \in page : ~Before(req, last, row)
                        /\ reader' = [reader EXCEPT ![r] = [read EXCEPT !.start = row_to_key(req, last)]]
                 ELSE reader' = [reader EXCEPT ![r] =
                        [pc |-> "done", index |-> req.index, twice |-> read.twice,
                         missed |-> {ItemKey(item) : item \in read.stable} \ read.seen]]
    /\ UNCHANGED <<checkpoints, writer>>

handle_query(r) == reader[r].pc = "paging" /\ reader[r].req.op = "Query" /\ Page(r)
handle_scan(r) == reader[r].pc = "paging" /\ reader[r].req.op = "Scan" /\ Page(r)
-----------------------------------------------------------------------------
(* Writes.  A request lists, per table, a set of operations; all but a    *)
(* batch have one operation and a condition.                               *)

OpKey(op) == IF op.type = "put" THEN ItemKey(op.item) ELSE op.key

Operations(req) == UNION {req.todo[i].ops : i \in DOMAIN req.todo}

OpIsValid(op, schema) ==
    CASE op.type = "put" -> validate_put_item_fields(schema, op.item)
      [] op.type = "update" -> UpdateIsValid(schema, KeyFields(PrimaryKey), op.actions)
      [] op.type = "delete" -> TRUE

(* Every table of a batch is validated, against its active schema, before *)
(* the first one is written.                                               *)
RequestIsValid(req) ==
    /\ req.todo # <<>> /\ Cardinality(Operations(req)) =< MAX_BATCH_WRITES
    /\ \A i \in DOMAIN req.todo :
          /\ req.todo[i].ops # {}
          /\ \A op \in req.todo[i].ops : OpIsValid(op, Active(req.todo[i].table).schema)
          /\ \A a, b \in req.todo[i].ops : OpKey(a) = OpKey(b) => a = b

Existing(rows, key) == {r \in rows : ItemKey(r) = key}

(* A slip: an update keeps the row it read beside the row it writes. *)
KeepsOldRow(rows, op) == IF op.type = "update" THEN rows ELSE rows \ Existing(rows, OpKey(op))

split_rows_by_key(rows, op) == rows \ Existing(rows, OpKey(op))

Written(rows, op) ==
    CASE op.type = "put" -> {op.item}
      [] op.type = "update" -> {apply_update_expression(Existing(rows, op.key), op.key, op.actions)}
      [] op.type = "delete" -> {}

(* The keys of one request differ, so its operations commute. *)
Rewrite(rows, ops) ==
    {r \in rows : \A op \in ops : r \in split_rows_by_key(rows, op)}
        \cup UNION {Written(rows, op) : op \in ops}

ConditionHolds(rows, req, ops) ==
    req.type = "batch" \/ \A op \in ops : condition_matches(Existing(rows, OpKey(op)), req.condition)

UpdateIsRefused(rows, op) ==
    op.type = "update" /\ \E a \in op.actions, item \in Existing(rows, op.key) : UpdateFails(item, a)

Changes(rows, ops) == \E op \in ops : op.type # "delete" \/ Existing(rows, OpKey(op)) # {}

(* A refused, failed or finished request leaves its handler idle. *)
IdleHandler == [pc |-> "idle"]

(* Parsing and validation, before anything is read. *)
Accept(w, req) ==
    /\ writer[w].pc = "idle"
    /\ \A i \in DOMAIN req.todo : latest(req.todo[i].table) < MaxCheckpoints
    /\ writer' = [writer EXCEPT ![w] =
          IF RequestIsValid(req) THEN [pc |-> "load", req |-> req, todo |-> req.todo]
          ELSE IdleHandler]
    /\ UNCHANGED <<checkpoints, reader>>

handle_put_item(w, req) == req.type = "put" /\ Accept(w, req)
handle_update_item(w, req) == req.type = "update" /\ Accept(w, req)
handle_delete_item(w, req) == req.type = "delete" /\ Accept(w, req)
handle_batch_write_item(w, req) == req.type = "batch" /\ Accept(w, req)

Continue(w) ==
    IF Len(writer[w].todo) = 1 THEN IdleHandler
    ELSE [pc |-> "load", req |-> writer[w].req, todo |-> Tail(writer[w].todo)]

(* The rows of the latest checkpoint are read, the condition is evaluated *)
(* and the rows are rewritten in memory.                                   *)
load_mutable_table_rows(w) ==
    /\ writer[w].pc = "load"
    /\ LET t    == Head(writer[w].todo).table
           ops  == Head(writer[w].todo).ops
           rows == Active(t).rows
           mine == writer[w]
           refused == ~ConditionHolds(rows, mine.req, ops) \/ \E op \in ops : UpdateIsRefused(rows, op)
       IN  writer' = [writer EXCEPT ![w] =
              CASE refused -> IdleHandler
                [] ~refused /\ ~Changes(rows, ops) -> Continue(w)
                [] ~refused /\ Changes(rows, ops) ->
                     [pc |-> "publish", req |-> mine.req, todo |-> mine.todo,
                      base |-> latest(t), rows |-> Rewrite(rows, ops)]]
    /\ UNCHANGED <<checkpoints, reader>>

(* What an unfinished read still owes its client: the items every active  *)
(* checkpoint since its first page has held unchanged.                     *)
StillOwed(r, t, rows) ==
    IF reader[r].pc # "paging" \/ reader[r].req.table # t THEN reader[r]
    ELSE [reader[r] EXCEPT !.stable = @ \cap Items(rows)]

(* The new checkpoint holds every row in one file and becomes latest and  *)
(* active at once.  Rows of clashing types make the handler panic.         *)
publish_mutated_checkpoint(w) ==
    /\ writer[w].pc = "publish"
    /\ LET t    == Head(writer[w].todo).table
           mine == writer[w]
           schema == merged_row_schema(mine.rows, checkpoints[t][mine.base].schema)
           rows == coerce_rows_to_schema(mine.rows, schema)
       IN  IF SchemaConflict(mine.rows)
           THEN writer' = [writer EXCEPT ![w] = IdleHandler] /\ UNCHANGED <<checkpoints, reader>>
           ELSE /\ checkpoints' = [checkpoints EXCEPT ![t] = Append(@,
                      [rows |-> rows, schema |-> schema, original |-> mine.base,
                       written |-> {OpKey(op) : op \in Head(mine.todo).ops}])]
                /\ writer' = [writer EXCEPT ![w] = Continue(w)]
                /\ reader' = [r \in Readers |-> StillOwed(r, t, rows)]
-----------------------------------------------------------------------------
DynamoInit ==
    /\ \E rows \in InitialRows :
          checkpoints = [t \in Tables |->
             << [rows |-> rows[t], schema |-> merged_row_schema(rows[t], [f \in {} |-> "JsonNull"]),
                 original |-> 0, written |-> {}] >>]
    /\ writer = [w \in Writers |-> IdleHandler]
    /\ reader = [r \in Readers |-> [pc |-> "idle"]]

DynamoNext ==
    \/ \E w \in Writers :
          \/ \E req \in WriteRequests :
                \/ handle_put_item(w, req)
                \/ handle_update_item(w, req)
                \/ handle_delete_item(w, req)
                \/ handle_batch_write_item(w, req)
          \/ load_mutable_table_rows(w)
          \/ publish_mutated_checkpoint(w)
    \/ \E r \in Readers :
          \/ \E req \in ReadRequests : begin_read(r, req)
          \/ handle_query(r)
          \/ handle_scan(r)
          \/ read_fails(r)

DynamoSpec == DynamoInit /\ [][DynamoNext]_dynamoVars

-----------------------------------------------------------------------------
(* Split and push keep one row per primary key in every checkpoint,       *)
(* whatever mix of puts, updates, deletes and batches is applied and       *)
(* however their loads and publications interleave.                        *)
KeysStayUnique ==
    \A t \in Tables : \A i \in DOMAIN checkpoints[t] :
        \A a, b \in checkpoints[t][i].rows : ItemKey(a) = ItemKey(b) => a = b

(* A checkpoint differs from the one its handler loaded only at the keys  *)
(* the request names: rewriting the whole table neither drops nor alters   *)
(* another item, although columns come and go with the merged schema.      *)
WritesAreLocal ==
    \A t \in Tables : \A i \in DOMAIN checkpoints[t] :
        LET new == checkpoints[t][i]
            Untouched(rows) == Items({r \in rows : ItemKey(r) \notin new.written})
        IN  i = 1 \/ Untouched(new.rows) = Untouched(checkpoints[t][new.original].rows)

(* Following LastEvaluatedKey over a table returns every matching item    *)
(* that stayed unchanged, and no key twice, while other clients write.     *)
PagesAreExact ==
    \A r \in Readers : reader[r].pc = "done" /\ reader[r].index = PrimaryKey =>
        reader[r].missed = {} /\ ~reader[r].twice

(* The same promise for reads through a secondary index.  The code does not *)
(* keep it: a page starts behind the last sort key, so equal ones are lost  *)
(* (README, deviations without a run).                                      *)
IndexPagesAreExact ==
    \A r \in Readers : reader[r].pc = "done" => reader[r].missed = {}

(* Any sequence of writes leaves the key columns in the schema with their *)
(* type, so that the table can still be described, written and queried.    *)
KeySchemaStaysValid ==
    \A t \in Tables : \A f \in KeyFields(PrimaryKey) :
        f \in DOMAIN Active(t).schema /\ Active(t).schema[f] = "N"

(* Every checkpoint of a table can be addressed by key: one row per key,   *)
(* and the key columns with their type in the schema.                      *)
ItemsStayKeyed == KeysStayUnique /\ KeySchemaStaysValid

=============================================================================
