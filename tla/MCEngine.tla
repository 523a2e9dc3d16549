------------------------------ MODULE MCEngine ------------------------------
(***************************************************************************)
(* Lakehouse serving and the protocols above it on one bench: the DynamoDB *)
(* protocol, the per-table protocol configurations, MongoDB cursors and    *)
(* key lookups.  They share no mutable state, so the bench runs one of     *)
(* them at a time; the others keep an initial value.                       *)
(***************************************************************************)
EXTENDS MCServing, DynamoProtocol, TableConfigs, MongoProtocol, PointReads

CONSTANTS t1, t2, p1, p2

VARIABLE bench

(* Two small tables with keys (1, 1) to (1, 3) and one numeric attribute  *)
(* h that a local secondary index sorts by.                                *)
MCPrimaryKey == [partition_key |-> "pk", sort_key |-> "sk"]
LocalIndex == [partition_key |-> "pk", sort_key |-> "h"]

DynamoRow(p, s, x) == [pk |-> Num(p), sk |-> Num(s), h |-> Num(x)]
K(p, s) == [pk |-> Num(p), sk |-> Num(s)]
MCRows == {t1 :> first @@ t2 :> {DynamoRow(1, 1, 1)} :
              first \in { {DynamoRow(1, 1, 1), DynamoRow(1, 2, 1)}, {DynamoRow(1, 1, 1)} }}

If(k, f, v) == {{[predicate |-> [kind |-> k, field |-> f, size |-> FALSE, arg |-> v], holds |-> TRUE]}}
Put(i) == [type |-> "put", item |-> i]
Del(p, s) == [type |-> "delete", key |-> K(p, s)]
Upd(p, s, a) == [type |-> "update", key |-> K(p, s), actions |-> {a}]
Act(o, f, v) == [op |-> o, field |-> f, value |-> v]
One(t, o, c) == [type |-> o.type, todo |-> <<[table |-> t, ops |-> {o}]>>, condition |-> c]

MCWrites ==
    { One(t1, Put(DynamoRow(1, 2, 2)), If("attribute_not_exists", "pk", JsonNull)),
      One(t1, Put([pk |-> Num(1), sk |-> Num(1)]), Always),
      One(t1, Put([pk |-> Num(1), sk |-> Num(2), h |-> StringSet({"x"})]), Always),
      One(t1, Upd(1, 2, Act("ADD", "h", Num(1))), If("<", "h", Num(2))),
      One(t1, Del(1, 1), Always),
      [type |-> "batch", todo |-> <<[table |-> t1, ops |-> {Put(DynamoRow(1, 3, 2)), Del(1, 1)}],
                                    [table |-> t2, ops |-> {Put(DynamoRow(1, 2, 1))}]>>],
      [type |-> "batch", todo |-> <<[table |-> t2, ops |-> {Put(DynamoRow(1, 1, 1)), Put(DynamoRow(1, 1, 2))}]>>] }

Sort(e, l, u) == [eq |-> e, gt |-> JsonNull, gte |-> l, lt |-> JsonNull, lte |-> u]
Read(o, i, b, a, n, f) ==
    [op |-> o, table |-> t1, index |-> i, partition |-> Num(1), bounds |-> b,
     ascending |-> a, limit |-> n, filter |-> f]
MCReads ==
    { Read("Query", MCPrimaryKey, Sort(JsonNull, JsonNull, JsonNull), TRUE, 1, Always),
      Read("Query", MCPrimaryKey, Sort(JsonNull, JsonNull, Num(3)), FALSE, 1, If(">=", "h", Num(1))),
      Read("Query", MCPrimaryKey, Sort(Num(2), JsonNull, JsonNull), TRUE, JsonNull, Always),
      Read("Scan", LocalIndex, Sort(JsonNull, JsonNull, JsonNull), TRUE, 1, Always) }
-----------------------------------------------------------------------------
(* Racing configuration requests for two tables. *)
KS(p, s) == [partition_key |-> p, sort_key |-> s]
Dyn(p, s, l, g) == [partition_key |-> p, sort_key |-> s, local |-> l, global |-> g]
UserPattern ==
    [derived |-> FALSE, eq_fields |-> {"k"}, range_field |-> NoConfig, order_field |-> NoConfig,
     descending |-> FALSE, max_limit |-> NoConfig]
MCPuts ==
    { [kind |-> "dynamodb", table |-> t1, body |-> Dyn("k", "s", {}, {KS("h", "s")})],
      [kind |-> "dynamodb", table |-> t1, body |-> Dyn("k", "s", {"h"}, {})],
      [kind |-> "dynamodb", table |-> t1, body |-> Dyn("k", NoConfig, {"h"}, {})],
      [kind |-> "serving", table |-> t1, body |-> {UserPattern}],
      [kind |-> "redis", table |-> t1, body |-> [name |-> 0, enabled |-> TRUE, key_field |-> "k"]],
      [kind |-> "redis", table |-> t2, body |-> [name |-> 0, enabled |-> TRUE, key_field |-> "k"]],
      [kind |-> "mongodb", table |-> t1, body |-> [name |-> "db.c", enabled |-> TRUE, id_field |-> "k"]],
      [kind |-> "mongodb", table |-> t2, body |-> [name |-> "db.c", enabled |-> TRUE, id_field |-> "k"]] }
MCColumns == t1 :> <<{"h", "k", "s"}, {"k", "s"}>> @@ t2 :> <<{"k"}, {"k"}>>
-----------------------------------------------------------------------------
(* One collection of three documents and every shape of find. *)
MongoRows == << [k |-> 1, a |-> 2], [k |-> 2, a |-> 1], [k |-> 3, a |-> 3] >>
Find(f, p, s, l, b) ==
    [filter |-> f, projection |-> p, sort |-> s, limit |-> l, batch_size |-> b,
     skip |-> 0, single_batch |-> FALSE, no_cursor_timeout |-> FALSE]
SortBy(f, d) == {[field |-> f, direction |-> d]}
MCFinds ==
    { Find({}, {}, {}, {}, {1}),
      Find({"_id" :> [gte |-> 2]}, {[a |-> TRUE]}, SortBy("a", -1), {}, {1}),
      Find({"_id" :> [lt |-> 3], [a |-> [gt |-> 0]]}, {"_id" :> FALSE}, SortBy("_id", -1), {0}, {1}),
      Find({}, {"_id" :> FALSE @@ "a" :> TRUE}, {}, {2}, {}),
      Find({[k |-> [in |-> {1, 3}]]}, {[k |-> TRUE]}, {}, {}, {2}),
      Find({[a |-> [eq |-> 3, gt |-> 1]]}, {}, {}, {}, {}),
      [Find({}, {}, {}, {}, {2}) EXCEPT !.single_batch = TRUE],
      [Find({}, {}, {}, {}, {1}) EXCEPT !.no_cursor_timeout = TRUE],
      [Find({}, {}, {}, {}, {}) EXCEPT !.skip = 1] }
-----------------------------------------------------------------------------
(* Two tables with two checkpoints each: one gains a column and changes   *)
(* both rows, the other gains a row and has no Redis value field.          *)
PRow(k, v, w) == [k |-> k, v |-> v, w |-> w]
MCHistory ==
    p1 :> << [columns |-> {"k", "v"}, rows |-> {[k |-> 1, v |-> 10], [k |-> 2, v |-> 20]}],
             [columns |-> {"k", "v", "w"}, rows |-> {PRow(1, 11, 5), PRow(2, NoField, 6)}] >>
    @@ p2 :> << [columns |-> {"k"}, rows |-> {[k |-> 1]}],
                [columns |-> {"k"}, rows |-> {[k |-> 1], [k |-> 2]}] >>
MCKeyField == [t \in PointTables |-> "k"]
MCValueField == p1 :> "v" @@ p2 :> NoField
MCBound == 0 :> p1 @@ 1 :> p2
Redis(op, keys, fields) == [op |-> op, keys |-> keys, fields |-> fields]
MCPointRequests ==
    { Redis("GET", <<1>>, <<>>), Redis("MGET", <<2, 1>>, <<>>),
      Redis("HMGET", <<2>>, <<"w", "v">>), Redis("HGETALL", <<2>>, <<>>),
      [op |-> "BatchGetItem", parts |-> << [table |-> p1, keys |-> <<1, 2>>], [table |-> p2, keys |-> <<2>>] >>],
      [op |-> "GetItem", parts |-> << [table |-> p2, keys |-> <<2>>] >>] }
-----------------------------------------------------------------------------
ProtocolSymmetry == Permutations(Clients) \cup Permutations(Writers) \cup Permutations(PointClients)

engineVars == <<bench, servingVars, dynamoVars, configVars, mongoVars, pointVars>>

\* The serving bench's table while another bench runs.
IdleTable == Empty

MCEngineInit ==
    /\ bench \in {"serving", "dynamodb", "configs", "mongodb", "lookups"}
    /\ Init /\ DynamoInit /\ ConfigInit /\ MongoInit /\ PointInit
    /\ bench # "serving" => table = IdleTable
    /\ bench # "dynamodb" => latest(t1) = 1 /\ Cardinality(Active(t1).rows) = 1

MCEngineNext ==
    \/ bench = "serving" /\ Next /\ UNCHANGED <<bench, dynamoVars, configVars, mongoVars, pointVars>>
    \/ bench = "dynamodb" /\ DynamoNext /\ UNCHANGED <<bench, servingVars, configVars, mongoVars, pointVars>>
    \/ bench = "configs" /\ ConfigNext /\ UNCHANGED <<bench, servingVars, dynamoVars, mongoVars, pointVars>>
    \/ bench = "mongodb" /\ MongoNext /\ UNCHANGED <<bench, servingVars, dynamoVars, configVars, pointVars>>
    \/ bench = "lookups" /\ PointNext /\ UNCHANGED <<bench, servingVars, dynamoVars, configVars, mongoVars>>

MCEngineSpec == MCEngineInit /\ [][MCEngineNext]_engineVars
=============================================================================
