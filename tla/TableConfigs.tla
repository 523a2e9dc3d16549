---------------------------- MODULE TableConfigs ----------------------------
(***************************************************************************)
(* The protocol configuration of a table and the caches derived from it    *)
(* (query_server: put_serving_config, put_dynamodb_config,                 *)
(* put_mongodb_config, put_redis_config and the Redis database bindings).  *)
(*                                                                         *)
(* Every PUT reads the table's description, checks the new part and        *)
(* writes the whole description back; nothing keeps two of them from       *)
(* interleaving.  A Redis connection resolves its database to a table      *)
(* through a process-wide cache.                                           *)
(***************************************************************************)
EXTENDS Integers, FiniteSets, Sequences

CONSTANTS
    NoConfig,        \* absent configuration
    ConfigTables,    \* table names
    Admins,          \* configuration requests, one each
    Connections,     \* Redis connections
    Databases,       \* Redis databases
    Puts,            \* configuration bodies an admin may PUT
    ColumnsOf,       \* per table and checkpoint, the key-typed columns
    LastCheckpoint   \* checkpoints a table goes through

(* A PUT is for one of the tables.  The names of the derived patterns have *)
(* a prefix of their own, which a serving PUT does not use.                *)
ASSUME PutsAssumption ==
    \A put \in Puts :
        /\ put.table \in ConfigTables
        /\ put.kind \in {"serving", "dynamodb", "mongodb", "redis"}
        /\ put.kind = "serving" => \A p \in put.body : ~p.derived
        /\ put.kind = "dynamodb" => put.body # NoConfig

VARIABLES
    description,     \* describe_table: serving, dynamodb, mongodb, redis
    active_checkpoint,          \* active_checkpoint checkpoint per table
    binding_cache,   \* REDIS_DATABASE_BINDING_CACHE
    admin,           \* state of each configuration handler
    connection       \* state of each Redis connection

configVars == <<description, active_checkpoint, binding_cache, admin, connection>>

-----------------------------------------------------------------------------
(* DynamoDB key schemas and the serving patterns derived from them.       *)

KeySchema(p, s) == [partition_key |-> p, sort_key |-> s]
primary_key_schema(config) == KeySchema(config.partition_key, config.sort_key)
IndexSchemas(config) ==
    {KeySchema(config.partition_key, s) : s \in config.local} \cup config.global

validate_key_schema(columns, schema) ==
    /\ schema.partition_key \in columns
    /\ schema.sort_key # NoConfig =>
          schema.sort_key # schema.partition_key /\ schema.sort_key \in columns

validate_dynamodb_config(columns, config) ==
    /\ validate_key_schema(columns, primary_key_schema(config))
    /\ \A s \in config.local :
          config.sort_key # NoConfig /\ s # config.sort_key
            /\ validate_key_schema(columns, KeySchema(config.partition_key, s))
    /\ \A schema \in config.global : validate_key_schema(columns, schema)

Pattern(eq, range, order, desc, limit) ==
    [derived |-> TRUE, eq_fields |-> eq, range_field |-> range, order_field |-> order,
     descending |-> desc, max_limit |-> limit]

(* get_item for the table, exact_query for an index with a sort key, and  *)
(* partition and range queries in both directions.                         *)
derived_serving_patterns_for_key_schema(schema, is_table) ==
    LET p == {schema.partition_key} s == schema.sort_key
    IN  (IF is_table THEN {Pattern(p \cup ({s} \ {NoConfig}), NoConfig, NoConfig, FALSE, 1)}
         ELSE IF s # NoConfig THEN {Pattern(p \cup {s}, NoConfig, NoConfig, FALSE, NoConfig)} ELSE {})
        \cup (IF s = NoConfig THEN {}
              ELSE UNION {{Pattern(p, NoConfig, s, d, NoConfig), Pattern(p, s, s, d, NoConfig)} : d \in BOOLEAN})

derived_dynamodb_serving_patterns(config) ==
    derived_serving_patterns_for_key_schema(primary_key_schema(config), TRUE)
        \cup UNION {derived_serving_patterns_for_key_schema(i, FALSE) : i \in IndexSchemas(config)}

merge_dynamodb_serving_patterns(serving, config) ==
    {p \in serving : ~p.derived} \cup derived_dynamodb_serving_patterns(config)

(* The serving requests handle_get_item and handle_query build for an     *)
(* index: by full key, by partition, by a bound on the sort key, in either *)
(* direction.  Pages of a table by full key fetch one row.                 *)
RequestShapes(schema, is_table) ==
    LET p == {schema.partition_key} s == schema.sort_key
        Shape(eq, range, order, desc, limit) ==
            [eq_fields |-> eq, range_field |-> range, order_field |-> order,
             descending |-> desc, limit |-> limit]
    IN  IF s = NoConfig THEN {Shape(p, NoConfig, NoConfig, FALSE, 1)}
        ELSE {Shape(p \cup {s}, NoConfig, NoConfig, FALSE, IF is_table THEN 1 ELSE 2)}
              \cup {Shape(p, r, s, d, 2) : r \in {NoConfig, s}, d \in BOOLEAN}

(* classify_request: some pattern has the same fields and order. *)
Admitted(shape, serving) ==
    \E p \in serving :
        /\ shape.eq_fields = p.eq_fields /\ shape.range_field = p.range_field
        /\ shape.order_field = p.order_field /\ shape.descending = p.descending
        /\ p.max_limit = NoConfig \/ shape.limit =< p.max_limit

-----------------------------------------------------------------------------
(* Configuration requests.  A PUT has a kind, a table and a body. *)

ConfigIsValid(put) ==
    LET columns == ColumnsOf[put.table][active_checkpoint[put.table]]
    IN  CASE put.kind = "dynamodb" -> validate_dynamodb_config(columns, put.body)
          [] put.kind = "redis" -> put.body.key_field \in columns
          [] put.kind = "mongodb" -> put.body.id_field \in columns
          [] put.kind = "serving" -> TRUE

NeedsUniqueness(put) == put.kind \in {"redis", "mongodb"} /\ put.body.enabled

(* describe_table, the schema checks, and the start of the uniqueness     *)
(* listing where the protocol has one.                                     *)
Accepted(a, put) ==
    /\ admin[a].pc = "idle"
    /\ admin' = [admin EXCEPT ![a] =
          IF ~ConfigIsValid(put) THEN [pc |-> "done"]
          ELSE [pc |-> IF NeedsUniqueness(put) THEN "list" ELSE "upsert", put |-> put,
                existing |-> description[put.table], unlisted |-> ConfigTables]]
    /\ UNCHANGED <<description, active_checkpoint, binding_cache, connection>>

put_serving_config(a, put) == put.kind = "serving" /\ Accepted(a, put)
put_dynamodb_config(a, put) == put.kind = "dynamodb" /\ Accepted(a, put)
put_mongodb_config(a, put) == put.kind = "mongodb" /\ Accepted(a, put)
put_redis_config(a, put) == put.kind = "redis" /\ Accepted(a, put)

(* Another enabled table has the same Redis database or Mongo namespace.  *)
Clashes(put, t) ==
    LET other == IF put.kind = "redis" THEN description[t].redis ELSE description[t].mongodb
    IN  t # put.table /\ other # NoConfig /\ other.enabled /\ other.name = put.body.name

(* list_redis_bindings and list_mongodb_bindings describe one table at a  *)
(* time.                                                                   *)
validate_uniqueness(a, t) ==
    /\ admin[a].pc = "list" /\ t \in admin[a].unlisted
    /\ admin' = [admin EXCEPT ![a] =
          IF Clashes(admin[a].put, t) THEN [pc |-> "done"]
          ELSE [admin[a] EXCEPT !.unlisted = admin[a].unlisted \ {t},
                                !.pc = IF admin[a].unlisted = {t} THEN "upsert" ELSE "list"]]
    /\ UNCHANGED <<description, active_checkpoint, binding_cache, connection>>

NewDescription(put, existing) ==
    CASE put.kind = "serving" -> [existing EXCEPT !.serving = put.body]
      [] put.kind = "dynamodb" ->
            [[existing EXCEPT !.dynamodb = put.body]
                EXCEPT !.serving = merge_dynamodb_serving_patterns(existing.serving, put.body)]
      [] put.kind = "mongodb" -> [existing EXCEPT !.mongodb = put.body]
      [] put.kind = "redis" -> [existing EXCEPT !.redis = put.body]

(* upsert_table_metadata replaces the description; put_redis_config then  *)
(* clears the binding cache.                                               *)
upsert_table_metadata(a) ==
    /\ admin[a].pc = "upsert"
    /\ description' = [description EXCEPT ![admin[a].put.table] = NewDescription(admin[a].put, admin[a].existing)]
    /\ admin' = [admin EXCEPT ![a] = [pc |-> IF admin[a].put.kind = "redis" THEN "clear" ELSE "done"]]
    /\ UNCHANGED <<active_checkpoint, binding_cache, connection>>

clear_redis_database_binding_cache(a) ==
    /\ admin[a].pc = "clear"
    /\ binding_cache' = [db \in Databases |-> NoConfig]
    /\ admin' = [admin EXCEPT ![a] = [pc |-> "done"]]
    /\ UNCHANGED <<description, active_checkpoint, connection>>

-----------------------------------------------------------------------------
(* Redis connections. *)

resolved_redis_database_binding(t, config, checkpoint) ==
    [table |-> t, config |-> config, active_checkpoint_id |-> checkpoint,
     known_fields |-> ColumnsOf[t][checkpoint]]

(* A command or SELECT starts by looking at the cache. *)
load_redis_database_binding(c, db) ==
    /\ connection[c].pc = "idle"
    /\ connection' = [connection EXCEPT ![c] =
          [pc |-> IF binding_cache[db] # NoConfig THEN "cached" ELSE "list", db |-> db,
           cached |-> binding_cache[db], since |-> [t \in ConfigTables |-> {active_checkpoint[t]}],
           unlisted |-> ConfigTables, matches |-> {}]]
    /\ UNCHANGED <<description, active_checkpoint, binding_cache, admin>>

Resolve(c, binding) ==
    /\ connection' = [connection EXCEPT ![c] = [connection[c] EXCEPT !.pc = "bound", !.cached = binding]]
    /\ binding_cache' = [binding_cache EXCEPT ![connection[c].db] = binding]

(* A slip: a cached binding is returned as it is. *)
TrustsCache(c) ==
    /\ connection[c].pc = "cached"
    /\ connection' = [connection EXCEPT ![c].pc = "bound"]
    /\ UNCHANGED <<description, active_checkpoint, binding_cache, admin>>

(* The cached binding serves if its table's active_checkpoint checkpoint has not     *)
(* moved, and is resolved again from the cached configuration if it has.   *)
use_cached_binding(c) ==
    /\ connection[c].pc = "cached"
    /\ LET cached == connection[c].cached
       IN  IF active_checkpoint[cached.table] = cached.active_checkpoint_id
           THEN connection' = [connection EXCEPT ![c].pc = "bound"] /\ UNCHANGED binding_cache
           ELSE Resolve(c, resolved_redis_database_binding(cached.table, cached.config, active_checkpoint[cached.table]))
    /\ UNCHANGED <<description, active_checkpoint, admin>>

list_redis_bindings(c, t) ==
    /\ connection[c].pc = "list" /\ t \in connection[c].unlisted
    /\ LET config == description[t].redis
           hit    == config # NoConfig /\ config.enabled /\ config.name = connection[c].db
       IN  connection' = [connection EXCEPT ![c] =
              [connection[c] EXCEPT
                 !.unlisted = connection[c].unlisted \ {t},
                 !.matches = IF hit THEN connection[c].matches \cup {<<t, config>>} ELSE connection[c].matches,
                 !.pc = IF connection[c].unlisted = {t} THEN "resolve" ELSE "list"]]
    /\ UNCHANGED <<description, active_checkpoint, binding_cache, admin>>

(* No match, or more than one, is an error. *)
refresh_redis_database_binding(c) ==
    /\ connection[c].pc = "resolve"
    /\ IF Cardinality(connection[c].matches) = 1
       THEN \E b \in connection[c].matches :
               Resolve(c, resolved_redis_database_binding(b[1], b[2], active_checkpoint[b[1]]))
       ELSE connection' = [connection EXCEPT ![c] = [pc |-> "idle"]] /\ UNCHANGED binding_cache
    /\ UNCHANGED <<description, active_checkpoint, admin>>

(* The command runs against the bound table and the connection is free.   *)
release_binding(c) ==
    /\ connection[c].pc = "bound"
    /\ connection' = [connection EXCEPT ![c] = [pc |-> "idle"]]
    /\ UNCHANGED <<description, active_checkpoint, binding_cache, admin>>

(* The node cuts over to the table's next checkpoint. *)
cut_over(t) ==
    /\ active_checkpoint[t] < LastCheckpoint
    /\ active_checkpoint' = [active_checkpoint EXCEPT ![t] = @ + 1]
    /\ connection' = [c \in Connections |->
          IF connection[c].pc = "idle" THEN connection[c]
          ELSE [connection[c] EXCEPT !.since[t] = @ \cup {active_checkpoint[t] + 1}]]
    /\ UNCHANGED <<description, binding_cache, admin>>

-----------------------------------------------------------------------------
ConfigInit ==
    /\ description = [t \in ConfigTables |->
          [serving |-> {}, dynamodb |-> NoConfig, mongodb |-> NoConfig, redis |-> NoConfig]]
    /\ active_checkpoint = [t \in ConfigTables |-> 1]
    /\ binding_cache = [db \in Databases |-> NoConfig]
    /\ admin = [a \in Admins |-> [pc |-> "idle"]]
    /\ connection = [c \in Connections |-> [pc |-> "idle"]]

ConfigNext ==
    \/ \E a \in Admins :
          \/ \E put \in Puts :
                \/ put_serving_config(a, put)
                \/ put_dynamodb_config(a, put)
                \/ put_mongodb_config(a, put)
                \/ put_redis_config(a, put)
          \/ \E t \in ConfigTables : validate_uniqueness(a, t)
          \/ upsert_table_metadata(a)
          \/ clear_redis_database_binding_cache(a)
    \/ \E c \in Connections :
          \/ \E db \in Databases : load_redis_database_binding(c, db)
          \/ use_cached_binding(c)
          \/ \E t \in ConfigTables : list_redis_bindings(c, t)
          \/ refresh_redis_database_binding(c)
          \/ release_binding(c)
    \/ \E t \in ConfigTables : cut_over(t)

ConfigSpec == ConfigInit /\ [][ConfigNext]_configVars

-----------------------------------------------------------------------------
(* Whole-description writes keep the derived serving patterns and the     *)
(* DynamoDB configuration of a table together however PUTs interleave:     *)
(* the patterns are those of the current configuration, or a serving PUT   *)
(* has replaced them all; while they are there, every GetItem and Query    *)
(* of the table and of its sorted indexes is admitted to the fast path.    *)
QueriesAreAdmitted ==
    \A t \in ConfigTables :
        LET d == description[t] derived == {p \in d.serving : p.derived}
        IN  \/ derived = {}
            \/ /\ d.dynamodb # NoConfig
               /\ derived = derived_dynamodb_serving_patterns(d.dynamodb)
               /\ \A shape \in RequestShapes(primary_key_schema(d.dynamodb), TRUE) : Admitted(shape, d.serving)
               /\ \A i \in {j \in IndexSchemas(d.dynamodb) : j.sort_key # NoConfig} :
                     \A shape \in RequestShapes(i, FALSE) : Admitted(shape, d.serving)

(* A bound connection knows the columns of a checkpoint that was active_checkpoint   *)
(* for its table while the command ran, although bindings are cached,      *)
(* refreshed and cleared by other connections.                             *)
BoundFieldsAreFresh ==
    \A c \in Connections : connection[c].pc = "bound" =>
        LET b == connection[c].cached
        IN  /\ b.active_checkpoint_id \in connection[c].since[b.table]
            /\ b.known_fields = ColumnsOf[b.table][b.active_checkpoint_id]
            /\ b.config.enabled /\ b.config.name = connection[c].db

(* At most one enabled table per Mongo namespace.  Overlapping PUTs break   *)
(* it (README, deviations without a run).                                   *)
NamespacesAreUnique ==
    \A s, t \in ConfigTables :
        LET a == description[s].mongodb b == description[t].mongodb
        IN  s # t /\ a # NoConfig /\ b # NoConfig /\ a.enabled /\ b.enabled => a.name # b.name

(* What a protocol derives from a table description is up to date when it  *)
(* is used: the serving patterns, and the bindings of connections.         *)
BindingsAreCurrent == QueriesAreAdmitted /\ BoundFieldsAreFresh

=============================================================================
