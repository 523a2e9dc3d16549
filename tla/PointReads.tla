------------------------------ MODULE PointReads ------------------------------
(***************************************************************************)
(* Key lookups of the Redis and DynamoDB protocols (query_server,          *)
(* redis_protocol.rs, dynamodb_protocol.rs, exact_lookup.rs).  A command   *)
(* resolves the published checkpoint through a process-wide cache, asks    *)
(* the exact-lookup artifact for all its keys at once, and falls back to   *)
(* one serving query per key, each on the checkpoint published by then.    *)
(***************************************************************************)
EXTENDS Integers, FiniteSets, Sequences, SequencesExt

CONSTANTS
    PointClients,    \* connections
    PointTables,
    History,         \* per table, its checkpoints: [columns, rows], oldest first
    KeyField,        \* per table, the Redis key field (the partition key for DynamoDB)
    ValueField,      \* per table, the configured Redis value field, or NoField
    NoField,
    BoundTable,      \* Redis database -> table; an unbound database is not in its domain
    PointRequests,   \* commands a client may send
    MaxCommands      \* bound on the reads of a connection

(* Schemas only gain columns. *)
ASSUME ColumnsAssumption ==
    \A t \in PointTables : \A i, j \in DOMAIN History[t] :
        i =< j => History[t][i].columns \subseteq History[t][j].columns

VARIABLES
    published_id,    \* per table, the published checkpoint
    active_cache,    \* ACTIVE_CHECKPOINT_CACHE: per table, {} or {id}
    point            \* per client, the state of its connection

pointVars == <<published_id, active_cache, point>>

IsRedis(req) == req.op \notin {"GetItem", "BatchGetItem"}

(* The tables a command reads, in order, with the keys asked of each. *)
PartsOf(req, db) ==
    IF IsRedis(req) THEN <<[table |-> BoundTable[db], keys |-> req.keys]>> ELSE req.parts

-----------------------------------------------------------------------------
dedupe_lookup_keys(keys) ==
    LET IsFirst(i) == \A j \in 1..(i - 1) : keys[j] # keys[i]
    IN  [i \in 1..Cardinality({j \in DOMAIN keys : IsFirst(j)}) |->
            keys[CHOOSE j \in DOMAIN keys :
                    IsFirst(j) /\ Cardinality({k \in 1..j : IsFirst(k)}) = i]]

(* A slip: row sets are handed out in the order of the request. *)
InRequestOrder(row_sets, keys) ==
    [i \in DOMAIN keys |-> IF i \in DOMAIN row_sets THEN row_sets[i] ELSE {}]

expand_lookup_row_sets(row_sets, keys) ==
    LET unique == dedupe_lookup_keys(keys)
    IN  [i \in DOMAIN keys |-> row_sets[CHOOSE j \in DOMAIN unique : unique[j] = keys[i]]]

(* DynamoDB sends every key it was given; Redis each key once. *)
LookupKeys(req, keys) == IF IsRedis(req) THEN dedupe_lookup_keys(keys) ELSE keys

(* redis_lookup_request and key_to_predicates: rows equal on the key. *)
lookup_request(t, id, key) == {r \in History[t][id].rows : r[KeyField[t]] = key}

(* The fields a command needs that the bound schema has. *)
select_known_fields(req, known, t) ==
    CASE req.op \in {"GET", "MGET", "EXISTS"} -> {ValueField[t]}
      [] req.op = "HGETALL" -> known
      [] req.op \in {"HGET", "HMGET", "HEXISTS"} -> {req.fields[i] : i \in DOMAIN req.fields} \cap known
      [] OTHER -> known

(* Absent and null fields are both "no value". *)
redis_field_bytes(rows, field, select) ==
    {r[field] : r \in {x \in rows : field \in select /\ field \in DOMAIN x}} \ {NoField}

RowPairs(row, select) == [f \in select |-> redis_field_bytes({row}, f, select)]

(* The reply to a command from the row sets of its parts. *)
ReplyOf(req, db, select, sets) ==
    LET rows == sets[1]
        Values(f) == [i \in DOMAIN rows |-> redis_field_bytes(rows[i], f, select)]
    IN  CASE req.op \in {"GET", "MGET"} -> <<"Array", Values(ValueField[BoundTable[db]])>>
          [] req.op = "EXISTS" ->
                <<"Integer", Cardinality({i \in DOMAIN rows : Values(ValueField[BoundTable[db]])[i] # {}})>>
          [] req.op \in {"HGET", "HMGET"} ->
                <<"Array", [i \in DOMAIN req.fields |-> redis_field_bytes(rows[1], req.fields[i], select)]>>
          [] req.op = "HEXISTS" -> <<"Integer", Cardinality(redis_field_bytes(rows[1], req.fields[1], select))>>
          [] req.op = "HGETALL" -> <<"Pairs", {RowPairs(r, select) : r \in rows[1]}>>
          [] OTHER -> <<"Items", [p \in DOMAIN sets |-> SelectSeq(sets[p], LAMBDA s : s # {})]>>

ArgumentsAreValid(req) ==
    CASE req.op = "GET" -> Len(req.keys) = 1
      [] req.op \in {"MGET", "EXISTS"} -> req.keys # <<>>
      [] req.op \in {"HGET", "HEXISTS"} -> Len(req.keys) = 1 /\ Len(req.fields) = 1
      [] req.op = "HMGET" -> Len(req.keys) = 1 /\ req.fields # <<>>
      [] req.op = "HGETALL" -> Len(req.keys) = 1
      [] OTHER -> TRUE

configured_redis_value_field(req, t) == req.op \in {"GET", "MGET", "EXISTS"} => ValueField[t] # NoField

-----------------------------------------------------------------------------
Ready(c) == point[c].pc = "ready" /\ point[c].commands < MaxCommands

Finish(c, reply) ==
    [pc |-> "ready", selected_db |-> point[c].selected_db, commands |-> point[c].commands + 1,
     reply |-> reply]

Error == [kind |-> "error"]

(* PING, ECHO, COMMAND, CLIENT, HELLO and READONLY touch nothing; a write *)
(* command is refused; QUIT closes the connection.                         *)
execute_connection_command(c) ==
    /\ Ready(c)
    /\ \/ point' = [point EXCEPT ![c].reply = Error]
       \/ point' = [point EXCEPT ![c] = [pc |-> "closed"]]
    /\ UNCHANGED <<published_id, active_cache>>

(* The database changes only when a table is bound to the new one. *)
execute_select(c, db) ==
    /\ Ready(c)
    /\ point' = [point EXCEPT ![c].selected_db = IF db \in DOMAIN BoundTable THEN db ELSE @,
                             ![c].reply = Error]
    /\ UNCHANGED <<published_id, active_cache>>

(* The binding, or the DynamoDB table context, is taken from the          *)
(* checkpoint published now.                                               *)
execute_redis_command(c, req) ==
    /\ Ready(c)
    /\ LET db == point[c].selected_db
           parts == PartsOf(req, db)
           t == parts[1].table
           known == History[t][published_id[t]].columns
           select == select_known_fields(req, known, t)
       IN  point' = [point EXCEPT ![c] =
              CASE ~ArgumentsAreValid(req) \/ (IsRedis(req) /\ db \notin DOMAIN BoundTable) -> Finish(c, Error)
                [] IsRedis(req) /\ ~configured_redis_value_field(req, t) -> Finish(c, Error)
                [] select = {} -> Finish(c, [kind |-> "reply", batch |-> TRUE, req |-> req, db |-> db, select |-> {},
                                             since |-> [u \in PointTables |-> {published_id[u]}],
                                             value |-> ReplyOf(req, db, {}, << <<{}>> >>)])
                [] OTHER -> [pc |-> "resolve", selected_db |-> db, commands |-> point[c].commands,
                             req |-> req, parts |-> parts, select |-> select, sets |-> <<>>, batch |-> TRUE,
                             projected |-> IsRedis(req),
                             since |-> [u \in PointTables |-> {published_id[u]}]]]
    /\ UNCHANGED <<published_id, active_cache>>

Part(c) == point[c].parts[Len(point[c].sets) + 1]

(* A slip: whatever the cache holds is used. *)
TrustsCachedCheckpoint(c) ==
    /\ point[c].pc = "resolve"
    /\ LET t == Part(c).table
       IN  point' = [point EXCEPT ![c] =
              IF active_cache[t] # {}
              THEN [@ EXCEPT !.pc = "lookup"] @@ [id |-> CHOOSE i \in active_cache[t] : TRUE]
              ELSE [@ EXCEPT !.pc = "fetch"] @@ [id |-> published_id[t]]]
    /\ UNCHANGED <<published_id, active_cache>>

(* The published id is read; the cached checkpoint serves if it has it. *)
load_active_checkpoint(c) ==
    /\ point[c].pc = "resolve"
    /\ LET t == Part(c).table
       IN  point' = [point EXCEPT ![c] =
              [@ EXCEPT !.pc = IF active_cache[t] = {published_id[t]} THEN "lookup" ELSE "fetch"]
                 @@ [id |-> published_id[t]]]
    /\ UNCHANGED <<published_id, active_cache>>

get_checkpoint(c) ==
    /\ point[c].pc = "fetch"
    /\ active_cache' = [active_cache EXCEPT ![Part(c).table] = {point[c].id}]
    /\ point' = [point EXCEPT ![c].pc = "lookup"]
    /\ UNCHANGED published_id

(* One more part has its row sets; the last one makes the reply.  A Redis *)
(* key with two rows is an error, DynamoDB takes the first row.            *)
FinishPart(c, row_sets) ==
    LET s == point[c]
        keys == Part(c).keys
        expanded == IF IsRedis(s.req) THEN expand_lookup_row_sets(row_sets, keys) ELSE row_sets
        sets == Append(s.sets, expanded)
    IN  CASE IsRedis(s.req) /\ \E i \in DOMAIN row_sets : Cardinality(row_sets[i]) > 1 -> Finish(c, Error)
          [] Len(sets) < Len(s.parts) ->
                [f \in DOMAIN s \ {"id", "done"} |->
                    CASE f = "pc" -> "resolve" [] f = "sets" -> sets [] OTHER -> s[f]]
          [] OTHER -> Finish(c, [kind |-> "reply", batch |-> s.batch, req |-> s.req, db |-> s.selected_db,
                                 select |-> s.select, since |-> s.since,
                                 value |-> ReplyOf(s.req, s.selected_db, s.select, sets)])

(* Every key at once from one checkpoint, if its files have the artifact. *)
(* Redis tries the projected bytes first, then resolves again for rows.    *)
execute_checkpoint_exact_lookup_batch(c) ==
    /\ point[c].pc = "lookup"
    /\ LET keys == LookupKeys(point[c].req, Part(c).keys)
           t == Part(c).table
       IN  \/ point' = [point EXCEPT ![c] =
                 FinishPart(c, [i \in DOMAIN keys |-> lookup_request(t, point[c].id, keys[i])])]
           \/ /\ point[c].projected
              /\ point' = [point EXCEPT ![c] =
                    [f \in DOMAIN @ \ {"id"} |->
                        CASE f = "pc" -> "resolve" [] f = "projected" -> FALSE [] OTHER -> @[f]]]
           \/ /\ ~point[c].projected
              /\ point' = [point EXCEPT ![c] = [@ EXCEPT !.pc = "serve", !.batch = FALSE] @@ [done |-> <<>>]]
    /\ UNCHANGED <<published_id, active_cache>>

(* One serving query per key. *)
execute_fast_path_query(c) ==
    /\ point[c].pc = "serve"
    /\ LET keys == LookupKeys(point[c].req, Part(c).keys)
           t == Part(c).table
           done == Append(point[c].done,
                          lookup_request(t, published_id[t], keys[Len(point[c].done) + 1]))
       IN  point' = [point EXCEPT ![c] =
              IF Len(done) = Len(keys) THEN FinishPart(c, done) ELSE [@ EXCEPT !.done = done]]
    /\ UNCHANGED <<published_id, active_cache>>

point_cut_over(t) ==
    /\ published_id[t] < Len(History[t])
    /\ published_id' = [published_id EXCEPT ![t] = @ + 1]
    /\ point' = [c \in PointClients |->
          IF "since" \in DOMAIN point[c]
          THEN [point[c] EXCEPT !.since[t] = @ \cup {published_id[t] + 1}] ELSE point[c]]
    /\ UNCHANGED active_cache

-----------------------------------------------------------------------------
PointInit ==
    /\ published_id = [t \in PointTables |-> 1]
    /\ active_cache = [t \in PointTables |-> {}]
    /\ point = [c \in PointClients |->
          [pc |-> "ready", selected_db |-> 0, commands |-> 0, reply |-> Error]]

PointNext ==
    \/ \E c \in PointClients :
          \/ execute_connection_command(c)
          \/ \E db \in {0, 1, 2} : execute_select(c, db)
          \/ \E req \in PointRequests : execute_redis_command(c, req)
          \/ load_active_checkpoint(c)
          \/ get_checkpoint(c)
          \/ execute_checkpoint_exact_lookup_batch(c)
          \/ execute_fast_path_query(c)
    \/ \E t \in PointTables : point_cut_over(t)

PointSpec == PointInit /\ [][PointNext]_pointVars

-----------------------------------------------------------------------------
(* The reply computed key by key, with a checkpoint chosen per key. *)
DirectReply(r, At(_, _)) ==
    LET parts == PartsOf(r.req, r.db)
    IN  ReplyOf(r.req, r.db, r.select,
                [p \in DOMAIN parts |-> [i \in DOMAIN parts[p].keys |->
                    IF r.select = {} THEN {}
                    ELSE lookup_request(parts[p].table, At(parts[p].table, parts[p].keys[i]), parts[p].keys[i])]])

AllKeys == UNION {UNION {{PartsOf(q, 0)[p].keys[i] : i \in DOMAIN PartsOf(q, 0)[p].keys} :
                             p \in DOMAIN PartsOf(q, 0)} : q \in PointRequests}

HasReply(c) == point[c].pc = "ready" /\ point[c].reply.kind = "reply"

(* Whatever the caches and the fallback do while the node cuts over,      *)
(* every position of a reply is the answer for its own key, from a         *)
(* checkpoint that was published during the command, and a key that        *)
(* appears twice is answered once.                                         *)
RepliesAreCurrent ==
    \A c \in PointClients : HasReply(c) =>
        LET r == point[c].reply
        IN  \E at \in [PointTables \X AllKeys -> UNION {r.since[t] : t \in PointTables}] :
               LET At(t, k) == at[<<t, k>>]
               IN  (\A t \in PointTables, k \in AllKeys : At(t, k) \in r.since[t])
                   /\ r.value = DirectReply(r, At)

(* A command answered by the lookup artifacts reads each table at one     *)
(* checkpoint: MGET, EXISTS and BatchGetItem see no half of a cut-over.    *)
BatchesAreSnapshots ==
    \A c \in PointClients : HasReply(c) /\ point[c].reply.batch =>
        LET r == point[c].reply
        IN  \E at \in [PointTables -> UNION {r.since[t] : t \in PointTables}] :
               LET At(t, k) == at[t]
               IN  r.value = DirectReply(r, At) /\ \A t \in PointTables : at[t] \in r.since[t]

(* Point reads by Redis and DynamoDB commands answer for published         *)
(* checkpoints, and batches for one checkpoint per table.                  *)
PointReadsAreExact == RepliesAreCurrent /\ BatchesAreSnapshots

=============================================================================
