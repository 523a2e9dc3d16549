---------------------------- MODULE MongoProtocol ----------------------------
(***************************************************************************)
(* MongoDB find, getMore and killCursors (query_server/mongodb_protocol.rs *)
(* and query_runtime/serving_protocol.rs).  A find is rewritten to the     *)
(* table's columns, planned, answered by the serving path and shaped back  *)
(* into documents; what does not fit the first batch waits in a            *)
(* process-wide cursor registry with an idle timeout.                      *)
(***************************************************************************)
EXTENDS Integers, FiniteSets, Sequences, SequencesExt

CONSTANTS
    MongoClients,             \* one outstanding find each
    Rows,                     \* rows of the table in key order
    IdField,                  \* the column behind _id
    Finds,                    \* find commands
    MONGO_CURSOR_TIMEOUT_MS,  \* idle time of a cursor
    LastTime                  \* bound on the clock

VARIABLES
    now,       \* clock
    cursors,   \* MONGO_CURSORS: open cursors by id
    cursor_id, \* MONGO_CURSOR_IDS
    session    \* per client: its find, and what it has been sent

mongoVars == <<now, cursors, cursor_id, session>>

-----------------------------------------------------------------------------
(* Documents to columns.  A filter is a set of documents: the top level    *)
(* one and those below $and; optional parts are sets of at most one value. *)

rewrite_mongodb_field_name(field) == IF field = "_id" THEN IdField ELSE field

(* A document whose keys are renamed.  Keys come in order, so the column   *)
(* behind _id overwrites _id when one document has both.                   *)
RenameKeys(doc) ==
    [f \in {rewrite_mongodb_field_name(k) : k \in DOMAIN doc} |->
        IF f \in DOMAIN doc THEN doc[f] ELSE doc["_id"]]

rewrite_mongodb_filter_document(filter) == {RenameKeys(doc) : doc \in filter}

should_include_mongo_id(projection) ==
    \A p \in projection : "_id" \in DOMAIN p => p["_id"]

projection_explicitly_includes_field(projection, field) ==
    \E p \in projection : field \in DOMAIN p /\ p[field]

(* _id: 0 is dropped, and the column behind _id is added when _id is shown. *)
rewrite_mongodb_projection(projection) ==
    {LET kept == RenameKeys([f \in {g \in DOMAIN p : g # "_id" \/ p[g]} |-> p[f]])
     IN  IF should_include_mongo_id(projection) /\ IdField \notin DOMAIN kept
         THEN [f \in DOMAIN kept \cup {IdField} |-> IF f = IdField THEN TRUE ELSE kept[f]]
         ELSE kept : p \in projection}

rewrite_mongodb_sort(sort) ==
    {[field |-> rewrite_mongodb_field_name(s.field), direction |-> s.direction] : s \in sort}

(* One predicate per key of each document. *)
parse_mongodb_filter_document(filter) ==
    UNION {{[field |-> f, ops |-> doc[f]] : f \in DOMAIN doc} : doc \in filter}

(* $eq goes with no other operator, $in with no range. *)
parse_mongodb_field_predicate(p) ==
    LET used == DOMAIN p.ops
    IN  ("eq" \in used => used = {"eq"}) /\ ("in" \in used => used = {"in"})

(* Only inclusions select columns; no inclusion selects all of them. *)
parse_mongodb_projection(projection) ==
    LET included == UNION {{f \in DOMAIN p : p[f]} : p \in projection}
    IN  IF included = {} THEN {} ELSE {included}

ProjectionIsValid(projection) == \A p \in projection : \A f \in DOMAIN p : p[f]

parse_mongodb_limit(limit) == {n \in limit : n # 0}

FindIsValid(command) ==
    /\ command.skip = 0
    /\ \A n \in command.limit : n >= 0
    /\ \A n \in command.batch_size : n > 0
    /\ \A p \in parse_mongodb_filter_document(command.filter) : parse_mongodb_field_predicate(p)
    /\ ProjectionIsValid(rewrite_mongodb_projection(command.projection))

from_mongodb_find(command) ==
    [select   |-> parse_mongodb_projection(rewrite_mongodb_projection(command.projection)),
     filters  |-> parse_mongodb_filter_document(rewrite_mongodb_filter_document(command.filter)),
     order_by |-> rewrite_mongodb_sort(command.sort),
     limit    |-> parse_mongodb_limit(command.limit)]

-----------------------------------------------------------------------------
(* The serving path answers a plan; its own steps are LakehouseServing.    *)

Meets(v, ops) ==
    \A o \in DOMAIN ops :
        CASE o = "eq" -> v = ops[o]   [] o = "in" -> v \in ops[o]
          [] o = "gt" -> v > ops[o]   [] o = "gte" -> v >= ops[o]
          [] o = "lt" -> v < ops[o]   [] o = "lte" -> v =< ops[o]

Ordered(rows, sort) ==
    IF sort = {} THEN rows
    ELSE LET s == CHOOSE x \in sort : TRUE
         IN  SortSeq(rows, LAMBDA a, b : IF s.direction = 1 THEN a[s.field] < b[s.field]
                                                           ELSE a[s.field] > b[s.field])

AtMostRows(rows, limit) ==
    IF limit = {} THEN rows ELSE SubSeq(rows, 1, CHOOSE n \in {Len(rows)} \cup limit : \A k \in {Len(rows)} \cup limit : n =< k)

Project(row, fields) == [f \in fields |-> row[f]]

ServingRows(plan) ==
    LET hits == SelectSeq(Rows, LAMBDA r : \A p \in plan.filters : Meets(r[p.field], p.ops))
        page == AtMostRows(Ordered(hits, plan.order_by), plan.limit)
    IN  [i \in DOMAIN page |->
            Project(page[i], IF plan.select = {} THEN DOMAIN page[i] ELSE UNION plan.select)]

(* Columns to documents: _id is added from its column, and the column is   *)
(* left out unless the projection names it.                                *)
shape_mongodb_row(row, command) ==
    LET with_id == IF should_include_mongo_id(command.projection) THEN {"_id"} ELSE {}
        hidden  == IF projection_explicitly_includes_field(command.projection, IdField) \/ IdField = "_id"
                   THEN {} ELSE {IdField}
    IN  [f \in with_id \cup (DOMAIN row \ hidden) |-> IF f = "_id" THEN row[IdField] ELSE row[f]]

(* Every row is shaped; one without the column behind _id fails the find. *)
execute_mongodb_find_for_table(command) ==
    LET rows == ServingRows(from_mongodb_find(command))
    IN  IF should_include_mongo_id(command.projection) /\ \E i \in DOMAIN rows : IdField \notin DOMAIN rows[i]
        THEN {}
        ELSE {[i \in DOMAIN rows |-> shape_mongodb_row(rows[i], command)]}

-----------------------------------------------------------------------------
(* The cursor registry.  Each operation holds its lock throughout. *)

mongo_cursor_expired(cursor) == \E e \in cursor.expires_at_ms : now >= e

prune_expired_mongo_cursors ==
    [i \in {j \in DOMAIN cursors : ~mongo_cursor_expired(cursors[j])} |-> cursors[i]]

next_cursor_expiry_ms(no_cursor_timeout) ==
    IF no_cursor_timeout THEN {} ELSE {now + MONGO_CURSOR_TIMEOUT_MS}

Without(f, i) == [j \in DOMAIN f \ {i} |-> f[j]]
With(f, i, v) == [j \in DOMAIN f \cup {i} |-> IF j = i THEN v ELSE f[j]]

Send(c, batch, id) ==
    session' = [session EXCEPT ![c] = [@ EXCEPT !.pc = "open", !.sent = @ \o batch, !.id = id, !.used_at = now]]

(* A slip: the row at the batch boundary is sent in both batches. *)
SplitsEarly(rows, n) == <<SubSeq(rows, 1, n), SubSeq(rows, n, Len(rows))>>

split_off(rows, n) == <<SubSeq(rows, 1, n), SubSeq(rows, n + 1, Len(rows))>>

(* The find runs; its cursor gets an id and an expiry before the registry  *)
(* is locked.                                                              *)
build_mongodb_find_response(c, command) ==
    /\ session[c].pc = "idle"
    /\ IF FindIsValid(command) /\ execute_mongodb_find_for_table(command) # {}
       THEN \E rows \in execute_mongodb_find_for_table(command) :
              \E n \in IF command.batch_size = {} THEN {Len(rows)} ELSE command.batch_size :
                 LET parts == split_off(rows, n)
                     open  == n < Len(rows) /\ ~command.single_batch
                 IN  /\ cursor_id' = IF open THEN cursor_id + 1 ELSE cursor_id
                     /\ session' = [session EXCEPT ![c] =
                          [pc |-> IF open THEN "register" ELSE "open", command |-> command, used_at |-> now,
                           sent |-> IF open THEN << >> ELSE AtMostRows(rows, {n}),
                           id |-> IF open THEN cursor_id ELSE 0, killed |-> FALSE,
                           first |-> IF open THEN parts[1] ELSE << >>,
                           cursor |-> IF open THEN {[remaining_rows |-> parts[2],
                                                     no_cursor_timeout |-> command.no_cursor_timeout,
                                                     expires_at_ms |-> next_cursor_expiry_ms(command.no_cursor_timeout)]}
                                      ELSE {}]]
       ELSE /\ session' = [session EXCEPT ![c] = [pc |-> "failed", command |-> command]]
            /\ UNCHANGED cursor_id
    /\ UNCHANGED <<now, cursors>>

register_mongo_cursor(c) ==
    /\ session[c].pc = "register"
    /\ \E cursor \in session[c].cursor : cursors' = With(prune_expired_mongo_cursors, session[c].id, cursor)
    /\ session' = [session EXCEPT ![c] = [@ EXCEPT !.pc = "open", !.sent = session[c].first,
                                                   !.first = << >>, !.cursor = {}]]
    /\ UNCHANGED <<now, cursor_id>>

(* A cursor with rows left goes back with a new idle time. *)
RefreshExpiry(cursor) == [cursor EXCEPT !.expires_at_ms = next_cursor_expiry_ms(cursor.no_cursor_timeout)]

(* getMore on the client's cursor: up to n rows, and a new idle time if    *)
(* some remain.                                                            *)
execute_mongodb_get_more(c, n) ==
    /\ session[c].pc = "open" /\ session[c].id \in DOMAIN prune_expired_mongo_cursors
    /\ LET cursor == cursors[session[c].id]
           parts  == split_off(cursor.remaining_rows, n)
       IN  /\ n =< Len(cursor.remaining_rows)
           /\ IF parts[2] = << >>
              THEN cursors' = Without(prune_expired_mongo_cursors, session[c].id) /\ Send(c, parts[1], 0)
              ELSE /\ cursors' = With(prune_expired_mongo_cursors, session[c].id,
                                      RefreshExpiry([cursor EXCEPT !.remaining_rows = parts[2]]))
                   /\ Send(c, parts[1], session[c].id)
    /\ UNCHANGED <<now, cursor_id>>

(* getMore or killCursors for a cursor that is gone or belongs to another  *)
(* collection: an error, after the expired cursors were pruned.            *)
refuse_cursor ==
    /\ prune_expired_mongo_cursors # cursors
    /\ cursors' = prune_expired_mongo_cursors
    /\ UNCHANGED <<now, cursor_id, session>>

execute_mongodb_kill_cursors(c) ==
    /\ session[c].pc = "open" /\ session[c].id \in DOMAIN prune_expired_mongo_cursors
    /\ cursors' = Without(prune_expired_mongo_cursors, session[c].id)
    /\ session' = [session EXCEPT ![c].killed = TRUE]
    /\ UNCHANGED <<now, cursor_id>>

tick ==
    /\ now < LastTime
    /\ now' = now + 1
    /\ UNCHANGED <<cursors, cursor_id, session>>

-----------------------------------------------------------------------------
MongoInit ==
    /\ now = 0 /\ cursors = << >> /\ cursor_id = 1
    /\ session = [c \in MongoClients |-> [pc |-> "idle"]]

MongoNext ==
    \/ \E c \in MongoClients :
          \/ \E command \in Finds : build_mongodb_find_response(c, command)
          \/ register_mongo_cursor(c)
          \/ \E n \in 1..Len(Rows) : execute_mongodb_get_more(c, n)
          \/ execute_mongodb_kill_cursors(c)
    \/ refuse_cursor
    \/ tick

MongoSpec == MongoInit /\ [][MongoNext]_mongoVars

-----------------------------------------------------------------------------
(* What a client asked for, in its own terms: documents have _id, and hide *)
(* the column behind it unless the projection names it.                    *)
Answer(command) ==
    LET Value(r, f) == r[rewrite_mongodb_field_name(f)]
        hits == SelectSeq(Rows, LAMBDA r : \A doc \in command.filter :
                    \A f \in DOMAIN doc : Meets(Value(r, f), doc[f]))
        page == AtMostRows(Ordered(hits, rewrite_mongodb_sort(command.sort)), command.limit \ {0})
        shown == IF \E p \in command.projection : \E f \in DOMAIN p : p[f]
                 THEN {f \in UNION {DOMAIN p : p \in command.projection} : \A p \in command.projection : p[f]}
                        \cup (IF \E p \in command.projection : "_id" \in DOMAIN p /\ ~p["_id"] THEN {} ELSE {"_id"})
                 ELSE (DOMAIN Rows[1] \ {IdField})
                        \cup (IF \E p \in command.projection : "_id" \in DOMAIN p THEN {} ELSE {"_id"})
    IN  [i \in DOMAIN page |-> [f \in shown |-> Value(page[i], f)]]

(* Each find that is accepted sends the documents it asked for, each once  *)
(* and in order, over as many batches as its cursor lives for; a response  *)
(* with cursor id 0 to a find that is not single batch ends the answer.    *)
BatchesAreExact ==
    \A c \in MongoClients : session[c].pc \in {"register", "open"} =>
        LET s    == session[c]
            all  == Answer(s.command)
            rest == IF s.pc = "register" THEN s.first \o (CHOOSE x \in s.cursor : TRUE).remaining_rows
                    ELSE IF s.id \in DOMAIN cursors THEN cursors[s.id].remaining_rows ELSE << >>
        IN  /\ IsPrefix(s.sent \o rest, all)
            /\ s.pc = "register" \/ s.id \in DOMAIN cursors => s.sent \o rest = all /\ rest # << >>
            /\ s.pc = "open" /\ s.id = 0 /\ ~s.command.single_batch => s.sent = all

=============================================================================
