--------------------------- MODULE LakehouseServing ---------------------------
(***************************************************************************)
(* The serving path over published checkpoints                             *)
(* (query_runtime/src/lakehouse_serving.rs): planning and admission,       *)
(* pruning, the snapshot-lookup cache, exact-index lookups, ordered top-k  *)
(* with early stop, and partial aggregates.                                *)
(*                                                                         *)
(* A row carries its unique version uid, the document id, a key and an     *)
(* ord column; key and ord may be Null.  A snapshot is what a checkpoint   *)
(* fixes: files, speedboat files, deleted versions, the sort order of the  *)
(* table and which snapshot artifacts exist.  A request filters, sorts on  *)
(* at most one field, limits, projects, or aggregates ord by key.          *)
(* Rust's Option is a set with at most one member.                         *)
(***************************************************************************)
EXTENDS QueryPath, SequencesExt

CONSTANTS
    Clients,                    \* concurrent requests
    Snapshots,                  \* tables: the snapshots of their consecutive checkpoints
    Requests,
    Patterns,                   \* declared serving patterns
    MAX_EXACT_LOOKUP_DOC_IDS,
    FAST_PATH_MAX_FILES,
    SLOW_PATH_MAX_FILES

\* What the Iceberg writer guarantees of the statistics it records.
Truthful(stats, rows) ==
    stats # Null =>
        /\ Describes(stats, rows)
        /\ \A f \in DOMAIN stats.partition : \A r \in rows : r[f] = stats.partition[f]
        /\ stats.row_groups # {} =>
               \A r \in rows : \E g \in stats.row_groups : Describes(g, {r})

FilterFields == {"id", "key", "ord"}

ASSUME ScalarFilters ==
    \A req \in Requests : \A p \in req.filters :
        p \in QueryPredicate(p.field) /\ p.field \in FilterFields

ASSUME NonEmptyTables == \A t \in Snapshots : Len(t) \in Nat \ {0} /\ DOMAIN t = 1..Len(t)

ASSUME TruthfulStatistics ==
    \A t \in Snapshots : \A cp \in DOMAIN t : \A i \in DOMAIN t[cp].files :
        /\ Truthful(t[cp].files[i].stats, ToSet(t[cp].files[i].rows))
        /\ \A r \in ToSet(t[cp].files[i].rows) : \A f \in FilterFields : r[f] \in Scalar

VARIABLES
    table,          \* checkpoint number -> snapshot
    active,         \* the published active checkpoint
    lookup_cache,   \* SNAPSHOT_LOOKUP_CACHE: checkpoint -> {} or {rows}
    client          \* request in progress of each client, and its answer

servingVars == <<table, active, lookup_cache, client>>

Take(s, n) == SubSeq(s, 1, Min({n, Len(s)}))

-----------------------------------------------------------------------------
(* Ordering.  Null is the greatest value: last ascending, first descending.*)

Less(a, b) == a # Null /\ (b = Null \/ a < b)

compare_sort_values(a, b, descending) ==
    IF descending THEN Less(b, a) ELSE Less(a, b)

\* A stable sort on the values of one field.
SortRows(rows, values, descending) ==
    LET before(i, j) ==
            \/ compare_sort_values(values[i], values[j], descending)
            \/ /\ ~compare_sort_values(values[j], values[i], descending)
               /\ i < j
        order == SetToSortSeq(DOMAIN rows, before)
    IN  [k \in DOMAIN rows |-> rows[order[k]]]

-----------------------------------------------------------------------------
(* Planning.                                                               *)

prune_candidate_files(files, filters) ==
    SelectSeq(files, LAMBDA f : FileIsCandidate(f.stats, filters))

UsesExact(p) == p.eq # Null \/ p.in_values # {}
UsesRange(p) == p.gt # Null \/ p.gte # Null \/ p.lt # Null \/ p.lte # Null

request_matches_pattern(req, pattern) ==
    /\ req.limit <= pattern.max_limit
    /\ req.select \subseteq pattern.projection
    /\ req.aggregate = pattern.aggregate
    /\ req.order_by = pattern.order_by
    /\ {p.field : p \in {q \in req.filters : UsesExact(q)}} = pattern.eq_fields
    /\ {p.field : p \in {q \in req.filters : UsesRange(q)}} = pattern.range_field

classify_request_with_admission(s, req, files_selected) ==
    LET matched == \E p \in Patterns : request_matches_pattern(req, p)
        cost == files_selected + Len(s.speedboat)
    IN  CASE req.aggregate # Null /\ ~matched -> "Rejected"
          [] cost > SLOW_PATH_MAX_FILES       -> "Rejected"
          [] matched /\ cost <= FAST_PATH_MAX_FILES -> "FastPath"
          [] OTHER                            -> "SlowPath"

plan_request(s, req) ==
    LET selected == prune_candidate_files(s.files, req.filters)
    IN  [selected_files |-> selected,
         classification |-> classify_request_with_admission(s, req, Len(selected))]

-----------------------------------------------------------------------------
(* Running the SQL of a request over one group of files with one schema.   *)

group_files_by_schema(files) ==
    {SelectSeq(files, LAMBDA f : f.schema = n) : n \in {files[i].schema : i \in DOMAIN files}}

ValuesOf(rows, field) == [i \in DOMAIN rows |-> rows[i][field]]

RowsOf(files) == FlattenSeq([i \in DOMAIN files |-> files[i].rows])

LiveRows(rows, deletes) == SelectSeq(rows, LAMBDA r : r.uid \notin deletes)

execute_query_input_group_plan(group, deletes, req, limit) ==
    LET found == SelectSeq(LiveRows(RowsOf(group), deletes),
                           LAMBDA r : RowSatisfies(r, req.filters))
    IN  IF req.order_by = <<>>
        THEN Take(found, limit)
        ELSE Take(SortRows(found, ValuesOf(found, req.order_by[1].field),
                           req.order_by[1].descending), limit)

\* The rows that reach merge_rows are projected: a sort field outside the
\* projection is missing from both sides and compares as equal.
Projected(rows, req, field) ==
    [i \in DOMAIN rows |-> IF field \in req.select THEN rows[i][field] ELSE Null]

merge_rows(rows, new_rows, req, limit) ==
    IF req.order_by = <<>>
    THEN Take(rows \o new_rows, 4 * limit)
    ELSE Take(SortRows(rows \o new_rows,
                       Projected(rows \o new_rows, req, req.order_by[1].field),
                       req.order_by[1].descending), limit)

\* Iceberg and speedboat files never share a group; groups answer in any
\* order, which the caller picks.
serving_query_input_groups(files, speedboat) ==
    group_files_by_schema(files) \cup group_files_by_schema(speedboat)

execute_parallel_plan(order, deletes, req, limit) ==
    FoldLeft(LAMBDA rows, g :
                 merge_rows(rows, execute_query_input_group_plan(g, deletes, req, limit),
                            req, limit),
             <<>>, order)

-----------------------------------------------------------------------------
(* Ordered top-k: groups by their best possible value, until the next one  *)
(* cannot beat the k-th row.                                               *)

column_sort_bound(stats, field, descending) ==
    IF field \notin DOMAIN stats.columns THEN {}
    ELSE LET column == stats.columns[field]
         IN  IF column_is_all_null(column, stats.record_count) THEN {Null}
             ELSE (IF descending THEN {column.upper_bound} ELSE {column.lower_bound}) \ {Null}

file_level_sort_bound(stats, sort_order, field, descending) ==
    IF field \notin DOMAIN stats.columns /\ sort_order = field
    THEN IF field \in DOMAIN stats.partition THEN {stats.partition[field]} \ {Null} ELSE {}
    ELSE column_sort_bound(stats, field, descending)

BestBound(bounds, descending) ==
    {CHOOSE v \in bounds : \A w \in bounds : ~compare_sort_values(w, v, descending)}

file_sort_bound(file, s, req, field, descending) ==
    IF file.stats = Null THEN {}
    ELSE IF file.stats.row_groups = {}
    THEN file_level_sort_bound(file.stats, s.sort_order, field, descending)
    ELSE LET matching == {g \in file.stats.row_groups : may_match_predicates(g, req.filters)}
             bounds == {column_sort_bound(g, field, descending) : g \in matching}
         IN  CASE matching = {}   -> {}
               [] {} \in bounds   -> file_level_sort_bound(file.stats, s.sort_order,
                                                           field, descending)
               [] OTHER           -> BestBound(UNION bounds, descending)

file_group_sort_bound(group, s, req, field, descending) ==
    LET bounds == {file_sort_bound(group[i], s, req, field, descending) : i \in DOMAIN group}
    IN  IF {} \in bounds THEN {} ELSE BestBound(UNION bounds, descending)

\* {} when some group has no bound, else the groups in order of promise.
ordered_file_groups_for_top_k(files, s, req) ==
    LET field == req.order_by[1].field
        descending == req.order_by[1].descending
        groups == {[files |-> g,
                    bound |-> file_group_sort_bound(g, s, req, field, descending)] :
                       g \in group_files_by_schema(files)}
        value(g) == CHOOSE v \in g.bound : TRUE
        before(g, h) ==
            \/ compare_sort_values(value(g), value(h), descending)
            \/ /\ ~compare_sort_values(value(h), value(g), descending)
               /\ g.files[1].schema < h.files[1].schema
    IN  IF \E g \in groups : g.bound = {} THEN {}
        ELSE {SetToSortSeq(groups, before)}

remaining_groups_cannot_beat_kth_row(rows, bound, req, limit) ==
    /\ limit > 0 /\ Len(rows) >= limit
    /\ req.order_by[1].field \in req.select
    /\ \A v \in bound :
           compare_sort_values(rows[limit][req.order_by[1].field], v,
                               req.order_by[1].descending)

execute_ordered_top_k_plan(groups, deletes, req, limit) ==
    LET step(acc, g) ==
            IF acc.done \/ remaining_groups_cannot_beat_kth_row(acc.rows, g.bound, req, limit)
            THEN [acc EXCEPT !.done = TRUE]
            ELSE [acc EXCEPT !.rows = merge_rows(@,
                      execute_query_input_group_plan(g.files, deletes, req, limit), req, limit)]
    IN  FoldLeft(step, [rows |-> <<>>, done |-> FALSE], groups).rows

-----------------------------------------------------------------------------
(* Aggregates of ord, by key or over everything.  Every input group is     *)
(* aggregated by SQL, limited without an order, and the partial rows are   *)
(* merged.  avg is kept as its sum and count.                              *)

GroupKeys(rows, agg) == {IF agg = "by_key" THEN rows[i].key ELSE Null : i \in DOMAIN rows}

Measures(rows) ==
    LET vals == SelectSeq([i \in DOMAIN rows |-> rows[i].ord], LAMBDA v : v # Null)
        set == ToSet(vals)
    IN  [count |-> Len(rows), n |-> Len(vals),
         sum |-> IF set = {} THEN Null ELSE FoldLeft(LAMBDA a, b : a + b, 0, vals),
         min |-> IF set = {} THEN Null ELSE Min(set),
         max |-> IF set = {} THEN Null ELSE Max(set)]

build_aggregate_sql(rows, agg) ==
    [k \in GroupKeys(rows, agg) |->
        Measures(SelectSeq(rows, LAMBDA r : agg = "by_key" => r.key = k))]

AddSum(a, b) == IF b = Null THEN a ELSE IF a = Null THEN b ELSE a + b

merge_extreme_value(a, b, isMin) ==
    CASE b = Null -> a
      [] a = Null -> b
      [] OTHER    -> IF isMin THEN Min({a, b}) ELSE Max({a, b})

MergeMeasures(a, b) ==
    [count |-> a.count + b.count, n |-> a.n + b.n, sum |-> AddSum(a.sum, b.sum),
     min |-> merge_extreme_value(a.min, b.min, TRUE),
     max |-> merge_extreme_value(a.max, b.max, FALSE)]

merge_partial_aggregate_rows(merged, partial) ==
    [k \in DOMAIN merged \cup DOMAIN partial |->
        IF k \notin DOMAIN merged THEN partial[k]
        ELSE IF k \notin DOMAIN partial THEN merged[k]
        ELSE MergeMeasures(merged[k], partial[k])]

empty_aggregate_rows(agg) ==
    IF agg = "by_key" THEN <<>> ELSE <<[key |-> Null, row |-> Measures(<<>>)]>>

finalize_aggregate_rows(merged, agg, limit) ==
    LET keys == SetToSortSeq(DOMAIN merged, Less)
        rows == [i \in DOMAIN keys |-> [key |-> keys[i], row |-> merged[keys[i]]]]
    IN  CASE rows = <<>>     -> empty_aggregate_rows(agg)
          [] agg = "by_key"  -> Take(rows, limit)
          [] OTHER           -> rows

\* With no GROUP BY the SQL returns one row even over nothing.
execute_aggregate_plan(order, deletes, req, limit) ==
    LET agg == req.aggregate
        partial(g) ==
            LET rows == SelectSeq(LiveRows(RowsOf(g), deletes),
                                  LAMBDA r : RowSatisfies(r, req.filters))
                full == build_aggregate_sql(rows, agg)
                kept == ToSet(Take(SetToSeq(DOMAIN full), limit))
            IN  IF agg = "total" /\ rows = <<>> THEN Null :> Measures(<<>>)
                ELSE [k \in kept |-> full[k]]
    IN  IF order = <<>> THEN empty_aggregate_rows(agg)
        ELSE finalize_aggregate_rows(
                 FoldLeft(LAMBDA m, g : merge_partial_aggregate_rows(m, partial(g)),
                          <<>>, order), agg, limit)

-----------------------------------------------------------------------------
(* Lookups that never reach SQL.                                           *)

exact_lookup_predicates(req) ==
    /\ req.aggregate = Null
    /\ req.order_by = <<>>
    /\ req.filters # {}
    /\ \A p \in req.filters : ~UsesRange(p)

\* The single equality of a key-range plan, {} when there is none or several.
RangeKey(req) ==
    LET exact == {p \in req.filters : UsesExact(p)}
        values(p) == IF p.eq # Null THEN {p.eq} ELSE p.in_values
    IN  {p \in exact : Cardinality(exact) = 1 /\ Cardinality(values(p)) = 1}

snapshot_lookup_plan(req) ==
    LET ranges == {p \in req.filters : UsesRange(p)}
        sort == req.order_by
    IN  CASE exact_lookup_predicates(req) -> "Exact"
          [] /\ req.aggregate = Null
             /\ RangeKey(req) # {}
             /\ Cardinality(ranges) <= 1
             /\ IF sort # <<>>
                THEN IF ranges # {} THEN \A p \in ranges : p.field = sort[1].field
                     ELSE \A p \in RangeKey(req) : p.field # sort[1].field
                ELSE ranges # {}             -> "KeyRange"
          [] OTHER                           -> "None"

snapshot_worker_exact_rows(rows, req, limit) ==
    Take(SelectSeq(rows, LAMBDA r : RowSatisfies(r, req.filters)), limit)

\* The rows of one key sit in ascending order and are walked backwards for a
\* descending request.
snapshot_worker_key_range_rows(rows, req, limit) ==
    LET key == CHOOSE p \in RangeKey(req) : TRUE
        ranges == {p \in req.filters : UsesRange(p)}
        field == IF req.order_by # <<>> THEN req.order_by[1].field
                 ELSE (CHOOSE p \in ranges : TRUE).field
        descending == req.order_by # <<>> /\ req.order_by[1].descending
        matching == SelectSeq(rows, LAMBDA r : Satisfies(r[key.field], key))
        partition == SortRows(matching, ValuesOf(matching, field), FALSE)
    IN  Take(SelectSeq(IF descending THEN Reverse(partition) ELSE partition,
                       LAMBDA r : RowSatisfies(r, ranges)), limit)

\* The artifact of the checkpoint when there is one, else a scan of the files
\* the caller holds.
build_snapshot_lookup_cache(s, files) ==
    LiveRows(RowsOf(IF s.lookup_artifact THEN s.files ELSE files), s.deletes)

\* The exact-id artifact keeps the newest version of every document.
is_better_exact_lookup_entry(r, q) == r.uid > q.uid

OldestEntry(s, id) ==
    LET versions == {r \in ToSet(RowsOf(s.files)) : r.id = id}
    IN  {r \in versions : \A q \in versions : ~is_better_exact_lookup_entry(r, q)}

build_snapshot_exact_lookup_cache(s, id) ==
    LET versions == {r \in ToSet(LiveRows(RowsOf(s.files), s.deletes)) : r.id = id}
    IN  {r \in versions : \A q \in versions : ~is_better_exact_lookup_entry(q, r)}

\* The values of a request that filters on the document id and nothing else.
exact_id_lookup_values(req) ==
    IF exact_lookup_predicates(req) /\ {p.field : p \in req.filters} = {"id"}
    THEN UNION {IF p.eq # Null THEN {p.eq} ELSE p.in_values : p \in req.filters}
    ELSE {}

maybe_execute_snapshot_exact_lookup_artifact(s, req, limit) ==
    Take(SetToSeq(UNION {build_snapshot_exact_lookup_cache(s, id) :
                             id \in exact_id_lookup_values(req)}), limit)

load_exact_lookup_doc_ids(file, req) ==
    {r.uid : r \in {q \in ToSet(file.rows) :
        Cardinality({p \in req.filters : Satisfies(q[p.field], p)})
            = Cardinality(req.filters)}}

execute_exact_lookup_file(file, doc_ids, deletes, limit) ==
    Take(SelectSeq(LiveRows(file.rows, deletes), LAMBDA r : r.uid \in doc_ids), limit)

\* {} when the lookup does not apply.
maybe_execute_exact_lookup(files, s, req, limit) ==
    LET all == files \o s.speedboat
    IN  IF /\ exact_lookup_predicates(req)
           /\ \A i \in DOMAIN all :
                  /\ "exact_index" \in all[i].sidecars
                  /\ Cardinality(load_exact_lookup_doc_ids(all[i], req))
                         <= MAX_EXACT_LOOKUP_DOC_IDS
        THEN {FoldLeft(LAMBDA rows, f :
                  merge_rows(rows, execute_exact_lookup_file(f,
                      load_exact_lookup_doc_ids(f, req), s.deletes, limit), req, limit),
                  <<>>, all)}
        ELSE {}

prune_execution_files_with_exact_artifact(files, req) ==
    IF /\ \E p \in req.filters : UsesExact(p)
       /\ \A i \in DOMAIN files : "exact_pruning" \in files[i].sidecars
    THEN SelectSeq(files, LAMBDA f : exact_pruning_summary_may_match_request(
                              ToSet(f.rows), {"id", "key", "ord"}, req.filters))
    ELSE files

-----------------------------------------------------------------------------
(* What execute_plan does once the snapshot lookup has declined.  order is *)
(* the order in which the groups of files answer.                          *)

UsesTopK(speedboat, files, s, req) ==
    /\ speedboat = <<>>
    /\ req.order_by # <<>>
    /\ ordered_file_groups_for_top_k(files, s, req) # {}

ScanInputs(files, s, req) ==
    [files |-> prune_execution_files_with_exact_artifact(files, req),
     speedboat |-> prune_execution_files_with_exact_artifact(s.speedboat, req)]

execute_plan(files, s, req, order) ==
    LET in == ScanInputs(files, s, req)
    IN  CASE maybe_execute_exact_lookup(files, s, req, req.limit) # {} ->
                 CHOOSE rows \in maybe_execute_exact_lookup(files, s, req, req.limit) : TRUE
          [] req.aggregate # Null ->
                 execute_aggregate_plan(order, s.deletes, req, req.limit)
          [] UsesTopK(in.speedboat, in.files, s, req) ->
                 execute_ordered_top_k_plan(
                     CHOOSE g \in ordered_file_groups_for_top_k(in.files, s, req) : TRUE,
                     s.deletes, req, req.limit)
          [] OTHER -> execute_parallel_plan(order, s.deletes, req, req.limit)

\* The protocols' own reader: no top-k plan and no exact pruning.
execute_checkpoint_exact_lookup_rows(s, req, order) ==
    CASE maybe_execute_exact_lookup(s.files, s, req, req.limit) # {} ->
             CHOOSE rows \in maybe_execute_exact_lookup(s.files, s, req, req.limit) : TRUE
      [] req.aggregate # Null -> execute_aggregate_plan(order, s.deletes, req, req.limit)
      [] OTHER -> execute_parallel_plan(order, s.deletes, req, req.limit)

maybe_execute_snapshot_lookup(rows, req) ==
    IF snapshot_lookup_plan(req) = "Exact"
    THEN snapshot_worker_exact_rows(rows, req, req.limit)
    ELSE snapshot_worker_key_range_rows(rows, req, req.limit)

UsesSnapshotLookup(files, s, req) ==
    files # <<>> /\ s.speedboat = <<>> /\ snapshot_lookup_plan(req) # "None"

UsesIdArtifact(files, s, req) ==
    files # <<>> /\ s.speedboat = <<>> /\ s.exact_artifact /\ exact_id_lookup_values(req) # {}

-----------------------------------------------------------------------------
(* The state machine.                                                      *)

Idle == [phase |-> "idle"]

Answered(kind, cp, req, rows) ==
    [phase |-> "answered", kind |-> kind, cp |-> cp, req |-> req, rows |-> rows]

Init ==
    /\ table \in Snapshots
    /\ active = 1
    /\ lookup_cache = [cp \in DOMAIN table |-> {}]
    /\ client = [c \in Clients |-> Idle]

\* A request reads the active checkpoint, is planned and either refused,
\* answered from the id artifact, from the cached rows, by starting to build
\* the cache, or by the scans.
Execute(c, kind, req, files) ==
    LET s == table[active]
        answer(rows) == client' = [client EXCEPT ![c] = Answered(kind, active, req, rows)]
        truncated(rows) == IF kind = "serve" /\ req.order_by = <<>>
                           THEN Take(rows, req.limit) ELSE rows
    IN  CASE req.limit = 0 -> answer(<<>>)
          [] req.limit > 0 /\ UsesIdArtifact(files, s, req) ->
                answer(maybe_execute_snapshot_exact_lookup_artifact(s, req, req.limit))
          [] /\ req.limit > 0
             /\ ~UsesIdArtifact(files, s, req)
             /\ UsesSnapshotLookup(files, s, req) ->
                IF lookup_cache[active] # {}
                THEN \E rows \in lookup_cache[active] :
                        answer(maybe_execute_snapshot_lookup(rows, req))
                ELSE client' = [client EXCEPT ![c] =
                        [phase |-> "building", kind |-> kind, cp |-> active, req |-> req,
                         built |-> build_snapshot_lookup_cache(s, files)]]
          [] OTHER ->
                LET in == IF kind = "serve" THEN ScanInputs(files, s, req)
                          ELSE [files |-> files, speedboat |-> s.speedboat]
                IN  \E order \in SetToSeqs(serving_query_input_groups(in.files, in.speedboat)) :
                        answer(truncated(
                            IF kind = "serve" THEN execute_plan(files, s, req, order)
                            ELSE execute_checkpoint_exact_lookup_rows(s, req, order)))

execute_serving_query(c, req) ==
    LET plan == plan_request(table[active], req)
    IN  /\ client[c].phase = "idle"
        /\ IF \/ plan.classification = "Rejected"
              \/ plan.classification = "SlowPath" /\ ~req.allow_slow_path
           THEN client' = [client EXCEPT ![c] = [phase |-> "refused", req |-> req,
                                                 cp |-> active]]
           ELSE Execute(c, "serve", req, plan.selected_files)
        /\ UNCHANGED <<table, active, lookup_cache>>

\* Redis, MongoDB and DynamoDB reads hand over every file of the checkpoint.
execute_checkpoint_point_lookup_rows(c, req) ==
    /\ client[c].phase = "idle"
    /\ req.aggregate = Null /\ req.filters # {}
    /\ Execute(c, "point", req, table[active].files)
    /\ UNCHANGED <<table, active, lookup_cache>>

\* The cache is filled outside its lock; the first finished build stays.
FirstBuildWins(c) ==
    [lookup_cache EXCEPT ![client[c].cp] = IF @ = {} THEN {client[c].built} ELSE @]

get_or_build_snapshot_lookup_cache(c) ==
    /\ client[c].phase = "building"
    /\ lookup_cache' = FirstBuildWins(c)
    /\ \E rows \in lookup_cache'[client[c].cp] :
           client' = [client EXCEPT ![c] =
               Answered(@.kind, @.cp, @.req, maybe_execute_snapshot_lookup(rows, @.req))]
    /\ UNCHANGED <<table, active>>

\* A prefetching node warms the cache of a checkpoint from all its files.
warm_checkpoint_point_lookup_caches(cp) ==
    LET s == table[cp]
    IN  /\ s.files # <<>> /\ s.speedboat = <<>>
        /\ lookup_cache[cp] = {}
        /\ lookup_cache' = [lookup_cache EXCEPT ![cp] =
                                {build_snapshot_lookup_cache(s, s.files)}]
        /\ UNCHANGED <<table, active, client>>

\* The node activates the next published checkpoint.
CutOver ==
    /\ active < Len(table)
    /\ active' = active + 1
    /\ UNCHANGED <<table, lookup_cache, client>>

Done == (\A c \in Clients : client[c].phase \in {"answered", "refused"}) /\ UNCHANGED servingVars

Next ==
    \/ \E c \in Clients, req \in Requests :
           \/ execute_serving_query(c, req)
           \/ execute_checkpoint_point_lookup_rows(c, req)
    \/ \E c \in Clients : get_or_build_snapshot_lookup_cache(c)
    \/ \E cp \in DOMAIN table : warm_checkpoint_point_lookup_caches(cp)
    \/ CutOver
    \/ Done

Spec == Init /\ [][Next]_servingVars

-----------------------------------------------------------------------------
(* Properties.                                                             *)

Live(s) == ToSet(LiveRows(RowsOf(s.files \o s.speedboat), s.deletes))

MatchingRows(s, req) == {r \in Live(s) : RowSatisfies(r, req.filters)}

AnsweredBy(c, sorted, aggregated) ==
    /\ client[c].phase = "answered"
    /\ (client[c].req.order_by # <<>>) = sorted
    /\ (client[c].req.aggregate # Null) = aggregated

\* Every cached set of lookup rows is exactly the live rows of its
\* checkpoint, whichever request happened to build it
\* (get_or_build_snapshot_lookup_cache, keyed by table and checkpoint).
CachedLookupsAreWhole ==
    \A cp \in DOMAIN table : \A rows \in lookup_cache[cp] :
        ToSet(rows) = Live(table[cp]) /\ Len(rows) = Cardinality(Live(table[cp]))

\* A request that was not refused returns live rows of the checkpoint it
\* read that satisfy its filters, none twice, and as many as the limit
\* admits: no layer of pruning, lookup, caching or merging in execute_plan
\* loses a row.
ServedRowsAreComplete ==
    \A c \in Clients, sorted \in BOOLEAN : AnsweredBy(c, sorted, FALSE) =>
        LET a == client[c]
            wanted == MatchingRows(table[a.cp], a.req)
        IN  /\ ToSet(a.rows) \subseteq wanted
            /\ Cardinality(ToSet(a.rows)) = Len(a.rows)
            /\ Len(a.rows) >= Min({a.req.limit, Cardinality(wanted)})
            /\ a.kind = "serve" => Len(a.rows) <= a.req.limit

\* The two requests the ordered plans do not serve exactly: a sort field the
\* projection drops is invisible to merge_rows, and a bound that ignores
\* nulls misleads a descending early stop.
OrderIsVisible(s, req) ==
    LET sort == req.order_by[1]
    IN  /\ sort.field \in req.select
        /\ sort.descending => \A r \in MatchingRows(s, req) : r[sort.field] # Null

\* An ordered answer is sorted and no row left out sorts strictly before a
\* row returned, across groups, early stops and cached orderings
\* (execute_ordered_top_k_plan, snapshot_worker_key_range_rows).
OrderedAnswersAreTopK ==
    \A c \in Clients : AnsweredBy(c, TRUE, FALSE) =>
        LET a == client[c]
            sort == a.req.order_by[1]
            before(r, q) == compare_sort_values(r[sort.field], q[sort.field], sort.descending)
        IN  OrderIsVisible(table[a.cp], a.req) =>
                /\ \A i, j \in DOMAIN a.rows : i < j => ~before(a.rows[j], a.rows[i])
                /\ \A r \in MatchingRows(table[a.cp], a.req) \ ToSet(a.rows) :
                       \A i \in DOMAIN a.rows : ~before(r, a.rows[i])

\* Merging the partial aggregates of the groups gives what one aggregation
\* over all live matching rows gives, as long as the limit admits every
\* group (execute_aggregate_plan).
AggregatesAreExact ==
    \A c \in Clients : AnsweredBy(c, FALSE, TRUE) =>
        LET a == client[c]
            rows == SetToSeq(MatchingRows(table[a.cp], a.req))
            agg == a.req.aggregate
        IN  a.req.limit >= Cardinality(GroupKeys(rows, agg)) /\ a.req.limit > 0 =>
                a.rows = finalize_aggregate_rows(build_aggregate_sql(rows, agg), agg, a.req.limit)

\* A file the planner drops on statistics or partition values holds no row
\* that satisfies the request: pruning has no false negatives
\* (prune_candidate_files).
PrunedFilesHoldNoMatch ==
    \A req \in Requests : \A i \in DOMAIN table[active].files :
        LET f == table[active].files[i]
        IN  (\E r \in ToSet(f.rows) : RowSatisfies(r, req.filters))
                => FileIsCandidate(f.stats, req.filters)

\* Rows, ordered pages and aggregates a client is given are those of the
\* checkpoint it read, and so is what the caches keep for the next one.
ServedAnswersAreExact ==
    /\ CachedLookupsAreWhole
    /\ ServedRowsAreComplete
    /\ OrderedAnswersAreTopK
    /\ AggregatesAreExact

=============================================================================
