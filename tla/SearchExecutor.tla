---------------------------- MODULE SearchExecutor ----------------------------
(***************************************************************************)
(* A search as a client sees it (query_runtime/src/search_executor.rs,     *)
(* private_api.rs, query_server/src/elastic_search_endpoints.rs): the      *)
(* coordinator resolves the targets of the request, reads which checkpoint *)
(* of each is published, has every node search its share of the files, and *)
(* merges the parts.  Checkpoints are published while this happens and     *)
(* between the pages a client asks for with search_after.                  *)
(***************************************************************************)
EXTENDS SearchPlans, SearchAggregations

CONSTANTS
    SearchTables,      \* tables a request may name
    CheckpointOf,      \* table -> its checkpoints, oldest first
    FileOf,            \* file -> [iceberg, rows, stats, sidecars]
    RowOf,             \* the rows, a sequence of [key, seq, id, values, entries]
    Nodes,             \* number of peers
    NodeOf,            \* file -> the peer its path hashes to
    Requests,          \* [api, targets, query, sorts, size, aggs]
    MaxSearchFaults    \* lookups and peer calls that may fail

VARIABLES
    published,         \* table -> published checkpoint, 0 for none
    session,           \* the client's request and where it stands
    searchFaults

searchVars == <<published, session, searchFaults>>

-----------------------------------------------------------------------------
(* The files a node searches and the rows it finds in them.                *)

filter_files(checkpoint, node) == {f \in checkpoint.files : NodeOf[f] = node}

\* Files of the named extension; an index built before the exact sidecar
\* existed lacks it.
HasExtension(f) == FileOf[f].sidecars # "none"

file_may_match_search(f, q, with_stats, with_sidecars) ==
    /\ with_stats /\ FileOf[f].iceberg => StatsMayMatch(FileOf[f].stats, q)
    /\ with_sidecars /\ FileOf[f].sidecars = "full" =>
            exact_pruning_summary_may_match({RowOf[r].values : r \in ToSet(FileOf[f].rows)}, q)

required_files_have_extension_suffix(files, with_sidecars) ==
    \A f \in files : with_sidecars /\ FileOf[f].sidecars = "full"

NeedsIndex(q) == calculate_score(q) \/ compile_exact_sql_query(q)

\* determine_required_files fails when a file has no index the query needs;
\* a query with an exact form that is not scored is then tried without.
SearchFails(files, q) == calculate_score(q) /\ \E f \in files : ~HasExtension(f)

RowsInOrder(files) == FlattenSeq([i \in 1..Cardinality(files) |-> FileOf[SetToSeq(files)[i]].rows])

Repeat(r, n) == [i \in 1..n |-> r]

\* The rows of the SQL answer: each row as often as the join yields it.
data_query_batches(live, use_exact_sql, q) ==
    FlattenSeq([i \in 1..Len(live) |->
        LET t == RowOf[live[i]]
        IN  Repeat(live[i], IF use_exact_sql THEN ExactSqlMatches(q, t.values)
                            ELSE SqlMatches(q, t.values, t.entries))])

search_required_files(kept, with_sidecars, deletes, q) ==
    data_query_batches(
        SelectSeq(RowsInOrder(kept), LAMBDA r : RowOf[r].key \notin deletes),
        compile_exact_sql_query(q) /\ required_files_have_extension_suffix(kept, with_sidecars), q)

\* One node's answer over its files, read with the sidecars when all of
\* them have one, the files that cannot match left out.
search_query(files, statsFiles, deletes, q) ==
    LET with_sidecars == NeedsIndex(q) /\ \A f \in files : HasExtension(f)
    IN  search_required_files(
            {f \in files : file_may_match_search(f, q, f \in statsFiles, with_sidecars)},
            with_sidecars, deletes, q)

-----------------------------------------------------------------------------
(* Ranking.  Nulls compare greater than every value, and a descending sort *)
(* reverses that too; equal hits go newest first.                          *)

compare_sort_values(a, b) ==
    IF a = b THEN 0 ELSE IF a = Null THEN 1 ELSE IF b = Null THEN -1
    ELSE IF a < b THEN -1 ELSE 1

SortValues(r, sorts) == [i \in 1..Len(sorts) |-> RowOf[r].values[sorts[i].field]]

CompareBy(left, right, sorts) ==
    LET of(i) == (IF sorts[i].descending THEN -1 ELSE 1) * compare_sort_values(left[i], right[i])
        decisive == {i \in 1..Len(sorts) : of(i) # 0}
    IN  IF decisive = {} THEN 0 ELSE of(CHOOSE i \in decisive : \A j \in decisive : i <= j)

compare_hit_to_search_after(r, search_after, sorts) ==
    CompareBy(SortValues(r, sorts), search_after, sorts)

NewerFirst(a, b) ==
    Precedes(<<-RowOf[a].seq, RowOf[a].id>>, <<-RowOf[b].seq, RowOf[b].id>>)

compare_query_result_hits_by_sort(a, b, sorts) ==
    LET c == CompareBy(SortValues(a, sorts), SortValues(b, sorts), sorts)
    IN  c < 0 \/ (c = 0 /\ NewerFirst(a, b))

Sorted(hits, sorts) ==
    SortSeq(hits, LAMBDA a, b : compare_query_result_hits_by_sort(a, b, sorts))

hit_ref_buffer_limit(size) == 4 * size

trim_query_result_hit_refs(hits, size, sorts) == Head_(Sorted(hits, sorts), size)

PassesCursor(r, search_after, sorts) ==
    search_after = Null \/ compare_hit_to_search_after(r, search_after, sorts) > 0

\* The node keeps a bounded buffer and trims it to the best hits when full.
collect_query_result_hit_refs(found, size, sorts, search_after) ==
    LET push(hits, r) ==
            IF ~PassesCursor(r, search_after, sorts) THEN hits
            ELSE IF sorts = <<>> THEN (IF Len(hits) >= size THEN hits ELSE Append(hits, r))
            ELSE IF Len(hits) + 1 > hit_ref_buffer_limit(size)
            THEN trim_query_result_hit_refs(Append(hits, r), size, sorts)
            ELSE Append(hits, r)
        collected == FoldLeft(push, <<>>, found)
    IN  IF sorts = <<>> THEN collected ELSE trim_query_result_hit_refs(collected, size, sorts)

\* Without an explicit sort the peers' hits are concatenated; with one the
\* coordinator merges them and applies search_after again.
merge_hits(by_node, size, sorts, search_after) ==
    LET hits == FlattenSeq(by_node)
    IN  IF sorts = <<>> THEN Head_(hits, size)
        ELSE Head_(SelectSeq(Sorted(hits, sorts),
                             LAMBDA r : PassesCursor(r, search_after, sorts)), size)

-----------------------------------------------------------------------------
(* The coordinator.                                                        *)

Snapshot(table, at) == CheckpointOf[table][at]
Resolved(s) == {t \in DOMAIN s.resolved : s.resolved[t] # 0}

\* Targets whose requests can be folded into one: nothing but totals and
\* aggregations is asked for.
can_combine_private_search_invocations(req) ==
    req.api = "search" /\ Len(req.targets) > 1 /\ req.size = 0

\* What one peer returns for a set of tables searched together.  All their
\* files are read as one table, against the deletes of all of them; only
\* the statistics of the first are looked at.
PeerPart(s, tables, node) ==
    LET checkpoint(t) == Snapshot(t, s.resolved[t])
        first == s.request.targets[SelectInSeq(s.request.targets, LAMBDA t : t \in tables)]
    IN  search_query(UNION {filter_files(checkpoint(t), node) : t \in tables},
                     checkpoint(first).files,
                     UNION {checkpoint(t).deletes : t \in tables}, s.request.query)

\* The tables searched by one invocation each.
Invocations(s) ==
    IF can_combine_private_search_invocations(s.request)
    THEN (IF Resolved(s) = {} THEN {} ELSE {Resolved(s)})
    ELSE {{t} : t \in Resolved(s)}

PeerCalls(s) == SetToSeq(Invocations(s) \X (1..Nodes))

PartFails(s, call) ==
    \E t \in call[1] : SearchFails(filter_files(Snapshot(t, s.resolved[t]), call[2]), s.request.query)

CallPeers(s, calls) == [i \in 1..Len(calls) |-> PeerPart(s, calls[i][1], calls[i][2])]

build_typed_search_response(req, search_after, parts) ==
    LET values(rows) == [j \in 1..Len(rows) |-> RowOf[rows[j]].values]
    IN  [total |-> SumOf([i \in 1..Len(parts) |-> Len(parts[i])]),
         hits |-> merge_hits([i \in 1..Len(parts) |->
                    collect_query_result_hit_refs(parts[i], req.size, req.sorts, search_after)],
                    req.size, req.sorts, search_after),
         aggs |-> merge_typed_aggregation_partials(
                    [i \in 1..Len(parts) |->
                        compute_search_aggregation_partials(values(parts[i]), req.aggs)], req.aggs)]

-----------------------------------------------------------------------------
(* Actions.                                                                *)

Idle == [phase |-> "idle", request |-> Null, resolved |-> <<>>, waiting |-> <<>>,
         search_after |-> Null, answer |-> Null, pages |-> <<>>, steady |-> TRUE]

SearchInit ==
    /\ published \in [SearchTables -> {0, 1}]
    /\ session = Idle
    /\ searchFaults = 0

begin_search ==
    /\ session.phase = "idle"
    /\ \E req \in Requests :
        session' = [Idle EXCEPT !.phase = "resolving", !.request = req, !.waiting = req.targets]
    /\ UNCHANGED <<published, searchFaults>>

\* The published checkpoint of the next target.  A table without one, and
\* a lookup that fails, contribute nothing to the search.
current_target_snapshots ==
    /\ session.phase = "resolving"
    /\ session.waiting # <<>>
    /\ \E fails \in BOOLEAN :
        LET t == Head(session.waiting)
        IN  /\ fails => searchFaults < MaxSearchFaults
            /\ searchFaults' = searchFaults + (IF fails THEN 1 ELSE 0)
            /\ session' = [session EXCEPT
                    !.resolved = [u \in DOMAIN session.resolved \cup {t} |->
                        IF u = t THEN (IF fails THEN 0 ELSE published[t])
                        ELSE session.resolved[u]],
                    !.waiting = Tail(session.waiting)]
    /\ UNCHANGED published

\* Every peer is called and all of them must answer.
execute_private_search_invocation ==
    /\ session.phase = "resolving"
    /\ session.waiting = <<>>
    /\ \E down \in BOOLEAN :
        LET fails == down \/ \E call \in ToSet(PeerCalls(session)) : PartFails(session, call)
            answered(answer) == [session EXCEPT !.phase = "answered", !.answer = answer,
                                                !.pages = Append(@, answer.hits)]
        IN  /\ down => searchFaults < MaxSearchFaults /\ Resolved(session) # {}
            /\ searchFaults' = searchFaults + (IF down THEN 1 ELSE 0)
            /\ session' =
                IF fails THEN [session EXCEPT !.phase = "failed"]
                ELSE answered(build_typed_search_response(session.request,
                        session.search_after, CallPeers(session, PeerCalls(session))))
    /\ UNCHANGED published

\* A full page of a sorted search is followed by the next one, from the
\* sort values of its last hit; the checkpoints are looked up anew.
search_after ==
    /\ session.phase = "answered"
    /\ session.request.sorts # <<>>
    /\ session.request.size > 0
    /\ Len(session.answer.hits) = session.request.size
    /\ session' = [session EXCEPT !.phase = "resolving", !.waiting = session.request.targets,
                    !.search_after = SortValues(Last(session.answer.hits), session.request.sorts)]
    /\ UNCHANGED <<published, searchFaults>>

\* The control plane publishes the next checkpoint of a table.
publish_checkpoint ==
    \E t \in SearchTables :
        /\ published[t] < Len(CheckpointOf[t])
        /\ published' = [published EXCEPT ![t] = @ + 1]
        /\ session' = [session EXCEPT !.steady = @ /\ session.phase = "idle"]
        /\ UNCHANGED searchFaults

SearchNext ==
    \/ begin_search
    \/ current_target_snapshots
    \/ execute_private_search_invocation
    \/ search_after
    \/ publish_checkpoint

SearchSpec == SearchInit /\ [][SearchNext]_searchVars

-----------------------------------------------------------------------------
(* Properties.                                                             *)

LiveRows(s) ==
    UNION {LET c == Snapshot(t, s.resolved[t])
           IN  {r \in UNION {ToSet(FileOf[f].rows) : f \in c.files} : RowOf[r].key \notin c.deletes} :
           t \in Resolved(s)}

Expected(s) ==
    {r \in LiveRows(s) : Means(s.request.query, RowOf[r].values, RowOf[r].entries)}

\* Whatever sidecars, statistics and file layout the nodes used, and however
\* the files are spread over them, the total of an answer counts exactly the
\* live rows of the snapshots it was resolved against that satisfy the query
\* (search_query, build_typed_search_response).
TotalsAreExact ==
    session.phase = "answered" => session.answer.total = Cardinality(Expected(session))

\* The aggregations merged from the peers' partial results equal those of
\* all matching rows taken at once (merge_typed_aggregation_partials).
AggregationsAreExact ==
    session.phase = "answered" =>
        session.answer.aggs =
            Summary(session.request.aggs,
                    LET rows == SelectSeq([r \in 1..Len(RowOf) |-> r],
                                          LAMBDA r : r \in Expected(session))
                    IN  [i \in 1..Len(rows) |-> RowOf[rows[i]].values])

\* Paging with search_after delivers no row twice while nothing new is
\* published, and when it ends every matching row has been delivered, except
\* rows that tie with the last hit of a page: those are skipped
\* (apply_search_after, collect_query_result_hit_refs).
PagesAreExact ==
    LET s == session
        delivered == FlattenSeq(s.pages)
        lasts == {Last(s.pages[i]) : i \in {i \in 1..Len(s.pages) : s.pages[i] # <<>>}}
    IN  s.phase = "answered" /\ s.steady /\ s.request.sorts # <<>> /\ searchFaults = 0 =>
            /\ IsInjective(delivered)
            /\ ToSet(delivered) \subseteq Expected(s)
            /\ Len(s.answer.hits) < s.request.size =>
                 \A r \in Expected(s) \ ToSet(delivered) :
                    \E l \in lasts : SortValues(r, s.request.sorts) = SortValues(l, s.request.sorts)

\* Totals, aggregations and pages of a search are those of the rows it
\* matches, however they are spread over files and nodes.
SearchAnswersAreExact == TotalsAreExact /\ AggregationsAreExact /\ PagesAreExact

=============================================================================
