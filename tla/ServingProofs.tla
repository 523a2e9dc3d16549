---------------------------- MODULE ServingProofs ----------------------------
(***************************************************************************)
(* Pruning has no false negatives, for every table, every statistics the   *)
(* Iceberg writer may record truthfully, and every request.                *)
(***************************************************************************)
EXTENDS LakehouseServing, TLAPS

\* A value that lies in the described column and satisfies the predicate
\* passes the column test (predicate_may_match_stats).
LEMMA ColumnTestIsSafe ==
    ASSUME NEW column \in Column, NEW record_count, NEW f, NEW rows, NEW r \in rows,
           NEW p, p \in QueryPredicate(p.field),
           ColumnDescribes(column, record_count, f, rows),
           r[f] \in Scalar, Satisfies(r[f], p)
    PROVE  predicate_may_match_stats(column, record_count, p)
<1> DEFINE v == r[f]
<1>1. v \in Int /\ v # Null
  BY DEF Satisfies, Scalar
<1>2. ~column_is_all_null(column, record_count)
  BY <1>1 DEF ColumnDescribes
<1>3. /\ column.lower_bound \in Scalar /\ column.upper_bound \in Scalar
      /\ column.lower_bound # Null => column.lower_bound <= v
      /\ column.upper_bound # Null => v <= column.upper_bound
  BY <1>1 DEF ColumnDescribes, Column
<1>4. /\ p.eq \in Scalar /\ p.in_values \in SUBSET Int
      /\ p.gt \in Scalar /\ p.gte \in Scalar /\ p.lt \in Scalar /\ p.lte \in Scalar
  BY DEF QueryPredicate
<1>5. CASE p.eq # Null
  <2>1. p.eq = v
    BY <1>5 DEF Satisfies
  <2> QED BY <1>2, <1>3, <1>5, <2>1 DEF predicate_may_match_stats, equality_may_match
<1>6. CASE p.eq = Null /\ p.in_values # {}
  <2>1. v \in p.in_values
    BY <1>6 DEF Satisfies
  <2>2. equality_may_match(column, record_count, v)
    BY <1>2, <1>3 DEF equality_may_match
  <2> QED BY <1>6, <2>1, <2>2 DEF predicate_may_match_stats
<1>7. CASE p.eq = Null /\ p.in_values = {}
  <2>1. /\ p.gt # Null => v > p.gt
        /\ p.gte # Null => v >= p.gte
        /\ p.lt # Null => v < p.lt
        /\ p.lte # Null => v <= p.lte
    BY DEF Satisfies
  <2> HIDE DEF v
  <2>2. range_may_match(column, record_count, p)
    BY <1>1, <1>2, <1>3, <1>4, <2>1 DEF range_may_match, Scalar
  <2> QED BY <1>7, <2>2 DEF predicate_may_match_stats
<1> QED BY <1>5, <1>6, <1>7

\* The same for a whole set of predicates and statistics of a file or a row
\* group (file_may_match_predicates, row_group_may_match_predicates).
LEMMA StatisticsAreSafe ==
    ASSUME NEW stats, NEW rows, NEW r \in rows, NEW predicates,
           \A p \in predicates : p \in QueryPredicate(p.field) /\ r[p.field] \in Scalar,
           Describes(stats, rows), RowSatisfies(r, predicates)
    PROVE  may_match_predicates(stats, predicates)
<1> SUFFICES ASSUME NEW p \in predicates, p.field \in DOMAIN stats.columns
             PROVE  predicate_may_match_stats(stats.columns[p.field], stats.record_count, p)
  BY DEF may_match_predicates
<1>1. /\ stats.columns[p.field] \in Column
      /\ ColumnDescribes(stats.columns[p.field], stats.record_count, p.field, rows)
  BY DEF Describes
<1>2. Satisfies(r[p.field], p)
  BY DEF RowSatisfies
<1> QED BY <1>1, <1>2, ColumnTestIsSafe

\* An identity partition value that every row carries never excludes a file
\* with a matching row (partition_values_may_match_request).
LEMMA PartitionsAreSafe ==
    ASSUME NEW stats, NEW rows, NEW r \in rows, NEW predicates,
           \A f \in DOMAIN stats.partition : \A q \in rows : q[f] = stats.partition[f],
           RowSatisfies(r, predicates)
    PROVE  partition_values_may_match_request(stats, predicates)
<1> SUFFICES ASSUME NEW p \in predicates, p.field \in DOMAIN stats.partition,
                    stats.partition[p.field] # Null
             PROVE  partition_predicate_may_match_file(stats.partition[p.field], p)
  BY DEF partition_values_may_match_request
<1> DEFINE v == stats.partition[p.field]
<1>1. r[p.field] = v
  OBVIOUS
<1>2. Satisfies(v, p)
  BY <1>1 DEF RowSatisfies
<1> HIDE DEF v
<1>3. partition_predicate_may_match_file(v, p)
  BY <1>2 DEF Satisfies, partition_predicate_may_match_file, partition_range_may_match
<1> QED BY <1>3 DEF v

\* A file with a row that satisfies the predicates stays a candidate.
LEMMA CandidatesAreSafe ==
    ASSUME NEW stats, NEW rows, NEW r \in rows, NEW predicates,
           \A p \in predicates : p \in QueryPredicate(p.field) /\ r[p.field] \in Scalar,
           Truthful(stats, rows), RowSatisfies(r, predicates)
    PROVE  FileIsCandidate(stats, predicates)
<1>1. CASE stats = Null
  BY <1>1 DEF FileIsCandidate
<1>2. CASE stats # Null
  <2>1. partition_values_may_match_request(stats, predicates)
    BY <1>2, PartitionsAreSafe DEF Truthful
  <2>2. may_match_predicates(stats, predicates)
    BY <1>2, StatisticsAreSafe DEF Truthful
  <2>3. CASE stats.row_groups # {}
    <3>1. PICK g \in stats.row_groups : Describes(g, {r})
      BY <1>2, <2>3 DEF Truthful
    <3>2. may_match_predicates(g, predicates)
      BY <3>1, StatisticsAreSafe
    <3> QED BY <2>1, <2>3, <3>2 DEF FileIsCandidate
  <2> QED BY <2>1, <2>2, <2>3 DEF FileIsCandidate
<1> QED BY <1>1, <1>2

\* prune_candidate_files drops no file with a row the request asks for, in
\* any reachable state.  The table never changes, so the assumptions on the
\* tables carry over.
THEOREM PruningHasNoFalseNegatives == Spec => []PrunedFilesHoldNoMatch
<1> DEFINE Inv == table \in Snapshots /\ active \in DOMAIN table
<1>1. ASSUME Inv PROVE PrunedFilesHoldNoMatch
  <2> SUFFICES ASSUME NEW req \in Requests, NEW i \in DOMAIN table[active].files,
                      NEW r \in ToSet(table[active].files[i].rows),
                      RowSatisfies(r, req.filters)
               PROVE  FileIsCandidate(table[active].files[i].stats, req.filters)
    BY DEF PrunedFilesHoldNoMatch
  <2>1. /\ Truthful(table[active].files[i].stats, ToSet(table[active].files[i].rows))
        /\ \A f \in FilterFields : r[f] \in Scalar
    BY <1>1, TruthfulStatistics
  <2>2. \A p \in req.filters : p \in QueryPredicate(p.field) /\ p.field \in FilterFields
    BY ScalarFilters
  <2> QED BY <2>1, <2>2, CandidatesAreSafe
<1>2. Init => Inv
  BY NonEmptyTables DEF Init
<1>3. Inv /\ [Next]_servingVars => Inv'
  <2> SUFFICES ASSUME Inv, [Next]_servingVars PROVE Inv'
    OBVIOUS
  <2>1. CASE CutOver
    BY <2>1, NonEmptyTables DEF CutOver
  <2>2. table' = table /\ (active' = active \/ CutOver)
    BY DEF Next, servingVars, execute_serving_query, execute_checkpoint_point_lookup_rows,
           get_or_build_snapshot_lookup_cache, warm_checkpoint_point_lookup_caches, CutOver, Done
  <2> QED BY <2>1, <2>2
<1> QED BY <1>1, <1>2, <1>3, PTL DEF Spec
=============================================================================
