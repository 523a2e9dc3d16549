------------------------------ MODULE QueryPath ------------------------------
(***************************************************************************)
(* Which files a query may skip: the statistics, partition values and      *)
(* exact-pruning summaries the planner consults before it opens a file     *)
(* (query_core/src/query_path.rs, the pruning half of                      *)
(* query_runtime/src/lakehouse_serving.rs, and the writer of the summaries *)
(* in query_runtime/src/elastic_search_index.rs).                          *)
(*                                                                         *)
(* Scalars of a column are integers: the code compares two scalars only    *)
(* when they have the same JSON type, and any total order behaves alike.   *)
(* A row is a function from field names to integers or Null.  The          *)
(* conditions on one field form a predicate, in which Null stands for an   *)
(* absent bound and {} for an absent IN list.                              *)
(***************************************************************************)
EXTENDS Integers, FiniteSets, Sequences

CONSTANTS
    Null,                       \* JSON null and Rust's None
    EXACT_PRUNING_VALUE_LIMIT   \* distinct values a summary may list

ASSUME NullAssumption == Null \notin Int
ASSUME ValueLimitAssumption == EXACT_PRUNING_VALUE_LIMIT \in Nat

Scalar == Int \cup {Null}

QueryPredicate(field) ==
    [field: {field}, eq: Scalar, in_values: SUBSET Int,
     gt: Scalar, gte: Scalar, lt: Scalar, lte: Scalar]

-----------------------------------------------------------------------------
(* What a predicate means to the SQL engine: NULL satisfies none.          *)

Satisfies(v, p) ==
    /\ v # Null
    /\ p.eq # Null => v = p.eq
    /\ p.in_values # {} => v \in p.in_values
    /\ p.gt # Null => v > p.gt
    /\ p.gte # Null => v >= p.gte
    /\ p.lt # Null => v < p.lt
    /\ p.lte # Null => v <= p.lte

RowSatisfies(row, predicates) ==
    \A p \in predicates : Satisfies(row[p.field], p)

-----------------------------------------------------------------------------
(* Column statistics of a file or of a row group.                          *)

column_is_all_null(column, record_count) ==
    /\ column.null_count # Null
    /\ record_count # Null
    /\ column.null_count >= record_count

StrictLowerBound(column, record_count, value) ==
    /\ ~column_is_all_null(column, record_count)
    /\ column.lower_bound # Null => value > column.lower_bound
    /\ column.upper_bound # Null => value <= column.upper_bound

equality_may_match(column, record_count, value) ==
    /\ ~column_is_all_null(column, record_count)
    /\ column.lower_bound # Null => value >= column.lower_bound
    /\ column.upper_bound # Null => value <= column.upper_bound

range_may_match(column, record_count, p) ==
    /\ ~column_is_all_null(column, record_count)
    /\ p.gt # Null /\ column.upper_bound # Null => column.upper_bound > p.gt
    /\ p.gte # Null /\ column.upper_bound # Null => column.upper_bound >= p.gte
    /\ p.lt # Null /\ column.lower_bound # Null => column.lower_bound < p.lt
    /\ p.lte # Null /\ column.lower_bound # Null => column.lower_bound <= p.lte

predicate_may_match_stats(column, record_count, p) ==
    IF p.eq # Null
    THEN equality_may_match(column, record_count, p.eq)
    ELSE IF p.in_values # {}
    THEN \E v \in p.in_values : equality_may_match(column, record_count, v)
    ELSE range_may_match(column, record_count, p)

\* One operator for files and row groups: both carry a record count and
\* per-column statistics, and a column without statistics never excludes.
may_match_predicates(stats, predicates) ==
    \A p \in predicates :
        p.field \in DOMAIN stats.columns =>
            predicate_may_match_stats(stats.columns[p.field],
                                      stats.record_count, p)

-----------------------------------------------------------------------------
(* Identity partition values: every row of the file carries the value.     *)

partition_range_may_match(value, p) ==
    /\ p.gt # Null => value > p.gt
    /\ p.gte # Null => value >= p.gte
    /\ p.lt # Null => value < p.lt
    /\ p.lte # Null => value <= p.lte

partition_predicate_may_match_file(value, p) ==
    IF p.eq # Null THEN p.eq = value
    ELSE IF p.in_values # {} THEN value \in p.in_values
    ELSE partition_range_may_match(value, p)

\* stats.partition maps the source fields with an identity transform to the
\* file's value; a null value decides nothing.
partition_values_may_match_request(stats, predicates) ==
    \A p \in predicates :
        p.field \in DOMAIN stats.partition =>
            \/ stats.partition[p.field] = Null
            \/ partition_predicate_may_match_file(stats.partition[p.field], p)

\* One file's turn in prune_candidate_files: a file without statistics is
\* kept, row groups are consulted when the footer lists any.
FileIsCandidate(stats, predicates) ==
    \/ stats = Null
    \/ /\ partition_values_may_match_request(stats, predicates)
       /\ IF stats.row_groups = {}
          THEN may_match_predicates(stats, predicates)
          ELSE \E g \in stats.row_groups : may_match_predicates(g, predicates)

-----------------------------------------------------------------------------
(* Exact-pruning summaries: the distinct values of a column, or the mark   *)
(* that there were too many of them.                                       *)

ColumnValues(rows, field) == {r[field] : r \in rows} \ {Null}

create_exact_pruning_worker(rows, field) ==
    IF Cardinality(ColumnValues(rows, field)) > EXACT_PRUNING_VALUE_LIMIT
    THEN [complete |-> FALSE, values |-> {}]
    ELSE [complete |-> TRUE, values |-> ColumnValues(rows, field)]

exact_pruning_value_matches(summary, value) == value \in summary.values

exact_pruning_summary_may_match_request(rows, fields, predicates) ==
    \A p \in predicates :
        p.field \in fields =>
            LET summary == create_exact_pruning_worker(rows, p.field)
            IN  summary.complete =>
                  /\ p.eq # Null => exact_pruning_value_matches(summary, p.eq)
                  /\ p.in_values # {} =>
                        \E v \in p.in_values : exact_pruning_value_matches(summary, v)

-----------------------------------------------------------------------------
(* Statistics that tell the truth about the rows they describe.            *)

Column == [null_count: Scalar, lower_bound: Scalar, upper_bound: Scalar]

ColumnDescribes(column, record_count, field, rows) ==
    /\ column_is_all_null(column, record_count) =>
           \A r \in rows : r[field] = Null
    /\ \A r \in rows : r[field] # Null =>
           /\ column.lower_bound # Null => column.lower_bound <= r[field]
           /\ column.upper_bound # Null => r[field] <= column.upper_bound

Describes(stats, rows) ==
    \A f \in DOMAIN stats.columns :
        /\ stats.columns[f] \in Column
        /\ ColumnDescribes(stats.columns[f], stats.record_count, f, rows)

=============================================================================
