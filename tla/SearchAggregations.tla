-------------------------- MODULE SearchAggregations --------------------------
(***************************************************************************)
(* Aggregations of a search: every node computes partial results over its  *)
(* own rows (query_runtime/src/private_api.rs) and the coordinator merges  *)
(* them (query_runtime/src/search_executor.rs).                            *)
(*                                                                         *)
(* Rows come as sequences, because a joined row may appear twice.  Keys,   *)
(* numbers and timestamps of a column are integers, Null is a missing      *)
(* value.  Aggregations are told apart by position in the request.         *)
(***************************************************************************)
EXTENDS QueryPath, SequencesExt, FiniteSetsExt

Terms(field, size, order, missing, sub) ==
    [kind |-> "terms", field |-> field, size |-> size, order |-> order,
     missing |-> missing, sub |-> sub]
Average(field) == [kind |-> "average", field |-> field]
Distinct(field) == [kind |-> "cardinality", field |-> field]
DateHistogram(field, interval, min_doc_count, bounds, sub) ==
    [kind |-> "date_histogram", field |-> field, interval |-> interval,
     min_doc_count |-> min_doc_count, bounds |-> bounds, sub |-> sub]
FilterAgg(field, value, sub) ==
    [kind |-> "filter", field |-> field, value |-> value, sub |-> sub]

-----------------------------------------------------------------------------
(* A node's part.                                                          *)

BucketKey(t, interval) == t - (t % interval)

\* The bucket a row falls into, Null when it falls into none.
KeyOf(row, spec) ==
    CASE spec.kind = "terms" ->
            IF row[spec.field] # Null THEN row[spec.field] ELSE spec.missing
      [] spec.kind = "date_histogram" ->
            IF row[spec.field] # Null THEN BucketKey(row[spec.field], spec.interval)
            ELSE Null

Precedes(x, y) == x[1] < y[1] \/ (x[1] = y[1] /\ x[2] < y[2])

SumOf(numbers) == FoldLeft(LAMBDA acc, n : acc + n, 0, numbers)

row_matches_aggregation_filter_batch_row(row, spec) == row[spec.field] = spec.value

RECURSIVE compute_search_aggregation_partials(_, _)

BucketPartials(rows, spec) ==
    LET keys == {KeyOf(rows[i], spec) : i \in 1..Len(rows)} \ {Null}
        part(k) == SelectSeq(rows, LAMBDA r : KeyOf(r, spec) = k)
    IN  [k \in keys |->
            [doc_count |-> Len(part(k)),
             sub |-> compute_search_aggregation_partials(part(k), spec.sub)]]

compute_search_aggregation_partial(rows, spec) ==
    CASE spec.kind = "average" ->
            LET present == SelectSeq(rows, LAMBDA r : r[spec.field] # Null)
            IN  [sum |-> SumOf([i \in 1..Len(present) |-> present[i][spec.field]]),
                 count |-> Len(present)]
      [] spec.kind = "cardinality" ->
            {rows[i][spec.field] : i \in 1..Len(rows)} \ {Null}
      [] spec.kind \in {"terms", "date_histogram"} -> BucketPartials(rows, spec)
      [] spec.kind = "filter" ->
            LET kept == SelectSeq(rows,
                            LAMBDA r : row_matches_aggregation_filter_batch_row(r, spec))
            IN  [doc_count |-> Len(kept),
                 sub |-> compute_search_aggregation_partials(kept, spec.sub)]

compute_search_aggregation_partials(rows, specs) ==
    [i \in 1..Len(specs) |-> compute_search_aggregation_partial(rows, specs[i])]

-----------------------------------------------------------------------------
(* The coordinator's part.                                                 *)

compare_terms_aggregation_buckets(a, b, order) ==
    CASE order = "count_asc" ->
            Precedes(<<a.doc_count, a.key>>, <<b.doc_count, b.key>>)
      [] order = "count_desc" ->
            Precedes(<<-a.doc_count, a.key>>, <<-b.doc_count, b.key>>)
      [] order = "key_asc" -> a.key < b.key
      [] order = "key_desc" -> a.key > b.key

Head_(seq, n) == SubSeq(seq, 1, IF n < Len(seq) THEN n ELSE Len(seq))

EmptyBucket(key) == [key |-> key, doc_count |-> 0, aggs |-> <<>>]

Lowest(S) == CHOOSE x \in S : \A y \in S : x <= y
Highest(S) == CHOOSE x \in S : \A y \in S : x >= y

\* Buckets without rows between the first and the last one, or out to the
\* bounds the request extends the histogram to.
fill_empty_histogram_buckets(buckets, interval, bounds) ==
    LET keys == {b.key : b \in buckets} \cup
                (IF bounds = Null THEN {}
                 ELSE {BucketKey(bounds[1], interval), BucketKey(bounds[2], interval)})
        steps == IF keys = {} THEN {}
                 ELSE {k \in Lowest(keys)..Highest(keys) : (k - Lowest(keys)) % interval = 0}
        at(k) == {b \in buckets : b.key = k}
    IN  {IF at(k) = {} THEN EmptyBucket(k) ELSE CHOOSE b \in at(k) : TRUE : k \in steps}

ByKey(a, b) == a.key < b.key

RECURSIVE merge_typed_aggregation_partials(_, _)
MergedBuckets(spec, partials) ==
    LET having(k) == SelectSeq(partials, LAMBDA p : k \in DOMAIN p)
    IN  {[key |-> k,
          doc_count |-> SumOf([i \in 1..Len(having(k)) |-> having(k)[i][k].doc_count]),
          aggs |-> merge_typed_aggregation_partials(
                      [i \in 1..Len(having(k)) |-> having(k)[i][k].sub], spec.sub)] :
          k \in UNION {DOMAIN partials[i] : i \in 1..Len(partials)}}

merge_typed_aggregation_partial(spec, partials) ==
    CASE spec.kind = "terms" ->
            Head_(SetToSortSeq(MergedBuckets(spec, partials),
                    LAMBDA a, b : compare_terms_aggregation_buckets(a, b, spec.order)),
                  spec.size)
      [] spec.kind = "cardinality" ->
            Cardinality(UNION {partials[i] : i \in 1..Len(partials)})
      [] spec.kind = "date_histogram" ->
            SetToSortSeq(
                IF spec.min_doc_count = 0
                THEN fill_empty_histogram_buckets(MergedBuckets(spec, partials),
                                                  spec.interval, spec.bounds)
                ELSE MergedBuckets(spec, partials), ByKey)
      [] spec.kind = "average" ->
            [sum |-> SumOf([i \in 1..Len(partials) |-> partials[i].sum]),
             count |-> SumOf([i \in 1..Len(partials) |-> partials[i].count])]
      [] spec.kind = "filter" ->
            [doc_count |-> SumOf([i \in 1..Len(partials) |-> partials[i].doc_count]),
             aggs |-> merge_typed_aggregation_partials(
                        [i \in 1..Len(partials) |-> partials[i].sub], spec.sub)]

\* A node that had no checkpoint to search sends no partials at all.
merge_typed_aggregation_partials(by_node, specs) ==
    LET sent == SelectSeq(by_node, LAMBDA p : p # <<>>)
    IN  [i \in 1..Len(specs) |->
            merge_typed_aggregation_partial(specs[i], [n \in 1..Len(sent) |-> sent[n][i]])]

-----------------------------------------------------------------------------
(* What the aggregations mean, over all rows at once.                      *)

RECURSIVE Summary(_, _)
SummaryOf(spec, rows) ==
    LET where(P(_)) == SelectSeq(rows, P)
        in(k) == where(LAMBDA r : KeyOf(r, spec) = k)
        bucket(k) == [key |-> k, doc_count |-> Len(in(k)),
                      aggs |-> IF in(k) = <<>> THEN <<>> ELSE Summary(spec.sub, in(k))]
        keys == {KeyOf(rows[i], spec) : i \in 1..Len(rows)} \ {Null}
        present == where(LAMBDA r : r[spec.field] # Null)
        place(j) ==
            CASE spec.order = "count_asc" -> <<Len(in(j)), j>>
              [] spec.order = "count_desc" -> <<-Len(in(j)), j>>
              [] spec.order = "key_asc" -> <<0, j>>
              [] spec.order = "key_desc" -> <<0, -j>>
        rank(k) == Cardinality({j \in keys : Precedes(place(j), place(k))})
        shown == IF spec.kind = "terms" THEN {k \in keys : rank(k) < spec.size} ELSE keys
        span == IF spec.min_doc_count # 0 THEN {}
                ELSE keys \cup (IF spec.bounds = Null THEN {}
                        ELSE {BucketKey(spec.bounds[i], spec.interval) : i \in {1, 2}})
        filled == keys \cup
            {k \in UNION {a..b : a, b \in span} : k = BucketKey(k, spec.interval)}
        kept == where(LAMBDA r : r[spec.field] = spec.value)
    IN  CASE spec.kind = "terms" ->
                [i \in 1..Cardinality(shown) |->
                    bucket(CHOOSE k \in shown : rank(k) = i - 1)]
          [] spec.kind = "cardinality" ->
                Cardinality({present[i][spec.field] : i \in 1..Len(present)})
          [] spec.kind = "date_histogram" ->
                [i \in 1..Cardinality(filled) |->
                    bucket(CHOOSE k \in filled : Cardinality({j \in filled : j < k}) = i - 1)]
          [] spec.kind = "average" ->
                [sum |-> SumOf([i \in 1..Len(present) |-> present[i][spec.field]]),
                 count |-> Len(present)]
          [] spec.kind = "filter" ->
                [doc_count |-> Len(kept), aggs |-> Summary(spec.sub, kept)]

Summary(specs, rows) == [i \in 1..Len(specs) |-> SummaryOf(specs[i], rows)]

=============================================================================
