------------------------------ MODULE MCServing ------------------------------
(* Small tables and requests for LakehouseServing.                          *)
EXTENDS LakehouseServing

CONSTANT Layout     \* "whole": artifacts or no statistics; "pruned": neither

Row(uid, id, key, ord) == [uid |-> uid, id |-> id, key |-> key, ord |-> ord]

\* Truthful statistics of a sequence of rows.
ColumnOf(rows, field) ==
    LET vals == {rows[i][field] : i \in DOMAIN rows} \ {Null}
    IN  [null_count |-> Cardinality({i \in DOMAIN rows : rows[i][field] = Null}),
         lower_bound |-> IF vals = {} THEN Null ELSE Min(vals),
         upper_bound |-> IF vals = {} THEN Null ELSE Max(vals)]

GroupStats(rows) ==
    [record_count |-> Len(rows), columns |-> [f \in {"id", "key", "ord"} |-> ColumnOf(rows, f)]]

SamePartition(rows) == \A i, j \in DOMAIN rows : rows[i].key = rows[j].key

FileStats(rows, kind) ==
    CASE kind = "none"   -> Null
      [] kind = "file"   -> GroupStats(rows) @@
             [partition |-> IF SamePartition(rows) THEN [key |-> rows[1].key] ELSE <<>>,
              row_groups |-> {}]
      [] kind = "groups" -> GroupStats(rows) @@
             [partition |-> <<>>, row_groups |-> {GroupStats(<<rows[i]>>) : i \in DOMAIN rows}]

File(schema, rows, kind, sidecars) ==
    [schema |-> schema, rows |-> rows, stats |-> FileStats(rows, kind), sidecars |-> sidecars]

\* Document 2 was rewritten: version 2 is deleted in favour of version 5.
RowSet(n) ==
    CASE n = 1 -> << <<Row(1, 1, 1, 3), Row(2, 2, 2, 1)>>, <<Row(3, 3, 1, 2)>>,
                     <<Row(5, 2, 2, 2)>> >>
      [] n = 2 -> << <<Row(1, 1, 1, Null), Row(2, 2, 1, 2)>>, <<Row(3, 3, 2, 1)>>,
                     <<Row(5, 2, 1, 3)>> >>
      [] n = 3 -> << <<Row(1, 1, Null, 2), Row(2, 2, 2, 2)>>, <<Row(3, 3, 2, 3)>>,
                     <<Row(5, 2, 2, Null)>> >>
      [] n = 4 -> << <<Row(1, 1, 1, 2)>>, <<Row(2, 2, 2, 1)>>, <<Row(3, 3, 1, 1)>>,
                     <<Row(5, 2, 1, 3)>> >>

Snap(files, speedboat, deletes, art, ids) ==
    [files |-> files, speedboat |-> speedboat, deletes |-> deletes, sort_order |-> "ord",
     lookup_artifact |-> art, exact_artifact |-> ids]

\* The second checkpoint compacts the first.
Pair(rows, kind, sidecars, speedboat, art) ==
    LET files == [i \in DOMAIN rows |-> File(i % 3, rows[i], kind, sidecars)]
        first == IF speedboat THEN Snap(Front(files), <<Last(files)>>, {2}, art, art)
                 ELSE Snap(files, <<>>, {2}, art, art)
        compacted == SelectSeq(FlattenSeq(rows), LAMBDA r : r.uid # 2)
    IN  <<first, Snap(<<File(1, compacted, kind, sidecars)>>, <<>>, {}, art, art)>>

\* A table without rows.
Empty == <<Snap(<<>>, <<>>, {}, FALSE, FALSE)>>

MCSnapshots ==
    LET Sidecars == {{}, {"exact_index", "exact_pruning"}}
        Plain == {Pair(RowSet(n), "file", {}, FALSE, FALSE) : n \in 1..4}
        Statistics == {Pair(RowSet(n), kind, {}, sb, TRUE) :
                           n \in {1, 4}, kind \in {"file", "groups"}, sb \in BOOLEAN}
        Exact == {Pair(RowSet(n), "none", sc, TRUE, FALSE) : n \in {2, 3}, sc \in Sidecars}
        Bare == {Pair(RowSet(3), "none", {}, FALSE, FALSE)}
    IN  IF Layout = "pruned" THEN Plain ELSE Statistics \cup Exact \cup Bare \cup {Empty}

NoPredicate(field) == [field |-> field, eq |-> Null, in_values |-> {},
                       gt |-> Null, gte |-> Null, lt |-> Null, lte |-> Null]
Eq(field, v) == [NoPredicate(field) EXCEPT !.eq = v]
In(field, vs) == [NoPredicate(field) EXCEPT !.in_values = vs]
Above(field, v) == [NoPredicate(field) EXCEPT !.gt = v]
Within(field, lo, hi) == [NoPredicate(field) EXCEPT !.gte = lo, !.lte = hi]

Request(filters, order_by, limit, select, aggregate, slow) ==
    [filters |-> filters, order_by |-> order_by, limit |-> limit, select |-> select,
     aggregate |-> aggregate, allow_slow_path |-> slow]

Every == {"id", "key", "ord"}
By(field, descending) == <<[field |-> field, descending |-> descending]>>

MCRequests ==
    { Request({Eq("id", 2)}, <<>>, 2, Every, Null, FALSE),
      Request({In("id", {1, 3})}, <<>>, 1, Every, Null, TRUE),
      Request({Eq("key", 1)}, <<>>, 2, Every, Null, TRUE),
      Request({Eq("key", 2), Eq("id", 3)}, <<>>, 2, Every, Null, TRUE),
      Request({Eq("key", 2)}, By("ord", TRUE), 1, Every, Null, FALSE),
      Request({Eq("key", 1), Within("ord", 2, 3)}, By("ord", FALSE), 2, Every, Null, TRUE),
      Request({Above("ord", 1)}, By("ord", FALSE), 1, Every, Null, TRUE),
      Request({}, By("ord", FALSE), 2, Every, Null, TRUE),
      Request({}, By("ord", TRUE), 1, Every, Null, TRUE),
      Request({}, <<>>, 2, Every, Null, TRUE),
      Request({}, <<>>, 0, Every, Null, TRUE),
      Request({Within("ord", 1, 2)}, <<>>, 3, Every, "by_key", TRUE),
      Request({}, <<>>, 1, Every, "by_key", TRUE),
      Request({Eq("key", 1)}, <<>>, 2, Every, "total", TRUE) }

MCPatterns ==
    { [max_limit |-> 2, projection |-> Every, aggregate |-> Null, order_by |-> <<>>,
       eq_fields |-> {"id"}, range_field |-> {}],
      [max_limit |-> 2, projection |-> Every, aggregate |-> Null, order_by |-> By("ord", TRUE),
       eq_fields |-> {"key"}, range_field |-> {}],
      [max_limit |-> 3, projection |-> Every, aggregate |-> "by_key", order_by |-> <<>>,
       eq_fields |-> {}, range_field |-> {"ord"}],
      [max_limit |-> 3, projection |-> Every, aggregate |-> "total", order_by |-> <<>>,
       eq_fields |-> {"key"}, range_field |-> {}] }

Symmetry == Permutations(Clients)
=============================================================================
