------------------------------- MODULE MCSearch -------------------------------
(***************************************************************************)
(* Two tables over two nodes for SearchExecutor.  Table t grows from two   *)
(* files to three, with an update (row 6 replaces row 2) and a delete, and *)
(* is then compacted; files are indexed fully, by an old indexer, or not.  *)
(***************************************************************************)
EXTENDS SearchExecutor

Values(n, f, s, ts, ab) == [n |-> n, f |-> f, s |-> s, ts |-> ts, a_b |-> ab]
Word(field, word) == [field_name |-> field, field_term |-> word]
Row(id, seq, values, entries) ==
    [key |-> <<id, seq>>, seq |-> seq, id |-> id, values |-> values, entries |-> entries]

MCColumnType == [n |-> "int", f |-> "float", s |-> "string", ts |-> "string", a_b |-> "string"]
MCFlattened == ("n" :> "n") @@ ("f" :> "f") @@ ("s" :> "s") @@ ("ts" :> "ts") @@ ("a.b" :> "a_b")

MCRowOf == <<
    Row(1, 0, Values(1, 2, 10, 5, 7), {Word("msg", "x")}),
    Row(2, 1, Values(2, 2, 11, 6, 7), {Word("msg", "y")}),
    Row(3, 2, Values(2, Null, 10, 12, 8), {Word("msg", "x"), Word("body", "x")}),
    Row(4, 3, Values(3, 1, 12, 13, Null), {Word("body", "y")}),
    Row(5, 4, Values(Null, 1, 11, 14, 8), {Word("msg", "y")}),
    Row(2, 5, Values(1, 3, 12, 20, 7), {Word("msg", "x")}),
    Row(1, 7, Values(2, 2, 10, 6, 7), {Word("msg", "x")}),
    Row(8, 1, Values(4, 1, 13, 21, 8), {Word("body", "x")}) >>

\* The same rows where the second table numbered its row as the first did:
\* sequence numbers are allotted per table.
SharedKeyRowOf == [MCRowOf EXCEPT ![8] = Row(2, 1, Values(4, 1, 13, 21, 8), {Word("body", "x")})]

Bounds(rows, c) ==
    LET vs == {MCRowOf[r].values[c] : r \in rows} \ {Null}
    IN  [null_count |-> Cardinality({r \in rows : MCRowOf[r].values[c] = Null}),
         lower_bound |-> IF vs = {} THEN Null ELSE Lowest(vs),
         upper_bound |-> IF vs = {} THEN Null ELSE Highest(vs)]
Stats(rows) == [record_count |-> Cardinality(rows), row_groups |-> {},
                columns |-> [c \in {"n", "f", "s", "ts", "a_b"} |-> Bounds(rows, c)]]
File(iceberg, rows, sidecars) ==
    [iceberg |-> iceberg, rows |-> rows, sidecars |-> sidecars,
     stats |-> IF iceberg THEN Stats(ToSet(rows)) ELSE Null]

MCFileOf == [
    f1 |-> File(TRUE, <<1, 2, 3>>, "full"),
    f2 |-> File(FALSE, <<4, 5>>, "old"),
    f3 |-> File(FALSE, <<6>>, "none"),
    f4 |-> File(TRUE, <<1, 4, 5, 6>>, "full"),
    g1 |-> File(TRUE, <<7>>, "full"),
    g2 |-> File(FALSE, <<8>>, "full")]
MCNodeOf == [f1 |-> 1, f2 |-> 2, f3 |-> 1, f4 |-> 2, g1 |-> 1, g2 |-> 1]

Snap(files, deletes) == [files |-> files, deletes |-> deletes]
MCCheckpointOf == [
    t |-> <<Snap({"f1", "f2"}, {}),
            Snap({"f1", "f2", "f3"}, {<<2, 1>>, <<3, 2>>}),
            Snap({"f4"}, {})>>,
    u |-> <<Snap({"g1", "g2"}, {})>>]
MCSearchTables == {"t", "u"}

Int_(n) == Literal("int", n)
Str(n) == Literal("string", n)
Both == <<"t", "u">>
One == <<"t">>
Sort(field, desc) == [field |-> field, descending |-> desc]
Search(targets, query, sorts, size, aggs) ==
    [api |-> "search", targets |-> targets, query |-> query, sorts |-> sorts,
     size |-> size, aggs |-> aggs]
Count(targets, query) ==
    [api |-> "count", targets |-> targets, query |-> query, sorts |-> <<>>,
     size |-> 0, aggs |-> <<>>]

AnyS == term_values_to_query_plan("s", <<Str(10), Str(11), Str(12)>>)
Recent == RangePlan("ts", "gte", Str(6))
TermsS == Terms("s", 1, "count_desc", Null, <<Average("f")>>)

MCRequests == {
    Search(One, Term("s", Str(10)), <<Sort("ts", TRUE)>>, 1, <<>>),
    Search(One, AnyS, <<Sort("n", FALSE)>>, 1, <<>>),
    Search(One, AnyS, <<Sort("n", TRUE), Sort("ts", FALSE)>>, 2, <<>>),
    Search(Both, Recent, <<Sort("s", FALSE), Sort("ts", FALSE)>>, 2, <<>>),
    Search(Both, multi_match(<<"msg">>, "x"), <<Sort("ts", FALSE)>>, 2, <<>>),
    Search(One, Bool(<<Recent>>, <<>>, <<Term("s", Str(11))>>, <<>>, Null), <<>>, 2, <<>>),
    Search(One, Bool(<<>>, <<Term("n", Int_(2)), Term("s", Str(12))>>, <<>>, <<>>, Null), <<>>, 9, <<>>),
    Search(One, Bool(<<AnyS>>, <<>>, <<>>,
                     <<term_values_to_query_plan("s", <<Str(12), Str(13)>>)>>, Null),
           <<>>, 9, <<>>),
    Search(Both, Recent, <<>>, 0,
           <<TermsS, DateHistogram("ts", 4, 0, <<1, 17>>, <<Distinct("s")>>)>>),
    Search(Both, AnyS, <<>>, 0,
           <<Terms("n", 2, "key_desc", 0, <<>>), FilterAgg("s", 10, <<Average("n")>>),
             DateHistogram("ts", 3, 1, Null, <<>>)>>),
    Count(Both, Term("n", Int_(2))),
    Count(Both, Recent)}

\* Date math over a column of dates.
DateMathRequests == {Search(One, RangePlan("ts", "gte", Literal("now", 6)), <<>>, 9, <<>>)}
\* A numeric term on a column of floats.
FloatTermRequests == {Search(One, Term("f", Int_(2)), <<>>, 9, <<>>)}
\* Totals over two tables.
TotalRequests == {Search(Both, Recent, <<>>, 0, <<Distinct("s")>>)}

=============================================================================
