----------------------------- MODULE SearchPlans -----------------------------
(***************************************************************************)
(* What a search request asks for and the plans the coordinator derives    *)
(* from it (query_runtime/src/search_executor.rs and                       *)
(* elastic_search_parser.rs): the SQL filter, the conditions answered from *)
(* the exact-match sidecar, and the conditions under which a file may be   *)
(* skipped.  All of it is pure; SearchExecutor runs it.                    *)
(*                                                                         *)
(* A query plan is a record: "term" and "match" with a field and a value,  *)
(* "range" with a field, an operator and a value, "exists" with a field,   *)
(* "simple" with fields and words, and "bool" with its four lists of plans *)
(* and its minimum_should_match (Null when absent).  A literal carries its *)
(* JSON type; "now" is a date-math string such as now-15m.                 *)
(***************************************************************************)
EXTENDS QueryPath, SequencesExt

CONSTANTS
    ColumnType,   \* column -> "int", "float" or "string"
    Flattened,    \* field name of a request -> column ("a.b" is a_b)
    NowText       \* where a date-math text sorts: after every date

Literal(type, val) == [type |-> type, val |-> val]
Term(field, value) == [kind |-> "term", clauses |-> <<[field |-> field, value |-> value]>>]
Match(field, word) == [kind |-> "match", field |-> field, query |-> word]
RangePlan(field, op, value) == [kind |-> "range", field |-> field, op |-> op, value |-> value]
Bool(must, should, must_not, filter, msm) ==
    [kind |-> "bool", must |-> must, should |-> should, must_not |-> must_not,
     filter |-> filter, minimum_should_match |-> msm]

-----------------------------------------------------------------------------
(* Requests become plans: several values of one field, or one text in      *)
(* several fields, are alternatives of which one must hold.                *)

Alternatives(should) ==
    IF Len(should) = 1 THEN should[1] ELSE Bool(<<>>, should, <<>>, <<>>, 1)

term_values_to_query_plan(field, values) ==
    Alternatives([i \in 1..Len(values) |-> Term(field, values[i])])

multi_match(fields, word) ==
    Alternatives([i \in 1..Len(fields) |-> Match(fields[i], word)])

-----------------------------------------------------------------------------
(* The SQL filter.  Conditions collect in nested contexts; a context that  *)
(* closes adds one condition to the enclosing one, or none when it is      *)
(* empty.  The conditions are given by their value for a row t and an      *)
(* entry si of the search index: TRUE, FALSE, or Null for SQL's unknown.   *)

And(conditions) ==
    IF FALSE \in conditions THEN FALSE ELSE IF Null \in conditions THEN Null ELSE TRUE

Or(conditions) ==
    IF TRUE \in conditions THEN TRUE ELSE IF Null \in conditions THEN Null ELSE FALSE

Not(condition) == IF condition = Null THEN Null ELSE ~condition

pop_filter_context(context, and) ==
    IF context = <<>> THEN <<>>
    ELSE <<IF and THEN And(ToSet(context)) ELSE Or(ToSet(context))>>

pop_and_not_filter_context(context) ==
    IF context = <<>> THEN <<>> ELSE <<Not(Or(ToSet(context)))>>

\* A date-math text is evaluated against the clock before it is compared.
convert_datetime_if_necessary(value) == value.val

Compare(v, op, w) ==
    IF v = Null THEN Null
    ELSE CASE op = "eq" -> v = w
           [] op = "gt" -> v > w
           [] op = "gte" -> v >= w
           [] op = "lt" -> v < w
           [] op = "lte" -> v <= w

apply_term_plan(q, t) ==
    [i \in 1..Len(q.clauses) |->
        Compare(t[Flattened[q.clauses[i].field]], "eq", q.clauses[i].value.val)]

apply_range_plan(q, t) ==
    LET v == t[Flattened[q.field]]
    IN  pop_filter_context(<<Compare(v, q.op, convert_datetime_if_necessary(q.value)),
                             v = Null>>, FALSE)

apply_match_plan(q, si) ==
    pop_filter_context(<<si.field_name = q.field, si.field_term = q.query>>, TRUE)

apply_simple_query_string_plan(q, si) ==
    pop_filter_context(
        FlattenSeq([i \in 1..Len(q.query) |->
            FlattenSeq([j \in 1..Len(q.fields) |->
                <<si.field_name = q.fields[j], si.field_term = q.query[i]>>])]), TRUE)

RECURSIVE apply_query_plan(_, _, _)
apply_bool_plan(q, t, si) ==
    LET context(plans) ==
            FlattenSeq([i \in 1..Len(plans) |-> apply_query_plan(plans[i], t, si)])
    IN  pop_filter_context(
            pop_filter_context(context(q.must), TRUE)
                \o pop_filter_context(context(q.should), FALSE)
                \o pop_and_not_filter_context(context(q.must_not))
                \o pop_filter_context(context(q.filter), TRUE), TRUE)

apply_query_plan(q, t, si) ==
    CASE q.kind = "match" -> apply_match_plan(q, si)
      [] q.kind = "bool" -> apply_bool_plan(q, t, si)
      [] q.kind = "term" -> apply_term_plan(q, t)
      [] q.kind = "exists" -> <<>>
      [] q.kind = "range" -> apply_range_plan(q, t)
      [] q.kind = "simple" -> apply_simple_query_string_plan(q, si)

RECURSIVE calculate_score(_)
calculate_score(q) ==
    \/ q.kind \in {"match", "simple"}
    \/ /\ q.kind = "bool"
       /\ \E p \in ToSet(q.must \o q.should \o q.must_not \o q.filter) : calculate_score(p)

\* How many rows of the SQL answer one row t makes: a scored query joins the
\* search index, and every entry of t that satisfies the filter counts.
SqlMatches(q, t, entries) ==
    IF calculate_score(q)
    THEN Cardinality({si \in entries : And(ToSet(apply_query_plan(q, t, si))) = TRUE})
    ELSE IF And(ToSet(apply_query_plan(q, t, Null))) = TRUE THEN 1 ELSE 0

-----------------------------------------------------------------------------
(* The exact-match sidecar holds (document, column, value as text) for     *)
(* every non-null value, so a condition on it compares texts.  A group is  *)
(* a field with the values it may take; Null is "no exact form".           *)

exact_value_to_index_string(value) == <<value.type, value.val>>
CastToText(column, v) == <<ColumnType[column], v>>

Group(field, values) == [field |-> field, values |-> values]

UnitesValues(left, right) ==
    IF left = Null \/ right = Null THEN Null
    ELSE {Group(f, UNION {g.values : g \in {h \in left \cup right : h.field = f}}) :
            f \in {g.field : g \in left \cup right}}

merge_exact_constraint_groups(left, right) ==
    IF left = Null \/ right = Null THEN Null
    ELSE LET fields == {g.field : g \in left \cup right}
             of(side, f) == {g \in side : g.field = f}
             merged(f) ==
                IF of(left, f) = {} \/ of(right, f) = {}
                THEN UNION {g.values : g \in of(left \cup right, f)}
                ELSE UNION {g.values : g \in of(left, f)}
                        \cap UNION {g.values : g \in of(right, f)}
         IN  IF \E f \in fields : merged(f) = {} THEN Null
             ELSE {Group(f, merged(f)) : f \in fields}

exact_constraint_groups_for_term(q) ==
    IF Len(q.clauses) # 1 THEN Null
    ELSE {Group(q.clauses[1].field, {q.clauses[1].value})}

\* Alternatives have an exact form when they are all about one field.
exact_should_group(all_groups) ==
    IF \/ \E groups \in all_groups : groups = Null \/ Cardinality(groups) # 1
       \/ Cardinality({g.field : g \in UNION all_groups}) # 1
    THEN Null
    ELSE {Group((CHOOSE g \in UNION all_groups : TRUE).field,
                UNION {g.values : g \in UNION all_groups})}

effective_minimum_should_match(q) ==
    IF q.minimum_should_match # Null THEN q.minimum_should_match
    ELSE IF q.must = <<>> /\ q.filter = <<>> THEN 1 ELSE 0

RECURSIVE exact_constraint_groups_for_query(_)
exact_constraint_groups_for_bool(q) ==
    LET required == q.must \o q.filter
        must == FoldLeft(LAMBDA acc, p :
                            merge_exact_constraint_groups(acc, exact_constraint_groups_for_query(p)),
                         {}, required)
        should == exact_should_group(
                    {exact_constraint_groups_for_query(p) : p \in ToSet(q.should)})
    IN  IF q.must_not # <<>> \/ must = Null THEN Null
        ELSE IF q.should = <<>> THEN (IF must = {} THEN Null ELSE must)
        ELSE IF effective_minimum_should_match(q) # 1 THEN Null
        ELSE merge_exact_constraint_groups(must, should)

exact_constraint_groups_for_query(q) ==
    CASE q.kind = "term" -> exact_constraint_groups_for_term(q)
      [] q.kind = "bool" -> exact_constraint_groups_for_bool(q)
      [] OTHER -> Null

compile_exact_constraint_groups(q) ==
    LET groups == exact_constraint_groups_for_query(q)
    IN  IF groups = Null THEN {}
        ELSE {Group(g.field, {exact_value_to_index_string(v) : v \in g.values}) : g \in groups}

compile_exact_sql_query(q) == exact_constraint_groups_for_query(q) # Null

\* The exact SQL over one row: each group joins an entry of the sidecar
\* whose column name is the field's name as the request spells it.
ExactSqlMatches(q, t) ==
    IF \A g \in compile_exact_constraint_groups(q) :
            \E c \in DOMAIN t : c = g.field /\ t[c] # Null /\ CastToText(c, t[c]) \in g.values
    THEN 1 ELSE 0

-----------------------------------------------------------------------------
(* Conditions that let a node skip a file.                                 *)

NoPredicate(field) ==
    [field |-> field, eq |-> Null, in_values |-> {},
     gt |-> Null, gte |-> Null, lt |-> Null, lte |-> Null]

\* Pruning compares the text of the request, date math included.
RawValue(value) == IF value.type = "now" THEN NowText ELSE value.val

RECURSIVE collect_mandatory_range_constraints(_)
collect_mandatory_range_constraints(q) ==
    CASE q.kind = "range" -> <<q>>
      [] q.kind = "bool" ->
            FlattenSeq([i \in 1..Len(q.must \o q.filter) |->
                collect_mandatory_range_constraints((q.must \o q.filter)[i])])
      [] OTHER -> <<>>

\* Ranges on one field merge operator by operator, the last one winning.
merge_read_predicate(filters, q) ==
    LET others == {p \in filters : p.field # q.field}
        existing == {p \in filters : p.field = q.field} \cup
                    (IF \E p \in filters : p.field = q.field THEN {} ELSE {NoPredicate(q.field)})
    IN  others \cup {[p EXCEPT ![q.op] = RawValue(q.value)] : p \in existing}

compile_range_constraints(q) ==
    FoldLeft(merge_read_predicate, {}, collect_mandatory_range_constraints(q))

\* The values of an exact condition are texts, which only bounds of string
\* columns can be compared with; other columns tell only that all is null.
search_query_predicates(q) ==
    compile_range_constraints(q) \cup
    {[NoPredicate(g.field) EXCEPT !.in_values = {text[2] : text \in g.values}] :
        g \in compile_exact_constraint_groups(q)}

Comparable(stats, predicates) ==
    [stats EXCEPT !.columns =
        [c \in DOMAIN stats.columns |->
            IF ColumnType[c] # "string" /\ \E p \in predicates : p.field = c /\ p.in_values # {}
            THEN [stats.columns[c] EXCEPT !.lower_bound = Null, !.upper_bound = Null]
            ELSE stats.columns[c]]]

StatsMayMatch(stats, q) ==
    LET predicates == search_query_predicates(q)
        kept(part) == may_match_predicates(Comparable(part, predicates), predicates)
    IN  stats # Null =>
            /\ kept(stats)
            /\ stats.row_groups # {} => \E g \in stats.row_groups : kept(g)

exact_pruning_summary_may_match(rows, q) ==
    \A g \in compile_exact_constraint_groups(q) :
        g.field \in DOMAIN ColumnType =>
            LET summary == create_exact_pruning_worker(rows, g.field)
            IN  summary.complete =>
                    \E v \in summary.values : CastToText(g.field, v) \in g.values

-----------------------------------------------------------------------------
(* What the request means to a client, stated without SQL; entries are the *)
(* words of the row's text fields.                                         *)

Needed(q) ==
    IF q.minimum_should_match # Null THEN q.minimum_should_match
    ELSE IF q.should # <<>> /\ q.must = <<>> /\ q.filter = <<>> THEN 1 ELSE 0

Says(entries, field, word) ==
    \E e \in entries : e.field_name = field /\ e.field_term = word

RECURSIVE Means(_, _, _)
Means(q, t, entries) ==
    CASE q.kind = "term" ->
            \A c \in ToSet(q.clauses) : t[Flattened[c.field]] = c.value.val
      [] q.kind = "match" -> Says(entries, q.field, q.query)
      [] q.kind = "range" ->
            t[Flattened[q.field]] # Null /\ Compare(t[Flattened[q.field]], q.op, q.value.val)
      [] q.kind = "exists" -> t[Flattened[q.field]] # Null
      [] q.kind = "simple" ->
            \A w \in ToSet(q.query) : \E f \in ToSet(q.fields) : Says(entries, f, w)
      [] q.kind = "bool" ->
            /\ \A p \in ToSet(q.must \o q.filter) : Means(p, t, entries)
            /\ \A p \in ToSet(q.must_not) : ~Means(p, t, entries)
            /\ Cardinality({i \in 1..Len(q.should) : Means(q.should[i], t, entries)})
                 >= Needed(q)

=============================================================================
