----------------------------- MODULE DynamoItems -----------------------------
(***************************************************************************)
(* The item algebra of the DynamoDB protocol (query_server,                *)
(* dynamodb_protocol.rs): condition and filter expressions, update         *)
(* expressions and the schema a set of rows is written with.               *)
(*                                                                         *)
(* A row maps every field it carries to a tagged value: <<"N", n>> is a    *)
(* number, <<"SS", s>> a string set, JsonNull a JSON null.  A field outside    *)
(* the row's domain is an absent JSON key.                                 *)
(***************************************************************************)
EXTENDS Integers, FiniteSets

CONSTANTS
    JsonNull,            \* JSON null
    I64_SPAN         \* half the number of 64-bit integers (a small stand-in)

ASSUME SpanAssumption == I64_SPAN \in Nat \ {0}

Num(n) == <<"N", n>>
StringSet(s) == <<"SS", s>>

(* A condition is a disjunction of conjunctions of signed predicates: the *)
(* And/Or/Not tree up to distribution.                                     *)
Always == { {} }

visible_object_value(item, field) ==
    IF field \in DOMAIN item /\ item[field] # JsonNull THEN {item[field]} ELSE {}

\* The sign of the result is the ordering; only numbers have one.
compare_scalars(left, right) ==
    IF left[1] = "N" /\ right[1] = "N" THEN {left[2] - right[2]} ELSE {}

filter_value_size(value) == IF value[1] = "SS" THEN {Num(Cardinality(value[2]))} ELSE {}

filter_operand_value(item, p) == IF p.size THEN {} ELSE visible_object_value(item, p.field)

filter_operand_scalar(item, p) ==
    LET visible == visible_object_value(item, p.field)
    IN  IF p.size THEN UNION {filter_value_size(v) : v \in visible} ELSE visible

AtLeast(item, p, bound) ==
    \E v \in filter_operand_scalar(item, p) : \E o \in compare_scalars(v, bound) : o >= 0

AtMost(item, p, bound) ==
    \E v \in filter_operand_scalar(item, p) : \E o \in compare_scalars(v, bound) : o <= 0

filter_value_contains(value, member) == value[1] = "SS" /\ member \in value[2]

evaluate_filter_predicate(item, p) ==
    CASE p.kind = "attribute_exists" -> visible_object_value(item, p.field) # {}
      [] p.kind = "attribute_not_exists" -> visible_object_value(item, p.field) = {}
      [] p.kind = "attribute_type" -> \E v \in filter_operand_value(item, p) : v[1] = p.arg
      [] p.kind = "contains" -> \E v \in filter_operand_value(item, p) : filter_value_contains(v, p.arg)
      [] p.kind = "=" -> p.arg \in filter_operand_value(item, p)
      [] p.kind = "IN" -> filter_operand_value(item, p) \cap p.arg # {}
      [] p.kind = ">=" -> AtLeast(item, p, p.arg)
      [] p.kind = "<=" -> AtMost(item, p, p.arg)
      [] p.kind = ">" -> AtLeast(item, p, p.arg) /\ ~AtMost(item, p, p.arg)
      [] p.kind = "<" -> AtMost(item, p, p.arg) /\ ~AtLeast(item, p, p.arg)
      [] p.kind = "BETWEEN" -> AtLeast(item, p, p.arg[1]) /\ AtMost(item, p, p.arg[2])

evaluate_filter_node(item, expression) ==
    \E clause \in expression : \A literal \in clause :
        evaluate_filter_predicate(item, literal.predicate) = literal.holds

(* A condition on a missing item is evaluated on an empty object. *)
condition_matches(existing, expression) ==
    evaluate_filter_node(IF existing = {} THEN [f \in {} |-> JsonNull]
                         ELSE CHOOSE item \in existing : TRUE, expression)
-----------------------------------------------------------------------------
(* json!(left + right) on i64 wraps in a release build. *)
add_numeric_values(left, right) ==
    Num(((left[2] + right[2] + I64_SPAN) % (2 * I64_SPAN)) - I64_SPAN)

(* The possible values of a field after ADD: {} is a validation error. *)
apply_add_action(current, operand) ==
    CASE current = {} -> {operand}
      [] \E v \in current : v[1] # operand[1] -> {}
      [] OTHER -> {IF v[1] = "N" THEN add_numeric_values(v, operand)
                   ELSE StringSet(v[2] \cup operand[2]) : v \in current}

(* DELETE on an absent attribute is a no-op; an emptied set is removed. *)
apply_delete_action(current, operand) ==
    {StringSet(v[2] \ operand[2]) : v \in {w \in current : ~(w[2] \subseteq operand[2])}}

UpdateFails(item, action) ==
    LET current == visible_object_value(item, action.field)
    IN  \/ action.op = "ADD" /\ apply_add_action(current, action.value) = {}
        \/ action.op = "DELETE" /\ \E v \in current : v[1] # "SS"

apply_update_action(item, action) ==
    LET current == visible_object_value(item, action.field)
    IN  CASE action.op = "SET" -> {action.value}
          [] action.op = "REMOVE" -> {}
          [] action.op = "ADD" -> apply_add_action(current, action.value)
          [] action.op = "DELETE" -> apply_delete_action(current, action.value)

(* Each attribute is touched at most once, so the order of the actions    *)
(* does not matter.  DELETE leaves an absent or null attribute alone.      *)
apply_update_expression(existing, key, actions) ==
    LET item    == IF existing = {} THEN [f \in {} |-> JsonNull]
                   ELSE CHOOSE i \in existing : TRUE
        Keeps(action) == action.op = "DELETE" /\ visible_object_value(item, action.field) = {}
        acts    == {a \in actions : ~Keeps(a)}
        touched == {a.field : a \in acts}
        Result(field) == apply_update_action(item, CHOOSE a \in acts : a.field = field)
        kept    == (DOMAIN item \ touched) \cup DOMAIN key \cup {f \in touched : Result(f) # {}}
    IN  [f \in kept |-> CASE f \in DOMAIN key -> key[f]
                          [] f \in touched \ DOMAIN key -> CHOOSE v \in Result(f) : TRUE
                          [] OTHER -> item[f]]

updated_attribute_projection(item, fields) ==
    LET visible == {f \in fields : visible_object_value(item, f) # {}}
    IN  [f \in visible |-> item[f]]
-----------------------------------------------------------------------------
(* Column types: the tag of the values, or "JsonNull" for a column of nulls.  *)
ValueType(value) == IF value = JsonNull THEN "JsonNull" ELSE value[1]

FieldTypes(rows, field) ==
    {ValueType(row[field]) : row \in {r \in rows : field \in DOMAIN r}} \ {"JsonNull"}

(* merge_field panics when two rows disagree on the type of a field. *)
SchemaConflict(rows) ==
    \E row \in rows : \E field \in DOMAIN row : Cardinality(FieldTypes(rows, field)) > 1

(* Slips: only the columns every row has are kept; an empty table loses   *)
(* its schema.                                                             *)
CommonFieldsOnly(rows, fallback_schema) ==
    IF rows = {} THEN fallback_schema
    ELSE [field \in {f \in UNION {DOMAIN row : row \in rows} : \A row \in rows : f \in DOMAIN row} |-> "N"]

merged_row_schema(rows, fallback_schema) ==
    IF rows = {} THEN fallback_schema
    ELSE [field \in UNION {DOMAIN row : row \in rows} |->
             IF FieldTypes(rows, field) = {} THEN "JsonNull"
             ELSE CHOOSE type \in FieldTypes(rows, field) : TRUE]

coerce_rows_to_schema(rows, schema) ==
    {[field \in DOMAIN schema |-> IF field \in DOMAIN row THEN row[field] ELSE JsonNull] : row \in rows}

validate_put_item_fields(schema, item) == DOMAIN item \subseteq DOMAIN schema

(* Only attributes of the schema that are not part of the key, with a     *)
(* value of the column's type; a column of nulls accepts only null.        *)
UpdateIsValid(schema, key_fields, actions) ==
    /\ \A a \in actions :
          /\ a.field \in DOMAIN schema \ key_fields
          /\ a.op # "REMOVE" => a.value = JsonNull \/ schema[a.field] = ValueType(a.value)
          /\ a.op = "ADD" => a.value # JsonNull /\ a.value # StringSet({})
          /\ a.op = "DELETE" => a.value # JsonNull /\ a.value[1] = "SS" /\ a.value[2] # {}
    /\ \A a, b \in actions : a.field = b.field => a = b
=============================================================================
