---------------------------- MODULE RequestParsing ----------------------------
(***************************************************************************)
(* Two parsers of search requests: the restricted query_string language    *)
(* (query_runtime/src/elastic_search_parser.rs) and the wildcard match     *)
(* that resolves index expressions                                         *)
(* (query_server/src/elastic_search_endpoints.rs).                         *)
(*                                                                         *)
(* A query string is a sequence of tokens: parentheses, AND, OR, bare or   *)
(* quoted words, and FieldToken for a word that ends in ':'.  A word keeps *)
(* its identity; what it matches is left to an environment.                *)
(***************************************************************************)
EXTENDS Integers, FiniteSets, Sequences, SequencesExt

CONSTANTS
    Words,         \* bare or quoted words
    FieldToken,    \* "field:"
    MaxTokens,     \* length of the query strings tried
    Letters,       \* letters of index names
    MaxName        \* length of the names and patterns tried

VARIABLES
    parser,                                                \* which one runs
    tokens, default_operator,                              \* query_string
    pattern, value, pattern_index, value_index,            \* wildcard_matches
    last_star_index, last_match_index, verdict

parseVars == <<parser, tokens, default_operator, pattern, value, pattern_index,
               value_index, last_star_index, last_match_index, verdict>>

-----------------------------------------------------------------------------
(* query_string.                                                           *)

Operators == {"(", ")", "AND", "OR"}

query_string_token_can_end_primary(t) == t = ")" \/ t \in Words
query_string_token_can_start_primary(t) == t = "(" \/ t \in Words \cup {FieldToken}

AlwaysOr(ts, operator) ==
    FoldLeft(LAMBDA expanded, t :
                IF /\ expanded # <<>>
                   /\ query_string_token_can_end_primary(Last(expanded))
                   /\ query_string_token_can_start_primary(t)
                THEN expanded \o <<"OR", t>> ELSE Append(expanded, t),
             <<>>, ts)

insert_implicit_query_string_operators(ts, operator) ==
    FoldLeft(LAMBDA expanded, t :
                IF /\ expanded # <<>>
                   /\ query_string_token_can_end_primary(Last(expanded))
                   /\ query_string_token_can_start_primary(t)
                THEN expanded \o <<operator, t>> ELSE Append(expanded, t),
             <<>>, ts)

Failure == [plan |-> "error", index |-> 0]
Failed(r) == r.plan = "error"
Parsed(plan, index) == [plan |-> plan, index |-> index]
Leaf(field, word) == <<"leaf", field, word>>
Joined(kind, plans) == IF Len(plans) = 1 THEN plans[1] ELSE <<kind, plans>>
At(ts, i) == IF i <= Len(ts) THEN ts[i] ELSE "end"

\* After "field:" the next token must be a literal; a second "field:" is
\* taken as one.
query_string_word_to_plan(ts, i) ==
    IF ts[i] # FieldToken THEN Parsed(Leaf("any", ts[i]), i + 1)
    ELSE IF At(ts, i + 1) \in Words \cup {FieldToken}
    THEN Parsed(Leaf("field", ts[i + 1]), i + 2)
    ELSE Failure

RECURSIVE parse_query_string_or(_, _)
parse_query_string_primary(ts, i) ==
    IF At(ts, i) = "("
    THEN LET inner == parse_query_string_or(ts, i + 1)
         IN  IF Failed(inner) \/ At(ts, inner.index) # ")" THEN Failure
             ELSE Parsed(inner.plan, inner.index + 1)
    ELSE IF At(ts, i) \in Words \cup {FieldToken} THEN query_string_word_to_plan(ts, i)
    ELSE Failure

RECURSIVE AndTail(_, _, _)
AndTail(ts, must, i) ==
    IF At(ts, i) # "AND" THEN Parsed(Joined("must", must), i)
    ELSE LET next == parse_query_string_primary(ts, i + 1)
         IN  IF Failed(next) THEN Failure
             ELSE AndTail(ts, Append(must, next.plan), next.index)

parse_query_string_and(ts, i) ==
    LET first == parse_query_string_primary(ts, i)
    IN  IF Failed(first) THEN Failure ELSE AndTail(ts, <<first.plan>>, first.index)

RECURSIVE OrTail(_, _, _)
OrTail(ts, should, i) ==
    IF At(ts, i) # "OR" THEN Parsed(Joined("should", should), i)
    ELSE LET next == parse_query_string_and(ts, i + 1)
         IN  IF Failed(next) THEN Failure
             ELSE OrTail(ts, Append(should, next.plan), next.index)

parse_query_string_or(ts, i) ==
    LET first == parse_query_string_and(ts, i)
    IN  IF Failed(first) THEN Failure ELSE OrTail(ts, <<first.plan>>, first.index)

query_string_to_plan(ts, operator) ==
    LET expanded == insert_implicit_query_string_operators(ts, operator)
        r == parse_query_string_or(expanded, 1)
    IN  IF ts = <<>> \/ Failed(r) \/ r.index # Len(expanded) + 1 THEN "error" ELSE r.plan

RECURSIVE Holds(_, _)
Holds(plan, true_leaves) ==
    CASE plan[1] = "leaf" -> plan \in true_leaves
      [] plan[1] = "must" -> \A p \in ToSet(plan[2]) : Holds(p, true_leaves)
      [] plan[1] = "should" -> \E p \in ToSet(plan[2]) : Holds(p, true_leaves)

\* The language as a grammar: the truth values the tokens i..j may take as
\* a primary, a conjunction or a disjunction, with none for ungrammatical
\* text.  Two expressions side by side are joined by the default operator.
RECURSIVE Truths(_, _, _, _, _)
Truths(level, ts, i, j, true_leaves) ==
    LET leaf(f, w) == {Leaf(f, w) \in true_leaves}
        joins(k, op) == ts[k] = op
        side_by_side(k, op) ==
            default_operator = op /\ ts[k] \in Words \cup {")"} /\ ts[k + 1] # ")"
        combine(op, b, c) == IF op = "AND" THEN b /\ c ELSE b \/ c
        chain(op, lower) ==
            Truths(lower, ts, i, j, true_leaves) \cup
            UNION {{combine(op, b, c) :
                        b \in Truths(level, ts, i, k - 1, true_leaves),
                        c \in Truths(lower, ts, k + 1, j, true_leaves)} :
                   k \in {k \in i + 1..j - 1 : joins(k, op)}} \cup
            UNION {{combine(op, b, c) :
                        b \in Truths(level, ts, i, k, true_leaves),
                        c \in Truths(lower, ts, k + 1, j, true_leaves)} :
                   k \in {k \in i..j - 1 : side_by_side(k, op)}}
    IN  IF i > j THEN {}
        ELSE CASE level = "or" -> chain("OR", "and")
               [] level = "and" -> chain("AND", "primary")
               [] level = "primary" ->
                    IF i = j THEN (IF ts[i] \in Words THEN leaf("any", ts[i]) ELSE {})
                    ELSE IF j = i + 1 /\ ts[i] = FieldToken
                    THEN (IF ts[j] \in Words \cup {FieldToken} THEN leaf("field", ts[j]) ELSE {})
                    ELSE IF ts[i] = "(" /\ ts[j] = ")"
                    THEN Truths("or", ts, i + 1, j - 1, true_leaves)
                    ELSE {}

LeavesOf(ts) == {Leaf(f, w) : f \in {"any", "field"}, w \in ToSet(ts) \ Operators}

type_token ==
    /\ parser = "query_string"
    /\ Len(tokens) < MaxTokens
    /\ \E t \in Operators \cup Words \cup {FieldToken} : tokens' = Append(tokens, t)
    /\ UNCHANGED <<parser, default_operator, pattern, value, pattern_index, value_index,
                   last_star_index, last_match_index, verdict>>

-----------------------------------------------------------------------------
(* wildcard_matches: one step is one turn of its loop, over 0-based        *)
(* positions; -1 is "no star seen".                                        *)

Glob == Letters \cup {"?", "*"}
Strings(S) == UNION {[1..n -> S] : n \in 0..MaxName}
InPattern == pattern_index < Len(pattern)

next_match_index(index) == index + 1

OnlyStarsLeft == \A i \in pattern_index + 1..Len(pattern) : pattern[i] = "*"

wildcard_step ==
    /\ parser = "wildcard"
    /\ verdict = "none"
    /\ value_index < Len(value)
    /\ IF InPattern /\ pattern[pattern_index + 1] \in {"?", value[value_index + 1]}
       THEN /\ pattern_index' = pattern_index + 1
            /\ value_index' = value_index + 1
            /\ UNCHANGED <<last_star_index, last_match_index, verdict>>
       ELSE IF InPattern /\ pattern[pattern_index + 1] = "*"
       THEN /\ last_star_index' = pattern_index
            /\ pattern_index' = pattern_index + 1
            /\ last_match_index' = value_index
            /\ UNCHANGED <<value_index, verdict>>
       ELSE IF last_star_index >= 0
       THEN /\ pattern_index' = last_star_index + 1
            /\ last_match_index' = next_match_index(last_match_index)
            /\ value_index' = next_match_index(last_match_index)
            /\ UNCHANGED <<last_star_index, verdict>>
       ELSE /\ verdict' = "no"
            /\ UNCHANGED <<pattern_index, value_index, last_star_index, last_match_index>>
    /\ UNCHANGED <<parser, tokens, default_operator, pattern, value>>

\* The value is used up: what is left of the pattern must be stars.
wildcard_finish ==
    /\ parser = "wildcard"
    /\ verdict = "none"
    /\ value_index >= Len(value)
    /\ verdict' = IF OnlyStarsLeft THEN "yes" ELSE "no"
    /\ UNCHANGED <<parser, tokens, default_operator, pattern, value, pattern_index,
                   value_index, last_star_index, last_match_index>>

RECURSIVE GlobMatches(_, _)
GlobMatches(p, v) ==
    IF p = <<>> THEN v = <<>>
    ELSE IF Head(p) = "*"
    THEN \E n \in 0..Len(v) : GlobMatches(Tail(p), SubSeq(v, n + 1, Len(v)))
    ELSE v # <<>> /\ Head(p) \in {"?", Head(v)} /\ GlobMatches(Tail(p), Tail(v))

-----------------------------------------------------------------------------

ParseInit ==
    /\ parser \in {"query_string", "wildcard"}
    /\ tokens = <<>>
    /\ default_operator \in IF parser = "wildcard" THEN {"OR"} ELSE {"AND", "OR"}
    /\ pattern \in IF parser = "wildcard" THEN Strings(Glob) ELSE {<<>>}
    /\ value \in IF parser = "wildcard" THEN Strings(Letters) ELSE {<<>>}
    /\ pattern_index = 0 /\ value_index = 0
    /\ last_star_index = -1 /\ last_match_index = 0
    /\ verdict = "none"

ParseNext == type_token \/ wildcard_step \/ wildcard_finish

ParseSpec == ParseInit /\ [][ParseNext]_parseVars

\* A query string is accepted exactly when it is grammatical, and the plan
\* it becomes holds for the rows the grammar says: precedence, grouping and
\* implicit operators are as documented (query_string_to_plan).
QueryStringsMeanWhatTheySay ==
    \A true_leaves \in SUBSET LeavesOf(tokens) :
        LET plan == query_string_to_plan(tokens, default_operator)
        IN  Truths("or", tokens, 1, Len(tokens), true_leaves) =
                IF plan = "error" THEN {} ELSE {Holds(plan, true_leaves)}

\* The backtracking of wildcard_matches finds a match exactly when one
\* exists, wherever the stars are.
WildcardsMatchExactly ==
    verdict # "none" => (verdict = "yes") = GlobMatches(pattern, value)

\* Query strings and wildcard patterns select what their grammar says.
RequestsMeanWhatTheySay == QueryStringsMeanWhatTheySay /\ WildcardsMatchExactly

=============================================================================
