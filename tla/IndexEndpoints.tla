--------------------------- MODULE IndexEndpoints ---------------------------
(***************************************************************************)
(* The Elasticsearch index and document routes (query_server:              *)
(* elastic_search_endpoints.rs, elastic_search_lifetime_policy.rs) over    *)
(* the registry of the state provider actor (query_runtime:                *)
(* elastic_search_ingest.rs, state_provider.rs, ephemeral_service_impl.rs).*)
(* Every call to the actor is one step, so an alias change is an update of *)
(* the alias map, a read and a write of the index description, and a read  *)
(* of a target expression lists the tables and then describes them one by  *)
(* one.  An index lists its aliases in its "_es_original" tag; searches go *)
(* by that tag, writes by the alias map.                                   *)
(***************************************************************************)
EXTENDS Integers, FiniteSets, Sequences, SequencesExt

CONSTANTS
    IndexNames,     \* index names, a sequence in name order; the first exists
    FirstAliases,   \* its aliases
    Matches,        \* part of a target expression -> names and aliases wildcard_matches accepts
    Admins,         \* clients that change the registry, one request each
    Updates,        \* their requests
    Reads,          \* requests of the reader
    DocumentsAt,    \* index -> checkpoint -> ids of its documents
    MaxPublished,   \* bound on published checkpoints per index
    MaxModes        \* bound on changes of the API mode

VARIABLES
    tables,         \* index -> aliases in its tag
    table_aliases,  \* alias -> index, the map writes resolve through
    templates,      \* table_templates
    policies,       \* lifetime_policies
    read_only,      \* ApiMode of the actor
    modes,          \* mode changes so far
    provider_up,    \* the actor's task runs
    serving_at,     \* published checkpoint of each index
    admin,          \* state of each admin's request
    reader,         \* state of the read request
    granted,        \* aliases written to a tag and not taken back
    overwritten     \* indices whose tag was written from an outdated description

endpointVars == <<tables, table_aliases, templates, policies, read_only, modes, provider_up,
                  serving_at, admin, reader, granted, overwritten>>

Indices == Range(IndexNames)
With(f, k, v) == [x \in DOMAIN f \cup {k} |-> IF x = k THEN v ELSE f[x]]
Without(f, k) == [x \in DOMAIN f \ {k} |-> f[x]]

-----------------------------------------------------------------------------
(* Target expressions.  A description is the index name with its aliases.  *)

requests_all(parts) == parts = {} \/ "*" \in parts

matching_target_names(part, descriptions) ==
    {d.name : d \in {e \in descriptions : e.name \in Matches[part] \/ e.aliases \cap Matches[part] # {}}}

resolved_target_names_from_descriptions(parts, descriptions) ==
    IF requests_all(parts) THEN {d.name : d \in descriptions}
    ELSE UNION {matching_target_names(p, descriptions) : p \in parts}

(* Without ignore_unavailable and allow_no_indices a part that matches     *)
(* nothing refuses the request.                                            *)
resolve_read_target_names(parts, lenient, descriptions) ==
    LET unresolved == {p \in parts : matching_target_names(p, descriptions) = {}}
    IN  IF ~requests_all(parts) /\ unresolved # {} /\ ~lenient
        THEN [status |-> 404, targets |-> {}]
        ELSE [status |-> 200, targets |-> resolved_target_names_from_descriptions(parts, descriptions)]

(* Document reads need one index. *)
resolve_single_read_target_name(parts, descriptions) ==
    LET r == resolve_read_target_names(parts, FALSE, descriptions)
    IN  IF Cardinality(r.targets) = 1 THEN r ELSE [status |-> 404, targets |-> {}]

resolve_document_target_name(parts, descriptions) ==
    LET targets == resolved_target_names_from_descriptions(parts, descriptions)
    IN  [status |-> IF Cardinality(targets) > 1 THEN 400 ELSE 200, targets |-> targets]

(* The index routes answer 404 when nothing is left, field_caps does not.  *)
requested_table_descriptions(parts, descriptions) ==
    LET targets == resolved_target_names_from_descriptions(parts, descriptions)
    IN  [status |-> IF targets = {} THEN 404 ELSE 200, targets |-> targets]

field_caps_response(parts, descriptions) ==
    [status |-> 200, targets |-> resolved_target_names_from_descriptions(parts, descriptions)]

build_alias_response(parts, alias_parts, descriptions) ==
    LET asked   == resolved_target_names_from_descriptions(parts, descriptions)
        targets == {d.name : d \in {e \in descriptions :
                       e.name \in asked /\ e.aliases \cap UNION {Matches[p] : p \in alias_parts} # {}}}
    IN  [status |-> IF targets = {} THEN 404 ELSE 200, targets |-> targets]

(* Indices by name, and aliases with the indices they belong to. *)
es_resolve_index_response(parts, descriptions) ==
    LET Asked(n) == requests_all(parts) \/ \E p \in parts : n \in Matches[p]
        targets  == {d.name : d \in {e \in descriptions : Asked(e.name) \/ \E a \in e.aliases : Asked(a)}}
    IN  [status |-> IF targets = {} THEN 404 ELSE 200, targets |-> targets]

(* The parts of the item at hand: a line pair or a document that names no  *)
(* index takes the one of the path.                                        *)
Parts(r) ==
    LET given == r.req.items[r.at].parts
    IN  IF given # {} THEN given
        ELSE CASE r.req.kind = "msearch_table" -> r.req.path
               [] r.req.kind = "mget_table"    -> r.answers[1].targets
               [] OTHER                        -> given

(* The first item of _mget on an index is the index of the path. *)
ResolvePath(parts, descriptions) ==
    LET r == resolve_read_target_names(parts, FALSE, descriptions)
    IN  IF r.status = 200 /\ Cardinality(r.targets) # 1 THEN [status |-> 400, targets |-> {}] ELSE r

(* The answer to an item, given what is known of the indices. *)
Resolve(r, descriptions) ==
    LET kind  == r.req.kind
        parts == Parts(r)
    IN  CASE kind \in {"search", "msearch", "msearch_table", "count"} ->
                resolve_read_target_names(parts, r.req.lenient, descriptions)
          [] kind = "get"                     -> resolve_single_read_target_name(parts, descriptions)
          [] kind = "mget_table" /\ r.at = 1  -> ResolvePath(parts, descriptions)
          [] kind \in {"mget", "mget_table"}  -> resolve_document_target_name(parts, descriptions)
          [] kind = "index"                   -> requested_table_descriptions(parts, descriptions)
          [] kind = "caps"                    -> field_caps_response(parts, descriptions)
          [] kind = "resolve"                 -> es_resolve_index_response(parts, descriptions)
          [] kind = "aliases"                 ->
                build_alias_response(parts, r.req.items[r.at].alias_parts, descriptions)

-----------------------------------------------------------------------------
(* The registry. *)

describe_table(name) ==
    LET final == IF name \in DOMAIN table_aliases THEN table_aliases[name] ELSE name
    IN  IF final \in DOMAIN tables THEN {[name |-> final, aliases |-> tables[final]]} ELSE {}

(* What the requests granted so far say the descriptions are.              *)
Truth(indices, aliased) == {[name |-> t, aliases |-> {a[1] : a \in {b \in aliased : b[2] = t}}] : t \in indices}

(* The indices an item asks for, by name or by alias. *)
Asked(r, truth) ==
    LET item      == r.req.items[r.at]
        parts     == Parts(r)
        Hits(n)   == \E p \in parts : n \in Matches[p]
        Listed(e) == \E a \in e.aliases, p \in item.alias_parts : a \in Matches[p]
    IN  {e.name : e \in {d \in truth : /\ parts = {} \/ Hits(d.name) \/ \E a \in d.aliases : Hits(a)
                                       /\ r.req.kind = "aliases" => Listed(d)}}

(* The indices the item at hand could have named all the time, and at all. *)
Witnessed(r, truth) ==
    IF r.pc \notin {"list", "describe"} THEN r
    ELSE [[r EXCEPT !.always = @ \cap Asked(r, truth)] EXCEPT !.ever = @ \cup Asked(r, truth)]

NextItem(r, truth) ==
    [[[[r EXCEPT !.pc = "list"] EXCEPT !.seen = {}] EXCEPT !.always = Asked(r, truth)] EXCEPT !.ever = Asked(r, truth)]

-----------------------------------------------------------------------------
(* Requests that change the registry: the handler asks for the API mode,   *)
(* then each call is checked by the actor again.                           *)

ActorAccepts == provider_up /\ ~read_only

Accept(c, req) ==
    /\ provider_up /\ admin[c].pc = "idle"
    /\ admin' = [admin EXCEPT ![c] =
          IF read_only THEN [pc |-> "refused"]
          ELSE [pc |-> req.op, req |-> req, at |-> 1, todo |-> req.aliases, desc |-> {}]]
    /\ UNCHANGED <<tables, table_aliases, templates, policies, read_only, modes, provider_up,
                   serving_at, reader, granted, overwritten>>

es_create_index(c, req) == req.op = "create" /\ Accept(c, req)
es_update_aliases(c, req) == req.op = "aliases" /\ Accept(c, req)
es_create_index_template(c, req) == req.op = "template" /\ Accept(c, req)
es_post_ilm_policy(c, req) == req.op = "policy" /\ Accept(c, req)

Refused(c, pc) ==
    /\ provider_up /\ read_only /\ admin[c].pc = pc
    /\ admin' = [admin EXCEPT ![c] = [pc |-> "failed"]]
    /\ UNCHANGED <<tables, table_aliases, templates, policies, read_only, modes, provider_up,
                   serving_at, reader, granted, overwritten>>

(* create_table replaces the description of an index that exists. *)
create_index(c) ==
    LET req == admin[c].req
        now == {g \in granted : g[2] # req.table} \cup (req.aliases \X {req.table})
    IN  /\ ActorAccepts /\ admin[c].pc = "create"
        /\ tables' = With(tables, req.table, req.aliases)
        /\ granted' = now
        /\ reader' = Witnessed(reader, Truth(DOMAIN tables', now))
        /\ admin' = [admin EXCEPT ![c] = IF req.aliases = {} THEN [pc |-> "ok"] ELSE [@ EXCEPT !.pc = "map"]]
        /\ UNCHANGED <<table_aliases, templates, policies, read_only, modes, provider_up, serving_at, overwritten>>

map_created_alias(c) ==
    /\ ActorAccepts /\ admin[c].pc = "map"
    /\ \E a \in admin[c].todo :
          /\ table_aliases' = With(table_aliases, a, admin[c].req.table)
          /\ admin' = [admin EXCEPT ![c] = IF @.todo = {a} THEN [pc |-> "ok"] ELSE [@ EXCEPT !.todo = @ \ {a}]]
    /\ UNCHANGED <<tables, templates, policies, read_only, modes, provider_up, serving_at, reader, granted, overwritten>>

AliasAction(c) == admin[c].req.actions[admin[c].at]

(* add_alias and remove_alias: the latter forgets the alias whatever index *)
(* it stands for.                                                          *)
update_aliases(c) ==
    LET a == AliasAction(c)
    IN  /\ ActorAccepts /\ admin[c].pc = "aliases"
        /\ table_aliases' = IF a.kind = "add" THEN With(table_aliases, a.alias, a.index)
                            ELSE Without(table_aliases, a.alias)
        /\ admin' = [admin EXCEPT ![c] = [@ EXCEPT !.pc = "read"]]
        /\ UNCHANGED <<tables, templates, policies, read_only, modes, provider_up, serving_at, reader, granted,
                       overwritten>>

(* describe_table of update_index_alias_metadata. *)
read_alias_metadata(c) ==
    LET desc == describe_table(AliasAction(c).index)
    IN  /\ provider_up /\ admin[c].pc = "read"
        /\ admin' = [admin EXCEPT ![c] = IF desc = {} THEN [pc |-> "failed"]
                                         ELSE [[@ EXCEPT !.pc = "upsert"] EXCEPT !.desc = desc]]
        /\ UNCHANGED <<tables, table_aliases, templates, policies, read_only, modes, provider_up,
                       serving_at, reader, granted, overwritten>>

(* A slip: the alias replaces the ones the index has. *)
ReplacesAliases(aliases, a) == IF a.kind = "add" THEN {a.alias} ELSE aliases \ {a.alias}

ChangedAliases(aliases, a) == IF a.kind = "add" THEN aliases \cup {a.alias} ELSE aliases \ {a.alias}

(* upsert_table_metadata writes the description read before. *)
update_index_alias_metadata(c) ==
    LET a    == AliasAction(c)
        desc == CHOOSE d \in admin[c].desc : TRUE
        pair == <<a.alias, desc.name>>
        now  == IF a.kind = "add" THEN granted \cup {pair} ELSE granted \ {pair}
    IN  /\ ActorAccepts /\ admin[c].pc = "upsert"
        /\ tables' = With(tables, desc.name, ChangedAliases(desc.aliases, a))
        /\ overwritten' = IF tables[desc.name] = desc.aliases THEN overwritten ELSE overwritten \cup {desc.name}
        /\ granted' = now
        /\ reader' = Witnessed(reader, Truth(DOMAIN tables', now))
        /\ admin' = [admin EXCEPT ![c] =
              IF @.at = Len(@.req.actions) THEN [pc |-> "ok"]
              ELSE [[[@ EXCEPT !.pc = "aliases"] EXCEPT !.at = @ + 1] EXCEPT !.desc = {}]]
        /\ UNCHANGED <<table_aliases, templates, policies, read_only, modes, provider_up, serving_at>>

create_index_template(c) ==
    /\ ActorAccepts /\ admin[c].pc = "template"
    /\ templates' = templates \cup {admin[c].req.table}
    /\ admin' = [admin EXCEPT ![c] = [pc |-> "ok"]]
    /\ UNCHANGED <<tables, table_aliases, policies, read_only, modes, provider_up, serving_at, reader, granted,
                   overwritten>>

(* A policy that exists panics the actor, and every later call with it.    *)
create_lifetime_policy(c) ==
    LET name == admin[c].req.table
    IN  /\ ActorAccepts /\ admin[c].pc = "policy"
        /\ provider_up' = (name \notin policies)
        /\ policies' = policies \cup {name}
        /\ admin' = [admin EXCEPT ![c] = IF name \in policies THEN [pc |-> "failed"] ELSE [pc |-> "ok"]]
        /\ UNCHANGED <<tables, table_aliases, templates, read_only, modes, serving_at, reader, granted, overwritten>>

set_api_mode ==
    /\ provider_up /\ modes < MaxModes
    /\ modes' = modes + 1 /\ read_only' = ~read_only
    /\ UNCHANGED <<tables, table_aliases, templates, policies, provider_up, serving_at, admin, reader, granted,
                   overwritten>>

-----------------------------------------------------------------------------
(* Reads.  Their items are handled in turn: one for most routes, the line  *)
(* pairs of _msearch, the documents of _mget.                              *)

Start(req) ==
    /\ provider_up /\ reader.pc = "idle"
    /\ reader' = NextItem([pc |-> "list", req |-> req, at |-> 1, seen |-> {}, left |-> << >>, always |-> {}, ever |-> {},
                           found |-> {}, targets |-> {}, answers |-> << >>, status |-> 200],
                          Truth(DOMAIN tables, granted))
    /\ UNCHANGED <<tables, table_aliases, templates, policies, read_only, modes, provider_up, serving_at, admin, granted,
                   overwritten>>

OfKind(req, kind) == req.kind = kind /\ Start(req)

es_search(req) == req.items[1].parts = {"*"} /\ OfKind(req, "search")
es_search_table(req) == req.items[1].parts # {"*"} /\ OfKind(req, "search")
es_msearch(req) == OfKind(req, "msearch")
es_msearch_table(req) == OfKind(req, "msearch_table")
es_count(req) == req.items[1].parts = {} /\ OfKind(req, "count")
es_count_table(req) == req.items[1].parts # {} /\ OfKind(req, "count")
es_get_with_id(req) == OfKind(req, "get")
es_head_with_id(req) == OfKind(req, "get")
es_mget(req) == OfKind(req, "mget")
es_mget_table(req) == OfKind(req, "mget_table")

(* Routes that differ in what they show of the indices they find. *)
es_get_index(req) == OfKind(req, "index")
es_head_index(req) == OfKind(req, "index")
es_get_index_settings(req) == OfKind(req, "index")
es_get_index_mapping(req) == OfKind(req, "index")
es_resolve_index(req) == OfKind(req, "resolve")
es_field_caps(req) == req.items[1].parts = {} /\ OfKind(req, "caps")
es_field_caps_index(req) == req.items[1].parts # {} /\ OfKind(req, "caps")

(* All aliases, those of an index, those of a name, and both. *)
AllAliases(req) == req.items[1].alias_parts = {"*"}
es_get_aliases(req) == req.items[1].parts = {} /\ AllAliases(req) /\ OfKind(req, "aliases")
es_get_index_aliases(req) == req.items[1].parts # {} /\ AllAliases(req) /\ OfKind(req, "aliases")
es_get_named_aliases(req) == req.items[1].parts = {} /\ ~AllAliases(req) /\ OfKind(req, "aliases")
es_get_index_named_aliases(req) == req.items[1].parts # {} /\ ~AllAliases(req) /\ OfKind(req, "aliases")
es_head_index_alias(req) == req.items[1].parts # {} /\ ~AllAliases(req) /\ OfKind(req, "aliases")

list_tables ==
    /\ provider_up /\ reader.pc = "list"
    /\ reader' = [[reader EXCEPT !.pc = "describe"] EXCEPT !.left = SelectSeq(IndexNames, LAMBDA t : t \in DOMAIN tables)]
    /\ UNCHANGED <<tables, table_aliases, templates, policies, read_only, modes, provider_up, serving_at, admin, granted,
                   overwritten>>

all_table_descriptions ==
    /\ provider_up /\ reader.pc = "describe" /\ reader.left # << >>
    /\ reader' = [[reader EXCEPT !.seen = @ \cup describe_table(Head(reader.left))] EXCEPT !.left = Tail(@)]
    /\ UNCHANGED <<tables, table_aliases, templates, policies, read_only, modes, provider_up, serving_at, admin, granted,
                   overwritten>>

(* The item is resolved.  A refused item ends the request, but has an      *)
(* error of its own in _msearch; a bad header there is not resolved.       *)
Answer(r) ==
    IF r.req.items[r.at].bad THEN [status |-> 400, targets |-> {}] ELSE Resolve(r, r.seen)

Ends(r, answer) == answer.status # 200 /\ r.req.kind \notin {"msearch", "msearch_table"}

AfterItem(r, answers) ==
    IF r.at < Len(r.req.items)
    THEN NextItem([[r EXCEPT !.at = @ + 1] EXCEPT !.answers = answers], Truth(DOMAIN tables, granted))
    ELSE [[r EXCEPT !.pc = IF r.req.kind \in {"get", "mget", "mget_table"} THEN "look" ELSE "done"] EXCEPT !.answers = answers]

(* What a search or a count does with its targets is in SearchExecutor.    *)
resolve_item ==
    LET answer == Answer(reader)
        entry  == [status |-> answer.status, targets |-> answer.targets, always |-> reader.always, ever |-> reader.ever]
        r      == [reader EXCEPT !.seen = {}]
    IN  /\ provider_up /\ reader.pc = "describe" /\ reader.left = << >>
        /\ reader' = IF Ends(reader, answer)
                     THEN [[[r EXCEPT !.pc = "done"] EXCEPT !.answers = Append(@, entry)] EXCEPT !.status = answer.status]
                     ELSE AfterItem(r, Append(reader.answers, entry))
        /\ UNCHANGED <<tables, table_aliases, templates, policies, read_only, modes, provider_up, serving_at, admin,
                       granted, overwritten>>

(* Documents of _mget are looked up index by index; the lookup resolves    *)
(* the index name once more, which finds the index again.                  *)
Wanted(t) ==
    {i \in 1..Len(reader.answers) :
        reader.answers[i].targets = {t} /\ ~(reader.req.kind = "mget_table" /\ i = 1)}

LookedUp(t) == Wanted(t)

lookup_document_values(t) ==
    /\ provider_up /\ reader.pc = "look"
    /\ Wanted(t) \ {f.item : f \in reader.found} # {}
    /\ reader' = [reader EXCEPT !.found = @ \cup
          {[item |-> i, index |-> t, found |-> reader.req.items[i].id \in DocumentsAt[t][serving_at[t]]] : i \in LookedUp(t)}]
    /\ UNCHANGED <<tables, table_aliases, templates, policies, read_only, modes, provider_up, serving_at, admin, granted,
                   overwritten>>

answer_documents ==
    /\ reader.pc = "look"
    /\ \A t \in Indices : Wanted(t) \subseteq {f.item : f \in reader.found}
    /\ reader' = [reader EXCEPT !.pc = "done"]
    /\ UNCHANGED <<tables, table_aliases, templates, policies, read_only, modes, provider_up, serving_at, admin, granted,
                   overwritten>>

publish_documents(t) ==
    /\ reader.pc = "look" /\ serving_at[t] < MaxPublished
    /\ serving_at' = [serving_at EXCEPT ![t] = @ + 1]
    /\ UNCHANGED <<tables, table_aliases, templates, policies, read_only, modes, provider_up, admin, reader, granted,
                   overwritten>>

-----------------------------------------------------------------------------
EndpointInit ==
    /\ tables = [t \in {IndexNames[1]} |-> FirstAliases]
    /\ table_aliases = [a \in FirstAliases |-> IndexNames[1]]
    /\ granted = FirstAliases \X {IndexNames[1]}
    /\ templates = {} /\ policies = {} /\ overwritten = {}
    /\ read_only = FALSE /\ modes = 0 /\ provider_up = TRUE
    /\ serving_at = [t \in Indices |-> 1]
    /\ admin = [c \in Admins |-> [pc |-> "idle"]]
    /\ reader = [pc |-> "idle"]

EndpointNext ==
    \/ \E c \in Admins :
          \/ \E req \in Updates : \/ es_create_index(c, req) \/ es_update_aliases(c, req)
                                  \/ es_create_index_template(c, req) \/ es_post_ilm_policy(c, req)
          \/ \E pc \in {"create", "map", "aliases", "upsert", "template", "policy"} : Refused(c, pc)
          \/ create_index(c) \/ map_created_alias(c)
          \/ update_aliases(c) \/ read_alias_metadata(c) \/ update_index_alias_metadata(c)
          \/ create_index_template(c) \/ create_lifetime_policy(c)
    \/ set_api_mode
    \/ \E req \in Reads :
          \/ es_search(req) \/ es_search_table(req) \/ es_msearch(req) \/ es_msearch_table(req)
          \/ es_count(req) \/ es_count_table(req) \/ es_get_with_id(req) \/ es_head_with_id(req)
          \/ es_mget(req) \/ es_mget_table(req) \/ es_get_index(req) \/ es_head_index(req)
          \/ es_get_index_settings(req) \/ es_get_index_mapping(req) \/ es_resolve_index(req)
          \/ es_field_caps(req) \/ es_field_caps_index(req) \/ es_get_aliases(req)
          \/ es_get_index_aliases(req) \/ es_get_named_aliases(req) \/ es_get_index_named_aliases(req)
          \/ es_head_index_alias(req)
    \/ list_tables \/ all_table_descriptions \/ resolve_item \/ answer_documents
    \/ \E t \in Indices : lookup_document_values(t) \/ publish_documents(t)

EndpointSpec == EndpointInit /\ [][EndpointNext]_endpointVars

-----------------------------------------------------------------------------
(* A target expression names an index that matched it during the whole     *)
(* resolution and none that never did, although indices are described one  *)
(* by one while aliases move, and every line pair of an _msearch has its   *)
(* own answer.  Excepted are indices whose tag was written from an         *)
(* outdated description: there an alias is lost or comes back.             *)
ResolutionIsBracketed ==
    reader.pc \in {"look", "done"} =>
        /\ reader.status = 200 \/ reader.req.kind \in {"msearch", "msearch_table"} => Len(reader.answers) = Len(reader.req.items)
        /\ \A i \in DOMAIN reader.answers :
              LET a == reader.answers[i]
              IN  /\ a.targets \subseteq a.ever \cup overwritten
                  /\ (a.status = 200 \/ reader.req.kind = "aliases") => a.always \ overwritten \subseteq a.targets

(* The documents of one index in an _mget answer come from one published   *)
(* checkpoint of that index, however the frontier moves meanwhile.         *)
MgetAnswersAreSnapshots ==
    reader.pc = "done" =>
        \A t \in Indices : \E k \in 1..MaxPublished : \A f \in reader.found :
            f.index = t => f.found = (reader.req.items[f.item].id \in DocumentsAt[t][k])

(* Between alias requests a write through an alias that belongs to one     *)
(* index reaches that index.  The tags and the alias map are written by     *)
(* separate calls and may disagree (README, deviations without a run).      *)
AliasWritesReachTheirIndex ==
    (\A c \in Admins : admin[c].pc \in {"idle", "ok"}) =>
        \A g \in granted : (\A h \in granted : h[1] = g[1] => h = g) /\ g[2] \notin overwritten =>
            {d.name : d \in describe_table(g[1])} = {g[2]}

(* Requests that resolve several indices or read several documents answer  *)
(* for states the registry and the tables were in.                         *)
IndexReadsAreConsistent == ResolutionIsBracketed /\ MgetAnswersAreSnapshots

=============================================================================
