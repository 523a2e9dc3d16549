---------------------------- MODULE ElasticIngest ----------------------------
(***************************************************************************)
(* Elasticsearch writes (query_runtime: elastic_search_ingest.rs,          *)
(* elastic_search_storage_schema.rs, distributed_cache.rs).  A document    *)
(* handler looks its document up in the published checkpoint, builds the   *)
(* rows and tombstones of the change, takes sequence numbers, uploads      *)
(* segments and commits them; the ingest actor does the same for the bulk  *)
(* requests it has gathered, table by table.  Uploads and metadata commits *)
(* may fail, a commit also after it took effect.                           *)
(***************************************************************************)
EXTENDS Integers, FiniteSets, Sequences, SequencesExt

CONSTANTS
    NoId,            \* a document without an id
    IngestTables,    \* tables
    AliasOf,         \* alias name -> table
    Singles,         \* clients of the single document handlers, one call each
    Bulks,           \* bulk clients, one call each
    SingleOps,       \* operations of Singles
    Payloads,        \* payloads of Bulks: sequences of operations
    MaxFaults        \* bound on failed uploads and commits and metadata upserts

VARIABLES
    seq_cache,   \* distributed_cache: next_seq_no, and how often it was reset
    committed,   \* latest checkpoint per table: segments and tombstones
    visible,     \* published checkpoint per table
    uploaded,    \* segments in object storage
    orphans,     \* segments named by orphan markers
    unmarked,    \* segments whose marker could not be written or is not tried
    single,      \* state of each document handler
    bulk,        \* state of each bulk client
    actor,       \* IngestActor
    disturbed,   \* documents written while an earlier write was not published
    faults       \* failures and upserts so far

ingestVars == <<seq_cache, committed, visible, uploaded, orphans, unmarked, single, bulk, actor,
                disturbed, faults>>

-----------------------------------------------------------------------------
Names == IngestTables \cup DOMAIN AliasOf
describe_table(name) == IF name \in DOMAIN AliasOf THEN AliasOf[name] ELSE name
EmptyCheckpoint == [segments |-> {}, tombstones |-> {}]
RowsOf(checkpoint) == UNION {s.rows : s \in checkpoint.segments}
Live(checkpoint) == {r \in RowsOf(checkpoint) : <<r.id, r.seq_no>> \notin checkpoint.tombstones}

-----------------------------------------------------------------------------
(* Documents are functions from the paths of their leaves to values.       *)

(* A leaf of the old document stays unless the update has that leaf, or a  *)
(* leaf above or below it.                                                 *)
merge_source(existing, update) ==
    LET kept == {p \in DOMAIN existing : \A q \in DOMAIN update : ~IsPrefix(q, p) /\ ~IsPrefix(p, q)}
    IN  [p \in kept \cup DOMAIN update |-> IF p \in DOMAIN update THEN update[p] ELSE existing[p]]

lookup_record_is_newer(a, b) == a.seq_no > b.seq_no \/ (a.seq_no = b.seq_no /\ a.version > b.version)

(* The newest published row of a document, at most one. *)
get_existing_docs(table, id) ==
    LET hits == {r \in Live(visible[table]) : r.id = id}
    IN  {r \in hits : \A s \in hits : ~lookup_record_is_newer(s, r)}

(* A row before it has a sequence number, the origin naming its operation. *)
RecordInput(id, version, doc, origin) ==
    [id |-> id, version |-> version, doc |-> doc, origin |-> origin, seq_no |-> 0, epoch |-> 0]

EmptyBuilder == [insert_records |-> << >>, update_records |-> << >>, delete_records |-> << >>]
insert_record(b, record) == [b EXCEPT !.insert_records = Append(@, record)]
delete_record(b, old) == [b EXCEPT !.delete_records = Append(@, <<old.id, old.seq_no>>)]

(* A slip: the replaced row is not deleted. *)
KeepsReplaced(b, old, doc, origin) ==
    [b EXCEPT !.update_records = Append(@, RecordInput(old.id, old.version + 1, doc, origin))]

replace_record(b, old, doc, origin) ==
    delete_record([b EXCEPT !.update_records = Append(@, RecordInput(old.id, old.version + 1, doc, origin))], old)

extend(b, c) ==
    [insert_records |-> b.insert_records \o c.insert_records,
     update_records |-> b.update_records \o c.update_records,
     delete_records |-> b.delete_records \o c.delete_records]

(* The builder after an operation, or no builder if it is refused.  Of the *)
(* document handlers, and in bulk, only update and delete of a single      *)
(* document commit under the table an alias names.                         *)
apply_update_request(b, op, id, existing, origin) ==
    IF existing # {}
    THEN {replace_record(b, old, merge_source(old.doc, d), origin) : old \in existing, d \in op.patch}
    ELSE IF op.doc_as_upsert THEN {insert_record(b, RecordInput(id, 1, d, origin)) : d \in op.patch}
    ELSE {insert_record(b, RecordInput(id, 1, d, origin)) : d \in op.upsert}

ApplyIndex(b, op, id, existing, origin) ==
    IF existing = {} THEN {insert_record(b, RecordInput(id, 1, d, origin)) : d \in op.patch}
    ELSE {replace_record(b, old, d, origin) : old \in existing, d \in op.patch}

ApplyDelete(b, existing) == {delete_record(b, old) : old \in existing}

create_single_worker(op, id, existing, origin) ==
    IF existing # {} THEN {} ELSE ApplyIndex(EmptyBuilder, op, id, {}, origin)

index_single_worker(op, id, existing, origin) ==
    ApplyIndex(EmptyBuilder, op, id, IF op.id = NoId THEN {} ELSE existing, origin)

SingleBuilder(op, id, origin) ==
    LET existing == get_existing_docs(describe_table(op.index), id)
    IN  CASE op.kind = "create" -> create_single_worker(op, id, existing, origin)
          [] op.kind = "index"  -> index_single_worker(op, id, existing, origin)
          [] op.kind = "update" -> apply_update_request(EmptyBuilder, op, id, existing, origin)
          [] op.kind = "delete" -> ApplyDelete(EmptyBuilder, existing)

SingleTarget(op) == IF op.kind \in {"create", "index"} THEN op.index ELSE describe_table(op.index)
BulkTarget(op) == IF op.kind \in {"create", "index"} THEN describe_table(op.index) ELSE op.index

(* One bulk operation: a create does not look its document up, a delete of *)
(* a missing document changes nothing.                                     *)
BulkBuilder(b, op, id, origin) ==
    LET existing == get_existing_docs(describe_table(op.index), id)
    IN  CASE op.kind = "create" -> ApplyIndex(b, op, id, {}, origin)
          [] op.kind = "index"  -> ApplyIndex(b, op, id, existing, origin)
          [] op.kind = "update" -> apply_update_request(b, op, id, existing, origin)
          [] op.kind = "delete" -> IF existing = {} THEN {b} ELSE ApplyDelete(b, existing)

-----------------------------------------------------------------------------
(* Sequence numbers and buffers. *)

ChangeCount(b) == Len(b.insert_records) + Len(b.update_records) + Len(b.delete_records)

(* Numbers of a batch go down from the new last one. *)
report_table_changes(name, b) ==
    LET n    == ChangeCount(b)
        last == seq_cache[name].next_seq_no + n
    IN  [seq_nos |-> [i \in 1..n |-> last - (i - 1)],
         cache   |-> [next_seq_no |-> last, epoch |-> seq_cache[name].epoch]]

(* A row that has a number keeps it. *)
ensure_normalized_value(r, n, name) ==
    IF r.seq_no # 0 THEN r ELSE [[r EXCEPT !.seq_no = n] EXCEPT !.epoch = seq_cache[name].epoch]

build_buffers(name, b) ==
    LET seq_nos == report_table_changes(name, b).seq_nos
        k       == Len(b.insert_records)
    IN  [[b EXCEPT !.insert_records = [i \in DOMAIN @ |-> ensure_normalized_value(@[i], seq_nos[i], name)]]
            EXCEPT !.update_records = [i \in DOMAIN @ |-> ensure_normalized_value(@[i], seq_nos[k + i], name)]]

(* The segments of a commit, named by their content. *)
Segments(name, b) ==
    LET rows == Range(b.insert_records) \cup Range(b.update_records)
    IN  [data   |-> IF rows = {} THEN {} ELSE {[table |-> name, label |-> "commit", rows |-> rows, tombstones |-> {}]},
         delete |-> IF b.delete_records = << >> THEN {}
                    ELSE {[table |-> name, label |-> "delete", rows |-> {}, tombstones |-> Range(b.delete_records)]}]

AllSegments(name, b) == Segments(name, b).data \cup Segments(name, b).delete

Applied(name, b) ==
    [committed EXCEPT ![name] =
        [segments   |-> @.segments \cup Segments(name, b).data,
         tombstones |-> @.tombstones \cup Range(b.delete_records)]]

(* The metadata commit reports an error, applied or not, and a marker is   *)
(* written if storage lets it.                                             *)
write_speedboat_orphan_marker(name, b) ==
    /\ uploaded' = uploaded \cup AllSegments(name, b)
    /\ committed' \in {committed, Applied(name, b)}
    /\ \/ orphans' = orphans \cup AllSegments(name, b) /\ UNCHANGED unmarked
       \/ unmarked' = unmarked \cup AllSegments(name, b) /\ UNCHANGED orphans

(* write_to_file fails for the data or for the delete segment; if it is    *)
(* the second, the first is left without a marker.                         *)
write_to_file_fails(name, b) ==
    /\ \/ UNCHANGED <<uploaded, unmarked>>
       \/ /\ Segments(name, b).data # {} /\ Segments(name, b).delete # {}
          /\ uploaded' = uploaded \cup Segments(name, b).data
          /\ unmarked' = unmarked \cup Segments(name, b).data
    /\ UNCHANGED <<committed, orphans>>

(* commit_speedboat: segments are uploaded, then named in the metadata.    *)
CommitSucceeds(name, b) ==
    /\ uploaded' = uploaded \cup AllSegments(name, b)
    /\ committed' = Applied(name, b)
    /\ UNCHANGED <<orphans, unmarked, faults>>

CommitFails(name, b) ==
    /\ faults < MaxFaults /\ faults' = faults + 1
    /\ write_to_file_fails(name, b) \/ write_speedboat_orphan_marker(name, b)

-----------------------------------------------------------------------------
(* A write to a document is pending from its lookup to its commit, and     *)
(* unsettled until that commit is published.                               *)

Mentions(b, id) ==
    \/ \E r \in Range(b.insert_records) \cup Range(b.update_records) : r.id = id
    \/ \E d \in Range(b.delete_records) : d[1] = id

Pending(table, id) ==
    \/ \E c \in Singles : single[c].pc \in {"build", "commit"}
          /\ describe_table(single[c].name) = table /\ Mentions(single[c].builder, id)
    \/ \E name \in Names : describe_table(name) = table
          /\ (Mentions(actor.tables[name], id) \/ Mentions(actor.result[name], id))

OfDocument(checkpoint, id) == {r \in Live(checkpoint) : r.id = id}

Settled(table, id) ==
    ~Pending(table, id) /\ OfDocument(committed[table], id) = OfDocument(visible[table], id)

-----------------------------------------------------------------------------
(* Document handlers. *)

handle_single(c, op) ==
    LET id == IF op.id = NoId THEN c ELSE op.id
        table == describe_table(op.index)
    IN  /\ single[c].pc = "idle" /\ op.kind # "update_by_query"
        /\ single' = [single EXCEPT ![c] =
              IF SingleBuilder(op, id, <<c, 1>>) = {} THEN [pc |-> "refused"]
              ELSE [pc |-> "build", name |-> SingleTarget(op), index |-> op.index,
                    builder |-> CHOOSE b \in SingleBuilder(op, id, <<c, 1>>) : TRUE]]
        /\ disturbed' = IF Settled(table, id) THEN disturbed ELSE disturbed \cup {<<table, id>>}
        /\ UNCHANGED <<seq_cache, committed, visible, uploaded, orphans, unmarked, bulk, actor, faults>>

(* What the script makes of a document: the new source, or a noop. *)
evaluate(op, r) == IF r.id \in op.noops THEN {} ELSE op.patch

create_final_result(rows, op, origin) ==
    FoldLeft(LAMBDA b, r : IF evaluate(op, r) = {} THEN b
                           ELSE replace_record(b, r, CHOOSE d \in evaluate(op, r) : TRUE, <<origin, r.seq_no, r.epoch>>),
             EmptyBuilder, rows)

(* Every live row the query finds in the published checkpoint is replaced  *)
(* by the script's outcome, older rows of the same document included.      *)
update_by_query(c, op) ==
    LET table == describe_table(op.index)
        found == {r \in Live(visible[table]) : r.id \in op.ids}
        stale == {r.id : r \in {s \in found : ~Settled(table, s.id)}}
    IN  /\ single[c].pc = "idle" /\ op.kind = "update_by_query"
        /\ single' = [single EXCEPT ![c] =
              IF found = {} THEN [pc |-> "ok", name |-> table, index |-> op.index]
              ELSE [pc |-> "build", name |-> table, index |-> op.index,
                    builder |-> create_final_result(SetToSeq(found), op, c)]]
        /\ disturbed' = disturbed \cup {<<table, id>> : id \in stale}
        /\ UNCHANGED <<seq_cache, committed, visible, uploaded, orphans, unmarked, bulk, actor, faults>>

single_build(c) ==
    /\ single[c].pc = "build"
    /\ LET s == single[c]
       IN  /\ seq_cache' = [seq_cache EXCEPT ![s.name] = report_table_changes(s.name, s.builder).cache]
           /\ single' = [single EXCEPT ![c] = [[s EXCEPT !.pc = "commit"] EXCEPT !.builder = build_buffers(s.name, s.builder)]]
    /\ UNCHANGED <<committed, visible, uploaded, orphans, unmarked, bulk, actor, disturbed, faults>>

single_commit(c) ==
    /\ single[c].pc = "commit"
    /\ \/ /\ CommitSucceeds(single[c].name, single[c].builder)
          /\ single' = [single EXCEPT ![c] = [pc |-> "ok", name |-> single[c].name, index |-> single[c].index]]
       \/ CommitFails(single[c].name, single[c].builder) /\ single' = [single EXCEPT ![c] = [pc |-> "failed"]]
    /\ UNCHANGED <<seq_cache, visible, bulk, actor, disturbed>>

-----------------------------------------------------------------------------
(* The ingest actor.  tables and requests are its fields, result the       *)
(* IngestResult of the payload at hand; left are the tables still to be    *)
(* committed by this attempt.                                              *)

NoTables == [n \in Names |-> EmptyBuilder]

do_ingest(c, payload) ==
    /\ bulk[c].pc = "idle" /\ actor.pc = "receive"
    /\ actor' = [[actor EXCEPT !.pc = "ingest"] EXCEPT !.client = c]
    /\ bulk' = [bulk EXCEPT ![c] = [pc |-> "ingest", todo |-> payload, at |-> 1]]
    /\ UNCHANGED <<seq_cache, committed, visible, uploaded, orphans, unmarked, single, disturbed, faults>>

(* One line pair of the payload; an operation that is refused fails the    *)
(* request and drops what it had gathered.                                 *)
ingest(c) ==
    /\ actor.pc = "ingest" /\ actor.client = c /\ bulk[c].todo # << >>
    /\ LET op       == Head(bulk[c].todo)
           id       == IF op.id = NoId THEN <<c, bulk[c].at>> ELSE op.id
           table    == describe_table(op.index)
           name     == BulkTarget(op)
           builders == BulkBuilder(actor.result[name], op, id, <<c, bulk[c].at>>)
           clean    == Settled(table, id) /\ (op.kind = "create" => OfDocument(visible[table], id) = {})
       IN  /\ IF builders = {}
              THEN /\ actor' = [[actor EXCEPT !.pc = "receive"] EXCEPT !.result = NoTables]
                   /\ bulk' = [bulk EXCEPT ![c] = [pc |-> "failed"]]
              ELSE /\ \E b \in builders : actor' = [actor EXCEPT !.result[name] = b]
                   /\ bulk' = [bulk EXCEPT ![c] = [[@ EXCEPT !.todo = Tail(@)] EXCEPT !.at = @ + 1]]
           /\ disturbed' = IF clean THEN disturbed ELSE disturbed \cup {<<table, id>>}
    /\ UNCHANGED <<seq_cache, committed, visible, uploaded, orphans, unmarked, single, faults>>

Origins(b) == {r.origin : r \in Range(b.insert_records) \cup Range(b.update_records)}

merge_table_buffers(c) ==
    /\ actor.pc = "ingest" /\ actor.client = c /\ bulk[c].todo = << >>
    /\ actor' = [[[[actor EXCEPT !.pc = "receive"] EXCEPT !.requests = @ \cup {c}]
                    EXCEPT !.tables = [n \in Names |-> extend(@[n], actor.result[n])]]
                    EXCEPT !.result = NoTables]
    /\ bulk' = [bulk EXCEPT ![c] =
          [pc |-> "waiting", origins |-> UNION {Origins(actor.result[n]) : n \in Names},
           tombstones |-> {<<n, d>> : n \in Names, d \in UNION {Range(actor.result[m].delete_records) : m \in Names}}
                              \cap UNION {{n} \X Range(actor.result[n].delete_records) : n \in Names}]]
    /\ UNCHANGED <<seq_cache, committed, visible, uploaded, orphans, unmarked, single, disturbed, faults>>

(* The commit message of the 200 ms timer. *)
start_commit ==
    /\ actor.pc = "receive" /\ actor.requests # {}
    /\ actor' = [[actor EXCEPT !.pc = "next"] EXCEPT !.left = {n \in Names : ChangeCount(actor.tables[n]) > 0}]
    /\ UNCHANGED <<seq_cache, committed, visible, uploaded, orphans, unmarked, single, bulk, disturbed, faults>>

actor_build(n) ==
    /\ actor.pc = "next" /\ n \in actor.left
    /\ seq_cache' = [seq_cache EXCEPT ![n] = report_table_changes(n, actor.tables[n]).cache]
    /\ actor' = [[[actor EXCEPT !.pc = "commit"] EXCEPT !.tables[n] = build_buffers(n, @)] EXCEPT !.current = n]
    /\ UNCHANGED <<committed, visible, uploaded, orphans, unmarked, single, bulk, disturbed, faults>>

(* An error ends the attempt; every table stays buffered for the next.     *)
actor_commit ==
    LET n == actor.current
    IN  /\ actor.pc = "commit"
        /\ \/ CommitSucceeds(n, actor.tables[n]) /\ actor' = [[actor EXCEPT !.pc = "next"] EXCEPT !.left = @ \ {n}]
           \/ CommitFails(n, actor.tables[n]) /\ actor' = [actor EXCEPT !.pc = "receive"]
        /\ UNCHANGED <<seq_cache, visible, single, bulk, disturbed>>

answer_requests ==
    /\ actor.pc = "next" /\ actor.left = {}
    /\ actor' = [[[actor EXCEPT !.pc = "receive"] EXCEPT !.requests = {}] EXCEPT !.tables = NoTables]
    /\ bulk' = [c \in Bulks |-> IF c \in actor.requests THEN [bulk[c] EXCEPT !.pc = "ok"] ELSE bulk[c]]
    /\ UNCHANGED <<seq_cache, committed, visible, uploaded, orphans, unmarked, single, disturbed, faults>>

-----------------------------------------------------------------------------
(* The latest checkpoint of a table is published (modules Cutover and      *)
(* Lakehouse).                                                             *)
publish(t) ==
    /\ visible[t] # committed[t]
    /\ visible' = [visible EXCEPT ![t] = committed[t]]
    /\ UNCHANGED <<seq_cache, committed, uploaded, orphans, unmarked, single, bulk, actor, disturbed, faults>>

(* UpsertTableMetadata, sent by _aliases and by the protocol configuration *)
(* routes, creates the table's counters anew.  Documents of the table are  *)
(* no longer told apart by sequence number.                                *)
upsert_table_metadata(t) ==
    /\ faults < MaxFaults /\ faults' = faults + 1
    /\ seq_cache' = [seq_cache EXCEPT ![t] = [next_seq_no |-> 0, epoch |-> @.epoch + 1]]
    /\ disturbed' = disturbed \cup {<<t, r.id>> : r \in RowsOf(committed[t])}
    /\ UNCHANGED <<committed, visible, uploaded, orphans, unmarked, single, bulk, actor>>

-----------------------------------------------------------------------------
IngestInit ==
    /\ seq_cache = [n \in Names |-> [next_seq_no |-> 0, epoch |-> 0]]
    /\ committed = [n \in Names |-> EmptyCheckpoint]
    /\ visible = [t \in IngestTables |-> EmptyCheckpoint]
    /\ uploaded = {} /\ orphans = {} /\ unmarked = {} /\ disturbed = {}
    /\ single = [c \in Singles |-> [pc |-> "idle"]]
    /\ bulk = [c \in Bulks |-> [pc |-> "idle"]]
    /\ actor = [pc |-> "receive", client |-> NoId, current |-> NoId, left |-> {}, requests |-> {},
                tables |-> NoTables, result |-> NoTables]
    /\ faults = 0

IngestNext ==
    \/ \E c \in Singles :
          \/ \E op \in SingleOps : handle_single(c, op) \/ update_by_query(c, op)
          \/ single_build(c) \/ single_commit(c)
    \/ \E c \in Bulks :
          \/ \E payload \in Payloads : do_ingest(c, payload)
          \/ ingest(c) \/ merge_table_buffers(c)
    \/ start_commit \/ actor_commit \/ answer_requests
    \/ \E n \in Names : actor_build(n)
    \/ \E t \in IngestTables : publish(t) \/ upsert_table_metadata(t)

IngestSpec == IngestInit /\ [][IngestNext]_ingestVars

-----------------------------------------------------------------------------
(* A bulk request is answered with success only when every row and every   *)
(* tombstone it produced is in the metadata of its table, although the     *)
(* actor commits table by table and gathers more requests between a failed *)
(* attempt and the next.                                                   *)
AnsweredBulksAreCommitted ==
    \A c \in Bulks : bulk[c].pc = "ok" =>
        /\ bulk[c].origins \subseteq {r.origin : r \in UNION {RowsOf(committed[n]) : n \in Names}}
        /\ \A d \in bulk[c].tombstones : d[2] \in committed[d[1]].tombstones

(* Between two resets of a table's counters a document id and a sequence   *)
(* number name one row: attempts that commit a row again commit the same   *)
(* row, and a tombstone never hits a row it was not written for.           *)
SeqNosIdentifyRows ==
    \A n \in Names : \A r, s \in RowsOf(committed[n]) :
        /\ r.origin = s.origin => r = s
        /\ r.id = s.id /\ r.seq_no = s.seq_no /\ r.epoch = s.epoch => r.origin = s.origin

(* A document whose writes each started after the one before was published *)
(* has at most one live row, whatever fails and is committed again.        *)
OneLiveVersion ==
    \A t \in IngestTables : \A r, s \in Live(committed[t]) :
        r.id = s.id /\ <<t, r.id>> \notin disturbed => r = s

(* However a commit fails, a segment it left in storage is in the metadata *)
(* or has an orphan marker, but for the two cases the code leaves out: the *)
(* marker cannot be written, or the delete segment fails after the data.   *)
SegmentsAreAccounted ==
    \A s \in uploaded :
        \/ s \in UNION {committed[n].segments : n \in Names} \cup orphans \cup unmarked
        \/ s.tombstones # {} /\ s.tombstones \subseteq committed[s.table].tombstones

(* A row is committed to the table its index name stands for.  A       *)
(* single create or index request commits under the name it was given, be   *)
(* it an alias (README, deviations without a run).                          *)
WritesReachTheirTable ==
    \A c \in Singles : single[c].pc = "ok" => single[c].name = describe_table(single[c].index)

(* The number a table hands out next never goes down.  upsert_table_metadata *)
(* starts it again (README, deviations without a run).                      *)
SeqNosAreMonotonic ==
    [][\A n \in Names : seq_cache'[n].next_seq_no >= seq_cache[n].next_seq_no]_ingestVars

(* Through failed and repeated commits, answered writes are committed,     *)
(* rows stay identified by their numbers, documents have one live version  *)
(* and no segment is left unknown.                                         *)
IngestedRowsAreExact ==
    /\ AnsweredBulksAreCommitted
    /\ SeqNosIdentifyRows
    /\ OneLiveVersion
    /\ SegmentsAreAccounted

=============================================================================
