----------------------------- MODULE RaftService -----------------------------
(***************************************************************************)
(* The Raft backend of the metadata service (service_lib/                  *)
(* raft_service_impl.rs) behind the request path of the service binary     *)
(* (service/: v1_handlers.rs, raft_handlers.rs, service_impl_provider.rs). *)
(*                                                                         *)
(* The replicated state machine holds ONE value, the serialised snapshot   *)
(* of the whole in-memory service; here it is the set of updates the       *)
(* snapshot contains.  A mutating operation reads the LOCAL copy of the    *)
(* state machine, computes on it and replicates the whole result; a read   *)
(* first asks openraft to confirm its leadership.  Everything a process    *)
(* does, the consensus messages of its peers included, goes through one    *)
(* actor that finishes a message before it takes the next one.             *)
(*                                                                         *)
(* openraft and its in-memory store are external: log is the sequence of   *)
(* entries the cluster has committed, and elections, replication and the   *)
(* deduplication by client serial are modelled from their use here.        *)
(***************************************************************************)
EXTENDS Naturals, FiniteSets, Sequences, TLC

CONSTANTS
    Servers,       \* the service processes of the cluster
    Operations,    \* the requests clients make, each of them once
    MaxTerm,       \* elections stop at this term
    MaxCrashes     \* processes that may be lost

VARIABLES
    log,       \* committed entries: snapshot, client serial, term
    applied,   \* per server: how much of the log its state machine has applied
    term,      \* per server: the highest term it has seen
    leader,    \* per server: current_leader, a set of at most one server
    serial,    \* per server: write_serial
    actor,     \* per server: the message its actor is busy with, {} when idle
    request,   \* per operation: where the request is, and its outcome
    crashed,   \* servers that are gone
    readAt     \* the log position the last answered read was served from

raftVars == <<log, applied, term, leader, serial, actor, request, crashed, readAt>>

Quorums == {Q \in SUBSET Servers : 2 * Cardinality(Q) > Cardinality(Servers)}

MaxOf(S) == CHOOSE n \in S : \A m \in S : m <= n

\* How RaftServiceImpl serves each operation: "write" is raft_write_state, "read"
\* raft_read_state.  Handing out work is a write: it marks the items taken.
ServiceAccess ==
    [op \in {"add_checkpoint", "create_table", "upsert_table_metadata", "add_alias",
             "remove_alias", "create_table_template", "create_pipeline",
             "create_lifetime_policy", "speedboat_commit", "iceberg_commit",
             "extension_commit", "compaction_commit", "cleanup_commit",
             "get_extension_work_items", "get_compaction_work_items",
             "get_cleanup_work_items", "update_all_checkpoints"} |-> "write"]
    @@ [op \in {"get_all_iceberg_tables", "describe_table", "describe_table_template",
                "describe_pipeline", "describe_lifetime_policy", "get_latest_checkpoint",
                "get_published_active_checkpoint", "get_checkpoint",
                "get_latest_target_checkpoint"} |-> "read"]

\* The operations of its MetadataStore implementation: asking for the cutover
\* state is a read, so the membership it captures on its copy is dropped.
StoreAccess ==
    [op \in {"queue_checkpoint_publication", "plan_checkpoint_cutover",
             "heartbeat_serving_node", "record_serving_node_activation",
             "record_artifact_readiness"} |-> "write"]
    @@ [op \in {"get_latest_committed_checkpoint", "get_published_checkpoint_record",
                "get_checkpoint_cutover_state", "list_serving_node_activations",
                "list_artifact_readiness"} |-> "read"]

Access == ServiceAccess @@ StoreAccess

\* What HTTP offers: every other caller of an operation is the process itself.
Routes ==
    {"create_table", "describe_table", "add_alias", "remove_alias",
     "create_table_template", "describe_table_template", "create_pipeline",
     "describe_pipeline", "create_lifetime_policy", "describe_lifetime_policy",
     "speedboat_commit", "iceberg_commit", "extension_commit", "compaction_commit",
     "cleanup_commit", "get_latest_checkpoint", "get_published_active_checkpoint",
     "get_latest_target_checkpoint", "get_checkpoint_cutover_state",
     "heartbeat_serving_node", "record_serving_node_activation",
     "record_artifact_readiness", "list_artifact_readiness",
     "get_checkpoint", "get_extension_work_items",
     "get_compaction_work_items", "get_cleanup_work_items"}

RaftInit ==
    /\ log = <<>>
    /\ applied = [s \in Servers |-> 0]
    /\ term = [s \in Servers |-> 0]
    /\ leader = [s \in Servers |-> {}]
    /\ serial = [s \in Servers |-> 0]
    /\ actor = [s \in Servers |-> {}]
    /\ request = [op \in Operations |-> [at |-> {}, stage |-> "new"]]
    /\ crashed = {}
    /\ readAt = 0

(***************************************************************************)
(* openraft and openraft_memstore, as this backend uses them               *)
(***************************************************************************)

\* The state machine after the first n entries.  The store keeps the last serial of
\* a client and answers an entry with that serial without applying it; every
\* process writes as the same client.
machine[n \in Nat] ==
    IF n = 0 THEN [state |-> {}, serial |-> 0]
    ELSE IF log[n].serial = machine[n - 1].serial THEN machine[n - 1]
    ELSE [state |-> log[n].state, serial |-> log[n].serial]

\* A peer answers an RPC when it is alive and its actor gets to the message.
Answers(s) == s \notin crashed /\ actor[s] = {}

Alive(s) == s \notin crashed

IsLeader(s) == leader[s] = {s}

\* The peers s needs, besides itself, to commit or to confirm that it still leads.
Followed(s, Q) ==
    /\ s \in Q
    /\ \A q \in Q \ {s} : Answers(q) /\ term[q] <= term[s]

\* Messages of the leader bring its term to those that answered.
Adopt(s, Q) ==
    /\ term' = [q \in Servers |-> IF q \in Q THEN term[s] ELSE term[q]]
    /\ leader' = [q \in Servers |-> IF q \in Q THEN {s} ELSE leader[q]]

Answered(op, outcome) == [request EXCEPT ![op] = [at |-> {}, stage |-> outcome]]

\* A candidate wins the votes of a quorum (raft_handlers::vote runs in the actor of
\* the voter).  An entry the deposed leader was still replicating is in the log of
\* the winner, or it is not; the process that sent it has not been told either way.
Elect(s) ==
    /\ Alive(s) /\ ~IsLeader(s) /\ actor[s] = {}
    /\ LET next == MaxOf({term[t] : t \in Servers}) + 1
           last == {o \in Servers : IsLeader(o) /\ term[o] = next - 1}
           sent == UNION {{[state |-> m.state, serial |-> m.serial, term |-> next - 1] :
                             m \in actor[o]} : o \in last}
       IN /\ next <= MaxTerm
          /\ \E Q \in Quorums :
               /\ s \in Q /\ \A q \in Q \ {s} : Answers(q)
               /\ term' = [q \in Servers |-> IF q \in Q THEN next ELSE term[q]]
               /\ leader' = [q \in Servers |-> IF q = s THEN {s}
                                               ELSE IF q \in Q THEN {} ELSE leader[q]]
          /\ log' \in {log} \cup {Append(log, e) : e \in sent}
    /\ UNCHANGED <<applied, serial, actor, request, crashed, readAt>>

\* Replication from a leader to one peer (raft_handlers::append_entries): the peer
\* follows and catches up, or its newer term deposes the sender, whose pending
\* client_write then fails.
append_entries(s, t) ==
    /\ Alive(s) /\ IsLeader(s) /\ s # t /\ Answers(t)
    /\ IF term[t] <= term[s]
       THEN /\ \/ term[t] < term[s] \/ leader[t] # {s} \/ applied[t] < applied[s]
            /\ Adopt(s, {s, t})
            /\ applied' = [applied EXCEPT ![t] = MaxOf({@, applied[s]})]
            /\ UNCHANGED <<actor, request>>
       ELSE /\ term' = [term EXCEPT ![s] = term[t]]
            /\ leader' = [leader EXCEPT ![s] = {}]
            /\ actor' = [actor EXCEPT ![s] = {}]
            /\ request' = [op \in Operations |->
                             IF \E m \in actor[s] : m.op = op
                             THEN [at |-> {}, stage |-> "failed"] ELSE request[op]]
            /\ UNCHANGED applied
    /\ UNCHANGED <<log, serial, crashed, readAt>>

\* A leader whose first entry of the term is committed has applied the whole log.
Establish(s) ==
    /\ Alive(s) /\ IsLeader(s) /\ applied[s] < Len(log)
    /\ \E Q \in Quorums : Followed(s, Q) /\ Adopt(s, Q)
    /\ applied' = [applied EXCEPT ![s] = Len(log)]
    /\ UNCHANGED <<log, serial, actor, request, crashed, readAt>>

(***************************************************************************)
(* The request path                                                        *)
(***************************************************************************)

\* A client picks any process.
arrive(op) ==
    /\ request[op].stage = "new" /\ op \in Routes
    /\ \E s \in Servers \ crashed :
         request' = [request EXCEPT ![op] = [at |-> {s}, stage |-> "handler"]]
    /\ UNCHANGED <<log, applied, term, leader, serial, actor, crashed, readAt>>

\* forward_base_url is itself a message to the actor.  The request goes to the
\* process believed to lead, which asks the same question again; nothing counts
\* the hops.  Without a leader the request is served here.
forward_to_leader_if_needed(op) ==
    /\ request[op].stage = "handler"
    /\ \E s \in request[op].at :
         /\ Answers(s)
         /\ request' =
              IF leader[s] \subseteq {s}
              THEN [request EXCEPT ![op] = [at |-> {s}, stage |-> "queued"]]
              ELSE IF leader[s] \cap crashed # {} THEN Answered(op, "failed")
              ELSE [request EXCEPT ![op] = [at |-> leader[s], stage |-> "handler"]]
    /\ UNCHANGED <<log, applied, term, leader, serial, actor, crashed, readAt>>

\* The checkpoint updater's message: only the process that leads queues the update.
leader_update_all_checkpoints(op, s) ==
    /\ op = "update_all_checkpoints" /\ request[op].stage = "new"
    /\ Answers(s) /\ IsLeader(s)
    /\ request' = [request EXCEPT ![op] = [at |-> {s}, stage |-> "queued"]]
    /\ UNCHANGED <<log, applied, term, leader, serial, actor, crashed, readAt>>

\* A read that trusts the local state machine.
ReadsLocally(s, op) ==
    /\ readAt' = applied[s]
    /\ request' = Answered(op, "done")
    /\ UNCHANGED <<log, applied, term, leader, serial, actor, crashed>>

\* ensure_linearizable: a quorum confirms the leader and the local state machine has
\* caught up with what was committed; anybody else answers with an error.
raft_read_state(s, op) ==
    /\ IF IsLeader(s)
       THEN /\ \E Q \in Quorums : Followed(s, Q) /\ Adopt(s, Q)
            /\ applied' = [applied EXCEPT ![s] = Len(log)]
            /\ readAt' = Len(log)
            /\ request' = Answered(op, "done")
       ELSE /\ request' = Answered(op, "failed")
            /\ UNCHANGED <<applied, term, leader, readAt>>
    /\ UNCHANGED <<log, serial, actor, crashed>>

\* The new snapshot is computed from the local state machine, without asking
\* whether it has caught up, and client_write begins; the actor waits for it.  A
\* process that does not lead has used up a serial and answers with an error.
raft_write_state(s, op) ==
    LET base == machine[applied[s]].state IN
    /\ serial' = [serial EXCEPT ![s] = @ + 1]
    /\ IF IsLeader(s)
       THEN /\ actor' = [actor EXCEPT ![s] =
                           {[op |-> op, state |-> base \cup {op}, serial |-> serial'[s]]}]
            /\ request' = [request EXCEPT ![op].stage = "writing"]
       ELSE /\ request' = Answered(op, "failed")
            /\ UNCHANGED actor
    /\ UNCHANGED <<log, applied, term, leader, crashed, readAt>>

\* The actor takes a request once it has finished the one before.
handle_message(s, op) ==
    /\ request[op] = [at |-> {s}, stage |-> "queued"] /\ Answers(s)
    /\ \/ Access[op] = "read" /\ raft_read_state(s, op)
       \/ Access[op] = "write" /\ raft_write_state(s, op)

\* client_write that answers when the entry is committed but not applied.
AnswersBeforeApplying(s) ==
    /\ Alive(s) /\ IsLeader(s)
    /\ \E m \in actor[s] :
         /\ \E Q \in Quorums : Followed(s, Q) /\ Adopt(s, Q)
         /\ log' = Append(log, [state |-> m.state, serial |-> m.serial, term |-> term[s]])
         /\ actor' = [actor EXCEPT ![s] = {}]
         /\ request' = Answered(m.op, "done")
    /\ UNCHANGED <<applied, serial, crashed, readAt>>

\* client_write returns when a quorum has the entry and the leader has applied it.
write_snapshot_state(s) ==
    /\ Alive(s) /\ IsLeader(s)
    /\ \E m \in actor[s] :
         /\ \E Q \in Quorums : Followed(s, Q) /\ Adopt(s, Q)
         /\ log' = Append(log, [state |-> m.state, serial |-> m.serial, term |-> term[s]])
         /\ applied' = [applied EXCEPT ![s] = Len(log')]
         /\ actor' = [actor EXCEPT ![s] = {}]
         /\ request' = Answered(m.op, "done")
    /\ UNCHANGED <<serial, crashed, readAt>>

\* A process is lost, its in-memory store with it; its requests are cut off.
Lose(s) ==
    /\ Alive(s) /\ Cardinality(crashed) < MaxCrashes
    /\ crashed' = crashed \cup {s}
    /\ actor' = [actor EXCEPT ![s] = {}]
    /\ leader' = [leader EXCEPT ![s] = {}]
    /\ request' = [op \in Operations |->
                     IF request[op].at = {s} THEN [at |-> {}, stage |-> "failed"]
                     ELSE request[op]]
    /\ UNCHANGED <<log, applied, term, serial, readAt>>

RaftNext ==
    \/ \E s \in Servers :
         \/ Elect(s) \/ Establish(s) \/ write_snapshot_state(s) \/ Lose(s)
         \/ \E t \in Servers : append_entries(s, t)
         \/ \E op \in Operations : handle_message(s, op) \/ leader_update_all_checkpoints(op, s)
    \/ \E op \in Operations : arrive(op) \/ forward_to_leader_if_needed(op)

RaftSpec == RaftInit /\ [][RaftNext]_raftVars

(***************************************************************************)
(* Properties                                                              *)
(***************************************************************************)

\* Successive reads, whichever process answers them and however many elections lie
\* between, are served from the same or a later position of the log: a deposed
\* leader that has not noticed cannot answer (raft_read_state).
ReadsNeverGoBack == [][readAt' >= readAt]_raftVars

\* The snapshots one leader commits in one term build on each other: of two entries
\* of a term that the state machine took, the later contains all of the earlier
\* (raft_write_state computes from a state machine that client_write left applied).
UpdatesOfATermAccumulate ==
    \A i, j \in DOMAIN log :
      i < j /\ log[i].term = log[j].term /\ machine[i].serial # machine[i - 1].serial
        => log[i].state \subseteq log[j].state

\* An update the service has acknowledged is part of the replicated state from then
\* on (raft_cluster_failover_preserves_committed_state).
AcknowledgedUpdatesSurvive ==
    \A op \in Operations :
      request[op].stage = "done" /\ Access[op] = "write"
        => op \in machine[Len(log)].state

=============================================================================
