---------------------------- MODULE ServingNodes ----------------------------
(***************************************************************************)
(* The serving nodes of a leaderless cluster (query_runtime/src/           *)
(* leaderless_state_provider.rs, ephemeral_fetch_tracker.rs, prefetch.rs)  *)
(* against the control plane of Cutover.                                   *)
(*                                                                         *)
(* A node has two tasks: the clients' writes, and a loop that asks for     *)
(* checkpoints to prefetch, loads them on every peer, and reports.  Both   *)
(* go through the node's state-provider actor, which serves one message at *)
(* a time; one message may make several calls to the control plane, each   *)
(* a step of its own.  A call may fail between any two of them.            *)
(*                                                                         *)
(* A node learns of a target only from its own writes: the answer of a     *)
(* commit is followed by a read of the target, which becomes the next      *)
(* checkpoint to prefetch.  Only the table's own selector is prefetched    *)
(* (do_next_prefetch passes no extension).  A read-only node refuses       *)
(* every write.                                                            *)
(***************************************************************************)
EXTENDS Cutover

CONSTANTS
  Writers,     \* the nodes that are not read-only
  MaxCalls     \* bound: calls that fail, loops and nodes that stop

ASSUME NodesAssumption == Writers \subseteq Nodes /\ MaxCalls \in Nat

VARIABLES
  next_target,     \* node -> checkpoint its own writes told it of
  current_target,  \* node -> checkpoint it has prefetched
  loaded,          \* node -> checkpoints whose files it was asked to load
  loop,            \* node -> the prefetch loop: step and checkpoint in hand
  actor,           \* node -> message in service: step and ticket
  lost             \* failures so far

local == <<next_target, current_target, loaded, loop, actor, lost>>
nodeVars == <<vars, local>>

Asleep == [step |-> "asleep", checkpoint |-> None]
Free == [step |-> "free", ticket |-> NoAck, left |-> {}]

IdleNodes ==
  /\ next_target = [n \in Nodes |-> None]
  /\ current_target = [n \in Nodes |-> None]
  /\ loop = [n \in Nodes |-> Asleep]
  /\ actor = [n \in Nodes |-> Free]
  /\ lost = 0

NodesInit == Init /\ IdleNodes /\ loaded = [n \in Nodes |-> {}]

At(n, step) == actor[n].step = step
Prefetching(n, step) == loop[n].step = step

----------------------------------------------------------------------------
(* Writes. *)

\* A commit to the table's own checkpoints, sent to the control plane: new
\* files, files of an Iceberg snapshot, or a compaction's replacements.
CommitsTable(n, work) ==
  /\ At(n, "free") /\ n \in Writers
  /\ CommitTable(work)
  /\ actor' = [actor EXCEPT ![n].step = "committed"]
  /\ UNCHANGED <<next_target, current_target, loaded, loop, lost>>

speedboat_commit(n, work) == CommitsTable(n, work)
iceberg_commit(n, work) == CommitsTable(n, work)
compaction_commit(n, work) == CommitsTable(n, work)

\* A commit of index files.  The target read afterwards is the table's, not the
\* search projection's.
extension_commit(n, id) ==
  /\ At(n, "free") /\ n \in Writers
  /\ CommitExtension(id)
  /\ actor' = [actor EXCEPT ![n].step = "committed"]
  /\ UNCHANGED <<next_target, current_target, loaded, loop, lost>>

get_remote_latest_target_checkpoint == selector["none"].latest

update_prefetch_checkpoints(n) ==
  /\ At(n, "committed")
  /\ next_target' = [next_target EXCEPT ![n] = get_remote_latest_target_checkpoint]
  /\ actor' = [actor EXCEPT ![n] = Free]
  /\ UNCHANGED <<vars, current_target, loaded, loop, lost>>

----------------------------------------------------------------------------
(* The prefetch loop. *)

\* Slip: the lease of every configured node is renewed, down or not.
RenewsPeers(n) == leases' = Nodes

Heartbeat(n) == leases' = leases \cup {n}

NextPrefetch(n) == next_target[n] > current_target[n]

\* Every poll renews the lease; most find nothing to do.
get_next_prefetch_checkpoints(n) ==
  /\ At(n, "free") /\ Prefetching(n, "asleep")
  /\ Heartbeat(n)
  /\ loop' = [loop EXCEPT ![n] =
       IF NextPrefetch(n) THEN [step |-> "chosen", checkpoint |-> next_target[n]]
                          ELSE Asleep]
  /\ UNCHANGED <<selector, requested, esWork, tickets,
                 next_target, current_target, loaded, actor, lost>>

\* Slip: the target is reported before the files are loaded.
ReportsFirst(n) ==
  /\ Prefetching(n, "chosen")
  /\ loop' = [loop EXCEPT ![n].step = "loaded"]
  /\ UNCHANGED <<vars, next_target, current_target, loaded, actor, lost>>

\* Every peer loads its share of the checkpoint's files.
perform_prefetch(n) ==
  /\ Prefetching(n, "chosen")
  /\ loaded' = [m \in Nodes |-> loaded[m] \cup {loop[n].checkpoint}]
  /\ loop' = [loop EXCEPT ![n].step = "loaded"]
  /\ UNCHANGED <<vars, next_target, current_target, actor, lost>>

\* set_target_checkpoints, first calls: renew the lease, remember the target.
set_target_checkpoints(n) ==
  /\ At(n, "free") /\ Prefetching(n, "loaded")
  /\ Heartbeat(n)
  /\ current_target' = [current_target EXCEPT ![n] =
       IF @ < loop[n].checkpoint THEN loop[n].checkpoint ELSE @]
  /\ actor' = [actor EXCEPT ![n].step = "targeted"]
  /\ UNCHANGED <<selector, requested, esWork, tickets, next_target, loaded, loop, lost>>

Finish(n) ==
  /\ actor' = [actor EXCEPT ![n] = Free]
  /\ loop' = [loop EXCEPT ![n] = Asleep]

\* A target that moved on meanwhile is not reported.
ReadCutoverState(n) ==
  /\ At(n, "targeted")
  /\ get_checkpoint_cutover_state(n, "none")
  /\ IF selector["none"].latest # loop[n].checkpoint THEN Finish(n)
     ELSE /\ actor' = [actor EXCEPT ![n] =
               [step |-> "told",
                ticket |-> [epoch |-> selector'["none"].view.epoch,
                            checkpoint |-> loop[n].checkpoint],
                left |-> required_artifact_classes("none")]]
          /\ UNCHANGED loop
  /\ UNCHANGED <<next_target, current_target, loaded, lost>>

Ticket(n) == [extension |-> "none", epoch |-> actor[n].ticket.epoch,
              checkpoint |-> actor[n].ticket.checkpoint]

RecordReadiness(n, c) ==
  /\ At(n, "told") /\ c \in actor[n].left
  /\ record_artifact_readiness(Ticket(n), c)
  /\ actor' = [actor EXCEPT ![n].left = @ \ {c}]
  /\ UNCHANGED <<next_target, current_target, loaded, loop, lost>>

RecordActivation(n) ==
  /\ At(n, "told") /\ actor[n].left = {}
  /\ record_serving_node_activation(n, Ticket(n))
  /\ Finish(n)
  /\ UNCHANGED <<next_target, current_target, loaded, lost>>

----------------------------------------------------------------------------
(* Failures. *)

Fault == lost < MaxCalls /\ lost' = lost + 1

\* A call made on behalf of a message fails: the message answers an error and
\* what it had still to do is not done.  A commit whose answer is lost has
\* happened.
CallFails(n) ==
  /\ Fault
  /\ ~At(n, "free")
  /\ actor' = [actor EXCEPT ![n] = Free]
  /\ loop' = [loop EXCEPT ![n] = IF At(n, "committed") THEN @ ELSE Asleep]
  /\ UNCHANGED <<vars, next_target, current_target, loaded>>

\* A peer cannot load its share: the loop starts again.
PrefetchFails(n) ==
  /\ Fault
  /\ Prefetching(n, "chosen")
  /\ loop' = [loop EXCEPT ![n] = Asleep]
  /\ UNCHANGED <<vars, next_target, current_target, loaded, actor>>

\* The lease cannot be renewed: the loop's task panics and is not started again.
PollPanics(n) ==
  /\ Fault
  /\ At(n, "free") /\ Prefetching(n, "asleep")
  /\ loop' = [loop EXCEPT ![n].step = "panicked"]
  /\ UNCHANGED <<vars, next_target, current_target, loaded, actor>>

\* The process restarts under its node id; the trackers are in memory.
RestartNode(n) ==
  /\ Fault
  /\ next_target' = [next_target EXCEPT ![n] = None]
  /\ current_target' = [current_target EXCEPT ![n] = None]
  /\ actor' = [actor EXCEPT ![n] = Free]
  /\ loop' = [loop EXCEPT ![n] = Asleep]
  /\ UNCHANGED <<vars, loaded>>

----------------------------------------------------------------------------
WriteStep(n) ==
  \/ \E work \in BOOLEAN :
       /\ work => "es" \in Extensions
       /\ speedboat_commit(n, work) \/ iceberg_commit(n, work) \/ compaction_commit(n, work)
  \/ \E id \in 1 .. MaxCheckpoint : extension_commit(n, id)

\* The steps of the node's own tasks, once a write was accepted.
TaskStep(n) ==
  \/ update_prefetch_checkpoints(n)
  \/ get_next_prefetch_checkpoints(n)
  \/ perform_prefetch(n)
  \/ set_target_checkpoints(n)
  \/ ReadCutoverState(n)
  \/ \E c \in ArtifactClasses : RecordReadiness(n, c)
  \/ RecordActivation(n)

FailStep(n) == CallFails(n) \/ PrefetchFails(n) \/ PollPanics(n) \/ RestartNode(n)

NodesNext ==
  \/ update_all_checkpoints /\ UNCHANGED local
  \/ \E n \in Nodes :
       WriteStep(n) \/ TaskStep(n) \/ FailStep(n) \/ (LeaseExpires(n) /\ UNCHANGED local)

NodesSpec == NodesInit /\ [][NodesNext]_nodeVars

\* Both loops run for ever, and a message in service is served to its end.
FairNodesSpec ==
  /\ NodesSpec
  /\ WF_nodeVars(update_all_checkpoints /\ UNCHANGED local)
  /\ \A n \in Nodes : WF_nodeVars(TaskStep(n))

----------------------------------------------------------------------------
(* Properties. *)

\* The nodes do to the control plane what Cutover says nodes may do, so that
\* everything shown of the cutover holds of a cluster of these nodes: they
\* acknowledge only what they were told, under the epoch they were told.
ImplementsCutover == Spec

\* A table's active frontier moves only to a checkpoint whose files every
\* required node was asked to load: a node reports a target after its own
\* prefetch of it, whatever was committed, retried or restarted meanwhile.
ActiveIsPrefetched ==
  [][selector'["none"].active # selector["none"].active =>
       \A n \in selector'["none"].view.required :
         selector'["none"].active \in loaded[n]]_nodeVars

\* A committed checkpoint is served: the live nodes prefetch and acknowledge the
\* target, and the updater makes it active, unless a newer one is committed.
CommittedBecomesActive ==
  \A id \in 1 .. MaxCheckpoint :
    selector["none"].latest = id
      ~> (selector["none"].latest # id \/ selector["none"].active = id)
=============================================================================
