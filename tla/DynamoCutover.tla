--------------------------- MODULE DynamoCutover ---------------------------
(***************************************************************************)
(* Strict cutover on the DynamoDB metadata backend, for one table and one  *)
(* selector (service_lib/src/dynamodb_service_impl.rs).  Node leases,      *)
(* activation acknowledgements and the membership view are named items,    *)
(* replaced by a delete and a create.  A create makes two items in one     *)
(* transaction, the named item and its entry in the catalog of entities,   *)
(* and is cancelled when either exists; a delete removes the named item    *)
(* only.  Several service processes work on the same items; a process      *)
(* handles one call at a time, one DynamoDB request after the other.       *)
(***************************************************************************)
EXTENDS Naturals, FiniteSets

CONSTANTS Processes,    \* service processes
          Nodes,        \* serving nodes
          MaxTarget,    \* commits that move the target frontier
          MaxEpoch      \* epochs that are given out

VARIABLES item,      \* the named items: leases, acks, view
          catalog,   \* names in the catalog of entities
          frontier,  \* [target, active, epoch]: latest items, 0 if absent
          process,   \* per service process: the call it is executing
          known,     \* per node: the cutover state it read last, if any
          acked,     \* history: <<node, checkpoint, epoch>> of every acknowledgement
          views      \* history: every membership view stored

cutoverVars == <<item, catalog, frontier, process, known, acked, views>>

Resting == [step |-> "idle", then |-> "idle", name |-> <<>>, value |-> {},
            target |-> 0, epoch |-> 0, required |-> {}]

Lease(n) == <<"lease", n>>
Activation(n) == <<"activation", n>>
View == <<"view">>
Names == {Lease(n) : n \in Nodes} \cup {Activation(n) : n \in Nodes} \cup {View}

CutoverInit ==
  /\ item = [name \in Names |-> {}]
  /\ catalog = {}
  /\ frontier = [target |-> 0, active |-> 0, epoch |-> 0]
  /\ process = [p \in Processes |-> Resting]
  /\ known = [n \in Nodes |-> {}]
  /\ acked = {} /\ views = {}

Step(p, c) == process' = [process EXCEPT ![p] = c]
In(p, step) == process[p].step = step

----------------------------------------------------------------------------
(* Named items. *)

\* The delete of a replacement.
private_delete(p) ==
  /\ In(p, "delete")
  /\ item' = [item EXCEPT ![process[p].name] = {}]
  /\ Step(p, [process[p] EXCEPT !.step = "create"])
  /\ UNCHANGED <<catalog, frontier, known, acked, views>>

\* The create of a replacement; a cancelled transaction is not an error.
private_create(p) ==
  /\ In(p, "create")
  /\ LET name == process[p].name
         created == name \notin catalog /\ item[name] = {}
     IN /\ item' = IF created THEN [item EXCEPT ![name] = {process[p].value}] ELSE item
        /\ catalog' = catalog \cup {name}
        /\ views' = IF created /\ name = View THEN views \cup {process[p].value} ELSE views
  /\ Step(p, IF process[p].then = "idle" THEN Resting
             ELSE [Resting EXCEPT !.step = process[p].then])
  /\ UNCHANGED <<frontier, known, acked>>

Replace(name, value, then) ==
  [Resting EXCEPT !.step = "delete", !.name = name, !.value = value, !.then = then]

\* Nodes whose lease was renewed within the lease time.
live_serving_node_leases == {n \in Nodes : item[Lease(n)] = {"live"}}

----------------------------------------------------------------------------
(* Calls of the serving nodes. *)

heartbeat_serving_node(p, n) ==
  /\ In(p, "idle")
  /\ \A q \in Processes : process[q].name # Lease(n)
  /\ Step(p, Replace(Lease(n), "live", "idle"))
  /\ UNCHANGED <<item, catalog, frontier, known, acked, views>>

\* The epoch of the view if it is for the target, else the newest epoch.
get_checkpoint_cutover_state(p, n) ==
  /\ In(p, "idle")
  /\ frontier.target # 0
  /\ LET current == {v \in item[View] : v.target = frontier.target}
     IN known' = [known EXCEPT ![n] =
          {[target |-> frontier.target,
            epoch |-> IF current = {} THEN frontier.epoch
                      ELSE (CHOOSE v \in current : TRUE).epoch]}]
  /\ UNCHANGED <<item, catalog, frontier, process, acked, views>>

\* The node has prefetched the target it knows of.
record_serving_node_activation(p, n) ==
  /\ In(p, "idle")
  /\ \A q \in Processes : process[q].name # Activation(n)
  /\ \E ack \in known[n] :
       /\ Step(p, Replace(Activation(n), ack, "idle"))
       /\ acked' = acked \cup {<<n, ack.target, ack.epoch>>}
  /\ UNCHANGED <<item, catalog, frontier, known, views>>

----------------------------------------------------------------------------
(* The checkpoint updater. *)

\* A commit moves the target frontier (DynamoCommits).
commit_target ==
  /\ frontier.target < MaxTarget
  /\ frontier' = [frontier EXCEPT !.target = @ + 1]
  /\ UNCHANGED <<item, catalog, process, known, acked, views>>

ViewIsFor(t) == \E v \in item[View] : v.target = t

NewView(p, epoch) ==
  [target |-> process[p].target, epoch |-> epoch, required |-> process[p].required]

\* capture_cutover_membership_for_target reads the view, the leases and the
\* epoch; its writes follow.
ensure_cutover_membership_for_current_target(p) ==
  /\ In(p, "idle")
  /\ frontier.target # 0
  /\ frontier.active # frontier.target
  /\ Step(p, IF ViewIsFor(frontier.target) THEN [Resting EXCEPT !.step = "backfill"]
             ELSE [Resting EXCEPT !.step = "bump", !.then = "backfill",
                     !.target = frontier.target, !.epoch = frontier.epoch,
                     !.required = live_serving_node_leases])
  /\ UNCHANGED <<item, catalog, frontier, known, acked, views>>

\* The bump is conditional; when it is cancelled the epoch that is there is used.
bump_cutover_epoch(p) ==
  /\ In(p, "bump")
  /\ frontier.epoch < MaxEpoch
  /\ LET epoch == IF frontier.epoch = process[p].epoch THEN frontier.epoch + 1 ELSE frontier.epoch
     IN /\ frontier' = [frontier EXCEPT !.epoch = epoch]
        /\ Step(p, Replace(View, NewView(p, epoch), process[p].then))
  /\ UNCHANGED <<item, catalog, known, acked, views>>

\* promote_active_checkpoint_if_ready reads the target; a view for it without
\* members is filled in with the nodes that are live now.
backfill_cutover_membership_for_target(p) ==
  /\ In(p, "backfill")
  /\ LET empty == {v \in item[View] : v.target = frontier.target /\ v.required = {}}
     IN Step(p, IF frontier.active = frontier.target THEN Resting
                ELSE IF empty = {} \/ live_serving_node_leases = {}
                THEN [Resting EXCEPT !.step = "reconfigure", !.target = frontier.target]
                ELSE Replace(View, [CHOOSE v \in empty : TRUE EXCEPT
                                      !.required = live_serving_node_leases], "reconfigure"))
  /\ UNCHANGED <<item, catalog, frontier, known, acked, views>>

\* A view with a member that is no longer live is replaced, under a new epoch.
maybe_reconfigure_cutover_membership_for_target(p) ==
  /\ In(p, "reconfigure")
  /\ LET outdated == {v \in item[View] : /\ v.target = frontier.target
                                         /\ ~(v.required \subseteq live_serving_node_leases)}
     IN Step(p, IF outdated = {} \/ live_serving_node_leases = {}
                THEN [Resting EXCEPT !.step = "match"]
                ELSE [Resting EXCEPT !.step = "bump", !.then = "match",
                        !.target = frontier.target, !.epoch = frontier.epoch,
                        !.required = live_serving_node_leases])
  /\ UNCHANGED <<item, catalog, frontier, known, acked, views>>

\* Slip: an acknowledgement of the target under any epoch counts.
AnyEpoch(v, t) ==
  LET required == IF v.required = {} THEN live_serving_node_leases ELSE v.required
  IN /\ required # {} /\ v.target = t
     /\ \A n \in required : \E ack \in item[Activation(n)] : ack.target = t

activation_matches_target(v, t) ==
  LET required == IF v.required = {} THEN live_serving_node_leases ELSE v.required
  IN /\ required # {} /\ v.target = t
     /\ \A n \in required : item[Activation(n)] = {[target |-> t, epoch |-> v.epoch]}

promote_active_checkpoint_if_ready(p) ==
  /\ In(p, "match")
  /\ Step(p, IF \E v \in item[View] : activation_matches_target(v, frontier.target)
             THEN [Resting EXCEPT !.step = "activate", !.target = frontier.target]
             ELSE Resting)
  /\ UNCHANGED <<item, catalog, frontier, known, acked, views>>

\* The version of the active item is read right before it is bumped.
set_active_checkpoint_id(p) ==
  /\ In(p, "activate")
  /\ frontier' = [frontier EXCEPT !.active = process[p].target]
  /\ Step(p, Resting)
  /\ UNCHANGED <<item, catalog, known, acked, views>>

\* A lease that was not renewed runs out.
ExpireLease(n) ==
  /\ item[Lease(n)] = {"live"}
  /\ item' = [item EXCEPT ![Lease(n)] = {"expired"}]
  /\ UNCHANGED <<catalog, frontier, process, known, acked, views>>

CutoverNext ==
  \/ commit_target
  \/ \E n \in Nodes : ExpireLease(n)
  \/ \E p \in Processes, n \in Nodes :
       \/ heartbeat_serving_node(p, n) \/ get_checkpoint_cutover_state(p, n)
       \/ record_serving_node_activation(p, n)
  \/ \E p \in Processes :
       \/ private_delete(p) \/ private_create(p)
       \/ ensure_cutover_membership_for_current_target(p) \/ bump_cutover_epoch(p)
       \/ backfill_cutover_membership_for_target(p)
       \/ maybe_reconfigure_cutover_membership_for_target(p)
       \/ promote_active_checkpoint_if_ready(p) \/ set_active_checkpoint_id(p)

CutoverSpec == CutoverInit /\ [][CutoverNext]_cutoverVars

----------------------------------------------------------------------------
(* Properties. *)

\* The active checkpoint was acknowledged, under the epoch of a membership view
\* that was stored for it, by every node that view requires: what one process
\* read before it promotes may be gone when it writes.
ActiveWasAcknowledged ==
  frontier.active # 0 =>
    \E v \in views : /\ v.target = frontier.active
                     /\ \E nodes \in SUBSET Nodes : nodes # {} /\ v.required \subseteq nodes /\
                          \A n \in nodes : <<n, v.target, v.epoch>> \in acked

\* An acknowledgement that was confirmed to the node is there when the updater
\* looks for it: "Each live serving node records a `ServingNodeActivationAck`"
\* (docs/strict-cutover-consensus-design.md).  The catalog keeps the name of
\* a deleted acknowledgement, which cancels its next create (README, deviations
\* without a run).
AcknowledgementsAreRecorded ==
  \A n \in Nodes :
    (Activation(n) \in catalog /\ \A p \in Processes : process[p].name # Activation(n))
      => item[Activation(n)] # {}
=============================================================================
