------------------------------ MODULE Cutover ------------------------------
(***************************************************************************)
(* The strict cutover of one table in the control plane's in-memory        *)
(* metadata backend (service_lib/src/ephemeral_service_impl.rs).           *)
(*                                                                         *)
(* A table has one selector per extension: "none" (the table itself) and   *)
(* "es" (its search projection).  Each selector has a committed frontier   *)
(* (latest), a membership view that says which serving nodes must          *)
(* activate the target under which epoch, and an active frontier that      *)
(* queries read.  The checkpoint updater moves active to latest once the   *)
(* artifacts are ready and every required node has acknowledged the        *)
(* target under the view's epoch.                                          *)
(*                                                                         *)
(* Every handler runs inside one actor, so each is one action.  What       *)
(* interleaves is the serving nodes: a node is told (target, epoch) by a   *)
(* read of the cutover state and acknowledges it by a later call.  The     *)
(* variable tickets remembers what each node was ever told; a node may     *)
(* acknowledge any of its tickets at any time and any number of times, so  *)
(* lost, late, duplicated and reordered acknowledgements are all covered.  *)
(*                                                                         *)
(* Checkpoint ids are naturals in the order they were generated; None (0)  *)
(* stands for an absent id.  A lease is in the set leases while it has not *)
(* expired: every reader prunes first, so an expired lease and a missing   *)
(* one cannot be told apart.                                               *)
(***************************************************************************)
EXTENDS Naturals

CONSTANTS
  Nodes,           \* serving node ids
  Extensions,      \* the table's selectors: "none", and "es" if it is searched
  MaxCheckpoint,   \* bound: number of commits to the table
  MaxEpoch         \* bound: no lease expires and no cutover is planned beyond it

ASSUME ExtensionsAssumption ==
  "none" \in Extensions /\ Extensions \subseteq {"none", "es"}

ASSUME BoundsAssumption == MaxCheckpoint \in Nat /\ MaxEpoch \in Nat

VARIABLES
  selector,    \* extension -> frontiers, membership view, epoch, acks, readiness
  leases,      \* serving nodes whose lease is unexpired
  requested,   \* a publication request for the table is queued
  esWork,      \* extension work for the table is or was outstanding
  tickets      \* node -> every (extension, checkpoint, epoch) it was told

vars == <<selector, leases, requested, esWork, tickets>>

None == 0

required_artifact_classes(e) ==
  IF e = "none" THEN {"SnapshotLookupMmap", "SnapshotExactLookupMmap"}
                ELSE {"SearchProjection"}

ArtifactClasses == UNION {required_artifact_classes(e) : e \in Extensions}

NoView == [epoch |-> 0, target |-> None, required |-> {}]
NoAck == [epoch |-> 0, checkpoint |-> None]
NoActivations == [n \in Nodes |-> NoAck]
NoReadiness == [c \in ArtifactClasses |-> None]

Views == [epoch : Nat, target : Nat, required : SUBSET Nodes]
Acks == [epoch : Nat, checkpoint : Nat]
Tickets == [extension : Extensions, epoch : Nat, checkpoint : Nat]

Selectors ==
  [latest : Nat, planned : Nat, active : Nat, epoch : Nat, view : Views,
   activations : [Nodes -> Acks], readiness : [ArtifactClasses -> Nat]]

Init ==
  /\ selector = [e \in Extensions |->
       [latest |-> None, planned |-> None, active |-> None, epoch |-> 0,
        view |-> NoView, activations |-> NoActivations,
        readiness |-> NoReadiness]]
  /\ leases = {}
  /\ requested = FALSE
  /\ esWork = FALSE
  /\ tickets = [n \in Nodes |-> {}]

----------------------------------------------------------------------------
(* Membership views.  Each operator maps a selector's state to the state   *)
(* the corresponding method leaves, given the set of live nodes.           *)

\* Slip: the epoch counts down.
CountDownRecapture(s, target, live) ==
  [s EXCEPT !.epoch = s.epoch - 1,
            !.view = [epoch |-> s.epoch - 1, target |-> target, required |-> live],
            !.activations = NoActivations]

\* Slip: the epoch is not bumped.
SameEpochRecapture(s, target, live) ==
  [s EXCEPT !.view = [epoch |-> s.epoch, target |-> target, required |-> live],
            !.activations = NoActivations]

\* Slip: the view keeps the epoch it had.
StaleViewRecapture(s, target, live) ==
  [s EXCEPT !.epoch = s.epoch + 1,
            !.view = [epoch |-> s.epoch, target |-> target, required |-> live],
            !.activations = NoActivations]

\* The tail capture and reconfigure share: a new epoch, a view of the live
\* nodes under it, and no activation recorded for it yet.
RecaptureMembership(s, target, live) ==
  [s EXCEPT !.epoch = s.epoch + 1,
            !.view = [epoch |-> s.epoch + 1, target |-> target, required |-> live],
            !.activations = NoActivations]

capture_cutover_membership_for_target(s, target, live) ==
  IF s.view.target = target THEN s ELSE RecaptureMembership(s, target, live)

\* Slip: the membership is refreshed, not only filled in.
RefreshingBackfill(s, target, live) ==
  IF s.view.target = target
    THEN [s EXCEPT !.view = [s.view EXCEPT !.required = live]]
    ELSE s

backfill_cutover_membership_for_target(s, target, live) ==
  IF s.view.target = target /\ s.view.required = {}
    THEN [s EXCEPT !.view = [s.view EXCEPT !.required = live]]
    ELSE s

maybe_reconfigure_cutover_membership_for_target(s, target, live) ==
  IF s.view.target = target /\ live # {} /\ ~(s.view.required \subseteq live)
    THEN RecaptureMembership(s, target, live)
    ELSE s

----------------------------------------------------------------------------
(* The checkpoint updater. *)

\* A target that changed forgets the readiness reported for the previous one.
advance_target_checkpoint(s, live) ==
  LET fresh == IF s.view.target = s.latest
                 THEN s ELSE [s EXCEPT !.readiness = NoReadiness]
  IN IF s.latest = None THEN s
     ELSE capture_cutover_membership_for_target(fresh, s.latest, live)

readiness_matches_target(s, e) ==
  \A c \in required_artifact_classes(e) : s.readiness[c] = s.latest

\* Slip: an acknowledgement of any epoch and checkpoint counts.
AnyAckActivates(s) ==
  /\ s.view.target = s.latest
  /\ s.view.required # {}
  /\ \A n \in s.view.required : s.activations[n] # NoAck

\* The comparison at the end of activation_matches_target.
RequiredNodesActivated(s) ==
  /\ s.view.target = s.latest
  /\ s.view.required # {}
  /\ \A n \in s.view.required :
       s.activations[n] = [epoch |-> s.view.epoch, checkpoint |-> s.latest]

\* What activation_matches_target does to the view before it compares.
SettleMembership(s, live) ==
  maybe_reconfigure_cutover_membership_for_target(
    backfill_cutover_membership_for_target(s, s.latest, live), s.latest, live)

promote_active_checkpoint_if_ready(s, e, live) ==
  LET settled == SettleMembership(s, live)
  IN IF s.latest = None \/ s.active = s.latest \/ ~readiness_matches_target(s, e)
       THEN s
     ELSE IF RequiredNodesActivated(settled)
       THEN [settled EXCEPT !.active = settled.latest]
       ELSE settled

published_checkpoint_needs_activation(s) ==
  s.latest # None /\ s.active # s.latest

\* Slip: a request whose extension work is done counts as served.
WorkOnlyPending(sel) == esWork

\* Slip: a request is dropped once it was looked at.
NeverPending(sel) == FALSE

checkpoint_publication_still_pending(sel) ==
  esWork \/ \E e \in Extensions : published_checkpoint_needs_activation(sel[e])

update_all_checkpoints ==
  /\ requested
  /\ selector' = [e \in Extensions |->
       promote_active_checkpoint_if_ready(
         advance_target_checkpoint(selector[e], leases), e, leases)]
  /\ requested' = checkpoint_publication_still_pending(selector')
  /\ UNCHANGED <<leases, esWork, tickets>>

----------------------------------------------------------------------------
(* Commits, reduced to what they do to the committed frontiers. *)

queue_publication_request == requested' = TRUE

\* A commit of table files makes a new checkpoint the latest one of the table;
\* it leaves extension work behind if some of its files are not indexed yet.
CommitTable(work) ==
  LET id == selector["none"].latest + 1
  IN /\ id <= MaxCheckpoint
     /\ selector' = [selector EXCEPT !["none"].latest = id]
     /\ esWork' = (esWork \/ work)
     /\ queue_publication_request
     /\ UNCHANGED <<leases, tickets>>

\* Slip: the "es" frontier follows whatever was completed last.
UnorderedCommitExtension(id) ==
  /\ "es" \in Extensions
  /\ esWork
  /\ id \in 1 .. selector["none"].latest
  /\ selector' = [selector EXCEPT !["es"].latest = id]
  /\ queue_publication_request
  /\ UNCHANGED <<leases, esWork, tickets>>

\* A commit of index files completes the checkpoint id; the "es" frontier
\* moves there unless it is already past it.
CommitExtension(id) ==
  /\ "es" \in Extensions
  /\ esWork
  /\ id \in 1 .. selector["none"].latest
  /\ selector' = IF id > selector["es"].latest
                   THEN [selector EXCEPT !["es"].latest = id]
                   ELSE selector
  /\ queue_publication_request
  /\ UNCHANGED <<leases, esWork, tickets>>

----------------------------------------------------------------------------
(* The cutover interface. *)

heartbeat_serving_node(n) ==
  /\ leases' = leases \cup {n}
  /\ UNCHANGED <<selector, requested, esWork, tickets>>

LeaseExpires(n) ==
  /\ \A e \in Extensions : selector[e].epoch < MaxEpoch
  /\ n \in leases
  /\ leases' = leases \ {n}
  /\ UNCHANGED <<selector, requested, esWork, tickets>>

\* What a read of the cutover state does to the selector it reads.
CutoverStateRead(s, live) ==
  IF s.latest = None THEN s
  ELSE backfill_cutover_membership_for_target(
         capture_cutover_membership_for_target(s, s.latest, live), s.latest, live)

\* The answer: the target and the epoch of the view that now has this target.
CutoverTicket(e, s) ==
  [extension |-> e, epoch |-> s.view.epoch, checkpoint |-> s.latest]

get_checkpoint_cutover_state(n, e) ==
  /\ selector[e].latest # None
  /\ selector' = [selector EXCEPT ![e] = CutoverStateRead(@, leases)]
  /\ tickets' = [tickets EXCEPT ![n] = @ \cup {CutoverTicket(e, selector'[e])}]
  /\ UNCHANGED <<leases, requested, esWork>>

\* An observer's read: the same side effect, and nobody will acknowledge it.
get_read_only_coordination_state(e) ==
  /\ selector' = [selector EXCEPT ![e] = CutoverStateRead(@, leases)]
  /\ UNCHANGED <<leases, requested, esWork, tickets>>

record_artifact_readiness(t, c) ==
  /\ c \in required_artifact_classes(t.extension)
  /\ selector' = [selector EXCEPT ![t.extension].readiness[c] = t.checkpoint]
  /\ UNCHANGED <<leases, requested, esWork, tickets>>

record_serving_node_activation(n, t) ==
  /\ selector' = [selector EXCEPT ![t.extension].activations[n] =
       [epoch |-> t.epoch, checkpoint |-> t.checkpoint]]
  /\ UNCHANGED <<leases, requested, esWork, tickets>>

\* A requested cutover names any committed checkpoint, current or old.
plan_checkpoint_cutover(e, target) ==
  /\ selector[e].epoch < MaxEpoch
  /\ target \in 1 .. selector[e].latest
  /\ target # selector[e].planned
  /\ selector' = [selector EXCEPT ![e] =
       capture_cutover_membership_for_target(
         [@ EXCEPT !.planned = target], target, leases)]
  /\ UNCHANGED <<leases, requested, esWork, tickets>>

----------------------------------------------------------------------------
Commit ==
  \/ \E work \in BOOLEAN : (work => "es" \in Extensions) /\ CommitTable(work)
  \/ \E id \in 1 .. MaxCheckpoint : CommitExtension(id)

Acknowledge(n) ==
  \E t \in tickets[n] :
    \/ record_serving_node_activation(n, t)
    \/ \E c \in ArtifactClasses : record_artifact_readiness(t, c)

NodeStep(n) ==
  \/ heartbeat_serving_node(n)
  \/ LeaseExpires(n)
  \/ \E e \in Extensions : get_checkpoint_cutover_state(n, e)
  \/ Acknowledge(n)

Next ==
  \/ update_all_checkpoints
  \/ Commit
  \/ \E n \in Nodes : NodeStep(n)
  \/ \E e \in Extensions : get_read_only_coordination_state(e)
  \/ \E e \in Extensions, target \in 1 .. MaxCheckpoint :
       plan_checkpoint_cutover(e, target)

Spec == Init /\ [][Next]_vars

\* The updater thread loops for ever (service/src/checkpoint_updater.rs).
FairSpec == Spec /\ WF_vars(update_all_checkpoints)

----------------------------------------------------------------------------
(* Properties. *)

\* Every variable has its type; a selector never holds a half-written record.
TypeOK ==
  /\ selector \in [Extensions -> Selectors]
  /\ leases \in SUBSET Nodes
  /\ requested \in BOOLEAN
  /\ esWork \in BOOLEAN
  /\ tickets \in [Nodes -> SUBSET Tickets]

\* An epoch names one target for ever: two nodes (or one node twice) that were
\* told the same epoch of a selector were told the same checkpoint, so an
\* acknowledgement that carries the view's epoch cannot be about anything else.
EpochIdentifiesTarget ==
  \A n, m \in Nodes : \A t \in tickets[n], u \in tickets[m] :
    t.extension = u.extension /\ t.epoch = u.epoch => t.checkpoint = u.checkpoint

\* Why epochs identify targets: a view carries its selector's epoch, no node
\* was told an epoch that does not exist yet, what was told under the current
\* epoch is the view's target, and every recorded activation is one its node
\* was told.  A late acknowledgement can thus overwrite a newer one, but never
\* pass for an acknowledgement of a checkpoint the node was not told.
TicketsMatchViews ==
  /\ \A e \in Extensions : selector[e].view.epoch = selector[e].epoch
  /\ \A n \in Nodes : \A t \in tickets[n] :
       /\ t.epoch <= selector[t.extension].epoch
       /\ t.epoch = selector[t.extension].epoch
            => t.checkpoint = selector[t.extension].view.target
  /\ \A e \in Extensions, n \in Nodes :
       LET ack == selector[e].activations[n]
       IN \/ ack = NoAck
          \/ [extension |-> e, epoch |-> ack.epoch, checkpoint |-> ack.checkpoint]
               \in tickets[n]

\* While a committed checkpoint waits for activation, a publication request is
\* queued: update_all_checkpoints never drops a request that a commit still
\* needs, so the updater keeps looking at the table.
PublicationNotLost ==
  (\E e \in Extensions : published_checkpoint_needs_activation(selector[e]))
    => requested

\* Whatever moves the active frontier moves it to the latest committed
\* checkpoint, under a non-empty membership whose every member was itself told
\* this checkpoint under the view's own epoch, and whose members all hold a
\* lease (unless no node holds one any more).
PromotionIsAcknowledged ==
  [][\A e \in Extensions :
       selector'[e].active # selector[e].active =>
         LET view == selector'[e].view
         IN /\ selector'[e].active = selector[e].latest
            /\ view.required # {}
            /\ view.required \subseteq leases \/ leases = {}
            /\ \A n \in view.required : CutoverTicket(e, selector'[e]) \in tickets[n]
    ]_vars

\* Queries never go back to an older checkpoint, whatever cutover was planned
\* and however late the acknowledgements arrive.
ActiveNeverRegresses ==
  [][\A e \in Extensions : selector'[e].active >= selector[e].active]_vars

\* A membership view changes its required nodes only together with its epoch,
\* except to fill in a view captured while no node was live: nobody is added to
\* or dropped from a membership whose acknowledgements are being counted.
MembershipFixedWithinEpoch ==
  [][\A e \in Extensions :
       selector'[e].view.required # selector[e].view.required
         => \/ selector[e].view.required = {}
            \/ selector'[e].view.epoch > selector[e].view.epoch]_vars

\* The cutover protocol implements the published frontier: every step of it,
\* seen through the committed and active ids alone, is a commit that moves
\* forward, a publication of committed checkpoints, or nothing.
Frontier == INSTANCE PublishedFrontier WITH
  committed <- [e \in Extensions |-> selector[e].latest],
  active <- [e \in Extensions |-> selector[e].active]

ImplementsFrontier == Frontier!Spec

\* Once the artifacts are ready and the required nodes have acknowledged the
\* target epoch, the updater promotes the target, unless the target or the
\* membership changes first.
AcknowledgedTargetIsPromoted ==
  \A e \in Extensions, id \in 1 .. MaxCheckpoint, epoch \in 1 .. MaxEpoch :
    (/\ selector[e].latest = id
     /\ selector[e].view.epoch = epoch
     /\ readiness_matches_target(selector[e], e)
     /\ RequiredNodesActivated(selector[e]))
    ~> (\/ selector[e].active = id
        \/ selector[e].latest # id
        \/ selector[e].view.epoch # epoch
        \/ ~readiness_matches_target(selector[e], e)
        \/ ~RequiredNodesActivated(selector[e]))
=============================================================================
