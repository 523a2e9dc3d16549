--------------------------- MODULE CutoverProofs ---------------------------
(***************************************************************************)
(* Proofs about Cutover and ServingNodes, for every set of nodes and every *)
(* bound.                                                                  *)
(*                                                                         *)
(* The operators on one selector are summarised once by SelectorStep; the  *)
(* invariant proofs then look at each action of Next.                      *)
(***************************************************************************)
EXTENDS ServingNodes, TLAPS

----------------------------------------------------------------------------
(* What any step but an acknowledgement may do to a selector: the epoch    *)
(* does not go back and keeps its target and its members (unless it had    *)
(* none), and the recorded activations are kept or cleared.                *)

SelectorStep(s, r) ==
  /\ r \in Selectors
  /\ r.epoch >= s.epoch
  /\ r.epoch = s.epoch =>
       /\ r.view.target = s.view.target
       /\ r.view.required = s.view.required \/ s.view.required = {}
  /\ r.activations = s.activations \/ r.activations = NoActivations
  /\ s.view.epoch = s.epoch => r.view.epoch = r.epoch

\* The empty tables of acknowledgements and of readiness are well typed.
LEMMA EmptyTables ==
  NoActivations \in [Nodes -> Acks] /\ NoReadiness \in [ArtifactClasses -> Nat]
BY Zenon DEF NoActivations, NoReadiness, NoAck, Acks, None

\* Doing nothing is a selector step.
LEMMA SelectorStepReflexive ==
  ASSUME NEW s \in Selectors
  PROVE  SelectorStep(s, s)
BY DEF SelectorStep, Selectors, Views

\* Selector steps compose.
LEMMA SelectorStepTransitive ==
  ASSUME NEW s \in Selectors, NEW r \in Selectors, NEW q \in Selectors,
         SelectorStep(s, r), SelectorStep(r, q)
  PROVE  SelectorStep(s, q)
BY DEF SelectorStep, Selectors, Views

\* Recapturing the membership: field by field.
LEMMA RecaptureFields ==
  ASSUME NEW s \in Selectors, NEW target \in Nat, NEW live \in SUBSET Nodes
  PROVE  LET r == RecaptureMembership(s, target, live)
         IN /\ r \in Selectors
            /\ r.latest = s.latest /\ r.active = s.active
            /\ r.epoch = s.epoch + 1
            /\ r.view.epoch = s.epoch + 1
            /\ r.view.target = target /\ r.view.required = live
            /\ r.activations = NoActivations
            /\ r.readiness = s.readiness
<1> DEFINE r == RecaptureMembership(s, target, live)
           v == [epoch |-> s.epoch + 1, target |-> target, required |-> live]
<1>1. v \in Views
  BY DEF Selectors, Views
<1>2. [s EXCEPT !.epoch = s.epoch + 1] \in Selectors
  BY DEF Selectors
<1>3. [[s EXCEPT !.epoch = s.epoch + 1] EXCEPT !.view = v] \in Selectors
  BY <1>1, <1>2, Zenon DEF Selectors
<1>4. [[[s EXCEPT !.epoch = s.epoch + 1] EXCEPT !.view = v]
         EXCEPT !.activations = NoActivations] \in Selectors
  BY <1>3, EmptyTables, Zenon DEF Selectors
<1>5. r \in Selectors
  BY <1>4, Zenon DEF RecaptureMembership
<1>6. /\ r.latest = s.latest /\ r.active = s.active /\ r.readiness = s.readiness
      /\ r.epoch = s.epoch + 1 /\ r.view = v /\ r.activations = NoActivations
  BY Zenon DEF RecaptureMembership, Selectors
<1>7. v.epoch = s.epoch + 1 /\ v.target = target /\ v.required = live
  OBVIOUS
<1> HIDE DEF v
<1> QED
  BY <1>5, <1>6, <1>7, Zenon

\* capture_cutover_membership_for_target leaves a view of the target.
LEMMA CaptureStep ==
  ASSUME NEW s \in Selectors, NEW target \in Nat, NEW live \in SUBSET Nodes
  PROVE  LET r == capture_cutover_membership_for_target(s, target, live)
         IN /\ SelectorStep(s, r)
            /\ r.latest = s.latest /\ r.active = s.active
            /\ r.view.target = target
<1>1. CASE s.view.target = target
  BY <1>1, SelectorStepReflexive, Zenon DEF capture_cutover_membership_for_target
<1>2. CASE s.view.target # target
  <2> DEFINE r == RecaptureMembership(s, target, live)
  <2>1. capture_cutover_membership_for_target(s, target, live) = r
    BY <1>2, Zenon DEF capture_cutover_membership_for_target
  <2>2. s.epoch \in Nat
    BY Zenon DEF Selectors
  <2>3. /\ r \in Selectors /\ r.latest = s.latest /\ r.active = s.active
        /\ r.epoch = s.epoch + 1 /\ r.view.epoch = s.epoch + 1
        /\ r.view.target = target /\ r.view.required = live
        /\ r.activations = NoActivations
    BY RecaptureFields
  <2> HIDE DEF r
  <2>4. /\ SelectorStep(s, r) /\ r.latest = s.latest /\ r.active = s.active
        /\ r.view.target = target
    BY <2>2, <2>3 DEF SelectorStep
  <2> QED
    BY <2>1, <2>4, Zenon
<1> QED
  BY <1>1, <1>2, Zenon

\* backfill_cutover_membership_for_target keeps the epoch and the target.
LEMMA BackfillStep ==
  ASSUME NEW s \in Selectors, NEW target \in Nat, NEW live \in SUBSET Nodes
  PROVE  LET r == backfill_cutover_membership_for_target(s, target, live)
         IN /\ SelectorStep(s, r)
            /\ r.latest = s.latest /\ r.active = s.active
            /\ r.view.target = s.view.target
            /\ r.view.epoch = s.view.epoch
            /\ r.activations = s.activations
            /\ r.view.target = target /\ r.view.required = {} => live = {}
BY DEF backfill_cutover_membership_for_target, SelectorStep, Selectors, Views

\* maybe_reconfigure_cutover_membership_for_target leaves a membership of live
\* nodes, if any node is live.
LEMMA ReconfigureStep ==
  ASSUME NEW s \in Selectors, NEW target \in Nat, NEW live \in SUBSET Nodes
  PROVE  LET r == maybe_reconfigure_cutover_membership_for_target(s, target, live)
         IN /\ SelectorStep(s, r)
            /\ r.latest = s.latest /\ r.active = s.active
            /\ r.view.target = s.view.target
            /\ r.view.target = target => r.view.required \subseteq live \/ live = {}
<1> DEFINE stale == s.view.target = target /\ live # {}
                      /\ ~(s.view.required \subseteq live)
<1>1. CASE ~stale
  BY <1>1, SelectorStepReflexive
     DEF maybe_reconfigure_cutover_membership_for_target
<1>2. CASE stale
  <2> DEFINE r == RecaptureMembership(s, target, live)
  <2>1. maybe_reconfigure_cutover_membership_for_target(s, target, live) = r
    BY <1>2, Zenon DEF maybe_reconfigure_cutover_membership_for_target
  <2>2. s.epoch \in Nat
    BY Zenon DEF Selectors
  <2>3. /\ r \in Selectors /\ r.latest = s.latest /\ r.active = s.active
        /\ r.epoch = s.epoch + 1 /\ r.view.epoch = s.epoch + 1
        /\ r.view.target = target /\ r.view.required = live
        /\ r.activations = NoActivations
    BY RecaptureFields
  <2> HIDE DEF r
  <2>4. /\ SelectorStep(s, r) /\ r.latest = s.latest /\ r.active = s.active
        /\ r.view.target = target /\ r.view.required = live
    BY <2>2, <2>3 DEF SelectorStep
  <2> QED
    BY <1>2, <2>1, <2>4, Zenon
<1> QED
  BY <1>1, <1>2, Zenon

\* advance_target_checkpoint leaves a view of the latest checkpoint.
LEMMA AdvanceStep ==
  ASSUME NEW s \in Selectors, NEW live \in SUBSET Nodes
  PROVE  LET r == advance_target_checkpoint(s, live)
         IN SelectorStep(s, r) /\ r.latest = s.latest /\ r.active = s.active
<1> DEFINE fresh == IF s.view.target = s.latest
                      THEN s ELSE [s EXCEPT !.readiness = NoReadiness]
           r == capture_cutover_membership_for_target(fresh, s.latest, live)
<1>1. /\ fresh \in Selectors /\ SelectorStep(s, fresh)
      /\ fresh.latest = s.latest /\ fresh.active = s.active
  <2>1. CASE s.view.target = s.latest
    BY <2>1, SelectorStepReflexive, Zenon
  <2>2. CASE s.view.target # s.latest
    BY <2>2, EmptyTables DEF SelectorStep, Selectors
  <2> QED
    BY <2>1, <2>2, Zenon
<1> HIDE DEF fresh
<1>2. s.latest \in Nat
  BY Zenon DEF Selectors
<1>3. SelectorStep(fresh, r) /\ r.latest = fresh.latest /\ r.active = fresh.active
  BY <1>1, <1>2, CaptureStep, Zenon
<1>4. SelectorStep(s, r) /\ r.latest = s.latest /\ r.active = s.active
  BY <1>1, <1>3, SelectorStepTransitive DEF SelectorStep
<1>5. advance_target_checkpoint(s, live) = IF s.latest = None THEN s ELSE r
  BY Zenon DEF advance_target_checkpoint, fresh
<1> HIDE DEF r
<1> QED
  BY <1>4, <1>5, SelectorStepReflexive, Zenon

\* What activation_matches_target does to the view before it compares: if it
\* is a view of the latest checkpoint, its members are live or no node is.
LEMMA SettleStep ==
  ASSUME NEW s \in Selectors, NEW live \in SUBSET Nodes
  PROVE  LET r == SettleMembership(s, live)
         IN /\ SelectorStep(s, r)
            /\ r.latest = s.latest /\ r.active = s.active
            /\ r.view.target = s.latest
                 => r.view.required \subseteq live \/ live = {}
<1> DEFINE b == backfill_cutover_membership_for_target(s, s.latest, live)
           r == maybe_reconfigure_cutover_membership_for_target(b, s.latest, live)
<1>1. s.latest \in Nat
  BY Zenon DEF Selectors
<1>2. SelectorStep(s, b) /\ b.latest = s.latest /\ b.active = s.active
  BY <1>1, BackfillStep, Zenon
<1>3. b \in Selectors
  BY <1>2, Zenon DEF SelectorStep
<1> HIDE DEF b
<1>4. /\ SelectorStep(b, r) /\ r.latest = b.latest /\ r.active = b.active
      /\ r.view.target = s.latest => r.view.required \subseteq live \/ live = {}
  BY <1>1, <1>3, ReconfigureStep
<1>5. r = SettleMembership(s, live)
  BY Zenon DEF SettleMembership, b
<1> HIDE DEF r
<1>6. SelectorStep(s, r)
  BY <1>2, <1>3, <1>4, SelectorStepTransitive, Zenon DEF SelectorStep
<1> QED
  BY <1>2, <1>4, <1>5, <1>6, Zenon

\* promote_active_checkpoint_if_ready leaves active alone or makes the latest
\* checkpoint active under an activated membership of live nodes.
LEMMA PromoteStep ==
  ASSUME NEW s \in Selectors, NEW e, NEW live \in SUBSET Nodes
  PROVE  LET r == promote_active_checkpoint_if_ready(s, e, live)
         IN /\ SelectorStep(s, r)
            /\ r.latest = s.latest
            /\ r.active # s.active =>
                 /\ r.active = s.latest /\ s.latest # None
                 /\ RequiredNodesActivated(r)
                 /\ r.view.required \subseteq live \/ live = {}
<1> DEFINE m == SettleMembership(s, live)
           p == [m EXCEPT !.active = m.latest]
           r == promote_active_checkpoint_if_ready(s, e, live)
           idle == s.latest = None \/ s.active = s.latest
                     \/ ~readiness_matches_target(s, e)
<1>1. /\ SelectorStep(s, m) /\ m.latest = s.latest /\ m.active = s.active
      /\ m.view.target = s.latest => m.view.required \subseteq live \/ live = {}
  BY SettleStep, Zenon
<1>2. r = IF idle THEN s ELSE IF RequiredNodesActivated(m) THEN p ELSE m
  BY Zenon DEF promote_active_checkpoint_if_ready
<1>3. m \in Selectors
  BY <1>1, Zenon DEF SelectorStep
<1> HIDE DEF m
<1>4. CASE idle
  BY <1>2, <1>4, SelectorStepReflexive, Zenon
<1>5. CASE ~idle /\ ~RequiredNodesActivated(m)
  BY <1>1, <1>2, <1>5, Zenon
<1>6. CASE ~idle /\ RequiredNodesActivated(m)
  <2>1. r = p /\ s.latest # None
    BY <1>2, <1>6, Zenon
  <2>2. /\ p \in Selectors /\ p.latest = m.latest /\ p.active = m.latest
        /\ p.epoch = m.epoch /\ p.view = m.view /\ p.activations = m.activations
    BY <1>3, Zenon DEF Selectors
  <2> HIDE DEF p
  <2>3. SelectorStep(s, p)
    BY <1>1, <2>2, Zenon DEF SelectorStep
  <2>4. RequiredNodesActivated(p)
    BY <1>6, <2>2, Zenon DEF RequiredNodesActivated
  <2>5. p.view.required \subseteq live \/ live = {}
    BY <1>1, <1>6, <2>2, Zenon DEF RequiredNodesActivated
  <2> QED
    BY <1>1, <2>1, <2>2, <2>3, <2>4, <2>5, Zenon
<1> QED
  BY <1>4, <1>5, <1>6, Zenon

\* update_all_checkpoints on one selector: the target advances, then active may.
LEMMA UpdateStep ==
  ASSUME NEW s \in Selectors, NEW e, NEW live \in SUBSET Nodes
  PROVE  LET r == promote_active_checkpoint_if_ready(
                    advance_target_checkpoint(s, live), e, live)
         IN /\ SelectorStep(s, r)
            /\ r.latest = s.latest
            /\ r.active # s.active =>
                 /\ r.active = s.latest /\ s.latest # None
                 /\ RequiredNodesActivated(r)
                 /\ r.view.required \subseteq live \/ live = {}
<1> DEFINE a == advance_target_checkpoint(s, live)
           r == promote_active_checkpoint_if_ready(a, e, live)
<1>1. SelectorStep(s, a) /\ a.latest = s.latest /\ a.active = s.active
  BY AdvanceStep, Zenon
<1>2. a \in Selectors
  BY <1>1, Zenon DEF SelectorStep
<1> HIDE DEF a
<1>3. /\ SelectorStep(a, r) /\ r.latest = a.latest
      /\ r.active # a.active =>
           /\ r.active = a.latest /\ a.latest # None
           /\ RequiredNodesActivated(r)
           /\ r.view.required \subseteq live \/ live = {}
  BY <1>2, PromoteStep, Zenon
<1>4. r \in Selectors
  BY <1>3, Zenon DEF SelectorStep
<1>5. SelectorStep(s, r)
  BY <1>1, <1>2, <1>3, <1>4, SelectorStepTransitive, Zenon
<1> QED
  BY <1>1, <1>3, <1>5, Zenon DEF a

\* A read of the cutover state leaves a view of the latest checkpoint.
LEMMA ReadStep ==
  ASSUME NEW s \in Selectors, NEW live \in SUBSET Nodes
  PROVE  LET r == CutoverStateRead(s, live)
         IN /\ SelectorStep(s, r)
            /\ r.latest = s.latest /\ r.active = s.active
            /\ s.latest # None => r.view.target = s.latest
<1> DEFINE c == capture_cutover_membership_for_target(s, s.latest, live)
           b == backfill_cutover_membership_for_target(c, s.latest, live)
<1>1. s.latest \in Nat
  BY Zenon DEF Selectors
<1>2. /\ SelectorStep(s, c) /\ c.latest = s.latest /\ c.active = s.active
      /\ c.view.target = s.latest
  BY <1>1, CaptureStep, ZenonT(30)
<1>3. c \in Selectors
  BY <1>2, Zenon DEF SelectorStep
<1> HIDE DEF c
<1>4. /\ SelectorStep(c, b) /\ b.latest = c.latest /\ b.active = c.active
      /\ b.view.target = c.view.target
  BY <1>1, <1>3, BackfillStep, ZenonT(30)
<1>5. CutoverStateRead(s, live) = IF s.latest = None THEN s ELSE b
  BY Zenon DEF CutoverStateRead, c
<1> HIDE DEF b
<1>6. SelectorStep(s, b)
  BY <1>2, <1>3, <1>4, SelectorStepTransitive, Zenon DEF SelectorStep
<1> QED
  BY <1>2, <1>4, <1>5, <1>6, SelectorStepReflexive, Zenon

----------------------------------------------------------------------------
(* The inductive invariant of the epochs.  EpochIdentifiesTarget alone is  *)
(* not inductive: a new ticket must agree with every old ticket of its     *)
(* epoch, which is what TicketsMatchViews says of the current one.         *)

CutoverInv == TypeOK /\ TicketsMatchViews /\ EpochIdentifiesTarget

\* The initial state satisfies the invariant.
LEMMA InitCutoverInv == Init => CutoverInv
<1> SUFFICES ASSUME Init PROVE CutoverInv
  OBVIOUS
<1>1. \A e \in Extensions :
        /\ selector[e] \in Selectors
        /\ selector[e].view.epoch = selector[e].epoch
        /\ selector[e].activations = NoActivations
  BY EmptyTables, Zenon DEF Init, Selectors, Views, NoView, None
<1>2. TypeOK
  BY <1>1, Zenon DEF Init, TypeOK
<1>3. TicketsMatchViews
  BY <1>1, Zenon DEF Init, TicketsMatchViews, NoActivations
<1>4. EpochIdentifiesTarget
  BY Zenon DEF Init, EpochIdentifiesTarget
<1> QED
  BY <1>2, <1>3, <1>4, Zenon DEF CutoverInv

\* What MembershipFixedWithinEpoch says of one step.
MembershipStep ==
  \A e \in Extensions :
    selector'[e].view.required # selector[e].view.required
      => \/ selector[e].view.required = {}
         \/ selector'[e].view.epoch > selector[e].view.epoch

\* A step that only takes selector steps preserves the invariant.
LEMMA SelectorStepsPreserve ==
  ASSUME CutoverInv, selector' \in [Extensions -> Selectors],
         \A e \in Extensions : SelectorStep(selector[e], selector'[e]),
         leases' \in SUBSET Nodes, requested' \in BOOLEAN, esWork' \in BOOLEAN,
         UNCHANGED tickets
  PROVE  CutoverInv' /\ MembershipStep
<1>1. TypeOK'
  BY Zenon DEF CutoverInv, TypeOK
<1>2. EpochIdentifiesTarget'
  BY DEF CutoverInv, EpochIdentifiesTarget
<1>3. \A e \in Extensions : selector'[e].view.epoch = selector'[e].epoch
  BY Zenon DEF CutoverInv, TicketsMatchViews, SelectorStep
<1>4. ASSUME NEW n \in Nodes, NEW t \in tickets[n]
      PROVE  /\ t.epoch <= selector'[t.extension].epoch
             /\ t.epoch = selector'[t.extension].epoch
                  => t.checkpoint = selector'[t.extension].view.target
  <2>1. /\ t.extension \in Extensions /\ t.epoch \in Nat
        /\ selector[t.extension].epoch \in Nat
        /\ selector'[t.extension].epoch \in Nat
    BY DEF CutoverInv, TypeOK, Tickets, Selectors
  <2>2. /\ t.epoch <= selector[t.extension].epoch
        /\ t.epoch = selector[t.extension].epoch
             => t.checkpoint = selector[t.extension].view.target
    BY Zenon DEF CutoverInv, TicketsMatchViews
  <2> QED
    BY <2>1, <2>2 DEF SelectorStep
<1>5. ASSUME NEW e \in Extensions, NEW n \in Nodes
      PROVE  LET ack == selector'[e].activations[n]
             IN \/ ack = NoAck
                \/ [extension |-> e, epoch |-> ack.epoch,
                    checkpoint |-> ack.checkpoint] \in tickets[n]
  BY DEF CutoverInv, TicketsMatchViews, SelectorStep, NoActivations
<1>6. TicketsMatchViews'
  BY <1>3, <1>4, <1>5, Zenon DEF TicketsMatchViews
<1>7. MembershipStep
  <2>1. \A e \in Extensions :
          /\ selector[e].epoch \in Nat /\ selector'[e].epoch \in Nat
          /\ selector[e].view.epoch = selector[e].epoch
    BY Zenon DEF CutoverInv, TypeOK, TicketsMatchViews, Selectors
  <2> QED
    BY <1>3, <2>1 DEF SelectorStep, MembershipStep
<1> QED
  BY <1>1, <1>2, <1>6, <1>7, Zenon DEF CutoverInv

\* The updater preserves the invariant.
LEMMA UpdatePreserves ==
  ASSUME CutoverInv, update_all_checkpoints
  PROVE  CutoverInv' /\ MembershipStep
<1>1. /\ selector \in [Extensions -> Selectors] /\ leases \in SUBSET Nodes
      /\ esWork \in BOOLEAN
  BY Zenon DEF CutoverInv, TypeOK
<1>2. \A e \in Extensions :
        /\ selector[e] \in Selectors
        /\ selector'[e] = promote_active_checkpoint_if_ready(
             advance_target_checkpoint(selector[e], leases), e, leases)
  BY <1>1, Zenon DEF update_all_checkpoints
<1>3. \A e \in Extensions : SelectorStep(selector[e], selector'[e])
  BY <1>1, <1>2, UpdateStep
<1>4. selector' \in [Extensions -> Selectors]
  BY <1>3, Zenon DEF update_all_checkpoints, SelectorStep
<1>5. /\ leases' \in SUBSET Nodes /\ requested' \in BOOLEAN
      /\ esWork' \in BOOLEAN /\ UNCHANGED tickets
  BY <1>1, Zenon DEF update_all_checkpoints, checkpoint_publication_still_pending
<1> QED
  BY <1>3, <1>4, <1>5, SelectorStepsPreserve, Zenon

\* A commit preserves the invariant: it moves latest alone.
LEMMA CommitPreserves ==
  ASSUME CutoverInv, Commit
  PROVE  CutoverInv' /\ MembershipStep
<1>1. /\ selector \in [Extensions -> Selectors] /\ leases \in SUBSET Nodes
      /\ esWork \in BOOLEAN
  BY Zenon DEF CutoverInv, TypeOK
<1>2. ASSUME NEW s \in Selectors, NEW id \in Nat
      PROVE  /\ [s EXCEPT !.latest = id] \in Selectors
             /\ SelectorStep(s, [s EXCEPT !.latest = id])
  BY DEF Selectors, SelectorStep, Views
<1>3. \A e \in Extensions : SelectorStep(selector[e], selector[e])
  BY <1>1, SelectorStepReflexive, Zenon
<1>4. ASSUME NEW x \in Extensions, NEW id \in Nat,
             selector' = [selector EXCEPT ![x].latest = id]
      PROVE  /\ selector' \in [Extensions -> Selectors]
             /\ \A e \in Extensions : SelectorStep(selector[e], selector'[e])
  BY <1>1, <1>2, <1>3, <1>4, Zenon
<1>5. /\ selector' \in [Extensions -> Selectors]
      /\ \A e \in Extensions : SelectorStep(selector[e], selector'[e])
  <2>1. ASSUME NEW work \in BOOLEAN, CommitTable(work)
        PROVE  /\ selector' \in [Extensions -> Selectors]
               /\ \A e \in Extensions : SelectorStep(selector[e], selector'[e])
    <3>1. "none" \in Extensions
      BY ExtensionsAssumption, Zenon
    <3>2. selector["none"].latest + 1 \in Nat
      BY <1>1, <3>1 DEF Selectors
    <3> QED
      BY <1>4, <2>1, <3>1, <3>2, Zenon DEF CommitTable
  <2>2. ASSUME NEW id \in 1 .. MaxCheckpoint, CommitExtension(id)
        PROVE  /\ selector' \in [Extensions -> Selectors]
               /\ \A e \in Extensions : SelectorStep(selector[e], selector'[e])
    <3>1. "es" \in Extensions /\ id \in Nat
      BY <2>2 DEF CommitExtension
    <3>2. CASE id > selector["es"].latest
      BY <1>4, <2>2, <3>1, <3>2, Zenon DEF CommitExtension
    <3>3. CASE ~(id > selector["es"].latest)
      BY <1>1, <1>3, <2>2, <3>3, Zenon DEF CommitExtension
    <3> QED
      BY <3>2, <3>3, Zenon
  <2> QED
    BY <2>1, <2>2, Zenon DEF Commit
<1>6. /\ leases' \in SUBSET Nodes /\ requested' \in BOOLEAN
      /\ esWork' \in BOOLEAN /\ UNCHANGED tickets
  BY <1>1, Zenon DEF Commit, CommitTable, CommitExtension, queue_publication_request
<1> QED
  BY <1>5, <1>6, SelectorStepsPreserve, Zenon

\* A read of the cutover state preserves the invariant: the ticket it hands
\* out names the view's target under the view's epoch.
LEMMA ReadPreserves ==
  ASSUME CutoverInv, NEW n \in Nodes, NEW e \in Extensions,
         get_checkpoint_cutover_state(n, e)
  PROVE  CutoverInv' /\ MembershipStep
<1> DEFINE r == CutoverStateRead(selector[e], leases)
           new == CutoverTicket(e, r)
<1>1. /\ selector \in [Extensions -> Selectors] /\ leases \in SUBSET Nodes
      /\ tickets \in [Nodes -> SUBSET Tickets]
  BY Zenon DEF CutoverInv, TypeOK
<1>2. /\ SelectorStep(selector[e], r) /\ r.latest = selector[e].latest
      /\ r.view.target = selector[e].latest
  BY <1>1, ReadStep, Zenon DEF get_checkpoint_cutover_state
<1>3. r \in Selectors
  BY <1>2, Zenon DEF SelectorStep
<1>4. /\ selector' = [selector EXCEPT ![e] = r]
      /\ tickets' = [tickets EXCEPT ![n] = @ \cup {new}]
      /\ UNCHANGED <<leases, requested, esWork>>
  BY <1>1, Zenon DEF get_checkpoint_cutover_state
<1>5. /\ new \in Tickets /\ new.extension = e /\ new.epoch = r.epoch
      /\ new.checkpoint = r.view.target
  <2>1. selector[e].view.epoch = selector[e].epoch
    BY Zenon DEF CutoverInv, TicketsMatchViews
  <2>2. r.view.epoch = r.epoch
    BY <1>2, <2>1, Zenon DEF SelectorStep
  <2> QED
    BY <1>2, <1>3, <2>2, Zenon DEF CutoverTicket, Tickets, Selectors, Views
<1> HIDE DEF r, new
<1>6. \A x \in Extensions : SelectorStep(selector[x], selector'[x])
  BY <1>1, <1>2, <1>4, SelectorStepReflexive, Zenon
<1>7. selector' \in [Extensions -> Selectors]
  BY <1>1, <1>3, <1>4, Zenon
<1>8. TypeOK'
  BY <1>1, <1>4, <1>5, <1>7, Zenon DEF CutoverInv, TypeOK
<1>9. \A x \in Extensions : selector'[x].view.epoch = selector'[x].epoch
  BY <1>6, Zenon DEF CutoverInv, TicketsMatchViews, SelectorStep
<1>10. ASSUME NEW m \in Nodes, NEW t \in tickets'[m]
       PROVE  /\ t.epoch <= selector'[t.extension].epoch
              /\ t.epoch = selector'[t.extension].epoch
                   => t.checkpoint = selector'[t.extension].view.target
  <2>1. CASE t \in tickets[m]
    <3>1. /\ t.extension \in Extensions /\ t.epoch \in Nat
          /\ selector[t.extension].epoch \in Nat
          /\ selector'[t.extension].epoch \in Nat
      BY <1>1, <1>7, <2>1 DEF Tickets, Selectors
    <3>2. /\ t.epoch <= selector[t.extension].epoch
          /\ t.epoch = selector[t.extension].epoch
               => t.checkpoint = selector[t.extension].view.target
      BY <2>1, Zenon DEF CutoverInv, TicketsMatchViews
    <3> QED
      BY <1>6, <3>1, <3>2 DEF SelectorStep
  <2>2. CASE t = new
    BY <1>1, <1>3, <1>4, <1>5, <2>2 DEF Selectors
  <2> QED
    BY <1>1, <1>4, <2>1, <2>2, Zenon
<1>11. ASSUME NEW x \in Extensions, NEW m \in Nodes
       PROVE  LET ack == selector'[x].activations[m]
              IN \/ ack = NoAck
                 \/ [extension |-> x, epoch |-> ack.epoch,
                     checkpoint |-> ack.checkpoint] \in tickets'[m]
  <2>1. tickets[m] \subseteq tickets'[m]
    BY <1>1, <1>4, Zenon
  <2> QED
    BY <1>6, <2>1 DEF CutoverInv, TicketsMatchViews, SelectorStep, NoActivations
<1>12. TicketsMatchViews'
  BY <1>9, <1>10, <1>11, Zenon DEF TicketsMatchViews
<1>13. EpochIdentifiesTarget'
  <2> SUFFICES ASSUME NEW k \in Nodes, NEW m \in Nodes,
                      NEW t \in tickets'[k], NEW u \in tickets'[m],
                      t.extension = u.extension, t.epoch = u.epoch
               PROVE  t.checkpoint = u.checkpoint
    BY DEF EpochIdentifiesTarget
  <2>1. CASE t \in tickets[k] /\ u \in tickets[m]
    BY <2>1 DEF CutoverInv, EpochIdentifiesTarget
  <2>2. CASE t = new
    BY <1>1, <1>3, <1>4, <1>5, <1>10, <2>2, ZenonT(30)
  <2>3. CASE u = new
    BY <1>1, <1>3, <1>4, <1>5, <1>10, <2>3, ZenonT(30)
  <2> QED
    BY <1>1, <1>4, <2>1, <2>2, <2>3, Zenon
<1>14. MembershipStep
  <2>1. \A x \in Extensions :
          /\ selector[x].epoch \in Nat /\ selector'[x].epoch \in Nat
          /\ selector[x].view.epoch = selector[x].epoch
    BY <1>1, <1>7, Zenon DEF CutoverInv, TicketsMatchViews, Selectors
  <2> QED
    BY <1>6, <1>9, <2>1 DEF SelectorStep, MembershipStep
<1> QED
  BY <1>8, <1>12, <1>13, <1>14, Zenon DEF CutoverInv

\* An observer's read preserves the invariant.
LEMMA ObserverPreserves ==
  ASSUME CutoverInv, NEW e \in Extensions, get_read_only_coordination_state(e)
  PROVE  CutoverInv' /\ MembershipStep
<1> DEFINE r == CutoverStateRead(selector[e], leases)
<1>1. /\ selector \in [Extensions -> Selectors] /\ leases \in SUBSET Nodes
      /\ requested \in BOOLEAN /\ esWork \in BOOLEAN
  BY Zenon DEF CutoverInv, TypeOK
<1>2. SelectorStep(selector[e], r) /\ selector' = [selector EXCEPT ![e] = r]
  BY <1>1, ReadStep, Zenon DEF get_read_only_coordination_state
<1>3. r \in Selectors
  BY <1>2, Zenon DEF SelectorStep
<1> HIDE DEF r
<1>4. \A x \in Extensions : SelectorStep(selector[x], selector'[x])
  BY <1>1, <1>2, SelectorStepReflexive, Zenon
<1> QED
  BY <1>1, <1>2, <1>3, <1>4, SelectorStepsPreserve
     DEF get_read_only_coordination_state

\* What a planned cutover does to its selector.
LEMMA PlanStep ==
  ASSUME NEW s \in Selectors, NEW target \in Nat, NEW live \in SUBSET Nodes
  PROVE  LET r == capture_cutover_membership_for_target(
                    [s EXCEPT !.planned = target], target, live)
         IN SelectorStep(s, r) /\ r.latest = s.latest /\ r.active = s.active
<1> DEFINE p == [s EXCEPT !.planned = target]
           r == capture_cutover_membership_for_target(p, target, live)
<1>1. /\ p \in Selectors /\ SelectorStep(s, p)
      /\ p.latest = s.latest /\ p.active = s.active
  BY DEF Selectors, SelectorStep, Views
<1> HIDE DEF p
<1>2. SelectorStep(p, r) /\ r.latest = p.latest /\ r.active = p.active
  BY <1>1, CaptureStep, Zenon
<1>3. SelectorStep(s, r)
  BY <1>1, <1>2, SelectorStepTransitive, Zenon DEF SelectorStep
<1> QED
  BY <1>1, <1>2, <1>3, Zenon DEF p

\* A planned cutover preserves the invariant.
LEMMA PlanPreserves ==
  ASSUME CutoverInv, NEW e \in Extensions, NEW target \in 1 .. MaxCheckpoint,
         plan_checkpoint_cutover(e, target)
  PROVE  CutoverInv' /\ MembershipStep
<1> DEFINE r == capture_cutover_membership_for_target(
                  [selector[e] EXCEPT !.planned = target], target, leases)
<1>1. /\ selector \in [Extensions -> Selectors] /\ leases \in SUBSET Nodes
      /\ requested \in BOOLEAN /\ esWork \in BOOLEAN /\ target \in Nat
  BY DEF CutoverInv, TypeOK
<1>2. SelectorStep(selector[e], r) /\ selector' = [selector EXCEPT ![e] = r]
  BY <1>1, PlanStep, Zenon DEF plan_checkpoint_cutover
<1>3. r \in Selectors
  BY <1>2, Zenon DEF SelectorStep
<1> HIDE DEF r
<1>4. \A x \in Extensions : SelectorStep(selector[x], selector'[x])
  BY <1>1, <1>2, SelectorStepReflexive, Zenon
<1> QED
  BY <1>1, <1>2, <1>3, <1>4, SelectorStepsPreserve, Zenon DEF plan_checkpoint_cutover

\* A readiness report preserves the invariant.
LEMMA ReadinessPreserves ==
  ASSUME CutoverInv, NEW n \in Nodes, NEW t \in tickets[n],
         NEW c \in ArtifactClasses, record_artifact_readiness(t, c)
  PROVE  CutoverInv' /\ MembershipStep
<1>1. /\ selector \in [Extensions -> Selectors] /\ leases \in SUBSET Nodes
      /\ requested \in BOOLEAN /\ esWork \in BOOLEAN
      /\ t.extension \in Extensions /\ t.checkpoint \in Nat
  BY DEF CutoverInv, TypeOK, Tickets
<1> DEFINE s == selector[t.extension]
           ready == [s.readiness EXCEPT ![c] = t.checkpoint]
           r == [s EXCEPT !.readiness = ready]
<1>2. selector' = [selector EXCEPT ![t.extension] = r]
  BY <1>1, Zenon DEF record_artifact_readiness
<1>3. s \in Selectors /\ ready \in [ArtifactClasses -> Nat]
  BY <1>1, Zenon DEF Selectors
<1> HIDE DEF s, ready
<1>4. r \in Selectors /\ SelectorStep(s, r)
  BY <1>3 DEF Selectors, SelectorStep, Views
<1> HIDE DEF r
<1>5. selector' \in [Extensions -> Selectors]
  BY <1>1, <1>2, <1>4, Zenon
<1>6. \A x \in Extensions : SelectorStep(selector[x], selector'[x])
  BY <1>1, <1>2, <1>4, SelectorStepReflexive, Zenon DEF s
<1> QED
  BY <1>1, <1>5, <1>6, SelectorStepsPreserve, Zenon DEF record_artifact_readiness

\* An acknowledgement preserves the invariant, however late it is.
LEMMA ActivationPreserves ==
  ASSUME CutoverInv, NEW n \in Nodes, NEW t \in tickets[n],
         record_serving_node_activation(n, t)
  PROVE  CutoverInv' /\ MembershipStep
<1> DEFINE ack == [epoch |-> t.epoch, checkpoint |-> t.checkpoint]
           s == selector[t.extension]
           acks == [s.activations EXCEPT ![n] = ack]
           r == [s EXCEPT !.activations = acks]
<1>1. /\ selector \in [Extensions -> Selectors] /\ t \in Tickets
      /\ t.extension \in Extensions
  BY DEF CutoverInv, TypeOK, Tickets
<1>2. /\ selector' = [selector EXCEPT ![t.extension] = r]
      /\ UNCHANGED <<leases, requested, esWork, tickets>>
  BY <1>1, Zenon DEF record_serving_node_activation
<1>3. /\ r \in Selectors /\ r.epoch = s.epoch /\ r.view = s.view
      /\ r.activations = acks
  <2>1. s \in Selectors /\ ack \in Acks
    BY <1>1, Zenon DEF Tickets, Acks
  <2>2. acks \in [Nodes -> Acks]
    BY <2>1, Zenon DEF Selectors
  <2> HIDE DEF s, acks, ack
  <2> QED
    BY <2>1, <2>2, Zenon DEF Selectors
<1>4. acks[n] = ack /\ \A m \in Nodes \ {n} : acks[m] = s.activations[m]
  BY <1>1, Zenon DEF Selectors
<1>5. t = [extension |-> t.extension, epoch |-> ack.epoch,
           checkpoint |-> ack.checkpoint]
  BY <1>1, Zenon DEF Tickets
<1> HIDE DEF r, acks, ack
<1>6. \A e \in Extensions : /\ selector'[e].epoch = selector[e].epoch
                            /\ selector'[e].view = selector[e].view
  BY <1>1, <1>2, <1>3, Zenon
<1>7. TypeOK'
  BY <1>1, <1>2, <1>3, Zenon DEF CutoverInv, TypeOK
<1>8. EpochIdentifiesTarget'
  BY <1>2 DEF CutoverInv, EpochIdentifiesTarget
<1>9. ASSUME NEW e \in Extensions, NEW m \in Nodes
      PROVE  LET a == selector'[e].activations[m]
             IN \/ a = NoAck
                \/ [extension |-> e, epoch |-> a.epoch,
                    checkpoint |-> a.checkpoint] \in tickets[m]
  <2>1. CASE e = t.extension /\ m = n
    BY <1>1, <1>2, <1>3, <1>4, <1>5, <2>1, Zenon
  <2>2. CASE ~(e = t.extension /\ m = n)
    <3>1. selector'[e].activations[m] = selector[e].activations[m]
      BY <1>1, <1>2, <1>3, <1>4, <2>2, Zenon
    <3> QED
      BY <3>1, Zenon DEF CutoverInv, TicketsMatchViews
  <2> QED
    BY <2>1, <2>2, Zenon
<1>10. ASSUME NEW m \in Nodes, NEW u \in tickets[m]
       PROVE  /\ u.epoch <= selector'[u.extension].epoch
              /\ u.epoch = selector'[u.extension].epoch
                   => u.checkpoint = selector'[u.extension].view.target
  <2>1. u.extension \in Extensions
    BY DEF CutoverInv, TypeOK, Tickets
  <2> QED
    BY <1>6, <2>1, Zenon DEF CutoverInv, TicketsMatchViews
<1>11. TicketsMatchViews'
  BY <1>2, <1>6, <1>9, <1>10, ZenonT(30) DEF CutoverInv, TicketsMatchViews
<1>12. MembershipStep
  BY <1>6, Zenon DEF MembershipStep
<1> QED
  BY <1>7, <1>8, <1>11, <1>12, Zenon DEF CutoverInv

\* A lease that is renewed or expires preserves the invariant.
LEMMA LeasePreserves ==
  ASSUME CutoverInv, NEW n \in Nodes,
         heartbeat_serving_node(n) \/ LeaseExpires(n)
  PROVE  CutoverInv' /\ MembershipStep
<1>1. /\ selector' = selector /\ selector \in [Extensions -> Selectors]
      /\ leases' \in SUBSET Nodes /\ requested' \in BOOLEAN
      /\ esWork' \in BOOLEAN /\ UNCHANGED tickets
  BY Zenon DEF CutoverInv, TypeOK, heartbeat_serving_node, LeaseExpires
<1>2. \A e \in Extensions : SelectorStep(selector[e], selector'[e])
  BY <1>1, SelectorStepReflexive, Zenon
<1> QED
  BY <1>1, <1>2, SelectorStepsPreserve, Zenon

\* Every step preserves the invariant.
LEMMA NextCutoverInv == CutoverInv /\ [Next]_vars => CutoverInv' /\ MembershipStep
<1> SUFFICES ASSUME CutoverInv, [Next]_vars PROVE CutoverInv' /\ MembershipStep
  OBVIOUS
<1>1. CASE update_all_checkpoints
  BY <1>1, UpdatePreserves, Zenon
<1>2. CASE Commit
  BY <1>2, CommitPreserves, Zenon
<1>3. ASSUME NEW n \in Nodes, NodeStep(n)
      PROVE  CutoverInv' /\ MembershipStep
  <2>1. CASE heartbeat_serving_node(n) \/ LeaseExpires(n)
    BY <2>1, LeasePreserves, Zenon
  <2>2. ASSUME NEW e \in Extensions, get_checkpoint_cutover_state(n, e)
        PROVE  CutoverInv' /\ MembershipStep
    BY <2>2, ReadPreserves, Zenon
  <2>3. ASSUME NEW t \in tickets[n], record_serving_node_activation(n, t)
        PROVE  CutoverInv' /\ MembershipStep
    BY <2>3, ActivationPreserves, Zenon
  <2>4. ASSUME NEW t \in tickets[n], NEW c \in ArtifactClasses,
               record_artifact_readiness(t, c)
        PROVE  CutoverInv' /\ MembershipStep
    BY <2>4, ReadinessPreserves, Zenon
  <2> QED
    BY <1>3, <2>1, <2>2, <2>3, <2>4, Zenon DEF NodeStep, Acknowledge
<1>4. ASSUME NEW e \in Extensions, get_read_only_coordination_state(e)
      PROVE  CutoverInv' /\ MembershipStep
  BY <1>4, ObserverPreserves, Zenon
<1>5. ASSUME NEW e \in Extensions, NEW target \in 1 .. MaxCheckpoint,
             plan_checkpoint_cutover(e, target)
      PROVE  CutoverInv' /\ MembershipStep
  BY <1>5, PlanPreserves, Zenon
<1>6. CASE UNCHANGED vars
  BY <1>6 DEF CutoverInv, TypeOK, TicketsMatchViews, EpochIdentifiesTarget,
              MembershipStep, vars
<1> QED
  BY <1>1, <1>2, <1>3, <1>4, <1>5, <1>6, Zenon DEF Next

\* The epoch invariant of the cutover state holds in every reachable state:
\* this is the joint strengthening the three theorems below are read off from.
THEOREM CutoverInvariant == Spec => []CutoverInv
BY InitCutoverInv, NextCutoverInv, PTL DEF Spec

\* Type correctness of the cutover state of ephemeral_service_impl.rs.
THEOREM TypeCorrect == Spec => []TypeOK
<1>1. CutoverInv => TypeOK
  BY Zenon DEF CutoverInv
<1> QED
  BY <1>1, CutoverInvariant, PTL

\* The epochs bump_cutover_epoch hands out never name two targets, for any
\* number of nodes, commits, expiries and planned cutovers.
THEOREM EpochsIdentifyTargets == Spec => []EpochIdentifiesTarget
<1>1. CutoverInv => EpochIdentifiesTarget
  BY Zenon DEF CutoverInv
<1> QED
  BY <1>1, CutoverInvariant, PTL

\* Recorded activations and outstanding tickets agree with the membership
\* views, however late record_serving_node_activation is called.
THEOREM TicketsAgree == Spec => []TicketsMatchViews
<1>1. CutoverInv => TicketsMatchViews
  BY Zenon DEF CutoverInv
<1> QED
  BY <1>1, CutoverInvariant, PTL

\* Nobody joins or leaves a membership whose acknowledgements are being
\* counted: capture, backfill and reconfigure change the required nodes of a
\* non-empty view only under a new epoch.
THEOREM MembershipsAreFixed == Spec => MembershipFixedWithinEpoch
BY NextCutoverInv, CutoverInvariant, PTL
   DEF Spec, MembershipFixedWithinEpoch, MembershipStep

----------------------------------------------------------------------------
(* What the cutover does to the committed and active frontiers: no commit  *)
(* waits without a request, active never goes back, a promotion is         *)
(* acknowledged by live nodes, and the whole protocol implements           *)
(* PublishedFrontier.  Every step of Next is one of three things to the    *)
(* frontiers: it keeps them, it commits, or it publishes.                  *)

KeepsFrontiers ==
  /\ \A e \in Extensions : /\ selector'[e].latest = selector[e].latest
                           /\ selector'[e].active = selector[e].active
  /\ requested' = requested

CommitsFrontier ==
  /\ \A e \in Extensions : /\ selector'[e].latest >= selector[e].latest
                           /\ selector'[e].active = selector[e].active
  /\ requested' = TRUE

\* The selector e is left alone or its latest checkpoint becomes active.
PublishesSelector(e) ==
  /\ selector'[e].latest = selector[e].latest
  /\ \/ selector'[e].active = selector[e].active
     \/ /\ selector'[e].active = selector[e].latest
        /\ selector[e].latest # None
        /\ RequiredNodesActivated(selector'[e])
        /\ selector'[e].view.required \subseteq leases \/ leases = {}

PublishesFrontier ==
  /\ \A e \in Extensions : PublishesSelector(e)
  /\ requested' = checkpoint_publication_still_pending(selector')

\* A commit moves one committed frontier forward and queues a request.
LEMMA CommitFrontierStep ==
  ASSUME CutoverInv, Commit
  PROVE  CommitsFrontier
<1>1. selector \in [Extensions -> Selectors]
  BY Zenon DEF CutoverInv, TypeOK
<1>2. \A e \in Extensions : selector[e].latest \in Nat
  BY <1>1, Zenon DEF Selectors
<1>3. ASSUME NEW x \in Extensions, NEW id \in Nat, id >= selector[x].latest,
             selector' = [selector EXCEPT ![x].latest = id],
             NEW e \in Extensions
      PROVE  /\ selector'[e].latest >= selector[e].latest
             /\ selector'[e].active = selector[e].active
  <2>1. \A s \in Selectors : /\ [s EXCEPT !.latest = id].latest = id
                             /\ [s EXCEPT !.latest = id].active = s.active
    BY Zenon DEF Selectors
  <2>2. selector'[e] = IF e = x THEN [selector[x] EXCEPT !.latest = id]
                                ELSE selector[e]
    BY <1>1, <1>3, Zenon
  <2> QED
    BY <1>1, <1>2, <1>3, <2>1, <2>2
<1>4. ASSUME NEW work \in BOOLEAN, CommitTable(work)
      PROVE  CommitsFrontier
  <2>1. "none" \in Extensions
    BY ExtensionsAssumption, Zenon
  <2>2. /\ selector["none"].latest + 1 \in Nat
        /\ selector["none"].latest + 1 >= selector["none"].latest
    BY <1>2, <2>1
  <2>3. /\ requested' = TRUE
        /\ selector' = [selector EXCEPT
             !["none"].latest = selector["none"].latest + 1]
    BY <1>4, Zenon DEF CommitTable, queue_publication_request
  <2> QED
    BY <1>3, <2>1, <2>2, <2>3, Zenon DEF CommitsFrontier
<1>5. ASSUME NEW id \in 1 .. MaxCheckpoint, CommitExtension(id)
      PROVE  CommitsFrontier
  <2>1. "es" \in Extensions /\ id \in Nat /\ requested' = TRUE
    BY <1>5 DEF CommitExtension, queue_publication_request
  <2>2. CASE id > selector["es"].latest
    <3>1. id >= selector["es"].latest
      BY <1>2, <2>1, <2>2
    <3> QED
      BY <1>3, <1>5, <2>1, <2>2, <3>1, Zenon DEF CommitExtension, CommitsFrontier
  <2>3. CASE ~(id > selector["es"].latest)
    BY <1>2, <1>5, <2>1, <2>3 DEF CommitExtension, CommitsFrontier
  <2> QED
    BY <2>2, <2>3, Zenon
<1> QED
  BY <1>4, <1>5, Zenon DEF Commit

\* The updater publishes.
LEMMA UpdateFrontierStep ==
  ASSUME CutoverInv, update_all_checkpoints
  PROVE  PublishesFrontier
<1>1. selector \in [Extensions -> Selectors] /\ leases \in SUBSET Nodes
  BY Zenon DEF CutoverInv, TypeOK
<1>2. ASSUME NEW e \in Extensions
      PROVE  PublishesSelector(e)
  <2>1. /\ selector[e] \in Selectors
        /\ selector'[e] = promote_active_checkpoint_if_ready(
             advance_target_checkpoint(selector[e], leases), e, leases)
    BY <1>1, Zenon DEF update_all_checkpoints
  <2>2. /\ selector'[e].latest = selector[e].latest
        /\ selector'[e].active # selector[e].active =>
             /\ selector'[e].active = selector[e].latest
             /\ selector[e].latest # None
             /\ RequiredNodesActivated(selector'[e])
             /\ selector'[e].view.required \subseteq leases \/ leases = {}
    BY <1>1, <2>1, UpdateStep
  <2> QED
    BY <2>2, Zenon DEF PublishesSelector
<1> QED
  BY <1>2, Zenon DEF PublishesFrontier, update_all_checkpoints

\* Every other step keeps the frontiers.
LEMMA OtherFrontierStep ==
  ASSUME CutoverInv, [Next]_vars, ~update_all_checkpoints, ~Commit
  PROVE  KeepsFrontiers
<1>1. selector \in [Extensions -> Selectors] /\ leases \in SUBSET Nodes
  BY Zenon DEF CutoverInv, TypeOK
<1>2. ASSUME NEW e \in Extensions, NEW r, r.latest = selector[e].latest,
             r.active = selector[e].active, requested' = requested,
             selector' = [selector EXCEPT ![e] = r]
      PROVE  KeepsFrontiers
  BY <1>1, <1>2, Zenon DEF KeepsFrontiers
<1>3. ASSUME NEW n \in Nodes, heartbeat_serving_node(n) \/ LeaseExpires(n)
      PROVE  KeepsFrontiers
  BY <1>3, Zenon DEF heartbeat_serving_node, LeaseExpires, KeepsFrontiers
<1>4. ASSUME NEW e \in Extensions, requested' = requested,
             selector' = [selector EXCEPT ![e] = CutoverStateRead(@, leases)]
      PROVE  KeepsFrontiers
  <2> DEFINE r == CutoverStateRead(selector[e], leases)
  <2>1. r.latest = selector[e].latest /\ r.active = selector[e].active
    BY <1>1, ReadStep, Zenon
  <2>2. selector' = [selector EXCEPT ![e] = r]
    BY <1>4, Zenon
  <2> HIDE DEF r
  <2> QED
    BY <1>2, <1>4, <2>1, <2>2, Zenon
<1>5. ASSUME NEW n \in Nodes, NEW e \in Extensions,
             get_checkpoint_cutover_state(n, e)
      PROVE  KeepsFrontiers
  BY <1>4, <1>5, Zenon DEF get_checkpoint_cutover_state
<1>6. ASSUME NEW n \in Nodes, NEW t \in tickets[n],
             record_serving_node_activation(n, t)
      PROVE  KeepsFrontiers
  <2> DEFINE acks == [selector[t.extension].activations EXCEPT
                        ![n] = [epoch |-> t.epoch, checkpoint |-> t.checkpoint]]
             r == [selector[t.extension] EXCEPT !.activations = acks]
  <2>1. t.extension \in Extensions
    BY DEF CutoverInv, TypeOK, Tickets
  <2>2. selector' = [selector EXCEPT ![t.extension] = r] /\ requested' = requested
    BY <1>1, <1>6, <2>1, Zenon DEF record_serving_node_activation
  <2> HIDE DEF acks
  <2>3. /\ r.latest = selector[t.extension].latest
        /\ r.active = selector[t.extension].active
    BY <1>1, <2>1, Zenon DEF Selectors
  <2> HIDE DEF r
  <2> QED
    BY <1>2, <2>1, <2>2, <2>3, Zenon
<1>7. ASSUME NEW n \in Nodes, NEW t \in tickets[n], NEW c \in ArtifactClasses,
             record_artifact_readiness(t, c)
      PROVE  KeepsFrontiers
  <2> DEFINE ready == [selector[t.extension].readiness EXCEPT ![c] = t.checkpoint]
             r == [selector[t.extension] EXCEPT !.readiness = ready]
  <2>1. t.extension \in Extensions
    BY DEF CutoverInv, TypeOK, Tickets
  <2>2. selector' = [selector EXCEPT ![t.extension] = r] /\ requested' = requested
    BY <1>1, <1>7, <2>1, Zenon DEF record_artifact_readiness
  <2> HIDE DEF ready
  <2>3. /\ r.latest = selector[t.extension].latest
        /\ r.active = selector[t.extension].active
    BY <1>1, <2>1, Zenon DEF Selectors
  <2> HIDE DEF r
  <2> QED
    BY <1>2, <2>1, <2>2, <2>3, Zenon
<1>8. ASSUME NEW e \in Extensions, NEW target \in 1 .. MaxCheckpoint,
             plan_checkpoint_cutover(e, target)
      PROVE  KeepsFrontiers
  <2> DEFINE r == capture_cutover_membership_for_target(
                    [selector[e] EXCEPT !.planned = target], target, leases)
  <2>1. r.latest = selector[e].latest /\ r.active = selector[e].active
    BY <1>1, PlanStep
  <2>2. selector' = [selector EXCEPT ![e] = r] /\ requested' = requested
    BY <1>8, Zenon DEF plan_checkpoint_cutover
  <2> HIDE DEF r
  <2> QED
    BY <1>2, <2>1, <2>2, Zenon
<1>9. ASSUME NEW e \in Extensions, get_read_only_coordination_state(e)
      PROVE  KeepsFrontiers
  BY <1>4, <1>9, Zenon DEF get_read_only_coordination_state
<1>10. CASE UNCHANGED vars
  BY <1>10, Zenon DEF vars, KeepsFrontiers
<1> QED
  BY <1>3, <1>5, <1>6, <1>7, <1>8, <1>9, <1>10, Zenon DEF Next, NodeStep, Acknowledge

\* To the frontiers every step is a commit, a publication or nothing.
LEMMA NextFrontierStep ==
  ASSUME CutoverInv, [Next]_vars
  PROVE  KeepsFrontiers \/ CommitsFrontier \/ PublishesFrontier
BY CommitFrontierStep, UpdateFrontierStep, OtherFrontierStep, Zenon

----------------------------------------------------------------------------
(* The inductive invariant of the frontiers. *)

FrontierInv ==
  /\ PublicationNotLost
  /\ \A e \in Extensions : selector[e].active <= selector[e].latest

\* The frontier invariant is inductive relative to the epoch invariant.
LEMMA NextFrontierInv ==
  CutoverInv /\ CutoverInv' /\ FrontierInv /\ [Next]_vars => FrontierInv'
<1> SUFFICES ASSUME CutoverInv, CutoverInv', FrontierInv, [Next]_vars
             PROVE  FrontierInv'
  OBVIOUS
<1>1. \A e \in Extensions :
        /\ selector[e].latest \in Nat /\ selector[e].active \in Nat
        /\ selector'[e].latest \in Nat /\ selector'[e].active \in Nat
  BY Zenon DEF CutoverInv, TypeOK, Selectors
<1>2. CASE KeepsFrontiers
  BY <1>1, <1>2 DEF FrontierInv, KeepsFrontiers, PublicationNotLost,
                    published_checkpoint_needs_activation
<1>3. CASE CommitsFrontier
  BY <1>1, <1>3 DEF FrontierInv, CommitsFrontier, PublicationNotLost
<1>4. CASE PublishesFrontier
  <2>1. PublicationNotLost'
    BY <1>4 DEF PublishesFrontier, PublicationNotLost,
                checkpoint_publication_still_pending
  <2>2. \A e \in Extensions : selector'[e].active <= selector'[e].latest
    BY <1>1, <1>4 DEF FrontierInv, PublishesFrontier, PublishesSelector
  <2> QED
    BY <2>1, <2>2, Zenon DEF FrontierInv
<1> QED
  BY <1>2, <1>3, <1>4, NextFrontierStep, Zenon

\* The frontier invariant holds in every reachable state.
THEOREM FrontierInvariant == Spec => []FrontierInv
<1>1. Init => FrontierInv
  BY DEF Init, FrontierInv, PublicationNotLost, None,
         published_checkpoint_needs_activation
<1> QED
  BY <1>1, NextFrontierInv, CutoverInvariant, PTL DEF Spec

\* update_all_checkpoints never drops the publication request of a table that
\* still has a committed checkpoint to activate.
THEOREM PublicationsAreNotLost == Spec => []PublicationNotLost
<1>1. FrontierInv => PublicationNotLost
  BY Zenon DEF FrontierInv
<1> QED
  BY <1>1, FrontierInvariant, PTL

\* promote_active_checkpoint_if_ready is the only way active moves, and it
\* never moves back, whatever cutovers were planned.
THEOREM ActiveIsMonotone == Spec => ActiveNeverRegresses
<1>1. ASSUME CutoverInv, CutoverInv', FrontierInv, [Next]_vars
      PROVE  [\A e \in Extensions : selector'[e].active >= selector[e].active]_vars
  <2>1. \A e \in Extensions :
          /\ selector[e].latest \in Nat /\ selector[e].active \in Nat
          /\ selector'[e].active \in Nat
    BY <1>1, Zenon DEF CutoverInv, TypeOK, Selectors
  <2>2. KeepsFrontiers \/ CommitsFrontier \/ PublishesFrontier
    BY <1>1, NextFrontierStep, Zenon
  <2> QED
    BY <1>1, <2>1, <2>2 DEF FrontierInv, KeepsFrontiers, CommitsFrontier,
                            PublishesFrontier, PublishesSelector
<1> QED
  BY <1>1, CutoverInvariant, FrontierInvariant, PTL
     DEF Spec, ActiveNeverRegresses

\* Active moves only to the latest checkpoint, under a non-empty membership of
\* live nodes (or with no node live at all) each of which was told this very
\* checkpoint under the view's epoch.
THEOREM PromotionsAreAcknowledged == Spec => PromotionIsAcknowledged
<1> DEFINE Acknowledged ==
             \A e \in Extensions :
               selector'[e].active # selector[e].active =>
                 LET view == selector'[e].view
                 IN /\ selector'[e].active = selector[e].latest
                    /\ view.required # {}
                    /\ view.required \subseteq leases \/ leases = {}
                    /\ \A n \in view.required :
                         CutoverTicket(e, selector'[e]) \in tickets[n]
<1>1. ASSUME CutoverInv, CutoverInv', [Next]_vars
      PROVE  [Acknowledged]_vars
  <2> SUFFICES ASSUME NEW e \in Extensions,
                      selector'[e].active # selector[e].active
               PROVE  /\ selector'[e].active = selector[e].latest
                      /\ selector'[e].view.required # {}
                      /\ \/ selector'[e].view.required \subseteq leases
                         \/ leases = {}
                      /\ \A n \in selector'[e].view.required :
                           CutoverTicket(e, selector'[e]) \in tickets[n]
    OBVIOUS
  <2>1. PublishesFrontier /\ UNCHANGED tickets
    <3>1. CASE update_all_checkpoints
      BY <1>1, <3>1, UpdateFrontierStep, Zenon DEF update_all_checkpoints
    <3>2. CASE Commit
      BY <1>1, <3>2, CommitFrontierStep, Zenon DEF CommitsFrontier
    <3>3. CASE ~update_all_checkpoints /\ ~Commit
      BY <1>1, <3>3, OtherFrontierStep, Zenon DEF KeepsFrontiers
    <3> QED
      BY <3>1, <3>2, <3>3, Zenon
  <2>2. /\ selector'[e].active = selector[e].latest
        /\ selector'[e].latest = selector[e].latest
        /\ selector[e].latest # None
        /\ RequiredNodesActivated(selector'[e])
        /\ selector'[e].view.required \subseteq leases \/ leases = {}
    BY <2>1, Zenon DEF PublishesFrontier, PublishesSelector
  <2>3. ASSUME NEW n \in selector'[e].view.required
        PROVE  CutoverTicket(e, selector'[e]) \in tickets[n]
    <3>1. selector'[e] \in Selectors /\ n \in Nodes
      BY <1>1, Zenon DEF CutoverInv, TypeOK, Selectors, Views
    <3>2. selector'[e].activations[n] = [epoch |-> selector'[e].view.epoch,
                                         checkpoint |-> selector'[e].latest]
      BY <2>2, Zenon DEF RequiredNodesActivated
    <3>3. selector'[e].activations[n] # NoAck
      BY <2>2, <3>2 DEF NoAck
    <3>4. [extension |-> e, epoch |-> selector'[e].activations[n].epoch,
           checkpoint |-> selector'[e].activations[n].checkpoint] \in tickets[n]
      BY <1>1, <2>1, <3>1, <3>3, Zenon DEF CutoverInv, TicketsMatchViews
    <3> QED
      BY <3>2, <3>4 DEF CutoverTicket
  <2> QED
    BY <2>2, <2>3, Zenon DEF RequiredNodesActivated
<1> QED
  BY <1>1, CutoverInvariant, PTL DEF Spec, PromotionIsAcknowledged

\* The cutover protocol implements PublishedFrontier: seen through the
\* committed and active ids alone, every step is a commit that moves forward, a
\* publication of committed checkpoints, or nothing.
THEOREM CutoverImplementsFrontier == Spec => ImplementsFrontier
<1>1. Init => Frontier!Init
  BY DEF Init, Frontier!Init, None
<1>2. ASSUME CutoverInv, CutoverInv', [Next]_vars
      PROVE  [Frontier!Next]_(Frontier!frontiers)
  <2>1. CASE KeepsFrontiers
    BY <2>1, Zenon DEF KeepsFrontiers, Frontier!frontiers
  <2>2. CASE CommitsFrontier
    <3>1. \A e \in Extensions : selector'[e].latest \in Nat
      BY <1>2, Zenon DEF CutoverInv, TypeOK, Selectors
    <3>2. Frontier!Commit
      BY <2>2, <3>1, Zenon DEF CommitsFrontier, Frontier!Commit
    <3> QED
      BY <3>2, Zenon DEF Frontier!Next
  <2>3. CASE PublishesFrontier
    <3> DEFINE published == {e \in Extensions :
                               selector'[e].active # selector[e].active}
    <3>1. Frontier!Publish(published)
      BY <2>3, Zenon DEF PublishesFrontier, PublishesSelector, Frontier!Publish
    <3>2. published \in SUBSET Extensions
      OBVIOUS
    <3> HIDE DEF published
    <3>3. \E S \in SUBSET Extensions : Frontier!Publish(S)
      BY <3>1, <3>2, Zenon DEF Frontier!Publish
    <3> QED
      BY <3>3, Zenon DEF Frontier!Next
  <2> QED
    BY <1>2, <2>1, <2>2, <2>3, NextFrontierStep, Zenon
<1> QED
  BY <1>1, <1>2, CutoverInvariant, PTL DEF Spec, ImplementsFrontier, Frontier!Spec

----------------------------------------------------------------------------
(* The serving nodes do to the control plane what Cutover allows, for     *)
(* every set of nodes and every bound: their specification implements      *)
(* Cutover's, so the theorems about Cutover hold of a cluster of these     *)
(* nodes.  And a checkpoint becomes active only after it was prefetched.   *)
(*                                                                         *)
(* NodesInv follows a checkpoint through a node: what the prefetch loop    *)
(* holds as loaded was loaded by every peer; a message that reports a      *)
(* target belongs to such a loop; what it was told is one of the node's    *)
(* tickets; and every acknowledgement on record names a checkpoint that    *)
(* was loaded.                                                             *)

LoopSteps == {"asleep", "chosen", "loaded", "panicked"}
ActorSteps == {"free", "committed", "targeted", "told"}

LoopState == [step : LoopSteps, checkpoint : Nat]
ActorState == [step : ActorSteps, ticket : Acks, left : SUBSET ArtifactClasses]

NodesTyped ==
  /\ next_target \in [Nodes -> Nat]
  /\ loaded \in [Nodes -> SUBSET Nat]
  /\ loop \in [Nodes -> LoopState]
  /\ actor \in [Nodes -> ActorState]

Everywhere(id) == \A m \in Nodes : id \in loaded[m]

\* What is known of the tasks of one node, in terms of its loop, its message in
\* service and its tickets.
NodeSound(n) ==
  /\ Prefetching(n, "loaded") => Everywhere(loop[n].checkpoint)
  /\ At(n, "targeted") \/ At(n, "told") => Prefetching(n, "loaded")
  /\ At(n, "told") => /\ actor[n].ticket.checkpoint = loop[n].checkpoint
                      /\ Ticket(n) \in tickets[n]

AcksAreLoaded ==
  \A n \in Nodes :
    \/ selector["none"].activations[n] = NoAck
    \/ Everywhere(selector["none"].activations[n].checkpoint)

NodesInv ==
  /\ CutoverInv
  /\ NodesTyped
  /\ \A n \in Nodes : NodeSound(n)
  /\ AcksAreLoaded

\* What a node acknowledges is one of its tickets, so each of its steps is one
\* that Cutover allows.
LEMMA NodesStepIsCutover ==
  ASSUME NodesInv, [NodesNext]_nodeVars
  PROVE  [Next]_vars
<1>1. ASSUME NEW n \in Nodes, WriteStep(n)
      PROVE  Next
  BY <1>1 DEF WriteStep, speedboat_commit, iceberg_commit, compaction_commit, CommitsTable,
              extension_commit, Next, Commit
<1>2. ASSUME NEW n \in Nodes, TaskStep(n)
      PROVE  [Next]_vars
  <2>1. CASE update_prefetch_checkpoints(n) \/ perform_prefetch(n)
    BY <2>1, Zenon DEF update_prefetch_checkpoints, perform_prefetch
  <2>2. CASE get_next_prefetch_checkpoints(n) \/ set_target_checkpoints(n)
    <3>1. heartbeat_serving_node(n)
      BY <2>2 DEF get_next_prefetch_checkpoints, set_target_checkpoints, Heartbeat,
                  heartbeat_serving_node
    <3> QED
      BY <3>1, Zenon DEF Next, NodeStep
  <2>3. CASE ReadCutoverState(n)
    <3>1. get_checkpoint_cutover_state(n, "none")
      BY <2>3, Zenon DEF ReadCutoverState
    <3> QED
      BY <3>1, ExtensionsAssumption, Zenon DEF Next, NodeStep
  <2>4. ASSUME NEW c \in ArtifactClasses, RecordReadiness(n, c)
        PROVE  Next
    <3>1. Ticket(n) \in tickets[n] /\ record_artifact_readiness(Ticket(n), c)
      BY <2>4, Zenon DEF RecordReadiness, NodesInv, NodeSound
    <3> QED
      BY <3>1, Zenon DEF Next, NodeStep, Acknowledge
  <2>5. CASE RecordActivation(n)
    <3>1. Ticket(n) \in tickets[n] /\ record_serving_node_activation(n, Ticket(n))
      BY <2>5, Zenon DEF RecordActivation, NodesInv, NodeSound
    <3> QED
      BY <3>1, Zenon DEF Next, NodeStep, Acknowledge
  <2> QED
    BY <1>2, <2>1, <2>2, <2>3, <2>4, <2>5, Zenon DEF TaskStep
<1>3. ASSUME NEW n \in Nodes, FailStep(n)
      PROVE  UNCHANGED vars
  BY <1>3, Zenon DEF FailStep, CallFails, PrefetchFails, PollPanics, RestartNode
<1>4. ASSUME NEW n \in Nodes, LeaseExpires(n)
      PROVE  Next
  BY <1>4, Zenon DEF Next, NodeStep
<1> QED
  BY <1>1, <1>2, <1>3, <1>4, Zenon DEF NodesNext, Next, nodeVars

\* What a step of one node keeps of the others, as long as loads and tickets are
\* only added.
LEMMA OtherNodesStay ==
  ASSUME NodesInv, NEW n \in Nodes,
         \A k \in Nodes \ {n} : loop'[k] = loop[k] /\ actor'[k] = actor[k],
         \A k \in Nodes : loaded[k] \subseteq loaded'[k] /\ tickets[k] \subseteq tickets'[k],
         NodeSound(n)'
  PROVE  \A k \in Nodes : NodeSound(k)'
<1> SUFFICES ASSUME NEW k \in Nodes \ {n} PROVE NodeSound(k)'
  OBVIOUS
<1>1. NodeSound(k) /\ loop'[k] = loop[k] /\ actor'[k] = actor[k]
  BY Zenon DEF NodesInv
<1>2. Ticket(k)' = Ticket(k)
  BY <1>1, Zenon DEF Ticket
<1>3. Everywhere(loop[k].checkpoint) => Everywhere(loop[k].checkpoint)'
  BY <1>1, Zenon DEF Everywhere
<1> QED
  BY <1>1, <1>2, <1>3, Zenon DEF NodeSound, At, Prefetching

\* Acknowledgements that are kept or cleared still name loaded checkpoints.
LEMMA AcksStay ==
  ASSUME NodesInv,
         \A k \in Nodes : loaded[k] \subseteq loaded'[k],
         \A k \in Nodes : \/ selector'["none"].activations[k] = selector["none"].activations[k]
                          \/ selector'["none"].activations[k] = NoAck
  PROVE  AcksAreLoaded'
BY Zenon DEF NodesInv, AcksAreLoaded, Everywhere

\* What a step shows of the invariant besides Cutover's own.
LocalInv == NodesTyped /\ (\A n \in Nodes : NodeSound(n)) /\ AcksAreLoaded

\* The states a task rests in are well typed.
LEMMA RestingStates == Asleep \in LoopState /\ Free \in ActorState
BY Zenon DEF Asleep, Free, LoopState, ActorState, LoopSteps, ActorSteps, None, NoAck, Acks

\* A node's loop and its message in service, where their new states are typed.
LEMMA NodeTyped ==
  ASSUME NodesInv, NEW n \in Nodes,
         NEW l \in LoopState, NEW a \in ActorState,
         loop' = [loop EXCEPT ![n] = l], actor' = [actor EXCEPT ![n] = a],
         next_target' \in [Nodes -> Nat], loaded' \in [Nodes -> SUBSET Nat]
  PROVE  /\ NodesTyped'
         /\ loop'[n] = l /\ actor'[n] = a
         /\ \A k \in Nodes \ {n} : loop'[k] = loop[k] /\ actor'[k] = actor[k]
BY Zenon DEF NodesInv, NodesTyped, LoopState, ActorState

\* A step of a node that reports nothing, and leaves it with no message that
\* reports, or with one that belongs to a loop that has loaded its checkpoint.
LEMMA QuietNodeStep ==
  ASSUME NodesInv, NEW n \in Nodes,
         NEW l \in LoopState, NEW a \in ActorState,
         loop' = [loop EXCEPT ![n] = l], actor' = [actor EXCEPT ![n] = a],
         next_target' \in [Nodes -> Nat], loaded' \in [Nodes -> SUBSET Nat],
         \A k \in Nodes : loaded[k] \subseteq loaded'[k] /\ tickets[k] \subseteq tickets'[k],
         l.step = "loaded" => \A m \in Nodes : l.checkpoint \in loaded'[m],
         a.step \in {"targeted", "told"} => l.step = "loaded",
         a.step = "told" =>
           /\ a.ticket.checkpoint = l.checkpoint
           /\ [extension |-> "none", epoch |-> a.ticket.epoch, checkpoint |-> a.ticket.checkpoint]
                \in tickets'[n],
         AcksAreLoaded'
  PROVE  LocalInv'
<1>1. /\ NodesTyped'
      /\ loop'[n] = l /\ actor'[n] = a
      /\ \A k \in Nodes \ {n} : loop'[k] = loop[k] /\ actor'[k] = actor[k]
  BY NodeTyped, Zenon
<1>2. NodeSound(n)'
  BY <1>1, Zenon DEF NodeSound, At, Prefetching, Everywhere, Ticket
<1>3. \A k \in Nodes : NodeSound(k)'
  BY <1>1, <1>2, OtherNodesStay, Zenon
<1> QED
  BY <1>1, <1>3, Zenon DEF LocalInv

\* What is used of the state before a step of node n.
LEMMA NodeFacts ==
  ASSUME NodesInv, NEW n \in Nodes
  PROVE  /\ next_target \in [Nodes -> Nat] /\ loaded \in [Nodes -> SUBSET Nat]
         /\ loop[n] \in LoopState /\ actor[n] \in ActorState
         /\ loop = [loop EXCEPT ![n] = loop[n]] /\ actor = [actor EXCEPT ![n] = actor[n]]
         /\ NodeSound(n)
         /\ selector \in [Extensions -> Selectors] /\ selector["none"] \in Selectors
         /\ leases \in SUBSET Nodes
         /\ "none" \in Extensions
BY ExtensionsAssumption, Zenon DEF NodesInv, NodesTyped, CutoverInv, TypeOK

\* A write that was accepted: the message has still to read the target.
LEMMA WriteKeeps ==
  ASSUME NodesInv, NEW n \in Nodes, WriteStep(n)
  PROVE  LocalInv'
<1>1. /\ At(n, "free")
      /\ actor' = [actor EXCEPT ![n].step = "committed"]
      /\ UNCHANGED <<next_target, loaded, loop, tickets>>
      /\ (\E work \in BOOLEAN : CommitTable(work)) \/ (\E id \in 1 .. MaxCheckpoint : CommitExtension(id))
  BY DEF WriteStep, speedboat_commit, iceberg_commit, compaction_commit, CommitsTable,
         extension_commit, CommitTable, CommitExtension
<1>2. selector'["none"].activations = selector["none"].activations
  BY <1>1, NodeFacts, Zenon DEF CommitTable, CommitExtension, Selectors
<1>3. AcksAreLoaded'
  BY <1>1, <1>2, AcksStay, Zenon
<1> DEFINE a == [actor[n] EXCEPT !.step = "committed"]
<1>4. a \in ActorState /\ a.step = "committed" /\ actor' = [actor EXCEPT ![n] = a]
  BY <1>1, NodeFacts, Zenon DEF ActorState, ActorSteps
<1>5. loop[n].step = "loaded" => \A m \in Nodes : loop[n].checkpoint \in loaded[m]
  BY NodeFacts, Zenon DEF NodeSound, Prefetching, Everywhere
<1> HIDE DEF a
<1>6. /\ loop' = [loop EXCEPT ![n] = loop[n]] /\ loop[n] \in LoopState
      /\ next_target' \in [Nodes -> Nat] /\ loaded' \in [Nodes -> SUBSET Nat]
      /\ \A k \in Nodes : loaded[k] \subseteq loaded'[k] /\ tickets[k] \subseteq tickets'[k]
      /\ loop[n].step = "loaded" => \A m \in Nodes : loop[n].checkpoint \in loaded'[m]
  BY <1>1, <1>5, NodeFacts, Zenon
<1>7. a.step \notin {"targeted", "told"}
  BY <1>4, Zenon
<1> QED
  BY <1>3, <1>4, <1>6, <1>7, QuietNodeStep, Zenon

\* A failure drops the message in service and, unless the message was a write,
\* what the loop had in hand.
LEMMA FailureKeeps ==
  ASSUME NodesInv, NEW n \in Nodes, FailStep(n)
  PROVE  LocalInv'
<1>1. UNCHANGED <<vars, loaded>>
  BY Zenon DEF FailStep, CallFails, PrefetchFails, PollPanics, RestartNode
<1>2. AcksAreLoaded'
  BY <1>1, AcksStay, Zenon DEF vars
<1>3. Asleep.step = "asleep" /\ Free.step = "free"
  BY Zenon DEF Asleep, Free
<1>4. loop[n].step = "loaded" => \A m \in Nodes : loop[n].checkpoint \in loaded[m]
  BY NodeFacts, Zenon DEF NodeSound, Prefetching, Everywhere
<1>5. CASE CallFails(n)
  <2> DEFINE l == IF At(n, "committed") THEN loop[n] ELSE Asleep
  <2>1. l \in LoopState /\ (l.step = "loaded" => \A m \in Nodes : l.checkpoint \in loaded[m])
    BY <1>3, <1>4, NodeFacts, RestingStates, Zenon
  <2>2. /\ loop' = [loop EXCEPT ![n] = l] /\ actor' = [actor EXCEPT ![n] = Free]
        /\ UNCHANGED next_target
    BY <1>5, Zenon DEF CallFails
  <2> HIDE DEF l
  <2> QED
    BY <1>1, <1>2, <1>3, <2>1, <2>2, NodeFacts, RestingStates, QuietNodeStep, Zenon DEF vars
<1>6. CASE PrefetchFails(n)
  <2>1. /\ loop' = [loop EXCEPT ![n] = Asleep] /\ actor' = actor
        /\ UNCHANGED next_target
        /\ Prefetching(n, "chosen")
    BY <1>6, Zenon DEF PrefetchFails
  <2>2. actor[n].step \notin {"targeted", "told"}
    BY <2>1, NodeFacts, Zenon DEF NodeSound, At, Prefetching
  <2> QED
    BY <1>1, <1>2, <1>3, <2>1, <2>2, NodeFacts, RestingStates, QuietNodeStep, Zenon DEF vars
<1>7. CASE PollPanics(n)
  <2> DEFINE l == [loop[n] EXCEPT !.step = "panicked"]
  <2>1. /\ loop' = [loop EXCEPT ![n] = l] /\ actor' = actor
        /\ UNCHANGED next_target
        /\ At(n, "free")
    BY <1>7, Zenon DEF PollPanics
  <2>2. l \in LoopState /\ l.step = "panicked"
    BY NodeFacts, Zenon DEF LoopState, LoopSteps
  <2>3. actor[n].step \notin {"targeted", "told"}
    BY <2>1, Zenon DEF At
  <2> HIDE DEF l
  <2> QED
    BY <1>1, <1>2, <2>1, <2>2, <2>3, NodeFacts, QuietNodeStep, Zenon DEF vars
<1>8. CASE RestartNode(n)
  <2>1. /\ loop' = [loop EXCEPT ![n] = Asleep] /\ actor' = [actor EXCEPT ![n] = Free]
        /\ next_target' = [next_target EXCEPT ![n] = None]
    BY <1>8, Zenon DEF RestartNode
  <2>2. next_target' \in [Nodes -> Nat]
    BY <2>1, NodeFacts, Zenon DEF None
  <2> QED
    BY <1>1, <1>2, <1>3, <2>1, <2>2, NodeFacts, RestingStates, QuietNodeStep, Zenon DEF vars
<1> QED
  BY <1>5, <1>6, <1>7, <1>8, Zenon DEF FailStep

\* The prefetch loop and the read of the target: nothing is reported yet, and a
\* checkpoint counts as loaded when every peer was asked to load it.
LEMMA PrefetchKeeps ==
  ASSUME NodesInv, NEW n \in Nodes,
         \/ update_prefetch_checkpoints(n) \/ get_next_prefetch_checkpoints(n)
         \/ perform_prefetch(n) \/ set_target_checkpoints(n)
  PROVE  LocalInv'
<1>1. UNCHANGED <<selector, tickets>>
  BY DEF update_prefetch_checkpoints, get_next_prefetch_checkpoints, perform_prefetch,
         set_target_checkpoints, vars
<1>2. Asleep.step = "asleep" /\ Free.step = "free"
  BY Zenon DEF Asleep, Free
<1>3. loop[n].step = "loaded" => \A m \in Nodes : loop[n].checkpoint \in loaded[m]
  BY NodeFacts, Zenon DEF NodeSound, Prefetching, Everywhere
<1>4. CASE update_prefetch_checkpoints(n)
  <2>1. /\ next_target' = [next_target EXCEPT ![n] = selector["none"].latest]
        /\ actor' = [actor EXCEPT ![n] = Free]
        /\ UNCHANGED <<loaded, loop>>
    BY <1>4, Zenon DEF update_prefetch_checkpoints, get_remote_latest_target_checkpoint
  <2>2. next_target' \in [Nodes -> Nat]
    BY <2>1, NodeFacts, Zenon DEF Selectors
  <2>3. AcksAreLoaded'
    BY <1>1, <2>1, AcksStay, Zenon
  <2>4. /\ loop' = [loop EXCEPT ![n] = loop[n]] /\ loop[n] \in LoopState
        /\ loaded' \in [Nodes -> SUBSET Nat]
        /\ \A k \in Nodes : loaded[k] \subseteq loaded'[k] /\ tickets[k] \subseteq tickets'[k]
        /\ loop[n].step = "loaded" => \A m \in Nodes : loop[n].checkpoint \in loaded'[m]
    BY <1>1, <1>3, <2>1, NodeFacts, Zenon
  <2> QED
    BY <1>2, <2>1, <2>2, <2>3, <2>4, RestingStates, QuietNodeStep, Zenon
<1>5. CASE get_next_prefetch_checkpoints(n)
  <2> DEFINE chosen == [step |-> "chosen", checkpoint |-> next_target[n]]
             l == IF NextPrefetch(n) THEN chosen ELSE Asleep
  <2>1. /\ loop' = [loop EXCEPT ![n] = l]
        /\ UNCHANGED <<next_target, loaded, actor>>
        /\ At(n, "free")
    BY <1>5, Zenon DEF get_next_prefetch_checkpoints
  <2>2. l \in LoopState /\ l.step # "loaded"
    BY <1>2, NodeFacts, RestingStates, Zenon DEF LoopState, LoopSteps
  <2>3. AcksAreLoaded'
    BY <1>1, <2>1, AcksStay, Zenon
  <2> HIDE DEF l
  <2>4. /\ actor' = [actor EXCEPT ![n] = actor[n]] /\ actor[n] \in ActorState
        /\ actor[n].step \notin {"targeted", "told"}
    BY <2>1, NodeFacts, Zenon DEF At
  <2>5. /\ next_target' \in [Nodes -> Nat] /\ loaded' \in [Nodes -> SUBSET Nat]
        /\ \A k \in Nodes : loaded[k] \subseteq loaded'[k] /\ tickets[k] \subseteq tickets'[k]
    BY <1>1, <2>1, NodeFacts, Zenon
  <2> QED
    BY <2>1, <2>2, <2>3, <2>4, <2>5, QuietNodeStep, Zenon
<1>6. CASE perform_prefetch(n)
  <2> DEFINE l == [loop[n] EXCEPT !.step = "loaded"]
  <2>1. /\ loop' = [loop EXCEPT ![n] = l]
        /\ loaded' = [m \in Nodes |-> loaded[m] \cup {loop[n].checkpoint}]
        /\ UNCHANGED <<next_target, actor>>
        /\ Prefetching(n, "chosen")
    BY <1>6, Zenon DEF perform_prefetch
  <2>2. l \in LoopState /\ l.step = "loaded" /\ l.checkpoint = loop[n].checkpoint
    BY NodeFacts, Zenon DEF LoopState, LoopSteps
  <2> HIDE DEF l
  <2>3. /\ loaded' \in [Nodes -> SUBSET Nat]
        /\ \A k \in Nodes : loaded[k] \subseteq loaded'[k] /\ l.checkpoint \in loaded'[k]
    BY <2>1, <2>2, NodeFacts, Zenon DEF LoopState
  <2>4. AcksAreLoaded'
    BY <1>1, <2>3, AcksStay, Zenon
  <2>5. /\ actor' = [actor EXCEPT ![n] = actor[n]] /\ actor[n] \in ActorState
        /\ actor[n].step \notin {"targeted", "told"}
    BY <2>1, NodeFacts, Zenon DEF NodeSound, At, Prefetching
  <2>6. next_target' \in [Nodes -> Nat] /\ \A k \in Nodes : tickets[k] \subseteq tickets'[k]
    BY <1>1, <2>1, NodeFacts, Zenon
  <2> QED
    BY <2>1, <2>2, <2>3, <2>4, <2>5, <2>6, QuietNodeStep, Zenon
<1>7. CASE set_target_checkpoints(n)
  <2> DEFINE a == [actor[n] EXCEPT !.step = "targeted"]
  <2>1. /\ actor' = [actor EXCEPT ![n] = a]
        /\ UNCHANGED <<next_target, loaded, loop>>
        /\ loop[n].step = "loaded"
    BY <1>7, Zenon DEF set_target_checkpoints, Prefetching
  <2>2. a \in ActorState /\ a.step = "targeted"
    BY NodeFacts, Zenon DEF ActorState, ActorSteps
  <2>3. AcksAreLoaded'
    BY <1>1, <2>1, AcksStay, Zenon
  <2> HIDE DEF a
  <2>4. /\ loop' = [loop EXCEPT ![n] = loop[n]] /\ loop[n] \in LoopState
        /\ next_target' \in [Nodes -> Nat] /\ loaded' \in [Nodes -> SUBSET Nat]
        /\ \A k \in Nodes : loaded[k] \subseteq loaded'[k] /\ tickets[k] \subseteq tickets'[k]
        /\ \A m \in Nodes : loop[n].checkpoint \in loaded'[m]
    BY <1>1, <1>3, <2>1, NodeFacts, Zenon
  <2> QED
    BY <2>1, <2>2, <2>3, <2>4, QuietNodeStep, Zenon
<1> QED
  BY <1>4, <1>5, <1>6, <1>7, Zenon

\* The node reads the cutover state: what it is told about the checkpoint it has
\* loaded is a ticket of its own; a target that moved on ends the round.
LEMMA ReadKeeps ==
  ASSUME NodesInv, NEW n \in Nodes, ReadCutoverState(n)
  PROVE  LocalInv'
<1> DEFINE s == selector["none"]
           r == CutoverStateRead(s, leases)
           id == loop[n].checkpoint
           told == [epoch |-> r.view.epoch, checkpoint |-> id]
           a == [step |-> "told", ticket |-> told, left |-> required_artifact_classes("none")]
<1>1. /\ At(n, "targeted")
      /\ selector' = [selector EXCEPT !["none"] = r]
      /\ tickets' = [tickets EXCEPT ![n] = @ \cup {CutoverTicket("none", selector'["none"])}]
      /\ UNCHANGED <<next_target, loaded>>
  BY Zenon DEF ReadCutoverState, get_checkpoint_cutover_state
<1>2. s \in Selectors /\ leases \in SUBSET Nodes /\ selector'["none"] = r
  BY <1>1, NodeFacts, Zenon
<1>3. /\ r \in Selectors /\ r.latest = s.latest
      /\ r.activations = s.activations \/ r.activations = NoActivations
  BY <1>2, ReadStep, Zenon DEF SelectorStep
<1>4. r.view.epoch \in Nat
  BY <1>3, Zenon DEF Selectors, Views
<1>5. IF s.latest # id
      THEN actor' = [actor EXCEPT ![n] = Free] /\ loop' = [loop EXCEPT ![n] = Asleep]
      ELSE actor' = [actor EXCEPT ![n] = a] /\ loop' = loop
  BY <1>2, Zenon DEF ReadCutoverState, Finish
<1>6. Asleep.step = "asleep" /\ Free.step = "free"
  BY Zenon DEF Asleep, Free
<1>7. loop[n].step = "loaded" /\ \A m \in Nodes : id \in loaded[m]
  BY <1>1, NodeFacts, Zenon DEF NodeSound, At, Prefetching, Everywhere
<1>8. /\ tickets \in [Nodes -> SUBSET Tickets]
      /\ \A k \in Nodes : tickets[k] \subseteq tickets'[k]
      /\ CutoverTicket("none", r) \in tickets'[n]
  BY <1>1, <1>2, Zenon DEF NodesInv, CutoverInv, TypeOK
<1>9. AcksAreLoaded'
  BY <1>1, <1>2, <1>3, AcksStay, Zenon DEF NoActivations
<1>10. CASE s.latest # id
  BY <1>1, <1>5, <1>6, <1>8, <1>9, <1>10, NodeFacts, RestingStates, QuietNodeStep, ZenonT(30)
<1>11. CASE s.latest = id
  <2>1. id \in Nat
    BY NodeFacts, Zenon DEF LoopState
  <2>2. told \in Acks /\ told.checkpoint = id /\ told.epoch = r.view.epoch
    BY <1>4, <2>1, Zenon DEF Acks
  <2>3. required_artifact_classes("none") \subseteq ArtifactClasses
    BY NodeFacts, Zenon DEF ArtifactClasses
  <2>4. a \in ActorState /\ a.step = "told" /\ a.ticket = told
    BY <2>2, <2>3, Zenon DEF ActorState, ActorSteps
  <2>5. [extension |-> "none", epoch |-> told.epoch, checkpoint |-> told.checkpoint] \in tickets'[n]
    BY <1>3, <1>8, <1>11, <2>2, Zenon DEF CutoverTicket
  <2>6. actor' = [actor EXCEPT ![n] = a] /\ loop' = [loop EXCEPT ![n] = loop[n]]
    BY <1>5, <1>11, NodeFacts, Zenon
  <2>7. /\ loop[n] \in LoopState
        /\ next_target' \in [Nodes -> Nat] /\ loaded' \in [Nodes -> SUBSET Nat]
        /\ \A k \in Nodes : loaded[k] \subseteq loaded'[k]
        /\ \A m \in Nodes : loop[n].checkpoint \in loaded'[m]
    BY <1>1, <1>7, NodeFacts, Zenon
  <2>8. told.checkpoint = loop[n].checkpoint
    BY <2>2, Zenon
  <2> HIDE DEF a, told, id, s, r
  <2> QED
    BY <1>7, <1>8, <1>9, <2>4, <2>5, <2>6, <2>7, <2>8, QuietNodeStep, Zenon
<1> QED
  BY <1>10, <1>11, Zenon

\* The node reports: an acknowledgement carries the checkpoint the loop holds,
\* which every peer was asked to load.
LEMMA ReportKeeps ==
  ASSUME NodesInv, NEW n \in Nodes,
         RecordActivation(n) \/ \E c \in ArtifactClasses : RecordReadiness(n, c)
  PROVE  LocalInv'
<1>1. /\ At(n, "told")
      /\ UNCHANGED <<next_target, loaded, tickets>>
  BY DEF RecordActivation, RecordReadiness, record_serving_node_activation,
         record_artifact_readiness
<1>2. /\ loop[n].step = "loaded"
      /\ \A m \in Nodes : loop[n].checkpoint \in loaded[m]
      /\ actor[n].ticket.checkpoint = loop[n].checkpoint
      /\ Ticket(n) \in tickets[n]
  BY <1>1, NodeFacts, Zenon DEF NodeSound, At, Prefetching, Everywhere
<1>3. /\ next_target' \in [Nodes -> Nat] /\ loaded' \in [Nodes -> SUBSET Nat]
      /\ \A k \in Nodes : loaded[k] \subseteq loaded'[k] /\ tickets[k] \subseteq tickets'[k]
      /\ \A m \in Nodes : loop[n].checkpoint \in loaded'[m]
  BY <1>1, <1>2, NodeFacts, Zenon
<1>4. ASSUME NEW c \in ArtifactClasses, RecordReadiness(n, c)
      PROVE  LocalInv'
  <2> DEFINE a == [actor[n] EXCEPT !.left = @ \ {c}]
  <2>1. /\ actor' = [actor EXCEPT ![n] = a] /\ UNCHANGED loop
        /\ selector' = [selector EXCEPT !["none"].readiness[c] = Ticket(n).checkpoint]
    BY <1>4, Zenon DEF RecordReadiness, record_artifact_readiness, Ticket
  <2>2. selector'["none"].activations = selector["none"].activations
    BY <2>1, NodeFacts, Zenon DEF Selectors
  <2>3. AcksAreLoaded'
    BY <1>3, <2>2, AcksStay, Zenon
  <2>4. a \in ActorState /\ a.step = actor[n].step /\ a.ticket = actor[n].ticket
    BY NodeFacts, Zenon DEF ActorState
  <2>5. [extension |-> "none", epoch |-> a.ticket.epoch, checkpoint |-> a.ticket.checkpoint]
          \in tickets'[n]
    BY <1>1, <1>2, <2>4, Zenon DEF Ticket
  <2>6. loop' = [loop EXCEPT ![n] = loop[n]] /\ loop[n] \in LoopState
    BY <2>1, NodeFacts, Zenon
  <2> HIDE DEF a
  <2>7. a.ticket.checkpoint = loop[n].checkpoint
    BY <1>2, <2>4, Zenon
  <2> QED
    BY <1>2, <1>3, <2>1, <2>3, <2>4, <2>5, <2>6, <2>7, QuietNodeStep, Zenon
<1>5. CASE RecordActivation(n)
  <2> DEFINE ack == [epoch |-> actor[n].ticket.epoch, checkpoint |-> actor[n].ticket.checkpoint]
  <2>1. /\ actor' = [actor EXCEPT ![n] = Free] /\ loop' = [loop EXCEPT ![n] = Asleep]
        /\ selector' = [selector EXCEPT !["none"].activations[n] = ack]
    BY <1>5, Zenon DEF RecordActivation, record_serving_node_activation, Ticket, Finish
  <2>2. ack.checkpoint = loop[n].checkpoint
    BY <1>2, Zenon
  <2> HIDE DEF ack
  <2>3. \A k \in Nodes : selector'["none"].activations[k] =
                           IF k = n THEN ack ELSE selector["none"].activations[k]
    BY <2>1, NodeFacts, Zenon DEF Selectors
  <2>4. AcksAreLoaded'
    BY <1>1, <1>3, <2>2, <2>3, Zenon DEF NodesInv, AcksAreLoaded, Everywhere
  <2>5. Asleep.step = "asleep" /\ Free.step = "free"
    BY Zenon DEF Asleep, Free
  <2> QED
    BY <1>3, <2>1, <2>4, <2>5, RestingStates, QuietNodeStep, Zenon
<1> QED
  BY <1>4, <1>5, Zenon

\* The updater and an expiring lease leave the nodes alone; the updater keeps
\* the acknowledgements of a view or clears them.
LEMMA ControlKeeps ==
  ASSUME NodesInv, UNCHANGED local,
         update_all_checkpoints \/ \E n \in Nodes : LeaseExpires(n)
  PROVE  LocalInv'
<1>1. UNCHANGED <<next_target, loaded, loop, actor, tickets>>
  BY Zenon DEF local, update_all_checkpoints, LeaseExpires
<1>2. NodesTyped' /\ \A n \in Nodes : NodeSound(n)'
  BY <1>1, Zenon DEF NodesInv, NodesTyped, NodeSound, At, Prefetching, Everywhere, Ticket
<1>3. selector["none"] \in Selectors /\ leases \in SUBSET Nodes /\ "none" \in Extensions
  BY ExtensionsAssumption, Zenon DEF NodesInv, CutoverInv, TypeOK
<1>4. \/ selector'["none"].activations = selector["none"].activations
      \/ selector'["none"].activations = NoActivations
  <2>1. CASE update_all_checkpoints
    <3>1. selector'["none"] = promote_active_checkpoint_if_ready(
            advance_target_checkpoint(selector["none"], leases), "none", leases)
      BY <1>3, <2>1, Zenon DEF update_all_checkpoints
    <3>2. SelectorStep(selector["none"], selector'["none"])
      BY <1>3, <3>1, UpdateStep
    <3> QED
      BY <3>2, Zenon DEF SelectorStep
  <2>2. CASE \E n \in Nodes : LeaseExpires(n)
    BY <2>2, Zenon DEF LeaseExpires
  <2> QED
    BY <2>1, <2>2, Zenon
<1>5. AcksAreLoaded'
  BY <1>1, <1>4, AcksStay, Zenon DEF NoActivations
<1> QED
  BY <1>2, <1>5, Zenon DEF LocalInv

\* The nodes start idle, with nothing loaded and nothing acknowledged.
LEMMA NodesInvInit == NodesInit => NodesInv
<1> SUFFICES ASSUME NodesInit PROVE NodesInv
  OBVIOUS
<1>1. CutoverInv
  BY InitCutoverInv, Zenon DEF NodesInit
<1>2. NodesTyped
  BY RestingStates, Zenon DEF NodesInit, IdleNodes, NodesTyped, None
<1>3. \A n \in Nodes : NodeSound(n)
  BY Zenon DEF NodesInit, IdleNodes, NodeSound, At, Prefetching, Asleep, Free
<1>4. AcksAreLoaded
  BY ExtensionsAssumption, Zenon DEF NodesInit, Init, AcksAreLoaded, NoActivations
<1> QED
  BY <1>1, <1>2, <1>3, <1>4, Zenon DEF NodesInv

\* Every step of the nodes, of the updater and of the leases keeps NodesInv.
LEMMA NodesInvStep == NodesInv /\ [NodesNext]_nodeVars => NodesInv'
<1> SUFFICES ASSUME NodesInv, [NodesNext]_nodeVars PROVE NodesInv'
  OBVIOUS
<1>1. CutoverInv'
  BY NodesStepIsCutover, NextCutoverInv, Zenon DEF NodesInv
<1>2. CASE NodesNext
  <2>1. ASSUME NEW n \in Nodes, TaskStep(n)
        PROVE  LocalInv'
    BY <2>1, PrefetchKeeps, ReadKeeps, ReportKeeps, Zenon DEF TaskStep
  <2>2. LocalInv'
    BY <1>2, <2>1, WriteKeeps, FailureKeeps, ControlKeeps, Zenon DEF NodesNext
  <2> QED
    BY <1>1, <2>2, Zenon DEF NodesInv, LocalInv
<1>3. CASE UNCHANGED nodeVars
  <2>1. NodesTyped' /\ \A n \in Nodes : NodeSound(n)'
    BY <1>3 DEF nodeVars, local, vars, NodesInv, NodesTyped, NodeSound, At, Prefetching,
                Everywhere, Ticket
  <2>2. AcksAreLoaded'
    BY <1>3, AcksStay, Zenon DEF nodeVars, local, vars
  <2> QED
    BY <1>1, <2>1, <2>2, Zenon DEF NodesInv
<1> QED
  BY <1>2, <1>3, Zenon

\* NodesInv holds in every reachable state of the cluster.
THEOREM NodesInvariant == NodesSpec => []NodesInv
BY NodesInvInit, NodesInvStep, PTL DEF NodesSpec

\* Whatever the nodes' tasks do, interrupted by failures and restarts, they do to
\* the control plane only what Cutover says nodes may do (set_target_checkpoints
\* reports what it was told under the epoch it was told), so each theorem about
\* Cutover is one about a cluster of these nodes.
THEOREM NodesImplementCutover == NodesSpec => ImplementsCutover
<1>1. NodesInit => Init
  BY Zenon DEF NodesInit
<1>2. NodesInv /\ [NodesNext]_nodeVars => [Next]_vars
  BY NodesStepIsCutover, Zenon
<1> QED
  BY <1>1, <1>2, NodesInvariant, PTL DEF NodesSpec, Spec, ImplementsCutover

\* The updater makes a checkpoint active only after every node the view requires
\* was asked to load its files (perform_prefetch before set_target_checkpoints).
THEOREM ActiveWasPrefetched == NodesSpec => ActiveIsPrefetched
<1> DEFINE Prefetched ==
             selector'["none"].active # selector["none"].active =>
               \A n \in selector'["none"].view.required :
                 selector'["none"].active \in loaded[n]
<1>1. ASSUME NodesInv, NodesInv', [NodesNext]_nodeVars
      PROVE  Prefetched
  <2> SUFFICES ASSUME selector'["none"].active # selector["none"].active,
                      NEW n \in selector'["none"].view.required
               PROVE  selector'["none"].active \in loaded[n]
    OBVIOUS
  <2>1. [Next]_vars /\ CutoverInv
    BY <1>1, NodesStepIsCutover, Zenon DEF NodesInv
  <2>2. "none" \in Extensions
    BY ExtensionsAssumption, Zenon
  <2>3. PublishesFrontier
    <3>1. CASE update_all_checkpoints
      BY <2>1, <3>1, UpdateFrontierStep, Zenon
    <3>2. CASE Commit
      BY <2>1, <2>2, <3>2, CommitFrontierStep, Zenon DEF CommitsFrontier
    <3>3. CASE ~update_all_checkpoints /\ ~Commit
      BY <2>1, <2>2, <3>3, OtherFrontierStep, Zenon DEF KeepsFrontiers
    <3> QED
      BY <3>1, <3>2, <3>3, Zenon
  <2>4. /\ selector'["none"].active = selector["none"].latest
        /\ selector'["none"].latest = selector["none"].latest
        /\ selector["none"].latest # None
        /\ RequiredNodesActivated(selector'["none"])
    BY <2>2, <2>3, Zenon DEF PublishesFrontier, PublishesSelector
  <2>5. selector'["none"] \in Selectors /\ n \in Nodes
    BY <1>1, <2>2, Zenon DEF NodesInv, CutoverInv, TypeOK, Selectors, Views
  <2>6. selector'["none"].activations[n] = [epoch |-> selector'["none"].view.epoch,
                                            checkpoint |-> selector'["none"].latest]
    BY <2>4, Zenon DEF RequiredNodesActivated
  <2>7. selector'["none"].activations[n] # NoAck
    BY <2>4, <2>6 DEF NoAck
  <2>8. selector'["none"].activations[n].checkpoint \in loaded'[n]
    BY <1>1, <2>5, <2>7, Zenon DEF NodesInv, AcksAreLoaded, Everywhere
  <2>9. loaded' = loaded
    <3>1. loaded' = loaded \/ \E k \in Nodes : perform_prefetch(k)
      BY <1>1 DEF NodesNext, nodeVars, local, WriteStep, speedboat_commit, iceberg_commit,
         compaction_commit, CommitsTable, extension_commit, TaskStep, FailStep,
         update_prefetch_checkpoints, get_next_prefetch_checkpoints, set_target_checkpoints,
         ReadCutoverState, RecordReadiness, RecordActivation, CallFails, PrefetchFails,
         PollPanics, RestartNode
    <3>2. ASSUME NEW k \in Nodes, perform_prefetch(k) PROVE FALSE
      BY <3>2, Zenon DEF perform_prefetch, vars
    <3> QED
      BY <3>1, <3>2, Zenon
  <2> QED
    BY <2>4, <2>6, <2>8, <2>9
<1>2. NodesInv /\ NodesInv' /\ [NodesNext]_nodeVars => [Prefetched]_nodeVars
  BY <1>1, Zenon
<1> QED
  BY <1>2, NodesInvariant, PTL DEF NodesSpec, ActiveIsPrefetched

=============================================================================
