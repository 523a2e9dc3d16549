--------------------------- MODULE MetadataProofs ---------------------------
(***************************************************************************)
(* Three metadata backends, for every value of their constants.            *)
(*                                                                         *)
(* The cutover on the DynamoDB backend (DynamoCutover): what a process     *)
(* makes active was acknowledged, although it reads the view, the leases   *)
(* and the acknowledgements one by one and other processes replace them    *)
(* meanwhile.  DynamoInv says of every item, and of every replacement a    *)
(* process has under way, where it came from: a stored view is one of the  *)
(* views, an acknowledgement is one a node made; and a process on its way  *)
(* to activate a target has seen it acknowledged.                          *)
(*                                                                         *)
(* The service an engine embeds (EmbeddedMetadata): its newest checkpoint  *)
(* stays whole through compactions that rewrite checkpoints in place.      *)
(* MemoryInv adds to that what a compaction works from: the order of the   *)
(* ids, and that its item names files the newest checkpoint still has.     *)
(*                                                                         *)
(* The Raft backend (RaftService): successive reads never go back.         *)
(***************************************************************************)
EXTENDS DynamoCutover, EmbeddedMetadata, RaftService, WellFoundedInduction, TLAPS

----------------------------------------------------------------------------
(* The cutover on DynamoDB. *)

CallSteps == {"idle", "delete", "create", "bump", "backfill", "reconfigure", "match", "activate"}
Thens == {"idle", "backfill", "reconfigure", "match"}

Ack == [target : Nat, epoch : Nat]
ViewRecord == [target : Nat, epoch : Nat, required : SUBSET Nodes]

Payloads == {{}, "live"} \cup Ack \cup ViewRecord

Calls ==
  [step : CallSteps, then : Thens, name : Names \cup {<<>>},
   value : Payloads,
   target : Nat, epoch : Nat, required : SUBSET Nodes]

DynamoTyped ==
  /\ item = [name \in Names |-> item[name]]
  /\ frontier \in [target : Nat, active : Nat, epoch : Nat]
  /\ process \in [Processes -> Calls]
  /\ known \in [Nodes -> SUBSET Ack]
  /\ views \subseteq ViewRecord

Acknowledged(t) ==
  \E v \in views : /\ v.target = t
                   /\ \E nodes \in SUBSET Nodes : nodes # {} /\ v.required \subseteq nodes /\
                        \A n \in nodes : <<n, v.target, v.epoch>> \in acked

\* A value that is, or is about to be, stored under a name.
Stored(name, value) ==
  /\ name = View => value \in ViewRecord
  /\ \A n \in Nodes : name = Activation(n) => <<n, value.target, value.epoch>> \in acked

CallSound(p) ==
  /\ In(p, "delete") \/ In(p, "create") =>
       process[p].name \in Names /\ Stored(process[p].name, process[p].value)
  /\ In(p, "activate") => Acknowledged(process[p].target)

DynamoInv ==
  /\ DynamoTyped
  /\ item[View] \subseteq views
  /\ \A n \in Nodes : \A ack \in item[Activation(n)] : <<n, ack.target, ack.epoch>> \in acked
  /\ \A p \in Processes : CallSound(p)
  /\ frontier.active # 0 => Acknowledged(frontier.active)

\* The named items are told apart by their names.
LEMMA NamesDiffer ==
  /\ View \in Names /\ <<>> \notin Names
  /\ \A n \in Nodes : /\ Lease(n) \in Names /\ Activation(n) \in Names
                      /\ Lease(n) # View /\ Activation(n) # View
  /\ \A n, m \in Nodes : /\ Lease(n) # Activation(m)
                         /\ Activation(n) = Activation(m) => n = m
BY Zenon DEF Names, View, Lease, Activation

\* Views and acknowledgements are only added, so what was acknowledged stays so.
LEMMA AcknowledgedStays ==
  ASSUME views \subseteq views', acked \subseteq acked', NEW t, Acknowledged(t)
  PROVE  Acknowledged(t)'
BY Zenon DEF Acknowledged

\* The calls of the other processes stay sound when one process goes on.
LEMMA CallsStay ==
  ASSUME DynamoInv, NEW p \in Processes, NEW c \in Calls,
         process' = [process EXCEPT ![p] = c],
         views \subseteq views', acked \subseteq acked',
         c.step \in {"delete", "create"} => c.name \in Names /\ Stored(c.name, c.value)',
         c.step = "activate" => Acknowledged(c.target)'
  PROVE  /\ process' \in [Processes -> Calls]
         /\ \A q \in Processes : CallSound(q)'
<1>1. /\ process' \in [Processes -> Calls]
      /\ \A q \in Processes : process'[q] = IF q = p THEN c ELSE process[q]
  BY Zenon DEF DynamoInv, DynamoTyped
<1>2. ASSUME NEW q \in Processes PROVE CallSound(q)'
  <2>1. CASE q = p
    BY <1>1, <2>1, Zenon DEF CallSound, In, Stored, Acknowledged
  <2>2. CASE q # p
    <3>1. process'[q] = process[q] /\ CallSound(q)
      BY <1>1, <2>2, Zenon DEF DynamoInv
    <3>2. In(q, "activate")' => Acknowledged(process[q].target)
      BY <3>1, Zenon DEF CallSound, In
    <3>3. In(q, "activate")' => Acknowledged(process[q].target)'
      BY <3>1, <3>2, Zenon DEF Acknowledged
    <3>4. In(q, "delete")' \/ In(q, "create")' =>
            process'[q].name \in Names /\ Stored(process[q].name, process[q].value)'
      BY <3>1, Zenon DEF CallSound, In, Stored
    <3> QED
      BY <3>1, <3>3, <3>4, Zenon DEF CallSound
  <2> QED
    BY <2>1, <2>2, Zenon
<1> QED
  BY <1>1, <1>2, Zenon

\* A process that changes no item and does not activate anything.
LEMMA CallMoves ==
  ASSUME DynamoInv, NEW p \in Processes, NEW c \in Calls,
         process' = [process EXCEPT ![p] = c],
         UNCHANGED <<item, known, views>>, acked \subseteq acked',
         frontier' \in [target : Nat, active : Nat, epoch : Nat],
         frontier'.active = frontier.active,
         c.step \in {"delete", "create"} => c.name \in Names /\ Stored(c.name, c.value)',
         c.step = "activate" => Acknowledged(c.target)'
  PROVE  DynamoInv'
<1>1. /\ process' \in [Processes -> Calls]
      /\ \A q \in Processes : CallSound(q)'
  BY CallsStay, Zenon
<1>2. DynamoTyped'
  BY <1>1, Zenon DEF DynamoInv, DynamoTyped
<1>3. /\ item'[View] \subseteq views'
      /\ \A n \in Nodes : \A ack \in item'[Activation(n)] : <<n, ack.target, ack.epoch>> \in acked'
  BY Zenon DEF DynamoInv
<1>4. (frontier.active # 0 => Acknowledged(frontier.active))'
  BY Zenon DEF DynamoInv, Acknowledged
<1> QED
  BY <1>1, <1>2, <1>3, <1>4, Zenon DEF DynamoInv

\* The call of a process at rest.
LEMMA RestingCall == Resting \in Calls /\ Resting.step = "idle"
BY Zenon DEF Calls, Resting, CallSteps, Thens, Payloads

\* A replacement that a process begins.
LEMMA ReplaceType ==
  ASSUME NEW name \in Names, NEW value \in Payloads, NEW then \in Thens
  PROVE  LET c == Replace(name, value, then)
         IN c \in Calls /\ c.step = "delete" /\ c.name = name /\ c.value = value
BY Zenon DEF Calls, Resting, CallSteps, Thens, Replace

\* A process turns to a step that neither replaces an item nor activates a target.
LEMMA QuietCall ==
  ASSUME DynamoInv, NEW p \in Processes, NEW c \in Calls,
         Step(p, c), c.step \notin {"delete", "create", "activate"},
         UNCHANGED <<item, known, views, acked, frontier>>
  PROVE  DynamoInv'
<1>1. process' = [process EXCEPT ![p] = c]
  BY Zenon DEF Step
<1>2. frontier' \in [target : Nat, active : Nat, epoch : Nat] /\ frontier'.active = frontier.active
  BY Zenon DEF DynamoInv, DynamoTyped
<1> QED
  BY <1>1, <1>2, CallMoves, Zenon

\* A process begins to replace the membership view.
LEMMA ViewReplaced ==
  ASSUME DynamoInv, NEW p \in Processes, NEW v \in ViewRecord, NEW then \in Thens,
         Step(p, Replace(View, v, then)),
         UNCHANGED <<item, known, views, acked>>,
         frontier' \in [target : Nat, active : Nat, epoch : Nat],
         frontier'.active = frontier.active
  PROVE  DynamoInv'
<1> DEFINE c == Replace(View, v, then)
<1>1. c \in Calls /\ c.step = "delete" /\ c.name = View /\ c.value = v
  BY ReplaceType, NamesDiffer DEF Payloads
<1>2. process' = [process EXCEPT ![p] = c]
  BY Zenon DEF Step
<1> HIDE DEF c
<1>3. c.name \in Names /\ Stored(c.name, c.value)'
  BY <1>1, NamesDiffer, Zenon DEF Stored
<1> QED
  BY <1>1, <1>2, <1>3, CallMoves, Zenon

\* A heartbeat begins to replace the lease of the node.
LEMMA HeartbeatKeeps ==
  ASSUME DynamoInv, NEW p \in Processes, NEW n \in Nodes, heartbeat_serving_node(p, n)
  PROVE  DynamoInv'
<1> DEFINE c == Replace(Lease(n), "live", "idle")
<1>1. c \in Calls /\ c.step = "delete" /\ c.name = Lease(n)
  BY ReplaceType, NamesDiffer DEF Payloads, Thens
<1>2. process' = [process EXCEPT ![p] = c] /\ UNCHANGED <<item, known, views, acked, frontier>>
  BY Zenon DEF Step, heartbeat_serving_node
<1> HIDE DEF c
<1>3. c.name \in Names /\ Stored(c.name, c.value)'
  BY <1>1, NamesDiffer, Zenon DEF Stored
<1>4. frontier' \in [target : Nat, active : Nat, epoch : Nat] /\ frontier'.active = frontier.active
  BY <1>2, Zenon DEF DynamoInv, DynamoTyped
<1> QED
  BY <1>1, <1>2, <1>3, <1>4, CallMoves, Zenon

\* A node's acknowledgement begins to replace its earlier one.
LEMMA ActivationKeeps ==
  ASSUME DynamoInv, NEW p \in Processes, NEW n \in Nodes, record_serving_node_activation(p, n)
  PROVE  DynamoInv'
<1>1. PICK ack \in known[n] :
        /\ Step(p, Replace(Activation(n), ack, "idle"))
        /\ acked' = acked \cup {<<n, ack.target, ack.epoch>>}
  BY Zenon DEF record_serving_node_activation
<1>2. ack \in Ack
  BY Zenon DEF DynamoInv, DynamoTyped
<1> DEFINE c == Replace(Activation(n), ack, "idle")
<1>3. c \in Calls /\ c.step = "delete" /\ c.name = Activation(n) /\ c.value = ack
  BY <1>2, ReplaceType, NamesDiffer DEF Payloads, Thens
<1>4. process' = [process EXCEPT ![p] = c] /\ UNCHANGED <<item, known, views, frontier>>
  BY <1>1, Zenon DEF Step, record_serving_node_activation
<1> HIDE DEF c
<1>5. c.name \in Names /\ Stored(c.name, c.value)'
  BY <1>1, <1>3, NamesDiffer, Zenon DEF Stored
<1>6. frontier' \in [target : Nat, active : Nat, epoch : Nat] /\ frontier'.active = frontier.active
  BY <1>4, Zenon DEF DynamoInv, DynamoTyped
<1> QED
  BY <1>1, <1>3, <1>4, <1>5, <1>6, CallMoves, Zenon

\* The updater opens a membership view, unless there is one for the target.
LEMMA EnsureKeeps ==
  ASSUME DynamoInv, NEW p \in Processes, ensure_cutover_membership_for_current_target(p)
  PROVE  DynamoInv'
<1>1. frontier.target \in Nat /\ frontier.epoch \in Nat /\ live_serving_node_leases \in SUBSET Nodes
  BY Zenon DEF DynamoInv, DynamoTyped, live_serving_node_leases
<1> DEFINE stay == [Resting EXCEPT !.step = "backfill"]
           bump == [Resting EXCEPT !.step = "bump", !.then = "backfill",
                      !.target = frontier.target, !.epoch = frontier.epoch,
                      !.required = live_serving_node_leases]
<1>2. Step(p, stay) \/ Step(p, bump)
  BY Zenon DEF ensure_cutover_membership_for_current_target
<1>3. stay \in Calls /\ stay.step = "backfill"
  BY Zenon DEF Calls, Resting, CallSteps, Thens, Payloads
<1>4. bump \in Calls /\ bump.step = "bump"
  BY <1>1, Zenon DEF Calls, Resting, CallSteps, Thens, Payloads
<1> HIDE DEF stay, bump
<1> QED
  BY <1>2, <1>3, <1>4, QuietCall, Zenon DEF ensure_cutover_membership_for_current_target

\* The bump of the epoch, after which the view is replaced.
LEMMA BumpKeeps ==
  ASSUME DynamoInv, NEW p \in Processes, bump_cutover_epoch(p)
  PROVE  DynamoInv'
<1>1. PICK epoch \in Nat : /\ frontier' = [frontier EXCEPT !.epoch = epoch]
                           /\ Step(p, Replace(View, NewView(p, epoch), process[p].then))
  BY DEF bump_cutover_epoch, DynamoInv, DynamoTyped
<1>2. process[p] \in Calls
  BY Zenon DEF DynamoInv, DynamoTyped
<1>3. NewView(p, epoch) \in ViewRecord /\ process[p].then \in Thens
  BY <1>2, Zenon DEF NewView, ViewRecord, Calls
<1>4. frontier' \in [target : Nat, active : Nat, epoch : Nat] /\ frontier'.active = frontier.active
  BY <1>1, Zenon DEF DynamoInv, DynamoTyped
<1> QED
  BY <1>1, <1>3, <1>4, ViewReplaced, Zenon DEF bump_cutover_epoch

\* The view of the target is filled in.
LEMMA BackfillKeeps ==
  ASSUME DynamoInv, NEW p \in Processes, backfill_cutover_membership_for_target(p)
  PROVE  DynamoInv'
<1> DEFINE empty == {v \in item[View] : v.target = frontier.target /\ v.required = {}}
           filled == [CHOOSE v \in empty : TRUE EXCEPT !.required = live_serving_node_leases]
<1>1. /\ frontier \in [target : Nat, active : Nat, epoch : Nat]
      /\ live_serving_node_leases \in SUBSET Nodes /\ item[View] \subseteq ViewRecord
  BY Zenon DEF DynamoInv, DynamoTyped, live_serving_node_leases
<1>2. UNCHANGED <<item, known, views, acked, frontier>>
  BY Zenon DEF backfill_cutover_membership_for_target
<1>3. CASE frontier.active = frontier.target
  BY <1>2, <1>3, RestingCall, QuietCall, Zenon DEF backfill_cutover_membership_for_target
<1>4. CASE frontier.active # frontier.target /\ (empty = {} \/ live_serving_node_leases = {})
  <2> DEFINE c == [Resting EXCEPT !.step = "reconfigure", !.target = frontier.target]
  <2>1. c \in Calls /\ c.step = "reconfigure"
    BY <1>1, Zenon DEF Calls, Resting, CallSteps, Thens, Payloads
  <2>2. Step(p, c)
    BY <1>4, Zenon DEF backfill_cutover_membership_for_target
  <2> HIDE DEF c
  <2> QED
    BY <1>2, <2>1, <2>2, QuietCall, Zenon
<1>5. CASE frontier.active # frontier.target /\ ~(empty = {} \/ live_serving_node_leases = {})
  <2>1. (CHOOSE v \in empty : TRUE) \in ViewRecord
    BY <1>1, <1>5, Zenon
  <2>2. filled \in ViewRecord
    BY <1>1, <2>1, ZenonT(30) DEF ViewRecord
  <2>3. Step(p, Replace(View, filled, "reconfigure"))
    BY <1>5, Zenon DEF backfill_cutover_membership_for_target
  <2> HIDE DEF filled
  <2>4. "reconfigure" \in Thens
    BY Zenon DEF Thens
  <2> QED
    BY <1>1, <1>2, <2>2, <2>3, <2>4, ViewReplaced, Zenon
<1> QED
  BY <1>3, <1>4, <1>5, Zenon

\* The view of the target is replaced under a new epoch.
LEMMA ReconfigureKeeps ==
  ASSUME DynamoInv, NEW p \in Processes, maybe_reconfigure_cutover_membership_for_target(p)
  PROVE  DynamoInv'
<1>1. frontier.target \in Nat /\ frontier.epoch \in Nat /\ live_serving_node_leases \in SUBSET Nodes
  BY Zenon DEF DynamoInv, DynamoTyped, live_serving_node_leases
<1> DEFINE stay == [Resting EXCEPT !.step = "match"]
           bump == [Resting EXCEPT !.step = "bump", !.then = "match",
                      !.target = frontier.target, !.epoch = frontier.epoch,
                      !.required = live_serving_node_leases]
<1>2. Step(p, stay) \/ Step(p, bump)
  BY Zenon DEF maybe_reconfigure_cutover_membership_for_target
<1>3. stay \in Calls /\ stay.step = "match"
  BY Zenon DEF Calls, Resting, CallSteps, Thens, Payloads
<1>4. bump \in Calls /\ bump.step = "bump"
  BY <1>1, Zenon DEF Calls, Resting, CallSteps, Thens, Payloads
<1> HIDE DEF stay, bump
<1> QED
  BY <1>2, <1>3, <1>4, QuietCall, Zenon DEF maybe_reconfigure_cutover_membership_for_target

\* The promotion finds every required acknowledgement stored, so each was made.
LEMMA PromoteKeeps ==
  ASSUME DynamoInv, NEW p \in Processes, promote_active_checkpoint_if_ready(p)
  PROVE  DynamoInv'
<1>1. frontier \in [target : Nat, active : Nat, epoch : Nat]
  BY Zenon DEF DynamoInv, DynamoTyped
<1>2. UNCHANGED <<item, known, views, acked, frontier>>
  BY Zenon DEF promote_active_checkpoint_if_ready
<1>3. CASE \E v \in item[View] : activation_matches_target(v, frontier.target)
  <2> DEFINE d == [Resting EXCEPT !.step = "activate", !.target = frontier.target]
  <2>1. d \in Calls /\ d.step = "activate" /\ d.target = frontier.target
    BY <1>1, Zenon DEF Calls, Resting, CallSteps, Thens, Payloads
  <2>2. PICK c \in Calls : c.step = "activate" /\ c.target = frontier.target /\
                           process' = [process EXCEPT ![p] = c]
    BY <1>3, <2>1, Zenon DEF promote_active_checkpoint_if_ready, Step
  <2> HIDE DEF d
  <2>3. Acknowledged(frontier.target)
    <3>1. PICK v \in item[View] : activation_matches_target(v, frontier.target)
      BY <1>3, Zenon
    <3> DEFINE nodes == IF v.required = {} THEN live_serving_node_leases ELSE v.required
    <3>2. v \in views /\ v \in ViewRecord /\ v.target = frontier.target
      BY <3>1, Zenon DEF DynamoInv, DynamoTyped, activation_matches_target
    <3>3. /\ nodes \in SUBSET Nodes /\ nodes # {} /\ v.required \subseteq nodes
          /\ \A n \in nodes : item[Activation(n)] = {[target |-> frontier.target, epoch |-> v.epoch]}
      BY <3>1, <3>2, Zenon DEF activation_matches_target, ViewRecord, live_serving_node_leases
    <3> HIDE DEF nodes
    <3>4. \A n \in nodes : <<n, v.target, v.epoch>> \in acked
      <4> SUFFICES ASSUME NEW n \in nodes PROVE <<n, v.target, v.epoch>> \in acked
        OBVIOUS
      <4> DEFINE ack == [target |-> frontier.target, epoch |-> v.epoch]
      <4>1. ack \in item[Activation(n)] /\ ack.target = frontier.target /\ ack.epoch = v.epoch
        BY <3>3, Zenon
      <4> HIDE DEF ack
      <4>2. <<n, ack.target, ack.epoch>> \in acked
        BY <3>3, <4>1, Zenon DEF DynamoInv
      <4> QED
        BY <3>2, <4>1, <4>2, Zenon
    <3> QED
      BY <3>2, <3>3, <3>4, Zenon DEF Acknowledged
  <2>4. Acknowledged(c.target)'
    <3>1. \A t : Acknowledged(t) => Acknowledged(t)'
      BY <1>2, Zenon DEF Acknowledged
    <3>2. Acknowledged(c.target)
      BY <2>2, <2>3, Zenon
    <3> QED
      BY <3>1, <3>2, Zenon
  <2> QED
    BY <1>1, <1>2, <2>2, <2>4, CallMoves, Zenon
<1>4. CASE ~\E v \in item[View] : activation_matches_target(v, frontier.target)
  BY <1>2, <1>4, RestingCall, QuietCall, Zenon DEF promote_active_checkpoint_if_ready
<1> QED
  BY <1>3, <1>4, Zenon

\* The process activates the target it has found acknowledged, whatever the
\* other processes did to the items since.
LEMMA ActivateKeeps ==
  ASSUME DynamoInv, NEW p \in Processes, set_active_checkpoint_id(p)
  PROVE  DynamoInv'
<1> DEFINE t == process[p].target
<1>1. t \in Nat
  BY Zenon DEF DynamoInv, DynamoTyped, Calls
<1>2. Acknowledged(t)
  BY Zenon DEF DynamoInv, CallSound, set_active_checkpoint_id
<1> HIDE DEF t
<1>3. frontier' = [frontier EXCEPT !.active = t] /\ UNCHANGED <<item, known, views, acked>>
  BY Zenon DEF set_active_checkpoint_id, t
<1>4. frontier' \in [target : Nat, active : Nat, epoch : Nat] /\ frontier'.active = t
  BY <1>1, <1>3, Zenon DEF DynamoInv, DynamoTyped
<1>5. /\ process' \in [Processes -> Calls]
      /\ \A q \in Processes : CallSound(q)'
  BY <1>3, RestingCall, CallsStay, Zenon DEF set_active_checkpoint_id, Step
<1>6. (frontier.active # 0 => Acknowledged(frontier.active))'
  BY <1>2, <1>3, <1>4, Zenon DEF Acknowledged
<1>7. DynamoTyped'
  BY <1>3, <1>4, <1>5, Zenon DEF DynamoInv, DynamoTyped
<1> QED
  BY <1>3, <1>5, <1>6, <1>7, Zenon DEF DynamoInv

\* The delete of a replacement, in the middle of which the item is missing.
LEMMA DeleteKeeps ==
  ASSUME DynamoInv, NEW p \in Processes, private_delete(p)
  PROVE  DynamoInv'
<1> DEFINE d == [process[p] EXCEPT !.step = "create"]
           name == process[p].name
<1>1. process[p] \in Calls /\ name \in Names /\ Stored(name, process[p].value)
  BY Zenon DEF DynamoInv, DynamoTyped, CallSound, private_delete
<1>2. d \in Calls /\ d.step = "create" /\ d.name = name /\ d.value = process[p].value
  BY <1>1, Zenon DEF Calls, CallSteps
<1>3. /\ item' = [item EXCEPT ![name] = {}] /\ process' = [process EXCEPT ![p] = d]
      /\ UNCHANGED <<frontier, known, acked, views>>
  BY Zenon DEF private_delete, Step
<1> HIDE DEF d, name
<1>4. PICK c \in Calls : /\ process' = [process EXCEPT ![p] = c]
                         /\ c.step = "create" /\ c.name \in Names /\ Stored(c.name, c.value)
  BY <1>1, <1>2, <1>3, Zenon
<1>5. Stored(c.name, c.value)'
  BY <1>3, <1>4, Zenon DEF Stored
<1>6. /\ process' \in [Processes -> Calls]
      /\ \A q \in Processes : CallSound(q)'
  BY <1>3, <1>4, <1>5, CallsStay, Zenon
<1>7. /\ item' = [m \in Names |-> item'[m]]
      /\ \A m \in Names : item'[m] \subseteq item[m]
  BY <1>1, <1>3, Zenon DEF DynamoInv, DynamoTyped
<1>8. DynamoTyped'
  BY <1>3, <1>6, <1>7, Zenon DEF DynamoInv, DynamoTyped
<1>9. /\ item'[View] \subseteq views'
      /\ \A n \in Nodes : \A ack \in item'[Activation(n)] : <<n, ack.target, ack.epoch>> \in acked'
  BY <1>3, <1>7, NamesDiffer, Zenon DEF DynamoInv
<1>10. (frontier.active # 0 => Acknowledged(frontier.active))'
  BY <1>3, Zenon DEF DynamoInv, Acknowledged
<1> QED
  BY <1>6, <1>8, <1>9, <1>10, Zenon DEF DynamoInv

\* The create of a replacement stores what the process carries, or nothing.
LEMMA CreateKeeps ==
  ASSUME DynamoInv, NEW p \in Processes, private_create(p)
  PROVE  DynamoInv'
<1> DEFINE name == process[p].name
           value == process[p].value
           created == name \notin catalog /\ item[name] = {}
<1>1. process[p] \in Calls /\ name \in Names /\ Stored(name, value)
  BY Zenon DEF DynamoInv, DynamoTyped, CallSound, private_create
<1>2. /\ item' = IF created THEN [item EXCEPT ![name] = {value}] ELSE item
      /\ views' = IF created /\ name = View THEN views \cup {value} ELSE views
      /\ UNCHANGED <<frontier, known, acked>>
  BY Zenon DEF private_create
<1> DEFINE c == IF process[p].then = "idle" THEN Resting
                ELSE [Resting EXCEPT !.step = process[p].then]
<1>3. process' = [process EXCEPT ![p] = c]
  BY Zenon DEF private_create, Step
<1>4. c \in Calls /\ c.step \notin {"delete", "create", "activate"}
  BY <1>1, Zenon DEF Calls, Resting, CallSteps, Thens, Payloads
<1> HIDE DEF c, name, value, created
<1>5. views \subseteq views' /\ acked' = acked
  BY <1>2, Zenon
<1>6. /\ process' \in [Processes -> Calls]
      /\ \A q \in Processes : CallSound(q)'
  BY <1>3, <1>4, <1>5, CallsStay, Zenon
<1>7. views' \subseteq ViewRecord
  BY <1>1, <1>2, Zenon DEF Stored, DynamoInv, DynamoTyped
<1>8. /\ item' = [m \in Names |-> item'[m]]
      /\ \A m \in Names : item'[m] = IF created /\ m = name THEN {value} ELSE item[m]
  BY <1>1, <1>2, Zenon DEF DynamoInv, DynamoTyped
<1>9. DynamoTyped'
  BY <1>2, <1>6, <1>7, <1>8, Zenon DEF DynamoInv, DynamoTyped
<1>10. item'[View] \subseteq views'
  BY <1>2, <1>8, NamesDiffer, Zenon DEF DynamoInv
<1>11. \A n \in Nodes : \A ack \in item'[Activation(n)] : <<n, ack.target, ack.epoch>> \in acked'
  BY <1>1, <1>5, <1>8, NamesDiffer, Zenon DEF DynamoInv, Stored
<1>12. (frontier.active # 0 => Acknowledged(frontier.active))'
  BY <1>2, <1>5, Zenon DEF DynamoInv, Acknowledged
<1> QED
  BY <1>6, <1>9, <1>10, <1>11, <1>12, Zenon DEF DynamoInv

\* A commit moves the target frontier and nothing else.
LEMMA CommitKeeps ==
  ASSUME DynamoInv, commit_target
  PROVE  DynamoInv'
<1>1. /\ frontier' \in [target : Nat, active : Nat, epoch : Nat] /\ frontier'.active = frontier.active
      /\ UNCHANGED <<item, process, known, acked, views>>
  BY DEF commit_target, DynamoInv, DynamoTyped
<1>2. DynamoTyped'
  BY <1>1, Zenon DEF DynamoInv, DynamoTyped
<1>3. \A q \in Processes : CallSound(q)'
  BY <1>1, ZenonT(30) DEF DynamoInv, CallSound, In, Stored, Acknowledged
<1>4. (frontier.active # 0 => Acknowledged(frontier.active))'
  BY <1>1, Zenon DEF DynamoInv, Acknowledged
<1> QED
  BY <1>1, <1>2, <1>3, <1>4, Zenon DEF DynamoInv

\* A lease runs out; no other item is touched.
LEMMA ExpireKeeps ==
  ASSUME DynamoInv, NEW n \in Nodes, ExpireLease(n)
  PROVE  DynamoInv'
<1>1. UNCHANGED <<frontier, process, known, acked, views>>
  BY Zenon DEF ExpireLease
<1>2. /\ item' = [m \in Names |-> item'[m]]
      /\ \A m \in Names : m # Lease(n) => item'[m] = item[m]
  BY NamesDiffer, Zenon DEF ExpireLease, DynamoInv, DynamoTyped
<1>3. DynamoTyped'
  BY <1>1, <1>2, Zenon DEF DynamoInv, DynamoTyped
<1>4. \A q \in Processes : CallSound(q)'
  BY <1>1, ZenonT(30) DEF DynamoInv, CallSound, In, Stored, Acknowledged
<1>5. /\ item'[View] \subseteq views'
      /\ \A m \in Nodes : \A ack \in item'[Activation(m)] : <<m, ack.target, ack.epoch>> \in acked'
  BY <1>1, <1>2, NamesDiffer, Zenon DEF DynamoInv
<1>6. (frontier.active # 0 => Acknowledged(frontier.active))'
  BY <1>1, Zenon DEF DynamoInv, Acknowledged
<1> QED
  BY <1>3, <1>4, <1>5, <1>6, Zenon DEF DynamoInv

\* A node reads the cutover state.
LEMMA ReadKeeps ==
  ASSUME DynamoInv, NEW p \in Processes, NEW n \in Nodes, get_checkpoint_cutover_state(p, n)
  PROVE  DynamoInv'
<1>1. UNCHANGED <<item, frontier, process, acked, views>>
  BY Zenon DEF get_checkpoint_cutover_state
<1> DEFINE current == {v \in item[View] : v.target = frontier.target}
           epoch == IF current = {} THEN frontier.epoch ELSE (CHOOSE v \in current : TRUE).epoch
<1>2. current # {} => (CHOOSE v \in current : TRUE) \in ViewRecord
  BY Zenon DEF DynamoInv, DynamoTyped
<1>3. epoch \in Nat /\ frontier.target \in Nat
  BY <1>2, Zenon DEF DynamoInv, DynamoTyped, ViewRecord
<1>4. known' = [known EXCEPT ![n] = {[target |-> frontier.target, epoch |-> epoch]}]
  BY Zenon DEF get_checkpoint_cutover_state
<1> HIDE DEF epoch
<1>5. known' \in [Nodes -> SUBSET Ack]
  BY <1>3, <1>4 DEF DynamoInv, DynamoTyped, Ack
<1>6. DynamoTyped'
  BY <1>1, <1>5, Zenon DEF DynamoInv, DynamoTyped
<1>7. \A q \in Processes : CallSound(q)'
  BY <1>1, ZenonT(30) DEF DynamoInv, CallSound, In, Stored, Acknowledged
<1>8. (frontier.active # 0 => Acknowledged(frontier.active))'
  BY <1>1, Zenon DEF DynamoInv, Acknowledged
<1> QED
  BY <1>1, <1>6, <1>7, <1>8, Zenon DEF DynamoInv

\* Every step of the processes, the nodes and the clock keeps DynamoInv.
LEMMA DynamoStep == DynamoInv /\ [CutoverNext]_cutoverVars => DynamoInv'
<1> SUFFICES ASSUME DynamoInv, [CutoverNext]_cutoverVars PROVE DynamoInv'
  OBVIOUS
<1>1. CASE UNCHANGED cutoverVars
  <2>1. DynamoTyped'
    BY <1>1, Zenon DEF cutoverVars, DynamoInv, DynamoTyped
  <2>2. \A q \in Processes : CallSound(q)'
    <3>1. UNCHANGED <<process, views, acked>>
      BY <1>1, Zenon DEF cutoverVars
    <3>2. \A q \in Processes : CallSound(q)
      BY Zenon DEF DynamoInv
    <3> QED
      BY <3>1, <3>2, ZenonT(30) DEF CallSound, In, Stored, Acknowledged
  <2>3. (frontier.active # 0 => Acknowledged(frontier.active))'
    BY <1>1, Zenon DEF cutoverVars, DynamoInv, Acknowledged
  <2> QED
    BY <1>1, <2>1, <2>2, <2>3, Zenon DEF cutoverVars, DynamoInv
<1>2. CASE commit_target
  BY <1>2, CommitKeeps, Zenon
<1>3. ASSUME NEW n \in Nodes, ExpireLease(n) PROVE DynamoInv'
  BY <1>3, ExpireKeeps, Zenon
<1>4. ASSUME NEW p \in Processes, NEW n \in Nodes,
             \/ heartbeat_serving_node(p, n) \/ get_checkpoint_cutover_state(p, n)
             \/ record_serving_node_activation(p, n)
      PROVE  DynamoInv'
  BY <1>4, HeartbeatKeeps, ReadKeeps, ActivationKeeps, ZenonT(30)
<1>5. ASSUME NEW p \in Processes,
             \/ private_delete(p) \/ private_create(p)
             \/ ensure_cutover_membership_for_current_target(p) \/ bump_cutover_epoch(p)
             \/ backfill_cutover_membership_for_target(p)
             \/ maybe_reconfigure_cutover_membership_for_target(p)
             \/ promote_active_checkpoint_if_ready(p) \/ set_active_checkpoint_id(p)
      PROVE  DynamoInv'
  BY <1>5, DeleteKeeps, CreateKeeps, EnsureKeeps, BumpKeeps, BackfillKeeps, ReconfigureKeeps,
     PromoteKeeps, ActivateKeeps
<1> QED
  BY <1>1, <1>2, <1>3, <1>4, <1>5, ZenonT(30) DEF CutoverNext

\* The backend starts without items, views or acknowledgements.
LEMMA DynamoStart == CutoverInit => DynamoInv
<1> SUFFICES ASSUME CutoverInit PROVE DynamoInv
  OBVIOUS
<1>1. process \in [Processes -> Calls] /\ \A p \in Processes : process[p].step = "idle"
  BY RestingCall, Zenon DEF CutoverInit
<1>2. DynamoTyped
  BY <1>1, Zenon DEF CutoverInit, DynamoTyped
<1>3. \A p \in Processes : CallSound(p)
  BY <1>1, Zenon DEF CallSound, In
<1> QED
  BY <1>2, <1>3, NamesDiffer, Zenon DEF CutoverInit, DynamoInv

\* Whatever service processes interleave their requests in whatever order, a
\* checkpoint becomes active only after every node that a stored view requires has
\* acknowledged it under the epoch of that view (set_active_checkpoint_id after
\* activation_matches_target).
THEOREM ActivationWasAcknowledged == CutoverSpec => []ActiveWasAcknowledged
<1>1. DynamoInv => ActiveWasAcknowledged
  BY Zenon DEF DynamoInv, ActiveWasAcknowledged, Acknowledged
<1> QED
  BY <1>1, DynamoStart, DynamoStep, PTL DEF CutoverSpec

----------------------------------------------------------------------------
(* The embedded service. *)

\* Data files, named by the rows they hold: one row for a file that a commit
\* wrote, any rows for one that compaction wrote.
Files == {"boat", "iceberg"} \X SUBSET Nat
TableSet == [iceberg : SUBSET Files, boat : SUBSET Files, dels : SUBSET Nat, covered : SUBSET Files]
ItemSet == [id : Nat, boat : SUBSET Files, dels : SUBSET Nat, drop : SUBSET Nat]
Histories == UNION {[ids -> TableSet] : ids \in SUBSET Nat}
Panics == {"no", "iceberg_commit", "extension_commit"}

\* What the service may hold.
StoreSet ==
  [checkpoints : Histories, ids : Nat, latest : [Parts -> Nat], published : [Parts -> Nat],
   requested : BOOLEAN, item : ItemSet, in_progress : BOOLEAN, not_compacted : SUBSET Nat,
   notes : SUBSET ItemSet, work : SUBSET Files, waiting : SUBSET Nat, recent : SUBSET Files,
   cleanup : SUBSET Files, panicked : Panics]

\* The service and its three jobs are in states they can be in.
MemoryTyped ==
  /\ store \in StoreSet /\ readOnly \in BOOLEAN
  /\ lake \in SUBSET Files /\ removed \in SUBSET Files /\ sidecars \in SUBSET Files
  /\ indexJob \in [phase : {"idle", "claimed", "built"}, claim : SUBSET Files, built : SUBSET Files]
  /\ compactJob \in [phase : {"idle", "claimed", "noted", "appended"}, item : ItemSet]
  /\ cleanJob \in {"running", "panicked"}
  /\ made \in Nat /\ kept \in SUBSET Nat /\ toggles \in Nat

\* The files of the first n commits.
Boats(n) == {<<"boat", {r}>> : r \in 1 .. n}
IcebergFiles == {"iceberg"} \X SUBSET Nat

\* Checkpoints are numbered in order and the newest is kept. Those that a
\* compaction item will drop exist and are older than it, and those noted
\* while it is out are newer: commit_iceberg drops by number.
Numbered(s) ==
  /\ s.latest["none"] = s.ids
  /\ DOMAIN s.checkpoints \subseteq 1 .. s.ids
  /\ s.ids # 0 => s.ids \in DOMAIN s.checkpoints
  /\ s.not_compacted \subseteq DOMAIN s.checkpoints
  /\ s.item # NoItem =>
       /\ {s.item.id} \cup s.item.drop \subseteq DOMAIN s.checkpoints
       /\ \A d \in s.item.drop : d < s.item.id
       /\ \A n \in s.not_compacted : n > s.item.id

\* A table that holds every one of these rows exactly once.
Whole(c, n, rows) ==
  /\ c.boat \subseteq Boats(n) /\ c.iceberg \subseteq IcebergFiles
  /\ c.dels \subseteq 1 .. n
  /\ \A f \in DataFiles(c) : f[2] \subseteq 1 .. n
  /\ rows \subseteq LiveRows(c)
  /\ \A f, g \in DataFiles(c) : f # g => f[2] \cap g[2] = {}

\* A compaction item names files the newest checkpoint still has, and a
\* compactor holds the one item of the service. Until its append, the
\* Iceberg files of the table are those of the newest checkpoint.
OnItsWay(s, job, files) ==
  LET c == LatestTable(s)
  IN /\ s.item # NoItem => s.item.boat \subseteq c.boat /\ s.item.dels \subseteq c.dels
     /\ job.phase # "idle" => s.in_progress /\ s.item # NoItem /\ job.item = s.item
     /\ job.phase = "appended" => files = c.iceberg \cup {CompactedFile(job.item)}
     /\ job.phase \in {"claimed", "noted"} \/ ~s.in_progress => files = c.iceberg

\* Files handed out for deletion, or deleted, are not files of the newest
\* checkpoint.
Apart(s, gone, n) ==
  /\ s.cleanup \cup gone \subseteq Boats(n)
  /\ (s.cleanup \cup gone) \cap LatestTable(s).boat = {}

\* The inductive invariant. LatestStaysWhole alone is not: a commit_iceberg
\* replaces the files its item names, so the item has to name files the
\* newest checkpoint has.
MemoryInv ==
  /\ MemoryTyped
  /\ Numbered(store)
  /\ Whole(LatestTable(store), made, kept)
  /\ OnItsWay(store, compactJob, lake)
  /\ Apart(store, removed, made)
  /\ CompactionAssertionsHold

----------------------------------------------------------------------------
(* What a call to the service leaves alone. *)

SameFiles(c, d) == d.iceberg = c.iceberg /\ d.boat = c.boat /\ d.dels = c.dels

\* The call changed neither the newest table nor what compaction works from.
SameBooks(s, t) ==
  /\ t.ids = s.ids /\ t.latest["none"] = s.latest["none"]
  /\ DOMAIN t.checkpoints = DOMAIN s.checkpoints
  /\ t.item = s.item /\ t.in_progress = s.in_progress /\ t.not_compacted = s.not_compacted
  /\ t.cleanup = s.cleanup
  /\ SameFiles(LatestTable(s), LatestTable(t))
  /\ t.panicked # "iceberg_commit"

\* A history maps some ids to tables.
LEMMA HistoryFacts ==
  ASSUME NEW h \in Histories
  PROVE  /\ DOMAIN h \in SUBSET Nat
         /\ \A id \in DOMAIN h : h[id] \in TableSet
         /\ h \in [DOMAIN h -> TableSet]
  BY Zenon DEF Histories

\* And every such map is one.
LEMMA IntoHistories ==
  ASSUME NEW ids \in SUBSET Nat, NEW h \in [ids -> TableSet]
  PROVE  h \in Histories
  BY Zenon DEF Histories

\* The newest checkpoint is a table; before the first commit it is the empty
\* one.
LEMMA LatestIsATable ==
  ASSUME NEW s \in StoreSet, Numbered(s)
  PROVE  LatestTable(s) \in TableSet
<1>1. EmptyTable \in TableSet
  BY Zenon DEF EmptyTable, TableSet
<1>2. s.checkpoints \in Histories /\ s.ids \in Nat
  BY Zenon DEF StoreSet
<1>3. s.ids # 0 => s.checkpoints[s.ids] \in TableSet
  BY <1>2, HistoryFacts, Zenon DEF Numbered
<1> QED
  BY <1>1, <1>3, Zenon DEF LatestTable, Numbered

\* Such a call preserves every part of the invariant.
LEMMA SameBooksKeep ==
  ASSUME NEW s, NEW t, SameBooks(s, t)
  PROVE  /\ Numbered(s) => Numbered(t)
         /\ \A n, rows : Whole(LatestTable(s), n, rows) => Whole(LatestTable(t), n, rows)
         /\ \A job, files : OnItsWay(s, job, files) => OnItsWay(t, job, files)
         /\ \A gone, n : Apart(s, gone, n) => Apart(t, gone, n)
<1>1. Numbered(s) => Numbered(t)
  BY Zenon DEF SameBooks, Numbered
<1>2. SameFiles(LatestTable(s), LatestTable(t))
  BY Zenon DEF SameBooks
<1>3. DataFiles(LatestTable(t)) = DataFiles(LatestTable(s))
      /\ LiveRows(LatestTable(t)) = LiveRows(LatestTable(s))
  BY <1>2, Zenon DEF SameFiles, DataFiles, LiveRows
<1>4. \A n, rows : Whole(LatestTable(s), n, rows) => Whole(LatestTable(t), n, rows)
  BY <1>2, <1>3, Zenon DEF SameFiles, Whole
<1>5. \A job, files : OnItsWay(s, job, files) => OnItsWay(t, job, files)
  BY <1>2, ZenonT(30) DEF SameBooks, SameFiles, OnItsWay
<1>6. \A gone, n : Apart(s, gone, n) => Apart(t, gone, n)
  BY <1>2, Zenon DEF SameBooks, SameFiles, Apart
<1> QED
  BY <1>1, <1>4, <1>5, <1>6, ZenonT(30)

\* Two such calls in a row are one.
LEMMA SameBooksCompose ==
  ASSUME NEW s, NEW t, NEW u, SameBooks(s, t), SameBooks(t, u)
  PROVE  SameBooks(s, u)
  BY Zenon DEF SameBooks, SameFiles

\* Asking for publication is such a call.
LEMMA RequestedKeeps ==
  ASSUME NEW s \in StoreSet, s.panicked # "iceberg_commit"
  PROVE  Requested(s) \in StoreSet /\ SameBooks(s, Requested(s))
<1>1. Requested(s) \in StoreSet
  BY Zenon DEF StoreSet, Requested
<1>2. SameBooks(s, Requested(s))
  BY Zenon DEF SameBooks, StoreSet, Requested, LatestTable, SameFiles
<1> QED
  BY <1>1, <1>2, Zenon

\* So is adding files to the pending index work.
LEMMA AskForIndexKeeps ==
  ASSUME NEW s \in StoreSet, Numbered(s), s.panicked # "iceberg_commit"
  PROVE  AskForIndex(s) \in StoreSet /\ SameBooks(s, AskForIndex(s))
<1> DEFINE files == DataFiles(LatestTable(s)) \ s.recent
           t == [s EXCEPT !.work = @ \cup files, !.waiting = @ \cup {s.latest["none"]}]
<1>1. files \in SUBSET Files
  BY LatestIsATable, Zenon DEF TableSet, DataFiles
<1>2. s.latest["none"] \in Nat
  BY Zenon DEF StoreSet, Parts
<1>3. t \in StoreSet
  <2> HIDE DEF files
  <2> QED
    BY <1>1, <1>2, Zenon DEF StoreSet
<1>4. SameBooks(s, t) /\ SameBooks(s, s)
  <2> HIDE DEF files
  <2> QED
    BY Zenon DEF SameBooks, StoreSet, LatestTable, SameFiles
<1>5. AskForIndex(s) = s \/ AskForIndex(s) = t
  BY Zenon DEF AskForIndex
<1> QED
  BY <1>3, <1>4, <1>5, Zenon

\* store_checkpoint numbers the new table with the next id, makes it the
\* newest and leaves compaction alone.
LEMMA StoreCheckpointFacts ==
  ASSUME NEW s \in StoreSet, Numbered(s), NEW c \in TableSet
  PROVE  LET t == StoreCheckpoint(s, c)
         IN /\ t \in StoreSet
            /\ t.ids = s.ids + 1 /\ t.latest["none"] = s.ids + 1
            /\ DOMAIN t.checkpoints = DOMAIN s.checkpoints \cup {s.ids + 1}
            /\ t.item = s.item /\ t.in_progress = s.in_progress
            /\ t.not_compacted = s.not_compacted /\ t.cleanup = s.cleanup
            /\ t.panicked = s.panicked
            /\ SameFiles(c, LatestTable(t))
<1> DEFINE k == CoverKnown(s, c)
           new == s.ids + 1
           h == [id \in DOMAIN s.checkpoints \cup {new} |-> IF id = new THEN k ELSE s.checkpoints[id]]
           t == StoreCheckpoint(s, c)
<1>1. s.ids \in Nat /\ new \in Nat /\ s.recent \in SUBSET Files
      /\ s.checkpoints \in Histories /\ s.latest \in [Parts -> Nat]
  BY DEF StoreSet
<1>2. k \in TableSet /\ SameFiles(c, k)
  BY <1>1, Zenon DEF CoverKnown, TableSet, DataFiles, SameFiles
<1>3. h \in Histories /\ DOMAIN h = DOMAIN s.checkpoints \cup {new} /\ h[new] = k
  <2>1. h \in [DOMAIN s.checkpoints \cup {new} -> TableSet]
    BY <1>1, <1>2, HistoryFacts, Zenon
  <2>2. DOMAIN s.checkpoints \cup {new} \in SUBSET Nat
    BY <1>1, HistoryFacts, Zenon
  <2> QED
    BY <2>1, <2>2, IntoHistories, Zenon
<1>4. [s.latest EXCEPT !["none"] = new] \in [Parts -> Nat]
      /\ [s.latest EXCEPT !["none"] = new]["none"] = new
  BY <1>1, Zenon DEF Parts
<1>5. t = [s EXCEPT !.ids = new, !.checkpoints = h, !.latest = [s.latest EXCEPT !["none"] = new]]
  BY Zenon DEF StoreCheckpoint, StoreSet
<1> HIDE DEF h, k, t
<1>6. t \in StoreSet /\ t.ids = new /\ t.latest["none"] = new /\ t.checkpoints = h
      /\ t.item = s.item /\ t.in_progress = s.in_progress
      /\ t.not_compacted = s.not_compacted /\ t.cleanup = s.cleanup
      /\ t.panicked = s.panicked
  BY <1>1, <1>3, <1>4, <1>5, Zenon DEF StoreSet
<1>7. LatestTable(t) = k
  BY <1>1, <1>3, <1>6 DEF LatestTable
<1> QED
  BY <1>2, <1>3, <1>6, <1>7, ZenonT(30) DEF t

----------------------------------------------------------------------------
(* Commits of rows and deletes. *)

\* Ids stay in order when a checkpoint is stored.
LEMMA StoredIsNumbered ==
  ASSUME NEW s \in StoreSet, Numbered(s), NEW u,
         u.ids = s.ids + 1, u.latest["none"] = s.ids + 1,
         DOMAIN u.checkpoints = DOMAIN s.checkpoints \cup {s.ids + 1},
         u.item = s.item, u.not_compacted = s.not_compacted
  PROVE  Numbered(u)
<1>1. s.ids \in Nat
  BY Zenon DEF StoreSet
<1>2. DOMAIN u.checkpoints \subseteq 1 .. u.ids
  BY <1>1 DEF Numbered
<1>3. u.item # NoItem =>
        /\ {u.item.id} \cup u.item.drop \subseteq DOMAIN u.checkpoints
        /\ \A d \in u.item.drop : d < u.item.id
        /\ \A m \in u.not_compacted : m > u.item.id
  BY Zenon DEF Numbered
<1> QED
  BY <1>1, <1>2, <1>3, ZenonT(30) DEF Numbered

\* Storing a whole table, and asking for its index, preserves the invariant
\* if the table kept what the compaction item names.
LEMMA StoredKeeps ==
  ASSUME NEW s \in StoreSet, Numbered(s), s.panicked # "iceberg_commit",
         NEW c \in TableSet, NEW n \in Nat, NEW rows, Whole(c, n, rows),
         NEW job, NEW files, OnItsWay(s, job, files), c.iceberg = LatestTable(s).iceberg,
         s.item # NoItem => s.item.boat \subseteq c.boat /\ s.item.dels \subseteq c.dels,
         NEW gone, s.cleanup \cup gone \subseteq Boats(n), (s.cleanup \cup gone) \cap c.boat = {}
  PROVE  LET t == AskForIndex(StoreCheckpoint(s, c))
         IN /\ t \in StoreSet /\ t.panicked # "iceberg_commit"
            /\ Numbered(t) /\ Whole(LatestTable(t), n, rows)
            /\ OnItsWay(t, job, files) /\ Apart(t, gone, n)
            /\ t.ids # 0
            /\ \A id \in t.not_compacted : id < t.ids
            /\ t.item # NoItem => t.item.id < t.ids
<1> DEFINE u == StoreCheckpoint(s, c)
           t == AskForIndex(u)
<1>1. /\ u \in StoreSet
      /\ u.ids = s.ids + 1 /\ u.latest["none"] = s.ids + 1
      /\ DOMAIN u.checkpoints = DOMAIN s.checkpoints \cup {s.ids + 1}
      /\ u.item = s.item /\ u.in_progress = s.in_progress
      /\ u.not_compacted = s.not_compacted /\ u.cleanup = s.cleanup
      /\ u.panicked = s.panicked
      /\ SameFiles(c, LatestTable(u))
  BY StoreCheckpointFacts, Zenon
<1> HIDE DEF u
<1>2. s.ids \in Nat
  BY Zenon DEF StoreSet
<1>3. Numbered(u)
  BY <1>1, StoredIsNumbered, ZenonT(30)
<1>4. /\ u.ids # 0
      /\ \A id \in u.not_compacted : id < u.ids
      /\ u.item # NoItem => u.item.id < u.ids
  <2>0. u.ids = s.ids + 1
    BY <1>1, Zenon
  <2>1. \A id \in DOMAIN s.checkpoints : id < u.ids
    <3>1. DOMAIN s.checkpoints \subseteq 1 .. s.ids
      BY Zenon DEF Numbered
    <3> QED
      BY <1>2, <2>0, <3>1
  <2>2. u.not_compacted \subseteq DOMAIN s.checkpoints
        /\ (u.item # NoItem => u.item.id \in DOMAIN s.checkpoints)
    BY <1>1, ZenonT(30) DEF Numbered
  <2> QED
    BY <1>2, <2>0, <2>1, <2>2, SMTT(30)
<1>5. Whole(LatestTable(u), n, rows)
  <2>1. DataFiles(LatestTable(u)) = DataFiles(c) /\ LiveRows(LatestTable(u)) = LiveRows(c)
    BY <1>1, ZenonT(30) DEF SameFiles, DataFiles, LiveRows
  <2> QED
    BY <1>1, <2>1, ZenonT(30) DEF SameFiles, Whole
<1>6. OnItsWay(u, job, files) /\ Apart(u, gone, n)
  BY <1>1, ZenonT(30) DEF SameFiles, OnItsWay, Apart
<1>7. t \in StoreSet /\ SameBooks(u, t)
  BY <1>1, <1>3, AskForIndexKeeps, Zenon
<1> HIDE DEF t
<1>8. /\ Numbered(t) /\ Whole(LatestTable(t), n, rows)
      /\ OnItsWay(t, job, files) /\ Apart(t, gone, n)
  BY <1>3, <1>5, <1>6, <1>7, SameBooksKeep, Zenon
<1>9. /\ t.ids # 0
      /\ \A id \in t.not_compacted : id < t.ids
      /\ t.item # NoItem => t.item.id < t.ids
      /\ t.panicked # "iceberg_commit"
  BY <1>4, <1>7, ZenonT(30) DEF SameBooks
<1> QED
  BY <1>7, <1>8, <1>9, Zenon DEF t, u

\* Creating a compaction item, or noting the checkpoint when one is out,
\* preserves the invariant.
LEMMA AskForCompactionKeeps ==
  ASSUME NEW s \in StoreSet, Numbered(s), s.ids # 0,
         \A id \in s.not_compacted : id < s.ids,
         s.item # NoItem => s.item.id < s.ids,
         NEW job, NEW files, OnItsWay(s, job, files)
  PROVE  LET t == AskForCompaction(s)
         IN /\ t \in StoreSet /\ Numbered(t) /\ OnItsWay(t, job, files)
            /\ LatestTable(t) = LatestTable(s) /\ t.cleanup = s.cleanup
            /\ t.panicked = s.panicked
<1> DEFINE c == LatestTable(s)
           it == [id |-> s.latest["none"], boat |-> c.boat, dels |-> c.dels,
                    drop |-> s.not_compacted]
           u == [s EXCEPT !.not_compacted = @ \cup {s.latest["none"]}]
           v == [s EXCEPT !.item = it, !.not_compacted = {}]
           Good(t) == /\ t \in StoreSet /\ Numbered(t) /\ OnItsWay(t, job, files)
                      /\ LatestTable(t) = LatestTable(s) /\ t.cleanup = s.cleanup
                      /\ t.panicked = s.panicked
<1>1. c \in TableSet /\ s.latest["none"] = s.ids /\ s.ids \in Nat
  BY LatestIsATable, ZenonT(30) DEF Numbered, StoreSet
<1>2. it \in ItemSet /\ it # NoItem
  <2>1. it \in ItemSet
    BY <1>1, ZenonT(30) DEF ItemSet, TableSet, StoreSet
  <2>2. it.id # NoItem.id
    BY <1>1, ZenonT(30) DEF NoItem
  <2> QED
    BY <2>1, <2>2, ZenonT(30)
<1>3. CASE s.item # NoItem
  <2>1. /\ u \in StoreSet /\ u.ids = s.ids /\ u.latest = s.latest /\ u.item = s.item
        /\ u.in_progress = s.in_progress /\ u.checkpoints = s.checkpoints
        /\ u.cleanup = s.cleanup /\ u.panicked = s.panicked
        /\ u.not_compacted = s.not_compacted \cup {s.ids}
    BY <1>1, ZenonT(30) DEF StoreSet
  <2> HIDE DEF u
  <2>2. LatestTable(u) = LatestTable(s)
    BY <2>1, ZenonT(30) DEF LatestTable
  <2>3. Numbered(u)
    BY <1>1, <1>3, <2>1, ZenonT(30) DEF Numbered
  <2>4. OnItsWay(u, job, files)
    BY <2>1, <2>2, ZenonT(30) DEF OnItsWay
  <2>5. AskForCompaction(s) = u
    BY <1>3, ZenonT(30) DEF AskForCompaction, u
  <2> QED
    BY <2>1, <2>2, <2>3, <2>4, <2>5, ZenonT(30)
<1>4. CASE s.item = NoItem
  <2>1. /\ v \in StoreSet /\ v.ids = s.ids /\ v.latest = s.latest /\ v.item = it
        /\ v.in_progress = s.in_progress /\ v.checkpoints = s.checkpoints
        /\ v.cleanup = s.cleanup /\ v.panicked = s.panicked
        /\ v.not_compacted = {}
    <3> HIDE DEF it
    <3> QED
      BY <1>2, Zenon DEF StoreSet
  <2> HIDE DEF v
  <2>2. LatestTable(v) = c
    BY <2>1, ZenonT(30) DEF LatestTable
  <2>3. Numbered(v)
    <3>1. it.id = s.ids /\ it.drop = s.not_compacted
      BY <1>1, ZenonT(30)
    <3> HIDE DEF it
    <3> QED
      BY <1>1, <2>1, <3>1, ZenonT(30) DEF Numbered
  <2>4. OnItsWay(v, job, files)
    <3>1. it.boat = c.boat /\ it.dels = c.dels
      OBVIOUS
    <3> HIDE DEF it
    <3> QED
      BY <1>4, <2>1, <2>2, <3>1, ZenonT(30) DEF OnItsWay
  <2>5. AskForCompaction(s) = v \/ AskForCompaction(s) = s
    BY <1>4, ZenonT(30) DEF AskForCompaction, v
  <2>6. Good(v)
    BY <2>1, <2>2, <2>3, <2>4, ZenonT(30)
  <2>7. Good(s)
    OBVIOUS
  <2> HIDE DEF Good
  <2>8. Good(AskForCompaction(s))
    BY <2>5, <2>6, <2>7, ZenonT(30)
  <2> QED
    BY <2>8, ZenonT(30) DEF Good
<1> QED
  BY <1>3, <1>4, ZenonT(30)

\* Every commit writes a file of its own.
LEMMA BoatFacts ==
  ASSUME NEW n \in Nat
  PROVE  /\ Boats(n) \subseteq Files /\ Boats(n) \subseteq Boats(n + 1)
         /\ <<"boat", {n + 1}>> \in Boats(n + 1) /\ <<"boat", {n + 1}>> \notin Boats(n)
         /\ \A f \in Boats(n) : f \notin IcebergFiles /\ \E r \in 1 .. n : f[2] = {r}
         /\ \A f, g \in Boats(n) : f # g => f[2] \cap g[2] = {}
<1>1. Boats(n) \subseteq Files
  BY DEF Boats, Files
<1>2. 1 .. n \subseteq 1 .. (n + 1) /\ n + 1 \in 1 .. (n + 1)
  OBVIOUS
<1>3. Boats(n) \subseteq Boats(n + 1) /\ <<"boat", {n + 1}>> \in Boats(n + 1)
  BY <1>2, Zenon DEF Boats
<1>4. <<"boat", {n + 1}>> \notin Boats(n)
  <2> SUFFICES ASSUME NEW r \in 1 .. n, <<"boat", {n + 1}>> = <<"boat", {r}>>
               PROVE  FALSE
    BY Zenon DEF Boats
  <2>1. {n + 1} = {r}
    OBVIOUS
  <2>2. n + 1 = r
    BY <2>1, ZenonT(30)
  <2> QED
    BY <2>2
<1>5. \A f \in Boats(n) : f \notin IcebergFiles /\ \E r \in 1 .. n : f[2] = {r}
  BY DEF Boats, IcebergFiles
<1>6. \A f, g \in Boats(n) : f # g => f[2] \cap g[2] = {}
  BY DEF Boats
<1> QED
  BY <1>1, <1>3, <1>4, <1>5, <1>6, ZenonT(30)

\* A commit of a row adds the row to the newest table.
LEMMA InsertKeeps ==
  ASSUME NEW s \in StoreSet, Numbered(s), s.panicked # "iceberg_commit",
         NEW n \in Nat, NEW rows, Whole(LatestTable(s), n, rows),
         NEW job, NEW files, OnItsWay(s, job, files),
         NEW gone, Apart(s, gone, n)
  PROVE  LET t == CommitRows(s, n + 1)
         IN /\ t \in StoreSet /\ t.panicked # "iceberg_commit"
            /\ Numbered(t) /\ Whole(LatestTable(t), n + 1, rows \cup {n + 1})
            /\ OnItsWay(t, job, files) /\ Apart(t, gone, n + 1)
<1> DEFINE c == LatestTable(s)
           file == <<"boat", {n + 1}>>
           new == [c EXCEPT !.boat = @ \cup {file}]
           u == AskForIndex(StoreCheckpoint(s, new))
           t == AskForCompaction(u)
<1>1. c \in TableSet
  BY LatestIsATable, ZenonT(30)
<1>2. file \in Boats(n + 1) /\ file \in Files /\ file \notin Boats(n) /\ file[2] = {n + 1}
  <2>1. file \in Boats(n + 1) /\ file \notin Boats(n)
    BY BoatFacts, ZenonT(30)
  <2>2. file \in Files /\ file[2] = {n + 1}
    BY DEF Files
  <2> QED
    BY <2>1, <2>2, ZenonT(30)
<1> Boats(n) \subseteq Boats(n + 1)
  BY BoatFacts, Zenon
<1> HIDE DEF c, file
<1>3. new \in TableSet /\ new.iceberg = c.iceberg /\ new.dels = c.dels /\ new.boat = c.boat \cup {file}
  BY <1>1, <1>2, Zenon DEF TableSet
<1> HIDE DEF new
<1>4. Whole(new, n + 1, rows \cup {n + 1})
  <2>1. Whole(c, n, rows)
    BY Zenon DEF c
  <2>2. new.boat \subseteq Boats(n + 1) /\ new.iceberg \subseteq IcebergFiles
    BY <1>2, <1>3, <2>1, ZenonT(30) DEF Whole
  <2>3. 1 .. n \subseteq 1 .. (n + 1) /\ n + 1 \in 1 .. (n + 1) /\ n + 1 \notin 1 .. n
    OBVIOUS
  <2>4. DataFiles(new) = DataFiles(c) \cup {file}
    BY <1>3, ZenonT(30) DEF DataFiles
  <2>5. \A f \in DataFiles(c) : f[2] \subseteq 1 .. n
    BY <2>1, ZenonT(30) DEF Whole
  <2>6. \A f \in DataFiles(new) : f[2] \subseteq 1 .. (n + 1)
    BY <1>2, <2>3, <2>4, <2>5, SMTT(30)
  <2>7. new.dels \subseteq 1 .. n
    BY <1>3, <2>1, ZenonT(30) DEF Whole
  <2>8. rows \cup {n + 1} \subseteq LiveRows(new)
    <3>1. rows \subseteq RowsOf(DataFiles(c)) \ c.dels
      BY <2>1, Zenon DEF Whole, LiveRows
    <3>2. RowsOf(DataFiles(new)) = RowsOf(DataFiles(c)) \cup {n + 1}
      BY <1>2, <2>4, ZenonT(30) DEF RowsOf
    <3> QED
      BY <1>3, <2>3, <2>7, <3>1, <3>2, ZenonT(30) DEF LiveRows
  <2>9. \A f, g \in DataFiles(new) : f # g => f[2] \cap g[2] = {}
    <3>1. \A f, g \in DataFiles(c) : f # g => f[2] \cap g[2] = {}
      BY <2>1, ZenonT(30) DEF Whole
    <3>2. \A f \in DataFiles(c) : n + 1 \notin f[2]
      BY <2>3, <2>5, ZenonT(30)
    <3>3. \A f \in DataFiles(c) : f[2] \cap file[2] = {}
      BY <1>2, <3>2, ZenonT(30)
    <3> QED
      BY <2>4, <3>1, <3>3, ZenonT(30)
  <2> QED
    BY <2>2, <2>3, <2>6, <2>7, <2>8, <2>9, ZenonT(30) DEF Whole
<1>5. s.item # NoItem => s.item.boat \subseteq new.boat /\ s.item.dels \subseteq new.dels
  BY <1>3, ZenonT(30) DEF OnItsWay, c
<1>6. s.cleanup \cup gone \subseteq Boats(n) /\ (s.cleanup \cup gone) \cap c.boat = {}
  BY ZenonT(30) DEF Apart, c
<1>7. s.cleanup \cup gone \subseteq Boats(n + 1) /\ (s.cleanup \cup gone) \cap new.boat = {}
  BY <1>2, <1>3, <1>6, ZenonT(30)
<1>8. n + 1 \in Nat /\ new.iceberg = LatestTable(s).iceberg
  BY <1>3, SMTT(30) DEF c
<1>9. /\ u \in StoreSet /\ u.panicked # "iceberg_commit"
      /\ Numbered(u) /\ Whole(LatestTable(u), n + 1, rows \cup {n + 1})
      /\ OnItsWay(u, job, files) /\ Apart(u, gone, n + 1)
      /\ u.ids # 0
      /\ \A id \in u.not_compacted : id < u.ids
      /\ u.item # NoItem => u.item.id < u.ids
  BY <1>3, <1>4, <1>5, <1>7, <1>8, StoredKeeps, ZenonT(30)
<1> HIDE DEF u
<1>10. /\ t \in StoreSet /\ Numbered(t) /\ OnItsWay(t, job, files)
       /\ LatestTable(t) = LatestTable(u) /\ t.cleanup = u.cleanup
       /\ t.panicked = u.panicked
  BY <1>9, AskForCompactionKeeps, Zenon
<1> HIDE DEF t
<1>11. Whole(LatestTable(t), n + 1, rows \cup {n + 1}) /\ Apart(t, gone, n + 1)
  BY <1>9, <1>10, Zenon DEF Apart
<1>12. CommitRows(s, n + 1) = t
  BY Zenon DEF CommitRows, t, u, new, c, file
<1> QED
  BY <1>9, <1>10, <1>11, <1>12, Zenon

\* A delete commit hides its row and no other.
LEMMA EraseKeeps ==
  ASSUME NEW s \in StoreSet, Numbered(s), s.panicked # "iceberg_commit",
         NEW n \in Nat, NEW rows, Whole(LatestTable(s), n, rows), NEW row \in rows,
         NEW job, NEW files, OnItsWay(s, job, files),
         NEW gone, Apart(s, gone, n)
  PROVE  LET t == CommitDelete(s, row)
         IN /\ t \in StoreSet /\ t.panicked # "iceberg_commit"
            /\ Numbered(t) /\ Whole(LatestTable(t), n, rows \ {row})
            /\ OnItsWay(t, job, files) /\ Apart(t, gone, n)
<1> DEFINE c == LatestTable(s)
           new == [c EXCEPT !.dels = @ \cup {row}]
           t == StoreCheckpoint(s, new)
<1>1. c \in TableSet
  BY LatestIsATable, Zenon
<1>2. row \in 1 .. n
  <2>1. row \in RowsOf(DataFiles(c))
    BY Zenon DEF Whole, LiveRows
  <2>2. PICK f \in DataFiles(c) : row \in f[2]
    BY <2>1, Zenon DEF RowsOf
  <2> QED
    BY <2>2, Zenon DEF Whole
<1> HIDE DEF c
<1>3. new \in TableSet /\ new.iceberg = c.iceberg /\ new.dels = c.dels \cup {row} /\ new.boat = c.boat
  BY <1>1, <1>2, SMTT(30) DEF TableSet
<1> HIDE DEF new
<1>4. Whole(new, n, rows \ {row})
  <2>1. Whole(c, n, rows)
    BY Zenon DEF c
  <2>2. DataFiles(new) = DataFiles(c) /\ LiveRows(new) = LiveRows(c) \ {row}
    BY <1>3, Zenon DEF DataFiles, LiveRows
  <2> QED
    BY <1>2, <1>3, <2>1, <2>2, ZenonT(30) DEF Whole
<1>5. /\ t \in StoreSet
      /\ t.ids = s.ids + 1 /\ t.latest["none"] = s.ids + 1
      /\ DOMAIN t.checkpoints = DOMAIN s.checkpoints \cup {s.ids + 1}
      /\ t.item = s.item /\ t.in_progress = s.in_progress
      /\ t.not_compacted = s.not_compacted /\ t.cleanup = s.cleanup
      /\ t.panicked = s.panicked
      /\ SameFiles(new, LatestTable(t))
  BY <1>3, StoreCheckpointFacts, Zenon
<1> HIDE DEF t
<1>6. Numbered(t)
  BY <1>5, StoredIsNumbered, Zenon
<1>7. Whole(LatestTable(t), n, rows \ {row})
  <2>1. DataFiles(LatestTable(t)) = DataFiles(new) /\ LiveRows(LatestTable(t)) = LiveRows(new)
    BY <1>5, Zenon DEF SameFiles, DataFiles, LiveRows
  <2> QED
    BY <1>4, <1>5, <2>1, Zenon DEF SameFiles, Whole
<1>8. OnItsWay(t, job, files) /\ Apart(t, gone, n)
  BY <1>3, <1>5, ZenonT(30) DEF SameFiles, OnItsWay, Apart, c
<1>9. CommitDelete(s, row) = t
  BY Zenon DEF CommitDelete, t, new, c
<1> QED
  BY <1>5, <1>6, <1>7, <1>8, <1>9, Zenon

----------------------------------------------------------------------------
(* The commit of a compaction. *)

\* The file a compaction writes is an Iceberg file with rows of the table.
LEMMA CompactedFileFacts ==
  ASSUME NEW it \in ItemSet
  PROVE  CompactedFile(it) \in IcebergFiles /\ CompactedFile(it) \in Files
<1>1. it.boat \in SUBSET Files
  BY Zenon DEF ItemSet
<1>2. RowsOf(it.boat) \subseteq Nat
  BY <1>1, Zenon DEF RowsOf, Files
<1>3. RowsOf(it.boat) \ it.dels \in SUBSET Nat
  BY <1>2, Zenon
<1> QED
  BY <1>3, Zenon DEF CompactedFile, IcebergFiles, Files

\* Replacing the files an item names by the one that holds their visible
\* rows changes no row of the table.
LEMMA CompactedTableIsWhole ==
  ASSUME NEW c \in TableSet, NEW n \in Nat, NEW rows, Whole(c, n, rows),
         NEW it \in ItemSet, it.boat \subseteq c.boat, it.dels \subseteq c.dels,
         NEW new \in TableSet,
         new.iceberg = c.iceberg \cup {CompactedFile(it)},
         new.boat = c.boat \ it.boat, new.dels = c.dels \ it.dels
  PROVE  Whole(new, n, rows)
<1> DEFINE F == CompactedFile(it)
           moved == RowsOf(it.boat) \ it.dels
<1>1. F \in IcebergFiles /\ F[2] = moved
  <2>1. moved \in SUBSET Nat
    BY DEF RowsOf, ItemSet, Files
  <2> QED
    BY <2>1, Zenon DEF IcebergFiles, CompactedFile
<1>2. \A r \in moved : \E f \in it.boat : r \in f[2]
  BY Zenon DEF RowsOf
<1>3. \A f \in c.boat \cup c.iceberg : f[2] \subseteq 1 .. n
  BY Zenon DEF Whole, DataFiles
<1>4. \A f, g \in c.boat \cup c.iceberg : f # g => f[2] \cap g[2] = {}
  BY Zenon DEF Whole, DataFiles
<1>5. \A f \in c.boat : f \notin IcebergFiles
  BY BoatFacts, Zenon DEF Whole
<1>6. c.iceberg \subseteq IcebergFiles /\ c.boat \subseteq Boats(n) /\ c.dels \subseteq 1 .. n
  BY Zenon DEF Whole
<1>7. DataFiles(new) = c.iceberg \cup {F} \cup (c.boat \ it.boat)
  BY Zenon DEF DataFiles
<1> HIDE DEF F, moved
<1>8. moved \subseteq 1 .. n
  BY <1>2, <1>3, Zenon
<1>9. \A f \in DataFiles(new) : f[2] \subseteq 1 .. n
  BY <1>1, <1>3, <1>7, <1>8, Zenon
<1>10. \A f \in c.iceberg \cup (c.boat \ it.boat) : f[2] \cap moved = {}
  <2> SUFFICES ASSUME NEW f \in c.iceberg \cup (c.boat \ it.boat), NEW r \in f[2], r \in moved
               PROVE  FALSE
    OBVIOUS
  <2>1. PICK g \in it.boat : r \in g[2]
    BY <1>2, Zenon
  <2>2. g \in c.boat /\ f \in c.boat \cup c.iceberg /\ f # g
    BY <1>5, <1>6, Zenon
  <2> QED
    BY <1>4, <2>1, <2>2, ZenonT(30)
<1>11. \A f, g \in DataFiles(new) : f # g => f[2] \cap g[2] = {}
  BY <1>1, <1>4, <1>7, <1>10, ZenonT(30)
<1>12. rows \subseteq LiveRows(new)
  <2> SUFFICES ASSUME NEW r \in rows
               PROVE  r \in LiveRows(new)
    BY Zenon
  <2>1. r \in RowsOf(DataFiles(c)) /\ r \notin c.dels
    BY Zenon DEF Whole, LiveRows
  <2>2. PICK f \in c.boat \cup c.iceberg : r \in f[2]
    BY <2>1, ZenonT(30) DEF RowsOf, DataFiles
  <2>3. \E g \in DataFiles(new) : r \in g[2]
    <3>1. CASE f \in it.boat
      <4>1. r \in moved
        BY <2>1, <2>2, <3>1, ZenonT(30) DEF moved, RowsOf
      <4> QED
        BY <1>1, <1>7, <4>1, Zenon
    <3>2. CASE f \notin it.boat
      BY <1>7, <2>2, <3>2, Zenon
    <3> QED
      BY <3>1, <3>2, Zenon
  <2>4. r \in RowsOf(DataFiles(new))
    BY <2>3, Zenon DEF RowsOf
  <2> QED
    BY <2>1, <2>4, Zenon DEF LiveRows
<1> QED
  BY <1>1, <1>6, <1>9, <1>11, <1>12, Zenon DEF Whole, F

\* The six assertions of replace_and_delete_checkpoints hold.
LEMMA IcebergKeeps ==
  ASSUME NEW s \in StoreSet, Numbered(s), s.panicked # "iceberg_commit",
         NEW n \in Nat, NEW rows, Whole(LatestTable(s), n, rows),
         NEW job, NEW files, job.phase = "appended", job.item \in ItemSet, OnItsWay(s, job, files),
         NEW gone, Apart(s, gone, n)
  PROVE  LET t == CommitIceberg(s, files, job.item, CompactedFile(job.item))
         IN /\ t \in StoreSet /\ t.panicked # "iceberg_commit"
            /\ Numbered(t) /\ Whole(LatestTable(t), n, rows)
            /\ OnItsWay(t, IdleCompactJob, files) /\ Apart(t, gone, n)
<1> DEFINE c == LatestTable(s)
           it == job.item
           F == CompactedFile(it)
           new == WithoutCompacted([c EXCEPT !.iceberg = files], it)
           v == StoreCheckpoint(s, new)
           u == AskForIndex(v)
           h == [id \in DOMAIN u.checkpoints \ it.drop |->
                   IF id = it.id THEN apply_compaction_for_replacement(u.checkpoints[id], it, F)
                                   ELSE u.checkpoints[id]]
           t == [u EXCEPT !.checkpoints = h, !.item = NoItem, !.in_progress = FALSE,
                          !.cleanup = @ \cup it.boat]
<1>1. c \in TableSet
  BY LatestIsATable, Zenon
<1>2. /\ s.in_progress /\ s.item # NoItem /\ it = s.item
      /\ files = c.iceberg \cup {F}
      /\ it.boat \subseteq c.boat /\ it.dels \subseteq c.dels
  BY Zenon DEF OnItsWay
<1>3. F \in IcebergFiles /\ F \in Files
  BY CompactedFileFacts, Zenon
<1>4. it \in ItemSet
  BY Zenon
<1>5. Whole(c, n, rows) /\ s.cleanup \cup gone \subseteq Boats(n) /\ (s.cleanup \cup gone) \cap c.boat = {}
  BY Zenon DEF Apart
<1> HIDE DEF F, c, it
<1>6. new \in TableSet /\ new.iceberg = c.iceberg \cup {F}
      /\ new.boat = c.boat \ it.boat /\ new.dels = c.dels \ it.dels
  BY <1>1, <1>2, <1>3, ZenonT(30) DEF WithoutCompacted, TableSet
<1> HIDE DEF new
<1>7. Whole(new, n, rows)
  BY <1>1, <1>2, <1>4, <1>5, <1>6, CompactedTableIsWhole, ZenonT(30) DEF F
<1>8. /\ v \in StoreSet
      /\ v.ids = s.ids + 1 /\ v.latest["none"] = s.ids + 1
      /\ DOMAIN v.checkpoints = DOMAIN s.checkpoints \cup {s.ids + 1}
      /\ v.item = s.item /\ v.in_progress = s.in_progress
      /\ v.not_compacted = s.not_compacted /\ v.cleanup = s.cleanup
      /\ v.panicked = s.panicked
      /\ SameFiles(new, LatestTable(v))
  BY <1>6, StoreCheckpointFacts, Zenon
<1> HIDE DEF v
<1>9. Numbered(v)
  BY <1>8, StoredIsNumbered, Zenon
<1>10. u \in StoreSet /\ SameBooks(v, u)
  BY <1>8, <1>9, AskForIndexKeeps, Zenon
<1> HIDE DEF u
<1>11. /\ u.ids = s.ids + 1 /\ u.latest["none"] = s.ids + 1
       /\ DOMAIN u.checkpoints = DOMAIN s.checkpoints \cup {s.ids + 1}
       /\ u.item = it /\ u.in_progress /\ u.not_compacted = s.not_compacted
       /\ u.cleanup = s.cleanup /\ u.panicked # "iceberg_commit"
       /\ SameFiles(new, LatestTable(u))
  BY <1>2, <1>8, <1>10, ZenonT(30) DEF SameBooks, SameFiles
<1>12. s.ids \in Nat /\ u.checkpoints \in Histories
  BY <1>10, Zenon DEF StoreSet
<1>13. /\ {it.id} \cup it.drop \subseteq DOMAIN s.checkpoints
       /\ DOMAIN s.checkpoints \subseteq 1 .. s.ids
       /\ \A d \in it.drop : d < it.id
       /\ \A m \in s.not_compacted : m > it.id
       /\ s.not_compacted \subseteq DOMAIN s.checkpoints
  BY <1>2, Zenon DEF Numbered
<1>14. ReplaceAssertions(u, it)
  BY <1>2, <1>11, <1>13, Zenon DEF ReplaceAssertions
<1>15. CommitIceberg(s, files, job.item, CompactedFile(job.item)) = t
  BY <1>14, Zenon DEF CommitIceberg, replace_and_delete_checkpoints, t, u, v, new, c, it, F
<1>16. h \in Histories
  <2>1. \A id \in DOMAIN u.checkpoints : u.checkpoints[id] \in TableSet
    BY <1>12, HistoryFacts, Zenon
  <2>2. \A d \in TableSet : apply_compaction_for_replacement(d, it, F) \in TableSet
    BY <1>3, Zenon DEF apply_compaction_for_replacement, WithoutCompacted, TableSet
  <2>3. h \in [DOMAIN u.checkpoints \ it.drop -> TableSet]
    BY <2>1, <2>2, Zenon
  <2>4. DOMAIN u.checkpoints \ it.drop \in SUBSET Nat
    BY <1>12, HistoryFacts, Zenon
  <2> QED
    BY <2>3, <2>4, IntoHistories, Zenon
<1>17. s.ids + 1 \notin it.drop /\ s.ids + 1 # it.id /\ s.ids + 1 # 0
  BY <1>12, <1>13, SMTT(30)
<1>18. h[s.ids + 1] = u.checkpoints[s.ids + 1] /\ DOMAIN h = DOMAIN u.checkpoints \ it.drop
  BY <1>11, <1>17, Zenon
<1> HIDE DEF h
<1>19. /\ t \in StoreSet /\ t.ids = s.ids + 1 /\ t.latest["none"] = s.ids + 1
       /\ t.checkpoints = h /\ t.item = NoItem /\ t.in_progress = FALSE
       /\ t.not_compacted = s.not_compacted /\ t.cleanup = s.cleanup \cup it.boat
       /\ t.panicked # "iceberg_commit"
  <2>1. NoItem \in ItemSet
    BY Zenon DEF NoItem, ItemSet
  <2>2. it.boat \in SUBSET Files
    BY <1>4, Zenon DEF ItemSet
  <2> QED
    BY <1>10, <1>11, <1>16, <2>1, <2>2, ZenonT(30) DEF StoreSet
<1> HIDE DEF t
<1>20. LatestTable(t) = LatestTable(u)
  BY <1>11, <1>17, <1>18, <1>19, Zenon DEF LatestTable
<1>21. Numbered(t)
  <2>1. s.not_compacted \cap it.drop = {}
    <3>1. \A d \in it.drop, m \in s.not_compacted : d \in Nat /\ m \in Nat /\ it.id \in Nat /\ d < it.id /\ m > it.id
      BY <1>12, <1>13, SMTT(30)
    <3> QED
      BY <3>1
  <2>2. DOMAIN h = (DOMAIN s.checkpoints \cup {s.ids + 1}) \ it.drop
    BY <1>11, <1>18, Zenon
  <2> QED
    <3>1. DOMAIN t.checkpoints = (DOMAIN s.checkpoints \cup {s.ids + 1}) \ it.drop
      BY <1>19, <2>2, Zenon
    <3>2. DOMAIN t.checkpoints \subseteq 1 .. (s.ids + 1) /\ s.ids + 1 \in DOMAIN t.checkpoints
      BY <1>12, <1>13, <1>17, <3>1, SMTT(30)
    <3>3. s.not_compacted \subseteq DOMAIN t.checkpoints
      BY <1>13, <2>1, <3>1, Zenon
    <3> QED
      BY <1>19, <3>2, <3>3, Zenon DEF Numbered
<1>22. Whole(LatestTable(t), n, rows)
  <2>1. DataFiles(LatestTable(t)) = DataFiles(new) /\ LiveRows(LatestTable(t)) = LiveRows(new)
    BY <1>11, <1>20, Zenon DEF SameFiles, DataFiles, LiveRows
  <2> QED
    BY <1>7, <1>11, <1>20, <2>1, ZenonT(30) DEF SameFiles, Whole
<1>23. OnItsWay(t, IdleCompactJob, files)
  BY <1>2, <1>6, <1>11, <1>19, <1>20, ZenonT(30) DEF OnItsWay, IdleCompactJob, SameFiles
<1>24. Apart(t, gone, n)
  <2>1. c.boat \subseteq Boats(n)
    BY <1>5, Zenon DEF Whole
  <2>2. LatestTable(t).boat = c.boat \ it.boat
    BY <1>6, <1>11, <1>20, Zenon DEF SameFiles
  <2> QED
    BY <1>2, <1>5, <1>19, <2>1, <2>2, ZenonT(30) DEF Apart
<1> QED
  BY <1>15, <1>19, <1>21, <1>22, <1>23, <1>24, Zenon

----------------------------------------------------------------------------
(* Index commits. *)

\* The newest of some checkpoints is one of them.
LEMMA NewestFacts ==
  ASSUME NEW n \in Nat, NEW S \in SUBSET (1 .. n), S # {}
  PROVE  Newest(S) \in S
<1> DEFINE T == {n - id : id \in S}
           R == OpToRel(<, Nat)
<1>0. \A id \in S : id \in Nat /\ n - id \in Nat
  OBVIOUS
<1>1. T \subseteq Nat /\ T # {}
  BY <1>0, Zenon
<1>2. IsWellFoundedOn(R, Nat)
  BY NatLessThanWellFounded, Zenon
<1>3. \A x, y \in Nat : <<y, x>> \notin R => x <= y
  BY DEF OpToRel
<1> HIDE DEF R
<1>4. \E x \in T : \A y \in T : ~(<<y, x>> \in R)
  <2> HIDE DEF T
  <2> QED
    BY <1>1, <1>2, WFMin, Zenon
<1>5. PICK top \in S : \A id \in S : ~(<<n - id, n - top>> \in R)
  BY <1>4, Zenon
<1>6. \A id \in S : id <= top
  <2> SUFFICES ASSUME NEW id \in S
               PROVE  id <= top
    OBVIOUS
  <2>1. n - top <= n - id
    BY <1>0, <1>3, <1>5, Zenon
  <2> QED
    BY <1>0, <2>1
<1> QED
  BY <1>6, Zenon DEF Newest

\* An extension commit covers checkpoints and moves the search frontier; it
\* changes no file of a table.
LEMMA IndexKeeps ==
  ASSUME NEW s \in StoreSet, Numbered(s), s.panicked = "no", NEW files \in SUBSET Files
  PROVE  CommitIndex(s, files) \in StoreSet /\ SameBooks(s, CommitIndex(s, files))
<1> DEFINE h == [id \in DOMAIN s.checkpoints |->
                   IF id \in s.waiting
                   THEN [s.checkpoints[id] EXCEPT !.covered = @ \cup (files \cap DataFiles(s.checkpoints[id]))]
                   ELSE s.checkpoints[id]]
           after == CoverWaiting(s, files)
           done == Covered(after)
           es == IF Newest(done) > s.latest["es"] THEN Newest(done) ELSE s.latest["es"]
           latest == [s.latest EXCEPT !["es"] = es]
           t == [after EXCEPT !.waiting = @ \ done, !.recent = @ \cup files, !.latest = latest]
           Good(r) == r \in StoreSet /\ SameBooks(s, r)
<1>1. s.checkpoints \in Histories /\ s.ids \in Nat /\ s.latest \in [Parts -> Nat]
      /\ s.latest["none"] = s.ids
  BY Zenon DEF StoreSet, Numbered
<1>2. \A id \in DOMAIN s.checkpoints :
        /\ h[id] \in TableSet /\ SameFiles(s.checkpoints[id], h[id])
  <2>1. \A c \in TableSet :
          LET d == [c EXCEPT !.covered = @ \cup (files \cap DataFiles(c))]
          IN d \in TableSet /\ SameFiles(c, d) /\ SameFiles(c, c)
    BY Zenon DEF TableSet, SameFiles
  <2>2. \A id \in DOMAIN s.checkpoints : s.checkpoints[id] \in TableSet
    BY <1>1, HistoryFacts, Zenon
  <2> QED
    BY <2>1, <2>2, Zenon
<1>3. DOMAIN h = DOMAIN s.checkpoints /\ h \in Histories
  <2>1. h \in [DOMAIN s.checkpoints -> TableSet]
    BY <1>2, Zenon
  <2>2. DOMAIN s.checkpoints \in SUBSET Nat
    BY <1>1, HistoryFacts, Zenon
  <2> QED
    BY <2>1, <2>2, IntoHistories, ZenonT(30)
<1>4. after = [s EXCEPT !.checkpoints = h]
  BY Zenon DEF CoverWaiting
<1> HIDE DEF h, after
<1>5. after \in StoreSet /\ after.checkpoints = h /\ after.latest = s.latest /\ after.ids = s.ids
      /\ after.item = s.item /\ after.in_progress = s.in_progress
      /\ after.not_compacted = s.not_compacted /\ after.cleanup = s.cleanup
      /\ after.panicked = s.panicked /\ after.waiting = s.waiting /\ after.recent = s.recent
  BY <1>3, <1>4, Zenon DEF StoreSet
<1>6. \A r : r.latest["none"] = s.ids /\ r.checkpoints = h
             => SameFiles(LatestTable(s), LatestTable(r))
  <2>1. s.ids # 0 => s.ids \in DOMAIN s.checkpoints
    BY Zenon DEF Numbered
  <2> QED
    BY <1>1, <1>2, <2>1, ZenonT(30) DEF LatestTable, SameFiles
<1>7. Good([s EXCEPT !.panicked = "extension_commit"])
  <2> DEFINE r == [s EXCEPT !.panicked = "extension_commit"]
  <2>1. r \in StoreSet
    BY Zenon DEF StoreSet, Panics
  <2>2. /\ r.ids = s.ids /\ r.latest = s.latest /\ r.checkpoints = s.checkpoints
        /\ r.item = s.item /\ r.in_progress = s.in_progress /\ r.not_compacted = s.not_compacted
        /\ r.cleanup = s.cleanup /\ r.panicked = "extension_commit"
    BY Zenon DEF StoreSet
  <2> HIDE DEF r
  <2>3. SameBooks(s, r)
    BY <2>2, Zenon DEF SameBooks, SameFiles, LatestTable
  <2> QED
    BY <2>1, <2>3, Zenon DEF r
<1>8. Good([after EXCEPT !.panicked = "extension_commit"])
  <2> DEFINE r == [after EXCEPT !.panicked = "extension_commit"]
  <2>1. r \in StoreSet
    BY <1>5, Zenon DEF StoreSet, Panics
  <2>2. /\ r.ids = s.ids /\ r.latest = s.latest /\ r.checkpoints = h
        /\ r.item = s.item /\ r.in_progress = s.in_progress /\ r.not_compacted = s.not_compacted
        /\ r.cleanup = s.cleanup /\ r.panicked = "extension_commit"
    BY <1>5, Zenon DEF StoreSet
  <2> HIDE DEF r
  <2>3. SameBooks(s, r)
    BY <1>1, <1>3, <1>6, <2>2, Zenon DEF SameBooks
  <2> QED
    BY <2>1, <2>3, Zenon DEF r
<1>9. ASSUME s.waiting \subseteq DOMAIN s.checkpoints, done # {}
      PROVE  Good(t)
  <2>1. done \subseteq s.waiting
    BY <1>5, Zenon DEF Covered
  <2>2. done \in SUBSET (1 .. s.ids)
    BY <1>9, <2>1, Zenon DEF Numbered
  <2>3. Newest(done) \in Nat
    <3>1. Newest(done) \in done
      BY <1>1, <1>9, <2>2, NewestFacts, Zenon
    <3> QED
      BY <2>2, <3>1
  <2> HIDE DEF done
  <2>4. latest \in [Parts -> Nat] /\ latest["none"] = s.ids
    BY <1>1, <2>3, Zenon DEF Parts
  <2> HIDE DEF latest
  <2>5. t \in StoreSet
    BY <1>5, <2>4, Zenon DEF StoreSet
  <2>6. /\ t.ids = s.ids /\ t.latest = latest /\ t.checkpoints = h
        /\ t.item = s.item /\ t.in_progress = s.in_progress /\ t.not_compacted = s.not_compacted
        /\ t.cleanup = s.cleanup /\ t.panicked = "no"
    BY <1>5, Zenon DEF StoreSet
  <2> HIDE DEF t
  <2>7. SameBooks(s, t)
    BY <1>1, <1>3, <1>6, <2>4, <2>6, Zenon DEF SameBooks
  <2> QED
    BY <2>5, <2>7, Zenon
<1>10. \/ CommitIndex(s, files) = [s EXCEPT !.panicked = "extension_commit"]
       \/ CommitIndex(s, files) = [after EXCEPT !.panicked = "extension_commit"]
       \/ /\ s.waiting \subseteq DOMAIN s.checkpoints /\ done # {}
          /\ CommitIndex(s, files) = t
  BY <1>5, Zenon DEF CommitIndex, after, StoreSet
<1> HIDE DEF t, done, Good
<1>11. Good(CommitIndex(s, files))
  BY <1>7, <1>8, <1>9, <1>10, Zenon
<1> QED
  BY <1>11, Zenon DEF Good

----------------------------------------------------------------------------
(* The invariant. *)

\* The service starts with the empty table.
LEMMA MemoryInitially == MemoryInit => MemoryInv
<1> SUFFICES ASSUME MemoryInit
             PROVE  MemoryInv
  OBVIOUS
<1>1. store = EmptyStore /\ lake = {} /\ removed = {} /\ compactJob = IdleCompactJob
      /\ made = 0 /\ kept = {}
  BY Zenon DEF MemoryInit
<1>2. EmptyStore \in StoreSet
  <2>1. [id \in {} |-> EmptyTable] \in Histories
    <3>1. [id \in {} |-> EmptyTable] \in [{} -> TableSet]
      OBVIOUS
    <3> QED
      BY <3>1, Zenon DEF Histories
  <2>2. NoItem \in ItemSet
    BY Zenon DEF NoItem, ItemSet
  <2> QED
    BY <2>1, <2>2, Zenon DEF EmptyStore, StoreSet, Parts, Panics
<1>3. MemoryTyped
  BY <1>2, Zenon DEF MemoryInit, MemoryTyped, IdleIndexJob, IdleCompactJob, NoItem, ItemSet
<1>4. /\ EmptyStore.latest["none"] = 0 /\ EmptyStore.ids = 0 /\ EmptyStore.item = NoItem
      /\ DOMAIN EmptyStore.checkpoints = {} /\ EmptyStore.not_compacted = {}
      /\ EmptyStore.in_progress = FALSE /\ EmptyStore.cleanup = {} /\ EmptyStore.panicked = "no"
  BY Zenon DEF EmptyStore, Parts
<1>5. LatestTable(EmptyStore) = EmptyTable
  BY <1>4, Zenon DEF LatestTable
<1>6. Numbered(EmptyStore)
  BY <1>4, Zenon DEF Numbered
<1>7. Whole(EmptyTable, 0, {})
  BY Zenon DEF Whole, EmptyTable, DataFiles, LiveRows
<1>8. OnItsWay(EmptyStore, IdleCompactJob, {}) /\ Apart(EmptyStore, {}, 0)
  <2>1. EmptyTable.boat = {} /\ EmptyTable.iceberg = {} /\ IdleCompactJob.phase = "idle"
    BY Zenon DEF EmptyTable, IdleCompactJob
  <2>2. OnItsWay(EmptyStore, IdleCompactJob, {})
    BY <1>4, <1>5, <2>1, Zenon DEF OnItsWay
  <2>3. Apart(EmptyStore, {}, 0)
    BY <1>4, <1>5, <2>1, Zenon DEF Apart
  <2> QED
    BY <2>2, <2>3, Zenon
<1>9. CompactionAssertionsHold
  BY <1>1, <1>4, Zenon DEF CompactionAssertionsHold
<1> QED
  BY <1>1, <1>3, <1>5, <1>6, <1>7, <1>8, <1>9, ZenonT(30) DEF MemoryInv

\* One step per call of the service and per step of its jobs.
LEMMA MemoryStep == MemoryInv /\ [MemoryNext]_memoryVars => MemoryInv'
<1> SUFFICES ASSUME MemoryInv, [MemoryNext]_memoryVars
             PROVE  MemoryInv'
  OBVIOUS
<1> USE DEF MemoryInv, CompactionAssertionsHold
<1>0. /\ store \in StoreSet /\ made \in Nat /\ kept \in SUBSET Nat
      /\ compactJob \in [phase : {"idle", "claimed", "noted", "appended"}, item : ItemSet]
      /\ indexJob \in [phase : {"idle", "claimed", "built"}, claim : SUBSET Files, built : SUBSET Files]
      /\ lake \in SUBSET Files /\ removed \in SUBSET Files /\ sidecars \in SUBSET Files
      /\ toggles \in Nat /\ readOnly \in BOOLEAN /\ cleanJob \in {"running", "panicked"}
  BY Zenon DEF MemoryTyped
<1>1. CASE speedboat_insert
  <2> DEFINE s == CommitRows(store, made + 1)
  <2>1. /\ s \in StoreSet /\ s.panicked # "iceberg_commit"
        /\ Numbered(s) /\ Whole(LatestTable(s), made + 1, kept \cup {made + 1})
        /\ OnItsWay(s, compactJob, lake) /\ Apart(s, removed, made + 1)
    BY <1>0, InsertKeeps, Zenon
  <2> HIDE DEF s
  <2>2. Requested(s) \in StoreSet /\ SameBooks(s, Requested(s))
    BY <2>1, RequestedKeeps, Zenon
  <2>3. /\ Numbered(Requested(s)) /\ Whole(LatestTable(Requested(s)), made + 1, kept \cup {made + 1})
        /\ OnItsWay(Requested(s), compactJob, lake) /\ Apart(Requested(s), removed, made + 1)
    BY <2>1, <2>2, SameBooksKeep, Zenon
  <2>4. Requested(s).panicked # "iceberg_commit"
    BY <2>2, Zenon DEF SameBooks
  <2>5. store' = Requested(s) /\ made' = made + 1 /\ kept' = kept \cup {made + 1}
        /\ UNCHANGED <<readOnly, disk, jobs, toggles>>
    BY <1>1, Zenon DEF speedboat_insert, s
  <2>6. MemoryTyped'
    BY <1>0, <2>2, <2>5 DEF MemoryTyped, disk, jobs
  <2> QED
    BY <2>3, <2>4, <2>5, <2>6, Zenon DEF disk, jobs
<1>2. ASSUME NEW row \in kept, speedboat_delete(row)
      PROVE  MemoryInv'
  <2> DEFINE s == CommitDelete(store, row)
  <2>1. /\ s \in StoreSet /\ s.panicked # "iceberg_commit"
        /\ Numbered(s) /\ Whole(LatestTable(s), made, kept \ {row})
        /\ OnItsWay(s, compactJob, lake) /\ Apart(s, removed, made)
    BY <1>0, EraseKeeps, Zenon
  <2> HIDE DEF s
  <2>2. Requested(s) \in StoreSet /\ SameBooks(s, Requested(s))
    BY <2>1, RequestedKeeps, Zenon
  <2>3. /\ Numbered(Requested(s)) /\ Whole(LatestTable(Requested(s)), made, kept \ {row})
        /\ OnItsWay(Requested(s), compactJob, lake) /\ Apart(Requested(s), removed, made)
    BY <2>1, <2>2, SameBooksKeep, Zenon
  <2>4. Requested(s).panicked # "iceberg_commit"
    BY <2>2, Zenon DEF SameBooks
  <2>5. store' = Requested(s) /\ made' = made /\ kept' = kept \ {row}
        /\ UNCHANGED <<readOnly, disk, jobs, toggles>>
    BY <1>2, Zenon DEF speedboat_delete, s
  <2>6. MemoryTyped'
    BY <1>0, <2>2, <2>5, Zenon DEF MemoryTyped, disk, jobs
  <2> QED
    BY <2>3, <2>4, <2>5, <2>6, ZenonT(30) DEF disk, jobs
<1>3. ASSUME MemoryTyped', SameBooks(store, store'), made' = made, kept' = kept, removed' = removed,
             OnItsWay(store, compactJob, lake) => OnItsWay(store, compactJob', lake')
      PROVE  MemoryInv'
  <2>1. /\ Numbered(store') /\ Whole(LatestTable(store'), made, kept)
        /\ OnItsWay(store', compactJob', lake') /\ Apart(store', removed, made)
    BY <1>3, SameBooksKeep, Zenon
  <2>2. store'.panicked # "iceberg_commit"
    BY <1>3, Zenon DEF SameBooks
  <2> QED
    BY <1>3, <2>1, <2>2, Zenon
<1>4. SameBooks(store, store)
  BY Zenon DEF SameBooks, SameFiles
<1>5. CASE publish_all
  <2> DEFINE s == [store EXCEPT !.published = store.latest, !.requested = FALSE]
  <2>1. s \in StoreSet /\ SameBooks(store, s)
    BY <1>0, Zenon DEF StoreSet, SameBooks, SameFiles, LatestTable
  <2> HIDE DEF s
  <2>2. store' = s /\ UNCHANGED <<readOnly, disk, jobs, made, kept, toggles>>
    BY <1>5, Zenon DEF publish_all, s
  <2>3. MemoryTyped'
    BY <1>0, <2>1, <2>2, Zenon DEF MemoryTyped, disk, jobs
  <2> QED
    BY <1>3, <2>1, <2>2, <2>3, Zenon DEF disk, jobs
<1>6. CASE SetApiMode
  <2>1. MemoryTyped'
    <3>1. readOnly' \in BOOLEAN /\ toggles' \in Nat
      BY <1>0, <1>6 DEF SetApiMode, Toggle
    <3>2. UNCHANGED <<store, lake, removed, sidecars, indexJob, compactJob, cleanJob, made, kept>>
      BY <1>6, Zenon DEF SetApiMode, disk, jobs
    <3> QED
      BY <1>0, <3>1, <3>2, Zenon DEF MemoryTyped
  <2> QED
    BY <1>3, <1>4, <1>6, <2>1, Zenon DEF SetApiMode, disk, jobs
<1>7. CASE claim_index_work
  <2> DEFINE s == [store EXCEPT !.work = {}]
  <2>1. s \in StoreSet /\ SameBooks(store, s)
    BY <1>0, Zenon DEF StoreSet, SameBooks, SameFiles, LatestTable
  <2>2. store.work \in SUBSET Files
    BY <1>0, Zenon DEF StoreSet
  <2> HIDE DEF s
  <2>3. store' = s /\ UNCHANGED <<readOnly, disk, compactJob, cleanJob, made, kept, toggles>>
        /\ indexJob' = [phase |-> "claimed", claim |-> store.work, built |-> {}]
    BY <1>7, Zenon DEF claim_index_work, s
  <2>4. MemoryTyped'
    BY <1>0, <2>1, <2>2, <2>3, Zenon DEF MemoryTyped, disk
  <2> QED
    BY <1>3, <2>1, <2>3, <2>4, Zenon DEF disk
<1>8. CASE build_index
  <2>1. MemoryTyped'
    BY <1>0, <1>8, Zenon DEF build_index, MemoryTyped
  <2> QED
    BY <1>3, <1>4, <1>8, <2>1, ZenonT(30) DEF build_index
<1>9. CASE commit_index
  <2>1. UNCHANGED <<readOnly, disk, compactJob, cleanJob, made, kept, toggles>>
        /\ indexJob' = IdleIndexJob
    BY <1>9, ZenonT(30) DEF commit_index
  <2>2. store' \in StoreSet /\ SameBooks(store, store')
    <3>1. CASE readOnly
      BY <1>0, <1>4, <1>9, <3>1, ZenonT(30) DEF commit_index
    <3>2. CASE ~readOnly
      <4> DEFINE s == CommitIndex(store, indexJob.built)
      <4>1. s \in StoreSet /\ SameBooks(store, s)
        BY <1>0, <1>9, IndexKeeps, ZenonT(30) DEF commit_index, Up
      <4> HIDE DEF s
      <4>2. Requested(s) \in StoreSet /\ SameBooks(s, Requested(s))
        BY <4>1, RequestedKeeps, Zenon DEF SameBooks
      <4>3. SameBooks(store, Requested(s))
        BY <4>1, <4>2, SameBooksCompose, ZenonT(30)
      <4>4. store' = Requested(s)
        BY <1>9, <3>2, ZenonT(30) DEF commit_index, s
      <4> QED
        BY <4>2, <4>3, <4>4, ZenonT(30)
    <3> QED
      BY <3>1, <3>2, Zenon
  <2>3. MemoryTyped'
    BY <1>0, <2>1, <2>2, Zenon DEF MemoryTyped, disk, IdleIndexJob
  <2> QED
    BY <1>3, <2>1, <2>2, <2>3, ZenonT(30) DEF disk
<1>10. CASE index_fails
  <2>1. MemoryTyped'
    <3>1. toggles' \in Nat /\ indexJob' = IdleIndexJob
      BY <1>0, <1>10, SMTT(30) DEF index_fails, Toggle
    <3>2. IdleIndexJob \in [phase : {"idle", "claimed", "built"}, claim : SUBSET Files, built : SUBSET Files]
      BY Zenon DEF IdleIndexJob
    <3>3. UNCHANGED <<store, readOnly, lake, removed, sidecars, compactJob, cleanJob, made, kept>>
      BY <1>10, Zenon DEF index_fails, disk
    <3> QED
      BY <1>0, <3>1, <3>2, <3>3, Zenon DEF MemoryTyped
  <2> QED
    BY <1>3, <1>4, <1>10, <2>1, Zenon DEF index_fails, disk
<1>11. CASE claim_compaction
  <2> DEFINE s == [store EXCEPT !.in_progress = TRUE]
  <2>1. /\ s \in StoreSet /\ s.ids = store.ids /\ s.latest = store.latest
        /\ s.checkpoints = store.checkpoints /\ s.item = store.item /\ s.in_progress = TRUE
        /\ s.not_compacted = store.not_compacted /\ s.cleanup = store.cleanup
        /\ s.panicked = store.panicked
    BY <1>0, Zenon DEF StoreSet
  <2> HIDE DEF s
  <2>2. /\ store' = s /\ UNCHANGED <<readOnly, disk, indexJob, cleanJob, made, kept, toggles>>
        /\ compactJob' = [phase |-> "claimed", item |-> store.item]
        /\ store.item # NoItem /\ ~store.in_progress
    BY <1>11, Zenon DEF claim_compaction, s
  <2>3. LatestTable(s) = LatestTable(store)
    BY <2>1, Zenon DEF LatestTable
  <2>4. Numbered(s) /\ Apart(s, removed, made)
    BY <2>1, <2>3, Zenon DEF Numbered, Apart
  <2>5. OnItsWay(s, [phase |-> "claimed", item |-> store.item], lake)
    BY <2>1, <2>2, <2>3, Zenon DEF OnItsWay
  <2>6. store.item \in ItemSet
    BY <1>0, Zenon DEF StoreSet
  <2>7. MemoryTyped'
    BY <1>0, <2>1, <2>2, <2>6, ZenonT(30) DEF MemoryTyped, disk
  <2> QED
    BY <2>1, <2>2, <2>3, <2>4, <2>5, <2>7, Zenon DEF disk
<1>12. CASE note_compaction
  <2>1. UNCHANGED <<readOnly, disk, indexJob, cleanJob, made, kept, toggles>>
        /\ compactJob.phase = "claimed"
    BY <1>12, Zenon DEF note_compaction
  <2>2. CASE readOnly
    <3>1. compactJob' = IdleCompactJob /\ store' = store
      BY <1>12, <2>2, ZenonT(30) DEF note_compaction
    <3>2. MemoryTyped'
      BY <1>0, <2>1, <3>1, Zenon DEF MemoryTyped, disk, IdleCompactJob, NoItem, ItemSet
    <3>3. OnItsWay(store, compactJob, lake) => OnItsWay(store, compactJob', lake')
      BY <2>1, <3>1, Zenon DEF OnItsWay, IdleCompactJob, disk
    <3> QED
      BY <1>3, <1>4, <2>1, <3>1, <3>2, <3>3, ZenonT(30) DEF disk
  <2>3. CASE ~readOnly
    <3> DEFINE s == [store EXCEPT !.notes = @ \cup {compactJob.item}]
               job == [compactJob EXCEPT !.phase = "noted"]
    <3>1. s \in StoreSet /\ SameBooks(store, s)
      BY <1>0, ZenonT(30) DEF StoreSet, SameBooks, SameFiles, LatestTable
    <3>2. /\ job \in [phase : {"idle", "claimed", "noted", "appended"}, item : ItemSet]
          /\ job.phase = "noted" /\ job.item = compactJob.item
      BY <1>0, ZenonT(30)
    <3> HIDE DEF s, job
    <3>3. store' = s /\ compactJob' = job
      BY <1>12, <2>3, ZenonT(30) DEF note_compaction, compaction_noted, CompactTo, s, job
    <3>4. MemoryTyped'
      BY <1>0, <2>1, <3>1, <3>2, <3>3, ZenonT(30) DEF MemoryTyped, disk
    <3>5. OnItsWay(store, compactJob, lake) => OnItsWay(store, compactJob', lake')
      BY <2>1, <3>2, <3>3, Zenon DEF OnItsWay, disk
    <3> QED
      BY <1>3, <2>1, <3>1, <3>3, <3>4, <3>5, ZenonT(30) DEF disk
  <2> QED
    BY <2>2, <2>3, ZenonT(30)
<1>13. CASE append_compacted
  <2> DEFINE job == [compactJob EXCEPT !.phase = "appended"]
  <2>1. /\ job \in [phase : {"idle", "claimed", "noted", "appended"}, item : ItemSet]
        /\ job.phase = "appended" /\ job.item = compactJob.item
    BY <1>0, Zenon
  <2> HIDE DEF job
  <2>2. /\ compactJob.phase = "noted" /\ compactJob' = job
        /\ lake' = lake \cup {CompactedFile(compactJob.item)}
        /\ UNCHANGED <<store, readOnly, removed, sidecars, indexJob, cleanJob, made, kept, toggles>>
    BY <1>13, Zenon DEF append_compacted, CompactTo, job
  <2>3. compactJob.item \in ItemSet
    BY <1>0, Zenon
  <2>4. CompactedFile(compactJob.item) \in Files
    BY <2>3, CompactedFileFacts, ZenonT(30)
  <2>5. MemoryTyped'
    BY <1>0, <2>1, <2>2, <2>4, ZenonT(30) DEF MemoryTyped
  <2>6. OnItsWay(store, compactJob, lake) => OnItsWay(store, compactJob', lake')
    BY <2>1, <2>2, Zenon DEF OnItsWay
  <2> QED
    BY <1>3, <1>4, <2>2, <2>5, <2>6, ZenonT(30)
<1>14. CASE commit_compacted
  <2>1. UNCHANGED <<readOnly, disk, indexJob, cleanJob, made, kept, toggles>>
        /\ compactJob.phase = "appended" /\ compactJob' = IdleCompactJob
    BY <1>14, Zenon DEF commit_compacted
  <2>2. IdleCompactJob \in [phase : {"idle", "claimed", "noted", "appended"}, item : ItemSet]
    BY Zenon DEF IdleCompactJob, NoItem, ItemSet
  <2>3. CASE readOnly
    <3>1. store' = store
      BY <1>14, <2>3, ZenonT(30) DEF commit_compacted
    <3>2. MemoryTyped'
      BY <1>0, <2>1, <2>2, <3>1, ZenonT(30) DEF MemoryTyped, disk
    <3>3. OnItsWay(store, compactJob, lake) => OnItsWay(store, compactJob', lake')
      BY <2>1, <3>1, Zenon DEF OnItsWay, IdleCompactJob, disk
    <3> QED
      BY <1>3, <1>4, <2>1, <3>1, <3>2, <3>3, ZenonT(30) DEF disk
  <2>4. CASE ~readOnly
    <3> DEFINE s == CommitIceberg(store, lake, compactJob.item, CompactedFile(compactJob.item))
    <3>1. /\ s \in StoreSet /\ s.panicked # "iceberg_commit"
          /\ Numbered(s) /\ Whole(LatestTable(s), made, kept)
          /\ OnItsWay(s, IdleCompactJob, lake) /\ Apart(s, removed, made)
      <4>1. compactJob.item \in ItemSet
        BY <1>0, Zenon
      <4> QED
        BY <1>0, <2>1, <4>1, IcebergKeeps, Zenon
    <3> HIDE DEF s
    <3>2. Requested(s) \in StoreSet /\ SameBooks(s, Requested(s))
      BY <3>1, RequestedKeeps, ZenonT(30)
    <3>3. /\ Numbered(Requested(s)) /\ Whole(LatestTable(Requested(s)), made, kept)
          /\ OnItsWay(Requested(s), IdleCompactJob, lake) /\ Apart(Requested(s), removed, made)
      BY <3>1, <3>2, SameBooksKeep, Zenon
    <3>4. Requested(s).panicked # "iceberg_commit"
      BY <3>2, Zenon DEF SameBooks
    <3>5. store' = Requested(s)
      BY <1>14, <2>4, ZenonT(30) DEF commit_compacted, s
    <3>6. MemoryTyped'
      BY <1>0, <2>1, <2>2, <3>2, <3>5, ZenonT(30) DEF MemoryTyped, disk
    <3> QED
      BY <2>1, <3>3, <3>4, <3>5, <3>6, ZenonT(30) DEF disk
  <2> QED
    BY <2>3, <2>4, Zenon
<1>15. CASE compaction_fails
  <2>1. compactJob' = IdleCompactJob /\ compactJob.phase = "noted"
        /\ UNCHANGED <<store, readOnly, disk, indexJob, cleanJob, made, kept>>
    BY <1>15, Zenon DEF compaction_fails
  <2>2. MemoryTyped'
    <3>1. toggles' \in Nat
      BY <1>0, <1>15 DEF compaction_fails, Toggle
    <3>2. IdleCompactJob \in [phase : {"idle", "claimed", "noted", "appended"}, item : ItemSet]
      BY Zenon DEF IdleCompactJob, NoItem, ItemSet
    <3>3. UNCHANGED <<store, readOnly, lake, removed, sidecars, indexJob, cleanJob, made, kept>>
      BY <2>1, Zenon DEF disk
    <3> QED
      BY <1>0, <2>1, <3>1, <3>2, <3>3, ZenonT(30) DEF MemoryTyped
  <2>3. OnItsWay(store, compactJob, lake) => OnItsWay(store, compactJob', lake')
    BY <2>1, Zenon DEF OnItsWay, IdleCompactJob, disk
  <2> QED
    BY <1>3, <1>4, <2>1, <2>2, <2>3, ZenonT(30) DEF disk
<1>16. CASE clean_up
  <2> DEFINE s == [store EXCEPT !.cleanup = {}]
  <2>1. /\ s \in StoreSet /\ s.ids = store.ids /\ s.latest = store.latest
        /\ s.checkpoints = store.checkpoints /\ s.item = store.item /\ s.in_progress = store.in_progress
        /\ s.not_compacted = store.not_compacted /\ s.cleanup = {}
        /\ s.panicked = store.panicked
    BY <1>0, Zenon DEF StoreSet
  <2> HIDE DEF s
  <2>2. /\ store' = s /\ UNCHANGED <<readOnly, lake, sidecars, indexJob, compactJob, made, kept, toggles>>
        /\ removed' = removed \cup store.cleanup
        /\ cleanJob' \in {"running", "panicked"}
    BY <1>0, <1>16, ZenonT(30) DEF clean_up, s
  <2>3. LatestTable(s) = LatestTable(store)
    BY <2>1, Zenon DEF LatestTable
  <2>4. Numbered(s) /\ Apart(s, removed \cup store.cleanup, made) /\ OnItsWay(s, compactJob, lake)
    BY <2>1, <2>3, Zenon DEF Numbered, Apart, OnItsWay
  <2>5. store.cleanup \in SUBSET Files
    BY <1>0, ZenonT(30) DEF StoreSet
  <2>6. MemoryTyped'
    BY <1>0, <2>1, <2>2, <2>5, Zenon DEF MemoryTyped
  <2> QED
    BY <2>1, <2>2, <2>3, <2>4, <2>6, Zenon
<1>17. CASE UNCHANGED memoryVars
  <2>1. UNCHANGED <<store, readOnly, lake, removed, sidecars, indexJob, compactJob, cleanJob, made, kept, toggles>>
    BY <1>17, Zenon DEF memoryVars, disk, jobs
  <2>2. MemoryTyped'
    BY <1>0, <2>1, ZenonT(30) DEF MemoryTyped
  <2> QED
    BY <1>3, <1>4, <2>1, <2>2, ZenonT(30)
<1> HIDE DEF MemoryInv
<1> QED
  BY <1>1, <1>2, <1>5, <1>6, <1>7, <1>8, <1>9, <1>10, <1>11, <1>12, <1>13, <1>14, <1>15, <1>16,
     <1>17, SMTT(30) DEF MemoryNext

\* The invariant is strong enough.
LEMMA WholeLatest == MemoryInv => LatestStaysWhole
<1> SUFFICES ASSUME MemoryInv
             PROVE  LatestStaysWhole
  BY Zenon
<1>1. LatestIsComplete /\ CompactionAssertionsHold
  BY Zenon DEF MemoryInv, Whole, LatestIsComplete
<1>2. LatestFilesExist
  <2>1. removed \subseteq Boats(made) /\ removed \cap LatestTable(store).boat = {}
        /\ LatestTable(store).iceberg \subseteq IcebergFiles
    BY Zenon DEF MemoryInv, Apart, Whole
  <2>2. \A f \in Boats(made) : f \notin IcebergFiles
    BY BoatFacts, Zenon DEF MemoryInv, MemoryTyped
  <2> QED
    BY <2>1, <2>2, ZenonT(30) DEF LatestFilesExist, DataFiles
<1> QED
  BY <1>1, <1>2, ZenonT(30) DEF LatestStaysWhole

\* For any number of rows, checkpoints and switches of read-only mode, the
\* newest checkpoint of the embedded metadata service holds every row that
\* was committed and not deleted exactly once, its files exist, and no
\* assertion of commit_iceberg fails: neither a commit during a compaction
\* nor the cleanup job loses a row.
THEOREM LatestIsWhole == MemorySpec => []LatestStaysWhole
<1>1. MemoryInv /\ [MemoryNext]_memoryVars => MemoryInv'
  BY MemoryStep, Zenon
<1> QED
  BY <1>1, MemoryInitially, WholeLatest, PTL DEF MemorySpec

----------------------------------------------------------------------------
(* Reads of the Raft backend. *)

\* The log is a sequence, and the last answered read was served from a
\* position it has reached.
LogInv == (\E Entries : log \in Seq(Entries)) /\ readAt \in 0 .. Len(log)

\* An entry that is committed, by client_write or with the election of the next
\* leader, lengthens the log.
LEMMA CommitKeepsLog ==
  ASSUME NEW e, LogInv, log' = Append(log, e), UNCHANGED readAt
  PROVE  LogInv'
<1>1. PICK Entries : log \in Seq(Entries)
  BY Zenon DEF LogInv
<1> DEFINE S == Entries \cup {e}
<1>2. log \in Seq(S) /\ e \in S
  BY <1>1
<1> HIDE DEF S
<1>3. log' \in Seq(S) /\ Len(log') = Len(log) + 1 /\ Len(log) \in Nat
  BY <1>2
<1>4. readAt' \in 0 .. Len(log')
  BY <1>3 DEF LogInv
<1> QED
  BY <1>3, <1>4, ZenonT(30) DEF LogInv

\* No step takes the position of reads back: a read is served from the end of
\* the log (ensure_linearizable in raft_read_state), and the log only grows.
LEMMA ReadsStep ==
  ASSUME LogInv, [RaftNext]_raftVars
  PROVE  LogInv' /\ readAt' >= readAt
<1>1. Len(log) \in Nat /\ readAt \in 0 .. Len(log)
  BY DEF LogInv
<1>2. CASE UNCHANGED <<log, readAt>>
  BY <1>1, <1>2 DEF LogInv
<1>3. ASSUME NEW e, log' = Append(log, e), UNCHANGED readAt
      PROVE  LogInv' /\ readAt' >= readAt
  BY <1>1, <1>3, CommitKeepsLog
<1>4. CASE UNCHANGED log /\ readAt' = Len(log)
  BY <1>1, <1>4 DEF LogInv
<1>5. ASSUME NEW s \in Servers, Elect(s)
      PROVE  LogInv' /\ readAt' >= readAt
  <2>1. UNCHANGED readAt /\ (log' = log \/ \E e : log' = Append(log, e))
    BY <1>5, Zenon DEF Elect
  <2> QED
    BY <1>2, <1>3, <2>1, ZenonT(30)
<1>6. ASSUME NEW s \in Servers, write_snapshot_state(s)
      PROVE  LogInv' /\ readAt' >= readAt
  <2>1. UNCHANGED readAt /\ \E e : log' = Append(log, e)
    BY <1>6, Zenon DEF write_snapshot_state
  <2> QED
    BY <1>3, <2>1, ZenonT(30)
<1>7. ASSUME NEW s \in Servers, NEW op \in Operations, handle_message(s, op)
      PROVE  LogInv' /\ readAt' >= readAt
  <2>1. CASE raft_read_state(s, op)
    BY <1>2, <1>4, <2>1, ZenonT(30) DEF raft_read_state
  <2>2. CASE raft_write_state(s, op)
    BY <1>2, <2>2, ZenonT(30) DEF raft_write_state
  <2> QED
    BY <1>7, <2>1, <2>2, ZenonT(30) DEF handle_message
<1>8. CASE UNCHANGED raftVars
  BY <1>2, <1>8, ZenonT(30) DEF raftVars
<1>9. ASSUME NEW s \in Servers, NEW t \in Servers, append_entries(s, t)
      PROVE  UNCHANGED <<log, readAt>>
  BY <1>9, Zenon DEF append_entries
<1>10. ASSUME NEW s \in Servers, Establish(s) \/ Lose(s)
       PROVE  UNCHANGED <<log, readAt>>
  BY <1>10, Zenon DEF Establish, Lose
<1>11. ASSUME NEW op \in Operations, NEW s \in Servers,
              \/ leader_update_all_checkpoints(op, s)
              \/ arrive(op) \/ forward_to_leader_if_needed(op)
       PROVE  UNCHANGED <<log, readAt>>
  BY <1>11, Zenon DEF leader_update_all_checkpoints, arrive, forward_to_leader_if_needed
<1>12. ASSUME NEW op \in Operations, arrive(op) \/ forward_to_leader_if_needed(op)
       PROVE  UNCHANGED <<log, readAt>>
  BY <1>12, Zenon DEF arrive, forward_to_leader_if_needed
<1> QED
  BY <1>2, <1>5, <1>6, <1>7, <1>8, <1>9, <1>10, <1>11, <1>12, ZenonT(30) DEF RaftNext

\* Successive reads of the Raft backend never go back, whichever process answers
\* them and however many elections lie between (raft_read_state).
THEOREM ReadsAreMonotone == RaftSpec => ReadsNeverGoBack
<1>1. RaftInit => LogInv
  <2>1. <<>> \in Seq({})  /\ Len(<<>>) = 0
    OBVIOUS
  <2> QED
    BY <2>1 DEF RaftInit, LogInv
<1>2. LogInv /\ [RaftNext]_raftVars => LogInv' /\ readAt' >= readAt
  BY ReadsStep, Zenon
<1>3. LogInv /\ [RaftNext]_raftVars => LogInv' /\ [readAt' >= readAt]_raftVars
  BY <1>2, Zenon
<1> QED
  BY <1>1, <1>3, PTL DEF RaftSpec, ReadsNeverGoBack

=============================================================================
