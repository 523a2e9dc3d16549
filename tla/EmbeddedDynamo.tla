--------------------------- MODULE EmbeddedDynamo ---------------------------
(***************************************************************************)
(* The DynamoDB backend inside the serving nodes                           *)
(* (query_runtime/src/dynamodb.rs, dynamodb_service_impl.rs and            *)
(* dynamodb_state_provider.rs).  It shares its items and most transactions *)
(* with the control plane's (DynamoCommits); what differs is written here. *)
(* There are no serving-node leases: the active frontier follows the       *)
(* committed one.  The process keeps no memory of compactions, deletes no  *)
(* checkpoint, and hands out cleanup items at once.                        *)
(***************************************************************************)
EXTENDS DynamoCommits

\* Reads of update_standard_checkpoint.  Only the work item that nobody has
\* claimed keeps a second one from being created.
embedded_update_standard_checkpoint(s) ==
  /\ At(s, "standard")
  /\ LET new == NewCheckpoint(db.latest.checkpoint.id, db.uncheckpointed)
         compact == /\ Cardinality(new.speedboat) >= CompactionThreshold
                    /\ db.latest.compaction.id = NO_WORK_ITEM
     IN Goto(s, IF db.uncheckpointed = {} THEN [call[s] EXCEPT !.step = "extension"]
                ELSE [call[s] EXCEPT !.step = "checkpoint", !.arg = db.uncheckpointed,
                        !.seen = Read(IF compact THEN {"checkpoint", "compaction"}
                                                 ELSE {"checkpoint"})])
  /\ UNCHANGED <<db, hints, workers, faults>>

\* The committed frontier becomes the active one.
embedded_set_active_checkpoint_id(e, id) == [db EXCEPT !.active[e] = id]

embedded_update_extension_checkpoint(s) ==
  /\ At(s, "extension")
  /\ db' = embedded_set_active_checkpoint_id("none", db.latest.checkpoint.id)
  /\ Goto(s, IF db.indexed = {} \/ db.waiting = {}
             THEN [call[s] EXCEPT !.step = "finish"]
             ELSE [call[s] EXCEPT !.step = "waiting", !.arg = UNION db.indexed,
                                  !.todo = db.waiting])
  /\ UNCHANGED <<hints, workers, faults>>

embedded_still_pending(d) ==
  \/ d.uncheckpointed # {} \/ d.waiting # {}
  \/ d.active # [none |-> d.latest.checkpoint.id, es |-> d.latest.search.id]

embedded_finish_update(s) ==
  /\ At(s, "finish")
  /\ db' = embedded_set_active_checkpoint_id("es", db.latest.search.id)
  /\ Goto(s, IF embedded_still_pending(db') THEN Idle ELSE [call[s] EXCEPT !.step = "clear"])
  /\ UNCHANGED <<hints, workers, faults>>

\* As commit_iceberg of the control plane, but nothing is deleted, and the
\* replacement is saved with the contents of the new checkpoint.
embedded_commit_iceberg(s) ==
  /\ At(s, "iceberg")
  /\ LET item == CHOOSE i \in call[s].todo : TRUE
         seen == call[s].seen
         new == clone_and_apply(db.checkpoints[seen.checkpoint.id], call[s].arg, item)
         d == create_checkpoint(create_checkpoint(
                merge_extension_work_item(
                  bump_version(db, "checkpoint", Len(db.checkpoints) + 1),
                  seen, call[s].arg), new), new)
     IN IF commit_conditional_transaction(seen, TRUE)
        THEN /\ db' = [d EXCEPT !.applied = @ \cup {item.id}, !.cleanup = @ \cup {item}]
             /\ compacting' = compacting \ {item}
             /\ Goto(s, queue(s))
        ELSE Goto(s, Idle) /\ UNCHANGED <<db, compacting>>
  /\ UNCHANGED <<hints, indexing, cleaning, lake, faults>>

\* Every unclaimed item is offered.
embedded_read_cleanup_work(s) ==
  /\ At(s, "idle")
  /\ db.cleanup \ db.cleanupClaimed # {}
  /\ Goto(s, [Idle EXCEPT !.step = "claim_cleanup", !.todo = db.cleanup \ db.cleanupClaimed])
  /\ UNCHANGED <<db, hints, workers, faults>>

----------------------------------------------------------------------------
(* Handlers whose code here repeats the control plane's. *)

embedded_read_speedboat(s, file) == read_speedboat(s, file)

embedded_commit_speedboat(s) == commit_speedboat(s)

embedded_queue_checkpoint_publication(s) == queue_checkpoint_publication(s)

embedded_read_extension_work(s) == read_extension_work(s)

embedded_extension_taken(s) == commit_extension_work_item_taken(s)

embedded_extension_completed(s, item) == commit_extension_work_item_completed(s, item)

embedded_read_compaction_work(s) == read_compaction_work(s)

embedded_compaction_taken(s) == commit_compaction_work_item_taken(s)

embedded_compaction_commit(s, item) == compaction_commit(s, item)

embedded_read_iceberg(s, item) == read_iceberg(s, item)

embedded_claim_cleanup(s) == claim_cleanup_work_item_lease(s)

embedded_cleanup_commit(s, item) == cleanup_commit(s, item)

embedded_update_all_checkpoints(s) == update_all_checkpoints(s)

embedded_commit_checkpoint(s) == commit_checkpoint(s)

embedded_cover_waiting_checkpoint(s) == cover_waiting_checkpoint(s)

embedded_commit_search_checkpoint(s) == commit_search_checkpoint(s)

embedded_mark_done(s) == mark_done_checkpoint_waiting(s)

embedded_clear_request(s) == clear_request(s)

EmbeddedUpdate(s) ==
  \/ embedded_update_all_checkpoints(s) \/ embedded_update_standard_checkpoint(s) \/ embedded_commit_checkpoint(s)
  \/ embedded_update_extension_checkpoint(s) \/ embedded_cover_waiting_checkpoint(s)
  \/ embedded_commit_search_checkpoint(s) \/ embedded_mark_done(s)
  \/ embedded_finish_update(s) \/ embedded_clear_request(s)

EmbeddedCommit(s) ==
  \/ \E file \in SpeedboatFiles \cup DeleteFiles : embedded_read_speedboat(s, file)
  \/ embedded_commit_speedboat(s) \/ embedded_queue_checkpoint_publication(s)
  \/ \E item \in indexing : embedded_extension_completed(s, item)
  \/ \E item \in compacting : embedded_compaction_commit(s, item) \/ embedded_read_iceberg(s, item)
  \/ embedded_commit_iceberg(s)
  \/ \E item \in cleaning : embedded_cleanup_commit(s, item)

EmbeddedClaim(s) ==
  \/ embedded_read_extension_work(s) \/ embedded_extension_taken(s)
  \/ embedded_read_compaction_work(s) \/ embedded_compaction_taken(s)
  \/ embedded_read_cleanup_work(s) \/ embedded_claim_cleanup(s)

EmbeddedNext ==
  \/ WorkerCrash
  \/ \E s \in Services : EmbeddedClaim(s) \/ Crash(s)
  \/ \E s \in Frontends : EmbeddedCommit(s)
  \/ \E s \in Updaters : EmbeddedUpdate(s)

EmbeddedSpec == Init /\ [][EmbeddedNext]_vars
=============================================================================
