--------------------------- MODULE DynamoCommits ---------------------------
(***************************************************************************)
(* Commits, work queues and checkpoint publication of one table in the     *)
(* DynamoDB metadata backend of the control plane                          *)
(* (service_lib/src/dynamodb.rs and dynamodb_service_impl.rs).             *)
(*                                                                         *)
(* The backend keeps no state of its own but two hints: every handler      *)
(* reads items, and then writes in one transaction that is cancelled when  *)
(* an item it bumps no longer has the version that was read.  A service    *)
(* process handles one call at a time, so calls of one process do not      *)
(* interleave, but processes do, between the reads and the transaction of  *)
(* a handler.  Commits and checkpoints are immutable, so the version of    *)
(* the item that names them stands for their contents.                     *)
(*                                                                         *)
(* A checkpoint's id is its position.  The id of a compaction work item is *)
(* the checkpoint it replaces; that of an extension work item is the       *)
(* version that installed it.  Readiness of a promotion (nodes that        *)
(* acknowledge) is left open here and is the subject of DynamoCutover.     *)
(* A failed assertion or unwrap ends the process: it is a crash.           *)
(***************************************************************************)
EXTENDS Naturals, FiniteSets, Sequences

CONSTANTS Services,          \* service processes on one DynamoDB table
          Frontends,         \* those that commits reach
          Updaters,          \* those whose checkpoint updater runs
          SpeedboatFiles,    \* data files that are committed
          DeleteFiles,       \* delete files that are committed
          CompactionThreshold,
          Readiness,         \* answers activation_matches_target may give
          MaxFaults          \* crashes of services and workers

ASSUME ServicesAssumption == Frontends \subseteq Services /\ Updaters \subseteq Services
ASSUME ThresholdAssumption ==
  CompactionThreshold \in Nat /\ \A files \in SUBSET SpeedboatFiles : Cardinality(files) \in Nat

Selectors == {"none", "es"}
NO_WORK_ITEM == {}

VARIABLES db,           \* the items of the table
          call,         \* per service: the handler it is executing
          hints,        \* per service: what it remembers of compactions
          indexing,     \* extension work items in workers' hands
          compacting,   \* compaction work items in workers' hands
          cleaning,     \* cleanup work items in workers' hands
          lake,         \* data files of the Iceberg table
          faults

workers == <<indexing, compacting, cleaning, lake>>
vars == <<db, call, hints, workers, faults>>

----------------------------------------------------------------------------
(* Items and transactions. *)

\* The transaction of create_table_helper: the first checkpoint is empty, and
\* both frontiers are it.  No publication was requested yet.
create_table_helper ==
  [checkpoints |-> <<[iceberg |-> {}, speedboat |-> {}, deletes |-> {}, origin |-> 0]>>,
   deleted |-> {},
   latest |-> [checkpoint |-> [version |-> 0, id |-> 1],
               search |-> [version |-> 0, id |-> 1],
               extension |-> [version |-> 0, id |-> NO_WORK_ITEM],
               compaction |-> [version |-> 0, id |-> NO_WORK_ITEM],
               request |-> [version |-> 0, id |-> FALSE]],
   active |-> [e \in Selectors |-> 0],
   committed |-> {}, uncheckpointed |-> {}, waiting |-> {},
   extensionLeases |-> {}, indexed |-> {},
   notes |-> {}, applied |-> {}, cleanup |-> {}, cleanupClaimed |-> {}]

\* What describe_latest returned for these keys.
Read(keys) == [k \in keys |-> db.latest[k]]

bump_version(d, key, id) ==
  [d EXCEPT !.latest[key] = [version |-> d.latest[key].version + 1, id |-> id]]

\* Slip: the newest checkpoint may have changed since it was read.
AnyCheckpoint(seen, extra) ==
  /\ \A k \in DOMAIN seen \ {"checkpoint"} : db.latest[k].version = seen[k].version
  /\ extra

\* No item was bumped since it was read.
commit_conditional_transaction(seen, extra) ==
  /\ \A k \in DOMAIN seen : db.latest[k].version = seen[k].version
  /\ extra

current_file_paths(c) == c.iceberg \cup c.speedboat

fully_covered_for_extension(c, indexed) == current_file_paths(c) \subseteq indexed

\* Save a checkpoint; it waits for the extension unless it has no files.
create_checkpoint(d, c) ==
  [d EXCEPT !.checkpoints = Append(@, c),
            !.waiting = IF current_file_paths(c) = {} THEN @
                        ELSE @ \cup {Len(d.checkpoints) + 1}]

\* The files join the extension work item nobody has claimed yet.
merge_extension_work_item(d, seen, files) ==
  bump_version(d, "extension",
    {(UNION seen.extension.id) \cup files})

Idle == [step |-> "idle", seen |-> <<>>, arg |-> {}, todo |-> {}, request |-> 0, high |-> 0]

Goto(s, c) == call' = [call EXCEPT ![s] = c]
At(s, step) == call[s].step = step

Init ==
  /\ db = create_table_helper
  /\ call = [s \in Services |-> Idle]
  /\ hints = [s \in Services |-> [pending |-> FALSE, uncompacted |-> {}]]
  /\ indexing = {} /\ compacting = {} /\ cleaning = {} /\ lake = {}
  /\ faults = 0

----------------------------------------------------------------------------
(* Commits.  A successful one asks for publication, in a second            *)
(* transaction whose failure is ignored.                                   *)

queue(s) == [Idle EXCEPT !.step = "queue"]

read_speedboat(s, file) ==
  /\ At(s, "idle")
  /\ file \in (SpeedboatFiles \cup DeleteFiles) \ db.committed
  /\ \A other \in Services : call[other].arg # {file}
  /\ Goto(s, [Idle EXCEPT !.step = "speedboat", !.seen = Read({"extension"}), !.arg = {file}])
  /\ UNCHANGED <<db, hints, workers, faults>>

\* The commit, its tracker and the merged work item are one transaction.  A
\* delete commit adds no file to the work item.
commit_speedboat(s) ==
  /\ At(s, "speedboat")
  /\ LET file == call[s].arg
         d == merge_extension_work_item(db, call[s].seen, file \cap SpeedboatFiles)
     IN IF commit_conditional_transaction(call[s].seen, TRUE)
        THEN /\ db' = [d EXCEPT !.committed = @ \cup file,
                                !.uncheckpointed = @ \cup file]
             /\ Goto(s, queue(s))
        ELSE Goto(s, Idle) /\ UNCHANGED db
  /\ UNCHANGED <<hints, workers, faults>>

queue_checkpoint_publication(s) ==
  \/ /\ At(s, "queue")
     /\ Goto(s, [call[s] EXCEPT !.step = "request", !.seen = Read({"request"})])
     /\ UNCHANGED <<db, hints, workers, faults>>
  \/ /\ At(s, "request")
     /\ db' = IF commit_conditional_transaction(call[s].seen, TRUE)
              THEN bump_version(db, "request", TRUE) ELSE db
     /\ Goto(s, Idle)
     /\ UNCHANGED <<hints, workers, faults>>

----------------------------------------------------------------------------
(* Extension work. *)

read_extension_work(s) ==
  /\ At(s, "idle")
  /\ db.latest.extension.id # NO_WORK_ITEM
  /\ Goto(s, [Idle EXCEPT !.step = "claim_extension", !.seen = Read({"extension"})])
  /\ UNCHANGED <<db, hints, workers, faults>>

\* The item leaves the queue for a lease, which nothing ever offers again.
commit_extension_work_item_taken(s) ==
  /\ At(s, "claim_extension")
  /\ LET item == [id |-> call[s].seen.extension.version,
                  files |-> UNION call[s].seen.extension.id]
     IN IF commit_conditional_transaction(call[s].seen, TRUE)
        THEN /\ db' = [bump_version(db, "extension", NO_WORK_ITEM)
                         EXCEPT !.extensionLeases = @ \cup {item}]
             /\ indexing' = indexing \cup {item}
        ELSE UNCHANGED <<db, indexing>>
  /\ Goto(s, Idle)
  /\ UNCHANGED <<hints, compacting, cleaning, lake, faults>>

\* The worker reports; the lease must still be open.
commit_extension_work_item_completed(s, item) ==
  /\ At(s, "idle")
  /\ item \in indexing
  /\ indexing' = indexing \ {item}
  /\ IF item \in db.extensionLeases
     THEN /\ db' = [db EXCEPT !.extensionLeases = @ \ {item},
                              !.indexed = @ \cup {item.files}]
          /\ Goto(s, queue(s))
     ELSE UNCHANGED <<db, call>>
  /\ UNCHANGED <<hints, compacting, cleaning, lake, faults>>
----------------------------------------------------------------------------
(* Compaction.  A worker claims an item, writes a data file, commits it to *)
(* the Iceberg table and reports both.                                     *)

read_compaction_work(s) ==
  /\ At(s, "idle")
  /\ db.latest.compaction.id # NO_WORK_ITEM
  /\ Goto(s, [Idle EXCEPT !.step = "claim_compaction", !.seen = Read({"compaction"})])
  /\ UNCHANGED <<db, hints, workers, faults>>

commit_compaction_work_item_taken(s) ==
  /\ At(s, "claim_compaction")
  /\ IF commit_conditional_transaction(call[s].seen, TRUE)
     THEN /\ db' = bump_version(db, "compaction", NO_WORK_ITEM)
          /\ compacting' = compacting \cup call[s].seen.compaction.id
     ELSE UNCHANGED <<db, compacting>>
  /\ Goto(s, Idle)
  /\ UNCHANGED <<hints, indexing, cleaning, lake, faults>>

DataFile(item) == <<"parquet", item.id>>

\* The worker's note; nothing else changes until the Iceberg commit.
compaction_commit(s, item) ==
  /\ At(s, "idle")
  /\ item \in compacting \ db.notes
  /\ db' = [db EXCEPT !.notes = @ \cup {item}]
  /\ lake' = lake \cup {DataFile(item)}
  /\ UNCHANGED <<call, hints, indexing, compacting, cleaning, faults>>

read_iceberg(s, item) ==
  /\ At(s, "idle")
  /\ item \in compacting \cap db.notes
  /\ \A other \in Services : At(other, "iceberg") => call[other].todo # {item}
  /\ Goto(s, [Idle EXCEPT !.step = "iceberg", !.seen = Read({"checkpoint", "extension"}),
                          !.arg = lake, !.todo = {item}])
  /\ UNCHANGED <<db, hints, workers, faults>>

clone_and_apply(c, iceberg, item) ==
  [c EXCEPT !.iceberg = iceberg, !.speedboat = @ \ item.speedboat, !.deletes = @ \ item.deletes]

apply_compaction_for_replacement(c, item) ==
  [iceberg |-> c.iceberg \cup {DataFile(item)}, speedboat |-> c.speedboat \ item.speedboat,
   deletes |-> c.deletes \ item.deletes, origin |-> item.id]

delete_checkpoints(d, ids) ==
  [d EXCEPT !.deleted = @ \cup ids, !.waiting = @ \ ids]

\* A panic ends the process; it comes back with empty hints.
Forgotten == [pending |-> FALSE, uncompacted |-> {}]
Restart(s) == Goto(s, Idle) /\ hints' = [hints EXCEPT ![s] = Forgotten]

\* One transaction: the new checkpoint, its extension work, the replacement of
\* the compacted checkpoint, the deletion of that one and of the ones committed
\* meanwhile, and the cleanup of the compacted files.
commit_iceberg(s) ==
  /\ At(s, "iceberg")
  /\ LET item == CHOOSE i \in call[s].todo : TRUE
         seen == call[s].seen
         new == clone_and_apply(db.checkpoints[seen.checkpoint.id], call[s].arg, item)
         replacement == apply_compaction_for_replacement(db.checkpoints[item.id], item)
         d == create_checkpoint(create_checkpoint(
                merge_extension_work_item(
                  bump_version(db, "checkpoint", Len(db.checkpoints) + 1),
                  seen, call[s].arg), new), replacement)
     IN IF {item.id, seen.checkpoint.id} \cap db.deleted # {}
        THEN Restart(s) /\ UNCHANGED <<db, compacting>>
        ELSE IF commit_conditional_transaction(seen, TRUE)
        THEN /\ db' = [delete_checkpoints(d, {item.id} \cup item.replaced)
                         EXCEPT !.applied = @ \cup {item.id}, !.cleanup = @ \cup {item}]
             /\ compacting' = compacting \ {item}
             /\ hints' = [hints EXCEPT ![s].pending = FALSE]
             /\ Goto(s, queue(s))
        ELSE Goto(s, Idle) /\ UNCHANGED <<db, hints, compacting>>
  /\ UNCHANGED <<indexing, cleaning, lake, faults>>

----------------------------------------------------------------------------
(* Cleanup. *)

get_active_checkpoint_id(e) ==
  IF db.active[e] # 0 THEN {db.active[e]}
  ELSE IF db.latest.request.id THEN {}
  ELSE {db.latest[IF e = "es" THEN "search" ELSE "checkpoint"].id}

checkpoint_references_any_cleanup_file(c, item) ==
  (c.speedboat \cup c.deletes) \cap (item.speedboat \cup item.deletes) # {}

\* An active checkpoint that was deleted and is not in the process's cache is
\* passed over.
cleanup_work_item_is_ready(item, cached) ==
  \A e \in Selectors : \A id \in get_active_checkpoint_id(e) :
    \/ id \in db.deleted \ cached
    \/ ~checkpoint_references_any_cleanup_file(db.checkpoints[id], item)

read_cleanup_work(s) ==
  /\ At(s, "idle")
  /\ \E cached \in {{}, db.deleted} :
       LET ready == {item \in db.cleanup \ db.cleanupClaimed :
                       cleanup_work_item_is_ready(item, cached)}
       IN /\ ready # {}
          /\ Goto(s, [Idle EXCEPT !.step = "claim_cleanup", !.todo = ready])
  /\ UNCHANGED <<db, hints, workers, faults>>

claim_cleanup_work_item_lease(s) ==
  /\ At(s, "claim_cleanup")
  /\ IF commit_conditional_transaction(<<>>, call[s].todo \cap db.cleanupClaimed = {})
     THEN /\ db' = [db EXCEPT !.cleanupClaimed = @ \cup call[s].todo]
          /\ cleaning' = cleaning \cup call[s].todo
     ELSE UNCHANGED <<db, cleaning>>
  /\ Goto(s, Idle)
  /\ UNCHANGED <<hints, indexing, compacting, lake, faults>>

\* The lease is marked done whatever its version.
cleanup_commit(s, item) ==
  /\ At(s, "idle")
  /\ item \in cleaning
  /\ cleaning' = cleaning \ {item}
  /\ db' = [db EXCEPT !.cleanup = @ \ {item}]
  /\ UNCHANGED <<call, hints, indexing, compacting, lake, faults>>
----------------------------------------------------------------------------
(* The checkpoint updater: update_all_checkpoints for the table's request. *)

update_all_checkpoints(s) ==
  /\ At(s, "idle")
  /\ db.latest.request.id
  /\ Goto(s, [Idle EXCEPT !.step = "standard", !.request = db.latest.request.version])
  /\ UNCHANGED <<db, hints, workers, faults>>

NewCheckpoint(id, files) ==
  LET c == db.checkpoints[id]
  IN [c EXCEPT !.speedboat = @ \cup (files \cap SpeedboatFiles),
               !.deletes = @ \cup (files \cap DeleteFiles),
               !.origin = 0]

\* Whether a checkpoint calls for a compaction work item.  The process first
\* trusts its own memory of a compaction that is under way.
maybe_create_compaction_work_item(s, c) ==
  CASE hints[s].pending -> "defer"
    [] ~hints[s].pending /\ Cardinality(c.speedboat) < CompactionThreshold -> "none"
    [] ~hints[s].pending /\ Cardinality(c.speedboat) >= CompactionThreshold ->
         IF db.latest.compaction.id # NO_WORK_ITEM THEN "defer" ELSE "create"

\* Reads of update_standard_checkpoint.  The hints change here, before the
\* transaction is known to succeed.
update_standard_checkpoint(s) ==
  /\ At(s, "standard")
  /\ LET seen == Read({"checkpoint"})
         plan == maybe_create_compaction_work_item(
                   s, NewCheckpoint(seen.checkpoint.id, db.uncheckpointed))
     IN IF db.uncheckpointed = {}
        THEN Goto(s, [call[s] EXCEPT !.step = "extension"]) /\ UNCHANGED hints
        ELSE /\ Goto(s, [call[s] EXCEPT
                    !.step = "checkpoint", !.arg = db.uncheckpointed,
                    !.seen = IF plan = "create" THEN Read({"checkpoint", "compaction"}) ELSE seen,
                    !.todo = IF plan = "create" THEN hints[s].uncompacted ELSE {}])
             /\ hints' = [hints EXCEPT ![s] =
                  CASE plan = "none" -> hints[s]
                    [] plan = "defer" -> [hints[s] EXCEPT !.pending = TRUE]
                    [] plan = "create" -> [pending |-> TRUE, uncompacted |-> {}]]
  /\ UNCHANGED <<db, workers, faults>>

CompactionWorkItem(id, c, replaced) ==
  {[id |-> id, speedboat |-> c.speedboat, deletes |-> c.deletes, replaced |-> replaced]}

\* Contention is logged, and the update goes on.
commit_checkpoint(s) ==
  /\ At(s, "checkpoint")
  /\ LET seen == call[s].seen
         id == Len(db.checkpoints) + 1
         new == NewCheckpoint(seen.checkpoint.id, call[s].arg)
         d == [create_checkpoint(bump_version(db, "checkpoint", id), new)
                 EXCEPT !.uncheckpointed = @ \ call[s].arg]
         compacts == "compaction" \in DOMAIN seen
     IN IF commit_conditional_transaction(seen, call[s].arg \subseteq db.uncheckpointed)
        THEN /\ db' = IF compacts
                      THEN bump_version(d, "compaction", CompactionWorkItem(id, new, call[s].todo))
                      ELSE d
             /\ hints' = IF hints[s].pending /\ ~compacts
                         THEN [hints EXCEPT ![s].uncompacted = @ \cup {id}] ELSE hints
        ELSE UNCHANGED <<db, hints>>
  /\ Goto(s, [Idle EXCEPT !.step = "extension", !.request = call[s].request])
  /\ UNCHANGED <<workers, faults>>

\* The frontier may move to the target once the nodes have acknowledged it.
promote_if_ready(e, target) ==
  {IF ready THEN [db.active EXCEPT ![e] = target] ELSE db.active : ready \in Readiness}

\* Promotion of the committed frontier, then the reads of
\* update_extension_checkpoint.
update_extension_checkpoint(s) ==
  /\ At(s, "extension")
  /\ \E active \in promote_if_ready("none", db.latest.checkpoint.id) :
       db' = [db EXCEPT !.active = active]
  /\ Goto(s, IF db.indexed = {} \/ db.waiting = {}
             THEN [call[s] EXCEPT !.step = "finish"]
             ELSE [call[s] EXCEPT !.step = "waiting", !.arg = UNION db.indexed,
                                  !.todo = db.waiting])
  /\ UNCHANGED <<hints, workers, faults>>

Oldest(ids) == CHOOSE id \in ids : \A other \in ids : id <= other

\* The next waiting checkpoint is copied with the coverage known.  If that
\* covers it the copy is committed; if it covers anything the wait is over.
\* high dates the id given to the copy.
cover_waiting_checkpoint(s) ==
  /\ At(s, "waiting")
  /\ LET id == Oldest(call[s].todo)
         c == db.checkpoints[id]
         next == IF fully_covered_for_extension(c, call[s].arg) THEN "search"
                 ELSE IF current_file_paths(c) \cap call[s].arg # {} THEN "mark" ELSE "skip"
         rest == call[s].todo \ {id}
     IN IF id \in db.deleted THEN Restart(s)
        ELSE /\ Goto(s, CASE next # "skip" -> [call[s] EXCEPT !.step = next,
                                                  !.high = Len(db.checkpoints)]
                         [] next = "skip" /\ rest # {} -> [call[s] EXCEPT !.todo = rest]
                         [] next = "skip" /\ rest = {} ->
                              [Idle EXCEPT !.step = "finish", !.request = call[s].request])
             /\ UNCHANGED hints
  /\ UNCHANGED <<db, workers, faults>>

\* The copy becomes the search frontier if its id is newer than the frontier's;
\* of two ids given out at the same time either may be the newer one.
commit_search_checkpoint(s) ==
  /\ At(s, "search")
  /\ LET c == db.checkpoints[Oldest(call[s].todo)]
         copy == [c EXCEPT !.origin = IF @ = 0 THEN Oldest(call[s].todo) ELSE @]
         d == bump_version(db, "search", Len(db.checkpoints) + 1)
     IN db' \in {[d EXCEPT !.checkpoints = Append(@, copy)]}
                \cup (IF db.latest.search.id > call[s].high THEN {db} ELSE {})
  /\ Goto(s, [call[s] EXCEPT !.step = "mark"])
  /\ UNCHANGED <<hints, workers, faults>>

\* A tracker that is gone is an error, which ends the update.
mark_done_checkpoint_waiting(s) ==
  /\ At(s, "mark")
  /\ LET id == Oldest(call[s].todo)
         rest == call[s].todo \ {id}
     IN /\ db' = [db EXCEPT !.waiting = @ \ {id}]
        /\ Goto(s, CASE id \notin db.waiting -> Idle
                    [] id \in db.waiting /\ rest # {} ->
                         [call[s] EXCEPT !.step = "waiting", !.todo = rest, !.high = 0]
                    [] id \in db.waiting /\ rest = {} ->
                         [Idle EXCEPT !.step = "finish", !.request = call[s].request])
  /\ UNCHANGED <<hints, workers, faults>>

checkpoint_publication_still_pending(d) ==
  \/ d.uncheckpointed # {} \/ d.waiting # {}
  \/ d.active # [e \in Selectors |-> d.latest[IF e = "es" THEN "search" ELSE "checkpoint"].id]

\* Promotion of the search frontier, then the question whether work is left.
finish_update(s) ==
  /\ At(s, "finish")
  /\ \E active \in promote_if_ready("es", db.latest.search.id) :
       /\ db' = [db EXCEPT !.active = active]
       /\ Goto(s, IF checkpoint_publication_still_pending([db EXCEPT !.active = active])
                  THEN Idle ELSE [call[s] EXCEPT !.step = "clear"])
  /\ UNCHANGED <<hints, workers, faults>>

clear_request(s) ==
  /\ At(s, "clear")
  /\ db' = IF db.latest.request.version = call[s].request
           THEN bump_version(db, "request", FALSE) ELSE db
  /\ Goto(s, Idle)
  /\ UNCHANGED <<hints, workers, faults>>

----------------------------------------------------------------------------
Crash(s) ==
  /\ faults < MaxFaults
  /\ ~At(s, "idle")
  /\ faults' = faults + 1
  /\ Restart(s)
  /\ UNCHANGED <<db, workers>>

\* A worker dies with its item; the lease stays behind.
WorkerCrash ==
  /\ faults < MaxFaults
  /\ faults' = faults + 1
  /\ \/ \E item \in indexing : indexing' = indexing \ {item} /\ UNCHANGED compacting
     \/ \E item \in compacting : compacting' = compacting \ {item} /\ UNCHANGED indexing
  /\ UNCHANGED <<db, call, hints, cleaning, lake>>

Commit(s) ==
  \/ \E file \in SpeedboatFiles \cup DeleteFiles : read_speedboat(s, file)
  \/ commit_speedboat(s) \/ queue_checkpoint_publication(s)
  \/ \E item \in indexing : commit_extension_work_item_completed(s, item)
  \/ \E item \in compacting : compaction_commit(s, item) \/ read_iceberg(s, item)
  \/ commit_iceberg(s)
  \/ \E item \in cleaning : cleanup_commit(s, item)

Claim(s) ==
  \/ read_extension_work(s) \/ commit_extension_work_item_taken(s)
  \/ read_compaction_work(s) \/ commit_compaction_work_item_taken(s)
  \/ read_cleanup_work(s) \/ claim_cleanup_work_item_lease(s)

Update(s) ==
  \/ update_all_checkpoints(s) \/ update_standard_checkpoint(s) \/ commit_checkpoint(s)
  \/ update_extension_checkpoint(s) \/ cover_waiting_checkpoint(s)
  \/ commit_search_checkpoint(s) \/ mark_done_checkpoint_waiting(s)
  \/ finish_update(s) \/ clear_request(s)

Next ==
  \/ WorkerCrash
  \/ \E s \in Services : Claim(s) \/ Crash(s)
  \/ \E s \in Frontends : Commit(s)
  \/ \E s \in Updaters : Update(s)

Spec == Init /\ [][Next]_vars

----------------------------------------------------------------------------
(* Properties. *)

Latest == db.checkpoints[db.latest.checkpoint.id]
Search == db.checkpoints[db.latest.search.id]
CompactedAway ==
  UNION {item.speedboat \cup item.deletes : item \in db.cleanup \cup db.cleanupClaimed}

\* Every item names what exists: the frontiers and the waiting checkpoints are
\* checkpoints that were saved, and what is saved is well formed.
DynamoTypeOK ==
  /\ \A i \in DOMAIN db.checkpoints :
       /\ db.checkpoints[i].iceberg \subseteq lake
       /\ db.checkpoints[i].speedboat \subseteq SpeedboatFiles
       /\ db.checkpoints[i].deletes \subseteq DeleteFiles
       /\ db.checkpoints[i].origin < i
  /\ {db.latest.checkpoint.id, db.latest.search.id} \cup db.waiting \cup db.deleted
       \subseteq DOMAIN db.checkpoints
  /\ \A s \in Services : call[s].todo = {} => ~At(s, "waiting")

\* Every acknowledged speedboat commit is in exactly one place: it is still to
\* be checkpointed, or part of the newest checkpoint, or was compacted away.
\* commit_checkpoint and commit_iceberg both derive the newest checkpoint from
\* one they read earlier, and neither may undo the other.
CommitsAreCheckpointedOnce ==
  /\ db.committed = db.uncheckpointed \cup Latest.speedboat \cup Latest.deletes \cup CompactedAway
  /\ db.uncheckpointed \cap (Latest.speedboat \cup Latest.deletes \cup CompactedAway) = {}

\* Every data file of the table is indexed, or waits in the unclaimed extension
\* work item, or is under a lease: a commit that merges its files into the item
\* and a claim that takes the item do not lose files to each other.
IndexWorkIsNotLost ==
  (db.committed \cap SpeedboatFiles) \cup Latest.iceberg \subseteq
     (UNION db.indexed) \cup (UNION db.latest.extension.id)
       \cup UNION {item.files : item \in db.extensionLeases}

\* The search frontier only names files whose index was committed, although
\* update_extension_checkpoint gathers the coverage of a waiting checkpoint
\* while commits and deletions go on.
SearchFrontierIsIndexed == current_file_paths(Search) \subseteq UNION db.indexed

\* No checkpoint that commit_iceberg deletes is left waiting for its extension:
\* the updater unwraps every waiting checkpoint it reads.
WaitingCheckpointsExist == db.waiting \cap db.deleted = {}

\* Files are handed out for deletion only when no published frontier needs them:
\* "Cleanup must not be based only on 'new checkpoint exists'"
\* (docs/raft-metadata-coherence-design.md).  The backend does not ask (README,
\* deviations without a run).
CleanupWaitsForCutover ==
  \A item \in db.cleanupClaimed, e \in Selectors :
    db.active[e] # 0 =>
      ~checkpoint_references_any_cleanup_file(db.checkpoints[db.active[e]], item)

\* No commit, index work or waiting checkpoint is lost or counted twice
\* between the reads and the conditional transactions of two processes.
CommittedWorkIsTracked ==
    /\ DynamoTypeOK
    /\ CommitsAreCheckpointedOnce
    /\ IndexWorkIsNotLost
    /\ SearchFrontierIsIndexed
    /\ WaitingCheckpointsExist

=============================================================================
