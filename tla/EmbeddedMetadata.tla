-------------------------- MODULE EmbeddedMetadata --------------------------
(***************************************************************************)
(* The metadata service an engine embeds when it runs without a control    *)
(* plane (query_runtime/src/ephemeral_service_impl.rs behind the actor of  *)
(* state_provider.rs), for one table, with the engine's own loops.         *)
(*                                                                         *)
(* It keeps the same checkpoints and work queues as the control plane but  *)
(* differs where compaction is concerned.  The checkpoint a compaction     *)
(* started from is rewritten in place, the ones noted while it waited are  *)
(* deleted by the next compaction, a claim is never offered again, and     *)
(* files are handed to the cleanup loop without asking what is published.  *)
(*                                                                         *)
(* A data file is its kind and its rows; a delete file is the row it       *)
(* names.  Everything is in memory: a restart starts from nothing.  The    *)
(* prefetch targets noted after each commit are not read by any handler    *)
(* below and are left out.                                                 *)
(***************************************************************************)
EXTENDS Naturals, FiniteSets

CONSTANTS
  CompactAt,       \* speedboat files that call for a compaction
  MaxRowsMade,     \* bound: rows inserted
  MaxRowsErased,   \* bound: rows deleted
  MaxToggles       \* bound: switches to read-only and failed jobs

ASSUME MemoryAssumption ==
  CompactAt \in Nat /\ MaxRowsMade \in Nat /\ MaxRowsErased \in Nat /\ MaxToggles \in Nat

VARIABLES
  store,      \* the service
  readOnly,   \* the actor refuses writes
  lake,       \* files of the Iceberg table
  removed,    \* data files removed from storage
  sidecars,   \* data files with an index in storage
  indexJob,   \* the index loop: files claimed, files built
  compactJob, \* the compaction loop: phase and work item
  cleanJob,   \* the cleanup loop: running, or ended by a panic
  made,       \* rows inserted
  kept,       \* rows inserted and not deleted
  toggles

jobs == <<indexJob, compactJob, cleanJob>>
disk == <<lake, removed, sidecars>>
memoryVars == <<store, readOnly, disk, jobs, made, kept, toggles>>

Parts == {"none", "es"}
NoItem == [id |-> 0, boat |-> {}, dels |-> {}, drop |-> {}]
IdleIndexJob == [phase |-> "idle", claim |-> {}, built |-> {}]
IdleCompactJob == [phase |-> "idle", item |-> NoItem]

EmptyTable == [iceberg |-> {}, boat |-> {}, dels |-> {}, covered |-> {}]

EmptyStore ==
  [checkpoints |-> [id \in {} |-> EmptyTable],
   ids |-> 0,                        \* ids given out
   latest |-> [e \in Parts |-> 0],
   published |-> [e \in Parts |-> 0],
   requested |-> FALSE,              \* checkpoint_publication_requests
   item |-> NoItem,                  \* compaction_work_items
   in_progress |-> FALSE,
   not_compacted |-> {},             \* not_compacted_checkpoint_ids
   notes |-> {},                     \* compactions
   work |-> {},                      \* extension_work_items
   waiting |-> {},                   \* checkpoints_needing_extension_work
   recent |-> {},                    \* recent_file_extension_metadata
   cleanup |-> {},                   \* cleanup_work_items
   panicked |-> "no"]

MemoryInit ==
  /\ store = EmptyStore /\ readOnly = FALSE
  /\ lake = {} /\ removed = {} /\ sidecars = {}
  /\ indexJob = IdleIndexJob /\ compactJob = IdleCompactJob /\ cleanJob = "running"
  /\ made = 0 /\ kept = {} /\ toggles = 0

DataFiles(c) == c.iceberg \cup c.boat
RowsOf(files) == UNION {f[2] : f \in files}
LiveRows(c) == RowsOf(DataFiles(c)) \ c.dels

\* get_latest_committed_checkpoint_sync, and the empty checkpoint of a new table.
LatestTable(s) == IF s.latest["none"] = 0 THEN EmptyTable ELSE s.checkpoints[s.latest["none"]]

----------------------------------------------------------------------------
(* Commits: what a call makes of the service s. *)

\* try_fill_checkpoint_extension_metadata.
CoverKnown(s, c) == [c EXCEPT !.covered = DataFiles(c) \cap (@ \cup s.recent)]

\* The new checkpoint is stored and is the latest.
StoreCheckpoint(s, c) ==
  [s EXCEPT !.ids = @ + 1,
            !.checkpoints = [id \in DOMAIN @ \cup {s.ids + 1} |->
                               IF id = s.ids + 1 THEN CoverKnown(s, c) ELSE @[id]],
            !.latest["none"] = s.ids + 1]

\* fill_extension_work_item, for the checkpoint just stored.
AskForIndex(s) ==
  LET files == DataFiles(LatestTable(s)) \ s.recent
  IN IF files = {} THEN s
     ELSE [s EXCEPT !.work = @ \cup files, !.waiting = @ \cup {s.latest["none"]}]

\* maybe_create_compaction_work_item, for the checkpoint just stored.
AskForCompaction(s) ==
  LET c == LatestTable(s)
  IN IF s.item # NoItem
     THEN [s EXCEPT !.not_compacted = @ \cup {s.latest["none"]}]
     ELSE IF Cardinality(c.boat) < CompactAt THEN s
     ELSE [s EXCEPT !.item = [id |-> s.latest["none"], boat |-> c.boat, dels |-> c.dels,
                              drop |-> s.not_compacted],
                    !.not_compacted = {}]

\* speedboat_commit_type_commit.
CommitRows(s, row) ==
  AskForCompaction(AskForIndex(
    StoreCheckpoint(s, [LatestTable(s) EXCEPT !.boat = @ \cup {<<"boat", {row}>>}])))

\* speedboat_commit_type_delete.
CommitDelete(s, row) == StoreCheckpoint(s, [LatestTable(s) EXCEPT !.dels = @ \cup {row}])

\* Slip: the delete files are dropped, the speedboat files stay.
KeepsCompacted(c, note) == [c EXCEPT !.dels = @ \ note.dels]

\* handle_compactions, on the checkpoint about to be stored.
WithoutCompacted(c, note) == [c EXCEPT !.boat = @ \ note.boat, !.dels = @ \ note.dels]

apply_compaction_for_replacement(c, note, file) ==
  [WithoutCompacted(c, note) EXCEPT !.iceberg = @ \cup {file}]

\* The assertions of replace_and_delete_checkpoints.
ReplaceAssertions(s, note) ==
  /\ {note.id} \cup note.drop \subseteq DOMAIN s.checkpoints
  /\ s.item # NoItem /\ s.in_progress /\ s.item.id = note.id

\* replace_and_delete_checkpoints, for the compaction that wrote the file.
replace_and_delete_checkpoints(s, note, file) ==
  IF ~ReplaceAssertions(s, note) THEN [s EXCEPT !.panicked = "iceberg_commit"]
  ELSE [s EXCEPT
          !.checkpoints =
            [id \in DOMAIN @ \ note.drop |->
               IF id = note.id THEN apply_compaction_for_replacement(@[id], note, file)
                               ELSE @[id]],
          !.item = NoItem, !.in_progress = FALSE,
          !.cleanup = @ \cup note.boat]

CommitIceberg(s, files, note, file) ==
  replace_and_delete_checkpoints(
    AskForIndex(StoreCheckpoint(s,
      WithoutCompacted([LatestTable(s) EXCEPT !.iceberg = files], note))),
    note, file)

compaction_noted(s, note) == [s EXCEPT !.notes = @ \cup {note}]

Newest(ids) == CHOOSE id \in ids : \A other \in ids : other <= id

\* add_coverage_for, for every waiting checkpoint.
CoverWaiting(s, files) ==
  [s EXCEPT !.checkpoints =
     [id \in DOMAIN @ |-> IF id \in s.waiting
                          THEN [s.checkpoints[id] EXCEPT !.covered = @ \cup (files \cap DataFiles(s.checkpoints[id]))]
                          ELSE @[id]]]

Covered(s) == {id \in s.waiting : DataFiles(s.checkpoints[id]) \subseteq s.checkpoints[id].covered}

\* A waiting checkpoint that was deleted, and a commit that completes nothing,
\* are panics.
CommitIndex(s, files) ==
  LET after == CoverWaiting(s, files)
      done == Covered(after)
  IN IF ~(s.waiting \subseteq DOMAIN s.checkpoints) THEN [s EXCEPT !.panicked = "extension_commit"]
     ELSE IF done = {} THEN [after EXCEPT !.panicked = "extension_commit"]
     ELSE [after EXCEPT !.waiting = @ \ done, !.recent = @ \cup files,
                        !.latest["es"] = IF Newest(done) > @ THEN Newest(done) ELSE @]

Requested(s) == IF s.panicked = "no" THEN [s EXCEPT !.requested = TRUE] ELSE s

----------------------------------------------------------------------------
(* Messages to the actor.  It serves one at a time, and none after a panic. *)

Up == store.panicked = "no"
Accepted == Up /\ ~readOnly

speedboat_insert ==
  /\ Accepted
  /\ made < MaxRowsMade
  /\ made' = made + 1 /\ kept' = kept \cup {made + 1}
  /\ store' = Requested(CommitRows(store, made + 1))
  /\ UNCHANGED <<readOnly, disk, jobs, toggles>>

Erased == made - Cardinality(kept)

speedboat_delete(row) ==
  /\ Accepted
  /\ Erased < MaxRowsErased /\ row \in kept
  /\ kept' = kept \ {row}
  /\ store' = Requested(CommitDelete(store, row))
  /\ UNCHANGED <<readOnly, disk, jobs, made, toggles>>

\* Every selector that has a committed checkpoint publishes it.
publish_all ==
  /\ Up /\ store.requested
  /\ store' = [store EXCEPT !.published = store.latest, !.requested = FALSE]
  /\ UNCHANGED <<readOnly, disk, jobs, made, kept, toggles>>

Toggle == toggles < MaxToggles /\ toggles' = toggles + 1

SetApiMode ==
  /\ Up /\ Toggle
  /\ readOnly' = ~readOnly
  /\ UNCHANGED <<store, disk, jobs, made, kept>>

----------------------------------------------------------------------------
(* The engine's loops.  They run in read-only mode too, where a claim is    *)
(* answered and the commit that should follow is refused.                   *)

\* get_extension_work_items hands the files out and forgets them.
claim_index_work ==
  /\ Up /\ indexJob.phase = "idle" /\ store.work # {}
  /\ indexJob' = [phase |-> "claimed", claim |-> store.work, built |-> {}]
  /\ store' = [store EXCEPT !.work = {}]
  /\ UNCHANGED <<readOnly, disk, compactJob, cleanJob, made, kept, toggles>>

\* A file whose index is in storage already is skipped and not reported.
build_index ==
  /\ indexJob.phase = "claimed" /\ indexJob.claim \cap removed = {}
  /\ indexJob' = [indexJob EXCEPT !.phase = "built", !.built = indexJob.claim \ sidecars]
  /\ sidecars' = sidecars \cup indexJob.claim
  /\ UNCHANGED <<store, readOnly, lake, removed, compactJob, cleanJob, made, kept, toggles>>

commit_index ==
  /\ Up /\ indexJob.phase = "built"
  /\ indexJob' = IdleIndexJob
  /\ store' = IF readOnly THEN store ELSE Requested(CommitIndex(store, indexJob.built))
  /\ UNCHANGED <<readOnly, disk, compactJob, cleanJob, made, kept, toggles>>

\* A file is gone, or the build fails: the error is logged, the claim forgotten.
index_fails ==
  /\ indexJob.phase = "claimed"
  /\ indexJob' = IdleIndexJob
  /\ IF indexJob.claim \cap removed # {} THEN UNCHANGED toggles ELSE Toggle
  /\ UNCHANGED <<store, readOnly, disk, compactJob, cleanJob, made, kept>>

\* get_compaction_work_items: a work item is handed out once.
claim_compaction ==
  /\ Up /\ compactJob.phase = "idle" /\ store.item # NoItem /\ ~store.in_progress
  /\ compactJob' = [phase |-> "claimed", item |-> store.item]
  /\ store' = [store EXCEPT !.in_progress = TRUE]
  /\ UNCHANGED <<readOnly, disk, indexJob, cleanJob, made, kept, toggles>>

CompactTo(phase) == compactJob' = [compactJob EXCEPT !.phase = phase]

\* compaction_commit only notes what the compactor says.
note_compaction ==
  /\ Up /\ compactJob.phase = "claimed"
  /\ IF readOnly THEN compactJob' = IdleCompactJob /\ UNCHANGED store
     ELSE CompactTo("noted") /\ store' = compaction_noted(store, compactJob.item)
  /\ UNCHANGED <<readOnly, disk, indexJob, cleanJob, made, kept, toggles>>

CompactedFile(item) == <<"iceberg", RowsOf(item.boat) \ item.dels>>

append_compacted ==
  /\ compactJob.phase = "noted" /\ compactJob.item.boat \cap removed = {}
  /\ lake' = lake \cup {CompactedFile(compactJob.item)}
  /\ CompactTo("appended")
  /\ UNCHANGED <<store, readOnly, removed, sidecars, indexJob, cleanJob, made, kept, toggles>>

commit_compacted ==
  /\ Up /\ compactJob.phase = "appended"
  /\ compactJob' = IdleCompactJob
  /\ store' = IF readOnly THEN store
              ELSE Requested(CommitIceberg(store, lake, compactJob.item, CompactedFile(compactJob.item)))
  /\ UNCHANGED <<readOnly, disk, indexJob, cleanJob, made, kept, toggles>>

\* The compaction is given up; its work item stays in progress.
compaction_fails ==
  /\ compactJob.phase = "noted" /\ Toggle
  /\ compactJob' = IdleCompactJob
  /\ UNCHANGED <<store, readOnly, disk, indexJob, cleanJob, made, kept>>

\* do_next_cleanup: the files are removed, then the report is sent; if that is
\* refused the loop's task panics.
clean_up ==
  /\ Up /\ cleanJob = "running" /\ store.cleanup # {}
  /\ store' = [store EXCEPT !.cleanup = {}]
  /\ removed' = removed \cup store.cleanup
  /\ cleanJob' = IF readOnly THEN "panicked" ELSE cleanJob
  /\ UNCHANGED <<readOnly, lake, sidecars, indexJob, compactJob, made, kept, toggles>>

MemoryNext ==
  \/ speedboat_insert \/ (\E row \in kept : speedboat_delete(row))
  \/ publish_all \/ SetApiMode
  \/ claim_index_work \/ build_index \/ commit_index \/ index_fails
  \/ claim_compaction \/ note_compaction \/ append_compacted \/ commit_compacted
  \/ compaction_fails \/ clean_up

MemorySpec == MemoryInit /\ [][MemoryNext]_memoryVars

----------------------------------------------------------------------------
(* Properties. *)

\* The latest checkpoint holds every row that was inserted and not deleted, in
\* one file only, through compactions that rewrite and delete checkpoints while
\* rows keep arriving.
LatestIsComplete ==
  LET c == LatestTable(store)
  IN /\ kept \subseteq LiveRows(c)
     /\ \A f, g \in DataFiles(c) : f # g => f[2] \cap g[2] = {}

\* Whatever was committed while a compaction was on its way, the six assertions
\* of replace_and_delete_checkpoints hold when its Iceberg commit arrives.
CompactionAssertionsHold == store.panicked # "iceberg_commit"

\* Cleanup never removes a file of the latest checkpoint.
LatestFilesExist == DataFiles(LatestTable(store)) \cap removed = {}

\* What searches read is fully indexed and its files exist.  Cleanup does not ask
\* what is published (README, deviations without a run).
SearchedCheckpointIsUsable ==
  store.published["es"] # 0 =>
    /\ store.published["es"] \in DOMAIN store.checkpoints
    /\ LET c == store.checkpoints[store.published["es"]]
       IN DataFiles(c) \subseteq c.covered /\ DataFiles(c) \cap removed = {}

\* The latest checkpoint stays whole through in-place compactions.
LatestStaysWhole ==
    /\ LatestIsComplete
    /\ LatestFilesExist
    /\ CompactionAssertionsHold

=============================================================================
