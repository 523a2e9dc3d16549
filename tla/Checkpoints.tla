---------------------------- MODULE Checkpoints ----------------------------
(***************************************************************************)
(* Commits and work queues of one table in the control plane's in-memory   *)
(* metadata backend (service_lib/src/ephemeral_service_impl.rs).           *)
(*                                                                         *)
(* A checkpoint says which files make up the table: Iceberg files, newer   *)
(* speedboat files, and delete files.  A commit never changes a            *)
(* checkpoint's files: it appends one.  The index number of a checkpoint   *)
(* is its id, 0 is no checkpoint, and the last one is the committed        *)
(* frontier.  A file is covered in a checkpoint when its search index is   *)
(* recorded there; the search frontier may only be a fully covered         *)
(* checkpoint.                                                             *)
(*                                                                         *)
(* The operators map the backend's state m and the arguments of a call to  *)
(* the state the call leaves.  The backend is one actor, so a call is one  *)
(* step.  A failed assertion leaves m as it was, panicked.                 *)
(* Lakehouse adds the processes that make the calls.                       *)
(*                                                                         *)
(* A lease is held while it has not expired.  A compaction work item's id  *)
(* and the checkpoint it replaces are generated together, so one number    *)
(* stands for both.  Schemas, sizes and the ids in checkpoints_to_delete   *)
(* are left out: no handler reads them to decide anything but the          *)
(* 30 MB alternative to the file-count threshold.                          *)
(***************************************************************************)
EXTENDS Naturals, FiniteSets, Sequences

CONSTANT Threshold   \* speedboat files in a checkpoint that call for compaction

ASSUME ThresholdAssumption == Threshold \in Nat

Files == {"iceberg", "speedboat", "delete", "snapshot"} \X Nat

TableMetadataCheckpoint ==
  [iceberg : SUBSET Files, speedboat : SUBSET Files, deletes : SUBSET Files,
   covered : SUBSET Files]

CompactionWorkItem ==
  [id : Nat, speedboat : SUBSET Files, deletes : SUBSET Files]

NoCompaction == [id |-> 0, speedboat |-> {}, deletes |-> {}]

Metadata ==
  [checkpoints : Seq(TableMetadataCheckpoint),
   searchable : Nat,               \* latest checkpoint committed for "es"
   waiting : SUBSET Nat,           \* checkpoints needing extension work
   work : SUBSET Files,            \* files of the extension work item
   workCheckpoint : Nat,           \* its newest checkpoint
   workLeased : BOOLEAN,
   recent : SUBSET Files,          \* files with known extension metadata
   notes : SUBSET CompactionWorkItem,
   compaction : CompactionWorkItem,
   compactionLeased : BOOLEAN,
   cleanup : SUBSET CompactionWorkItem,
   cleanupLeased : SUBSET Nat,
   panicked : {"no", "extension_commit", "iceberg_commit"}]

NewMetadata ==
  [checkpoints |-> <<>>, searchable |-> 0, waiting |-> {}, work |-> {},
   workCheckpoint |-> 0, workLeased |-> FALSE, recent |-> {}, notes |-> {},
   compaction |-> NoCompaction, compactionLeased |-> FALSE, cleanup |-> {},
   cleanupLeased |-> {}, panicked |-> "no"]

EmptyCheckpoint == [iceberg |-> {}, speedboat |-> {}, deletes |-> {}, covered |-> {}]

latest_checkpoint(m) ==
  IF m.checkpoints = <<>> THEN EmptyCheckpoint
                          ELSE m.checkpoints[Len(m.checkpoints)]

current_file_paths(c) == c.iceberg \cup c.speedboat

Uncovered(c) == current_file_paths(c) \ c.covered

fully_covered_for_extension(c) == Uncovered(c) = {}

----------------------------------------------------------------------------
(* Extension work. *)

\* Coverage the new checkpoint starts with: what its predecessor had for the
\* files it still has, and the recently indexed files.
try_fill_checkpoint_extension_metadata(m, c) ==
  [c EXCEPT !.covered = current_file_paths(c) \cap (c.covered \cup m.recent)]

\* Slip: the newest checkpoint is replaced in place.
InPlaceCheckpoint(m, c) ==
  [m EXCEPT !.checkpoints =
     Append(SubSeq(m.checkpoints, 1, Len(m.checkpoints) - 1),
            try_fill_checkpoint_extension_metadata(m, c))]

\* Insert a checkpoint and make it the committed frontier.
InsertCheckpoint(m, c) ==
  [m EXCEPT !.checkpoints =
     Append(m.checkpoints, try_fill_checkpoint_extension_metadata(m, c))]

\* Slip: the new checkpoint waits only if there was no work item yet.
ForgetfulFill(m) ==
  LET files == current_file_paths(latest_checkpoint(m)) \ m.recent
  IN IF files = {} THEN m
     ELSE [m EXCEPT !.work = m.work \cup files,
                    !.workCheckpoint = Len(m.checkpoints),
                    !.waiting = IF m.work = {} THEN m.waiting \cup {Len(m.checkpoints)}
                                               ELSE m.waiting]

\* The files of the newest checkpoint without a known index join the work
\* item, and the checkpoint waits for them.
fill_extension_work_item(m) ==
  LET files == current_file_paths(latest_checkpoint(m)) \ m.recent
  IN IF files = {} THEN m
     ELSE [m EXCEPT !.work = m.work \cup files,
                    !.workCheckpoint = Len(m.checkpoints),
                    !.waiting = m.waiting \cup {Len(m.checkpoints)}]

add_coverage(c, files) ==
  [c EXCEPT !.covered = c.covered \cup (current_file_paths(c) \cap files)]

\* Waiting checkpoints that a commit of these files completes.
Completed(m, files) ==
  {id \in m.waiting : Uncovered(m.checkpoints[id]) \subseteq files}

Latest(ids) == CHOOSE id \in ids : \A other \in ids : other <= id

\* Slip: the newest checkpoint becomes searchable, complete or not.
EagerFrontier(m, done) == Len(m.checkpoints)

SearchFrontier(m, done) ==
  IF m.searchable < Latest(done) THEN Latest(done) ELSE m.searchable

apply_extension_commit_to_work_item(m, files) ==
  [m EXCEPT !.work = m.work \ files, !.workLeased = FALSE]

\* Files were indexed: the waiting checkpoints are covered further, those that
\* are complete stop waiting, and the search frontier moves up to the newest of
\* them.  Both assertions fail exactly when no waiting checkpoint is completed.
extension_commit(m, files) ==
  LET done == Completed(m, files)
      covered == [m EXCEPT
        !.checkpoints = [id \in 1 .. Len(m.checkpoints) |->
           IF id \in m.waiting THEN add_coverage(m.checkpoints[id], files)
                               ELSE m.checkpoints[id]],
        !.waiting = m.waiting \ done,
        !.recent = m.recent \cup files,
        !.searchable = SearchFrontier(m, done)]
  IN IF done = {} THEN [m EXCEPT !.panicked = "extension_commit"]
     ELSE apply_extension_commit_to_work_item(covered, files)

----------------------------------------------------------------------------
(* Ingest and compaction. *)

maybe_create_compaction_work_item(m) ==
  LET c == latest_checkpoint(m)
  IN IF m.compaction # NoCompaction \/ Cardinality(c.speedboat) < Threshold THEN m
     ELSE [m EXCEPT !.compaction = [id |-> Len(m.checkpoints),
                                    speedboat |-> c.speedboat,
                                    deletes |-> c.deletes],
                    !.compactionLeased = FALSE]

speedboat_commit_type_commit(m, file) ==
  LET c == latest_checkpoint(m)
  IN maybe_create_compaction_work_item(
       fill_extension_work_item(
         InsertCheckpoint(m, [c EXCEPT !.speedboat = c.speedboat \cup {file}])))

\* A delete commit asks for no extension work and checks no threshold.
speedboat_commit_type_delete(m, file) ==
  LET c == latest_checkpoint(m)
  IN InsertCheckpoint(m, [c EXCEPT !.deletes = c.deletes \cup {file}])

compaction_commit(m, item) == [m EXCEPT !.notes = m.notes \cup {item}]

Noted(m, ids) == {note \in m.notes : note.id \in ids}

\* The lookups of handle_compactions succeed, and so do the assertions of
\* replace_and_delete_checkpoints: each takes the table's only work item away.
CompactionsMatchWorkItem(m, compactions) ==
  \/ compactions = <<>>
  \/ /\ Len(compactions) = 1
     /\ m.compaction # NoCompaction
     /\ m.compaction.id = compactions[1]
     /\ Noted(m, {compactions[1]}) # {}

\* Slip: the compacted speedboat files stay in the checkpoint.
KeepingCompactions(m, c, ids) == c

handle_compactions(m, c, ids) ==
  [c EXCEPT !.speedboat = c.speedboat \ UNION {note.speedboat : note \in Noted(m, ids)},
            !.deletes = c.deletes \ UNION {note.deletes : note \in Noted(m, ids)}]

\* The deletes the compaction could not apply (deletes_table_info) arrive with
\* the call and are not read.
iceberg_commit(m, files, compactions) ==
  LET ids == {compactions[i] : i \in 1 .. Len(compactions)}
      c == [latest_checkpoint(m) EXCEPT !.iceberg = files]
      committed == fill_extension_work_item(
                     InsertCheckpoint(m, handle_compactions(m, c, ids)))
  IN IF ~CompactionsMatchWorkItem(m, compactions)
     THEN [m EXCEPT !.panicked = "iceberg_commit"]
     ELSE IF ids = {} THEN committed
     ELSE [committed EXCEPT !.compaction = NoCompaction,
                            !.compactionLeased = FALSE,
                            !.cleanup = m.cleanup \cup Noted(m, ids)]

----------------------------------------------------------------------------
(* Claims and cleanup. *)

get_extension_work_items(m) == [m EXCEPT !.workLeased = TRUE]

get_compaction_work_items(m) == [m EXCEPT !.compactionLeased = TRUE]

checkpoint_references_any_cleanup_file(c, files) ==
  files \cap (c.speedboat \cup c.deletes) # {}

\* Slip: nothing is consulted.
AlwaysReady(m, item, active) == TRUE

\* active maps a selector to its active checkpoint, 0 if it has none.
cleanup_work_item_is_ready(m, item, active) ==
  \A e \in DOMAIN active :
    active[e] # 0 =>
      ~checkpoint_references_any_cleanup_file(m.checkpoints[active[e]],
                                              item.speedboat \cup item.deletes)

ReadyCleanup(m, active) ==
  {item \in m.cleanup : /\ cleanup_work_item_is_ready(m, item, active)
                        /\ item.id \notin m.cleanupLeased}

get_cleanup_work_items(m, active) ==
  [m EXCEPT !.cleanupLeased =
     m.cleanupLeased \cup {item.id : item \in ReadyCleanup(m, active)}]

cleanup_commit(m, item) ==
  [m EXCEPT !.cleanup = m.cleanup \ {item},
            !.cleanupLeased = m.cleanupLeased \ {item.id}]
=============================================================================
