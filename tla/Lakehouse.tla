----------------------------- MODULE Lakehouse -----------------------------
(***************************************************************************)
(* One table with everything that changes it: clients that insert, delete  *)
(* and update rows, the control plane of Checkpoints, the three background *)
(* loops of every engine process (index, compact, clean up), the Iceberg   *)
(* table and the object storage.                                           *)
(*                                                                         *)
(* Row k is written by speedboat file k and deleted by delete file k.  The *)
(* Iceberg table is the sequence of its snapshots; a compaction appends    *)
(* one file, so snapshot i adds Iceberg file i and its id is i.            *)
(*                                                                         *)
(* A background loop is a claim, some work and one or more calls, each a   *)
(* step of its own.  An engine may fail or restart between any two of      *)
(* them, and a lease may expire at any time.  Which checkpoint queries     *)
(* read is abstracted to what Cutover implements (PublishedFrontier).      *)
(***************************************************************************)
EXTENDS Checkpoints

CONSTANTS
  Engines,       \* engine processes that run the background loops
  MaxRows,       \* bound: rows inserted
  MaxDeletes,    \* bound: rows deleted
  MaxExpiries,   \* bound: leases that expire before the work is done
  MaxFaults      \* bound: failed calls and engine restarts

ASSUME LakehouseAssumption ==
  MaxRows \in Nat /\ MaxDeletes \in Nat /\ MaxExpiries \in Nat /\ MaxFaults \in Nat

VARIABLES
  meta,        \* the control plane's metadata of the table
  active,      \* selector -> checkpoint that queries read
  snapshots,   \* the Iceberg table's history: compaction id and rows added
  deleted,     \* files deleted from object storage
  sidecars,    \* files whose index is in object storage
  indexer,     \* engine -> files it claimed for indexing, indexes it built
  compactor,   \* engine -> compaction in progress, last snapshot seen
  cleaner,     \* engine -> cleanup items it claimed
  rows,        \* number of rows inserted so far
  live,        \* rows inserted and not deleted
  expiries, faults

vars == <<meta, active, snapshots, deleted, sidecars, indexer, compactor,
          cleaner, rows, live, expiries, faults>>

Selectors == {"none", "es"}
Rows == 1 .. MaxRows
Snapshots == [compaction : Nat, rows : SUBSET Nat]
Phases == {"idle", "claimed", "noted", "appended", "loaded"}
Compactors ==
  [phase : Phases, item : CompactionWorkItem, snapshot : Nat, last : Nat]

Indexers ==
  [phase : {"idle", "claimed", "built"}, claim : SUBSET Files, checkpoint : Nat,
   built : SUBSET Files]

IdleIndexer == [phase |-> "idle", claim |-> {}, checkpoint |-> 0, built |-> {}]

\* last = 0 is the loop's initial snapshot id -1: the whole history is new.
IdleCompactor(last) ==
  [phase |-> "idle", item |-> NoCompaction, snapshot |-> 0, last |-> last]

Init ==
  /\ meta = NewMetadata
  /\ active = [e \in Selectors |-> 0]
  /\ snapshots = <<>>
  /\ deleted = {}
  /\ sidecars = {}
  /\ indexer = [w \in Engines |-> IdleIndexer]
  /\ compactor = [w \in Engines |-> IdleCompactor(0)]
  /\ cleaner = [w \in Engines |-> {}]
  /\ rows = 0 /\ live = {} /\ expiries = 0 /\ faults = 0

SpeedboatFile(row) == <<"speedboat", row>>
DeleteFile(row) == <<"delete", row>>
IcebergFile(snapshot) == <<"iceberg", snapshot>>

Readable(files) == files \cap deleted = {}

\* After a failed assertion the metadata actor answers no more calls.
Answers == meta.panicked = "no"

workers == <<indexer, compactor, cleaner>>
storage == <<snapshots, deleted, sidecars>>
bounds == <<expiries, faults>>

----------------------------------------------------------------------------
(* Ingest. *)

\* create_single, index_single of a new document, bulk create and index.
Insert ==
  /\ Answers
  /\ rows < MaxRows
  /\ meta' = speedboat_commit_type_commit(meta, SpeedboatFile(rows + 1))
  /\ rows' = rows + 1
  /\ live' = live \cup {rows + 1}
  /\ UNCHANGED <<active, storage, workers, bounds>>

Deletes == rows - Cardinality(live)

\* delete: the looked-up row is named in a delete file.
Delete(row) ==
  /\ Answers
  /\ Deletes < MaxDeletes
  /\ row \in live
  /\ meta' = speedboat_commit_type_delete(meta, DeleteFile(row))
  /\ live' = live \ {row}
  /\ UNCHANGED <<active, storage, workers, rows, bounds>>

\* replace_record: one speedboat commit that inserts, then deletes.
Update(row) ==
  /\ Answers
  /\ rows < MaxRows /\ Deletes < MaxDeletes
  /\ row \in live
  /\ meta' = speedboat_commit_type_delete(
               speedboat_commit_type_commit(meta, SpeedboatFile(rows + 1)),
               DeleteFile(row))
  /\ rows' = rows + 1
  /\ live' = (live \ {row}) \cup {rows + 1}
  /\ UNCHANGED <<active, storage, workers, bounds>>

\* The cutover makes committed checkpoints active (see PublishedFrontier).
Frontiers == [e \in Selectors |->
                IF e = "es" THEN meta.searchable ELSE Len(meta.checkpoints)]

\* Slip: the checkpoint after the committed one is published.
OvershootingPublish(e) ==
  /\ Answers
  /\ active[e] # Frontiers[e]
  /\ active' = [active EXCEPT ![e] = Frontiers[e] + 1]
  /\ UNCHANGED <<meta, storage, workers, rows, live, bounds>>

Publish(e) ==
  /\ Answers
  /\ active[e] # Frontiers[e]
  /\ active' = [active EXCEPT ![e] = Frontiers[e]]
  /\ UNCHANGED <<meta, storage, workers, rows, live, bounds>>

----------------------------------------------------------------------------
(* The index loop. *)

Indexing(w, phase) == indexer[w].phase = phase

ClaimExtensionWork(w) ==
  /\ Answers
  /\ Indexing(w, "idle")
  /\ meta.work # {} /\ ~meta.workLeased
  /\ meta' = get_extension_work_items(meta)
  /\ indexer' = [indexer EXCEPT ![w].phase = "claimed", ![w].claim = meta.work,
                               ![w].checkpoint = meta.workCheckpoint]
  /\ UNCHANGED <<active, storage, compactor, cleaner, rows, live, bounds>>

\* A file whose index is already there is skipped and not reported.
NewIndexes(w) == indexer[w].claim \ sidecars

\* The lookup artifact of the claim's newest checkpoint, made of its Iceberg and
\* delete files; one that is already there is reported all the same.
SnapshotArtifact(w) == <<"snapshot", indexer[w].checkpoint>>

SnapshotInput(w) ==
  LET c == meta.checkpoints[indexer[w].checkpoint]
  IN IF c.iceberg = {} \/ SnapshotArtifact(w) \in sidecars THEN {}
     ELSE c.iceberg \cup c.deletes

IndexInput(w) == NewIndexes(w) \cup SnapshotInput(w)

create_index_inner_with_doc_id(w) ==
  /\ Indexing(w, "claimed") /\ Readable(IndexInput(w))
  /\ indexer' = [indexer EXCEPT ![w].phase = "built", ![w].built = NewIndexes(w)]
  /\ sidecars' = sidecars \cup indexer[w].claim
                   \cup (IF SnapshotInput(w) = {} THEN {} ELSE {SnapshotArtifact(w)})
  /\ UNCHANGED <<meta, active, snapshots, deleted, compactor, cleaner, rows, live, bounds>>

\* An input cannot be read: the indexes built before it stay, the error is
\* logged and the claim abandoned.
IndexInputMissing(w) ==
  /\ Indexing(w, "claimed") /\ ~Readable(IndexInput(w))
  /\ indexer' = [indexer EXCEPT ![w] = IdleIndexer]
  /\ \E part \in SUBSET (NewIndexes(w) \ deleted) : sidecars' = sidecars \cup part
  /\ UNCHANGED <<meta, active, snapshots, deleted, compactor, cleaner, rows, live, bounds>>

create_index(w) ==
  /\ Answers
  /\ Indexing(w, "built")
  /\ meta' = extension_commit(meta, indexer[w].built)
  /\ indexer' = [indexer EXCEPT ![w] = IdleIndexer]
  /\ UNCHANGED <<active, storage, compactor, cleaner, rows, live, bounds>>

----------------------------------------------------------------------------
(* The compaction loop. *)

AtPhase(w, phase) == compactor[w].phase = phase

ClaimCompactionWork(w) ==
  /\ Answers
  /\ AtPhase(w, "idle")
  /\ meta.compaction # NoCompaction /\ ~meta.compactionLeased
  /\ meta' = get_compaction_work_items(meta)
  /\ compactor' = [compactor EXCEPT ![w].phase = "claimed", ![w].item = meta.compaction]
  /\ UNCHANGED <<active, storage, indexer, cleaner, rows, live, bounds>>

NoteCompaction(w) ==
  /\ Answers
  /\ AtPhase(w, "claimed")
  /\ meta' = compaction_commit(meta, compactor[w].item)
  /\ compactor' = [compactor EXCEPT ![w].phase = "noted"]
  /\ UNCHANGED <<active, storage, indexer, cleaner, rows, live, bounds>>

RowsIn(files) == {f[2] : f \in files}

\* The rows of the claimed speedboat files that no claimed delete file names.
CompactedRows(item) == RowsIn(item.speedboat) \ RowsIn(item.deletes)

CompactionInput(w) == compactor[w].item.speedboat \cup compactor[w].item.deletes

\* The leader joins rows and deletes and appends the result to Iceberg in one
\* transaction that carries the compaction id.
update_iceberg(w) ==
  /\ AtPhase(w, "noted") /\ Readable(CompactionInput(w))
  /\ snapshots' = Append(snapshots, [compaction |-> compactor[w].item.id,
                                     rows |-> CompactedRows(compactor[w].item)])
  /\ compactor' = [compactor EXCEPT ![w].phase = "appended"]
  /\ UNCHANGED <<meta, active, deleted, sidecars, indexer, cleaner, rows, live, bounds>>

CompactionInputMissing(w) ==
  /\ AtPhase(w, "noted") /\ ~Readable(CompactionInput(w))
  /\ compactor' = [compactor EXCEPT ![w] = IdleCompactor(compactor[w].last)]
  /\ UNCHANGED <<meta, active, storage, indexer, cleaner, rows, live, bounds>>

load_iceberg_table_metadata(w) ==
  /\ AtPhase(w, "appended")
  /\ compactor' = [compactor EXCEPT ![w].phase = "loaded", ![w].snapshot = Len(snapshots)]
  /\ UNCHANGED <<meta, active, storage, indexer, cleaner, rows, live, bounds>>

\* Slip: the whole history is reported every time.
WholeHistory(snapshot, last) ==
  [i \in 1 .. snapshot |-> snapshots[snapshot + 1 - i].compaction]

\* The compactions of the snapshots after last, newest first.
collect_iceberg_compactions(snapshot, last) ==
  [i \in 1 .. (snapshot - last) |-> snapshots[snapshot + 1 - i].compaction]

do_iceberg_commit(w) ==
  LET seen == compactor[w].snapshot
  IN /\ Answers
     /\ AtPhase(w, "loaded")
     /\ meta' = iceberg_commit(meta, {IcebergFile(i) : i \in 1 .. seen},
                               collect_iceberg_compactions(seen, compactor[w].last))
     /\ compactor' = [compactor EXCEPT ![w] = IdleCompactor(seen)]
     /\ UNCHANGED <<active, storage, indexer, cleaner, rows, live, bounds>>

----------------------------------------------------------------------------
(* The cleanup loop. *)

ClaimCleanupWork(w) ==
  /\ Answers
  /\ cleaner[w] = {}
  /\ ReadyCleanup(meta, active) # {}
  /\ meta' = get_cleanup_work_items(meta, active)
  /\ cleaner' = [cleaner EXCEPT ![w] = ReadyCleanup(meta, active)]
  /\ UNCHANGED <<active, storage, indexer, compactor, rows, live, bounds>>

perform_cleanup_work(w, item) ==
  /\ item \in cleaner[w]
  /\ ~(item.speedboat \cup item.deletes \subseteq deleted)
  /\ deleted' = deleted \cup item.speedboat \cup item.deletes
  /\ UNCHANGED <<meta, active, snapshots, sidecars, workers, rows, live, bounds>>

CommitCleanup(w, item) ==
  /\ Answers
  /\ item \in cleaner[w]
  /\ item.speedboat \cup item.deletes \subseteq deleted
  /\ meta' = cleanup_commit(meta, item)
  /\ cleaner' = [cleaner EXCEPT ![w] = cleaner[w] \ {item}]
  /\ UNCHANGED <<active, storage, indexer, compactor, rows, live, bounds>>

----------------------------------------------------------------------------
(* Leases and faults. *)

\* An expiry while an engine still works on the claim is counted; the expiry of
\* an abandoned claim is not.
CountExpiry(inProgress) ==
  IF inProgress THEN expiries < MaxExpiries /\ expiries' = expiries + 1
                ELSE UNCHANGED expiries

LeaseExpires ==
  /\ Answers
  /\ \/ /\ meta.workLeased
        /\ CountExpiry(\E w \in Engines : ~Indexing(w, "idle"))
        /\ meta' = [meta EXCEPT !.workLeased = FALSE]
     \/ /\ meta.compactionLeased
        /\ CountExpiry(\E w \in Engines : ~AtPhase(w, "idle"))
        /\ meta' = [meta EXCEPT !.compactionLeased = FALSE]
     \/ \E id \in meta.cleanupLeased :
          /\ CountExpiry(\E w \in Engines : \E item \in cleaner[w] : item.id = id)
          /\ meta' = [meta EXCEPT !.cleanupLeased = meta.cleanupLeased \ {id}]
  /\ UNCHANGED <<active, storage, workers, rows, live, faults>>

\* What an engine leaves in object storage when it stops: if it was building
\* indexes, some of them.
LeavesIndexes(w) ==
  \E part \in SUBSET (IF Indexing(w, "claimed") THEN indexer[w].claim \ deleted ELSE {}) :
    sidecars' = sidecars \cup part

\* A call of the index or the compaction loop fails and the loop abandons what
\* it claimed.
WorkFails(w) ==
  /\ faults < MaxFaults
  /\ faults' = faults + 1
  /\ \/ /\ ~Indexing(w, "idle")
        /\ indexer' = [indexer EXCEPT ![w] = IdleIndexer]
        /\ LeavesIndexes(w)
        /\ UNCHANGED compactor
     \/ /\ ~AtPhase(w, "idle")
        /\ compactor' = [compactor EXCEPT ![w] = IdleCompactor(compactor[w].last)]
        /\ UNCHANGED <<indexer, sidecars>>
  /\ UNCHANGED <<meta, active, snapshots, deleted, cleaner, rows, live, expiries>>

\* An engine restarts: its claims and its last snapshot id are gone.
Restart(w) ==
  /\ faults < MaxFaults
  /\ faults' = faults + 1
  /\ indexer' = [indexer EXCEPT ![w] = IdleIndexer]
  /\ compactor' = [compactor EXCEPT ![w] = IdleCompactor(0)]
  /\ cleaner' = [cleaner EXCEPT ![w] = {}]
  /\ LeavesIndexes(w)
  /\ UNCHANGED <<meta, active, snapshots, deleted, rows, live, expiries>>

----------------------------------------------------------------------------
Ingest == Insert \/ \E row \in live : Delete(row) \/ Update(row)

IndexStep(w) ==
  \/ ClaimExtensionWork(w)
  \/ create_index_inner_with_doc_id(w) \/ IndexInputMissing(w)
  \/ create_index(w)

CompactionStep(w) ==
  \/ ClaimCompactionWork(w) \/ NoteCompaction(w)
  \/ update_iceberg(w) \/ CompactionInputMissing(w)
  \/ load_iceberg_table_metadata(w) \/ do_iceberg_commit(w)

CleanupStep(w) ==
  \/ ClaimCleanupWork(w)
  \/ \E item \in cleaner[w] : perform_cleanup_work(w, item) \/ CommitCleanup(w, item)

Next ==
  \/ Ingest
  \/ \E e \in Selectors : Publish(e)
  \/ \E w \in Engines : IndexStep(w) \/ CompactionStep(w) \/ CleanupStep(w)
  \/ LeaseExpires
  \/ \E w \in Engines : WorkFails(w) \/ Restart(w)

Spec == Init /\ [][Next]_vars

\* The loops and the checkpoint updater run for ever; so does the clock.
FairSpec ==
  /\ Spec
  /\ \A e \in Selectors : WF_vars(Publish(e))
  /\ \A w \in Engines :
       /\ WF_vars(IndexStep(w))
       /\ WF_vars(CompactionStep(w))
       /\ WF_vars(CleanupStep(w))
  /\ WF_vars(LeaseExpires)

----------------------------------------------------------------------------
(* Properties. *)

\* Every variable has its type, and only checkpoints that exist are active.
TypeOK ==
  /\ meta \in Metadata
  /\ active \in [Selectors -> 0 .. Len(meta.checkpoints)]
  /\ snapshots \in Seq(Snapshots)
  /\ deleted \in SUBSET Files /\ sidecars \in SUBSET Files
  /\ indexer \in [Engines -> Indexers]
  /\ compactor \in [Engines -> Compactors]
  /\ cleaner \in [Engines -> SUBSET CompactionWorkItem]
  /\ rows \in Nat /\ live \in SUBSET Nat /\ expiries \in Nat /\ faults \in Nat

\* The extension work item holds exactly the files the waiting checkpoints
\* still lack, whichever engine commits which claim in whatever order: no file
\* is forgotten (its checkpoint would wait for ever) and none is indexed for
\* nothing.
ExtensionWorkIsExact ==
  /\ meta.waiting \subseteq 1 .. Len(meta.checkpoints)
  /\ \A id \in meta.waiting : ~fully_covered_for_extension(meta.checkpoints[id])
  /\ meta.work = UNION {Uncovered(meta.checkpoints[id]) : id \in meta.waiting}

\* Search only ever moves to a checkpoint whose every file is indexed, although
\* extension commits complete checkpoints out of order and several times.
SearchFrontierIsCovered ==
  /\ meta.searchable <= Len(meta.checkpoints)
  /\ meta.searchable # 0 =>
       fully_covered_for_extension(meta.checkpoints[meta.searchable])

\* What a query pinned to a checkpoint reads does not change under it: commits,
\* compactions and index results leave the files of existing checkpoints alone
\* and only add coverage.
CheckpointsAreImmutable ==
  [][\A id \in 1 .. Len(meta.checkpoints) :
       LET before == meta.checkpoints[id]
           after == meta'.checkpoints[id]
       IN /\ after.iceberg = before.iceberg
          /\ after.speedboat = before.speedboat
          /\ after.deletes = before.deletes
          /\ before.covered \subseteq after.covered]_vars

RowsOf(f) == IF f[1] = "iceberg" THEN snapshots[f[2]].rows ELSE {f[2]}

Copies(c, row) == {f \in current_file_paths(c) : row \in RowsOf(f)}

\* Every row that was inserted and not deleted is in exactly one file of the
\* committed checkpoint and hidden by none of its delete files: an Iceberg
\* commit that takes over a compaction's rows removes the speedboat files they
\* came from, whatever was inserted or deleted since the compaction began.
LiveRowsExactlyOnce ==
  \A row \in live :
    /\ \E f \in current_file_paths(latest_checkpoint(meta)) : Copies(latest_checkpoint(meta), row) = {f}
    /\ row \notin RowsIn(latest_checkpoint(meta).deletes)

\* A deleted row is in no file of the committed checkpoint, or a delete file
\* hides it.
DeletedRowsStayDeleted ==
  \A row \in (1 .. rows) \ live :
    \/ Copies(latest_checkpoint(meta), row) = {}
    \/ row \in RowsIn(latest_checkpoint(meta).deletes)

FilesOf(id) ==
  IF id = 0 THEN {}
  ELSE LET c == meta.checkpoints[id] IN current_file_paths(c) \cup c.deletes

\* Cleanup deletes no file of the checkpoint that table queries read, nor of
\* the one they will read after the next publication, although the check was
\* made when the work was claimed and the files are deleted later.
TableFilesExist ==
  Readable(FilesOf(active["none"])) /\ Readable(FilesOf(Len(meta.checkpoints)))

\* The same for the checkpoint that search queries read.  It may lose files:
\* cleanup is judged by the checkpoints active when it is claimed (README,
\* deviations without a run).
SearchFilesExist == Readable(FilesOf(active["es"]))

\* Compaction never comes out empty (the leader asserts it): the work item is
\* created by an insert whose own row no delete file of the item can name.
CompactionIsNotEmpty ==
  \A w \in Engines : ~AtPhase(w, "idle") => CompactedRows(compactor[w].item) # {}

\* The assertions of extension_commit hold: every extension commit completes a
\* checkpoint that waits for it.  They do not after a build that stopped half-way
\* (README, deviations without a run); WholeBuildsComplete is what holds.
ExtensionCommitsComplete == meta.panicked # "extension_commit"

\* What those assertions can rely on, whatever leases expire and engines fail:
\* a build that made every index it claimed completes a checkpoint, as long as
\* no one else committed one of its files first.
WholeBuildsComplete ==
  \A w \in Engines :
    (/\ Indexing(w, "built")
     /\ indexer[w].built = indexer[w].claim
     /\ indexer[w].claim \subseteq meta.work)
    => Completed(meta, indexer[w].built) # {}

\* The lookups and assertions of iceberg_commit hold: every compaction it is
\* told of is noted and is the one the table's work item waits for, so each
\* compaction is applied once.
CompactionsAppliedOnce == meta.panicked # "iceberg_commit"

\* The table's life cycle implements the published frontier too, so what is
\* proved of the cutover holds of the checkpoints committed here.
Frontier == INSTANCE PublishedFrontier WITH
  Extensions <- Selectors, committed <- Frontiers

ImplementsFrontier == Frontier!Spec

\* A row becomes searchable: an index is built for it, the search frontier moves
\* to a checkpoint that has it, and that checkpoint is published, unless the row
\* is deleted first.
InsertedRowsBecomeSearchable ==
  \A row \in Rows :
    row \in live ~> \/ row \notin live
                    \/ \E f \in FilesOf(active["es"]) : f[1] # "delete" /\ row \in RowsOf(f)
=============================================================================
