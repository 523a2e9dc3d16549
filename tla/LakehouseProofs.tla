-------------------------- MODULE LakehouseProofs --------------------------
(***************************************************************************)
(* The checkpoints and the extension work of a table, for every number of  *)
(* engines, rows, lease expiries and faults: the work item holds exactly   *)
(* what the waiting checkpoints lack, the search frontier is fully         *)
(* indexed, checkpoints are immutable, a whole build completes one, and    *)
(* the table's life cycle implements PublishedFrontier.                    *)
(*                                                                         *)
(* The first part is about the operators of Checkpoints, each as a map     *)
(* from metadata to metadata; the second lifts them to the actions.        *)
(*                                                                         *)
(* The third part is about the files of the table: cleanup deletes no file *)
(* that table queries read or will read, and a compaction never comes out  *)
(* empty, however many engines take the same compaction and wherever they  *)
(* stop.  A step does one of three things to the table (NextTable):        *)
(* nothing, an ingest, or an Iceberg commit.                               *)
(***************************************************************************)
EXTENDS Lakehouse, WellFoundedInduction, TLAPS

(* The inductive invariant of the metadata.  What it adds to the properties *)
(* is that no checkpoint is covered beyond the recently indexed files:      *)
(* with it the files a new checkpoint lacks are those fill_extension_work_  *)
(* item asks for, although it looks at recent and not at the checkpoint.    *)
Count(m) == Len(m.checkpoints)

CoverageIsRecent(m) ==
  \A id \in 1 .. Count(m) : m.checkpoints[id].covered \subseteq m.recent

WorkIsExact(m) ==
  /\ m.waiting \subseteq 1 .. Count(m)
  /\ \A id \in m.waiting : Uncovered(m.checkpoints[id]) # {}
  /\ m.work = UNION {Uncovered(m.checkpoints[id]) : id \in m.waiting}

FrontierIsCovered(m) ==
  /\ m.searchable <= Count(m)
  /\ m.searchable # 0 => Uncovered(m.checkpoints[m.searchable]) = {}

MetaInv(m) ==
  m \in Metadata /\ CoverageIsRecent(m) /\ WorkIsExact(m) /\ FrontierIsCovered(m)

\* A commit: checkpoints are added, none is changed, and the work that is
\* added is about files that were not indexed recently.
Grows(m, r) ==
  /\ MetaInv(r)
  /\ Count(r) >= Count(m)
  /\ \A id \in 1 .. Count(m) : r.checkpoints[id] = m.checkpoints[id]
  /\ m.waiting \subseteq r.waiting
  /\ r.recent = m.recent
  /\ r.work \cap m.recent \subseteq m.work
  /\ r.searchable = m.searchable

SameQueues(m, r) ==
  /\ r.notes = m.notes /\ r.compaction = m.compaction
  /\ r.cleanup = m.cleanup /\ r.panicked = m.panicked

SameFiles(c, d) ==
  c.iceberg = d.iceberg /\ c.speedboat = d.speedboat /\ c.deletes = d.deletes

----------------------------------------------------------------------------
(* Records. *)

\* One field of the metadata at a time may be replaced by a value of its type.
LEMMA MetadataUpdate ==
  ASSUME NEW m \in Metadata
  PROVE  /\ \A x \in Seq(TableMetadataCheckpoint) : [m EXCEPT !.checkpoints = x] \in Metadata
         /\ \A x \in Nat : [m EXCEPT !.searchable = x] \in Metadata
         /\ \A x \in SUBSET Nat : [m EXCEPT !.waiting = x] \in Metadata
         /\ \A x \in SUBSET Files : [m EXCEPT !.work = x] \in Metadata
         /\ \A x \in Nat : [m EXCEPT !.workCheckpoint = x] \in Metadata
         /\ \A x \in BOOLEAN : [m EXCEPT !.workLeased = x] \in Metadata
         /\ \A x \in SUBSET Files : [m EXCEPT !.recent = x] \in Metadata
         /\ \A x \in SUBSET CompactionWorkItem : [m EXCEPT !.notes = x] \in Metadata
         /\ \A x \in CompactionWorkItem : [m EXCEPT !.compaction = x] \in Metadata
         /\ \A x \in BOOLEAN : [m EXCEPT !.compactionLeased = x] \in Metadata
         /\ \A x \in SUBSET CompactionWorkItem : [m EXCEPT !.cleanup = x] \in Metadata
         /\ \A x \in SUBSET Nat : [m EXCEPT !.cleanupLeased = x] \in Metadata
         /\ \A x \in {"no", "extension_commit", "iceberg_commit"} :
              [m EXCEPT !.panicked = x] \in Metadata
<1> USE DEF Metadata
<1>1. \A x \in Seq(TableMetadataCheckpoint) : [m EXCEPT !.checkpoints = x] \in Metadata
  BY Zenon
<1>2. \A x \in Nat : [m EXCEPT !.searchable = x] \in Metadata
  OBVIOUS
<1>3. \A x \in SUBSET Nat : [m EXCEPT !.waiting = x] \in Metadata
  OBVIOUS
<1>4. \A x \in SUBSET Files : [m EXCEPT !.work = x] \in Metadata
  OBVIOUS
<1>5. \A x \in Nat : [m EXCEPT !.workCheckpoint = x] \in Metadata
  OBVIOUS
<1>6. \A x \in BOOLEAN : [m EXCEPT !.workLeased = x] \in Metadata
  OBVIOUS
<1>7. \A x \in SUBSET Files : [m EXCEPT !.recent = x] \in Metadata
  OBVIOUS
<1>8. \A x \in SUBSET CompactionWorkItem : [m EXCEPT !.notes = x] \in Metadata
  OBVIOUS
<1>9. \A x \in CompactionWorkItem : [m EXCEPT !.compaction = x] \in Metadata
  OBVIOUS
<1>10. \A x \in BOOLEAN : [m EXCEPT !.compactionLeased = x] \in Metadata
  OBVIOUS
<1>11. \A x \in SUBSET CompactionWorkItem : [m EXCEPT !.cleanup = x] \in Metadata
  OBVIOUS
<1>12. \A x \in SUBSET Nat : [m EXCEPT !.cleanupLeased = x] \in Metadata
  OBVIOUS
<1>13. \A x \in {"no", "extension_commit", "iceberg_commit"} :
         [m EXCEPT !.panicked = x] \in Metadata
  OBVIOUS
<1> HIDE DEF Metadata
<1> QED
  BY <1>1, <1>2, <1>3, <1>4, <1>5, <1>6, <1>7, <1>8, <1>9, <1>10, <1>11, <1>12, <1>13, Zenon

\* The latest checkpoint is one, covered by recently indexed files.
LEMMA LatestType ==
  ASSUME NEW m, MetaInv(m)
  PROVE  /\ latest_checkpoint(m) \in TableMetadataCheckpoint
         /\ latest_checkpoint(m).covered \subseteq m.recent
         /\ Count(m) \in Nat
         /\ Count(m) # 0 => latest_checkpoint(m) = m.checkpoints[Count(m)]
<1>1. m.checkpoints \in Seq(TableMetadataCheckpoint) /\ m.recent \in SUBSET Files
  BY Zenon DEF MetaInv, Metadata
<1>2. EmptyCheckpoint \in TableMetadataCheckpoint /\ EmptyCheckpoint.covered = {}
  BY Zenon DEF EmptyCheckpoint, TableMetadataCheckpoint
<1>3. CASE m.checkpoints = <<>>
  BY <1>1, <1>2, <1>3, Zenon DEF latest_checkpoint, Count
<1>4. CASE m.checkpoints # <<>>
  <2>1. Count(m) \in 1 .. Count(m) /\ Count(m) \in Nat
    BY <1>1, <1>4 DEF Count
  <2>2. latest_checkpoint(m) = m.checkpoints[Count(m)]
    BY <1>4, Zenon DEF latest_checkpoint, Count
  <2> QED
    BY <1>1, <2>1, <2>2 DEF MetaInv, CoverageIsRecent, Count
<1> QED
  BY <1>3, <1>4, Zenon

----------------------------------------------------------------------------
(* Commits. *)

\* InsertCheckpoint appends the checkpoint with the coverage that is known.
LEMMA InsertFacts ==
  ASSUME NEW m, MetaInv(m), NEW c \in TableMetadataCheckpoint, c.covered \subseteq m.recent
  PROVE  /\ Grows(m, InsertCheckpoint(m, c))
         /\ SameQueues(m, InsertCheckpoint(m, c))
         /\ Count(InsertCheckpoint(m, c)) = Count(m) + 1
         /\ SameFiles(latest_checkpoint(InsertCheckpoint(m, c)), c)
         /\ Uncovered(latest_checkpoint(InsertCheckpoint(m, c)))
              = current_file_paths(c) \ m.recent
<1> DEFINE d == try_fill_checkpoint_extension_metadata(m, c)
           cs == Append(m.checkpoints, d)
           r == InsertCheckpoint(m, c)
<1>1. /\ m \in Metadata /\ m.checkpoints \in Seq(TableMetadataCheckpoint)
      /\ m.recent \in SUBSET Files /\ Count(m) \in Nat
  BY DEF MetaInv, Metadata, Count
<1>2. /\ d \in TableMetadataCheckpoint
      /\ SameFiles(d, c) /\ d.covered = current_file_paths(c) \cap (c.covered \cup m.recent)
  <2>1. current_file_paths(c) \cap (c.covered \cup m.recent) \in SUBSET Files
    BY <1>1, Zenon DEF TableMetadataCheckpoint
  <2> QED
    BY <2>1, Zenon DEF try_fill_checkpoint_extension_metadata, TableMetadataCheckpoint, SameFiles
<1>3. d.covered \subseteq m.recent /\ Uncovered(d) = current_file_paths(c) \ m.recent
  BY <1>2, Zenon DEF SameFiles, Uncovered, current_file_paths
<1> HIDE DEF d
<1>4. /\ cs \in Seq(TableMetadataCheckpoint) /\ Len(cs) = Count(m) + 1
      /\ cs[Count(m) + 1] = d /\ cs # <<>>
      /\ \A id \in 1 .. Count(m) : cs[id] = m.checkpoints[id]
  BY <1>1, <1>2 DEF Count
<1>5. r = [m EXCEPT !.checkpoints = cs]
  BY Zenon DEF InsertCheckpoint, d
<1> HIDE DEF cs
<1>6. r \in Metadata
  <2>1. [m EXCEPT !.checkpoints = cs] \in Metadata
    BY <1>1, <1>4, MetadataUpdate, Zenon
  <2> QED
    BY <1>5, <2>1, Zenon
<1>7. /\ r.checkpoints = cs /\ r.waiting = m.waiting /\ r.work = m.work
      /\ r.recent = m.recent /\ r.searchable = m.searchable /\ SameQueues(m, r)
  BY <1>1, <1>5, Zenon DEF Metadata, SameQueues
<1> HIDE DEF r
<1>8. Count(r) = Count(m) + 1 /\ latest_checkpoint(r) = d
  BY <1>4, <1>7, Zenon DEF Count, latest_checkpoint
<1>9. CoverageIsRecent(r)
  <2> SUFFICES ASSUME NEW id \in 1 .. Count(m) + 1
               PROVE  cs[id].covered \subseteq m.recent
    BY <1>7, <1>8, Zenon DEF CoverageIsRecent
  <2>1. CASE id = Count(m) + 1
    BY <1>3, <1>4, <2>1, Zenon
  <2>2. CASE id \in 1 .. Count(m)
    BY <1>4, <2>2, Zenon DEF MetaInv, CoverageIsRecent
  <2> QED
    BY <1>1, <2>1, <2>2
<1>10. m.waiting \subseteq 1 .. Count(m) /\ 1 .. Count(m) \subseteq 1 .. Count(r)
  BY <1>1, <1>8 DEF MetaInv, WorkIsExact
<1>11. WorkIsExact(r)
  BY <1>4, <1>7, <1>10 DEF MetaInv, WorkIsExact
<1>12. FrontierIsCovered(r)
  <2>1. m.searchable \in Nat
    BY <1>1, Zenon DEF Metadata
  <2>2. /\ m.searchable <= Count(r)
        /\ m.searchable # 0 => m.searchable \in 1 .. Count(m)
    BY <1>1, <1>8, <2>1 DEF MetaInv, FrontierIsCovered
  <2>3. m.searchable # 0 => cs[m.searchable] = m.checkpoints[m.searchable]
    BY <1>4, <2>2, Zenon
  <2> QED
    BY <1>7, <2>2, <2>3, Zenon DEF MetaInv, FrontierIsCovered
<1>13. Grows(m, r)
  BY <1>1, <1>4, <1>6, <1>7, <1>8, <1>9, <1>11, <1>12 DEF Grows, MetaInv
<1> QED
  BY <1>2, <1>3, <1>7, <1>8, <1>13, Zenon DEF r

\* fill_extension_work_item makes the newest checkpoint wait for what it lacks.
LEMMA FillFacts ==
  ASSUME NEW m, MetaInv(m), Count(m) # 0,
         Uncovered(latest_checkpoint(m)) = current_file_paths(latest_checkpoint(m)) \ m.recent
  PROVE  /\ Grows(m, fill_extension_work_item(m))
         /\ SameQueues(m, fill_extension_work_item(m))
         /\ fill_extension_work_item(m).checkpoints = m.checkpoints
<1> DEFINE files == current_file_paths(latest_checkpoint(m)) \ m.recent
           r == fill_extension_work_item(m)
<1>1. /\ m \in Metadata /\ Count(m) \in Nat /\ m.searchable \in Nat
      /\ m.work \in SUBSET Files /\ m.waiting \in SUBSET Nat
  BY DEF MetaInv, Metadata, Count
<1>2. /\ latest_checkpoint(m) = m.checkpoints[Count(m)]
      /\ files \in SUBSET Files /\ files = Uncovered(m.checkpoints[Count(m)])
  BY LatestType, Zenon DEF TableMetadataCheckpoint, current_file_paths
<1>3. CASE files = {}
  <2>1. r = m
    BY <1>3, Zenon DEF fill_extension_work_item
  <2> QED
    BY <1>1, <2>1 DEF Grows, SameQueues
<1>4. CASE files # {}
  <2> DEFINE m1 == [m EXCEPT !.work = m.work \cup files]
             m2 == [m1 EXCEPT !.workCheckpoint = Count(m)]
             m3 == [m2 EXCEPT !.waiting = m.waiting \cup {Count(m)}]
  <2>1. r = [m EXCEPT !.work = m.work \cup files, !.workCheckpoint = Count(m),
                      !.waiting = m.waiting \cup {Count(m)}]
    BY <1>4, Zenon DEF fill_extension_work_item, Count
  <2>2. r = m3
    BY <2>1, Zenon
  <2> HIDE DEF files
  <2>3. m1 \in Metadata
    BY <1>1, <1>2, MetadataUpdate, Zenon
  <2>4. m2 \in Metadata
    BY <1>1, <2>3, MetadataUpdate, Zenon
  <2>5. m3 \in Metadata
    BY <1>1, <2>4, MetadataUpdate, Zenon
  <2>6. /\ r.checkpoints = m.checkpoints /\ r.recent = m.recent
        /\ r.searchable = m.searchable /\ SameQueues(m, r)
        /\ r.work = m.work \cup files /\ r.waiting = m.waiting \cup {Count(m)}
    BY <1>1, <2>1, ZenonT(30) DEF Metadata, SameQueues
  <2>7. r \in Metadata /\ Count(r) = Count(m) /\ Count(m) \in 1 .. Count(m)
    BY <1>1, <2>2, <2>5, <2>6 DEF Count
  <2> HIDE DEF r, m1, m2, m3
  <2>8. CoverageIsRecent(r) /\ FrontierIsCovered(r)
    BY <2>6, <2>7, Zenon DEF MetaInv, CoverageIsRecent, FrontierIsCovered
  <2>9. WorkIsExact(r)
    BY <1>2, <1>4, <2>6, <2>7 DEF MetaInv, WorkIsExact
  <2>10. r.work \cap m.recent \subseteq m.work
    BY <2>6, Zenon DEF files
  <2> QED
    BY <1>1, <2>6, <2>7, <2>8, <2>9, <2>10 DEF Grows, MetaInv, r
<1> QED
  BY <1>3, <1>4, Zenon

\* One commit after another is a commit.
LEMMA GrowsTransitive ==
  ASSUME NEW l, NEW m, NEW r, Count(l) \in Nat, Count(m) \in Nat, Count(r) \in Nat,
         Grows(l, m), Grows(m, r)
  PROVE  Grows(l, r)
<1>1. \A id \in 1 .. Count(l) : id \in 1 .. Count(m)
  BY DEF Grows
<1>2. r.work \cap l.recent \subseteq l.work
  BY Zenon DEF Grows
<1> QED
  BY <1>1, <1>2 DEF Grows

\* The fields the invariant is about decide it.
LEMMA SameIndexing ==
  ASSUME NEW m, MetaInv(m), NEW r \in Metadata, r.checkpoints = m.checkpoints,
         r.waiting = m.waiting, r.work = m.work, r.recent = m.recent,
         r.searchable = m.searchable
  PROVE  Grows(m, r) /\ latest_checkpoint(r) = latest_checkpoint(m)
<1>1. Count(r) = Count(m) /\ Count(m) \in Nat
  BY LatestType, Zenon DEF Count
<1>2. MetaInv(r)
  BY <1>1, ZenonT(30) DEF MetaInv, CoverageIsRecent, WorkIsExact, FrontierIsCovered
<1> QED
  BY <1>1, <1>2 DEF Grows, latest_checkpoint

\* The work item maybe_create_compaction_work_item makes of a checkpoint.
NewItem(m, c) == [id |-> Count(m), speedboat |-> c.speedboat, deletes |-> c.deletes]

\* maybe_create_compaction_work_item changes nothing but the work item.
LEMMA MaybeCreateFacts ==
  ASSUME NEW m, MetaInv(m)
  PROVE  /\ Grows(m, maybe_create_compaction_work_item(m))
         /\ latest_checkpoint(maybe_create_compaction_work_item(m)) = latest_checkpoint(m)
         /\ maybe_create_compaction_work_item(m).checkpoints = m.checkpoints
         /\ maybe_create_compaction_work_item(m).notes = m.notes
         /\ maybe_create_compaction_work_item(m).cleanup = m.cleanup
         /\ maybe_create_compaction_work_item(m).panicked = m.panicked
         /\ \/ maybe_create_compaction_work_item(m).compaction = m.compaction
            \/ /\ m.compaction = NoCompaction
               /\ maybe_create_compaction_work_item(m).compaction = NewItem(m, latest_checkpoint(m))
<1> DEFINE r == maybe_create_compaction_work_item(m)
           item == NewItem(m, latest_checkpoint(m))
           m1 == [m EXCEPT !.compaction = item]
           m2 == [m1 EXCEPT !.compactionLeased = FALSE]
<1>1. m \in Metadata /\ item \in CompactionWorkItem
  BY LatestType, Zenon DEF MetaInv, NewItem, TableMetadataCheckpoint, CompactionWorkItem
<1>2. CASE r = m
  BY <1>1, <1>2, SameIndexing, Zenon
<1>3. CASE /\ m.compaction = NoCompaction
           /\ r = [m EXCEPT !.compaction = item, !.compactionLeased = FALSE]
  <2> HIDE DEF item
  <2>1. r = m2
    BY <1>3, Zenon
  <2>2. m1 \in Metadata
    BY <1>1, MetadataUpdate, Zenon
  <2>3. m2 \in Metadata
    BY <2>2, MetadataUpdate, Zenon
  <2>4. /\ r.checkpoints = m.checkpoints /\ r.waiting = m.waiting /\ r.work = m.work
        /\ r.recent = m.recent /\ r.searchable = m.searchable
        /\ r.compaction = item /\ r.notes = m.notes /\ r.cleanup = m.cleanup
        /\ r.panicked = m.panicked
    BY <1>1, <1>3, ZenonT(30) DEF Metadata
  <2>5. r \in Metadata
    BY <2>1, <2>3, Zenon
  <2> HIDE DEF r
  <2> QED
    BY <1>3, <2>4, <2>5, SameIndexing, Zenon DEF item, r
<1> QED
  BY <1>2, <1>3, Zenon DEF maybe_create_compaction_work_item, NewItem, Count

\* An insert's commit: one checkpoint, whose new file is the only difference,
\* and perhaps a compaction work item made of it.
LEMMA SpeedboatCommitFacts ==
  ASSUME NEW m, MetaInv(m), NEW file \in Files
  PROVE  LET c == latest_checkpoint(m)
             r == speedboat_commit_type_commit(m, file)
             d == latest_checkpoint(r)
         IN /\ Grows(m, r)
            /\ Count(r) = Count(m) + 1
            /\ d.iceberg = c.iceberg /\ d.deletes = c.deletes
            /\ d.speedboat = c.speedboat \cup {file}
            /\ r.notes = m.notes /\ r.cleanup = m.cleanup /\ r.panicked = m.panicked
            /\ \/ r.compaction = m.compaction
               \/ /\ m.compaction = NoCompaction
                  /\ r.compaction = [id |-> Count(m) + 1, speedboat |-> d.speedboat,
                                     deletes |-> d.deletes]
<1> DEFINE c == latest_checkpoint(m)
           d == [c EXCEPT !.speedboat = c.speedboat \cup {file}]
           i == InsertCheckpoint(m, d)
           f == fill_extension_work_item(i)
           r == maybe_create_compaction_work_item(f)
<1>1. /\ d \in TableMetadataCheckpoint /\ d.covered \subseteq m.recent
      /\ d.iceberg = c.iceberg /\ d.speedboat = c.speedboat \cup {file}
      /\ d.deletes = c.deletes
  BY LatestType, Zenon DEF TableMetadataCheckpoint
<1>2. r = speedboat_commit_type_commit(m, file)
  BY Zenon DEF speedboat_commit_type_commit
<1> HIDE DEF d
<1>3. /\ Grows(m, i) /\ SameQueues(m, i) /\ Count(i) = Count(m) + 1
      /\ SameFiles(latest_checkpoint(i), d)
      /\ Uncovered(latest_checkpoint(i)) = current_file_paths(d) \ m.recent
  BY <1>1, InsertFacts, Zenon
<1> HIDE DEF i
<1>4. /\ Count(m) \in Nat /\ Count(i) # 0 /\ MetaInv(i) /\ i.recent = m.recent
      /\ current_file_paths(latest_checkpoint(i)) = current_file_paths(d)
  BY <1>3, LatestType DEF Grows, SameFiles, current_file_paths
<1>5. Grows(i, f) /\ SameQueues(i, f) /\ f.checkpoints = i.checkpoints
  BY <1>3, <1>4, FillFacts, Zenon
<1> HIDE DEF f
<1>6. /\ MetaInv(f) /\ Count(f) = Count(i)
      /\ latest_checkpoint(f) = latest_checkpoint(i)
  BY <1>5, Zenon DEF Grows, Count, latest_checkpoint
<1>7. /\ Grows(f, r) /\ latest_checkpoint(r) = latest_checkpoint(f)
      /\ r.checkpoints = f.checkpoints
      /\ r.notes = f.notes /\ r.cleanup = f.cleanup /\ r.panicked = f.panicked
      /\ \/ r.compaction = f.compaction
         \/ f.compaction = NoCompaction /\ r.compaction = NewItem(f, latest_checkpoint(f))
  BY <1>6, MaybeCreateFacts, Zenon
<1> HIDE DEF r
<1>8. Count(r) = Count(f) /\ Count(r) \in Nat /\ Count(i) \in Nat /\ Count(f) \in Nat
  BY <1>3, <1>4, <1>6, <1>7 DEF Count
<1>9. Grows(m, f)
  BY <1>3, <1>4, <1>5, <1>8, GrowsTransitive, Zenon
<1>10. Grows(m, r)
  BY <1>4, <1>7, <1>8, <1>9, GrowsTransitive, ZenonT(30)
<1> QED
  BY <1>1, <1>2, <1>3, <1>5, <1>6, <1>7, <1>8, <1>10
     DEF SameQueues, SameFiles, NewItem

\* A delete's commit: one checkpoint with one more delete file.
LEMMA DeleteCommitFacts ==
  ASSUME NEW m, MetaInv(m), NEW file \in Files
  PROVE  LET c == latest_checkpoint(m)
             r == speedboat_commit_type_delete(m, file)
             d == latest_checkpoint(r)
         IN /\ Grows(m, r) /\ SameQueues(m, r)
            /\ Count(r) = Count(m) + 1
            /\ d.iceberg = c.iceberg /\ d.speedboat = c.speedboat
            /\ d.deletes = c.deletes \cup {file}
<1> DEFINE c == latest_checkpoint(m)
           d == [c EXCEPT !.deletes = c.deletes \cup {file}]
<1>1. /\ d \in TableMetadataCheckpoint /\ d.covered \subseteq m.recent
      /\ d.iceberg = c.iceberg /\ d.speedboat = c.speedboat
      /\ d.deletes = c.deletes \cup {file}
  BY LatestType, Zenon DEF TableMetadataCheckpoint
<1>2. speedboat_commit_type_delete(m, file) = InsertCheckpoint(m, d)
  BY Zenon DEF speedboat_commit_type_delete
<1> HIDE DEF d
<1> QED
  BY <1>1, <1>2, InsertFacts DEF SameFiles

Ids(compactions) == {compactions[i] : i \in 1 .. Len(compactions)}

\* An Iceberg commit that does not panic: one checkpoint with these Iceberg
\* files and without the files of the compactions, which go to cleanup.
IcebergCommitted(m, r, files, ids) ==
  LET c == latest_checkpoint(m)
      d == latest_checkpoint(r)
  IN /\ Count(r) = Count(m) + 1
     /\ d.iceberg = files
     /\ d.speedboat = c.speedboat \ UNION {note.speedboat : note \in Noted(m, ids)}
     /\ d.deletes = c.deletes \ UNION {note.deletes : note \in Noted(m, ids)}
     /\ r.notes = m.notes /\ r.panicked = m.panicked
     /\ ids = {} => r.compaction = m.compaction /\ r.cleanup = m.cleanup
     /\ ids # {} => /\ r.compaction = NoCompaction
                    /\ r.cleanup = m.cleanup \cup Noted(m, ids)

\* iceberg_commit panics or commits.
LEMMA IcebergCommitFacts ==
  ASSUME NEW m, MetaInv(m), NEW files \in SUBSET Files, NEW compactions
  PROVE  LET r == iceberg_commit(m, files, compactions)
         IN /\ Grows(m, r)
            /\ \/ /\ ~CompactionsMatchWorkItem(m, compactions)
                  /\ r.panicked = "iceberg_commit" /\ r.checkpoints = m.checkpoints
                  /\ r.notes = m.notes /\ r.compaction = m.compaction /\ r.cleanup = m.cleanup
               \/ /\ CompactionsMatchWorkItem(m, compactions)
                  /\ IcebergCommitted(m, r, files, Ids(compactions))
<1> DEFINE ids == Ids(compactions)
           c == latest_checkpoint(m)
           b == [c EXCEPT !.iceberg = files]
           d == handle_compactions(m, b, ids)
           i == InsertCheckpoint(m, d)
           f == fill_extension_work_item(i)
           r == iceberg_commit(m, files, compactions)
<1>1. /\ m \in Metadata /\ Count(m) \in Nat
      /\ m.notes \in SUBSET CompactionWorkItem /\ m.cleanup \in SUBSET CompactionWorkItem
  BY LatestType, ZenonT(30) DEF MetaInv, Metadata
<1>2. CASE ~CompactionsMatchWorkItem(m, compactions)
  <2>1. r = [m EXCEPT !.panicked = "iceberg_commit"]
    BY <1>2, ZenonT(30) DEF iceberg_commit
  <2>2. r \in Metadata
    BY <1>1, <2>1, MetadataUpdate, Zenon
  <2>3. /\ r.checkpoints = m.checkpoints /\ r.waiting = m.waiting /\ r.work = m.work
        /\ r.recent = m.recent /\ r.searchable = m.searchable
        /\ r.compaction = m.compaction /\ r.notes = m.notes /\ r.cleanup = m.cleanup
        /\ r.panicked = "iceberg_commit"
    BY <1>1, <2>1, ZenonT(30) DEF Metadata
  <2> HIDE DEF r
  <2> QED
    BY <1>2, <2>2, <2>3, SameIndexing, ZenonT(30) DEF r
<1>3. CASE CompactionsMatchWorkItem(m, compactions)
  <2>1. /\ b \in TableMetadataCheckpoint /\ b.covered = c.covered /\ b.iceberg = files
        /\ b.speedboat = c.speedboat /\ b.deletes = c.deletes
    BY LatestType, Zenon DEF TableMetadataCheckpoint
  <2> HIDE DEF b
  <2>2. /\ d \in TableMetadataCheckpoint /\ d.covered = c.covered /\ d.iceberg = files
        /\ d.speedboat = c.speedboat \ UNION {note.speedboat : note \in Noted(m, ids)}
        /\ d.deletes = c.deletes \ UNION {note.deletes : note \in Noted(m, ids)}
    <3> DEFINE S == b.speedboat \ UNION {note.speedboat : note \in Noted(m, ids)}
               D == b.deletes \ UNION {note.deletes : note \in Noted(m, ids)}
    <3>1. S \in SUBSET Files /\ D \in SUBSET Files
      BY <2>1, Zenon DEF TableMetadataCheckpoint
    <3>2. d = [b EXCEPT !.speedboat = S, !.deletes = D]
      BY Zenon DEF handle_compactions
    <3> HIDE DEF S, D
    <3>3. d = [[b EXCEPT !.speedboat = S] EXCEPT !.deletes = D]
      BY <3>2, Zenon
    <3>4. d \in TableMetadataCheckpoint
      BY <2>1, <3>1, <3>3, Zenon DEF TableMetadataCheckpoint
    <3>5. /\ d.covered = b.covered /\ d.iceberg = b.iceberg /\ d.speedboat = S
          /\ d.deletes = D
      BY <2>1, <3>2, ZenonT(30) DEF TableMetadataCheckpoint
    <3> QED
      BY <2>1, <3>4, <3>5, ZenonT(30) DEF S, D
  <2>3. c.covered \subseteq m.recent
    BY LatestType, Zenon
  <2> HIDE DEF d
  <2>4. /\ Grows(m, i) /\ SameQueues(m, i) /\ Count(i) = Count(m) + 1
        /\ SameFiles(latest_checkpoint(i), d)
        /\ Uncovered(latest_checkpoint(i)) = current_file_paths(d) \ m.recent
    BY <2>2, <2>3, InsertFacts, ZenonT(30)
  <2> HIDE DEF i
  <2>5. /\ Count(i) # 0 /\ Count(i) \in Nat /\ MetaInv(i) /\ i.recent = m.recent
        /\ current_file_paths(latest_checkpoint(i)) = current_file_paths(d)
    BY <1>1, <2>4 DEF Grows, SameFiles, current_file_paths
  <2>6. Grows(i, f) /\ SameQueues(i, f) /\ f.checkpoints = i.checkpoints
    BY <2>4, <2>5, FillFacts, Zenon
  <2> HIDE DEF f
  <2>7. /\ Count(f) = Count(m) + 1 /\ Count(f) \in Nat /\ f \in Metadata
        /\ SameFiles(latest_checkpoint(f), d)
    BY <1>1, <2>4, <2>6 DEF Grows, MetaInv, Count, latest_checkpoint
  <2>8. Grows(m, f) /\ SameQueues(m, f)
    BY <1>1, <2>4, <2>5, <2>6, <2>7, GrowsTransitive, Zenon DEF SameQueues
  <2>9. CASE ids = {}
    <3>1. r = f
      BY <1>3, <2>9, ZenonT(30) DEF iceberg_commit, f, i, d, b, Ids
    <3> QED
      BY <1>3, <2>2, <2>7, <2>8, <2>9, <3>1, ZenonT(30) DEF SameQueues, SameFiles, IcebergCommitted
  <2>10. CASE ids # {}
    <3> DEFINE C == m.cleanup \cup Noted(m, ids)
               f1 == [f EXCEPT !.compaction = NoCompaction]
               f2 == [f1 EXCEPT !.compactionLeased = FALSE]
               f3 == [f2 EXCEPT !.cleanup = C]
    <3>1. r = [f EXCEPT !.compaction = NoCompaction, !.compactionLeased = FALSE,
                        !.cleanup = C]
      BY <1>3, <2>10, ZenonT(30) DEF iceberg_commit, f, i, d, b, Ids
    <3>2. C \in SUBSET CompactionWorkItem
      BY <1>1, ZenonT(30) DEF Noted
    <3> HIDE DEF C
    <3>3. r = f3
      BY <3>1, Zenon
    <3>4. NoCompaction \in CompactionWorkItem
      BY ZenonT(30) DEF NoCompaction, CompactionWorkItem
    <3>5. f1 \in Metadata
      BY <2>7, <3>4, MetadataUpdate, Zenon
    <3>6. f2 \in Metadata
      BY <3>5, MetadataUpdate, Zenon
    <3>7. f3 \in Metadata
      BY <3>2, <3>6, MetadataUpdate, Zenon
    <3>8. /\ r.checkpoints = f.checkpoints /\ r.waiting = f.waiting /\ r.work = f.work
          /\ r.recent = f.recent /\ r.searchable = f.searchable /\ r.panicked = f.panicked
          /\ r.compaction = NoCompaction /\ r.notes = f.notes /\ r.cleanup = C
      BY <2>7, <3>1 DEF Metadata
    <3>9. r \in Metadata
      BY <3>3, <3>7, Zenon
    <3> HIDE DEF r
    <3>10. Grows(f, r) /\ latest_checkpoint(r) = latest_checkpoint(f) /\ Count(r) = Count(f)
      BY <2>8, <3>8, <3>9, SameIndexing, ZenonT(30) DEF Grows, Count
    <3>11. Grows(m, r)
      BY <1>1, <2>7, <2>8, <3>10, GrowsTransitive, ZenonT(30)
    <3>12. IcebergCommitted(m, r, files, ids)
      BY <2>2, <2>7, <2>8, <2>10, <3>8, <3>10
         DEF SameQueues, SameFiles, IcebergCommitted, C
    <3> QED
      BY <1>3, <3>11, <3>12, ZenonT(30) DEF r
  <2> QED
    BY <2>9, <2>10, Zenon
<1> QED
  BY <1>2, <1>3, ZenonT(30)

----------------------------------------------------------------------------
(* Extension commits. *)

\* A set of checkpoint ids has a latest one.
LEMMA LatestFacts ==
  ASSUME NEW n \in Nat, NEW S \in SUBSET (1 .. n), S # {}
  PROVE  Latest(S) \in S /\ \A id \in S : id <= Latest(S)
<1> DEFINE T == {n - id : id \in S}
           R == OpToRel(<, Nat)
<1>0. \A id \in S : id \in Nat /\ n - id \in Nat
  OBVIOUS
<1>1. T \subseteq Nat /\ T # {}
  BY <1>0, Zenon
<1>2. IsWellFoundedOn(R, Nat)
  BY NatLessThanWellFounded, Zenon
<1>3. \A x, y \in Nat : <<y, x>> \notin R => x <= y
  BY DEF OpToRel
<1> HIDE DEF R
<1>4. \E x \in T : \A y \in T : ~(<<y, x>> \in R)
  <2> HIDE DEF T
  <2> QED
    BY <1>1, <1>2, WFMin, Zenon
<1>5. PICK top \in S : \A id \in S : ~(<<n - id, n - top>> \in R)
  BY <1>4, Zenon
<1>6. \A id \in S : id <= top
  <2> SUFFICES ASSUME NEW id \in S
               PROVE  id <= top
    OBVIOUS
  <2>1. n - top <= n - id
    BY <1>0, <1>3, <1>5, Zenon
  <2> QED
    BY <1>0, <2>1
<1> QED
  BY <1>6, Zenon DEF Latest

\* What an extension commit that does not panic does.
ExtensionCommitted(m, r, files) ==
  /\ MetaInv(r) /\ SameQueues(m, r)
  /\ Count(r) = Count(m)
  /\ \A id \in 1 .. Count(m) : /\ SameFiles(r.checkpoints[id], m.checkpoints[id])
                               /\ m.checkpoints[id].covered \subseteq r.checkpoints[id].covered
  /\ \A id \in m.waiting : Uncovered(r.checkpoints[id]) = Uncovered(m.checkpoints[id]) \ files
  /\ r.waiting = m.waiting \ Completed(m, files)
  /\ r.work = m.work \ files
  /\ r.recent = m.recent \cup files
  /\ m.searchable <= r.searchable
  /\ SameFiles(latest_checkpoint(r), latest_checkpoint(m))

\* extension_commit panics when it completes no checkpoint, else it commits.
LEMMA ExtensionCommitFacts ==
  ASSUME NEW m, MetaInv(m), NEW files \in SUBSET Files
  PROVE  LET r == extension_commit(m, files)
         IN \/ /\ Completed(m, files) = {}
               /\ r = [m EXCEPT !.panicked = "extension_commit"]
               /\ Grows(m, r) /\ r.checkpoints = m.checkpoints
               /\ r.notes = m.notes /\ r.compaction = m.compaction
               /\ r.cleanup = m.cleanup /\ r.work = m.work /\ r.waiting = m.waiting
            \/ ExtensionCommitted(m, r, files)
<1> DEFINE done == Completed(m, files)
           cs == [id \in 1 .. Count(m) |->
                    IF id \in m.waiting THEN add_coverage(m.checkpoints[id], files)
                                        ELSE m.checkpoints[id]]
           r == extension_commit(m, files)
<1>1. /\ m \in Metadata /\ Count(m) \in Nat /\ m.searchable \in Nat
      /\ m.checkpoints \in Seq(TableMetadataCheckpoint)
      /\ m.waiting \in SUBSET (1 .. Count(m)) /\ m.waiting \in SUBSET Nat /\ m.recent \in SUBSET Files
      /\ m.work \in SUBSET Files
  BY LatestType, Zenon DEF MetaInv, Metadata, WorkIsExact
<1>2. CASE done = {}
  <2>1. r = [m EXCEPT !.panicked = "extension_commit"]
    BY <1>2, Zenon DEF extension_commit
  <2>2. r \in Metadata
    BY <1>1, <2>1, MetadataUpdate, Zenon
  <2>3. /\ r.checkpoints = m.checkpoints /\ r.waiting = m.waiting /\ r.work = m.work
        /\ r.recent = m.recent /\ r.searchable = m.searchable
        /\ r.compaction = m.compaction /\ r.notes = m.notes /\ r.cleanup = m.cleanup
    BY <1>1, <2>1, ZenonT(30) DEF Metadata
  <2>4. Grows(m, r)
    <3> HIDE DEF r
    <3> QED
      BY <2>2, <2>3, SameIndexing, Zenon
  <2> QED
    BY <1>2, <2>1, <2>3, <2>4, Zenon
<1>3. CASE done # {}
  <2>1. done \in SUBSET (1 .. Count(m)) /\ done \subseteq m.waiting
    BY <1>1, Zenon DEF Completed
  <2>2. Latest(done) \in done /\ Latest(done) \in Nat
    <3> HIDE DEF done
    <3>1. Latest(done) \in done
      BY <1>1, <1>3, <2>1, LatestFacts, Zenon
    <3>2. \A id \in 1 .. Count(m) : id \in Nat
      BY <1>1
    <3> QED
      BY <2>1, <3>1, <3>2, Zenon
  <2> DEFINE top == SearchFrontier(m, done)
  <2>3. /\ top \in Nat /\ m.searchable <= top
        /\ top = m.searchable \/ top \in done
    BY <1>1, <2>2 DEF SearchFrontier
  <2>4. ASSUME NEW c \in TableMetadataCheckpoint
        PROVE  /\ add_coverage(c, files) \in TableMetadataCheckpoint
               /\ SameFiles(add_coverage(c, files), c)
               /\ c.covered \subseteq add_coverage(c, files).covered
               /\ add_coverage(c, files).covered \subseteq c.covered \cup files
               /\ Uncovered(add_coverage(c, files)) = Uncovered(c) \ files
    <3>1. c.covered \cup (current_file_paths(c) \cap files) \in SUBSET Files
      BY Zenon DEF TableMetadataCheckpoint, current_file_paths
    <3>2. /\ add_coverage(c, files) \in TableMetadataCheckpoint
          /\ SameFiles(add_coverage(c, files), c)
          /\ add_coverage(c, files).covered = c.covered \cup (current_file_paths(c) \cap files)
      BY <3>1, Zenon DEF TableMetadataCheckpoint, add_coverage, SameFiles
    <3> QED
      BY <3>2, Zenon DEF SameFiles, Uncovered, current_file_paths
  <2>5. \A id \in 1 .. Count(m) : m.checkpoints[id] \in TableMetadataCheckpoint
    BY <1>1 DEF Count
  <2>6. /\ cs \in Seq(TableMetadataCheckpoint) /\ Len(cs) = Count(m)
        /\ \A id \in 1 .. Count(m) : cs[id] = IF id \in m.waiting
                                              THEN add_coverage(m.checkpoints[id], files)
                                              ELSE m.checkpoints[id]
    <3>1. cs \in [1 .. Count(m) -> TableMetadataCheckpoint]
      BY <2>4, <2>5, Zenon
    <3>2. \A f \in [1 .. Count(m) -> TableMetadataCheckpoint] :
            f \in Seq(TableMetadataCheckpoint) /\ Len(f) = Count(m)
      BY <1>1
    <3> QED
      BY <3>1, <3>2, ZenonT(30)
  <2> HIDE DEF cs
  <2>7. \A id \in 1 .. Count(m) :
          /\ SameFiles(cs[id], m.checkpoints[id])
          /\ m.checkpoints[id].covered \subseteq cs[id].covered
          /\ cs[id].covered \subseteq m.recent \cup files
    BY <2>4, <2>5, <2>6 DEF MetaInv, CoverageIsRecent, SameFiles
  <2>8. \A id \in m.waiting : Uncovered(cs[id]) = Uncovered(m.checkpoints[id]) \ files
    BY <1>1, <2>4, <2>5, <2>6, Zenon
  <2>9. \A id \in done : Uncovered(cs[id]) = {}
    BY <2>1, <2>8, Zenon DEF Completed
  <2> HIDE DEF done, top
  <2> DEFINE m1 == [m EXCEPT !.checkpoints = cs]
             m2 == [m1 EXCEPT !.waiting = m.waiting \ done]
             m3 == [m2 EXCEPT !.recent = m.recent \cup files]
             m4 == [m3 EXCEPT !.searchable = top]
             n1 == [m4 EXCEPT !.work = m4.work \ files]
             n2 == [n1 EXCEPT !.workLeased = FALSE]
  <2>10. r = [m4 EXCEPT !.work = m4.work \ files, !.workLeased = FALSE]
    <3>1. m4 = [m EXCEPT !.checkpoints = cs, !.waiting = m.waiting \ done,
                         !.recent = m.recent \cup files, !.searchable = top]
      BY Zenon
    <3>2. r = apply_extension_commit_to_work_item(
                [m EXCEPT !.checkpoints = cs, !.waiting = m.waiting \ done,
                          !.recent = m.recent \cup files, !.searchable = top], files)
      BY <1>3, Zenon DEF extension_commit, cs, done, top, Count
    <3> HIDE DEF m4, r
    <3>3. r = apply_extension_commit_to_work_item(m4, files)
      BY <3>1, <3>2, Zenon
    <3> QED
      BY <3>3, Zenon DEF apply_extension_commit_to_work_item
  <2>11. m1 \in Metadata
    BY <1>1, <2>6, MetadataUpdate, Zenon
  <2>12. m2 \in Metadata
    BY <1>1, <2>11, MetadataUpdate, Zenon
  <2>13. m3 \in Metadata
    BY <1>1, <2>12, MetadataUpdate, Zenon
  <2>14. m4 \in Metadata
    BY <2>3, <2>13, MetadataUpdate, Zenon
  <2>15. /\ m4.checkpoints = cs /\ m4.waiting = m.waiting \ done
         /\ m4.recent = m.recent \cup files /\ m4.searchable = top
         /\ m4.work = m.work /\ SameQueues(m, m4)
    BY <1>1, Zenon DEF Metadata, SameQueues
  <2> HIDE DEF m4
  <2>16. r \in Metadata
    <3>1. n1 \in Metadata
      BY <1>1, <2>14, <2>15, MetadataUpdate, Zenon
    <3>2. n2 \in Metadata
      BY <3>1, MetadataUpdate, Zenon
    <3>3. r = n2
      BY <2>10, Zenon
    <3> QED
      BY <3>2, <3>3, Zenon
  <2>17. /\ r.checkpoints = cs /\ r.waiting = m.waiting \ done
         /\ r.recent = m.recent \cup files /\ r.searchable = top
         /\ r.work = m.work \ files /\ SameQueues(m, r)
    BY <2>10, <2>14, <2>15, ZenonT(30) DEF Metadata, SameQueues
  <2> HIDE DEF r
  <2>18. Count(r) = Count(m)
    BY <2>6, <2>17, Zenon DEF Count
  <2>19. CoverageIsRecent(r)
    BY <2>7, <2>17, <2>18, Zenon DEF CoverageIsRecent
  <2>20. WorkIsExact(r)
    <3>1. \A id \in m.waiting \ done : Uncovered(cs[id]) # {}
      BY <2>8, Zenon DEF Completed, done
    <3>2. m.work = UNION {Uncovered(m.checkpoints[id]) : id \in m.waiting}
      BY Zenon DEF MetaInv, WorkIsExact
    <3>3. m.work \ files = UNION {Uncovered(cs[id]) : id \in m.waiting \ done}
      BY <2>8, <2>9, <3>2
    <3> QED
      BY <1>1, <2>17, <2>18, <3>1, <3>3 DEF WorkIsExact
  <2>21. FrontierIsCovered(r)
    <3>1. CASE top \in done
      BY <1>1, <2>1, <2>9, <2>17, <2>18, <3>1 DEF FrontierIsCovered
    <3>2. CASE top = m.searchable
      <4>1. m.searchable # 0 => m.searchable \in 1 .. Count(m)
        BY <1>1 DEF MetaInv, FrontierIsCovered
      <4>2. m.searchable # 0 => Uncovered(cs[m.searchable]) = {}
        BY <2>7, <4>1 DEF MetaInv, FrontierIsCovered, Uncovered, SameFiles,
                          current_file_paths
      <4> QED
        BY <2>17, <2>18, <3>2, <4>2, Zenon DEF MetaInv, FrontierIsCovered
    <3> QED
      BY <2>3, <3>1, <3>2, Zenon
  <2>22. MetaInv(r)
    BY <2>16, <2>19, <2>20, <2>21, Zenon DEF MetaInv
  <2>23. SameFiles(latest_checkpoint(r), latest_checkpoint(m))
    <3>1. Count(m) # 0 /\ Count(m) \in 1 .. Count(m)
      <4>1. PICK id \in done : TRUE
        BY <1>3, Zenon
      <4>2. id \in 1 .. Count(m)
        BY <2>1, <4>1, Zenon
      <4> QED
        BY <1>1, <4>2
    <3>2. /\ latest_checkpoint(r) = cs[Count(m)]
          /\ latest_checkpoint(m) = m.checkpoints[Count(m)]
      BY <2>17, <2>18, <2>22, <3>1, LatestType, ZenonT(30)
    <3> QED
      BY <2>7, <3>1, <3>2, ZenonT(30)
  <2>24. ExtensionCommitted(m, r, files)
    BY <2>3, <2>7, <2>8, <2>17, <2>18, <2>22, <2>23, ZenonT(30) DEF ExtensionCommitted, done
  <2> QED
    BY <2>24, Zenon DEF r
<1> QED
  BY <1>2, <1>3, Zenon

----------------------------------------------------------------------------
(* The actions.  To the metadata every step is a commit (or nothing) or the *)
(* extension commit of an engine that built indexes.                        *)

MetaChanges ==
  \/ Grows(meta, meta')
  \/ \E w \in Engines : ExtensionCommitted(meta, meta', indexer[w].built)

\* A step that leaves the indexing alone.
LEMMA QuietStep ==
  ASSUME MetaInv(meta), meta' \in Metadata, meta'.checkpoints = meta.checkpoints,
         meta'.waiting = meta.waiting, meta'.work = meta.work,
         meta'.recent = meta.recent, meta'.searchable = meta.searchable
  PROVE  Grows(meta, meta')
BY SameIndexing, Zenon

\* A step that does not touch the metadata is no more than an empty commit.
LEMMA UnchangedGrows ==
  ASSUME MetaInv(meta), meta' = meta
  PROVE  Grows(meta, meta')
<1>1. meta \in Metadata
  BY Zenon DEF MetaInv
<1> QED
  BY <1>1, QuietStep, Zenon

\* Inserts, deletes and updates commit.
LEMMA IngestMeta ==
  ASSUME MetaInv(meta), rows \in Nat, live \in SUBSET Nat, Ingest
  PROVE  Grows(meta, meta')
<1>1. \A row \in Nat : SpeedboatFile(row) \in Files /\ DeleteFile(row) \in Files
  BY Zenon DEF SpeedboatFile, DeleteFile, Files
<1>2. SpeedboatFile(rows + 1) \in Files
  BY <1>1
<1>3. CASE Insert
  BY <1>2, <1>3, SpeedboatCommitFacts, Zenon DEF Insert
<1>4. ASSUME NEW row \in live, Delete(row)
      PROVE  Grows(meta, meta')
  BY <1>1, <1>4, DeleteCommitFacts, Zenon DEF Delete
<1>5. ASSUME NEW row \in live, Update(row)
      PROVE  Grows(meta, meta')
  <2> DEFINE m == speedboat_commit_type_commit(meta, SpeedboatFile(rows + 1))
  <2>1. Grows(meta, m)
    BY <1>2, SpeedboatCommitFacts, Zenon
  <2>2. meta' = speedboat_commit_type_delete(m, DeleteFile(row))
    BY <1>5, Zenon DEF Update
  <2> HIDE DEF m
  <2>3. MetaInv(m)
    BY <2>1, Zenon DEF Grows
  <2>4. Grows(m, meta')
    BY <1>1, <2>2, <2>3, DeleteCommitFacts, Zenon
  <2>5. Count(meta) \in Nat /\ Count(m) \in Nat /\ Count(meta') \in Nat
    BY <2>3, <2>4, LatestType, Zenon DEF Grows
  <2> QED
    BY <2>1, <2>4, <2>5, GrowsTransitive, Zenon
<1> QED
  BY <1>3, <1>4, <1>5, Zenon DEF Ingest

\* The index loop: a claim takes the lease, create_index commits.
LEMMA IndexMeta ==
  ASSUME MetaInv(meta), indexer \in [Engines -> Indexers], NEW w \in Engines, IndexStep(w)
  PROVE  MetaChanges
<1>1. meta \in Metadata /\ indexer[w].built \in SUBSET Files
  BY Zenon DEF MetaInv, Indexers
<1>2. CASE ClaimExtensionWork(w)
  <2>1. meta' = [meta EXCEPT !.workLeased = TRUE]
    BY <1>2, Zenon DEF ClaimExtensionWork, get_extension_work_items
  <2>2. meta' \in Metadata
    BY <1>1, <2>1, MetadataUpdate, Zenon
  <2>3. Grows(meta, meta')
    BY <1>1, <2>1, <2>2, QuietStep, Zenon DEF Metadata
  <2> QED
    BY <2>3, Zenon DEF MetaChanges
<1>3. CASE create_index_inner_with_doc_id(w) \/ IndexInputMissing(w)
  BY <1>3, UnchangedGrows, Zenon DEF create_index_inner_with_doc_id, IndexInputMissing, MetaChanges
<1>4. CASE create_index(w)
  <2>1. meta' = extension_commit(meta, indexer[w].built)
    BY <1>4, Zenon DEF create_index
  <2>2. Grows(meta, meta') \/ ExtensionCommitted(meta, meta', indexer[w].built)
    BY <1>1, <2>1, ExtensionCommitFacts, Zenon
  <2> QED
    BY <2>2, Zenon DEF MetaChanges
<1> QED
  BY <1>2, <1>3, <1>4, Zenon DEF IndexStep

\* The compaction loop: claims and notes leave the checkpoints alone, the
\* Iceberg commit adds one or panics.
LEMMA CompactionMeta ==
  ASSUME MetaInv(meta), compactor \in [Engines -> Compactors], NEW w \in Engines,
         CompactionStep(w)
  PROVE  Grows(meta, meta')
<1>1. /\ meta \in Metadata /\ compactor[w].item \in CompactionWorkItem
      /\ compactor[w].snapshot \in Nat /\ meta.notes \in SUBSET CompactionWorkItem
  BY Zenon DEF MetaInv, Compactors, Metadata
<1>2. CASE ClaimCompactionWork(w)
  <2>1. meta' = [meta EXCEPT !.compactionLeased = TRUE]
    BY <1>2, Zenon DEF ClaimCompactionWork, get_compaction_work_items
  <2>2. meta' \in Metadata
    BY <1>1, <2>1, MetadataUpdate, Zenon
  <2> QED
    BY <1>1, <2>1, <2>2, QuietStep, Zenon DEF Metadata
<1>3. CASE NoteCompaction(w)
  <2>1. meta' = [meta EXCEPT !.notes = meta.notes \cup {compactor[w].item}]
    BY <1>3, Zenon DEF NoteCompaction, compaction_commit
  <2>2. meta' \in Metadata
    BY <1>1, <2>1, MetadataUpdate, Zenon
  <2> QED
    BY <1>1, <2>1, <2>2, QuietStep, Zenon DEF Metadata
<1>4. CASE \/ update_iceberg(w) \/ CompactionInputMissing(w) \/ load_iceberg_table_metadata(w)
  BY <1>4, UnchangedGrows
     DEF update_iceberg, CompactionInputMissing, load_iceberg_table_metadata
<1>5. CASE do_iceberg_commit(w)
  <2> DEFINE files == {IcebergFile(i) : i \in 1 .. compactor[w].snapshot}
  <2>1. files \in SUBSET Files
    BY <1>1 DEF IcebergFile, Files
  <2>2. meta' = iceberg_commit(meta, files,
                  collect_iceberg_compactions(compactor[w].snapshot, compactor[w].last))
    BY <1>5, Zenon DEF do_iceberg_commit
  <2> HIDE DEF files
  <2> QED
    BY <2>1, <2>2, IcebergCommitFacts, Zenon
<1> QED
  BY <1>2, <1>3, <1>4, <1>5, Zenon DEF CompactionStep

\* The cleanup loop takes leases and removes what it has cleaned up.
LEMMA CleanupMeta ==
  ASSUME MetaInv(meta), cleaner \in [Engines -> SUBSET CompactionWorkItem],
         NEW w \in Engines, CleanupStep(w)
  PROVE  Grows(meta, meta') /\ meta'.checkpoints = meta.checkpoints
<1>1. /\ meta \in Metadata /\ meta.cleanup \in SUBSET CompactionWorkItem
      /\ meta.cleanupLeased \in SUBSET Nat
  BY Zenon DEF MetaInv, Metadata
<1>2. CASE ClaimCleanupWork(w)
  <2> DEFINE ids == meta.cleanupLeased \cup {item.id : item \in ReadyCleanup(meta, active)}
  <2>1. meta' = [meta EXCEPT !.cleanupLeased = ids]
    BY <1>2, Zenon DEF ClaimCleanupWork, get_cleanup_work_items
  <2>2. ids \in SUBSET Nat
    BY <1>1, Zenon DEF ReadyCleanup, CompactionWorkItem
  <2> HIDE DEF ids
  <2>3. meta' \in Metadata
    BY <1>1, <2>1, <2>2, MetadataUpdate, Zenon
  <2> QED
    BY <1>1, <2>1, <2>3, QuietStep, Zenon DEF Metadata
<1>3. ASSUME NEW item \in cleaner[w], perform_cleanup_work(w, item)
      PROVE  Grows(meta, meta') /\ meta'.checkpoints = meta.checkpoints
  BY <1>3, UnchangedGrows, Zenon DEF perform_cleanup_work
<1>4. ASSUME NEW item \in cleaner[w], CommitCleanup(w, item)
      PROVE  Grows(meta, meta') /\ meta'.checkpoints = meta.checkpoints
  <2> DEFINE m == [meta EXCEPT !.cleanup = meta.cleanup \ {item}]
             ids == meta.cleanupLeased \ {item.id}
             items == meta.cleanup \ {item}
  <2>1. meta' = [meta EXCEPT !.cleanup = items, !.cleanupLeased = ids]
    BY <1>4, Zenon DEF CommitCleanup, cleanup_commit
  <2>2. ids \in SUBSET Nat /\ items \in SUBSET CompactionWorkItem
    BY <1>1, Zenon
  <2> HIDE DEF ids
  <2>3. m \in Metadata
    BY <1>1, <2>2, MetadataUpdate, Zenon
  <2>4. meta' = [m EXCEPT !.cleanupLeased = ids]
    BY <2>1, Zenon
  <2>5. meta' \in Metadata
    BY <2>2, <2>3, <2>4, MetadataUpdate, Zenon
  <2> HIDE DEF items, m
  <2>6. /\ meta'.checkpoints = meta.checkpoints /\ meta'.waiting = meta.waiting
        /\ meta'.work = meta.work /\ meta'.recent = meta.recent
        /\ meta'.searchable = meta.searchable
    BY <1>1, <2>1, Zenon DEF Metadata
  <2> QED
    BY <2>5, <2>6, QuietStep, Zenon
<1> QED
  BY <1>2, <1>3, <1>4, Zenon DEF CleanupStep

\* Leases expire.
LEMMA LeaseMeta ==
  ASSUME MetaInv(meta), LeaseExpires
  PROVE  Grows(meta, meta') /\ meta'.checkpoints = meta.checkpoints
<1>1. meta \in Metadata /\ meta.cleanupLeased \in SUBSET Nat
  BY Zenon DEF MetaInv, Metadata
<1>2. CASE meta' = [meta EXCEPT !.workLeased = FALSE]
  <2>1. meta' \in Metadata
    BY <1>1, <1>2, MetadataUpdate, Zenon
  <2> QED
    BY <1>1, <1>2, <2>1, QuietStep, Zenon DEF Metadata
<1>3. CASE meta' = [meta EXCEPT !.compactionLeased = FALSE]
  <2>1. meta' \in Metadata
    BY <1>1, <1>3, MetadataUpdate, Zenon
  <2> QED
    BY <1>1, <1>3, <2>1, QuietStep, Zenon DEF Metadata
<1>4. ASSUME NEW id \in meta.cleanupLeased,
             meta' = [meta EXCEPT !.cleanupLeased = meta.cleanupLeased \ {id}]
      PROVE  Grows(meta, meta') /\ meta'.checkpoints = meta.checkpoints
  <2>1. meta.cleanupLeased \ {id} \in SUBSET Nat
    BY <1>1, Zenon
  <2>2. meta' \in Metadata
    BY <1>1, <1>4, <2>1, MetadataUpdate, Zenon
  <2> QED
    BY <1>1, <1>4, <2>2, QuietStep, Zenon DEF Metadata
<1> QED
  BY <1>2, <1>3, <1>4, Zenon DEF LeaseExpires

\* To the metadata a step is a commit, nothing, or an extension commit.
LEMMA NextMeta ==
  ASSUME MetaInv(meta), TypeOK, [Next]_vars
  PROVE  MetaChanges
<1>1. /\ rows \in Nat /\ live \in SUBSET Nat
      /\ indexer \in [Engines -> Indexers] /\ compactor \in [Engines -> Compactors]
      /\ cleaner \in [Engines -> SUBSET CompactionWorkItem]
  BY Zenon DEF TypeOK
<1>2. CASE Ingest
  BY <1>1, <1>2, IngestMeta, Zenon DEF MetaChanges
<1>3. ASSUME NEW e \in Selectors, Publish(e)
      PROVE  MetaChanges
  BY <1>3, UnchangedGrows, Zenon DEF Publish, MetaChanges
<1>4. ASSUME NEW w \in Engines, IndexStep(w)
      PROVE  MetaChanges
  BY <1>1, <1>4, IndexMeta, Zenon
<1>5. ASSUME NEW w \in Engines, CompactionStep(w)
      PROVE  MetaChanges
  BY <1>1, <1>5, CompactionMeta, Zenon DEF MetaChanges
<1>6. ASSUME NEW w \in Engines, CleanupStep(w)
      PROVE  MetaChanges
  BY <1>1, <1>6, CleanupMeta, Zenon DEF MetaChanges
<1>7. CASE LeaseExpires
  BY <1>7, LeaseMeta, Zenon DEF MetaChanges
<1>8. ASSUME NEW w \in Engines, WorkFails(w) \/ Restart(w)
      PROVE  MetaChanges
  BY <1>8, UnchangedGrows, Zenon DEF WorkFails, Restart, MetaChanges
<1>9. CASE UNCHANGED vars
  BY <1>9, UnchangedGrows, Zenon DEF vars, MetaChanges
<1> QED
  BY <1>2, <1>3, <1>4, <1>5, <1>6, <1>7, <1>8, <1>9, Zenon DEF Next

\* What claiming writes into an engine's index loop.
LEMMA IndexerClaims ==
  ASSUME NEW f \in [Engines -> Indexers], NEW w \in Engines,
         NEW claim \in SUBSET Files, NEW id \in Nat
  PROVE  [f EXCEPT ![w].phase = "claimed", ![w].claim = claim, ![w].checkpoint = id]
           \in [Engines -> Indexers]
<1> DEFINE g == [f EXCEPT ![w].phase = "claimed"]
           h == [g EXCEPT ![w].claim = claim]
<1>1. g \in [Engines -> Indexers]
  BY Zenon DEF Indexers
<1> HIDE DEF g
<1>2. h \in [Engines -> Indexers]
  BY <1>1, Zenon DEF Indexers
<1> HIDE DEF h
<1>3. [h EXCEPT ![w].checkpoint = id] \in [Engines -> Indexers]
  BY <1>2, Zenon DEF Indexers
<1> QED
  BY <1>3, Zenon DEF g, h

\* What building writes into it.
LEMMA IndexerBuilds ==
  ASSUME NEW f \in [Engines -> Indexers], NEW w \in Engines, NEW built \in SUBSET Files
  PROVE  [f EXCEPT ![w].phase = "built", ![w].built = built] \in [Engines -> Indexers]
<1> DEFINE g == [f EXCEPT ![w].phase = "built"]
<1>1. g \in [Engines -> Indexers]
  BY Zenon DEF Indexers
<1> HIDE DEF g
<1>2. [g EXCEPT ![w].built = built] \in [Engines -> Indexers]
  BY <1>1, Zenon DEF Indexers
<1> QED
  BY <1>2, Zenon DEF g

\* What claiming writes into an engine's compaction loop.
LEMMA CompactorClaims ==
  ASSUME NEW f \in [Engines -> Compactors], NEW w \in Engines, NEW item \in CompactionWorkItem
  PROVE  [f EXCEPT ![w].phase = "claimed", ![w].item = item] \in [Engines -> Compactors]
<1> DEFINE g == [f EXCEPT ![w].phase = "claimed"]
<1>1. g \in [Engines -> Compactors]
  BY Zenon DEF Compactors, Phases
<1> HIDE DEF g
<1>2. [g EXCEPT ![w].item = item] \in [Engines -> Compactors]
  BY <1>1, Zenon DEF Compactors
<1> QED
  BY <1>2, Zenon DEF g

\* What loading the table writes into it.
LEMMA CompactorLoads ==
  ASSUME NEW f \in [Engines -> Compactors], NEW w \in Engines, NEW n \in Nat
  PROVE  [f EXCEPT ![w].phase = "loaded", ![w].snapshot = n] \in [Engines -> Compactors]
<1> DEFINE g == [f EXCEPT ![w].phase = "loaded"]
<1>1. g \in [Engines -> Compactors]
  BY Zenon DEF Compactors, Phases
<1> HIDE DEF g
<1>2. [g EXCEPT ![w].snapshot = n] \in [Engines -> Compactors]
  BY <1>1, Zenon DEF Compactors
<1> QED
  BY <1>2, Zenon DEF g

\* Every step keeps the types.
LEMMA NextTypeOK ==
  ASSUME MetaInv(meta), TypeOK, [Next]_vars
  PROVE  TypeOK' /\ MetaInv(meta)'
<1>1. /\ meta \in Metadata /\ meta' \in Metadata /\ MetaInv(meta)'
      /\ Len(meta.checkpoints) \in Nat /\ Len(meta'.checkpoints) \in Nat
      /\ Len(meta'.checkpoints) >= Len(meta.checkpoints)
  <2>1. MetaChanges
    BY NextMeta, Zenon
  <2>2. MetaInv(meta)'
    BY <2>1, Zenon DEF MetaChanges, Grows, ExtensionCommitted
  <2>3. Count(meta) \in Nat /\ Count(meta') \in Nat
    BY <2>2, LatestType, Zenon
  <2>4. Count(meta') >= Count(meta) \/ Count(meta') = Count(meta)
    BY <2>1, Zenon DEF MetaChanges, Grows, ExtensionCommitted
  <2>5. meta \in Metadata /\ meta' \in Metadata
    BY <2>2, Zenon DEF MetaInv
  <2> QED
    BY <2>2, <2>3, <2>4, <2>5 DEF Count
<1> SUFFICES TypeOK'
  BY <1>1, Zenon
<1> DEFINE Active == active' \in [Selectors -> 0 .. Len(meta'.checkpoints)]
           Counts == rows' \in Nat /\ live' \in SUBSET Nat /\ expiries' \in Nat /\ faults' \in Nat
           Storage == /\ snapshots' \in Seq(Snapshots)
                      /\ deleted' \in SUBSET Files /\ sidecars' \in SUBSET Files
           Workers == /\ indexer' \in [Engines -> Indexers]
                      /\ compactor' \in [Engines -> Compactors]
                      /\ cleaner' \in [Engines -> SUBSET CompactionWorkItem]
<1>2. UNCHANGED active => Active
  BY <1>1 DEF TypeOK
<1>3. /\ UNCHANGED storage => Storage
      /\ UNCHANGED workers => Workers
      /\ UNCHANGED <<rows, live, bounds>> => Counts
  BY Zenon DEF TypeOK, storage, workers, bounds
<1>4. /\ Selectors = {"none", "es"} /\ Frontiers \in [Selectors -> 0 .. Len(meta.checkpoints)]
  BY <1>1 DEF Selectors, Frontiers, MetaInv, FrontierIsCovered, Metadata, Count
<1>5. /\ meta.work \in SUBSET Files /\ meta.workCheckpoint \in Nat
      /\ meta.compaction \in CompactionWorkItem /\ meta.cleanup \in SUBSET CompactionWorkItem
  BY <1>1, Zenon DEF Metadata
<1>6. /\ IdleIndexer \in Indexers /\ \A last \in Nat : IdleCompactor(last) \in Compactors
  BY DEF IdleIndexer, Indexers, IdleCompactor, Compactors, Phases, NoCompaction,
         CompactionWorkItem
<1>7. \A w \in Engines : /\ indexer[w] \in Indexers /\ compactor[w] \in Compactors
                         /\ indexer[w].claim \in SUBSET Files
                         /\ compactor[w].last \in Nat /\ compactor[w].snapshot \in Nat
                         /\ compactor[w].item \in CompactionWorkItem
                         /\ cleaner[w] \in SUBSET CompactionWorkItem
  BY Zenon DEF TypeOK, Indexers, Compactors
<1>8. Active /\ Counts /\ Storage /\ Workers => TypeOK'
  BY <1>1, Zenon DEF TypeOK
<1> HIDE DEF Active
<1>9. CASE Ingest
  <2>1. Active /\ Storage /\ Workers
    BY <1>2, <1>3, <1>9, Zenon DEF Ingest, Insert, Delete, Update
  <2>2. expiries' \in Nat /\ faults' \in Nat /\ rows' \in Nat
    BY <1>9 DEF Ingest, Insert, Delete, Update, TypeOK, bounds
  <2>3. rows \in Nat /\ live \subseteq Nat /\ rows + 1 \in Nat
    BY DEF TypeOK
  <2>4. live' \subseteq live \cup {rows + 1}
    BY <1>9, Zenon DEF Ingest, Insert, Delete, Update
  <2>5. Counts
    BY <2>2, <2>3, <2>4, Zenon
  <2> QED
    BY <1>8, <2>1, <2>5, Zenon
<1>10. ASSUME NEW e \in Selectors, Publish(e)
       PROVE  TypeOK'
  <2>1. Counts /\ Storage /\ Workers
    BY <1>3, <1>10, Zenon DEF Publish
  <2>2. Active
    BY <1>4, <1>10, Zenon DEF Publish, TypeOK, Active
  <2> QED
    BY <1>8, <2>1, <2>2, Zenon
<1>11. ASSUME NEW w \in Engines, IndexStep(w)
       PROVE  TypeOK'
  <2>1. Active /\ Counts
    BY <1>2, <1>3, <1>11 DEF IndexStep, ClaimExtensionWork, create_index_inner_with_doc_id,
                             IndexInputMissing, create_index
  <2>2. CASE ClaimExtensionWork(w)
    <3>1. indexer' \in [Engines -> Indexers]
      BY <1>5, <2>2, IndexerClaims, Zenon DEF ClaimExtensionWork, TypeOK
    <3>2. Storage /\ Workers
      BY <1>3, <2>2, <3>1, Zenon DEF ClaimExtensionWork, TypeOK
    <3> QED
      BY <1>8, <2>1, <3>2, Zenon
  <2>3. CASE create_index_inner_with_doc_id(w)
    <3>1. NewIndexes(w) \in SUBSET Files
      BY <1>7, Zenon DEF NewIndexes
    <3>2. Workers
      <4>1. indexer' \in [Engines -> Indexers]
        BY <2>3, <3>1, IndexerBuilds, Zenon DEF create_index_inner_with_doc_id, TypeOK
      <4> QED
        BY <2>3, <4>1, Zenon DEF create_index_inner_with_doc_id, TypeOK
    <3>3. indexer[w].checkpoint \in Nat
      BY <1>7, Zenon DEF Indexers
    <3>4. SnapshotArtifact(w) \in Files
      BY <3>3, Zenon DEF SnapshotArtifact, Files
    <3>5. Storage
      BY <1>7, <2>3, <3>4, Zenon DEF create_index_inner_with_doc_id, TypeOK
    <3> QED
      BY <1>8, <2>1, <3>2, <3>5, Zenon
  <2>4. CASE IndexInputMissing(w)
    <3>1. NewIndexes(w) \in SUBSET Files
      BY <1>7, Zenon DEF NewIndexes
    <3> QED
      BY <1>6, <1>8, <2>1, <2>4, <3>1, Zenon DEF IndexInputMissing, TypeOK
  <2>5. CASE create_index(w)
    BY <1>3, <1>6, <1>8, <2>1, <2>5, Zenon DEF create_index, TypeOK
  <2> QED
    BY <1>11, <2>2, <2>3, <2>4, <2>5, Zenon DEF IndexStep
<1>12. ASSUME NEW w \in Engines, CompactionStep(w)
       PROVE  TypeOK'
  <2>1. Active /\ Counts
    BY <1>2, <1>3, <1>12 DEF CompactionStep, ClaimCompactionWork, NoteCompaction,
         update_iceberg, CompactionInputMissing, load_iceberg_table_metadata, do_iceberg_commit
  <2>2. Len(snapshots) \in Nat
    BY DEF TypeOK
  <2>3. CASE ClaimCompactionWork(w)
    <3>1. compactor' \in [Engines -> Compactors]
      BY <1>5, <2>3, CompactorClaims, Zenon DEF ClaimCompactionWork, TypeOK
    <3>2. Storage /\ Workers
      BY <1>3, <2>3, <3>1, Zenon DEF ClaimCompactionWork, TypeOK
    <3> QED
      BY <1>8, <2>1, <3>2, Zenon
  <2>4. CASE NoteCompaction(w)
    BY <1>3, <1>8, <2>1, <2>4, Zenon DEF NoteCompaction, TypeOK, Compactors, Phases
  <2>5. CASE update_iceberg(w)
    <3>1. compactor[w].item.id \in Nat
      BY <1>7, Zenon DEF CompactionWorkItem
    <3>2. CompactedRows(compactor[w].item) \in SUBSET Nat
      BY <1>7, Zenon DEF CompactedRows, RowsIn, CompactionWorkItem, Files
    <3>3. [compaction |-> compactor[w].item.id, rows |-> CompactedRows(compactor[w].item)]
            \in Snapshots
      BY <3>1, <3>2, Zenon DEF Snapshots
    <3>4. Storage
      BY <2>5, <3>3 DEF update_iceberg, TypeOK
    <3> QED
      BY <1>8, <2>1, <2>5, <3>4, Zenon DEF update_iceberg, TypeOK, Compactors, Phases
  <2>6. CASE CompactionInputMissing(w)
    BY <1>3, <1>6, <1>7, <1>8, <2>1, <2>6, Zenon DEF CompactionInputMissing, TypeOK
  <2>7. CASE load_iceberg_table_metadata(w)
    <3>1. compactor' \in [Engines -> Compactors]
      BY <2>2, <2>7, CompactorLoads, Zenon DEF load_iceberg_table_metadata, TypeOK
    <3>2. Storage /\ Workers
      BY <1>3, <2>7, <3>1, Zenon DEF load_iceberg_table_metadata, TypeOK
    <3> QED
      BY <1>8, <2>1, <3>2, Zenon
  <2>8. CASE do_iceberg_commit(w)
    BY <1>3, <1>6, <1>7, <1>8, <2>1, <2>8, Zenon DEF do_iceberg_commit, TypeOK
  <2> QED
    BY <1>12, <2>3, <2>4, <2>5, <2>6, <2>7, <2>8, Zenon DEF CompactionStep
<1>13. ASSUME NEW w \in Engines, CleanupStep(w)
       PROVE  TypeOK'
  <2>1. CASE ClaimCleanupWork(w)
    <3>1. ReadyCleanup(meta, active) \in SUBSET CompactionWorkItem
      BY <1>5, Zenon DEF ReadyCleanup
    <3> QED
      BY <1>2, <1>3, <1>8, <2>1, <3>1, Zenon DEF ClaimCleanupWork, TypeOK
  <2>2. ASSUME NEW item \in cleaner[w], perform_cleanup_work(w, item)
        PROVE  TypeOK'
    <3>1. item.speedboat \in SUBSET Files /\ item.deletes \in SUBSET Files
      BY <1>7, Zenon DEF CompactionWorkItem
    <3> QED
      BY <1>2, <1>3, <1>8, <2>2, <3>1, Zenon DEF perform_cleanup_work, TypeOK
  <2>3. ASSUME NEW item \in cleaner[w], CommitCleanup(w, item)
        PROVE  TypeOK'
    BY <1>2, <1>3, <1>7, <1>8, <2>3, Zenon DEF CommitCleanup, TypeOK
  <2> QED
    BY <1>13, <2>1, <2>2, <2>3, Zenon DEF CleanupStep
<1>14. CASE LeaseExpires
  <2>1. Active /\ Storage /\ Workers
    BY <1>2, <1>3, <1>14, Zenon DEF LeaseExpires
  <2>2. ASSUME NEW busy, CountExpiry(busy)
        PROVE  expiries' \in Nat
    BY <2>2 DEF CountExpiry, TypeOK
  <2>3. expiries' \in Nat
    BY <1>14, <2>2, Zenon DEF LeaseExpires
  <2>4. Counts
    BY <1>14, <2>3, Zenon DEF LeaseExpires, TypeOK
  <2> QED
    BY <1>8, <2>1, <2>4, Zenon
<1>15. ASSUME NEW w \in Engines, LeavesIndexes(w)
       PROVE  sidecars' \in SUBSET Files
  <2>1. PICK part \in SUBSET (IF Indexing(w, "claimed") THEN indexer[w].claim \ deleted ELSE {}) :
               sidecars' = sidecars \cup part
    BY <1>15, Zenon DEF LeavesIndexes
  <2>2. part \subseteq indexer[w].claim
    OBVIOUS
  <2> QED
    BY <1>7, <2>1, <2>2, Zenon DEF TypeOK
<1>16. ASSUME NEW w \in Engines, WorkFails(w)
       PROVE  TypeOK'
  <2>1. Counts /\ snapshots' \in Seq(Snapshots) /\ deleted' \in SUBSET Files /\ Active
    BY <1>2, <1>16 DEF WorkFails, TypeOK
  <2>2. sidecars' \in SUBSET Files
    BY <1>15, <1>16, Zenon DEF WorkFails, TypeOK
  <2>3. Workers
    BY <1>6, <1>7, <1>16, Zenon DEF WorkFails, TypeOK
  <2> QED
    BY <1>8, <2>1, <2>2, <2>3, Zenon
<1>17. ASSUME NEW w \in Engines, Restart(w)
       PROVE  TypeOK'
  BY <1>2, <1>6, <1>8, <1>15, <1>17 DEF Restart, TypeOK
<1>18. CASE UNCHANGED vars
  BY <1>2, <1>3, <1>8, <1>18, Zenon DEF vars, storage, workers, bounds
<1> QED
  BY <1>1, <1>9, <1>10, <1>11, <1>12, <1>13, <1>14, <1>16, <1>17, <1>18, Zenon DEF Next

----------------------------------------------------------------------------
(* Claims.  The work item an engine claimed may since have grown, and       *)
(* others may have committed part of it.  As long as nobody did, the        *)
(* checkpoint that the claim was enough for still waits, and lacks no more. *)

ClaimTracked(m, claim) ==
  /\ claim \subseteq m.work \cup m.recent
  /\ claim \subseteq m.work =>
       \E id \in m.waiting : Uncovered(m.checkpoints[id]) \subseteq claim

ClaimsTracked ==
  \A w \in Engines : ~Indexing(w, "idle") => ClaimTracked(meta, indexer[w].claim)

IndexInv == MetaInv(meta) /\ TypeOK /\ ClaimsTracked

\* A commit adds no claimed file to the work again.
LEMMA ClaimGrows ==
  ASSUME NEW m, MetaInv(m), NEW r, Grows(m, r), NEW claim, ClaimTracked(m, claim)
  PROVE  ClaimTracked(r, claim)
<1>1. \A id \in m.waiting : id \in r.waiting /\ r.checkpoints[id] = m.checkpoints[id]
  BY Zenon DEF MetaInv, WorkIsExact, Grows
<1>2. m.work \subseteq r.work
  BY <1>1 DEF MetaInv, WorkIsExact, Grows
<1>3. claim \subseteq r.work \cup r.recent
  BY <1>2, Zenon DEF ClaimTracked, Grows
<1>4. ASSUME claim \subseteq r.work
      PROVE  \E id \in r.waiting : Uncovered(r.checkpoints[id]) \subseteq claim
  <2>1. claim \subseteq m.work
    BY <1>4, Zenon DEF ClaimTracked, Grows
  <2> QED
    BY <1>1, <2>1, Zenon DEF ClaimTracked
<1> QED
  BY <1>3, <1>4, Zenon DEF ClaimTracked

\* Another engine's extension commit: what it completes it has a file of.
LEMMA ClaimCommitted ==
  ASSUME NEW m, MetaInv(m), NEW r, NEW files, ExtensionCommitted(m, r, files),
         NEW claim, ClaimTracked(m, claim)
  PROVE  ClaimTracked(r, claim)
<1>1. claim \subseteq r.work \cup r.recent
  BY Zenon DEF ClaimTracked, ExtensionCommitted
<1>2. ASSUME claim \subseteq r.work
      PROVE  \E id \in r.waiting : Uncovered(r.checkpoints[id]) \subseteq claim
  <2>1. claim \subseteq m.work /\ claim \cap files = {}
    BY <1>2, Zenon DEF ExtensionCommitted
  <2>2. PICK id \in m.waiting : Uncovered(m.checkpoints[id]) \subseteq claim
    BY <2>1, Zenon DEF ClaimTracked
  <2>3. Uncovered(m.checkpoints[id]) # {}
    BY Zenon DEF MetaInv, WorkIsExact
  <2>4. ~(Uncovered(m.checkpoints[id]) \subseteq files)
    BY <2>1, <2>2, <2>3, Zenon
  <2>5. id \in r.waiting
    BY <2>4, Zenon DEF ExtensionCommitted, Completed
  <2>6. Uncovered(r.checkpoints[id]) \subseteq claim
    BY <2>2, Zenon DEF ExtensionCommitted
  <2> QED
    BY <2>5, <2>6, Zenon
<1> QED
  BY <1>1, <1>2, Zenon DEF ClaimTracked

\* The whole work item, when there is one, is enough for any waiting checkpoint.
LEMMA WorkItemTracked ==
  ASSUME NEW m, MetaInv(m), m.work # {}
  PROVE  ClaimTracked(m, m.work)
<1>1. PICK id \in m.waiting : Uncovered(m.checkpoints[id]) # {}
  BY Zenon DEF MetaInv, WorkIsExact
<1>2. Uncovered(m.checkpoints[id]) \subseteq m.work
  BY Zenon DEF MetaInv, WorkIsExact
<1> QED
  BY <1>1, <1>2, Zenon DEF ClaimTracked

\* What a step may do to an index loop: let go of the claim, keep it, or claim
\* the work item.
LEMMA IndexerMoves ==
  ASSUME MetaInv(meta), TypeOK, [Next]_vars, NEW v \in Engines
  PROVE  \/ indexer'[v].phase = "idle"
         \/ /\ indexer[v].phase # "idle" /\ indexer'[v].claim = indexer[v].claim
         \/ indexer'[v].claim = meta.work /\ meta.work # {}
<1> DEFINE Moves == \/ indexer'[v].phase = "idle"
                    \/ /\ indexer[v].phase # "idle" /\ indexer'[v].claim = indexer[v].claim
                    \/ indexer'[v].claim = meta.work /\ meta.work # {}
<1> SUFFICES Moves
  OBVIOUS
<1>1. indexer \in [Engines -> Indexers] /\ meta.work \in SUBSET Files /\ meta.workCheckpoint \in Nat
  BY Zenon DEF TypeOK, Metadata
<1>2. indexer'[v] = indexer[v] => Moves
  OBVIOUS
<1>3. IdleIndexer.phase = "idle"
  BY Zenon DEF IdleIndexer
<1>4. ASSUME NEW w \in Engines, indexer' = [indexer EXCEPT ![w] = IdleIndexer]
      PROVE  Moves
  BY <1>1, <1>3, <1>4, Zenon
<1>5. ASSUME NEW w \in Engines, ClaimExtensionWork(w)
      PROVE  Moves
  <2> DEFINE g == [indexer EXCEPT ![w].phase = "claimed", ![w].claim = meta.work,
                                  ![w].checkpoint = meta.workCheckpoint]
  <2>1. g[w].claim = meta.work /\ \A u \in Engines \ {w} : g[u] = indexer[u]
    BY <1>1, Zenon DEF Indexers
  <2>2. indexer' = g /\ meta.work # {}
    BY <1>5, Zenon DEF ClaimExtensionWork
  <2> HIDE DEF g
  <2>3. CASE v = w
    BY <2>1, <2>2, <2>3, Zenon
  <2>4. CASE v # w
    BY <1>2, <2>1, <2>2, <2>4, Zenon
  <2> QED
    BY <2>3, <2>4, Zenon
<1>6. ASSUME NEW w \in Engines, create_index_inner_with_doc_id(w)
      PROVE  Moves
  <2>1. indexer[w].phase # "idle"
    BY <1>6, Zenon DEF create_index_inner_with_doc_id, Indexing
  <2>2. indexer'[w].claim = indexer[w].claim /\ (v # w => indexer'[v] = indexer[v])
    BY <1>1, <1>6, Zenon DEF create_index_inner_with_doc_id, Indexers
  <2> QED
    BY <2>1, <2>2, Zenon
<1> HIDE DEF Moves
<1>7. CASE Ingest \/ LeaseExpires \/ \E e \in Selectors : Publish(e)
  BY <1>2, <1>7, Zenon DEF Ingest, Insert, Delete, Update, LeaseExpires, Publish, workers
<1>8. ASSUME NEW w \in Engines, CompactionStep(w) \/ CleanupStep(w)
      PROVE  Moves
  BY <1>2, <1>8 DEF CompactionStep, ClaimCompactionWork, NoteCompaction, update_iceberg,
       CompactionInputMissing, load_iceberg_table_metadata, do_iceberg_commit,
       CleanupStep, ClaimCleanupWork, perform_cleanup_work, CommitCleanup, workers
<1>9. ASSUME NEW w \in Engines, IndexStep(w)
      PROVE  Moves
  BY <1>4, <1>5, <1>6, <1>9, ZenonT(30) DEF IndexStep, IndexInputMissing, create_index
<1>10. ASSUME NEW w \in Engines, WorkFails(w) \/ Restart(w)
       PROVE  Moves
  BY <1>2, <1>4, <1>10, Zenon DEF WorkFails, Restart
<1>11. CASE UNCHANGED vars
  BY <1>2, <1>11, Zenon DEF vars
<1> QED
  BY <1>7, <1>8, <1>9, <1>10, <1>11, ZenonT(30) DEF Next

\* The invariant of the indexing holds at first and is kept by every step.
LEMMA IndexInvInit == Init => IndexInv
<1> SUFFICES ASSUME Init PROVE IndexInv
  OBVIOUS
<1>1. NoCompaction \in CompactionWorkItem
  BY Zenon DEF NoCompaction, CompactionWorkItem
<1>2. NewMetadata \in Metadata /\ NewMetadata.checkpoints = <<>> /\ NewMetadata.waiting = {}
      /\ NewMetadata.work = {} /\ NewMetadata.searchable = 0
  <2>1. <<>> \in Seq(TableMetadataCheckpoint)
    OBVIOUS
  <2>2. NewMetadata \in Metadata
    BY <1>1, <2>1, Zenon DEF NewMetadata, Metadata
  <2>3. NewMetadata.checkpoints = <<>> /\ NewMetadata.searchable = 0
    BY Zenon DEF NewMetadata
  <2>4. NewMetadata.waiting = {} /\ NewMetadata.work = {}
    BY Zenon DEF NewMetadata
  <2> QED
    BY <2>2, <2>3, <2>4, Zenon
<1>3. MetaInv(meta)
  BY <1>2 DEF Init, MetaInv, CoverageIsRecent, WorkIsExact, FrontierIsCovered, Count
<1>4. IdleIndexer \in Indexers /\ IdleIndexer.phase = "idle" /\ IdleCompactor(0) \in Compactors
  BY <1>1, Zenon DEF IdleIndexer, Indexers, IdleCompactor, Compactors, Phases
<1>5. TypeOK
  <2>1. meta \in Metadata /\ active \in [Selectors -> 0 .. Len(meta.checkpoints)]
    BY <1>2 DEF Init
  <2>2. /\ snapshots \in Seq(Snapshots) /\ deleted \in SUBSET Files /\ sidecars \in SUBSET Files
        /\ rows \in Nat /\ live \in SUBSET Nat /\ expiries \in Nat /\ faults \in Nat
    BY DEF Init
  <2>3. /\ indexer \in [Engines -> Indexers] /\ compactor \in [Engines -> Compactors]
        /\ cleaner \in [Engines -> SUBSET CompactionWorkItem]
    BY <1>4, Zenon DEF Init
  <2> QED
    BY <2>1, <2>2, <2>3, Zenon DEF TypeOK
<1>6. ClaimsTracked
  BY <1>4, Zenon DEF Init, ClaimsTracked, Indexing
<1> QED
  BY <1>3, <1>5, <1>6, Zenon DEF IndexInv

\* Every step keeps IndexInv: what changes the metadata is a commit of one of the
\* kinds above, and an engine claims only what is in the work item.
LEMMA IndexInvStep == IndexInv /\ [Next]_vars => IndexInv'
<1> SUFFICES ASSUME IndexInv, [Next]_vars PROVE IndexInv'
  OBVIOUS
<1>1. MetaInv(meta) /\ TypeOK /\ ClaimsTracked
  BY Zenon DEF IndexInv
<1>2. MetaInv(meta)' /\ TypeOK'
  BY <1>1, NextTypeOK, Zenon
<1>3. MetaChanges
  BY <1>1, NextMeta, Zenon
<1>4. ASSUME NEW claim, ClaimTracked(meta, claim)
      PROVE  ClaimTracked(meta', claim)
  BY <1>1, <1>3, <1>4, ClaimGrows, ClaimCommitted, Zenon DEF MetaChanges
<1>5. meta.work # {} => ClaimTracked(meta, meta.work)
  BY <1>1, WorkItemTracked, Zenon
<1>6. ASSUME NEW v \in Engines, indexer'[v].phase # "idle"
      PROVE  ClaimTracked(meta', indexer'[v].claim)
  BY <1>1, <1>4, <1>5, <1>6, IndexerMoves, Zenon DEF ClaimsTracked, Indexing
<1>7. ClaimsTracked'
  BY <1>6, Zenon DEF ClaimsTracked, Indexing
<1> QED
  BY <1>2, <1>7, Zenon DEF IndexInv

\* IndexInv is an invariant of the table.
LEMMA IndexInvAlways == Spec => []IndexInv
BY IndexInvInit, IndexInvStep, PTL DEF Spec

----------------------------------------------------------------------------
(* The theorems. *)

\* Every variable keeps its type and no selector is active at a checkpoint that
\* does not exist, for any number of engines, rows and faults.
THEOREM TypeCorrect == Spec => []TypeOK
<1>1. IndexInv => TypeOK
  BY Zenon DEF IndexInv
<1> QED
  BY <1>1, IndexInvAlways, PTL

\* fill_extension_work_item and extension_commit keep the work item exactly what
\* the waiting checkpoints lack, whatever the engines commit in whatever order.
THEOREM WorkItemIsExact == Spec => []ExtensionWorkIsExact
<1>1. IndexInv => ExtensionWorkIsExact
  BY DEF IndexInv, MetaInv, WorkIsExact, ExtensionWorkIsExact, Count,
         fully_covered_for_extension
<1> QED
  BY <1>1, IndexInvAlways, PTL

\* extension_commit moves the search frontier to fully indexed checkpoints only.
THEOREM SearchFrontierIndexed == Spec => []SearchFrontierIsCovered
<1>1. IndexInv => SearchFrontierIsCovered
  BY DEF IndexInv, MetaInv, FrontierIsCovered, SearchFrontierIsCovered, Count,
         fully_covered_for_extension
<1> QED
  BY <1>1, IndexInvAlways, PTL

\* The assertion of extension_commit holds for an engine that indexed all it
\* claimed, as long as nobody committed part of the claim before it.
THEOREM WholeBuildCompletes == Spec => []WholeBuildsComplete
<1>1. IndexInv => WholeBuildsComplete
  BY Zenon DEF IndexInv, ClaimsTracked, ClaimTracked, WholeBuildsComplete, Indexing, Completed
<1> QED
  BY <1>1, IndexInvAlways, PTL

\* No commit, compaction or index result changes the files of a checkpoint that
\* exists, or takes an index away from it.
THEOREM CheckpointsNeverChange == Spec => CheckpointsAreImmutable
<1> DEFINE Kept(m, r, id) ==
             /\ r.checkpoints[id].iceberg = m.checkpoints[id].iceberg
             /\ r.checkpoints[id].speedboat = m.checkpoints[id].speedboat
             /\ r.checkpoints[id].deletes = m.checkpoints[id].deletes
             /\ m.checkpoints[id].covered \subseteq r.checkpoints[id].covered
<1>1. ASSUME IndexInv, [Next]_vars, NEW id \in 1 .. Len(meta.checkpoints)
      PROVE  Kept(meta, meta', id)
  <2>1. MetaChanges
    BY <1>1, NextMeta, Zenon DEF IndexInv
  <2> QED
    BY <1>1, <2>1, Zenon DEF MetaChanges, Grows, ExtensionCommitted, SameFiles, Count
<1>2. IndexInv /\ [Next]_vars =>
        [\A id \in 1 .. Len(meta.checkpoints) :
           LET before == meta.checkpoints[id]
               after == meta'.checkpoints[id]
           IN /\ after.iceberg = before.iceberg
              /\ after.speedboat = before.speedboat
              /\ after.deletes = before.deletes
              /\ before.covered \subseteq after.covered]_vars
  BY <1>1, Zenon
<1> QED
  BY <1>2, IndexInvAlways, PTL DEF Spec, CheckpointsAreImmutable

\* Only a publication changes what queries read.
LEMMA ActiveMoves ==
  ASSUME [Next]_vars
  PROVE  UNCHANGED active \/ \E e \in Selectors : Publish(e)
BY Zenon DEF Next, vars, Ingest, Insert, Delete, Update, IndexStep, ClaimExtensionWork,
       create_index_inner_with_doc_id, IndexInputMissing, create_index, CompactionStep,
       ClaimCompactionWork, NoteCompaction, update_iceberg, CompactionInputMissing,
       load_iceberg_table_metadata, do_iceberg_commit, CleanupStep, ClaimCleanupWork,
       perform_cleanup_work, CommitCleanup, LeaseExpires, WorkFails, Restart

\* Commits only move the frontiers forward and publication only copies them:
\* the table implements PublishedFrontier.
THEOREM LakehouseImplementsFrontier == Spec => ImplementsFrontier
<1>1. Init => Frontier!Init
  <2> SUFFICES ASSUME Init
               PROVE  Frontier!Init
    OBVIOUS
  <2>1. meta = NewMetadata /\ active = [e \in Selectors |-> 0]
    BY Zenon DEF Init
  <2>2. NewMetadata.searchable = 0 /\ NewMetadata.checkpoints = <<>>
    BY Zenon DEF NewMetadata
  <2>3. Frontiers = [e \in Selectors |-> 0]
    BY <2>1, <2>2, Zenon DEF Frontiers
  <2> QED
    BY <2>1, <2>3, Zenon DEF Frontier!Init
<1>2. ASSUME IndexInv, [Next]_vars
      PROVE  [Frontier!Next]_Frontier!frontiers
  <2>1. /\ MetaInv(meta) /\ MetaInv(meta)' /\ MetaChanges /\ TypeOK
        /\ Len(meta.checkpoints) \in Nat /\ Len(meta'.checkpoints) \in Nat
    BY <1>2, NextMeta, NextTypeOK, LatestType, Zenon DEF IndexInv, Count
  <2>2. /\ meta.searchable \in Nat /\ meta'.searchable \in Nat
        /\ meta'.searchable >= meta.searchable
        /\ Len(meta'.checkpoints) >= Len(meta.checkpoints)
    <3>1. meta.searchable \in Nat /\ meta'.searchable \in Nat
      BY <2>1, Zenon DEF MetaInv, Metadata
    <3>2. CASE Grows(meta, meta')
      BY <2>1, <3>1, <3>2 DEF Grows, Count
    <3>3. ASSUME NEW w \in Engines, ExtensionCommitted(meta, meta', indexer[w].built)
          PROVE  /\ meta'.searchable >= meta.searchable
                 /\ Len(meta'.checkpoints) >= Len(meta.checkpoints)
      <4>1. Count(meta') = Count(meta) /\ meta.searchable <= meta'.searchable
        BY <3>3, Zenon DEF ExtensionCommitted
      <4> QED
        BY <2>1, <3>1, <4>1 DEF Count
    <3> QED
      BY <2>1, <3>1, <3>2, <3>3, ZenonT(30) DEF MetaChanges
  <2>3. UNCHANGED active => Frontier!Commit
    BY <2>1, <2>2, Zenon DEF Frontier!Commit, Frontiers, Selectors
  <2>4. ASSUME NEW e \in Selectors, Publish(e)
        PROVE  Frontier!Publish({e})
    BY <2>1, <2>4, Zenon DEF Publish, Frontier!Publish, Frontiers, TypeOK
  <2> QED
    BY <1>2, <2>3, <2>4, ActiveMoves, Zenon DEF Frontier!Next
<1> QED
  BY <1>1, <1>2, IndexInvAlways, PTL DEF Spec, ImplementsFrontier, Frontier!Spec

----------------------------------------------------------------------------
(* The files of the table. *)

Newest == latest_checkpoint(meta)
RowFiles(c) == c.speedboat \cup c.deletes

\* The work item that the insert of a row creates, if it creates one.
FreshItem(item) ==
  /\ item.id = Count(meta) + 1
  /\ item.speedboat = Newest.speedboat \cup {SpeedboatFile(rows + 1)}
  /\ item.deletes = Newest.deletes

SameTable ==
  /\ Count(meta') = Count(meta) /\ SameFiles(Newest', Newest)
  /\ UNCHANGED <<rows, live>>
  /\ meta'.compaction = meta.compaction
  /\ meta'.cleanup \subseteq meta.cleanup

InsertsRow ==
  /\ rows' = rows + 1 /\ live' \subseteq live \cup {rows + 1}
  /\ Newest'.speedboat = Newest.speedboat \cup {SpeedboatFile(rows + 1)}
  /\ \/ meta'.compaction = meta.compaction
     \/ meta.compaction = NoCompaction /\ FreshItem(meta'.compaction)

InsertsNoRow ==
  /\ rows' = rows /\ live' \subseteq live
  /\ Newest'.speedboat = Newest.speedboat
  /\ meta'.compaction = meta.compaction

Ingests ==
  /\ Count(meta') > Count(meta)
  /\ InsertsRow \/ InsertsNoRow
  /\ Newest'.iceberg = Newest.iceberg
  /\ Newest.deletes \subseteq Newest'.deletes
  /\ \A f \in Newest'.deletes \ Newest.deletes : \E row \in live \ live' : f = DeleteFile(row)
  /\ meta'.notes = meta.notes /\ meta'.cleanup = meta.cleanup
  /\ meta'.panicked = meta.panicked
  /\ UNCHANGED <<active, storage, workers>>

\* What an engine tells iceberg_commit.
Reported(w) == collect_iceberg_compactions(compactor[w].snapshot, compactor[w].last)
SeenFiles(w) == {IcebergFile(i) : i \in 1 .. compactor[w].snapshot}

Commits(w) ==
  /\ do_iceberg_commit(w)
  /\ CompactionsMatchWorkItem(meta, Reported(w))
  /\ IcebergCommitted(meta, meta', SeenFiles(w), Ids(Reported(w)))

----------------------------------------------------------------------------
(* What a step does to the table. *)

\* An ingest commit (speedboat_commit_type_commit, then the delete) adds one data
\* file to the newest checkpoint, and perhaps the compaction item made from it.
LEMMA IngestTable ==
  ASSUME IndexInv, live \subseteq 1 .. rows, Ingest
  PROVE  Ingests
<1>1. MetaInv(meta) /\ rows \in Nat /\ live \in SUBSET Nat
  BY Zenon DEF IndexInv, TypeOK
<1>2. \A row \in Nat : SpeedboatFile(row) \in Files /\ DeleteFile(row) \in Files
  BY Zenon DEF SpeedboatFile, DeleteFile, Files
<1>3. SpeedboatFile(rows + 1) \in Files /\ Count(meta) \in Nat
  BY <1>1, <1>2, LatestType
<1> DEFINE m == speedboat_commit_type_commit(meta, SpeedboatFile(rows + 1))
           c == latest_checkpoint(m)
<1>4. /\ MetaInv(m) /\ Count(m) = Count(meta) + 1
      /\ c.iceberg = Newest.iceberg /\ c.deletes = Newest.deletes
      /\ c.speedboat = Newest.speedboat \cup {SpeedboatFile(rows + 1)}
      /\ m.notes = meta.notes /\ m.cleanup = meta.cleanup /\ m.panicked = meta.panicked
      /\ \/ m.compaction = meta.compaction
         \/ /\ meta.compaction = NoCompaction
            /\ m.compaction = [id |-> Count(meta) + 1, speedboat |-> c.speedboat,
                               deletes |-> c.deletes]
  BY <1>1, <1>3, SpeedboatCommitFacts, ZenonT(30) DEF Newest, Grows
<1> HIDE DEF m, c
<1>5. \/ m.compaction = meta.compaction
      \/ meta.compaction = NoCompaction /\ FreshItem(m.compaction)
  <2> DEFINE item == [id |-> Count(meta) + 1, speedboat |-> c.speedboat, deletes |-> c.deletes]
  <2>1. item.id = Count(meta) + 1 /\ item.speedboat = c.speedboat /\ item.deletes = c.deletes
    OBVIOUS
  <2> HIDE DEF item
  <2>2. FreshItem(item)
    BY <1>4, <2>1, Zenon DEF FreshItem
  <2> QED
    BY <1>4, <2>2, Zenon DEF item
<1>6. CASE Insert
  <2>1. meta' = m /\ Newest' = c
    BY <1>6, ZenonT(30) DEF Insert, m, c, Newest
  <2>2. InsertsRow
    BY <1>4, <1>5, <1>6, <2>1, ZenonT(30) DEF Insert, InsertsRow
  <2>3. UNCHANGED <<active, storage, workers>>
    BY <1>6, ZenonT(30) DEF Insert
  <2>4. /\ Count(meta') > Count(meta) /\ Newest'.iceberg = Newest.iceberg
        /\ Newest'.deletes = Newest.deletes
        /\ meta'.notes = meta.notes /\ meta'.cleanup = meta.cleanup /\ meta'.panicked = meta.panicked
    BY <1>3, <1>4, <2>1
  <2> QED
    BY <2>2, <2>3, <2>4, ZenonT(30) DEF Ingests
<1>7. ASSUME NEW row \in live, Delete(row)
      PROVE  Ingests
  <2>1. /\ Count(meta') = Count(meta) + 1 /\ SameQueues(meta, meta')
        /\ Newest'.iceberg = Newest.iceberg /\ Newest'.speedboat = Newest.speedboat
        /\ Newest'.deletes = Newest.deletes \cup {DeleteFile(row)}
    <3> DEFINE r == speedboat_commit_type_delete(meta, DeleteFile(row))
               d == latest_checkpoint(r)
    <3>1. DeleteFile(row) \in Files
      BY <1>1, <1>2, Zenon
    <3>2. /\ Count(r) = Count(meta) + 1 /\ SameQueues(meta, r)
          /\ d.iceberg = Newest.iceberg /\ d.speedboat = Newest.speedboat
          /\ d.deletes = Newest.deletes \cup {DeleteFile(row)}
      BY <1>1, <3>1, DeleteCommitFacts, Zenon DEF Newest
    <3>3. meta' = r /\ Newest' = d
      BY <1>7, Zenon DEF Delete, Newest
    <3> HIDE DEF r, d
    <3> QED
      BY <3>2, <3>3, Zenon
  <2>2. row \in live \ live'
    BY <1>7, Zenon DEF Delete
  <2>3. InsertsNoRow
    BY <1>7, <2>1, Zenon DEF Delete, InsertsNoRow, SameQueues
  <2>4. UNCHANGED <<active, storage, workers>>
    BY <1>7, Zenon DEF Delete
  <2>5. Count(meta') > Count(meta)
    BY <1>3, <2>1
  <2>6. /\ meta'.notes = meta.notes /\ meta'.cleanup = meta.cleanup
        /\ meta'.panicked = meta.panicked
    BY <2>1, Zenon DEF SameQueues
  <2>7. /\ Newest.deletes \subseteq Newest'.deletes
        /\ \A f \in Newest'.deletes \ Newest.deletes : \E r \in live \ live' : f = DeleteFile(r)
    BY <2>1, <2>2, Zenon
  <2> QED
    BY <2>1, <2>3, <2>4, <2>5, <2>6, <2>7, Zenon DEF Ingests
<1>8. ASSUME NEW row \in live, Update(row)
      PROVE  Ingests
  <2>1. /\ Count(meta') = Count(meta) + 2 /\ SameQueues(m, meta')
        /\ Newest'.iceberg = c.iceberg /\ Newest'.speedboat = c.speedboat
        /\ Newest'.deletes = c.deletes \cup {DeleteFile(row)}
    <3>1. meta' = speedboat_commit_type_delete(m, DeleteFile(row))
      BY <1>8, Zenon DEF Update, m
    <3>2. DeleteFile(row) \in Files
      BY <1>1, <1>2, Zenon
    <3> DEFINE r == speedboat_commit_type_delete(m, DeleteFile(row))
               d == latest_checkpoint(r)
    <3>3. Count(r) = Count(m) + 1 /\ SameQueues(m, r)
          /\ d.iceberg = c.iceberg /\ d.speedboat = c.speedboat
          /\ d.deletes = c.deletes \cup {DeleteFile(row)}
      BY <1>4, <3>2, DeleteCommitFacts, ZenonT(30) DEF c
    <3>4. meta' = r /\ Newest' = d
      BY <3>1, Zenon DEF Newest
    <3> HIDE DEF r, d
    <3> QED
      BY <1>3, <1>4, <3>3, <3>4
  <2>2. row \in live \ live'
    BY <1>1, <1>8 DEF Update
  <2>3. InsertsRow
    BY <1>4, <1>5, <1>8, <2>1, ZenonT(30) DEF Update, InsertsRow, SameQueues
  <2>4. UNCHANGED <<active, storage, workers>>
    BY <1>8, Zenon DEF Update
  <2>5. Count(meta') > Count(meta)
    BY <1>3, <2>1
  <2>6. /\ Newest'.iceberg = Newest.iceberg
        /\ Newest'.deletes = Newest.deletes \cup {DeleteFile(row)}
    BY <1>4, <2>1, Zenon
  <2>7. /\ meta'.notes = meta.notes /\ meta'.cleanup = meta.cleanup
        /\ meta'.panicked = meta.panicked
    BY <1>4, <2>1, Zenon DEF SameQueues
  <2>8. /\ Newest.deletes \subseteq Newest'.deletes
        /\ \A f \in Newest'.deletes \ Newest.deletes : \E r \in live \ live' : f = DeleteFile(r)
    BY <2>2, <2>6, Zenon
  <2> QED
    BY <2>3, <2>4, <2>5, <2>6, <2>7, <2>8, Zenon DEF Ingests
<1> QED
  BY <1>6, <1>7, <1>8, ZenonT(30) DEF Ingest

\* A step that keeps the checkpoints' files and the compaction queues.
LEMMA QuietTable ==
  ASSUME meta'.checkpoints = meta.checkpoints, meta'.compaction = meta.compaction,
         meta'.cleanup \subseteq meta.cleanup, UNCHANGED <<rows, live>>
  PROVE  SameTable
BY Zenon DEF SameTable, Count, Newest, latest_checkpoint, SameFiles

\* The index loop adds coverage, no files.
LEMMA IndexTable ==
  ASSUME IndexInv, NEW w \in Engines, IndexStep(w)
  PROVE  /\ SameTable /\ meta'.notes = meta.notes
         /\ meta'.panicked \in {meta.panicked, "extension_commit"}
<1>1. MetaInv(meta) /\ meta \in Metadata /\ indexer[w].built \in SUBSET Files
  BY ZenonT(30) DEF IndexInv, TypeOK, Indexers
<1>2. UNCHANGED <<rows, live>>
  BY DEF IndexStep, ClaimExtensionWork, create_index_inner_with_doc_id, IndexInputMissing,
         create_index
<1>3. CASE ClaimExtensionWork(w)
  <2>1. /\ meta'.checkpoints = meta.checkpoints /\ meta'.compaction = meta.compaction
        /\ meta'.cleanup = meta.cleanup /\ meta'.notes = meta.notes
        /\ meta'.panicked = meta.panicked
    BY <1>1, <1>3, ZenonT(30) DEF ClaimExtensionWork, get_extension_work_items, Metadata
  <2> QED
    BY <1>2, <2>1, QuietTable, ZenonT(30)
<1>4. CASE create_index_inner_with_doc_id(w) \/ IndexInputMissing(w)
  BY <1>2, <1>4, QuietTable, Zenon DEF create_index_inner_with_doc_id, IndexInputMissing
<1>5. CASE create_index(w)
  <2> DEFINE r == extension_commit(meta, indexer[w].built)
  <2>1. meta' = r
    BY <1>5, Zenon DEF create_index
  <2>2. CASE /\ r = [meta EXCEPT !.panicked = "extension_commit"]
             /\ r.checkpoints = meta.checkpoints /\ r.notes = meta.notes
             /\ r.compaction = meta.compaction /\ r.cleanup = meta.cleanup
    <3>1. meta'.panicked = "extension_commit"
      BY <1>1, <2>1, <2>2, ZenonT(30) DEF Metadata
    <3> QED
      BY <1>2, <2>1, <2>2, <3>1, QuietTable, ZenonT(30)
  <2>3. CASE ExtensionCommitted(meta, r, indexer[w].built)
    BY <1>2, <2>1, <2>3, Zenon DEF ExtensionCommitted, SameQueues, SameTable, Newest
  <2> QED
    BY <1>1, <2>2, <2>3, ExtensionCommitFacts, ZenonT(30)
<1> QED
  BY <1>3, <1>4, <1>5, ZenonT(30) DEF IndexStep

\* The compaction loop leaves the table alone until it commits.
LEMMA CompactionTable ==
  ASSUME IndexInv, NEW w \in Engines, CompactionStep(w)
  PROVE  SameTable \/ Commits(w)
<1>1. MetaInv(meta) /\ meta \in Metadata /\ compactor[w].snapshot \in Nat
  BY ZenonT(30) DEF IndexInv, TypeOK, Compactors
<1>2. UNCHANGED <<rows, live>>
  BY DEF CompactionStep, ClaimCompactionWork, NoteCompaction, update_iceberg,
         CompactionInputMissing, load_iceberg_table_metadata, do_iceberg_commit
<1>3. CASE ClaimCompactionWork(w)
  <2>1. /\ meta'.checkpoints = meta.checkpoints /\ meta'.compaction = meta.compaction
        /\ meta'.cleanup = meta.cleanup
    BY <1>1, <1>3, ZenonT(30) DEF ClaimCompactionWork, get_compaction_work_items, Metadata
  <2> QED
    BY <1>2, <2>1, QuietTable, Zenon
<1>4. CASE NoteCompaction(w)
  <2>1. /\ meta'.checkpoints = meta.checkpoints /\ meta'.compaction = meta.compaction
        /\ meta'.cleanup = meta.cleanup
    BY <1>1, <1>4, Zenon DEF NoteCompaction, compaction_commit, Metadata
  <2> QED
    BY <1>2, <2>1, QuietTable, Zenon
<1>5. CASE update_iceberg(w) \/ CompactionInputMissing(w) \/ load_iceberg_table_metadata(w)
  BY <1>2, <1>5, QuietTable
     DEF update_iceberg, CompactionInputMissing, load_iceberg_table_metadata
<1>6. CASE do_iceberg_commit(w)
  <2>1. SeenFiles(w) \in SUBSET Files
    BY <1>1 DEF SeenFiles, IcebergFile, Files
  <2>2. meta' = iceberg_commit(meta, SeenFiles(w), Reported(w))
    BY <1>6, Zenon DEF do_iceberg_commit, SeenFiles, Reported
  <2>3. CASE /\ ~CompactionsMatchWorkItem(meta, Reported(w))
             /\ meta'.checkpoints = meta.checkpoints
             /\ meta'.compaction = meta.compaction /\ meta'.cleanup = meta.cleanup
    BY <1>2, <2>3, QuietTable, Zenon
  <2>4. CASE /\ CompactionsMatchWorkItem(meta, Reported(w))
             /\ IcebergCommitted(meta, meta', SeenFiles(w), Ids(Reported(w)))
    BY <1>6, <2>4, ZenonT(30) DEF Commits
  <2> QED
    BY <1>1, <2>1, <2>2, <2>3, <2>4, IcebergCommitFacts, Zenon
<1> QED
  BY <1>3, <1>4, <1>5, <1>6, ZenonT(30) DEF CompactionStep

\* The other steps leave the table alone.
LEMMA OtherTable ==
  ASSUME IndexInv,
         \/ \E e \in Selectors : Publish(e)
         \/ \E w \in Engines : CleanupStep(w) \/ WorkFails(w) \/ Restart(w)
         \/ LeaseExpires
         \/ UNCHANGED vars
  PROVE  SameTable /\ meta'.notes = meta.notes /\ meta'.panicked = meta.panicked
<1>1. meta \in Metadata
  BY Zenon DEF IndexInv, TypeOK
<1>2. UNCHANGED <<rows, live>>
  BY Zenon DEF Publish, CleanupStep, ClaimCleanupWork, perform_cleanup_work, CommitCleanup,
         LeaseExpires, WorkFails, Restart, vars
<1>3. CASE UNCHANGED meta
  BY <1>2, <1>3, QuietTable, Zenon
<1>4. ASSUME NEW w \in Engines, ClaimCleanupWork(w)
      PROVE  SameTable /\ meta'.notes = meta.notes /\ meta'.panicked = meta.panicked
  <2>1. /\ meta'.checkpoints = meta.checkpoints /\ meta'.compaction = meta.compaction
        /\ meta'.cleanup = meta.cleanup /\ meta'.notes = meta.notes
        /\ meta'.panicked = meta.panicked
    BY <1>1, <1>4, Zenon DEF ClaimCleanupWork, get_cleanup_work_items, Metadata
  <2> QED
    BY <1>2, <2>1, QuietTable, Zenon
<1>5. ASSUME NEW w \in Engines, NEW item \in cleaner[w], CommitCleanup(w, item)
      PROVE  SameTable /\ meta'.notes = meta.notes /\ meta'.panicked = meta.panicked
  <2>1. /\ meta'.checkpoints = meta.checkpoints /\ meta'.compaction = meta.compaction
        /\ meta'.cleanup = meta.cleanup \ {item} /\ meta'.notes = meta.notes
        /\ meta'.panicked = meta.panicked
    BY <1>1, <1>5, Zenon DEF CommitCleanup, cleanup_commit, Metadata
  <2> QED
    BY <1>2, <2>1, QuietTable, Zenon
<1>6. CASE LeaseExpires
  <2>1. \/ meta' = [meta EXCEPT !.workLeased = FALSE]
        \/ meta' = [meta EXCEPT !.compactionLeased = FALSE]
        \/ \E id \in meta.cleanupLeased :
             meta' = [meta EXCEPT !.cleanupLeased = meta.cleanupLeased \ {id}]
    BY <1>6, Zenon DEF LeaseExpires
  <2>2. /\ meta'.checkpoints = meta.checkpoints /\ meta'.compaction = meta.compaction
        /\ meta'.cleanup = meta.cleanup /\ meta'.notes = meta.notes
        /\ meta'.panicked = meta.panicked
    BY <1>1, <2>1, ZenonT(30) DEF Metadata
  <2> QED
    BY <1>2, <2>2, QuietTable, Zenon
<1> QED
  BY <1>3, <1>4, <1>5, <1>6
     DEF Publish, CleanupStep, perform_cleanup_work, WorkFails, Restart, vars

\* Every step leaves the table alone, ingests, or makes an Iceberg commit.
LEMMA NextTable ==
  ASSUME IndexInv, live \subseteq 1 .. rows, [Next]_vars
  PROVE  SameTable \/ Ingests \/ \E w \in Engines : Commits(w)
BY IngestTable, IndexTable, CompactionTable, OtherTable, Zenon DEF Next

----------------------------------------------------------------------------
(* Compaction work items, wherever they are. *)

IsCleaned(item) == item \in meta.cleanup \/ \E w \in Engines : item \in cleaner[w]

IsClaimed(item) ==
  \E w \in Engines : compactor[w].phase # "idle" /\ item = compactor[w].item

IsItem(item) ==
  \/ item = meta.compaction /\ item # NoCompaction
  \/ item \in meta.notes
  \/ IsClaimed(item)
  \/ IsCleaned(item)

\* A compaction loop goes idle, keeps its item or claims the table's.
LEMMA CompactorMoves ==
  ASSUME IndexInv, [Next]_vars, NEW v \in Engines
  PROVE  \/ compactor'[v].phase = "idle"
         \/ compactor[v].phase # "idle" /\ compactor'[v].item = compactor[v].item
         \/ compactor'[v].item = meta.compaction /\ meta.compaction # NoCompaction
<1> DEFINE Moves ==
             \/ compactor'[v].phase = "idle"
             \/ compactor[v].phase # "idle" /\ compactor'[v].item = compactor[v].item
             \/ compactor'[v].item = meta.compaction /\ meta.compaction # NoCompaction
<1> SUFFICES Moves
  OBVIOUS
<1>1. compactor \in [Engines -> Compactors] /\ Len(snapshots) \in Nat
  BY DEF IndexInv, TypeOK
<1>2. compactor'[v] = compactor[v] => Moves
  OBVIOUS
<1>3. \A last : IdleCompactor(last).phase = "idle"
  BY Zenon DEF IdleCompactor
<1>4. ASSUME NEW w \in Engines, NEW last, compactor' = [compactor EXCEPT ![w] = IdleCompactor(last)]
      PROVE  Moves
  BY <1>1, <1>3, <1>4, Zenon
<1>5. ASSUME NEW w \in Engines, ClaimCompactionWork(w)
      PROVE  Moves
  <2>1. compactor'[w].item = meta.compaction /\ (v # w => compactor'[v] = compactor[v])
    BY <1>1, <1>5, Zenon DEF ClaimCompactionWork, Compactors
  <2> QED
    BY <1>5, <2>1, Zenon DEF ClaimCompactionWork
<1>6. ASSUME NEW w \in Engines,
             NoteCompaction(w) \/ update_iceberg(w) \/ load_iceberg_table_metadata(w)
      PROVE  Moves
  <2>1. compactor[w].phase # "idle"
    BY <1>6, Zenon DEF NoteCompaction, update_iceberg, load_iceberg_table_metadata, AtPhase
  <2>2. compactor'[w].item = compactor[w].item /\ (v # w => compactor'[v] = compactor[v])
    BY <1>1, <1>6, ZenonT(30) DEF NoteCompaction, update_iceberg, load_iceberg_table_metadata, Compactors
  <2> QED
    BY <2>1, <2>2, Zenon
<1> HIDE DEF Moves
<1>7. CASE Ingest \/ LeaseExpires \/ \E e \in Selectors : Publish(e)
  BY <1>2, <1>7, Zenon DEF Ingest, Insert, Delete, Update, LeaseExpires, Publish, workers
<1>8. ASSUME NEW w \in Engines, IndexStep(w) \/ CleanupStep(w)
      PROVE  Moves
  BY <1>2, <1>8 DEF IndexStep, ClaimExtensionWork, create_index_inner_with_doc_id,
       IndexInputMissing, create_index, CleanupStep, ClaimCleanupWork,
       perform_cleanup_work, CommitCleanup, workers
<1>9. ASSUME NEW w \in Engines, CompactionStep(w)
      PROVE  Moves
  BY <1>4, <1>5, <1>6, <1>9, Zenon DEF CompactionStep, CompactionInputMissing, do_iceberg_commit
<1>10. ASSUME NEW w \in Engines, WorkFails(w) \/ Restart(w)
       PROVE  Moves
  BY <1>2, <1>4, <1>10, Zenon DEF WorkFails, Restart
<1>11. CASE UNCHANGED vars
  BY <1>2, <1>11, Zenon DEF vars
<1> QED
  BY <1>7, <1>8, <1>9, <1>10, <1>11, Zenon DEF Next

\* Only claimed items are noted.
LEMMA NotesMove ==
  ASSUME IndexInv, live \subseteq 1 .. rows, [Next]_vars, NEW item \in meta'.notes
  PROVE  item \in meta.notes \/ IsClaimed(item)
<1>1. meta \in Metadata
  BY Zenon DEF IndexInv, TypeOK
<1>2. ASSUME NEW w \in Engines, CompactionStep(w)
      PROVE  item \in meta.notes \/ IsClaimed(item)
  <2>1. CASE NoteCompaction(w)
    <3>1. meta'.notes = meta.notes \cup {compactor[w].item}
      BY <1>1, <2>1, Zenon DEF NoteCompaction, compaction_commit, Metadata
    <3> QED
      BY <2>1, <3>1, Zenon DEF NoteCompaction, AtPhase, IsClaimed
  <2>2. CASE ClaimCompactionWork(w)
    BY <1>1, <2>2, Zenon DEF ClaimCompactionWork, get_compaction_work_items, Metadata
  <2>3. CASE do_iceberg_commit(w)
    <3>1. compactor[w].snapshot \in Nat /\ MetaInv(meta)
      BY Zenon DEF IndexInv, TypeOK, Compactors
    <3>2. SeenFiles(w) \in SUBSET Files
      BY <3>1 DEF SeenFiles, IcebergFile, Files
    <3>3. meta' = iceberg_commit(meta, SeenFiles(w), Reported(w))
      BY <2>3, Zenon DEF do_iceberg_commit, SeenFiles, Reported
    <3>4. \/ meta'.notes = meta.notes
          \/ IcebergCommitted(meta, meta', SeenFiles(w), Ids(Reported(w)))
      BY <3>1, <3>2, <3>3, IcebergCommitFacts, Zenon
    <3>5. meta'.notes = meta.notes
      BY <3>4, Zenon DEF IcebergCommitted
    <3> QED
      BY <3>5, Zenon
  <2> QED
    BY <1>2, <2>1, <2>2, <2>3 DEF CompactionStep, update_iceberg, CompactionInputMissing,
         load_iceberg_table_metadata
<1> QED
  BY <1>2, IngestTable, IndexTable, OtherTable, Zenon DEF Next, Ingests

\* Only cleanup items are claimed for cleanup, when they are ready.
LEMMA CleanersMove ==
  ASSUME IndexInv, [Next]_vars, NEW w \in Engines, NEW item \in cleaner'[w]
  PROVE  \/ item \in cleaner[w]
         \/ item \in ReadyCleanup(meta, active) /\ meta'.cleanup = meta.cleanup /\ SameTable
            /\ UNCHANGED <<active, deleted>>
<1>1. cleaner \in [Engines -> SUBSET CompactionWorkItem]
  BY Zenon DEF IndexInv, TypeOK
<1>2. ASSUME NEW v \in Engines, CleanupStep(v)
      PROVE  \/ item \in cleaner[w]
             \/ item \in ReadyCleanup(meta, active) /\ meta'.cleanup = meta.cleanup /\ SameTable
                /\ UNCHANGED <<active, deleted>>
  <2>1. CASE ClaimCleanupWork(v)
    <3>1. meta'.cleanup = meta.cleanup
      BY <2>1, Zenon DEF ClaimCleanupWork, get_cleanup_work_items, IndexInv, TypeOK, Metadata
    <3> QED
      BY <1>1, <1>2, <2>1, <3>1, OtherTable, Zenon DEF ClaimCleanupWork, storage
  <2>2. CASE ~ClaimCleanupWork(v)
    BY <1>1, <1>2, <2>2, Zenon DEF CleanupStep, perform_cleanup_work, CommitCleanup, workers
  <2> QED
    BY <2>1, <2>2, Zenon
<1>3. ASSUME NEW v \in Engines, WorkFails(v) \/ Restart(v)
      PROVE  item \in cleaner[w]
  BY <1>1, <1>3, ZenonT(30) DEF WorkFails, Restart
<1>4. ASSUME NEW v \in Engines, IndexStep(v) \/ CompactionStep(v)
      PROVE  item \in cleaner[w]
  BY <1>4 DEF IndexStep, ClaimExtensionWork, create_index_inner_with_doc_id,
         IndexInputMissing, create_index, CompactionStep, ClaimCompactionWork,
         NoteCompaction, update_iceberg, CompactionInputMissing,
         load_iceberg_table_metadata, do_iceberg_commit
<1>5. CASE Ingest \/ LeaseExpires \/ (\E e \in Selectors : Publish(e)) \/ UNCHANGED vars
  BY <1>5, Zenon DEF Ingest, Insert, Delete, Update, LeaseExpires, Publish, workers, vars
<1> QED
  BY <1>2, <1>3, <1>4, <1>5, Zenon DEF Next

\* A step brings at most one new item, the one an insert creates.
LEMMA NextItems ==
  ASSUME IndexInv, live \subseteq 1 .. rows, [Next]_vars, NEW item, IsItem(item)'
  PROVE  \/ IsItem(item)
         \/ InsertsRow /\ Ingests /\ item = meta'.compaction /\ FreshItem(item)
<1>1. meta'.compaction # NoCompaction =>
        \/ meta'.compaction = meta.compaction
        \/ InsertsRow /\ Ingests /\ FreshItem(meta'.compaction)
  <2>1. ASSUME NEW w \in Engines, Commits(w)
        PROVE  meta'.compaction \in {NoCompaction, meta.compaction}
    BY <2>1, Zenon DEF Commits, IcebergCommitted
  <2> QED
    BY <2>1, NextTable, Zenon DEF SameTable, Ingests, InsertsRow, InsertsNoRow
<1>2. CASE item = meta'.compaction /\ item # NoCompaction
  BY <1>1, <1>2, Zenon DEF IsItem
<1>3. CASE item \in meta'.notes
  BY <1>3, NotesMove, Zenon DEF IsItem
<1>4. CASE \E w \in Engines : compactor'[w].phase # "idle" /\ item = compactor'[w].item
  BY <1>4, CompactorMoves, Zenon DEF IsItem, IsClaimed
<1>5. CASE item \in meta'.cleanup
  <2>1. ASSUME NEW w \in Engines, Commits(w)
        PROVE  item \in meta.cleanup \/ item \in meta.notes
    BY <1>5, <2>1, Zenon DEF Commits, IcebergCommitted, Noted
  <2> QED
    BY <1>5, <2>1, NextTable, Zenon DEF SameTable, Ingests, IsItem, IsCleaned
<1>6. CASE \E w \in Engines : item \in cleaner'[w]
  BY <1>6, CleanersMove, Zenon DEF ReadyCleanup, IsItem, IsCleaned
<1> QED
  BY <1>2, <1>3, <1>4, <1>5, <1>6, Zenon DEF IsItem, IsClaimed, IsCleaned

----------------------------------------------------------------------------
(* Which files hold which rows.  Speedboat files are those of rows that     *)
(* were inserted, delete files those of rows that were deleted.  A file     *)
(* given up for cleanup is in no newer checkpoint, because a row is         *)
(* inserted once and deleted once.                                          *)

Writes(files) == \A f \in files : f[1] = "speedboat" /\ f[2] \in 1 .. rows
Hides(files) == \A f \in files : f[1] = "delete" /\ f[2] \in 1 .. rows /\ f[2] \notin live

SoundItem(item) ==
  /\ item.id \in 1 .. Count(meta)
  /\ Writes(item.speedboat) /\ Hides(item.deletes)
  /\ CompactedRows(item) # {}

\* The checkpoint that table queries read.
TableCheckpoint ==
  IF active["none"] = 0 THEN EmptyCheckpoint ELSE meta.checkpoints[active["none"]]

NewestIsSound ==
  live \subseteq 1 .. rows /\ Writes(Newest.speedboat) /\ Hides(Newest.deletes)

IcebergIsIceberg ==
  \A f \in Newest.iceberg \cup TableCheckpoint.iceberg : f[1] = "iceberg"

Apart(files, c) == files \cap RowFiles(c) = {}

CleanedAreApart ==
  /\ \A item : IsCleaned(item) => Apart(RowFiles(item), Newest)
  /\ \A w \in Engines : \A item \in cleaner[w] : Apart(RowFiles(item), TableCheckpoint)

DeletedAreApart ==
  /\ \A f \in deleted : Writes({f}) \/ Hides({f})
  /\ Apart(deleted, Newest) /\ Apart(deleted, TableCheckpoint)

FileInv ==
  /\ NewestIsSound /\ IcebergIsIceberg
  /\ \A item : IsItem(item) => SoundItem(item)
  /\ CleanedAreApart /\ DeletedAreApart

\* Files of inserted rows stay that, files of deleted rows too.
LEMMA RowsGrow ==
  ASSUME IndexInv, live \subseteq 1 .. rows, [Next]_vars
  PROVE  /\ rows \in Nat /\ rows' \in Nat /\ rows' >= rows
         /\ live' \cap (1 .. rows) \subseteq live
         /\ live' \subseteq 1 .. rows'
         /\ \A files : Writes(files) => Writes(files)'
         /\ \A files : Hides(files) => Hides(files)'
<1>1. rows \in Nat
  BY Zenon DEF IndexInv, TypeOK
<1>2. \/ rows' = rows /\ live' \subseteq live
      \/ rows' = rows + 1 /\ live' \subseteq live \cup {rows + 1}
  <2>1. ASSUME NEW w \in Engines, Commits(w)
        PROVE  rows' = rows /\ live' = live
    BY <2>1, Zenon DEF Commits, do_iceberg_commit
  <2> QED
    BY <2>1, NextTable, Zenon DEF SameTable, Ingests, InsertsRow, InsertsNoRow
<1>3. /\ rows' \in Nat /\ rows' >= rows
      /\ live' \cap (1 .. rows) \subseteq live
      /\ live' \subseteq 1 .. rows'
  <2>1. rows + 1 \notin 1 .. rows /\ 1 .. rows \subseteq 1 .. (rows + 1)
        /\ rows + 1 \in 1 .. (rows + 1)
    BY <1>1
  <2>2. CASE rows' = rows /\ live' \subseteq live
    BY <1>1, <2>2
  <2>3. CASE rows' = rows + 1 /\ live' \subseteq live \cup {rows + 1}
    BY <1>1, <2>1, <2>3
  <2> QED
    BY <1>2, <2>2, <2>3, Zenon
<1>4. ASSUME NEW files, Writes(files)
      PROVE  Writes(files)'
  BY <1>1, <1>3, <1>4 DEF Writes
<1>5. ASSUME NEW files, Hides(files)
      PROVE  Hides(files)'
  BY <1>1, <1>3, <1>5 DEF Hides
<1> QED
  BY <1>1, <1>3, <1>4, <1>5, Zenon

\* What is new in the newest checkpoint are files of a new row or of a row just
\* deleted.
LEMMA NewestMoves ==
  ASSUME IndexInv, live \subseteq 1 .. rows, [Next]_vars
  PROVE  /\ \A f \in Newest'.speedboat :
              \/ f \in Newest.speedboat
              \/ f = SpeedboatFile(rows + 1) /\ rows' = rows + 1
         /\ \A f \in Newest'.deletes :
              \/ f \in Newest.deletes
              \/ \E row \in live \ live' : f = DeleteFile(row)
<1>1. ASSUME NEW w \in Engines, Commits(w)
      PROVE  Newest'.speedboat \subseteq Newest.speedboat /\ Newest'.deletes \subseteq Newest.deletes
  BY <1>1, Zenon DEF Commits, IcebergCommitted, Newest
<1>2. CASE SameTable
  BY <1>2, Zenon DEF SameTable, SameFiles
<1>3. CASE Ingests
  BY <1>3, Zenon DEF Ingests, InsertsRow, InsertsNoRow
<1> QED
  BY <1>1, <1>2, <1>3, NextTable, Zenon

\* FileInv holds of a table without checkpoints.
LEMMA FileInvInit == Init => FileInv
<1> SUFFICES ASSUME Init PROVE FileInv
  OBVIOUS
<1>1. /\ meta.checkpoints = <<>> /\ meta.notes = {} /\ meta.cleanup = {}
      /\ meta.compaction = NoCompaction
  BY Zenon DEF Init, NewMetadata
<1>2. Newest = EmptyCheckpoint /\ TableCheckpoint = EmptyCheckpoint
  BY <1>1, Zenon DEF Init, Newest, latest_checkpoint, TableCheckpoint, Selectors
<1>3. \A w \in Engines : compactor[w].phase = "idle" /\ cleaner[w] = {}
  BY Zenon DEF Init, IdleCompactor
<1>4. \A item : ~IsItem(item)
  BY <1>1, <1>3, Zenon DEF IsItem, IsClaimed, IsCleaned
<1>5. NewestIsSound
  BY <1>2, Zenon DEF Init, NewestIsSound, Writes, Hides, EmptyCheckpoint
<1>6. IcebergIsIceberg
  BY <1>2, Zenon DEF IcebergIsIceberg, EmptyCheckpoint
<1>7. CleanedAreApart
  BY <1>3, <1>4, Zenon DEF CleanedAreApart, IsItem
<1>8. DeletedAreApart
  BY Zenon DEF Init, DeletedAreApart, Apart
<1> QED
  BY <1>4, <1>5, <1>6, <1>7, <1>8, ZenonT(30) DEF FileInv

\* Files that belong to old rows stay apart from the newest checkpoint.
LEMMA StaysApart ==
  ASSUME IndexInv, NewestIsSound, [Next]_vars, NEW files,
         \A f \in files : Writes({f}) \/ Hides({f}), Apart(files, Newest)
  PROVE  Apart(files, Newest')
<1>1. rows \in Nat
  BY Zenon DEF IndexInv, TypeOK
<1>2. SUFFICES ASSUME NEW f \in files, f \in RowFiles(Newest')
               PROVE  FALSE
  BY Zenon DEF Apart
<1>3. \/ f[1] = "speedboat" /\ f[2] \in 1 .. rows
      \/ f[1] = "delete" /\ f[2] \notin live
  BY Zenon DEF Writes, Hides
<1>4. f \notin RowFiles(Newest)
  BY Zenon DEF Apart
<1>5. \/ f = SpeedboatFile(rows + 1)
      \/ \E row \in live : f = DeleteFile(row)
  BY <1>2, <1>4, NewestMoves, Zenon DEF RowFiles, NewestIsSound
<1> QED
  BY <1>1, <1>3, <1>5 DEF SpeedboatFile, DeleteFile

\* The files of an item are files of inserted and of deleted rows.
LEMMA ItemFiles ==
  ASSUME NEW item, SoundItem(item), NEW f \in RowFiles(item)
  PROVE  Writes({f}) \/ Hides({f})
BY Zenon DEF SoundItem, RowFiles, Writes, Hides

\* An item that a commit hands to cleanup has left the newest checkpoint.
LEMMA CommitCleans ==
  ASSUME IndexInv, FileInv, [Next]_vars, NEW w \in Engines, Commits(w),
         NEW item \in Noted(meta, Ids(Reported(w)))
  PROVE  Apart(RowFiles(item), Newest')
<1>1. item \in meta.notes
  BY Zenon DEF Noted
<1>2. SoundItem(item)
  BY <1>1, Zenon DEF FileInv, IsItem
<1>3. /\ Newest'.speedboat \subseteq Newest.speedboat \ item.speedboat
      /\ Newest'.deletes \subseteq Newest.deletes \ item.deletes
  BY Zenon DEF Commits, IcebergCommitted, Newest
<1>4. \A f \in item.speedboat : f[1] = "speedboat"
  BY <1>2, Zenon DEF SoundItem, Writes
<1>5. \A f \in item.deletes : f[1] = "delete"
  BY <1>2, Zenon DEF SoundItem, Hides
<1>6. /\ \A f \in Newest.speedboat : f[1] = "speedboat"
      /\ \A f \in Newest.deletes : f[1] = "delete"
  BY Zenon DEF FileInv, NewestIsSound, Writes, Hides
<1> QED
  BY <1>3, <1>4, <1>5, <1>6, Zenon DEF Apart, RowFiles

\* Table queries go on reading the checkpoint they read, or the newest one.
LEMMA TableCheckpointMoves ==
  ASSUME IndexInv, [Next]_vars
  PROVE  \/ SameFiles(TableCheckpoint', TableCheckpoint)
         \/ TableCheckpoint' = Newest' /\ UNCHANGED deleted
<1>1. active \in [Selectors -> 0 .. Count(meta)] /\ Count(meta) \in Nat /\ "none" \in Selectors
  BY LatestType, Zenon DEF IndexInv, TypeOK, Count, Selectors
<1>2. CASE UNCHANGED active
  <2>1. active["none"] # 0 => active["none"] \in 1 .. Count(meta)
    BY <1>1
  <2>2. \A id \in 1 .. Count(meta) : SameFiles(meta'.checkpoints[id], meta.checkpoints[id])
    BY NextMeta, Zenon DEF IndexInv, MetaChanges, Grows, ExtensionCommitted, SameFiles
  <2> QED
    BY <1>2, <2>1, <2>2, Zenon DEF TableCheckpoint, SameFiles
<1>3. ASSUME NEW e \in Selectors, Publish(e)
      PROVE  \/ SameFiles(TableCheckpoint', TableCheckpoint)
             \/ TableCheckpoint' = Newest' /\ UNCHANGED deleted
  <2>1. UNCHANGED <<meta, deleted>>
    BY <1>3, Zenon DEF Publish, storage
  <2>2. CASE e = "none"
    <3>1. active'["none"] = Count(meta)
      BY <1>1, <1>3, <2>2, Zenon DEF Publish, Frontiers, Count
    <3>2. meta.checkpoints \in Seq(TableMetadataCheckpoint)
      BY Zenon DEF IndexInv, TypeOK, Metadata
    <3>3. Count(meta) = 0 <=> meta.checkpoints = <<>>
      BY <3>2 DEF Count
    <3> QED
      BY <2>1, <3>1, <3>3, Zenon DEF TableCheckpoint, Newest, latest_checkpoint, Count
  <2>3. CASE e # "none"
    <3>1. active'["none"] = active["none"]
      BY <1>1, <1>3, <2>3, Zenon DEF Publish
    <3> QED
      BY <2>1, <3>1, Zenon DEF TableCheckpoint, SameFiles
  <2> QED
    BY <2>2, <2>3, Zenon
<1> QED
  BY <1>2, <1>3, ActiveMoves, Zenon

\* Only cleanup deletes files.
LEMMA DeletedMoves ==
  ASSUME IndexInv, [Next]_vars
  PROVE  \/ UNCHANGED deleted
         \/ \E w \in Engines : \E item \in cleaner[w] :
              /\ deleted' = deleted \cup RowFiles(item)
              /\ UNCHANGED <<meta, active, cleaner>>
<1>1. ASSUME NEW w \in Engines, NEW item \in cleaner[w], perform_cleanup_work(w, item)
      PROVE  deleted' = deleted \cup RowFiles(item) /\ UNCHANGED <<meta, active, cleaner>>
  BY <1>1, ZenonT(30) DEF perform_cleanup_work, RowFiles, workers
<1>2. ASSUME NEW w \in Engines, IndexStep(w) \/ CompactionStep(w)
      PROVE  UNCHANGED deleted
  BY <1>2 DEF IndexStep, ClaimExtensionWork, create_index_inner_with_doc_id,
         IndexInputMissing, create_index, CompactionStep, ClaimCompactionWork,
         NoteCompaction, update_iceberg, CompactionInputMissing,
         load_iceberg_table_metadata, do_iceberg_commit, storage
<1>3. ASSUME NEW w \in Engines, CleanupStep(w)
      PROVE  \/ UNCHANGED deleted
             \/ \E item \in cleaner[w] : perform_cleanup_work(w, item)
  BY <1>3, Zenon DEF CleanupStep, ClaimCleanupWork, CommitCleanup, storage
<1>4. ASSUME NEW w \in Engines, WorkFails(w) \/ Restart(w)
      PROVE  UNCHANGED deleted
  BY <1>4, Zenon DEF WorkFails, Restart
<1>5. CASE Ingest \/ LeaseExpires \/ (\E e \in Selectors : Publish(e)) \/ UNCHANGED vars
  BY <1>5, Zenon DEF Ingest, Insert, Delete, Update, LeaseExpires, Publish, storage, vars
<1> QED
  BY <1>1, <1>2, <1>3, <1>4, <1>5, Zenon DEF Next

\* A fresh item is sound: its own row is in no delete file.
LEMMA FreshIsSound ==
  ASSUME IndexInv, NewestIsSound, [Next]_vars, Ingests, InsertsRow, NEW item, FreshItem(item)
  PROVE  SoundItem(item)'
<1>1. rows \in Nat /\ Count(meta) \in Nat /\ Count(meta') \in Nat
  BY IndexInvStep, LatestType, Zenon DEF IndexInv, TypeOK
<1>2. item.id \in 1 .. Count(meta')
  BY <1>1 DEF FreshItem, Ingests
<1>4. SpeedboatFile(rows + 1)[1] = "speedboat" /\ SpeedboatFile(rows + 1)[2] = rows + 1
  BY Zenon DEF SpeedboatFile
<1>5. \A f \in item.speedboat : f[1] = "speedboat" /\ f[2] \in 1 .. rows'
  <2>1. \A f \in Newest.speedboat : f[1] = "speedboat" /\ f[2] \in 1 .. rows
    BY Zenon DEF NewestIsSound, Writes
  <2>2. item.speedboat = Newest.speedboat \cup {SpeedboatFile(rows + 1)} /\ rows' = rows + 1
    BY Zenon DEF FreshItem, InsertsRow
  <2>3. \A n \in 1 .. rows : n \in 1 .. (rows + 1)
    BY <1>1
  <2>4. rows + 1 \in 1 .. (rows + 1)
    BY <1>1
  <2> QED
    BY <1>4, <2>1, <2>2, <2>3, <2>4, Zenon
<1>6. \A f \in item.deletes : f[1] = "delete" /\ f[2] \in 1 .. rows /\ f[2] \notin live
  BY Zenon DEF NewestIsSound, Hides, FreshItem
<1>7. \A f \in item.deletes : f[1] = "delete" /\ f[2] \in 1 .. rows' /\ f[2] \notin live'
  BY <1>1, <1>6 DEF InsertsRow
<1>8. CompactedRows(item) # {}
  <2>1. rows + 1 \in RowsIn(item.speedboat)
    BY <1>4, Zenon DEF FreshItem, RowsIn
  <2>2. rows + 1 \notin RowsIn(item.deletes)
    BY <1>1, <1>6 DEF RowsIn
  <2> QED
    BY <2>1, <2>2, Zenon DEF CompactedRows
<1> QED
  BY <1>2, <1>5, <1>7, <1>8, Zenon DEF SoundItem, Writes, Hides

\* Every step of ingest, the engines and the clock keeps FileInv.
LEMMA FileInvStep ==
  ASSUME IndexInv, FileInv, [Next]_vars
  PROVE  FileInv'
<1>1. /\ NewestIsSound /\ IcebergIsIceberg /\ CleanedAreApart /\ DeletedAreApart
      /\ live \subseteq 1 .. rows
      /\ \A item : IsItem(item) => SoundItem(item)
  BY Zenon DEF FileInv, NewestIsSound
<1>2. Count(meta) \in Nat /\ Count(meta') \in Nat /\ Count(meta) <= Count(meta')
  <2>1. MetaInv(meta) /\ TypeOK /\ MetaInv(meta)'
    BY IndexInvStep, Zenon DEF IndexInv
  <2>2. Count(meta) \in Nat /\ Count(meta') \in Nat
    BY <2>1, LatestType, Zenon
  <2>3. MetaChanges
    BY <2>1, NextMeta, Zenon
  <2>4. Count(meta') >= Count(meta) \/ Count(meta') = Count(meta)
    BY <2>3, Zenon DEF MetaChanges, Grows, ExtensionCommitted
  <2> QED
    BY <2>2, <2>4
<1>3. NewestIsSound'
  <2>1. /\ rows \in Nat /\ rows' \in Nat /\ rows' >= rows
        /\ live' \cap (1 .. rows) \subseteq live /\ live' \subseteq 1 .. rows'
    BY <1>1, RowsGrow, Zenon
  <2>2. ASSUME NEW f \in Newest'.speedboat
        PROVE  f[1] = "speedboat" /\ f[2] \in 1 .. rows'
    BY <1>1, <2>1, NewestMoves DEF NewestIsSound, Writes, SpeedboatFile
  <2>3. ASSUME NEW f \in Newest'.deletes
        PROVE  f[1] = "delete" /\ f[2] \in 1 .. rows' /\ f[2] \notin live'
    <3>1. CASE f \in Newest.deletes
      BY <1>1, <2>1, <3>1 DEF NewestIsSound, Hides
    <3>2. CASE \E row \in live \ live' : f = DeleteFile(row)
      BY <1>1, <2>1, <3>2 DEF DeleteFile
    <3> QED
      BY <1>1, <3>1, <3>2, NewestMoves, Zenon
  <2> QED
    BY <2>1, <2>2, <2>3, Zenon DEF NewestIsSound, Writes, Hides
<1>4. IcebergIsIceberg'
  <2>1. \A f \in Newest'.iceberg : f[1] = "iceberg"
    <3>1. ASSUME NEW w \in Engines, Commits(w)
          PROVE  \A f \in Newest'.iceberg : f[1] = "iceberg"
      <4>1. Newest'.iceberg = SeenFiles(w)
        BY <3>1, Zenon DEF Commits, IcebergCommitted, Newest
      <4> QED
        BY <4>1 DEF SeenFiles, IcebergFile
    <3> QED
      BY <1>1, <3>1, NextTable, Zenon DEF SameTable, SameFiles, Ingests, IcebergIsIceberg
  <2> QED
    BY <1>1, <2>1, TableCheckpointMoves, ZenonT(30) DEF IcebergIsIceberg, SameFiles
<1>5. ASSUME NEW item, IsItem(item)'
      PROVE  SoundItem(item)'
  <2>1. CASE IsItem(item)
    <3>1. SoundItem(item)
      BY <1>1, <2>1, Zenon
    <3> QED
      BY <1>1, <1>2, <3>1, RowsGrow DEF SoundItem
  <2> QED
    BY <1>1, <1>5, <2>1, NextItems, FreshIsSound, ZenonT(30)
<1>6. ASSUME NEW item, IsCleaned(item)
      PROVE  Apart(RowFiles(item), Newest')
  <2>1. SoundItem(item) /\ Apart(RowFiles(item), Newest)
    BY <1>1, <1>6, Zenon DEF IsItem, CleanedAreApart
  <2> QED
    BY <1>1, <2>1, ItemFiles, StaysApart, Zenon
<1>7. ASSUME NEW item, IsCleaned(item)'
      PROVE  Apart(RowFiles(item), Newest')
  <2>1. CASE item \in meta'.cleanup /\ item \notin meta.cleanup
    <3>1. PICK w \in Engines : Commits(w)
      BY <1>1, <2>1, NextTable, Zenon DEF SameTable, Ingests
    <3>2. item \in Noted(meta, Ids(Reported(w)))
      BY <2>1, <3>1, Zenon DEF Commits, IcebergCommitted
    <3> QED
      BY <3>1, <3>2, CommitCleans, Zenon
  <2>2. CASE \E w \in Engines : item \in cleaner'[w]
    BY <1>6, <2>2, CleanersMove, Zenon DEF ReadyCleanup, IsCleaned
  <2> QED
    BY <1>6, <1>7, <2>1, <2>2, Zenon DEF IsCleaned
<1>8. ASSUME NEW w \in Engines, NEW item \in cleaner'[w]
      PROVE  Apart(RowFiles(item), TableCheckpoint')
  <2>1. Apart(RowFiles(item), Newest')
    BY <1>7, <1>8, Zenon DEF IsCleaned
  <2>2. Apart(RowFiles(item), TableCheckpoint)
    <3>1. CASE item \in cleaner[w]
      BY <1>1, <3>1, Zenon DEF CleanedAreApart
    <3>2. CASE item \in ReadyCleanup(meta, active)
      <4>1. "none" \in DOMAIN active
        BY Zenon DEF IndexInv, TypeOK, Selectors
      <4> QED
        BY <3>2, <4>1 DEF ReadyCleanup, cleanup_work_item_is_ready, Apart, RowFiles,
             checkpoint_references_any_cleanup_file, TableCheckpoint, EmptyCheckpoint
    <3> QED
      BY <1>8, <3>1, <3>2, CleanersMove, Zenon
  <2> QED
    BY <2>1, <2>2, TableCheckpointMoves, Zenon DEF Apart, RowFiles, SameFiles
<1>9. CleanedAreApart'
  BY <1>7, <1>8, Zenon DEF CleanedAreApart
<1>10. DeletedAreApart'
  <2>1. ASSUME NEW f \in deleted'
        PROVE  Writes({f}) \/ Hides({f})
    <3>1. ASSUME NEW w \in Engines, NEW item \in cleaner[w], f \in RowFiles(item)
          PROVE  Writes({f}) \/ Hides({f})
      BY <1>1, <3>1, ItemFiles, Zenon DEF IsItem, IsCleaned
    <3> QED
      BY <1>1, <2>1, <3>1, DeletedMoves, Zenon DEF DeletedAreApart
  <2>2. \A f \in deleted' : Writes({f})' \/ Hides({f})'
    BY <1>1, <2>1, RowsGrow, Zenon
  <2>3. CASE UNCHANGED deleted
    <3>1. Apart(deleted, Newest')
      BY <1>1, StaysApart, Zenon DEF DeletedAreApart
    <3> QED
      BY <1>1, <2>2, <2>3, <3>1, TableCheckpointMoves
         DEF DeletedAreApart, Apart, RowFiles, SameFiles
  <2>4. ASSUME NEW w \in Engines, NEW item \in cleaner[w],
               deleted' = deleted \cup RowFiles(item), UNCHANGED <<meta, active, cleaner>>
        PROVE  DeletedAreApart'
    <3>1. Newest' = Newest /\ TableCheckpoint' = TableCheckpoint
      BY <2>4, Zenon DEF Newest, TableCheckpoint
    <3>2. Apart(RowFiles(item), Newest) /\ Apart(RowFiles(item), TableCheckpoint)
      BY <1>1, Zenon DEF CleanedAreApart, IsCleaned
    <3> QED
      BY <1>1, <2>2, <2>4, <3>1, <3>2, Zenon DEF DeletedAreApart, Apart
  <2> QED
    BY <2>3, <2>4, DeletedMoves, Zenon
<1> QED
  BY <1>3, <1>4, <1>5, <1>9, <1>10, Zenon DEF FileInv

\* FileInv, with the invariant of the metadata, is an invariant of the table.
LEMMA FileInvAlways == Spec => [](IndexInv /\ FileInv)
<1>1. Init => IndexInv /\ FileInv
  BY IndexInvInit, FileInvInit, Zenon
<1>2. (IndexInv /\ FileInv) /\ [Next]_vars => (IndexInv /\ FileInv)'
  BY IndexInvStep, FileInvStep, Zenon
<1> QED
  BY <1>1, <1>2, PTL DEF Spec

\* perform_cleanup_work deletes no file of the checkpoint that table queries
\* read or of the newest one, although readiness was checked when the work was
\* claimed: whatever is published later is newer than the item's commit.
THEOREM TableFilesStay == Spec => []TableFilesExist
<1>1. ASSUME IndexInv, FileInv
      PROVE  TableFilesExist
  <2>1. \A f \in deleted : f[1] # "iceberg"
    BY <1>1, Zenon DEF FileInv, DeletedAreApart, Writes, Hides
  <2>2. Readable(Newest.iceberg \cup TableCheckpoint.iceberg)
    BY <1>1, <2>1, Zenon DEF FileInv, IcebergIsIceberg, Readable
  <2>3. Readable(RowFiles(Newest) \cup RowFiles(TableCheckpoint))
    BY <1>1, Zenon DEF FileInv, DeletedAreApart, Apart, Readable
  <2>4. FilesOf(active["none"]) \subseteq TableCheckpoint.iceberg \cup RowFiles(TableCheckpoint)
    BY Zenon DEF FilesOf, TableCheckpoint, RowFiles, current_file_paths
  <2>5. FilesOf(Len(meta.checkpoints)) \subseteq Newest.iceberg \cup RowFiles(Newest)
    <3>1. MetaInv(meta)
      BY <1>1, Zenon DEF IndexInv
    <3>2. Count(meta) # 0 => Newest = meta.checkpoints[Count(meta)]
      BY <3>1, LatestType, Zenon DEF Newest
    <3> QED
      BY <3>2, Zenon DEF FilesOf, RowFiles, current_file_paths, Count
  <2> QED
    BY <2>2, <2>3, <2>4, <2>5, Zenon DEF TableFilesExist, Readable
<1> QED
  BY <1>1, FileInvAlways, PTL

\* The assertion of the compaction leader holds: the rows it joins are not none.
THEOREM CompactionNeverEmpty == Spec => []CompactionIsNotEmpty
<1>1. FileInv => CompactionIsNotEmpty
  BY Zenon DEF FileInv, IsItem, IsClaimed, SoundItem, CompactionIsNotEmpty, AtPhase
<1> QED
  BY <1>1, FileInvAlways, PTL

=============================================================================
