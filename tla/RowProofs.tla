----------------------------- MODULE RowProofs -----------------------------
(***************************************************************************)
(* Every live row is in exactly one file of the committed checkpoint, for  *)
(* every number of engines, rows, lease expiries and faults, and with one  *)
(* engine that does not fail every compaction is applied once.             *)
(*                                                                         *)
(* The Iceberg files of the committed checkpoint are those of the first p  *)
(* snapshots.  An engine that commits reports the snapshots after the last *)
(* one it saw, and iceberg_commit panics unless it is one: that the one is *)
(* snapshot p + 1 is what the invariant of the engines says.               *)
(***************************************************************************)
EXTENDS LakehouseProofs

N == Len(snapshots)

\* One id, one item: an id is the checkpoint that was new with the item.
IdsAreUnique == \A i, j : IsItem(i) /\ IsItem(j) /\ i.id = j.id => i = j

\* A snapshot holds the rows of the compaction it names.
SoundSnapshot(s) ==
  /\ s.compaction \in 1 .. Count(meta) /\ s.rows \subseteq 1 .. rows
  /\ \A item : IsItem(item) /\ item.id = s.compaction => s.rows = CompactedRows(item)

SnapshotsAreSound == \A i \in 1 .. N : SoundSnapshot(snapshots[i])

\* What the table waits to have compacted is still there.
WorkIsCurrent ==
  meta.compaction # NoCompaction => meta.compaction.speedboat \subseteq Newest.speedboat

\* The rows, when p snapshots are committed.
RowsAt(p) ==
  /\ Newest.iceberg = {IcebergFile(i) : i \in 1 .. p}
  /\ \A i, j \in 1 .. p : i # j => snapshots[i].rows \cap snapshots[j].rows = {}
  /\ \A i \in 1 .. p : snapshots[i].rows \cap RowsIn(Newest.speedboat) = {}
  /\ \A row \in live : \/ row \in RowsIn(Newest.speedboat)
                       \/ \E i \in 1 .. p : row \in snapshots[i].rows

\* The engines: an engine that appended or loaded has a snapshot to report, two
\* such engines have two, and only the first to load may have seen one snapshot.
Late(w) == compactor[w].phase \in {"appended", "loaded"}

Ordered(w) ==
  /\ compactor[w].last <= N
  /\ compactor[w].phase = "appended" => compactor[w].last < N
  /\ compactor[w].phase = "loaded" =>
       compactor[w].last < compactor[w].snapshot /\ compactor[w].snapshot <= N

Spaced(v, w) ==
  /\ Late(v) /\ Late(w) => N >= 2
  /\ (/\ compactor[v].phase = "loaded" /\ compactor[v].snapshot = 1
      /\ compactor[w].phase = "loaded") => compactor[w].snapshot >= 2

EnginesAreOrdered ==
  /\ \A w \in Engines : Ordered(w)
  /\ \A v, w \in Engines : v # w => Spaced(v, w)

\* The engines, when p snapshots are committed and the backend still answers:
\* one engine at most made a commit, and it saw the p snapshots.
EnginesAt(p) ==
  /\ \A w \in Engines : compactor[w].last > 0 => compactor[w].last = p
  /\ \A v, w \in Engines : compactor[v].last > 0 /\ compactor[w].last > 0 => v = w
  /\ \A w \in Engines : p > 0 /\ compactor[w].last = 0 =>
       /\ Late(w) => N >= 2
       /\ compactor[w].phase = "loaded" => compactor[w].snapshot >= 2

RowInv ==
  /\ IdsAreUnique /\ SnapshotsAreSound /\ WorkIsCurrent /\ EnginesAreOrdered
  /\ \E p \in 0 .. N : RowsAt(p) /\ (Answers => EnginesAt(p))

TableInv == IndexInv /\ FileInv /\ RowInv

----------------------------------------------------------------------------
(* What a step does to the engines. *)

\* A loop stays as it is, or is not about to report, with the same last
\* snapshot or none.
Retreats(v) ==
  \/ compactor'[v] = compactor[v]
  \/ /\ compactor'[v].phase \notin {"appended", "loaded"}
     /\ compactor'[v].last \in {compactor[v].last, 0}

\* The types of what the compaction loop of an engine remembers.
LEMMA EngineTypes ==
  ASSUME IndexInv
  PROVE  /\ N \in Nat /\ compactor \in [Engines -> Compactors]
         /\ \A w \in Engines : compactor[w].last \in Nat /\ compactor[w].snapshot \in Nat
BY DEF IndexInv, TypeOK, Compactors, N

\* Steps that neither append, load nor commit make no engine advance.
LEMMA EngineMoves ==
  ASSUME IndexInv, [Next]_vars
  PROVE  \/ UNCHANGED snapshots /\ \A v \in Engines : Retreats(v)
         \/ \E w \in Engines : \/ update_iceberg(w)
                               \/ load_iceberg_table_metadata(w)
                               \/ do_iceberg_commit(w)
<1> DEFINE Goal == \/ UNCHANGED snapshots /\ \A v \in Engines : Retreats(v)
                   \/ \E w \in Engines : \/ update_iceberg(w)
                                         \/ load_iceberg_table_metadata(w)
                                         \/ do_iceberg_commit(w)
<1> SUFFICES Goal
  OBVIOUS
<1>1. compactor \in [Engines -> Compactors]
  BY EngineTypes, Zenon
<1>2. UNCHANGED <<snapshots, compactor>> => Goal
  BY Zenon DEF Retreats
<1>3. \A last : IdleCompactor(last).phase = "idle" /\ IdleCompactor(last).last = last
  BY Zenon DEF IdleCompactor
<1>4. ASSUME NEW w \in Engines, UNCHANGED snapshots,
             \/ compactor' = [compactor EXCEPT ![w] = IdleCompactor(compactor[w].last)]
             \/ compactor' = [compactor EXCEPT ![w] = IdleCompactor(0)]
      PROVE  Goal
  <2>1. \A v \in Engines : v # w => compactor'[v] = compactor[v]
    BY <1>1, <1>4, Zenon
  <2>2. compactor'[w].phase = "idle" /\ compactor'[w].last \in {compactor[w].last, 0}
    BY <1>1, <1>3, <1>4, ZenonT(30)
  <2> QED
    BY <1>4, <2>1, <2>2, Zenon DEF Retreats
<1>5. ASSUME NEW w \in Engines, ClaimCompactionWork(w) \/ NoteCompaction(w)
      PROVE  Goal
  <2>1. \A v \in Engines : v # w => compactor'[v] = compactor[v]
    BY <1>1, <1>5, Zenon DEF ClaimCompactionWork, NoteCompaction, Compactors
  <2>2. compactor'[w].phase \in {"claimed", "noted"} /\ compactor'[w].last = compactor[w].last
    BY <1>1, <1>5, ZenonT(30) DEF ClaimCompactionWork, NoteCompaction, Compactors
  <2> QED
    BY <1>5, <2>1, <2>2, Zenon DEF ClaimCompactionWork, NoteCompaction, storage, Retreats
<1>6. ASSUME NEW w \in Engines, CompactionStep(w)
      PROVE  Goal
  BY <1>4, <1>5, <1>6, Zenon DEF CompactionStep, CompactionInputMissing, storage
<1> HIDE DEF Goal
<1>7. CASE Ingest \/ LeaseExpires \/ \E e \in Selectors : Publish(e)
  BY <1>2, <1>7, ZenonT(30) DEF Ingest, Insert, Delete, Update, LeaseExpires, Publish, workers, storage
<1>8. ASSUME NEW w \in Engines, IndexStep(w) \/ CleanupStep(w)
      PROVE  Goal
  BY <1>2, <1>8 DEF IndexStep, ClaimExtensionWork, create_index_inner_with_doc_id,
       IndexInputMissing, create_index, CleanupStep, ClaimCleanupWork,
       perform_cleanup_work, CommitCleanup, workers, storage
<1>9. ASSUME NEW w \in Engines, WorkFails(w) \/ Restart(w)
      PROVE  Goal
  BY <1>2, <1>4, <1>9, Zenon DEF WorkFails, Restart
<1>10. CASE UNCHANGED vars
  BY <1>2, <1>10, Zenon DEF vars
<1> QED
  BY <1>6, <1>7, <1>8, <1>9, <1>10, Zenon DEF Next

\* A panicked backend stays so.
LEMMA AnswersMoves ==
  ASSUME [Next]_vars, Answers'
  PROVE  Answers
<1>1. meta' = meta \/ Answers
  BY Zenon DEF Next, vars, Ingest, Insert, Delete, Update, Publish, IndexStep, ClaimExtensionWork,
       create_index_inner_with_doc_id, IndexInputMissing, create_index, CompactionStep,
       ClaimCompactionWork, NoteCompaction, update_iceberg, CompactionInputMissing,
       load_iceberg_table_metadata, do_iceberg_commit, CleanupStep, ClaimCleanupWork,
       perform_cleanup_work, CommitCleanup, LeaseExpires, WorkFails, Restart
<1> QED
  BY <1>1, ZenonT(30) DEF Answers

\* No engine advances.
LEMMA EnginesRetreat ==
  ASSUME IndexInv, EnginesAreOrdered, UNCHANGED snapshots, \A v \in Engines : Retreats(v)
  PROVE  /\ EnginesAreOrdered'
         /\ \A p \in 0 .. N : EnginesAt(p) => EnginesAt(p)'
<1>1. /\ N \in Nat /\ N' = N
      /\ \A w \in Engines : compactor[w].last \in Nat /\ compactor[w].snapshot \in Nat
  BY EngineTypes, Zenon DEF N
<1>2. ASSUME NEW w \in Engines
      PROVE  Ordered(w)'
  BY <1>1 DEF EnginesAreOrdered, Ordered, Retreats
<1>3. ASSUME NEW v \in Engines, NEW w \in Engines, v # w
      PROVE  Spaced(v, w)'
  BY <1>1, <1>3, Zenon DEF EnginesAreOrdered, Spaced, Late, Retreats
<1>4. ASSUME NEW p \in 0 .. N, EnginesAt(p)
      PROVE  EnginesAt(p)'
  BY <1>1, <1>4 DEF EnginesAt, Late, Retreats
<1> QED
  BY <1>2, <1>3, <1>4, Zenon DEF EnginesAreOrdered

\* An engine appends a snapshot.
LEMMA EnginesAppend ==
  ASSUME IndexInv, EnginesAreOrdered, NEW w \in Engines, update_iceberg(w)
  PROVE  /\ N' = N + 1 /\ \A i \in 1 .. N : snapshots'[i] = snapshots[i]
         /\ snapshots'[N + 1] = [compaction |-> compactor[w].item.id,
                                 rows |-> CompactedRows(compactor[w].item)]
         /\ EnginesAreOrdered'
         /\ \A p \in 0 .. N : EnginesAt(p) => EnginesAt(p)'
<1>1. /\ N \in Nat /\ compactor \in [Engines -> Compactors]
      /\ \A u \in Engines : compactor[u].last \in Nat /\ compactor[u].snapshot \in Nat
  BY EngineTypes, Zenon
<1> DEFINE s == [compaction |-> compactor[w].item.id,
                 rows |-> CompactedRows(compactor[w].item)]
<1>2. snapshots \in Seq(Snapshots) /\ snapshots' = Append(snapshots, s)
  BY Zenon DEF IndexInv, TypeOK, update_iceberg
<1> HIDE DEF s
<1>3. N' = N + 1 /\ (\A i \in 1 .. N : snapshots'[i] = snapshots[i]) /\ snapshots'[N + 1] = s
  BY <1>2 DEF N
<1>4. /\ compactor'[w].phase = "appended" /\ compactor'[w].last = compactor[w].last
      /\ \A u \in Engines : u # w => compactor'[u] = compactor[u]
  BY <1>1, ZenonT(30) DEF update_iceberg, Compactors
<1>5. ASSUME NEW u \in Engines
      PROVE  Ordered(u)'
  BY <1>1, <1>3, <1>4 DEF EnginesAreOrdered, Ordered
<1>6. ASSUME NEW u \in Engines, Late(u)
      PROVE  N >= 1
  BY <1>1, <1>6 DEF EnginesAreOrdered, Ordered, Late
<1>7. ASSUME NEW u \in Engines, NEW v \in Engines, u # v
      PROVE  Spaced(u, v)'
  <2>1. CASE u = w
    BY <1>1, <1>3, <1>4, <1>6, <1>7, <2>1 DEF Spaced, Late
  <2>2. CASE v = w
    BY <1>1, <1>3, <1>4, <1>6, <1>7, <2>2 DEF Spaced, Late
  <2>3. CASE u # w /\ v # w
    BY <1>1, <1>3, <1>4, <1>7, <2>3 DEF EnginesAreOrdered, Spaced, Late
  <2> QED
    BY <2>1, <2>2, <2>3, Zenon
<1>8. ASSUME NEW p \in 0 .. N, EnginesAt(p)
      PROVE  EnginesAt(p)'
  <2>1. \A u \in Engines : compactor'[u].last = compactor[u].last
    BY <1>4, Zenon
  <2>2. ASSUME NEW u \in Engines, p > 0, compactor[u].last = 0
        PROVE  /\ N' >= 2
               /\ compactor'[u].phase = "loaded" => compactor'[u].snapshot >= 2
    BY <1>1, <1>3, <1>4, <1>8, <2>2 DEF EnginesAt
  <2> QED
    BY <1>8, <2>1, <2>2, Zenon DEF EnginesAt
<1> QED
  BY <1>3, <1>5, <1>7, <1>8, Zenon DEF EnginesAreOrdered, s

\* An engine loads the table's metadata.
LEMMA EnginesLoad ==
  ASSUME IndexInv, EnginesAreOrdered, NEW w \in Engines, load_iceberg_table_metadata(w)
  PROVE  /\ UNCHANGED snapshots
         /\ EnginesAreOrdered'
         /\ \A p \in 0 .. N : EnginesAt(p) => EnginesAt(p)'
<1>1. /\ N \in Nat /\ compactor \in [Engines -> Compactors]
      /\ \A u \in Engines : compactor[u].last \in Nat /\ compactor[u].snapshot \in Nat
  BY EngineTypes, Zenon
<1>2. N' = N /\ UNCHANGED snapshots
  BY Zenon DEF load_iceberg_table_metadata, storage, N
<1>3. compactor' = [compactor EXCEPT ![w].phase = "loaded", ![w].snapshot = N]
  BY Zenon DEF load_iceberg_table_metadata, N
<1>4. /\ compactor[w].phase = "appended"
      /\ compactor'[w].phase = "loaded" /\ compactor'[w].last = compactor[w].last
      /\ compactor'[w].snapshot = N
      /\ \A u \in Engines : u # w => compactor'[u] = compactor[u]
  BY <1>1, <1>3 DEF load_iceberg_table_metadata, Compactors, AtPhase
<1>5. ASSUME NEW u \in Engines
      PROVE  Ordered(u)'
  BY <1>1, <1>2, <1>4 DEF EnginesAreOrdered, Ordered
<1>6. ASSUME NEW u \in Engines, NEW v \in Engines, u # v
      PROVE  Spaced(u, v)'
  <2>1. Spaced(u, v)
    BY <1>6, Zenon DEF EnginesAreOrdered
  <2>2. CASE u = w
    BY <1>1, <1>2, <1>4, <1>6, <2>1, <2>2 DEF Spaced, Late
  <2>3. CASE v = w
    BY <1>1, <1>2, <1>4, <1>6, <2>1, <2>3, ZenonT(30) DEF Spaced, Late
  <2>4. CASE u # w /\ v # w
    BY <1>1, <1>2, <1>4, <1>6, <2>1, <2>4, ZenonT(30) DEF Spaced, Late
  <2> QED
    BY <2>2, <2>3, <2>4, Zenon
<1>7. ASSUME NEW p \in 0 .. N, EnginesAt(p)
      PROVE  EnginesAt(p)'
  <2>1. \A u \in Engines : compactor'[u].last = compactor[u].last
    BY <1>4, Zenon
  <2>2. ASSUME NEW u \in Engines, p > 0, compactor[u].last = 0
        PROVE  /\ Late(u)' => N' >= 2
               /\ compactor'[u].phase = "loaded" => compactor'[u].snapshot >= 2
    <3>1. CASE u = w
      BY <1>1, <1>2, <1>4, <1>7, <2>2, <3>1, ZenonT(30) DEF EnginesAt, Late
    <3>2. CASE u # w
      BY <1>1, <1>2, <1>4, <1>7, <2>2, <3>2, ZenonT(30) DEF EnginesAt, Late
    <3> QED
      BY <3>1, <3>2, ZenonT(30)
  <2> QED
    BY <1>7, <2>1, <2>2, ZenonT(30) DEF EnginesAt
<1> QED
  BY <1>2, <1>5, <1>6, <1>7, Zenon DEF EnginesAreOrdered

----------------------------------------------------------------------------
(* The Iceberg commit. *)

\* A commit that does not panic reports one snapshot, that of the table's work
\* item.
LEMMA CommitReports ==
  ASSUME IndexInv, NEW w \in Engines, Ordered(w), compactor[w].phase = "loaded",
         CompactionsMatchWorkItem(meta, Reported(w))
  PROVE  LET seen == compactor[w].snapshot
         IN /\ seen = compactor[w].last + 1 /\ seen \in 1 .. N
            /\ meta.compaction # NoCompaction
            /\ meta.compaction.id = snapshots[seen].compaction
            /\ Ids(Reported(w)) = {meta.compaction.id}
            /\ Noted(meta, Ids(Reported(w))) # {}
<1> DEFINE seen == compactor[w].snapshot
           last == compactor[w].last
           k == seen - last
           report == Reported(w)
<1>1. N \in Nat /\ seen \in Nat /\ last \in Nat /\ last < seen /\ seen <= N
  BY EngineTypes, Zenon DEF Ordered
<1>2. k \in Nat /\ k >= 1 /\ seen \in 1 .. N
  BY <1>1
<1>3. report = [i \in 1 .. k |-> snapshots[seen + 1 - i].compaction]
  BY Zenon DEF Reported, collect_iceberg_compactions
<1> HIDE DEF report, k
<1>4. Len(report) = k /\ report # <<>>
  <2>1. Len(report) = k
    BY <1>2, <1>3
  <2>2. k # 0 /\ Len(<<>>) = 0
    BY <1>2
  <2> QED
    BY <2>1, <2>2, ZenonT(30)
<1>5. /\ k = 1 /\ meta.compaction # NoCompaction /\ meta.compaction.id = report[1]
      /\ Noted(meta, {report[1]}) # {}
  BY <1>4, Zenon DEF CompactionsMatchWorkItem, report
<1>6. report[1] = snapshots[seen].compaction
  <2>1. 1 \in 1 .. k /\ seen + 1 - 1 = seen
    BY <1>1, <1>5
  <2> QED
    BY <1>3, <2>1, ZenonT(30)
<1>7. Ids(report) = {report[1]}
  BY <1>4, <1>5 DEF Ids
<1>8. seen = last + 1
  BY <1>1, <1>5 DEF k
<1> QED
  BY <1>2, <1>5, <1>6, <1>7, <1>8, ZenonT(30) DEF report

\* A commit that panics leaves the backend unable to answer.
LEMMA CommitPanics ==
  ASSUME IndexInv, NEW w \in Engines, do_iceberg_commit(w), ~Commits(w)
  PROVE  ~Answers'
<1>1. compactor[w].snapshot \in Nat /\ MetaInv(meta)
  BY EngineTypes, ZenonT(30) DEF IndexInv
<1>2. SeenFiles(w) \in SUBSET Files
  BY <1>1 DEF SeenFiles, IcebergFile, Files
<1>3. meta' = iceberg_commit(meta, SeenFiles(w), Reported(w))
  BY Zenon DEF do_iceberg_commit, SeenFiles, Reported
<1> QED
  BY <1>1, <1>2, <1>3, IcebergCommitFacts, ZenonT(30) DEF Commits, Answers

\* The engines after a commit of either kind.
LEMMA EnginesCommit ==
  ASSUME IndexInv, EnginesAreOrdered, NEW w \in Engines, do_iceberg_commit(w)
  PROVE  /\ UNCHANGED snapshots /\ N' = N
         /\ compactor'[w].phase = "idle" /\ compactor'[w].last = compactor[w].snapshot
         /\ \A u \in Engines : u # w => compactor'[u] = compactor[u]
         /\ EnginesAreOrdered'
<1>1. /\ N \in Nat /\ compactor \in [Engines -> Compactors]
      /\ \A u \in Engines : compactor[u].last \in Nat /\ compactor[u].snapshot \in Nat
  BY EngineTypes, Zenon
<1>2. UNCHANGED snapshots /\ N' = N /\ compactor[w].phase = "loaded"
  BY ZenonT(30) DEF do_iceberg_commit, storage, N, AtPhase
<1>3. /\ compactor'[w].phase = "idle" /\ compactor'[w].last = compactor[w].snapshot
      /\ \A u \in Engines : u # w => compactor'[u] = compactor[u]
  BY <1>1, ZenonT(30) DEF do_iceberg_commit, IdleCompactor
<1>4. ASSUME NEW u \in Engines
      PROVE  Ordered(u)'
  BY <1>1, <1>2, <1>3, ZenonT(30) DEF EnginesAreOrdered, Ordered
<1>5. ASSUME NEW u \in Engines, NEW v \in Engines, u # v
      PROVE  Spaced(u, v)'
  BY <1>1, <1>2, <1>3, <1>5, ZenonT(30) DEF EnginesAreOrdered, Spaced, Late
<1> QED
  BY <1>2, <1>3, <1>4, <1>5, ZenonT(30) DEF EnginesAreOrdered

\* What commits is the snapshot after the committed ones.
LEMMA CommitAdvances ==
  ASSUME IndexInv, EnginesAreOrdered, NEW p \in 0 .. N, EnginesAt(p),
         NEW w \in Engines, Commits(w)
  PROVE  /\ compactor[w].snapshot = p + 1 /\ p + 1 \in 1 .. N
         /\ EnginesAt(p + 1)'
<1>1. /\ N \in Nat /\ p \in Nat
      /\ \A u \in Engines : compactor[u].last \in Nat /\ compactor[u].snapshot \in Nat
  BY EngineTypes
<1>2. do_iceberg_commit(w) /\ compactor[w].phase = "loaded" /\ Ordered(w)
  BY Zenon DEF Commits, do_iceberg_commit, AtPhase, EnginesAreOrdered
<1>3. compactor[w].snapshot = compactor[w].last + 1 /\ compactor[w].snapshot \in 1 .. N
  BY <1>2, CommitReports, ZenonT(30) DEF Commits
<1>4. compactor[w].last = p
  BY <1>1, <1>2, <1>3 DEF EnginesAt
<1>5. /\ N' = N /\ compactor'[w].phase = "idle" /\ compactor'[w].last = p + 1
      /\ \A u \in Engines : u # w => compactor'[u] = compactor[u]
  BY <1>2, <1>3, <1>4, EnginesCommit, ZenonT(30)
<1>6. ASSUME NEW u \in Engines, u # w
      PROVE  compactor[u].last = 0
  BY <1>1, <1>4, <1>6 DEF EnginesAt
<1>7. ASSUME NEW u \in Engines, u # w
      PROVE  /\ Late(u) => N >= 2
             /\ compactor[u].phase = "loaded" => compactor[u].snapshot >= 2
  <2>1. CASE p > 0
    BY <1>6, <1>7, <2>1, ZenonT(30) DEF EnginesAt
  <2>2. CASE p = 0
    <3>1. Spaced(w, u) /\ Late(w) /\ compactor[w].snapshot = 1
      BY <1>2, <1>3, <1>4, <1>7, <2>2 DEF EnginesAreOrdered, Late
    <3> QED
      BY <1>2, <3>1, Zenon DEF Spaced
  <2> QED
    BY <1>1, <2>1, <2>2
<1>8. EnginesAt(p + 1)'
  <2>1. \A u \in Engines : compactor'[u].last > 0 => u = w
    BY <1>1, <1>5, <1>6
  <2>2. ASSUME NEW u \in Engines, compactor'[u].last = 0
        PROVE  /\ Late(u)' => N' >= 2
               /\ compactor'[u].phase = "loaded" => compactor'[u].snapshot >= 2
    BY <1>1, <1>5, <1>7, <2>2, ZenonT(30) DEF Late
  <2> QED
    BY <1>5, <2>1, <2>2, ZenonT(30) DEF EnginesAt
<1> QED
  BY <1>1, <1>3, <1>4, <1>8, ZenonT(30)

----------------------------------------------------------------------------
(* Items, snapshots and rows. *)

\* A new item has a new id.
LEMMA IdsStayUnique ==
  ASSUME IndexInv, FileInv, IdsAreUnique, [Next]_vars
  PROVE  IdsAreUnique'
<1>1. Count(meta) \in Nat /\ live \subseteq 1 .. rows
  BY LatestType, ZenonT(30) DEF IndexInv, FileInv, NewestIsSound
<1>2. \A item : IsItem(item) => item.id \in 1 .. Count(meta)
  BY Zenon DEF FileInv, SoundItem
<1>3. ASSUME NEW item, IsItem(item)'
      PROVE  \/ IsItem(item) /\ item.id <= Count(meta)
             \/ item = meta'.compaction /\ item.id = Count(meta) + 1
  BY <1>1, <1>2, <1>3, NextItems DEF FreshItem
<1>4. ASSUME NEW i, NEW j, IsItem(i)', IsItem(j)', i.id = j.id
      PROVE  i = j
  BY <1>1, <1>2, <1>3, <1>4 DEF IdsAreUnique
<1> QED
  BY <1>4, ZenonT(30) DEF IdsAreUnique

\* The snapshots that are there keep the rows of their compactions.
LEMMA SnapshotsStaySound ==
  ASSUME IndexInv, FileInv, [Next]_vars, NEW s, SoundSnapshot(s)
  PROVE  SoundSnapshot(s)'
<1>1. Count(meta) \in Nat /\ Count(meta') \in Nat /\ Count(meta) <= Count(meta')
  BY NextMeta, IndexInvStep, LatestType DEF IndexInv, MetaChanges, Grows, ExtensionCommitted
<1>2. rows \in Nat /\ rows' \in Nat /\ rows <= rows' /\ live \subseteq 1 .. rows
  BY RowsGrow, Zenon DEF FileInv, NewestIsSound
<1>3. s.compaction \in 1 .. Count(meta') /\ s.rows \subseteq 1 .. rows'
  BY <1>1, <1>2 DEF SoundSnapshot
<1>4. ASSUME NEW item, IsItem(item)', item.id = s.compaction
      PROVE  s.rows = CompactedRows(item)
  <2>1. ~FreshItem(item)
    BY <1>1, <1>4 DEF SoundSnapshot, FreshItem
  <2> QED
    BY <1>2, <1>4, <2>1, NextItems, ZenonT(30) DEF SoundSnapshot
<1> QED
  BY <1>3, <1>4, ZenonT(30) DEF SoundSnapshot

\* A snapshot just appended holds the rows of the engine's item.
LEMMA AppendedIsSound ==
  ASSUME IndexInv, FileInv, IdsAreUnique, NEW w \in Engines, update_iceberg(w)
  PROVE  SoundSnapshot([compaction |-> compactor[w].item.id,
                        rows |-> CompactedRows(compactor[w].item)])
<1> DEFINE item == compactor[w].item
<1>1. IsItem(item) /\ SoundItem(item)
  BY Zenon DEF update_iceberg, AtPhase, IsItem, IsClaimed, FileInv
<1>2. CompactedRows(item) \subseteq 1 .. rows
  BY <1>1, ZenonT(30) DEF SoundItem, Writes, CompactedRows, RowsIn
<1>3. \A other : IsItem(other) /\ other.id = item.id => other = item
  BY <1>1, ZenonT(30) DEF IdsAreUnique
<1> QED
  BY <1>1, <1>2, <1>3, ZenonT(30) DEF SoundSnapshot, SoundItem

\* Snapshots are only appended, with the rows of the item the engine took.
LEMMA SnapshotsStep ==
  ASSUME IndexInv, FileInv, IdsAreUnique, SnapshotsAreSound, EnginesAreOrdered, [Next]_vars
  PROVE  SnapshotsAreSound'
<1>1. N \in Nat
  BY EngineTypes, ZenonT(30)
<1>2. \A i \in 1 .. N : \A s : s = snapshots[i] => SoundSnapshot(s)'
  BY SnapshotsStaySound, ZenonT(30) DEF SnapshotsAreSound
<1>3. CASE UNCHANGED snapshots
  BY <1>2, <1>3, ZenonT(30) DEF SnapshotsAreSound, N
<1>4. ASSUME NEW w \in Engines, update_iceberg(w)
      PROVE  SnapshotsAreSound'
  <2> DEFINE s == [compaction |-> compactor[w].item.id,
                   rows |-> CompactedRows(compactor[w].item)]
  <2>1. N' = N + 1 /\ (\A i \in 1 .. N : snapshots'[i] = snapshots[i]) /\ snapshots'[N + 1] = s
    BY <1>4, EnginesAppend, ZenonT(30)
  <2>2. SoundSnapshot(s)
    BY <1>4, AppendedIsSound, ZenonT(30)
  <2> HIDE DEF s
  <2>3. \A t : t = s => SoundSnapshot(t)'
    BY <2>2, SnapshotsStaySound, ZenonT(30)
  <2>4. ASSUME NEW i \in 1 .. N'
        PROVE  SoundSnapshot(snapshots[i])'
    <3>1. CASE i \in 1 .. N
      BY <1>2, <2>1, <3>1, ZenonT(30)
    <3>2. CASE i = N + 1
      BY <2>1, <2>3, <3>2, ZenonT(30)
    <3> QED
      BY <1>1, <2>1, <3>1, <3>2
  <2> QED
    BY <2>4, Zenon DEF SnapshotsAreSound
<1>5. UNCHANGED snapshots \/ \E w \in Engines : update_iceberg(w)
  BY EngineMoves, EnginesLoad, EnginesCommit, ZenonT(30)
<1> QED
  BY <1>3, <1>4, <1>5, ZenonT(30)

\* The compaction item is dropped by the commit that removes its files.
LEMMA WorkStaysCurrent ==
  ASSUME IndexInv, FileInv, WorkIsCurrent, [Next]_vars
  PROVE  WorkIsCurrent'
<1>1. live \subseteq 1 .. rows
  BY Zenon DEF FileInv, NewestIsSound
<1>2. ASSUME NEW w \in Engines, Commits(w)
      PROVE  WorkIsCurrent'
  <2>1. CASE Ids(Reported(w)) # {}
    BY <1>2, <2>1, ZenonT(30) DEF Commits, IcebergCommitted, WorkIsCurrent
  <2>2. CASE Ids(Reported(w)) = {}
    <3>1. Noted(meta, Ids(Reported(w))) = {}
      BY <2>2, ZenonT(30) DEF Noted
    <3>2. /\ Newest'.speedboat =
               Newest.speedboat \ UNION {note.speedboat : note \in Noted(meta, Ids(Reported(w)))}
          /\ meta'.compaction = meta.compaction
      BY <1>2, <2>2, Zenon DEF Commits, IcebergCommitted, Newest
    <3>3. Newest'.speedboat = Newest.speedboat
      BY <3>1, <3>2, ZenonT(30)
    <3> QED
      BY <3>2, <3>3, ZenonT(30) DEF WorkIsCurrent
  <2> QED
    BY <2>1, <2>2, ZenonT(30)
<1>3. CASE SameTable
  BY <1>3, ZenonT(30) DEF SameTable, SameFiles, WorkIsCurrent
<1>4. CASE Ingests
  BY <1>4, ZenonT(30) DEF Ingests, InsertsRow, InsertsNoRow, FreshItem, WorkIsCurrent
<1> QED
  BY <1>1, <1>2, <1>3, <1>4, NextTable, ZenonT(30)

\* A step that makes no commit keeps the rows where they are; an insert adds its
\* row to the speedboat files.
LEMMA RowsStay ==
  ASSUME IndexInv, FileInv, SnapshotsAreSound, [Next]_vars, SameTable \/ Ingests,
         NEW p \in 0 .. N, RowsAt(p), \A i \in 1 .. p : snapshots'[i] = snapshots[i]
  PROVE  RowsAt(p)'
<1>1. N \in Nat /\ p \in Nat /\ rows \in Nat
  BY EngineTypes DEF IndexInv, TypeOK
<1>2. Newest'.iceberg = Newest.iceberg
  <2>1. CASE SameTable
    BY <2>1, Zenon DEF SameTable, SameFiles
  <2>2. CASE Ingests
    BY <2>2, Zenon DEF Ingests
  <2> QED
    BY <2>1, <2>2, Zenon
<1>3. CASE Newest'.speedboat = Newest.speedboat /\ live' \subseteq live
  BY <1>2, <1>3, ZenonT(30) DEF RowsAt
<1>4. CASE /\ Newest'.speedboat = Newest.speedboat \cup {SpeedboatFile(rows + 1)}
           /\ live' \subseteq live \cup {rows + 1}
  <2>1. RowsIn(Newest'.speedboat) = RowsIn(Newest.speedboat) \cup {rows + 1}
    <3> DEFINE new == SpeedboatFile(rows + 1)
    <3>1. new[2] = rows + 1
      BY ZenonT(30) DEF SpeedboatFile
    <3> HIDE DEF new
    <3>2. \A files : RowsIn(files \cup {new}) = RowsIn(files) \cup {new[2]}
      BY ZenonT(30) DEF RowsIn
    <3> QED
      BY <1>4, <3>1, <3>2, ZenonT(30) DEF new
  <2>2. \A i \in 1 .. p : rows + 1 \notin snapshots[i].rows
    <3>1. \A i \in 1 .. p : i \in 1 .. N
      BY <1>1
    <3>2. \A i \in 1 .. p : snapshots[i].rows \subseteq 1 .. rows
      BY <3>1, ZenonT(30) DEF SnapshotsAreSound, SoundSnapshot
    <3> QED
      BY <1>1, <3>2
  <2>3. \A i \in 1 .. p : snapshots'[i].rows \cap RowsIn(Newest'.speedboat) = {}
    BY <2>1, <2>2 DEF RowsAt
  <2>4. ASSUME NEW row \in live'
        PROVE  \/ row \in RowsIn(Newest'.speedboat)
               \/ \E i \in 1 .. p : row \in snapshots'[i].rows
    BY <1>4, <2>1, Zenon DEF RowsAt
  <2>5. \A i, j \in 1 .. p : i # j => snapshots'[i].rows \cap snapshots'[j].rows = {}
    BY ZenonT(30) DEF RowsAt
  <2>6. Newest'.iceberg = {IcebergFile(i) : i \in 1 .. p}
    BY <1>2, ZenonT(30) DEF RowsAt
  <2> QED
    BY <2>3, <2>4, <2>5, <2>6, ZenonT(30) DEF RowsAt
<1> QED
  BY <1>3, <1>4, ZenonT(30) DEF SameTable, SameFiles, Ingests, InsertsRow, InsertsNoRow

\* The rows of two sets of speedboat files.
LEMMA SpeedboatRows ==
  ASSUME NEW A \in SUBSET Files, NEW B \in SUBSET Files,
         \A f \in A \cup B : f[1] = "speedboat"
  PROVE  RowsIn(A \ B) = RowsIn(A) \ RowsIn(B)
<1>1. \A f \in A, g \in B : f[2] = g[2] => f = g
  BY DEF Files
<1> QED
  BY <1>1, ZenonT(30) DEF RowsIn

\* A commit moves the live rows of the work item from its speedboat files to the
\* snapshot.
LEMMA RowsCommit ==
  ASSUME IndexInv, FileInv, IdsAreUnique, SnapshotsAreSound, WorkIsCurrent,
         EnginesAreOrdered, [Next]_vars,
         NEW p \in 0 .. N, RowsAt(p), EnginesAt(p), NEW w \in Engines, Commits(w)
  PROVE  RowsAt(p + 1)'
<1> DEFINE item == meta.compaction
           seen == compactor[w].snapshot
<1>1. N \in Nat /\ p \in Nat /\ seen = p + 1 /\ p + 1 \in 1 .. N
  BY EngineTypes, CommitAdvances
<1>2. do_iceberg_commit(w) /\ compactor[w].phase = "loaded" /\ Ordered(w)
  BY ZenonT(30) DEF Commits, do_iceberg_commit, AtPhase, EnginesAreOrdered
<1>3. /\ item # NoCompaction /\ item.id = snapshots[seen].compaction
      /\ Ids(Reported(w)) = {item.id} /\ Noted(meta, Ids(Reported(w))) # {}
  BY <1>2, CommitReports, ZenonT(30) DEF Commits
<1>4. IsItem(item) /\ SoundItem(item) /\ item.speedboat \subseteq Newest.speedboat
  BY <1>3, ZenonT(30) DEF IsItem, FileInv, WorkIsCurrent
<1>5. Noted(meta, Ids(Reported(w))) = {item}
  BY <1>3, <1>4, ZenonT(30) DEF Noted, IdsAreUnique, IsItem
<1>6. /\ Newest'.iceberg = {IcebergFile(i) : i \in 1 .. (p + 1)}
      /\ Newest'.speedboat = Newest.speedboat \ item.speedboat
  <2>1. /\ Newest'.iceberg = SeenFiles(w)
        /\ Newest'.speedboat =
             Newest.speedboat \ UNION {note.speedboat : note \in Noted(meta, Ids(Reported(w)))}
    BY Zenon DEF Commits, IcebergCommitted, Newest
  <2>2. Newest'.speedboat = Newest.speedboat \ item.speedboat
    BY <1>5, <2>1, ZenonT(30)
  <2> QED
    BY <1>1, <2>1, <2>2, Zenon DEF SeenFiles
<1>7. UNCHANGED snapshots /\ UNCHANGED live
  BY <1>2, EnginesCommit, Zenon DEF do_iceberg_commit
<1>8. snapshots[p + 1].rows = CompactedRows(item)
  BY <1>1, <1>3, <1>4, Zenon DEF SnapshotsAreSound, SoundSnapshot
<1>9. RowsIn(Newest'.speedboat) = RowsIn(Newest.speedboat) \ RowsIn(item.speedboat)
  <2>1. Newest.speedboat \in SUBSET Files /\ \A f \in Newest.speedboat : f[1] = "speedboat"
    <3>1. MetaInv(meta)
      BY Zenon DEF IndexInv
    <3> QED
      BY <3>1, LatestType, Zenon DEF Newest, TableMetadataCheckpoint, FileInv, NewestIsSound, Writes
  <2> QED
    BY <1>4, <1>6, <2>1, SpeedboatRows, SMTT(30)
<1>10. RowsIn(item.speedboat) \subseteq RowsIn(Newest.speedboat)
  BY <1>4, Zenon DEF RowsIn
<1>11. CompactedRows(item) \subseteq RowsIn(item.speedboat)
  BY Zenon DEF CompactedRows
<1>12. \A row \in live : row \in RowsIn(item.speedboat) => row \in CompactedRows(item)
  BY <1>4, Zenon DEF SoundItem, Hides, CompactedRows, RowsIn
<1> DEFINE k == p + 1
<1>13. \A i \in 1 .. k : i \in 1 .. p \/ i = k
  BY <1>1
<1>14. \A i \in 1 .. p : i \in 1 .. k /\ i # k
  BY <1>1
<1>15. k \in 1 .. k
  BY <1>1
<1> HIDE DEF k
<1>16. \A i \in 1 .. p : snapshots[i].rows \cap snapshots[k].rows = {}
  BY <1>8, <1>10, <1>11 DEF RowsAt, k
<1>17. \A i, j \in 1 .. k : i # j => snapshots[i].rows \cap snapshots[j].rows = {}
  BY <1>13, <1>16, ZenonT(30) DEF RowsAt
<1>18. \A i \in 1 .. k : snapshots[i].rows \cap RowsIn(Newest'.speedboat) = {}
  BY <1>8, <1>9, <1>11, <1>13, SMTT(30) DEF RowsAt, k
<1>19. \A row \in live : \/ row \in RowsIn(Newest'.speedboat)
                         \/ \E i \in 1 .. k : row \in snapshots[i].rows
  BY <1>8, <1>9, <1>12, <1>14, <1>15, ZenonT(30) DEF RowsAt, k
<1> QED
  BY <1>6, <1>7, <1>17, <1>18, <1>19, ZenonT(30) DEF RowsAt, k

\* RowInv holds of a table without rows.
LEMMA RowInvInit == Init => RowInv
<1> SUFFICES ASSUME Init PROVE RowInv
  OBVIOUS
<1>1. snapshots = <<>> /\ N = 0 /\ live = {}
  BY Zenon DEF Init, N
<1>2. \A w \in Engines : compactor[w].phase = "idle" /\ compactor[w].last = 0
  BY Zenon DEF Init, IdleCompactor
<1>3. \A item : ~IsItem(item)
  <2>1. meta.compaction = NoCompaction /\ meta.notes = {} /\ meta.cleanup = {}
    BY Zenon DEF Init, NewMetadata
  <2>2. \A w \in Engines : cleaner[w] = {}
    BY Zenon DEF Init
  <2> QED
    BY <1>2, <2>1, <2>2, Zenon DEF IsItem, IsClaimed, IsCleaned
<1>4. IdsAreUnique /\ SnapshotsAreSound
  BY <1>1, <1>3 DEF IdsAreUnique, SnapshotsAreSound
<1>5. WorkIsCurrent
  BY <1>3, Zenon DEF WorkIsCurrent, IsItem
<1>6. EnginesAreOrdered
  BY <1>1, <1>2 DEF EnginesAreOrdered, Ordered, Spaced, Late
<1>7. RowsAt(0)
  <2>1. Newest.iceberg = {}
    BY Zenon DEF Init, NewMetadata, Newest, latest_checkpoint, EmptyCheckpoint
  <2>2. 1 .. 0 = {}
    OBVIOUS
  <2> QED
    BY <1>1, <2>1, <2>2, Zenon DEF RowsAt
<1>8. EnginesAt(0)
  BY <1>2 DEF EnginesAt
<1> QED
  BY <1>1, <1>4, <1>5, <1>6, <1>7, <1>8 DEF RowInv

\* Every step keeps RowInv; the steps that matter append a snapshot
\* (update_iceberg), load the snapshots or commit one (do_iceberg_commit).
LEMMA RowInvStep ==
  ASSUME IndexInv, FileInv, RowInv, [Next]_vars
  PROVE  RowInv'
<1>1. /\ IdsAreUnique /\ SnapshotsAreSound /\ WorkIsCurrent /\ EnginesAreOrdered
      /\ N \in Nat /\ live \subseteq 1 .. rows
  BY EngineTypes, Zenon DEF RowInv, FileInv, NewestIsSound
<1>2. IdsAreUnique' /\ SnapshotsAreSound' /\ WorkIsCurrent'
  BY <1>1, IdsStayUnique, SnapshotsStep, WorkStaysCurrent, ZenonT(30)
<1>3. PICK p \in 0 .. N : RowsAt(p) /\ (Answers => EnginesAt(p))
  BY Zenon DEF RowInv
<1>4. Answers' => Answers
  BY AnswersMoves, Zenon
<1>5. ASSUME NEW w \in Engines, Commits(w)
      PROVE  RowInv'
  <2>1. Answers /\ do_iceberg_commit(w)
    BY <1>5, Zenon DEF Commits, do_iceberg_commit
  <2>2. p + 1 \in 1 .. N /\ EnginesAt(p + 1)'
    BY <1>1, <1>3, <1>5, <2>1, CommitAdvances, ZenonT(30)
  <2>3. RowsAt(p + 1)'
    BY <1>1, <1>3, <1>5, <2>1, RowsCommit, ZenonT(30)
  <2>4. N' = N /\ EnginesAreOrdered'
    BY <1>1, <2>1, EnginesCommit, ZenonT(30)
  <2>5. p + 1 \in 0 .. N'
    BY <1>1, <2>2, <2>4
  <2> QED
    BY <1>2, <2>2, <2>3, <2>4, <2>5, ZenonT(30) DEF RowInv
<1>6. ASSUME ~\E w \in Engines : Commits(w)
      PROVE  RowInv'
  <2>1. SameTable \/ Ingests
    BY <1>1, <1>6, NextTable, ZenonT(30)
  <2>2. ASSUME EnginesAreOrdered', N' \in Nat, N' >= N, Answers' => EnginesAt(p)',
               \A i \in 1 .. p : snapshots'[i] = snapshots[i]
        PROVE  RowInv'
    <3>1. RowsAt(p)'
      BY <1>1, <1>3, <2>1, <2>2, RowsStay, ZenonT(30)
    <3>2. p \in 0 .. N'
      BY <1>1, <2>2
    <3> QED
      BY <1>2, <2>2, <3>1, <3>2, ZenonT(30) DEF RowInv
  <2>3. CASE UNCHANGED snapshots /\ \A v \in Engines : Retreats(v)
    BY <1>1, <1>3, <1>4, <2>2, <2>3, EnginesRetreat, SMTT(30) DEF N
  <2>4. ASSUME NEW w \in Engines, update_iceberg(w)
        PROVE  RowInv'
    <3>1. \A i \in 1 .. p : i \in 1 .. N
      BY <1>1
    <3>2. N' = N + 1 /\ (\A i \in 1 .. N : snapshots'[i] = snapshots[i])
      BY <1>1, <2>4, EnginesAppend, Zenon
    <3>3. EnginesAreOrdered' /\ (EnginesAt(p) => EnginesAt(p)')
      BY <1>1, <2>4, EnginesAppend, ZenonT(30)
    <3> QED
      BY <1>1, <1>3, <1>4, <2>2, <3>1, <3>2, <3>3, SMTT(30)
  <2>5. ASSUME NEW w \in Engines, load_iceberg_table_metadata(w)
        PROVE  RowInv'
    <3>1. UNCHANGED snapshots /\ EnginesAreOrdered' /\ (EnginesAt(p) => EnginesAt(p)')
      BY <1>1, <2>5, EnginesLoad, ZenonT(30)
    <3> QED
      BY <1>1, <1>3, <1>4, <2>2, <3>1 DEF N
  <2>6. ASSUME NEW w \in Engines, do_iceberg_commit(w)
        PROVE  RowInv'
    <3>1. UNCHANGED snapshots /\ N' = N /\ EnginesAreOrdered'
      BY <1>1, <2>6, EnginesCommit, ZenonT(30)
    <3>2. ~Answers'
      BY <1>6, <2>6, CommitPanics, ZenonT(30)
    <3> QED
      BY <1>1, <2>2, <3>1, <3>2
  <2> QED
    BY <2>3, <2>4, <2>5, <2>6, EngineMoves, ZenonT(30)
<1> QED
  BY <1>5, <1>6, Zenon

\* TableInv is an invariant of the table.
LEMMA TableInvAlways == Spec => []TableInv
<1>1. Init => TableInv
  BY IndexInvInit, FileInvInit, RowInvInit, Zenon DEF TableInv
<1>2. TableInv /\ [Next]_vars => TableInv'
  BY IndexInvStep, FileInvStep, RowInvStep, Zenon DEF TableInv
<1> QED
  BY <1>1, <1>2, PTL DEF Spec

----------------------------------------------------------------------------
(* The theorems. *)

\* handle_compactions and iceberg_commit lose and duplicate no row: whatever is
\* inserted or deleted while compactions run, however often they are claimed and
\* wherever engines stop, a live row is in one file of the committed checkpoint
\* and no delete file names it.
THEOREM RowsAreInOneFile == Spec => []LiveRowsExactlyOnce
<1>1. ASSUME TableInv, NEW row \in live
      PROVE  /\ \E f \in current_file_paths(Newest) : Copies(Newest, row) = {f}
             /\ row \notin RowsIn(Newest.deletes)
  <2>1. IndexInv /\ FileInv /\ RowInv /\ NewestIsSound
    BY <1>1, Zenon DEF TableInv, FileInv
  <2>2. row \notin RowsIn(Newest.deletes)
    BY <1>1, <2>1, Zenon DEF NewestIsSound, Hides, RowsIn
  <2>3. PICK p \in 0 .. N : RowsAt(p)
    BY <2>1, Zenon DEF RowInv
  <2>4. /\ Newest.speedboat \in SUBSET Files
        /\ \A f \in Newest.speedboat : f[1] = "speedboat"
    <3>1. MetaInv(meta)
      BY <2>1, Zenon DEF IndexInv
    <3> QED
      BY <2>1, <3>1, LatestType, Zenon DEF Newest, TableMetadataCheckpoint, NewestIsSound, Writes
  <2>5. \A f \in Newest.speedboat : RowsOf(f) = {f[2]} /\ f = SpeedboatFile(f[2])
    BY <2>4 DEF RowsOf, Files, SpeedboatFile
  <2>6. \A i \in 1 .. p : /\ RowsOf(IcebergFile(i)) = snapshots[i].rows
    BY Zenon DEF RowsOf, IcebergFile
  <2>7. Newest.iceberg = {IcebergFile(i) : i \in 1 .. p}
    BY <2>3, Zenon DEF RowsAt
  <2>8. \E f \in current_file_paths(Newest) : Copies(Newest, row) = {f}
    <3>1. CASE row \in RowsIn(Newest.speedboat)
      <4>1. PICK f \in Newest.speedboat : f[2] = row
        BY <3>1, Zenon DEF RowsIn
      <4>2. \A g \in Newest.speedboat : row \in RowsOf(g) => g = f
        BY <2>5, <4>1, ZenonT(30)
      <4>3. \A g \in Newest.iceberg : row \notin RowsOf(g)
        BY <2>3, <2>6, <2>7, <3>1 DEF RowsAt
      <4>4. Copies(Newest, row) = {f}
        BY <2>5, <4>1, <4>2, <4>3, ZenonT(30) DEF Copies, current_file_paths
      <4> QED
        BY <4>1, <4>4, Zenon DEF current_file_paths
    <3>2. CASE row \notin RowsIn(Newest.speedboat)
      <4>1. PICK i \in 1 .. p : row \in snapshots[i].rows
        BY <2>3, <3>2, <1>1, ZenonT(30) DEF RowsAt
      <4>2. \A g \in Newest.speedboat : row \notin RowsOf(g)
        BY <2>5, <3>2, Zenon DEF RowsIn
      <4>3. \A j \in 1 .. p : row \in snapshots[j].rows => j = i
        BY <2>3, <4>1, Zenon DEF RowsAt
      <4>4. \A g \in Newest.iceberg : row \in RowsOf(g) <=> g = IcebergFile(i)
        BY <2>6, <2>7, <4>1, <4>3, ZenonT(30)
      <4>5. Copies(Newest, row) = {IcebergFile(i)}
        BY <2>7, <4>2, <4>4, ZenonT(30) DEF Copies, current_file_paths
      <4> QED
        BY <2>7, <4>5, Zenon DEF current_file_paths
    <3> QED
      BY <3>1, <3>2, Zenon
  <2> QED
    BY <2>2, <2>8, Zenon
<1>2. TableInv => LiveRowsExactlyOnce
  BY <1>1, Zenon DEF LiveRowsExactlyOnce, Newest
<1> QED
  BY <1>2, TableInvAlways, PTL

----------------------------------------------------------------------------
(* One engine that does not fail.  The table's work item is its own while   *)
(* it works on it, and the snapshots it has not reported are the one it     *)
(* appended for that item.                                                  *)

SoloInv(e) ==
  /\ meta.panicked # "iceberg_commit"
  /\ compactor[e].phase # "idle" =>
       meta.compaction = compactor[e].item /\ meta.compaction # NoCompaction
  /\ compactor[e].phase \in {"noted", "appended", "loaded"} => meta.compaction \in meta.notes
  /\ compactor[e].phase \notin {"appended", "loaded"} => N = compactor[e].last
  /\ compactor[e].phase \in {"appended", "loaded"} =>
       N = compactor[e].last + 1 /\ snapshots[N].compaction = meta.compaction.id
  /\ compactor[e].phase = "loaded" => compactor[e].snapshot = N

\* A step that keeps the engine's loop, the snapshots and the table's work item.
LEMMA SoloStays ==
  ASSUME NEW e, SoloInv(e), meta'.panicked \in {meta.panicked, "extension_commit"},
         compactor' = compactor, snapshots' = snapshots, meta'.notes = meta.notes,
         \/ meta'.compaction = meta.compaction
         \/ meta.compaction = NoCompaction
  PROVE  SoloInv(e)'
<1>1. N' = N
  BY Zenon DEF N
<1> QED
  BY <1>1, Zenon DEF SoloInv

\* With one engine that does not fail, every step keeps SoloInv.
LEMMA SoloStep ==
  ASSUME NEW e \in Engines, Engines = {e}, MaxFaults = 0, TableInv, SoloInv(e), [Next]_vars
  PROVE  SoloInv(e)'
<1>1. /\ IndexInv /\ FileInv /\ RowInv /\ live \subseteq 1 .. rows
      /\ meta \in Metadata /\ N \in Nat /\ compactor \in [Engines -> Compactors]
      /\ compactor[e].last \in Nat /\ compactor[e].snapshot \in Nat
  BY EngineTypes, Zenon DEF TableInv, FileInv, NewestIsSound, IndexInv, TypeOK
<1>2. ASSUME NEW w \in Engines
      PROVE  ~WorkFails(w) /\ ~Restart(w)
  BY <1>1, SMTT(30) DEF WorkFails, Restart, IndexInv, TypeOK
<1>3. CASE Ingest
  BY <1>1, <1>3, IngestTable, SoloStays, ZenonT(30) DEF Ingests, InsertsRow, InsertsNoRow, storage, workers
<1>4. CASE IndexStep(e)
  <2>1. UNCHANGED <<compactor, snapshots>>
    BY <1>4, SMTT(30) DEF IndexStep, ClaimExtensionWork, create_index_inner_with_doc_id,
         IndexInputMissing, create_index, storage
  <2> QED
    BY <1>1, <1>4, <2>1, IndexTable, SoloStays, ZenonT(30) DEF SameTable
<1>5. CASE CleanupStep(e) \/ LeaseExpires \/ (\E x \in Selectors : Publish(x)) \/ UNCHANGED vars
  <2>1. UNCHANGED <<compactor, snapshots>>
    BY <1>5, Zenon DEF CleanupStep, ClaimCleanupWork, perform_cleanup_work, CommitCleanup,
         LeaseExpires, Publish, vars, storage, workers
  <2> QED
    BY <1>1, <1>5, <2>1, OtherTable, SoloStays, ZenonT(30) DEF SameTable
<1>6. CASE ClaimCompactionWork(e)
  <2>1. /\ compactor'[e].phase = "claimed" /\ compactor'[e].item = meta.compaction
        /\ compactor'[e].last = compactor[e].last
    BY <1>1, <1>6, ZenonT(30) DEF ClaimCompactionWork, Compactors
  <2>2. /\ meta'.compaction = meta.compaction /\ meta'.panicked = meta.panicked
        /\ meta.compaction # NoCompaction /\ N' = N /\ compactor[e].phase = "idle"
    BY <1>1, <1>6, ZenonT(30) DEF ClaimCompactionWork, get_compaction_work_items, Metadata, storage, N, AtPhase
  <2> QED
    BY <2>1, <2>2, Zenon DEF SoloInv
<1>7. CASE NoteCompaction(e)
  <2>1. /\ compactor'[e].phase = "noted" /\ compactor'[e].item = compactor[e].item
        /\ compactor'[e].last = compactor[e].last
    BY <1>1, <1>7, Zenon DEF NoteCompaction, Compactors
  <2>2. /\ meta'.compaction = meta.compaction /\ meta'.panicked = meta.panicked
        /\ compactor[e].item \in meta'.notes /\ N' = N /\ compactor[e].phase = "claimed"
    BY <1>1, <1>7, ZenonT(30) DEF NoteCompaction, compaction_commit, Metadata, storage, N, AtPhase
  <2> QED
    BY <2>1, <2>2, Zenon DEF SoloInv
<1>8. CASE update_iceberg(e)
  <2>1. /\ compactor'[e].phase = "appended" /\ compactor'[e].item = compactor[e].item
        /\ compactor'[e].last = compactor[e].last /\ compactor[e].phase = "noted"
        /\ meta' = meta
    <3>1. compactor'[e] = [compactor[e] EXCEPT !.phase = "appended"]
      BY <1>1, <1>8, ZenonT(30) DEF update_iceberg
    <3>2. compactor[e].phase = "noted" /\ meta' = meta
      BY <1>8, ZenonT(30) DEF update_iceberg, AtPhase
    <3> QED
      BY <1>1, <3>1, <3>2, ZenonT(30) DEF Compactors
  <2>2. N' = N + 1 /\ snapshots'[N + 1].compaction = compactor[e].item.id
    <3>1. EnginesAreOrdered
      BY <1>1, Zenon DEF RowInv
    <3>2. /\ N' = N + 1
          /\ snapshots'[N + 1] = [compaction |-> compactor[e].item.id,
                                  rows |-> CompactedRows(compactor[e].item)]
      BY <1>1, <1>8, <3>1, EnginesAppend, ZenonT(30)
    <3> QED
      BY <3>2
  <2> QED
    BY <2>1, <2>2, ZenonT(30) DEF SoloInv
<1>9. CASE CompactionInputMissing(e)
  <2>1. /\ compactor'[e].phase = "idle" /\ compactor'[e].last = compactor[e].last
        /\ compactor[e].phase = "noted" /\ meta' = meta /\ N' = N
    BY <1>1, <1>9, ZenonT(30) DEF CompactionInputMissing, IdleCompactor, AtPhase, storage, N
  <2> QED
    BY <2>1, ZenonT(30) DEF SoloInv
<1>10. CASE load_iceberg_table_metadata(e)
  <2>1. /\ compactor'[e].phase = "loaded" /\ compactor'[e].item = compactor[e].item
        /\ compactor'[e].last = compactor[e].last /\ compactor'[e].snapshot = N
        /\ compactor[e].phase = "appended" /\ meta' = meta
    BY <1>1, <1>10, ZenonT(30) DEF load_iceberg_table_metadata, Compactors, AtPhase, N
  <2>2. N' = N /\ snapshots' = snapshots
    BY <1>10, ZenonT(30) DEF load_iceberg_table_metadata, storage, N
  <2> QED
    BY <2>1, <2>2, ZenonT(30) DEF SoloInv
<1>11. CASE do_iceberg_commit(e)
  <2>1. /\ compactor'[e].phase = "idle" /\ compactor'[e].last = compactor[e].snapshot
        /\ compactor[e].phase = "loaded" /\ N' = N
    BY <1>1, <1>11, EnginesCommit, ZenonT(30) DEF RowInv, do_iceberg_commit, AtPhase
  <2>2. CompactionsMatchWorkItem(meta, Reported(e))
    <3> DEFINE report == Reported(e)
    <3>1. compactor[e].snapshot - compactor[e].last = 1 /\ compactor[e].snapshot + 1 - 1 = N
      <4>1. compactor[e].snapshot = N /\ N = compactor[e].last + 1
        BY <2>1, ZenonT(30) DEF SoloInv
      <4>2. N \in Nat /\ compactor[e].last \in Nat
        BY <1>1, ZenonT(30)
      <4> HIDE DEF N
      <4> QED
        BY <4>1, <4>2
    <3>2. report = [i \in 1 .. 1 |-> snapshots[compactor[e].snapshot + 1 - i].compaction]
      BY <3>1, ZenonT(30) DEF Reported, collect_iceberg_compactions
    <3>3. Len(report) = 1
      BY <3>2
    <3>4. report[1] = snapshots[N].compaction
      BY <3>1, <3>2
    <3> HIDE DEF report
    <3>5. meta.compaction \in Noted(meta, {report[1]})
      BY <2>1, <3>4, ZenonT(30) DEF SoloInv, Noted
    <3>6. meta.compaction # NoCompaction /\ meta.compaction.id = report[1]
      BY <2>1, <3>4, ZenonT(30) DEF SoloInv
    <3> QED
      BY <3>3, <3>5, <3>6, ZenonT(30) DEF CompactionsMatchWorkItem, report
  <2>3. meta'.panicked = meta.panicked
    <3>1. SeenFiles(e) \in SUBSET Files
      BY <1>1 DEF SeenFiles, IcebergFile, Files
    <3>2. meta' = iceberg_commit(meta, SeenFiles(e), Reported(e))
      BY <1>11, Zenon DEF do_iceberg_commit, SeenFiles, Reported
    <3> QED
      <4>1. MetaInv(meta)
        BY <1>1, ZenonT(30) DEF IndexInv
      <4>2. IcebergCommitted(meta, meta', SeenFiles(e), Ids(Reported(e)))
        BY <2>2, <3>1, <3>2, <4>1, IcebergCommitFacts, ZenonT(30)
      <4> QED
        BY <4>2, Zenon DEF IcebergCommitted
  <2> QED
    BY <2>1, <2>3, ZenonT(30) DEF SoloInv
<1> QED
  BY <1>2, <1>3, <1>4, <1>5, <1>6, <1>7, <1>8, <1>9, <1>10, <1>11, ZenonT(30) DEF Next, CompactionStep

\* With one engine that neither fails nor restarts, every lookup and assertion
\* of iceberg_commit holds, whatever leases expire: each compaction is reported
\* once, for the work item it was claimed for.
THEOREM OneEngineAppliesOnce ==
  ASSUME NEW e, Engines = {e}, MaxFaults = 0
  PROVE  Spec => []CompactionsAppliedOnce
<1>1. Init => SoloInv(e)
  <2> SUFFICES ASSUME Init PROVE SoloInv(e)
    OBVIOUS
  <2>1. compactor[e].phase = "idle" /\ compactor[e].last = 0
    BY ZenonT(30) DEF Init, IdleCompactor
  <2>2. meta.panicked = "no" /\ N = 0
    BY ZenonT(30) DEF Init, NewMetadata, N
  <2> QED
    BY <2>1, <2>2, ZenonT(30) DEF SoloInv
<1>2. TableInv /\ SoloInv(e) /\ [Next]_vars => SoloInv(e)'
  BY SoloStep, ZenonT(30)
<1>3. SoloInv(e) => CompactionsAppliedOnce
  BY Zenon DEF SoloInv, CompactionsAppliedOnce
<1> QED
  BY <1>1, <1>2, <1>3, TableInvAlways, PTL DEF Spec

=============================================================================
