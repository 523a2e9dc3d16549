---------------------------- MODULE CommitProofs ----------------------------
(***************************************************************************)
(* Commits on the DynamoDB backend lose nothing, for any number of         *)
(* processes, files, versions and faults, in the control plane and inside  *)
(* the serving nodes.                                                      *)
(*                                                                         *)
(* A handler reads some items, computes, and writes them in one            *)
(* transaction that is conditioned on the versions it read. CommitInv      *)
(* therefore has two halves: what every transaction keeps of the items     *)
(* (SoundDb), and what a handler between its reads and its transaction     *)
(* knows (SoundCall): each item it read is as it was, or has a newer       *)
(* version and the transaction fails. Lemmas about the items alone         *)
(* (QuietKeeps to FinishKeeps) come first, then one lemma per handler.     *)
(***************************************************************************)
EXTENDS EmbeddedDynamo, WellFoundedInduction, TLAPS

\* The versioned items a transaction may be conditioned on.
Keys == {"checkpoint", "search", "extension", "compaction", "request"}
DataFiles == {"parquet"} \X Nat
IndexFiles == SpeedboatFiles \cup DataFiles
CommitFiles == SpeedboatFiles \cup DeleteFiles

\* Checkpoints, compaction items and extension leases.
CheckpointSet ==
  [iceberg : SUBSET DataFiles, speedboat : SUBSET SpeedboatFiles, deletes : SUBSET DeleteFiles,
   origin : Nat]
ItemSet ==
  [id : Nat, speedboat : SUBSET SpeedboatFiles, deletes : SUBSET DeleteFiles, replaced : SUBSET Nat]
LeaseSet == [id : Nat, files : SUBSET IndexFiles]

\* What a versioned item may name: a checkpoint, queued index work,
\* compaction work, or whether a publication was requested.
QueuedIds == SUBSET SUBSET IndexFiles
ItemIds == SUBSET ItemSet
Ids == (Nat \cup (QueuedIds \cup ItemIds)) \cup BOOLEAN
EntrySet == [version : Nat, id : Ids]

\* The items of the table.
DbSet ==
  [checkpoints : Seq(CheckpointSet), deleted : SUBSET Nat, latest : [Keys -> EntrySet],
   active : [Selectors -> Nat], committed : SUBSET CommitFiles, uncheckpointed : SUBSET CommitFiles,
   waiting : SUBSET Nat, extensionLeases : SUBSET LeaseSet, indexed : SUBSET SUBSET IndexFiles,
   notes : SUBSET ItemSet, applied : SUBSET Nat, cleanup : SUBSET ItemSet,
   cleanupClaimed : SUBSET ItemSet]

\* Readings of the items: the checkpoints saved, the two frontiers, the
\* files compacted away, the commits past the first checkpoint, and the
\* three places index work can be in.
Saved(d) == 1 .. Len(d.checkpoints)
Newest(d) == d.checkpoints[d.latest.checkpoint.id]
Searched(d) == d.checkpoints[d.latest.search.id]
Away(d) == UNION {item.speedboat \cup item.deletes : item \in d.cleanup \cup d.cleanupClaimed}
InCheckpoint(c) == c.speedboat \cup c.deletes
Settled(d) == d.committed \ d.uncheckpointed
Indexed(d) == UNION d.indexed
Queued(d) == UNION d.latest.extension.id
Leased(d) == UNION {item.files : item \in d.extensionLeases}

\* A compaction item names checkpoints that were saved and files that have
\* left uncheckpointed for good.
SoundItem(item, d) ==
  /\ item \in ItemSet
  /\ item.id \in Saved(d) /\ item.replaced \subseteq Saved(d)
  /\ item.speedboat \cup item.deletes \subseteq Settled(d)

\* The latest items name what exists.
Frontiers(d) ==
  /\ d.latest.checkpoint.id \in Saved(d) /\ d.latest.search.id \in Saved(d)
  /\ d.latest.extension.id \in SUBSET SUBSET IndexFiles
  /\ d.latest.request.id \in BOOLEAN
  /\ \A item \in d.latest.compaction.id : SoundItem(item, d)

\* Every commit is in one place.
Placed(d) ==
  /\ d.committed = d.uncheckpointed \cup InCheckpoint(Newest(d)) \cup Away(d)
  /\ d.uncheckpointed \cap (InCheckpoint(Newest(d)) \cup Away(d)) = {}

\* Index work is done, queued or leased.
IndexKept(d) ==
  (d.committed \cap SpeedboatFiles) \cup Newest(d).iceberg \subseteq Indexed(d) \cup Queued(d) \cup Leased(d)

\* The search frontier is indexed.
SearchIndexed(d) == current_file_paths(Searched(d)) \subseteq Indexed(d)

\* What every transaction keeps of the items.
SoundDb(d, files) ==
  /\ \A i \in Saved(d) : d.checkpoints[i].iceberg \subseteq files /\ d.checkpoints[i].origin < i
  /\ d.waiting \cup d.deleted \subseteq Saved(d)
  /\ d.waiting \cap d.deleted = {}
  /\ \A item \in d.notes : DataFile(item) \in files
  /\ Frontiers(d) /\ Placed(d) /\ IndexKept(d) /\ SearchIndexed(d)

\* What a handler read of an item is still so, or the item has a newer
\* version, and then the transaction of the handler fails.
Remembered(seen, key, d) ==
  /\ key \in DOMAIN seen
  /\ seen[key].version \in Nat /\ seen[key].version <= d.latest[key].version
  /\ seen[key].version = d.latest[key].version => seen[key] = d.latest[key]

\* What a handler holds between its reads and its transaction: items as it
\* read them, and work that cannot have been undone since.
SoundCall(k, d, files) ==
  /\ k.step \in {"speedboat", "claim_extension", "iceberg"} => Remembered(k.seen, "extension", d)
  /\ k.step \in {"iceberg", "checkpoint"} => Remembered(k.seen, "checkpoint", d)
  /\ k.step = "claim_compaction" => Remembered(k.seen, "compaction", d)
  /\ k.step = "iceberg" =>
       /\ k.arg \subseteq files
       /\ \E item : k.todo = {item} /\ SoundItem(item, d) /\ DataFile(item) \in files
  /\ k.step = "claim_cleanup" => k.todo \subseteq d.cleanup \cup d.cleanupClaimed
  /\ k.step \in {"standard", "checkpoint"} => k.todo \subseteq Saved(d)
  /\ k.step \in {"waiting", "search", "mark"} =>
       k.todo # {} /\ k.todo \subseteq Saved(d) /\ k.arg \subseteq Indexed(d)
  /\ k.step = "search" => current_file_paths(d.checkpoints[Oldest(k.todo)]) \subseteq k.arg

\* Handlers between the reads and the transaction of a commit hold different
\* files, none of them committed.
Committing == {s \in Services : call[s].step = "speedboat"}

SoundCommits ==
  /\ \A s \in Committing : \E file \in CommitFiles \ db.committed : call[s].arg = {file}
  /\ \A s, t \in Committing : s # t => call[s].arg # call[t].arg

CallFields == {"step", "seen", "arg", "todo", "request", "high"}

\* The variables are in their domains.
CommitTyped ==
  /\ db \in DbSet
  /\ lake \in SUBSET DataFiles
  /\ DOMAIN call = Services /\ \A s \in Services : DOMAIN call[s] = CallFields
  /\ hints \in [Services -> [pending : BOOLEAN, uncompacted : SUBSET Nat]]
  /\ indexing \in SUBSET LeaseSet

\* The inductive invariant. CommittedWorkIsTracked alone is not: a
\* transaction writes what its handler computed from earlier reads, so the
\* invariant says of every handler, process and worker how what it remembers
\* relates to the items now.
CommitInv ==
  /\ CommitTyped
  /\ SoundDb(db, lake)
  /\ \A s \in Services : SoundCall(call[s], db, lake)
  /\ \A s \in Services : hints[s].uncompacted \subseteq Saved(db)
  /\ \A item \in compacting : SoundItem(item, db)
  /\ cleaning \subseteq db.cleanupClaimed
  /\ SoundCommits

----------------------------------------------------------------------------
(* Items and versions. *)

\* Only the versioned items differ.
OtherItems(d, e) ==
  /\ e.checkpoints = d.checkpoints /\ e.deleted = d.deleted /\ e.active = d.active
  /\ e.committed = d.committed /\ e.uncheckpointed = d.uncheckpointed /\ e.waiting = d.waiting
  /\ e.extensionLeases = d.extensionLeases /\ e.indexed = d.indexed /\ e.notes = d.notes
  /\ e.applied = d.applied /\ e.cleanup = d.cleanup /\ e.cleanupClaimed = d.cleanupClaimed

\* What no transaction undoes: saved checkpoints, versions, commits that
\* were checkpointed, finished index work and cleanup items.
Grows(d, e) ==
  /\ Saved(d) \subseteq Saved(e) /\ \A i \in Saved(d) : e.checkpoints[i] = d.checkpoints[i]
  /\ \A k \in Keys :
       /\ d.latest[k].version <= e.latest[k].version
       /\ e.latest[k].version = d.latest[k].version => e.latest[k] = d.latest[k]
  /\ Settled(d) \subseteq Settled(e)
  /\ Indexed(d) \subseteq Indexed(e)
  /\ d.cleanup \cup d.cleanupClaimed \subseteq e.cleanup \cup e.cleanupClaimed

\* The items are in their domains.
LEMMA DbTypes ==
  ASSUME NEW d \in DbSet
  PROVE  /\ d.checkpoints \in Seq(CheckpointSet) /\ Len(d.checkpoints) \in Nat
         /\ DOMAIN d.checkpoints = Saved(d)
         /\ \A i \in Saved(d) : d.checkpoints[i] \in CheckpointSet
         /\ \A k \in Keys : d.latest[k] \in EntrySet /\ d.latest[k].version \in Nat
         /\ d.cleanup \in SUBSET ItemSet /\ d.cleanupClaimed \in SUBSET ItemSet
         /\ d.committed \in SUBSET CommitFiles /\ d.uncheckpointed \in SUBSET CommitFiles
         /\ d.waiting \in SUBSET Nat /\ d.deleted \in SUBSET Nat
         /\ d.indexed \in SUBSET SUBSET IndexFiles /\ d.extensionLeases \in SUBSET LeaseSet
         /\ d.notes \in SUBSET ItemSet /\ d.applied \in SUBSET Nat /\ d.active \in [Selectors -> Nat]
         /\ d.latest \in [Keys -> EntrySet]
<1>1. d.checkpoints \in Seq(CheckpointSet) /\ d.latest \in [Keys -> EntrySet]
  BY Zenon DEF DbSet
<1>2. /\ Len(d.checkpoints) \in Nat /\ DOMAIN d.checkpoints = Saved(d)
      /\ \A i \in Saved(d) : d.checkpoints[i] \in CheckpointSet
  BY <1>1 DEF Saved
<1>3. \A k \in Keys : d.latest[k] \in EntrySet /\ d.latest[k].version \in Nat
  BY <1>1, Zenon DEF EntrySet
<1> QED
  BY <1>1, <1>2, <1>3, Zenon DEF DbSet

\* bump_version replaces one versioned item, by its next version.
LEMMA BumpFacts ==
  ASSUME NEW d \in DbSet, NEW key \in Keys, NEW id \in Ids
  PROVE  LET e == bump_version(d, key, id)
         IN /\ e \in DbSet /\ OtherItems(d, e)
            /\ e.latest[key] = [version |-> d.latest[key].version + 1, id |-> id]
            /\ \A k \in Keys \ {key} : e.latest[k] = d.latest[k]
<1> DEFINE entry == [version |-> d.latest[key].version + 1, id |-> id]
           l == [d.latest EXCEPT ![key] = entry]
           e == bump_version(d, key, id)
<1>1. d.latest \in [Keys -> EntrySet] /\ d.latest[key].version \in Nat
  BY DbTypes, Zenon
<1>2. entry \in EntrySet
  BY <1>1 DEF EntrySet
<1> HIDE DEF entry
<1>3. l \in [Keys -> EntrySet] /\ l[key] = entry /\ \A k \in Keys \ {key} : l[k] = d.latest[k]
  BY <1>1, <1>2, Zenon
<1>4. e = [d EXCEPT !.latest = l]
  BY Zenon DEF bump_version, entry
<1> HIDE DEF l, e
<1>5. e \in DbSet /\ e.latest = l /\ OtherItems(d, e)
  BY <1>3, <1>4, ZenonT(30) DEF DbSet, OtherItems
<1> QED
  BY <1>3, <1>5, Zenon DEF e, entry

\* The oldest of some checkpoints is one of them.
LEMMA OldestFacts ==
  ASSUME NEW n \in Nat, NEW S \in SUBSET (1 .. n), S # {}
  PROVE  Oldest(S) \in S
<1> DEFINE R == OpToRel(<, Nat)
<1>1. IsWellFoundedOn(R, Nat)
  BY NatLessThanWellFounded, ZenonT(30)
<1>2. \A x, y \in Nat : <<y, x>> \notin R => x <= y
  BY DEF OpToRel
<1> HIDE DEF R
<1>3. S \subseteq Nat
  OBVIOUS
<1>4. \E x \in S : \A y \in S : ~(<<y, x>> \in R)
  BY <1>1, <1>3, WFMin, ZenonT(30)
<1>5. \E x \in S : \A y \in S : x <= y
  BY <1>2, <1>3, <1>4, ZenonT(30)
<1> QED
  BY <1>5, ZenonT(30) DEF Oldest

\* A compaction item stays sound as the items grow.
LEMMA GrownItem ==
  ASSUME NEW d, NEW e, Grows(d, e), NEW item, SoundItem(item, d)
  PROVE  SoundItem(item, e)
  BY Zenon DEF Grows, SoundItem

\* What was read of an item is still so or outdated by its version.
LEMMA GrownMemory ==
  ASSUME NEW d \in DbSet, NEW e \in DbSet, Grows(d, e), NEW seen, NEW key \in Keys,
         Remembered(seen, key, d)
  PROVE  Remembered(seen, key, e)
<1>1. d.latest[key].version \in Nat /\ e.latest[key].version \in Nat
  BY DbTypes, Zenon
<1>2. d.latest[key].version <= e.latest[key].version
      /\ (e.latest[key].version = d.latest[key].version => e.latest[key] = d.latest[key])
  BY Zenon DEF Grows
<1> QED
  BY <1>1, <1>2 DEF Remembered

\* What a handler holds survives the transactions of the others.
LEMMA GrownCall ==
  ASSUME NEW d \in DbSet, NEW e \in DbSet, Grows(d, e), NEW l, NEW m, l \subseteq m,
         NEW k, SoundCall(k, d, l)
  PROVE  SoundCall(k, e, m)
<1>1. \A key \in Keys : Remembered(k.seen, key, d) => Remembered(k.seen, key, e)
  BY GrownMemory, Zenon
<1>2. {"extension", "checkpoint", "compaction"} \subseteq Keys
  BY Zenon DEF Keys
<1>3. /\ k.step \in {"speedboat", "claim_extension", "iceberg"} => Remembered(k.seen, "extension", e)
      /\ k.step \in {"iceberg", "checkpoint"} => Remembered(k.seen, "checkpoint", e)
      /\ k.step = "claim_compaction" => Remembered(k.seen, "compaction", e)
  BY <1>1, <1>2, Zenon DEF SoundCall
<1>4. k.step = "iceberg" =>
        /\ k.arg \subseteq m
        /\ \E item : k.todo = {item} /\ SoundItem(item, e) /\ DataFile(item) \in m
  BY GrownItem, Zenon DEF SoundCall
<1>5. /\ Saved(d) \subseteq Saved(e) /\ \A i \in Saved(d) : e.checkpoints[i] = d.checkpoints[i]
      /\ Indexed(d) \subseteq Indexed(e)
      /\ d.cleanup \cup d.cleanupClaimed \subseteq e.cleanup \cup e.cleanupClaimed
  BY Zenon DEF Grows
<1>6. /\ k.step = "claim_cleanup" => k.todo \subseteq e.cleanup \cup e.cleanupClaimed
      /\ k.step \in {"standard", "checkpoint"} => k.todo \subseteq Saved(e)
      /\ k.step \in {"waiting", "search", "mark"} =>
           k.todo # {} /\ k.todo \subseteq Saved(e) /\ k.arg \subseteq Indexed(e)
  BY <1>5, Zenon DEF SoundCall
<1>7. k.step = "search" => current_file_paths(e.checkpoints[Oldest(k.todo)]) \subseteq k.arg
  <2> HAVE k.step = "search"
  <2>1. k.todo # {} /\ k.todo \in SUBSET (1 .. Len(d.checkpoints)) /\ Len(d.checkpoints) \in Nat
    BY DbTypes, Zenon DEF SoundCall, Saved
  <2>2. Oldest(k.todo) \in Saved(d)
    BY <2>1, OldestFacts, ZenonT(30) DEF Saved
  <2> QED
    BY <1>5, <2>2, Zenon DEF SoundCall
<1> QED
  BY <1>3, <1>4, <1>6, <1>7, Zenon DEF SoundCall

\* Steps of a handler that hold nothing over from what it read.
Plain == {"idle", "queue", "request", "extension", "finish", "clear"}

\* A handler at a plain step holds nothing.
LEMMA PlainCall ==
  ASSUME NEW k, k.step \in Plain, NEW d, NEW l
  PROVE  SoundCall(k, d, l)
  BY Zenon DEF Plain, SoundCall

\* The frame of every step: one handler moves, the items grow, and the
\* others keep what they hold.
LEMMA AnyStep ==
  ASSUME CommitInv, NEW s \in Services, NEW c, DOMAIN c = CallFields,
         call' = [call EXCEPT ![s] = c],
         db' \in DbSet, SoundDb(db', lake'), Grows(db, db'),
         lake \subseteq lake', lake' \in SUBSET DataFiles,
         SoundCall(c, db', lake'),
         hints' \in [Services -> [pending : BOOLEAN, uncompacted : SUBSET Nat]],
         \A t \in Services : hints'[t].uncompacted \subseteq Saved(db'),
         indexing' \in SUBSET LeaseSet,
         \A item \in compacting' : SoundItem(item, db'),
         cleaning' \subseteq db'.cleanupClaimed,
         SoundCommits'
  PROVE  CommitInv'
<1>1. db \in DbSet /\ DOMAIN call = Services
  BY Zenon DEF CommitInv, CommitTyped
<1>2. DOMAIN call' = Services /\ call'[s] = c /\ \A t \in Services \ {s} : call'[t] = call[t]
  BY <1>1, Zenon
<1>3. CommitTyped'
  BY <1>1, <1>2, Zenon DEF CommitInv, CommitTyped
<1>4. \A t \in Services : SoundCall(call'[t], db', lake')
  <2> SUFFICES ASSUME NEW t \in Services
               PROVE  SoundCall(call'[t], db', lake')
    OBVIOUS
  <2>1. CASE t = s
    BY <1>2, <2>1, Zenon
  <2>2. CASE t # s
    <3>1. SoundCall(call[t], db, lake)
      BY Zenon DEF CommitInv
    <3>2. SoundCall(call[t], db', lake')
      BY <1>1, <3>1, GrownCall, Zenon
    <3> QED
      BY <1>2, <2>2, <3>2, Zenon
  <2> QED
    BY <2>1, <2>2, Zenon
<1> QED
  BY <1>3, <1>4, Zenon DEF CommitInv

\* A step that starts no commit and commits nothing leaves the commits under
\* way apart.
LEMMA OtherCommits ==
  ASSUME CommitInv, NEW s \in Services, NEW c, c.step # "speedboat",
         call' = [call EXCEPT ![s] = c], db'.committed = db.committed
  PROVE  SoundCommits'
<1>1. DOMAIN call = Services /\ SoundCommits
  BY Zenon DEF CommitInv, CommitTyped
<1>2. call'[s] = c /\ \A t \in Services \ {s} : call'[t] = call[t]
  BY <1>1, Zenon
<1>3. Committing' = Committing \ {s}
  BY <1>2, ZenonT(30) DEF Committing
<1>4. \A t \in Committing' : call'[t] = call[t] /\ t \in Committing
  BY <1>2, <1>3, Zenon DEF Committing
<1> QED
  BY <1>1, <1>4 DEF SoundCommits

\* What processes and workers hold stays sound as the items grow.
LEMMA SameWork ==
  ASSUME CommitInv, db' \in DbSet, Grows(db, db')
  PROVE  /\ hints \in [Services -> [pending : BOOLEAN, uncompacted : SUBSET Nat]]
         /\ \A t \in Services : hints[t].uncompacted \subseteq Saved(db')
         /\ indexing \in SUBSET LeaseSet /\ lake \in SUBSET DataFiles
         /\ \A item \in compacting : SoundItem(item, db')
<1>1. /\ hints \in [Services -> [pending : BOOLEAN, uncompacted : SUBSET Nat]]
      /\ indexing \in SUBSET LeaseSet /\ lake \in SUBSET DataFiles
  BY Zenon DEF CommitInv, CommitTyped
<1>2. \A t \in Services : hints[t].uncompacted \subseteq Saved(db')
  BY Zenon DEF CommitInv, Grows
<1>3. \A item \in compacting : SoundItem(item, db')
  BY GrownItem, Zenon DEF CommitInv
<1> QED
  BY <1>1, <1>2, <1>3, Zenon

\* A transaction of a handler that hands nothing to a worker.
LEMMA TransactionStep ==
  ASSUME CommitInv, NEW s \in Services, NEW c, DOMAIN c = CallFields, c.step # "speedboat",
         call' = [call EXCEPT ![s] = c],
         db' \in DbSet, SoundDb(db', lake), Grows(db, db'), db'.committed = db.committed,
         db'.cleanupClaimed = db.cleanupClaimed,
         SoundCall(c, db', lake),
         UNCHANGED <<hints, indexing, compacting, cleaning, lake>>
  PROVE  CommitInv'
<1>1. SoundCommits'
  BY OtherCommits, ZenonT(30)
<1>2. /\ hints' \in [Services -> [pending : BOOLEAN, uncompacted : SUBSET Nat]]
      /\ \A t \in Services : hints'[t].uncompacted \subseteq Saved(db')
      /\ indexing' \in SUBSET LeaseSet /\ lake' \in SUBSET DataFiles
      /\ \A item \in compacting' : SoundItem(item, db')
  BY SameWork, Zenon
<1>3. cleaning' \subseteq db'.cleanupClaimed /\ lake \subseteq lake' /\ lake' = lake
  BY Zenon DEF CommitInv
<1>4. SoundDb(db', lake') /\ SoundCall(c, db', lake')
  BY <1>3, Zenon
<1> QED
  BY <1>1, <1>2, <1>3, <1>4, AnyStep, ZenonT(30)

----------------------------------------------------------------------------
(* Transactions that touch neither the checkpoints nor the work queues. *)

\* The transaction moves no commit, no checkpoint and no index work; it may
\* note, promote or request, and checkpoints may stop waiting.
Quiet(d, e) ==
  /\ e.checkpoints = d.checkpoints /\ e.deleted = d.deleted
  /\ e.committed = d.committed /\ e.uncheckpointed = d.uncheckpointed
  /\ e.waiting \subseteq d.waiting
  /\ e.extensionLeases = d.extensionLeases /\ e.indexed = d.indexed
  /\ e.cleanup \cup e.cleanupClaimed = d.cleanup \cup d.cleanupClaimed
  /\ \A k \in Keys \ {"request"} : e.latest[k] = d.latest[k]
  /\ \/ e.latest["request"] = d.latest["request"]
     \/ /\ e.latest["request"].version = d.latest["request"].version + 1
        /\ e.latest["request"].id \in BOOLEAN

\* The five keys.
LEMMA KeyFacts ==
  /\ {"checkpoint", "search", "extension", "compaction", "request"} = Keys
  /\ {"checkpoint", "search", "extension", "compaction"} = Keys \ {"request"}
  BY Zenon DEF Keys

\* Such a transaction preserves soundness.
LEMMA QuietKeeps ==
  ASSUME NEW d \in DbSet, NEW e \in DbSet, Quiet(d, e), NEW l, NEW m, l \subseteq m,
         SoundDb(d, l), \A item \in e.notes : DataFile(item) \in m
  PROVE  SoundDb(e, m) /\ Grows(d, e)
<1>1. /\ Saved(e) = Saved(d) /\ e.checkpoints = d.checkpoints /\ Settled(e) = Settled(d)
      /\ Indexed(e) = Indexed(d) /\ Away(e) = Away(d) /\ Leased(e) = Leased(d)
      /\ e.cleanup \cup e.cleanupClaimed = d.cleanup \cup d.cleanupClaimed
  BY Zenon DEF Quiet, Saved, Settled, Indexed, Away, Leased
<1>2. /\ e.latest["checkpoint"] = d.latest["checkpoint"] /\ e.latest["search"] = d.latest["search"]
      /\ e.latest["extension"] = d.latest["extension"]
      /\ e.latest["compaction"] = d.latest["compaction"]
  BY KeyFacts, Zenon DEF Quiet
<1>3. Newest(e) = Newest(d) /\ Searched(e) = Searched(d) /\ Queued(e) = Queued(d)
  BY <1>1, <1>2, ZenonT(30) DEF Newest, Searched, Queued
<1>4. \A item : SoundItem(item, d) => SoundItem(item, e)
  BY <1>1, Zenon DEF SoundItem
<1>5. Frontiers(e)
  <2>1. e.latest["request"].id \in BOOLEAN
    BY Zenon DEF Quiet, SoundDb, Frontiers
  <2> QED
    BY <1>1, <1>2, <1>4, <2>1, Zenon DEF SoundDb, Frontiers
<1>6. Placed(e) /\ IndexKept(e) /\ SearchIndexed(e)
  BY <1>1, <1>3, Zenon DEF SoundDb, Placed, IndexKept, SearchIndexed, Quiet
<1>7. SoundDb(e, m)
  <2>1. \A i \in Saved(e) : e.checkpoints[i].iceberg \subseteq m /\ e.checkpoints[i].origin < i
    BY <1>1, Zenon DEF SoundDb
  <2>2. e.waiting \cup e.deleted \subseteq Saved(e) /\ e.waiting \cap e.deleted = {}
    BY <1>1, Zenon DEF SoundDb, Quiet
  <2> QED
    BY <1>5, <1>6, <2>1, <2>2, Zenon DEF SoundDb
<1>8. Grows(d, e)
  <2>1. \A k \in Keys : d.latest[k].version \in Nat
    BY DbTypes, Zenon
  <2>2. \A k \in Keys : /\ d.latest[k].version <= e.latest[k].version
                        /\ e.latest[k].version = d.latest[k].version => e.latest[k] = d.latest[k]
    BY <2>1 DEF Quiet
  <2> QED
    BY <1>1, <2>2, Zenon DEF Grows
<1> QED
  BY <1>7, <1>8, Zenon

\* So does no transaction at all.
LEMMA StillSound == CommitInv => db \in DbSet /\ SoundDb(db, lake) /\ Grows(db, db)
<1> SUFFICES ASSUME CommitInv
             PROVE  db \in DbSet /\ SoundDb(db, lake) /\ Grows(db, db)
  OBVIOUS
<1>1. db \in DbSet /\ SoundDb(db, lake)
  BY Zenon DEF CommitInv, CommitTyped
<1>2. Quiet(db, db) /\ \A item \in db.notes : DataFile(item) \in lake
  BY <1>1, Zenon DEF Quiet, SoundDb
<1> QED
  BY <1>1, <1>2, QuietKeeps, Zenon

\* Only one of the latest items is replaced, by its next version.
OneBump(d, e, key) ==
  /\ e.latest[key].version = d.latest[key].version + 1
  /\ \A k \in Keys \ {key} : e.latest[k] = d.latest[k]

\* Versions only grow.
LEMMA BumpGrows ==
  ASSUME NEW d \in DbSet, NEW e \in DbSet, NEW key \in Keys, OneBump(d, e, key)
  PROVE  \A k \in Keys : /\ d.latest[k].version <= e.latest[k].version
                         /\ e.latest[k].version = d.latest[k].version => e.latest[k] = d.latest[k]
<1>1. \A k \in Keys : d.latest[k].version \in Nat
  BY DbTypes, Zenon
<1> QED
  BY <1>1 DEF OneBump

----------------------------------------------------------------------------
(* Extension work. *)

\* A commit puts its file into uncheckpointed and its index work into the
\* queue.
LEMMA SpeedboatKeeps ==
  ASSUME NEW d \in DbSet, NEW e \in DbSet, NEW l, SoundDb(d, l),
         NEW f \in CommitFiles \ d.committed,
         OneBump(d, e, "extension"),
         e.latest["extension"].id = {Queued(d) \cup ({f} \cap SpeedboatFiles)},
         e.committed = d.committed \cup {f}, e.uncheckpointed = d.uncheckpointed \cup {f},
         e.checkpoints = d.checkpoints, e.deleted = d.deleted, e.waiting = d.waiting,
         e.extensionLeases = d.extensionLeases, e.indexed = d.indexed, e.notes = d.notes,
         e.cleanup = d.cleanup, e.cleanupClaimed = d.cleanupClaimed
  PROVE  SoundDb(e, l) /\ Grows(d, e)
<1>1. /\ Saved(e) = Saved(d) /\ Indexed(e) = Indexed(d) /\ Away(e) = Away(d) /\ Leased(e) = Leased(d)
  BY Zenon DEF Saved, Indexed, Away, Leased
<1>2. /\ e.latest["checkpoint"] = d.latest["checkpoint"] /\ e.latest["search"] = d.latest["search"]
      /\ e.latest["compaction"] = d.latest["compaction"] /\ e.latest["request"] = d.latest["request"]
  BY Zenon DEF OneBump, Keys
<1>3. Newest(e) = Newest(d) /\ Searched(e) = Searched(d)
  BY <1>2, Zenon DEF Newest, Searched
<1>4. Queued(e) = Queued(d) \cup ({f} \cap SpeedboatFiles)
  BY ZenonT(30) DEF Queued
<1>5. Placed(d) /\ IndexKept(d) /\ SearchIndexed(d) /\ Frontiers(d)
  BY Zenon DEF SoundDb
<1>6. Settled(d) \subseteq Settled(e)
  BY Zenon DEF Settled
<1>7. Placed(e)
  BY <1>1, <1>3, <1>5 DEF Placed
<1>8. IndexKept(e) /\ SearchIndexed(e)
  BY <1>1, <1>3, <1>4, <1>5, Zenon DEF IndexKept, SearchIndexed
<1>9. \A item : SoundItem(item, d) => SoundItem(item, e)
  BY <1>1, <1>6, Zenon DEF SoundItem
<1>10. Frontiers(e)
  <2>1. Queued(d) \cup ({f} \cap SpeedboatFiles) \in SUBSET IndexFiles
    BY <1>5, Zenon DEF Frontiers, Queued, IndexFiles
  <2>2. e.latest["extension"].id \in SUBSET SUBSET IndexFiles
    BY <2>1, Zenon
  <2> QED
    BY <1>1, <1>2, <1>5, <1>9, <2>2, ZenonT(30) DEF Frontiers
<1>11. SoundDb(e, l)
  BY <1>1, <1>7, <1>8, <1>10, ZenonT(30) DEF SoundDb
<1>12. Grows(d, e)
  BY <1>1, <1>6, BumpGrows, KeyFacts, SMTT(30) DEF Grows
<1> QED
  BY <1>11, <1>12, Zenon

\* A claim moves the queued work under a lease.
LEMMA ClaimKeeps ==
  ASSUME NEW d \in DbSet, NEW e \in DbSet, NEW l, SoundDb(d, l), NEW item,
         item.files = Queued(d),
         OneBump(d, e, "extension"), e.latest["extension"].id = {},
         e.extensionLeases = d.extensionLeases \cup {item},
         e.committed = d.committed, e.uncheckpointed = d.uncheckpointed,
         e.checkpoints = d.checkpoints, e.deleted = d.deleted, e.waiting = d.waiting,
         e.indexed = d.indexed, e.notes = d.notes,
         e.cleanup = d.cleanup, e.cleanupClaimed = d.cleanupClaimed
  PROVE  SoundDb(e, l) /\ Grows(d, e)
<1>1. /\ Saved(e) = Saved(d) /\ Indexed(e) = Indexed(d) /\ Away(e) = Away(d) /\ Settled(e) = Settled(d)
  BY Zenon DEF Saved, Indexed, Away, Settled
<1>2. /\ e.latest["checkpoint"] = d.latest["checkpoint"] /\ e.latest["search"] = d.latest["search"]
      /\ e.latest["compaction"] = d.latest["compaction"] /\ e.latest["request"] = d.latest["request"]
  BY Zenon DEF OneBump, Keys
<1>3. Newest(e) = Newest(d) /\ Searched(e) = Searched(d)
  BY <1>2, Zenon DEF Newest, Searched
<1>4. Leased(e) = Leased(d) \cup Queued(d)
  BY ZenonT(30) DEF Leased
<1>5. Placed(d) /\ IndexKept(d) /\ SearchIndexed(d) /\ Frontiers(d)
  BY Zenon DEF SoundDb
<1>6. Placed(e)
  BY <1>1, <1>3, <1>5, Zenon DEF Placed
<1>7. IndexKept(e) /\ SearchIndexed(e)
  BY <1>1, <1>3, <1>4, <1>5, Zenon DEF IndexKept, SearchIndexed
<1>8. \A i : SoundItem(i, d) => SoundItem(i, e)
  BY <1>1, Zenon DEF SoundItem
<1>9. Frontiers(e)
  BY <1>1, <1>2, <1>5, <1>8, ZenonT(30) DEF Frontiers
<1>10. SoundDb(e, l)
  BY <1>1, <1>6, <1>7, <1>9, ZenonT(30) DEF SoundDb
<1>11. Grows(d, e)
  BY <1>1, BumpGrows, KeyFacts, ZenonT(30) DEF Grows
<1> QED
  BY <1>10, <1>11, Zenon

\* Completing a lease moves its files to the indexed ones.
LEMMA CompletedKeeps ==
  ASSUME NEW d \in DbSet, NEW e \in DbSet, NEW l, SoundDb(d, l), NEW item \in d.extensionLeases,
         e.latest = d.latest,
         e.extensionLeases = d.extensionLeases \ {item}, e.indexed = d.indexed \cup {item.files},
         e.committed = d.committed, e.uncheckpointed = d.uncheckpointed,
         e.checkpoints = d.checkpoints, e.deleted = d.deleted, e.waiting = d.waiting,
         e.notes = d.notes, e.cleanup = d.cleanup, e.cleanupClaimed = d.cleanupClaimed
  PROVE  SoundDb(e, l) /\ Grows(d, e)
<1>1. /\ Saved(e) = Saved(d) /\ Away(e) = Away(d) /\ Settled(e) = Settled(d) /\ Queued(e) = Queued(d)
      /\ Newest(e) = Newest(d) /\ Searched(e) = Searched(d)
  BY Zenon DEF Saved, Away, Settled, Queued, Newest, Searched
<1>2. Indexed(e) = Indexed(d) \cup item.files
  BY Zenon DEF Indexed
<1>3. Leased(d) \subseteq Leased(e) \cup item.files
  BY ZenonT(30) DEF Leased
<1>4. Placed(d) /\ IndexKept(d) /\ SearchIndexed(d) /\ Frontiers(d)
  BY Zenon DEF SoundDb
<1>5. Placed(e)
  BY <1>1, <1>4, Zenon DEF Placed
<1>6. IndexKept(e) /\ SearchIndexed(e)
  BY <1>1, <1>2, <1>3, <1>4, ZenonT(30) DEF IndexKept, SearchIndexed
<1>7. \A i : SoundItem(i, d) => SoundItem(i, e)
  BY <1>1, Zenon DEF SoundItem
<1>8. Frontiers(e)
  BY <1>1, <1>4, <1>7, ZenonT(30) DEF Frontiers
<1>9. SoundDb(e, l)
  BY <1>1, <1>5, <1>6, <1>8, ZenonT(30) DEF SoundDb
<1>10. Grows(d, e)
  <2>1. \A k \in Keys : d.latest[k].version \in Nat
    BY DbTypes, Zenon
  <2> QED
    BY <1>1, <1>2, <2>1, SMTT(30) DEF Grows
<1> QED
  BY <1>9, <1>10, Zenon

\* A claim of compaction work empties its item.
LEMMA CompactionClaimKeeps ==
  ASSUME NEW d \in DbSet, NEW e \in DbSet, NEW l, SoundDb(d, l),
         OneBump(d, e, "compaction"), e.latest["compaction"].id = {}, OtherItems(d, e)
  PROVE  SoundDb(e, l) /\ Grows(d, e)
<1>1. /\ Saved(e) = Saved(d) /\ Indexed(e) = Indexed(d) /\ Away(e) = Away(d) /\ Settled(e) = Settled(d)
      /\ Leased(e) = Leased(d)
  BY Zenon DEF Saved, Indexed, Away, Settled, OtherItems, Leased
<1>2. /\ e.latest["checkpoint"] = d.latest["checkpoint"] /\ e.latest["search"] = d.latest["search"]
      /\ e.latest["extension"] = d.latest["extension"] /\ e.latest["request"] = d.latest["request"]
  BY Zenon DEF OneBump, Keys
<1>3. Newest(e) = Newest(d) /\ Searched(e) = Searched(d) /\ Queued(e) = Queued(d)
  BY <1>2, ZenonT(30) DEF Newest, Searched, Queued, OtherItems
<1>4. Placed(e) /\ IndexKept(e) /\ SearchIndexed(e)
  BY <1>1, <1>3, ZenonT(30) DEF SoundDb, Placed, IndexKept, SearchIndexed, OtherItems
<1>5. Frontiers(e)
  BY <1>1, <1>2, Zenon DEF SoundDb, Frontiers
<1>6. SoundDb(e, l)
  BY <1>1, <1>4, <1>5, ZenonT(30) DEF SoundDb, OtherItems
<1>7. Grows(d, e)
  BY <1>1, BumpGrows, KeyFacts, ZenonT(30) DEF Grows, OtherItems
<1> QED
  BY <1>6, <1>7, Zenon

----------------------------------------------------------------------------
(* New checkpoints. *)

\* Saving a checkpoint changes no other.
LEMMA AppendFacts ==
  ASSUME NEW q \in Seq(CheckpointSet), NEW c \in CheckpointSet
  PROVE  /\ Append(q, c) \in Seq(CheckpointSet)
         /\ Len(q) \in Nat /\ Len(Append(q, c)) = Len(q) + 1
         /\ \A i \in 1 .. Len(q) : Append(q, c)[i] = q[i]
         /\ Append(q, c)[Len(q) + 1] = c
  OBVIOUS

\* The id of the checkpoint that is saved next.
NextId(d) == Len(d.checkpoints) + 1

\* One checkpoint is saved.
Appends(d, e, c) == c \in CheckpointSet /\ e.checkpoints = Append(d.checkpoints, c)

\* It has the next id, and the others have what they had.
LEMMA SavedFacts ==
  ASSUME NEW d \in DbSet, NEW e \in DbSet, NEW c, Appends(d, e, c)
  PROVE  /\ NextId(d) \in Nat /\ NextId(d) > 0 /\ NextId(d) \notin Saved(d)
         /\ Saved(e) = Saved(d) \cup {NextId(d)}
         /\ \A i \in Saved(d) : e.checkpoints[i] = d.checkpoints[i]
         /\ e.checkpoints[NextId(d)] = c
<1>1. d.checkpoints \in Seq(CheckpointSet)
  BY DbTypes, Zenon
<1>2. /\ Len(d.checkpoints) \in Nat /\ Len(e.checkpoints) = Len(d.checkpoints) + 1
      /\ \A i \in 1 .. Len(d.checkpoints) : e.checkpoints[i] = d.checkpoints[i]
      /\ e.checkpoints[Len(d.checkpoints) + 1] = c
  BY <1>1, AppendFacts DEF Appends
<1> QED
  BY <1>2, SMTT(30) DEF Saved, NextId

\* The transaction of commit_checkpoint: c is the newest checkpoint with files.
SavesCheckpoint(d, e, c, files, replaced) ==
  /\ files \in SUBSET d.uncheckpointed /\ replaced \in SUBSET Saved(d)
  /\ c.iceberg = Newest(d).iceberg /\ c.origin = 0
  /\ c.speedboat = Newest(d).speedboat \cup (files \cap SpeedboatFiles)
  /\ c.deletes = Newest(d).deletes \cup (files \cap DeleteFiles)
  /\ Appends(d, e, c)
  /\ e.waiting \subseteq d.waiting \cup {NextId(d)}
  /\ e.uncheckpointed = d.uncheckpointed \ files
  /\ e.latest["checkpoint"].version = d.latest["checkpoint"].version + 1
  /\ e.latest["checkpoint"].id = NextId(d)
  /\ \/ e.latest["compaction"] = d.latest["compaction"]
     \/ /\ e.latest["compaction"].version = d.latest["compaction"].version + 1
        /\ e.latest["compaction"].id = CompactionWorkItem(NextId(d), c, replaced)
  /\ \A k \in Keys \ {"checkpoint", "compaction"} : e.latest[k] = d.latest[k]
  /\ e.deleted = d.deleted /\ e.committed = d.committed
  /\ e.extensionLeases = d.extensionLeases /\ e.indexed = d.indexed /\ e.notes = d.notes
  /\ e.cleanup = d.cleanup /\ e.cleanupClaimed = d.cleanupClaimed

\* commit_checkpoint moves its files from uncheckpointed into the newest
\* checkpoint; the index work and the search frontier stay as they are.
LEMMA CheckpointKeeps ==
  ASSUME NEW d \in DbSet, NEW e \in DbSet, NEW l, SoundDb(d, l), NEW c, NEW files, NEW replaced,
         SavesCheckpoint(d, e, c, files, replaced)
  PROVE  SoundDb(e, l) /\ Grows(d, e)
<1>0. /\ files \in SUBSET d.uncheckpointed /\ c \in CheckpointSet /\ replaced \in SUBSET Saved(d)
      /\ Appends(d, e, c)
  BY Zenon DEF SavesCheckpoint, Appends
<1>1. /\ NextId(d) \in Nat /\ NextId(d) > 0 /\ NextId(d) \notin Saved(d) /\ Saved(e) = Saved(d) \cup {NextId(d)}
      /\ \A i \in Saved(d) : e.checkpoints[i] = d.checkpoints[i]
      /\ e.checkpoints[NextId(d)] = c
  BY <1>0, SavedFacts, ZenonT(30)
<1>2. Placed(d) /\ IndexKept(d) /\ SearchIndexed(d) /\ Frontiers(d)
  BY Zenon DEF SoundDb
<1>3. /\ e.latest["search"] = d.latest["search"] /\ e.latest["extension"] = d.latest["extension"]
      /\ e.latest["request"] = d.latest["request"]
  BY Zenon DEF Keys, SavesCheckpoint
<1>4. /\ Indexed(e) = Indexed(d) /\ Away(e) = Away(d) /\ Leased(e) = Leased(d)
      /\ Settled(d) \subseteq Settled(e)
  BY Zenon DEF Indexed, Away, Leased, Settled, SavesCheckpoint
<1>5. Newest(e) = c
  BY <1>1, ZenonT(30) DEF Newest, SavesCheckpoint
<1>6. Searched(e) = Searched(d) /\ Queued(e) = Queued(d)
  BY <1>1, <1>2, <1>3, ZenonT(30) DEF Searched, Queued, Frontiers
<1>7. InCheckpoint(c) = InCheckpoint(Newest(d)) \cup files
  <2>1. files \subseteq CommitFiles
    BY <1>0, DbTypes, ZenonT(30)
  <2> QED
    BY <2>1, Zenon DEF InCheckpoint, CommitFiles, SavesCheckpoint
<1>8. Placed(e)
  <2>1. e.committed = d.committed /\ e.uncheckpointed = d.uncheckpointed \ files
    BY Zenon DEF SavesCheckpoint
  <2> QED
    BY <1>0, <1>2, <1>4, <1>5, <1>7, <2>1, ZenonT(30) DEF Placed
<1>9. IndexKept(e) /\ SearchIndexed(e)
  <2>1. e.committed = d.committed /\ c.iceberg = Newest(d).iceberg
    BY Zenon DEF SavesCheckpoint
  <2> QED
    BY <1>2, <1>4, <1>5, <1>6, <2>1, ZenonT(30) DEF IndexKept, SearchIndexed
<1>10. \A item : SoundItem(item, d) => SoundItem(item, e)
  BY <1>1, <1>4, ZenonT(30) DEF SoundItem
<1>11. \A item \in CompactionWorkItem(NextId(d), c, replaced) : SoundItem(item, e)
  <2> DEFINE w == [id |-> NextId(d), speedboat |-> c.speedboat, deletes |-> c.deletes, replaced |-> replaced]
  <2>1. w \in ItemSet
    <3>1. c.speedboat \in SUBSET SpeedboatFiles /\ c.deletes \in SUBSET DeleteFiles
      BY <1>0, Zenon DEF CheckpointSet
    <3>2. replaced \in SUBSET Nat
      BY <1>0, SMTT(30) DEF Saved
    <3> QED
      BY <1>1, <3>1, <3>2, ZenonT(30) DEF ItemSet
  <2>2. w.id \in Saved(e) /\ w.replaced \subseteq Saved(e)
    BY <1>0, <1>1, Zenon
  <2>3. w.speedboat \cup w.deletes \subseteq Settled(e)
    BY <1>5, <1>8, Zenon DEF Placed, InCheckpoint, Settled
  <2>4. SoundItem(w, e)
    BY <2>1, <2>2, <2>3, ZenonT(30) DEF SoundItem
  <2> QED
    BY <2>4, Zenon DEF CompactionWorkItem
<1>12. Frontiers(e)
  <2>1. \A item \in e.latest["compaction"].id : SoundItem(item, e)
    <3>1. CASE e.latest["compaction"] = d.latest["compaction"]
      BY <1>2, <1>10, <3>1, ZenonT(30) DEF Frontiers
    <3>2. CASE e.latest["compaction"].id = CompactionWorkItem(NextId(d), c, replaced)
      BY <1>11, <3>2, ZenonT(30)
    <3> QED
      BY <3>1, <3>2, ZenonT(30) DEF SavesCheckpoint
  <2>2. e.latest["checkpoint"].id \in Saved(e) /\ e.latest["search"].id \in Saved(e)
    BY <1>1, <1>2, <1>3, ZenonT(30) DEF Frontiers, SavesCheckpoint
  <2> QED
    BY <1>2, <1>3, <2>1, <2>2, ZenonT(30) DEF Frontiers
<1>13. SoundDb(e, l)
  <2>1. \A i \in Saved(e) : e.checkpoints[i].iceberg \subseteq l /\ e.checkpoints[i].origin < i
    <3>1. Newest(d).iceberg \subseteq l
      BY <1>2, ZenonT(30) DEF SoundDb, Newest, Frontiers
    <3> QED
      <4>1. c.iceberg \subseteq l /\ c.origin < NextId(d)
        BY <1>1, <3>1, ZenonT(30) DEF SavesCheckpoint
      <4> QED
        BY <1>1, <4>1, ZenonT(30) DEF SoundDb
  <2>2. e.waiting \cup e.deleted \subseteq Saved(e) /\ e.waiting \cap e.deleted = {}
    BY <1>1, SMTT(30) DEF SoundDb, SavesCheckpoint
  <2>3. \A item \in e.notes : DataFile(item) \in l
    BY Zenon DEF SoundDb, SavesCheckpoint
  <2> QED
    BY <1>8, <1>9, <1>12, <2>1, <2>2, <2>3, ZenonT(30) DEF SoundDb
<1>14. Grows(d, e)
  <2>1. \A k \in Keys : d.latest[k].version \in Nat
    BY DbTypes, Zenon
  <2>2. \A k \in Keys : /\ d.latest[k].version <= e.latest[k].version
                        /\ e.latest[k].version = d.latest[k].version => e.latest[k] = d.latest[k]
    BY <2>1 DEF SavesCheckpoint
  <2> QED
    BY <1>1, <1>4, <2>2, Zenon DEF Grows, SavesCheckpoint
<1> QED
  BY <1>13, <1>14, Zenon

\* The transaction of commit_search_checkpoint: c is a copy of checkpoint i.
SavesSearch(d, e, c, i) ==
  /\ i \in Saved(d) /\ Appends(d, e, c)
  /\ c.iceberg = d.checkpoints[i].iceberg /\ c.origin \in {i, d.checkpoints[i].origin}
  /\ current_file_paths(c) \subseteq Indexed(d)
  /\ OneBump(d, e, "search") /\ e.latest["search"].id = NextId(d)
  /\ e.deleted = d.deleted /\ e.waiting = d.waiting
  /\ e.committed = d.committed /\ e.uncheckpointed = d.uncheckpointed
  /\ e.extensionLeases = d.extensionLeases /\ e.indexed = d.indexed /\ e.notes = d.notes
  /\ e.cleanup = d.cleanup /\ e.cleanupClaimed = d.cleanupClaimed

\* commit_search_checkpoint copies a checkpoint all of whose files are
\* indexed.
LEMMA SearchKeeps ==
  ASSUME NEW d \in DbSet, NEW e \in DbSet, NEW l, SoundDb(d, l), NEW c, NEW i, SavesSearch(d, e, c, i)
  PROVE  SoundDb(e, l) /\ Grows(d, e)
<1>0. i \in Saved(d) /\ Appends(d, e, c) /\ OneBump(d, e, "search")
  BY Zenon DEF SavesSearch
<1>1. /\ NextId(d) \in Nat /\ NextId(d) > 0 /\ NextId(d) \notin Saved(d)
      /\ Saved(e) = Saved(d) \cup {NextId(d)}
      /\ \A j \in Saved(d) : e.checkpoints[j] = d.checkpoints[j]
      /\ e.checkpoints[NextId(d)] = c
  BY <1>0, SavedFacts, ZenonT(30)
<1>2. Placed(d) /\ IndexKept(d) /\ SearchIndexed(d) /\ Frontiers(d)
  BY Zenon DEF SoundDb
<1>3. /\ e.latest["checkpoint"] = d.latest["checkpoint"] /\ e.latest["extension"] = d.latest["extension"]
      /\ e.latest["compaction"] = d.latest["compaction"] /\ e.latest["request"] = d.latest["request"]
  BY <1>0, Zenon DEF Keys, OneBump
<1>4. /\ Indexed(e) = Indexed(d) /\ Away(e) = Away(d) /\ Leased(e) = Leased(d)
      /\ Settled(d) = Settled(e)
  BY Zenon DEF Indexed, Away, Leased, Settled, SavesSearch
<1>5. Newest(e) = Newest(d) /\ Queued(e) = Queued(d)
  BY <1>1, <1>2, <1>3, ZenonT(30) DEF Newest, Queued, Frontiers
<1>6. Searched(e) = c
  BY <1>1, ZenonT(30) DEF Searched, SavesSearch
<1>7. e.committed = d.committed /\ e.uncheckpointed = d.uncheckpointed
  BY Zenon DEF SavesSearch
<1>8. Placed(e) /\ IndexKept(e)
  BY <1>2, <1>4, <1>5, <1>7, ZenonT(30) DEF Placed, IndexKept
<1>9. SearchIndexed(e)
  BY <1>4, <1>6, ZenonT(30) DEF SearchIndexed, SavesSearch
<1>10. \A item : SoundItem(item, d) => SoundItem(item, e)
  BY <1>1, <1>4, ZenonT(30) DEF SoundItem
<1>11. Frontiers(e)
  <2>1. e.latest["search"].id \in Saved(e) /\ e.latest["checkpoint"].id \in Saved(e)
    BY <1>1, <1>2, <1>3, ZenonT(30) DEF SavesSearch, Frontiers
  <2> QED
    BY <1>2, <1>3, <1>10, <2>1, ZenonT(30) DEF Frontiers
<1>12. SoundDb(e, l)
  <2>1. c.iceberg \subseteq l /\ c.origin < NextId(d)
    <3>1. d.checkpoints[i].iceberg \subseteq l /\ d.checkpoints[i].origin < i /\ i < NextId(d)
      BY <1>0, DbTypes, SMTT(30) DEF SoundDb, Saved, NextId
    <3>2. d.checkpoints[i].origin \in Nat /\ i \in Nat
      BY <1>0, DbTypes, SMTT(30) DEF CheckpointSet, Saved
    <3> QED
      BY <1>1, <3>1, <3>2, SMTT(30) DEF SavesSearch
  <2>2. \A j \in Saved(e) : e.checkpoints[j].iceberg \subseteq l /\ e.checkpoints[j].origin < j
    BY <1>1, <2>1, Zenon DEF SoundDb
  <2>3. e.waiting \cup e.deleted \subseteq Saved(e) /\ e.waiting \cap e.deleted = {}
    BY <1>1, ZenonT(30) DEF SoundDb, SavesSearch
  <2>4. \A item \in e.notes : DataFile(item) \in l
    BY ZenonT(30) DEF SoundDb, SavesSearch
  <2> QED
    BY <1>8, <1>9, <1>11, <2>2, <2>3, <2>4, ZenonT(30) DEF SoundDb
<1>13. Grows(d, e)
  <2>1. \A k \in Keys : /\ d.latest[k].version <= e.latest[k].version
                        /\ e.latest[k].version = d.latest[k].version => e.latest[k] = d.latest[k]
    BY <1>0, BumpGrows, KeyFacts, ZenonT(30)
  <2>2. e.cleanup \cup e.cleanupClaimed = d.cleanup \cup d.cleanupClaimed
    BY ZenonT(30) DEF SavesSearch
  <2> QED
    BY <1>1, <1>4, <2>1, <2>2, ZenonT(30) DEF Grows
<1> QED
  BY <1>12, <1>13, Zenon

\* The transaction of commit_iceberg: the newest checkpoint, now on the data
\* files of the table and without what was compacted, and the replacement r of
\* the checkpoint that was compacted; the checkpoints in gone are deleted.
SavesIceberg(d, e, m, c, r, item, files, gone) ==
  /\ m \in DbSet /\ Appends(d, m, c) /\ Appends(m, e, r)
  /\ c.iceberg = files /\ c.origin = Newest(d).origin
  /\ c.speedboat = Newest(d).speedboat \ item.speedboat
  /\ c.deletes = Newest(d).deletes \ item.deletes
  /\ gone \subseteq Saved(d)
  /\ e.waiting \subseteq (d.waiting \cup {NextId(d), NextId(m)}) \ gone
  /\ e.deleted = d.deleted \cup gone
  /\ e.latest["checkpoint"].version = d.latest["checkpoint"].version + 1
  /\ e.latest["checkpoint"].id = NextId(d)
  /\ e.latest["extension"].version = d.latest["extension"].version + 1
  /\ e.latest["extension"].id = {Queued(d) \cup files}
  /\ \A k \in Keys \ {"checkpoint", "extension"} : e.latest[k] = d.latest[k]
  /\ e.committed = d.committed /\ e.uncheckpointed = d.uncheckpointed
  /\ e.extensionLeases = d.extensionLeases /\ e.indexed = d.indexed /\ e.notes = d.notes
  /\ e.cleanup = d.cleanup \cup {item} /\ e.cleanupClaimed = d.cleanupClaimed

\* commit_iceberg takes the item's files out of the newest checkpoint and
\* puts them into cleanup, so they stay in one place; the data files of the
\* table that it puts in are queued for the index.
LEMMA IcebergKeeps ==
  ASSUME NEW d \in DbSet, NEW e \in DbSet, NEW l \in SUBSET DataFiles, SoundDb(d, l),
         NEW m, NEW c, NEW r, NEW item, NEW files \in SUBSET l, NEW gone,
         SoundItem(item, d), r.iceberg \subseteq l, r.origin \in Nat, r.origin <= NextId(d),
         SavesIceberg(d, e, m, c, r, item, files, gone)
  PROVE  SoundDb(e, l) /\ Grows(d, e)
<1>0. m \in DbSet /\ Appends(d, m, c) /\ Appends(m, e, r) /\ gone \subseteq Saved(d)
  BY Zenon DEF SavesIceberg
<1>1. /\ NextId(d) \in Nat /\ NextId(d) > 0 /\ NextId(d) \notin Saved(d)
      /\ Saved(m) = Saved(d) \cup {NextId(d)}
      /\ \A j \in Saved(d) : m.checkpoints[j] = d.checkpoints[j]
      /\ m.checkpoints[NextId(d)] = c
  BY <1>0, SavedFacts, ZenonT(30)
<1>2. /\ NextId(m) \in Nat /\ NextId(m) \notin Saved(m)
      /\ Saved(e) = Saved(m) \cup {NextId(m)}
      /\ \A j \in Saved(m) : e.checkpoints[j] = m.checkpoints[j]
      /\ e.checkpoints[NextId(m)] = r
  BY <1>0, SavedFacts, SMTT(30)
<1>3. /\ Saved(e) = Saved(d) \cup {NextId(d), NextId(m)}
      /\ \A j \in Saved(d) : e.checkpoints[j] = d.checkpoints[j]
      /\ e.checkpoints[NextId(d)] = c
  BY <1>1, <1>2, Zenon
<1>4. NextId(d) < NextId(m)
  BY <1>0, <1>1, <1>2, DbTypes, SMTT(30) DEF Saved, NextId
<1>5. Placed(d) /\ IndexKept(d) /\ SearchIndexed(d) /\ Frontiers(d)
  BY Zenon DEF SoundDb
<1>6. /\ e.latest["search"] = d.latest["search"] /\ e.latest["compaction"] = d.latest["compaction"]
      /\ e.latest["request"] = d.latest["request"]
  BY Zenon DEF Keys, SavesIceberg
<1>7. /\ Indexed(e) = Indexed(d) /\ Leased(e) = Leased(d) /\ Settled(d) = Settled(e)
  BY ZenonT(30) DEF Indexed, Leased, Settled, SavesIceberg
<1>8. Away(e) = Away(d) \cup item.speedboat \cup item.deletes
  <2>1. e.cleanup \cup e.cleanupClaimed = (d.cleanup \cup d.cleanupClaimed) \cup {item}
    BY ZenonT(30) DEF SavesIceberg
  <2> QED
    BY <2>1, SMTT(30) DEF Away
<1>9. Newest(e) = c /\ Searched(e) = Searched(d)
  BY <1>3, <1>5, <1>6, SMTT(30) DEF Newest, Searched, SavesIceberg, Frontiers
<1>10. Queued(e) = Queued(d) \cup files
  BY ZenonT(30) DEF Queued, SavesIceberg
<1>11. e.committed = d.committed /\ e.uncheckpointed = d.uncheckpointed
  BY Zenon DEF SavesIceberg
<1>12. Placed(e)
  <2>1. InCheckpoint(c) \cup item.speedboat \cup item.deletes
          = InCheckpoint(Newest(d)) \cup item.speedboat \cup item.deletes
    BY ZenonT(30) DEF InCheckpoint, SavesIceberg
  <2>2. item.speedboat \cup item.deletes \subseteq d.committed \ d.uncheckpointed
    BY ZenonT(30) DEF SoundItem, Settled
  <2>3. InCheckpoint(Newest(e)) \cup Away(e) = InCheckpoint(Newest(d)) \cup Away(d) \cup item.speedboat \cup item.deletes
    BY <1>8, <1>9, <2>1, ZenonT(30)
  <2> QED
    BY <1>5, <1>11, <2>2, <2>3, Zenon DEF Placed
<1>13. IndexKept(e)
  <2>1. c.iceberg = files
    BY Zenon DEF SavesIceberg
  <2> QED
    BY <1>5, <1>7, <1>9, <1>10, <1>11, <2>1, ZenonT(30) DEF IndexKept
<1>14. SearchIndexed(e)
  BY <1>5, <1>7, <1>9, ZenonT(30) DEF SearchIndexed
<1>15. \A i : SoundItem(i, d) => SoundItem(i, e)
  BY <1>3, <1>7, ZenonT(30) DEF SoundItem
<1>16. Frontiers(e)
  <2>1. e.latest["search"].id \in Saved(e) /\ e.latest["checkpoint"].id \in Saved(e)
    BY <1>3, <1>5, <1>6, ZenonT(30) DEF SavesIceberg, Frontiers
  <2>2. Queued(d) \cup files \in SUBSET IndexFiles
    BY <1>5, ZenonT(30) DEF Frontiers, Queued, IndexFiles
  <2>3. e.latest["extension"].id \in SUBSET SUBSET IndexFiles
    BY <2>2, ZenonT(30) DEF SavesIceberg
  <2> QED
    BY <1>5, <1>6, <1>15, <2>1, <2>3, ZenonT(30) DEF Frontiers
<1>17. SoundDb(e, l)
  <2>1. c.iceberg \subseteq l /\ c.origin < NextId(d)
    <3>1. d.latest["checkpoint"].id \in Saved(d) /\ Newest(d).origin < d.latest["checkpoint"].id
          /\ Newest(d) \in CheckpointSet
      BY <1>5, DbTypes, ZenonT(30) DEF SoundDb, Frontiers, Newest
    <3>2. d.latest["checkpoint"].id < NextId(d) /\ d.latest["checkpoint"].id \in Nat
      BY <3>1, DbTypes, SMTT(30) DEF Saved, NextId
    <3>3. Newest(d).origin \in Nat
      BY <3>1, Zenon DEF CheckpointSet
    <3> QED
      BY <1>1, <3>1, <3>2, <3>3, SMTT(30) DEF SavesIceberg
  <2>2. \A j \in Saved(d) : d.checkpoints[j].iceberg \subseteq l /\ d.checkpoints[j].origin < j
    BY Zenon DEF SoundDb
  <2>3. r.origin < NextId(m)
    BY <1>1, <1>2, <1>4, SMTT(30)
  <2>4. \A j \in Saved(e) : e.checkpoints[j].iceberg \subseteq l /\ e.checkpoints[j].origin < j
    BY <1>2, <1>3, <2>1, <2>2, <2>3, Zenon
  <2>5. e.waiting \cup e.deleted \subseteq Saved(e)
    BY <1>3, <1>0, ZenonT(30) DEF SoundDb, SavesIceberg
  <2>6. e.waiting \cap e.deleted = {}
    <3>1. {NextId(d), NextId(m)} \cap Saved(d) = {}
      BY <1>1, <1>2, ZenonT(30)
    <3> QED
      BY <3>1, ZenonT(30) DEF SoundDb, SavesIceberg
  <2>7. \A i \in e.notes : DataFile(i) \in l
    BY ZenonT(30) DEF SoundDb, SavesIceberg
  <2> QED
    BY <1>12, <1>13, <1>14, <1>16, <2>4, <2>5, <2>6, <2>7, ZenonT(30) DEF SoundDb
<1>18. Grows(d, e)
  <2>1. \A k \in Keys : d.latest[k].version \in Nat
    BY DbTypes, ZenonT(30)
  <2>2. \A k \in Keys : /\ d.latest[k].version <= e.latest[k].version
                        /\ e.latest[k].version = d.latest[k].version => e.latest[k] = d.latest[k]
    BY <2>1, SMTT(30) DEF SavesIceberg
  <2>3. d.cleanup \cup d.cleanupClaimed \subseteq e.cleanup \cup e.cleanupClaimed
    BY Zenon DEF SavesIceberg
  <2> QED
    BY <1>3, <1>7, <2>2, <2>3, ZenonT(30) DEF Grows
<1> QED
  BY <1>17, <1>18, ZenonT(30)

----------------------------------------------------------------------------
(* Steps that only read. *)

\* What is read of an item is so.
LEMMA ReadFacts ==
  ASSUME CommitInv, NEW keys \in SUBSET Keys, NEW key \in keys
  PROVE  Remembered(Read(keys), key, db)
<1>1. db.latest[key].version \in Nat
  BY DbTypes, ZenonT(30) DEF CommitInv, CommitTyped
<1> QED
  BY <1>1, SMTT(30) DEF Remembered, Read

\* A step that only reads.
LEMMA ReadStep ==
  ASSUME CommitInv, NEW s \in Services, NEW c, DOMAIN c = CallFields, c.step # "speedboat",
         call' = [call EXCEPT ![s] = c], SoundCall(c, db, lake),
         UNCHANGED <<db, hints, indexing, compacting, cleaning, lake>>
  PROVE  CommitInv'
<1>1. db' = db /\ db' \in DbSet /\ SoundDb(db', lake) /\ Grows(db, db')
  BY StillSound, ZenonT(30)
<1> QED
  BY <1>1, TransactionStep, ZenonT(30)

\* A commit reads the extension item for a file nobody else is committing.
LEMMA SpeedboatReads ==
  ASSUME CommitInv, NEW s \in Services, NEW file, read_speedboat(s, file)
  PROVE  CommitInv'
<1> DEFINE c == [Idle EXCEPT !.step = "speedboat", !.seen = Read({"extension"}), !.arg = {file}]
<1>1. /\ call' = [call EXCEPT ![s] = c] /\ UNCHANGED <<db, hints, indexing, compacting, cleaning, lake>>
      /\ file \in CommitFiles \ db.committed /\ \A other \in Services : call[other].arg # {file}
  BY Zenon DEF read_speedboat, Goto, workers, CommitFiles
<1>2. /\ DOMAIN c = CallFields /\ c.step = "speedboat" /\ c.seen = Read({"extension"})
      /\ c.arg = {file}
  BY ZenonT(30) DEF Idle, CallFields
<1> HIDE DEF c
<1>3. db' = db /\ db \in DbSet /\ SoundDb(db, lake) /\ Grows(db, db) /\ lake' = lake
  BY <1>1, StillSound, ZenonT(30)
<1>4. Remembered(c.seen, "extension", db)
  BY <1>2, ReadFacts, KeyFacts, SMTT(30)
<1>5. SoundCall(c, db, lake)
  BY <1>2, <1>4, Zenon DEF SoundCall
<1>6. SoundCommits'
  <2>1. DOMAIN call = Services /\ SoundCommits
    BY ZenonT(30) DEF CommitInv, CommitTyped
  <2>2. call'[s] = c /\ \A t \in Services \ {s} : call'[t] = call[t]
    BY <1>1, <2>1, ZenonT(30)
  <2>3. \A t \in Committing' : t = s \/ (t # s /\ t \in Committing /\ call'[t] = call[t])
    BY <2>2, Zenon DEF Committing
  <2>4. \A t \in Committing : t \in Services /\ call[t].arg # {file}
    BY <1>1, ZenonT(30) DEF Committing
  <2> QED
    BY <1>1, <1>2, <1>3, <2>1, <2>2, <2>3, <2>4, SMTT(30) DEF SoundCommits
<1>7. /\ hints' \in [Services -> [pending : BOOLEAN, uncompacted : SUBSET Nat]]
      /\ \A t \in Services : hints'[t].uncompacted \subseteq Saved(db')
      /\ indexing' \in SUBSET LeaseSet /\ lake' \in SUBSET DataFiles
      /\ \A item \in compacting' : SoundItem(item, db')
  BY <1>1, <1>3, SameWork, ZenonT(30)
<1>8. cleaning' \subseteq db'.cleanupClaimed
  BY <1>1, ZenonT(30) DEF CommitInv
<1>9. lake \subseteq lake' /\ db' \in DbSet /\ SoundDb(db', lake') /\ Grows(db, db') /\ SoundCall(c, db', lake')
  BY <1>3, <1>5, ZenonT(30)
<1> QED
  BY <1>1, <1>2, <1>6, <1>7, <1>8, <1>9, AnyStep, ZenonT(30)

\* A claim of index work reads the queue.
LEMMA ExtensionReads ==
  ASSUME CommitInv, NEW s \in Services, read_extension_work(s)
  PROVE  CommitInv'
<1> DEFINE c == [Idle EXCEPT !.step = "claim_extension", !.seen = Read({"extension"})]
<1>1. call' = [call EXCEPT ![s] = c] /\ UNCHANGED <<db, hints, indexing, compacting, cleaning, lake>>
  BY ZenonT(30) DEF read_extension_work, Goto, workers
<1>2. DOMAIN c = CallFields /\ c.step = "claim_extension" /\ c.seen = Read({"extension"})
  BY ZenonT(30) DEF Idle, CallFields
<1> HIDE DEF c
<1>3. Remembered(c.seen, "extension", db)
  BY <1>2, ReadFacts, KeyFacts, ZenonT(30)
<1>4. SoundCall(c, db, lake) /\ c.step # "speedboat"
  BY <1>2, <1>3, ZenonT(30) DEF SoundCall
<1> QED
  BY <1>1, <1>2, <1>4, ReadStep, ZenonT(30)

\* A claim of compaction work reads its item.
LEMMA CompactionReads ==
  ASSUME CommitInv, NEW s \in Services, read_compaction_work(s)
  PROVE  CommitInv'
<1> DEFINE c == [Idle EXCEPT !.step = "claim_compaction", !.seen = Read({"compaction"})]
<1>1. call' = [call EXCEPT ![s] = c] /\ UNCHANGED <<db, hints, indexing, compacting, cleaning, lake>>
  BY ZenonT(30) DEF read_compaction_work, Goto, workers
<1>2. DOMAIN c = CallFields /\ c.step = "claim_compaction" /\ c.seen = Read({"compaction"})
  BY ZenonT(30) DEF Idle, CallFields
<1> HIDE DEF c
<1>3. Remembered(c.seen, "compaction", db)
  BY <1>2, ReadFacts, KeyFacts, ZenonT(30)
<1>4. SoundCall(c, db, lake) /\ c.step # "speedboat"
  BY <1>2, <1>3, ZenonT(30) DEF SoundCall
<1> QED
  BY <1>1, <1>2, <1>4, ReadStep, ZenonT(30)

\* commit_iceberg reads the newest checkpoint, the queue and the data files
\* of the table.
LEMMA IcebergReads ==
  ASSUME CommitInv, NEW s \in Services, NEW item, read_iceberg(s, item)
  PROVE  CommitInv'
<1> DEFINE c == [Idle EXCEPT !.step = "iceberg", !.seen = Read({"checkpoint", "extension"}),
                             !.arg = lake, !.todo = {item}]
<1>1. /\ call' = [call EXCEPT ![s] = c] /\ UNCHANGED <<db, hints, indexing, compacting, cleaning, lake>>
      /\ item \in compacting /\ item \in db.notes
  BY ZenonT(30) DEF read_iceberg, Goto, workers
<1>2. /\ DOMAIN c = CallFields /\ c.step = "iceberg" /\ c.seen = Read({"checkpoint", "extension"})
      /\ c.arg = lake /\ c.todo = {item}
  BY Zenon DEF Idle, CallFields
<1> HIDE DEF c
<1>3. {"checkpoint", "extension"} \in SUBSET Keys
  BY Zenon DEF Keys
<1>4. Remembered(c.seen, "extension", db) /\ Remembered(c.seen, "checkpoint", db)
  BY <1>2, <1>3, ReadFacts, Zenon
<1>5. SoundItem(item, db) /\ DataFile(item) \in lake
  BY <1>1, Zenon DEF CommitInv, SoundDb
<1>6. SoundCall(c, db, lake) /\ c.step # "speedboat"
  BY <1>2, <1>4, <1>5, Zenon DEF SoundCall
<1> QED
  BY <1>1, <1>2, <1>6, ReadStep, ZenonT(30)

\* A process read the cleanup items that are ready and goes on to claim
\* them.
TakesCleanup(s, ready) ==
  /\ call' = [call EXCEPT ![s] = [Idle EXCEPT !.step = "claim_cleanup", !.todo = ready]]
  /\ UNCHANGED <<db, hints, indexing, compacting, cleaning, lake>>

\* Both backends offer only items of the cleanup list.
LEMMA CleanupReads ==
  ASSUME CommitInv, NEW s \in Services, read_cleanup_work(s) \/ embedded_read_cleanup_work(s)
  PROVE  CommitInv'
<1>1. \E ready \in SUBSET db.cleanup : TakesCleanup(s, ready)
  <2>1. CASE read_cleanup_work(s)
    <3> DEFINE ready(cached) == {item \in db.cleanup \ db.cleanupClaimed :
                                   cleanup_work_item_is_ready(item, cached)}
    <3>1. /\ \E cached \in {{}, db.deleted} :
               Goto(s, [Idle EXCEPT !.step = "claim_cleanup", !.todo = ready(cached)])
          /\ UNCHANGED <<db, hints, workers, faults>>
      BY <2>1, Zenon DEF read_cleanup_work
    <3>2. \A cached : ready(cached) \in SUBSET db.cleanup
      OBVIOUS
    <3> HIDE DEF ready
    <3>3. PICK cached : Goto(s, [Idle EXCEPT !.step = "claim_cleanup", !.todo = ready(cached)])
      BY <3>1, Zenon
    <3>4. TakesCleanup(s, ready(cached))
      BY <3>1, <3>3, ZenonT(30) DEF TakesCleanup, Goto, workers
    <3> QED
      BY <3>2, <3>4, Zenon
  <2>2. CASE embedded_read_cleanup_work(s)
    <3>1. TakesCleanup(s, db.cleanup \ db.cleanupClaimed)
      BY <2>2, Zenon DEF embedded_read_cleanup_work, TakesCleanup, Goto, workers
    <3>2. db.cleanup \ db.cleanupClaimed \in SUBSET db.cleanup
      OBVIOUS
    <3> QED
      BY <3>1, <3>2, Zenon
  <2> QED
    BY <2>1, <2>2, Zenon
<1>2. PICK ready \in SUBSET db.cleanup : TakesCleanup(s, ready)
  BY <1>1, Zenon
<1> DEFINE c == [Idle EXCEPT !.step = "claim_cleanup", !.todo = ready]
<1>3. DOMAIN c = CallFields /\ c.step = "claim_cleanup" /\ c.todo = ready
  BY Zenon DEF Idle, CallFields
<1>4. call' = [call EXCEPT ![s] = c] /\ UNCHANGED <<db, hints, indexing, compacting, cleaning, lake>>
  BY <1>2, Zenon DEF TakesCleanup
<1> HIDE DEF c
<1>5. SoundCall(c, db, lake) /\ c.step # "speedboat"
  BY <1>3, ZenonT(30) DEF SoundCall
<1> QED
  BY <1>3, <1>4, <1>5, ReadStep, ZenonT(30)

\* Changing the step of a handler keeps its fields.
LEMMA StepOnly ==
  ASSUME NEW k, DOMAIN k = CallFields, NEW x
  PROVE  LET c == [k EXCEPT !.step = x]
         IN /\ DOMAIN c = CallFields /\ c.step = x /\ c.seen = k.seen /\ c.arg = k.arg
            /\ c.todo = k.todo /\ c.request = k.request
  BY Zenon DEF CallFields

\* An idle handler is at a plain step.
LEMMA IdleFacts ==
  DOMAIN Idle = CallFields /\ Idle.step = "idle" /\ Idle.todo = {}
  BY Zenon DEF Idle, CallFields

\* A step of a handler that also replaces what its process remembers.
LEMMA HintStep ==
  ASSUME CommitInv, NEW s \in Services, NEW c, DOMAIN c = CallFields, c.step # "speedboat",
         call' = [call EXCEPT ![s] = c],
         NEW h \in [pending : BOOLEAN, uncompacted : SUBSET Nat],
         h.uncompacted \subseteq Saved(db'), hints' = [hints EXCEPT ![s] = h],
         db' \in DbSet, SoundDb(db', lake), Grows(db, db'), db'.committed = db.committed,
         db'.cleanupClaimed = db.cleanupClaimed,
         SoundCall(c, db', lake),
         \A item \in compacting' : SoundItem(item, db'),
         UNCHANGED <<indexing, cleaning, lake>>
  PROVE  CommitInv'
<1>1. SoundCommits'
  BY OtherCommits, ZenonT(30)
<1>2. /\ hints \in [Services -> [pending : BOOLEAN, uncompacted : SUBSET Nat]]
      /\ \A t \in Services : hints[t].uncompacted \subseteq Saved(db')
      /\ indexing' \in SUBSET LeaseSet /\ lake' \in SUBSET DataFiles
  BY SameWork, Zenon
<1>3. /\ hints' \in [Services -> [pending : BOOLEAN, uncompacted : SUBSET Nat]]
      /\ \A t \in Services : hints'[t].uncompacted \subseteq Saved(db')
  BY <1>2, Zenon
<1>4. cleaning' \subseteq db'.cleanupClaimed /\ lake \subseteq lake' /\ lake' = lake
  BY Zenon DEF CommitInv
<1>5. SoundDb(db', lake') /\ SoundCall(c, db', lake')
  BY <1>4, Zenon
<1> QED
  BY <1>1, <1>2, <1>3, <1>4, <1>5, AnyStep, ZenonT(30)

\* A process that fails an assertion, or crashes, forgets what it held.
LEMMA RestartKeeps ==
  ASSUME CommitInv, NEW s \in Services, Restart(s), UNCHANGED <<db, indexing, compacting, cleaning, lake>>
  PROVE  CommitInv'
<1>1. db' = db /\ db' \in DbSet /\ SoundDb(db', lake) /\ Grows(db, db')
  BY StillSound, Zenon
<1>2. /\ Forgotten \in [pending : BOOLEAN, uncompacted : SUBSET Nat]
      /\ Forgotten.uncompacted \subseteq Saved(db')
  BY Zenon DEF Forgotten
<1>3. call' = [call EXCEPT ![s] = Idle] /\ hints' = [hints EXCEPT ![s] = Forgotten]
  BY Zenon DEF Restart, Goto
<1>4. Idle.step \in Plain /\ Idle.step # "speedboat" /\ DOMAIN Idle = CallFields
  BY IdleFacts, Zenon DEF Plain
<1>5. SoundCall(Idle, db', lake)
  BY <1>4, PlainCall, Zenon
<1>6. \A item \in compacting' : SoundItem(item, db')
  BY <1>1, SameWork, Zenon
<1> QED
  BY <1>1, <1>2, <1>3, <1>4, <1>5, <1>6, HintStep, ZenonT(30)

\* The updater picks up the request.
LEMMA RequestReads ==
  ASSUME CommitInv, NEW s \in Services, update_all_checkpoints(s)
  PROVE  CommitInv'
<1> DEFINE c == [Idle EXCEPT !.step = "standard", !.request = db.latest.request.version]
<1>1. call' = [call EXCEPT ![s] = c] /\ UNCHANGED <<db, hints, indexing, compacting, cleaning, lake>>
  BY Zenon DEF update_all_checkpoints, Goto, workers
<1>2. DOMAIN c = CallFields /\ c.step = "standard" /\ c.todo = {}
  BY Zenon DEF Idle, CallFields
<1> HIDE DEF c
<1>3. SoundCall(c, db, lake) /\ c.step # "speedboat"
  BY <1>2, Zenon DEF SoundCall
<1> QED
  BY <1>1, <1>2, <1>3, ReadStep, ZenonT(30)

\* The checkpoint the updater makes keeps the Iceberg files and adds the
\* commits it read.
LEMMA NewCheckpointFacts ==
  ASSUME CommitInv, NEW id \in Saved(db), NEW files
  PROVE  LET c == NewCheckpoint(id, files)
         IN /\ c \in CheckpointSet /\ c.iceberg = db.checkpoints[id].iceberg /\ c.origin = 0
            /\ c.speedboat = db.checkpoints[id].speedboat \cup (files \cap SpeedboatFiles)
            /\ c.deletes = db.checkpoints[id].deletes \cup (files \cap DeleteFiles)
<1>1. db.checkpoints[id] \in CheckpointSet
  BY DbTypes, Zenon DEF CommitInv, CommitTyped
<1> QED
  BY <1>1, ZenonT(30) DEF NewCheckpoint, CheckpointSet

\* The updater reads the newest checkpoint and the commits; the control
\* plane also changes what it remembers of compactions.
LEMMA StandardReads ==
  ASSUME CommitInv, NEW s \in Services,
         update_standard_checkpoint(s) \/ embedded_update_standard_checkpoint(s)
  PROVE  CommitInv'
<1>0. /\ DOMAIN call[s] = CallFields /\ SoundCall(call[s], db, lake) /\ call[s].step = "standard"
      /\ UNCHANGED <<db, indexing, compacting, cleaning, lake>>
      /\ hints[s] \in [pending : BOOLEAN, uncompacted : SUBSET Nat]
      /\ hints[s].uncompacted \subseteq Saved(db)
      /\ db' \in DbSet /\ SoundDb(db', lake) /\ Grows(db, db')
  <2>1. /\ call[s].step = "standard" /\ UNCHANGED <<db, indexing, compacting, cleaning, lake>>
    BY Zenon DEF update_standard_checkpoint, embedded_update_standard_checkpoint, At, workers
  <2>2. /\ DOMAIN call[s] = CallFields /\ SoundCall(call[s], db, lake)
        /\ hints[s] \in [pending : BOOLEAN, uncompacted : SUBSET Nat]
        /\ hints[s].uncompacted \subseteq Saved(db)
    BY Zenon DEF CommitInv, CommitTyped
  <2> QED
    BY <2>1, <2>2, StillSound, ZenonT(30)
<1>1. ASSUME call' = [call EXCEPT ![s] = [call[s] EXCEPT !.step = "extension"]], UNCHANGED hints
      PROVE  CommitInv'
  <2> DEFINE c == [call[s] EXCEPT !.step = "extension"]
  <2>1. DOMAIN c = CallFields /\ c.step = "extension"
    BY <1>0, StepOnly
  <2>2. call' = [call EXCEPT ![s] = c]
    BY <1>1, Zenon
  <2> HIDE DEF c
  <2>3. SoundCall(c, db, lake) /\ c.step # "speedboat"
    BY <2>1, PlainCall DEF Plain
  <2> QED
    BY <1>0, <1>1, <2>1, <2>2, <2>3, ReadStep, ZenonT(30)
<1>2. ASSUME NEW keys \in SUBSET Keys, NEW todo \in SUBSET Saved(db), "checkpoint" \in keys,
             NEW h \in [pending : BOOLEAN, uncompacted : SUBSET Nat],
             h.uncompacted \subseteq Saved(db), hints' = [hints EXCEPT ![s] = h],
             NEW c, DOMAIN c = CallFields, c.step = "checkpoint", c.seen = Read(keys), c.todo = todo,
             call' = [call EXCEPT ![s] = c]
      PROVE  CommitInv'
  <2>1. Remembered(c.seen, "checkpoint", db)
    BY <1>2, ReadFacts, Zenon
  <2>2. SoundCall(c, db', lake) /\ c.step # "speedboat"
    BY <1>0, <1>2, <2>1, ZenonT(30) DEF SoundCall
  <2>3. \A item \in compacting' : SoundItem(item, db')
    BY <1>0, SameWork, ZenonT(30)
  <2>4. db'.committed = db.committed /\ db'.cleanupClaimed = db.cleanupClaimed
        /\ h.uncompacted \subseteq Saved(db')
    BY <1>0, <1>2, Zenon
  <2> QED
    BY <1>0, <1>2, <2>2, <2>3, <2>4, HintStep, ZenonT(30)
<1>3. CASE update_standard_checkpoint(s)
  <2> DEFINE seen == Read({"checkpoint"})
             new == NewCheckpoint(seen.checkpoint.id, db.uncheckpointed)
             plan == maybe_create_compaction_work_item(s, new)
             keys == IF plan = "create" THEN {"checkpoint", "compaction"} ELSE {"checkpoint"}
             todo == IF plan = "create" THEN hints[s].uncompacted ELSE {}
             h == CASE plan = "none" -> hints[s]
                    [] plan = "defer" -> [hints[s] EXCEPT !.pending = TRUE]
                    [] plan = "create" -> [pending |-> TRUE, uncompacted |-> {}]
             c == [call[s] EXCEPT !.step = "checkpoint", !.arg = db.uncheckpointed,
                                  !.seen = Read(keys), !.todo = todo]
  <2>1. \/ call' = [call EXCEPT ![s] = [call[s] EXCEPT !.step = "extension"]] /\ UNCHANGED hints
        \/ call' = [call EXCEPT ![s] = c] /\ hints' = [hints EXCEPT ![s] = h]
    BY <1>3, ZenonT(30) DEF update_standard_checkpoint, Goto
  <2>2. Cardinality(new.speedboat) \in Nat
    <3>1. seen.checkpoint.id \in Saved(db)
      BY Zenon DEF Read, CommitInv, SoundDb, Frontiers
    <3>2. new.speedboat \in SUBSET SpeedboatFiles
      BY <3>1, NewCheckpointFacts, Zenon DEF CheckpointSet
    <3> QED
      BY <3>2, ThresholdAssumption, Zenon
  <2> HIDE DEF new
  <2>3. plan \in {"none", "defer", "create"}
    BY <1>0, <2>2, ThresholdAssumption DEF maybe_create_compaction_work_item
  <2> HIDE DEF plan
  <2>4. /\ keys \in SUBSET Keys /\ "checkpoint" \in keys /\ todo \in SUBSET Saved(db)
        /\ h \in [pending : BOOLEAN, uncompacted : SUBSET Nat] /\ h.uncompacted \subseteq Saved(db)
    BY <1>0, <2>3, ZenonT(30) DEF Keys
  <2> HIDE DEF h, keys, todo
  <2>5. DOMAIN c = CallFields /\ c.step = "checkpoint" /\ c.seen = Read(keys) /\ c.todo = todo
    BY <1>0, Zenon DEF CallFields
  <2> HIDE DEF c
  <2> QED
    BY <1>1, <1>2, <2>1, <2>4, <2>5, Zenon
<1>4. CASE embedded_update_standard_checkpoint(s)
  <2> DEFINE new == NewCheckpoint(db.latest.checkpoint.id, db.uncheckpointed)
             compact == /\ Cardinality(new.speedboat) >= CompactionThreshold
                        /\ db.latest.compaction.id = NO_WORK_ITEM
             keys == IF compact THEN {"checkpoint", "compaction"} ELSE {"checkpoint"}
             c == [call[s] EXCEPT !.step = "checkpoint", !.arg = db.uncheckpointed,
                                  !.seen = Read(keys)]
  <2>1. /\ \/ call' = [call EXCEPT ![s] = [call[s] EXCEPT !.step = "extension"]]
           \/ call' = [call EXCEPT ![s] = c]
        /\ UNCHANGED hints
    BY <1>4, ZenonT(30) DEF embedded_update_standard_checkpoint, Goto
  <2>2. keys \in SUBSET Keys /\ "checkpoint" \in keys
    BY Zenon DEF Keys
  <2> HIDE DEF keys
  <2>3. /\ DOMAIN c = CallFields /\ c.step = "checkpoint" /\ c.seen = Read(keys)
        /\ c.todo = call[s].todo
    BY <1>0, Zenon DEF CallFields
  <2> HIDE DEF c
  <2>4. call[s].todo \in SUBSET Saved(db)
    BY <1>0, ZenonT(30) DEF SoundCall
  <2>5. hints' = [hints EXCEPT ![s] = hints[s]]
    BY <2>1, Zenon DEF CommitInv, CommitTyped
  <2> QED
    BY <1>0, <1>1, <1>2, <2>1, <2>2, <2>3, <2>4, <2>5, ZenonT(30)
<1> QED
  BY <1>3, <1>4, Zenon

\* The updater looks at the next waiting checkpoint with the coverage it
\* knows.
LEMMA WaitingReads ==
  ASSUME CommitInv, NEW s \in Services, cover_waiting_checkpoint(s)
  PROVE  CommitInv'
<1> DEFINE k == call[s]
           id == Oldest(k.todo)
           rest == k.todo \ {id}
<1>1. /\ k.step = "waiting" /\ UNCHANGED <<db, indexing, compacting, cleaning, lake>>
      /\ DOMAIN k = CallFields /\ SoundCall(k, db, lake)
  BY Zenon DEF cover_waiting_checkpoint, At, workers, CommitInv, CommitTyped
<1>2. k.todo # {} /\ k.todo \subseteq Saved(db) /\ k.arg \subseteq Indexed(db)
  BY <1>1, Zenon DEF SoundCall
<1>3. \/ Restart(s)
      \/ \E x \in {"search", "mark"} :
           /\ x = "search" => current_file_paths(db.checkpoints[id]) \subseteq k.arg
           /\ call' = [call EXCEPT ![s] = [k EXCEPT !.step = x, !.high = Len(db.checkpoints)]]
           /\ UNCHANGED hints
      \/ rest # {} /\ call' = [call EXCEPT ![s] = [k EXCEPT !.todo = rest]] /\ UNCHANGED hints
      \/ /\ call' = [call EXCEPT ![s] = [Idle EXCEPT !.step = "finish", !.request = k.request]]
         /\ UNCHANGED hints
  BY ZenonT(30) DEF cover_waiting_checkpoint, Goto, fully_covered_for_extension
<1>4. CASE Restart(s)
  BY <1>1, <1>4, RestartKeeps, Zenon
<1>5. ASSUME NEW c, DOMAIN c = CallFields, c.step # "speedboat", SoundCall(c, db, lake),
             call' = [call EXCEPT ![s] = c], UNCHANGED hints
      PROVE  CommitInv'
  BY <1>1, <1>5, ReadStep, ZenonT(30)
<1>6. ASSUME NEW x \in {"search", "mark"},
             x = "search" => current_file_paths(db.checkpoints[id]) \subseteq k.arg,
             call' = [call EXCEPT ![s] = [k EXCEPT !.step = x, !.high = Len(db.checkpoints)]],
             UNCHANGED hints
      PROVE  CommitInv'
  <2> DEFINE c == [k EXCEPT !.step = x, !.high = Len(db.checkpoints)]
  <2>1. DOMAIN c = CallFields /\ c.step = x /\ c.arg = k.arg /\ c.todo = k.todo
    BY <1>1, Zenon DEF CallFields
  <2>2. call' = [call EXCEPT ![s] = c]
    BY <1>6, Zenon
  <2> HIDE DEF c, k
  <2>3. SoundCall(c, db, lake) /\ c.step # "speedboat"
    BY <1>2, <1>6, <2>1, Zenon DEF SoundCall
  <2> QED
    BY <1>5, <1>6, <2>1, <2>2, <2>3, ZenonT(30)
<1>7. ASSUME rest # {}, call' = [call EXCEPT ![s] = [k EXCEPT !.todo = rest]], UNCHANGED hints
      PROVE  CommitInv'
  <2> DEFINE c == [k EXCEPT !.todo = rest]
  <2>1. DOMAIN c = CallFields /\ c.step = "waiting" /\ c.arg = k.arg /\ c.todo = rest
    BY <1>1, Zenon DEF CallFields
  <2>2. call' = [call EXCEPT ![s] = c]
    BY <1>7, Zenon
  <2> HIDE DEF c, k
  <2>3. SoundCall(c, db, lake) /\ c.step # "speedboat"
    BY <1>2, <1>7, <2>1, Zenon DEF SoundCall
  <2> QED
    BY <1>5, <1>7, <2>1, <2>2, <2>3, ZenonT(30)
<1>8. ASSUME call' = [call EXCEPT ![s] = [Idle EXCEPT !.step = "finish", !.request = k.request]],
             UNCHANGED hints
      PROVE  CommitInv'
  <2> DEFINE c == [Idle EXCEPT !.step = "finish", !.request = k.request]
  <2>1. DOMAIN c = CallFields /\ c.step = "finish"
    BY Zenon DEF CallFields, Idle
  <2>2. call' = [call EXCEPT ![s] = c]
    BY <1>8, Zenon
  <2> HIDE DEF c
  <2>3. SoundCall(c, db, lake) /\ c.step # "speedboat"
    BY <2>1, PlainCall DEF Plain
  <2> QED
    BY <1>5, <1>8, <2>1, <2>2, <2>3, ZenonT(30)
<1> QED
  BY <1>3, <1>4, <1>6, <1>7, <1>8, Zenon

----------------------------------------------------------------------------
(* Transactions of the checkpoint updater. *)

\* A step with a quiet transaction.
LEMMA QuietStep ==
  ASSUME CommitInv, NEW s \in Services, NEW c, DOMAIN c = CallFields, c.step # "speedboat",
         call' = [call EXCEPT ![s] = c],
         db' \in DbSet, Quiet(db, db'), db'.notes = db.notes, db'.cleanupClaimed = db.cleanupClaimed,
         SoundCall(c, db', lake), UNCHANGED <<hints, indexing, compacting, cleaning, lake>>
  PROVE  CommitInv'
<1>1. db \in DbSet /\ SoundDb(db, lake)
  BY StillSound, Zenon
<1>2. \A item \in db'.notes : DataFile(item) \in lake
  BY <1>1, Zenon DEF SoundDb
<1>3. SoundDb(db', lake) /\ Grows(db, db')
  BY <1>1, <1>2, QuietKeeps, Zenon
<1>4. db'.committed = db.committed
  BY Zenon DEF Quiet
<1> QED
  BY <1>3, <1>4, TransactionStep, ZenonT(30)

\* A step to one that holds nothing over.
LEMMA PlainStep ==
  ASSUME CommitInv, NEW s \in Services, NEW c, DOMAIN c = CallFields, c.step \in Plain,
         call' = [call EXCEPT ![s] = c],
         db' \in DbSet, Quiet(db, db'), db'.notes = db.notes, db'.cleanupClaimed = db.cleanupClaimed,
         UNCHANGED <<hints, indexing, compacting, cleaning, lake>>
  PROVE  CommitInv'
<1>1. SoundCall(c, db', lake) /\ c.step # "speedboat"
  BY PlainCall DEF Plain
<1> QED
  BY <1>1, QuietStep, ZenonT(30)

\* The kinds of ids.
LEMMA IdFacts ==
  /\ \A n \in Nat : n \in Ids
  /\ \A S \in SUBSET SUBSET IndexFiles : S \in Ids
  /\ \A S \in SUBSET ItemSet : S \in Ids
  /\ \A b \in BOOLEAN : b \in Ids
<1>1. Nat \subseteq Ids /\ QueuedIds \subseteq Ids /\ ItemIds \subseteq Ids
  BY SMT, Zenon DEF Ids
<1>2. \A b \in BOOLEAN : b \in Ids
  <2>1. \A A, b : b \in BOOLEAN => b \in A \cup BOOLEAN
    OBVIOUS
  <2> QED
    BY <2>1, Zenon DEF Ids
<1>3. SUBSET SUBSET IndexFiles = QueuedIds /\ SUBSET ItemSet = ItemIds
  BY Zenon DEF QueuedIds, ItemIds
<1> QED
  BY <1>1, <1>2, <1>3, Zenon

\* Bumping the request moves no work.
LEMMA RequestFacts ==
  ASSUME CommitInv, NEW b \in BOOLEAN
  PROVE  LET e == bump_version(db, "request", b)
         IN /\ e \in DbSet /\ Quiet(db, e) /\ e.notes = db.notes
            /\ e.cleanupClaimed = db.cleanupClaimed
<1> DEFINE e == bump_version(db, "request", b)
<1>1. db \in DbSet /\ b \in Ids /\ "request" \in Keys
  <2>1. b \in Ids
    BY IdFacts, Zenon
  <2> QED
    BY <2>1, StillSound, KeyFacts, Zenon
<1>2. /\ e \in DbSet /\ OtherItems(db, e)
      /\ e.latest["request"] = [version |-> db.latest["request"].version + 1, id |-> b]
      /\ \A k \in Keys \ {"request"} : e.latest[k] = db.latest[k]
  BY <1>1, BumpFacts, SMTT(30)
<1> HIDE DEF e
<1>3. e.latest["request"].version = db.latest["request"].version + 1 /\ e.latest["request"].id \in BOOLEAN
  BY <1>2, SMTT(30)
<1>4. Quiet(db, e)
  BY <1>2, <1>3, Zenon DEF Quiet, OtherItems
<1>5. e.notes = db.notes /\ e.cleanupClaimed = db.cleanupClaimed
  BY <1>2, Zenon DEF OtherItems
<1> QED
  BY <1>2, <1>4, <1>5, Zenon DEF e

\* No change is a quiet one.
LEMMA SameDb ==
  CommitInv => db \in DbSet /\ Quiet(db, db)
  BY StillSound, Zenon DEF Quiet

\* A commit asks for publication; contention is ignored.
LEMMA QueueKeeps ==
  ASSUME CommitInv, NEW s \in Services, queue_checkpoint_publication(s)
  PROVE  CommitInv'
<1>0. /\ UNCHANGED <<hints, indexing, compacting, cleaning, lake>> /\ DOMAIN call[s] = CallFields
  BY ZenonT(30) DEF queue_checkpoint_publication, workers, CommitInv, CommitTyped
<1>1. \/ call' = [call EXCEPT ![s] = [call[s] EXCEPT !.step = "request", !.seen = Read({"request"})]]
         /\ db' = db
      \/ call' = [call EXCEPT ![s] = Idle] /\ (db' = db \/ db' = bump_version(db, "request", TRUE))
  BY ZenonT(30) DEF queue_checkpoint_publication, Goto
<1>2. ASSUME call' = [call EXCEPT ![s] = [call[s] EXCEPT !.step = "request", !.seen = Read({"request"})]],
             db' = db
      PROVE  CommitInv'
  <2> DEFINE c == [call[s] EXCEPT !.step = "request", !.seen = Read({"request"})]
  <2>1. DOMAIN c = CallFields /\ c.step = "request"
    BY <1>0, Zenon DEF CallFields
  <2>2. call' = [call EXCEPT ![s] = c]
    BY <1>2, Zenon
  <2> HIDE DEF c
  <2>3. c.step \in Plain
    BY <2>1, Zenon DEF Plain
  <2>4. /\ db' \in DbSet /\ Quiet(db, db') /\ db'.notes = db.notes
        /\ db'.cleanupClaimed = db.cleanupClaimed
    BY <1>2, SameDb, Zenon
  <2> QED
    BY <1>0, <2>1, <2>2, <2>3, <2>4, PlainStep, ZenonT(30)
<1>3. ASSUME call' = [call EXCEPT ![s] = Idle], db' = db \/ db' = bump_version(db, "request", TRUE)
      PROVE  CommitInv'
  <2>1. /\ db' \in DbSet /\ Quiet(db, db') /\ db'.notes = db.notes
        /\ db'.cleanupClaimed = db.cleanupClaimed
    BY <1>3, SameDb, RequestFacts, ZenonT(30)
  <2>2. DOMAIN Idle = CallFields /\ Idle.step \in Plain
    BY IdleFacts, Zenon DEF Plain
  <2> QED
    BY <1>0, <1>3, <2>1, <2>2, PlainStep, ZenonT(30)
<1> QED
  BY <1>1, <1>2, <1>3, ZenonT(30)

\* The updater clears the request it served.
LEMMA ClearKeeps ==
  ASSUME CommitInv, NEW s \in Services, clear_request(s)
  PROVE  CommitInv'
<1>1. /\ UNCHANGED <<hints, indexing, compacting, cleaning, lake>>
      /\ call' = [call EXCEPT ![s] = Idle] /\ (db' = db \/ db' = bump_version(db, "request", FALSE))
  BY ZenonT(30) DEF clear_request, workers, Goto
<1>2. /\ db' \in DbSet /\ Quiet(db, db') /\ db'.notes = db.notes
      /\ db'.cleanupClaimed = db.cleanupClaimed
  BY <1>1, SameDb, RequestFacts, ZenonT(30)
<1>3. DOMAIN Idle = CallFields /\ Idle.step \in Plain
  BY IdleFacts, Zenon DEF Plain
<1> QED
  BY <1>1, <1>2, <1>3, PlainStep, ZenonT(30)

\* Promotion changes only the active frontiers.
LEMMA ActiveFacts ==
  ASSUME CommitInv, NEW active \in [Selectors -> Nat]
  PROVE  LET e == [db EXCEPT !.active = active]
         IN /\ e \in DbSet /\ Quiet(db, e) /\ e.notes = db.notes
            /\ e.cleanupClaimed = db.cleanupClaimed
            /\ Saved(e) = Saved(db) /\ Indexed(e) = Indexed(db)
<1> DEFINE e == [db EXCEPT !.active = active]
<1>1. db \in DbSet
  BY StillSound, Zenon
<1>2. /\ e \in DbSet /\ e.latest = db.latest
      /\ e.checkpoints = db.checkpoints /\ e.deleted = db.deleted
      /\ e.committed = db.committed /\ e.uncheckpointed = db.uncheckpointed /\ e.waiting = db.waiting
      /\ e.extensionLeases = db.extensionLeases /\ e.indexed = db.indexed /\ e.notes = db.notes
      /\ e.cleanup = db.cleanup /\ e.cleanupClaimed = db.cleanupClaimed
  BY <1>1, ZenonT(30) DEF DbSet
<1> HIDE DEF e
<1>3. Quiet(db, e) /\ Saved(e) = Saved(db) /\ Indexed(e) = Indexed(db)
  BY <1>2, Zenon DEF Quiet, Saved, Indexed
<1> QED
  BY <1>2, <1>3, Zenon DEF e

\* And it promotes checkpoints that were saved, whatever the nodes'
\* readiness.
LEMMA PromotedFacts ==
  ASSUME CommitInv
  PROVE  /\ \A active \in promote_if_ready("none", db.latest.checkpoint.id) \cup
                          promote_if_ready("es", db.latest.search.id) : active \in [Selectors -> Nat]
         /\ \E active \in [Selectors -> Nat] :
              embedded_set_active_checkpoint_id("none", db.latest.checkpoint.id) = [db EXCEPT !.active = active]
         /\ \E active \in [Selectors -> Nat] :
              embedded_set_active_checkpoint_id("es", db.latest.search.id) = [db EXCEPT !.active = active]
<1>1. db \in DbSet /\ db.active \in [Selectors -> Nat]
  BY StillSound, DbTypes, Zenon
<1>2. db.latest.checkpoint.id \in Nat /\ db.latest.search.id \in Nat
  BY SMTT(30) DEF CommitInv, SoundDb, Frontiers, Saved
<1>3. {"none", "es"} \subseteq Selectors
  BY Zenon DEF Selectors
<1>4. /\ [db.active EXCEPT !["none"] = db.latest.checkpoint.id] \in [Selectors -> Nat]
      /\ [db.active EXCEPT !["es"] = db.latest.search.id] \in [Selectors -> Nat]
  BY <1>1, <1>2, <1>3, Zenon
<1> QED
  BY <1>1, <1>4, ZenonT(30) DEF promote_if_ready, embedded_set_active_checkpoint_id

\* The updater promotes, then reads the coverage and the waiting
\* checkpoints.
LEMMA ExtensionUpdateKeeps ==
  ASSUME CommitInv, NEW s \in Services,
         update_extension_checkpoint(s) \/ embedded_update_extension_checkpoint(s)
  PROVE  CommitInv'
<1> DEFINE k == call[s]
<1>1. /\ UNCHANGED <<hints, indexing, compacting, cleaning, lake>> /\ DOMAIN k = CallFields
  BY Zenon DEF update_extension_checkpoint, embedded_update_extension_checkpoint, workers, CommitInv, CommitTyped
<1>2. \E active \in [Selectors -> Nat] : db' = [db EXCEPT !.active = active]
  <2>1. CASE update_extension_checkpoint(s)
    BY <2>1, PromotedFacts, ZenonT(30) DEF update_extension_checkpoint
  <2>2. CASE embedded_update_extension_checkpoint(s)
    BY <2>2, PromotedFacts, ZenonT(30) DEF embedded_update_extension_checkpoint
  <2> QED
    BY <2>1, <2>2, Zenon
<1>3. /\ db' \in DbSet /\ Quiet(db, db') /\ db'.notes = db.notes
      /\ db'.cleanupClaimed = db.cleanupClaimed
      /\ Saved(db') = Saved(db) /\ Indexed(db') = Indexed(db)
  BY <1>2, ActiveFacts
<1>4. \/ call' = [call EXCEPT ![s] = [k EXCEPT !.step = "finish"]]
      \/ /\ db.waiting # {}
         /\ call' = [call EXCEPT ![s] = [k EXCEPT !.step = "waiting", !.arg = UNION db.indexed,
                                                  !.todo = db.waiting]]
  BY Zenon DEF update_extension_checkpoint, embedded_update_extension_checkpoint, Goto
<1>5. ASSUME call' = [call EXCEPT ![s] = [k EXCEPT !.step = "finish"]]
      PROVE  CommitInv'
  <2> DEFINE c == [k EXCEPT !.step = "finish"]
  <2>1. DOMAIN c = CallFields /\ c.step = "finish"
    BY <1>1, StepOnly
  <2>2. call' = [call EXCEPT ![s] = c]
    BY <1>5, Zenon
  <2> HIDE DEF c
  <2>3. c.step \in Plain
    BY <2>1, Zenon DEF Plain
  <2> QED
    BY <1>1, <1>3, <2>1, <2>2, <2>3, PlainStep, ZenonT(30)
<1>6. ASSUME db.waiting # {},
             call' = [call EXCEPT ![s] = [k EXCEPT !.step = "waiting", !.arg = UNION db.indexed,
                                                   !.todo = db.waiting]]
      PROVE  CommitInv'
  <2> DEFINE c == [k EXCEPT !.step = "waiting", !.arg = UNION db.indexed, !.todo = db.waiting]
  <2>1. DOMAIN c = CallFields /\ c.step = "waiting" /\ c.arg = Indexed(db) /\ c.todo = db.waiting
    BY <1>1, Zenon DEF CallFields, Indexed
  <2>2. call' = [call EXCEPT ![s] = c]
    BY <1>6, Zenon
  <2> HIDE DEF c
  <2>3. db.waiting \subseteq Saved(db)
    BY ZenonT(30) DEF CommitInv, SoundDb
  <2>4. SoundCall(c, db', lake) /\ c.step # "speedboat"
    BY <1>3, <1>6, <2>1, <2>3, ZenonT(30) DEF SoundCall
  <2> QED
    BY <1>1, <1>3, <2>1, <2>2, <2>4, QuietStep, ZenonT(30)
<1> QED
  BY <1>4, <1>5, <1>6, Zenon

\* The updater promotes the search frontier and asks whether work is left.
LEMMA FinishKeeps ==
  ASSUME CommitInv, NEW s \in Services, finish_update(s) \/ embedded_finish_update(s)
  PROVE  CommitInv'
<1>1. /\ UNCHANGED <<hints, indexing, compacting, cleaning, lake>> /\ DOMAIN call[s] = CallFields
  BY Zenon DEF finish_update, embedded_finish_update, workers, CommitInv, CommitTyped
<1>2. \E active \in [Selectors -> Nat] : db' = [db EXCEPT !.active = active]
  <2>1. CASE finish_update(s)
    BY <2>1, PromotedFacts, ZenonT(30) DEF finish_update
  <2>2. CASE embedded_finish_update(s)
    BY <2>2, PromotedFacts, ZenonT(30) DEF embedded_finish_update
  <2> QED
    BY <2>1, <2>2, Zenon
<1>3. /\ db' \in DbSet /\ Quiet(db, db') /\ db'.notes = db.notes
      /\ db'.cleanupClaimed = db.cleanupClaimed
  BY <1>2, ActiveFacts
<1>4. \E c \in {Idle, [call[s] EXCEPT !.step = "clear"]} : call' = [call EXCEPT ![s] = c]
  BY ZenonT(30) DEF finish_update, embedded_finish_update, Goto
<1>5. PICK c \in {Idle, [call[s] EXCEPT !.step = "clear"]} : call' = [call EXCEPT ![s] = c]
  BY <1>4, ZenonT(30)
<1>6. DOMAIN c = CallFields /\ c.step \in Plain
  <2>1. CASE c = Idle
    BY <2>1, IdleFacts, Zenon DEF Plain
  <2>2. CASE c = [call[s] EXCEPT !.step = "clear"]
    <3>1. DOMAIN c = CallFields /\ c.step = "clear"
      BY <1>1, <2>2, StepOnly, SMTT(30)
    <3> QED
      BY <3>1, Zenon DEF Plain
  <2> QED
    BY <1>5, <2>1, <2>2, Zenon
<1> QED
  BY <1>1, <1>3, <1>5, <1>6, PlainStep, ZenonT(30)

\* The updater takes a checkpoint off the waiting list.
LEMMA MarkKeeps ==
  ASSUME CommitInv, NEW s \in Services, mark_done_checkpoint_waiting(s)
  PROVE  CommitInv'
<1> DEFINE k == call[s]
           id == Oldest(k.todo)
           rest == k.todo \ {id}
           e == [db EXCEPT !.waiting = db.waiting \ {id}]
<1>1. /\ k.step = "mark" /\ UNCHANGED <<hints, indexing, compacting, cleaning, lake>>
      /\ DOMAIN k = CallFields /\ SoundCall(k, db, lake) /\ db' = e /\ db \in DbSet
  BY Zenon DEF mark_done_checkpoint_waiting, At, workers, CommitInv, CommitTyped
<1>2. k.todo # {} /\ k.todo \subseteq Saved(db) /\ k.arg \subseteq Indexed(db)
  BY <1>1, Zenon DEF SoundCall
<1>3. /\ e \in DbSet /\ e.latest = db.latest /\ e.waiting = db.waiting \ {id}
      /\ e.checkpoints = db.checkpoints /\ e.deleted = db.deleted
      /\ e.committed = db.committed /\ e.uncheckpointed = db.uncheckpointed
      /\ e.extensionLeases = db.extensionLeases /\ e.indexed = db.indexed /\ e.notes = db.notes
      /\ e.cleanup = db.cleanup /\ e.cleanupClaimed = db.cleanupClaimed
  BY <1>1, ZenonT(30) DEF DbSet
<1> HIDE DEF e
<1>4. /\ Quiet(db, e) /\ Saved(e) = Saved(db) /\ Indexed(e) = Indexed(db)
  BY <1>3, Zenon DEF Quiet, Saved, Indexed
<1>5. /\ db' \in DbSet /\ Quiet(db, db') /\ db'.notes = db.notes
      /\ db'.cleanupClaimed = db.cleanupClaimed
      /\ Saved(db') = Saved(db) /\ Indexed(db') = Indexed(db)
  BY <1>1, <1>3, <1>4, ZenonT(30)
<1>6. \/ call' = [call EXCEPT ![s] = Idle]
      \/ rest # {} /\ call' = [call EXCEPT ![s] = [k EXCEPT !.step = "waiting", !.todo = rest, !.high = 0]]
      \/ call' = [call EXCEPT ![s] = [Idle EXCEPT !.step = "finish", !.request = k.request]]
  BY ZenonT(30) DEF mark_done_checkpoint_waiting, Goto
<1>7. ASSUME NEW c, DOMAIN c = CallFields, c.step \in Plain, call' = [call EXCEPT ![s] = c]
      PROVE  CommitInv'
  BY <1>1, <1>5, <1>7, PlainStep, ZenonT(30)
<1>8. CASE call' = [call EXCEPT ![s] = Idle]
  <2>1. DOMAIN Idle = CallFields /\ Idle.step \in Plain
    BY IdleFacts, Zenon DEF Plain
  <2> QED
    BY <1>7, <1>8, <2>1, ZenonT(30)
<1>9. CASE call' = [call EXCEPT ![s] = [Idle EXCEPT !.step = "finish", !.request = k.request]]
  <2> DEFINE c == [Idle EXCEPT !.step = "finish", !.request = k.request]
  <2>1. DOMAIN c = CallFields /\ c.step \in Plain
    BY Zenon DEF CallFields, Idle, Plain
  <2> QED
    BY <1>7, <1>9, <2>1, ZenonT(30)
<1>10. ASSUME rest # {},
              call' = [call EXCEPT ![s] = [k EXCEPT !.step = "waiting", !.todo = rest, !.high = 0]]
       PROVE  CommitInv'
  <2> DEFINE c == [k EXCEPT !.step = "waiting", !.todo = rest, !.high = 0]
  <2>1. DOMAIN c = CallFields /\ c.step = "waiting" /\ c.arg = k.arg /\ c.todo = rest
    BY <1>1, Zenon DEF CallFields
  <2>2. call' = [call EXCEPT ![s] = c]
    BY <1>10, Zenon
  <2> HIDE DEF c, k
  <2>3. SoundCall(c, db', lake) /\ c.step # "speedboat"
    BY <1>2, <1>5, <1>10, <2>1, ZenonT(30) DEF SoundCall
  <2> QED
    BY <1>1, <1>5, <2>1, <2>2, <2>3, QuietStep, ZenonT(30)
<1> QED
  BY <1>6, <1>8, <1>9, <1>10, Zenon

----------------------------------------------------------------------------
(* Commits and extension work. *)

\* A transaction that succeeds finds the items as its handler read them.
LEMMA Current ==
  ASSUME NEW seen, NEW key, NEW extra, Remembered(seen, key, db),
         commit_conditional_transaction(seen, extra)
  PROVE  seen[key] = db.latest[key]
  BY Zenon DEF Remembered, commit_conditional_transaction

\* Merging files into the queued work is one new version of it.
LEMMA MergeFacts ==
  ASSUME NEW d, NEW seen, NEW files, NEW queued, UNION seen["extension"].id = queued
  PROVE  merge_extension_work_item(d, seen, files) = bump_version(d, "extension", {queued \cup files})
  BY ZenonT(30) DEF merge_extension_work_item

\* A commit that succeeded goes on to ask for publication.
LEMMA QueueFacts ==
  ASSUME NEW s
  PROVE  DOMAIN queue(s) = CallFields /\ queue(s).step = "queue"
  BY Zenon DEF queue, Idle, CallFields

\* A failed transaction leaves everything as it was.
LEMMA GiveUpKeeps ==
  ASSUME CommitInv, NEW s \in Services, call' = [call EXCEPT ![s] = Idle],
         UNCHANGED <<db, hints, indexing, compacting, cleaning, lake>>
  PROVE  CommitInv'
<1>1. DOMAIN Idle = CallFields /\ Idle.step \in Plain
  BY IdleFacts, Zenon DEF Plain
<1>2. /\ db' \in DbSet /\ Quiet(db, db') /\ db'.notes = db.notes
      /\ db'.cleanupClaimed = db.cleanupClaimed
  BY SameDb, Zenon
<1> QED
  BY <1>1, <1>2, PlainStep, ZenonT(30)

\* commit_speedboat.
LEMMA SpeedboatStep ==
  ASSUME CommitInv, NEW s \in Services, commit_speedboat(s)
  PROVE  CommitInv'
<1> DEFINE k == call[s]
           d == merge_extension_work_item(db, k.seen, k.arg \cap SpeedboatFiles)
           e == [d EXCEPT !.committed = d.committed \cup k.arg,
                          !.uncheckpointed = d.uncheckpointed \cup k.arg]
<1>1. /\ k.step = "speedboat" /\ UNCHANGED <<hints, indexing, compacting, cleaning, lake>>
      /\ SoundCall(k, db, lake) /\ DOMAIN call = Services /\ SoundCommits
  BY Zenon DEF commit_speedboat, At, workers, CommitInv, CommitTyped
<1>2. \/ call' = [call EXCEPT ![s] = Idle] /\ db' = db
      \/ /\ commit_conditional_transaction(k.seen, TRUE)
         /\ db' = e /\ call' = [call EXCEPT ![s] = queue(s)]
  BY ZenonT(30) DEF commit_speedboat, Goto
<1>3. CASE call' = [call EXCEPT ![s] = Idle] /\ db' = db
  BY <1>1, <1>3, GiveUpKeeps, ZenonT(30)
<1>4. ASSUME commit_conditional_transaction(k.seen, TRUE), db' = e,
             call' = [call EXCEPT ![s] = queue(s)]
      PROVE  CommitInv'
  <2>1. db \in DbSet /\ SoundDb(db, lake)
    BY StillSound, Zenon
  <2>2. k.seen["extension"] = db.latest["extension"]
    BY <1>1, <1>4, Current, ZenonT(30) DEF SoundCall
  <2>3. s \in Committing
    BY <1>1, Zenon DEF Committing
  <2>4. PICK f \in CommitFiles \ db.committed : k.arg = {f}
    BY <1>1, <2>3, Zenon DEF SoundCommits
  <2> DEFINE id == {Queued(db) \cup ({f} \cap SpeedboatFiles)}
  <2>5. d = bump_version(db, "extension", id)
    <3>1. UNION k.seen["extension"].id = Queued(db)
      BY <2>2, Zenon DEF Queued
    <3>2. d = bump_version(db, "extension", {Queued(db) \cup (k.arg \cap SpeedboatFiles)})
      BY <3>1, MergeFacts, ZenonT(30)
    <3> QED
      BY <2>4, <3>2, Zenon
  <2> HIDE DEF d
  <2>6. id \in SUBSET SUBSET IndexFiles
    BY <2>1, Zenon DEF SoundDb, Frontiers, Queued, IndexFiles
  <2>7. id \in Ids /\ "extension" \in Keys
    BY <2>6, IdFacts, KeyFacts, Zenon
  <2> HIDE DEF id
  <2>8. /\ d \in DbSet /\ OtherItems(db, d)
        /\ d.latest["extension"] = [version |-> db.latest["extension"].version + 1, id |-> id]
        /\ \A x \in Keys \ {"extension"} : d.latest[x] = db.latest[x]
    BY <2>1, <2>5, <2>7, BumpFacts, SMTT(30)
  <2>9. f \in CommitFiles
    BY <2>4, Zenon
  <2>10. /\ e \in DbSet /\ e.latest = d.latest
         /\ e.committed = d.committed \cup {f} /\ e.uncheckpointed = d.uncheckpointed \cup {f}
         /\ e.checkpoints = d.checkpoints /\ e.deleted = d.deleted /\ e.waiting = d.waiting
         /\ e.extensionLeases = d.extensionLeases /\ e.indexed = d.indexed /\ e.notes = d.notes
         /\ e.cleanup = d.cleanup /\ e.cleanupClaimed = d.cleanupClaimed
    BY <2>4, <2>8, <2>9, ZenonT(30) DEF DbSet
  <2> HIDE DEF e
  <2>11. /\ e.committed = db.committed \cup {f} /\ e.uncheckpointed = db.uncheckpointed \cup {f}
         /\ e.checkpoints = db.checkpoints /\ e.deleted = db.deleted /\ e.waiting = db.waiting
         /\ e.extensionLeases = db.extensionLeases /\ e.indexed = db.indexed /\ e.notes = db.notes
         /\ e.cleanup = db.cleanup /\ e.cleanupClaimed = db.cleanupClaimed
    BY <2>8, <2>10, Zenon DEF OtherItems
  <2>12. OneBump(db, e, "extension") /\ e.latest["extension"].id = id
    BY <2>8, <2>10 DEF OneBump
  <2>13. SoundDb(e, lake) /\ Grows(db, e)
    BY <2>1, <2>10, <2>11, <2>12, SpeedboatKeeps, ZenonT(30) DEF id
  <2>14. SoundCommits'
    <3>1. call'[s] = queue(s) /\ \A t \in Services \ {s} : call'[t] = call[t]
      BY <1>1, <1>4, Zenon
    <3>2. \A t \in Committing' : t # s /\ t \in Committing /\ call'[t] = call[t]
      BY <3>1, QueueFacts, Zenon DEF Committing
    <3>3. db'.committed = db.committed \cup {f}
      BY <1>4, <2>11, Zenon
    <3>4. \A t \in Committing : t # s => \E g \in CommitFiles \ (db.committed \cup {f}) : call[t].arg = {g}
      BY <1>1, <2>3, <2>4, ZenonT(30) DEF SoundCommits
    <3> QED
      BY <1>1, <3>2, <3>3, <3>4, SMTT(30) DEF SoundCommits
  <2>15. /\ hints' \in [Services -> [pending : BOOLEAN, uncompacted : SUBSET Nat]]
         /\ \A t \in Services : hints'[t].uncompacted \subseteq Saved(db')
         /\ indexing' \in SUBSET LeaseSet /\ lake' \in SUBSET DataFiles
         /\ \A item \in compacting' : SoundItem(item, db')
    BY <1>1, <1>4, <2>10, <2>13, SameWork, ZenonT(30)
  <2>16. cleaning' \subseteq db'.cleanupClaimed
    BY <1>1, <1>4, <2>11, ZenonT(30) DEF CommitInv
  <2>17. lake \subseteq lake' /\ db' \in DbSet /\ SoundDb(db', lake') /\ Grows(db, db')
    BY <1>1, <1>4, <2>10, <2>13, ZenonT(30)
  <2>18. DOMAIN queue(s) = CallFields /\ SoundCall(queue(s), db', lake')
    BY QueueFacts, PlainCall, SMTT(30) DEF Plain
  <2> QED
    BY <1>4, <2>14, <2>15, <2>16, <2>17, <2>18, AnyStep, ZenonT(30)
<1> QED
  BY <1>2, <1>3, <1>4, ZenonT(30)

\* commit_extension_work_item_taken.
LEMMA ExtensionClaimStep ==
  ASSUME CommitInv, NEW s \in Services, commit_extension_work_item_taken(s)
  PROVE  CommitInv'
<1> DEFINE k == call[s]
           item == [id |-> k.seen.extension.version, files |-> UNION k.seen.extension.id]
           d == bump_version(db, "extension", NO_WORK_ITEM)
           e == [d EXCEPT !.extensionLeases = d.extensionLeases \cup {item}]
<1>1. /\ k.step = "claim_extension" /\ UNCHANGED <<hints, compacting, cleaning, lake>>
      /\ SoundCall(k, db, lake) /\ call' = [call EXCEPT ![s] = Idle]
  BY Zenon DEF commit_extension_work_item_taken, At, Goto, CommitInv, CommitTyped
<1>2. \/ db' = db /\ indexing' = indexing
      \/ /\ commit_conditional_transaction(k.seen, TRUE)
         /\ db' = e /\ indexing' = indexing \cup {item}
  BY ZenonT(30) DEF commit_extension_work_item_taken, Goto
<1>3. CASE db' = db /\ indexing' = indexing
  BY <1>1, <1>3, GiveUpKeeps, ZenonT(30)
<1>4. ASSUME commit_conditional_transaction(k.seen, TRUE), db' = e, indexing' = indexing \cup {item}
      PROVE  CommitInv'
  <2>1. db \in DbSet /\ SoundDb(db, lake)
    BY StillSound, Zenon
  <2>2. k.seen["extension"] = db.latest["extension"]
    BY <1>1, <1>4, Current, ZenonT(30) DEF SoundCall
  <2>3. item.files = Queued(db) /\ item \in LeaseSet
    <3>1. db.latest["extension"].version \in Nat
      BY <2>1, DbTypes, KeyFacts, Zenon
    <3>2. Queued(db) \in SUBSET IndexFiles
      BY <2>1, Zenon DEF SoundDb, Frontiers, Queued
    <3> QED
      BY <2>2, <3>1, <3>2, ZenonT(30) DEF Queued, LeaseSet
  <2> HIDE DEF item
  <2>4. NO_WORK_ITEM \in Ids /\ NO_WORK_ITEM = {} /\ "extension" \in Keys
    <3>1. {} \in SUBSET SUBSET IndexFiles
      BY Zenon
    <3> QED
      BY <3>1, IdFacts, KeyFacts, Zenon DEF NO_WORK_ITEM
  <2>5. /\ d \in DbSet /\ OtherItems(db, d)
        /\ d.latest["extension"] = [version |-> db.latest["extension"].version + 1, id |-> NO_WORK_ITEM]
        /\ \A x \in Keys \ {"extension"} : d.latest[x] = db.latest[x]
    BY <2>1, <2>4, BumpFacts, SMTT(30)
  <2> HIDE DEF d
  <2>6. /\ e \in DbSet /\ e.latest = d.latest
        /\ e.committed = d.committed /\ e.uncheckpointed = d.uncheckpointed
        /\ e.checkpoints = d.checkpoints /\ e.deleted = d.deleted /\ e.waiting = d.waiting
        /\ e.extensionLeases = d.extensionLeases \cup {item} /\ e.indexed = d.indexed
        /\ e.notes = d.notes /\ e.cleanup = d.cleanup /\ e.cleanupClaimed = d.cleanupClaimed
    BY <2>3, <2>5, ZenonT(30) DEF DbSet
  <2> HIDE DEF e
  <2>7. /\ e.committed = db.committed /\ e.uncheckpointed = db.uncheckpointed
        /\ e.checkpoints = db.checkpoints /\ e.deleted = db.deleted /\ e.waiting = db.waiting
        /\ e.extensionLeases = db.extensionLeases \cup {item} /\ e.indexed = db.indexed
        /\ e.notes = db.notes /\ e.cleanup = db.cleanup /\ e.cleanupClaimed = db.cleanupClaimed
    BY <2>5, <2>6, ZenonT(30) DEF OtherItems
  <2>8. OneBump(db, e, "extension") /\ e.latest["extension"].id = {}
    BY <2>4, <2>5, <2>6 DEF OneBump
  <2>9. SoundDb(e, lake) /\ Grows(db, e)
    BY <2>1, <2>3, <2>6, <2>7, <2>8, ClaimKeeps, ZenonT(30)
  <2>10. DOMAIN Idle = CallFields /\ Idle.step # "speedboat" /\ SoundCall(Idle, db', lake')
    BY IdleFacts, PlainCall, SMTT(30) DEF Plain
  <2>11. SoundCommits'
    BY <1>1, <1>4, <2>7, <2>10, OtherCommits, ZenonT(30)
  <2>12. /\ hints' \in [Services -> [pending : BOOLEAN, uncompacted : SUBSET Nat]]
         /\ \A t \in Services : hints'[t].uncompacted \subseteq Saved(db')
         /\ indexing \in SUBSET LeaseSet /\ lake' \in SUBSET DataFiles
         /\ \A i \in compacting' : SoundItem(i, db')
    BY <1>1, <1>4, <2>6, <2>9, SameWork, ZenonT(30)
  <2>13. indexing' \in SUBSET LeaseSet
    BY <1>4, <2>3, <2>12, ZenonT(30)
  <2>14. /\ cleaning' \subseteq db'.cleanupClaimed /\ lake \subseteq lake' /\ db' \in DbSet
         /\ SoundDb(db', lake') /\ Grows(db, db')
    BY <1>1, <1>4, <2>6, <2>7, <2>9, ZenonT(30) DEF CommitInv
  <2> QED
    BY <1>1, <2>10, <2>11, <2>12, <2>13, <2>14, AnyStep, ZenonT(30)
<1> QED
  BY <1>2, <1>3, <1>4, ZenonT(30)

\* A step of a worker: no handler moves.
LEMMA WorkerStep ==
  ASSUME CommitInv, call' = call, hints' = hints,
         db' \in DbSet, SoundDb(db', lake'), Grows(db, db'), db'.committed = db.committed,
         lake \subseteq lake', lake' \in SUBSET DataFiles,
         indexing' \in SUBSET LeaseSet,
         \A item \in compacting' : SoundItem(item, db'),
         cleaning' \subseteq db'.cleanupClaimed
  PROVE  CommitInv'
<1>1. db \in DbSet /\ DOMAIN call = Services /\ SoundCommits
  BY Zenon DEF CommitInv, CommitTyped
<1>2. /\ hints' \in [Services -> [pending : BOOLEAN, uncompacted : SUBSET Nat]]
      /\ \A t \in Services : hints'[t].uncompacted \subseteq Saved(db')
  BY SameWork, Zenon
<1>3. CommitTyped'
  BY <1>1, <1>2, ZenonT(30) DEF CommitInv, CommitTyped
<1>4. \A t \in Services : SoundCall(call'[t], db', lake')
  <2> SUFFICES ASSUME NEW t \in Services
               PROVE  SoundCall(call'[t], db', lake')
    BY Zenon
  <2>1. SoundCall(call[t], db, lake)
    BY Zenon DEF CommitInv
  <2>2. SoundCall(call[t], db', lake')
    BY <1>1, <2>1, GrownCall, ZenonT(30)
  <2> QED
    BY <2>2, ZenonT(30)
<1>5. SoundCommits'
  BY <1>1, ZenonT(30) DEF SoundCommits, Committing
<1> QED
  BY <1>2, <1>3, <1>4, <1>5, ZenonT(30) DEF CommitInv

\* A worker that is gone, or that lets go of an item.
LEMMA DroppedKeeps ==
  ASSUME CommitInv, UNCHANGED <<db, call, hints, cleaning, lake>>,
         indexing' \subseteq indexing, compacting' \subseteq compacting
  PROVE  CommitInv'
<1>1. db' = db /\ db' \in DbSet /\ SoundDb(db', lake') /\ Grows(db, db')
  BY StillSound, Zenon
<1>2. /\ indexing \in SUBSET LeaseSet /\ lake \in SUBSET DataFiles
      /\ \A item \in compacting : SoundItem(item, db')
  BY <1>1, SameWork, Zenon
<1>3. /\ indexing' \in SUBSET LeaseSet /\ lake' \in SUBSET DataFiles /\ lake \subseteq lake'
      /\ \A item \in compacting' : SoundItem(item, db')
      /\ db'.committed = db.committed
  BY <1>1, <1>2, Zenon
<1>4. cleaning' \subseteq db'.cleanupClaimed
  BY Zenon DEF CommitInv
<1> QED
  BY <1>1, <1>3, <1>4, WorkerStep, Zenon

\* commit_extension_work_item_completed.
LEMMA ExtensionCompletedStep ==
  ASSUME CommitInv, NEW s \in Services, NEW item, commit_extension_work_item_completed(s, item)
  PROVE  CommitInv'
<1> DEFINE e == [db EXCEPT !.extensionLeases = db.extensionLeases \ {item},
                           !.indexed = db.indexed \cup {item.files}]
<1>1. /\ UNCHANGED <<hints, compacting, cleaning, lake>> /\ indexing' = indexing \ {item}
      /\ \/ UNCHANGED <<db, call>>
         \/ item \in db.extensionLeases /\ db' = e /\ call' = [call EXCEPT ![s] = queue(s)]
  BY Zenon DEF commit_extension_work_item_completed, Goto
<1>2. CASE UNCHANGED <<db, call>>
  BY <1>1, <1>2, DroppedKeeps, ZenonT(30)
<1>3. ASSUME item \in db.extensionLeases, db' = e, call' = [call EXCEPT ![s] = queue(s)]
      PROVE  CommitInv'
  <2>1. db \in DbSet /\ SoundDb(db, lake)
    BY StillSound, Zenon
  <2>2. item.files \in SUBSET IndexFiles
    BY <1>3, <2>1, DbTypes DEF LeaseSet
  <2>3. /\ e \in DbSet /\ e.latest = db.latest
        /\ e.extensionLeases = db.extensionLeases \ {item} /\ e.indexed = db.indexed \cup {item.files}
        /\ e.committed = db.committed /\ e.uncheckpointed = db.uncheckpointed
        /\ e.checkpoints = db.checkpoints /\ e.deleted = db.deleted /\ e.waiting = db.waiting
        /\ e.notes = db.notes /\ e.cleanup = db.cleanup /\ e.cleanupClaimed = db.cleanupClaimed
    BY <2>1, <2>2, ZenonT(30) DEF DbSet
  <2> HIDE DEF e
  <2>4. SoundDb(e, lake) /\ Grows(db, e)
    BY <1>3, <2>1, <2>3, CompletedKeeps, Zenon
  <2>5. DOMAIN queue(s) = CallFields /\ queue(s).step # "speedboat" /\ SoundCall(queue(s), db', lake')
    BY QueueFacts, PlainCall, SMTT(30) DEF Plain
  <2>6. SoundCommits'
    BY <1>3, <2>3, <2>5, OtherCommits, ZenonT(30)
  <2>7. /\ hints' \in [Services -> [pending : BOOLEAN, uncompacted : SUBSET Nat]]
        /\ \A t \in Services : hints'[t].uncompacted \subseteq Saved(db')
        /\ indexing \in SUBSET LeaseSet /\ lake' \in SUBSET DataFiles
        /\ \A i \in compacting' : SoundItem(i, db')
    BY <1>1, <1>3, <2>3, <2>4, SameWork, ZenonT(30)
  <2>8. indexing' \in SUBSET LeaseSet
    BY <1>1, <2>7, ZenonT(30)
  <2>9. /\ cleaning' \subseteq db'.cleanupClaimed /\ lake \subseteq lake' /\ db' \in DbSet
        /\ SoundDb(db', lake') /\ Grows(db, db')
    BY <1>1, <1>3, <2>3, <2>4, ZenonT(30) DEF CommitInv
  <2> QED
    BY <1>3, <2>5, <2>6, <2>7, <2>8, <2>9, AnyStep, ZenonT(30)
<1> QED
  BY <1>1, <1>2, <1>3, Zenon

----------------------------------------------------------------------------
(* Compaction and cleanup. *)

\* commit_compaction_work_item_taken.
LEMMA CompactionClaimStep ==
  ASSUME CommitInv, NEW s \in Services, commit_compaction_work_item_taken(s)
  PROVE  CommitInv'
<1> DEFINE k == call[s]
           e == bump_version(db, "compaction", NO_WORK_ITEM)
<1>1. /\ k.step = "claim_compaction" /\ UNCHANGED <<hints, indexing, cleaning, lake>>
      /\ SoundCall(k, db, lake) /\ call' = [call EXCEPT ![s] = Idle]
  BY ZenonT(30) DEF commit_compaction_work_item_taken, At, Goto, CommitInv, CommitTyped
<1>2. \/ db' = db /\ compacting' = compacting
      \/ /\ commit_conditional_transaction(k.seen, TRUE)
         /\ db' = e /\ compacting' = compacting \cup k.seen["compaction"].id
  BY ZenonT(30) DEF commit_compaction_work_item_taken, Goto
<1>3. CASE db' = db /\ compacting' = compacting
  BY <1>1, <1>3, GiveUpKeeps, ZenonT(30)
<1>4. ASSUME commit_conditional_transaction(k.seen, TRUE), db' = e,
             compacting' = compacting \cup k.seen["compaction"].id
      PROVE  CommitInv'
  <2>1. db \in DbSet /\ SoundDb(db, lake)
    BY StillSound, Zenon
  <2>2. k.seen["compaction"] = db.latest["compaction"]
    BY <1>1, <1>4, Current, ZenonT(30) DEF SoundCall
  <2>3. \A item \in k.seen["compaction"].id : SoundItem(item, db)
    BY <2>1, <2>2, ZenonT(30) DEF SoundDb, Frontiers
  <2>4. NO_WORK_ITEM \in Ids /\ NO_WORK_ITEM = {} /\ "compaction" \in Keys
    <3>1. {} \in SUBSET SUBSET IndexFiles
      OBVIOUS
    <3> QED
      BY <3>1, IdFacts, KeyFacts, Zenon DEF NO_WORK_ITEM
  <2>5. /\ e \in DbSet /\ OtherItems(db, e)
        /\ e.latest["compaction"] = [version |-> db.latest["compaction"].version + 1, id |-> NO_WORK_ITEM]
        /\ \A x \in Keys \ {"compaction"} : e.latest[x] = db.latest[x]
    BY <2>1, <2>4, BumpFacts, SMTT(30)
  <2> HIDE DEF e
  <2>6. OneBump(db, e, "compaction") /\ e.latest["compaction"].id = {}
    BY <2>4, <2>5, SMTT(30) DEF OneBump
  <2>7. SoundDb(e, lake) /\ Grows(db, e) /\ e.committed = db.committed
        /\ e.cleanupClaimed = db.cleanupClaimed
    BY <2>1, <2>5, <2>6, CompactionClaimKeeps, ZenonT(30) DEF OtherItems
  <2>8. DOMAIN Idle = CallFields /\ Idle.step # "speedboat" /\ SoundCall(Idle, db', lake')
    BY IdleFacts, PlainCall DEF Plain
  <2>9. SoundCommits'
    BY <1>1, <1>4, <2>7, <2>8, OtherCommits, ZenonT(30)
  <2>10. /\ hints' \in [Services -> [pending : BOOLEAN, uncompacted : SUBSET Nat]]
         /\ \A t \in Services : hints'[t].uncompacted \subseteq Saved(db')
         /\ indexing' \in SUBSET LeaseSet /\ lake' \in SUBSET DataFiles
         /\ \A i \in compacting : SoundItem(i, db')
    BY <1>1, <1>4, <2>5, <2>7, SameWork, ZenonT(30)
  <2>11. \A i \in compacting' : SoundItem(i, db')
    BY <1>4, <2>3, <2>7, <2>10, GrownItem, ZenonT(30)
  <2>12. /\ cleaning' \subseteq db'.cleanupClaimed /\ lake \subseteq lake' /\ db' \in DbSet
         /\ SoundDb(db', lake') /\ Grows(db, db')
    BY <1>1, <1>4, <2>5, <2>7, ZenonT(30) DEF CommitInv
  <2> QED
    BY <1>1, <2>8, <2>9, <2>10, <2>11, <2>12, AnyStep, ZenonT(30)
<1> QED
  BY <1>2, <1>3, <1>4, ZenonT(30)

\* compaction_commit: the compactor appends to the Iceberg table and notes
\* it.
LEMMA CompactionCommitStep ==
  ASSUME CommitInv, NEW s, NEW item, compaction_commit(s, item)
  PROVE  CommitInv'
<1> DEFINE e == [db EXCEPT !.notes = db.notes \cup {item}]
<1>1. /\ UNCHANGED <<call, hints, indexing, compacting, cleaning>> /\ item \in compacting
      /\ db' = e /\ lake' = lake \cup {DataFile(item)}
  BY Zenon DEF compaction_commit
<1>2. db \in DbSet /\ SoundDb(db, lake) /\ SoundItem(item, db) /\ lake \in SUBSET DataFiles
  BY <1>1, StillSound, Zenon DEF CommitInv, CommitTyped
<1>3. item \in ItemSet /\ DataFile(item) \in DataFiles
  BY <1>2, Zenon DEF SoundItem, ItemSet, DataFile, DataFiles
<1>4. /\ e \in DbSet /\ e.latest = db.latest /\ e.waiting = db.waiting
      /\ e.checkpoints = db.checkpoints /\ e.deleted = db.deleted
      /\ e.committed = db.committed /\ e.uncheckpointed = db.uncheckpointed
      /\ e.extensionLeases = db.extensionLeases /\ e.indexed = db.indexed
      /\ e.notes = db.notes \cup {item}
      /\ e.cleanup = db.cleanup /\ e.cleanupClaimed = db.cleanupClaimed
  BY <1>2, <1>3, ZenonT(30) DEF DbSet
<1> HIDE DEF e
<1>5. Quiet(db, e)
  BY <1>4, Zenon DEF Quiet
<1>6. \A i \in e.notes : DataFile(i) \in lake'
  BY <1>1, <1>2, <1>4, ZenonT(30) DEF SoundDb
<1>7. lake \subseteq lake' /\ lake' \in SUBSET DataFiles
  BY <1>1, <1>2, <1>3, Zenon
<1>8. SoundDb(e, lake') /\ Grows(db, e)
  BY <1>2, <1>4, <1>5, <1>6, <1>7, QuietKeeps, ZenonT(30)
<1>9. /\ indexing' \in SUBSET LeaseSet /\ \A i \in compacting' : SoundItem(i, db')
  BY <1>1, <1>4, <1>8, SameWork, ZenonT(30)
<1>10. /\ cleaning' \subseteq db'.cleanupClaimed /\ db' \in DbSet /\ db'.committed = db.committed
       /\ SoundDb(db', lake') /\ Grows(db, db')
  BY <1>1, <1>4, <1>8, ZenonT(30) DEF CommitInv
<1> QED
  BY <1>1, <1>7, <1>9, <1>10, WorkerStep, ZenonT(30)

\* claim_cleanup_work_item_lease.
LEMMA CleanupClaimStep ==
  ASSUME CommitInv, NEW s \in Services, claim_cleanup_work_item_lease(s)
  PROVE  CommitInv'
<1> DEFINE k == call[s]
           e == [db EXCEPT !.cleanupClaimed = db.cleanupClaimed \cup k.todo]
<1>1. /\ k.step = "claim_cleanup" /\ UNCHANGED <<hints, indexing, compacting, lake>>
      /\ SoundCall(k, db, lake) /\ call' = [call EXCEPT ![s] = Idle]
  BY Zenon DEF claim_cleanup_work_item_lease, At, Goto, CommitInv, CommitTyped
<1>2. \/ db' = db /\ cleaning' = cleaning
      \/ db' = e /\ cleaning' = cleaning \cup k.todo
  BY Zenon DEF claim_cleanup_work_item_lease, Goto
<1>3. CASE db' = db /\ cleaning' = cleaning
  BY <1>1, <1>3, GiveUpKeeps, ZenonT(30)
<1>4. ASSUME db' = e, cleaning' = cleaning \cup k.todo
      PROVE  CommitInv'
  <2>1. db \in DbSet /\ SoundDb(db, lake)
    BY StillSound, Zenon
  <2>2. k.todo \subseteq db.cleanup \cup db.cleanupClaimed
    BY <1>1, ZenonT(30) DEF SoundCall
  <2>3. k.todo \in SUBSET ItemSet
    BY <2>1, <2>2, DbTypes, ZenonT(30)
  <2> HIDE DEF k
  <2>4. /\ e \in DbSet /\ e.latest = db.latest /\ e.waiting = db.waiting
        /\ e.checkpoints = db.checkpoints /\ e.deleted = db.deleted
        /\ e.committed = db.committed /\ e.uncheckpointed = db.uncheckpointed
        /\ e.extensionLeases = db.extensionLeases /\ e.indexed = db.indexed /\ e.notes = db.notes
        /\ e.cleanup = db.cleanup /\ e.cleanupClaimed = db.cleanupClaimed \cup k.todo
    BY <2>1, <2>3, ZenonT(30) DEF DbSet
  <2> HIDE DEF e
  <2>5. Quiet(db, e) /\ \A i \in e.notes : DataFile(i) \in lake
    BY <2>1, <2>2, <2>4, ZenonT(30) DEF Quiet, SoundDb
  <2>6. SoundDb(e, lake) /\ Grows(db, e)
    BY <2>1, <2>4, <2>5, QuietKeeps, ZenonT(30)
  <2>7. DOMAIN Idle = CallFields /\ Idle.step # "speedboat" /\ SoundCall(Idle, db', lake')
    BY IdleFacts, PlainCall DEF Plain
  <2>8. SoundCommits'
    BY <1>1, <1>4, <2>4, <2>7, OtherCommits, ZenonT(30)
  <2>9. /\ hints' \in [Services -> [pending : BOOLEAN, uncompacted : SUBSET Nat]]
        /\ \A t \in Services : hints'[t].uncompacted \subseteq Saved(db')
        /\ indexing' \in SUBSET LeaseSet /\ lake' \in SUBSET DataFiles
        /\ \A i \in compacting' : SoundItem(i, db')
    BY <1>1, <1>4, <2>4, <2>6, SameWork, ZenonT(30)
  <2>10. /\ cleaning' \subseteq db'.cleanupClaimed /\ lake \subseteq lake' /\ db' \in DbSet
         /\ SoundDb(db', lake') /\ Grows(db, db')
    BY <1>1, <1>4, <2>4, <2>6, ZenonT(30) DEF CommitInv
  <2> QED
    BY <1>1, <2>7, <2>8, <2>9, <2>10, AnyStep, ZenonT(30)
<1> QED
  BY <1>2, <1>3, <1>4, Zenon

\* cleanup_commit: the item leaves the list and stays claimed.
LEMMA CleanupCommitStep ==
  ASSUME CommitInv, NEW s, NEW item, cleanup_commit(s, item)
  PROVE  CommitInv'
<1> DEFINE e == [db EXCEPT !.cleanup = db.cleanup \ {item}]
<1>1. /\ UNCHANGED <<call, hints, indexing, compacting, lake>> /\ item \in cleaning
      /\ db' = e /\ cleaning' = cleaning \ {item}
  BY Zenon DEF cleanup_commit
<1>2. db \in DbSet /\ SoundDb(db, lake) /\ cleaning \subseteq db.cleanupClaimed
  BY StillSound, Zenon DEF CommitInv
<1>3. /\ e \in DbSet /\ e.latest = db.latest /\ e.waiting = db.waiting
      /\ e.checkpoints = db.checkpoints /\ e.deleted = db.deleted
      /\ e.committed = db.committed /\ e.uncheckpointed = db.uncheckpointed
      /\ e.extensionLeases = db.extensionLeases /\ e.indexed = db.indexed
      /\ e.notes = db.notes
      /\ e.cleanup = db.cleanup \ {item} /\ e.cleanupClaimed = db.cleanupClaimed
  BY <1>2, ZenonT(30) DEF DbSet
<1> HIDE DEF e
<1>4. Quiet(db, e) /\ \A i \in e.notes : DataFile(i) \in lake
  BY <1>1, <1>2, <1>3, ZenonT(30) DEF Quiet, SoundDb
<1>5. SoundDb(e, lake) /\ Grows(db, e)
  BY <1>2, <1>3, <1>4, QuietKeeps, ZenonT(30)
<1>6. /\ indexing' \in SUBSET LeaseSet /\ \A i \in compacting' : SoundItem(i, db')
      /\ lake' \in SUBSET DataFiles
  BY <1>1, <1>3, <1>5, SameWork, ZenonT(30)
<1>7. /\ cleaning' \subseteq db'.cleanupClaimed /\ db' \in DbSet /\ db'.committed = db.committed
      /\ SoundDb(db', lake') /\ Grows(db, db') /\ lake \subseteq lake'
  BY <1>1, <1>2, <1>3, <1>5, ZenonT(30)
<1> QED
  BY <1>1, <1>6, <1>7, WorkerStep, ZenonT(30)

----------------------------------------------------------------------------
(* Checkpoints that are saved. *)

\* Nothing but checkpoints and waiting differs.
SavedOnly(d, e) ==
  /\ e.latest = d.latest /\ e.deleted = d.deleted /\ e.active = d.active
  /\ e.committed = d.committed /\ e.uncheckpointed = d.uncheckpointed
  /\ e.extensionLeases = d.extensionLeases /\ e.indexed = d.indexed /\ e.notes = d.notes
  /\ e.applied = d.applied /\ e.cleanup = d.cleanup /\ e.cleanupClaimed = d.cleanupClaimed

\* create_checkpoint saves one checkpoint, which may wait for its index.
LEMMA CreateFacts ==
  ASSUME NEW d \in DbSet, NEW c \in CheckpointSet
  PROVE  LET e == create_checkpoint(d, c)
         IN /\ e \in DbSet /\ Appends(d, e, c) /\ SavedOnly(d, e)
            /\ e.waiting \subseteq d.waiting \cup {NextId(d)}
<1> DEFINE e == create_checkpoint(d, c)
           q == Append(d.checkpoints, c)
           w == IF current_file_paths(c) = {} THEN d.waiting ELSE d.waiting \cup {NextId(d)}
<1>1. d.checkpoints \in Seq(CheckpointSet) /\ d.waiting \in SUBSET Nat /\ Len(d.checkpoints) \in Nat
  BY DbTypes, Zenon
<1>2. q \in Seq(CheckpointSet)
  BY <1>1, AppendFacts, Zenon
<1>3. w \in SUBSET Nat /\ w \subseteq d.waiting \cup {NextId(d)}
  BY <1>1 DEF NextId
<1>4. e = [d EXCEPT !.checkpoints = q, !.waiting = w]
  BY Zenon DEF create_checkpoint, NextId
<1> HIDE DEF q, w, e
<1>5. e \in DbSet /\ e.checkpoints = q /\ e.waiting = w /\ SavedOnly(d, e)
  BY <1>2, <1>3, <1>4, ZenonT(30) DEF DbSet, SavedOnly
<1>6. Appends(d, e, c)
  BY <1>5, Zenon DEF Appends, q
<1> QED
  BY <1>3, <1>5, <1>6, Zenon DEF e

\* commit_checkpoint.
LEMMA CheckpointStep ==
  ASSUME CommitInv, NEW s \in Services, commit_checkpoint(s)
  PROVE  CommitInv'
<1> DEFINE k == call[s]
           n == NextId(db)
           new == NewCheckpoint(k.seen["checkpoint"].id, k.arg)
           d0 == bump_version(db, "checkpoint", n)
           d1 == create_checkpoint(d0, new)
           d == [d1 EXCEPT !.uncheckpointed = d1.uncheckpointed \ k.arg]
           e == bump_version(d, "compaction", CompactionWorkItem(n, new, k.todo))
           h == [hints[s] EXCEPT !.uncompacted = hints[s].uncompacted \cup {n}]
           c == [Idle EXCEPT !.step = "extension", !.request = k.request]
<1>1. /\ k.step = "checkpoint" /\ UNCHANGED <<indexing, compacting, cleaning, lake>>
      /\ SoundCall(k, db, lake) /\ call' = [call EXCEPT ![s] = c]
      /\ hints \in [Services -> [pending : BOOLEAN, uncompacted : SUBSET Nat]]
      /\ hints[s].uncompacted \subseteq Saved(db)
  BY Zenon DEF commit_checkpoint, At, Goto, workers, CommitInv, CommitTyped
<1>2. \/ db' = db /\ hints' = hints
      \/ /\ commit_conditional_transaction(k.seen, k.arg \subseteq db.uncheckpointed)
         /\ db' = d \/ db' = e
         /\ hints' = hints \/ hints' = [hints EXCEPT ![s].uncompacted = hints[s].uncompacted \cup {n}]
  BY Zenon DEF commit_checkpoint, NextId
<1>3. DOMAIN c = CallFields /\ c.step \in Plain /\ c.step # "speedboat"
  BY Zenon DEF Idle, CallFields, Plain
<1> HIDE DEF c
<1>4. ASSUME db' = db, hints' = hints
      PROVE  CommitInv'
  <2>1. /\ db' \in DbSet /\ Quiet(db, db') /\ db'.notes = db.notes
        /\ db'.cleanupClaimed = db.cleanupClaimed
    BY <1>4, SameDb, Zenon
  <2> QED
    BY <1>1, <1>3, <1>4, <2>1, PlainStep, ZenonT(30)
<1>5. ASSUME commit_conditional_transaction(k.seen, k.arg \subseteq db.uncheckpointed),
             db' = d \/ db' = e,
             hints' = hints \/ hints' = [hints EXCEPT ![s].uncompacted = hints[s].uncompacted \cup {n}]
      PROVE  CommitInv'
  <2>1. db \in DbSet /\ SoundDb(db, lake)
    BY StillSound, Zenon
  <2>2. k.seen["checkpoint"] = db.latest["checkpoint"] /\ k.arg \subseteq db.uncheckpointed
    <3>1. Remembered(k.seen, "checkpoint", db)
      BY <1>1, ZenonT(30) DEF SoundCall
    <3>2. k.seen["checkpoint"] = db.latest["checkpoint"]
      BY <1>5, <3>1, Current, ZenonT(30)
    <3> QED
      BY <1>5, <3>2, Zenon DEF commit_conditional_transaction
  <2>3. k.seen["checkpoint"].id \in Saved(db) /\ db.checkpoints[k.seen["checkpoint"].id] = Newest(db)
    BY <2>1, <2>2, ZenonT(30) DEF SoundDb, Frontiers, Newest
  <2>4. k.todo \in SUBSET Saved(db)
    BY <1>1, ZenonT(30) DEF SoundCall
  <2>5. /\ new \in CheckpointSet /\ new.iceberg = Newest(db).iceberg /\ new.origin = 0
        /\ new.speedboat = Newest(db).speedboat \cup (k.arg \cap SpeedboatFiles)
        /\ new.deletes = Newest(db).deletes \cup (k.arg \cap DeleteFiles)
    BY <2>3, NewCheckpointFacts, SMTT(30)
  <2> HIDE DEF new, k
  <2>6. n \in Nat /\ n \in Ids /\ {"checkpoint", "compaction"} \subseteq Keys
    <3>1. n \in Nat
      BY <2>1, DbTypes DEF NextId
    <3> QED
      BY <3>1, IdFacts, KeyFacts, ZenonT(30)
  <2>7. /\ d0 \in DbSet /\ OtherItems(db, d0)
        /\ d0.latest["checkpoint"] = [version |-> db.latest["checkpoint"].version + 1, id |-> n]
        /\ \A x \in Keys \ {"checkpoint"} : d0.latest[x] = db.latest[x]
    BY <2>1, <2>6, BumpFacts, SMTT(30)
  <2> HIDE DEF d0
  <2>8. /\ d1 \in DbSet /\ Appends(d0, d1, new) /\ SavedOnly(d0, d1)
        /\ d1.waiting \subseteq d0.waiting \cup {NextId(d0)}
    BY <2>5, <2>7, CreateFacts, ZenonT(30)
  <2> HIDE DEF d1
  <2>9. NextId(d0) = n /\ Appends(db, d1, new)
    BY <2>7, <2>8, ZenonT(30) DEF NextId, OtherItems, Appends
  <2>10. /\ d \in DbSet /\ d.uncheckpointed = d1.uncheckpointed \ k.arg /\ d.checkpoints = d1.checkpoints
         /\ d.latest = d1.latest /\ d.waiting = d1.waiting /\ d.deleted = d1.deleted
         /\ d.committed = d1.committed /\ d.extensionLeases = d1.extensionLeases
         /\ d.indexed = d1.indexed /\ d.notes = d1.notes /\ d.cleanup = d1.cleanup
         /\ d.cleanupClaimed = d1.cleanupClaimed
    BY <2>8, ZenonT(30) DEF DbSet
  <2> HIDE DEF d
  <2>11. /\ d.uncheckpointed = db.uncheckpointed \ k.arg
         /\ d.waiting \subseteq db.waiting \cup {n} /\ d.deleted = db.deleted
         /\ d.committed = db.committed /\ d.extensionLeases = db.extensionLeases
         /\ d.indexed = db.indexed /\ d.notes = db.notes /\ d.cleanup = db.cleanup
         /\ d.cleanupClaimed = db.cleanupClaimed /\ d.latest = d0.latest
    BY <2>7, <2>8, <2>9, <2>10, ZenonT(30) DEF OtherItems, SavedOnly
  <2>12. /\ d.latest["checkpoint"].version = db.latest["checkpoint"].version + 1
         /\ d.latest["checkpoint"].id = n
         /\ \A x \in Keys \ {"checkpoint"} : d.latest[x] = db.latest[x]
         /\ Appends(db, d, new)
    BY <2>7, <2>9, <2>10, <2>11, SMTT(30) DEF Appends
  <2>13. d.latest["compaction"] = db.latest["compaction"]
    BY <2>12, ZenonT(30) DEF Keys
  <2>14. SavesCheckpoint(db, d, new, k.arg, k.todo)
    BY <2>2, <2>4, <2>5, <2>11, <2>12, <2>13, ZenonT(30) DEF SavesCheckpoint
  <2>15. e \in DbSet /\ SavesCheckpoint(db, e, new, k.arg, k.todo)
    <3> DEFINE w == CompactionWorkItem(n, new, k.todo)
    <3>1. w \in SUBSET ItemSet
      <4>1. new.speedboat \in SUBSET SpeedboatFiles /\ new.deletes \in SUBSET DeleteFiles
        BY <2>5, ZenonT(30) DEF CheckpointSet
      <4>2. k.todo \in SUBSET Nat
        BY <2>4, SMTT(30) DEF Saved
      <4>3. [id |-> n, speedboat |-> new.speedboat, deletes |-> new.deletes, replaced |-> k.todo] \in ItemSet
        BY <2>6, <4>1, <4>2, ZenonT(30) DEF ItemSet
      <4> QED
        BY <4>3, Zenon DEF CompactionWorkItem
    <3>2. w \in Ids
      BY <3>1, IdFacts, Zenon
    <3> HIDE DEF w
    <3>3. /\ e \in DbSet /\ OtherItems(d, e)
          /\ e.latest["compaction"] = [version |-> d.latest["compaction"].version + 1, id |-> w]
          /\ \A x \in Keys \ {"compaction"} : e.latest[x] = d.latest[x]
      BY <2>6, <2>10, <3>2, BumpFacts, ZenonT(30) DEF w
    <3> HIDE DEF e
    <3>4. /\ e.latest["compaction"].version = db.latest["compaction"].version + 1
          /\ e.latest["compaction"].id = w
      BY <2>13, <3>3, SMTT(30)
    <3>5. /\ e.latest["checkpoint"] = d.latest["checkpoint"]
          /\ \A x \in Keys \ {"checkpoint", "compaction"} : e.latest[x] = db.latest[x]
      BY <2>12, <3>3, Zenon DEF Keys
    <3>6. Appends(db, e, new)
      BY <2>12, <3>3, ZenonT(30) DEF Appends, OtherItems
    <3>7. /\ e.uncheckpointed = db.uncheckpointed \ k.arg
          /\ e.waiting \subseteq db.waiting \cup {n} /\ e.deleted = db.deleted
          /\ e.committed = db.committed /\ e.extensionLeases = db.extensionLeases
          /\ e.indexed = db.indexed /\ e.notes = db.notes /\ e.cleanup = db.cleanup
          /\ e.cleanupClaimed = db.cleanupClaimed
      BY <2>11, <3>3, ZenonT(30) DEF OtherItems
    <3>8. SavesCheckpoint(db, e, new, k.arg, k.todo)
      BY <2>2, <2>4, <2>5, <2>12, <3>4, <3>5, <3>6, <3>7, ZenonT(30) DEF SavesCheckpoint, w
    <3> QED
      BY <3>3, <3>8, ZenonT(30)
  <2> HIDE DEF e
  <2>16. db' \in DbSet /\ SavesCheckpoint(db, db', new, k.arg, k.todo)
    BY <1>5, <2>10, <2>14, <2>15, ZenonT(30)
  <2>17. SoundDb(db', lake) /\ Grows(db, db')
    BY <2>1, <2>16, CheckpointKeeps, ZenonT(30)
  <2>18. db'.committed = db.committed /\ db'.cleanupClaimed = db.cleanupClaimed
    BY <2>16, ZenonT(30) DEF SavesCheckpoint
  <2>19. n \in Saved(db') /\ Saved(db) \subseteq Saved(db')
    BY <2>1, <2>16, SavedFacts, SMTT(30) DEF SavesCheckpoint
  <2>20. \E g \in [pending : BOOLEAN, uncompacted : SUBSET Nat] :
           g.uncompacted \subseteq Saved(db') /\ hints' = [hints EXCEPT ![s] = g]
    <3>1. hints[s] \in [pending : BOOLEAN, uncompacted : SUBSET Nat]
      BY <1>1, ZenonT(30)
    <3>2. h \in [pending : BOOLEAN, uncompacted : SUBSET Nat] /\ h.uncompacted = hints[s].uncompacted \cup {n}
      BY <2>6, <3>1, ZenonT(30)
    <3>3. hints[s].uncompacted \subseteq Saved(db') /\ h.uncompacted \subseteq Saved(db')
      BY <1>1, <2>19, <3>2, ZenonT(30)
    <3>4. CASE hints' = hints
      BY <1>1, <3>1, <3>3, <3>4, ZenonT(30)
    <3>5. CASE hints' = [hints EXCEPT ![s].uncompacted = hints[s].uncompacted \cup {n}]
      <4>1. hints' = [hints EXCEPT ![s] = h]
        BY <1>1, <3>5, ZenonT(30)
      <4> QED
        BY <3>2, <3>3, <4>1, ZenonT(30)
    <3> QED
      BY <1>5, <3>4, <3>5, ZenonT(30)
  <2>21. SoundCall(c, db', lake)
    BY <1>3, PlainCall, ZenonT(30)
  <2>22. \A item \in compacting' : SoundItem(item, db')
    BY <1>1, <2>16, <2>17, SameWork, ZenonT(30)
  <2> QED
    BY <1>1, <1>3, <2>16, <2>17, <2>18, <2>20, <2>21, <2>22, HintStep, ZenonT(30)
<1> QED
  BY <1>2, <1>4, <1>5, ZenonT(30)

\* commit_search_checkpoint.
LEMMA SearchStep ==
  ASSUME CommitInv, NEW s \in Services, commit_search_checkpoint(s)
  PROVE  CommitInv'
<1> DEFINE k == call[s]
           i == Oldest(k.todo)
           copy == [db.checkpoints[i] EXCEPT !.origin = IF db.checkpoints[i].origin = 0 THEN i
                                                        ELSE db.checkpoints[i].origin]
           d == bump_version(db, "search", NextId(db))
           e == [d EXCEPT !.checkpoints = Append(d.checkpoints, copy)]
           c == [k EXCEPT !.step = "mark"]
<1>1. /\ k.step = "search" /\ UNCHANGED <<hints, indexing, compacting, cleaning, lake>>
      /\ SoundCall(k, db, lake) /\ call' = [call EXCEPT ![s] = c] /\ DOMAIN k = CallFields
      /\ db' = db \/ db' = e
  BY Zenon DEF commit_search_checkpoint, At, Goto, workers, CommitInv, CommitTyped, NextId
<1>2. /\ k.todo # {} /\ k.todo \subseteq Saved(db) /\ k.arg \subseteq Indexed(db)
      /\ current_file_paths(db.checkpoints[i]) \subseteq k.arg
  BY <1>1, ZenonT(30) DEF SoundCall
<1>3. DOMAIN c = CallFields /\ c.step = "mark" /\ c.todo = k.todo /\ c.arg = k.arg
  BY <1>1, StepOnly, SMTT(30)
<1> HIDE DEF c
<1>4. db \in DbSet /\ SoundDb(db, lake) /\ Grows(db, db)
  BY StillSound, Zenon
<1>5. i \in Saved(db)
  BY <1>2, <1>4, DbTypes, OldestFacts, ZenonT(30) DEF Saved
<1> HIDE DEF k, i
<1>6. /\ copy \in CheckpointSet /\ copy.iceberg = db.checkpoints[i].iceberg
      /\ copy.speedboat = db.checkpoints[i].speedboat
      /\ copy.origin \in {i, db.checkpoints[i].origin}
  <2>1. db.checkpoints[i] \in CheckpointSet /\ i \in Nat
    BY <1>4, <1>5, DbTypes, SMTT(30) DEF Saved
  <2> QED
    BY <2>1, ZenonT(30) DEF CheckpointSet
<1>7. current_file_paths(copy) \subseteq Indexed(db)
  BY <1>2, <1>6, Zenon DEF current_file_paths
<1> HIDE DEF copy
<1>8. NextId(db) \in Ids /\ "search" \in Keys
  <2>1. NextId(db) \in Nat
    BY <1>4, DbTypes, SMTT(30) DEF NextId
  <2> QED
    BY <2>1, IdFacts, KeyFacts, ZenonT(30)
<1>9. /\ d \in DbSet /\ OtherItems(db, d)
      /\ d.latest["search"] = [version |-> db.latest["search"].version + 1, id |-> NextId(db)]
      /\ \A x \in Keys \ {"search"} : d.latest[x] = db.latest[x]
  BY <1>4, <1>8, BumpFacts, ZenonT(30)
<1> HIDE DEF d
<1>10. Append(d.checkpoints, copy) \in Seq(CheckpointSet)
  BY <1>6, <1>9, DbTypes, AppendFacts, ZenonT(30)
<1>11. /\ e \in DbSet /\ e.checkpoints = Append(d.checkpoints, copy) /\ e.latest = d.latest
       /\ e.waiting = d.waiting /\ e.deleted = d.deleted /\ e.uncheckpointed = d.uncheckpointed
       /\ e.committed = d.committed /\ e.extensionLeases = d.extensionLeases
       /\ e.indexed = d.indexed /\ e.notes = d.notes /\ e.cleanup = d.cleanup
       /\ e.cleanupClaimed = d.cleanupClaimed
  BY <1>9, <1>10, ZenonT(30) DEF DbSet
<1> HIDE DEF e
<1>12. Appends(db, e, copy) /\ OneBump(db, e, "search") /\ e.latest["search"].id = NextId(db)
  BY <1>6, <1>9, <1>11, SMTT(30) DEF Appends, OneBump, OtherItems
<1>13. SavesSearch(db, e, copy, i)
  BY <1>5, <1>6, <1>7, <1>9, <1>11, <1>12, ZenonT(30) DEF SavesSearch, OtherItems
<1>14. SoundDb(e, lake) /\ Grows(db, e) /\ e.committed = db.committed /\ e.cleanupClaimed = db.cleanupClaimed
  BY <1>4, <1>11, <1>13, SearchKeeps, ZenonT(30) DEF SavesSearch
<1>15. /\ db' \in DbSet /\ SoundDb(db', lake) /\ Grows(db, db')
       /\ db'.committed = db.committed /\ db'.cleanupClaimed = db.cleanupClaimed
  BY <1>1, <1>4, <1>11, <1>14, ZenonT(30)
<1>16. SoundCall(c, db', lake) /\ c.step # "speedboat"
  <2>1. k.todo \subseteq Saved(db') /\ k.arg \subseteq Indexed(db')
    BY <1>2, <1>15, ZenonT(30) DEF Grows
  <2> QED
    BY <1>2, <1>3, <2>1, ZenonT(30) DEF SoundCall
<1> QED
  BY <1>1, <1>3, <1>15, <1>16, TransactionStep, ZenonT(30)

\* What commit_iceberg adds to the checkpoints it saved.
Finishes(d, e, item, gone) ==
  /\ e.checkpoints = d.checkpoints /\ e.latest = d.latest
  /\ e.waiting \subseteq d.waiting \ gone /\ e.deleted = d.deleted \cup gone
  /\ e.committed = d.committed /\ e.uncheckpointed = d.uncheckpointed
  /\ e.extensionLeases = d.extensionLeases /\ e.indexed = d.indexed /\ e.notes = d.notes
  /\ e.cleanup = d.cleanup \cup {item} /\ e.cleanupClaimed = d.cleanupClaimed

\* Whoever finishes it so leaves a sound database.
CanFinish(d, item) ==
  \A e \in DbSet, gone \in SUBSET Saved(db) :
     Finishes(d, e, item, gone) => /\ SoundDb(e, lake) /\ Grows(db, e)
                                   /\ e.committed = db.committed
                                   /\ e.cleanupClaimed = db.cleanupClaimed

\* The two checkpoints of commit_iceberg, saved.
BothSaved(seen, files, item, r) ==
  create_checkpoint(create_checkpoint(merge_extension_work_item(
    bump_version(db, "checkpoint", NextId(db)), seen, files),
    clone_and_apply(db.checkpoints[seen["checkpoint"].id], files, item)), r)

\* Both backends save two checkpoints in commit_iceberg, and what they add
\* to them afterwards leaves the items sound.
LEMMA IcebergSaves ==
  ASSUME CommitInv, NEW seen, NEW files \in SUBSET lake, NEW item, SoundItem(item, db),
         NEW r \in CheckpointSet, r.iceberg \subseteq lake, r.origin <= NextId(db),
         Remembered(seen, "extension", db), Remembered(seen, "checkpoint", db),
         commit_conditional_transaction(seen, TRUE)
  PROVE  /\ BothSaved(seen, files, item, r) \in DbSet
         /\ CanFinish(BothSaved(seen, files, item, r), item)
<1> DEFINE new == clone_and_apply(db.checkpoints[seen["checkpoint"].id], files, item)
           a == bump_version(db, "checkpoint", NextId(db))
           b == merge_extension_work_item(a, seen, files)
           m == create_checkpoint(b, new)
           id == {Queued(db) \cup files}
           d == BothSaved(seen, files, item, r)
<1>1. db \in DbSet /\ SoundDb(db, lake) /\ lake \in SUBSET DataFiles
  BY StillSound, ZenonT(30) DEF CommitInv, CommitTyped
<1>2. /\ seen["checkpoint"] = db.latest["checkpoint"] /\ seen["extension"] = db.latest["extension"]
  BY Current, ZenonT(30)
<1>3. /\ seen["checkpoint"].id \in Saved(db) /\ db.checkpoints[seen["checkpoint"].id] = Newest(db)
      /\ Newest(db) \in CheckpointSet
  BY <1>1, <1>2, DbTypes, ZenonT(30) DEF SoundDb, Frontiers, Newest
<1>4. /\ new \in CheckpointSet /\ new.iceberg = files /\ new.origin = Newest(db).origin
      /\ new.speedboat = Newest(db).speedboat \ item.speedboat
      /\ new.deletes = Newest(db).deletes \ item.deletes
  <2>1. files \in SUBSET DataFiles
    BY <1>1, ZenonT(30)
  <2>2. new = clone_and_apply(Newest(db), files, item)
    BY <1>3, Zenon
  <2> HIDE DEF new
  <2> QED
    BY <1>3, <2>1, <2>2, ZenonT(30) DEF clone_and_apply, CheckpointSet
<1>5. NextId(db) \in Ids /\ "checkpoint" \in Keys /\ "extension" \in Keys
  <2>1. NextId(db) \in Nat
    BY <1>1, DbTypes, SMTT(30) DEF NextId
  <2> QED
    BY <2>1, IdFacts, KeyFacts, ZenonT(30)
<1>6. d = create_checkpoint(m, r)
  BY ZenonT(30) DEF BothSaved
<1> HIDE DEF new, d
<1>7. /\ a \in DbSet /\ OtherItems(db, a)
      /\ a.latest["checkpoint"] = [version |-> db.latest["checkpoint"].version + 1, id |-> NextId(db)]
      /\ \A x \in Keys \ {"checkpoint"} : a.latest[x] = db.latest[x]
  BY <1>1, <1>5, BumpFacts, SMTT(30)
<1> HIDE DEF a
<1>8. b = bump_version(a, "extension", id)
  <2>1. UNION seen["extension"].id = Queued(db)
    BY <1>2, Zenon DEF Queued
  <2> QED
    BY <2>1, MergeFacts, ZenonT(30)
<1> HIDE DEF b
<1>9. id \in SUBSET SUBSET IndexFiles
  BY <1>1, ZenonT(30) DEF SoundDb, Frontiers, Queued, IndexFiles
<1>10. id \in Ids
  BY <1>9, IdFacts, ZenonT(30)
<1> HIDE DEF id
<1>11. /\ b \in DbSet /\ OtherItems(a, b)
       /\ b.latest["extension"] = [version |-> a.latest["extension"].version + 1, id |-> id]
       /\ \A x \in Keys \ {"extension"} : b.latest[x] = a.latest[x]
  BY <1>5, <1>7, <1>8, <1>10, BumpFacts, SMTT(30)
<1>12. /\ m \in DbSet /\ Appends(b, m, new) /\ SavedOnly(b, m)
       /\ m.waiting \subseteq b.waiting \cup {NextId(b)}
  BY <1>4, <1>11, CreateFacts, ZenonT(30)
<1> HIDE DEF m
<1>13. /\ d \in DbSet /\ Appends(m, d, r) /\ SavedOnly(m, d)
       /\ d.waiting \subseteq m.waiting \cup {NextId(m)}
  BY <1>6, <1>12, CreateFacts, ZenonT(30)
<1>14. NextId(b) = NextId(db) /\ Appends(db, m, new)
  BY <1>7, <1>11, <1>12, ZenonT(30) DEF NextId, OtherItems, Appends
<1>15. /\ d.waiting \subseteq db.waiting \cup {NextId(db), NextId(m)} /\ d.deleted = db.deleted
       /\ d.committed = db.committed /\ d.uncheckpointed = db.uncheckpointed
       /\ d.extensionLeases = db.extensionLeases /\ d.indexed = db.indexed /\ d.notes = db.notes
       /\ d.cleanup = db.cleanup /\ d.cleanupClaimed = db.cleanupClaimed /\ d.latest = b.latest
  <2>1. d.waiting \subseteq db.waiting \cup {NextId(db), NextId(m)}
    BY <1>7, <1>11, <1>12, <1>13, <1>14, ZenonT(30) DEF OtherItems
  <2> QED
    BY <1>7, <1>11, <1>12, <1>13, <2>1, ZenonT(30) DEF OtherItems, SavedOnly
<1>16. /\ d.latest["checkpoint"].version = db.latest["checkpoint"].version + 1
       /\ d.latest["checkpoint"].id = NextId(db)
       /\ d.latest["extension"].version = db.latest["extension"].version + 1
       /\ d.latest["extension"].id = {Queued(db) \cup files}
       /\ \A x \in Keys \ {"checkpoint", "extension"} : d.latest[x] = db.latest[x]
  <2>1. "extension" \in Keys \ {"checkpoint"} /\ "checkpoint" \in Keys \ {"extension"}
    BY ZenonT(30) DEF Keys
  <2>2. d.latest["checkpoint"] = a.latest["checkpoint"] /\ a.latest["extension"] = db.latest["extension"]
    BY <1>7, <1>11, <1>15, <2>1, ZenonT(30)
  <2>3. /\ d.latest["checkpoint"].version = db.latest["checkpoint"].version + 1
        /\ d.latest["checkpoint"].id = NextId(db)
    BY <1>7, <2>2, SMTT(30)
  <2>4. /\ d.latest["extension"].version = db.latest["extension"].version + 1
        /\ d.latest["extension"].id = {Queued(db) \cup files}
    BY <1>11, <1>15, <2>2, SMTT(30) DEF id
  <2>5. \A x \in Keys \ {"checkpoint", "extension"} : d.latest[x] = db.latest[x]
    <3>1. /\ \A x \in Keys \ {"checkpoint"} : a.latest[x] = db.latest[x]
          /\ \A x \in Keys \ {"extension"} : b.latest[x] = a.latest[x]
          /\ d.latest = b.latest
      BY <1>7, <1>11, <1>15, ZenonT(30)
    <3> QED
      BY <3>1, Zenon
  <2> QED
    BY <2>3, <2>4, <2>5, ZenonT(30)
<1>17. ASSUME NEW e \in DbSet, NEW gone \in SUBSET Saved(db), Finishes(d, e, item, gone)
       PROVE  /\ SoundDb(e, lake) /\ Grows(db, e) /\ e.committed = db.committed
              /\ e.cleanupClaimed = db.cleanupClaimed
  <2>1. Appends(m, e, r)
    BY <1>13, <1>17, ZenonT(30) DEF Appends, Finishes
  <2>2. /\ e.committed = db.committed /\ e.uncheckpointed = db.uncheckpointed
        /\ e.extensionLeases = db.extensionLeases /\ e.indexed = db.indexed /\ e.notes = db.notes
        /\ e.cleanup = db.cleanup \cup {item} /\ e.cleanupClaimed = db.cleanupClaimed
        /\ e.waiting \subseteq (db.waiting \cup {NextId(db), NextId(m)}) \ gone
        /\ e.deleted = db.deleted \cup gone /\ e.latest = d.latest
    BY <1>15, <1>17, ZenonT(30) DEF Finishes
  <2>3. SavesIceberg(db, e, m, new, r, item, files, gone)
    BY <1>4, <1>12, <1>14, <1>16, <1>17, <2>1, <2>2, ZenonT(30) DEF SavesIceberg
  <2>4. r.origin \in Nat
    BY Zenon DEF CheckpointSet
  <2>5. SoundDb(e, lake) /\ Grows(db, e)
    BY <1>1, <2>3, <2>4, IcebergKeeps, ZenonT(30)
  <2> QED
    BY <2>2, <2>5, ZenonT(30)
<1> QED
  BY <1>13, <1>17, ZenonT(30) DEF CanFinish, d

\* The item that commit_iceberg works on is the one it was called with.
LEMMA OnlyItem ==
  ASSUME NEW x, NEW S, S = {x}
  PROVE  (CHOOSE i \in S : TRUE) = x
  OBVIOUS

\* commit_iceberg of the control plane: the compacted checkpoint is
\* replaced, and it and the ones committed meanwhile are deleted.
LEMMA IcebergStep ==
  ASSUME CommitInv, NEW s \in Services, commit_iceberg(s)
  PROVE  CommitInv'
<1> DEFINE k == call[s]
<1>1. /\ k.step = "iceberg" /\ UNCHANGED <<indexing, cleaning, lake>> /\ SoundCall(k, db, lake)
      /\ hints[s] \in [pending : BOOLEAN, uncompacted : SUBSET Nat]
      /\ hints \in [Services -> [pending : BOOLEAN, uncompacted : SUBSET Nat]]
      /\ hints[s].uncompacted \subseteq Saved(db)
  BY ZenonT(30) DEF commit_iceberg, At, CommitInv, CommitTyped
<1>2. PICK item : k.todo = {item} /\ SoundItem(item, db) /\ DataFile(item) \in lake
  BY <1>1, ZenonT(30) DEF SoundCall
<1>3. (CHOOSE i \in k.todo : TRUE) = item
  BY <1>2, OnlyItem, Zenon
<1> DEFINE r == apply_compaction_for_replacement(db.checkpoints[item.id], item)
           d == BothSaved(k.seen, k.arg, item, r)
           gone == {item.id} \cup item.replaced
           d2 == delete_checkpoints(d, gone)
           e == [d2 EXCEPT !.applied = d2.applied \cup {item.id}, !.cleanup = d2.cleanup \cup {item}]
           h == [hints[s] EXCEPT !.pending = FALSE]
<1>4. \/ Restart(s) /\ UNCHANGED <<db, compacting>>
      \/ /\ commit_conditional_transaction(k.seen, TRUE) /\ db' = e
         /\ compacting' = compacting \ {item} /\ call' = [call EXCEPT ![s] = queue(s)]
         /\ hints' = [hints EXCEPT ![s].pending = FALSE]
      \/ call' = [call EXCEPT ![s] = Idle] /\ UNCHANGED <<db, hints, compacting>>
  BY <1>3, ZenonT(30) DEF commit_iceberg, Goto, NextId, BothSaved
<1>5. CASE Restart(s) /\ UNCHANGED <<db, compacting>>
  BY <1>1, <1>5, RestartKeeps, ZenonT(30)
<1>6. CASE call' = [call EXCEPT ![s] = Idle] /\ UNCHANGED <<db, hints, compacting>>
  BY <1>1, <1>6, GiveUpKeeps, ZenonT(30)
<1>7. ASSUME commit_conditional_transaction(k.seen, TRUE), db' = e,
             compacting' = compacting \ {item}, call' = [call EXCEPT ![s] = queue(s)],
             hints' = [hints EXCEPT ![s].pending = FALSE]
      PROVE  CommitInv'
  <2>1. db \in DbSet /\ SoundDb(db, lake) /\ lake \in SUBSET DataFiles
    BY StillSound, ZenonT(30) DEF CommitInv, CommitTyped
  <2>2. /\ item \in ItemSet /\ item.id \in Saved(db) /\ gone \in SUBSET Saved(db)
    BY <1>2, ZenonT(30) DEF SoundItem
  <2>3. /\ r \in CheckpointSet /\ r.iceberg \subseteq lake /\ r.origin = item.id
    <3>1. db.checkpoints[item.id] \in CheckpointSet /\ db.checkpoints[item.id].iceberg \subseteq lake
      BY <2>1, <2>2, DbTypes, ZenonT(30) DEF SoundDb
    <3>2. db.checkpoints[item.id].iceberg \cup {DataFile(item)} \subseteq lake
      BY <1>2, <3>1, ZenonT(30)
    <3>3. /\ db.checkpoints[item.id].speedboat \in SUBSET SpeedboatFiles
          /\ db.checkpoints[item.id].deletes \in SUBSET DeleteFiles
      BY <3>1, Zenon DEF CheckpointSet
    <3>4. item.id \in Nat
      BY <2>2, Zenon DEF ItemSet
    <3>5. r.iceberg = db.checkpoints[item.id].iceberg \cup {DataFile(item)} /\ r.origin = item.id
      BY Zenon DEF apply_compaction_for_replacement
    <3>6. r \in CheckpointSet
      BY <2>1, <3>2, <3>3, <3>4, ZenonT(30) DEF apply_compaction_for_replacement, CheckpointSet
    <3> QED
      BY <3>2, <3>5, <3>6, ZenonT(30)
  <2>4. r.origin <= NextId(db)
    BY <2>1, <2>2, <2>3, DbTypes, SMTT(30) DEF Saved, NextId
  <2>5. /\ Remembered(k.seen, "extension", db) /\ Remembered(k.seen, "checkpoint", db)
        /\ k.arg \in SUBSET lake
    BY <1>1, ZenonT(30) DEF SoundCall
  <2> HIDE DEF r, d
  <2>6. d \in DbSet /\ CanFinish(d, item)
    <3>1. commit_conditional_transaction(k.seen, TRUE)
      BY <1>7, ZenonT(30)
    <3> HIDE DEF k
    <3> QED
      BY <1>2, <2>3, <2>4, <2>5, <3>1, IcebergSaves, ZenonT(30) DEF d
  <2>7. gone \in SUBSET Nat /\ item.id \in Nat
    BY <2>2, Zenon DEF Saved, ItemSet
  <2> HIDE DEF gone, k
  <2>8. d2 = [d EXCEPT !.deleted = d.deleted \cup gone, !.waiting = d.waiting \ gone]
    BY Zenon DEF delete_checkpoints
  <2> HIDE DEF d2
  <2>9. /\ d2 \in DbSet /\ d2.deleted = d.deleted \cup gone /\ d2.waiting = d.waiting \ gone
        /\ d2.checkpoints = d.checkpoints /\ d2.latest = d.latest
        /\ d2.committed = d.committed /\ d2.uncheckpointed = d.uncheckpointed
        /\ d2.extensionLeases = d.extensionLeases /\ d2.indexed = d.indexed /\ d2.notes = d.notes
        /\ d2.cleanup = d.cleanup /\ d2.cleanupClaimed = d.cleanupClaimed
    BY <2>6, <2>7, <2>8, ZenonT(30) DEF DbSet
  <2>10. /\ e \in DbSet /\ e.deleted = d2.deleted /\ e.waiting = d2.waiting
         /\ e.checkpoints = d2.checkpoints /\ e.latest = d2.latest
         /\ e.committed = d2.committed /\ e.uncheckpointed = d2.uncheckpointed
         /\ e.extensionLeases = d2.extensionLeases /\ e.indexed = d2.indexed /\ e.notes = d2.notes
         /\ e.cleanup = d2.cleanup \cup {item} /\ e.cleanupClaimed = d2.cleanupClaimed
    BY <2>2, <2>7, <2>9, ZenonT(30) DEF DbSet
  <2> HIDE DEF e
  <2>11. Finishes(d, e, item, gone)
    BY <2>9, <2>10, Zenon DEF Finishes
  <2>12. /\ SoundDb(e, lake) /\ Grows(db, e) /\ e.committed = db.committed
         /\ e.cleanupClaimed = db.cleanupClaimed
    <3>1. gone \in SUBSET Saved(db) /\ e \in DbSet /\ CanFinish(d, item)
      BY <2>2, <2>6, <2>10, ZenonT(30) DEF gone
    <3> QED
      BY <2>11, <3>1, ZenonT(30) DEF CanFinish
  <2>13. /\ h \in [pending : BOOLEAN, uncompacted : SUBSET Nat]
         /\ h.uncompacted = hints[s].uncompacted /\ hints' = [hints EXCEPT ![s] = h]
    BY <1>1, <1>7, ZenonT(30)
  <2> HIDE DEF h
  <2>14. h.uncompacted \subseteq Saved(db')
    BY <1>1, <1>7, <2>12, <2>13, ZenonT(30) DEF Grows
  <2>15. \A i \in compacting' : SoundItem(i, db')
    BY <1>7, <2>10, <2>12, SameWork, ZenonT(30)
  <2>16. DOMAIN queue(s) = CallFields /\ queue(s).step # "speedboat" /\ SoundCall(queue(s), db', lake)
    BY QueueFacts, PlainCall, SMTT(30) DEF Plain
  <2>17. /\ db' \in DbSet /\ SoundDb(db', lake) /\ Grows(db, db')
         /\ db'.committed = db.committed /\ db'.cleanupClaimed = db.cleanupClaimed
    BY <1>7, <2>10, <2>12, ZenonT(30)
  <2> QED
    BY <1>1, <1>7, <2>13, <2>14, <2>15, <2>16, <2>17, HintStep, ZenonT(30)
<1> QED
  BY <1>4, <1>5, <1>6, <1>7, ZenonT(30)

\* commit_iceberg of the embedded backend, which deletes nothing.
LEMMA EmbeddedIcebergStep ==
  ASSUME CommitInv, NEW s \in Services, embedded_commit_iceberg(s)
  PROVE  CommitInv'
<1> DEFINE k == call[s]
<1>1. /\ k.step = "iceberg" /\ UNCHANGED <<hints, indexing, cleaning, lake>> /\ SoundCall(k, db, lake)
  BY ZenonT(30) DEF embedded_commit_iceberg, At, CommitInv
<1>2. PICK item : k.todo = {item} /\ SoundItem(item, db) /\ DataFile(item) \in lake
  BY <1>1, ZenonT(30) DEF SoundCall
<1>3. (CHOOSE i \in k.todo : TRUE) = item
  BY <1>2, OnlyItem, Zenon
<1> DEFINE r == clone_and_apply(db.checkpoints[k.seen["checkpoint"].id], k.arg, item)
           d == BothSaved(k.seen, k.arg, item, r)
           e == [d EXCEPT !.applied = d.applied \cup {item.id}, !.cleanup = d.cleanup \cup {item}]
<1>4. \/ /\ commit_conditional_transaction(k.seen, TRUE) /\ db' = e
         /\ compacting' = compacting \ {item} /\ call' = [call EXCEPT ![s] = queue(s)]
      \/ call' = [call EXCEPT ![s] = Idle] /\ UNCHANGED <<db, compacting>>
  BY <1>3, ZenonT(30) DEF embedded_commit_iceberg, Goto, NextId, BothSaved
<1>5. CASE call' = [call EXCEPT ![s] = Idle] /\ UNCHANGED <<db, compacting>>
  BY <1>1, <1>5, GiveUpKeeps, ZenonT(30)
<1>6. ASSUME commit_conditional_transaction(k.seen, TRUE), db' = e,
             compacting' = compacting \ {item}, call' = [call EXCEPT ![s] = queue(s)]
      PROVE  CommitInv'
  <2>1. db \in DbSet /\ SoundDb(db, lake) /\ lake \in SUBSET DataFiles
    BY StillSound, ZenonT(30) DEF CommitInv, CommitTyped
  <2>2. item \in ItemSet /\ item.id \in Nat
    BY <1>2, ZenonT(30) DEF SoundItem, ItemSet
  <2>3. /\ Remembered(k.seen, "extension", db) /\ Remembered(k.seen, "checkpoint", db)
        /\ k.arg \in SUBSET lake /\ commit_conditional_transaction(k.seen, TRUE)
    BY <1>1, <1>6, ZenonT(30) DEF SoundCall
  <2>4. /\ k.seen["checkpoint"] = db.latest["checkpoint"]
        /\ db.checkpoints[k.seen["checkpoint"].id] = Newest(db)
        /\ db.latest["checkpoint"].id \in Saved(db)
    <3>1. k.seen["checkpoint"] = db.latest["checkpoint"]
      BY <2>3, Current, ZenonT(30)
    <3> QED
      BY <2>1, <3>1, ZenonT(30) DEF SoundDb, Frontiers, Newest
  <2>5. Newest(db) \in CheckpointSet /\ Newest(db).origin < db.latest["checkpoint"].id
    BY <2>1, <2>4, DbTypes, ZenonT(30) DEF SoundDb, Newest
  <2>6. r = clone_and_apply(Newest(db), k.arg, item)
    BY <2>4, Zenon
  <2> HIDE DEF r, d, k
  <2>7. r \in CheckpointSet /\ r.iceberg = k.arg /\ r.origin = Newest(db).origin
    <3>1. k.arg \in SUBSET DataFiles
      BY <2>1, <2>3, Zenon
    <3> QED
      BY <2>5, <2>6, <3>1, ZenonT(30) DEF clone_and_apply, CheckpointSet
  <2>8. r.origin <= NextId(db)
    <3>1. Newest(db).origin \in Nat /\ Len(db.checkpoints) \in Nat
      BY <2>1, <2>5, DbTypes, ZenonT(30) DEF CheckpointSet
    <3> QED
      BY <2>4, <2>5, <2>7, <3>1, SMTT(30) DEF Saved, NextId
  <2>9. d \in DbSet /\ CanFinish(d, item)
    BY <1>2, <2>3, <2>7, <2>8, IcebergSaves, ZenonT(30) DEF d
  <2>10. /\ e \in DbSet /\ e.deleted = d.deleted /\ e.waiting = d.waiting
         /\ e.checkpoints = d.checkpoints /\ e.latest = d.latest
         /\ e.committed = d.committed /\ e.uncheckpointed = d.uncheckpointed
         /\ e.extensionLeases = d.extensionLeases /\ e.indexed = d.indexed /\ e.notes = d.notes
         /\ e.cleanup = d.cleanup \cup {item} /\ e.cleanupClaimed = d.cleanupClaimed
    BY <2>2, <2>9, ZenonT(30) DEF DbSet
  <2> HIDE DEF e
  <2>11. Finishes(d, e, item, {})
    BY <2>10, ZenonT(30) DEF Finishes
  <2>12. /\ SoundDb(e, lake) /\ Grows(db, e) /\ e.committed = db.committed
         /\ e.cleanupClaimed = db.cleanupClaimed
    <3>1. {} \in SUBSET Saved(db)
      BY Zenon
    <3> QED
      BY <2>9, <2>10, <2>11, <3>1, ZenonT(30) DEF CanFinish
  <2>13. /\ hints[s] \in [pending : BOOLEAN, uncompacted : SUBSET Nat]
         /\ hints' = [hints EXCEPT ![s] = hints[s]]
    BY <1>1, ZenonT(30) DEF CommitInv, CommitTyped
  <2>14. hints[s].uncompacted \subseteq Saved(db')
    BY <1>6, <2>12, ZenonT(30) DEF Grows, CommitInv
  <2>15. \A i \in compacting' : SoundItem(i, db')
    BY <1>6, <2>10, <2>12, SameWork, ZenonT(30)
  <2>16. DOMAIN queue(s) = CallFields /\ queue(s).step # "speedboat" /\ SoundCall(queue(s), db', lake)
    BY QueueFacts, PlainCall DEF Plain
  <2>17. /\ db' \in DbSet /\ SoundDb(db', lake) /\ Grows(db, db')
         /\ db'.committed = db.committed /\ db'.cleanupClaimed = db.cleanupClaimed
    BY <1>6, <2>10, <2>12, ZenonT(30)
  <2> QED
    BY <1>1, <1>6, <2>13, <2>14, <2>15, <2>16, <2>17, HintStep, ZenonT(30)
<1> QED
  BY <1>4, <1>5, <1>6, ZenonT(30)

----------------------------------------------------------------------------
(* The invariant. *)

\* The table starts with one empty checkpoint.
LEMMA InitSound ==
  ASSUME Init
  PROVE  CommitInv
<1> DEFINE first == [iceberg |-> {}, speedboat |-> {}, deletes |-> {}, origin |-> 0]
           l == [checkpoint |-> [version |-> 0, id |-> 1],
                 search |-> [version |-> 0, id |-> 1],
                 extension |-> [version |-> 0, id |-> NO_WORK_ITEM],
                 compaction |-> [version |-> 0, id |-> NO_WORK_ITEM],
                 request |-> [version |-> 0, id |-> FALSE]]
<1>1. /\ db.checkpoints = <<first>> /\ db.deleted = {} /\ db.latest = l /\ db.waiting = {}
      /\ db.active = [x \in Selectors |-> 0] /\ db.committed = {} /\ db.uncheckpointed = {}
      /\ db.extensionLeases = {} /\ db.indexed = {} /\ db.notes = {} /\ db.applied = {}
      /\ db.cleanup = {} /\ db.cleanupClaimed = {}
      /\ DOMAIN db = {"checkpoints", "deleted", "latest", "active", "committed", "uncheckpointed",
                      "waiting", "extensionLeases", "indexed", "notes", "applied", "cleanup",
                      "cleanupClaimed"}
  BY ZenonT(30) DEF Init, create_table_helper
<1>2. first \in CheckpointSet /\ first.iceberg = {} /\ first.speedboat = {} /\ first.deletes = {} /\ first.origin = 0
  BY ZenonT(30) DEF CheckpointSet
<1>3. /\ l["checkpoint"] = [version |-> 0, id |-> 1] /\ l["search"] = [version |-> 0, id |-> 1]
      /\ l["extension"] = [version |-> 0, id |-> {}] /\ l["compaction"] = [version |-> 0, id |-> {}]
      /\ l["request"] = [version |-> 0, id |-> FALSE]
      /\ DOMAIN l = Keys /\ l = [x \in Keys |-> l[x]]
  BY ZenonT(30) DEF Keys, NO_WORK_ITEM
<1> HIDE DEF first, l
<1>4. l \in [Keys -> EntrySet]
  <2>1. 1 \in Ids /\ {} \in Ids /\ FALSE \in Ids
    <3>1. {} \in SUBSET SUBSET IndexFiles
      OBVIOUS
    <3> QED
      BY <3>1, IdFacts, ZenonT(30)
  <2> HIDE DEF Ids
  <2>2. \A x \in Keys : l[x] \in EntrySet
    <3>1. \A id \in Ids : [version |-> 0, id |-> id] \in EntrySet
      BY Zenon DEF EntrySet
    <3>2. /\ l["checkpoint"] \in EntrySet /\ l["search"] \in EntrySet /\ l["extension"] \in EntrySet
          /\ l["compaction"] \in EntrySet /\ l["request"] \in EntrySet
      BY <1>3, <2>1, <3>1, ZenonT(30)
    <3> QED
      BY <3>2, Zenon DEF Keys
  <2> QED
    BY <1>3, <2>2, Zenon
<1>5. /\ <<first>> \in Seq(CheckpointSet) /\ Len(db.checkpoints) = 1 /\ db.checkpoints[1] = first
      /\ Saved(db) = {1}
  BY <1>1, <1>2 DEF Saved
<1>6. db \in DbSet
  <2>1. db = create_table_helper
    BY Zenon DEF Init
  <2>2. create_table_helper =
          [checkpoints |-> <<first>>, deleted |-> {}, latest |-> l,
           active |-> [x \in Selectors |-> 0], committed |-> {}, uncheckpointed |-> {},
           waiting |-> {}, extensionLeases |-> {}, indexed |-> {}, notes |-> {}, applied |-> {},
           cleanup |-> {}, cleanupClaimed |-> {}]
    BY ZenonT(30) DEF create_table_helper, first, l
  <2>3. [x \in Selectors |-> 0] \in [Selectors -> Nat]
    BY Zenon
  <2> QED
    BY <1>4, <1>5, <2>1, <2>2, <2>3, SMTT(30) DEF DbSet
<1>7. Newest(db) = first /\ Searched(db) = first
  BY <1>1, <1>3, <1>5, SMTT(30) DEF Newest, Searched
<1>8. Away(db) = {} /\ Indexed(db) = {} /\ Queued(db) = {} /\ Leased(db) = {}
  BY <1>1, <1>3, SMTT(30) DEF Away, Indexed, Queued, Leased
<1>9. Frontiers(db)
  <2>1. db.latest["checkpoint"].id = 1 /\ db.latest["search"].id = 1
    BY <1>1, <1>3, SMTT(30)
  <2>2. db.latest["extension"].id = {} /\ db.latest["compaction"].id = {} /\ db.latest["request"].id = FALSE
    BY <1>1, <1>3, SMTT(30)
  <2>3. db.latest["extension"].id \in SUBSET SUBSET IndexFiles /\ db.latest["request"].id \in BOOLEAN
    BY <2>2, ZenonT(30)
  <2> QED
    BY <1>5, <2>1, <2>2, <2>3, ZenonT(30) DEF Frontiers
<1>10. Placed(db) /\ IndexKept(db) /\ SearchIndexed(db)
  BY <1>1, <1>2, <1>7, <1>8, ZenonT(30) DEF Placed, IndexKept, SearchIndexed, InCheckpoint, current_file_paths
<1>11. SoundDb(db, lake)
  BY <1>1, <1>2, <1>5, <1>9, <1>10, SMTT(30) DEF SoundDb
<1>12. /\ DOMAIN Idle = CallFields /\ Idle.step = "idle"
  BY IdleFacts, Zenon
<1>13. /\ call = [s \in Services |-> Idle]
       /\ hints = [s \in Services |-> [pending |-> FALSE, uncompacted |-> {}]]
       /\ indexing = {} /\ compacting = {} /\ cleaning = {} /\ lake = {}
  BY ZenonT(30) DEF Init
<1>14. \A s \in Services : SoundCall(call[s], db, lake)
  BY <1>12, <1>13, PlainCall, SMTT(30) DEF Plain
<1>15. SoundCommits
  BY <1>12, <1>13, ZenonT(30) DEF SoundCommits, Committing
<1>16. /\ CommitTyped /\ \A s \in Services : hints[s].uncompacted \subseteq Saved(db)
  BY <1>6, <1>12, <1>13, ZenonT(30) DEF CommitTyped
<1> QED
  BY <1>11, <1>13, <1>14, <1>15, <1>16, ZenonT(30) DEF CommitInv

\* A process dies between two steps of a handler.
LEMMA CrashKeeps ==
  ASSUME CommitInv, NEW s \in Services, Crash(s)
  PROVE  CommitInv'
  BY RestartKeeps, ZenonT(30) DEF Crash, workers

\* A worker dies with its item.
LEMMA WorkerCrashKeeps ==
  ASSUME CommitInv, WorkerCrash
  PROVE  CommitInv'
<1>1. /\ UNCHANGED <<db, call, hints, cleaning, lake>>
      /\ indexing' \subseteq indexing /\ compacting' \subseteq compacting
  BY Zenon DEF WorkerCrash
<1> QED
  BY <1>1, DroppedKeeps, ZenonT(30)

\* Nothing happens.
LEMMA StutterKeeps ==
  ASSUME CommitInv, UNCHANGED vars
  PROVE  CommitInv'
<1>1. /\ UNCHANGED <<db, call, hints, cleaning, lake>>
      /\ indexing' \subseteq indexing /\ compacting' \subseteq compacting
  BY ZenonT(30) DEF vars, workers
<1> QED
  BY <1>1, DroppedKeeps, ZenonT(30)

\* One step per handler of the workers.
LEMMA ClaimsKeep ==
  ASSUME CommitInv, NEW s \in Services, Claim(s) \/ EmbeddedClaim(s)
  PROVE  CommitInv'
<1>1. CASE read_extension_work(s)
  BY <1>1, ExtensionReads, ZenonT(30)
<1>2. CASE commit_extension_work_item_taken(s)
  BY <1>2, ExtensionClaimStep, ZenonT(30)
<1>3. CASE read_compaction_work(s)
  BY <1>3, CompactionReads, Zenon
<1>4. CASE commit_compaction_work_item_taken(s)
  BY <1>4, CompactionClaimStep, Zenon
<1>5. CASE read_cleanup_work(s) \/ embedded_read_cleanup_work(s)
  BY <1>5, CleanupReads, ZenonT(30)
<1>6. CASE claim_cleanup_work_item_lease(s)
  BY <1>6, CleanupClaimStep, Zenon
<1> QED
  BY <1>1, <1>2, <1>3, <1>4, <1>5, <1>6, SMTT(30)
  DEF Claim, EmbeddedClaim, embedded_read_extension_work, embedded_extension_taken,
      embedded_read_compaction_work, embedded_compaction_taken, embedded_claim_cleanup

\* One step per handler of the front ends.
LEMMA CommitsKeep ==
  ASSUME CommitInv, NEW s \in Services, Commit(s) \/ EmbeddedCommit(s)
  PROVE  CommitInv'
<1>1. CASE \E file \in SpeedboatFiles \cup DeleteFiles : read_speedboat(s, file)
  BY <1>1, SpeedboatReads, ZenonT(30)
<1>2. CASE commit_speedboat(s)
  BY <1>2, SpeedboatStep, Zenon
<1>3. CASE queue_checkpoint_publication(s)
  BY <1>3, QueueKeeps, Zenon
<1>4. CASE \E item \in indexing : commit_extension_work_item_completed(s, item)
  BY <1>4, ExtensionCompletedStep, Zenon
<1>5. CASE \E item \in compacting : compaction_commit(s, item)
  BY <1>5, CompactionCommitStep, ZenonT(30)
<1>6. CASE \E item \in compacting : read_iceberg(s, item)
  BY <1>6, IcebergReads, Zenon
<1>7. CASE commit_iceberg(s)
  BY <1>7, IcebergStep, Zenon
<1>8. CASE embedded_commit_iceberg(s)
  BY <1>8, EmbeddedIcebergStep, ZenonT(30)
<1>9. CASE \E item \in cleaning : cleanup_commit(s, item)
  BY <1>9, CleanupCommitStep, Zenon
<1> QED
  BY <1>1, <1>2, <1>3, <1>4, <1>5, <1>6, <1>7, <1>8, <1>9, SMTT(30)
  DEF Commit, EmbeddedCommit, embedded_read_speedboat, embedded_commit_speedboat,
      embedded_queue_checkpoint_publication, embedded_extension_completed,
      embedded_compaction_commit, embedded_read_iceberg, embedded_cleanup_commit

\* One step per step of the updater.
LEMMA UpdatesKeep ==
  ASSUME CommitInv, NEW s \in Services, Update(s) \/ EmbeddedUpdate(s)
  PROVE  CommitInv'
<1>1. CASE update_all_checkpoints(s)
  BY <1>1, RequestReads, Zenon
<1>2. CASE update_standard_checkpoint(s) \/ embedded_update_standard_checkpoint(s)
  BY <1>2, StandardReads, Zenon
<1>3. CASE commit_checkpoint(s)
  BY <1>3, CheckpointStep, Zenon
<1>4. CASE update_extension_checkpoint(s) \/ embedded_update_extension_checkpoint(s)
  BY <1>4, ExtensionUpdateKeeps, Zenon
<1>5. CASE cover_waiting_checkpoint(s)
  BY <1>5, WaitingReads, Zenon
<1>6. CASE commit_search_checkpoint(s)
  BY <1>6, SearchStep, Zenon
<1>7. CASE mark_done_checkpoint_waiting(s)
  BY <1>7, MarkKeeps, Zenon
<1>8. CASE finish_update(s) \/ embedded_finish_update(s)
  BY <1>8, FinishKeeps, Zenon
<1>9. CASE clear_request(s)
  BY <1>9, ClearKeeps, Zenon
<1> QED
  BY <1>1, <1>2, <1>3, <1>4, <1>5, <1>6, <1>7, <1>8, <1>9, SMTT(30)
  DEF Update, EmbeddedUpdate, embedded_update_all_checkpoints, embedded_commit_checkpoint,
      embedded_cover_waiting_checkpoint, embedded_commit_search_checkpoint, embedded_mark_done,
      embedded_clear_request

\* Every step of either backend.
LEMMA StepSound ==
  ASSUME CommitInv, Next \/ EmbeddedNext \/ UNCHANGED vars
  PROVE  CommitInv'
<1>1. CASE WorkerCrash
  BY <1>1, WorkerCrashKeeps, Zenon
<1>2. CASE UNCHANGED vars
  BY <1>2, StutterKeeps, Zenon
<1>3. CASE \E s \in Services : Claim(s) \/ EmbeddedClaim(s)
  BY <1>3, ClaimsKeep, ZenonT(30)
<1>4. CASE \E s \in Services : Crash(s)
  BY <1>4, CrashKeeps, ZenonT(30)
<1>5. CASE \E s \in Services : Commit(s) \/ EmbeddedCommit(s)
  BY <1>5, CommitsKeep, Zenon
<1>6. CASE \E s \in Services : Update(s) \/ EmbeddedUpdate(s)
  BY <1>6, UpdatesKeep, Zenon
<1> QED
  BY <1>1, <1>2, <1>3, <1>4, <1>5, <1>6, ServicesAssumption, ZenonT(30) DEF Next, EmbeddedNext

\* The invariant is strong enough.
LEMMA SoundIsTracked ==
  ASSUME CommitInv
  PROVE  CommittedWorkIsTracked
<1>1. db \in DbSet /\ SoundDb(db, lake)
  BY Zenon DEF CommitInv, CommitTyped
<1>2. DOMAIN db.checkpoints = Saved(db) /\ \A i \in Saved(db) : db.checkpoints[i] \in CheckpointSet
  BY <1>1, DbTypes, Zenon
<1>3. DynamoTypeOK
  <2>1. \A i \in Saved(db) : db.checkpoints[i].speedboat \subseteq SpeedboatFiles
                             /\ db.checkpoints[i].deletes \subseteq DeleteFiles
    BY <1>2, Zenon DEF CheckpointSet
  <2>2. {db.latest.checkpoint.id, db.latest.search.id} \cup db.waiting \cup db.deleted \subseteq Saved(db)
    BY <1>1, Zenon DEF SoundDb, Frontiers
  <2>3. \A s \in Services : call[s].todo = {} => ~At(s, "waiting")
    BY Zenon DEF CommitInv, SoundCall, At
  <2> QED
    BY <1>1, <1>2, <2>1, <2>2, <2>3, ZenonT(30) DEF DynamoTypeOK, SoundDb
<1>4. CommitsAreCheckpointedOnce
  <2>1. Placed(db)
    BY <1>1, Zenon DEF SoundDb
  <2>2. CompactedAway = Away(db) /\ Latest = Newest(db)
    BY Zenon DEF CompactedAway, Away, Latest, Newest
  <2> QED
    BY <2>1, <2>2, Zenon DEF CommitsAreCheckpointedOnce, Placed, InCheckpoint
<1>5. IndexWorkIsNotLost
  BY <1>1, Zenon DEF SoundDb, IndexKept, IndexWorkIsNotLost, Latest, Newest, Indexed, Queued, Leased
<1>6. SearchFrontierIsIndexed
  BY <1>1, Zenon DEF SoundDb, SearchIndexed, SearchFrontierIsIndexed, Search, Searched, Indexed
<1>7. WaitingCheckpointsExist
  BY <1>1, Zenon DEF SoundDb, WaitingCheckpointsExist
<1> QED
  BY <1>3, <1>4, <1>5, <1>6, <1>7, ZenonT(30) DEF CommittedWorkIsTracked

\* For every set of service processes, files, thresholds and crashes, the
\* DynamoDB backend of the control plane loses no commit and no index work,
\* counts none twice, and publishes for search only what is indexed,
\* although handlers of different processes interleave between their reads
\* and their conditional transactions (dynamodb_service_impl.rs).
THEOREM CommittedWorkStaysTracked == Spec => []CommittedWorkIsTracked
<1>1. Init => CommitInv
  BY InitSound, Zenon
<1>2. CommitInv /\ [Next]_vars => CommitInv'
  BY StepSound, Zenon
<1>3. CommitInv => CommittedWorkIsTracked
  BY SoundIsTracked, Zenon
<1> QED
  BY <1>1, <1>2, <1>3, PTL DEF Spec

\* The same of the backend inside the serving nodes, whose updater,
\* commit_iceberg and cleanup differ.
THEOREM EmbeddedWorkStaysTracked == EmbeddedSpec => []CommittedWorkIsTracked
<1>1. Init => CommitInv
  BY InitSound, Zenon
<1>2. CommitInv /\ [EmbeddedNext]_vars => CommitInv'
  BY StepSound, Zenon
<1>3. CommitInv => CommittedWorkIsTracked
  BY SoundIsTracked, Zenon
<1> QED
  BY <1>1, <1>2, <1>3, PTL DEF EmbeddedSpec

=============================================================================
