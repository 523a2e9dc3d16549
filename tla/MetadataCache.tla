---------------------------- MODULE MetadataCache ----------------------------
(***************************************************************************)
(* A node's caches of Iceberg metadata (query_lib/src/data_access.rs):     *)
(* the metadata of a table at one snapshot, the row-group statistics of a  *)
(* data file, and the tracker that says which files of which table may     *)
(* have statistics.                                                        *)
(*                                                                         *)
(* Loads, commits and drops are messages of the cache actor and exclude    *)
(* each other.  The caches are behind locks of their own: the cache        *)
(* manager evicts files from them at any time, in the middle of a load     *)
(* too, and other nodes commit to the tables at any time.                  *)
(***************************************************************************)
EXTENDS Integers, Sequences, FiniteSets, SequencesExt

CONSTANTS
    IcebergTables,    \* the tables
    DataFiles,        \* the data files commits may add
    MaxIcebergCommits,\* bound: how many commits and drops happen
    MetadataEntries,  \* ICEBERG_TABLE_METADATA_CACHE_MAX_ENTRIES
    StatsEntries      \* PARQUET_ROW_GROUP_STATS_CACHE_MAX_ENTRIES

VARIABLES
    history,          \* the catalog: the snapshots of a table, oldest first
    commits,          \* how many snapshot ids were given out
    metadata,         \* ICEBERG_TABLE_METADATA_CACHE.entries
    metadata_order,   \* its access_order
    row_groups,       \* PARQUET_ROW_GROUP_STATS_CACHE: its access_order, the files it holds
    files_by_table,   \* ICEBERG_TABLE_ROW_GROUP_STATS_TRACKER
    load,             \* the load the actor is in the middle of
    reply             \* the answer of the last load

metadataVars == <<history, commits, metadata, metadata_order, row_groups, files_by_table, load,
                  reply>>

NoLoad == [stage |-> "none"]

NoReply == [table |-> {}]

MetadataInit ==
    /\ history = [t \in IcebergTables |-> <<>>]
    /\ commits = 0
    /\ metadata = [t \in {} |-> 0]
    /\ metadata_order = <<>>
    /\ row_groups = <<>>
    /\ files_by_table = [t \in {} |-> {}]
    /\ load = NoLoad
    /\ reply = NoReply

-----------------------------------------------------------------------------
(* touch: the key moves to the end of the access order.                    *)
Touch(order, key) == Append(SelectSeq(order, LAMBDA k : k # key), key)

(* evict_if_needed: the oldest keys beyond the limit go.                   *)
EvictIfNeeded(order, limit) ==
    IF Len(order) > limit THEN SubSeq(order, Len(order) - limit + 1, Len(order)) ELSE order

WithoutKeys(order, keys) == SelectSeq(order, LAMBDA k : k \notin keys)

Only(f, keys) == [k \in DOMAIN f \cap keys |-> f[k]]

Current(t) == history[t][Len(history[t])]

CurrentFiles(t) == IF history[t] = <<>> THEN {} ELSE Current(t).files

(* A slip: any entry of the table answers.                                 *)
AnyCached(t, id) == t \in DOMAIN metadata

(* IcebergTableMetadataCache::get: an entry answers for its own snapshot.  *)
CachedAt(t, id) == t \in DOMAIN metadata /\ metadata[t].snapshot_id = id

(* collect_iceberg_compactions: from the newest snapshot back to the last  *)
(* one the caller saw.                                                     *)
Compactions(log, last) ==
    LET seen == {i \in 1..Len(log) : log[i].id = last}
    IN  {log[i].compaction : i \in {k \in 1..Len(log) : \A s \in seen : k > s}} \ {0}

(* load_parquet_row_group_stats: found or read and inserted, the file's    *)
(* statistics become the most recently used ones.                          *)
WithStats(f) == EvictIfNeeded(Touch(row_groups, f), StatsEntries)

(* replace_files: the files of the table's previous entry that are gone.   *)
Removed(t, files) == IF t \in DOMAIN files_by_table THEN files_by_table[t] \ files ELSE {}

(* reconcile_iceberg_table_row_group_stats: their statistics go with them. *)
Reconciled(t, files) == WithoutKeys(row_groups, Removed(t, files))

-----------------------------------------------------------------------------
(* A commit, of this node's compactor (commit_iceberg_transaction_worker,  *)
(* a fast append that names its compaction) or of another engine that      *)
(* rewrites the table: the caches are not told.                            *)
CommitSnapshot(t, files, compacts) ==
    /\ commits < MaxIcebergCommits
    /\ compacts => load.stage = "none" /\ CurrentFiles(t) \subseteq files
    /\ commits' = commits + 1
    /\ history' = [history EXCEPT ![t] =
                      Append(@, [id |-> commits + 1, files |-> files,
                                 compaction |-> IF compacts THEN commits + 1 ELSE 0])]
    /\ UNCHANGED <<metadata, metadata_order, row_groups, files_by_table, load, reply>>

(* load_iceberg_table_metadata_worker up to its first cache lookup.        *)
LoadMetadata(t, last) ==
    /\ load.stage = "none"
    /\ history[t] # <<>>
    /\ LET now == Current(t)
           since == Compactions(history[t], last)
       IN  IF CachedAt(t, now.id)
           THEN /\ reply' = [table |-> {t}, last |-> last, snapshot_id |-> metadata[t].snapshot_id,
                             files |-> metadata[t].files, compactions |-> since]
                /\ metadata_order' = Touch(metadata_order, t)
                /\ UNCHANGED load
           ELSE /\ load' = [stage |-> "stats", table |-> t, last |-> last, snapshot |-> now,
                            compactions |-> since, pending |-> now.files]
                /\ reply' = NoReply
                /\ UNCHANGED metadata_order
    /\ UNCHANGED <<history, commits, metadata, row_groups, files_by_table>>

(* load_iceberg_file_stats: the files in any order; a file whose footer    *)
(* cannot be read counts as one without row groups.                        *)
LoadRowGroups(f) ==
    /\ load.stage = "stats"
    /\ f \in load.pending
    /\ load' = [load EXCEPT !.pending = @ \ {f}]
    /\ \/ row_groups' = WithStats(f)
       \/ ~ Contains(row_groups, f) /\ UNCHANGED row_groups
    /\ UNCHANGED <<history, commits, metadata, metadata_order, files_by_table, reply>>

(* The files are known: the tracker takes them over.                       *)
ReconcileStats ==
    /\ load.stage = "stats"
    /\ load.pending = {}
    /\ LET t == load.table
           files == load.snapshot.files
       IN  /\ row_groups' = Reconciled(t, files)
           /\ files_by_table' = [k \in DOMAIN files_by_table \cup {t} |->
                                    IF k = t THEN files ELSE files_by_table[k]]
    /\ load' = [load EXCEPT !.stage = "plan"]
    /\ UNCHANGED <<history, commits, metadata, metadata_order, reply>>

(* plan_files of the same table version; the answer is cached without its  *)
(* compactions.  A failed plan ends the load without an answer.            *)
FinishLoad ==
    /\ load.stage = "plan"
    /\ LET t == load.table
           order == EvictIfNeeded(Touch(metadata_order, t), MetadataEntries)
           entry == [snapshot_id |-> load.snapshot.id, files |-> load.snapshot.files]
       IN  \/ /\ metadata' = [k \in ToSet(order) |-> IF k = t THEN entry ELSE metadata[k]]
              /\ metadata_order' = order
              /\ reply' = [table |-> {t}, last |-> load.last, snapshot_id |-> entry.snapshot_id,
                           files |-> entry.files, compactions |-> load.compactions]
           \/ UNCHANGED <<metadata, metadata_order, reply>>
    /\ load' = NoLoad
    /\ UNCHANGED <<history, commits, row_groups, files_by_table>>

(* evict_serving_metadata_for_files, called by the cache manager; a        *)
(* FileDelete does the same after deleting the file.                       *)
EvictServingMetadata(f) ==
    LET holding == {t \in DOMAIN metadata : f \in metadata[t].files}
        others == [t \in DOMAIN files_by_table |-> files_by_table[t] \ {f}]
    IN  /\ files_by_table' = Only(others, {t \in DOMAIN others : others[t] # {}})
        /\ row_groups' = WithoutKeys(row_groups, {f})
        /\ metadata' = Only(metadata, DOMAIN metadata \ holding)
        /\ metadata_order' = WithoutKeys(metadata_order, holding)
        /\ UNCHANGED <<history, commits, load, reply>>

(* drop_iceberg_table_worker, and drop_all_iceberg_tables_worker per table. *)
DropIcebergTable(t) ==
    /\ load.stage = "none"
    /\ history[t] # <<>>
    /\ history' = [history EXCEPT ![t] = <<>>]
    /\ metadata' = Only(metadata, DOMAIN metadata \ {t})
    /\ metadata_order' = WithoutKeys(metadata_order, {t})
    /\ row_groups' = Reconciled(t, {})
    /\ files_by_table' = Only(files_by_table, DOMAIN files_by_table \ {t})
    /\ reply' = NoReply
    /\ UNCHANGED <<commits, load>>

MetadataNext ==
    \/ \E t \in IcebergTables, compacts \in BOOLEAN :
          \E files \in SUBSET DataFiles[t] : CommitSnapshot(t, files, compacts)
    \/ \E t \in IcebergTables, last \in 0..commits : LoadMetadata(t, last)
    \/ \E t \in IcebergTables : \E f \in DataFiles[t] : LoadRowGroups(f)
    \/ ReconcileStats
    \/ FinishLoad
    \/ \E t \in IcebergTables : \E f \in DataFiles[t] : EvictServingMetadata(f)
    \/ \E t \in IcebergTables : DropIcebergTable(t)

MetadataSpec == MetadataInit /\ [][MetadataNext]_metadataVars

-----------------------------------------------------------------------------
(* An answer describes one snapshot of the table, cached or not: its files *)
(* are that snapshot's files and its compactions are the ones committed    *)
(* after the snapshot the caller named, up to that snapshot and no         *)
(* further, whatever was committed, evicted or dropped since the entry was *)
(* made (load_iceberg_table_metadata_worker).                              *)
MetadataAnswersAreExact ==
    \A t \in reply.table : \E i \in 1..Len(history[t]) :
        LET from == {k \in 1..i : history[t][k].id = reply.last}
        IN  /\ history[t][i].id = reply.snapshot_id
            /\ reply.files = history[t][i].files
            /\ reply.compactions =
                   {history[t][k].compaction : k \in {k \in 1..i : \A s \in from : k > s}} \ {0}

(* Row-group statistics never outlive the files of their tables: a file    *)
(* with cached statistics is one the tracker lists for some table, or one  *)
(* of the load in progress, so a later reconcile, drop or eviction finds   *)
(* and removes it (cache_parquet_row_group_stats against the tracker).     *)
RowGroupStatsAreTracked ==
    ToSet(row_groups) \subseteq
        UNION {files_by_table[t] : t \in DOMAIN files_by_table}
            \cup (IF load.stage = "stats" THEN load.snapshot.files ELSE {})

(* What the metadata and statistics caches answer is exact, and what they  *)
(* keep can be found again.                                                *)
CachedMetadataIsExact == MetadataAnswersAreExact /\ RowGroupStatsAreTracked

=============================================================================
