SPECIFICATION MCElasticSpec
CONSTANTS
    NoId = NoId
    t1 = t1
    t2 = t2
    x = x
    IngestTables = {t1, t2}
    AliasOf <- MCAliasOf
    Singles = {s1}
    Bulks = {b1, b2}
    SingleOps <- MCSingleOps
    Payloads <- MCPayloads
    MaxFaults = 1
SYMMETRY Symmetry
CONSTANTS
    Null = Null
    EXACT_PRUNING_VALUE_LIMIT = 2
    NowText = 99
    Nodes = 2
    MaxSearchFaults = 1
    ColumnType <- MCColumnType
    Flattened <- MCFlattened
    SearchTables <- MCSearchTables
    CheckpointOf <- MCCheckpointOf
    FileOf <- MCFileOf
    RowOf <- MCRowOf
    NodeOf <- MCNodeOf
    Requests <- MCRequests
CONSTANTS
    Words = {"a", "b"}
    FieldToken = "f:"
    MaxTokens = 5
    Letters = {"x", "y"}
    MaxName = 4
CONSTANTS
    CacheWorkers = {w1, w2}
    CacheJobs <- MCCacheJobs
    Capacity = 3
    MaxAbandoned = 1
    IcebergTables = {"t", "u"}
    DataFiles <- MCDataFiles
    MaxIcebergCommits = 2
    MetadataEntries = 1
    StatsEntries = 2
CHECK_DEADLOCK FALSE
INVARIANTS
    
    
    RequestsMeanWhatTheySay
    HeldTablesStay
    TablesAreAccounted
    CachedMetadataIsExact
