SPECIFICATION MCEngineSpec
CONSTANTS
    Null = Null
    Layout = "whole"
    EXACT_PRUNING_VALUE_LIMIT = 1
    Clients = {s1, s2}
    Snapshots <- MCSnapshots
    Requests <- MCRequests
    Patterns <- MCPatterns
    MAX_EXACT_LOOKUP_DOC_IDS = 1
    FAST_PATH_MAX_FILES = 2
    SLOW_PATH_MAX_FILES = 3
    JsonNull = JsonNull
    I64_SPAN = 4
    t1 = t1
    t2 = t2
    Tables = {t1, t2}
    Writers = {w1, w2}
    Readers = {r1}
    WriteRequests <- MCWrites
    ReadRequests <- MCReads
    InitialRows <- MCRows
    PrimaryKey <- MCPrimaryKey
    MAX_BATCH_WRITES = 3
    DEFAULT_QUERY_LIMIT = 2
    MaxCheckpoints = 3
    NoConfig = NoConfig
    ConfigTables = {t1, t2}
    Admins = {a1, a2}
    Connections = {c1}
    Databases = {0}
    Puts <- MCPuts
    ColumnsOf <- MCColumns
    LastCheckpoint = 2
    MongoClients = {m1, m2}
    Rows <- MongoRows
    IdField = "k"
    Finds <- MCFinds
    MONGO_CURSOR_TIMEOUT_MS = 2
    LastTime = 5
    p1 = p1
    p2 = p2
    NoField = NoField
    PointClients = {q1, q2}
    PointTables = {p1, p2}
    History <- MCHistory
    KeyField <- MCKeyField
    ValueField <- MCValueField
    BoundTable <- MCBound
    PointRequests <- MCPointRequests
    MaxCommands = 1
CHECK_DEADLOCK FALSE
SYMMETRY ProtocolSymmetry
INVARIANTS
    ItemsStayKeyed
    
    
    
    
    PointReadsAreExact
    
    
