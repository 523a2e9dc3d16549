\* Three Raft servers of which one may be lost; two service processes on DynamoDB.
SPECIFICATION MCRaftSpec
CONSTANTS
    CompactAt = 1
    MaxRowsMade = 3
    MaxRowsErased = 1
    MaxToggles = 1
    s1 = s1
    s2 = s2
    s3 = s3
    Servers = {s1, s2, s3}
    Operations = {"describe_table", "get_checkpoint", "speedboat_commit", "update_all_checkpoints"}
    MaxTerm = 2
    MaxCrashes = 1
    Processes = {"p", "q"}
    Nodes = {"m"}
    MaxTarget = 2
    MaxEpoch = 2
SYMMETRY Symmetry
INVARIANTS
    
    UpdatesOfATermAccumulate
    

    
CHECK_DEADLOCK FALSE
