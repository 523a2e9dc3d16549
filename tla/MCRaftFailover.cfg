\* A leader is deposed after it acknowledged an update.
SPECIFICATION RaftSpec
CONSTANTS
    Servers = {"s1", "s2", "s3"}
    Operations = {"describe_table", "get_checkpoint", "speedboat_commit", "update_all_checkpoints"}
    MaxTerm = 2
    MaxCrashes = 1
INVARIANT AcknowledgedUpdatesSurvive
CHECK_DEADLOCK FALSE
