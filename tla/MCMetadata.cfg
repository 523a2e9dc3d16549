\* One process handles commits and another one runs the checkpoint updater; one crash.
SPECIFICATION MCMetadataSpec
CONSTANTS
    Services = {"a", "b"}
    Frontends = {"a"}
    Updaters = {"b"}
    SpeedboatFiles <- TwoFiles
    DeleteFiles <- LateFile
    CompactionThreshold = 2
    Readiness = {TRUE}
    MaxFaults = 1
CONSTANTS
    IndexNames <- MCIndexNames
    FirstAliases = {"logs"}
    Matches <- MCMatches
    Admins = {"a", "b"}
    Updates <- MCUpdates
    Reads <- MCReads
    DocumentsAt <- MCDocumentsAt
    MaxPublished = 2
    MaxModes = 1
INVARIANTS
    CommittedWorkIsTracked
    IndexReadsAreConsistent
CHECK_DEADLOCK FALSE
