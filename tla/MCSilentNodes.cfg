SPECIFICATION FairNodesSpec
CONSTANTS
  Nodes = {"m", "n"}
  Writers = {"m"}
  Extensions = {"none"}
  MaxCheckpoint = 1
  MaxEpoch = 1
  MaxCalls = 0
CHECK_DEADLOCK FALSE
PROPERTIES
  CommittedBecomesActive
