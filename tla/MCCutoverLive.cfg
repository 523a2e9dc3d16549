SPECIFICATION FairSpec
CONSTANTS
  Nodes = {"m", "n"}
  Extensions = {"none", "es"}
  MaxCheckpoint = 1
  MaxEpoch = 1
PROPERTIES
  AcknowledgedTargetIsPromoted
