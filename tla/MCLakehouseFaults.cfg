SPECIFICATION Spec
CONSTANTS
  e1 = e1
  e2 = e2
  Engines = {e1, e2}
  Threshold = 2
  MaxRows = 2
  MaxDeletes = 1
  MaxExpiries = 1
  MaxFaults = 1
SYMMETRY EngineSymmetry
CHECK_DEADLOCK FALSE
INVARIANTS
  TypeOK
  ExtensionWorkIsExact
  WholeBuildsComplete
  
  TableFilesExist
PROPERTIES
  CheckpointsAreImmutable
