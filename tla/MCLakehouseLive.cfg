SPECIFICATION FairSpec
CONSTANTS
  e1 = e1
  e2 = e2
  Engines = {e1, e2}
  Threshold = 4
  MaxRows = 3
  MaxDeletes = 1
  MaxExpiries = 0
  MaxFaults = 0
CHECK_DEADLOCK FALSE
PROPERTIES
  InsertedRowsBecomeSearchable
