SPECIFICATION Spec
CONSTANTS
  e1 = e1
  Engines = {e1}
  Threshold = 1
  MaxRows = 2
  MaxDeletes = 1
  MaxExpiries = 1
  MaxFaults = 0
CHECK_DEADLOCK FALSE
INVARIANTS
  LiveRowsExactlyOnce
  
PROPERTIES
  ImplementsFrontier
