SPECIFICATION Spec
CONSTANTS
  N = 3
  SizeSet = {0, 1, 2}
  Requested = {0, 2, 9}
  Cores = {1, 3}
  Avail = {0, 5, 12}
  FixedCost = 2
INVARIANTS
  HighestStatus
  MemoryFits
PROPERTIES
  Ends
CHECK_DEADLOCK FALSE
