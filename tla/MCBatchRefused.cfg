SPECIFICATION Spec
CONSTANTS
  N = 3
  SizeSet = {1}
  Requested = {2}
  Cores = {2}
  Avail = {0}
  FixedCost = 2
INVARIANTS
  CarriesOn
CHECK_DEADLOCK FALSE
