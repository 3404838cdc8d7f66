SPECIFICATION Spec
CONSTANTS
  Books <- MCBooks
  NSlots = 2
  MaxLinks = 3
  MaxBooks = 4
INVARIANTS
  Fresh
  Distinct
PROPERTIES
  AgesNoneOfItsOwn
CHECK_DEADLOCK FALSE
