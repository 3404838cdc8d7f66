SPECIFICATION Spec
CONSTANTS
  Books <- MCBooks
  NSlots = 2
  MaxLinks = 2
  MaxBooks = 2
PROPERTIES
  AgesUnused
CHECK_DEADLOCK FALSE
