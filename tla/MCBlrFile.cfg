SPECIFICATION Spec
CONSTANTS
  SizeMax = 5
  Chunk = 2
  XferMax = 2
  Byte = {0, 1}
  Zero = 0
INVARIANTS
  WindowExact
  DiskBehind
  ReadExact
PROPERTIES
  Implements
CHECK_DEADLOCK FALSE
