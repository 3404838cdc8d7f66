SPECIFICATION Spec
CONSTANTS
  Chunk = 2
  TuneMax = 1
  Magic = 1
  Bytes = {1, 2}
  StreamMax = 3
  ByteMax = 5
  Given <- GivenFiles
INVARIANTS
  Tiled
  Reemits
  SizeExact
  RefusesOnlyOthers
PROPERTIES
  Implements
CHECK_DEADLOCK FALSE
