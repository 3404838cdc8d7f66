SPECIFICATION Spec
CONSTANTS
  Streams <- MCSwitches
  Places <- MCPlaces
  Reserve <- MCReserve
  Order = 1
  Subframes = 2
  Blocks = 1
  Shell = 2
  MaxShift = 1
  Bands = 2
  Width = 4
  MaxBoost = 1
  Past = 2
INVARIANTS
  FrameOutlives
CHECK_DEADLOCK FALSE
