SPECIFICATION Spec
CONSTANTS
  Idents = {"i", "j"}
  Comments = {"c"}
  Setups = {"s", "t"}
  Audio = {"a", "b"}
  Files <- MixedFiles
  Options <- AllOptions
INVARIANTS
  Lossless
CHECK_DEADLOCK FALSE
