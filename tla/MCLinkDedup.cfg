SPECIFICATION Spec
CONSTANTS
  Idents = {"i", "j"}
  Comments = {"c"}
  Setups = {"s", "t"}
  Audio = {"a", "b"}
  Files <- ChainFiles
  Options <- AllOptions
INVARIANTS
  Lossless
  NeverFails
  ListsAgree
CHECK_DEADLOCK FALSE
