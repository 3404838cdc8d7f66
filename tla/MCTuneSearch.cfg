SPECIFICATION Spec
CONSTANTS
  TRY_ALIM <- MCAlim
  TRY_LR <- MCLr
  Default <- MCDefault
  Sizes = {1, 2, 3}
  Searches = {0, 1, 3, 8}
INVARIANTS
  BestKept
  Smallest
  TwoAtMost
CHECK_DEADLOCK FALSE
