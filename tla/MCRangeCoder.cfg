SPECIFICATION Spec
CONSTANTS
  Byte = 4
  Rate = 3
  Limit = 2
  Slack = 3
  Probs = {1, 8, 15}
  BitMax = 5
  Given <- ShortStreams
INVARIANTS
  TypeOK
  CarryFits
  NeverFails
  RoundTrip
  InRange
PROPERTIES
  Consumes
CHECK_DEADLOCK FALSE
