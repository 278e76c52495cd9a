SPECIFICATION LiveSpec
CONSTANTS
  None = None
  MaxInt32 = 500
  FloatOverflow = 500
  Scale = 1
  TicksPerSecond = 1
  RingCapacity = 1
  RestartSeedCopies = 1
  CRs = {a, b}
  CapInputs <- Moves
  MaxSent = 4
INVARIANTS TypeOK LatestSurvives
PROPERTIES ExplainedInOrder LatestReceived
CHECK_DEADLOCK FALSE
