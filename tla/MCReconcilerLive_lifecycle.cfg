SPECIFICATION Spec
CONSTANTS
  None = None
  MaxInt32 = 500
  FloatOverflow = 500
  Scale = 2
  TicksPerSecond = 1
  RingCapacity = 2
  RestartSeedCopies = 1
  Defaults <- OverflowDefaults
  Interval = 0
  NoiseFloor = 0
  InformerLag = None
  RequestTime = None
  CurrentRates = {0}
  Revision = {r1}
  Specs <- TwoSpecs
  ClassifiedParams <- OneClassification
  HPAs = {}
  Replicas = {1}
  Forecasts = {20}
  MaxTime = 1
  Budgets <- LifecycleBudgets
  ClassifierUnbounded = FALSE
INVARIANTS NothingLeaks PlanInRange
CHECK_DEADLOCK FALSE
