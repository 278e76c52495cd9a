SPECIFICATION WLiveSpec
CONSTANTS
  None = None
  MaxInt32 = 500
  FloatOverflow = 500
  Scale = 1
  TicksPerSecond = 1
  RingCapacity = 1
  RestartSeedCopies = 1
  Revision = {r1, r2}
  Specs <- OneSpec
  ClassifiedParams <- OneClassification
  Defaults <- MCDefaults
  HPAs = {}
  Replicas = {1}
  CurrentRates = {0}
  Forecasts = {1}
  Interval = 1
  NoiseFloor = 0
  InformerLag = None
  RequestTime = None
  MaxTime = 0
  Budgets <- WorkerBudgets
  ClassifierUnbounded = TRUE
  MaxFailures = 1
INVARIANTS WTypeOK
PROPERTIES WithinContract ReconcilerStatusKept OperatorEditsKept ReclassifyRetried RolloutReclassified
