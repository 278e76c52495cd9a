SPECIFICATION WLiveSpec
CONSTANTS
  None = None
  MaxInt32 = 500
  FloatOverflow = 500
  Scale = 1
  TicksPerSecond = 1
  RingCapacity = 1
  RestartSeedCopies = 1
  Revision = {r1}
  Specs <- OneSpec
  ClassifiedParams <- OneClassification
  Defaults <- MCDefaults
  HPAs = {}
  Replicas = {1}
  CurrentRates = {0}
  Forecasts = {1}
  Interval = 1
  NoiseFloor = 0
  InformerLag = None
  RequestTime = None
  MaxTime = 0
  Budgets <- RetryBudgets
  ClassifierUnbounded = TRUE
  MaxFailures = 0
PROPERTIES ReclassifyRemoved
