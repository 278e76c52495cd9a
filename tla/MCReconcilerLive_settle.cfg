SPECIFICATION LiveSpec
CONSTANTS
  None = None
  MaxInt32 = 500
  FloatOverflow = 500
  Scale = 2
  TicksPerSecond = 1
  RingCapacity = 2
  RestartSeedCopies = 1
  Defaults <- MCDefaults
  Interval = 0
  NoiseFloor = 0
  InformerLag = None
  RequestTime = None
  CurrentRates = {0}
  Revision = {r1, r2}
  Specs <- OneSpec
  ClassifiedParams <- OneClassification
  HPAs = {h1}
  Replicas = {0, 4}
  Forecasts = {8}
  MaxTime = 1
  Budgets <- SettleBudgets
  ClassifierUnbounded = FALSE
PROPERTIES Converges PhaseSettles RolloutObserved
