SPECIFICATION LiveSpec
CONSTANTS
  None = None
  MaxInt32 = 500
  FloatOverflow = 500
  Scale = 2
  TicksPerSecond = 1
  RingCapacity = 2
  RestartSeedCopies = 1
  Defaults <- MCDefaults
  Interval = 0
  NoiseFloor = 0
  InformerLag = None
  RequestTime = None
  CurrentRates = {4}
  Revision = {r1}
  Specs <- OneSpec
  ClassifiedParams = {}
  HPAs = {}
  Replicas = {0, 4}
  Forecasts = {3, 8}
  MaxTime = 1
  Budgets <- QuietBudgets
  ClassifierUnbounded = FALSE
PROPERTIES Converges StatusWritesStop
