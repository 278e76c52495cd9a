SPECIFICATION HSpec
CONSTANTS
  None = None
  MaxInt32 = 500
  FloatOverflow = 500
  Scale = 2
  TicksPerSecond = 1
  RingCapacity = 2
  RestartSeedCopies = 1
  Revision = {r1}
  Specs <- OnlyEager
  ClassifiedParams = {}
  Defaults <- MCDefaults
  HPAs = {}
  Replicas = {1}
  CurrentRates = {12}
  Forecasts = {2, 20}
  Interval = 2
  NoiseFloor = 0
  InformerLag = 2
  RequestTime = 1
  MaxTime = 4
  Budgets <- GateBudgets
  ClassifierUnbounded = FALSE
PROPERTIES ObservationsUseLiveReplicas
