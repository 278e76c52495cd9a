SPECIFICATION HSpec
CONSTANTS
  None = None
  MaxInt32 = 500
  FloatOverflow = 500
  Scale = 2
  TicksPerSecond = 2
  RingCapacity = 2
  RestartSeedCopies = 1
  Revision = {r1}
  Specs <- DeferringOrRefused
  ClassifiedParams <- OneClassification
  Defaults <- MCDefaults
  HPAs = {h1}
  Replicas = {1}
  CurrentRates = {0}
  Forecasts = {2, 20}
  Interval = 1
  NoiseFloor = 0
  InformerLag = None
  RequestTime = None
  MaxTime = 3
  Budgets <- PauseBudgets
  ClassifierUnbounded = FALSE
INVARIANTS TypeOK CooldownHonoured AtMostOneLatePatch
PROPERTIES ClassificationKept KeepsContract
