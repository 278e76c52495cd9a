SPECIFICATION Spec
CONSTANTS
  None = None
  MaxInt32 = 2147483647
  FloatOverflow = 2147483647
  Scale = 1
  TicksPerSecond = 1
  RingCapacity = 10
  RestartSeedCopies = 5
  Malformed = Malformed
  NotANumber = NotANumber
  Infinite = Infinite
  Raised = Raised
  Learned <- MCLearned
  Correlations <- MCCorrelations
  Envs <- MCEnvs
  ServiceEnvs <- MCServiceEnvs
  Wirings <- BothWirings
  Workloads <- MCWorkloads
  Pins <- MCPins
  MinReplicas = 2
  MaxReplicas = 4
  Birth = 1360
  Clocks = {1350, 1442, 1485}
  MaxDispatched = 1
INVARIANTS ParamsInLimits RequestsValid LineContinued PinHonoured FallbacksCounted
