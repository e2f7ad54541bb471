SPECIFICATION Spec
CONSTANTS
  Exporters = {"log"}
  RetryCount = 2
  MaxExports = 2
  MaxPackets = 2
  MaxFds = 3
  MaxCuts = 1
  MaxResets = 1
CHECK_DEADLOCK FALSE
INVARIANTS TrueMeansDelivered
