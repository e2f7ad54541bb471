SPECIFICATION FairSpec
CONSTANTS
  Exporters = {"log", "trace"}
  RetryCount = 2
  MaxExports = 3
  MaxPackets = 2
  MaxFds = 4
  MaxCuts = 1
  MaxResets = 2
CHECK_DEADLOCK FALSE
INVARIANTS ConnectedIsOpen LeaksAreKnown Framing
PROPERTIES ExportReturns DeliverySpec
