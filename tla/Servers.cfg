SPECIFICATION Spec
CONSTANTS
  Handlers <- MCHandlers
  Savers <- MCSavers
  GzipWriters = {1, 2}
  MaxPayloadSize = 3
  MaxDelay = 2
  Whole = 1
  MaxSent = 2
  Confs <- MCConfs
INVARIANTS IInv EchoExact ForwardedRight IndexFresh RelayExact
PROPERTIES AllEnds
CHECK_DEADLOCK FALSE
