SPECIFICATION Spec
CONSTANTS
  MaxClients = 3
  Buffer = 2
  MaxTicks = 1
  MayDisconnect = {1, 2}
INVARIANTS IInv SliceExact FinalIsLast
PROPERTIES FinalClosesTwo
CHECK_DEADLOCK FALSE
