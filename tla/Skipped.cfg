SPECIFICATION Spec
CONSTANTS
  MaxClients = 3
  Buffer = 9
  MaxTicks = 1
  MayDisconnect = {}
PROPERTIES FinalCloses
CHECK_DEADLOCK FALSE
