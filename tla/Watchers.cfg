SPECIFICATION Spec
CONSTANTS
  Runs = {r1, r2, r3}
  Moved = {r3}
  MayFail = {r3}
  MaxSignals = 2
INVARIANTS IInv HandlerKept
PROPERTIES InterruptHeeded WatcherEnds
CHECK_DEADLOCK FALSE
