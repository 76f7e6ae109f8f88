SPECIFICATION Spec
CONSTANTS
  r1 = r1
  r2 = r2
  c1 = c1
  c2 = c2
  Runs = {r1, r2}
  Callers = {c1, c2}
  NoRun = none
  Paced = {}
  Outcomes = {"run", "fakeStart", "earlyError"}
  Scopes <- MCScopes
INVARIANTS IInv StopNotLost OneStopper
PROPERTIES StopsAsPromised StoppedEnds RegistryFreed
CHECK_DEADLOCK FALSE
