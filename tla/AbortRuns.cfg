SPECIFICATION Spec
CONSTANTS
  Runs = {r1, r2}
  Callers = {c1}
  NoRun = none
  Paced = {r2}
  Outcomes = {"run", "fakeStart", "initError", "earlyError"}
  MayWait = {TRUE, FALSE}
INVARIANTS IInv ClosedOnce WokenAfterStart LeftAsNew
PROPERTIES EarlyStopRefused RefinesStopSignal
CHECK_DEADLOCK FALSE
