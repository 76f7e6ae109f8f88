SPECIFICATION Spec
CONSTANTS
  r1 = r1
  r2 = r2
  c1 = c1
  c2 = c2
  Runs = {r1}
  Callers = {c1}
  NoRun = none
  Paced = {}
  Outcomes = {"run"}
  Scopes <- MCWaits
PROPERTIES StopReplies
CHECK_DEADLOCK FALSE
