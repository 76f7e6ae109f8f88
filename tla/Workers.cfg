SPECIFICATION Spec
CONSTANTS
  Threads = {0, 1}
  Latencies = {1, 2}
  Succeeding = {1}
  Failing = {2}
  Unset = 9
  MaxThreads = 2
  Exactlys = {0, 1, 3}
  Expecteds = {0, 4}
  Chosen <- MCChosen
  MaxIter = 0
INVARIANTS IInv CallsExact TwoAndTheLast LiveExact
