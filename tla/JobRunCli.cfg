CONSTANTS
  Jobs = 2
  Timeouts <- SomeTimeouts
  Poll = 2
  Latency = 1
  Callers = {"cli"}
  Env = {}
SPECIFICATION Spec
INVARIANTS ExitMeansComplete
CHECK_DEADLOCK FALSE
