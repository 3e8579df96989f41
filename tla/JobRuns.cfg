\* One job, of which a program or the command, the server and other clients all make
\* use, with requests that fail and answers that are late.  A command stops.
CONSTANTS
  Jobs = 1
  Timeouts <- SomeTimeouts
  Poll = 2
  Latency = 2
  Callers = {"library", "cli"}
  Env = {"fail", "others"}
SPECIFICATION FairSpec
INVARIANTS TypeOK WaitBound NoFalseTimeout WaitTellsOutcome ExitTellsOutcome
PROPERTIES WaitEnds
CHECK_DEADLOCK FALSE
