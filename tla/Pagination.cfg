\* Pages that the server cuts shorter than asked for, limits around the size of a
\* page, and every way in which other clients change the list meanwhile.
CONSTANTS
  PageSize = 3
  Cap = 2
  Limits <- SomeLimits
  MaxItems = 5
  Env = {"append", "insert", "delete", "fail"}
SPECIFICATION FairSpec
INVARIANTS TypeOK YieldsInOrder CompleteAtStop NothingMissed NoRepeats
PROPERTIES AllReturns
