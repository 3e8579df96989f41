\* Every kind of invocation, one change by another client, and cloud secrets that
\* change up to twice.  A command stops.
CONSTANTS
  r1 = r1
  r2 = r2
  e1 = e1
  Manifests <- MCManifests
  Variables = {e1}
  References = {r1, r2}
  MaxVersion = 3
  Options <- OptionRecords
  Commands <- MCCommands
  Worlds <- MCWorlds
  PageSize = 2
  MaxChanges = 1
SPECIFICATION CommandSpec
INVARIANTS NothingInTheClear EveryKeyOneValue ExitTells LookupsAreWhole ActsOnTheNamed
PROPERTIES CodesTell CommandEnds
CHECK_DEADLOCK FALSE
