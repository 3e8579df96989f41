\* One condition each: the program stops after it.
CONSTANTS
  Keys <- MCKeys
  Fields <- MCFields
  Contexts <- MCContexts
  Conditions <- MCConditions
  MaxDepth = 6
SPECIFICATION ConditionSpec
INVARIANTS CompiledMeansSame
CHECK_DEADLOCK FALSE
