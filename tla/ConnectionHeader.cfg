CONSTANTS
  MaxRetries = 2
  Login = FALSE
  Calls <- AllCalls
  Env = {"limited", "unparsed"}
SPECIFICATION Spec
INVARIANTS UnparsedIsNone
