CONSTANTS
  MaxRetries = 2
  Login = TRUE
  Calls <- AllCalls
  Env = {"lost", "limited", "unparsed", "revoked", "namesake"}
SPECIFICATION FairSpec
INVARIANTS WrittenOnce NoConnectionHeld ConnectedIsScoped
PROPERTIES CallEnds
