CONSTANTS
  Sessions = {s1, s2}
  doc = doc
  chunk = chunk
  operator = operator
  Objects = {doc, operator}
  KindOf <- MCKinds
  Vals = {v1}
  MaxId = 2
  MaxStaged = 2
  Env = {"fail", "lose", "interrupt"}
SPECIFICATION FairSpec
PROPERTIES ImplementsStagedWrites CommitReturns
