CONSTANTS
  Sessions = {s1}
  doc = doc
  chunk = chunk
  operator = operator
  Objects = {doc, chunk, operator}
  KindOf <- MCKinds
  Vals = {v1}
  MaxId = 2
  MaxStaged = 3
  Env = {"fail", "others"}
SPECIFICATION Spec
INVARIANTS NoOrphans
PROPERTIES DeleteIsNotLost
