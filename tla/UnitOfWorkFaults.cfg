CONSTANTS
  Sessions = {s1}
  doc = doc
  chunk = chunk
  operator = operator
  Objects = {doc, chunk}
  KindOf <- MCKinds
  Vals = {v1, v2}
  MaxId = 2
  MaxStaged = 3
  Env = {"fail", "lose", "interrupt", "others"}
SPECIFICATION Spec
INVARIANTS TypeOK ReportExact
PROPERTIES CommittedIsMirrored
