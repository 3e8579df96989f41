CONSTANTS
  n1 = n1
  n2 = n2
  n3 = n3
  a = a
  b = b
  c = c
  None = None
  Nodes = {n1, n2}
  Objects = {a, b, c}
  Wires <- Chain
  MaxStaged = 3
  MaxOthers = 1
  Faults = TRUE
SYMMETRY Symmetry
SPECIFICATION Spec
INVARIANTS TypeOK HalvesMeet
PROPERTIES BatchIsWhole
