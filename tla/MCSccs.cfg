CONSTANTS
  n1 = n1
  n2 = n2
  n3 = n3
  n4 = n4
  Node = {n1, n2, n3, n4}
  MaxDegree = 2
  Graphs <- MCGraphs
SPECIFICATION Spec
SYMMETRY Symmetry
INVARIANTS
  NeverCutShort
  ComponentsExact
