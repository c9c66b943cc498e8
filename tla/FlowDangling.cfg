SPECIFICATION Spec
CONSTANTS
  n1 = n1
  n2 = n2
  n3 = n3
  absent = absent
  Flow = Flow
  Nodes <- MCNodes
  Missing <- MCMissing
  Graphs <- MCGraphs
INVARIANTS OnlyCyclesAreRejected
CHECK_DEADLOCK FALSE
