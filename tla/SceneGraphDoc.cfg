\* Two nodes are enough: one constructed below the other, which then changes.
CONSTANTS
  Nodes = {n1, n2}
  None = None
  Matrices <- MCMatrices
  Mul <- MCMul
  Operators <- MCOperators
SPECIFICATION Spec
INVARIANT DocGetMatrix
CHECK_DEADLOCK FALSE
