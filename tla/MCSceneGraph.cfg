\* Three nodes: every chain and every fork, detached and re-attached.
CONSTANTS
  Nodes = {n1, n2, n3}
  None = None
  Matrices <- MCMatrices
  Mul <- MCMul
  Operators <- MCOperators
SPECIFICATION Spec
SYMMETRY NodeSymmetry
INVARIANTS
  TypeOK
  StaleIsPending
  MatrixIsPathProduct
  ChildrenFormForest
\* All nodes may have been created and released.
CHECK_DEADLOCK FALSE
