\* The instance of Sprites, of which a camera without sprites is enough.
CONSTANTS
  Nodes = {n0, n1, n2, n3, n4, n5, n6}
  None = None
  Matrices <- MCMatrices
  Mul <- MCMul
  Operators <- MCOperators
  Sprites = {s1, s2}
  Nobody = Nobody
  Identity <- MCIdentity
  Translation <- MCTranslation
  Rotation <- MCRotation
  Scaling <- MCScaling
  Projection <- MCProjection
  Zooming <- MCZooming
  Positions <- MCPositions
  Scales <- MCScales
  Sizes <- MCSizes
  Angles = {0, 1}
  Moves <- MCMoves
  Turns <- MCTurns
  Zooms <- MCZooms
  Points <- MCPoints
  Factors = {1, 10}
  Unit = 10
  LeastZoom = 1
  MaxChanged = 2
SPECIFICATION SpriteSpec
SYMMETRY SpriteSymmetry
CONSTRAINT FewChanges
INVARIANT DocZoom
CHECK_DEADLOCK FALSE
