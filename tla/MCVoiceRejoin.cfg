SPECIFICATION Spec
CONSTANTS
  Sockets = {1, 2}
  MaxJoins = 3
  MaxMutes = 0
CHECK_DEADLOCK FALSE
INVARIANT FullMesh
