SPECIFICATION Spec
CONSTANTS
  a = a
  b = b
  NodeIds = {a, b}
  Relations = {"Contains", "DependsOn"}
  NeighborhoodDepth = 1
  MaxEdges = 3
  MaxVersion = 2
CHECK_DEADLOCK FALSE
SYMMETRY Sym
PROPERTIES
  RefusedPatchChangesNothing
