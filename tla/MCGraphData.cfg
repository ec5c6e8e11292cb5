SPECIFICATION DataSpec
CONSTANTS
  a = a
  b = b
  NodeIds = {a, b}
  Relations = {"Contains", "DependsOn"}
  NeighborhoodDepth = 1
  MaxEdges = 3
  MaxVersion = 2
  Ids = {1, 2, 3}
  Edges <- MCEdges
  Sources <- MCSources
  Depth = 2
  TextBudget = 2
  L1Budget = 6
  CodeBudget <- MCCodeBudget
  NoteBudget = 1
  Heading = 5
  Marker = 1
  r1 = r1
  r2 = r2
  Captures = {r1, r2}
SYMMETRY Sym
CHECK_DEADLOCK FALSE
INVARIANTS
  IndexesAgree
  EdgeKeysUnique
  DanglingOnlyAfterRemoval
  SectionsFit
  NearestFirst
  SkillsAreWhole
  ApprovedNeverHidden
PROPERTIES
  DistinctPositionsRemoveNamedEdges
