SPECIFICATION Spec
CONSTANTS
  Profiles <- MCProfiles
  MaxNodes = 2
  Forms = {"f1"}
  Outputs = {"o1", "o2"}
  Tools = {"t1"}
  MaxRounds = 2
  SeedingStallLimit = 2
  ForceSearchAfter = 2
  ExpandAt = 2
  StagnationTerminate = 3
  StuckTerminate = 2
  ToolFailureHalt = 2
  ClarificationMax = 1
  ExploreMax = 1
CHECK_DEADLOCK FALSE
PROPERTIES
  AlwaysEnds
