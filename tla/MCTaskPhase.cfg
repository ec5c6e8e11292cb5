SPECIFICATION PhaseSpec
CONSTANTS
  Ids = {"start", "b", "c", "n"}
  AnchorLike = {"start"}
  Seeds <- MCSeeds
  Patches <- MCPatches
  MaxRepairs = 1
  MaxDepth = 2
  MaxPatches = 3
  TaskIds = {"a", "b", "c", "d"}
  Plans <- MCPlans
  Flows <- MCFlows
  Growths <- MCGrowths
  MaxExpandDepth = 2
CHECK_DEADLOCK FALSE
INVARIANTS
  FindsExactlyCycles
  PassedGraphIsSound
  CascadeCovers
  HandedOverWhole
  OnlyLoopingSkillsRefused
PROPERTIES
  PassesEnd
  PlanEnds
