SPECIFICATION PlanSpec
CONSTANTS
  TaskIds = {"a", "b", "c", "d"}
  Plans <- MCPlans
  Flows <- MCFlows
  Growths <- MCGrowths
  MaxExpandDepth = 2
CHECK_DEADLOCK FALSE
INVARIANT DeclaredOrder
