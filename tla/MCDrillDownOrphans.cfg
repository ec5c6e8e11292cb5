SPECIFICATION Spec
CONSTANTS
  Runs = {"main", "sub1", "sub2", "sub3"}
  Root = "main"
  NoRun = "no run"
  MaxDepth = 2
  MaxRounds = 4
CHECK_DEADLOCK FALSE
PROPERTIES SubRunsStopWithParent
