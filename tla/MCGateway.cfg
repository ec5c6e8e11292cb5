SPECIFICATION GatewaySpec
CONSTANTS
  Clients = {c1}
  Sockets = {c1}
  MaxAsked = 2
  MaxRestarts = 1
  Tasks = {"h1", "h2"}
  Rounds = {2}
  MaxRuns = 2
  MaxCrashes = 1
CHECK_DEADLOCK FALSE
INVARIANTS
  ZombiesOnlyByPanic
  DiskInSync
  NoRoundLost
  CancelIsFinal
PROPERTIES
  TerminalIsFinal
  NoLostWakeup
  CancelStopsWork
  HeartbeatEnds
