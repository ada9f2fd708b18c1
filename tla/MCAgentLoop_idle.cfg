SPECIFICATION Spec
CONSTANTS
  u = u
  v = v
  Caller = {u, v}
  MaxCalls = 1
  CallCounts = {1}
  MaxTurns = 0
  MaxRuns = 1
  Mode <- OneAndAll
  Limit <- NoHost
  Waits = {1}
  Declares = FALSE
PROPERTIES
  WaitersReturn
CHECK_DEADLOCK FALSE
