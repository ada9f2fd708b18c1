SPECIFICATION Spec
CONSTANTS
  u = u
  v = v
  Caller = {u, v}
  MaxCalls = 2
  CallCounts = {2}
  MaxTurns = 2
  MaxRuns = 2
  Mode <- OneAndAll
  Limit <- TwoSteered
  Waits = {2}
  Declares = TRUE
INVARIANTS
  TypeOK
  CallsAnswered
  TranscriptIsContext
  MessagesKept
  
SYMMETRY Threads
CHECK_DEADLOCK FALSE
