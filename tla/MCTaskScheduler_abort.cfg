SPECIFICATION Spec
CONSTANTS
  p = p
  c = c
  d = d
  A = A
  B = B
  NoTask = NoTask
  Task = {p, c}
  Conversation = {A}
  Owner <- FamilyOwner
  Home <- FamilyHome
  ConversationOwner <- OneRoot
  Background <- NoBackground
  Calls = {"abort", "register"}
  TaskCode = {"progress", "waitAllSettled", "waitFailFast", "settle"}
  MaxRequests = 1
  MaxRejections = 0
  MaxCrashes = 0
INVARIANTS
  OwnersOutliveWork
  AbortsBottomUp
  NoLostWakeup
PROPERTIES
  AbortDecidesOutcome
CHECK_DEADLOCK FALSE
