SPECIFICATION FairSpec
CONSTANTS
  p = p
  c = c
  d = d
  A = A
  B = B
  NoTask = NoTask
  Task = {p, c}
  Conversation = {A}
  Owner <- FamilyOwner
  Home <- FamilyHome
  ConversationOwner <- OneRoot
  Background <- NoBackground
  Calls = {"abort", "seal", "waitForIdle"}
  TaskCode = {"progress", "settle"}
  MaxRequests = 1
  MaxRejections = 0
  MaxCrashes = 0
PROPERTIES
  ReadyWorkIsServed
CHECK_DEADLOCK FALSE
