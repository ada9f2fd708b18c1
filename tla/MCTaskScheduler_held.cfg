SPECIFICATION FairSpec
CONSTANTS
  p = p
  c = c
  d = d
  A = A
  B = B
  NoTask = NoTask
  Task = {p, c}
  Conversation = {A}
  Owner <- FamilyOwner
  Home <- FamilyHome
  ConversationOwner <- OneRoot
  Background <- NoBackground
  Calls = {}
  TaskCode = {"settle"}
  MaxRequests = 0
  MaxRejections = 0
  MaxCrashes = 0
PROPERTIES
  HeldOutcomesSettle
CHECK_DEADLOCK FALSE
