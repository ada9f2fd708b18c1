SPECIFICATION Spec
CONSTANTS
  p = p
  c = c
  d = d
  A = A
  B = B
  NoTask = NoTask
  Task = {p, c, d}
  Conversation = {A}
  Owner <- ForkOwner
  Home <- ForkHome
  ConversationOwner <- OneRoot
  Background <- NoBackground
  Calls = {}
  TaskCode = {"waitFailFast", "settle"}
  MaxRequests = 0
  MaxRejections = 0
  MaxCrashes = 1
INVARIANTS
  FailFastOwed
SYMMETRY Children
CHECK_DEADLOCK FALSE
