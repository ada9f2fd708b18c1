SPECIFICATION Spec
CONSTANTS
  p = p
  c = c
  d = d
  A = A
  B = B
  NoTask = NoTask
  Task = {p, d}
  Conversation = {A, B}
  Owner <- MixedOwner
  Home <- MixedHome
  ConversationOwner <- MixedEdge
  Background <- Apart
  Calls = {"abortConversation", "queueInput"}
  TaskCode = {"progress"}
  MaxRequests = 2
  MaxRejections = 1
  MaxCrashes = 1
INVARIANTS
  TypeOK
  CascadesOwed
  HeldOutcomesOwed
PROPERTIES
  LifecycleSpec
CHECK_DEADLOCK FALSE
