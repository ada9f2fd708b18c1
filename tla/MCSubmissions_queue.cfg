SPECIFICATION Spec
CONSTANTS
  WriteHeads = {"none", "self", "named"}
  InputModes = {"steer", "followUp", "reject"}
  QueueModes <- ChangingModes
  Interrupts = {"abort", "abortConversation", "fault"}
  MaxSubmissions = 3
  MaxRounds = 2
  MaxCompactions = 1
  MaxRetries = 1
CHECK_DEADLOCK FALSE
INVARIANTS TypeOK RunOwnsPlacedInputs QueueMatchesRecords TranscriptMatchesRecords NoAnswerAcrossReset PlacedInOrder HeadsNeverMoveBack
PROPERTY FollowUpsWaitForTheRunsEnd
