SPECIFICATION Spec
CONSTANTS
  NCalls = 2
  MaxReports = 3
  MaxCrashes = 2
INVARIANTS
  TypeOK
  UnsafeRunsOnce
  RoundInStep
  ProgressNotForgotten
CHECK_DEADLOCK FALSE
