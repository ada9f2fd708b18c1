SPECIFICATION Spec
CONSTANTS
  t = t
  d = d
  Object = {t, d}
  Batch <- Batches
  Tears = FALSE
  MaxCommits = 3
  MaxCrashes = 1
INVARIANTS
  ReopenShowsTheSame
CHECK_DEADLOCK FALSE
