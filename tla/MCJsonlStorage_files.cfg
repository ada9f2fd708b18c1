SPECIFICATION Spec
CONSTANTS
  t = t
  d = d
  Object = {t, d}
  Batch <- Batches
  Tears = TRUE
  MaxCommits = 3
  MaxCrashes = 2
INVARIANTS
  TypeOK
  AckedSurvive
  MarkersResolve
  SeqsAgree
  CommitsNeverMix
CHECK_DEADLOCK FALSE
