CONSTANTS
  c1 = c1
  c2 = c2
  Calls = {c1, c2}
  Workers = {d, r1, r2}
  Driver = d
  Batch <- MCBatch
  MayCrash = TRUE
  None = None
SPECIFICATION FlowSpec
INVARIANTS
  FlowTypeOK
  OnlyApprovedOnce
  NoRejectedStep
  QuietRunIsEnded
  CompletedReportIsTrue
PROPERTIES
  ImplementsGate
SYMMETRY MCSymmetry
CHECK_DEADLOCK FALSE
