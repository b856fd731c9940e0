CONSTANTS
  c1 = c1
  c2 = c2
  Calls = {c1, c2}
  Workers = {d, r1}
  Driver = d
  Batch <- MCBatch
  MayCrash = FALSE
  None = None
SPECIFICATION FlowSpec
INVARIANT CancelledRunHasNoOpenChild
CHECK_DEADLOCK FALSE
