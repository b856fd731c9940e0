CONSTANTS
  c1 = c1
  c2 = c2
  Calls = {c1, c2}
  Workers = {d, r1}
  Driver = d
  Batch <- MCBatch
  MayCrash = TRUE
  None = None
SPECIFICATION FlowSpec
PROPERTIES
  DecisionTakesEffect
  TasksReturn
CHECK_DEADLOCK FALSE
