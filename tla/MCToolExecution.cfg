CONSTANTS
  Calls = {c1, c2}
  Workers = {w1, w2}
  None = None
SPECIFICATION Spec
INVARIANTS
  TypeOK
  ClosedBeforeStartNeverRuns
  ResultMatchesStatus
  StepTellsTruth
  NothingLeftOpen
PROPERTIES
  TerminalIsFinal
  EveryCallIsAnswered
CHECK_DEADLOCK FALSE
