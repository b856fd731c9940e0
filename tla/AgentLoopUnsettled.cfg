CONSTANTS
  MaxRuns = 1
  m1 = m1
  m2 = m2
  Msgs = {m1, m2}
  Sessions <- MCOneNote
  NoMsgRun = None
SPECIFICATION LoopSpec
PROPERTY InterventionIsSettled
CHECK_DEADLOCK FALSE
