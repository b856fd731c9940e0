CONSTANTS
  MaxRuns = 1
  m1 = m1
  m2 = m2
  Msgs = {m1, m2}
  Sessions <- MCQuiet
  NoMsgRun = None
SPECIFICATION LoopSpec
INVARIANT LlmTurnHasItsStep
CHECK_DEADLOCK FALSE
