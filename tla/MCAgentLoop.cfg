CONSTANTS
  MaxRuns = 2
  m1 = m1
  m2 = m2
  Msgs = {m1, m2}
  Sessions <- MCSessions
  NoMsgRun = None
SPECIFICATION LoopSpec
INVARIANTS
  LoopTypeOK
  InjectedWasHeard
  ConsumedOnce
  StepBudget
  NoStepLeftOpen
PROPERTIES
  ImplementsMailbox
  EveryRunEnds
CHECK_DEADLOCK FALSE
