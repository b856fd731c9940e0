CONSTANTS
  UnsafeName = {"root"}
  Forbidden = {"odd"}
  Blank = ""
  NoHost = "unset"
  Jobs = {1, 2}
  Batches <- MCBatches
  AllSettings <- MCSettings
  Bundle <- MCBundle
  MaxRestarts = 1
SPECIFICATION RunnerSpec
INVARIANTS
  RunnerTypeOK
  MutationsWereApproved
  NoBlindRepeat
  SentWithinLimits
  NothingLeftBehind
PROPERTIES
  TodaysSettings
  EveryCallReturns
CHECK_DEADLOCK FALSE
