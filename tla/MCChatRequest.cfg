CONSTANTS
  Requests = {"r1", "r2"}
  Threads = {"t1"}
  Writers = {"r1", "r2", "t1"}
  NoRun = "none"
  Adapters <- MCAdapters
  Fixed = 1
  Threshold = 7
  Target = 5
  Header = 1
  Notice = 1
  HistoryLimit = 3
  MaxSteps = 4
  Cases <- MCCases
SPECIFICATION ChatSpec
INVARIANTS
  ChatTypeOK
  NumberedInOrder
  AnswerIsOneVoice
  
  PromptIsSound
PROPERTIES
  EveryRequestEnds
CHECK_DEADLOCK FALSE
