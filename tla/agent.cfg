SPECIFICATION AgentSpec
CONSTANTS
  NThreads = 1
  Slots = {0}
  Word = 4
  MaxChain = 2
  MaxColSteps = 3
  StrictMode = TRUE
  PersistShared = TRUE
  Programs <- AgentPrograms
  InitFiles <- AgentFiles
  MaxRuns = 2
  MaxCrashes = 1
  Layout <- MCLayout
  MaxFailures = 1
INVARIANTS
  TypeOK
  NoSilentTruncation
  HalvesInOrder
PROPERTIES
  ImplementsChainRun
  OnlyFinishedRuns
CHECK_DEADLOCK FALSE
