SPECIFICATION FairSpec
CONSTANTS
  NThreads = 3
  Slots = {0}
  Word = 4
  MaxChain = 2
  MaxColSteps = 4
  StrictMode = FALSE
  PersistShared = TRUE
  Programs <- AllPrograms
  InitFiles <- NoFile
  MaxRuns = 1
  MaxCrashes = 1
INVARIANTS
  ByteRange
  SkipMatchesTest
  FirstJumpWins
  CapOnlyOnLoop
PROPERTIES
  HaltFreezes
  Terminates
CHECK_DEADLOCK FALSE
