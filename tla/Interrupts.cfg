CONSTANTS
  PowerManager = PowerManager
  TempWatcher = TempWatcher
  Main = Main
  NCores = 1
  MaxInterrupts = 5
  MaxSamples = 2
SPECIFICATION FairSpec
INVARIANTS
  TypeOK
  SourcesCoverUnits
  SuspendBalance
  PromptReadingsFinished
PROPERTIES
  ActiveRunsIfSingle
  RunEnds
CHECK_DEADLOCK FALSE
