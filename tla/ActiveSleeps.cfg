CONSTANTS
  PowerManager = PowerManager
  TempWatcher = TempWatcher
  Main = Main
  NCores = 1
  MaxInterrupts = 3
  MaxSamples = 0
SPECIFICATION FairSpec
PROPERTIES
  ActiveRuns
