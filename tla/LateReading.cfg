CONSTANTS
  PowerManager = PowerManager
  TempWatcher = TempWatcher
  Main = Main
  NCores = 2
  MaxInterrupts = 2
  MaxSamples = 2
SPECIFICATION Spec
INVARIANTS
  ReadingsFinished
