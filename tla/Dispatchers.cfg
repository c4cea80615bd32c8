CONSTANTS
  MicrosPerSec = 5
  NanosPerMicro = 1
  Kinds <- OneOfEach
  Period = 6
  Jitter = 1
  ReleaseTime = 4
  InitialDelta = 1
  Percents = {1, 100, 200}
  Duration = 13
  MaxLate = 1
  MaxClock = 28
SPECIFICATION FairSpec
INVARIANTS
  TypeOK
  PeriodicOnTime
  JitterTelescopes
  SleepsValid
  JobsCounted
  EndsInTime
PROPERTIES
  RunEnds
