CONSTANTS
  MicrosPerSec = 4
  NanosPerMicro = 2
  MiniInterval = 2
  LongMax = 100
  NCores = 2
  TablePushes <- SmallTables
  Duration = 4
  StartDelay = 1
  MaxClock = 6
  MaxSets = 2
SPECIFICATION FairSpec
INVARIANTS
  TypeOK
  NextCoreMatches
  ScheduleExact
  TimeoutRowDue
  NeverSleepsPast
PROPERTIES
  DueRowsApplied
  RunEnds
