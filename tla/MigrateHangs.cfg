CONSTANTS
  d1 = d1
  d2 = d2
  Thermal = Thermal
  Main = Main
  NoJob = NoJob
  NCores = 2
  Dispatcher = {d1}
  Aperiodic = {}
  PipelinedTask = {}
  Allocator <- CoreOne
  UserCalls = {"migrate"}
  MaxJobs = 1
  MaxPosition = 0
  Wcet = 1
SPECIFICATION FairSpec
PROPERTIES
  MigrationReturns
CHECK_DEADLOCK FALSE
