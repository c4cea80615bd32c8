CONSTANTS
  d1 = d1
  d2 = d2
  Thermal = Thermal
  Main = Main
  NoJob = NoJob
  NCores = 2
  Dispatcher = {d1}
  Aperiodic = {}
  PipelinedTask = {d1}
  Allocator <- CoreZero
  UserCalls = {"lock"}
  MaxJobs = 2
  MaxPosition = 0
  Wcet = 1
SPECIFICATION FairSpec
PROPERTIES
  JobsServed
  RunEnds
