CONSTANTS
  d1 = d1
  d2 = d2
  Thermal = Thermal
  Main = Main
  NoJob = NoJob
  NCores = 3
  Dispatcher = {d1, d2}
  Aperiodic = {d2}
  PipelinedTask = {d2}
  Allocator <- AnyCore
  UserCalls = {}
  MaxJobs = 1
  MaxPosition = 0
  Wcet = 1
SPECIFICATION Spec
INVARIANTS
  TypeOK
  JobInOnePlace
  TokensMatchJobs
  QueueSlots
  PipelineComplete
  StagesInOrder
