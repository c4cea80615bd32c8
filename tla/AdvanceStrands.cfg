CONSTANTS
  d1 = d1
  d2 = d2
  Thermal = Thermal
  Main = Main
  NoJob = NoJob
  NCores = 2
  Dispatcher = {d1}
  Aperiodic = {}
  PipelinedTask = {}
  Allocator <- CoreOne
  UserCalls = {"advance"}
  MaxJobs = 2
  MaxPosition = 1
  Wcet = 1
SPECIFICATION Spec
INVARIANTS
  WaitsOnlyIfEmpty
