CONSTANTS
  d1 = d1
  d2 = d2
  Thermal = Thermal
  Main = Main
  NoJob = NoJob
  NCores = 2
  Dispatcher = {d1}
  Aperiodic = {}
  PipelinedTask = {}
  Allocator <- CoreOne
  UserCalls = {"migrate", "preempt", "advance", "move", "lock"}
  MaxJobs = 2
  MaxPosition = 1
  Wcet = 2
SPECIFICATION Spec
INVARIANTS
  JobInOnePlace
  QueueSlots
  StopReturnsIdleCore
  DeadlockOnlyInStop
  NoOtherCrash
PROPERTIES
  LockedJobStays
  ImplementsLifecycle
CHECK_DEADLOCK FALSE
