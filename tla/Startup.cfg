CONSTANTS
  NDispatchers = 1
  NCores = 2
SPECIFICATION FairSpec
INVARIANTS
  TypeOK
  UnitsMatchThreads
  NobodyEarly
  ResultsComplete
PROPERTIES
  EverybodyStarts
