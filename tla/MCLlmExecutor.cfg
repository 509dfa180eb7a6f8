CONSTANTS
  MaxRequests = 4
  MaxParallel = 3
  MaxCalls = 2
  MaxSignals = 3
SPECIFICATION Spec
INVARIANTS
  StageBarrier
  OrderedComplete
  LateOperationsBounded
PROPERTIES
  MapEnds
  ImplementsBatchMap
CHECK_DEADLOCK FALSE
