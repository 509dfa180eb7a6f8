SPECIFICATION Spec
CONSTANT MaxJobs = 3
INVARIANTS
  OneThread
  NoThreadAfterClose
  OwnResult
PROPERTIES
  JobsEnd
  CloseHonoured
