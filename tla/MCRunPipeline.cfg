CONSTANTS
  Provider = {"faster-whisper"}
  Request = {1, 2}
  None = None
  Undecided = Undecided
  OptionSets <- SomeOptions
  Formats = 2
  MaxWorkers = 3
  MaxCalls = 0
  MaxDeaths = 1
  MaxInterrupts = 1
SPECIFICATION RunSpec
INVARIANTS
  SucceededOutputsStay
  SessionClosed
  WorkspaceKept
  LateWorkBounded
PROPERTIES
  RunEnds
  ImplementsReport
CHECK_DEADLOCK FALSE
