CONSTANTS
  Invocations <- MCInvocations
  Answers <- MCAnswers
  Formats <- TwoFormats
  MaxSize = 8
  ShortSize = 2
  None = None
  Blank = Blank
SPECIFICATION RefineSpec
INVARIANTS
  LateRequestsBounded
  Accounted
  ReportCurrent
PROPERTIES
  RepairKeepsGood
  RefineEnds
CHECK_DEADLOCK FALSE
