CONSTANTS
  Invocations <- MCInvocations
  Answers <- MCAnswers
  Formats <- TwoFormats
  MaxSize = 8
  ShortSize = 2
  None = None
  Blank = Blank
SPECIFICATION RefineSpec
INVARIANTS
  NothingLeftInOldLanguage
CHECK_DEADLOCK FALSE
