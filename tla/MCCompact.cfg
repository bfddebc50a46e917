\* up to three rows in batches of up to three and in two files; one or two
\* rows of rich depth
SPECIFICATION Spec
CONSTANTS
  Sources <- MCSources
  NaN = NaN
  SessionStart = 1
  SessionEnd = 3
  BaseLatency = 1
  BatchRows = 3
  Paths = 2
INVARIANTS
  TypeOK
  EveryRowOnce
  CorrectionIsLeast
  RecordedOrderReplays
  BestIsTrue
  WrittenValidates
CHECK_DEADLOCK FALSE
