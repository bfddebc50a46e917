\* durations past 2^63 (8) and past 2^64 (16)
SPECIFICATION ReplaySpec
CONSTANTS
  TickSize = 1
  Inputs <- MCFewRows
  Configs <- MCOneConfig
  MinTs <- MCReplayMinTs
  MaxTs = 7
  AssetArgs = {0, 2}
  OrderIds = {1, 2}
  SideArgs <- MCBuyOrBad
  PriceArgs = {4}
  QtyArgs = {2}
  TifArgs = {3}
  DurationArgs <- MCInt64
  TimeoutArgs <- MCInt64
  Durations <- MCHugeDurations
  Timeouts <- MCReplayTimeouts
  NoView = NoView
  NoPath = NoPath
  Setups <- MCSetups
  Candidates <- MCCandidates
CHECK_DEADLOCK FALSE
PROPERTIES EndOfDataIsTold
