\* int64 is -8 .. 7; an asset number and a side may be invalid
SPECIFICATION ReplaySpec
CONSTANTS
  TickSize = 1
  Inputs <- MCFewRows
  Configs <- MCOneConfig
  MinTs <- MCReplayMinTs
  MaxTs = 7
  AssetArgs = {0, 2}
  OrderIds = {1, 2}
  SideArgs <- MCBuyOrBad
  PriceArgs = {4}
  QtyArgs = {2}
  TifArgs = {3}
  DurationArgs <- MCInt64
  TimeoutArgs <- MCInt64
  Durations <- MCDurations
  Timeouts <- MCReplayTimeouts
  NoView = NoView
  NoPath = NoPath
  Setups <- MCSetups
  Candidates <- MCCandidates
CHECK_DEADLOCK FALSE
INVARIANTS ReplayTypeOK HandleOwnsEngine OpenedAsAsked AdvanceKeepsItsWord WaitKeepsItsWord ShownOrdersAreFinal
PROPERTIES OnlyDuplicatesAreRefused
