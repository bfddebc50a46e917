\* the data side: two row sets, two latency set-ups, an order of either side
\* on either asset; the clock saturates well after the last event
SPECIFICATION Spec
CONSTANTS
  TickSize = 1
  Inputs <- MCAllInputs
  Configs <- MCAllConfigs
  MinTs <- MCMinTs
  MaxTs = 9
  AssetArgs = {0, 1}
  OrderIds = {1}
  SideArgs <- MCSides
  PriceArgs = {4}
  QtyArgs = {2}
  TifArgs = {2}
  DurationArgs = {0, 1, 3}
  TimeoutArgs <- MCTimeouts
INVARIANTS
  NothingOverdue
  MatchedOnArrival
PROPERTIES
  ClockMonotone
  ReturnsDrained
  NoLookahead
  StrategySeesThePast
CHECK_DEADLOCK FALSE
