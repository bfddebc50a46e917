\* the order side: two orders on each asset and an invalid side;
\* requests and responses of several orders are in flight together, up to
\* the saturated end of the clock
SPECIFICATION Spec
CONSTANTS
  TickSize = 1
  Inputs <- MCFewRows
  Configs <- MCOneConfig
  MinTs <- MCMinTs
  MaxTs = 6
  AssetArgs = {0, 1}
  OrderIds = {1, 2}
  SideArgs <- MCBuyOrBad
  PriceArgs = {4}
  QtyArgs = {2}
  TifArgs = {3}
  DurationArgs = {1, 3}
  TimeoutArgs <- MCTimeouts
INVARIANTS
  TypeOK
  OrderLifeCycle
  WaitVerdict
PROPERTIES
  FirstInFirstOut
  WaitStopsAtResponse
  ImplementsOrderDesk
CHECK_DEADLOCK FALSE
