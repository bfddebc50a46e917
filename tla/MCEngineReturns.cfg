\* every native call ends, with an invalid asset or time in force, with no rows at all and at the clock's maximum
SPECIFICATION FairSpec
CONSTANTS
  TickSize = 1
  Inputs <- MCEmptyInputs
  Configs <- MCAllConfigs
  MinTs <- MCMinTs
  MaxTs = 5
  AssetArgs = {0, 2}
  OrderIds = {1}
  SideArgs <- MCSides
  PriceArgs = {4}
  QtyArgs = {2}
  TifArgs = {1, 2}
  DurationArgs = {0, 1, 3}
  TimeoutArgs <- MCTimeouts
PROPERTY
  CallReturns
CHECK_DEADLOCK FALSE
