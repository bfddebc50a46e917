\* rows of any bbo_v1 file: a priced side may have no quantity
SPECIFICATION Spec
CONSTANTS
  TickSize = 2
  Prices = {2, 3, 4, 6, 7}
  Quantities = {0, 1}
INVARIANTS
  BestBacked
  WithdrawnNotShown
CHECK_DEADLOCK FALSE
