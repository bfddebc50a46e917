\* rows as the cache builder writes them: one of them with an empty side
SPECIFICATION Spec
CONSTANTS
  TickSize = 2
  Prices = {2, 3, 4, 6, 7, 9}
  Quantities = {1}
INVARIANT
  EmptySideNotValid
CHECK_DEADLOCK FALSE
