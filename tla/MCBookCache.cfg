\* rows as the cache builder writes them: a positive quantity, six prices on five ticks
SPECIFICATION Spec
CONSTANTS
  TickSize = 2
  Prices = {2, 3, 4, 6, 7, 9}
  Quantities = {1}
INVARIANTS
  TypeOK
  BestBacked
  Uncrossed
  SnapshotShown
  LastSideWins
PROPERTY
  OneSidedPushesAway
CHECK_DEADLOCK FALSE
