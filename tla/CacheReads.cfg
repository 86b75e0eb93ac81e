SPECIFICATION Spec
CONSTANTS
  Readers = {a1, a2, c1}
  Admins = {a1, a2}
  NoEntry = NoEntry
  MaxWrites = 3
INVARIANT TypeOK
INVARIANT OthersReadTheRow
PROPERTY CacheConverges
CHECK_DEADLOCK FALSE
