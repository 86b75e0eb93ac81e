SPECIFICATION Spec
CONSTANTS
  Readers = {a1}
  Admins = {a1}
  NoEntry = NoEntry
  MaxWrites = 2
INVARIANT AdminsReadCurrent
CHECK_DEADLOCK FALSE
