SPECIFICATION Spec
CONSTANTS
  Tickets = {t1}
  Workers = {w1}
  Verdicts = {v1}
  NoVerdict = NoVerdict
  NoRow = NoRow
  NoMessage = NoMessage
  MaxRetries = 1
  ExtraAttempts = {1}
  MaxFaults = 0
SYMMETRY MCSymmetry
INVARIANT NotifiedIsDurable
CHECK_DEADLOCK FALSE
