SPECIFICATION Spec
CONSTANTS
  Tickets = {t1}
  Verdicts = {v1, v2}
  NoVerdict = NoVerdict
PROPERTY CompletedIsIdempotent
CHECK_DEADLOCK FALSE
