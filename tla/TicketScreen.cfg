SPECIFICATION ScreenSpec
CONSTANTS
  Tickets = {t1}
  Verdicts = {v1}
  NoVerdict = NoVerdict
  PollLimit = 3
INVARIANT ScreenTypeOK
PROPERTY PollingEnds
PROPERTY ScreenConverges
CHECK_DEADLOCK FALSE
