SPECIFICATION Spec
CONSTANTS
  Tickets = {t1}
  Workers = {w1, w2}
  Verdicts = {v1}
  NoVerdict = NoVerdict
  NoRow = NoRow
  NoMessage = NoMessage
  MaxRetries = 1
  ExtraAttempts = {1}
  MaxFaults = 1
INVARIANT TypeOK
INVARIANT NoSilentOrphan
INVARIANT FailedIsAudited
INVARIANT RetriesAreRecorded
INVARIANT NotificationIsBacked
PROPERTY CompleteIsFinal
PROPERTY AuditIsPermanent
PROPERTY ImplementsLifecycle
PROPERTY QueueDrains
CHECK_DEADLOCK FALSE
