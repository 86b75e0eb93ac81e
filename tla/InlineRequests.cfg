SPECIFICATION RequestSpec
CONSTANTS
  MaxAttempts = 3
  Timeout = 2
  BackoffBase = 1
  BackoffMax = 3
  RetryAfterMax = 4
  RetryAfters = {0, 2, 9}
  NoHeader = NoHeader
  VisibilityTimeout = 28
  Ticket = t1
  Verdicts = {v1, v2}
  NoVerdict = NoVerdict
INVARIANT RequestTypeOK
INVARIANT AttemptsAreCalls
INVARIANT IndependentBudgets
INVARIANT WithinVisibility
INVARIANT FailedIsAudited
INVARIANT AnsweredIsSettled
INVARIANT RetriesAreCalls
PROPERTY CompleteStaysUnlessOverridden
PROPERTY EverySettles
CHECK_DEADLOCK FALSE
