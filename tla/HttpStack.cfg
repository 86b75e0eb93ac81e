SPECIFICATION StackSpec
CONSTANTS
  Requests = {r1, r2, r3, health}
  Exempt = {health}
  Probes = {health}
  Limit = 1
  Window = 2
  MaxTime = 4
  MaxLate = 4
  Never = Never
SYMMETRY MCSymmetry
INVARIANT StackTypeOK
INVARIANT CountersExpire
INVARIANT HandledOnce
INVARIANT AnswersAreWhole
PROPERTY ImplementsBudget
CHECK_DEADLOCK FALSE
