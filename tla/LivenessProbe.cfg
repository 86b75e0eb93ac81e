SPECIFICATION StackSpec
CONSTANTS
  Requests = {r1, live}
  Exempt = {}
  Probes = {live}
  Limit = 1
  Window = 2
  MaxTime = 3
  MaxLate = 4
  Never = Never
INVARIANT LivenessIsProcessOnly
CHECK_DEADLOCK FALSE
