SPECIFICATION Spec
CONSTANTS
  Users = {root, u1}
  Clients = {c1, c2}
  Tickets = {t1}
  Root = root
  Nobody = Nobody
SYMMETRY MCSymmetry
INVARIANT TypeOK
PROPERTY ServedWasEntitled
PROPERTY AssignedWasAgent
PROPERTY RefusalsHaveAReason
CHECK_DEADLOCK FALSE
