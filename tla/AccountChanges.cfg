SPECIFICATION Spec
CONSTANTS
  Processes = {p1, p2, p3, p4}
  People = {x, y}
  NoRow = NoRow
SYMMETRY MCSymmetry
INVARIANT TypeOK
INVARIANT OneAccountPerAddress
INVARIANT SignUpAnswersTruly
PROPERTY ChangesAreIndependent
CHECK_DEADLOCK FALSE
