SPECIFICATION Spec
CONSTANTS
  Sections = {0, 1}
  Modulus = 6
  Blank = Blank
CHECK_DEADLOCK FALSE
INVARIANTS
  HoldsNewest
  VerdictIsRight
