SPECIFICATION Spec
CONSTANTS
  Halves = {h1, h2}
  Writers = {w1, w2}
  Nobody = Nobody
  Size = 2
  Disk = 6
  Reserve = 1
  MaxEdits = 2
  MaxFaults = 2
SYMMETRY Symmetry
CHECK_DEADLOCK FALSE
INVARIANTS
  AcknowledgedIsDurable
