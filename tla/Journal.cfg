SPECIFICATION Spec
CONSTANTS
  Batteries = {b1}
  Rtcs = {rtc1, rtc2}
  NoRtc = NoRtc
  Paths = {path}
  Workers = {w1}
  Keys = {k1}
  MaxRevisions = 3
  MaxOperations = 1
SYMMETRY Symmetry
INVARIANTS
  BaselineOnHeadLine
  RtcIsInherited
PROPERTIES
  IngestIsRecoverable
