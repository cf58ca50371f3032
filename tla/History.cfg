SPECIFICATION Spec
CONSTANTS
  Batteries = {b1, b2}
  Rtcs = {}
  NoRtc = NoRtc
  Paths = {path}
  Workers = {w1}
  Keys = {k1}
  MaxRevisions = 4
  MaxOperations = 0
SYMMETRY Symmetry
INVARIANTS
  TypeOK
  HeadIsCurrent
  LinearHistory
  BranchesAreDistinct
  ConflictsNameBranches
  StatusTellsConflict
  MutationsAreKeyed
PROPERTIES
  ImmutableRevisions
  HistorySpec
