SPECIFICATION Spec
CONSTANTS
  Saves = {save1}
  Rejects = {reject}
  Empty = Empty
  NoFile = NoFile
  Workers = {w1, w2}
  MaxWrites = 2
  MaxMappings = 1
  MaxFaults = 1
CHECK_DEADLOCK FALSE
INVARIANTS
  InboxTypeOK
PROPERTIES
  QuarantineEndsWithIngest
  FileIsAccountedFor
