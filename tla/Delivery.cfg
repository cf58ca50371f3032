SPECIFICATION BrokerSpec
CONSTANTS
  Batteries = {b1, b2}
  Rtcs = {}
  NoRtc = NoRtc
  Paths = {path}
  Workers = {w1}
  Keys = {k1}
  MaxRevisions = 3
  MaxOperations = 1
  Installed = {"thor-mgba", "windows-vbam"}
  Switchable = TRUE
  NoFile = NoFile
  MaxPlays = 2
  MaxFaults = 1
SYMMETRY Symmetry
INVARIANTS
  BrokerTypeOK
PROPERTIES
  StoreSpec
  OnlyStaleDeliveriesRollBack
  ArtifactsAreArchived
