SPECIFICATION ArrivalSpec
CONSTANTS
  Batteries = {b1, b2}
  Rtcs = {}
  NoRtc = NoRtc
  Paths = {path}
  Workers = {w1}
  Keys = {}
  MaxRevisions = 4
  MaxOperations = 5
  Installed = {"thor-mgba", "windows-vbam"}
  Switchable = FALSE
  NoFile = NoFile
  FirstBattery = b1
  MaxPlays = 1
  MaxFaults = 1
INVARIANTS
  WriteAheadJournal
PROPERTIES
  HeadArrives
  DeliveryIsShown
