SPECIFICATION SwitchSpec
CONSTANTS
  Batteries = {b1, b2}
  Rtcs = {t1}
  NoRtc = NoRtc
  Paths = {p1}
  Workers = {w1}
  Keys = {}
  MaxRevisions = 3
  MaxOperations = 7
  Installed = {"thor-mgba", "windows-mgba"}
  Switchable = FALSE
  NoFile = NoFile
  MaxPlays = 1
  MaxFaults = 1
  FirstBattery = b1
  FirstRtc = t1
  MaxSwitches = 2
CHECK_DEADLOCK FALSE
PROPERTIES
  SwitchKeepsFile
  RtcIsKept
  HeadArrivesInFormat
