SPECIFICATION Spec
CONSTANTS
  Paths = {"a", "b"}
  MaxChanges = 2
  MaxTimers = 2
  MaxFaults = 1
CHECK_DEADLOCK FALSE
INVARIANTS
  WatcherTypeOK
  ScheduledIsRead
PROPERTIES
  ClosedIsQuiet
  ChangesAreRecorded
