SPECIFICATION Spec
CONSTANTS
  Revisions = {r1, r2}
  Settings = {"propagation_enabled", "onboarding_complete"}
  Folders = {f1, f2}
  Keep = 2
  MaxFaults = 4
CHECK_DEADLOCK FALSE
INVARIANTS
  MigrationTypeOK
  MigrationIsBackedUp
  EveryRevisionHasItsPayload
PROPERTIES
  ChoicesSurviveStarts
  StartsServe
