\* Startup rejects the run state after a graceful shutdown.
SPECIFICATION LifespanSpec
CONSTANTS
  Task = {t1}
  Role = {r1}
  RoleOf <- OneRole
  MaxRecords = 1
  MaxPins = 0
  Boots = 2
  StartupMayFail = TRUE
  LoadMayFail = FALSE
  SaveMayFail = FALSE
CHECK_DEADLOCK FALSE
PROPERTIES
  SavedUntilRecovered
