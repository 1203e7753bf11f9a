\* One task, two callers, fair threads: every race of cancel, wait and shutdown.
SPECIFICATION FairSpec
CONSTANTS
  Task = {t1}
  Role = {r1}
  RoleOf <- OneRole
  Client = {c1, c2}
  MaxRecords = 1
CHECK_DEADLOCK FALSE
INVARIANTS
  AnnouncedOnce
  ShutdownStops
PROPERTIES
  VerdictHasCause
  EverythingEnds
