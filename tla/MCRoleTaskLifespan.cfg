\* Three tasks, three process starts, crashes at any point, failed startups and saves.
SPECIFICATION LifespanSpec
CONSTANTS
  Task = {t1, t2, t3}
  Role = {r1}
  RoleOf <- OneRole
  MaxRecords = 2
  MaxPins = 0
  Boots = 3
  StartupMayFail = TRUE
  LoadMayFail = TRUE
  SaveMayFail = TRUE
SYMMETRY Symmetry
CONSTRAINT FewAtOnce
CHECK_DEADLOCK FALSE
INVARIANTS
  RecoveredHonestly
PROPERTIES
  ClearedAfterRecovery
