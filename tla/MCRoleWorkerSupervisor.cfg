\* Two tasks of one role and one caller: reuse of a role, retention, pins.
SPECIFICATION Spec
CONSTANTS
  Task = {t1, t2}
  Role = {r1}
  RoleOf <- OneRole
  Client = {c1}
  MaxRecords = 1
SYMMETRY Symmetry
CONSTRAINT OneAtATime
CHECK_DEADLOCK FALSE
INVARIANTS
  ConfirmedDead
PROPERTIES
  RoleNotReused
  ImplementsTable
