\* Two callers compete with two tasks for one role; a third party may hold a pin.
SPECIFICATION DispatchSpec
CONSTANTS
  Task = {t1, t2}
  Role = {r1}
  RoleOf <- OneRole
  MaxRecords = 1
  Caller = {k1, k2}
  Malformed <- None
  MaxPins = 3
SYMMETRY Symmetry
CHECK_DEADLOCK FALSE
PROPERTIES
  LeaseProtects
  ImplementsLedger
