\* One fair caller and the asynchronous API compete with two tasks for one role.
SPECIFICATION FairDispatchSpec
CONSTANTS
  Task = {t1, t2}
  Role = {r1}
  RoleOf <- OneRole
  MaxRecords = 1
  Caller = {k1}
  Malformed <- None
  MaxPins = 1
CHECK_DEADLOCK FALSE
PROPERTIES
  RequestsSettle
