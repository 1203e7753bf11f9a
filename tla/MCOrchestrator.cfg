\* One name registered in a thread and as a worker, two callers, one retry.
SPECIFICATION OrchSpec
CONSTANTS
  Agent = {a1, w1}
  Name = {n1}
  NameOf <- OneName
  Worker = {w1}
  Caller = {k1, k2}
  Retrying = {k1}
  Exec = {1, 2, 3}
  MaxRetries = 1
  MaxShutdowns = 1
INVARIANTS
  OneExecution
  EngagedIsKept
  WorkersStopped
  RecordedOnce
