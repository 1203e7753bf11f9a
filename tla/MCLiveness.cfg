\* One service at a time: what each owes in the end.
SPECIFICATION LiveSpec
CONSTANTS
  \* Two records, embedded one at a time, a write and a crash.
  MemFile = {1, 2}
  IdOf <- OwnIds
  Text = {"a", "b"}
  Found <- OneRecord
  Window = 2
  MaxEmbeds = 1
  MaxRetained = 1
  MaxBackups = 1
  MaxTrouble = 2
  \* One request, which may be a shutdown, or a close.
  MaxOperations = 1
  MaxCalls = 1
  QueueLimit = 1
  MaxNoise = 1
  \* Two threads and two launches, where an unreaped process fills its group.
  TermCaller = {c1, c2}
  MaxLaunches = 2
  Zombies = TRUE
  \* One name registered in a thread and as a worker, one caller that retries.
  Agent = {a1, w1}
  Name = {n1}
  NameOf <- OneName
  Worker = {w1}
  Caller = {k1}
  Retrying = {k1}
  Exec = {1, 2}
  MaxRetries = 1
  MaxShutdowns = 1
CHECK_DEADLOCK FALSE
PROPERTIES
  CatchesUp
  GenerationSettles
  CloseReturns
  DispatchReturns
