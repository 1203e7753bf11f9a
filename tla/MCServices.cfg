\* One service at a time, each with the smallest values that reach its cases.
SPECIFICATION ServicesSpec
CONSTANTS
  \* A skill with four bundles, one of which may drift, and an extension with
  \* one that is not accepted.
  Skill = skill
  Extension = extension
  Kept = {s1, s2}
  Drifting = {s3}
  ExtensionRevision = {x1}
  Capability <- Capabilities
  Revision <- Revisions
  CapabilityOf <- Declared
  Sound <- SkillRevision
  MayDrift <- Drifting
  MaxRevisions = 2
  \* Three files, merges, prunings, renames and a file that does not parse.
  Title = {"tea", "urn"}
  Body = {"a", "b", "c"}
  Decision = {"a"}
  Budget = 5
  TruncateTokens = 3
  MergeMax = 5
  File = {1, 2, 3}
  Input <- Records
  Absent = Absent
  Junk = Junk
  NoFile = NoFile
  None = None
  Legacy <- OneJunk
  \* Two records, embedded one at a time, two writes or a write and a crash.
  MemFile = {1, 2}
  IdOf <- OwnIds
  Text = {"a", "b"}
  Found <- BothThere
  Window = 2
  MaxEmbeds = 1
  MaxRetained = 1
  MaxBackups = 2
  MaxTrouble = 2
  \* A plugin that is run and one that is not, three generations, two interrupts.
  Plugin = {p1, p2}
  Foreign = {p2}
  MaxGen = 3
  MaxInterrupts = 2
  \* Two publishing threads, two events, two subscriptions.
  Emitter = {e1, e2}
  EventKind = {"a"}
  MaxEvents = 2
  MaxSubs = 2
  MaxHistory = 1
  \* Two requests, one of which may be a shutdown, or one and a close.
  MaxOperations = 2
  MaxCalls = 1
  QueueLimit = 1
  MaxNoise = 1
  \* Two calls within the budget and one beyond it, and two changes below a handler.
  Plugins <- Entitled
  CallBudget = 2
  ByteBudget = 4
  HoldLimit = 1
  MaxRedirects = 1
  DecisionLimit = 1
  MaxChanges = 2
  \* Two threads and two launches, where an unreaped process fills its group.
  TermCaller = {c1, c2}
  MaxLaunches = 2
  Zombies = TRUE
  \* Three threads for two slots.
  User = {u1, u2, u3}
  MaxConcurrency = 2
  MaxAudit = 2
  \* Every graph of three nodes, run by one thread or two.
  Node = {1, 2, 3}
  RoleOfNode <- RolesOfNodes
  MaxParallelism = 2
  \* A tool the role has, with a handler of somebody else's, and one it has not;
  \* three calls, room for two results.
  Tool = {"lookup", "model_list"}
  RoleRights <- OneTool
  Deniers = {"lookup"}
  MaxCallsOfRun = 3
  ResultLimit = 2
  TotalLimit = 4
  InvocationLimit = 3
SYMMETRY Symmetry
CHECK_DEADLOCK FALSE
INVARIANTS
  IndexBacked
  RecordsKept
  IndexIsTrue
  WorkerOwned
  DeliveriesSound
  GenerationSound
  AnswersWarranted
  NothingLeaks
  InFlightKeepsFolder
  WorkflowSound
  ConversationSound
PROPERTIES
  SelectionVerified
  NoFalseAlarm
  ImplementsHistory
  BackupKept
  ImplementsGeneration
