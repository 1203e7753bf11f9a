# Verification of J.A.R.V.I.S.

TLA+ models of the Python core under `src/src`, model-checked with TLC and, where
it matters most, proved with TLAPS. Paths below are relative to the repository
(`src/…` is the repository root, the Python packages are in `src/src/…`).

`PROJECT.json` lists the components, the runs with the properties they check, the
lines every definition models (`map`), the disagreements between code and
documents that the runs show (`findings`), the hazards the properties are aimed
at (`hazards`) and the theorems.

## The system

J.A.R.V.I.S. is a local multi-agent service: an HTTP adapter (FastAPI, and an older
`http.server`) in front of a core that runs *roles* and *agents* on a local model
server, keeps memory and run state on disk, and loads plugins and capabilities.

| Component | State | Operations | Interacts with |
|---|---|---|---|
| Role worker supervisor (`core/brain/role_worker.py`) | records, runtimes (child, pipe, deadline, intent), waiter pins, publications, shutdown flag | `submit`, `wait`, `cancel`, `get`, `list`, `recover_orphans`, `shutdown`; one monitor thread per task | children over pipes, observers, dispatch service, HTTP |
| Synchronous dispatch (`role_dispatch_service.py`) | lease per role, pending submissions | `dispatch_by_role` (and by capability, batch), terminal observer | supervisor |
| Role task persistence and lifespan (`role_task_record_repository.py`, `main_fastapi.py`) | `role-tasks.json`, shutdown progress | startup recovery, snapshot, shutdown | supervisor, disk |
| Orchestrator (`orchestrator.py`, `orchestrator_worker.py`) | registry, status and quarantine of agents, history | register ×3, unregister, recover, cancel, dispatch, retry, shutdown | handler threads, worker supervisors |
| Agent factory, role registry (`agent_factory.py`, `role_registry.py`) | role profiles | choose a role, dispatch, recover | orchestrator, model server |
| Role tools (`role_tool_loop.py`, `role_tools.py`) | transcript, call and byte budgets, the broker's log | ask the model, decide and run its calls, answer them | children of role workers, model server |
| Run state (`run_lifecycle.py`, `file_run_state_repository.py`) | state, resume document, events, active run | start, checkpoint, recover, archive | disk, git |
| Memory store (`context_compressor.py`) | a file per record, `MEMORY.md`, journal | store, delete, delete_probe, consolidate, recovery | disk, memory API |
| Memory index and endpoints (`sqlite_memory_index.py`, `memory_api.py`) | SQLite copy of the records with fingerprint and vectors, backup files | search (with migration, synchronisation, embedding), import, backup, restore, prune | memory store, another process that writes it, embedding provider |
| Workflow DAG (`workflow_dag.py`) | layers, results of nodes | validate, run layer by layer in a pool, skip, abort | dispatch service |
| Capability store (`file_capability_store.py`) | a directory per revision, index of histories and selections | install, upgrade, rollback, remove, rebuild, list | disk, capability API |
| Capability registry (`capability_registry.py`, `capability_resolver.py`) | cached snapshot | scan, resolve | disk, capability API |
| Plugin loader (`plugin_sdk.py`) | instances, generations, retained runtimes | load, enable, disable, unload, close | runtimes |
| Plugin runtime (`subprocess_plugin_runtime.py`, `runtime/plugin_worker.py`) | transport flags, queue, session, worker | start, invoke, close, reader, containment | loader, broker, event bus, child process |
| Plugin broker (`plugin_broker.py`) | rights, budgets and outbox of a session, audit | handle (seven capabilities), commit, abort | runtime, files, model server, network, event bus |
| Terminal executor (`terminal_executor.py`) | slots, directory, audit | execute, close | child processes |
| Terminal worker (`terminal_worker.py`, `process_containment.py`) | owned process trees, shared sandbox, directory | execute, close | child processes |
| Event bus (`event_bus.py`) | subscriptions, history | subscribe, unsubscribe, emit, record batch, destroy | plugins, HTTP |

What is hard about it is concurrency: every request runs in a thread of its own,
children are killed from several threads, observers and callbacks are called
outside of the locks, and state on disk is written in steps that a crash may
separate. The properties each component owes:

- supervisor: one verdict per task, with a cause, only when the child is confirmed
  dead; no child without an owner; bounded retention that never drops what is
  needed; every task ends and every call returns;
- dispatch: one synchronous task per role; no lease lost to a late observer or
  kept for ever; the answer is that of the task;
- lifespan: nothing is resumed, invented or lost over restarts and crashes;
- orchestrator: one handler per name however calls interleave; an agent with a
  task is not detached; shutdown is terminal; every dispatch is answered although
  handlers may hang, and is recorded once;
- run state: after a crash at any write, what is loaded is a state that was saved; the
  active version is whole;
- memory: the index agrees with the files, or the journal says where it may not; a
  consolidation loses nothing that its survivors absorbed, and within the budget the next one
  says the same;
- capability store: the index is always one that loads and destroys nothing it lists;
  what is selected was verified; an operation that was cut off is not in the way of
  its retry;
- memory index: its fingerprint never vouches for rows it does not describe, no vector
  ranks a text it was not made of, an intact backup is always kept, and the
  index catches up;
- plugins: a live worker always has an owner and is not replaced; the events of a request
  are published exactly if it succeeded; every fault is contained; what the
  broker answers was authorized, is whole and is paid for;
- terminal: no process without an owner, nothing survives `close`, which returns; a
  command keeps its directory;
- event bus: once means once, and nothing new comes after unsubscribe;
- workflow: a node runs after everything below it, and verdicts do not depend on order;
- role tools: the model is told what happened, in order, within its budgets.

## Modules

| Module | Models |
|---|---|
| `RoleTaskRecords` | `WorkerTaskRecord` and `_prune_records`, shared by the modules below |
| `RoleWorkerSupervisor` | the supervisor with all of its threads: monitors, clients in `wait` and `cancel`, `shutdown`, children and pipes |
| `RoleTaskTable` | what the supervisor promises its callers: the record table, one atomic action per change of a record |
| `WorkerLedger` | what a reader of one task may rely on: unknown, running, one verdict, forgotten |
| `RoleDispatchService` | leases over `RoleTaskTable`, with the asynchronous API as a second source of tasks |
| `RoleTaskLifespan` | startup, snapshot, shutdown, crash and restart over `RoleTaskTable` |
| `Orchestrator` | agents, dispatching threads, retries and shutdown |
| `RunStateRepository` | the files of run states: revisions, manifest, archives, the lock, and every write of `save` and `archive_active` |
| `RunLifecycle` | callers of the repository: start, checkpoint, context events, recovery at startup, stops and restarts |
| `RunStateRegister` | what the repository promises: one current run, replaced by its next revision or retired, atomically |
| `CapabilityStore` | the store of packages: every operation, write by write, on the index, the directories, their `revision.json` and tombstones |
| `CapabilityHistory` | what the store promises: a history of revisions for every capability, one selected, changed in one step |
| `SemanticCompressor` | what a consolidation keeps of a set of records: pruning, truncation, summaries, merges (operators, no state) |
| `MemoryStore` | the files of the memory store: entries, index and journal, and every write of a mutation |
| `MemoryApi` | the memory endpoints and the SQLite index: every transaction, file operation and record mutation of a request, with another process between them |
| `PluginLoader` | loads, unloads and their interrupts, over what a generation promises |
| `PluginGeneration` | what a worker generation promises: usable once, ended by its first failure, confirmed when gone |
| `SubprocessPluginRuntime` | a generation with its operator, reader and containment threads, its pipes, its broker session and its child |
| `PluginBroker` | one session: authorization, budgets, the handlers and what others change below them, the outbox |
| `TerminalExecutor`, `TerminalWorker` | threads that execute and close; slots, process trees, the shared sandbox and the directory |
| `EventBus` | publishers, subscribers and callbacks outside of the lock |
| `WorkflowDag` | every graph of a few nodes, its layers, its pool and its failure policies |
| `RoleToolLoop` | the conversation in a role's child: model, broker, tools, budgets, log |
| `RoleWorkerSupervisorProofs`, `RoleTaskProofs` (table, dispatch, lifespan), `OrchestratorProofs`, `RunLifecycleProofs`, `CapabilityStoreProofs`, `MemoryProofs` (store, endpoints), `PluginRuntimeProofs` (worker generation), `ServiceProofs` (loader, broker, terminal, event bus, workflow, role tools) | theorems |
| `MCRoleWorkerSupervisor`, `MCRoleDispatchService`, `MCRoleTaskLifespan`, `MCOrchestrator`, `MCRunLifecycle`, `MCMemoryStore` | instances for TLC |
| `MCServices`, `MCLiveness` | instances of the components that share no state: the first state picks one of them, so that their states add up and do not multiply |

The abstraction goes down in steps: `RoleWorkerSupervisor` implements
`RoleTaskTable` (property `ImplementsTable`), which implements `WorkerLedger`
(`ImplementsLedger`). Dispatch and lifespan are built on the table,
so they see any behaviour the supervisor can show and none of its threads.
`RunLifecycle` is built on `RunStateRepository` and implements `RunStateRegister`;
`CapabilityStore` implements `CapabilityHistory`. `PluginLoader` uses what
`PluginGeneration` promises of a worker, which `SubprocessPluginRuntime` implements with all
of its threads (`ImplementsGeneration`). Each of these refinements is also a theorem.

**RoleWorkerSupervisor.** A step is what one thread does between two releases of
`_condition`, or one call made outside of it (killing, polling the pipe, calling
observers). `record` is `_records`; `runtime`, `intent`, `doubt` and the pipe are
the fields of `_TaskRuntime`; `waiters` and `publications` are `_waiters` and
`_terminal_publications`. Monitor, client and shutdown threads have a control
state each, named after the place in the method they have reached. The child is
`up`, `dead` but not noticed, or gone; a kill may be confirmed or not
(`KillConfirmed`, `KillUnconfirmed`). Time is a flag per task that the deadline has
passed. Event payloads are reduced to the kind of the event; a heartbeat that stays
away, an oversized or malformed event are the protocol violation event.

**RoleTaskTable.** `Admit`, `Doom` (deadline or cancel), `Suspect` (a kill was not
confirmed), `ChildGone`, `Conclude`, `Announced`, `Release`, `Pin`, `Unpin`, `Prune`
and `Close`: each the visible effect of one critical section of the supervisor.

**RoleDispatchService.** A caller goes through `_reserve`, `submit`, the settling of
its submission, and `wait`; `ObserveTerminal` is the observer the supervisor calls
outside of its lock, any time between the verdict and `Announce`. `AsyncSubmit`,
`OtherPin` and `CloseSupervisor` are the other users of the supervisor.

**RoleTaskLifespan.** `phase` follows `lifespan` and `AppState.shutdown`; `file` is
`role-tasks.json`, a set of entries with their places, and `orphaned` what `load` returned
and `recover_orphans` has not looked at yet. `load` never raises: it returns nothing of a file
it cannot read or that is too large, and leaves out entries it cannot parse (`Loadable`, where
`LoadMayFail`). `clear` swallows an `OSError` (`StartupClearFails`). `Crash` is possible in every
phase, including in the middle of `recover_orphans`, between it and `clear` and between the
snapshot and the stop. History variables: `verdict`, `unread` (tasks of the file that the last
`load` left out) and `kept` (those a failed `clear` left behind). `StartupFails` stands for any
exception of the startup block, `PersistFails` for a failed write of the snapshot; both failures
of writing are allowed by `SaveMayFail`.

**Orchestrator.** An `Agent` is one `_RegisteredAgent`; `registry` maps a name to it.
A step is one critical section of `_agents_lock`, of an agent's `_lock` or of
`_history_lock`; where the code nests them the step is the outer one. `exec` are
handlers: daemon threads, or children of an agent's `DeclaredAgentWorker`. `Reaped`
is `_reap_finished_execution_locked`, applied wherever the code applies it. A caller
goes through `dispatch`, the start of its handler, the join with its deadline, the
settling of its agent, `_record`, and for `dispatch_with_retry` the decision and the
reset. `Killed` is the cancel and shutdown of a worker, confirmed or not; the
supervisor underneath is the one modelled above and is not modelled again.

**RunStateRepository, RunLifecycle.** A manifest holds the digests of six files and a
signature, so it is modelled as the snapshot it stands for; `Loads` says that this
snapshot is on disk. `published` are revision directories, `torn` those that pruning
left without some of their files, `staged` the staging directories a cut-off save left
behind. `lock` is the operation inside `_exclusive_write`, and its `pc` the write that
comes next: the rename of the staging directory (the six files before it are seen by
nobody), the manifest, the pruning, the archive, the unlink. Each write may raise,
before or after it took effect, and the process may stop between any two (`Stop`).
`load_active` is one step when the lock is free, so the coordinator's load and save are
apart and other callers come in between. A `tag` stands for everything that makes a
request different from another: its time, its texts and its event; the log of a
snapshot is its events. `body` is what the coordinator decides by: the context level
and whether the run is RUNNING, kept as the request that made it so. A caller may
repeat a request that failed (`Retry`): the repository is written for that
(`_is_idempotent_retry`) although nothing in `src/` does it yet.

**CapabilityStore.** The store keeps nothing in memory between operations and its lock
lets one in at a time, so `op` is the operation in the lock with what it has decided to
write, and its `pc` the write that comes next: the rename of the staging directory
(`Rename`), the rename to a tombstone (`Hide`), the index, `revision.json`, the renaming
back (`Restore`) and the deletion (`RemoveTree`). What an operation checks before its
first write is one step with its start. Each write may raise before it took effect, and
the process may stop between any two (`Crash`). `files` is `bundle.zip` with the package
files, `state` is `revision.json`; either may change between operations (`Drift`), and
`Loads`, `Agrees` and `Verified` say which of the store's checks still pass then. A
capability that is not installed has the empty history, as `remove` deletes its entry.

**SemanticCompressor, MemoryStore.** A content is a sequence of pieces: bodies, which
stand for sentences, and the texts the compressor inserts. A piece counts one token
(`_estimate_tokens` is a heuristic on characters) and one unit of length, so truncation
keeps the largest head and tail by counting, as the bisection does, and a body is "in" a
content when its pieces are, in a row. Importance is in thousandths, age is the flag
`fresh`, the title is its base and its marker. A record never changes its file, so
`file` stands for type and id. The loops of the compressor are folds, one operator for the
body of each: `Split`, `Choose` and `Join` of a summary, `Fit` of the pass over the sorted
records, `Merge` of the duplicates; `Ordered` sorts a set by counting what comes before
each element. In `MemoryStore`, `entry` are the files, `listing` the rows
of `MEMORY.md`, `journal` the file that `.memory-journal` names. A writable call holds
both locks from `Enter` to `Return`: it recovers first (`Reconcile`, `Recovered`),
decides (`Plan`), and publishes one step of its `job` after another, `WriteJournal`,
`WriteEntry`, `WriteListing`, `ClearJournal`. Any write may raise, before or after it took
effect, and the process may die (`CutOff`); if it is the index that fails, the entry is
put back (`RestoreEntry`), which may fail too. `before` and `target` hold what the method
has in local variables; `target` is kept after a consolidation, as a history variable.
The index is a set of rows: the code may leave two rows for one file when a record is
stored under the title of another (both say the same), and a row is taken over by a
record of the same title, as the code does, so that of two records of one title one has
no row until a consolidation has merged them.

**MemoryApi.** `req` is the request that is served, with what it has read so far. A search
goes through the migration of an old database (`DropTables`, `ResetMeta`, `WriteVersion`:
separate transactions), the synchronisation (`ReconcileIndex`, skipped when the fingerprint is
that of the snapshot), the read of the rows, and for a semantic one the batch of missing
vectors, computed outside of any transaction (`TakeBatch`, then `StoreVectors` or
`EmbedFails`). A backup is written, read back, and only then are surplus ones deleted; a
restore and an import store record by record and skip ids they have seen. `StoreRecord` and
`DeleteRecord` are this or another process at any time. A text stands for a record's
content and its hash; ranking is left out. Assumed are a clock that does not go back, for the
names of backups, and one service per database.

**PluginLoader.** `table` is `_plugins`, `method` the public method in `_lifecycle_lock` and how
far it is. A worker has the four fields of `PluginGeneration`; each call of its runtime
yields any outcome the promise allows (`Terminated`, `Invoked`, `ShutDown`). `KeyboardInterrupt`
and `SystemExit` may come out of any call (`Interrupted`), as the code is written for.

**SubprocessPluginRuntime.** `operator`, `reader` and `guard` are the threads, `killer` is
who holds `_termination_lock`. A step is one critical section of the fault lock, of the
session or of the queue, or one line through a pipe. `flags` are the transport's fields. The
child may do what its protocol allows and, at any time, exit, print garbage or an
overlong line, or leave a process in its group (`brood`). The deadline is a flag that is set
once the clock passed it (`DeadlinePasses`).

**PluginBroker.** `rights` is what `_authorize` would say of each capability, with the reason
it is refused; `handling` is the call and how far its handler is. A handler's calls of the
system are steps of their own (`Resolve`, `OpenEntry`, `Take`, `Verify`, `LookAtPath`,
`OpenFolder`, `ScanFolder`, `FindConfig`, `ReadConfig`, `Hop`, `ReadBody`), and `FolderChanges`
comes between them. Sizes are in units of a small message.

**TerminalExecutor, TerminalWorker.** In the executor `command` is how far each thread is; the
directory is looked at twice without the lock and once with it, as in the code. In
the worker `tree` is the process tree of each request, `owned` the containments `close` knows
of, `box` the platform sandbox all requests share. A signalled tree may outlive its
signal, and with `Zombies` an unreaped process keeps its group from being empty, as on POSIX.

**EventBus.** A publication is four kinds of steps: the event is made, recorded, its
subscribers are collected (and the single-use ones claimed), and each is called. The lists
of subscriptions are sets: they are in the order in which ids were given out (`Sooner`).
`retired` is a history variable: which events there were when a subscription went.

**WorkflowDag.** `Build` starts the computation of the layers, of which `TakeLayer` is one round
of the loop (`wait` is its count of dependencies) and `EndLayering` what follows; a layer's nodes are queued,
called by at most `parallelism` threads, and answered or raise. Nodes of one role exclude one
another as dispatch does; a busy role answers, it does not raise.

**RoleToolLoop.** A call is known by its tool, round and place. `Decide`, the handler and
`Charge` are steps; `invocations` is the broker's bounded log, in which the loop looks up
what it shows the model (`ToolAnswer`); `Told` is which messages of the conversation are such answers. `deed` is what the handler really did.
A handler may return, raise, or raise the broker's own `RoleToolDeniedError`, which `invoke`
passes on without a record. `Deniers` are the tools whose handler may do the last; the five of
`read_only_role_tools.py` do not, a handler that an embedder registers may.

Some modules hold operators marked *Mutant of X*: deliberate wrong versions of a
definition (a dropped guard, a swapped order). No specification uses them; each
shows that a property would notice the mistake.

## Runs

| Run | Instance | Question |
|---|---|---|
| `worker_reuse` | 2 tasks of one role, 1 client, history 1 | role reuse, retention and pinning under all thread interleavings; implements the table |
| `worker_races` | 1 task, 2 clients, fair | who may decide and announce a verdict, and that everything ends |
| `dispatch` | 2 tasks, 2 callers, history 1, plus the asynchronous API | leases, pruning, observers; the table implements the ledger |
| `dispatch_live` | 2 tasks, 1 caller, fair | leases are given back, requests answered |
| `lifespan` | 3 tasks, history 2, 3 process starts, crashes, startups and saves that fail, snapshots that cannot be read or in part only, a `clear` that fails | what survives restarts |
| `orchestrator` | 1 name, an in-process and a worker agent, 2 callers of which one retries once, 1 shutdown | exclusion, quarantine, shutdown, records |
| `run_state` | 2 callers, 2 runs, 4 requests, crashes and failing writes | do the files implement an atomic register, and is every save applied once |
| `services` | one of eleven components, each with an instance of its own | the table below |
| `services_live` | one of four components, fair: two records embedded one by one, a plugin generation with one operation, two terminal threads, the orchestrator with one caller that retries | does the index catch up, is every fault contained and every call answered, does `close` return, is every dispatch answered |
| `run_state_recovery`, `lifespan_startup`, `memory_budget` | smallest instance that shows it | the findings below |

| Component in `services` | Instance | Properties |
|---|---|---|
| capability store | 3 revisions of one capability, one of which may drift, a history of 2; a second capability whose bundle is rejected; crashes and failing writes | `IndexBacked`, `SelectionVerified`, `NoFalseAlarm`, `ImplementsHistory` |
| memory store | 3 files, one of them unreadable at first, 5 records that may be stored (two titles, merges, a rename, a stale one, a probe), budget for 5 pieces; failing writes, failing rollbacks, crashes | `RecordsKept` |
| memory endpoints | 2 records, batches of one, 2 writes or a write and a crash, 2 backups of which one is kept, an old or no database | `IndexIsTrue`, `BackupKept` |
| plugin loader | 2 plugins, one of a runtime that is not run, 3 generations, 2 interrupts | `WorkerOwned` |
| plugin generation | 2 operations: requests, one of which may be the shutdown, or one and a close; 1 broker call, a queue of 1, 1 line of noise | `GenerationSound`, `ImplementsGeneration` |
| plugin broker | an entitled plugin and one that lacks permission, grant, handler or root; 2 calls and one too many, 4 units, files of 0 to 2 units, 1 redirect, 2 changes | `AnswersWarranted` |
| event bus | 2 publishers, 2 subscriptions, 2 events | `DeliveriesSound` |
| terminal worker | 2 threads, 2 launches, a sandbox that may break | `NothingLeaks` |
| terminal executor | 3 threads, 2 slots | `InFlightKeepsFolder` |
| workflow | every graph of 3 nodes, 2 roles, 1 or 2 threads, both policies | `WorkflowSound` |
| role tools | 2 tools of which the role has one, with a handler that may raise a denial of its own, 3 calls, rooms for 2 units per result and 4 in all | `ConversationSound` |

Not every hazard is in reach of its run alone: `worker_reuse` has one client, so two pins
on one record occur in the theorem only (`SupervisorIsTable`); `AppliedOnce` and
`ImplementsRegister` look at the logs and revisions of a run and not at the bodies, in which an
update can be lost (see the observations).

**Why the bounds are enough.** The supervisor's tasks interact only through a role, the
history bound and the threads that hold several of them; two tasks, a history of one and
one role make each of these scarce, and two clients and a shutdown thread are one more
than any two-party race needs. A third task would only repeat "another record pushes
this one out".
`worker_reuse` is bounded by `OneAtATime`: at any time one task at most is past its
deadline, one has an event in its pipe and one child outlives its kill, and no child
reports a failure, which ends a task as a success does; `worker_races` has no such bound. Clients are not bounded in the number of calls. In the dispatch runs
the second task is either synchronous or asynchronous, which gives every order of two
tasks on one role. Three process starts allow a crash in recovery of what a crash left
behind; `FewAtOnce` lets two tasks run at once in the first process and one in a later
one, which is enough for the history of two to drop one of three. In `orchestrator` the two agents can replace one another in either order,
callers are not bounded in the number of dispatches, and handlers are recycled, so
behaviours are unbounded although the state space is finite; three handlers are one more
than agents. In `run_state` four requests allow a save to be cut off, recovered, cut off
again and followed by another, two runs make one replace the other, and `SmallDisk`
bounds the directories that are on disk at once (two revisions, one torn, one
staging): what decides is whether a directory is that of the revision at hand, another
one of its run, or of the other run. Requests do not recur, so behaviours are bounded by
the number of tags. In `services`, two revisions fill the history of the
capability store (`MaxRevisions`, 64 in the code) and a third exceeds it; operations are not bounded in
number, and removed revisions can be installed again. Capabilities do not interact but
for the lock and the index file; the second one is there for the operations on what is
not installed. The memory store has three files: the two records of a merge and one
more, so that a merge can be refused because it grows too long (`MergeMax`) and be followed
by another; contents do not grow without bound since what is said already is not
appended and a full budget truncates, summarizes or drops. Calls are not bounded in
number. Records do not age while the system runs. The other components of `services` have one
instance of what they compete for less than actors that want it: a queue of one for two
senders, two slots for three threads, one sandbox for two launches, a byte budget two
calls exhaust, one backup to keep of two. Three nodes are enough for a diamond's halves, a
chain with a shortcut, a cycle and a node beside them. Two records are enough for a vector
of the one to be taken for the other and for a batch that leaves a rest. Named bounds of
behaviours: `MaxTrouble` (writes and crashes below the endpoints), `MaxBackups`, `MaxGen`, `MaxInterrupts` (loader),
`MaxOperations`, `MaxCalls`, `MaxNoise` (generation), `MaxChanges` (broker),
`MaxLaunches` (terminal), `MaxEvents`, `MaxSubs` (bus), `MaxCallsOfRun` (tools), `SmallDisk`, `MaxLevel`
(context levels), `MaxPins` (concurrent waiters of one task), `Boots`, `MaxRetries`,
`MaxShutdowns`, `OneAtATime`, `FewAtOnce`. Symmetry (of tasks and callers) is used only in runs
without liveness.

`CHECK_DEADLOCK FALSE` is set where the system may stop for good: the supervisor
after shutdown, dispatch when all tasks are used, lifespan after the last start, and the
components of `services` and `services_live` after their last request. The other runs are checked for deadlock.

**Fairness.** Weak fairness of a thread's next step, for threads that the code starts
and that never block on something outside of the model: monitors, the callers inside a
call, the shutdown thread, observers. Children have none in the supervisor beyond the
deadline passing and a repeated kill eventually being confirmed (the monitor loop
retries it for as long as the process lives). In `RoleDispatchService` the supervisor's
own liveness (`EverythingEnds`) appears as fairness of the table's actions. In
`Orchestrator` (checked in `services_live`) callers and shutdown go on, and nothing is assumed
of handlers: dispatch is answered even if a handler never ends. In `services_live` the service goes on with a request it has begun, semantic
searches keep coming and the provider answers infinitely often if it is asked
infinitely often (strong fairness of `Search("semantic")` and `StoreVectors`: that the index
catches up is a promise about repeated searches); the threads of a plugin's parent are scheduled
and its clock goes on, the entry to the termination lock is strongly fair as other threads
give it back again and again; the threads of the terminal worker are scheduled, its waits have
deadlines. Nothing is assumed of a plugin or a command. No other call that a client may or
may not make is fair.

## Findings

Three runs end in a violation, each of one statement of a document:

- `run_state_recovery`: a save that is cut off between its revision directory and the
  manifest makes every later startup fail, as recovery saves the same revision number
  with other contents and `_publish_revision` rejects the directory it finds;
- `lifespan_startup`: a rejected startup overwrites the unread snapshot;
- `memory_budget`: a record of middling importance that does not fit the token budget is
  summarized by every consolidation, each time with one more "[summary]" and nine tenths
  of its importance, until it is pruned and its file deleted.

What holds of the promise that repeated consolidation reaches a fixed point is `Converges`
(in `RecordsKept`): while the records fit the budget, the next consolidation says the same
sentences under the same titles. The records themselves may still differ, within the budget
too, as the proof of it brought out:

- four records of one title and importance say x, y, x and z, and the last is read most
  often, so they are folded into "z, x, y" in its file. A crash after the first of the others
  is deleted leaves "z, x, y", y and x; the next consolidation folds y and x into
  "y, x" first, which "z, x, y" does not contain as it stands, and ends with "z, x, y, y, x".
  The comment at `context_compressor.py:2414` says that "re-running consolidate converges";
- x and y are too long together and "x y" contains both and is read more often. It
  absorbs x at the first consolidation and y only at the second, as a record is compared with
  the first survivor of its title alone.

`PROJECT.json` quotes the statements. More observations are in the models and are not
checked by a run of their own:

- `load` returns an empty list for a snapshot it cannot read and skips entries it cannot parse
  (`role_task_record_repository.py:60-69`; so says
  `docs/superpowers/specs/2026-08-18-bounded-role-task-persistence-design.md:36`): `clear` or the save at shutdown then
  removes records that were never in memory. `ClearedAfterRecovery` excepts exactly these
  (`unread`), and a rejected startup, which is the finding above;
- an update of a run's state can be lost: `handle_context_event` builds its state from one load
  and hands it to `checkpoint`, which gives a state that is behind the next revision and saves it
  (`run_lifecycle.py:79-80`; `Reload`). A second event that was saved in between is in the log, but
  what it set is gone, and the context level of a run falls again;
- a `clear` that fails is swallowed, so the service runs beside a snapshot it has already
  recovered (`role_task_record_repository.py:72-78`); the next start recovers it once more
  if no shutdown saves in between. `RecoveredHonestly` holds of that too;
- a `RoleToolDeniedError` that a handler raises itself is passed on unrecorded
  (`role_tools.py:198-199`), and the loop then tells the model of a success with no value
  (`role_tool_loop.py:139-145`), which the log does not have. No handler of the repository raises
  it; `ConversationSound` excepts tools of `Deniers` from its claim about the log, and with none
  there is no exception (`OwnHandlersAreLogged`);
- recovered records stay in `_terminal_publications` for ever, so they are never pruned
  (`role_worker.py:498`);
- a revision that was published by an operation that was cut off is selected by the
  retry although its files have changed since: `_publish_revision` compares
  `revision.json` only, where rollback and remove hash the files first
  (`file_capability_store.py:970`);
- tasks that end while the service shuts down are saved as running and come back as
  crashed (`main_fastapi.py:579`, records are saved before the supervisor stops);
- with a small history, a success that is pruned before its request waits for it is
  answered as an invalid result (`role_dispatch_service.py:117`);
- a removal that stops between its rename and the index leaves a listed revision that no
  operation of the store brings back, though its tombstone is complete
  (`file_capability_store.py:573`); `_write_index` writes an index of any size, `_load_index`
  refuses one of more than 4 MiB (`file_capability_store.py:956`);
- `archive_active` writes the archive and then unlinks `active-run.json`: stopped between the
  two, saves are refused until it is repeated (`file_run_state_repository.py:262`);
- `recover_orphans` marks a record as confirmed terminated although a child of a crashed
  parent may still run (`role_worker.py:493`);
- a workflow's node fails only if its dispatch raises: a role that was busy, and a task that
  failed, timed out or was cancelled, are answers, so that what depends on the node runs
  (`main_fastapi.py:1804-1814`); two nodes of one layer with the same role are a case of it;
- a plugin whose worker was never spawned is kept as one whose end is not confirmed, for ever
  (`plugin_sdk.py:677`);
- the terminal's shared sandbox may be closed by a failed launch while another request's tree
  runs in it (`terminal_worker.py:670`), a process that stays a zombie makes every `close`
  fail (it returns, without success), and `TerminalExecutor` raises `TypeError` when a close
  clears the directory between its two unlocked looks (`LookAgain`);
- a memory record's id is derived from title and first characters, not from its type
  (`context_compressor.py:295`): two records may have one id, on which searches are refused
  and an import keeps one of them;
- an import decides what it already has by the first `MEMORY_API_MAX_FILES` files only;
- an empty text makes a batch of embeddings fail each time, so the index does not catch up
  past it (`CatchesUp` is about texts a provider embeds);
- `memory_search` of a role takes its first matches in the order of titles before it ranks them.

## Proofs

For every set of tasks, roles, clients, agents and callers, of any size:

- `RoleWorkerSupervisorProofs`: `TypeCorrect`, `DeadBeforeVerdict`, `NoOrphan`,
  `VerdictsSeen`, `VerdictsFinal`, `NoRoleReuse` rest on one inductive
  invariant (`Safety`). `ConfirmedDead` alone is not inductive: that a record turns
  terminal only over a dead child follows from what the thread that concludes has
  seen (`ThreadsSound`), and that a running record keeps its runtime from the
  monitor having started and not being past its decision (`RunningHasRuntime`).
  `ObserversCalledOnce` and `ShutdownComplete` need a second one (`Protocol`): the
  thread that published a verdict is the only one to announce it, whether monitor or
  canceller (`TaskAgreed`, `ClientAgreed`); a stop has every child still to kill in
  its list, in its hands, or doubted; a task is pinned by as many callers as hold it
  (`PinsCounted`: the callers are finitely many, as threads of a process are).
  `VerdictsCaused` follows from it and one step: what the thread has read is still so
  when it gives the verdict; for a crash also that the pipe of the dead child was found empty
  and nobody fills it again (`PipesDrained`). `SupervisorIsTable` is the step simulation of the table:
  each step of a thread changes what the table shows of one task (`View`) by one of
  its actions, or not at all. Types are enough for most of them, and `SafetyInv` with
  `PinsCounted` for the verdicts and the pins.
- `RoleTaskProofs`: `TableImplementsLedger`, step simulation of the table by the
  ledger, task by task, from an invariant on publications and children.
  `LeasesProtect` is about any table step in between: an observer may come late, so the
  lease a request finds may be stale; `DispatchInv` says that a task works for one
  request, that a request that submits holds the lease of its role with a child not yet
  started, and that a task that is announced is over. `RestartsHonest` and `SavedUntilInMemory` rest
  on `LifespanInv`: entries of the file are in the order in which recovery reads them and
  fit the table, so that recovery prunes no record it has just brought back, and what the table and the
  file say of a task is the verdict it had or that it crashed. `SavedUntilInMemory` is about the
  entries that startup still owes to memory (`Owed`): those of the file that `load` did not leave
  out and no failed `clear` left behind; the invariant says of them that each is orphaned still or
  in the table (`DoneWith`, `ClearedStep`). That a set of
  numbers has a least one (`NatMin`) is taken from the library's well-founded induction:
  its theorem on minimal elements has no operator as a parameter.
- `OrchestratorProofs`: `OrchTypeCorrect`, `Exclusion`, `NobodyDetached`,
  `ShutdownFinal`, from the invariant `OrchIInv`. `OneExecution` says nothing of who
  waits for a handler, so it is not inductive; the invariant adds that (`RunsHeld`) a
  handler that is up is awaited by exactly one caller or quarantines its agent,
  (`HeldSound`, `UniqueHolder`) an agent in the hands of a caller is busy or shut
  down, not quarantined, and in nobody else's hands, (`SettleSound`) a caller that
  settles knows whether its handler may be up, (`PendingSound`) a quarantined agent
  is not recoverable, (`Kept`, `OneEngaged`) before shutdown an agent with a task is
  the one its name leads to, and at all times it is the only one of that name.
  `Kept` needs `ShutSound`: only shutdown makes a busy agent removable. Most steps
  are `Still`: they only reap, recover or reset agents without a handler, and one
  lemma (`QuietKeeps`) covers them; each step that moves a handler or an
  assignment has a lemma of its own. `AttemptsRecordedOnce` counts records place by
  place (`RecordsSound`). `WorkersAreStopped` adds that the child of a closed worker was killed
  (`ClosedKilled`) and that during shutdown a worker with a task is closed or still
  on the list (`Draining`).

- `RunLifecycleProofs`: `RunStateTypeCorrect`, `ManifestsLoad` (what the active and the
  archived manifests name is on disk, whole), `RepositoryIsRegister` (step simulation of
  the register). `ActiveIntact` and the type invariant are not inductive: pruning is
  harmless only because the operation that prunes keeps the active revision, and the
  archive is a copy of the active manifest only because nobody changes it in between.
  `IInv` adds `OperationSound`, what the operation in the lock knows at each of its
  writes (its snapshot is not yet active, is on disk, is the active one; the manifest
  is still the one it has read), and `PendingIsActive`, that an archive of the active
  run is one of its active revision. `SavesAppliedOnce` and `RunningWasSet` need to know
  of the requests as well (`RequestsSound`): each is the work of one caller
  (`RequestsDistinct`), a request that is not applied yet is in no log and one that was can
  only be repeated (`PendingSound`, `LockServes`), a request that was saved is kept by
  every later revision (`SavedKept`), and until the service serves nobody but recovery
  asks (`RunsSound`).

- `CapabilityStoreProofs`: `IndexLoads`, `NothingLost`, `MovesVerified`,
  `IndexIsHistory`. `IInv` adds to the type invariant and `IndexBacked` what the operation
  in the lock has planned (`PlansNew`, `PlansMove`, `PlansRemoval`): that its entry was
  made from the index as it still is, and that what it selects was verified and is not
  the directory it has renamed. Lemmas about entries (`AddedOK`, `DroppedOK`, `MovedOK`)
  carry the argument: the plan's entry is one that loads and lists nothing but what was
  listed and the new revision. One lemma (`IndexStep`) says that only `WriteIndex` changes
  the index, from which the action property and the step simulation follow. `AlarmsAreTrue`
  needs to know besides that a directory and its revision.json are there together or not at
  all, also when a removal read what it may have to restore (`Paired`).

- `MemoryProofs`: `MemoryTypeCorrect`, `IndexAgrees` (`RowsAgree` and
  `PublishedHasRow`), for any number of files and whatever `Compress` computes: a
  record is validated before it is stored. `RowsAgree` leaves out the row of the journalled file, so
  clearing the journal is what could break it; the invariant `MInv` adds `Underway`, what
  the writer relies on between its writes: the entry file holds what the step stores, its
  rows agree once the index is written, and outside of a publication no journal is left
  but the one recovery reads.

  `RecordsAreKept` is the whole promise, for any files, records, budget and merge limit. It
  has two parts. The first is what the compressor does (`CompressSound`,
  `CompressSaysTheSame`): the survivors have different files, each that of a loaded record;
  they say, title by title, nothing that no record said, and all of it as long as the
  records fit the budget. That is shown loop by loop, with an invariant for each (`FitInv`
  and `Whole` for the pass over the sorted records, `MergeInv` for the merge): `MergeInv`
  follows every sentence to a record that said it, of the file it is in or of one that no
  merged record has, which is what the store needs. A sorted list has each record once
  because the numbers of records before each are different and fill up (`Ranks`).
  The second part is `KeptInv`, which says what is on disk at each write of a consolidation
  and stays true when it is cut off there and other calls follow: every sentence
  that is to be left is in the file of its survivor or in one that no survivor is to replace
  (`Sourced`), nothing else is said but by outdated records (`Covered`), and both would be
  so after a rollback (`Old`); the job still has every store before every deletion (`Planned`),
  and what it has no longer is done, with a row for the title (`Done`). `BodiesKept` alone
  is not inductive: it does not say that the sentence still to be stored is in a file that
  stays until then. `Converges` is `Sourced` and `Covered`, with `CompressSaysTheSame` for
  what is on disk. That the records are finitely many (`FewFiles`) holds because calls
  store them one at a time.

  For the endpoints, `TrueIndex` from `IndexInv`: at each of its
  separate transactions a search knows the version it has found or made (`UpgradeInOrder`),
  so a fingerprint is only ever written with the rows it describes, and `WholeBackupKept`
  from `BackupInv`: what retention deletes is older than a backup that was read back whole.

- `PluginRuntimeProofs`: `GenerationIsSound`, for any number of requests and events, and the
  refinement `RuntimeIsGeneration`. Three invariants: `RuntimeInv` (who takes a worker down
  has said why, a generation that serves is watched by its reader, an operation that fails
  knows the reason), `EventsInv` (what a session has staged is what its request was granted)
  and `ShutdownInv`, on which `ShutdownNotCrash` rests: the worker knows of no request that
  was not written (`Numbered`, `Understood`) and answers each at most once (`AnsweredOnce`),
  nobody has seen the end of its output while it lives (`EndSeen`), one that was told to shut
  down is expected to end (`Expected`), and its agreement is on its way to the operation
  that waits for it, before the end of the pipe (`AgreementComes`). For the refinement,
  a lemma for each helper (`FatalDoes` and its like) says what it changes of what the loader
  sees, and every step of a thread is one action of a generation or none.

- `ServiceProofs`, seven modules that have no state in common:
  - `WorkersAreOwned` of the loader, for any number of plugins, generations and
    interrupts. `LoaderInv` adds what the method in the lock knows (`MethodSound`: a load has no
    instance yet and its worker is not up before it starts; an unload is of the instance's own
    worker), that a confirmed worker is gone (`WorkerOK`), that a plugin has at most one
    instance, and that close has only plugins before it that are there.
  - `WarrantedAnswers` of the broker, for any rights, budgets, calls and changes of the files:
    `BrokerInv` adds what the handler of the call has checked so far (`FileLookedAt`), that the
    call is the session's and not answered (`Underway`), and that what was answered and what is
    handled were charged (`Charged`).
  - `NoWorkerLeaks` and `CommandKeepsFolder` of the terminal, for any number of threads,
    launches and slots. `NothingLeaks` says nothing of a request in the middle of a launch;
    `TermInv` adds what each knows of its tree at each of its places (`RequestSound`), that no
    two requests share one, and that closing began before anything was shut. One lemma
    (`OwnStep`) covers all steps of a request, as each touches its own tree only.
  - `BusDelivers` of the event bus, for any threads, types and limits. `BusInv` adds that an
    id is one subscription's (`Identified`), that an event is published by one thread and
    whoever it still has to call has not heard of it (`Announced`), and that who asked for a
    single event is not on the bus once somebody is to call it (`OnceOnly`).
  - `WorkflowIsSound`, for any graph, policy and number of threads. `FlowInv` says that a
    node is in one layer and what it depends on in those before it (`Layered`), what the loop
    counts while it makes the layers (`Waiting`), and what became of each node, of a layer that is
    over, in its turn, or to come (`Progress`). That `Depth` is the place of the layer takes a
    chain of ancestors through all the layers before it (`Longest`), and a pigeonhole argument
    for there being no longer one. What a failure skips or aborts is a least closed set
    (`Ancestors`), so no induction over the graph is needed.
  - `ConversationIsSound` of the role tools, for any tools, limits and model. `ChatInv` adds
    which calls of the last reply were answered (`Rounds`), that an answer follows from what the
    handler did and had the right to (`Honest`), how many calls are still allowed (`Within`),
    and that the log tells of every answer for as long as it has dropped nothing (`LogKept`),
    but of those to a handler's own denial; without `Deniers` it tells of all
    (`OwnHandlersAreLogged`).

Assumed are the named `ASSUME`s of the modules only, which TLC evaluates in the runs.
That bodies are other pieces than the texts the compressor inserts (`CompressorAssumption`)
is no restriction: a caller may store such a text, it is an inserted piece of its record then, of
which nothing is promised.

Model-checked only: liveness (`EverythingEnds`, `RequestsSettle`, `DispatchReturns`,
`CatchesUp`, `GenerationSettles`, `CloseReturns`). Fairness and ENABLED are out of reach of the
provers. Every other property of a passing run is stated by a theorem.

No theorem is in reach of a RECURSIVE operator. The induction theorems of the library have
an operator as a parameter and cannot be used; where a proof goes over the steps of a
loop, a set of numbers that has 0 and with each its successor is shown to be all of them
(`Induct` in `MemoryProofs`), as what is missing would have a least element (`NatMin`). The folds
of the compressor are the library's `FoldLeft`: `FoldRun` says of any function that folding
with it goes through the elements one by one, and each loop has a lemma (`FitRun`,
`MergeRun` and so on) that its fold is one with the function of its step, as an operator
cannot be a parameter there either.

## Not modelled

Components without a module are listed in `PROJECT.json` with the reason. In the
modelled ones: contents of prompts, events and results; the spawn protocol and process
containment (a child is started or `submit` fails); a monitor thread that cannot be
started; reads of files that fail, where nothing is said of them above; statistics and result filters; clock arithmetic. Of the run state: the
integrity key (a repository without one refuses everything), size limits, the flat
layout of earlier versions, reparse points, the temporary files of `_atomic_write`
(nothing looks at them), and `checkpoint` with a state of its caller's own. Of the
capability store: what makes a bundle acceptable (`Sound` is a constant), reads that
raise, an index that is changed or grows beyond what `_load_index` reads, a second
process on the same root. Of the memory store: stray temporary files, the write of an
empty index when the store is opened, sizes and encodings, directory flushes that
reorder writes, files that others change while the store runs; `LLMCompressor`, the
conversation compressors and read-only loads. Of the memory endpoints: ranking, paging,
the format of an export, two services on one database. Of the plugins: discovery and
validation of manifests, what a plugin's own code does but for its effects on pipes and
processes. Of the terminal: which commands are allowed, environments, platform sandboxes but for
whether they are there, and descendants that outlive their reaped leader (a request's tree is
one thing, up or gone, where `terminal_worker.py:646-650` releases the containment of a leader
that has answered). Of the workflow: templates. Of the role tools: what a tool reads and how
it is redacted, and the budgets inside of single tools.

The rest of the repository is out of reach of a model that says more than its code does:
pure functions (manifests, redaction, bounded JSON, context budget, capability resolution),
clients of external services (model server), calls of operating system facilities (worker
isolation), HTTP handlers that translate one request into one call, and the user interface.

## Plan

Done, in this order: the supervisor and its table, dispatch, lifespan, the orchestrator; run
state; capability store; memory store; memory endpoints; plugins from loader to worker;
broker; event bus; terminal; workflow; role tools.

Next:

1. Discovery of plugins and capabilities while their directories change.
2. `WorkflowDag` over `RoleDispatchService` itself, in place of the roles it has now.
