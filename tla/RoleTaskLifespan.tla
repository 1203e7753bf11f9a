-------------------------- MODULE RoleTaskLifespan --------------------------
(***************************************************************************)
(* Role tasks over the life of the service: startup reconciles the records *)
(* the previous process saved, shutdown saves the records and then stops   *)
(* the supervisor, and the process may crash at any point                  *)
(* (src/src/main_fastapi.py, lifespan and AppState.shutdown;               *)
(* src/src/adapters/role_task_record_repository.py;                        *)
(* src/src/core/brain/role_worker.py, recover_orphans and list).           *)
(***************************************************************************)
EXTENDS RoleTaskTable

CONSTANTS
  Boots,            \* bound on the number of process starts
  StartupMayFail,   \* whether recover_active may reject the run state
  LoadMayFail,      \* whether load may leave records of the file out
  SaveMayFail       \* whether writing or removing the snapshot may fail

ASSUME BootsAssumption == Boots \in Nat \ {0}
ASSUME FailureAssumption ==
  StartupMayFail \in BOOLEAN /\ LoadMayFail \in BOOLEAN /\ SaveMayFail \in BOOLEAN

VARIABLES
  phase,    \* where the process is in lifespan
  boots,    \* process starts so far
  file,     \* role-tasks.json
  orphaned, \* what load returned and recover_orphans has not looked at yet
  unread,   \* history: tasks whose records load left out in this process
  kept,     \* history: and those whose reconciled records clear could not remove
  verdict   \* history: the first terminal status a task had in memory

lvars == <<phase, boots, file, orphaned, unread, kept, verdict>>

\* An entry of the file stands for a record, at its place in the JSON array;
\* terminal ones are confirmed.
Entry == [task: Task, status: Status \ {"absent"}, place: Nat]

FileTasks == {e.task : e \in file}
InFile(t) == t \in FileTasks

FirstVerdict(R) ==
  verdict' = [t \in Task |-> IF verdict[t] = "absent" /\ IsTerminal(R[t])
                             THEN R[t].status ELSE verdict[t]]

LifespanInit ==
  /\ TableInit
  /\ phase = "starting" /\ boots = 1
  /\ file = {} /\ orphaned = {} /\ unread = {} /\ kept = {}
  /\ verdict = [t \in Task |-> "absent"]

-----------------------------------------------------------------------------
(* list: the last records of the table, newest first, at most              *)
(* min(limit, max_records) of them; save stores them in that order.        *)
Newer(t) == {s \in Present(record) : record[s].stamp > record[t].stamp}
Listed == {t \in Present(record) : Cardinality(Newer(t)) < MaxRecords}

Snapshot == {[task |-> t, status |-> record[t].status, place |-> Cardinality(Newer(t))] : t \in Listed}

-----------------------------------------------------------------------------
\* load: the records of the file, in its order.  Of a file that cannot be read,
\* is no JSON array or is over its limit it returns none, and it skips items
\* from_dict refuses.  Without a record startup is over, and the file stays.
Loadable == IF LoadMayFail THEN SUBSET file ELSE {file}

StartupLoads ==
  /\ phase = "starting"
  /\ orphaned' \in Loadable
  /\ unread' = {e.task : e \in file \ orphaned'}
  /\ phase' = IF orphaned' = {} THEN "serving" ELSE "recovering"
  /\ UNCHANGED <<tvars, boots, file, kept, verdict>>

\* Mutant of Outcome: an orphan is reported as failed.
OutcomeFailed(e) == IF e.status = "running" THEN "failed" ELSE e.status
Outcome(e) == IF e.status = "running" THEN "crashed" ELSE e.status

\* recover_orphans takes the entries in their order.  It holds the lock of a
\* supervisor nobody else calls yet, so only a crash can come between.
RecoverOrphan(e) ==
  /\ phase = "recovering"
  /\ \A d \in orphaned : e.place <= d.place
  /\ orphaned' = orphaned \ {e}
  /\ IF IsPresent(record[e.task]) THEN UNCHANGED <<record, clock, publications, verdict>>
     ELSE /\ publications' = publications \cup IF e.status = "running" THEN {e.task} ELSE {}
          /\ record' = Pruned([record EXCEPT ![e.task] = Concluded(RunningRecord(clock), Outcome(e))],
                              live, waiters, publications')
          /\ clock' = clock + 1
          /\ FirstVerdict(record')
  /\ UNCHANGED <<live, doomed, child, waiters, announcing, closed, phase, boots, file, unread, kept>>

\* Mutant of StartupClears: the snapshot is removed before it is read.
StartupClearsFirst ==
  /\ phase = "starting" /\ file # {}
  /\ file' = {}
  /\ phase' = "serving"
  /\ UNCHANGED <<tvars, boots, orphaned, unread, kept, verdict>>

\* The snapshot is removed once what load returned is in memory, with the
\* records load left out.
StartupClears ==
  /\ phase = "recovering" /\ orphaned = {}
  /\ file' = {} /\ unread' = {}
  /\ phase' = "serving"
  /\ UNCHANGED <<tvars, boots, orphaned, kept, verdict>>

\* clear swallows an OSError: the service starts with the snapshot still there.
StartupClearFails ==
  /\ SaveMayFail
  /\ phase = "recovering" /\ orphaned = {}
  /\ kept' = FileTasks \ unread
  /\ phase' = "serving"
  /\ UNCHANGED <<tvars, boots, file, orphaned, unread, verdict>>

\* RunStateIntegrityError: the records are not read; shutdown runs anyway.
StartupFails ==
  /\ StartupMayFail
  /\ phase = "starting"
  /\ phase' = "rejected"
  /\ UNCHANGED <<tvars, boots, file, orphaned, unread, kept, verdict>>

-----------------------------------------------------------------------------
(* The supervisor at work.  Its threads also run while the process stops.  *)
Alive == phase # "down"

SubmitTask(t) ==
  /\ phase = "serving"
  /\ ~IsPresent(record[t])
  /\ Admit(t)
  /\ UNCHANGED <<phase, boots, file, orphaned, unread, kept, verdict>>

Work ==
  /\ Alive
  /\ \E t \in Task : TaskStep(t)
  /\ FirstVerdict(record')
  /\ UNCHANGED <<phase, boots, file, orphaned, unread, kept>>

\* An orphan of a crashed process ends at some time.
OrphanEnds ==
  /\ phase = "down"
  /\ \E t \in Task : ChildGone(t)
  /\ UNCHANGED lvars

-----------------------------------------------------------------------------
(* AppState.shutdown: save, then stop the supervisor; a failed save does   *)
(* not keep the supervisor from being stopped.                             *)
ShutdownBegin ==
  /\ phase = "serving"
  /\ phase' = "saving"
  /\ UNCHANGED <<tvars, boots, file, orphaned, unread, kept, verdict>>

Persist ==
  /\ phase \in {"saving", "rejected"}
  /\ file' = Snapshot /\ unread' = {} /\ kept' = {}
  /\ phase' = "stopping"
  /\ UNCHANGED <<tvars, boots, orphaned, verdict>>

PersistFails ==
  /\ SaveMayFail
  /\ phase \in {"saving", "rejected"}
  /\ phase' = "stopping"
  /\ UNCHANGED <<tvars, boots, file, orphaned, unread, kept, verdict>>

StopSupervisor ==
  /\ phase = "stopping"
  /\ ~closed
  /\ Close
  /\ UNCHANGED lvars

\* Every running task was cancelled, or its death could not be confirmed.
ShutdownEnd ==
  /\ phase = "stopping"
  /\ closed
  /\ \A t \in Task : record[t].status = "running" => record[t].doubt
  /\ phase' = "down"
  /\ UNCHANGED <<tvars, boots, file, orphaned, unread, kept, verdict>>

Crash ==
  /\ Alive
  /\ phase' = "down" /\ orphaned' = {} /\ unread' = {} /\ kept' = {}
  /\ UNCHANGED <<tvars, boots, file, verdict>>

\* A new process has a new supervisor; children and the file are still there.
Boot ==
  /\ phase = "down"
  /\ boots < Boots
  /\ boots' = boots + 1
  /\ phase' = "starting"
  /\ record' = [t \in Task |-> NoRecord]
  /\ clock' = 0
  /\ live' = {}
  /\ doomed' = {}
  /\ waiters' = [t \in Task |-> 0]
  /\ publications' = {}
  /\ announcing' = {}
  /\ closed' = FALSE
  /\ unread' = {} /\ kept' = {}
  /\ UNCHANGED <<child, file, orphaned, verdict>>

LifespanNext ==
  \/ StartupLoads \/ StartupClears \/ StartupClearFails \/ StartupFails
  \/ \E e \in orphaned : RecoverOrphan(e)
  \/ \E t \in Task : SubmitTask(t)
  \/ Work \/ OrphanEnds
  \/ ShutdownBegin \/ Persist \/ PersistFails \/ StopSupervisor \/ ShutdownEnd
  \/ Crash \/ Boot

LifespanSpec == LifespanInit /\ [][LifespanNext]_<<tvars, lvars>>

-----------------------------------------------------------------------------
(* Nothing is silently resumed: a record that is running has a runtime in  *)
(* this process, whatever the previous ones left in the file.              *)
NothingResumed ==
  Alive => \A t \in Task : record[t].status = "running" => t \in live

(* No restart invents an outcome: what the table and the file say of a     *)
(* task is the verdict it had or that it crashed, wherever the process     *)
(* crashed between saving, recovering and clearing.                        *)
NoInventedVerdict ==
  /\ \A t \in Task :
       IsTerminal(record[t]) => record[t].status \in {verdict[t], "crashed"}
  /\ \A e \in file : e.status \in {"running", "crashed", verdict[e.task]}

(* What a restart says of a task is neither resumed nor made up.           *)
RecoveredHonestly == NothingResumed /\ NoInventedVerdict

\* A record of the file that load did not leave out, and that startup is not
\* done with.
Owed(t) == InFile(t) /\ t \notin unread \cup kept

SettledStep ==
  \A t \in Task : Owed(t) /\ ~Owed(t)' /\ t \notin unread' => Alive /\ IsPresent(record[t])

(* A saved record leaves the file, or is left behind there by a clear that  *)
(* failed, only when it is in memory, whatever crashed between recovery,    *)
(* clearing and saving, unless load left the record out or startup rejected *)
(* the run state.                                                           *)
ClearedAfterRecovery == [][phase # "rejected" => SettledStep]_<<tvars, lvars>>

SavedStep ==
  \A t \in Task : InFile(t) /\ ~InFile(t)' => Alive /\ IsPresent(record[t])

(* A saved record leaves the file only when it is in memory (README,       *)
(* "persisted during shutdown and reconciled on FastAPI startup").         *)
SavedUntilRecovered == [][SavedStep]_<<tvars, lvars>>

=============================================================================
