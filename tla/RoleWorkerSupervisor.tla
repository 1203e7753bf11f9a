------------------------ MODULE RoleWorkerSupervisor ------------------------
(***************************************************************************)
(* The parent side of a role worker (src/src/core/brain/role_worker.py):   *)
(* one supervisor owns a table of task records, one child process and one  *)
(* monitor thread per running task, and is called concurrently by client   *)
(* threads that submit, wait for, cancel and shut tasks down.              *)
(*                                                                         *)
(* One action is one critical section under RoleWorkerSupervisor._lock (or *)
(* one call that blocks outside of it, such as _terminate), so every       *)
(* interleaving of monitors, clients, children and time that the lock      *)
(* allows is a behaviour of this specification.                            *)
(***************************************************************************)
EXTENDS RoleTaskRecords

CONSTANT Client   \* threads that call the supervisor

ASSUME ClientAssumption == IsFiniteSet(Client)

VARIABLES
  record,       \* _records: the WorkerTaskRecord of every retained task
  clock,        \* insertion stamp of the next record (OrderedDict order)
  live,         \* keys of _runtimes
  intent,       \* _TaskRuntime.termination_intent
  pending,      \* _TaskRuntime.pending_event
  waiters,      \* _waiters: how many callers pin a record
  publications, \* _terminal_publications
  closed,       \* _shutdown
  process,      \* the child process of a task, as the OS sees it
  pipe,         \* the terminal event a child sent and nobody received yet
  expired,      \* tasks whose runtime.deadline has passed
  monitor,      \* program counter and decision of each monitor thread
  client,       \* control state of each client thread
  notified      \* how often the terminal observers were called for a task

tableVars  == <<record, clock, waiters, publications, closed, notified>>
runVars    == <<live, intent, pending>>
childVars  == <<process, pipe, expired>>
threadVars == <<monitor, client>>
vars == <<tableVars, runVars, childVars, threadVars>>

-----------------------------------------------------------------------------
Intent == {"none", "cancelled", "timeout"}

(* Child processes.  A "dying" child has been sent SIGKILL but was still   *)
(* alive when the join grace ran out.  A child sends at most one terminal  *)
(* event; started and heartbeat events only refresh last_heartbeat and are *)
(* left out, and with them the sequence numbers: the pipe keeps the order. *)
ProcessState == {"none", "running", "sent", "dying", "dead"}
Executing == {"running", "sent"}
Alive(t) == process[t] \in Executing \cup {"dying"}

Event == {"none", "result", "failure"}

(* Threads.  A monitor remembers the verdict it is about to publish and    *)
(* whether it then continues its loop or leaves it; a client remembers the *)
(* task it works on and, inside shutdown, the tasks it has still to stop.  *)
MonitorPC == {"none", "loop", "stop", "work", "kill", "doubt", "alive",
              "drain", "finalize", "publish", "cleanup", "done"}
Monitor == [pc: MonitorPC, verdict: Status, back: {"loop", "cleanup"}]
NoMonitor == [pc |-> "none", verdict |-> "absent", back |-> "loop"]

ClientPC == {"idle", "wait", "kill", "doubt", "finalize", "publish",
             "return", "sweep", "stopped"}
ClientState == [pc: ClientPC, task: SUBSET Task, verdict: Status,
                sweeping: BOOLEAN, todo: SUBSET Task]
Idle == [pc |-> "idle", task |-> {}, verdict |-> "absent",
         sweeping |-> FALSE, todo |-> {}]

MonitorAt(t, pc) == monitor[t].pc = pc
ClientAt(c, t, pc) == client[c].pc = pc /\ client[c].task = {t}

MonitorGoto(t, pc) == monitor' = [monitor EXCEPT ![t].pc = pc]
ClientGoto(c, pc) == client' = [client EXCEPT ![c].pc = pc]

-----------------------------------------------------------------------------
(* _receive_event and _accept_event: only the first terminal event, before *)
(* any termination intent, for a record that is still open, is kept.       *)
Accepts(t) ==
  /\ t \in live
  /\ record[t].status = "running"
  /\ intent[t] = "none"
  /\ pending[t] = "none"

ReceiveEvent(t) ==
  /\ pipe' = [pipe EXCEPT ![t] = "none"]
  /\ pending' = IF pipe[t] # "none" /\ Accepts(t)
                THEN [pending EXCEPT ![t] = pipe[t]] ELSE pending

(* _terminate: SIGTERM, join, SIGKILL, join; TRUE iff the child is gone.   *)
\* Mutant of KillConfirmed: the kill is taken for granted.
KillAssumed(t) == process' = [process EXCEPT ![t] = IF Alive(t) THEN "dying" ELSE @]

KillConfirmed(t) == process' = [process EXCEPT ![t] = "dead"]
KillUnconfirmed(t) ==
  /\ Alive(t)
  /\ process' = [process EXCEPT ![t] = "dying"]

(* _update_nonterminal_error *)
\* Mutant of RaiseDoubt: the record does not say that the child may be alive.
DoubtIgnored(t) == UNCHANGED record

RaiseDoubt(t) ==
  record' = IF record[t].status = "running"
            THEN [record EXCEPT ![t].doubt = TRUE]
            ELSE record

(* _finalize in two steps.  Under the lock the first verdict wins ...      *)
\* Mutant of Conclude: the publication is not marked.
ConcludeUnmarked(t, v) ==
  /\ record[t].status = "running"
  /\ record' = [record EXCEPT ![t] = Concluded(@, v)]
  /\ UNCHANGED publications

\* Mutant of Conclude: a second verdict overwrites the first.
ConcludeAgain(t, v) ==
  /\ record' = [record EXCEPT ![t] = Concluded(@, v)]
  /\ publications' = publications \cup {t}

Conclude(t, v) ==
  /\ record[t].status = "running"
  /\ record' = [record EXCEPT ![t] = Concluded(@, v)]
  /\ publications' = publications \cup {t}

\* ... a later one returns without an effect ...
AlreadyConcluded(t) ==
  /\ record[t].status # "running"
  /\ UNCHANGED <<record, publications>>

\* ... then the observers run outside of the lock, and after them the
\* publication is withdrawn under the lock.
Publish(t) ==
  /\ notified' = [notified EXCEPT ![t] = @ + 1]
  /\ publications' = publications \ {t}
  /\ record' = Pruned(record, live, waiters, publications')

(* A caller pins a record, and drops its pin in the finally of the call.   *)
Pin(t) == waiters' = [waiters EXCEPT ![t] = @ + 1]
Unpin(t) ==
  /\ waiters' = [waiters EXCEPT ![t] = @ - 1]
  /\ record' = Pruned(record, live, waiters', publications)

-----------------------------------------------------------------------------
Init ==
  /\ record = [t \in Task |-> NoRecord]
  /\ clock = 0
  /\ live = {}
  /\ intent = [t \in Task |-> "none"]
  /\ pending = [t \in Task |-> "none"]
  /\ waiters = [t \in Task |-> 0]
  /\ publications = {}
  /\ closed = FALSE
  /\ process = [t \in Task |-> "none"]
  /\ pipe = [t \in Task |-> "none"]
  /\ expired = {}
  /\ monitor = [t \in Task |-> NoMonitor]
  /\ client = [c \in Client |-> Idle]
  /\ notified = [t \in Task |-> 0]

-----------------------------------------------------------------------------
(* submit.  It is one critical section, so the queued record it creates    *)
(* first is never seen.  A role whose earlier worker was told to stop and  *)
(* is not known to be gone is refused.                                     *)

\* Mutant of RoleAvailable: looks for cancelled workers only.
RoleUncancelled(r) ==
  \A s \in live :
    RoleOf[s] = r =>
      \/ intent[s] # "cancelled"
      \/ IsTerminal(record[s]) /\ record[s].confirmed

RoleAvailable(r) ==
  \A s \in live :
    RoleOf[s] = r =>
      \/ intent[s] = "none"
      \/ IsTerminal(record[s]) /\ record[s].confirmed

Submit(c, t) ==
  /\ client[c].pc = "idle"
  /\ ~closed
  /\ process[t] = "none"
  /\ RoleAvailable(RoleOf[t])
  /\ record' = [record EXCEPT ![t] = RunningRecord(clock)]
  /\ clock' = clock + 1
  /\ live' = live \cup {t}
  /\ process' = [process EXCEPT ![t] = "running"]
  /\ MonitorGoto(t, "loop")
  /\ UNCHANGED <<intent, pending, waiters, publications, closed, pipe, expired,
                 client, notified>>

-----------------------------------------------------------------------------
(* The child process and the clock.  A child may die at any point.         *)

ChildFinish(t) ==
  /\ process[t] = "running"
  /\ process' = [process EXCEPT ![t] = "sent"]
  /\ \E e \in {"result", "failure"} : pipe' = [pipe EXCEPT ![t] = e]
  /\ UNCHANGED <<tableVars, runVars, expired, threadVars>>

ChildExit(t) ==
  /\ process[t] \in Executing
  /\ process' = [process EXCEPT ![t] = "dead"]
  /\ UNCHANGED <<tableVars, runVars, pipe, expired, threadVars>>

ChildDie(t) ==
  /\ process[t] = "dying"
  /\ process' = [process EXCEPT ![t] = "dead"]
  /\ UNCHANGED <<tableVars, runVars, pipe, expired, threadVars>>

DeadlinePasses(t) ==
  /\ record[t].status = "running"
  /\ t \notin expired
  /\ expired' = expired \cup {t}
  /\ UNCHANGED <<tableVars, runVars, process, pipe, threadVars>>

-----------------------------------------------------------------------------
(* _monitor, one thread per task.                                          *)

MonitorLoop(t) ==
  /\ MonitorAt(t, "loop")
  /\ monitor' = [monitor EXCEPT ![t] =
       IF t \notin live \/ IsTerminal(record[t]) THEN [@ EXCEPT !.pc = "cleanup"]
       ELSE IF intent[t] = "none" THEN [@ EXCEPT !.pc = "work"]
       ELSE [@ EXCEPT !.pc = "stop", !.verdict = intent[t]]]
  /\ UNCHANGED <<tableVars, runVars, childVars, client>>

\* Somebody asked for the end: events are discarded until the child is gone.
MonitorStop(t) ==
  /\ MonitorAt(t, "stop")
  /\ ReceiveEvent(t)
  /\ monitor' = [monitor EXCEPT ![t] =
                   IF Alive(t) THEN [@ EXCEPT !.pc = "loop"]
                   ELSE [@ EXCEPT !.pc = "finalize", !.back = "loop"]]
  /\ UNCHANGED <<tableVars, live, intent, process, expired, client>>

\* Mutant of MonitorTimeout: claims the timeout over a cancel that came first.
MonitorTimeoutLate(t) ==
  /\ MonitorAt(t, "work")
  /\ t \in expired
  /\ MonitorGoto(t, "kill")
  /\ intent' = [intent EXCEPT ![t] = "timeout"]
  /\ UNCHANGED <<tableVars, live, pending, childVars, client>>

\* The deadline has passed: claim the timeout unless a cancel came first.
MonitorTimeout(t) ==
  /\ MonitorAt(t, "work")
  /\ t \in expired
  /\ IF intent[t] = "cancelled"
     THEN MonitorGoto(t, "loop") /\ UNCHANGED intent
     ELSE MonitorGoto(t, "kill") /\ intent' = [intent EXCEPT ![t] = "timeout"]
  /\ UNCHANGED <<tableVars, live, pending, childVars, client>>

MonitorKill(t) ==
  /\ MonitorAt(t, "kill")
  /\ \/ /\ KillConfirmed(t)
        /\ monitor' = [monitor EXCEPT ![t] =
                         [pc |-> "finalize", verdict |-> "timeout",
                          back |-> "loop"]]
     \/ KillUnconfirmed(t) /\ MonitorGoto(t, "doubt")
  /\ UNCHANGED <<tableVars, runVars, pipe, expired, client>>

\* Mutant of MonitorDoubt: gives up instead of trying again.
MonitorDoubtStops(t) ==
  /\ MonitorAt(t, "doubt")
  /\ RaiseDoubt(t)
  /\ MonitorGoto(t, "cleanup")
  /\ UNCHANGED <<clock, waiters, publications, closed, notified, runVars,
                 childVars, client>>

MonitorDoubt(t) ==
  /\ MonitorAt(t, "doubt")
  /\ RaiseDoubt(t)
  /\ MonitorGoto(t, "loop")
  /\ UNCHANGED <<clock, waiters, publications, closed, notified, runVars,
                 childVars, client>>

MonitorPoll(t) ==
  /\ MonitorAt(t, "work")
  /\ t \notin expired
  /\ ReceiveEvent(t)
  /\ MonitorGoto(t, "alive")
  /\ UNCHANGED <<tableVars, live, intent, process, expired, client>>

MonitorAlive(t) ==
  /\ MonitorAt(t, "alive")
  /\ MonitorGoto(t, IF Alive(t) THEN "loop" ELSE "drain")
  /\ UNCHANGED <<tableVars, runVars, childVars, client>>

\* The child is gone: what it sent last may still be in the pipe.
MonitorDrain(t) ==
  /\ MonitorAt(t, "drain")
  /\ pipe[t] # "none"
  /\ ReceiveEvent(t)
  /\ UNCHANGED <<tableVars, live, intent, process, expired, threadVars>>

EventVerdict(e) ==
  CASE e = "result"  -> "succeeded"
    [] e = "failure" -> "failed"
    [] OTHER         -> "crashed"

MonitorDecide(t) ==
  /\ MonitorAt(t, "drain")
  /\ pipe[t] = "none"
  /\ monitor' = [monitor EXCEPT ![t] =
       IF IsTerminal(record[t]) THEN [@ EXCEPT !.pc = "cleanup"]
       ELSE [pc |-> "finalize", back |-> "cleanup",
             verdict |-> IF intent[t] # "none" THEN intent[t]
                         ELSE EventVerdict(pending[t])]]
  /\ UNCHANGED <<tableVars, runVars, childVars, client>>

MonitorFinalize(t) ==
  /\ MonitorAt(t, "finalize")
  /\ \/ Conclude(t, monitor[t].verdict) /\ MonitorGoto(t, "publish")
     \/ AlreadyConcluded(t) /\ MonitorGoto(t, monitor[t].back)
  /\ UNCHANGED <<clock, waiters, closed, notified, runVars, childVars, client>>

MonitorPublish(t) ==
  /\ MonitorAt(t, "publish")
  /\ Publish(t)
  /\ MonitorGoto(t, monitor[t].back)
  /\ UNCHANGED <<clock, waiters, closed, runVars, childVars, client>>

\* _cleanup_runtime, in the finally of the monitor.
MonitorCleanup(t) ==
  /\ MonitorAt(t, "cleanup")
  /\ monitor' = [monitor EXCEPT ![t] = [NoMonitor EXCEPT !.pc = "done"]]
  /\ IF Alive(t)
     THEN UNCHANGED <<record, runVars, pipe, expired>>
     ELSE /\ live' = live \ {t}
          /\ intent' = [intent EXCEPT ![t] = "none"]
          /\ pending' = [pending EXCEPT ![t] = "none"]
          /\ pipe' = [pipe EXCEPT ![t] = "none"]
          /\ expired' = expired \ {t}
          /\ record' = Pruned(record, live', waiters, publications)
  /\ UNCHANGED <<clock, waiters, publications, closed, notified, process, client>>

-----------------------------------------------------------------------------
(* wait: a caller sleeps on the condition with the record pinned, until    *)
(* the record is terminal or its budget is spent.                          *)

WaitBegin(c, t) ==
  /\ client[c].pc = "idle"
  /\ record[t].status = "running"
  /\ Pin(t)
  /\ client' = [client EXCEPT ![c] = [@ EXCEPT !.pc = "wait", !.task = {t}]]
  /\ UNCHANGED <<record, clock, publications, closed, notified, runVars,
                 childVars, monitor>>

WaitEnd(c, t) ==
  /\ ClientAt(c, t, "wait")
  /\ Unpin(t)
  /\ client' = [client EXCEPT ![c] = Idle]
  /\ UNCHANGED <<clock, publications, closed, notified, runVars, childVars,
                 monitor>>

\* The record is terminal already: no sleep, but the table is pruned.
WaitTerminal(c, t) ==
  /\ client[c].pc = "idle"
  /\ IsTerminal(record[t])
  /\ record' = Pruned(record, live, waiters, publications)
  /\ UNCHANGED <<clock, waiters, publications, closed, notified, runVars,
                 childVars, threadVars>>

-----------------------------------------------------------------------------
(* cancel, called by a client or by shutdown for every task it found live. *)
(* A terminal or absent record returns at once (WorkerTaskTerminalError or *)
(* None); a running one always has a runtime (RunningHasRuntime), so the   *)
(* early return for a missing runtime is not modelled.                     *)

CancelBegin(c, t) ==
  /\ \/ client[c].pc = "idle"
     \/ client[c].pc = "sweep" /\ t \in client[c].todo
  /\ record[t].status = "running"
  /\ Pin(t)
  /\ LET claimed == IF intent[t] = "none" THEN "cancelled" ELSE intent[t]
     IN  /\ intent' = [intent EXCEPT ![t] = claimed]
         /\ client' = [client EXCEPT ![c] =
              [pc |-> "kill", task |-> {t}, verdict |-> claimed,
               sweeping |-> @.pc = "sweep", todo |-> @.todo \ {t}]]
  /\ UNCHANGED <<record, clock, publications, closed, notified, live, pending,
                 childVars, monitor>>

CancelKill(c, t) ==
  /\ ClientAt(c, t, "kill")
  /\ \/ KillConfirmed(t) /\ ClientGoto(c, "finalize")
     \/ KillUnconfirmed(t) /\ ClientGoto(c, "doubt")
  /\ UNCHANGED <<tableVars, runVars, pipe, expired, monitor>>

CancelDoubt(c, t) ==
  /\ ClientAt(c, t, "doubt")
  /\ RaiseDoubt(t)
  /\ ClientGoto(c, "return")
  /\ UNCHANGED <<clock, waiters, publications, closed, notified, runVars,
                 childVars, monitor>>

CancelFinalize(c, t) ==
  /\ ClientAt(c, t, "finalize")
  /\ \/ Conclude(t, client[c].verdict) /\ ClientGoto(c, "publish")
     \/ AlreadyConcluded(t) /\ ClientGoto(c, "return")
  /\ UNCHANGED <<clock, waiters, closed, notified, runVars, childVars, monitor>>

CancelPublish(c, t) ==
  /\ ClientAt(c, t, "publish")
  /\ Publish(t)
  /\ ClientGoto(c, "return")
  /\ UNCHANGED <<clock, waiters, closed, runVars, childVars, monitor>>

CancelReturn(c, t) ==
  /\ ClientAt(c, t, "return")
  /\ Unpin(t)
  /\ client' = [client EXCEPT ![c] =
                  IF @.sweeping
                  THEN [Idle EXCEPT !.pc = "sweep", !.todo = client[c].todo]
                  ELSE Idle]
  /\ UNCHANGED <<clock, publications, closed, notified, runVars, childVars,
                 monitor>>

-----------------------------------------------------------------------------
(* shutdown: refuse new tasks, then cancel every task that was live.  The  *)
(* order of the sweep is left open.  The join of the monitors that follows *)
(* is bounded and changes nothing.                                         *)

ShutdownBegin(c) ==
  /\ client[c].pc = "idle"
  /\ closed' = TRUE
  /\ client' = [client EXCEPT ![c] =
                  IF closed /\ live = {} THEN [Idle EXCEPT !.pc = "stopped"]
                  ELSE [Idle EXCEPT !.pc = "sweep", !.todo = live]]
  /\ UNCHANGED <<record, clock, waiters, publications, notified, runVars,
                 childVars, monitor>>

ShutdownSkip(c, t) ==
  /\ client[c].pc = "sweep"
  /\ t \in client[c].todo
  /\ record[t].status # "running"
  /\ client' = [client EXCEPT ![c].todo = @ \ {t}]
  /\ UNCHANGED <<tableVars, runVars, childVars, monitor>>

ShutdownReturn(c) ==
  /\ client[c].pc = "sweep"
  /\ client[c].todo = {}
  /\ ClientGoto(c, "stopped")
  /\ UNCHANGED <<tableVars, runVars, childVars, monitor>>

-----------------------------------------------------------------------------
MonitorStep(t) ==
  \/ MonitorLoop(t)    \/ MonitorStop(t)     \/ MonitorTimeout(t)
  \/ MonitorKill(t)    \/ MonitorDoubt(t)    \/ MonitorPoll(t)
  \/ MonitorAlive(t)   \/ MonitorDrain(t)    \/ MonitorDecide(t)
  \/ MonitorFinalize(t) \/ MonitorPublish(t) \/ MonitorCleanup(t)

\* What a call does once it has been made; a new call is the caller's choice.
ClientContinue(c, t) ==
  \/ WaitEnd(c, t)       \/ CancelKill(c, t)    \/ CancelDoubt(c, t)
  \/ CancelFinalize(c, t) \/ CancelPublish(c, t) \/ CancelReturn(c, t)
  \/ ShutdownSkip(c, t)

ChildStep(t) ==
  ChildFinish(t) \/ ChildExit(t) \/ ChildDie(t)

Next ==
  \/ \E t \in Task : ChildStep(t) \/ DeadlinePasses(t) \/ MonitorStep(t)
  \/ \E c \in Client, t \in Task :
        \/ Submit(c, t)
        \/ WaitBegin(c, t)
        \/ WaitTerminal(c, t)
        \/ CancelBegin(c, t)
        \/ ClientContinue(c, t)
  \/ \E c \in Client : ShutdownBegin(c) \/ ShutdownReturn(c)

Spec == Init /\ [][Next]_vars

(* Threads are scheduled, deadlines pass, and a process that was sent      *)
(* SIGKILL ends at some time.  A child itself need never finish.           *)
SweepStep(c) ==
  \/ ShutdownReturn(c)
  \/ \E t \in Task : ClientContinue(c, t)
  \/ client[c].pc = "sweep" /\ \E t \in Task : CancelBegin(c, t)

Fairness ==
  /\ \A t \in Task : /\ WF_vars(MonitorStep(t))
                     /\ WF_vars(ChildDie(t))
                     /\ WF_vars(DeadlinePasses(t))
  /\ \A c \in Client : WF_vars(SweepStep(c))

FairSpec == Spec /\ Fairness

-----------------------------------------------------------------------------
(* Every variable has its type. *)
TypeOK ==
  /\ record \in [Task -> Record]
  /\ clock \in Nat
  /\ live \subseteq Task
  /\ intent \in [Task -> Intent]
  /\ pending \in [Task -> Event]
  /\ waiters \in [Task -> Int]
  /\ publications \subseteq Task
  /\ closed \in BOOLEAN
  /\ process \in [Task -> ProcessState]
  /\ pipe \in [Task -> Event]
  /\ expired \subseteq Task
  /\ monitor \in [Task -> Monitor]
  /\ client \in [Client -> ClientState]
  /\ notified \in [Task -> Nat]

(* A task is terminal only once its child process is known to be gone:     *)
(* cancel, timeout and the monitor finalize after the kill was confirmed.  *)
ConfirmedDead ==
  \A t \in Task : IsTerminal(record[t]) => process[t] = "dead"

(* A running record has a runtime and a monitor that has not finished, and *)
(* a runtime has a record: the branches of _monitor, cancel and submit for *)
(* a missing record or runtime are never taken, and no task is orphaned.   *)
RunningHasRuntime ==
  /\ \A t \in Task : record[t].status = "running" =>
       t \in live /\ monitor[t].pc \notin {"none", "publish", "done"}
  /\ \A t \in live : IsPresent(record[t]) /\ monitor[t].pc # "done"
  /\ \A t \in Task : Alive(t) => t \in live

(* A thread gives a verdict only when it has seen the child dead, it knows *)
(* by then which verdict it gives, and a monitor leaves its loop only when *)
(* the verdict is given.                                                   *)
ThreadsSound ==
  /\ \A t \in Task :
       /\ monitor[t].pc # "none" => process[t] # "none"
       /\ monitor[t].pc \in {"drain", "finalize", "publish"} => process[t] = "dead"
       /\ monitor[t].pc \in {"publish", "cleanup"} => record[t].status # "running"
       /\ monitor[t].pc \in {"stop", "finalize"} => monitor[t].verdict \in TerminalStatus
  /\ \A c \in Client, t \in Task :
       /\ ClientAt(c, t, "kill") => process[t] # "none"
       /\ ClientAt(c, t, "finalize") \/ ClientAt(c, t, "publish") => process[t] = "dead"
       /\ ClientAt(c, t, "kill") \/ ClientAt(c, t, "finalize") =>
            client[c].verdict \in TerminalStatus

(* The terminal observers see every task exactly once: a task whose        *)
(* publication is over was announced, and no task is announced twice,      *)
(* however monitor, cancel and shutdown race to finalize it.               *)
AnnouncedOnce ==
  \A t \in Task :
    /\ notified[t] <= 1
    /\ process[t] = "dead" /\ record[t].status # "running" /\ t \notin publications
         => notified[t] = 1

(* Once shutdown has returned, a child is alive only if its death could    *)
(* not be confirmed, its record says so, and no child is started.          *)
ShutdownStops ==
  (\E c \in Client : client[c].pc = "stopped") =>
    /\ closed
    /\ \A t \in Task : Alive(t) => process[t] = "dying" /\ record[t].doubt

(* A verdict is final: a terminal record is pruned or stays as it is, so   *)
(* no late event, cancel or timeout changes it.                            *)
VerdictFinal ==
  [][\A t \in Task : IsTerminal(record[t]) => record'[t] \in {record[t], NoRecord}]_vars

(* A verdict has its cause: cancelled and timeout only after somebody      *)
(* claimed that intent, the child's own verdicts only for what it sent,    *)
(* and crashed only if it sent nothing: no event was read, and none is     *)
(* left in the pipe that arrived between the last poll and the death.      *)
Cause(t) ==
  CASE record'[t].status \in {"cancelled", "timeout"} -> intent[t] = record'[t].status
    [] record'[t].status = "crashed" -> pending[t] = "none" /\ pipe[t] = "none"
    [] OTHER -> EventVerdict(pending[t]) = record'[t].status

VerdictHasCause ==
  [][\A t \in Task :
       record[t].status = "running" /\ IsTerminal(record'[t]) => Cause(t)]_vars

(* A role whose worker was told to stop gets no second worker while the    *)
(* first may still be alive.                                               *)
RoleNotReused ==
  [][\A t \in Task : process[t] = "none" /\ process'[t] # "none" =>
       \A s \in Task : RoleOf[s] = RoleOf[t] /\ Alive(s) => intent[s] = "none"]_vars

(* Every submitted task ends: its child may hang, but its deadline, the    *)
(* kill and the monitor's retries bring it to a verdict.                   *)
EveryTaskEnds ==
  \A t \in Task : record[t].status = "running" ~> record[t].status # "running"

(* Every call returns, and so does shutdown. *)
CallsReturn ==
  \A c \in Client : client[c].pc # "idle" ~> client[c].pc \in {"idle", "stopped"}

(* No task runs and nobody waits for ever.                                 *)
EverythingEnds == EveryTaskEnds /\ CallsReturn

-----------------------------------------------------------------------------
(* The supervisor keeps the promise of RoleTaskTable: threads, kills and   *)
(* pipes are hidden, and in every interleaving a step is a step of the     *)
(* table or changes nothing there.                                         *)
Table == INSTANCE RoleTaskTable WITH
  MaxPins <- Cardinality(Client),
  doomed <- {t \in Task : intent[t] # "none"},
  child <- [t \in Task |-> IF process[t] = "none" THEN "new"
                           ELSE IF process[t] = "dead" THEN "gone" ELSE "up"],
  announcing <- publications

ImplementsTable == Table!TableSpec

=============================================================================
