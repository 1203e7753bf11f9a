--------------------- MODULE RoleWorkerSupervisorProofs ---------------------
(***************************************************************************)
(* Theorems about RoleWorkerSupervisor, for every set of tasks, roles and  *)
(* clients and every bound on the table.                                   *)
(***************************************************************************)
EXTENDS RoleWorkerSupervisor, FiniteSetTheorems, TLAPS

(* Retention changes a record only by removing it, and removes only a      *)
(* record that is terminal and needed by nobody (_prune_records).          *)
LEMMA PrunedRemoves ==
  ASSUME NEW R, NEW L, NEW W, NEW P, NEW t \in Task
  PROVE  \/ Pruned(R, L, W, P)[t] = R[t]
         \/ /\ Pruned(R, L, W, P)[t] = NoRecord
            /\ IsTerminal(R[t]) /\ t \notin L /\ W[t] = 0 /\ t \notin P
BY DEF Pruned, Removable

LEMMA NoRecordType == NoRecord \in Record /\ ~IsTerminal(NoRecord) /\ ~IsPresent(NoRecord)
                      /\ NoRecord.status = "absent"
BY DEF NoRecord, Record, Status, TerminalStatus, IsTerminal, IsPresent

LEMMA PrunedType ==
  ASSUME NEW R \in [Task -> Record], NEW L, NEW W, NEW P
  PROVE  Pruned(R, L, W, P) \in [Task -> Record]
<1>1. \A t \in Task : Pruned(R, L, W, P)[t] \in Record
  BY PrunedRemoves, NoRecordType
<1> QED
  BY <1>1 DEF Pruned

LEMMA RunningRecordType ==
  ASSUME NEW n \in Nat
  PROVE  RunningRecord(n) \in Record /\ RunningRecord(n).status = "running"
BY DEF RunningRecord, NoRecord, Record, Status

LEMMA ConcludedType ==
  ASSUME NEW r \in Record, NEW v \in Status
  PROVE  Concluded(r, v) \in Record /\ Concluded(r, v).status = v
BY DEF Concluded, Record

(* What the small steps of threads do to types. *)
LEMMA MonitorGotoType ==
  ASSUME monitor \in [Task -> Monitor], NEW t \in Task, NEW pc \in MonitorPC,
         MonitorGoto(t, pc)
  PROVE  monitor' \in [Task -> Monitor]
BY DEF MonitorGoto, Monitor

LEMMA ClientGotoType ==
  ASSUME client \in [Client -> ClientState], NEW c \in Client, NEW pc \in ClientPC,
         ClientGoto(c, pc)
  PROVE  client' \in [Client -> ClientState]
BY DEF ClientGoto, ClientState

LEMMA MonitorFields ==
  ASSUME monitor \in [Task -> Monitor], NEW t \in Task
  PROVE  /\ monitor[t].pc \in MonitorPC
         /\ monitor[t].verdict \in Status
         /\ monitor[t].back \in {"loop", "cleanup"}
BY DEF Monitor

LEMMA ClientFields ==
  ASSUME client \in [Client -> ClientState], NEW c \in Client
  PROVE  /\ client[c].pc \in ClientPC
         /\ client[c].task \subseteq Task
         /\ client[c].verdict \in Status
         /\ client[c].sweeping \in BOOLEAN
         /\ client[c].todo \subseteq Task
BY DEF ClientState

LEMMA IdleType ==
  /\ Idle \in ClientState
  /\ NoMonitor \in Monitor
  /\ [NoMonitor EXCEPT !.pc = "done"] \in Monitor
BY DEF Idle, ClientState, ClientPC, NoMonitor, Monitor, MonitorPC, Status

LEMMA PublishType ==
  ASSUME TypeOK, NEW t \in Task, Publish(t)
  PROVE  /\ record' \in [Task -> Record]
         /\ publications' \subseteq Task
         /\ notified' \in [Task -> Nat]
BY PrunedType DEF Publish, TypeOK

LEMMA ConcludeType ==
  ASSUME TypeOK, NEW t \in Task, NEW v \in Status,
         Conclude(t, v) \/ AlreadyConcluded(t)
  PROVE  record' \in [Task -> Record] /\ publications' \subseteq Task
<1>1. record[t] \in Record
  BY DEF TypeOK
<1>2. Concluded(record[t], v) \in Record
  BY <1>1, ConcludedType
<1> QED
  BY <1>2 DEF Conclude, AlreadyConcluded, TypeOK

LEMMA KillType ==
  ASSUME process \in [Task -> ProcessState], NEW t \in Task,
         KillConfirmed(t) \/ KillUnconfirmed(t)
  PROVE  process' \in [Task -> ProcessState]
BY DEF KillConfirmed, KillUnconfirmed, ProcessState

LEMMA DoubtType ==
  ASSUME record \in [Task -> Record], NEW t \in Task, RaiseDoubt(t)
  PROVE  record' \in [Task -> Record]
BY DEF RaiseDoubt, Record

LEMMA UnpinType ==
  ASSUME TypeOK, NEW t \in Task, Unpin(t)
  PROVE  record' \in [Task -> Record] /\ waiters' \in [Task -> Int]
BY PrunedType DEF Unpin, TypeOK

-----------------------------------------------------------------------------
(* Every variable has its type in every reachable state. *)
LEMMA InitType == Init => TypeOK
<1> SUFFICES ASSUME Init PROVE TypeOK
  OBVIOUS
<1>1. record \in [Task -> Record]
  BY NoRecordType DEF Init
<1>2. monitor \in [Task -> Monitor] /\ client \in [Client -> ClientState]
  BY IdleType DEF Init
<1>3. /\ intent \in [Task -> Intent] /\ pending \in [Task -> Event]
      /\ pipe \in [Task -> Event] /\ process \in [Task -> ProcessState]
  BY DEF Init, Intent, Event, ProcessState
<1>4. /\ waiters \in [Task -> Int] /\ notified \in [Task -> Nat] /\ clock \in Nat
      /\ live \subseteq Task /\ publications \subseteq Task /\ expired \subseteq Task
  BY DEF Init
<1>5. closed \in BOOLEAN
  BY DEF Init
<1> QED
  BY <1>1, <1>2, <1>3, <1>4, <1>5 DEF TypeOK

LEMMA NextType == TypeOK /\ [Next]_vars => TypeOK'
<1> SUFFICES ASSUME TypeOK, [Next]_vars PROVE TypeOK'
  OBVIOUS
<1> USE DEF TypeOK
<1>1. ASSUME NEW c \in Client, NEW t \in Task, Submit(c, t) PROVE TypeOK'
  <2>1. record' \in [Task -> Record] /\ clock' \in Nat
    BY <1>1, RunningRecordType DEF Submit
  <2>2. monitor' \in [Task -> Monitor]
    <3>1. "loop" \in MonitorPC
      BY DEF MonitorPC
    <3> QED
      BY <1>1, <3>1, MonitorGotoType DEF Submit
  <2>3. process' \in [Task -> ProcessState] /\ live' \subseteq Task
    BY <1>1 DEF Submit, ProcessState
  <2> QED
    BY <1>1, <2>1, <2>2, <2>3 DEF Submit
<1>2. ASSUME NEW t \in Task, ChildStep(t) PROVE TypeOK'
  BY <1>2 DEF ChildStep, ChildFinish, ChildExit, ChildDie, ProcessState, Event,
     tableVars, runVars, threadVars
<1>3. ASSUME NEW t \in Task, DeadlinePasses(t) PROVE TypeOK'
  BY <1>3 DEF DeadlinePasses, tableVars, runVars, threadVars
<1>4. ASSUME NEW t \in Task, MonitorStep(t) PROVE TypeOK'
  <2>1. CASE MonitorLoop(t)
    <3>1. intent[t] = "none" \/ intent[t] \in Status
      BY DEF Intent, Status, TerminalStatus
    <3> QED
      <4>1. /\ [monitor[t] EXCEPT !.pc = "cleanup"] \in Monitor
            /\ [monitor[t] EXCEPT !.pc = "work"] \in Monitor
            /\ intent[t] \in Status => [monitor[t] EXCEPT !.pc = "stop", !.verdict = intent[t]] \in Monitor
        BY MonitorFields DEF Monitor, MonitorPC
      <4>2. monitor' \in [Task -> Monitor]
        BY <2>1, <3>1, <4>1 DEF MonitorLoop
      <4> QED
        BY <2>1, <4>2 DEF MonitorLoop, tableVars, runVars, childVars
  <2>2. CASE MonitorStop(t)
    <3>1. monitor' \in [Task -> Monitor]
      <4>1. [monitor[t] EXCEPT !.pc = "loop"] \in Monitor
        BY DEF Monitor, MonitorPC
      <4>2. [monitor[t] EXCEPT !.pc = "finalize", !.back = "loop"] \in Monitor
        BY DEF Monitor, MonitorPC
      <4> QED
        BY <2>2, <4>1, <4>2 DEF MonitorStop
    <3> QED
      BY <2>2, <3>1 DEF MonitorStop, ReceiveEvent, Event, tableVars
  <2>3. CASE MonitorTimeout(t)
    <3>1. monitor' \in [Task -> Monitor]
      BY <2>3, MonitorGotoType DEF MonitorTimeout, MonitorPC
    <3>2. intent' \in [Task -> Intent]
      BY <2>3 DEF MonitorTimeout, Intent
    <3> QED
      BY <2>3, <3>1, <3>2 DEF MonitorTimeout, tableVars, childVars
  <2>4. CASE MonitorKill(t)
    <3>1. process' \in [Task -> ProcessState]
      BY <2>4, KillType DEF MonitorKill
    <3>2. "timeout" \in Status
      BY DEF Status, TerminalStatus
    <3>3. monitor' \in [Task -> Monitor]
      <4>1. [pc |-> "finalize", verdict |-> "timeout", back |-> "loop"] \in Monitor
        BY <3>2 DEF Monitor, MonitorPC
      <4>2. "doubt" \in MonitorPC
        BY DEF MonitorPC
      <4> QED
        BY <2>4, <4>1, <4>2, MonitorGotoType DEF MonitorKill
    <3> QED
      BY <2>4, <3>1, <3>3 DEF MonitorKill, tableVars, runVars
  <2>5. CASE MonitorDoubt(t)
    <3>1. monitor' \in [Task -> Monitor]
      <4>1. "loop" \in MonitorPC
        BY DEF MonitorPC
      <4> QED
        BY <2>5, <4>1, MonitorGotoType DEF MonitorDoubt
    <3>2. record' \in [Task -> Record]
      BY <2>5, DoubtType DEF MonitorDoubt
    <3> QED
      BY <2>5, <3>1, <3>2 DEF MonitorDoubt, runVars, childVars
  <2>6. CASE MonitorPoll(t)
    <3>1. monitor' \in [Task -> Monitor]
      <4>1. "alive" \in MonitorPC
        BY DEF MonitorPC
      <4> QED
        BY <2>6, <4>1, MonitorGotoType DEF MonitorPoll
    <3>2. pending' \in [Task -> Event] /\ pipe' \in [Task -> Event]
      BY <2>6 DEF MonitorPoll, ReceiveEvent, Event
    <3> QED
      BY <2>6, <3>1, <3>2 DEF MonitorPoll, tableVars
  <2>7. CASE MonitorAlive(t)
    <3>1. monitor' \in [Task -> Monitor]
      <4>1. "loop" \in MonitorPC /\ "drain" \in MonitorPC
        BY DEF MonitorPC
      <4> QED
        BY <2>7, <4>1, MonitorGotoType DEF MonitorAlive
    <3> QED
      BY <2>7, <3>1 DEF MonitorAlive, tableVars, runVars, childVars
  <2>8. CASE MonitorDrain(t)
    BY <2>8 DEF MonitorDrain, ReceiveEvent, Event, tableVars, threadVars
  <2>9. CASE MonitorDecide(t)
    BY <2>9 DEF MonitorDecide, EventVerdict, Monitor, MonitorPC, Event, Intent, Status,
       TerminalStatus, tableVars, runVars, childVars
  <2>10. CASE MonitorFinalize(t)
    <3>1. monitor[t].verdict \in Status /\ {"publish", monitor[t].back} \subseteq MonitorPC
      BY MonitorFields DEF MonitorPC
    <3>2. monitor' \in [Task -> Monitor]
      BY <2>10, <3>1, MonitorGotoType DEF MonitorFinalize
    <3>3. record' \in [Task -> Record] /\ publications' \subseteq Task
      BY <2>10, <3>1, ConcludeType DEF MonitorFinalize
    <3> QED
      BY <2>10, <3>2, <3>3 DEF MonitorFinalize, runVars, childVars
  <2>11. CASE MonitorPublish(t)
    <3>1. monitor' \in [Task -> Monitor]
      BY <2>11, MonitorFields, MonitorGotoType DEF MonitorPublish, MonitorPC
    <3> QED
      BY <2>11, <3>1, PublishType DEF MonitorPublish, runVars, childVars
  <2>12. CASE MonitorCleanup(t)
    <3>1. monitor' \in [Task -> Monitor]
      BY <2>12, IdleType DEF MonitorCleanup
    <3>2. record' \in [Task -> Record]
      BY <2>12, PrunedType DEF MonitorCleanup
    <3> QED
      BY <2>12, <3>1, <3>2 DEF MonitorCleanup, Intent, Event, runVars
  <2> QED
    BY <1>4, <2>1, <2>2, <2>3, <2>4, <2>5, <2>6, <2>7, <2>8, <2>9, <2>10, <2>11, <2>12
    DEF MonitorStep
<1>5. ASSUME NEW c \in Client, NEW t \in Task, WaitBegin(c, t) PROVE TypeOK'
  <2>1. client' \in [Client -> ClientState]
    <3>1. [client[c] EXCEPT !.pc = "wait", !.task = {t}] \in ClientState
      BY ClientFields DEF ClientState, ClientPC
    <3> QED
      BY <1>5, <3>1 DEF WaitBegin
  <2> QED
    BY <1>5, <2>1 DEF WaitBegin, Pin, runVars, childVars
<1>6. ASSUME NEW c \in Client, NEW t \in Task, WaitTerminal(c, t) PROVE TypeOK'
  BY <1>6, PrunedType DEF WaitTerminal, runVars, childVars, threadVars
<1>7. ASSUME NEW c \in Client, NEW t \in Task, CancelBegin(c, t) PROVE TypeOK'
  <2>1. \A v \in Intent \ {"none"} : v \in Status
    BY DEF Intent, Status, TerminalStatus
  <2>2. client' \in [Client -> ClientState] /\ intent' \in [Task -> Intent]
    BY <1>7, <2>1, ClientFields DEF CancelBegin, ClientState, ClientPC, Intent
  <2> QED
    BY <1>7, <2>2 DEF CancelBegin, Pin, childVars
<1>8. ASSUME NEW c \in Client, NEW t \in Task, ClientContinue(c, t) PROVE TypeOK'
  <2> USE <1>8
  <2>1. CASE WaitEnd(c, t)
    BY <2>1, UnpinType, IdleType DEF WaitEnd, runVars, childVars
  <2>2. CASE CancelKill(c, t)
    <3>1. client' \in [Client -> ClientState]
      BY <2>2, ClientGotoType DEF CancelKill, ClientPC
    <3> QED
      BY <2>2, <3>1, KillType DEF CancelKill, tableVars, runVars
  <2>3. CASE CancelDoubt(c, t)
    <3>1. client' \in [Client -> ClientState]
      BY <2>3, ClientGotoType DEF CancelDoubt, ClientPC
    <3> QED
      BY <2>3, <3>1, DoubtType DEF CancelDoubt, runVars, childVars
  <2>4. CASE CancelFinalize(c, t)
    <3>1. client' \in [Client -> ClientState]
      BY <2>4, ClientGotoType DEF CancelFinalize, ClientPC
    <3>2. record' \in [Task -> Record] /\ publications' \subseteq Task
      BY <2>4, ClientFields, ConcludeType DEF CancelFinalize
    <3> QED
      BY <2>4, <3>1, <3>2 DEF CancelFinalize, runVars, childVars
  <2>5. CASE CancelPublish(c, t)
    <3>1. client' \in [Client -> ClientState]
      BY <2>5, ClientGotoType DEF CancelPublish, ClientPC
    <3> QED
      BY <2>5, <3>1, PublishType DEF CancelPublish, runVars, childVars
  <2>6. CASE CancelReturn(c, t)
    <3>1. client' \in [Client -> ClientState]
      <4>1. [Idle EXCEPT !.pc = "sweep", !.todo = client[c].todo] \in ClientState
        BY ClientFields, IdleType DEF ClientState, ClientPC
      <4> QED
        BY <2>6, <4>1, IdleType DEF CancelReturn
    <3> QED
      BY <2>6, <3>1, UnpinType DEF CancelReturn, runVars, childVars
  <2>7. CASE ShutdownSkip(c, t)
    <3>1. client' \in [Client -> ClientState]
      <4>1. [client[c] EXCEPT !.todo = @ \ {t}] \in ClientState
        BY ClientFields DEF ClientState
      <4> QED
        BY <2>7, <4>1 DEF ShutdownSkip
    <3> QED
      BY <2>7, <3>1 DEF ShutdownSkip, tableVars, runVars, childVars
  <2> QED
    BY <2>1, <2>2, <2>3, <2>4, <2>5, <2>6, <2>7 DEF ClientContinue
<1>9. ASSUME NEW c \in Client, ShutdownBegin(c) PROVE TypeOK'
  <2>1. client' \in [Client -> ClientState]
    BY <1>9, IdleType DEF ShutdownBegin, Idle, ClientState, ClientPC
  <2> QED
    BY <1>9, <2>1 DEF ShutdownBegin, runVars, childVars
<1>10. ASSUME NEW c \in Client, ShutdownReturn(c) PROVE TypeOK'
  <2>1. client' \in [Client -> ClientState]
    BY <1>10, ClientGotoType DEF ShutdownReturn, ClientPC
  <2> QED
    BY <1>10, <2>1 DEF ShutdownReturn, tableVars, runVars, childVars
<1>11. CASE UNCHANGED vars
  BY <1>11 DEF vars, tableVars, runVars, childVars, threadVars
<1> QED
  BY <1>1, <1>2, <1>3, <1>4, <1>5, <1>6, <1>7, <1>8, <1>9, <1>10, <1>11 DEF Next

THEOREM TypeCorrect == Spec => []TypeOK
<1>1. Init => TypeOK
  BY InitType
<1>2. TypeOK /\ [Next]_vars => TypeOK'
  BY NextType
<1> QED
  BY <1>1, <1>2, PTL DEF Spec

-----------------------------------------------------------------------------
(* The inductive invariant: verdicts follow deaths, every running task has *)
(* its runtime and its monitor, and threads know what they have seen.      *)
SafetyInv == TypeOK /\ ConfirmedDead /\ RunningHasRuntime /\ ThreadsSound

\* What it says of one task, and of one client that works on the task.
TaskSound(t) ==
  /\ IsTerminal(record[t]) => process[t] = "dead"
  /\ record[t].status = "running" =>
       t \in live /\ monitor[t].pc \notin {"none", "publish", "done"}
  /\ t \in live => IsPresent(record[t]) /\ monitor[t].pc # "done"
  /\ Alive(t) => t \in live
  /\ monitor[t].pc # "none" => process[t] # "none"
  /\ monitor[t].pc \in {"drain", "finalize", "publish"} => process[t] = "dead"
  /\ monitor[t].pc \in {"publish", "cleanup"} => record[t].status # "running"
  /\ monitor[t].pc \in {"stop", "finalize"} => monitor[t].verdict \in TerminalStatus

ClientSound(c, t) ==
  /\ ClientAt(c, t, "kill") => process[t] # "none"
  /\ ClientAt(c, t, "finalize") \/ ClientAt(c, t, "publish") => process[t] = "dead"
  /\ ClientAt(c, t, "kill") \/ ClientAt(c, t, "finalize") =>
       client[c].verdict \in TerminalStatus

LEMMA SafetyPerTask ==
  SafetyInv <=> /\ TypeOK
                /\ \A t \in Task : TaskSound(t)
                /\ \A c \in Client, t \in Task : ClientSound(c, t)
BY DEF SafetyInv, TypeOK, ConfirmedDead, RunningHasRuntime, ThreadsSound, TaskSound,
   ClientSound

\* The same in the next state.
LEMMA SafetyPerTaskNext ==
  SafetyInv' <=> /\ TypeOK'
                 /\ \A t \in Task : TaskSound(t)'
                 /\ \A c \in Client, t \in Task : ClientSound(c, t)'
BY DEF SafetyInv, TypeOK, ConfirmedDead, RunningHasRuntime, ThreadsSound, TaskSound,
   ClientSound

LEMMA StatusCases ==
  ASSUME NEW r \in Record
  PROVE  IsTerminal(r) <=> IsPresent(r) /\ r.status # "running"
BY DEF Record, Status, TerminalStatus, IsPresent, IsTerminal

LEMMA InitSafety == Init => SafetyInv
<1> SUFFICES ASSUME Init
             PROVE  /\ \A t \in Task : TaskSound(t)
                    /\ \A c \in Client, t \in Task : ClientSound(c, t)
  BY InitType, SafetyPerTask
<1>1. ASSUME NEW t \in Task PROVE TaskSound(t)
  BY NoRecordType DEF Init, TaskSound, NoMonitor, Alive, Executing
<1>2. ASSUME NEW c \in Client, NEW t \in Task PROVE ClientSound(c, t)
  BY DEF Init, ClientSound, Idle, ClientAt
<1> QED
  BY <1>1, <1>2

-----------------------------------------------------------------------------
(* What a step may do to a task without breaking the invariant: its record *)
(* keeps its status or is dropped, its child stays as dead as it was, and  *)
(* a thread moves only to where its guards have brought it.                *)
RecordKept(t) ==
  /\ IsTerminal(record'[t]) => IsTerminal(record[t])
  /\ record'[t].status = "running" <=> record[t].status = "running"
  /\ t \in live' /\ IsPresent(record[t]) => IsPresent(record'[t])

ProcessKept(t) ==
  /\ Alive(t)' => Alive(t)
  /\ process[t] # "none" => process'[t] # "none"
  /\ process[t] = "dead" => process'[t] = "dead"

MonitorMoves(t) ==
  \/ monitor'[t] = monitor[t]
  \/ /\ monitor[t].pc # "none"
     /\ \/ monitor'[t].pc \in {"loop", "work", "kill", "doubt", "alive"}
        \/ monitor'[t].pc = "drain" /\ process'[t] = "dead"
        \/ monitor'[t].pc = "stop" /\ monitor'[t].verdict \in TerminalStatus
        \/ /\ monitor'[t].pc = "finalize" /\ process'[t] = "dead"
           /\ monitor'[t].verdict \in TerminalStatus
        \/ monitor'[t].pc = "cleanup" /\ record'[t].status # "running"

LEMMA TaskKept ==
  ASSUME NEW t \in Task, TaskSound(t), live' = live,
         RecordKept(t), ProcessKept(t), MonitorMoves(t)
  PROVE  TaskSound(t)'
BY DEF TaskSound, RecordKept, ProcessKept, MonitorMoves

LEMMA ClientKept ==
  ASSUME NEW c \in Client, NEW t \in Task, ClientSound(c, t), ProcessKept(t),
         client'[c] = client[c]
  PROVE  ClientSound(c, t)'
BY DEF ClientSound, ProcessKept, ClientAt

LEMMA RecordSame ==
  ASSUME NEW t \in Task, record'[t] = record[t]
  PROVE  RecordKept(t)
BY DEF RecordKept, IsTerminal, IsPresent

LEMMA ProcessSame ==
  ASSUME NEW t \in Task, process'[t] = process[t]
  PROVE  ProcessKept(t)
BY DEF ProcessKept, Alive

\* Retention keeps what is running or has a runtime.
LEMMA PruneKeeps ==
  ASSUME record \in [Task -> Record], NEW W, NEW P, NEW t \in Task,
         record' = Pruned(record, live', W, P)
  PROVE  RecordKept(t)
<1>1. record[t] \in Record
  OBVIOUS
<1>2. CASE record'[t] = record[t]
  BY <1>2, RecordSame
<1>3. CASE record'[t] = NoRecord /\ IsTerminal(record[t]) /\ t \notin live'
  BY <1>1, <1>3, NoRecordType, StatusCases DEF RecordKept
<1> QED
  BY <1>2, <1>3, PrunedRemoves

LEMMA PublishKeeps ==
  ASSUME TypeOK, NEW s \in Task, NEW t \in Task, Publish(s), live' = live
  PROVE  RecordKept(t)
BY PruneKeeps DEF Publish, TypeOK

LEMMA UnpinKeeps ==
  ASSUME TypeOK, NEW s \in Task, NEW t \in Task, Unpin(s), live' = live
  PROVE  RecordKept(t)
BY PruneKeeps DEF Unpin, TypeOK

LEMMA DoubtKeeps ==
  ASSUME TypeOK, NEW s \in Task, NEW t \in Task, RaiseDoubt(s)
  PROVE  RecordKept(t)
<1>1. record'[t].status = record[t].status
  BY DEF RaiseDoubt, TypeOK, Record
<1> QED
  BY <1>1 DEF RecordKept, IsTerminal, IsPresent

\* A kill whose effect is not confirmed leaves the child as it was, dying.
LEMMA KillKeeps ==
  ASSUME TypeOK, NEW s \in Task, NEW t \in Task, KillConfirmed(s) \/ KillUnconfirmed(s)
  PROVE  ProcessKept(t) /\ (KillConfirmed(s) => process'[s] = "dead")
BY DEF KillConfirmed, KillUnconfirmed, TypeOK, ProcessKept, Alive, Executing

(* The verdict of a running task is given only after its child has died:   *)
(* the task stays sound, whoever gives the verdict.                        *)
LEMMA ConcludeOther ==
  ASSUME TypeOK, NEW s \in Task, NEW t \in Task, NEW v,
         Conclude(s, v) \/ AlreadyConcluded(s), s # t \/ AlreadyConcluded(s)
  PROVE  RecordKept(t)
<1>1. record'[t] = record[t]
  BY DEF Conclude, AlreadyConcluded, TypeOK
<1> QED
  BY <1>1, RecordSame

LEMMA ConcludeSelf ==
  ASSUME TypeOK, NEW s \in Task, NEW v \in TerminalStatus, Conclude(s, v)
  PROVE  IsTerminal(record'[s]) /\ IsPresent(record'[s]) /\ record'[s].status # "running"
<1>1. record'[s].status = v
  BY ConcludedType DEF Conclude, TypeOK, Status
<1> QED
  BY <1>1 DEF IsTerminal, IsPresent, TerminalStatus

(* A step of a monitor keeps the invariant.                                *)
LEMMA MonitorSafety ==
  ASSUME SafetyInv, TypeOK', NEW s \in Task, MonitorStep(s)
  PROVE  SafetyInv'
<1>0. TypeOK /\ TaskSound(s)
  BY SafetyPerTask
<1>C. client' = client
  BY DEF MonitorStep, MonitorLoop, MonitorStop, MonitorTimeout, MonitorKill, MonitorDoubt,
     MonitorPoll, MonitorAlive, MonitorDrain, MonitorDecide, MonitorFinalize,
     MonitorPublish, MonitorCleanup, threadVars
<1>K. SUFFICES ASSUME NEW t \in Task PROVE ProcessKept(t) /\ TaskSound(t)'
  BY <1>C, ClientKept, SafetyPerTask, SafetyPerTaskNext
<1>T. TaskSound(t)
  BY SafetyPerTask
<1>D. process[s] # "none" /\ ~Alive(s) => process[s] = "dead"
  BY <1>0 DEF Alive, TypeOK, ProcessState, Executing
<1>M. monitor[s] \in Monitor /\ (monitor[s].pc # "none" => process[s] # "none")
  BY <1>0 DEF TypeOK, TaskSound
<1>1. CASE MonitorLoop(s)
  <2>1. ProcessKept(t) /\ RecordKept(t) /\ live' = live
    BY <1>1, ProcessSame, RecordSame DEF MonitorLoop, tableVars, childVars, runVars
  <2>2. intent[s] = "none" \/ intent[s] \in TerminalStatus
    BY <1>0 DEF TypeOK, Intent, TerminalStatus
  <2>3. s \notin live \/ IsTerminal(record[s]) => record'[s].status # "running"
    BY <1>0, <1>1 DEF TaskSound, MonitorLoop, tableVars, IsTerminal, TerminalStatus
  <2>4. MonitorMoves(t)
    BY <1>0, <1>1, <2>2, <2>3 DEF MonitorLoop, MonitorAt, MonitorMoves, TypeOK, Monitor
  <2> QED
    BY <1>T, <2>1, <2>4, TaskKept
<1>2. CASE MonitorStop(s)
  <2>1. ProcessKept(t) /\ RecordKept(t) /\ live' = live /\ process' = process
    BY <1>2, ProcessSame, RecordSame DEF MonitorStop, tableVars
  <2>2. monitor[s].verdict \in TerminalStatus
    BY <1>0, <1>2 DEF MonitorStop, MonitorAt, TaskSound
  <2>3. MonitorMoves(t)
    BY <1>0, <1>2, <1>D, <1>M, <2>1, <2>2
    DEF MonitorStop, MonitorAt, MonitorMoves, TypeOK, Monitor
  <2> QED
    BY <1>T, <2>1, <2>3, TaskKept
<1>3. CASE MonitorTimeout(s)
  <2>1. ProcessKept(t) /\ RecordKept(t) /\ live' = live
    BY <1>3, ProcessSame, RecordSame DEF MonitorTimeout, tableVars, childVars
  <2>2. MonitorMoves(t)
    BY <1>0, <1>3 DEF MonitorTimeout, MonitorGoto, MonitorAt, MonitorMoves, TypeOK, Monitor
  <2> QED
    BY <1>T, <2>1, <2>2, TaskKept
<1>4. CASE MonitorKill(s)
  <2>1. RecordKept(t) /\ live' = live
    BY <1>4, RecordSame DEF MonitorKill, tableVars, runVars
  <2>2. ProcessKept(t) /\ (KillConfirmed(s) => process'[s] = "dead")
    BY <1>0, <1>4, KillKeeps DEF MonitorKill
  <2>3. MonitorMoves(t)
    BY <1>0, <1>4, <2>2
    DEF MonitorKill, MonitorGoto, MonitorAt, MonitorMoves, TypeOK, Monitor, TerminalStatus
  <2> QED
    BY <1>T, <2>1, <2>2, <2>3, TaskKept
<1>5. CASE MonitorDoubt(s)
  <2>1. ProcessKept(t) /\ RecordKept(t) /\ live' = live
    BY <1>0, <1>5, ProcessSame, DoubtKeeps DEF MonitorDoubt, runVars, childVars
  <2>2. MonitorMoves(t)
    BY <1>0, <1>5 DEF MonitorDoubt, MonitorGoto, MonitorAt, MonitorMoves, TypeOK, Monitor
  <2> QED
    BY <1>T, <2>1, <2>2, TaskKept
<1>6. CASE MonitorPoll(s)
  <2>1. ProcessKept(t) /\ RecordKept(t) /\ live' = live
    BY <1>6, ProcessSame, RecordSame DEF MonitorPoll, tableVars
  <2>2. MonitorMoves(t)
    BY <1>0, <1>6 DEF MonitorPoll, MonitorGoto, MonitorAt, MonitorMoves, TypeOK, Monitor
  <2> QED
    BY <1>T, <2>1, <2>2, TaskKept
<1>7. CASE MonitorAlive(s)
  <2>1. ProcessKept(t) /\ RecordKept(t) /\ live' = live /\ process' = process
    BY <1>7, ProcessSame, RecordSame DEF MonitorAlive, tableVars, runVars, childVars
  <2>2. MonitorMoves(t)
    BY <1>0, <1>7, <1>D, <1>M, <2>1
    DEF MonitorAlive, MonitorGoto, MonitorAt, MonitorMoves, TypeOK, Monitor
  <2> QED
    BY <1>T, <2>1, <2>2, TaskKept
<1>8. CASE MonitorDrain(s)
  <2>1. ProcessKept(t) /\ RecordKept(t) /\ live' = live /\ monitor' = monitor
    BY <1>8, ProcessSame, RecordSame DEF MonitorDrain, tableVars, threadVars
  <2> QED
    BY <1>T, <2>1, TaskKept DEF MonitorMoves
<1>9. CASE MonitorDecide(s)
  <2>1. ProcessKept(t) /\ RecordKept(t) /\ live' = live /\ process' = process
    BY <1>9, ProcessSame, RecordSame DEF MonitorDecide, tableVars, runVars, childVars
  <2>2. intent[s] = "none" \/ intent[s] \in TerminalStatus
    BY <1>0 DEF TypeOK, Intent, TerminalStatus
  <2>3. EventVerdict(pending[s]) \in TerminalStatus
    BY DEF EventVerdict, TerminalStatus
  <2>4. IsTerminal(record[s]) => record'[s].status # "running"
    BY <1>9 DEF MonitorDecide, tableVars, IsTerminal, TerminalStatus
  <2>5. process[s] = "dead"
    BY <1>0, <1>9 DEF MonitorDecide, MonitorAt, TaskSound
  <2>6. MonitorMoves(t)
    BY <1>0, <1>9, <2>1, <2>2, <2>3, <2>4, <2>5
    DEF MonitorDecide, MonitorAt, MonitorMoves, TypeOK, Monitor
  <2> QED
    BY <1>T, <2>1, <2>6, TaskKept
<1>10. CASE MonitorFinalize(s)
  <2>1. ProcessKept(t) /\ live' = live /\ process' = process
    BY <1>10, ProcessSame DEF MonitorFinalize, runVars, childVars
  <2>2. monitor[s].verdict \in TerminalStatus /\ process[s] = "dead"
    BY <1>0, <1>10 DEF MonitorFinalize, MonitorAt, TaskSound
  <2>3. CASE s # t \/ AlreadyConcluded(s)
    <3>1. RecordKept(t)
      BY <1>0, <1>10, <2>3, ConcludeOther DEF MonitorFinalize
    <3>2. MonitorMoves(t)
      BY <1>0, <1>10, <1>M, <2>3
      DEF MonitorFinalize, MonitorGoto, MonitorAt, MonitorMoves, TypeOK, Monitor,
          AlreadyConcluded, Conclude
    <3> QED
      BY <1>T, <2>1, <3>1, <3>2, TaskKept
  <2>4. CASE s = t /\ Conclude(s, monitor[s].verdict)
    <3>1. IsTerminal(record'[s]) /\ IsPresent(record'[s]) /\ record'[s].status # "running"
      BY <1>0, <2>2, <2>4, ConcludeSelf
    <3>2. monitor'[s].pc = "publish"
      BY <1>0, <1>10, <2>4
      DEF MonitorFinalize, MonitorGoto, TypeOK, Monitor, Conclude, AlreadyConcluded
    <3>3. ~Alive(s)'
      BY <2>1, <2>2 DEF Alive, Executing
    <3> QED
      BY <2>1, <2>2, <2>4, <3>1, <3>2, <3>3 DEF TaskSound
  <2> QED
    BY <1>10, <2>3, <2>4 DEF MonitorFinalize
<1>11. CASE MonitorPublish(s)
  <2>1. ProcessKept(t) /\ RecordKept(t) /\ live' = live
    BY <1>0, <1>11, ProcessSame, PublishKeeps DEF MonitorPublish, runVars, childVars
  <2>2. record'[s].status # "running"
    <3>1. RecordKept(s)
      BY <1>0, <1>11, PublishKeeps DEF MonitorPublish, runVars
    <3> QED
      BY <1>0, <1>11, <3>1 DEF MonitorPublish, MonitorAt, TaskSound, RecordKept
  <2>3. MonitorMoves(t)
    BY <1>0, <1>11, <1>M, <2>2
    DEF MonitorPublish, MonitorGoto, MonitorAt, MonitorMoves, TypeOK, Monitor
  <2> QED
    BY <1>T, <2>1, <2>3, TaskKept
<1>12. CASE MonitorCleanup(s)
  <2>1. ProcessKept(t) /\ process' = process
    BY <1>12, ProcessSame DEF MonitorCleanup
  <2>2. RecordKept(t) /\ RecordKept(s)
    BY <1>0, <1>12, RecordSame, PruneKeeps DEF MonitorCleanup, runVars, TypeOK
  <2>3. record[s].status # "running" /\ ~Alive(s)
    <3>1. record[s].status # "running" /\ (Alive(s) => IsPresent(record[s]))
      BY <1>0, <1>12 DEF MonitorCleanup, MonitorAt, TaskSound
    <3>2. IsTerminal(record[s]) => ~Alive(s)
      BY <1>0 DEF TaskSound, Alive, Executing
    <3> QED
      BY <1>0, <3>1, <3>2, StatusCases DEF TypeOK
  <2>4. live' = live \ {s}
    BY <1>12, <2>3 DEF MonitorCleanup
  <2>5. CASE s = t
    <3>1. monitor'[t].pc = "done"
      BY <1>0, <1>12, <2>5 DEF MonitorCleanup, TypeOK, NoMonitor
    <3>2. t \notin live' /\ record'[t].status # "running" /\ ~Alive(t)'
      BY <2>1, <2>2, <2>3, <2>4, <2>5 DEF RecordKept, ProcessKept
    <3>3. process'[t] # "none" /\ (IsTerminal(record'[t]) => process'[t] = "dead")
      BY <1>0, <1>M, <1>12, <2>1, <2>2, <2>5 DEF RecordKept, MonitorCleanup, MonitorAt, TaskSound
    <3> QED
      BY <2>1, <3>1, <3>2, <3>3 DEF TaskSound
  <2>6. CASE s # t
    <3>1. monitor'[t] = monitor[t] /\ (t \in live' <=> t \in live)
      BY <1>0, <1>12, <2>4, <2>6 DEF MonitorCleanup, TypeOK
    <3>2. Alive(t)' <=> Alive(t)
      BY <2>1 DEF Alive
    <3> QED
      BY <1>T, <2>1, <2>2, <3>1, <3>2 DEF TaskSound, RecordKept
  <2> QED
    BY <2>1, <2>5, <2>6
<1> QED
  BY <1>1, <1>2, <1>3, <1>4, <1>5, <1>6, <1>7, <1>8, <1>9, <1>10, <1>11, <1>12 DEF MonitorStep

\* How a client may move between its calls' steps.
ClientMoves(c, t) ==
  \/ client'[c] = client[c]
  \/ client'[c].pc \notin {"kill", "finalize", "publish"}
  \/ ~(client'[c].task = {t})
  \/ /\ client'[c].pc = "kill" => process'[t] # "none"
     /\ client'[c].pc \in {"kill", "finalize"} => client'[c].verdict \in TerminalStatus
     /\ client'[c].pc \in {"finalize", "publish"} => process'[t] = "dead"

LEMMA ClientMoved ==
  ASSUME NEW c \in Client, NEW t \in Task, ClientSound(c, t), ProcessKept(t),
         ClientMoves(c, t)
  PROVE  ClientSound(c, t)'
BY DEF ClientSound, ProcessKept, ClientAt, ClientMoves

LEMMA ClientGotoFields ==
  ASSUME TypeOK, NEW c \in Client, NEW d \in Client, NEW pc, ClientGoto(c, pc)
  PROVE  /\ d # c => client'[d] = client[d]
         /\ client'[c].pc = pc
         /\ client'[c].task = client[c].task /\ client'[c].verdict = client[c].verdict
BY DEF ClientGoto, TypeOK, ClientState

(* A step of a call of a client keeps the invariant.                       *)
LEMMA ClientSafety ==
  ASSUME SafetyInv, TypeOK', NEW c \in Client, NEW s \in Task,
         \/ WaitBegin(c, s) \/ WaitTerminal(c, s) \/ CancelBegin(c, s)
         \/ ClientContinue(c, s)
  PROVE  SafetyInv'
<1>0. TypeOK /\ TaskSound(s) /\ ClientSound(c, s)
  BY SafetyPerTask
<1>M. monitor' = monitor /\ live' = live
  BY DEF WaitBegin, WaitTerminal, CancelBegin, ClientContinue, WaitEnd, CancelKill,
     CancelDoubt, CancelFinalize, CancelPublish, CancelReturn, ShutdownSkip,
     runVars, threadVars
<1>K. SUFFICES ASSUME NEW t \in Task, NEW d \in Client
               PROVE  TaskSound(t)' /\ ProcessKept(t) /\ ClientMoves(d, t)
  BY ClientMoved, SafetyPerTask, SafetyPerTaskNext
<1>T. TaskSound(t) /\ ClientSound(d, t)
  BY SafetyPerTask
\* All but the step that gives the verdict keep the record as it is.
<1>S. ASSUME RecordKept(t), ProcessKept(t) PROVE TaskSound(t)'
  BY <1>S, <1>M, <1>T, TaskKept DEF MonitorMoves
<1>1. CASE WaitBegin(c, s)
  <2>1. RecordKept(t) /\ ProcessKept(t)
    BY <1>1, RecordSame, ProcessSame DEF WaitBegin, childVars
  <2>2. ClientMoves(d, t)
    BY <1>0, <1>1 DEF WaitBegin, ClientMoves, TypeOK, ClientState
  <2> QED
    BY <1>S, <2>1, <2>2
<1>2. CASE WaitTerminal(c, s)
  <2>1. RecordKept(t) /\ ProcessKept(t)
    BY <1>0, <1>2, <1>M, PruneKeeps, ProcessSame DEF WaitTerminal, childVars, TypeOK
  <2> QED
    BY <1>2, <1>S, <2>1 DEF WaitTerminal, threadVars, ClientMoves
<1>3. CASE CancelBegin(c, s)
  <2>1. RecordKept(t) /\ ProcessKept(t)
    BY <1>3, RecordSame, ProcessSame DEF CancelBegin, childVars
  <2>2. \A v \in Intent \ {"none"} : v \in TerminalStatus
    BY DEF Intent, TerminalStatus
  <2>3. intent[s] \in Intent /\ "cancelled" \in Intent \ {"none"}
    BY <1>0 DEF TypeOK, Intent
  <2>4. ClientMoves(d, t)
    <3>1. CASE d # c
      BY <1>0, <1>3, <3>1 DEF CancelBegin, ClientMoves, TypeOK
    <3>2. CASE d = c
      <4>1. /\ client'[c].pc = "kill" /\ client'[c].task = {s}
            /\ client'[c].verdict \in TerminalStatus
        BY <1>0, <1>3, <2>2, <2>3 DEF CancelBegin, TypeOK
      <4>2. process'[s] # "none"
        BY <1>0, <1>3 DEF CancelBegin, TaskSound, childVars
      <4> QED
        BY <3>2, <4>1, <4>2 DEF ClientMoves
    <3> QED
      BY <3>1, <3>2
  <2> QED
    BY <1>S, <2>1, <2>4
<1>4. CASE WaitEnd(c, s)
  <2>1. RecordKept(t) /\ ProcessKept(t)
    BY <1>0, <1>4, <1>M, UnpinKeeps, ProcessSame DEF WaitEnd, childVars
  <2>2. ClientMoves(d, t)
    BY <1>0, <1>4 DEF WaitEnd, ClientMoves, TypeOK, Idle
  <2> QED
    BY <1>S, <2>1, <2>2
<1>5. CASE CancelKill(c, s)
  <2>1. RecordKept(t) /\ ProcessKept(t) /\ (KillConfirmed(s) => process'[s] = "dead")
    BY <1>0, <1>5, KillKeeps, RecordSame DEF CancelKill, tableVars
  <2>2. client[c].verdict \in TerminalStatus /\ client[c].task = {s}
    BY <1>0, <1>5 DEF CancelKill, ClientSound, ClientAt
  <2>3. ClientMoves(d, t)
    BY <1>0, <1>5, <2>1, <2>2, ClientGotoFields DEF CancelKill, ClientMoves
  <2> QED
    BY <1>S, <2>1, <2>3
<1>6. CASE CancelDoubt(c, s)
  <2>1. RecordKept(t) /\ ProcessKept(t)
    BY <1>0, <1>6, DoubtKeeps, ProcessSame DEF CancelDoubt, childVars
  <2>2. ClientMoves(d, t)
    BY <1>0, <1>6 DEF CancelDoubt, ClientGoto, ClientMoves, TypeOK, ClientState
  <2> QED
    BY <1>S, <2>1, <2>2
<1>7. CASE CancelFinalize(c, s)
  <2>1. ProcessKept(t) /\ process' = process
    BY <1>7, ProcessSame DEF CancelFinalize, childVars
  <2>2. client[c].verdict \in TerminalStatus /\ process[s] = "dead" /\ client[c].task = {s}
    BY <1>0, <1>7 DEF CancelFinalize, ClientSound, ClientAt
  <2>3. ClientMoves(d, t)
    BY <1>0, <1>7, <2>1, <2>2, ClientGotoFields DEF CancelFinalize, ClientMoves
  <2>4. TaskSound(t)'
    <3>1. CASE s # t \/ AlreadyConcluded(s)
      BY <1>0, <1>7, <1>S, <2>1, <3>1, ConcludeOther DEF CancelFinalize
    <3>2. CASE s = t /\ Conclude(s, client[c].verdict)
      <4>1. IsTerminal(record'[s]) /\ IsPresent(record'[s]) /\ record'[s].status # "running"
        BY <1>0, <2>2, <3>2, ConcludeSelf
      <4>2. Alive(t)' <=> Alive(t)
        BY <2>1 DEF Alive
      <4> QED
        BY <1>M, <1>T, <2>1, <2>2, <3>2, <4>1, <4>2 DEF TaskSound
    <3> QED
      BY <1>7, <3>1, <3>2 DEF CancelFinalize
  <2> QED
    BY <2>1, <2>3, <2>4
<1>8. CASE CancelPublish(c, s)
  <2>1. RecordKept(t) /\ ProcessKept(t)
    BY <1>0, <1>8, <1>M, PublishKeeps, ProcessSame DEF CancelPublish, childVars
  <2>2. ClientMoves(d, t)
    BY <1>0, <1>8 DEF CancelPublish, ClientGoto, ClientMoves, TypeOK, ClientState
  <2> QED
    BY <1>S, <2>1, <2>2
<1>9. CASE CancelReturn(c, s)
  <2>1. RecordKept(t) /\ ProcessKept(t)
    BY <1>0, <1>9, <1>M, UnpinKeeps, ProcessSame DEF CancelReturn, childVars
  <2>2. ClientMoves(d, t)
    BY <1>0, <1>9 DEF CancelReturn, ClientMoves, TypeOK, Idle
  <2> QED
    BY <1>S, <2>1, <2>2
<1>10. CASE ShutdownSkip(c, s)
  <2>1. RecordKept(t) /\ ProcessKept(t)
    BY <1>10, RecordSame, ProcessSame DEF ShutdownSkip, tableVars, childVars
  <2>2. ClientMoves(d, t)
    BY <1>0, <1>10 DEF ShutdownSkip, ClientMoves, TypeOK, ClientState
  <2> QED
    BY <1>S, <2>1, <2>2
<1> QED
  BY <1>1, <1>2, <1>3, <1>4, <1>5, <1>6, <1>7, <1>8, <1>9, <1>10 DEF ClientContinue

LEMMA NextSafety == SafetyInv /\ [Next]_vars => SafetyInv'
<1> SUFFICES ASSUME SafetyInv, [Next]_vars PROVE SafetyInv'
  OBVIOUS
<1>0. TypeOK /\ TypeOK'
  BY NextType DEF SafetyInv
<1>K. ASSUME live' = live,
             \A t \in Task : RecordKept(t) /\ ProcessKept(t),
             \A c \in Client, t \in Task : ClientMoves(c, t),
             monitor' = monitor
      PROVE  SafetyInv'
  BY <1>0, <1>K, TaskKept, ClientMoved, SafetyPerTask, SafetyPerTaskNext DEF MonitorMoves
<1>1. ASSUME NEW c \in Client, NEW s \in Task, Submit(c, s) PROVE SafetyInv'
  <2>1. RunningRecord(clock).status = "running" /\ IsPresent(RunningRecord(clock))
        /\ ~IsTerminal(RunningRecord(clock))
    BY <1>0, RunningRecordType, StatusCases DEF TypeOK, IsPresent
  <2>2. ASSUME NEW t \in Task PROVE TaskSound(t)'
    <3>1. TaskSound(t)
      BY SafetyPerTask
    <3>2. CASE s = t
      BY <1>0, <1>1, <2>1, <3>2
      DEF Submit, MonitorGoto, TypeOK, Monitor, TaskSound
    <3>3. CASE s # t
      <4>1. RecordKept(t) /\ ProcessKept(t) /\ monitor'[t] = monitor[t]
            /\ (t \in live' <=> t \in live)
        BY <1>0, <1>1, <3>3, RecordSame, ProcessSame DEF Submit, MonitorGoto, TypeOK
      <4> QED
        BY <3>1, <4>1 DEF TaskSound, RecordKept, ProcessKept
    <3> QED
      BY <3>2, <3>3
  <2>3. ASSUME NEW d \in Client, NEW t \in Task PROVE ClientSound(d, t)'
    <3>1. ClientSound(d, t)
      BY SafetyPerTask
    <3> QED
      BY <1>0, <1>1, <3>1 DEF Submit, ClientSound, ClientAt, TypeOK
  <2> QED
    BY <1>0, <2>2, <2>3, SafetyPerTaskNext
<1>2. ASSUME NEW s \in Task, ChildStep(s) \/ DeadlinePasses(s) PROVE SafetyInv'
  <2>1. live' = live /\ record' = record /\ monitor' = monitor /\ client' = client
    BY <1>2 DEF ChildStep, ChildFinish, ChildExit, ChildDie, DeadlinePasses, tableVars,
       runVars, threadVars
  <2>2. ASSUME NEW t \in Task PROVE ProcessKept(t)
    <3>1. CASE DeadlinePasses(s)
      BY <3>1, ProcessSame DEF DeadlinePasses
    <3>2. CASE ChildStep(s)
      BY <1>0, <3>2 DEF ChildStep, ChildFinish, ChildExit, ChildDie, ProcessKept, Alive,
         Executing, TypeOK
    <3> QED
      BY <1>2, <3>1, <3>2
  <2> QED
    BY <1>K, <2>1, <2>2, RecordSame DEF ClientMoves
<1>3. ASSUME NEW s \in Task, MonitorStep(s) PROVE SafetyInv'
  BY <1>0, <1>3, MonitorSafety
<1>4. ASSUME NEW c \in Client, NEW s \in Task,
             \/ WaitBegin(c, s) \/ WaitTerminal(c, s) \/ CancelBegin(c, s)
             \/ ClientContinue(c, s)
      PROVE  SafetyInv'
  BY <1>0, <1>4, ClientSafety
<1>5. ASSUME NEW c \in Client, ShutdownBegin(c) \/ ShutdownReturn(c) PROVE SafetyInv'
  <2>1. live' = live /\ record' = record /\ monitor' = monitor /\ process' = process
    BY <1>5 DEF ShutdownBegin, ShutdownReturn, tableVars, runVars, childVars
  <2>2. ASSUME NEW d \in Client, NEW t \in Task PROVE ClientMoves(d, t)
    <3>1. CASE ShutdownBegin(c)
      BY <1>0, <3>1 DEF ShutdownBegin, ClientMoves, TypeOK, Idle
    <3>2. CASE ShutdownReturn(c)
      BY <1>0, <3>2, ClientGotoFields DEF ShutdownReturn, ClientMoves
    <3> QED
      BY <1>5, <3>1, <3>2
  <2> QED
    BY <1>K, <2>1, <2>2, RecordSame, ProcessSame
<1>6. CASE UNCHANGED vars
  BY <1>6, <1>K, RecordSame, ProcessSame
  DEF vars, tableVars, runVars, childVars, threadVars, ClientMoves
<1> QED
  BY <1>1, <1>2, <1>3, <1>4, <1>5, <1>6 DEF Next

(* In every reachable state verdicts follow deaths and nothing is orphaned. *)
THEOREM Safety == Spec => []SafetyInv
<1>1. Init => SafetyInv
  BY InitSafety
<1>2. SafetyInv /\ [Next]_vars => SafetyInv'
  BY NextSafety
<1> QED
  BY <1>1, <1>2, PTL DEF Spec

(* A task is reported as ended only when its child process is dead.        *)
THEOREM DeadBeforeVerdict == Spec => []ConfirmedDead
<1>1. SafetyInv => ConfirmedDead
  BY DEF SafetyInv
<1> QED
  BY <1>1, Safety, PTL

(* No task runs without its runtime and its monitor.                       *)
THEOREM NoOrphan == Spec => []RunningHasRuntime
<1>1. SafetyInv => RunningHasRuntime
  BY DEF SafetyInv
<1> QED
  BY <1>1, Safety, PTL

(* Threads know what they have seen when they give a verdict.              *)
THEOREM VerdictsSeen == Spec => []ThreadsSound
<1>1. SafetyInv => ThreadsSound
  BY DEF SafetyInv
<1> QED
  BY <1>1, Safety, PTL

-----------------------------------------------------------------------------
(* What a step may do, from the invariant: an action property holds when   *)
(* every step from a state of the invariant has it.                        *)
Final(t) == IsTerminal(record[t]) => record'[t] \in {record[t], NoRecord}

LEMMA PruneFinal ==
  ASSUME NEW L, NEW W, NEW P, NEW t \in Task, record' = Pruned(record, L, W, P)
  PROVE  Final(t)
BY PrunedRemoves DEF Final

LEMMA ConcludeFinal ==
  ASSUME TypeOK, NEW s \in Task, NEW t \in Task, NEW v,
         Conclude(s, v) \/ AlreadyConcluded(s)
  PROVE  Final(t)
BY DEF Conclude, AlreadyConcluded, TypeOK, Final, IsTerminal, TerminalStatus

LEMMA DoubtFinal ==
  ASSUME TypeOK, NEW s \in Task, NEW t \in Task, RaiseDoubt(s)
  PROVE  Final(t)
BY DEF RaiseDoubt, TypeOK, Final, IsTerminal, TerminalStatus

(* A verdict is final, in every step: a terminal record is dropped or stays *)
(* what it is.                                                              *)
THEOREM VerdictsFinal == Spec => VerdictFinal
<1>1. ASSUME SafetyInv, Next, NEW t \in Task PROVE Final(t)
  <2>0. TypeOK
    BY <1>1 DEF SafetyInv
  <2>1. ASSUME NEW c \in Client, NEW s \in Task, Submit(c, s) PROVE Final(t)
    <3>1. TaskSound(s)
      BY <1>1, SafetyPerTask
    <3>2. ~IsTerminal(record[s])
      BY <2>1, <3>1 DEF Submit, TaskSound
    <3> QED
      BY <2>0, <2>1, <3>2 DEF Submit, TypeOK, Final
  <2>2. ASSUME NEW s \in Task, ChildStep(s) \/ DeadlinePasses(s) PROVE Final(t)
    BY <2>2 DEF ChildStep, ChildFinish, ChildExit, ChildDie, DeadlinePasses, tableVars, Final
  <2>3. ASSUME NEW s \in Task, MonitorStep(s) PROVE Final(t)
    <3>1. CASE MonitorFinalize(s)
      BY <2>0, <3>1, ConcludeFinal DEF MonitorFinalize
    <3>2. CASE MonitorDoubt(s)
      BY <2>0, <3>2, DoubtFinal DEF MonitorDoubt
    <3>3. CASE MonitorPublish(s)
      BY <3>3, PruneFinal DEF MonitorPublish, Publish
    <3>4. CASE MonitorCleanup(s)
      BY <3>4, PruneFinal DEF MonitorCleanup, Final
    <3>5. CASE record' = record
      BY <3>5 DEF Final
    <3> QED
      BY <2>3, <3>1, <3>2, <3>3, <3>4, <3>5
      DEF MonitorStep, MonitorLoop, MonitorStop, MonitorTimeout, MonitorKill,
          MonitorPoll, MonitorAlive, MonitorDrain, MonitorDecide, tableVars
  <2>4. ASSUME NEW c \in Client, NEW s \in Task,
               \/ WaitBegin(c, s) \/ WaitTerminal(c, s) \/ CancelBegin(c, s)
               \/ ClientContinue(c, s)
        PROVE  Final(t)
    <3>1. CASE CancelFinalize(c, s)
      BY <2>0, <3>1, ConcludeFinal DEF CancelFinalize
    <3>2. CASE CancelDoubt(c, s)
      BY <2>0, <3>2, DoubtFinal DEF CancelDoubt
    <3>3. CASE CancelPublish(c, s) \/ WaitEnd(c, s) \/ CancelReturn(c, s) \/ WaitTerminal(c, s)
      BY <3>3, PruneFinal DEF CancelPublish, Publish, WaitEnd, CancelReturn, Unpin, WaitTerminal
    <3>4. CASE record' = record
      BY <3>4 DEF Final
    <3> QED
      BY <2>4, <3>1, <3>2, <3>3, <3>4
      DEF WaitBegin, CancelBegin, ClientContinue, CancelKill, ShutdownSkip, tableVars
  <2>5. ASSUME NEW c \in Client, ShutdownBegin(c) \/ ShutdownReturn(c) PROVE Final(t)
    BY <2>5 DEF ShutdownBegin, ShutdownReturn, tableVars, Final
  <2> QED
    BY <1>1, <2>1, <2>2, <2>3, <2>4, <2>5 DEF Next
<1>2. SafetyInv /\ [Next]_vars =>
        [\A t \in Task : IsTerminal(record[t]) => record'[t] \in {record[t], NoRecord}]_vars
  BY <1>1 DEF Final
<1> QED
  BY <1>2, Safety, PTL DEF Spec, VerdictFinal

(* A role whose worker was told to stop gets no second worker while the     *)
(* first may be alive: only submit starts a process, and it looks first.    *)
THEOREM NoRoleReuse == Spec => RoleNotReused
<1>1. ASSUME SafetyInv, Next, NEW t \in Task, NEW r \in Task,
             process[t] = "none", process'[t] # "none",
             RoleOf[r] = RoleOf[t], Alive(r)
      PROVE  intent[r] = "none"
  <2>0. TypeOK /\ TaskSound(t) /\ TaskSound(r)
    BY <1>1, SafetyPerTask DEF SafetyInv
  <2>1. ASSUME NEW c \in Client, NEW s \in Task, Submit(c, s) PROVE intent[r] = "none"
    <3>1. s = t
      BY <1>1, <2>0, <2>1 DEF Submit, TypeOK
    <3>2. r \in live /\ ~IsTerminal(record[r])
      BY <1>1, <2>0 DEF TaskSound, Alive, Executing
    <3> QED
      BY <1>1, <2>1, <3>1, <3>2 DEF Submit, RoleAvailable
  <2>2. ASSUME NEW s \in Task, ChildStep(s) \/ DeadlinePasses(s) PROVE FALSE
    BY <1>1, <2>0, <2>2 DEF ChildStep, ChildFinish, ChildExit, ChildDie, DeadlinePasses,
       TypeOK, Executing
  <2>3. ASSUME NEW s \in Task, MonitorStep(s) PROVE FALSE
    <3>1. CASE MonitorKill(s)
      <4>1. process[s] # "none"
        BY <1>1, <3>1, SafetyPerTask DEF MonitorKill, MonitorAt, TaskSound
      <4> QED
        BY <1>1, <2>0, <3>1, <4>1 DEF MonitorKill, KillConfirmed, KillUnconfirmed, TypeOK
    <3>2. CASE process' = process
      BY <1>1, <3>2
    <3> QED
      BY <2>3, <3>1, <3>2
      DEF MonitorStep, MonitorLoop, MonitorStop, MonitorTimeout, MonitorDoubt,
          MonitorPoll, MonitorAlive, MonitorDrain, MonitorDecide, MonitorFinalize,
          MonitorPublish, MonitorCleanup, childVars
  <2>4. ASSUME NEW c \in Client, NEW s \in Task,
               \/ WaitBegin(c, s) \/ WaitTerminal(c, s) \/ CancelBegin(c, s)
               \/ ClientContinue(c, s)
        PROVE  FALSE
    <3>1. CASE CancelKill(c, s)
      <4>1. process[s] # "none"
        BY <1>1, <3>1, SafetyPerTask DEF CancelKill, ClientSound
      <4> QED
        BY <1>1, <2>0, <3>1, <4>1 DEF CancelKill, KillConfirmed, KillUnconfirmed, TypeOK
    <3>2. CASE process' = process
      BY <1>1, <3>2
    <3> QED
      BY <2>4, <3>1, <3>2
      DEF WaitBegin, WaitTerminal, CancelBegin, ClientContinue, WaitEnd, CancelDoubt,
          CancelFinalize, CancelPublish, CancelReturn, ShutdownSkip, childVars
  <2>5. ASSUME NEW c \in Client, ShutdownBegin(c) \/ ShutdownReturn(c) PROVE FALSE
    BY <1>1, <2>5 DEF ShutdownBegin, ShutdownReturn, childVars
  <2> QED
    BY <1>1, <2>1, <2>2, <2>3, <2>4, <2>5 DEF Next
<1>2. SafetyInv /\ [Next]_vars =>
        [\A t \in Task : process[t] = "none" /\ process'[t] # "none" =>
           \A s \in Task : RoleOf[s] = RoleOf[t] /\ Alive(s) => intent[s] = "none"]_vars
  BY <1>1
<1> QED
  BY <1>2, Safety, PTL DEF Spec, RoleNotReused

-----------------------------------------------------------------------------
Claim == {"cancelled", "timeout"}

\* Monitor and table agree on a task: it is announced by the one thread that
\* published it, and a thread that will end it knows why.
TaskAgreed(t) ==
  /\ monitor[t].pc \notin {"none", "done"} => t \in live
  /\ process[t] = "none" \/ record[t].status = "running" =>
       notified[t] = 0 /\ t \notin publications
  /\ process[t] # "none" /\ record[t].status # "running" =>
       notified[t] = IF t \in publications THEN 0 ELSE 1
  /\ monitor[t].pc = "publish" => t \in publications
  /\ record[t].status = "running" =>
       /\ monitor[t].pc \in {"kill", "doubt"} => intent[t] = "timeout"
       /\ monitor[t].pc = "stop" => intent[t] = monitor[t].verdict /\ intent[t] \in Claim
       /\ monitor[t].pc = "finalize" =>
            IF monitor[t].verdict \in Claim THEN intent[t] = monitor[t].verdict
            ELSE monitor[t].back = "cleanup" /\ monitor[t].verdict = EventVerdict(pending[t])
  /\ monitor[t].pc \notin {"none", "publish", "cleanup", "done"} /\ record[t].status # "running" =>
       intent[t] # "none"
  /\ monitor[t].pc = "publish" /\ monitor[t].back = "loop" => intent[t] # "none"

Sweeps(c) == client[c].pc \in {"sweep", "stopped"} \/ client[c].sweeping

\* What a client knows of the task it cancels or publishes, and what a shutdown
\* has left to stop.
ClientAgreed(c, t) ==
  /\ record[t].status = "running" /\ (\E pc \in {"kill", "doubt", "finalize"} : ClientAt(c, t, pc)) =>
       intent[t] = client[c].verdict /\ intent[t] \in Claim
  /\ ClientAt(c, t, "publish") =>
       /\ t \in publications
       /\ monitor[t].pc # "publish"
       /\ \A d \in Client : ClientAt(d, t, "publish") => d = c
  /\ ClientAt(c, t, "doubt") => process[t] \in {"dying", "dead"}
  /\ Sweeps(c) /\ Alive(t) =>
       \/ process[t] = "dying" /\ record[t].doubt
       \/ client[c].pc # "stopped" /\ t \in client[c].todo
       \/ ClientAt(c, t, "kill") \/ ClientAt(c, t, "doubt")

\* A caller pins at most the one task it works on.
PinsCounted ==
  /\ \A c \in Client : client[c].pc \in {"idle", "sweep", "stopped"} => client[c].task = {}
  /\ \A t \in Task : waiters[t] = Cardinality({c \in Client : client[c].task = {t}})

ProtocolInv ==
  /\ \A t \in Task : TaskAgreed(t)
  /\ \A c \in Client, t \in Task : ClientAgreed(c, t)
  /\ \A c \in Client : Sweeps(c) => closed
  /\ PinsCounted

-----------------------------------------------------------------------------
LEMMA MonitorStepFields ==
  ASSUME TypeOK, NEW s \in Task, NEW t \in Task, NEW pc, MonitorGoto(s, pc)
  PROVE  /\ t # s => monitor'[t] = monitor[t]
         /\ monitor'[s].pc = pc
         /\ monitor'[s].verdict = monitor[s].verdict /\ monitor'[s].back = monitor[s].back
BY DEF MonitorGoto, TypeOK, Monitor

\* A step that leaves the monitor, the verdict and the announcement of a task alone.
TaskSame(t) ==
  /\ intent'[t] = intent[t] /\ pending'[t] = pending[t] /\ notified'[t] = notified[t]
  /\ monitor'[t] = monitor[t]
  /\ t \in live' <=> t \in live
  /\ t \in publications' <=> t \in publications
  /\ process'[t] = "none" <=> process[t] = "none"
  /\ record'[t].status = "running" <=> record[t].status = "running"

LEMMA SameAgreed ==
  ASSUME NEW t \in Task, TaskAgreed(t), TaskSame(t)
  PROVE  TaskAgreed(t)'
BY DEF TaskAgreed, TaskSame

LEMMA ClaimStatus == Claim \subseteq TerminalStatus /\ Intent \ {"none"} = Claim /\ "none" \notin Claim
BY DEF Claim, Intent, TerminalStatus

LEMMA PruneStatus ==
  ASSUME record \in [Task -> Record], NEW L, NEW W, NEW P, NEW t \in Task, record' = Pruned(record, L, W, P)
  PROVE  /\ record'[t].status = "running" <=> record[t].status = "running"
         /\ record'[t].doubt # record[t].doubt => IsTerminal(record[t])
BY PrunedRemoves, NoRecordType, StatusCases

(* A verdict is announced by the thread that gave it, once.                *)
LEMMA ConcludeAgreed ==
  ASSUME TypeOK, NEW s \in Task, TaskAgreed(s), NEW v \in TerminalStatus, Conclude(s, v), process[s] # "none"
  PROVE  /\ record'[s].status # "running" /\ s \in publications' /\ notified[s] = 0
         /\ s \notin publications
         /\ \A t \in Task : t # s => record'[t] = record[t] /\ (t \in publications' <=> t \in publications)
BY ConcludeSelf DEF Conclude, TaskAgreed, TypeOK

LEMMA PublishAgreed ==
  ASSUME TypeOK, NEW s \in Task, Publish(s)
  PROVE  /\ s \notin publications' /\ notified'[s] = notified[s] + 1
         /\ \A t \in Task : record'[t].status = "running" <=> record[t].status = "running"
         /\ \A t \in Task : t # s => notified'[t] = notified[t] /\ (t \in publications' <=> t \in publications)
<1>0. record \in [Task -> Record] /\ record' = Pruned(record, live, waiters, publications')
  BY DEF Publish, TypeOK
<1>1. ASSUME NEW t \in Task PROVE record'[t].status = "running" <=> record[t].status = "running"
  BY <1>0, PruneStatus
<1>2. s \notin publications' /\ notified'[s] = notified[s] + 1
  BY DEF Publish, TypeOK
<1>3. \A t \in Task : t # s => notified'[t] = notified[t] /\ (t \in publications' <=> t \in publications)
  BY DEF Publish, TypeOK
<1> QED
  BY <1>1, <1>2, <1>3

LEMMA MonitorAgreed ==
  ASSUME SafetyInv, NEW s \in Task, TaskAgreed(s), MonitorStep(s)
  PROVE  TaskAgreed(s)'
<1>0. TypeOK /\ TaskSound(s)
  BY SafetyPerTask
<1>M. monitor[s] \in Monitor /\ intent[s] \in Intent
  BY <1>0 DEF TypeOK
<1>1. CASE MonitorLoop(s)
  <2>1. UNCHANGED <<record, publications, notified, live, intent, pending, process>>
    BY <1>1 DEF MonitorLoop, tableVars, runVars, childVars
  <2>2. monitor'[s] = IF s \notin live \/ IsTerminal(record[s]) THEN [monitor[s] EXCEPT !.pc = "cleanup"]
                      ELSE IF intent[s] = "none" THEN [monitor[s] EXCEPT !.pc = "work"]
                      ELSE [monitor[s] EXCEPT !.pc = "stop", !.verdict = intent[s]]
    BY <1>0, <1>1 DEF MonitorLoop, TypeOK
  <2>3. monitor[s].pc = "loop"
    BY <1>1 DEF MonitorLoop, MonitorAt
  <2> QED
    BY <1>M, <2>1, <2>2, <2>3, ClaimStatus DEF TaskAgreed, Monitor
<1>2. CASE MonitorStop(s)
  <2>1. UNCHANGED <<record, publications, notified, live, intent, process>>
    BY <1>2 DEF MonitorStop, tableVars
  <2>2. monitor'[s] = IF Alive(s) THEN [monitor[s] EXCEPT !.pc = "loop"]
                      ELSE [monitor[s] EXCEPT !.pc = "finalize", !.back = "loop"]
    BY <1>0, <1>2 DEF MonitorStop, TypeOK
  <2>3. monitor[s].pc = "stop"
    BY <1>2 DEF MonitorStop, MonitorAt
  <2> QED
    BY <1>M, <2>1, <2>2, <2>3 DEF TaskAgreed, Monitor
<1>3. CASE MonitorTimeout(s)
  <2>1. UNCHANGED <<record, publications, notified, live, pending, process>>
    BY <1>3 DEF MonitorTimeout, tableVars, childVars
  <2>2. \/ monitor'[s].pc = "loop" /\ intent'[s] = intent[s] /\ intent[s] = "cancelled"
        \/ monitor'[s].pc = "kill" /\ intent'[s] = "timeout"
    <3>1. CASE intent[s] = "cancelled"
      <4>1. MonitorGoto(s, "loop") /\ UNCHANGED intent
        BY <1>3, <3>1 DEF MonitorTimeout
      <4> QED
        BY <1>0, <3>1, <4>1, MonitorStepFields
    <3>2. CASE intent[s] # "cancelled"
      <4>1. MonitorGoto(s, "kill") /\ intent' = [intent EXCEPT ![s] = "timeout"]
        BY <1>3, <3>2 DEF MonitorTimeout
      <4> QED
        BY <1>0, <4>1, MonitorStepFields DEF TypeOK
    <3> QED
      BY <3>1, <3>2
  <2>3. monitor[s].pc = "work"
    BY <1>3 DEF MonitorTimeout, MonitorAt
  <2> QED
    BY <2>1, <2>2, <2>3 DEF TaskAgreed
<1>4. CASE MonitorKill(s)
  <2>1. UNCHANGED <<record, publications, notified, live, intent, pending>>
    BY <1>4 DEF MonitorKill, tableVars, runVars
  <2>2. monitor'[s].pc = "doubt" \/ monitor'[s] = [pc |-> "finalize", verdict |-> "timeout", back |-> "loop"]
    BY <1>0, <1>4, MonitorStepFields DEF MonitorKill, TypeOK
  <2>3. monitor[s].pc = "kill"
    BY <1>4 DEF MonitorKill, MonitorAt
  <2>4. process[s] # "none" /\ process'[s] # "none"
    BY <1>0, <1>4, <2>3 DEF TaskSound, MonitorKill, KillConfirmed, KillUnconfirmed, TypeOK
  <2> QED
    BY <2>1, <2>2, <2>3, <2>4 DEF TaskAgreed, Claim
<1>5. CASE MonitorDoubt(s)
  <2>1. UNCHANGED <<publications, notified, live, intent, pending, process>>
    BY <1>5 DEF MonitorDoubt, runVars, childVars
  <2>2. monitor[s].pc = "doubt" /\ monitor'[s].pc = "loop"
    BY <1>0, <1>5, MonitorStepFields DEF MonitorDoubt, MonitorAt
  <2>3. RecordKept(s)
    BY <1>0, <1>5, DoubtKeeps DEF MonitorDoubt
  <2> QED
    BY <2>1, <2>2, <2>3 DEF TaskAgreed, RecordKept
<1>6. CASE MonitorPoll(s) \/ MonitorAlive(s)
  <2>1. UNCHANGED <<record, publications, notified, live, intent, process>>
    BY <1>6 DEF MonitorPoll, MonitorAlive, tableVars, runVars, childVars
  <2>2. monitor[s].pc \in {"work", "alive"} /\ monitor'[s].pc \in {"alive", "loop", "drain"}
    BY <1>0, <1>6, MonitorStepFields DEF MonitorPoll, MonitorAlive, MonitorAt
  <2> QED
    BY <2>1, <2>2 DEF TaskAgreed
<1>7. CASE MonitorDrain(s)
  <2>1. UNCHANGED <<record, publications, notified, live, intent, process, monitor>>
    BY <1>7 DEF MonitorDrain, tableVars, threadVars
  <2>2. monitor[s].pc = "drain"
    BY <1>7 DEF MonitorDrain, MonitorAt
  <2> QED
    BY <2>1, <2>2 DEF TaskAgreed
<1>8. CASE MonitorDecide(s)
  <2>1. UNCHANGED <<record, publications, notified, live, intent, pending, process>>
    BY <1>8 DEF MonitorDecide, tableVars, runVars, childVars
  <2>2. monitor[s].pc = "drain"
    BY <1>8 DEF MonitorDecide, MonitorAt
  <2>3. monitor'[s] = IF IsTerminal(record[s]) THEN [monitor[s] EXCEPT !.pc = "cleanup"]
                      ELSE [pc |-> "finalize", back |-> "cleanup",
                            verdict |-> IF intent[s] # "none" THEN intent[s] ELSE EventVerdict(pending[s])]
    BY <1>0, <1>8 DEF MonitorDecide, TypeOK
  <2>4. EventVerdict(pending[s]) \notin Claim
    BY DEF EventVerdict, Claim
  <2>5. monitor'[s].pc = "cleanup"
        \/ /\ monitor'[s].pc = "finalize" /\ monitor'[s].back = "cleanup"
           /\ monitor'[s].verdict = IF intent[s] # "none" THEN intent[s] ELSE EventVerdict(pending[s])
    BY <1>M, <2>3 DEF Monitor
  <2> QED
    BY <1>M, <2>1, <2>2, <2>4, <2>5, ClaimStatus DEF TaskAgreed
<1>9. CASE MonitorFinalize(s)
  <2>0. monitor[s].pc = "finalize" /\ UNCHANGED <<notified, live, intent, pending, process>>
    BY <1>9 DEF MonitorFinalize, MonitorAt, runVars, childVars
  <2>1. CASE AlreadyConcluded(s) /\ MonitorGoto(s, monitor[s].back)
    <3>1. UNCHANGED <<record, publications>> /\ record[s].status # "running"
      BY <2>1 DEF AlreadyConcluded
    <3>2. monitor'[s].pc = monitor[s].back /\ monitor[s].back \in {"loop", "cleanup"}
      BY <1>0, <1>M, <2>1, MonitorStepFields DEF Monitor
    <3> QED
      BY <2>0, <3>1, <3>2 DEF TaskAgreed
  <2>2. CASE Conclude(s, monitor[s].verdict) /\ MonitorGoto(s, "publish")
    <3>1. monitor[s].verdict \in TerminalStatus /\ process[s] # "none" /\ record[s].status = "running" /\ s \in live
      BY <1>0, <2>0, <2>2 DEF TaskSound, Conclude
    <3>2. /\ record'[s].status # "running" /\ s \in publications' /\ notified[s] = 0
      BY <1>0, <2>2, <3>1, ConcludeAgreed
    <3>3. monitor'[s].pc = "publish" /\ monitor'[s].back = monitor[s].back
      BY <1>0, <2>2, MonitorStepFields
    <3>4. monitor[s].back = "loop" => intent[s] # "none"
      BY <2>0, <3>1, ClaimStatus DEF TaskAgreed
    <3> QED
      BY <2>0, <3>1, <3>2, <3>3, <3>4 DEF TaskAgreed
  <2> QED
    BY <1>9, <2>1, <2>2 DEF MonitorFinalize
<1>10. CASE MonitorPublish(s)
  <2>1. monitor[s].pc = "publish" /\ UNCHANGED <<live, intent, pending, process>>
    BY <1>10 DEF MonitorPublish, MonitorAt, runVars, childVars
  <2>2. s \notin publications' /\ notified'[s] = notified[s] + 1 /\ record'[s].status # "running"
        /\ record[s].status # "running" /\ process[s] # "none"
    BY <1>0, <1>10, <2>1, PublishAgreed DEF MonitorPublish, TaskSound
  <2>3. monitor'[s].pc = monitor[s].back /\ monitor[s].back \in {"loop", "cleanup"}
    BY <1>0, <1>M, <1>10, MonitorStepFields DEF Monitor, MonitorPublish
  <2> QED
    BY <2>1, <2>2, <2>3 DEF TaskAgreed
<1>11. CASE MonitorCleanup(s)
  <2>1. monitor'[s].pc = "done" /\ monitor[s].pc = "cleanup"
    BY <1>0, <1>11 DEF MonitorCleanup, MonitorAt, TypeOK, NoMonitor
  <2>2. UNCHANGED <<publications, notified, process>> /\ record[s].status # "running"
    BY <1>0, <1>11, <2>1 DEF MonitorCleanup, TaskSound
  <2>3. record'[s].status # "running"
    BY <1>0, <1>11, <2>2, PruneStatus DEF MonitorCleanup, TypeOK
  <2> QED
    BY <2>1, <2>2, <2>3 DEF TaskAgreed
<1> QED
  BY <1>1, <1>2, <1>3, <1>4, <1>5, <1>6, <1>7, <1>8, <1>9, <1>10, <1>11 DEF MonitorStep

(* What a step of a monitor leaves alone: every other task.                *)
LEMMA OtherTask ==
  ASSUME SafetyInv, NEW s \in Task, NEW t \in Task, t # s, MonitorStep(s)
  PROVE  TaskSame(t)
<1>0. TypeOK
  BY SafetyPerTask
<1> DEFINE Still == record'[t].status = "running" <=> record[t].status = "running"
           Rest == /\ intent'[t] = intent[t] /\ pending'[t] = pending[t] /\ notified'[t] = notified[t]
                   /\ t \in live' <=> t \in live
                   /\ t \in publications' <=> t \in publications
                   /\ process'[t] = process[t]
<1>1. CASE MonitorLoop(s)
  <2>1. monitor'[t] = monitor[t]
    BY <1>0, <1>1 DEF MonitorLoop, TypeOK
  <2> QED
    BY <1>1, <2>1 DEF TaskSame, MonitorLoop, tableVars, runVars, childVars
<1>2. CASE MonitorStop(s)
  <2>1. monitor'[t] = monitor[t] /\ pending'[t] = pending[t]
    BY <1>0, <1>2 DEF MonitorStop, ReceiveEvent, TypeOK
  <2> QED
    BY <1>2, <2>1 DEF TaskSame, MonitorStop, tableVars
<1>3. CASE MonitorTimeout(s)
  <2>1. monitor'[t] = monitor[t] /\ intent'[t] = intent[t]
    BY <1>0, <1>3, MonitorStepFields DEF MonitorTimeout, TypeOK
  <2> QED
    BY <1>3, <2>1 DEF TaskSame, MonitorTimeout, tableVars, childVars
<1>4. CASE MonitorKill(s)
  <2>1. monitor'[t] = monitor[t] /\ process'[t] = process[t]
    BY <1>0, <1>4 DEF MonitorKill, MonitorGoto, KillConfirmed, KillUnconfirmed, TypeOK
  <2> QED
    BY <1>4, <2>1 DEF TaskSame, MonitorKill, tableVars, runVars
<1>5. CASE MonitorDoubt(s)
  <2>1. monitor'[t] = monitor[t] /\ RecordKept(t)
    BY <1>0, <1>5, MonitorStepFields, DoubtKeeps DEF MonitorDoubt
  <2> QED
    BY <1>5, <2>1 DEF TaskSame, MonitorDoubt, RecordKept, runVars, childVars
<1>6. CASE MonitorPoll(s)
  <2>1. monitor'[t] = monitor[t]
    BY <1>0, <1>6, MonitorStepFields DEF MonitorPoll
  <2>2. pending'[t] = pending[t]
    BY <1>0, <1>6 DEF MonitorPoll, ReceiveEvent, TypeOK
  <2> QED
    BY <1>6, <2>1, <2>2 DEF TaskSame, MonitorPoll, tableVars
<1>7. CASE MonitorAlive(s)
  <2>1. monitor'[t] = monitor[t]
    BY <1>0, <1>7, MonitorStepFields DEF MonitorAlive
  <2> QED
    BY <1>7, <2>1 DEF TaskSame, MonitorAlive, tableVars, runVars, childVars
<1>8. CASE MonitorDrain(s)
  <2>1. pending'[t] = pending[t]
    BY <1>0, <1>8 DEF MonitorDrain, ReceiveEvent, TypeOK
  <2> QED
    BY <1>8, <2>1 DEF TaskSame, MonitorDrain, tableVars, threadVars
<1>9. CASE MonitorDecide(s)
  <2>1. monitor'[t] = monitor[t]
    BY <1>0, <1>9 DEF MonitorDecide, TypeOK
  <2> QED
    BY <1>9, <2>1 DEF TaskSame, MonitorDecide, tableVars, runVars, childVars
<1>10. CASE MonitorFinalize(s)
  <2>1. monitor'[t] = monitor[t]
    BY <1>0, <1>10, MonitorStepFields DEF MonitorFinalize
  <2>2. record'[t] = record[t] /\ (t \in publications' <=> t \in publications)
    BY <1>0, <1>10 DEF MonitorFinalize, Conclude, AlreadyConcluded, TypeOK
  <2> QED
    BY <1>10, <2>1, <2>2 DEF TaskSame, MonitorFinalize, runVars, childVars
<1>11. CASE MonitorPublish(s)
  <2>1. monitor'[t] = monitor[t] /\ Publish(s)
    BY <1>0, <1>11, MonitorStepFields DEF MonitorPublish
  <2> QED
    BY <1>0, <1>11, <2>1, PublishAgreed DEF TaskSame, MonitorPublish, runVars, childVars
<1>12. CASE MonitorCleanup(s)
  <2>1. monitor'[t] = monitor[t] /\ intent'[t] = intent[t] /\ pending'[t] = pending[t]
        /\ (t \in live' <=> t \in live)
    BY <1>0, <1>12 DEF MonitorCleanup, runVars, TypeOK
  <2>2. record'[t].status = "running" <=> record[t].status = "running"
    BY <1>0, <1>12, PruneStatus DEF MonitorCleanup, TypeOK
  <2> QED
    BY <1>12, <2>1, <2>2 DEF TaskSame, MonitorCleanup
<1> QED
  BY <1>1, <1>2, <1>3, <1>4, <1>5, <1>6, <1>7, <1>8, <1>9, <1>10, <1>11, <1>12 DEF MonitorStep

(* Only a verdict, an announcement and a claim of a client concern a task. *)
LEMMA ClientTask ==
  ASSUME SafetyInv, NEW c \in Client, NEW s \in Task, NEW t \in Task,
         \/ WaitBegin(c, s) \/ WaitTerminal(c, s)
         \/ CancelBegin(c, s) /\ (t # s \/ intent[s] # "none")
         \/ ClientContinue(c, s) /\ (t # s \/ ~(CancelFinalize(c, s) \/ CancelPublish(c, s)))
  PROVE  TaskSame(t)
<1>0. TypeOK /\ ClientSound(c, s)
  BY SafetyPerTask
<1>1. CASE WaitBegin(c, s)
  BY <1>1 DEF TaskSame, WaitBegin, runVars, childVars
<1>2. CASE WaitTerminal(c, s) \/ WaitEnd(c, s) \/ CancelReturn(c, s)
  <2>1. UNCHANGED <<publications, notified, live, intent, pending, process, monitor>>
    BY <1>2 DEF WaitTerminal, WaitEnd, CancelReturn, runVars, childVars, threadVars
  <2>2. record'[t].status = "running" <=> record[t].status = "running"
    BY <1>0, <1>2, PruneStatus DEF WaitTerminal, WaitEnd, CancelReturn, Unpin, TypeOK
  <2> QED
    BY <2>1, <2>2 DEF TaskSame
<1>3. CASE CancelBegin(c, s) /\ (t # s \/ intent[s] # "none")
  <2>1. intent'[t] = intent[t]
    BY <1>0, <1>3 DEF CancelBegin, TypeOK
  <2> QED
    BY <1>3, <2>1 DEF TaskSame, CancelBegin, childVars
<1>4. CASE CancelKill(c, s)
  <2>1. process[s] # "none"
    BY <1>0, <1>4 DEF CancelKill, ClientSound
  <2>2. process'[t] = "none" <=> process[t] = "none"
    BY <1>0, <1>4, <2>1 DEF CancelKill, KillConfirmed, KillUnconfirmed, TypeOK
  <2> QED
    BY <1>4, <2>2 DEF TaskSame, CancelKill, tableVars, runVars
<1>5. CASE CancelDoubt(c, s)
  <2>1. RecordKept(t)
    BY <1>0, <1>5, DoubtKeeps DEF CancelDoubt
  <2> QED
    BY <1>5, <2>1 DEF TaskSame, CancelDoubt, RecordKept, runVars, childVars
<1>6. CASE CancelFinalize(c, s) /\ t # s
  <2>1. record'[t] = record[t] /\ (t \in publications' <=> t \in publications)
    BY <1>0, <1>6 DEF CancelFinalize, Conclude, AlreadyConcluded, TypeOK
  <2> QED
    BY <1>6, <2>1 DEF TaskSame, CancelFinalize, runVars, childVars
<1>7. CASE CancelPublish(c, s) /\ t # s
  BY <1>0, <1>7, PublishAgreed DEF TaskSame, CancelPublish, runVars, childVars
<1>8. CASE ShutdownSkip(c, s)
  BY <1>8 DEF TaskSame, ShutdownSkip, tableVars, runVars, childVars
<1> QED
  BY <1>1, <1>2, <1>3, <1>4, <1>5, <1>6, <1>7, <1>8 DEF ClientContinue

LEMMA ClientStepAgreed ==
  ASSUME SafetyInv, NEW c \in Client, NEW s \in Task, NEW t \in Task, TaskAgreed(t), ClientAgreed(c, s),
         \/ WaitBegin(c, s) \/ WaitTerminal(c, s) \/ CancelBegin(c, s) \/ ClientContinue(c, s)
  PROVE  TaskAgreed(t)'
<1>0. TypeOK /\ ClientSound(c, s) /\ TaskSound(s)
  BY SafetyPerTask
<1>1. CASE CancelBegin(c, s) /\ t = s /\ intent[s] = "none"
  <2>1. UNCHANGED <<record, publications, notified, live, pending, process, monitor>>
    BY <1>1 DEF CancelBegin, childVars
  <2>2. intent'[s] = "cancelled" /\ record[s].status = "running"
    BY <1>0, <1>1 DEF CancelBegin, TypeOK
  <2>3. process[s] # "none" /\ monitor[s].pc \notin {"kill", "doubt", "stop"}
        /\ (monitor[s].pc = "finalize" => monitor[s].verdict \notin Claim)
    BY <1>0, <1>1, <2>2, ClaimStatus DEF TaskAgreed, TaskSound
  <2> QED
    BY <1>1, <2>1, <2>2, <2>3 DEF TaskAgreed
<1>2. CASE CancelFinalize(c, s) /\ t = s
  <2>1. UNCHANGED <<notified, live, intent, pending, process, monitor>> /\ ClientAt(c, s, "finalize")
    BY <1>2 DEF CancelFinalize, runVars, childVars
  <2>2. CASE AlreadyConcluded(s)
    BY <1>2, <2>1, <2>2 DEF AlreadyConcluded, TaskAgreed
  <2>3. CASE Conclude(s, client[c].verdict)
    <3>1. client[c].verdict \in TerminalStatus /\ process[s] # "none" /\ record[s].status = "running"
      BY <1>0, <2>1, <2>3 DEF ClientSound, Conclude
    <3>2. record'[s].status # "running" /\ s \in publications' /\ notified[s] = 0
      BY <1>0, <1>2, <2>3, <3>1, ConcludeAgreed
    <3>3. intent[s] # "none" /\ monitor[s].pc # "publish"
      BY <1>0, <2>1, <3>1, ClaimStatus DEF ClientAgreed, TaskSound
    <3> QED
      BY <1>2, <2>1, <3>1, <3>2, <3>3 DEF TaskAgreed
  <2> QED
    BY <1>2, <2>2, <2>3 DEF CancelFinalize
<1>3. CASE CancelPublish(c, s) /\ t = s
  <2>1. UNCHANGED <<live, intent, pending, process, monitor>> /\ ClientAt(c, s, "publish")
    BY <1>3 DEF CancelPublish, runVars, childVars
  <2>2. s \notin publications' /\ notified'[s] = notified[s] + 1 /\ RecordKept(s)
    BY <1>0, <1>3, PublishAgreed, PublishKeeps DEF CancelPublish, runVars
  <2>3. s \in publications /\ monitor[s].pc # "publish"
    BY <2>1 DEF ClientAgreed
  <2> QED
    BY <1>3, <2>1, <2>2, <2>3 DEF TaskAgreed, RecordKept
<1>4. CASE TaskSame(t)
  BY <1>4, SameAgreed
<1> QED
  BY <1>1, <1>2, <1>3, <1>4, ClientTask DEF ClientContinue

-----------------------------------------------------------------------------
(* What no step undoes, as long as the task is not a new one: the claim on *)
(* a running task, and the doubt about a child that is dying.              *)
TaskKeeps(t) ==
  /\ record'[t].status = "running" => record[t].status = "running"
  /\ record'[t].status = "running" /\ intent[t] # "none" => intent'[t] = intent[t]
  /\ process[t] \in {"dying", "dead"} => process'[t] \in {"dying", "dead"}
  /\ Alive(t)' => /\ Alive(t)
                  /\ process[t] = "dying" => process'[t] = "dying"
                  /\ record[t].doubt => record'[t].doubt

LEMMA StillKeeps ==
  ASSUME NEW t \in Task, record'[t] = record[t], process'[t] = process[t],
         intent[t] # "none" => intent'[t] = intent[t]
  PROVE  TaskKeeps(t)
BY DEF TaskKeeps, Alive

LEMMA PruneTaskKeeps ==
  ASSUME SafetyInv, NEW t \in Task, NEW L, NEW W, NEW P, record' = Pruned(record, L, W, P), process'[t] = process[t],
         record[t].status = "running" => intent'[t] = intent[t]
  PROVE  TaskKeeps(t)
<1>1. TaskSound(t) /\ TypeOK
  BY SafetyPerTask
<1>2. CASE record'[t] = record[t]
  BY <1>2 DEF TaskKeeps, Alive
<1>3. CASE record'[t] = NoRecord /\ IsTerminal(record[t])
  <2>1. process'[t] = "dead" /\ record'[t].status = "absent"
    BY <1>1, <1>3, NoRecordType DEF TaskSound
  <2> QED
    BY <2>1 DEF TaskKeeps, Alive, Executing
<1> QED
  BY <1>2, <1>3, PrunedRemoves

LEMMA ConcludeTaskKeeps ==
  ASSUME SafetyInv, NEW s \in Task, NEW t \in Task, NEW v \in TerminalStatus,
         Conclude(s, v) \/ AlreadyConcluded(s), process[s] = "dead", process' = process, intent' = intent
  PROVE  TaskKeeps(t)
<1>1. TypeOK
  BY SafetyPerTask
<1>2. CASE record'[t] = record[t]
  BY <1>2, StillKeeps
<1>3. CASE t = s /\ Conclude(s, v)
  <2>1. record'[s].status # "running"
    BY <1>1, <1>3, ConcludeSelf
  <2> QED
    BY <1>3, <2>1 DEF TaskKeeps, Alive, Executing
<1> QED
  BY <1>1, <1>2, <1>3 DEF Conclude, AlreadyConcluded, TypeOK

LEMMA DoubtTaskKeeps ==
  ASSUME SafetyInv, NEW s \in Task, NEW t \in Task, RaiseDoubt(s), process' = process, intent' = intent
  PROVE  TaskKeeps(t)
<1>1. TypeOK
  BY SafetyPerTask
<1>2. record'[t].status = record[t].status /\ (record[t].doubt => record'[t].doubt)
  BY <1>1 DEF RaiseDoubt, TypeOK, Record
<1> QED
  BY <1>2 DEF TaskKeeps, Alive

LEMMA KillTaskKeeps ==
  ASSUME SafetyInv, NEW s \in Task, NEW t \in Task, KillConfirmed(s) \/ KillUnconfirmed(s),
         record' = record, intent' = intent
  PROVE  TaskKeeps(t)
<1>1. TypeOK
  BY SafetyPerTask
<1>2. \/ process'[t] = process[t]
      \/ process'[t] = "dead"
      \/ process'[t] = "dying" /\ Alive(t)
  BY <1>1 DEF KillConfirmed, KillUnconfirmed, TypeOK
<1> QED
  BY <1>2 DEF TaskKeeps, Alive, Executing

LEMMA MonitorTaskKeeps ==
  ASSUME SafetyInv, NEW s \in Task, NEW t \in Task, MonitorStep(s)
  PROVE  TaskKeeps(t)
<1>0. TypeOK /\ TaskSound(s)
  BY SafetyPerTask
<1>1. CASE UNCHANGED <<record, process, intent>>
  BY <1>1, StillKeeps
<1>2. CASE MonitorTimeout(s)
  <2>1. UNCHANGED <<record, process>>
    BY <1>2 DEF MonitorTimeout, tableVars, childVars
  <2>2. intent[t] # "none" => intent'[t] = intent[t]
    BY <1>0, <1>2 DEF MonitorTimeout, TypeOK, Intent
  <2> QED
    BY <2>1, <2>2, StillKeeps
<1>3. CASE MonitorKill(s)
  BY <1>3, KillTaskKeeps DEF MonitorKill, tableVars, runVars
<1>4. CASE MonitorDoubt(s)
  BY <1>4, DoubtTaskKeeps DEF MonitorDoubt, runVars, childVars
<1>5. CASE MonitorFinalize(s)
  <2>1. monitor[s].verdict \in TerminalStatus /\ process[s] = "dead"
    BY <1>0, <1>5 DEF MonitorFinalize, MonitorAt, TaskSound
  <2> QED
    BY <1>5, <2>1, ConcludeTaskKeeps DEF MonitorFinalize, runVars, childVars
<1>6. CASE MonitorPublish(s)
  BY <1>6, PruneTaskKeeps DEF MonitorPublish, Publish, runVars, childVars
<1>7. CASE MonitorCleanup(s)
  <2>1. record[s].status # "running" /\ process' = process
    BY <1>0, <1>7 DEF MonitorCleanup, MonitorAt, TaskSound
  <2>2. record[t].status = "running" => intent'[t] = intent[t]
    BY <1>0, <1>7, <2>1 DEF MonitorCleanup, runVars, TypeOK
  <2>3. CASE Alive(s)
    BY <1>7, <2>1, <2>3, StillKeeps DEF MonitorCleanup, runVars
  <2>4. CASE ~Alive(s)
    BY <1>7, <2>1, <2>2, <2>4, PruneTaskKeeps DEF MonitorCleanup
  <2> QED
    BY <2>3, <2>4
<1> QED
  BY <1>1, <1>2, <1>3, <1>4, <1>5, <1>6, <1>7
  DEF MonitorStep, MonitorLoop, MonitorStop, MonitorPoll, MonitorAlive, MonitorDrain, MonitorDecide,
      tableVars, runVars, childVars

LEMMA ClientTaskKeeps ==
  ASSUME SafetyInv, NEW c \in Client, NEW s \in Task, NEW t \in Task,
         \/ WaitBegin(c, s) \/ WaitTerminal(c, s) \/ CancelBegin(c, s) \/ ClientContinue(c, s)
  PROVE  TaskKeeps(t)
<1>0. TypeOK /\ ClientSound(c, s)
  BY SafetyPerTask
<1>1. CASE UNCHANGED <<record, process, intent>>
  BY <1>1, StillKeeps
<1>2. CASE WaitTerminal(c, s) \/ WaitEnd(c, s) \/ CancelReturn(c, s) \/ CancelPublish(c, s)
  BY <1>2, PruneTaskKeeps
  DEF WaitTerminal, WaitEnd, CancelReturn, Unpin, CancelPublish, Publish, runVars, childVars
<1>3. CASE CancelBegin(c, s)
  <2>1. intent[t] # "none" => intent'[t] = intent[t]
    BY <1>0, <1>3 DEF CancelBegin, TypeOK
  <2> QED
    BY <1>3, <2>1, StillKeeps DEF CancelBegin, childVars
<1>4. CASE CancelKill(c, s)
  BY <1>4, KillTaskKeeps DEF CancelKill, tableVars, runVars
<1>5. CASE CancelDoubt(c, s)
  BY <1>5, DoubtTaskKeeps DEF CancelDoubt, runVars, childVars
<1>6. CASE CancelFinalize(c, s)
  <2>1. client[c].verdict \in TerminalStatus /\ process[s] = "dead"
    BY <1>0, <1>6 DEF CancelFinalize, ClientSound
  <2> QED
    BY <1>6, <2>1, ConcludeTaskKeeps DEF CancelFinalize, runVars, childVars
<1> QED
  BY <1>1, <1>2, <1>3, <1>4, <1>5, <1>6
  DEF WaitBegin, ClientContinue, ShutdownSkip, tableVars, runVars, childVars

LEMMA OtherStepKeeps ==
  ASSUME SafetyInv, NEW t \in Task,
         \/ \E s \in Task : ChildStep(s) \/ DeadlinePasses(s)
         \/ \E c \in Client : ShutdownBegin(c) \/ ShutdownReturn(c)
         \/ \E c \in Client, s \in Task : s # t /\ Submit(c, s)
  PROVE  TaskKeeps(t) /\ TaskSame(t)
<1>0. TypeOK
  BY SafetyPerTask
<1>1. ASSUME NEW s \in Task, ChildStep(s) PROVE TaskKeeps(t) /\ TaskSame(t)
  <2>1. UNCHANGED <<record, intent, pending, notified, monitor, live, publications>>
    BY <1>1 DEF ChildStep, ChildFinish, ChildExit, ChildDie, tableVars, runVars, threadVars
  <2>2. \/ process'[t] = process[t]
        \/ process[t] \in Executing \cup {"dying"} /\ process'[t] = "dead"
        \/ process[t] = "running" /\ process'[t] = "sent"
    BY <1>0, <1>1 DEF ChildStep, ChildFinish, ChildExit, ChildDie, TypeOK
  <2> QED
    BY <2>1, <2>2 DEF TaskKeeps, TaskSame, Alive, Executing
<1>2. ASSUME NEW s \in Task, DeadlinePasses(s) PROVE TaskKeeps(t) /\ TaskSame(t)
  BY <1>2 DEF DeadlinePasses, TaskKeeps, TaskSame, Alive, tableVars, runVars, threadVars
<1>3. ASSUME NEW c \in Client, ShutdownBegin(c) \/ ShutdownReturn(c) PROVE TaskKeeps(t) /\ TaskSame(t)
  BY <1>3 DEF ShutdownBegin, ShutdownReturn, TaskKeeps, TaskSame, Alive, tableVars, runVars, childVars
<1>4. ASSUME NEW c \in Client, NEW s \in Task, s # t, Submit(c, s) PROVE TaskKeeps(t) /\ TaskSame(t)
  <2>1. record'[t] = record[t] /\ process'[t] = process[t] /\ monitor'[t] = monitor[t]
        /\ (t \in live' <=> t \in live)
    BY <1>0, <1>4 DEF Submit, MonitorGoto, TypeOK
  <2> QED
    BY <1>4, <2>1, StillKeeps DEF Submit, TaskSame
<1> QED
  BY <1>1, <1>2, <1>3, <1>4

-----------------------------------------------------------------------------
PublisherKeeps(d, t) ==
  ClientAt(d, t, "publish") =>
    /\ t \in publications'
    /\ monitor'[t].pc # "publish"
    /\ \A e \in Client : ClientAt(e, t, "publish")' => e = d

(* The steps of others keep what a client knows.                           *)
LEMMA BystanderAgreed ==
  ASSUME NEW d \in Client, NEW t \in Task, ClientAgreed(d, t), TaskKeeps(t), PublisherKeeps(d, t),
         client'[d] = client[d]
  PROVE  ClientAgreed(d, t)'
<1>1. \A pc : ClientAt(d, t, pc)' <=> ClientAt(d, t, pc)
  BY DEF ClientAt
<1>2. Sweeps(d)' <=> Sweeps(d)
  BY DEF Sweeps
<1>3. record'[t].status = "running" /\ (\E pc \in {"kill", "doubt", "finalize"} : ClientAt(d, t, pc)') =>
        intent'[t] = client'[d].verdict /\ intent'[t] \in Claim
  BY <1>1, ClaimStatus DEF ClientAgreed, TaskKeeps
<1>4. ClientAt(d, t, "doubt")' => process'[t] \in {"dying", "dead"}
  BY <1>1 DEF ClientAgreed, TaskKeeps
<1>5. Sweeps(d)' /\ Alive(t)' =>
       \/ process'[t] = "dying" /\ record'[t].doubt
       \/ client'[d].pc # "stopped" /\ t \in client'[d].todo
       \/ ClientAt(d, t, "kill")' \/ ClientAt(d, t, "doubt")'
  BY <1>1, <1>2 DEF ClientAgreed, TaskKeeps
<1>6. ClientAt(d, t, "publish")' =>
       /\ t \in publications'
       /\ monitor'[t].pc # "publish"
       /\ \A e \in Client : ClientAt(e, t, "publish")' => e = d
  BY <1>1 DEF PublisherKeeps
<1> QED
  BY <1>3, <1>4, <1>5, <1>6 DEF ClientAgreed

LEMMA MonitorClientAgreed ==
  ASSUME SafetyInv, NEW s \in Task, NEW t \in Task, TaskAgreed(t), NEW d \in Client, ClientAgreed(d, t),
         MonitorStep(s)
  PROVE  ClientAgreed(d, t)'
<1>0. TypeOK /\ client' = client
  BY SafetyPerTask
  DEF MonitorStep, MonitorLoop, MonitorStop, MonitorTimeout, MonitorKill, MonitorDoubt,
     MonitorPoll, MonitorAlive, MonitorDrain, MonitorDecide, MonitorFinalize,
     MonitorPublish, MonitorCleanup, threadVars
<1>1. ASSUME ClientAt(d, t, "publish") PROVE t \in publications' /\ monitor'[t].pc # "publish"
  <2>1. t \in publications /\ monitor[t].pc # "publish" /\ record[t].status # "running"
    BY <1>1 DEF ClientAgreed, TaskAgreed
  <2>2. CASE s # t
    BY <2>1, <2>2, OtherTask DEF TaskSame
  <2>3. CASE s = t /\ MonitorFinalize(s)
    <3>1. UNCHANGED publications /\ MonitorGoto(s, monitor[s].back)
      BY <2>1, <2>3 DEF MonitorFinalize, Conclude, AlreadyConcluded
    <3>2. monitor'[t].pc \in {"loop", "cleanup"}
      BY <1>0, <2>3, <3>1, MonitorStepFields, MonitorFields DEF TypeOK
    <3> QED
      BY <2>1, <3>1, <3>2
  <2>4. CASE s = t /\ ~MonitorFinalize(s)
    <3>1. ~MonitorPublish(s) /\ UNCHANGED publications
      BY <2>1, <2>4 DEF MonitorStep, MonitorLoop, MonitorStop, MonitorTimeout, MonitorKill, MonitorDoubt,
         MonitorPoll, MonitorAlive, MonitorDrain, MonitorDecide, MonitorPublish, MonitorCleanup, MonitorAt,
         tableVars
    <3>2. monitor'[t].pc # "publish"
      <4>1. CASE MonitorLoop(s) \/ MonitorStop(s) \/ MonitorDecide(s)
        <5>1. monitor[s] \in Monitor
          BY <1>0 DEF TypeOK
        <5>2. CASE MonitorLoop(s)
          BY <1>0, <2>4, <5>1, <5>2 DEF MonitorLoop, TypeOK, Monitor
        <5>3. CASE MonitorStop(s)
          BY <1>0, <2>4, <5>1, <5>3 DEF MonitorStop, TypeOK, Monitor
        <5>4. CASE MonitorDecide(s)
          BY <1>0, <2>4, <5>1, <5>4 DEF MonitorDecide, TypeOK, Monitor
        <5> QED
          BY <4>1, <5>2, <5>3, <5>4
      <4>2. CASE MonitorTimeout(s) \/ MonitorDoubt(s) \/ MonitorPoll(s) \/ MonitorAlive(s)
        BY <1>0, <2>4, <4>2, MonitorStepFields DEF MonitorTimeout, MonitorDoubt, MonitorPoll, MonitorAlive
      <4>3. CASE MonitorKill(s)
        <5>1. monitor' = [monitor EXCEPT ![s] = [pc |-> "finalize", verdict |-> "timeout", back |-> "loop"]]
              \/ MonitorGoto(s, "doubt")
          BY <4>3 DEF MonitorKill
        <5> QED
          BY <1>0, <2>4, <5>1, MonitorStepFields DEF TypeOK
      <4>4. CASE MonitorDrain(s) \/ MonitorCleanup(s)
        BY <1>0, <2>1, <2>4, <4>4 DEF MonitorDrain, MonitorCleanup, TypeOK, NoMonitor, threadVars
      <4> QED
        BY <2>4, <3>1, <4>1, <4>2, <4>3, <4>4 DEF MonitorStep
    <3> QED
      BY <2>1, <3>1, <3>2
  <2> QED
    BY <2>2, <2>3, <2>4
<1>2. PublisherKeeps(d, t)
  BY <1>0, <1>1 DEF PublisherKeeps, ClientAgreed, ClientAt
<1> QED
  BY <1>0, <1>2, MonitorTaskKeeps, BystanderAgreed

(* A child that may still run has a running record.                        *)
LEMMA AliveRuns ==
  ASSUME SafetyInv, NEW t \in Task, Alive(t)
  PROVE  record[t].status = "running" /\ t \in live
<1>1. TaskSound(t) /\ record[t] \in Record
  BY SafetyPerTask DEF TypeOK
<1> QED
  BY <1>1, StatusCases DEF TaskSound, Alive, Executing

(* A publisher goes on when neither its task nor another publisher moves.  *)
LEMMA PublisherStays ==
  ASSUME NEW d \in Client, NEW t \in Task, ClientAgreed(d, t), TaskSame(t),
         \A e \in Client : ClientAt(e, t, "publish")' => ClientAt(e, t, "publish")
  PROVE  PublisherKeeps(d, t)
<1>1. ASSUME ClientAt(d, t, "publish")
      PROVE  /\ t \in publications /\ monitor[t].pc # "publish"
             /\ \A e \in Client : ClientAt(e, t, "publish") => e = d
  BY <1>1 DEF ClientAgreed
<1>2. (t \in publications' <=> t \in publications) /\ monitor'[t] = monitor[t]
  BY DEF TaskSame
<1>3. ASSUME ClientAt(d, t, "publish")
      PROVE  \A e \in Client : ClientAt(e, t, "publish")' => e = d
  BY <1>1, <1>3
<1> QED
  BY <1>1, <1>2, <1>3 DEF PublisherKeeps

(* How a call begins and returns, for the client that makes it.            *)
LEMMA CallFields ==
  ASSUME TypeOK, NEW c \in Client, NEW s \in Task
  PROVE  /\ WaitBegin(c, s) =>
              /\ client[c].pc = "idle" /\ client'[c].pc = "wait" /\ client'[c].task = {s}
              /\ client'[c].sweeping = client[c].sweeping /\ client'[c].todo = client[c].todo
         /\ CancelBegin(c, s) =>
              /\ client[c].pc = "idle" \/ (client[c].pc = "sweep" /\ s \in client[c].todo)
              /\ client'[c].pc = "kill" /\ client'[c].task = {s}
              /\ client'[c].verdict = IF intent[s] = "none" THEN "cancelled" ELSE intent[s]
              /\ client'[c].sweeping = (client[c].pc = "sweep")
              /\ client'[c].todo = client[c].todo \ {s}
<1>1. client[c] \in ClientState
  BY DEF TypeOK
<1>2. ASSUME WaitBegin(c, s)
      PROVE  /\ client[c].pc = "idle" /\ client'[c].pc = "wait" /\ client'[c].task = {s}
             /\ client'[c].sweeping = client[c].sweeping /\ client'[c].todo = client[c].todo
  <2>1. client'[c] = [client[c] EXCEPT !.pc = "wait", !.task = {s}] /\ client[c].pc = "idle"
    BY <1>2 DEF WaitBegin, TypeOK
  <2> QED
    BY <1>1, <2>1 DEF ClientState
<1>3. ASSUME CancelBegin(c, s)
      PROVE  /\ client[c].pc = "idle" \/ (client[c].pc = "sweep" /\ s \in client[c].todo)
             /\ client'[c].pc = "kill" /\ client'[c].task = {s}
             /\ client'[c].verdict = IF intent[s] = "none" THEN "cancelled" ELSE intent[s]
             /\ client'[c].sweeping = (client[c].pc = "sweep")
             /\ client'[c].todo = client[c].todo \ {s}
  <2>1. client'[c] = [pc |-> "kill", task |-> {s},
                      verdict |-> IF intent[s] = "none" THEN "cancelled" ELSE intent[s],
                      sweeping |-> client[c].pc = "sweep", todo |-> client[c].todo \ {s}]
    BY <1>3 DEF CancelBegin, TypeOK
  <2>2. client[c].pc = "idle" \/ (client[c].pc = "sweep" /\ s \in client[c].todo)
    BY <1>3 DEF CancelBegin
  <2> QED
    BY <2>1, <2>2
<1> QED
  BY <1>2, <1>3

LEMMA ReturnFields ==
  ASSUME TypeOK, NEW c \in Client, NEW s \in Task, WaitEnd(c, s) \/ CancelReturn(c, s)
  PROVE  \/ client'[c] = Idle
         \/ /\ CancelReturn(c, s) /\ client[c].sweeping /\ client[c].pc = "return"
            /\ client'[c].pc = "sweep" /\ client'[c].task = {} /\ client'[c].todo = client[c].todo
<1> DEFINE T == client[c].todo
           swept == [Idle EXCEPT !.pc = "sweep", !.todo = T]
<1>1. swept.pc = "sweep" /\ swept.task = {} /\ swept.todo = T
  <2> HIDE DEF T
  <2> QED
    BY DEF Idle
<1>2. CASE WaitEnd(c, s)
  BY <1>2 DEF WaitEnd, TypeOK
<1>3. CASE CancelReturn(c, s)
  <2>1. client'[c] = IF client[c].sweeping THEN swept ELSE Idle
    BY <1>3 DEF CancelReturn, TypeOK
  <2>2. client[c].pc = "return"
    BY <1>3 DEF CancelReturn, ClientAt
  <2> HIDE DEF swept
  <2> QED
    BY <1>1, <1>3, <2>1, <2>2
<1> QED
  BY <1>2, <1>3

LEMMA CallClientAgreed ==
  ASSUME SafetyInv, \A u \in Task : TaskAgreed(u), \A e \in Client, u \in Task : ClientAgreed(e, u),
         NEW c \in Client, NEW s \in Task, NEW t \in Task, NEW d \in Client, d # c,
         \/ WaitBegin(c, s) \/ WaitTerminal(c, s) \/ CancelBegin(c, s) \/ ClientContinue(c, s)
  PROVE  ClientAgreed(d, t)'
<1>0. TypeOK
  BY SafetyPerTask
<1>1. \A e \in Client : e # c => client'[e] = client[e]
  BY <1>0, ClientGotoFields
  DEF WaitBegin, WaitTerminal, CancelBegin, ClientContinue, WaitEnd, CancelKill, CancelDoubt, CancelFinalize,
      CancelPublish, CancelReturn, ShutdownSkip, TypeOK, threadVars
<1>2. monitor' = monitor
  BY DEF WaitBegin, WaitTerminal, CancelBegin, ClientContinue, WaitEnd, CancelKill, CancelDoubt, CancelFinalize,
      CancelPublish, CancelReturn, ShutdownSkip, threadVars
<1>3. ASSUME ClientAt(d, t, "publish")
      PROVE  t \in publications' /\ ~(ClientAt(c, t, "publish")')
  <2>1. t \in publications /\ ~ClientAt(c, t, "publish") /\ record[t].status # "running"
    BY <1>3 DEF ClientAgreed, TaskAgreed
  <2>2. t \in publications'
    BY <2>1 DEF WaitBegin, WaitTerminal, CancelBegin, ClientContinue, WaitEnd, CancelKill, CancelDoubt,
      CancelFinalize, Conclude, AlreadyConcluded, CancelPublish, Publish, CancelReturn, ShutdownSkip, tableVars
  <2>3. CASE CancelFinalize(c, s)
    <3>1. CASE AlreadyConcluded(s) /\ ClientGoto(c, "return")
      BY <1>0, <2>2, <3>1, ClientGotoFields DEF ClientAt
    <3>2. CASE Conclude(s, client[c].verdict)
      <4>1. s # t /\ client'[c].task = {s}
        BY <1>0, <2>1, <2>3, <3>2, ClientGotoFields DEF Conclude, CancelFinalize, ClientAt
      <4> QED
        BY <2>2, <4>1 DEF ClientAt
    <3> QED
      BY <2>2, <2>3, <3>1, <3>2 DEF CancelFinalize
  <2>4. CASE ~CancelFinalize(c, s)
    <3>1. client'[c].pc # "publish" \/ client' = client
      <4>1. CASE WaitBegin(c, s) \/ CancelBegin(c, s)
        <5>1. client[c] \in ClientState /\ client'[c].pc \in {"wait", "kill"}
          BY <1>0, <4>1, CallFields DEF TypeOK
        <5> QED
          BY <5>1
      <4>5. CASE WaitEnd(c, s) \/ CancelReturn(c, s)
        <5>1. client'[c].pc \in {"idle", "sweep"}
          <6>1. Idle.pc = "idle"
            BY DEF Idle
          <6> QED
            BY <1>0, <4>5, <6>1, ReturnFields
        <5> QED
          BY <5>1
      <4>2. CASE CancelKill(c, s) \/ CancelDoubt(c, s) \/ CancelPublish(c, s)
        BY <1>0, <4>2, ClientGotoFields DEF CancelKill, CancelDoubt, CancelPublish
      <4>3. CASE WaitTerminal(c, s)
        BY <4>3 DEF WaitTerminal, threadVars
      <4>4. CASE ShutdownSkip(c, s)
        BY <1>0, <4>4 DEF ShutdownSkip, TypeOK, ClientState
      <4> QED
        BY <2>4, <4>1, <4>2, <4>3, <4>4, <4>5 DEF ClientContinue
    <3> QED
      BY <2>1, <2>2, <3>1 DEF ClientAt
  <2> QED
    BY <2>3, <2>4
<1>4. PublisherKeeps(d, t)
  BY <1>1, <1>2, <1>3 DEF PublisherKeeps, ClientAgreed, ClientAt
<1> QED
  BY <1>1, <1>4, ClientTaskKeeps, BystanderAgreed

(* What the client that makes the step knows afterwards.                   *)
LEMMA SelfAgreed ==
  ASSUME SafetyInv, \A u \in Task : TaskAgreed(u), \A e \in Client, u \in Task : ClientAgreed(e, u),
         NEW c \in Client, NEW s \in Task, NEW t \in Task,
         \/ WaitBegin(c, s) \/ WaitTerminal(c, s) \/ CancelBegin(c, s) \/ ClientContinue(c, s)
  PROVE  ClientAgreed(c, t)'
<1>0. TypeOK /\ ClientSound(c, s) /\ ClientAgreed(c, t) /\ ClientAgreed(c, s) /\ TaskAgreed(t) /\ TaskAgreed(s)
      /\ TaskSound(t) /\ TaskSound(s)
  BY SafetyPerTask
<1>K. TaskKeeps(t)
  BY ClientTaskKeeps
<1>I. Idle.pc = "idle" /\ Idle.task = {} /\ Idle.sweeping = FALSE
  BY DEF Idle
\* Away from kill, doubt, finalize and publish only a shutdown owes something.
<1>A. ASSUME client'[c].pc \notin {"kill", "doubt", "finalize", "publish"},
             Sweeps(c)' => \/ ~Alive(t)'
                           \/ process'[t] = "dying" /\ record'[t].doubt
                           \/ client'[c].pc # "stopped" /\ t \in client'[c].todo
      PROVE  ClientAgreed(c, t)'
  BY <1>A DEF ClientAgreed, ClientAt
\* What a shutdown has left, when its client is not in the middle of a cancel of t.
<1>B. ASSUME Sweeps(c), ~ClientAt(c, t, "kill"), ~ClientAt(c, t, "doubt"), client[c].pc # "stopped"
      PROVE  ~Alive(t)' \/ (process'[t] = "dying" /\ record'[t].doubt) \/ t \in client[c].todo
  BY <1>0, <1>K, <1>B DEF ClientAgreed, TaskKeeps
<1>1. CASE WaitBegin(c, s)
  <2>1. /\ client[c].pc = "idle" /\ client'[c].pc = "wait"
        /\ client'[c].sweeping = client[c].sweeping /\ client'[c].todo = client[c].todo
    BY <1>0, <1>1, CallFields
  <2>2. Sweeps(c)' => Sweeps(c)
    BY <2>1 DEF Sweeps
  <2> QED
    BY <1>A, <1>B, <2>1, <2>2 DEF ClientAt
<1>2. CASE WaitTerminal(c, s)
  <2>1. client' = client /\ monitor' = monitor /\ publications' = publications
    BY <1>2 DEF WaitTerminal, threadVars
  <2>2. PublisherKeeps(c, t)
    BY <1>0, <2>1 DEF PublisherKeeps, ClientAgreed, ClientAt
  <2> QED
    BY <1>0, <1>K, <2>1, <2>2, BystanderAgreed
<1>3. CASE CancelBegin(c, s)
  <2>1. /\ client[c].pc = "idle" \/ (client[c].pc = "sweep" /\ s \in client[c].todo)
        /\ client'[c].pc = "kill" /\ client'[c].task = {s}
        /\ client'[c].verdict = IF intent[s] = "none" THEN "cancelled" ELSE intent[s]
        /\ client'[c].sweeping = (client[c].pc = "sweep")
        /\ client'[c].todo = client[c].todo \ {s}
    BY <1>0, <1>3, CallFields
  <2>2. intent'[s] = client'[c].verdict /\ intent'[s] \in Claim
    BY <1>0, <1>3, <2>1, ClaimStatus DEF CancelBegin, TypeOK, Claim
  <2>3. Sweeps(c)' => Sweeps(c) /\ client[c].pc = "sweep"
    BY <2>1 DEF Sweeps
  <2>4. Sweeps(c)' => ~Alive(t)' \/ (process'[t] = "dying" /\ record'[t].doubt) \/ t \in client[c].todo
    BY <1>B, <2>3 DEF ClientAt
  <2> QED
    BY <2>1, <2>2, <2>4 DEF ClientAgreed, ClientAt
<1>4. CASE WaitEnd(c, s) \/ CancelReturn(c, s)
  <2>1. \/ client'[c] = Idle
        \/ /\ client[c].sweeping /\ client[c].pc = "return"
           /\ client'[c].pc = "sweep" /\ client'[c].todo = client[c].todo
    BY <1>0, <1>4, ReturnFields
  <2>2. CASE client'[c] = Idle
    BY <1>I, <1>A, <2>2 DEF Sweeps
  <2>3. CASE client[c].sweeping /\ client[c].pc = "return" /\ client'[c].pc = "sweep"
             /\ client'[c].todo = client[c].todo
    BY <1>A, <1>B, <2>3 DEF Sweeps, ClientAt
  <2> QED
    BY <2>1, <2>2, <2>3
<1>5. CASE CancelKill(c, s)
  <2>1. client[c].pc = "kill" /\ client[c].task = {s}
    BY <1>5 DEF CancelKill, ClientAt
  <2>2. client' = [client EXCEPT ![c].pc = client'[c].pc] /\ client'[c].pc \in {"finalize", "doubt"}
    BY <1>0, <1>5, ClientGotoFields DEF CancelKill, ClientGoto
  <2>3. /\ client'[c].verdict = client[c].verdict /\ client'[c].task = client[c].task
        /\ client'[c].sweeping = client[c].sweeping /\ client'[c].todo = client[c].todo
    BY <1>0, <2>2 DEF TypeOK, ClientState
  <2>4. \/ client'[c].pc = "finalize" /\ process'[s] = "dead"
        \/ client'[c].pc = "doubt" /\ process'[s] = "dying"
    BY <1>0, <1>5, ClientGotoFields DEF CancelKill, KillConfirmed, KillUnconfirmed, TypeOK
  <2>5. Sweeps(c)' => Sweeps(c)
    BY <2>1, <2>2, <2>3 DEF Sweeps
  <2>6. t = s => ~Alive(t)' \/ ClientAt(c, t, "doubt")'
    BY <2>1, <2>3, <2>4 DEF Alive, Executing, ClientAt
  <2>7. t # s /\ Sweeps(c)' =>
          ~Alive(t)' \/ (process'[t] = "dying" /\ record'[t].doubt) \/ t \in client'[c].todo
    BY <1>B, <2>1, <2>3, <2>5 DEF ClientAt
  <2>8. record'[t].status = "running" /\ t = s => intent'[t] = client'[c].verdict /\ intent'[t] \in Claim
    BY <1>0, <1>K, <2>1, <2>3, ClaimStatus DEF ClientAgreed, ClientAt, TaskKeeps
  <2> QED
    BY <2>1, <2>2, <2>3, <2>4, <2>6, <2>7, <2>8 DEF ClientAgreed, ClientAt

<1>6. CASE CancelDoubt(c, s)
  <2>1. client[c].pc = "doubt" /\ client[c].task = {s} /\ client'[c].pc = "return" /\ process' = process
    BY <1>0, <1>6, ClientGotoFields DEF CancelDoubt, ClientAt, childVars
  <2>2. client'[c].sweeping = client[c].sweeping /\ client'[c].todo = client[c].todo
    BY <1>0, <1>6 DEF CancelDoubt, ClientGoto, TypeOK, ClientState
  <2>3. Sweeps(c)' => Sweeps(c)
    BY <2>1, <2>2 DEF Sweeps
  <2>4. ASSUME Alive(t)', t = s PROVE process'[t] = "dying" /\ record'[t].doubt
    <3>1. Alive(t) /\ process[s] \in {"dying", "dead"}
      BY <1>0, <2>1, <2>4 DEF ClientAgreed, ClientAt, Alive
    <3>2. process[t] = "dying" /\ record[t].status = "running"
      BY <2>4, <3>1, AliveRuns DEF Alive, Executing
    <3>3. record'[t] = [record[t] EXCEPT !.doubt = TRUE] /\ record[t] \in Record
      BY <1>0, <1>6, <2>4, <3>2 DEF CancelDoubt, RaiseDoubt, TypeOK
    <3>4. record'[t].doubt
      BY <3>3 DEF Record
    <3> QED
      BY <2>1, <3>2, <3>4
  <2> QED
    BY <1>A, <1>B, <2>1, <2>2, <2>3, <2>4 DEF ClientAt
<1>7. CASE CancelFinalize(c, s)
  <2>1. client[c].pc = "finalize" /\ client[c].task = {s}
    BY <1>7 DEF CancelFinalize, ClientAt
  <2>2. client'[c].sweeping = client[c].sweeping /\ client'[c].todo = client[c].todo
        /\ client'[c].task = {s} /\ client'[c].pc \in {"publish", "return"}
    BY <1>0, <1>7, <2>1 DEF CancelFinalize, ClientGoto, TypeOK, ClientState
  <2>3. Sweeps(c)' => Sweeps(c)
    BY <2>1, <2>2 DEF Sweeps
  <2>4. Sweeps(c)' => ~Alive(t)' \/ (process'[t] = "dying" /\ record'[t].doubt) \/ t \in client'[c].todo
    BY <1>B, <2>1, <2>2, <2>3 DEF ClientAt
  <2>5. CASE AlreadyConcluded(s) /\ ClientGoto(c, "return")
    BY <1>0, <1>A, <2>4, <2>5, <2>2, ClientGotoFields
  <2>6. CASE Conclude(s, client[c].verdict) /\ ClientGoto(c, "publish")
    <3>1. record[s].status = "running" /\ s \in publications' /\ monitor' = monitor
      BY <1>7, <2>6 DEF Conclude, CancelFinalize
    <3>2. monitor[s].pc # "publish" /\ s \notin publications
      BY <1>0, <3>1 DEF TaskSound, TaskAgreed
    <3>3. ASSUME NEW d \in Client, ClientAt(d, s, "publish")' PROVE d = c
      <4>1. d # c => client'[d] = client[d]
        BY <1>0, <2>6, ClientGotoFields
      <4>2. ~ClientAt(d, s, "publish")
        BY <3>2 DEF ClientAgreed
      <4> QED
        BY <3>3, <4>1, <4>2 DEF ClientAt
    <3>4. client'[c].pc = "publish"
      BY <1>0, <2>6, ClientGotoFields
    <3> QED
      BY <2>2, <2>4, <3>1, <3>2, <3>3, <3>4 DEF ClientAgreed, ClientAt
  <2> QED
    BY <1>7, <2>5, <2>6 DEF CancelFinalize
<1>8. CASE CancelPublish(c, s)
  <2>1. client[c].pc = "publish" /\ client'[c].pc = "return"
    BY <1>0, <1>8, ClientGotoFields DEF CancelPublish, ClientAt
  <2>2. client'[c].sweeping = client[c].sweeping /\ client'[c].todo = client[c].todo
    BY <1>0, <1>8 DEF CancelPublish, ClientGoto, TypeOK, ClientState
  <2>3. Sweeps(c)' => Sweeps(c)
    BY <2>1, <2>2 DEF Sweeps
  <2> QED
    BY <1>A, <1>B, <2>1, <2>2, <2>3 DEF ClientAt
<1>9. CASE ShutdownSkip(c, s)
  <2>1. client[c].pc = "sweep" /\ client'[c].pc = "sweep" /\ client'[c].todo = client[c].todo \ {s}
        /\ record[s].status # "running"
    BY <1>0, <1>9 DEF ShutdownSkip, TypeOK, ClientState
  <2>2. Sweeps(c) /\ (t = s => ~Alive(t)')
    BY <1>K, <2>1, AliveRuns DEF Sweeps, TaskKeeps
  <2> QED
    BY <1>A, <1>B, <2>1, <2>2 DEF ClientAt
<1> QED
  BY <1>1, <1>2, <1>3, <1>4, <1>5, <1>6, <1>7, <1>8, <1>9 DEF ClientContinue

-----------------------------------------------------------------------------
(* Pins are counted: waiters[t] is the number of calls that work on t.     *)
Pinned(t) == {c \in Client : client[c].task = {t}}

\* A step that leaves every call at its task.
LEMMA PinsStay ==
  ASSUME PinsCounted, waiters' = waiters, \A c \in Client : client'[c].task = client[c].task,
         \A c \in Client : client'[c].pc \in {"idle", "sweep", "stopped"} => client'[c].task = {}
  PROVE  PinsCounted'
<1>1. \A t \in Task : {c \in Client : client'[c].task = {t}} = {c \in Client : client[c].task = {t}}
  OBVIOUS
<1> QED
  BY <1>1 DEF PinsCounted

LEMMA PinAdded ==
  ASSUME TypeOK, PinsCounted, NEW c \in Client, NEW s \in Task, Pin(s),
         client[c].task = {}, client'[c].task = {s}, client'[c].pc \notin {"idle", "sweep", "stopped"},
         \A d \in Client : d # c => client'[d] = client[d]
  PROVE  PinsCounted' /\ waiters[s] \in Nat /\ waiters[s] < Cardinality(Client)
<1>1. Pinned(s)' = Pinned(s) \cup {c} /\ c \notin Pinned(s) /\ Pinned(s) \subseteq Client \ {c}
  BY DEF Pinned
<1>2. IsFiniteSet(Client) /\ IsFiniteSet(Pinned(s)) /\ IsFiniteSet(Client \ {c})
  BY <1>1, ClientAssumption, FS_Subset
<1>3. Cardinality(Pinned(s)') = Cardinality(Pinned(s)) + 1 /\ Cardinality(Pinned(s)) \in Nat
  BY <1>1, <1>2, FS_AddElement, FS_CardinalityType
<1>4. Cardinality(Pinned(s)) <= Cardinality(Client \ {c})
      /\ Cardinality(Client \ {c}) = Cardinality(Client) - 1 /\ Cardinality(Client) \in Nat
  BY <1>1, <1>2, FS_Subset, FS_RemoveElement, FS_CardinalityType
<1>5. waiters[s] = Cardinality(Pinned(s)) /\ waiters'[s] = waiters[s] + 1
      /\ \A t \in Task : t # s => waiters'[t] = waiters[t]
  BY DEF PinsCounted, Pinned, Pin, TypeOK
<1>6. ASSUME NEW t \in Task, t # s PROVE Pinned(t)' = Pinned(t)
  BY <1>6 DEF Pinned
<1>7. \A t \in Task : waiters'[t] = Cardinality(Pinned(t)')
  BY <1>3, <1>5, <1>6 DEF PinsCounted, Pinned
<1>8. \A d \in Client : client'[d].pc \in {"idle", "sweep", "stopped"} => client'[d].task = {}
  BY DEF PinsCounted
<1>9. PinsCounted'
  BY <1>7, <1>8 DEF PinsCounted, Pinned
<1> QED
  BY <1>3, <1>4, <1>5, <1>9

LEMMA PinDropped ==
  ASSUME TypeOK, PinsCounted, NEW c \in Client, NEW s \in Task, waiters' = [waiters EXCEPT ![s] = @ - 1],
         client[c].task = {s}, client'[c].task = {},
         \A d \in Client : d # c => client'[d] = client[d]
  PROVE  PinsCounted' /\ waiters[s] > 0
<1>1. Pinned(s)' = Pinned(s) \ {c} /\ c \in Pinned(s) /\ Pinned(s) \subseteq Client
  BY DEF Pinned
<1>2. IsFiniteSet(Pinned(s))
  BY <1>1, ClientAssumption, FS_Subset
<1>3. Cardinality(Pinned(s)') = Cardinality(Pinned(s)) - 1 /\ Cardinality(Pinned(s)) \in Nat
      /\ Cardinality(Pinned(s)) # 0
  BY <1>1, <1>2, FS_RemoveElement, FS_CardinalityType, FS_EmptySet
<1>5. waiters[s] = Cardinality(Pinned(s)) /\ waiters'[s] = waiters[s] - 1
      /\ \A t \in Task : t # s => waiters'[t] = waiters[t]
  BY DEF PinsCounted, Pinned, TypeOK
<1>6. ASSUME NEW t \in Task, t # s PROVE Pinned(t)' = Pinned(t)
  BY <1>6 DEF Pinned
<1>7. \A t \in Task : waiters'[t] = Cardinality(Pinned(t)')
  BY <1>3, <1>5, <1>6 DEF PinsCounted, Pinned
<1>8. \A d \in Client : client'[d].pc \in {"idle", "sweep", "stopped"} => client'[d].task = {}
  BY DEF PinsCounted
<1>9. PinsCounted'
  BY <1>7, <1>8 DEF PinsCounted, Pinned
<1> QED
  BY <1>3, <1>5, <1>9

LEMMA CallPins ==
  ASSUME TypeOK, PinsCounted, NEW c \in Client, NEW s \in Task,
         \/ WaitBegin(c, s) \/ WaitTerminal(c, s) \/ CancelBegin(c, s) \/ ClientContinue(c, s)
  PROVE  PinsCounted'
<1>1. CASE WaitBegin(c, s) \/ CancelBegin(c, s)
  <2>1. client[c].task = {} /\ client'[c].task = {s} /\ client'[c].pc \in {"wait", "kill"}
    BY <1>1, CallFields DEF PinsCounted
  <2>2. \A d \in Client : d # c => client'[d] = client[d]
    BY <1>1 DEF WaitBegin, CancelBegin, TypeOK
  <2>3. Pin(s)
    BY <1>1 DEF WaitBegin, CancelBegin
  <2> QED
    BY <2>1, <2>2, <2>3, PinAdded
<1>2. CASE WaitEnd(c, s) \/ CancelReturn(c, s)
  <2>1. client[c].task = {s} /\ Unpin(s)
    BY <1>2 DEF WaitEnd, CancelReturn, ClientAt
  <2>2. client'[c].task = {}
    <3>1. Idle.task = {}
      BY DEF Idle
    <3> QED
      BY <1>2, <3>1, ReturnFields
  <2>3. \A d \in Client : d # c => client'[d] = client[d]
    BY <1>2 DEF WaitEnd, CancelReturn, TypeOK
  <2> QED
    BY <2>1, <2>2, <2>3, PinDropped DEF Unpin
<1>3. CASE WaitTerminal(c, s)
  BY <1>3 DEF WaitTerminal, threadVars, PinsCounted
<1>4. CASE ShutdownSkip(c, s)
  <2>1. \A d \in Client : client'[d].task = client[d].task /\ client'[d].pc = client[d].pc
    BY <1>4 DEF ShutdownSkip, TypeOK, ClientState
  <2> QED
    BY <1>4, <2>1, PinsStay DEF ShutdownSkip, tableVars, PinsCounted
<1>5. CASE CancelKill(c, s) \/ CancelDoubt(c, s) \/ CancelFinalize(c, s) \/ CancelPublish(c, s)
  <2>1. PICK pc \in {"finalize", "doubt", "return", "publish"} : ClientGoto(c, pc)
    BY <1>5 DEF CancelKill, CancelDoubt, CancelFinalize, CancelPublish
  <2>2. waiters' = waiters
    BY <1>5 DEF CancelKill, CancelDoubt, CancelFinalize, CancelPublish, tableVars
  <2>3. \A d \in Client : client'[d].task = client[d].task
    BY <2>1, ClientGotoFields
  <2>4. \A d \in Client : client'[d].pc \in {"idle", "sweep", "stopped"} => client'[d].task = {}
    BY <2>1, ClientGotoFields DEF PinsCounted
  <2> QED
    BY <2>2, <2>3, <2>4, PinsStay
<1> QED
  BY <1>1, <1>2, <1>3, <1>4, <1>5 DEF ClientContinue

-----------------------------------------------------------------------------
LEMMA ProtocolInit == Init => ProtocolInv
<1> SUFFICES ASSUME Init PROVE ProtocolInv
  OBVIOUS
<1>1. \A c \in Client : client[c] = Idle
  BY DEF Init
<1>2. Idle.pc = "idle" /\ Idle.task = {} /\ Idle.sweeping = FALSE /\ NoMonitor.pc = "none"
  BY DEF Idle, NoMonitor
<1>3. ASSUME NEW t \in Task PROVE TaskAgreed(t)
  BY <1>2, NoRecordType DEF Init, TaskAgreed
<1>4. ASSUME NEW c \in Client PROVE ~Sweeps(c) /\ \A t \in Task : ClientAgreed(c, t)
  BY <1>1, <1>2 DEF Sweeps, ClientAgreed, ClientAt
<1>5. PinsCounted
  <2>1. \A t \in Task : {c \in Client : client[c].task = {t}} = {}
    BY <1>1, <1>2
  <2> QED
    BY <1>1, <1>2, <2>1, FS_EmptySet DEF Init, PinsCounted
<1> QED
  BY <1>3, <1>4, <1>5 DEF ProtocolInv

(* A call does not make its client sweep that did not sweep before.        *)
LEMMA CallSweeps ==
  ASSUME TypeOK, NEW c \in Client, NEW s \in Task, NEW d \in Client, Sweeps(d)',
         \/ WaitBegin(c, s) \/ WaitTerminal(c, s) \/ CancelBegin(c, s) \/ ClientContinue(c, s)
  PROVE  Sweeps(d)
<1>1. CASE d # c \/ WaitTerminal(c, s)
  <2>1. client'[d] = client[d]
    BY <1>1, ClientGotoFields
    DEF WaitBegin, WaitTerminal, CancelBegin, ClientContinue, WaitEnd, CancelKill, CancelDoubt, CancelFinalize,
        CancelPublish, CancelReturn, ShutdownSkip, TypeOK, threadVars
  <2> QED
    BY <2>1 DEF Sweeps
<1>2. CASE d = c /\ (WaitBegin(c, s) \/ CancelBegin(c, s))
  BY <1>2, CallFields DEF Sweeps
<1>3. CASE d = c /\ (WaitEnd(c, s) \/ CancelReturn(c, s))
  <2>1. Idle.pc = "idle" /\ Idle.sweeping = FALSE
    BY DEF Idle
  <2> QED
    BY <1>3, <2>1, ReturnFields DEF Sweeps
<1>4. CASE d = c /\ ShutdownSkip(c, s)
  BY <1>4 DEF ShutdownSkip, Sweeps
<1>5. CASE d = c /\ (CancelKill(c, s) \/ CancelDoubt(c, s) \/ CancelFinalize(c, s) \/ CancelPublish(c, s))
  <2>1. PICK pc \in {"finalize", "doubt", "return", "publish"} : ClientGoto(c, pc)
    BY <1>5 DEF CancelKill, CancelDoubt, CancelFinalize, CancelPublish
  <2>2. client'[c].pc = pc /\ client'[c].sweeping = client[c].sweeping
    BY <2>1 DEF ClientGoto, TypeOK, ClientState
  <2> QED
    BY <1>5, <2>1, <2>2 DEF Sweeps
<1> QED
  BY <1>1, <1>2, <1>3, <1>4, <1>5 DEF ClientContinue

LEMMA ProtocolStep == SafetyInv /\ ProtocolInv /\ [Next]_vars => ProtocolInv'
<1> SUFFICES ASSUME SafetyInv, ProtocolInv, [Next]_vars PROVE ProtocolInv'
  OBVIOUS
<1>0. TypeOK /\ PinsCounted /\ (\A u \in Task : TaskAgreed(u))
      /\ (\A e \in Client, u \in Task : ClientAgreed(e, u)) /\ (\A c \in Client : Sweeps(c) => closed)
  BY SafetyPerTask DEF ProtocolInv
<1>1. ASSUME NEW c \in Client, NEW s \in Task, Submit(c, s) PROVE ProtocolInv'
  <2>1. ~closed /\ client' = client /\ waiters' = waiters /\ closed' = closed /\ process[s] = "none"
    BY <1>1 DEF Submit
  <2>2. ASSUME NEW t \in Task PROVE TaskAgreed(t)'
    <3>1. CASE t = s
      <4>1. /\ notified[s] = 0 /\ s \notin publications /\ notified' = notified /\ publications' = publications
            /\ s \in live' /\ process'[s] # "none" /\ monitor'[s].pc = "loop" /\ record'[s].status = "running"
        BY <1>0, <1>1, <2>1, RunningRecordType, MonitorStepFields DEF Submit, TypeOK, TaskAgreed
      <4> QED
        BY <3>1, <4>1 DEF TaskAgreed
    <3>2. CASE t # s
      BY <1>0, <1>1, <3>2, OtherStepKeeps, SameAgreed
    <3> QED
      BY <3>1, <3>2
  <2>3. ASSUME NEW d \in Client, NEW t \in Task PROVE ClientAgreed(d, t)'
    <3>1. ~Sweeps(d) /\ ~(Sweeps(d)')
      BY <1>0, <2>1 DEF Sweeps
    <3>2. CASE t = s
      <4>1. \A pc \in {"kill", "doubt", "finalize", "publish"} : ~ClientAt(d, s, pc)
        BY <1>0, <2>1, SafetyPerTask DEF ClientSound, ClientAgreed
      <4> QED
        BY <2>1, <3>1, <3>2, <4>1 DEF ClientAgreed, ClientAt
    <3>3. CASE t # s
      <4>1. TaskKeeps(t) /\ TaskSame(t)
        BY <1>1, <3>3, OtherStepKeeps
      <4>2. \A e \in Client : ClientAt(e, t, "publish")' => ClientAt(e, t, "publish")
        BY <2>1 DEF ClientAt
      <4>3. PublisherKeeps(d, t)
        BY <1>0, <4>1, <4>2, PublisherStays
      <4> QED
        BY <1>0, <2>1, <4>1, <4>3, BystanderAgreed
    <3> QED
      BY <3>2, <3>3
  <2>4. PinsCounted' /\ \A d \in Client : Sweeps(d)' => closed'
    BY <1>0, <2>1 DEF PinsCounted, Sweeps
  <2> QED
    BY <2>2, <2>3, <2>4 DEF ProtocolInv
<1>2. ASSUME NEW s \in Task, ChildStep(s) \/ DeadlinePasses(s) PROVE ProtocolInv'
  <2>1. client' = client /\ waiters' = waiters /\ closed' = closed
    BY <1>2 DEF ChildStep, ChildFinish, ChildExit, ChildDie, DeadlinePasses, tableVars, threadVars
  <2>2. ASSUME NEW t \in Task PROVE TaskKeeps(t) /\ TaskSame(t)
    BY <1>2, OtherStepKeeps
  <2>3. ASSUME NEW d \in Client, NEW t \in Task PROVE ClientAgreed(d, t)'
    <3>1. \A e \in Client : ClientAt(e, t, "publish")' => ClientAt(e, t, "publish")
      BY <2>1 DEF ClientAt
    <3>2. PublisherKeeps(d, t)
      BY <1>0, <2>2, <3>1, PublisherStays
    <3> QED
      BY <1>0, <2>1, <2>2, <3>2, BystanderAgreed
  <2> QED
    BY <1>0, <2>1, <2>2, <2>3, SameAgreed DEF ProtocolInv, PinsCounted, Sweeps
<1>3. ASSUME NEW s \in Task, MonitorStep(s) PROVE ProtocolInv'
  <2>1. client' = client /\ waiters' = waiters /\ closed' = closed
    BY <1>3 DEF MonitorStep, MonitorLoop, MonitorStop, MonitorTimeout, MonitorKill, MonitorDoubt,
     MonitorPoll, MonitorAlive, MonitorDrain, MonitorDecide, MonitorFinalize,
     MonitorPublish, MonitorCleanup, threadVars, tableVars
  <2>2. ASSUME NEW t \in Task PROVE TaskAgreed(t)'
    BY <1>0, <1>3, MonitorAgreed, OtherTask, SameAgreed
  <2>3. ASSUME NEW d \in Client, NEW t \in Task PROVE ClientAgreed(d, t)'
    BY <1>0, <1>3, MonitorClientAgreed
  <2> QED
    BY <1>0, <2>1, <2>2, <2>3 DEF ProtocolInv, PinsCounted, Sweeps
<1>4. ASSUME NEW c \in Client, NEW s \in Task,
             \/ WaitBegin(c, s) \/ WaitTerminal(c, s) \/ CancelBegin(c, s) \/ ClientContinue(c, s)
      PROVE  ProtocolInv'
  <2>1. closed' = closed
    BY <1>4 DEF WaitBegin, WaitTerminal, CancelBegin, ClientContinue, WaitEnd, CancelKill, CancelDoubt,
      CancelFinalize, CancelPublish, CancelReturn, ShutdownSkip, tableVars
  <2>2. ASSUME NEW t \in Task PROVE TaskAgreed(t)'
    BY <1>0, <1>4, ClientStepAgreed
  <2>3. ASSUME NEW d \in Client, NEW t \in Task PROVE ClientAgreed(d, t)'
    BY <1>0, <1>4, CallClientAgreed, SelfAgreed
  <2>4. ASSUME NEW d \in Client, Sweeps(d)' PROVE closed'
    BY <1>0, <1>4, <2>1, <2>4, CallSweeps
  <2> QED
    BY <1>0, <1>4, <2>2, <2>3, <2>4, CallPins DEF ProtocolInv
<1>5. ASSUME NEW c \in Client, ShutdownBegin(c) \/ ShutdownReturn(c) PROVE ProtocolInv'
  <2>1. ASSUME NEW t \in Task PROVE TaskKeeps(t) /\ TaskSame(t)
    BY <1>5, OtherStepKeeps
  <2>2. \A d \in Client : d # c => client'[d] = client[d]
    BY <1>0, <1>5, ClientGotoFields DEF ShutdownBegin, ShutdownReturn, TypeOK
  <2>3. /\ client'[c].pc \in {"sweep", "stopped"} /\ client'[c].task = client[c].task /\ client[c].task = {}
        /\ closed' /\ waiters' = waiters
        /\ client'[c].pc = "sweep" => client'[c].todo = live
    <3>1. CASE ShutdownBegin(c)
      <4>1. client[c].pc = "idle" /\ closed' = TRUE /\ waiters' = waiters
            /\ client'[c] = IF closed /\ live = {} THEN [Idle EXCEPT !.pc = "stopped"]
                            ELSE [Idle EXCEPT !.pc = "sweep", !.todo = live]
        BY <1>0, <3>1 DEF ShutdownBegin, TypeOK
      <4>2. [Idle EXCEPT !.pc = "stopped"].pc = "stopped" /\ [Idle EXCEPT !.pc = "stopped"].task = {}
        BY DEF Idle
      <4>3. LET swept == [Idle EXCEPT !.pc = "sweep", !.todo = live]
            IN  swept.pc = "sweep" /\ swept.task = {} /\ swept.todo = live
        BY DEF Idle
      <4> QED
        BY <1>0, <4>1, <4>2, <4>3 DEF PinsCounted
    <3>2. CASE ShutdownReturn(c)
      BY <1>0, <3>2, ClientGotoFields DEF ShutdownReturn, PinsCounted, Sweeps, tableVars
    <3> QED
      BY <1>5, <3>1, <3>2
  <2>4. ASSUME NEW d \in Client, NEW t \in Task PROVE ClientAgreed(d, t)'
    <3>1. CASE d # c
      <4>1. \A e \in Client : ClientAt(e, t, "publish")' => ClientAt(e, t, "publish")
        <5> SUFFICES ASSUME NEW e \in Client, ClientAt(e, t, "publish")' PROVE ClientAt(e, t, "publish")
          OBVIOUS
        <5>1. e # c
          BY <2>3 DEF ClientAt
        <5> QED
          BY <2>2, <5>1 DEF ClientAt
      <4>2. PublisherKeeps(d, t)
        BY <1>0, <2>1, <4>1, PublisherStays
      <4> QED
        BY <1>0, <2>1, <2>2, <3>1, <4>2, BystanderAgreed
    <3>2. CASE d = c /\ ShutdownBegin(c)
      <4>1. Alive(t)' => t \in live /\ client'[c].pc = "sweep"
        <5>1. Alive(t)' => t \in live
          BY <2>1, AliveRuns DEF TaskKeeps
        <5>2. live # {} => client'[c].pc = "sweep"
          BY <1>0, <3>2 DEF ShutdownBegin, TypeOK, Idle
        <5> QED
          BY <5>1, <5>2
      <4> QED
        BY <2>3, <3>2, <4>1 DEF ClientAgreed, ClientAt
    <3>3. CASE d = c /\ ShutdownReturn(c)
      <4>1. client[c].pc = "sweep" /\ client[c].todo = {} /\ Sweeps(c)
        BY <3>3 DEF ShutdownReturn, Sweeps
      <4>2. Alive(t)' => process'[t] = "dying" /\ record'[t].doubt
        BY <1>0, <2>1, <4>1 DEF ClientAgreed, ClientAt, TaskKeeps
      <4> QED
        BY <2>3, <3>3, <4>2 DEF ClientAgreed, ClientAt
    <3> QED
      BY <1>5, <3>1, <3>2, <3>3
  <2>5. PinsCounted'
    <3>1. \A d \in Client : client'[d].task = client[d].task
      BY <2>2, <2>3
    <3>2. \A d \in Client : client'[d].pc \in {"idle", "sweep", "stopped"} => client'[d].task = {}
      BY <1>0, <2>2, <2>3 DEF PinsCounted
    <3> QED
      BY <1>0, <2>3, <3>1, <3>2, PinsStay
  <2> QED
    BY <1>0, <2>1, <2>3, <2>4, <2>5, SameAgreed DEF ProtocolInv
<1>6. CASE UNCHANGED vars
  <2>1. /\ UNCHANGED <<record, intent, process, pending, notified, monitor, live, publications>>
        /\ UNCHANGED <<client, waiters, closed>>
    BY <1>6 DEF vars, tableVars, runVars, childVars, threadVars
  <2>2. ASSUME NEW t \in Task PROVE TaskKeeps(t) /\ TaskSame(t)
    BY <2>1, StillKeeps DEF TaskSame
  <2>3. ASSUME NEW d \in Client, NEW t \in Task PROVE ClientAgreed(d, t)'
    <3>1. \A e \in Client : ClientAt(e, t, "publish")' => ClientAt(e, t, "publish")
      BY <2>1 DEF ClientAt
    <3>2. PublisherKeeps(d, t)
      BY <1>0, <2>2, <3>1, PublisherStays
    <3> QED
      BY <1>0, <2>1, <2>2, <3>2, BystanderAgreed
  <2> QED
    BY <1>0, <2>1, <2>2, <2>3, SameAgreed DEF ProtocolInv, PinsCounted, Sweeps
<1> QED
  BY <1>1, <1>2, <1>3, <1>4, <1>5, <1>6 DEF Next

(* The monitors, the callers and the table agree in every reachable state. *)
THEOREM Protocol == Spec => [](SafetyInv /\ ProtocolInv)
<1>1. Init => ProtocolInv
  BY ProtocolInit
<1>2. SafetyInv /\ ProtocolInv /\ [Next]_vars => ProtocolInv'
  BY ProtocolStep
<1> QED
  BY <1>1, <1>2, Safety, PTL DEF Spec

(* The terminal observers are called exactly once for every task.          *)
THEOREM ObserversCalledOnce == Spec => []AnnouncedOnce
<1>1. ASSUME SafetyInv, ProtocolInv PROVE AnnouncedOnce
  BY <1>1 DEF ProtocolInv, TaskAgreed, AnnouncedOnce
<1> QED
  BY <1>1, Protocol, PTL

(* When shutdown has returned, only a child it could not kill is alive.    *)
THEOREM ShutdownComplete == Spec => []ShutdownStops
<1>1. ASSUME SafetyInv, ProtocolInv, NEW c \in Client, client[c].pc = "stopped"
      PROVE  closed /\ \A t \in Task : Alive(t) => process[t] = "dying" /\ record[t].doubt
  BY <1>1 DEF ProtocolInv, Sweeps, ClientAgreed, ClientAt
<1>2. SafetyInv /\ ProtocolInv => ShutdownStops
  BY <1>1 DEF ShutdownStops
<1> QED
  BY <1>2, Protocol, PTL

-----------------------------------------------------------------------------
(* Only a thread that finalizes ends a record.                             *)
LEMMA EndedByVerdict ==
  ASSUME SafetyInv, ProtocolInv, Next, NEW t \in Task, record[t].status = "running",
         record'[t].status # "running"
  PROVE  \/ MonitorAt(t, "finalize") /\ Conclude(t, monitor[t].verdict)
         \/ \E c \in Client : ClientAt(c, t, "finalize") /\ Conclude(t, client[c].verdict)
<1>0. TypeOK
  BY SafetyPerTask
<1>1. ASSUME NEW c \in Client, NEW s \in Task, Submit(c, s) PROVE FALSE
  BY <1>0, <1>1, RunningRecordType DEF Submit, TypeOK
<1>2. ASSUME NEW s \in Task, ChildStep(s) \/ DeadlinePasses(s) PROVE FALSE
  BY <1>2 DEF ChildStep, ChildFinish, ChildExit, ChildDie, DeadlinePasses, tableVars
<1>3. ASSUME NEW s \in Task, MonitorStep(s)
      PROVE  MonitorAt(t, "finalize") /\ Conclude(t, monitor[t].verdict)
  <2>1. CASE MonitorFinalize(s)
    <3>1. s = t
      BY <1>3, OtherTask DEF TaskSame
    <3> QED
      BY <2>1, <3>1 DEF MonitorFinalize, AlreadyConcluded
  <2>2. CASE MonitorDoubt(s)
    BY <1>0, <2>2, DoubtKeeps DEF MonitorDoubt, RecordKept
  <2>3. CASE MonitorPublish(s) \/ MonitorCleanup(s)
    BY <1>0, <2>3, PruneStatus DEF MonitorPublish, Publish, MonitorCleanup, TypeOK
  <2>4. CASE record' = record
    BY <2>4
  <2> QED
    BY <1>3, <2>1, <2>2, <2>3, <2>4
    DEF MonitorStep, MonitorLoop, MonitorStop, MonitorTimeout, MonitorKill,
        MonitorPoll, MonitorAlive, MonitorDrain, MonitorDecide, tableVars
<1>4. ASSUME NEW c \in Client, NEW s \in Task,
             WaitBegin(c, s) \/ WaitTerminal(c, s) \/ CancelBegin(c, s) \/ ClientContinue(c, s)
      PROVE  ClientAt(c, t, "finalize") /\ Conclude(t, client[c].verdict)
  <2>1. CASE CancelFinalize(c, s)
    <3>1. Conclude(s, client[c].verdict) /\ ClientAt(c, s, "finalize")
      BY <2>1 DEF CancelFinalize, AlreadyConcluded
    <3>2. s = t
      BY <1>0, <3>1 DEF Conclude, TypeOK
    <3> QED
      BY <3>1, <3>2
  <2>2. CASE CancelDoubt(c, s)
    BY <1>0, <2>2, DoubtKeeps DEF CancelDoubt, RecordKept
  <2>3. CASE CancelPublish(c, s) \/ WaitEnd(c, s) \/ CancelReturn(c, s) \/ WaitTerminal(c, s)
    BY <1>0, <2>3, PruneStatus DEF CancelPublish, Publish, WaitEnd, CancelReturn, Unpin, WaitTerminal, TypeOK
  <2>4. CASE record' = record
    BY <2>4
  <2> QED
    BY <1>4, <2>1, <2>2, <2>3, <2>4
    DEF WaitBegin, CancelBegin, ClientContinue, CancelKill, ShutdownSkip, tableVars
<1>5. ASSUME NEW c \in Client, ShutdownBegin(c) \/ ShutdownReturn(c) PROVE FALSE
  BY <1>5 DEF ShutdownBegin, ShutdownReturn, tableVars
<1> QED
  BY <1>1, <1>2, <1>3, <1>4, <1>5 DEF Next

(* A monitor that decides by the events has drained the pipe of the dead   *)
(* child, and nothing is written to it any more.                           *)
Drained(t) ==
  monitor[t].pc = "finalize" /\ monitor[t].back = "cleanup" => pipe[t] = "none"

PipesDrained == \A t \in Task : Drained(t)

LEMMA DrainedKept ==
  ASSUME NEW t \in Task, Drained(t), monitor'[t] = monitor[t], pipe'[t] \in {pipe[t], "none"}
  PROVE  Drained(t)'
BY DEF Drained

\* The monitor is not about to end a task by what the child sent.
Apart(t) == ~(monitor[t].pc = "finalize" /\ monitor[t].back = "cleanup")

LEMMA GotoApart ==
  ASSUME TypeOK, NEW s \in Task, NEW pc, pc # "finalize", MonitorGoto(s, pc)
  PROVE  Apart(s)'
BY MonitorStepFields DEF Apart

LEMMA MonitorDrained ==
  ASSUME SafetyInv, NEW s \in Task, MonitorStep(s), NEW t \in Task, Drained(t)
  PROVE  Drained(t)'
<1>0. TypeOK
  BY SafetyPerTask
<1>1. CASE t # s
  <2>1. monitor'[t] = monitor[t]
    BY <1>1, OtherTask DEF TaskSame
  <2>2. pipe'[t] = pipe[t]
    BY <1>0, <1>1
    DEF MonitorStep, MonitorLoop, MonitorStop, MonitorTimeout, MonitorKill, MonitorDoubt,
        MonitorPoll, MonitorAlive, MonitorDrain, MonitorDecide, MonitorFinalize,
        MonitorPublish, MonitorCleanup, ReceiveEvent, childVars, TypeOK
  <2> QED
    BY <2>1, <2>2, DrainedKept
<1>2. CASE t = s /\ MonitorDecide(s)
  BY <1>2 DEF MonitorDecide, childVars, Drained
<1>3. CASE t = s /\ MonitorDrain(s)
  BY <1>0, <1>3, DrainedKept DEF MonitorDrain, ReceiveEvent, TypeOK, threadVars
<1>4. CASE t = s /\ ~(MonitorDecide(s) \/ MonitorDrain(s))
  <2> SUFFICES Apart(s)'
    BY <1>4 DEF Apart, Drained
  <2>1. CASE MonitorLoop(s) \/ MonitorStop(s)
    <3>1. monitor'[s].pc \in {"cleanup", "work", "stop", "loop"} \/ monitor'[s].back = "loop"
      <4>1. CASE MonitorLoop(s)
        BY <1>0, <4>1 DEF MonitorLoop, TypeOK, Monitor
      <4>2. CASE MonitorStop(s)
        BY <1>0, <4>2 DEF MonitorStop, TypeOK, Monitor
      <4> QED
        BY <2>1, <4>1, <4>2
    <3> QED
      BY <3>1 DEF Apart
  <2>2. CASE MonitorKill(s)
    <3>1. CASE MonitorGoto(s, "doubt")
      BY <1>0, <3>1, GotoApart
    <3>2. CASE ~MonitorGoto(s, "doubt")
      BY <1>0, <2>2, <3>2 DEF MonitorKill, TypeOK, Apart
    <3> QED
      BY <3>1, <3>2
  <2>3. CASE MonitorCleanup(s)
    BY <1>0, <2>3 DEF MonitorCleanup, NoMonitor, TypeOK, Apart
  <2>4. CASE MonitorFinalize(s) \/ MonitorPublish(s)
    <3>1. monitor[s].back # "finalize"
      BY <1>0 DEF TypeOK, Monitor
    <3>2. MonitorGoto(s, "publish") \/ MonitorGoto(s, monitor[s].back)
      BY <2>4 DEF MonitorFinalize, MonitorPublish
    <3> QED
      BY <1>0, <3>1, <3>2, GotoApart
  <2>5. CASE MonitorTimeout(s) \/ MonitorDoubt(s) \/ MonitorPoll(s) \/ MonitorAlive(s)
    <3>1. \/ MonitorGoto(s, "loop") \/ MonitorGoto(s, "kill")
          \/ MonitorGoto(s, "alive") \/ MonitorGoto(s, "drain")
      BY <2>5 DEF MonitorTimeout, MonitorDoubt, MonitorPoll, MonitorAlive
    <3> QED
      BY <1>0, <3>1, GotoApart
  <2> QED
    BY <1>4, <2>1, <2>2, <2>3, <2>4, <2>5 DEF MonitorStep
<1> QED
  BY <1>1, <1>2, <1>3, <1>4

LEMMA DrainedStep == SafetyInv /\ PipesDrained /\ [Next]_vars => PipesDrained'
<1> SUFFICES ASSUME SafetyInv, PipesDrained, [Next]_vars, NEW t \in Task
             PROVE  Drained(t)'
  BY DEF PipesDrained
<1>0. TypeOK /\ TaskSound(t) /\ Drained(t)
  BY SafetyPerTask DEF PipesDrained
<1>1. ASSUME NEW s \in Task, MonitorStep(s) PROVE Drained(t)'
  BY <1>0, <1>1, MonitorDrained
<1>2. ASSUME NEW s \in Task, ChildFinish(s) PROVE Drained(t)'
  <2>1. CASE t = s
    BY <1>0, <1>2, <2>1 DEF ChildFinish, threadVars, TaskSound, Drained
  <2>2. CASE t # s
    BY <1>0, <1>2, <2>2, DrainedKept DEF ChildFinish, threadVars, TypeOK
  <2> QED
    BY <2>1, <2>2
<1>3. ASSUME NEW c \in Client, NEW s \in Task, Submit(c, s) PROVE Drained(t)'
  <2>1. pipe'[t] = pipe[t]
    BY <1>3 DEF Submit
  <2>2. CASE t = s
    BY <1>0, <1>3, <2>2, MonitorStepFields DEF Submit, Drained
  <2>3. CASE t # s
    BY <1>0, <1>3, <2>1, <2>3, MonitorStepFields, DrainedKept DEF Submit
  <2> QED
    BY <2>2, <2>3
<1>4. CASE UNCHANGED <<pipe, monitor>>
  BY <1>0, <1>4, DrainedKept
<1> QED
  BY <1>1, <1>2, <1>3, <1>4
  DEF Next, vars, ChildStep, ChildExit, ChildDie, DeadlinePasses, WaitBegin, WaitTerminal,
      CancelBegin, ClientContinue, WaitEnd, CancelKill, CancelDoubt, CancelFinalize,
      CancelPublish, CancelReturn, ShutdownSkip, ShutdownBegin, ShutdownReturn,
      childVars, threadVars

(* A verdict has its cause: the thread that gives it read the claim, or the *)
(* event, and neither can change before the verdict is given; a monitor     *)
(* that found no event had emptied the pipe of a dead child.                *)
THEOREM VerdictsCaused == Spec => VerdictHasCause
<1>1. ASSUME SafetyInv, ProtocolInv, PipesDrained, Next,
             NEW t \in Task, record[t].status = "running", IsTerminal(record'[t])
      PROVE  Cause(t)
  <2>0. TypeOK /\ TaskSound(t) /\ TaskAgreed(t) /\ Drained(t)
    BY <1>1, SafetyPerTask DEF ProtocolInv, PipesDrained
  <2>1. record'[t].status # "running"
    BY <1>1 DEF IsTerminal, TerminalStatus
  <2>2. CASE MonitorAt(t, "finalize") /\ Conclude(t, monitor[t].verdict)
    <3>1. monitor[t].verdict \in TerminalStatus
      BY <2>0, <2>2 DEF MonitorAt, TaskSound
    <3>2. record'[t].status = monitor[t].verdict
      BY <2>0, <2>2, <3>1, ConcludedType DEF Conclude, TypeOK, Status
    <3>3. CASE monitor[t].verdict \in Claim
      BY <1>1, <2>0, <2>2, <3>2, <3>3 DEF MonitorAt, TaskAgreed, Cause, Claim
    <3>4. CASE monitor[t].verdict \notin Claim
      <4>1. monitor[t].verdict = EventVerdict(pending[t]) /\ pipe[t] = "none"
        BY <1>1, <2>0, <2>2, <3>4 DEF MonitorAt, TaskAgreed, Drained
      <4>2. EventVerdict(pending[t]) = "crashed" => pending[t] = "none"
        BY <2>0 DEF EventVerdict, TypeOK, Event
      <4> QED
        BY <3>2, <3>4, <4>1, <4>2 DEF Cause, Claim
    <3> QED
      BY <3>3, <3>4
  <2>3. ASSUME NEW c \in Client, ClientAt(c, t, "finalize"), Conclude(t, client[c].verdict)
        PROVE  Cause(t)
    <3>1. intent[t] = client[c].verdict /\ intent[t] \in Claim
      BY <1>1, <2>3 DEF ProtocolInv, ClientAgreed
    <3>2. record'[t].status = client[c].verdict
      BY <2>0, <2>3, <3>1, ClaimStatus, ConcludedType DEF Conclude, TypeOK, Status
    <3> QED
      BY <3>1, <3>2 DEF Cause, Claim
  <2> QED
    BY <1>1, <2>1, <2>2, <2>3, EndedByVerdict
<1>2. SafetyInv /\ ProtocolInv /\ PipesDrained /\ [Next]_vars =>
        [\A t \in Task : record[t].status = "running" /\ IsTerminal(record'[t]) => Cause(t)]_vars
  BY <1>1
<1>3. Init => PipesDrained
  BY DEF Init, PipesDrained, Drained, NoMonitor
<1>4. SafetyInv /\ PipesDrained /\ [Next]_vars => PipesDrained'
  BY DrainedStep
<1> QED
  BY <1>2, <1>3, <1>4, Protocol, PTL DEF Spec, VerdictHasCause

-----------------------------------------------------------------------------
(* The supervisor implements the table.  What the table is told: which     *)
(* tasks were claimed, and how far a child has come.                       *)
Doomed == {t \in Task : intent[t] # "none"}
ChildOf == [t \in Task |-> IF process[t] = "none" THEN "new"
                           ELSE IF process[t] = "dead" THEN "gone" ELSE "up"]
tableView == <<record, clock, live, Doomed, ChildOf, waiters, publications, publications, closed>>

\* The definitions the table takes from RoleTaskRecords are the supervisor's own.
LEMMA SameCardinality == \A S : Table!Cardinality(S) = Cardinality(S)
BY DEF Table!Cardinality, Cardinality

LEMMA SameTerminal ==
  Table!TerminalStatus = TerminalStatus /\ \A r : Table!IsTerminal(r) <=> IsTerminal(r)
BY DEF Table!IsTerminal, IsTerminal, Table!TerminalStatus, TerminalStatus

LEMMA SameRecords ==
  /\ \A n : Table!RunningRecord(n) = RunningRecord(n)
  /\ \A r, v : Table!Concluded(r, v) = Concluded(r, v)
  /\ Table!NoRecord = NoRecord
BY DEF Table!NoRecord, NoRecord, Table!RunningRecord, RunningRecord, Table!Concluded, Concluded

LEMMA SamePruned == \A R, L, W, P : Table!Pruned(R, L, W, P) = Pruned(R, L, W, P)
<1>1. \A R, L, W, P : Table!Removable(R, L, W, P) = Removable(R, L, W, P)
  BY DEF Table!Removable, Removable, Table!IsTerminal, IsTerminal, Table!TerminalStatus, TerminalStatus
<1>2. \A R : Table!Present(R) = Present(R)
  BY DEF Table!Present, Present, Table!IsPresent, IsPresent
<1> QED
  BY <1>1, <1>2, SameRecords, SameCardinality DEF Table!Pruned, Pruned

\* How the small steps of threads look in the table.
LEMMA ViewStays ==
  ASSUME UNCHANGED <<record, clock, live, intent, process, waiters, publications, closed>>
  PROVE  UNCHANGED tableView
BY DEF tableView, Doomed, ChildOf

LEMMA KillView ==
  ASSUME TypeOK, NEW t \in Task, process[t] # "none", KillConfirmed(t) \/ KillUnconfirmed(t),
         UNCHANGED <<record, clock, live, intent, waiters, publications, closed>>
  PROVE  Table!ChildGone(t) \/ UNCHANGED tableView
<1>0. Doomed' = Doomed /\ process \in [Task -> ProcessState]
  BY DEF Doomed, TypeOK
<1>1. CASE KillConfirmed(t) /\ process[t] # "dead"
  <2>1. ChildOf[t] = "up"
    BY <1>1 DEF ChildOf
  <2>2. ChildOf' = [ChildOf EXCEPT ![t] = "gone"]
    BY <1>0, <1>1 DEF ChildOf, KillConfirmed
  <2> QED
    BY <1>0, <2>1, <2>2 DEF Table!ChildGone, Doomed, ChildOf
<1>2. CASE KillConfirmed(t) /\ process[t] = "dead"
  <2>1. process' = process
    BY <1>0, <1>2 DEF KillConfirmed
  <2> QED
    BY <2>1, ViewStays
<1>3. CASE KillUnconfirmed(t)
  <2>1. ChildOf' = ChildOf
    BY <1>0, <1>3 DEF ChildOf, KillUnconfirmed, Alive, Executing
  <2> QED
    BY <1>0, <2>1 DEF tableView
<1> QED
  BY <1>1, <1>2, <1>3

LEMMA DoubtView ==
  ASSUME NEW t \in Task, RaiseDoubt(t), record[t].status = "running" => intent[t] # "none",
         UNCHANGED <<clock, live, intent, process, waiters, publications, closed>>
  PROVE  Table!Suspect(t) \/ UNCHANGED tableView
<1>1. CASE record[t].status = "running"
  <2>1. record' = [record EXCEPT ![t].doubt = TRUE] /\ t \in Doomed
    BY <1>1 DEF RaiseDoubt, Doomed
  <2> QED
    BY <1>1, <2>1 DEF Table!Suspect, Doomed, ChildOf
<1>2. CASE record[t].status # "running"
  BY <1>2, ViewStays DEF RaiseDoubt
<1> QED
  BY <1>1, <1>2

LEMMA VerdictView ==
  ASSUME NEW t \in Task, NEW v \in TerminalStatus, Conclude(t, v) \/ AlreadyConcluded(t),
         process[t] = "dead", record[t].status = "running" /\ v \in Claim => intent[t] # "none",
         UNCHANGED <<clock, live, intent, process, waiters, closed>>
  PROVE  Table!Conclude(t, v) \/ UNCHANGED tableView
<1>1. CASE Conclude(t, v)
  <2>1. ChildOf[t] = "gone" /\ (v \in {"cancelled", "timeout"} => t \in Doomed)
    BY <1>1 DEF ChildOf, Conclude, Doomed, Claim
  <2>2. record' = [record EXCEPT ![t] = Table!Concluded(@, v)]
    BY <1>1, SameRecords DEF Conclude
  <2> QED
    BY <1>1, <2>1, <2>2 DEF Conclude, Table!Conclude, Doomed, ChildOf
<1>2. CASE AlreadyConcluded(t)
  BY <1>2, ViewStays DEF AlreadyConcluded
<1> QED
  BY <1>1, <1>2

LEMMA PublishView ==
  ASSUME NEW t \in Task, Publish(t), t \in publications,
         UNCHANGED <<clock, live, intent, process, waiters, closed>>
  PROVE  Table!Announced(t)
<1>1. record' = Table!Pruned(record, live, waiters, publications') /\ publications' = publications \ {t}
  BY SamePruned DEF Publish
<1> QED
  BY <1>1 DEF Table!Announced, Doomed, ChildOf

LEMMA MonitorView ==
  ASSUME SafetyInv, ProtocolInv, NEW t \in Task, MonitorStep(t)
  PROVE  Table!TaskStep(t) \/ UNCHANGED tableView
<1>0. TypeOK /\ TaskSound(t) /\ TaskAgreed(t)
  BY SafetyPerTask DEF ProtocolInv
<1>1. CASE MonitorLoop(t) \/ MonitorStop(t) \/ MonitorPoll(t) \/ MonitorAlive(t) \/ MonitorDrain(t) \/ MonitorDecide(t)
  BY <1>1, ViewStays
  DEF MonitorLoop, MonitorStop, MonitorPoll, MonitorAlive, MonitorDrain, MonitorDecide, tableVars, runVars, childVars
<1>2. CASE MonitorTimeout(t)
  <2>1. UNCHANGED <<record, clock, live, process, waiters, publications, closed>> /\ monitor[t].pc = "work"
    BY <1>2 DEF MonitorTimeout, MonitorAt, tableVars, childVars
  <2>2. intent' = intent \/ (intent[t] # "cancelled" /\ intent' = [intent EXCEPT ![t] = "timeout"])
    BY <1>2 DEF MonitorTimeout
  <2>3. CASE intent[t] # "none"
    <3>1. Doomed' = Doomed
      BY <1>0, <2>2, <2>3 DEF Doomed, TypeOK
    <3> QED
      BY <2>1, <3>1 DEF tableView, ChildOf
  <2>4. CASE intent[t] = "none" /\ intent' = [intent EXCEPT ![t] = "timeout"]
    <3>1. record[t].status = "running"
      BY <1>0, <2>1, <2>4 DEF TaskAgreed
    <3>2. t \notin Doomed /\ Doomed' = Doomed \cup {t}
      BY <1>0, <2>4 DEF Doomed, TypeOK
    <3> QED
      BY <2>1, <3>1, <3>2 DEF Table!TaskStep, Table!Doom, Doomed, ChildOf
  <2>5. CASE intent' = intent
    BY <2>1, <2>5, ViewStays
  <2> QED
    BY <2>2, <2>3, <2>4, <2>5
<1>3. CASE MonitorKill(t)
  <2>1. process[t] # "none"
    BY <1>0, <1>3 DEF MonitorKill, MonitorAt, TaskSound
  <2> QED
    BY <1>0, <1>3, <2>1, KillView DEF MonitorKill, tableVars, runVars, Table!TaskStep
<1>4. CASE MonitorDoubt(t)
  <2>1. record[t].status = "running" => intent[t] # "none"
    BY <1>0, <1>4 DEF MonitorDoubt, MonitorAt, TaskAgreed
  <2> QED
    BY <1>4, <2>1, DoubtView DEF MonitorDoubt, runVars, childVars, Table!TaskStep
<1>5. CASE MonitorFinalize(t)
  <2> DEFINE v == monitor[t].verdict
  <2>1. v \in TerminalStatus /\ process[t] = "dead"
    BY <1>0, <1>5 DEF MonitorFinalize, MonitorAt, TaskSound
  <2>2. record[t].status = "running" /\ v \in Claim => intent[t] # "none"
    BY <1>0, <1>5, ClaimStatus DEF MonitorFinalize, MonitorAt, TaskAgreed
  <2>3. Conclude(t, v) \/ AlreadyConcluded(t)
    BY <1>5 DEF MonitorFinalize
  <2>4. UNCHANGED <<clock, live, intent, process, waiters, closed>>
    BY <1>5 DEF MonitorFinalize, runVars, childVars
  <2> HIDE DEF v
  <2>5. Table!Conclude(t, v) \/ UNCHANGED tableView
    BY <2>1, <2>2, <2>3, <2>4, VerdictView
  <2> QED
    BY <2>1, <2>5, SameTerminal DEF Table!TaskStep
<1>6. CASE MonitorPublish(t)
  BY <1>0, <1>6, PublishView DEF MonitorPublish, MonitorAt, TaskAgreed, runVars, childVars, Table!TaskStep
<1>7. CASE MonitorCleanup(t)
  <2>1. t \in live /\ record[t].status # "running" /\ IsPresent(record[t])
    BY <1>0, <1>7 DEF MonitorCleanup, MonitorAt, TaskAgreed, TaskSound
  <2>2. ~Alive(t) /\ Table!IsTerminal(record[t])
    BY <1>0, <2>1, AliveRuns, StatusCases, SameTerminal DEF TypeOK
  <2>3. /\ live' = live \ {t} /\ intent' = [intent EXCEPT ![t] = "none"]
        /\ record' = Table!Pruned(record, live', waiters, publications)
        /\ UNCHANGED <<clock, process, waiters, publications, closed>>
    BY <1>7, <2>2, SamePruned DEF MonitorCleanup
  <2>4. Doomed' = Doomed \ {t}
    BY <1>0, <2>3 DEF Doomed, TypeOK
  <2> QED
    BY <2>1, <2>2, <2>3, <2>4 DEF Table!TaskStep, Table!Release, Doomed, ChildOf
<1> QED
  BY <1>1, <1>2, <1>3, <1>4, <1>5, <1>6, <1>7 DEF MonitorStep

LEMMA ClientView ==
  ASSUME SafetyInv, ProtocolInv, NEW c \in Client, NEW t \in Task,
         WaitBegin(c, t) \/ WaitTerminal(c, t) \/ CancelBegin(c, t) \/ ClientContinue(c, t)
  PROVE  Table!TaskStep(t) \/ Table!CallStep \/ UNCHANGED tableView
<1>0. TypeOK /\ ClientSound(c, t) /\ ClientAgreed(c, t) /\ PinsCounted
  BY SafetyPerTask DEF ProtocolInv
<1>1. CASE WaitBegin(c, t) \/ CancelBegin(c, t)
  <2>1. Pin(t) /\ record[t].status = "running"
        /\ UNCHANGED <<record, clock, live, process, publications, closed>>
    BY <1>1 DEF WaitBegin, CancelBegin, runVars, childVars
  <2>2. waiters[t] < Cardinality(Client)
    <3>1. client[c].task = {} /\ client'[c].task = {t} /\ client'[c].pc \in {"wait", "kill"}
      BY <1>0, <1>1, CallFields DEF PinsCounted
    <3>2. \A d \in Client : d # c => client'[d] = client[d]
      BY <1>0, <1>1 DEF WaitBegin, CancelBegin, TypeOK
    <3> QED
      BY <1>0, <2>1, <3>1, <3>2, PinAdded
  <2>3. Table!Pin(t)
    BY <2>1, <2>2, SameCardinality DEF Table!Pin, Pin
  <2>4. Doomed' = Doomed \/ Doomed' = Doomed \cup {t}
    <3>1. CASE WaitBegin(c, t)
      BY <3>1 DEF WaitBegin, runVars, Doomed
    <3>2. CASE CancelBegin(c, t)
      BY <1>0, <3>2 DEF CancelBegin, Doomed, TypeOK
    <3> QED
      BY <1>1, <3>1, <3>2
  <2> QED
    BY <2>1, <2>3, <2>4 DEF Table!CallStep, Table!PinStep, Doomed, ChildOf
<1>2. CASE WaitEnd(c, t) \/ CancelReturn(c, t)
  <2>1. Unpin(t) /\ UNCHANGED <<clock, live, intent, process, publications, closed>>
    BY <1>2 DEF WaitEnd, CancelReturn, runVars, childVars
  <2>2. client[c].task = {t} /\ client'[c].task = {}
    <3>1. Idle.task = {}
      BY DEF Idle
    <3> QED
      BY <1>0, <1>2, <3>1, ReturnFields DEF WaitEnd, CancelReturn, ClientAt
  <2>3. \A d \in Client : d # c => client'[d] = client[d]
    BY <1>0, <1>2 DEF WaitEnd, CancelReturn, TypeOK
  <2>4. waiters[t] > 0
    BY <1>0, <2>1, <2>2, <2>3, PinDropped DEF Unpin
  <2>5. Table!Unpin(t)
    BY <2>1, <2>4, SamePruned DEF Table!Unpin, Unpin
  <2> QED
    BY <2>1, <2>5 DEF Table!CallStep, Table!PinStep, Doomed, ChildOf
<1>3. CASE WaitTerminal(c, t)
  <2>1. Table!Prune
    BY <1>3, SamePruned DEF WaitTerminal, Table!Prune
  <2> QED
    BY <1>3, <2>1 DEF WaitTerminal, runVars, childVars, Table!CallStep, Doomed, ChildOf
<1>4. CASE CancelKill(c, t)
  <2>1. process[t] # "none"
    BY <1>0, <1>4 DEF CancelKill, ClientSound
  <2> QED
    BY <1>0, <1>4, <2>1, KillView DEF CancelKill, tableVars, runVars, Table!TaskStep
<1>5. CASE CancelDoubt(c, t)
  <2>1. record[t].status = "running" => intent[t] # "none"
    BY <1>0, <1>5, ClaimStatus DEF CancelDoubt, ClientAgreed
  <2> QED
    BY <1>5, <2>1, DoubtView DEF CancelDoubt, runVars, childVars, Table!TaskStep
<1>6. CASE CancelFinalize(c, t)
  <2> DEFINE v == client[c].verdict
  <2>1. v \in TerminalStatus /\ process[t] = "dead"
    BY <1>0, <1>6 DEF CancelFinalize, ClientSound
  <2>2. record[t].status = "running" /\ v \in Claim => intent[t] # "none"
    BY <1>0, <1>6, ClaimStatus DEF CancelFinalize, ClientAgreed
  <2>3. Conclude(t, v) \/ AlreadyConcluded(t)
    BY <1>6 DEF CancelFinalize
  <2>4. UNCHANGED <<clock, live, intent, process, waiters, closed>>
    BY <1>6 DEF CancelFinalize, runVars, childVars
  <2> HIDE DEF v
  <2>5. Table!Conclude(t, v) \/ UNCHANGED tableView
    BY <2>1, <2>2, <2>3, <2>4, VerdictView
  <2> QED
    BY <2>1, <2>5, SameTerminal DEF Table!TaskStep
<1>7. CASE CancelPublish(c, t)
  BY <1>0, <1>7, PublishView DEF CancelPublish, ClientAgreed, runVars, childVars, Table!TaskStep
<1>8. CASE ShutdownSkip(c, t)
  BY <1>8, ViewStays DEF ShutdownSkip, tableVars, runVars, childVars
<1> QED
  BY <1>1, <1>2, <1>3, <1>4, <1>5, <1>6, <1>7, <1>8 DEF ClientContinue

(* Every step of the supervisor is a step of the table, or none.           *)
LEMMA StepView == SafetyInv /\ ProtocolInv /\ [Next]_vars => Table!TableNext \/ UNCHANGED tableView
<1> SUFFICES ASSUME SafetyInv, ProtocolInv, [Next]_vars
             PROVE  Table!TableNext \/ UNCHANGED tableView
  OBVIOUS
<1>0. TypeOK
  BY SafetyPerTask
<1>1. ASSUME NEW c \in Client, NEW t \in Task, Submit(c, t) PROVE Table!Admit(t)
  <2>1. ChildOf[t] = "new" /\ ChildOf' = [ChildOf EXCEPT ![t] = "up"]
    BY <1>0, <1>1 DEF Submit, ChildOf, TypeOK
  <2>2. Table!RoleAvailable(RoleOf[t])
    BY <1>1, SameTerminal DEF Submit, RoleAvailable, Table!RoleAvailable
  <2>3. record' = [record EXCEPT ![t] = Table!RunningRecord(clock)]
    BY <1>1, SameRecords DEF Submit
  <2> QED
    BY <1>1, <2>1, <2>2, <2>3 DEF Submit, Table!Admit, ChildOf
<1>2. ASSUME NEW t \in Task, ChildStep(t) PROVE Table!TaskStep(t) \/ UNCHANGED tableView
  <2>0. UNCHANGED <<record, clock, live, intent, waiters, publications, closed>>
    BY <1>2 DEF ChildStep, ChildFinish, ChildExit, ChildDie, tableVars, runVars
  <2>1. CASE ChildFinish(t)
    <3>1. ChildOf' = ChildOf
      BY <1>0, <2>1 DEF ChildFinish, ChildOf, TypeOK
    <3> QED
      BY <2>0, <3>1 DEF tableView, Doomed
  <2>2. CASE ChildExit(t) \/ ChildDie(t)
    <3>1. process[t] # "none" /\ KillConfirmed(t)
      BY <2>2 DEF ChildExit, ChildDie, Executing, KillConfirmed
    <3> QED
      BY <1>0, <2>0, <3>1, KillView DEF Table!TaskStep
  <2> QED
    BY <1>2, <2>1, <2>2 DEF ChildStep
<1>3. ASSUME NEW t \in Task, DeadlinePasses(t) PROVE UNCHANGED tableView
  BY <1>3, ViewStays DEF DeadlinePasses, tableVars, runVars
<1>4. ASSUME NEW c \in Client, ShutdownBegin(c) \/ ShutdownReturn(c) PROVE Table!Close \/ UNCHANGED tableView
  <2>1. CASE ShutdownBegin(c)
    BY <2>1 DEF ShutdownBegin, Table!Close, runVars, childVars, ChildOf, Doomed
  <2>2. CASE ShutdownReturn(c)
    BY <2>2, ViewStays DEF ShutdownReturn, tableVars, runVars, childVars
  <2> QED
    BY <1>4, <2>1, <2>2
<1>5. CASE UNCHANGED vars
  BY <1>5, ViewStays DEF vars, tableVars, runVars, childVars, threadVars
<1> QED
  BY <1>1, <1>2, <1>3, <1>4, <1>5, MonitorView, ClientView DEF Next, Table!TableNext

(* In every interleaving of its threads the supervisor is the table that   *)
(* its callers are built on.                                               *)
THEOREM SupervisorIsTable == Spec => ImplementsTable
<1>1. Init => Table!TableInit
  <2> SUFFICES ASSUME Init PROVE Table!TableInit
    OBVIOUS
  <2>1. Doomed = {} /\ ChildOf = [t \in Task |-> "new"]
    BY DEF Init, Doomed, ChildOf
  <2> QED
    BY <2>1, SameRecords DEF Init, Table!TableInit, Doomed, ChildOf
<1>2. SafetyInv /\ ProtocolInv /\ [Next]_vars => [Table!TableNext]_(Table!tvars)
  BY StepView DEF Table!tvars, tableView, Doomed, ChildOf
<1> QED
  BY <1>1, <1>2, Protocol, PTL DEF Spec, ImplementsTable, Table!TableSpec

=============================================================================
