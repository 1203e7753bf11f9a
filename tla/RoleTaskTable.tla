---------------------------- MODULE RoleTaskTable ----------------------------
(***************************************************************************)
(* The role worker supervisor as its callers see it: the record table with *)
(* its runtimes, pins and publications, without the monitor threads, kills *)
(* and pipes of RoleWorkerSupervisor, which implements this specification. *)
(* The parts of the program that call the supervisor are built on it.      *)
(***************************************************************************)
EXTENDS RoleTaskRecords

CONSTANT MaxPins   \* bound on the callers that pin one record at a time

ASSUME MaxPinsAssumption == MaxPins \in Nat

VARIABLES
  record,       \* _records
  clock,        \* insertion stamp of the next record
  live,         \* keys of _runtimes
  doomed,       \* runtimes with a termination intent
  child,        \* "new", "up" or "gone": the child process of a task
  waiters,      \* _waiters
  publications, \* _terminal_publications
  announcing,   \* tasks some thread is calling the terminal observers for
  closed        \* _shutdown

tvars == <<record, clock, live, doomed, child, waiters, publications,
           announcing, closed>>

TableInit ==
  /\ record = [t \in Task |-> NoRecord]
  /\ clock = 0
  /\ live = {}
  /\ doomed = {}
  /\ child = [t \in Task |-> "new"]
  /\ waiters = [t \in Task |-> 0]
  /\ publications = {}
  /\ announcing = {}
  /\ closed = FALSE

\* submit refuses a role whose worker was told to stop and may still run.
RoleAvailable(r) ==
  \A s \in live \cap doomed :
    RoleOf[s] = r => IsTerminal(record[s]) /\ record[s].confirmed

Admit(t) ==
  /\ ~closed
  /\ child[t] = "new"
  /\ RoleAvailable(RoleOf[t])
  /\ record' = [record EXCEPT ![t] = RunningRecord(clock)]
  /\ clock' = clock + 1
  /\ live' = live \cup {t}
  /\ child' = [child EXCEPT ![t] = "up"]
  /\ UNCHANGED <<doomed, waiters, publications, announcing, closed>>

\* The child of a task ends, by itself or killed.
ChildGone(t) ==
  /\ child[t] = "up"
  /\ child' = [child EXCEPT ![t] = "gone"]
  /\ UNCHANGED <<record, clock, live, doomed, waiters, publications,
                 announcing, closed>>

\* A cancel or the deadline claims the task.
Doom(t) ==
  /\ record[t].status = "running"
  /\ t \notin doomed
  /\ doomed' = doomed \cup {t}
  /\ UNCHANGED <<record, clock, live, child, waiters, publications,
                 announcing, closed>>

\* A kill could not be confirmed.
Suspect(t) ==
  /\ record[t].status = "running"
  /\ t \in doomed
  /\ record' = [record EXCEPT ![t].doubt = TRUE]
  /\ UNCHANGED <<clock, live, doomed, child, waiters, publications,
                 announcing, closed>>

\* Mutant of Conclude: the verdict does not wait for the child.
ConcludeEarly(t, v) ==
  /\ record[t].status = "running"
  /\ v \in {"cancelled", "timeout"} => t \in doomed
  /\ record' = [record EXCEPT ![t] = Concluded(@, v)]
  /\ publications' = publications \cup {t}
  /\ announcing' = announcing \cup {t}
  /\ UNCHANGED <<clock, live, doomed, child, waiters, closed>>

Conclude(t, v) ==
  /\ record[t].status = "running"
  /\ child[t] = "gone"
  /\ v \in {"cancelled", "timeout"} => t \in doomed
  /\ record' = [record EXCEPT ![t] = Concluded(@, v)]
  /\ publications' = publications \cup {t}
  /\ announcing' = announcing \cup {t}
  /\ UNCHANGED <<clock, live, doomed, child, waiters, closed>>

\* The observers have returned.
Announced(t) ==
  /\ t \in announcing
  /\ announcing' = announcing \ {t}
  /\ publications' = publications \ {t}
  /\ record' = Pruned(record, live, waiters, publications')
  /\ UNCHANGED <<clock, live, doomed, child, waiters, closed>>

\* The monitor ends and gives the runtime back.
Release(t) ==
  /\ t \in live
  /\ IsTerminal(record[t])
  /\ live' = live \ {t}
  /\ doomed' = doomed \ {t}
  /\ record' = Pruned(record, live', waiters, publications)
  /\ UNCHANGED <<clock, child, waiters, publications, announcing, closed>>

\* wait and cancel pin a record they found running.
Pin(t) ==
  /\ record[t].status = "running"
  /\ waiters[t] < MaxPins
  /\ waiters' = [waiters EXCEPT ![t] = @ + 1]

Unpin(t) ==
  /\ waiters[t] > 0
  /\ waiters' = [waiters EXCEPT ![t] = @ - 1]
  /\ record' = Pruned(record, live, waiters', publications)

PinStep(t) ==
  \/ Pin(t) /\ UNCHANGED <<record, doomed>>
  \/ Pin(t) /\ doomed' = doomed \cup {t} /\ UNCHANGED record
  \/ Unpin(t) /\ UNCHANGED doomed

\* wait on a terminal record prunes on its way out.
Prune ==
  /\ record' = Pruned(record, live, waiters, publications)
  /\ UNCHANGED waiters

CallStep ==
  /\ \/ \E t \in Task : PinStep(t)
     \/ Prune /\ UNCHANGED doomed
  /\ UNCHANGED <<clock, live, child, publications, announcing, closed>>

Close ==
  /\ closed' = TRUE
  /\ UNCHANGED <<record, clock, live, doomed, child, waiters, publications,
                 announcing>>

TaskStep(t) ==
  \/ ChildGone(t) \/ Doom(t) \/ Suspect(t)
  \/ \E v \in TerminalStatus : Conclude(t, v)
  \/ Announced(t) \/ Release(t)

TableNext ==
  \/ \E t \in Task : Admit(t) \/ TaskStep(t)
  \/ CallStep
  \/ Close

TableSpec == TableInit /\ [][TableNext]_tvars

-----------------------------------------------------------------------------
(* The table implements the ledger: one verdict per task, given when its   *)
(* process is gone, kept until the record is forgotten.                    *)
LedgerEntry ==
  [t \in Task |-> IF record[t].status = "running" THEN "open"
                  ELSE IF IsPresent(record[t]) THEN record[t].status
                  ELSE IF child[t] = "new" THEN "new"
                  ELSE "forgotten"]

Ledger == INSTANCE WorkerLedger WITH
  Verdict <- TerminalStatus,
  entry <- LedgerEntry,
  up <- {t \in Task : child[t] = "up"}

ImplementsLedger == Ledger!LedgerSpec

=============================================================================
