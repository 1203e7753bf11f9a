--------------------------- MODULE RoleTaskProofs ---------------------------
(***************************************************************************)
(* The record table and what is built on it, for any set of tasks and any  *)
(* bound on the table: the table implements the ledger, a lease keeps the  *)
(* worker of a dispatch its own, and a restart brings back the verdicts it *)
(* knows and loses none it did not have to lose.                           *)
(***************************************************************************)
EXTENDS RoleDispatchService, RoleTaskLifespan, FiniteSetTheorems, WellFoundedInduction, TLAPS

(* The inductive invariant: a terminal record stands for a dead child, and *)
(* a task without a child has no record.  Without it a record could be     *)
(* dropped for a task the ledger would call new again.                     *)
TableInv ==
  /\ record \in [Task -> Record]
  /\ clock \in Nat
  /\ child \in [Task -> {"new", "up", "gone"}]
  /\ \A t \in Task : IsTerminal(record[t]) => child[t] = "gone"
  /\ \A t \in Task : IsPresent(record[t]) => child[t] # "new"

LEMMA NoRecordFields ==
  NoRecord \in Record /\ ~IsTerminal(NoRecord) /\ ~IsPresent(NoRecord)
  /\ NoRecord.status = "absent"
BY DEF NoRecord, Record, Status, TerminalStatus, IsTerminal, IsPresent

LEMMA StatusCases ==
  ASSUME NEW r \in Record
  PROVE  /\ IsTerminal(r) <=> IsPresent(r) /\ r.status # "running"
         /\ IsTerminal(r) <=> r.status \in TerminalStatus
BY DEF Record, Status, TerminalStatus, IsPresent, IsTerminal

(* Retention removes terminal records and leaves the others alone.         *)
LEMMA PrunedRemoves ==
  ASSUME NEW R, NEW L, NEW W, NEW P, NEW t \in Task
  PROVE  \/ Pruned(R, L, W, P)[t] = R[t]
         \/ Pruned(R, L, W, P)[t] = NoRecord /\ IsTerminal(R[t])
BY DEF Pruned, Removable

LEMMA RunningFields ==
  ASSUME NEW n \in Nat
  PROVE  /\ RunningRecord(n) \in Record /\ RunningRecord(n).status = "running"
         /\ ~IsTerminal(RunningRecord(n)) /\ IsPresent(RunningRecord(n))
BY DEF RunningRecord, NoRecord, Record, Status, TerminalStatus, IsTerminal, IsPresent

LEMMA ConcludedFields ==
  ASSUME NEW r \in Record, NEW v \in TerminalStatus
  PROVE  Concluded(r, v) \in Record /\ Concluded(r, v).status = v
BY DEF Concluded, Record, Status

\* What a step that prunes does to one task.
Prunes == \E W, P : record' = Pruned(record, live', W, P)

LEMMA PruneEffect ==
  ASSUME TableInv, record' = record \/ Prunes, UNCHANGED <<child, clock>>
  PROVE  /\ TableInv'
         /\ \A t \in Task : \/ record'[t] = record[t]
                            \/ record'[t] = NoRecord /\ IsTerminal(record[t])
<1>1. ASSUME NEW t \in Task
      PROVE  \/ record'[t] = record[t]
             \/ record'[t] = NoRecord /\ IsTerminal(record[t])
  BY PrunedRemoves DEF Prunes
<1>2. record' \in [Task -> Record]
  <2>1. \A t \in Task : record'[t] \in Record
    BY <1>1, NoRecordFields DEF TableInv
  <2>2. record' = [t \in Task |-> record'[t]]
    BY DEF TableInv, Prunes, Pruned
  <2> QED
    BY <2>1, <2>2
<1> QED
  BY <1>1, <1>2, NoRecordFields DEF TableInv

-----------------------------------------------------------------------------
LEMMA InitInv == TableInit => TableInv
BY NoRecordFields DEF TableInit, TableInv

LEMMA NextInv == TableInv /\ [TableNext]_tvars => TableInv'
<1> SUFFICES ASSUME TableInv, [TableNext]_tvars PROVE TableInv'
  OBVIOUS
<1>1. ASSUME NEW t \in Task, Admit(t) PROVE TableInv'
  BY <1>1, RunningFields DEF Admit, TableInv
<1>2. ASSUME NEW t \in Task, ChildGone(t) PROVE TableInv'
  BY <1>2 DEF ChildGone, TableInv
<1>3. ASSUME NEW t \in Task, Doom(t) PROVE TableInv'
  BY <1>3 DEF Doom, TableInv
<1>4. ASSUME NEW t \in Task, Suspect(t) PROVE TableInv'
  <2>1. [record[t] EXCEPT !.doubt = TRUE] \in Record
        /\ [record[t] EXCEPT !.doubt = TRUE].status = record[t].status
    BY <1>4 DEF TableInv, Record
  <2> QED
    BY <1>4, <2>1 DEF Suspect, TableInv, IsTerminal, IsPresent, TerminalStatus
<1>5. ASSUME NEW t \in Task, NEW v \in TerminalStatus, Conclude(t, v) PROVE TableInv'
  <2>1. Concluded(record[t], v) \in Record /\ Concluded(record[t], v).status = v
    BY ConcludedFields DEF TableInv
  <2> QED
    BY <1>5, <2>1 DEF Conclude, TableInv
<1>6. ASSUME NEW t \in Task, Announced(t) \/ Release(t) PROVE TableInv'
  <2>1. (record' = record \/ Prunes) /\ UNCHANGED <<child, clock>>
    BY <1>6 DEF Announced, Release, Prunes
  <2> QED
    BY <2>1, PruneEffect
<1>7. ASSUME CallStep PROVE TableInv'
  <2>1. (record' = record \/ Prunes) /\ UNCHANGED <<child, clock>>
    BY <1>7 DEF CallStep, PinStep, Pin, Unpin, Prune, Prunes
  <2> QED
    BY <2>1, PruneEffect
<1>8. ASSUME Close PROVE TableInv'
  BY <1>8 DEF Close, TableInv
<1>9. CASE UNCHANGED tvars
  BY <1>9 DEF tvars, TableInv
<1> QED
  BY <1>1, <1>2, <1>3, <1>4, <1>5, <1>6, <1>7, <1>8, <1>9 DEF TableNext, TaskStep

-----------------------------------------------------------------------------
(* The ledger's view of a task, case by case.                              *)
LEMMA EntryCases ==
  ASSUME NEW t \in Task, record[t] \in Record
  PROVE  /\ record[t].status = "running" => LedgerEntry[t] = "open"
         /\ IsTerminal(record[t]) => LedgerEntry[t] = record[t].status
         /\ ~IsPresent(record[t]) =>
              LedgerEntry[t] = IF child[t] = "new" THEN "new" ELSE "forgotten"
<1>1. IsTerminal(record[t]) => record[t].status # "running"
  BY StatusCases
<1>2. ~IsPresent(record[t]) => ~IsTerminal(record[t]) /\ record[t].status # "running"
  BY StatusCases DEF IsPresent
<1> QED
  BY <1>1, <1>2, StatusCases DEF LedgerEntry, IsPresent

LEMMA EntryCasesNext ==
  ASSUME NEW t \in Task, record'[t] \in Record
  PROVE  /\ record'[t].status = "running" => LedgerEntry'[t] = "open"
         /\ IsTerminal(record'[t]) => LedgerEntry'[t] = record'[t].status
         /\ ~IsPresent(record'[t]) =>
              LedgerEntry'[t] = IF child'[t] = "new" THEN "new" ELSE "forgotten"
<1>1. IsTerminal(record'[t]) => record'[t].status # "running"
  BY StatusCases
<1>2. ~IsPresent(record'[t]) => ~IsTerminal(record'[t]) /\ record'[t].status # "running"
  BY StatusCases DEF IsPresent
<1> QED
  BY <1>1, <1>2, StatusCases DEF LedgerEntry, IsPresent

LEMMA EntryFunction ==
  /\ LedgerEntry = [s \in Task |-> LedgerEntry[s]]
  /\ LedgerEntry' = [s \in Task |-> LedgerEntry'[s]]
BY DEF LedgerEntry

Up == {t \in Task : child[t] = "up"}

\* A step that only drops terminal records forgets them, or changes nothing.
LEMMA PruneForgets ==
  ASSUME TableInv, TableInv', child' = child,
         \A t \in Task : \/ record'[t] = record[t]
                         \/ record'[t] = NoRecord /\ IsTerminal(record[t])
  PROVE  /\ UNCHANGED Up
         /\ \/ UNCHANGED LedgerEntry
            \/ \E S \in SUBSET Task : Ledger!Forget(S)
<1> DEFINE S == {t \in Task : record'[t] # record[t]}
<1>1. ASSUME NEW t \in Task, t \in S
      PROVE  LedgerEntry[t] \in TerminalStatus /\ LedgerEntry'[t] = "forgotten"
  <2>1. record'[t] = NoRecord /\ IsTerminal(record[t]) /\ child'[t] # "new"
    BY <1>1 DEF TableInv
  <2> QED
    BY <2>1, NoRecordFields, EntryCases, EntryCasesNext, StatusCases DEF TableInv
<1>2. ASSUME NEW t \in Task, t \notin S PROVE LedgerEntry'[t] = LedgerEntry[t]
  BY <1>2 DEF LedgerEntry
<1>3. UNCHANGED Up
  BY DEF Up
<1>4. CASE S = {}
  <2>1. UNCHANGED LedgerEntry
    BY <1>2, <1>4 DEF LedgerEntry
  <2> QED
    BY <1>3, <2>1
<1>5. CASE S # {}
  <2>1. LedgerEntry' = [t \in Task |-> IF t \in S THEN "forgotten" ELSE LedgerEntry[t]]
    BY <1>1, <1>2 DEF LedgerEntry
  <2>2. S \in SUBSET Task /\ Ledger!Forget(S)
    BY <1>1, <1>3, <1>5, <2>1 DEF Ledger!Forget, Up
  <2> QED
    BY <1>3, <2>2
<1> QED
  BY <1>4, <1>5

LEMMA InitRefines == TableInit => Ledger!LedgerInit
<1> SUFFICES ASSUME TableInit PROVE Ledger!LedgerInit
  OBVIOUS
<1>1. \A t \in Task : LedgerEntry[t] = "new"
  BY NoRecordFields, EntryCases DEF TableInit
<1>2. LedgerEntry = [t \in Task |-> "new"]
  BY <1>1 DEF LedgerEntry
<1>3. {t \in Task : child[t] = "up"} = {}
  BY DEF TableInit
<1> QED
  BY <1>2, <1>3 DEF Ledger!LedgerInit

LEMMA NextRefines ==
  ASSUME TableInv, TableInv', [TableNext]_tvars
  PROVE  Ledger!LedgerNext \/ UNCHANGED <<LedgerEntry, Up>>
<1>T. record \in [Task -> Record] /\ record' \in [Task -> Record]
      /\ child \in [Task -> {"new", "up", "gone"}]
  BY DEF TableInv
\* A step that changes neither the status of a record nor a child is invisible.
<1>S. ASSUME child' = child, \A t \in Task : record'[t].status = record[t].status
      PROVE  UNCHANGED <<LedgerEntry, Up>>
  BY <1>S DEF LedgerEntry, Up, IsPresent
<1>1. ASSUME NEW t \in Task, Admit(t) PROVE Ledger!Start(t)
  <2>1. record'[t].status = "running" /\ LedgerEntry[t] = "new"
    BY <1>1, <1>T, RunningFields, EntryCases DEF Admit, TableInv
  <2>2. LedgerEntry'[t] = "open"
    BY <1>T, <2>1, EntryCasesNext
  <2>3. \A s \in Task : s # t => LedgerEntry'[s] = LedgerEntry[s]
    BY <1>1, <1>T DEF Admit, LedgerEntry, TableInv
  <2>4. LedgerEntry' = [LedgerEntry EXCEPT ![t] = "open"]
    BY <2>2, <2>3, EntryFunction
  <2>5. Up' = Up \cup {t}
    BY <1>1, <1>T DEF Admit, Up, TableInv
  <2> QED
    BY <2>1, <2>4, <2>5 DEF Ledger!Start, Up
<1>2. ASSUME NEW t \in Task, ChildGone(t) PROVE Ledger!Stop(t)
  <2>1. Up' = Up \ {t} /\ t \in Up
    BY <1>2, <1>T DEF ChildGone, Up
  <2>2. UNCHANGED LedgerEntry
    BY <1>2, <1>T DEF ChildGone, LedgerEntry
  <2> QED
    BY <2>1, <2>2 DEF Ledger!Stop, Up
<1>3. ASSUME NEW t \in Task, Doom(t) PROVE UNCHANGED <<LedgerEntry, Up>>
  BY <1>3, <1>S DEF Doom
<1>4. ASSUME NEW t \in Task, Suspect(t) PROVE UNCHANGED <<LedgerEntry, Up>>
  <2>1. [record[t] EXCEPT !.doubt = TRUE].status = record[t].status
    BY <1>T DEF Record
  <2>2. \A s \in Task : record'[s].status = record[s].status
    BY <1>4, <1>T, <2>1 DEF Suspect
  <2> QED
    BY <1>4, <1>S, <2>2 DEF Suspect
<1>5. ASSUME NEW t \in Task, NEW v \in TerminalStatus, Conclude(t, v) PROVE Ledger!Close(t, v)
  <2>1. record'[t].status = v /\ record[t].status = "running"
    BY <1>5, <1>T, ConcludedFields DEF Conclude
  <2>2. LedgerEntry[t] = "open" /\ LedgerEntry'[t] = v
    BY <1>T, <2>1, EntryCases, EntryCasesNext, StatusCases
  <2>3. \A s \in Task : s # t => LedgerEntry'[s] = LedgerEntry[s]
    BY <1>5, <1>T DEF Conclude, LedgerEntry
  <2>4. LedgerEntry' = [LedgerEntry EXCEPT ![t] = v]
    BY <2>2, <2>3, EntryFunction
  <2>5. UNCHANGED Up /\ t \notin Up
    BY <1>5 DEF Conclude, Up
  <2> QED
    BY <2>2, <2>4, <2>5 DEF Ledger!Close, Up
<1>6. ASSUME record' = record \/ Prunes, UNCHANGED <<child, clock>>
      PROVE  Ledger!LedgerNext \/ UNCHANGED <<LedgerEntry, Up>>
  BY <1>6, PruneEffect, PruneForgets DEF Ledger!LedgerNext
<1>7. ASSUME NEW t \in Task, Announced(t) \/ Release(t)
      PROVE  Ledger!LedgerNext \/ UNCHANGED <<LedgerEntry, Up>>
  BY <1>6, <1>7 DEF Announced, Release, Prunes
<1>8. ASSUME CallStep PROVE Ledger!LedgerNext \/ UNCHANGED <<LedgerEntry, Up>>
  BY <1>6, <1>8 DEF CallStep, PinStep, Pin, Unpin, Prune, Prunes
<1>9. ASSUME Close \/ UNCHANGED tvars PROVE UNCHANGED <<LedgerEntry, Up>>
  BY <1>9, <1>S DEF Close, tvars
<1> QED
  BY <1>1, <1>2, <1>3, <1>4, <1>5, <1>7, <1>8, <1>9
  DEF TableNext, TaskStep, Ledger!LedgerNext

(* The table keeps the ledger's promise: one verdict per task, given when  *)
(* its process is gone, kept until the record is forgotten.                *)
THEOREM TableImplementsLedger == TableSpec => ImplementsLedger
<1>1. TableInv /\ [TableNext]_tvars => TableInv'
  BY NextInv
<1>2. TableInv /\ TableInv' /\ [TableNext]_tvars =>
        [Ledger!LedgerNext]_<<LedgerEntry, {t \in Task : child[t] = "up"}>>
  BY NextRefines DEF Up
<1> QED
  BY <1>1, <1>2, InitInv, InitRefines, PTL
  DEF TableSpec, ImplementsLedger, Ledger!LedgerSpec

-----------------------------------------------------------------------------
(* Synchronous dispatch: the tasks, callers and leases of RoleDispatchService. *)
CallerPc == {"idle", "submit", "undo", "settle", "look", "wait"}
Answer == {"none", "done", "error", "timeout", "busy", "unavailable", "unconfirmed", "invalid"}

DispatchTypeOK ==
  /\ TableInv
  /\ leases \in [Role -> SUBSET Task]
  /\ issued \subseteq Task
  /\ caller \in [Caller -> [pc: CallerPc, task: SUBSET Task, answer: Answer]]

\* A child that is up has a running record; what is announced is over.
ChildRuns == \A t \in Task : child[t] = "up" => record[t].status = "running"
Over ==
  /\ announcing \subseteq Task
  /\ \A t \in announcing : record[t].status # "running" /\ child[t] = "gone"

\* A request works on a task of its own, which it reserved.
Works(k, t) == caller[k].pc # "idle" /\ caller[k].task = {t}
OwnTask ==
  /\ \A k \in Caller, t \in Task : Works(k, t) => t \in issued
  /\ \A k, l \in Caller, t \in Task : Works(k, t) /\ Works(l, t) => k = l

\* A request that is submitting holds the lease of its role.
SubmitHolds ==
  \A k \in Caller, t \in Task :
    /\ CallerAt(k, t, "submit") \/ CallerAt(k, t, "undo") => child[t] = "new" /\ t \in submitting
    /\ CallerAt(k, t, "submit") => leases[RoleOf[t]] = {t}

DispatchInv == DispatchTypeOK /\ ChildRuns /\ Over /\ OwnTask /\ SubmitHolds /\ LeaseHeld

-----------------------------------------------------------------------------
LEMMA DispatchInvInit == DispatchInit => DispatchInv
<1> SUFFICES ASSUME DispatchInit PROVE DispatchInv
  OBVIOUS
<1>1. TableInv
  BY InitInv DEF DispatchInit
<1>2. DispatchTypeOK
  BY <1>1 DEF DispatchInit, DispatchTypeOK, CallerPc, Answer
<1>3. ChildRuns /\ Over
  BY DEF DispatchInit, TableInit, ChildRuns, Over
<1>4. OwnTask /\ SubmitHolds /\ LeaseHeld
  BY DEF DispatchInit, OwnTask, Works, SubmitHolds, CallerAt, LeaseHeld
<1> QED
  BY <1>2, <1>3, <1>4 DEF DispatchInv

\* What a step of the table may do to the tasks: none begins to run or gets a
\* child, except one that is admitted.
Quiet(t) ==
  /\ record'[t].status = "running" => record[t].status = "running"
  /\ child'[t] = "up" => child[t] = "up" /\ record'[t].status = "running"
  /\ child[t] = "gone" => child'[t] = "gone"
  /\ child[t] = "new" <=> child'[t] = "new"

\* A step of the table that admits nothing and announces only what is over.
LEMMA QuietKeepsInv ==
  ASSUME DispatchInv, TableInv', UNCHANGED dvars, \A t \in Task : Quiet(t),
         \A t \in announcing' : t \in announcing \/ (child'[t] = "gone" /\ record'[t].status # "running"),
         announcing' \subseteq Task
  PROVE  DispatchInv'
<1>1. DispatchTypeOK'
  BY DEF DispatchInv, DispatchTypeOK, dvars
<1>2. ChildRuns'
  BY DEF DispatchInv, ChildRuns, Quiet
<1>3. Over'
  BY DEF DispatchInv, Over, Quiet
<1>4. OwnTask'
  BY DEF DispatchInv, OwnTask, Works, dvars
<1>5. SubmitHolds'
  BY DEF DispatchInv, SubmitHolds, CallerAt, dvars, Quiet
<1>6. LeaseHeld'
  BY DEF DispatchInv, DispatchTypeOK, LeaseHeld, dvars, Quiet
<1> QED
  BY <1>1, <1>2, <1>3, <1>4, <1>5, <1>6 DEF DispatchInv

\* A record that is pruned was over, and no record is running that was not.
LEMMA PruneQuiet ==
  ASSUME DispatchInv, record' = record \/ Prunes, UNCHANGED <<child, clock>>
  PROVE  TableInv' /\ \A t \in Task : Quiet(t)
<1>1. /\ TableInv'
      /\ \A t \in Task : record'[t] = record[t] \/ (record'[t] = NoRecord /\ IsTerminal(record[t]))
  BY PruneEffect DEF DispatchInv, DispatchTypeOK
<1>2. ASSUME NEW t \in Task PROVE Quiet(t)
  <2>1. CASE record'[t] = record[t]
    BY <2>1 DEF Quiet, DispatchInv, ChildRuns
  <2>2. CASE record'[t] = NoRecord /\ IsTerminal(record[t])
    BY <2>2, StatusCases, NoRecordFields DEF Quiet, DispatchInv, DispatchTypeOK, TableInv, ChildRuns
  <2> QED
    BY <1>1, <2>1, <2>2
<1> QED
  BY <1>1, <1>2

LEMMA WorkerStepKeepsInv ==
  ASSUME DispatchInv, NEW t \in Task, WorkerStep(t)
  PROVE  DispatchInv' /\ UNCHANGED dvars
<1>0. TableInv' /\ UNCHANGED dvars
  BY NextInv DEF WorkerStep, DispatchInv, DispatchTypeOK, TableNext, TaskStep
<1>1. CASE ChildGone(t)
  <2>1. \A s \in Task : Quiet(s)
    BY <1>1 DEF ChildGone, Quiet, DispatchInv, DispatchTypeOK, TableInv, ChildRuns
  <2> QED
    BY <1>0, <1>1, <2>1, QuietKeepsInv DEF ChildGone, DispatchInv, Over
<1>2. CASE Doom(t)
  <2>1. \A s \in Task : Quiet(s)
    BY <1>2 DEF Doom, Quiet, DispatchInv, ChildRuns
  <2> QED
    BY <1>0, <1>2, <2>1, QuietKeepsInv DEF Doom, DispatchInv, Over
<1>3. CASE Suspect(t)
  <2>1. \A s \in Task : record'[s].status = record[s].status
    BY <1>3 DEF Suspect, DispatchInv, DispatchTypeOK, TableInv, Record
  <2>2. \A s \in Task : Quiet(s)
    BY <1>3, <2>1 DEF Suspect, Quiet, DispatchInv, ChildRuns
  <2> QED
    BY <1>0, <1>3, <2>2, QuietKeepsInv DEF Suspect, DispatchInv, Over
<1>4. CASE Release(t)
  <2>1. \A s \in Task : Quiet(s)
    BY <1>4, PruneQuiet DEF Release, Prunes
  <2> QED
    BY <1>0, <1>4, <2>1, QuietKeepsInv DEF Release, DispatchInv, Over
<1>5. ASSUME NEW v \in TerminalStatus, Conclude(t, v) PROVE DispatchInv' /\ UNCHANGED dvars
  <2>1. record'[t].status = v /\ v # "running" /\ child'[t] = "gone"
    BY <1>5, ConcludedFields DEF Conclude, DispatchInv, DispatchTypeOK, TableInv, TerminalStatus
  <2>2. \A s \in Task : s # t => record'[s] = record[s]
    BY <1>5 DEF Conclude, DispatchInv, DispatchTypeOK, TableInv
  <2>3. \A s \in Task : Quiet(s)
    BY <1>5, <2>1, <2>2 DEF Conclude, Quiet, DispatchInv, ChildRuns
  <2>4. announcing' = announcing \cup {t}
    BY <1>5 DEF Conclude
  <2> QED
    BY <1>0, <2>1, <2>3, <2>4, QuietKeepsInv DEF DispatchInv, Over
<1> QED
  BY <1>1, <1>2, <1>3, <1>4, <1>5 DEF WorkerStep

LEMMA OthersKeepInv ==
  ASSUME DispatchInv,
         (\E t \in Task : OtherPin(t) \/ OtherUnpin(t)) \/ CloseSupervisor \/ UNCHANGED <<tvars, dvars>>
  PROVE  DispatchInv' /\ UNCHANGED dvars
<1>1. /\ record' = record \/ Prunes
      /\ UNCHANGED <<child, clock, announcing, dvars>>
  BY DEF OtherPin, OtherUnpin, Pin, Unpin, CloseSupervisor, Close, Prunes, tvars
<1>2. TableInv' /\ \A t \in Task : Quiet(t)
  BY <1>1, PruneQuiet
<1> QED
  BY <1>1, <1>2, QuietKeepsInv DEF DispatchInv, Over

LEMMA AnnounceKeepsInv ==
  ASSUME DispatchInv, NEW t \in Task, Announce(t)
  PROVE  DispatchInv' /\ UNCHANGED <<leases, caller>>
<1>1. /\ record' = record \/ Prunes
      /\ UNCHANGED <<child, clock, leases, submitting, issued, caller>>
      /\ announcing' = announcing \ {t}
  BY DEF Announce, Announced, Prunes
<1>2. TableInv' /\ \A s \in Task : Quiet(s)
  BY <1>1, PruneQuiet
<1>3. ChildRuns' /\ Over'
  BY <1>1, <1>2 DEF DispatchInv, ChildRuns, Over, Quiet
<1>4. DispatchTypeOK' /\ OwnTask'
  BY <1>1, <1>2 DEF DispatchInv, DispatchTypeOK, OwnTask, Works
<1>5. SubmitHolds' /\ LeaseHeld'
  BY <1>1, <1>2 DEF DispatchInv, DispatchTypeOK, SubmitHolds, CallerAt, LeaseHeld, Quiet
<1> QED
  BY <1>1, <1>3, <1>4, <1>5 DEF DispatchInv

-----------------------------------------------------------------------------
(* The steps of a request                                                   *)

\* The table of a task that is admitted, and of the others.
LEMMA AdmitEffect ==
  ASSUME DispatchInv, NEW t \in Task, Admit(t)
  PROVE  /\ TableInv' /\ record'[t].status = "running" /\ child'[t] = "up" /\ child[t] = "new"
         /\ \A s \in Task : s # t => record'[s] = record[s] /\ child'[s] = child[s]
         /\ announcing' = announcing /\ t \notin announcing
<1>1. TableInv'
  BY NextInv DEF DispatchInv, DispatchTypeOK, TableNext
<1>2. record'[t].status = "running" /\ child'[t] = "up" /\ child[t] = "new"
  BY RunningFields DEF Admit, DispatchInv, DispatchTypeOK, TableInv
<1>3. \A s \in Task : s # t => record'[s] = record[s] /\ child'[s] = child[s]
  BY DEF Admit, DispatchInv, DispatchTypeOK, TableInv
<1> QED
  BY <1>1, <1>2, <1>3 DEF Admit, DispatchInv, Over

LEMMA AsyncSubmitKeepsInv ==
  ASSUME DispatchInv, NEW t \in Task, AsyncSubmit(t)
  PROVE  DispatchInv' /\ UNCHANGED dvars
<1>1. Admit(t) /\ t \notin issued /\ UNCHANGED dvars
  BY DEF AsyncSubmit
<1>2. ChildRuns' /\ Over'
  BY <1>1, AdmitEffect DEF DispatchInv, ChildRuns, Over
<1>3. DispatchTypeOK' /\ OwnTask'
  BY <1>1, AdmitEffect DEF DispatchInv, DispatchTypeOK, OwnTask, Works, dvars
<1>4. LeaseHeld'
  BY <1>1, AdmitEffect DEF DispatchInv, DispatchTypeOK, LeaseHeld, dvars
<1>5. SubmitHolds'
  BY <1>1, AdmitEffect DEF DispatchInv, OwnTask, Works, SubmitHolds, CallerAt, dvars
<1> QED
  BY <1>1, <1>2, <1>3, <1>4, <1>5 DEF DispatchInv

LEMMA ReserveKeepsInv ==
  ASSUME DispatchInv, NEW k \in Caller, NEW t \in Task, Reserve(k, t)
  PROVE  DispatchInv' /\ LeaseDroppedLate
<1>1. /\ caller[k].pc = "idle" /\ t \notin issued /\ child[t] = "new"
      /\ issued' = issued \cup {t} /\ UNCHANGED tvars
  BY DEF Reserve
<1>2. ChildRuns' /\ Over' /\ TableInv'
  BY <1>1 DEF DispatchInv, DispatchTypeOK, TableInv, ChildRuns, Over, tvars
<1>3. RoleOf[t] \in Role
  BY RoleOfAssumption
<1>4. record[t].status # "running"
  BY <1>1 DEF DispatchInv, DispatchTypeOK, TableInv, IsPresent
<1>5. CASE ~\A s \in leases[RoleOf[t]] : Stale(s)
  <2>1. /\ caller' = [caller EXCEPT ![k] = [pc |-> "idle", task |-> {t}, answer |-> "busy"]]
        /\ UNCHANGED <<leases, submitting>>
    BY <1>5 DEF Reserve, Reply
  <2>2. DispatchTypeOK'
    BY <1>1, <1>2, <2>1 DEF DispatchInv, DispatchTypeOK, CallerPc, Answer
  <2>3. /\ caller'[k].pc = "idle"
        /\ \A l \in Caller : l # k => caller'[l] = caller[l]
    BY <2>1 DEF DispatchInv, DispatchTypeOK
  <2>4. OwnTask' /\ SubmitHolds'
    BY <1>1, <2>1, <2>3 DEF DispatchInv, OwnTask, Works, SubmitHolds, CallerAt, tvars
  <2>5. LeaseHeld'
    BY <1>1, <1>4, <2>1 DEF DispatchInv, LeaseHeld, tvars
  <2> QED
    BY <1>2, <2>1, <2>2, <2>4, <2>5 DEF DispatchInv, LeaseDroppedLate
<1>6. CASE \A s \in leases[RoleOf[t]] : Stale(s)
  <2>1. /\ leases' = [leases EXCEPT ![RoleOf[t]] = {t}]
        /\ submitting' = submitting \cup {t}
        /\ caller' = [caller EXCEPT ![k] = [pc |-> "submit", task |-> {t}, answer |-> "none"]]
    BY <1>6 DEF Reserve
  <2>2. DispatchTypeOK'
    BY <1>1, <1>2, <1>3, <2>1 DEF DispatchInv, DispatchTypeOK, CallerPc, Answer
  <2>3. /\ caller'[k].pc = "submit" /\ caller'[k].task = {t}
        /\ \A l \in Caller : l # k => caller'[l] = caller[l]
    BY <2>1 DEF DispatchInv, DispatchTypeOK
  <2>4. OwnTask'
    BY <1>1, <2>3 DEF DispatchInv, OwnTask, Works
  <2>5. /\ leases'[RoleOf[t]] = {t}
        /\ \A r \in Role : r # RoleOf[t] => leases'[r] = leases[r]
    BY <1>3, <2>1 DEF DispatchInv, DispatchTypeOK
  <2>6. ASSUME NEW s \in leases[RoleOf[t]], s \in Task PROVE record[s].status # "running" /\ s \notin submitting
    <3>1. Stale(s) /\ record[s] \in Record
      BY <1>6, <2>6 DEF DispatchInv, DispatchTypeOK, TableInv
    <3> QED
      BY <3>1, StatusCases DEF Stale, IsPresent
  <2>7. LeaseHeld'
    <3>1. ASSUME NEW s \in issued, s \in Task, record[s].status = "running"
          PROVE  leases'[RoleOf[s]] = {s}
      <4>1. leases[RoleOf[s]] = {s} /\ RoleOf[s] \in Role
        BY <3>1, RoleOfAssumption DEF DispatchInv, LeaseHeld
      <4> QED
        BY <2>5, <2>6, <3>1, <4>1
    <3> QED
      BY <1>1, <1>4, <3>1 DEF LeaseHeld, tvars, DispatchInv, DispatchTypeOK
  <2>8. SubmitHolds'
    <3>1. ASSUME NEW l \in Caller, NEW s \in Task, l # k, CallerAt(l, s, "submit")
          PROVE  leases'[RoleOf[s]] = {s}
      <4>1. leases[RoleOf[s]] = {s} /\ RoleOf[s] \in Role /\ s \in submitting
        BY <3>1, RoleOfAssumption DEF DispatchInv, SubmitHolds
      <4> QED
        BY <2>5, <2>6, <3>1, <4>1
    <3> QED
      BY <1>1, <2>1, <2>3, <2>5, <3>1 DEF DispatchInv, SubmitHolds, CallerAt, tvars
  <2>9. LeaseDroppedLate
    <3>1. ASSUME NEW s \in Task, s \in leases[RoleOf[s]], s \notin leases'[RoleOf[s]]
          PROVE  child[s] # "up" /\ s \notin submitting /\ s # t
      BY <2>5, <2>6, <3>1, RoleOfAssumption DEF DispatchInv, ChildRuns
    <3> QED
      BY <1>1, <2>3, <3>1 DEF LeaseDroppedLate, DispatchInv, SubmitHolds, CallerAt, tvars
  <2> QED
    BY <1>2, <2>2, <2>4, <2>7, <2>8, <2>9 DEF DispatchInv
<1> QED
  BY <1>5, <1>6

\* The request of k on t goes on to c, with the table as it was.
Moves(k, t, c) ==
  /\ Works(k, t)
  /\ caller' = [caller EXCEPT ![k] = c]
  /\ c \in [pc: CallerPc \ {"submit"}, task: {{t}}, answer: Answer]
  /\ c.pc = "undo" => CallerAt(k, t, "submit")

LEMMA MovesKeep ==
  ASSUME DispatchInv, NEW k \in Caller, NEW t \in Task, NEW c, Moves(k, t, c),
         \A s \in Task : Quiet(s), UNCHANGED issued,
         submitting \ {t} \subseteq submitting', c.pc = "undo" => submitting' = submitting
  PROVE  /\ caller' \in [Caller -> [pc: CallerPc, task: SUBSET Task, answer: Answer]]
         /\ OwnTask'
         /\ \A l \in Caller, s \in Task :
              CallerAt(l, s, "submit")' => CallerAt(l, s, "submit") /\ s # t
         /\ \A l \in Caller, s \in Task :
              CallerAt(l, s, "submit")' \/ CallerAt(l, s, "undo")' => child'[s] = "new" /\ s \in submitting'
<1>1. caller' \in [Caller -> [pc: CallerPc, task: SUBSET Task, answer: Answer]]
  BY DEF Moves, DispatchInv, DispatchTypeOK
<1>2. caller'[k] = c /\ \A l \in Caller : l # k => caller'[l] = caller[l]
  BY DEF Moves, DispatchInv, DispatchTypeOK
<1>3. c.pc # "submit" /\ c.task = {t}
  BY DEF Moves
<1>4. OwnTask'
  BY <1>2, <1>3 DEF Moves, DispatchInv, OwnTask, Works
<1>5. ASSUME NEW l \in Caller, NEW s \in Task, l # k, CallerAt(l, s, "submit") \/ CallerAt(l, s, "undo")
      PROVE  s # t /\ child'[s] = "new" /\ s \in submitting'
  BY <1>5 DEF DispatchInv, OwnTask, Works, SubmitHolds, CallerAt, Moves, Quiet
<1>6. ASSUME NEW l \in Caller, NEW s \in Task, CallerAt(l, s, "submit")'
      PROVE  CallerAt(l, s, "submit") /\ s # t
  BY <1>2, <1>3, <1>5, <1>6 DEF CallerAt
<1>7. ASSUME NEW l \in Caller, NEW s \in Task, CallerAt(l, s, "submit")' \/ CallerAt(l, s, "undo")'
      PROVE  child'[s] = "new" /\ s \in submitting'
  <2>1. CASE l # k
    BY <1>2, <1>5, <1>7, <2>1 DEF CallerAt
  <2>2. CASE l = k
    <3>1. c.pc = "undo" /\ s = t
      BY <1>2, <1>3, <1>7, <2>2 DEF CallerAt
    <3> QED
      BY <3>1 DEF Moves, DispatchInv, SubmitHolds, Quiet
  <2> QED
    BY <2>1, <2>2
<1> QED
  BY <1>1, <1>4, <1>6, <1>7

\* A step of a request that keeps every lease.
LEMMA MoveKeepsInv ==
  ASSUME DispatchInv, NEW k \in Caller, NEW t \in Task, NEW c, Moves(k, t, c), TableInv',
         \A s \in Task : Quiet(s), UNCHANGED <<leases, issued, announcing>>,
         submitting \ {t} \subseteq submitting', c.pc = "undo" => submitting' = submitting
  PROVE  DispatchInv' /\ LeaseDroppedLate
<1>1. DispatchTypeOK' /\ OwnTask' /\ ChildRuns' /\ Over'
  BY MovesKeep DEF DispatchInv, DispatchTypeOK, ChildRuns, Over, Quiet
<1>2. LeaseHeld'
  BY DEF DispatchInv, DispatchTypeOK, LeaseHeld, Quiet
<1>3. SubmitHolds'
  <2>1. \A l \in Caller, s \in Task : CallerAt(l, s, "submit")' => leases'[RoleOf[s]] = {s}
    BY MovesKeep DEF DispatchInv, SubmitHolds
  <2> QED
    BY <2>1, MovesKeep DEF SubmitHolds
<1> QED
  BY <1>1, <1>2, <1>3 DEF DispatchInv, LeaseDroppedLate

LEMMA DecodedOK ==
  ASSUME NEW t, NEW r
  PROVE  Decoded(t, r) \in Answer
BY DEF Decoded, Answer

LEMMA CallerRecord ==
  ASSUME DispatchInv, NEW k \in Caller, NEW t \in Task, NEW pc, CallerAt(k, t, pc), pc # "idle"
  PROVE  /\ Works(k, t)
         /\ \A z \in CallerPc : [caller[k] EXCEPT !.pc = z] = [pc |-> z, task |-> {t}, answer |-> caller[k].answer]
         /\ caller[k].answer \in Answer
<1>1. caller[k] \in [pc: CallerPc, task: SUBSET Task, answer: Answer]
  BY DEF DispatchInv, DispatchTypeOK
<1>2. Works(k, t) /\ caller[k].task = {t} /\ caller[k].answer \in Answer
  BY <1>1 DEF CallerAt, Works
<1>3. caller[k] = [pc |-> caller[k].pc, task |-> {t}, answer |-> caller[k].answer]
  BY <1>1, <1>2
<1> QED
  BY <1>2, <1>3

LEMMA SubmitKeepsInv ==
  ASSUME DispatchInv, NEW k \in Caller, NEW t \in Task, Submit(k, t)
  PROVE  DispatchInv' /\ LeaseDroppedLate
<1>1. /\ CallerAt(k, t, "submit") /\ Admit(t) /\ UNCHANGED <<leases, submitting, issued>>
      /\ caller' = [caller EXCEPT ![k] = [pc |-> "settle", task |-> {t}, answer |-> caller[k].answer]]
      /\ caller[k].answer \in Answer /\ Works(k, t)
  BY CallerRecord DEF Submit, CallerGoto, CallerPc
<1>2. ChildRuns' /\ Over' /\ TableInv'
  BY <1>1, AdmitEffect DEF DispatchInv, ChildRuns, Over
<1>3. DispatchTypeOK'
  BY <1>1, <1>2 DEF DispatchInv, DispatchTypeOK, CallerPc
<1>4. /\ caller'[k].pc = "settle" /\ caller'[k].task = {t}
      /\ \A l \in Caller : l # k => caller'[l] = caller[l]
  BY <1>1 DEF DispatchInv, DispatchTypeOK
<1>5. OwnTask'
  BY <1>1, <1>4 DEF DispatchInv, OwnTask, Works
<1>6. \A l \in Caller, s \in Task : l # k /\ Works(l, s) => s # t
  BY <1>1 DEF DispatchInv, OwnTask
<1>7. SubmitHolds'
  <2>1. ASSUME NEW l \in Caller, NEW s \in Task, CallerAt(l, s, "submit")' \/ CallerAt(l, s, "undo")'
        PROVE  /\ l # k /\ s # t /\ caller'[l] = caller[l]
    BY <1>4, <1>6, <2>1 DEF CallerAt, Works
  <2> QED
    BY <1>1, <2>1, AdmitEffect DEF DispatchInv, SubmitHolds, CallerAt
<1>8. LeaseHeld'
  <2>1. leases'[RoleOf[t]] = {t}
    BY <1>1 DEF DispatchInv, SubmitHolds
  <2>2. ASSUME NEW s \in issued, s # t, record'[s].status = "running"
        PROVE  leases'[RoleOf[s]] = {s}
    BY <1>1, <2>2, AdmitEffect DEF DispatchInv, DispatchTypeOK, LeaseHeld
  <2> QED
    BY <1>1, <2>1, <2>2 DEF LeaseHeld
<1> QED
  BY <1>1, <1>2, <1>3, <1>5, <1>7, <1>8 DEF DispatchInv, LeaseDroppedLate

LEMMA SubmitFailsKeepsInv ==
  ASSUME DispatchInv, NEW k \in Caller, NEW t \in Task, SubmitFails(k, t)
  PROVE  DispatchInv' /\ LeaseDroppedLate
<1> DEFINE c == [pc |-> "undo", task |-> {t}, answer |-> caller[k].answer]
<1>1. Moves(k, t, c)
  BY CallerRecord DEF SubmitFails, CallerGoto, CallerPc, Moves
<1>2. /\ UNCHANGED <<leases, issued, announcing, submitting, record, child>>
      /\ TableInv'
  BY DEF SubmitFails, tvars, DispatchInv, DispatchTypeOK, TableInv
<1>3. \A s \in Task : Quiet(s)
  BY <1>2 DEF Quiet, DispatchInv, ChildRuns
<1> HIDE DEF c
<1> QED
  BY <1>1, <1>2, <1>3, MoveKeepsInv

LEMMA SettleKeepsInv ==
  ASSUME DispatchInv, NEW k \in Caller, NEW t \in Task, Settle(k, t)
  PROVE  DispatchInv' /\ LeaseDroppedLate
<1> DEFINE c == [pc |-> "look", task |-> {t}, answer |-> caller[k].answer]
<1>1. Moves(k, t, c) /\ c.pc # "undo"
  BY CallerRecord DEF Settle, CallerGoto, CallerPc, Moves
<1>2. /\ UNCHANGED <<leases, issued, announcing, record, child>>
      /\ submitting' = submitting \ {t} /\ TableInv'
  BY DEF Settle, tvars, DispatchInv, DispatchTypeOK, TableInv
<1>3. \A s \in Task : Quiet(s)
  BY <1>2 DEF Quiet, DispatchInv, ChildRuns
<1> HIDE DEF c
<1> QED
  BY <1>1, <1>2, <1>3, MoveKeepsInv

LEMMA WaitKeepsInv ==
  ASSUME DispatchInv, NEW k \in Caller, NEW t \in Task,
         WaitBegin(k, t) \/ WaitNot(k, t) \/ WaitEnd(k, t)
  PROVE  DispatchInv' /\ LeaseDroppedLate
<1>1. /\ UNCHANGED <<child, clock, announcing, leases, submitting, issued>>
      /\ record' = record \/ Prunes
  BY DEF WaitBegin, WaitNot, WaitEnd, Pin, Unpin, Prune, Prunes
<1>2. TableInv' /\ \A s \in Task : Quiet(s)
  BY <1>1, PruneQuiet
<1>3. ASSUME NEW c, Moves(k, t, c), c.pc # "undo" PROVE DispatchInv' /\ LeaseDroppedLate
  BY <1>1, <1>2, <1>3, MoveKeepsInv
<1>4. CASE WaitBegin(k, t)
  <2> DEFINE c == [pc |-> "wait", task |-> {t}, answer |-> caller[k].answer]
  <2>1. Moves(k, t, c) /\ c.pc # "undo"
    BY <1>4, CallerRecord DEF WaitBegin, CallerGoto, CallerPc, Moves
  <2> HIDE DEF c
  <2> QED
    BY <1>3, <2>1
<1>5. CASE WaitNot(k, t) \/ WaitEnd(k, t)
  <2> DEFINE c == [pc |-> "idle", task |-> {t}, answer |-> Decoded(t, record[t])]
  <2>1. Moves(k, t, c) /\ c.pc # "undo"
    BY <1>5, CallerRecord, DecodedOK DEF WaitNot, WaitEnd, Reply, CallerPc, Moves
  <2> HIDE DEF c
  <2> QED
    BY <1>3, <2>1
<1> QED
  BY <1>4, <1>5

\* A lease that is dropped was of t, of which nothing can run any more.
LEMMA DropKeepsHeld ==
  ASSUME DispatchInv, NEW t \in Task, DropLease(t)
  PROVE  /\ leases' \in [Role -> SUBSET Task]
         /\ \A s \in Task : s # t /\ leases[RoleOf[s]] = {s} => leases'[RoleOf[s]] = {s}
         /\ \A s \in Task : s \in leases[RoleOf[s]] /\ s \notin leases'[RoleOf[s]] => s = t
BY RoleOfAssumption DEF DropLease, DispatchInv, DispatchTypeOK

LEMMA UndoKeepsInv ==
  ASSUME DispatchInv, NEW k \in Caller, NEW t \in Task, Undo(k, t)
  PROVE  DispatchInv' /\ LeaseDroppedLate
<1> DEFINE c == [pc |-> "idle", task |-> {t}, answer |-> "unavailable"]
<1>1. /\ Moves(k, t, c) /\ c.pc # "undo" /\ child[t] = "new" /\ UNCHANGED <<tvars, issued>>
      /\ submitting' = submitting \ {t}
  BY CallerRecord DEF Undo, Reply, CallerPc, Answer, Moves, DispatchInv, SubmitHolds
<1>2. TableInv' /\ ChildRuns' /\ Over' /\ \A s \in Task : Quiet(s)
  BY <1>1 DEF tvars, DispatchInv, DispatchTypeOK, TableInv, ChildRuns, Over, Quiet
<1>3. record[t].status # "running"
  BY <1>1 DEF DispatchInv, DispatchTypeOK, TableInv, IsPresent
<1>4. CASE UNCHANGED leases
  <2>1. UNCHANGED announcing
    BY <1>1 DEF tvars
  <2> HIDE DEF c
  <2> QED
    BY <1>1, <1>2, <1>4, <2>1, MoveKeepsInv
<1>5. CASE DropLease(t)
  <2> HIDE DEF c
  <2>1. DispatchTypeOK' /\ OwnTask'
    BY <1>1, <1>2, <1>5, MovesKeep, DropKeepsHeld DEF DispatchInv, DispatchTypeOK
  <2>2. SubmitHolds'
    <3>1. \A l \in Caller, s \in Task : CallerAt(l, s, "submit")' => leases'[RoleOf[s]] = {s}
      BY <1>1, <1>2, <1>5, MovesKeep, DropKeepsHeld DEF DispatchInv, SubmitHolds
    <3> QED
      BY <1>1, <1>2, <3>1, MovesKeep DEF SubmitHolds
  <2>3. LeaseHeld'
    BY <1>1, <1>3, <1>5, DropKeepsHeld DEF DispatchInv, DispatchTypeOK, LeaseHeld, tvars
  <2>4. LeaseDroppedLate
    BY <1>1, <1>2, <1>5, MovesKeep, DropKeepsHeld DEF LeaseDroppedLate, tvars
  <2> QED
    BY <1>2, <2>1, <2>2, <2>3, <2>4 DEF DispatchInv
<1> QED
  BY <1>4, <1>5 DEF Undo

LEMMA ObserveKeepsInv ==
  ASSUME DispatchInv, NEW t \in Task, ObserveTerminal(t)
  PROVE  DispatchInv' /\ LeaseDroppedLate
<1>1. /\ UNCHANGED <<tvars, issued, caller>> /\ submitting' = submitting \ {t} /\ DropLease(t)
      /\ child[t] = "gone" /\ record[t].status # "running"
  BY DEF ObserveTerminal, DispatchInv, Over
<1>2. DispatchTypeOK' /\ OwnTask' /\ ChildRuns' /\ Over'
  BY <1>1, DropKeepsHeld
  DEF tvars, DispatchInv, DispatchTypeOK, TableInv, ChildRuns, Over, OwnTask, Works
<1>3. \A k \in Caller : ~CallerAt(k, t, "submit") /\ ~CallerAt(k, t, "undo")
  BY <1>1 DEF DispatchInv, SubmitHolds
<1>4. SubmitHolds'
  BY <1>1, <1>3, DropKeepsHeld DEF DispatchInv, SubmitHolds, CallerAt, tvars
<1>5. LeaseHeld'
  BY <1>1, DropKeepsHeld DEF DispatchInv, DispatchTypeOK, LeaseHeld, tvars
<1>6. LeaseDroppedLate
  BY <1>1, <1>3, DropKeepsHeld DEF LeaseDroppedLate, CallerAt, tvars
<1> QED
  BY <1>2, <1>4, <1>5, <1>6 DEF DispatchInv

-----------------------------------------------------------------------------
LEMMA DispatchInvStep ==
  ASSUME DispatchInv, [DispatchNext]_<<tvars, dvars>>
  PROVE  DispatchInv' /\ LeaseDroppedLate
<1>1. ASSUME DispatchInv', UNCHANGED <<leases, caller>>
      PROVE  DispatchInv' /\ LeaseDroppedLate
  BY <1>1 DEF LeaseDroppedLate
<1>2. ASSUME NEW k \in Caller, NEW t \in Task, Reserve(k, t) \/ CallerStep(k, t)
      PROVE  DispatchInv' /\ LeaseDroppedLate
  BY <1>2, ReserveKeepsInv, SubmitKeepsInv, SubmitFailsKeepsInv, UndoKeepsInv, SettleKeepsInv,
     WaitKeepsInv
  DEF CallerStep
<1>3. ASSUME NEW t \in Task,
             \/ ObserveTerminal(t) \/ Announce(t) \/ WorkerStep(t)
             \/ AsyncSubmit(t) \/ OtherPin(t) \/ OtherUnpin(t)
      PROVE  DispatchInv' /\ LeaseDroppedLate
  <2>1. CASE ObserveTerminal(t)
    BY <2>1, ObserveKeepsInv
  <2>2. CASE Announce(t)
    BY <1>1, <2>2, AnnounceKeepsInv
  <2>3. CASE WorkerStep(t)
    BY <1>1, <2>3, WorkerStepKeepsInv DEF dvars
  <2>4. CASE AsyncSubmit(t)
    BY <1>1, <2>4, AsyncSubmitKeepsInv DEF dvars
  <2>5. CASE OtherPin(t) \/ OtherUnpin(t)
    BY <1>1, <2>5, OthersKeepInv DEF dvars
  <2> QED
    BY <1>3, <2>1, <2>2, <2>3, <2>4, <2>5
<1>4. CASE CloseSupervisor \/ UNCHANGED <<tvars, dvars>>
  BY <1>1, <1>4, OthersKeepInv DEF dvars
<1> QED
  BY <1>2, <1>3, <1>4 DEF DispatchNext

(* For every set of tasks, roles and callers, and whatever the supervisor's *)
(* other callers do.                                                        *)
THEOREM LeasesProtect == DispatchSpec => LeaseProtects
<1>1. DispatchInv /\ [DispatchNext]_<<tvars, dvars>> => DispatchInv'
  BY DispatchInvStep
<1>2. DispatchInv /\ DispatchInv' /\ [DispatchNext]_<<tvars, dvars>> =>
        [LeaseHeld /\ LeaseHeld' /\ LeaseDroppedLate]_<<tvars, dvars>>
  BY DispatchInvStep DEF DispatchInv
<1> QED
  BY <1>1, <1>2, DispatchInvInit, PTL DEF DispatchSpec, LeaseProtects

-----------------------------------------------------------------------------
(* Persistence and restarts: the tables and files of RoleTaskLifespan.        *)
LifespanTypeOK ==
  /\ record \in [Task -> Record]
  /\ clock \in Nat
  /\ child \in [Task -> {"new", "up", "gone"}]
  /\ file \subseteq Entry
  /\ verdict \in [Task -> Status]

\* No two records share a place in the table.
Ordered ==
  /\ IsFiniteSet(Present(record))
  /\ \A t \in Present(record) : record[t].stamp < clock
  /\ \A s, t \in Present(record) : s # t => record[s].stamp # record[t].stamp

\* The file holds no more records than a table.
FileFits == IsFiniteSet(FileTasks) /\ Cardinality(FileTasks) <= MaxRecords

\* A record, an entry of the file and a verdict are of a task that was submitted.
Started ==
  \A t \in Task : IsPresent(record[t]) \/ InFile(t) \/ verdict[t] # "absent" => child[t] # "new"

VerdictKept ==
  \A t \in Task : /\ IsTerminal(record[t]) => verdict[t] # "absent"
                  /\ record[t].status = "running" => verdict[t] = "absent"

\* What startup has done so far, and what serving may rely on.
StartupKnows ==
  /\ phase \in {"starting", "recovering"} => live = {} /\ announcing = {}
  /\ phase = "starting" => Present(record) = {}
  /\ phase = "recovering" =>
       /\ Present(record) \subseteq FileTasks
       /\ \A e \in file : e \in orphaned \/ e.task \in Present(record) \cup unread
  /\ phase # "recovering" => orphaned = {}
  /\ orphaned \subseteq file
  /\ phase \in {"serving", "saving"} => FileTasks \subseteq unread \cup kept

LifespanInv ==
  /\ LifespanTypeOK /\ Ordered /\ FileFits /\ Started /\ VerdictKept /\ StartupKnows
  /\ RecoveredHonestly

-----------------------------------------------------------------------------
LEMMA NatMin ==
  ASSUME NEW T \in SUBSET Nat, T # {}
  PROVE  \E x \in T : \A y \in T : x <= y
<1> DEFINE R == OpToRel(<, Nat)
<1>1. IsWellFoundedOn(R, Nat)
  BY NatLessThanWellFounded, Zenon
<1>2. \E x \in T : \A y \in T : <<y, x>> \notin R
  <2> HIDE DEF R
  <2> QED
    BY <1>1, WFMin
<1>3. ASSUME NEW x \in T, NEW y \in T, <<y, x>> \notin R PROVE x <= y
  <2>1. <<y, x>> \in Nat \X Nat
    OBVIOUS
  <2>2. ASSUME y < x PROVE <<y, x>> \in R
    <3>1. <<y, x>>[1] < <<y, x>>[2]
      BY <2>2
    <3> QED
      BY <2>1, <3>1, Zenon DEF OpToRel
  <2> HIDE DEF R
  <2> QED
    BY <1>3, <2>2
<1> HIDE DEF R
<1> QED
  BY <1>2, <1>3

(* list returns at most MaxRecords records: every other listed record is   *)
(* newer than the oldest of them.                                          *)
LEMMA ListedFits ==
  ASSUME LifespanTypeOK, Ordered
  PROVE  IsFiniteSet(Listed) /\ Cardinality(Listed) <= MaxRecords
<1>1. IsFiniteSet(Listed) /\ Listed \subseteq Present(record)
  BY FS_Subset DEF Ordered, Listed
<1>2. CASE Listed = {}
  BY <1>1, <1>2, FS_EmptySet, MaxRecordsAssumption
<1>3. CASE Listed # {}
  <2> DEFINE stamps == {record[t].stamp : t \in Listed}
  <2>1. stamps \in SUBSET Nat /\ stamps # {}
    BY <1>1, <1>3 DEF LifespanTypeOK, Present, Record
  <2> HIDE DEF stamps
  <2>2. PICK x \in stamps : \A y \in stamps : x <= y
    BY <2>1, NatMin
  <2>3. PICK t \in Listed : record[t].stamp = x
    BY <2>2 DEF stamps
  <2>4. ASSUME NEW s \in Listed, s # t PROVE s \in Newer(t)
    <3>1. record[s].stamp \in stamps /\ record[s].stamp \in Nat /\ x \in Nat
      BY <2>1, <2>2 DEF stamps
    <3>2. x <= record[s].stamp /\ record[s].stamp # record[t].stamp
      BY <1>1, <2>2, <2>3, <2>4, <3>1 DEF Ordered
    <3> QED
      BY <1>1, <2>3, <3>1, <3>2 DEF Newer
  <2>5. IsFiniteSet(Newer(t)) /\ Listed \ {t} \subseteq Newer(t)
    BY <2>4, FS_Subset DEF Ordered, Newer
  <2>6. Cardinality(Listed \ {t}) <= Cardinality(Newer(t))
    BY <2>5, FS_Subset
  <2>7. Cardinality(Listed \ {t}) = Cardinality(Listed) - 1 /\ Cardinality(Listed) \in Nat
    BY <1>1, FS_RemoveElement, FS_CardinalityType
  <2>8. Cardinality(Newer(t)) < MaxRecords /\ Cardinality(Newer(t)) \in Nat
    BY <2>5, FS_CardinalityType DEF Listed
  <2> QED
    BY <1>1, <2>6, <2>7, <2>8, MaxRecordsAssumption
<1> QED
  BY <1>2, <1>3

LEMMA SnapshotFits ==
  ASSUME LifespanTypeOK, Ordered
  PROVE  /\ Snapshot \subseteq Entry
         /\ {e.task : e \in Snapshot} = Listed
         /\ \A e \in Snapshot : e.status = record[e.task].status
<1>1. Listed \subseteq Present(record) /\ Present(record) \subseteq Task
  BY DEF Listed, Present
<1>2. ASSUME NEW t \in Listed
      PROVE  [task |-> t, status |-> record[t].status, place |-> Cardinality(Newer(t))] \in Entry
  <2>1. IsFiniteSet(Newer(t))
    BY FS_Subset DEF Ordered, Newer
  <2>2. Cardinality(Newer(t)) \in Nat
    BY <2>1, FS_CardinalityType
  <2>3. record[t].status \in Status \ {"absent"}
    BY <1>1 DEF LifespanTypeOK, Record, Present, IsPresent
  <2> QED
    BY <1>1, <2>2, <2>3 DEF Entry
<1>3. Snapshot \subseteq Entry
  BY <1>2 DEF Snapshot
<1>4. \A e \in Snapshot : e.task \in Listed /\ e.status = record[e.task].status
  BY DEF Snapshot
<1>5. ASSUME NEW t \in Listed PROVE \E e \in Snapshot : e.task = t
  <2> DEFINE e == [task |-> t, status |-> record[t].status, place |-> Cardinality(Newer(t))]
  <2>1. e \in Snapshot /\ e.task = t
    BY DEF Snapshot
  <2> QED
    BY <2>1
<1> QED
  BY <1>3, <1>4, <1>5

(* A table within its bound is left alone.                                 *)
LEMMA WithinBound ==
  ASSUME NEW R \in [Task -> Record], NEW L, NEW W, NEW P,
         IsFiniteSet(Present(R)), Cardinality(Present(R)) <= MaxRecords
  PROVE  Pruned(R, L, W, P) = R
<1> DEFINE removable == Removable(R, L, W, P)
           excess == Cardinality(Present(R)) - MaxRecords
           older(t) == {s \in removable : R[s].stamp <= R[t].stamp}
<1>1. excess <= 0 /\ excess \in Int
  BY FS_CardinalityType, MaxRecordsAssumption
<1>2. removable \subseteq Present(R)
  BY StatusCases DEF Removable, Present
<1>3. ASSUME NEW t \in Task, t \in removable PROVE ~(Cardinality(older(t)) <= excess)
  <2>1. R[t].stamp \in Nat
    BY DEF Record
  <2>2. t \in older(t) /\ older(t) \subseteq Present(R)
    BY <1>2, <1>3, <2>1
  <2>3. IsFiniteSet(older(t)) /\ older(t) # {}
    BY <2>2, FS_Subset
  <2>4. Cardinality(older(t)) \in Nat /\ Cardinality(older(t)) # 0
    BY <2>3, FS_CardinalityType, FS_EmptySet
  <2> HIDE DEF older, excess
  <2> QED
    BY <2>4, <1>1
<1>4. Pruned(R, L, W, P) = [t \in Task |-> IF t \in removable /\ Cardinality(older(t)) <= excess
                                           THEN NoRecord ELSE R[t]]
  BY DEF Pruned
<1>5. [t \in Task |-> IF t \in removable /\ Cardinality(older(t)) <= excess
                      THEN NoRecord ELSE R[t]] = [t \in Task |-> R[t]]
  <2> HIDE DEF older, excess, removable
  <2> QED
    BY <1>3
<1> QED
  BY <1>4, <1>5

-----------------------------------------------------------------------------
(* What a step of the table does to the record of a task.                  *)
Kept(t) == record'[t] = record[t]
Dropped(t) == record'[t] = NoRecord /\ IsTerminal(record[t])
Worked(t) ==
  /\ record[t].status = "running"
  /\ record'[t].status \in {"running"} \cup TerminalStatus
  /\ record'[t].stamp = record[t].stamp

LEMMA NothingElse ==
  ASSUME LifespanTypeOK, record' = record \/ Prunes
  PROVE  /\ record' \in [Task -> Record]
         /\ \A t \in Task : Kept(t) \/ Dropped(t)
<1>1. \A t \in Task : Kept(t) \/ Dropped(t)
  BY PrunedRemoves DEF Prunes, Kept, Dropped
<1>2. \A t \in Task : record'[t] \in Record
  BY <1>1, NoRecordFields DEF LifespanTypeOK, Kept, Dropped
<1>3. record' = [t \in Task |-> record'[t]]
  BY DEF LifespanTypeOK, Prunes, Pruned
<1> QED
  BY <1>1, <1>2, <1>3

LEMMA WorkEffect ==
  ASSUME LifespanTypeOK, NEW s \in Task, TaskStep(s)
  PROVE  /\ record' \in [Task -> Record]
         /\ child' \in [Task -> {"new", "up", "gone"}]
         /\ clock' = clock
         /\ \A t \in Task : Kept(t) \/ Dropped(t) \/ Worked(t)
         /\ \A t \in Task : child'[t] = "new" => child[t] = "new"
         /\ \A t \in Task : record'[t].status = "running" /\ t \in live => t \in live'
         /\ live = {} /\ announcing = {} /\ (\A t \in Task : record[t].status # "running") =>
              record' = record /\ live' = {} /\ announcing' = {}
<1>1. CASE ChildGone(s)
  BY <1>1 DEF ChildGone, LifespanTypeOK, Kept
<1>2. CASE Doom(s)
  BY <1>2 DEF Doom, LifespanTypeOK, Kept
<1>3. CASE Suspect(s)
  <2> DEFINE r == [record[s] EXCEPT !.doubt = TRUE]
  <2>1. r \in Record /\ r.status = record[s].status /\ r.stamp = record[s].stamp
    BY DEF LifespanTypeOK, Record
  <2>2. record' = [record EXCEPT ![s] = r]
    BY <1>3 DEF Suspect
  <2> HIDE DEF r
  <2>3. \A t \in Task : Kept(t) \/ Worked(t)
    BY <1>3, <2>1, <2>2 DEF Suspect, LifespanTypeOK, Kept, Worked
  <2> QED
    BY <1>3, <2>1, <2>2, <2>3 DEF Suspect, LifespanTypeOK
<1>4. ASSUME NEW v \in TerminalStatus, Conclude(s, v)
      PROVE  /\ record' \in [Task -> Record]
             /\ record[s].status = "running"
             /\ \A t \in Task : Kept(t) \/ Worked(t)
             /\ UNCHANGED <<child, clock, live>>
  <2> DEFINE r == Concluded(record[s], v)
  <2>1. r \in Record /\ r.status = v /\ r.stamp = record[s].stamp
    BY ConcludedFields DEF LifespanTypeOK, Record, Concluded
  <2>2. record' = [record EXCEPT ![s] = r] /\ record[s].status = "running" /\ UNCHANGED <<child, clock, live>>
    BY <1>4 DEF Conclude
  <2> HIDE DEF r
  <2> QED
    BY <2>1, <2>2 DEF LifespanTypeOK, Kept, Worked
<1>5. CASE Announced(s)
  <2>1. Prunes
    BY <1>5 DEF Announced, Prunes
  <2> QED
    BY <1>5, <2>1, NothingElse DEF Announced, LifespanTypeOK
<1>6. CASE Release(s)
  <2>1. Prunes
    BY <1>6 DEF Release, Prunes
  <2>2. record'[s].status # "running"
    BY <1>6, <2>1, NothingElse, NoRecordFields DEF Release, Kept, Dropped, IsTerminal, TerminalStatus
  <2> QED
    BY <1>6, <2>1, <2>2, NothingElse DEF Release, LifespanTypeOK
<1> QED
  BY <1>1, <1>2, <1>3, <1>4, <1>5, <1>6 DEF TaskStep, LifespanTypeOK

(* Present records shrink, and keep their places, as the table works.      *)
LEMMA OrderKept ==
  ASSUME LifespanTypeOK, Ordered, record' \in [Task -> Record], clock' = clock,
         \A t \in Task : Kept(t) \/ Dropped(t) \/ Worked(t)
  PROVE  Ordered' /\ Present(record') \subseteq Present(record)
<1>1. \A t \in Task : IsPresent(record'[t]) => IsPresent(record[t]) /\ record'[t].stamp = record[t].stamp
  BY NoRecordFields DEF Kept, Dropped, Worked, IsPresent
<1>2. Present(record') \subseteq Present(record)
  BY <1>1 DEF Present
<1>3. IsFiniteSet(Present(record'))
  BY <1>2, FS_Subset DEF Ordered
<1> QED
  BY <1>1, <1>2, <1>3 DEF Ordered, Present

LEMMA WorkKeepsInv == LifespanInv /\ Work => LifespanInv'
<1> SUFFICES ASSUME LifespanInv, Work PROVE LifespanInv'
  OBVIOUS
<1>1. PICK s \in Task : TaskStep(s)
  BY DEF Work
<1> DEFINE Effect == /\ record' \in [Task -> Record]
                     /\ child' \in [Task -> {"new", "up", "gone"}]
                     /\ clock' = clock
                     /\ \A t \in Task : Kept(t) \/ Dropped(t) \/ Worked(t)
                     /\ \A t \in Task : child'[t] = "new" => child[t] = "new"
                     /\ \A t \in Task : record'[t].status = "running" /\ t \in live => t \in live'
                     /\ live = {} /\ announcing = {} /\ (\A t \in Task : record[t].status # "running") =>
                          record' = record /\ live' = {} /\ announcing' = {}
<1>2. Effect /\ UNCHANGED <<phase, boots, file, orphaned, unread, kept>> /\ Alive /\ FirstVerdict(record')
  BY <1>1, WorkEffect DEF Work, LifespanInv
<1>3. \A t \in Task : verdict'[t] = IF verdict[t] = "absent" /\ IsTerminal(record'[t])
                                    THEN record'[t].status ELSE verdict[t]
  BY <1>2 DEF FirstVerdict
<1>4. LifespanTypeOK'
  <2>1. \A t \in Task : verdict'[t] \in Status
    BY <1>2, <1>3 DEF LifespanInv, LifespanTypeOK, Record
  <2> QED
    BY <1>2, <2>1 DEF LifespanInv, LifespanTypeOK, FirstVerdict
<1>5. Ordered' /\ Present(record') \subseteq Present(record)
  BY <1>2, OrderKept DEF LifespanInv
<1>6. FileFits'
  BY <1>2 DEF LifespanInv, FileFits, FileTasks
<1>7. Started'
  BY <1>2, <1>3, NoRecordFields DEF LifespanInv, Started, InFile, FileTasks, Kept, Dropped, Worked, IsPresent, IsTerminal, TerminalStatus
<1>8. VerdictKept'
  BY <1>2, <1>3, NoRecordFields DEF LifespanInv, VerdictKept, Kept, Dropped, Worked, IsPresent, IsTerminal, TerminalStatus
<1>9. StartupKnows'
  <2>1. CASE phase \in {"starting", "recovering"}
    <3>1. \A t \in Task : record[t].status # "running"
      BY <2>1 DEF LifespanInv, StartupKnows, RecoveredHonestly, NothingResumed, Alive
    <3> QED
      BY <1>2, <2>1, <3>1 DEF LifespanInv, StartupKnows, FileTasks
  <2> QED
    BY <1>2, <2>1 DEF LifespanInv, StartupKnows, FileTasks
<1>10. NothingResumed'
  BY <1>2, NoRecordFields DEF LifespanInv, RecoveredHonestly, NothingResumed, Kept, Dropped, Worked, Alive
<1>11. NoInventedVerdict'
  <2>1. ASSUME NEW t \in Task, IsTerminal(record'[t]) PROVE record'[t].status \in {verdict'[t], "crashed"}
    BY <1>2, <1>3, <2>1, NoRecordFields
    DEF LifespanInv, RecoveredHonestly, NoInventedVerdict, VerdictKept, Kept, Dropped, Worked
  <2>2. ASSUME NEW e \in file PROVE e.status \in {"running", "crashed", verdict'[e.task]}
    BY <1>2, <1>3 DEF LifespanInv, LifespanTypeOK, Entry, RecoveredHonestly, NoInventedVerdict
  <2> QED
    BY <1>2, <2>1, <2>2 DEF NoInventedVerdict
<1> QED
  BY <1>4, <1>5, <1>6, <1>7, <1>8, <1>9, <1>10, <1>11 DEF LifespanInv, RecoveredHonestly

-----------------------------------------------------------------------------
LEMMA LifespanInvInit == LifespanInit => LifespanInv
<1> SUFFICES ASSUME LifespanInit PROVE LifespanInv
  OBVIOUS
<1>1. \A t \in Task : record[t] = NoRecord
  BY DEF LifespanInit, TableInit
<1>2. Present(record) = {} /\ \A t \in Task : ~IsTerminal(record[t]) /\ record[t].status = "absent"
  BY <1>1, NoRecordFields DEF Present
<1>3. LifespanTypeOK
  BY NoRecordFields DEF LifespanInit, TableInit, LifespanTypeOK, Status
<1>4. Ordered
  BY <1>2, FS_EmptySet DEF Ordered
<1>5. FileTasks = {} /\ file = {}
  BY DEF LifespanInit, FileTasks
<1>6. FileFits
  BY <1>5, FS_EmptySet, MaxRecordsAssumption DEF FileFits
<1> QED
  BY <1>2, <1>3, <1>4, <1>5, <1>6
  DEF LifespanInit, TableInit, LifespanInv, Started, InFile, FileTasks, VerdictKept, StartupKnows, IsPresent,
      RecoveredHonestly, NothingResumed, NoInventedVerdict

\* A step of the process that leaves table, file and verdicts alone.
LEMMA PhaseKeepsInv ==
  ASSUME LifespanInv, UNCHANGED <<record, clock, child, live, announcing, file, verdict>>,
         Alive \/ ~Alive', StartupKnows'
  PROVE  LifespanInv'
BY DEF LifespanInv, LifespanTypeOK, Ordered, FileFits, FileTasks, Started, InFile, VerdictKept,
       RecoveredHonestly, NothingResumed, NoInventedVerdict, Alive

LEMMA StartupKeepsInv ==
  LifespanInv /\ (StartupLoads \/ StartupClearFails \/ StartupFails \/ ShutdownBegin \/ PersistFails
                  \/ StopSupervisor \/ ShutdownEnd \/ Crash) => LifespanInv'
<1> SUFFICES ASSUME LifespanInv,
               StartupLoads \/ StartupClearFails \/ StartupFails \/ ShutdownBegin \/ PersistFails
               \/ StopSupervisor \/ ShutdownEnd \/ Crash
             PROVE  LifespanInv'
  OBVIOUS
<1>1. UNCHANGED <<record, clock, child, live, announcing, file, verdict>> /\ (Alive \/ ~Alive')
  BY DEF StartupLoads, StartupClearFails, StartupFails, ShutdownBegin, PersistFails, StopSupervisor, Close,
         ShutdownEnd, Crash, tvars, lvars, Alive
<1>2. StartupKnows'
  <2>1. CASE StartupLoads
    <3>1. /\ phase = "starting" /\ orphaned' \subseteq file /\ unread' = {e.task : e \in file \ orphaned'}
          /\ phase' = IF orphaned' = {} THEN "serving" ELSE "recovering"
      BY <2>1 DEF StartupLoads, Loadable
    <3>2. \A e \in file : e \in orphaned' \/ e.task \in unread'
      BY <3>1
    <3>3. Present(record) = {} /\ live = {} /\ announcing = {}
      BY <3>1 DEF LifespanInv, StartupKnows
    <3> QED
      BY <1>1, <3>1, <3>2, <3>3 DEF StartupKnows, FileTasks
  <2>2. CASE StartupClearFails
    BY <1>1, <2>2 DEF LifespanInv, StartupKnows, FileTasks, StartupClearFails
  <2>3. CASE StartupFails \/ ShutdownBegin \/ PersistFails \/ StopSupervisor \/ ShutdownEnd \/ Crash
    BY <1>1, <2>3 DEF LifespanInv, StartupKnows, FileTasks, StartupFails, ShutdownBegin, PersistFails,
                      StopSupervisor, Close, ShutdownEnd, Crash, tvars, lvars
  <2> QED
    BY <2>1, <2>2, <2>3
<1> QED
  BY <1>1, <1>2, PhaseKeepsInv

LEMMA ClearKeepsInv == LifespanInv /\ StartupClears => LifespanInv'
<1> SUFFICES ASSUME LifespanInv, StartupClears PROVE LifespanInv'
  OBVIOUS
<1>1. FileTasks' = {} /\ file' = {}
  BY DEF StartupClears, FileTasks
<1>2. FileFits'
  BY <1>1, FS_EmptySet, MaxRecordsAssumption DEF FileFits
<1> QED
  BY <1>1, <1>2
  DEF StartupClears, tvars, LifespanInv, LifespanTypeOK, Ordered, Started, InFile, FileTasks, VerdictKept, StartupKnows,
      RecoveredHonestly, NothingResumed, NoInventedVerdict, Alive

LEMMA PersistKeepsInv == LifespanInv /\ Persist => LifespanInv'
<1> SUFFICES ASSUME LifespanInv, Persist PROVE LifespanInv'
  OBVIOUS
<1>1. file' = Snapshot /\ UNCHANGED <<record, clock, child, live, announcing, orphaned, verdict>>
      /\ phase \in {"saving", "rejected"} /\ phase' = "stopping"
  BY DEF Persist, tvars
<1>2. Snapshot \subseteq Entry /\ FileTasks' = Listed
  BY <1>1, SnapshotFits DEF LifespanInv, FileTasks
<1>3. FileFits'
  BY <1>2, ListedFits DEF LifespanInv, FileFits
<1>4. Listed \subseteq Present(record)
  BY DEF Listed
<1>5. \A e \in Snapshot : e.task \in Listed /\ e.status = record[e.task].status
  BY SnapshotFits DEF LifespanInv
<1>6. Started'
  BY <1>1, <1>4, <1>5 DEF LifespanInv, Started, InFile, FileTasks, Present
<1>7. ASSUME NEW e \in Snapshot PROVE e.status \in {"running", "crashed", verdict[e.task]}
  <2>1. e.task \in Task /\ IsPresent(record[e.task]) /\ record[e.task] \in Record
    BY <1>4, <1>5 DEF Present, LifespanInv, LifespanTypeOK
  <2>2. e.status = "running" \/ IsTerminal(record[e.task])
    BY <1>5, <2>1, StatusCases
  <2> QED
    BY <1>5, <2>1, <2>2 DEF LifespanInv, RecoveredHonestly, NoInventedVerdict
<1>8. NoInventedVerdict'
  BY <1>1, <1>7 DEF LifespanInv, RecoveredHonestly, NoInventedVerdict
<1> QED
  BY <1>1, <1>2, <1>3, <1>6, <1>8
  DEF LifespanInv, LifespanTypeOK, Ordered, VerdictKept, StartupKnows, RecoveredHonestly, NothingResumed, Alive

LEMMA AdmitKeepsInv == ASSUME LifespanInv, NEW t \in Task, SubmitTask(t) PROVE LifespanInv'
<1> DEFINE r == RunningRecord(clock)
<1>1. r \in Record /\ r.status = "running" /\ ~IsTerminal(r) /\ IsPresent(r) /\ r.stamp = clock
  BY RunningFields DEF LifespanInv, LifespanTypeOK, RunningRecord, NoRecord
<1>2. /\ record' = [record EXCEPT ![t] = r] /\ clock' = clock + 1 /\ live' = live \cup {t}
      /\ child' = [child EXCEPT ![t] = "up"] /\ child[t] = "new"
      /\ UNCHANGED <<announcing, phase, boots, file, orphaned, unread, kept, verdict>>
      /\ phase = "serving"
  BY DEF SubmitTask, Admit
<1> HIDE DEF r
<1>3. LifespanTypeOK'
  BY <1>1, <1>2 DEF LifespanInv, LifespanTypeOK
<1>4. ~IsPresent(record[t]) /\ verdict[t] = "absent" /\ ~InFile(t)
  BY <1>2 DEF LifespanInv, Started
<1>5. Present(record') = Present(record) \cup {t}
  BY <1>1, <1>2 DEF Present, LifespanInv, LifespanTypeOK
<1>6. Ordered'
  <2>1. IsFiniteSet(Present(record'))
    BY <1>5, FS_AddElement DEF LifespanInv, Ordered
  <2>2. \A s \in Present(record) : s # t /\ record'[s].stamp = record[s].stamp /\ record[s].stamp \in Nat
    BY <1>2, <1>4 DEF Present, LifespanInv, LifespanTypeOK, Record
  <2>3. record'[t].stamp = clock /\ clock \in Nat
    BY <1>1, <1>2 DEF LifespanInv, LifespanTypeOK
  <2>4. \A s \in Present(record) : record[s].stamp < clock
    BY DEF LifespanInv, Ordered
  <2>5. \A s, u \in Present(record) : s # u => record[s].stamp # record[u].stamp
    BY DEF LifespanInv, Ordered
  <2>6. \A s \in Present(record') : record'[s].stamp < clock + 1
    BY <1>5, <2>2, <2>3, <2>4
  <2>7. \A s, u \in Present(record') : s # u => record'[s].stamp # record'[u].stamp
    BY <1>5, <2>2, <2>3, <2>4, <2>5
  <2> QED
    BY <1>2, <2>1, <2>6, <2>7 DEF Ordered
<1>7. NothingResumed'
  BY <1>2 DEF LifespanInv, LifespanTypeOK, RecoveredHonestly, NothingResumed, Alive
<1>8. NoInventedVerdict'
  BY <1>1, <1>2 DEF LifespanInv, LifespanTypeOK, RecoveredHonestly, NoInventedVerdict
<1>9. Started' /\ VerdictKept'
  BY <1>1, <1>2, <1>4 DEF LifespanInv, LifespanTypeOK, Started, InFile, FileTasks, VerdictKept
<1> QED
  BY <1>2, <1>3, <1>6, <1>7, <1>8, <1>9 DEF LifespanInv, FileFits, FileTasks, StartupKnows, RecoveredHonestly

LEMMA OrphanEndKeepsInv == LifespanInv /\ OrphanEnds => LifespanInv'
<1> SUFFICES ASSUME LifespanInv, OrphanEnds PROVE LifespanInv'
  OBVIOUS
<1>1. /\ UNCHANGED <<record, clock, live, announcing, phase, boots, file, orphaned, unread, kept, verdict>>
      /\ child' \in [Task -> {"new", "up", "gone"}]
      /\ \A t \in Task : child'[t] = "new" => child[t] = "new"
  BY DEF OrphanEnds, ChildGone, lvars, LifespanInv, LifespanTypeOK
<1> QED
  BY <1>1 DEF LifespanInv, LifespanTypeOK, Ordered, FileFits, FileTasks, Started, InFile, VerdictKept,
              StartupKnows, RecoveredHonestly, NothingResumed, NoInventedVerdict, Alive

LEMMA BootKeepsInv == LifespanInv /\ Boot => LifespanInv'
<1> SUFFICES ASSUME LifespanInv, Boot PROVE LifespanInv'
  OBVIOUS
<1>1. /\ record' = [t \in Task |-> NoRecord] /\ clock' = 0 /\ live' = {} /\ announcing' = {}
      /\ phase = "down" /\ phase' = "starting" /\ UNCHANGED <<child, file, orphaned, verdict>>
  BY DEF Boot
<1>2. Present(record') = {}
  BY <1>1, NoRecordFields DEF Present
<1>3. Ordered'
  BY <1>2, FS_EmptySet DEF Ordered
<1> QED
  BY <1>1, <1>2, <1>3, NoRecordFields
  DEF LifespanInv, LifespanTypeOK, FileFits, FileTasks, Started, InFile, VerdictKept,
      StartupKnows, RecoveredHonestly, NothingResumed, NoInventedVerdict, Alive

(* A record startup rebuilds: terminal, at the end of the table, and never *)
(* pruned, because the table has no other records than the file.           *)
Rebuilt(e) == Concluded(RunningRecord(clock), Outcome(e))

LEMMA RebuiltFields ==
  ASSUME LifespanInv, NEW e \in file
  PROVE  /\ e.task \in Task /\ Outcome(e) \in TerminalStatus
         /\ Rebuilt(e) \in Record /\ Rebuilt(e).status = Outcome(e)
         /\ Rebuilt(e).stamp = clock
         /\ IsTerminal(Rebuilt(e)) /\ IsPresent(Rebuilt(e))
<1>1. e \in Entry
  BY DEF LifespanInv, LifespanTypeOK
<1>2. Outcome(e) \in TerminalStatus /\ e.task \in Task
  BY <1>1 DEF Entry, Outcome, Status, TerminalStatus
<1>3. RunningRecord(clock) \in Record /\ RunningRecord(clock).stamp = clock
  BY RunningFields DEF LifespanInv, LifespanTypeOK, RunningRecord, NoRecord
<1>4. Rebuilt(e) \in Record /\ Rebuilt(e).status = Outcome(e)
  BY <1>2, <1>3, ConcludedFields DEF Rebuilt
<1>5. Rebuilt(e).stamp = clock
  BY <1>3 DEF Rebuilt, Concluded, Record
<1> QED
  BY <1>2, <1>4, <1>5, StatusCases

LEMMA RebuildEffect ==
  ASSUME LifespanInv, NEW e \in orphaned, RecoverOrphan(e), ~IsPresent(record[e.task])
  PROVE  /\ record' = [record EXCEPT ![e.task] = Rebuilt(e)]
         /\ clock' = clock + 1
         /\ Present(record') = Present(record) \cup {e.task}
<1> DEFINE R == [record EXCEPT ![e.task] = Rebuilt(e)]
<1>1. e \in file /\ phase = "recovering"
  BY DEF LifespanInv, StartupKnows, RecoverOrphan
<1>2. R \in [Task -> Record] /\ R[e.task] = Rebuilt(e) /\ \A t \in Task : t # e.task => R[t] = record[t]
  BY <1>1, RebuiltFields DEF LifespanInv, LifespanTypeOK
<1>3. record' = Pruned(R, live, waiters, publications') /\ clock' = clock + 1
  BY DEF RecoverOrphan, Rebuilt
<1> HIDE DEF R
<1>4. Present(R) = Present(record) \cup {e.task}
  BY <1>1, <1>2, RebuiltFields DEF Present
<1>5. Present(R) \subseteq FileTasks
  BY <1>1, <1>4 DEF LifespanInv, StartupKnows, FileTasks
<1>6. IsFiniteSet(Present(R)) /\ Cardinality(Present(R)) <= Cardinality(FileTasks)
  BY <1>5, FS_Subset DEF LifespanInv, FileFits
<1>7. Cardinality(Present(R)) <= MaxRecords
  BY <1>6, FS_CardinalityType, MaxRecordsAssumption DEF LifespanInv, FileFits
<1>8. record' = R
  BY <1>2, <1>3, <1>6, <1>7, WithinBound
<1> QED
  BY <1>3, <1>4, <1>8 DEF R

LEMMA RecoverKeepsInv == ASSUME LifespanInv, NEW e \in orphaned, RecoverOrphan(e) PROVE LifespanInv'
<1>1. e \in file /\ e \in Entry /\ phase = "recovering" /\ live = {} /\ announcing = {}
  BY DEF LifespanInv, LifespanTypeOK, StartupKnows, RecoverOrphan
<1>2. UNCHANGED <<live, child, announcing, phase, file, unread, kept>> /\ orphaned' = orphaned \ {e}
  BY DEF RecoverOrphan
<1>3. CASE IsPresent(record[e.task])
  <2>1. UNCHANGED <<record, clock, verdict>>
    BY <1>3 DEF RecoverOrphan
  <2>2. e.task \in Present(record)
    BY <1>1, <1>3 DEF Present, Entry
  <2>3. StartupKnows'
    BY <1>1, <1>2, <2>1, <2>2 DEF LifespanInv, StartupKnows, FileTasks
  <2> QED
    BY <1>2, <2>1, <2>3, PhaseKeepsInv DEF Alive
<1>4. CASE ~IsPresent(record[e.task])
  <2> DEFINE r == Rebuilt(e)
             t == e.task
  <2>1. /\ t \in Task /\ r \in Record /\ r.status = Outcome(e) /\ r.stamp = clock
        /\ IsTerminal(r) /\ IsPresent(r) /\ Outcome(e) \in TerminalStatus
    BY <1>1, RebuiltFields
  <2>2. record' = [record EXCEPT ![t] = r] /\ clock' = clock + 1
        /\ Present(record') = Present(record) \cup {t}
    BY <1>4, RebuildEffect
  <2>3. FirstVerdict(record') /\ ~IsPresent(record[t])
    BY <1>4 DEF RecoverOrphan
  <2>4. r.status = IF e.status = "running" THEN "crashed" ELSE e.status
    BY <2>1 DEF Outcome
  <2>5. InFile(t)
    BY <1>1 DEF InFile, FileTasks
  <2> HIDE DEF r, t
  <2>6. \A s \in Task : record'[s] = IF s = t THEN r ELSE record[s]
    BY <2>1, <2>2 DEF LifespanInv, LifespanTypeOK
  <2>7. \A s \in Task : verdict'[s] = IF s = t /\ verdict[s] = "absent" THEN r.status ELSE verdict[s]
    BY <2>1, <2>3, <2>6 DEF FirstVerdict, LifespanInv, VerdictKept
  <2>8. LifespanTypeOK'
    <3>1. record' \in [Task -> Record] /\ clock' \in Nat
      BY <2>1, <2>2 DEF LifespanInv, LifespanTypeOK
    <3>2. \A s \in Task : verdict'[s] \in Status
      BY <2>1, <2>7 DEF LifespanInv, LifespanTypeOK, Record
    <3> QED
      BY <1>2, <2>3, <3>1, <3>2 DEF LifespanInv, LifespanTypeOK, FirstVerdict
  <2>9. Ordered'
    <3>1. IsFiniteSet(Present(record'))
      BY <2>2, FS_AddElement DEF LifespanInv, Ordered
    <3>2. \A s \in Present(record) : s # t /\ record'[s].stamp = record[s].stamp /\ record[s].stamp \in Nat
      BY <2>3, <2>6 DEF Present, LifespanInv, LifespanTypeOK, Record
    <3>3. record'[t].stamp = clock /\ clock \in Nat
      BY <2>1, <2>6 DEF LifespanInv, LifespanTypeOK
    <3>4. \A s \in Present(record) : record[s].stamp < clock
      BY DEF LifespanInv, Ordered
    <3>5. \A s, u \in Present(record) : s # u => record[s].stamp # record[u].stamp
      BY DEF LifespanInv, Ordered
    <3>6. \A s \in Present(record') : record'[s].stamp < clock + 1
      BY <2>2, <3>2, <3>3, <3>4
    <3>7. \A s, u \in Present(record') : s # u => record'[s].stamp # record'[u].stamp
      BY <2>2, <3>2, <3>3, <3>4, <3>5
    <3> QED
      BY <2>2, <3>1, <3>6, <3>7 DEF Ordered
  <2>10. Started'
    BY <1>2, <2>5, <2>6, <2>7 DEF LifespanInv, Started, InFile, FileTasks
  <2>11. VerdictKept'
    BY <2>1, <2>6, <2>7 DEF LifespanInv, VerdictKept, IsTerminal, TerminalStatus
  <2>12. StartupKnows'
    BY <1>1, <1>2, <2>2 DEF LifespanInv, StartupKnows, FileTasks, t
  <2>13. NothingResumed'
    BY <1>2, <2>1, <2>6 DEF LifespanInv, RecoveredHonestly, NothingResumed, Alive, IsTerminal, TerminalStatus
  <2>14. NoInventedVerdict'
    <3>0. e.status \in {"running", "crashed", verdict[t]}
      BY <1>1 DEF LifespanInv, RecoveredHonestly, NoInventedVerdict, t
    <3>1. ASSUME NEW s \in Task, IsTerminal(record'[s]) PROVE record'[s].status \in {verdict'[s], "crashed"}
      BY <2>4, <2>6, <2>7, <3>0, <3>1 DEF LifespanInv, RecoveredHonestly, NoInventedVerdict
    <3>2. ASSUME NEW d \in file PROVE d.status \in {"running", "crashed", verdict'[d.task]}
      <4>1. d.status \in {"running", "crashed", verdict[d.task]} /\ d.status # "absent" /\ d.task \in Task
        BY DEF LifespanInv, LifespanTypeOK, Entry, RecoveredHonestly, NoInventedVerdict
      <4> QED
        BY <2>7, <4>1
    <3> QED
      BY <1>2, <3>1, <3>2 DEF NoInventedVerdict
  <2> QED
    BY <1>2, <2>8, <2>9, <2>10, <2>11, <2>12, <2>13, <2>14 DEF LifespanInv, FileFits, FileTasks, RecoveredHonestly
<1> QED
  BY <1>3, <1>4

LEMMA LifespanInvStep == LifespanInv /\ [LifespanNext]_<<tvars, lvars>> => LifespanInv'
<1> SUFFICES ASSUME LifespanInv, [LifespanNext]_<<tvars, lvars>> PROVE LifespanInv'
  OBVIOUS
<1>1. CASE UNCHANGED <<tvars, lvars>>
  BY <1>1 DEF tvars, lvars, LifespanInv, LifespanTypeOK, Ordered, FileFits, FileTasks, Started, InFile,
       VerdictKept, StartupKnows, RecoveredHonestly, NothingResumed, NoInventedVerdict, Alive
<1> QED
  BY <1>1, StartupKeepsInv, ClearKeepsInv, PersistKeepsInv, AdmitKeepsInv, OrphanEndKeepsInv, BootKeepsInv,
     WorkKeepsInv, RecoverKeepsInv DEF LifespanNext

(* What a restart says of a task is neither resumed nor made up, wherever  *)
(* the process crashed between saving, recovering and clearing.            *)
THEOREM RestartsHonest == LifespanSpec => []RecoveredHonestly
<1>1. LifespanInv => RecoveredHonestly
  BY DEF LifespanInv
<1> QED
  BY <1>1, LifespanInvInit, LifespanInvStep, PTL DEF LifespanSpec

\* Startup is done with a record: it is in memory, or load left it out.
LEMMA DoneWith ==
  ASSUME LifespanInv, phase = "recovering", orphaned = {}, NEW t \in Task, Owed(t)
  PROVE  IsPresent(record[t])
<1>1. PICK e \in file : e.task = t
  BY DEF Owed, InFile, FileTasks
<1> QED
  BY <1>1 DEF LifespanInv, StartupKnows, Owed, Present

LEMMA ClearedStep ==
  ASSUME LifespanInv, [LifespanNext]_<<tvars, lvars>>, phase # "rejected"
  PROVE  SettledStep
<1>1. CASE StartupClears \/ StartupClearFails
  <2>1. phase = "recovering" /\ orphaned = {}
    BY <1>1 DEF StartupClears, StartupClearFails
  <2> QED
    BY <2>1, DoneWith DEF SettledStep, Alive
<1>2. CASE Persist
  <2>1. FileTasks \subseteq unread \cup kept
    BY <1>2 DEF Persist, LifespanInv, StartupKnows
  <2> QED
    BY <2>1 DEF SettledStep, Owed, InFile
<1>3. CASE file' = file /\ kept' \subseteq kept
  BY <1>3 DEF SettledStep, Owed, InFile, FileTasks
<1> QED
  BY <1>1, <1>2, <1>3 DEF LifespanNext, StartupLoads, StartupFails, RecoverOrphan, SubmitTask, Work,
     OrphanEnds, ShutdownBegin, PersistFails, StopSupervisor, ShutdownEnd, Crash, Boot, tvars, lvars

(* A saved record leaves the file, or is left behind there by a clear that *)
(* failed, only when it is in memory, unless load left it out or startup   *)
(* rejected the run state.                                                 *)
THEOREM SavedUntilInMemory == LifespanSpec => ClearedAfterRecovery
<1>1. LifespanInv /\ [LifespanNext]_<<tvars, lvars>> => [phase # "rejected" => SettledStep]_<<tvars, lvars>>
  BY ClearedStep
<1> QED
  BY <1>1, LifespanInvInit, LifespanInvStep, PTL DEF LifespanSpec, ClearedAfterRecovery

=============================================================================
