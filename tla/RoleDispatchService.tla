------------------------- MODULE RoleDispatchService -------------------------
(***************************************************************************)
(* Synchronous dispatch to a role                                          *)
(* (src/src/core/brain/role_dispatch_service.py): a request reserves a     *)
(* lease on its role, submits a worker task, waits for its record and      *)
(* decodes it; the lease is released by the supervisor's terminal observer *)
(* or found stale by the next request.  The supervisor is RoleTaskTable;   *)
(* its other callers (the asynchronous task API, cancel, shutdown) are the *)
(* environment.                                                            *)
(***************************************************************************)
EXTENDS RoleTaskTable

CONSTANTS
  Caller,      \* threads that call dispatch_by_role
  Malformed    \* tasks whose runner returns no well-formed dispatch mapping

ASSUME MalformedAssumption == Malformed \subseteq Task
ASSUME CallerAssumption == IsFiniteSet(Caller) /\ Cardinality(Caller) <= MaxPins

VARIABLES
  leases,      \* _leases: the task that holds a role, as a set of at most one
  submitting,  \* _pending_submissions
  issued,      \* task ids handed out by the task id factory
  told,        \* announced tasks whose observer call has been made
  caller       \* control state and last answer of every caller

dvars == <<leases, submitting, issued, told, caller>>

\* A caller is idle, or at one of "submit", "undo", "settle", "look", "wait"; its
\* answer is "none", "done", "error", "timeout", "busy", "unavailable",
\* "unconfirmed" or "invalid".
CallerAt(k, t, pc) == caller[k].pc = pc /\ caller[k].task = {t}
CallerGoto(k, pc) == caller' = [caller EXCEPT ![k].pc = pc]
Reply(k, t, a) ==
  caller' = [caller EXCEPT ![k] = [pc |-> "idle", task |-> {t}, answer |-> a]]

\* Callers of this service that have the record of t pinned.
Waiting(t) == {k \in Caller : CallerAt(k, t, "wait")}

DispatchInit ==
  /\ TableInit
  /\ leases = [r \in Role |-> {}]
  /\ submitting = {}
  /\ issued = {}
  /\ told = {}
  /\ caller = [k \in Caller |-> [pc |-> "idle", task |-> {}, answer |-> "none"]]

-----------------------------------------------------------------------------
\* Mutant of Stale: a holder whose kill could not be confirmed looks stale.
StaleDoubted(t) ==
  /\ t \notin submitting
  /\ ~IsPresent(record[t]) \/ IsTerminal(record[t]) \/ record[t].doubt

(* _reserve: the holder keeps its lease while it is being submitted and    *)
(* while its record is there and not terminal and confirmed.               *)
Stale(t) ==
  /\ t \notin submitting
  /\ \/ ~IsPresent(record[t])
     \/ IsTerminal(record[t]) /\ record[t].confirmed

Reserve(k, t) ==
  /\ caller[k].pc = "idle"
  /\ t \notin issued
  /\ child[t] = "new"
  /\ issued' = issued \cup {t}
  /\ IF \A s \in leases[RoleOf[t]] : Stale(s)
     THEN /\ leases' = [leases EXCEPT ![RoleOf[t]] = {t}]
          /\ submitting' = submitting \cup {t}
          /\ caller' = [caller EXCEPT ![k] =
               [pc |-> "submit", task |-> {t}, answer |-> "none"]]
     ELSE /\ Reply(k, t, "busy")
          /\ UNCHANGED <<leases, submitting>>
  /\ UNCHANGED <<tvars, told>>

Submit(k, t) ==
  /\ CallerAt(k, t, "submit")
  /\ Admit(t)
  /\ CallerGoto(k, "settle")
  /\ UNCHANGED <<leases, submitting, issued, told>>

\* submit raised (shut down, role refused, spawn failure): no record is left.
\* A monitor thread that cannot be started is outside of the model.
SubmitFails(k, t) ==
  /\ CallerAt(k, t, "submit")
  /\ CallerGoto(k, "undo")
  /\ UNCHANGED <<tvars, leases, submitting, issued, told>>

\* Mutant of DropLease: the lease is kept.
KeepLease(t) == UNCHANGED leases

DropLease(t) ==
  leases' = [leases EXCEPT ![RoleOf[t]] = @ \ {t}]

Undo(k, t) ==
  /\ CallerAt(k, t, "undo")
  /\ submitting' = submitting \ {t}
  /\ IF IsPresent(record[t]) THEN UNCHANGED leases ELSE DropLease(t)
  /\ Reply(k, t, "unavailable")
  /\ UNCHANGED <<tvars, issued, told>>

Settle(k, t) ==
  /\ CallerAt(k, t, "settle")
  /\ submitting' = submitting \ {t}
  /\ CallerGoto(k, "look")
  /\ UNCHANGED <<tvars, leases, issued, told>>

\* _decode_record
Decoded(t, r) ==
  CASE ~IsPresent(r)                    -> "invalid"
    [] ~(IsTerminal(r) /\ r.confirmed)  -> "unconfirmed"
    [] r.status = "succeeded"           -> IF t \in Malformed THEN "invalid"
                                                             ELSE "done"
    [] r.status = "timeout"             -> "timeout"
    [] OTHER                            -> "error"

\* wait finds the record running and sleeps with it pinned ...
WaitBegin(k, t) ==
  /\ CallerAt(k, t, "look")
  /\ Pin(t)
  /\ CallerGoto(k, "wait")
  /\ UNCHANGED <<record, clock, live, doomed, child, publications, announcing,
                 closed, leases, submitting, issued, told>>

\* ... or finds it terminal or gone and returns at once ...
WaitNot(k, t) ==
  /\ CallerAt(k, t, "look")
  /\ record[t].status # "running"
  /\ IF IsPresent(record[t]) THEN Prune ELSE UNCHANGED <<record, waiters>>
  /\ Reply(k, t, Decoded(t, record[t]))
  /\ UNCHANGED <<clock, live, doomed, child, publications, announcing, closed,
                 leases, submitting, issued, told>>

\* ... and wakes when the record is terminal or the budget is spent.
WaitEnd(k, t) ==
  /\ CallerAt(k, t, "wait")
  /\ Unpin(t)
  /\ Reply(k, t, Decoded(t, record[t]))
  /\ UNCHANGED <<clock, live, doomed, child, publications, announcing, closed,
                 leases, submitting, issued, told>>

-----------------------------------------------------------------------------
\* _release_terminal_lease, called by the supervisor outside of its lock.
ObserveTerminal(t) ==
  /\ t \in announcing \ told
  /\ told' = told \cup {t}
  /\ submitting' = submitting \ {t}
  /\ DropLease(t)
  /\ UNCHANGED <<tvars, issued, caller>>

(* The supervisor's own steps, and its other callers: tasks submitted by   *)
(* the asynchronous API take no lease.                                     *)
Announce(t) ==
  /\ t \in told
  /\ Announced(t)
  /\ told' = told \ {t}
  /\ UNCHANGED <<leases, submitting, issued, caller>>

WorkerStep(t) ==
  /\ \/ ChildGone(t) \/ Doom(t) \/ Suspect(t) \/ Release(t)
     \/ \E v \in TerminalStatus : Conclude(t, v)
  /\ UNCHANGED dvars

AsyncSubmit(t) ==
  /\ t \notin issued
  /\ Admit(t)
  /\ UNCHANGED dvars

OtherPin(t) ==
  /\ waiters[t] - Cardinality(Waiting(t)) < MaxPins - Cardinality(Caller)
  /\ Pin(t)
  /\ UNCHANGED <<record, clock, live, doomed, child, publications, announcing,
                 closed, dvars>>

OtherUnpin(t) ==
  /\ waiters[t] > Cardinality(Waiting(t))
  /\ Unpin(t)
  /\ UNCHANGED <<clock, live, doomed, child, publications, announcing, closed,
                 dvars>>

CloseSupervisor == ~closed /\ Close /\ UNCHANGED dvars

CallerStep(k, t) ==
  \/ Submit(k, t) \/ SubmitFails(k, t) \/ Undo(k, t) \/ Settle(k, t)
  \/ WaitBegin(k, t) \/ WaitNot(k, t) \/ WaitEnd(k, t)

DispatchNext ==
  \/ \E k \in Caller, t \in Task : Reserve(k, t) \/ CallerStep(k, t)
  \/ \E t \in Task : \/ ObserveTerminal(t) \/ Announce(t) \/ WorkerStep(t)
                     \/ AsyncSubmit(t) \/ OtherPin(t) \/ OtherUnpin(t)
  \/ CloseSupervisor

DispatchSpec == DispatchInit /\ [][DispatchNext]_<<tvars, dvars>>

(* Callers and observers are running threads; the supervisor ends every    *)
(* task (EveryTaskEnds of RoleWorkerSupervisor) and gives its pins back.   *)
DispatchFairness ==
  /\ \A k \in Caller : WF_<<tvars, dvars>>(\E t \in Task : CallerStep(k, t))
  /\ \A t \in Task :
       /\ WF_<<tvars, dvars>>(ObserveTerminal(t) \/ Announce(t))
       /\ WF_<<tvars, dvars>>(Doom(t) /\ UNCHANGED dvars)
       /\ WF_<<tvars, dvars>>(ChildGone(t) /\ UNCHANGED dvars)
       /\ WF_<<tvars, dvars>>(
            \E v \in TerminalStatus : Conclude(t, v) /\ UNCHANGED dvars)
       /\ WF_<<tvars, dvars>>(Release(t) /\ UNCHANGED dvars)

FairDispatchSpec == DispatchSpec /\ DispatchFairness

-----------------------------------------------------------------------------
(* A task a synchronous request started holds the lease of its role until  *)
(* its record is terminal and its death confirmed, so no two of them run   *)
(* for one role: not even when its request gave up waiting, when it is     *)
(* still being submitted, or when an observer call comes late.             *)
LeaseHeld ==
  \A t \in issued : record[t].status = "running" => leases[RoleOf[t]] = {t}

(* No late observer call and no failed submission takes the lease of a     *)
(* later task: a lease is dropped only for a task that cannot run any more.*)
LeaseDroppedLate ==
  \A t \in Task : t \in leases[RoleOf[t]] /\ t \notin leases'[RoleOf[t]] =>
    /\ child'[t] # "up"
    /\ \A k \in Caller : ~(CallerAt(k, t, "submit"))'

(* The lease of a role keeps it to one synchronous task, from its          *)
(* reservation until nothing of it can run any more.                       *)
LeaseProtects == [][LeaseHeld /\ LeaseHeld' /\ LeaseDroppedLate]_<<tvars, dvars>>

(* No request blocks a role for ever: its lease is given back.             *)
LeaseReleased ==
  \A t \in Task : t \in leases[RoleOf[t]] ~> t \notin leases[RoleOf[t]]

(* A request is answered. *)
RequestAnswered ==
  \A k \in Caller : caller[k].pc # "idle" ~> caller[k].pc = "idle"

(* Every request comes back, and leaves its role free in the end.          *)
RequestsSettle == LeaseReleased /\ RequestAnswered

=============================================================================
