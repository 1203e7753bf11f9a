---------------------------- MODULE Orchestrator ----------------------------
(***************************************************************************)
(* The generic orchestrator (src/src/core/brain/orchestrator.py and        *)
(* DeclaredAgentWorker of orchestrator_worker.py): named agents run one    *)
(* task at a time, in a daemon thread of this process or in a child        *)
(* process.  A handler that outlives its deadline quarantines its agent    *)
(* until it has ended.  Callers dispatch, retry, register, unregister and  *)
(* recover agents while another thread shuts the orchestrator down.        *)
(*                                                                         *)
(* A step is one critical section of _agents_lock, of an agent's _lock or  *)
(* of _history_lock.  An Agent stands for one _RegisteredAgent object, so  *)
(* a name that is registered again gets another Agent.                     *)
(***************************************************************************)
EXTENDS Naturals, FiniteSets

CONSTANTS
  Agent,         \* _RegisteredAgent objects
  Name,
  NameOf,        \* the name an agent is registered under
  Worker,        \* agents that run their tasks in a child process
  Caller,        \* threads that dispatch
  Retrying,      \* callers of dispatch_with_retry; the others call dispatch
  Exec,          \* running or quarantined handlers at any one time
  MaxRetries,    \* max_retries of dispatch_with_retry
  MaxShutdowns   \* bound on the calls of shutdown

ASSUME AgentAssumption == NameOf \in [Agent -> Name] /\ Worker \subseteq Agent
ASSUME CallerAssumption == Retrying \subseteq Caller
ASSUME BoundAssumption == MaxRetries \in Nat /\ MaxShutdowns \in Nat

VARIABLES
  registry,   \* _agents: the agent registered under a name, a set of at most one
  agent,      \* status, _error_recoverable and _pending_thread of every agent
  exec,       \* handlers, in threads and in child processes
  caller,     \* control state of every dispatching thread
  shut,       \* where the thread in shutdown is
  shutdowns,  \* calls of shutdown so far; _shutdown is set by the first
  closing,    \* agents that call of shutdown has not come to yet
  stopped,    \* agents whose own shutdown has set them to SHUTDOWN
  closed      \* worker agents whose supervisor is shut down

ovars == <<registry, agent, exec, caller, shut, shutdowns, closing, stopped, closed>>

AgentStatus == {"idle", "busy", "error", "shutdown"}
AgentState == [status: AgentStatus \cup {"new"}, recoverable: BOOLEAN,
               pending: SUBSET Exec]

\* A handler with "doubt" outlived an attempt to kill its child process.
ExecState == {"free", "up", "doubt", "ok", "error", "timeout", "cancelled"}
Outcome == {"ok", "error", "timeout"}

CallerPC == {"idle", "dispatch", "start", "run", "settle", "record",
             "decide", "failed", "reset"}
Result == Outcome \cup {"none", "cancelled", "busy", "refused", "rejected", "raised", "unconfirmed"}
CallerState == [pc: CallerPC, name: Name, left: 0 .. MaxRetries,
                agent: SUBSET Agent, exec: SUBSET Exec, result: Result,
                origin: {"none", "thread", "worker"}, recorded: Nat]

NoExec == [agent |-> {}, state |-> "free"]
Up(i) == exec[i].state \in {"up", "doubt"}
Runs(a) == {i \in Exec : Up(i) /\ exec[i].agent = {a}}
Registered == UNION {registry[n] : n \in Name}
IsShutdown == shutdowns > 0

\* SHUTDOWN is never left.
To(x, status) == IF x.status = "shutdown" THEN "shutdown" ELSE status

\* Mutant of Reaped: a quarantine ends at the next observation.
ReapedEarly(a) ==
  LET x == agent[a]
  IN  IF x.pending # {}
      THEN [status |-> To(x, "idle"), recoverable |-> FALSE, pending |-> {}]
      ELSE x

(* _reap_finished_execution_locked: the first thing every observation of   *)
(* an agent does.  A quarantine ends when the handler has ended.           *)
Reaped(a) ==
  LET x == agent[a]
  IN  IF x.pending # {} /\ \A i \in x.pending : ~Up(i)
      THEN [status |-> To(x, "idle"), recoverable |-> FALSE, pending |-> {}]
      ELSE x

OrchInit ==
  /\ registry = [n \in Name |-> {}]
  /\ agent = [a \in Agent |-> [status |-> "new", recoverable |-> FALSE, pending |-> {}]]
  /\ exec = [i \in Exec |-> NoExec]
  /\ caller \in [Caller ->
       [pc: {"idle"}, name: Name, left: {0}, agent: {{}}, exec: {{}},
        result: {"none"}, origin: {"none"}, recorded: {0}]]
  /\ shut = "idle"
  /\ shutdowns = 0
  /\ closing = {}
  /\ stopped = {}
  /\ closed = {}

-----------------------------------------------------------------------------
(* The registry.                                                           *)

\* Mutant of Removable: an agent is held only by its quarantine.
RemovableBusy(a) == Reaped(a).pending = {}

\* can_unregister, after the reap
Removable(a) == Reaped(a).status # "busy" /\ Reaped(a).pending = {}

\* register_in_process, register_declared, register_worker: a fresh agent
\* replaces one that can be unregistered; a refusal only reaps.
Register(a) ==
  LET n == NameOf[a]
  IN  /\ agent[a].status = "new"
      /\ IF \A b \in registry[n] : Removable(b)
         THEN /\ registry' = [registry EXCEPT ![n] = {a}]
              /\ agent' = [b \in Agent |->
                   IF b = a THEN [agent[a] EXCEPT !.status = "idle"]
                   ELSE IF b \in registry[n] THEN Reaped(b) ELSE agent[b]]
         ELSE /\ UNCHANGED registry
              /\ agent' = [b \in Agent |->
                   IF b \in registry[n] THEN Reaped(b) ELSE agent[b]]
      /\ UNCHANGED <<exec, caller, shut, shutdowns, closing, stopped, closed>>

Unregister(a) ==
  /\ a \in Registered
  /\ agent' = [agent EXCEPT ![a] = Reaped(a)]
  /\ registry' = IF Removable(a)
                 THEN [registry EXCEPT ![NameOf[a]] = {}] ELSE registry
  /\ UNCHANGED <<exec, caller, shut, shutdowns, closing, stopped, closed>>

\* recover_agent: ERROR to IDLE, unless the error was a timeout.
RecoverAgent(a) ==
  /\ a \in Registered
  /\ agent' = [agent EXCEPT ![a] =
       IF Reaped(a).status = "error" /\ Reaped(a).recoverable
       THEN [Reaped(a) EXCEPT !.status = "idle", !.recoverable = FALSE]
       ELSE Reaped(a)]
  /\ UNCHANGED <<registry, exec, caller, shut, shutdowns, closing, stopped, closed>>

\* list_agents, is_available
Observe(a) ==
  /\ a \in Registered
  /\ agent' = [agent EXCEPT ![a] = Reaped(a)]
  /\ UNCHANGED <<registry, exec, caller, shut, shutdowns, closing, stopped, closed>>

-----------------------------------------------------------------------------
(* dispatch, and the loop of dispatch_with_retry around it.                *)
CallerAt(k, pc) == caller[k].pc = pc
Goto(k, pc) == caller' = [caller EXCEPT ![k] = [@ EXCEPT !.pc = pc]]

Call(k, n) ==
  /\ CallerAt(k, "idle")
  /\ caller' = [caller EXCEPT ![k] =
       [pc |-> "dispatch", name |-> n,
        left |-> IF k \in Retrying THEN MaxRetries ELSE 0, agent |-> {}, exec |-> {},
        result |-> "none", origin |-> "none", recorded |-> 0]]
  /\ UNCHANGED <<registry, agent, exec, shut, shutdowns, closing, stopped, closed>>

\* dispatch has an answer, of which this attempt put n results into history.
Return(k, result, origin, n) ==
  caller' = [caller EXCEPT ![k] =
    [@ EXCEPT !.pc = IF k \in Retrying THEN "decide" ELSE "idle",
              !.result = IF k \in Retrying THEN result ELSE "none",
              !.origin = origin, !.recorded = n]]

\* The answer is given to the caller of dispatch_with_retry.
Answered(k) == [caller[k] EXCEPT !.pc = "idle", !.result = "none", !.left = 0]

DispatchRefused(k) ==
  /\ CallerAt(k, "dispatch")
  /\ IsShutdown \/ registry[caller[k].name] = {}
  /\ Return(k, "refused", "none", 0)
  /\ UNCHANGED <<registry, agent, exec, shut, shutdowns, closing, stopped, closed>>

\* try_assign, under _agents_lock
Assignable(a) == Reaped(a).status = "idle"

DispatchAssigns(k, a) ==
  /\ CallerAt(k, "dispatch")
  /\ ~IsShutdown
  /\ a \in registry[caller[k].name]
  /\ IF Assignable(a)
     THEN /\ agent' = [agent EXCEPT ![a] =
               [Reaped(a) EXCEPT !.status = "busy", !.recoverable = FALSE]]
          /\ caller' = [caller EXCEPT ![k] =
               [@ EXCEPT !.pc = "start", !.agent = {a}, !.exec = {},
                         !.result = "none", !.recorded = 0,
                         !.origin = IF a \in Worker THEN "worker" ELSE "thread"]]
     ELSE /\ agent' = [agent EXCEPT ![a] = Reaped(a)]
          /\ Return(k, "busy", "none", 0)
  /\ UNCHANGED <<registry, exec, shut, shutdowns, closing, stopped, closed>>

Awaited(i) == \E k \in Caller : CallerAt(k, "run") /\ caller[k].exec = {i}

FreeExec(i) ==
  /\ ~Up(i)
  /\ \A a \in Agent : i \notin agent[a].pending
  /\ \A k \in Caller : i \notin caller[k].exec

NextExec == CHOOSE i \in Exec : FreeExec(i)

\* The handler thread is started, or the worker's supervisor has spawned the
\* child; a supervisor that is shut down refuses.
Start(k, a, i) ==
  /\ CallerAt(k, "start")
  /\ caller[k].agent = {a}
  /\ a \notin closed
  /\ FreeExec(i) /\ i = NextExec
  /\ exec' = [exec EXCEPT ![i] = [agent |-> {a}, state |-> "up"]]
  /\ caller' = [caller EXCEPT ![k] = [@ EXCEPT !.pc = "run", !.exec = {i}]]
  /\ UNCHANGED <<registry, agent, shut, shutdowns, closing, stopped, closed>>

\* submit raised after it had recorded the task, whose child stays behind.
StartLeavesChild(k, a, i) ==
  /\ CallerAt(k, "start")
  /\ caller[k].agent = {a}
  /\ a \in Worker \ closed
  /\ FreeExec(i) /\ i = NextExec
  /\ exec' = [exec EXCEPT ![i] = [agent |-> {a}, state |-> "up"]]
  /\ caller' = [caller EXCEPT ![k] =
       [@ EXCEPT !.pc = "settle", !.exec = {i}, !.result = "raised"]]
  /\ UNCHANGED <<registry, agent, shut, shutdowns, closing, stopped, closed>>

\* The task is rejected before a child is spawned (DeclaredAgentTaskError), or
\* the worker raised anything else and has no child.
StartFails(k, a) ==
  /\ CallerAt(k, "start")
  /\ caller[k].agent = {a}
  /\ a \in Worker
  /\ \E result \in {"rejected", "raised"} :
       caller' = [caller EXCEPT ![k] =
         [@ EXCEPT !.pc = "settle", !.result = result]]
  /\ UNCHANGED <<registry, agent, exec, shut, shutdowns, closing, stopped, closed>>

\* The handler ends, by itself or killed by the worker's deadline.
\* Nobody learns the outcome of one that is not waited for any more.
HandlerEnds(i, outcome) ==
  /\ Up(i)
  /\ exec' = [exec EXCEPT ![i] = IF Awaited(i) THEN [@ EXCEPT !.state = outcome] ELSE NoExec]
  /\ UNCHANGED <<registry, agent, caller, shut, shutdowns, closing, stopped, closed>>

\* The supervisor of a worker kills its child; the death is confirmed or not.
Killed(a, confirmed) ==
  [i \in Exec |->
     IF i \notin Runs(a) THEN exec[i]
     ELSE IF ~confirmed THEN [exec[i] EXCEPT !.state = "doubt"]
     ELSE IF Awaited(i) THEN [exec[i] EXCEPT !.state = "cancelled"]
     ELSE NoExec]

\* cancel, of the task that the worker of a registered agent runs
Cancel(a) ==
  /\ a \in Registered \cap Worker
  /\ Runs(a) # {}
  /\ \E confirmed \in BOOLEAN : exec' = Killed(a, confirmed)
  /\ UNCHANGED <<registry, agent, caller, shut, shutdowns, closing, stopped, closed>>

\* _run_with_timeout and the wait of the worker: the outcome, or the deadline
\* passed and the handler has not ended.
Join(k, i) ==
  /\ CallerAt(k, "run")
  /\ caller[k].exec = {i}
  /\ caller' = [caller EXCEPT ![k] =
       [@ EXCEPT !.pc = "settle",
                 !.result = IF Up(i) THEN "unconfirmed" ELSE exec[i].state]]
  /\ exec' = IF Up(i) THEN exec ELSE [exec EXCEPT ![i] = NoExec]
  /\ UNCHANGED <<registry, agent, shut, shutdowns, closing, stopped, closed>>

-----------------------------------------------------------------------------
(* What an attempt does to its agent: complete, release_assignment, fail,  *)
(* quarantine and quarantine_declared_worker.                              *)
Quarantine(x, i) ==
  [status |-> To(x, "error"), recoverable |-> FALSE, pending |-> {i}]

Settled(a, k) ==
  LET x == agent[a]
      result == caller[k].result
  IN  CASE result \in {"ok", "cancelled", "rejected"} ->
             [x EXCEPT !.status = To(x, "idle"), !.recoverable = FALSE]
        [] result = "error" \/ (result = "raised" /\ ~\E i \in caller[k].exec : Up(i)) ->
             [x EXCEPT !.status = To(x, "error"), !.recoverable = TRUE]
        [] result = "timeout" ->
             [x EXCEPT !.status = To(x, "error"), !.recoverable = FALSE]
        [] OTHER -> Quarantine(x, CHOOSE i \in Exec : caller[k].exec = {i})

Settle(k, a) ==
  /\ CallerAt(k, "settle")
  /\ caller[k].agent = {a}
  /\ agent' = [agent EXCEPT ![a] = Settled(a, k)]
  /\ caller' = [caller EXCEPT ![k] =
       [@ EXCEPT !.pc = "record", !.agent = {}, !.exec = {}]]
  /\ UNCHANGED <<registry, exec, shut, shutdowns, closing, stopped, closed>>

\* _record needs _history_lock, which shutdown holds while it stops agents.
HistoryFree == shut # "stopping"

Record(k) ==
  /\ CallerAt(k, "record")
  /\ HistoryFree
  /\ Return(k, caller[k].result, caller[k].origin, caller[k].recorded + 1)
  /\ UNCHANGED <<registry, agent, exec, shut, shutdowns, closing, stopped, closed>>

-----------------------------------------------------------------------------
(* dispatch_with_retry after an attempt.                                   *)
Transient(k) == caller[k].result \in {"busy", "timeout", "unconfirmed"}

\* has_pending_execution of the agent that has the name now
Pends(a) == Reaped(a).pending # {} \/ (a \in Worker /\ Runs(a) # {})

\* No further attempt: the answer is not transient, or none is left.
Exhausted(k) ==
  \/ caller[k].result \notin {"ok", "busy", "timeout", "unconfirmed"}
  \/ Transient(k) /\ caller[k].left = 0

\* Mutant of OfWorker: looks at the agent that has the name now.
NowWorker(k) == registry[caller[k].name] \cap Worker # {}

\* The kind of agent this attempt was assigned to.
OfWorker(k) == caller[k].origin = "worker"

\* The answer is given: success, a handler under this name that has not ended,
\* or no further attempt at a task that went to a worker.
Given(k) ==
  \/ caller[k].result = "ok"
  \/ Transient(k) /\ \E a \in registry[caller[k].name] : Pends(a)
  \/ Exhausted(k) /\ OfWorker(k)

\* Otherwise the attempt is recorded as failed, or repeated after a reset.
Ungiven(k) ==
  IF Exhausted(k) THEN [caller[k] EXCEPT !.pc = "failed"]
  ELSE [caller[k] EXCEPT !.pc = "reset", !.left = @ - 1]

Decide(k) ==
  /\ CallerAt(k, "decide")
  /\ caller' = [caller EXCEPT ![k] = IF Given(k) THEN Answered(k) ELSE Ungiven(k)]
  /\ agent' = [a \in Agent |->
       IF Transient(k) /\ a \in registry[caller[k].name] THEN Reaped(a) ELSE agent[a]]
  /\ UNCHANGED <<registry, exec, shut, shutdowns, closing, stopped, closed>>

\* The exhausted answer is renamed "failed" and recorded again.
RecordFailed(k) ==
  /\ CallerAt(k, "failed")
  /\ HistoryFree
  /\ caller' = [caller EXCEPT ![k] = [Answered(k) EXCEPT !.recorded = @ + 1]]
  /\ UNCHANGED <<registry, agent, exec, shut, shutdowns, closing, stopped, closed>>

\* _RegisteredAgent.reset, of whoever put the agent into ERROR
Reset(k) ==
  /\ CallerAt(k, "reset")
  /\ agent' = [a \in Agent |->
       IF a \notin registry[caller[k].name] THEN agent[a]
       ELSE IF Reaped(a).pending = {} /\ Reaped(a).status = "error"
            THEN [Reaped(a) EXCEPT !.status = "idle", !.recoverable = FALSE]
            ELSE Reaped(a)]
  /\ Goto(k, "dispatch")
  /\ UNCHANGED <<registry, exec, shut, shutdowns, closing, stopped, closed>>

-----------------------------------------------------------------------------
(* shutdown, and the shutdown of an agent that left the registry.          *)
ShutdownBegin ==
  /\ shut = "idle"
  /\ shutdowns < MaxShutdowns
  /\ shutdowns' = shutdowns + 1
  /\ shut' = "snapshot"
  /\ closing' = Registered
  /\ UNCHANGED <<registry, agent, exec, caller, stopped, closed>>

ShutdownLock ==
  /\ shut = "snapshot"
  /\ shut' = "stopping"
  /\ UNCHANGED <<registry, agent, exec, caller, shutdowns, closing, stopped, closed>>

\* _RegisteredAgent.shutdown, first half: the status.
StopAgent(a) ==
  /\ \/ shut = "stopping" /\ a \in closing
     \/ a \in Worker /\ a \notin Registered /\ agent[a].status # "new"
  /\ a \notin stopped
  /\ agent' = [agent EXCEPT ![a].status = "shutdown", ![a].recoverable = FALSE]
  /\ stopped' = stopped \cup {a}
  /\ UNCHANGED <<registry, exec, caller, shut, shutdowns, closing, closed>>

\* Second half: the supervisor of a worker is shut down.
CloseWorker(a) ==
  /\ a \in (stopped \cap Worker) \ closed
  /\ \E confirmed \in BOOLEAN : exec' = Killed(a, confirmed)
  /\ closed' = closed \cup {a}
  /\ UNCHANGED <<registry, agent, caller, shut, shutdowns, closing, stopped>>

\* Mutant of ShutdownNext: does not wait for the worker of the agent.
ShutdownNextAsync(a) ==
  /\ shut = "stopping"
  /\ a \in closing \cap stopped
  /\ closing' = closing \ {a}
  /\ UNCHANGED <<registry, agent, exec, caller, shut, shutdowns, stopped, closed>>

ShutdownNext(a) ==
  /\ shut = "stopping"
  /\ a \in closing \cap stopped
  /\ a \in Worker => a \in closed
  /\ closing' = closing \ {a}
  /\ UNCHANGED <<registry, agent, exec, caller, shut, shutdowns, stopped, closed>>

\* Mutant of ShutdownEnd: waits for the dispatching threads under the lock.
ShutdownEndJoins ==
  /\ shut = "stopping"
  /\ closing = {}
  /\ \A k \in Caller : CallerAt(k, "idle")
  /\ shut' = "idle"
  /\ UNCHANGED <<registry, agent, exec, caller, shutdowns, closing, stopped, closed>>

ShutdownEnd ==
  /\ shut = "stopping"
  /\ closing = {}
  /\ shut' = "idle"
  /\ UNCHANGED <<registry, agent, exec, caller, shutdowns, closing, stopped, closed>>

-----------------------------------------------------------------------------
CallerStep(k) ==
  \/ DispatchRefused(k)
  \/ \E a \in Agent : DispatchAssigns(k, a) \/ StartFails(k, a) \/ Settle(k, a)
  \/ \E a \in Agent, i \in Exec : Start(k, a, i) \/ StartLeavesChild(k, a, i)
  \/ \E i \in Exec : Join(k, i)
  \/ Record(k) \/ Decide(k) \/ RecordFailed(k) \/ Reset(k)

ShutdownStep ==
  \/ ShutdownLock \/ ShutdownEnd
  \/ \E a \in Agent : StopAgent(a) \/ CloseWorker(a) \/ ShutdownNext(a)

OrchNext ==
  \/ \E k \in Caller, n \in Name : Call(k, n)
  \/ \E k \in Caller : CallerStep(k)
  \/ \E a \in Agent : Register(a) \/ Unregister(a) \/ RecoverAgent(a) \/ Observe(a)
  \/ \E i \in Exec, outcome \in Outcome : HandlerEnds(i, outcome)
  \/ \E a \in Agent : Cancel(a)
  \/ ShutdownBegin \/ ShutdownStep

OrchSpec == OrchInit /\ [][OrchNext]_ovars

(* The dispatching threads and the thread in shutdown run.  Handlers need  *)
(* not end: nothing is assumed of HandlerEnds.                             *)
FairOrchSpec ==
  /\ OrchSpec
  /\ \A k \in Caller : WF_ovars(CallerStep(k))
  /\ WF_ovars(ShutdownStep)

-----------------------------------------------------------------------------
\* The caller has assigned its task to a and not settled it yet.
Holds(k, a) == caller[k].pc \in {"start", "run", "settle"} /\ caller[k].agent = {a}

\* a has a task: somebody holds it, or a handler of it has not ended.
Engaged(a) == (\E k \in Caller : Holds(k, a)) \/ Runs(a) # {}

(* Every variable has its type.                                            *)
OrchTypeOK ==
  /\ registry \in [Name -> SUBSET Agent]
  /\ agent \in [Agent -> AgentState]
  /\ exec \in [Exec -> [agent: SUBSET Agent, state: ExecState]]
  /\ caller \in [Caller -> CallerState]
  /\ shut \in {"idle", "snapshot", "stopping"}
  /\ shutdowns \in 0 .. MaxShutdowns
  /\ closing \subseteq Agent
  /\ stopped \subseteq Agent
  /\ closed \subseteq stopped \cap Worker

(* At most one handler runs under a name at any time: timeouts, retries    *)
(* and their resets, recovery, re-registration and shutdown never start a  *)
(* handler beside one that has not ended (design 2026-08-11,               *)
(* "generic-orchestrator-timeout-quarantine").                             *)
OneExecution ==
  \A i, j \in Exec :
    Up(i) /\ Up(j) /\ (\E a \in exec[i].agent, b \in exec[j].agent : NameOf[a] = NameOf[b])
      => i = j

(* An agent that may be assigned next has no task, and an agent that has   *)
(* one can be found under its name until the orchestrator is shut down:    *)
(* nobody detaches or replaces it.                                         *)
EngagedIsKept ==
  \A a \in Agent :
    Engaged(a) => /\ ~Assignable(a)
                  /\ IsShutdown \/ registry[NameOf[a]] = {a}

(* Shutdown is terminal: no late handler, reset or recovery reopens an     *)
(* agent, and no task is assigned after it began.                          *)
ShutdownTerminal ==
  [][/\ \A a \in Agent : agent[a].status = "shutdown" => agent'[a].status = "shutdown"
     /\ IsShutdown => \A k \in Caller : CallerAt(k, "dispatch") => ~CallerAt(k, "start")'
    ]_ovars

(* When shutdown has returned no child of a worker runs, unless its death  *)
(* could not be confirmed: none was started behind the back of shutdown.   *)
WorkersStopped ==
  IsShutdown /\ shut = "idle" =>
    \A i \in Exec : exec[i].state = "up" => exec[i].agent \cap Worker = {}

(* An attempt that was assigned is recorded once when it is answered, even *)
(* if its agent was replaced in the meantime by one of the other kind; a   *)
(* second record is only for an exhausted retry in this process.           *)
RecordedOnce ==
  \A k \in Caller :
    CallerAt(k, "idle") /\ caller[k].origin # "none" =>
      \/ caller[k].recorded = 1
      \/ caller[k].recorded = 2 /\ k \in Retrying /\ caller[k].origin = "thread"

(* Every dispatch is answered and every shutdown returns, whether handlers *)
(* end or not: nobody waits for a handler under a lock.                    *)
DispatchReturns ==
  /\ \A k \in Caller : ~CallerAt(k, "idle") ~> CallerAt(k, "idle")
  /\ shut # "idle" ~> shut = "idle"

=============================================================================
