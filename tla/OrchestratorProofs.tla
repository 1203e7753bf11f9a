------------------------- MODULE OrchestratorProofs -------------------------
(***************************************************************************)
(* Theorems about Orchestrator, for every set of agents, names, callers    *)
(* and handlers and any number of retries and shutdowns.                   *)
(***************************************************************************)
EXTENDS Orchestrator, TLAPS

InHand(k) == caller[k].pc \in {"start", "run", "settle"}

\* The registry holds at most one agent of a name, and none that is not made.
RegistrySound ==
  \A n \in Name : \A a \in registry[n] :
    NameOf[a] = n /\ registry[n] = {a} /\ agent[a].status # "new"

\* A caller between assignment and settling has the agent and the handler.
HeldSound ==
  \A k \in Caller :
    /\ InHand(k) => \E a \in Agent : /\ caller[k].agent = {a}
                                     /\ agent[a].status \in {"busy", "shutdown"}
                                     /\ agent[a].pending = {}
    /\ ~InHand(k) => caller[k].agent = {} /\ caller[k].exec = {}
    /\ caller[k].pc = "start" => caller[k].exec = {}
    /\ caller[k].pc = "run" => \E i \in Exec : /\ caller[k].exec = {i}
                                               /\ exec[i].state # "free"
                                               /\ exec[i].agent = caller[k].agent

\* What a caller that settles knows of the handler it has started.
SettleSound ==
  \A k \in Caller : caller[k].pc = "settle" =>
    /\ caller[k].exec # {} => \E i \in Exec : caller[k].exec = {i}
    /\ \/ caller[k].result = "unconfirmed" /\ caller[k].exec # {}
       \/ caller[k].result = "raised"
       \/ /\ caller[k].result \in {"ok", "error", "timeout", "cancelled", "rejected"}
          /\ \A i \in caller[k].exec : ~Up(i)

UniqueHolder ==
  \A k, l \in Caller :
    InHand(k) /\ InHand(l) /\ caller[k].agent = caller[l].agent => k = l

\* A handler that has not ended is waited for or quarantines its agent.
RunsHeld ==
  \A i \in Exec : Up(i) =>
    \E a \in Agent :
      /\ exec[i].agent = {a}
      /\ \/ agent[a].pending = {i}
         \/ \E k \in Caller : InHand(k) /\ caller[k].agent = {a} /\ caller[k].exec = {i}

PendingSound ==
  \A a \in Agent : agent[a].pending # {} =>
    /\ \E i \in Exec : agent[a].pending = {i}
    /\ agent[a].status \in {"error", "shutdown"}
    /\ agent[a].recoverable = FALSE

\* Before shutdown an agent with a task is the one that has its name.
Kept == ~IsShutdown => \A a \in Agent : Engaged(a) => registry[NameOf[a]] = {a}

OneEngaged ==
  \A a, b \in Agent : Engaged(a) /\ Engaged(b) /\ NameOf[a] = NameOf[b] => a = b

ShutSound ==
  /\ shut # "idle" => IsShutdown
  /\ ~IsShutdown => \A n \in Name : \A a \in registry[n] : agent[a].status # "shutdown"

Control == HeldSound /\ SettleSound /\ UniqueHolder /\ RunsHeld /\ PendingSound

OrchIInv == OrchTypeOK /\ Control /\ RegistrySound /\ Kept /\ OneEngaged /\ ShutSound

-----------------------------------------------------------------------------
(* What a reap does to an agent.                                           *)
LEMMA ReapedCases ==
  ASSUME OrchTypeOK, PendingSound, NEW a \in Agent
  PROVE  \/ /\ Reaped(a) = agent[a]
            /\ agent[a].pending = {} \/ \E i \in agent[a].pending : Up(i)
         \/ /\ agent[a].pending # {} /\ \A i \in agent[a].pending : ~Up(i)
            /\ Reaped(a).pending = {} /\ Reaped(a).recoverable = FALSE
            /\ \/ agent[a].status = "error" /\ Reaped(a).status = "idle"
               \/ agent[a].status = "shutdown" /\ Reaped(a).status = "shutdown"
BY DEF OrchTypeOK, AgentState, AgentStatus, PendingSound, Reaped, To

LEMMA ReapedType ==
  ASSUME OrchTypeOK, NEW a \in Agent
  PROVE  Reaped(a) \in AgentState
BY DEF OrchTypeOK, AgentState, AgentStatus, Reaped, To

\* Steps that reap, recover or reset an agent: no handler of it is up.
Quiet(a) ==
  \/ agent'[a] = agent[a]
  \/ /\ \A i \in agent[a].pending : ~Up(i)
     /\ agent'[a].pending = {}
     /\ \/ agent[a].status = "error" /\ agent'[a].status = "idle"
        \/ agent[a].status = "shutdown" /\ agent'[a].status = "shutdown"
        \/ agent[a].status = "new" /\ agent'[a].status = "idle"

LEMMA ReapedQuiet ==
  ASSUME OrchTypeOK, PendingSound, NEW a \in Agent, agent'[a] = Reaped(a)
  PROVE  Quiet(a)
BY ReapedCases DEF Quiet

(* A quiet step of agents keeps what callers and handlers rely on.         *)
LEMMA QuietKeeps ==
  ASSUME OrchTypeOK, Control, UNCHANGED exec,
         \A a \in Agent : Quiet(a),
         \A k \in Caller :
           \/ caller'[k] = caller[k]
           \/ /\ ~InHand(k) /\ ~InHand(k)'
              /\ caller'[k].agent = caller[k].agent /\ caller'[k].exec = caller[k].exec
  PROVE  Control' /\ \A a \in Agent : Engaged(a)' => Engaged(a)
<1> USE DEF Control
<1>1. \A k \in Caller : InHand(k)' <=> InHand(k)
  BY DEF InHand
<1>2. \A k \in Caller : InHand(k) => caller'[k] = caller[k]
  BY DEF InHand
<1>3. \A i \in Exec : Up(i)' <=> Up(i)
  BY DEF Up
<1>4. HeldSound'
  BY <1>1, <1>2 DEF HeldSound, Quiet, InHand
<1>5. SettleSound'
  BY <1>1, <1>2, <1>3 DEF SettleSound, InHand, OrchTypeOK, CallerState
<1>6. UniqueHolder'
  BY <1>1, <1>2 DEF UniqueHolder
<1>7. RunsHeld'
  BY <1>1, <1>2, <1>3 DEF RunsHeld, Quiet
<1>8. PendingSound'
  BY DEF PendingSound, Quiet
<1>9. \A a \in Agent : Engaged(a)' => Engaged(a)
  BY <1>1, <1>2, <1>3 DEF Engaged, Holds, Runs, InHand
<1> QED
  BY <1>4, <1>5, <1>6, <1>7, <1>8, <1>9

\* An agent that has a task cannot be assigned, and not be removed before
\* shutdown.
LEMMA EngagedHeld ==
  ASSUME OrchTypeOK, Control, NEW a \in Agent, Engaged(a)
  PROVE  /\ Reaped(a) = agent[a]
         /\ \/ agent[a].status \in {"busy", "shutdown"} /\ agent[a].pending = {}
            \/ agent[a].status \in {"error", "shutdown"} /\ agent[a].pending # {}
<1> USE DEF Control
<1>1. CASE \E k \in Caller : Holds(k, a)
  BY <1>1, ReapedCases DEF Holds, HeldSound, InHand
<1>2. CASE Runs(a) # {}
  <2>1. PICK i \in Exec : Up(i) /\ exec[i].agent = {a}
    BY <1>2 DEF Runs
  <2>2. CASE agent[a].pending = {i}
    BY <2>1, <2>2, ReapedCases DEF PendingSound
  <2>3. CASE \E k \in Caller : InHand(k) /\ caller[k].agent = {a}
    BY <2>3, ReapedCases DEF HeldSound
  <2> QED
    BY <2>1, <2>2, <2>3 DEF RunsHeld
<1> QED
  BY <1>1, <1>2 DEF Engaged

-----------------------------------------------------------------------------
(* Types.                                                                  *)
LEMMA Constants ==
  /\ {"idle", "dispatch", "start", "run", "settle", "record", "decide", "failed", "reset"}
       \subseteq CallerPC
  /\ {"none", "ok", "error", "timeout", "cancelled", "busy", "refused", "rejected",
      "raised", "unconfirmed"} \subseteq Result
  /\ 0 \in 0 .. MaxRetries /\ MaxRetries \in 0 .. MaxRetries
BY BoundAssumption DEF CallerPC, Result, Outcome

LEMMA InitType == OrchInit => OrchTypeOK
<1> SUFFICES ASSUME OrchInit PROVE OrchTypeOK
  OBVIOUS
<1>1. caller \in [Caller -> CallerState]
  BY Constants DEF OrchInit, CallerState
<1> QED
  BY <1>1, BoundAssumption DEF OrchInit, OrchTypeOK, AgentState, NoExec, ExecState

\* The updates of a caller keep its type.
LEMMA CallerFields ==
  ASSUME NEW k \in Caller, caller[k] \in CallerState
  PROVE  /\ \A p \in CallerPC : [caller[k] EXCEPT !.pc = p] \in CallerState
         /\ \A r \in Result :
              [caller[k] EXCEPT !.pc = "settle", !.result = r] \in CallerState
         /\ \A i \in Exec :
              /\ [caller[k] EXCEPT !.pc = "run", !.exec = {i}] \in CallerState
              /\ [caller[k] EXCEPT !.pc = "settle", !.exec = {i}, !.result = "raised"]
                   \in CallerState
         /\ [caller[k] EXCEPT !.pc = "record", !.agent = {}, !.exec = {}] \in CallerState
BY Constants DEF CallerState

LEMMA AssignedFields ==
  ASSUME NEW k \in Caller, caller[k] \in CallerState, NEW a \in Agent,
         NEW origin \in {"none", "thread", "worker"}
  PROVE  [caller[k] EXCEPT !.pc = "start", !.agent = {a}, !.exec = {},
            !.result = "none", !.recorded = 0, !.origin = origin] \in CallerState
BY Constants DEF CallerState

LEMMA ResetFields ==
  ASSUME NEW k \in Caller, caller[k] \in CallerState, caller[k].left # 0
  PROVE  [caller[k] EXCEPT !.pc = "reset", !.left = @ - 1] \in CallerState
<1>1. caller[k].left - 1 \in 0 .. MaxRetries
  BY BoundAssumption DEF CallerState
<1> QED
  BY <1>1, Constants DEF CallerState

LEMMA FailedFields ==
  ASSUME NEW k \in Caller, caller[k] \in CallerState
  PROVE  [caller[k] EXCEPT !.pc = "failed"] \in CallerState
BY DEF CallerState, CallerPC

LEMMA RecordedFields ==
  ASSUME NEW x \in CallerState
  PROVE  [x EXCEPT !.recorded = @ + 1] \in CallerState
BY DEF CallerState

LEMMA AgentFields ==
  ASSUME NEW x \in AgentState, NEW b \in BOOLEAN, NEW st \in AgentStatus
  PROVE  /\ [x EXCEPT !.status = st] \in AgentState
         /\ [x EXCEPT !.status = st, !.recoverable = b] \in AgentState
BY DEF AgentState

LEMMA ReturnType ==
  ASSUME caller \in [Caller -> CallerState], NEW k \in Caller, NEW result \in Result,
         NEW origin \in {"none", "thread", "worker"}, NEW n \in Nat,
         Return(k, result, origin, n)
  PROVE  caller' \in [Caller -> CallerState]
<1>1. [caller[k] EXCEPT !.pc = IF k \in Retrying THEN "decide" ELSE "idle",
                       !.result = IF k \in Retrying THEN result ELSE "none",
                       !.origin = origin, !.recorded = n] \in CallerState
  BY Constants DEF CallerState
<1> QED
  BY <1>1 DEF Return

LEMMA AnsweredType ==
  ASSUME caller \in [Caller -> CallerState], NEW k \in Caller
  PROVE  Answered(k) \in CallerState
BY Constants DEF Answered, CallerState

LEMMA KilledType ==
  ASSUME exec \in [Exec -> [agent: SUBSET Agent, state: ExecState]],
         NEW a \in Agent, NEW confirmed \in BOOLEAN
  PROVE  Killed(a, confirmed) \in [Exec -> [agent: SUBSET Agent, state: ExecState]]
BY DEF Killed, NoExec, ExecState

LEMMA SettledType ==
  ASSUME OrchTypeOK, Control, NEW k \in Caller, NEW a \in Agent,
         caller[k].pc = "settle", caller[k].agent = {a}
  PROVE  Settled(a, k) \in AgentState
<1> DEFINE q == CHOOSE i \in Exec : caller[k].exec = {i}
<1>1. agent[a] \in AgentState /\ caller[k] \in CallerState
  BY DEF OrchTypeOK
<1>2. To(agent[a], "idle") \in AgentStatus \cup {"new"}
  BY DEF To, AgentStatus
<1>3. To(agent[a], "error") \in AgentStatus \cup {"new"}
  BY DEF To, AgentStatus
<1>4. CASE caller[k].result \in {"ok", "cancelled", "rejected"}
  BY <1>1, <1>2, <1>4 DEF Settled, AgentState
<1>5. CASE /\ caller[k].result \notin {"ok", "cancelled", "rejected"}
           /\ \/ caller[k].result = "error"
              \/ caller[k].result = "raised" /\ ~\E i \in caller[k].exec : Up(i)
  BY <1>1, <1>3, <1>5 DEF Settled, AgentState
<1>6. CASE caller[k].result = "timeout"
  BY <1>1, <1>3, <1>6 DEF Settled, AgentState
<1>7. CASE /\ caller[k].result \notin {"ok", "cancelled", "rejected", "error", "timeout"}
           /\ ~(caller[k].result = "raised" /\ ~\E i \in caller[k].exec : Up(i))
  <2>1. caller[k].exec # {}
    BY <1>7 DEF Control, SettleSound
  <2>2. q \in Exec
    BY <2>1 DEF Control, SettleSound
  <2>3. Settled(a, k) = Quarantine(agent[a], q)
    BY <1>7 DEF Settled
  <2> QED
    BY <1>3, <2>2, <2>3 DEF Quarantine, AgentState
<1> QED
  BY <1>4, <1>5, <1>6, <1>7

LEMMA NextType == OrchTypeOK /\ Control /\ [OrchNext]_ovars => OrchTypeOK'
<1> SUFFICES ASSUME OrchTypeOK, Control, [OrchNext]_ovars PROVE OrchTypeOK'
  OBVIOUS
<1> USE AgentAssumption, BoundAssumption DEF OrchTypeOK
<1>1. ASSUME NEW k \in Caller, NEW n \in Name, Call(k, n) PROVE OrchTypeOK'
  BY <1>1, Constants DEF Call, CallerState
<1>2. ASSUME NEW k \in Caller, DispatchRefused(k) PROVE OrchTypeOK'
  BY <1>2, ReturnType DEF DispatchRefused, Result
<1>3. ASSUME NEW k \in Caller, NEW a \in Agent, DispatchAssigns(k, a) PROVE OrchTypeOK'
  <2>1. Reaped(a) \in AgentState
    BY ReapedType
  <2>2. CASE Assignable(a)
    <3>1. agent' \in [Agent -> AgentState]
      BY <1>3, <2>1, <2>2, AgentFields DEF DispatchAssigns, AgentStatus
    <3>2. caller' \in [Caller -> CallerState]
      <4> DEFINE x == [caller[k] EXCEPT !.pc = "start", !.agent = {a}, !.exec = {},
               !.result = "none", !.recorded = 0,
               !.origin = IF a \in Worker THEN "worker" ELSE "thread"]
      <4>1. x \in CallerState
        BY AssignedFields
      <4>2. caller' = [caller EXCEPT ![k] = x]
        BY <1>3, <2>2 DEF DispatchAssigns
      <4> HIDE DEF x
      <4> QED
        BY <4>1, <4>2
    <3> QED
      BY <1>3, <3>1, <3>2 DEF DispatchAssigns
  <2>3. CASE ~Assignable(a)
    BY <1>3, <2>1, <2>3, ReturnType DEF DispatchAssigns, Result
  <2> QED
    BY <2>2, <2>3
<1>4. ASSUME NEW k \in Caller, NEW a \in Agent, StartFails(k, a) PROVE OrchTypeOK'
  <2>1. PICK result \in {"rejected", "raised"} :
          caller' = [caller EXCEPT ![k] = [@ EXCEPT !.pc = "settle", !.result = result]]
    BY <1>4 DEF StartFails
  <2>2. [caller[k] EXCEPT !.pc = "settle", !.result = result] \in CallerState
    BY Constants, CallerFields
  <2> QED
    BY <1>4, <2>1, <2>2 DEF StartFails
<1>5. ASSUME NEW k \in Caller, NEW a \in Agent, Settle(k, a) PROVE OrchTypeOK'
  <2>1. Settled(a, k) \in AgentState
    BY <1>5, SettledType DEF Settle, CallerAt
  <2> QED
    BY <1>5, <2>1, Constants, CallerFields DEF Settle
<1>6. ASSUME NEW k \in Caller, NEW a \in Agent, NEW i \in Exec,
             Start(k, a, i) \/ StartLeavesChild(k, a, i)
      PROVE  OrchTypeOK'
  <2>1. exec' \in [Exec -> [agent: SUBSET Agent, state: ExecState]]
    BY <1>6 DEF Start, StartLeavesChild, ExecState
  <2>2. caller' \in [Caller -> CallerState]
    <3>1. CASE Start(k, a, i)
      BY <3>1, CallerFields DEF Start
    <3>2. CASE StartLeavesChild(k, a, i)
      BY <3>2, CallerFields DEF StartLeavesChild
    <3> QED
      BY <1>6, <3>1, <3>2
  <2> QED
    BY <1>6, <2>1, <2>2 DEF Start, StartLeavesChild
<1>7. ASSUME NEW k \in Caller, NEW i \in Exec, Join(k, i) PROVE OrchTypeOK'
  <2>1. exec[i].state # "free"
    BY <1>7 DEF Join, CallerAt, Control, HeldSound
  <2>4. ~Up(i) => exec[i].state \in Result
    BY <2>1 DEF Up, ExecState, Result, Outcome
  <2>2. exec' \in [Exec -> [agent: SUBSET Agent, state: ExecState]]
    BY <1>7 DEF Join, NoExec, ExecState
  <2>3. caller' \in [Caller -> CallerState]
    BY <1>7, <2>1, <2>4, Constants, CallerFields DEF Join
  <2> QED
    BY <1>7, <2>2, <2>3 DEF Join
<1>8. ASSUME NEW k \in Caller, Record(k) PROVE OrchTypeOK'
  <2>1. /\ caller[k].result \in Result /\ caller[k].recorded + 1 \in Nat
        /\ caller[k].origin \in {"none", "thread", "worker"}
    BY DEF CallerState
  <2> QED
    BY <1>8, <2>1, ReturnType DEF Record
<1>9. ASSUME NEW k \in Caller, Decide(k) PROVE OrchTypeOK'
  <2>1. agent' \in [Agent -> AgentState]
    BY <1>9, ReapedType DEF Decide
  <2>2. caller[k] \in CallerState /\ Answered(k) \in CallerState
    BY AnsweredType
  <2>3. ~Given(k) => Ungiven(k) \in CallerState
    BY <2>2, FailedFields, ResetFields DEF Given, Ungiven, Exhausted, Transient
  <2> QED
    BY <1>9, <2>1, <2>2, <2>3 DEF Decide
<1>10. ASSUME NEW k \in Caller, RecordFailed(k) PROVE OrchTypeOK'
  <2>1. [Answered(k) EXCEPT !.recorded = @ + 1] \in CallerState
    BY AnsweredType, RecordedFields
  <2> QED
    BY <1>10, <2>1 DEF RecordFailed
<1>11. ASSUME NEW k \in Caller, Reset(k) PROVE OrchTypeOK'
  <2>1. \A a \in Agent : [Reaped(a) EXCEPT !.status = "idle", !.recoverable = FALSE] \in AgentState
    BY ReapedType DEF AgentState, AgentStatus
  <2>2. agent' \in [Agent -> AgentState]
    BY <1>11, <2>1, ReapedType DEF Reset
  <2> QED
    BY <1>11, <2>2, Constants, CallerFields DEF Reset, Goto
<1>12. ASSUME NEW a \in Agent, Register(a) PROVE OrchTypeOK'
  <2>1. agent' \in [Agent -> AgentState]
    <3>1. [agent[a] EXCEPT !.status = "idle"] \in AgentState
      <4>1. agent[a] \in AgentState /\ "idle" \in AgentStatus
        BY DEF AgentStatus
      <4> QED
        BY <4>1, AgentFields
    <3>2. \A b \in Agent : Reaped(b) \in AgentState
      BY ReapedType
    <3> QED
      BY <1>12, <3>1, <3>2 DEF Register
  <2>2. registry' \in [Name -> SUBSET Agent]
    BY <1>12 DEF Register
  <2> QED
    BY <1>12, <2>1, <2>2 DEF Register
<1>13. ASSUME NEW a \in Agent, Unregister(a) \/ Observe(a) PROVE OrchTypeOK'
  BY <1>13, ReapedType DEF Unregister, Observe
<1>14. ASSUME NEW a \in Agent, RecoverAgent(a) PROVE OrchTypeOK'
  <2>1. Reaped(a) \in AgentState
    BY ReapedType
  <2>2. [Reaped(a) EXCEPT !.status = "idle", !.recoverable = FALSE] \in AgentState
    BY <2>1 DEF AgentState, AgentStatus
  <2>3. agent' \in [Agent -> AgentState]
    BY <1>14, <2>1, <2>2 DEF RecoverAgent
  <2> QED
    BY <1>14, <2>3 DEF RecoverAgent
<1>15. ASSUME NEW i \in Exec, NEW outcome \in Outcome, HandlerEnds(i, outcome)
       PROVE  OrchTypeOK'
  BY <1>15 DEF HandlerEnds, NoExec, ExecState, Outcome
<1>16. ASSUME NEW a \in Agent, Cancel(a) \/ CloseWorker(a) PROVE OrchTypeOK'
  <2>1. PICK confirmed \in BOOLEAN : exec' = Killed(a, confirmed)
    BY <1>16 DEF Cancel, CloseWorker
  <2>2. exec' \in [Exec -> [agent: SUBSET Agent, state: ExecState]]
    BY <2>1, KilledType
  <2>3. UNCHANGED <<registry, agent, caller, shut, shutdowns, closing, stopped>>
    BY <1>16 DEF Cancel, CloseWorker
  <2>4. closed' \subseteq stopped \cap Worker
    BY <1>16 DEF Cancel, CloseWorker
  <2> QED
    BY <2>2, <2>3, <2>4
<1>17. ASSUME ShutdownBegin PROVE OrchTypeOK'
  BY <1>17 DEF ShutdownBegin, Registered
<1>18. ASSUME ShutdownLock \/ ShutdownEnd PROVE OrchTypeOK'
  BY <1>18 DEF ShutdownLock, ShutdownEnd
<1>19. ASSUME NEW a \in Agent, StopAgent(a) PROVE OrchTypeOK'
  <2>1. [agent[a] EXCEPT !.status = "shutdown", !.recoverable = FALSE] \in AgentState
    <3>1. agent[a] \in AgentState
      OBVIOUS
    <3> QED
      BY <3>1 DEF AgentState, AgentStatus
  <2>2. agent' \in [Agent -> AgentState]
    BY <1>19, <2>1 DEF StopAgent
  <2> QED
    BY <1>19, <2>2 DEF StopAgent
<1>20. ASSUME NEW a \in Agent, ShutdownNext(a) PROVE OrchTypeOK'
  BY <1>20 DEF ShutdownNext
<1>21. CASE UNCHANGED ovars
  BY <1>21 DEF ovars
<1> QED
  BY <1>1, <1>2, <1>3, <1>4, <1>5, <1>6, <1>7, <1>8, <1>9, <1>10, <1>11, <1>12, <1>13,
     <1>14, <1>15, <1>16, <1>17, <1>18, <1>19, <1>20, <1>21
     DEF OrchNext, CallerStep, ShutdownStep

-----------------------------------------------------------------------------
(* Steps that move neither a handler nor a caller that has a task in hand. *)
StillCallers ==
  \A k \in Caller :
    \/ caller'[k] = caller[k]
    \/ /\ ~InHand(k) /\ ~InHand(k)'
       /\ caller'[k].agent = caller[k].agent /\ caller'[k].exec = caller[k].exec

Still == (UNCHANGED exec) /\ (\A a \in Agent : Quiet(a)) /\ StillCallers

LEMMA ReturnStill ==
  ASSUME OrchTypeOK, NEW k \in Caller, ~InHand(k), NEW result, NEW origin, NEW n,
         Return(k, result, origin, n)
  PROVE  StillCallers
<1>1. caller[k] \in CallerState
  BY DEF OrchTypeOK
<1>2. \A l \in Caller \ {k} : caller'[l] = caller[l]
  BY DEF Return, OrchTypeOK
<1>3. /\ caller'[k].pc \in {"decide", "idle"}
      /\ caller'[k].agent = caller[k].agent /\ caller'[k].exec = caller[k].exec
  BY <1>1 DEF Return, OrchTypeOK, CallerState
<1> QED
  BY <1>2, <1>3 DEF StillCallers, InHand

LEMMA SameAgents == UNCHANGED agent => \A a \in Agent : Quiet(a)
BY DEF Quiet

LEMMA CallStill ==
  ASSUME OrchTypeOK, Control, NEW k \in Caller, NEW n \in Name, Call(k, n)
  PROVE  Still
<1>1. caller[k].agent = {} /\ caller[k].exec = {} /\ ~InHand(k)
  BY DEF Call, CallerAt, InHand, Control, HeldSound
<1>2. /\ caller'[k].pc = "dispatch" /\ caller'[k].agent = {} /\ caller'[k].exec = {}
      /\ \A l \in Caller \ {k} : caller'[l] = caller[l]
  BY DEF Call, OrchTypeOK
<1> QED
  BY <1>1, <1>2, SameAgents DEF Call, Still, StillCallers, InHand

LEMMA DispatchStill ==
  ASSUME OrchTypeOK, Control, NEW k \in Caller,
         \/ DispatchRefused(k)
         \/ \E a \in Agent : ~Assignable(a) /\ DispatchAssigns(k, a)
         \/ Record(k)
  PROVE  Still
<1>1. ~InHand(k)
  BY DEF DispatchRefused, DispatchAssigns, Record, CallerAt, InHand
<1>2. CASE DispatchRefused(k) \/ Record(k)
  BY <1>1, <1>2, ReturnStill, SameAgents DEF DispatchRefused, Record, Still
<1>3. ASSUME NEW a \in Agent, ~Assignable(a), DispatchAssigns(k, a) PROVE Still
  <2>1. agent' = [agent EXCEPT ![a] = Reaped(a)] /\ Return(k, "busy", "none", 0)
    BY <1>3 DEF DispatchAssigns
  <2>2. \A b \in Agent : Quiet(b)
    <3>1. agent'[a] = Reaped(a) /\ \A b \in Agent \ {a} : agent'[b] = agent[b]
      BY <2>1 DEF OrchTypeOK
    <3> QED
      BY <3>1, ReapedQuiet DEF Control, Quiet
  <2> QED
    BY <1>1, <1>3, <2>1, <2>2, ReturnStill DEF DispatchAssigns, Still
<1> QED
  BY <1>2, <1>3

\* What the answer to dispatch_with_retry, a failure and a reset leave alone.
LEMMA DecideStill ==
  ASSUME OrchTypeOK, Control, NEW k \in Caller, Decide(k) \/ RecordFailed(k) \/ Reset(k)
  PROVE  Still
<1>1. caller[k] \in CallerState /\ ~InHand(k)
  BY DEF OrchTypeOK, Decide, RecordFailed, Reset, CallerAt, InHand
<1>2. /\ \A l \in Caller \ {k} : caller'[l] = caller[l]
      /\ caller'[k].pc \in {"idle", "failed", "reset", "dispatch"}
      /\ caller'[k].agent = caller[k].agent /\ caller'[k].exec = caller[k].exec
  <2>1. CASE Decide(k)
    <3>1. /\ Answered(k).pc = "idle" /\ Answered(k).agent = caller[k].agent
          /\ Answered(k).exec = caller[k].exec
      BY <1>1 DEF Answered, CallerState
    <3>2. /\ Ungiven(k).pc \in {"failed", "reset"} /\ Ungiven(k).agent = caller[k].agent
          /\ Ungiven(k).exec = caller[k].exec
      BY <1>1 DEF Ungiven, CallerState
    <3> QED
      BY <2>1, <3>1, <3>2 DEF Decide, OrchTypeOK
  <2>2. CASE RecordFailed(k)
    BY <1>1, <2>2 DEF RecordFailed, Answered, CallerState, OrchTypeOK
  <2>3. CASE Reset(k)
    BY <1>1, <2>3 DEF Reset, Goto, CallerState, OrchTypeOK
  <2> QED
    BY <2>1, <2>2, <2>3
<1>3. StillCallers
  BY <1>1, <1>2 DEF StillCallers, InHand
<1>4. CASE Decide(k)
  <2>1. \A a \in Agent : agent'[a] = Reaped(a) \/ agent'[a] = agent[a]
    BY <1>4 DEF Decide
  <2> QED
    BY <1>3, <1>4, <2>1, ReapedQuiet DEF Decide, Control, Quiet, Still
<1>5. CASE RecordFailed(k)
  BY <1>3, <1>5, SameAgents DEF RecordFailed, Still
<1>6. CASE Reset(k)
  <2>1. ASSUME NEW a \in Agent PROVE Quiet(a)
    <3>1. \/ agent'[a] = Reaped(a) \/ agent'[a] = agent[a]
          \/ /\ Reaped(a).pending = {} /\ Reaped(a).status = "error"
             /\ agent'[a] = [Reaped(a) EXCEPT !.status = "idle", !.recoverable = FALSE]
      BY <1>6 DEF Reset
    <3>2. Reaped(a) \in AgentState
      BY ReapedType
    <3>3. CASE /\ Reaped(a).pending = {} /\ Reaped(a).status = "error"
               /\ agent'[a] = [Reaped(a) EXCEPT !.status = "idle", !.recoverable = FALSE]
      <4>1. Reaped(a) = agent[a]
        BY <3>3, ReapedCases DEF Control
      <4> QED
        BY <3>2, <3>3, <4>1 DEF Quiet, AgentState
    <3> QED
      BY <3>1, <3>3, ReapedQuiet DEF Control, Quiet
  <2> QED
    BY <1>3, <1>6, <2>1 DEF Reset, Still
<1> QED
  BY <1>4, <1>5, <1>6

LEMMA RegistryStill ==
  ASSUME OrchTypeOK, Control, NEW a \in Agent,
         Register(a) \/ Unregister(a) \/ RecoverAgent(a) \/ Observe(a)
  PROVE  Still
<1>1. UNCHANGED <<exec, caller>>
  BY DEF Register, Unregister, RecoverAgent, Observe
<1>2. StillCallers
  BY <1>1 DEF StillCallers
<1>3. CASE Register(a)
  <2>1. \A b \in Agent : \/ agent'[b] = agent[b] \/ agent'[b] = Reaped(b)
                         \/ /\ b = a /\ agent[a].status = "new"
                            /\ agent'[b] = [agent[a] EXCEPT !.status = "idle"]
    BY <1>3 DEF Register
  <2>2. agent[a] \in AgentState
    BY DEF OrchTypeOK
  <2>3. agent[a].status = "new" => agent[a].pending = {}
    BY DEF Control, PendingSound
  <2>4. agent'[a] = [agent[a] EXCEPT !.status = "idle"] /\ agent[a].status = "new" => Quiet(a)
    BY <2>2, <2>3 DEF Quiet, AgentState
  <2> QED
    BY <1>1, <1>2, <2>1, <2>4, ReapedQuiet DEF Control, Quiet, Still
<1>4. CASE RecoverAgent(a)
  <2>1. \A b \in Agent \ {a} : agent'[b] = agent[b]
    BY <1>4 DEF RecoverAgent, OrchTypeOK
  <2>2. CASE agent'[a] = Reaped(a)
    BY <1>1, <1>2, <2>1, <2>2, ReapedQuiet DEF Control, Quiet, Still
  <2>3. CASE agent'[a] # Reaped(a)
    <3>1. /\ Reaped(a).status = "error" /\ Reaped(a).recoverable
          /\ agent'[a] = [Reaped(a) EXCEPT !.status = "idle", !.recoverable = FALSE]
      BY <1>4, <2>3 DEF RecoverAgent, OrchTypeOK
    <3>2. Reaped(a) = agent[a] /\ agent[a] \in AgentState
      BY <3>1, ReapedCases DEF Control, OrchTypeOK
    <3>3. agent[a].pending = {}
      BY <3>1, <3>2 DEF Control, PendingSound
    <3>4. Quiet(a)
      BY <3>1, <3>2, <3>3 DEF Quiet, AgentState
    <3> QED
      BY <1>1, <1>2, <2>1, <3>4 DEF Quiet, Still
  <2> QED
    BY <2>2, <2>3
<1>5. CASE Unregister(a) \/ Observe(a)
  <2>1. agent'[a] = Reaped(a) /\ \A b \in Agent \ {a} : agent'[b] = agent[b]
    BY <1>5 DEF Unregister, Observe, OrchTypeOK
  <2> QED
    BY <1>1, <1>2, <2>1, ReapedQuiet DEF Control, Quiet, Still
<1> QED
  BY <1>3, <1>4, <1>5

LEMMA ShutdownStill ==
  ASSUME OrchTypeOK,
         \/ ShutdownBegin \/ ShutdownLock \/ ShutdownEnd
         \/ \E a \in Agent : ShutdownNext(a)
         \/ UNCHANGED ovars
  PROVE  Still
<1>1. UNCHANGED <<agent, exec, caller>>
  BY DEF ShutdownBegin, ShutdownLock, ShutdownEnd, ShutdownNext, ovars
<1> QED
  BY <1>1, SameAgents DEF Still, StillCallers

LEMMA StillKeeps ==
  ASSUME OrchTypeOK, Control, Still
  PROVE  Control' /\ \A a \in Agent : Engaged(a)' => Engaged(a)
BY QuietKeeps DEF Still, StillCallers

-----------------------------------------------------------------------------
(* Steps of a caller that has a task, of handlers and of shutdown.         *)

\* An agent that can be assigned is nobody's and no handler of it is up.
LEMMA AssignableFree ==
  ASSUME OrchTypeOK, Control, NEW a \in Agent, Assignable(a)
  PROVE  ~Engaged(a)
BY EngagedHeld DEF Assignable

LEMMA AssignKeeps ==
  ASSUME OrchTypeOK, Control, NEW k \in Caller, NEW a \in Agent,
         Assignable(a), DispatchAssigns(k, a)
  PROVE  Control' /\ \A b \in Agent : Engaged(b)' => b = a \/ Engaged(b)
<1> USE DEF Control
<1>1. caller[k] \in CallerState /\ ~InHand(k) /\ caller[k].pc = "dispatch"
  BY DEF OrchTypeOK, DispatchAssigns, CallerAt, InHand
<1>2. /\ caller'[k].pc = "start" /\ caller'[k].agent = {a} /\ caller'[k].exec = {}
      /\ \A l \in Caller \ {k} : caller'[l] = caller[l]
  <2> DEFINE x == [caller[k] EXCEPT !.pc = "start", !.agent = {a}, !.exec = {},
                     !.result = "none", !.recorded = 0,
                     !.origin = IF a \in Worker THEN "worker" ELSE "thread"]
  <2>1. caller' = [caller EXCEPT ![k] = x]
    BY DEF DispatchAssigns
  <2>2. x.pc = "start" /\ x.agent = {a} /\ x.exec = {}
    BY <1>1 DEF CallerState
  <2> HIDE DEF x
  <2> QED
    BY <2>1, <2>2 DEF OrchTypeOK
<1>3. /\ agent'[a].status = "busy" /\ agent'[a].pending = {}
      /\ \A b \in Agent \ {a} : agent'[b] = agent[b]
  <2>1. Reaped(a) \in AgentState /\ Reaped(a).pending = {}
    BY ReapedType, ReapedCases DEF Assignable, PendingSound
  <2> DEFINE y == [Reaped(a) EXCEPT !.status = "busy", !.recoverable = FALSE]
  <2>2. agent' = [agent EXCEPT ![a] = y]
    BY DEF DispatchAssigns
  <2>3. y.status = "busy" /\ y.pending = {}
    BY <2>1 DEF AgentState
  <2> HIDE DEF y
  <2> QED
    BY <2>2, <2>3 DEF OrchTypeOK
<1>4. ~Engaged(a)
  BY AssignableFree
<1>5. \A l \in Caller : InHand(l) => caller[l].agent # {a}
  BY <1>4 DEF Engaged, Holds, InHand
<1>6. UNCHANGED exec /\ \A i \in Exec : Up(i)' <=> Up(i)
  BY DEF DispatchAssigns, Up
<1>7. \A l \in Caller \ {k} : InHand(l)' <=> InHand(l)
  BY <1>2 DEF InHand
<1>8. HeldSound'
  <2>1. ASSUME NEW l \in Caller \ {k}, InHand(l)
        PROVE  \E b \in Agent : /\ caller'[l].agent = {b}
                                /\ agent'[b].status \in {"busy", "shutdown"}
                                /\ agent'[b].pending = {}
    BY <1>2, <1>3, <1>5, <2>1 DEF HeldSound
  <2> QED
    BY <1>2, <1>3, <1>6, <1>7, <2>1 DEF HeldSound, InHand
<1>9. SettleSound'
  BY <1>2, <1>6 DEF SettleSound, OrchTypeOK, CallerState
<1>10. UniqueHolder'
  BY <1>2, <1>5, <1>7 DEF UniqueHolder
<1>11. RunsHeld'
  <2>1. ASSUME NEW i \in Exec, Up(i)
        PROVE  \E b \in Agent \ {a} :
                 /\ exec[i].agent = {b}
                 /\ \/ agent[b].pending = {i}
                    \/ \E l \in Caller \ {k} :
                         InHand(l) /\ caller[l].agent = {b} /\ caller[l].exec = {i}
    BY <1>1, <1>4, <2>1 DEF RunsHeld, Engaged, Runs
  <2> QED
    BY <1>2, <1>3, <1>6, <1>7, <2>1 DEF RunsHeld
<1>12. PendingSound'
  BY <1>3 DEF PendingSound
<1>13. \A b \in Agent : Engaged(b)' => b = a \/ Engaged(b)
  BY <1>2, <1>6 DEF Engaged, Holds, Runs
<1> QED
  BY <1>8, <1>9, <1>10, <1>11, <1>12, <1>13

\* A handler is started for the caller that holds the agent.
LEMMA StartKeeps ==
  ASSUME OrchTypeOK, Control, NEW k \in Caller, NEW a \in Agent, NEW i \in Exec,
         Start(k, a, i) \/ StartLeavesChild(k, a, i)
  PROVE  Control' /\ \A b \in Agent : Engaged(b)' => Engaged(b)
<1> USE DEF Control
<1>1. /\ caller[k] \in CallerState /\ InHand(k) /\ caller[k].pc = "start"
      /\ caller[k].agent = {a} /\ caller[k].exec = {}
      /\ ~Up(i) /\ (\A b \in Agent : i \notin agent[b].pending)
      /\ \A l \in Caller : i \notin caller[l].exec
  BY DEF OrchTypeOK, Start, StartLeavesChild, FreeExec, CallerAt, InHand, HeldSound
<1>2. /\ caller'[k].agent = {a} /\ caller'[k].exec = {i}
      /\ \/ caller'[k].pc = "run"
         \/ caller'[k].pc = "settle" /\ caller'[k].result = "raised"
      /\ \A l \in Caller \ {k} : caller'[l] = caller[l]
  <2>1. CASE Start(k, a, i)
    BY <1>1, <2>1 DEF Start, OrchTypeOK, CallerState
  <2>2. CASE StartLeavesChild(k, a, i)
    BY <1>1, <2>2 DEF StartLeavesChild, OrchTypeOK, CallerState
  <2> QED
    BY <2>1, <2>2
<1>3. /\ exec'[i] = [agent |-> {a}, state |-> "up"]
      /\ (\A j \in Exec \ {i} : exec'[j] = exec[j]) /\ UNCHANGED agent
  BY DEF Start, StartLeavesChild, OrchTypeOK
<1>4. \A j \in Exec \ {i} : Up(j)' <=> Up(j)
  BY <1>3 DEF Up
<1>5. \A l \in Caller : InHand(l)' <=> InHand(l)
  BY <1>1, <1>2 DEF InHand
<1>6. HeldSound'
  <2>1. \A l \in Caller : InHand(l)' =>
           \E b \in Agent : /\ caller'[l].agent = {b}
                           /\ agent'[b].status \in {"busy", "shutdown"}
                           /\ agent'[b].pending = {}
    BY <1>1, <1>2, <1>3, <1>5 DEF HeldSound
  <2>2. \A l \in Caller : ~InHand(l)' => caller'[l].agent = {} /\ caller'[l].exec = {}
    BY <1>1, <1>2, <1>5 DEF HeldSound
  <2>3. \A l \in Caller : caller'[l].pc = "start" => caller'[l].exec = {}
    BY <1>2 DEF HeldSound
  <2>4. ASSUME NEW l \in Caller, caller'[l].pc = "run"
        PROVE  \E j \in Exec : /\ caller'[l].exec = {j} /\ exec'[j].state # "free"
                               /\ exec'[j].agent = caller'[l].agent
    <3>1. CASE l = k
      <4>1. exec'[i].state = "up" /\ exec'[i].agent = {a}
        BY <1>3
      <4> QED
        BY <1>2, <3>1, <4>1
    <3>2. CASE l # k
      <4>1. PICK j \in Exec : /\ caller[l].exec = {j} /\ exec[j].state # "free"
                              /\ exec[j].agent = caller[l].agent
        BY <1>2, <2>4, <3>2 DEF HeldSound
      <4> QED
        BY <1>1, <1>2, <1>3, <3>2, <4>1
    <3> QED
      BY <3>1, <3>2
  <2> QED
    BY <2>1, <2>2, <2>3, <2>4 DEF HeldSound
<1>7. SettleSound'
  BY <1>1, <1>2, <1>4 DEF SettleSound, OrchTypeOK, CallerState
<1>8. UniqueHolder'
  BY <1>1, <1>2, <1>5 DEF UniqueHolder
<1>9. RunsHeld'
  <2>1. ASSUME NEW j \in Exec \ {i}, Up(j)
        PROVE  \E b \in Agent :
                 /\ exec[j].agent = {b}
                 /\ \/ agent[b].pending = {j}
                    \/ \E l \in Caller \ {k} :
                         InHand(l) /\ caller[l].agent = {b} /\ caller[l].exec = {j}
    BY <1>1, <2>1 DEF RunsHeld
  <2>2. ASSUME NEW j \in Exec \ {i}, Up(j)
        PROVE  (\E b \in Agent :
                 /\ exec[j].agent = {b}
                 /\ \/ agent[b].pending = {j}
                    \/ \E l \in Caller :
                         InHand(l) /\ caller[l].agent = {b} /\ caller[l].exec = {j})'
    BY <1>2, <1>3, <1>5, <2>1, <2>2
  <2> QED
    BY <1>1, <1>2, <1>3, <1>4, <1>5, <2>2 DEF RunsHeld
<1>10. PendingSound'
  BY <1>3 DEF PendingSound
<1>11. \A b \in Agent : Engaged(b)' => Engaged(b)
  BY <1>1, <1>2, <1>3, <1>4 DEF Engaged, Holds, Runs, InHand
<1> QED
  BY <1>6, <1>7, <1>8, <1>9, <1>10, <1>11

LEMMA StartFailsKeeps ==
  ASSUME OrchTypeOK, Control, NEW k \in Caller, NEW a \in Agent, StartFails(k, a)
  PROVE  Control' /\ \A b \in Agent : Engaged(b)' => Engaged(b)
<1> USE DEF Control
<1>1. /\ caller[k] \in CallerState /\ InHand(k) /\ caller[k].pc = "start"
      /\ caller[k].agent = {a} /\ caller[k].exec = {}
  BY DEF OrchTypeOK, StartFails, CallerAt, InHand, HeldSound
<1>2. /\ caller'[k].agent = {a} /\ caller'[k].exec = {} /\ caller'[k].pc = "settle"
      /\ caller'[k].result \in {"rejected", "raised"}
      /\ \A l \in Caller \ {k} : caller'[l] = caller[l]
  BY <1>1 DEF StartFails, OrchTypeOK, CallerState
<1>3. UNCHANGED <<agent, exec>>
  BY DEF StartFails
<1>4. (\A j \in Exec : Up(j)' <=> Up(j)) /\ \A l \in Caller : InHand(l)' <=> InHand(l)
  BY <1>1, <1>2, <1>3 DEF Up, InHand
<1>5. HeldSound'
  BY <1>1, <1>2, <1>3, <1>4 DEF HeldSound
<1>6. SettleSound'
  BY <1>2, <1>4 DEF SettleSound, OrchTypeOK, CallerState
<1>7. UniqueHolder'
  BY <1>1, <1>2, <1>4 DEF UniqueHolder
<1>8. RunsHeld'
  BY <1>1, <1>2, <1>3, <1>4 DEF RunsHeld
<1>9. PendingSound'
  BY <1>3 DEF PendingSound
<1>10. \A b \in Agent : Engaged(b)' => Engaged(b)
  BY <1>1, <1>2, <1>3, <1>4 DEF Engaged, Holds, Runs, InHand
<1> QED
  BY <1>5, <1>6, <1>7, <1>8, <1>9, <1>10

\* Handlers end or are killed: none comes up, and one that is waited for is kept.
LEMMA EndKeeps ==
  ASSUME OrchTypeOK, Control, UNCHANGED <<agent, caller>>,
         \A i \in Exec : \/ exec'[i] = exec[i]
                         \/ /\ Up(i)
                            /\ \/ exec'[i].agent = exec[i].agent /\ exec'[i].state # "free"
                               \/ exec'[i].state = "free" /\ ~Awaited(i)
  PROVE  Control' /\ \A b \in Agent : Engaged(b)' => Engaged(b)
<1> USE DEF Control
<1>1. \A i \in Exec : Up(i)' => Up(i) /\ exec'[i].agent = exec[i].agent
  BY DEF Up
<1>2. \A k \in Caller : InHand(k)' <=> InHand(k)
  BY DEF InHand
<1>3. HeldSound'
  <2>1. ASSUME NEW k \in Caller, caller[k].pc = "run"
        PROVE  \E i \in Exec : /\ caller[k].exec = {i} /\ exec'[i].state # "free"
                               /\ exec'[i].agent = caller[k].agent
    <3>1. PICK i \in Exec : /\ caller[k].exec = {i} /\ exec[i].state # "free"
                            /\ exec[i].agent = caller[k].agent
      BY <2>1 DEF HeldSound
    <3>2. Awaited(i)
      BY <2>1, <3>1 DEF Awaited, CallerAt
    <3> QED
      BY <3>1, <3>2
  <2> QED
    BY <1>2, <2>1 DEF HeldSound
<1>4. SettleSound'
  BY <1>1 DEF SettleSound, OrchTypeOK, CallerState
<1>5. UniqueHolder'
  BY <1>2 DEF UniqueHolder
<1>6. RunsHeld'
  BY <1>1, <1>2 DEF RunsHeld
<1>7. PendingSound'
  BY DEF PendingSound
<1>8. \A b \in Agent : Engaged(b)' => Engaged(b)
  BY <1>1 DEF Engaged, Holds, Runs
<1> QED
  BY <1>3, <1>4, <1>5, <1>6, <1>7, <1>8

LEMMA HandlerKeeps ==
  ASSUME OrchTypeOK, Control,
         \/ \E i \in Exec, outcome \in Outcome : HandlerEnds(i, outcome)
         \/ \E a \in Agent : Cancel(a) \/ CloseWorker(a)
  PROVE  Control' /\ \A b \in Agent : Engaged(b)' => Engaged(b)
<1>1. ASSUME NEW i \in Exec, NEW outcome \in Outcome, HandlerEnds(i, outcome)
      PROVE  Control' /\ \A b \in Agent : Engaged(b)' => Engaged(b)
  <2>1. /\ \A j \in Exec \ {i} : exec'[j] = exec[j]
        /\ Awaited(i) => exec'[i].agent = exec[i].agent /\ exec'[i].state = outcome
        /\ ~Awaited(i) => exec'[i].state = "free"
    BY <1>1 DEF HandlerEnds, OrchTypeOK, NoExec
  <2> QED
    BY <1>1, <2>1, EndKeeps DEF HandlerEnds, Outcome
<1>2. ASSUME NEW a \in Agent, Cancel(a) \/ CloseWorker(a)
      PROVE  Control' /\ \A b \in Agent : Engaged(b)' => Engaged(b)
  <2>1. PICK confirmed \in BOOLEAN : exec' = Killed(a, confirmed)
    BY <1>2 DEF Cancel, CloseWorker
  <2>2. ASSUME NEW i \in Exec
        PROVE  \/ exec'[i] = exec[i]
               \/ /\ Up(i)
                  /\ \/ exec'[i].agent = exec[i].agent /\ exec'[i].state # "free"
                     \/ exec'[i].state = "free" /\ ~Awaited(i)
    <3>1. exec[i] \in [agent: SUBSET Agent, state: ExecState]
      BY DEF OrchTypeOK
    <3> QED
      BY <2>1, <3>1 DEF Killed, Runs, NoExec
  <2> QED
    BY <1>2, <2>2, EndKeeps DEF Cancel, CloseWorker
<1> QED
  BY <1>1, <1>2

\* The wait is over: an outcome is taken, or the handler has outlived it.
LEMMA JoinKeeps ==
  ASSUME OrchTypeOK, Control, NEW k \in Caller, NEW i \in Exec, Join(k, i)
  PROVE  Control' /\ \A b \in Agent : Engaged(b)' => Engaged(b)
<1> USE DEF Control
<1>1. /\ caller[k] \in CallerState /\ InHand(k) /\ caller[k].pc = "run"
      /\ caller[k].exec = {i} /\ exec[i].agent = caller[k].agent
      /\ exec[i].state # "free"
  BY DEF OrchTypeOK, Join, CallerAt, InHand, HeldSound
<1>2. /\ caller'[k].pc = "settle" /\ caller'[k].agent = caller[k].agent
      /\ caller'[k].exec = {i}
      /\ Up(i) => caller'[k].result = "unconfirmed"
      /\ ~Up(i) => caller'[k].result = exec[i].state
      /\ \A l \in Caller \ {k} : caller'[l] = caller[l]
  BY <1>1 DEF Join, OrchTypeOK, CallerState
<1>3. /\ \A j \in Exec \ {i} : exec'[j] = exec[j]
      /\ Up(i) => exec'[i] = exec[i]
      /\ ~Up(i) => exec'[i].state = "free"
      /\ UNCHANGED agent
  BY DEF Join, OrchTypeOK, NoExec
<1>4. (\A j \in Exec : Up(j)' <=> Up(j)) /\ \A l \in Caller : InHand(l)' <=> InHand(l)
  BY <1>1, <1>2, <1>3 DEF Up, InHand
<1>5. HeldSound'
  <2>1. ASSUME NEW l \in Caller, caller'[l].pc = "run"
        PROVE  \E j \in Exec : /\ caller'[l].exec = {j} /\ exec'[j].state # "free"
                               /\ exec'[j].agent = caller'[l].agent
    <3>1. l # k /\ caller'[l] = caller[l] /\ InHand(l)
      BY <1>2, <2>1 DEF InHand
    <3>2. PICK j \in Exec : /\ caller[l].exec = {j} /\ exec[j].state # "free"
                            /\ exec[j].agent = caller[l].agent
      BY <2>1, <3>1 DEF HeldSound
    <3>3. j # i
      BY <1>1, <3>1, <3>2 DEF UniqueHolder
    <3> QED
      BY <1>3, <3>1, <3>2, <3>3
  <2> QED
    BY <1>1, <1>2, <1>3, <1>4, <2>1 DEF HeldSound
<1>6. SettleSound'
  <2>1. ~Up(i) => exec[i].state \in {"ok", "error", "timeout", "cancelled"}
    BY <1>1 DEF OrchTypeOK, ExecState, Up
  <2>2. ASSUME NEW l \in Caller \ {k}, caller'[l].pc = "settle"
        PROVE  /\ caller'[l].exec # {} => \E j \in Exec : caller'[l].exec = {j}
               /\ \/ caller'[l].result = "unconfirmed" /\ caller'[l].exec # {}
                  \/ caller'[l].result = "raised"
                  \/ /\ caller'[l].result \in
                           {"ok", "error", "timeout", "cancelled", "rejected"}
                     /\ \A j \in caller'[l].exec : ~Up(j)
    BY <1>2, <2>2 DEF SettleSound
  <2>3. \A l \in Caller : caller[l].exec \subseteq Exec
    BY DEF OrchTypeOK, CallerState
  <2> QED
    BY <1>2, <1>4, <2>1, <2>2, <2>3 DEF SettleSound
<1>7. UniqueHolder'
  BY <1>1, <1>2, <1>4 DEF UniqueHolder
<1>8. RunsHeld'
  <2>1. \A j \in Exec : Up(j) => exec'[j].agent = exec[j].agent
    BY <1>3
  <2>2. \A l \in Caller : caller'[l].agent = caller[l].agent /\ caller'[l].exec = caller[l].exec
    BY <1>1, <1>2
  <2> QED
    BY <1>3, <1>4, <2>1, <2>2 DEF RunsHeld
<1>9. PendingSound'
  BY <1>3 DEF PendingSound
<1>10. \A b \in Agent : Engaged(b)' => Engaged(b)
  <2>1. \A j \in Exec : Up(j) => exec'[j].agent = exec[j].agent
    BY <1>3
  <2>2. \A l \in Caller : caller'[l].agent = caller[l].agent
    BY <1>2
  <2> QED
    BY <1>4, <2>1, <2>2 DEF Engaged, Holds, Runs, InHand
<1> QED
  BY <1>5, <1>6, <1>7, <1>8, <1>9, <1>10

\* What settling makes of the agent: a handler that is still up stays in its
\* quarantine.
LEMMA SettledCases ==
  ASSUME OrchTypeOK, Control, NEW k \in Caller, NEW a \in Agent, Settle(k, a)
  PROVE  /\ agent'[a].status = "shutdown" <=> agent[a].status = "shutdown"
         /\ agent'[a].status # "new"
         /\ \/ agent'[a].pending = {} /\ \A i \in caller[k].exec : ~Up(i)
            \/ /\ \E i \in Exec : agent'[a].pending = {i} /\ caller[k].exec = {i}
               /\ agent'[a].status \in {"error", "shutdown"}
               /\ agent'[a].recoverable = FALSE
<1> USE DEF Control
<1>1. /\ agent[a] \in AgentState /\ caller[k].pc = "settle" /\ caller[k].agent = {a}
      /\ agent[a].status \in {"busy", "shutdown"} /\ agent[a].pending = {}
      /\ agent'[a] = Settled(a, k)
  BY DEF OrchTypeOK, Settle, CallerAt, InHand, HeldSound
<1>2. /\ To(agent[a], "idle") # "new" /\ To(agent[a], "error") \in {"error", "shutdown"}
      /\ To(agent[a], "idle") = "shutdown" <=> agent[a].status = "shutdown"
      /\ To(agent[a], "error") = "shutdown" <=> agent[a].status = "shutdown"
  BY DEF To
<1>3. CASE caller[k].result \in {"ok", "cancelled", "rejected", "error", "timeout"}
  <2>1. \A i \in caller[k].exec : ~Up(i)
    BY <1>1, <1>3 DEF SettleSound
  <2> QED
    BY <1>1, <1>2, <1>3, <2>1 DEF Settled, AgentState
<1>4. CASE caller[k].result = "raised" /\ ~\E i \in caller[k].exec : Up(i)
  BY <1>1, <1>2, <1>4 DEF Settled, AgentState
<1>5. CASE \/ caller[k].result = "unconfirmed"
           \/ caller[k].result = "raised" /\ \E i \in caller[k].exec : Up(i)
  <2>1. PICK i \in Exec : caller[k].exec = {i}
    BY <1>1, <1>5 DEF SettleSound
  <2>2. (CHOOSE j \in Exec : caller[k].exec = {j}) = i
    BY <2>1
  <2>3. Settled(a, k) = Quarantine(agent[a], i)
    BY <1>5, <2>2 DEF Settled
  <2> QED
    BY <1>1, <1>2, <2>1, <2>3 DEF Quarantine
<1> QED
  BY <1>1, <1>3, <1>4, <1>5 DEF SettleSound

LEMMA SettleKeeps ==
  ASSUME OrchTypeOK, Control, NEW k \in Caller, NEW a \in Agent, Settle(k, a)
  PROVE  Control' /\ \A b \in Agent : Engaged(b)' => Engaged(b)
<1> USE DEF Control
<1>1. /\ caller[k] \in CallerState /\ InHand(k) /\ caller[k].agent = {a}
      /\ agent[a].pending = {}
  BY DEF OrchTypeOK, Settle, CallerAt, InHand, HeldSound
<1>2. /\ caller'[k].pc = "record" /\ caller'[k].agent = {} /\ caller'[k].exec = {}
      /\ \A l \in Caller \ {k} : caller'[l] = caller[l]
  BY <1>1 DEF Settle, OrchTypeOK, CallerState
<1>3. UNCHANGED exec /\ \A b \in Agent \ {a} : agent'[b] = agent[b]
  BY DEF Settle, OrchTypeOK
<1>4. \A j \in Exec : Up(j)' <=> Up(j)
  BY <1>3 DEF Up
<1>5. ~InHand(k)' /\ \A l \in Caller \ {k} : InHand(l)' <=> InHand(l)
  BY <1>2 DEF InHand
<1>6. \A l \in Caller \ {k} : InHand(l) => caller[l].agent # {a}
  BY <1>1 DEF UniqueHolder
<1>7. HeldSound'
  <2>1. ASSUME NEW l \in Caller \ {k}, InHand(l)
        PROVE  \E b \in Agent : /\ caller'[l].agent = {b}
                                /\ agent'[b].status \in {"busy", "shutdown"}
                                /\ agent'[b].pending = {}
    BY <1>2, <1>3, <1>6, <2>1 DEF HeldSound
  <2> QED
    BY <1>2, <1>3, <1>5, <2>1 DEF HeldSound
<1>8. SettleSound'
  BY <1>2, <1>4 DEF SettleSound, OrchTypeOK, CallerState
<1>9. UniqueHolder'
  BY <1>2, <1>5 DEF UniqueHolder
<1>10. RunsHeld'
  <2>1. ASSUME NEW i \in Exec, Up(i)
        PROVE  (\E b \in Agent :
                  /\ exec[i].agent = {b}
                  /\ \/ agent[b].pending = {i}
                     \/ \E l \in Caller :
                          InHand(l) /\ caller[l].agent = {b} /\ caller[l].exec = {i})'
    <3>1. PICK b \in Agent :
             /\ exec[i].agent = {b}
             /\ \/ agent[b].pending = {i}
                \/ \E l \in Caller :
                     InHand(l) /\ caller[l].agent = {b} /\ caller[l].exec = {i}
      BY <2>1 DEF RunsHeld
    <3>2. CASE b = a
      <4>1. caller[k].exec = {i}
        BY <1>1, <1>6, <3>1, <3>2
      <4>2. agent'[a].pending = {i}
        BY <2>1, <4>1, SettledCases
      <4> QED
        BY <1>3, <3>1, <3>2, <4>2
    <3>3. CASE b # a
      <4>1. agent'[b] = agent[b] /\ exec'[i] = exec[i]
        BY <1>3, <3>3
      <4>2. \A l \in Caller : InHand(l) /\ caller[l].agent = {b} =>
              caller'[l] = caller[l] /\ InHand(l)'
        BY <1>1, <1>2, <1>5, <3>3
      <4> QED
        BY <3>1, <4>1, <4>2
    <3> QED
      BY <3>2, <3>3
  <2> QED
    BY <1>4, <2>1 DEF RunsHeld
<1>11. PendingSound'
  <2>1. ASSUME NEW b \in Agent \ {a}, agent'[b].pending # {}
        PROVE  /\ \E i \in Exec : agent'[b].pending = {i}
               /\ agent'[b].status \in {"error", "shutdown"}
               /\ agent'[b].recoverable = FALSE
    BY <1>3, <2>1 DEF PendingSound
  <2>2. agent'[a].pending # {} =>
          /\ \E i \in Exec : agent'[a].pending = {i}
          /\ agent'[a].status \in {"error", "shutdown"}
          /\ agent'[a].recoverable = FALSE
    BY SettledCases
  <2> QED
    BY <2>1, <2>2 DEF PendingSound
<1>12. \A b \in Agent : Engaged(b)' => Engaged(b)
  BY <1>2, <1>3, <1>4 DEF Engaged, Holds, Runs
<1> QED
  BY <1>7, <1>8, <1>9, <1>10, <1>11, <1>12

LEMMA StopKeeps ==
  ASSUME OrchTypeOK, Control, NEW a \in Agent, StopAgent(a)
  PROVE  Control' /\ \A b \in Agent : Engaged(b)' => Engaged(b)
<1> USE DEF Control
<1>1. UNCHANGED <<exec, caller>>
  BY DEF StopAgent
<1>2. /\ agent'[a].status = "shutdown" /\ agent'[a].recoverable = FALSE
      /\ agent'[a].pending = agent[a].pending
      /\ \A b \in Agent \ {a} : agent'[b] = agent[b]
  BY DEF StopAgent, OrchTypeOK, AgentState
<1>3. (\A i \in Exec : Up(i)' <=> Up(i)) /\ \A k \in Caller : InHand(k)' <=> InHand(k)
  BY <1>1 DEF Up, InHand
<1>4. HeldSound'
  BY <1>1, <1>2, <1>3 DEF HeldSound
<1>5. SettleSound' /\ UniqueHolder'
  BY <1>1, <1>3 DEF SettleSound, UniqueHolder, OrchTypeOK, CallerState
<1>6. RunsHeld'
  BY <1>1, <1>2, <1>3 DEF RunsHeld
<1>7. PendingSound'
  BY <1>2 DEF PendingSound
<1>8. \A b \in Agent : Engaged(b)' => Engaged(b)
  BY <1>1, <1>3 DEF Engaged, Holds, Runs
<1> QED
  BY <1>4, <1>5, <1>6, <1>7, <1>8

\* Every step keeps Control, and only an assignment gives an agent a task.
LEMMA NextControl ==
  ASSUME OrchTypeOK, Control, [OrchNext]_ovars
  PROVE  /\ Control'
         /\ \A b \in Agent :
              \/ Engaged(b)' => Engaged(b)
              \/ Assignable(b) /\ \E k \in Caller : DispatchAssigns(k, b)
<1> DEFINE Goal == /\ Control'
                   /\ \A b \in Agent :
                        \/ Engaged(b)' => Engaged(b)
                        \/ Assignable(b) /\ \E k \in Caller : DispatchAssigns(k, b)
<1> SUFFICES Goal
  OBVIOUS
<1>1. ASSUME NEW k \in Caller, NEW n \in Name, Call(k, n) PROVE Goal
  BY <1>1, CallStill, StillKeeps
<1>2. ASSUME NEW k \in Caller, CallerStep(k) PROVE Goal
  <2>1. CASE DispatchRefused(k) \/ Record(k)
    BY <2>1, DispatchStill, StillKeeps
  <2>2. ASSUME NEW a \in Agent, DispatchAssigns(k, a) PROVE Goal
    <3>1. CASE Assignable(a)
      BY <2>2, <3>1, AssignKeeps
    <3>2. CASE ~Assignable(a)
      BY <2>2, <3>2, DispatchStill, StillKeeps
    <3> QED
      BY <3>1, <3>2
  <2>3. ASSUME NEW a \in Agent, StartFails(k, a) PROVE Goal
    BY <2>3, StartFailsKeeps
  <2>4. ASSUME NEW a \in Agent, Settle(k, a) PROVE Goal
    BY <2>4, SettleKeeps
  <2>5. ASSUME NEW a \in Agent, NEW i \in Exec, Start(k, a, i) \/ StartLeavesChild(k, a, i)
        PROVE  Goal
    BY <2>5, StartKeeps
  <2>6. ASSUME NEW i \in Exec, Join(k, i) PROVE Goal
    BY <2>6, JoinKeeps
  <2>7. CASE Decide(k) \/ RecordFailed(k) \/ Reset(k)
    BY <2>7, DecideStill, StillKeeps
  <2> HIDE DEF Goal
  <2> QED
    BY <1>2, <2>1, <2>2, <2>3, <2>4, <2>5, <2>6, <2>7 DEF CallerStep
<1>3. ASSUME NEW a \in Agent, Register(a) \/ Unregister(a) \/ RecoverAgent(a) \/ Observe(a)
      PROVE  Goal
  BY <1>3, RegistryStill, StillKeeps
<1>4. ASSUME NEW i \in Exec, NEW outcome \in Outcome, HandlerEnds(i, outcome) PROVE Goal
  BY <1>4, HandlerKeeps
<1>5. ASSUME NEW a \in Agent, Cancel(a) \/ CloseWorker(a) PROVE Goal
  BY <1>5, HandlerKeeps
<1>6. ASSUME NEW a \in Agent, StopAgent(a) PROVE Goal
  BY <1>6, StopKeeps
<1>7. CASE \/ ShutdownBegin \/ ShutdownLock \/ ShutdownEnd \/ UNCHANGED ovars
           \/ \E a \in Agent : ShutdownNext(a)
  BY <1>7, ShutdownStill, StillKeeps
<1> HIDE DEF Goal
<1>8. CASE ShutdownStep
  BY <1>5, <1>6, <1>7, <1>8 DEF ShutdownStep
<1>9. CASE OrchNext
  BY <1>1, <1>2, <1>3, <1>4, <1>5, <1>7, <1>8, <1>9 DEF OrchNext
<1> QED
  BY <1>7, <1>9

-----------------------------------------------------------------------------
(* The registry and shutdown.                                              *)
LEMMA StepKinds ==
  ASSUME OrchTypeOK, Control, [OrchNext]_ovars
  PROVE  \/ Still
         \/ \E k \in Caller, a \in Agent : Assignable(a) /\ DispatchAssigns(k, a)
         \/ \E k \in Caller, a \in Agent : Settle(k, a)
         \/ \E a \in Agent : StopAgent(a)
         \/ /\ UNCHANGED agent
            /\ \A k \in Caller : CallerAt(k, "dispatch") => caller'[k] = caller[k]
<1> DEFINE Aside == /\ UNCHANGED agent
                    /\ \A k \in Caller : CallerAt(k, "dispatch") => caller'[k] = caller[k]
           Goal == \/ Still
                   \/ \E k \in Caller, a \in Agent : Assignable(a) /\ DispatchAssigns(k, a)
                   \/ \E k \in Caller, a \in Agent : Settle(k, a)
                   \/ \E a \in Agent : StopAgent(a)
                   \/ Aside
<1> SUFFICES Goal
  OBVIOUS
<1>1. ASSUME NEW k \in Caller, NEW n \in Name, Call(k, n) PROVE Goal
  BY <1>1, CallStill
<1>2. ASSUME NEW k \in Caller, CallerStep(k) PROVE Goal
  <2>1. CASE DispatchRefused(k) \/ Record(k)
    BY <2>1, DispatchStill
  <2>2. ASSUME NEW a \in Agent, DispatchAssigns(k, a) PROVE Goal
    BY <2>2, DispatchStill
  <2>3. ASSUME NEW a \in Agent, NEW i \in Exec, Start(k, a, i) \/ StartLeavesChild(k, a, i)
        PROVE  Aside
    BY <2>3 DEF Start, StartLeavesChild, CallerAt, OrchTypeOK
  <2>4. ASSUME NEW a \in Agent, StartFails(k, a) PROVE Aside
    BY <2>4 DEF StartFails, CallerAt, OrchTypeOK
  <2>5. ASSUME NEW i \in Exec, Join(k, i) PROVE Aside
    BY <2>5 DEF Join, CallerAt, OrchTypeOK
  <2>6. CASE Decide(k) \/ RecordFailed(k) \/ Reset(k)
    BY <2>6, DecideStill
  <2> HIDE DEF Aside
  <2> QED
    BY <1>2, <2>1, <2>2, <2>3, <2>4, <2>5, <2>6 DEF CallerStep
<1>3. ASSUME NEW a \in Agent, Register(a) \/ Unregister(a) \/ RecoverAgent(a) \/ Observe(a)
      PROVE  Goal
  BY <1>3, RegistryStill
<1>4. ASSUME NEW i \in Exec, NEW outcome \in Outcome, HandlerEnds(i, outcome) PROVE Goal
  BY <1>4 DEF HandlerEnds
<1>5. ASSUME NEW a \in Agent, Cancel(a) \/ CloseWorker(a) PROVE Goal
  BY <1>5 DEF Cancel, CloseWorker
<1>6. ASSUME NEW a \in Agent, StopAgent(a) PROVE Goal
  BY <1>6
<1>7. CASE \/ ShutdownBegin \/ ShutdownLock \/ ShutdownEnd \/ UNCHANGED ovars
           \/ \E a \in Agent : ShutdownNext(a)
  BY <1>7, ShutdownStill
<1> HIDE DEF Goal
<1>8. CASE ShutdownStep
  BY <1>5, <1>6, <1>7, <1>8 DEF ShutdownStep
<1>9. CASE OrchNext
  BY <1>1, <1>2, <1>3, <1>4, <1>5, <1>7, <1>8, <1>9 DEF OrchNext
<1> QED
  BY <1>7, <1>9

\* SHUTDOWN is entered by StopAgent and never left, and no agent is new again.
LEMMA StatusStep ==
  ASSUME OrchTypeOK, Control, [OrchNext]_ovars, NEW b \in Agent
  PROVE  /\ agent[b].status # "new" => agent'[b].status # "new"
         /\ agent[b].status = "shutdown" => agent'[b].status = "shutdown"
         /\ agent'[b].status = "shutdown" => agent[b].status = "shutdown" \/ StopAgent(b)
<1>1. CASE Still
  BY <1>1 DEF Still, Quiet
<1>2. ASSUME NEW k \in Caller, NEW a \in Agent, Assignable(a), DispatchAssigns(k, a)
      PROVE  /\ agent[b].status # "new" => agent'[b].status # "new"
             /\ agent[b].status = "shutdown" => agent'[b].status = "shutdown"
             /\ agent'[b].status = "shutdown" => agent[b].status = "shutdown"
  <2>1. agent[a].status # "shutdown" /\ Reaped(a) \in AgentState
    BY <1>2, ReapedCases, ReapedType DEF Assignable, Control
  <2>2. agent' = [agent EXCEPT ![a] = [Reaped(a) EXCEPT !.status = "busy", !.recoverable = FALSE]]
    BY <1>2 DEF DispatchAssigns
  <2>3. [Reaped(a) EXCEPT !.status = "busy", !.recoverable = FALSE].status = "busy"
    BY <2>1 DEF AgentState
  <2>4. agent'[a].status = "busy" /\ \A c \in Agent \ {a} : agent'[c] = agent[c]
    BY <2>2, <2>3 DEF OrchTypeOK
  <2> QED
    BY <2>1, <2>4
<1>3. ASSUME NEW k \in Caller, NEW a \in Agent, Settle(k, a)
      PROVE  /\ agent[b].status # "new" => agent'[b].status # "new"
             /\ agent[b].status = "shutdown" => agent'[b].status = "shutdown"
             /\ agent'[b].status = "shutdown" => agent[b].status = "shutdown"
  <2>1. \A c \in Agent \ {a} : agent'[c] = agent[c]
    BY <1>3 DEF Settle, OrchTypeOK
  <2> QED
    BY <1>3, <2>1, SettledCases
<1>4. ASSUME NEW a \in Agent, StopAgent(a)
      PROVE  /\ agent[b].status # "new" => agent'[b].status # "new"
             /\ agent[b].status = "shutdown" => agent'[b].status = "shutdown"
             /\ agent'[b].status = "shutdown" => agent[b].status = "shutdown" \/ StopAgent(b)
  <2>1. agent'[a].status = "shutdown" /\ \A c \in Agent \ {a} : agent'[c] = agent[c]
    BY <1>4 DEF StopAgent, OrchTypeOK, AgentState
  <2> QED
    BY <1>4, <2>1
<1>5. CASE UNCHANGED agent
  BY <1>5
<1> QED
  BY <1>1, <1>2, <1>3, <1>4, <1>5, StepKinds

LEMMA RegistryStep ==
  ASSUME [OrchNext]_ovars
  PROVE  UNCHANGED registry \/ \E a \in Agent : Register(a) \/ Unregister(a)
<1>1. ASSUME NEW k \in Caller, CallerStep(k) PROVE UNCHANGED registry
  BY <1>1 DEF CallerStep, DispatchRefused, DispatchAssigns, StartFails, Settle, Start,
     StartLeavesChild, Join, Record, Decide, RecordFailed, Reset
<1>2. CASE ShutdownStep
  BY <1>2 DEF ShutdownStep, ShutdownLock, ShutdownEnd, StopAgent, CloseWorker, ShutdownNext
<1>3. CASE UNCHANGED ovars
  BY <1>3 DEF ovars
<1>4. ASSUME NEW k \in Caller, NEW n \in Name, Call(k, n) PROVE UNCHANGED registry
  BY <1>4 DEF Call
<1>5. ASSUME NEW a \in Agent, RecoverAgent(a) \/ Observe(a) \/ Cancel(a)
      PROVE  UNCHANGED registry
  BY <1>5 DEF RecoverAgent, Observe, Cancel
<1>6. ASSUME NEW i \in Exec, NEW outcome \in Outcome, HandlerEnds(i, outcome)
      PROVE  UNCHANGED registry
  BY <1>6 DEF HandlerEnds
<1>7. CASE ShutdownBegin
  BY <1>7 DEF ShutdownBegin
<1> QED
  BY <1>1, <1>2, <1>3, <1>4, <1>5, <1>6, <1>7 DEF OrchNext

LEMMA ShutStep ==
  ASSUME [OrchNext]_ovars
  PROVE  UNCHANGED <<shut, shutdowns>> \/ ShutdownBegin \/ ShutdownLock \/ ShutdownEnd
<1>1. ASSUME NEW k \in Caller, CallerStep(k) PROVE UNCHANGED <<shut, shutdowns>>
  BY <1>1 DEF CallerStep, DispatchRefused, DispatchAssigns, StartFails, Settle, Start,
     StartLeavesChild, Join, Record, Decide, RecordFailed, Reset
<1>2. ASSUME NEW a \in Agent, Register(a) \/ Unregister(a) \/ RecoverAgent(a) \/ Observe(a)
      PROVE  UNCHANGED <<shut, shutdowns>>
  BY <1>2 DEF Register, Unregister, RecoverAgent, Observe
<1>3. ASSUME NEW a \in Agent,
             StopAgent(a) \/ CloseWorker(a) \/ ShutdownNext(a) \/ Cancel(a)
      PROVE  UNCHANGED <<shut, shutdowns>>
  BY <1>3 DEF StopAgent, CloseWorker, ShutdownNext, Cancel
<1>4. ASSUME NEW k \in Caller, NEW n \in Name, Call(k, n) PROVE UNCHANGED <<shut, shutdowns>>
  BY <1>4 DEF Call
<1>5. ASSUME NEW i \in Exec, NEW outcome \in Outcome, HandlerEnds(i, outcome)
      PROVE  UNCHANGED <<shut, shutdowns>>
  BY <1>5 DEF HandlerEnds
<1>6. CASE UNCHANGED ovars
  BY <1>6 DEF ovars
<1> QED
  BY <1>1, <1>2, <1>3, <1>4, <1>5, <1>6 DEF OrchNext, ShutdownStep

LEMMA ShutdownStays ==
  ASSUME OrchTypeOK, [OrchNext]_ovars
  PROVE  IsShutdown => IsShutdown'
BY ShutStep, BoundAssumption
   DEF OrchTypeOK, IsShutdown, ShutdownBegin, ShutdownLock, ShutdownEnd

\* Before shutdown an agent that is registered and has a task is not removed.
LEMMA NotRemovable ==
  ASSUME OrchIInv, ~IsShutdown, NEW a \in Agent, Engaged(a)
  PROVE  ~Removable(a)
<1>1. a \in registry[NameOf[a]] /\ NameOf[a] \in Name
  BY AgentAssumption DEF OrchIInv, Kept
<1>2. agent[a].status # "shutdown"
  BY <1>1 DEF OrchIInv, ShutSound
<1> QED
  BY <1>2, EngagedHeld DEF OrchIInv, Removable

LEMMA RegistrySoundKept ==
  ASSUME OrchIInv, [OrchNext]_ovars
  PROVE  RegistrySound'
<1> USE AgentAssumption DEF OrchIInv
<1>1. CASE UNCHANGED registry
  BY <1>1, StatusStep DEF RegistrySound, OrchTypeOK
<1>2. ASSUME NEW a \in Agent, Register(a) PROVE RegistrySound'
  <2>1. \A n \in Name : \/ registry'[n] = registry[n]
                        \/ n = NameOf[a] /\ registry'[n] = {a}
    <3>1. UNCHANGED registry \/ registry' = [registry EXCEPT ![NameOf[a]] = {a}]
      BY <1>2 DEF Register
    <3>2. NameOf[a] \in Name /\ DOMAIN registry = Name
      BY DEF OrchTypeOK
    <3>3. CASE registry' = [registry EXCEPT ![NameOf[a]] = {a}]
      BY <3>2, <3>3
    <3> QED
      BY <3>1, <3>3
  <2>2. \A n \in Name : registry'[n] # registry[n] => agent'[a].status = "idle"
    <3>1. UNCHANGED registry \/ agent'[a] = [agent[a] EXCEPT !.status = "idle"]
      BY <1>2 DEF Register
    <3> QED
      BY <3>1 DEF OrchTypeOK, AgentState
  <2> QED
    BY <2>1, <2>2, StatusStep DEF RegistrySound, OrchTypeOK
<1>3. ASSUME NEW a \in Agent, Unregister(a) PROVE RegistrySound'
  <2>1. \A n \in Name : registry'[n] = registry[n] \/ registry'[n] = {}
    BY <1>3 DEF Unregister, OrchTypeOK
  <2> QED
    BY <2>1, StatusStep DEF RegistrySound, OrchTypeOK
<1> QED
  BY <1>1, <1>2, <1>3, RegistryStep

LEMMA KeptKept ==
  ASSUME OrchIInv, [OrchNext]_ovars
  PROVE  Kept'
<1> USE AgentAssumption DEF OrchIInv
<1> SUFFICES ASSUME ~IsShutdown, NEW b \in Agent, Engaged(b)'
             PROVE  registry'[NameOf[b]] = {b}
  BY ShutdownStays DEF Kept
<1>1. CASE Engaged(b)
  <2>1. registry[NameOf[b]] = {b} /\ ~Removable(b) /\ NameOf[b] \in Name
    BY <1>1, NotRemovable DEF Kept
  <2>2. ASSUME NEW a \in Agent, Register(a) PROVE registry'[NameOf[b]] = {b}
    BY <2>1, <2>2 DEF Register, OrchTypeOK
  <2>3. ASSUME NEW a \in Agent, Unregister(a) PROVE registry'[NameOf[b]] = {b}
    <3>1. a \in registry[NameOf[a]]
      BY <2>3 DEF Unregister, Registered, RegistrySound
    <3> QED
      BY <2>1, <2>3, <3>1 DEF Unregister, OrchTypeOK
  <2> QED
    BY <2>1, <2>2, <2>3, RegistryStep
<1>2. ASSUME NEW k \in Caller, DispatchAssigns(k, b) PROVE registry'[NameOf[b]] = {b}
  BY <1>2 DEF DispatchAssigns, RegistrySound, OrchTypeOK, CallerState
<1> QED
  BY <1>1, <1>2, NextControl

LEMMA OneEngagedKept ==
  ASSUME OrchIInv, [OrchNext]_ovars
  PROVE  OneEngaged'
<1> USE AgentAssumption DEF OrchIInv
<1>1. ASSUME NEW a \in Agent, NEW k \in Caller, DispatchAssigns(k, a)
      PROVE  ~IsShutdown /\ registry[NameOf[a]] = {a}
  BY <1>1 DEF DispatchAssigns, RegistrySound, OrchTypeOK, CallerState
<1>2. \A a \in Agent : Engaged(a)' =>
        Engaged(a) \/ \E k \in Caller : DispatchAssigns(k, a)
  BY NextControl
<1>3. SUFFICES ASSUME NEW a \in Agent, NEW b \in Agent, Engaged(a)', Engaged(b)',
                      NameOf[a] = NameOf[b]
               PROVE  a = b
  BY DEF OneEngaged
<1>4. CASE Engaged(a) /\ Engaged(b)
  BY <1>3, <1>4 DEF OneEngaged
<1>5. CASE ~Engaged(a) \/ ~Engaged(b)
  <2>1. ~IsShutdown
    BY <1>1, <1>2, <1>3, <1>5
  <2>2. registry[NameOf[a]] = {a} /\ registry[NameOf[b]] = {b}
    BY <1>1, <1>2, <1>3, <2>1 DEF Kept
  <2> QED
    BY <1>3, <2>2
<1> QED
  BY <1>4, <1>5

LEMMA ShutSoundKept ==
  ASSUME OrchIInv, [OrchNext]_ovars
  PROVE  ShutSound'
<1> USE AgentAssumption DEF OrchIInv
<1>1. shut' # "idle" => IsShutdown'
  BY ShutStep, BoundAssumption
     DEF ShutSound, OrchTypeOK, IsShutdown, ShutdownBegin, ShutdownLock, ShutdownEnd
<1>2. ASSUME ~IsShutdown', NEW n \in Name, NEW a \in registry'[n]
      PROVE  agent'[a].status # "shutdown"
  <2>1. ~IsShutdown /\ shut # "stopping"
    BY <1>2, ShutdownStays DEF ShutSound
  <2>2. a \in registry[n] \/ Register(a)
    BY <1>2, RegistryStep DEF Register, Unregister, OrchTypeOK
  <2>3. a \in Agent
    BY <1>2, RegistryStep DEF Register, Unregister, OrchTypeOK
  <2>4. agent[a].status # "shutdown"
    BY <2>1, <2>2 DEF ShutSound, Register
  <2>5. ~StopAgent(a)
    <3>1. StopAgent(a) => UNCHANGED registry
      BY DEF StopAgent
    <3>2. ASSUME StopAgent(a) PROVE a \notin Registered
      BY <2>1, <3>2 DEF StopAgent
    <3> QED
      BY <1>2, <3>1, <3>2 DEF Registered
  <2> QED
    BY <2>3, <2>4, <2>5, StatusStep
<1> QED
  BY <1>1, <1>2 DEF ShutSound

-----------------------------------------------------------------------------
(* Theorems.                                                               *)
LEMMA InitInvariant == OrchInit => OrchIInv
<1> SUFFICES ASSUME OrchInit PROVE OrchIInv
  OBVIOUS
<1>1. OrchTypeOK
  BY InitType
<1>2. /\ \A k \in Caller : caller[k].pc = "idle" /\ caller[k].agent = {} /\ caller[k].exec = {}
      /\ \A i \in Exec : ~Up(i)
      /\ \A a \in Agent : agent[a].pending = {}
      /\ \A n \in Name : registry[n] = {}
      /\ shut = "idle"
  BY DEF OrchInit, NoExec, Up
<1>3. Control
  BY <1>2 DEF Control, HeldSound, SettleSound, UniqueHolder, RunsHeld, PendingSound, InHand
<1>4. \A a \in Agent : ~Engaged(a)
  BY <1>2 DEF Engaged, Holds, Runs
<1> QED
  BY <1>1, <1>2, <1>3, <1>4 DEF OrchIInv, RegistrySound, Kept, OneEngaged, ShutSound

LEMMA NextInvariant == OrchIInv /\ [OrchNext]_ovars => OrchIInv'
BY NextType, NextControl, RegistrySoundKept, KeptKept, OneEngagedKept, ShutSoundKept
   DEF OrchIInv

(* The invariant that the theorems below rest on holds in every state of   *)
(* every execution.                                                        *)
THEOREM OrchInvariant == OrchSpec => []OrchIInv
BY InitInvariant, NextInvariant, PTL DEF OrchSpec

(* Every variable of the orchestrator has its type.                        *)
THEOREM OrchTypeCorrect == OrchSpec => []OrchTypeOK
<1>1. OrchIInv => OrchTypeOK
  BY DEF OrchIInv
<1> QED
  BY <1>1, OrchInvariant, PTL

(* At most one handler runs under a name at any time, for any number of    *)
(* callers, retries, timeouts, recoveries, re-registrations and shutdowns. *)
THEOREM Exclusion == OrchSpec => []OneExecution
<1>1. OrchIInv => OneExecution
  <2> SUFFICES ASSUME OrchIInv, NEW i \in Exec, NEW j \in Exec, Up(i), Up(j),
                      NEW a \in exec[i].agent, NEW b \in exec[j].agent,
                      NameOf[a] = NameOf[b]
               PROVE  i = j
    BY DEF OneExecution
  <2> USE DEF OrchIInv, Control
  <2>1. /\ a \in Agent /\ exec[i].agent = {a}
        /\ \/ agent[a].pending = {i}
           \/ \E k \in Caller : InHand(k) /\ caller[k].agent = {a} /\ caller[k].exec = {i}
    BY DEF RunsHeld
  <2>2. /\ b \in Agent /\ exec[j].agent = {b}
        /\ \/ agent[b].pending = {j}
           \/ \E k \in Caller : InHand(k) /\ caller[k].agent = {b} /\ caller[k].exec = {j}
    BY DEF RunsHeld
  <2>3. Engaged(a) /\ Engaged(b)
    BY <2>1, <2>2 DEF Engaged, Runs
  <2>4. a = b
    BY <2>1, <2>2, <2>3 DEF OneEngaged
  <2>5. \A k \in Caller : InHand(k) /\ caller[k].agent = {a} => agent[a].pending = {}
    BY DEF HeldSound
  <2>6. CASE agent[a].pending = {i}
    BY <2>2, <2>4, <2>5, <2>6
  <2>7. CASE \E k \in Caller : InHand(k) /\ caller[k].agent = {a} /\ caller[k].exec = {i}
    BY <2>2, <2>4, <2>5, <2>7 DEF UniqueHolder
  <2> QED
    BY <2>1, <2>6, <2>7
<1> QED
  BY <1>1, OrchInvariant, PTL

(* An agent that has a task cannot be assigned and, before shutdown, can   *)
(* be found under its name.                                                *)
THEOREM NobodyDetached == OrchSpec => []EngagedIsKept
<1>1. OrchIInv => EngagedIsKept
  BY EngagedHeld DEF OrchIInv, EngagedIsKept, Kept, Assignable
<1> QED
  BY <1>1, OrchInvariant, PTL

(* No step reopens an agent that was shut down, or assigns a task once     *)
(* shutdown has begun.                                                     *)
THEOREM ShutdownFinal == OrchSpec => ShutdownTerminal
<1> DEFINE Step == /\ \A a \in Agent : agent[a].status = "shutdown" => agent'[a].status = "shutdown"
                   /\ IsShutdown => \A k \in Caller :
                        CallerAt(k, "dispatch") => ~CallerAt(k, "start")'
<1>1. OrchIInv /\ [OrchNext]_ovars => Step
  <2> SUFFICES ASSUME OrchIInv, [OrchNext]_ovars PROVE Step
    OBVIOUS
  <2> USE DEF OrchIInv
  <2>1. \A a \in Agent : agent[a].status = "shutdown" => agent'[a].status = "shutdown"
    BY StatusStep
  <2>2. ASSUME IsShutdown, NEW k \in Caller, CallerAt(k, "dispatch")
        PROVE  ~CallerAt(k, "start")'
    <3>1. CASE Still
      BY <2>2, <3>1 DEF Still, StillCallers, InHand, CallerAt
    <3>2. CASE \E l \in Caller, a \in Agent : Assignable(a) /\ DispatchAssigns(l, a)
      BY <2>2, <3>2 DEF DispatchAssigns
    <3>3. CASE \E l \in Caller, a \in Agent : Settle(l, a)
      BY <2>2, <3>3 DEF Settle, CallerAt, OrchTypeOK
    <3>4. CASE \E a \in Agent : StopAgent(a)
      BY <2>2, <3>4 DEF StopAgent, CallerAt
    <3>5. CASE \A l \in Caller : CallerAt(l, "dispatch") => caller'[l] = caller[l]
      BY <2>2, <3>5 DEF CallerAt
    <3> QED
      BY <3>1, <3>2, <3>3, <3>4, <3>5, StepKinds
  <2> QED
    BY <2>1, <2>2
<1>2. ShutdownTerminal <=> [][Step]_ovars
  BY DEF ShutdownTerminal
<1> HIDE DEF Step
<1> QED
  BY <1>1, <1>2, OrchInvariant, PTL DEF OrchSpec

-----------------------------------------------------------------------------
(* What an attempt has put into the history so far: nothing before its     *)
(* agent is settled, one result after that, and an attempt at a worker is  *)
(* answered and not renamed.                                               *)
RecordsOf(k) ==
  /\ caller[k].pc \in {"start", "run", "settle", "record"} => caller[k].recorded = 0
  /\ caller[k].pc \in {"decide", "failed"} =>
       /\ k \in Retrying
       /\ caller[k].origin # "none" => caller[k].recorded = 1
  /\ caller[k].pc = "failed" => caller[k].origin # "worker"
  /\ caller[k].pc = "idle" /\ caller[k].origin # "none" =>
       \/ caller[k].recorded = 1
       \/ caller[k].recorded = 2 /\ k \in Retrying /\ caller[k].origin = "thread"

RecordsSound == \A k \in Caller : RecordsOf(k)

(* The child of a closed worker was killed, and once shutdown has begun a  *)
(* worker that has a task is closed or shutdown has still to come to it.   *)
ClosedKilled == \A i \in Exec, a \in closed : exec[i].state = "up" => exec[i].agent # {a}
Draining ==
  IsShutdown => \A a \in Worker : Engaged(a) => a \in closed \/ (shut # "idle" /\ a \in closing)

DrainInv == ClosedKilled /\ Draining

-----------------------------------------------------------------------------
LEMMA RecordsElsewhere ==
  ASSUME RecordsSound, NEW k \in Caller, RecordsOf(k)',
         \A l \in Caller \ {k} : caller'[l] = caller[l]
  PROVE  RecordsSound'
<1>1. ASSUME NEW l \in Caller, l # k PROVE RecordsOf(l)'
  BY <1>1 DEF RecordsSound, RecordsOf
<1> QED
  BY <1>1 DEF RecordsSound

LEMMA RecordsReturned ==
  ASSUME OrchTypeOK, RecordsSound, NEW k \in Caller, NEW result, NEW origin, NEW n \in Nat,
         origin = "none" \/ n = 1, Return(k, result, origin, n)
  PROVE  RecordsSound'
<1>1. caller[k] \in CallerState
  BY DEF OrchTypeOK
<1>2. \A l \in Caller \ {k} : caller'[l] = caller[l]
  BY DEF Return, OrchTypeOK
<1>3. /\ caller'[k].pc = IF k \in Retrying THEN "decide" ELSE "idle"
      /\ caller'[k].origin = origin /\ caller'[k].recorded = n
  BY <1>1 DEF Return, OrchTypeOK, CallerState
<1>4. RecordsOf(k)'
  BY <1>3 DEF RecordsOf
<1> QED
  BY <1>2, <1>4, RecordsElsewhere

LEMMA RecordsStep ==
  ASSUME OrchTypeOK, RecordsSound, [OrchNext]_ovars
  PROVE  RecordsSound'
<1>0. \A l \in Caller : caller[l] \in CallerState /\ RecordsOf(l)
  BY DEF OrchTypeOK, RecordsSound
<1>1. CASE UNCHANGED caller
  BY <1>1 DEF RecordsSound, RecordsOf
<1>2. ASSUME NEW k \in Caller, NEW n \in Name, Call(k, n) PROVE RecordsSound'
  <2>1. caller'[k].pc = "dispatch" /\ \A l \in Caller \ {k} : caller'[l] = caller[l]
    BY <1>2 DEF Call, OrchTypeOK
  <2> QED
    BY <2>1, RecordsElsewhere DEF RecordsOf
<1>3. ASSUME NEW k \in Caller, CallerStep(k) PROVE RecordsSound'
  <2>1. CASE DispatchRefused(k)
    BY <2>1, RecordsReturned DEF DispatchRefused
  <2>2. ASSUME NEW a \in Agent, DispatchAssigns(k, a) PROVE RecordsSound'
    <3>1. CASE ~Assignable(a)
      BY <2>2, <3>1, RecordsReturned DEF DispatchAssigns
    <3>2. CASE Assignable(a)
      <4>1. \A l \in Caller \ {k} : caller'[l] = caller[l]
        BY <2>2, <3>2 DEF DispatchAssigns, OrchTypeOK
      <4>2. caller'[k].pc = "start" /\ caller'[k].recorded = 0
        <5> DEFINE origin == IF a \in Worker THEN "worker" ELSE "thread"
        <5>1. caller'[k] = [caller[k] EXCEPT !.pc = "start", !.agent = {a}, !.exec = {},
                             !.result = "none", !.recorded = 0, !.origin = origin]
          BY <2>2, <3>2 DEF DispatchAssigns, OrchTypeOK
        <5> HIDE DEF origin
        <5> QED
          BY <1>0, <5>1 DEF CallerState
      <4> QED
        BY <4>1, <4>2, RecordsElsewhere DEF RecordsOf
    <3> QED
      BY <3>1, <3>2
  <2>3. CASE \/ \E a \in Agent : StartFails(k, a) \/ Settle(k, a)
             \/ \E a \in Agent, i \in Exec : Start(k, a, i) \/ StartLeavesChild(k, a, i)
             \/ \E i \in Exec : Join(k, i)
    <3>1. \A l \in Caller \ {k} : caller'[l] = caller[l]
      BY <2>3 DEF StartFails, Settle, Start, StartLeavesChild, Join, OrchTypeOK
    <3>2. caller[k].pc \in {"start", "run", "settle"}
      BY <2>3 DEF StartFails, Settle, Start, StartLeavesChild, Join, CallerAt
    <3>3. caller'[k].pc \in {"run", "settle", "record"} /\ caller'[k].recorded = caller[k].recorded
      <4>1. ASSUME NEW a \in Agent, StartFails(k, a)
            PROVE  caller'[k].pc = "settle" /\ caller'[k].recorded = caller[k].recorded
        BY <1>0, <4>1 DEF StartFails, OrchTypeOK, CallerState
      <4>2. ASSUME NEW a \in Agent, Settle(k, a)
            PROVE  caller'[k].pc = "record" /\ caller'[k].recorded = caller[k].recorded
        BY <1>0, <4>2 DEF Settle, OrchTypeOK, CallerState
      <4>3. ASSUME NEW a \in Agent, NEW i \in Exec, Start(k, a, i)
            PROVE  caller'[k].pc = "run" /\ caller'[k].recorded = caller[k].recorded
        BY <1>0, <4>3 DEF Start, OrchTypeOK, CallerState
      <4>4. ASSUME NEW a \in Agent, NEW i \in Exec, StartLeavesChild(k, a, i)
            PROVE  caller'[k].pc = "settle" /\ caller'[k].recorded = caller[k].recorded
        BY <1>0, <4>4 DEF StartLeavesChild, OrchTypeOK, CallerState
      <4>5. ASSUME NEW i \in Exec, Join(k, i)
            PROVE  caller'[k].pc = "settle" /\ caller'[k].recorded = caller[k].recorded
        <5> DEFINE result == IF Up(i) THEN "unconfirmed" ELSE exec[i].state
        <5>1. caller'[k] = [caller[k] EXCEPT !.pc = "settle", !.result = result]
          BY <4>5 DEF Join, OrchTypeOK
        <5> HIDE DEF result
        <5> QED
          BY <1>0, <5>1 DEF CallerState
      <4> QED
        BY <2>3, <4>1, <4>2, <4>3, <4>4, <4>5
    <3> QED
      BY <1>0, <3>1, <3>2, <3>3, RecordsElsewhere DEF RecordsOf
  <2>4. CASE Record(k)
    <3>1. caller[k].recorded + 1 = 1
      BY <1>0, <2>4 DEF Record, CallerAt, RecordsOf
    <3> QED
      BY <2>4, <3>1, RecordsReturned DEF Record
  <2>5. CASE Decide(k)
    <3>1. \A l \in Caller \ {k} : caller'[l] = caller[l]
      BY <2>5 DEF Decide, OrchTypeOK
    <3>2. caller'[k] = IF Given(k) THEN Answered(k) ELSE Ungiven(k)
      BY <2>5 DEF Decide, OrchTypeOK
    <3>3. caller[k].pc = "decide" /\ caller[k].origin \in {"none", "thread", "worker"}
      BY <1>0, <2>5 DEF Decide, CallerAt, CallerState
    <3>4. /\ Answered(k).pc = "idle" /\ Answered(k).origin = caller[k].origin
          /\ Answered(k).recorded = caller[k].recorded
      BY <1>0 DEF Answered, CallerState
    <3>5. Ungiven(k).pc = "reset" \/ /\ Exhausted(k) /\ Ungiven(k).pc = "failed"
                                     /\ Ungiven(k).origin = caller[k].origin
                                     /\ Ungiven(k).recorded = caller[k].recorded
      <4>1. CASE Exhausted(k)
        BY <1>0, <4>1 DEF Ungiven, CallerState
      <4>2. CASE ~Exhausted(k)
        <5> DEFINE less == caller[k].left - 1
                   again == [caller[k] EXCEPT !.pc = "reset", !.left = less]
        <5>1. Ungiven(k) = again
          BY <4>2 DEF Ungiven
        <5>2. again.pc = "reset"
          <6> HIDE DEF less
          <6> QED
            BY <1>0 DEF CallerState
        <5> QED
          BY <5>1, <5>2
      <4> QED
        BY <4>1, <4>2
    <3>6. CASE Given(k)
      <4>1. RecordsOf(k)'
        BY <1>0, <3>2, <3>3, <3>4, <3>6 DEF RecordsOf
      <4> QED
        BY <3>1, <4>1, RecordsElsewhere
    <3>7. CASE ~Given(k)
      <4>1. Exhausted(k) => caller[k].origin # "worker"
        BY <3>7 DEF Given, OfWorker
      <4>2. RecordsOf(k)'
        BY <1>0, <3>2, <3>3, <3>5, <3>7, <4>1 DEF RecordsOf
      <4> QED
        BY <3>1, <4>2, RecordsElsewhere
    <3> QED
      BY <3>6, <3>7
  <2>6. CASE RecordFailed(k)
    <3> DEFINE n == caller[k].recorded + 1
               answered == Answered(k)
    <3>1. \A l \in Caller \ {k} : caller'[l] = caller[l]
      BY <2>6 DEF RecordFailed, OrchTypeOK
    <3>2. answered.pc = "idle" /\ answered.origin = caller[k].origin /\ answered.recorded = caller[k].recorded
          /\ answered \in CallerState
      BY <1>0, AnsweredType DEF Answered, CallerState, OrchTypeOK
    <3>3. caller'[k] = [answered EXCEPT !.recorded = answered.recorded + 1]
      BY <2>6 DEF RecordFailed, OrchTypeOK
    <3>4. caller'[k].pc = "idle" /\ caller'[k].origin = caller[k].origin /\ caller'[k].recorded = n
      <4> HIDE DEF answered
      <4>1. answered.recorded + 1 = n
        BY <3>2
      <4> HIDE DEF n
      <4>2. caller'[k] = [answered EXCEPT !.recorded = n]
        BY <3>3, <4>1
      <4> QED
        BY <3>2, <4>2 DEF CallerState
    <3>5. caller[k].pc = "failed" /\ caller[k].origin \in {"none", "thread", "worker"}
      BY <1>0, <2>6 DEF RecordFailed, CallerAt, CallerState
    <3>6. RecordsOf(k)'
      BY <1>0, <3>4, <3>5 DEF RecordsOf
    <3> QED
      BY <3>1, <3>6, RecordsElsewhere
  <2>7. CASE Reset(k)
    <3>1. \A l \in Caller \ {k} : caller'[l] = caller[l]
      BY <2>7 DEF Reset, Goto, OrchTypeOK
    <3>2. caller'[k].pc = "dispatch"
      BY <1>0, <2>7 DEF Reset, Goto, OrchTypeOK, CallerState
    <3> QED
      BY <3>1, <3>2, RecordsElsewhere DEF RecordsOf
  <2> QED
    BY <1>3, <2>1, <2>2, <2>3, <2>4, <2>5, <2>6, <2>7 DEF CallerStep
<1> QED
  BY <1>1, <1>2, <1>3
  DEF OrchNext, ovars, Register, Unregister, RecoverAgent, Observe, HandlerEnds, Cancel, ShutdownBegin,
      ShutdownStep, ShutdownLock, ShutdownEnd, StopAgent, CloseWorker, ShutdownNext

(* An attempt that was assigned is recorded once when it is answered.      *)
THEOREM AttemptsRecordedOnce == OrchSpec => []RecordedOnce
<1>1. OrchInit => RecordsSound
  BY DEF OrchInit, RecordsSound, RecordsOf
<1>2. OrchTypeOK /\ RecordsSound /\ [OrchNext]_ovars => RecordsSound'
  BY RecordsStep
<1>3. RecordsSound => RecordedOnce
  BY DEF RecordsSound, RecordsOf, RecordedOnce, CallerAt
<1> QED
  BY <1>1, <1>2, <1>3, OrchTypeCorrect, PTL DEF OrchSpec

-----------------------------------------------------------------------------
\* Only a handler that was started for it makes an execution "up".
LEMMA ExecStep ==
  ASSUME OrchTypeOK, [OrchNext]_ovars, NEW i \in Exec
  PROVE  \/ exec'[i] = exec[i]
         \/ exec'[i].state # "up"
         \/ \E a \in Agent : a \notin closed /\ exec'[i].agent = {a}
<1> DEFINE Fine == \/ exec'[i] = exec[i]
                   \/ exec'[i].state # "up"
                   \/ \E a \in Agent : a \notin closed /\ exec'[i].agent = {a}
<1> SUFFICES Fine
  OBVIOUS
<1>0. NoExec.state # "up"
  BY DEF NoExec
<1>1. ASSUME NEW k \in Caller, NEW a \in Agent, NEW j \in Exec, Start(k, a, j) \/ StartLeavesChild(k, a, j)
      PROVE  Fine
  <2>1. exec' = [exec EXCEPT ![j] = [agent |-> {a}, state |-> "up"]] /\ a \notin closed
    BY <1>1 DEF Start, StartLeavesChild
  <2>2. exec'[i] = IF i = j THEN [agent |-> {a}, state |-> "up"] ELSE exec[i]
    BY <2>1 DEF OrchTypeOK
  <2> QED
    BY <2>1, <2>2
<1>2. ASSUME NEW j \in Exec, NEW outcome \in Outcome, HandlerEnds(j, outcome) PROVE Fine
  <2>1. i = j => exec'[i] = IF Awaited(i) THEN [exec[i] EXCEPT !.state = outcome] ELSE NoExec
    BY <1>2 DEF HandlerEnds, OrchTypeOK
  <2>2. i # j => exec'[i] = exec[i]
    BY <1>2 DEF HandlerEnds, OrchTypeOK
  <2> QED
    BY <1>0, <2>1, <2>2 DEF Outcome, OrchTypeOK
<1>3. ASSUME NEW a \in Agent, NEW confirmed \in BOOLEAN, exec' = Killed(a, confirmed) PROVE Fine
  <2>1. exec'[i] = IF i \notin Runs(a) THEN exec[i]
                   ELSE IF ~confirmed THEN [exec[i] EXCEPT !.state = "doubt"]
                   ELSE IF Awaited(i) THEN [exec[i] EXCEPT !.state = "cancelled"]
                   ELSE NoExec
    BY <1>3 DEF Killed
  <2> QED
    BY <1>0, <2>1 DEF OrchTypeOK
<1>4. ASSUME NEW k \in Caller, NEW j \in Exec, Join(k, j) PROVE Fine
  <2>1. exec' = exec \/ exec' = [exec EXCEPT ![j] = NoExec]
    BY <1>4 DEF Join
  <2> QED
    BY <1>0, <2>1 DEF OrchTypeOK
<1>5. CASE UNCHANGED exec
  BY <1>5
<1> HIDE DEF Fine
<1>6. ASSUME NEW k \in Caller, CallerStep(k) PROVE Fine
  BY <1>1, <1>4, <1>5, <1>6
  DEF CallerStep, DispatchRefused, DispatchAssigns, StartFails, Settle, Record, Decide, RecordFailed, Reset
<1>7. ASSUME NEW a \in Agent, Cancel(a) \/ CloseWorker(a) PROVE Fine
  BY <1>3, <1>7 DEF Cancel, CloseWorker
<1>8. CASE ShutdownStep
  BY <1>5, <1>7, <1>8 DEF ShutdownStep, ShutdownLock, ShutdownEnd, StopAgent, ShutdownNext
<1>9. CASE UNCHANGED ovars
  BY <1>5, <1>9 DEF ovars
<1> QED
  BY <1>2, <1>5, <1>6, <1>7, <1>8, <1>9
  DEF OrchNext, Call, Register, Unregister, RecoverAgent, Observe, ShutdownBegin

\* A worker is closed by CloseWorker and never opened again.
LEMMA ClosedStep ==
  ASSUME [OrchNext]_ovars
  PROVE  UNCHANGED closed \/ \E a \in Agent : CloseWorker(a)
<1>1. ASSUME NEW k \in Caller, CallerStep(k) PROVE UNCHANGED closed
  BY <1>1 DEF CallerStep, DispatchRefused, DispatchAssigns, StartFails, Settle, Start,
     StartLeavesChild, Join, Record, Decide, RecordFailed, Reset
<1>2. CASE ShutdownStep
  BY <1>2 DEF ShutdownStep, ShutdownLock, ShutdownEnd, StopAgent, ShutdownNext
<1>3. CASE UNCHANGED ovars
  BY <1>3 DEF ovars
<1>4. ASSUME NEW a \in Agent, \/ Register(a) \/ Unregister(a) \/ RecoverAgent(a) \/ Observe(a) \/ Cancel(a)
      PROVE  UNCHANGED closed
  BY <1>4 DEF Register, Unregister, RecoverAgent, Observe, Cancel
<1>5. ASSUME NEW i \in Exec, NEW outcome \in Outcome, HandlerEnds(i, outcome) PROVE UNCHANGED closed
  BY <1>5 DEF HandlerEnds
<1> QED
  BY <1>1, <1>2, <1>3, <1>4, <1>5 DEF OrchNext, Call, ShutdownBegin

LEMMA ClosedKilledStep ==
  ASSUME OrchTypeOK, ClosedKilled, [OrchNext]_ovars
  PROVE  ClosedKilled'
<1> SUFFICES ASSUME NEW i \in Exec, NEW b \in closed', exec'[i].state = "up", exec'[i].agent = {b}
             PROVE  FALSE
  BY DEF ClosedKilled
<1>1. CASE b \in closed
  <2>1. exec'[i] = exec[i]
    BY <1>1, ExecStep
  <2> QED
    BY <1>1, <2>1 DEF ClosedKilled
<1>2. CASE b \notin closed
  <2>1. PICK a \in Agent : CloseWorker(a)
    BY <1>2, ClosedStep
  <2>2. b = a
    BY <1>2, <2>1 DEF CloseWorker
  <2>3. PICK confirmed \in BOOLEAN : exec' = Killed(a, confirmed)
    BY <2>1 DEF CloseWorker
  <2>4. exec'[i] = IF i \notin Runs(a) THEN exec[i]
                   ELSE IF ~confirmed THEN [exec[i] EXCEPT !.state = "doubt"]
                   ELSE IF Awaited(i) THEN [exec[i] EXCEPT !.state = "cancelled"]
                   ELSE NoExec
    BY <2>3 DEF Killed
  <2>5. i \notin Runs(a)
    BY <2>4 DEF OrchTypeOK, NoExec
  <2> QED
    BY <2>2, <2>4, <2>5 DEF Runs, Up
<1> QED
  BY <1>1, <1>2

\* What shutdown has still to come to is taken off its list one by one.
LEMMA ClosingStep ==
  ASSUME [OrchNext]_ovars
  PROVE  UNCHANGED closing \/ ShutdownBegin \/ \E a \in Agent : ShutdownNext(a)
<1>1. ASSUME NEW k \in Caller, CallerStep(k) PROVE UNCHANGED closing
  BY <1>1 DEF CallerStep, DispatchRefused, DispatchAssigns, StartFails, Settle, Start,
     StartLeavesChild, Join, Record, Decide, RecordFailed, Reset
<1>2. CASE ShutdownStep
  BY <1>2 DEF ShutdownStep, ShutdownLock, ShutdownEnd, StopAgent, CloseWorker
<1>3. CASE UNCHANGED ovars
  BY <1>3 DEF ovars
<1>4. ASSUME NEW a \in Agent, \/ Register(a) \/ Unregister(a) \/ RecoverAgent(a) \/ Observe(a) \/ Cancel(a)
      PROVE  UNCHANGED closing
  BY <1>4 DEF Register, Unregister, RecoverAgent, Observe, Cancel
<1>5. ASSUME NEW i \in Exec, NEW outcome \in Outcome, HandlerEnds(i, outcome) PROVE UNCHANGED closing
  BY <1>5 DEF HandlerEnds
<1> QED
  BY <1>1, <1>2, <1>3, <1>4, <1>5 DEF OrchNext, Call

LEMMA DrainingStep ==
  ASSUME OrchIInv, Draining, [OrchNext]_ovars
  PROVE  Draining'
<1> USE AgentAssumption DEF OrchIInv
<1> SUFFICES ASSUME IsShutdown', NEW b \in Worker, Engaged(b)', b \notin closed'
             PROVE  shut' # "idle" /\ b \in closing'
  BY DEF Draining
<1>0. b \in Agent /\ b \notin closed
  BY ClosedStep DEF CloseWorker
<1>1. CASE ShutdownBegin
  <2>1. shut' = "snapshot" /\ closing' = Registered /\ shut = "idle"
    BY <1>1 DEF ShutdownBegin
  <2>2. Engaged(b)
    <3>1. \A k \in Caller : ~DispatchAssigns(k, b)
      BY <1>1, BoundAssumption DEF ShutdownBegin, DispatchAssigns, OrchTypeOK
    <3> QED
      BY <1>0, <3>1, NextControl
  <2>3. ~IsShutdown
    BY <1>0, <2>1, <2>2 DEF Draining
  <2>4. registry[NameOf[b]] = {b} /\ NameOf[b] \in Name
    BY <1>0, <2>2, <2>3 DEF Kept
  <2> QED
    BY <2>1, <2>4 DEF Registered
<1>2. CASE ~ShutdownBegin
  <2>1. IsShutdown
    BY <1>2, ShutStep, BoundAssumption DEF IsShutdown, ShutdownLock, ShutdownEnd
  <2>2. Engaged(b)
    BY <1>0, <2>1, NextControl DEF DispatchAssigns
  <2>3. shut # "idle" /\ b \in closing
    BY <1>0, <2>1, <2>2 DEF Draining
  <2>4. b \in closing'
    BY <1>0, <1>2, <2>3, ClosingStep DEF ShutdownNext
  <2>5. shut' # "idle"
    <3>1. CASE UNCHANGED <<shut, shutdowns>> \/ ShutdownLock
      BY <2>3, <3>1 DEF ShutdownLock
    <3>2. ~ShutdownEnd
      BY <2>3 DEF ShutdownEnd
    <3> QED
      BY <1>2, <3>1, <3>2, ShutStep
  <2> QED
    BY <2>4, <2>5
<1> QED
  BY <1>1, <1>2

(* When shutdown has returned, no child of a worker runs unless its death  *)
(* could not be confirmed.                                                 *)
THEOREM WorkersAreStopped == OrchSpec => []WorkersStopped
<1>1. OrchInit => DrainInv
  BY DEF OrchInit, DrainInv, ClosedKilled, Draining, IsShutdown
<1>2. OrchIInv /\ DrainInv /\ [OrchNext]_ovars => DrainInv'
  BY ClosedKilledStep, DrainingStep DEF OrchIInv, DrainInv
<1>3. OrchIInv /\ DrainInv => WorkersStopped
  <2> SUFFICES ASSUME OrchIInv, DrainInv, IsShutdown, shut = "idle", NEW i \in Exec, exec[i].state = "up",
                      NEW a \in exec[i].agent \cap Worker
               PROVE  FALSE
    BY DEF WorkersStopped
  <2>1. exec[i].agent = {a} /\ Up(i) /\ a \in Agent
    BY AgentAssumption DEF OrchIInv, Control, RunsHeld, Up
  <2>2. Engaged(a)
    BY <2>1 DEF Engaged, Runs
  <2>3. a \in closed
    BY <2>2 DEF DrainInv, Draining
  <2> QED
    BY <2>1, <2>3 DEF DrainInv, ClosedKilled
<1> QED
  BY <1>1, <1>2, <1>3, OrchInvariant, PTL DEF OrchSpec

=============================================================================
