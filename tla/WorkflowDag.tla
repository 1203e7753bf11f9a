----------------------------- MODULE WorkflowDag -----------------------------
(***************************************************************************)
(* A workflow of role tasks: Workflow and WorkflowEngine of                *)
(* src/src/core/brain/workflow_dag.py, run by run_workflow of              *)
(* src/src/main_fastapi.py.  A definition is validated and cut into layers *)
(* when it is built; the engine then runs one layer after the other, the   *)
(* nodes of a layer in a pool of threads.                                  *)
(*                                                                         *)
(* A node's task is dispatched to its role (RoleDispatchService): the call *)
(* raises when the role is unknown or its worker cannot be started, and is *)
(* answered otherwise, also when the role is busy or its task has failed.  *)
(***************************************************************************)
EXTENDS Integers, FiniteSets, Sequences

CONSTANTS
  Node,            \* the nodes of the workflow
  RoleOfNode,      \* agent_name of each
  MaxParallelism   \* bound on max_parallelism

ASSUME WorkflowAssumption == IsFiniteSet(Node) /\ MaxParallelism \in Nat \ {0}

VARIABLES
  flow,      \* the definition, its layers, and how far its run is; wait and
             \* next are remaining and current_layer of _compute_layers
  verdict,   \* results: the status of each node
  task       \* what became of the dispatch of each node

flowVars == <<flow, verdict, task>>

Policy == {"fail_fast", "continue"}
InFlight == {n \in Node : task[n] \in {"called", "leased"}}

\* Any graph, cyclic ones and nodes that depend on themselves among them.
FlowInit ==
  /\ flow \in [pc: {"body"}, deps: [Node -> SUBSET Node], policy: Policy,
               parallelism: 1 .. MaxParallelism, layers: {<<>>}, at: {1},
               wait: {[n \in Node |-> 0]}, next: {{}}]
  /\ verdict = [n \in Node |-> "pending"] /\ task = [n \in Node |-> "none"]

-----------------------------------------------------------------------------
\* _validate_edges: a dependency is another node of the workflow.
SoundEdges(deps) == \A n \in Node : n \notin deps[n]

\* workflow_from_dict and Workflow: the definition is refused, or its layers
\* are computed, beginning with the nodes that depend on nothing.
Build ==
  /\ flow.pc = "body"
  /\ flow' = IF SoundEdges(flow.deps)
             THEN [flow EXCEPT !.pc = "layering", !.next = {n \in Node : flow.deps[n] = {}},
                               !.wait = [n \in Node |-> Cardinality(flow.deps[n])]]
             ELSE [flow EXCEPT !.pc = "refused"]
  /\ UNCHANGED <<verdict, task>>

\* The loop of _compute_layers: a layer is taken, those that depend on its
\* nodes wait for so many fewer, and who waits for nobody any more is next.
Counted(layer) == [n \in Node |-> flow.wait[n] - Cardinality(flow.deps[n] \cap layer)]

TakeLayer ==
  /\ flow.pc = "layering" /\ flow.next # {}
  /\ LET left == Counted(flow.next)
     IN  flow' = [flow EXCEPT !.layers = Append(@, flow.next), !.wait = left,
                              !.next = {n \in Node : left[n] = 0 /\ flow.wait[n] > 0}]
  /\ UNCHANGED <<verdict, task>>

\* Who was never next is on a cycle, or behind one.
Visited == UNION {flow.layers[k] : k \in DOMAIN flow.layers}

EndLayering ==
  /\ flow.pc = "layering" /\ flow.next = {}
  /\ flow' = [flow EXCEPT !.pc = IF Visited = Node THEN "layer" ELSE "refused"]
  /\ UNCHANGED <<verdict, task>>

\* _dependencies_satisfied.  Mutant: a dependency that was skipped will do.
SatisfiedUnlessFailed(n) == \A d \in flow.deps[n] : verdict[d] # "failed"
Satisfied(n) == \A d \in flow.deps[n] : verdict[d] = "succeeded"

\* The head of the loop of run, and the submissions of _run_layer.
BeginLayer ==
  /\ flow.pc = "layer" /\ flow.at <= Len(flow.layers)
  /\ LET layer == flow.layers[flow.at]
     IN  /\ verdict' = [n \in Node |-> IF n \in layer /\ ~Satisfied(n) THEN "skipped"
                                       ELSE verdict[n]]
         /\ task' = [n \in Node |-> IF n \in layer /\ Satisfied(n) THEN "queued" ELSE task[n]]
  /\ flow' = [flow EXCEPT !.pc = "pool"]

\* A thread of the pool takes the next node (_execute_node).
CallDispatch(n) ==
  /\ flow.pc = "pool" /\ task[n] = "queued"
  /\ Cardinality(InFlight) < flow.parallelism
  /\ task' = [task EXCEPT ![n] = "called"]
  /\ UNCHANGED <<flow, verdict>>

\* dispatch_by_role: the task of another node, or of somebody else, has the
\* role, or this one takes it.
RoleBusy(n) ==
  /\ task[n] = "called" /\ task' = [task EXCEPT ![n] = "answered"]
  /\ UNCHANGED <<flow, verdict>>

RoleTaken(n) ==
  /\ task[n] = "called"
  /\ \A m \in Node : task[m] = "leased" => RoleOfNode[m] # RoleOfNode[n]
  /\ task' = [task EXCEPT ![n] = "leased"]
  /\ UNCHANGED <<flow, verdict>>

\* The role is unknown, or its worker cannot be started.
DispatchRaises(n) ==
  /\ task[n] \in {"called", "leased"} /\ task' = [task EXCEPT ![n] = "raised"]
  /\ UNCHANGED <<flow, verdict>>

\* The role's task has ended, well or not.
DispatchAnswers(n) ==
  /\ task[n] = "leased" /\ task' = [task EXCEPT ![n] = "answered"]
  /\ UNCHANGED <<flow, verdict>>

\* as_completed: the result is stored under the lock.
StoreResult(n) ==
  /\ flow.pc = "pool" /\ verdict[n] = "pending" /\ task[n] \in {"answered", "raised"}
  /\ verdict' = [verdict EXCEPT ![n] = IF task[n] = "answered" THEN "succeeded" ELSE "failed"]
  /\ UNCHANGED <<flow, task>>

\* What fail-fast leaves of the nodes that had no turn.
GivenUp(n) == IF verdict[n] = "pending" THEN "skipped" ELSE verdict[n]

\* The foot of the loop: after a failed layer fail-fast stops.
EndLayer ==
  /\ flow.pc = "pool" /\ \A n \in flow.layers[flow.at] : verdict[n] # "pending"
  /\ IF flow.policy = "fail_fast" /\ \E n \in Node : verdict[n] = "failed"
     THEN flow' = [flow EXCEPT !.pc = "done"] /\ verdict' = [n \in Node |-> GivenUp(n)]
     ELSE flow' = [flow EXCEPT !.pc = "layer", !.at = @ + 1] /\ UNCHANGED verdict
  /\ UNCHANGED task

\* The result is returned, or raised when the policy says so.
EndRun ==
  /\ \/ flow.pc = "done"
     \/ flow.pc = "layer" /\ flow.at > Len(flow.layers)
  /\ flow' = [flow EXCEPT !.pc =
                IF flow.policy = "fail_fast" /\ \E n \in Node : verdict[n] # "succeeded"
                THEN "aborted" ELSE "returned"]
  /\ UNCHANGED <<verdict, task>>

FlowNext ==
  \/ Build \/ TakeLayer \/ EndLayering \/ BeginLayer \/ EndLayer \/ EndRun
  \/ \E n \in Node : \/ CallDispatch(n) \/ RoleBusy(n) \/ RoleTaken(n) \/ DispatchRaises(n)
                     \/ DispatchAnswers(n) \/ StoreResult(n)

FlowSpec == FlowInit /\ [][FlowNext]_flowVars

-----------------------------------------------------------------------------
\* Everything a node depends on, directly or not, and how deep below its
\* first ancestors it is: the longest chain of them.
Closed(S) == \A n \in S : flow.deps[n] \subseteq S
Ancestors(n) == {a \in Node : \A S \in SUBSET Node : flow.deps[n] \subseteq S /\ Closed(S) => a \in S}

Depth(n) ==
  LET chains == {S \in SUBSET Ancestors(n) :
                   \A a, b \in S : a = b \/ a \in Ancestors(b) \/ b \in Ancestors(a)}
  IN  CHOOSE k \in 0 .. Cardinality(Node) :
        /\ \E S \in chains : Cardinality(S) = k
        /\ \A S \in chains : Cardinality(S) <= k

\* No node is dispatched before the dispatch of everything below it was answered.
InOrder ==
  \A n \in Node : task[n] # "none" =>
    \A a \in Ancestors(n) : task[a] = "answered" /\ verdict[a] = "succeeded"

\* Who fails, and who is skipped, is decided by the graph and the calls alone.
Judged ==
  flow.pc \in {"returned", "aborted"} =>
    \A n \in Node :
      LET cut == \/ \E a \in Ancestors(n) : task[a] = "raised"
                 \/ /\ flow.policy = "fail_fast"
                    /\ \E m \in Node : task[m] = "raised" /\ Depth(m) < Depth(n)
      IN  verdict[n] = CASE cut -> "skipped"
                         [] ~cut /\ task[n] = "raised" -> "failed"
                         [] ~cut /\ task[n] = "answered" -> "succeeded"
                         [] OTHER -> "pending"

(* However the threads of a layer interleave, a node is dispatched only     *)
(* after all it depends on, directly or not, was answered; a cyclic graph   *)
(* runs nothing; and at the end every node has the one verdict the graph,   *)
(* the policy and the answers of the roles give it: skipped exactly if      *)
(* something below it raised or, under fail-fast, something less deep did.  *)
WorkflowSound ==
  /\ InOrder /\ Judged
  /\ (\E n \in Node : n \in Ancestors(n)) => \A n \in Node : task[n] = "none"
=============================================================================
