----------------------------- MODULE MCLiveness -----------------------------
(***************************************************************************)
(* What must happen in the end, for TLC: the memory endpoints, a plugin's  *)
(* worker generation, the terminal worker and the orchestrator, under the  *)
(* fairness each of them states.  They share no state: the first state     *)
(* picks the one that is looked at, and only that one takes steps.         *)
(***************************************************************************)
EXTENDS MemoryApi, SubprocessPluginRuntime, TerminalWorker, Orchestrator

VARIABLE subject   \* the service that is looked at

Endpoints  == subject = "endpoints"
Generating == subject = "generation"
Working    == subject = "worker"
Dispatching == subject = "orchestrator"

-----------------------------------------------------------------------------
\* Every record has an id of its own, and the first is there from the start.
OwnIds == [f \in MemFile |-> f]
OneRecord == [f \in MemFile |-> IF f = 1 THEN "a" ELSE "missing"]

OneName == [a \in Agent |-> CHOOSE n \in Name : TRUE]

-----------------------------------------------------------------------------
LiveInit ==
  /\ subject \in {"endpoints", "generation", "worker", "orchestrator"}
  /\ ApiInit /\ PluginInit /\ TermInit /\ OrchInit
  /\ Endpoints \/ db = Database("none")

LiveNext ==
  /\ UNCHANGED subject
  /\ \/ Endpoints /\ ApiNext /\ UNCHANGED <<plugVars, termVars, ovars>>
     \/ Generating /\ PluginNext /\ UNCHANGED <<apiVars, termVars, ovars>>
     \/ Working /\ TermNext /\ UNCHANGED <<apiVars, plugVars, ovars>>
     \/ Dispatching /\ OrchNext /\ UNCHANGED <<apiVars, plugVars, termVars>>

\* ApiFairness, PluginFairness, TermFairness and that of FairOrchSpec, of the
\* service looked at.
OfEndpoints ==
  /\ WF_apiVars(Endpoints /\ SearchStep) /\ WF_apiVars(Endpoints /\ OtherStep)
  /\ SF_apiVars(Endpoints /\ Search("semantic")) /\ SF_apiVars(Endpoints /\ StoreVectors)

OfGeneration ==
  /\ WF_plugVars(Generating /\ DeadlinePasses) /\ WF_plugVars(Generating /\ OperatorStep)
  /\ WF_plugVars(Generating /\ ReaderStep)
  /\ SF_plugVars(Generating /\ \E w \in Thread : TermEnter(w))
  /\ WF_plugVars(Generating /\ (TermSignal \/ TermConfirm \/ TermJoin))

OfTerminal ==
  \A c \in TermCaller : WF_termVars(Working /\ RequestStep(c)) /\ WF_termVars(Working /\ CloseStep(c))

OfOrchestrator ==
  /\ \A k \in Caller : WF_ovars(Dispatching /\ CallerStep(k))
  /\ WF_ovars(Dispatching /\ ShutdownStep)

LiveSpec ==
  /\ LiveInit /\ [][LiveNext]_<<subject, apiVars, plugVars, termVars, ovars>>
  /\ OfEndpoints /\ OfGeneration /\ OfTerminal /\ OfOrchestrator
=============================================================================
