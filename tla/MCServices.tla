------------------------------ MODULE MCServices ------------------------------
(***************************************************************************)
(* The services around the orchestrator, for TLC: the capability store,    *)
(* the memory store, the memory endpoints, the plugin loader, a plugin's   *)
(* worker generation, the broker a plugin calls, the event bus, the        *)
(* terminal worker, the terminal executor, the workflow engine and the     *)
(* tools of a role.  They share no state: the first state picks the        *)
(* service that is looked at, and only that one takes steps.               *)
(***************************************************************************)
EXTENDS CapabilityStore, MemoryStore, MemoryApi, PluginLoader, EventBus,
        SubprocessPluginRuntime, PluginBroker, TerminalWorker, TerminalExecutor,
        WorkflowDag, RoleToolLoop

CONSTANTS
  Skill, Extension,     \* two capabilities
  Kept, Drifting,       \* the revisions of the skill
  ExtensionRevision     \* and of the extension, which is not accepted

VARIABLE subject   \* the service that is looked at

capVars == vars

-----------------------------------------------------------------------------
Capabilities == {Skill, Extension}
SkillRevision == Kept \cup Drifting
Revisions == SkillRevision \cup ExtensionRevision
Declared == [r \in Revisions |-> IF r \in SkillRevision THEN Skill ELSE Extension]

\* Records of two titles: three of one title, one of them read more often; a
\* renamed one; a stale one of little importance; a probe.
New(file, title, body, importance, access, fresh) ==
  [file |-> file, title |-> title, marker |-> "", content |-> <<body>>,
   importance |-> importance, access |-> access, fresh |-> fresh, probe |-> FALSE]

Records ==
  {New(1, "tea", "a", 800, 0, TRUE), New(2, "tea", "b", 400, 6, TRUE),
   New(3, "tea", "c", 200, 0, TRUE), New(2, "urn", "b", 600, 0, FALSE),
   [New(1, "urn", "a", 800, 0, TRUE) EXCEPT !.probe = TRUE]}

\* The last file was left by somebody else.
OneJunk == [f \in File |-> IF f = 3 THEN Junk ELSE Absent]

\* Every record has an id of its own, and both are there from the start.
OwnIds == [f \in MemFile |-> f]
BothThere == [f \in MemFile |-> "a"]

\* A plugin with every right, and one that lacks a few.
Entitled ==
  {[declared |-> BrokerCapability, granted |-> BrokerCapability,
    registered |-> BrokerCapability, bound |-> TRUE],
   [declared |-> BrokerCapability \ {"llm.call"}, granted |-> BrokerCapability \ {"network.get"},
    registered |-> BrokerCapability \ {"system.stats"}, bound |-> FALSE]}

\* Two of three nodes have the same role.
RolesOfNodes == [n \in Node |-> n % 2]

\* The role has the first tool only.
OneTool == [declared |-> Tool, granted |-> {"lookup"}, registered |-> {"lookup"}]

Symmetry == Permutations(Kept)

-----------------------------------------------------------------------------
Services == {"capabilities", "store", "endpoints", "loader", "bus", "generation",
             "broker", "worker", "executor", "workflow", "tools"}

NoFlow == [pc |-> "body", deps |-> [n \in Node |-> {}], policy |-> "continue",
           parallelism |-> 1, layers |-> <<>>, at |-> 1, wait |-> [n \in Node |-> 0], next |-> {}]

ServicesInit ==
  /\ subject \in Services
  /\ StoreInit /\ MemoryInit /\ ApiInit /\ LoaderInit /\ BusInit /\ PluginInit
  /\ BrokerInit /\ TermInit /\ ExecInit /\ FlowInit /\ ChatInit
  /\ subject = "endpoints" \/ db = Database("none")
  /\ subject = "capabilities" \/ answer.of = Skill
  /\ subject = "broker" \/ rights["llm.call"] = "full"
  /\ subject = "workflow" \/ flow = NoFlow

ServicesNext ==
  /\ UNCHANGED subject
  /\ \/ /\ subject = "capabilities" /\ Next
        /\ UNCHANGED <<mvars, apiVars, loaderVars, busVars, plugVars, brokerVars,
                       termVars, execVars, flowVars, chatVars>>
     \/ /\ subject = "store" /\ MemoryNext
        /\ UNCHANGED <<capVars, apiVars, loaderVars, busVars, plugVars, brokerVars,
                       termVars, execVars, flowVars, chatVars>>
     \/ /\ subject = "endpoints" /\ ApiNext
        /\ UNCHANGED <<capVars, mvars, loaderVars, busVars, plugVars, brokerVars,
                       termVars, execVars, flowVars, chatVars>>
     \/ /\ subject = "loader" /\ LoaderNext
        /\ UNCHANGED <<capVars, mvars, apiVars, busVars, plugVars, brokerVars,
                       termVars, execVars, flowVars, chatVars>>
     \/ /\ subject = "bus" /\ BusNext
        /\ UNCHANGED <<capVars, mvars, apiVars, loaderVars, plugVars, brokerVars,
                       termVars, execVars, flowVars, chatVars>>
     \/ /\ subject = "generation" /\ PluginNext
        /\ UNCHANGED <<capVars, mvars, apiVars, loaderVars, busVars, brokerVars,
                       termVars, execVars, flowVars, chatVars>>
     \/ /\ subject = "broker" /\ BrokerNext
        /\ UNCHANGED <<capVars, mvars, apiVars, loaderVars, busVars, plugVars,
                       termVars, execVars, flowVars, chatVars>>
     \/ /\ subject = "worker" /\ TermNext
        /\ UNCHANGED <<capVars, mvars, apiVars, loaderVars, busVars, plugVars,
                       brokerVars, execVars, flowVars, chatVars>>
     \/ /\ subject = "executor" /\ ExecNext
        /\ UNCHANGED <<capVars, mvars, apiVars, loaderVars, busVars, plugVars,
                       brokerVars, termVars, flowVars, chatVars>>
     \/ /\ subject = "workflow" /\ FlowNext
        /\ UNCHANGED <<capVars, mvars, apiVars, loaderVars, busVars, plugVars,
                       brokerVars, termVars, execVars, chatVars>>
     \/ /\ subject = "tools" /\ ChatNext
        /\ UNCHANGED <<capVars, mvars, apiVars, loaderVars, busVars, plugVars,
                       brokerVars, termVars, execVars, flowVars>>

ServicesSpec ==
  ServicesInit /\ [][ServicesNext]_<<subject, capVars, mvars, apiVars, loaderVars, busVars,
                                     plugVars, brokerVars, termVars, execVars, flowVars,
                                     chatVars>>
=============================================================================
