------------------------------ MODULE ServiceProofs ------------------------------
(***************************************************************************)
(* The services under the orchestrator, each for any number of those who   *)
(* use it.  The processes the service starts have an owner until they are  *)
(* gone: the workers of plugins, whatever loads and unloads are            *)
(* interrupted, and those of the terminal, whoever closes it.  What runs   *)
(* there gets no more than it may: a plugin's calls are warranted, a       *)
(* command keeps its directory.  The event bus calls whom it promised to   *)
(* call, once; a role's conversation with its tools is answered, charged   *)
(* and logged call by call; and a workflow runs in the order of its graph. *)
(***************************************************************************)
EXTENDS PluginLoader, PluginBroker, TerminalExecutor, TerminalWorker, EventBus, RoleToolLoop,
        WorkflowDag, FiniteSetTheorems, WellFoundedInduction, TLAPS

Worker == [alive: {"none", "up", "gone"}, usable: BOOLEAN, ended: BOOLEAN, confirmed: BOOLEAN]

\* What a worker is believed to be agrees with what it is.
WorkerOK(c) == c \in Worker /\ (c.confirmed => c.alive = "gone")
WorkersOK ==
  /\ workers \in [Plugin -> [Gen -> Worker]]
  /\ \A p \in Plugin, g \in Gen : WorkerOK(workers[p][g])

Loading == {"start", "load", "drop"}
Ending == {"cleanup", "shutdown", "close"}
Instance == [status: {"error", "loaded", "enabled", "disabled"}, gen: 0 .. MaxGen, runtime: BOOLEAN]
MethodType ==
  [pc: {"idle"} \cup Loading \cup Ending, plugin: SUBSET Plugin, gen: 0 .. MaxGen, cut: BOOLEAN]

\* There is one instance of a plugin at most, of a generation there was.
InstanceOK(p, e) == e \in Instance /\ (e.runtime => e.gen \in 1 .. generations[p])
TableOK ==
  /\ table \in [Plugin -> SUBSET Instance]
  /\ \A p \in Plugin : table[p] = {} \/ \E e : table[p] = {e} /\ InstanceOK(p, e)

GenerationsOK ==
  /\ generations \in [Plugin -> 0 .. MaxGen]
  /\ \A p \in Plugin, g \in Gen : g > generations[p] => workers[p][g].alive = "none"

\* The method in the lock: a load has no instance yet, and its worker is not up
\* before it starts; an unload is of the instance's worker.
MethodSound(p) ==
  /\ p \notin unloading
  /\ method.gen \in 1 .. generations[p]
  /\ method.pc \in Loading => table[p] = {}
  /\ method.pc = "start" => workers[p][method.gen].alive = "none"
  /\ method.pc \in Ending => \E e : table[p] = {e} /\ e.runtime /\ e.gen = method.gen

MethodOK ==
  /\ method \in MethodType
  /\ method.pc = "idle" => method = NoMethod
  /\ method.pc # "idle" => \E p \in Plugin : method.plugin = {p}
  /\ \A p \in Plugin : method.plugin = {p} => MethodSound(p)

UnloadingOK == unloading \subseteq Plugin /\ \A p \in unloading : table[p] # {}

(* WorkerOwned alone is not inductive: that a method may drop the worker it   *)
(* holds follows from what it has been told of its end.                       *)
LoaderInv ==
  WorkersOK /\ TableOK /\ GenerationsOK /\ MethodOK /\ UnloadingOK /\ WorkerOwned

-----------------------------------------------------------------------------
\* What the calls of a runtime make of a worker.
LEMMA TerminatedOK ==
  ASSUME NEW c, WorkerOK(c), NEW d \in Terminated(c)
  PROVE  /\ WorkerOK(d) /\ (d.alive = "up" => c.alive = "up")
         /\ (c.alive = "none" => d.alive = "none")
<1>1. CASE c.alive = "none"
  BY <1>1 DEF Terminated, WorkerOK, Worker
<1>2. CASE c.alive # "none"
  <2>1. PICK a \in {c.alive, "gone"} :
          d = [c EXCEPT !.alive = a, !.usable = FALSE, !.ended = TRUE, !.confirmed = (a = "gone")]
    BY <1>2 DEF Terminated
  <2> QED BY <1>2, <2>1 DEF WorkerOK, Worker
<1> QED BY <1>1, <1>2

LEMMA EndedOK ==
  ASSUME NEW c, WorkerOK(c), NEW d \in Invoked(c) \cup Ended(c) \cup ShutDown(c) \cup {c}
  PROVE  WorkerOK(d) /\ (d.alive = "up" => c.alive = "up") /\ (c.alive = "none" => d.alive = "none")
BY TerminatedOK DEF Invoked, Ended, ShutDown

LEMMA UnbornOK == WorkerOK(Unborn) /\ Unborn.alive = "none"
BY DEF Unborn, WorkerOK, Worker

LEMMA UpOK ==
  LET c == [Unborn EXCEPT !.alive = "up"] IN WorkerOK(c) /\ WorkerOK([c EXCEPT !.usable = TRUE])
<1>1. Unborn \in Worker /\ Unborn.confirmed = FALSE
  BY DEF Unborn, Worker
<1> QED BY <1>1 DEF WorkerOK, Worker

LEMMA StartedOK ==
  ASSUME NEW c \in StartedOk \cup StartedBadly \cup StartCut
  PROVE  WorkerOK(c)
<1>1. [Unborn EXCEPT !.alive = "up", !.usable = TRUE] \in Worker
      /\ [Unborn EXCEPT !.alive = "up", !.usable = TRUE].confirmed = FALSE
  <2>1. Unborn \in Worker /\ Unborn.confirmed = FALSE
    BY DEF Unborn, Worker
  <2> QED BY <2>1 DEF Worker
<1> QED BY <1>1, UnbornOK, UpOK, TerminatedOK DEF StartedOk, StartedBadly, StartCut, WorkerOK

-----------------------------------------------------------------------------
\* What is known of the method in the lock, and of an instance.
LEMMA MethodFacts ==
  ASSUME LoaderInv, NEW p \in Plugin, method.plugin = {p}
  PROVE  /\ MethodSound(p) /\ method.gen \in Gen /\ method \in MethodType /\ method.pc # "idle"
         /\ WorkerOK(This(p)) /\ workers = [workers EXCEPT ![p][method.gen] = This(p)]
         /\ \A g \in Gen : g # method.gen => workers[p][g].alive # "up"
<1>1. MethodSound(p) /\ method \in MethodType /\ method.pc # "idle"
  BY DEF LoaderInv, MethodOK, NoMethod
<1>2. method.gen \in Gen
  BY <1>1, LoaderAssumption DEF MethodSound, MethodType, LoaderInv, GenerationsOK, Gen
<1>3. WorkerOK(This(p)) /\ workers = [workers EXCEPT ![p][method.gen] = This(p)]
  BY <1>2 DEF LoaderInv, WorkersOK, This
<1>4. ASSUME NEW g \in Gen, g # method.gen PROVE workers[p][g].alive # "up"
  BY <1>1, <1>4 DEF LoaderInv, WorkerOwned, MethodSound, MethodType
<1> QED BY <1>1, <1>2, <1>3, <1>4

LEMMA EntryFacts ==
  ASSUME LoaderInv, NEW p \in Plugin, Known(p)
  PROVE  table[p] = {EntryOf(p)} /\ InstanceOK(p, EntryOf(p))
         /\ (EntryOf(p).runtime => EntryOf(p).gen \in Gen)
<1>1. PICK e : table[p] = {e} /\ InstanceOK(p, e)
  BY DEF LoaderInv, TableOK, Known
<1>2. EntryOf(p) = e
  BY <1>1 DEF EntryOf
<1> QED BY <1>1, <1>2 DEF InstanceOK, Instance, Gen

\* A step that changes one worker, which the method holds.
LEMMA HeldWorker ==
  ASSUME LoaderInv, NEW p \in Plugin, method.plugin = {p},
         NEW c, WorkerOK(c), Becomes(p, method.gen, c),
         UNCHANGED <<table, generations, unloading>>,
         method' \in MethodType, method'.plugin = {p}, method'.gen = method.gen,
         \/ method.pc \in Loading /\ method'.pc \in {"load", "drop"}
         \/ method.pc \in Ending /\ method'.pc \in Ending
  PROVE  LoaderInv'
<1>1. MethodSound(p) /\ method.gen \in Gen
  BY MethodFacts
<1>2. /\ workers'[p][method.gen] = c
      /\ \A q \in Plugin, g \in Gen : q # p \/ g # method.gen => workers'[q][g] = workers[q][g]
      /\ WorkersOK'
  BY <1>1 DEF LoaderInv, WorkersOK, WorkerOK, Becomes
<1>3. GenerationsOK'
  BY <1>1, <1>2 DEF LoaderInv, GenerationsOK, MethodSound
<1>4. MethodOK'
  <2>1. MethodSound(p)'
    BY <1>1 DEF MethodSound, Loading, Ending
  <2>2. method'.pc # "idle"
    BY DEF Ending
  <2> QED BY <2>1, <2>2 DEF MethodOK
<1>5. WorkerOwned'
  BY <1>1, <1>2 DEF LoaderInv, WorkerOwned
<1>6. TableOK' /\ UnloadingOK'
  BY DEF LoaderInv, TableOK, UnloadingOK, InstanceOK
<1> QED BY <1>2, <1>3, <1>4, <1>5, <1>6 DEF LoaderInv

\* A method ends: its worker is not up, or the instance it leaves has it.
LEMMA MethodEnds ==
  ASSUME LoaderInv, NEW p \in Plugin, method.plugin = {p}, method' = NoMethod,
         NEW c, WorkerOK(c), Becomes(p, method.gen, c),
         NEW T, table' = [table EXCEPT ![p] = T],
         T = {} \/ \E e : T = {e} /\ InstanceOK(p, e),
         c.alive = "up" => \E e \in T : e.runtime /\ e.gen = method.gen,
         UNCHANGED <<generations, unloading>>
  PROVE  LoaderInv'
<1>1. /\ MethodSound(p) /\ method.gen \in Gen
      /\ \A g \in Gen : g # method.gen => workers[p][g].alive # "up"
  BY MethodFacts
<1>2. /\ workers'[p][method.gen] = c
      /\ \A q \in Plugin, g \in Gen : q # p \/ g # method.gen => workers'[q][g] = workers[q][g]
      /\ WorkersOK'
  BY <1>1 DEF LoaderInv, WorkersOK, WorkerOK, Becomes
<1>3. GenerationsOK'
  BY <1>1, <1>2 DEF LoaderInv, GenerationsOK, MethodSound
<1>4. MethodOK'
  <2>1. NoMethod \in MethodType /\ NoMethod.plugin = {} /\ NoMethod.pc = "idle"
    BY LoaderAssumption DEF NoMethod, MethodType
  <2> QED BY <2>1 DEF MethodOK
<1>5. table'[p] = T /\ \A q \in Plugin : q # p => table'[q] = table[q]
  BY DEF LoaderInv, TableOK
<1>6. TableOK'
  BY <1>5 DEF LoaderInv, TableOK, InstanceOK
<1>7. UnloadingOK'
  BY <1>1, <1>5 DEF LoaderInv, UnloadingOK, MethodSound
<1>8. WorkerOwned'
  <2> SUFFICES ASSUME NEW q \in Plugin, NEW g \in Gen, workers'[q][g].alive = "up"
               PROVE  \E e \in table'[q] : e.runtime /\ e.gen = g
    BY DEF WorkerOwned
  <2>1. CASE q = p
    BY <1>1, <1>2, <1>5, <2>1
  <2>2. CASE q # p
    BY <1>2, <1>5, <2>2 DEF LoaderInv, WorkerOwned
  <2> QED BY <2>1, <2>2
<1> QED BY <1>2, <1>3, <1>4, <1>6, <1>7, <1>8 DEF LoaderInv

\* A worker that nobody calls ends, or is contained.
LEMMA WorkerAlone ==
  ASSUME LoaderInv, NEW p \in Plugin, NEW g \in Gen, NEW c, WorkerOK(c), Becomes(p, g, c),
         c.alive = "up" => workers[p][g].alive = "up",
         workers[p][g].alive = "none" => c.alive = "none",
         UNCHANGED <<table, generations, method, unloading>>
  PROVE  LoaderInv'
<1>2. /\ workers'[p][g] = c
      /\ \A q \in Plugin, f \in Gen : q # p \/ f # g => workers'[q][f] = workers[q][f]
      /\ WorkersOK'
  BY DEF LoaderInv, WorkersOK, WorkerOK, Becomes
<1>3. GenerationsOK' /\ WorkerOwned'
  BY <1>2 DEF LoaderInv, GenerationsOK, WorkerOwned
<1>4. MethodOK'
  <2>1. ASSUME NEW q \in Plugin, method.plugin = {q} PROVE MethodSound(q)'
    BY <1>2, <2>1, MethodFacts DEF MethodSound
  <2> QED BY <2>1 DEF LoaderInv, MethodOK
<1>5. TableOK' /\ UnloadingOK'
  BY DEF LoaderInv, TableOK, UnloadingOK, InstanceOK
<1> QED BY <1>2, <1>3, <1>4, <1>5 DEF LoaderInv
-----------------------------------------------------------------------------
\* A method begins, on a plugin that has no instance or has this one.
LEMMA MethodBegins ==
  ASSUME LoaderInv, method = NoMethod, NEW p \in Plugin, NEW pc \in {"start", "cleanup"}, NEW gen \in Gen,
         method' = [NoMethod EXCEPT !.pc = pc, !.plugin = {p}, !.gen = gen]
  PROVE  /\ method' \in MethodType /\ method'.pc = pc /\ method'.plugin = {p} /\ method'.gen = gen
         /\ \A q \in Plugin : method'.plugin = {q} => q = p
<1>1. NoMethod \in MethodType
  BY LoaderAssumption DEF NoMethod, MethodType
<1>2. {p} \in SUBSET Plugin /\ gen \in 0 .. MaxGen /\ pc \in {"idle"} \cup Loading \cup Ending
  BY LoaderAssumption DEF Loading, Ending, Gen
<1>3. method' \in MethodType /\ method'.pc = pc /\ method'.plugin = {p} /\ method'.gen = gen
  BY <1>1, <1>2 DEF MethodType
<1> QED BY <1>3

LEMMA LoadInv ==
  ASSUME LoaderInv, NEW p \in Plugin, Load(p), unloading = {}
  PROVE  LoaderInv'
<1>1. /\ method = NoMethod /\ table[p] = {} /\ UNCHANGED <<workers, unloading, interrupts>>
      /\ \A q \in Plugin : method.plugin # {q}
  BY DEF Load, Known, NoMethod
<1>2. CASE p \in Foreign
  <2> DEFINE e == [status |-> "error", gen |-> 0, runtime |-> FALSE]
  <2>1. InstanceOK(p, e) /\ ~e.runtime
    BY LoaderAssumption DEF InstanceOK, Instance
  <2> HIDE DEF e
  <2>2. table' = [table EXCEPT ![p] = {e}] /\ UNCHANGED <<generations, method>>
    BY <1>2 DEF Load, e
  <2>3. table'[p] = {e} /\ \A q \in Plugin : q # p => table'[q] = table[q]
    BY <2>2 DEF LoaderInv, TableOK
  <2>4. TableOK'
    BY <2>1, <2>2, <2>3 DEF LoaderInv, TableOK, InstanceOK
  <2>5. MethodOK'
    BY <1>1, <2>2 DEF LoaderInv, MethodOK
  <2>6. WorkerOwned' /\ UnloadingOK'
    BY <1>1, <2>2, <2>3 DEF LoaderInv, WorkerOwned, UnloadingOK
  <2> QED BY <1>1, <2>2, <2>4, <2>5, <2>6 DEF LoaderInv, WorkersOK, GenerationsOK
<1>3. CASE p \notin Foreign
  <2> DEFINE gen == generations[p] + 1
  <2>1. gen \in Gen /\ gen \in 1 .. gen /\ generations[p] \in Nat /\ workers[p][gen].alive = "none"
    BY <1>3, LoaderAssumption DEF Load, LoaderInv, GenerationsOK, Gen
  <2>2. /\ generations' = [generations EXCEPT ![p] = gen] /\ table' = table
        /\ method' = [NoMethod EXCEPT !.pc = "start", !.plugin = {p}, !.gen = gen]
    BY <1>3 DEF Load
  <2> HIDE DEF gen
  <2>3. /\ generations'[p] = gen /\ \A q \in Plugin : q # p => generations'[q] = generations[q]
        /\ generations' \in [Plugin -> 0 .. MaxGen]
    BY <2>1, <2>2, LoaderAssumption DEF LoaderInv, GenerationsOK, Gen
  <2>4. /\ method' \in MethodType /\ method'.pc = "start" /\ method'.plugin = {p} /\ method'.gen = gen
        /\ \A q \in Plugin : method'.plugin = {q} => q = p
    BY <1>1, <2>1, <2>2, MethodBegins
  <2>5. MethodOK'
    BY <1>1, <2>1, <2>2, <2>3, <2>4 DEF MethodOK, MethodSound, Loading, Ending
  <2>6. GenerationsOK'
    <3> SUFFICES ASSUME NEW q \in Plugin, NEW g \in Gen, g > generations'[q]
                 PROVE  workers'[q][g].alive = "none"
      BY <2>3 DEF GenerationsOK
    <3>1. g > generations[q]
      <4>1. CASE q = p
        BY <2>1, <2>3, <4>1 DEF gen, Gen
      <4>2. CASE q # p
        BY <2>3, <4>2
      <4> QED BY <4>1, <4>2
    <3> QED BY <1>1, <3>1 DEF LoaderInv, GenerationsOK
  <2>7. TableOK' /\ UnloadingOK'
    BY <1>1, <2>1, <2>2, <2>3 DEF LoaderInv, TableOK, UnloadingOK, InstanceOK
  <2>8. WorkerOwned' /\ WorkersOK'
    BY <1>1, <2>2 DEF LoaderInv, WorkerOwned, WorkersOK
  <2> QED BY <2>5, <2>6, <2>7, <2>8 DEF LoaderInv
<1> QED BY <1>2, <1>3

\* An unload begins with the worker of an instance that has one.
LEMMA UnloadBegins ==
  ASSUME LoaderInv, NEW p \in Plugin, method = NoMethod, Known(p), EntryOf(p).runtime,
         method' = Unloading(p), p \notin unloading', unloading' \subseteq unloading,
         UNCHANGED <<table, generations, workers>>
  PROVE  LoaderInv'
<1> DEFINE e == EntryOf(p)
<1>1. table[p] = {e} /\ InstanceOK(p, e) /\ e.gen \in Gen /\ e.runtime
  BY EntryFacts
<1>2. method' = [NoMethod EXCEPT !.pc = "cleanup", !.plugin = {p}, !.gen = e.gen]
  BY DEF Unloading
<1> HIDE DEF e
<1>3. /\ method' \in MethodType /\ method'.pc = "cleanup" /\ method'.plugin = {p} /\ method'.gen = e.gen
      /\ \A q \in Plugin : method'.plugin = {q} => q = p
  BY <1>1, <1>2, MethodBegins
<1>4. MethodOK'
  BY <1>1, <1>3 DEF MethodOK, MethodSound, InstanceOK, Loading, Ending
<1>5. WorkerOwned'
  BY DEF LoaderInv, WorkerOwned, NoMethod
<1> QED BY <1>4, <1>5 DEF LoaderInv, WorkersOK, TableOK, InstanceOK, GenerationsOK, UnloadingOK

\* An instance without a worker of its own goes at once.
LEMMA Forgotten ==
  ASSUME LoaderInv, NEW p \in Plugin, method = NoMethod, Known(p), ~EntryOf(p).runtime,
         table' = [table EXCEPT ![p] = {}], p \notin unloading', unloading' \subseteq unloading,
         UNCHANGED <<method, generations, workers>>
  PROVE  LoaderInv'
<1>1. table[p] = {EntryOf(p)}
  BY EntryFacts
<1>2. table'[p] = {} /\ (\A q \in Plugin : q # p => table'[q] = table[q]) /\ table' \in [Plugin -> SUBSET Instance]
  BY DEF LoaderInv, TableOK
<1>3. MethodOK'
  BY DEF LoaderInv, MethodOK, NoMethod
<1>4. WorkerOwned'
  BY <1>1, <1>2 DEF LoaderInv, WorkerOwned, NoMethod
<1>5. TableOK' /\ UnloadingOK'
  BY <1>2 DEF LoaderInv, TableOK, UnloadingOK, InstanceOK
<1> QED BY <1>3, <1>4, <1>5 DEF LoaderInv, WorkersOK, GenerationsOK

\* No worker starts.
OnlyEnd ==
  \A q \in Plugin, g \in Gen :
    /\ workers'[q][g].alive = "up" => workers[q][g].alive = "up"
    /\ workers[q][g].alive = "none" => workers'[q][g].alive = "none"

\* enable and disable change the status of the instance, and perhaps its worker.
LEMMA SwitchInv ==
  ASSUME LoaderInv, NEW p \in Plugin, NEW from, NEW to \in {"enabled", "disabled"}, Switch(p, from, to)
  PROVE  LoaderInv'
<1> DEFINE e == EntryOf(p)
<1>1. /\ table[p] = {e} /\ InstanceOK(p, e) /\ (e.runtime => e.gen \in Gen)
      /\ method = NoMethod /\ UNCHANGED <<generations, method, unloading, interrupts>>
  BY EntryFacts DEF Switch
<1>2. PICK status \in {"error", to} : Set(p, status)
  BY DEF Switch
<1>3. \/ UNCHANGED workers
      \/ e.runtime /\ \E c \in Invoked(workers[p][e.gen]) \cup Ended(workers[p][e.gen]) : Becomes(p, e.gen, c)
  BY DEF Switch
<1> DEFINE d == [e EXCEPT !.status = status]
<1>4. table' = [table EXCEPT ![p] = {d}]
  BY <1>2 DEF Set
<1> HIDE DEF e
<1>5. InstanceOK(p, d) /\ d.runtime = e.runtime /\ d.gen = e.gen
  BY <1>1 DEF InstanceOK, Instance
<1> HIDE DEF d
<1>6. table'[p] = {d} /\ (\A q \in Plugin : q # p => table'[q] = table[q]) /\ table' \in [Plugin -> SUBSET Instance]
  BY <1>4, <1>5 DEF LoaderInv, TableOK, InstanceOK
<1>7. WorkersOK' /\ OnlyEnd
  <2>1. CASE UNCHANGED workers
    BY <2>1 DEF LoaderInv, WorkersOK, OnlyEnd
  <2>2. ASSUME e.runtime,
               NEW c \in Invoked(workers[p][e.gen]) \cup Ended(workers[p][e.gen]), Becomes(p, e.gen, c)
        PROVE  WorkersOK' /\ OnlyEnd
    <3>1. e.gen \in Gen /\ WorkerOK(workers[p][e.gen])
      BY <1>1, <2>2 DEF LoaderInv, WorkersOK
    <3>2. /\ WorkerOK(c) /\ (c.alive = "up" => workers[p][e.gen].alive = "up")
          /\ (workers[p][e.gen].alive = "none" => c.alive = "none")
      BY <2>2, <3>1, EndedOK
    <3> QED BY <2>2, <3>1, <3>2 DEF LoaderInv, WorkersOK, WorkerOK, Becomes, OnlyEnd
  <2> QED BY <1>3, <2>1, <2>2
<1>8. TableOK' /\ UnloadingOK'
  BY <1>1, <1>5, <1>6 DEF LoaderInv, TableOK, UnloadingOK, InstanceOK
<1>9. MethodOK' /\ GenerationsOK'
  BY <1>1, <1>7 DEF LoaderInv, MethodOK, GenerationsOK, NoMethod, OnlyEnd
<1>10. WorkerOwned'
  <2> SUFFICES ASSUME NEW q \in Plugin, NEW g \in Gen, workers'[q][g].alive = "up"
               PROVE  \E f \in table'[q] : f.runtime /\ f.gen = g
    BY DEF WorkerOwned
  <2>1. PICK f \in table[q] : f.runtime /\ f.gen = g
    BY <1>1, <1>7 DEF LoaderInv, WorkerOwned, NoMethod, OnlyEnd
  <2> QED BY <1>1, <1>5, <1>6, <2>1
<1> QED BY <1>7, <1>8, <1>9, <1>10 DEF LoaderInv
\* The steps of a load.
LEMMA LoadStepInv ==
  ASSUME LoaderInv, NEW p \in Plugin, LoadStep(p)
  PROVE  LoaderInv'
<1>0. method.plugin = {p} /\ UNCHANGED <<generations, unloading>>
  BY DEF LoadStep, LoadStart, LoadUnmade, LoadInvoke, LoadCut, LoadDrop
<1>f. /\ MethodSound(p) /\ method.gen \in Gen /\ method \in MethodType
      /\ WorkerOK(This(p)) /\ workers = [workers EXCEPT ![p][method.gen] = This(p)]
  BY <1>0, MethodFacts
<1>m. ASSUME NEW pc \in {"load", "drop"}
      PROVE  LET m == [method EXCEPT !.pc = pc] IN
               m \in MethodType /\ m.pc = pc /\ m.plugin = method.plugin /\ m.gen = method.gen
  BY <1>f DEF MethodType, Loading
<1>i. ASSUME NEW status \in {"error", "loaded"}, NEW runtime \in BOOLEAN, Instanced(p, status, runtime)
      PROVE  \E e : table' = [table EXCEPT ![p] = {e}] /\ InstanceOK(p, e)
                   /\ e.runtime = runtime /\ e.gen = method.gen
  <2> DEFINE e == [status |-> status, gen |-> method.gen, runtime |-> runtime]
  <2>1. InstanceOK(p, e) /\ e.runtime = runtime /\ e.gen = method.gen
    BY <1>f DEF InstanceOK, Instance, MethodType, MethodSound
  <2> QED BY <1>i, <2>1 DEF Instanced
<1>1. CASE LoadStart(p)
  <2>1. PICK c \in StartedOk \cup StartedBadly : Becomes(p, method.gen, c)
    BY <1>1 DEF LoadStart
  <2>2. PICK pc \in {"load", "drop"} : method' = [method EXCEPT !.pc = pc]
    BY <1>1 DEF LoadStart
  <2>3. WorkerOK(c) /\ method.pc \in Loading /\ UNCHANGED table
    BY <1>1, StartedOK DEF LoadStart, Loading
  <2> QED BY <1>0, <1>m, <2>1, <2>2, <2>3, HeldWorker
<1>2. CASE LoadUnmade(p)
  <2>1. method' = NoMethod /\ UNCHANGED workers /\ This(p).alive = "none"
    BY <1>2, <1>f DEF LoadUnmade, MethodSound, This
  <2>2. Becomes(p, method.gen, This(p))
    BY <1>f, <2>1 DEF Becomes
  <2>3. CASE Instanced(p, "error", FALSE)
    <3>1. PICK e : table' = [table EXCEPT ![p] = {e}] /\ InstanceOK(p, e)
      BY <1>i, <2>3
    <3> QED BY <1>0, <1>f, <2>1, <2>2, <3>1, MethodEnds
  <2>4. CASE UNCHANGED table
    <3>1. table' = [table EXCEPT ![p] = {}]
      BY <1>2, <1>f, <2>4 DEF LoadUnmade, MethodSound, Loading, LoaderInv, TableOK
    <3> QED BY <1>0, <1>f, <2>1, <2>2, <3>1, MethodEnds
  <2> QED BY <1>2, <2>3, <2>4 DEF LoadUnmade
<1>3. CASE LoadInvoke(p)
  <2>1. CASE UNCHANGED workers /\ Instanced(p, "loaded", TRUE) /\ method' = NoMethod
    <3>1. PICK e : table' = [table EXCEPT ![p] = {e}] /\ InstanceOK(p, e) /\ e.runtime /\ e.gen = method.gen
      BY <1>i, <2>1
    <3>2. Becomes(p, method.gen, This(p))
      BY <1>f, <2>1 DEF Becomes
    <3> QED BY <1>0, <1>f, <2>1, <3>1, <3>2, MethodEnds
  <2>2. ASSUME NEW c \in Invoked(This(p)) \cup Ended(This(p)), Becomes(p, method.gen, c),
               method' = [method EXCEPT !.pc = "drop"], UNCHANGED table
        PROVE  LoaderInv'
    <3>1. WorkerOK(c) /\ method.pc \in Loading
      BY <1>3, <1>f, <2>2, EndedOK DEF LoadInvoke, Loading
    <3> QED BY <1>0, <1>m, <2>2, <3>1, HeldWorker
  <2> QED BY <1>3, <2>1, <2>2 DEF LoadInvoke
<1>4. CASE LoadCut(p)
  <2>1. PICK c \in StartCut \cup {This(p)} : Becomes(p, method.gen, c)
    BY <1>4 DEF LoadCut
  <2>2. WorkerOK(c) /\ method.pc \in Loading /\ UNCHANGED table
    BY <1>4, <1>f, StartedOK DEF LoadCut, Loading
  <2>3. method' \in MethodType /\ method'.pc = "drop" /\ method'.plugin = {p} /\ method'.gen = method.gen
    BY <1>0, <1>4, <1>f DEF LoadCut, MethodType, Loading
  <2> QED BY <1>0, <2>1, <2>2, <2>3, HeldWorker
<1>5. CASE LoadDrop(p)
  <2>1. PICK c \in Terminated(This(p)) \cup {This(p)} :
          /\ Becomes(p, method.gen, c)
          /\ IF method.cut /\ TerminationConfirmed(c) THEN UNCHANGED table
             ELSE Instanced(p, "error", ~TerminationConfirmed(c))
    BY <1>5 DEF LoadDrop
  <2>2. WorkerOK(c) /\ method' = NoMethod
    BY <1>5, <1>f, <2>1, TerminatedOK DEF LoadDrop
  <2>3. TerminationConfirmed(c) \in BOOLEAN /\ (TerminationConfirmed(c) => c.alive # "up")
    BY <2>2 DEF TerminationConfirmed, WorkerOK, Worker
  <2>4. CASE method.cut /\ TerminationConfirmed(c)
    <3>1. table' = [table EXCEPT ![p] = {}]
      BY <1>5, <1>f, <2>1, <2>4 DEF LoadDrop, MethodSound, Loading, LoaderInv, TableOK
    <3> QED BY <1>0, <2>1, <2>2, <2>3, <2>4, <3>1, MethodEnds
  <2>5. CASE ~(method.cut /\ TerminationConfirmed(c))
    <3>1. PICK e : /\ table' = [table EXCEPT ![p] = {e}] /\ InstanceOK(p, e)
                   /\ e.runtime = ~TerminationConfirmed(c) /\ e.gen = method.gen
      BY <1>i, <2>1, <2>3, <2>5
    <3> QED BY <1>0, <2>1, <2>2, <2>3, <3>1, MethodEnds
  <2> QED BY <2>4, <2>5
<1> QED BY <1>1, <1>2, <1>3, <1>4, <1>5 DEF LoadStep

\* The steps of an unload.
LEMMA UnloadStepInv ==
  ASSUME LoaderInv, NEW p \in Plugin, UnloadStep(p)
  PROVE  LoaderInv'
<1>0. method.plugin = {p} /\ method.pc \in Ending /\ UNCHANGED <<generations, unloading>>
  BY DEF UnloadStep, UnloadCleanup, UnloadShutdown, UnloadClose, Ending
<1>f. /\ MethodSound(p) /\ method.gen \in Gen /\ method \in MethodType
      /\ WorkerOK(This(p)) /\ workers = [workers EXCEPT ![p][method.gen] = This(p)]
  BY <1>0, MethodFacts
<1>1. CASE UnloadCleanup(p) \/ UnloadShutdown(p)
  <2>1. PICK c \in ShutDown(This(p)) \cup Invoked(This(p)) \cup Ended(This(p)) \cup {This(p)} :
          Becomes(p, method.gen, c)
    BY <1>1, <1>f DEF UnloadCleanup, UnloadShutdown, Becomes
  <2>2. PICK pc \in {"shutdown", "close"} : method' = [method EXCEPT !.pc = pc]
    BY <1>1 DEF UnloadCleanup, UnloadShutdown
  <2>3. /\ method' \in MethodType /\ method'.pc \in Ending /\ method'.plugin = {p}
        /\ method'.gen = method.gen
    BY <1>0, <1>f, <2>2 DEF MethodType, Ending
  <2>4. WorkerOK(c) /\ UNCHANGED table
    BY <1>1, <1>f, <2>1, EndedOK DEF UnloadCleanup, UnloadShutdown
  <2> QED BY <1>0, <2>1, <2>3, <2>4, HeldWorker
<1>2. CASE UnloadClose(p)
  <2>1. PICK c \in Terminated(This(p)) \cup {This(p)} :
          /\ Becomes(p, method.gen, c)
          /\ IF TerminationConfirmed(c) THEN table' = [table EXCEPT ![p] = {}] ELSE Set(p, "error")
    BY <1>2 DEF UnloadClose
  <2>2. WorkerOK(c) /\ method' = NoMethod
    BY <1>2, <1>f, <2>1, TerminatedOK DEF UnloadClose
  <2>3. CASE TerminationConfirmed(c)
    BY <1>0, <2>1, <2>2, <2>3, MethodEnds DEF TerminationConfirmed, WorkerOK
  <2>4. CASE ~TerminationConfirmed(c)
    <3> DEFINE e == [EntryOf(p) EXCEPT !.status = "error"]
    <3>1. Known(p) /\ EntryOf(p).runtime /\ EntryOf(p).gen = method.gen
      BY <1>0, <1>f DEF MethodSound, Known, EntryOf
    <3>2. InstanceOK(p, EntryOf(p))
      BY <3>1, EntryFacts
    <3>3. InstanceOK(p, e) /\ e.runtime /\ e.gen = method.gen
      BY <3>1, <3>2 DEF InstanceOK, Instance
    <3>4. table' = [table EXCEPT ![p] = {e}]
      BY <2>1, <2>4 DEF Set
    <3> HIDE DEF e
    <3> QED BY <1>0, <2>1, <2>2, <3>3, <3>4, MethodEnds
  <2> QED BY <2>3, <2>4
<1> QED BY <1>1, <1>2 DEF UnloadStep

LEMMA LoaderInitInv == LoaderInit => LoaderInv
<1> SUFFICES ASSUME LoaderInit PROVE LoaderInv
  OBVIOUS
<1>1. NoMethod \in MethodType /\ NoMethod.plugin = {} /\ NoMethod.pc = "idle"
  BY LoaderAssumption DEF NoMethod, MethodType
<1>2. MethodOK
  BY <1>1 DEF LoaderInit, MethodOK
<1>3. WorkersOK /\ WorkerOwned
  BY UnbornOK DEF LoaderInit, WorkersOK, WorkerOK, WorkerOwned
<1>4. GenerationsOK /\ TableOK /\ UnloadingOK
  BY UnbornOK, LoaderAssumption DEF LoaderInit, GenerationsOK, TableOK, UnloadingOK
<1> QED BY <1>2, <1>3, <1>4 DEF LoaderInv

LEMMA LoaderNextInv == LoaderInv /\ [LoaderNext]_loaderVars => LoaderInv'
<1> SUFFICES ASSUME LoaderInv, [LoaderNext]_loaderVars PROVE LoaderInv'
  OBVIOUS
<1>1. ASSUME UNCHANGED <<table, generations, workers, method>>,
             unloading' = unloading \/ (unloading' = {q \in Plugin : Known(q)} /\ method = NoMethod)
      PROVE  LoaderInv'
  <2>1. MethodOK'
    BY <1>1 DEF LoaderInv, MethodOK, MethodSound, NoMethod
  <2>2. UnloadingOK'
    BY <1>1 DEF LoaderInv, UnloadingOK, Known
  <2> QED BY <1>1, <2>1, <2>2
          DEF LoaderInv, WorkersOK, TableOK, InstanceOK, GenerationsOK, WorkerOwned
<1>2. CASE UNCHANGED loaderVars
  BY <1>1, <1>2 DEF loaderVars
<1>3. CASE CloseAll
  BY <1>1, <1>3 DEF CloseAll
<1>4. ASSUME NEW p \in Plugin, unloading = {}, Enable(p) \/ Disable(p) PROVE LoaderInv'
  BY <1>4, SwitchInv DEF Enable, Disable
<1>5. ASSUME NEW p \in Plugin, unloading = {}, Unload(p) PROVE LoaderInv'
  BY <1>5, UnloadBegins, Forgotten DEF Unload
<1>6. ASSUME NEW p \in Plugin, CloseOne(p) PROVE LoaderInv'
  <2>1. Known(p) /\ p \notin unloading' /\ unloading' \subseteq unloading
    BY <1>6 DEF CloseOne, LoaderInv, UnloadingOK, Known
  <2> QED BY <1>6, <2>1, UnloadBegins, Forgotten DEF CloseOne
<1>7. ASSUME NEW p \in Plugin, NEW g \in Gen, GenerationDies(p, g) PROVE LoaderInv'
  <2> DEFINE c == [workers[p][g] EXCEPT !.alive = "gone"]
  <2>1. WorkerOK(c) /\ c.alive = "gone"
    BY DEF LoaderInv, WorkersOK, WorkerOK, Worker
  <2>2. Becomes(p, g, c) /\ workers[p][g].alive = "up" /\ UNCHANGED <<table, generations, method, unloading>>
    BY <1>7 DEF GenerationDies
  <2> HIDE DEF c
  <2> QED BY <2>1, <2>2, WorkerAlone
<1>8. ASSUME NEW p \in Plugin, NEW g \in Gen, WorkerContained(p, g) PROVE LoaderInv'
  <2>1. PICK c \in Terminated(workers[p][g]) : Becomes(p, g, c)
    BY <1>8 DEF WorkerContained
  <2>2. WorkerOK(workers[p][g])
    BY DEF LoaderInv, WorkersOK
  <2> QED BY <1>8, <2>1, <2>2, TerminatedOK, WorkerAlone DEF WorkerContained
<1> QED BY <1>2, <1>3, <1>4, <1>5, <1>6, <1>7, <1>8, LoadInv, LoadStepInv, UnloadStepInv DEF LoaderNext

(* Every live worker belongs to the instance of its plugin, or to the method *)
(* that is about to settle it, however loads and unloads are interrupted:    *)
(* no worker process is forgotten, and none is replaced while it lives.      *)
THEOREM WorkersAreOwned == LoaderSpec => []WorkerOwned
<1>1. LoaderInv => WorkerOwned
  BY DEF LoaderInv
<1> QED BY LoaderInitInv, LoaderNextInv, <1>1, PTL DEF LoaderSpec

-----------------------------------------------------------------------------
(* The broker of one plugin call.                                           *)
Pc == {"none", "authorize", "begin", "open", "take", "verify", "again", "hop", "body", "settle"}

Session == [state: {"open", "committed", "aborted"}, active: BOOLEAN, ids: SUBSET Nat,
            calls: Nat, bytes: Nat, staged: Nat]
Answered == [ids: SUBSET Nat, events: Nat, spent: Nat]
Handling == [pc: Pc, call: Nat, cap: BrokerCapability \cup {"none"}, cost: Nat, got: Nat,
             hops: Nat, changes: Nat, there: PathEntry, seen: PathEntry, opened: PathEntry,
             last: PathEntry]

BrokerTypeOK ==
  /\ broker \in Session
  /\ handling \in Handling
  /\ answered \in Answered
  /\ noted \in Nat

\* Every call is counted, and is answered at most once.
CallsCounted ==
  /\ IsFiniteSet(broker.ids) /\ Cardinality(broker.ids) = broker.calls
  /\ broker.calls <= CallBudget
  /\ answered.ids \subseteq broker.ids

\* The call that is handled is the session's, not answered, and authorized.
Underway ==
  handling.pc # "none" =>
    /\ broker.state = "open"
    /\ handling.call \in broker.ids \ answered.ids
    /\ handling.cap \in BrokerCapability
    /\ handling.pc # "authorize" => rights[handling.cap] = "full"
    /\ handling.hops <= MaxRedirects + 1

\* How much of a file and of its path file.read has looked at by now.
FileLookedAt(x) ==
  x.cap = "file.read" =>
    /\ x.pc \in {"open", "take", "verify", "again", "settle"} => x.seen.kind = "file"
    /\ x.pc \in {"take", "verify", "again", "settle"} => SameEntry(x.opened, x.seen)
    /\ x.pc \in {"verify", "again", "settle"} => x.got <= HoldLimit
    /\ x.pc \in {"again", "settle"} => x.got = x.opened.holds
    /\ x.pc = "settle" => SameEntry(x.last, x.opened)

\* What was answered, and the request that is handled, were charged.
Charged ==
  /\ answered.spent + (IF handling.pc = "none" THEN 0 ELSE handling.cost) <= broker.bytes
  /\ broker.bytes <= ByteBudget

EventsKept ==
  /\ broker.staged = IF broker.state = "open" THEN answered.events ELSE 0
  /\ noted = IF broker.state = "committed" THEN answered.events ELSE 0

BrokerInv ==
  BrokerTypeOK /\ CallsCounted /\ Underway /\ FileLookedAt(handling) /\ Charged /\ EventsKept

-----------------------------------------------------------------------------
LEMMA PathEntryHolds ==
  ASSUME NEW e \in PathEntry
  PROVE  e.holds \in Nat
BY BrokerAssumption DEF PathEntry

LEMMA NowhereOK == Nowhere \in PathEntry /\ Unasked \in Handling
BY BrokerAssumption DEF Handling, Nowhere, PathEntry, Unasked, Pc

LEMMA BrokerInvInit == BrokerInit => BrokerInv
<1> SUFFICES ASSUME BrokerInit PROVE BrokerInv
  OBVIOUS
<1>1. BrokerTypeOK
  BY NowhereOK DEF BrokerInit, BrokerTypeOK, Session, Answered
<1>2. CallsCounted
  BY FS_EmptySet, BrokerAssumption DEF BrokerInit, CallsCounted
<1>3. Underway /\ FileLookedAt(handling) /\ Charged /\ EventsKept
  BY BrokerAssumption DEF BrokerInit, Underway, FileLookedAt, Charged, EventsKept, Unasked
<1> QED
  BY <1>1, <1>2, <1>3 DEF BrokerInv

\* A call that is denied leaves what was answered and charged as it was.
LEMMA DenyKeepsInv ==
  ASSUME BrokerInv, Deny, UNCHANGED <<rights, broker, answered, noted>>
  PROVE  BrokerInv'
<1>1. BrokerTypeOK'
  BY NowhereOK DEF BrokerInv, BrokerTypeOK, Session, Handling, Deny
<1>2. CallsCounted' /\ EventsKept'
  BY DEF BrokerInv, CallsCounted, EventsKept
<1>3. Underway' /\ FileLookedAt(handling)' /\ Charged'
  BY DEF BrokerInv, BrokerTypeOK, Session, Answered, Handling, Underway, FileLookedAt, Charged, Deny, Unasked
<1> QED
  BY <1>1, <1>2, <1>3 DEF BrokerInv

\* A step of a handler from y to z goes on with the same call.
Further(y, z) ==
  /\ z.pc \in Pc \ {"none", "authorize"}
  /\ z.call = y.call /\ z.cap = y.cap /\ z.cost = y.cost
  /\ z.hops <= MaxRedirects + 1
  /\ FileLookedAt(z)

LEMMA HandlerKeepsInv ==
  ASSUME BrokerInv, Handler, handling.pc # "none", BrokerTypeOK',
         handling.pc = "authorize" => rights[handling.cap] = "full",
         Further(handling, handling')
  PROVE  BrokerInv'
<1>1. CallsCounted' /\ EventsKept'
  BY DEF BrokerInv, CallsCounted, EventsKept, Handler
<1>2. Underway'
  BY DEF BrokerInv, Underway, Further, Handler
<1>3. FileLookedAt(handling)' /\ Charged'
  BY DEF BrokerInv, Charged, Further, Handler
<1> QED
  BY <1>1, <1>2, <1>3 DEF BrokerInv

-----------------------------------------------------------------------------
LEMMA HandleRequestKeepsInv ==
  ASSUME BrokerInv, NEW c \in CallId, NEW cap \in BrokerCapability, NEW cost \in 1 .. 2,
         HandleRequest(c, cap, cost)
  PROVE  BrokerInv'
<1>1. CASE ~Acceptable(c)
  BY <1>1, DenyKeepsInv DEF HandleRequest
<1>2. CASE Acceptable(c)
  <2> DEFINE ids == broker.ids \cup {c}
             calls == broker.calls + 1
             bytes == IF Affordable(cost) THEN broker.bytes + cost ELSE broker.bytes
  <2>1. c \in Nat /\ c \notin broker.ids /\ calls <= CallBudget
    BY <1>2, FS_CardinalityType, BrokerAssumption
    DEF CallId, Acceptable, BrokerInv, CallsCounted, BrokerTypeOK, Session
  <2>2. /\ broker' = [broker EXCEPT !.ids = ids, !.calls = calls, !.bytes = bytes]
        /\ handling.pc = "none" /\ broker.state = "open"
        /\ UNCHANGED <<rights, answered, noted>>
    BY <1>2 DEF HandleRequest
  <2>3. \/ handling' = Unasked
        \/ /\ Affordable(cost)
           /\ handling' = [Unasked EXCEPT !.pc = "authorize", !.call = c, !.cap = cap, !.cost = cost]
    BY <1>2 DEF HandleRequest, Deny
  <2>4. calls \in Nat /\ bytes \in Nat /\ ids \in SUBSET Nat
    BY <2>1 DEF BrokerInv, BrokerTypeOK, Session
  <2>5. IsFiniteSet(ids) /\ Cardinality(ids) = calls
    <3>1. IsFiniteSet(broker.ids) /\ Cardinality(broker.ids) = broker.calls
      BY DEF BrokerInv, CallsCounted
    <3> QED
      BY <2>1, <3>1, FS_AddElement, Zenon
  <2>6. /\ bytes <= ByteBudget /\ bytes >= broker.bytes
        /\ Affordable(cost) => bytes = broker.bytes + cost
    BY BrokerAssumption DEF BrokerInv, BrokerTypeOK, Session, Affordable, Charged
  <2>7. c \in ids /\ broker.ids \subseteq ids
    OBVIOUS
  <2> HIDE DEF ids, calls, bytes
  <2>8. broker' \in Session
    BY <2>2, <2>4 DEF BrokerInv, BrokerTypeOK, Session
  <2>9. /\ broker'.ids = ids /\ broker'.calls = calls /\ broker'.bytes = bytes
        /\ broker'.state = "open" /\ broker'.staged = broker.staged
    BY <2>2 DEF BrokerInv, BrokerTypeOK, Session
  <2>10. CASE handling' = Unasked
    <3>1. BrokerTypeOK' /\ CallsCounted' /\ Underway' /\ FileLookedAt(handling)' /\ EventsKept'
      BY <2>1, <2>2, <2>5, <2>7, <2>8, <2>9, <2>10, NowhereOK
      DEF BrokerInv, BrokerTypeOK, CallsCounted, Underway, FileLookedAt, EventsKept, Unasked
    <3>2. Charged'
      BY <2>2, <2>4, <2>6, <2>9, <2>10, BrokerAssumption
      DEF BrokerInv, BrokerTypeOK, Session, Answered, Charged, Unasked
    <3> QED
      BY <3>1, <3>2 DEF BrokerInv
  <2>11. CASE handling' = [Unasked EXCEPT !.pc = "authorize", !.call = c, !.cap = cap, !.cost = cost]
                /\ Affordable(cost)
    <3>1. handling' \in Handling
      <4>1. handling' = [pc |-> "authorize", call |-> c, cap |-> cap, cost |-> cost, got |-> 0,
                         hops |-> 0, changes |-> 0, there |-> Nowhere, seen |-> Nowhere,
                         opened |-> Nowhere, last |-> Nowhere]
        BY <2>11 DEF Unasked
      <4> QED
        BY <4>1, <2>1, NowhereOK DEF Handling, Pc
    <3>2. /\ handling'.pc = "authorize" /\ handling'.call = c /\ handling'.cap = cap
          /\ handling'.cost = cost /\ handling'.hops = 0
      BY <2>11 DEF Unasked
    <3>3. BrokerTypeOK' /\ CallsCounted' /\ FileLookedAt(handling)' /\ EventsKept'
      BY <2>1, <2>2, <2>5, <2>7, <2>8, <2>9, <3>1, <3>2
      DEF BrokerInv, BrokerTypeOK, CallsCounted, FileLookedAt, EventsKept
    <3>4. Underway'
      BY <2>1, <2>2, <2>7, <2>9, <3>2, BrokerAssumption DEF BrokerInv, CallsCounted, Underway
    <3>5. Charged'
      BY <2>2, <2>4, <2>6, <2>9, <2>11, <3>2, BrokerAssumption
      DEF BrokerInv, BrokerTypeOK, Session, Answered, Charged
    <3> QED
      BY <3>3, <3>4, <3>5 DEF BrokerInv
  <2> QED
    BY <2>3, <2>10, <2>11
<1> QED
  BY <1>1, <1>2

LEMMA SettleKeepsInv ==
  ASSUME BrokerInv, Settle
  PROVE  BrokerInv'
<1>1. CASE ~Affordable(handling.got)
  BY <1>1, DenyKeepsInv DEF Settle
<1>2. CASE Affordable(handling.got)
  <2> DEFINE bytes == broker.bytes + handling.got
             emitted == IF handling.cap = "event.emit" THEN 1 ELSE 0
             staged == IF handling.cap = "event.emit" THEN broker.staged + 1 ELSE broker.staged
             spent == answered.spent + handling.cost + handling.got
             events == answered.events + emitted
  <2>1. /\ broker' = [broker EXCEPT !.bytes = bytes, !.staged = staged]
        /\ answered' = [ids |-> answered.ids \cup {handling.call}, events |-> events,
                        spent |-> spent]
        /\ handling' = Unasked /\ handling.pc = "settle" /\ UNCHANGED <<rights, noted>>
    BY <1>2, Zenon DEF Settle
  <2>2. /\ bytes \in Nat /\ staged \in Nat /\ spent \in Nat /\ events \in Nat
        /\ spent <= bytes /\ bytes <= ByteBudget
        /\ staged = broker.staged + emitted /\ events = answered.events + emitted
    BY <1>2, <2>1, BrokerAssumption
    DEF BrokerInv, BrokerTypeOK, Session, Handling, Answered, Charged, Affordable
  <2>3. broker.state = "open" /\ handling.call \in broker.ids /\ staged = events
    BY <2>1, <2>2 DEF BrokerInv, Underway, EventsKept
  <2> HIDE DEF bytes, emitted, staged, spent, events
  <2>4. broker' \in Session /\ answered' \in Answered
    BY <2>1, <2>2, <2>3 DEF BrokerInv, BrokerTypeOK, Session, Answered
  <2>5. /\ broker'.ids = broker.ids /\ broker'.calls = broker.calls /\ broker'.bytes = bytes
        /\ broker'.state = "open" /\ broker'.staged = staged
    BY <2>1, <2>3 DEF BrokerInv, BrokerTypeOK, Session
  <2>6. BrokerTypeOK' /\ CallsCounted' /\ Underway' /\ FileLookedAt(handling)'
    BY <2>1, <2>3, <2>4, <2>5, NowhereOK
    DEF BrokerInv, BrokerTypeOK, CallsCounted, Underway, FileLookedAt, Unasked
  <2>7. Charged'
    BY <2>1, <2>2, <2>5 DEF Charged, Unasked
  <2>8. EventsKept'
    BY <2>1, <2>3, <2>5 DEF BrokerInv, EventsKept
  <2> QED
    BY <2>6, <2>7, <2>8 DEF BrokerInv
<1> QED
  BY <1>1, <1>2

\* The session ends, or is no longer that of the active generation.
LEMMA SessionKeepsInv ==
  ASSUME BrokerInv, CommitEvents \/ AbortSession \/ NewerGeneration
  PROVE  BrokerInv'
<1>1. UNCHANGED <<rights, handling, answered>>
  BY DEF CommitEvents, AbortSession, NewerGeneration
<1>2. CASE UNCHANGED <<broker, noted>>
  BY <1>1, <1>2 DEF BrokerInv, BrokerTypeOK, CallsCounted, Underway, FileLookedAt, Charged, EventsKept
<1>3. ASSUME NEW s \in {"committed", "aborted"}, handling.pc = "none", broker.state = "open",
             broker' = [broker EXCEPT !.state = s, !.staged = 0],
             noted' = IF s = "committed" THEN noted + broker.staged ELSE noted
      PROVE  BrokerInv'
  <2>1. broker' \in Session
    BY <1>3 DEF BrokerInv, BrokerTypeOK, Session
  <2>2. /\ broker'.ids = broker.ids /\ broker'.calls = broker.calls /\ broker'.bytes = broker.bytes
        /\ broker'.state = s /\ broker'.staged = 0
    BY <1>3 DEF BrokerInv, BrokerTypeOK, Session
  <2>3. noted' \in Nat /\ noted' = IF s = "committed" THEN answered.events ELSE 0
    BY <1>3 DEF BrokerInv, BrokerTypeOK, Answered, EventsKept
  <2> QED
    BY <1>1, <1>3, <2>1, <2>2, <2>3
    DEF BrokerInv, BrokerTypeOK, CallsCounted, Underway, FileLookedAt, Charged, EventsKept
<1>4. CASE broker' = [broker EXCEPT !.active = FALSE] /\ noted' = noted
  <2>1. broker' \in Session
    BY <1>4, Zenon DEF BrokerInv, BrokerTypeOK, Session
  <2>2. /\ broker'.ids = broker.ids /\ broker'.calls = broker.calls /\ broker'.bytes = broker.bytes
        /\ broker'.state = broker.state /\ broker'.staged = broker.staged
    BY <1>4 DEF BrokerInv, BrokerTypeOK, Session
  <2> QED
    BY <1>1, <1>4, <2>1, <2>2
    DEF BrokerInv, BrokerTypeOK, CallsCounted, Underway, FileLookedAt, Charged, EventsKept
<1> QED
  BY <1>2, <1>3, <1>4 DEF CommitEvents, AbortSession, NewerGeneration

\* The changes below a handler touch only what is there.
LEMMA FolderChangesKeepsInv ==
  ASSUME BrokerInv, FolderChanges
  PROVE  BrokerInv'
<1> DEFINE changes == handling.changes + 1
<1>1. PICK e \in PathEntry : handling' = [handling EXCEPT !.there = e, !.changes = changes]
  BY DEF FolderChanges
<1>2. UNCHANGED <<rights, broker, answered, noted>>
  BY DEF FolderChanges
<1>3. changes \in Nat
  BY DEF BrokerInv, BrokerTypeOK, Handling
<1> HIDE DEF changes
<1>4. handling' \in Handling
  BY <1>1, <1>3 DEF BrokerInv, BrokerTypeOK, Handling
<1>5. BrokerTypeOK' /\ CallsCounted' /\ EventsKept'
  BY <1>2, <1>4 DEF BrokerInv, BrokerTypeOK, CallsCounted, EventsKept
<1>6. /\ handling'.pc = handling.pc /\ handling'.call = handling.call
      /\ handling'.cap = handling.cap /\ handling'.cost = handling.cost
      /\ handling'.got = handling.got /\ handling'.hops = handling.hops
      /\ handling'.seen = handling.seen /\ handling'.opened = handling.opened
      /\ handling'.last = handling.last
  BY <1>1 DEF BrokerInv, BrokerTypeOK, Handling
<1>7. Underway' /\ Charged' /\ FileLookedAt(handling)'
  BY <1>2, <1>6 DEF BrokerInv, Underway, Charged, FileLookedAt
<1> QED
  BY <1>5, <1>7 DEF BrokerInv

-----------------------------------------------------------------------------
\* What the descriptor is of is there, or was there when it was opened.
LEMMA HeldOK ==
  ASSUME BrokerInv
  PROVE  Held \in PathEntry /\ Held.holds \in Nat
<1>1. Held \in PathEntry
  BY DEF Held, BrokerInv, BrokerTypeOK, Handling
<1> QED
  BY <1>1, PathEntryHolds

LEMMA ResultKeepsInv ==
  ASSUME BrokerInv, Handler, NEW units \in Nat, Result(units), handling.cap # "file.read",
         handling.pc \notin {"none", "authorize"}
  PROVE  BrokerInv'
<1>1. handling' \in Handling /\ Further(handling, handling')
  BY DEF BrokerInv, BrokerTypeOK, Handling, Underway, Pc, Result, Further, FileLookedAt
<1> QED
  BY <1>1, HandlerKeepsInv DEF Handler, BrokerInv, BrokerTypeOK

\* A handler other than file.read: an answer of some size, or none.
LEMMA SimpleHandlersKeepInv ==
  ASSUME BrokerInv, \/ EmitPluginEvent \/ SystemStats \/ CallModel \/ ScanFolder \/ FindConfig
                    \/ ReadConfig \/ ReadBody
  PROVE  BrokerInv'
<1>1. CASE EmitPluginEvent
  BY <1>1, ResultKeepsInv DEF EmitPluginEvent, Handles
<1>2. CASE SystemStats
  BY <1>2, ResultKeepsInv DEF SystemStats, Handles
<1>3. CASE CallModel
  BY <1>3, ResultKeepsInv, DenyKeepsInv DEF CallModel, Handles, Handler
<1>4. CASE ScanFolder
  BY <1>4, ResultKeepsInv, DenyKeepsInv, HeldOK DEF ScanFolder, Handles, Handler
<1>5. CASE FindConfig
  <2>1. CASE Deny \/ Result(1)
    BY <1>5, <2>1, ResultKeepsInv, DenyKeepsInv DEF FindConfig, Handles, Handler
  <2>2. CASE handling' = [handling EXCEPT !.pc = "open", !.seen = handling.there]
    <3>1. handling' \in Handling /\ Further(handling, handling')
      BY <1>5, <2>2
      DEF FindConfig, Handles, BrokerInv, BrokerTypeOK, Handling, Underway, Pc, Further, FileLookedAt
    <3> QED
      BY <1>5, <3>1, HandlerKeepsInv DEF FindConfig, Handles, Handler, BrokerInv, BrokerTypeOK
  <2> QED
    BY <1>5, <2>1, <2>2 DEF FindConfig
<1>6. CASE ReadConfig
  <2>1. Handler /\ Handles("open", {"config.get"}) /\ (Deny \/ \E units \in 1 .. 2 : Result(units))
    BY <1>6 DEF ReadConfig
  <2> QED
    BY <2>1, ResultKeepsInv, DenyKeepsInv DEF Handles, Handler
<1>7. CASE ReadBody
  BY <1>7, ResultKeepsInv DEF ReadBody, Handles
<1> QED
  BY <1>1, <1>2, <1>3, <1>4, <1>5, <1>6, <1>7

LEMMA HopKeepsInv ==
  ASSUME BrokerInv, Hop
  PROVE  BrokerInv'
<1>1. CASE Deny
  BY <1>1, DenyKeepsInv DEF Hop, Handler
<1>2. ASSUME NEW pc \in {"hop", "body"}, handling.hops <= MaxRedirects,
             handling' = [handling EXCEPT !.pc = pc, !.hops = @ + 1]
      PROVE  BrokerInv'
  <2> DEFINE hops == handling.hops + 1
  <2>1. hops \in Nat /\ hops <= MaxRedirects + 1
    BY <1>2, BrokerAssumption DEF BrokerInv, BrokerTypeOK, Handling
  <2>2. handling' = [handling EXCEPT !.pc = pc, !.hops = hops]
    BY <1>2
  <2>3. Handler /\ handling.pc \notin {"none", "authorize"} /\ handling.cap = "network.get"
    BY DEF Hop, Handles
  <2> HIDE DEF hops
  <2>4. handling' \in Handling /\ Further(handling, handling')
    BY <2>1, <2>2, <2>3
    DEF BrokerInv, BrokerTypeOK, Handling, Pc, Further, FileLookedAt
  <2> QED
    BY <2>3, <2>4, HandlerKeepsInv DEF Handler, BrokerInv, BrokerTypeOK
<1>3. handling.hops \in Nat
  BY DEF BrokerInv, BrokerTypeOK, Handling
<1> QED
  BY <1>1, <1>2, <1>3, BrokerAssumption DEF Hop

LEMMA AuthorizeKeepsInv ==
  ASSUME BrokerInv, Authorize
  PROVE  BrokerInv'
<1>1. CASE Deny
  BY <1>1, DenyKeepsInv DEF Authorize
<1>2. ASSUME NEW e \in PathEntry, rights[handling.cap] = "full",
             handling' = [handling EXCEPT !.pc = "begin", !.there = e]
      PROVE  BrokerInv'
  <2>1. Handler /\ handling.pc = "authorize"
    BY DEF Authorize, Handler
  <2>2. handling' \in Handling /\ Further(handling, handling')
    BY <1>2, <2>1
    DEF BrokerInv, BrokerTypeOK, Handling, Underway, Pc, Further, FileLookedAt
  <2> QED
    BY <1>2, <2>1, <2>2, HandlerKeepsInv DEF Handler, BrokerInv, BrokerTypeOK
<1> QED
  BY <1>1, <1>2, NowhereOK DEF Authorize

\* The steps of file.read, and those of file.list that look at the path.
LEMMA ReadStepKeepsInv ==
  ASSUME BrokerInv, Handler, handling.pc \notin {"none", "authorize"},
         handling' \in Handling,
         Further(handling, handling')
  PROVE  BrokerInv'
BY HandlerKeepsInv DEF Handler, BrokerInv, BrokerTypeOK

LEMMA FileReadKeepsInv ==
  ASSUME BrokerInv, Resolve \/ OpenEntry \/ OpenFolder \/ Take \/ Verify \/ LookAtPath
  PROVE  BrokerInv'
<1>1. Handler /\ handling.pc \notin {"none", "authorize"}
  BY DEF Resolve, OpenEntry, OpenFolder, Take, Verify, LookAtPath, Handles
<1>2. CASE Deny
  BY <1>1, <1>2, DenyKeepsInv DEF Handler
<1> SUFFICES ASSUME ~Deny PROVE handling' \in Handling /\ Further(handling, handling')
  BY <1>1, <1>2, ReadStepKeepsInv
<1> USE DEF BrokerInv, BrokerTypeOK, Handling, Pc, Further, FileLookedAt, Underway, Handles
<1>3. CASE Resolve
  <2>1. /\ handling' = [handling EXCEPT !.pc = "open", !.seen = handling.there]
        /\ handling.pc = "begin"
        /\ handling.cap = "file.read" => handling.there.kind = "file"
    BY <1>3 DEF Resolve, Wanted
  <2>2. handling' \in Handling
    BY <2>1
  <2> QED
    BY <2>1, <2>2
<1>4. CASE OpenEntry
  BY <1>4 DEF OpenEntry
<1>5. CASE OpenFolder
  BY <1>5 DEF OpenFolder
<1>6. CASE Take
  <2> DEFINE got == Held.holds
  <2>1. /\ handling' = [handling EXCEPT !.got = got, !.pc = "verify"]
        /\ handling.pc = "take" /\ got <= HoldLimit
    BY <1>6 DEF Take
  <2>2. got \in Nat
    BY HeldOK
  <2> HIDE DEF got
  <2>3. handling' \in Handling
    BY <2>1, <2>2
  <2> QED
    BY <2>1, <2>3
<1>7. CASE Verify
  BY <1>7 DEF Verify, Onward
<1>8. CASE LookAtPath
  <2>1. /\ SameEntry(handling.there, handling.opened)
        /\ handling' = [handling EXCEPT !.pc = "settle", !.last = handling.there]
        /\ handling.pc = "again" /\ handling.cap = "file.read"
    BY <1>8 DEF LookAtPath, StillNamed
  <2>2. handling' \in Handling
    BY <2>1
  <2>3. /\ handling'.pc = "settle" /\ handling'.last = handling.there
        /\ handling'.call = handling.call /\ handling'.cap = handling.cap
        /\ handling'.cost = handling.cost /\ handling'.hops = handling.hops
        /\ handling'.seen = handling.seen /\ handling'.opened = handling.opened
        /\ handling'.got = handling.got
    BY <2>1
  <2> QED
    BY <2>1, <2>2, <2>3
<1> QED
  BY <1>3, <1>4, <1>5, <1>6, <1>7, <1>8

\* The handlers' other refusals.
LEMMA RefusalKeepsInv ==
  ASSUME BrokerInv, Misaddressed \/ HandlerDenies \/ EventRefused \/ PromptRefused \/ UrlRefused
  PROVE  BrokerInv'
BY DenyKeepsInv DEF Misaddressed, HandlerDenies, EventRefused, PromptRefused, UrlRefused, Handler

LEMMA BrokerInvStep == BrokerInv /\ [BrokerNext]_brokerVars => BrokerInv'
<1> SUFFICES ASSUME BrokerInv, [BrokerNext]_brokerVars PROVE BrokerInv'
  OBVIOUS
<1>1. CASE UNCHANGED brokerVars
  BY <1>1
  DEF brokerVars, BrokerInv, BrokerTypeOK, CallsCounted, Underway, FileLookedAt, Charged, EventsKept
<1>2. CASE BrokerNext
  <2>1. CASE \E c \in CallId, cap \in BrokerCapability, cost \in 1 .. 2 : HandleRequest(c, cap, cost)
    BY <2>1, HandleRequestKeepsInv
  <2>2. CASE ~\E c \in CallId, cap \in BrokerCapability, cost \in 1 .. 2 : HandleRequest(c, cap, cost)
    BY <1>2, <2>2, AuthorizeKeepsInv, RefusalKeepsInv, SimpleHandlersKeepInv, FileReadKeepsInv,
       HopKeepsInv, SettleKeepsInv, SessionKeepsInv, FolderChangesKeepsInv
    DEF BrokerNext
  <2> QED
    BY <2>1, <2>2
<1> QED
  BY <1>1, <1>2

LEMMA BrokerInvImplies == BrokerInv => AnswersWarranted
<1> SUFFICES ASSUME BrokerInv PROVE AnswersWarranted
  OBVIOUS
<1>1. handling.pc = "settle" =>
        /\ rights[handling.cap] = "full" /\ handling.call \notin answered.ids
        /\ handling.cap = "file.read" => WholeFile(handling)
        /\ handling.hops <= MaxRedirects + 1
  BY DEF BrokerInv, Underway, FileLookedAt, WholeFile, SameEntry
<1>2. answered.spent <= broker.bytes /\ broker.bytes <= ByteBudget
  BY BrokerAssumption DEF BrokerInv, BrokerTypeOK, Session, Handling, Answered, Charged
<1>3. Cardinality(answered.ids) <= CallBudget
  <2>1. Cardinality(answered.ids) <= Cardinality(broker.ids) /\ Cardinality(answered.ids) \in Nat
    BY FS_Subset, FS_CardinalityType DEF BrokerInv, CallsCounted
  <2> QED
    BY <2>1, BrokerAssumption DEF BrokerInv, BrokerTypeOK, Session, CallsCounted
<1> QED
  BY <1>1, <1>2, <1>3 DEF AnswersWarranted, BrokerInv, EventsKept

(* Whatever the entitlement, budgets, file limits and redirects are.        *)
THEOREM WarrantedAnswers == BrokerSpec => []AnswersWarranted
BY BrokerInvInit, BrokerInvStep, BrokerInvImplies, PTL DEF BrokerSpec

-----------------------------------------------------------------------------
(* The executor                                                            *)

CommandState == {"idle", "look", "admit", "run", "collect", "give", "record"}

ExecTypeOK ==
  /\ command \in [User -> CommandState]
  /\ counted \in Nat
  /\ sandbox \in [there: BOOLEAN, named: BOOLEAN, closing: BOOLEAN]

(* InFlightKeepsFolder is inductive but for two facts: the field names the  *)
(* directory exactly as long as it is there, and the type of the state.     *)
ExecInv ==
  /\ ExecTypeOK
  /\ sandbox.there = sandbox.named
  /\ InFlightKeepsFolder

LEMMA OccupiedFinite == IsFiniteSet(Occupied) /\ Cardinality(Occupied) \in Nat
<1>1. Occupied \in SUBSET User
  BY DEF Occupied
<1> QED BY <1>1, ExecutorAssumption, FS_Subset, FS_CardinalityType

\* A step that moves one thread moves it into the slots, out of them, or neither.
LEMMA OccupiedMoves ==
  ASSUME ExecTypeOK, NEW u \in User, NEW pc \in CommandState, Proceeds(u, pc)
  PROVE  /\ command' \in [User -> CommandState]
         /\ Occupied' = IF pc \in {"run", "collect", "give"} THEN Occupied \cup {u}
                        ELSE Occupied \ {u}
BY DEF ExecTypeOK, Proceeds, Occupied, CommandState

\* Leaving the slots to those who have them.
LEMMA OccupiedKept ==
  ASSUME ExecInv, NEW u \in User, NEW pc \in CommandState, Proceeds(u, pc),
         u \in Occupied <=> pc \in {"run", "collect", "give"},
         UNCHANGED <<counted, sandbox>>
  PROVE  ExecInv'
<1>1. Occupied' = Occupied /\ command' \in [User -> CommandState]
  BY OccupiedMoves DEF ExecInv
<1> QED BY <1>1 DEF ExecInv, ExecTypeOK, InFlightKeepsFolder

LEMMA ExecInitInv == ExecInit => ExecInv
<1> SUFFICES ASSUME ExecInit PROVE ExecInv
  OBVIOUS
<1>1. Occupied = {}
  BY DEF ExecInit, Occupied
<1> QED BY <1>1, FS_EmptySet, ExecutorAssumption
        DEF ExecInit, ExecInv, ExecTypeOK, InFlightKeepsFolder, CommandState

LEMMA ExecNextInv == ExecInv /\ [ExecNext]_execVars => ExecInv'
<1> SUFFICES ASSUME ExecInv, [ExecNext]_execVars PROVE ExecInv'
  OBVIOUS
<1>k. ASSUME command' = command, counted' = counted, sandbox' = sandbox PROVE ExecInv'
  BY <1>k DEF ExecInv, ExecTypeOK, InFlightKeepsFolder, Occupied
<1>1. CASE UNCHANGED execVars
  BY <1>1, <1>k DEF execVars
<1>2. CASE ClearAudit
  BY <1>2, <1>k DEF ClearAudit
<1>3. ASSUME NEW u \in User, Execute(u) PROVE ExecInv'
  BY <1>3, OccupiedKept, "look" \in CommandState DEF Execute, In, Occupied, CommandState
<1>4. ASSUME NEW u \in User, LookAgain(u) PROVE ExecInv'
  BY <1>4, OccupiedKept DEF LookAgain, In, Occupied, CommandState
<1>5. ASSUME NEW u \in User, Admit(u) PROVE ExecInv'
  <2>1. CASE Proceeds(u, "idle") /\ UNCHANGED counted
    BY <1>5, <2>1, OccupiedKept DEF Admit, In, Occupied, CommandState
  <2>2. CASE MayRun /\ counted' = counted + 1 /\ Proceeds(u, "run")
    <3>1. Occupied' = Occupied \cup {u} /\ command' \in [User -> CommandState]
      BY <2>2, OccupiedMoves DEF ExecInv, CommandState
    <3>2. u \notin Occupied
      BY <1>5 DEF Admit, In, Occupied
    <3>3. Cardinality(Occupied') = Cardinality(Occupied) + 1
      BY <3>1, <3>2, OccupiedFinite, FS_AddElement
    <3>4. counted' \in Nat /\ counted' <= MaxConcurrency /\ counted' = Cardinality(Occupied')
      BY <2>2, <3>3, ExecutorAssumption DEF MayRun, ExecInv, ExecTypeOK, InFlightKeepsFolder
    <3>5. sandbox' = sandbox /\ sandbox.there /\ sandbox.named
      BY <1>5, <2>2 DEF Admit, MayRun, ExecInv
    <3> QED BY <3>1, <3>4, <3>5 DEF ExecInv, ExecTypeOK, InFlightKeepsFolder
  <2> QED BY <1>5, <2>1, <2>2 DEF Admit
<1>6. ASSUME NEW u \in User, Run(u) PROVE ExecInv'
  BY <1>6, OccupiedKept DEF Run, In, Occupied, CommandState
<1>7. ASSUME NEW u \in User, Collect(u) PROVE ExecInv'
  BY <1>7, OccupiedKept DEF Collect, In, Occupied, CommandState
<1>8. ASSUME NEW u \in User, GiveBack(u) PROVE ExecInv'
  <2>1. Occupied' = Occupied \ {u} /\ command' \in [User -> CommandState]
    BY <1>8, OccupiedMoves DEF GiveBack, ExecInv, CommandState
  <2>2. u \in Occupied
    BY <1>8 DEF GiveBack, In, Occupied
  <2>3. Cardinality(Occupied') = Cardinality(Occupied) - 1
    BY <2>1, <2>2, OccupiedFinite, FS_RemoveElement
  <2>4. Cardinality(Occupied) # 0
    BY <2>2, OccupiedFinite, FS_EmptySet
  <2> QED BY <1>8, <2>1, <2>2, <2>3, <2>4, OccupiedFinite, ExecutorAssumption
          DEF GiveBack, ExecInv, ExecTypeOK, InFlightKeepsFolder
<1>9. ASSUME NEW u \in User, Audited(u) PROVE ExecInv'
  BY <1>9, OccupiedKept DEF Audited, In, Occupied, CommandState
<1>10. ASSUME NEW u \in User, Spreads(u) PROVE ExecInv'
  BY <1>10, <1>k DEF Spreads
<1>11. ASSUME NEW u \in User, CloseExecutor(u) PROVE ExecInv'
  BY <1>11 DEF CloseExecutor, ExecInv, ExecTypeOK, InFlightKeepsFolder, Occupied
<1>12. ASSUME NEW u \in User, CloseCleans(u) PROVE ExecInv'
  <2>1. Occupied = {}
    BY <1>12, OccupiedFinite, FS_EmptySet DEF CloseCleans, ExecInv, InFlightKeepsFolder
  <2>2. Occupied' = Occupied
    BY <1>12 DEF CloseCleans, Occupied
  <2> QED BY <1>12, <2>1, <2>2 DEF CloseCleans, ExecInv, ExecTypeOK, InFlightKeepsFolder
<1> QED BY <1>1, <1>2, <1>3, <1>4, <1>5, <1>6, <1>7, <1>8, <1>9, <1>10, <1>11, <1>12 DEF ExecNext

(* A command that was admitted keeps its directory until its slot is given   *)
(* back, however many threads execute and close: a close waits for the       *)
(* slots, and a slot is taken only while no close has begun.                 *)
THEOREM CommandKeepsFolder == ExecSpec => []InFlightKeepsFolder
<1>1. ExecInv => InFlightKeepsFolder
  BY DEF ExecInv
<1> QED BY ExecInitInv, ExecNextInv, <1>1, PTL DEF ExecSpec

-----------------------------------------------------------------------------
(* The worker                                                              *)

RequestState == {"idle", "ensure", "spawn", "attach", "resume", "exchange", "free",
                 "release", "clean", "reap"}
RequestType == [pc: RequestState, id: Nat, box: Nat, failed: BOOLEAN, held: BOOLEAN, good: BOOLEAN]

TermTypeOK ==
  /\ request \in [TermCaller -> RequestType]
  /\ launches \in 0 .. MaxLaunches
  /\ tree \in [Launch -> {"none", "up", "dead", "gone"}]
  /\ owned \subseteq Launch
  /\ box \in [by: Nat, state: {"none", "up", "broken"}]
  /\ folder \in BOOLEAN /\ ending \in BOOLEAN /\ ended \in BOOLEAN

\* What a request knows of its process: there is none yet, it is unattached, it
\* is held by a containment that close knows of, or it is over.
RequestSound(r) ==
  /\ r.pc = "idle" => r = NoRequest
  /\ r.pc # "idle" => r.id \in 1 .. launches
  /\ r.pc \in {"ensure", "spawn"} => tree[r.id] # "up"
  /\ r.pc \in {"ensure", "spawn", "attach"} => ~r.held
  /\ r.pc \in {"resume", "exchange", "free"} => r.held
  /\ r.held => r.id \in owned
  /\ r.pc \in {"release", "clean", "reap"} /\ ~r.held => tree[r.id] # "up"

RequestsSound == \A c \in TermCaller : RequestSound(request[c])

\* No two threads work on one process.
IdsDistinct ==
  \A c, d \in TermCaller : c # d /\ request[c].pc # "idle" => Id(c) # Id(d)

\* A process that no request has started is not there.
Unstarted == \A t \in Launch : t > launches => tree[t] # "up"

\* A live process is known to close, or a request is at work on it.
NoneForgotten == \A t \in Launch : tree[t] = "up" => t \in owned \/ \E c \in TermCaller : Id(c) = t

\* After close nothing is left and nothing comes.
ShutIsFinal ==
  /\ folder = ~ended
  /\ closer # {} => ending
  /\ ended => ending /\ owned = {} /\ box = NoBox /\ Running = {}

(* NothingLeaks says nothing of threads in the middle of a launch; what keeps *)
(* a process from being forgotten there is what the request knows of it.      *)
TermInv ==
  TermTypeOK /\ RequestsSound /\ IdsDistinct /\ Unstarted /\ NoneForgotten /\ ShutIsFinal

LEMMA TermInvSafe == TermInv => NothingLeaks
<1> SUFFICES ASSUME TermInv PROVE NothingLeaks
  OBVIOUS
<1>1. ASSUME NEW t \in Launch, tree[t] = "up", ended PROVE FALSE
  <2>1. PICK c \in TermCaller : Id(c) = t
    BY <1>1 DEF TermInv, NoneForgotten, ShutIsFinal
  <2>2. request[c].pc = "idle"
    BY <1>1 DEF TermInv, ShutIsFinal, Running
  <2>3. Id(c) = 0
    BY <2>2 DEF TermInv, RequestsSound, RequestSound, NoRequest, Id
  <2> QED BY <2>1, <2>3 DEF Launch
<1> QED BY <1>1 DEF TermInv, NothingLeaks, NoneForgotten, ShutIsFinal, TermTypeOK

\* A step of one request: it moves, its own process may change, and may become
\* owned or be given up; nobody else's does.
LEMMA OwnStep ==
  ASSUME TermInv, NEW c \in TermCaller, NEW r \in RequestType,
         request[c].pc # "idle", r.pc # "idle", Moves(c, r), r.id = Id(c),
         NEW s \in {"none", "up", "dead", "gone"}, tree' = [tree EXCEPT ![Id(c)] = s],
         owned' \in {owned, owned \cup {Id(c)}, owned \ {Id(c)}},
         r.held => Id(c) \in owned',
         r.pc \in {"ensure", "spawn"} => s # "up",
         r.pc \in {"ensure", "spawn", "attach"} => ~r.held,
         r.pc \in {"resume", "exchange", "free"} => r.held,
         r.pc \in {"release", "clean", "reap"} /\ ~r.held => s # "up",
         box' \in [by: Nat, state: {"none", "up", "broken"}],
         UNCHANGED <<launches, lifeVars>>
  PROVE  TermInv'
<1>1. /\ Id(c) \in Launch /\ Id(c) <= launches
      /\ ~ended
      /\ request'[c] = r /\ \A d \in TermCaller : d # c => request'[d] = request[d]
      /\ tree'[Id(c)] = s /\ \A t \in Launch : t # Id(c) => tree'[t] = tree[t]
      /\ \A t \in Launch : t # Id(c) => (t \in owned' <=> t \in owned)
  <2>1. Id(c) \in 1 .. launches
    BY DEF TermInv, RequestsSound, RequestSound, Id
  <2>2. Id(c) \in Launch /\ Id(c) <= launches
    BY <2>1, TermAssumption DEF Launch, TermInv, TermTypeOK
  <2>3. ~ended
    BY DEF TermInv, ShutIsFinal, Running
  <2> QED BY <2>2, <2>3 DEF Moves, TermInv, TermTypeOK
<1>2. TermTypeOK'
  BY <1>1 DEF TermInv, TermTypeOK, Moves, lifeVars
<1>3. RequestsSound'
  <2>1. RequestSound(r)'
    BY <1>1 DEF RequestSound, TermInv, TermTypeOK, Launch
  <2>2. ASSUME NEW d \in TermCaller, d # c PROVE RequestSound(request[d])'
    <3>1. CASE request[d].pc = "idle"
      BY <1>1, <2>2, <3>1 DEF TermInv, RequestsSound, RequestSound, NoRequest
    <3>2. CASE request[d].pc # "idle"
      <4>1. request[d].id # Id(c) /\ request[d].id \in 1 .. launches
        BY <2>2, <3>2 DEF TermInv, IdsDistinct, RequestsSound, RequestSound, Id
      <4>2. request[d].id \in Launch
        BY <4>1, TermAssumption DEF TermInv, TermTypeOK, Launch
      <4> QED BY <1>1, <2>2, <3>2, <4>1, <4>2 DEF TermInv, RequestsSound, RequestSound
    <3> QED BY <3>1, <3>2
  <2> QED BY <1>1, <2>1, <2>2 DEF RequestsSound
<1>4. IdsDistinct'
  <2> SUFFICES ASSUME NEW a \in TermCaller, NEW b \in TermCaller, a # b,
                      request'[a].pc # "idle"
               PROVE  request'[a].id # request'[b].id
    BY DEF IdsDistinct, Id
  <2>1. request[a].pc # "idle" /\ request'[a].id = request[a].id /\ request'[b].id = request[b].id
    BY <1>1 DEF Id
  <2> QED BY <2>1 DEF TermInv, IdsDistinct, Id
<1>5. Unstarted'
  BY <1>1 DEF TermInv, TermTypeOK, Unstarted, Launch
<1>6. NoneForgotten'
  <2>1. \A d \in TermCaller : request'[d].id = request[d].id
    BY <1>1 DEF Id
  <2> QED BY <1>1, <2>1 DEF TermInv, NoneForgotten, Id
<1>7. ShutIsFinal'
  BY <1>1 DEF TermInv, ShutIsFinal, lifeVars
<1> QED BY <1>2, <1>3, <1>4, <1>5, <1>6, <1>7 DEF TermInv

\* What a request is known to be at its step.
LEMMA OwnFacts ==
  ASSUME TermInv, NEW c \in TermCaller, request[c].pc # "idle"
  PROVE  /\ request[c] \in RequestType /\ RequestSound(request[c])
         /\ Id(c) = request[c].id /\ Id(c) \in Launch /\ Id(c) \in Nat
         /\ tree[Id(c)] \in {"none", "up", "dead", "gone"}
         /\ tree = [tree EXCEPT ![Id(c)] = tree[Id(c)]]
         /\ box \in [by: Nat, state: {"none", "up", "broken"}]
<1>1. request[c] \in RequestType /\ RequestSound(request[c]) /\ Id(c) = request[c].id
  BY DEF TermInv, TermTypeOK, RequestsSound, Id
<1>2. Id(c) \in Launch /\ Id(c) \in Nat
  BY <1>1, TermAssumption DEF RequestSound, TermInv, TermTypeOK, Launch
<1> QED BY <1>1, <1>2 DEF TermInv, TermTypeOK

\* A step that leaves the processes and the containments alone.
LEMMA QuietStep ==
  ASSUME TermInv, NEW c \in TermCaller, NEW r \in RequestType,
         request[c].pc # "idle", r.pc # "idle", Moves(c, r), r.id = Id(c),
         r.held = request[c].held,
         r.pc \in {"ensure", "spawn"} => tree[Id(c)] # "up",
         r.pc \in {"ensure", "spawn", "attach"} => ~r.held,
         r.pc \in {"resume", "exchange", "free"} => r.held,
         r.pc \in {"release", "clean", "reap"} /\ ~r.held => tree[Id(c)] # "up",
         box' \in [by: Nat, state: {"none", "up", "broken"}],
         UNCHANGED <<launches, tree, owned, lifeVars>>
  PROVE  TermInv'
<1>1. r.held => Id(c) \in owned
  BY OwnFacts DEF RequestSound
<1> QED BY <1>1, OwnFacts, OwnStep

LEMMA BoxClosed ==
  ASSUME TermInv, CloseBox
  PROVE  box' \in [by: Nat, state: {"none", "up", "broken"}]
BY DEF TermInv, TermTypeOK, CloseBox, NoBox

LEMMA FailsType ==
  ASSUME NEW c \in TermCaller, request[c] \in RequestType
  PROVE  [request[c] EXCEPT !.pc = "release", !.failed = TRUE] \in RequestType
BY DEF RequestType, RequestState

\* A thread that has no request any more holds nothing a process needs.
LEMMA ReapInv ==
  ASSUME TermInv, NEW c \in TermCaller, Reap(c)
  PROVE  TermInv'
<1>1. request[c].pc = "reap" /\ request[c].pc # "idle"
  BY DEF Reap, Finished, At
<1>2. /\ Id(c) \in Launch /\ RequestSound(request[c]) /\ Id(c) = request[c].id
      /\ tree[Id(c)] = "up" => Id(c) \in owned
  BY <1>1, OwnFacts DEF RequestSound
<1>3. /\ request' = [request EXCEPT ![c] = NoRequest]
      /\ tree' \in [Launch -> {"none", "up", "dead", "gone"}]
      /\ \A t \in Launch : tree'[t] = "up" <=> tree[t] = "up"
      /\ UNCHANGED <<launches, owned, box, lifeVars>>
  BY <1>2 DEF Reap, Moves, TermInv, TermTypeOK
<1>4. NoRequest \in RequestType
  BY DEF NoRequest, RequestType, RequestState
<1>5. request'[c] = NoRequest /\ \A d \in TermCaller : d # c => request'[d] = request[d]
  BY <1>3 DEF TermInv, TermTypeOK
<1>6. TermTypeOK'
  BY <1>3, <1>4 DEF TermInv, TermTypeOK, lifeVars
<1>7. RequestsSound'
  <2> SUFFICES ASSUME NEW d \in TermCaller PROVE RequestSound(request[d])'
    BY DEF RequestsSound
  <2>1. CASE request'[d].pc = "idle"
    <3>1. request'[d] = NoRequest
      BY <1>5, <2>1 DEF TermInv, RequestsSound, RequestSound
    <3> QED BY <3>1 DEF RequestSound, NoRequest
  <2>2. CASE request'[d].pc # "idle"
    <3>1. request'[d] = request[d] /\ request[d].pc # "idle"
      BY <1>5, <2>2 DEF NoRequest
    <3>2. request[d].id \in Launch /\ RequestSound(request[d])
      BY <3>1, OwnFacts
    <3> QED BY <1>3, <3>1, <3>2 DEF RequestSound
  <2> QED BY <2>1, <2>2
<1>8. IdsDistinct'
  <2> SUFFICES ASSUME NEW a \in TermCaller, NEW b \in TermCaller, a # b, request'[a].pc # "idle"
               PROVE  request'[a].id # request'[b].id
    BY DEF IdsDistinct, Id
  <2>1. request'[a] = request[a] /\ request[a].pc # "idle" /\ request[a].id \in Launch
    BY <1>5, OwnFacts DEF NoRequest
  <2>2. CASE b = c
    BY <1>5, <2>1, <2>2 DEF NoRequest, Launch
  <2>3. CASE b # c
    BY <1>5, <2>1, <2>3 DEF TermInv, IdsDistinct, Id
  <2> QED BY <2>2, <2>3
<1>9. NoneForgotten'
  <2> SUFFICES ASSUME NEW t \in Launch, tree'[t] = "up", t \notin owned'
               PROVE  \E d \in TermCaller : request'[d].id = t
    BY DEF NoneForgotten, Id
  <2>1. tree[t] = "up" /\ t \notin owned
    BY <1>3
  <2>2. PICK d \in TermCaller : request[d].id = t
    BY <2>1 DEF TermInv, NoneForgotten, Id
  <2>3. d # c
    BY <1>2, <2>1, <2>2
  <2> QED BY <1>5, <2>2, <2>3
<1>10. Unstarted' /\ ShutIsFinal'
  <2>1. ~ended
    BY <1>1 DEF TermInv, ShutIsFinal, Running
  <2> QED BY <1>3, <2>1 DEF TermInv, Unstarted, ShutIsFinal, lifeVars
<1> QED BY <1>6, <1>7, <1>8, <1>9, <1>10 DEF TermInv

LEMMA RequestStepInv ==
  ASSUME TermInv, NEW c \in TermCaller, RequestStep(c)
  PROVE  TermInv'
<1> DEFINE r0 == request[c]
           moved(pc) == [request[c] EXCEPT !.pc = pc]
           failing == [request[c] EXCEPT !.pc = "release", !.failed = TRUE]
<1>0. r0.pc # "idle"
  BY DEF RequestStep, EnsureBox, SpawnTree, AttachTree, ResumeTree, Exchange, FreeTree,
         ReleaseTree, Clean, Reap, Finished, At
<1>f. /\ r0 \in RequestType /\ RequestSound(r0)
      /\ Id(c) = r0.id /\ Id(c) \in Launch /\ Id(c) \in Nat
      /\ tree[Id(c)] \in {"none", "up", "dead", "gone"}
      /\ tree = [tree EXCEPT ![Id(c)] = tree[Id(c)]]
      /\ box \in [by: Nat, state: {"none", "up", "broken"}]
  BY <1>0, OwnFacts
<1>g. failing \in RequestType /\ \A pc \in RequestState : moved(pc) \in RequestType
  BY <1>f DEF RequestType, RequestState
<1> HIDE DEF moved, failing
<1>m. \A pc : pc \in RequestState =>
        moved(pc).pc = pc /\ moved(pc).id = Id(c) /\ moved(pc).held = r0.held
  BY <1>f DEF moved, RequestType
<1>n. failing.pc = "release" /\ failing.id = Id(c) /\ failing.held = r0.held
  BY <1>f DEF failing, RequestType
<1>1. CASE EnsureBox(c)
  <2> DEFINE a == [request[c] EXCEPT !.pc = "spawn", !.box = box.by]
             b == [request[c] EXCEPT !.pc = "spawn", !.box = Id(c)]
  <2>1. /\ a \in RequestType /\ a.pc = "spawn" /\ a.id = Id(c) /\ a.held = r0.held
        /\ b \in RequestType /\ b.pc = "spawn" /\ b.id = Id(c) /\ b.held = r0.held
    BY <1>f DEF RequestType, RequestState
  <2>2. tree[Id(c)] # "up" /\ ~r0.held
    BY <1>1, <1>f DEF EnsureBox, At, RequestSound
  <2>3. UNCHANGED <<launches, tree, owned, lifeVars>>
    BY <1>1 DEF EnsureBox
  <2>4. box' \in [by: Nat, state: {"none", "up", "broken"}]
    BY <1>1, <1>f DEF EnsureBox, NoBox
  <2> HIDE DEF a, b
  <2>5. CASE Moves(c, a)
    BY <1>0, <2>1, <2>2, <2>3, <2>4, <2>5, QuietStep
  <2>6. CASE Moves(c, b)
    BY <1>0, <2>1, <2>2, <2>3, <2>4, <2>6, QuietStep
  <2>7. CASE Moves(c, failing)
    BY <1>0, <1>n, <1>g, <2>2, <2>3, <2>4, <2>7, QuietStep
  <2> QED BY <1>1, <2>5, <2>6, <2>7 DEF EnsureBox, Fails, a, b, failing
<1>2. CASE SpawnTree(c)
  <2>1. tree[Id(c)] # "up" /\ ~r0.held /\ box' = box /\ UNCHANGED <<launches, owned, lifeVars>>
    BY <1>2, <1>f DEF SpawnTree, At, RequestSound
  <2>2. CASE Moves(c, failing) /\ tree' = tree
    BY <1>0, <1>f, <1>g, <1>n, <2>1, <2>2, QuietStep
  <2>3. CASE Moves(c, moved("attach")) /\ tree' = [tree EXCEPT ![Id(c)] = "up"]
    BY <1>0, <1>f, <1>g, <1>m, <2>1, <2>3, OwnStep DEF RequestState
  <2> QED BY <1>2, <2>2, <2>3 DEF SpawnTree, Fails, failing, moved
<1>3. CASE AttachTree(c)
  <2> DEFINE a == [request[c] EXCEPT !.pc = "resume", !.held = TRUE]
  <2>1. a \in RequestType /\ a.pc = "resume" /\ a.id = Id(c) /\ a.held
    BY <1>f DEF RequestType, RequestState
  <2>2. ~r0.held /\ box' = box /\ UNCHANGED <<launches, lifeVars>>
    BY <1>3, <1>f DEF AttachTree, At, RequestSound
  <2> HIDE DEF a
  <2>3. CASE Moves(c, a) /\ owned' = owned \cup {Id(c)} /\ tree' = tree
    BY <1>0, <1>f, <2>1, <2>2, <2>3, OwnStep
  <2>4. CASE Moves(c, failing) /\ owned' = owned /\ tree' = [tree EXCEPT ![Id(c)] = "gone"]
    BY <1>0, <1>f, <1>g, <1>n, <2>2, <2>4, OwnStep
  <2> QED BY <1>3, <2>3, <2>4 DEF AttachTree, Fails, failing, a
<1>4. CASE ResumeTree(c)
  <2>1. r0.held /\ box' = box /\ UNCHANGED <<launches, tree, owned, lifeVars>>
    BY <1>4, <1>f DEF ResumeTree, At, RequestSound
  <2>2. CASE Moves(c, moved("exchange"))
    BY <1>0, <1>f, <1>g, <1>m, <2>1, <2>2, QuietStep DEF RequestState
  <2>3. CASE Moves(c, failing)
    BY <1>0, <1>f, <1>g, <1>n, <2>1, <2>3, QuietStep
  <2> QED BY <1>4, <2>2, <2>3 DEF ResumeTree, Fails, failing, moved
<1>5. CASE Exchange(c)
  <2> DEFINE a == [request[c] EXCEPT !.pc = "free", !.good = TRUE]
  <2>1. a \in RequestType /\ a.pc = "free" /\ a.id = Id(c) /\ a.held = r0.held
    BY <1>f DEF RequestType, RequestState
  <2>2. /\ r0.held /\ Id(c) \in owned
        /\ box' = box /\ owned' = owned /\ UNCHANGED <<launches, lifeVars>>
        /\ tree' = tree \/ tree' = [tree EXCEPT ![Id(c)] = "gone"]
    BY <1>5, <1>f DEF Exchange, At, RequestSound
  <2>3. PICK s \in {"none", "up", "dead", "gone"} : tree' = [tree EXCEPT ![Id(c)] = s]
    BY <1>f, <2>2
  <2> HIDE DEF a
  <2>4. CASE Moves(c, a)
    BY <1>0, <1>f, <2>1, <2>2, <2>3, <2>4, OwnStep
  <2>5. CASE Moves(c, moved("release"))
    BY <1>0, <1>f, <1>g, <1>m, <2>2, <2>3, <2>5, OwnStep DEF RequestState
  <2> QED BY <1>5, <2>4, <2>5 DEF Exchange, a, moved
<1>6. ASSUME NEW released \in RequestType, NEW kept \in RequestType,
             TryRelease(c, released, kept), r0.held,
             released.pc \in {"reap", "clean"}, released.id = Id(c),
             kept.pc \in {"release", "clean"}, kept.id = Id(c), kept.held,
             box' = box, UNCHANGED <<launches, lifeVars>>
      PROVE  TermInv'
  <2> DEFINE freed == [released EXCEPT !.held = FALSE]
  <2>1. freed \in RequestType /\ freed.pc = released.pc /\ freed.id = Id(c) /\ ~freed.held
    BY <1>6 DEF RequestType
  <2>2. PICK s \in Struck(tree[Id(c)]) : tree' = [tree EXCEPT ![Id(c)] = s]
    BY <1>6 DEF TryRelease
  <2>3. s \in {"none", "up", "dead", "gone"} /\ tree'[Id(c)] = s /\ Id(c) \in owned
    BY <1>6, <1>f, <2>2 DEF Struck, RequestSound, TermInv, TermTypeOK
  <2> HIDE DEF freed
  <2>4. CASE Emptied(s)
    <3>1. owned' = owned \ {Id(c)} /\ Moves(c, freed) /\ s # "up"
      BY <1>6, <2>3, <2>4 DEF TryRelease, freed, Emptied
    <3> QED BY <1>0, <1>6, <1>f, <2>1, <2>2, <2>3, <3>1, OwnStep
  <2>5. CASE ~Emptied(s)
    <3>1. owned' = owned /\ Moves(c, kept)
      BY <1>6, <2>3, <2>5 DEF TryRelease
    <3> QED BY <1>0, <1>6, <1>f, <2>2, <2>3, <3>1, OwnStep
  <2> QED BY <2>4, <2>5
<1>7. CASE FreeTree(c)
  <2> DEFINE k == [request[c] EXCEPT !.pc = "release", !.good = FALSE]
  <2>1. r0.held
    BY <1>7, <1>f DEF FreeTree, At, RequestSound
  <2>2. k \in RequestType /\ k.pc = "release" /\ k.id = Id(c) /\ k.held
    BY <1>f, <2>1 DEF RequestType, RequestState
  <2>3. TryRelease(c, moved("reap"), k) /\ box' = box /\ UNCHANGED <<launches, lifeVars>>
    BY <1>7 DEF FreeTree, moved
  <2> HIDE DEF k
  <2> QED BY <1>6, <1>g, <1>m, <2>1, <2>2, <2>3 DEF RequestState
<1>8. CASE ReleaseTree(c)
  <2>1. box' = box /\ UNCHANGED <<launches, lifeVars>>
    BY <1>8 DEF ReleaseTree
  <2>2. CASE r0.held
    BY <1>6, <1>8, <1>g, <1>m, <2>1, <2>2 DEF ReleaseTree, RequestState, moved
  <2>3. CASE ~r0.held
    <3>1. Moves(c, moved("clean")) /\ UNCHANGED <<tree, owned>> /\ tree[Id(c)] # "up"
      BY <1>8, <1>f, <2>3 DEF ReleaseTree, At, RequestSound, moved
    <3> QED BY <1>0, <1>f, <1>g, <1>m, <2>1, <2>3, <3>1, QuietStep DEF RequestState
  <2> QED BY <2>2, <2>3
<1>9. CASE Clean(c)
  <2>1. /\ Moves(c, moved("reap")) /\ UNCHANGED <<launches, tree, owned, lifeVars>>
        /\ box' \in [by: Nat, state: {"none", "up", "broken"}]
        /\ ~r0.held => tree[Id(c)] # "up"
    BY <1>9, <1>f, BoxClosed DEF Clean, At, RequestSound, moved
  <2> QED BY <1>0, <1>f, <1>g, <1>m, <2>1, QuietStep DEF RequestState
<1>10. CASE Reap(c)
  BY <1>10, ReapInv
<1> QED BY <1>1, <1>2, <1>3, <1>4, <1>5, <1>7, <1>8, <1>9, <1>10 DEF RequestStep

\* What may change when nobody moves: processes end, the owned ones may go.
LEMMA WorldStep ==
  ASSUME TermInv, UNCHANGED <<request, launches>>,
         tree' \in [Launch -> {"none", "up", "dead", "gone"}],
         \A t \in Launch : tree'[t] = "up" => tree[t] = "up",
         owned' = owned, box' = box, UNCHANGED lifeVars
  PROVE  TermInv'
<1>1. TermTypeOK'
  BY DEF TermInv, TermTypeOK, lifeVars
<1>2. RequestsSound'
  <2> SUFFICES ASSUME NEW c \in TermCaller PROVE RequestSound(request[c])'
    BY DEF RequestsSound
  <2>1. CASE request[c].pc = "idle"
    BY <2>1 DEF TermInv, RequestsSound, RequestSound, NoRequest
  <2>2. CASE request[c].pc # "idle"
    <3>1. request[c].id \in Launch /\ RequestSound(request[c])
      BY <2>2, OwnFacts
    <3> QED BY <2>2, <3>1 DEF RequestSound
  <2> QED BY <2>1, <2>2
<1>3. IdsDistinct' /\ Unstarted' /\ NoneForgotten' /\ ShutIsFinal'
  BY DEF TermInv, IdsDistinct, Unstarted, NoneForgotten, ShutIsFinal, Id, Running, lifeVars
<1> QED BY <1>1, <1>2, <1>3 DEF TermInv

LEMMA CloseStepInv ==
  ASSUME TermInv, NEW c \in TermCaller, CloseStep(c)
  PROVE  TermInv'
<1>1. CASE CloseFound(c)
  <2>1. UNCHANGED <<request, launches, tree, owned, box, folder, ending, ended>>
        /\ closer' \subseteq closer
    BY <1>1 DEF CloseFound, CloseLeaves
  <2>2. TermTypeOK' /\ IdsDistinct' /\ Unstarted' /\ NoneForgotten'
    BY <2>1 DEF TermInv, TermTypeOK, IdsDistinct, Id, Unstarted, NoneForgotten
  <2>3. RequestsSound'
    BY <2>1 DEF TermInv, RequestsSound, RequestSound
  <2>4. ShutIsFinal'
    BY <2>1 DEF TermInv, ShutIsFinal, Running
  <2> QED BY <2>2, <2>3, <2>4 DEF TermInv
<1>2. CASE CloseWork(c)
  <2>1. /\ \A d \in TermCaller : request[d] = NoRequest /\ request'[d] = NoRequest
        /\ UNCHANGED <<request, launches, ending>>
    BY <1>2 DEF CloseWork, CloseLeaves, Running, TermInv, RequestsSound, RequestSound
  <2>2. /\ tree' \in [Launch -> {"none", "up", "dead", "gone"}]
        /\ \A t \in Launch : tree'[t] = "up" => tree[t] = "up"
        /\ owned' = {t \in owned : ~Emptied(tree'[t])}
    BY <1>2 DEF CloseWork, TermInv, TermTypeOK
  <2>3. \A t \in Launch : tree[t] = "up" => t \in owned
    BY <2>1 DEF TermInv, NoneForgotten, Id, NoRequest, Launch
  <2>4. \A t \in Launch : tree'[t] = "up" => t \in owned'
    BY <2>2, <2>3 DEF Emptied
  <2>5. /\ box' \in [by: Nat, state: {"none", "up", "broken"}]
        /\ folder' \in BOOLEAN /\ ended' \in BOOLEAN /\ folder' = ~ended'
        /\ ended' => box' = NoBox /\ owned' = {}
    <3>1. /\ NoBox \in [by: Nat, state: {"none", "up", "broken"}]
          /\ box \in [by: Nat, state: {"none", "up", "broken"}]
      BY DEF NoBox, TermInv, TermTypeOK
    <3>2. folder \in BOOLEAN /\ ended \in BOOLEAN /\ folder = ~ended /\ ~ended
      BY <1>2 DEF CloseWork, TermInv, TermTypeOK, ShutIsFinal
    <3>3. CASE UNCHANGED <<box, folder, ended>>
      BY <3>1, <3>2, <3>3
    <3>4. CASE CloseBox /\ UNCHANGED <<folder, ended>>
      BY <3>2, <3>4, BoxClosed
    <3>5. CASE owned' = {} /\ box' = NoBox /\ folder' = FALSE /\ ended' = TRUE
      BY <3>1, <3>5
    <3> QED BY <1>2, <3>3, <3>4, <3>5 DEF CloseWork
  <2>0. c \in closer
    BY <1>2 DEF CloseWork
  <2>6. ending'
    BY <2>0, <2>1 DEF TermInv, ShutIsFinal
  <2>7. TermTypeOK'
    BY <2>1, <2>2, <2>5 DEF TermInv, TermTypeOK
  <2>8. RequestsSound'
    BY <2>1 DEF RequestsSound, RequestSound, NoRequest
  <2>9. IdsDistinct' /\ NoneForgotten' /\ Unstarted'
    BY <2>1, <2>2, <2>4 DEF TermInv, IdsDistinct, NoneForgotten, Unstarted, NoRequest, Id
  <2>10. ShutIsFinal'
    BY <2>1, <2>5, <2>6 DEF ShutIsFinal, Running, NoRequest
  <2> QED BY <2>7, <2>8, <2>9, <2>10 DEF TermInv
<1> QED BY <1>1, <1>2 DEF CloseStep

\* A new request is given the next process, which nobody has started.
LEMMA ReserveInv ==
  ASSUME TermInv, NEW c \in TermCaller, ReserveSlot(c)
  PROVE  TermInv'
<1> DEFINE r == [NoRequest EXCEPT !.pc = "ensure", !.id = launches + 1]
<1>0. launches \in Nat /\ launches < MaxLaunches /\ launches + 1 \in Launch
  BY TermAssumption DEF ReserveSlot, TermInv, TermTypeOK, Launch
<1>1. r \in RequestType /\ r.pc = "ensure" /\ r.id = launches + 1 /\ ~r.held
  <2>1. NoRequest \in RequestType /\ ~NoRequest.held
    BY DEF NoRequest, RequestType, RequestState
  <2>2. launches + 1 \in Nat /\ "ensure" \in RequestState
    BY <1>0 DEF RequestState
  <2> QED BY <2>1, <2>2 DEF RequestType
<1> HIDE DEF r
<1>2. /\ request' = [request EXCEPT ![c] = r] /\ launches' = launches + 1
      /\ ~ended /\ UNCHANGED <<tree, owned, box, lifeVars>> /\ request[c].pc = "idle"
  BY DEF ReserveSlot, Moves, At, r
<1>3. request'[c] = r /\ \A d \in TermCaller : d # c => request'[d] = request[d]
  BY <1>2 DEF TermInv, TermTypeOK
<1>4. TermTypeOK'
  BY <1>0, <1>1, <1>2, TermAssumption DEF TermInv, TermTypeOK, lifeVars, Launch
<1>5. RequestsSound'
  <2>1. RequestSound(request[c])'
    <3>1. tree'[launches + 1] # "up" /\ launches + 1 \in 1 .. launches'
      BY <1>0, <1>2 DEF TermInv, Unstarted
    <3> QED BY <1>1, <1>3, <3>1 DEF RequestSound
  <2>2. ASSUME NEW d \in TermCaller, d # c PROVE RequestSound(request[d])'
    BY <1>2, <1>3, <2>2 DEF TermInv, TermTypeOK, RequestsSound, RequestSound
  <2> QED BY <1>3, <2>1, <2>2 DEF RequestsSound
<1>6. IdsDistinct'
  <2>1. \A d \in TermCaller : request[d].id \in 0 .. launches
    BY DEF TermInv, TermTypeOK, RequestsSound, RequestSound, NoRequest
  <2> SUFFICES ASSUME NEW a \in TermCaller, NEW b \in TermCaller, a # b, request'[a].pc # "idle"
               PROVE  request'[a].id # request'[b].id
    BY DEF IdsDistinct, Id
  <2>2. CASE a = c \/ b = c
    BY <1>1, <1>3, <2>1, <2>2 DEF TermInv, TermTypeOK
  <2>3. CASE a # c /\ b # c
    BY <1>3, <2>3 DEF TermInv, IdsDistinct, Id
  <2> QED BY <2>2, <2>3
<1>7. NoneForgotten'
  <2> SUFFICES ASSUME NEW t \in Launch, tree'[t] = "up", t \notin owned'
               PROVE  \E d \in TermCaller : request'[d].id = t
    BY DEF NoneForgotten, Id
  <2>1. PICK d \in TermCaller : request[d].id = t
    BY <1>2 DEF TermInv, NoneForgotten, Id
  <2>2. d # c
    BY <1>2, <2>1 DEF TermInv, RequestsSound, RequestSound, NoRequest, Launch
  <2> QED BY <1>3, <2>1, <2>2
<1>8. Unstarted' /\ ShutIsFinal'
  BY <1>2 DEF TermInv, TermTypeOK, Unstarted, ShutIsFinal, lifeVars, Launch
<1> QED BY <1>4, <1>5, <1>6, <1>7, <1>8 DEF TermInv

LEMMA TermInitInv == TermInit => TermInv
<1> SUFFICES ASSUME TermInit PROVE TermInv
  OBVIOUS
<1>1. TermTypeOK
  <2>1. NoRequest \in RequestType /\ NoBox \in [by: Nat, state: {"none", "up", "broken"}]
    BY DEF NoRequest, NoBox, RequestType, RequestState
  <2>2. 0 \in 0 .. MaxLaunches
    BY TermAssumption
  <2> QED BY <2>1, <2>2 DEF TermInit, TermTypeOK
<1>2. RequestsSound /\ IdsDistinct
  BY DEF TermInit, RequestsSound, RequestSound, IdsDistinct, NoRequest
<1>3. Unstarted /\ NoneForgotten /\ ShutIsFinal
  BY DEF TermInit, Unstarted, NoneForgotten, ShutIsFinal
<1> QED BY <1>1, <1>2, <1>3 DEF TermInv

LEMMA TermNextInv == TermInv /\ [TermNext]_termVars => TermInv'
<1> SUFFICES ASSUME TermInv, [TermNext]_termVars PROVE TermInv'
  OBVIOUS
<1>1. CASE UNCHANGED termVars
  <2>1. tree' \in [Launch -> {"none", "up", "dead", "gone"}]
    BY <1>1 DEF TermInv, TermTypeOK, termVars
  <2> QED BY <1>1, <2>1, WorldStep DEF termVars, lifeVars
<1>2. ASSUME NEW t \in Launch, TreeEnds(t) PROVE TermInv'
  BY <1>2, WorldStep DEF TreeEnds, TermInv, TermTypeOK
<1>3. ASSUME NEW c \in TermCaller, CloseTerminal(c) PROVE TermInv'
  <2>1. UNCHANGED <<request, launches, tree, owned, box, folder, ended>> /\ ending' = TRUE
    BY <1>3 DEF CloseTerminal
  <2> QED BY <2>1 DEF TermInv, TermTypeOK, RequestsSound, RequestSound, IdsDistinct, Id,
                      Unstarted, NoneForgotten, ShutIsFinal, Running
<1> QED BY <1>1, <1>2, <1>3, ReserveInv, RequestStepInv, CloseStepInv DEF TermNext

(* No worker process is forgotten, for any number of requests and closes,   *)
(* and whether or not a signalled process goes: a request is at work on it  *)
(* or close will find it, and after close there is none.                    *)
THEOREM NoWorkerLeaks == TermSpec => []NothingLeaks
BY TermInitInv, TermNextInv, TermInvSafe, PTL DEF TermSpec

-----------------------------------------------------------------------------
(* The event bus                                                           *)

Subscription == [id: SubId, kind: EventKind \cup {"*"}, once: BOOLEAN]
Emission == [pc: {"idle", "record", "notify", "calls"}, event: 0 .. MaxEvents,
             kind: EventKind \cup {"*"}, todo: SUBSET Subscription]

BusTypeOK ==
  /\ subs \subseteq Subscription /\ nextSub \in 0 .. MaxSubs /\ nextEvent \in 0 .. MaxEvents
  /\ emitter \in [Emitter -> Emission]
  /\ delivered \in [SubId -> Seq(1 .. MaxEvents)]
  /\ retired \in [SubId -> 0 .. MaxEvents]

Heard(s, event) == \E i \in DOMAIN delivered[s] : delivered[s][i] = event

\* A subscription is known by its id, whether it is on the bus or still to be
\* called; one that is on the bus has no end yet.
Identified ==
  /\ \A s \in subs : s.id < nextSub /\ retired[s.id] = MaxEvents
  /\ \A s, t \in subs : s.id = t.id => s = t
  /\ \A e \in Emitter : \A s \in emitter[e].todo : s.id < nextSub
  /\ \A e \in Emitter : \A s \in emitter[e].todo : \A t \in subs : s.id = t.id => s = t
  /\ \A e, d \in Emitter : \A s \in emitter[e].todo : \A t \in emitter[d].todo : s.id = t.id => s = t
  /\ \A s \in SubId : nextSub <= s => delivered[s] = <<>> /\ retired[s] = MaxEvents

\* An event is published by one thread, and whoever it still has to call has
\* not heard of it.
Announced ==
  /\ \A e \in Emitter : emitter[e].pc # "idle" => emitter[e].event \in 1 .. nextEvent
  /\ \A e \in Emitter : emitter[e].pc # "calls" => emitter[e].todo = {}
  /\ \A e, d \in Emitter : e # d /\ emitter[e].pc # "idle" /\ emitter[d].pc # "idle" =>
                             emitter[e].event # emitter[d].event
  /\ \A e \in Emitter : emitter[e].pc \in {"record", "notify"} =>
       \A s \in SubId : ~Heard(s, emitter[e].event)
  /\ \A e \in Emitter : \A s \in emitter[e].todo :
       ~Heard(s.id, emitter[e].event) /\ emitter[e].event <= retired[s.id]
  /\ \A s \in SubId : \A i \in DOMAIN delivered[s] : delivered[s][i] <= nextEvent

\* Who asked for a single event is not on the bus once somebody is to call it.
OnceOnly == \A s \in subs : s.once => \A e \in Emitter : s \notin emitter[e].todo

BusInv == BusTypeOK /\ Identified /\ Announced /\ OnceOnly /\ DeliveriesSound

LEMMA BusInitially == BusInit => BusInv
<1> SUFFICES ASSUME BusInit PROVE BusInv
  OBVIOUS
<1>1. /\ subs = {} /\ nextSub = 0 /\ nextEvent = 0 /\ emitter = [e \in Emitter |-> Resting]
      /\ delivered = [s \in SubId |-> <<>>] /\ retired = [s \in SubId |-> MaxEvents]
  BY DEF BusInit
<1>2. Resting \in Emission /\ Resting.pc = "idle" /\ Resting.todo = {}
  BY BusAssumption DEF Resting, Emission
<1>3. \A s \in SubId : delivered[s] = <<>> /\ DOMAIN delivered[s] = {}
  BY <1>1
<1>4. BusTypeOK
  BY <1>1, <1>2, BusAssumption DEF BusTypeOK
<1>5. Identified /\ Announced /\ OnceOnly
  BY <1>1, <1>2, <1>3, BusAssumption DEF Identified, Announced, OnceOnly, Heard, SubId
<1>6. DeliveriesSound
  BY <1>1, <1>2, <1>3 DEF DeliveriesSound, CalledOnce, NothingNewAfterwards, IsInjective
<1> QED
  BY <1>4, <1>5, <1>6 DEF BusInv

LEMMA BusFacts ==
  ASSUME BusInv
  PROVE  /\ SubId \subseteq Nat /\ nextSub \in Nat /\ nextEvent \in Nat /\ MaxEvents \in Nat /\ MaxSubs \in Nat
         /\ \A s \in subs : s \in Subscription /\ s.id \in SubId
         /\ \A e \in Emitter : emitter[e] \in Emission
         /\ \A e \in Emitter : emitter[e].event \in 0 .. MaxEvents
         /\ \A e \in Emitter : \A s \in emitter[e].todo : s \in Subscription /\ s.id \in SubId
         /\ \A s \in SubId : delivered[s] \in Seq(1 .. MaxEvents) /\ retired[s] \in 0 .. MaxEvents
<1>1. BusTypeOK /\ SubId \subseteq Nat /\ nextSub \in Nat /\ nextEvent \in Nat /\ MaxEvents \in Nat /\ MaxSubs \in Nat
  BY BusAssumption DEF BusInv, BusTypeOK, SubId
<1>2. \A s \in Subscription : s.id \in SubId
  BY DEF Subscription
<1>3. \A e \in Emitter : emitter[e] \in Emission
  BY <1>1 DEF BusTypeOK
<1>4. \A e \in Emitter : emitter[e].event \in 0 .. MaxEvents /\ emitter[e].todo \subseteq Subscription
  BY <1>3 DEF Emission
<1> QED
  BY <1>1, <1>2, <1>3, <1>4 DEF BusTypeOK

LEMMA SubscribeKeeps ==
  ASSUME BusInv, NEW kind \in EventKind \cup {"*"}, NEW once \in BOOLEAN, Subscribe(kind, once)
  PROVE  BusInv'
<1> DEFINE new == [id |-> nextSub, kind |-> kind, once |-> once]
<1>1. /\ subs' = subs \cup {new} /\ nextSub' = nextSub + 1 /\ nextSub \in SubId
      /\ new \in Subscription /\ new.id = nextSub
      /\ UNCHANGED <<nextEvent, emitter, delivered, retired>>
  BY BusAssumption DEF Subscribe, BusInv, BusTypeOK, SubId, Subscription
<1> HIDE DEF new
<1>2. BusTypeOK'
  BY <1>1, BusFacts DEF BusInv, BusTypeOK, SubId
<1>3. \A e \in Emitter : \A s \in emitter[e].todo : s.id \in SubId /\ s.id < nextSub /\ s # new
  BY <1>1, BusFacts DEF BusInv, Identified
<1>4. \A s \in subs : s.id \in SubId /\ s.id < nextSub
  BY BusFacts DEF BusInv, Identified
<1>5. delivered[nextSub] = <<>> /\ retired[nextSub] = MaxEvents
  BY <1>1, BusFacts DEF BusInv, Identified
<1>6. Identified'
  <2>1. \A s \in subs' : s.id < nextSub' /\ retired'[s.id] = MaxEvents'
    BY <1>1, <1>4, <1>5, BusFacts DEF BusInv, Identified
  <2>2. \A s, t \in subs' : s.id = t.id => s = t
    BY <1>1, <1>4, BusFacts DEF BusInv, Identified
  <2>3. \A e \in Emitter : \A s \in emitter'[e].todo : s.id < nextSub'
    BY <1>1, <1>3, BusFacts
  <2>4. \A e \in Emitter : \A s \in emitter'[e].todo : \A t \in subs' : s.id = t.id => s = t
    BY <1>1, <1>3, BusFacts DEF BusInv, Identified
  <2>5. \A e, d \in Emitter : \A s \in emitter'[e].todo : \A t \in emitter'[d].todo : s.id = t.id => s = t
    BY <1>1 DEF BusInv, Identified
  <2>6. \A s \in SubId : nextSub' <= s => delivered'[s] = <<>> /\ retired'[s] = MaxEvents
    BY <1>1, BusFacts DEF BusInv, Identified
  <2> QED
    BY <2>1, <2>2, <2>3, <2>4, <2>5, <2>6 DEF Identified
<1>7. Announced'
  BY <1>1 DEF BusInv, Announced, Heard
<1>8. OnceOnly'
  BY <1>1, <1>3 DEF BusInv, OnceOnly
<1>9. DeliveriesSound'
  BY <1>1, <1>5 DEF BusInv, DeliveriesSound, CalledOnce, NothingNewAfterwards
<1> QED
  BY <1>2, <1>6, <1>7, <1>8, <1>9 DEF BusInv

\* Subscriptions leave the bus: what they were called with, and what they are
\* still to be called with, was made by then.
LEMMA LeavesBus ==
  ASSUME BusInv, subs' \subseteq subs, NEW ids, ids = {s.id : s \in subs \ subs'}, Retire(ids),
         UNCHANGED <<nextSub, nextEvent, delivered>>
  PROVE  /\ \A s \in subs' : retired'[s.id] = MaxEvents
         /\ \A s \in SubId : retired'[s] \in {retired[s], nextEvent}
         /\ \A s \in SubId : nextSub <= s => retired'[s] = MaxEvents
         /\ retired' \in [SubId -> 0 .. MaxEvents]
         /\ NothingNewAfterwards'
<1>1. retired' = [s \in SubId |-> IF s \in ids THEN nextEvent ELSE retired[s]]
  BY DEF Retire
<1>2. \A s \in subs' : s.id \notin ids
  BY DEF BusInv, Identified
<1>3. \A s \in ids : s < nextSub
  BY DEF BusInv, Identified
<1>4. \A s \in subs' : retired'[s.id] = MaxEvents
  BY <1>1, <1>2, BusFacts DEF BusInv, Identified
<1>5. \A s \in SubId : retired'[s] \in {retired[s], nextEvent}
  BY <1>1
<1>6. \A s \in SubId : nextSub <= s => retired'[s] = MaxEvents
  BY <1>1, <1>3, BusFacts DEF BusInv, Identified
<1>7. retired' \in [SubId -> 0 .. MaxEvents]
  BY <1>1, BusFacts DEF BusInv, BusTypeOK
<1>8. NothingNewAfterwards'
  BY <1>5, BusFacts DEF BusInv, DeliveriesSound, NothingNewAfterwards, Announced
<1> QED
  BY <1>4, <1>5, <1>6, <1>7, <1>8

LEMMA UnsubscribeKeeps ==
  ASSUME BusInv, UNCHANGED <<nextSub, nextEvent, emitter, delivered>>, subs' \subseteq subs,
         Retire({s.id : s \in subs \ subs'})
  PROVE  BusInv'
<1>1. /\ \A s \in subs' : retired'[s.id] = MaxEvents
      /\ \A s \in SubId : retired'[s] \in {retired[s], nextEvent}
      /\ \A s \in SubId : nextSub <= s => retired'[s] = MaxEvents
      /\ retired' \in [SubId -> 0 .. MaxEvents]
      /\ NothingNewAfterwards'
  BY LeavesBus
<1>2. BusTypeOK'
  BY <1>1 DEF BusInv, BusTypeOK
<1>3. Identified'
  BY <1>1 DEF BusInv, Identified
<1>4. \A e \in Emitter : emitter[e].todo # {} => emitter[e].event \in 1 .. nextEvent
  BY BusFacts DEF BusInv, Announced
<1>5. Announced'
  <2>1. ASSUME NEW e \in Emitter, NEW s \in emitter[e].todo
        PROVE  emitter[e].event <= retired'[s.id]
    <3>1. emitter[e].event \in 1 .. nextEvent /\ s.id \in SubId
      BY <1>4, BusFacts
    <3>2. emitter[e].event <= retired[s.id]
      BY DEF BusInv, Announced
    <3>3. retired'[s.id] = retired[s.id] \/ retired'[s.id] = nextEvent
      BY <1>1, <3>1
    <3> QED
      BY <3>1, <3>2, <3>3, BusFacts
  <2> QED
    BY <2>1 DEF BusInv, Announced, Heard
<1>6. OnceOnly' /\ CalledOnce'
  BY DEF BusInv, OnceOnly, DeliveriesSound, CalledOnce
<1> QED
  BY <1>1, <1>2, <1>3, <1>5, <1>6 DEF BusInv, DeliveriesSound

LEMMA EmitKeeps ==
  ASSUME BusInv, NEW e \in Emitter, NEW kind \in EventKind \cup {"*"}, Emit(e, kind)
  PROVE  BusInv'
<1> DEFINE m == [Resting EXCEPT !.pc = "record", !.event = nextEvent + 1, !.kind = kind]
<1>1. /\ m \in Emission /\ m.pc = "record" /\ m.event = nextEvent + 1 /\ m.todo = {}
      /\ nextEvent' = nextEvent + 1 /\ nextEvent' \in 0 .. MaxEvents /\ emitter[e].pc = "idle"
      /\ emitter' = [emitter EXCEPT ![e] = m] /\ UNCHANGED <<subs, nextSub, delivered, retired>>
  <2>1. nextEvent + 1 \in 0 .. MaxEvents
    BY BusFacts DEF Emit
  <2>2. m \in Emission /\ m.pc = "record" /\ m.event = nextEvent + 1 /\ m.todo = {}
    BY <2>1 DEF Resting, Emission
  <2> QED
    BY <2>1, <2>2 DEF Emit
<1> HIDE DEF m
<1>2. emitter'[e] = m /\ \A d \in Emitter \ {e} : emitter'[d] = emitter[d]
  BY <1>1 DEF BusInv, BusTypeOK
<1>3. BusTypeOK'
  BY <1>1 DEF BusInv, BusTypeOK
<1>4. Identified'
  BY <1>1, <1>2 DEF BusInv, Identified
<1>5. Announced'
  <2>1. ASSUME NEW s \in SubId, NEW i \in DOMAIN delivered[s]
        PROVE  delivered[s][i] # nextEvent + 1
    <3>1. delivered[s][i] \in Int /\ delivered[s][i] <= nextEvent
      BY BusFacts DEF BusInv, Announced
    <3> QED
      BY <3>1, BusFacts
  <2>2. \A d \in Emitter : emitter'[d].pc # "idle" => emitter'[d].event \in 1 .. nextEvent'
    BY <1>1, <1>2, BusFacts DEF BusInv, Announced
  <2>3. \A d \in Emitter : emitter'[d].pc # "calls" => emitter'[d].todo = {}
    BY <1>1, <1>2 DEF BusInv, Announced
  <2>4. \A c, d \in Emitter : c # d /\ emitter'[c].pc # "idle" /\ emitter'[d].pc # "idle" =>
                                emitter'[c].event # emitter'[d].event
    BY <1>1, <1>2, BusFacts DEF BusInv, Announced
  <2>5. \A d \in Emitter : emitter'[d].pc \in {"record", "notify"} =>
          \A s \in SubId : ~Heard(s, emitter[d].event)'
    <3>1. ASSUME NEW d \in Emitter, emitter'[d].pc \in {"record", "notify"}, NEW s \in SubId,
                 Heard(s, emitter[d].event)'
          PROVE  FALSE
      <4>1. CASE d = e
        BY <1>1, <1>2, <2>1, <3>1, <4>1 DEF Heard
      <4>2. CASE d # e
        BY <1>1, <1>2, <3>1, <4>2 DEF BusInv, Announced, Heard
      <4> QED
        BY <4>1, <4>2
    <3> QED
      BY <3>1
  <2>6. \A d \in Emitter : \A s \in emitter'[d].todo :
          ~Heard(s.id, emitter[d].event)' /\ emitter'[d].event <= retired'[s.id]
    BY <1>1, <1>2 DEF BusInv, Announced, Heard
  <2>7. \A s \in SubId : \A i \in DOMAIN delivered'[s] : delivered'[s][i] <= nextEvent'
    BY <1>1, BusFacts DEF BusInv, Announced
  <2> QED
    BY <2>2, <2>3, <2>4, <2>5, <2>6, <2>7 DEF Announced
<1>6. OnceOnly'
  BY <1>1, <1>2 DEF BusInv, OnceOnly
<1>7. CalledOnce'
  BY <1>1, <1>2 DEF BusInv, DeliveriesSound, CalledOnce
<1>8. NothingNewAfterwards'
  BY <1>1 DEF BusInv, DeliveriesSound, NothingNewAfterwards
<1> QED
  BY <1>3, <1>4, <1>5, <1>6, <1>7, <1>8 DEF BusInv, DeliveriesSound

\* The event is recorded, or its emission is over.
LEMMA GoesOnKeeps ==
  ASSUME BusInv, NEW e \in Emitter, DispatchRecords(e) \/ EmitReturns(e)
  PROVE  BusInv'
<1>1. /\ emitter'[e] \in Emission /\ emitter[e].todo = {} /\ emitter'[e].todo = {}
      /\ emitter' = [emitter EXCEPT ![e] = emitter'[e]]
      /\ \/ emitter'[e].pc = "idle"
         \/ emitter[e].pc = "record" /\ emitter'[e].pc = "notify" /\ emitter'[e].event = emitter[e].event
      /\ UNCHANGED <<subs, nextSub, nextEvent, delivered, retired>>
  <2>1. emitter \in [Emitter -> Emission] /\ emitter[e] \in Emission
    BY DEF BusInv, BusTypeOK
  <2>2. CASE DispatchRecords(e)
    BY <2>1, <2>2 DEF DispatchRecords, Emission, BusInv, Announced
  <2>3. CASE EmitReturns(e)
    BY <2>1, <2>3, BusFacts DEF EmitReturns, Emission, Resting
  <2> QED
    BY <2>2, <2>3
<1>2. \A d \in Emitter \ {e} : emitter'[d] = emitter[d]
  BY <1>1 DEF BusInv, BusTypeOK
<1>3. BusTypeOK'
  BY <1>1 DEF BusInv, BusTypeOK
<1>4. Identified'
  BY <1>1, <1>2 DEF BusInv, Identified
<1>5. Announced'
  BY <1>1, <1>2 DEF BusInv, Announced, Heard
<1>6. OnceOnly' /\ CalledOnce'
  BY <1>1, <1>2 DEF BusInv, OnceOnly, DeliveriesSound, CalledOnce
<1>7. NothingNewAfterwards'
  BY <1>1 DEF BusInv, DeliveriesSound, NothingNewAfterwards
<1> QED
  BY <1>3, <1>4, <1>5, <1>6, <1>7 DEF BusInv, DeliveriesSound

LEMMA CollectKeeps ==
  ASSUME BusInv, NEW e \in Emitter, CollectSubscribers(e)
  PROVE  BusInv'
<1> DEFINE called == {s \in subs : Hears(emitter[e].kind, s)}
           m == [[emitter[e] EXCEPT !.pc = "calls"] EXCEPT !.todo = called]
<1>1. /\ emitter[e].pc = "notify" /\ emitter[e] \in Emission /\ called \subseteq subs
      /\ emitter' = [emitter EXCEPT ![e].pc = "calls", ![e].todo = called]
      /\ subs' = {s \in subs : StillSubscribed(emitter[e].kind, s)}
      /\ Retire({s.id : s \in subs \ subs'}) /\ UNCHANGED <<nextSub, nextEvent, delivered>>
  BY DEF CollectSubscribers, BusInv, BusTypeOK
<1>2. \A s \in called : s.once => s \notin subs'
  BY <1>1 DEF StillSubscribed
<1>3. subs' \subseteq subs
  BY <1>1
<1>4. called \in SUBSET Subscription
  BY <1>1, BusFacts
<1> HIDE DEF called
<1>5. /\ emitter'[e] \in Emission /\ emitter'[e].pc = "calls" /\ emitter'[e].todo = called
      /\ emitter'[e].event = emitter[e].event
      /\ \A d \in Emitter \ {e} : emitter'[d] = emitter[d]
      /\ emitter' \in [Emitter -> Emission]
  BY <1>1, <1>4 DEF BusInv, BusTypeOK, Emission
<1>6. /\ \A s \in subs' : retired'[s.id] = MaxEvents
      /\ \A s \in SubId : retired'[s] \in {retired[s], nextEvent}
      /\ \A s \in SubId : nextSub <= s => retired'[s] = MaxEvents
      /\ retired' \in [SubId -> 0 .. MaxEvents]
      /\ NothingNewAfterwards'
  BY <1>1, <1>3, LeavesBus
<1>7. BusTypeOK'
  BY <1>1, <1>3, <1>5, <1>6 DEF BusInv, BusTypeOK
<1>8. \A d \in Emitter : \A s \in emitter'[d].todo : s \in emitter[d].todo \/ (d = e /\ s \in subs)
  BY <1>1, <1>5
<1>9. Identified'
  <2>1. \A d \in Emitter : \A s \in emitter'[d].todo : s.id < nextSub'
    BY <1>1, <1>8 DEF BusInv, Identified
  <2>2. \A d \in Emitter : \A s \in emitter'[d].todo : \A t \in subs' : s.id = t.id => s = t
    BY <1>3, <1>8 DEF BusInv, Identified
  <2>3. \A c, d \in Emitter : \A s \in emitter'[c].todo : \A t \in emitter'[d].todo : s.id = t.id => s = t
    BY <1>8 DEF BusInv, Identified
  <2> QED
    BY <1>1, <1>3, <1>6, <2>1, <2>2, <2>3 DEF BusInv, Identified
<1>10. \A d \in Emitter : emitter'[d].pc # "idle" => emitter'[d].event \in 1 .. nextEvent
  BY <1>1, <1>5 DEF BusInv, Announced
<1>11. Announced'
  <2>1. \A d \in Emitter : emitter'[d].pc # "calls" => emitter'[d].todo = {}
    BY <1>5 DEF BusInv, Announced
  <2>2. \A c, d \in Emitter : c # d /\ emitter'[c].pc # "idle" /\ emitter'[d].pc # "idle" =>
                                emitter'[c].event # emitter'[d].event
    BY <1>1, <1>5 DEF BusInv, Announced
  <2>3. \A d \in Emitter : emitter'[d].pc \in {"record", "notify"} =>
          \A s \in SubId : ~Heard(s, emitter[d].event)'
    BY <1>1, <1>5 DEF BusInv, Announced, Heard
  <2>4. ASSUME NEW d \in Emitter, NEW s \in emitter'[d].todo
        PROVE  ~Heard(s.id, emitter[d].event)' /\ emitter'[d].event <= retired'[s.id]
    <3>1. s.id \in SubId /\ emitter'[d].pc # "idle" /\ emitter'[d].event = emitter[d].event
      BY <1>1, <1>5, <1>8, <2>1, BusFacts
    <3>2. ~Heard(s.id, emitter[d].event) /\ emitter[d].event <= retired[s.id]
      <4>1. CASE s \in emitter[d].todo
        BY <4>1 DEF BusInv, Announced
      <4>2. CASE d = e /\ s \in subs
        BY <1>1, <3>1, <4>2, BusFacts DEF BusInv, Announced, Identified
      <4> QED
        BY <1>8, <4>1, <4>2
    <3>3. emitter'[d].event <= retired'[s.id]
      <4>1. emitter[d].event \in 1 .. nextEvent
        BY <1>10, <3>1
      <4>2. retired'[s.id] = retired[s.id] \/ retired'[s.id] = nextEvent
        BY <1>6, <3>1
      <4> QED
        BY <3>1, <3>2, <4>1, <4>2, BusFacts
    <3> QED
      BY <1>1, <3>1, <3>2, <3>3 DEF Heard
  <2> QED
    BY <1>1, <1>10, <2>1, <2>2, <2>3, <2>4 DEF BusInv, Announced
<1>12. OnceOnly'
  BY <1>2, <1>3, <1>5 DEF BusInv, OnceOnly
<1>13. CalledOnce'
  <2>1. ASSUME NEW d \in Emitter, NEW s \in emitter'[d].todo, s.once
        PROVE  delivered[s.id] = <<>> /\ \A c \in Emitter \ {d} : s \notin emitter'[c].todo
    <3>1. CASE d # e
      BY <1>1, <1>5, <1>8, <2>1, <3>1 DEF BusInv, DeliveriesSound, CalledOnce, OnceOnly
    <3>2. CASE d = e
      BY <1>1, <1>5, <2>1, <3>2 DEF BusInv, DeliveriesSound, CalledOnce, OnceOnly
    <3> QED
      BY <3>1, <3>2
  <2> QED
    BY <1>1, <1>3, <2>1 DEF BusInv, DeliveriesSound, CalledOnce
<1> QED
  BY <1>6, <1>7, <1>9, <1>11, <1>12, <1>13 DEF BusInv, DeliveriesSound

LEMMA CallBackKeeps ==
  ASSUME BusInv, NEW e \in Emitter, CallBack(e)
  PROVE  BusInv'
<1>1. PICK s \in emitter[e].todo :
        /\ delivered' = [delivered EXCEPT ![s.id] = Append(@, emitter[e].event)]
        /\ emitter' = [emitter EXCEPT ![e].todo = @ \ {s}]
  BY DEF CallBack
<1> DEFINE k == emitter[e].event
           old == delivered[s.id]
<1>2. /\ UNCHANGED <<subs, nextSub, nextEvent, retired>> /\ emitter[e].pc = "calls"
      /\ s.id \in SubId /\ k \in 1 .. nextEvent /\ k \in 1 .. MaxEvents /\ emitter[e] \in Emission
      /\ old \in Seq(1 .. MaxEvents)
      /\ ~Heard(s.id, k) /\ k <= retired[s.id] /\ s.id < nextSub
  BY <1>1, BusFacts DEF CallBack, BusInv, Announced, Identified
<1>3. /\ emitter'[e] \in Emission /\ emitter'[e].pc = "calls" /\ emitter'[e].event = k
      /\ emitter'[e].todo = emitter[e].todo \ {s}
      /\ \A d \in Emitter \ {e} : emitter'[d] = emitter[d]
      /\ emitter' \in [Emitter -> Emission]
  BY <1>1, <1>2 DEF BusInv, BusTypeOK, Emission
<1>4. /\ delivered'[s.id] = Append(old, k) /\ \A i \in SubId \ {s.id} : delivered'[i] = delivered[i]
      /\ delivered' \in [SubId -> Seq(1 .. MaxEvents)]
  BY <1>1, <1>2 DEF BusInv, BusTypeOK
<1>5. /\ DOMAIN delivered'[s.id] = DOMAIN old \cup {Len(old) + 1} /\ delivered'[s.id][Len(old) + 1] = k
      /\ \A i \in DOMAIN old : i # Len(old) + 1 /\ delivered'[s.id][i] = old[i]
      /\ \A i \in DOMAIN old : old[i] # k
  BY <1>2, <1>4 DEF Heard
<1> HIDE DEF k, old
<1>6. \A i \in SubId : \A x \in Int : Heard(i, x)' => Heard(i, x) \/ (i = s.id /\ x = k)
  BY <1>4, <1>5 DEF Heard, old
<1>7. BusTypeOK'
  BY <1>2, <1>3, <1>4 DEF BusInv, BusTypeOK
<1>8. \A d \in Emitter : emitter'[d].todo \subseteq emitter[d].todo /\ emitter'[d].pc = emitter[d].pc
                         /\ emitter'[d].event = emitter[d].event
  BY <1>2, <1>3 DEF k
<1>9. Identified'
  <2>1. \A i \in SubId : nextSub <= i => i # s.id
    BY <1>2, BusFacts
  <2> QED
    BY <1>2, <1>4, <1>8, <2>1 DEF BusInv, Identified
<1>10. Announced'
  <2>1. \A d \in Emitter : d # e /\ emitter[d].pc # "idle" => emitter[d].event # k
    BY <1>2 DEF BusInv, Announced, k
  <2>2. \A d \in Emitter : emitter'[d].pc \in {"record", "notify"} =>
          \A i \in SubId : ~Heard(i, emitter[d].event)'
    <3>1. \A d \in Emitter : emitter[d].pc \in {"record", "notify"} =>
            emitter[d].event # k /\ \A i \in SubId : ~Heard(i, emitter[d].event)
      BY <1>2, <2>1 DEF BusInv, Announced
    <3>2. \A d \in Emitter : emitter'[d].event = emitter[d].event /\ emitter[d].event \in Int
      BY <1>8, BusFacts
    <3>3. ASSUME NEW d \in Emitter, emitter'[d].pc \in {"record", "notify"}, NEW i \in SubId
          PROVE  ~Heard(i, emitter[d].event)'
      BY <1>6, <1>8, <3>1, <3>2, <3>3 DEF Heard
    <3> QED
      BY <3>3
  <2>3. ASSUME NEW d \in Emitter, NEW t \in emitter'[d].todo
        PROVE  ~Heard(t.id, emitter[d].event)' /\ emitter'[d].event <= retired'[t.id]
    <3>1. t \in emitter[d].todo /\ t.id \in SubId /\ emitter'[d].event = emitter[d].event
          /\ emitter[d].pc # "idle"
      BY <1>8, <2>3, BusFacts DEF BusInv, Announced
    <3>2. t.id = s.id => t = s
      BY <1>1, <3>1 DEF BusInv, Identified
    <3>3. ~(t.id = s.id /\ emitter[d].event = k)
      BY <1>3, <2>1, <2>3, <3>1, <3>2
    <3>4. ~Heard(t.id, emitter[d].event) /\ emitter[d].event <= retired[t.id]
      BY <3>1 DEF BusInv, Announced
    <3>5. emitter[d].event \in Int
      BY BusFacts
    <3>6. ~Heard(t.id, emitter[d].event)'
      BY <1>6, <3>1, <3>3, <3>4, <3>5 DEF Heard
    <3> QED
      BY <1>2, <3>1, <3>4, <3>6
  <2>4. ASSUME NEW i \in SubId, NEW j \in DOMAIN delivered'[i]
        PROVE  delivered'[i][j] <= nextEvent'
    <3>1. CASE i = s.id
      <4>1. \A x \in DOMAIN old : old[x] <= nextEvent
        BY <1>2 DEF BusInv, Announced, old
      <4> QED
        BY <1>2, <1>5, <3>1, <4>1
    <3>2. CASE i # s.id
      BY <1>2, <1>4, <3>2 DEF BusInv, Announced
    <3> QED
      BY <3>1, <3>2
  <2> QED
    BY <1>2, <1>8, <2>2, <2>3, <2>4 DEF BusInv, Announced
<1>11. OnceOnly'
  BY <1>2, <1>8 DEF BusInv, OnceOnly
<1>12. CalledOnce'
  <2>1. \A i \in SubId : IsInjective(delivered'[i])
    <3>1. IsInjective(delivered'[s.id])
      BY <1>2, <1>5 DEF BusInv, DeliveriesSound, CalledOnce, IsInjective, old
    <3> QED
      BY <1>4, <3>1 DEF BusInv, DeliveriesSound, CalledOnce
  <2>2. \A t \in subs : t.once => t.id # s.id
    BY <1>1 DEF BusInv, Identified, OnceOnly
  <2>3. \A t \in subs' : t.once => delivered'[t.id] = <<>>
    BY <1>2, <1>4, <2>2, BusFacts DEF BusInv, DeliveriesSound, CalledOnce
  <2>4. ASSUME NEW d \in Emitter, NEW t \in emitter'[d].todo, t.once
        PROVE  delivered'[t.id] = <<>> /\ \A c \in Emitter \ {d} : t \notin emitter'[c].todo
    <3>1. t \in emitter[d].todo /\ t.id \in SubId
      BY <1>8, BusFacts
    <3>2. delivered[t.id] = <<>> /\ \A c \in Emitter \ {d} : t \notin emitter[c].todo
      BY <2>4, <3>1 DEF BusInv, DeliveriesSound, CalledOnce
    <3>3. t.id # s.id
      BY <1>1, <1>3, <2>4, <3>1, <3>2 DEF BusInv, Identified
    <3> QED
      BY <1>4, <1>8, <3>1, <3>2, <3>3
  <2> QED
    BY <2>1, <2>3, <2>4 DEF CalledOnce
<1>13. NothingNewAfterwards'
  BY <1>2, <1>4, <1>5, BusFacts DEF BusInv, DeliveriesSound, NothingNewAfterwards, k, old
<1> QED
  BY <1>7, <1>9, <1>10, <1>11, <1>12, <1>13 DEF BusInv, DeliveriesSound

LEMMA RecordKeeps ==
  ASSUME BusInv, NEW n \in 1 .. MaxEvents, RecordMany(n)
  PROVE  BusInv'
<1>1. /\ nextEvent' = nextEvent + n /\ nextEvent' \in 0 .. MaxEvents /\ nextEvent < nextEvent'
      /\ UNCHANGED <<subs, nextSub, emitter, delivered, retired>>
  BY BusFacts DEF RecordMany
<1>2. BusTypeOK' /\ Identified' /\ OnceOnly' /\ DeliveriesSound'
  BY <1>1 DEF BusInv, BusTypeOK, Identified, OnceOnly, DeliveriesSound, CalledOnce, NothingNewAfterwards
<1>3. Announced'
  <2>1. \A e \in Emitter : emitter[e].event <= nextEvent => emitter[e].event <= nextEvent'
    BY <1>1, BusFacts
  <2>2. \A s \in SubId : \A i \in DOMAIN delivered[s] : delivered[s][i] \in Int
    BY BusFacts
  <2> QED
    BY <1>1, <2>1, <2>2, BusFacts DEF BusInv, Announced, Heard
<1> QED
  BY <1>2, <1>3 DEF BusInv

LEMMA BusStep ==
  ASSUME BusInv, [BusNext]_busVars
  PROVE  BusInv'
<1>1. ASSUME NEW s \in SubId, Unsubscribe(s) PROVE BusInv'
  <2>1. subs' = {x \in subs : x.id # s} /\ {x.id : x \in subs \ subs'} = {s}
    BY <1>1 DEF Unsubscribe
  <2> QED
    BY <1>1, <2>1, UnsubscribeKeeps DEF Unsubscribe
<1>2. CASE Destroy
  <2>1. subs \ subs' = subs /\ subs' \subseteq subs
    BY <1>2 DEF Destroy
  <2> QED
    BY <1>2, <2>1, UnsubscribeKeeps DEF Destroy
<1>3. CASE UNCHANGED busVars
  BY <1>3 DEF busVars, BusInv, BusTypeOK, Identified, Announced, OnceOnly, DeliveriesSound, CalledOnce,
     NothingNewAfterwards, Heard
<1> QED
  BY <1>1, <1>2, <1>3, SubscribeKeeps, EmitKeeps, GoesOnKeeps, CollectKeeps, CallBackKeeps, RecordKeeps
     DEF BusNext

(* However many threads publish while others subscribe and leave: nobody   *)
(* hears of an event twice, who asked for one is called once, and nothing  *)
(* arrives that was published after a subscription had ended.              *)
THEOREM BusDelivers == BusSpec => []DeliveriesSound
<1>1. BusInv => DeliveriesSound
  BY DEF BusInv
<1> QED
  BY <1>1, BusInitially, BusStep, PTL DEF BusSpec

-----------------------------------------------------------------------------
(* The conversation of a role                                              *)

Deed == {"none", "raised", "denied", "returned"}
ToolCall == [tool: Tool, round: Nat, index: Nat]
Reply == [who: {"model"}, calls: Nat]
Answer == [who: {"tool"}, call: ToolCall, ok: BOOLEAN, did: Deed]
Reason == ArgumentFault \cup
  {"allowed", "tool_not_declared", "tool_not_granted", "tool_not_registered", "invalid_result", "handler_error",
   "result_too_large"}
Outcome == [ok: BOOLEAN, size: Nat, reason: Reason]
LogEntry == [call: ToolCall, result: Outcome]
ChatState == [pc: {"ask", "reply", "call", "decide", "handle", "look", "returned", "failed"},
              round: Nat, index: Nat, todo: Seq(Tool), calls: Nat, bytes: Nat]

ChatTypeOK ==
  /\ chat \in ChatState
  /\ transcript \in Seq(Reply \cup Answer)
  /\ invocations \in Seq(LogEntry)
  /\ Len(invocations) <= InvocationLimit
  /\ deed \in Deed /\ elapsed \in BOOLEAN

\* A reply is followed by an answer for each of its first n calls.
CallsMet(i, n) ==
  \A k \in 1 .. n : /\ i + k <= Len(transcript) /\ transcript[i + k].who = "tool"
                    /\ transcript[i + k].call.index = k - 1
RoundsAbove(n) ==
  \A i \in DOMAIN transcript : i < n /\ transcript[i].who = "model" => CallsMet(i, transcript[i].calls)

AnsweringCall == {"decide", "handle", "look"}

\* The reply whose calls are being made is the last one, and the place of the
\* current call says how many of them were answered.
Rounds ==
  /\ chat.pc \in {"ask", "reply", "returned"} => RoundsAbove(Len(transcript) + 1)
  /\ chat.pc \in {"call"} \cup AnsweringCall =>
       LET asked == Len(transcript) - chat.index
       IN  /\ asked \in DOMAIN transcript /\ RoundsAbove(asked)
           /\ transcript[asked].who = "model"
           /\ transcript[asked].calls = chat.index + Len(chat.todo)
           /\ CallsMet(asked, chat.index)

\* Nothing is told but what was done.
Honest ==
  /\ \A i \in Told : transcript[i].ok =>
       /\ transcript[i].call.tool \in Authorized
       /\ transcript[i].did = "returned" \/ i \notin Logged
  /\ \A i \in Told \ Logged : transcript[i].call.tool \in Deniers
  /\ chat.pc \in AnsweringCall => chat.todo # <<>>
  /\ chat.pc = "handle" => Current.tool \in Authorized
  /\ chat.pc = "look" /\ deed = "denied" => Current.tool \in Authorized \cap Deniers
  /\ chat.pc = "look" /\ deed # "denied" =>
       /\ invocations # <<>> /\ invocations[Len(invocations)].call = Current
       /\ invocations[Len(invocations)].result.ok => deed = "returned" /\ Current.tool \in Authorized

Within ==
  /\ chat.calls <= MaxCallsOfRun /\ chat.bytes <= TotalLimit
  /\ chat.pc = "call" => chat.calls + Len(chat.todo) <= MaxCallsOfRun
  /\ chat.pc \in AnsweringCall => chat.calls + Len(chat.todo) <= MaxCallsOfRun + 1

\* The log tells of the answers, as long as it has dropped nothing.
Tells ==
  \A i \in Logged : /\ invocations[Place(i)].call = transcript[i].call
                       /\ invocations[Place(i)].result.ok = transcript[i].ok
Recalls(n) == n <= InvocationLimit => Len(invocations) = n /\ Tells
LogKept ==
  /\ chat.pc \in {"ask", "reply", "call", "decide", "handle", "returned"} => Recalls(Cardinality(Logged))
  /\ chat.pc = "look" /\ deed = "denied" => Recalls(Cardinality(Logged))
  /\ chat.pc = "look" /\ deed # "denied" => Recalls(Cardinality(Logged) + 1)

ChatInv == ChatTypeOK /\ Rounds /\ Honest /\ Within /\ LogKept

LEMMA RoundsAreWhole ==
  ASSUME ChatTypeOK
  PROVE  RoundsAbove(Len(transcript) + 1) <=> WholeRounds
<1>1. \A i \in DOMAIN transcript : i < Len(transcript) + 1
  BY DEF ChatTypeOK, ChatState
<1> QED
  BY <1>1 DEF RoundsAbove, WholeRounds, CallsMet

LEMMA Counting ==
  ASSUME ChatTypeOK
  PROVE  /\ IsFiniteSet(Logged) /\ Cardinality(Logged) \in Nat
         /\ \A i \in Logged : Place(i) \in 1 .. Cardinality(Logged)
<1>1. Logged \in SUBSET (1 .. Len(transcript)) /\ Len(transcript) \in Nat
  BY DEF Logged, Told, ChatTypeOK, ChatState
<1>2. IsFiniteSet(Logged)
  <2>1. IsFiniteSet(1 .. Len(transcript))
    BY <1>1, FS_Interval
  <2> QED
    BY <1>1, <2>1, FS_Subset
<1>3. ASSUME NEW i \in Logged
      PROVE  Place(i) \in 1 .. Cardinality(Logged)
  <2> DEFINE before == {j \in Logged : j <= i}
  <2>1. before \in SUBSET Logged /\ i \in before
    BY <1>1
  <2>2. IsFiniteSet(before) /\ Cardinality(before) <= Cardinality(Logged)
    BY <1>2, <2>1, FS_Subset
  <2>3. Cardinality(before) \in Nat /\ Cardinality(Logged) \in Nat /\ Cardinality(before) # 0
    BY <1>2, <2>1, <2>2, FS_CardinalityType, FS_EmptySet
  <2> QED
    BY <2>2, <2>3 DEF Place
<1> QED
  BY <1>2, <1>3, FS_CardinalityType

LEMMA ReplyAdds ==
  ASSUME ChatTypeOK, NEW n \in Nat, transcript' = Append(transcript, [who |-> "model", calls |-> n])
  PROVE  /\ Told' = Told /\ Logged' = Logged
         /\ \A i \in Told : Place(i)' = Place(i) /\ transcript'[i] = transcript[i]
<1>1. /\ DOMAIN transcript' = 1 .. Len(transcript) + 1 /\ DOMAIN transcript = 1 .. Len(transcript)
      /\ \A i \in DOMAIN transcript : transcript'[i] = transcript[i]
      /\ transcript'[Len(transcript) + 1] = [who |-> "model", calls |-> n] /\ Len(transcript) \in Nat
  BY DEF ChatTypeOK, ChatState
<1>2. Told' = Told /\ \A i \in Told : transcript'[i] = transcript[i]
  BY <1>1 DEF Told
<1>3. Logged' = Logged
  BY <1>2 DEF Logged
<1> QED
  BY <1>2, <1>3 DEF Place

\* An answer is added to those the log should have, unless the handler denied.
LEMMA AnswerAdds ==
  ASSUME ChatTypeOK, NEW m, m.who = "tool", transcript' = Append(transcript, m),
         NEW last \in Nat, last = Len(transcript) + 1
  PROVE  /\ Told' = Told \cup {last}
         /\ m.did = "denied" => Logged' = Logged
         /\ m.did # "denied" => /\ Logged' = Logged \cup {last}
                                /\ Cardinality(Logged)' = Cardinality(Logged) + 1
                                /\ Place(last)' = Cardinality(Logged) + 1
         /\ \A i \in Told : transcript'[i] = transcript[i]
         /\ \A i \in Logged : Place(i)' = Place(i)
<1>1. /\ DOMAIN transcript' = 1 .. last /\ DOMAIN transcript = 1 .. Len(transcript)
      /\ \A i \in DOMAIN transcript : transcript'[i] = transcript[i]
      /\ transcript'[last] = m /\ Len(transcript) \in Nat
  BY DEF ChatTypeOK, ChatState
<1>2. /\ Told' = Told \cup {last} /\ last \notin Told
      /\ \A i \in Told : i <= Len(transcript) /\ i \in Nat /\ transcript'[i] = transcript[i]
  BY <1>1 DEF Told
<1>3. Logged' = IF m.did = "denied" THEN Logged ELSE Logged \cup {last}
  BY <1>1, <1>2 DEF Logged
<1>4. last \notin Logged /\ \A i \in Logged : i <= Len(transcript) /\ i \in Nat
  BY <1>2 DEF Logged
<1>5. ASSUME m.did # "denied"
      PROVE  /\ Cardinality(Logged)' = Cardinality(Logged) + 1
             /\ Place(last)' = Cardinality(Logged) + 1
  <2>1. Cardinality(Logged)' = Cardinality(Logged) + 1
    BY <1>3, <1>4, <1>5, Counting, FS_AddElement
  <2>2. {j \in Logged' : j <= last} = Logged'
    BY <1>1, <1>3, <1>4
  <2> QED
    BY <2>1, <2>2 DEF Place
<1>6. ASSUME NEW i \in Logged
      PROVE  Place(i)' = Place(i)
  <2>1. {j \in Logged' : j <= i} = {j \in Logged : j <= i}
    BY <1>1, <1>3, <1>4
  <2> QED
    BY <2>1 DEF Place
<1> QED
  BY <1>2, <1>3, <1>5, <1>6

LEMMA ChatInitially == ChatInit => ChatInv
<1> SUFFICES ASSUME ChatInit PROVE ChatInv
  OBVIOUS
<1>1. transcript = <<>> /\ invocations = <<>> /\ DOMAIN transcript = {} /\ Len(transcript) = 0
      /\ Len(invocations) = 0
  BY DEF ChatInit
<1>2. Told = {} /\ Logged = {} /\ Cardinality(Logged) = 0
  BY <1>1, FS_EmptySet DEF Told, Logged
<1>3. ChatTypeOK
  <2>1. <<>> \in Seq(Tool) /\ <<>> \in Seq(Reply \cup Answer) /\ <<>> \in Seq(LogEntry)
    OBVIOUS
  <2> QED
    <3>1. chat \in ChatState
      BY <2>1 DEF ChatInit, ChatState
    <3> QED
      <4>1. transcript \in Seq(Reply \cup Answer) /\ invocations \in Seq(LogEntry)
        BY <1>1, <2>1
      <4>2. Len(invocations) <= InvocationLimit
        BY <1>1, LoopAssumption
      <4>3. deed \in Deed /\ elapsed \in BOOLEAN
        BY DEF ChatInit, Deed
      <4> QED
        BY <3>1, <4>1, <4>2, <4>3 DEF ChatTypeOK
<1>4. Rounds /\ Honest /\ Within /\ LogKept
  BY <1>1, <1>2, LoopAssumption DEF ChatInit, Rounds, RoundsAbove, Honest, Within, LogKept, Recalls, Tells,
     AnsweringCall
<1> QED
  BY <1>3, <1>4 DEF ChatInv

\* A step that neither writes the log nor adds to the transcript.
LEMMA NothingTold ==
  ASSUME ChatInv, UNCHANGED <<transcript, invocations>>, ChatTypeOK', Rounds', Within',
         chat'.pc \in AnsweringCall \ {"look"} => chat'.todo # <<>>,
         chat'.pc = "handle" => (Current.tool \in Authorized)',
         chat'.pc \in {"ask", "reply", "call", "decide", "handle", "returned"} =>
           chat.pc \in {"ask", "reply", "call", "decide", "handle", "returned"},
         chat'.pc = "look" => chat.pc = "look" /\ UNCHANGED <<chat, deed>>
  PROVE  ChatInv'
<1>1. Told' = Told /\ Logged' = Logged /\ Cardinality(Logged)' = Cardinality(Logged)
  BY DEF Told, Logged
<1>2. \A i \in Logged : Place(i)' = Place(i)
  BY <1>1 DEF Place
<1>3. Tells' <=> Tells
  BY <1>1, <1>2 DEF Tells
<1>4. LogKept'
  BY <1>1, <1>3 DEF ChatInv, LogKept, Recalls
<1>5. Honest'
  BY <1>1 DEF ChatInv, Honest, Current, Authorized, Verdict, AnsweringCall
<1> QED
  BY <1>4, <1>5 DEF ChatInv

\* The loop moves on: only where it is, its round and its counters change.
LEMMA MovesOnKeeps ==
  ASSUME ChatInv, TimePasses \/ Ask \/ ReplyIsBad \/ BeginCall \/ EndRound
  PROVE  ChatInv'
<1> USE DEF ChatAt, Failed
<1>0. ChatTypeOK /\ Rounds /\ Within /\ UNCHANGED <<transcript, invocations, deed>>
  BY DEF ChatInv, TimePasses, Ask, ReplyIsBad, BeginCall, EndRound
<1>1. ChatTypeOK'
  <2>1. chat' \in ChatState
    <3>1. CASE TimePasses
      BY <1>0, <3>1 DEF ChatTypeOK, ChatState, TimePasses
    <3>2. CASE Ask \/ ReplyIsBad
      BY <1>0, <3>2 DEF ChatTypeOK, ChatState, Ask, ReplyIsBad
    <3>3. CASE BeginCall
      <4>1. chat \in ChatState /\ chat.calls + 1 \in Nat
        BY <1>0 DEF ChatTypeOK, ChatState
      <4> QED
        BY <3>3, <4>1 DEF ChatState, BeginCall
    <3>4. CASE EndRound
      <4>1. chat \in ChatState /\ chat.round + 1 \in Nat
        BY <1>0 DEF ChatTypeOK, ChatState
      <4> QED
        BY <3>4, <4>1 DEF ChatState, EndRound
    <3> QED
      BY <3>1, <3>2, <3>3, <3>4
  <2>2. elapsed' \in BOOLEAN
    BY <1>0 DEF ChatTypeOK, ChatState, TimePasses, Ask, ReplyIsBad, BeginCall, EndRound
  <2> QED
    BY <1>0, <2>1, <2>2 DEF ChatTypeOK, ChatState
<1>2. RoundsAbove(Len(transcript) + 1)' <=> RoundsAbove(Len(transcript) + 1)
  BY <1>0 DEF RoundsAbove, CallsMet
<1>3. CASE TimePasses \/ Ask \/ ReplyIsBad
  <2>1. /\ chat'.calls = chat.calls /\ chat'.bytes = chat.bytes
        /\ \/ chat' = chat
           \/ chat'.pc = "failed"
           \/ chat.pc = "ask" /\ chat'.pc = "reply"
    <3>1. CASE TimePasses
      BY <3>1 DEF TimePasses
    <3>2. CASE Ask \/ ReplyIsBad
      BY <1>0, <3>2 DEF ChatTypeOK, ChatState, Ask, ReplyIsBad
    <3> QED
      BY <1>3, <3>1, <3>2
  <2>2. Rounds'
    BY <1>0, <1>2, <2>1 DEF Rounds, RoundsAbove, CallsMet, AnsweringCall
  <2>3. Within'
    BY <1>0, <2>1 DEF Within, AnsweringCall
  <2>4. chat' = chat => (Current.tool \in Authorized)' <=> Current.tool \in Authorized
    BY DEF Current, Authorized, Verdict
  <2> QED
    BY <1>0, <1>1, <2>1, <2>2, <2>3, <2>4, NothingTold DEF ChatInv, Honest, AnsweringCall
<1>4. CASE BeginCall
  <2>0. chat.todo # <<>> /\ chat.todo \in Seq(Tool) /\ chat.calls \in Nat
    BY <1>0, <1>4 DEF BeginCall, ChatTypeOK, ChatState
  <2>1. /\ Len(chat.todo) \in Nat \ {0}
        /\ chat'.todo = chat.todo /\ chat'.index = chat.index /\ chat.pc = "call"
        /\ chat'.bytes = chat.bytes
        /\ \/ chat'.pc = "failed" /\ chat'.calls = chat.calls
           \/ chat'.pc = "decide" /\ chat'.calls = chat.calls + 1
    <3>1. Len(chat.todo) \in Nat \ {0}
      BY <2>0
    <3> QED
      BY <1>0, <1>4, <3>1 DEF BeginCall, ChatTypeOK, ChatState
  <2>2. Rounds'
    BY <1>0, <2>1 DEF Rounds, RoundsAbove, CallsMet, AnsweringCall
  <2>3. Within'
    BY <1>0, <2>0, <2>1, LoopAssumption DEF Within, AnsweringCall
  <2> QED
    BY <1>0, <1>1, <2>0, <2>1, <2>2, <2>3, NothingTold DEF AnsweringCall
<1>5. CASE EndRound
  <2>1. chat.pc = "call" /\ chat'.pc = "ask" /\ chat'.calls = chat.calls /\ chat'.bytes = chat.bytes
        /\ chat.todo = <<>> /\ chat.index \in Nat /\ Len(transcript) \in Nat
    BY <1>0, <1>5 DEF EndRound, ChatTypeOK, ChatState
  <2>2. RoundsAbove(Len(transcript) + 1)
    <3> DEFINE asked == Len(transcript) - chat.index
    <3>1. /\ asked \in DOMAIN transcript /\ RoundsAbove(asked)
          /\ transcript[asked].who = "model" /\ transcript[asked].calls = chat.index
          /\ CallsMet(asked, chat.index)
      BY <1>0, <2>1 DEF Rounds
    <3>2. ASSUME NEW i \in DOMAIN transcript, transcript[i].who = "model"
          PROVE  CallsMet(i, transcript[i].calls)
      <4>1. CASE i < asked
        BY <3>1, <3>2, <4>1 DEF RoundsAbove
      <4>2. CASE i > asked
        <5>1. i \in 1 .. Len(transcript) /\ i - asked \in 1 .. chat.index /\ asked + (i - asked) = i
          BY <1>0, <2>1, <4>2 DEF ChatTypeOK, ChatState
        <5>2. transcript[asked + (i - asked)].who = "tool"
          BY <3>1, <5>1 DEF CallsMet
        <5> QED
          BY <3>2, <5>1, <5>2
      <4>3. CASE i = asked
        BY <3>1, <4>3
      <4> QED
        BY <1>0, <2>1, <4>1, <4>2, <4>3 DEF ChatTypeOK, ChatState
    <3> QED
      BY <3>2 DEF RoundsAbove
  <2>3. Rounds' /\ Within'
    BY <1>0, <1>2, <2>1, <2>2 DEF Rounds, Within, AnsweringCall
  <2> QED
    BY <1>0, <1>1, <2>1, <2>3, NothingTold DEF AnsweringCall
<1> QED
  BY <1>3, <1>4, <1>5

\* The model answers.
LEMMA ReplyKeeps ==
  ASSUME ChatInv, NEW n \in Nat, transcript' = Append(transcript, [who |-> "model", calls |-> n]),
         chat.pc = "reply", UNCHANGED <<invocations, deed, elapsed>>, NEW tools \in Seq(Tool), Len(tools) = n,
         \/ chat' = [chat EXCEPT !.pc = "failed"]
         \/ n = 0 /\ chat' = [chat EXCEPT !.pc = "returned"]
         \/ chat.calls + n <= MaxCallsOfRun /\ chat' = [chat EXCEPT !.pc = "call", !.index = 0, !.todo = tools]
  PROVE  ChatInv'
<1>0. ChatTypeOK /\ Rounds /\ Within /\ LogKept
  BY DEF ChatInv
<1>1. /\ DOMAIN transcript' = 1 .. Len(transcript) + 1 /\ DOMAIN transcript = 1 .. Len(transcript)
      /\ \A i \in DOMAIN transcript : transcript'[i] = transcript[i]
      /\ transcript'[Len(transcript) + 1] = [who |-> "model", calls |-> n] /\ Len(transcript) \in Nat
      /\ Len(transcript') = Len(transcript) + 1
  BY <1>0 DEF ChatTypeOK, ChatState
<1>2. ChatTypeOK'
  <2>1. [who |-> "model", calls |-> n] \in Reply \cup Answer
    BY DEF Reply
  <2>2. transcript' \in Seq(Reply \cup Answer)
    BY <1>0, <2>1 DEF ChatTypeOK, ChatState
  <2>3. chat' \in ChatState
    <3>1. chat \in ChatState /\ 0 \in Nat
      BY <1>0 DEF ChatTypeOK, ChatState
    <3> QED
      BY <3>1 DEF ChatState
  <2> QED
    BY <1>0, <2>2, <2>3 DEF ChatTypeOK, ChatState
<1>3. /\ chat'.calls = chat.calls /\ chat'.bytes = chat.bytes
      /\ \/ chat'.pc = "failed"
         \/ n = 0 /\ chat'.pc = "returned"
         \/ chat.calls + n <= MaxCallsOfRun /\ chat'.pc = "call" /\ chat'.index = 0 /\ Len(chat'.todo) = n
  BY <1>0 DEF ChatTypeOK, ChatState
<1> PICK top \in Nat : top = Len(transcript) + 1
  BY <1>1
<1>4. RoundsAbove(top)'
  <2>1. RoundsAbove(Len(transcript) + 1)
    BY <1>0 DEF Rounds
  <2>2. ASSUME NEW i \in DOMAIN transcript, transcript'[i].who = "model"
        PROVE  CallsMet(i, transcript[i].calls)'
    <3>1. i < Len(transcript) + 1 /\ transcript'[i] = transcript[i]
      BY <1>1
    <3>2. CallsMet(i, transcript[i].calls)
      BY <2>1, <2>2, <3>1 DEF RoundsAbove
    <3>3. transcript'[i] = transcript[i]
      BY <1>1
    <3>4. \A k \in 1 .. transcript[i].calls : i + k \in DOMAIN transcript /\ i + k <= Len(transcript')
      BY <1>1, <3>2 DEF CallsMet
    <3> QED
      BY <1>1, <3>2, <3>3, <3>4 DEF CallsMet
  <2> QED
    <3>1. \A i \in DOMAIN transcript' : i < top => i \in DOMAIN transcript
      BY <1>1
    <3> QED
      BY <2>2, <3>1 DEF RoundsAbove
<1>5. Rounds'
  <2>1. CASE chat'.pc = "returned" /\ n = 0
    <3>1. ASSUME NEW i \in DOMAIN transcript', transcript'[i].who = "model"
          PROVE  CallsMet(i, transcript[i].calls)'
      <4>1. CASE i = top
        BY <1>1, <2>1, <4>1 DEF CallsMet
      <4>2. CASE i # top
        BY <1>1, <1>4, <3>1, <4>2 DEF RoundsAbove
      <4> QED
        BY <4>1, <4>2
    <3> QED
      BY <2>1, <3>1 DEF Rounds, RoundsAbove, AnsweringCall
  <2>2. CASE chat'.pc = "call" /\ chat'.index = 0 /\ Len(chat'.todo) = n
    <3>1. Len(transcript') - chat'.index = top /\ top \in DOMAIN transcript'
          /\ transcript'[top].who = "model" /\ transcript'[top].calls = chat'.index + Len(chat'.todo)
      BY <1>1, <2>2
    <3>2. RoundsAbove(Len(transcript) - chat.index)'
      BY <1>4, <3>1 DEF RoundsAbove, CallsMet
    <3>3. CallsMet(Len(transcript) - chat.index, chat.index)'
      BY <2>2 DEF CallsMet
    <3> QED
      BY <2>2, <3>1, <3>2, <3>3 DEF Rounds, AnsweringCall
  <2>3. CASE chat'.pc = "failed"
    BY <2>3 DEF Rounds, AnsweringCall
  <2> QED
    BY <1>3, <2>1, <2>2, <2>3
<1>6. /\ Told' = Told /\ Logged' = Logged /\ Logged \subseteq Told
      /\ \A i \in Told : Place(i)' = Place(i) /\ transcript'[i] = transcript[i]
  BY <1>0, ReplyAdds DEF Logged
<1>7. Honest'
  BY <1>3, <1>6 DEF ChatInv, Honest, Authorized, Verdict, AnsweringCall
<1>8. Within'
  BY <1>0, <1>3 DEF Within, AnsweringCall
<1>9. LogKept'
  <2>1. Recalls(Cardinality(Logged))
    BY <1>0 DEF LogKept
  <2>2. Cardinality(Logged)' = Cardinality(Logged) /\ (Tells => Tells')
    BY <1>6 DEF Tells
  <2> QED
    BY <1>3, <2>1, <2>2 DEF LogKept, Recalls
<1> QED
  BY <1>2, <1>5, <1>7, <1>8, <1>9 DEF ChatInv

\* What a call came to is recorded: the log drops its oldest entry if it is full.
LEMMA RecordingKeeps ==
  ASSUME ChatInv, chat.pc \in {"decide", "handle"}, NEW result \in Outcome, Recording(result),
         chat' = [chat EXCEPT !.pc = "look"], UNCHANGED <<transcript, elapsed>>,
         deed' \in Deed \ {"denied"},
         result.ok => deed' = "returned" /\ Current.tool \in Authorized
  PROVE  ChatInv'
<1> DEFINE entry == [call |-> Current, result |-> result]
           all == Append(invocations, entry)
<1>0. ChatTypeOK /\ Rounds /\ Within /\ LogKept /\ Honest /\ InvocationLimit \in Nat \ {0}
  BY LoopAssumption DEF ChatInv
<1>1. chat.todo # <<>> /\ Current \in ToolCall
  <2>1. chat.todo # <<>> /\ chat.todo \in Seq(Tool) /\ chat.round \in Nat /\ chat.index \in Nat
    BY <1>0 DEF Honest, AnsweringCall, ChatTypeOK, ChatState
  <2>2. Head(chat.todo) \in Tool
    BY <2>1
  <2> QED
    BY <2>1, <2>2 DEF Current, ToolCall
<1>2. /\ chat'.todo = chat.todo /\ chat'.index = chat.index /\ chat'.calls = chat.calls
      /\ chat'.bytes = chat.bytes /\ chat'.pc = "look" /\ chat'.round = chat.round
  BY <1>0 DEF ChatTypeOK, ChatState
<1>3. entry \in LogEntry /\ entry.call = Current /\ entry.result = result
  BY <1>1 DEF LogEntry
<1> HIDE DEF entry
<1>4. /\ all \in Seq(LogEntry) /\ Len(all) = Len(invocations) + 1
      /\ all[Len(all)] = entry /\ \A i \in 1 .. Len(invocations) : all[i] = invocations[i]
      /\ Len(invocations) \in Nat
  BY <1>0, <1>3 DEF ChatTypeOK, ChatState
<1>5. invocations' = IF Len(all) > InvocationLimit THEN Tail(all) ELSE all
  BY DEF Recording, entry
<1> HIDE DEF all
<1>6. /\ invocations' \in Seq(LogEntry) /\ Len(invocations') <= InvocationLimit
      /\ invocations' # <<>> /\ invocations'[Len(invocations')] = entry
  <2>1. CASE Len(all) > InvocationLimit
    <3>1. invocations' = Tail(all) /\ all # <<>> /\ Len(all) > 1
      BY <1>0, <1>4, <1>5, <2>1
    <3>2. /\ Tail(all) \in Seq(LogEntry) /\ Len(Tail(all)) = Len(all) - 1
          /\ Tail(all)[Len(all) - 1] = all[Len(all)]
      BY <1>4, <3>1
    <3> QED
      BY <1>0, <1>4, <3>1, <3>2 DEF ChatTypeOK, ChatState
  <2>2. CASE ~(Len(all) > InvocationLimit)
    BY <1>0, <1>4, <1>5, <2>2
  <2> QED
    BY <2>1, <2>2
<1>7. ChatTypeOK'
  BY <1>0, <1>6 DEF ChatTypeOK, ChatState
<1>8. Rounds'
  BY <1>0, <1>2 DEF Rounds, RoundsAbove, CallsMet, AnsweringCall
<1>9. Within'
  BY <1>0, <1>2 DEF Within, AnsweringCall
<1>10. /\ Told' = Told /\ Logged' = Logged /\ Cardinality(Logged)' = Cardinality(Logged)
       /\ \A i \in Logged : Place(i)' = Place(i)
  BY DEF Told, Logged, Place
<1>11. Honest'
  <2>1. Current' = Current /\ Authorized' = Authorized
    BY <1>2 DEF Current, Authorized, Verdict
  <2> QED
    BY <1>0, <1>1, <1>2, <1>3, <1>6, <1>10, <2>1 DEF Honest, AnsweringCall
<1>12. LogKept'
  <2>1. SUFFICES ASSUME Cardinality(Logged) + 1 <= InvocationLimit
                 PROVE  Len(invocations') = Cardinality(Logged) + 1 /\ Tells'
    BY <1>2, <1>10 DEF LogKept, Recalls
  <2>2. Len(invocations) = Cardinality(Logged) /\ Tells
    BY <1>0, <2>1, Counting DEF LogKept, Recalls
  <2>3. invocations' = all
    BY <1>0, <1>4, <1>5, <2>1, <2>2, Counting
  <2>4. \A i \in Logged : invocations'[Place(i)] = invocations[Place(i)]
    BY <1>0, <1>4, <2>2, <2>3, Counting
  <2> QED
    BY <1>4, <1>10, <2>2, <2>3, <2>4 DEF Tells
<1> QED
  BY <1>7, <1>8, <1>9, <1>11, <1>12 DEF ChatInv

\* The handler denies: nothing is recorded, and the log is that of the other answers.
LEMMA DenialKeeps ==
  ASSUME ChatInv, HandlerRaises("denied")
  PROVE  ChatInv'
<1>0. ChatTypeOK /\ Rounds /\ Within /\ LogKept /\ Honest
  BY DEF ChatInv
<1>1. /\ chat.pc = "handle" /\ Current.tool \in Authorized \cap Deniers /\ deed' = "denied"
      /\ chat' = [chat EXCEPT !.pc = "look"] /\ UNCHANGED <<transcript, invocations, elapsed>>
  BY <1>0 DEF HandlerRaises, IsRecorded, ChatAt, Honest
<1>2. /\ chat'.todo = chat.todo /\ chat'.index = chat.index /\ chat'.calls = chat.calls
      /\ chat'.bytes = chat.bytes /\ chat'.pc = "look" /\ chat'.round = chat.round
  BY <1>0, <1>1 DEF ChatTypeOK, ChatState
<1>3. ChatTypeOK'
  BY <1>0, <1>1 DEF ChatTypeOK, ChatState, Deed
<1>4. Rounds' /\ Within'
  BY <1>0, <1>1, <1>2 DEF Rounds, RoundsAbove, CallsMet, Within, AnsweringCall
<1>5. Told' = Told /\ Logged' = Logged /\ \A i \in Logged : Place(i)' = Place(i)
  BY <1>1 DEF Told, Logged, Place
<1>6. Honest'
  <2>1. Current' = Current /\ Authorized' = Authorized
    BY <1>2 DEF Current, Authorized, Verdict
  <2> QED
    BY <1>0, <1>1, <1>2, <1>5, <2>1 DEF Honest, AnsweringCall
<1>7. LogKept'
  <2>1. Recalls(Cardinality(Logged)) /\ (Tells => Tells')
    BY <1>0, <1>1, <1>5 DEF LogKept, Tells
  <2> QED
    BY <1>1, <1>2, <1>5, <2>1 DEF LogKept, Recalls
<1> QED
  BY <1>3, <1>4, <1>6, <1>7 DEF ChatInv

LEMMA CallStepKeeps ==
  ASSUME ChatInv, \/ Decide \/ \E reason \in Raisable : HandlerRaises(reason)
                  \/ \E size \in Returnable : HandlerReturns(size)
  PROVE  ChatInv'
<1>0. ChatTypeOK /\ Rounds /\ Within /\ Honest /\ ResultLimit \in Nat
  BY LoopAssumption DEF ChatInv
<1>1. \A reason \in Reason : Failure(reason) \in Outcome /\ ~Failure(reason).ok
  BY DEF Failure, Outcome
<1>2. CASE Decide
  <2>1. chat.pc = "decide" /\ UNCHANGED <<transcript, elapsed>>
    BY <1>2 DEF Decide, ChatAt
  <2>2. ASSUME NEW reason \in Reason, Denied(reason) PROVE ChatInv'
    BY <1>1, <2>1, <2>2, RecordingKeeps DEF Denied, Deed
  <2>3. \A tool : Verdict(tool) \in Reason
    BY DEF Verdict, Reason
  <2>4. CASE chat' = [chat EXCEPT !.pc = "handle"] /\ UNCHANGED <<invocations, deed>> /\ Current.tool \in Authorized
    <3>1. /\ chat'.todo = chat.todo /\ chat'.index = chat.index /\ chat'.calls = chat.calls
          /\ chat'.bytes = chat.bytes /\ chat'.pc = "handle" /\ chat'.round = chat.round
      BY <1>0, <2>4 DEF ChatTypeOK, ChatState
    <3>2. Current' = Current /\ Authorized' = Authorized
      BY <3>1 DEF Current, Authorized, Verdict
    <3>3. ChatTypeOK'
      BY <1>0, <2>1, <2>4 DEF ChatTypeOK, ChatState
    <3>4. Rounds' /\ Within'
      BY <1>0, <2>1, <2>4, <3>1 DEF Rounds, RoundsAbove, CallsMet, AnsweringCall, Within
    <3>5. chat'.todo # <<>>
      BY <1>0, <2>1, <3>1 DEF Honest, AnsweringCall
    <3> QED
      BY <2>1, <2>4, <3>1, <3>2, <3>3, <3>4, <3>5, NothingTold
  <2> QED
    BY <1>2, <2>2, <2>3, <2>4 DEF Decide, Reason
<1>3. ASSUME NEW reason \in Raisable \ {"denied"}, HandlerRaises(reason) PROVE ChatInv'
  <2>1. /\ Failure(reason) \in Outcome /\ ~Failure(reason).ok /\ chat.pc = "handle" /\ Recording(Failure(reason))
        /\ deed' = "raised" /\ chat' = [chat EXCEPT !.pc = "look"] /\ UNCHANGED <<transcript, elapsed>>
    BY <1>1, <1>3 DEF HandlerRaises, IsRecorded, ChatAt, Raisable, Reason
  <2> QED
    BY <2>1, RecordingKeeps DEF Deed
<1>4. ASSUME NEW size \in Returnable, HandlerReturns(size) PROVE ChatInv'
  <2> DEFINE result == IF Fits(size) THEN Success(size) ELSE Failure("result_too_large")
  <2>1. result \in Outcome
    <3>1. Failure("result_too_large") \in Outcome
      BY <1>1 DEF Reason
    <3>2. size \in Nat
      BY <1>0 DEF Returnable
    <3>3. Success(size) \in Outcome
      BY <3>2 DEF Success, Outcome, Reason
    <3> QED
      BY <3>1, <3>3
  <2>2. chat.pc = "handle" /\ Current.tool \in Authorized
    BY <1>0, <1>4 DEF HandlerReturns, ChatAt, Honest
  <2> HIDE DEF result
  <2>3. /\ Recording(result) /\ deed' = "returned" /\ chat' = [chat EXCEPT !.pc = "look"]
        /\ UNCHANGED <<transcript, elapsed>>
    BY <1>4 DEF HandlerReturns, result
  <2> QED
    BY <2>1, <2>2, <2>3, RecordingKeeps DEF Deed
<1> QED
  BY <1>2, <1>3, <1>4, DenialKeeps

\* The last of some numbers up to n.
LEMMA Greatest ==
  ASSUME NEW n \in Nat, NEW T \in SUBSET (1 .. n), T # {}
  PROVE  \E x \in T : \A y \in T : y <= x
<1> DEFINE S == {n - y : y \in T}
           R == OpToRel(<, Nat)
<1>1. S \in SUBSET Nat /\ S # {}
  OBVIOUS
<1>2. IsWellFoundedOn(R, Nat)
  BY NatLessThanWellFounded, Zenon
<1> HIDE DEF S
<1>3. PICK k \in S : \A j \in S : <<j, k>> \notin R
  <2> HIDE DEF R
  <2> QED
    BY <1>1, <1>2, WFMin
<1>4. PICK x \in T : k = n - x
  BY DEF S
<1>5. ASSUME NEW y \in T, ~(y <= x) PROVE FALSE
  <2>1. n - y \in S /\ n - y \in Nat /\ k \in Nat /\ n - y < k
    BY <1>1, <1>4, <1>5 DEF S
  <2>2. <<n - y, k>>[1] < <<n - y, k>>[2] /\ <<n - y, k>> \in Nat \X Nat
    BY <2>1
  <2>3. <<n - y, k>> \in R
    BY <2>2, Zenon DEF OpToRel
  <2> QED
    BY <1>3, <2>1, <2>3
<1> QED
  BY <1>5

\* What the model is answered is a result, logged or not.
LEMMA AnswerIsResult ==
  ASSUME ChatTypeOK
  PROVE  ToolAnswer \in Outcome
<1>1. CASE Matching # {}
  <2>1. Matching \in SUBSET (1 .. Len(invocations)) /\ Len(invocations) \in Nat
    BY DEF Matching, ChatTypeOK
  <2>2. Newest \in Matching
    BY <1>1, <2>1, Greatest DEF Newest
  <2>3. invocations[Newest] \in LogEntry
    BY <2>1, <2>2 DEF ChatTypeOK
  <2> QED
    BY <1>1, <2>3 DEF ToolAnswer, LogEntry
<1>2. CASE Matching = {}
  BY <1>2 DEF ToolAnswer, Success, Outcome, Reason
<1> QED
  BY <1>1, <1>2

LEMMA ChargeKeeps ==
  ASSUME ChatInv, Charge
  PROVE  ChatInv'
<1> DEFINE last == invocations[Len(invocations)]
           spent == chat.bytes + ToolAnswer.size
           m == [who |-> "tool", call |-> Current, ok |-> ToolAnswer.ok, did |-> deed]
<1>0. ChatTypeOK /\ Rounds /\ Within /\ LogKept /\ Honest /\ chat.pc = "look" /\ UNCHANGED <<invocations, deed, elapsed>>
      /\ TotalLimit \in Nat
  BY LoopAssumption DEF ChatInv, Charge, ChatAt
<1>1. ASSUME deed # "denied" PROVE ToolAnswer = last.result /\ last.call = Current /\ last \in LogEntry
  <2>1. Len(invocations) \in DOMAIN invocations /\ DOMAIN invocations = 1 .. Len(invocations)
        /\ last \in LogEntry
    <3>1. invocations # <<>> /\ invocations \in Seq(LogEntry)
      BY <1>0, <1>1 DEF ChatTypeOK, ChatState, Honest
    <3>2. Len(invocations) \in DOMAIN invocations /\ DOMAIN invocations = 1 .. Len(invocations)
      BY <3>1
    <3>3. last \in LogEntry
      BY <3>1, <3>2
    <3> QED
      BY <3>2, <3>3
  <2>2. Len(invocations) \in Matching /\ \A j \in Matching : j <= Len(invocations) /\ j \in Nat
    BY <1>0, <1>1, <2>1 DEF Matching, Honest
  <2>3. Newest = Len(invocations)
    BY <2>1, <2>2 DEF Newest
  <2> QED
    BY <1>0, <1>1, <2>1, <2>2, <2>3 DEF ToolAnswer, Honest
<1>2. ToolAnswer.ok \in BOOLEAN /\ ToolAnswer.size \in Nat /\ spent \in Nat /\ Current \in ToolCall
  <2>1. ToolAnswer.ok \in BOOLEAN /\ ToolAnswer.size \in Nat
    BY <1>0, AnswerIsResult DEF Outcome
  <2>2. chat.todo # <<>> /\ chat.todo \in Seq(Tool) /\ chat.round \in Nat /\ chat.index \in Nat
    BY <1>0 DEF Honest, AnsweringCall, ChatTypeOK, ChatState
  <2>3. Head(chat.todo) \in Tool /\ chat.bytes \in Nat
    BY <1>0, <2>2 DEF ChatTypeOK, ChatState
  <2> QED
    BY <2>1, <2>2, <2>3 DEF Current, ToolCall
<1>3. CASE Failed /\ UNCHANGED transcript
  <2>1. chat'.pc = "failed" /\ chat'.calls = chat.calls /\ chat'.bytes = chat.bytes
    BY <1>0, <1>3 DEF Failed, ChatTypeOK, ChatState
  <2>2. ChatTypeOK'
    BY <1>0, <1>3 DEF Failed, ChatTypeOK, ChatState
  <2>3. Rounds' /\ Within'
    BY <1>0, <2>1 DEF Rounds, AnsweringCall, Within
  <2> QED
    BY <1>0, <1>3, <2>1, <2>2, <2>3, NothingTold DEF AnsweringCall
<1>4. CASE /\ transcript' = Append(transcript, m) /\ spent <= TotalLimit
           /\ chat' = [chat EXCEPT !.pc = "call", !.bytes = spent, !.index = @ + 1, !.todo = Tail(@)]
  <2>1. /\ m \in Answer /\ m.who = "tool" /\ m.call = Current /\ m.did = deed
        /\ deed # "denied" => m.ok = last.result.ok /\ last.call = Current
    BY <1>0, <1>1, <1>2 DEF Answer, ChatTypeOK, ChatState
  <2> HIDE DEF m, spent, last
  <2>2. chat.todo # <<>> /\ Tail(chat.todo) \in Seq(Tool) /\ Len(Tail(chat.todo)) = Len(chat.todo) - 1
        /\ Len(chat.todo) \in Nat
    <3>1. chat.todo # <<>> /\ chat.todo \in Seq(Tool)
      BY <1>0 DEF Honest, AnsweringCall, ChatTypeOK, ChatState
    <3> QED
      BY <3>1
  <2>3. /\ chat'.pc = "call" /\ chat'.bytes = spent /\ chat'.index = chat.index + 1
        /\ chat'.todo = Tail(chat.todo) /\ chat'.calls = chat.calls /\ chat.index \in Nat
    BY <1>0, <1>4 DEF ChatTypeOK, ChatState
  <2>4. ChatTypeOK'
    <3>1. transcript' \in Seq(Reply \cup Answer)
      BY <1>0, <1>4, <2>1 DEF ChatTypeOK, ChatState
    <3>2. chat' \in ChatState
      <4>1. chat \in ChatState /\ chat.index + 1 \in Nat /\ spent \in Nat
        BY <1>0, <1>2, <2>3 DEF ChatTypeOK, ChatState, spent
      <4> QED
        BY <1>4, <2>2, <4>1 DEF ChatState
    <3> QED
      BY <1>0, <3>1, <3>2 DEF ChatTypeOK, ChatState
  <2>5. /\ DOMAIN transcript' = 1 .. Len(transcript) + 1 /\ DOMAIN transcript = 1 .. Len(transcript)
        /\ \A i \in DOMAIN transcript : transcript'[i] = transcript[i]
        /\ transcript'[Len(transcript) + 1] = m /\ Len(transcript) \in Nat
        /\ Len(transcript') = Len(transcript) + 1
    BY <1>0, <1>4 DEF ChatTypeOK, ChatState
  <2>6. Rounds'
    <3> DEFINE asked == Len(transcript) - chat.index
    <3>1. /\ asked \in DOMAIN transcript /\ RoundsAbove(asked)
          /\ transcript[asked].who = "model" /\ transcript[asked].calls = chat.index + Len(chat.todo)
          /\ CallsMet(asked, chat.index)
      BY <1>0 DEF Rounds, AnsweringCall
    <3>2. Len(transcript') - chat'.index = asked
      BY <2>3, <2>5
    <3>3. asked \in DOMAIN transcript' /\ transcript'[asked] = transcript[asked]
      BY <2>5, <3>1
    <3>4. CallsMet(Len(transcript) - chat.index, chat.index)'
      <4>1. ASSUME NEW k \in 1 .. chat.index
            PROVE  /\ asked + k <= Len(transcript') /\ transcript'[asked + k].who = "tool"
                   /\ transcript'[asked + k].call.index = k - 1
        BY <2>3, <2>5, <3>1 DEF CallsMet
      <4>2. asked + (chat.index + 1) = Len(transcript) + 1 /\ m.call.index = chat.index
        BY <2>1, <2>3, <2>5 DEF Current
      <4>3. \A k \in 1 .. chat'.index : k \in 1 .. chat.index \/ k = chat.index + 1
        BY <2>3
      <4>4. ASSUME NEW k \in 1 .. chat'.index
            PROVE  /\ asked + k <= Len(transcript') /\ transcript'[asked + k].who = "tool"
                   /\ transcript'[asked + k].call.index = k - 1
        <5>1. CASE k \in 1 .. chat.index
          BY <4>1, <5>1
        <5>2. CASE k = chat.index + 1
          BY <2>1, <2>3, <2>5, <4>2, <5>2
        <5> QED
          BY <4>3, <5>1, <5>2
      <4> QED
        BY <3>2, <4>4 DEF CallsMet
    <3>5. RoundsAbove(Len(transcript) - chat.index)'
      <4>1. ASSUME NEW i \in DOMAIN transcript, i < asked, transcript[i].who = "model"
            PROVE  CallsMet(i, transcript[i].calls)'
        <5>1. CallsMet(i, transcript[i].calls) /\ transcript'[i] = transcript[i]
          BY <2>5, <3>1, <4>1 DEF RoundsAbove
        <5>2. \A k \in 1 .. transcript[i].calls : i + k \in DOMAIN transcript /\ i + k <= Len(transcript')
          BY <2>5, <5>1 DEF CallsMet
        <5> QED
          BY <2>5, <5>1, <5>2 DEF CallsMet
      <4>2. ASSUME NEW i \in DOMAIN transcript', i < asked
            PROVE  i \in DOMAIN transcript /\ transcript'[i] = transcript[i]
        BY <2>3, <2>5, <4>2
      <4> QED
        BY <2>3, <2>5, <3>2, <4>1, <4>2 DEF RoundsAbove
    <3> QED
      <4>1. chat'.index + Len(chat'.todo) = chat.index + Len(chat.todo)
        BY <2>2, <2>3
      <4> QED
        BY <2>3, <3>1, <3>2, <3>3, <3>4, <3>5, <4>1 DEF Rounds, AnsweringCall
  <2> PICK top \in Nat : top = Len(transcript) + 1
    BY <2>5
  <2>7. /\ Told' = Told \cup {top}
        /\ m.did = "denied" => Logged' = Logged
        /\ m.did # "denied" => /\ Logged' = Logged \cup {top}
                               /\ Cardinality(Logged)' = Cardinality(Logged) + 1
                               /\ Place(top)' = Cardinality(Logged) + 1
        /\ \A i \in Told : transcript'[i] = transcript[i]
        /\ \A i \in Logged : Place(i)' = Place(i)
    BY <1>0, <1>4, <2>1, AnswerAdds
  <2>8. Honest'
    <3>1. transcript'[top] = m /\ Logged \subseteq Told
      BY <2>5 DEF Logged
    <3>2. m.ok => m.call.tool \in Authorized /\ (m.did = "returned" \/ m.did = "denied")
      BY <1>0, <2>1 DEF Honest, last
    <3>3. m.did = "denied" => m.call.tool \in Deniers /\ top \notin Logged'
      BY <1>0, <2>1, <3>1 DEF Honest, Logged
    <3>4. \A i \in Told' : transcript'[i].ok =>
            /\ transcript'[i].call.tool \in Authorized
            /\ transcript'[i].did = "returned" \/ i \notin Logged'
      <4>1. ASSUME NEW i \in Told, transcript[i].ok
            PROVE  transcript[i].did = "returned" \/ i \notin Logged'
        <5>1. transcript[i].did = "returned" \/ transcript'[i].did = "denied"
          BY <1>0, <2>7, <4>1 DEF Honest, Logged
        <5> QED
          BY <5>1 DEF Logged
      <4> QED
        BY <1>0, <2>7, <3>1, <3>2, <3>3, <4>1 DEF Honest
    <3>5. \A i \in Told' \ Logged' : transcript'[i].call.tool \in Deniers
      <4>1. ASSUME NEW i \in Told' \ Logged' PROVE (i = top /\ m.did = "denied") \/ i \in Told \ Logged
        BY <2>7, <4>1
      <4> QED
        BY <1>0, <2>7, <3>1, <3>3, <4>1 DEF Honest
    <3> QED
      BY <2>3, <3>4, <3>5 DEF Honest, AnsweringCall, Authorized, Verdict
  <2>9. Within'
    <3>1. chat.calls + Len(chat.todo) <= MaxCallsOfRun + 1 /\ chat.calls \in Nat /\ MaxCallsOfRun \in Nat
      BY <1>0, LoopAssumption DEF Within, AnsweringCall, ChatTypeOK, ChatState
    <3>2. chat'.calls + Len(chat'.todo) <= MaxCallsOfRun
      BY <2>2, <2>3, <3>1
    <3> QED
      BY <1>0, <1>4, <2>3, <3>2 DEF Within, AnsweringCall
  <2>10. LogKept'
    <3>1. CASE deed = "denied"
      <4>1. Recalls(Cardinality(Logged)) /\ Logged' = Logged /\ Logged \subseteq Told
        BY <1>0, <2>1, <2>7, <3>1 DEF LogKept, Logged
      <4>2. Tells => Tells'
        BY <1>0, <2>7, <4>1 DEF Tells
      <4> QED
        BY <1>0, <2>3, <4>1, <4>2 DEF LogKept, Recalls
    <3>2. CASE deed # "denied"
      <4>0. m.did # "denied" /\ Logged \subseteq Told
        BY <2>1, <3>2 DEF Logged
      <4>1. SUFFICES ASSUME Cardinality(Logged) + 1 <= InvocationLimit
                     PROVE  Len(invocations) = Cardinality(Logged) + 1 /\ Tells'
        BY <1>0, <2>3, <2>7, <4>0 DEF LogKept, Recalls
      <4>2. Len(invocations) = Cardinality(Logged) + 1 /\ Tells
        BY <1>0, <3>2, <4>1 DEF LogKept, Recalls
      <4>3. /\ invocations[Cardinality(Logged) + 1].call = m.call
            /\ invocations[Cardinality(Logged) + 1].result.ok = m.ok
        BY <2>1, <3>2, <4>2 DEF last
      <4>4. ASSUME NEW i \in Logged'
            PROVE  /\ invocations'[Place(i)'].call = transcript'[i].call
                   /\ invocations'[Place(i)'].result.ok = transcript'[i].ok
        <5>1. CASE i = top
          BY <1>0, <2>5, <2>7, <4>0, <4>3, <5>1
        <5>2. CASE i \in Logged
          BY <1>0, <2>7, <4>0, <4>2, <5>2 DEF Tells
        <5> QED
          BY <2>7, <4>0, <5>1, <5>2
      <4> QED
        BY <4>2, <4>4 DEF Tells
    <3> QED
      BY <3>1, <3>2
  <2> QED
    BY <2>4, <2>6, <2>8, <2>9, <2>10 DEF ChatInv
<1> QED
  BY <1>0, <1>2, <1>3, <1>4 DEF Charge

LEMMA ChatStep ==
  ASSUME ChatInv, [ChatNext]_chatVars
  PROVE  ChatInv'
<1>0. ChatTypeOK
  BY DEF ChatInv
<1>1. CASE ReplyIsFinal
  <2>1. chat.pc = "reply" /\ UNCHANGED <<invocations, deed, elapsed>>
    BY <1>1 DEF ReplyIsFinal, ChatAt
  <2>2. CASE elapsed
    BY <1>1, <2>2, MovesOnKeeps DEF ReplyIsFinal, ReplyIsBad
  <2>3. CASE ~elapsed
    <3>1. transcript' = Append(transcript, [who |-> "model", calls |-> 0])
          /\ (chat' = [chat EXCEPT !.pc = "failed"] \/ chat' = [chat EXCEPT !.pc = "returned"])
      BY <1>1, <2>3 DEF ReplyIsFinal, Failed
    <3>2. <<>> \in Seq(Tool) /\ Len(<<>>) = 0 /\ 0 \in Nat
      OBVIOUS
    <3> QED
      BY <2>1, <3>1, <3>2, ReplyKeeps
  <2> QED
    BY <2>2, <2>3
<1>2. ASSUME NEW tools \in Seq(Tool), ReplyCalls(tools) PROVE ChatInv'
  <2>1. Len(tools) \in Nat
    OBVIOUS
  <2>2. /\ transcript' = Append(transcript, [who |-> "model", calls |-> Len(tools)])
        /\ chat.pc = "reply" /\ UNCHANGED <<invocations, deed, elapsed>>
        /\ \/ chat' = [chat EXCEPT !.pc = "failed"]
           \/ /\ chat.calls + Len(tools) <= MaxCallsOfRun
              /\ chat' = [chat EXCEPT !.pc = "call", !.index = 0, !.todo = tools]
    BY <1>2 DEF ReplyCalls, ChatAt, Failed
  <2> QED
    BY <2>1, <2>2, ReplyKeeps
<1>3. \A a, b \in Tool : <<a>> \in Seq(Tool) /\ <<a, b>> \in Seq(Tool)
  OBVIOUS
<1>4. CASE UNCHANGED chatVars
  <2>1. UNCHANGED <<chat, transcript, invocations, deed, elapsed>>
    BY <1>4 DEF chatVars
  <2>2. ChatTypeOK' /\ Rounds' /\ Within'
    BY <2>1 DEF ChatInv, ChatTypeOK, ChatState, Rounds, RoundsAbove, CallsMet, Within, AnsweringCall
  <2> QED
    BY <2>1, <2>2, NothingTold DEF ChatInv, Honest, Current, Authorized, Verdict, AnsweringCall
<1> QED
  BY <1>1, <1>2, <1>3, <1>4, MovesOnKeeps, CallStepKeeps, ChargeKeeps DEF ChatNext

(* Whatever the model asks for, the handlers do and the clock says: the     *)
(* model is told of a success only if this call was authorized and made, or *)
(* its handler raised the broker's own denial; it is asked again only when  *)
(* every call was answered; the log the child hands over tells of each      *)
(* answer but those after such a denial; and no budget is overdrawn.        *)
THEOREM ConversationIsSound == ChatSpec => []ConversationSound
<1>1. ASSUME ChatInv PROVE ConversationSound
  <2>1. ChatTypeOK /\ Rounds /\ Honest /\ Within /\ LogKept
    BY <1>1 DEF ChatInv
  <2>2. ChatAt("ask") \/ ChatAt("reply") \/ ChatAt("returned") => WholeRounds
    BY <2>1, RoundsAreWhole DEF ChatAt, Rounds
  <2>3. ChatAt("returned") /\ Cardinality(Logged) <= InvocationLimit => Len(invocations) = Cardinality(Logged) /\ Tells
    BY <2>1 DEF ChatAt, LogKept, Recalls
  <2> QED
    BY <2>1, <2>2, <2>3 DEF ConversationSound, Honest, Within, Delivered, Tells
<1> QED
  BY <1>1, ChatInitially, ChatStep, PTL DEF ChatSpec

\* Every answer is one the log should have, and a success is a handler's.
AllLogged == Logged = Told /\ \A i \in Told : transcript[i].ok => transcript[i].did = "returned"

(* With handlers that leave the broker's denial to the broker, as those of  *)
(* read_only_role_tools.py do, the model is told of no success a handler    *)
(* did not return, and the log has every answer.                            *)
THEOREM OwnHandlersAreLogged ==
  ASSUME Deniers = {}
  PROVE  ChatSpec => []AllLogged
<1>1. ConversationSound => AllLogged
  <2> SUFFICES ASSUME ConversationSound PROVE AllLogged
    OBVIOUS
  <2>1. Told \ Logged = {} /\ Logged \subseteq Told
    BY DEF ConversationSound, Logged
  <2> QED
    BY <2>1 DEF ConversationSound, AllLogged
<1> QED
  BY <1>1, ConversationIsSound, PTL

-----------------------------------------------------------------------------
(* The run of a workflow                                                   *)

Built == {"layer", "pool", "done", "returned", "aborted"}
FlowState ==
  [pc: {"body", "layering", "refused"} \cup Built, deps: [Node -> SUBSET Node], policy: Policy,
   parallelism: 1 .. MaxParallelism, layers: Seq(SUBSET Node), at: Nat \ {0}, wait: [Node -> Int],
   next: SUBSET Node]
FlowTypeOK ==
  /\ flow \in FlowState
  /\ verdict \in [Node -> {"pending", "skipped", "succeeded", "failed"}]
  /\ task \in [Node -> {"none", "queued", "called", "leased", "answered", "raised"}]

\* A node is in one layer, what it depends on is in those before it, and some
\* of it in the last one before it.
Layered ==
  /\ \A j, k \in DOMAIN flow.layers : \A n \in flow.layers[j] : n \in flow.layers[k] => j = k
  /\ \A k \in DOMAIN flow.layers : \A n \in flow.layers[k] : \A d \in flow.deps[n] :
       \E j \in DOMAIN flow.layers : j < k /\ d \in flow.layers[j]

\* The next layer depends on the layers there are, and on the last of them.
Waiting ==
  flow.pc = "layering" =>
    /\ \A n \in flow.next : n \notin Visited /\ flow.deps[n] \subseteq Visited
    /\ \A n \in flow.next : flow.layers # <<>> => flow.deps[n] \cap flow.layers[Len(flow.layers)] # {}
    /\ \A n \in Node : flow.wait[n] = Cardinality(flow.deps[n] \ Visited)

\* Above a node is a chain of ancestors through all the layers before its own.
Chains(n) == {S \in SUBSET Ancestors(n) : \A a, b \in S : a = b \/ a \in Ancestors(b) \/ b \in Ancestors(a)}
Longest ==
  \A k \in DOMAIN flow.layers : \A n \in flow.layers[k] : \E S \in Chains(n) : Cardinality(S) = k - 1

Rank(n) == CHOOSE k \in DOMAIN flow.layers : n \in flow.layers[k]

\* What became of a node: of one whose layer is over, in its turn, or to come.
Cut(n) == \E a \in Ancestors(n) : task[a] = "raised"
Ran(n) ==
  /\ ~Cut(n)
  /\ \/ verdict[n] = "succeeded" /\ task[n] = "answered"
     \/ verdict[n] = "failed" /\ task[n] = "raised"
PassedOver(n) == verdict[n] = "skipped" /\ task[n] = "none" /\ Cut(n)
Settled(n) == Ran(n) \/ PassedOver(n)
InTurn(n) == Settled(n) \/ (~Cut(n) /\ verdict[n] = "pending" /\ task[n] # "none")
Untouched(n) == verdict[n] = "pending" /\ task[n] = "none"
GoesOn(n) == flow.policy = "fail_fast" => verdict[n] # "failed"

Stopped ==
  /\ flow.policy = "fail_fast" /\ flow.at \in DOMAIN flow.layers
  /\ \E n \in Node : Rank(n) = flow.at /\ verdict[n] = "failed"
  /\ \A n \in Node : /\ Rank(n) < flow.at => verdict[n] # "failed"
                     /\ Rank(n) <= flow.at => Settled(n)
                     /\ Rank(n) > flow.at => verdict[n] = "skipped" /\ task[n] = "none"
Completed == \A n \in Node : Settled(n) /\ GoesOn(n)

Progress ==
  /\ flow.pc \notin Built => flow.at = 1 /\ \A n \in Node : Untouched(n)
  /\ flow.pc = "body" => flow.layers = <<>>
  /\ flow.pc \in Built => Visited = Node
  /\ flow.pc \in {"layer", "pool"} =>
       \A n \in Node : /\ Rank(n) < flow.at => Settled(n) /\ GoesOn(n)
                       /\ Rank(n) > flow.at => Untouched(n)
                       /\ Rank(n) = flow.at => IF flow.pc = "layer" THEN Untouched(n) ELSE InTurn(n)
  /\ flow.pc = "pool" => flow.at \in DOMAIN flow.layers
  /\ flow.pc = "done" => Stopped
  /\ flow.pc \in {"returned", "aborted"} => Stopped \/ Completed

FlowInv == FlowTypeOK /\ Layered /\ Waiting /\ Longest /\ Progress

-----------------------------------------------------------------------------
LEMMA FlowTypes ==
  ASSUME FlowTypeOK
  PROVE  /\ flow.deps \in [Node -> SUBSET Node] /\ flow.layers \in Seq(SUBSET Node)
         /\ flow.at \in Nat \ {0} /\ flow.next \in SUBSET Node /\ flow.wait \in [Node -> Int]
         /\ \A n \in Node : flow.deps[n] \in SUBSET Node
         /\ \A k \in DOMAIN flow.layers : flow.layers[k] \in SUBSET Node
         /\ DOMAIN flow.layers = 1 .. Len(flow.layers) /\ Len(flow.layers) \in Nat
         /\ Visited \in SUBSET Node
<1>1. /\ flow.deps \in [Node -> SUBSET Node] /\ flow.layers \in Seq(SUBSET Node)
      /\ flow.at \in Nat \ {0} /\ flow.next \in SUBSET Node /\ flow.wait \in [Node -> Int]
  BY DEF FlowTypeOK, FlowState
<1>2. DOMAIN flow.layers = 1 .. Len(flow.layers) /\ Len(flow.layers) \in Nat
  BY <1>1
<1>3. \A k \in DOMAIN flow.layers : flow.layers[k] \in SUBSET Node
  BY <1>1
<1>4. Visited \in SUBSET Node
  BY <1>3 DEF Visited
<1> QED
  BY <1>1, <1>2, <1>3, <1>4

\* The ancestors of a node are the least closed set over what it depends on.
LEMMA AncestorsLeast ==
  ASSUME FlowTypeOK, NEW n \in Node
  PROVE  /\ Ancestors(n) \in SUBSET Node /\ flow.deps[n] \subseteq Ancestors(n) /\ Closed(Ancestors(n))
         /\ \A S \in SUBSET Node : flow.deps[n] \subseteq S /\ Closed(S) => Ancestors(n) \subseteq S
<1>1. Ancestors(n) \in SUBSET Node /\ flow.deps[n] \subseteq Ancestors(n)
  BY FlowTypes DEF Ancestors
<1>2. \A S \in SUBSET Node : flow.deps[n] \subseteq S /\ Closed(S) => Ancestors(n) \subseteq S
  BY DEF Ancestors
<1>3. ASSUME NEW m \in Ancestors(n), NEW d \in flow.deps[m]
      PROVE  d \in Ancestors(n)
  <2>1. d \in Node
    BY <1>1, FlowTypes
  <2>2. ASSUME NEW S \in SUBSET Node, flow.deps[n] \subseteq S, Closed(S) PROVE d \in S
    BY <1>2, <2>2 DEF Closed
  <2> QED
    BY <2>1, <2>2 DEF Ancestors
<1>4. Closed(Ancestors(n))
  BY <1>3 DEF Closed
<1> QED
  BY <1>1, <1>2, <1>4

LEMMA AncestorsOfAncestors ==
  ASSUME FlowTypeOK, NEW n \in Node
  PROVE  /\ \A a \in Ancestors(n) : Ancestors(a) \subseteq Ancestors(n)
         /\ \A d \in flow.deps[n] : d \in Ancestors(n)
         /\ \A a \in Ancestors(n) : \E d \in flow.deps[n] : a = d \/ a \in Ancestors(d)
<1>1. Ancestors(n) \in SUBSET Node /\ flow.deps[n] \subseteq Ancestors(n) /\ Closed(Ancestors(n))
  BY AncestorsLeast
<1>2. ASSUME NEW a \in Ancestors(n)
      PROVE  Ancestors(a) \subseteq Ancestors(n)
  <2>1. a \in Node /\ flow.deps[a] \subseteq Ancestors(n)
    BY <1>1 DEF Closed
  <2> QED
    BY <1>1, <2>1, AncestorsLeast
<1>3. ASSUME NEW a \in Ancestors(n)
      PROVE  \E d \in flow.deps[n] : a = d \/ a \in Ancestors(d)
  <2> DEFINE S == {x \in Node : \E d \in flow.deps[n] : x = d \/ x \in Ancestors(d)}
  <2>1. S \in SUBSET Node /\ flow.deps[n] \subseteq S
    BY FlowTypes
  <2>2. ASSUME NEW m \in S, NEW c \in flow.deps[m] PROVE c \in S
    <3>1. PICK d \in flow.deps[n] : m = d \/ m \in Ancestors(d)
      BY <2>2
    <3>2. d \in Node /\ m \in Node /\ c \in Node
      BY <2>1, FlowTypes
    <3>3. flow.deps[d] \subseteq Ancestors(d) /\ Closed(Ancestors(d))
      BY <3>2, AncestorsLeast
    <3>4. c \in Ancestors(d)
      BY <3>1, <3>3 DEF Closed
    <3> QED
      BY <3>2, <3>4
  <2>3. Closed(S)
    BY <2>2 DEF Closed
  <2>4. Ancestors(n) \subseteq S
    BY <2>1, <2>3, AncestorsLeast
  <2> QED
    BY <2>4
<1> QED
  BY <1>1, <1>2, <1>3

LEMMA AncestorsBelow ==
  ASSUME FlowTypeOK, Layered, NEW k \in DOMAIN flow.layers, NEW n \in flow.layers[k]
  PROVE  /\ \A a \in Ancestors(n) : \E j \in DOMAIN flow.layers : j < k /\ a \in flow.layers[j]
         /\ n \notin Ancestors(n)
<1> DEFINE S == {a \in Node : \E j \in DOMAIN flow.layers : j < k /\ a \in flow.layers[j]}
<1>1. n \in Node /\ DOMAIN flow.layers \subseteq Nat
  BY FlowTypes
<1>2. flow.deps[n] \subseteq S
  BY <1>1, FlowTypes DEF Layered
<1>3. ASSUME NEW m \in S, NEW d \in flow.deps[m] PROVE d \in S
  <2>1. PICK j \in DOMAIN flow.layers : j < k /\ m \in flow.layers[j]
    OBVIOUS
  <2>2. PICK i \in DOMAIN flow.layers : i < j /\ d \in flow.layers[i]
    BY <2>1 DEF Layered
  <2>3. i < k /\ d \in Node
    BY <1>1, <2>1, <2>2, FlowTypes
  <2> QED
    BY <2>2, <2>3
<1>4. Ancestors(n) \subseteq S
  <2>1. Closed(S)
    BY <1>3 DEF Closed
  <2>2. S \in SUBSET Node
    OBVIOUS
  <2> QED
    BY <1>1, <1>2, <2>1, <2>2, AncestorsLeast
<1>5. n \notin Ancestors(n)
  <2>1. \A j \in DOMAIN flow.layers : n \in flow.layers[j] => j = k
    BY DEF Layered
  <2> QED
    BY <1>1, <1>4, <2>1
<1> QED
  BY <1>4, <1>5

\* The depth of a node is the place of its layer.
LEMMA DepthIsPlace ==
  ASSUME FlowTypeOK, Layered, Longest, NEW k \in DOMAIN flow.layers, NEW n \in flow.layers[k]
  PROVE  Depth(n) = k - 1
<1>1. n \in Node /\ k \in Nat \ {0} /\ Ancestors(n) \in SUBSET Node /\ IsFiniteSet(Node)
  BY FlowTypes, AncestorsLeast, WorkflowAssumption
<1>2. ASSUME NEW S \in Chains(n)
      PROVE  IsFiniteSet(S) /\ Cardinality(S) \in Nat /\ Cardinality(S) <= k - 1 /\ Cardinality(S) <= Cardinality(Node)
  <2>1. S \in SUBSET Node /\ S \subseteq Ancestors(n)
    BY <1>1 DEF Chains
  <2>2. IsFiniteSet(S) /\ Cardinality(S) \in Nat /\ Cardinality(S) <= Cardinality(Node)
    BY <1>1, <2>1, FS_Subset, FS_CardinalityType
  <2>3. SUFFICES ASSUME Cardinality(S) > k - 1 PROVE FALSE
    BY <1>1, <2>2
  <2> DEFINE f == [a \in S |-> CHOOSE j \in DOMAIN flow.layers : j < k /\ a \in flow.layers[j]]
  <2>4. \A a \in S : f[a] \in DOMAIN flow.layers /\ f[a] < k /\ a \in flow.layers[f[a]]
    BY <2>1, AncestorsBelow
  <2>5. IsFiniteSet(1 .. k - 1) /\ Cardinality(1 .. k - 1) = k - 1
    <3>1. 1 \in Int /\ k - 1 \in Int /\ k - 1 >= 0
      BY <1>1
    <3>2. Cardinality(1 .. k - 1) = IF 1 > k - 1 THEN 0 ELSE k - 1 - 1 + 1
      BY <3>1, FS_Interval
    <3>3. IsFiniteSet(1 .. k - 1)
      BY <3>1, FS_Interval
    <3> QED
      BY <3>1, <3>2, <3>3
  <2>6. f \in [S -> 1 .. k - 1]
    <3>1. \A a \in S : f[a] \in 1 .. k - 1
      <4>1. DOMAIN flow.layers = 1 .. Len(flow.layers) /\ Len(flow.layers) \in Nat
        BY FlowTypes
      <4> HIDE DEF f
      <4> QED
        BY <1>1, <2>4, <4>1
    <3>2. f = [a \in S |-> f[a]]
      OBVIOUS
    <3> HIDE DEF f
    <3> QED
      BY <3>1, <3>2
  <2> HIDE DEF f
  <2>7. PICK a \in S, b \in S : a # b /\ f[a] = f[b]
    BY <2>2, <2>3, <2>5, <2>6, FS_PigeonHole
  <2>8. a \in Ancestors(b) \/ b \in Ancestors(a)
    BY <2>7 DEF Chains
  <2>9. ASSUME NEW x \in S, NEW y \in S, f[x] = f[y], x \in Ancestors(y) PROVE FALSE
    <3>1. PICK j \in DOMAIN flow.layers : j < f[y] /\ x \in flow.layers[j]
      BY <2>4, <2>9, AncestorsBelow
    <3>2. x \in flow.layers[f[x]] /\ f[x] \in DOMAIN flow.layers /\ f[x] \in Nat /\ j \in Nat
      BY <2>4, FlowTypes
    <3>3. j = f[x]
      BY <3>1, <3>2 DEF Layered
    <3> QED
      BY <2>9, <3>1, <3>2, <3>3
  <2> QED
    BY <2>7, <2>8, <2>9
<1>3. PICK S \in Chains(n) : Cardinality(S) = k - 1
  BY DEF Longest
<1>4. k - 1 \in 0 .. Cardinality(Node)
  BY <1>1, <1>2, <1>3, FS_CardinalityType
<1> DEFINE Deepest(d) == (\E T \in Chains(n) : Cardinality(T) = d) /\ (\A T \in Chains(n) : Cardinality(T) <= d)
<1>5. Deepest(k - 1)
  BY <1>2, <1>3
<1>6. ASSUME NEW d \in 0 .. Cardinality(Node), Deepest(d) PROVE d = k - 1
  <2>1. PICK T \in Chains(n) : Cardinality(T) = d
    BY <1>6
  <2>2. d <= k - 1 /\ k - 1 <= d /\ d \in Nat
    BY <1>1, <1>2, <1>3, <1>6, <2>1
  <2> QED
    BY <1>1, <2>2
<1>7. Depth(n) = CHOOSE d \in 0 .. Cardinality(Node) : Deepest(d)
  BY DEF Depth, Chains
<1> HIDE DEF Deepest
<1> QED
  BY <1>4, <1>5, <1>6, <1>7

LEMMA RankIsPlace ==
  ASSUME FlowTypeOK, Layered, Visited = Node, NEW n \in Node
  PROVE  /\ Rank(n) \in DOMAIN flow.layers /\ Rank(n) \in Nat \ {0} /\ n \in flow.layers[Rank(n)]
         /\ \A k \in DOMAIN flow.layers : n \in flow.layers[k] <=> k = Rank(n)
<1>1. \E k \in DOMAIN flow.layers : n \in flow.layers[k]
  BY DEF Visited
<1>2. Rank(n) \in DOMAIN flow.layers /\ n \in flow.layers[Rank(n)]
  BY <1>1 DEF Rank
<1> QED
  BY <1>2, FlowTypes DEF Layered

LEMMA RanksDescend ==
  ASSUME FlowTypeOK, Layered, Visited = Node, NEW n \in Node
  PROVE  \A a \in Ancestors(n) : a \in Node /\ Rank(a) < Rank(n)
<1> SUFFICES ASSUME NEW a \in Ancestors(n) PROVE a \in Node /\ Rank(a) < Rank(n)
  OBVIOUS
<1>1. a \in Node
  BY AncestorsLeast
<1>2. PICK j \in DOMAIN flow.layers : j < Rank(n) /\ a \in flow.layers[j]
  BY RankIsPlace, AncestorsBelow
<1> QED
  BY <1>1, <1>2, RankIsPlace

LEMMA GraphStays ==
  ASSUME flow'.deps = flow.deps
  PROVE  /\ \A n \in Node : Ancestors(n)' = Ancestors(n) /\ Chains(n)' = Chains(n)
         /\ flow'.layers = flow.layers => Visited' = Visited /\ (\A n \in Node : Rank(n)' = Rank(n))
<1>1. \A S : Closed(S)' = Closed(S)
  BY DEF Closed
<1>2. \A n \in Node : Ancestors(n)' = Ancestors(n)
  BY <1>1 DEF Ancestors
<1>3. \A n \in Node : \A S \in SUBSET Ancestors(n) : S \subseteq Node
  BY DEF Ancestors
<1>4. \A n \in Node : Chains(n)' = Chains(n)
  BY <1>2, <1>3 DEF Chains
<1>5. flow'.layers = flow.layers => Visited' = Visited /\ (\A n \in Node : Rank(n)' = Rank(n))
  BY DEF Visited, Rank
<1> QED
  BY <1>2, <1>4, <1>5

LEMMA FlowInitially == FlowInit => FlowInv
<1> SUFFICES ASSUME FlowInit PROVE FlowInv
  OBVIOUS
<1>1. /\ flow \in FlowState /\ flow.pc = "body" /\ flow.layers = <<>> /\ flow.at = 1
      /\ verdict = [n \in Node |-> "pending"] /\ task = [n \in Node |-> "none"]
  <2>1. <<>> \in Seq(SUBSET Node) /\ [n \in Node |-> 0] \in [Node -> Int]
    OBVIOUS
  <2>2. flow \in [pc: {"body"}, deps: [Node -> SUBSET Node], policy: Policy,
                 parallelism: 1 .. MaxParallelism, layers: {<<>>}, at: {1},
                 wait: {[n \in Node |-> 0]}, next: {{}}]
    BY DEF FlowInit
  <2>3. flow.pc = "body" /\ flow.layers = <<>> /\ flow.at = 1 /\ flow.wait = [n \in Node |-> 0] /\ flow.next = {}
    BY <2>2
  <2>4. /\ flow = [pc |-> flow.pc, deps |-> flow.deps, policy |-> flow.policy, parallelism |-> flow.parallelism,
                  layers |-> flow.layers, at |-> flow.at, wait |-> flow.wait, next |-> flow.next]
        /\ flow.deps \in [Node -> SUBSET Node] /\ flow.policy \in Policy /\ flow.parallelism \in 1 .. MaxParallelism
    BY <2>2
  <2>5. flow.layers \in Seq(SUBSET Node) /\ flow.wait \in [Node -> Int] /\ flow.at \in Nat \ {0}
    BY <2>1, <2>3
  <2>6. flow \in FlowState
    BY <2>3, <2>4, <2>5 DEF FlowState
  <2> QED
    BY <2>3, <2>6 DEF FlowInit
<1>2. FlowTypeOK
  BY <1>1 DEF FlowTypeOK
<1>3. DOMAIN flow.layers = {}
  BY <1>1
<1> QED
  BY <1>1, <1>2, <1>3 DEF FlowInv, Layered, Waiting, Longest, Progress, Untouched, Built

LEMMA BuildKeeps ==
  ASSUME FlowInv, Build
  PROVE  FlowInv'
<1>0. FlowTypeOK /\ Layered /\ Longest /\ Progress /\ UNCHANGED <<verdict, task>> /\ flow.pc = "body"
  BY DEF FlowInv, Build
<1>1. flow.layers = <<>> /\ flow.at = 1 /\ (\A n \in Node : Untouched(n)) /\ DOMAIN flow.layers = {}
  <2>1. flow.layers = <<>> /\ flow.at = 1 /\ \A n \in Node : Untouched(n)
    BY <1>0 DEF Progress, Built
  <2> QED
    BY <2>1
<1>2. /\ flow'.deps = flow.deps /\ flow'.layers = flow.layers /\ flow'.at = flow.at
      /\ \/ flow'.pc = "refused"
         \/ /\ flow'.pc = "layering" /\ flow'.next = {n \in Node : flow.deps[n] = {}}
            /\ flow'.wait = [n \in Node |-> Cardinality(flow.deps[n])]
  BY <1>0 DEF Build, FlowTypeOK, FlowState
<1>3. \A n \in Node : Cardinality(flow.deps[n]) \in Int
  <2>1. \A n \in Node : flow.deps[n] \in SUBSET Node
    BY <1>0, FlowTypes
  <2> QED
    BY <2>1, WorkflowAssumption, FS_Subset, FS_CardinalityType
<1>4. FlowTypeOK'
  <2> DEFINE w == [n \in Node |-> Cardinality(flow.deps[n])]
             x == {n \in Node : flow.deps[n] = {}}
  <2>1. w \in [Node -> Int] /\ x \in SUBSET Node
    BY <1>3
  <2>2. \/ flow' = [flow EXCEPT !.pc = "layering", !.next = x, !.wait = w]
        \/ flow' = [flow EXCEPT !.pc = "refused"]
    BY DEF Build
  <2>3. flow \in FlowState
    BY <1>0 DEF FlowTypeOK
  <2> HIDE DEF w, x
  <2>4. flow' \in FlowState
    BY <2>1, <2>2, <2>3 DEF FlowState
  <2> QED
    BY <1>0, <2>4 DEF FlowTypeOK
<1>5. Layered' /\ Longest'
  BY <1>1, <1>2 DEF Layered, Longest
<1>6. Visited' = {} /\ \A S : S \ {} = S
  BY <1>1, <1>2 DEF Visited
<1>7. Waiting'
  BY <1>1, <1>2, <1>6 DEF Waiting
<1>8. Progress'
  BY <1>0, <1>1, <1>2 DEF Progress, Built, Untouched
<1> QED
  BY <1>4, <1>5, <1>7, <1>8 DEF FlowInv

LEMMA CountedMember ==
  ASSUME NEW S, Cardinality(S) > 0
  PROVE  S # {}
BY FS_EmptySet

LEMMA TakeLayerKeeps ==
  ASSUME FlowInv, TakeLayer
  PROVE  FlowInv'
<1> DEFINE left == Counted(flow.next)
           after == {n \in Node : left[n] = 0 /\ flow.wait[n] > 0}
<1>0. FlowTypeOK /\ Layered /\ Longest /\ Waiting /\ Progress /\ UNCHANGED <<verdict, task>> /\ flow.pc = "layering"
      /\ flow.next # {}
  BY DEF FlowInv, TakeLayer
<1> PICK top \in Nat : top = Len(flow.layers) + 1
  BY <1>0, FlowTypes
<1>1. \A n \in Node : /\ flow.deps[n] \in SUBSET Node /\ IsFiniteSet(flow.deps[n])
                      /\ flow.wait[n] = Cardinality(flow.deps[n] \ Visited)
                      /\ left[n] = flow.wait[n] - Cardinality(flow.deps[n] \cap flow.next)
  BY <1>0, FlowTypes, WorkflowAssumption, FS_Subset DEF Waiting, Counted
<1>2. left \in [Node -> Int]
  <2>1. ASSUME NEW n \in Node
        PROVE  Cardinality(flow.deps[n] \cap flow.next) \in Int /\ flow.wait[n] \in Int
    <3>1. IsFiniteSet(flow.deps[n] \cap flow.next)
      BY <1>1, FS_Intersection
    <3>2. Cardinality(flow.deps[n] \cap flow.next) \in Nat
      BY <3>1, FS_CardinalityType
    <3> QED
      BY <1>0, <3>2, FlowTypes
  <2> QED
    BY <2>1 DEF Counted
<1> HIDE DEF left
<1>3. flow' = [flow EXCEPT !.layers = Append(@, flow.next), !.wait = left, !.next = after]
  BY DEF TakeLayer, left
<1> HIDE DEF after
<1>4. after \in SUBSET Node
  BY DEF after
<1>5. Append(flow.layers, flow.next) \in Seq(SUBSET Node)
  BY <1>0, FlowTypes
<1>6. /\ flow'.deps = flow.deps /\ flow'.pc = flow.pc /\ flow'.at = flow.at /\ flow'.wait = left /\ flow'.next = after
      /\ flow'.layers = Append(flow.layers, flow.next)
  BY <1>0, <1>3 DEF FlowTypeOK, FlowState
<1>7. FlowTypeOK'
  <2>1. flow \in FlowState
    BY <1>0 DEF FlowTypeOK
  <2>2. flow' \in FlowState
    BY <1>2, <1>3, <1>4, <1>5, <2>1 DEF FlowState
  <2> QED
    BY <1>0, <2>2 DEF FlowTypeOK
<1>8. /\ DOMAIN flow.layers = 1 .. top - 1 /\ DOMAIN flow'.layers = 1 .. top /\ Len(flow'.layers) = top
      /\ flow'.layers[top] = flow.next /\ \A k \in DOMAIN flow.layers : flow'.layers[k] = flow.layers[k]
      /\ top \notin DOMAIN flow.layers /\ top \in DOMAIN flow'.layers
      /\ \A k \in DOMAIN flow'.layers : k \in DOMAIN flow.layers \/ k = top
      /\ \A k \in DOMAIN flow.layers : k < top /\ k \in Nat
      /\ flow'.layers # <<>>
  BY <1>0, <1>6, FlowTypes
<1>9. Visited' = Visited \cup flow.next /\ \A n \in flow.next : n \notin Visited
  BY <1>0, <1>6, <1>8 DEF Visited, Waiting
<1>10. Layered'
  <2>1. ASSUME NEW j \in DOMAIN flow'.layers, NEW k \in DOMAIN flow'.layers, NEW n \in flow'.layers[j],
               n \in flow'.layers[k]
        PROVE  j = k
    <3>1. CASE j \in DOMAIN flow.layers /\ k \in DOMAIN flow.layers
      BY <1>0, <1>8, <2>1, <3>1 DEF Layered
    <3>2. CASE j = top /\ k \in DOMAIN flow.layers
      BY <1>8, <1>9, <2>1, <3>2 DEF Visited
    <3>3. CASE k = top /\ j \in DOMAIN flow.layers
      BY <1>8, <1>9, <2>1, <3>3 DEF Visited
    <3> QED
      BY <1>8, <3>1, <3>2, <3>3
  <2>2. ASSUME NEW k \in DOMAIN flow'.layers, NEW n \in flow'.layers[k], NEW d \in flow.deps[n]
        PROVE  \E j \in DOMAIN flow'.layers : j < k /\ d \in flow'.layers[j]
    <3>1. CASE k = top
      <4>1. d \in Visited
        BY <1>0, <1>8, <2>2, <3>1 DEF Waiting
      <4>2. PICK j \in DOMAIN flow.layers : d \in flow.layers[j]
        BY <4>1 DEF Visited
      <4> QED
        BY <1>8, <3>1, <4>2
    <3>2. CASE k \in DOMAIN flow.layers
      <4>1. n \in flow.layers[k]
        BY <1>8, <2>2, <3>2
      <4>2. PICK j \in DOMAIN flow.layers : j < k /\ d \in flow.layers[j]
        BY <1>0, <2>2, <3>2, <4>1 DEF Layered
      <4> QED
        BY <1>8, <4>2
    <3> QED
      BY <1>8, <3>1, <3>2
  <2> QED
    BY <1>6, <2>1, <2>2 DEF Layered
<1>11. \A n \in Visited : flow.deps[n] \subseteq Visited
  BY <1>0 DEF Layered, Visited
<1>12. Waiting'
  <2>1. ASSUME NEW n \in Node
        PROVE  left[n] = Cardinality(flow.deps[n] \ Visited')
    <3> DEFINE D == flow.deps[n] \ Visited
    <3>1. IsFiniteSet(D) /\ flow.wait[n] = Cardinality(D)
      BY <1>1, FS_Difference
    <3>2. D \cap flow.next = flow.deps[n] \cap flow.next /\ D \ flow.next = flow.deps[n] \ Visited'
      BY <1>9
    <3> HIDE DEF D
    <3>3. Cardinality(D \ flow.next) = Cardinality(D) - Cardinality(D \cap flow.next)
      BY <3>1, FS_Difference
    <3> QED
      BY <1>1, <3>1, <3>2, <3>3
  <2>2. ASSUME NEW n \in after
        PROVE  n \notin Visited' /\ flow.deps[n] \subseteq Visited' /\ flow.deps[n] \cap flow.next # {}
    <3>1. n \in Node /\ left[n] = 0 /\ flow.wait[n] > 0
      BY <2>2 DEF after
    <3>2. IsFiniteSet(flow.deps[n] \ Visited') /\ IsFiniteSet(flow.deps[n] \ Visited)
      BY <1>1, <3>1, FS_Difference
    <3>3. flow.deps[n] \subseteq Visited'
      <4>1. flow.deps[n] \ Visited' = {}
        BY <2>1, <3>1, <3>2, FS_EmptySet
      <4> QED
        BY <4>1
    <3>4. ~(flow.deps[n] \subseteq Visited)
      <4>1. Cardinality(flow.deps[n] \ Visited) > 0
        BY <1>1, <3>1
      <4>2. flow.deps[n] \ Visited # {}
        BY <4>1, CountedMember
      <4> QED
        BY <4>2
    <3>5. n \notin flow.next
      BY <1>0, <3>4 DEF Waiting
    <3> QED
      BY <1>9, <1>11, <3>3, <3>4, <3>5
  <2> QED
    BY <1>6, <1>8, <2>1, <2>2 DEF Waiting
<1>13. Longest'
  <2>0. \A n \in Node : Chains(n)' = Chains(n) /\ Ancestors(n)' = Ancestors(n)
    BY <1>6, GraphStays
  <2>1. ASSUME NEW k \in DOMAIN flow'.layers, NEW n \in flow'.layers[k]
        PROVE  \E S \in Chains(n) : Cardinality(S) = k - 1
    <3>1. CASE k \in DOMAIN flow.layers
      BY <1>0, <1>8, <2>1, <3>1 DEF Longest
    <3>2. CASE k = top /\ flow.layers = <<>>
      <4>1. {} \in Chains(n) /\ Cardinality({}) = 0 /\ k = 1
        BY <3>2, FS_EmptySet DEF Chains
      <4> QED
        BY <4>1
    <3>3. CASE k = top /\ flow.layers # <<>>
      <4>1. n \in flow.next /\ n \in Node /\ top - 1 \in DOMAIN flow.layers /\ top - 1 = Len(flow.layers)
        BY <1>0, <1>8, <2>1, <3>3, FlowTypes
      <4>2. PICK d \in flow.deps[n] : d \in flow.layers[top - 1]
        BY <1>0, <3>3, <4>1 DEF Waiting
      <4>3. PICK S \in Chains(d) : Cardinality(S) = top - 1 - 1
        BY <1>0, <4>1, <4>2 DEF Longest
      <4>4. d \in Node /\ d \notin Ancestors(d) /\ d \in Ancestors(n) /\ Ancestors(d) \subseteq Ancestors(n)
            /\ Ancestors(d) \in SUBSET Node
        BY <1>0, <1>1, <4>1, <4>2, AncestorsBelow, AncestorsOfAncestors, AncestorsLeast
      <4>5. S \subseteq Ancestors(d) /\ d \notin S /\ IsFiniteSet(S)
        <5>1. S \in SUBSET Ancestors(d)
          BY DEF Chains
        <5>2. S \in SUBSET Node
          BY <4>4, <5>1
        <5> QED
          BY <4>4, <5>1, <5>2, WorkflowAssumption, FS_Subset
      <4>6. Cardinality(S \cup {d}) = k - 1
        <5>1. Cardinality(S \cup {d}) = Cardinality(S) + 1
          BY <4>5, FS_AddElement
        <5> QED
          BY <3>3, <4>3, <5>1
      <4>7. S \cup {d} \in Chains(n)
        BY <4>3, <4>4, <4>5 DEF Chains
      <4> QED
        BY <4>6, <4>7
    <3> QED
      BY <1>8, <3>1, <3>2, <3>3
  <2>2. \A k \in DOMAIN flow'.layers : \A n \in flow'.layers[k] : n \in Node
    BY <1>7, <1>8, <1>0, FlowTypes
  <2> QED
    BY <2>0, <2>1, <2>2 DEF Longest
<1>14. Progress'
  BY <1>0, <1>6 DEF Progress, Built, Untouched
<1> QED
  BY <1>7, <1>10, <1>12, <1>13, <1>14 DEF FlowInv

LEMMA EndLayeringKeeps ==
  ASSUME FlowInv, EndLayering
  PROVE  FlowInv'
<1>0. FlowTypeOK /\ Layered /\ Longest /\ Progress /\ UNCHANGED <<verdict, task>> /\ flow.pc = "layering"
  BY DEF FlowInv, EndLayering
<1>1. /\ flow' = [flow EXCEPT !.pc = flow'.pc] /\ flow'.deps = flow.deps /\ flow'.layers = flow.layers
      /\ flow'.at = flow.at
      /\ flow'.pc = "refused" \/ (flow'.pc = "layer" /\ Visited = Node)
  BY <1>0 DEF EndLayering, FlowTypeOK, FlowState
<1>2. FlowTypeOK'
  <2>1. flow \in FlowState
    BY <1>0 DEF FlowTypeOK
  <2>2. flow' \in FlowState
    BY <1>1, <2>1 DEF FlowState, Built
  <2> QED
    BY <1>0, <2>2 DEF FlowTypeOK
<1>3. Layered' /\ Waiting'
  BY <1>0, <1>1 DEF Layered, Waiting
<1>4. Longest'
  BY <1>0, <1>1, GraphStays, FlowTypes DEF Longest
<1>5. Progress'
  <2>1. flow.at = 1 /\ \A n \in Node : Untouched(n)' /\ Untouched(n)
    BY <1>0 DEF Progress, Untouched, Built
  <2>2. CASE flow'.pc = "refused"
    BY <1>1, <2>1, <2>2 DEF Progress, Built
  <2>3. CASE flow'.pc = "layer" /\ Visited = Node
    <3>1. \A n \in Node : Rank(n)' \in Nat \ {0}
      BY <1>0, <1>1, <2>3, GraphStays, RankIsPlace
    <3>2. Visited' = Node
      BY <1>1, <2>3, GraphStays
    <3> QED
      BY <1>1, <2>1, <2>3, <3>1, <3>2 DEF Progress, Built
  <2> QED
    BY <1>1, <2>2, <2>3
<1> QED
  BY <1>2, <1>3, <1>4, <1>5 DEF FlowInv

\* A step of the run, which leaves the layers as they are.
LEMMA RunStep ==
  ASSUME FlowInv, flow.pc \in Built, flow' \in FlowState, flow'.pc \in Built, flow'.deps = flow.deps,
         flow'.layers = flow.layers,
         verdict' \in [Node -> {"pending", "skipped", "succeeded", "failed"}],
         task' \in [Node -> {"none", "queued", "called", "leased", "answered", "raised"}]
  PROVE  /\ FlowTypeOK' /\ Layered' /\ Longest' /\ Waiting' /\ Visited' = Node
         /\ \A n \in Node : Rank(n)' = Rank(n) /\ Ancestors(n)' = Ancestors(n)
<1>0. FlowTypeOK /\ Layered /\ Longest /\ Visited = Node
  BY DEF FlowInv, Progress
<1>1. FlowTypeOK'
  BY DEF FlowTypeOK
<1>2. Visited' = Node /\ \A n \in Node : Rank(n)' = Rank(n) /\ Ancestors(n)' = Ancestors(n)
  BY <1>0, GraphStays
<1>3. Layered' /\ Waiting'
  BY <1>0 DEF Layered, Waiting, Built
<1>4. Longest'
  BY <1>0, GraphStays, FlowTypes DEF Longest
<1> QED
  BY <1>1, <1>2, <1>3, <1>4

\* A node whose ancestors stay as they were is cut as it was.
LEMMA CutStays ==
  ASSUME FlowTypeOK, Layered, Visited = Node, NEW n \in Node, Ancestors(n)' = Ancestors(n),
         \A m \in Node : Rank(m) < Rank(n) => task'[m] = task[m]
  PROVE  Cut(n)' <=> Cut(n)
<1>1. \A a \in Ancestors(n) : task'[a] = task[a]
  BY RanksDescend
<1> QED
  BY <1>1 DEF Cut

\* In the layer whose turn it is, a node is cut exactly if something it
\* depends on did not succeed.
LEMMA CutIsUnsatisfied ==
  ASSUME FlowInv, flow.pc = "layer", NEW n \in Node, Rank(n) = flow.at
  PROVE  Satisfied(n) <=> ~Cut(n)
<1>0. FlowTypeOK /\ Layered /\ Visited = Node
  BY DEF FlowInv, Progress, Built
<1>1. \A a \in Ancestors(n) : a \in Node /\ Settled(a)
  BY <1>0, RanksDescend DEF FlowInv, Progress
<1>2. ASSUME Satisfied(n), NEW a \in Ancestors(n), task[a] = "raised" PROVE FALSE
  <2>1. PICK d \in flow.deps[n] : a = d \/ a \in Ancestors(d)
    BY <1>0, AncestorsOfAncestors
  <2>2. d \in Ancestors(n) /\ verdict[d] = "succeeded"
    BY <1>0, <1>2, AncestorsOfAncestors DEF Satisfied
  <2>3. task[d] = "answered" /\ ~Cut(d)
    BY <1>1, <2>2 DEF Settled, Ran, PassedOver
  <2> QED
    BY <1>2, <2>1, <2>3 DEF Cut
<1>3. ASSUME ~Cut(n), NEW d \in flow.deps[n] PROVE verdict[d] = "succeeded"
  <2>1. d \in Ancestors(n) /\ Ancestors(d) \subseteq Ancestors(n)
    BY <1>0, AncestorsOfAncestors
  <2>2. Settled(d) /\ task[d] # "raised" /\ ~Cut(d)
    BY <1>1, <1>3, <2>1 DEF Cut
  <2> QED
    BY <2>2 DEF Settled, Ran, PassedOver
<1> QED
  BY <1>2, <1>3 DEF Cut, Satisfied

LEMMA BeginLayerKeeps ==
  ASSUME FlowInv, BeginLayer
  PROVE  FlowInv'
<1> DEFINE layer == flow.layers[flow.at]
<1>0. FlowTypeOK /\ Layered /\ Longest /\ Progress /\ flow.pc = "layer" /\ Visited = Node /\ flow.at \in DOMAIN flow.layers
  BY FlowTypes DEF FlowInv, BeginLayer, Progress, Built
<1>1. \A n \in Node : n \in layer <=> Rank(n) = flow.at
  BY <1>0, RankIsPlace
<1> HIDE DEF layer
<1>2. /\ flow' = [flow EXCEPT !.pc = "pool"]
      /\ verdict' = [n \in Node |-> IF n \in layer /\ ~Satisfied(n) THEN "skipped" ELSE verdict[n]]
      /\ task' = [n \in Node |-> IF n \in layer /\ Satisfied(n) THEN "queued" ELSE task[n]]
  BY DEF BeginLayer, layer
<1>3. /\ flow' \in FlowState /\ flow'.pc = "pool" /\ flow'.deps = flow.deps /\ flow'.layers = flow.layers
      /\ flow'.at = flow.at /\ flow'.policy = flow.policy
  BY <1>0, <1>2 DEF FlowTypeOK, FlowState, Built
<1>4. /\ verdict' \in [Node -> {"pending", "skipped", "succeeded", "failed"}]
      /\ task' \in [Node -> {"none", "queued", "called", "leased", "answered", "raised"}]
  BY <1>0, <1>2 DEF FlowTypeOK
<1>5. /\ FlowTypeOK' /\ Layered' /\ Longest' /\ Waiting' /\ Visited' = Node
      /\ \A n \in Node : Rank(n)' = Rank(n) /\ Ancestors(n)' = Ancestors(n)
  BY <1>0, <1>3, <1>4, RunStep DEF Built
<1>6. \A n \in Node : Rank(n) # flow.at => task'[n] = task[n] /\ verdict'[n] = verdict[n]
  BY <1>1, <1>2
<1>7. \A n \in Node : Rank(n) <= flow.at => (Cut(n)' <=> Cut(n))
  <2>1. ASSUME NEW n \in Node, Rank(n) <= flow.at PROVE Cut(n)' <=> Cut(n)
    <3>1. \A m \in Node : Rank(m) < Rank(n) => Rank(m) # flow.at
      BY <1>0, <2>1, RankIsPlace, FlowTypes
    <3> QED
      BY <1>0, <1>5, <1>6, <3>1, CutStays
  <2> QED
    BY <2>1
<1>8. ASSUME NEW n \in Node
      PROVE  /\ Rank(n) < flow.at => Settled(n)' /\ GoesOn(n)'
             /\ Rank(n) > flow.at => Untouched(n)'
             /\ Rank(n) = flow.at => InTurn(n)'
  <2>1. CASE Rank(n) < flow.at
    <3>1. Rank(n) <= flow.at /\ Rank(n) # flow.at /\ ~(Rank(n) > flow.at)
      BY <1>0, <2>1, RankIsPlace, FlowTypes
    <3>2. Settled(n) /\ GoesOn(n)
      BY <1>0, <2>1 DEF Progress
    <3> QED
      BY <1>3, <1>6, <1>7, <3>1, <3>2 DEF Settled, Ran, PassedOver, GoesOn
  <2>2. CASE Rank(n) > flow.at
    <3>1. Rank(n) # flow.at /\ ~(Rank(n) < flow.at)
      BY <1>0, <2>2, RankIsPlace, FlowTypes
    <3>2. Untouched(n)
      BY <1>0, <2>2 DEF Progress
    <3> QED
      BY <1>6, <3>1, <3>2 DEF Untouched
  <2>3. CASE Rank(n) = flow.at
    <3>1. n \in layer /\ Rank(n) <= flow.at /\ ~(Rank(n) < flow.at) /\ ~(Rank(n) > flow.at)
      BY <1>0, <1>1, <2>3, FlowTypes
    <3>2. Untouched(n)
      BY <1>0, <2>3 DEF Progress
    <3>3. Satisfied(n) <=> ~Cut(n)
      BY <1>0, <2>3, CutIsUnsatisfied
    <3>4. Satisfied(n) => verdict'[n] = "pending" /\ task'[n] = "queued"
      BY <1>2, <3>1, <3>2 DEF Untouched
    <3>5. ~Satisfied(n) => verdict'[n] = "skipped" /\ task'[n] = "none"
      BY <1>2, <3>1, <3>2 DEF Untouched
    <3> QED
      BY <1>7, <3>1, <3>3, <3>4, <3>5 DEF InTurn, Settled, PassedOver
  <2> QED
    BY <1>0, <2>1, <2>2, <2>3, RankIsPlace, FlowTypes
<1>9. Progress'
  BY <1>0, <1>3, <1>5, <1>8 DEF Progress, Built
<1> QED
  BY <1>5, <1>9 DEF FlowInv

\* A node of the layer whose turn it is gets on with its task or its verdict.
LEMMA TurnKeeps ==
  ASSUME FlowInv, flow.pc = "pool", UNCHANGED flow, NEW n \in Node, Rank(n) = flow.at,
         \A m \in Node \ {n} : task'[m] = task[m] /\ verdict'[m] = verdict[m],
         verdict' \in [Node -> {"pending", "skipped", "succeeded", "failed"}],
         task' \in [Node -> {"none", "queued", "called", "leased", "answered", "raised"}],
         ~Cut(n), task'[n] # "none",
         \/ verdict'[n] = "pending"
         \/ verdict'[n] = "succeeded" /\ task'[n] = "answered"
         \/ verdict'[n] = "failed" /\ task'[n] = "raised"
  PROVE  FlowInv'
<1>0. FlowTypeOK /\ Layered /\ Longest /\ Progress /\ Visited = Node /\ flow.at \in DOMAIN flow.layers
  BY DEF FlowInv, Progress, Built
<1>1. /\ FlowTypeOK' /\ Layered' /\ Longest' /\ Waiting' /\ Visited' = Node
      /\ \A m \in Node : Rank(m)' = Rank(m) /\ Ancestors(m)' = Ancestors(m)
  BY <1>0, RunStep DEF Built, FlowTypeOK
<1>2. \A m \in Node : Rank(m) <= flow.at => (Cut(m)' <=> Cut(m))
  <2>1. ASSUME NEW m \in Node, Rank(m) <= flow.at PROVE Cut(m)' <=> Cut(m)
    <3>1. \A x \in Node : Rank(x) < Rank(m) => x # n
      BY <1>0, <2>1, RankIsPlace, FlowTypes
    <3> QED
      BY <1>0, <1>1, <3>1, CutStays
  <2> QED
    BY <2>1
<1>3. ASSUME NEW m \in Node
      PROVE  /\ Rank(m) < flow.at => Settled(m)' /\ GoesOn(m)'
             /\ Rank(m) > flow.at => Untouched(m)'
             /\ Rank(m) = flow.at => InTurn(m)'
  <2>0. Rank(m) \in Nat /\ flow.at \in Nat
    BY <1>0, RankIsPlace, FlowTypes
  <2>1. CASE Rank(m) < flow.at
    BY <1>0, <1>2, <2>0, <2>1 DEF Progress, Settled, Ran, PassedOver, GoesOn
  <2>2. CASE Rank(m) > flow.at
    BY <1>0, <2>0, <2>2 DEF Progress, Untouched
  <2>3. CASE Rank(m) = flow.at /\ m # n
    BY <1>0, <1>2, <2>0, <2>3 DEF Progress, InTurn, Settled, Ran, PassedOver
  <2>4. CASE m = n
    BY <1>2, <2>0, <2>4 DEF InTurn, Settled, Ran
  <2> QED
    BY <2>0, <2>1, <2>2, <2>3, <2>4
<1>4. Progress'
  BY <1>0, <1>1, <1>3 DEF Progress, Built
<1> QED
  BY <1>1, <1>4 DEF FlowInv

LEMMA TaskStepKeeps ==
  ASSUME FlowInv, NEW n \in Node,
         CallDispatch(n) \/ RoleBusy(n) \/ RoleTaken(n) \/ DispatchRaises(n) \/ DispatchAnswers(n) \/ StoreResult(n)
  PROVE  FlowInv'
<1>0. FlowTypeOK /\ Progress /\ UNCHANGED flow
  BY DEF FlowInv, CallDispatch, RoleBusy, RoleTaken, DispatchRaises, DispatchAnswers, StoreResult
<1>1. verdict[n] = "pending" \/ task[n] \in {"queued", "called", "leased"}
  BY DEF CallDispatch, RoleBusy, RoleTaken, DispatchRaises, DispatchAnswers, StoreResult
<1>2. task[n] \in {"queued", "called", "leased", "answered", "raised"}
  BY DEF CallDispatch, RoleBusy, RoleTaken, DispatchRaises, DispatchAnswers, StoreResult
<1>3. ~Settled(n) /\ ~Untouched(n) /\ ~(verdict[n] = "skipped" /\ task[n] = "none")
  BY <1>1, <1>2 DEF Settled, Ran, PassedOver, Untouched
<1>4. flow.pc \in {"layer", "pool"}
  <2>1. flow.pc \in {"body", "layering", "refused"} \cup Built
    BY <1>0 DEF FlowTypeOK, FlowState
  <2>2. flow.pc \in Built
    BY <1>0, <1>3, <2>1 DEF Progress
  <2>3. ASSUME Stopped PROVE FALSE
    <3>1. Visited = Node /\ Layered
      BY <1>0, <2>2 DEF Progress, FlowInv
    <3>2. Rank(n) \in Nat /\ flow.at \in Nat
      BY <1>0, <3>1, RankIsPlace, FlowTypes
    <3> QED
      BY <1>3, <2>3, <3>2 DEF Stopped
  <2>4. ~Completed
    BY <1>3 DEF Completed
  <2> QED
    BY <1>0, <2>2, <2>3, <2>4 DEF Progress, Built
<1>5. flow.pc = "pool" /\ Rank(n) = flow.at /\ InTurn(n)
  <2>1. Visited = Node /\ Layered
    BY <1>0, <1>4 DEF Progress, FlowInv, Built
  <2>2. Rank(n) \in Nat /\ flow.at \in Nat
    BY <1>0, <2>1, RankIsPlace, FlowTypes
  <2> QED
    BY <1>0, <1>3, <1>4, <2>2 DEF Progress
<1>6. ~Cut(n) /\ verdict[n] = "pending"
  BY <1>3, <1>5 DEF InTurn
<1>7. CASE StoreResult(n)
  <2>1. /\ \A m \in Node \ {n} : verdict'[m] = verdict[m] /\ task'[m] = task[m]
        /\ task' = task
        /\ verdict' \in [Node -> {"pending", "skipped", "succeeded", "failed"}]
        /\ \/ verdict'[n] = "succeeded" /\ task'[n] = "answered"
           \/ verdict'[n] = "failed" /\ task'[n] = "raised"
    BY <1>0, <1>7 DEF StoreResult, FlowTypeOK
  <2> QED
    BY <1>0, <1>2, <1>5, <1>6, <2>1, TurnKeeps DEF FlowTypeOK
<1>8. CASE CallDispatch(n) \/ RoleBusy(n) \/ RoleTaken(n) \/ DispatchRaises(n) \/ DispatchAnswers(n)
  <2>1. \E t \in {"called", "leased", "answered", "raised"} : task' = [task EXCEPT ![n] = t] /\ verdict' = verdict
    BY <1>8 DEF CallDispatch, RoleBusy, RoleTaken, DispatchRaises, DispatchAnswers
  <2>2. /\ \A m \in Node \ {n} : verdict'[m] = verdict[m] /\ task'[m] = task[m]
        /\ task' \in [Node -> {"none", "queued", "called", "leased", "answered", "raised"}]
        /\ task'[n] # "none" /\ verdict' = verdict
    BY <1>0, <2>1 DEF FlowTypeOK
  <2> QED
    BY <1>0, <1>5, <1>6, <2>2, TurnKeeps DEF FlowTypeOK
<1> QED
  BY <1>7, <1>8

LEMMA EndLayerKeeps ==
  ASSUME FlowInv, EndLayer
  PROVE  FlowInv'
<1>0. FlowTypeOK /\ Layered /\ Longest /\ Progress /\ Visited = Node /\ flow.pc = "pool" /\ flow.at \in DOMAIN flow.layers
      /\ task' = task
  BY DEF FlowInv, EndLayer, Progress, Built
<1>1. flow.at \in Nat \ {0} /\ (\A n \in Node : Rank(n) \in Nat) /\ flow \in FlowState
  BY <1>0, RankIsPlace, FlowTypes DEF FlowTypeOK
<1>2. \A n \in Node : Rank(n) = flow.at => Settled(n)
  <2>1. ASSUME NEW n \in Node, Rank(n) = flow.at PROVE Settled(n)
    <3>1. verdict[n] # "pending"
      BY <1>0, <2>1, RankIsPlace DEF EndLayer
    <3> QED
      BY <1>0, <2>1, <3>1 DEF Progress, InTurn
  <2> QED
    BY <2>1
<1>3. \A n \in Node : Rank(n) <= flow.at => Settled(n) /\ verdict[n] # "pending"
  <2>1. \A n \in Node : Rank(n) <= flow.at => Settled(n)
    BY <1>0, <1>1, <1>2 DEF Progress
  <2> QED
    BY <2>1 DEF Settled, Ran, PassedOver
<1>4. \A n \in Node : Rank(n) > flow.at => Untouched(n)
  BY <1>0 DEF Progress
<1>5. CASE flow.policy = "fail_fast" /\ \E n \in Node : verdict[n] = "failed"
  <2>1. flow' = [flow EXCEPT !.pc = "done"] /\ verdict' = [n \in Node |-> GivenUp(n)]
    BY <1>5 DEF EndLayer
  <2>2. flow' \in FlowState /\ flow'.pc = "done" /\ flow'.deps = flow.deps /\ flow'.layers = flow.layers
        /\ flow'.at = flow.at /\ flow'.policy = flow.policy
    BY <1>1, <2>1 DEF FlowState, Built
  <2>3. \A n \in Node : verdict'[n] = IF verdict[n] = "pending" THEN "skipped" ELSE verdict[n]
    BY <2>1 DEF GivenUp
  <2>4. verdict' \in [Node -> {"pending", "skipped", "succeeded", "failed"}]
    BY <1>0, <2>1 DEF GivenUp, FlowTypeOK
  <2>5. /\ FlowTypeOK' /\ Layered' /\ Longest' /\ Waiting' /\ Visited' = Node
        /\ \A n \in Node : Rank(n)' = Rank(n) /\ Ancestors(n)' = Ancestors(n)
    BY <1>0, <2>2, <2>4, RunStep DEF Built, FlowTypeOK
  <2>6. \A n \in Node : Cut(n)' <=> Cut(n)
    BY <1>0, <2>5 DEF Cut
  <2>7. PICK m \in Node : verdict[m] = "failed"
    BY <1>5
  <2>8. Rank(m) = flow.at
    <3>1. ~(Rank(m) < flow.at)
      BY <1>0, <1>5, <2>7 DEF Progress, GoesOn
    <3>2. ~(Rank(m) > flow.at)
      BY <1>4, <2>7 DEF Untouched
    <3> QED
      BY <1>1, <3>1, <3>2
  <2>9. ASSUME NEW n \in Node
        PROVE  /\ Rank(n) < flow.at => verdict'[n] # "failed"
               /\ Rank(n) <= flow.at => Settled(n)'
               /\ Rank(n) > flow.at => verdict'[n] = "skipped" /\ task'[n] = "none"
    <3>1. Rank(n) < flow.at => verdict[n] # "failed"
      BY <1>0, <1>5 DEF Progress, GoesOn
    <3>2. Rank(n) <= flow.at => Settled(n) /\ verdict'[n] = verdict[n]
      BY <1>3, <2>3
    <3>3. Rank(n) <= flow.at => Settled(n)'
      BY <1>0, <2>6, <3>2 DEF Settled, Ran, PassedOver
    <3> QED
      BY <1>0, <1>4, <2>3, <3>1, <3>3 DEF Untouched
  <2>10. Stopped'
    BY <1>0, <1>5, <2>2, <2>3, <2>5, <2>7, <2>8, <2>9 DEF Stopped
  <2> QED
    BY <2>2, <2>5, <2>10 DEF FlowInv, Progress, Built
<1>6. CASE ~(flow.policy = "fail_fast" /\ \E n \in Node : verdict[n] = "failed")
  <2>1. flow' = [flow EXCEPT !.pc = "layer", !.at = @ + 1] /\ verdict' = verdict
    BY <1>6 DEF EndLayer
  <2>2. flow' \in FlowState /\ flow'.pc = "layer" /\ flow'.deps = flow.deps /\ flow'.layers = flow.layers
        /\ flow'.at = flow.at + 1 /\ flow'.policy = flow.policy
    <3>1. flow.at + 1 \in Nat \ {0}
      BY <1>1
    <3> QED
      BY <1>1, <2>1, <3>1 DEF FlowState, Built
  <2>3. /\ FlowTypeOK' /\ Layered' /\ Longest' /\ Waiting' /\ Visited' = Node
        /\ \A n \in Node : Rank(n)' = Rank(n) /\ Ancestors(n)' = Ancestors(n)
    BY <1>0, <2>1, <2>2, RunStep DEF Built, FlowTypeOK
  <2>4. \A n \in Node : (Settled(n)' <=> Settled(n)) /\ (Untouched(n)' <=> Untouched(n))
    BY <1>0, <2>1, <2>3 DEF Settled, Ran, PassedOver, Untouched, Cut
  <2>5. \A n \in Node : GoesOn(n)'
    BY <1>6, <2>1, <2>2 DEF GoesOn
  <2>6. ASSUME NEW n \in Node
        PROVE  /\ Rank(n) < flow.at + 1 => Settled(n)' /\ GoesOn(n)'
               /\ Rank(n) >= flow.at + 1 => Untouched(n)'
    <3>1. Rank(n) < flow.at + 1 => Rank(n) <= flow.at
      BY <1>1
    <3>2. Rank(n) >= flow.at + 1 => Rank(n) > flow.at
      BY <1>1
    <3> QED
      BY <1>3, <1>4, <2>4, <2>5, <3>1, <3>2
  <2>7. \A n \in Node : (Rank(n) = flow.at + 1 => Rank(n) >= flow.at + 1) /\ (Rank(n) > flow.at + 1 => Rank(n) >= flow.at + 1)
    BY <1>1
  <2> QED
    BY <2>2, <2>3, <2>6, <2>7 DEF FlowInv, Progress, Built
<1> QED
  BY <1>5, <1>6

LEMMA EndRunKeeps ==
  ASSUME FlowInv, EndRun
  PROVE  FlowInv'
<1>0. FlowTypeOK /\ Layered /\ Longest /\ Progress /\ Visited = Node /\ UNCHANGED <<verdict, task>>
      /\ flow.pc \in {"done", "layer"}
  BY DEF FlowInv, EndRun, Progress, Built
<1>1. /\ flow' \in FlowState /\ flow'.pc \in {"aborted", "returned"} /\ flow'.deps = flow.deps
      /\ flow'.layers = flow.layers /\ flow'.at = flow.at /\ flow'.policy = flow.policy
  <2>1. flow \in FlowState
    BY <1>0 DEF FlowTypeOK
  <2>2. flow' = [flow EXCEPT !.pc = "aborted"] \/ flow' = [flow EXCEPT !.pc = "returned"]
    BY DEF EndRun
  <2> QED
    BY <2>1, <2>2 DEF FlowState, Built
<1>2. /\ FlowTypeOK' /\ Layered' /\ Longest' /\ Waiting' /\ Visited' = Node
      /\ \A n \in Node : Rank(n)' = Rank(n) /\ Ancestors(n)' = Ancestors(n)
  BY <1>0, <1>1, RunStep DEF Built, FlowTypeOK
<1>3. \A n \in Node : (Settled(n)' <=> Settled(n)) /\ (GoesOn(n)' <=> GoesOn(n))
  BY <1>0, <1>1, <1>2 DEF Settled, Ran, PassedOver, Cut, GoesOn
<1>4. Stopped' \/ Completed'
  <2>1. CASE flow.pc = "done"
    <3>1. Stopped
      BY <1>0, <2>1 DEF Progress
    <3> QED
      BY <1>0, <1>1, <1>2, <1>3, <3>1 DEF Stopped
  <2>2. CASE flow.pc = "layer"
    <3>1. ASSUME NEW n \in Node PROVE Rank(n) < flow.at
      <4>1. Rank(n) \in 1 .. Len(flow.layers) /\ flow.at > Len(flow.layers) /\ flow.at \in Nat /\ Len(flow.layers) \in Nat
        BY <1>0, <2>2, RankIsPlace, FlowTypes DEF EndRun
      <4> QED
        BY <4>1
    <3>2. Completed
      BY <1>0, <2>2, <3>1 DEF Progress, Completed
    <3> QED
      BY <1>3, <3>2 DEF Completed
  <2> QED
    BY <1>0, <2>1, <2>2
<1> QED
  BY <1>1, <1>2, <1>4 DEF FlowInv, Progress, Built

LEMMA FlowStep ==
  ASSUME FlowInv, [FlowNext]_flowVars
  PROVE  FlowInv'
<1>1. CASE UNCHANGED flowVars
  <2>1. UNCHANGED <<flow, verdict, task>>
    BY <1>1 DEF flowVars
  <2>2. \A n \in Node : Ancestors(n)' = Ancestors(n) /\ Chains(n)' = Chains(n) /\ Rank(n)' = Rank(n)
    BY <2>1, GraphStays
  <2>3. Visited' = Visited /\ FlowTypeOK' /\ Layered'
    BY <2>1 DEF FlowInv, Visited, FlowTypeOK, Layered
  <2>4. \A n \in Node : /\ (Settled(n)' <=> Settled(n)) /\ (GoesOn(n)' <=> GoesOn(n)) /\ (InTurn(n)' <=> InTurn(n))
                        /\ (Untouched(n)' <=> Untouched(n))
    BY <2>1, <2>2 DEF Settled, Ran, PassedOver, Cut, GoesOn, InTurn, Untouched
  <2>5. (Stopped' <=> Stopped) /\ (Completed' <=> Completed)
    BY <2>1, <2>2, <2>4 DEF Stopped, Completed
  <2>6. Waiting' /\ Longest'
    BY <2>1, <2>2, <2>3, FlowTypes DEF FlowInv, Waiting, Longest
  <2>7. Progress'
    BY <2>1, <2>2, <2>3, <2>4, <2>5 DEF FlowInv, Progress
  <2> QED
    BY <2>3, <2>6, <2>7 DEF FlowInv
<1> QED
  BY <1>1, BuildKeeps, TakeLayerKeeps, EndLayeringKeeps, BeginLayerKeeps, TaskStepKeeps, EndLayerKeeps, EndRunKeeps
     DEF FlowNext

\* Once the layers are there, being less deep is being in a layer before.
LEMMA DepthOrders ==
  ASSUME FlowInv, Visited = Node, NEW m \in Node, NEW n \in Node
  PROVE  Depth(m) < Depth(n) <=> Rank(m) < Rank(n)
<1>1. Depth(m) = Rank(m) - 1 /\ Depth(n) = Rank(n) - 1 /\ Rank(m) \in Nat /\ Rank(n) \in Nat
  BY RankIsPlace, DepthIsPlace DEF FlowInv
<1> QED
  BY <1>1

LEMMA WorkflowIsInOrder ==
  ASSUME FlowInv
  PROVE  InOrder /\ ((\E n \in Node : n \in Ancestors(n)) => \A n \in Node : task[n] = "none")
<1>0. FlowTypeOK /\ Layered /\ Progress
  BY DEF FlowInv
<1>1. CASE flow.pc \notin Built
  BY <1>0, <1>1 DEF Progress, Untouched, InOrder
<1>2. CASE flow.pc \in Built
  <2>1. Visited = Node
    BY <1>0, <1>2 DEF Progress
  <2>2. \A n \in Node : Rank(n) \in Nat /\ flow.at \in Nat
    BY <1>0, <2>1, RankIsPlace, FlowTypes
  <2>3. ASSUME NEW n \in Node, task[n] # "none"
        PROVE  ~Cut(n) /\ \A m \in Node : Rank(m) < Rank(n) => Settled(m)
    <3>1. CASE flow.pc \in {"layer", "pool"}
      <4>1. ~(Rank(n) > flow.at)
        BY <1>0, <2>3, <3>1 DEF Progress, Untouched
      <4>2. Rank(n) < flow.at \/ Rank(n) = flow.at
        BY <2>2, <4>1
      <4>3. ~Cut(n)
        BY <1>0, <2>3, <3>1, <4>2 DEF Progress, Untouched, InTurn, Settled, Ran, PassedOver
      <4>4. \A m \in Node : Rank(m) < Rank(n) => Rank(m) < flow.at
        BY <2>2, <4>2
      <4> QED
        BY <1>0, <3>1, <4>3, <4>4 DEF Progress
    <3>2. CASE Stopped
      <4>1. Rank(n) <= flow.at
        BY <2>2, <2>3, <3>2 DEF Stopped
      <4>2. ~Cut(n)
        BY <2>3, <3>2, <4>1 DEF Stopped, Settled, Ran, PassedOver
      <4>3. \A m \in Node : Rank(m) < Rank(n) => Rank(m) <= flow.at
        BY <2>2, <4>1
      <4> QED
        BY <3>2, <4>2, <4>3 DEF Stopped
    <3>3. CASE Completed
      BY <2>3, <3>3 DEF Completed, Settled, Ran, PassedOver
    <3> QED
      BY <1>0, <1>2, <3>1, <3>2, <3>3 DEF Progress, Built
  <2>4. ASSUME NEW n \in Node, task[n] # "none", NEW a \in Ancestors(n)
        PROVE  task[a] = "answered" /\ verdict[a] = "succeeded"
    <3>1. ~Cut(n) /\ Settled(a) /\ Ancestors(a) \subseteq Ancestors(n)
      BY <1>0, <2>1, <2>3, <2>4, RanksDescend, AncestorsOfAncestors
    <3>2. ~Cut(a) /\ task[a] # "raised"
      BY <3>1 DEF Cut
    <3> QED
      BY <3>1, <3>2 DEF Settled, Ran, PassedOver
  <2>5. \A n \in Node : n \notin Ancestors(n)
    BY <1>0, <2>1, <2>2, RanksDescend
  <2> QED
    BY <2>4, <2>5 DEF InOrder
<1> QED
  BY <1>1, <1>2

LEMMA WorkflowIsJudged ==
  ASSUME FlowInv
  PROVE  Judged
<1> DEFINE Skips(n) == \/ \E a \in Ancestors(n) : task[a] = "raised"
                       \/ /\ flow.policy = "fail_fast"
                          /\ \E m \in Node : task[m] = "raised" /\ Depth(m) < Depth(n)
<1>0. FlowTypeOK /\ Layered /\ Progress
  BY DEF FlowInv
<1>1. SUFFICES ASSUME flow.pc \in {"returned", "aborted"}, NEW n \in Node
               PROVE  \/ Skips(n) /\ verdict[n] = "skipped"
                      \/ ~Skips(n) /\ task[n] = "raised" /\ verdict[n] = "failed"
                      \/ ~Skips(n) /\ task[n] = "answered" /\ verdict[n] = "succeeded"
  BY DEF Judged
<1>2. Visited = Node /\ (Stopped \/ Completed)
  BY <1>0, <1>1 DEF Progress, Built
<1>3. \A m \in Node : (Depth(m) < Depth(n) <=> Rank(m) < Rank(n)) /\ Rank(m) \in Nat
  BY <1>0, <1>2, DepthOrders, RankIsPlace
<1>4. flow.at \in Nat
  BY <1>0, FlowTypes
<1>5. CASE Stopped
  <2>1. \A m \in Node : Rank(m) < flow.at => task[m] # "raised"
    <3>1. ASSUME NEW m \in Node, Rank(m) < flow.at PROVE task[m] # "raised"
      <4>1. Settled(m) /\ verdict[m] # "failed"
        BY <1>3, <1>4, <1>5, <3>1 DEF Stopped
      <4> QED
        BY <4>1 DEF Settled, Ran, PassedOver
    <3> QED
      BY <3>1
  <2>2. CASE Rank(n) <= flow.at
    <3>1. Settled(n)
      BY <1>5, <2>2 DEF Stopped
    <3>2. \A m \in Node : Rank(m) < Rank(n) => task[m] # "raised"
      BY <1>3, <1>4, <2>1, <2>2
    <3>3. ~Skips(n)
      BY <1>0, <1>2, <1>3, <3>2, RanksDescend
    <3> QED
      BY <3>1, <3>3 DEF Settled, Ran, PassedOver, Cut
  <2>3. CASE Rank(n) > flow.at
    <3>1. PICK m \in Node : Rank(m) = flow.at /\ verdict[m] = "failed"
      BY <1>5 DEF Stopped
    <3>2. Settled(m) /\ Rank(m) < Rank(n)
      BY <1>3, <1>4, <1>5, <2>3, <3>1 DEF Stopped
    <3>3. task[m] = "raised"
      BY <3>1, <3>2 DEF Settled, Ran, PassedOver
    <3>4. Skips(n)
      BY <1>3, <1>5, <3>2, <3>3 DEF Stopped
    <3> QED
      BY <1>5, <2>3, <3>4 DEF Stopped
  <2> QED
    BY <1>3, <1>4, <2>2, <2>3
<1>6. CASE Completed
  <2>1. flow.policy = "fail_fast" => \A m \in Node : task[m] # "raised"
    BY <1>6 DEF Completed, GoesOn, Settled, Ran, PassedOver
  <2>2. Skips(n) <=> Cut(n)
    BY <2>1 DEF Cut
  <2> QED
    BY <1>6, <2>2 DEF Completed, Settled, Ran, PassedOver
<1> QED
  BY <1>2, <1>5, <1>6

(* However the threads of a layer interleave and whatever the roles answer,  *)
(* for every graph and policy: a node is dispatched only after all it        *)
(* depends on was answered, a cyclic graph runs nothing, and at the end each *)
(* node has the verdict that graph, policy and answers give it.              *)
THEOREM WorkflowIsSound == FlowSpec => []WorkflowSound
<1>1. FlowInv => WorkflowSound
  BY WorkflowIsInOrder, WorkflowIsJudged DEF WorkflowSound
<1> QED
  BY <1>1, FlowInitially, FlowStep, PTL DEF FlowSpec
=============================================================================
