----------------------------- MODULE PluginLoader -----------------------------
(***************************************************************************)
(* The parent's coordination of plugins (PluginLoader and PluginManager of *)
(* src/src/core/kernel/plugin_sdk.py).  One thread at a time is in a       *)
(* public method, under _lifecycle_lock; the workers it starts fail, and   *)
(* are contained, at any moment.  A worker generation is what              *)
(* PluginGeneration promises of it, and what SubprocessPluginRuntime is    *)
(* shown to implement.                                                     *)
(*                                                                         *)
(* A call of a runtime's start, invoke or close is one step.  It may be    *)
(* interrupted: KeyboardInterrupt and SystemExit pass every except         *)
(* Exception of this code.                                                 *)
(***************************************************************************)
EXTENDS Integers, FiniteSets

CONSTANTS
  Plugin,       \* plugin identifiers
  Foreign,      \* plugins whose manifest names a runtime that is not run
  MaxGen,       \* bound on the generations of a plugin
  MaxInterrupts \* bound on the interrupts

ASSUME LoaderAssumption ==
  /\ IsFiniteSet(Plugin) /\ Foreign \subseteq Plugin
  /\ MaxGen \in Nat /\ MaxInterrupts \in Nat

VARIABLES
  table,        \* _plugins: the instance of a plugin, if any: its status, its
                \* generation, and whether its _runtime is kept
  generations,  \* _generations
  workers,      \* every generation's worker
  method,       \* the public method that holds _lifecycle_lock
  unloading,    \* the plugins close has yet to unload
  interrupts    \* interrupts so far

loaderVars == <<table, generations, workers, method, unloading, interrupts>>

Gen == 1 .. MaxGen

\* A worker process, as in PluginGeneration.
Unborn == [alive |-> "none", usable |-> FALSE, ended |-> FALSE, confirmed |-> FALSE]

NoMethod == [pc |-> "idle", plugin |-> {}, gen |-> 0, cut |-> FALSE]

EntryOf(p) == CHOOSE e \in table[p] : TRUE
Known(p) == table[p] # {}

LoaderInit ==
  /\ table = [p \in Plugin |-> {}]
  /\ generations = [p \in Plugin |-> 0]
  /\ workers = [p \in Plugin |-> [g \in Gen |-> Unborn]]
  /\ method = NoMethod /\ unloading = {} /\ interrupts = 0

-----------------------------------------------------------------------------
(* What a call of the runtime may do to a worker c.                         *)

\* _terminate_process: the worker is gone and confirmed, or outlives it.  A
\* worker that was never started is not confirmed either.
Terminated(c) ==
  IF c.alive = "none" THEN {[c EXCEPT !.usable = FALSE]}
  ELSE {[c EXCEPT !.alive = a, !.usable = FALSE, !.ended = TRUE, !.confirmed = (a = "gone")] :
          a \in {c.alive, "gone"}}

\* start: ready, or failed before or after the process was spawned.
StartedOk == {[Unborn EXCEPT !.alive = "up", !.usable = TRUE]}
StartedBadly == {Unborn} \cup Terminated([Unborn EXCEPT !.alive = "up"])
StartCut == {Unborn, [Unborn EXCEPT !.alive = "up"]}

\* invoke: a worker that ended, or that was never ready, is terminated again.
Invoked(c) == IF c.usable /\ ~c.ended THEN {c} ELSE {}
Ended(c) == IF c.ended \/ c.usable THEN Terminated(c) ELSE {c}
\* A shutdown succeeds only when the worker was then seen to be gone.
ShutDown(c) ==
  IF c.usable /\ ~c.ended THEN {d \in Terminated(c) : d.confirmed} ELSE {}

\* termination_confirmed of the runtime's snapshot.  Mutant: that the generation
\* has ended is taken for it.
TerminationAssumed(c) == c.ended
TerminationConfirmed(c) == c.confirmed

Becomes(p, g, c) == workers' = [workers EXCEPT ![p][g] = c]
This(p) == workers[p][method.gen]
MayInterrupt == interrupts < MaxInterrupts
Interrupted == MayInterrupt /\ interrupts' = interrupts + 1

-----------------------------------------------------------------------------
(* load                                                                     *)

\* An instance that exists is returned as it is, whatever its status.
Load(p) ==
  /\ method = NoMethod /\ ~Known(p)
  /\ IF p \in Foreign
     THEN /\ table' = [table EXCEPT ![p] = {[status |-> "error", gen |-> 0, runtime |-> FALSE]}]
          /\ UNCHANGED <<generations, method>>
     ELSE /\ generations[p] < MaxGen
          /\ generations' = [generations EXCEPT ![p] = @ + 1]
          /\ method' = [NoMethod EXCEPT !.pc = "start", !.plugin = {p}, !.gen = generations[p] + 1]
          /\ UNCHANGED table
  /\ UNCHANGED <<workers, unloading, interrupts>>

Instanced(p, status, runtime) ==
  table' = [table EXCEPT ![p] = {[status |-> status, gen |-> method.gen, runtime |-> runtime]}]

\* The runtime starts; it fails, or its identity is not the one asked for.
LoadStart(p) ==
  /\ method.pc = "start" /\ method.plugin = {p}
  /\ \/ /\ \E c \in StartedOk : Becomes(p, method.gen, c)
        /\ method' = [method EXCEPT !.pc = "load"]
     \/ /\ \E c \in StartedOk \cup StartedBadly : Becomes(p, method.gen, c)
        /\ method' = [method EXCEPT !.pc = "drop"]
  /\ UNCHANGED <<table, generations, unloading, interrupts>>

\* The factory failed, or was interrupted: there is no runtime to close.
LoadUnmade(p) ==
  /\ method.pc = "start" /\ method.plugin = {p}
  /\ method' = NoMethod
  /\ \/ Instanced(p, "error", FALSE) /\ UNCHANGED interrupts
     \/ Interrupted /\ UNCHANGED table
  /\ UNCHANGED <<generations, workers, unloading>>

LoadInvoke(p) ==
  /\ method.pc = "load" /\ method.plugin = {p}
  /\ \/ /\ Invoked(This(p)) # {} /\ UNCHANGED workers
        /\ Instanced(p, "loaded", TRUE) /\ method' = NoMethod
     \/ /\ \E c \in Invoked(This(p)) \cup Ended(This(p)) : Becomes(p, method.gen, c)
        /\ method' = [method EXCEPT !.pc = "drop"] /\ UNCHANGED table
  /\ UNCHANGED <<generations, unloading, interrupts>>

\* start or LOAD is interrupted, with or without a worker by then.
LoadCut(p) ==
  /\ method.pc \in {"start", "load"} /\ method.plugin = {p} /\ Interrupted
  /\ \E c \in IF method.pc = "start" THEN StartCut ELSE {This(p)} : Becomes(p, method.gen, c)
  /\ method' = [method EXCEPT !.pc = "drop", !.cut = TRUE]
  /\ UNCHANGED <<table, generations, unloading>>

\* _close_failed_runtime, then _store_load_error, or _retain_interrupted_load
\* when the load itself was interrupted: that one keeps only a runtime whose
\* end was not confirmed.
LoadDrop(p) ==
  /\ method.pc = "drop" /\ method.plugin = {p}
  /\ \E c \in Terminated(This(p)) \cup (IF MayInterrupt THEN {This(p)} ELSE {}) :
       /\ Becomes(p, method.gen, c)
       /\ interrupts' = IF c \in Terminated(This(p)) THEN interrupts ELSE interrupts + 1
       /\ IF method.cut /\ TerminationConfirmed(c) THEN UNCHANGED table
          ELSE Instanced(p, "error", ~TerminationConfirmed(c))
  /\ method' = NoMethod
  /\ UNCHANGED <<generations, unloading>>

-----------------------------------------------------------------------------
(* enable and disable                                                       *)

Set(p, status) == table' = [table EXCEPT ![p] = {[EntryOf(p) EXCEPT !.status = status]}]

\* A plugin that has the status already is left alone, one in another status
\* than from is refused; without a runtime, and when the action fails, the
\* plugin is in error.  An interrupt changes nothing here.
Switch(p, from, to) ==
  /\ method = NoMethod /\ Known(p) /\ EntryOf(p).status \in from
  /\ LET e == EntryOf(p) IN
       \/ /\ ~e.runtime /\ Set(p, "error") /\ UNCHANGED workers
       \/ /\ e.runtime /\ Invoked(workers[p][e.gen]) # {} /\ Set(p, to) /\ UNCHANGED workers
       \/ /\ e.runtime /\ Set(p, "error")
          /\ \E c \in Invoked(workers[p][e.gen]) \cup Ended(workers[p][e.gen]) : Becomes(p, e.gen, c)
  /\ UNCHANGED <<generations, method, unloading, interrupts>>

Enable(p) == Switch(p, {"loaded", "disabled"}, "enabled")
Disable(p) == Switch(p, {"enabled"}, "disabled")

-----------------------------------------------------------------------------
(* unload and close                                                         *)

Unloading(p) == [NoMethod EXCEPT !.pc = "cleanup", !.plugin = {p}, !.gen = EntryOf(p).gen]

Unload(p) ==
  /\ method = NoMethod /\ Known(p)
  /\ IF EntryOf(p).runtime
     THEN method' = Unloading(p) /\ UNCHANGED table
     ELSE table' = [table EXCEPT ![p] = {}] /\ UNCHANGED method
  /\ UNCHANGED <<generations, workers, unloading, interrupts>>

\* CLEANUP succeeds, is refused, fails or is interrupted: SHUTDOWN follows.
UnloadCleanup(p) ==
  /\ method.pc = "cleanup" /\ method.plugin = {p}
  /\ method' = [method EXCEPT !.pc = "shutdown"]
  /\ \/ /\ \E c \in Invoked(This(p)) \cup Ended(This(p)) : Becomes(p, method.gen, c)
        /\ UNCHANGED interrupts
     \/ Interrupted /\ UNCHANGED workers
  /\ UNCHANGED <<table, generations, unloading>>

UnloadShutdown(p) ==
  /\ method.pc = "shutdown" /\ method.plugin = {p}
  /\ method' = [method EXCEPT !.pc = "close"]
  /\ \/ /\ \E c \in ShutDown(This(p)) \cup Invoked(This(p)) \cup Ended(This(p)) :
             Becomes(p, method.gen, c)
        /\ UNCHANGED interrupts
     \/ Interrupted /\ UNCHANGED workers
  /\ UNCHANGED <<table, generations, unloading>>

\* close of the runtime comes last whatever happened before it.  An instance
\* whose worker was not seen to end keeps its runtime.
UnloadClose(p) ==
  /\ method.pc = "close" /\ method.plugin = {p}
  /\ \E c \in Terminated(This(p)) \cup (IF MayInterrupt THEN {This(p)} ELSE {}) :
       /\ Becomes(p, method.gen, c)
       /\ interrupts' = IF c \in Terminated(This(p)) THEN interrupts ELSE interrupts + 1
       /\ IF TerminationConfirmed(c) THEN table' = [table EXCEPT ![p] = {}] ELSE Set(p, "error")
  /\ method' = NoMethod
  /\ UNCHANGED <<generations, unloading>>

\* PluginLoader.close holds the lock from the first plugin to the last: an
\* exception of one of them is kept until all are done.
CloseAll ==
  /\ method = NoMethod /\ unloading = {}
  /\ unloading' = {p \in Plugin : Known(p)}
  /\ UNCHANGED <<table, generations, workers, method, interrupts>>

CloseOne(p) ==
  /\ p \in unloading
  /\ unloading' = unloading \ {p}
  /\ method = NoMethod
  /\ IF EntryOf(p).runtime
     THEN method' = Unloading(p) /\ UNCHANGED table
     ELSE table' = [table EXCEPT ![p] = {}] /\ UNCHANGED method
  /\ UNCHANGED <<generations, workers, interrupts>>

-----------------------------------------------------------------------------
(* The worker ends by itself, and its transport contains what is left.      *)

GenerationDies(p, g) ==
  /\ workers[p][g].alive = "up"
  /\ Becomes(p, g, [workers[p][g] EXCEPT !.alive = "gone"])
  /\ UNCHANGED <<table, generations, method, unloading, interrupts>>

WorkerContained(p, g) ==
  /\ workers[p][g].alive # "none" /\ workers[p][g].usable
  /\ \E c \in Terminated(workers[p][g]) : Becomes(p, g, c)
  /\ UNCHANGED <<table, generations, method, unloading, interrupts>>

UnloadStep(p) == UnloadCleanup(p) \/ UnloadShutdown(p) \/ UnloadClose(p)
LoadStep(p) == LoadStart(p) \/ LoadUnmade(p) \/ LoadInvoke(p) \/ LoadCut(p) \/ LoadDrop(p)

LoaderNext ==
  \/ unloading = {} /\ (CloseAll \/ \E p \in Plugin : Load(p) \/ Enable(p) \/ Disable(p) \/ Unload(p))
  \/ \E p \in Plugin : LoadStep(p) \/ UnloadStep(p) \/ CloseOne(p)
  \/ \E p \in Plugin, g \in Gen : GenerationDies(p, g) \/ WorkerContained(p, g)

LoaderSpec == LoaderInit /\ [][LoaderNext]_loaderVars

-----------------------------------------------------------------------------
(* Every live worker belongs to the instance of its plugin, or to the      *)
(* method that is about to settle it: however a load or an unload is       *)
(* interrupted, no worker process is forgotten, and none is replaced while *)
(* it lives.                                                               *)
WorkerOwned ==
  \A p \in Plugin, g \in Gen :
    workers[p][g].alive = "up" =>
      \/ method.plugin = {p} /\ method.gen = g
      \/ \E e \in table[p] : e.runtime /\ e.gen = g
=============================================================================
