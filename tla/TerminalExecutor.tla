--------------------------- MODULE TerminalExecutor ---------------------------
(***************************************************************************)
(* TerminalExecutor of src/src/core/kernel/terminal_executor.py: commands  *)
(* run in processes of their own, in a directory the executor owns, and    *)
(* threads execute and close at the same time.  A command's directory is   *)
(* read three times, twice before the execution is counted.                *)
(*                                                                         *)
(* A step is one critical section of _execution_condition, one look at a   *)
(* shared field outside of it, or one wait for the command's process.      *)
(***************************************************************************)
EXTENDS Integers, FiniteSets

CONSTANTS
  User,            \* threads
  MaxConcurrency,  \* max_concurrency
  MaxAudit         \* TERMINAL_AUDIT_LIMIT

ASSUME ExecutorAssumption ==
  IsFiniteSet(User) /\ MaxConcurrency \in Nat \ {0} /\ MaxAudit \in Nat

VARIABLES
  command,     \* how far the command of each thread is
  process,     \* its process, and whether something it started holds its pipes
  counted,     \* _running_count
  sandbox,     \* the directory, the field that names it, and the closing flag
  cleaner,     \* threads in close
  audit        \* length of _audit_log

execVars == <<command, process, counted, sandbox, cleaner, audit>>

Quiet == [state |-> "none", holder |-> FALSE]
In(u, pc) == command[u] = pc
Proceeds(u, pc) == command' = [command EXCEPT ![u] = pc]
Occupied == {u \in User : command[u] \in {"run", "collect", "give"}}

ExecInit ==
  /\ command = [u \in User |-> "idle"] /\ process = [u \in User |-> Quiet]
  /\ counted = 0 /\ sandbox = [there |-> TRUE, named |-> TRUE, closing |-> FALSE]
  /\ cleaner = {} /\ audit = 0

\* The first look: a command for a closed sandbox, a dangerous one, or one that
\* brings a directory or an environment of its own is refused.
Execute(u) ==
  /\ In(u, "idle") /\ u \notin cleaner
  /\ sandbox.named /\ Proceeds(u, "look")
  /\ UNCHANGED <<process, counted, sandbox, cleaner, audit>>

\* The second: os.path.isdir of a field that was cleared in between raises.
LookAgain(u) ==
  /\ In(u, "look")
  /\ Proceeds(u, IF sandbox.named THEN "admit" ELSE "idle")
  /\ UNCHANGED <<process, counted, sandbox, cleaner, audit>>

\* Mutant of MayRun: whether the executor was closed is looked at only before.
MayRunStill == counted < MaxConcurrency
MayRun == sandbox.named /\ ~sandbox.closing /\ counted < MaxConcurrency

\* A denied command, one too many, or one after closing began is refused.
Admit(u) ==
  /\ In(u, "admit")
  /\ \/ Proceeds(u, "idle") /\ UNCHANGED counted
     \/ /\ MayRun
        /\ counted' = counted + 1 /\ Proceeds(u, "run")
  /\ UNCHANGED <<process, sandbox, cleaner, audit>>

\* _run_command: the process starts, or the call fails.
Run(u) ==
  /\ In(u, "run")
  /\ \/ Proceeds(u, "give") /\ UNCHANGED process
     \/ process' = [process EXCEPT ![u].state = "up"] /\ Proceeds(u, "collect")
  /\ UNCHANGED <<counted, sandbox, cleaner, audit>>

\* _bounded_process_communicate: the process has ended, or it is killed at its
\* deadline or output limit.  Its streams are closed only when nobody holds
\* their other end: a reader thread is in read until then.
Collect(u) ==
  /\ In(u, "collect")
  /\ ~process[u].holder
  /\ process' = [process EXCEPT ![u] = Quiet] /\ Proceeds(u, "give")
  /\ UNCHANGED <<counted, sandbox, cleaner, audit>>

GiveBack(u) ==
  /\ In(u, "give") /\ counted' = counted - 1 /\ Proceeds(u, "record")
  /\ UNCHANGED <<process, sandbox, cleaner, audit>>

\* The oldest entry goes when the log is full.
Audited(u) ==
  /\ In(u, "record") /\ Proceeds(u, "idle")
  /\ audit' = IF audit < MaxAudit THEN audit + 1 ELSE audit
  /\ UNCHANGED <<process, counted, sandbox, cleaner>>

ClearAudit ==
  /\ audit' = 0 /\ UNCHANGED <<command, process, counted, sandbox, cleaner>>

\* The command starts a process that outlives it, and that ends in its time.
Spreads(u) ==
  /\ process[u].state = "up" /\ process' = [process EXCEPT ![u].holder = ~@]
  /\ UNCHANGED <<command, counted, sandbox, cleaner, audit>>

CloseExecutor(u) ==
  /\ In(u, "idle") /\ u \notin cleaner /\ sandbox.named
  /\ sandbox' = [sandbox EXCEPT !.closing = TRUE] /\ cleaner' = cleaner \cup {u}
  /\ UNCHANGED <<command, process, counted, audit>>

\* Cleanup may fail, and leaves everything to the next close; for the second of
\* two closers that waited there is nothing left to clean up.
CloseCleans(u) ==
  /\ u \in cleaner /\ counted = 0
  /\ sandbox' \in {sandbox, [sandbox EXCEPT !.there = FALSE, !.named = FALSE]}
  /\ cleaner' = cleaner \ {u}
  /\ UNCHANGED <<command, process, counted, audit>>

ExecNext ==
  \/ ClearAudit
  \/ \E u \in User :
       \/ Execute(u) \/ LookAgain(u) \/ Admit(u) \/ Run(u) \/ Collect(u) \/ GiveBack(u)
       \/ Audited(u) \/ Spreads(u) \/ CloseExecutor(u) \/ CloseCleans(u)

ExecSpec == ExecInit /\ [][ExecNext]_execVars

-----------------------------------------------------------------------------
(* A command that was admitted keeps its directory until its slot is given   *)
(* back, whoever closes meanwhile; no more run than may; and none is counted *)
(* that does not run.                                                        *)
InFlightKeepsFolder ==
  /\ Occupied # {} => sandbox.there /\ sandbox.named
  /\ counted = Cardinality(Occupied) /\ counted <= MaxConcurrency
=============================================================================
