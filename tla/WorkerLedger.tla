---------------------------- MODULE WorkerLedger ----------------------------
(***************************************************************************)
(* What a supervisor of child processes promises about one table of tasks, *)
(* without threads, locks, intents, pins or events: a task is started with *)
(* a process of its own, gets one verdict, and that only when its process  *)
(* is gone, keeps the verdict, and is forgotten only after it.             *)
(***************************************************************************)
CONSTANTS Task, Verdict

VARIABLES
  entry,  \* "new", "open", a verdict, or "forgotten"
  up      \* tasks whose process is alive

LedgerInit ==
  /\ entry = [t \in Task |-> "new"]
  /\ up = {}

Start(t) ==
  /\ entry[t] = "new"
  /\ entry' = [entry EXCEPT ![t] = "open"]
  /\ up' = up \cup {t}

Stop(t) ==
  /\ t \in up
  /\ up' = up \ {t}
  /\ UNCHANGED entry

Close(t, v) ==
  /\ entry[t] = "open"
  /\ t \notin up
  /\ entry' = [entry EXCEPT ![t] = v]
  /\ UNCHANGED up

Forget(S) ==
  /\ S # {}
  /\ \A t \in S : entry[t] \in Verdict
  /\ entry' = [t \in Task |-> IF t \in S THEN "forgotten" ELSE entry[t]]
  /\ UNCHANGED up

LedgerNext ==
  \/ \E t \in Task : Start(t) \/ Stop(t)
  \/ \E t \in Task, v \in Verdict : Close(t, v)
  \/ \E S \in SUBSET Task : Forget(S)

LedgerSpec == LedgerInit /\ [][LedgerNext]_<<entry, up>>

=============================================================================
