---------------------------- MODULE RunLifecycle ----------------------------
(***************************************************************************)
(* The coordinator of runs over the repository: it starts runs, takes      *)
(* checkpoints, reacts to context watermarks, and recovers the active run  *)
(* when the service starts (src/src/app/run_lifecycle.py, and lifespan in  *)
(* src/src/main_fastapi.py). It loads and saves in separate operations, so *)
(* other callers come in between; the process may stop at any point.       *)
(***************************************************************************)
EXTENDS RunStateRepository

CONSTANT MaxLevel  \* the highest context level (RED)
ASSUME MaxLevelAssumption == MaxLevel \in Nat

VARIABLES
  phase,   \* the service is starting, recovering, serving or down
  issued,  \* requests made so far
  mine     \* those of the present process

vars == <<disk, lock, call, phase, issued, mine>>

LifecycleInit ==
  /\ RepositoryInit
  /\ phase = "starting"
  /\ issued = {}
  /\ mine = {}

Ask(c, pc, q) ==
  /\ call' = [call EXCEPT ![c] = [pc |-> pc, req |-> {q}]]
  /\ issued' = issued \cup {q.tag}
  /\ mine' = mine \cup {q.tag}
  /\ UNCHANGED <<disk, lock>>

\* RunState.evolve: the next revision, with a time and events of its own.
Evolved(a, t, body) == [run |-> a.run, rev |-> a.rev + 1, tag |-> t, body |-> body]

StartRun(c, r, t) ==
  /\ phase = "serving"
  /\ call[c].pc = "idle"
  /\ Ask(c, "save", [run |-> r, rev |-> 1, tag |-> t,
                     body |-> [level |-> 0, running |-> {t}]])
  /\ UNCHANGED phase

Checkpoint(c, t) ==
  /\ phase = "serving"
  /\ call[c].pc = "idle"
  /\ lock = {} /\ Loads
  /\ \E a \in active : Ask(c, "save", Evolved(a, t, a.body))
  /\ UNCHANGED phase

\* handle_context_event builds the state from what it loads...
ContextEvent(c, t, l) ==
  /\ phase = "serving"
  /\ call[c].pc = "idle"
  /\ lock = {} /\ Loads
  /\ \E a \in active :
       /\ l > a.body.level
       /\ Ask(c, "reload", Evolved(a, t, [a.body EXCEPT !.level = l]))
  /\ UNCHANGED phase

\* ...and hands it to checkpoint, which loads again.
Reload(c) ==
  /\ call[c].pc = "reload"
  /\ lock = {} /\ Loads
  /\ \E q \in call[c].req :
       LET behind == \E a \in active : q.rev <= a.rev
       IN call' = [call EXCEPT ![c] =
            [pc |-> "save",
             req |-> {IF behind THEN [q EXCEPT !.rev = q.rev + 1] ELSE q}]]
  /\ UNCHANGED <<disk, lock, phase, issued, mine>>

\* Mutant of Recovered: the status is taken over as it was saved.
RecoveredAsSaved(a, t) == Evolved(a, t, a.body)

\* The workers of a run that was running are gone: it is UNKNOWN now.
Recovered(a, t) == Evolved(a, t, [a.body EXCEPT !.running = {}])

Recover(c, t) ==
  /\ phase = "starting"
  /\ lock = {} /\ Loads
  /\ \E a \in active : Ask(c, "save", Recovered(a, t))
  /\ phase' = "recovering"

NothingToRecover ==
  /\ phase = "starting"
  /\ active = {}
  /\ phase' = "serving"
  /\ UNCHANGED <<disk, lock, call, issued, mine>>

\* recover_active returns, or raises and the startup fails.
StartupEnds(c) ==
  /\ phase = "recovering"
  /\ call[c].pc \in {"saved", "refused", "conflict", "failed"}
  /\ phase' = IF call[c].pc = "saved" THEN "serving" ELSE "down"
  /\ call' = [call EXCEPT ![c] = Idle]
  /\ mine' = IF call[c].pc = "saved" THEN mine ELSE {}
  /\ UNCHANGED <<disk, lock, issued>>

\* A caller takes its answer; it may repeat a request that failed.
Return(c) ==
  /\ phase = "serving"
  /\ call[c].pc \in {"saved", "archived", "refused", "conflict", "failed"}
  /\ call' = [call EXCEPT ![c] = Idle]
  /\ UNCHANGED <<disk, lock, phase, issued, mine>>

Retry(c) ==
  /\ phase = "serving"
  /\ call[c].pc = "failed"
  /\ call[c].req # {}
  /\ call' = [call EXCEPT ![c].pc = "save"]
  /\ UNCHANGED <<disk, lock, phase, issued, mine>>

Archive(c) ==
  /\ phase = "serving"
  /\ ArchiveBegins(c)
  /\ UNCHANGED <<phase, issued, mine>>

Work == RepositoryStep /\ UNCHANGED <<phase, issued, mine>>

Stop ==
  /\ phase # "down"
  /\ Interrupted
  /\ phase' = "down"
  /\ mine' = {}
  /\ UNCHANGED issued

Boot ==
  /\ phase = "down"
  /\ phase' = "starting"
  /\ UNCHANGED <<disk, lock, call, issued, mine>>

Next ==
  \/ Work
  \/ \E c \in Caller, t \in Tag \ issued :
       \/ \E r \in Run : StartRun(c, r, t)
       \/ \E l \in 1 .. MaxLevel : ContextEvent(c, t, l)
       \/ Checkpoint(c, t)
       \/ Recover(c, t)
  \/ \E c \in Caller :
       Reload(c) \/ StartupEnds(c) \/ Return(c) \/ Retry(c) \/ Archive(c)
  \/ NothingToRecover \/ Stop \/ Boot

Spec == LifecycleInit /\ [][Next]_vars

-----------------------------------------------------------------------------
AtMostOne(S) == \A x, y \in S : x = y

\* The type invariant: one manifest and one operation at a time.
RunStateTypeOK ==
  /\ active \subseteq Snapshot /\ AtMostOne(active)
  /\ published \subseteq Snapshot
  /\ archived \subseteq Snapshot
  /\ torn \subseteq Run \X (Nat \ {0})
  /\ staged \subseteq Run \X (Nat \ {0})
  /\ lock \subseteq Operation /\ AtMostOne(lock)
  /\ call \in [Caller -> Call]
  /\ phase \in {"starting", "recovering", "serving", "down"}
  /\ issued \subseteq Tag
  /\ mine \subseteq issued

\* A save that was answered is in the log of its run, and no request is there
\* twice, however often it failed half-way and was repeated (the idempotent
\* retry of _save_locked).
AppliedOnce ==
  /\ \A s \in active \cup archived :
       \A i, j \in DOMAIN s.log : s.log[i] = s.log[j] => i = j
  /\ \A c \in Caller : call[c].pc = "saved" =>
       \A q \in call[c].req :
         \E s \in active \cup archived :
           s.run = q.run /\ \E i \in DOMAIN s.log : s.log[i] = q.tag

\* While the service serves, a run that is marked as running was set running by
\* this process: recovery marks what an earlier process left (recover_active).
RunningIsMine ==
  phase = "serving" => \A a \in active : a.body.running \subseteq mine

\* An interrupted run can be recovered at the next start: what the interrupted
\* save left behind does not get into its way (recover_active, _publish_revision).
RestartRecovers ==
  phase = "recovering" => \A c \in Caller : call[c].pc # "conflict"

=============================================================================
