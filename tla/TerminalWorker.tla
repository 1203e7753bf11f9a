---------------------------- MODULE TerminalWorker ----------------------------
(***************************************************************************)
(* The process boundary of the terminal (TerminalWorker of                 *)
(* src/src/core/kernel/terminal_worker.py): every request runs in a worker *)
(* process of its own, inside a containment (its process group) and, where *)
(* the system has one, inside a platform sandbox that all requests share.  *)
(* Threads execute requests and close the worker at the same time.  The    *)
(* launch modelled is the isolated one.                                    *)
(*                                                                         *)
(* A step is one critical section of _execution_condition or of            *)
(* _os_sandbox_lock, or one call to the system.  close holds the condition *)
(* from the moment no request is running, so that its end is one step.     *)
(***************************************************************************)
EXTENDS Integers, FiniteSets

CONSTANTS
  TermCaller,    \* threads
  MaxLaunches,   \* bound on the requests that are reserved
  Zombies        \* a group that holds an unreaped process is not empty: POSIX

ASSUME TermAssumption ==
  /\ IsFiniteSet(TermCaller) /\ MaxLaunches \in Nat /\ Zombies \in BOOLEAN

VARIABLES
  request,    \* the request of each thread, and how far it is
  launches,   \* requests reserved so far; a request names its process tree
  tree,       \* the worker process of each request
  boxOf,      \* the platform sandbox it was started in
  owned,      \* _owned_containments
  box,        \* _os_sandbox: the request that made it, and its condition
  folder,     \* the temporary directory every worker is given
  closer,     \* threads in close
  ending,    \* _closing
  ended       \* _closed

termVars == <<request, launches, tree, boxOf, owned, box, folder, closer, ending, ended>>
lifeVars == <<folder, closer, ending, ended>>

Launch == 1 .. MaxLaunches

\* Where a request is: reserved, with the sandbox it was given (box), the state
\* of its clean-up (failed: the launch did not succeed; held: its containment
\* is its own to release), and whether its answer may be the worker's.
NoRequest == [pc |-> "idle", id |-> 0, box |-> 0, failed |-> FALSE, held |-> FALSE, good |-> FALSE]
NoBox == [by |-> 0, state |-> "none"]

Running == {c \in TermCaller : request[c].pc # "idle"}
Moves(c, r) == request' = [request EXCEPT ![c] = r]
At(c, pc) == request[c].pc = pc
Id(c) == request[c].id

TermInit ==
  /\ request = [c \in TermCaller |-> NoRequest] /\ launches = 0
  /\ tree = [t \in Launch |-> "none"] /\ boxOf = [t \in Launch |-> 0]
  /\ owned = {} /\ box = NoBox /\ folder = TRUE
  /\ closer = {} /\ ending = FALSE /\ ended = FALSE

-----------------------------------------------------------------------------
(* execute                                                                  *)

\* A request that was refused for what it asks never gets here.  Once close
\* has begun no request is reserved.
ReserveSlot(c) ==
  /\ At(c, "idle") /\ c \notin closer /\ ~ending /\ ~ended /\ launches < MaxLaunches
  /\ launches' = launches + 1
  /\ Moves(c, [NoRequest EXCEPT !.pc = "ensure", !.id = launches + 1])
  /\ UNCHANGED <<tree, boxOf, owned, box, lifeVars>>

\* An error before the worker was set up: the sandbox is cleaned up as well.
Fails(c) == Moves(c, [request[c] EXCEPT !.pc = "release", !.failed = TRUE])

\* _cleanup_os_sandbox_unlocked: the sandbox is gone, or it is closed and kept.
CloseBox ==
  \/ box' = NoBox
  \/ box.state = "up" /\ box' = [box EXCEPT !.state = "broken"]

\* _ensure_os_sandbox: one that is there is shared; one is made, and cleaned up
\* again when the source cannot be staged in it.
EnsureBox(c) ==
  /\ At(c, "ensure")
  /\ \/ /\ box.state = "up" /\ UNCHANGED box
        /\ Moves(c, [request[c] EXCEPT !.pc = "spawn", !.box = box.by])
     \/ /\ box.state = "none" /\ box' = [by |-> Id(c), state |-> "up"]
        /\ Moves(c, [request[c] EXCEPT !.pc = "spawn", !.box = Id(c)])
     \/ /\ box.state = "none" /\ box' \in {NoBox, [by |-> Id(c), state |-> "broken"]}
        /\ Fails(c)
     \/ box.state = "broken" /\ Fails(c) /\ UNCHANGED box
  /\ UNCHANGED <<launches, tree, boxOf, owned, lifeVars>>

\* A sandbox that was closed since does not start a process.
SpawnTree(c) ==
  /\ At(c, "spawn")
  /\ \/ Fails(c) /\ UNCHANGED <<tree, boxOf>>
     \/ /\ box = [by |-> request[c].box, state |-> "up"]
        /\ tree' = [tree EXCEPT ![Id(c)] = "up"]
        /\ boxOf' = [boxOf EXCEPT ![Id(c)] = request[c].box]
        /\ Moves(c, [request[c] EXCEPT !.pc = "attach"])
  /\ UNCHANGED <<launches, owned, box, lifeVars>>

\* ProcessTreeContainment.attach; without it the process is killed and awaited.
AttachTree(c) ==
  /\ At(c, "attach")
  /\ \/ /\ owned' = owned \cup {Id(c)} /\ UNCHANGED tree
        /\ Moves(c, [request[c] EXCEPT !.pc = "resume", !.held = TRUE])
     \/ /\ tree' = [tree EXCEPT ![Id(c)] = "gone"] /\ UNCHANGED owned
        /\ Fails(c)
  /\ UNCHANGED <<launches, boxOf, box, lifeVars>>

ResumeTree(c) ==
  /\ At(c, "resume")
  /\ Moves(c, [request[c] EXCEPT !.pc = "exchange"]) \/ Fails(c)
  /\ UNCHANGED <<launches, tree, boxOf, owned, box, lifeVars>>

\* The request is written and the answer collected.  A worker that is dead does
\* not take the request, one that has ended is reaped; past the deadline or the
\* output limit it is killed and awaited for a second.
Exchange(c) ==
  /\ At(c, "exchange")
  /\ \/ /\ tree[Id(c)] = "dead" /\ UNCHANGED tree
        /\ Moves(c, [request[c] EXCEPT !.pc = "release"])
     \/ /\ tree[Id(c)] = "dead" /\ tree' = [tree EXCEPT ![Id(c)] = "gone"]
        /\ \/ Moves(c, [request[c] EXCEPT !.pc = "free", !.good = TRUE])
           \/ Moves(c, [request[c] EXCEPT !.pc = "release"])
     \/ /\ \/ tree' = [tree EXCEPT ![Id(c)] = "gone"]
           \/ tree[Id(c)] = "up" /\ UNCHANGED tree
        /\ Moves(c, [request[c] EXCEPT !.pc = "release"])
  /\ UNCHANGED <<launches, boxOf, owned, box, lifeVars>>

\* What terminate and wait_empty make of a tree: it is killed, or outlives the
\* five seconds.  Mutant of Emptied: what was signalled is taken for gone.
EmptiedAssumed(state) == TRUE
Emptied(state) == state = "gone" \/ (state = "dead" /\ ~Zombies)
Struck(state) == {state} \cup (IF state = "up" THEN {"dead"} ELSE {})

\* _release_containment before the answer, and once more in the finally.
TryRelease(c, released, kept) ==
  /\ tree' \in {[tree EXCEPT ![Id(c)] = s] : s \in Struck(tree[Id(c)])}
  /\ IF Emptied(tree'[Id(c)])
     THEN /\ owned' = owned \ {Id(c)}
          /\ Moves(c, [released EXCEPT !.held = FALSE])
     ELSE /\ UNCHANGED owned /\ Moves(c, kept)

FreeTree(c) ==
  /\ At(c, "free")
  /\ TryRelease(c, [request[c] EXCEPT !.pc = "reap"],
                   [request[c] EXCEPT !.pc = "release", !.good = FALSE])
  /\ UNCHANGED <<launches, boxOf, box, lifeVars>>

ReleaseTree(c) ==
  /\ At(c, "release")
  /\ IF request[c].held
     THEN TryRelease(c, [request[c] EXCEPT !.pc = "clean"], [request[c] EXCEPT !.pc = "clean"])
     ELSE Moves(c, [request[c] EXCEPT !.pc = "clean"]) /\ UNCHANGED <<tree, owned>>
  /\ UNCHANGED <<launches, boxOf, box, lifeVars>>

\* A launch that failed and left no containment behind closes the sandbox, the
\* one that is there now.
MayCloseBox(c) == request[c].failed /\ ~request[c].held

Clean(c) ==
  /\ At(c, "clean")
  /\ IF MayCloseBox(c) THEN CloseBox ELSE UNCHANGED box
  /\ Moves(c, [request[c] EXCEPT !.pc = "reap"])
  /\ UNCHANGED <<launches, tree, boxOf, owned, lifeVars>>

\* The request is over.  Mutant: a launch that failed keeps its slot.
FinishedWell(c) == At(c, "reap") /\ ~request[c].failed
Finished(c) == At(c, "reap")

\* process.wait(timeout=0); the answer is recorded and the slot given back.
Reap(c) ==
  /\ Finished(c)
  /\ tree' = IF tree[Id(c)] = "dead" THEN [tree EXCEPT ![Id(c)] = "gone"] ELSE tree
  /\ Moves(c, NoRequest)
  /\ UNCHANGED <<launches, boxOf, owned, box, lifeVars>>

\* A worker process ends, of itself or late after its signal.
TreeEnds(t) ==
  /\ tree[t] = "up" /\ tree' = [tree EXCEPT ![t] = "dead"]
  /\ UNCHANGED <<request, launches, boxOf, owned, box, lifeVars>>

-----------------------------------------------------------------------------
(* close                                                                    *)

CloseTerminal(c) ==
  /\ At(c, "idle") /\ c \notin closer /\ ~ended
  /\ ending' = TRUE /\ closer' = closer \cup {c}
  /\ UNCHANGED <<request, launches, tree, boxOf, owned, box, folder, ended>>

CloseLeaves(c) ==
  /\ closer' = closer \ {c}
  /\ UNCHANGED <<request, launches, boxOf, ending>>

\* Another thread finished the close while this one waited.
CloseFound(c) ==
  /\ c \in closer /\ Running = {} /\ ended
  /\ CloseLeaves(c)
  /\ UNCHANGED <<tree, owned, box, folder, ended>>

\* What is owned is released, then the sandbox, then the directory; the first
\* that fails raises, and what it left is tried again by the next close.
CloseWork(c) ==
  /\ c \in closer /\ Running = {} /\ ~ended
  /\ \E late \in SUBSET {t \in owned : tree[t] = "up"} :
       tree' = [t \in Launch |-> IF t \in owned \ late /\ tree[t] = "up" THEN "dead" ELSE tree[t]]
  /\ owned' = {t \in owned : ~Emptied(tree'[t])}
  /\ \/ owned' # {} /\ UNCHANGED <<box, folder, ended>>
     \/ owned' = {} /\ CloseBox /\ UNCHANGED <<folder, ended>>
     \/ owned' = {} /\ box' = NoBox /\ folder' = FALSE /\ ended' = TRUE
  /\ CloseLeaves(c)

-----------------------------------------------------------------------------
RequestStep(c) ==
  \/ EnsureBox(c) \/ SpawnTree(c) \/ AttachTree(c) \/ ResumeTree(c)
  \/ Exchange(c) \/ FreeTree(c) \/ ReleaseTree(c) \/ Clean(c) \/ Reap(c)

CloseStep(c) == CloseFound(c) \/ CloseWork(c)

TermNext ==
  \/ \E c \in TermCaller : ReserveSlot(c) \/ CloseTerminal(c) \/ RequestStep(c) \/ CloseStep(c)
  \/ \E t \in Launch : TreeEnds(t)

TermSpec == TermInit /\ [][TermNext]_termVars

\* The threads are scheduled, and communicate has a deadline: no step waits for
\* the worker process.
TermFairness ==
  \A c \in TermCaller : WF_termVars(RequestStep(c)) /\ WF_termVars(CloseStep(c))

FairTermSpec == TermSpec /\ TermFairness

-----------------------------------------------------------------------------
(* No worker process is forgotten: while one may be alive a request is at   *)
(* work on it or close will find it, and a worker that reports itself       *)
(* closed has left no process, no sandbox and no directory behind.          *)
NothingLeaks ==
  /\ \A t \in Launch : tree[t] = "up" => t \in owned \/ \E c \in TermCaller : Id(c) = t
  /\ ended => owned = {} /\ box = NoBox /\ ~folder /\ Running = {}
  /\ \A t \in Launch : tree[t] = "up" => folder

(* close comes back, with or without success, however many requests were    *)
(* in progress and however many threads close at once.                      *)
CloseReturns == \A c \in TermCaller : c \in closer ~> c \notin closer
=============================================================================
