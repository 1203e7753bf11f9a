---------------------- MODULE SubprocessPluginRuntime ----------------------
(***************************************************************************)
(* One worker generation of a plugin (SubprocessPluginRuntime of           *)
(* src/src/adapters/subprocess_plugin_runtime.py), its broker session      *)
(* (PluginBrokerSession of core/kernel/plugin_broker.py) and the child     *)
(* that serves it (src/src/runtime/plugin_worker.py).  Three parent        *)
(* threads share the transport: the operator, who holds _operation_lock    *)
(* in start, invoke or close; the reader of the child's standard output;   *)
(* and the guard, the containment thread a transport fault schedules.      *)
(*                                                                         *)
(* A step is one critical section of _transport_fault_lock, of the         *)
(* session's lock or of the output queue, or one stretch of a thread that  *)
(* touches nothing shared.  The plugin's own code may print to the pipe    *)
(* the protocol uses, hang, die, and leave processes behind.               *)
(***************************************************************************)
EXTENDS Integers, Sequences

CONSTANTS
  MaxOperations, \* bound on the calls of invoke that reach the worker and of close
  MaxCalls,      \* MAX_BROKER_CALLS
  QueueLimit,    \* _OUTPUT_QUEUE_LIMIT
  MaxNoise       \* bound on the lines the plugin prints itself

ASSUME RuntimeAssumption ==
  /\ MaxOperations \in Nat /\ MaxCalls \in Nat /\ MaxNoise \in Nat
  /\ QueueLimit \in Nat \ {0}

VARIABLES
  operator,   \* the thread in start, invoke or close
  reader,     \* _read_stdout: what the reader thread does next
  guard,      \* the containment thread
  killer,     \* who holds _termination_lock, and how far _terminate_process is
  life,       \* the worker process itself
  brood,      \* processes the worker has left in its group
  worker,     \* PluginWorkerServer: what the child does next
  stdin, stdout,   \* the pipes
  queue,      \* _output_queue
  flags,      \* the transport's flags
  session,    \* the broker session of the request in progress
  outcome,    \* what each call of invoke came to
  granted,    \* events of each request the plugin was told are published
  recorded,   \* events of each request in the bus's history
  count       \* closes and printed lines so far

plugVars == <<operator, reader, guard, killer, life, brood, worker, stdin, stdout, queue, flags,
              session, outcome, granted, recorded, count>>

childVars == <<life, brood, worker, stdin, stdout>>
tallyVars == <<outcome, granted, recorded>>

Request == 1 .. MaxOperations
Thread == {"op", "reader", "guard"}
Fault == {"crashed", "handshake", "limit"}
Error == Fault \cup {"timeout", "protocol", "start", "unconfirmed"}
LifecycleAction == {"work", "shutdown"}

\* A line on the child's standard output.  "garbage" does not decode, "long"
\* is over MAX_PLUGIN_WORKER_LINE_BYTES.
Hello == [kind |-> "hello"]
CallOf(r) == [kind |-> "call", req |-> r]
ResultOf(r, ok) == [kind |-> "result", req |-> r, ok |-> ok]

AtRest == [pc |-> "idle", req |-> 0, act |-> "work"]
Idle == [pc |-> "idle", act |-> "work", req |-> 0, then |-> "none", code |-> "none"]
NoSession == [state |-> "none", calls |-> 0, outbox |-> 0]
NoLine == [kind |-> "none", req |-> 0]
Open == session.state = "open"

PluginInit ==
  /\ operator = Idle /\ reader = [pc |-> "off", last |-> "none"] /\ guard = "none"
  /\ killer = [who |-> "nobody", stage |-> "none"]
  /\ life = "none" /\ brood = FALSE
  /\ worker = [AtRest EXCEPT !.pc = "starting"]
  /\ stdin = NoLine /\ stdout = <<>> /\ queue = <<>>
  /\ flags = [started |-> FALSE, usable |-> FALSE, handle |-> FALSE, active |-> FALSE,
              stopping |-> FALSE, overflow |-> FALSE, hello |-> FALSE, expected |-> FALSE,
              deferred |-> FALSE, late |-> FALSE, confirmed |-> FALSE, closedIn |-> FALSE,
              closedOut |-> FALSE, fault |-> "none"]
  /\ session = NoSession
  /\ outcome = [r \in Request |-> "none"]
  /\ granted = [r \in Request |-> 0]
  /\ recorded = [r \in Request |-> 0]
  /\ count = [requests |-> 0, closes |-> 0, noise |-> 0]

-----------------------------------------------------------------------------
(* Ways for the operator to go on.                                          *)

\* _raise_transport_fault, once the fault is known: terminate, then raise it.
RaiseFault == operator' = [operator EXCEPT !.pc = "term", !.then = "raise", !.code = flags.fault]

\* _fatal: the transport's fault, read before the termination, comes first.
\* The caller's flags are f.
Fatal(code, f) ==
  /\ operator' = [operator EXCEPT !.pc = "term", !.then = IF f.fault = "none" THEN "fatal" ELSE "raise",
                      !.code = IF f.fault = "none" THEN code ELSE f.fault]
  /\ flags' = [f EXCEPT !.usable = FALSE]

\* An exception that terminates nothing.
Raise(code) == operator' = [operator EXCEPT !.pc = "settle", !.code = code]

\* The operation lock is free: the operation is active from here on.
EnterOp(pc, act) ==
  /\ operator.pc = "idle"
  /\ flags' = [flags EXCEPT !.active = TRUE, !.late = FALSE]
  /\ operator' = [Idle EXCEPT !.pc = pc, !.act = act]

Elapses == {"hello?", "hello", "open", "write", "check", "get", "handle", "reply", "finish", "commit"}

\* The monotonic clock passes the deadline of the operation.
DeadlinePasses ==
  /\ operator.pc \in Elapses /\ ~flags.late
  /\ flags' = [flags EXCEPT !.late = TRUE]
  /\ UNCHANGED <<operator, reader, guard, killer, childVars, queue, session, tallyVars, count>>

-----------------------------------------------------------------------------
(* start                                                                    *)

StartRuntime ==
  /\ operator.pc = "idle" /\ ~flags.started
  /\ flags' = [flags EXCEPT !.active = TRUE, !.late = FALSE, !.started = TRUE]
  /\ operator' = [Idle EXCEPT !.pc = "spawn"]
  /\ UNCHANGED <<reader, guard, killer, childVars, queue, session, tallyVars, count>>

\* The plugin root or the worker path is refused, the broker cannot bind the
\* root, or no process could be spawned: nothing to terminate.
SpawnFails ==
  /\ operator.pc = "spawn"
  /\ Raise("start")
  /\ UNCHANGED <<reader, guard, killer, childVars, queue, flags, session, tallyVars, count>>

\* The child is up.  Its containment cannot be attached, its readers cannot be
\* started, or the wait for its hello begins.
Spawn ==
  /\ operator.pc = "spawn"
  /\ life' = "alive"
  /\ LET up == [flags EXCEPT !.handle = TRUE]
     IN  \/ /\ flags' = up /\ UNCHANGED reader
            /\ operator' = [operator EXCEPT !.pc = "term", !.then = "raise", !.code = "start"]
         \/ /\ Fatal("start", up) /\ UNCHANGED reader
         \/ /\ flags' = up /\ reader' = [reader EXCEPT !.pc = "read"]
            /\ operator' = [operator EXCEPT !.pc = "hello?"]
  /\ UNCHANGED <<guard, killer, brood, worker, stdin, stdout, queue, session, tallyVars, count>>

\* No fault was seen during the handshake.
Undisturbed == flags.fault = "none"

\* The handshake is decided under _transport_fault_lock.
Shaken ==
  /\ operator.pc = "shaken"
  /\ flags' = [flags EXCEPT !.hello = TRUE, !.usable = @ \/ Undisturbed]
  /\ IF Undisturbed THEN operator' = [operator EXCEPT !.pc = "leave"] ELSE RaiseFault
  /\ UNCHANGED <<reader, guard, killer, childVars, queue, session, tallyVars, count>>

-----------------------------------------------------------------------------
(* _wait_for_message                                                        *)

Waits == {"hello?", "check"}
InGet == [w \in Waits |-> IF w = "check" THEN "get" ELSE "hello"]

\* What is looked at before the thread waits on the queue.
CheckTransport ==
  /\ operator.pc \in Waits
  /\ IF flags.fault # "none" THEN RaiseFault /\ UNCHANGED flags
     ELSE IF flags.overflow THEN Fatal("limit", flags)
     ELSE IF flags.late THEN Fatal("timeout", flags)
     ELSE operator' = [operator EXCEPT !.pc = InGet[operator.pc]] /\ UNCHANGED flags
  /\ UNCHANGED <<reader, guard, killer, childVars, queue, session, tallyVars, count>>

GetTimesOut ==
  /\ operator.pc \in {"hello", "get"} /\ queue = <<>> /\ flags.late
  /\ Fatal("timeout", flags)
  /\ UNCHANGED <<reader, guard, killer, childVars, queue, session, tallyVars, count>>

\* _validate_result and the correlation of a broker request.
ForThis(m) == m.req = operator.req

\* A line was taken: the transport's fault comes first, then what it says.
Understand(m) ==
  IF flags.fault # "none" THEN RaiseFault /\ UNCHANGED flags
  ELSE IF m.kind = "long" THEN Fatal("limit", flags)
  ELSE IF m.kind = "eof" THEN Fatal(IF operator.pc = "hello" THEN "handshake" ELSE "crashed", flags)
  ELSE IF operator.pc = "hello"
       THEN IF m.kind = "hello" THEN operator' = [operator EXCEPT !.pc = "shaken"] /\ UNCHANGED flags
            ELSE Fatal("handshake", flags)
  ELSE IF m.kind \in {"call", "result"} /\ ForThis(m)
       THEN /\ operator' = [operator EXCEPT !.pc = IF m.kind = "call" THEN "handle"
                                       ELSE IF m.ok THEN "finish" ELSE "refused"]
            /\ UNCHANGED flags
  ELSE Fatal("protocol", flags)

Get ==
  /\ operator.pc \in {"hello", "get"} /\ queue # <<>>
  /\ queue' = Tail(queue)
  /\ Understand(Head(queue))
  /\ UNCHANGED <<reader, guard, killer, childVars, session, tallyVars, count>>

-----------------------------------------------------------------------------
(* invoke                                                                   *)

Invoke(act) ==
  /\ EnterOp("begin", act) /\ count.requests + count.closes < MaxOperations
  /\ UNCHANGED <<reader, guard, killer, childVars, queue, session, tallyVars, count>>

BeginInvoke ==
  /\ operator.pc = "begin"
  /\ IF flags.fault # "none" THEN RaiseFault /\ UNCHANGED <<flags, count>>
     ELSE IF flags.overflow THEN Fatal("limit", flags) /\ UNCHANGED count
     ELSE IF flags.handle /\ life # "alive" THEN Fatal("crashed", flags) /\ UNCHANGED count
     ELSE IF ~flags.started \/ ~flags.usable
          THEN Raise("crashed") /\ UNCHANGED <<flags, count>>
     ELSE /\ operator' = [operator EXCEPT !.pc = "open", !.req = count.requests + 1]
          /\ count' = [count EXCEPT !.requests = @ + 1]
          /\ UNCHANGED flags
  /\ UNCHANGED <<reader, guard, killer, childVars, queue, session, tallyVars>>

\* The end of the output is put aside.  Mutant: it is a crash like any other.
ExpectsNothing(f) == f
ExpectsEnd(f) == [f EXCEPT !.expected = TRUE, !.deferred = FALSE]

\* begin_lifecycle, which may find a newer generation; and from here on the
\* end of the output of a worker that was told to shut down is expected.
OpenSession ==
  /\ operator.pc = "open"
  /\ \/ /\ Fatal("protocol", flags) /\ UNCHANGED session
     \/ /\ session' = [NoSession EXCEPT !.state = "open"]
        /\ flags' = IF operator.act = "shutdown" THEN ExpectsEnd(flags) ELSE flags
        /\ operator' = [operator EXCEPT !.pc = "write"]
  /\ UNCHANGED <<reader, guard, killer, childVars, queue, tallyVars, count>>

\* _write: the process is known, runs, and its standard input is open.
Writable == flags.handle /\ life = "alive" /\ ~flags.closedIn

Send(line) ==
  IF Writable
  THEN /\ stdin' = line /\ operator' = [operator EXCEPT !.pc = "check"] /\ UNCHANGED flags
  ELSE Fatal("crashed", flags) /\ UNCHANGED stdin

WriteRequest ==
  /\ operator.pc = "write"
  /\ Send([kind |-> operator.act, req |-> operator.req])
  /\ UNCHANGED <<reader, guard, killer, life, brood, worker, stdout, queue, session, tallyVars, count>>

\* PluginBrokerSession.handle: an event is staged, or the call is denied or
\* answered without an event.  Over its budget a session denies everything.
HandleCall ==
  /\ operator.pc = "handle"
  /\ \E staged \in IF session.calls < MaxCalls THEN {0, 1} ELSE {0} :
       /\ session' = [session EXCEPT !.outbox = @ + staged,
                        !.calls = IF @ < MaxCalls THEN @ + 1 ELSE @]
       /\ granted' = [granted EXCEPT ![operator.req] = @ + staged]
  /\ operator' = [operator EXCEPT !.pc = "reply"]
  /\ UNCHANGED <<reader, guard, killer, childVars, queue, flags, outcome, recorded, count>>

\* A handler that came back after the deadline is not answered.
ReplyCall ==
  /\ operator.pc = "reply"
  /\ IF flags.late THEN Fatal("timeout", flags) /\ UNCHANGED stdin
     ELSE Send([kind |-> "reply", req |-> operator.req])
  /\ UNCHANGED <<reader, guard, killer, life, brood, worker, stdout, queue, session, tallyVars, count>>

\* The worker reports success: after a shutdown it must be seen to end before
\* its events count.
Finish ==
  /\ operator.pc = "finish"
  /\ LET done == [flags EXCEPT !.deferred = IF operator.act = "shutdown" THEN FALSE ELSE @]
     IN  IF flags.late THEN Fatal("timeout", done)
         ELSE /\ flags' = done
              /\ operator' = IF operator.act = "shutdown"
                       THEN [operator EXCEPT !.pc = "term", !.then = "commit"]
                       ELSE [operator EXCEPT !.pc = "commit"]
  /\ UNCHANGED <<reader, guard, killer, childVars, queue, session, tallyVars, count>>

\* _complete_shutdown_response: an end of output that was put aside is a fault
\* after all when the worker did not agree to shut down.
Refused ==
  /\ operator.pc = "refused"
  /\ flags' = IF operator.act # "shutdown" THEN flags
              ELSE LET told == [flags EXCEPT !.expected = FALSE, !.deferred = FALSE]
                   IN  IF flags.deferred /\ flags.fault = "none"
                       THEN [told EXCEPT !.fault = "crashed", !.usable = FALSE] ELSE told
  /\ Raise("refused")
  /\ UNCHANGED <<reader, guard, killer, childVars, queue, session, tallyVars, count>>

\* commit_events and record_many: all of the outbox, before the deadline.
Commit ==
  /\ operator.pc = "commit"
  /\ IF flags.late THEN Fatal("timeout", flags) /\ UNCHANGED <<session, outcome, recorded>>
     ELSE /\ recorded' = [recorded EXCEPT ![operator.req] = session.outbox]
          /\ session' = [session EXCEPT !.state = "committed", !.outbox = 0]
          /\ outcome' = [outcome EXCEPT ![operator.req] = "ok"]
          /\ operator' = [operator EXCEPT !.pc = "leave"] /\ UNCHANGED flags
  /\ UNCHANGED <<reader, guard, killer, childVars, queue, granted, count>>

\* What an operation that failed leaves behind it: an aborted session.
SettleFailure ==
  /\ operator.pc = "settle"
  /\ outcome' = IF operator.req = 0 THEN outcome ELSE [outcome EXCEPT ![operator.req] = operator.code]
  /\ session' = IF Open THEN [session EXCEPT !.state = "aborted", !.outbox = 0] ELSE session
  /\ operator' = [operator EXCEPT !.pc = "leave"]
  /\ UNCHANGED <<reader, guard, killer, childVars, queue, flags, granted, recorded, count>>

-----------------------------------------------------------------------------
(* close, and the end of every operation                                    *)

CloseRuntime ==
  /\ EnterOp("close", "work") /\ count.requests + count.closes < MaxOperations
  /\ count' = [count EXCEPT !.closes = @ + 1]
  /\ UNCHANGED <<reader, guard, killer, childVars, queue, session, tallyVars>>

CloseNow ==
  /\ operator.pc = "close"
  /\ flags' = [flags EXCEPT !.usable = FALSE]
  /\ operator' = IF flags.handle THEN [operator EXCEPT !.pc = "term", !.then = "leave"]
           ELSE [operator EXCEPT !.pc = "leave"]
  /\ UNCHANGED <<reader, guard, killer, childVars, queue, session, tallyVars, count>>

\* _operation_scope ends in two steps: the flag first, then the fault.
LeaveOp ==
  /\ operator.pc = "leave"
  /\ flags' = [flags EXCEPT !.active = FALSE, !.late = FALSE]
  /\ operator' = [operator EXCEPT !.pc = "left"]
  /\ session' = NoSession
  /\ UNCHANGED <<reader, guard, killer, childVars, queue, tallyVars, count>>

\* _schedule_transport_containment has nothing to do.
Scheduled == flags.stopping \/ guard = "run"

LeaveContained ==
  /\ operator.pc = "left"
  /\ IF flags.fault = "none" \/ Scheduled THEN operator' = Idle /\ UNCHANGED guard
     ELSE \/ /\ guard' = "run" /\ operator' = Idle
          \/ \* The thread cannot be started.
             /\ operator' = [operator EXCEPT !.pc = "term", !.then = "done"] /\ UNCHANGED guard
  /\ UNCHANGED <<reader, killer, childVars, queue, flags, session, tallyVars, count>>

-----------------------------------------------------------------------------
(* The reader                                                               *)

\* _observe_transport_fault on flags f: once the termination has begun nothing
\* is a fault any more, and the first fault stays.
Observed(code, f) ==
  IF f.stopping \/ f.fault # "none" THEN f
  ELSE [f EXCEPT !.usable = FALSE,
                 !.fault = IF code = "crashed" /\ ~f.hello THEN "handshake" ELSE code]

\* Whether the reader has to see to the containment itself.  Mutant: the next
\* operation will.
ContainsNothing(f) == FALSE
MustContain(f) == ~f.stopping /\ f.fault = "none" /\ ~f.active

\* The reader observes a fault; its last event is then still to be queued.
ObserveFault(code, last) ==
  /\ flags' = Observed(code, flags)
  /\ reader' = [pc |-> IF MustContain(flags) THEN "schedule" ELSE "put", last |-> last]

Room == Len(queue) < QueueLimit

ReadLine ==
  /\ reader.pc = "read" /\ stdout # <<>> /\ ~flags.closedOut
  /\ stdout' = Tail(stdout)
  /\ LET m == Head(stdout) IN
       IF m.kind = "long" THEN ObserveFault("limit", "long") /\ UNCHANGED queue
       ELSE IF Room
       THEN /\ queue' = Append(queue, m) /\ UNCHANGED reader
            /\ flags' = [flags EXCEPT !.hello = @ \/ m.kind = "hello"]
       ELSE ObserveFault("limit", "none") /\ UNCHANGED queue
  /\ UNCHANGED <<operator, guard, killer, life, brood, worker, stdin, session, tallyVars, count>>

\* The output ends when every process that holds it has, or when it was closed
\* on this side.  The end that follows a shutdown is put aside.
ReadEnd ==
  /\ reader.pc = "read"
  /\ flags.closedOut \/ (stdout = <<>> /\ life = "exited" /\ ~brood)
  /\ IF flags.expected /\ ~flags.stopping
     THEN /\ flags' = [flags EXCEPT !.deferred = TRUE]
          /\ reader' = [pc |-> "put", last |-> "eof"]
     ELSE ObserveFault("crashed", "eof")
  /\ UNCHANGED <<operator, guard, killer, childVars, queue, session, tallyVars, count>>

ReaderSchedules ==
  /\ reader.pc = "schedule"
  /\ IF Scheduled THEN reader' = [reader EXCEPT !.pc = "put"] /\ UNCHANGED guard
     ELSE \/ /\ guard' = "run" /\ reader' = [reader EXCEPT !.pc = "put"]
          \/ \* The thread cannot be started.
             /\ reader' = [reader EXCEPT !.pc = "term"] /\ UNCHANGED guard
  /\ UNCHANGED <<operator, killer, childVars, queue, flags, session, tallyVars, count>>

\* The reader's last act.  An end of output that does not fit the queue is an
\* overflow, which is observed like every other.
ReaderPuts ==
  /\ reader.pc = "put"
  /\ \/ /\ reader.last = "eof" /\ ~Room
        /\ ObserveFault("limit", "none") /\ UNCHANGED queue
     \/ /\ reader.last # "eof" \/ Room
        /\ queue' = IF reader.last # "none" /\ Room
                    THEN Append(queue, [kind |-> reader.last]) ELSE queue
        /\ flags' = [flags EXCEPT !.overflow = @ \/ reader.last # "eof"]
        /\ reader' = [pc |-> "done", last |-> "none"]
  /\ UNCHANGED <<operator, guard, killer, childVars, session, tallyVars, count>>

-----------------------------------------------------------------------------
(* _terminate_process, under _termination_lock                              *)

Wants(w) == CASE w = "op" -> operator.pc = "term"
              [] w = "reader" -> reader.pc = "term"
              [] w = "guard" -> guard = "run"

\* The termination is over and was confirmed or not; with the process went its
\* handle, or not.
Continue(w, sure, handle) ==
  /\ killer' = [who |-> "nobody", stage |-> "none"]
  /\ guard' = IF w = "guard" THEN "none" ELSE guard
  /\ reader' = IF w = "reader" THEN [reader EXCEPT !.pc = "put"] ELSE reader
  /\ operator' = IF w # "op" THEN operator
           ELSE CASE operator.then = "fatal" -> [operator EXCEPT !.pc = "settle",
                       !.code = IF handle /\ ~sure THEN "unconfirmed" ELSE @]
                  [] operator.then = "raise" -> [operator EXCEPT !.pc = "settle"]
                  [] operator.then = "commit" /\ sure -> [operator EXCEPT !.pc = "commit"]
                  [] operator.then = "commit" /\ ~sure ->
                       [operator EXCEPT !.pc = "settle", !.code = "unconfirmed"]
                  [] operator.then = "leave" -> [operator EXCEPT !.pc = "leave"]
                  [] operator.then = "done" -> Idle

\* A process that is gone already is not asked for again.
TermEnter(w) ==
  /\ killer.who = "nobody" /\ Wants(w)
  /\ flags' = [flags EXCEPT !.stopping = TRUE, !.expected = FALSE, !.deferred = FALSE,
                            !.usable = FALSE, !.closedIn = @ \/ flags.handle]
  /\ IF flags.handle
     THEN killer' = [who |-> w, stage |-> "signal"] /\ UNCHANGED <<operator, reader, guard>>
     ELSE Continue(w, TRUE, FALSE)
  /\ UNCHANGED <<childVars, queue, session, tallyVars, count>>

\* The worker process is gone, and with it what it had not read; what it was
\* doing is kept for a worker that had agreed to shut down.
Exits ==
  /\ life' = "exited" /\ stdin' = NoLine
  /\ worker' = IF worker.pc = "exiting" THEN worker ELSE AtRest

\* Grace, terminate, grace, kill, grace: the process ends or outlives them all.
TermSignal ==
  /\ killer.stage = "signal"
  /\ Exits \/ UNCHANGED <<life, worker, stdin>>
  /\ killer' = [killer EXCEPT !.stage = "confirm"]
  /\ UNCHANGED <<operator, reader, guard, brood, stdout, queue, flags, session, tallyVars, count>>

\* poll and wait_empty: with the process its whole group must be gone, of which
\* others says whether any is left.  Mutant: the process is enough.
ProcessGone(others) == life = "exited"
GroupGone(others) == life = "exited" /\ ~others

TermConfirm ==
  /\ killer.stage = "confirm"
  /\ IF life = "exited"
     THEN brood' \in {brood, FALSE}
     ELSE UNCHANGED brood
  /\ IF GroupGone(brood')
     THEN /\ killer' = [killer EXCEPT !.stage = "join"]
          /\ flags' = [flags EXCEPT !.closedOut = TRUE]
          /\ stdout' = <<>>
          /\ UNCHANGED <<operator, reader, guard>>
     ELSE /\ flags' = [flags EXCEPT !.confirmed = FALSE]
          /\ Continue(killer.who, FALSE, flags.handle)
          /\ UNCHANGED stdout
  /\ UNCHANGED <<life, worker, stdin, queue, session, tallyVars, count>>

\* _join_readers waits 0.2 s; a reader that terminates the process itself has
\* not ended.  Only then is the containment closed and the handle given up.
TermJoin ==
  /\ killer.stage = "join"
  /\ \E sure \in IF reader.pc \in {"off", "done"} THEN BOOLEAN ELSE {TRUE} :
       LET kept == reader.pc \notin {"off", "done"} \/ ~sure IN
         /\ flags' = [flags EXCEPT !.confirmed = sure, !.handle = kept]
         /\ Continue(killer.who, sure, kept)
  /\ UNCHANGED <<childVars, queue, session, tallyVars, count>>

-----------------------------------------------------------------------------
(* The worker and the plugin in it                                          *)

\* What is printed after the reader has ended is read by nobody.
Prints(line) == stdout' = IF reader.pc = "done" THEN stdout ELSE Append(stdout, line)
WorkerUp == life = "alive"
ParentVars == <<operator, reader, guard, killer, queue, flags, session, tallyVars>>

WorkerHello ==
  /\ WorkerUp /\ worker.pc = "starting"
  /\ Prints(Hello) /\ worker' = AtRest
  /\ UNCHANGED <<ParentVars, life, brood, stdin, count>>

WorkerTakes ==
  /\ WorkerUp /\ worker.pc = "idle" /\ stdin.kind \in LifecycleAction
  /\ worker' = [pc |-> "busy", req |-> stdin.req, act |-> stdin.kind]
  /\ stdin' = NoLine
  /\ UNCHANGED <<ParentVars, life, brood, stdout, count>>

\* _broker_call waits for the answer; without one the plugin's call fails and
\* so does the action.
WorkerCalls ==
  /\ WorkerUp /\ worker.pc = "busy" /\ worker.act = "work"
  /\ Prints(CallOf(worker.req)) /\ worker' = [worker EXCEPT !.pc = "calling"]
  /\ UNCHANGED <<ParentVars, life, brood, stdin, count>>

WorkerAnswered ==
  /\ WorkerUp /\ worker.pc = "calling"
  /\ \/ /\ stdin.kind = "reply" /\ stdin' = NoLine /\ UNCHANGED stdout
        /\ worker' = [worker EXCEPT !.pc = "busy"]
     \/ /\ stdin.kind = "none" /\ flags.closedIn /\ UNCHANGED stdin
        /\ Prints(ResultOf(worker.req, FALSE)) /\ worker' = AtRest
  /\ UNCHANGED <<ParentVars, life, brood, count>>

WorkerResult(ok) ==
  /\ WorkerUp /\ worker.pc = "busy"
  /\ Prints(ResultOf(worker.req, ok))
  /\ worker' = IF ok /\ worker.act = "shutdown" THEN [worker EXCEPT !.pc = "exiting"] ELSE AtRest
  /\ UNCHANGED <<ParentVars, life, brood, stdin, count>>

\* The child ends by itself: after its shutdown, at the end of its input, or
\* because the plugin or the system ended it.
WorkerEnds ==
  /\ WorkerUp /\ Exits
  /\ UNCHANGED <<ParentVars, brood, stdout, count>>

\* The plugin prints lines of its own, or leaves a process in its group.
PluginMisbehaves ==
  /\ WorkerUp /\ worker.pc = "busy" /\ count.noise < MaxNoise
  /\ \/ /\ \E kind \in {"garbage", "long"} : Prints([kind |-> kind])
        /\ UNCHANGED brood
     \/ brood' = TRUE /\ UNCHANGED stdout
  /\ count' = [count EXCEPT !.noise = @ + 1]
  /\ UNCHANGED <<ParentVars, life, worker, stdin>>

BroodEnds ==
  /\ brood /\ brood' = FALSE
  /\ UNCHANGED <<ParentVars, life, worker, stdin, stdout, count>>

-----------------------------------------------------------------------------
OperatorStep ==
  \/ SpawnFails \/ Spawn \/ Shaken
  \/ CheckTransport \/ GetTimesOut \/ Get
  \/ BeginInvoke \/ OpenSession \/ WriteRequest \/ HandleCall \/ ReplyCall
  \/ Finish \/ Refused \/ Commit \/ SettleFailure \/ CloseNow \/ LeaveOp \/ LeaveContained

ReaderStep == ReadLine \/ ReadEnd \/ ReaderSchedules \/ ReaderPuts

TermStep ==
  \/ \E w \in Thread : TermEnter(w)
  \/ TermSignal \/ TermConfirm \/ TermJoin

ChildStep ==
  \/ WorkerHello \/ WorkerTakes \/ WorkerCalls \/ WorkerAnswered
  \/ \E ok \in BOOLEAN : WorkerResult(ok)
  \/ WorkerEnds \/ PluginMisbehaves \/ BroodEnds

PluginNext ==
  \/ StartRuntime \/ (\E act \in LifecycleAction : Invoke(act)) \/ CloseRuntime
  \/ DeadlinePasses \/ OperatorStep \/ ReaderStep \/ TermStep \/ ChildStep

PluginSpec == PluginInit /\ [][PluginNext]_plugVars

\* The clock goes on and the parent's threads are scheduled; the worker owes
\* nothing.  A lock that is given back again and again is taken in the end.
PluginFairness ==
  /\ WF_plugVars(DeadlinePasses) /\ WF_plugVars(OperatorStep) /\ WF_plugVars(ReaderStep)
  /\ SF_plugVars(\E w \in Thread : TermEnter(w))
  /\ WF_plugVars(TermSignal \/ TermConfirm \/ TermJoin)

FairPluginSpec == PluginSpec /\ PluginFairness

-----------------------------------------------------------------------------
(* The events of a request are in the bus's history, all of them, exactly  *)
(* when its invoke reported success: nothing of a request that timed out,  *)
(* was refused or lost its worker is ever published.                       *)
EventsWithSuccess ==
  \A r \in Request : recorded[r] = IF outcome[r] = "ok" THEN granted[r] ELSE 0

(* A worker that agreed to shut down and then ended is not reported as     *)
(* crashed, however early the end of its output is seen.                   *)
ShutdownNotCrash ==
  worker.pc = "exiting" => outcome[worker.req] # "crashed"

(* Between two operations a generation that looks usable has a reader that *)
(* will see the end of its output.                                         *)
UsableIsWatched ==
  flags.usable /\ operator.pc = "idle" => reader.pc \notin {"off", "done"}

(* What an invoke reports is what became of the request, on the bus and in *)
(* the worker, and no generation looks usable while nobody reads it.       *)
GenerationSound == EventsWithSuccess /\ ShutdownNotCrash /\ UsableIsWatched

(* Whoever sees a fault of the transport, in an operation or between two,  *)
(* the worker is terminated in the end.                                    *)
FaultContained == flags.fault # "none" ~> flags.stopping /\ killer.who = "nobody"

(* start, invoke and close come back, whatever the worker does.            *)
OperationsReturn == operator.pc # "idle" ~> operator.pc = "idle"

(* No operation hangs, and no fault of the transport stays unattended.     *)
GenerationSettles == FaultContained /\ OperationsReturn

(* Seen from the plugin loader, the threads, the pipes and the worker are   *)
(* one generation: ended after its first failure, never usable again, and   *)
(* confirmed only when it is gone.                                          *)
Generation == INSTANCE PluginGeneration WITH
  alive <- IF life = "alive" \/ brood THEN "up" ELSE IF life = "none" THEN "none" ELSE "gone",
  usable <- flags.usable,
  ended <- flags.stopping \/ flags.fault # "none" \/ operator.pc = "term",
  confirmed <- flags.confirmed,
  result <- [r \in Request |-> IF outcome[r] \in Error THEN "error" ELSE outcome[r]]

ImplementsGeneration == Generation!GenSpec
=============================================================================
