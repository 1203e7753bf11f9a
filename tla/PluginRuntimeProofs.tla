--------------------------- MODULE PluginRuntimeProofs ---------------------------
(***************************************************************************)
(* The runtime of one plugin worker is sound and is the generation the     *)
(* plugin loader relies on, for any number of operations, calls, queued    *)
(* lines and lines of noise, and however its operation, its reader, its    *)
(* containment thread and the worker interleave.                           *)
(***************************************************************************)
EXTENDS SubprocessPluginRuntime, TLAPS

-----------------------------------------------------------------------------
(* One worker generation: what its threads know of each other.             *)

Handshake == {"hello?", "hello", "shaken"}
Serving == {"open", "write", "check", "get", "handle", "reply", "finish", "refused"}
OperatorAt == {"idle", "spawn", "term", "settle", "begin", "commit", "close", "leave", "left"}
                \cup Handshake \cup Serving
Code == Error \cup {"none", "refused"}

\* A line of the worker, and what the reader queues besides.
Printed == [kind: {"hello", "garbage", "long"}] \cup [kind: {"call"}, req: Nat]
             \cup [kind: {"result"}, req: Nat, ok: BOOLEAN]
Queued == Printed \cup [kind: {"eof"}]

Flags == [started: BOOLEAN, usable: BOOLEAN, handle: BOOLEAN, active: BOOLEAN,
          stopping: BOOLEAN, overflow: BOOLEAN, hello: BOOLEAN, expected: BOOLEAN,
          deferred: BOOLEAN, late: BOOLEAN, confirmed: BOOLEAN, closedIn: BOOLEAN,
          closedOut: BOOLEAN, fault: Fault \cup {"none"}]
Operator == [pc: OperatorAt, act: LifecycleAction, req: Nat,
             then: {"none", "raise", "fatal", "commit", "leave", "done"}, code: Code]

ThreadTypes ==
  /\ operator \in Operator
  /\ reader \in [pc: {"off", "read", "schedule", "term", "put", "done"},
                 last: {"none", "eof", "long"}]
  /\ guard \in {"none", "run"}
  /\ killer \in [who: Thread \cup {"nobody"}, stage: {"none", "signal", "confirm", "join"}]
  /\ flags \in Flags

ChildTypes ==
  /\ life \in {"none", "alive", "exited"} /\ brood \in BOOLEAN
  /\ worker \in [pc: {"starting", "idle", "busy", "calling", "exiting"}, req: Nat,
                 act: LifecycleAction]
  /\ stdin \in [kind: LifecycleAction \cup {"none", "reply"}, req: Nat]
  /\ stdout \in Seq(Printed) /\ queue \in Seq(Queued)

TallyTypes ==
  /\ session \in [state: {"none", "open", "committed", "aborted"}, calls: Nat, outbox: Nat]
  /\ outcome \in [Request -> Code \cup {"ok"}]
  /\ granted \in [Request -> Nat] /\ recorded \in [Request -> Nat]
  /\ count \in [requests: Nat, closes: Nat, noise: Nat]

RuntimeTypes == ThreadTypes /\ ChildTypes /\ TallyTypes

-----------------------------------------------------------------------------
(* Before its process is spawned nothing of a generation is there.         *)
Fresh ==
  /\ life = "none" /\ ~brood /\ worker.pc = "starting" /\ worker.req = 0
  /\ guard = "none" /\ killer.stage = "none" /\ reader.pc = "off"
  /\ ~flags.handle /\ ~flags.usable /\ ~flags.stopping /\ ~flags.expected /\ ~flags.deferred
  /\ ~flags.closedOut /\ ~flags.overflow /\ flags.fault = "none"

Unspawned ==
  /\ ~flags.started =>
       Fresh /\ operator.pc \in {"idle", "begin", "settle", "close", "leave", "left"}
  /\ operator.pc = "spawn" => Fresh
  /\ operator.pc \in Handshake =>
       /\ life # "none" /\ (flags.handle \/ flags.stopping)
       /\ ~flags.expected /\ ~flags.deferred /\ reader.pc # "off"
  /\ life = "none" => ~brood

(* Whoever terminates the process has said so, and why.                    *)
Terminating ==
  /\ killer.stage = "none" <=> killer.who = "nobody"
  /\ killer.stage # "none" => flags.stopping /\ Wants(killer.who)
  /\ killer.stage = "join" => life = "exited" /\ ~brood
  /\ flags.closedOut => flags.stopping /\ life = "exited"
  /\ guard = "run" \/ reader.pc \in {"schedule", "term"} => flags.fault # "none"
  /\ operator.pc \in Handshake \cup Serving /\ flags.stopping => flags.fault # "none"

(* A usable generation has a reader that still reads, or that put the end  *)
(* of the output aside for the operation that expects it.                  *)
ShuttingDown == operator.act = "shutdown" /\ operator.pc \in Serving \ {"open"}
Usable ==
  /\ flags.usable =>
       /\ flags.handle /\ ~flags.stopping /\ flags.fault = "none" /\ reader.pc # "off"
       /\ flags.expected \/ flags.deferred \/ reader.pc # "read" =>
            ShuttingDown \/ operator.pc = "term"
       /\ reader.pc # "read" => flags.deferred \/ operator.pc = "term"
  /\ operator.pc \in Handshake /\ flags.fault = "none" => reader.pc = "read"
  /\ operator.pc \in Serving /\ flags.fault = "none" => flags.usable

\* How an operation that ends in a failure comes to its code.
CodesSound ==
  /\ operator.pc = "idle" => operator = Idle
  /\ operator.pc = "term" => /\ operator.then # "none"
                             /\ operator.then \in {"raise", "fatal"} => operator.code \in Error
  /\ operator.pc = "settle" /\ operator.req # 0 =>
       operator.code = "refused" \/ (operator.code \in Error /\ flags.stopping)

\* The request whose outcome is still to come.
Unsettled ==
  /\ operator.req # 0
  /\ \/ operator.pc \in Serving \cup {"commit", "settle"}
     \/ operator.pc = "term" /\ operator.then \in {"raise", "fatal", "commit"}

RequestsCounted ==
  /\ count.requests + count.closes <= MaxOperations
  /\ operator.pc = "begin" => count.requests + count.closes < MaxOperations
  /\ operator.pc \in Handshake \cup {"spawn", "begin", "close"} => operator.req = 0
  /\ operator.req \in {0, count.requests}
  /\ \A r \in Request : r > count.requests => outcome[r] = "none" /\ granted[r] = 0
  /\ operator.pc \in Serving \cup {"commit"} => operator.req # 0
  /\ operator.pc = "term" /\ operator.then = "commit" => operator.req # 0
  /\ Unsettled => outcome[operator.req] = "none"

RuntimeInv ==
  RuntimeTypes /\ Unspawned /\ Terminating /\ Usable /\ CodesSound /\ RequestsCounted

(* What a session has staged is what its request was told.                 *)
Staging ==
  \/ operator.pc \in Serving \ {"open"} \/ operator.pc = "commit"
  \/ operator.pc = "term" /\ operator.then = "commit"
OutboxTold ==
  /\ operator.pc = "open" => granted[operator.req] = 0
  /\ Staging => session.outbox = granted[operator.req]
EventsInv == EventsWithSuccess /\ OutboxTold

-----------------------------------------------------------------------------
(* What of a request has reached the worker, and come back.                *)
Lines(s) == {s[i] : i \in DOMAIN s}
OnTheWay == Lines(stdout) \cup Lines(queue)
Result(m, r) == m.kind = "result" /\ m.req = r
About(m) == m.kind \in {"call", "result"}
EndQueued == \E m \in Lines(queue) : m.kind = "eof"

Working == worker.pc \in {"busy", "calling"}
Asked(r) == stdin.kind \in LifecycleAction /\ stdin.req = r
Ahead(r) == Asked(r) \/ (Working /\ worker.req = r)
Left(r) == worker.pc = "exiting" /\ worker.req = r

\* The worker knows of no request that was not written, and of each what it is.
Numbered ==
  /\ stdin.req <= count.requests /\ worker.req <= count.requests
  /\ \A m \in OnTheWay : About(m) => m.req <= count.requests
  /\ operator.pc \in {"open", "write"} =>
       /\ stdin.req < operator.req /\ worker.req < operator.req
       /\ \A m \in OnTheWay : About(m) => m.req < operator.req
Understood ==
  /\ stdin.kind \in LifecycleAction => stdin.req # 0
  /\ Asked(operator.req) => stdin.kind = operator.act
  /\ Working \/ worker.pc = "exiting" =>
       worker.req # 0 /\ (worker.req = operator.req => worker.act = operator.act)
  /\ worker.pc = "calling" => worker.act = "work"
  /\ worker.pc = "exiting" => worker.act = "shutdown"
  /\ operator.act = "shutdown" /\ operator.req # 0 =>
       /\ operator.pc \notin {"handle", "reply"}
       /\ \A m \in OnTheWay : ~(m.kind = "call" /\ m.req = operator.req)

\* While the worker lives, nobody has seen the end of its output.
EndSeen ==
  /\ \/ flags.fault = "crashed" \/ flags.deferred \/ EndQueued \/ reader.last = "eof"
     => life = "exited"
  /\ life = "alive" /\ flags.fault = "none" /\ ~flags.stopping => reader.pc \in {"off", "read"}
  /\ life # "alive" => stdin.kind = "none" /\ ~Working

\* A request is answered once, and a worker that left had agreed to.
AnsweredOnce ==
  \A r \in Request :
    /\ Ahead(r) => /\ \A m \in OnTheWay : ~Result(m, r)
                   /\ operator.req = r => operator.pc \notin {"finish", "refused"}
    /\ Asked(r) => ~(Working /\ worker.req = r) /\ ~Left(r)
    /\ Left(r) => /\ \A m \in OnTheWay : Result(m, r) => m.ok
                  /\ operator.req = r => operator.pc # "refused"

\* A worker that was told to shut down is expected to end.
Told(r) ==
  \/ stdin.kind = "shutdown" /\ stdin.req = r
  \/ Working /\ worker.act = "shutdown" /\ worker.req = r
  \/ Left(r)
Expected ==
  /\ operator.pc \in Serving \cup {"begin"} => operator.code = "none"
  /\ operator.pc = "write" /\ operator.act = "shutdown" => flags.expected \/ flags.stopping
  /\ \A r \in Request : Told(r) =>
       /\ outcome[r] # "crashed"
       /\ operator.req = r => /\ flags.expected \/ flags.stopping
                              /\ flags.fault # "crashed" /\ operator.code # "crashed"

\* Its agreement is on its way to the operation that waits for it.
AgreementComes ==
  \A r \in Request :
    /\ Left(r) /\ operator.req = r /\ operator.pc \in {"check", "get"}
    /\ ~flags.stopping /\ flags.fault = "none"
    => \/ \E i \in DOMAIN queue : Result(queue[i], r) /\ \A j \in 1 .. i : queue[j].kind # "eof"
       \/ (\E m \in Lines(stdout) : Result(m, r)) /\ reader.pc = "read" /\ ~EndQueued

ShutdownInv ==
  Numbered /\ Understood /\ EndSeen /\ AnsweredOnce /\ Expected /\ AgreementComes
-----------------------------------------------------------------------------
\* Flags that differ at most in what no other thread decides by, and in usable.
Alike(f, g) ==
  /\ f.started = g.started /\ f.handle = g.handle /\ f.stopping = g.stopping
  /\ f.expected = g.expected /\ f.deferred = g.deferred /\ f.closedOut = g.closedOut
  /\ f.confirmed = g.confirmed /\ f.fault = g.fault /\ f.overflow = g.overflow

LEMMA FatalDoes ==
  ASSUME ThreadTypes, NEW f \in Flags, NEW code \in Error, Fatal(code, f)
  PROVE  /\ flags' \in Flags /\ ~flags'.usable /\ Alike(flags', f)
         /\ operator' \in Operator /\ operator'.pc = "term"
         /\ operator'.then \in {"fatal", "raise"}
         /\ operator'.code = IF f.fault = "none" THEN code ELSE f.fault
         /\ operator'.code \in Error
         /\ operator'.req = operator.req /\ operator'.act = operator.act
<1>1. operator \in Operator
  BY DEF ThreadTypes
<1>2. flags' \in Flags /\ ~flags'.usable /\ Alike(flags', f)
  BY DEF Fatal, Flags, Alike
<1>3. /\ operator'.pc = "term" /\ operator'.then \in {"fatal", "raise"}
      /\ operator'.code = IF f.fault = "none" THEN code ELSE f.fault
      /\ operator'.req = operator.req /\ operator'.act = operator.act
  BY <1>1 DEF Fatal, Operator
<1>4. (IF f.fault = "none" THEN code ELSE f.fault) \in Error
  BY DEF Error, Flags
<1>5. operator' \in Operator
  BY <1>1, <1>4 DEF Fatal, Operator, OperatorAt, Code
<1> QED
  BY <1>2, <1>3, <1>4, <1>5

LEMMA RaiseFaultDoes ==
  ASSUME ThreadTypes, flags.fault # "none", RaiseFault
  PROVE  /\ operator' \in Operator /\ operator'.pc = "term" /\ operator'.then = "raise"
         /\ operator'.code = flags.fault /\ operator'.code \in Error
         /\ operator'.req = operator.req /\ operator'.act = operator.act
  BY DEF RaiseFault, ThreadTypes, Operator, OperatorAt, Code, Error, Flags

\* The operator goes on at another place, and nothing else of it changes.
LEMMA GoesTo ==
  ASSUME ThreadTypes, NEW pc \in OperatorAt, operator' = [operator EXCEPT !.pc = pc]
  PROVE  /\ operator' \in Operator /\ operator'.pc = pc /\ operator'.req = operator.req
         /\ operator'.act = operator.act /\ operator'.then = operator.then
         /\ operator'.code = operator.code
  BY DEF ThreadTypes, Operator

LEMMA RaiseDoes ==
  ASSUME ThreadTypes, NEW code \in Code, Raise(code)
  PROVE  /\ operator' \in Operator /\ operator'.pc = "settle" /\ operator'.req = operator.req
         /\ operator'.act = operator.act /\ operator'.code = code
  BY DEF ThreadTypes, Operator, Raise, OperatorAt

LEMMA EnterDoes ==
  ASSUME ThreadTypes, NEW pc \in OperatorAt, NEW act \in LifecycleAction,
         operator' = [Idle EXCEPT !.pc = pc, !.act = act]
  PROVE  /\ operator' \in Operator /\ operator'.pc = pc /\ operator'.req = 0
         /\ operator'.act = act
  BY DEF Operator, Idle, Code

LEMMA IdleTyped ==
  Idle \in Operator /\ Idle.pc = "idle" /\ Idle.req = 0 /\ Idle.act = "work"
  BY DEF Idle, Operator, OperatorAt, Code, LifecycleAction

\* What a thread does when its termination is over.
LEMMA ContinueDoes ==
  ASSUME ThreadTypes, CodesSound, NEW w \in Thread, Wants(w),
         NEW sure \in BOOLEAN, NEW handle, Continue(w, sure, handle)
  PROVE  /\ operator' \in Operator
         /\ w # "op" => operator' = operator
         /\ w = "op" =>
              /\ operator'.pc \in {"settle", "commit", "leave", "idle"}
              /\ operator'.pc # "idle" =>
                   operator'.req = operator.req /\ operator'.act = operator.act
              /\ operator'.pc = "settle" =>
                   /\ operator.then \in {"raise", "fatal", "commit"} /\ operator'.code \in Error
                   /\ operator'.code \in {operator.code, "unconfirmed"}
              /\ operator'.pc = "commit" => operator.then = "commit" /\ sure
              /\ operator'.pc = "leave" => operator.then = "leave"
              /\ operator'.pc = "idle" => operator.then = "done" /\ operator' = Idle
         /\ reader' \in [pc: {"off", "read", "schedule", "term", "put", "done"},
                         last: {"none", "eof", "long"}]
         /\ reader'.last = reader.last
         /\ w = "reader" => reader.pc = "term" /\ reader'.pc = "put"
         /\ w # "reader" => reader' = reader
         /\ guard' \in {"none", "run"} /\ (guard' # guard => guard' = "none")
         /\ w = "guard" => guard' = "none"
         /\ killer' = [who |-> "nobody", stage |-> "none"]
<1>1. operator \in Operator /\ ThreadTypes
  BY DEF ThreadTypes
<1>2. CASE w # "op"
  BY <1>1, <1>2 DEF Continue, Wants, ThreadTypes
<1>3. CASE w = "op"
  <2>1. operator.pc = "term" /\ operator.then \in {"raise", "fatal", "commit", "leave", "done"}
    BY <1>1, <1>3 DEF Wants, CodesSound, Operator
  <2>2. reader' = reader /\ guard' = guard /\ killer' = [who |-> "nobody", stage |-> "none"]
    BY <1>3 DEF Continue
  <2>3. CASE operator.then = "fatal"
    <3> DEFINE c == IF handle /\ ~sure THEN "unconfirmed" ELSE operator.code
    <3>1. operator' = [operator EXCEPT !.pc = "settle", !.code = c]
      BY <1>3, <2>3 DEF Continue
    <3>2. c \in Error /\ c \in {operator.code, "unconfirmed"}
      BY <2>1, <2>3 DEF CodesSound, Error
    <3> HIDE DEF c
    <3> QED
      BY <1>1, <1>3, <2>2, <2>3, <3>1, <3>2 DEF Operator, OperatorAt, Code, ThreadTypes
  <2>4. CASE operator.then = "raise"
    <3>1. operator' = [operator EXCEPT !.pc = "settle"] /\ operator.code \in Error
      BY <1>3, <2>1, <2>4 DEF Continue, CodesSound
    <3> QED
      BY <1>1, <1>3, <2>2, <2>4, <3>1 DEF Operator, OperatorAt, Code, ThreadTypes
  <2>5. CASE operator.then = "commit" /\ sure
    <3>1. operator' = [operator EXCEPT !.pc = "commit"]
      BY <1>3, <2>5 DEF Continue
    <3> QED
      BY <1>1, <1>3, <2>2, <2>5, <3>1 DEF Operator, OperatorAt, Code, ThreadTypes
  <2>6. CASE operator.then = "commit" /\ ~sure
    <3>1. operator' = [operator EXCEPT !.pc = "settle", !.code = "unconfirmed"]
      BY <1>3, <2>6 DEF Continue
    <3> QED
      BY <1>1, <1>3, <2>2, <2>6, <3>1 DEF Operator, OperatorAt, Code, Error, ThreadTypes
  <2>7. CASE operator.then = "leave"
    <3>1. operator' = [operator EXCEPT !.pc = "leave"]
      BY <1>3, <2>7 DEF Continue
    <3> QED
      BY <1>1, <1>3, <2>2, <2>7, <3>1 DEF Operator, OperatorAt, Code, ThreadTypes
  <2>8. CASE operator.then = "done"
    <3>1. operator' = Idle
      BY <1>3, <2>8 DEF Continue
    <3> QED
      BY <1>1, <1>3, <2>2, <2>8, <3>1, IdleTyped DEF ThreadTypes
  <2> QED
    BY <2>1, <2>3, <2>4, <2>5, <2>6, <2>7, <2>8
<1> QED
  BY <1>2, <1>3

\* The reader sees a fault: the first one stays, and only while nothing is
\* terminated yet.
LEMMA ObserveDoes ==
  ASSUME ThreadTypes, NEW code \in Fault, NEW last \in {"none", "eof", "long"},
         ObserveFault(code, last)
  PROVE  /\ flags' \in Flags
         /\ flags.stopping \/ flags.fault # "none" => flags' = flags
         /\ ~flags.stopping /\ flags.fault = "none" =>
              /\ ~flags'.usable /\ flags'.fault # "none"
              /\ flags'.fault \in {code, "handshake"}
         /\ flags'.started = flags.started /\ flags'.handle = flags.handle
         /\ flags'.stopping = flags.stopping /\ flags'.expected = flags.expected
         /\ flags'.deferred = flags.deferred /\ flags'.closedOut = flags.closedOut
         /\ flags'.confirmed = flags.confirmed /\ flags'.closedIn = flags.closedIn
         /\ reader' \in [pc: {"schedule", "put"}, last: {"none", "eof", "long"}]
         /\ reader'.last = last
         /\ reader'.pc = "schedule" => flags'.fault # "none"
         /\ flags'.usable => flags.usable
<1>1. flags \in Flags
  BY DEF ThreadTypes
<1>2. CASE flags.stopping \/ flags.fault # "none"
  BY <1>1, <1>2 DEF ObserveFault, Observed, MustContain
<1>3. CASE ~flags.stopping /\ flags.fault = "none"
  <2> DEFINE v == IF code = "crashed" /\ ~flags.hello THEN "handshake" ELSE code
  <2>1. flags' = [flags EXCEPT !.usable = FALSE, !.fault = v]
    BY <1>3 DEF ObserveFault, Observed
  <2>2. v \in Fault /\ v \in {code, "handshake"} /\ v # "none"
    BY DEF Fault
  <2> HIDE DEF v
  <2>3. reader' \in [pc: {"schedule", "put"}, last: {"none", "eof", "long"}] /\ reader'.last = last
    BY DEF ObserveFault
  <2>4. /\ flags' \in Flags /\ ~flags'.usable /\ flags'.fault = v
        /\ flags'.started = flags.started /\ flags'.handle = flags.handle
        /\ flags'.stopping = flags.stopping /\ flags'.expected = flags.expected
        /\ flags'.deferred = flags.deferred /\ flags'.closedOut = flags.closedOut
        /\ flags'.confirmed = flags.confirmed /\ flags'.closedIn = flags.closedIn
    BY <1>1, <2>1, <2>2 DEF Flags
  <2> QED
    BY <1>3, <2>2, <2>3, <2>4
<1> QED
  BY <1>2, <1>3

-----------------------------------------------------------------------------
(* What each step of the operator comes to, for the rest of the proof.     *)

\* The operator goes on, and the flags stay as they are.
Goes(pc) ==
  /\ operator' \in Operator /\ operator'.pc = pc /\ operator'.req = operator.req
  /\ operator'.act = operator.act /\ operator'.then = operator.then
  /\ operator'.code = operator.code
Still == flags' \in Flags /\ Alike(flags', flags) /\ flags'.usable = flags.usable

\* The operation fails, from flags f, and terminates the process.
Fails(f) ==
  /\ flags' \in Flags /\ ~flags'.usable /\ Alike(flags', f)
  /\ operator' \in Operator /\ operator'.pc = "term" /\ operator'.then \in {"fatal", "raise"}
  /\ operator'.code \in Error
  /\ operator'.req = operator.req /\ operator'.act = operator.act

Codes(f, C) == operator'.code \in C \cup {f.fault}

LEMMA FatalFails ==
  ASSUME ThreadTypes, NEW f \in Flags, NEW code \in Error, Fatal(code, f)
  PROVE  Fails(f) /\ Codes(f, {code})
  BY FatalDoes DEF Fails, Codes

LEMMA RaiseFaultFails ==
  ASSUME ThreadTypes, Usable, flags.fault # "none", RaiseFault, UNCHANGED flags
  PROVE  Fails(flags) /\ Codes(flags, {})
  BY RaiseFaultDoes DEF Fails, Codes, Usable, Alike, ThreadTypes

LEMMA SameStill == ASSUME ThreadTypes, UNCHANGED flags PROVE Still
  BY DEF Still, Alike, ThreadTypes

LEMMA CheckDoes ==
  ASSUME ThreadTypes, Usable, CheckTransport
  PROVE  \/ Fails(flags) /\ Codes(flags, {"limit", "timeout"})
         \/ /\ flags.fault = "none" /\ Still
            /\ operator.pc = "hello?" => Goes("hello")
            /\ operator.pc = "check" => Goes("get")
<1>1. CASE flags.fault # "none"
  BY <1>1, RaiseFaultFails DEF CheckTransport, Codes
<1>2. CASE flags.fault = "none" /\ flags.overflow
  <2>1. Fatal("limit", flags) /\ "limit" \in Error
    BY <1>2 DEF CheckTransport, Error, Fault
  <2> QED
    BY <2>1, FatalFails DEF ThreadTypes, Codes
<1>3. CASE flags.fault = "none" /\ ~flags.overflow /\ flags.late
  <2>1. Fatal("timeout", flags) /\ "timeout" \in Error
    BY <1>3 DEF CheckTransport, Error, Fault
  <2> QED
    BY <2>1, FatalFails DEF ThreadTypes, Codes
<1>4. CASE flags.fault = "none" /\ ~flags.overflow /\ ~flags.late
  <2>1. operator' = [operator EXCEPT !.pc = InGet[operator.pc]] /\ UNCHANGED flags
    BY <1>4 DEF CheckTransport
  <2>2. InGet["hello?"] = "hello" /\ InGet["check"] = "get"
    BY DEF InGet, Waits
  <2>3. "hello" \in OperatorAt /\ "get" \in OperatorAt
    BY DEF OperatorAt, Handshake, Serving
  <2> QED
    BY <1>4, <2>1, <2>2, <2>3, GoesTo, SameStill DEF Goes
<1> QED
  BY <1>1, <1>2, <1>3, <1>4

LEMMA GetTimesOutDoes ==
  ASSUME ThreadTypes, GetTimesOut
  PROVE  Fails(flags) /\ Codes(flags, {"timeout"})
  BY FatalFails DEF GetTimesOut, ThreadTypes, Error, Fault

LEMMA GetDoes ==
  ASSUME ThreadTypes, ChildTypes, Usable, Get
  PROVE  \/ /\ Fails(flags)
            /\ \/ Codes(flags, {"limit", "handshake", "protocol"})
               \/ Head(queue).kind = "eof" /\ operator.pc = "get" /\ flags.fault = "none"
         \/ /\ flags.fault = "none" /\ Still
            /\ \/ operator.pc = "hello" /\ Goes("shaken")
               \/ /\ operator.pc = "get" /\ Head(queue).req = operator.req
                  /\ \/ Head(queue).kind = "call" /\ Goes("handle")
                     \/ Head(queue).kind = "result" /\ Head(queue).ok /\ Goes("finish")
                     \/ Head(queue).kind = "result" /\ ~Head(queue).ok /\ Goes("refused")
<1> DEFINE m == Head(queue)
<1>1. m \in Queued /\ operator.pc \in {"hello", "get"} /\ Understand(m)
  BY DEF Get, ChildTypes
<1> HIDE DEF m
<1>2. CASE flags.fault # "none"
  BY <1>1, <1>2, RaiseFaultFails DEF Understand, Codes
<1>3. CASE flags.fault = "none" /\ \E code \in {"limit", "handshake", "protocol"} : Fatal(code, flags)
  BY <1>3, FatalFails DEF ThreadTypes, Error, Fault, Codes
<1>4. CASE flags.fault = "none" /\ m.kind = "eof" /\ operator.pc = "get"
  <2>1. Fatal("crashed", flags) /\ "crashed" \in Error
    BY <1>1, <1>4 DEF Understand, Error, Fault
  <2> QED
    BY <1>4, <2>1, FatalFails DEF ThreadTypes, m
<1>5. CASE flags.fault = "none" /\ operator.pc = "hello" /\ m.kind = "hello"
  <2>1. operator' = [operator EXCEPT !.pc = "shaken"] /\ UNCHANGED flags
    BY <1>1, <1>5 DEF Understand
  <2> QED
    BY <1>5, <2>1, GoesTo, SameStill DEF Goes, OperatorAt, Handshake
<1>6. CASE flags.fault = "none" /\ operator.pc = "get" /\ m.kind \in {"call", "result"} /\ ForThis(m)
  <2> DEFINE pc == IF m.kind = "call" THEN "handle" ELSE IF m.ok THEN "finish" ELSE "refused"
  <2>1. operator' = [operator EXCEPT !.pc = pc] /\ UNCHANGED flags
    BY <1>1, <1>6 DEF Understand
  <2>2. /\ pc \in OperatorAt /\ m.req = operator.req
        /\ \/ m.kind = "call" /\ pc = "handle"
           \/ m.kind = "result" /\ m.ok /\ pc = "finish"
           \/ m.kind = "result" /\ ~m.ok /\ pc = "refused"
    BY <1>6 DEF OperatorAt, Serving, ForThis
  <2> HIDE DEF pc
  <2>3. Goes(pc) /\ Still
    BY <2>1, <2>2, GoesTo, SameStill DEF Goes
  <2> QED
    BY <1>6, <2>2, <2>3 DEF m
<1> QED
  BY <1>1, <1>2, <1>3, <1>4, <1>5, <1>6 DEF Understand

LEMMA ShakenDoes ==
  ASSUME ThreadTypes, Usable, Shaken
  PROVE  \/ Fails(flags) /\ Codes(flags, {})
         \/ /\ flags.fault = "none" /\ Goes("leave")
            /\ flags' \in Flags /\ Alike(flags', flags) /\ flags'.usable
<1>1. /\ flags' = [flags EXCEPT !.hello = TRUE, !.usable = @ \/ Undisturbed]
      /\ flags \in Flags
  BY DEF Shaken, ThreadTypes
<1>2. flags' \in Flags /\ Alike(flags', flags) /\ flags'.usable = (flags.usable \/ Undisturbed)
  BY <1>1 DEF Flags, Alike, Undisturbed
<1>3. CASE flags.fault = "none"
  BY <1>2, <1>3, GoesTo DEF Shaken, Undisturbed, Goes, OperatorAt
<1>4. CASE flags.fault # "none"
  <2>1. RaiseFault /\ ~flags'.usable
    BY <1>2, <1>4 DEF Shaken, Undisturbed, Usable
  <2> QED
    BY <1>2, <1>4, <2>1, RaiseFaultDoes DEF Fails, Codes
<1> QED
  BY <1>3, <1>4

LEMMA BeginDoes ==
  ASSUME ThreadTypes, TallyTypes, Usable, BeginInvoke
  PROVE  \/ Fails(flags) /\ UNCHANGED count
         \/ /\ operator' \in Operator /\ operator'.pc = "settle" /\ operator'.req = operator.req
            /\ Still /\ UNCHANGED count
         \/ /\ flags.fault = "none" /\ flags.usable /\ flags.started /\ (life = "alive" \/ ~flags.handle)
            /\ operator' \in Operator /\ operator'.pc = "open" /\ operator'.act = operator.act
            /\ operator'.req = count.requests + 1 /\ operator'.code = operator.code /\ Still
            /\ count' \in [requests: Nat, closes: Nat, noise: Nat]
            /\ count'.requests = count.requests + 1 /\ count'.closes = count.closes
<1>1. CASE flags.fault # "none"
  BY <1>1, RaiseFaultFails DEF BeginInvoke
<1>2. CASE flags.fault = "none" /\ \E code \in {"limit", "crashed"} : Fatal(code, flags) /\ UNCHANGED count
  BY <1>2, FatalFails DEF ThreadTypes, Error, Fault
<1>3. CASE flags.fault = "none" /\ Raise("crashed") /\ UNCHANGED <<flags, count>>
  BY <1>3, RaiseDoes, SameStill DEF Code, Error, Fault
<1>4. CASE /\ flags.fault = "none" /\ ~(flags.handle /\ life # "alive")
           /\ flags.started /\ flags.usable /\ UNCHANGED flags
           /\ operator' = [operator EXCEPT !.pc = "open", !.req = count.requests + 1]
           /\ count' = [count EXCEPT !.requests = @ + 1]
  <2>1. count.requests + 1 \in Nat /\ operator \in Operator
    BY DEF TallyTypes, ThreadTypes
  <2> DEFINE n == count.requests + 1
  <2>2. operator' = [operator EXCEPT !.pc = "open", !.req = n] /\ n \in Nat
    BY <1>4, <2>1
  <2>3. count' = [count EXCEPT !.requests = n]
    BY <1>4 DEF TallyTypes
  <2> HIDE DEF n
  <2>4. /\ operator' \in Operator /\ operator'.pc = "open" /\ operator'.act = operator.act
        /\ operator'.req = n /\ operator'.code = operator.code
    BY <2>1, <2>2 DEF Operator, OperatorAt, Serving
  <2>5. count' \in [requests: Nat, closes: Nat, noise: Nat] /\ count'.requests = n
        /\ count'.closes = count.closes
    BY <2>2, <2>3 DEF TallyTypes
  <2> QED
    BY <1>4, <2>4, <2>5, SameStill DEF n
<1> QED
  BY <1>1, <1>2, <1>3, <1>4 DEF BeginInvoke

LEMMA SendDoes ==
  ASSUME ThreadTypes, NEW line, Send(line)
  PROVE  \/ Fails(flags) /\ Codes(flags, {"crashed"}) /\ UNCHANGED stdin
         \/ Goes("check") /\ Still /\ stdin' = line /\ life = "alive"
<1>1. CASE Writable
  BY <1>1, GoesTo, SameStill DEF Send, Goes, OperatorAt, Serving, Writable
<1>2. CASE ~Writable
  BY <1>2, FatalFails DEF Send, ThreadTypes, Error, Fault
<1> QED
  BY <1>1, <1>2

LEMMA OpenDoes ==
  ASSUME ThreadTypes, OpenSession
  PROVE  \/ Fails(flags) /\ Codes(flags, {"protocol"}) /\ UNCHANGED session
         \/ /\ session' = [NoSession EXCEPT !.state = "open"] /\ Goes("write")
            /\ flags' \in Flags /\ flags'.usable = flags.usable
            /\ operator.act # "shutdown" => Still
            /\ operator.act = "shutdown" => flags'.expected /\ ~flags'.deferred
            /\ Alike(flags', [flags EXCEPT !.expected = flags'.expected,
                                           !.deferred = flags'.deferred])
<1>1. CASE Fatal("protocol", flags) /\ UNCHANGED session
  BY <1>1, FatalFails DEF ThreadTypes, Error, Fault
<1>2. CASE /\ session' = [NoSession EXCEPT !.state = "open"]
           /\ flags' = IF operator.act = "shutdown" THEN ExpectsEnd(flags) ELSE flags
           /\ operator' = [operator EXCEPT !.pc = "write"]
  <2>1. Goes("write")
    BY <1>2, GoesTo DEF Goes, OperatorAt, Serving
  <2>2. CASE operator.act # "shutdown"
    BY <1>2, <2>1, <2>2, SameStill DEF Still, Alike, ThreadTypes, Flags
  <2>3. CASE operator.act = "shutdown"
    <3>1. flags' = [flags EXCEPT !.expected = TRUE, !.deferred = FALSE] /\ flags \in Flags
      BY <1>2, <2>3 DEF ExpectsEnd, ThreadTypes
    <3>2. flags' \in Flags /\ flags'.expected /\ ~flags'.deferred /\ flags'.usable = flags.usable
      BY <3>1 DEF Flags
    <3>3. Alike(flags', [flags EXCEPT !.expected = flags'.expected, !.deferred = flags'.deferred])
      BY <3>1 DEF Alike, Flags
    <3> QED
      BY <1>2, <2>1, <2>3, <3>2, <3>3
  <2> QED
    BY <2>2, <2>3
<1> QED
  BY <1>1, <1>2 DEF OpenSession

LEMMA FinishDoes ==
  ASSUME ThreadTypes, Finish
  PROVE  \/ \E f \in Flags : /\ Fails(f) /\ Codes(f, {"timeout"})
                             /\ Alike(f, [flags EXCEPT !.deferred = f.deferred])
                             /\ f.deferred => flags.deferred
         \/ /\ operator.act = "shutdown" /\ flags' \in Flags /\ flags'.usable = flags.usable
            /\ Alike(flags', [flags EXCEPT !.deferred = FALSE])
            /\ operator' \in Operator /\ operator'.pc = "term" /\ operator'.then = "commit"
            /\ operator'.req = operator.req /\ operator'.act = operator.act
            /\ operator'.code = operator.code
         \/ operator.act = "work" /\ Goes("commit") /\ Still
<1> DEFINE d == IF operator.act = "shutdown" THEN FALSE ELSE flags.deferred
           done == [flags EXCEPT !.deferred = d]
<1>1. flags \in Flags /\ operator \in Operator
  BY DEF ThreadTypes
<1>2. d \in BOOLEAN
  BY <1>1 DEF Flags
<1>3. done \in Flags /\ done.usable = flags.usable /\ Alike(done, [flags EXCEPT !.deferred = d]) /\ done.deferred = d
  <2> HIDE DEF d
  <2> QED
    BY <1>1, <1>2 DEF Flags, Alike
<1>4. CASE flags.late
  <2>1. Fatal("timeout", done) /\ "timeout" \in Error
    BY <1>4 DEF Finish, Error, Fault
  <2>2. done.deferred => flags.deferred
    BY <1>3
  <2> HIDE DEF done
  <2> QED
    BY <1>3, <2>1, <2>2, FatalFails
<1>5. CASE ~flags.late /\ operator.act = "shutdown"
  <2>1. flags' = done /\ operator' = [operator EXCEPT !.pc = "term", !.then = "commit"] /\ d = FALSE
    BY <1>5 DEF Finish
  <2>2. /\ operator' \in Operator /\ operator'.pc = "term" /\ operator'.then = "commit"
        /\ operator'.req = operator.req /\ operator'.act = operator.act
        /\ operator'.code = operator.code
    BY <1>1, <2>1 DEF Operator, OperatorAt
  <2> HIDE DEF d, done
  <2> QED
    BY <1>3, <1>5, <2>1, <2>2
<1>6. CASE ~flags.late /\ operator.act # "shutdown"
  <2>1. flags' = done /\ operator' = [operator EXCEPT !.pc = "commit"] /\ d = flags.deferred
    BY <1>6 DEF Finish
  <2>2. operator.act = "work" /\ Goes("commit")
    BY <1>1, <1>6, <2>1, GoesTo DEF Goes, OperatorAt, Operator, LifecycleAction
  <2>3. Still
    <3> HIDE DEF d
    <3> QED
      BY <1>1, <1>3, <2>1 DEF Still, Alike, done, Flags
  <2> QED
    BY <2>2, <2>3
<1> QED
  BY <1>4, <1>5, <1>6

\* A refusal to shut down brings back the end that was put aside as a fault.
LEMMA RefusedDoes ==
  ASSUME ThreadTypes, Refused
  PROVE  /\ operator' \in Operator /\ operator'.pc = "settle" /\ operator'.req = operator.req
         /\ operator'.act = operator.act /\ operator'.code = "refused"
         /\ flags' \in Flags
         /\ flags'.started = flags.started /\ flags'.handle = flags.handle
         /\ flags'.stopping = flags.stopping /\ flags'.closedOut = flags.closedOut
         /\ flags'.confirmed = flags.confirmed /\ flags'.overflow = flags.overflow
         /\ operator.act # "shutdown" => Still
         /\ operator.act = "shutdown" =>
              /\ ~flags'.expected /\ ~flags'.deferred
              /\ IF flags.deferred /\ flags.fault = "none"
                 THEN flags'.fault = "crashed" /\ ~flags'.usable
                 ELSE flags'.fault = flags.fault /\ flags'.usable = flags.usable
<1>1. flags \in Flags /\ operator \in Operator
  BY DEF ThreadTypes
<1>2. /\ operator' \in Operator /\ operator'.pc = "settle" /\ operator'.req = operator.req
      /\ operator'.act = operator.act /\ operator'.code = "refused"
  BY RaiseDoes DEF Refused, Code
<1>3. CASE operator.act # "shutdown"
  BY <1>1, <1>2, <1>3, SameStill DEF Refused, Still
<1>4. CASE operator.act = "shutdown" /\ flags.deferred /\ flags.fault = "none"
  <2>1. flags' = [[flags EXCEPT !.expected = FALSE, !.deferred = FALSE]
                    EXCEPT !.fault = "crashed", !.usable = FALSE]
    BY <1>4 DEF Refused
  <2> QED
    BY <1>1, <1>2, <1>4, <2>1 DEF Flags, Fault
<1>5. CASE operator.act = "shutdown" /\ ~(flags.deferred /\ flags.fault = "none")
  <2>1. flags' = [flags EXCEPT !.expected = FALSE, !.deferred = FALSE]
    BY <1>5 DEF Refused
  <2> QED
    BY <1>1, <1>2, <1>5, <2>1 DEF Flags
<1> QED
  BY <1>3, <1>4, <1>5

LEMMA CommitDoes ==
  ASSUME ThreadTypes, Commit
  PROVE  \/ Fails(flags) /\ Codes(flags, {"timeout"}) /\ UNCHANGED <<session, outcome, recorded>>
         \/ /\ Goes("leave") /\ Still
            /\ recorded' = [recorded EXCEPT ![operator.req] = session.outbox]
            /\ session' = [session EXCEPT !.state = "committed", !.outbox = 0]
            /\ outcome' = [outcome EXCEPT ![operator.req] = "ok"]
<1>1. CASE flags.late
  <2>1. Fatal("timeout", flags) /\ "timeout" \in Error
    BY <1>1 DEF Commit, Error, Fault
  <2> QED
    BY <1>1, <2>1, FatalFails DEF Commit, ThreadTypes
<1>2. CASE ~flags.late
  BY <1>2, GoesTo, SameStill DEF Commit, Goes, OperatorAt
<1> QED
  BY <1>1, <1>2

LEMMA SpawnDoes ==
  ASSUME ThreadTypes, Spawn
  PROVE  /\ life' = "alive" /\ flags' \in Flags
         /\ Alike(flags', [flags EXCEPT !.handle = TRUE])
         /\ operator' \in Operator /\ operator'.req = operator.req /\ operator'.act = operator.act
         /\ \/ /\ operator'.pc = "term" /\ operator'.then \in {"raise", "fatal"}
               /\ operator'.code \in Error /\ flags'.usable \in {flags.usable, FALSE}
               /\ UNCHANGED reader
            \/ /\ operator'.pc = "hello?" /\ reader' = [reader EXCEPT !.pc = "read"]
               /\ flags'.usable = flags.usable
<1> DEFINE up == [flags EXCEPT !.handle = TRUE]
<1>1. flags \in Flags /\ operator \in Operator
  BY DEF ThreadTypes
<1>2. up \in Flags /\ up.usable = flags.usable /\ Alike(up, [flags EXCEPT !.handle = TRUE])
  BY <1>1 DEF Flags, Alike
<1>3. CASE /\ flags' = up /\ UNCHANGED reader
           /\ operator' = [operator EXCEPT !.pc = "term", !.then = "raise", !.code = "start"]
  <2> HIDE DEF up
  <2> QED
    BY <1>1, <1>2, <1>3 DEF Spawn, Operator, OperatorAt, Code, Error
<1>4. CASE Fatal("start", up) /\ UNCHANGED reader
  <2> HIDE DEF up
  <2>1. Fails(up) /\ "start" \in Error
    BY <1>2, <1>4, FatalFails DEF Error
  <2>2. life' = "alive"
    BY DEF Spawn
  <2>3. flags'.usable = FALSE
    BY <2>1 DEF Fails, Flags
  <2>4. Alike(flags', [flags EXCEPT !.handle = TRUE])
    BY <1>2, <2>1 DEF Fails, Alike
  <2> QED
    BY <1>4, <2>1, <2>2, <2>3, <2>4 DEF Fails
<1>5. CASE /\ flags' = up /\ reader' = [reader EXCEPT !.pc = "read"]
           /\ operator' = [operator EXCEPT !.pc = "hello?"]
  <2> HIDE DEF up
  <2>1. "hello?" \in OperatorAt
    BY DEF OperatorAt, Handshake
  <2> QED
    BY <1>1, <1>2, <1>5, <2>1, GoesTo DEF Spawn
<1> QED
  BY <1>3, <1>4, <1>5 DEF Spawn

LEMMA CloseNowDoes ==
  ASSUME ThreadTypes, CloseNow
  PROVE  /\ flags' \in Flags /\ Alike(flags', flags) /\ ~flags'.usable
         /\ operator' \in Operator /\ operator'.req = operator.req /\ operator'.act = operator.act
         /\ operator'.pc = "leave" \/ (operator'.pc = "term" /\ operator'.then = "leave")
<1>1. flags \in Flags /\ operator \in Operator
  BY DEF ThreadTypes
<1>2. flags' \in Flags /\ Alike(flags', flags) /\ ~flags'.usable
  BY <1>1 DEF CloseNow, Flags, Alike
<1> QED
  BY <1>1, <1>2 DEF CloseNow, Operator, OperatorAt

LEMMA LeaveContainedDoes ==
  ASSUME ThreadTypes, LeaveContained
  PROVE  /\ guard' \in {"none", "run"} /\ (guard' # guard => flags.fault # "none")
         /\ operator' \in Operator
         /\ \/ operator' = Idle
            \/ /\ operator'.pc = "term" /\ operator'.then = "done" /\ UNCHANGED guard
               /\ operator'.req = operator.req
<1>1. operator \in Operator /\ guard \in {"none", "run"}
  BY DEF ThreadTypes
<1>2. CASE operator' = Idle
  BY <1>1, <1>2, IdleTyped DEF LeaveContained
<1>3. CASE operator' = [operator EXCEPT !.pc = "term", !.then = "done"] /\ UNCHANGED guard
  BY <1>1, <1>3 DEF Operator, OperatorAt
<1> QED
  BY <1>2, <1>3 DEF LeaveContained

-----------------------------------------------------------------------------
(* What the threads know is kept by each step.                             *)
Known == ThreadTypes /\ Unspawned /\ Terminating /\ Usable /\ CodesSound
Others == <<reader, guard, killer, life, brood, worker>>

LEMMA FailsKeeps ==
  ASSUME Known, NEW f \in Flags, Fails(f), UNCHANGED Others, flags.started, operator.pc # "term",
         Alike(f, [flags EXCEPT !.deferred = f.deferred])
  PROVE  Known'
<1>1. flags \in Flags /\ operator \in Operator
  BY DEF Known, ThreadTypes
<1>2. /\ flags'.started /\ flags'.handle = flags.handle /\ flags'.stopping = flags.stopping
      /\ flags'.closedOut = flags.closedOut /\ flags'.fault = flags.fault
      /\ flags' \in Flags /\ ~flags'.usable
  BY <1>1 DEF Fails, Alike, Flags
<1>3. /\ operator' \in Operator /\ operator'.pc = "term" /\ operator'.then \in {"fatal", "raise"}
      /\ operator'.code \in Error
  BY DEF Fails
<1>4. ThreadTypes'
  BY <1>2, <1>3 DEF Known, ThreadTypes, Others
<1>5. Unspawned'
  BY <1>2, <1>3 DEF Known, Unspawned, Others, Handshake
<1>6. Terminating'
  BY <1>1, <1>2, <1>3 DEF Known, ThreadTypes, Terminating, Others, Wants, Handshake, Serving, Thread
<1>7. Usable'
  BY <1>2, <1>3 DEF Usable, Handshake, Serving
<1>8. CodesSound'
  BY <1>3 DEF CodesSound
<1> QED
  BY <1>4, <1>5, <1>6, <1>7, <1>8 DEF Known

LEMMA FailsCounted ==
  ASSUME RequestsCounted, NEW f, Fails(f), UNCHANGED <<count, outcome, granted>>,
         operator.pc \in Handshake \cup Serving \cup {"begin", "commit"}
  PROVE  RequestsCounted'
<1>1. /\ operator'.pc = "term" /\ operator'.then \in {"fatal", "raise"}
      /\ operator'.req = operator.req
  BY DEF Fails
<1>2. operator.req # 0 => Unsettled
  BY DEF RequestsCounted, Unsettled, Handshake
<1> QED
  BY <1>1, <1>2 DEF RequestsCounted, Unsettled, Handshake, Serving

\* The operator goes on where it relies on no more than before.
Onward ==
  /\ operator.pc \notin {"term", "spawn"} /\ operator'.pc \notin {"term", "spawn", "idle"}
  /\ flags.started \/ operator'.pc \in {"begin", "settle", "close", "leave", "left"}
  /\ operator'.pc \in Handshake => operator.pc \in Handshake
  /\ operator'.pc \in Serving => operator.pc \in Serving \/ flags.usable
  /\ ShuttingDown => operator'.act = "shutdown" /\ operator'.pc \in Serving \ {"open"}

LEMMA GoesKeeps ==
  ASSUME Known, operator' \in Operator, flags' \in Flags, Alike(flags', flags), UNCHANGED Others, Onward,
         flags'.usable = flags.usable \/ (~flags'.usable /\ operator'.pc \notin Serving),
         operator'.pc = "settle" /\ operator'.req # 0 => operator'.code = "refused"
  PROVE  Known'
<1>1. flags \in Flags /\ operator \in Operator
  BY DEF Known, ThreadTypes
<1>2. ThreadTypes'
  BY DEF Known, ThreadTypes, Others
<1>3. Unspawned'
  BY DEF Known, Unspawned, Others, Handshake, Onward, Alike, Fresh
<1>4. Terminating'
  <2>1. flags.usable => ~flags.stopping
    BY DEF Known, Usable
  <2>2. operator'.pc \in Handshake \cup Serving =>
          operator.pc \in Handshake \cup Serving \/ ~flags.stopping
    BY <2>1 DEF Onward
  <2>3. Wants(killer.who)' = Wants(killer.who) \/ killer.stage = "none"
    BY DEF Known, ThreadTypes, Terminating, Onward, Others, Wants, Thread
  <2> QED
    BY <2>2, <2>3 DEF Known, Terminating, Others, Alike
<1>5. Usable'
  BY <1>1 DEF Known, Usable, Others, Alike, Onward, ShuttingDown
<1>6. CodesSound'
  BY DEF CodesSound, Onward
<1> QED
  BY <1>2, <1>3, <1>4, <1>5, <1>6 DEF Known

LEMMA OnlyStarted ==
  ASSUME Known, operator.pc \in Handshake \cup Serving \cup {"spawn", "commit", "term"}
  PROVE  flags.started
BY DEF Known, Unspawned, Handshake, Serving

LEMMA StillAlike ==
  ASSUME flags \in Flags PROVE Alike(flags, [flags EXCEPT !.deferred = flags.deferred]) /\ Alike(flags, flags)
BY DEF Alike, Flags

LEMMA FailsOK ==
  ASSUME RuntimeInv, Fails(flags), UNCHANGED Others, UNCHANGED <<count, outcome, granted>>, flags.started,
         operator.pc \in Handshake \cup Serving \cup {"begin", "commit"}
  PROVE  Known' /\ RequestsCounted'
<1>1. flags \in Flags /\ Known /\ operator.pc # "term"
  BY DEF RuntimeInv, RuntimeTypes, ThreadTypes, Known, Handshake, Serving
<1> QED
  BY <1>1, StillAlike, FailsKeeps, FailsCounted DEF RuntimeInv

\* A request that goes on is still the one that is counted.
LEMMA SameCounted ==
  ASSUME RequestsCounted, UNCHANGED <<count, outcome>>, operator'.req = operator.req,
         \A r \in Request : r > count.requests => granted'[r] = granted[r],
         operator'.pc = "begin" => operator.pc = "begin",
         operator'.pc \in Handshake \cup {"spawn", "begin", "close"} =>
           operator.pc \in Handshake \cup {"spawn", "begin", "close"},
         operator'.pc \in Serving \cup {"commit"} =>
           \/ operator.pc \in Serving \cup {"commit"}
           \/ operator.pc = "term" /\ operator.then = "commit",
         operator'.pc = "term" =>
           (operator.req # 0 /\ operator.pc \in Serving) \/ operator'.then \in {"leave", "done"},
         operator'.pc = "settle" => Unsettled \/ operator.req = 0
  PROVE  RequestsCounted'
<1>1. Unsettled' => Unsettled
  BY DEF RequestsCounted, Unsettled
<1> QED
  BY <1>1 DEF RequestsCounted, Unsettled, Handshake, Serving

LEMMA CheckKeeps ==
  ASSUME RuntimeInv, CheckTransport
  PROVE  Known' /\ RequestsCounted'
<1>0. /\ ThreadTypes /\ Usable /\ Known /\ RequestsCounted /\ operator.pc \in {"hello?", "check"}
      /\ UNCHANGED Others /\ UNCHANGED <<count, outcome, granted>>
  BY DEF RuntimeInv, RuntimeTypes, Known, CheckTransport, Others, childVars, tallyVars, Waits
<1>1. operator.pc \in Handshake \cup Serving /\ flags.started
  BY <1>0, OnlyStarted DEF Handshake, Serving
<1>2. CASE Fails(flags)
  BY <1>0, <1>1, <1>2, FailsOK
<1>3. CASE Still /\ operator.pc = "hello?" /\ Goes("hello")
  BY <1>0, <1>1, <1>3, GoesKeeps, SameCounted DEF Still, Goes, Onward, ShuttingDown, Handshake, Serving
<1>4. CASE Still /\ operator.pc = "check" /\ Goes("get")
  BY <1>0, <1>1, <1>4, GoesKeeps, SameCounted DEF Still, Goes, Onward, ShuttingDown, Handshake, Serving
<1> QED
  BY <1>0, <1>2, <1>3, <1>4, CheckDoes

LEMMA TimesOutKeeps ==
  ASSUME RuntimeInv, GetTimesOut
  PROVE  Known' /\ RequestsCounted'
<1>0. /\ ThreadTypes /\ Usable /\ Known /\ operator.pc \in Handshake \cup Serving
      /\ UNCHANGED Others /\ UNCHANGED <<count, outcome, granted>>
  BY DEF RuntimeInv, RuntimeTypes, Known, GetTimesOut, Others, childVars, tallyVars, Handshake, Serving
<1> QED
  BY <1>0, OnlyStarted, GetTimesOutDoes, FailsOK

LEMMA GetKeeps ==
  ASSUME RuntimeInv, Get
  PROVE  Known' /\ RequestsCounted'
<1>0. /\ ThreadTypes /\ ChildTypes /\ Usable /\ Known /\ RequestsCounted /\ operator.pc \in {"hello", "get"}
      /\ UNCHANGED Others /\ UNCHANGED <<count, outcome, granted>>
  BY DEF RuntimeInv, RuntimeTypes, Known, Get, Others, childVars, tallyVars
<1>1. operator.pc \in Handshake \cup Serving /\ flags.started
  BY <1>0, OnlyStarted DEF Handshake, Serving
<1>2. CASE Fails(flags)
  BY <1>0, <1>1, <1>2, FailsOK
<1>3. CASE Still /\ operator.pc = "hello" /\ Goes("shaken")
  BY <1>0, <1>1, <1>3, GoesKeeps, SameCounted DEF Still, Goes, Onward, ShuttingDown, Handshake, Serving
<1>4. ASSUME Still, operator.pc = "get", NEW pc \in {"handle", "finish", "refused"}, Goes(pc)
      PROVE  Known' /\ RequestsCounted'
  BY <1>0, <1>1, <1>4, GoesKeeps, SameCounted DEF Still, Goes, Onward, ShuttingDown, Handshake, Serving
<1> QED
  BY <1>0, <1>2, <1>3, <1>4, GetDoes

LEMMA ShakenKeeps ==
  ASSUME RuntimeInv, Shaken
  PROVE  Known' /\ RequestsCounted'
<1>0. /\ ThreadTypes /\ Usable /\ Known /\ RequestsCounted /\ operator.pc = "shaken"
      /\ UNCHANGED Others /\ UNCHANGED <<count, outcome, granted>>
  BY DEF RuntimeInv, RuntimeTypes, Known, Shaken, Others, childVars, tallyVars
<1>1. operator.pc \in Handshake /\ flags.started
  BY <1>0, OnlyStarted DEF Handshake
<1>2. CASE Fails(flags)
  BY <1>0, <1>1, <1>2, FailsOK
<1>3. CASE flags.fault = "none" /\ Goes("leave") /\ flags' \in Flags /\ Alike(flags', flags) /\ flags'.usable
  <2>1. RequestsCounted'
    BY <1>0, <1>1, <1>3, SameCounted DEF Goes, Handshake, Serving
  <2>2. ThreadTypes'
    BY <1>0, <1>3 DEF ThreadTypes, Goes, Others
  <2>3. flags.handle /\ ~flags.stopping /\ reader.pc = "read" /\ ~flags.expected /\ ~flags.deferred
    BY <1>0, <1>1, <1>3 DEF Known, Unspawned, Terminating, Usable
  <2>4. Unspawned' /\ Usable'
    BY <1>0, <1>1, <1>3, <2>3 DEF Known, Unspawned, Usable, Goes, Others, Alike, Handshake, Serving
  <2>5. Terminating' /\ CodesSound'
    BY <1>0, <1>1, <1>3, <2>3 DEF Known, ThreadTypes, Terminating, CodesSound, Goes, Others, Alike, Wants, Handshake, Serving
  <2> QED
    BY <2>1, <2>2, <2>4, <2>5 DEF Known
<1> QED
  BY <1>0, <1>2, <1>3, ShakenDoes

LEMMA BeginKeeps ==
  ASSUME RuntimeInv, BeginInvoke
  PROVE  Known' /\ RequestsCounted'
<1>0. /\ ThreadTypes /\ TallyTypes /\ Usable /\ Known /\ RequestsCounted /\ operator.pc = "begin"
      /\ UNCHANGED Others /\ UNCHANGED <<outcome, granted>>
  BY DEF RuntimeInv, RuntimeTypes, Known, BeginInvoke, Others, childVars, tallyVars
<1>1. CASE Fails(flags) /\ UNCHANGED count
  <2>1. flags.started
    <3>1. CASE ~flags.started
      <4>1. flags.fault = "none" /\ ~flags.overflow /\ ~flags.handle /\ ~flags.usable
        BY <1>0, <3>1 DEF Known, Unspawned, Fresh
      <4>2. Raise("crashed")
        BY <3>1, <4>1 DEF BeginInvoke
      <4> QED
        BY <1>0, <1>1, <4>2, RaiseDoes DEF Fails, Code, Error, Fault
    <3> QED
      BY <3>1
  <2> QED
    BY <1>0, <1>1, <2>1, FailsOK
<1>2. CASE /\ operator' \in Operator /\ operator'.pc = "settle" /\ operator'.req = operator.req
           /\ Still /\ UNCHANGED count
  <2>1. operator.req = 0
    BY <1>0 DEF RequestsCounted
  <2> QED
    BY <1>0, <1>2, <2>1, GoesKeeps, SameCounted DEF Still, Onward, ShuttingDown, Handshake, Serving
<1>3. CASE /\ flags.fault = "none" /\ flags.usable /\ flags.started /\ (life = "alive" \/ ~flags.handle)
           /\ operator' \in Operator /\ operator'.pc = "open" /\ operator'.act = operator.act
           /\ operator'.req = count.requests + 1 /\ operator'.code = operator.code /\ Still
           /\ count' \in [requests: Nat, closes: Nat, noise: Nat]
           /\ count'.requests = count.requests + 1 /\ count'.closes = count.closes
  <2>1. Known'
    BY <1>0, <1>3, GoesKeeps DEF Still, Onward, ShuttingDown, Handshake, Serving
  <2>2. /\ count.requests \in Nat /\ count.closes \in Nat /\ MaxOperations \in Nat
        /\ count.requests + count.closes < MaxOperations
    BY <1>0, RuntimeAssumption DEF TallyTypes, RequestsCounted
  <2>3. operator'.req \in Request /\ operator'.req > count.requests /\ operator'.req # 0
    BY <1>3, <2>2 DEF Request
  <2>4. outcome[operator'.req] = "none"
    BY <1>0, <2>3 DEF RequestsCounted
  <2>5. \A r \in Request : r > count'.requests => r > count.requests
    BY <1>3, <2>2 DEF Request
  <2>6. RequestsCounted'
    BY <1>0, <1>3, <2>2, <2>3, <2>4, <2>5 DEF RequestsCounted, Unsettled, Handshake, Serving
  <2> QED
    BY <2>1, <2>6
<1> QED
  BY <1>0, <1>1, <1>2, <1>3, BeginDoes

LEMMA WriteKeeps ==
  ASSUME RuntimeInv, WriteRequest \/ ReplyCall
  PROVE  Known' /\ RequestsCounted'
<1>0. /\ ThreadTypes /\ Known /\ RequestsCounted /\ operator.pc \in {"write", "reply"}
      /\ UNCHANGED Others /\ UNCHANGED <<count, outcome, granted>>
  BY DEF RuntimeInv, RuntimeTypes, Known, WriteRequest, ReplyCall, Others, childVars, tallyVars
<1>1. operator.pc \in Serving /\ flags.started
  BY <1>0, OnlyStarted DEF Serving
<1>2. CASE Fails(flags)
  BY <1>0, <1>1, <1>2, FailsOK
<1>3. CASE Goes("check") /\ Still
  BY <1>0, <1>1, <1>3, GoesKeeps, SameCounted DEF Still, Goes, Onward, ShuttingDown, Handshake, Serving
<1>4. Fails(flags) \/ (Goes("check") /\ Still)
  <2>1. CASE Fatal("timeout", flags)
    BY <1>0, <2>1, FatalFails DEF ThreadTypes, Error, Fault
  <2>2. CASE \E line : Send(line)
    BY <1>0, <2>2, SendDoes
  <2> QED
    BY <2>1, <2>2 DEF WriteRequest, ReplyCall
<1> QED
  BY <1>2, <1>3, <1>4

LEMMA OpenKeeps ==
  ASSUME RuntimeInv, OpenSession
  PROVE  Known' /\ RequestsCounted'
<1>0. /\ ThreadTypes /\ Known /\ RequestsCounted /\ operator.pc = "open"
      /\ UNCHANGED Others /\ UNCHANGED <<count, outcome, granted>>
  BY DEF RuntimeInv, RuntimeTypes, Known, OpenSession, Others, childVars, tallyVars
<1>1. operator.pc \in Serving /\ flags.started
  BY <1>0, OnlyStarted DEF Serving
<1>2. CASE Fails(flags)
  BY <1>0, <1>1, <1>2, FailsOK
<1>3. CASE Goes("write") /\ Still
  BY <1>0, <1>1, <1>3, GoesKeeps, SameCounted DEF Still, Goes, Onward, ShuttingDown, Handshake, Serving
<1>4. CASE /\ Goes("write") /\ operator.act = "shutdown" /\ flags' \in Flags /\ flags'.usable = flags.usable
           /\ flags'.expected /\ ~flags'.deferred
           /\ Alike(flags', [flags EXCEPT !.expected = flags'.expected, !.deferred = flags'.deferred])
  <2>1. /\ flags'.started /\ flags'.handle = flags.handle /\ flags'.stopping = flags.stopping
        /\ flags'.closedOut = flags.closedOut /\ flags'.fault = flags.fault
    BY <1>0, <1>1, <1>4 DEF Alike, ThreadTypes, Flags
  <2>2. RequestsCounted'
    BY <1>0, <1>1, <1>4, SameCounted DEF Goes, Handshake, Serving
  <2>3. ThreadTypes' /\ CodesSound'
    BY <1>0, <1>4 DEF ThreadTypes, Goes, Others, CodesSound
  <2>4. Unspawned' /\ Terminating'
    BY <1>0, <1>4, <2>1 DEF Known, ThreadTypes, Unspawned, Terminating, Goes, Others, Wants, Handshake, Serving, Thread
  <2>5. Usable'
    BY <1>0, <1>4, <2>1 DEF Known, Usable, Goes, Others, ShuttingDown, Handshake, Serving
  <2> QED
    BY <2>2, <2>3, <2>4, <2>5 DEF Known
<1> QED
  BY <1>0, <1>2, <1>3, <1>4, OpenDoes

LEMMA HandleDoes ==
  ASSUME ThreadTypes, TallyTypes, operator.req \in Request, HandleCall
  PROVE  /\ Goes("reply") /\ UNCHANGED flags
         /\ \E staged \in {0, 1} :
              /\ granted' = [granted EXCEPT ![operator.req] = granted[operator.req] + staged]
              /\ session' \in [state: {"none", "open", "committed", "aborted"}, calls: Nat, outbox: Nat]
              /\ session'.outbox = session.outbox + staged /\ session'.state = session.state
<1>1. PICK staged \in {0, 1} :
        /\ session' = [session EXCEPT !.outbox = @ + staged,
                         !.calls = IF @ < MaxCalls THEN @ + 1 ELSE @]
        /\ granted' = [granted EXCEPT ![operator.req] = @ + staged]
  BY DEF HandleCall
<1> DEFINE n == session.outbox + staged
           k == IF session.calls < MaxCalls THEN session.calls + 1 ELSE session.calls
<1>2. n \in Nat /\ k \in Nat
  BY DEF TallyTypes
<1>3. session' = [session EXCEPT !.outbox = n, !.calls = k]
  BY <1>1 DEF TallyTypes
<1> HIDE DEF k
<1>4. /\ session' \in [state: {"none", "open", "committed", "aborted"}, calls: Nat, outbox: Nat]
      /\ session'.outbox = n /\ session'.state = session.state
  BY <1>2, <1>3 DEF TallyTypes
<1>5. granted' = [granted EXCEPT ![operator.req] = granted[operator.req] + staged]
  BY <1>1 DEF TallyTypes
<1>6. Goes("reply") /\ UNCHANGED flags
  BY GoesTo DEF HandleCall, Goes, OperatorAt, Serving
<1> QED
  BY <1>4, <1>5, <1>6

LEMMA OfRequest ==
  ASSUME RequestsCounted, TallyTypes, operator.req # 0
  PROVE  operator.req \in Request /\ operator.req = count.requests
BY RuntimeAssumption DEF RequestsCounted, TallyTypes, Request

LEMMA HandleKeeps ==
  ASSUME RuntimeInv, HandleCall
  PROVE  Known' /\ RequestsCounted'
<1>0. /\ ThreadTypes /\ TallyTypes /\ Known /\ RequestsCounted /\ operator.pc = "handle"
      /\ UNCHANGED Others /\ UNCHANGED <<count, outcome>>
  BY DEF RuntimeInv, RuntimeTypes, Known, HandleCall, Others, childVars, tallyVars
<1>1. operator.pc \in Serving /\ flags.started
  BY <1>0, OnlyStarted DEF Serving
<1>2. operator.req \in Request /\ operator.req = count.requests
  BY <1>0, <1>1, OfRequest DEF RequestsCounted
<1>3. Goes("reply") /\ Still
  BY <1>0, <1>2, HandleDoes, SameStill
<1>4. \A r \in Request : r > count.requests => granted'[r] = granted[r]
  <2>1. PICK staged \in {0, 1} :
          granted' = [granted EXCEPT ![operator.req] = granted[operator.req] + staged]
    BY <1>0, <1>2, HandleDoes
  <2> QED
    BY <1>0, <1>2, <2>1 DEF TallyTypes, Request
<1> QED
  BY <1>0, <1>1, <1>3, <1>4, GoesKeeps, SameCounted DEF Still, Goes, Onward, ShuttingDown, Handshake, Serving

LEMMA FinishKeeps ==
  ASSUME RuntimeInv, Finish
  PROVE  Known' /\ RequestsCounted'
<1>0. /\ ThreadTypes /\ Known /\ RequestsCounted /\ operator.pc = "finish"
      /\ UNCHANGED Others /\ UNCHANGED <<count, outcome, granted>>
  BY DEF RuntimeInv, RuntimeTypes, Known, Finish, Others, childVars, tallyVars
<1>1. operator.pc \in Serving /\ flags.started /\ flags \in Flags
  BY <1>0, OnlyStarted DEF Serving, ThreadTypes
<1>2. ASSUME NEW f \in Flags, Fails(f), Alike(f, [flags EXCEPT !.deferred = f.deferred])
      PROVE  Known' /\ RequestsCounted'
  BY <1>0, <1>1, <1>2, FailsKeeps, FailsCounted
<1>3. CASE /\ operator.act = "shutdown" /\ flags' \in Flags /\ flags'.usable = flags.usable
           /\ Alike(flags', [flags EXCEPT !.deferred = FALSE])
           /\ operator' \in Operator /\ operator'.pc = "term" /\ operator'.then = "commit"
           /\ operator'.req = operator.req
  <2>1. /\ flags'.started /\ flags'.handle = flags.handle /\ flags'.stopping = flags.stopping
        /\ flags'.closedOut = flags.closedOut /\ flags'.fault = flags.fault
    BY <1>1, <1>3 DEF Alike, Flags
  <2>2. RequestsCounted'
    BY <1>0, <1>1, <1>3, SameCounted DEF RequestsCounted, Handshake, Serving
  <2>3. ThreadTypes' /\ CodesSound'
    BY <1>0, <1>3 DEF ThreadTypes, Others, CodesSound
  <2>4. Unspawned' /\ Terminating'
    BY <1>0, <1>3, <2>1 DEF Known, ThreadTypes, Unspawned, Terminating, Others, Wants, Handshake, Serving, Thread
  <2>5. Usable'
    BY <1>0, <1>3, <2>1 DEF Known, Usable, Others, Handshake, Serving
  <2> QED
    BY <2>2, <2>3, <2>4, <2>5 DEF Known
<1>4. CASE operator.act = "work" /\ Goes("commit") /\ Still
  BY <1>0, <1>1, <1>4, GoesKeeps, SameCounted DEF Still, Goes, Onward, ShuttingDown, Handshake, Serving
<1> QED
  BY <1>0, <1>2, <1>3, <1>4, FinishDoes

LEMMA RefusedKeeps ==
  ASSUME RuntimeInv, Refused
  PROVE  Known' /\ RequestsCounted'
<1>0. /\ ThreadTypes /\ Known /\ RequestsCounted /\ operator.pc = "refused"
      /\ UNCHANGED Others /\ UNCHANGED <<count, outcome, granted>>
  BY DEF RuntimeInv, RuntimeTypes, Known, Refused, Others, childVars, tallyVars
<1>1. operator.pc \in Serving /\ flags.started
  BY <1>0, OnlyStarted DEF Serving
<1>2. /\ operator' \in Operator /\ operator'.pc = "settle" /\ operator'.req = operator.req
      /\ operator'.act = operator.act /\ operator'.code = "refused" /\ flags' \in Flags
      /\ flags'.started /\ flags'.handle = flags.handle
      /\ flags'.stopping = flags.stopping /\ flags'.closedOut = flags.closedOut
  BY <1>0, <1>1, RefusedDoes
<1>3. RequestsCounted'
  BY <1>0, <1>1, <1>2, SameCounted DEF RequestsCounted, Unsettled, Handshake, Serving
<1>4. CASE operator.act # "shutdown"
  BY <1>0, <1>1, <1>2, <1>3, <1>4, RefusedDoes, GoesKeeps DEF Still, Onward, ShuttingDown, Handshake, Serving
<1>5. CASE operator.act = "shutdown"
  <2>1. ThreadTypes' /\ CodesSound'
    BY <1>0, <1>2 DEF ThreadTypes, Others, CodesSound
  <2>2. /\ ~flags'.expected /\ ~flags'.deferred
        /\ \/ flags'.fault = "crashed" /\ ~flags'.usable
           \/ flags'.fault = flags.fault /\ flags'.usable = flags.usable /\ (flags.fault = "none" => ~flags.deferred)
    BY <1>0, <1>5, RefusedDoes
  <2>3. Unspawned' /\ Terminating'
    BY <1>0, <1>2, <2>2 DEF Known, ThreadTypes, Unspawned, Terminating, Others, Wants, Handshake, Serving, Thread
  <2>4. Usable'
    BY <1>0, <1>2, <2>2 DEF Known, Usable, Others, Handshake, Serving
  <2> QED
    BY <1>3, <2>1, <2>3, <2>4 DEF Known
<1> QED
  BY <1>4, <1>5

LEMMA CommitKeeps ==
  ASSUME RuntimeInv, Commit
  PROVE  Known' /\ RequestsCounted'
<1>0. /\ ThreadTypes /\ TallyTypes /\ Known /\ RequestsCounted /\ operator.pc = "commit"
      /\ UNCHANGED Others /\ UNCHANGED <<count, granted>>
  BY DEF RuntimeInv, RuntimeTypes, Known, Commit, Others, childVars
<1>1. flags.started
  BY <1>0, OnlyStarted
<1>2. CASE Fails(flags) /\ UNCHANGED outcome
  BY <1>0, <1>1, <1>2, FailsOK
<1>3. CASE Goes("leave") /\ Still /\ outcome' = [outcome EXCEPT ![operator.req] = "ok"]
  <2>1. Known'
    BY <1>0, <1>1, <1>3, GoesKeeps DEF Still, Goes, Onward, ShuttingDown, Handshake, Serving
  <2>2. operator.req \in Request /\ operator.req = count.requests
    BY <1>0, OfRequest DEF RequestsCounted
  <2>3. \A r \in Request : r > count.requests => outcome'[r] = outcome[r]
    BY <1>0, <1>3, <2>2 DEF TallyTypes, Request
  <2>4. RequestsCounted'
    BY <1>0, <1>3, <2>3 DEF RequestsCounted, Unsettled, Goes, Handshake, Serving
  <2> QED
    BY <2>1, <2>4
<1> QED
  BY <1>0, <1>2, <1>3, CommitDoes

LEMMA SettleKeeps ==
  ASSUME RuntimeInv, SettleFailure
  PROVE  Known' /\ RequestsCounted'
<1>0. /\ ThreadTypes /\ TallyTypes /\ Known /\ RequestsCounted /\ operator.pc = "settle"
      /\ UNCHANGED Others /\ UNCHANGED <<count, granted, flags>>
      /\ operator' = [operator EXCEPT !.pc = "leave"]
      /\ outcome' = IF operator.req = 0 THEN outcome ELSE [outcome EXCEPT ![operator.req] = operator.code]
  BY DEF RuntimeInv, RuntimeTypes, Known, SettleFailure, Others, childVars
<1>1. Goes("leave") /\ Still
  BY <1>0, GoesTo, SameStill DEF Goes, OperatorAt
<1>2. Known'
  BY <1>0, <1>1, GoesKeeps DEF Still, Goes, Onward, ShuttingDown, Handshake, Serving
<1>3. \A r \in Request : r > count.requests => outcome'[r] = outcome[r]
  BY <1>0, OfRequest DEF TallyTypes, Request
<1>4. RequestsCounted'
  BY <1>0, <1>1, <1>3 DEF RequestsCounted, Unsettled, Goes, Handshake, Serving
<1> QED
  BY <1>2, <1>4

LEMMA SpawnKeeps ==
  ASSUME RuntimeInv, Spawn
  PROVE  Known' /\ RequestsCounted'
<1>0. /\ ThreadTypes /\ TallyTypes /\ Known /\ RequestsCounted /\ operator.pc = "spawn" /\ Fresh
      /\ UNCHANGED <<guard, killer, brood, worker, count, outcome, granted>>
      /\ operator.req = 0
  BY DEF RuntimeInv, RuntimeTypes, Known, Spawn, childVars, tallyVars, Unspawned, RequestsCounted
<1>1. /\ life' = "alive" /\ flags' \in Flags
      /\ Alike(flags', [flags EXCEPT !.handle = TRUE])
      /\ operator' \in Operator /\ operator'.req = operator.req /\ operator'.act = operator.act
      /\ \/ /\ operator'.pc = "term" /\ operator'.then \in {"raise", "fatal"}
            /\ operator'.code \in Error /\ flags'.usable \in {flags.usable, FALSE}
            /\ UNCHANGED reader
         \/ /\ operator'.pc = "hello?" /\ reader' = [reader EXCEPT !.pc = "read"]
            /\ flags'.usable = flags.usable
  BY <1>0, SpawnDoes
<1>2. flags.started
  BY <1>0, OnlyStarted
<1>3. /\ flags'.started /\ flags'.handle /\ ~flags'.stopping /\ ~flags'.expected /\ ~flags'.deferred
      /\ ~flags'.closedOut /\ flags'.fault = "none" /\ ~flags'.usable
  BY <1>0, <1>1, <1>2 DEF Alike, Flags, ThreadTypes, Fresh
<1>4. /\ ThreadTypes' /\ (operator'.pc # "term" => reader'.pc = "read")
      /\ reader'.pc \notin {"schedule", "term"}
  BY <1>0, <1>1 DEF ThreadTypes, Fresh
<1>5. Unspawned'
  BY <1>1, <1>3, <1>4 DEF Unspawned, Handshake
<1>6. Terminating'
  BY <1>0, <1>3, <1>4 DEF Known, Terminating, Fresh
<1>7. Usable' /\ CodesSound'
  BY <1>1, <1>3, <1>4 DEF Usable, CodesSound, Handshake, Serving
<1>8. RequestsCounted'
  BY <1>0, <1>1 DEF RequestsCounted, Unsettled, Handshake, Serving
<1> QED
  BY <1>4, <1>5, <1>6, <1>7, <1>8 DEF Known

LEMMA SpawnFailsKeeps ==
  ASSUME RuntimeInv, SpawnFails
  PROVE  Known' /\ RequestsCounted'
<1>0. /\ ThreadTypes /\ Known /\ RequestsCounted /\ operator.pc = "spawn" /\ operator.req = 0
      /\ UNCHANGED <<Others, count, granted, outcome, flags>> /\ Fresh /\ flags.started
  BY DEF RuntimeInv, RuntimeTypes, Known, SpawnFails, Others, childVars, tallyVars, RequestsCounted, Unspawned
<1>1. /\ operator' \in Operator /\ operator'.pc = "settle" /\ operator'.req = 0
  BY <1>0, RaiseDoes DEF SpawnFails, Code, Error
<1>2. ThreadTypes'
  BY <1>0, <1>1 DEF ThreadTypes, Others
<1>3. Unspawned' /\ Terminating'
  BY <1>0, <1>1 DEF Known, Unspawned, Terminating, Others, Fresh, Handshake, Serving
<1>4. Usable' /\ CodesSound'
  BY <1>0, <1>1 DEF Usable, CodesSound, Fresh, Others, Handshake, Serving
<1>5. RequestsCounted'
  BY <1>0, <1>1 DEF RequestsCounted, Unsettled, Handshake, Serving
<1> QED
  BY <1>2, <1>3, <1>4, <1>5 DEF Known

LEMMA StartKeeps ==
  ASSUME RuntimeInv, StartRuntime
  PROVE  Known' /\ RequestsCounted'
<1>0. /\ ThreadTypes /\ Known /\ RequestsCounted /\ operator.pc = "idle" /\ ~flags.started /\ Fresh
      /\ UNCHANGED <<Others, count, granted, outcome>>
      /\ flags' = [flags EXCEPT !.active = TRUE, !.late = FALSE, !.started = TRUE]
      /\ operator' = [Idle EXCEPT !.pc = "spawn"]
  BY DEF RuntimeInv, RuntimeTypes, Known, StartRuntime, Others, childVars, tallyVars, Unspawned
<1>1. operator' \in Operator /\ operator'.pc = "spawn" /\ operator'.req = 0
  BY <1>0, IdleTyped DEF Operator, OperatorAt
<1>2. flags' \in Flags /\ Alike(flags', [flags EXCEPT !.started = TRUE]) /\ flags'.usable = flags.usable
  BY <1>0 DEF ThreadTypes, Flags, Alike
<1>3. /\ flags'.started /\ ~flags'.handle /\ ~flags'.stopping /\ ~flags'.expected /\ ~flags'.deferred
      /\ ~flags'.closedOut /\ flags'.fault = "none" /\ ~flags'.usable /\ ~flags'.overflow
  BY <1>0, <1>2 DEF Alike, Flags, ThreadTypes, Fresh
<1>4. ThreadTypes' /\ Fresh'
  BY <1>0, <1>1, <1>2, <1>3 DEF ThreadTypes, Others, Fresh
<1>5. Unspawned' /\ Terminating' /\ Usable' /\ CodesSound'
  BY <1>0, <1>1, <1>3, <1>4
     DEF Known, Unspawned, Terminating, Usable, CodesSound, Others, Fresh, Handshake, Serving
<1>6. RequestsCounted'
  BY <1>0, <1>1 DEF RequestsCounted, Unsettled, Handshake, Serving
<1> QED
  BY <1>4, <1>5, <1>6 DEF Known

\* An operation that begins between two others.
LEMMA EntersKeeps ==
  ASSUME RuntimeInv, NEW pc \in {"begin", "close"}, NEW act \in LifecycleAction, EnterOp(pc, act),
         UNCHANGED Others
  PROVE  /\ Known' /\ operator'.pc = pc /\ operator'.req = 0
<1>0. ThreadTypes /\ Known /\ operator.pc = "idle"
  BY DEF RuntimeInv, RuntimeTypes, Known, EnterOp
<1>1. flags' \in Flags /\ Alike(flags', flags) /\ flags'.usable = flags.usable
  BY <1>0 DEF EnterOp, ThreadTypes, Flags, Alike
<1>2. operator' \in Operator /\ operator'.pc = pc /\ operator'.req = 0 /\ operator'.act = act
  BY <1>0, EnterDoes DEF EnterOp, OperatorAt
<1> QED
  BY <1>0, <1>1, <1>2, GoesKeeps DEF Onward, ShuttingDown, Handshake, Serving

LEMMA InvokeKeeps ==
  ASSUME RuntimeInv, NEW act \in LifecycleAction, Invoke(act)
  PROVE  Known' /\ RequestsCounted'
<1>1. UNCHANGED Others /\ UNCHANGED <<count, outcome, granted>> /\ RequestsCounted
      /\ count.requests + count.closes < MaxOperations
  BY DEF RuntimeInv, Invoke, Others, childVars, tallyVars
<1>2. Known' /\ operator'.pc = "begin" /\ operator'.req = 0
  BY <1>1, EntersKeeps DEF Invoke
<1>3. RequestsCounted'
  BY <1>1, <1>2 DEF RequestsCounted, Unsettled, Handshake, Serving
<1> QED
  BY <1>2, <1>3

LEMMA CloseKeeps ==
  ASSUME RuntimeInv, CloseRuntime
  PROVE  Known' /\ RequestsCounted'
<1>1. UNCHANGED Others /\ UNCHANGED <<outcome, granted>> /\ RequestsCounted /\ TallyTypes
      /\ count.requests + count.closes < MaxOperations
      /\ count' = [count EXCEPT !.closes = @ + 1]
  BY DEF RuntimeInv, RuntimeTypes, CloseRuntime, Others, childVars, tallyVars
<1>2. Known' /\ operator'.pc = "close" /\ operator'.req = 0
  BY <1>1, EntersKeeps DEF CloseRuntime, LifecycleAction
<1>3. count'.requests = count.requests /\ count'.closes = count.closes + 1
      /\ count.requests \in Nat /\ count.closes \in Nat
  BY <1>1 DEF TallyTypes
<1>4. RequestsCounted'
  BY <1>1, <1>2, <1>3, RuntimeAssumption DEF RequestsCounted, Unsettled, Handshake, Serving
<1> QED
  BY <1>2, <1>4

LEMMA CloseNowKeeps ==
  ASSUME RuntimeInv, CloseNow
  PROVE  Known' /\ RequestsCounted'
<1>0. /\ ThreadTypes /\ Known /\ RequestsCounted /\ operator.pc = "close" /\ operator.req = 0
      /\ UNCHANGED <<Others, count, granted, outcome>>
  BY DEF RuntimeInv, RuntimeTypes, Known, CloseNow, Others, childVars, tallyVars, RequestsCounted
<1>1. /\ flags' \in Flags /\ Alike(flags', flags) /\ ~flags'.usable
      /\ operator' \in Operator /\ operator'.req = 0 /\ operator'.act = operator.act
      /\ \/ operator'.pc = "leave"
         \/ operator'.pc = "term" /\ operator'.then = "leave" /\ flags.handle
  BY <1>0, CloseNowDoes DEF CloseNow
<1>2. RequestsCounted'
  BY <1>0, <1>1 DEF RequestsCounted, Unsettled, Handshake, Serving
<1>3. CASE operator'.pc = "leave"
  BY <1>0, <1>1, <1>2, <1>3, GoesKeeps DEF Onward, ShuttingDown, Handshake, Serving
<1>4. CASE operator'.pc = "term"
  <2>1. /\ flags.started /\ ThreadTypes'
    BY <1>0, <1>1, <1>4 DEF Known, ThreadTypes, Unspawned, Fresh, Others
  <2>2. /\ flags'.started /\ flags'.handle = flags.handle /\ flags'.stopping = flags.stopping
        /\ flags'.closedOut = flags.closedOut /\ flags'.fault = flags.fault
    BY <1>1, <2>1 DEF Alike
  <2>3. Unspawned' /\ Usable' /\ CodesSound'
    BY <1>0, <1>1, <1>4, <2>2 DEF Known, Unspawned, Usable, CodesSound, Others, Handshake, Serving
  <2>4. Terminating'
    BY <1>0, <1>1, <1>4, <2>1, <2>2
       DEF Known, ThreadTypes, Terminating, Others, Wants, Handshake, Serving, Thread
  <2> QED
    BY <1>2, <2>1, <2>3, <2>4 DEF Known
<1> QED
  BY <1>1, <1>3, <1>4

LEMMA LeaveKeeps ==
  ASSUME RuntimeInv, LeaveOp
  PROVE  Known' /\ RequestsCounted'
<1>0. /\ ThreadTypes /\ Known /\ RequestsCounted /\ operator.pc = "leave"
      /\ UNCHANGED <<Others, count, granted, outcome>>
      /\ flags' = [flags EXCEPT !.active = FALSE, !.late = FALSE]
      /\ operator' = [operator EXCEPT !.pc = "left"]
  BY DEF RuntimeInv, RuntimeTypes, Known, LeaveOp, Others, childVars, tallyVars
<1>1. flags' \in Flags /\ Alike(flags', flags) /\ flags'.usable = flags.usable
  BY <1>0 DEF ThreadTypes, Flags, Alike
<1>2. Goes("left")
  BY <1>0, GoesTo DEF Goes, OperatorAt
<1> QED
  BY <1>0, <1>1, <1>2, GoesKeeps, SameCounted DEF Goes, Onward, ShuttingDown, Handshake, Serving

LEMMA DeadlineKeeps ==
  ASSUME RuntimeInv, DeadlinePasses
  PROVE  Known' /\ RequestsCounted'
<1>0. /\ ThreadTypes /\ Known /\ RequestsCounted
      /\ UNCHANGED <<Others, count, granted, outcome, operator>>
      /\ flags' = [flags EXCEPT !.late = TRUE]
  BY DEF RuntimeInv, RuntimeTypes, Known, DeadlinePasses, Others, childVars, tallyVars
<1>1. flags' \in Flags /\ Alike(flags', flags) /\ flags'.usable = flags.usable
  BY <1>0 DEF ThreadTypes, Flags, Alike
<1>2. ThreadTypes' /\ Unspawned' /\ CodesSound' /\ RequestsCounted'
  BY <1>0, <1>1 DEF Known, ThreadTypes, Unspawned, CodesSound, RequestsCounted, Unsettled, Others, Alike, Fresh
<1>3. Terminating'
  BY <1>0, <1>1 DEF Known, Terminating, Wants, Others, Alike
<1>4. Usable'
  BY <1>0, <1>1 DEF Known, Usable, ShuttingDown, Others, Alike
<1> QED
  BY <1>2, <1>3, <1>4 DEF Known

LEMMA LeaveContainedKeeps ==
  ASSUME RuntimeInv, LeaveContained
  PROVE  Known' /\ RequestsCounted'
<1>0. /\ ThreadTypes /\ Known /\ RequestsCounted /\ operator.pc = "left"
      /\ UNCHANGED <<reader, killer, life, brood, worker, flags, count, granted, outcome>>
  BY DEF RuntimeInv, RuntimeTypes, Known, LeaveContained, childVars, tallyVars
<1>1. /\ guard' \in {"none", "run"} /\ (guard' # guard => guard' = "run" /\ flags.fault # "none")
      /\ operator' \in Operator
      /\ \/ operator' = Idle
         \/ /\ operator'.pc = "term" /\ operator'.then = "done" /\ UNCHANGED guard
            /\ operator'.req = operator.req /\ flags.fault # "none"
  BY <1>0, LeaveContainedDoes DEF LeaveContained
<1>2. Idle.pc = "idle" /\ Idle.req = 0
  BY IdleTyped
<1>3. flags.fault # "none" => flags.started /\ ~flags.usable
  BY <1>0 DEF Known, Unspawned, Usable, Fresh
<1>4. ThreadTypes' /\ CodesSound'
  BY <1>0, <1>1, <1>2 DEF ThreadTypes, CodesSound
<1>5. RequestsCounted'
  BY <1>0, <1>1, <1>2 DEF RequestsCounted, Unsettled, Handshake, Serving
<1>6. Unspawned'
  BY <1>0, <1>1, <1>2, <1>3 DEF Known, Unspawned, Fresh, Handshake
<1>7. Terminating'
  BY <1>0, <1>1, <1>2 DEF Known, ThreadTypes, Terminating, Wants, Handshake, Serving, Thread
<1>8. Usable'
  BY <1>0, <1>1, <1>2, <1>3 DEF Known, Usable, ShuttingDown, Handshake, Serving
<1> QED
  BY <1>4, <1>5, <1>6, <1>7, <1>8 DEF Known

-----------------------------------------------------------------------------
(* The reader.                                                             *)
OperatorStays == UNCHANGED <<operator, killer, life, brood, worker, count, outcome, granted>>

LEMMA StaysCounted ==
  ASSUME RequestsCounted, UNCHANGED <<operator, count, outcome, granted>>
  PROVE  RequestsCounted'
BY DEF RequestsCounted, Unsettled

\* The reader runs only once a process was spawned.
LEMMA ReaderStarted ==
  ASSUME Known, reader.pc # "off" \/ life # "none" \/ killer.stage # "none" \/ guard = "run" \/ brood
  PROVE  flags.started /\ operator.pc # "spawn"
BY DEF Known, Unspawned, Fresh

LEMMA ObserveKeeps ==
  ASSUME RuntimeInv, OperatorStays, UNCHANGED guard, reader.pc \in {"read", "put"},
         NEW code \in Fault, NEW last \in {"none", "eof", "long"}, ObserveFault(code, last)
  PROVE  Known' /\ RequestsCounted'
<1>0. ThreadTypes /\ Known /\ RequestsCounted
  BY DEF RuntimeInv, RuntimeTypes, Known
<1>1. flags.started /\ operator.pc # "spawn"
  BY <1>0, ReaderStarted
<1>2. /\ flags' \in Flags /\ flags'.started = flags.started /\ flags'.handle = flags.handle
      /\ flags'.stopping = flags.stopping /\ flags'.expected = flags.expected
      /\ flags'.deferred = flags.deferred /\ flags'.closedOut = flags.closedOut
      /\ flags.fault # "none" => flags'.fault # "none"
      /\ reader' \in [pc: {"schedule", "put"}, last: {"none", "eof", "long"}]
      /\ reader'.pc = "schedule" => flags'.fault # "none"
      /\ flags'.fault # "none" \/ flags.stopping
  BY <1>0, ObserveDoes
<1>3. ~flags'.usable
  BY <1>0, ObserveDoes DEF Known, Usable
<1>4. operator.pc \in Handshake \cup Serving => flags'.fault # "none"
  BY <1>0, <1>2 DEF Known, Terminating
<1>5. ThreadTypes'
  BY <1>0, <1>2 DEF ThreadTypes, OperatorStays
<1>6. Unspawned'
  BY <1>0, <1>1, <1>2 DEF Known, Unspawned, OperatorStays
<1>7. Terminating'
  BY <1>0, <1>2, <1>4 DEF Known, ThreadTypes, Terminating, Wants, OperatorStays, Thread
<1>8. Usable' /\ CodesSound'
  BY <1>0, <1>2, <1>3, <1>4 DEF Known, Usable, CodesSound, OperatorStays
<1>9. RequestsCounted'
  BY <1>0, StaysCounted DEF OperatorStays
<1> QED
  BY <1>5, <1>6, <1>7, <1>8, <1>9 DEF Known

LEMMA ReadLineKeeps ==
  ASSUME RuntimeInv, ReadLine
  PROVE  Known' /\ RequestsCounted'
<1>0. /\ ThreadTypes /\ Known /\ RequestsCounted /\ OperatorStays /\ UNCHANGED guard
      /\ reader.pc = "read"
  BY DEF RuntimeInv, RuntimeTypes, Known, ReadLine, OperatorStays, tallyVars
<1>1. CASE ObserveFault("limit", "long") \/ ObserveFault("limit", "none")
  BY <1>0, <1>1, ObserveKeeps DEF Fault
<1>2. CASE /\ UNCHANGED reader
           /\ flags' = [flags EXCEPT !.hello = @ \/ Head(stdout).kind = "hello"]
  <2>1. flags' \in Flags /\ Alike(flags', flags) /\ flags'.usable = flags.usable
    BY <1>0, <1>2 DEF ThreadTypes, Flags, Alike
  <2>2. ThreadTypes' /\ Unspawned' /\ CodesSound' /\ RequestsCounted'
    BY <1>0, <1>2, <2>1, StaysCounted
       DEF Known, ThreadTypes, Unspawned, CodesSound, OperatorStays, Alike, Fresh
  <2>3. Terminating'
    BY <1>0, <1>2, <2>1 DEF Known, Terminating, Wants, OperatorStays, Alike
  <2>4. Usable'
    BY <1>0, <1>2, <2>1 DEF Known, Usable, ShuttingDown, OperatorStays, Alike
  <2> QED
    BY <2>2, <2>3, <2>4 DEF Known
<1> QED
  BY <1>1, <1>2 DEF ReadLine

LEMMA ReadEndKeeps ==
  ASSUME RuntimeInv, ReadEnd
  PROVE  Known' /\ RequestsCounted'
<1>0. /\ ThreadTypes /\ Known /\ RequestsCounted /\ OperatorStays /\ UNCHANGED guard
      /\ reader.pc = "read"
  BY DEF RuntimeInv, RuntimeTypes, Known, ReadEnd, OperatorStays, childVars, tallyVars
<1>1. CASE ObserveFault("crashed", "eof")
  BY <1>0, <1>1, ObserveKeeps DEF Fault
<1>2. CASE /\ flags.expected /\ ~flags.stopping
           /\ flags' = [flags EXCEPT !.deferred = TRUE]
           /\ reader' = [pc |-> "put", last |-> "eof"]
  <2>1. /\ flags' \in Flags /\ flags'.deferred /\ flags'.usable = flags.usable
        /\ flags'.started = flags.started /\ flags'.handle = flags.handle
        /\ flags'.stopping = flags.stopping /\ flags'.expected = flags.expected
        /\ flags'.closedOut = flags.closedOut /\ flags'.fault = flags.fault
    BY <1>0, <1>2 DEF ThreadTypes, Flags
  <2>2. flags.started /\ operator.pc # "spawn" /\ operator.pc \notin Handshake
    BY <1>0, <1>2, ReaderStarted DEF Known, Unspawned
  <2>3. ThreadTypes' /\ Unspawned' /\ CodesSound' /\ RequestsCounted'
    BY <1>0, <1>2, <2>1, <2>2, StaysCounted DEF Known, ThreadTypes, Unspawned, CodesSound, OperatorStays
  <2>4. Terminating'
    BY <1>0, <1>2, <2>1 DEF Known, ThreadTypes, Terminating, Wants, OperatorStays, Thread
  <2>5. Usable'
    BY <1>0, <1>2, <2>1, <2>2 DEF Known, Usable, ShuttingDown, OperatorStays
  <2> QED
    BY <2>3, <2>4, <2>5 DEF Known
<1> QED
  BY <1>1, <1>2 DEF ReadEnd

LEMMA SchedulesKeeps ==
  ASSUME RuntimeInv, ReaderSchedules
  PROVE  Known' /\ RequestsCounted'
<1>0. /\ ThreadTypes /\ Known /\ RequestsCounted /\ OperatorStays
      /\ UNCHANGED flags /\ flags.fault # "none" /\ reader.pc = "schedule" /\ flags.started
      /\ operator.pc # "spawn"
  BY ReaderStarted DEF RuntimeInv, RuntimeTypes, Known, ReaderSchedules, OperatorStays,
     childVars, tallyVars, Terminating
<1>1. /\ guard' \in {guard, "run"}
      /\ reader' = [reader EXCEPT !.pc = "put"] \/ reader' = [reader EXCEPT !.pc = "term"]
  BY DEF ReaderSchedules
<1>2. ThreadTypes' /\ reader'.pc \in {"put", "term"}
  BY <1>0, <1>1 DEF ThreadTypes, OperatorStays
<1>3. Unspawned' /\ CodesSound' /\ RequestsCounted'
  BY <1>0, <1>2, StaysCounted DEF Known, Unspawned, CodesSound, OperatorStays
<1>4. Terminating'
  BY <1>0, <1>1, <1>2 DEF Known, ThreadTypes, Terminating, Wants, OperatorStays, Thread
<1>5. Usable'
  BY <1>0, <1>2 DEF Known, Usable, ShuttingDown, OperatorStays
<1> QED
  BY <1>2, <1>3, <1>4, <1>5 DEF Known

LEMMA PutsKeeps ==
  ASSUME RuntimeInv, ReaderPuts
  PROVE  Known' /\ RequestsCounted'
<1>0. /\ ThreadTypes /\ Known /\ RequestsCounted /\ OperatorStays /\ UNCHANGED guard
      /\ reader.pc = "put" /\ flags.started /\ operator.pc # "spawn"
  BY ReaderStarted DEF RuntimeInv, RuntimeTypes, Known, ReaderPuts, OperatorStays,
     childVars, tallyVars
<1>1. CASE ObserveFault("limit", "none")
  BY <1>0, <1>1, ObserveKeeps DEF Fault
<1>2. CASE /\ flags' = [flags EXCEPT !.overflow = @ \/ reader.last # "eof"]
           /\ reader' = [pc |-> "done", last |-> "none"]
  <2>1. /\ flags' \in Flags /\ flags'.deferred = flags.deferred /\ flags'.usable = flags.usable
        /\ flags'.started = flags.started /\ flags'.handle = flags.handle
        /\ flags'.stopping = flags.stopping /\ flags'.expected = flags.expected
        /\ flags'.closedOut = flags.closedOut /\ flags'.fault = flags.fault
    BY <1>0, <1>2 DEF ThreadTypes, Flags
  <2>2. ThreadTypes' /\ Unspawned' /\ CodesSound' /\ RequestsCounted'
    BY <1>0, <1>2, <2>1, StaysCounted DEF Known, ThreadTypes, Unspawned, CodesSound, OperatorStays
  <2>3. Terminating'
    BY <1>0, <1>2, <2>1 DEF Known, ThreadTypes, Terminating, Wants, OperatorStays, Thread
  <2>4. Usable'
    BY <1>0, <1>2, <2>1 DEF Known, Usable, ShuttingDown, OperatorStays
  <2> QED
    BY <2>2, <2>3, <2>4 DEF Known
<1> QED
  BY <1>1, <1>2 DEF ReaderPuts

-----------------------------------------------------------------------------
(* The termination.                                                        *)
LEMMA WantsStarted ==
  ASSUME Known, NEW w \in Thread, Wants(w)
  PROVE  flags.started /\ operator.pc # "spawn" /\ (w # "op" => flags.fault # "none")
BY DEF Known, Unspawned, Terminating, Wants, Fresh, Thread

LEMMA ContinueKeeps ==
  ASSUME RuntimeInv, NEW w \in Thread, Wants(w), NEW sure \in BOOLEAN, NEW handle,
         Continue(w, sure, handle),
         UNCHANGED <<life, worker, count, outcome, granted>>, brood' \in BOOLEAN, brood' => brood,
         flags' \in Flags, flags'.stopping, ~flags'.usable, flags'.started = flags.started,
         flags'.fault = flags.fault, flags'.closedOut => life = "exited",
         flags'.expected => flags.expected, flags'.deferred => flags.deferred
  PROVE  Known' /\ RequestsCounted'
<1>0. ThreadTypes /\ Known /\ CodesSound /\ RequestsCounted
  BY DEF RuntimeInv, RuntimeTypes, Known
<1>1. flags.started /\ operator.pc # "spawn" /\ (w # "op" => flags.fault # "none")
  BY <1>0, WantsStarted
<1>2. /\ reader' \in [pc: {"off", "read", "schedule", "term", "put", "done"},
                      last: {"none", "eof", "long"}]
      /\ reader'.pc \in {reader.pc, "put"} /\ guard' \in {"none", "run"}
      /\ guard' \in {guard, "none"} /\ killer' = [who |-> "nobody", stage |-> "none"]
      /\ operator' \in Operator
  BY <1>0, ContinueDoes
<1>3. CASE w # "op"
  <2>1. operator' = operator
    BY <1>0, <1>3, ContinueDoes
  <2>2. ThreadTypes'
    BY <1>0, <1>2 DEF ThreadTypes
  <2>3. Unspawned'
    BY <1>0, <1>1, <1>2, <2>1 DEF Known, Unspawned
  <2>4. Terminating'
    BY <1>0, <1>1, <1>2, <1>3, <2>1 DEF Known, Terminating
  <2>5. Usable' /\ CodesSound'
    BY <1>0, <1>1, <1>3, <2>1 DEF Known, Usable, CodesSound
  <2> QED
    BY <1>0, <2>1, <2>2, <2>3, <2>4, <2>5, StaysCounted DEF Known
<1>4. CASE w = "op"
  <2>1. /\ operator'.pc \in {"settle", "commit", "leave", "idle"}
        /\ operator'.pc # "idle" => operator'.req = operator.req
        /\ operator'.pc = "settle" =>
             operator.then \in {"raise", "fatal", "commit"} /\ operator'.code \in Error
        /\ operator'.pc = "commit" => operator.then = "commit"
        /\ operator'.pc = "idle" => operator' = Idle
    BY <1>0, <1>4, ContinueDoes
  <2>2. ThreadTypes'
    BY <1>0, <1>2 DEF ThreadTypes
  <2>3. Unspawned'
    BY <1>0, <1>1, <1>2, <2>1 DEF Known, Unspawned, Handshake
  <2>4. Terminating'
    BY <1>0, <1>2, <2>1 DEF Known, Terminating, Handshake, Serving
  <2>5. Usable' /\ CodesSound'
    BY <2>1 DEF Usable, CodesSound, Handshake, Serving
  <2>6. operator.pc = "term"
    BY <1>4 DEF Wants
  <2>7. RequestsCounted'
    BY <1>0, <2>1, <2>6, IdleTyped DEF RequestsCounted, Unsettled, Handshake, Serving
  <2> QED
    BY <2>2, <2>3, <2>4, <2>5, <2>7 DEF Known
<1> QED
  BY <1>3, <1>4

LEMMA TermEnterKeeps ==
  ASSUME RuntimeInv, NEW w \in Thread, TermEnter(w)
  PROVE  Known' /\ RequestsCounted'
<1>0. /\ ThreadTypes /\ Known /\ RequestsCounted /\ Wants(w) /\ killer.who = "nobody"
      /\ UNCHANGED <<life, brood, worker, count, outcome, granted>> /\ brood \in BOOLEAN
  BY DEF RuntimeInv, RuntimeTypes, ChildTypes, Known, TermEnter, childVars, tallyVars
<1>1. /\ flags' \in Flags /\ flags'.stopping /\ ~flags'.usable /\ ~flags'.expected
      /\ ~flags'.deferred /\ flags'.started = flags.started /\ flags'.fault = flags.fault
      /\ flags'.closedOut = flags.closedOut /\ flags'.handle = flags.handle
  <2> DEFINE c == flags.closedIn \/ flags.handle
  <2>1. /\ flags \in Flags /\ c \in BOOLEAN
        /\ flags' = [flags EXCEPT !.stopping = TRUE, !.expected = FALSE, !.deferred = FALSE,
                       !.usable = FALSE, !.closedIn = c]
    BY <1>0 DEF ThreadTypes, TermEnter, Flags
  <2> HIDE DEF c
  <2> QED
    BY <2>1 DEF Flags
<1>2. flags.closedOut => life = "exited"
  BY <1>0 DEF Known, Terminating
<1>3. CASE Continue(w, TRUE, FALSE)
  BY <1>0, <1>1, <1>2, <1>3, ContinueKeeps
<1>4. CASE killer' = [who |-> w, stage |-> "signal"] /\ UNCHANGED <<operator, reader, guard>>
  <2>1. flags.started /\ operator.pc # "spawn" /\ (w # "op" => flags.fault # "none")
    BY <1>0, WantsStarted
  <2>2. w = "op" => operator.pc = "term"
    BY <1>0 DEF Wants
  <2>3. ThreadTypes' /\ RequestsCounted' /\ CodesSound'
    BY <1>0, <1>1, <1>4, StaysCounted DEF Known, ThreadTypes, CodesSound
  <2>4. Unspawned'
    BY <1>0, <1>1, <1>4, <2>1 DEF Known, Unspawned
  <2>5. Wants(killer.who)' /\ w # "nobody"
    BY <1>0, <1>4 DEF Wants, Thread
  <2>6. Terminating'
    BY <1>0, <1>1, <1>2, <1>4, <2>1, <2>2, <2>5 DEF Known, Terminating, Handshake, Serving
  <2>7. Usable'
    BY <1>1, <1>4, <2>1, <2>2 DEF Usable, Handshake, Serving
  <2> QED
    BY <2>3, <2>4, <2>6, <2>7 DEF Known
<1> QED
  BY <1>3, <1>4 DEF TermEnter

LEMMA SignalKeeps ==
  ASSUME RuntimeInv, TermSignal
  PROVE  Known' /\ RequestsCounted'
<1>0. /\ ThreadTypes /\ Known /\ RequestsCounted /\ killer.stage = "signal"
      /\ life' \in {life, "exited"} /\ killer' = [killer EXCEPT !.stage = "confirm"]
      /\ UNCHANGED <<operator, reader, guard, brood, flags, count, outcome, granted>>
  BY DEF RuntimeInv, RuntimeTypes, Known, TermSignal, Exits, tallyVars
<1>1. flags.started /\ operator.pc # "spawn"
  BY <1>0, ReaderStarted
<1>2. ThreadTypes' /\ killer'.stage = "confirm" /\ killer'.who = killer.who
  BY <1>0 DEF ThreadTypes
<1>3. Unspawned' /\ RequestsCounted' /\ CodesSound'
  BY <1>0, <1>1, <1>2, StaysCounted DEF Known, Unspawned, CodesSound
<1>4. Terminating'
  BY <1>0, <1>2 DEF Known, Terminating, Wants
<1>5. Usable'
  BY <1>0 DEF Known, Usable, ShuttingDown
<1> QED
  BY <1>2, <1>3, <1>4, <1>5 DEF Known

\* Who terminates the process has begun to, and a stopping generation is used no more.
LEMMA WhoTerminates ==
  ASSUME Known, killer.stage # "none"
  PROVE  /\ killer.who \in Thread /\ Wants(killer.who) /\ flags.stopping /\ ~flags.usable
BY DEF Known, ThreadTypes, Terminating, Usable

LEMMA ConfirmKeeps ==
  ASSUME RuntimeInv, TermConfirm
  PROVE  Known' /\ RequestsCounted'
<1>0. /\ ThreadTypes /\ Known /\ RequestsCounted /\ killer.stage = "confirm" /\ flags \in Flags
      /\ UNCHANGED <<life, worker, count, outcome, granted>> /\ brood' \in BOOLEAN /\ (brood' => brood)
  BY DEF RuntimeInv, RuntimeTypes, ThreadTypes, ChildTypes, Known, TermConfirm, tallyVars
<1>1. killer.who \in Thread /\ Wants(killer.who) /\ flags.stopping /\ ~flags.usable
  BY <1>0, WhoTerminates
<1>2. CASE /\ GroupGone(brood') /\ killer' = [killer EXCEPT !.stage = "join"]
           /\ flags' = [flags EXCEPT !.closedOut = TRUE] /\ UNCHANGED <<operator, reader, guard>>
  <2>1. /\ flags' \in Flags /\ flags'.started = flags.started /\ flags'.handle = flags.handle
        /\ flags'.stopping = flags.stopping /\ flags'.expected = flags.expected
        /\ flags'.deferred = flags.deferred /\ flags'.fault = flags.fault
        /\ ~flags'.usable /\ life = "exited" /\ ~brood'
    BY <1>0, <1>1, <1>2 DEF Flags, GroupGone
  <2>2. flags.started /\ operator.pc # "spawn"
    BY <1>0, ReaderStarted
  <2>3. ThreadTypes' /\ killer'.stage = "join" /\ killer'.who = killer.who
    BY <1>0, <1>2, <2>1 DEF ThreadTypes
  <2>4. Unspawned' /\ RequestsCounted' /\ CodesSound'
    BY <1>0, <1>2, <2>1, <2>2, StaysCounted DEF Known, Unspawned, CodesSound
  <2>5. Terminating'
    BY <1>0, <1>1, <1>2, <2>1, <2>3 DEF Known, Terminating, Wants
  <2>6. Usable'
    BY <1>0, <1>2, <2>1 DEF Known, Usable
  <2> QED
    BY <2>3, <2>4, <2>5, <2>6 DEF Known
<1>3. CASE /\ flags' = [flags EXCEPT !.confirmed = FALSE]
           /\ Continue(killer.who, FALSE, flags.handle)
  <2>1. /\ flags' \in Flags /\ flags'.started = flags.started /\ flags'.stopping
        /\ flags'.expected = flags.expected /\ flags'.deferred = flags.deferred
        /\ flags'.fault = flags.fault /\ flags'.closedOut = flags.closedOut /\ ~flags'.usable
    BY <1>0, <1>1, <1>3 DEF Flags
  <2>2. flags.closedOut => life = "exited"
    BY <1>0 DEF Known, Terminating
  <2> QED
    BY <1>0, <1>1, <1>3, <2>1, <2>2, ContinueKeeps
<1> QED
  BY <1>2, <1>3 DEF TermConfirm

LEMMA JoinKeeps ==
  ASSUME RuntimeInv, TermJoin
  PROVE  Known' /\ RequestsCounted'
<1>0. /\ ThreadTypes /\ Known /\ RequestsCounted /\ killer.stage = "join" /\ flags \in Flags
      /\ UNCHANGED <<life, worker, brood, count, outcome, granted>> /\ brood \in BOOLEAN
  BY DEF RuntimeInv, RuntimeTypes, ThreadTypes, ChildTypes, Known, TermJoin, childVars, tallyVars
<1>1. killer.who \in Thread /\ Wants(killer.who) /\ flags.stopping /\ ~flags.usable
  BY <1>0, WhoTerminates
<1>2. PICK sure \in BOOLEAN, kept \in BOOLEAN :
        /\ flags' = [flags EXCEPT !.confirmed = sure, !.handle = kept]
        /\ Continue(killer.who, sure, kept)
  BY DEF TermJoin
<1>3. /\ flags' \in Flags /\ flags'.started = flags.started /\ flags'.stopping
      /\ flags'.expected = flags.expected /\ flags'.deferred = flags.deferred
      /\ flags'.fault = flags.fault /\ flags'.closedOut = flags.closedOut /\ ~flags'.usable
  BY <1>0, <1>1, <1>2 DEF Flags
<1>4. flags.closedOut => life = "exited"
  BY <1>0 DEF Known, Terminating
<1> QED
  BY <1>0, <1>1, <1>2, <1>3, <1>4, ContinueKeeps

-----------------------------------------------------------------------------
(* The worker.                                                             *)
LEMMA ChildKeeps ==
  ASSUME RuntimeInv, ChildStep
  PROVE  Known' /\ RequestsCounted'
<1>0. Known /\ RequestsCounted /\ ThreadTypes
  BY DEF RuntimeInv, RuntimeTypes, Known
<1>1. /\ UNCHANGED <<operator, reader, guard, killer, flags, outcome, granted>>
      /\ \/ life = "alive" /\ life' \in {"alive", "exited"}
         \/ brood /\ ~brood' /\ UNCHANGED <<life, worker>>
  BY DEF ChildStep, WorkerHello, WorkerTakes, WorkerCalls, WorkerAnswered, WorkerResult, WorkerEnds,
     PluginMisbehaves, BroodEnds, ParentVars, tallyVars, WorkerUp, Exits
<1>2. count'.requests = count.requests /\ count'.closes = count.closes
  <2>1. CASE UNCHANGED count
    BY <2>1
  <2>2. CASE PluginMisbehaves
    BY <2>2 DEF PluginMisbehaves, RuntimeInv, RuntimeTypes, TallyTypes
  <2> QED
    BY <2>1, <2>2 DEF ChildStep, WorkerHello, WorkerTakes, WorkerCalls, WorkerAnswered, WorkerResult,
       WorkerEnds, BroodEnds
<1>3. flags.started /\ operator.pc # "spawn"
  BY <1>0, <1>1, ReaderStarted
<1>4. ThreadTypes' /\ CodesSound' /\ RequestsCounted'
  BY <1>0, <1>1, <1>2 DEF Known, ThreadTypes, CodesSound, RequestsCounted, Unsettled
<1>5. Unspawned'
  BY <1>0, <1>1, <1>3 DEF Known, Unspawned
<1>6. Terminating'
  BY <1>0, <1>1 DEF Known, Terminating, Wants
<1>7. Usable'
  BY <1>0, <1>1 DEF Known, Usable, ShuttingDown
<1> QED
  BY <1>4, <1>5, <1>6, <1>7 DEF Known

-----------------------------------------------------------------------------
(* The child, the pipes and the tallies keep their types.                  *)
LEMMA PrintedTyped ==
  /\ Hello \in Printed
  /\ \A r \in Nat : CallOf(r) \in Printed
  /\ \A r \in Nat, ok \in BOOLEAN : ResultOf(r, ok) \in Printed
  /\ \A kind \in {"garbage", "long"} : [kind |-> kind] \in Printed
BY DEF Hello, CallOf, ResultOf, Printed

LEMMA PrintsTyped ==
  ASSUME stdout \in Seq(Printed), NEW line \in Printed, Prints(line)
  PROVE  stdout' \in Seq(Printed)
BY DEF Prints

LEMMA AtRestTyped ==
  AtRest \in [pc: {"starting", "idle", "busy", "calling", "exiting"}, req: Nat, act: LifecycleAction]
BY DEF AtRest, LifecycleAction

LEMMA NoLineTyped ==
  NoLine \in [kind: LifecycleAction \cup {"none", "reply"}, req: Nat]
BY DEF NoLine

LEMMA ChildStepTyped ==
  ASSUME ChildTypes, ChildStep
  PROVE  ChildTypes'
<1>0. /\ life \in {"none", "alive", "exited"} /\ brood \in BOOLEAN
      /\ worker \in [pc: {"starting", "idle", "busy", "calling", "exiting"}, req: Nat,
                     act: LifecycleAction]
      /\ stdin \in [kind: LifecycleAction \cup {"none", "reply"}, req: Nat]
      /\ stdout \in Seq(Printed) /\ queue \in Seq(Queued) /\ worker.req \in Nat
      /\ UNCHANGED queue
  BY DEF ChildTypes, ChildStep, WorkerHello, WorkerTakes, WorkerCalls, WorkerAnswered, WorkerResult,
     WorkerEnds, PluginMisbehaves, BroodEnds, ParentVars
<1>1. CASE WorkerHello
  BY <1>0, <1>1, PrintedTyped, PrintsTyped, AtRestTyped DEF WorkerHello, ChildTypes
<1>2. CASE WorkerTakes
  BY <1>0, <1>2, NoLineTyped DEF WorkerTakes, ChildTypes
<1>3. CASE WorkerCalls
  BY <1>0, <1>3, PrintedTyped, PrintsTyped DEF WorkerCalls, ChildTypes
<1>4. CASE WorkerAnswered
  BY <1>0, <1>4, PrintedTyped, PrintsTyped, AtRestTyped, NoLineTyped DEF WorkerAnswered, ChildTypes
<1>5. ASSUME NEW ok \in BOOLEAN, WorkerResult(ok) PROVE ChildTypes'
  <2>1. stdout' \in Seq(Printed)
    BY <1>0, <1>5, PrintedTyped, PrintsTyped DEF WorkerResult
  <2> QED
    BY <1>0, <1>5, <2>1, AtRestTyped DEF WorkerResult, ChildTypes
<1>6. CASE WorkerEnds
  BY <1>0, <1>6, AtRestTyped, NoLineTyped DEF WorkerEnds, Exits, ChildTypes
<1>7. CASE PluginMisbehaves
  BY <1>0, <1>7, PrintedTyped, PrintsTyped DEF PluginMisbehaves, ChildTypes
<1>8. CASE BroodEnds
  BY <1>0, <1>8 DEF BroodEnds, ChildTypes
<1> QED
  BY <1>1, <1>2, <1>3, <1>4, <1>5, <1>6, <1>7, <1>8 DEF ChildStep

LEMMA ReaderTyped ==
  ASSUME ThreadTypes, ChildTypes, ReaderStep
  PROVE  ChildTypes'
<1>0. /\ stdout \in Seq(Printed) /\ queue \in Seq(Queued) /\ UNCHANGED <<life, brood, worker, stdin>>
  BY DEF ChildTypes, ReaderStep, ReadLine, ReadEnd, ReaderSchedules, ReaderPuts, childVars
<1>1. CASE ReadLine
  <2>1. Head(stdout) \in Queued /\ Tail(stdout) \in Seq(Printed)
    BY <1>0, <1>1 DEF ReadLine, Queued
  <2>2. queue' = queue \/ queue' = Append(queue, Head(stdout))
    BY <1>1 DEF ReadLine
  <2>3. queue' \in Seq(Queued)
    BY <1>0, <2>1, <2>2
  <2>4. stdout' \in Seq(Printed)
    BY <1>1, <2>1 DEF ReadLine
  <2> QED
    BY <1>0, <2>3, <2>4 DEF ChildTypes
<1>2. CASE ReadEnd \/ ReaderSchedules
  BY <1>0, <1>2 DEF ReadEnd, ReaderSchedules, ChildTypes, childVars
<1>3. CASE ReaderPuts
  <2>1. /\ queue' = queue \/ (reader.last # "none" /\ queue' = Append(queue, [kind |-> reader.last]))
        /\ UNCHANGED stdout
    BY <1>3 DEF ReaderPuts, childVars
  <2>2. reader.last # "none" => [kind |-> reader.last] \in Queued
    BY DEF ThreadTypes, Queued, Printed
  <2>3. queue' \in Seq(Queued)
    BY <1>0, <2>1, <2>2
  <2> QED
    BY <1>0, <2>1, <2>3 DEF ChildTypes
<1> QED
  BY <1>1, <1>2, <1>3 DEF ReaderStep

LEMMA TermTyped ==
  ASSUME ChildTypes, TermStep
  PROVE  ChildTypes'
<1>1. ASSUME NEW w \in Thread, TermEnter(w) PROVE ChildTypes'
  BY <1>1 DEF TermEnter, ChildTypes, childVars
<1>2. CASE TermSignal
  BY <1>2, AtRestTyped, NoLineTyped DEF TermSignal, Exits, ChildTypes
<1>3. CASE TermConfirm
  <2>1. stdout' \in {stdout, <<>>} /\ UNCHANGED <<life, worker, stdin, queue>> /\ brood' \in BOOLEAN
    BY <1>3 DEF TermConfirm, ChildTypes
  <2>2. <<>> \in Seq(Printed)
    OBVIOUS
  <2> QED
    BY <2>1, <2>2 DEF ChildTypes
<1>4. CASE TermJoin
  BY <1>4 DEF TermJoin, ChildTypes, childVars
<1> QED
  BY <1>1, <1>2, <1>3, <1>4 DEF TermStep

LEMMA OperatorTyped ==
  ASSUME ThreadTypes, ChildTypes,
         \/ OperatorStep \/ StartRuntime \/ CloseRuntime \/ DeadlinePasses
         \/ \E act \in LifecycleAction : Invoke(act)
  PROVE  ChildTypes'
<1>1. CASE WriteRequest \/ ReplyCall
  <2>1. operator.act \in LifecycleAction /\ operator.req \in Nat
    BY DEF ThreadTypes, Operator
  <2>2. UNCHANGED <<life, brood, worker, stdout, queue>>
    BY <1>1 DEF WriteRequest, ReplyCall
  <2>3. \/ UNCHANGED stdin
        \/ stdin' = [kind |-> operator.act, req |-> operator.req]
        \/ stdin' = [kind |-> "reply", req |-> operator.req]
    BY <1>1 DEF WriteRequest, ReplyCall, Send
  <2> QED
    BY <2>1, <2>2, <2>3 DEF ChildTypes
<1>2. CASE Get
  BY <1>2 DEF Get, ChildTypes, childVars
<1>3. CASE Spawn
  BY <1>3 DEF Spawn, ChildTypes
<1>4. CASE UNCHANGED <<childVars, queue>>
  BY <1>4 DEF ChildTypes, childVars
<1> QED
  BY <1>1, <1>2, <1>3, <1>4
     DEF OperatorStep, SpawnFails, Shaken, CheckTransport, GetTimesOut, BeginInvoke, OpenSession,
         HandleCall, Finish, Refused, Commit, SettleFailure, CloseNow, LeaveOp, LeaveContained,
         StartRuntime, CloseRuntime, DeadlinePasses, Invoke

LEMMA TallyTyped ==
  ASSUME RuntimeInv, PluginNext
  PROVE  TallyTypes'
<1>0. ThreadTypes /\ TallyTypes /\ Usable /\ RequestsCounted
  BY DEF RuntimeInv, RuntimeTypes
<1>1. operator.pc \in Serving \cup {"commit"} => operator.req \in Request
  BY <1>0, OfRequest DEF RequestsCounted
<1>2. CASE BeginInvoke
  <2>1. UNCHANGED <<session, outcome, granted, recorded>>
    BY <1>2 DEF BeginInvoke, tallyVars
  <2> QED
    BY <1>0, <1>2, <2>1, BeginDoes DEF TallyTypes
<1>3. CASE OpenSession
  <2>1. session' \in {session, [NoSession EXCEPT !.state = "open"]} /\ UNCHANGED <<outcome, granted, recorded, count>>
    BY <1>3 DEF OpenSession, tallyVars
  <2> QED
    BY <1>0, <2>1 DEF TallyTypes, NoSession
<1>4. CASE HandleCall
  <2>1. operator.req \in Request /\ UNCHANGED <<outcome, recorded, count>>
    BY <1>1, <1>4 DEF HandleCall, Serving
  <2>2. PICK staged \in {0, 1} :
          /\ granted' = [granted EXCEPT ![operator.req] = granted[operator.req] + staged]
          /\ session' \in [state: {"none", "open", "committed", "aborted"}, calls: Nat, outbox: Nat]
    BY <1>0, <1>4, <2>1, HandleDoes
  <2>3. granted' \in [Request -> Nat]
    BY <1>0, <2>1, <2>2 DEF TallyTypes
  <2> QED
    BY <1>0, <2>1, <2>2, <2>3 DEF TallyTypes
<1>5. CASE Commit
  <2>1. operator.req \in Request /\ UNCHANGED <<granted, count>>
    BY <1>1, <1>5 DEF Commit
  <2>2. CASE UNCHANGED <<session, outcome, recorded>>
    BY <1>0, <2>1, <2>2 DEF TallyTypes
  <2>3. CASE /\ recorded' = [recorded EXCEPT ![operator.req] = session.outbox]
             /\ session' = [session EXCEPT !.state = "committed", !.outbox = 0]
             /\ outcome' = [outcome EXCEPT ![operator.req] = "ok"]
    <3>1. recorded' \in [Request -> Nat]
      BY <1>0, <2>3 DEF TallyTypes
    <3>2. outcome' \in [Request -> Code \cup {"ok"}]
      BY <1>0, <2>3 DEF TallyTypes
    <3>3. session' \in [state: {"none", "open", "committed", "aborted"}, calls: Nat, outbox: Nat]
      BY <1>0, <2>3 DEF TallyTypes
    <3> QED
      BY <1>0, <2>1, <3>1, <3>2, <3>3 DEF TallyTypes
  <2> QED
    BY <1>0, <1>5, <2>2, <2>3, CommitDoes
<1>6. CASE SettleFailure
  <2>1. /\ UNCHANGED <<granted, recorded, count>> /\ operator.code \in Code
        /\ outcome' = outcome \/ outcome' = [outcome EXCEPT ![operator.req] = operator.code]
        /\ session' = session \/ session' = [session EXCEPT !.state = "aborted", !.outbox = 0]
    BY <1>0, <1>6 DEF SettleFailure, ThreadTypes, Operator
  <2>2. outcome' \in [Request -> Code \cup {"ok"}]
    BY <1>0, <2>1 DEF TallyTypes
  <2>3. session' \in [state: {"none", "open", "committed", "aborted"}, calls: Nat, outbox: Nat]
    <3>1. session \in [state: {"none", "open", "committed", "aborted"}, calls: Nat, outbox: Nat]
      BY <1>0 DEF TallyTypes
    <3>2. CASE session' = [session EXCEPT !.state = "aborted", !.outbox = 0]
      BY <3>1, <3>2
    <3> QED
      BY <2>1, <3>1, <3>2
  <2> QED
    BY <1>0, <2>1, <2>2, <2>3 DEF TallyTypes
<1>7. CASE CloseRuntime
  <2>1. /\ UNCHANGED <<session, outcome, granted, recorded>>
        /\ count' = [count EXCEPT !.closes = @ + 1]
    BY <1>7 DEF CloseRuntime, tallyVars
  <2> QED
    BY <1>0, <2>1 DEF TallyTypes
<1>8. CASE LeaveOp
  BY <1>0, <1>8 DEF LeaveOp, TallyTypes, NoSession, tallyVars
<1>9. CASE PluginMisbehaves
  <2>1. /\ UNCHANGED <<session, outcome, granted, recorded>>
        /\ count' = [count EXCEPT !.noise = @ + 1]
    BY <1>9 DEF PluginMisbehaves, ParentVars, tallyVars
  <2> QED
    BY <1>0, <2>1 DEF TallyTypes
<1>10. CASE UNCHANGED <<session, tallyVars, count>>
  BY <1>0, <1>10 DEF TallyTypes, tallyVars
<1>11. CASE OperatorStep
  BY <1>2, <1>3, <1>4, <1>5, <1>6, <1>8, <1>10, <1>11
     DEF OperatorStep, SpawnFails, Spawn, Shaken, CheckTransport, GetTimesOut, Get, WriteRequest,
         ReplyCall, Finish, Refused, CloseNow, LeaveContained
<1>12. CASE ReaderStep
  BY <1>10, <1>12 DEF ReaderStep, ReadLine, ReadEnd, ReaderSchedules, ReaderPuts
<1>13. CASE TermStep
  BY <1>10, <1>13 DEF TermStep, TermEnter, TermSignal, TermConfirm, TermJoin
<1>14. CASE ChildStep
  BY <1>9, <1>10, <1>14 DEF ChildStep, WorkerHello, WorkerTakes, WorkerCalls, WorkerAnswered,
     WorkerResult, WorkerEnds, BroodEnds, ParentVars
<1>15. CASE StartRuntime \/ DeadlinePasses \/ \E act \in LifecycleAction : Invoke(act)
  BY <1>10, <1>15 DEF StartRuntime, DeadlinePasses, Invoke
<1> QED
  BY <1>7, <1>11, <1>12, <1>13, <1>14, <1>15 DEF PluginNext

LEMMA RuntimeInitially == PluginInit => RuntimeInv
<1> SUFFICES ASSUME PluginInit PROVE RuntimeInv
  OBVIOUS
<1>1. ThreadTypes
  BY IdleTyped DEF PluginInit, ThreadTypes, Flags
<1>2. /\ life = "none" /\ brood = FALSE /\ stdin = NoLine /\ stdout = <<>> /\ queue = <<>>
      /\ worker = [pc |-> "starting", req |-> 0, act |-> "work"]
  BY DEF PluginInit, AtRest
<1>3. ChildTypes
  <2>1. <<>> \in Seq(Printed) /\ <<>> \in Seq(Queued)
    OBVIOUS
  <2>2. worker \in [pc: {"starting", "idle", "busy", "calling", "exiting"}, req: Nat,
                   act: LifecycleAction]
    BY <1>2 DEF LifecycleAction
  <2> QED
    BY <1>2, <2>1, <2>2, NoLineTyped DEF ChildTypes
<1>4. TallyTypes
  <2>1. "none" \in Code
    BY DEF Code
  <2> QED
    BY <2>1 DEF PluginInit, TallyTypes, NoSession
<1>5. Unspawned
  BY <1>2, IdleTyped DEF PluginInit, Unspawned, Fresh, Handshake
<1>6. Terminating
  BY IdleTyped DEF PluginInit, Terminating, Handshake, Serving
<1>7. Usable /\ CodesSound
  BY IdleTyped DEF PluginInit, Usable, CodesSound, Handshake, Serving
<1>8. RequestsCounted
  BY IdleTyped, RuntimeAssumption DEF PluginInit, RequestsCounted, Unsettled, Handshake, Serving, Request
<1> QED
  BY <1>1, <1>3, <1>4, <1>5, <1>6, <1>7, <1>8 DEF RuntimeInv, RuntimeTypes

LEMMA KnownKept ==
  ASSUME RuntimeInv, PluginNext
  PROVE  Known' /\ RequestsCounted'
<1>1. CASE OperatorStep
  BY <1>1, CheckKeeps, TimesOutKeeps, GetKeeps, ShakenKeeps, BeginKeeps, WriteKeeps, OpenKeeps, HandleKeeps,
     FinishKeeps, RefusedKeeps, CommitKeeps, SettleKeeps, SpawnKeeps, SpawnFailsKeeps, CloseNowKeeps,
     LeaveKeeps, LeaveContainedKeeps DEF OperatorStep
<1>2. CASE ReaderStep
  BY <1>2, ReadLineKeeps, ReadEndKeeps, SchedulesKeeps, PutsKeeps DEF ReaderStep
<1>3. CASE TermStep
  BY <1>3, TermEnterKeeps, SignalKeeps, ConfirmKeeps, JoinKeeps DEF TermStep
<1> QED
  BY <1>1, <1>2, <1>3, ChildKeeps, StartKeeps, InvokeKeeps, CloseKeeps, DeadlineKeeps DEF PluginNext

LEMMA RuntimeStep ==
  ASSUME RuntimeInv, [PluginNext]_plugVars
  PROVE  RuntimeInv'
<1>1. CASE PluginNext
  <2>1. Known' /\ RequestsCounted' /\ TallyTypes'
    BY <1>1, KnownKept, TallyTyped
  <2>2. ChildTypes'
    BY <1>1, ChildStepTyped, ReaderTyped, TermTyped, OperatorTyped DEF PluginNext, RuntimeInv, RuntimeTypes
  <2> QED
    BY <2>1, <2>2 DEF RuntimeInv, RuntimeTypes, Known
<1>2. CASE UNCHANGED plugVars
  <2>1. UNCHANGED <<operator, reader, guard, killer, life, brood, worker, stdin, stdout, queue, flags,
                    session, outcome, granted, recorded, count>>
    BY <1>2 DEF plugVars
  <2>2. RuntimeTypes'
    BY <2>1 DEF RuntimeInv, RuntimeTypes, ThreadTypes, ChildTypes, TallyTypes
  <2>3. Unspawned' /\ Terminating' /\ Usable'
    BY <2>1 DEF RuntimeInv, Unspawned, Fresh, Terminating, Wants, Usable, ShuttingDown
  <2>4. CodesSound' /\ RequestsCounted'
    BY <2>1 DEF RuntimeInv, CodesSound, RequestsCounted, Unsettled
  <2> QED
    BY <2>2, <2>3, <2>4 DEF RuntimeInv
<1> QED
  BY <1>1, <1>2

(* Whatever the threads, the clock and the worker do: who terminates the    *)
(* process has said so, a generation that serves is watched by its reader,  *)
(* and every operation that fails knows why.                                *)
THEOREM RuntimeInvariant == PluginSpec => []RuntimeInv
BY RuntimeInitially, RuntimeStep, PTL DEF PluginSpec

(* No generation looks usable between two operations while nobody reads    *)
(* what its worker prints.                                                 *)
LEMMA WatchedWhenUsable == RuntimeInv => UsableIsWatched
BY DEF RuntimeInv, Usable, UsableIsWatched, ShuttingDown, Serving

-----------------------------------------------------------------------------
(* The events of a request.                                                *)
LEMMA EventsStay ==
  ASSUME EventsInv, UNCHANGED tallyVars,
         Staging' => Staging /\ operator'.req = operator.req /\ session' = session,
         operator'.pc = "open" => operator.pc = "open" /\ operator'.req = operator.req
  PROVE  EventsInv'
BY DEF EventsInv, EventsWithSuccess, OutboxTold, tallyVars

LEMMA EventsOfOperator ==
  ASSUME RuntimeInv, EventsInv, OperatorStep
  PROVE  EventsInv'
<1>0. /\ ThreadTypes /\ ChildTypes /\ TallyTypes /\ Usable /\ CodesSound /\ RequestsCounted
      /\ count.requests \in Nat /\ granted \in [Request -> Nat] /\ recorded \in [Request -> Nat]
      /\ outcome \in [Request -> Code \cup {"ok"}]
  BY DEF RuntimeInv, RuntimeTypes, TallyTypes
<1>1. operator.pc \in Serving \cup {"commit"} => operator.req \in Request
  BY <1>0, OfRequest DEF RequestsCounted
<1>2. ASSUME NEW f, Fails(f), UNCHANGED tallyVars PROVE EventsInv'
  BY <1>2, EventsStay DEF Fails, Staging, Serving
<1>3. CASE SpawnFails
  <2>1. UNCHANGED tallyVars /\ operator'.pc = "settle"
    BY <1>0, <1>3, RaiseDoes DEF SpawnFails, Code, Error
  <2> QED
    BY <2>1, EventsStay DEF Staging, Serving
<1>4. CASE Spawn
  <2>1. UNCHANGED tallyVars
    BY <1>4 DEF Spawn
  <2>2. operator'.pc = "hello?" \/ (operator'.pc = "term" /\ operator'.then \in {"raise", "fatal"})
    BY <1>0, <1>4, SpawnDoes
  <2> QED
    BY <2>1, <2>2, EventsStay DEF Staging, Serving
<1>5. CASE Shaken
  <2>1. UNCHANGED tallyVars
    BY <1>5 DEF Shaken
  <2>2. Fails(flags) \/ Goes("leave")
    BY <1>0, <1>5, ShakenDoes
  <2> QED
    BY <1>2, <2>1, <2>2, EventsStay DEF Staging, Serving, Goes
<1>6. CASE CheckTransport
  <2>1. UNCHANGED tallyVars /\ UNCHANGED session /\ operator.pc \in {"hello?", "check"}
    BY <1>6 DEF CheckTransport, Waits
  <2>2. \/ Fails(flags)
        \/ operator.pc = "hello?" /\ Goes("hello")
        \/ operator.pc = "check" /\ Goes("get")
    BY <1>0, <1>6, <2>1, CheckDoes
  <2> QED
    BY <1>2, <2>1, <2>2, EventsStay DEF Staging, Serving, Goes
<1>7. CASE GetTimesOut
  BY <1>0, <1>2, <1>7, GetTimesOutDoes DEF GetTimesOut
<1>8. CASE Get
  <2>1. UNCHANGED tallyVars /\ UNCHANGED session
    BY <1>8 DEF Get
  <2>2. \/ Fails(flags)
        \/ operator.pc = "hello" /\ Goes("shaken")
        \/ operator.pc = "get" /\ (Goes("handle") \/ Goes("finish") \/ Goes("refused"))
    BY <1>0, <1>8, GetDoes
  <2> QED
    BY <1>2, <2>1, <2>2, EventsStay DEF Staging, Serving, Goes
<1>9. CASE BeginInvoke
  <2>1. UNCHANGED tallyVars
    BY <1>9 DEF BeginInvoke
  <2>2. CASE operator'.pc = "settle"
    BY <2>1, <2>2, EventsStay DEF Staging, Serving
  <2>3. CASE operator'.pc = "open" /\ operator'.req = count.requests + 1
    <3>1. count.requests + count.closes < MaxOperations /\ count.closes \in Nat
      BY <1>0, <1>9 DEF RequestsCounted, BeginInvoke, TallyTypes
    <3>2. operator'.req \in Request /\ operator'.req > count.requests
      BY <1>0, <2>3, <3>1, RuntimeAssumption DEF Request
    <3>3. granted'[operator'.req] = 0
      BY <1>0, <2>1, <3>2 DEF RequestsCounted, tallyVars
    <3>4. ~Staging'
      BY <2>3 DEF Staging, Serving
    <3> QED
      BY <2>1, <3>3, <3>4 DEF EventsInv, EventsWithSuccess, OutboxTold, tallyVars
  <2> QED
    BY <1>0, <1>2, <1>9, <2>1, <2>2, <2>3, BeginDoes
<1>10. CASE OpenSession
  <2>1. UNCHANGED tallyVars /\ operator.pc = "open" /\ NoSession.outbox = 0
    BY <1>10 DEF OpenSession, NoSession
  <2>2. CASE Goes("write") /\ session' = [NoSession EXCEPT !.state = "open"]
    BY <2>1, <2>2 DEF EventsInv, EventsWithSuccess, OutboxTold, tallyVars, Goes, NoSession
  <2> QED
    BY <1>0, <1>2, <1>10, <2>1, <2>2, OpenDoes
<1>11. CASE WriteRequest \/ ReplyCall
  <2>1. UNCHANGED tallyVars /\ UNCHANGED session /\ operator.pc \in {"write", "reply"}
    BY <1>11 DEF WriteRequest, ReplyCall
  <2>2. Fails(flags) \/ Goes("check")
    <3>1. CASE Fatal("timeout", flags)
      BY <1>0, <3>1, FatalFails DEF ThreadTypes, Error, Fault
    <3>2. CASE \E line : Send(line)
      BY <1>0, <3>2, SendDoes
    <3> QED
      BY <1>11, <3>1, <3>2 DEF WriteRequest, ReplyCall
  <2> QED
    BY <1>2, <2>1, <2>2, EventsStay DEF Staging, Serving, Goes
<1>12. CASE HandleCall
  <2>1. /\ operator.req \in Request /\ UNCHANGED <<outcome, recorded>> /\ operator.pc = "handle"
        /\ session.outbox \in Nat
    BY <1>0, <1>1, <1>12 DEF HandleCall, Serving, TallyTypes
  <2>2. PICK staged \in {0, 1} :
          /\ granted' = [granted EXCEPT ![operator.req] = granted[operator.req] + staged]
          /\ session'.outbox = session.outbox + staged
    BY <1>0, <1>12, <2>1, HandleDoes
  <2>3. operator'.pc = "reply" /\ operator'.req = operator.req
    BY <1>0, <1>12, <2>1, HandleDoes DEF Goes
  <2>4. outcome[operator.req] = "none"
    BY <1>0, <2>1 DEF RequestsCounted, Unsettled, Serving, Request
  <2>5. EventsWithSuccess'
    BY <1>0, <2>1, <2>2, <2>4 DEF EventsInv, EventsWithSuccess
  <2>6. session.outbox = granted[operator.req]
    BY <2>1 DEF EventsInv, OutboxTold, Staging, Serving
  <2>7. OutboxTold'
    BY <1>0, <2>1, <2>2, <2>3, <2>6 DEF OutboxTold
  <2> QED
    BY <2>5, <2>7 DEF EventsInv
<1>13. CASE Finish
  <2>1. UNCHANGED tallyVars /\ UNCHANGED session /\ operator.pc = "finish"
    BY <1>13 DEF Finish
  <2>2. \/ \E f \in Flags : Fails(f)
        \/ /\ operator'.pc = "term" /\ operator'.then = "commit" /\ operator'.req = operator.req
        \/ Goes("commit")
    BY <1>0, <1>13, FinishDoes
  <2> QED
    BY <1>2, <2>1, <2>2, EventsStay DEF Staging, Serving, Goes
<1>14. CASE Refused
  <2>1. UNCHANGED tallyVars /\ operator'.pc = "settle"
    BY <1>0, <1>14, RefusedDoes DEF Refused
  <2> QED
    BY <2>1, EventsStay DEF Staging, Serving
<1>15. CASE Commit
  <2>1. operator.req \in Request /\ operator.pc = "commit" /\ UNCHANGED granted
    BY <1>1, <1>15 DEF Commit
  <2>2. CASE Fails(flags) /\ UNCHANGED <<outcome, recorded>>
    BY <1>2, <2>1, <2>2 DEF tallyVars
  <2>3. CASE /\ Goes("leave")
             /\ recorded' = [recorded EXCEPT ![operator.req] = session.outbox]
             /\ outcome' = [outcome EXCEPT ![operator.req] = "ok"]
    <3>1. session.outbox = granted[operator.req]
      BY <2>1 DEF EventsInv, OutboxTold, Staging
    <3>2. EventsWithSuccess'
      BY <1>0, <2>1, <2>3, <3>1 DEF EventsInv, EventsWithSuccess
    <3> QED
      BY <2>3, <3>2 DEF EventsInv, OutboxTold, Staging, Serving, Goes
  <2> QED
    BY <1>0, <1>15, <2>2, <2>3, CommitDoes
<1>16. CASE SettleFailure
  <2>1. /\ operator.pc = "settle" /\ UNCHANGED <<granted, recorded>> /\ operator'.pc = "leave"
        /\ outcome' = IF operator.req = 0 THEN outcome
                      ELSE [outcome EXCEPT ![operator.req] = operator.code]
    BY <1>0, <1>16 DEF SettleFailure, ThreadTypes, Operator
  <2>2. EventsWithSuccess'
    <3>1. CASE operator.req = 0
      BY <2>1, <3>1 DEF EventsInv, EventsWithSuccess
    <3>2. CASE operator.req # 0
      <4>1. operator.req \in Request /\ outcome[operator.req] = "none"
        BY <1>0, <2>1, <3>2, OfRequest DEF RequestsCounted, Unsettled
      <4>2. operator.code # "ok"
        BY <1>0, <2>1, <3>2 DEF CodesSound, Error, Fault
      <4> QED
        BY <1>0, <2>1, <3>2, <4>1, <4>2 DEF EventsInv, EventsWithSuccess
    <3> QED
      BY <3>1, <3>2
  <2> QED
    BY <2>1, <2>2 DEF EventsInv, OutboxTold, Staging, Serving
<1>17. CASE CloseNow
  <2>1. UNCHANGED tallyVars
    BY <1>17 DEF CloseNow
  <2>2. operator'.pc = "leave" \/ (operator'.pc = "term" /\ operator'.then = "leave")
    BY <1>0, <1>17, CloseNowDoes
  <2> QED
    BY <2>1, <2>2, EventsStay DEF Staging, Serving
<1>18. CASE LeaveOp
  <2>1. UNCHANGED tallyVars /\ operator'.pc = "left"
    BY <1>0, <1>18 DEF LeaveOp, ThreadTypes, Operator
  <2> QED
    BY <2>1, EventsStay DEF Staging, Serving
<1>19. CASE LeaveContained
  <2>1. UNCHANGED tallyVars
    BY <1>19 DEF LeaveContained
  <2>2. operator'.pc = "idle" \/ (operator'.pc = "term" /\ operator'.then = "done")
    BY <1>0, <1>19, LeaveContainedDoes, IdleTyped
  <2> QED
    BY <2>1, <2>2, EventsStay DEF Staging, Serving
<1> QED
  BY <1>3, <1>4, <1>5, <1>6, <1>7, <1>8, <1>9, <1>10, <1>11, <1>12, <1>13, <1>14, <1>15, <1>16,
     <1>17, <1>18, <1>19 DEF OperatorStep

LEMMA EventsOfTerm ==
  ASSUME RuntimeInv, EventsInv, TermStep
  PROVE  EventsInv'
<1>0. ThreadTypes /\ CodesSound /\ Known
  BY DEF RuntimeInv, RuntimeTypes, Known
<1>1. UNCHANGED tallyVars /\ UNCHANGED session
  BY DEF TermStep, TermEnter, TermSignal, TermConfirm, TermJoin
<1>2. CASE UNCHANGED operator
  BY <1>1, <1>2, EventsStay DEF Staging
<1>3. ASSUME NEW w \in Thread, Wants(w), NEW sure \in BOOLEAN, NEW handle, Continue(w, sure, handle)
      PROVE  EventsInv'
  <2>1. CASE w # "op"
    BY <1>0, <1>2, <1>3, <2>1, ContinueDoes
  <2>2. CASE w = "op"
    <3>1. /\ operator'.pc \in {"settle", "commit", "leave", "idle"} /\ operator.pc = "term"
          /\ operator'.pc = "commit" => operator.then = "commit" /\ operator'.req = operator.req
      BY <1>0, <1>3, <2>2, ContinueDoes DEF Wants
    <3> QED
      BY <1>1, <3>1, EventsStay DEF Staging, Serving
  <2> QED
    BY <2>1, <2>2
<1>4. killer.stage # "none" => killer.who \in Thread /\ Wants(killer.who)
  BY <1>0, WhoTerminates
<1>5. CASE \E w \in Thread : TermEnter(w)
  BY <1>2, <1>3, <1>5 DEF TermEnter
<1>6. CASE TermConfirm
  BY <1>2, <1>3, <1>4, <1>6 DEF TermConfirm
<1>7. CASE TermJoin
  <2>1. PICK sure \in BOOLEAN, kept \in BOOLEAN : Continue(killer.who, sure, kept)
    BY <1>7 DEF TermJoin
  <2> QED
    BY <1>3, <1>4, <1>7, <2>1 DEF TermJoin
<1>8. CASE TermSignal
  BY <1>2, <1>8 DEF TermSignal
<1> QED
  BY <1>5, <1>6, <1>7, <1>8 DEF TermStep

LEMMA EventsStep ==
  ASSUME RuntimeInv, EventsInv, [PluginNext]_plugVars
  PROVE  EventsInv'
<1>1. CASE UNCHANGED <<operator, session, tallyVars>>
  BY <1>1, EventsStay DEF Staging
<1>2. ASSUME NEW pc \in {"spawn", "begin", "close"}, operator'.pc = pc, UNCHANGED tallyVars
      PROVE  EventsInv'
  BY <1>2, EventsStay DEF Staging, Serving
<1>3. Idle \in Operator
  BY IdleTyped
<1>4. CASE StartRuntime
  BY <1>2, <1>3, <1>4 DEF StartRuntime, Operator
<1>5. CASE CloseRuntime \/ \E act \in LifecycleAction : Invoke(act)
  BY <1>2, <1>3, <1>5 DEF CloseRuntime, Invoke, EnterOp, Operator
<1>6. CASE ReaderStep
  BY <1>1, <1>6 DEF ReaderStep, ReadLine, ReadEnd, ReaderSchedules, ReaderPuts
<1>7. CASE ChildStep
  BY <1>1, <1>7 DEF ChildStep, WorkerHello, WorkerTakes, WorkerCalls, WorkerAnswered, WorkerResult,
     WorkerEnds, PluginMisbehaves, BroodEnds, ParentVars
<1>8. CASE DeadlinePasses \/ UNCHANGED plugVars
  BY <1>1, <1>8 DEF DeadlinePasses, plugVars, tallyVars
<1> QED
  BY <1>4, <1>5, <1>6, <1>7, <1>8, EventsOfOperator, EventsOfTerm DEF PluginNext

LEMMA EventsInitially == PluginInit => EventsInv
<1> SUFFICES ASSUME PluginInit PROVE EventsInv
  OBVIOUS
<1>1. operator.pc = "idle" /\ outcome = [r \in Request |-> "none"] /\ recorded = [r \in Request |-> 0]
  BY IdleTyped DEF PluginInit
<1> QED
  BY <1>1 DEF EventsInv, EventsWithSuccess, OutboxTold, Staging, Serving

(* What a session has staged is what its request was told, and it reaches   *)
(* the history exactly when the invoke reported success.                    *)
THEOREM EventsInvariant == PluginSpec => []EventsInv
BY RuntimeInvariant, EventsInitially, EventsStep, PTL DEF PluginSpec

-----------------------------------------------------------------------------
(* Lines that are put into a pipe or taken from it.                        *)
LEMMA LinesAppended ==
  ASSUME NEW S, NEW s \in Seq(S), NEW e \in S
  PROVE  /\ Lines(Append(s, e)) = Lines(s) \cup {e} /\ Len(Append(s, e)) = Len(s) + 1
         /\ \A i \in DOMAIN s : i \in DOMAIN Append(s, e) /\ Append(s, e)[i] = s[i]
         /\ Append(s, e)[Len(s) + 1] = e
<1>1. /\ DOMAIN s = 1 .. Len(s) /\ Len(s) \in Nat /\ DOMAIN Append(s, e) = 1 .. Len(s) + 1
      /\ \A i \in 1 .. Len(s) : Append(s, e)[i] = s[i]
      /\ Append(s, e)[Len(s) + 1] = e /\ Len(Append(s, e)) = Len(s) + 1
  OBVIOUS
<1>2. Lines(Append(s, e)) \subseteq Lines(s) \cup {e}
  BY <1>1 DEF Lines
<1>3. Lines(s) \cup {e} \subseteq Lines(Append(s, e))
  <2>1. \A i \in 1 .. Len(s) : i \in 1 .. Len(s) + 1
    BY <1>1
  <2>2. Len(s) + 1 \in 1 .. Len(s) + 1
    BY <1>1
  <2> QED
    BY <1>1, <2>1, <2>2 DEF Lines
<1> QED
  BY <1>1, <1>2, <1>3

LEMMA LinesTaken ==
  ASSUME NEW S, NEW s \in Seq(S), s # <<>>
  PROVE  /\ Head(s) \in Lines(s) /\ Lines(Tail(s)) \subseteq Lines(s)
         /\ Lines(s) = Lines(Tail(s)) \cup {Head(s)}
<1>1. /\ DOMAIN s = 1 .. Len(s) /\ Len(s) \in Nat \ {0} /\ DOMAIN Tail(s) = 1 .. Len(s) - 1
      /\ \A i \in 1 .. Len(s) - 1 : Tail(s)[i] = s[i + 1]
      /\ Head(s) = s[1]
  OBVIOUS
<1>2. Lines(Tail(s)) \subseteq Lines(s)
  <2>1. \A i \in 1 .. Len(s) - 1 : i + 1 \in 1 .. Len(s)
    BY <1>1
  <2> QED
    BY <1>1, <2>1 DEF Lines
<1>3. Head(s) \in Lines(s)
  <2>1. 1 \in 1 .. Len(s)
    BY <1>1
  <2> QED
    BY <1>1, <2>1 DEF Lines
<1>4. Lines(s) \subseteq Lines(Tail(s)) \cup {Head(s)}
  <2> SUFFICES ASSUME NEW i \in 1 .. Len(s) PROVE s[i] \in Lines(Tail(s)) \cup {Head(s)}
    BY <1>1 DEF Lines
  <2>1. CASE i = 1
    BY <1>1, <2>1
  <2>2. CASE i # 1
    <3>1. i - 1 \in 1 .. Len(s) - 1 /\ (i - 1) + 1 = i
      BY <1>1, <2>2
    <3>2. Tail(s)[i - 1] = s[i]
      BY <1>1, <3>1
    <3> QED
      BY <1>1, <3>1, <3>2 DEF Lines
  <2> QED
    BY <2>1, <2>2
<1> QED
  BY <1>2, <1>3, <1>4

LEMMA NoLines == Lines(<<>>) = {}
BY DEF Lines

LEMMA LineTyped ==
  ASSUME NEW S, NEW s \in Seq(S), NEW m \in Lines(s)
  PROVE  m \in S
BY DEF Lines

LEMMA OnTheWayTyped ==
  ASSUME ChildTypes, NEW m \in OnTheWay
  PROVE  m \in Queued /\ (About(m) => m.req \in Nat)
<1>1. m \in Queued
  BY LineTyped DEF ChildTypes, OnTheWay, Queued
<1> QED
  BY <1>1 DEF Queued, Printed, About

-----------------------------------------------------------------------------
(* What a step of the parent may do to the operation and to the worker's   *)
(* lines: all of them but the reader's, and the beginning of a request.    *)
SameRequest == operator'.req = operator.req /\ operator'.act = operator.act

OperatorMoves ==
  /\ operator'.req # 0 => SameRequest
  /\ operator'.pc # "open"
  /\ operator'.pc = "write" => operator.pc = "open"
  /\ operator'.pc = "check" => operator.pc \in {"write", "reply"}
  /\ operator'.pc = "get" => operator.pc = "check"
  /\ operator'.pc = "reply" => operator.pc = "handle"
  /\ operator'.pc \in {"handle", "finish", "refused"} =>
       /\ operator.pc = "get" /\ queue # <<>> /\ Head(queue).req = operator.req
       /\ operator'.pc = "handle" => Head(queue).kind = "call"
       /\ operator'.pc = "finish" => Head(queue).kind = "result"
       /\ operator'.pc = "refused" => Head(queue).kind = "result" /\ ~Head(queue).ok
  /\ operator'.pc = "begin" => operator'.code = "none"
  /\ operator'.pc \in Serving => operator.pc \in Serving /\ operator'.code = operator.code
  /\ operator'.code = "crashed" =>
       \/ operator.code = "crashed" \/ flags.fault = "crashed" \/ operator.req = 0
       \/ operator.pc \in {"write", "reply"}
       \/ operator.pc = "get" /\ flags.fault = "none" /\ queue # <<>> /\ Head(queue).kind = "eof"

FlagsMove ==
  /\ flags.stopping => flags'.stopping
  /\ \/ flags'.fault = flags.fault
     \/ operator.pc = "refused" /\ flags.deferred /\ flags'.fault = "crashed"
  /\ flags.expected \/ flags.stopping =>
       flags'.expected \/ flags'.stopping \/ operator.pc = "refused"
  /\ flags'.deferred => flags.deferred
  /\ operator'.pc = "write" /\ operator.pc # "write" /\ operator.act = "shutdown" =>
       flags'.expected \/ flags'.stopping

PipesMove ==
  /\ UNCHANGED worker
  /\ count'.requests = count.requests
  /\ \A r \in Request :
       \/ outcome'[r] \in {outcome[r], "ok"}
       \/ operator.pc = "settle" /\ r = operator.req /\ outcome'[r] = operator.code
  /\ queue' = queue \/ (operator'.pc \notin {"check", "get"} /\ queue # <<>> /\ queue' = Tail(queue))
  /\ stdout' = stdout \/ (flags.stopping /\ stdout' = <<>>)
  /\ \/ UNCHANGED stdin
     \/ /\ life = "alive" /\ operator.pc \in {"write", "reply"} /\ operator'.pc = "check"
        /\ stdin' = [kind |-> IF operator.pc = "write" THEN operator.act ELSE "reply",
                     req |-> operator.req]
  /\ life' = life \/ (life = "none" /\ life' = "alive" /\ reader.pc = "off")
  /\ reader'.last = reader.last
  /\ \/ reader'.pc = reader.pc \/ reader.pc = "term"
     \/ reader.pc = "off" /\ reader'.pc = "read"

ParentMoves == (OperatorMoves \/ UNCHANGED operator) /\ FlagsMove /\ PipesMove

LEMMA FailsMoves ==
  ASSUME NEW f, Fails(f), f.fault = flags.fault, f.stopping = flags.stopping,
         f.expected = flags.expected, f.deferred => flags.deferred,
         \/ operator.req = 0 \/ operator.pc \in {"write", "reply"}
         \/ \E C : "crashed" \notin C /\ Codes(f, C)
         \/ operator.pc = "get" /\ flags.fault = "none" /\ queue # <<>> /\ Head(queue).kind = "eof"
  PROVE  OperatorMoves /\ FlagsMove
BY DEF Fails, Alike, OperatorMoves, FlagsMove, SameRequest, Codes, Serving

\* The operator goes on, and leaves the flags it shares as they were.
LEMMA GoesMoves ==
  ASSUME NEW pc, Goes(pc), Alike(flags', flags), pc \notin {"open", "write", "begin"},
         pc = "check" => operator.pc \in {"write", "reply"},
         pc = "get" => operator.pc = "check",
         pc = "reply" => operator.pc = "handle",
         pc \notin {"handle", "finish", "refused"},
         pc \in Serving => operator.pc \in Serving
  PROVE  OperatorMoves /\ FlagsMove
BY DEF Goes, Alike, OperatorMoves, FlagsMove, SameRequest

LEMMA CheckMoves ==
  ASSUME RuntimeInv, CheckTransport
  PROVE  ParentMoves
<1>0. ThreadTypes /\ Usable /\ flags \in Flags /\ operator.pc \in {"hello?", "check"}
  BY DEF RuntimeInv, RuntimeTypes, ThreadTypes, CheckTransport, Waits
<1>1. PipesMove
  BY DEF CheckTransport, PipesMove, childVars, tallyVars
<1>2. CASE Fails(flags) /\ Codes(flags, {"limit", "timeout"})
  BY <1>1, <1>2, FailsMoves DEF ParentMoves
<1>3. CASE Still /\ operator.pc = "hello?" /\ Goes("hello")
  BY <1>1, <1>3, GoesMoves DEF ParentMoves, Still, Serving
<1>4. CASE Still /\ operator.pc = "check" /\ Goes("get")
  BY <1>1, <1>4, GoesMoves DEF ParentMoves, Still, Serving
<1> QED
  BY <1>0, <1>2, <1>3, <1>4, CheckDoes

LEMMA TimesOutMoves ==
  ASSUME RuntimeInv, GetTimesOut
  PROVE  ParentMoves
<1>1. PipesMove
  BY DEF GetTimesOut, PipesMove, childVars, tallyVars
<1>2. Fails(flags) /\ Codes(flags, {"timeout"})
  BY GetTimesOutDoes DEF RuntimeInv, RuntimeTypes
<1> QED
  BY <1>1, <1>2, FailsMoves DEF ParentMoves

LEMMA GetMoves ==
  ASSUME RuntimeInv, Get
  PROVE  ParentMoves
<1>0. ThreadTypes /\ ChildTypes /\ Usable /\ flags \in Flags /\ queue # <<>>
  BY DEF RuntimeInv, RuntimeTypes, ThreadTypes, Get
<1>1. /\ UNCHANGED <<worker, count, outcome, stdout, stdin, life, reader>> /\ queue' = Tail(queue)
  BY DEF Get, childVars, tallyVars
<1>2. operator'.pc \notin {"check", "get"} => PipesMove
  BY <1>0, <1>1 DEF PipesMove
<1>3. CASE Fails(flags)
  <2>1. operator'.pc = "term"
    BY <1>3 DEF Fails
  <2>2. \/ Codes(flags, {"limit", "handshake", "protocol"})
        \/ Head(queue).kind = "eof" /\ operator.pc = "get" /\ flags.fault = "none"
    BY <1>0, <1>3, <2>1, GetDoes DEF Goes
  <2> QED
    BY <1>0, <1>2, <1>3, <2>1, <2>2, FailsMoves DEF ParentMoves
<1>4. CASE Still /\ operator.pc = "hello" /\ Goes("shaken")
  <2>1. operator'.pc = "shaken"
    BY <1>4 DEF Goes
  <2> QED
    BY <1>2, <1>4, <2>1, GoesMoves DEF ParentMoves, Still, Serving
<1>5. ASSUME Still, operator.pc = "get", Head(queue).req = operator.req,
             \/ Head(queue).kind = "call" /\ Goes("handle")
             \/ Head(queue).kind = "result" /\ Goes("finish")
             \/ Head(queue).kind = "result" /\ ~Head(queue).ok /\ Goes("refused")
      PROVE  ParentMoves
  <2>1. operator'.pc \in {"handle", "finish", "refused"} /\ SameRequest
        /\ operator'.code = operator.code
    BY <1>5 DEF Goes, SameRequest
  <2>2. OperatorMoves
    BY <1>0, <1>5, <2>1 DEF OperatorMoves, Goes, Serving
  <2>3. FlagsMove
    BY <1>5, <2>1 DEF FlagsMove, Still, Alike
  <2> QED
    BY <1>2, <2>1, <2>2, <2>3 DEF ParentMoves
<1> QED
  BY <1>0, <1>3, <1>4, <1>5, GetDoes

LEMMA ShakenMoves ==
  ASSUME RuntimeInv, Shaken
  PROVE  ParentMoves
<1>0. ThreadTypes /\ Usable
  BY DEF RuntimeInv, RuntimeTypes
<1>1. PipesMove
  BY DEF Shaken, PipesMove, childVars, tallyVars
<1>2. CASE Fails(flags) /\ Codes(flags, {})
  BY <1>1, <1>2, FailsMoves DEF ParentMoves
<1>3. CASE Goes("leave") /\ Alike(flags', flags)
  BY <1>1, <1>3, GoesMoves DEF ParentMoves, Serving
<1> QED
  BY <1>0, <1>2, <1>3, ShakenDoes

LEMMA OpenMoves ==
  ASSUME RuntimeInv, OpenSession
  PROVE  ParentMoves
<1>0. ThreadTypes /\ operator.pc = "open" /\ flags \in Flags
  BY DEF RuntimeInv, RuntimeTypes, ThreadTypes, OpenSession
<1>1. PipesMove
  BY DEF OpenSession, PipesMove, childVars, tallyVars
<1>2. CASE Fails(flags) /\ Codes(flags, {"protocol"})
  BY <1>1, <1>2, FailsMoves DEF ParentMoves
<1>3. CASE /\ Goes("write")
           /\ operator.act # "shutdown" => Still
           /\ operator.act = "shutdown" => flags'.expected /\ ~flags'.deferred
           /\ Alike(flags', [flags EXCEPT !.expected = flags'.expected, !.deferred = flags'.deferred])
  <2>1. flags'.fault = flags.fault /\ flags'.stopping = flags.stopping
    BY <1>0, <1>3 DEF Alike, Flags
  <2>2. FlagsMove
    BY <1>0, <1>3, <2>1 DEF FlagsMove, Still, Alike
  <2>3. OperatorMoves
    BY <1>0, <1>3 DEF OperatorMoves, Goes, SameRequest, Serving
  <2> QED
    BY <1>1, <2>2, <2>3 DEF ParentMoves
<1> QED
  BY <1>0, <1>2, <1>3, OpenDoes

LEMMA WriteMoves ==
  ASSUME RuntimeInv, WriteRequest \/ ReplyCall
  PROVE  ParentMoves
<1>0. ThreadTypes /\ flags \in Flags /\ operator.pc \in {"write", "reply"}
  BY DEF RuntimeInv, RuntimeTypes, ThreadTypes, WriteRequest, ReplyCall
<1>1. UNCHANGED <<worker, count, outcome, stdout, life, reader, queue>>
  BY DEF WriteRequest, ReplyCall, tallyVars
<1>2. CASE Fails(flags) /\ UNCHANGED stdin
  BY <1>0, <1>1, <1>2, FailsMoves DEF ParentMoves, PipesMove
<1>3. CASE /\ Goes("check") /\ Still /\ life = "alive"
           /\ stdin' = [kind |-> IF operator.pc = "write" THEN operator.act ELSE "reply",
                        req |-> operator.req]
  <2>1. PipesMove
    BY <1>0, <1>1, <1>3 DEF PipesMove, Goes
  <2> QED
    BY <1>0, <1>3, <2>1, GoesMoves DEF ParentMoves, Still, Serving
<1>4. CASE WriteRequest
  BY <1>0, <1>2, <1>3, <1>4, SendDoes DEF WriteRequest
<1>5. CASE ReplyCall
  <2>1. CASE Fatal("timeout", flags) /\ UNCHANGED stdin
    BY <1>0, <1>2, <2>1, FatalFails DEF Error, Fault
  <2>2. CASE Send([kind |-> "reply", req |-> operator.req])
    BY <1>0, <1>2, <1>3, <1>5, <2>2, SendDoes DEF ReplyCall
  <2> QED
    BY <1>5, <2>1, <2>2 DEF ReplyCall
<1> QED
  BY <1>4, <1>5

LEMMA HandleMoves ==
  ASSUME RuntimeInv, HandleCall
  PROVE  ParentMoves
<1>0. ThreadTypes /\ TallyTypes /\ operator.pc = "handle" /\ operator.req \in Request
  BY OfRequest DEF RuntimeInv, RuntimeTypes, HandleCall, RequestsCounted, Serving
<1>1. PipesMove
  BY DEF HandleCall, PipesMove, childVars
<1>2. Goes("reply") /\ UNCHANGED flags
  BY <1>0, HandleDoes
<1> QED
  BY <1>0, <1>1, <1>2, GoesMoves, StillAlike DEF ParentMoves, Serving, ThreadTypes

LEMMA FinishMoves ==
  ASSUME RuntimeInv, Finish
  PROVE  ParentMoves
<1>0. ThreadTypes /\ flags \in Flags
  BY DEF RuntimeInv, RuntimeTypes, ThreadTypes
<1>1. PipesMove
  BY DEF Finish, PipesMove, childVars, tallyVars
<1>2. ASSUME NEW f \in Flags, Fails(f), Codes(f, {"timeout"}), f.deferred => flags.deferred,
             Alike(f, [flags EXCEPT !.deferred = f.deferred])
      PROVE  ParentMoves
  <2>1. f.fault = flags.fault /\ f.stopping = flags.stopping /\ f.expected = flags.expected
    BY <1>0, <1>2 DEF Alike, Flags
  <2> QED
    BY <1>1, <1>2, <2>1, FailsMoves DEF ParentMoves
<1>3. CASE /\ Alike(flags', [flags EXCEPT !.deferred = FALSE])
           /\ operator'.pc = "term" /\ operator'.req = operator.req /\ operator'.act = operator.act
           /\ operator'.code = operator.code
  <2>1. /\ flags'.fault = flags.fault /\ flags'.stopping = flags.stopping
        /\ flags'.expected = flags.expected /\ flags'.deferred = FALSE
    BY <1>0, <1>3 DEF Alike, Flags
  <2>2. OperatorMoves /\ FlagsMove
    BY <1>3, <2>1 DEF OperatorMoves, FlagsMove, SameRequest, Serving
  <2> QED
    BY <1>1, <2>2 DEF ParentMoves
<1>4. CASE Goes("commit") /\ Still
  BY <1>1, <1>4, GoesMoves DEF ParentMoves, Still, Serving
<1> QED
  BY <1>0, <1>2, <1>3, <1>4, FinishDoes

LEMMA RefusedMoves ==
  ASSUME RuntimeInv, Refused
  PROVE  ParentMoves
<1>0. ThreadTypes /\ operator.pc = "refused" /\ flags \in Flags
  BY DEF RuntimeInv, RuntimeTypes, ThreadTypes, Refused
<1>1. PipesMove
  BY DEF Refused, PipesMove, childVars, tallyVars
<1>2. OperatorMoves
  BY <1>0, RefusedDoes DEF OperatorMoves, SameRequest, Serving
<1>3. FlagsMove
  BY <1>0, RefusedDoes DEF FlagsMove, Still, Alike
<1> QED
  BY <1>1, <1>2, <1>3 DEF ParentMoves

LEMMA CommitMoves ==
  ASSUME RuntimeInv, Commit
  PROVE  ParentMoves
<1>0. ThreadTypes /\ TallyTypes /\ flags \in Flags /\ operator.req \in Request
  BY OfRequest DEF RuntimeInv, RuntimeTypes, ThreadTypes, Commit, RequestsCounted
<1>1. UNCHANGED <<worker, count, stdout, stdin, life, reader, queue>>
  BY DEF Commit, childVars
<1>2. CASE Fails(flags) /\ Codes(flags, {"timeout"}) /\ UNCHANGED outcome
  BY <1>1, <1>2, FailsMoves DEF ParentMoves, PipesMove
<1>3. CASE Goes("leave") /\ Still /\ outcome' = [outcome EXCEPT ![operator.req] = "ok"]
  <2>1. PipesMove
    BY <1>0, <1>1, <1>3 DEF PipesMove, TallyTypes
  <2> QED
    BY <1>3, <2>1, GoesMoves DEF ParentMoves, Still, Serving
<1> QED
  BY <1>0, <1>2, <1>3, CommitDoes

LEMMA SettleMoves ==
  ASSUME RuntimeInv, SettleFailure
  PROVE  ParentMoves
<1>0. /\ ThreadTypes /\ TallyTypes /\ operator.pc = "settle" /\ UNCHANGED flags
      /\ UNCHANGED <<worker, count, stdout, stdin, life, reader, queue>>
      /\ operator' = [operator EXCEPT !.pc = "leave"]
      /\ outcome' = IF operator.req = 0 THEN outcome ELSE [outcome EXCEPT ![operator.req] = operator.code]
  BY DEF RuntimeInv, RuntimeTypes, SettleFailure, childVars
<1>1. PipesMove
  BY <1>0 DEF PipesMove, TallyTypes
<1>2. Goes("leave") /\ Still
  BY <1>0, GoesTo, SameStill DEF Goes, OperatorAt
<1> QED
  BY <1>1, <1>2, GoesMoves DEF ParentMoves, Still, Serving

\* Where no request is in progress, the code of the operation is of no request.
LEMMA SpawnMoves ==
  ASSUME RuntimeInv, Spawn \/ SpawnFails
  PROVE  ParentMoves
<1>0. /\ ThreadTypes /\ operator.pc = "spawn" /\ operator.req = 0 /\ reader.pc = "off"
      /\ life = "none" /\ flags \in Flags /\ reader \in [pc: {"off", "read", "schedule", "term", "put", "done"},
                 last: {"none", "eof", "long"}]
      /\ UNCHANGED <<worker, count, stdout, stdin, outcome, queue>>
  BY DEF RuntimeInv, RuntimeTypes, ThreadTypes, Unspawned, Fresh, RequestsCounted, Spawn, SpawnFails,
     childVars, tallyVars
<1>1. CASE Spawn
  <2>1. /\ life' = "alive" /\ Alike(flags', [flags EXCEPT !.handle = TRUE])
        /\ operator'.req = operator.req /\ operator'.pc \in {"term", "hello?"}
        /\ reader' = reader \/ reader' = [reader EXCEPT !.pc = "read"]
    BY <1>0, <1>1, SpawnDoes
  <2>2. FlagsMove
    BY <1>0, <2>1 DEF FlagsMove, Alike, Flags
  <2>3. PipesMove
    BY <1>0, <2>1 DEF PipesMove
  <2>4. OperatorMoves
    BY <1>0, <2>1 DEF OperatorMoves, Serving
  <2> QED
    BY <2>2, <2>3, <2>4 DEF ParentMoves
<1>2. CASE SpawnFails
  <2>1. /\ operator'.req = operator.req /\ operator'.pc = "settle"
        /\ UNCHANGED <<life, reader, flags>>
    BY <1>0, <1>2, RaiseDoes DEF SpawnFails, Code, Error, childVars
  <2> QED
    BY <1>0, <2>1 DEF ParentMoves, OperatorMoves, FlagsMove, PipesMove, Serving
<1> QED
  BY <1>1, <1>2

LEMMA CloseNowMoves ==
  ASSUME RuntimeInv, CloseNow
  PROVE  ParentMoves
<1>0. ThreadTypes /\ operator.req = 0
  BY DEF RuntimeInv, RuntimeTypes, CloseNow, RequestsCounted
<1>1. PipesMove
  BY DEF CloseNow, PipesMove, childVars, tallyVars
<1>2. /\ Alike(flags', flags) /\ operator'.req = operator.req /\ operator'.pc \in {"leave", "term"}
  BY <1>0, CloseNowDoes
<1> QED
  BY <1>0, <1>1, <1>2 DEF ParentMoves, OperatorMoves, FlagsMove, Alike, Serving

LEMMA LeaveMoves ==
  ASSUME RuntimeInv, LeaveOp
  PROVE  ParentMoves
<1>0. /\ ThreadTypes /\ flags' = [flags EXCEPT !.active = FALSE, !.late = FALSE]
      /\ operator' = [operator EXCEPT !.pc = "left"]
  BY DEF RuntimeInv, RuntimeTypes, LeaveOp
<1>1. PipesMove
  BY DEF LeaveOp, PipesMove, childVars, tallyVars
<1>2. Alike(flags', flags)
  BY <1>0 DEF ThreadTypes, Flags, Alike
<1>3. Goes("left")
  BY <1>0, GoesTo DEF Goes, OperatorAt
<1> QED
  BY <1>1, <1>2, <1>3, GoesMoves DEF ParentMoves, Serving

LEMMA LeaveContainedMoves ==
  ASSUME RuntimeInv, LeaveContained
  PROVE  ParentMoves
<1>0. ThreadTypes /\ UNCHANGED flags /\ Idle.req = 0 /\ Idle.pc = "idle" /\ operator \in Operator
  BY IdleTyped DEF RuntimeInv, RuntimeTypes, ThreadTypes, LeaveContained
<1>1. PipesMove
  BY DEF LeaveContained, PipesMove, childVars, tallyVars
<1>2. \/ operator' = Idle
      \/ operator' = [operator EXCEPT !.pc = "term", !.then = "done"]
  BY DEF LeaveContained
<1>3. FlagsMove
  <2>1. operator'.pc # "write"
    BY <1>0, <1>2 DEF Operator
  <2> QED
    BY <1>0, <2>1 DEF FlagsMove
<1>4. CASE operator' = Idle
  BY <1>0, <1>1, <1>3, <1>4 DEF ParentMoves, OperatorMoves, Idle, Serving
<1>5. CASE operator' = [operator EXCEPT !.pc = "term", !.then = "done"]
  <2>1. operator'.pc = "term" /\ SameRequest /\ operator'.code = operator.code
    BY <1>0, <1>5 DEF Operator, SameRequest
  <2> QED
    BY <1>1, <1>3, <2>1 DEF ParentMoves, OperatorMoves, Serving
<1> QED
  BY <1>2, <1>4, <1>5

LEMMA EnterMoves ==
  ASSUME RuntimeInv, StartRuntime \/ CloseRuntime \/ (\E act \in LifecycleAction : Invoke(act))
  PROVE  ParentMoves
<1>0. /\ TallyTypes /\ flags \in Flags /\ UNCHANGED <<worker, stdout, stdin, life, reader, queue, outcome>>
      /\ \/ flags' = [flags EXCEPT !.active = TRUE, !.late = FALSE]
         \/ flags' = [flags EXCEPT !.active = TRUE, !.late = FALSE, !.started = TRUE]
  BY DEF RuntimeInv, RuntimeTypes, ThreadTypes, StartRuntime, CloseRuntime, Invoke, EnterOp, childVars, tallyVars
<1>1. operator'.req = 0 /\ operator'.pc \in {"spawn", "begin", "close"} /\ operator'.code = "none"
  BY DEF StartRuntime, CloseRuntime, Invoke, EnterOp, Idle
<1>2. count'.requests = count.requests
  BY <1>0 DEF TallyTypes, StartRuntime, CloseRuntime, Invoke
<1>3. /\ flags'.stopping = flags.stopping /\ flags'.fault = flags.fault
      /\ flags'.expected = flags.expected /\ flags'.deferred = flags.deferred
  BY <1>0 DEF Flags
<1>4. PipesMove
  BY <1>0, <1>2 DEF PipesMove
<1> QED
  BY <1>1, <1>3, <1>4 DEF ParentMoves, OperatorMoves, FlagsMove, Serving

LEMMA DeadlineMoves ==
  ASSUME RuntimeInv, DeadlinePasses
  PROVE  ParentMoves
<1>1. /\ flags'.stopping = flags.stopping /\ flags'.fault = flags.fault
      /\ flags'.expected = flags.expected /\ flags'.deferred = flags.deferred
  BY DEF RuntimeInv, RuntimeTypes, ThreadTypes, Flags, DeadlinePasses
<1>2. PipesMove /\ UNCHANGED operator
  BY DEF DeadlinePasses, PipesMove, childVars, tallyVars
<1> QED
  BY <1>1, <1>2 DEF ParentMoves, FlagsMove

LEMMA ContinueMoves ==
  ASSUME RuntimeInv, NEW w \in Thread, Wants(w), NEW sure \in BOOLEAN, NEW handle,
         Continue(w, sure, handle)
  PROVE  /\ OperatorMoves \/ UNCHANGED operator
         /\ operator'.pc = "write" => operator.pc = "write"
         /\ reader'.last = reader.last
         /\ reader'.pc = reader.pc \/ reader.pc = "term"
<1>0. ThreadTypes /\ CodesSound /\ RequestsCounted
  BY DEF RuntimeInv, RuntimeTypes
<1>1. reader'.last = reader.last /\ (reader'.pc = reader.pc \/ reader.pc = "term")
  BY <1>0, ContinueDoes
<1>2. CASE w # "op"
  BY <1>0, <1>1, <1>2, ContinueDoes
<1>3. CASE w = "op"
  <2>1. /\ operator'.pc \in {"settle", "commit", "leave", "idle"} /\ operator.pc = "term"
        /\ operator'.pc # "idle" => SameRequest
        /\ operator'.pc = "idle" => operator' = Idle
        /\ operator'.pc = "settle" => operator'.code \in {operator.code, "unconfirmed"}
    BY <1>0, <1>3, ContinueDoes DEF SameRequest, Wants
  <2>2. operator'.pc \in {"commit", "leave"} => operator'.code = operator.code
    BY <1>0, <1>3, <2>1 DEF Continue, ThreadTypes, Operator, CodesSound, Idle
  <2> QED
    BY <1>1, <2>1, <2>2, IdleTyped DEF OperatorMoves, Idle, Serving
<1> QED
  BY <1>2, <1>3

LEMMA TermMoves ==
  ASSUME RuntimeInv, (\E w \in Thread : TermEnter(w)) \/ TermConfirm \/ TermJoin
  PROVE  ParentMoves
<1>0. ThreadTypes /\ Known /\ flags \in Flags
  BY DEF RuntimeInv, RuntimeTypes, ThreadTypes, Known
<1>1. /\ UNCHANGED <<worker, stdin, life, queue, outcome, count>>
  BY DEF TermEnter, TermConfirm, TermJoin, childVars, tallyVars
<1>2. killer.stage # "none" => killer.who \in Thread /\ Wants(killer.who) /\ flags.stopping
  BY <1>0, WhoTerminates
<1>3. \/ \E w \in Thread, sure \in BOOLEAN : \E handle : Wants(w) /\ Continue(w, sure, handle)
      \/ UNCHANGED <<operator, reader>>
  <2>1. CASE \E w \in Thread : TermEnter(w)
    BY <2>1 DEF TermEnter
  <2>2. CASE TermConfirm
    BY <1>2, <2>2 DEF TermConfirm
  <2>3. CASE TermJoin
    <3>1. PICK sure \in BOOLEAN, kept \in BOOLEAN : Continue(killer.who, sure, kept)
      BY <2>3 DEF TermJoin
    <3> QED
      BY <1>2, <2>3, <3>1 DEF TermJoin
  <2> QED
    BY <2>1, <2>2, <2>3
<1>4. /\ OperatorMoves \/ UNCHANGED operator
      /\ operator'.pc = "write" => operator.pc = "write"
      /\ reader'.last = reader.last
      /\ reader'.pc = reader.pc \/ reader.pc = "term"
  BY <1>3, ContinueMoves
<1>5. stdout' = stdout \/ (flags.stopping /\ stdout' = <<>>)
  BY <1>2 DEF TermEnter, TermConfirm, TermJoin, childVars
<1>6. /\ flags'.stopping /\ flags'.fault = flags.fault /\ (flags'.deferred => flags.deferred)
  <2>1. CASE \E w \in Thread : TermEnter(w)
    BY <1>0, <2>1 DEF TermEnter, Flags
  <2>2. CASE TermConfirm \/ TermJoin
    <3>1. flags.stopping
      BY <1>2, <2>2 DEF TermConfirm, TermJoin
    <3>2. \/ \E c \in BOOLEAN : flags' = [flags EXCEPT !.closedOut = c]
          \/ \E c \in BOOLEAN : flags' = [flags EXCEPT !.confirmed = c]
          \/ \E c \in BOOLEAN, d \in BOOLEAN : flags' = [flags EXCEPT !.confirmed = c, !.handle = d]
      BY <2>2 DEF TermConfirm, TermJoin
    <3> QED
      BY <1>0, <3>1, <3>2 DEF Flags
  <2> QED
    BY <2>1, <2>2
<1>7. PipesMove
  BY <1>1, <1>4, <1>5 DEF PipesMove
<1>8. FlagsMove
  BY <1>4, <1>6 DEF FlagsMove
<1> QED
  BY <1>4, <1>7, <1>8 DEF ParentMoves

LEMMA ParentMovesAll ==
  ASSUME RuntimeInv,
         \/ OperatorStep /\ ~BeginInvoke
         \/ StartRuntime \/ CloseRuntime \/ DeadlinePasses \/ TermConfirm \/ TermJoin
         \/ \E act \in LifecycleAction : Invoke(act)
         \/ \E w \in Thread : TermEnter(w)
  PROVE  ParentMoves
BY CheckMoves, TimesOutMoves, GetMoves, ShakenMoves, OpenMoves, WriteMoves, HandleMoves, FinishMoves,
   RefusedMoves, CommitMoves, SettleMoves, SpawnMoves, CloseNowMoves, LeaveMoves, LeaveContainedMoves,
   EnterMoves, DeadlineMoves, TermMoves DEF OperatorStep

\* A request begins: it is the next one, and nobody has heard of it.
Begins ==
  /\ operator.pc = "begin" /\ operator'.pc = "open" /\ operator'.req = count.requests + 1
  /\ operator'.act = operator.act /\ operator'.code = operator.code
  /\ count'.requests = count.requests + 1 /\ Alike(flags', flags)
  /\ UNCHANGED <<life, worker, stdin, stdout, queue, reader, outcome>>

LEMMA BeginMoves ==
  ASSUME RuntimeInv, BeginInvoke
  PROVE  ParentMoves \/ Begins
<1>0. ThreadTypes /\ TallyTypes /\ Usable /\ operator.pc = "begin" /\ operator.req = 0
  BY DEF RuntimeInv, RuntimeTypes, BeginInvoke, RequestsCounted
<1>1. UNCHANGED <<life, worker, stdin, stdout, queue, reader, outcome>>
  BY DEF BeginInvoke, childVars, tallyVars
<1>2. UNCHANGED count => PipesMove
  BY <1>1 DEF PipesMove
<1>3. CASE Fails(flags) /\ UNCHANGED count
  BY <1>0, <1>2, <1>3, FailsMoves DEF ParentMoves
<1>4. CASE operator'.pc = "settle" /\ operator'.req = operator.req /\ Still /\ UNCHANGED count
  BY <1>0, <1>2, <1>4 DEF ParentMoves, OperatorMoves, FlagsMove, Still, Alike, Serving
<1>5. CASE /\ operator'.pc = "open" /\ operator'.act = operator.act
           /\ operator'.req = count.requests + 1 /\ operator'.code = operator.code /\ Still
           /\ count'.requests = count.requests + 1
  BY <1>0, <1>1, <1>5 DEF Begins, Still
<1> QED
  BY <1>0, <1>3, <1>4, <1>5, BeginDoes

-----------------------------------------------------------------------------
(* What the invariant of the shutdown comes to after a step of the parent. *)
LEMMA PipesLines ==
  ASSUME ChildTypes, PipesMove
  PROVE  /\ Lines(queue') \subseteq Lines(queue) /\ Lines(stdout') \subseteq Lines(stdout)
         /\ OnTheWay' \subseteq OnTheWay
<1>1. Lines(queue') \subseteq Lines(queue)
  BY LinesTaken DEF ChildTypes, PipesMove
<1>2. Lines(stdout') \subseteq Lines(stdout)
  BY NoLines DEF PipesMove
<1> QED
  BY <1>1, <1>2 DEF OnTheWay, Lines

\* What a written line is.
LEMMA PipesStdin ==
  ASSUME PipesMove, ThreadTypes
  PROVE  \/ UNCHANGED stdin
         \/ /\ life = "alive" /\ operator.pc = "write" /\ operator'.pc = "check"
            /\ stdin'.kind = operator.act /\ stdin'.req = operator.req
         \/ /\ life = "alive" /\ operator.pc = "reply" /\ operator'.pc = "check"
            /\ stdin'.kind = "reply" /\ stdin'.req = operator.req
BY DEF PipesMove

LEMMA NumberedMoves ==
  ASSUME RuntimeInv, RuntimeInv', Numbered, ParentMoves
  PROVE  Numbered'
<1>0. ThreadTypes /\ ChildTypes /\ RequestsCounted /\ RequestsCounted' /\ PipesMove /\ UNCHANGED worker
      /\ count'.requests = count.requests /\ count.requests \in Nat
  BY DEF RuntimeInv, RuntimeTypes, ParentMoves, PipesMove, TallyTypes
<1>1. OnTheWay' \subseteq OnTheWay
  BY <1>0, PipesLines
<1>2. operator.req <= count.requests
  BY <1>0 DEF RequestsCounted
<1>3. stdin'.req <= count.requests
  BY <1>0, <1>2, PipesStdin DEF Numbered
<1>4. CASE operator'.pc \in {"open", "write"}
  <2>1. operator'.req # 0
    BY <1>0, <1>4 DEF RequestsCounted, Serving
  <2>2. operator.pc \in {"open", "write"} /\ operator'.req = operator.req
    BY <1>0, <1>4, <2>1 DEF ParentMoves, OperatorMoves, SameRequest
  <2>3. UNCHANGED stdin
    BY <1>0, <1>4, PipesStdin
  <2> QED
    BY <1>0, <1>1, <1>3, <2>2, <2>3 DEF Numbered, About
<1>5. CASE operator'.pc \notin {"open", "write"}
  BY <1>0, <1>1, <1>3, <1>5 DEF Numbered, About
<1> QED
  BY <1>4, <1>5

\* What holds of both kinds of moves of the operator.
LEMMA MovesOfOperator ==
  ASSUME ParentMoves, ChildTypes
  PROVE  /\ operator'.req # 0 => SameRequest
         /\ operator'.pc \in {"handle", "finish", "refused"} /\ operator'.pc # operator.pc =>
              /\ operator.pc = "get" /\ Head(queue) \in OnTheWay /\ Head(queue).req = operator.req
              /\ operator'.pc = "handle" => Head(queue).kind = "call"
              /\ operator'.pc = "finish" => Head(queue).kind = "result"
              /\ operator'.pc = "refused" => Head(queue).kind = "result" /\ ~Head(queue).ok
         /\ operator'.pc = "reply" => operator.pc \in {"handle", "reply"}
<1>1. queue # <<>> => Head(queue) \in OnTheWay
  BY LinesTaken DEF ChildTypes, OnTheWay
<1> QED
  BY <1>1 DEF ParentMoves, OperatorMoves, SameRequest

LEMMA UnderstoodMoves ==
  ASSUME RuntimeInv, Understood, ParentMoves
  PROVE  Understood'
<1>0. ThreadTypes /\ ChildTypes /\ RequestsCounted /\ PipesMove /\ UNCHANGED worker
  BY DEF RuntimeInv, RuntimeTypes, ParentMoves, PipesMove
<1>1. OnTheWay' \subseteq OnTheWay /\ (operator'.req # 0 => SameRequest)
  BY <1>0, PipesLines, MovesOfOperator
<1>2. /\ stdin'.kind \in LifecycleAction => stdin'.req # 0
      /\ Asked(operator.req)' => stdin'.kind = operator'.act
  <2>1. CASE UNCHANGED stdin
    BY <1>1, <2>1 DEF Understood, Asked, SameRequest
  <2>2. CASE operator.pc = "write" /\ operator'.pc = "check" /\ stdin'.kind = operator.act /\ stdin'.req = operator.req
    <3>1. operator.req # 0
      BY <1>0, <2>2 DEF RequestsCounted, Serving
    <3> QED
      BY <1>1, <2>2, <3>1 DEF Asked, SameRequest
  <2>3. CASE stdin'.kind = "reply"
    BY <2>3 DEF Asked, LifecycleAction
  <2> QED
    BY <1>0, <2>1, <2>2, <2>3, PipesStdin
<1>3. /\ Working' \/ worker'.pc = "exiting" =>
           worker'.req # 0 /\ (worker'.req = operator'.req => worker'.act = operator'.act)
      /\ worker'.pc = "calling" => worker'.act = "work"
      /\ worker'.pc = "exiting" => worker'.act = "shutdown"
  BY <1>0, <1>1 DEF Understood, Working, SameRequest
<1>4. ASSUME operator'.act = "shutdown", operator'.req # 0
      PROVE  /\ operator'.pc \notin {"handle", "reply"}
             /\ \A m \in OnTheWay' : ~(m.kind = "call" /\ m.req = operator'.req)
  <2>1. SameRequest
    BY <1>1, <1>4
  <2>2. /\ operator.pc \notin {"handle", "reply"}
        /\ \A m \in OnTheWay : ~(m.kind = "call" /\ m.req = operator.req)
    BY <1>4, <2>1 DEF Understood, SameRequest
  <2> QED
    BY <1>0, <1>1, <2>1, <2>2, MovesOfOperator DEF SameRequest
<1> QED
  BY <1>2, <1>3, <1>4 DEF Understood

LEMMA EndSeenMoves ==
  ASSUME RuntimeInv, EndSeen, ParentMoves
  PROVE  EndSeen'
<1>0. ThreadTypes /\ ChildTypes /\ PipesMove /\ FlagsMove /\ UNCHANGED worker
  BY DEF RuntimeInv, RuntimeTypes, ParentMoves, PipesMove
<1>1. EndQueued' => EndQueued
  BY <1>0, PipesLines DEF EndQueued
<1>2. \/ flags'.fault = "crashed" \/ flags'.deferred \/ EndQueued' \/ reader'.last = "eof"
      => life' = "exited"
  BY <1>0, <1>1 DEF EndSeen, FlagsMove, PipesMove
<1>3. life' = "alive" /\ flags'.fault = "none" /\ ~flags'.stopping => reader'.pc \in {"off", "read"}
  BY <1>0 DEF EndSeen, FlagsMove, PipesMove
<1>4. life' # "alive" => stdin'.kind = "none" /\ ~Working'
  BY <1>0 DEF EndSeen, PipesMove, Working
<1> QED
  BY <1>2, <1>3, <1>4 DEF EndSeen

LEMMA AnsweredMoves ==
  ASSUME RuntimeInv, Numbered, Understood, AnsweredOnce, ParentMoves
  PROVE  AnsweredOnce'
<1>0. ThreadTypes /\ ChildTypes /\ PipesMove /\ UNCHANGED worker
      /\ OnTheWay' \subseteq OnTheWay
  BY PipesLines DEF RuntimeInv, RuntimeTypes, ParentMoves, PipesMove
<1> SUFFICES ASSUME NEW r \in Request
             PROVE  /\ Ahead(r)' => /\ \A m \in OnTheWay' : ~Result(m, r)
                                    /\ operator'.req = r => operator'.pc \notin {"finish", "refused"}
                    /\ Asked(r)' => ~(Working' /\ worker'.req = r) /\ ~Left(r)'
                    /\ Left(r)' => /\ \A m \in OnTheWay' : Result(m, r) => m.ok
                                   /\ operator'.req = r => operator'.pc # "refused"
  BY DEF AnsweredOnce, Result
<1>1. r # 0 /\ (operator'.req = r => SameRequest /\ operator.req = r)
  BY <1>0, MovesOfOperator DEF Request, SameRequest
<1>2. CASE Asked(r)' => Asked(r)
  <2>1. Ahead(r)' => Ahead(r)
    BY <1>0, <1>2 DEF Ahead, Working
  <2>2. Ahead(r) => /\ \A m \in OnTheWay : ~Result(m, r)
                    /\ operator.req = r => operator.pc \notin {"finish", "refused"}
    BY DEF AnsweredOnce
  <2>3. Ahead(r) /\ operator'.req = r => operator'.pc \notin {"finish", "refused"}
    BY <1>0, <1>1, <2>2, MovesOfOperator DEF Result
  <2>4. Left(r) => /\ \A m \in OnTheWay : Result(m, r) => m.ok
                   /\ operator.req = r => operator.pc # "refused"
    BY DEF AnsweredOnce
  <2>5. Left(r) /\ operator'.req = r => operator'.pc # "refused"
    BY <1>0, <1>1, <2>4, MovesOfOperator DEF Result
  <2>6. Asked(r) => ~(Working /\ worker.req = r) /\ ~Left(r)
    BY DEF AnsweredOnce
  <2> QED
    BY <1>0, <1>2, <2>1, <2>2, <2>3, <2>4, <2>5, <2>6 DEF Working, Left
<1>3. CASE ~Asked(r) /\ Asked(r)'
  <2>1. operator.pc = "write" /\ operator'.pc = "check" /\ operator.req = r
    BY <1>0, <1>3, PipesStdin DEF Asked, LifecycleAction
  <2>2. worker.req < r /\ \A m \in OnTheWay : About(m) => m.req < r
    BY <2>1 DEF Numbered
  <2>3. worker.req # r /\ worker.req \in Nat
    BY <1>0, <2>2 DEF ChildTypes, Request
  <2>4. \A m \in OnTheWay : ~Result(m, r)
    BY <1>0, <2>2, OnTheWayTyped DEF Result, About, Request
  <2> QED
    BY <1>0, <2>1, <2>3, <2>4 DEF Left, Working
<1> QED
  BY <1>2, <1>3

LEMMA ExpectedMoves ==
  ASSUME RuntimeInv, RuntimeInv', ShutdownInv, ParentMoves
  PROVE  Expected'
<1>0. ThreadTypes /\ ChildTypes /\ RequestsCounted /\ Terminating /\ PipesMove /\ FlagsMove /\ UNCHANGED worker
      /\ Numbered /\ Understood /\ EndSeen /\ AnsweredOnce /\ Expected /\ AgreementComes
  BY DEF RuntimeInv, RuntimeTypes, ParentMoves, PipesMove, ShutdownInv
<1>1. operator'.pc \in Serving \cup {"begin"} => operator'.code = "none"
  BY <1>0 DEF ParentMoves, OperatorMoves, Expected
<1>2. operator'.pc = "write" /\ operator'.act = "shutdown" => flags'.expected \/ flags'.stopping
  <2>1. operator'.pc = "write" => \/ operator.pc = "write" /\ UNCHANGED operator
                                  \/ operator.pc = "open" /\ OperatorMoves
    BY DEF ParentMoves, OperatorMoves
  <2>2. ASSUME operator.pc = "open", OperatorMoves, operator'.pc = "write", operator'.act = "shutdown"
        PROVE  flags'.expected \/ flags'.stopping
    <3>1. operator'.req # 0
      BY <2>2 DEF RuntimeInv, RequestsCounted, Serving
    <3> QED
      BY <1>0, <2>2, <3>1 DEF FlagsMove, OperatorMoves, SameRequest
  <2> QED
    BY <1>0, <2>1, <2>2 DEF FlagsMove, Expected
<1> SUFFICES ASSUME NEW r \in Request, Told(r)'
             PROVE  /\ outcome'[r] # "crashed"
                    /\ operator'.req = r => /\ flags'.expected \/ flags'.stopping
                                           /\ flags'.fault # "crashed" /\ operator'.code # "crashed"
  BY <1>1, <1>2 DEF Expected
<1>3. r # 0 /\ r \in Nat /\ (operator'.req = r => SameRequest /\ operator.req = r)
  BY <1>0, MovesOfOperator DEF Request, SameRequest
<1>4. CASE Told(r)
  <2>1. Told(r) => (Ahead(r) \/ Left(r))
    BY DEF Told, Ahead, Asked, LifecycleAction
  <2>2. operator.req = r => operator.pc # "refused"
    BY <1>0, <1>4, <2>1 DEF AnsweredOnce
  <2>3. /\ outcome[r] # "crashed"
        /\ operator.req = r => /\ flags.expected \/ flags.stopping
                               /\ flags.fault # "crashed" /\ operator.code # "crashed"
    BY <1>0, <1>4 DEF Expected
  <2>4. outcome'[r] # "crashed"
    BY <1>0, <2>3 DEF PipesMove
  <2>5. operator.req = r => operator.act = "shutdown"
    BY <1>0, <1>3, <1>4 DEF Told, Understood, Asked, Left, LifecycleAction
  <2>6. operator.req = r => operator.pc \notin {"write", "reply"}
    <3>1. operator.req = r => operator.pc # "reply"
      BY <1>0, <1>3, <2>5 DEF Understood
    <3>2. operator.req = r => operator.pc # "write"
      BY <1>0, <1>3, <1>4 DEF Numbered, Told, Left, ChildTypes
    <3> QED
      BY <3>1, <3>2
  <2>7. ~(/\ operator.req = r /\ operator.pc = "get" /\ flags.fault = "none" /\ queue # <<>>
          /\ Head(queue).kind = "eof")
    <3> SUFFICES ASSUME operator.req = r, operator.pc = "get", flags.fault = "none", queue # <<>>,
                        Head(queue).kind = "eof"
                 PROVE  FALSE
      OBVIOUS
    <3>1. EndQueued
      BY <1>0, LinesTaken DEF ChildTypes, EndQueued
    <3>2. Left(r)
      BY <1>0, <1>4, <3>1 DEF EndSeen, Told
    <3>3. ~flags.stopping
      BY <1>0 DEF Terminating, Serving
    <3>4. PICK i \in DOMAIN queue : \A j \in 1 .. i : queue[j].kind # "eof"
      BY <1>0, <3>1, <3>2, <3>3 DEF AgreementComes
    <3>5. 1 \in 1 .. i /\ Head(queue) = queue[1]
      BY <1>0 DEF ChildTypes
    <3> QED
      BY <3>4, <3>5
  <2>8. operator'.req = r => operator'.code # "crashed"
    BY <1>3, <2>3, <2>6, <2>7 DEF ParentMoves, OperatorMoves
  <2> QED
    BY <1>0, <1>3, <2>2, <2>3, <2>4, <2>8 DEF FlagsMove
<1>5. CASE ~Told(r)
  <2>1. /\ life = "alive" /\ operator.pc = "write" /\ operator'.pc = "check"
        /\ operator.act = "shutdown" /\ operator.req = r
    BY <1>0, <1>5, PipesStdin DEF Told, Working, Left
  <2>2. flags.fault # "crashed" /\ (flags.expected \/ flags.stopping)
    BY <1>0, <2>1 DEF EndSeen, Expected
  <2>3. outcome[r] = "none"
    BY <1>0, <1>3, <2>1 DEF RequestsCounted, Unsettled, Serving
  <2>4. outcome'[r] # "crashed"
    BY <1>0, <2>1, <2>3 DEF PipesMove
  <2>5. operator'.code = "none"
    BY <1>1, <2>1 DEF Serving
  <2> QED
    BY <1>0, <2>1, <2>2, <2>4, <2>5 DEF FlagsMove
<1> QED
  BY <1>4, <1>5

LEMMA AgreementMoves ==
  ASSUME RuntimeInv, Numbered, Understood, EndSeen, AgreementComes, ParentMoves
  PROVE  AgreementComes'
<1>0. ThreadTypes /\ ChildTypes /\ PipesMove /\ FlagsMove /\ UNCHANGED worker
  BY DEF RuntimeInv, RuntimeTypes, ParentMoves, PipesMove
<1> SUFFICES ASSUME NEW r \in Request, Left(r)', operator'.req = r, operator'.pc \in {"check", "get"},
                    ~flags'.stopping, flags'.fault = "none"
             PROVE  \/ \E i \in DOMAIN queue' : Result(queue'[i], r) /\ \A j \in 1 .. i : queue'[j].kind # "eof"
                    \/ (\E m \in Lines(stdout') : Result(m, r)) /\ reader'.pc = "read" /\ ~EndQueued'
  BY DEF AgreementComes, Result, Lines
<1>1. r # 0 /\ r \in Nat /\ SameRequest /\ operator.req = r /\ Left(r)
  BY <1>0, MovesOfOperator DEF Request, SameRequest, Left
<1>2. ~flags.stopping /\ flags.fault = "none" /\ queue' = queue /\ stdout' = stdout
  BY <1>0 DEF FlagsMove, PipesMove
<1>3. operator.pc \in {"check", "get"}
  <2>1. operator.pc # "write"
    BY <1>0, <1>1 DEF Numbered, Left, ChildTypes
  <2>2. operator.pc # "reply"
    BY <1>1 DEF Understood, Left
  <2> QED
    BY <2>1, <2>2 DEF ParentMoves, OperatorMoves
<1>4. \/ \E i \in DOMAIN queue : Result(queue[i], r) /\ \A j \in 1 .. i : queue[j].kind # "eof"
      \/ (\E m \in Lines(stdout) : Result(m, r)) /\ reader.pc = "read" /\ ~EndQueued
  BY <1>1, <1>2, <1>3 DEF AgreementComes
<1>5. reader.pc = "read" => reader'.pc = "read"
  BY <1>0 DEF PipesMove
<1> QED
  BY <1>2, <1>4, <1>5 DEF EndQueued, Lines

LEMMA ShutdownMoves ==
  ASSUME RuntimeInv, RuntimeInv', ShutdownInv, ParentMoves
  PROVE  ShutdownInv'
<1>1. Numbered' /\ Understood' /\ EndSeen' /\ AnsweredOnce' /\ AgreementComes'
  BY NumberedMoves, UnderstoodMoves, EndSeenMoves, AnsweredMoves, AgreementMoves DEF ShutdownInv
<1> QED
  BY <1>1, ExpectedMoves DEF ShutdownInv

LEMMA ShutdownBegins ==
  ASSUME RuntimeInv, ShutdownInv, Begins
  PROVE  ShutdownInv'
<1>0. /\ ChildTypes /\ Numbered /\ Understood /\ EndSeen /\ AnsweredOnce /\ Expected
      /\ count.requests \in Nat /\ flags'.stopping = flags.stopping /\ flags'.fault = flags.fault
      /\ flags'.expected = flags.expected /\ flags'.deferred = flags.deferred
      /\ UNCHANGED <<life, worker, stdin, stdout, queue, reader, outcome>>
      /\ operator'.pc = "open" /\ operator'.req = count.requests + 1
      /\ count'.requests = count.requests + 1 /\ stdin.req \in Nat /\ worker.req \in Nat
  BY DEF RuntimeInv, RuntimeTypes, TallyTypes, ChildTypes, ShutdownInv, Begins, Alike
<1>1. /\ \A m \in OnTheWay : About(m) => m.req <= count.requests /\ m.req \in Nat
      /\ OnTheWay' = OnTheWay
      /\ stdin.req <= count.requests /\ worker.req <= count.requests
  BY <1>0, OnTheWayTyped DEF Numbered, OnTheWay, Lines
<1>2. Numbered'
  BY <1>0, <1>1 DEF Numbered, About
<1>3. stdin.req # operator'.req /\ worker.req # operator'.req
      /\ \A m \in OnTheWay : About(m) => m.req # operator'.req
  BY <1>0, <1>1
<1>4. Understood'
  BY <1>0, <1>1, <1>3 DEF Understood, Asked, Working, About
<1>5. EndSeen'
  BY <1>0 DEF EndSeen, EndQueued, Lines, Working
<1>6. AnsweredOnce'
  BY <1>0, <1>1 DEF AnsweredOnce, Ahead, Asked, Working, Left, Result
<1>7. Expected'
  <2>1. operator'.code = "none"
    BY <1>0 DEF Begins, Expected
  <2>2. \A r \in Request : Told(r)' => Told(r) /\ operator'.req # r
    BY <1>0, <1>3 DEF Told, Working, Left
  <2> QED
    BY <1>0, <2>1, <2>2 DEF Expected
<1>8. AgreementComes'
  BY <1>0 DEF AgreementComes
<1> QED
  BY <1>2, <1>4, <1>5, <1>6, <1>7, <1>8 DEF ShutdownInv

-----------------------------------------------------------------------------
(* A step of the reader.                                                   *)
ReaderMoves ==
  /\ UNCHANGED <<operator, life, worker, stdin, outcome, count>>
  /\ flags'.stopping = flags.stopping /\ flags'.expected = flags.expected
  /\ flags.fault # "none" => flags'.fault # "none"
  /\ flags'.fault = "crashed" =>
       \/ flags.fault = "crashed"
       \/ ~flags.expected /\ ~flags.stopping /\ life = "exited"
  /\ flags'.deferred => flags.deferred \/ life = "exited"
  /\ reader'.last = "eof" => life = "exited" \/ reader.last = "eof"
  /\ \A m \in OnTheWay' : m \in OnTheWay \/ m.kind \in {"eof", "long"}
  /\ EndQueued' => EndQueued \/ reader.last = "eof"
  /\ flags'.fault = "none" /\ ~flags.stopping =>
       reader'.pc = "read" \/ reader.pc # "read" \/ life = "exited"

LEMMA ReadLineMoves ==
  ASSUME RuntimeInv, ReadLine
  PROVE  ReaderMoves
<1>0. /\ ThreadTypes /\ ChildTypes /\ flags \in Flags /\ stdout # <<>>
      /\ stdout \in Seq(Printed) /\ queue \in Seq(Queued)
      /\ UNCHANGED <<operator, life, worker, stdin, outcome, count>> /\ stdout' = Tail(stdout)
      /\ reader.pc = "read"
  BY DEF RuntimeInv, RuntimeTypes, ThreadTypes, ChildTypes, ReadLine, tallyVars
<1>1. /\ Head(stdout) \in Lines(stdout) /\ Lines(stdout') \subseteq Lines(stdout)
      /\ Head(stdout) \in Printed
  BY <1>0, LinesTaken
<1>2. Head(stdout) \in Queued /\ Head(stdout).kind # "eof"
  BY <1>1 DEF Queued, Printed
<1>3. \/ queue' = queue
      \/ queue' = Append(queue, Head(stdout))
  BY DEF ReadLine
<1>4. Lines(queue') \subseteq Lines(queue) \cup {Head(stdout)}
  <2>1. CASE queue' = Append(queue, Head(stdout))
    BY <1>0, <1>2, <2>1, LinesAppended
  <2>2. CASE queue' = queue
    BY <2>2
  <2> QED
    BY <1>3, <2>1, <2>2
<1>5. (\A m \in OnTheWay' : m \in OnTheWay) /\ (EndQueued' => EndQueued)
  BY <1>1, <1>2, <1>4 DEF OnTheWay, Lines, EndQueued
<1>6. CASE ObserveFault("limit", "long") \/ ObserveFault("limit", "none")
  <2>1. PICK last \in {"long", "none"} : ObserveFault("limit", last)
    BY <1>6
  <2> QED
    BY <1>0, <1>5, <2>1, ObserveDoes DEF ReaderMoves, Fault
<1>7. CASE /\ UNCHANGED reader
           /\ flags' = [flags EXCEPT !.hello = @ \/ Head(stdout).kind = "hello"]
  <2>1. /\ flags'.stopping = flags.stopping /\ flags'.expected = flags.expected
        /\ flags'.fault = flags.fault /\ flags'.deferred = flags.deferred
    BY <1>0, <1>7 DEF Flags
  <2> QED
    BY <1>0, <1>5, <1>7, <2>1 DEF ReaderMoves
<1> QED
  BY <1>6, <1>7 DEF ReadLine

LEMMA ReadEndMoves ==
  ASSUME RuntimeInv, ReadEnd
  PROVE  ReaderMoves
<1>0. /\ ThreadTypes /\ flags \in Flags /\ UNCHANGED <<stdout, queue>> /\ reader.pc = "read"
      /\ UNCHANGED <<operator, life, worker, stdin, outcome, count>> /\ life = "exited"
  BY DEF RuntimeInv, RuntimeTypes, ThreadTypes, Terminating, ReadEnd, childVars, tallyVars
<1>1. (\A m \in OnTheWay' : m \in OnTheWay) /\ (EndQueued' => EndQueued)
  BY <1>0 DEF OnTheWay, Lines, EndQueued
<1>2. CASE ObserveFault("crashed", "eof") /\ ~(flags.expected /\ ~flags.stopping)
  BY <1>0, <1>1, <1>2, ObserveDoes DEF ReaderMoves, Fault
<1>3. CASE flags' = [flags EXCEPT !.deferred = TRUE]
  <2>1. /\ flags'.stopping = flags.stopping /\ flags'.expected = flags.expected
        /\ flags'.fault = flags.fault
    BY <1>0, <1>3 DEF Flags
  <2> QED
    BY <1>0, <1>1, <2>1 DEF ReaderMoves
<1> QED
  BY <1>2, <1>3 DEF ReadEnd

LEMMA SchedulesMoves ==
  ASSUME RuntimeInv, ReaderSchedules
  PROVE  ReaderMoves
<1>0. /\ ThreadTypes /\ UNCHANGED <<stdout, queue, flags>> /\ reader.pc = "schedule"
      /\ UNCHANGED <<operator, life, worker, stdin, outcome, count>>
  BY DEF RuntimeInv, RuntimeTypes, ReaderSchedules, childVars, tallyVars
<1>1. (\A m \in OnTheWay' : m \in OnTheWay) /\ (EndQueued' => EndQueued)
  BY <1>0 DEF OnTheWay, Lines, EndQueued
<1>2. reader'.last = reader.last
  BY <1>0 DEF ReaderSchedules, ThreadTypes
<1> QED
  BY <1>0, <1>1, <1>2 DEF ReaderMoves

LEMMA PutsMoves ==
  ASSUME RuntimeInv, ReaderPuts
  PROVE  ReaderMoves
<1>0. /\ ThreadTypes /\ flags \in Flags /\ queue \in Seq(Queued) /\ UNCHANGED stdout /\ reader.pc = "put"
      /\ UNCHANGED <<operator, life, worker, stdin, outcome, count>>
  BY DEF RuntimeInv, RuntimeTypes, ThreadTypes, ChildTypes, ReaderPuts, childVars, tallyVars
<1>1. CASE ObserveFault("limit", "none") /\ UNCHANGED queue
  <2>1. (\A m \in OnTheWay' : m \in OnTheWay) /\ (EndQueued' => EndQueued)
    BY <1>0, <1>1 DEF OnTheWay, Lines, EndQueued
  <2> QED
    BY <1>0, <1>1, <2>1, ObserveDoes DEF ReaderMoves, Fault
<1>2. CASE /\ queue' = queue \/ (reader.last # "none" /\ queue' = Append(queue, [kind |-> reader.last]))
           /\ flags' = [flags EXCEPT !.overflow = @ \/ reader.last # "eof"]
           /\ reader' = [pc |-> "done", last |-> "none"]
  <2>1. reader.last # "none" => [kind |-> reader.last] \in Queued /\ reader.last \in {"eof", "long"}
    BY <1>0 DEF ThreadTypes, Queued, Printed
  <2>2. \A m \in Lines(queue') :
          m \in Lines(queue) \/ (reader.last # "none" /\ m.kind = reader.last)
    <3>1. CASE reader.last # "none" /\ queue' = Append(queue, [kind |-> reader.last])
      <4>1. Lines(queue') = Lines(queue) \cup {[kind |-> reader.last]}
        BY <1>0, <2>1, <3>1, LinesAppended
      <4> QED
        BY <3>1, <4>1
    <3>2. CASE queue' = queue
      BY <3>2
    <3> QED
      BY <1>2, <3>1, <3>2
  <2>3. \A m \in OnTheWay' : m \in OnTheWay \/ m.kind \in {"eof", "long"}
    <3>1. Lines(stdout)' = Lines(stdout) /\ Lines(queue)' = Lines(queue')
      BY <1>0 DEF Lines
    <3> QED
      BY <2>1, <2>2, <3>1 DEF OnTheWay
  <2>4. EndQueued' => EndQueued \/ reader.last = "eof"
    <3>1. Lines(queue)' = Lines(queue')
      BY DEF Lines
    <3> QED
      BY <2>1, <2>2, <3>1 DEF EndQueued
  <2>5. /\ flags'.stopping = flags.stopping /\ flags'.expected = flags.expected
        /\ flags'.fault = flags.fault /\ flags'.deferred = flags.deferred
    BY <1>0, <1>2 DEF Flags
  <2> QED
    BY <1>0, <1>2, <2>3, <2>4, <2>5 DEF ReaderMoves
<1> QED
  BY <1>1, <1>2 DEF ReaderPuts

LEMMA ReaderMovesAll == ASSUME RuntimeInv, ReaderStep PROVE ReaderMoves
BY ReadLineMoves, ReadEndMoves, SchedulesMoves, PutsMoves DEF ReaderStep

\* The agreement comes nearer: it is read before the end of the output is.
LEMMA AgreementRead ==
  ASSUME RuntimeInv, EndSeen, AgreementComes, ReaderStep
  PROVE  AgreementComes'
<1>0. ThreadTypes /\ ChildTypes /\ stdout \in Seq(Printed) /\ queue \in Seq(Queued) /\ ReaderMoves
  BY ReaderMovesAll DEF RuntimeInv, RuntimeTypes, ChildTypes
<1> SUFFICES ASSUME NEW r \in Request, Left(r)', operator'.req = r, operator'.pc \in {"check", "get"},
                    ~flags'.stopping, flags'.fault = "none"
             PROVE  \/ \E i \in DOMAIN queue' : Result(queue'[i], r) /\ \A j \in 1 .. i : queue'[j].kind # "eof"
                    \/ (\E m \in Lines(stdout') : Result(m, r)) /\ reader'.pc = "read" /\ ~EndQueued'
  BY DEF AgreementComes, Result, Lines
<1>1. /\ Left(r) /\ operator.req = r /\ operator.pc \in {"check", "get"} /\ ~flags.stopping
      /\ flags.fault = "none"
  BY <1>0 DEF ReaderMoves, Left
<1>2. \/ \E i \in DOMAIN queue : Result(queue[i], r) /\ \A j \in 1 .. i : queue[j].kind # "eof"
      \/ (\E m \in Lines(stdout) : Result(m, r)) /\ reader.pc = "read" /\ ~EndQueued
  BY <1>1 DEF AgreementComes
\* What is queued already stays before what is queued now.
<1>3. ASSUME NEW e \in Queued, queue' = Append(queue, e),
             \E i \in DOMAIN queue : Result(queue[i], r) /\ \A j \in 1 .. i : queue[j].kind # "eof"
      PROVE  \E i \in DOMAIN queue' : Result(queue'[i], r) /\ \A j \in 1 .. i : queue'[j].kind # "eof"
  <2>1. PICK i \in DOMAIN queue : Result(queue[i], r) /\ \A j \in 1 .. i : queue[j].kind # "eof"
    BY <1>3
  <2>2. /\ DOMAIN queue = 1 .. Len(queue) /\ \A j \in 1 .. i : j \in DOMAIN queue
    BY <1>0, <2>1
  <2>3. \A j \in DOMAIN queue : j \in DOMAIN queue' /\ queue'[j] = queue[j]
    BY <1>0, <1>3, LinesAppended
  <2> QED
    BY <2>1, <2>2, <2>3 DEF Result
<1>4. CASE ReadLine
  <2>1. ~ObserveFault("limit", "long") /\ ~ObserveFault("limit", "none")
    BY <1>0, <1>1, ObserveDoes DEF Fault
  <2>2. UNCHANGED reader /\ queue' = Append(queue, Head(stdout)) /\ stdout' = Tail(stdout) /\ stdout # <<>>
    BY <1>4, <2>1 DEF ReadLine
  <2>3. Head(stdout) \in Queued /\ Head(stdout).kind # "eof" /\ Lines(stdout) = Lines(stdout') \cup {Head(stdout)}
    BY <1>0, <2>2, LinesTaken DEF Queued, Printed
  <2>4. CASE (\E m \in Lines(stdout) : Result(m, r)) /\ reader.pc = "read" /\ ~EndQueued
    <3>1. \A j \in DOMAIN queue' : queue'[j].kind # "eof"
      <4>1. Lines(queue') = Lines(queue) \cup {Head(stdout)}
        BY <1>0, <2>2, <2>3, LinesAppended
      <4> QED
        BY <2>3, <2>4, <4>1 DEF EndQueued, Lines
    <3>2. ~EndQueued'
      BY <3>1 DEF EndQueued, Lines
    <3>3. CASE Result(Head(stdout), r)
      <4>1. /\ Len(queue) + 1 \in DOMAIN queue' /\ queue'[Len(queue) + 1] = Head(stdout)
            /\ \A j \in 1 .. Len(queue) + 1 : j \in DOMAIN queue'
        BY <1>0, <2>2, <2>3
      <4> QED
        BY <3>1, <3>3, <4>1 DEF Result
    <3>4. CASE ~Result(Head(stdout), r)
      BY <2>2, <2>3, <2>4, <3>2, <3>4
    <3> QED
      BY <3>3, <3>4
  <2> QED
    BY <1>2, <1>3, <2>2, <2>3, <2>4
<1>5. CASE ReadEnd
  <2>1. stdout = <<>> /\ UNCHANGED queue
    BY <1>0, <1>1, <1>5 DEF ReadEnd, RuntimeInv, Terminating
  <2>2. ~ \E m \in Lines(stdout) : Result(m, r)
    BY <2>1, NoLines
  <2> QED
    BY <1>2, <2>1, <2>2 DEF Result
<1>6. CASE ReaderSchedules
  BY <1>1, <1>6 DEF ReaderSchedules, RuntimeInv, Terminating
<1>7. CASE ReaderPuts
  <2>1. reader.pc # "read"
    BY <1>7 DEF ReaderPuts
  <2>2. queue' = queue \/ (reader.last # "none" /\ queue' = Append(queue, [kind |-> reader.last]))
    BY <1>7 DEF ReaderPuts
  <2>3. reader.last # "none" => [kind |-> reader.last] \in Queued
    BY <1>0 DEF ThreadTypes, Queued, Printed
  <2>4. CASE queue' = queue
    BY <1>2, <2>1, <2>4 DEF Result
  <2> QED
    BY <1>2, <1>3, <2>1, <2>2, <2>3, <2>4
<1> QED
  BY <1>4, <1>5, <1>6, <1>7 DEF ReaderStep

LEMMA ShutdownRead ==
  ASSUME RuntimeInv, ShutdownInv, ReaderStep
  PROVE  ShutdownInv'
<1>0. /\ ReaderMoves /\ Numbered /\ Understood /\ EndSeen /\ AnsweredOnce /\ Expected /\ AgreementComes
      /\ UNCHANGED <<operator, life, worker, stdin, outcome, count>>
  BY ReaderMovesAll DEF ReaderMoves, ShutdownInv
<1>1. \A m \in OnTheWay' : m \in OnTheWay \/ m.kind \in {"eof", "long"}
  BY <1>0 DEF ReaderMoves
<1>2. Numbered'
  BY <1>0, <1>1 DEF Numbered, About
<1>3. Understood'
  BY <1>0, <1>1 DEF Understood, Asked, Working
<1>4. EndSeen'
  <2>1. \/ flags'.fault = "crashed" \/ flags'.deferred \/ EndQueued' \/ reader'.last = "eof"
        => life' = "exited"
    BY <1>0 DEF ReaderMoves, EndSeen
  <2>2. reader.pc # "off"
    BY DEF ReaderStep, ReadLine, ReadEnd, ReaderSchedules, ReaderPuts
  <2>3. life' = "alive" /\ flags'.fault = "none" /\ ~flags'.stopping => reader'.pc \in {"off", "read"}
    BY <1>0, <2>2 DEF ReaderMoves, EndSeen
  <2>4. life' # "alive" => stdin'.kind = "none" /\ ~Working'
    BY <1>0 DEF EndSeen, Working
  <2> QED
    BY <2>1, <2>3, <2>4 DEF EndSeen
<1>5. AnsweredOnce'
  BY <1>0, <1>1 DEF AnsweredOnce, Ahead, Asked, Working, Left, Result
<1>6. Expected'
  <2>1. \A r \in Request : Told(r)' => Told(r)
    BY <1>0 DEF Told, Working, Left
  <2> QED
    BY <1>0, <2>1 DEF Expected, ReaderMoves
<1> QED
  BY <1>0, <1>2, <1>3, <1>4, <1>5, <1>6, AgreementRead DEF ShutdownInv

-----------------------------------------------------------------------------
(* A step of the worker.                                                   *)
ParentStays == UNCHANGED <<operator, reader, flags, queue, outcome>> /\ count'.requests = count.requests

\* What a step does that touches none of this.
LEMMA ShutdownSame ==
  ASSUME ShutdownInv, count'.requests = count.requests,
         UNCHANGED <<operator, reader, flags, queue, outcome, life, worker, stdin, stdout>>
  PROVE  ShutdownInv'
<1>1. OnTheWay' = OnTheWay /\ (EndQueued' <=> EndQueued)
  BY DEF OnTheWay, Lines, EndQueued
<1>2. Numbered' /\ Understood' /\ EndSeen'
  BY <1>1 DEF ShutdownInv, Numbered, Understood, EndSeen, About, Asked, Working
<1>3. AnsweredOnce'
  BY <1>1 DEF ShutdownInv, AnsweredOnce, Ahead, Asked, Working, Left, Result
<1>4. Expected'
  <2>1. \A r \in Request : Told(r)' => Told(r)
    BY DEF Told, Working, Left
  <2> QED
    BY <2>1 DEF ShutdownInv, Expected
<1>5. AgreementComes'
  BY <1>1 DEF ShutdownInv, AgreementComes, Left, Lines, Result
<1> QED
  BY <1>2, <1>3, <1>4, <1>5 DEF ShutdownInv

\* The worker is gone; what it had agreed to it had agreed to before.
LEMMA ShutdownExits ==
  ASSUME RuntimeInv, ShutdownInv, ParentStays, UNCHANGED stdout, Exits
  PROVE  ShutdownInv'
<1>0. /\ Numbered /\ Understood /\ EndSeen /\ AnsweredOnce /\ Expected /\ AgreementComes
      /\ RequestsCounted /\ count.requests \in Nat /\ operator.req \in Nat
      /\ UNCHANGED <<operator, reader, flags, queue, outcome, stdout>> /\ count'.requests = count.requests
  BY DEF ShutdownInv, ParentStays, RuntimeInv, RuntimeTypes, ThreadTypes, TallyTypes, Operator
<1>1. /\ life' = "exited" /\ stdin'.kind = "none" /\ stdin'.req = 0 /\ ~Working'
      /\ worker'.pc = "exiting" => worker' = worker
      /\ worker' = worker \/ worker'.req = 0
  BY DEF Exits, NoLine, AtRest, Working
<1>2. OnTheWay' = OnTheWay /\ (EndQueued' <=> EndQueued)
  BY <1>0 DEF OnTheWay, Lines, EndQueued
<1>3. operator.pc \in {"open", "write"} => 0 < operator.req
  BY <1>0 DEF RequestsCounted, Serving
<1>4. Numbered'
  BY <1>0, <1>1, <1>2, <1>3 DEF Numbered, About
<1>5. Understood'
  <2>1. worker'.pc # "calling" /\ stdin'.kind \notin LifecycleAction
    BY <1>1 DEF Working, LifecycleAction
  <2>2. ~Asked(operator.req)'
    BY <1>1 DEF Asked, LifecycleAction
  <2>3. worker'.pc = "exiting" => worker' = worker /\ worker.pc = "exiting"
    BY <1>1
  <2> QED
    BY <1>0, <1>1, <1>2, <2>1, <2>2, <2>3 DEF Understood
<1>6. EndSeen'
  BY <1>1 DEF EndSeen
<1>7. AnsweredOnce'
  <2>1. \A r \in Request : (~Ahead(r)') /\ (~Asked(r)') /\ (Left(r)' => Left(r))
    BY <1>1 DEF Ahead, Asked, Left, LifecycleAction
  <2> QED
    BY <1>0, <1>2, <2>1 DEF AnsweredOnce, Result
<1>8. Expected'
  <2>1. \A r \in Request : Told(r)' => Told(r)
    BY <1>1 DEF Told, Left
  <2> QED
    BY <1>0, <2>1 DEF Expected
<1>9. AgreementComes'
  <2>1. \A r \in Request : Left(r)' => Left(r)
    BY <1>1 DEF Left
  <2> QED
    BY <1>0, <1>2, <2>1 DEF AgreementComes, Result, Lines
<1> QED
  BY <1>4, <1>5, <1>6, <1>7, <1>8, <1>9 DEF ShutdownInv

\* What the worker prints is on its way; the rest is as it was.
LEMMA PrintsLines ==
  ASSUME ChildTypes, UNCHANGED queue, NEW line \in Printed, Prints(line)
  PROVE  \A m \in OnTheWay' : m \in OnTheWay \/ m = line
<1>1. CASE stdout' = Append(stdout, line)
  <2>1. Lines(stdout') = Lines(stdout) \cup {line}
    BY <1>1, LinesAppended DEF ChildTypes
  <2>2. Lines(stdout)' = Lines(stdout') /\ Lines(queue)' = Lines(queue)
    BY DEF Lines
  <2> QED
    BY <2>1, <2>2 DEF OnTheWay
<1>2. CASE stdout' = stdout
  BY <1>2 DEF OnTheWay, Lines
<1> QED
  BY <1>1, <1>2 DEF Prints

\* A worker that runs and has not agreed to shut down tells of its request.
LEMMA ShutdownSays ==
  ASSUME RuntimeInv, ShutdownInv, ParentStays, UNCHANGED stdin, life = "alive", life' = "alive",
         worker'.pc # "exiting",
         \A r \in Request : Working' /\ worker'.req = r =>
           Working /\ worker.req = r /\ worker'.act = worker.act,
         worker'.req \in {worker.req, 0}, Working' => worker'.req # 0,
         Working' => worker'.act = worker.act /\ worker'.req = worker.req /\ Working,
         worker'.pc = "calling" => worker'.act = "work",
         \A m \in OnTheWay' :
           \/ m \in OnTheWay \/ m.kind \in {"hello", "garbage", "long"}
           \/ m.kind = "call" /\ m.req = worker.req /\ Working /\ worker.act = "work"
           \/ m.kind = "result" /\ m.req = worker.req /\ Working /\ ~Working'
  PROVE  ShutdownInv'
<1>0. /\ Numbered /\ Understood /\ EndSeen /\ AnsweredOnce /\ Expected /\ AgreementComes
      /\ RequestsCounted /\ count.requests \in Nat /\ operator.req \in Nat
      /\ UNCHANGED <<operator, reader, flags, queue, outcome, stdin>> /\ count'.requests = count.requests
  BY DEF ShutdownInv, ParentStays, RuntimeInv, RuntimeTypes, ThreadTypes, TallyTypes, Operator
<1>1. operator.pc \in {"open", "write"} => 0 < operator.req
  BY <1>0 DEF RequestsCounted, Serving
<1>2. Numbered'
  BY <1>0, <1>1 DEF Numbered, About
<1>3. Understood'
  BY <1>0 DEF Understood, Asked, Working
<1>4. EndSeen'
  BY <1>0 DEF EndSeen, EndQueued, Lines
<1>5. AnsweredOnce'
  <2>1. \A r \in Request : Asked(r) => ~(Working /\ worker.req = r)
    BY <1>0 DEF AnsweredOnce
  <2>2. \A r \in Request : Ahead(r)' => Ahead(r) /\ \A m \in OnTheWay' : ~Result(m, r)
    <3> SUFFICES ASSUME NEW r \in Request, Ahead(r)' PROVE Ahead(r) /\ \A m \in OnTheWay' : ~Result(m, r)
      BY DEF Result
    <3>1. Asked(r) \/ (Working' /\ Working /\ worker.req = r)
      BY <1>0 DEF Ahead, Asked
    <3>2. Ahead(r) /\ \A m \in OnTheWay : ~Result(m, r)
      BY <1>0, <3>1 DEF Ahead, AnsweredOnce
    <3> QED
      BY <2>1, <3>1, <3>2 DEF Result
  <2>3. \A r \in Request : ~Left(r)'
    BY DEF Left
  <2> QED
    BY <1>0, <2>1, <2>2, <2>3 DEF AnsweredOnce, Asked, Result
<1>6. Expected'
  <2>1. \A r \in Request : Told(r)' => Told(r)
    BY <1>0 DEF Told, Left
  <2> QED
    BY <1>0, <2>1 DEF Expected
<1>7. AgreementComes'
  BY DEF AgreementComes, Left
<1> QED
  BY <1>2, <1>3, <1>4, <1>5, <1>6, <1>7 DEF ShutdownInv

LEMMA ShutdownTakes ==
  ASSUME RuntimeInv, ShutdownInv, WorkerTakes
  PROVE  ShutdownInv'
<1>0. /\ Numbered /\ Understood /\ EndSeen /\ AnsweredOnce /\ Expected
      /\ RequestsCounted /\ count.requests \in Nat /\ operator.req \in Nat
      /\ UNCHANGED <<operator, reader, flags, queue, outcome, stdout, life, count>> /\ life = "alive"
      /\ worker.pc = "idle" /\ stdin.kind \in LifecycleAction
  BY DEF ShutdownInv, WorkerTakes, WorkerUp, ParentVars, tallyVars, RuntimeInv, RuntimeTypes, ThreadTypes,
     TallyTypes, Operator
<1>1. /\ worker'.pc = "busy" /\ worker'.req = stdin.req /\ worker'.act = stdin.kind
      /\ stdin'.kind = "none" /\ stdin'.req = 0
  BY DEF WorkerTakes, NoLine
<1>2. OnTheWay' = OnTheWay /\ (EndQueued' <=> EndQueued)
  BY <1>0 DEF OnTheWay, Lines, EndQueued
<1>3. operator.pc \in {"open", "write"} => 0 < operator.req
  BY <1>0 DEF RequestsCounted, Serving
<1>4. Numbered'
  BY <1>0, <1>1, <1>2, <1>3 DEF Numbered, About
<1>5. Understood'
  BY <1>0, <1>1, <1>2 DEF Understood, Asked, Working, LifecycleAction
<1>6. EndSeen'
  BY <1>0, <1>2 DEF EndSeen
<1>7. AnsweredOnce'
  <2>1. \A r \in Request : (Ahead(r)' => Ahead(r)) /\ (~Asked(r)') /\ (~Left(r)')
    BY <1>0, <1>1 DEF Ahead, Asked, Left, LifecycleAction, Working
  <2> QED
    BY <1>0, <1>2, <2>1 DEF AnsweredOnce, Result
<1>8. Expected'
  <2>1. \A r \in Request : Told(r)' => Told(r)
    BY <1>0, <1>1 DEF Told, Left
  <2> QED
    BY <1>0, <2>1 DEF Expected
<1>9. AgreementComes'
  BY <1>1 DEF AgreementComes, Left
<1> QED
  BY <1>4, <1>5, <1>6, <1>7, <1>8, <1>9 DEF ShutdownInv

\* The worker agrees to shut down: its agreement is read before its end is.
LEMMA ShutdownAgrees ==
  ASSUME RuntimeInv, ShutdownInv, WorkerResult(TRUE), worker.act = "shutdown"
  PROVE  ShutdownInv'
<1>0. /\ Numbered /\ Understood /\ EndSeen /\ AnsweredOnce /\ Expected /\ ChildTypes
      /\ UNCHANGED <<operator, reader, flags, queue, outcome, stdin, life, count>> /\ life = "alive"
      /\ worker.pc = "busy" /\ Working /\ worker.req \in Nat /\ stdout \in Seq(Printed)
  BY DEF ShutdownInv, WorkerResult, WorkerUp, ParentVars, tallyVars, RuntimeInv, RuntimeTypes,
     ChildTypes, Working
<1>1. /\ worker'.pc = "exiting" /\ worker'.req = worker.req /\ worker'.act = "shutdown" /\ ~Working'
  BY <1>0 DEF WorkerResult, ChildTypes, Working
<1> DEFINE line == ResultOf(worker.req, TRUE)
<1>2. line \in Printed /\ line.kind = "result" /\ line.req = worker.req /\ line.ok
  BY <1>0, PrintedTyped DEF ResultOf
<1>3. Prints(line)
  BY DEF WorkerResult
<1> HIDE DEF line
<1>4. \A m \in OnTheWay' : m \in OnTheWay \/ m = line
  BY <1>0, <1>2, <1>3, PrintsLines
<1>5. EndQueued' <=> EndQueued
  BY <1>0 DEF EndQueued, Lines
<1>6. Numbered'
  BY <1>0, <1>1, <1>2, <1>4 DEF Numbered, About
<1>7. Understood'
  BY <1>0, <1>1, <1>2, <1>4 DEF Understood, Asked
<1>8. EndSeen'
  BY <1>0, <1>5 DEF EndSeen
<1>9. AnsweredOnce'
  <2>1. \A r \in Request : Asked(r) => worker.req # r
    BY <1>0 DEF AnsweredOnce
  <2>2. \A r \in Request : Ahead(r)' => Asked(r) /\ Ahead(r)
    BY <1>0, <1>1 DEF Ahead, Asked
  <2>3. \A r \in Request : Ahead(r)' => \A m \in OnTheWay' : ~Result(m, r)
    BY <1>0, <1>2, <1>4, <2>1, <2>2 DEF AnsweredOnce, Result
  <2>4. \A r \in Request : Left(r)' => Ahead(r)
    BY <1>0, <1>1 DEF Left, Ahead
  <2>5. \A r \in Request : Left(r)' => \A m \in OnTheWay' : Result(m, r) => m.ok
    BY <1>0, <1>2, <1>4, <2>4 DEF AnsweredOnce, Result
  <2> QED
    BY <1>0, <1>1, <2>1, <2>2, <2>3, <2>4, <2>5 DEF AnsweredOnce, Asked, Left, Result
<1>10. Expected'
  <2>1. \A r \in Request : Told(r)' => Told(r)
    BY <1>0, <1>1 DEF Told, Left
  <2> QED
    BY <1>0, <2>1 DEF Expected
<1>11. AgreementComes'
  <2> SUFFICES ASSUME NEW r \in Request, Left(r)', operator.pc \in {"check", "get"}, ~flags.stopping,
                      flags.fault = "none"
               PROVE  (\E m \in Lines(stdout') : Result(m, r)) /\ reader'.pc = "read" /\ ~EndQueued'
    BY <1>0 DEF AgreementComes, Lines, Result
  <2>1. reader.pc = "read"
    BY <1>0 DEF EndSeen, RuntimeInv, Usable, Serving
  <2>2. Lines(stdout') = Lines(stdout) \cup {line}
    BY <1>0, <1>2, <1>3, <2>1, LinesAppended DEF Prints
  <2>3. Result(line, r)
    BY <1>1, <1>2 DEF Left, Result
  <2>4. ~EndQueued
    BY <1>0 DEF EndSeen
  <2> QED
    BY <1>0, <1>5, <2>1, <2>2, <2>3, <2>4
<1> QED
  BY <1>6, <1>7, <1>8, <1>9, <1>10, <1>11 DEF ShutdownInv

LEMMA ShutdownChild ==
  ASSUME RuntimeInv, ShutdownInv, ChildStep
  PROVE  ShutdownInv'
<1>0. /\ ChildTypes /\ TallyTypes /\ Numbered /\ Understood /\ EndSeen /\ ParentStays /\ worker.req \in Nat
  <2>1. UNCHANGED <<operator, reader, flags, queue, outcome>>
    BY DEF ChildStep, WorkerHello, WorkerTakes, WorkerCalls, WorkerAnswered, WorkerResult, WorkerEnds,
       PluginMisbehaves, BroodEnds, ParentVars, tallyVars
  <2>2. count'.requests = count.requests
    <3>1. CASE PluginMisbehaves
      BY <3>1 DEF PluginMisbehaves, RuntimeInv, RuntimeTypes, TallyTypes
    <3> QED
      BY <3>1 DEF ChildStep, WorkerHello, WorkerTakes, WorkerCalls, WorkerAnswered, WorkerResult,
         WorkerEnds, BroodEnds
  <2> QED
    BY <2>1, <2>2 DEF RuntimeInv, RuntimeTypes, ShutdownInv, ParentStays, ChildTypes
<1>1. CASE WorkerHello
  <2>1. \A m \in OnTheWay' : m \in OnTheWay \/ m.kind = "hello"
    BY <1>0, <1>1, PrintedTyped, PrintsLines DEF WorkerHello, ParentStays, Hello
  <2>2. worker'.pc = "idle" /\ worker'.req = 0 /\ ~Working'
    BY <1>1 DEF WorkerHello, AtRest, Working
  <2> QED
    BY <1>0, <1>1, <2>1, <2>2, ShutdownSays DEF WorkerHello, WorkerUp
<1>2. CASE WorkerTakes
  BY <1>2, ShutdownTakes
<1>3. CASE WorkerCalls
  <2>1. /\ worker'.pc = "calling" /\ worker'.req = worker.req /\ worker'.act = worker.act
        /\ worker.act = "work" /\ Working /\ Working'
    BY <1>0, <1>3 DEF WorkerCalls, ChildTypes, Working
  <2>2. \A m \in OnTheWay' : m \in OnTheWay \/ (m.kind = "call" /\ m.req = worker.req)
    BY <1>0, <1>3, PrintedTyped, PrintsLines DEF WorkerCalls, ParentStays, CallOf
  <2>3. worker.req # 0
    BY <1>0, <2>1 DEF Understood
  <2> QED
    BY <1>0, <1>3, <2>1, <2>2, <2>3, ShutdownSays DEF WorkerCalls, WorkerUp
<1>4. CASE /\ WorkerUp /\ worker.pc = "calling" /\ stdin.kind = "reply" /\ stdin' = NoLine
           /\ worker' = [worker EXCEPT !.pc = "busy"] /\ UNCHANGED <<stdout, life>>
  <2>1. /\ worker'.pc = "busy" /\ worker'.req = worker.req /\ worker'.act = worker.act
        /\ Working /\ Working' /\ stdin'.kind = "none" /\ stdin'.req = 0
    BY <1>0, <1>4 DEF ChildTypes, Working, NoLine
  <2>2. OnTheWay' = OnTheWay /\ (EndQueued' <=> EndQueued)
    BY <1>0, <1>4 DEF OnTheWay, Lines, EndQueued, ParentStays
  <2>3. operator.pc \in {"open", "write"} => 0 < operator.req
    BY DEF RuntimeInv, RuntimeTypes, ThreadTypes, Operator, RequestsCounted, Serving
  <2>4. Numbered' /\ Understood'
    BY <1>0, <2>1, <2>2, <2>3 DEF Numbered, Understood, About, Asked, LifecycleAction, ParentStays, TallyTypes
  <2>5. EndSeen'
    BY <1>0, <1>4, <2>2 DEF EndSeen, ParentStays, WorkerUp
  <2>6. AnsweredOnce'
    <3>1. \A r \in Request : (Ahead(r)' => Ahead(r)) /\ (~Asked(r)') /\ (~Left(r)')
      BY <2>1 DEF Ahead, Asked, Left, LifecycleAction
    <3> QED
      BY <1>0, <2>2, <3>1 DEF ShutdownInv, AnsweredOnce, Result, ParentStays
  <2>7. Expected'
    <3>1. \A r \in Request : Told(r)' => Told(r)
      BY <2>1 DEF Told, Left
    <3> QED
      BY <1>0, <3>1 DEF ShutdownInv, Expected, ParentStays
  <2>8. AgreementComes'
    BY <2>1 DEF AgreementComes, Left
  <2> QED
    BY <2>4, <2>5, <2>6, <2>7, <2>8 DEF ShutdownInv
<1>5. CASE /\ WorkerUp /\ worker.pc = "calling" /\ Prints(ResultOf(worker.req, FALSE)) /\ worker' = AtRest
           /\ UNCHANGED <<stdin, life>>
  <2>1. worker'.pc = "idle" /\ worker'.req = 0 /\ ~Working' /\ Working
    BY <1>5 DEF AtRest, Working
  <2>2. \A m \in OnTheWay' : m \in OnTheWay \/ (m.kind = "result" /\ m.req = worker.req)
    <3>1. ResultOf(worker.req, FALSE) \in Printed
      BY <1>0, PrintedTyped DEF ParentStays
    <3>2. /\ ResultOf(worker.req, FALSE).kind = "result" /\ ResultOf(worker.req, FALSE).req = worker.req
          /\ Prints(ResultOf(worker.req, FALSE))
      BY <1>5 DEF ResultOf
    <3> QED
      BY <1>0, <3>1, <3>2, PrintsLines DEF ParentStays
  <2> QED
    BY <1>0, <1>5, <2>1, <2>2, ShutdownSays DEF WorkerUp
<1>6. ASSUME NEW ok \in BOOLEAN, WorkerResult(ok), ~(ok /\ worker.act = "shutdown")
      PROVE  ShutdownInv'
  <2>1. worker'.pc = "idle" /\ worker'.req = 0 /\ ~Working' /\ Working
    BY <1>6 DEF WorkerResult, AtRest, Working
  <2>2. \A m \in OnTheWay' : m \in OnTheWay \/ (m.kind = "result" /\ m.req = worker.req)
    BY <1>0, <1>6, PrintedTyped, PrintsLines DEF WorkerResult, ParentStays, ResultOf
  <2> QED
    BY <1>0, <1>6, <2>1, <2>2, ShutdownSays DEF WorkerResult, WorkerUp
<1>7. CASE WorkerEnds
  BY <1>0, <1>7, ShutdownExits DEF WorkerEnds
<1>8. CASE PluginMisbehaves
  <2>1. \A m \in OnTheWay' : m \in OnTheWay \/ m.kind \in {"garbage", "long"}
    <3>1. ASSUME NEW kind \in {"garbage", "long"}, Prints([kind |-> kind])
          PROVE  \A m \in OnTheWay' : m \in OnTheWay \/ m.kind \in {"garbage", "long"}
      BY <1>0, <3>1, PrintedTyped, PrintsLines DEF ParentStays
    <3>2. CASE UNCHANGED stdout
      BY <1>0, <3>2 DEF OnTheWay, Lines, ParentStays
    <3> QED
      BY <1>8, <3>1, <3>2 DEF PluginMisbehaves
  <2>2. worker.req # 0 /\ Working /\ worker.pc = "busy"
    BY <1>0, <1>8 DEF PluginMisbehaves, Understood, Working
  <2>3. UNCHANGED <<life, worker, stdin>> /\ life = "alive" /\ Working'
    BY <1>8, <2>2 DEF PluginMisbehaves, WorkerUp, Working
  <2> QED
    BY <1>0, <2>1, <2>2, <2>3, ShutdownSays
<1>9. CASE BroodEnds
  <2>1. UNCHANGED <<life, worker, stdin, stdout>> /\ UNCHANGED <<operator, reader, flags, queue, outcome>>
        /\ count'.requests = count.requests
    BY <1>0, <1>9 DEF BroodEnds, ParentStays
  <2> QED
    BY <2>1, ShutdownSame
<1> QED
  BY <1>1, <1>2, <1>3, <1>4, <1>5, <1>6, <1>7, <1>8, <1>9, ShutdownAgrees DEF ChildStep, WorkerAnswered

LEMMA ShutdownStep ==
  ASSUME RuntimeInv, RuntimeInv', ShutdownInv, [PluginNext]_plugVars
  PROVE  ShutdownInv'
<1>1. CASE OperatorStep \/ StartRuntime \/ CloseRuntime \/ DeadlinePasses
           \/ (\E act \in LifecycleAction : Invoke(act))
  <2>1. ParentMoves \/ Begins
    BY <1>1, ParentMovesAll, BeginMoves
  <2> QED
    BY <2>1, ShutdownMoves, ShutdownBegins
<1>2. CASE TermStep
  <2>1. CASE TermSignal
    <3>1. /\ UNCHANGED <<operator, reader, flags, queue, outcome, stdout, count>>
          /\ Exits \/ UNCHANGED <<life, worker, stdin>>
      BY <2>1 DEF TermSignal, tallyVars
    <3> QED
      BY <3>1, ShutdownExits, ShutdownSame DEF ParentStays
  <2>2. CASE (\E w \in Thread : TermEnter(w)) \/ TermConfirm \/ TermJoin
    BY <2>2, ParentMovesAll, ShutdownMoves
  <2> QED
    BY <1>2, <2>1, <2>2 DEF TermStep
<1>3. CASE UNCHANGED plugVars
  BY <1>3, ShutdownSame DEF plugVars
<1> QED
  BY <1>1, <1>2, <1>3, ShutdownRead, ShutdownChild DEF PluginNext

LEMMA ShutdownInitially == PluginInit => ShutdownInv
<1> SUFFICES ASSUME PluginInit PROVE ShutdownInv
  OBVIOUS
<1>1. /\ operator.pc = "idle" /\ operator.req = 0 /\ worker.pc = "starting" /\ worker.req = 0
      /\ stdin.kind = "none" /\ stdin.req = 0 /\ stdout = <<>> /\ queue = <<>> /\ count.requests = 0
      /\ flags.fault = "none" /\ ~flags.deferred /\ reader = [pc |-> "off", last |-> "none"]
  BY IdleTyped DEF PluginInit, AtRest, NoLine
<1>2. OnTheWay = {} /\ ~EndQueued
  BY <1>1, NoLines DEF OnTheWay, EndQueued
<1>3. Numbered /\ Understood
  BY <1>1, <1>2 DEF Numbered, Understood, Asked, Working, LifecycleAction
<1>4. EndSeen
  BY <1>1, <1>2 DEF EndSeen, Working
<1>5. AnsweredOnce /\ Expected /\ AgreementComes
  BY <1>1, <1>2 DEF AnsweredOnce, Ahead, Asked, Left, Working, Expected, Told, AgreementComes, Serving,
     LifecycleAction
<1> QED
  BY <1>3, <1>4, <1>5 DEF ShutdownInv

(* A worker that agreed to shut down is answered once, and the end of its   *)
(* output is expected or put aside until its agreement is read.             *)
THEOREM ShutdownInvariant == PluginSpec => []ShutdownInv
<1>1. RuntimeInv /\ RuntimeInv' /\ ShutdownInv /\ [PluginNext]_plugVars => ShutdownInv'
  BY ShutdownStep
<1> QED
  BY RuntimeInvariant, ShutdownInitially, <1>1, PTL DEF PluginSpec

(* A worker that agreed to shut down was told to, and expected to end.     *)
LEMMA AgreedNotCrashed == RuntimeInv /\ ShutdownInv => ShutdownNotCrash
<1> SUFFICES ASSUME RuntimeInv, ShutdownInv, worker.pc = "exiting" PROVE outcome[worker.req] # "crashed"
  BY DEF ShutdownNotCrash
<1>1. worker.req # 0 /\ worker.req <= count.requests /\ worker.req \in Nat
  BY DEF RuntimeInv, RuntimeTypes, ChildTypes, ShutdownInv, Understood, Numbered
<1>2. count.requests <= MaxOperations /\ count.requests \in Nat
  BY RuntimeAssumption DEF RuntimeInv, RuntimeTypes, TallyTypes, RequestsCounted
<1>3. worker.req \in Request
  BY <1>1, <1>2, RuntimeAssumption DEF Request
<1>4. Told(worker.req)
  BY DEF Told, Left
<1> QED
  BY <1>3, <1>4 DEF ShutdownInv, Expected

(* Events are published exactly with success, a worker that agreed to shut  *)
(* down is not taken for a crash, and what looks usable is read by someone. *)
THEOREM GenerationIsSound == PluginSpec => []GenerationSound
BY RuntimeInvariant, EventsInvariant, ShutdownInvariant, WatchedWhenUsable, AgreedNotCrashed, PTL
   DEF GenerationSound, EventsInv

-----------------------------------------------------------------------------
(* What the plugin loader sees of a generation.                            *)
SeenAlive == IF life = "alive" \/ brood THEN "up" ELSE IF life = "none" THEN "none" ELSE "gone"
SeenEnded == flags.stopping \/ flags.fault # "none" \/ operator.pc = "term"
SeenResult == [r \in Request |-> IF outcome[r] \in Error THEN "error" ELSE outcome[r]]

\* Nothing is terminated that was never spawned.
Born == life = "none" => ~flags.handle /\ killer.stage = "none" /\ ~brood

\* It ended, or the loader sees nothing of the step.
EndsOrStays ==
  /\ SeenAlive' = SeenAlive /\ flags'.confirmed = flags.confirmed /\ outcome' = outcome
  /\ \/ (SeenEnded' <=> SeenEnded) /\ flags'.usable = flags.usable
     \/ SeenEnded' /\ flags'.usable \in {flags.usable, FALSE}

LEMMA EndsSeen ==
  ASSUME ThreadTypes, EndsOrStays
  PROVE  Generation!Ends \/ UNCHANGED Generation!genVars
<1>1. SeenResult' = SeenResult
  BY DEF EndsOrStays, SeenResult
<1>2. CASE SeenEnded' /\ flags'.usable \in {flags.usable, FALSE}
  BY <1>1, <1>2 DEF EndsOrStays, SeenAlive, SeenEnded, SeenResult, Generation!Ends
<1>3. CASE (SeenEnded' <=> SeenEnded) /\ flags'.usable = flags.usable
  BY <1>1, <1>3 DEF EndsOrStays, SeenAlive, SeenEnded, SeenResult, Generation!genVars
<1> QED
  BY <1>2, <1>3 DEF EndsOrStays

LEMMA FailsEnds ==
  ASSUME NEW f, f.confirmed = flags.confirmed, Fails(f), UNCHANGED <<life, brood, outcome>>
  PROVE  EndsOrStays
BY DEF Fails, Alike, Flags, EndsOrStays, SeenEnded, SeenAlive

LEMMA StillStays ==
  ASSUME Still, operator.pc # "term", operator'.pc # "term", UNCHANGED <<life, brood, outcome>>
  PROVE  EndsOrStays
BY DEF Still, Alike, EndsOrStays, SeenEnded, SeenAlive

LEMMA SameStays ==
  ASSUME UNCHANGED <<flags, life, brood, outcome>>, (operator.pc = "term") <=> (operator'.pc = "term")
  PROVE  EndsOrStays
BY DEF EndsOrStays, SeenEnded, SeenAlive

\* An operation that waits, sends or gives up.
LEMMA OperatorSeen ==
  ASSUME RuntimeInv,
         \/ SpawnFails \/ CheckTransport \/ GetTimesOut \/ Get \/ BeginInvoke \/ OpenSession
         \/ WriteRequest \/ ReplyCall \/ HandleCall \/ Finish \/ Refused \/ CloseNow \/ LeaveOp
         \/ LeaveContained
  PROVE  EndsOrStays
<1>0. /\ ThreadTypes /\ ChildTypes /\ TallyTypes /\ Usable /\ RequestsCounted
      /\ flags \in Flags /\ operator \in Operator
      /\ count.requests \in Nat
  BY DEF RuntimeInv, RuntimeTypes, TallyTypes, ThreadTypes
<1>1. UNCHANGED <<life, brood, outcome>>
  BY DEF SpawnFails, CheckTransport, GetTimesOut, Get, BeginInvoke, OpenSession, WriteRequest, ReplyCall,
     HandleCall, Finish, Refused, CloseNow, LeaveOp, LeaveContained, childVars, tallyVars
<1>2. ASSUME Fails(flags) PROVE EndsOrStays
  BY <1>1, <1>2, FailsEnds
<1>3. ASSUME NEW pc, Goes(pc), pc # "term", operator.pc # "term", Still PROVE EndsOrStays
  BY <1>1, <1>3, StillStays DEF Goes
<1>4. CASE SpawnFails
  <2>1. operator.pc = "spawn" /\ operator'.pc = "settle" /\ UNCHANGED flags
    BY <1>0, <1>4, RaiseDoes DEF SpawnFails, Code, Error
  <2> QED
    BY <1>1, <2>1, SameStays
<1>5. CASE CheckTransport
  <2>1. operator.pc \in {"hello?", "check"}
    BY <1>5 DEF CheckTransport, Waits
  <2> QED
    BY <1>0, <1>2, <1>3, <1>5, <2>1, CheckDoes
<1>6. CASE GetTimesOut
  BY <1>0, <1>2, <1>6, GetTimesOutDoes
<1>7. CASE Get
  BY <1>0, <1>2, <1>3, <1>7, GetDoes
<1>8. CASE BeginInvoke
  <2>1. operator.pc = "begin"
    BY <1>8 DEF BeginInvoke
  <2>2. Fails(flags) \/ (operator'.pc # "term" /\ Still)
    BY <1>0, <1>8, BeginDoes
  <2> QED
    BY <1>1, <1>2, <2>1, <2>2, StillStays
<1>9. CASE OpenSession
  <2>1. CASE Goes("write")
    <3>1. /\ operator.pc = "open" /\ operator'.pc = "write"
          /\ flags' = IF operator.act = "shutdown" THEN ExpectsEnd(flags) ELSE flags
      BY <1>0, <1>9, <2>1 DEF OpenSession, Goes, Fatal, Operator
    <3>2. /\ flags'.stopping = flags.stopping /\ flags'.fault = flags.fault
          /\ flags'.confirmed = flags.confirmed /\ flags'.usable = flags.usable
      BY <1>0, <3>1 DEF ExpectsEnd, Flags
    <3> QED
      BY <1>1, <3>1, <3>2 DEF EndsOrStays, SeenEnded, SeenAlive
  <2> QED
    BY <1>0, <1>2, <1>9, <2>1, OpenDoes
<1>10. CASE WriteRequest \/ ReplyCall
  <2>1. operator.pc \in {"write", "reply"}
    BY <1>10 DEF WriteRequest, ReplyCall
  <2>2. Fails(flags) \/ (Goes("check") /\ Still)
    <3>1. CASE Fatal("timeout", flags)
      BY <1>0, <3>1, FatalFails DEF ThreadTypes, Error, Fault
    <3>2. CASE \E line : Send(line)
      BY <1>0, <3>2, SendDoes
    <3> QED
      BY <1>10, <3>1, <3>2 DEF WriteRequest, ReplyCall
  <2> QED
    BY <1>2, <1>3, <2>1, <2>2
<1>11. CASE HandleCall
  <2>1. operator.pc = "handle" /\ operator.req \in Request
    BY <1>0, <1>11, OfRequest DEF HandleCall, RequestsCounted, Serving
  <2>2. operator'.pc = "reply" /\ UNCHANGED flags
    BY <1>0, <1>11, <2>1, HandleDoes DEF Goes
  <2> QED
    BY <1>1, <2>1, <2>2, SameStays
<1>12. CASE Finish
  <2>1. operator.pc = "finish"
    BY <1>12 DEF Finish
  <2>2. CASE \E f \in Flags : Fails(f) /\ Alike(f, [flags EXCEPT !.deferred = f.deferred])
    <3>1. PICK f \in Flags : Fails(f) /\ Alike(f, [flags EXCEPT !.deferred = f.deferred])
      BY <2>2
    <3>2. f.confirmed = flags.confirmed
      BY <1>0, <3>1 DEF Alike, Flags
    <3> QED
      BY <1>1, <3>1, <3>2, FailsEnds
  <2>3. CASE /\ flags' \in Flags /\ flags'.usable = flags.usable /\ operator'.pc = "term"
             /\ Alike(flags', [flags EXCEPT !.deferred = FALSE])
    <3>1. flags'.confirmed = flags.confirmed
      BY <1>0, <2>3 DEF Alike, Flags
    <3> QED
      BY <1>1, <2>3, <3>1 DEF EndsOrStays, SeenEnded, SeenAlive
  <2> QED
    BY <1>0, <1>3, <1>12, <2>1, <2>2, <2>3, FinishDoes
<1>13. CASE Refused
  <2>1. operator.pc = "refused" /\ operator'.pc = "settle" /\ flags'.confirmed = flags.confirmed
        /\ flags'.stopping = flags.stopping
    BY <1>0, <1>13, RefusedDoes DEF Refused
  <2>2. CASE flags'.fault = flags.fault /\ flags'.usable = flags.usable
    BY <1>1, <2>1, <2>2 DEF EndsOrStays, SeenEnded, SeenAlive
  <2>3. CASE flags'.fault = "crashed" /\ ~flags'.usable
    <3>1. flags'.usable = FALSE
      BY <1>0, <1>13, <2>3, RefusedDoes DEF Flags
    <3> QED
      BY <1>1, <2>1, <2>3, <3>1 DEF EndsOrStays, SeenEnded, SeenAlive
  <2> QED
    BY <1>0, <1>13, <2>2, <2>3, RefusedDoes DEF Still, Alike
<1>14. CASE CloseNow
  <2>1. /\ operator.pc = "close" /\ flags'.confirmed = flags.confirmed
        /\ flags'.stopping = flags.stopping /\ flags'.fault = flags.fault /\ flags'.usable = FALSE
        /\ flags.usable \in BOOLEAN
    BY <1>0, <1>14, CloseNowDoes DEF CloseNow, Alike, Flags
  <2>2. CASE operator'.pc = "term"
    BY <1>1, <2>1, <2>2 DEF EndsOrStays, SeenEnded, SeenAlive
  <2>3. CASE operator'.pc = "leave"
    <3>1. ~flags.handle
      BY <1>0, <1>14, <2>3 DEF CloseNow, Operator
    <3> QED
      BY <1>0, <1>1, <2>1, <2>3, <3>1 DEF EndsOrStays, SeenEnded, SeenAlive, Usable
  <2> QED
    BY <1>0, <1>14, <2>2, <2>3, CloseNowDoes
<1>15. CASE LeaveOp
  <2>1. /\ operator.pc = "leave" /\ operator'.pc = "left" /\ flags'.confirmed = flags.confirmed
        /\ flags'.stopping = flags.stopping /\ flags'.fault = flags.fault /\ flags'.usable = flags.usable
    BY <1>0, <1>15 DEF LeaveOp, Flags, Operator
  <2> QED
    BY <1>1, <2>1 DEF EndsOrStays, SeenEnded, SeenAlive
<1>16. CASE LeaveContained
  <2>1. operator.pc = "left" /\ UNCHANGED flags /\ (operator'.pc = "term" \/ operator'.pc = "idle")
    BY <1>0, <1>16, LeaveContainedDoes, IdleTyped DEF LeaveContained
  <2> QED
    BY <1>1, <2>1 DEF EndsOrStays, SeenEnded, SeenAlive
<1> QED
  BY <1>4, <1>5, <1>6, <1>7, <1>8, <1>9, <1>10, <1>11, <1>12, <1>13, <1>14, <1>15, <1>16

\* The reader sees the end of the output or a fault of the transport.
LEMMA ReaderSeen ==
  ASSUME RuntimeInv, ReaderStep
  PROVE  EndsOrStays
<1>0. ThreadTypes /\ flags \in Flags /\ UNCHANGED <<life, brood, outcome, operator>>
      /\ reader.last \in {"none", "eof", "long"}
  BY DEF RuntimeInv, RuntimeTypes, ThreadTypes, ReaderStep, ReadLine, ReadEnd, ReaderSchedules, ReaderPuts,
     childVars, tallyVars
<1>1. ASSUME NEW code \in Fault, NEW last \in {"none", "eof", "long"}, ObserveFault(code, last)
      PROVE  EndsOrStays
  <2>1. CASE flags.stopping \/ flags.fault # "none"
    BY <1>0, <1>1, <2>1, ObserveDoes, SameStays
  <2>2. CASE ~flags.stopping /\ flags.fault = "none"
    <3>1. flags'.usable = FALSE /\ flags'.fault # "none" /\ flags'.confirmed = flags.confirmed
      BY <1>0, <1>1, <2>2, ObserveDoes DEF Flags
    <3> QED
      BY <1>0, <3>1 DEF EndsOrStays, SeenEnded, SeenAlive
  <2> QED
    BY <2>1, <2>2
<1>2. ASSUME flags'.usable = flags.usable, flags'.confirmed = flags.confirmed,
             flags'.stopping = flags.stopping, flags'.fault = flags.fault
      PROVE  EndsOrStays
  BY <1>0, <1>2 DEF EndsOrStays, SeenEnded, SeenAlive
<1>3. CASE ReadLine
  <2>1. \/ \E last \in {"long", "none"} : ObserveFault("limit", last)
        \/ flags' = [flags EXCEPT !.hello = @ \/ Head(stdout).kind = "hello"]
    BY <1>3 DEF ReadLine
  <2> QED
    BY <1>0, <1>1, <1>2, <2>1 DEF Fault, Flags
<1>4. CASE ReadEnd
  <2>1. ObserveFault("crashed", "eof") \/ flags' = [flags EXCEPT !.deferred = TRUE]
    BY <1>4 DEF ReadEnd
  <2> QED
    BY <1>0, <1>1, <1>2, <2>1 DEF Fault, Flags
<1>5. CASE ReaderSchedules
  BY <1>2, <1>5 DEF ReaderSchedules
<1>6. CASE ReaderPuts
  <2>1. \/ ObserveFault("limit", "none")
        \/ flags' = [flags EXCEPT !.overflow = @ \/ reader.last # "eof"]
    BY <1>6 DEF ReaderPuts
  <2> QED
    BY <1>0, <1>1, <1>2, <2>1 DEF Fault, Flags
<1> QED
  BY <1>3, <1>4, <1>5, <1>6 DEF ReaderStep

\* The process or what it left behind ends, and nothing else is seen of it.
LEMMA VanishesSeen ==
  ASSUME UNCHANGED <<flags, outcome>>, (operator.pc = "term") <=> (operator'.pc = "term"),
         SeenAlive' = SeenAlive \/ (SeenAlive = "up" /\ SeenAlive' = "gone")
  PROVE  Generation!Vanishes \/ UNCHANGED Generation!genVars
<1>1. SeenResult' = SeenResult /\ (SeenEnded' <=> SeenEnded)
  BY DEF SeenResult, SeenEnded
<1>2. CASE SeenAlive' = SeenAlive
  BY <1>1, <1>2 DEF SeenAlive, SeenEnded, SeenResult, Generation!genVars
<1>3. CASE SeenAlive = "up" /\ SeenAlive' = "gone"
  BY <1>1, <1>3 DEF SeenAlive, SeenEnded, SeenResult, Generation!Vanishes
<1> QED
  BY <1>2, <1>3

LEMMA ChildSeen ==
  ASSUME RuntimeInv, Born, ChildStep
  PROVE  Generation!Vanishes \/ UNCHANGED Generation!genVars
<1>0. /\ life \in {"none", "alive", "exited"} /\ brood \in BOOLEAN /\ UNCHANGED <<flags, outcome, operator>>
  BY DEF RuntimeInv, RuntimeTypes, ChildTypes, ChildStep, WorkerHello, WorkerTakes, WorkerCalls,
     WorkerAnswered, WorkerResult, WorkerEnds, PluginMisbehaves, BroodEnds, ParentVars, tallyVars
<1>1. CASE UNCHANGED <<life, brood>>
  BY <1>0, <1>1, VanishesSeen DEF SeenAlive
<1>2. CASE WorkerEnds
  BY <1>0, <1>2, VanishesSeen DEF SeenAlive, WorkerEnds, WorkerUp, Exits
<1>3. CASE PluginMisbehaves
  BY <1>0, <1>3, VanishesSeen DEF SeenAlive, PluginMisbehaves, WorkerUp
<1>4. CASE BroodEnds
  BY <1>0, <1>4, VanishesSeen DEF SeenAlive, BroodEnds, Born
<1> QED
  BY <1>1, <1>2, <1>3, <1>4 DEF ChildStep, WorkerHello, WorkerTakes, WorkerCalls, WorkerAnswered, WorkerResult

\* The termination: it ends the generation, and says of it only what is so.
LEMMA TermSeen ==
  ASSUME RuntimeInv, Born, TermStep
  PROVE  Generation!GenNext \/ UNCHANGED Generation!genVars
<1>0. /\ ThreadTypes /\ Terminating /\ flags \in Flags /\ UNCHANGED outcome
      /\ life \in {"none", "alive", "exited"} /\ brood \in BOOLEAN
  BY DEF RuntimeInv, RuntimeTypes, ThreadTypes, ChildTypes, TermStep, TermEnter, TermSignal, TermConfirm,
     TermJoin, tallyVars
<1>1. CASE \E w \in Thread : TermEnter(w)
  <2>1. /\ flags' = [flags EXCEPT !.stopping = TRUE, !.expected = FALSE, !.deferred = FALSE,
                                  !.usable = FALSE, !.closedIn = @ \/ flags.handle]
        /\ UNCHANGED <<life, brood>>
    BY <1>1 DEF TermEnter, childVars
  <2>2. flags'.stopping /\ flags'.usable = FALSE /\ flags'.confirmed = flags.confirmed
    BY <1>0, <2>1 DEF Flags
  <2> QED
    BY <1>0, <2>1, <2>2, EndsSeen DEF EndsOrStays, SeenAlive, SeenEnded, Generation!GenNext
<1>2. CASE TermSignal
  <2>1. UNCHANGED <<flags, operator, brood>> /\ (life' = life \/ (life' = "exited" /\ life # "none"))
    BY <1>2 DEF TermSignal, Exits, Born
  <2> QED
    BY <1>0, <2>1, VanishesSeen DEF SeenAlive, Generation!GenNext
<1>3. ASSUME killer.stage \in {"confirm", "join"}, NEW sure \in BOOLEAN,
             sure => life = "exited" /\ ~brood, UNCHANGED <<life, brood>>,
             flags'.confirmed = sure, flags'.usable = flags.usable,
             flags'.stopping = flags.stopping, flags'.fault = flags.fault
      PROVE  Generation!GenNext
  <2>1. flags.stopping /\ flags'.stopping
    BY <1>0, <1>3 DEF Terminating
  <2>2. SeenResult' = SeenResult /\ SeenAlive' = SeenAlive /\ SeenEnded = TRUE /\ SeenEnded' = TRUE
    BY <1>0, <1>3, <2>1 DEF SeenResult, SeenAlive, SeenEnded
  <2>3. flags'.confirmed \in {FALSE, SeenAlive = "gone"}
    BY <1>3 DEF SeenAlive
  <2>4. Generation!Confirms
    BY <1>3, <2>2, <2>3 DEF SeenResult, SeenAlive, SeenEnded, Generation!Confirms
  <2> QED
    BY <2>4 DEF Generation!GenNext
<1>4. CASE TermConfirm
  <2>1. UNCHANGED life /\ killer.stage = "confirm"
        /\ (life = "exited" => brood' \in {brood, FALSE}) /\ (life # "exited" => brood' = brood)
    BY <1>4 DEF TermConfirm
  <2>2. CASE GroupGone(brood')
    <3>1. UNCHANGED operator /\ flags' = [flags EXCEPT !.closedOut = TRUE] /\ life = "exited" /\ ~brood'
      BY <1>4, <2>2 DEF TermConfirm, GroupGone
    <3>2. /\ flags'.usable = flags.usable /\ flags'.confirmed = flags.confirmed
          /\ flags'.stopping = flags.stopping /\ flags'.fault = flags.fault
      BY <1>0, <3>1 DEF Flags
    <3>3. CASE brood
      <4>1. SeenAlive = "up" /\ SeenAlive' = "gone"
        BY <2>1, <3>1, <3>3 DEF SeenAlive
      <4>2. SeenResult' = SeenResult /\ (SeenEnded' <=> SeenEnded)
        BY <1>0, <3>1, <3>2 DEF SeenResult, SeenEnded
      <4> QED
        BY <3>2, <4>1, <4>2 DEF SeenAlive, SeenEnded, SeenResult, Generation!Vanishes, Generation!GenNext
    <3>4. CASE ~brood
      <4>1. brood' = brood
        BY <1>0, <2>1, <3>4
      <4> QED
        BY <1>0, <2>1, <3>1, <3>2, <4>1, EndsSeen DEF EndsOrStays, SeenAlive, SeenEnded, Generation!GenNext
    <3> QED
      BY <3>3, <3>4
  <2>3. CASE ~GroupGone(brood')
    <3>1. flags' = [flags EXCEPT !.confirmed = FALSE] /\ brood' = brood
      BY <1>0, <1>4, <2>1, <2>3 DEF TermConfirm, GroupGone
    <3> QED
      BY <1>0, <1>3, <2>1, <3>1 DEF Flags
  <2> QED
    BY <2>2, <2>3
<1>5. CASE TermJoin
  <2>1. UNCHANGED <<life, brood>> /\ killer.stage = "join"
    BY <1>5 DEF TermJoin, childVars
  <2>2. PICK sure \in BOOLEAN, kept \in BOOLEAN : flags' = [flags EXCEPT !.confirmed = sure, !.handle = kept]
    BY <1>5 DEF TermJoin
  <2>3. life = "exited" /\ ~brood
    BY <1>0, <2>1 DEF Terminating
  <2> QED
    BY <1>0, <1>3, <2>1, <2>2, <2>3 DEF Flags
<1> QED
  BY <1>1, <1>2, <1>4, <1>5 DEF TermStep

\* The steps of an operation that the loader sees.
LEMMA SpawnSeen ==
  ASSUME RuntimeInv, Spawn
  PROVE  Generation!Begins
<1>0. ThreadTypes /\ flags \in Flags /\ operator.pc = "spawn" /\ UNCHANGED <<brood, outcome>> /\ Fresh
  BY DEF RuntimeInv, RuntimeTypes, ThreadTypes, Spawn, Unspawned, tallyVars
<1>1. /\ life' = "alive" /\ flags'.confirmed = flags.confirmed
      /\ flags'.usable \in {flags.usable, FALSE}
  BY <1>0, SpawnDoes DEF Alike, Flags
<1>2. flags'.usable = flags.usable
  BY <1>0, <1>1 DEF Fresh, Flags
<1>3. SeenAlive = "none" /\ SeenAlive' = "up" /\ SeenEnded' \in BOOLEAN /\ SeenResult' = SeenResult
  BY <1>0, <1>1 DEF SeenAlive, SeenEnded, SeenResult, Fresh
<1> QED
  BY <1>1, <1>2, <1>3 DEF SeenAlive, SeenEnded, SeenResult, Generation!Begins

LEMMA ShakenSeen ==
  ASSUME RuntimeInv, Shaken
  PROVE  Generation!Opens \/ EndsOrStays
<1>0. /\ ThreadTypes /\ Usable /\ Terminating /\ operator.pc = "shaken" /\ UNCHANGED <<life, brood, outcome>>
      /\ life # "none" /\ life \in {"none", "alive", "exited"}
  BY DEF RuntimeInv, RuntimeTypes, Shaken, Unspawned, Handshake, ChildTypes, childVars, tallyVars
<1>1. CASE Fails(flags)
  BY <1>0, <1>1, FailsEnds
<1>2. CASE flags.fault = "none" /\ Goes("leave") /\ flags' \in Flags /\ Alike(flags', flags) /\ flags'.usable
  <2>1. ~SeenEnded /\ ~SeenEnded'
    BY <1>0, <1>2 DEF SeenEnded, Terminating, Handshake, Goes, Alike
  <2>2. SeenAlive # "none" /\ SeenAlive' = SeenAlive /\ SeenResult' = SeenResult
    BY <1>0 DEF SeenAlive, SeenResult
  <2>3. flags'.usable = TRUE /\ flags'.confirmed = flags.confirmed
    BY <1>2 DEF Alike, Flags
  <2> QED
    BY <2>1, <2>2, <2>3 DEF SeenAlive, SeenEnded, SeenResult, Generation!Opens
<1> QED
  BY <1>0, <1>1, <1>2, ShakenDoes

\* An invoke that comes back: with a failure only when the generation ended.
LEMMA OutcomeSeen ==
  ASSUME TallyTypes, NEW r \in Request, outcome[r] = "none", NEW code \in Error \cup {"ok", "refused"},
         outcome' = [outcome EXCEPT ![r] = code], UNCHANGED <<life, brood, flags>>,
         (operator'.pc = "term") <=> (operator.pc = "term"),
         code \in Error => flags.stopping
  PROVE  Generation!Answers(r) \/ Generation!Fails(r)
<1>1. outcome \in [Request -> Code \cup {"ok"}] /\ {"ok", "refused", "none"} \cap Error = {}
  BY DEF TallyTypes, Error, Fault
<1>2. SeenAlive' = SeenAlive /\ (SeenEnded' <=> SeenEnded)
  BY DEF SeenAlive, SeenEnded
<1>3. SeenResult[r] = "none"
  BY <1>1 DEF SeenResult
<1>4. SeenResult' = [SeenResult EXCEPT ![r] = IF code \in Error THEN "error" ELSE code]
  BY <1>1 DEF SeenResult
<1>5. CASE code \in Error
  BY <1>2, <1>3, <1>4, <1>5 DEF SeenAlive, SeenEnded, SeenResult, Generation!Fails
<1>6. CASE code \notin Error
  BY <1>2, <1>3, <1>4, <1>6 DEF SeenAlive, SeenEnded, SeenResult, Generation!Answers
<1> QED
  BY <1>5, <1>6

LEMMA SettleSeen ==
  ASSUME RuntimeInv, Commit \/ SettleFailure
  PROVE  EndsOrStays \/ \E r \in Request : Generation!Answers(r) \/ Generation!Fails(r)
<1>0. /\ ThreadTypes /\ TallyTypes /\ CodesSound /\ RequestsCounted /\ operator \in Operator
      /\ count.requests \in Nat /\ UNCHANGED <<life, brood>>
  BY DEF RuntimeInv, RuntimeTypes, ThreadTypes, TallyTypes, Commit, SettleFailure, childVars
<1>1. CASE Commit
  <2>1. CASE Fails(flags) /\ UNCHANGED outcome
    BY <1>0, <2>1, FailsEnds
  <2>2. CASE Goes("leave") /\ outcome' = [outcome EXCEPT ![operator.req] = "ok"] /\ ~flags.late
    <3>1. operator.req \in Request /\ outcome[operator.req] = "none" /\ operator.pc = "commit"
      BY <1>0, <1>1, OfRequest DEF Commit, RequestsCounted, Unsettled
    <3>2. UNCHANGED flags /\ operator'.pc = "leave"
      BY <1>1, <2>2 DEF Commit, Goes
    <3> QED
      BY <1>0, <2>2, <3>1, <3>2, OutcomeSeen DEF Error, Fault
  <2>3. flags.late => Fails(flags) /\ UNCHANGED outcome
    BY <1>0, <1>1, FatalFails DEF Commit, ThreadTypes, Error, Fault
  <2> QED
    BY <1>0, <1>1, <2>1, <2>2, <2>3, CommitDoes
<1>2. CASE SettleFailure
  <2>1. /\ operator.pc = "settle" /\ operator'.pc = "leave" /\ UNCHANGED flags
        /\ outcome' = IF operator.req = 0 THEN outcome
                      ELSE [outcome EXCEPT ![operator.req] = operator.code]
    BY <1>0, <1>2 DEF SettleFailure, Operator
  <2>2. CASE operator.req = 0
    BY <1>0, <2>1, <2>2, SameStays
  <2>3. CASE operator.req # 0
    <3>1. operator.req \in Request /\ outcome[operator.req] = "none"
      BY <1>0, <2>1, <2>3, OfRequest DEF RequestsCounted, Unsettled
    <3>2. operator.code \in Error \cup {"ok", "refused"} /\ (operator.code \in Error => flags.stopping)
      BY <1>0, <2>1, <2>3 DEF CodesSound, Error, Fault
    <3> QED
      BY <1>0, <2>1, <2>3, <3>1, <3>2, OutcomeSeen
  <2> QED
    BY <2>2, <2>3
<1> QED
  BY <1>1, <1>2

LEMMA BornStep ==
  ASSUME RuntimeInv, Born, [PluginNext]_plugVars
  PROVE  Born'
<1>0. ThreadTypes /\ flags \in Flags /\ Terminating
  BY DEF RuntimeInv, RuntimeTypes, ThreadTypes
<1>1. CASE UNCHANGED <<life, brood, killer>> /\ flags'.handle = flags.handle
  BY <1>1 DEF Born
<1>2. CASE TermStep \/ ChildStep
  <2>1. (life' = life \/ life' = "exited") /\ (life = "none" /\ life' = "none" => brood' \in {brood, FALSE})
    BY <1>2 DEF TermStep, TermEnter, TermSignal, TermConfirm, TermJoin, Exits, ChildStep, WorkerHello,
       WorkerTakes, WorkerCalls, WorkerAnswered, WorkerResult, WorkerEnds, PluginMisbehaves, BroodEnds,
       WorkerUp, childVars
  <2>2. ASSUME life = "none" PROVE ~flags'.handle /\ killer'.stage = "none"
    <3>1. killer.stage = "none" /\ ~flags.handle
      BY <2>2 DEF Born
    <3>2. CASE \E w \in Thread : TermEnter(w)
      BY <1>0, <3>1, <3>2 DEF TermEnter, Continue, Flags
    <3>3. CASE ChildStep
      BY <3>1, <3>3 DEF ChildStep, WorkerHello, WorkerTakes, WorkerCalls, WorkerAnswered, WorkerResult,
         WorkerEnds, PluginMisbehaves, BroodEnds, ParentVars
    <3> QED
      BY <1>2, <3>1, <3>2, <3>3 DEF TermStep, TermSignal, TermConfirm, TermJoin
  <2> QED
    BY <2>1, <2>2 DEF Born
<1>3. CASE Spawn
  BY <1>3 DEF Spawn, Born
<1>4. CASE OperatorStep /\ ~Spawn
  <2>1. UNCHANGED <<life, brood, killer>>
    BY <1>4 DEF OperatorStep, SpawnFails, Shaken, CheckTransport, GetTimesOut, Get, BeginInvoke, OpenSession,
       WriteRequest, HandleCall, ReplyCall, Finish, Refused, Commit, SettleFailure, CloseNow, LeaveOp,
       LeaveContained, childVars
  <2>2. flags'.handle = flags.handle
    <3>0. /\ ChildTypes /\ TallyTypes /\ Usable /\ CodesSound /\ RequestsCounted /\ operator \in Operator
          /\ count.requests \in Nat
      BY DEF RuntimeInv, RuntimeTypes, TallyTypes, ThreadTypes
    <3>1. ASSUME NEW f \in Flags, f.handle = flags.handle, Fails(f) PROVE flags'.handle = flags.handle
      BY <3>1 DEF Fails, Alike
    <3>2. ASSUME Still PROVE flags'.handle = flags.handle
      BY <3>2 DEF Still, Alike
    <3>3. CASE CheckTransport
      BY <1>0, <3>0, <3>1, <3>2, <3>3, CheckDoes
    <3>4. CASE GetTimesOut
      BY <1>0, <3>1, <3>4, GetTimesOutDoes
    <3>5. CASE Get
      BY <1>0, <3>0, <3>1, <3>2, <3>5, GetDoes
    <3>6. CASE BeginInvoke
      BY <1>0, <3>0, <3>1, <3>2, <3>6, BeginDoes
    <3>7. CASE OpenSession
      BY <1>0, <3>1, <3>7, OpenDoes DEF Alike, Flags
    <3>8. CASE WriteRequest \/ ReplyCall
      <4>1. CASE Fatal("timeout", flags)
        BY <1>0, <3>1, <4>1, FatalFails DEF Error, Fault
      <4>2. CASE \E line : Send(line)
        BY <1>0, <3>1, <3>2, <4>2, SendDoes
      <4> QED
        BY <3>8, <4>1, <4>2 DEF WriteRequest, ReplyCall
    <3>9. CASE Finish
      <4>1. CASE \E f \in Flags : Fails(f) /\ Alike(f, [flags EXCEPT !.deferred = f.deferred])
        BY <1>0, <3>1, <4>1 DEF Alike, Flags
      <4>2. CASE Alike(flags', [flags EXCEPT !.deferred = FALSE])
        BY <1>0, <4>2 DEF Alike, Flags
      <4> QED
        BY <1>0, <3>2, <3>9, <4>1, <4>2, FinishDoes
    <3>10. CASE Refused
      BY <1>0, <3>10, RefusedDoes
    <3>11. CASE Commit
      BY <1>0, <3>1, <3>2, <3>11, CommitDoes
    <3>12. CASE Shaken
      BY <1>0, <3>0, <3>1, <3>12, ShakenDoes DEF Alike
    <3>13. CASE CloseNow \/ LeaveOp
      BY <1>0, <3>13 DEF CloseNow, LeaveOp, Flags
    <3>14. CASE UNCHANGED flags
      BY <3>14
    <3> QED
      BY <1>4, <3>3, <3>4, <3>5, <3>6, <3>7, <3>8, <3>9, <3>10, <3>11, <3>12, <3>13, <3>14
         DEF OperatorStep, SpawnFails, HandleCall, SettleFailure, LeaveContained
  <2> QED
    BY <1>1, <2>1, <2>2
<1>5. CASE ReaderStep
  <2>1. UNCHANGED <<life, brood, killer>>
    BY <1>5 DEF ReaderStep, ReadLine, ReadEnd, ReaderSchedules, ReaderPuts, childVars
  <2>2. flags'.handle = flags.handle
    BY <1>0, <1>5 DEF ReaderStep, ReadLine, ReadEnd, ReaderSchedules, ReaderPuts, ObserveFault, Observed, Flags
  <2> QED
    BY <1>1, <2>1, <2>2
<1>6. CASE \/ StartRuntime \/ CloseRuntime \/ DeadlinePasses
           \/ \E act \in LifecycleAction : Invoke(act)
  BY <1>0, <1>1, <1>6 DEF StartRuntime, CloseRuntime, DeadlinePasses, Invoke, EnterOp, Flags, childVars
<1>7. CASE UNCHANGED plugVars
  BY <1>1, <1>7 DEF plugVars
<1> QED
  BY <1>2, <1>3, <1>4, <1>5, <1>6, <1>7 DEF PluginNext

LEMMA GenerationStep ==
  ASSUME RuntimeInv, Born, [PluginNext]_plugVars
  PROVE  [Generation!GenNext]_(Generation!genVars)
<1>0. ThreadTypes /\ flags \in Flags
  BY DEF RuntimeInv, RuntimeTypes, ThreadTypes
<1>1. ASSUME EndsOrStays PROVE [Generation!GenNext]_(Generation!genVars)
  BY <1>0, <1>1, EndsSeen DEF Generation!GenNext
<1>2. CASE OperatorStep
  <2>1. CASE Spawn
    BY <2>1, SpawnSeen DEF Generation!GenNext
  <2>2. CASE Shaken
    BY <1>1, <2>2, ShakenSeen DEF Generation!GenNext
  <2>3. CASE Commit \/ SettleFailure
    BY <1>1, <2>3, SettleSeen DEF Generation!GenNext
  <2> QED
    BY <1>1, <1>2, <2>1, <2>2, <2>3, OperatorSeen DEF OperatorStep
<1>3. CASE ReaderStep
  BY <1>1, <1>3, ReaderSeen
<1>4. CASE TermStep
  BY <1>4, TermSeen
<1>5. CASE ChildStep
  BY <1>5, ChildSeen DEF Generation!GenNext
<1>6. CASE \/ StartRuntime \/ CloseRuntime \/ DeadlinePasses
           \/ \E act \in LifecycleAction : Invoke(act)
  <2>1. UNCHANGED <<life, brood, outcome>>
    BY <1>6 DEF StartRuntime, CloseRuntime, DeadlinePasses, Invoke, childVars, tallyVars
  <2>2. /\ flags'.usable = flags.usable /\ flags'.confirmed = flags.confirmed
        /\ flags'.stopping = flags.stopping /\ flags'.fault = flags.fault
    BY <1>0, <1>6 DEF StartRuntime, CloseRuntime, DeadlinePasses, Invoke, EnterOp, Flags
  <2>3. (operator'.pc = "term") <=> (operator.pc = "term")
    BY <1>6, IdleTyped DEF StartRuntime, CloseRuntime, DeadlinePasses, Invoke, EnterOp, Operator
  <2> QED
    BY <1>1, <2>1, <2>2, <2>3 DEF EndsOrStays, SeenEnded, SeenAlive
<1>7. CASE UNCHANGED plugVars
  BY <1>1, <1>7, SameStays DEF plugVars
<1> QED
  BY <1>2, <1>3, <1>4, <1>5, <1>6, <1>7 DEF PluginNext

LEMMA GenerationInitially == PluginInit => Born /\ Generation!GenInit
<1> SUFFICES ASSUME PluginInit PROVE Born /\ Generation!GenInit
  OBVIOUS
<1>1. /\ life = "none" /\ brood = FALSE /\ outcome = [r \in Request |-> "none"] /\ operator.pc # "term"
      /\ ~flags.handle /\ killer.stage = "none"
      /\ flags.usable = FALSE /\ flags.stopping = FALSE /\ flags.confirmed = FALSE /\ flags.fault = "none"
  BY IdleTyped DEF PluginInit
<1> QED
  BY <1>1 DEF Born, Generation!GenInit, Error, Fault

(* The threads, the pipes and the worker are one generation to the plugin  *)
(* loader: an invoke that fails leaves it ended, it never becomes usable   *)
(* again, and it is confirmed terminated only when nothing of it is left.  *)
THEOREM RuntimeIsGeneration == PluginSpec => ImplementsGeneration
<1>1. PluginSpec => []Born
  BY RuntimeInvariant, BornStep, GenerationInitially, PTL DEF PluginSpec
<1> QED
  BY <1>1, RuntimeInvariant, GenerationStep, GenerationInitially, PTL
     DEF PluginSpec, ImplementsGeneration, Generation!GenSpec
=============================================================================
