---------------------------- MODULE PluginBroker ----------------------------
(***************************************************************************)
(* The capability broker of the plugins, for one session: PluginBroker and *)
(* PluginBrokerSession of src/src/core/kernel/plugin_broker.py.  A worker  *)
(* asks for one capability at a time; the parent checks the call, runs the *)
(* handler, and charges request and result to the budgets of the session.  *)
(* Events are staged until the session commits.                            *)
(*                                                                         *)
(* While a handler reads, other processes change the plugin's folder, and  *)
(* a newer generation of the plugin may begin.  A step is one system call  *)
(* of a handler, or one critical section.                                  *)
(***************************************************************************)
EXTENDS Integers, FiniteSets, Sequences

CONSTANTS
  Plugins,        \* what a plugin declares, is granted and is bound to
  CallBudget,     \* MAX_BROKER_CALLS
  ByteBudget,     \* MAX_BROKER_EXCHANGE_BYTES, in units of a small message
  HoldLimit,      \* MAX_FILE_READ_BYTES, MAX_FILE_LIST_ENTRIES, MAX_PLUGIN_CONFIG_BYTES
  MaxRedirects,   \* MAX_NETWORK_REDIRECTS
  DecisionLimit,  \* audit_limit
  MaxChanges      \* bound on the changes others make in the folder

Rooted == {"file.read", "file.list", "config.get"}
BrokerCapability == Rooted \cup {"event.emit", "system.stats", "llm.call", "network.get"}

\* Permissions of the manifest (as capabilities), grants, handlers, plugin root.
Entitlement == [declared: SUBSET BrokerCapability, granted: SUBSET BrokerCapability,
                registered: SUBSET BrokerCapability, bound: BOOLEAN]

ASSUME BrokerAssumption ==
  /\ Plugins \subseteq Entitlement /\ CallBudget \in Nat /\ ByteBudget \in Nat /\ HoldLimit \in Nat
  /\ MaxRedirects \in Nat /\ DecisionLimit \in Nat \ {0} /\ MaxChanges \in Nat

VARIABLES
  rights,     \* how far each capability of the plugin is authorized
  broker,     \* the session, and whether its generation is the active one
  handling,   \* the call that is handled, how far its handler is, and what is there
  answered,   \* what the plugin was answered: for which calls, events, bytes
  decisions,  \* _audit: whether each call was allowed, the newest last
  noted       \* events of the session in the bus's history

brokerVars == <<rights, broker, handling, answered, decisions, noted>>

\* MANIFEST_PERMISSION_BY_CAPABILITY, where two capabilities share one.
PermissionOf == [cap \in BrokerCapability |-> IF cap = "file.list" THEN "file.read" ELSE cap]

\* What lstat tells of a path: the file or folder, and how much it holds.
PathEntry == [kind: {"file", "folder"}, id: {1, 2}, holds: 0 .. HoldLimit + 1]
         \cup [kind: {"absent", "link"}, id: {0}, holds: {0}]

Nowhere == [kind |-> "absent", id |-> 0, holds |-> 0]
Unasked == [pc |-> "none", call |-> 0, cap |-> "none", cost |-> 0, got |-> 0, hops |-> 0,
            changes |-> 0, there |-> Nowhere, seen |-> Nowhere, opened |-> Nowhere, last |-> Nowhere]
Handles(pc, caps) == handling.pc = pc /\ handling.cap \in caps
Onward(pc) == handling' = [handling EXCEPT !.pc = pc]

\* Why a capability is denied to a plugin, in the order the code looks: its
\* permission in the manifest, the grants, the handlers, the plugin's root.
Refusal(plugin, cap) ==
  CASE PermissionOf[cap] \notin plugin.declared -> "undeclared"
    [] cap \notin plugin.granted -> "ungranted"
    [] cap \notin plugin.registered -> "unregistered"
    [] cap \in Rooted /\ ~plugin.bound -> "unbound"
    [] OTHER -> "full"

\* begin_lifecycle
BrokerInit ==
  /\ \E plugin \in Plugins : rights = [cap \in BrokerCapability |-> Refusal(plugin, cap)]
  /\ broker = [state |-> "open", active |-> TRUE, ids |-> {}, calls |-> 0, bytes |-> 0,
               staged |-> 0]
  /\ handling = Unasked
  /\ answered = [ids |-> {}, events |-> 0, spent |-> 0] /\ decisions = <<>> /\ noted = 0

-----------------------------------------------------------------------------
(* A call                                                                   *)

\* _record: the log keeps the newest decisions.
Note(allowed) ==
  LET all == Append(decisions, allowed)
  IN  IF Len(all) > DecisionLimit THEN Tail(all) ELSE all

\* _deny
Deny == handling' = Unasked /\ decisions' = Note(FALSE)

\* What a call must be for its capability to be looked at.
Acceptable(c) == broker.active /\ c \notin broker.ids /\ broker.calls < CallBudget
Affordable(units) == broker.bytes + units <= ByteBudget

\* handle, up to the end of its first critical section.  A request that does
\* not encode, or is another session's, is denied and counts for nothing.
HandleRequest(c, cap, cost) ==
  /\ handling.pc = "none" /\ broker.state = "open"
  /\ IF ~Acceptable(c) THEN Deny /\ UNCHANGED broker
     ELSE /\ broker' = [broker EXCEPT !.ids = @ \cup {c}, !.calls = @ + 1,
                          !.bytes = IF Affordable(cost) THEN @ + cost ELSE @]
          /\ IF Affordable(cost)
             THEN /\ handling' = [Unasked EXCEPT !.pc = "authorize", !.call = c, !.cap = cap,
                                    !.cost = cost]
                  /\ UNCHANGED decisions
             ELSE Deny
  /\ UNCHANGED <<rights, answered, noted>>

Misaddressed ==
  /\ handling.pc = "none" /\ broker.state = "open"
  /\ Deny
  /\ UNCHANGED <<rights, broker, answered, noted>>

Authorize ==
  /\ handling.pc = "authorize"
  /\ IF rights[handling.cap] = "full"
     THEN /\ \E e \in IF handling.cap \in Rooted THEN {x \in PathEntry : x.id # 2} ELSE {Nowhere} :
               handling' = [handling EXCEPT !.pc = "begin", !.there = e]
          /\ UNCHANGED decisions
     ELSE Deny
  /\ UNCHANGED <<rights, broker, answered, noted>>

Handler == UNCHANGED <<rights, broker, answered, noted>>

\* The handler meets an error of the system, or finds what it does not like.
HandlerDenies ==
  /\ handling.pc \in {"open", "take", "verify", "again", "hop", "body"}
     \/ Handles("begin", {"file.read", "file.list", "config.get", "system.stats"})
  /\ Deny /\ Handler

Result(units) == handling' = [handling EXCEPT !.pc = "settle", !.got = units]
              /\ UNCHANGED decisions

-----------------------------------------------------------------------------
(* Handlers                                                                 *)

\* _validate_event_arguments
EventRefused == Handles("begin", {"event.emit"}) /\ Deny /\ Handler
EmitPluginEvent == Handles("begin", {"event.emit"}) /\ Result(1) /\ Handler

SystemStats == Handles("begin", {"system.stats"}) /\ Result(2) /\ Handler

\* The prompt or the model's name is refused, or there is no provider.
PromptRefused == Handles("begin", {"llm.call"}) /\ Deny /\ Handler

\* The provider's answer, however long, or its failure.
CallModel ==
  /\ Handles("begin", {"llm.call"})
  /\ Deny \/ \E units \in 1 .. 2 : Result(units)
  /\ Handler

\* _resolve_file_rooted_path and the first lstat: no link on the way.
Wanted == [cap \in {"file.read", "file.list"} |-> IF cap = "file.read" THEN "file" ELSE "folder"]

Resolve ==
  /\ Handles("begin", {"file.read", "file.list"})
  /\ IF handling.there.kind = Wanted[handling.cap]
     THEN handling' = [handling EXCEPT !.pc = "open", !.seen = handling.there] /\ UNCHANGED decisions
     ELSE Deny
  /\ Handler

\* _same_file, _directory_identity
SameEntry(e, f) == e.kind = f.kind /\ e.id = f.id

\* The descriptor must be of what was seen, and a file not too large.
OpenEntry ==
  /\ Handles("open", {"file.read"})
  /\ IF SameEntry(handling.there, handling.seen) /\ handling.there.holds <= HoldLimit
     THEN handling' = [handling EXCEPT !.pc = "take", !.opened = handling.there] /\ UNCHANGED decisions
     ELSE Deny
  /\ Handler

\* _scan_file_list_no_follow, which compares its descriptor with what was seen.
OpenFolder ==
  /\ Handles("open", {"file.list"})
  /\ IF SameEntry(handling.there, handling.seen)
     THEN handling' = [handling EXCEPT !.pc = "take", !.opened = handling.there] /\ UNCHANGED decisions
     ELSE Deny
  /\ Handler

\* What the descriptor is of; a file whose name is gone stays as it was.
Held == IF SameEntry(handling.there, handling.opened) THEN handling.there ELSE handling.opened

\* os.read to the end of the file.
Take ==
  /\ Handles("take", {"file.read"})
  /\ IF Held.holds <= HoldLimit
     THEN handling' = [handling EXCEPT !.got = Held.holds, !.pc = "verify"] /\ UNCHANGED decisions
     ELSE Deny
  /\ Handler

\* _scan_file_list_entries: all of the folder, or nothing.
ScanFolder ==
  /\ Handles("take", {"file.list"})
  /\ IF Held.holds <= HoldLimit THEN Result(Held.holds) ELSE Deny
  /\ Handler

\* fstat: as large as when it was opened, and all of it was read.
Verify ==
  /\ Handles("verify", {"file.read"})
  /\ IF Held.holds = handling.opened.holds /\ handling.got = handling.opened.holds
     THEN Onward("again") /\ UNCHANGED decisions ELSE Deny
  /\ Handler

\* Mutant of StillNamed: the path is not looked at a second time.
NotLookedAt == TRUE
StillNamed == SameEntry(handling.there, handling.opened)

LookAtPath ==
  /\ Handles("again", {"file.read"})
  /\ IF StillNamed
     THEN handling' = [handling EXCEPT !.pc = "settle", !.last = handling.there] /\ UNCHANGED decisions
     ELSE Deny
  /\ Handler

\* _config_get_handler: no file means the default, a link or a large file no.
FindConfig ==
  /\ Handles("begin", {"config.get"})
  /\ IF handling.there.kind = "absent" THEN Result(1)
     ELSE IF handling.there.kind = "link" \/ handling.there.holds > HoldLimit THEN Deny
     ELSE handling' = [handling EXCEPT !.pc = "open", !.seen = handling.there] /\ UNCHANGED decisions
  /\ Handler

\* It is opened by its path again, and a link is followed this time.
ReadConfig ==
  /\ Handles("open", {"config.get"})
  /\ IF handling.there.kind \in {"absent", "folder"} THEN Deny
     ELSE \E size \in IF handling.there.kind = "link" THEN 0 .. HoldLimit + 1 ELSE {handling.there.holds} :
            IF size > HoldLimit THEN Deny ELSE \E units \in 1 .. 2 : Result(units)
  /\ Handler

\* _validate_network_url, of the address given or of one a redirect names.
UrlRefused == Handles("begin", {"network.get"}) /\ Deny /\ Handler

\* _network_get_handler: one request to a listed host, and what it answers: a
\* redirect, whose host is looked up in the next round, or a page.
Hop ==
  /\ Handles("begin", {"network.get"}) \/ Handles("hop", {"network.get"})
  /\ IF handling.hops > MaxRedirects THEN Deny
     ELSE /\ \E pc \in {"hop", "body"} :
               handling' = [handling EXCEPT !.pc = pc, !.hops = @ + 1]
          /\ UNCHANGED decisions
  /\ Handler

\* _network_get_response: status, headers and body, each within its bound.
ReadBody ==
  /\ Handles("body", {"network.get"})
  /\ \E units \in 1 .. 2 : Result(units)
  /\ Handler

-----------------------------------------------------------------------------
(* The answer, and the end of the session                                   *)

\* The last critical section of handle: the result must fit what is left.
Settle ==
  /\ handling.pc = "settle"
  /\ IF Affordable(handling.got)
     THEN /\ broker' = [broker EXCEPT !.bytes = @ + handling.got,
                          !.staged = IF handling.cap = "event.emit" THEN @ + 1 ELSE @]
          /\ answered' = [ids |-> answered.ids \cup {handling.call},
                          events |-> answered.events
                                     + IF handling.cap = "event.emit" THEN 1 ELSE 0,
                          spent |-> answered.spent + handling.cost + handling.got]
          /\ handling' = Unasked /\ decisions' = Note(TRUE)
     ELSE Deny /\ UNCHANGED <<broker, answered>>
  /\ UNCHANGED <<rights, noted>>

\* commit_events: all of the outbox, or nothing when the deadline has passed.
CommitEvents ==
  /\ handling.pc = "none" /\ broker.state = "open"
  /\ \/ UNCHANGED <<broker, noted>>
     \/ /\ noted' = noted + broker.staged
        /\ broker' = [broker EXCEPT !.state = "committed", !.staged = 0]
  /\ UNCHANGED <<rights, handling, answered, decisions>>

AbortSession ==
  /\ handling.pc = "none" /\ broker.state = "open"
  /\ broker' = [broker EXCEPT !.state = "aborted", !.staged = 0]
  /\ UNCHANGED <<rights, handling, answered, decisions, noted>>

\* begin_lifecycle of a newer generation.
NewerGeneration ==
  /\ broker.active /\ broker' = [broker EXCEPT !.active = FALSE]
  /\ UNCHANGED <<rights, handling, answered, decisions, noted>>

\* Another process replaces, removes, links, grows or cuts what is there.
FolderChanges ==
  /\ handling.cap \in Rooted /\ handling.pc \in {"open", "take", "verify", "again"}
  /\ handling.changes < MaxChanges
  /\ \E e \in PathEntry \ {handling.there} :
       handling' = [handling EXCEPT !.there = e, !.changes = @ + 1]
  /\ UNCHANGED <<rights, broker, answered, decisions, noted>>

\* A fresh call_id or one that was used: which fresh one does not matter.
CallId == 1 .. Cardinality(broker.ids) + 1

BrokerNext ==
  \/ \E c \in CallId, cap \in BrokerCapability, cost \in 1 .. 2 : HandleRequest(c, cap, cost)
  \/ Misaddressed \/ Authorize \/ HandlerDenies
  \/ EventRefused \/ EmitPluginEvent \/ SystemStats \/ PromptRefused \/ CallModel
  \/ Resolve \/ OpenEntry \/ Take \/ Verify \/ LookAtPath \/ OpenFolder \/ ScanFolder
  \/ FindConfig \/ ReadConfig \/ UrlRefused \/ Hop \/ ReadBody
  \/ Settle \/ CommitEvents \/ AbortSession \/ NewerGeneration \/ FolderChanges

BrokerSpec == BrokerInit /\ [][BrokerNext]_brokerVars

-----------------------------------------------------------------------------
\* What file.read is about to answer is the whole of one file, which had the
\* path when it was looked up and when it had been read.
WholeFile(x) ==
  /\ x.seen.kind = "file" /\ SameEntry(x.seen, x.last)
  /\ x.got = x.opened.holds /\ x.got <= HoldLimit

(* Whatever the worker asks and whatever changes below the handlers: what   *)
(* is answered was authorized, a file that was read is one whole file, and  *)
(* a redirect leads at most so far; every answer is paid for out of the     *)
(* budgets of the session, however the calls were refused in between; and   *)
(* the bus gets the events of all answered calls or of none.                *)
AnswersWarranted ==
  /\ handling.pc = "settle" =>
       /\ rights[handling.cap] = "full" /\ handling.call \notin answered.ids
       /\ handling.cap = "file.read" => WholeFile(handling)
       /\ handling.hops <= MaxRedirects + 1
  /\ answered.spent <= broker.bytes /\ broker.bytes <= ByteBudget
  /\ Cardinality(answered.ids) <= CallBudget
  /\ broker.staged = IF broker.state = "open" THEN answered.events ELSE 0
  /\ noted = IF broker.state = "committed" THEN answered.events ELSE 0
=============================================================================
