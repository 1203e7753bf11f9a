---------------------------- MODULE RoleToolLoop ----------------------------
(***************************************************************************)
(* What the child of a role worker does: the conversation of a model with  *)
(* its tools (RoleToolLoop of src/src/core/brain/role_tool_loop.py), the   *)
(* broker that decides each call (RoleToolBroker of core/brain/            *)
(* role_tools.py), and the result the child returns with the broker's log  *)
(* (_execute_production_role of core/brain/role_worker.py).  One thread    *)
(* runs it; the model and the handlers of the tools answer as they like,   *)
(* and time passes.                                                        *)
(***************************************************************************)
EXTENDS Integers, FiniteSets, Sequences

CONSTANTS
  Tool,            \* names the model may ask for
  RoleRights,      \* what the role declares, is granted, and has handlers for
  Deniers,         \* tools whose handler may raise RoleToolDeniedError, the
                   \* broker's own; none of read_only_role_tools.py does
  MaxCallsOfRun,   \* budget.max_calls
  ResultLimit,     \* budget.max_result_bytes, in units of a small result
  TotalLimit,      \* budget.max_total_result_bytes
  InvocationLimit  \* the broker's audit_limit

\* RoleToolPolicy, and the handlers of RoleToolBroker.
ToolRights == [declared: SUBSET Tool, granted: SUBSET Tool, registered: SUBSET Tool]

ASSUME LoopAssumption ==
  /\ RoleRights \in ToolRights /\ Deniers \subseteq Tool /\ MaxCallsOfRun \in Nat /\ ResultLimit \in Nat \ {0}
  /\ TotalLimit \in Nat /\ InvocationLimit \in Nat \ {0}

VARIABLES
  chat,        \* the loop: where it is, its round, its calls and its budgets
  transcript,  \* history, without what it began with
  invocations, \* _invocations
  deed,        \* what the handler of the current call did
  elapsed      \* whether the time of the run is over

chatVars == <<chat, transcript, invocations, deed, elapsed>>

\* RoleToolResult: a failure is a small one.
Failure(reason) == [ok |-> FALSE, size |-> 1, reason |-> reason]
Success(size) == [ok |-> TRUE, size |-> size, reason |-> "allowed"]

ChatInit ==
  /\ chat = [pc |-> "ask", round |-> 0, index |-> 0, todo |-> <<>>, calls |-> 0, bytes |-> 0]
  /\ transcript = <<>> /\ invocations = <<>> /\ deed = "none" /\ elapsed = FALSE

ChatAt(pc) == chat.pc = pc
Failed == chat' = [chat EXCEPT !.pc = "failed"]

\* The clock of the loop: the timeout of the task, or of the budget.
TimePasses ==
  /\ ~elapsed /\ ~ChatAt("failed") /\ ~ChatAt("returned")
  /\ elapsed' = TRUE
  /\ UNCHANGED <<chat, transcript, invocations, deed>>

\* _check_deadline, and the call of the model.
Ask ==
  /\ ChatAt("ask")
  /\ IF elapsed THEN Failed ELSE chat' = [chat EXCEPT !.pc = "reply"]
  /\ UNCHANGED <<transcript, invocations, deed, elapsed>>

\* chat raises, or answers something _parse_assistant refuses.
ReplyIsBad ==
  /\ ChatAt("reply") /\ Failed
  /\ UNCHANGED <<transcript, invocations, deed, elapsed>>

\* An answer without calls is the result of the role, if it says anything.
ReplyIsFinal ==
  /\ ChatAt("reply")
  /\ \/ elapsed /\ Failed
     \/ ~elapsed /\ chat' = [chat EXCEPT !.pc = "returned"]
     \/ ~elapsed /\ Failed
  /\ transcript' = IF elapsed THEN transcript ELSE Append(transcript, [who |-> "model", calls |-> 0])
  /\ UNCHANGED <<invocations, deed, elapsed>>

\* An answer with calls: too many, one that from_ollama refuses, or the next round.
ReplyCalls(tools) ==
  /\ ChatAt("reply") /\ ~elapsed
  /\ transcript' = Append(transcript, [who |-> "model", calls |-> Len(tools)])
  /\ IF chat.calls + Len(tools) <= MaxCallsOfRun
     THEN Failed \/ chat' = [chat EXCEPT !.pc = "call", !.index = 0, !.todo = tools]
     ELSE Failed
  /\ UNCHANGED <<invocations, deed, elapsed>>

-----------------------------------------------------------------------------
\* RoleToolCall.to_dict: a call is known by its tool, its round and its place.
Current == [tool |-> Head(chat.todo), round |-> chat.round, index |-> chat.index]

\* _record_invocation
Recording(result) ==
  LET all == Append(invocations, [call |-> Current, result |-> result])
  IN  invocations' = IF Len(all) > InvocationLimit THEN Tail(all) ELSE all

Denied(reason) ==
  /\ Recording(Failure(reason)) /\ deed' = "none"
  /\ chat' = [chat EXCEPT !.pc = "look"]

BeginCall ==
  /\ ChatAt("call") /\ chat.todo # <<>>
  /\ IF elapsed THEN Failed ELSE chat' = [chat EXCEPT !.pc = "decide", !.calls = @ + 1]
  /\ UNCHANGED <<transcript, invocations, deed, elapsed>>

\* validate_arguments: what the schema of a tool may find wrong with a call.
ArgumentFault == {"argument_too_large", "invalid_arguments"}

\* _decide
Verdict(tool) ==
  CASE tool \notin RoleRights.declared -> "tool_not_declared"
    [] tool \notin RoleRights.granted -> "tool_not_granted"
    [] tool \notin RoleRights.registered -> "tool_not_registered"
    [] OTHER -> "allowed"

\* authorized_tools: what the model is told it may call.
Authorized == {tool \in Tool : Verdict(tool) = "allowed"}

\* invoke, up to the call of the handler.
Decide ==
  /\ ChatAt("decide")
  /\ IF Current.tool \notin Authorized THEN Denied(Verdict(Current.tool))
     ELSE \/ \E reason \in ArgumentFault : Denied(reason)
          \/ chat' = [chat EXCEPT !.pc = "handle"] /\ UNCHANGED <<invocations, deed>>
  /\ UNCHANGED <<transcript, elapsed>>

\* What a handler may raise: an error of the protocol, the broker's denial, or
\* another one.
Raisable == {"invalid_result", "denied", "handler_error"}

\* A denial the handler raises passes through invoke unrecorded.
\* Mutant of IsRecorded: so does an error of its own.
NothingRecorded(reason) == reason = "invalid_result"
IsRecorded(reason) == reason # "denied"

\* The call of the handler, or the reading of what it returned, raises.
HandlerRaises(reason) ==
  /\ ChatAt("handle")
  /\ reason = "denied" => Current.tool \in Deniers
  /\ deed' = IF reason = "denied" THEN "denied" ELSE "raised"
  /\ chat' = [chat EXCEPT !.pc = "look"]
  /\ IF IsRecorded(reason) THEN Recording(Failure(reason)) ELSE UNCHANGED invocations
  /\ UNCHANGED <<transcript, elapsed>>

\* bounded_stable_json_size: the size of a value, or that it is over the limit.
Fits(size) == size <= ResultLimit

\* What the handlers of the five tools may return.
Returnable == 1 .. ResultLimit + 1

\* The handler returns a value of some size, which may be over its limit.
HandlerReturns(size) ==
  /\ ChatAt("handle")
  /\ Recording(IF Fits(size) THEN Success(size) ELSE Failure("result_too_large"))
  /\ deed' = "returned" /\ chat' = [chat EXCEPT !.pc = "look"]
  /\ UNCHANGED <<transcript, elapsed>>

\* _find_invocation: the newest entry of the log that is of this call.
Matching == {i \in DOMAIN invocations : invocations[i].call = Current}
Newest == CHOOSE i \in Matching : \A j \in Matching : j <= i

\* _invoke: the logged result, or what the broker returned, a null that counts
\* as a success if it raised without logging.
ToolAnswer == IF Matching # {} THEN invocations[Newest].result ELSE Success(1)

\* The result is charged, and put before the model.
Charge ==
  /\ ChatAt("look")
  /\ LET spent == chat.bytes + ToolAnswer.size
     IN  IF ToolAnswer.size > ResultLimit \/ spent > TotalLimit \/ elapsed
         THEN Failed /\ UNCHANGED transcript
         ELSE /\ transcript' = Append(transcript, [who |-> "tool", call |-> Current,
                                                   ok |-> ToolAnswer.ok, did |-> deed])
              /\ chat' = [chat EXCEPT !.pc = "call", !.bytes = spent,
                            !.index = @ + 1, !.todo = Tail(@)]
  /\ UNCHANGED <<invocations, deed, elapsed>>

EndRound ==
  /\ ChatAt("call") /\ chat.todo = <<>>
  /\ chat' = [chat EXCEPT !.pc = "ask", !.round = @ + 1, !.index = 0]
  /\ UNCHANGED <<transcript, invocations, deed, elapsed>>

\* _execute_production_role: what the child sends, with the log as its audit.
Delivered == IF ChatAt("returned") THEN invocations ELSE <<>>

\* At most two calls are put into one reply: one more than may be left.
ChatNext ==
  \/ TimePasses \/ Ask \/ ReplyIsBad \/ ReplyIsFinal \/ BeginCall \/ Decide \/ Charge \/ EndRound
  \/ \E a \in Tool : ReplyCalls(<<a>>) \/ \E b \in Tool : ReplyCalls(<<a, b>>)
  \/ \E reason \in Raisable : HandlerRaises(reason)
  \/ \E size \in Returnable : HandlerReturns(size)

ChatSpec == ChatInit /\ [][ChatNext]_chatVars

-----------------------------------------------------------------------------
\* Where the answers of tools stand in the transcript; which of them the log
\* should have, all but those after a denial of the handler's own; and which
\* entry each is.
Told == {i \in DOMAIN transcript : transcript[i].who = "tool"}
Logged == {i \in Told : transcript[i].did # "denied"}
Place(i) == Cardinality({j \in Logged : j <= i})

\* Between two questions the transcript is made of whole rounds: a reply and
\* one answer for each of its calls, in their order.
WholeRounds ==
  \A i \in DOMAIN transcript : transcript[i].who = "model" =>
    \A k \in 1 .. transcript[i].calls :
      /\ i + k <= Len(transcript) /\ transcript[i + k].who = "tool"
      /\ transcript[i + k].call.index = k - 1

(* Whatever model and handlers do: the model is asked again only when each  *)
(* call of its last reply was answered, in order; it is told of a success   *)
(* only if this very call was authorized and its handler returned, or was   *)
(* one of Deniers and raised the broker's denial; the log the child hands   *)
(* over tells of every other answer the model saw, and of no call besides;  *)
(* and no run makes more calls, or shows more bytes, than its budget has.   *)
ConversationSound ==
  /\ ChatAt("ask") \/ ChatAt("reply") \/ ChatAt("returned") => WholeRounds
  /\ \A i \in Told : transcript[i].ok =>
       /\ transcript[i].call.tool \in Authorized
       /\ transcript[i].did = "returned" \/ i \notin Logged
  /\ \A i \in Told \ Logged : transcript[i].call.tool \in Deniers
  /\ chat.calls <= MaxCallsOfRun /\ chat.bytes <= TotalLimit
  /\ ChatAt("returned") /\ Cardinality(Logged) <= InvocationLimit =>
       /\ Len(Delivered) = Cardinality(Logged)
       /\ \A i \in Logged : /\ Delivered[Place(i)].call = transcript[i].call
                             /\ Delivered[Place(i)].result.ok = transcript[i].ok
=============================================================================
