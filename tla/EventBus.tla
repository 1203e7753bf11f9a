-------------------------------- MODULE EventBus --------------------------------
(***************************************************************************)
(* EventBus of src/src/core/kernel/event_bus.py.  Threads publish, they    *)
(* record batches, and subscribe and unsubscribe; a critical section of    *)
(* _lock is a step, and so is every call of a subscriber, which happens    *)
(* outside of the lock.  What a callback itself does with the bus is what  *)
(* another thread may do meanwhile.                                        *)
(***************************************************************************)
EXTENDS Integers, Sequences, FiniteSets, Functions

CONSTANTS
  Emitter,    \* threads that publish
  EventKind,  \* event types other than "*"
  MaxEvents,  \* bound on the events
  MaxSubs,    \* bound on the subscriptions
  MaxHistory  \* max_history

ASSUME BusAssumption ==
  /\ IsFiniteSet(Emitter) /\ MaxEvents \in Nat /\ MaxSubs \in Nat
  /\ MaxHistory \in Nat \ {0}

VARIABLES
  subs,       \* _subscribers: each list is in the order of the ids
  nextSub,    \* _sub_id_counter
  past,       \* _history
  nextEvent,  \* events made so far
  emitter,    \* what every publishing thread is about to do
  delivered,  \* the events each subscription was called with
  retired     \* for a subscription that is off the bus, the events made by then

busVars == <<subs, nextSub, past, nextEvent, emitter, delivered, retired>>

SubId == 0 .. MaxSubs - 1
Resting == [pc |-> "idle", event |-> 0, kind |-> "*", todo |-> {}]

BusInit ==
  /\ subs = {} /\ nextSub = 0 /\ past = <<>> /\ nextEvent = 0
  /\ emitter = [e \in Emitter |-> Resting]
  /\ delivered = [s \in SubId |-> <<>>]
  /\ retired = [s \in SubId |-> MaxEvents]

\* A deque of bounded length.
Extended(hist, events) ==
  LET all == hist \o events IN SubSeq(all, Len(all) - MaxHistory + 1, Len(all))
Recorded(hist, events) ==
  IF Len(hist \o events) <= MaxHistory THEN hist \o events ELSE Extended(hist, events)

Subscribe(kind, once) ==
  /\ nextSub < MaxSubs
  /\ subs' = subs \cup {[id |-> nextSub, kind |-> kind, once |-> once]}
  /\ nextSub' = nextSub + 1
  /\ UNCHANGED <<past, nextEvent, emitter, delivered, retired>>

Retire(ids) == retired' = [s \in SubId |-> IF s \in ids THEN nextEvent ELSE retired[s]]

Unsubscribe(s) ==
  /\ \E x \in subs : x.id = s
  /\ subs' = {x \in subs : x.id # s}
  /\ Retire({s})
  /\ UNCHANGED <<nextSub, past, nextEvent, emitter, delivered>>

Emit(e, kind) ==
  /\ emitter[e].pc = "idle" /\ nextEvent < MaxEvents
  /\ nextEvent' = nextEvent + 1
  /\ emitter' = [emitter EXCEPT ![e] = [Resting EXCEPT !.pc = "record", !.event = nextEvent + 1,
                                                       !.kind = kind]]
  /\ UNCHANGED <<subs, nextSub, past, delivered, retired>>

DispatchRecords(e) ==
  /\ emitter[e].pc = "record"
  /\ past' = Recorded(past, <<emitter[e].event>>)
  /\ emitter' = [emitter EXCEPT ![e].pc = "notify"]
  /\ UNCHANGED <<subs, nextSub, nextEvent, delivered, retired>>

\* The subscribers of the event's type, then those of "*"; one that wanted
\* a single event is off the bus before anybody is called.
Hears(kind, s) == s.kind \in {kind, "*"}
Sooner(kind, s, t) ==
  \/ s.kind = kind /\ t.kind # kind
  \/ s.kind = t.kind /\ s.id < t.id

\* Mutant of StillSubscribed: a once-subscriber is removed when it is called.
StillThere(kind, s) == TRUE
StillSubscribed(kind, s) == ~(Hears(kind, s) /\ s.once)

CollectSubscribers(e) ==
  /\ emitter[e].pc = "notify"
  /\ LET kind == emitter[e].kind
         called == {s \in subs : Hears(kind, s)}
     IN  /\ emitter' = [emitter EXCEPT ![e].pc = "calls", ![e].todo = called]
         /\ subs' = {s \in subs : StillSubscribed(kind, s)}
         /\ Retire({s.id : s \in subs \ subs'})
  /\ UNCHANGED <<nextSub, past, nextEvent, delivered>>

\* A callback returns or raises an Exception: the next one is called.
CallBack(e) ==
  /\ emitter[e].pc = "calls"
  /\ \E s \in emitter[e].todo :
       /\ \A t \in emitter[e].todo \ {s} : Sooner(emitter[e].kind, s, t)
       /\ delivered' = [delivered EXCEPT ![s.id] = Append(@, emitter[e].event)]
       /\ emitter' = [emitter EXCEPT ![e].todo = @ \ {s}]
  /\ UNCHANGED <<subs, nextSub, past, nextEvent, retired>>

EmitReturns(e) ==
  /\ emitter[e].pc = "calls" /\ emitter[e].todo = {}
  /\ emitter' = [emitter EXCEPT ![e] = Resting]
  /\ UNCHANGED <<subs, nextSub, past, nextEvent, delivered, retired>>

\* record_many: all of a batch or, after its deadline, nothing.
RecordMany(n) ==
  /\ n \in 1 .. MaxEvents - nextEvent
  /\ past' = Recorded(past, [i \in 1 .. n |-> nextEvent + i])
  /\ nextEvent' = nextEvent + n
  /\ UNCHANGED <<subs, nextSub, emitter, delivered, retired>>

Destroy ==
  /\ subs' = {} /\ past' = <<>>
  /\ Retire({s.id : s \in subs})
  /\ UNCHANGED <<nextSub, nextEvent, emitter, delivered>>

BusNext ==
  \/ \E kind \in EventKind \cup {"*"}, once \in BOOLEAN : Subscribe(kind, once)
  \/ \E s \in SubId : Unsubscribe(s)
  \/ \E e \in Emitter :
       \/ \E kind \in EventKind \cup {"*"} : Emit(e, kind)
       \/ DispatchRecords(e) \/ CollectSubscribers(e) \/ CallBack(e) \/ EmitReturns(e)
  \/ \E n \in 1 .. MaxEvents : RecordMany(n)
  \/ Destroy

BusSpec == BusInit /\ [][BusNext]_busVars

-----------------------------------------------------------------------------
(* No subscriber is called twice with an event, and one that asked for a   *)
(* single event is called once, however many threads publish at the same   *)
(* time and callbacks of theirs are still under way.                       *)
CalledOnce ==
  /\ \A s \in SubId : IsInjective(delivered[s])
  /\ \A s \in subs : s.once => delivered[s.id] = <<>>
  /\ \A e \in Emitter : \A s \in emitter[e].todo :
       s.once => /\ delivered[s.id] = <<>>
                 /\ \A d \in Emitter \ {e} : s \notin emitter[d].todo

(* A subscription that is off the bus is called with nothing that was      *)
(* published afterwards: what still arrives was on its way.                *)
NothingNewAfterwards ==
  \A s \in SubId : \A i \in DOMAIN delivered[s] : delivered[s][i] <= retired[s]

(* What a subscriber is called with is what it subscribed for, once.       *)
DeliveriesSound == CalledOnce /\ NothingNewAfterwards
=============================================================================
