------------------------------ MODULE EventBus ------------------------------
(***************************************************************************)
(* The event bus of the server (core/event_bus.h): every manager and every *)
(* session meets the others through it and through nothing else.           *)
(*                                                                         *)
(* A subscription goes into the signal of its event type, a publication    *)
(* finds that signal under the shared lock, lets the lock go and calls     *)
(* what is connected, so that callbacks subscribe, publish and even drop   *)
(* the bus while a publication is under way, in this thread or another.    *)
(*                                                                         *)
(* Identifiers of event types and the addresses of the signals count from  *)
(* 1 here; 0 is an identifier not given yet, an empty pointer, a key that  *)
(* is not in the map.  The connections are numbered as they are made.      *)
(***************************************************************************)
EXTENDS Naturals, Sequences, FiniteSets

CONSTANTS EventType,       \* the event classes of the program
          Publisher,       \* threads that publish
          MaxConnections,  \* bound: subscriptions made in a behaviour
          MaxDepth         \* bound: publications inside publications

ASSUME BusAssumption == MaxConnections \in Nat /\ MaxDepth \in Nat

Connection == 1 .. MaxConnections

VARIABLES
  counted,       \* EventTypeIdCounter::nextId: identifiers given so far
  typeId,        \* EventTypeIdCounter::get<T>, one static for each type
  signals,       \* EventBus::signals_: addresses of the signal holders
  holders,       \* the SignalHolder objects on the heap, by address
  eventTypeIds,  \* EventBus::event_type_ids_
  held,          \* does somebody hold a shared_ptr to the bus?
  stack,         \* the publications each thread is in, the innermost last
  subscribed,    \* history: the connections of each type not disconnected
  made           \* history: the connections made

busVars == <<signals, holders, eventTypeIds>>
vars == <<counted, typeId, busVars, held, stack, subscribed, made>>

(***************************************************************************)
(* A publication has the holder it found (0: none), where it stands, the   *)
(* connections it has still to call and those it called.  "due" is for the *)
(* properties: the subscribers it found that have not left since.          *)
(***************************************************************************)
Publication ==
  [type: EventType, at: {"lost", "found", "calling", "callback"}, holder: Nat,
   todo: SUBSET Connection, called: SUBSET Connection, due: SUBSET Connection]

Top(p) == stack[p][Len(stack[p])]
SetTop(p, publication) ==
  stack' = [stack EXCEPT ![p] = [@ EXCEPT ![Len(@)] = publication]]

Init ==
  /\ counted = 0
  /\ typeId = [t \in EventType |-> 0]
  /\ signals = <<>>
  /\ holders = <<>>
  /\ eventTypeIds = [t \in EventType |-> 0]
  /\ held = TRUE
  /\ stack = [p \in Publisher |-> <<>>]
  /\ subscribed = [t \in EventType |-> {}]
  /\ made = 0

-----------------------------------------------------------------------------
(***************************************************************************)
(* Identifiers.  The first use of a type gives it the next one, whether it *)
(* is a subscription or a publication, on this bus or on another of the    *)
(* process.                                                                *)
(***************************************************************************)
IdAfterUse(t) == IF typeId[t] = 0 THEN counted + 1 ELSE typeId[t]

UseType(t) ==
  /\ typeId' = [typeId EXCEPT ![t] = IdAfterUse(t)]
  /\ counted' = IF typeId[t] = 0 THEN counted + 1 ELSE counted

CountElsewhere(t) ==
  /\ typeId[t] = 0
  /\ UseType(t)
  /\ UNCHANGED <<busVars, held, stack, subscribed, made>>

-----------------------------------------------------------------------------
(***************************************************************************)
(* Subscription, all of it under the exclusive lock.                       *)
(***************************************************************************)
Resized(id) ==
  [i \in 1 .. (IF id > Len(signals) THEN id ELSE Len(signals)) |->
     IF i <= Len(signals) THEN signals[i] ELSE 0]

HasSignal(id) == id \in 1 .. Len(signals) /\ signals[id] # 0

\* Slip: an identifier within the vector is taken for a signal that is there.
GetOrCreateSignalSlip(t, id) ==
  /\ IF id <= Len(signals)
     THEN UNCHANGED signals
     ELSE signals' = [Resized(id) EXCEPT ![id] = Len(holders) + 1]
  /\ eventTypeIds' = [eventTypeIds EXCEPT ![t] = IF @ = 0 THEN id ELSE @]

\* The vectors as getOrCreateSignal leaves them, the new holder included.
GetOrCreateSignal(t, id) ==
  /\ IF HasSignal(id)
     THEN UNCHANGED signals
     ELSE signals' = [Resized(id) EXCEPT ![id] = Len(holders) + 1]
  /\ eventTypeIds' = [eventTypeIds EXCEPT ![t] = IF @ = 0 THEN id ELSE @]

\* signal.connect on the holder that getOrCreateSignal returns.
Connect(t, id, c) ==
  holders' =
    IF HasSignal(id)
    THEN [holders EXCEPT ![signals[id]].slots = @ \union {c}]
    ELSE Append(holders, [type |-> t, slots |-> {c}])

Subscribe(t) ==
  /\ held
  /\ made < MaxConnections
  /\ UseType(t)
  /\ GetOrCreateSignal(t, IdAfterUse(t))
  /\ Connect(t, IdAfterUse(t), made + 1)
  /\ made' = made + 1
  /\ subscribed' = [subscribed EXCEPT ![t] = @ \union {made + 1}]
  /\ UNCHANGED <<held, stack>>

(***************************************************************************)
(* connection.disconnect(), from any thread and from callbacks: no lock of *)
(* the bus.                                                                *)
(***************************************************************************)
Disconnect(c) ==
  /\ \E t \in EventType : c \in subscribed[t]
  /\ holders' = [h \in 1 .. Len(holders) |->
                   [holders[h] EXCEPT !.slots = @ \ {c}]]
  /\ subscribed' = [t \in EventType |-> subscribed[t] \ {c}]
  /\ stack' = [p \in Publisher |-> [i \in 1 .. Len(stack[p]) |->
                 [stack[p][i] EXCEPT !.due = @ \ {c}]]]
  /\ UNCHANGED <<counted, typeId, signals, eventTypeIds, held, made>>

-----------------------------------------------------------------------------
(***************************************************************************)
(* Publication.  A thread publishes when it is in no publication or in a   *)
(* callback of one.                                                        *)
(***************************************************************************)
MayPublish(p) ==
  /\ held
  /\ Len(stack[p]) < MaxDepth
  /\ stack[p] # <<>> => Top(p).at = "callback"

Enter(p, t, holder) ==
  stack' = [stack EXCEPT ![p] = Append(@,
              [type |-> t, at |-> IF holder = 0 THEN "lost" ELSE "found",
               holder |-> holder, todo |-> {}, called |-> {},
               due |-> subscribed[t]])]

\* publish<EventType>: by the identifier of the type, which it may give.
TypedHolder(t) == IF HasSignal(IdAfterUse(t)) THEN signals[IdAfterUse(t)] ELSE 0

PublishTyped(p, t) ==
  /\ MayPublish(p)
  /\ UseType(t)
  /\ Enter(p, t, TypedHolder(t))
  /\ UNCHANGED <<busVars, held, subscribed, made>>

\* publish(const Event&): by the type the event has at run time.
BaseHolder(t) == IF eventTypeIds[t] = 0 THEN 0 ELSE signals[eventTypeIds[t]]

PublishBase(p, t) ==
  /\ MayPublish(p)
  /\ Enter(p, t, BaseHolder(t))
  /\ UNCHANGED <<counted, typeId, busVars, held, subscribed, made>>

\* The signal is called, with the lock released: it takes the connections
\* there are now.  A holder of another type than the event's would call
\* nobody: the cast of dispatch.
SnapshotOf(publication) ==
  IF holders[publication.holder].type = publication.type
  THEN holders[publication.holder].slots
  ELSE {}

CallSignal(p) ==
  /\ stack[p] # <<>>
  /\ Top(p).at = "found"
  /\ SetTop(p, [Top(p) EXCEPT !.at = "calling", !.todo = SnapshotOf(Top(p))])
  /\ UNCHANGED <<counted, typeId, busVars, held, subscribed, made>>

\* The next connection in the order they were made, if it is still connected.
StillConnected(c) == \E h \in 1 .. Len(holders) : c \in holders[h].slots

CallSlot(p) ==
  /\ stack[p] # <<>>
  /\ Top(p).at = "calling"
  /\ \E c \in Top(p).todo :
       /\ \A d \in Top(p).todo : c <= d
       /\ SetTop(p, IF StillConnected(c)
                    THEN [Top(p) EXCEPT !.todo = @ \ {c}, !.called = @ \union {c},
                                        !.at = "callback"]
                    ELSE [Top(p) EXCEPT !.todo = @ \ {c}])
  /\ UNCHANGED <<counted, typeId, busVars, held, subscribed, made>>

CallbackReturns(p) ==
  /\ stack[p] # <<>>
  /\ Top(p).at = "callback"
  /\ SetTop(p, [Top(p) EXCEPT !.at = "calling"])
  /\ UNCHANGED <<counted, typeId, busVars, held, subscribed, made>>

-----------------------------------------------------------------------------
(***************************************************************************)
(* The life of the bus.  A publication that calls a signal holds the bus   *)
(* (shared_from_this); with the last pointer go the signals, and a signal  *)
(* that goes disconnects what it had.                                      *)
(***************************************************************************)
HoldsBus(publication) == publication.at \in {"found", "calling", "callback"}

\* Slip: publish takes no pointer of its own.
BusAliveSlip(someone, stacks) == someone

BusAlive(someone, stacks) ==
  \/ someone
  \/ \E p \in Publisher : \E i \in 1 .. Len(stacks[p]) : HoldsBus(stacks[p][i])

SignalsGo(stays) ==
  holders' = IF stays THEN holders
             ELSE [h \in 1 .. Len(holders) |-> [holders[h] EXCEPT !.slots = {}]]

PublicationOver(publication) ==
  \/ publication.at = "lost"
  \/ publication.at = "calling" /\ publication.todo = {}

PublishReturns(p) ==
  /\ stack[p] # <<>>
  /\ PublicationOver(Top(p))
  /\ stack' = [stack EXCEPT ![p] = SubSeq(@, 1, Len(@) - 1)]
  /\ SignalsGo(BusAlive(held, stack'))
  /\ UNCHANGED <<counted, typeId, signals, eventTypeIds, held, subscribed, made>>

\* The last owner lets go, perhaps in a callback.  Whoever calls publish has
\* a pointer until publish takes its own.
LetGo ==
  /\ held
  /\ held' = FALSE
  /\ SignalsGo(BusAlive(FALSE, stack))
  /\ UNCHANGED <<counted, typeId, signals, eventTypeIds, stack, subscribed, made>>

Next ==
  \/ \E t \in EventType :
       \/ CountElsewhere(t)
       \/ Subscribe(t)
       \/ \E p \in Publisher : PublishTyped(p, t) \/ PublishBase(p, t)
  \/ \E c \in Connection : Disconnect(c)
  \/ \E p \in Publisher :
       CallSignal(p) \/ CallSlot(p) \/ CallbackReturns(p) \/ PublishReturns(p)
  \/ LetGo

Spec == Init /\ [][Next]_vars

-----------------------------------------------------------------------------
TypeOK ==
  /\ counted \in Nat
  /\ typeId \in [EventType -> Nat]
  /\ signals \in Seq(Nat)
  /\ holders \in Seq([type: EventType, slots: SUBSET Connection])
  /\ eventTypeIds \in [EventType -> Nat]
  /\ held \in BOOLEAN
  /\ stack \in [Publisher -> Seq(Publication)]
  /\ subscribed \in [EventType -> SUBSET Connection]
  /\ made \in 0 .. MaxConnections

(***************************************************************************)
(* Whatever the order in which types are first used, subscribed to and     *)
(* published, here and on other buses: a type's identifier leads through   *)
(* signals_ to a holder of that type, event_type_ids_ says the same        *)
(* identifier, and while the bus lives the holder has exactly the          *)
(* connections of the type that nobody disconnected (event_bus.h:204-219). *)
(***************************************************************************)
HoldersMatch ==
  \A t \in EventType :
    IF HasSignal(typeId[t])
    THEN /\ eventTypeIds[t] = typeId[t]
         /\ holders[signals[typeId[t]]].type = t
         /\ BusAlive(held, stack) =>
              holders[signals[typeId[t]]].slots = subscribed[t]
    ELSE eventTypeIds[t] = 0 /\ subscribed[t] = {}

(***************************************************************************)
(* A publication, by type or by base reference, has called everybody who   *)
(* was subscribed when it looked the signal up and has not disconnected,   *)
(* although signals_ may have grown since, other threads subscribed and    *)
(* published, and a callback dropped the bus (event_bus.h:136-190).        *)
(***************************************************************************)
SubscribersAreCalled ==
  \A p \in Publisher : \A i \in 1 .. Len(stack[p]) :
    PublicationOver(stack[p][i]) => stack[p][i].due \subseteq stack[p][i].called

(***************************************************************************)
(* The two, inductive: identifiers are not shared, every holder in the     *)
(* vector stands at its type's identifier, and a publication is at the     *)
(* holder of its type with every due subscriber before it or behind it.    *)
(***************************************************************************)
IdsDiffer ==
  \A t, u \in EventType :
    /\ typeId[t] <= counted
    /\ typeId[t] = typeId[u] => t = u \/ typeId[t] = 0

HoldersInPlace ==
  \A i \in 1 .. Len(signals) : signals[i] # 0 =>
    signals[i] \in 1 .. Len(holders) /\ typeId[holders[signals[i]].type] = i

OnTheWay(publication) ==
  /\ publication.due \subseteq subscribed[publication.type]
  /\ publication.at = "lost" => publication.due = {}
  /\ publication.at # "lost" =>
       /\ HasSignal(typeId[publication.type])
       /\ publication.holder = signals[typeId[publication.type]]
  /\ publication.at \in {"calling", "callback"} =>
       publication.due \subseteq publication.todo \union publication.called

Inductive ==
  /\ IdsDiffer
  /\ HoldersInPlace
  /\ HoldersMatch
  /\ \A p \in Publisher : \A i \in 1 .. Len(stack[p]) : OnTheWay(stack[p][i])

=============================================================================
