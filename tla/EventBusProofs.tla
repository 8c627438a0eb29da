--------------------------- MODULE EventBusProofs ---------------------------
(***************************************************************************)
(* What holds of the event bus for any event types, any threads, any       *)
(* number of subscriptions and any depth of publications in callbacks.     *)
(***************************************************************************)
EXTENDS EventBus, SequenceTheorems, TLAPS

Holder == [type: EventType, slots: SUBSET Connection]

Good == TypeOK /\ Inductive

\* The part of the invariant that is about the publications.
AllOnTheWay ==
  \A p \in Publisher : \A i \in 1 .. Len(stack[p]) : OnTheWay(stack[p][i])

USE DEF vars, busVars

-----------------------------------------------------------------------------
(* Stacks of publications, changed at the top                              *)

LEMMA TopIsPublication ==
  ASSUME TypeOK, NEW p \in Publisher, stack[p] # <<>>
  PROVE  /\ stack[p] \in Seq(Publication)
         /\ Len(stack[p]) \in Nat \ {0}
         /\ Top(p) \in Publication
BY DEF TypeOK, Top

LEMMA SetTopKeeps ==
  ASSUME TypeOK, NEW p \in Publisher, stack[p] # <<>>,
         NEW publication \in Publication, SetTop(p, publication)
  PROVE  /\ stack' \in [Publisher -> Seq(Publication)]
         /\ \A q \in Publisher \ {p} : stack'[q] = stack[q]
         /\ Len(stack'[p]) = Len(stack[p])
         /\ stack'[p][Len(stack[p])] = publication
         /\ \A i \in 1 .. Len(stack[p]) - 1 : stack'[p][i] = stack[p][i]
<1> DEFINE n == Len(stack[p])
<1>1. stack[p] \in Seq(Publication) /\ n \in Nat \ {0} /\ n \in 1 .. n
  BY TopIsPublication
<1>2. stack'[p] = [stack[p] EXCEPT ![n] = publication]
  BY DEF SetTop, TypeOK
<1>3. /\ stack'[p] \in Seq(Publication) /\ Len(stack'[p]) = n
      /\ stack'[p][n] = publication
      /\ \A i \in 1 .. n - 1 : stack'[p][i] = stack[p][i]
  BY <1>1, <1>2, ExceptSeq
<1>4. stack' \in [Publisher -> Seq(Publication)]
  BY <1>3 DEF SetTop, TypeOK
<1> QED BY <1>3, <1>4 DEF SetTop, TypeOK

LEMMA EnterKeeps ==
  ASSUME TypeOK, NEW p \in Publisher, NEW t \in EventType, NEW h \in Nat, Enter(p, t, h)
  PROVE  /\ stack' \in [Publisher -> Seq(Publication)]
         /\ \A q \in Publisher \ {p} : stack'[q] = stack[q]
         /\ Len(stack'[p]) = Len(stack[p]) + 1
         /\ LET new == stack'[p][Len(stack[p]) + 1] IN
              /\ new.type = t /\ new.due = subscribed[t] /\ new.holder = h
              /\ new.at = IF h = 0 THEN "lost" ELSE "found"
         /\ \A i \in 1 .. Len(stack[p]) : stack'[p][i] = stack[p][i]
<1> DEFINE new == [type |-> t, at |-> IF h = 0 THEN "lost" ELSE "found", holder |-> h,
                   todo |-> {}, called |-> {}, due |-> subscribed[t]]
<1>1. new \in Publication
  BY DEF TypeOK, Publication
<1>2. stack[p] \in Seq(Publication)
  BY DEF TypeOK
<1>3. stack' = [stack EXCEPT ![p] = Append(stack[p], new)]
  BY DEF Enter, TypeOK
<1>4. Append(stack[p], new) \in Seq(Publication)
  BY <1>1, <1>2, AppendProperties
<1>5. stack' \in [Publisher -> Seq(Publication)] /\ stack'[p] = Append(stack[p], new)
  BY <1>3, <1>4 DEF TypeOK
<1>6. /\ Len(stack'[p]) = Len(stack[p]) + 1
      /\ stack'[p][Len(stack[p]) + 1] = new
      /\ \A i \in 1 .. Len(stack[p]) : stack'[p][i] = stack[p][i]
  BY <1>1, <1>2, <1>5, AppendProperties
<1>7. \A q \in Publisher \ {p} : stack'[q] = stack[q]
  BY <1>3 DEF TypeOK
<1> QED BY <1>5, <1>6, <1>7

LEMMA PopKeeps ==
  ASSUME TypeOK, NEW p \in Publisher, stack[p] # <<>>,
         stack' = [stack EXCEPT ![p] = SubSeq(@, 1, Len(@) - 1)]
  PROVE  /\ stack' \in [Publisher -> Seq(Publication)]
         /\ \A q \in Publisher \ {p} : stack'[q] = stack[q]
         /\ Len(stack'[p]) = Len(stack[p]) - 1
         /\ \A i \in 1 .. Len(stack[p]) - 1 : stack'[p][i] = stack[p][i]
<1> DEFINE n == Len(stack[p])
<1>1. stack[p] \in Seq(Publication) /\ n \in Nat \ {0}
  BY TopIsPublication
<1>2. stack'[p] = SubSeq(stack[p], 1, n - 1)
  BY DEF TypeOK
<1>3. /\ stack'[p] \in Seq(Publication) /\ Len(stack'[p]) = n - 1
      /\ \A i \in 1 .. n - 1 : stack'[p][i] = stack[p][i]
  BY <1>1, <1>2, SubSeqProperties
<1>4. stack' \in [Publisher -> Seq(Publication)]
  BY <1>3 DEF TypeOK
<1> QED BY <1>3, <1>4 DEF TypeOK

\* Publications none of which was disturbed are still on their way.
LEMMA StillOnTheWay ==
  ASSUME NEW publication \in Publication, OnTheWay(publication),
         publication.due \subseteq subscribed'[publication.type],
         publication.at # "lost" =>
           /\ HasSignal(typeId[publication.type])'
           /\ signals'[typeId'[publication.type]] = signals[typeId[publication.type]]
  PROVE  OnTheWay(publication)'
BY DEF OnTheWay

-----------------------------------------------------------------------------
(* A step in one publication that leaves the bus alone                     *)

LEMMA SameBusSameMatch ==
  ASSUME TypeOK, Inductive, UNCHANGED <<counted, typeId, busVars, subscribed>>,
         BusAlive(held, stack)' => BusAlive(held, stack)
  PROVE  (IdsDiffer /\ HoldersInPlace /\ HoldersMatch)'
BY DEF Inductive, IdsDiffer, HoldersInPlace, HoldersMatch, HasSignal

LEMMA AliveByHolding ==
  ASSUME NEW p \in Publisher, NEW i \in 1 .. Len(stack[p]), HoldsBus(stack[p][i])
  PROVE  BusAlive(held, stack)
BY DEF BusAlive

LEMMA InnerStep ==
  ASSUME Good, NEW p \in Publisher, stack[p] # <<>>, NEW publication \in Publication,
         SetTop(p, publication), HoldsBus(Top(p)),
         UNCHANGED <<counted, typeId, busVars, held, subscribed, made>>,
         OnTheWay(publication)
  PROVE  Good'
<1>1. TypeOK /\ Inductive /\ TypeOK'
  BY SetTopKeeps DEF Good, TypeOK
<1>2. BusAlive(held, stack)
  BY <1>1, TopIsPublication, AliveByHolding DEF Top
<1>3. (IdsDiffer /\ HoldersInPlace /\ HoldersMatch)'
  BY <1>1, <1>2, SameBusSameMatch
<1>4. ASSUME NEW q \in Publisher, NEW i \in 1 .. Len(stack'[q])
      PROVE  OnTheWay(stack'[q][i])
  <2>1. CASE q # p
    BY <1>1, <2>1, SetTopKeeps DEF Inductive
  <2>2. CASE q = p /\ i = Len(stack[p])
    BY <1>1, <2>2, SetTopKeeps
  <2>3. CASE q = p /\ i # Len(stack[p])
    <3>1. i \in 1 .. Len(stack[p]) - 1
      BY <1>1, <1>4, <2>3, SetTopKeeps, TopIsPublication
    <3> QED BY <1>1, <2>3, <3>1, SetTopKeeps DEF Inductive
  <2> QED BY <2>1, <2>2, <2>3
<1>5. ASSUME NEW q \in Publisher, NEW i \in 1 .. Len(stack'[q])
      PROVE  OnTheWay(stack[q][i])'
  BY <1>4 DEF OnTheWay, HasSignal
<1> QED BY <1>1, <1>3, <1>5 DEF Good, Inductive

LEMMA CallSignalKeeps ==
  ASSUME Good, NEW p \in Publisher, CallSignal(p)
  PROVE  Good'
<1> DEFINE top == Top(p)
           new == [top EXCEPT !.at = "calling", !.todo = SnapshotOf(top)]
<1>1. TypeOK /\ Inductive /\ stack[p] # <<>> /\ top \in Publication
  BY TopIsPublication DEF Good, CallSignal
<1>2. OnTheWay(top) /\ top.at = "found"
  BY <1>1, TopIsPublication DEF Inductive, Top, CallSignal
<1>3. BusAlive(held, stack)
  BY <1>1, <1>2, TopIsPublication, AliveByHolding DEF Top, HoldsBus
<1>4. SnapshotOf(top) = subscribed[top.type]
  BY <1>1, <1>2, <1>3 DEF SnapshotOf, OnTheWay, Inductive, HoldersMatch, Publication
<1>5. new \in Publication /\ OnTheWay(new)
  BY <1>1, <1>2, <1>4 DEF Publication, OnTheWay, TypeOK
<1>6. SetTop(p, new) /\ HoldsBus(top)
  BY <1>2 DEF CallSignal, HoldsBus
<1> QED BY <1>1, <1>5, <1>6, InnerStep DEF CallSignal

LEMMA CallSlotKeeps ==
  ASSUME Good, NEW p \in Publisher, CallSlot(p)
  PROVE  Good'
<1> DEFINE top == Top(p)
<1>1. TypeOK /\ Inductive /\ stack[p] # <<>> /\ top \in Publication /\ top.at = "calling"
  BY TopIsPublication DEF Good, CallSlot
<1>2. OnTheWay(top)
  BY <1>1, TopIsPublication DEF Inductive, Top
<1>3. BusAlive(held, stack)
  BY <1>1, TopIsPublication, AliveByHolding DEF Top, HoldsBus
<1>4. PICK c \in top.todo :
        SetTop(p, IF StillConnected(c)
                  THEN [top EXCEPT !.todo = @ \ {c}, !.called = @ \union {c}, !.at = "callback"]
                  ELSE [top EXCEPT !.todo = @ \ {c}])
  BY DEF CallSlot
<1>5. c \in top.due => StillConnected(c)
  <2>1. /\ HasSignal(typeId[top.type])
        /\ holders[signals[typeId[top.type]]].slots = subscribed[top.type]
    BY <1>1, <1>2, <1>3 DEF OnTheWay, Inductive, HoldersMatch, Publication
  <2>2. signals[typeId[top.type]] \in 1 .. Len(holders)
    BY <1>1, <2>1 DEF Inductive, HoldersInPlace, HasSignal
  <2> QED BY <1>2, <2>1, <2>2 DEF OnTheWay, StillConnected
<1> DEFINE after == [top EXCEPT !.todo = @ \ {c}, !.called = @ \union {c}, !.at = "callback"]
           past == [top EXCEPT !.todo = @ \ {c}]
<1>6. after \in Publication /\ past \in Publication
  BY <1>1 DEF Publication
<1>7. OnTheWay(after) /\ (~StillConnected(c) => OnTheWay(past))
  BY <1>1, <1>2, <1>5 DEF OnTheWay, Publication
<1>8. HoldsBus(top) /\ UNCHANGED <<counted, typeId, busVars, held, subscribed, made>>
  BY <1>1 DEF HoldsBus, CallSlot
<1>9. CASE StillConnected(c)
  BY <1>1, <1>4, <1>6, <1>7, <1>8, <1>9, InnerStep
<1>10. CASE ~StillConnected(c)
  BY <1>1, <1>4, <1>6, <1>7, <1>8, <1>10, InnerStep
<1> QED BY <1>9, <1>10

LEMMA CallbackReturnsKeeps ==
  ASSUME Good, NEW p \in Publisher, CallbackReturns(p)
  PROVE  Good'
<1> DEFINE top == Top(p)
           new == [top EXCEPT !.at = "calling"]
<1>1. TypeOK /\ Inductive /\ stack[p] # <<>> /\ top \in Publication /\ top.at = "callback"
  BY TopIsPublication DEF Good, CallbackReturns
<1>2. OnTheWay(top)
  BY <1>1, TopIsPublication DEF Inductive, Top
<1>3. new \in Publication /\ OnTheWay(new) /\ HoldsBus(top)
  BY <1>1, <1>2 DEF OnTheWay, Publication, HoldsBus
<1>4. SetTop(p, new) /\ UNCHANGED <<counted, typeId, busVars, held, subscribed, made>>
  BY DEF CallbackReturns
<1> QED BY <1>1, <1>3, <1>4, InnerStep

-----------------------------------------------------------------------------
(* Publishing: looking the signal up                                       *)

LEMMA HolderTyped ==
  ASSUME TypeOK, NEW h \in 1 .. Len(holders)
  PROVE  /\ holders[h] \in Holder
         /\ holders[h].type \in EventType
         /\ holders[h].slots \subseteq Connection
<1>1. holders \in Seq(Holder)
  BY DEF TypeOK, Holder
<1>2. holders[h] \in Holder
  BY <1>1, ElementOfSeq
<1> QED BY <1>2 DEF Holder

LEMMA IdAfterUseTyped ==
  ASSUME TypeOK, NEW t \in EventType
  PROVE  IdAfterUse(t) \in Nat
BY DEF TypeOK, IdAfterUse

\* A type's first use gives it an identifier nobody has, and nobody else's
\* changes: every signal stands where it stood.
LEMMA UseTypeKeeps ==
  ASSUME TypeOK, Inductive, NEW t \in EventType, UseType(t)
  PROVE  /\ counted' \in Nat /\ typeId' \in [EventType -> Nat]
         /\ IdsDiffer'
         /\ typeId'[t] = IdAfterUse(t) /\ typeId'[t] # 0
         /\ \A u \in EventType : typeId[u] # 0 => typeId'[u] = typeId[u]
         /\ \A u \in EventType \ {t} : typeId'[u] = typeId[u]
<1>1. /\ counted \in Nat /\ typeId \in [EventType -> Nat]
      /\ typeId' = [typeId EXCEPT ![t] = IdAfterUse(t)]
      /\ counted' = IF typeId[t] = 0 THEN counted + 1 ELSE counted
      /\ \A u \in EventType : typeId[u] \in Nat /\ typeId[u] <= counted
  BY DEF TypeOK, UseType, Inductive, IdsDiffer
<1>2. IdAfterUse(t) \in Nat /\ IdAfterUse(t) # 0 /\ IdAfterUse(t) <= counted'
  BY <1>1 DEF IdAfterUse
<1>3. IdsDiffer'
  BY <1>1, <1>2 DEF IdsDiffer, Inductive, IdAfterUse
<1> QED BY <1>1, <1>2, <1>3 DEF IdAfterUse

\* A place without an identifier of its own holds no signal yet.
LEMMA FreshPlaceIsEmpty ==
  ASSUME TypeOK, Inductive, NEW t \in EventType, typeId[t] = 0
  PROVE  ~HasSignal(counted + 1)
<1> SUFFICES ASSUME HasSignal(counted + 1) PROVE FALSE
  OBVIOUS
<1>1. /\ signals[counted + 1] \in 1 .. Len(holders)
      /\ typeId[holders[signals[counted + 1]].type] = counted + 1
  BY DEF Inductive, HoldersInPlace, HasSignal
<1>2. holders[signals[counted + 1]].type \in EventType
  BY <1>1, HolderTyped
<1>3. counted + 1 <= counted /\ counted \in Nat
  BY <1>1, <1>2 DEF Inductive, IdsDiffer, TypeOK
<1> QED BY <1>3

\* So that counting a type changes nothing of what the bus finds.
LEMMA UseTypeKeepsBus ==
  ASSUME TypeOK, Inductive, NEW t \in EventType, UseType(t),
         UNCHANGED <<busVars, subscribed>>, BusAlive(held, stack)' => BusAlive(held, stack)
  PROVE  /\ (IdsDiffer /\ HoldersInPlace /\ HoldersMatch)'
         /\ \A u \in EventType : HasSignal(typeId[u])' <=> HasSignal(typeId[u])
<1>1. ~HasSignal(0)
  BY DEF HasSignal
<1>2. \A u \in EventType \ {t} : typeId'[u] = typeId[u]
  BY UseTypeKeeps
<1>3. typeId[t] = 0 => ~HasSignal(typeId'[t])
  BY UseTypeKeeps, FreshPlaceIsEmpty DEF IdAfterUse
<1>4. typeId[t] # 0 => typeId'[t] = typeId[t]
  BY UseTypeKeeps
<1>5. \A u \in EventType : HasSignal(typeId[u])' <=> HasSignal(typeId[u])
  BY <1>1, <1>2, <1>3, <1>4 DEF HasSignal
<1>6. HoldersInPlace'
  <2> SUFFICES ASSUME NEW i \in 1 .. Len(signals), signals[i] # 0
               PROVE  /\ signals[i] \in 1 .. Len(holders)
                      /\ typeId'[holders[signals[i]].type] = i
    BY DEF HoldersInPlace
  <2>1. signals[i] \in 1 .. Len(holders) /\ typeId[holders[signals[i]].type] = i /\ i # 0
    BY DEF Inductive, HoldersInPlace, TypeOK
  <2>2. holders[signals[i]].type \in EventType
    BY <2>1, HolderTyped
  <2> QED BY <2>1, <2>2, UseTypeKeeps
<1>7. HoldersMatch'
  BY <1>1, <1>2, <1>3, <1>4, <1>5 DEF Inductive, HoldersMatch, HasSignal
<1> QED BY <1>5, <1>6, <1>7, UseTypeKeeps

\* A look-up that found the type's own holder, or none where none is.
LEMMA EnterIsOnTheWay ==
  ASSUME TypeOK, Inductive, NEW p \in Publisher, NEW t \in EventType, NEW h \in Nat,
         Enter(p, t, h), UNCHANGED <<signals, subscribed>>,
         \A u \in EventType : HasSignal(typeId[u])' <=> HasSignal(typeId[u]),
         \A u \in EventType : HasSignal(typeId[u]) => typeId'[u] = typeId[u],
         h = IF HasSignal(typeId[t]) THEN signals[typeId[t]] ELSE 0
  PROVE  AllOnTheWay'
<1> SUFFICES ASSUME NEW q \in Publisher, NEW i \in 1 .. Len(stack'[q])
             PROVE  OnTheWay(stack[q][i])'
  BY DEF AllOnTheWay
<1> DEFINE n == Len(stack[p])
<1>0. n \in Nat
  BY DEF TypeOK
<1>1. CASE q = p /\ i = n + 1
  <2>1. ~HasSignal(typeId[t]) => subscribed[t] = {}
    BY DEF Inductive, HoldersMatch
  <2>2. h = 0 <=> ~HasSignal(typeId[t])
    BY DEF HasSignal
  <2> QED BY <1>1, <2>1, <2>2, EnterKeeps DEF OnTheWay
<1>2. CASE ~(q = p /\ i = n + 1)
  <2>1. i \in 1 .. Len(stack[q]) /\ stack'[q][i] = stack[q][i]
    BY <1>0, <1>2, EnterKeeps
  <2>2. stack[q][i] \in Publication /\ OnTheWay(stack[q][i])
    BY <2>1, ElementOfSeq DEF TypeOK, Inductive
  <2>3. stack[q][i].type \in EventType
    BY <2>2 DEF Publication
  <2> QED BY <2>1, <2>2, <2>3 DEF OnTheWay
<1> QED BY <1>1, <1>2

LEMMA LookUpFinds ==
  ASSUME TypeOK, Inductive, NEW t \in EventType
  PROVE  LET h == IF HasSignal(typeId[t]) THEN signals[typeId[t]] ELSE 0 IN
           h \in Nat /\ TypedHolder(t) = h /\ BaseHolder(t) = h
<1>1. ~HasSignal(0)
  BY DEF HasSignal
<1>2. typeId[t] = 0 => ~HasSignal(counted + 1)
  BY FreshPlaceIsEmpty
<1>3. HasSignal(typeId[t]) => typeId[t] # 0 /\ eventTypeIds[t] = typeId[t]
  BY <1>1 DEF Inductive, HoldersMatch
<1>4. ~HasSignal(typeId[t]) => eventTypeIds[t] = 0
  BY DEF Inductive, HoldersMatch
<1>5. HasSignal(typeId[t]) => signals[typeId[t]] \in Nat
  BY ElementOfSeq DEF HasSignal, TypeOK
<1> QED BY <1>1, <1>2, <1>3, <1>4, <1>5 DEF TypedHolder, BaseHolder, IdAfterUse

LEMMA PublishTypedKeeps ==
  ASSUME Good, NEW p \in Publisher, NEW t \in EventType, PublishTyped(p, t)
  PROVE  Good'
<1>1. TypeOK /\ Inductive /\ UseType(t) /\ Enter(p, t, TypedHolder(t)) /\ held /\ held'
      /\ UNCHANGED <<busVars, held, subscribed, made>>
  BY DEF Good, PublishTyped, MayPublish
<1>2. BusAlive(held, stack)
  BY <1>1 DEF BusAlive
<1>3. /\ (IdsDiffer /\ HoldersInPlace /\ HoldersMatch)'
      /\ \A u \in EventType : HasSignal(typeId[u])' <=> HasSignal(typeId[u])
  BY <1>1, <1>2, UseTypeKeepsBus
<1>4. \A u \in EventType : HasSignal(typeId[u]) => typeId'[u] = typeId[u]
  BY <1>1, UseTypeKeeps DEF HasSignal
<1>5. AllOnTheWay'
  BY <1>1, <1>3, <1>4, LookUpFinds, EnterIsOnTheWay
<1>6. TypeOK'
  BY <1>1, UseTypeKeeps, LookUpFinds, EnterKeeps DEF TypeOK
<1> QED BY <1>3, <1>5, <1>6 DEF Good, Inductive, AllOnTheWay

LEMMA PublishBaseKeeps ==
  ASSUME Good, NEW p \in Publisher, NEW t \in EventType, PublishBase(p, t)
  PROVE  Good'
<1>1. TypeOK /\ Inductive /\ Enter(p, t, BaseHolder(t)) /\ held /\ held'
      /\ UNCHANGED <<counted, typeId, busVars, held, subscribed, made>>
  BY DEF Good, PublishBase, MayPublish
<1>2. BusAlive(held, stack)
  BY <1>1 DEF BusAlive
<1>3. /\ (IdsDiffer /\ HoldersInPlace /\ HoldersMatch)'
      /\ \A u \in EventType : HasSignal(typeId[u])' <=> HasSignal(typeId[u])
  BY <1>1, <1>2, SameBusSameMatch DEF HasSignal
<1>5. AllOnTheWay'
  BY <1>1, <1>3, LookUpFinds, EnterIsOnTheWay
<1>6. TypeOK'
  BY <1>1, LookUpFinds, EnterKeeps DEF TypeOK
<1> QED BY <1>3, <1>5, <1>6 DEF Good, Inductive, AllOnTheWay

LEMMA CountElsewhereKeeps ==
  ASSUME Good, NEW t \in EventType, CountElsewhere(t)
  PROVE  Good'
<1>1. TypeOK /\ Inductive /\ UseType(t) /\ UNCHANGED <<busVars, held, stack, subscribed, made>>
  BY DEF Good, CountElsewhere
<1>2. BusAlive(held, stack)' => BusAlive(held, stack)
  BY <1>1 DEF BusAlive
<1>3. /\ (IdsDiffer /\ HoldersInPlace /\ HoldersMatch)'
      /\ \A u \in EventType : HasSignal(typeId[u])' <=> HasSignal(typeId[u])
  BY <1>1, <1>2, UseTypeKeepsBus
<1>4. ASSUME NEW p \in Publisher, NEW i \in 1 .. Len(stack'[p])
      PROVE  OnTheWay(stack[p][i])'
  <2>1. stack[p][i] \in Publication /\ OnTheWay(stack[p][i]) /\ stack' = stack
    BY <1>1, ElementOfSeq DEF TypeOK, Inductive
  <2>2. stack[p][i].type \in EventType
    BY <2>1 DEF Publication
  <2>3. HasSignal(typeId[stack[p][i].type]) =>
          typeId'[stack[p][i].type] = typeId[stack[p][i].type]
    BY <1>1, <2>2, UseTypeKeeps DEF HasSignal
  <2> QED BY <1>1, <1>3, <2>1, <2>2, <2>3 DEF OnTheWay
<1>5. TypeOK'
  BY <1>1, UseTypeKeeps DEF TypeOK
<1> QED BY <1>3, <1>4, <1>5 DEF Good, Inductive

-----------------------------------------------------------------------------
(* Subscribing                                                             *)

\* After getOrCreateSignal and connect: the vector is as before except at
\* the type's place, the holder there is the type's and has one more.
LEMMA ConnectKeeps ==
  ASSUME Good, NEW t \in EventType, NEW c \in Connection, NEW id \in Nat \ {0},
         GetOrCreateSignal(t, id), Connect(t, id, c),
         HasSignal(id) => holders[signals[id]].type = t
  PROVE  /\ signals' \in Seq(Nat) /\ holders' \in Seq(Holder)
         /\ HasSignal(id)'
         /\ signals'[id] \in 1 .. Len(holders')
         /\ holders'[signals'[id]].type = t
         /\ HasSignal(id) => signals'[id] = signals[id]
         /\ holders'[signals'[id]].slots =
              (IF HasSignal(id) THEN holders[signals[id]].slots ELSE {}) \union {c}
         /\ \A i \in Nat \ {id} :
              /\ HasSignal(i)' <=> HasSignal(i)
              /\ HasSignal(i) => signals'[i] = signals[i]
         /\ \A i \in 1 .. Len(signals') : i # id /\ signals'[i] # 0 => HasSignal(i)
         /\ Len(holders') >= Len(holders)
         /\ \A h \in 1 .. Len(holders) :
              /\ holders'[h].type = holders[h].type
              /\ ~(HasSignal(id) /\ h = signals[id]) => holders'[h] = holders[h]
<1>1. /\ signals \in Seq(Nat) /\ holders \in Seq(Holder)
      /\ Len(signals) \in Nat /\ Len(holders) \in Nat
  BY DEF Good, TypeOK, Holder
<1>2. CASE HasSignal(id)
  <2> DEFINE a == signals[id]
             new == [holders[a] EXCEPT !.slots = @ \union {c}]
  <2>1. a \in 1 .. Len(holders)
    BY <1>2 DEF Good, Inductive, HoldersInPlace, HasSignal
  <2>2. holders[a] \in Holder
    BY <1>1, <2>1, ElementOfSeq
  <2>3. new \in Holder /\ new.type = holders[a].type /\ new.slots = holders[a].slots \union {c}
    BY <2>2 DEF Holder
  <2>4. signals' = signals /\ holders' = [holders EXCEPT ![a] = new]
    BY <1>2 DEF GetOrCreateSignal, Connect
  <2> HIDE DEF a, new
  <2>5. /\ holders' \in Seq(Holder) /\ Len(holders') = Len(holders) /\ holders'[a] = new
        /\ \A h \in 1 .. Len(holders) : h # a => holders'[h] = holders[h]
    BY <1>1, <2>1, <2>3, <2>4, ExceptSeq
  <2>6. \A i : HasSignal(i)' <=> HasSignal(i)
    BY <2>4 DEF HasSignal
  <2>7. \A i \in 1 .. Len(signals') : signals'[i] # 0 => HasSignal(i)
    BY <2>4 DEF HasSignal
  <2>8. /\ a = signals[id] /\ new.slots = holders[signals[id]].slots \union {c}
        /\ new.type = t /\ holders[signals[id]].type = t
    BY <1>2, <2>3 DEF a
  <2>9. HasSignal(id)' /\ signals'[id] = a
    BY <1>2, <2>4, <2>6, <2>8
  <2>10. /\ holders'[signals'[id]].type = t /\ signals'[id] \in 1 .. Len(holders')
         /\ holders'[signals'[id]].slots = holders[signals[id]].slots \union {c}
    BY <2>1, <2>5, <2>8, <2>9
  <2>11. \A h \in 1 .. Len(holders) :
           /\ holders'[h].type = holders[h].type
           /\ ~(HasSignal(id) /\ h = signals[id]) => holders'[h] = holders[h]
    BY <1>2, <2>5, <2>8
  <2> QED BY <1>1, <1>2, <2>4, <2>5, <2>6, <2>7, <2>9, <2>10, <2>11
<1>3. CASE ~HasSignal(id)
  <2> DEFINE m == IF id > Len(signals) THEN id ELSE Len(signals)
             a == Len(holders) + 1
             new == [type |-> t, slots |-> {c}]
             r == [i \in 1 .. m |-> IF i = id THEN a ELSE IF i <= Len(signals) THEN signals[i] ELSE 0]
  <2>1. new \in Holder
    BY DEF Holder
  <2>2. holders' = Append(holders, new)
    BY <1>3 DEF Connect
  <2>3. /\ holders' \in Seq(Holder) /\ Len(holders') = a /\ holders'[a] = new
        /\ \A h \in 1 .. Len(holders) : holders'[h] = holders[h]
    BY <1>1, <2>1, <2>2, AppendProperties
  <2>4. m \in Nat /\ id \in 1 .. m /\ Len(signals) <= m
    BY <1>1
  <2>5. signals' = [Resized(id) EXCEPT ![id] = a]
    BY <1>3 DEF GetOrCreateSignal
  <2>6. signals' = r
    BY <2>5 DEF Resized
  <2>7. r \in [1 .. m -> Nat]
    BY <1>1
  <2>8. r \in Seq(Nat) /\ Len(r) = m
    BY <2>4, <2>7
  <2>9. \A i \in Nat \ {id} :
          /\ HasSignal(i)' <=> HasSignal(i)
          /\ HasSignal(i) => signals'[i] = signals[i]
    <3> SUFFICES ASSUME NEW i \in Nat \ {id}
                 PROVE  /\ HasSignal(i)' <=> HasSignal(i)
                        /\ HasSignal(i) => signals'[i] = signals[i]
      OBVIOUS
    <3>1. HasSignal(i)' <=> i \in 1 .. m /\ r[i] # 0
      BY <2>6, <2>8 DEF HasSignal
    <3>2. i \in 1 .. m => r[i] = IF i <= Len(signals) THEN signals[i] ELSE 0
      OBVIOUS
    <3>3. HasSignal(i) <=> i \in 1 .. Len(signals) /\ signals[i] # 0
      BY DEF HasSignal
    <3> QED BY <1>1, <2>4, <2>6, <3>1, <3>2, <3>3
  <2>10. HasSignal(id)' /\ signals'[id] = a
    BY <1>1, <2>4, <2>6, <2>8 DEF HasSignal
  <2>11. \A i \in 1 .. Len(signals') : i # id /\ signals'[i] # 0 => HasSignal(i)
    BY <1>1, <2>6, <2>8, <2>9 DEF HasSignal
  <2>12. /\ holders'[signals'[id]].type = t /\ signals'[id] \in 1 .. Len(holders')
         /\ holders'[signals'[id]].slots = {} \union {c}
    BY <1>1, <2>3, <2>10
  <2>13. signals' \in Seq(Nat)
    BY <2>6, <2>8
  <2>14. Len(holders') >= Len(holders)
    BY <1>1, <2>3
  <2>15. holders'[signals'[id]].slots =
           (IF HasSignal(id) THEN holders[signals[id]].slots ELSE {}) \union {c}
    BY <1>3, <2>12
  <2>16. \A h \in 1 .. Len(holders) : holders'[h].type = holders[h].type /\ holders'[h] = holders[h]
    BY <2>3
  <2> HIDE DEF m, a, new, r
  <2>17. HasSignal(id) => signals'[id] = signals[id]
    BY <1>3
  <2>18. holders' \in Seq(Holder)
    BY <2>3
  <2>19. holders'[signals'[id]].type = t /\ signals'[id] \in 1 .. Len(holders')
    BY <2>12
  <2> QED BY <2>9, <2>10, <2>11, <2>13, <2>14, <2>15, <2>16, <2>17, <2>18, <2>19
<1> QED BY <1>2, <1>3

LEMMA SubscribeKeeps ==
  ASSUME Good, NEW t \in EventType, Subscribe(t)
  PROVE  Good'
<1>a. IdAfterUse(t) \in Nat
  BY IdAfterUseTyped DEF Good
<1>b. PICK id \in Nat : id = IdAfterUse(t)
  BY <1>a
<1>c. PICK c \in Nat : c = made + 1
  BY DEF Good, TypeOK
<1>1. /\ TypeOK /\ Inductive /\ held /\ held' = held /\ stack' = stack /\ UseType(t)
      /\ GetOrCreateSignal(t, id) /\ Connect(t, id, c) /\ made' = c
      /\ subscribed' = [subscribed EXCEPT ![t] = @ \union {c}]
  BY <1>b, <1>c DEF Good, Subscribe
<1>2. c \in Connection /\ c \in 0 .. MaxConnections
  BY <1>c, BusAssumption DEF Good, TypeOK, Subscribe, Connection
<1>3. /\ id = typeId'[t] /\ id \in Nat \ {0} /\ IdsDiffer'
      /\ counted' \in Nat /\ typeId' \in [EventType -> Nat]
      /\ typeId[t] # 0 => id = typeId[t]
      /\ \A u \in EventType \ {t} : typeId'[u] = typeId[u]
  BY <1>1, <1>b, UseTypeKeeps, IdAfterUseTyped
<1>4. ~HasSignal(0) /\ (typeId[t] = 0 => ~HasSignal(id))
  BY <1>1, <1>b, FreshPlaceIsEmpty DEF HasSignal, IdAfterUse
<1>5. HasSignal(id) <=> HasSignal(typeId[t])
  BY <1>3, <1>4
<1>6. HasSignal(id) => holders[signals[id]].type = t /\ eventTypeIds[t] = id
  BY <1>1, <1>3, <1>4 DEF Inductive, HoldersMatch
<1>7. BusAlive(held, stack) /\ BusAlive(held, stack)'
  BY <1>1 DEF BusAlive
<1>8. (IF HasSignal(id) THEN holders[signals[id]].slots ELSE {}) = subscribed[t]
  BY <1>1, <1>3, <1>4, <1>7 DEF Inductive, HoldersMatch
<1>9. subscribed'[t] = subscribed[t] \union {c} /\ \A u \in EventType \ {t} : subscribed'[u] = subscribed[u]
  BY <1>1 DEF TypeOK
<1>10. eventTypeIds'[t] = id /\ \A u \in EventType \ {t} : eventTypeIds'[u] = eventTypeIds[u]
  <2>1. ~HasSignal(typeId[t]) => eventTypeIds[t] = 0
    BY <1>1 DEF Inductive, HoldersMatch
  <2> QED BY <1>1, <1>3, <1>5, <1>6, <2>1 DEF GetOrCreateSignal, TypeOK
<1>11. HoldersInPlace'
  <2> SUFFICES ASSUME NEW i \in 1 .. Len(signals'), signals'[i] # 0
               PROVE  /\ signals'[i] \in 1 .. Len(holders')
                      /\ typeId'[holders'[signals'[i]].type] = i
    BY DEF HoldersInPlace
  <2>1. CASE i = id
    BY <1>1, <1>2, <1>3, <1>6, <2>1, ConnectKeeps
  <2>2. CASE i # id
    <3>1. HasSignal(i) /\ signals'[i] = signals[i]
      BY <1>1, <1>2, <1>3, <1>6, <2>2, ConnectKeeps
    <3> DEFINE h == signals[i]
    <3>2. h \in 1 .. Len(holders) /\ typeId[holders[h].type] = i
      BY <1>1, <3>1 DEF Inductive, HoldersInPlace, HasSignal
    <3>3. holders'[h].type = holders[h].type /\ h \in 1 .. Len(holders')
      <4>1. /\ \A k \in 1 .. Len(holders) : holders'[k].type = holders[k].type
            /\ Len(holders') >= Len(holders)
            /\ Len(holders') \in Nat /\ Len(holders) \in Nat
        BY <1>1, <1>2, <1>3, <1>6, ConnectKeeps, LenProperties DEF TypeOK
      <4> QED BY <3>2, <4>1
    <3>4. holders[h].type \in EventType /\ i # 0
      BY <1>1, <3>1, <3>2, HolderTyped DEF HasSignal
    <3>5. holders[h].type # t
      BY <1>3, <1>4, <2>2, <3>1, <3>2, <3>4
    <3> QED BY <1>3, <3>1, <3>2, <3>3, <3>4, <3>5
  <2> QED BY <2>1, <2>2
<1>12. HoldersMatch'
  <2> SUFFICES ASSUME NEW u \in EventType
               PROVE  IF HasSignal(typeId[u])'
                      THEN /\ eventTypeIds'[u] = typeId'[u]
                           /\ holders'[signals'[typeId'[u]]].type = u
                           /\ holders'[signals'[typeId'[u]]].slots = subscribed'[u]
                      ELSE eventTypeIds'[u] = 0 /\ subscribed'[u] = {}
    BY DEF HoldersMatch, HasSignal
  <2>1. CASE u = t
    <3>1. /\ HasSignal(id)' /\ holders'[signals'[id]].type = t
          /\ holders'[signals'[id]].slots =
               (IF HasSignal(id) THEN holders[signals[id]].slots ELSE {}) \union {c}
      BY <1>1, <1>2, <1>3, <1>6, ConnectKeeps
    <3>2. HasSignal(typeId[u])'
      BY <1>3, <2>1, <3>1 DEF HasSignal
    <3> QED BY <1>3, <1>8, <1>9, <1>10, <2>1, <3>1, <3>2
  <2>2. CASE u # t
    <3>0. PICK i \in Nat : i = typeId[u]
      BY <1>1 DEF TypeOK
    <3>1. typeId'[u] = i /\ i \in Nat /\ i # id
      BY <3>0, <1>1, <1>3, <2>2 DEF TypeOK, IdsDiffer
    <3>2. /\ HasSignal(i)' <=> HasSignal(i)
          /\ HasSignal(i) => signals'[i] = signals[i]
      BY <1>1, <1>2, <1>3, <1>6, <3>1, ConnectKeeps
    <3>3. HasSignal(i) => signals[i] \in 1 .. Len(holders) /\ typeId[holders[signals[i]].type] = i
      BY <1>1 DEF Inductive, HoldersInPlace, HasSignal
    <3>4. HasSignal(i) => ~(HasSignal(id) /\ signals[i] = signals[id])
      <4>1. HasSignal(id) => typeId[holders[signals[id]].type] = id
        BY <1>1 DEF Inductive, HoldersInPlace, HasSignal
      <4> QED BY <3>0, <3>1, <3>3, <4>1
    <3>5. HasSignal(i) => holders'[signals[i]] = holders[signals[i]]
      BY <1>1, <1>2, <1>3, <1>6, <3>3, <3>4, ConnectKeeps
    <3>6. IF HasSignal(i) THEN /\ eventTypeIds[u] = i
                               /\ holders[signals[i]].type = u
                               /\ holders[signals[i]].slots = subscribed[u]
                          ELSE eventTypeIds[u] = 0 /\ subscribed[u] = {}
      BY <3>0, <1>1, <1>7 DEF Inductive, HoldersMatch
    <3>7. HasSignal(typeId[u])' <=> HasSignal(i)'
      BY <3>0, <3>1 DEF HasSignal
    <3> QED BY <3>0, <1>9, <1>10, <2>2, <3>1, <3>2, <3>5, <3>6, <3>7
  <2> QED BY <2>1, <2>2
<1>13. ASSUME NEW p \in Publisher, NEW i \in 1 .. Len(stack'[p])
       PROVE  OnTheWay(stack[p][i])'
  <2> DEFINE pub == stack[p][i]
  <2>1. pub \in Publication /\ OnTheWay(pub) /\ stack' = stack
    BY <1>1, ElementOfSeq DEF TypeOK, Inductive
  <2>2. PICK u \in EventType : u = pub.type
    BY <2>1 DEF Publication
  <2>3. pub.due \subseteq subscribed'[u]
    BY <1>9, <2>1, <2>2 DEF OnTheWay
  <2>4. HasSignal(typeId[u]) => HasSignal(typeId[u])' /\ signals'[typeId'[u]] = signals[typeId[u]]
    <3>1. CASE u = t
      BY <1>1, <1>2, <1>3, <1>4, <1>6, <3>1, ConnectKeeps DEF HasSignal
    <3>2. CASE u # t
      <4>1. typeId'[u] = typeId[u] /\ typeId[u] \in Nat /\ (HasSignal(typeId[u]) => typeId[u] # id)
        BY <1>1, <1>3, <1>4, <2>2, <3>2 DEF TypeOK, IdsDiffer
      <4>0. PICK k \in Nat : k = typeId[u]
        BY <4>1
      <4>2. k # id => (HasSignal(k)' <=> HasSignal(k)) /\ (HasSignal(k) => signals'[k] = signals[k])
        BY <1>1, <1>2, <1>3, <1>6, ConnectKeeps
      <4>3. HasSignal(typeId[u])' <=> HasSignal(k)'
        BY <4>0, <4>1 DEF HasSignal
      <4> QED BY <4>0, <4>1, <4>2, <4>3
    <3> QED BY <3>1, <3>2
  <2> QED BY <2>1, <2>2, <2>3, <2>4 DEF OnTheWay, HasSignal
<1>14. TypeOK'
  <2>1. signals' \in Seq(Nat) /\ holders' \in Seq(Holder)
    BY <1>1, <1>2, <1>3, <1>6, ConnectKeeps
  <2>2. eventTypeIds' \in [EventType -> Nat]
    BY <1>1, <1>3 DEF GetOrCreateSignal, TypeOK
  <2>3. subscribed' \in [EventType -> SUBSET Connection]
    BY <1>1, <1>2 DEF TypeOK
  <2> QED BY <1>1, <1>2, <1>3, <2>1, <2>2, <2>3 DEF TypeOK, Holder
<1> QED BY <1>3, <1>11, <1>12, <1>13, <1>14 DEF Good, Inductive

-----------------------------------------------------------------------------
(* Connections that go, one or all                                         *)

\* Holders that lost connections, in place.
LEMMA HoldersShrink ==
  ASSUME Good, NEW C, UNCHANGED <<counted, typeId, signals, eventTypeIds>>,
         holders' = [h \in 1 .. Len(holders) |-> [holders[h] EXCEPT !.slots = @ \ C]]
  PROVE  /\ holders' \in Seq(Holder) /\ Len(holders') = Len(holders)
         /\ \A h \in 1 .. Len(holders) :
              /\ holders'[h].type = holders[h].type
              /\ holders'[h].slots = holders[h].slots \ C
         /\ IdsDiffer' /\ HoldersInPlace'
         /\ \A i : HasSignal(i)' <=> HasSignal(i)
<1>1. /\ holders \in Seq(Holder) /\ Len(holders) \in Nat
      /\ \A h \in 1 .. Len(holders) : holders[h] \in Holder
  BY HolderTyped DEF Good, TypeOK, Holder
<1>2. \A h \in 1 .. Len(holders) :
        /\ holders'[h] \in Holder
        /\ holders'[h].type = holders[h].type
        /\ holders'[h].slots = holders[h].slots \ C
  BY <1>1 DEF Holder
<1>3. holders' \in [1 .. Len(holders) -> Holder]
  <2> DEFINE e(h) == [holders[h] EXCEPT !.slots = @ \ C]
  <2>1. \A h \in 1 .. Len(holders) : e(h) \in Holder
    BY <1>1 DEF Holder
  <2>2. holders' = [h \in 1 .. Len(holders) |-> e(h)]
    OBVIOUS
  <2> HIDE DEF e
  <2> QED BY <2>1, <2>2
<1>4. holders' \in Seq(Holder) /\ Len(holders') = Len(holders)
  BY <1>1, <1>3
<1>5. IdsDiffer' /\ \A i : HasSignal(i)' <=> HasSignal(i)
  BY DEF Good, Inductive, IdsDiffer, HasSignal
<1>6. HoldersInPlace'
  <2> SUFFICES ASSUME NEW i \in 1 .. Len(signals), signals[i] # 0
               PROVE  signals[i] \in 1 .. Len(holders') /\ typeId[holders'[signals[i]].type] = i
    BY DEF HoldersInPlace
  <2> QED BY <1>2, <1>4 DEF Good, Inductive, HoldersInPlace
<1> QED BY <1>2, <1>4, <1>5, <1>6

LEMMA DisconnectKeeps ==
  ASSUME Good, NEW c \in Connection, Disconnect(c)
  PROVE  Good'
<1>1. /\ TypeOK /\ Inductive
      /\ UNCHANGED <<counted, typeId, signals, eventTypeIds, held, made>>
      /\ holders' = [h \in 1 .. Len(holders) |-> [holders[h] EXCEPT !.slots = @ \ {c}]]
      /\ subscribed' = [t \in EventType |-> subscribed[t] \ {c}]
      /\ stack' = [p \in Publisher |-> [i \in 1 .. Len(stack[p]) |->
                     [stack[p][i] EXCEPT !.due = @ \ {c}]]]
  BY DEF Good, Disconnect
<1>2. ASSUME NEW p \in Publisher
      PROVE  /\ stack'[p] \in Seq(Publication) /\ Len(stack'[p]) = Len(stack[p])
             /\ \A i \in 1 .. Len(stack[p]) :
                  /\ stack[p][i] \in Publication
                  /\ stack'[p][i] = [stack[p][i] EXCEPT !.due = @ \ {c}]
  <2> DEFINE e(i) == [stack[p][i] EXCEPT !.due = @ \ {c}]
  <2>1. stack[p] \in Seq(Publication) /\ Len(stack[p]) \in Nat
    BY <1>1 DEF TypeOK
  <2>2. \A i \in 1 .. Len(stack[p]) : stack[p][i] \in Publication
    BY <2>1, ElementOfSeq
  <2>3. \A i \in 1 .. Len(stack[p]) : e(i) \in Publication
    BY <2>2 DEF Publication
  <2>4. stack'[p] = [i \in 1 .. Len(stack[p]) |-> e(i)]
    BY <1>1
  <2>5. \A i \in 1 .. Len(stack[p]) : stack'[p][i] = e(i)
    BY <2>4
  <2> HIDE DEF e
  <2>6. stack'[p] \in [1 .. Len(stack[p]) -> Publication]
    BY <2>3, <2>4
  <2>7. stack'[p] \in Seq(Publication) /\ Len(stack'[p]) = Len(stack[p])
    BY <2>1, <2>6
  <2> QED BY <2>2, <2>5, <2>7 DEF e
<1>3. ASSUME NEW p \in Publisher, NEW i \in 1 .. Len(stack[p])
      PROVE  /\ stack'[p][i].type = stack[p][i].type /\ stack'[p][i].at = stack[p][i].at
             /\ stack'[p][i].holder = stack[p][i].holder
             /\ stack'[p][i].todo = stack[p][i].todo
             /\ stack'[p][i].called = stack[p][i].called
             /\ stack'[p][i].due = stack[p][i].due \ {c}
  <2>1. PICK publication \in Publication : publication = stack[p][i]
    BY <1>2
  <2>2. stack'[p][i] = [publication EXCEPT !.due = @ \ {c}]
    BY <1>2, <2>1
  <2> QED BY <2>1, <2>2 DEF Publication
<1>4. BusAlive(held, stack)' => BusAlive(held, stack)
  BY <1>1, <1>2, <1>3 DEF BusAlive, HoldsBus
<1>5. /\ \A h \in 1 .. Len(holders) : /\ holders'[h].type = holders[h].type
                                    /\ holders'[h].slots = holders[h].slots \ {c}
      /\ holders' \in Seq(Holder) /\ IdsDiffer' /\ HoldersInPlace'
      /\ \A i : HasSignal(i)' <=> HasSignal(i)
  BY <1>1, HoldersShrink
<1>6. HoldersMatch'
  <2> SUFFICES ASSUME NEW t \in EventType
               PROVE  IF HasSignal(typeId[t])'
                      THEN /\ eventTypeIds[t] = typeId[t]
                           /\ holders'[signals[typeId[t]]].type = t
                           /\ BusAlive(held, stack)' =>
                                holders'[signals[typeId[t]]].slots = subscribed'[t]
                      ELSE eventTypeIds[t] = 0 /\ subscribed'[t] = {}
    BY <1>1 DEF HoldersMatch
  <2>1. HasSignal(typeId[t])' <=> HasSignal(typeId[t])
    BY <1>1 DEF HasSignal
  <2>2. HasSignal(typeId[t]) => signals[typeId[t]] \in 1 .. Len(holders)
    BY <1>1 DEF Inductive, HoldersInPlace, HasSignal
  <2>3. subscribed'[t] = subscribed[t] \ {c}
    BY <1>1
  <2> QED BY <1>1, <1>4, <1>5, <2>1, <2>2, <2>3 DEF Inductive, HoldersMatch
<1>7. ASSUME NEW p \in Publisher, NEW i \in 1 .. Len(stack'[p])
      PROVE  OnTheWay(stack[p][i])'
  <2>1. i \in 1 .. Len(stack[p]) /\ stack[p][i] \in Publication
    BY <1>2
  <2>2. OnTheWay(stack[p][i]) /\ stack[p][i].type \in EventType
    BY <1>1, <2>1 DEF Inductive, Publication
  <2>3. subscribed'[stack[p][i].type] = subscribed[stack[p][i].type] \ {c}
    BY <1>1, <2>2
  <2> QED BY <1>1, <1>3, <2>1, <2>2, <2>3 DEF OnTheWay, HasSignal
<1>8. TypeOK'
  <2>1. subscribed' \in [EventType -> SUBSET Connection]
    BY <1>1 DEF TypeOK
  <2>2. stack' \in [Publisher -> Seq(Publication)]
    BY <1>1, <1>2
  <2> QED BY <1>1, <1>5, <2>1, <2>2 DEF TypeOK, Holder
<1> QED BY <1>5, <1>6, <1>7, <1>8 DEF Good, Inductive

\* The signals go with the bus, or stay with it.
LEMMA SignalsGoKeeps ==
  ASSUME Good, UNCHANGED <<counted, typeId, signals, eventTypeIds, subscribed>>,
         SignalsGo(BusAlive(held', stack')), BusAlive(held, stack)' => BusAlive(held, stack)
  PROVE  holders' \in Seq(Holder) /\ (IdsDiffer /\ HoldersInPlace /\ HoldersMatch)'
<1>1. TypeOK /\ Inductive
  BY DEF Good
<1>2. CASE BusAlive(held, stack)'
  <2>1. holders' = holders
    BY <1>2 DEF SignalsGo, BusAlive
  <2> QED BY <1>1, <2>1, SameBusSameMatch DEF TypeOK, Holder
<1>3. CASE ~BusAlive(held, stack)'
  <2>1. holders' = [h \in 1 .. Len(holders) |-> [holders[h] EXCEPT !.slots = {}]]
    BY <1>3 DEF SignalsGo, BusAlive
  <2>2. ASSUME NEW h \in 1 .. Len(holders)
        PROVE  [holders[h] EXCEPT !.slots = {}] = [holders[h] EXCEPT !.slots = @ \ Connection]
    <3>1. holders[h].slots \ Connection = {}
      BY <1>1, HolderTyped
    <3> QED BY <3>1
  <2>3. holders' = [h \in 1 .. Len(holders) |-> [holders[h] EXCEPT !.slots = @ \ Connection]]
    BY <2>1, <2>2
  <2>4. /\ holders' \in Seq(Holder) /\ IdsDiffer' /\ HoldersInPlace'
        /\ \A h \in 1 .. Len(holders) : holders'[h].type = holders[h].type
        /\ \A i : HasSignal(i)' <=> HasSignal(i)
    BY <2>3, HoldersShrink
  <2>5. HoldersMatch'
    <3> SUFFICES ASSUME NEW t \in EventType
                 PROVE  IF HasSignal(typeId[t])'
                        THEN /\ eventTypeIds[t] = typeId[t]
                             /\ holders'[signals[typeId[t]]].type = t
                        ELSE eventTypeIds[t] = 0 /\ subscribed[t] = {}
      BY <1>3 DEF HoldersMatch
    <3>1. HasSignal(typeId[t])' <=> HasSignal(typeId[t])
      BY DEF HasSignal
    <3>2. HasSignal(typeId[t]) => signals[typeId[t]] \in 1 .. Len(holders)
      BY <1>1 DEF Inductive, HoldersInPlace, HasSignal
    <3> QED BY <1>1, <2>4, <3>1, <3>2 DEF Inductive, HoldersMatch
  <2> QED BY <2>4, <2>5
<1> QED BY <1>2, <1>3

LEMMA PublishReturnsKeeps ==
  ASSUME Good, NEW p \in Publisher, PublishReturns(p)
  PROVE  Good'
<1>1. /\ TypeOK /\ Inductive /\ stack[p] # <<>>
      /\ stack' = [stack EXCEPT ![p] = SubSeq(@, 1, Len(@) - 1)]
      /\ UNCHANGED <<counted, typeId, signals, eventTypeIds, held, subscribed, made>>
      /\ SignalsGo(BusAlive(held', stack'))
  BY DEF Good, PublishReturns
<1>2. /\ stack' \in [Publisher -> Seq(Publication)]
      /\ \A q \in Publisher : \A i \in 1 .. Len(stack'[q]) :
           i \in 1 .. Len(stack[q]) /\ stack'[q][i] = stack[q][i]
  <2>1. Len(stack[p]) \in Nat
    BY <1>1 DEF TypeOK
  <2>2. /\ stack' \in [Publisher -> Seq(Publication)]
        /\ \A q \in Publisher \ {p} : stack'[q] = stack[q]
        /\ Len(stack'[p]) = Len(stack[p]) - 1
        /\ \A i \in 1 .. Len(stack[p]) - 1 : stack'[p][i] = stack[p][i]
    BY <1>1, PopKeeps
  <2> QED BY <2>1, <2>2
<1>3. BusAlive(held, stack)' => BusAlive(held, stack)
  BY <1>1, <1>2 DEF BusAlive
<1>4. holders' \in Seq(Holder) /\ (IdsDiffer /\ HoldersInPlace /\ HoldersMatch)'
  BY <1>1, <1>3, SignalsGoKeeps
<1>5. ASSUME NEW q \in Publisher, NEW i \in 1 .. Len(stack'[q])
      PROVE  OnTheWay(stack[q][i])'
  <2>1. OnTheWay(stack[q][i]) /\ stack'[q][i] = stack[q][i]
    BY <1>1, <1>2 DEF Inductive
  <2> QED BY <1>1, <2>1 DEF OnTheWay, HasSignal
<1>6. TypeOK'
  BY <1>1, <1>2, <1>4 DEF TypeOK, Holder
<1> QED BY <1>4, <1>5, <1>6 DEF Good, Inductive

LEMMA LetGoKeeps ==
  ASSUME Good, LetGo
  PROVE  Good'
<1>1. /\ TypeOK /\ Inductive /\ held /\ held' = FALSE
      /\ UNCHANGED <<counted, typeId, signals, eventTypeIds, stack, subscribed, made>>
      /\ SignalsGo(BusAlive(held', stack'))
  BY DEF Good, LetGo
<1>2. BusAlive(held, stack)' => BusAlive(held, stack)
  BY <1>1 DEF BusAlive
<1>3. holders' \in Seq(Holder) /\ (IdsDiffer /\ HoldersInPlace /\ HoldersMatch)'
  BY <1>1, <1>2, SignalsGoKeeps
<1>4. ASSUME NEW q \in Publisher, NEW i \in 1 .. Len(stack'[q])
      PROVE  OnTheWay(stack[q][i])'
  BY <1>1 DEF Inductive, OnTheWay, HasSignal
<1>5. TypeOK'
  BY <1>1, <1>3 DEF TypeOK, Holder
<1> QED BY <1>3, <1>4, <1>5 DEF Good, Inductive

-----------------------------------------------------------------------------
LEMMA InitGood == Init => Good
<1> SUFFICES ASSUME Init PROVE Good
  OBVIOUS
<1>1. TypeOK
  BY BusAssumption, EmptySeq DEF Init, TypeOK
<1>2. /\ Len(signals) = 0 /\ \A p \in Publisher : Len(stack[p]) = 0
  BY EmptySeq DEF Init
<1>3. IdsDiffer /\ HoldersInPlace
  BY <1>2 DEF Init, IdsDiffer, HoldersInPlace
<1>4. HoldersMatch
  BY <1>2 DEF Init, HoldersMatch, HasSignal
<1> QED BY <1>1, <1>2, <1>3, <1>4 DEF Good, Inductive

LEMMA StepGood == Good /\ [Next]_vars => Good'
<1> SUFFICES ASSUME Good, [Next]_vars PROVE Good'
  OBVIOUS
<1>1. CASE UNCHANGED vars
  BY <1>1 DEF Good, TypeOK, Inductive, IdsDiffer, HoldersInPlace, HoldersMatch,
              HasSignal, OnTheWay, BusAlive
<1>2. CASE Next
  BY <1>2, CountElsewhereKeeps, SubscribeKeeps, PublishTypedKeeps, PublishBaseKeeps,
     DisconnectKeeps, CallSignalKeeps, CallSlotKeeps, CallbackReturnsKeeps,
     PublishReturnsKeeps, LetGoKeeps DEF Next
<1> QED BY <1>1, <1>2

LEMMA GoodHolds == Spec => []Good
BY InitGood, StepGood, PTL DEF Spec

\* The variables keep their types: identifiers, places and stacks.
THEOREM BusTyped == Spec => []TypeOK
<1>1. Good => TypeOK
  BY DEF Good
<1> QED BY <1>1, GoodHolds, PTL

\* A type's identifier leads to the type's holder, which has the type's
\* subscribers, whatever was used, subscribed to or published before.
THEOREM HoldersStayMatched == Spec => []HoldersMatch
<1>1. Good => HoldersMatch
  BY DEF Good, Inductive
<1> QED BY <1>1, GoodHolds, PTL

\* No subscriber is passed over by a publication that found him.
THEOREM SubscribersStayCalled == Spec => []SubscribersAreCalled
<1>1. Good => SubscribersAreCalled
  BY DEF Good, Inductive, SubscribersAreCalled, PublicationOver, OnTheWay
<1> QED BY <1>1, GoodHolds, PTL

=============================================================================
