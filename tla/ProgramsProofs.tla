---------------------------- MODULE ProgramsProofs ----------------------------
(***************************************************************************)
(* Proofs about the two programs, for any number of errors of the timer    *)
(* and any directories and levels of the log: nothing that uses the        *)
(* io_context is destroyed after it, in the server and in the client, and  *)
(* the client leaves the terminal in order, and its log if nothing threw.  *)
(* And for whatever is typed and whichever keys are held: what the         *)
(* terminal reads is handed over; and for any documents and variables:     *)
(* each setting is the one of its layer.                                   *)
(***************************************************************************)
EXTENDS Programs, FiniteSetTheorems, SequenceTheorems,
        WellFoundedInduction, TLAPS

-----------------------------------------------------------------------------
(***************************************************************************)
(* What both programs keep to, by the order in which main makes things;    *)
(* "mark" is where in it the io_context is.                                *)
(***************************************************************************)

\* Everything that is there has a holder, and only what is there holds or is held.
Linked ==
  /\ refs \subseteq (alive \cup Root) \X alive
  /\ \A o \in alive : \E e \in refs : e[2] = o

\* No step of main comes twice.
Ordered(order) ==
  /\ Len(order) \in Nat
  /\ \A i, j \in 1 .. Len(order) : order[i] = order[j] => i = j

\* What main has made is the beginning of its order.
Begun(order) ==
  /\ built \in Seq({order[i] : i \in 1 .. Len(order)})
  /\ Len(built) <= Len(order)
  /\ \A i \in 1 .. Len(built) : built[i] = order[i]

\* How far main is, by where the io_context is.
Stage(mark) ==
  /\ io \in {"none", "made", "stopped", "dropped", "gone"}
  /\ io \in {"none", "gone"} => Len(built) < mark
  /\ io \in {"made", "stopped"} => Len(built) >= mark
  /\ io = "dropped" => Len(built) = mark
  /\ io \in {"dropped", "gone"} => at \in {"leaving", "returned", "exited", "terminated"}

\* What main has made and not undone.
Built == {built[i] : i \in DOMAIN built}

MainHolds(objects) == \A o \in objects : o \in Built <=> <<"main", o>> \in refs

\* Once they are dropped, no handler holds anything.
HandlersHold == (\E e \in refs : e[1] \in Handler) => io \in {"made", "stopped"}

\* Who may hold an object that uses the io_context.
HeldBy(object, holders) == \A e \in refs : e[2] = object => e[1] \in holders

\* No record of the log is given up, and none waits without a logger.
LogIsKept ==
  /\ ~lost
  /\ ~instance => behind = {}

LEMMA HeldHaveHolders ==
  ASSUME NEW objects, NEW edges
  PROVE  /\ Held(objects, edges) \subseteq objects
         /\ \A o \in Held(objects, edges) :
              \E e \in edges : e[2] = o /\ e[1] \in Held(objects, edges) \cup Root
  <1> DEFINE rooted == {o \in objects : \E e \in edges : e[2] = o /\ e[1] \in Root}
             Holding(kept) == \A k \in kept : \E e \in edges : e[2] = k /\ e[1] \in rooted \cup kept
  <1>1. Held(objects, edges) = {o \in objects : \E kept \in SUBSET (objects \ rooted) :
                                                  o \in rooted \cup kept /\ Holding(kept)}
    BY DEF Held
  <1>2. ASSUME NEW o \in Held(objects, edges)
        PROVE  \E e \in edges : e[2] = o /\ e[1] \in Held(objects, edges) \cup Root
    <2>1. PICK kept \in SUBSET (objects \ rooted) : o \in rooted \cup kept /\ Holding(kept)
      BY <1>1
    <2>2. rooted \cup kept \subseteq Held(objects, edges)
      BY <1>1, <2>1
    <2>3. CASE o \in rooted
      BY <2>3
    <2>4. CASE o \in kept
      BY <2>1, <2>2, <2>4
    <2> QED
      BY <2>1, <2>3, <2>4
  <1> QED
    BY <1>1, <1>2

LEMMA HoldersKeep ==
  ASSUME NEW objects, NEW edges, NEW some \in SUBSET objects,
         \A o \in some : \E e \in edges : e[2] = o /\ e[1] \in some \cup Root
  PROVE  some \subseteq Held(objects, edges)
  <1> DEFINE rooted == {o \in objects : \E e \in edges : e[2] = o /\ e[1] \in Root}
             kept == some \ rooted
  <1>1. kept \in SUBSET (objects \ rooted) /\ some \subseteq rooted \cup kept
    OBVIOUS
  <1>2. \A k \in kept : \E e \in edges : e[2] = k /\ e[1] \in rooted \cup kept
    OBVIOUS
  <1> QED
    BY <1>1, <1>2 DEF Held

LEMMA Released ==
  ASSUME Linked, NEW dropped, Release(dropped)
  PROVE  /\ Linked'
         /\ alive' \subseteq alive
         /\ refs' \subseteq refs \ dropped
         /\ \A e \in refs \ dropped : e[1] \in alive' \cup Root => e \in refs'
         /\ late' = IF io = "gone" THEN late \cup (alive \ alive') ELSE late
  <1> DEFINE kept == Held(alive, refs \ dropped)
  <1>1. alive' = kept /\ refs' = {e \in refs \ dropped : e[1] \in alive' \cup Root}
    BY DEF Release
  <1>2. kept \subseteq alive
        /\ \A o \in kept : \E e \in refs \ dropped : e[2] = o /\ e[1] \in kept \cup Root
    BY HeldHaveHolders
  <1>3. ASSUME NEW e \in refs'
        PROVE  e \in (alive' \cup Root) \X alive'
    <2>1. e \in refs \ dropped /\ e[1] \in kept \cup Root /\ e \in (alive \cup Root) \X alive
      BY <1>1 DEF Linked
    <2> DEFINE some == kept \cup {e[2]}
    <2>2. some \in SUBSET alive
      BY <1>2, <2>1
    <2>3. \A o \in some : \E f \in refs \ dropped : f[2] = o /\ f[1] \in some \cup Root
      BY <1>2, <2>1
    <2>4. some \subseteq kept
      <3> HIDE DEF some
      <3> QED BY <2>2, <2>3, HoldersKeep
    <2> QED
      BY <1>1, <2>1, <2>4
  <1>4. \A o \in alive' : \E e \in refs' : e[2] = o
    BY <1>1, <1>2
  <1> QED
    BY <1>1, <1>2, <1>3, <1>4 DEF Linked, Release

\* What holds itself stays.
LEMMA SelfHeldStay ==
  ASSUME NEW dropped, Release(dropped), NEW some \in SUBSET alive,
         \A o \in some : \E e \in refs \ dropped : e[2] = o /\ e[1] \in some \cup Root
  PROVE  some \subseteq alive'
  BY HoldersKeep DEF Release

LEMMA AppendAdds ==
  ASSUME NEW S, NEW s \in Seq(S), NEW e \in S
  PROVE  /\ Append(s, e) \in Seq(S) /\ Len(Append(s, e)) = Len(s) + 1
         /\ \A i \in 1 .. Len(s) : Append(s, e)[i] = s[i]
         /\ Append(s, e)[Len(s) + 1] = e
         /\ \A x : (\E i \in DOMAIN Append(s, e) : Append(s, e)[i] = x)
                     <=> (\E i \in DOMAIN s : s[i] = x) \/ x = e
  <1> DEFINE t == Append(s, e)
  <1>1. /\ t \in Seq(S) /\ Len(t) = Len(s) + 1 /\ DOMAIN t = 1 .. Len(t)
        /\ \A i \in 1 .. Len(s) : t[i] = s[i]
        /\ t[Len(s) + 1] = e
        /\ Len(s) \in Nat /\ DOMAIN s = 1 .. Len(s)
    OBVIOUS
  <1> HIDE DEF t
  <1>2. ASSUME NEW x
        PROVE  (\E i \in DOMAIN t : t[i] = x) <=> (\E i \in DOMAIN s : s[i] = x) \/ x = e
    <2>1. \A i \in 1 .. Len(t) : i \in 1 .. Len(s) \/ i = Len(s) + 1
      BY <1>1
    <2>2. \A i \in 1 .. Len(s) : i \in 1 .. Len(t)
      BY <1>1
    <2>3. Len(s) + 1 \in 1 .. Len(t)
      BY <1>1
    <2> QED
      BY <1>1, <2>1, <2>2, <2>3
  <1> QED
    BY <1>1, <1>2 DEF t

LEMMA FrontLoses ==
  ASSUME NEW S, NEW s \in Seq(S), s # <<>>,
         \A i, j \in 1 .. Len(s) : s[i] = s[j] => i = j
  PROVE  LET t == SubSeq(s, 1, Len(s) - 1) IN
         /\ t \in Seq(S) /\ Len(s) \in Nat \ {0} /\ Len(t) = Len(s) - 1
         /\ \A i \in 1 .. Len(t) : t[i] = s[i]
         /\ \A x : (\E i \in DOMAIN t : t[i] = x) <=> (\E i \in DOMAIN s : s[i] = x) /\ x # s[Len(s)]
  <1> DEFINE t == SubSeq(s, 1, Len(s) - 1)
  <1>1. Len(s) \in Nat \ {0} /\ DOMAIN s = 1 .. Len(s) /\ \A i \in 1 .. Len(s) : s[i] \in S
    OBVIOUS
  <1>2. /\ t \in Seq(S) /\ Len(t) = Len(s) - 1
        /\ \A i \in 1 .. Len(s) - 1 : t[i] = s[i]
    BY <1>1, SubSeqProperties
  <1>3. DOMAIN t = 1 .. Len(t)
    BY <1>2
  <1> HIDE DEF t
  <1>4. ASSUME NEW x
        PROVE  (\E i \in DOMAIN t : t[i] = x) <=> (\E i \in DOMAIN s : s[i] = x) /\ x # s[Len(s)]
    <2>1. ASSUME NEW i \in 1 .. Len(t)
          PROVE  i \in 1 .. Len(s) /\ t[i] = s[i] /\ s[i] # s[Len(s)]
      BY <1>1, <1>2
    <2>2. ASSUME NEW i \in 1 .. Len(s), i # Len(s)
          PROVE  i \in 1 .. Len(t)
      <3>1. \A n \in Nat : \A k \in 1 .. n : k # n => k \in 1 .. n - 1
        OBVIOUS
      <3>2. i \in 1 .. Len(s) - 1
        BY <1>1, <2>2, <3>1, Zenon
      <3> QED
        BY <1>2, <3>2
    <2> QED
      BY <1>1, <1>3, <2>1, <2>2
  <1> QED
    BY <1>1, <1>2, <1>4 DEF t

LEMMA StepBegins ==
  ASSUME NEW order, Ordered(order), Begun(order), NEW step, Step(order, step)
  PROVE  /\ Begun(order)'
         /\ Len(built) \in Nat /\ Len(built') = Len(built) + 1
         /\ step = order[Len(built) + 1] /\ Len(built) + 1 <= Len(order)
         /\ Built' = Built \cup {step}
  <1> DEFINE S == {order[i] : i \in 1 .. Len(order)}
  <1>1. built' = Append(built, step) /\ step = order[Len(built) + 1] /\ Len(built) < Len(order)
    BY DEF Step
  <1>2. built \in Seq(S) /\ \A i \in 1 .. Len(built) : built[i] = order[i]
    BY DEF Begun
  <1>3. Len(built) \in Nat /\ Len(order) \in Nat /\ Len(built) + 1 \in 1 .. Len(order)
    BY <1>1, <1>2 DEF Ordered
  <1>8. step \in S
    BY <1>1, <1>3
  <1> HIDE DEF S
  <1>4. /\ built' \in Seq(S) /\ Len(built') = Len(built) + 1
        /\ \A i \in 1 .. Len(built) : built'[i] = built[i]
        /\ built'[Len(built) + 1] = step
        /\ \A x : (\E i \in DOMAIN built' : built'[i] = x)
                    <=> (\E i \in DOMAIN built : built[i] = x) \/ x = step
    BY <1>1, <1>2, <1>8, AppendAdds
  <1>9. Built' = Built \cup {step}
    BY <1>4, Zenon DEF Built
  <1>5. \A i \in 1 .. Len(built') : i \in 1 .. Len(built) \/ i = Len(built) + 1
    BY <1>3, <1>4
  <1>6. \A i \in 1 .. Len(built') : built'[i] = order[i]
    BY <1>1, <1>2, <1>4, <1>5
  <1>7. Len(built') <= Len(order)
    BY <1>1, <1>3, <1>4
  <1> QED
    BY <1>1, <1>3, <1>4, <1>6, <1>7, <1>9 DEF Begun, S

LEMMA UnbuildEnds ==
  ASSUME NEW order, Ordered(order), Begun(order), built # <<>>,
         built' = SubSeq(built, 1, Len(built) - 1)
  PROVE  /\ Begun(order)'
         /\ Len(built) \in Nat \ {0} /\ Len(built') = Len(built) - 1 /\ Len(built) <= Len(order)
         /\ built[Len(built)] = order[Len(built)]
         /\ Built' = Built \ {built[Len(built)]}
  <1> DEFINE S == {order[i] : i \in 1 .. Len(order)}
  <1>1. built \in Seq(S) /\ Len(built) \in Nat \ {0} /\ Len(built) <= Len(order)
        /\ \A i \in 1 .. Len(built) : built[i] = order[i]
    BY DEF Begun
  <1>2. Len(order) \in Nat /\ \A i \in 1 .. Len(built) : i \in 1 .. Len(order)
    BY <1>1 DEF Ordered
  <1>3. \A i, j \in 1 .. Len(built) : built[i] = built[j] => i = j
    BY <1>1, <1>2 DEF Ordered
  <1>4. /\ built' \in Seq(S) /\ Len(built') = Len(built) - 1
        /\ \A i \in 1 .. Len(built') : built'[i] = built[i]
        /\ \A x : (\E i \in DOMAIN built' : built'[i] = x)
                    <=> (\E i \in DOMAIN built : built[i] = x) /\ x # built[Len(built)]
    <2> DEFINE t == SubSeq(built, 1, Len(built) - 1)
    <2>1. /\ t \in Seq(S) /\ Len(t) = Len(built) - 1
          /\ \A i \in 1 .. Len(t) : t[i] = built[i]
          /\ \A x : (\E i \in DOMAIN t : t[i] = x)
                      <=> (\E i \in DOMAIN built : built[i] = x) /\ x # built[Len(built)]
      BY <1>1, <1>3, FrontLoses, Zenon
    <2> HIDE DEF t
    <2> QED
      BY <2>1 DEF t
  <1>5. \A i \in 1 .. Len(built') : i \in 1 .. Len(built)
    BY <1>1, <1>4
  <1>6. built[Len(built)] = order[Len(built)]
    BY <1>1
  <1>7. Len(built') <= Len(order)
    BY <1>1, <1>2, <1>4
  <1>8. Built' = Built \ {built[Len(built)]}
    <2>1. \A x : x \in Built' <=> \E i \in DOMAIN built' : built'[i] = x
      BY Zenon DEF Built
    <2>2. \A x : x \in Built <=> \E i \in DOMAIN built : built[i] = x
      BY Zenon DEF Built
    <2> QED
      BY <1>4, <2>1, <2>2, Zenon
  <1> QED
    BY <1>1, <1>4, <1>5, <1>6, <1>7, <1>8 DEF Begun

LEMMA LastBuilt ==
  ASSUME NEW order, Ordered(order), Begun(order), built # <<>>
  PROVE  /\ Len(built) \in Nat \ {0} /\ Len(built) \in 1 .. Len(order)
         /\ built[Len(built)] = order[Len(built)]
  <1> DEFINE S == {order[i] : i \in 1 .. Len(order)}
             n == Len(built)
             m == Len(order)
  <1>1. built \in Seq(S) /\ n \in Nat \ {0} /\ n <= m /\ m \in Nat
        /\ \A i \in 1 .. n : built[i] = order[i]
    BY DEF Begun, Ordered
  <1> HIDE DEF n, m, S
  <1>2. n \in 1 .. n /\ n \in 1 .. m
    BY <1>1
  <1>3. built[n] = order[n]
    BY <1>1, <1>2
  <1> QED
    BY <1>1, <1>2, <1>3 DEF n, m

\* What main has made, by its place in the order.
LEMMA MadeInOrder ==
  ASSUME NEW order, Ordered(order), Begun(order)
  PROVE  \A k \in 1 .. Len(order) : order[k] \in Built <=> k <= Len(built)
  <1> DEFINE S == {order[i] : i \in 1 .. Len(order)}
  <1>1. built \in Seq(S) /\ Len(built) \in Nat /\ Len(order) \in Nat /\ Len(built) <= Len(order)
        /\ DOMAIN built = 1 .. Len(built) /\ \A i \in 1 .. Len(built) : built[i] = order[i]
    BY DEF Begun, Ordered
  <1>2. ASSUME NEW k \in 1 .. Len(order), k <= Len(built)
        PROVE  order[k] \in Built
    <2>1. k \in 1 .. Len(built)
      BY <1>1, <1>2
    <2> QED
      BY <1>1, <2>1 DEF Built
  <1>3. ASSUME NEW k \in 1 .. Len(order), order[k] \in Built
        PROVE  k <= Len(built)
    <2>1. PICK i \in 1 .. Len(built) : built[i] = order[k]
      BY <1>1, <1>3 DEF Built
    <2>2. i \in 1 .. Len(order) /\ i <= Len(built)
      BY <1>1
    <2>3. i = k
      BY <1>1, <2>1, <2>2 DEF Ordered
    <2> QED
      BY <2>2, <2>3
  <1> QED
    BY <1>2, <1>3

\* An object that nothing may hold any more is gone.
LEMMA UnheldIsGone ==
  ASSUME Linked, NEW object, \A e \in refs : e[2] # object
  PROVE  object \notin alive
  BY DEF Linked

-----------------------------------------------------------------------------
\* The server.

ServerObjects == DOMAIN Holds

RouterCycle ==
  {<<"message_router", "event_bus">>, <<"message_router", "session_registry">>, <<"event_bus", "message_router">>}

ServerControl ==
  /\ process = "server"
  /\ at \in {"starting", "joining", "leaving", "returned", "exited", "terminated"}
  /\ Begun(ServerOrder)
  /\ Stage(7)

ServerHolders ==
  /\ Linked
  /\ alive \subseteq ServerObjects \cup {"session"}
  /\ MainHolds(ServerObjects)
  /\ HandlersHold
  /\ HeldBy("game_manager", {"main"})
  /\ HeldBy("lobby_manager", {"main"})
  /\ HeldBy("server", {"main"})
  /\ HeldBy("game_loop", {"main", "on_tick"})
  /\ HeldBy("session", {"session_registry", "on_session"})
  /\ "message_router" \in alive => RouterCycle \subseteq refs
  /\ "session" \in alive => "message_router" \in alive
  /\ late \cap IoUser = {}

ServerInvariant == ServerControl /\ ServerHolders

LEMMA ServerOrderIs ==
  /\ Len(ServerOrder) = 19
  /\ ServerOrder[1] = "settings" /\ ServerOrder[2] = "logger" /\ ServerOrder[3] = "event_bus"
  /\ ServerOrder[4] = "session_registry" /\ ServerOrder[5] = "lobby_registry"
  /\ ServerOrder[6] = "dungeon_registry" /\ ServerOrder[7] = "io_context"
  /\ ServerOrder[8] = "connection_manager" /\ ServerOrder[9] = "game_manager"
  /\ ServerOrder[10] = "lobby_manager" /\ ServerOrder[11] = "message_router"
  /\ ServerOrder[12] = "response_sender" /\ ServerOrder[13] = "server"
  /\ ServerOrder[14] = "game_loop" /\ ServerOrder[15] = "listening"
  /\ ServerOrder[16] = "ticking" /\ ServerOrder[17] = "signals"
  /\ ServerOrder[18] = "thread_1" /\ ServerOrder[19] = "thread_2"
  BY DEF ServerOrder

LEMMA ServerIsOrdered == Ordered(ServerOrder)
  <1> DEFINE PlaceOf(s) ==
        IF s = "settings" THEN 1 ELSE IF s = "logger" THEN 2 ELSE IF s = "event_bus" THEN 3
        ELSE IF s = "session_registry" THEN 4 ELSE IF s = "lobby_registry" THEN 5
        ELSE IF s = "dungeon_registry" THEN 6 ELSE IF s = "io_context" THEN 7
        ELSE IF s = "connection_manager" THEN 8 ELSE IF s = "game_manager" THEN 9
        ELSE IF s = "lobby_manager" THEN 10 ELSE IF s = "message_router" THEN 11
        ELSE IF s = "response_sender" THEN 12 ELSE IF s = "server" THEN 13
        ELSE IF s = "game_loop" THEN 14 ELSE IF s = "listening" THEN 15
        ELSE IF s = "ticking" THEN 16 ELSE IF s = "signals" THEN 17
        ELSE IF s = "thread_1" THEN 18 ELSE 19
  <1>1. ASSUME NEW i \in 1 .. 19
        PROVE  \/ i = 1 \/ i = 2 \/ i = 3 \/ i = 4 \/ i = 5 \/ i = 6 \/ i = 7 \/ i = 8 \/ i = 9 \/ i = 10
               \/ i = 11 \/ i = 12 \/ i = 13 \/ i = 14 \/ i = 15 \/ i = 16 \/ i = 17 \/ i = 18 \/ i = 19
    OBVIOUS
  <1>3. /\ PlaceOf(ServerOrder[1]) = 1 /\ PlaceOf(ServerOrder[2]) = 2 /\ PlaceOf(ServerOrder[3]) = 3
        /\ PlaceOf(ServerOrder[4]) = 4 /\ PlaceOf(ServerOrder[5]) = 5 /\ PlaceOf(ServerOrder[6]) = 6
        /\ PlaceOf(ServerOrder[7]) = 7 /\ PlaceOf(ServerOrder[8]) = 8 /\ PlaceOf(ServerOrder[9]) = 9
    BY ServerOrderIs
  <1>4. /\ PlaceOf(ServerOrder[10]) = 10 /\ PlaceOf(ServerOrder[11]) = 11 /\ PlaceOf(ServerOrder[12]) = 12
        /\ PlaceOf(ServerOrder[13]) = 13 /\ PlaceOf(ServerOrder[14]) = 14 /\ PlaceOf(ServerOrder[15]) = 15
        /\ PlaceOf(ServerOrder[16]) = 16 /\ PlaceOf(ServerOrder[17]) = 17 /\ PlaceOf(ServerOrder[18]) = 18
        /\ PlaceOf(ServerOrder[19]) = 19
    BY ServerOrderIs
  <1> HIDE DEF PlaceOf
  <1>5. ASSUME NEW i \in 1 .. 19
        PROVE  PlaceOf(ServerOrder[i]) = i
    BY <1>1, <1>3, <1>4
  <1>6. Len(ServerOrder) = 19
    BY ServerOrderIs
  <1>7. \A i, j \in 1 .. 19 : ServerOrder[i] = ServerOrder[j] => i = j
    BY <1>5
  <1> QED
    BY <1>6, <1>7 DEF Ordered

LEMMA ServerMade ==
  ASSUME Begun(ServerOrder)
  PROVE  /\ Len(built) \in Nat /\ Len(built) <= 19
         /\ "event_bus" \in Built <=> Len(built) >= 3
         /\ "session_registry" \in Built <=> Len(built) >= 4
         /\ "lobby_registry" \in Built <=> Len(built) >= 5
         /\ "game_manager" \in Built <=> Len(built) >= 9
         /\ "lobby_manager" \in Built <=> Len(built) >= 10
         /\ "message_router" \in Built <=> Len(built) >= 11
         /\ "server" \in Built <=> Len(built) >= 13
         /\ "game_loop" \in Built <=> Len(built) >= 14
         /\ "listening" \in Built <=> Len(built) >= 15
         /\ "signals" \in Built <=> Len(built) >= 17
         /\ "thread_1" \in Built <=> Len(built) >= 18
  <1>1. \A k \in 1 .. 19 : ServerOrder[k] \in Built <=> k <= Len(built)
    <2>1. \A k \in 1 .. Len(ServerOrder) : ServerOrder[k] \in Built <=> k <= Len(built)
      BY MadeInOrder, ServerIsOrdered
    <2> QED
      BY <2>1, ServerOrderIs
  <1>2. Len(built) \in Nat /\ Len(built) <= Len(ServerOrder) /\ Len(ServerOrder) = 19
    <2>1. Len(ServerOrder) = 19
      BY ServerOrderIs
    <2> QED
      BY <2>1 DEF Begun
  <1> QED
    BY <1>1, <1>2, ServerOrderIs

LEMMA ServerObjectsAre ==
  /\ ServerObjects = {"event_bus", "session_registry", "lobby_registry", "dungeon_registry",
                      "connection_manager", "game_manager", "lobby_manager", "message_router",
                      "response_sender", "server", "game_loop"}
  /\ Holds["message_router"] = {"event_bus", "session_registry"}
  /\ \A o \in ServerObjects : Holds[o] \subseteq {"event_bus", "session_registry", "lobby_registry"}
  BY DEF ServerObjects, Holds

\* Main goes on, and nothing changes hands.
LEMMA ServerKeeps ==
  ASSUME ServerHolders, UNCHANGED <<alive, refs, late>>,
         \A o \in ServerObjects : o \in Built' <=> o \in Built,
         io \in {"made", "stopped"} => io' \in {"made", "stopped"}
  PROVE  ServerHolders'
  BY DEF ServerHolders, Linked, MainHolds, HandlersHold, HeldBy

\* What dies when some edges go is no user of an io_context that is gone.  The
\* router's cycle keeps itself, and the registry and its session with it.
LEMMA ServerReleases ==
  ASSUME ServerHolders, NEW dropped, Release(dropped), dropped \cap RouterCycle = {},
         \A o \in ServerObjects : o \in Built' <=> <<"main", o>> \in refs \ dropped,
         (\E e \in refs \ dropped : e[1] \in Handler) => io' \in {"made", "stopped"},
         io = "gone" => /\ {"game_manager", "lobby_manager", "server", "game_loop"} \cap Built = {}
                        /\ <<"session_registry", "session">> \notin dropped
  PROVE  ServerHolders'
  <1>1. /\ Linked' /\ alive' \subseteq alive /\ refs' \subseteq refs \ dropped
        /\ \A e \in refs \ dropped : e[1] \in alive' \cup Root => e \in refs'
        /\ late' = IF io = "gone" THEN late \cup (alive \ alive') ELSE late
    BY Released DEF ServerHolders
  <1>2. alive' \subseteq ServerObjects \cup {"session"}
    BY <1>1 DEF ServerHolders
  <1>3. \A o \in ServerObjects : o \in Built' <=> <<"main", o>> \in refs'
    BY <1>1 DEF Root
  <1>4. (\E e \in refs' : e[1] \in Handler) => io' \in {"made", "stopped"}
    BY <1>1
  <1>5. ASSUME NEW object, NEW holders, HeldBy(object, holders)
        PROVE  HeldBy(object, holders)'
    BY <1>1, <1>5 DEF HeldBy
  <1>6. ASSUME "message_router" \in alive
        PROVE  {"event_bus", "session_registry", "message_router"} \subseteq alive'
               /\ RouterCycle \subseteq refs'
    <2> DEFINE some == {"event_bus", "session_registry", "message_router"}
    <2>1. RouterCycle \subseteq refs \ dropped
      BY <1>6 DEF ServerHolders
    <2>2. some \in SUBSET alive
      BY <2>1 DEF RouterCycle, ServerHolders, Linked, Root, Handler
    <2>3. \A o \in some : \E e \in refs \ dropped : e[2] = o /\ e[1] \in some \cup Root
      BY <2>1 DEF RouterCycle
    <2>4. some \subseteq alive'
      <3> HIDE DEF some
      <3> QED BY <2>2, <2>3, SelfHeldStay
    <2>5. RouterCycle \subseteq refs'
      BY <1>1, <2>1, <2>4 DEF RouterCycle
    <2> QED
      BY <2>4, <2>5
  <1>7. ("message_router" \in alive' => RouterCycle \subseteq refs')
        /\ ("session" \in alive' => "message_router" \in alive')
    BY <1>1, <1>6 DEF ServerHolders
  <1>8. late' \cap IoUser = {}
    <2>1. CASE io # "gone"
      BY <1>1, <2>1 DEF ServerHolders
    <2>2. CASE io = "gone"
      <3>1. \A e \in refs : e[1] \notin Handler
        BY <2>2 DEF ServerHolders, HandlersHold
      <3>2. \A o \in {"game_manager", "lobby_manager", "server", "game_loop"} : <<"main", o>> \notin refs
        BY <2>2, ServerObjectsAre DEF ServerHolders, MainHolds
      <3>3. ASSUME NEW o \in {"game_manager", "lobby_manager", "server", "game_loop"}
            PROVE  o \notin alive
        <4>1. ASSUME NEW e \in refs, e[2] = o
              PROVE  e[1] = "main" /\ e = <<e[1], e[2]>>
          BY <3>1, <4>1 DEF ServerHolders, HeldBy, Linked, Handler
        <4> QED
          BY <3>2, <4>1, UnheldIsGone DEF ServerHolders
      <3>4. "session" \in alive => "session" \in alive'
        <4> SUFFICES ASSUME "session" \in alive
                     PROVE  "session" \in alive'
          OBVIOUS
        <4>1. {"event_bus", "session_registry", "message_router"} \subseteq alive'
          BY <1>6 DEF ServerHolders
        <4>2. PICK e \in refs : e[2] = "session"
          BY DEF ServerHolders, Linked
        <4>3. e[1] = "session_registry" /\ e = <<"session_registry", "session">>
          BY <3>1, <4>2 DEF ServerHolders, HeldBy, Linked, Handler
        <4>4. e \in refs'
          BY <1>1, <2>2, <4>1, <4>3
        <4> QED
          BY <1>1, <4>2, <4>4 DEF Linked
      <3>5. (alive \ alive') \cap IoUser = {}
        BY <3>3, <3>4, ServerObjectsAre DEF ServerHolders, IoUser
      <3> QED
        BY <1>1, <2>2, <3>5 DEF ServerHolders
    <2> QED
      BY <2>1, <2>2
  <1>9. ServerHolders => ServerHolders'
    BY <1>1, <1>2, <1>3, <1>4, <1>5, <1>7, <1>8 DEF ServerHolders, MainHolds, HandlersHold
  <1> QED
    BY <1>9

\* An object that main makes.
LEMMA ServerMakes ==
  ASSUME ServerHolders, NEW object \in ServerObjects,
         Gain(object, Holds[object], {"main"} \cup Subscriber(object)),
         Built' = Built \cup {object}, UNCHANGED io,
         {"event_bus", "session_registry", "lobby_registry"} \subseteq alive \/ Holds[object] = {},
         object = "message_router" => {"event_bus", "session_registry"} \subseteq alive
  PROVE  ServerHolders'
  <1> DEFINE holds == {<<object, h>> : h \in Holds[object]}
             holders == {<<h, object>> : h \in {"main"} \cup Subscriber(object)}
  <1>1. alive' = alive \cup {object} /\ refs' = refs \cup holds \cup holders /\ late' = late
    BY DEF Gain
  <1>2. \A e \in holds : e[1] = object /\ e[2] \in Holds[object]
                         /\ e[2] \in {"event_bus", "session_registry", "lobby_registry"}
    BY ServerObjectsAre
  <1>3. \A e \in holders : e[2] = object
                           /\ (e[1] = "main" \/ (object = "message_router" /\ e[1] = "event_bus"))
    BY DEF Subscriber
  <1>4. <<"main", object>> \in holders
    OBVIOUS
  <1>5. object = "message_router" => RouterCycle \subseteq refs'
    BY <1>1, ServerObjectsAre DEF RouterCycle, Subscriber
  <1>6. \A e \in holds \cup holders : e = <<e[1], e[2]>>
    OBVIOUS
  <1> HIDE DEF holds, holders
  <1>7. Linked'
    BY <1>1, <1>2, <1>3, <1>4, <1>6 DEF ServerHolders, Linked, Root
  <1>8. \A o \in ServerObjects : o \in Built' <=> <<"main", o>> \in refs'
    <2>1. \A o : <<"main", o>> \in holds \cup holders <=> o = object
      BY <1>2, <1>3, <1>4, ServerObjectsAre
    <2> QED
      BY <1>1, <2>1 DEF ServerHolders, MainHolds
  <1>9. HandlersHold'
    <2>1. \A e \in holds \cup holders : e[1] \notin Handler
      BY <1>2, <1>3, ServerObjectsAre DEF Handler
    <2> QED
      BY <1>1, <2>1 DEF ServerHolders, HandlersHold
  <1>10. HeldBy("game_manager", {"main"})' /\ HeldBy("lobby_manager", {"main"})'
         /\ HeldBy("server", {"main"})' /\ HeldBy("game_loop", {"main", "on_tick"})'
         /\ HeldBy("session", {"session_registry", "on_session"})'
    BY <1>1, <1>2, <1>3, ServerObjectsAre DEF ServerHolders, HeldBy
  <1> QED
    BY <1>1, <1>5, <1>7, <1>8, <1>9, <1>10, ServerObjectsAre DEF ServerHolders, MainHolds

\* A handler comes to hold something.
LEMMA ServerHolds ==
  ASSUME ServerHolders, NEW e \in {<<"on_tick", "game_loop">>, <<"on_posted", "event_bus">>}, Hold({e}),
         e[2] \in alive, \A o \in ServerObjects : o \in Built' <=> o \in Built, io' \in {"made", "stopped"}
  PROVE  ServerHolders'
  <1>1. alive' = alive /\ refs' = refs \cup {e} /\ late' = late
    BY DEF Hold
  <1>2. Linked'
    BY <1>1 DEF ServerHolders, Linked, Root, Handler
  <1>3. \A o : <<"main", o>> # e
    OBVIOUS
  <1>4. MainHolds(ServerObjects)'
    BY <1>1, <1>3 DEF ServerHolders, MainHolds
  <1> QED
    BY <1>1, <1>2, <1>4 DEF ServerHolders, HandlersHold, HeldBy

LEMMA SessionComes ==
  ASSUME ServerHolders, Gain("session", {}, {"session_registry", "on_session"}),
         Built' = Built, io' \in {"made", "stopped"}, "message_router" \in Built
  PROVE  ServerHolders'
  <1> DEFINE new == {<<"session_registry", "session">>, <<"on_session", "session">>}
  <1>1. alive' = alive \cup {"session"} /\ refs' = refs \cup new /\ late' = late
    BY DEF Gain
  <1>2. "message_router" \in alive /\ "session_registry" \in alive
    BY ServerObjectsAre DEF ServerHolders, MainHolds, Linked, RouterCycle
  <1>3. Linked'
    <2>1. new \subseteq (alive' \cup Root) \X alive' /\ \E e \in new : e[2] = "session"
      BY <1>1, <1>2 DEF Root, Handler
    <2>2. refs \subseteq (alive' \cup Root) \X alive'
      BY <1>1 DEF ServerHolders, Linked
    <2> HIDE DEF new
    <2> QED
      BY <1>1, <2>1, <2>2 DEF ServerHolders, Linked
  <1>4. MainHolds(ServerObjects)'
    <2>1. \A o : <<"main", o>> \notin new
      OBVIOUS
    <2> HIDE DEF new
    <2> QED
      BY <1>1, <2>1 DEF ServerHolders, MainHolds
  <1> QED
    BY <1>1, <1>2, <1>3, <1>4 DEF ServerHolders, HandlersHold, HeldBy

-----------------------------------------------------------------------------
\* The log.

LEMMA LoggedIsKept ==
  ASSUME LogIsKept, NEW severities, LoggerBecomes(Logged(LoggerNow, severities))
  PROVE  LogIsKept' /\ UNCHANGED already_shutdown
  BY DEF LogIsKept, LoggerBecomes, Logged, LoggerNow, Made

LEMMA InitializedIsKept ==
  ASSUME LogIsKept, LoggerBecomes(InitializeLogger(LoggerNow))
  PROVE  LogIsKept' /\ UNCHANGED already_shutdown
  BY DEF LogIsKept, LoggerBecomes, InitializeLogger, LoggerNow, Made

LEMMA UntouchedLogIsKept ==
  ASSUME LogIsKept, UNCHANGED loggerVars
  PROVE  LogIsKept' /\ UNCHANGED already_shutdown
  BY DEF LogIsKept, loggerVars

\* The end of the process loses nothing once the logger is reset.
LEMMA DestroyedIsKept ==
  ASSUME LogIsKept, ~instance, NEW l \in Destroyed(LoggerNow), LoggerBecomes(l)
  PROVE  LogIsKept' /\ ~instance'
  <1>1. l = [LoggerNow EXCEPT !.instance = FALSE, !.sinks = {}, !.attached = {}, !.lost = @ \/ behind # {}]
    BY DEF Destroyed, LoggerNow
  <1>2. behind = {} /\ ~lost
    BY DEF LogIsKept
  <1>3. ~l.instance /\ ~l.lost /\ l.behind = {}
    BY <1>1, <1>2 DEF LoggerNow
  <1> QED
    BY <1>3 DEF LogIsKept, LoggerBecomes

LEMMA ResetIsKept ==
  ASSUME LogIsKept, ~already_shutdown, LoggerBecomes(ResetLogger(Logged(LoggerNow, {"info"})))
  PROVE  LogIsKept' /\ ~instance'
  <1> DEFINE l == Logged(LoggerNow, {"info"})
             gone == ResetLogger(l)
  <1>1. l.instance /\ ~l.lost /\ ~l.already_shutdown
        /\ DOMAIN l = {"instance", "sinks", "attached", "behind", "already_shutdown", "lost"}
    BY DEF LogIsKept, Logged, LoggerNow, Made
  <1> HIDE DEF l
  <1>2. Shutdown(l) = [l EXCEPT !.behind = {}, !.attached = @ \ l.sinks, !.sinks = {}, !.already_shutdown = TRUE]
    BY <1>1 DEF Shutdown
  <1>3. DOMAIN Shutdown(l) = DOMAIN l /\ Shutdown(l).behind = {} /\ ~Shutdown(l).lost
    BY <1>1, <1>2
  <1>4. gone = [Shutdown(l) EXCEPT !.instance = FALSE]
    BY <1>1 DEF ResetLogger
  <1>5. ~gone.instance /\ gone.behind = {} /\ ~gone.lost
    BY <1>1, <1>3, <1>4
  <1>6. LoggerBecomes(gone)
    BY DEF l
  <1> HIDE DEF gone
  <1> QED
    BY <1>5, <1>6 DEF LogIsKept, LoggerBecomes

LEMMA SinksCatchUp ==
  ASSUME LogIsKept, NEW sink, SinkWrites(sink)
  PROVE  LogIsKept' /\ UNCHANGED <<already_shutdown, instance>>
  BY DEF LogIsKept, SinkWrites

-----------------------------------------------------------------------------
\* The server's steps.

LEMMA ServerTakesStep ==
  ASSUME ServerControl, NEW step, Step(ServerOrder, step),
         io' = IF step = "io_context" THEN "made" ELSE io
  PROVE  /\ ServerControl' /\ at = "starting" /\ at' = "starting"
         /\ Built' = Built \cup {step}
         /\ Len(built) \in Nat /\ Len(built) + 1 <= 19 /\ step = ServerOrder[Len(built) + 1]
  <1>1. /\ Begun(ServerOrder)'
        /\ Len(built) \in Nat /\ Len(built') = Len(built) + 1
        /\ step = ServerOrder[Len(built) + 1] /\ Len(built) + 1 <= Len(ServerOrder)
        /\ Built' = Built \cup {step}
    BY StepBegins, ServerIsOrdered DEF ServerControl
  <1>2. at = "starting" /\ UNCHANGED <<process, at>>
    BY DEF Step
  <1>3. Len(built) + 1 <= 19 /\ Len(built) + 1 \in 1 .. Len(ServerOrder)
    <2> DEFINE n == Len(built)
    <2>1. n \in Nat /\ n + 1 <= Len(ServerOrder) /\ Len(ServerOrder) = 19
      BY <1>1, ServerOrderIs
    <2> HIDE DEF n
    <2>2. n + 1 <= 19 /\ n + 1 \in 1 .. 19
      BY <2>1
    <2> QED
      BY <2>1, <2>2 DEF n
  <1> DEFINE n == Len(built)
  <1>4. n \in Nat /\ n + 1 \in 1 .. Len(ServerOrder) /\ Len(built') = n + 1 /\ step = ServerOrder[n + 1]
    BY <1>1, <1>3
  <1>5. /\ io \in {"none", "made", "stopped"}
        /\ io = "none" => n < 7
        /\ io \in {"made", "stopped"} => n >= 7
    BY <1>2 DEF ServerControl, Stage
  <1> HIDE DEF n
  <1>6. step = "io_context" <=> n + 1 = 7
    <2>1. 7 \in 1 .. Len(ServerOrder) /\ ServerOrder[7] = "io_context"
      BY ServerOrderIs
    <2> QED
      BY <1>4, <2>1, ServerIsOrdered DEF Ordered
  <1>7. /\ io' \in {"none", "made", "stopped"}
        /\ io' = "none" => n + 1 < 7
        /\ io' \in {"made", "stopped"} => n + 1 >= 7
    BY <1>4, <1>5, <1>6
  <1>8. Stage(7)'
    BY <1>4, <1>7 DEF Stage
  <1> QED
    BY <1>1, <1>2, <1>3, <1>8 DEF ServerControl

\* A step that makes no object and no io_context.
LEMMA ServerTakesSmallStep ==
  ASSUME ServerControl, ServerHolders, NEW step, Step(ServerOrder, step), step \notin ServerObjects,
         step # "io_context", UNCHANGED io, HoldNothing
  PROVE  ServerControl' /\ ServerHolders' /\ at = "starting" /\ at' = "starting"
  <1>1. ServerControl' /\ at = "starting" /\ at' = "starting" /\ Built' = Built \cup {step}
    BY ServerTakesStep
  <1>2. ServerHolders'
    BY <1>1, ServerKeeps DEF HoldNothing
  <1> QED
    BY <1>1, <1>2

LEMMA ServerMakesObject ==
  ASSUME ServerControl, ServerHolders, MakeObject
  PROVE  ServerControl' /\ ServerHolders' /\ at = "starting" /\ at' = "starting"
  <1>1. PICK object \in ServerObjects :
          Step(ServerOrder, object) /\ Gain(object, Holds[object], {"main"} \cup Subscriber(object))
    BY DEF MakeObject, ServerObjects
  <1>2. UNCHANGED io
    BY DEF MakeObject
  <1>3. object # "io_context"
    BY ServerObjectsAre
  <1>4. /\ ServerControl' /\ at = "starting" /\ at' = "starting" /\ Built' = Built \cup {object}
        /\ Len(built) \in Nat /\ object = ServerOrder[Len(built) + 1]
    BY <1>1, <1>2, <1>3, ServerTakesStep
  <1>5. CASE object \in {"event_bus", "session_registry", "lobby_registry", "dungeon_registry"}
    <2>1. Holds[object] = {} /\ object # "message_router"
      BY <1>5 DEF Holds
    <2>2. ServerHolders'
      BY <1>1, <1>2, <1>4, <2>1, ServerMakes
    <2> QED
      BY <1>4, <2>2
  <1>6. CASE object \notin {"event_bus", "session_registry", "lobby_registry", "dungeon_registry"}
    <2>1. Len(built) >= 7
      <3> DEFINE n == Len(built)
      <3>1. n \in Nat /\ object = ServerOrder[n + 1]
        BY <1>4
      <3> HIDE DEF n
      <3>2. n \in {0, 1, 2, 3, 4, 5, 6} => object \in {"settings", "logger", "event_bus", "session_registry",
                                                       "lobby_registry", "dungeon_registry", "io_context"}
        BY <3>1, ServerOrderIs
      <3>3. n >= 7
        BY <1>6, <3>1, <3>2, ServerObjectsAre
      <3> QED
        BY <3>3 DEF n
    <2>2. {"event_bus", "session_registry", "lobby_registry"} \subseteq Built
      BY <1>4, <2>1, ServerMade DEF ServerControl
    <2>3. {"event_bus", "session_registry", "lobby_registry"} \subseteq alive
      BY <2>2, ServerObjectsAre DEF ServerHolders, MainHolds, Linked
    <2>4. ServerHolders'
      BY <1>1, <1>2, <1>4, <2>3, ServerMakes
    <2> QED
      BY <1>4, <2>4
  <1> QED
    BY <1>5, <1>6

LEMMA ServerMakesIo ==
  ASSUME ServerControl, ServerHolders, MakeServerIo
  PROVE  ServerControl' /\ ServerHolders' /\ at = "starting" /\ at' = "starting"
  <1>1. Step(ServerOrder, "io_context") /\ HoldNothing /\ io' = "made"
    BY DEF MakeServerIo
  <1>2. ServerControl' /\ at = "starting" /\ at' = "starting" /\ Built' = Built \cup {"io_context"}
    BY <1>1, ServerTakesStep
  <1>3. ServerHolders'
    BY <1>1, <1>2, ServerKeeps, ServerObjectsAre DEF HoldNothing
  <1> QED
    BY <1>2, <1>3

LEMMA ServerStartsTicking ==
  ASSUME ServerControl, ServerHolders, StartGameLoop
  PROVE  ServerControl' /\ ServerHolders' /\ at = "starting" /\ at' = "starting"
  <1>1. Step(ServerOrder, "ticking") /\ Hold({<<"on_tick", "game_loop">>}) /\ UNCHANGED io
    BY DEF StartGameLoop
  <1>2. /\ ServerControl' /\ at = "starting" /\ at' = "starting" /\ Built' = Built \cup {"ticking"}
        /\ Len(built) \in Nat /\ Len(built) + 1 <= 19 /\ ServerOrder[Len(built) + 1] = "ticking"
    BY <1>1, ServerTakesStep
  <1>3. Len(built) = 15
    <2> DEFINE n == Len(built)
    <2>1. n \in Nat /\ n + 1 \in 1 .. Len(ServerOrder) /\ ServerOrder[n + 1] = "ticking"
      <3>1. n \in Nat /\ n + 1 <= 19 /\ ServerOrder[n + 1] = "ticking" /\ Len(ServerOrder) = 19
        BY <1>2, ServerOrderIs
      <3> HIDE DEF n
      <3> QED
        BY <3>1
    <2>2. 16 \in 1 .. Len(ServerOrder) /\ ServerOrder[16] = "ticking"
      BY ServerOrderIs
    <2> HIDE DEF n
    <2>3. n + 1 = 16
      BY <2>1, <2>2, ServerIsOrdered DEF Ordered
    <2>4. n = 15
      BY <2>1, <2>3
    <2> QED
      BY <2>4 DEF n
  <1>4. "game_loop" \in alive
    BY <1>3, ServerMade, ServerObjectsAre DEF ServerControl, ServerHolders, MainHolds, Linked
  <1>5. io \in {"made", "stopped"}
    BY <1>2, <1>3 DEF ServerControl, Stage
  <1>6. ServerHolders'
    <2> DEFINE e == <<"on_tick", "game_loop">>
    <2>1. e \in {<<"on_tick", "game_loop">>, <<"on_posted", "event_bus">>} /\ Hold({e}) /\ e[2] \in alive
      BY <1>1, <1>4
    <2> HIDE DEF e
    <2> QED
      BY <1>1, <1>2, <1>5, <2>1, ServerHolds, ServerObjectsAre
  <1> QED
    BY <1>2, <1>6

\* Main leaves: what it made last goes, the io_context after its handlers.
LEMMA ServerUndoes ==
  ASSUME ServerControl, ServerHolders, DropHandlers \/ Unbuild
  PROVE  ServerControl' /\ ServerHolders' /\ at = "leaving" /\ at' = "leaving"
  <1> DEFINE n == Len(built)
             last == built[n]
  <1>1. at = "leaving" /\ UNCHANGED <<process, at>> /\ built # <<>>
    BY DEF DropHandlers, Unbuild
  <1>2. n \in Nat \ {0} /\ n \in 1 .. Len(ServerOrder) /\ last = ServerOrder[n]
    BY <1>1, LastBuilt, ServerIsOrdered DEF ServerControl
  <1>3. 7 \in 1 .. Len(ServerOrder) /\ ServerOrder[7] = "io_context"
    BY ServerOrderIs
  <1>4. /\ io \in {"none", "made", "stopped", "dropped", "gone"}
        /\ io \in {"none", "gone"} => n < 7
        /\ io \in {"made", "stopped"} => n >= 7
        /\ io = "dropped" => n = 7
    BY DEF ServerControl, Stage
  <1>5. last = "io_context" <=> n = 7
    <2> HIDE DEF n
    <2> QED BY <1>2, <1>3, ServerIsOrdered DEF Ordered
  <1>6. io = "gone" => {"game_manager", "lobby_manager", "server", "game_loop"} \cap Built = {}
    BY <1>4, ServerMade DEF ServerControl
  <1>7. CASE DropHandlers
    <2> DEFINE dropped == {e \in refs : e[1] \in Handler}
    <2>1. /\ last = "io_context" /\ io' = "dropped" /\ Release(dropped) /\ UNCHANGED built
      BY <1>7 DEF DropHandlers
    <2>2. ServerControl'
      BY <1>1, <1>5, <2>1 DEF ServerControl, Begun, Stage
    <2>3. dropped \cap RouterCycle = {}
      BY DEF RouterCycle, Handler
    <2>4. \A o \in ServerObjects : o \in Built' <=> <<"main", o>> \in refs \ dropped
      BY <2>1 DEF ServerHolders, MainHolds, Built, Handler
    <2>5. \A e \in refs \ dropped : e[1] \notin Handler
      OBVIOUS
    <2>6. io # "gone"
      BY <1>4, <1>5, <2>1
    <2> HIDE DEF dropped, n
    <2>7. ServerHolders'
      BY <2>1, <2>3, <2>4, <2>5, <2>6, ServerReleases
    <2> QED
      BY <1>1, <2>2, <2>7
  <1>8. CASE Unbuild
    <2> DEFINE dropped == {<<"main", last>>}
    <2>1. /\ last = "io_context" => io = "dropped"
          /\ io' = IF last = "io_context" THEN "gone" ELSE io
          /\ Release(dropped)
          /\ built' = SubSeq(built, 1, Len(built) - 1)
      BY <1>8 DEF Unbuild
    <2>2. Begun(ServerOrder)' /\ Len(built') = n - 1 /\ Built' = Built \ {last}
      BY <1>1, <2>1, UnbuildEnds, ServerIsOrdered DEF ServerControl
    <2> HIDE DEF n
    <2>3. /\ io' \in {"none", "made", "stopped", "dropped", "gone"}
          /\ io' \in {"none", "gone"} => n - 1 < 7
          /\ io' \in {"made", "stopped"} => n - 1 >= 7
          /\ io' = "dropped" => n - 1 = 7
      BY <1>2, <1>4, <1>5, <2>1
    <2>4. ServerControl'
      BY <1>1, <2>2, <2>3 DEF ServerControl, Stage
    <2>5. dropped \cap RouterCycle = {}
      BY DEF RouterCycle
    <2>6. \A o \in ServerObjects : o \in Built' <=> <<"main", o>> \in refs \ dropped
      <3> HIDE DEF last
      <3> QED BY <2>2 DEF ServerHolders, MainHolds
    <2>7. (\E e \in refs \ dropped : e[1] \in Handler) => io' \in {"made", "stopped"}
      BY <2>1 DEF ServerHolders, HandlersHold
    <2>8. <<"session_registry", "session">> \notin dropped
      OBVIOUS
    <2> HIDE DEF dropped, last
    <2>9. ServerHolders'
      BY <1>6, <2>1, <2>5, <2>6, <2>7, <2>8, ServerReleases
    <2> QED
      BY <1>1, <2>4, <2>9
  <1> QED
    BY <1>7, <1>8

\* A handler gives something up, while the io_context runs it.
LEMMA ServerHandlerReleases ==
  ASSUME ServerControl, ServerHolders, Handling, UNCHANGED io,
         NEW e \in {<<"on_tick", "game_loop">>, <<"session_registry", "session">>,
                    <<"on_session", "session">>, <<"on_posted", "event_bus">>},
         Release({e})
  PROVE  ServerControl' /\ ServerHolders'
  <1>1. UNCHANGED <<process, at, built, io>> /\ io = "made"
    BY DEF Handling, Serving
  <1>2. ServerControl'
    BY <1>1 DEF ServerControl, Begun, Stage
  <1>3. {e} \cap RouterCycle = {} /\ \A o : <<"main", o>> # e
    BY DEF RouterCycle
  <1>4. \A o \in ServerObjects : o \in Built' <=> <<"main", o>> \in refs \ {e}
    BY <1>1, <1>3 DEF ServerHolders, MainHolds, Built
  <1> DEFINE dropped == {e}
  <1>5. Release(dropped) /\ dropped \cap RouterCycle = {}
        /\ \A o \in ServerObjects : o \in Built' <=> <<"main", o>> \in refs \ dropped
    BY <1>3, <1>4
  <1> HIDE DEF dropped
  <1>6. ServerHolders'
    BY <1>1, <1>5, ServerReleases
  <1> QED
    BY <1>2, <1>6

\* What is done does not change while a handler runs.
LEMMA ServerHandlerKeeps ==
  ASSUME ServerControl, ServerHolders, Handling, HoldNothing, io' \in {"made", "stopped"}
  PROVE  ServerControl' /\ ServerHolders'
  <1>1. UNCHANGED <<process, at, built>> /\ io = "made"
    BY DEF Handling, Serving
  <1>2. ServerControl'
    BY <1>1 DEF ServerControl, Begun, Stage
  <1>3. ServerHolders'
    BY <1>1, ServerKeeps DEF HoldNothing, Built
  <1> QED
    BY <1>2, <1>3

\* While a handler runs, the bus and the router are there.
LEMMA WhileServing ==
  ASSUME ServerControl, ServerHolders, Handling
  PROVE  /\ "message_router" \in Built /\ "event_bus" \in alive
         /\ io = "made" /\ UNCHANGED <<process, at, built>> /\ Built' = Built
  <1>1. io = "made" /\ UNCHANGED <<process, at, built>> /\ "thread_1" \in Built
    BY DEF Handling, Serving, Done, Built
  <1>2. "message_router" \in Built /\ "event_bus" \in Built
    BY <1>1, ServerMade DEF ServerControl
  <1>3. "event_bus" \in alive
    BY <1>2, ServerObjectsAre DEF ServerHolders, MainHolds, Linked
  <1> QED
    BY <1>1, <1>2, <1>3 DEF Built

\* Main moves on without making or undoing anything.
LEMMA ServerMoves ==
  ASSUME ServerControl, ServerHolders, UNCHANGED <<process, built, refs, alive, io, late>>,
         at' \in {"starting", "joining", "leaving", "returned", "exited", "terminated"},
         io \in {"dropped", "gone"} => at' \in {"leaving", "returned", "exited", "terminated"}
  PROVE  ServerControl' /\ ServerHolders'
  <1>1. ServerControl'
    BY DEF ServerControl, Begun, Stage
  <1>2. ServerHolders'
    BY ServerKeeps DEF Built
  <1> QED
    BY <1>1, <1>2

LEMMA MainOfServerKeeps ==
  ASSUME ServerInvariant,
         \/ LoadServerSettings \/ InitializeServerLogger \/ MakeObject \/ MakeServerIo
         \/ Listen \/ StartGameLoop \/ WaitForSignals \/ StartThread
         \/ ServerThrows \/ ThreadThrows \/ Join \/ Joined
         \/ ServerLeaves \/ ServerReturns
  PROVE  ServerInvariant'
  <1> USE DEF ServerInvariant
  <1>1. CASE LoadServerSettings
    <2>1. ServerControl' /\ ServerHolders' /\ at = "starting" /\ at' = "starting"
      BY <1>1, ServerTakesSmallStep, ServerObjectsAre DEF LoadServerSettings
    <2> QED
      BY <2>1
  <1>2. CASE InitializeServerLogger
    <2>1. ServerControl' /\ ServerHolders' /\ at = "starting" /\ at' = "starting"
      BY <1>2, ServerTakesSmallStep, ServerObjectsAre DEF InitializeServerLogger
    <2> QED
      BY <2>1
  <1>3. CASE MakeObject
    <2>1. ServerControl' /\ ServerHolders' /\ at = "starting" /\ at' = "starting"
      BY <1>3, ServerMakesObject
    <2> QED
      BY <2>1
  <1>4. CASE MakeServerIo
    <2>1. ServerControl' /\ ServerHolders' /\ at = "starting" /\ at' = "starting"
      BY <1>4, ServerMakesIo
    <2> QED
      BY <2>1
  <1>5. CASE Listen
    <2>1. ServerControl' /\ ServerHolders' /\ at = "starting" /\ at' = "starting"
      BY <1>5, ServerTakesSmallStep, ServerObjectsAre DEF Listen
    <2> QED
      BY <2>1
  <1>6. CASE StartGameLoop
    <2>1. ServerControl' /\ ServerHolders' /\ at = "starting" /\ at' = "starting"
      BY <1>6, ServerStartsTicking
    <2> QED
      BY <2>1
  <1>7. CASE WaitForSignals
    <2>1. ServerControl' /\ ServerHolders' /\ at = "starting" /\ at' = "starting"
      BY <1>7, ServerTakesSmallStep, ServerObjectsAre DEF WaitForSignals
    <2> QED
      BY <2>1
  <1>8. CASE StartThread
    <2>1. PICK thread \in {"thread_1", "thread_2"} : Step(ServerOrder, thread)
      BY <1>8 DEF StartThread
    <2>2. ServerControl' /\ ServerHolders' /\ at = "starting" /\ at' = "starting"
      BY <1>8, <2>1, ServerTakesSmallStep, ServerObjectsAre DEF StartThread
    <2> QED
      BY <2>2
  <1>9. CASE ServerThrows
    <2>1. /\ at = "starting" /\ at' = "leaving"
          /\ UNCHANGED <<process, built, refs, alive, io, late>>
      BY <1>9 DEF ServerThrows, Throw
    <2> QED
      BY <2>1, ServerMoves
  <1>10. CASE ThreadThrows
    <2>1. /\ at = "starting" /\ at' = "terminated"
          /\ UNCHANGED <<process, built, refs, alive, io, late>>
      BY <1>10 DEF ThreadThrows
    <2> QED
      BY <2>1, ServerMoves DEF ServerControl, Stage
  <1>11. CASE Join
    <2>1. /\ at = "starting" /\ at' = "joining"
          /\ UNCHANGED <<process, built, refs, alive, io, late>>
      BY <1>11 DEF Join
    <2> QED
      BY <2>1, ServerMoves DEF ServerControl, Stage
  <1>12. CASE Joined
    <2>1. /\ at = "joining" /\ at' = "leaving"
          /\ UNCHANGED <<process, built, refs, alive, io, late>>
      BY <1>12 DEF Joined
    <2> QED
      BY <2>1, ServerMoves
  <1>13. CASE ServerLeaves
    <2>1. ServerControl' /\ ServerHolders' /\ at = "leaving" /\ at' = "leaving"
      BY <1>13, ServerUndoes DEF ServerLeaves
    <2> QED
      BY <2>1
  <1>14. CASE ServerReturns
    <2>1. /\ at = "leaving" /\ at' = "returned"
          /\ UNCHANGED <<process, built, refs, alive, io, late>>
      BY <1>14 DEF ServerReturns
    <2> QED
      BY <2>1, ServerMoves
  <1> QED
    BY <1>1, <1>2, <1>3, <1>4, <1>5, <1>6, <1>7, <1>8, <1>9, <1>10, <1>11, <1>12, <1>13, <1>14

LEMMA HandlersOfServerKeep ==
  ASSUME ServerInvariant,
         \/ PublishTick \/ RescheduleAnyway \/ AcceptClient \/ AcceptFails \/ CloseSession
         \/ LastSessionHandler \/ PostEvent \/ RunPosted \/ StopServer
  PROVE  ServerInvariant'
  <1> USE DEF ServerInvariant
  <1>1. Handling
    BY DEF PublishTick, RescheduleAnyway, AcceptClient, AcceptFails, CloseSession,
           LastSessionHandler, PostEvent, RunPosted, StopServer
  <1>2. /\ "message_router" \in Built /\ "event_bus" \in alive
        /\ io = "made" /\ UNCHANGED <<process, at, built>> /\ Built' = Built
    BY <1>1, WhileServing
  <1>4. ASSUME UNCHANGED io PROVE ServerControl'
    BY <1>2, <1>4 DEF ServerControl, Begun, Stage
  <1>5. CASE PublishTick \/ RescheduleAnyway
    <2>1. ScheduleTick /\ UNCHANGED io
      BY <1>5 DEF PublishTick, RescheduleAnyway
    <2>2. CASE Release({<<"on_tick", "game_loop">>})
      BY <1>1, <2>1, <2>2, ServerHandlerReleases
    <2>3. CASE HoldNothing
      BY <1>1, <1>2, <2>1, <2>3, ServerHandlerKeeps
    <2> QED
      BY <2>1, <2>2, <2>3 DEF ScheduleTick
  <1>6. CASE AcceptClient
    <2>1. Gain("session", {}, {"session_registry", "on_session"}) /\ UNCHANGED io
      BY <1>6 DEF AcceptClient
    <2>2. ServerHolders'
      BY <1>2, <2>1, SessionComes
    <2> QED
      BY <1>4, <2>1, <2>2
  <1>7. CASE AcceptFails
    BY <1>1, <1>2, <1>7, ServerHandlerKeeps DEF AcceptFails
  <1>8. CASE CloseSession
    BY <1>1, <1>8, ServerHandlerReleases DEF CloseSession
  <1>9. CASE LastSessionHandler
    BY <1>1, <1>9, ServerHandlerReleases DEF LastSessionHandler
  <1>10. CASE PostEvent
    <2> DEFINE e == <<"on_posted", "event_bus">>
    <2>1. Hold({e}) /\ UNCHANGED io /\ e[2] = "event_bus"
          /\ e \in {<<"on_tick", "game_loop">>, <<"on_posted", "event_bus">>}
      BY <1>10 DEF PostEvent
    <2> HIDE DEF e
    <2>2. ServerHolders'
      BY <1>2, <2>1, ServerHolds
    <2> QED
      BY <1>4, <2>1, <2>2
  <1>11. CASE RunPosted
    BY <1>1, <1>11, ServerHandlerReleases DEF RunPosted
  <1>12. CASE StopServer
    BY <1>1, <1>12, ServerHandlerKeeps DEF StopServer
  <1> QED
    BY <1>5, <1>6, <1>7, <1>8, <1>9, <1>10, <1>11, <1>12

LEMMA ServerBeneathKeeps ==
  ASSUME ServerInvariant, Beneath \/ UNCHANGED <<lifeVars, loggerVars>>
         \/ TimerExpires \/ TimerFails
  PROVE  ServerInvariant'
  <1> USE DEF ServerInvariant
  <1>1. CASE Exit
    <2>1. at = "returned" /\ at' \in {"exited", "terminated"}
          /\ UNCHANGED <<process, built, refs, alive, io, late>>
      BY <1>1 DEF Exit
    <2> QED
      BY <2>1, ServerMoves
  <1>2. ASSUME NEW sink, SinkWrites(sink), UNCHANGED lifeVars
        PROVE  ServerInvariant'
    BY <1>2, ServerMoves DEF lifeVars, ServerControl, Stage
  <1>3. CASE UNCHANGED <<lifeVars, loggerVars>>
    BY <1>3, ServerMoves DEF lifeVars, ServerControl, Stage
  <1> QED
    BY <1>1, <1>2, <1>3 DEF Beneath, TimerExpires, TimerFails

LEMMA ServerStarts == ServerInit /\ LoggerInit => ServerInvariant
  <1> SUFFICES ASSUME ServerInit, LoggerInit PROVE ServerInvariant
    OBVIOUS
  <1>1. /\ process = "server" /\ at = "starting" /\ built = <<>> /\ refs = {} /\ alive = {}
        /\ io = "none" /\ late = {}
    BY DEF ServerInit, LifetimesInit
  <1>2. Begun(ServerOrder)
    BY <1>1, ServerOrderIs DEF Begun
  <1>3. Built = {}
    BY <1>1 DEF Built
  <1>4. ServerControl
    BY <1>1, <1>2 DEF ServerControl, Stage
  <1>5. ServerHolders
    BY <1>1, <1>3 DEF ServerHolders, Linked, MainHolds, HandlersHold, HeldBy
  <1> QED
    BY <1>4, <1>5 DEF ServerInvariant

LEMMA ServerStays == ServerInvariant /\ [ServerStep]_serverVars => ServerInvariant'
  BY MainOfServerKeeps, HandlersOfServerKeep, ServerBeneathKeeps DEF ServerStep, ServerNext, serverVars

\* Whatever main of the server and its handlers do, and wherever a step throws,
\* who holds whom is as ServerHolders says.
THEOREM ServerHoldsTogether == ServerSpec => []ServerInvariant
  <1> QED
    BY ServerStays, ServerStarts, PTL DEF ServerSpec

\* Nothing that uses the services of the server's io_context is destroyed after
\* it (server/main.cpp:26-97), not even the sessions that a registry older than
\* the io_context holds.
THEOREM ServerIoOutlivesItsUsers == ServerSpec => []IoOutlivesItsUsers
  <1>1. ServerInvariant => IoOutlivesItsUsers
    BY DEF ServerInvariant, ServerHolders, IoOutlivesItsUsers
  <1> QED
    BY <1>1, ServerHoldsTogether, PTL

-----------------------------------------------------------------------------
\* The client.

ClientObjects == DOMAIN ClientHolds \cup {"terminal_guard"}

ClientControl ==
  /\ process = "client"
  /\ at \in {"starting", "running", "leaving", "returned", "exited", "terminated"}
  /\ Begun(ClientOrder)
  /\ Stage(3)
  /\ at = "running" => Len(built) = Len(ClientOrder)
  /\ at \in {"returned", "exited", "terminated"} => built = <<>>

ClientHolders ==
  /\ Linked
  /\ alive \subseteq ClientObjects
  /\ MainHolds(ClientObjects)
  /\ HandlersHold
  /\ HeldBy("terminal_guard", {"main", "on_signal"})
  /\ late = {}

\* A raw terminal is the guard's, and the guard is there to restore it.
ClientTerminal ==
  /\ terminal \in [is_tty: BOOLEAN, raw: BOOLEAN]
  /\ active \in BOOLEAN
  /\ terminal.raw => active /\ "terminal_guard" \in alive

\* Unless something threw, the log is reset before main returns, and not earlier.
ClientLogKept ==
  ~threw =>
    /\ LogIsKept
    /\ already_shutdown => at \in {"returned", "exited"}
    /\ at \in {"returned", "exited"} => ~instance
    /\ at # "terminated"

ClientInvariant == ClientControl /\ ClientHolders /\ ClientTerminal /\ ClientLogKept

LEMMA ClientOrderIs ==
  /\ Len(ClientOrder) = 14
  /\ ClientOrder[1] = "settings" /\ ClientOrder[2] = "logger" /\ ClientOrder[3] = "io_context"
  /\ ClientOrder[4] = "signals" /\ ClientOrder[5] = "client" /\ ClientOrder[6] = "client_controller"
  /\ ClientOrder[7] = "terminal_guard" /\ ClientOrder[8] = "stdin_reader"
  /\ ClientOrder[9] = "keyboard_reader" /\ ClientOrder[10] = "waiting"
  /\ ClientOrder[11] = "receiving" /\ ClientOrder[12] = "reading"
  /\ ClientOrder[13] = "polling" /\ ClientOrder[14] = "connecting"
  BY DEF ClientOrder

LEMMA ClientIsOrdered == Ordered(ClientOrder)
  <1> DEFINE PlaceOf(s) ==
        IF s = "settings" THEN 1 ELSE IF s = "logger" THEN 2 ELSE IF s = "io_context" THEN 3
        ELSE IF s = "signals" THEN 4 ELSE IF s = "client" THEN 5 ELSE IF s = "client_controller" THEN 6
        ELSE IF s = "terminal_guard" THEN 7 ELSE IF s = "stdin_reader" THEN 8
        ELSE IF s = "keyboard_reader" THEN 9 ELSE IF s = "waiting" THEN 10 ELSE IF s = "receiving" THEN 11
        ELSE IF s = "reading" THEN 12 ELSE IF s = "polling" THEN 13 ELSE 14
  <1>1. ASSUME NEW i \in 1 .. 14
        PROVE  \/ i = 1 \/ i = 2 \/ i = 3 \/ i = 4 \/ i = 5 \/ i = 6 \/ i = 7
               \/ i = 8 \/ i = 9 \/ i = 10 \/ i = 11 \/ i = 12 \/ i = 13 \/ i = 14
    OBVIOUS
  <1>2. /\ PlaceOf(ClientOrder[1]) = 1 /\ PlaceOf(ClientOrder[2]) = 2 /\ PlaceOf(ClientOrder[3]) = 3
        /\ PlaceOf(ClientOrder[4]) = 4 /\ PlaceOf(ClientOrder[5]) = 5 /\ PlaceOf(ClientOrder[6]) = 6
        /\ PlaceOf(ClientOrder[7]) = 7 /\ PlaceOf(ClientOrder[8]) = 8 /\ PlaceOf(ClientOrder[9]) = 9
    BY ClientOrderIs
  <1>3. /\ PlaceOf(ClientOrder[10]) = 10 /\ PlaceOf(ClientOrder[11]) = 11 /\ PlaceOf(ClientOrder[12]) = 12
        /\ PlaceOf(ClientOrder[13]) = 13 /\ PlaceOf(ClientOrder[14]) = 14
    BY ClientOrderIs
  <1> HIDE DEF PlaceOf
  <1>4. ASSUME NEW i \in 1 .. 14
        PROVE  PlaceOf(ClientOrder[i]) = i
    BY <1>1, <1>2, <1>3
  <1>5. Len(ClientOrder) = 14
    BY ClientOrderIs
  <1>6. \A i, j \in 1 .. 14 : ClientOrder[i] = ClientOrder[j] => i = j
    BY <1>4
  <1> QED
    BY <1>5, <1>6 DEF Ordered

LEMMA ClientMade ==
  ASSUME Begun(ClientOrder)
  PROVE  /\ Len(built) \in Nat /\ Len(built) <= 14
         /\ \A k \in 1 .. 14 : ClientOrder[k] \in Built <=> k <= Len(built)
  <1>1. \A k \in 1 .. Len(ClientOrder) : ClientOrder[k] \in Built <=> k <= Len(built)
    BY MadeInOrder, ClientIsOrdered
  <1>2. Len(ClientOrder) = 14
    BY ClientOrderIs
  <1>3. Len(built) \in Nat /\ Len(built) <= Len(ClientOrder)
    BY <1>2 DEF Begun
  <1> QED
    BY <1>1, <1>2, <1>3

LEMMA ClientObjectsAre ==
  /\ ClientObjects = {"client", "client_controller", "terminal_guard", "stdin_reader", "keyboard_reader"}
  /\ \A o \in DOMAIN ClientHolds : ClientHolds[o] \subseteq {"client"}
  /\ \A o \in DOMAIN ClientHolds : ClientHolds[o] = {} \/ o = "client_controller"
  /\ DOMAIN ClientHolds = ClientObjects \ {"terminal_guard"}
  BY DEF ClientObjects, ClientHolds

\* Main goes on, and nothing changes hands.
LEMMA ClientKeeps ==
  ASSUME ClientHolders, UNCHANGED <<alive, refs, late>>,
         \A o \in ClientObjects : o \in Built' <=> o \in Built,
         io \in {"made", "stopped"} => io' \in {"made", "stopped"}
  PROVE  ClientHolders'
  BY DEF ClientHolders, Linked, MainHolds, HandlersHold, HeldBy

\* When the io_context is gone, main's objects are gone already: what main undoes
\* then gives up nothing.
LEMMA ClientReleases ==
  ASSUME ClientHolders, NEW dropped, Release(dropped),
         \A o \in ClientObjects : o \in Built' <=> <<"main", o>> \in refs \ dropped,
         (\E e \in refs \ dropped : e[1] \in Handler) => io' \in {"made", "stopped"},
         io = "gone" => dropped \cap refs = {}
  PROVE  ClientHolders'
  <1>1. /\ Linked' /\ alive' \subseteq alive /\ refs' \subseteq refs \ dropped
        /\ \A e \in refs \ dropped : e[1] \in alive' \cup Root => e \in refs'
        /\ late' = IF io = "gone" THEN late \cup (alive \ alive') ELSE late
    BY Released DEF ClientHolders
  <1>2. ASSUME io = "gone"
        PROVE  alive' = alive
    <2>1. refs \ dropped = refs
      BY <1>2
    <2>2. \A o \in alive : \E e \in refs \ dropped : e[2] = o /\ e[1] \in alive \cup Root
      BY <2>1 DEF ClientHolders, Linked
    <2>3. alive \subseteq alive'
      BY <2>2, SelfHeldStay
    <2> QED
      BY <1>1, <2>3
  <1>3. late' = {}
    BY <1>1, <1>2 DEF ClientHolders
  <1>4. \A o \in ClientObjects : o \in Built' <=> <<"main", o>> \in refs'
    BY <1>1 DEF Root
  <1>5. (\E e \in refs' : e[1] \in Handler) => io' \in {"made", "stopped"}
    BY <1>1
  <1>6. HeldBy("terminal_guard", {"main", "on_signal"})' /\ alive' \subseteq ClientObjects
    BY <1>1 DEF ClientHolders, HeldBy
  <1> QED
    BY <1>1, <1>3, <1>4, <1>5, <1>6 DEF ClientHolders, MainHolds, HandlersHold

\* What goes restores the terminal, if it is the guard.
LEMMA TerminalIsGuarded ==
  ASSUME ClientTerminal, alive' \subseteq alive, Goes(alive \ alive')
  PROVE  ClientTerminal'
  <1>1. CASE "terminal_guard" \in alive \ alive'
    <2>1. active' = FALSE /\ terminal' = [terminal EXCEPT !.raw = IF active THEN FALSE ELSE @]
      BY <1>1 DEF Goes, Restore
    <2>2. terminal'.raw = FALSE
      BY <2>1 DEF ClientTerminal
    <2> QED
      BY <2>1, <2>2 DEF ClientTerminal
  <1>2. CASE "terminal_guard" \notin alive \ alive'
    BY <1>2 DEF Goes, guardVars, ClientTerminal
  <1> QED
    BY <1>1, <1>2

LEMMA TerminalIsRestored ==
  ASSUME ClientTerminal, Restore
  PROVE  ClientTerminal'
  <1>1. active' = FALSE /\ terminal' = [terminal EXCEPT !.raw = IF active THEN FALSE ELSE @]
    BY DEF Restore
  <1>2. terminal'.raw = FALSE
    BY <1>1 DEF ClientTerminal
  <1> QED
    BY <1>1, <1>2 DEF ClientTerminal

LEMMA TerminalIsKept ==
  ASSUME ClientTerminal, UNCHANGED guardVars, "terminal_guard" \in alive => "terminal_guard" \in alive'
  PROVE  ClientTerminal'
  BY DEF ClientTerminal, guardVars

-----------------------------------------------------------------------------
\* The client's steps.

LEMMA ClientTakesStep ==
  ASSUME ClientControl, NEW step, Step(ClientOrder, step),
         io' = IF step = "io_context" THEN "made" ELSE io
  PROVE  /\ ClientControl' /\ at = "starting" /\ at' = "starting"
         /\ Built' = Built \cup {step}
         /\ Len(built) \in Nat /\ Len(built) + 1 \in 1 .. 14 /\ step = ClientOrder[Len(built) + 1]
  <1>1. /\ Begun(ClientOrder)'
        /\ Len(built) \in Nat /\ Len(built') = Len(built) + 1
        /\ step = ClientOrder[Len(built) + 1] /\ Len(built) + 1 <= Len(ClientOrder)
        /\ Built' = Built \cup {step}
    BY StepBegins, ClientIsOrdered DEF ClientControl
  <1>2. at = "starting" /\ UNCHANGED <<process, at>>
    BY DEF Step
  <1>3. Len(built) + 1 \in 1 .. Len(ClientOrder) /\ Len(ClientOrder) = 14
    BY <1>1, ClientOrderIs
  <1> DEFINE n == Len(built)
  <1>4. n \in Nat /\ n + 1 \in 1 .. Len(ClientOrder) /\ Len(built') = n + 1 /\ step = ClientOrder[n + 1]
    BY <1>1, <1>3
  <1>5. /\ io \in {"none", "made", "stopped"}
        /\ io = "none" => n < 3
        /\ io \in {"made", "stopped"} => n >= 3
    BY <1>2 DEF ClientControl, Stage
  <1> HIDE DEF n
  <1>6. step = "io_context" <=> n + 1 = 3
    <2>1. 3 \in 1 .. Len(ClientOrder) /\ ClientOrder[3] = "io_context"
      BY ClientOrderIs
    <2> QED
      BY <1>4, <2>1, ClientIsOrdered DEF Ordered
  <1>7. /\ io' \in {"none", "made", "stopped"}
        /\ io' = "none" => n + 1 < 3
        /\ io' \in {"made", "stopped"} => n + 1 >= 3
    BY <1>4, <1>5, <1>6
  <1>8. Stage(3)'
    BY <1>4, <1>7 DEF Stage
  <1> QED
    BY <1>1, <1>2, <1>3, <1>8 DEF ClientControl

\* A step that makes no object and no io_context.
LEMMA ClientTakesSmallStep ==
  ASSUME ClientControl, ClientHolders, ClientTerminal, NEW step, Step(ClientOrder, step),
         step \notin ClientObjects, step # "io_context", UNCHANGED <<io, guardVars>>, HoldNothing
  PROVE  ClientControl' /\ ClientHolders' /\ ClientTerminal' /\ at = "starting" /\ at' = "starting"
  <1>1. ClientControl' /\ at = "starting" /\ at' = "starting" /\ Built' = Built \cup {step}
    BY ClientTakesStep
  <1>2. ClientHolders' /\ ClientTerminal'
    BY <1>1, ClientKeeps, TerminalIsKept DEF HoldNothing
  <1> QED
    BY <1>1, <1>2

LEMMA ClientMakesIo ==
  ASSUME ClientControl, ClientHolders, ClientTerminal, MakeClientIo
  PROVE  ClientControl' /\ ClientHolders' /\ ClientTerminal' /\ at = "starting" /\ at' = "starting"
  <1>1. Step(ClientOrder, "io_context") /\ HoldNothing /\ io' = "made" /\ UNCHANGED guardVars
    BY DEF MakeClientIo
  <1>2. ClientControl' /\ at = "starting" /\ at' = "starting" /\ Built' = Built \cup {"io_context"}
    BY <1>1, ClientTakesStep
  <1>3. ClientHolders' /\ ClientTerminal'
    BY <1>1, <1>2, ClientKeeps, TerminalIsKept, ClientObjectsAre DEF HoldNothing
  <1> QED
    BY <1>2, <1>3

\* An object comes, held by main, and perhaps holding the client.
LEMMA ClientMakes ==
  ASSUME ClientHolders, NEW object \in ClientObjects, NEW holds \in SUBSET {"client"},
         Gain(object, holds, {"main"}), Built' = Built \cup {object}, UNCHANGED io,
         holds = {} \/ "client" \in alive
  PROVE  ClientHolders' /\ alive' = alive \cup {object}
  <1> DEFINE new == {<<object, h>> : h \in holds}
  <1>1. alive' = alive \cup {object} /\ refs' = refs \cup new \cup {<<"main", object>>} /\ late' = late
    BY DEF Gain
  <1>2. \A e \in new : e = <<object, "client">> /\ "client" \in alive
    OBVIOUS
  <1> HIDE DEF new
  <1>3. Linked'
    <2>1. refs \subseteq (alive' \cup Root) \X alive'
      BY <1>1 DEF ClientHolders, Linked
    <2>2. \A e \in new : e \in (alive' \cup Root) \X alive'
      BY <1>1, <1>2
    <2>3. <<"main", object>> \in (alive' \cup Root) \X alive'
      BY <1>1 DEF Root
    <2>4. refs' \subseteq (alive' \cup Root) \X alive'
      BY <1>1, <2>1, <2>2, <2>3
    <2>5. ASSUME NEW o \in alive'
          PROVE  \E e \in refs' : e[2] = o
      <3>1. CASE o = object
        <4>1. <<"main", object>> \in refs' /\ <<"main", object>>[2] = o
          BY <1>1, <3>1
        <4> QED
          BY <4>1, Zenon
      <3>2. CASE o \in alive
        BY <1>1, <3>2 DEF ClientHolders, Linked
      <3> QED
        BY <1>1, <3>1, <3>2
    <2> QED
      BY <2>4, <2>5 DEF Linked
  <1>4. \A o \in ClientObjects : o \in Built' <=> <<"main", o>> \in refs'
    <2>1. \A o : <<"main", o>> \in new \cup {<<"main", object>>} <=> o = object
      BY <1>2, ClientObjectsAre
    <2> QED
      BY <1>1, <2>1 DEF ClientHolders, MainHolds
  <1>5. HandlersHold'
    BY <1>1, <1>2, ClientObjectsAre DEF ClientHolders, HandlersHold, Handler
  <1>6. HeldBy("terminal_guard", {"main", "on_signal"})'
    BY <1>1, <1>2 DEF ClientHolders, HeldBy
  <1> QED
    BY <1>1, <1>3, <1>4, <1>5, <1>6 DEF ClientHolders, MainHolds

LEMMA ClientMakesObject ==
  ASSUME ClientControl, ClientHolders, ClientTerminal, MakeClientObject
  PROVE  ClientControl' /\ ClientHolders' /\ ClientTerminal' /\ at = "starting" /\ at' = "starting"
  <1>1. PICK object \in DOMAIN ClientHolds :
          Step(ClientOrder, object) /\ Gain(object, ClientHolds[object], {"main"})
    BY DEF MakeClientObject
  <1>2. UNCHANGED io /\ UNCHANGED guardVars
    BY DEF MakeClientObject
  <1>3. object # "io_context" /\ object \in ClientObjects /\ ClientHolds[object] \in SUBSET {"client"}
    BY ClientObjectsAre
  <1>4. /\ ClientControl' /\ at = "starting" /\ at' = "starting" /\ Built' = Built \cup {object}
        /\ Len(built) \in Nat /\ Len(built) + 1 \in 1 .. 14 /\ object = ClientOrder[Len(built) + 1]
    BY <1>1, <1>2, <1>3, ClientTakesStep
  <1>5. object = "client_controller" => "client" \in alive
    <2> DEFINE n == Len(built)
    <2>1. n \in Nat /\ n + 1 \in 1 .. 14 /\ object = ClientOrder[n + 1]
          /\ \A k \in 1 .. 14 : ClientOrder[k] \in Built <=> k <= n
      BY <1>4, ClientMade DEF ClientControl
    <2> HIDE DEF n
    <2>2. object = "client_controller" => n + 1 = 6
      <3>1. 6 \in 1 .. Len(ClientOrder) /\ ClientOrder[6] = "client_controller" /\ Len(ClientOrder) = 14
        BY ClientOrderIs
      <3> QED
        BY <2>1, <3>1, ClientIsOrdered DEF Ordered
    <2>3. object = "client_controller" => "client" \in Built
      BY <2>1, <2>2, ClientOrderIs
    <2> QED
      BY <2>3, ClientObjectsAre DEF ClientHolders, MainHolds, Linked
  <1>6. ClientHolds[object] = {} \/ object = "client_controller"
    BY ClientObjectsAre
  <1> DEFINE holds == ClientHolds[object]
  <1>7. holds \in SUBSET {"client"} /\ Gain(object, holds, {"main"}) /\ (holds = {} \/ "client" \in alive)
    BY <1>1, <1>3, <1>5, <1>6
  <1> HIDE DEF holds
  <1>8. ClientHolders' /\ alive' = alive \cup {object}
    BY <1>2, <1>3, <1>4, <1>7, ClientMakes
  <1>9. ClientTerminal'
    BY <1>2, <1>8, TerminalIsKept
  <1> QED
    BY <1>4, <1>8, <1>9

LEMMA GuardIsMade ==
  ASSUME ClientControl, ClientHolders, ClientTerminal, MakeTerminalGuard
  PROVE  ClientControl' /\ ClientHolders' /\ ClientTerminal' /\ at = "starting" /\ at' = "starting"
  <1>1. /\ Step(ClientOrder, "terminal_guard") /\ Gain("terminal_guard", {}, {"main"})
        /\ ChangeMode /\ UNCHANGED io
    BY DEF MakeTerminalGuard
  <1>2. ClientControl' /\ at = "starting" /\ at' = "starting" /\ Built' = Built \cup {"terminal_guard"}
    BY <1>1, ClientTakesStep
  <1>3. ClientHolders' /\ alive' = alive \cup {"terminal_guard"}
    BY <1>1, <1>2, ClientMakes, ClientObjectsAre
  <1>4. ClientTerminal'
    BY <1>1, <1>3 DEF ChangeMode, ClientTerminal
  <1> QED
    BY <1>2, <1>3, <1>4

\* What main connects is among what is there.
LEMMA ClientConnects ==
  ASSUME ClientControl, ClientHolders, ClientTerminal, Connect
  PROVE  ClientControl' /\ ClientHolders' /\ ClientTerminal' /\ at = "starting" /\ at' = "starting"
  <1>1. PICK step \in DOMAIN Captures : Step(ClientOrder, step) /\ Hold(Captures[step])
    BY DEF Connect
  <1>2. UNCHANGED io /\ UNCHANGED guardVars
    BY DEF Connect
  <1>3. step \in {"waiting", "receiving", "reading", "polling", "connecting"}
    BY DEF Captures
  <1>4. step # "io_context" /\ step \notin ClientObjects
    BY <1>3, ClientObjectsAre
  <1>5. /\ ClientControl' /\ at = "starting" /\ at' = "starting" /\ Built' = Built \cup {step}
        /\ Len(built) \in Nat /\ Len(built) + 1 \in 1 .. 14 /\ step = ClientOrder[Len(built) + 1]
    BY <1>1, <1>2, <1>4, ClientTakesStep
  <1> DEFINE n == Len(built)
  <1>6. n \in Nat /\ n + 1 \in 1 .. 14 /\ step = ClientOrder[n + 1]
        /\ \A k \in 1 .. 14 : ClientOrder[k] \in Built <=> k <= n
    BY <1>5, ClientMade DEF ClientControl
  <1>7. io = "none" => n < 3
    BY DEF ClientControl, Stage
  <1>8. io \notin {"dropped", "gone"}
    BY <1>5 DEF ClientControl, Stage
  <1> HIDE DEF n
  <1>9. n >= 9
    <2>1. n \in 0 .. 8 => step \in {"settings", "logger", "io_context", "signals", "client", "client_controller",
                                    "terminal_guard", "stdin_reader", "keyboard_reader"}
      <3>1. n \in 0 .. 8 => \/ n = 0 \/ n = 1 \/ n = 2 \/ n = 3 \/ n = 4
                            \/ n = 5 \/ n = 6 \/ n = 7 \/ n = 8
        OBVIOUS
      <3> QED
        BY <1>6, <3>1, ClientOrderIs
    <2> QED
      BY <1>3, <1>6, <2>1
  <1>10. ClientObjects \subseteq Built
    BY <1>6, <1>9, ClientOrderIs, ClientObjectsAre
  <1>11. ClientObjects \subseteq alive
    BY <1>10 DEF ClientHolders, MainHolds, Linked
  <1>12. io \in {"made", "stopped"}
    BY <1>6, <1>7, <1>8, <1>9 DEF ClientControl, Stage
  <1> DEFINE new == Captures[step]
  <1>13. \A e \in new : /\ e = <<e[1], e[2]>>
                        /\ e[1] \in {"client", "stdin_reader", "keyboard_reader"} \cup Handler
                        /\ e[2] \in ClientObjects
                        /\ e[2] = "terminal_guard" => e[1] = "on_signal"
    BY <1>3, ClientObjectsAre DEF Captures, Handler
  <1>14. alive' = alive /\ refs' = refs \cup new /\ late' = late
    BY <1>1 DEF Hold
  <1> HIDE DEF new
  <1>15. Linked'
    BY <1>11, <1>13, <1>14, ClientObjectsAre DEF ClientHolders, Linked, Root
  <1>16. \A o \in ClientObjects : o \in Built' <=> <<"main", o>> \in refs'
    <2>1. \A o : <<"main", o>> \notin new
      BY <1>13 DEF Handler
    <2> QED
      BY <1>4, <1>5, <1>14, <2>1 DEF ClientHolders, MainHolds
  <1>17. HandlersHold' /\ HeldBy("terminal_guard", {"main", "on_signal"})'
    BY <1>2, <1>12, <1>13, <1>14 DEF ClientHolders, HandlersHold, HeldBy
  <1>18. ClientHolders'
    BY <1>14, <1>15, <1>16, <1>17 DEF ClientHolders, MainHolds
  <1>19. ClientTerminal'
    BY <1>2, <1>14, TerminalIsKept
  <1> QED
    BY <1>5, <1>18, <1>19

\* Main leaves: what it made last goes, the io_context after its handlers.
LEMMA ClientUndoes ==
  ASSUME ClientControl, ClientHolders, ClientTerminal, DropHandlers \/ Unbuild, Goes(alive \ alive')
  PROVE  ClientControl' /\ ClientHolders' /\ ClientTerminal' /\ at = "leaving" /\ at' = "leaving"
  <1> DEFINE n == Len(built)
             last == built[n]
  <1>1. at = "leaving" /\ UNCHANGED <<process, at>> /\ built # <<>>
    BY DEF DropHandlers, Unbuild
  <1>2. n \in Nat \ {0} /\ n \in 1 .. Len(ClientOrder) /\ last = ClientOrder[n]
    BY <1>1, LastBuilt, ClientIsOrdered DEF ClientControl
  <1>3. 3 \in 1 .. Len(ClientOrder) /\ ClientOrder[3] = "io_context" /\ Len(ClientOrder) = 14
    BY ClientOrderIs
  <1>4. /\ io \in {"none", "made", "stopped", "dropped", "gone"}
        /\ io \in {"none", "gone"} => n < 3
        /\ io \in {"made", "stopped"} => n >= 3
        /\ io = "dropped" => n = 3
    BY DEF ClientControl, Stage
  <1>5. last = "io_context" <=> n = 3
    <2> HIDE DEF n
    <2> QED BY <1>2, <1>3, ClientIsOrdered DEF Ordered
  <1>6. io = "gone" => last \notin ClientObjects
    <2>1. ClientOrder[1] = "settings" /\ ClientOrder[2] = "logger"
      BY ClientOrderIs
    <2> HIDE DEF n
    <2>2. io = "gone" => n = 1 \/ n = 2
      BY <1>2, <1>4
    <2> QED
      BY <1>2, <2>1, <2>2, ClientObjectsAre
  <1>7. CASE DropHandlers
    <2> DEFINE dropped == {e \in refs : e[1] \in Handler}
    <2>1. /\ last = "io_context" /\ io' = "dropped" /\ Release(dropped) /\ UNCHANGED built
      BY <1>7 DEF DropHandlers
    <2>2. ClientControl'
      BY <1>1, <1>5, <2>1 DEF ClientControl, Begun, Stage
    <2>3. \A o \in ClientObjects : o \in Built' <=> <<"main", o>> \in refs \ dropped
      BY <2>1 DEF ClientHolders, MainHolds, Built, Handler
    <2>4. \A e \in refs \ dropped : e[1] \notin Handler
      OBVIOUS
    <2> HIDE DEF dropped, n
    <2>5. io # "gone"
      <3>1. n = 3
        BY <1>5, <2>1
      <3> QED
        BY <1>4, <3>1
    <2>6. ClientHolders'
      BY <2>1, <2>3, <2>4, <2>5, ClientReleases
    <2>7. ClientTerminal'
      BY <2>1, Released, TerminalIsGuarded DEF ClientHolders
    <2> QED
      BY <1>1, <2>2, <2>6, <2>7
  <1>8. CASE Unbuild
    <2> DEFINE dropped == {<<"main", last>>}
    <2>1. /\ last = "io_context" => io = "dropped"
          /\ io' = IF last = "io_context" THEN "gone" ELSE io
          /\ Release(dropped)
          /\ built' = SubSeq(built, 1, Len(built) - 1)
      BY <1>8 DEF Unbuild
    <2>2. Begun(ClientOrder)' /\ Len(built') = n - 1 /\ Built' = Built \ {last}
      BY <1>1, <2>1, UnbuildEnds, ClientIsOrdered DEF ClientControl
    <2> HIDE DEF n
    <2>3. /\ io' \in {"none", "made", "stopped", "dropped", "gone"}
          /\ io' \in {"none", "gone"} => n - 1 < 3
          /\ io' \in {"made", "stopped"} => n - 1 >= 3
          /\ io' = "dropped" => n - 1 = 3
      BY <1>2, <1>4, <1>5, <2>1
    <2>4. ClientControl'
      BY <1>1, <2>2, <2>3 DEF ClientControl, Stage
    <2>5. \A o \in ClientObjects : o \in Built' <=> <<"main", o>> \in refs \ dropped
      <3> HIDE DEF last
      <3> QED BY <2>2 DEF ClientHolders, MainHolds
    <2>6. (\E e \in refs \ dropped : e[1] \in Handler) => io' \in {"made", "stopped"}
      BY <2>1 DEF ClientHolders, HandlersHold
    <2>7. io = "gone" => dropped \cap refs = {}
      <3>1. <<"main", last>> \in refs => last \in alive
        BY DEF ClientHolders, Linked
      <3> HIDE DEF last
      <3>2. last \in alive => last \in ClientObjects
        BY DEF ClientHolders
      <3> QED
        BY <1>6, <3>1, <3>2
    <2> HIDE DEF dropped, last
    <2>8. ClientHolders'
      BY <2>1, <2>5, <2>6, <2>7, ClientReleases
    <2>9. ClientTerminal'
      BY <2>1, Released, TerminalIsGuarded DEF ClientHolders
    <2> QED
      BY <1>1, <2>4, <2>8, <2>9
  <1> QED
    BY <1>7, <1>8

\* Main moves on without making or undoing anything.
LEMMA ClientMoves ==
  ASSUME ClientControl, ClientHolders, ClientTerminal,
         UNCHANGED <<process, built, refs, alive, io, late, guardVars>>,
         at' \in {"starting", "running", "leaving", "returned", "exited", "terminated"},
         at' = "running" => Len(built) = Len(ClientOrder),
         at' \in {"returned", "exited", "terminated"} => built = <<>>,
         io \in {"dropped", "gone"} => at' \in {"leaving", "returned", "exited", "terminated"}
  PROVE  ClientControl' /\ ClientHolders' /\ ClientTerminal'
  <1>1. ClientControl'
    BY DEF ClientControl, Begun, Stage
  <1>2. ClientHolders' /\ ClientTerminal'
    BY ClientKeeps, TerminalIsKept DEF Built
  <1> QED
    BY <1>1, <1>2

\* What threw is not forgotten.
LEMMA ThrewStays ==
  ASSUME \/ LoadClientSettings \/ InitializeClientLogger \/ MakeClientIo \/ RegisterSignals
         \/ MakeClientObject \/ MakeTerminalGuard \/ Connect \/ ClientThrows \/ Run
         \/ RunReturns \/ ClientLeaves \/ ClientReturns
         \/ SignalComes \/ Interrupt \/ HandlerEnds \/ HandlerThrows
  PROVE  threw => threw'
  BY DEF LoadClientSettings, InitializeClientLogger, MakeClientIo, RegisterSignals,
         MakeClientObject, MakeTerminalGuard, Connect, ClientThrows, Run, RunReturns, ClientLeaves,
         ClientReturns, SignalComes, Interrupt, HandlerEnds, HandlerThrows, Step, Throw, DropHandlers, Unbuild, lifeVars

\* Records may be made until the log is flushed.
LEMMA ClientLogs ==
  ASSUME ClientLogKept, threw => threw', at' \in {"starting", "running", "leaving"},
         at \in {"starting", "running", "leaving"},
         (\E severities : ClientLog(severities)) \/ UNCHANGED loggerVars
  PROVE  ClientLogKept'
  BY LoggedIsKept, UntouchedLogIsKept DEF ClientLogKept, ClientLog

\* While the client runs, main has made everything, and a handler that ends
\* gives up only what it holds: the guard stays with main.
LEMMA ClientHandlerReleases ==
  ASSUME ClientControl, ClientHolders, Running, NEW some \in SUBSET Handler,
         Release({e \in refs : e[1] \in some}),
         UNCHANGED <<process, built>>, at' \in {"running", "leaving"}, io' \in {"made", "stopped"}
  PROVE  /\ ClientControl' /\ ClientHolders' /\ alive' \subseteq alive
         /\ "terminal_guard" \in alive => "terminal_guard" \in alive'
  <1> DEFINE dropped == {e \in refs : e[1] \in some}
  <1>1. io = "made" /\ at = "running"
    BY DEF Running
  <1>2. ClientControl'
    BY <1>1 DEF ClientControl, Begun, Stage
  <1>3. \A o : <<"main", o>> \notin dropped
    BY DEF Handler
  <1>4. \A o \in ClientObjects : o \in Built' <=> <<"main", o>> \in refs \ dropped
    <2>1. Built' = Built
      BY DEF Built
    <2> HIDE DEF dropped
    <2> QED
      BY <1>3, <2>1 DEF ClientHolders, MainHolds
  <1>5. Release(dropped)
    OBVIOUS
  <1> HIDE DEF dropped
  <1>6. ClientHolders'
    BY <1>1, <1>4, <1>5, ClientReleases
  <1>7. "terminal_guard" \in Built
    <2> DEFINE n == Len(built)
    <2>1. n = 14
      BY <1>1, ClientOrderIs DEF ClientControl
    <2>2. \A k \in 1 .. 14 : ClientOrder[k] \in Built <=> k <= n
      BY ClientMade DEF ClientControl
    <2> HIDE DEF n
    <2> QED
      BY <2>1, <2>2, ClientOrderIs
  <1>8. <<"main", "terminal_guard">> \in refs \ dropped
    BY <1>3, <1>7, ClientObjectsAre DEF ClientHolders, MainHolds
  <1>9. <<"main", "terminal_guard">> \in refs'
    BY <1>5, <1>8, Released DEF ClientHolders, Root
  <1>10. "terminal_guard" \in alive' /\ alive' \subseteq alive
    BY <1>5, <1>9, Released DEF ClientHolders, Linked
  <1> QED
    BY <1>2, <1>6, <1>10

LEMMA MainOfClientKeeps ==
  ASSUME ClientInvariant,
         \/ LoadClientSettings \/ InitializeClientLogger \/ MakeClientIo \/ RegisterSignals
         \/ MakeClientObject \/ MakeTerminalGuard \/ Connect \/ ClientThrows \/ Run
         \/ RunReturns \/ ClientLeaves \/ ClientReturns
  PROVE  ClientInvariant'
  <1> USE DEF ClientInvariant
  <1>0. threw => threw'
    BY ThrewStays
  <1>1. CASE LoadClientSettings
    <2>1. ClientControl' /\ ClientHolders' /\ ClientTerminal' /\ at = "starting" /\ at' = "starting"
      BY <1>1, ClientTakesSmallStep, ClientObjectsAre DEF LoadClientSettings
    <2> QED
      BY <1>1, <2>1, <1>0, ClientLogs DEF LoadClientSettings
  <1>2. CASE InitializeClientLogger
    <2>1. ClientControl' /\ ClientHolders' /\ ClientTerminal' /\ at = "starting" /\ at' = "starting"
      BY <1>2, ClientTakesSmallStep, ClientObjectsAre DEF InitializeClientLogger
    <2>2. ClientLogKept'
      BY <1>2, <1>0, <2>1, InitializedIsKept DEF InitializeClientLogger, ClientLogKept
    <2> QED
      BY <2>1, <2>2
  <1>3. CASE MakeClientIo
    <2>1. ClientControl' /\ ClientHolders' /\ ClientTerminal' /\ at = "starting" /\ at' = "starting"
      BY <1>3, ClientMakesIo
    <2> QED
      BY <1>3, <2>1, <1>0, ClientLogs DEF MakeClientIo
  <1>4. CASE RegisterSignals
    <2>1. ClientControl' /\ ClientHolders' /\ ClientTerminal' /\ at = "starting" /\ at' = "starting"
      BY <1>4, ClientTakesSmallStep, ClientObjectsAre DEF RegisterSignals
    <2> QED
      BY <1>4, <2>1, <1>0, ClientLogs DEF RegisterSignals
  <1>5. CASE MakeClientObject
    <2>1. ClientControl' /\ ClientHolders' /\ ClientTerminal' /\ at = "starting" /\ at' = "starting"
      BY <1>5, ClientMakesObject
    <2> QED
      BY <1>5, <2>1, <1>0, ClientLogs DEF MakeClientObject
  <1>6. CASE MakeTerminalGuard
    <2>1. ClientControl' /\ ClientHolders' /\ ClientTerminal' /\ at = "starting" /\ at' = "starting"
      BY <1>6, GuardIsMade
    <2> QED
      BY <1>6, <2>1, <1>0, ClientLogs DEF MakeTerminalGuard
  <1>7. CASE Connect
    <2>1. ClientControl' /\ ClientHolders' /\ ClientTerminal' /\ at = "starting" /\ at' = "starting"
      BY <1>7, ClientConnects
    <2>2. \E severities : ClientLog(severities)
      BY <1>7 DEF Connect
    <2> QED
      BY <2>1, <2>2, <1>0, ClientLogs
  <1>8. CASE ClientThrows
    <2>1. /\ at = "starting" /\ at' = "leaving"
          /\ UNCHANGED <<process, built, refs, alive, io, late, guardVars>> /\ UNCHANGED loggerVars
      BY <1>8 DEF ClientThrows, Throw
    <2> QED
      BY <2>1, ClientMoves, <1>0, ClientLogs
  <1>9. CASE Run
    <2>1. /\ at = "starting" /\ at' = "running" /\ built = ClientOrder
          /\ UNCHANGED <<process, built, refs, alive, io, late, guardVars>> /\ UNCHANGED loggerVars
      BY <1>9 DEF Run
    <2>2. io \notin {"dropped", "gone"}
      BY <2>1 DEF ClientControl, Stage
    <2> QED
      BY <2>1, <2>2, ClientMoves, <1>0, ClientLogs
  <1>10. CASE RunReturns
    <2>1. /\ at = "running" /\ at' = "leaving"
          /\ UNCHANGED <<process, built, refs, alive, io, late, guardVars>> /\ UNCHANGED loggerVars
      BY <1>10 DEF RunReturns
    <2> QED
      BY <2>1, ClientMoves, <1>0, ClientLogs
  <1>11. CASE ClientLeaves
    <2>1. ClientControl' /\ ClientHolders' /\ ClientTerminal' /\ at = "leaving" /\ at' = "leaving"
      BY <1>11, ClientUndoes DEF ClientLeaves
    <2> QED
      BY <1>11, <2>1, <1>0, ClientLogs DEF ClientLeaves
  <1>12. CASE ClientReturns
    <2>1. /\ at = "leaving" /\ at' = "returned" /\ built = <<>>
          /\ UNCHANGED <<process, built, refs, alive, io, late, guardVars>>
          /\ LoggerBecomes(LastWords(LoggerNow))
      BY <1>12 DEF ClientReturns
    <2>2. ClientControl' /\ ClientHolders' /\ ClientTerminal'
      BY <2>1, ClientMoves
    <2>3. UNCHANGED threw
      BY <1>12 DEF ClientReturns
    <2>4. CASE threw
      BY <2>2, <2>3, <2>4 DEF ClientLogKept
    <2>5. CASE ~threw
      <3>1. LogIsKept /\ ~already_shutdown
        BY <2>1, <2>5 DEF ClientLogKept
      <3>2. LoggerBecomes(ResetLogger(Logged(LoggerNow, {"info"})))
        BY <2>1, <2>5 DEF LastWords
      <3>3. LogIsKept' /\ ~instance'
        BY <3>1, <3>2, ResetIsKept
      <3> QED
        BY <2>1, <2>2, <3>3 DEF ClientLogKept
    <2> QED
      BY <2>4, <2>5
  <1> QED
    BY <1>1, <1>2, <1>3, <1>4, <1>5, <1>6, <1>7, <1>8, <1>9, <1>10, <1>11, <1>12

LEMMA HandlersOfClientKeep ==
  ASSUME ClientInvariant, SignalComes \/ Interrupt \/ HandlerEnds \/ HandlerThrows
  PROVE  ClientInvariant'
  <1> USE DEF ClientInvariant
  <1>0. threw => threw'
    BY ThrewStays
  <1>1. CASE SignalComes
    <2>1. UNCHANGED lifeVars /\ UNCHANGED loggerVars /\ UNCHANGED guardVars
      BY <1>1 DEF SignalComes
    <2>2. ClientControl' /\ ClientHolders' /\ ClientTerminal'
      BY <2>1, ClientMoves DEF lifeVars, ClientControl, Stage
    <2>3. ClientLogKept'
      BY <1>0, <2>1, UntouchedLogIsKept DEF ClientLogKept, lifeVars, loggerVars
    <2> QED
      BY <2>2, <2>3
  <1>2. CASE Interrupt
    <2> DEFINE some == {"on_signal"}
    <2>1. /\ Running /\ Release({e \in refs : e[1] \in some}) /\ some \in SUBSET Handler
          /\ Restore /\ io' = "stopped" /\ UNCHANGED <<process, at, built>> /\ ClientLog({"info"})
      <3>1. {e \in refs : e[1] \in some} = {e \in refs : e[1] = "on_signal"}
        OBVIOUS
      <3> QED
        BY <1>2, <3>1 DEF Interrupt, Handler
    <2> HIDE DEF some
    <2>2. at = "running" /\ at' = "running"
      BY <2>1 DEF Running
    <2>3. ClientControl' /\ ClientHolders'
      BY <2>1, <2>2, ClientHandlerReleases
    <2> QED
      BY <2>1, <2>2, <2>3, TerminalIsRestored, <1>0, ClientLogs
  <1>3. CASE HandlerEnds
    <2>1. PICK handler \in {"on_line", "on_network"} :
            /\ Release({e \in refs : e[1] = handler})
            /\ ClientLog(IF handler = "on_network" THEN {"error"} ELSE {})
      BY <1>3 DEF HandlerEnds
    <2>2. /\ Running /\ UNCHANGED <<process, built>> /\ UNCHANGED io /\ UNCHANGED guardVars
          /\ at = "running" /\ at' = "running" /\ io = "made"
      BY <1>3 DEF HandlerEnds, Running
    <2> DEFINE some == {handler}
    <2>3. some \in SUBSET Handler /\ Release({e \in refs : e[1] \in some})
      <3>1. {e \in refs : e[1] \in some} = {e \in refs : e[1] = handler}
        OBVIOUS
      <3> QED
        BY <2>1, <3>1 DEF Handler
    <2> HIDE DEF some
    <2>4. /\ ClientControl' /\ ClientHolders'
          /\ "terminal_guard" \in alive => "terminal_guard" \in alive'
      BY <2>2, <2>3, ClientHandlerReleases
    <2>5. ClientTerminal'
      BY <2>2, <2>4, TerminalIsKept
    <2>6. \E severities : ClientLog(severities)
      BY <2>1
    <2> QED
      BY <2>2, <2>4, <2>5, <2>6, <1>0, ClientLogs
  <1>4. CASE HandlerThrows
    <2>1. PICK handler \in {"on_line", "on_poll", "on_network"} : Release({e \in refs : e[1] = handler})
      BY <1>4 DEF HandlerThrows
    <2>2. /\ Running /\ UNCHANGED <<process, built>> /\ UNCHANGED io /\ UNCHANGED guardVars
          /\ at = "running" /\ at' = "leaving" /\ io = "made" /\ UNCHANGED loggerVars
      BY <1>4 DEF HandlerThrows, Running
    <2> DEFINE some == {handler}
    <2>3. some \in SUBSET Handler /\ Release({e \in refs : e[1] \in some})
      <3>1. {e \in refs : e[1] \in some} = {e \in refs : e[1] = handler}
        OBVIOUS
      <3> QED
        BY <2>1, <3>1 DEF Handler
    <2> HIDE DEF some
    <2>4. /\ ClientControl' /\ ClientHolders'
          /\ "terminal_guard" \in alive => "terminal_guard" \in alive'
      BY <2>2, <2>3, ClientHandlerReleases
    <2>5. ClientTerminal'
      BY <2>2, <2>4, TerminalIsKept
    <2> QED
      BY <2>2, <2>4, <2>5, <1>0, ClientLogs
  <1> QED
    BY <1>1, <1>2, <1>3, <1>4

LEMMA ClientBeneathKeeps ==
  ASSUME ClientInvariant, UNCHANGED guardVars, Beneath \/ UNCHANGED <<lifeVars, loggerVars>>
  PROVE  ClientInvariant'
  <1> USE DEF ClientInvariant
  <1>1. CASE Exit
    <2>1. /\ at = "returned" /\ at' \in {"exited"} \cup (IF instance THEN {"terminated"} ELSE {})
          /\ UNCHANGED <<process, built, threw, refs, alive, io, late>>
      BY <1>1 DEF Exit
    <2>2. ClientControl' /\ ClientHolders' /\ ClientTerminal'
      BY <2>1, ClientMoves DEF ClientControl
    <2>3. CASE threw
      BY <2>1, <2>2, <2>3 DEF ClientLogKept
    <2>4. CASE ~threw
      <3>1. LogIsKept /\ ~instance
        BY <2>1, <2>4 DEF ClientLogKept
      <3>2. at' = "exited"
        BY <2>1, <3>1
      <3>3. LogIsKept' /\ ~instance'
        BY <1>1, <3>1, DestroyedIsKept DEF Exit
      <3> QED
        BY <2>2, <3>2, <3>3 DEF ClientLogKept
    <2> QED
      BY <2>3, <2>4
  <1>2. ASSUME NEW sink, SinkWrites(sink), UNCHANGED lifeVars
        PROVE  ClientInvariant'
    <2>1. ClientControl' /\ ClientHolders' /\ ClientTerminal'
      BY <1>2, ClientMoves DEF lifeVars, ClientControl, Stage
    <2>2. ClientLogKept'
      BY <1>2, SinksCatchUp DEF ClientLogKept, lifeVars
    <2> QED
      BY <2>1, <2>2
  <1>3. CASE UNCHANGED <<lifeVars, loggerVars>>
    <2>1. ClientControl' /\ ClientHolders' /\ ClientTerminal'
      BY <1>3, ClientMoves DEF lifeVars, ClientControl, Stage
    <2>2. ClientLogKept'
      BY <1>3, UntouchedLogIsKept DEF ClientLogKept, lifeVars, loggerVars
    <2> QED
      BY <2>1, <2>2
  <1> QED
    BY <1>1, <1>2, <1>3 DEF Beneath

LEMMA ClientStarts == ClientInit /\ LoggerInit => ClientInvariant
  <1> SUFFICES ASSUME ClientInit, LoggerInit PROVE ClientInvariant
    OBVIOUS
  <1>1. /\ process = "client" /\ at = "starting" /\ built = <<>> /\ refs = {} /\ alive = {}
        /\ io = "none" /\ late = {}
    BY DEF ClientInit, LifetimesInit
  <1>2. Begun(ClientOrder)
    BY <1>1, ClientOrderIs DEF Begun
  <1>3. Built = {}
    BY <1>1 DEF Built
  <1>4. ClientControl
    BY <1>1, <1>2 DEF ClientControl, Stage
  <1>5. ClientHolders
    BY <1>1, <1>3 DEF ClientHolders, Linked, MainHolds, HandlersHold, HeldBy
  <1>6. ClientTerminal
    BY DEF ClientInit, ClientTerminal
  <1>7. ClientLogKept
    BY <1>1 DEF LoggerInit, ClientLogKept, LogIsKept
  <1> QED
    BY <1>4, <1>5, <1>6, <1>7 DEF ClientInvariant

LEMMA ClientStays == ClientInvariant /\ [ClientStep]_clientVars => ClientInvariant'
  BY MainOfClientKeeps, HandlersOfClientKeep, ClientBeneathKeeps DEF ClientStep, ClientNext, clientVars

\* Wherever the client's main throws or is interrupted, who holds whom is as
\* ClientHolders says and a raw terminal has its guard; no record is lost unless
\* something threw.
THEOREM ClientHoldsTogether == ClientSpec => []ClientInvariant
  <1> QED
    BY ClientStays, ClientStarts, PTL DEF ClientSpec

\* Nothing that uses the services of the client's io_context is destroyed after
\* it (client/main.cpp:16-88).
THEOREM ClientIoOutlivesItsUsers == ClientSpec => []IoOutlivesItsUsers
  <1>1. ClientInvariant => IoOutlivesItsUsers
    BY DEF ClientInvariant, ClientHolders, IoOutlivesItsUsers
  <1> QED
    BY <1>1, ClientHoldsTogether, PTL

LEMMA ClientHasLeft ==
  ASSUME ClientInvariant, at \in {"exited", "terminated"}
  PROVE  ~terminal.raw /\ (~threw => at = "exited" /\ ~lost)
  <1>1. built = <<>> /\ Len(built) < 3
    BY DEF ClientInvariant, ClientControl
  <1>2. io \notin {"made", "stopped"}
    BY <1>1 DEF ClientInvariant, ClientControl, Stage
  <1>3. Built = {}
    BY <1>1 DEF Built
  <1>4. <<"main", "terminal_guard">> \notin refs
    BY <1>3, ClientObjectsAre DEF ClientInvariant, ClientHolders, MainHolds
  <1>5. ASSUME NEW e \in refs
        PROVE  e[2] # "terminal_guard"
    <2>1. e = <<e[1], e[2]>> /\ e[1] \notin Handler
      BY <1>2 DEF ClientInvariant, ClientHolders, Linked, HandlersHold
    <2> QED
      BY <1>4, <2>1 DEF ClientInvariant, ClientHolders, HeldBy, Handler
  <1>6. "terminal_guard" \notin alive
    BY <1>5, UnheldIsGone DEF ClientInvariant, ClientHolders
  <1> QED
    BY <1>6 DEF ClientInvariant, ClientTerminal, ClientLogKept, LogIsKept

\* However the client is left, the terminal echoes again; and when nothing threw,
\* main has reset the logger and no record is lost (client/main.cpp:16-88,
\* terminal_guard.h:34-55, logger.cpp:149-180).
THEOREM ClientLeavesInOrder == ClientSpec => []LeavesInOrder
  <1>1. ClientInvariant => LeavesInOrder
    BY ClientHasLeft DEF LeavesInOrder
  <1> QED
    BY <1>1, ClientHoldsTogether, PTL

-----------------------------------------------------------------------------
(***************************************************************************)
(* What the terminal reads.  What was received is what was handed over,    *)
(* line by line, and what waits in the buffer behind it; the lines are     *)
(* counted by their ends.                                                  *)
(***************************************************************************)

\* How much of what was received has been handed over.
Handed == Len(received) - Len(buffer)

\* The buffer is the rest of it, behind the end of a line, and the lines are
\* those that end before.
LinesAreHanded ==
  /\ typed \in Seq(STRING) /\ buffer \in Seq(STRING) /\ received \in Seq(STRING)
  /\ lines \in Seq(Seq(STRING))
  /\ Len(buffer) <= Len(received)
  /\ \A i \in 1 .. Len(buffer) : buffer[i] = received[Handed + i]
  /\ Handed > 0 => received[Handed] = NewLine
  /\ Len(lines) = Cardinality(EndsUpTo(received, Handed))
  /\ \A e \in EndsUpTo(received, Handed) :
       lines[Cardinality(EndsUpTo(received, e))] = LineOf(received, e)

\* Of the keys, what was down a poll ago is what is remembered.
KeysAreHanded ==
  /\ key_code_map \subseteq Range(kKeys) /\ down \subseteq Range(kKeys)
  /\ polls \in Seq(SUBSET Range(kKeys))
  /\ edge_triggered => prev_state = IF polls = <<>> THEN {} ELSE polls[Len(polls)] \cap key_code_map
  /\ presses = [i \in DOMAIN polls |->
       InOrder({k \in polls[i] \cap key_code_map : edge_triggered /\ i > 1 => k \notin polls[i - 1]})]

\* The numbers go up from a least one.
LEMMA LessIsWellFounded == IsWellFoundedOn({p \in Nat \X Nat : p[1] < p[2]}, Nat)
  BY NatLessThanWellFounded DEF OpToRel

\* A set of numbers has a least one.
LEMMA LeastIsThere ==
  ASSUME NEW S, S \subseteq Nat, S # {}
  PROVE  Min(S) \in S /\ \A n \in S : Min(S) <= n
  <1> DEFINE Less == {p \in Nat \X Nat : p[1] < p[2]}
  <1>1. IsWellFoundedOn(Less, Nat)
    BY LessIsWellFounded
  <1> HIDE DEF Less
  <1>2. PICK m \in S : \A n \in S : <<n, m>> \notin Less
    BY <1>1, WFMin
  <1>3. ASSUME NEW n \in S
        PROVE  m <= n
    <2>1. <<n, m>> \in Nat \X Nat /\ <<n, m>>[1] = n /\ <<n, m>>[2] = m
      OBVIOUS
    <2>2. ~ (n < m)
      BY <1>2, <2>1 DEF Less
    <2> QED
      BY <2>2
  <1> QED
    BY <1>3 DEF Min

\* And one with a bound has a greatest.
LEMMA GreatestIsThere ==
  ASSUME NEW S, S \subseteq Nat, S # {}, NEW bound \in Nat, \A n \in S : n <= bound
  PROVE  Max(S) \in S /\ \A n \in S : n <= Max(S)
  <1> DEFINE above == {b \in Nat : \A n \in S : n <= b}
             m == Min(above)
  <1>1. above \subseteq Nat /\ above # {}
    OBVIOUS
  <1> HIDE DEF above
  <1>2. m \in above /\ \A b \in above : m <= b
    BY <1>1, LeastIsThere
  <1> HIDE DEF m
  <1>3. m \in Nat /\ \A n \in S : n <= m
    BY <1>2 DEF above
  <1>4. m \in S
    <2> SUFFICES ASSUME m \notin S PROVE FALSE
      OBVIOUS
    <2>1. \A n \in S : n <= m - 1
      BY <1>3
    <2>2. m - 1 \in Nat
      <3>1. PICK n \in S : n <= m - 1
        BY <2>1
      <3> QED
        BY <1>3, <3>1
    <2>3. m - 1 \in above
      BY <2>1, <2>2 DEF above
    <2> QED
      BY <1>2, <1>3, <2>3
  <1> QED
    BY <1>3, <1>4 DEF Max

LEMMA EndsAreFinite ==
  ASSUME NEW text \in Seq(STRING), NEW place \in Int
  PROVE  /\ EndsUpTo(text, place) \subseteq 1 .. Len(text)
         /\ IsFiniteSet(EndsUpTo(text, place)) /\ Cardinality(EndsUpTo(text, place)) \in Nat
         /\ IsFiniteSet(Ends(text)) /\ Cardinality(Ends(text)) \in Nat
         /\ Cardinality(EndsUpTo(text, place)) <= Cardinality(Ends(text))
  <1>1. Ends(text) \subseteq 1 .. Len(text) /\ Len(text) \in Int
    BY DEF Ends
  <1>2. IsFiniteSet(1 .. Len(text))
    BY <1>1, FS_Interval
  <1>3. IsFiniteSet(Ends(text))
    BY <1>1, <1>2, FS_Subset
  <1>4. EndsUpTo(text, place) \subseteq Ends(text)
    BY DEF EndsUpTo
  <1> QED
    BY <1>1, <1>3, <1>4, FS_Subset, FS_CardinalityType

\* The end of the line before.
LEMMA LineBegins ==
  ASSUME NEW text \in Seq(STRING), NEW place \in Int
  PROVE  LET before == Max({0} \cup EndsUpTo(text, place)) IN
         /\ before \in {0} \cup EndsUpTo(text, place)
         /\ before \in Nat /\ \A e \in EndsUpTo(text, place) : e <= before
  <1> DEFINE S == {0} \cup EndsUpTo(text, place)
             n == Len(text)
  <1>1. n \in Nat /\ EndsUpTo(text, place) \subseteq 1 .. n
    BY EndsAreFinite
  <1>2. S \subseteq Nat /\ S # {} /\ \A e \in S : e <= n
    <2> HIDE DEF n
    <2> QED BY <1>1
  <1> HIDE DEF S, n
  <1>3. Max(S) \in S /\ \A e \in S : e <= Max(S)
    BY <1>1, <1>2, GreatestIsThere
  <1> QED
    BY <1>2, <1>3 DEF S

LEMMA PieceIsSeq ==
  ASSUME NEW S, NEW s \in Seq(S), NEW n \in 1 .. Len(s)
  PROVE  SubSeq(s, 1, n) \in Seq(S) /\ SubSeq(s, n + 1, Len(s)) \in Seq(S)
  <1>1. Len(s) \in Nat /\ \A i \in 1 .. Len(s) : s[i] \in S
    OBVIOUS
  <1> DEFINE k == Len(s)
             m == n + 1
  <1>2. /\ n \in Int /\ m \in Int /\ k \in Int /\ \A i \in 1 .. n : s[i] \in S
        /\ \A i \in m .. k : s[i] \in S
    BY <1>1
  <1> HIDE DEF k, m
  <1>3. SubSeq(s, 1, n) \in Seq(S) /\ SubSeq(s, m, k) \in Seq(S)
    BY <1>2, SubSeqProperties
  <1> QED
    BY <1>3 DEF k, m

\* Pieces that agree place by place are the same.
LEMMA SamePiece ==
  ASSUME NEW S, NEW s, NEW t, NEW m \in Int, NEW n \in Int, NEW d \in Int,
         \A i \in m .. n : s[i] \in S /\ t[i + d] = s[i]
  PROVE  SubSeq(s, m, n) = SubSeq(t, m + d, n + d)
  <1> DEFINE p == m + d
             q == n + d
             a == SubSeq(s, m, n)
             b == SubSeq(t, p, q)
  <1>1. p \in Int /\ q \in Int /\ q - p = n - m /\ (p <= q <=> m <= n)
    OBVIOUS
  <1>2. \A i \in p .. q : t[i] \in S
    <2>1. ASSUME NEW i \in p .. q
          PROVE  i - d \in m .. n /\ (i - d) + d = i
      OBVIOUS
    <2> HIDE DEF p, q
    <2> QED
      BY <2>1
  <1>3. \A i \in 1 .. n - m + 1 : m + i - 1 \in m .. n /\ p + i - 1 = (m + i - 1) + d
    OBVIOUS
  <1> HIDE DEF p, q
  <1>4. /\ a \in Seq(S) /\ Len(a) = IF m <= n THEN n - m + 1 ELSE 0
        /\ \A i \in 1 .. n - m + 1 : a[i] = s[m + i - 1]
    BY SubSeqProperties
  <1>5. /\ b \in Seq(S) /\ Len(b) = IF p <= q THEN q - p + 1 ELSE 0
        /\ \A i \in 1 .. q - p + 1 : b[i] = t[p + i - 1]
    BY <1>1, <1>2, SubSeqProperties
  <1> HIDE DEF a, b
  <1>6. Len(a) = Len(b) /\ \A i \in 1 .. Len(a) : i \in 1 .. n - m + 1 /\ i \in 1 .. q - p + 1
    BY <1>1, <1>4, <1>5
  <1>7. \A i \in 1 .. Len(a) : a[i] = b[i]
    BY <1>3, <1>4, <1>5, <1>6
  <1>8. a = b
    BY <1>4, <1>5, <1>6, <1>7, SeqEqual
  <1> QED
    BY <1>8 DEF a, b, p, q

\* What follows does not move the lines before it.
LEMMA LinesStand ==
  ASSUME NEW text \in Seq(STRING), NEW more \in Seq(STRING), NEW place \in Int, place <= Len(text)
  PROVE  /\ EndsUpTo(text \o more, place) = EndsUpTo(text, place)
         /\ LineOf(text \o more, place) = LineOf(text, place)
  <1> DEFINE whole == text \o more
             n == Len(text)
  <1>1. /\ n \in Nat /\ Len(more) \in Nat /\ whole \in Seq(STRING) /\ Len(whole) = n + Len(more)
        /\ \A i \in 1 .. n : whole[i] = text[i] /\ text[i] \in STRING
        /\ DOMAIN whole = 1 .. Len(whole) /\ DOMAIN text = 1 .. n
    BY ConcatProperties, LenProperties
  <1>0. place <= n
    OBVIOUS
  <1> HIDE DEF whole
  <1>2. ASSUME NEW p \in Int, p <= n
        PROVE  EndsUpTo(whole, p) = EndsUpTo(text, p)
    <2>1. \A e : e \in 1 .. n /\ e <= p <=> e \in 1 .. Len(whole) /\ e <= p
      BY <1>1, <1>2
    <2> HIDE DEF n
    <2> QED
      BY <1>1, <2>1 DEF EndsUpTo, Ends
  <1> DEFINE before == Max({0} \cup EndsUpTo(text, place - 1))
             last(t) == IF place > before + 1 /\ t[place - 1] = Return THEN place - 2 ELSE place - 1
  <1>3. Max({0} \cup EndsUpTo(whole, place - 1)) = before
    <2>1. EndsUpTo(whole, place - 1) = EndsUpTo(text, place - 1)
      <3> HIDE DEF n
      <3> QED BY <1>0, <1>1, <1>2
    <2> QED
      BY <2>1
  <1>4. before \in Nat
    <2> DEFINE p == place - 1
    <2>1. p \in Int
      OBVIOUS
    <2> HIDE DEF p
    <2>2. Max({0} \cup EndsUpTo(text, p)) \in Nat
      BY <2>1, LineBegins
    <2> QED
      BY <2>2 DEF p
  <1>5. /\ LineOf(text, place) = SubSeq(text, before + 1, last(text))
        /\ LineOf(whole, place) = SubSeq(whole, before + 1, last(whole))
    BY <1>3 DEF LineOf
  <1> HIDE DEF before, n
  <1>6. last(whole) = last(text) /\ last(text) \in Int /\ last(text) <= n
    BY <1>0, <1>1, <1>4
  <1> DEFINE end == last(text)
             first == before + 1
  <1>7. /\ end \in Int /\ first \in Int
        /\ \A i \in first .. end : text[i] \in STRING /\ whole[i + 0] = text[i]
    BY <1>1, <1>4, <1>6
  <1> HIDE DEF last, end, first
  <1>8. SubSeq(text, first, end) = SubSeq(whole, first, end)
    <2>1. SubSeq(text, first, end) = SubSeq(whole, first + 0, end + 0)
      BY <1>7, SamePiece
    <2>2. first + 0 = first /\ end + 0 = end
      BY <1>7
    <2> QED
      BY <2>1, <2>2
  <1>9. EndsUpTo(whole, place) = EndsUpTo(text, place)
    BY <1>0, <1>2
  <1> QED
    BY <1>5, <1>6, <1>8, <1>9 DEF whole, end, first

\* Where the first line of a buffer ends.
LEMMA FirstLineEnds ==
  ASSUME NEW text \in Seq(STRING), Contains(text, NewLine)
  PROVE  LET length == SelectInSeq(text, LAMBDA c : c = NewLine) IN
         /\ length \in 1 .. Len(text) /\ text[length] = NewLine
         /\ \A i \in 1 .. length - 1 : text[i] # NewLine
  <1> DEFINE I == {i \in 1 .. Len(text) : text[i] = NewLine}
             length == SelectInSeq(text, LAMBDA c : c = NewLine)
  <1>1. I # {} /\ I \subseteq Nat /\ Len(text) \in Nat
    BY DEF Contains
  <1>2. length = Min(I)
    BY <1>1 DEF SelectInSeq
  <1>3. Min(I) \in I /\ \A i \in I : Min(I) <= i
    <2> HIDE DEF I
    <2> QED BY <1>1, LeastIsThere
  <1> HIDE DEF length
  <1>4. \A i \in 1 .. length - 1 : i \in 1 .. Len(text) /\ i < length
    BY <1>1, <1>2, <1>3
  <1>5. \A i \in 1 .. length - 1 : text[i] # NewLine
    BY <1>2, <1>3, <1>4
  <1> QED
    BY <1>2, <1>3, <1>5 DEF length

\* The beginning of a beginning.
LEMMA PieceOfPiece ==
  ASSUME NEW S, NEW s \in Seq(S), NEW n \in 0 .. Len(s), NEW m \in Int, m <= n
  PROVE  /\ SubSeq(SubSeq(s, 1, n), 1, m) = SubSeq(s, 1, m)
         /\ SubSeq(s, 1, m) \in Seq(S) /\ Len(SubSeq(s, 1, m)) = IF 1 <= m THEN m ELSE 0
         /\ \A i \in 1 .. m : SubSeq(s, 1, m)[i] = s[i]
  <1> DEFINE part(k) == SubSeq(s, 1, k)
             size == Len(s)
  <1>1. size \in Nat /\ n \in Int /\ n <= size /\ \A i \in 1 .. size : s[i] \in S
    OBVIOUS
  <1> HIDE DEF size
  <1>2. ASSUME NEW k \in Int, k <= n
        PROVE  part(k) \in Seq(S) /\ Len(part(k)) = (IF 1 <= k THEN k ELSE 0) /\ \A i \in 1 .. k : part(k)[i] = s[i]
    <2>1. \A i \in 1 .. k : s[i] \in S
      BY <1>1, <1>2
    <2>2. /\ part(k) \in Seq(S) /\ Len(part(k)) = IF 1 <= k THEN k - 1 + 1 ELSE 0
          /\ \A i \in 1 .. k - 1 + 1 : part(k)[i] = s[1 + i - 1]
      BY <2>1, SubSeqProperties
    <2> HIDE DEF part
    <2>3. ASSUME NEW i \in 1 .. k
          PROVE  part(k)[i] = s[i]
      <3>1. i \in 1 .. k - 1 + 1 /\ 1 + i - 1 = i
        OBVIOUS
      <3> QED
        BY <2>2, <3>1
    <2> QED
      BY <2>2, <2>3
  <1> DEFINE whole == part(n)
  <1>3. \A i \in 1 .. m : s[i] \in S /\ i \in 1 .. n
    BY <1>1
  <1>4. \A i \in 1 .. n : whole[i] = s[i]
    BY <1>1, <1>2
  <1> HIDE DEF whole
  <1>5. \A i \in 1 .. m : s[i] \in S /\ whole[i + 0] = s[i]
    BY <1>3, <1>4
  <1>6. SubSeq(s, 1, m) = SubSeq(whole, 1 + 0, m + 0)
    BY <1>5, SamePiece
  <1>7. SubSeq(s, 1, m) = SubSeq(whole, 1, m)
    BY <1>6
  <1> QED
    BY <1>2, <1>7 DEF whole

\* A line as it is handed over.
LEMMA TrimmedLine ==
  ASSUME NEW text \in Seq(STRING), NEW n \in 1 .. Len(text)
  PROVE  /\ Trimmed(SubSeq(text, 1, n))
               = SubSeq(text, 1, IF n > 1 /\ text[n - 1] = Return THEN n - 2 ELSE n - 1)
         /\ Trimmed(SubSeq(text, 1, n)) \in Seq(STRING)
  <1> DEFINE part(k) == SubSeq(text, 1, k)
             line == part(n)
             body == part(n - 1)
  <1>1. /\ n \in 0 .. Len(text) /\ n - 1 \in 0 .. Len(text) /\ n \in Int /\ n - 1 \in Int /\ n - 2 \in Int
        /\ n <= n /\ n - 1 <= n /\ n - 1 <= n - 1 /\ n - 2 <= n - 1 /\ n >= 1
    OBVIOUS
  <1>2. Len(line) = n /\ SubSeq(line, 1, n - 1) = body
    BY <1>1, PieceOfPiece
  <1>3. /\ body \in Seq(STRING) /\ Len(body) = IF 1 <= n - 1 THEN n - 1 ELSE 0
        /\ \A i \in 1 .. n - 1 : body[i] = text[i]
    BY <1>1, PieceOfPiece
  <1>4. SubSeq(body, 1, n - 2) = part(n - 2) /\ part(n - 2) \in Seq(STRING)
    BY <1>1, PieceOfPiece
  <1> HIDE DEF line, body, part
  <1>5. Front(line) = body
    BY <1>2 DEF Front
  <1>6. Len(body) = n - 1 /\ (body # <<>> <=> n > 1)
    BY <1>1, <1>3
  <1>7. n > 1 => Last(body) = text[n - 1]
    BY <1>1, <1>3, <1>6 DEF Last
  <1>8. Front(body) = part(n - 2)
    <2>1. Len(body) - 1 = n - 2
      BY <1>1, <1>6
    <2> QED
      BY <1>4, <2>1 DEF Front
  <1>9. Trimmed(line) = IF n > 1 /\ text[n - 1] = Return THEN part(n - 2) ELSE body
    BY <1>5, <1>6, <1>7, <1>8 DEF Trimmed
  <1> QED
    BY <1>3, <1>4, <1>9 DEF line, body, part

LEMMA ReceiveKeeps ==
  ASSUME LinesAreHanded, Receive
  PROVE  LinesAreHanded'
  <1>1. PICK n \in 1 .. Len(typed) :
          /\ typed' = SubSeq(typed, n + 1, Len(typed))
          /\ buffer' = buffer \o SubSeq(typed, 1, n)
          /\ received' = received \o SubSeq(typed, 1, n)
    BY DEF Receive
  <1> DEFINE piece == SubSeq(typed, 1, n)
             h == Handed
             old == Len(received)
             kept == Len(buffer)
  <1>2. piece \in Seq(STRING) /\ typed' \in Seq(STRING) /\ UNCHANGED lines
    <2>1. typed \in Seq(STRING) /\ UNCHANGED lines
      BY DEF LinesAreHanded, Receive
    <2> QED
      BY <1>1, <2>1, PieceIsSeq
  <1>3. buffer' = buffer \o piece /\ received' = received \o piece
    BY <1>1
  <1> HIDE DEF piece
  <1>4. /\ buffer' \in Seq(STRING) /\ Len(buffer') = kept + Len(piece)
        /\ \A i \in 1 .. kept + Len(piece) : buffer'[i] = IF i <= kept THEN buffer[i] ELSE piece[i - kept]
    BY <1>2, <1>3, ConcatProperties DEF LinesAreHanded
  <1>5. /\ received' \in Seq(STRING) /\ Len(received') = old + Len(piece)
        /\ \A i \in 1 .. old + Len(piece) : received'[i] = IF i <= old THEN received[i] ELSE piece[i - old]
    BY <1>2, <1>3, ConcatProperties DEF LinesAreHanded
  <1>6. /\ old \in Nat /\ kept \in Nat /\ Len(piece) \in Nat /\ kept <= old /\ h = old - kept
        /\ \A i \in 1 .. kept : buffer[i] = received[h + i]
        /\ h > 0 => received[h] = NewLine
        /\ received \in Seq(STRING)
    BY <1>2 DEF LinesAreHanded, Handed
  <1>7. Handed' = h
    BY <1>4, <1>5, <1>6 DEF Handed
  <1> HIDE DEF h, old, kept
  <1>8. ASSUME NEW i \in 1 .. kept + Len(piece)
        PROVE  buffer'[i] = received'[h + i]
    <2>1. CASE i <= kept
      <3>1. i \in 1 .. kept /\ h + i <= old /\ h + i \in 1 .. old + Len(piece)
        BY <1>6, <2>1
      <3>2. buffer'[i] = buffer[i] /\ received'[h + i] = received[h + i]
        BY <1>4, <1>5, <2>1, <3>1
      <3> QED
        BY <1>6, <3>1, <3>2
    <2>2. CASE i > kept
      <3> DEFINE j == h + i
      <3>1. ~ (i <= kept) /\ ~ (j <= old) /\ j \in 1 .. old + Len(piece) /\ j - old = i - kept
        BY <1>6, <2>2
      <3>2. buffer'[i] = piece[i - kept]
        BY <1>4, <3>1
      <3> HIDE DEF j
      <3>3. received'[j] = piece[j - old]
        BY <1>5, <3>1
      <3> QED
        BY <3>1, <3>2, <3>3 DEF j
    <2> QED
      BY <1>6, <2>1, <2>2
  <1>9. h > 0 => received'[h] = NewLine
    BY <1>5, <1>6
  <1>10. /\ EndsUpTo(received', h) = EndsUpTo(received, h)
         /\ \A e \in EndsUpTo(received, h) : /\ EndsUpTo(received', e) = EndsUpTo(received, e)
                                             /\ LineOf(received', e) = LineOf(received, e)
    <2>1. h \in Int /\ h <= Len(received)
      BY <1>6 DEF old
    <2>2. \A e \in EndsUpTo(received, h) : e \in Int /\ e <= Len(received)
      BY <1>6, <2>1, EndsAreFinite
    <2> QED
      BY <1>2, <1>3, <1>6, <2>1, <2>2, LinesStand
  <1>11. /\ Len(lines) = Cardinality(EndsUpTo(received, h))
         /\ \A e \in EndsUpTo(received, h) : lines[Cardinality(EndsUpTo(received, e))] = LineOf(received, e)
    BY DEF LinesAreHanded, h
  <1>12. Len(buffer') <= Len(received') /\ \A i \in 1 .. Len(buffer') : buffer'[i] = received'[h + i]
    BY <1>4, <1>5, <1>6, <1>8
  <1>13. lines' \in Seq(Seq(STRING))
    BY <1>2 DEF LinesAreHanded
  <1> QED
    BY <1>2, <1>4, <1>5, <1>7, <1>9, <1>10, <1>11, <1>12, <1>13 DEF LinesAreHanded

\* A line is handed over: the next one of what was received.
LEMMA HandleLineKeeps ==
  ASSUME LinesAreHanded, HandleLine
  PROVE  LinesAreHanded'
  <1> DEFINE length == SelectInSeq(buffer, LAMBDA c : c = NewLine)
             h == Handed
             kept == Len(buffer)
             end == h + length
             old == EndsUpTo(received, h)
             now == EndsUpTo(received, end)
             count == Len(lines)
             size == Len(received)
  <1>1. /\ length \in 1 .. kept /\ buffer[length] = NewLine
        /\ \A i \in 1 .. length - 1 : buffer[i] # NewLine
    BY FirstLineEnds DEF LinesAreHanded, HandleLine
  <1>2. /\ lines' = Append(lines, Trimmed(SubSeq(buffer, 1, length)))
        /\ buffer' = SubSeq(buffer, length + 1, Len(buffer))
        /\ UNCHANGED <<typed, received>>
    BY DEF HandleLine, Rest
  <1>3. /\ kept \in Nat /\ size \in Nat /\ kept <= size /\ h = size - kept
        /\ DOMAIN received = 1 .. size
        /\ \A i \in 1 .. kept : buffer[i] \in STRING /\ buffer[i] = received[h + i]
        /\ h > 0 => received[h] = NewLine
        /\ received \in Seq(STRING) /\ buffer \in Seq(STRING) /\ lines \in Seq(Seq(STRING))
        /\ count = Cardinality(old)
        /\ \A e \in old : lines[Cardinality(EndsUpTo(received, e))] = LineOf(received, e)
    BY DEF LinesAreHanded, Handed
  <1> HIDE DEF length, h, kept, old, now, count, size
  <1>4. /\ buffer' \in Seq(STRING) /\ Len(buffer') = kept - length
        /\ \A i \in 1 .. kept - length : buffer'[i] = buffer[length + i]
    <2> DEFINE first == length + 1
    <2>1. first \in Int /\ kept \in Int /\ \A i \in first .. kept : buffer[i] \in STRING
      BY <1>1, <1>3
    <2>2. buffer' = SubSeq(buffer, first, kept)
      BY <1>2 DEF kept
    <2>3. /\ (first <= kept <=> length < kept) /\ kept - first + 1 = kept - length /\ length <= kept
          /\ \A i \in 1 .. kept - length : first + i - 1 = length + i
      BY <1>1, <1>3
    <2> HIDE DEF first
    <2>4. /\ buffer' \in Seq(STRING)
          /\ Len(buffer') = IF first <= kept THEN kept - first + 1 ELSE 0
          /\ \A i \in 1 .. kept - first + 1 : buffer'[i] = buffer[first + i - 1]
      BY <2>1, <2>2, SubSeqProperties
    <2>5. Len(buffer') = kept - length
      BY <1>1, <1>3, <2>3, <2>4
    <2>6. ASSUME NEW i \in 1 .. kept - length
          PROVE  buffer'[i] = buffer[length + i]
      <3>1. i \in 1 .. kept - first + 1 /\ first + i - 1 = length + i
        BY <2>3
      <3> QED
        BY <2>4, <3>1
    <2> QED
      BY <2>4, <2>5, <2>6
  <1>5. Handed' = end /\ end \in 1 .. size /\ end > h /\ h >= 0 /\ h <= size
    <2>1. Handed' = size - (kept - length)
      BY <1>2, <1>4 DEF Handed, size
    <2>2. length \in Nat /\ length >= 1 /\ length <= kept
      BY <1>1, <1>3
    <2> QED
      BY <1>3, <2>1, <2>2
  <1>6. received[end] = NewLine
    BY <1>1, <1>3
  <1>7. \A e \in Int : h < e /\ e < end => received[e] # NewLine
    <2> SUFFICES ASSUME NEW e \in Int, h < e, e < end PROVE received[e] # NewLine
      OBVIOUS
    <2> DEFINE i == e - h
    <2>1. i \in 1 .. length - 1 /\ i \in 1 .. kept /\ h + i = e
      BY <1>1, <1>3
    <2> HIDE DEF i, end
    <2> QED
      BY <1>1, <1>3, <2>1
  <1> HIDE DEF end
  <1>8. /\ now = old \cup {end} /\ end \notin old
        /\ EndsUpTo(received, end - 1) = old
    <2>1. \A e : e \in DOMAIN received /\ received[e] = NewLine /\ e <= end
                  <=> (e \in DOMAIN received /\ received[e] = NewLine /\ e <= h) \/ e = end
      BY <1>3, <1>5, <1>6, <1>7
    <2>2. \A e : e \in DOMAIN received /\ received[e] = NewLine /\ e <= end - 1
                  <=> e \in DOMAIN received /\ received[e] = NewLine /\ e <= h
      BY <1>3, <1>5, <1>7
    <2>3. now = {e \in DOMAIN received : received[e] = NewLine /\ e <= end}
      BY DEF EndsUpTo, Ends, now
    <2>4. old = {e \in DOMAIN received : received[e] = NewLine /\ e <= h}
      BY DEF EndsUpTo, Ends, old
    <2>5. EndsUpTo(received, end - 1) = {e \in DOMAIN received : received[e] = NewLine /\ e <= end - 1}
      BY DEF EndsUpTo, Ends
    <2>6. end \notin old
      BY <1>5, <1>3, <2>4
    <2> QED
      BY <2>1, <2>2, <2>3, <2>4, <2>5, <2>6
  <1>9. IsFiniteSet(old) /\ old \subseteq 1 .. size
    <2>1. h \in Int
      BY <1>3
    <2> QED
      BY <1>3, <2>1, EndsAreFinite DEF old, size
  <1>10. Max({0} \cup old) = h
    <2> DEFINE before == Max({0} \cup old)
    <2>1. before \in {0} \cup old /\ before \in Nat /\ \A e \in old : e <= before
      <3>1. h \in Int /\ received \in Seq(STRING)
        BY <1>3
      <3> QED
        BY <3>1, LineBegins DEF old
    <2>2. \A e \in old : e <= h
      BY DEF EndsUpTo, old
    <2>3. h > 0 => h \in old
      <3>1. h > 0 => h \in 1 .. size
        BY <1>3, <1>5
      <3> QED
        BY <1>3, <3>1 DEF EndsUpTo, Ends, old
    <2> HIDE DEF before
    <2>4. before = h
      <3>1. CASE h > 0
        <4>1. h <= before /\ before # 0
          BY <1>3, <2>1, <2>3, <3>1
        <4>2. before <= h
          BY <2>1, <2>2, <4>1
        <4> QED
          BY <1>3, <2>1, <4>1, <4>2
      <3>2. CASE h = 0
        <4>1. old = {}
          BY <1>9, <2>2, <3>2
        <4> QED
          BY <2>1, <3>2, <4>1
      <3> QED
        BY <1>5, <1>3, <3>1, <3>2
    <2> QED
      BY <2>4 DEF before
  <1> DEFINE line == Trimmed(SubSeq(buffer, 1, length))
  <1>11. line = LineOf(received, end) /\ line \in Seq(STRING)
    <2> DEFINE last == IF length > 1 /\ buffer[length - 1] = Return THEN length - 2 ELSE length - 1
    <2>1. line = SubSeq(buffer, 1, last) /\ line \in Seq(STRING)
      BY <1>1, <1>3, TrimmedLine DEF kept
    <2>2. LineOf(received, end)
            = SubSeq(received, h + 1, IF end > h + 1 /\ received[end - 1] = Return THEN end - 2 ELSE end - 1)
      BY <1>8, <1>10 DEF LineOf
    <2>3. length > 1 => received[end - 1] = buffer[length - 1]
      <3> DEFINE i == length - 1
      <3>1. length > 1 => i \in 1 .. kept /\ h + i = end - 1
        BY <1>1, <1>3 DEF end
      <3> HIDE DEF i
      <3> QED
        BY <1>3, <3>1 DEF i
    <2>4. (end > h + 1 <=> length > 1) /\ h + length = end /\ end - 2 = length - 2 + h /\ end - 1 = length - 1 + h
      BY <1>1, <1>3 DEF end
    <2>5. LineOf(received, end) = SubSeq(received, 1 + h, last + h)
      <3>1. h + 1 = 1 + h
        BY <1>3
      <3> QED
        BY <2>2, <2>3, <2>4, <3>1
    <2>6. last \in Int /\ last <= kept
      BY <1>1, <1>3
    <2> HIDE DEF last, line
    <2>7. \A i \in 1 .. last : buffer[i] \in STRING /\ received[i + h] = buffer[i]
      <3> SUFFICES ASSUME NEW i \in 1 .. last PROVE buffer[i] \in STRING /\ received[i + h] = buffer[i]
        OBVIOUS
      <3>1. i \in 1 .. kept /\ i + h = h + i
        BY <1>3, <2>6
      <3> QED
        BY <1>3, <3>1
    <2>8. SubSeq(buffer, 1, last) = SubSeq(received, 1 + h, last + h)
      <3>1. h \in Int
        BY <1>3
      <3> QED
        BY <2>6, <2>7, <3>1, SamePiece
    <2> QED
      BY <2>1, <2>5, <2>8
  <1>12. Cardinality(now) = count + 1 /\ count \in Nat
    <2>1. Cardinality(old \cup {end}) = Cardinality(old) + 1 /\ Cardinality(old) \in Nat
      BY <1>8, <1>9, FS_AddElement, FS_CardinalityType
    <2> QED
      BY <1>3, <1>8, <2>1
  <1>13. /\ lines' \in Seq(Seq(STRING)) /\ Len(lines') = count + 1
         /\ \A n \in 1 .. count : lines'[n] = lines[n]
         /\ lines'[count + 1] = line
    BY <1>2, <1>3, <1>11 DEF count
  <1>14. ASSUME NEW e \in now
         PROVE  lines'[Cardinality(EndsUpTo(received, e))] = LineOf(received, e)
    <2>1. CASE e = end
      BY <1>11, <1>12, <1>13, <2>1 DEF now
    <2>2. CASE e \in old
      <3> DEFINE n == Cardinality(EndsUpTo(received, e))
      <3>1. e \in Int /\ e <= h /\ e \in EndsUpTo(received, e)
        BY <1>9, <2>2 DEF EndsUpTo, old
      <3>2. EndsUpTo(received, e) \subseteq old /\ EndsUpTo(received, e) # {}
        <4>1. \A i \in Ends(received) : i <= e => i <= h
          <5>1. Ends(received) \subseteq Int /\ h \in Int
            BY <1>3 DEF Ends
          <5> QED
            BY <3>1, <5>1
        <4> QED
          BY <3>1, <4>1 DEF EndsUpTo, old
      <3>3. n \in Nat /\ n <= count /\ n # 0
        BY <1>3, <1>9, <3>2, FS_Subset, FS_CardinalityType, FS_EmptySet
      <3>4. lines[n] = LineOf(received, e)
        BY <1>3, <2>2
      <3> HIDE DEF n
      <3>5. n \in 1 .. count
        BY <3>3, <1>12
      <3>6. lines'[n] = LineOf(received, e)
        BY <1>13, <3>4, <3>5
      <3> QED
        BY <3>6 DEF n
    <2> QED
      BY <1>8, <2>1, <2>2
  <1>15. \A i \in 1 .. kept - length : buffer'[i] = received[end + i]
    <2> SUFFICES ASSUME NEW i \in 1 .. kept - length PROVE buffer'[i] = received[end + i]
      OBVIOUS
    <2> DEFINE j == length + i
    <2>1. j \in 1 .. kept /\ h + j = end + i
      BY <1>1, <1>3 DEF end
    <2>2. buffer'[i] = buffer[j]
      BY <1>4
    <2> HIDE DEF j
    <2> QED
      BY <1>3, <2>1, <2>2
  <1>16. /\ Len(buffer') <= Len(received')
         /\ \A i \in 1 .. Len(buffer') : buffer'[i] = received'[Handed' + i]
         /\ Handed' > 0 => received'[Handed'] = NewLine
    <2>1. received' = received /\ Len(received') = size
      BY <1>2 DEF size
    <2>2. kept - length <= size
      BY <1>1, <1>3
    <2> QED
      BY <1>4, <1>5, <1>6, <1>15, <2>1, <2>2
  <1>17. /\ Len(lines') = Cardinality(EndsUpTo(received', Handed'))
         /\ \A e \in EndsUpTo(received', Handed') :
              lines'[Cardinality(EndsUpTo(received', e))] = LineOf(received', e)
    BY <1>2, <1>5, <1>12, <1>13, <1>14 DEF now
  <1>18. typed' \in Seq(STRING) /\ received' \in Seq(STRING)
    BY <1>2 DEF LinesAreHanded
  <1> QED
    BY <1>4, <1>13, <1>16, <1>17, <1>18 DEF LinesAreHanded

-----------------------------------------------------------------------------
\* A poll hands over what it should.
LEMMA PollKeeps ==
  ASSUME KeysAreHanded, Poll, UNCHANGED <<edge_triggered, key_code_map, down>>
  PROVE  KeysAreHanded'
  <1> DEFINE pressed == {k \in Range(kKeys) : IsKeyDown(k)}
             new == IF edge_triggered THEN pressed \ prev_state ELSE pressed
             Keys == Range(kKeys)
             Batches == {InOrder(K) : K \in SUBSET Keys}
             batch(p, i) == {k \in p[i] \cap key_code_map : edge_triggered /\ i > 1 => k \notin p[i - 1]}
             n == Len(polls)
             last == n + 1
  <1>1. /\ key_code_map \subseteq Keys /\ down \subseteq Keys /\ polls \in Seq(SUBSET Keys)
        /\ edge_triggered => prev_state = IF polls = <<>> THEN {} ELSE polls[n] \cap key_code_map
        /\ presses = [i \in DOMAIN polls |-> InOrder(batch(polls, i))]
    BY DEF KeysAreHanded
  <1>2. /\ presses' = Append(presses, InOrder(new))
        /\ prev_state' = IF edge_triggered THEN pressed ELSE prev_state
        /\ polls' = Append(polls, down)
    BY DEF Poll
  <1>3. pressed = down \cap key_code_map
    BY <1>1 DEF IsKeyDown
  <1> HIDE DEF pressed, Keys
  <1>4. n \in Nat /\ DOMAIN polls = 1 .. n /\ (polls = <<>> <=> n = 0) /\ \A i \in 1 .. n : polls[i] \subseteq Keys
    BY <1>1
  <1>5. /\ polls' \in Seq(SUBSET Keys) /\ Len(polls') = last
        /\ \A i \in 1 .. n : polls'[i] = polls[i]
        /\ polls'[last] = down
    BY <1>1, <1>2, AppendProperties
  <1>6. /\ presses \in Seq(Batches) /\ Len(presses) = n
        /\ \A i \in 1 .. n : presses[i] = InOrder(batch(polls, i))
    <2>1. \A i \in 1 .. n : InOrder(batch(polls, i)) \in Batches
      <3> SUFFICES ASSUME NEW i \in 1 .. n PROVE InOrder(batch(polls, i)) \in Batches
        OBVIOUS
      <3>1. batch(polls, i) \in SUBSET Keys
        BY <1>4
      <3> HIDE DEF batch
      <3> QED
        BY <3>1
    <2> HIDE DEF n, Batches, batch
    <2> QED
      BY <1>1, <1>4, <2>1
  <1>7. InOrder(new) \in Batches
    <2>1. new \in SUBSET Keys
      BY <1>1, <1>3
    <2> HIDE DEF new
    <2> QED
      BY <2>1
  <1> HIDE DEF Batches
  <1>8. /\ presses' \in Seq(Batches) /\ Len(presses') = last
        /\ \A i \in 1 .. n : presses'[i] = presses[i]
        /\ presses'[last] = InOrder(new)
    <2> HIDE DEF new
    <2> QED
      BY <1>2, <1>6, <1>7, AppendProperties
  <1>9. new = batch(polls', last)
    <2>1. CASE n = 0
      BY <1>1, <1>3, <1>4, <1>5, <2>1
    <2>2. CASE n > 0
      <3>1. last > 1 /\ last - 1 = n /\ n \in 1 .. n
        BY <1>4, <2>2
      <3>2. batch(polls', last) = {k \in down \cap key_code_map : edge_triggered => k \notin polls[n]}
        BY <1>5, <3>1
      <3>3. edge_triggered => prev_state = polls[n] \cap key_code_map
        BY <1>1, <1>4, <2>2
      <3> QED
        BY <1>3, <3>2, <3>3
    <2> QED
      BY <1>4, <2>1, <2>2
  <1>10. \A i \in 1 .. n : batch(polls', i) = batch(polls, i)
    <2> SUFFICES ASSUME NEW i \in 1 .. n PROVE batch(polls', i) = batch(polls, i)
      OBVIOUS
    <2>1. i > 1 => i - 1 \in 1 .. n
      BY <1>4
    <2>2. polls'[i] = polls[i] /\ (i > 1 => polls'[i - 1] = polls[i - 1])
      BY <1>5, <2>1
    <2> QED
      BY <2>2
  <1> HIDE DEF batch, new
  <1>11. ASSUME NEW i \in 1 .. last
         PROVE  presses'[i] = InOrder(batch(polls', i))
    <2>1. i = last \/ i \in 1 .. n
      BY <1>4
    <2> QED
      BY <1>6, <1>8, <1>9, <1>10, <2>1
  <1>12. DOMAIN polls' = 1 .. last /\ last \in Nat /\ last # 0
    BY <1>4, <1>5
  <1>13. presses' = [i \in DOMAIN polls' |-> InOrder(batch(polls', i))]
    <2> DEFINE f == [i \in 1 .. last |-> InOrder(batch(polls', i))]
    <2>1. DOMAIN presses' = 1 .. last /\ presses' = [i \in DOMAIN presses' |-> presses'[i]]
      BY <1>8
    <2> HIDE DEF last
    <2> QED
      BY <1>11, <1>12, <2>1
  <1>14. edge_triggered' => prev_state' = IF polls' = <<>> THEN {} ELSE polls'[Len(polls')] \cap key_code_map'
    <2>1. polls' # <<>>
      BY <1>5, <1>12
    <2> QED
      BY <1>2, <1>3, <1>5, <2>1
  <1>15. presses' = [i \in DOMAIN polls' |->
           InOrder({k \in polls'[i] \cap key_code_map' : edge_triggered' /\ i > 1 => k \notin polls'[i - 1]})]
    BY <1>13 DEF batch
  <1> QED
    BY <1>1, <1>5, <1>14, <1>15 DEF KeysAreHanded, Keys

LEMMA KeysMoveOn ==
  ASSUME KeysAreHanded, KeyboardNext
  PROVE  KeysAreHanded'
  <1>1. CASE StartKeyboard
    BY <1>1, PollKeeps DEF StartKeyboard
  <1>2. CASE KeyMoves
    <2>1. UNCHANGED <<edge_triggered, key_code_map, prev_state, presses, polls>>
      BY <1>2 DEF KeyMoves
    <2>2. down' \subseteq Range(kKeys)
      BY <1>2 DEF KeyMoves, KeysAreHanded
    <2> QED
      BY <2>1, <2>2 DEF KeysAreHanded
  <1>3. CASE OnTimer
    <2>1. CASE running
      BY <1>3, <2>1, PollKeeps DEF OnTimer
    <2>2. CASE ~running
      BY <1>3, <2>2 DEF OnTimer, KeysAreHanded
    <2> QED
      BY <2>1, <2>2
  <1>4. CASE StopKeyboard
    BY <1>4 DEF StopKeyboard, KeysAreHanded
  <1> QED
    BY <1>1, <1>2, <1>3, <1>4 DEF KeyboardNext

\* What is true of the two readers says that what they read is handed over.
LEMMA HandedOver ==
  ASSUME LinesAreHanded, KeysAreHanded
  PROVE  InputIsHanded
  <1> DEFINE done == EndsUpTo(received, Handed)
             h == Handed
             all == Ends(received)
             kept == Len(buffer)
             size == Len(received)
  <1>1. /\ received \in Seq(STRING) /\ size \in Nat /\ kept \in Nat /\ kept <= size /\ h = size - kept
        /\ \A i \in 1 .. kept : buffer[i] = received[h + i]
        /\ Len(lines) = Cardinality(done) /\ buffer \in Seq(STRING)
        /\ \A e \in done : lines[Cardinality(EndsUpTo(received, e))] = LineOf(received, e)
    BY DEF LinesAreHanded, Handed
  <1>2. /\ done = {e \in all : e <= h} /\ all = {e \in 1 .. size : received[e] = NewLine}
    <2>1. DOMAIN received = 1 .. size
      BY <1>1
    <2> QED
      BY <2>1 DEF EndsUpTo, Ends
  <1> HIDE DEF h, kept, size
  <1>3. Cardinality(done) <= Cardinality(all) /\ Cardinality(done) \in Nat
    <2>1. h \in Int
      BY <1>1
    <2> QED
      BY <1>1, <2>1, EndsAreFinite DEF h
  <1>4. ASSUME NEW end \in Ends(received), Cardinality(EndsUpTo(received, end)) <= Len(lines)
        PROVE  lines[Cardinality(EndsUpTo(received, end))] = LineOf(received, end)
    <2> DEFINE upto == EndsUpTo(received, end)
    <2>1. end \in Int /\ h \in Int
      BY <1>1, <1>2
    <2>2. IsFiniteSet(upto) /\ Cardinality(upto) \in Nat
      BY <1>1, <2>1, EndsAreFinite
    <2>3. upto = {e \in all : e <= end} /\ end \in upto
      BY <1>2, <2>1 DEF EndsUpTo
    <2>4. CASE end <= h
      <3>1. end \in done
        BY <1>2, <2>4
      <3> QED
        BY <1>1, <3>1
    <2>5. CASE end > h
      <3>1. done \subseteq upto
        BY <1>2, <2>1, <2>3, <2>5
      <3>2. end \notin done
        BY <1>2, <2>1, <2>5
      <3> HIDE DEF upto, done
      <3>3. Cardinality(done) <= Cardinality(upto) /\ (Cardinality(done) = Cardinality(upto) => done = upto)
        BY <2>2, <3>1, FS_Subset
      <3>4. Cardinality(upto) = Cardinality(done)
        BY <1>1, <1>3, <1>4, <2>2, <3>3 DEF upto
      <3> QED
        BY <2>3, <3>2, <3>3, <3>4
    <2> QED
      BY <2>1, <2>4, <2>5
  <1>5. ASSUME ~Contains(buffer, NewLine)
        PROVE  done = all
    <2>1. \A i \in 1 .. kept : buffer[i] # NewLine
      BY <1>5 DEF Contains, kept
    <2>2. ASSUME NEW e \in all, e > h
          PROVE  FALSE
      <3> DEFINE i == e - h
      <3>1. i \in 1 .. kept /\ h + i = e
        BY <1>1, <1>2, <2>2
      <3> HIDE DEF i
      <3>2. received[e] = NewLine
        BY <1>2
      <3> QED
        BY <1>1, <2>1, <3>1, <3>2
    <2>3. \A e \in all : e <= h
      <3>1. all \subseteq Int /\ h \in Int
        BY <1>1, <1>2
      <3> QED
        BY <2>2, <3>1
    <2> QED
      BY <1>2, <2>3
  <1>6. ~Contains(buffer, NewLine) => Len(lines) = Cardinality(Ends(received))
    BY <1>1, <1>5
  <1>7. Len(lines) <= Cardinality(Ends(received))
    BY <1>1, <1>3
  <1>8. presses = [i \in DOMAIN polls |->
          InOrder({k \in polls[i] \cap key_code_map : edge_triggered /\ i > 1 => k \notin polls[i - 1]})]
    BY DEF KeysAreHanded
  <1> QED
    BY <1>4, <1>6, <1>7, <1>8 DEF InputIsHanded

LEMMA LinesStart ==
  ASSUME NEW text \in Seq(STRING), StdinInit(text)
  PROVE  LinesAreHanded
  <1>1. /\ typed \in Seq(STRING) /\ buffer = <<>> /\ lines = <<>> /\ received = <<>>
    BY DEF StdinInit
  <1>2. Handed = 0 /\ EndsUpTo(received, 0) = {}
    BY <1>1 DEF Handed, EndsUpTo, Ends
  <1>3. Cardinality(EndsUpTo(received, 0)) = 0
    BY <1>2, FS_EmptySet
  <1> QED
    BY <1>1, <1>2, <1>3 DEF LinesAreHanded

LEMMA LinesGoOn ==
  ASSUME LinesAreHanded, KeysAreHanded, StdinNext
  PROVE  LinesAreHanded' /\ KeysAreHanded'
  <1>1. UNCHANGED keyboardVars
    BY DEF StdinNext, Receive, HandleLine, StopReading
  <1>2. KeysAreHanded'
    BY <1>1 DEF keyboardVars, KeysAreHanded
  <1>3. CASE StopReading
    BY <1>2, <1>3 DEF StopReading, LinesAreHanded, Handed
  <1> QED
    BY <1>2, <1>3, ReceiveKeeps, HandleLineKeeps DEF StdinNext

LEMMA KeysGoOn ==
  ASSUME LinesAreHanded, KeysAreHanded, KeyboardNext
  PROVE  LinesAreHanded' /\ KeysAreHanded'
  <1>1. UNCHANGED stdinVars
    BY DEF KeyboardNext, StartKeyboard, KeyMoves, OnTimer, StopKeyboard
  <1>2. LinesAreHanded'
    BY <1>1 DEF stdinVars, LinesAreHanded, Handed
  <1> QED
    BY <1>2, KeysMoveOn

LEMMA InputRests ==
  ASSUME LinesAreHanded, KeysAreHanded, UNCHANGED inputVars
  PROVE  LinesAreHanded' /\ KeysAreHanded'
  BY DEF inputVars, stdinVars, keyboardVars, LinesAreHanded, KeysAreHanded, Handed

(***************************************************************************)
(* Whatever is typed and however the reads cut it, whichever keys are held *)
(* and whenever the timer looks: the lines and the keys that are handed    *)
(* over are those that were read (stdin_reader.h:73-103,                   *)
(* keyboard_reader.cpp:113-151).                                           *)
(***************************************************************************)
THEOREM InputIsHandedOver == InputSpec => []InputIsHanded
  <1> DEFINE IInv == LinesAreHanded /\ KeysAreHanded
  <1>1. ASSUME (\E text \in Typed : StdinInit(text)), KeyboardInit
        PROVE  IInv
    BY <1>1, InputAssumption, LinesStart DEF KeyboardInit, KeysAreHanded
  <1>2. ASSUME IInv, [StdinNext \/ KeyboardNext]_inputVars
        PROVE  IInv'
    BY <1>2, LinesGoOn, KeysGoOn, InputRests
  <1>3. IInv => InputIsHanded
    BY HandedOver
  <1> HIDE DEF IInv
  <1> QED
    BY <1>1, <1>2, <1>3, PTL DEF InputSpec

-----------------------------------------------------------------------------
(* The settings *)

\* What holds at a place if it holds before it, holds at all.
LEMMA FromTheStart ==
  ASSUME NEW S, NEW last \in Nat,
         \A p \in 1 .. last : (\A q \in 1 .. last : q < p => q \in S) => p \in S
  PROVE  \A p \in 1 .. last : p \in S
  <1> SUFFICES ASSUME NEW p \in 1 .. last, p \notin S PROVE FALSE
    OBVIOUS
  <1> DEFINE B == {k \in 1 .. last : k \notin S}
             m == Min(B)
  <1>1. B \subseteq Nat /\ p \in B
    BY DEF B
  <1>2. m \in B /\ \A k \in B : m <= k
    <2> HIDE DEF B
    <2> QED BY <1>1, LeastIsThere
  <1> HIDE DEF m
  <1>3. \A q \in 1 .. last : q < m => q \in S
    BY <1>2
  <1> QED
    BY <1>2, <1>3

\* What each of the texts leaves.
StoredUpTo(s, texts) ==
  LET after[i \in 0 .. Len(texts)] == IF i = 0 THEN s ELSE Store(after[i - 1], texts[i][1], texts[i][2])
  IN after

LEMMA StoredOneByOne ==
  ASSUME NEW s, NEW texts, Len(texts) \in Nat
  PROVE  /\ StoredUpTo(s, texts)[0] = s
         /\ \A i \in 1 .. Len(texts) :
              StoredUpTo(s, texts)[i] = Store(StoredUpTo(s, texts)[i - 1], texts[i][1], texts[i][2])
         /\ StoreAll(s, texts) = StoredUpTo(s, texts)[Len(texts)]
  <1> DEFINE n == Len(texts)
             Turn(f, i) == IF i = 0 THEN s ELSE Store(f[i - 1], texts[i][1], texts[i][2])
             T == {m \in 1 .. n : \E f : \A i \in 0 .. m : f[i] = Turn(f, i)}
             P(f) == f = [i \in 0 .. Len(texts) |-> Turn(f, i)]
  <1>1. n \in Nat
    OBVIOUS
  <1> HIDE DEF n
  <1>2. ASSUME NEW m \in 1 .. n, \A q \in 1 .. n : q < m => q \in T
        PROVE  m \in T
    <2>1. PICK f : \A i \in 0 .. m - 1 : f[i] = Turn(f, i)
      <3>1. CASE m = 1
        <4> DEFINE f == [i \in 0 .. 0 |-> s]
        <4>1. \A i \in 0 .. m - 1 : i = 0 /\ f[i] = s
          BY <3>1
        <4> QED
          BY <4>1
      <3>2. CASE m # 1
        <4>1. m - 1 \in 1 .. n /\ m - 1 < m
          BY <1>1, <3>2
        <4>2. m - 1 \in T
          <5> HIDE DEF T
          <5> QED BY <1>2, <4>1
        <4> QED
          BY <4>2
      <3> QED
        BY <3>1, <3>2
    <2> DEFINE g == [i \in 0 .. m |-> IF i = m THEN Turn(f, m) ELSE f[i]]
    <2>2. \A i \in 0 .. m : g[i] = IF i = m THEN Turn(f, m) ELSE f[i]
      OBVIOUS
    <2> HIDE DEF g
    <2>3. ASSUME NEW i \in 0 .. m
          PROVE  g[i] = Turn(g, i)
      <3>1. i # 0 => i - 1 \in 0 .. m /\ i - 1 # m
        OBVIOUS
      <3>2. Turn(g, i) = Turn(f, i)
        BY <2>2, <3>1
      <3>3. i = m \/ i \in 0 .. m - 1
        OBVIOUS
      <3> HIDE DEF Turn
      <3> QED
        BY <2>1, <2>2, <3>2, <3>3
    <2> QED
      BY <2>3
  <1>3. \E f : P(f)
    <2>1. CASE n = 0
      <3> DEFINE f == [i \in 0 .. Len(texts) |-> s]
      <3>1. \A g : f = [i \in 0 .. Len(texts) |-> Turn(g, i)]
        BY <2>1 DEF n
      <3> HIDE DEF f, Turn
      <3> QED
        BY <3>1
    <2>2. CASE n # 0
      <3>1. n \in T
        <4>1. n \in 1 .. n
          BY <1>1, <2>2
        <4> HIDE DEF T
        <4> QED BY <1>1, <1>2, <4>1, FromTheStart
      <3>2. PICK f : \A i \in 0 .. n : f[i] = Turn(f, i)
        BY <3>1
      <3> DEFINE g == [i \in 0 .. n |-> f[i]]
      <3>3. \A i \in 0 .. n : Turn(g, i) = Turn(f, i)
        <4>1. \A i \in 0 .. n : i # 0 => i - 1 \in 0 .. n
          BY <1>1
        <4> QED
          BY <4>1
      <3>4. g = [i \in 0 .. n |-> Turn(g, i)]
        <4> HIDE DEF Turn
        <4> QED
          BY <3>2, <3>3
      <3> HIDE DEF g
      <3> QED
        BY <3>4 DEF n
    <2> QED
      BY <2>1, <2>2
  <1>4. StoredUpTo(s, texts) = CHOOSE f : P(f)
    BY DEF StoredUpTo
  <1> HIDE DEF P
  <1>5. P(StoredUpTo(s, texts))
    BY <1>3, <1>4
  <1> DEFINE h == StoredUpTo(s, texts)
  <1>6. \A i \in 0 .. n : h[i] = Turn(h, i)
    <2>1. h = [i \in 0 .. n |-> Turn(h, i)]
      BY <1>5 DEF P, n
    <2> HIDE DEF h, Turn
    <2> QED
      BY <2>1
  <1>7. StoreAll(s, texts) = h[Len(texts)]
    BY DEF StoreAll, StoredUpTo
  <1> HIDE DEF h
  <1>8. 0 \in 0 .. n /\ \A i \in 1 .. n : i \in 0 .. n /\ i # 0
    BY <1>1
  <1> QED
    BY <1>6, <1>7, <1>8 DEF n, h

\* What a key takes of a text.
Converted(key, text) == IF key \in KnownKeys THEN LexicalCast(FieldType(key), text) ELSE {text}

\* What there is for a key, if anything.
Kept(s, key) == IF key \in KnownKeys THEN s.fields[key[1]][key[2]] ELSE s.dynamic[key]
Has(s) == KnownKeys \cup DOMAIN s.dynamic

\* Settings are functions of known sections and fields, and of other keys.
Shaped(s) ==
  /\ s = [fields |-> s.fields, dynamic |-> s.dynamic]
  /\ DOMAIN s.fields = DOMAIN Handlers
  /\ s.fields = [section \in DOMAIN s.fields |-> s.fields[section]]
  /\ \A section \in DOMAIN Handlers :
       /\ DOMAIN s.fields[section] = DOMAIN Handlers[section]
       /\ s.fields[section] = [field \in DOMAIN s.fields[section] |-> s.fields[section][field]]
  /\ DOMAIN s.dynamic \cap KnownKeys = {}

LEMMA KnownIsPair ==
  /\ \A key \in KnownKeys : /\ key = <<key[1], key[2]>> /\ key[1] \in DOMAIN Handlers
                            /\ key[2] \in DOMAIN Handlers[key[1]]
  /\ \A section \in DOMAIN Handlers : \A field \in DOMAIN Handlers[section] : <<section, field>> \in KnownKeys
  <1> HIDE DEF Handlers
  <1> QED
    BY DEF KnownKeys

LEMMA AtMostOne ==
  ASSUME NEW type, NEW text
  PROVE  LexicalCast(type, text) = {} \/ \E v : LexicalCast(type, text) = {v}
  BY DEF LexicalCast

LEMMA ConvertedIsOne ==
  ASSUME NEW key, NEW text, Converted(key, text) # {}
  PROVE  \E v : Converted(key, text) = {v}
  BY AtMostOne DEF Converted

\* One text changes what its key has, if the key takes it, and nothing else.
LEMMA StoreStores ==
  ASSUME NEW s, Shaped(s), NEW key, NEW text
  PROVE  LET t == Store(s, key, text) IN
         /\ Shaped(t)
         /\ DOMAIN t.dynamic = DOMAIN s.dynamic \cup ({key} \ KnownKeys)
         /\ Converted(key, text) # {} => {Kept(t, key)} = Converted(key, text)
         /\ \A k \in Has(t) : k # key \/ Converted(key, text) = {} => k \in Has(s) /\ Kept(t, k) = Kept(s, k)
  <1> DEFINE t == Store(s, key, text)
  <1> HIDE DEF Handlers
  <1> USE DEF Kept, Has
  <1>1. CASE key \in KnownKeys /\ LexicalCast(FieldType(key), text) = {}
    <2>1. t = s
      BY <1>1, KnownIsPair DEF Shaped, Store
    <2> QED
      BY <1>1, <2>1 DEF Converted
  <1>2. CASE key \in KnownKeys /\ LexicalCast(FieldType(key), text) # {}
    <2>1. PICK v : LexicalCast(FieldType(key), text) = {v}
      BY <1>2, AtMostOne
    <2>2. t = [s EXCEPT !.fields[key[1]][key[2]] = v]
      BY <1>2, <2>1 DEF Store
    <2>3. t.dynamic = s.dynamic /\ t.fields = [s.fields EXCEPT ![key[1]][key[2]] = v]
          /\ t = [fields |-> t.fields, dynamic |-> t.dynamic]
      BY <2>2 DEF Shaped
    <2> HIDE DEF t
    <2>4. key = <<key[1], key[2]>> /\ key[1] \in DOMAIN Handlers /\ key[2] \in DOMAIN Handlers[key[1]]
      BY <1>2, KnownIsPair
    <2>5. Shaped(t)
      <3>1. DOMAIN t.fields = DOMAIN Handlers /\ t.fields = [section \in DOMAIN t.fields |-> t.fields[section]]
        BY <2>3, <2>4 DEF Shaped
      <3>2. ASSUME NEW section \in DOMAIN Handlers
            PROVE  /\ DOMAIN t.fields[section] = DOMAIN Handlers[section]
                   /\ t.fields[section] = [field \in DOMAIN t.fields[section] |-> t.fields[section][field]]
        <4> DEFINE before == s.fields[section]
                   now == t.fields[section]
        <4>1. DOMAIN before = DOMAIN Handlers[section] /\ before = [field \in DOMAIN before |-> before[field]]
          BY DEF Shaped
        <4>2. now = IF section = key[1] THEN [before EXCEPT ![key[2]] = v] ELSE before
          BY <2>3, <3>2 DEF Shaped
        <4> HIDE DEF before, now
        <4>3. DOMAIN now = DOMAIN Handlers[section] /\ now = [field \in DOMAIN now |-> now[field]]
          BY <4>1, <4>2
        <4> QED
          BY <4>3 DEF now
      <3> QED
        BY <2>3, <3>1, <3>2 DEF Shaped
    <2>6. t.fields[key[1]][key[2]] = v
      BY <2>3, <2>4 DEF Shaped
    <2>7. ASSUME NEW k \in KnownKeys, k # key
          PROVE  t.fields[k[1]][k[2]] = s.fields[k[1]][k[2]]
      <3>1. k = <<k[1], k[2]>> /\ k[1] \in DOMAIN Handlers /\ k[2] \in DOMAIN Handlers[k[1]]
        BY KnownIsPair
      <3>2. k[1] # key[1] \/ k[2] # key[2]
        BY <2>4, <2>7, <3>1
      <3> QED
        BY <2>3, <2>4, <3>1, <3>2 DEF Shaped
    <2> QED
      BY <1>2, <2>1, <2>3, <2>5, <2>6, <2>7 DEF Converted, t
  <1>3. CASE key \notin KnownKeys
    <2>1. t = [s EXCEPT !.dynamic = [k \in DOMAIN s.dynamic \cup {key} |-> IF k = key THEN text ELSE s.dynamic[k]]]
      BY <1>3 DEF Store
    <2>2. /\ t = [fields |-> t.fields, dynamic |-> t.dynamic] /\ t.fields = s.fields
          /\ t.dynamic = [k \in DOMAIN s.dynamic \cup {key} |-> IF k = key THEN text ELSE s.dynamic[k]]
      BY <2>1 DEF Shaped
    <2> HIDE DEF t
    <2>3. Shaped(t)
      BY <1>3, <2>2 DEF Shaped
    <2> QED
      BY <1>3, <2>2, <2>3 DEF Converted, t
  <1> QED
    BY <1>1, <1>2, <1>3

\* The texts for a key that it takes, up to one of them.
Taken(key, texts, n) == {i \in 1 .. n : texts[i][1] = key /\ Converted(key, texts[i][2]) # {}}

\* What the first n texts have made of s: a key has what the last text says that
\* it takes, and without one what it had.
Stored(s, t, texts, n) ==
  /\ Shaped(t)
  /\ DOMAIN t.dynamic = DOMAIN s.dynamic \cup ({texts[i][1] : i \in 1 .. n} \ KnownKeys)
  /\ \A key \in Has(t) :
       \/ /\ Taken(key, texts, n) = {} /\ key \in Has(s)
          /\ Kept(t, key) = Kept(s, key)
       \/ \E i \in Taken(key, texts, n) :
            /\ \A j \in Taken(key, texts, n) : j <= i
            /\ {Kept(t, key)} = Converted(key, texts[i][2])

LEMMA TextStored ==
  ASSUME NEW s, Shaped(s), NEW texts, NEW n \in Nat, NEW t, Stored(s, t, texts, n)
  PROVE  Stored(s, Store(t, texts[n + 1][1], texts[n + 1][2]), texts, n + 1)
  <1> DEFINE k1 == texts[n + 1][1]
             text == texts[n + 1][2]
             u == Store(t, k1, text)
             hit == Converted(k1, text) # {}
  <1>1. /\ Shaped(u)
        /\ DOMAIN u.dynamic = DOMAIN t.dynamic \cup ({k1} \ KnownKeys)
        /\ hit => {Kept(u, k1)} = Converted(k1, text)
        /\ \A k \in Has(u) : k # k1 \/ ~hit => k \in Has(t) /\ Kept(u, k) = Kept(t, k)
    BY StoreStores DEF Stored
  <1> HIDE DEF u
  <1>2. \A i : i \in 1 .. n + 1 <=> i \in 1 .. n \/ i = n + 1
    OBVIOUS
  <1>3. DOMAIN u.dynamic = DOMAIN s.dynamic \cup ({texts[i][1] : i \in 1 .. n + 1} \ KnownKeys)
    <2>1. {texts[i][1] : i \in 1 .. n + 1} = {texts[i][1] : i \in 1 .. n} \cup {k1}
      BY <1>2
    <2> QED
      BY <1>1, <2>1 DEF Stored
  <1>4. ASSUME NEW key \in Has(u)
        PROVE  \/ /\ Taken(key, texts, n + 1) = {} /\ key \in Has(s)
                  /\ Kept(u, key) = Kept(s, key)
               \/ \E i \in Taken(key, texts, n + 1) :
                    /\ \A j \in Taken(key, texts, n + 1) : j <= i
                    /\ {Kept(u, key)} = Converted(key, texts[i][2])
    <2>1. CASE key = k1 /\ hit
      <3>1. n + 1 \in Taken(key, texts, n + 1) /\ \A j \in Taken(key, texts, n + 1) : j <= n + 1
        BY <2>1 DEF Taken
      <3> QED
        BY <1>1, <2>1, <3>1
    <2>2. CASE ~ (key = k1 /\ hit)
      <3>1. Taken(key, texts, n + 1) = Taken(key, texts, n)
        BY <1>2, <2>2 DEF Taken
      <3>2. key \in Has(t) /\ Kept(u, key) = Kept(t, key)
        BY <1>1, <2>2
      <3> HIDE DEF hit, k1, text
      <3> QED
        BY <3>1, <3>2 DEF Stored
    <2> QED
      BY <2>1, <2>2
  <1> QED
    BY <1>1, <1>3, <1>4 DEF Stored, u

LEMMA TextsStored ==
  ASSUME NEW s, Shaped(s), NEW texts, Len(texts) \in Nat
  PROVE  Stored(s, StoreAll(s, texts), texts, Len(texts))
  <1> DEFINE n == Len(texts)
             after == StoredUpTo(s, texts)
             T == {i \in 1 .. n : Stored(s, after[i], texts, i)}
  <1>1. /\ n \in Nat /\ after[0] = s /\ StoreAll(s, texts) = after[n]
        /\ \A i \in 1 .. n : after[i] = Store(after[i - 1], texts[i][1], texts[i][2])
    BY StoredOneByOne
  <1> HIDE DEF n, after
  <1>2. Stored(s, s, texts, 0)
    BY DEF Stored, Taken
  <1>3. ASSUME NEW i \in 1 .. n, Stored(s, after[i - 1], texts, i - 1)
        PROVE  i \in T
    <2>1. i - 1 \in Nat /\ (i - 1) + 1 = i
      BY <1>1
    <2>2. Stored(s, Store(after[i - 1], texts[i][1], texts[i][2]), texts, i)
      BY <1>3, <2>1, TextStored
    <2> QED
      BY <1>1, <2>2
  <1>4. ASSUME NEW i \in 1 .. n, \A q \in 1 .. n : q < i => q \in T
        PROVE  i \in T
    <2>1. i = 1 \/ (i - 1 \in 1 .. n /\ i - 1 < i)
      BY <1>1
    <2>2. i - 1 = 0 \/ i - 1 \in T
      <3> HIDE DEF T
      <3> QED BY <1>4, <2>1
    <2> QED
      BY <1>1, <1>2, <1>3, <2>2
  <1>5. n = 0 \/ n \in 1 .. n
    BY <1>1
  <1>6. n = 0 \/ n \in T
    <2> HIDE DEF T
    <2> QED BY <1>1, <1>4, <1>5, FromTheStart
  <1> QED
    BY <1>1, <1>2, <1>6 DEF n

\* The keys of a finite set one after the other.
LEMMA KeysInTurn ==
  ASSUME NEW K, IsFiniteSet(K)
  PROVE  /\ SetToSeq(K) \in Seq(K)
         /\ \A i, j \in 1 .. Len(SetToSeq(K)) : SetToSeq(K)[i] = SetToSeq(K)[j] => i = j
         /\ \A key \in K : \E i \in 1 .. Len(SetToSeq(K)) : SetToSeq(K)[i] = key
  <1> DEFINE n == Cardinality(K)
             keys == SetToSeq(K)
  <1>1. n \in Nat /\ \E f : f \in Bijection(1 .. n, K)
    BY FS_CardinalityType DEF ExistsBijection
  <1>2. \E f \in [1 .. n -> K] : IsInjective(f)
    BY <1>1 DEF Bijection, Injection
  <1> HIDE DEF n
  <1>3. keys \in [1 .. n -> K] /\ IsInjective(keys)
    BY <1>2 DEF SetToSeq, n
  <1> HIDE DEF keys
  <1>4. keys \in Seq(K) /\ Len(keys) = n
    BY <1>1, <1>3
  <1>5. IsFiniteSet(1 .. n) /\ Cardinality(1 .. n) = n
    BY <1>1, FS_Interval
  <1>6. keys \in Injection(1 .. n, K)
    BY <1>3 DEF Injection
  <1>7. keys \in Surjection(1 .. n, K)
    BY <1>5, <1>6, FS_Injection DEF n
  <1>8. \A key \in K : \E i \in 1 .. n : keys[i] = key
    BY <1>7 DEF Surjection
  <1> QED
    BY <1>3, <1>4, <1>8 DEF keys, IsInjective

LEMMA FiveAreFinite ==
  ASSUME NEW a, NEW b, NEW c, NEW d, NEW e
  PROVE  IsFiniteSet({a, b, c, d, e})
  <1>1. IsFiniteSet({a} \cup {b})
    BY FS_Singleton, FS_AddElement
  <1>2. IsFiniteSet(({a} \cup {b}) \cup {c})
    BY <1>1, FS_AddElement
  <1>3. IsFiniteSet((({a} \cup {b}) \cup {c}) \cup {d})
    BY <1>2, FS_AddElement
  <1>4. IsFiniteSet(((({a} \cup {b}) \cup {c}) \cup {d}) \cup {e})
    BY <1>3, FS_AddElement
  <1>5. {a, b, c, d, e} = ((({a} \cup {b}) \cup {c}) \cup {d}) \cup {e}
    OBVIOUS
  <1> QED
    BY <1>4, <1>5

LEMMA FieldsAreFinite ==
  /\ IsFiniteSet(DOMAIN Handlers)
  /\ \A section \in DOMAIN Handlers : IsFiniteSet(DOMAIN Handlers[section])
  <1>1. /\ DOMAIN Handlers = {"server", "database", "gameplay", "logger"}
        /\ DOMAIN Handlers.server =
             {"host", "port", "max_players", "tick_rate_ms", "client_disconnect_timeout_sec"}
        /\ DOMAIN Handlers.database = {"connection_string", "pool_size"}
        /\ DOMAIN Handlers.gameplay =
             {"lobby_max_players", "map_name", "match_duration_sec", "player_default_hp", "monster_default_hp"}
               \cup {"monsters_per_player", "default_radius_attack", "default_radius_view",
                     "player_default_attack", "monster_default_attack"}
               \cup {"default_map_blc_x", "default_map_blc_y", "default_map_trc_x", "default_map_trc_y"}
        /\ DOMAIN Handlers.logger = {"level", "output_dir", "format"}
    BY DEF Handlers
  <1> HIDE DEF Handlers
  <1>2. IsFiniteSet(DOMAIN Handlers)
    <2>1. DOMAIN Handlers = {"server", "database", "gameplay", "logger", "logger"}
      BY <1>1
    <2>2. IsFiniteSet({"server", "database", "gameplay", "logger", "logger"})
      BY FiveAreFinite
    <2> QED
      BY <2>1, <2>2, Zenon
  <1>3. IsFiniteSet(DOMAIN Handlers.server)
    <2>1. DOMAIN Handlers.server = {"host", "port", "max_players", "tick_rate_ms", "client_disconnect_timeout_sec"}
      BY <1>1
    <2>2. IsFiniteSet({"host", "port", "max_players", "tick_rate_ms", "client_disconnect_timeout_sec"})
      BY FiveAreFinite
    <2> QED
      BY <2>1, <2>2, Zenon
  <1>4. IsFiniteSet(DOMAIN Handlers.database)
    <2>1. DOMAIN Handlers.database = {"connection_string", "pool_size", "pool_size", "pool_size", "pool_size"}
      BY <1>1
    <2>2. IsFiniteSet({"connection_string", "pool_size", "pool_size", "pool_size", "pool_size"})
      BY FiveAreFinite
    <2> QED
      BY <2>1, <2>2, Zenon
  <1>5. IsFiniteSet(DOMAIN Handlers.gameplay)
    <2> DEFINE first == {"lobby_max_players", "map_name", "match_duration_sec", "player_default_hp",
                         "monster_default_hp"}
               second == {"monsters_per_player", "default_radius_attack", "default_radius_view",
                          "player_default_attack", "monster_default_attack"}
               third == {"default_map_blc_x", "default_map_blc_y", "default_map_trc_x", "default_map_trc_y",
                         "default_map_trc_y"}
    <2>1. IsFiniteSet(first) /\ IsFiniteSet(second) /\ IsFiniteSet(third)
      BY FiveAreFinite
    <2>2. DOMAIN Handlers.gameplay = (first \cup second) \cup third
      BY <1>1
    <2> HIDE DEF first, second, third
    <2>3. IsFiniteSet(first \cup second)
      BY <2>1, FS_Union
    <2> QED
      BY <2>1, <2>2, <2>3, FS_Union
  <1>6. IsFiniteSet(DOMAIN Handlers.logger)
    <2>1. DOMAIN Handlers.logger = {"level", "output_dir", "format", "format", "format"}
      BY <1>1
    <2>2. IsFiniteSet({"level", "output_dir", "format", "format", "format"})
      BY FiveAreFinite
    <2> QED
      BY <2>1, <2>2, Zenon
  <1>7. DOMAIN Handlers = {"server", "database", "gameplay", "logger"}
    BY <1>1
  <1> QED
    BY <1>2, <1>3, <1>4, <1>5, <1>6, <1>7

LEMMA KnownAreFinite == IsFiniteSet(KnownKeys)
  <1> DEFINE Sections == DOMAIN Handlers
             KeysOf(section) == {<<section, field>> : field \in DOMAIN Handlers[section]}
  <1>1. ASSUME NEW section, NEW F, IsFiniteSet(F)
        PROVE  IsFiniteSet({<<section, field>> : field \in F})
    <2> DEFINE f == [field \in F |-> <<section, field>>]
    <2>1. f \in Surjection(F, {<<section, field>> : field \in F})
      BY DEF Surjection
    <2> QED
      BY <1>1, <2>1, FS_Surjection
  <1>2. IsFiniteSet(Sections) /\ \A section \in Sections : IsFiniteSet(DOMAIN Handlers[section])
    BY FieldsAreFinite
  <1>3. \A section \in Sections : IsFiniteSet(KeysOf(section))
    BY <1>1, <1>2
  <1> DEFINE keys == [section \in Sections |-> KeysOf(section)]
  <1>5. IsFiniteSet({KeysOf(section) : section \in Sections})
    <2>1. keys \in Surjection(Sections, {KeysOf(section) : section \in Sections})
      BY DEF Surjection
    <2> QED
      BY <1>2, <2>1, FS_Surjection
  <1>6. \A S \in {KeysOf(section) : section \in Sections} : IsFiniteSet(S)
    BY <1>3
  <1> HIDE DEF Sections
  <1> QED
    BY <1>5, <1>6, FS_UNION DEF KnownKeys, Sections

\* What a key has of the environment, if it takes that.
FromEnv(key, env) == IF EnvName(key) \in DOMAIN env THEN Converted(key, env[EnvName(key)]) ELSE {}

LEMMA EnvironmentOverrides ==
  ASSUME NEW s, Shaped(s), IsFiniteSet(DOMAIN s.dynamic), NEW env
  PROVE  LET t == OverrideSettings(s, env) IN
         /\ DOMAIN t.dynamic = DOMAIN s.dynamic
         /\ \A key \in Has(t) :
              /\ FromEnv(key, env) # {} => {Kept(t, key)} = FromEnv(key, env)
              /\ FromEnv(key, env) = {} => Kept(t, key) = Kept(s, key)
  <1> DEFINE K == {k \in Has(s) : EnvName(k) \in DOMAIN env}
             keys == SetToSeq(K)
             n == Len(keys)
             texts == [i \in DOMAIN keys |-> <<keys[i], env[EnvName(keys[i])]>>]
             t == StoreAll(s, texts)
  <1>1. IsFiniteSet(K)
    <2>1. IsFiniteSet(Has(s))
      BY KnownAreFinite, FS_Union DEF Has
    <2> QED
      BY <2>1, FS_Subset
  <1>2. /\ keys \in Seq(K)
        /\ \A i, j \in 1 .. n : keys[i] = keys[j] => i = j
        /\ \A key \in K : \E i \in 1 .. n : keys[i] = key
    <2> HIDE DEF K
    <2> QED BY <1>1, KeysInTurn
  <1>3. t = OverrideSettings(s, env)
    BY DEF OverrideSettings, Has
  <1> HIDE DEF keys
  <1>4. /\ n \in Nat /\ \A i \in 1 .. n : keys[i] \in K
        /\ \A i \in 1 .. n : texts[i][1] = keys[i] /\ texts[i][2] = env[EnvName(keys[i])]
        /\ Len(texts) = n
    <2>1. n \in Nat /\ DOMAIN keys = 1 .. n /\ \A i \in 1 .. n : keys[i] \in K
      BY <1>2
    <2> HIDE DEF K, n
    <2>2. Len(texts) = n
      BY <2>1
    <2> QED
      BY <2>1, <2>2
  <1> HIDE DEF texts, n, t
  <1>5. Stored(s, t, texts, n)
    BY <1>4, TextsStored DEF t
  <1>6. DOMAIN t.dynamic = DOMAIN s.dynamic
    <2>1. {texts[i][1] : i \in 1 .. n} \subseteq Has(s)
      BY <1>4
    <2> HIDE DEF K
    <2> QED
      BY <1>5, <2>1 DEF Stored, Has
  <1>7. ASSUME NEW key \in Has(t)
        PROVE  /\ FromEnv(key, env) # {} => {Kept(t, key)} = FromEnv(key, env)
               /\ FromEnv(key, env) = {} => Kept(t, key) = Kept(s, key)
    <2>1. key \in Has(s)
      BY <1>6, <1>7 DEF Has
    <2>2. \A i \in Taken(key, texts, n) : i \in 1 .. n /\ keys[i] = key /\ key \in K
      BY <1>4 DEF Taken
    <2>3. CASE key \in K /\ FromEnv(key, env) # {}
      <3>1. PICK i \in 1 .. n : keys[i] = key
        BY <1>2, <2>3
      <3>2. i \in Taken(key, texts, n)
        BY <1>4, <2>3, <3>1 DEF Taken, FromEnv
      <3>3. \A j \in Taken(key, texts, n) : j = i
        BY <1>2, <2>2, <3>1
      <3>4. {Kept(t, key)} = Converted(key, texts[i][2])
        BY <1>5, <1>7, <3>2, <3>3 DEF Stored
      <3> QED
        BY <1>4, <2>3, <3>1, <3>4 DEF FromEnv
    <2>4. CASE ~ (key \in K /\ FromEnv(key, env) # {})
      <3>1. FromEnv(key, env) = {}
        BY <2>1, <2>4 DEF FromEnv
      <3>2. Taken(key, texts, n) = {}
        BY <1>4, <2>2, <3>1 DEF FromEnv, Taken
      <3> QED
        BY <1>5, <1>7, <3>1, <3>2 DEF Stored
    <2> QED
      BY <2>3, <2>4
  <1> QED
    BY <1>3, <1>6, <1>7

\* The texts of a document, for one that is not there none.
TextsOf(doc) == IF doc.node = "absent" THEN <<>> ELSE Leaves(doc)

LEMMA TextsAreSeq ==
  ASSUME NEW doc \in Document, doc.node # "broken"
  PROVE  Len(TextsOf(doc)) \in Nat /\ DOMAIN TextsOf(doc) = 1 .. Len(TextsOf(doc))
  <1>1. CASE doc.node = "absent"
    BY <1>1 DEF TextsOf
  <1>2. CASE doc.node = "document"
    <2> DEFINE n == Len(doc.leaves)
    <2>1. n \in Nat /\ DOMAIN doc.leaves = 1 .. n
      BY <1>2 DEF Document
    <2> HIDE DEF n
    <2>2. DOMAIN Leaves(doc) = 1 .. n
      BY <2>1 DEF Leaves
    <2>3. Len(Leaves(doc)) = n
      BY <2>1 DEF Leaves
    <2> QED
      BY <1>2, <2>1, <2>2, <2>3 DEF TextsOf
  <1> QED
    BY <1>1, <1>2 DEF Document

\* Defaults and handlers are of the same sections and fields.
LEMMA DefaultsOfHandlers ==
  /\ DOMAIN Defaults = DOMAIN Handlers
  /\ Defaults = [section \in DOMAIN Defaults |-> Defaults[section]]
  /\ \A section \in DOMAIN Handlers :
       /\ DOMAIN Defaults[section] = DOMAIN Handlers[section]
       /\ Defaults[section] = [field \in DOMAIN Defaults[section] |-> Defaults[section][field]]
  <1> DEFINE Same(d, h) == DOMAIN d = DOMAIN h /\ d = [field \in DOMAIN d |-> d[field]]
  <1>1. Same(Defaults.server, Handlers.server)
    <2> DEFINE d == Defaults.server
    <2>1. d = [host |-> WordText("127.0.0.1"), port |-> WholeText(8080), max_players |-> WholeText(100),
               tick_rate_ms |-> WholeText(100), client_disconnect_timeout_sec |-> WholeText(10)]
      BY DEF Defaults
    <2>2. DOMAIN Handlers.server = {"host", "port", "max_players", "tick_rate_ms", "client_disconnect_timeout_sec"}
      BY DEF Handlers
    <2> HIDE DEF d
    <2>3. DOMAIN d = {"host", "port", "max_players", "tick_rate_ms", "client_disconnect_timeout_sec"}
      BY <2>1
    <2>4. d = [field \in DOMAIN d |-> d[field]]
      BY <2>1
    <2> QED
      BY <2>2, <2>3, <2>4 DEF d
  <1>2. Same(Defaults.database, Handlers.database)
    <2> DEFINE d == Defaults.database
    <2>1. d = [connection_string |-> WordText(""), pool_size |-> WholeText(10)]
      BY DEF Defaults
    <2>2. DOMAIN Handlers.database = {"connection_string", "pool_size"}
      BY DEF Handlers
    <2> HIDE DEF d
    <2>3. DOMAIN d = {"connection_string", "pool_size"} /\ d = [field \in DOMAIN d |-> d[field]]
      BY <2>1
    <2> QED
      BY <2>2, <2>3 DEF d
  <1>3. Same(Defaults.gameplay, Handlers.gameplay)
    <2> DEFINE d == Defaults.gameplay
               names == {"lobby_max_players", "map_name", "match_duration_sec", "player_default_hp",
                         "monster_default_hp", "monsters_per_player", "default_radius_attack", "default_radius_view",
                         "player_default_attack", "monster_default_attack", "default_map_blc_x",
                         "default_map_blc_y", "default_map_trc_x", "default_map_trc_y"}
    <2>1. d = [lobby_max_players |-> WholeText(4), map_name |-> WordText("test"),
               match_duration_sec |-> WholeText(100), player_default_hp |-> WholeText(100),
               monster_default_hp |-> WholeText(50), monsters_per_player |-> WholeText(3),
               default_radius_attack |-> RealText(2), default_radius_view |-> RealText(4),
               player_default_attack |-> WholeText(10), monster_default_attack |-> WholeText(5),
               default_map_blc_x |-> WholeText(0), default_map_blc_y |-> WholeText(0),
               default_map_trc_x |-> WholeText(60), default_map_trc_y |-> WholeText(30)]
      BY DEF Defaults
    <2>2. DOMAIN Handlers.gameplay = names
      BY DEF Handlers
    <2> HIDE DEF d
    <2>3. DOMAIN d = names
      BY <2>1
    <2>4. d = [field \in DOMAIN d |-> d[field]]
      BY <2>1
    <2> HIDE DEF names
    <2> QED
      BY <2>2, <2>3, <2>4 DEF d
  <1>4. Same(Defaults.logger, Handlers.logger)
    BY DEF Defaults, Handlers
  <1>5. DOMAIN Handlers = {"server", "database", "gameplay", "logger"}
    BY DEF Handlers
  <1>6. DOMAIN Defaults = {"server", "database", "gameplay", "logger"}
    BY DEF Defaults
  <1>7. Defaults = [section \in DOMAIN Defaults |-> Defaults[section]]
    <2> DEFINE server == Defaults.server
               database == Defaults.database
               gameplay == Defaults.gameplay
               logger == Defaults.logger
    <2>1. Defaults = [server |-> server, database |-> database, gameplay |-> gameplay, logger |-> logger]
      BY DEF Defaults
    <2> HIDE DEF server, database, gameplay, logger
    <2> QED
      BY <2>1
  <1> HIDE DEF Defaults, Handlers
  <1> QED
    BY <1>1, <1>2, <1>3, <1>4, <1>5, <1>6, <1>7

\* What a load makes of the defaults.
LEMMA SettingsLoad ==
  ASSUME NEW from, from.doc \in Document, from.doc.node # "broken"
  PROVE  LET texts == TextsOf(from.doc)
             n == Len(texts)
             t == Load([fields |-> Defaults, dynamic |-> <<>>], from)
         IN /\ DOMAIN t.dynamic = {texts[i][1] : i \in 1 .. n} \ KnownKeys
            /\ \A key \in Has(t) :
                 /\ FromEnv(key, from.env) # {} => {Kept(t, key)} = FromEnv(key, from.env)
                 /\ FromEnv(key, from.env) = {} =>
                      \/ Taken(key, texts, n) = {} /\ key \in KnownKeys /\ Kept(t, key) = Defaults[key[1]][key[2]]
                      \/ \E i \in Taken(key, texts, n) :
                           /\ \A j \in Taken(key, texts, n) : j <= i
                           /\ {Kept(t, key)} = Converted(key, texts[i][2])
  <1> DEFINE texts == TextsOf(from.doc)
             n == Len(texts)
             s == [fields |-> Defaults, dynamic |-> <<>>]
             r == StoreAll(s, texts)
             t == Load(s, from)
  <1>1. Shaped(s) /\ DOMAIN s.dynamic = {}
    <2> HIDE DEF Defaults, Handlers
    <2> QED
      BY DefaultsOfHandlers DEF Shaped
  <1>2. n \in Nat
    BY TextsAreSeq
  <1>3. t = OverrideSettings(r, from.env)
    <2>1. s = [s EXCEPT !.dynamic = <<>>]
      OBVIOUS
    <2>2. CASE from.doc.node = "absent"
      <3>1. texts = <<>> /\ Len(texts) = 0
        BY <2>2 DEF TextsOf
      <3>2. r = s
        BY <3>1, StoredOneByOne
      <3> QED
        BY <2>2, <3>2 DEF Load
    <2>3. CASE from.doc.node # "absent"
      BY <2>1, <2>3 DEF Load, FlattenAndStore, TextsOf
    <2> QED
      BY <2>2, <2>3
  <1> HIDE DEF texts, s, t
  <1>4. Stored(s, r, texts, n)
    BY <1>1, <1>2, TextsStored
  <1> HIDE DEF r, n
  <1>5. DOMAIN r.dynamic = {texts[i][1] : i \in 1 .. n} \ KnownKeys
    BY <1>1, <1>4 DEF Stored
  <1>6. IsFiniteSet(DOMAIN r.dynamic)
    <2> DEFINE f == [i \in 1 .. n |-> texts[i][1]]
    <2>1. f \in Surjection(1 .. n, {texts[i][1] : i \in 1 .. n})
      BY DEF Surjection
    <2>2. IsFiniteSet(1 .. n)
      BY <1>2, FS_Interval
    <2>3. IsFiniteSet({texts[i][1] : i \in 1 .. n})
      BY <2>1, <2>2, FS_Surjection
    <2> QED
      BY <1>5, <2>3, FS_Subset
  <1>7. /\ DOMAIN t.dynamic = DOMAIN r.dynamic
        /\ \A key \in Has(t) :
             /\ FromEnv(key, from.env) # {} => {Kept(t, key)} = FromEnv(key, from.env)
             /\ FromEnv(key, from.env) = {} => Kept(t, key) = Kept(r, key)
    BY <1>3, <1>4, <1>6, EnvironmentOverrides DEF Stored
  <1>8. ASSUME NEW key \in Has(t), FromEnv(key, from.env) = {}
        PROVE  \/ Taken(key, texts, n) = {} /\ key \in KnownKeys /\ Kept(t, key) = Defaults[key[1]][key[2]]
               \/ \E i \in Taken(key, texts, n) :
                    /\ \A j \in Taken(key, texts, n) : j <= i
                    /\ {Kept(t, key)} = Converted(key, texts[i][2])
    <2>1. key \in Has(r) /\ Kept(t, key) = Kept(r, key)
      BY <1>7, <1>8 DEF Has
    <2>2. key \in Has(s) => key \in KnownKeys /\ Kept(s, key) = Defaults[key[1]][key[2]]
      BY <1>1 DEF Has, Kept, s
    <2> QED
      BY <1>4, <2>1, <2>2 DEF Stored
  <1> QED
    BY <1>5, <1>7, <1>8 DEF texts, n, t, s

\* What the settings are once they are initialized, and what is still to come.
LayeredInv == sources \in Seq(Sources) /\ SettingsAreLayered

LEMMA LayeredAtFirst ==
  ASSUME Init
  PROVE  LayeredInv
  <1>1. PICK calls \in Seq(Sources) : SettingsInit(calls)
    <2>1. <<>> \in Seq(Sources) /\ Calls \subseteq Seq(Sources)
      BY CallsAssumption
    <2>2. SettingsInit(<<>>) \/ \E calls \in Calls : SettingsInit(calls)
      BY Zenon DEF Init
    <2> QED
      BY <2>1, <2>2
  <1> QED
    BY <1>1 DEF LayeredInv, SettingsAreLayered, SettingsInit

LEMMA InitializeLayers ==
  ASSUME LayeredInv, NEW from \in Sources, Initialize(from)
  PROVE  SettingsAreLayered'
  <1> DEFINE texts == TextsOf(from.doc)
             n == Len(texts)
             t == Load([fields |-> Defaults, dynamic |-> <<>>], from)
  <1>1. from.doc \in Document /\ from.doc.node # "broken"
    BY CallsAssumption DEF Initialize
  <1>2. n \in Nat /\ DOMAIN texts = 1 .. n
    BY <1>1, TextsAreSeq
  <1>3. fields' = t.fields /\ dynamic' = t.dynamic /\ source' = from
    BY DEF Initialize
  <1>4. /\ DOMAIN t.dynamic = {texts[i][1] : i \in 1 .. n} \ KnownKeys
        /\ \A key \in Has(t) :
             /\ FromEnv(key, from.env) # {} => {Kept(t, key)} = FromEnv(key, from.env)
             /\ FromEnv(key, from.env) = {} =>
                  \/ Taken(key, texts, n) = {} /\ key \in KnownKeys /\ Kept(t, key) = Defaults[key[1]][key[2]]
                  \/ \E i \in Taken(key, texts, n) :
                       /\ \A j \in Taken(key, texts, n) : j <= i
                       /\ {Kept(t, key)} = Converted(key, texts[i][2])
    BY <1>1, SettingsLoad
  <1> HIDE DEF texts, n, t
  <1>5. ASSUME NEW key \in Has(t), NEW known \in BOOLEAN, known <=> key \in KnownKeys
        PROVE  Kept(t, key) \in Layered(key, known, texts)'
    <2> DEFINE T == Taken(key, texts, n)
               O == {i \in 1 .. n : texts[i][1] = key}
               v == Kept(t, key)
               default == IF known THEN {Defaults[key[1]][key[2]]} ELSE {}
               named == EnvName(key) \in DOMAIN from.env
               highest == IF named THEN Converted(key, from.env[EnvName(key)])
                          ELSE IF O # {} THEN Converted(key, texts[Max(O)][2])
                          ELSE default
               lower == IF T # {} THEN Converted(key, texts[Max(T)][2]) ELSE {}
    <2>1. Layered(key, known, texts)' = IF highest # {} THEN highest ELSE default \cup lower
      <3> DEFINE D == {i \in DOMAIN texts : texts[i][1] = key}
      <3>1. O = D
        BY <1>2
      <3>2. T = {i \in D : Converted(key, texts[i][2]) # {}}
        BY <3>1 DEF Taken
      <3> QED
        BY <1>3, <1>5, <3>1, <3>2 DEF Layered, Converted
    <2>2. T \subseteq O /\ O \subseteq 1 .. n /\ T = {i \in O : Converted(key, texts[i][2]) # {}}
      BY DEF Taken
    <2> SUFFICES v \in Layered(key, known, texts)'
      OBVIOUS
    <2>11. T = Taken(key, texts, n)
      OBVIOUS
    <2> HIDE DEF T, O
    <2>3. ASSUME NEW S \in SUBSET O, NEW i \in S, \A j \in S : j <= i
          PROVE  Max(S) = i
      <3>1. S \subseteq Nat /\ S # {} /\ \A j \in S : j <= n
        BY <1>2, <2>2
      <3>2. Max(S) \in S /\ \A j \in S : j <= Max(S)
        BY <1>2, <3>1, GreatestIsThere
      <3>3. Max(S) \in Nat /\ i \in Nat /\ Max(S) <= i /\ i <= Max(S)
        BY <2>3, <3>1, <3>2
      <3> HIDE DEF v, default, named, highest, lower
      <3> QED
        BY <3>3
    <2>4. O # {} => Max(O) \in O /\ \A j \in O : j <= Max(O)
      <3>1. O \subseteq Nat /\ \A j \in O : j <= n
        BY <1>2, <2>2
      <3> QED
        BY <1>2, <3>1, GreatestIsThere
    <2>5. FromEnv(key, from.env) = IF named THEN Converted(key, from.env[EnvName(key)]) ELSE {}
      BY DEF FromEnv
    <2>6. FromEnv(key, from.env) # {} => {v} = FromEnv(key, from.env)
      BY <1>4
    <2>7. FromEnv(key, from.env) = {} =>
            \/ T = {} /\ default = {v}
            \/ T # {} /\ {v} = Converted(key, texts[Max(T)][2])
      <3> SUFFICES ASSUME FromEnv(key, from.env) = {}
                   PROVE  \/ T = {} /\ default = {v}
                          \/ T # {} /\ {v} = Converted(key, texts[Max(T)][2])
        OBVIOUS
      <3>1. CASE T = {} /\ key \in KnownKeys /\ v = Defaults[key[1]][key[2]]
        BY <1>5, <3>1
      <3>2. ASSUME NEW i \in T, \A j \in T : j <= i, {v} = Converted(key, texts[i][2])
            PROVE  T # {} /\ {v} = Converted(key, texts[Max(T)][2])
        BY <2>2, <2>3, <3>2
      <3> QED
        BY <1>4, <2>11, <3>1, <3>2
    <2> HIDE DEF v, default, named
    <2>8. CASE named
      BY <2>1, <2>5, <2>6, <2>7, <2>8
    <2>9. CASE ~named /\ O = {}
      BY <2>1, <2>2, <2>5, <2>7, <2>9
    <2>10. CASE ~named /\ O # {}
      <3>1. CASE highest = {}
        BY <2>1, <2>5, <2>7, <2>10, <3>1
      <3>2. CASE highest # {}
        <4>1. Max(O) \in T /\ \A j \in T : j <= Max(O)
          BY <2>2, <2>4, <2>10, <3>2
        <4>2. Max(T) = Max(O)
          BY <2>2, <2>3, <4>1
        <4> QED
          BY <2>1, <2>5, <2>7, <2>10, <3>2, <4>1, <4>2
      <3> QED
        BY <3>1, <3>2
    <2> QED
      BY <2>8, <2>9, <2>10
  <1>6. \A key \in KnownKeys : fields'[key[1]][key[2]] \in Layered(key, TRUE, texts)'
    BY <1>3, <1>5 DEF Has, Kept
  <1>7. \A key \in DOMAIN dynamic' : dynamic'[key] \in Layered(key, FALSE, texts)'
    <2> SUFFICES ASSUME NEW key \in DOMAIN dynamic'
                 PROVE  dynamic'[key] \in Layered(key, FALSE, texts)'
      OBVIOUS
    <2>1. key \in Has(t) /\ key \notin KnownKeys /\ Kept(t, key) = dynamic'[key]
      BY <1>3, <1>4 DEF Has, Kept
    <2> QED
      BY <1>5, <2>1
  <1>8. {texts[i][1] : i \in DOMAIN texts} \ KnownKeys = DOMAIN dynamic'
    BY <1>2, <1>3, <1>4
  <1>9. source'.doc.node # "broken" /\ texts = IF source'.doc.node = "absent" THEN <<>> ELSE Leaves(source'.doc)
    BY <1>1, <1>3 DEF TextsOf, texts
  <1> QED
    BY <1>6, <1>7, <1>8, <1>9 DEF SettingsAreLayered

LEMMA LayersStay ==
  ASSUME LayeredInv, sources' \in Seq(Sources), UNCHANGED <<initialized, fields, dynamic, source>>
  PROVE  LayeredInv'
  <1>1. ASSUME NEW key, NEW known, NEW leaves
        PROVE  Layered(key, known, leaves)' = Layered(key, known, leaves)
    BY DEF Layered
  <1> QED
    BY <1>1 DEF LayeredInv, SettingsAreLayered

LEMMA LayeredStep ==
  ASSUME LayeredInv, [Next]_vars
  PROVE  LayeredInv'
  <1>1. CASE UNCHANGED settingsVars
    BY <1>1, LayersStay DEF settingsVars, LayeredInv
  <1>2. CASE InitializeSettings
    <2>1. PICK from \in {sources[i] : i \in DOMAIN sources} :
                 Call(from) /\ (Initialize(from) \/ InitializeThrows(from) \/ InitializeAgain)
      BY <1>2 DEF InitializeSettings
    <2>2. sources' \in Seq(Sources) /\ from \in Sources
      BY <2>1 DEF Call, LayeredInv
    <2>3. CASE Initialize(from)
      BY <2>2, <2>3, InitializeLayers DEF LayeredInv
    <2>4. CASE InitializeThrows(from)
      BY <2>2, <2>4 DEF InitializeThrows, LayeredInv, SettingsAreLayered
    <2>5. CASE InitializeAgain
      BY <2>2, <2>5, LayersStay DEF InitializeAgain
    <2> QED
      BY <2>1, <2>3, <2>4, <2>5
  <1> QED
    BY <1>1, <1>2 DEF Next, vars

(***************************************************************************)
(* Once the settings are initialized, each is what the highest layer that  *)
(* names it says: its variable, the last leaf of the document, the         *)
(* default.  If that text does not convert, it is the default or what the  *)
(* document's last leaf that converts says.  And the document's unknown    *)
(* keys are all there and no others (config.cpp:124-296), whatever the     *)
(* document, the variables, the spelling of keys and the widths.           *)
(***************************************************************************)
THEOREM SettingsStayLayered == Spec => []SettingsAreLayered
  <1>1. Init => LayeredInv
    BY LayeredAtFirst
  <1>2. LayeredInv /\ [Next]_vars => LayeredInv'
    BY LayeredStep
  <1>3. LayeredInv => SettingsAreLayered
    BY DEF LayeredInv
  <1> QED
    BY <1>1, <1>2, <1>3, PTL DEF Spec

-----------------------------------------------------------------------------
(* The programs and the parts in one specification *)

LEMMA ServerAlone ==
  ASSUME ServerStep
  PROVE  process = "server"
  BY DEF ServerStep, ServerNext, ServerLeaves, ServerReturns, TimerExpires, TimerFails, PublishTick,
         RescheduleAnyway, AcceptClient, AcceptFails, CloseSession, LastSessionHandler, PostEvent,
         RunPosted, StopServer, Handling, Serving

LEMMA ClientAlone ==
  ASSUME ClientStep
  PROVE  process = "client"
  BY DEF ClientStep, ClientNext, RunReturns, ClientLeaves, ClientReturns, SignalComes, Interrupt,
         HandlerEnds, HandlerThrows, Running

\* A part alone has no main.
PartAlone == process \notin {"server", "client"} /\ at = "starting" /\ late = {}

ProgramsInv ==
  \/ ServerInvariant /\ ~terminal.raw
  \/ ClientInvariant
  \/ PartAlone

LEMMA ProgramsStart == Init => ProgramsInv
  <1> SUFFICES ASSUME Init PROVE ProgramsInv
    OBVIOUS
  <1>1. CASE ServerInit /\ LoggerInit /\ terminal = [is_tty |-> FALSE, raw |-> FALSE]
    BY <1>1, ServerStarts DEF ProgramsInv
  <1>2. CASE ClientInit /\ LoggerInit
    BY <1>2, ClientStarts DEF ProgramsInv
  <1>3. CASE \E name \in {"settings", "stdin", "keyboard"} : NoProgram(name)
    BY <1>3 DEF ProgramsInv, PartAlone, NoProgram, LifetimesInit
  <1> QED
    BY <1>1, <1>2, <1>3 DEF Init

LEMMA ProgramsGoOn == ProgramsInv /\ [Next]_vars => ProgramsInv'
  <1> SUFFICES ASSUME ProgramsInv, [Next]_vars PROVE ProgramsInv'
    OBVIOUS
  <1>1. CASE ServerStep /\ UNCHANGED <<guardVars, signalled>>
    <2>1. ServerInvariant /\ ~terminal.raw
      BY <1>1, ServerAlone DEF ProgramsInv, PartAlone, ClientInvariant, ClientControl
    <2> QED
      BY <1>1, <2>1, ServerStays DEF ProgramsInv, guardVars
  <1>2. CASE ClientStep
    <2>1. ClientInvariant
      BY <1>2, ClientAlone DEF ProgramsInv, PartAlone, ServerInvariant, ServerControl
    <2> QED
      BY <1>2, <2>1, ClientStays DEF ProgramsInv
  <1>3. CASE UNCHANGED programVars
    <2>1. UNCHANGED <<serverVars, clientVars, lifeVars, terminal>>
      BY <1>3 DEF programVars, serverVars, clientVars, guardVars
    <2>2. CASE ServerInvariant /\ ~terminal.raw
      BY <2>1, <2>2, ServerStays DEF ProgramsInv
    <2>3. CASE ClientInvariant
      BY <2>1, <2>3, ClientStays DEF ProgramsInv
    <2>4. CASE PartAlone
      BY <2>1, <2>4 DEF ProgramsInv, PartAlone, lifeVars
    <2> QED
      BY <2>2, <2>3, <2>4 DEF ProgramsInv
  <1> QED
    BY <1>1, <1>2, <1>3 DEF Next, vars

\* Whichever program runs, and however it ends, nothing that uses an
\* io_context's services is destroyed after it (server/main.cpp:26-97,
\* client/main.cpp:16-88).
THEOREM IoIsOutlived == Spec => []IoOutlivesItsUsers
  <1>1. ProgramsInv => IoOutlivesItsUsers
    BY DEF ProgramsInv, PartAlone, ServerInvariant, ServerHolders, ClientInvariant, ClientHolders,
           IoOutlivesItsUsers
  <1> QED
    BY <1>1, ProgramsStart, ProgramsGoOn, PTL DEF Spec

\* The same among the behaviours of all the programs and parts: whatever else
\* they do, a client that has ended leaves a terminal that echoes and, if nothing
\* threw, a whole log (client/main.cpp:16-88, terminal_guard.h:34-55,
\* logger.cpp:149-180).
THEOREM AllLeaveInOrder == Spec => []LeavesInOrder
  <1>1. ASSUME ServerInvariant, ~terminal.raw
        PROVE  LeavesInOrder
    BY <1>1 DEF ServerInvariant, ServerControl, LeavesInOrder
  <1>2. ASSUME ClientInvariant
        PROVE  LeavesInOrder
    BY <1>2, ClientHasLeft DEF LeavesInOrder
  <1>3. ASSUME PartAlone
        PROVE  LeavesInOrder
    BY <1>3 DEF PartAlone, LeavesInOrder
  <1>4. ProgramsInv => LeavesInOrder
    BY <1>1, <1>2, <1>3 DEF ProgramsInv
  <1> QED
    BY <1>4, ProgramsStart, ProgramsGoOn, PTL DEF Spec

\* Whatever is typed, and whichever keys are held at the polls, is handed over
\* once, whatever else the readers' program does (stdin_reader.h:73-103,
\* keyboard_reader.cpp:113-151).
THEOREM AllInputIsHanded == Spec => []InputIsHanded
  <1> DEFINE IInv == LinesAreHanded /\ KeysAreHanded
  <1>1. ASSUME Init
        PROVE  IInv
    <2>1. PICK text \in Seq(STRING) : StdinInit(text)
      <3>1. (\E text \in Typed : StdinInit(text)) \/ StdinInit(<<>>)
        BY <1>1 DEF Init
      <3>2. <<>> \in Seq(STRING)
        OBVIOUS
      <3> QED
        BY <3>1, <3>2, InputAssumption
    <2>2. NoKeyboard \/ KeyboardInit
      BY <1>1 DEF Init
    <2>3. /\ key_code_map \subseteq Range(kKeys) /\ down = {} /\ prev_state = {}
          /\ presses = <<>> /\ polls = <<>>
      BY <2>2 DEF NoKeyboard, KeyboardInit
    <2>4. KeysAreHanded
      BY <2>3 DEF KeysAreHanded
    <2> QED
      BY <2>1, <2>4, LinesStart
  <1>2. ASSUME IInv, [Next]_vars
        PROVE  IInv'
    <2>1. CASE UNCHANGED inputVars
      BY <1>2, <2>1, InputRests
    <2>2. CASE StdinNext \/ KeyboardNext
      BY <1>2, <2>2, LinesGoOn, KeysGoOn
    <2> QED
      BY <1>2, <2>1, <2>2 DEF Next, vars
  <1>3. IInv => InputIsHanded
    BY HandedOver
  <1> HIDE DEF IInv
  <1> QED
    BY <1>1, <1>2, <1>3, PTL DEF Spec

=============================================================================
