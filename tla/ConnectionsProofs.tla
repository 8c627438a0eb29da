-------------------------- MODULE ConnectionsProofs --------------------------
(***************************************************************************)
(* Proofs about Connections, for any number of players and connections:    *)
(* Inductive is preserved by every step, and the action properties follow  *)
(* from it; what the claims are told also needs DecidedTruly, about the    *)
(* time between a decision and its sending.                                *)
(***************************************************************************)
EXTENDS Connections, TLAPS

\* The history variables that count stay numbers, and so on: what the steps
\* below need of the types, with the bounds of the ids spelt out.
LEMMA TypeFacts ==
  ASSUME TypeOK
  PROVE /\ nextSessionId \in Nat \ {0}
        /\ \A s \in SessionId : s \in Nat /\ s # NoSession
        /\ \A p \in Player : p # NoPlayer /\ playerToSession[p] \in Nat
  BY PlayersAssumption, SessionsBoundAssumption
  DEF TypeOK, SessionRegistryTypeOK, SessionId, NoSession

LEMMA InitInductive == Init => Inductive
  <1> SUFFICES ASSUME Init PROVE Inductive
    OBVIOUS
  <1>1. TypeOK
    BY SessionsBoundAssumption
    DEF Init, SessionRegistryInit, ConnectionManagerInit, TypeOK, SessionRegistryTypeOK,
        ConnectionManagerTypeOK
  <1>2. BoundAreRegistered /\ MapsInverseUnlessContested
    BY PlayersAssumption DEF Init, SessionRegistryInit, BoundAreRegistered, MapsInverseUnlessContested,
                             SessionId, NoSession
  <1>3. OneReconnectPerDrop /\ AskedUnderOwnName /\ EntryIsCredit
    BY DEF Init, ConnectionManagerInit, OneReconnectPerDrop, AskedUnderOwnName, EntryIsCredit
  <1>4. StartingIsUnknown
    BY DEF Init, SessionRegistryInit, StartingIsUnknown, NoSession
  <1> QED
    BY <1>1, <1>2, <1>3, <1>4 DEF Inductive

----------------------------------------------------------------------------
(* The registry's calls *)

\* A successful bind of p to s.  A clash makes p contested; without one both
\* entries are set or both were set already.
LEMMA BindKeeps ==
  ASSUME Inductive, NEW p \in Player, NEW s \in SessionId,
         s \in sessions, state[s] = "Connected",
         BindPlayerToSession(p, s), Claim(p, s), UNCHANGED <<state, nextSessionId, starting, asked>>
  PROVE /\ SessionRegistryTypeOK' /\ contested' \subseteq Player
        /\ BoundAreRegistered'
        /\ MapsInverseUnlessContested'
        /\ StartingIsUnknown'
        /\ AskedUnderOwnName'
        /\ \A t \in SessionId : sessionToPlayer[t] # NoPlayer => sessionToPlayer'[t] = sessionToPlayer[t]
  <1> USE TypeFacts DEF Inductive
  <1>1. /\ \A q \in Player : playerToSession'[q] =
             IF q = p /\ playerToSession[p] = NoSession THEN s ELSE playerToSession[q]
        /\ \A t \in SessionId : sessionToPlayer'[t] =
             IF t = s /\ sessionToPlayer[s] = NoPlayer THEN p ELSE sessionToPlayer[t]
        /\ sessions' = sessions
    BY DEF BindPlayerToSession, TypeOK, SessionRegistryTypeOK
  <1>2. SessionRegistryTypeOK' /\ contested' \subseteq Player
    BY DEF BindPlayerToSession, Claim, TypeOK, SessionRegistryTypeOK
  <1>3. BoundAreRegistered'
    BY <1>1 DEF BoundAreRegistered, TypeOK, SessionRegistryTypeOK
  <1>4. MapsInverseUnlessContested'
    <2> SUFFICES ASSUME NEW q \in Player \ contested', NEW t \in SessionId
                 PROVE playerToSession'[q] = t <=> sessionToPlayer'[t] = q
      BY DEF MapsInverseUnlessContested
    <2>1. /\ q \notin contested
          /\ \A u \in SessionId : playerToSession[q] = u <=> sessionToPlayer[u] = q
      BY DEF Claim, MapsInverseUnlessContested
    <2>2. CASE q = p
      <3>1. ~Clash(p, s)
        BY <2>2 DEF Claim, CanBind
      <3>2. /\ \A u \in SessionId \ {s} : sessionToPlayer[u] # p
            /\ sessionToPlayer[s] \in {NoPlayer, p}
        BY <3>1 DEF Clash
      <3>3. CASE sessionToPlayer[s] = p
        BY <1>1, <2>1, <2>2, <3>2, <3>3
      <3>4. CASE sessionToPlayer[s] = NoPlayer
        <4>1. playerToSession[p] = NoSession
          BY <2>1, <2>2, <3>2, <3>4 DEF TypeOK, SessionRegistryTypeOK
        <4> QED
          BY <1>1, <2>2, <3>2, <3>4, <4>1
      <3> QED
        BY <3>2, <3>3, <3>4
    <2>3. CASE q # p
      BY <1>1, <2>1, <2>3
    <2> QED
      BY <2>2, <2>3
  <1>5. StartingIsUnknown'
    BY <1>1 DEF StartingIsUnknown, TypeOK, SessionRegistryTypeOK
  <1>6. \A t \in SessionId : sessionToPlayer[t] # NoPlayer => sessionToPlayer'[t] = sessionToPlayer[t]
    BY <1>1
  <1>7. AskedUnderOwnName'
    BY <1>6 DEF AskedUnderOwnName, TypeOK
  <1> QED
    BY <1>2, <1>3, <1>4, <1>5, <1>6, <1>7

\* Losing s, registered or not.
LEMMA DisconnectKeeps ==
  ASSUME Inductive, NEW s \in SessionId, Disconnect(s)
  PROVE Inductive'
  <1> USE TypeFacts DEF Inductive
  <1> DEFINE q == sessionToPlayer[s]
  <1>1. /\ state[s] = "Connected"
        /\ state' = [state EXCEPT ![s] = "Disconnected"]
        /\ disconnected' = [p \in Player |-> IF p = q THEN "waiting" ELSE disconnected[p]]
        /\ drops' = [p \in Player |-> IF p = q THEN drops[p] + 1 ELSE drops[p]]
        /\ sent' = NothingSent /\ RemoveSession(s)
        /\ UNCHANGED <<nextSessionId, starting, strand, asked, contested, reconnects>>
    BY DEF Disconnect, Ready, HandleClientDisconnected
  <1>2. /\ sessions' = sessions \ {s}
        /\ \A p \in Player : playerToSession'[p] = IF p = q THEN NoSession ELSE playerToSession[p]
        /\ \A t \in SessionId : sessionToPlayer'[t] = IF t = s THEN NoPlayer ELSE sessionToPlayer[t]
        /\ SessionRegistryTypeOK'
    <2>1. CASE s \in sessions
      BY <1>1, <2>1 DEF RemoveSession, TypeOK, SessionRegistryTypeOK
    <2>2. CASE s \notin sessions
      <3>1. q = NoPlayer
        BY <2>2 DEF BoundAreRegistered
      <3> QED
        BY <1>1, <2>2, <3>1 DEF RemoveSession, TypeOK, SessionRegistryTypeOK
    <2> QED
      BY <2>1, <2>2
  <1>3. TypeOK'
    <2>1. ConnectionManagerTypeOK' /\ drops' \in [Player -> Nat]
      BY <1>1 DEF TypeOK, ConnectionManagerTypeOK
    <2>2. state' \in [SessionId -> {"none", "Connected", "Disconnected"}]
      BY <1>1 DEF TypeOK
    <2> QED
      BY <1>1, <1>2, <2>1, <2>2 DEF TypeOK
  <1>4. BoundAreRegistered'
    <2>1. \A t \in SessionId : sessionToPlayer'[t] # NoPlayer => t \in sessions' /\ state'[t] = "Connected"
      BY <1>1, <1>2 DEF BoundAreRegistered, TypeOK
    <2>2. \A p \in Player : playerToSession'[p] \in sessions' =>
            sessionToPlayer'[playerToSession'[p]] # NoPlayer
      <3> SUFFICES ASSUME NEW p \in Player, playerToSession'[p] \in sessions'
                   PROVE sessionToPlayer'[playerToSession'[p]] # NoPlayer
        OBVIOUS
      <3>1. NoSession \notin sessions
        BY DEF TypeOK, SessionRegistryTypeOK
      <3>2. p # q /\ playerToSession'[p] = playerToSession[p] /\ playerToSession[p] # s
        BY <1>2, <3>1
      <3> QED
        BY <1>2, <3>2 DEF BoundAreRegistered, TypeOK, SessionRegistryTypeOK
    <2> QED
      BY <2>1, <2>2 DEF BoundAreRegistered
  <1>5. MapsInverseUnlessContested'
    <2> SUFFICES ASSUME NEW p \in Player \ contested, NEW t \in SessionId
                 PROVE playerToSession'[p] = t <=> sessionToPlayer'[t] = p
      BY <1>1 DEF MapsInverseUnlessContested
    <2>1. \A u \in SessionId : playerToSession[p] = u <=> sessionToPlayer[u] = p
      BY DEF MapsInverseUnlessContested
    <2> QED
      BY <1>2, <2>1
  <1>6. OneReconnectPerDrop' /\ EntryIsCredit'
    BY <1>1 DEF OneReconnectPerDrop, EntryIsCredit, TypeOK
  <1>7. StartingIsUnknown'
    <2>1. \A t \in SessionId : t >= nextSessionId => t # s
      BY <1>1 DEF StartingIsUnknown
    <2>2. \A t \in SessionId : t >= nextSessionId => state'[t] = "none" /\ t \notin sessions'
      BY <1>1, <1>2, <2>1 DEF StartingIsUnknown, TypeOK
    <2>3. \A p \in Player : /\ playerToSession'[p] < nextSessionId
                            /\ playerToSession'[p] # NoSession => playerToSession'[p] # starting
      BY <1>2 DEF StartingIsUnknown, NoSession
    <2>4. starting < nextSessionId /\ starting \notin sessions'
      BY <1>2 DEF StartingIsUnknown
    <2> QED
      BY <1>1, <2>2, <2>3, <2>4 DEF StartingIsUnknown
  <1>8. AskedUnderOwnName'
    BY <1>1, <1>2 DEF AskedUnderOwnName, TypeOK
  <1> QED
    BY <1>3, <1>4, <1>5, <1>6, <1>7, <1>8

----------------------------------------------------------------------------
(* Accepting and registering *)

LEMMA AcceptKeeps ==
  ASSUME Inductive, Accept
  PROVE Inductive'
  <1> USE TypeFacts DEF Inductive
  <1> DEFINE n == nextSessionId
  <1>1. /\ n \in SessionId /\ starting = NoSession
        /\ nextSessionId' = n + 1 /\ starting' = n /\ sent' = NothingSent
        /\ state' = [state EXCEPT ![n] = "Connected"]
        /\ UNCHANGED <<sessions, playerToSession, sessionToPlayer, disconnected, strand, asked,
                       contested, drops, reconnects>>
    BY DEF Accept, sessionRegistry, historyVars
  <1>2. n \notin sessions /\ state[n] = "none"
    BY <1>1 DEF StartingIsUnknown
  <1>3. TypeOK'
    BY <1>1, SessionsBoundAssumption
    DEF TypeOK, SessionRegistryTypeOK, ConnectionManagerTypeOK, SessionId
  <1>4. BoundAreRegistered' /\ MapsInverseUnlessContested'
    BY <1>1, <1>2 DEF BoundAreRegistered, MapsInverseUnlessContested, TypeOK
  <1>5. OneReconnectPerDrop' /\ EntryIsCredit'
    BY <1>1 DEF OneReconnectPerDrop, EntryIsCredit
  <1>6. StartingIsUnknown'
    BY <1>1, <1>2 DEF StartingIsUnknown, TypeOK
  <1>7. AskedUnderOwnName'
    <2>1. \A r \in asked : r.session \in SessionId /\ r.session < n /\ state'[r.session] = state[r.session]
      BY <1>1 DEF AskedUnderOwnName, TypeOK
    <2> QED
      BY <1>1, <2>1 DEF AskedUnderOwnName
  <1> QED
    BY <1>3, <1>4, <1>5, <1>6, <1>7

LEMMA RegisterKeeps ==
  ASSUME Inductive, Register
  PROVE Inductive'
  <1> USE TypeFacts DEF Inductive
  <1> DEFINE s == starting
  <1>1. /\ s \in SessionId /\ starting' = NoSession /\ sent' = NothingSent
        /\ sessions' = sessions \cup {s}
        /\ UNCHANGED <<playerToSession, sessionToPlayer, disconnected, nextSessionId, state, strand, asked,
                       contested, drops, reconnects>>
    BY DEF Register, HandleClientConnected, AddSession, historyVars, TypeOK
  <1>2. TypeOK'
    BY <1>1 DEF TypeOK, SessionRegistryTypeOK, ConnectionManagerTypeOK
  <1>3. BoundAreRegistered'
    BY <1>1 DEF BoundAreRegistered, StartingIsUnknown
  <1>4. MapsInverseUnlessContested' /\ OneReconnectPerDrop' /\ EntryIsCredit' /\ AskedUnderOwnName'
    BY <1>1 DEF MapsInverseUnlessContested, OneReconnectPerDrop, EntryIsCredit, AskedUnderOwnName
  <1>5. StartingIsUnknown'
    <2>1. NoSession < nextSessionId /\ NoSession \notin sessions'
      BY <1>1 DEF TypeOK, SessionRegistryTypeOK, NoSession
    <2> QED
      BY <1>1, <2>1 DEF StartingIsUnknown
  <1> QED
    BY <1>2, <1>3, <1>4, <1>5

----------------------------------------------------------------------------
(* What a session's strand receives and sends *)

\* The strand has decided on a reply; the registry's calls are dealt with above.
LEMMA DecideTyped ==
  ASSUME TypeOK, NEW p \in Player, NEW s \in SessionId, NEW reply \in Replies, Decide(s, reply, p)
  PROVE strand' \in [SessionId -> [reply : Replies, player : Player] \cup {Idle}]
  BY DEF Decide, TypeOK

LEMMA ReceiveJoinKeeps ==
  ASSUME Inductive, NEW p \in Player, NEW s \in SessionId, ReceiveJoin(p, s)
  PROVE Inductive'
  <1> USE DEF Inductive
  <1>1. /\ state[s] = "Connected" /\ sent' = NothingSent /\ Claim(p, s)
        /\ UNCHANGED <<disconnected, nextSessionId, starting, state, asked, drops, reconnects>>
    BY DEF ReceiveJoin, Ready, HandlePlayerAuthRequested
  <1>2. strand' \in [SessionId -> [reply : Replies, player : Player] \cup {Idle}]
    <2>1. PICK reply \in Replies : Decide(s, reply, p)
      BY DEF ReceiveJoin, Replies
    <2> QED
      BY <2>1, DecideTyped
  <1>3. OneReconnectPerDrop' /\ EntryIsCredit'
    BY <1>1 DEF OneReconnectPerDrop, EntryIsCredit
  <1>4. CASE s \in sessions
    <2>1. BindPlayerToSession(p, s)
      BY <1>4 DEF ReceiveJoin, HandlePlayerAuthRequested, CanBind
    <2>2. /\ SessionRegistryTypeOK' /\ contested' \subseteq Player
          /\ BoundAreRegistered' /\ MapsInverseUnlessContested'
          /\ StartingIsUnknown' /\ AskedUnderOwnName'
      BY <1>1, <1>4, <2>1, BindKeeps
    <2>3. TypeOK'
      BY <1>1, <1>2, <2>2 DEF TypeOK, ConnectionManagerTypeOK
    <2> QED
      BY <1>3, <2>2, <2>3
  <1>5. CASE s \notin sessions
    <2>1. UNCHANGED sessionRegistry /\ contested' = contested
      BY <1>1, <1>5 DEF ReceiveJoin, HandlePlayerAuthRequested, CanBind, Claim
    <2>2. TypeOK'
      BY <1>1, <1>2, <2>1 DEF TypeOK, SessionRegistryTypeOK, ConnectionManagerTypeOK, sessionRegistry
    <2> QED
      BY <1>1, <1>3, <2>1, <2>2
      DEF sessionRegistry, BoundAreRegistered, MapsInverseUnlessContested, StartingIsUnknown, AskedUnderOwnName
  <1> QED
    BY <1>4, <1>5

LEMMA ReceiveReconnectKeeps ==
  ASSUME Inductive, NEW p \in Player, NEW s \in SessionId, ReceiveReconnect(p, s)
  PROVE Inductive'
  <1> USE DEF Inductive
  <1>1. /\ state[s] = "Connected" /\ sent' = NothingSent
        /\ disconnected' = [disconnected EXCEPT ![p] = "none"]
        /\ UNCHANGED <<nextSessionId, starting, state, asked, drops>>
    BY DEF ReceiveReconnect, Ready, HandlePlayerReconnectRequested
  <1>2. strand' \in [SessionId -> [reply : Replies, player : Player] \cup {Idle}]
    <2>1. PICK reply \in Replies : Decide(s, reply, p)
      BY DEF ReceiveReconnect, Replies
    <2> QED
      BY <2>1, DecideTyped
  <1>3. ConnectionManagerTypeOK'
    BY <1>1 DEF TypeOK, ConnectionManagerTypeOK
  <1>4. CASE CanReconnect(p, s)
    <2>1. /\ s \in sessions /\ disconnected[p] = "waiting"
          /\ BindPlayerToSession(p, s) /\ Claim(p, s)
          /\ reconnects' = [reconnects EXCEPT ![p] = @ + 1]
      BY <1>4 DEF ReceiveReconnect, HandlePlayerReconnectRequested, CanReconnect, CanBind
    <2>2. /\ SessionRegistryTypeOK' /\ contested' \subseteq Player
          /\ BoundAreRegistered' /\ MapsInverseUnlessContested'
          /\ StartingIsUnknown' /\ AskedUnderOwnName'
      BY <1>1, <2>1, BindKeeps
    <2>3. TypeOK'
      BY <1>1, <1>2, <1>3, <2>1, <2>2 DEF TypeOK
    <2>4. OneReconnectPerDrop' /\ EntryIsCredit'
      BY <1>1, <2>1 DEF OneReconnectPerDrop, EntryIsCredit, TypeOK, ConnectionManagerTypeOK
    <2> QED
      BY <2>2, <2>3, <2>4
  <1>5. CASE ~CanReconnect(p, s)
    <2>1. UNCHANGED sessionRegistry /\ UNCHANGED <<contested, reconnects>>
      BY <1>5 DEF ReceiveReconnect, HandlePlayerReconnectRequested
    <2>2. TypeOK'
      BY <1>1, <1>2, <1>3, <2>1 DEF TypeOK, SessionRegistryTypeOK, sessionRegistry
    <2>3. OneReconnectPerDrop' /\ EntryIsCredit'
      BY <1>1, <2>1 DEF OneReconnectPerDrop, EntryIsCredit, TypeOK, ConnectionManagerTypeOK
    <2> QED
      BY <1>1, <2>1, <2>2, <2>3
      DEF sessionRegistry, BoundAreRegistered, MapsInverseUnlessContested, StartingIsUnknown, AskedUnderOwnName
  <1> QED
    BY <1>4, <1>5

\* Steps that touch neither the registry nor the connections.
LEMMA QuietKeeps ==
  ASSUME Inductive, UNCHANGED <<sessionRegistry, nextSessionId, starting, state, historyVars>>,
         ConnectionManagerTypeOK',
         strand' \in [SessionId -> [reply : Replies, player : Player] \cup {Idle}],
         sent' \in [to : SessionId, reply : Replies \cup {"Answer"}, player : Player] \cup {NothingSent},
         \A r \in asked' : \/ r \in asked
                           \/ /\ r \in [player : Player, session : SessionId]
                              /\ r.session < nextSessionId /\ sessionToPlayer[r.session] = r.player,
         \A p \in Player : disconnected[p] = "none" => disconnected'[p] = "none"
  PROVE Inductive'
  <1> USE DEF Inductive, sessionRegistry, historyVars
  <1>1. TypeOK'
    BY DEF TypeOK, SessionRegistryTypeOK
  <1>2. AskedUnderOwnName'
    BY DEF AskedUnderOwnName
  <1>3. EntryIsCredit' /\ OneReconnectPerDrop'
    BY DEF EntryIsCredit, OneReconnectPerDrop
  <1> QED
    BY <1>1, <1>2, <1>3 DEF BoundAreRegistered, MapsInverseUnlessContested, StartingIsUnknown

LEMMA LateReconnectFacts ==
  ASSUME NEW p \in Player, NEW s \in SessionId, ReceiveLateReconnect(p, s)
  PROVE /\ UNCHANGED sessionRegistry
        /\ disconnected' = [disconnected EXCEPT ![p] = "none"]
  BY DEF ReceiveLateReconnect, HandlePlayerReconnectRequested, CanReconnect, CanBind

LEMMA LateReconnectKeeps ==
  ASSUME Inductive, NEW p \in Player, NEW s \in SessionId, ReceiveLateReconnect(p, s)
  PROVE Inductive'
  <1>1. /\ ConnectionManagerTypeOK'
        /\ \A q \in Player : disconnected[q] = "none" => disconnected'[q] = "none"
    BY LateReconnectFacts DEF Inductive, TypeOK, ConnectionManagerTypeOK
  <1> QED
    BY <1>1, LateReconnectFacts, QuietKeeps DEF ReceiveLateReconnect, Inductive, TypeOK

LEMMA QuietStepsKeep ==
  ASSUME Inductive, NEW s \in SessionId, NEW p \in Player,
         ReceiveRequest(s) \/ SendReply(s) \/ AnswerRequest \/ TimePasses(p)
  PROVE Inductive'
  <1> USE DEF Inductive, TypeOK, ConnectionManagerTypeOK
  <1>1. CASE ReceiveRequest(s)
    <2>1. s < nextSessionId
      BY <1>1, TypeFacts DEF ReceiveRequest, Ready, StartingIsUnknown
    <2>2. sessionToPlayer[s] \in Player
      BY <1>1 DEF ReceiveRequest, SessionRegistryTypeOK
    <2> QED
      BY <1>1, <2>1, <2>2, QuietKeeps DEF ReceiveRequest
  <1>2. CASE SendReply(s)
    <2>1. strand[s] \in [reply : Replies, player : Player]
      BY <1>2 DEF SendReply
    <2>2. sent' \in [to : SessionId, reply : Replies \cup {"Answer"}, player : Player] \cup {NothingSent}
      BY <1>2, <2>1 DEF SendReply
    <2>3. strand' \in [SessionId -> [reply : Replies, player : Player] \cup {Idle}]
      BY <1>2 DEF SendReply
    <2> QED
      BY <1>2, <2>2, <2>3, QuietKeeps DEF SendReply
  <1>3. CASE AnswerRequest
    <2>1. PICK r \in asked :
            LET to == SessionOfPlayer(r.player) IN
            /\ asked' = asked \ {r}
            /\ sent' = IF to # NoSession /\ state[to] = "Connected"
                         THEN [to |-> to, reply |-> "Answer", player |-> r.player]
                         ELSE NothingSent
      BY <1>3 DEF AnswerRequest
    <2>2. r.player \in Player /\ SessionOfPlayer(r.player) \in SessionId \cup {NoSession}
      BY DEF SessionOfPlayer, SessionRegistryTypeOK
    <2>3. sent' \in [to : SessionId, reply : Replies \cup {"Answer"}, player : Player] \cup {NothingSent}
      BY <2>1, <2>2
    <2> QED
      BY <1>3, <2>1, <2>3, QuietKeeps DEF AnswerRequest
  <1>4. CASE TimePasses(p)
    <2>1. /\ ConnectionManagerTypeOK'
          /\ \A q \in Player : disconnected[q] = "none" => disconnected'[q] = "none"
      BY <1>4 DEF TimePasses, DisconnectTimeout
    <2> QED
      BY <1>4, <2>1, QuietKeeps DEF TimePasses, DisconnectTimeout
  <1> QED
    BY <1>1, <1>2, <1>3, <1>4

----------------------------------------------------------------------------
(* The specification *)

LEMMA StepInductive == Inductive /\ [Next]_vars => Inductive'
  <1> SUFFICES ASSUME Inductive, [Next]_vars
               PROVE Inductive'
    OBVIOUS
  <1>1. CASE Accept
    BY <1>1, AcceptKeeps
  <1>2. CASE Register
    BY <1>2, RegisterKeeps
  <1>3. ASSUME NEW s \in SessionId, NEW p \in Player, ReceiveJoin(p, s) \/ ReceiveReconnect(p, s)
        PROVE Inductive'
    BY <1>3, ReceiveJoinKeeps, ReceiveReconnectKeeps
  <1>10. ASSUME NEW s \in SessionId, NEW p \in Player, ReceiveLateReconnect(p, s)
        PROVE Inductive'
    BY <1>10, LateReconnectKeeps
  <1>4. ASSUME NEW s \in SessionId, ReceiveRequest(s)
        PROVE Inductive'
    <2>1. sessionToPlayer[s] \in Player
      BY <1>4 DEF ReceiveRequest, Inductive, TypeOK, SessionRegistryTypeOK
    <2> QED
      BY <1>4, <2>1, QuietStepsKeep
  <1>5. ASSUME NEW s \in SessionId, Disconnect(s)
        PROVE Inductive'
    BY <1>5, DisconnectKeeps
  <1>6. ASSUME NEW s \in SessionId, SendReply(s)
        PROVE Inductive'
    <2>1. strand[s].player \in Player
      BY <1>6 DEF SendReply, Inductive, TypeOK
    <2> QED
      BY <1>6, <2>1, QuietStepsKeep
  <1>7. CASE AnswerRequest
    <2>1. PICK r \in asked : TRUE
      BY <1>7 DEF AnswerRequest
    <2>2. r.session \in SessionId /\ r.player \in Player
      BY DEF Inductive, TypeOK
    <2> QED
      BY <1>7, <2>2, QuietStepsKeep
  <1>8. ASSUME NEW p \in Player, TimePasses(p)
        PROVE Inductive'
    <2>1. /\ UNCHANGED <<sessionRegistry, nextSessionId, starting, state, strand, asked, historyVars>>
          /\ sent' = NothingSent /\ disconnected[p] = "waiting"
          /\ disconnected' = [disconnected EXCEPT ![p] = "expired"]
      BY <1>8 DEF TimePasses, DisconnectTimeout
    <2>2. /\ ConnectionManagerTypeOK'
          /\ \A q \in Player : disconnected[q] = "none" => disconnected'[q] = "none"
      BY <2>1 DEF Inductive, TypeOK, ConnectionManagerTypeOK
    <2> QED
      BY <2>1, <2>2, QuietKeeps DEF Inductive, TypeOK
  <1>9. CASE UNCHANGED vars
    BY <1>9 DEF vars, networkVars, historyVars, sessionRegistry, Inductive, TypeOK, SessionRegistryTypeOK,
                ConnectionManagerTypeOK, BoundAreRegistered, MapsInverseUnlessContested,
                OneReconnectPerDrop, StartingIsUnknown, AskedUnderOwnName, EntryIsCredit
  <1> QED
    BY <1>1, <1>2, <1>3, <1>4, <1>5, <1>6, <1>7, <1>8, <1>9, <1>10 DEF Next

\* Every reachable state satisfies the whole invariant, whatever clients send,
\* whenever connections are lost and however the strands interleave.
THEOREM InductiveHolds == Spec => []Inductive
  BY InitInductive, StepInductive, PTL DEF Spec

\* The registry, the manager and the network stay within their types.
THEOREM TypesHold == Spec => []TypeOK
  <1>1. Inductive => TypeOK
    BY DEF Inductive
  <1> QED
    BY <1>1, InductiveHolds, PTL

\* Whoever speaks for a player is a registered, open session.
THEOREM BoundStayRegistered == Spec => []BoundAreRegistered
  <1>1. Inductive => BoundAreRegistered
    BY DEF Inductive
  <1> QED
    BY <1>1, InductiveHolds, PTL

\* SessionRegistry's two maps are inverse of each other for every player that
\* nobody has claimed twice: the missing check in bindPlayerToSession harms
\* the players it is missing for, and no others.
THEOREM MapsStayInverse == Spec => []MapsInverseUnlessContested
  <1>1. Inductive => MapsInverseUnlessContested
    BY DEF Inductive
  <1> QED
    BY <1>1, InductiveHolds, PTL

\* RECONNECT succeeds at most once for every connection a player has lost.
THEOREM ReconnectsAreEarned == Spec => []OneReconnectPerDrop
  <1>1. Inductive => OneReconnectPerDrop
    BY DEF Inductive
  <1> QED
    BY <1>1, InductiveHolds, PTL

\* The player of an open session never changes.
THEOREM SessionsKeepTheirPlayer == Spec => SessionKeepsPlayer
  <1> DEFINE Kept(s) == sessionToPlayer[s] # NoPlayer /\ state'[s] = "Connected"
                          => sessionToPlayer'[s] = sessionToPlayer[s]
  <1>1. Inductive /\ [Next]_vars => [\A s \in SessionId : Kept(s)]_vars
    <2> SUFFICES ASSUME Inductive, [Next]_vars, NEW t \in SessionId
                 PROVE Kept(t)
      OBVIOUS
    <2>1. TypeOK
      BY DEF Inductive
    <2>2. ASSUME NEW s \in SessionId, NEW p \in Player, BindPlayerToSession(p, s)
          PROVE Kept(t)
      BY <2>1, <2>2 DEF BindPlayerToSession, TypeOK, SessionRegistryTypeOK
    <2>3. ASSUME NEW s \in SessionId, NEW p \in Player, ReceiveJoin(p, s) \/ ReceiveReconnect(p, s)
          PROVE Kept(t)
      BY <2>2, <2>3 DEF ReceiveJoin, ReceiveReconnect, HandlePlayerAuthRequested,
                        HandlePlayerReconnectRequested, sessionRegistry
    <2>9. ASSUME NEW s \in SessionId, NEW p \in Player, ReceiveLateReconnect(p, s)
          PROVE Kept(t)
      BY <2>9, LateReconnectFacts DEF sessionRegistry
    <2>4. ASSUME NEW s \in SessionId, Disconnect(s)
          PROVE Kept(t)
      BY <2>1, <2>4 DEF Disconnect, HandleClientDisconnected, RemoveSession, TypeOK, SessionRegistryTypeOK
    <2>5. CASE Accept \/ Register \/ AnswerRequest
      BY <2>5 DEF Accept, Register, HandleClientConnected, AddSession, AnswerRequest, sessionRegistry
    <2>6. ASSUME NEW s \in SessionId, ReceiveRequest(s) \/ SendReply(s)
          PROVE Kept(t)
      BY <2>6 DEF ReceiveRequest, SendReply, sessionRegistry
    <2>7. ASSUME NEW p \in Player, TimePasses(p)
          PROVE Kept(t)
      BY <2>7 DEF TimePasses, DisconnectTimeout, sessionRegistry
    <2>8. CASE UNCHANGED vars
      BY <2>8 DEF vars, sessionRegistry
    <2> QED
      BY <2>3, <2>4, <2>5, <2>6, <2>7, <2>8, <2>9 DEF Next
  <1> QED
    BY <1>1, InductiveHolds, PTL DEF Spec, SessionKeepsPlayer

\* A manager's answer goes to the connection that asked, as long as nobody
\* contests its player.
THEOREM AnswersReachTheirAsker == Spec => AnswerReachesAsker
  <1> DEFINE Reached(r) == r.player \notin contested /\ state[r.session] = "Connected"
                             => sent'.to = r.session
  <1>1. Inductive /\ [Next]_vars => [\A r \in asked \ asked' : Reached(r)]_vars
    <2> SUFFICES ASSUME Inductive, [Next]_vars, NEW r \in asked \ asked',
                        r.player \notin contested, state[r.session] = "Connected"
                 PROVE sent'.to = r.session
      OBVIOUS
    <2>1. r.session \in SessionId /\ r.player \in Player
      BY DEF Inductive, TypeOK
    <2>2. sessionToPlayer[r.session] = r.player
      BY DEF Inductive, AskedUnderOwnName
    <2>3. playerToSession[r.player] = r.session
      BY <2>1, <2>2 DEF Inductive, MapsInverseUnlessContested
    <2>4. r.session \in sessions
      BY <2>1, <2>2, TypeFacts DEF Inductive, BoundAreRegistered
    <2>5. SessionOfPlayer(r.player) = r.session /\ r.session # NoSession
      BY <2>1, <2>3, <2>4, TypeFacts DEF SessionOfPlayer, Inductive
    <2>6. AnswerRequest
      BY DEF Next, Accept, Register, ReceiveJoin, ReceiveReconnect, ReceiveLateReconnect, ReceiveRequest, Disconnect,
             SendReply, TimePasses, vars, networkVars
    <2>7. PICK q \in asked :
            LET to == SessionOfPlayer(q.player) IN
            /\ asked' = asked \ {q}
            /\ sent' = IF to # NoSession /\ state[to] = "Connected"
                         THEN [to |-> to, reply |-> "Answer", player |-> q.player]
                         ELSE NothingSent
      BY <2>6 DEF AnswerRequest
    <2>8. q = r
      BY <2>7
    <2> QED
      BY <2>5, <2>7, <2>8
  <1> QED
    BY <1>1, InductiveHolds, PTL DEF Spec, AnswerReachesAsker

----------------------------------------------------------------------------
(* What is told *)

\* Of a session that decides nothing in a step, what was decided stays true if
\* the registry keeps the session and whom it speaks for.
LEMMA DecidedStays ==
  ASSUME DecidedTruly, contested \subseteq contested', NEW t \in SessionId,
         strand'[t] = Idle \/ (/\ strand'[t] = strand[t]
                               /\ strand[t] # Idle => /\ t \in sessions => t \in sessions'
                                                      /\ sessionToPlayer'[t] = sessionToPlayer[t])
  PROVE /\ strand'[t].reply \in {"Welcome", "Reconnected"} =>
             t \in sessions' /\ (strand'[t].player \in contested' \/ sessionToPlayer'[t] = strand'[t].player)
        /\ strand'[t].reply = "AuthFailed" => sessionToPlayer'[t] = NoPlayer
  <1>1. CASE strand'[t] = Idle
    BY <1>1 DEF Idle
  <1>2. CASE strand[t] = Idle /\ strand'[t] = Idle
    BY <1>2 DEF Idle
  <1>3. CASE strand[t] # Idle /\ strand'[t] = strand[t] /\ strand'[t] # Idle
    BY <1>3 DEF DecidedTruly
  <1> QED
    BY <1>1, <1>2, <1>3

\* A bind of p to s, told as a success.
LEMMA BoundIsTold ==
  ASSUME TypeOK, NEW p \in Player, NEW s \in SessionId, s \in sessions,
         BindPlayerToSession(p, s), Claim(p, s)
  PROVE /\ s \in sessions' /\ (p \in contested' \/ sessionToPlayer'[s] = p)
        /\ contested \subseteq contested'
        /\ \A t \in SessionId \ {s} : sessionToPlayer'[t] = sessionToPlayer[t]
        /\ sessions' = sessions
  <1>1. /\ sessionToPlayer' = [sessionToPlayer EXCEPT ![s] = IF @ = NoPlayer THEN p ELSE @]
        /\ sessions' = sessions
    BY DEF BindPlayerToSession
  <1>2. sessionToPlayer'[s] = IF sessionToPlayer[s] = NoPlayer THEN p ELSE sessionToPlayer[s]
    BY <1>1 DEF TypeOK, SessionRegistryTypeOK
  <1>3. contested' = IF Clash(p, s) THEN contested \cup {p} ELSE contested
    BY DEF Claim, CanBind
  <1>4. CASE sessionToPlayer[s] \in {NoPlayer, p}
    BY <1>1, <1>2, <1>3, <1>4 DEF TypeOK, SessionRegistryTypeOK
  <1>5. CASE sessionToPlayer[s] \notin {NoPlayer, p}
    <2>1. Clash(p, s)
      BY <1>5 DEF Clash
    <2> QED
      BY <1>1, <1>3, <2>1 DEF TypeOK, SessionRegistryTypeOK
  <1> QED
    BY <1>4, <1>5

LEMMA JoinDecides ==
  ASSUME Inductive, DecidedTruly, NEW p \in Player, NEW s \in SessionId, ReceiveJoin(p, s)
  PROVE DecidedTruly'
  <1> USE DEF Inductive
  <1> SUFFICES ASSUME NEW t \in SessionId
               PROVE /\ strand'[t].reply \in {"Welcome", "Reconnected"} =>
                          /\ t \in sessions'
                          /\ strand'[t].player \in contested' \/ sessionToPlayer'[t] = strand'[t].player
                     /\ strand'[t].reply = "AuthFailed" => sessionToPlayer'[t] = NoPlayer
    BY DEF DecidedTruly
  <1>1. CASE s \in sessions
    <2>1. BindPlayerToSession(p, s) /\ Claim(p, s) /\ Decide(s, "Welcome", p)
      BY <1>1 DEF ReceiveJoin, HandlePlayerAuthRequested, CanBind
    <2>2. strand' = [strand EXCEPT ![s] = [reply |-> "Welcome", player |-> p]]
      BY <2>1 DEF Decide
    <2>3. CASE t = s
      <3>1. strand'[t] = [reply |-> "Welcome", player |-> p]
        BY <2>2, <2>3 DEF TypeOK
      <3> QED
        BY <1>1, <2>1, <2>3, <3>1, BoundIsTold
    <2>4. CASE t # s
      <3>1. strand'[t] = strand[t]
        BY <2>2, <2>4 DEF TypeOK
      <3> QED
        BY <1>1, <2>1, <2>4, <3>1, BoundIsTold, DecidedStays
    <2> QED
      BY <2>3, <2>4
  <1>2. CASE s \notin sessions
    <2>1. UNCHANGED <<sessions, sessionToPlayer, contested>> /\ Decide(s, "AuthFailed", p)
      BY <1>2 DEF ReceiveJoin, HandlePlayerAuthRequested, CanBind, Claim, sessionRegistry
    <2>2. strand' = [strand EXCEPT ![s] = [reply |-> "AuthFailed", player |-> p]]
      BY <2>1 DEF Decide
    <2>3. CASE t = s
      <3>1. strand'[t] = [reply |-> "AuthFailed", player |-> p]
        BY <2>2, <2>3 DEF TypeOK
      <3>2. sessionToPlayer[s] = NoPlayer
        BY <1>2 DEF BoundAreRegistered
      <3> QED
        BY <2>1, <2>3, <3>1, <3>2
    <2>4. CASE t # s
      <3>1. strand'[t] = strand[t]
        BY <2>2, <2>4 DEF TypeOK
      <3> QED
        BY <2>1, <3>1, DecidedStays
    <2> QED
      BY <2>3, <2>4
  <1> QED
    BY <1>1, <1>2

LEMMA ReconnectDecides ==
  ASSUME Inductive, DecidedTruly, NEW p \in Player, NEW s \in SessionId, ReceiveReconnect(p, s)
  PROVE DecidedTruly'
  <1> USE DEF Inductive
  <1> SUFFICES ASSUME NEW t \in SessionId
               PROVE /\ strand'[t].reply \in {"Welcome", "Reconnected"} =>
                          /\ t \in sessions'
                          /\ strand'[t].player \in contested' \/ sessionToPlayer'[t] = strand'[t].player
                     /\ strand'[t].reply = "AuthFailed" => sessionToPlayer'[t] = NoPlayer
    BY DEF DecidedTruly
  <1>1. CASE CanReconnect(p, s)
    <2>1. s \in sessions /\ BindPlayerToSession(p, s) /\ Claim(p, s) /\ Decide(s, "Reconnected", p)
      BY <1>1 DEF ReceiveReconnect, HandlePlayerReconnectRequested, CanReconnect, CanBind
    <2>2. strand' = [strand EXCEPT ![s] = [reply |-> "Reconnected", player |-> p]]
      BY <2>1 DEF Decide
    <2>3. CASE t = s
      <3>1. strand'[t] = [reply |-> "Reconnected", player |-> p]
        BY <2>2, <2>3 DEF TypeOK
      <3> QED
        BY <2>1, <2>3, <3>1, BoundIsTold
    <2>4. CASE t # s
      <3>1. strand'[t] = strand[t]
        BY <2>2, <2>4 DEF TypeOK
      <3> QED
        BY <2>1, <2>4, <3>1, BoundIsTold, DecidedStays
    <2> QED
      BY <2>3, <2>4
  <1>2. CASE ~CanReconnect(p, s)
    <2>1. UNCHANGED <<sessions, sessionToPlayer, contested>> /\ Decide(s, "NotReconnected", p)
      BY <1>2 DEF ReceiveReconnect, HandlePlayerReconnectRequested, sessionRegistry
    <2>2. strand' = [strand EXCEPT ![s] = [reply |-> "NotReconnected", player |-> p]]
      BY <2>1 DEF Decide
    <2>3. CASE t = s
      <3>1. strand'[t] = [reply |-> "NotReconnected", player |-> p]
        BY <2>2, <2>3 DEF TypeOK
      <3> QED
        BY <3>1
    <2>4. CASE t # s
      <3>1. strand'[t] = strand[t]
        BY <2>2, <2>4 DEF TypeOK
      <3> QED
        BY <2>1, <3>1, DecidedStays
    <2> QED
      BY <2>3, <2>4
  <1> QED
    BY <1>1, <1>2

\* The session that is lost has nothing decided, and the others stay.
LEMMA DisconnectDecides ==
  ASSUME Inductive, DecidedTruly, NEW s \in SessionId, Disconnect(s)
  PROVE DecidedTruly'
  <1> USE DEF Inductive
  <1>1. strand[s] = Idle /\ UNCHANGED <<strand, contested>> /\ RemoveSession(s)
    BY DEF Disconnect, Ready, HandleClientDisconnected
  <1>2. /\ sessions' = sessions \ {s}
        /\ \A t \in SessionId \ {s} : sessionToPlayer'[t] = sessionToPlayer[t]
    BY <1>1 DEF RemoveSession, TypeOK, SessionRegistryTypeOK
  <1> SUFFICES ASSUME NEW t \in SessionId
               PROVE /\ strand'[t].reply \in {"Welcome", "Reconnected"} =>
                          /\ t \in sessions'
                          /\ strand'[t].player \in contested' \/ sessionToPlayer'[t] = strand'[t].player
                     /\ strand'[t].reply = "AuthFailed" => sessionToPlayer'[t] = NoPlayer
    BY DEF DecidedTruly
  <1>3. CASE t = s
    BY <1>1, <1>3, DecidedStays
  <1>4. CASE t # s
    BY <1>1, <1>2, <1>4, DecidedStays
  <1> QED
    BY <1>3, <1>4

LEMMA StepDecides == Inductive /\ DecidedTruly /\ [Next]_vars => DecidedTruly'
  <1> SUFFICES ASSUME Inductive, DecidedTruly, [Next]_vars PROVE DecidedTruly'
    OBVIOUS
  <1>1. ASSUME NEW s \in SessionId, SendReply(s)
        PROVE DecidedTruly'
    <2>1. /\ strand' = [strand EXCEPT ![s] = Idle]
          /\ UNCHANGED <<sessions, sessionToPlayer, contested>>
      BY <1>1 DEF SendReply, sessionRegistry, historyVars
    <2>2. \A t \in SessionId : strand'[t] = Idle \/ strand'[t] = strand[t]
      BY <2>1 DEF Inductive, TypeOK
    <2> QED
      BY <2>1, <2>2, DecidedStays DEF DecidedTruly
  <1>2. CASE /\ UNCHANGED <<strand, contested, sessionToPlayer>>
             /\ sessions \subseteq sessions'
    BY <1>2, DecidedStays DEF DecidedTruly
  <1>3. CASE UNCHANGED vars
    BY <1>2, <1>3 DEF vars, networkVars, historyVars, sessionRegistry
  <1>4. CASE Accept \/ AnswerRequest \/ \E s \in SessionId : ReceiveRequest(s)
    BY <1>2, <1>4 DEF Accept, AnswerRequest, ReceiveRequest, historyVars, sessionRegistry
  <1>5. CASE Register
    BY <1>2, <1>5 DEF Register, HandleClientConnected, AddSession, historyVars
  <1>6. CASE \E p \in Player : TimePasses(p) \/ \E s \in SessionId : ReceiveLateReconnect(p, s)
    BY <1>2, <1>6, LateReconnectFacts
    DEF TimePasses, DisconnectTimeout, ReceiveLateReconnect, historyVars, sessionRegistry
  <1> QED
    BY <1>1, <1>3, <1>4, <1>5, <1>6, JoinDecides, ReconnectDecides, DisconnectDecides DEF Next

\* A strand that empties was answered by SendReply.
LEMMA EmptiedBySending ==
  ASSUME Inductive, [Next]_vars, NEW s \in SessionId, strand[s] # Idle, strand'[s] = Idle
  PROVE SendReply(s)
  <1>1. ASSUME NEW t \in SessionId, NEW p \in Player, ReceiveJoin(p, t) \/ ReceiveReconnect(p, t)
        PROVE FALSE
    <2>1. t # s
      BY <1>1 DEF ReceiveJoin, ReceiveReconnect, Ready
    <2>2. PICK reply \in Replies : Decide(t, reply, p)
      BY <1>1 DEF ReceiveJoin, ReceiveReconnect, Replies
    <2> QED
      BY <2>1, <2>2 DEF Decide, Inductive, TypeOK
  <1>2. PICK t \in SessionId : SendReply(t)
    BY <1>1 DEF Next, Accept, Register, ReceiveLateReconnect, ReceiveRequest, Disconnect, AnswerRequest,
                TimePasses, vars, networkVars
  <1>3. t = s
    BY <1>2 DEF SendReply, Inductive, TypeOK
  <1> QED
    BY <1>2, <1>3

\* What JOIN and RECONNECT are told is true when it is told, and whoever is told
\* nothing speaks for nobody.
THEOREM ClaimsAreAlwaysToldTruly == Spec => ClaimsAreToldTruly
  <1> DEFINE Told(s) == IF sent'.to = s THEN sent'.reply ELSE "nothing"
             Truly(s) ==
               strand[s] # Idle /\ strand'[s] = Idle =>
                 LET p == strand[s].player
                     told == IF sent'.to = s THEN sent'.reply ELSE "nothing"
                 IN /\ told \in {"Welcome", "Reconnected"} /\ p \notin contested =>
                          sessionToPlayer[s] = p /\ SessionOfPlayer(p) = s
                    /\ told \in {"AuthFailed", "nothing"} => sessionToPlayer[s] = NoPlayer
  <1>1. Inductive /\ DecidedTruly /\ [Next]_vars => [\A s \in SessionId : Truly(s)]_vars
    <2> SUFFICES ASSUME Inductive, DecidedTruly, [Next]_vars, NEW s \in SessionId,
                        strand[s] # Idle, strand'[s] = Idle
                 PROVE /\ Told(s) \in {"Welcome", "Reconnected"} /\ strand[s].player \notin contested =>
                            sessionToPlayer[s] = strand[s].player /\ SessionOfPlayer(strand[s].player) = s
                       /\ Told(s) \in {"AuthFailed", "nothing"} => sessionToPlayer[s] = NoPlayer
      OBVIOUS
    <2>1. SendReply(s)
      BY EmptiedBySending
    <2>2. TypeOK /\ s # NoSession /\ strand[s] \in [reply : Replies, player : Player]
      BY TypeFacts DEF Inductive, TypeOK
    <2>3. Told(s) = IF s \in sessions THEN strand[s].reply ELSE "nothing"
      BY <2>1, <2>2 DEF SendReply, NothingSent
    <2>4. ASSUME Told(s) \in {"Welcome", "Reconnected"}, strand[s].player \notin contested
          PROVE sessionToPlayer[s] = strand[s].player /\ SessionOfPlayer(strand[s].player) = s
      <3>1. strand[s].reply \in {"Welcome", "Reconnected"}
        BY <2>3, <2>4
      <3>2. s \in sessions /\ sessionToPlayer[s] = strand[s].player
        BY <2>4, <3>1 DEF DecidedTruly
      <3>3. playerToSession[strand[s].player] = s
        BY <2>2, <2>4, <3>2 DEF Inductive, MapsInverseUnlessContested
      <3> QED
        BY <3>2, <3>3 DEF SessionOfPlayer
    <2>5. ASSUME Told(s) \in {"AuthFailed", "nothing"}
          PROVE sessionToPlayer[s] = NoPlayer
      <3>1. strand[s].reply # "nothing"
        BY <2>2 DEF Replies
      <3>2. CASE s \in sessions
        BY <2>3, <2>5, <3>1, <3>2 DEF DecidedTruly
      <3>3. CASE s \notin sessions
        BY <3>3 DEF Inductive, BoundAreRegistered
      <3> QED
        BY <3>2, <3>3
    <2> QED
      BY <2>4, <2>5
  <1>2. Init => DecidedTruly
    BY DEF Init, DecidedTruly, Idle
  <1> QED
    BY <1>1, <1>2, StepDecides, InductiveHolds, PTL DEF Spec, ClaimsAreToldTruly

=============================================================================
