----------------------------- MODULE Connections -----------------------------
(***************************************************************************)
(* The life of a connection: TcpServer accepts it and numbers a Session    *)
(* (tcp_server.cpp), the Session reads and closes on a strand of its own   *)
(* (session.cpp), MessageRouter turns what it reads into events            *)
(* (msg_router.cpp), ConnectionManager answers JOIN and RECONNECT, and     *)
(* ResponseSender finds the session a response goes to                     *)
(* (response_sender.cpp).  Strands run on different threads.               *)
(*                                                                         *)
(* Messages to the lobby and game managers are posted to other strands;    *)
(* here a manager simply answers, some time later, whoever the router took *)
(* the sender for.  Clients send anything in any order, and a connection   *)
(* may be lost at any time, before the server has registered it included.  *)
(***************************************************************************)
EXTENDS ConnectionManager

VARIABLES
  nextSessionId,  \* TcpServer::next_session_id_
  starting,       \* the Session whose start() has posted its first read but has
                  \* not yet published ClientConnectedEvent, or NoSession
  state,          \* Session::state_, "none" before the Session exists
  strand,         \* what a session's strand has decided but not sent yet
  asked,          \* requests on the strands of the managers
  sent,           \* what the last step handed to a session to send, if anything
  (* history variables *)
  contested,      \* players claimed by two connections at once, or by one that
                  \* already spoke for somebody else
  drops,          \* how often a player's session has been lost
  reconnects      \* how often a player has been reconnected

networkVars == <<nextSessionId, starting, state, strand, asked, sent>>
historyVars == <<contested, drops, reconnects>>
vars == <<sessionRegistry, disconnected, networkVars, historyVars>>

Idle == [reply |-> "none", player |-> NoPlayer]
NothingSent == [to |-> NoSession, reply |-> "none", player |-> NoPlayer]

Replies == {"Welcome", "AuthFailed", "Reconnected", "NotReconnected"}

TypeOK ==
  /\ SessionRegistryTypeOK
  /\ ConnectionManagerTypeOK
  /\ nextSessionId \in 1..(MaxSessions + 1)
  /\ starting \in SessionId \cup {NoSession}
  /\ state \in [SessionId -> {"none", "Connected", "Disconnected"}]
  /\ strand \in [SessionId -> [reply : Replies, player : Player] \cup {Idle}]
  /\ asked \subseteq [player : Player, session : SessionId]
  /\ sent \in [to : SessionId, reply : Replies \cup {"Answer"}, player : Player] \cup {NothingSent}
  /\ contested \subseteq Player
  /\ drops \in [Player -> Nat]
  /\ reconnects \in [Player -> Nat]

Init ==
  /\ SessionRegistryInit
  /\ ConnectionManagerInit
  /\ nextSessionId = 1
  /\ starting = NoSession
  /\ state = [s \in SessionId |-> "none"]
  /\ strand = [s \in SessionId |-> Idle]
  /\ asked = {}
  /\ sent = NothingSent
  /\ contested = {}
  /\ drops = [p \in Player |-> 0]
  /\ reconnects = [p \in Player |-> 0]

----------------------------------------------------------------------------
(* TcpServer *)

\* doAccept's handler creates the session and posts its first read ...
Accept ==
  /\ starting = NoSession
  /\ nextSessionId \in SessionId
  /\ nextSessionId' = nextSessionId + 1
  /\ starting' = nextSessionId
  /\ state' = [state EXCEPT ![nextSessionId] = "Connected"]
  /\ sent' = NothingSent
  /\ UNCHANGED <<sessionRegistry, disconnected, strand, asked, historyVars>>

\* ... publishes ClientConnectedEvent, and only then accepts the next one.
\* Since the read was posted, the session's strand has been free to run.
Register ==
  /\ starting # NoSession
  /\ HandleClientConnected(starting)
  /\ starting' = NoSession
  /\ sent' = NothingSent
  /\ UNCHANGED <<nextSessionId, state, strand, asked, historyVars>>

----------------------------------------------------------------------------
(* Session and MessageRouter *)

\* The session's strand is free to take what has arrived.
Ready(s) == state[s] = "Connected" /\ strand[s] = Idle

\* s claims to be p although another session speaks for p, or s for another.
Clash(p, s) ==
  \/ \E t \in SessionId \ {s} : sessionToPlayer[t] = p
  \/ sessionToPlayer[s] \notin {NoPlayer, p}

Claim(p, s) == contested' = IF CanBind(s) /\ Clash(p, s) THEN contested \cup {p} ELSE contested

Decide(s, reply, p) == strand' = [strand EXCEPT ![s] = [reply |-> reply, player |-> p]]

\* Slip: what bindPlayerToSession returns is not looked at.
WelcomeAnyway(p, s) ==
  /\ Ready(s)
  /\ HandlePlayerAuthRequested(p, s)
  /\ Decide(s, "Welcome", p)
  /\ Claim(p, s)
  /\ sent' = NothingSent
  /\ UNCHANGED <<nextSessionId, starting, state, asked, drops, reconnects>>

ReceiveJoin(p, s) ==
  /\ Ready(s)
  /\ HandlePlayerAuthRequested(p, s)
  /\ Decide(s, IF CanBind(s) THEN "Welcome" ELSE "AuthFailed", p)
  /\ Claim(p, s)
  /\ sent' = NothingSent
  /\ UNCHANGED <<nextSessionId, starting, state, asked, drops, reconnects>>

ReceiveReconnect(p, s) ==
  /\ Ready(s)
  /\ HandlePlayerReconnectRequested(p, s)
  /\ IF CanReconnect(p, s)
       THEN /\ Decide(s, "Reconnected", p)
            /\ Claim(p, s)
            /\ reconnects' = [reconnects EXCEPT ![p] = @ + 1]
       ELSE Decide(s, "NotReconnected", p) /\ UNCHANGED <<contested, reconnects>>
  /\ sent' = NothingSent
  /\ UNCHANGED <<nextSessionId, starting, state, asked, drops>>

\* A read that had completed when a failed write closed the session is handled
\* all the same.  The registry knows the session no more, so the one trace a
\* message can leave is RECONNECT's, which takes the player's entry away.
ReceiveLateReconnect(p, s) ==
  /\ state[s] = "Disconnected" /\ strand[s] = Idle
  /\ s # starting /\ s \notin sessions
  /\ HandlePlayerReconnectRequested(p, s)
  /\ sent' = NothingSent
  /\ UNCHANGED <<nextSessionId, starting, state, strand, asked, historyVars>>

\* A message for a manager.  The router adds the player the session is bound
\* to; without one no event comes of it.
ReceiveRequest(s) ==
  /\ Ready(s)
  /\ sessionToPlayer[s] # NoPlayer
  /\ asked' = asked \cup {[player |-> sessionToPlayer[s], session |-> s]}
  /\ sent' = NothingSent
  /\ UNCHANGED <<sessionRegistry, disconnected, nextSessionId, starting, state, strand, historyVars>>

\* A read or write fails, or the client goes: doDisconnect.
Disconnect(s) ==
  /\ Ready(s)
  /\ state' = [state EXCEPT ![s] = "Disconnected"]
  /\ HandleClientDisconnected(s)
  /\ drops' = [p \in Player |-> IF p = sessionToPlayer[s] THEN drops[p] + 1 ELSE drops[p]]
  /\ sent' = NothingSent
  /\ UNCHANGED <<nextSessionId, starting, strand, asked, contested, reconnects>>

----------------------------------------------------------------------------
(* ResponseSender *)

\* The response to JOIN or RECONNECT goes to the session that sent it, by id;
\* a session that is not registered yet gets none.
SendReply(s) ==
  /\ strand[s] # Idle
  /\ sent' = IF s \in sessions
               THEN [to |-> s, reply |-> strand[s].reply, player |-> strand[s].player]
               ELSE NothingSent
  /\ strand' = [strand EXCEPT ![s] = Idle]
  /\ UNCHANGED <<sessionRegistry, disconnected, nextSessionId, starting, state, asked, historyVars>>

\* A manager's response carries the player only, and the player's entry says
\* which session it goes to; Session::send drops it once the session is closed.
AnswerRequest ==
  /\ \E r \in asked :
       LET to == SessionOfPlayer(r.player) IN
       /\ asked' = asked \ {r}
       /\ sent' = IF to # NoSession /\ state[to] = "Connected"
                    THEN [to |-> to, reply |-> "Answer", player |-> r.player]
                    ELSE NothingSent
  /\ UNCHANGED <<sessionRegistry, disconnected, nextSessionId, starting, state, strand, historyVars>>

----------------------------------------------------------------------------
TimePasses(p) ==
  /\ DisconnectTimeout(p)
  /\ sent' = NothingSent
  /\ UNCHANGED <<nextSessionId, starting, state, strand, asked, historyVars>>

Next ==
  \/ Accept
  \/ Register
  \/ \E s \in SessionId :
       \/ \E p \in Player : ReceiveJoin(p, s) \/ ReceiveReconnect(p, s) \/ ReceiveLateReconnect(p, s)
       \/ ReceiveRequest(s)
       \/ Disconnect(s)
       \/ SendReply(s)
  \/ AnswerRequest
  \/ \E p \in Player : TimePasses(p)

Spec == Init /\ [][Next]_vars

----------------------------------------------------------------------------
\* A session that speaks for a player is registered and open, and a registered
\* session that a player's entry names speaks for somebody: no request is
\* attributed through a session that is gone.
BoundAreRegistered ==
  /\ \A s \in SessionId : sessionToPlayer[s] # NoPlayer => s \in sessions /\ state[s] = "Connected"
  /\ \A p \in Player : playerToSession[p] \in sessions => sessionToPlayer[playerToSession[p]] # NoPlayer

\* bindPlayerToSession checks nothing, and two careless claims spoil the two
\* maps; but only for the players claimed carelessly.  For everybody else the
\* maps stay each other's inverse, whatever the other connections do.
MapsInverseUnlessContested ==
  \A p \in Player \ contested, s \in SessionId : playerToSession[p] = s <=> sessionToPlayer[s] = p

\* Whom a session speaks for never changes while it is open, a second JOIN
\* included (tests_connection_manager.cpp, AuthRequestedSessionAlreadyBound).
SessionKeepsPlayer ==
  [][\A s \in SessionId : sessionToPlayer[s] # NoPlayer /\ state'[s] = "Connected"
                            => sessionToPlayer'[s] = sessionToPlayer[s]]_vars

\* One lost connection buys one reconnection at most, however often RECONNECT
\* is sent and from however many connections.
OneReconnectPerDrop == \A p \in Player : reconnects[p] <= drops[p]

\* A manager's answer reaches the connection the request came on, if that is
\* still open and nobody has contested its player meanwhile.
AnswerReachesAsker ==
  [][\A r \in asked \ asked' : r.player \notin contested /\ state[r.session] = "Connected"
                                 => sent'.to = r.session]_vars

\* What JOIN and RECONNECT are told is still true when it is told, although the
\* session may be registered, and others may claim players, between the decision
\* and the sending: who is welcomed or taken back speaks for his player, and the
\* player's answers will come to him, unless the player is contested; who is
\* refused by JOIN, or sent nothing because start() has not registered him yet,
\* speaks for nobody and can try again (connection_manager.cpp, response_sender.cpp).
ClaimsAreToldTruly ==
  [][\A s \in SessionId :
       strand[s] # Idle /\ strand'[s] = Idle =>
         LET p == strand[s].player
             told == IF sent'.to = s THEN sent'.reply ELSE "nothing"
         IN /\ told \in {"Welcome", "Reconnected"} /\ p \notin contested =>
                  sessionToPlayer[s] = p /\ SessionOfPlayer(p) = s
            /\ told \in {"AuthFailed", "nothing"} => sessionToPlayer[s] = NoPlayer]_vars

\* What a session's strand has decided agrees with the registry until it is sent.
DecidedTruly ==
  \A s \in SessionId :
    /\ strand[s].reply \in {"Welcome", "Reconnected"} =>
         s \in sessions /\ (strand[s].player \in contested \/ sessionToPlayer[s] = strand[s].player)
    /\ strand[s].reply = "AuthFailed" => sessionToPlayer[s] = NoPlayer

\* A session that start() is still announcing is unknown to everybody, and a
\* player's entry names a session that exists or has existed.
StartingIsUnknown ==
  /\ starting < nextSessionId /\ starting \notin sessions
  /\ \A s \in SessionId : s >= nextSessionId => state[s] = "none" /\ s \notin sessions
  /\ \A p \in Player :
       /\ playerToSession[p] < nextSessionId
       /\ playerToSession[p] # NoSession => playerToSession[p] # starting

\* A request is on a manager's strand under the name its session still bears.
AskedUnderOwnName ==
  \A r \in asked :
    /\ r.session < nextSessionId
    /\ state[r.session] = "Connected" => sessionToPlayer[r.session] = r.player

\* A player with a disconnected_players_ entry has a lost connection to his
\* credit that no reconnection has used up.
EntryIsCredit ==
  \A p \in Player : disconnected[p] # "none" => reconnects[p] < drops[p]

\* What every step preserves.
Inductive ==
  /\ TypeOK
  /\ BoundAreRegistered
  /\ MapsInverseUnlessContested
  /\ OneReconnectPerDrop
  /\ StartingIsUnknown
  /\ AskedUnderOwnName
  /\ EntryIsCredit

\* A session that was lost leaves the registry (same diagram, Client
\* disconnected).  The code breaks this when the connection is lost between
\* the first read and ClientConnectedEvent: it is registered after its removal.
LostSessionsLeave ==
  \A s \in sessions : state[s] # "Disconnected"

=============================================================================
