----------------------------- MODULE Conversation -----------------------------
(***************************************************************************)
(* What a terminal client asks and what it gets to hear, end to end: its   *)
(* command becomes a message (client/ui/command_router.cpp), the server's  *)
(* MessageRouter makes an event of it (msg_router.cpp, msg_dispatcher.cpp) *)
(* or drops it, a manager takes the event on its strand, ResponseSender    *)
(* sends what it has a subscription for (response_sender.cpp), and the     *)
(* client shows it (client/ui/message_router.cpp).                         *)
(*                                                                         *)
(* The managers are LobbyService, which LobbyStrands implements.  Each     *)
(* client has one connection and one name; contested names are the matter  *)
(* of Connections, and broadcast game states, which answer nothing, that   *)
(* of SessionWrites.  Nobody waits for an answer before the next command.  *)
(* The terminal has no command for LEAVE_LOBBY and RECONNECT.              *)
(***************************************************************************)
EXTENDS Messages

CONSTANTS
  Player,
  LobbyMaxPlayers,
  Commands,     \* the commands the clients of an instance use
  MaxLobbies,   \* bound: how many lobbies a behaviour may create
  MaxCommands   \* bound: how many commands the clients give altogether

LobbyRequests == {"CreateParty", "ListParties", "JoinParty"}
GameRequests == {"StartGame", "Move", "Attack"}

ASSUME ConversationAssumption ==
  /\ IsFiniteSet(Player)
  /\ Commands \subseteq {"Join"} \cup LobbyRequests \cup GameRequests
  /\ MaxLobbies \in Nat /\ MaxCommands \in Nat

LobbyId == 1..MaxLobbies
NoLobby == 0
GameId == 1..Cardinality(Player)
NoGame == 0
NoReply == [event |-> "none"]

VARIABLES
  up,          \* by player: messages on their way to the server
  registered,  \* players whose session is in sessions_
  bound,       \* players whose session speaks for them
  lmQueue,     \* requests on LobbyManager's strand
  gmQueue,     \* requests on GameManager's strand
  gm,          \* the start of a game that is under way
  down,        \* by player: messages on their way to the client
  (* LobbyService *)
  lobbyOf, founded, gameOf, reply,
  (* what a client knows *)
  welcomed,    \* players who have seen WELCOME
  wanted,      \* by player: the lobbies named in JOIN_LOBBY commands
  belief,      \* by player: the lobbies the client may be in, as far as it knows
  (* history variables *)
  given,       \* how many commands have been given
  asked,       \* by player: how many lobby requests it has given
  evicted      \* players a game took out of their lobby, who entered none since

service == <<lobbyOf, founded, gameOf, reply>>
clientVars == <<welcomed, wanted, belief, given, asked>>
vars == <<up, registered, bound, lmQueue, gmQueue, gm, down, service, clientVars, evicted>>

Service == INSTANCE LobbyService

----------------------------------------------------------------------------
(* The client's commands *)

\* What routeCommand puts behind the type; a direction stands for the four.
CommandArgs(p, kind) ==
  CASE kind = "Join" -> {<<p>>}
    [] kind = "JoinParty" -> {<<l>> : l \in LobbyId}
    [] kind = "Move" -> {<<0>>}
    [] OTHER -> {<<>>}

\* A message, with the number of the last lobby request given (history).
Said(kind, args, nr) == [type |-> PackMessageType(kind), args |-> args, nr |-> nr]

RouteCommand(p) ==
  /\ given < MaxCommands     \* bound
  /\ given' = given + 1
  /\ \E kind \in Commands : \E args \in CommandArgs(p, kind) :
       /\ asked' = IF kind \in LobbyRequests THEN [asked EXCEPT ![p] = @ + 1] ELSE asked
       /\ up' = [up EXCEPT ![p] = Append(@, Said(kind, args, asked'[p]))]
       /\ wanted' = IF kind = "JoinParty" THEN [wanted EXCEPT ![p] = @ \cup {args[1]}] ELSE wanted
  /\ Service!Hush
  /\ UNCHANGED <<registered, bound, lmQueue, gmQueue, gm, down, welcomed, belief, evicted>>

----------------------------------------------------------------------------
(* The server reads: Session, MessageRouter, ConnectionManager *)

\* TcpServer announces the session; its first read was posted before.
Register(p) ==
  /\ p \notin registered
  /\ registered' = registered \cup {p}
  /\ Service!Hush
  /\ UNCHANGED <<up, bound, lmQueue, gmQueue, gm, down, clientVars, evicted>>

\* Slip: LIST_LOBBY, which needs no player, is sent on without one.
AddedArgsNotForLists(p, kind) ==
  CASE kind \in {"Join", "Reconnect"} -> <<p>>
    [] kind \in {"JoinParty", "LeaveParty", "CreateParty", "StartGame", "Move", "Attack"}
         /\ p \in bound -> <<p>>
    [] OTHER -> <<>>

\* OnRawMessage puts the session's id, or its player's, before the arguments;
\* a player who is not found is only logged.
AddedArgs(p, kind) ==
  CASE kind \in {"Join", "Reconnect"} -> <<p>>
    [] kind \in {"JoinParty", "LeaveParty", "CreateParty", "ListParties", "StartGame", "Move", "Attack"}
         /\ p \in bound -> <<p>>
    [] OTHER -> <<>>

\* makeEvent: nothing without a factory or with the wrong number of arguments.
MakeEvent(p, message) ==
  LET kind == UnpackMessageType(message.type)
      args == AddedArgs(p, kind) \o message.args
  IN IF kind \in DOMAIN EventFactory /\ TakesArgs(kind, args)
       THEN [kind |-> kind, args |-> args]
       ELSE [kind |-> "none", args |-> <<>>]

\* The session's strand takes the next message and publishes the event.
OnRawMessage(p) ==
  /\ up[p] # <<>>
  /\ up' = [up EXCEPT ![p] = Tail(@)]
  /\ Service!Hush
  /\ UNCHANGED <<registered, gm, clientVars, evicted>>

\* A message to the client, with the command it answers and the number that
\* command was given (history).
Answer(kind, args, to, nr) ==
  [type |-> PackMessageType(kind), args |-> args, to |-> to, nr |-> nr]

Welcome(p) == down' = [down EXCEPT ![p] = Append(@, Answer("Welcome", <<>>, "Join", Head(up[p]).nr))]

\* Slip: the session is bound without a look at sessions_.
OnJoinUnchecked(p) ==
  /\ OnRawMessage(p)
  /\ MakeEvent(p, Head(up[p])).kind = "Join"
  /\ bound' = bound \cup {p}
  /\ Welcome(p)
  /\ UNCHANGED <<lmQueue, gmQueue>>

\* JOIN is served on the session's own strand.
OnJoin(p) ==
  /\ OnRawMessage(p)
  /\ MakeEvent(p, Head(up[p])).kind = "Join"
  /\ IF p \in registered
       THEN /\ bound' = bound \cup {p}
            /\ Welcome(p)
       ELSE UNCHANGED <<bound, down>>   \* kAuthFailed finds no session to go to
  /\ UNCHANGED <<lmQueue, gmQueue>>

OnLobbyRequest(p) ==
  /\ OnRawMessage(p)
  /\ MakeEvent(p, Head(up[p])).kind \in LobbyRequests
  /\ LET event == MakeEvent(p, Head(up[p])) IN
     lmQueue' = Append(lmQueue, [kind |-> event.kind, args |-> event.args, nr |-> Head(up[p]).nr])
  /\ UNCHANGED <<bound, gmQueue, down>>

OnGameRequest(p) ==
  /\ OnRawMessage(p)
  /\ MakeEvent(p, Head(up[p])).kind \in GameRequests
  /\ gmQueue' = Append(gmQueue, MakeEvent(p, Head(up[p])))
  /\ UNCHANGED <<bound, lmQueue, down>>

\* No event: the message is dropped.
OnNoEvent(p) ==
  /\ OnRawMessage(p)
  /\ MakeEvent(p, Head(up[p])).kind = "none"
  /\ UNCHANGED <<bound, lmQueue, gmQueue, down>>

----------------------------------------------------------------------------
(* ResponseSender *)

\* Slip: an answer nobody subscribed to.
SubscriptionsWithoutCreated ==
  [LobbyCreationFailed |-> "PartyNotCreated", ListLobbies |-> "ListPartiesCreated",
   JoinLobby |-> "PlayerJoinedParty", JoinLobbyFailed |-> "PlayerNotJoinedParty"]

\* Slip: a failed creation is answered as a failed join.
SubscriptionsMixedUp ==
  [LobbyCreated |-> "PartyCreated", LobbyCreationFailed |-> "PlayerNotJoinedParty",
   ListLobbies |-> "ListPartiesCreated",
   JoinLobby |-> "PlayerJoinedParty", JoinLobbyFailed |-> "PlayerNotJoinedParty"]

\* initialize, for the events that these commands lead to: JoinLobbyNotExists
\* and JoinLobbyFull have no subscription.
Subscriptions ==
  [LobbyCreated |-> "PartyCreated", LobbyCreationFailed |-> "PartyNotCreated",
   ListLobbies |-> "ListPartiesCreated",
   JoinLobby |-> "PlayerJoinedParty", JoinLobbyFailed |-> "PlayerNotJoinedParty"]

Lobbies == {l \in LobbyId : Service!Members(l) # {}}

\* The ids of a list come in some order.
ResponseArgs(response) ==
  CASE response.event = "LobbyCreated" -> <<response.lobby>>
    [] response.event = "ListLobbies" -> SetToSeq(Lobbies)
    [] OTHER -> <<>>

\* A repeated WELCOME may be sent ahead of answers that wait on the session's
\* strand, where it is sent from; nothing here depends on its place.
SendResponse(response, request) ==
  LET p == response.player IN
  IF response.event \in DOMAIN Subscriptions
    THEN down' = [down EXCEPT ![p] =
                    Append(@, Answer(Subscriptions[response.event], ResponseArgs(response),
                                     request.kind, request.nr))]
    ELSE UNCHANGED down

----------------------------------------------------------------------------
(* The managers' strands *)

Tell(event, p, l) ==
  /\ reply' = [event |-> event, player |-> p, lobby |-> l]
  /\ Service!Tell

OnCreateLobby(p) ==
  \/ \E l \in LobbyId :
       /\ l = Cardinality(founded) + 1
       /\ Service!Create(p, l)
       /\ evicted' = evicted \ {p}
  \/ Tell("LobbyCreationFailed", p, NoLobby) /\ UNCHANGED evicted

OnListLobbies(p) == Tell("ListLobbies", p, NoLobby) /\ UNCHANGED evicted

OnJoinLobby(p, l) ==
  \/ Service!Join(p, l) /\ evicted' = evicted \ {p}
  \/ /\ \E event \in {"JoinLobbyNotExists", "JoinLobbyFull", "JoinLobbyFailed"} : Tell(event, p, l)
     /\ UNCHANGED evicted

\* LobbyManager takes a request; the response is published from its strand.
LobbyManagerStep ==
  /\ lmQueue # <<>>
  /\ lmQueue' = Tail(lmQueue)
  /\ LET request == Head(lmQueue)
         p == request.args[1]
     IN /\ \/ request.kind = "CreateParty" /\ OnCreateLobby(p)
           \/ request.kind = "ListParties" /\ OnListLobbies(p)
           \/ request.kind = "JoinParty" /\ OnJoinLobby(p, request.args[2])
        /\ SendResponse(reply', request)
  /\ UNCHANGED <<up, registered, bound, gmQueue, gm, clientVars>>

GmIdle == [at |-> "idle", lobby |-> NoLobby, leaving |-> {}]

GameManagerKeeps == UNCHANGED <<up, registered, bound, lmQueue, down, clientVars>>

\* START_GAME looks up the player's lobby; MOVE and ATTACK, and a player in no
\* lobby, change nothing here.
TakeGameRequest ==
  /\ gm.at = "idle" /\ gmQueue # <<>>
  /\ gmQueue' = Tail(gmQueue)
  /\ LET request == Head(gmQueue)
         l == lobbyOf[request.args[1]]
     IN gm' = IF request.kind = "StartGame" /\ l # NoLobby
                THEN [GmIdle EXCEPT !.at = "start", !.lobby = l] ELSE GmIdle
  /\ Service!Hush
  /\ GameManagerKeeps /\ UNCHANGED evicted

\* addDungeon, with the lobby's players as they are by now.
AddDungeon ==
  /\ gm.at = "start"
  /\ LET players == Service!Members(gm.lobby) IN
     IF players # {} /\ \A p \in players : gameOf[p] = NoGame
       THEN /\ Service!Start(gm.lobby, CHOOSE g \in GameId : Service!Roster(g) = {})
            /\ gm' = [gm EXCEPT !.at = "read"]
       ELSE Service!Hush /\ gm' = GmIdle
  /\ GameManagerKeeps /\ UNCHANGED <<gmQueue, evicted>>

ReadMembers ==
  /\ gm.at = "read"
  /\ LET players == Service!Members(gm.lobby) IN
     gm' = IF players = {} THEN GmIdle ELSE [gm EXCEPT !.at = "remove", !.leaving = players]
  /\ Service!Hush
  /\ GameManagerKeeps /\ UNCHANGED <<gmQueue, evicted>>

\* Nobody is told; a player who has left since is passed over.
RemoveMember ==
  /\ gm.at = "remove"
  /\ \E p \in gm.leaving :
       /\ gm' = IF gm.leaving = {p} THEN GmIdle ELSE [gm EXCEPT !.leaving = @ \ {p}]
       /\ IF lobbyOf[p] = NoLobby
            THEN Service!Hush /\ UNCHANGED evicted
            ELSE Service!Evict(p) /\ evicted' = evicted \cup {p}
  /\ GameManagerKeeps /\ UNCHANGED gmQueue

GameTickEndsGame ==
  /\ gm.at = "idle"
  /\ \E g \in GameId : Service!Roster(g) # {} /\ Service!End({g})
  /\ GameManagerKeeps /\ UNCHANGED <<gmQueue, gm, evicted>>

----------------------------------------------------------------------------
(* The client hears *)

\* routeMessage.  formatOutput calls an empty list of lobbies malformed, behind
\* the words for a list.
RouteMessage(message) ==
  LET kind == UnpackMessageType(message.type) IN
  CASE kind = "Welcome" -> "WELCOME"
    [] kind = "PartyCreated" /\ message.args # <<>> -> "LOBBY CREATED"
    [] kind = "PartyNotCreated" -> "LOBBY NOT CREATED"
    [] kind = "ListPartiesCreated" -> "LOBBY LIST CREATED"
    [] kind = "ListPartiesNotCreated" -> "LOBBY LIST NOT CREATED"
    [] kind = "PlayerJoinedParty" -> "JOIN LOBBY SUCCESS"
    [] kind = "PlayerNotJoinedParty" -> "JOIN LOBBY FAILED"
    [] kind = "PlayerNotJoinedFullParty" -> "JOIN LOBBY FAILED - LOBBY FULL"
    [] kind = "PlayerNotJoinedNotExistParty" -> "JOIN LOBBY FAILED - LOBBY NOT EXIST"
    [] OTHER -> "not understood"

\* Which lobbies the client may be in, once it has seen a line.
Learn(p, shown, args) ==
  CASE shown = "LOBBY CREATED" -> {args[1]}
    [] shown = "JOIN LOBBY SUCCESS" -> wanted[p]
    [] OTHER -> belief[p]

ShowMessage(p) ==
  /\ down[p] # <<>>
  /\ down' = [down EXCEPT ![p] = Tail(@)]
  /\ LET message == Head(down[p])
         shown == RouteMessage(message)
     IN /\ welcomed' = IF shown = "WELCOME" THEN welcomed \cup {p} ELSE welcomed
        /\ belief' = [belief EXCEPT ![p] = Learn(p, shown, message.args)]
  /\ Service!Hush
  /\ UNCHANGED <<up, registered, bound, lmQueue, gmQueue, gm, wanted, given, asked, evicted>>

----------------------------------------------------------------------------
Args == Seq(Player \cup Nat)
ToServer == [type : 0..1023, args : Args, nr : Nat]
ToClient == [type : 0..1023, args : Seq(LobbyId), to : {"Join"} \cup LobbyRequests, nr : Nat]
LobbyRequest == [kind : LobbyRequests, args : Args, nr : Nat]
GameRequest == [kind : GameRequests, args : Args]

TypeOK ==
  /\ up \in [Player -> Seq(ToServer)] /\ down \in [Player -> Seq(ToClient)]
  /\ bound \subseteq registered /\ registered \subseteq Player
  /\ lmQueue \in Seq(LobbyRequest) /\ gmQueue \in Seq(GameRequest)
  /\ \A i \in DOMAIN lmQueue : lmQueue[i].args[1] \in bound
  /\ \A i \in DOMAIN gmQueue : gmQueue[i].args[1] \in bound
  /\ gm \in [at : {"idle", "start", "read", "remove"}, lobby : LobbyId \cup {NoLobby}, leaving : SUBSET Player]
  /\ lobbyOf \in [Player -> LobbyId \cup {NoLobby}]
  /\ founded \subseteq LobbyId
  /\ gameOf \in [Player -> GameId \cup {NoGame}]
  /\ welcomed \subseteq bound /\ evicted \subseteq Player
  /\ wanted \in [Player -> SUBSET LobbyId]
  /\ belief \in [Player -> SUBSET (LobbyId \cup {NoLobby})]
  /\ given \in 0..MaxCommands /\ asked \in [Player -> Nat]

Init ==
  /\ up = [p \in Player |-> <<>>] /\ down = [p \in Player |-> <<>>]
  /\ registered = {} /\ bound = {}
  /\ lmQueue = <<>> /\ gmQueue = <<>> /\ gm = GmIdle
  /\ Service!Init
  /\ welcomed = {} /\ given = 0 /\ evicted = {}
  /\ wanted = [p \in Player |-> {}]
  /\ belief = [p \in Player |-> {NoLobby}]
  /\ asked = [p \in Player |-> 0]

Next ==
  \/ \E p \in Player :
       \/ RouteCommand(p)
       \/ Register(p)
       \/ OnJoin(p) \/ OnLobbyRequest(p) \/ OnGameRequest(p) \/ OnNoEvent(p)
       \/ ShowMessage(p)
  \/ LobbyManagerStep
  \/ TakeGameRequest \/ AddDungeon \/ ReadMembers \/ RemoveMember
  \/ GameTickEndsGame

Spec == Init /\ [][Next]_vars

----------------------------------------------------------------------------
\* WELCOME is a promise: nothing a client has said is dropped by the router
\* after the client has seen it, although the session is bound on one strand
\* and the requests are served on others.
WelcomeMeansHeard ==
  [][\A p \in welcomed : up'[p] # up[p] /\ Len(up'[p]) < Len(up[p]) =>
       lmQueue' # lmQueue \/ gmQueue' # gmQueue \/ down'[p] # down[p]]_vars

\* Which of the client's lines answer which command.
Shown ==
  [Join |-> {"WELCOME"},
   CreateParty |-> {"LOBBY CREATED", "LOBBY NOT CREATED"},
   ListParties |-> {"LOBBY LIST CREATED", "LOBBY LIST NOT CREATED"},
   JoinParty |-> {"JOIN LOBBY SUCCESS", "JOIN LOBBY FAILED"}]

\* Every message shows the client one of the lines for the command it answers,
\* and the answers to lobby requests come in the order of the requests, one for
\* each at most: whoever knows which requests stay unanswered can tell whose
\* answer he sees.
AnswersInOrder ==
  \A p \in Player :
    /\ \A i \in DOMAIN down[p] : RouteMessage(down[p][i]) \in Shown[down[p][i].to]
    /\ \A i, j \in DOMAIN down[p] :
         i < j /\ down[p][i].to # "Join" /\ down[p][j].to # "Join" => down[p][i].nr < down[p][j].nr

\* A client that has heard every answer sent to it knows where it is: in the
\* lobby it was told of last, or in one of those it asked for, unless a game took
\* it out.  The requests that are never answered (a lobby that is full or does
\* not exist) have changed nothing, nor have those dropped before WELCOME.
KnowsItsLobby ==
  \A p \in Player \ evicted :
    (\A i \in DOMAIN down[p] : down[p][i].to = "Join") => lobbyOf[p] \in belief[p]

----------------------------------------------------------------------------
(* Why the properties hold: what is true of every message on its way *)

\* Whoever sent a message, it is one of its commands, and it has said so.
Meant(p, message) ==
  \E kind \in Commands : \E args \in CommandArgs(p, kind) :
    /\ message.type = PackMessageType(kind) /\ message.args = args
    /\ kind = "JoinParty" => args[1] \in wanted[p]

CommandsAreMeant == \A p \in Player : \A i \in DOMAIN up[p] : Meant(p, up[p][i])

RequestsAreMeant ==
  \A i \in DOMAIN lmQueue :
    lmQueue[i].kind = "JoinParty" => lmQueue[i].args[2] \in wanted[lmQueue[i].args[1]]

\* What is on its way down is understood, and greets only who is bound.
AnswersAreApt ==
  \A p \in Player : \A i \in DOMAIN down[p] :
    /\ RouteMessage(down[p][i]) \in Shown[down[p][i].to]
    /\ down[p][i].to = "Join" => p \in bound

\* The numbers of a player's lobby requests rise from the answers t that are on
\* their way over the strand's queue q to the messages u not yet read.
IsLobbyRequest(message) == UnpackMessageType(message.type) \in LobbyRequests

Ordered(p, t, q, u, n) ==
  /\ \A i, j \in DOMAIN t : i < j /\ t[i].to # "Join" /\ t[j].to # "Join" => t[i].nr < t[j].nr
  /\ \A i, j \in DOMAIN q : i < j /\ q[i].args[1] = p /\ q[j].args[1] = p => q[i].nr < q[j].nr
  /\ \A i, j \in DOMAIN u : i < j /\ IsLobbyRequest(u[i]) /\ IsLobbyRequest(u[j]) => u[i].nr < u[j].nr
  /\ \A i \in DOMAIN t, j \in DOMAIN q : t[i].to # "Join" /\ q[j].args[1] = p => t[i].nr < q[j].nr
  /\ \A i \in DOMAIN t, j \in DOMAIN u : t[i].to # "Join" /\ IsLobbyRequest(u[j]) => t[i].nr < u[j].nr
  /\ \A i \in DOMAIN q, j \in DOMAIN u : q[i].args[1] = p /\ IsLobbyRequest(u[j]) => q[i].nr < u[j].nr
  /\ \A i \in DOMAIN t : t[i].to # "Join" => t[i].nr <= n
  /\ \A i \in DOMAIN q : q[i].args[1] = p => q[i].nr <= n
  /\ \A i \in DOMAIN u : IsLobbyRequest(u[i]) => u[i].nr <= n

RequestsInOrder == \A p \in Player : Ordered(p, down[p], lmQueue, up[p], asked[p])

\* The client will know that it is in lobby l once it has heard the messages t:
\* the last one that tells of a lobby is true, or else what it believes is.
Tells(message) == RouteMessage(message) \in {"LOBBY CREATED", "JOIN LOBBY SUCCESS"}

Told(message, w) == IF RouteMessage(message) = "LOBBY CREATED" THEN {message.args[1]} ELSE w

Informed(l, t, w, b) ==
  /\ (\A i \in DOMAIN t : ~Tells(t[i])) => l \in b
  /\ \A i \in DOMAIN t :
       Tells(t[i]) /\ (\A j \in DOMAIN t : i < j => ~Tells(t[j])) => l \in Told(t[i], w)

WillKnow == \A p \in Player \ evicted : Informed(lobbyOf[p], down[p], wanted[p], belief[p])

Inductive ==
  /\ CommandsAreMeant /\ RequestsAreMeant /\ AnswersAreApt
  /\ RequestsInOrder
  /\ WillKnow

=============================================================================
