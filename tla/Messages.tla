------------------------------ MODULE Messages ------------------------------
(***************************************************************************)
(* The vocabulary of client and server: the types of messages and the      *)
(* number a type is packed into (common/types/message_types.h,             *)
(* message_utils.h), the server's events with their fields                 *)
(* (network/events.h, app/events.h, domain/core/events.h), and which event *)
(* a message becomes (app/msg_dispatcher.cpp).                             *)
(***************************************************************************)
EXTENDS Integers, SequencesExt

NetworkKinds ==
  <<"Ping", "Pong", "Join", "Welcome", "AuthFailed", "Reconnect", "Reconnected", "NotReconnected">>

AppKinds ==
  <<"CreateParty", "PartyCreated", "PartyNotCreated",
    "ListParties", "ListPartiesCreated", "ListPartiesNotCreated",
    "JoinParty", "PlayerJoinedParty", "PlayerNotJoinedParty",
    "LeaveParty", "PlayerLeavedParty", "PlayerNotLeavedParty",
    "StartGame", "GameStarted", "GameNotStarted",
    "PlayerNotJoinedFullParty", "PlayerNotJoinedNotExistParty">>

DomainKinds ==
  <<"Move", "PlayerMoved", "PlayerNotMoved", "Attack", "PlayerAttacked", "PlayerNotAttacked",
    "StateUpdate", "StateNotUpdated", "GameOver">>

Kinds == <<NetworkKinds, AppKinds, DomainKinds>>

\* packMessageType: the level above eight bits of id.
PackMessageType(kind) ==
  LET level == CHOOSE v \in 1..3 : \E i \in 1..Len(Kinds[v]) : Kinds[v][i] = kind
      id == CHOOSE i \in 1..Len(Kinds[level]) : Kinds[level][i] = kind
  IN (level - 1) * 256 + (id - 1)

\* unpackMessageType: "unknown" for a level or an id that does not exist.
UnpackMessageType(code) ==
  LET level == code \div 256
      id == code % 256
  IN IF level < 3 /\ id < Len(Kinds[level + 1]) THEN Kinds[level + 1][id + 1] ELSE "unknown"

Message(kind, args) == [type |-> PackMessageType(kind), args |-> args]

-----------------------------------------------------------------------------
(* Events: their fields, in the order of the constructors' parameters *)

OfSession == <<"session_id">>
OfPlayer == <<"player_id">>
OfLobby == <<"lobby_id">>
OfGame == <<"game_id">>

NetworkEvents ==
  [ClientConnected |-> <<"session">>, ClientDisconnected |-> <<"session">>,
   Ping |-> OfSession, Pong |-> OfSession, RawMessageReceived |-> OfSession \o <<"message">>]

AccountEvents ==
  [AuthRequested |-> OfSession \o OfPlayer, PlayerAuthenticated |-> OfSession \o OfPlayer,
   PlayerAuthenticationFailed |-> OfSession \o OfPlayer,
   ReconnectRequested |-> OfSession \o OfPlayer, PlayerReconnected |-> OfSession \o OfPlayer,
   PlayerReconnectionFailed |-> OfSession \o OfPlayer]

CreateAndListEvents ==
  [CreateLobbyRequest |-> OfPlayer, LobbyCreatedResponse |-> OfPlayer \o OfLobby,
   LobbyCreationFailedResponse |-> OfPlayer,
   ListLobbiesRequest |-> OfPlayer, ListLobbiesResponse |-> OfPlayer \o <<"lobby_ids">>,
   ListLobbiesFailedResponse |-> OfPlayer]

JoinAndLeaveEvents ==
  [JoinLobbyRequest |-> OfPlayer \o OfLobby, JoinLobbyResponse |-> OfPlayer,
   JoinLobbyFailedResponse |-> OfPlayer, JoinLobbyNotExistsResponse |-> OfPlayer,
   JoinLobbyFullResponse |-> OfPlayer,
   LeaveLobbyRequest |-> OfPlayer, LeaveLobbyResponse |-> OfPlayer,
   LeaveLobbyFailedResponse |-> OfPlayer, LeaveLobbyNotConsistsInLobbyResponse |-> OfPlayer]

ReadyEvents ==
  [PlayerReadyRequest |-> OfPlayer \o <<"is_ready">>, PlayerReadyResponse |-> OfPlayer,
   PlayerReadyFailedResponse |-> OfPlayer]

GameEvents ==
  [StartGameRequest |-> OfPlayer, StartGameResponse |-> OfPlayer \o OfGame,
   StartGameLobbyNotReadyResponse |-> OfPlayer, StartGameNotTheLeaderResponse |-> OfPlayer,
   MoveRequest |-> OfPlayer \o <<"direction">>, AttackRequest |-> OfPlayer,
   GameStateUpdate |-> OfGame \o <<"dungeon_snapshot">>, GameOver |-> OfPlayer]

EventType ==
  UNION {DOMAIN NetworkEvents, DOMAIN AccountEvents, DOMAIN CreateAndListEvents,
         DOMAIN JoinAndLeaveEvents, DOMAIN ReadyEvents, DOMAIN GameEvents}

FieldsOf(type) ==
  CASE type \in DOMAIN NetworkEvents -> NetworkEvents[type]
    [] type \in DOMAIN AccountEvents -> AccountEvents[type]
    [] type \in DOMAIN CreateAndListEvents -> CreateAndListEvents[type]
    [] type \in DOMAIN JoinAndLeaveEvents -> JoinAndLeaveEvents[type]
    [] type \in DOMAIN ReadyEvents -> ReadyEvents[type]
    [] type \in DOMAIN GameEvents -> GameEvents[type]

Fields == [type \in EventType |-> FieldsOf(type)]

\* An event that is made with these arguments.
Event(type, args) ==
  [field \in {"type"} \cup Range(Fields[type]) |->
     IF field = "type" THEN type
     ELSE args[CHOOSE i \in DOMAIN Fields[type] : Fields[type][i] = field]]

\* kEventFactoryMap.
EventFactory ==
  [Join |-> "AuthRequested", Reconnect |-> "ReconnectRequested",
   CreateParty |-> "CreateLobbyRequest", ListParties |-> "ListLobbiesRequest",
   JoinParty |-> "JoinLobbyRequest", LeaveParty |-> "LeaveLobbyRequest",
   StartGame |-> "StartGameRequest", Move |-> "MoveRequest", Attack |-> "AttackRequest"]

\* Slip: a number that is too large for its type is taken.
TakesArgsSlip(kind, args) == Len(args) = Len(Fields[EventFactory[kind]])

\* createEvent: as many arguments as the event has fields; and a number that is
\* to be an enumerator must fit into its underlying type, which for a direction is
\* a byte, whether or not the byte is one of the four.
TakesArgs(kind, args) ==
  /\ Len(args) = Len(Fields[EventFactory[kind]])
  /\ kind = "Move" => args[2] \in 0 .. 255

=============================================================================
