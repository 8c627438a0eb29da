------------------------------ MODULE Exchange ------------------------------
(***************************************************************************)
(* What is said between terminal and server, one message at a time: a line *)
(* or a key becomes a message (client/ui/command_router.cpp,               *)
(* keyboard_controller.cpp), the message a CBOR array (wire/serder.cpp),   *)
(* the array an event of the server (app/msg_router.cpp,                   *)
(* msg_dispatcher_dtl.h); an event of the managers becomes an answer       *)
(* (app/response_sender.cpp) and the answer a line on the terminal         *)
(* (client/ui/message_router.cpp).                                         *)
(*                                                                         *)
(* A line is the sequence of its words.  An optional is a set with at most *)
(* one element.                                                            *)
(***************************************************************************)
EXTENDS Messages, Cbor

CONSTANTS PlayerIdOf,  \* for words that are players' names: the numbers (NameCodec)
          Uint64Of,    \* for words that are numbers in uint64_t: the numbers
          SessionId,   \* the session that is spoken through
          Speaker      \* the player it is bound to

-----------------------------------------------------------------------------
(* Commands *)

Direction == <<"UP", "DOWN", "LEFT", "RIGHT">>

DirectionToByte(word) == (CHOOSE i \in DOMAIN Direction : Direction[i] = word) - 1

\* The commands' words.
CommandOf ==
  [JOIN |-> "Join", CREATE_LOBBY |-> "CreateParty", LIST_LOBBY |-> "ListParties",
   JOIN_LOBBY |-> "JoinParty", START_GAME |-> "StartGame", MOVE |-> "Move", ATTACK |-> "Attack"]

\* What follows a command's word, if it is what the command needs; the rest of
\* the line is not looked at.
CommandArgs(kind, words) ==
  LET next == {words[i] : i \in {2} \cap DOMAIN words} IN
  CASE kind = "Join" -> {<<PlayerIdOf[w]>> : w \in next \cap DOMAIN PlayerIdOf}
    [] kind = "JoinParty" -> {<<Uint64Of[w]>> : w \in next \cap DOMAIN Uint64Of}
    [] kind = "Move" -> {<<DirectionToByte(w)>> : w \in next \cap Range(Direction)}
    [] OTHER -> {<<>>}

RouteCommand(words) ==
  IF words # <<>> /\ Head(words) \in DOMAIN CommandOf
  THEN LET kind == CommandOf[Head(words)] IN {Message(kind, args) : args \in CommandArgs(kind, words)}
  ELSE {}

\* commandFromKey, of lower case keys: the line that is routed for a key.
CommandFromKey ==
  [key \in {"w", "a", "s", "d", "x", "1", "2", "3", "4", "5", "6", "7"} |->
     CASE key = "w" -> <<"MOVE", "UP">>
       [] key = "a" -> <<"MOVE", "LEFT">>
       [] key = "s" -> <<"MOVE", "DOWN">>
       [] key = "d" -> <<"MOVE", "RIGHT">>
       [] key = "x" -> <<"ATTACK">>
       [] key = "1" -> <<"JOIN", "12345">>
       [] key = "2" -> <<"CREATE_LOBBY">>
       [] key = "5" -> <<"START_GAME">>
       [] key = "7" -> <<"EXIT">>
       [] OTHER -> <<>>]

-----------------------------------------------------------------------------
(* A message on the wire: its packed type, its arguments *)

SerializeMessage(message) ==
  BuildArray(<<BuildUint(message.type)>> \o [i \in DOMAIN message.args |-> BuildUint(message.args[i])])

\* A type has sixteen bits.
DeserializeMessage(item) ==
  IF item.kind = "array" /\ item.items # <<>>
  THEN {[type |-> n[1] % 65536, args |-> Tail(n)] :
          n \in {m \in ReadUints(item, Len(item.items)) : UnpackMessageType(m[1] % 65536) # "unknown"}}
  ELSE {}

-----------------------------------------------------------------------------
(* The server reads *)

\* Slip: the player behind the arguments.
OnRawMessageSlip(message) ==
  LET kind == UnpackMessageType(message.type)
      args == message.args \o (IF kind \in {"Join", "Reconnect"} THEN <<SessionId>> ELSE <<Speaker>>)
  IN IF kind \in DOMAIN EventFactory /\ TakesArgs(kind, args)
     THEN {Event(EventFactory[kind], args)} ELSE {}

\* OnRawMessage, makeEvent and createEvent: the session, or the player it is
\* bound to, comes before the arguments.
OnRawMessage(message) ==
  LET kind == UnpackMessageType(message.type)
      args == (IF kind \in {"Join", "Reconnect"} THEN <<SessionId>> ELSE <<Speaker>>) \o message.args
  IN IF kind \in DOMAIN EventFactory /\ TakesArgs(kind, args)
     THEN {Event(EventFactory[kind], args)} ELSE {}

-----------------------------------------------------------------------------
(* The server answers *)

\* initialize: what ResponseSender has subscribed to, and the type it sends.
Subscriptions ==
  [PlayerAuthenticated |-> "Welcome", PlayerReconnected |-> "Reconnected",
   PlayerReconnectionFailed |-> "NotReconnected", PlayerAuthenticationFailed |-> "AuthFailed",
   LobbyCreatedResponse |-> "PartyCreated", LobbyCreationFailedResponse |-> "PartyNotCreated",
   ListLobbiesResponse |-> "ListPartiesCreated",
   ListLobbiesFailedResponse |-> "ListPartiesNotCreated",
   JoinLobbyResponse |-> "PlayerJoinedParty", JoinLobbyFailedResponse |-> "PlayerNotJoinedParty",
   LeaveLobbyResponse |-> "PlayerLeavedParty", LeaveLobbyFailedResponse |-> "PlayerNotLeavedParty",
   StartGameResponse |-> "StartGame"]

AnswerArgs(event) ==
  CASE event.type = "PlayerAuthenticationFailed" -> <<event.player_id>>
    [] event.type = "LobbyCreatedResponse" -> <<event.lobby_id>>
    [] event.type = "ListLobbiesResponse" -> event.lobby_ids
    [] OTHER -> <<>>

SendResponse(event) ==
  IF event.type \in DOMAIN Subscriptions
  THEN {Message(Subscriptions[event.type], AnswerArgs(event))} ELSE {}

-----------------------------------------------------------------------------
(* The client shows *)

Lines ==
  [Welcome |-> "WELCOME", PartyNotCreated |-> "LOBBY NOT CREATED",
   ListPartiesNotCreated |-> "LOBBY LIST NOT CREATED",
   PlayerJoinedParty |-> "JOIN LOBBY SUCCESS", PlayerNotJoinedParty |-> "JOIN LOBBY FAILED",
   PlayerNotJoinedFullParty |-> "JOIN LOBBY FAILED - LOBBY FULL",
   PlayerNotJoinedNotExistParty |-> "JOIN LOBBY FAILED - LOBBY NOT EXIST",
   GameStarted |-> "START GAME SUCCESS", GameNotStarted |-> "START GAME FAILED"]

LinesWithArgs ==
  [AuthFailed |-> "AUTHENTICATION FAILED", PartyCreated |-> "LOBBY CREATED",
   ListPartiesCreated |-> "LOBBY LIST CREATED"]

\* formatOutput: all of a list, the first argument otherwise.  A name stands for
\* its number here.
FormatOutput(kind, args) ==
  IF args = <<>> THEN [says |-> <<LinesWithArgs[kind], "malformed">>, of |-> <<>>]
  ELSE [says |-> <<LinesWithArgs[kind]>>, of |-> IF kind = "ListPartiesCreated" THEN args ELSE <<Head(args)>>]

\* routeMessage, for what is no game state.
RouteMessage(message) ==
  LET kind == UnpackMessageType(message.type) IN
  CASE kind \in DOMAIN Lines -> [says |-> <<Lines[kind]>>, of |-> <<>>]
    [] kind \in DOMAIN LinesWithArgs -> FormatOutput(kind, message.args)
    [] OTHER -> [says |-> <<"Unknown message">>, of |-> <<>>]

=============================================================================
