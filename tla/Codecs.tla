------------------------------- MODULE Codecs -------------------------------
(***************************************************************************)
(* Everything that is written on one side to be read on the other: frames  *)
(* in a stream (FrameCodec), and what is in a frame: the number of a name  *)
(* (NameCodec), a command or an answer (Exchange), a picture of the        *)
(* dungeon (Snapshots).  A behaviour is about one of them: a stream is     *)
(* read, or one subject goes through the client's hands and the server's,  *)
(* or the other way, step by step.                                         *)
(***************************************************************************)
EXTENDS FrameCodec, Integers, NameCodec, Exchange, Snapshots

CONSTANTS Name,     \* the names that are typed
          Line,     \* the lines that are typed
          Foreign,  \* the messages that other clients send, of any types and numbers
          Said,     \* the events that are published
          Dungeon   \* the states of dungeons, as createGameState has them

Point == [x : Coordinate, y : Coordinate]
Being == [at : Point, id : Nat, hp : 0 .. HpValues - 1, alive : BOOLEAN]

\* A state is only sent while a player lives, who stands within the corners.
ASSUME CodecsAssumption ==
  /\ Name \subseteq Seq(Character)
  /\ Line \subseteq Seq(STRING)
  /\ Foreign \subseteq [type : Nat, args : Seq(Nat)]
  /\ \A event \in Said :
       event.type = "ListLobbiesResponse" => event.lobby_ids \in Seq(Nat)
  /\ \A d \in Dungeon :
       /\ d \in [blc : Point, trc : Point, barriers : Seq(Point), players : Seq(Being), monsters : Seq(Being)]
       /\ d.blc.x <= d.trc.x /\ d.blc.y <= d.trc.y

VARIABLE journey    \* the subject, what became of it, and where it is

Nowhere == [kind |-> "none"]

Setting(kind, of) == [subject |-> [kind |-> kind, of |-> of], at |-> "made", now |-> {of}]

CodecsInit ==
  \/ StreamInit /\ journey = [subject |-> Nowhere, at |-> "nowhere", now |-> {}]
  \/ /\ items = <<>> /\ arriving = <<>>
     /\ readBuffer = <<>> /\ messages = <<>>
     /\ flatBuffer = <<>> /\ dispatched = <<>>
     /\ \/ \E name \in Name : journey = Setting("name", name)
        \/ \E code \in Code : journey = Setting("code", code)
        \/ \E line \in Line : journey = Setting("line", line)
        \/ \E key \in DOMAIN CommandFromKey : journey = Setting("line", CommandFromKey[key])
        \/ \E message \in Foreign : journey = Setting("message", message)
        \/ \E event \in Said : journey = Setting("event", event)
        \/ \E state \in Dungeon : journey = Setting("state", state)

\* From one place to the next, with what the step makes of what there is now.
Go(kind, from, to, Step(_)) ==
  /\ journey.subject.kind = kind /\ journey.at = from
  /\ journey' = [journey EXCEPT !.at = to, !.now = UNION {Step(v) : v \in @}]
  /\ UNCHANGED streamVars

-----------------------------------------------------------------------------
\* JOIN, and a server that names the player in its answer.
TypeName == Go("name", "made", "sent", HandleJoin)
ShowName == Go("name", "sent", "shown", DecodeString)

\* A number that is a player's for other reasons.
ShowCode == Go("code", "made", "shown", DecodeString)

\* ClientController::sendCommand, MessageRouter.
SendCommand == Go("line", "made", "sent", LAMBDA line : {SerializeMessage(m) : m \in RouteCommand(line)})
HearCommand == Go("line", "sent", "shown", LAMBDA item : UNION {OnRawMessage(m) : m \in DeserializeMessage(item)})

\* The same of a message that no line gives.
SendForeign == Go("message", "made", "sent", LAMBDA message : {SerializeMessage(message)})
HearForeign == Go("message", "sent", "shown", LAMBDA item : UNION {OnRawMessage(m) : m \in DeserializeMessage(item)})

\* routeMessage tries a state first.
RouteRead(item) ==
  IF DeserializeGameState(item) # {}
  THEN {[is |-> "state", value |-> v] : v \in DeserializeGameState(item)}
  ELSE {[is |-> "message", value |-> v] : v \in DeserializeMessage(item)}

\* ResponseSender, ClientController::onMessageReceived.
SendAnswer == Go("event", "made", "sent", LAMBDA event : {SerializeMessage(m) : m \in SendResponse(event)})
ShowAnswer == Go("event", "sent", "shown",
                 LAMBDA item : {RouteMessage(r.value) : r \in {q \in RouteRead(item) : q.is = "message"}})

\* Dungeon::getSnapshot, ResponseSender::onGameStateUpdate, the client.
TakeSnapshot == Go("state", "made", "taken", LAMBDA s : {CreateGameStateDTO(s)})
SendState == Go("state", "taken", "sent", LAMBDA s : {SerializeGameState(s)})
ReadState == Go("state", "sent", "read", RouteRead)
DrawState == Go("state", "read", "shown",
                LAMBDA r : IF r.is = "state" THEN RenderGameState(r.value) ELSE {})

CodecsNext ==
  \/ StreamNext /\ UNCHANGED journey
  \/ TypeName \/ ShowName \/ ShowCode
  \/ SendCommand \/ HearCommand \/ SendForeign \/ HearForeign
  \/ SendAnswer \/ ShowAnswer
  \/ TakeSnapshot \/ SendState \/ ReadState \/ DrawState

CodecsSpec == CodecsInit /\ [][CodecsNext]_<<streamVars, journey>>

-----------------------------------------------------------------------------
Shown(kind) == journey.subject.kind = kind /\ journey.at = "shown"

(***************************************************************************)
(* A name that JOIN takes comes back as it was typed, and JOIN takes every *)
(* name of the right length and letters; no two numbers show the same      *)
(* name, so that who is shown is who is meant (hash.h:24-77).              *)
(***************************************************************************)
NamesSurvive ==
  LET subject == journey.subject IN
  /\ Shown("name") =>
       journey.now = IF /\ Len(subject.of) \in MinNameLen .. MaxPackedLen
                        /\ \A i \in DOMAIN subject.of : subject.of[i] < CharsetSize
                     THEN {subject.of} ELSE {}
  /\ Shown("code") =>
       \A name \in journey.now : EncodeString(name) = {subject.of}

(***************************************************************************)
(* The picture that the state should give, in the dungeon's own signed     *)
(* coordinates: rows from the top, whoever stands in a cell, everybody's   *)
(* health.  Only what is small enough has one, and the client has none for *)
(* a map whose corners are on different sides of zero.                     *)
(***************************************************************************)
OneSide(a, b) == (a < 0) = (b < 0)

HasPicture(d) ==
  /\ OneSide(d.blc.x, d.trc.x) /\ OneSide(d.blc.y, d.trc.y)
  /\ (d.trc.x - d.blc.x + 1) * (d.trc.y - d.blc.y + 1) <= MaxMapCells

StandsAt(entities, x, y) == \E i \in DOMAIN entities : entities[i].at = [x |-> x, y |-> y]

CellOf(d, x, y) ==
  IF StandsAt(d.monsters, x, y) THEN "M"
  ELSE IF StandsAt(d.players, x, y) THEN "@"
  ELSE IF [x |-> x, y |-> y] \in Range(d.barriers) THEN "b" ELSE "."

PictureOf(d) ==
  [rows |-> [i \in 1 .. d.trc.y - d.blc.y + 1 |->
               [j \in 1 .. d.trc.x - d.blc.x + 1 |->
                  CellOf(d, d.blc.x + j - 1, d.trc.y - i + 1)]],
   entities |-> [i \in 1 .. Len(d.players) + Len(d.monsters) |->
                   LET e == (d.players \o d.monsters)[i] IN [id |-> e.id, hp |-> e.hp]],
   instead |-> "none"]

\* The client would draw it, but counts its rows from the top to one below the
\* lowest, and there is none below the least coordinate.
CountsDownTooFar(d) == HasPicture(d) /\ d.blc.y - 1 \notin Coordinate

\* What the client draws of a dungeon is the dungeon, through two changes of
\* representation and two of signedness; it draws no other picture, and none
\* only where there is none (render_game_state.cpp:46-131).  Nothing is claimed
\* of a picture that counts down too far: what it does is not defined
\* (render_game_state.cpp:113-115).
DrawnAsItIs ==
  Shown("state") /\ ~CountsDownTooFar(journey.subject.of) =>
    \E picture \in journey.now :
      /\ journey.now = {picture}
      /\ IF HasPicture(journey.subject.of)
         THEN picture = PictureOf(journey.subject.of)
         ELSE picture.rows = <<>> /\ picture.instead # "none"

(***************************************************************************)
(* What a line should do, and what an event should be told as: read from   *)
(* the words, without the numbers in between.                              *)
(***************************************************************************)
Meant(line) ==
  LET Has(words) == Len(line) >= Len(words) /\ SubSeq(line, 1, Len(words)) = words
      OfPlayers(type) == [type |-> type, player_id |-> Speaker] IN
  UNION {
    {[type |-> "AuthRequested", session_id |-> SessionId, player_id |-> PlayerIdOf[w]] :
       w \in {v \in DOMAIN PlayerIdOf : Has(<<"JOIN", v>>)}},
    {[type |-> "JoinLobbyRequest", player_id |-> Speaker, lobby_id |-> Uint64Of[w]] :
       w \in {v \in DOMAIN Uint64Of : Has(<<"JOIN_LOBBY", v>>)}},
    {[type |-> "MoveRequest", player_id |-> Speaker, direction |-> i] :
       i \in {j \in 0 .. 3 : Has(<<"MOVE", <<"UP", "DOWN", "LEFT", "RIGHT">>[j + 1]>>)}},
    {OfPlayers("CreateLobbyRequest") : w \in {v \in {"CREATE_LOBBY"} : Has(<<v>>)}},
    {OfPlayers("ListLobbiesRequest") : w \in {v \in {"LIST_LOBBY"} : Has(<<v>>)}},
    {OfPlayers("StartGameRequest") : w \in {v \in {"START_GAME"} : Has(<<v>>)}},
    {OfPlayers("AttackRequest") : w \in {v \in {"ATTACK"} : Has(<<v>>)}}}

\* What docs/message_protocol.md promises a player of an event that concerns a
\* request of theirs, in the words that the client has for it
\* (client/ui/message_router.cpp:91-138).
PlainlyTold ==
  [PlayerAuthenticated |-> "WELCOME", LobbyCreationFailedResponse |-> "LOBBY NOT CREATED",
   ListLobbiesFailedResponse |-> "LOBBY LIST NOT CREATED",
   JoinLobbyResponse |-> "JOIN LOBBY SUCCESS", JoinLobbyFailedResponse |-> "JOIN LOBBY FAILED",
   JoinLobbyFullResponse |-> "JOIN LOBBY FAILED - LOBBY FULL",
   JoinLobbyNotExistsResponse |-> "JOIN LOBBY FAILED - LOBBY NOT EXIST",
   StartGameResponse |-> "START GAME SUCCESS",
   StartGameLobbyNotReadyResponse |-> "START GAME FAILED",
   StartGameNotTheLeaderResponse |-> "START GAME FAILED"]

InWords(event) ==
  LET type == event.type IN
  CASE type \in DOMAIN PlainlyTold -> {[says |-> <<PlainlyTold[type]>>, of |-> <<>>]}
    [] type = "PlayerAuthenticationFailed" ->
         {[says |-> <<"AUTHENTICATION FAILED">>, of |-> <<event.player_id>>]}
    [] type = "LobbyCreatedResponse" -> {[says |-> <<"LOBBY CREATED">>, of |-> <<event.lobby_id>>]}
    [] type = "ListLobbiesResponse" -> {[says |-> <<"LOBBY LIST CREATED">>, of |-> event.lobby_ids]}
    [] OTHER -> {}

\* Where the program falls short of the promise: answers that ResponseSender does
\* not send or sends under another type, answers that the client has no words for,
\* and the list of no lobbies.
NotDelivered ==
  {"JoinLobbyFullResponse", "JoinLobbyNotExistsResponse", "StartGameResponse",
   "StartGameLobbyNotReadyResponse", "StartGameNotTheLeaderResponse"}

NotWorded ==
  {"PlayerReconnected", "PlayerReconnectionFailed", "LeaveLobbyResponse", "LeaveLobbyFailedResponse"}

FallsShort(event) ==
  \/ event.type \in NotDelivered \cup NotWorded
  \/ event.type = "ListLobbiesResponse" /\ event.lobby_ids = <<>>

\* A line by which the client owns that it did not understand.
NotUnderstood(line) == \E i \in DOMAIN line.says : line.says[i] \in {"Unknown message", "malformed"}

\* Nobody else is spoken for, and the numbers are the message's own; a direction is
\* a byte, and one that is too large for it is refused, not cut.
SpeaksForItself(event, args) ==
  /\ IF event.type \in {"AuthRequested", "ReconnectRequested"}
     THEN event.session_id = SessionId /\ args = <<event.player_id>>
     ELSE event.player_id = Speaker
  /\ event.type = "JoinLobbyRequest" => args = <<event.lobby_id>>
  /\ event.type = "MoveRequest" => args = <<event.direction>> /\ event.direction \in 0 .. 255

(***************************************************************************)
(* A command reaches the server's managers as what its words mean, and a   *)
(* line that is none reaches nobody; what another client sends speaks for  *)
(* nobody but its own session and player.  The answer to a command is      *)
(* shown in the words that are its own, and never taken for a state, which *)
(* the client tries first; and where an answer falls short, the client is  *)
(* told nothing rather than something else (command_router.cpp,            *)
(* msg_dispatcher_dtl.h, response_sender.cpp,                              *)
(* client/ui/message_router.cpp:72-142).                                   *)
(***************************************************************************)
UnderstoodAsMeant ==
  LET of == journey.subject.of IN
  /\ Shown("line") => journey.now = Meant(of)
  /\ Shown("message") => \A event \in journey.now : SpeaksForItself(event, of.args)
  /\ Shown("event") =>
       IF FallsShort(of)
       THEN \A line \in journey.now : line \in InWords(of) \/ NotUnderstood(line)
       ELSE journey.now = InWords(of)

=============================================================================
