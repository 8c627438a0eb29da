-------------------------- MODULE ConversationProofs ---------------------------
(***************************************************************************)
(* What a client may rely on, for any number of clients, of commands and   *)
(* of lobbies, and whatever the order in which the strands run: after      *)
(* WELCOME it is heard, it understands the answers, which come in the      *)
(* order of its requests, and when it has heard them it knows where it is. *)
(***************************************************************************)
EXTENDS Conversation, FiniteSetTheorems, TLAPS

--------------------------------------------------------------------------------
(* Types of messages and their numbers *)

LEMMA KindsAreListed ==
  /\ Kinds[1] = NetworkKinds /\ Kinds[2] = AppKinds /\ Kinds[3] = DomainKinds
  /\ Len(Kinds[1]) = 8 /\ Len(Kinds[2]) = 17 /\ Len(Kinds[3]) = 9
BY DEF Kinds, NetworkKinds, AppKinds, DomainKinds

LEMMA NamesDiffer ==
  /\ \A a, b \in 1..8 : NetworkKinds[a] = NetworkKinds[b] => a = b
  /\ \A a, b \in 1..17 : AppKinds[a] = AppKinds[b] => a = b
  /\ \A a, b \in 1..9 : DomainKinds[a] = DomainKinds[b] => a = b
  /\ \A a \in 1..8, b \in 1..9 : DomainKinds[b] # NetworkKinds[a]
  /\ \A a \in 1..8, b \in 1..17 : AppKinds[b] # NetworkKinds[a]
  /\ \A a \in 1..9, b \in 1..17 : AppKinds[b] # DomainKinds[a]
<1>1. \A a, b \in 1..8 : NetworkKinds[a] = NetworkKinds[b] => a = b
  BY DEF NetworkKinds
<1>2. \A a, b \in 1..17 : AppKinds[a] = AppKinds[b] => a = b
  BY SMTT(30) DEF AppKinds
<1>3. \A a, b \in 1..9 : DomainKinds[a] = DomainKinds[b] => a = b
  BY DEF DomainKinds
<1>4. \A a \in 1..8, b \in 1..9 : DomainKinds[b] # NetworkKinds[a]
  BY DEF DomainKinds, NetworkKinds
<1>5. \A a \in 1..8, b \in 1..17 : AppKinds[b] # NetworkKinds[a]
  BY DEF AppKinds, NetworkKinds
<1>6. \A a \in 1..9, b \in 1..17 : AppKinds[b] # DomainKinds[a]
  BY DEF AppKinds, DomainKinds
<1> QED
  BY <1>1, <1>2, <1>3, <1>4, <1>5, <1>6

LEMMA KindsDiffer ==
  ASSUME NEW v \in 1..3, NEW k \in 1..Len(Kinds[v]),
         NEW w \in 1..3, NEW i \in 1..Len(Kinds[w]), Kinds[w][i] = Kinds[v][k]
  PROVE  w = v /\ i = k
<1>1. CASE v = 1
  <2>1. CASE w = 1  BY <1>1, <2>1, NamesDiffer, KindsAreListed
  <2>2. CASE w = 2  BY <1>1, <2>2, NamesDiffer, KindsAreListed
  <2>3. CASE w = 3  BY <1>1, <2>3, NamesDiffer, KindsAreListed
  <2> QED           BY <2>1, <2>2, <2>3
<1>2. CASE v = 2
  <2>1. CASE w = 1  BY <1>2, <2>1, NamesDiffer, KindsAreListed
  <2>2. CASE w = 2  BY <1>2, <2>2, NamesDiffer, KindsAreListed
  <2>3. CASE w = 3  BY <1>2, <2>3, NamesDiffer, KindsAreListed
  <2> QED           BY <2>1, <2>2, <2>3
<1>3. CASE v = 3
  <2>1. CASE w = 1  BY <1>3, <2>1, NamesDiffer, KindsAreListed
  <2>2. CASE w = 2  BY <1>3, <2>2, NamesDiffer, KindsAreListed
  <2>3. CASE w = 3  BY <1>3, <2>3, NamesDiffer, KindsAreListed
  <2> QED           BY <2>1, <2>2, <2>3
<1> QED
  BY <1>1, <1>2, <1>3

LEMMA Packed ==
  ASSUME NEW v \in 1..3, NEW k \in 1..Len(Kinds[v])
  PROVE  PackMessageType(Kinds[v][k]) = (v - 1) * 256 + (k - 1)
<1> DEFINE kind == Kinds[v][k]
           level == CHOOSE w \in 1..3 : \E i \in 1..Len(Kinds[w]) : Kinds[w][i] = kind
           id == CHOOSE i \in 1..Len(Kinds[level]) : Kinds[level][i] = kind
<1>1. \A w \in 1..3 : \A i \in 1..Len(Kinds[w]) : Kinds[w][i] = kind => w = v /\ i = k
  BY KindsDiffer
<1>2. PackMessageType(kind) = (level - 1) * 256 + (id - 1)
  BY Zenon DEF PackMessageType
<1>3. kind = Kinds[v][k]
  OBVIOUS
<1> HIDE DEF kind
<1>4. level = v
  BY <1>1, <1>3
<1> HIDE DEF level
<1>5. id = k
  BY <1>1, <1>3, <1>4
<1> HIDE DEF id
<1> QED
  BY <1>2, <1>3, <1>4, <1>5

LEMMA Unpacked ==
  ASSUME NEW v \in 1..3, NEW k \in 1..Len(Kinds[v])
  PROVE  /\ UnpackMessageType((v - 1) * 256 + (k - 1)) = Kinds[v][k]
         /\ (v - 1) * 256 + (k - 1) \in 0..1023
<1> DEFINE code == (v - 1) * 256 + (k - 1)
<1>1. v = 1 \/ v = 2 \/ v = 3
  OBVIOUS
<1>2. k \in 1..17
  <2>1. CASE v = 1  BY <2>1, KindsAreListed
  <2>2. CASE v = 2  BY <2>2, KindsAreListed
  <2>3. CASE v = 3  BY <2>3, KindsAreListed
  <2> QED           BY <1>1, <2>1, <2>2, <2>3
<1>3. code \div 256 = v - 1 /\ code % 256 = k - 1 /\ code \in 0..1023
  <2>1. CASE v = 1
    <3>1. code = k - 1 /\ k - 1 \in 0..16
      BY <1>2, <2>1
    <3> QED
      BY <2>1, <3>1
  <2>2. CASE v = 2
    <3>1. code = 256 + (k - 1) /\ k - 1 \in 0..16
      BY <1>2, <2>2
    <3>2. code \div 256 = 1 /\ code % 256 = k - 1
      BY <3>1
    <3> QED
      BY <2>2, <3>1, <3>2
  <2>3. CASE v = 3
    <3>1. code = 512 + (k - 1) /\ k - 1 \in 0..16
      BY <1>2, <2>3
    <3>2. code \div 256 = 2 /\ code % 256 = k - 1
      BY <3>1
    <3> QED
      BY <2>3, <3>1, <3>2
  <2> QED
    BY <1>1, <2>1, <2>2, <2>3
<1> HIDE DEF code
<1>4. v - 1 < 3 /\ k - 1 < Len(Kinds[v]) /\ (v - 1) + 1 = v /\ (k - 1) + 1 = k
  BY <1>1, <1>2, KindsAreListed
<1> DEFINE l == code \div 256
           n == code % 256
<1>5. UnpackMessageType(code) = IF l < 3 /\ n < Len(Kinds[l + 1]) THEN Kinds[l + 1][n + 1] ELSE "unknown"
  BY Zenon DEF UnpackMessageType
<1>6. l = v - 1 /\ n = k - 1
  BY <1>3
<1> HIDE DEF l, n
<1>7. l + 1 = v /\ n + 1 = k /\ l < 3
  BY <1>4, <1>6, Zenon
<1>8. n < Len(Kinds[l + 1])
  BY <1>4, <1>6, <1>7, Zenon
<1>9. UnpackMessageType(code) = Kinds[v][k]
  BY <1>5, <1>7, <1>8, Zenon
<1> QED
  BY <1>3, <1>9 DEF code

\* What packMessageType gives, unpackMessageType takes back.
SurvivesPacking(kind) ==
  /\ PackMessageType(kind) \in 0..1023
  /\ UnpackMessageType(PackMessageType(kind)) = kind

\* Every type of message survives the way through its number, which is one of
\* those that packMessageType may give.
THEOREM TypesSurvivePacking ==
  \A v \in 1..3 : \A k \in 1..Len(Kinds[v]) :
    SurvivesPacking(Kinds[v][k])
<1> TAKE v \in 1..3
<1> TAKE k \in 1..Len(Kinds[v])
<1> DEFINE code == (v - 1) * 256 + (k - 1)
<1>1. PackMessageType(Kinds[v][k]) = code
  BY Packed
<1>2. UnpackMessageType(code) = Kinds[v][k] /\ code \in 0..1023
  BY Unpacked, SMTT(30)
<1> HIDE DEF code
<1>3. UnpackMessageType(PackMessageType(Kinds[v][k])) = Kinds[v][k]
  BY <1>1, <1>2, Zenon
<1>4. PackMessageType(Kinds[v][k]) \in 0..1023
  BY <1>1, <1>2, Zenon
<1> QED
  BY <1>3, <1>4 DEF SurvivesPacking

InUse == {"Join", "Welcome"} \cup LobbyRequests \cup GameRequests
  \cup {"PartyCreated", "PartyNotCreated", "ListPartiesCreated", "PlayerJoinedParty", "PlayerNotJoinedParty"}

LEMMA InUseSurvive ==
  ASSUME NEW kind \in InUse
  PROVE  SurvivesPacking(kind)
<1>1. /\ \A k \in 1..8 : SurvivesPacking(NetworkKinds[k])
      /\ \A k \in 1..17 : SurvivesPacking(AppKinds[k])
      /\ \A k \in 1..9 : SurvivesPacking(DomainKinds[k])
  <2>1. 1 \in 1..3 /\ 2 \in 1..3 /\ 3 \in 1..3
    OBVIOUS
  <2>2. /\ \A k \in 1..Len(Kinds[1]) : SurvivesPacking(Kinds[1][k])
        /\ \A k \in 1..Len(Kinds[2]) : SurvivesPacking(Kinds[2][k])
        /\ \A k \in 1..Len(Kinds[3]) : SurvivesPacking(Kinds[3][k])
    BY <2>1, TypesSurvivePacking, Zenon
  <2> QED
    BY <2>2, KindsAreListed, Zenon
<1>2. CASE kind \in {"Join", "Welcome"}
  <2>1. \E k \in 1..8 : NetworkKinds[k] = kind
    BY <1>2 DEF NetworkKinds
  <2> QED
    BY <1>1, <2>1
<1>3. CASE kind \in {"CreateParty", "ListParties", "JoinParty", "StartGame", "PartyCreated",
                     "PartyNotCreated", "ListPartiesCreated", "PlayerJoinedParty", "PlayerNotJoinedParty"}
  <2>1. \E k \in 1..17 : AppKinds[k] = kind
    BY <1>3 DEF AppKinds
  <2> QED
    BY <1>1, <2>1
<1>4. CASE kind \in {"Move", "Attack"}
  <2>1. \E k \in 1..9 : DomainKinds[k] = kind
    BY <1>4 DEF DomainKinds
  <2> QED
    BY <1>1, <2>1
<1> QED
  BY <1>2, <1>3, <1>4 DEF InUse, LobbyRequests, GameRequests

--------------------------------------------------------------------------------
(* What becomes of a command *)

LEMMA CommandFields ==
  /\ Len(Fields["AuthRequested"]) = 2
  /\ Len(Fields["CreateLobbyRequest"]) = 1
  /\ Len(Fields["ListLobbiesRequest"]) = 1
  /\ Len(Fields["JoinLobbyRequest"]) = 2
  /\ Len(Fields["StartGameRequest"]) = 1
  /\ Len(Fields["MoveRequest"]) = 2
  /\ Len(Fields["AttackRequest"]) = 1
<1> DEFINE D1 == DOMAIN NetworkEvents    D2 == DOMAIN AccountEvents
           D3 == DOMAIN CreateAndListEvents  D4 == DOMAIN JoinAndLeaveEvents
           D5 == DOMAIN ReadyEvents      D6 == DOMAIN GameEvents
<1>1. D1 = {"ClientConnected", "ClientDisconnected", "Ping", "Pong", "RawMessageReceived"}
  BY DEF NetworkEvents
<1>2. D2 = {"AuthRequested", "PlayerAuthenticated", "PlayerAuthenticationFailed",
            "ReconnectRequested", "PlayerReconnected", "PlayerReconnectionFailed"}
  BY DEF AccountEvents
<1>3. D3 = {"CreateLobbyRequest", "LobbyCreatedResponse", "LobbyCreationFailedResponse",
            "ListLobbiesRequest", "ListLobbiesResponse", "ListLobbiesFailedResponse"}
  BY DEF CreateAndListEvents
<1>4. D4 = {"JoinLobbyRequest", "JoinLobbyResponse", "JoinLobbyFailedResponse",
            "JoinLobbyNotExistsResponse", "JoinLobbyFullResponse", "LeaveLobbyRequest",
            "LeaveLobbyResponse", "LeaveLobbyFailedResponse", "LeaveLobbyNotConsistsInLobbyResponse"}
  BY DEF JoinAndLeaveEvents
<1>5. D5 = {"PlayerReadyRequest", "PlayerReadyResponse", "PlayerReadyFailedResponse"}
  BY DEF ReadyEvents
<1>6. D6 = {"StartGameRequest", "StartGameResponse", "StartGameLobbyNotReadyResponse",
            "StartGameNotTheLeaderResponse", "MoveRequest", "AttackRequest",
            "GameStateUpdate", "GameOver"}
  BY DEF GameEvents
<1>7. EventType = UNION {D1, D2, D3, D4, D5, D6}
  BY DEF EventType
<1>8. \A type : FieldsOf(type) =
        CASE type \in D1 -> NetworkEvents[type]
          [] type \in D2 -> AccountEvents[type]
          [] type \in D3 -> CreateAndListEvents[type]
          [] type \in D4 -> JoinAndLeaveEvents[type]
          [] type \in D5 -> ReadyEvents[type]
          [] type \in D6 -> GameEvents[type]
  BY Zenon DEF FieldsOf
<1> HIDE DEF D1, D2, D3, D4, D5, D6
<1>9. \A type \in EventType : Fields[type] = FieldsOf(type)
  BY DEF Fields
<1>10. FieldsOf("AuthRequested") = AccountEvents["AuthRequested"]
  <2>1. /\ "AuthRequested" \in D2 /\ "AuthRequested" \notin D1 /\ "AuthRequested" \notin D3
        /\ "AuthRequested" \notin D4 /\ "AuthRequested" \notin D5 /\ "AuthRequested" \notin D6
    BY <1>1, <1>2, <1>3, <1>4, <1>5, <1>6
  <2> QED
    BY <1>8, <2>1, Zenon
<1>11. \A type \in {"CreateLobbyRequest", "ListLobbiesRequest"} : FieldsOf(type) = CreateAndListEvents[type]
  <2> TAKE type \in {"CreateLobbyRequest", "ListLobbiesRequest"}
  <2>1. type \in D3 /\ type \notin D1 /\ type \notin D2 /\ type \notin D4 /\ type \notin D5 /\ type \notin D6
    BY <1>1, <1>2, <1>3, <1>4, <1>5, <1>6
  <2> QED
    BY <1>8, <2>1, Zenon
<1>12. FieldsOf("JoinLobbyRequest") = JoinAndLeaveEvents["JoinLobbyRequest"]
  <2>1. /\ "JoinLobbyRequest" \in D4 /\ "JoinLobbyRequest" \notin D1 /\ "JoinLobbyRequest" \notin D3
        /\ "JoinLobbyRequest" \notin D2 /\ "JoinLobbyRequest" \notin D5 /\ "JoinLobbyRequest" \notin D6
    BY <1>1, <1>2, <1>3, <1>4, <1>5, <1>6
  <2> QED
    BY <1>8, <2>1, Zenon
<1>13. \A type \in {"StartGameRequest", "MoveRequest", "AttackRequest"} : FieldsOf(type) = GameEvents[type]
  <2> TAKE type \in {"StartGameRequest", "MoveRequest", "AttackRequest"}
  <2>1. type \in D6 /\ type \notin D1 /\ type \notin D2 /\ type \notin D3 /\ type \notin D4 /\ type \notin D5
    BY <1>1, <1>2, <1>3, <1>4, <1>5, <1>6
  <2> QED
    BY <1>8, <2>1, Zenon
<1>14. {"AuthRequested", "CreateLobbyRequest", "ListLobbiesRequest", "JoinLobbyRequest",
        "StartGameRequest", "MoveRequest", "AttackRequest"} \subseteq EventType
  BY <1>2, <1>3, <1>4, <1>6, <1>7
<1>15. Len(AccountEvents["AuthRequested"]) = 2
  BY DEF AccountEvents, OfSession, OfPlayer
<1>16. /\ Len(CreateAndListEvents["CreateLobbyRequest"]) = 1
       /\ Len(CreateAndListEvents["ListLobbiesRequest"]) = 1
  BY DEF CreateAndListEvents, OfPlayer
<1>17. Len(JoinAndLeaveEvents["JoinLobbyRequest"]) = 2
  BY DEF JoinAndLeaveEvents, OfPlayer, OfLobby
<1>18. /\ Len(GameEvents["StartGameRequest"]) = 1
       /\ Len(GameEvents["MoveRequest"]) = 2
       /\ Len(GameEvents["AttackRequest"]) = 1
  BY DEF GameEvents, OfPlayer
<1> QED
  BY <1>9, <1>10, <1>11, <1>12, <1>13, <1>14, <1>15, <1>16, <1>17, <1>18

CommandKinds == {"Join"} \cup LobbyRequests \cup GameRequests

LEMMA CommandShape ==
  ASSUME NEW p \in Player, NEW kind \in CommandKinds, NEW args \in CommandArgs(p, kind)
  PROVE  /\ kind = "Join" => args = <<p>>
         /\ kind = "JoinParty" => \E l \in LobbyId : args = <<l>>
         /\ kind = "Move" => args = <<0>>
         /\ kind \in {"CreateParty", "ListParties", "StartGame", "Attack"} => args = <<>>
<1>1. CASE kind = "Join"
  <2>1. CommandArgs(p, kind) = {<<p>>}
    BY <1>1, Zenon DEF CommandArgs
  <2> QED
    BY <1>1, <2>1
<1>2. CASE kind = "JoinParty"
  <2>1. CommandArgs(p, kind) = {<<l>> : l \in LobbyId}
    BY <1>2, Zenon DEF CommandArgs
  <2> QED
    BY <1>2, <2>1
<1>3. CASE kind = "Move"
  <2>1. CommandArgs(p, kind) = {<<0>>}
    BY <1>3, Zenon DEF CommandArgs
  <2> QED
    BY <1>3, <2>1
<1>4. CASE kind \in {"CreateParty", "ListParties", "StartGame", "Attack"}
  <2>1. kind # "Join" /\ kind # "JoinParty" /\ kind # "Move"
    BY <1>4
  <2>2. CommandArgs(p, kind) = {<<>>}
    BY <2>1, Zenon DEF CommandArgs
  <2> QED
    BY <1>4, <2>1, <2>2
<1> QED
  BY <1>1, <1>2, <1>3, <1>4 DEF CommandKinds, LobbyRequests, GameRequests

LEMMA ArgsAdded ==
  ASSUME NEW p, NEW kind \in CommandKinds
  PROVE  /\ kind = "Join" \/ p \in bound => AddedArgs(p, kind) = <<p>>
         /\ kind # "Join" /\ p \notin bound => AddedArgs(p, kind) = <<>>
<1> DEFINE first == {"Join", "Reconnect"}
           second == {"JoinParty", "LeaveParty", "CreateParty", "ListParties", "StartGame", "Move", "Attack"}
<1>1. AddedArgs(p, kind) = CASE kind \in first -> <<p>>
                             [] kind \in second /\ p \in bound -> <<p>>
                             [] OTHER -> <<>>
  BY Zenon DEF AddedArgs
<1>2. /\ kind = "Join" => kind \in first /\ kind \notin second
      /\ kind # "Join" => kind \notin first /\ kind \in second
  BY DEF CommandKinds, LobbyRequests, GameRequests
<1> HIDE DEF first, second
<1>3. kind = "Join" => AddedArgs(p, kind) = <<p>>
  BY <1>1, <1>2, Zenon
<1>4. kind # "Join" /\ p \in bound => AddedArgs(p, kind) = <<p>>
  BY <1>1, <1>2, Zenon
<1>5. kind # "Join" /\ p \notin bound => AddedArgs(p, kind) = <<>>
  BY <1>1, <1>2, Zenon
<1> QED
  BY <1>3, <1>4, <1>5

\* How many arguments the events of the commands take.
Takes(kind) == IF kind \in {"Join", "JoinParty", "Move"} THEN 2 ELSE 1

LEMMA CommandsTake ==
  ASSUME NEW kind \in CommandKinds
  PROVE  /\ kind \in DOMAIN EventFactory
         /\ \A args : TakesArgs(kind, args) <=>
              Len(args) = Takes(kind) /\ (kind = "Move" => args[2] \in 0 .. 255)
<1>1. /\ kind \in DOMAIN EventFactory
      /\ kind = "Join" => EventFactory[kind] = "AuthRequested"
      /\ kind = "CreateParty" => EventFactory[kind] = "CreateLobbyRequest"
      /\ kind = "ListParties" => EventFactory[kind] = "ListLobbiesRequest"
      /\ kind = "JoinParty" => EventFactory[kind] = "JoinLobbyRequest"
      /\ kind = "StartGame" => EventFactory[kind] = "StartGameRequest"
      /\ kind = "Move" => EventFactory[kind] = "MoveRequest"
      /\ kind = "Attack" => EventFactory[kind] = "AttackRequest"
  BY DEF EventFactory, CommandKinds, LobbyRequests, GameRequests
<1>2. Len(Fields[EventFactory[kind]]) = Takes(kind)
  BY <1>1, CommandFields DEF Takes, CommandKinds, LobbyRequests, GameRequests
<1> QED
  BY <1>1, <1>2, Zenon DEF TakesArgs

\* A command becomes an event of its kind with the player in front, or none when
\* the session is not bound.
LEMMA EventOfCommand ==
  ASSUME NEW p \in Player, NEW kind \in CommandKinds, NEW args \in CommandArgs(p, kind),
         NEW message, message.type = PackMessageType(kind), message.args = args
  PROVE  /\ kind = "Join" => MakeEvent(p, message) = [kind |-> "Join", args |-> <<p>> \o <<p>>]
         /\ kind # "Join" /\ p \in bound =>
              MakeEvent(p, message) = [kind |-> kind, args |-> <<p>> \o args]
         /\ kind # "Join" /\ p \notin bound => MakeEvent(p, message) = [kind |-> "none", args |-> <<>>]
<1>1. UnpackMessageType(message.type) = kind
  BY InUseSurvive DEF InUse, CommandKinds, SurvivesPacking
<1> DEFINE added == AddedArgs(p, kind) \o args
<1>2. MakeEvent(p, message) = IF Len(added) = Takes(kind) /\ (kind = "Move" => added[2] \in 0 .. 255) THEN [kind |-> kind, args |-> added]
                              ELSE [kind |-> "none", args |-> <<>>]
  BY <1>1, CommandsTake, Zenon DEF MakeEvent
<1>3. CASE kind = "Join"
  <2>1. args = <<p>> /\ AddedArgs(p, kind) = <<p>>
    BY <1>3, CommandShape, ArgsAdded
  <2>2. \A x : Len(<<p>> \o <<x>>) = 2
    OBVIOUS
  <2>3. added = <<p>> \o <<p>>
    BY <2>1, Zenon
  <2> HIDE DEF added
  <2>4. Len(added) = Takes(kind) /\ kind # "Move"
    BY <1>3, <2>2, <2>3 DEF Takes
  <2> QED
    BY <1>2, <1>3, <2>3, <2>4, Zenon
<1>4. CASE kind # "Join" /\ p \in bound
  <2>1. added = <<p>> \o args
    BY <1>4, ArgsAdded
  <2>2. Len(<<p>> \o args) = Takes(kind)
    <3>1. CASE kind = "JoinParty" \/ kind = "Move"
      <4>1. \E x : args = <<x>>
        <5>1. CASE kind = "JoinParty"  BY <5>1, CommandShape
        <5>2. CASE kind = "Move"       BY <5>2, CommandShape
        <5> QED                        BY <3>1, <5>1, <5>2
      <4>2. \A x : Len(<<p>> \o <<x>>) = 2
        OBVIOUS
      <4> QED
        BY <3>1, <4>1, <4>2 DEF Takes
    <3>2. CASE kind \in {"CreateParty", "ListParties", "StartGame", "Attack"}
      <4>1. args = <<>>
        BY <3>2, CommandShape
      <4>2. Len(<<p>> \o <<>>) = 1
        OBVIOUS
      <4> QED
        BY <3>2, <4>1, <4>2 DEF Takes
    <3> QED
      BY <1>4, <3>1, <3>2 DEF CommandKinds, LobbyRequests, GameRequests
  <2>3. kind = "Move" => (<<p>> \o args)[2] \in 0 .. 255
    <3>1. kind = "Move" => args = <<0>>
      BY CommandShape
    <3>2. \A x : (<<p>> \o <<x>>)[2] = x
      OBVIOUS
    <3>3. 0 \in 0 .. 255
      OBVIOUS
    <3> QED
      BY <3>1, <3>2, <3>3, Zenon
  <2> HIDE DEF added
  <2> QED
    BY <1>2, <1>4, <2>1, <2>2, <2>3, Zenon
<1>5. CASE kind # "Join" /\ p \notin bound
  <2>1. added = <<>> \o args
    BY <1>5, ArgsAdded
  <2>2. Len(<<>> \o args) # Takes(kind)
    BY <1>5, CommandShape DEF Takes, CommandKinds, LobbyRequests, GameRequests
  <2> HIDE DEF added
  <2> QED
    BY <1>2, <1>5, <2>1, <2>2, Zenon
<1> QED
  BY <1>3, <1>4, <1>5

--------------------------------------------------------------------------------
(* Queues: what is put behind and taken from the front *)

LEMMA Put ==
  ASSUME NEW S, NEW s \in Seq(S), NEW x \in S
  PROVE  /\ Append(s, x) \in Seq(S)
         /\ DOMAIN s \subseteq Nat /\ DOMAIN Append(s, x) \subseteq Nat
         /\ \A i \in DOMAIN Append(s, x) :
              \/ i \in DOMAIN s /\ Append(s, x)[i] = s[i]
              \/ i = Len(s) + 1 /\ Append(s, x)[i] = x
         /\ \A i \in DOMAIN s : i \in DOMAIN Append(s, x) /\ Append(s, x)[i] = s[i] /\ i < Len(s) + 1
         /\ Len(s) + 1 \in DOMAIN Append(s, x) /\ Append(s, x)[Len(s) + 1] = x
OBVIOUS

LEMMA Taken ==
  ASSUME NEW S, NEW s \in Seq(S), s # <<>>
  PROVE  /\ Tail(s) \in Seq(S) /\ Head(s) \in S
         /\ DOMAIN s \subseteq Nat /\ DOMAIN Tail(s) \subseteq Nat
         /\ 1 \in DOMAIN s /\ Head(s) = s[1]
         /\ \A i \in DOMAIN Tail(s) : i + 1 \in DOMAIN s /\ 1 < i + 1 /\ Tail(s)[i] = s[i + 1]
         /\ \A i \in DOMAIN s : i # 1 => i - 1 \in DOMAIN Tail(s) /\ Tail(s)[i - 1] = s[i] /\ 1 < i
OBVIOUS

--------------------------------------------------------------------------------
(* What a client will know, as messages are sent to it and it hears them *)

LEMMA AnotherMessage ==
  ASSUME NEW S, NEW t \in Seq(S), NEW m \in S, NEW l, NEW w, NEW b, Informed(l, t, w, b), ~Tells(m)
  PROVE  Informed(l, Append(t, m), w, b)
<1> DEFINE longer == Append(t, m)
<1>1. /\ \A i \in DOMAIN longer : (i \in DOMAIN t /\ longer[i] = t[i]) \/ longer[i] = m
      /\ \A i \in DOMAIN t : i \in DOMAIN longer /\ longer[i] = t[i]
  BY Put
<1> HIDE DEF longer
<1> QED
  BY <1>1 DEF Informed

LEMMA TellingMessage ==
  ASSUME NEW S, NEW t \in Seq(S), NEW m \in S, NEW l, NEW w, NEW b, Tells(m), l \in Told(m, w)
  PROVE  Informed(l, Append(t, m), w, b)
<1> DEFINE longer == Append(t, m)
           last == Len(t) + 1
<1>1. /\ \A i \in DOMAIN longer : i \in DOMAIN t \/ i = last
      /\ \A i \in DOMAIN t : i < last
      /\ last \in DOMAIN longer /\ longer[last] = m
  BY Put
<1> HIDE DEF longer, last
<1> QED
  BY <1>1, SMTT(30) DEF Informed

LEMMA MoreWanted ==
  ASSUME NEW t, NEW l, NEW w, NEW v, NEW b, Informed(l, t, w, b), w \subseteq v
  PROVE  Informed(l, t, v, b)
BY DEF Informed, Told

LEMMA Hearing ==
  ASSUME NEW S, NEW t \in Seq(S), t # <<>>, NEW l, NEW w, NEW b, Informed(l, t, w, b)
  PROVE  Informed(l, Tail(t), w, IF Tells(Head(t)) THEN Told(Head(t), w) ELSE b)
<1> DEFINE rest == Tail(t)
           c == IF Tells(Head(t)) THEN Told(Head(t), w) ELSE b
<1>1. /\ DOMAIN t \subseteq Nat /\ DOMAIN rest \subseteq Nat
      /\ 1 \in DOMAIN t /\ Head(t) = t[1]
      /\ \A i \in DOMAIN rest : i + 1 \in DOMAIN t /\ 1 < i + 1 /\ rest[i] = t[i + 1]
      /\ \A i \in DOMAIN t : i # 1 => i - 1 \in DOMAIN rest /\ rest[i - 1] = t[i] /\ 1 < i
  BY Taken
<1>2. c = IF Tells(t[1]) THEN Told(t[1], w) ELSE b
  BY <1>1
<1> HIDE DEF rest, c
<1>3. ASSUME \A i \in DOMAIN rest : ~Tells(rest[i])
      PROVE  l \in c
  <2>1. \A i \in DOMAIN t : i # 1 => ~Tells(t[i])
    BY <1>1, <1>3
  <2>2. CASE Tells(t[1])
    <3>1. \A j \in DOMAIN t : 1 < j => ~Tells(t[j])
      BY <2>1
    <3> QED
      BY <1>1, <1>2, <2>2, <3>1 DEF Informed
  <2>3. CASE ~Tells(t[1])
    <3>1. \A i \in DOMAIN t : ~Tells(t[i])
      BY <2>1, <2>3
    <3> QED
      BY <1>2, <2>3, <3>1 DEF Informed
  <2> QED
    BY <2>2, <2>3
<1>4. ASSUME NEW i \in DOMAIN rest, Tells(rest[i]), \A j \in DOMAIN rest : i < j => ~Tells(rest[j])
      PROVE  l \in Told(rest[i], w)
  <2>1. i + 1 \in DOMAIN t /\ rest[i] = t[i + 1] /\ i \in Nat
    BY <1>1
  <2>2. ASSUME NEW j \in DOMAIN t, i + 1 < j
        PROVE  ~Tells(t[j])
    <3>1. j # 1 /\ j \in Nat
      BY <1>1, <2>1, <2>2
    <3>2. j - 1 \in DOMAIN rest /\ rest[j - 1] = t[j] /\ i < j - 1
      BY <1>1, <2>1, <2>2, <3>1
    <3> QED
      BY <1>4, <3>2
  <2> QED
    BY <1>4, <2>1, <2>2 DEF Informed
<1> QED
  BY <1>3, <1>4 DEF Informed, rest, c

--------------------------------------------------------------------------------
(* The numbers of a client's requests, from its commands to the answers *)

\* Queues of things that have a number.
Queues(A, Q, U, t, q, u) ==
  /\ t \in Seq(A) /\ \A x \in A : x.nr \in Nat
  /\ q \in Seq(Q) /\ \A x \in Q : x.nr \in Nat
  /\ u \in Seq(U) /\ \A x \in U : x.nr \in Nat

LEMMA NumbersAreNaturals ==
  ASSUME NEW A, NEW Q, NEW U, NEW t, NEW q, NEW u, Queues(A, Q, U, t, q, u)
  PROVE  /\ \A i \in DOMAIN t : t[i] \in A /\ t[i].nr \in Nat
         /\ \A i \in DOMAIN q : q[i] \in Q /\ q[i].nr \in Nat
         /\ \A i \in DOMAIN u : u[i] \in U /\ u[i].nr \in Nat
<1>1. /\ \A i \in DOMAIN t : t[i] \in A
      /\ \A i \in DOMAIN q : q[i] \in Q
      /\ \A i \in DOMAIN u : u[i] \in U
  BY DEF Queues
<1> QED
  BY <1>1 DEF Queues

LEMMA AnotherCommand ==
  ASSUME NEW A, NEW Q, NEW U, NEW t, NEW q, NEW u, Queues(A, Q, U, t, q, u),
         NEW p, NEW n \in Nat, Ordered(p, t, q, u, n),
         NEW m \in U, NEW k \in Nat, n <= k, IsLobbyRequest(m) => m.nr = k /\ n < k
  PROVE  Ordered(p, t, q, Append(u, m), k)
<1> DEFINE v == Append(u, m)
<1>1. /\ \A i \in DOMAIN v : (i \in DOMAIN u /\ v[i] = u[i]) \/ (i = Len(u) + 1 /\ v[i] = m)
      /\ \A i \in DOMAIN u : i < Len(u) + 1
      /\ DOMAIN u \subseteq Nat /\ DOMAIN v \subseteq Nat
  BY Put DEF Queues
<1>2. /\ \A i \in DOMAIN t : t[i].nr \in Nat
      /\ \A i \in DOMAIN q : q[i].nr \in Nat
      /\ \A i \in DOMAIN u : u[i].nr \in Nat
  BY NumbersAreNaturals
<1>3. Len(u) \in Nat
  BY DEF Queues
<1> HIDE DEF v
<1>4. /\ \A i \in DOMAIN t : t[i].to # "Join" => t[i].nr <= n
      /\ \A i \in DOMAIN q : q[i].args[1] = p => q[i].nr <= n
      /\ \A i \in DOMAIN u : IsLobbyRequest(u[i]) => u[i].nr <= n
  BY DEF Ordered
<1>5. /\ \A i \in DOMAIN t : t[i].to # "Join" => t[i].nr <= k
      /\ \A i \in DOMAIN q : q[i].args[1] = p => q[i].nr <= k
      /\ \A i \in DOMAIN v : IsLobbyRequest(v[i]) => v[i].nr <= k
  BY <1>1, <1>2, <1>4
<1>6. \A i, j \in DOMAIN v :
        i < j /\ IsLobbyRequest(v[i]) /\ IsLobbyRequest(v[j]) => v[i].nr < v[j].nr
  <2> SUFFICES ASSUME NEW i \in DOMAIN v, NEW j \in DOMAIN v,
                      i < j, IsLobbyRequest(v[i]), IsLobbyRequest(v[j])
               PROVE  v[i].nr < v[j].nr
    OBVIOUS
  <2>1. i \in DOMAIN u /\ v[i] = u[i]
    BY <1>1, <1>3
  <2>2. CASE j \in DOMAIN u /\ v[j] = u[j]
    BY <2>1, <2>2 DEF Ordered
  <2>3. CASE v[j] = m
    BY <1>2, <1>4, <2>1, <2>3
  <2> QED
    BY <1>1, <2>2, <2>3
<1>7. \A i \in DOMAIN t, j \in DOMAIN v : t[i].to # "Join" /\ IsLobbyRequest(v[j]) => t[i].nr < v[j].nr
  BY <1>1, <1>2, <1>4 DEF Ordered
<1>8. \A i \in DOMAIN q, j \in DOMAIN v : q[i].args[1] = p /\ IsLobbyRequest(v[j]) => q[i].nr < v[j].nr
  BY <1>1, <1>2, <1>4 DEF Ordered
<1> QED
  BY <1>5, <1>6, <1>7, <1>8 DEF Ordered, v

LEMMA CommandDropped ==
  ASSUME NEW A, NEW Q, NEW U, NEW t, NEW q, NEW u, Queues(A, Q, U, t, q, u),
         NEW p, NEW n \in Nat, Ordered(p, t, q, u, n), u # <<>>
  PROVE  Ordered(p, t, q, Tail(u), n)
<1> DEFINE v == Tail(u)
<1>1. /\ \A i \in DOMAIN v : i + 1 \in DOMAIN u /\ v[i] = u[i + 1]
      /\ DOMAIN u \subseteq Nat /\ DOMAIN v \subseteq Nat
  BY Taken DEF Queues
<1> HIDE DEF v
<1>2. \A i, j \in DOMAIN v : i < j => i + 1 < j + 1
  BY <1>1
<1> QED
  BY <1>1, <1>2 DEF Ordered, v

LEMMA RequestPassed ==
  ASSUME NEW A, NEW Q, NEW U, NEW t, NEW q, NEW u, Queues(A, Q, U, t, q, u),
         NEW p, NEW n \in Nat, Ordered(p, t, q, u, n), u # <<>>, IsLobbyRequest(Head(u)),
         NEW r \in Q, r.nr = Head(u).nr
  PROVE  Ordered(p, t, Append(q, r), Tail(u), n)
<1> DEFINE v == Tail(u)
           s == Append(q, r)
<1>1. /\ \A i \in DOMAIN v : i + 1 \in DOMAIN u /\ v[i] = u[i + 1] /\ 1 < i + 1
      /\ DOMAIN u \subseteq Nat /\ 1 \in DOMAIN u /\ Head(u) = u[1]
  BY Taken DEF Queues
<1>2. /\ \A i \in DOMAIN s : (i \in DOMAIN q /\ s[i] = q[i]) \/ (i = Len(q) + 1 /\ s[i] = r)
      /\ \A i \in DOMAIN q : i < Len(q) + 1
      /\ DOMAIN q \subseteq Nat
  BY Put DEF Queues
<1>3. Len(q) \in Nat
  BY DEF Queues
<1>4. Ordered(p, t, q, v, n)
  BY CommandDropped
<1>5. /\ \A i \in DOMAIN t : t[i].nr \in Nat
      /\ \A i \in DOMAIN q : q[i].nr \in Nat
      /\ \A i \in DOMAIN u : u[i].nr \in Nat
  BY NumbersAreNaturals
<1> HIDE DEF v, s
<1>6. IsLobbyRequest(u[1]) /\ r.nr = u[1].nr
  BY <1>1
<1>7. /\ \A i \in DOMAIN t : t[i].to # "Join" => t[i].nr < r.nr
      /\ \A i \in DOMAIN q : q[i].args[1] = p => q[i].nr < r.nr
      /\ \A i \in DOMAIN v : IsLobbyRequest(v[i]) => r.nr < v[i].nr
      /\ r.nr <= n
  BY <1>1, <1>6 DEF Ordered
<1>8. \A i, j \in DOMAIN s : i < j /\ s[i].args[1] = p /\ s[j].args[1] = p => s[i].nr < s[j].nr
  <2> SUFFICES ASSUME NEW i \in DOMAIN s, NEW j \in DOMAIN s,
                      i < j, s[i].args[1] = p, s[j].args[1] = p
               PROVE  s[i].nr < s[j].nr
    OBVIOUS
  <2>1. i \in DOMAIN q /\ s[i] = q[i]
    BY <1>2, <1>3
  <2>2. CASE j \in DOMAIN q /\ s[j] = q[j]
    BY <2>1, <2>2 DEF Ordered
  <2>3. CASE s[j] = r
    BY <1>7, <2>1, <2>3
  <2> QED
    BY <1>2, <2>2, <2>3
<1>9. \A i \in DOMAIN t, j \in DOMAIN s : t[i].to # "Join" /\ s[j].args[1] = p => t[i].nr < s[j].nr
  BY <1>2, <1>7 DEF Ordered
<1>10. \A i \in DOMAIN s, j \in DOMAIN v : s[i].args[1] = p /\ IsLobbyRequest(v[j]) => s[i].nr < v[j].nr
  BY <1>2, <1>4, <1>7 DEF Ordered
<1>11. \A i \in DOMAIN s : s[i].args[1] = p => s[i].nr <= n
  BY <1>2, <1>7 DEF Ordered
<1> QED
  BY <1>4, <1>8, <1>9, <1>10, <1>11 DEF Ordered, v, s

\* A request of somebody else is put on the strand.
LEMMA AnotherRequest ==
  ASSUME NEW A, NEW Q, NEW U, NEW t, NEW q, NEW u, Queues(A, Q, U, t, q, u),
         NEW p, NEW n \in Nat, Ordered(p, t, q, u, n), NEW r \in Q, r.args[1] # p
  PROVE  Ordered(p, t, Append(q, r), u, n)
<1> DEFINE s == Append(q, r)
<1>1. \A i \in DOMAIN s : (i \in DOMAIN q /\ s[i] = q[i]) \/ s[i].args[1] # p
  BY Put DEF Queues
<1> HIDE DEF s
<1> QED
  BY <1>1 DEF Ordered, s

LEMMA RequestTaken ==
  ASSUME NEW A, NEW Q, NEW U, NEW t, NEW q, NEW u, Queues(A, Q, U, t, q, u),
         NEW p, NEW n \in Nat, Ordered(p, t, q, u, n), q # <<>>
  PROVE  Ordered(p, t, Tail(q), u, n)
<1> DEFINE s == Tail(q)
<1>1. /\ \A i \in DOMAIN s : i + 1 \in DOMAIN q /\ s[i] = q[i + 1]
      /\ DOMAIN q \subseteq Nat /\ DOMAIN s \subseteq Nat
  BY Taken DEF Queues
<1> HIDE DEF s
<1>2. \A i, j \in DOMAIN s : i < j => i + 1 < j + 1
  BY <1>1
<1> QED
  BY <1>1, <1>2 DEF Ordered, s

LEMMA RequestAnswered ==
  ASSUME NEW A, NEW Q, NEW U, NEW t, NEW q, NEW u, Queues(A, Q, U, t, q, u),
         NEW p, NEW n \in Nat, Ordered(p, t, q, u, n), q # <<>>, Head(q).args[1] = p,
         NEW a \in A, a.nr = Head(q).nr
  PROVE  Ordered(p, Append(t, a), Tail(q), u, n)
<1> DEFINE s == Tail(q)
           v == Append(t, a)
<1>1. /\ \A i \in DOMAIN s : i + 1 \in DOMAIN q /\ s[i] = q[i + 1] /\ 1 < i + 1
      /\ DOMAIN q \subseteq Nat /\ 1 \in DOMAIN q /\ Head(q) = q[1]
  BY Taken DEF Queues
<1>2. /\ \A i \in DOMAIN v : (i \in DOMAIN t /\ v[i] = t[i]) \/ (i = Len(t) + 1 /\ v[i] = a)
      /\ \A i \in DOMAIN t : i < Len(t) + 1
      /\ DOMAIN t \subseteq Nat
  BY Put DEF Queues
<1>3. Len(t) \in Nat
  BY DEF Queues
<1>4. Ordered(p, t, s, u, n)
  BY RequestTaken
<1>5. /\ \A i \in DOMAIN t : t[i].nr \in Nat
      /\ \A i \in DOMAIN q : q[i].nr \in Nat
      /\ \A i \in DOMAIN u : u[i].nr \in Nat
  BY NumbersAreNaturals
<1> HIDE DEF v, s
<1>6. q[1].args[1] = p /\ a.nr = q[1].nr
  BY <1>1
<1>7. /\ \A i \in DOMAIN t : t[i].to # "Join" => t[i].nr < a.nr
      /\ \A i \in DOMAIN s : s[i].args[1] = p => a.nr < s[i].nr
      /\ \A i \in DOMAIN u : IsLobbyRequest(u[i]) => a.nr < u[i].nr
      /\ a.nr <= n
  BY <1>1, <1>6 DEF Ordered
<1>8. \A i, j \in DOMAIN v : i < j /\ v[i].to # "Join" /\ v[j].to # "Join" => v[i].nr < v[j].nr
  <2> SUFFICES ASSUME NEW i \in DOMAIN v, NEW j \in DOMAIN v,
                      i < j, v[i].to # "Join", v[j].to # "Join"
               PROVE  v[i].nr < v[j].nr
    OBVIOUS
  <2>1. i \in DOMAIN t /\ v[i] = t[i]
    BY <1>2, <1>3
  <2>2. CASE j \in DOMAIN t /\ v[j] = t[j]
    BY <2>1, <2>2 DEF Ordered
  <2>3. CASE v[j] = a
    BY <1>7, <2>1, <2>3
  <2> QED
    BY <1>2, <2>2, <2>3
<1>9. \A i \in DOMAIN v, j \in DOMAIN s : v[i].to # "Join" /\ s[j].args[1] = p => v[i].nr < s[j].nr
  BY <1>2, <1>4, <1>7 DEF Ordered
<1>10. \A i \in DOMAIN v, j \in DOMAIN u : v[i].to # "Join" /\ IsLobbyRequest(u[j]) => v[i].nr < u[j].nr
  BY <1>2, <1>7 DEF Ordered
<1>11. \A i \in DOMAIN v : v[i].to # "Join" => v[i].nr <= n
  BY <1>2, <1>7 DEF Ordered
<1> QED
  BY <1>4, <1>8, <1>9, <1>10, <1>11 DEF Ordered, v, s

LEMMA Welcomed ==
  ASSUME NEW A, NEW Q, NEW U, NEW t, NEW q, NEW u, Queues(A, Q, U, t, q, u),
         NEW p, NEW n \in Nat, Ordered(p, t, q, u, n), NEW a \in A, a.to = "Join"
  PROVE  Ordered(p, Append(t, a), q, u, n)
<1> DEFINE v == Append(t, a)
<1>1. \A i \in DOMAIN v : (i \in DOMAIN t /\ v[i] = t[i]) \/ v[i].to = "Join"
  BY Put DEF Queues
<1> HIDE DEF v
<1> QED
  BY <1>1 DEF Ordered, v

LEMMA AnswerHeard ==
  ASSUME NEW A, NEW Q, NEW U, NEW t, NEW q, NEW u, Queues(A, Q, U, t, q, u),
         NEW p, NEW n \in Nat, Ordered(p, t, q, u, n), t # <<>>
  PROVE  Ordered(p, Tail(t), q, u, n)
<1> DEFINE v == Tail(t)
<1>1. /\ \A i \in DOMAIN v : i + 1 \in DOMAIN t /\ v[i] = t[i + 1]
      /\ DOMAIN t \subseteq Nat /\ DOMAIN v \subseteq Nat
  BY Taken DEF Queues
<1> HIDE DEF v
<1>2. \A i, j \in DOMAIN v : i < j => i + 1 < j + 1
  BY <1>1
<1> QED
  BY <1>1, <1>2 DEF Ordered, v

--------------------------------------------------------------------------------
(* What the client's side makes of an answer *)

LEMMA LinesShown ==
  ASSUME NEW message
  PROVE  /\ message.type = PackMessageType("Welcome") => RouteMessage(message) = "WELCOME"
         /\ message.type = PackMessageType("PartyCreated") /\ message.args # <<>> =>
              RouteMessage(message) = "LOBBY CREATED"
         /\ RouteMessage(message) = "LOBBY CREATED" => message.args # <<>>
         /\ message.type = PackMessageType("PartyNotCreated") =>
              RouteMessage(message) = "LOBBY NOT CREATED"
         /\ message.type = PackMessageType("ListPartiesCreated") =>
              RouteMessage(message) = "LOBBY LIST CREATED"
         /\ message.type = PackMessageType("PlayerJoinedParty") =>
              RouteMessage(message) = "JOIN LOBBY SUCCESS"
         /\ message.type = PackMessageType("PlayerNotJoinedParty") =>
              RouteMessage(message) = "JOIN LOBBY FAILED"
<1> DEFINE kind == UnpackMessageType(message.type)
<1>1. \A k \in {"Welcome", "PartyCreated", "PartyNotCreated", "ListPartiesCreated",
               "PlayerJoinedParty", "PlayerNotJoinedParty"} :
        message.type = PackMessageType(k) => kind = k
  <2> TAKE k \in {"Welcome", "PartyCreated", "PartyNotCreated", "ListPartiesCreated",
                  "PlayerJoinedParty", "PlayerNotJoinedParty"}
  <2>1. SurvivesPacking(k)
    BY InUseSurvive DEF InUse
  <2> QED
    BY <2>1, Zenon DEF SurvivesPacking
<1>2. RouteMessage(message) =
        CASE kind = "Welcome" -> "WELCOME"
          [] kind = "PartyCreated" /\ message.args # <<>> -> "LOBBY CREATED"
          [] kind = "PartyNotCreated" -> "LOBBY NOT CREATED"
          [] kind = "ListPartiesCreated" -> "LOBBY LIST CREATED"
          [] kind = "ListPartiesNotCreated" -> "LOBBY LIST NOT CREATED"
          [] kind = "PlayerJoinedParty" -> "JOIN LOBBY SUCCESS"
          [] kind = "PlayerNotJoinedParty" -> "JOIN LOBBY FAILED"
          [] kind = "PlayerNotJoinedFullParty" -> "JOIN LOBBY FAILED - LOBBY FULL"
          [] kind = "PlayerNotJoinedNotExistParty" -> "JOIN LOBBY FAILED - LOBBY NOT EXIST"
          [] OTHER -> "not understood"
  BY Zenon DEF RouteMessage
<1> HIDE DEF kind
<1>3. kind = "Welcome" => RouteMessage(message) = "WELCOME"
  BY <1>2, Zenon
<1>4. kind = "PartyCreated" /\ message.args # <<>> => RouteMessage(message) = "LOBBY CREATED"
  BY <1>2, Zenon
<1>5. kind = "PartyNotCreated" => RouteMessage(message) = "LOBBY NOT CREATED"
  BY <1>2, Zenon
<1>6. kind = "ListPartiesCreated" => RouteMessage(message) = "LOBBY LIST CREATED"
  BY <1>2, Zenon
<1>7. kind = "PlayerJoinedParty" => RouteMessage(message) = "JOIN LOBBY SUCCESS"
  BY <1>2, Zenon
<1>8. kind = "PlayerNotJoinedParty" => RouteMessage(message) = "JOIN LOBBY FAILED"
  BY <1>2, Zenon
<1>9. RouteMessage(message) = "LOBBY CREATED" => message.args # <<>>
  BY <1>2, Zenon
<1> QED
  BY <1>1, <1>3, <1>4, <1>5, <1>6, <1>7, <1>8, <1>9

\* What a client learns from a line is what the line tells.
LEMMA LearnsWhatIsTold ==
  ASSUME NEW p, NEW message
  PROVE  Learn(p, RouteMessage(message), message.args)
           = IF Tells(message) THEN Told(message, wanted[p]) ELSE belief[p]
<1> DEFINE shown == RouteMessage(message)
<1>1. Learn(p, shown, message.args) =
        CASE shown = "LOBBY CREATED" -> {message.args[1]}
          [] shown = "JOIN LOBBY SUCCESS" -> wanted[p]
          [] OTHER -> belief[p]
  BY Zenon DEF Learn
<1>2. Tells(message) <=> shown \in {"LOBBY CREATED", "JOIN LOBBY SUCCESS"}
  BY DEF Tells
<1>3. Told(message, wanted[p]) = IF shown = "LOBBY CREATED" THEN {message.args[1]} ELSE wanted[p]
  BY DEF Told
<1> HIDE DEF shown
<1>4. CASE shown = "LOBBY CREATED"
  <2>1. Learn(p, shown, message.args) = {message.args[1]}
    BY <1>1, <1>4, Zenon
  <2> QED
    BY <1>2, <1>3, <1>4, <2>1 DEF shown
<1>5. CASE shown = "JOIN LOBBY SUCCESS"
  <2>1. Learn(p, shown, message.args) = wanted[p]
    BY <1>1, <1>5, Zenon
  <2> QED
    BY <1>2, <1>3, <1>5, <2>1 DEF shown
<1>6. CASE shown # "LOBBY CREATED" /\ shown # "JOIN LOBBY SUCCESS"
  <2>1. Learn(p, shown, message.args) = belief[p]
    BY <1>1, <1>6, Zenon
  <2> QED
    BY <1>2, <1>3, <1>6, <2>1 DEF shown
<1> QED
  BY <1>4, <1>5, <1>6

LEMMA AnswersAreMessages ==
  ASSUME NEW kind, SurvivesPacking(kind), NEW args \in Seq(LobbyId), NEW to \in {"Join"} \cup LobbyRequests, NEW nr \in Nat
  PROVE  /\ Answer(kind, args, to, nr) \in ToClient
         /\ Answer(kind, args, to, nr).type = PackMessageType(kind)
         /\ Answer(kind, args, to, nr).args = args
         /\ Answer(kind, args, to, nr).to = to
         /\ Answer(kind, args, to, nr).nr = nr
<1>1. PackMessageType(kind) \in 0..1023
  BY DEF SurvivesPacking
<1> QED
  BY <1>1 DEF Answer, ToClient

LEMMA WelcomeIsMessage ==
  ASSUME NEW nr \in Nat
  PROVE  /\ Answer("Welcome", <<>>, "Join", nr) \in ToClient
         /\ Answer("Welcome", <<>>, "Join", nr).type = PackMessageType("Welcome")
         /\ Answer("Welcome", <<>>, "Join", nr).to = "Join"
<1> DEFINE kind == "Welcome"
           to == "Join"
           args == <<>>
<1>1. /\ kind \in InUse /\ to \in {"Join"} \cup LobbyRequests /\ args \in Seq(LobbyId)
  BY DEF InUse
<1>2. kind = "Welcome" /\ to = "Join" /\ args = <<>>
  OBVIOUS
<1> HIDE DEF kind, to, args
<1>3. /\ Answer(kind, args, to, nr) \in ToClient
      /\ Answer(kind, args, to, nr).type = PackMessageType(kind)
      /\ Answer(kind, args, to, nr).to = to
  BY <1>1, InUseSurvive, AnswersAreMessages
<1> QED
  BY <1>2, <1>3

LEMMA CommandsAreMessages ==
  ASSUME NEW p \in Player, NEW kind \in CommandKinds, NEW args \in CommandArgs(p, kind), NEW nr \in Nat
  PROVE  /\ args \in Args
         /\ Said(kind, args, nr) \in ToServer
         /\ Said(kind, args, nr).type = PackMessageType(kind)
         /\ Said(kind, args, nr).args = args
         /\ Said(kind, args, nr).nr = nr
<1>1. PackMessageType(kind) \in 0..1023
  <2>1. kind \in InUse
    BY DEF InUse, CommandKinds
  <2>2. SurvivesPacking(kind)
    BY <2>1, InUseSurvive
  <2> QED
    BY <2>2 DEF SurvivesPacking
<1>2. args \in Args
  <2> DEFINE V == Player \cup Nat
  <2>1. p \in V /\ 0 \in V /\ Nat \subseteq V
    OBVIOUS
  <2>2. Args = Seq(V)
    BY DEF Args
  <2> HIDE DEF V
  <2>3. <<>> \in Args /\ \A x \in V : <<x>> \in Args
    BY <2>2
  <2>4. CASE kind = "Join"
    BY <2>4, <2>1, <2>3, CommandShape
  <2>5. CASE kind = "JoinParty"
    <3>1. PICK l \in LobbyId : args = <<l>>
      BY <2>5, CommandShape
    <3>2. l \in Nat
      BY ConversationAssumption DEF LobbyId
    <3> QED
      BY <3>1, <3>2, <2>1, <2>3
  <2>6. CASE kind = "Move"
    BY <2>6, <2>1, <2>3, CommandShape
  <2>7. CASE kind \in {"CreateParty", "ListParties", "StartGame", "Attack"}
    BY <2>7, <2>3, CommandShape
  <2> QED
    BY <2>4, <2>5, <2>6, <2>7 DEF CommandKinds, LobbyRequests, GameRequests
<1> QED
  BY <1>1, <1>2 DEF Said, ToServer

--------------------------------------------------------------------------------
(* The invariant, step by step *)

USE DEF service, clientVars, vars

Good == TypeOK /\ Inductive

LEMMA QueuesAreTyped ==
  ASSUME TypeOK, NEW p \in Player
  PROVE  Queues(ToClient, LobbyRequest, ToServer, down[p], lmQueue, up[p])
<1>1. down[p] \in Seq(ToClient) /\ lmQueue \in Seq(LobbyRequest) /\ up[p] \in Seq(ToServer)
  BY DEF TypeOK
<1>2. /\ \A x \in ToClient : x.nr \in Nat
      /\ \A x \in LobbyRequest : x.nr \in Nat
      /\ \A x \in ToServer : x.nr \in Nat
  BY DEF ToClient, LobbyRequest, ToServer
<1> QED
  BY <1>1, <1>2 DEF Queues

LEMMA InitGood == Init => Good
<1> SUFFICES ASSUME Init
             PROVE  TypeOK /\ Inductive
  BY DEF Good
<1>1. \A S : <<>> \in Seq(S)
  OBVIOUS
<1>2. DOMAIN <<>> = {}
  OBVIOUS
<1>3. /\ up = [p \in Player |-> <<>>] /\ down = [p \in Player |-> <<>>]
      /\ registered = {} /\ bound = {} /\ lmQueue = <<>> /\ gmQueue = <<>> /\ gm = GmIdle
      /\ lobbyOf = [p \in Player |-> NoLobby] /\ founded = {} /\ gameOf = [p \in Player |-> NoGame]
      /\ welcomed = {} /\ given = 0 /\ evicted = {} /\ asked = [p \in Player |-> 0]
      /\ wanted = [p \in Player |-> {}] /\ belief = [p \in Player |-> {NoLobby}]
  BY DEF Init, Service!Init
<1>4. TypeOK
  <2>1. up \in [Player -> Seq(ToServer)] /\ down \in [Player -> Seq(ToClient)]
    BY <1>1, <1>3
  <2>2. lmQueue \in Seq(LobbyRequest) /\ gmQueue \in Seq(GameRequest)
    BY <1>1, <1>3
  <2>3. DOMAIN lmQueue = {} /\ DOMAIN gmQueue = {}
    BY <1>2, <1>3
  <2>4. gm \in [at : {"idle", "start", "read", "remove"}, lobby : LobbyId \cup {NoLobby},
                leaving : SUBSET Player]
    BY <1>3 DEF GmIdle
  <2>5. given \in 0..MaxCommands
    BY <1>3, ConversationAssumption
  <2> QED
    BY <1>3, <2>1, <2>2, <2>3, <2>4, <2>5 DEF TypeOK
<1>5. \A p \in Player : up[p] = <<>> /\ down[p] = <<>> /\ lobbyOf[p] \in belief[p]
  BY <1>3
<1>6. /\ \A p \in Player : DOMAIN up[p] = {} /\ DOMAIN down[p] = {}
      /\ DOMAIN lmQueue = {}
  BY <1>2, <1>3, <1>5
<1>7. CommandsAreMeant /\ RequestsAreMeant /\ AnswersAreApt
  BY <1>6 DEF CommandsAreMeant, RequestsAreMeant, AnswersAreApt
<1>8. RequestsInOrder
  BY <1>6 DEF RequestsInOrder, Ordered
<1>9. WillKnow
  BY <1>5, <1>6 DEF WillKnow, Informed
<1> QED
  BY <1>4, <1>7, <1>8, <1>9 DEF Inductive

\* Steps that touch nothing the rest of the invariant speaks of.
LEMMA StillInductive ==
  ASSUME Inductive, UNCHANGED <<up, bound, lmQueue, down, lobbyOf, wanted, belief, asked, evicted>>
  PROVE  Inductive'
<1>1. CommandsAreMeant' /\ RequestsAreMeant'
  BY DEF Inductive, CommandsAreMeant, RequestsAreMeant, Meant
<1>2. AnswersAreApt'
  BY DEF Inductive, AnswersAreApt
<1>3. RequestsInOrder'
  BY DEF Inductive, RequestsInOrder
<1>4. WillKnow'
  BY DEF Inductive, WillKnow
<1> QED
  BY <1>1, <1>2, <1>3, <1>4 DEF Inductive

LEMMA RouteCommandGood ==
  ASSUME Good, NEW p \in Player, RouteCommand(p)
  PROVE  Good'
<1> USE DEF Good
<1>0. PICK kind \in Commands : \E args \in CommandArgs(p, kind) :
        /\ asked' = IF kind \in LobbyRequests THEN [asked EXCEPT ![p] = @ + 1] ELSE asked
        /\ up' = [up EXCEPT ![p] = Append(@, Said(kind, args, asked'[p]))]
        /\ wanted' = IF kind = "JoinParty" THEN [wanted EXCEPT ![p] = @ \cup {args[1]}] ELSE wanted
  BY DEF RouteCommand
<1>1. PICK args \in CommandArgs(p, kind) :
        /\ asked' = IF kind \in LobbyRequests THEN [asked EXCEPT ![p] = @ + 1] ELSE asked
        /\ up' = [up EXCEPT ![p] = Append(@, Said(kind, args, asked'[p]))]
        /\ wanted' = IF kind = "JoinParty" THEN [wanted EXCEPT ![p] = @ \cup {args[1]}] ELSE wanted
  BY <1>0
<1>2. kind \in CommandKinds
  BY ConversationAssumption DEF CommandKinds
<1>3. UNCHANGED <<registered, bound, lmQueue, gmQueue, gm, down, welcomed, belief, evicted,
                  lobbyOf, founded, gameOf>>
  BY DEF RouteCommand, Service!Hush
<1> DEFINE m == Said(kind, args, asked'[p])
<1>4. /\ asked' \in [Player -> Nat] /\ \A q \in Player : q # p => asked'[q] = asked[q]
      /\ asked[p] \in Nat /\ asked'[p] \in Nat /\ asked[p] <= asked'[p]
      /\ kind \in LobbyRequests => asked[p] < asked'[p]
  BY <1>1 DEF TypeOK
<1>5. /\ m \in ToServer /\ m.type = PackMessageType(kind) /\ m.args = args /\ m.nr = asked'[p]
  BY <1>2, <1>4, CommandsAreMessages
<1>6. up' = [up EXCEPT ![p] = Append(@, m)]
  BY <1>1
<1> HIDE DEF m
<1>7. /\ up' \in [Player -> Seq(ToServer)] /\ up'[p] = Append(up[p], m)
      /\ \A q \in Player : q # p => up'[q] = up[q]
      /\ up[p] \in Seq(ToServer) /\ Append(up[p], m) \in Seq(ToServer)
  <2>1. up \in [Player -> Seq(ToServer)] /\ Append(up[p], m) \in Seq(ToServer)
    BY <1>5, Put DEF TypeOK
  <2> QED
    BY <1>6, <2>1
<1>8. kind = "JoinParty" => args[1] \in LobbyId
  BY <1>2, CommandShape
<1>9. /\ wanted' \in [Player -> SUBSET LobbyId] /\ \A q \in Player : wanted[q] \subseteq wanted'[q]
      /\ kind = "JoinParty" => args[1] \in wanted'[p]
  BY <1>1, <1>8 DEF TypeOK
<1>10. given' \in 0..MaxCommands
  BY ConversationAssumption DEF RouteCommand, TypeOK
<1>11. TypeOK'
  BY <1>3, <1>4, <1>7, <1>9, <1>10 DEF TypeOK
<1>12. CommandsAreMeant'
  <2> SUFFICES ASSUME NEW q \in Player, NEW i \in DOMAIN up'[q]
               PROVE  Meant(q, up[q][i])'
    BY DEF CommandsAreMeant
  <2>1. CASE i \in DOMAIN up[q] /\ up'[q][i] = up[q][i]
    <3>1. Meant(q, up[q][i])
      BY <2>1 DEF Inductive, CommandsAreMeant
    <3> QED
      BY <1>9, <2>1, <3>1 DEF Meant
  <2>2. CASE q = p /\ up'[q][i] = m
    BY <1>5, <1>9, <2>2 DEF Meant
  <2> QED
    BY <1>5, <1>7, <2>1, <2>2, Put
<1>13. RequestsAreMeant'
  <2>1. \A i \in DOMAIN lmQueue : lmQueue[i].args[1] \in Player
    BY DEF TypeOK
  <2> QED
    BY <1>3, <1>9, <2>1 DEF Inductive, RequestsAreMeant
<1>14. AnswersAreApt'
  BY <1>3 DEF Inductive, AnswersAreApt
<1>15. RequestsInOrder'
  <2> SUFFICES ASSUME NEW q \in Player
               PROVE  Ordered(q, down[q], lmQueue, up'[q], asked'[q])
    BY <1>3 DEF RequestsInOrder
  <2>1. Ordered(q, down[q], lmQueue, up[q], asked[q])
    BY DEF Inductive, RequestsInOrder
  <2>2. CASE q # p
    BY <1>4, <1>7, <2>1, <2>2
  <2>3. CASE q = p
    <3>1. IsLobbyRequest(m) => kind \in LobbyRequests
      <4>1. SurvivesPacking(kind)
        <5>1. kind \in InUse
          BY <1>2 DEF InUse, CommandKinds
        <5> QED
          BY <5>1, InUseSurvive
      <4> QED
        BY <1>5, <4>1 DEF IsLobbyRequest, SurvivesPacking
    <3>2. Queues(ToClient, LobbyRequest, ToServer, down[p], lmQueue, up[p])
      BY QueuesAreTyped
    <3>3. Ordered(p, down[p], lmQueue, Append(up[p], m), asked'[p])
      BY <1>4, <1>5, <2>1, <2>3, <3>1, <3>2, AnotherCommand
    <3> QED
      BY <1>7, <2>3, <3>3
  <2> QED
    BY <2>2, <2>3
<1>16. WillKnow'
  <2> SUFFICES ASSUME NEW q \in Player, q \notin evicted
               PROVE  Informed(lobbyOf[q], down[q], wanted'[q], belief[q])
    BY <1>3 DEF WillKnow
  <2>1. Informed(lobbyOf[q], down[q], wanted[q], belief[q])
    BY DEF Inductive, WillKnow
  <2> QED
    BY <1>9, <2>1, MoreWanted
<1> QED
  BY <1>11, <1>12, <1>13, <1>14, <1>15, <1>16 DEF Inductive

LEMMA RegisterGood ==
  ASSUME Good, NEW p \in Player, Register(p)
  PROVE  Good'
<1> USE DEF Good
<1>1. /\ UNCHANGED <<up, bound, lmQueue, gmQueue, gm, down, welcomed, wanted, belief, given, asked,
                     evicted, lobbyOf, founded, gameOf>>
      /\ registered' = registered \cup {p}
  BY DEF Register, Service!Hush
<1>2. TypeOK'
  BY <1>1 DEF TypeOK
<1> QED
  BY <1>1, <1>2, StillInductive

\* The message at the front is a command of the client, and its event what
\* EventOfCommand says.
LEMMA HeadMeant ==
  ASSUME Good, NEW p \in Player, up[p] # <<>>
  PROVE  \E kind \in CommandKinds : \E args \in CommandArgs(p, kind) :
           /\ Head(up[p]).type = PackMessageType(kind) /\ Head(up[p]).args = args
           /\ kind = "JoinParty" => args[1] \in wanted[p]
           /\ UnpackMessageType(Head(up[p]).type) = kind
<1> USE DEF Good
<1>1. 1 \in DOMAIN up[p] /\ Head(up[p]) = up[p][1]
  BY Taken DEF TypeOK
<1>2. Meant(p, Head(up[p]))
  BY <1>1 DEF Inductive, CommandsAreMeant
<1>3. PICK kind \in Commands : \E args \in CommandArgs(p, kind) :
        /\ Head(up[p]).type = PackMessageType(kind) /\ Head(up[p]).args = args
        /\ kind = "JoinParty" => args[1] \in wanted[p]
  BY <1>2 DEF Meant
<1>4. kind \in CommandKinds
  BY ConversationAssumption DEF CommandKinds
<1>5. UnpackMessageType(Head(up[p]).type) = kind
  <2>1. kind \in InUse
    BY <1>4 DEF InUse, CommandKinds
  <2>2. SurvivesPacking(kind)
    BY <2>1, InUseSurvive
  <2> QED
    BY <1>3, <2>2 DEF SurvivesPacking
<1> QED
  BY <1>3, <1>4, <1>5

\* What the server's reading of a message leaves as it was, and what is left to
\* be read.
LEMMA ReadingLeaves ==
  ASSUME Good, NEW p \in Player, OnRawMessage(p)
  PROVE  /\ UNCHANGED <<registered, gm, welcomed, wanted, belief, given, asked, evicted,
                        lobbyOf, founded, gameOf>>
         /\ up[p] # <<>> /\ up[p] \in Seq(ToServer) /\ Head(up[p]) \in ToServer
         /\ up' \in [Player -> Seq(ToServer)] /\ up'[p] = Tail(up[p])
         /\ \A q \in Player : q # p => up'[q] = up[q]
         /\ CommandsAreMeant'
<1> USE DEF Good
<1>1. /\ UNCHANGED <<registered, gm, welcomed, wanted, belief, given, asked, evicted,
                     lobbyOf, founded, gameOf>>
      /\ up[p] # <<>> /\ up' = [up EXCEPT ![p] = Tail(@)]
  BY DEF OnRawMessage, Service!Hush
<1>2. up \in [Player -> Seq(ToServer)]
  BY DEF TypeOK
<1>3. /\ Tail(up[p]) \in Seq(ToServer) /\ Head(up[p]) \in ToServer
      /\ \A i \in DOMAIN Tail(up[p]) : i + 1 \in DOMAIN up[p] /\ Tail(up[p])[i] = up[p][i + 1]
  BY <1>1, <1>2, Taken
<1>4. /\ up' \in [Player -> Seq(ToServer)] /\ up'[p] = Tail(up[p])
      /\ \A q \in Player : q # p => up'[q] = up[q]
  BY <1>1, <1>2, <1>3
<1>5. CommandsAreMeant'
  <2> SUFFICES ASSUME NEW q \in Player, NEW i \in DOMAIN up'[q]
               PROVE  Meant(q, up[q][i])'
    BY DEF CommandsAreMeant
  <2>1. \E j \in DOMAIN up[q] : up'[q][i] = up[q][j]
    BY <1>3, <1>4
  <2>2. Meant(q, up'[q][i])
    BY <2>1 DEF Inductive, CommandsAreMeant
  <2> QED
    BY <1>1, <2>2 DEF Meant
<1> QED
  BY <1>1, <1>2, <1>3, <1>4, <1>5

\* Messages that are read and go elsewhere than to the lobbies.
LEMMA ReadInOrder ==
  ASSUME Good, NEW p \in Player, OnRawMessage(p), UNCHANGED <<lmQueue, down>>
  PROVE  RequestsInOrder'
<1> USE DEF Good
<1> SUFFICES ASSUME NEW q \in Player
             PROVE  Ordered(q, down[q], lmQueue, up'[q], asked[q])
  BY ReadingLeaves DEF RequestsInOrder
<1>1. Ordered(q, down[q], lmQueue, up[q], asked[q]) /\ asked[q] \in Nat
  BY DEF Inductive, RequestsInOrder, TypeOK
<1>2. CASE q # p
  BY <1>1, <1>2, ReadingLeaves
<1>3. CASE q = p
  <2>1. up'[p] = Tail(up[p]) /\ up[p] # <<>>
    BY ReadingLeaves
  <2>2. Queues(ToClient, LobbyRequest, ToServer, down[p], lmQueue, up[p])
    BY QueuesAreTyped
  <2> QED
    BY <1>1, <1>3, <2>1, <2>2, CommandDropped
<1> QED
  BY <1>2, <1>3

LEMMA OnNoEventGood ==
  ASSUME Good, NEW p \in Player, OnNoEvent(p)
  PROVE  Good'
<1> USE DEF Good
<1>1. OnRawMessage(p) /\ UNCHANGED <<bound, lmQueue, gmQueue, down>>
  BY DEF OnNoEvent
<1>2. TypeOK'
  BY <1>1, ReadingLeaves DEF TypeOK
<1>3. CommandsAreMeant' /\ RequestsInOrder'
  BY <1>1, ReadingLeaves, ReadInOrder
<1>4. RequestsAreMeant' /\ AnswersAreApt' /\ WillKnow'
  BY <1>1, ReadingLeaves DEF Inductive, RequestsAreMeant, AnswersAreApt, WillKnow
<1> QED
  BY <1>2, <1>3, <1>4 DEF Inductive

\* A request that is passed on is of a bound client, which stands in front.
LEMMA RequestsAreOfTheBound ==
  ASSUME Good, NEW p \in Player, up[p] # <<>>,
         MakeEvent(p, Head(up[p])).kind \in LobbyRequests \cup GameRequests
  PROVE  LET event == MakeEvent(p, Head(up[p])) IN
         /\ p \in bound
         /\ event = [kind |-> event.kind, args |-> event.args]
         /\ event.args \in Args /\ event.args[1] = p
         /\ event.kind = "JoinParty" => event.args[2] \in wanted[p]
         /\ UnpackMessageType(Head(up[p]).type) = event.kind
<1> DEFINE event == MakeEvent(p, Head(up[p]))
<1>1. PICK kind \in CommandKinds : \E args \in CommandArgs(p, kind) :
        /\ Head(up[p]).type = PackMessageType(kind) /\ Head(up[p]).args = args
        /\ kind = "JoinParty" => args[1] \in wanted[p]
        /\ UnpackMessageType(Head(up[p]).type) = kind
  BY HeadMeant
<1>2. PICK args \in CommandArgs(p, kind) :
        /\ Head(up[p]).type = PackMessageType(kind) /\ Head(up[p]).args = args
        /\ kind = "JoinParty" => args[1] \in wanted[p]
        /\ UnpackMessageType(Head(up[p]).type) = kind
  BY <1>1
<1>3. /\ kind = "Join" => event = [kind |-> "Join", args |-> <<p>> \o <<p>>]
      /\ kind # "Join" /\ p \in bound => event = [kind |-> kind, args |-> <<p>> \o args]
      /\ kind # "Join" /\ p \notin bound => event = [kind |-> "none", args |-> <<>>]
  BY <1>2, EventOfCommand
<1>4. event.kind # "Join" /\ event.kind # "none"
  BY DEF LobbyRequests, GameRequests
<1> HIDE DEF event
<1>5. p \in bound /\ event = [kind |-> kind, args |-> <<p>> \o args]
  BY <1>3, <1>4
<1>6. event.kind = kind /\ event.args = <<p>> \o args
  BY <1>5
<1>7. args \in Args
  BY <1>1, CommandsAreMessages
<1>8. <<p>> \o args \in Args /\ (<<p>> \o args)[1] = p
  <2> DEFINE V == Player \cup Nat
  <2>1. p \in V /\ Args = Seq(V)
    BY DEF Args
  <2> HIDE DEF V
  <2> QED
    BY <1>7, <2>1
<1>9. kind = "JoinParty" => (<<p>> \o args)[2] = args[1]
  <2> SUFFICES ASSUME kind = "JoinParty"
               PROVE  (<<p>> \o args)[2] = args[1]
    OBVIOUS
  <2>1. PICK l \in LobbyId : args = <<l>>
    BY CommandShape
  <2>2. \A x : (<<p>> \o <<x>>)[2] = x
    OBVIOUS
  <2> QED
    BY <2>1, <2>2
<1>10. event.kind = "JoinParty" => event.args[2] \in wanted[p]
  BY <1>2, <1>6, <1>9
<1>11. event = [kind |-> event.kind, args |-> event.args]
  BY <1>5, <1>6
<1>12. event.args \in Args /\ event.args[1] = p /\ UnpackMessageType(Head(up[p]).type) = event.kind
  BY <1>2, <1>6, <1>8
<1> QED
  BY <1>5, <1>10, <1>11, <1>12 DEF event

LEMMA OnGameRequestGood ==
  ASSUME Good, NEW p \in Player, OnGameRequest(p)
  PROVE  Good'
<1> USE DEF Good
<1> DEFINE event == MakeEvent(p, Head(up[p]))
<1>1. /\ OnRawMessage(p) /\ event.kind \in GameRequests
      /\ gmQueue' = Append(gmQueue, event) /\ UNCHANGED <<bound, lmQueue, down>>
  BY DEF OnGameRequest
<1>2. p \in bound /\ event \in GameRequest /\ event.args[1] = p
  <2>1. /\ p \in bound /\ event = [kind |-> event.kind, args |-> event.args]
        /\ event.args \in Args /\ event.args[1] = p
    BY <1>1, ReadingLeaves, RequestsAreOfTheBound
  <2> HIDE DEF event
  <2>2. event \in GameRequest
    BY <1>1, <2>1 DEF GameRequest
  <2> QED
    BY <2>1, <2>2
<1> HIDE DEF event
<1>3. /\ gmQueue' \in Seq(GameRequest)
      /\ \A i \in DOMAIN gmQueue' : gmQueue'[i].args[1] \in bound
  <2>1. gmQueue \in Seq(GameRequest) /\ \A i \in DOMAIN gmQueue : gmQueue[i].args[1] \in bound
    BY DEF TypeOK
  <2> DEFINE s == Append(gmQueue, event)
  <2>2. s \in Seq(GameRequest) /\ \A i \in DOMAIN s : (i \in DOMAIN gmQueue /\ s[i] = gmQueue[i]) \/ s[i] = event
    BY <1>2, <2>1, Put
  <2>3. gmQueue' = s
    BY <1>1
  <2> HIDE DEF s
  <2> QED
    BY <1>2, <2>1, <2>2, <2>3
<1>4. TypeOK'
  BY <1>1, <1>3, ReadingLeaves DEF TypeOK
<1>5. CommandsAreMeant' /\ RequestsInOrder'
  BY <1>1, ReadingLeaves, ReadInOrder
<1>6. RequestsAreMeant' /\ AnswersAreApt' /\ WillKnow'
  BY <1>1, ReadingLeaves DEF Inductive, RequestsAreMeant, AnswersAreApt, WillKnow
<1> QED
  BY <1>4, <1>5, <1>6 DEF Inductive

LEMMA OnLobbyRequestGood ==
  ASSUME Good, NEW p \in Player, OnLobbyRequest(p)
  PROVE  Good'
<1> USE DEF Good
<1> DEFINE event == MakeEvent(p, Head(up[p]))
           r == [kind |-> event.kind, args |-> event.args, nr |-> Head(up[p]).nr]
<1>1. /\ OnRawMessage(p) /\ event.kind \in LobbyRequests
      /\ lmQueue' = Append(lmQueue, r) /\ UNCHANGED <<bound, gmQueue, down>>
  BY DEF OnLobbyRequest
<1>2. /\ p \in bound /\ r \in LobbyRequest /\ r.args[1] = p /\ r.nr = Head(up[p]).nr
      /\ r.kind = "JoinParty" => r.args[2] \in wanted[p]
      /\ IsLobbyRequest(Head(up[p]))
  <2>1. /\ p \in bound /\ event.args \in Args /\ event.args[1] = p
        /\ event.kind = "JoinParty" => event.args[2] \in wanted[p]
        /\ UnpackMessageType(Head(up[p]).type) = event.kind
    BY <1>1, ReadingLeaves, RequestsAreOfTheBound
  <2>2. Head(up[p]).nr \in Nat
    <3>1. Head(up[p]) \in ToServer
      BY <1>1, ReadingLeaves
    <3> QED
      BY <3>1 DEF ToServer
  <2>3. IsLobbyRequest(Head(up[p]))
    BY <1>1, <2>1 DEF IsLobbyRequest
  <2> HIDE DEF event
  <2>4. r \in LobbyRequest
    BY <1>1, <2>1, <2>2 DEF LobbyRequest
  <2> QED
    BY <2>1, <2>3, <2>4
<1> HIDE DEF r, event
<1> DEFINE s == Append(lmQueue, r)
<1>3. /\ s \in Seq(LobbyRequest)
      /\ \A i \in DOMAIN s : (i \in DOMAIN lmQueue /\ s[i] = lmQueue[i]) \/ s[i] = r
  <2>1. lmQueue \in Seq(LobbyRequest)
    BY DEF TypeOK
  <2> QED
    BY <1>2, <2>1, Put
<1>4. lmQueue' = s
  BY <1>1
<1> HIDE DEF s
<1>5. TypeOK'
  <2>1. \A i \in DOMAIN lmQueue' : lmQueue'[i].args[1] \in bound
    BY <1>2, <1>3, <1>4 DEF TypeOK
  <2> QED
    BY <1>1, <1>3, <1>4, <2>1, ReadingLeaves DEF TypeOK
<1>6. CommandsAreMeant' /\ UNCHANGED <<wanted, belief, asked, evicted, lobbyOf>>
  BY <1>1, ReadingLeaves
<1>7. RequestsAreMeant'
  BY <1>2, <1>3, <1>4, <1>6 DEF Inductive, RequestsAreMeant
<1>8. AnswersAreApt' /\ WillKnow'
  BY <1>1, <1>6 DEF Inductive, AnswersAreApt, WillKnow
<1>9. RequestsInOrder'
  <2> SUFFICES ASSUME NEW q \in Player
               PROVE  Ordered(q, down[q], s, up'[q], asked[q])
    BY <1>1, <1>4, <1>6 DEF RequestsInOrder
  <2>1. Ordered(q, down[q], lmQueue, up[q], asked[q]) /\ asked[q] \in Nat
    BY DEF Inductive, RequestsInOrder, TypeOK
  <2>2. Queues(ToClient, LobbyRequest, ToServer, down[q], lmQueue, up[q])
    BY QueuesAreTyped
  <2>3. CASE q # p
    <3>1. up'[q] = up[q] /\ r.args[1] # q
      BY <1>1, <1>2, <2>3, ReadingLeaves
    <3> QED
      BY <1>2, <2>1, <2>2, <3>1, AnotherRequest DEF s
  <2>4. CASE q = p
    <3>1. up'[p] = Tail(up[p]) /\ up[p] # <<>>
      BY <1>1, ReadingLeaves
    <3>2. Ordered(p, down[p], Append(lmQueue, r), Tail(up[p]), asked[p])
      BY <1>2, <2>1, <2>2, <2>4, <3>1, RequestPassed
    <3> QED
      BY <2>4, <3>1, <3>2 DEF s
  <2> QED
    BY <2>3, <2>4
<1> QED
  BY <1>5, <1>6, <1>7, <1>8, <1>9 DEF Inductive

LEMMA LinesOfCommands ==
  /\ Shown["Join"] = {"WELCOME"}
  /\ Shown["CreateParty"] = {"LOBBY CREATED", "LOBBY NOT CREATED"}
  /\ Shown["ListParties"] = {"LOBBY LIST CREATED", "LOBBY LIST NOT CREATED"}
  /\ Shown["JoinParty"] = {"JOIN LOBBY SUCCESS", "JOIN LOBBY FAILED"}
BY DEF Shown

LEMMA OnJoinGood ==
  ASSUME Good, NEW p \in Player, OnJoin(p)
  PROVE  Good'
<1> USE DEF Good
<1>1. OnRawMessage(p) /\ UNCHANGED <<lmQueue, gmQueue>>
  BY DEF OnJoin
<1>2. CASE UNCHANGED <<bound, down>>
  <2>1. TypeOK'
    BY <1>1, <1>2, ReadingLeaves DEF TypeOK
  <2>2. CommandsAreMeant' /\ RequestsInOrder'
    BY <1>1, <1>2, ReadingLeaves, ReadInOrder
  <2>3. RequestsAreMeant' /\ AnswersAreApt' /\ WillKnow'
    BY <1>1, <1>2, ReadingLeaves DEF Inductive, RequestsAreMeant, AnswersAreApt, WillKnow
  <2> QED
    BY <2>1, <2>2, <2>3 DEF Inductive
<1>3. CASE p \in registered /\ bound' = bound \cup {p} /\ Welcome(p)
  <2> DEFINE m == Answer("Welcome", <<>>, "Join", Head(up[p]).nr)
  <2>1. m \in ToClient /\ m.type = PackMessageType("Welcome") /\ m.to = "Join"
    <3>1. Head(up[p]).nr \in Nat
      BY <1>1, ReadingLeaves DEF ToServer
    <3> QED
      BY <3>1, WelcomeIsMessage
  <2>2. RouteMessage(m) = "WELCOME"
    BY <2>1, LinesShown
  <2>3. down' = [down EXCEPT ![p] = Append(@, m)]
    BY <1>3 DEF Welcome
  <2> HIDE DEF m
  <2>4. down \in [Player -> Seq(ToClient)] /\ Append(down[p], m) \in Seq(ToClient)
    BY <2>1, Put DEF TypeOK
  <2>5. /\ down' \in [Player -> Seq(ToClient)] /\ down'[p] = Append(down[p], m)
        /\ \A q \in Player : q # p => down'[q] = down[q]
    BY <2>3, <2>4
  <2>6. \A i \in DOMAIN down'[p] : (i \in DOMAIN down[p] /\ down'[p][i] = down[p][i]) \/ down'[p][i] = m
    BY <2>1, <2>4, <2>5, Put
  <2>7. TypeOK'
    BY <1>1, <1>3, <2>5, ReadingLeaves DEF TypeOK
  <2>8. CommandsAreMeant' /\ UNCHANGED <<wanted, belief, asked, evicted, lobbyOf>>
    BY <1>1, ReadingLeaves
  <2>9. RequestsAreMeant'
    BY <1>1, <2>8 DEF Inductive, RequestsAreMeant
  <2>10. AnswersAreApt'
    <3> SUFFICES ASSUME NEW q \in Player, NEW i \in DOMAIN down'[q]
                 PROVE  /\ RouteMessage(down'[q][i]) \in Shown[down'[q][i].to]
                        /\ down'[q][i].to = "Join" => q \in bound'
      BY DEF AnswersAreApt
    <3>1. CASE i \in DOMAIN down[q] /\ down'[q][i] = down[q][i]
      BY <1>3, <3>1 DEF Inductive, AnswersAreApt
    <3>2. CASE q = p /\ down'[q][i] = m
      BY <1>3, <2>1, <2>2, <3>2, LinesOfCommands
    <3> QED
      BY <2>5, <2>6, <3>1, <3>2
  <2>11. RequestsInOrder'
    <3> SUFFICES ASSUME NEW q \in Player
                 PROVE  Ordered(q, down'[q], lmQueue, up'[q], asked[q])
      BY <1>1, <2>8 DEF RequestsInOrder
    <3>1. Ordered(q, down[q], lmQueue, up[q], asked[q]) /\ asked[q] \in Nat
      BY DEF Inductive, RequestsInOrder, TypeOK
    <3>2. CASE q # p
      BY <1>1, <2>5, <3>1, <3>2, ReadingLeaves
    <3>3. CASE q = p
      <4>1. up'[p] = Tail(up[p]) /\ up[p] # <<>> /\ up'[p] \in Seq(ToServer)
        BY <1>1, ReadingLeaves
      <4>2. Queues(ToClient, LobbyRequest, ToServer, down[p], lmQueue, up[p])
        BY QueuesAreTyped
      <4>3. Ordered(p, down[p], lmQueue, up'[p], asked[p])
        BY <3>1, <3>3, <4>1, <4>2, CommandDropped
      <4>4. Queues(ToClient, LobbyRequest, ToServer, down[p], lmQueue, up'[p])
        BY <4>1, <4>2 DEF Queues
      <4>5. Ordered(p, Append(down[p], m), lmQueue, up'[p], asked[p])
        BY <2>1, <3>1, <3>3, <4>3, <4>4, Welcomed
      <4> QED
        BY <2>5, <3>3, <4>5
    <3> QED
      BY <3>2, <3>3
  <2>12. WillKnow'
    <3> SUFFICES ASSUME NEW q \in Player, q \notin evicted
                 PROVE  Informed(lobbyOf[q], down'[q], wanted[q], belief[q])
      BY <2>8 DEF WillKnow
    <3>1. Informed(lobbyOf[q], down[q], wanted[q], belief[q])
      BY DEF Inductive, WillKnow
    <3>2. ~Tells(m)
      BY <2>2 DEF Tells
    <3>3. CASE q = p
      <4>1. Informed(lobbyOf[p], Append(down[p], m), wanted[p], belief[p])
        BY <2>1, <2>4, <3>1, <3>2, <3>3, AnotherMessage
      <4> QED
        BY <2>5, <3>3, <4>1
    <3> QED
      BY <2>5, <3>1, <3>3
  <2> QED
    BY <2>7, <2>8, <2>9, <2>10, <2>11, <2>12 DEF Inductive
<1> QED
  BY <1>2, <1>3 DEF OnJoin

LEMMA ShowMessageGood ==
  ASSUME Good, NEW p \in Player, ShowMessage(p)
  PROVE  Good'
<1> USE DEF Good
<1> DEFINE m == Head(down[p])
           shown == RouteMessage(m)
<1>1. /\ down[p] # <<>> /\ down' = [down EXCEPT ![p] = Tail(@)]
      /\ welcomed' = IF shown = "WELCOME" THEN welcomed \cup {p} ELSE welcomed
      /\ belief' = [belief EXCEPT ![p] = Learn(p, shown, m.args)]
      /\ UNCHANGED <<up, registered, bound, lmQueue, gmQueue, gm, wanted, given, asked, evicted,
                     lobbyOf, founded, gameOf>>
  BY DEF ShowMessage, Service!Hush
<1>2. down \in [Player -> Seq(ToClient)]
  BY DEF TypeOK
<1>3. /\ Tail(down[p]) \in Seq(ToClient) /\ m \in ToClient /\ 1 \in DOMAIN down[p] /\ m = down[p][1]
      /\ \A i \in DOMAIN Tail(down[p]) : i + 1 \in DOMAIN down[p] /\ Tail(down[p])[i] = down[p][i + 1]
  BY <1>1, <1>2, Taken
<1>4. /\ down' \in [Player -> Seq(ToClient)] /\ down'[p] = Tail(down[p])
      /\ \A q \in Player : q # p => down'[q] = down[q]
  BY <1>1, <1>2, <1>3
<1>5. shown \in Shown[m.to] /\ (m.to = "Join" => p \in bound)
  BY <1>3 DEF Inductive, AnswersAreApt
<1>6. m.to \in {"Join"} \cup LobbyRequests /\ m.args \in Seq(LobbyId)
  BY <1>3 DEF ToClient
<1>7. shown = "WELCOME" => p \in bound
  BY <1>5, <1>6, LinesOfCommands DEF LobbyRequests
<1>8. /\ Learn(p, shown, m.args) = IF Tells(m) THEN Told(m, wanted[p]) ELSE belief[p]
  BY LearnsWhatIsTold
<1> HIDE DEF m
<1>9. Learn(p, shown, m.args) \subseteq LobbyId \cup {NoLobby}
  <2>1. wanted[p] \subseteq LobbyId /\ belief[p] \subseteq LobbyId \cup {NoLobby}
    BY DEF TypeOK
  <2>2. shown = "LOBBY CREATED" => m.args[1] \in LobbyId
    <3>1. shown = "LOBBY CREATED" => m.args # <<>>
      BY LinesShown
    <3>2. \A S : \A s \in Seq(S) : s # <<>> => s[1] \in S
      OBVIOUS
    <3> HIDE DEF shown
    <3> QED
      BY <1>6, <3>1, <3>2
  <2> QED
    BY <1>8, <2>1, <2>2 DEF Told
<1>10. /\ belief' \in [Player -> SUBSET (LobbyId \cup {NoLobby})]
       /\ belief'[p] = IF Tells(m) THEN Told(m, wanted[p]) ELSE belief[p]
       /\ \A q \in Player : q # p => belief'[q] = belief[q]
  <2>1. belief \in [Player -> SUBSET (LobbyId \cup {NoLobby})]
    BY DEF TypeOK
  <2> HIDE DEF shown
  <2> QED
    BY <1>1, <1>8, <1>9, <2>1
<1>11. TypeOK'
  <2>1. welcomed' \subseteq bound
    BY <1>1, <1>7 DEF TypeOK
  <2> QED
    BY <1>1, <1>4, <1>10, <2>1 DEF TypeOK
<1>12. CommandsAreMeant' /\ RequestsAreMeant'
  BY <1>1 DEF Inductive, CommandsAreMeant, RequestsAreMeant, Meant
<1>13. AnswersAreApt'
  <2> SUFFICES ASSUME NEW q \in Player, NEW i \in DOMAIN down'[q]
               PROVE  /\ RouteMessage(down'[q][i]) \in Shown[down'[q][i].to]
                      /\ down'[q][i].to = "Join" => q \in bound
    BY <1>1 DEF AnswersAreApt
  <2>1. \E j \in DOMAIN down[q] : down'[q][i] = down[q][j]
    BY <1>3, <1>4
  <2> QED
    BY <2>1 DEF Inductive, AnswersAreApt
<1>14. RequestsInOrder'
  <2> SUFFICES ASSUME NEW q \in Player
               PROVE  Ordered(q, down'[q], lmQueue, up[q], asked[q])
    BY <1>1 DEF RequestsInOrder
  <2>1. Ordered(q, down[q], lmQueue, up[q], asked[q]) /\ asked[q] \in Nat
    BY DEF Inductive, RequestsInOrder, TypeOK
  <2>2. CASE q = p
    <3>1. Queues(ToClient, LobbyRequest, ToServer, down[p], lmQueue, up[p])
      BY QueuesAreTyped
    <3>2. Ordered(p, Tail(down[p]), lmQueue, up[p], asked[p])
      BY <1>1, <2>1, <2>2, <3>1, AnswerHeard
    <3> QED
      BY <1>4, <2>2, <3>2
  <2> QED
    BY <1>4, <2>1, <2>2
<1>15. WillKnow'
  <2> SUFFICES ASSUME NEW q \in Player, q \notin evicted
               PROVE  Informed(lobbyOf[q], down'[q], wanted[q], belief'[q])
    BY <1>1 DEF WillKnow
  <2>1. Informed(lobbyOf[q], down[q], wanted[q], belief[q])
    BY DEF Inductive, WillKnow
  <2>2. CASE q = p
    <3>1. Informed(lobbyOf[p], Tail(down[p]), wanted[p],
                   IF Tells(m) THEN Told(m, wanted[p]) ELSE belief[p])
      BY <1>1, <1>2, <2>1, <2>2, Hearing DEF m
    <3> QED
      BY <1>4, <1>10, <2>2, <3>1
  <2> QED
    BY <1>4, <1>10, <2>1, <2>2
<1> QED
  BY <1>11, <1>12, <1>13, <1>14, <1>15 DEF Inductive

--------------------------------------------------------------------------------
(* GameManager's steps *)

LEMMA TakeGameRequestGood ==
  ASSUME Good, TakeGameRequest
  PROVE  Good'
<1> USE DEF Good
<1>1. /\ UNCHANGED <<up, registered, bound, lmQueue, down, welcomed, wanted, belief, given, asked,
                     evicted, lobbyOf, founded, gameOf>>
      /\ gmQueue # <<>> /\ gmQueue' = Tail(gmQueue)
      /\ gm' = IF Head(gmQueue).kind = "StartGame" /\ lobbyOf[Head(gmQueue).args[1]] # NoLobby
                 THEN [GmIdle EXCEPT !.at = "start", !.lobby = lobbyOf[Head(gmQueue).args[1]]]
                 ELSE GmIdle
  BY DEF TakeGameRequest, GameManagerKeeps, Service!Hush
<1>2. gmQueue \in Seq(GameRequest) /\ \A i \in DOMAIN gmQueue : gmQueue[i].args[1] \in bound
  BY DEF TypeOK
<1> DEFINE rest == Tail(gmQueue)
           p == Head(gmQueue).args[1]
<1>3. /\ rest \in Seq(GameRequest) /\ 1 \in DOMAIN gmQueue /\ Head(gmQueue) = gmQueue[1]
      /\ \A i \in DOMAIN rest : i + 1 \in DOMAIN gmQueue /\ rest[i] = gmQueue[i + 1]
  BY <1>1, <1>2, Taken
<1>4. p \in Player /\ \A i \in DOMAIN rest : rest[i].args[1] \in bound
  BY <1>2, <1>3 DEF TypeOK
<1>5. gmQueue' = rest
  BY <1>1
<1> HIDE DEF rest, p
<1>6. gm' \in [at : {"idle", "start", "read", "remove"}, lobby : LobbyId \cup {NoLobby},
               leaving : SUBSET Player]
  <2>1. lobbyOf[p] \in LobbyId \cup {NoLobby}
    BY <1>4 DEF TypeOK
  <2>2. gm' = IF Head(gmQueue).kind = "StartGame" /\ lobbyOf[p] # NoLobby
                THEN [GmIdle EXCEPT !.at = "start", !.lobby = lobbyOf[p]] ELSE GmIdle
    BY <1>1 DEF p
  <2>3. gm' \in {[at |-> "start", lobby |-> lobbyOf[p], leaving |-> {}], GmIdle}
    BY <2>2 DEF GmIdle
  <2> QED
    BY <2>1, <2>3 DEF GmIdle
<1>7. TypeOK'
  BY <1>1, <1>3, <1>4, <1>5, <1>6 DEF TypeOK
<1> QED
  BY <1>1, <1>7, StillInductive

\* There is a game for whom no player is in one: the games are as many as the
\* players.
LEMMA SomeGameIsFree ==
  ASSUME TypeOK, NEW p \in Player, gameOf[p] = NoGame
  PROVE  \E g \in GameId : Service!Roster(g) = {}
<1> SUFFICES ASSUME \A g \in GameId : \E q \in Player : gameOf[q] = g
             PROVE  FALSE
  BY DEF Service!Roster
<1> DEFINE others == Player \ {p}
           played == {g \in GameId : \E q \in others : gameOf[q] = g}
           n == Cardinality(Player)
<1>0. IsFiniteSet(Player)
  BY ConversationAssumption
<1>1. /\ IsFiniteSet(others) /\ Cardinality(others) = n - 1 /\ n \in Nat
  <2>1. IsFiniteSet(others) /\ Cardinality(others) = IF p \in Player THEN n - 1 ELSE n
    BY <1>0, FS_RemoveElement
  <2>2. n \in Nat
    BY <1>0, FS_CardinalityType
  <2> QED
    BY <2>1, <2>2
<1>2. \A g \in GameId : \E q \in others : gameOf[q] = g
  BY <1>1 DEF GameId, NoGame
<1>3. n \in Nat \ {0} /\ GameId # {}
  <2>1. n # 0
    BY <1>0, FS_EmptySet
  <2> QED
    BY <1>1, <2>1 DEF GameId
<1>4. IsFiniteSet(GameId) /\ Cardinality(GameId) = n
  <2>1. GameId = 1..n
    BY DEF GameId
  <2> HIDE DEF n
  <2>2. 1 \in Int /\ n \in Int /\ ~(1 > n) /\ n - 1 + 1 = n
    BY <1>3
  <2>3. IsFiniteSet(1..n) /\ Cardinality(1..n) = IF 1 > n THEN 0 ELSE n - 1 + 1
    BY <2>2, FS_Interval
  <2> QED
    BY <2>1, <2>2, <2>3
<1> DEFINE f == [g \in GameId |-> CHOOSE q \in others : gameOf[q] = g]
<1>5. f \in [GameId -> others] /\ \A g \in GameId : gameOf[f[g]] = g
  BY <1>2
<1> HIDE DEF others, f, n
<1>6. Cardinality(others) < Cardinality(GameId)
  BY <1>1, <1>3, <1>4
<1>7. \E g, h \in GameId : g # h /\ f[g] = f[h]
  BY <1>1, <1>4, <1>5, <1>6, FS_PigeonHole
<1> QED
  BY <1>5, <1>7

LEMMA AddDungeonGood ==
  ASSUME Good, AddDungeon
  PROVE  Good'
<1> USE DEF Good
<1>1. UNCHANGED <<up, registered, bound, lmQueue, gmQueue, down, welcomed, wanted, belief, given, asked,
                  evicted, lobbyOf, founded>>
  BY DEF AddDungeon, GameManagerKeeps, Service!Hush, Service!Start
<1>2. gm' \in [at : {"idle", "start", "read", "remove"}, lobby : LobbyId \cup {NoLobby},
               leaving : SUBSET Player]
  <2>1. gm' = [gm EXCEPT !.at = "read"] \/ gm' = GmIdle
    BY DEF AddDungeon
  <2>2. CASE gm' = [gm EXCEPT !.at = "read"]
    BY <2>2 DEF TypeOK
  <2>3. CASE gm' = GmIdle
    BY <2>3 DEF GmIdle
  <2> QED
    BY <2>1, <2>2, <2>3
<1>3. gameOf' \in [Player -> GameId \cup {NoGame}]
  <2>1. CASE Service!Hush
    BY <2>1 DEF TypeOK, Service!Hush
  <2>2. CASE /\ Service!Members(gm.lobby) # {} /\ \A p \in Service!Members(gm.lobby) : gameOf[p] = NoGame
             /\ Service!Start(gm.lobby, CHOOSE g \in GameId : Service!Roster(g) = {})
    <3> DEFINE game == CHOOSE g \in GameId : Service!Roster(g) = {}
    <3>1. \E p \in Player : gameOf[p] = NoGame
      BY <2>2 DEF Service!Members
    <3>2. game \in GameId
      BY <3>1, SomeGameIsFree
    <3>3. gameOf' = [p \in Player |-> IF p \in Service!Members(gm.lobby) THEN game ELSE gameOf[p]]
      BY <2>2 DEF Service!Start
    <3> HIDE DEF game
    <3> QED
      BY <3>2, <3>3 DEF TypeOK
  <2> QED
    BY <2>1, <2>2 DEF AddDungeon
<1>4. TypeOK'
  BY <1>1, <1>2, <1>3 DEF TypeOK
<1> QED
  BY <1>1, <1>4, StillInductive

LEMMA ReadMembersGood ==
  ASSUME Good, ReadMembers
  PROVE  Good'
<1> USE DEF Good
<1>1. UNCHANGED <<up, registered, bound, lmQueue, gmQueue, down, welcomed, wanted, belief, given, asked,
                  evicted, lobbyOf, founded, gameOf>>
  BY DEF ReadMembers, GameManagerKeeps, Service!Hush
<1>2. gm' \in [at : {"idle", "start", "read", "remove"}, lobby : LobbyId \cup {NoLobby},
               leaving : SUBSET Player]
  <2> DEFINE players == Service!Members(gm.lobby)
  <2>1. players \subseteq Player
    BY DEF Service!Members
  <2>2. gm' = GmIdle \/ gm' = [gm EXCEPT !.at = "remove", !.leaving = players]
    BY DEF ReadMembers
  <2> HIDE DEF players
  <2>3. CASE gm' = [gm EXCEPT !.at = "remove", !.leaving = players]
    BY <2>1, <2>3 DEF TypeOK
  <2>4. CASE gm' = GmIdle
    BY <2>4 DEF GmIdle
  <2> QED
    BY <2>2, <2>3, <2>4
<1>3. TypeOK'
  BY <1>1, <1>2 DEF TypeOK
<1> QED
  BY <1>1, <1>3, StillInductive

LEMMA GameTickEndsGameGood ==
  ASSUME Good, GameTickEndsGame
  PROVE  Good'
<1> USE DEF Good
<1>1. UNCHANGED <<up, registered, bound, lmQueue, gmQueue, gm, down, welcomed, wanted, belief, given, asked,
                  evicted, lobbyOf, founded>>
  BY DEF GameTickEndsGame, GameManagerKeeps, Service!End
<1>2. gameOf' \in [Player -> GameId \cup {NoGame}]
  BY DEF GameTickEndsGame, Service!End, TypeOK
<1>3. TypeOK'
  BY <1>1, <1>2 DEF TypeOK
<1> QED
  BY <1>1, <1>3, StillInductive

LEMMA RemoveMemberGood ==
  ASSUME Good, RemoveMember
  PROVE  Good'
<1> USE DEF Good
<1>1. PICK p \in gm.leaving :
        /\ gm' = IF gm.leaving = {p} THEN GmIdle ELSE [gm EXCEPT !.leaving = @ \ {p}]
        /\ IF lobbyOf[p] = NoLobby
             THEN Service!Hush /\ UNCHANGED evicted
             ELSE Service!Evict(p) /\ evicted' = evicted \cup {p}
  BY DEF RemoveMember
<1>2. p \in Player
  BY DEF TypeOK
<1>3. UNCHANGED <<up, registered, bound, lmQueue, gmQueue, down, welcomed, wanted, belief, given, asked,
                  founded, gameOf>>
  BY <1>1 DEF RemoveMember, GameManagerKeeps, Service!Hush, Service!Evict
<1>4. gm' \in [at : {"idle", "start", "read", "remove"}, lobby : LobbyId \cup {NoLobby},
               leaving : SUBSET Player]
  BY <1>1 DEF TypeOK, GmIdle
<1>5. /\ lobbyOf' \in [Player -> LobbyId \cup {NoLobby}]
      /\ evicted' \subseteq Player /\ evicted \subseteq evicted'
      /\ \A q \in Player \ evicted' : lobbyOf'[q] = lobbyOf[q]
  <2>1. CASE lobbyOf[p] = NoLobby
    BY <1>1, <2>1 DEF TypeOK, Service!Hush
  <2>2. CASE lobbyOf' = [lobbyOf EXCEPT ![p] = NoLobby] /\ evicted' = evicted \cup {p}
    BY <1>2, <2>2 DEF TypeOK
  <2> QED
    BY <1>1, <2>1, <2>2 DEF Service!Evict
<1>6. TypeOK'
  BY <1>3, <1>4, <1>5 DEF TypeOK
<1>7. CommandsAreMeant' /\ RequestsAreMeant' /\ AnswersAreApt' /\ RequestsInOrder'
  BY <1>3 DEF Inductive, CommandsAreMeant, RequestsAreMeant, Meant, AnswersAreApt, RequestsInOrder
<1>8. WillKnow'
  BY <1>3, <1>5 DEF Inductive, WillKnow
<1> QED
  BY <1>6, <1>7, <1>8 DEF Inductive

--------------------------------------------------------------------------------
(* LobbyManager's steps *)

\* The ids of the lobbies can be listed.
LEMMA ListsAreSequences == SetToSeq(Lobbies) \in Seq(LobbyId)
<1> DEFINE S == Lobbies
           n == Cardinality(S)
<1>1. S \subseteq LobbyId
  BY DEF Lobbies
<1> HIDE DEF S
<1>2. IsFiniteSet(LobbyId)
  <2>1. 1 \in Int /\ MaxLobbies \in Int
    BY ConversationAssumption
  <2> QED
    BY <2>1, FS_Interval DEF LobbyId
<1>3. IsFiniteSet(S)
  BY <1>1, <1>2, FS_Subset
<1>4. n \in Nat /\ ExistsBijection(1..n, S)
  BY <1>3, FS_CardinalityType
<1>5. \E f \in [1..n -> S] : IsInjective(f)
  BY <1>4 DEF ExistsBijection, Bijection, Injection
<1>6. SetToSeq(S) \in [1..n -> S]
  BY <1>5 DEF SetToSeq
<1> HIDE DEF n
<1>7. \A f \in [1..n -> S] : f \in Seq(LobbyId)
  BY <1>1, <1>4
<1>8. SetToSeq(S) \in Seq(LobbyId)
  BY <1>6, <1>7
<1> QED
  BY <1>8 DEF S

Sends(p, kind, args, request) ==
  down' = [down EXCEPT ![p] = Append(@, Answer(kind, args, request.kind, request.nr))]

LEMMA ResponsesSent ==
  ASSUME NEW event, NEW p, NEW l, NEW request,
         SendResponse([event |-> event, player |-> p, lobby |-> l], request)
  PROVE  /\ event = "LobbyCreated" => Sends(p, "PartyCreated", <<l>>, request)
         /\ event = "LobbyCreationFailed" => Sends(p, "PartyNotCreated", <<>>, request)
         /\ event = "ListLobbies" => Sends(p, "ListPartiesCreated", SetToSeq(Lobbies), request)
         /\ event = "JoinLobby" => Sends(p, "PlayerJoinedParty", <<>>, request)
         /\ event = "JoinLobbyFailed" => Sends(p, "PlayerNotJoinedParty", <<>>, request)
         /\ event \in {"JoinLobbyNotExists", "JoinLobbyFull"} => UNCHANGED down
<1> DEFINE response == [event |-> event, player |-> p, lobby |-> l]
           args == ResponseArgs(response)
           list == SetToSeq(Lobbies)
<1>1. response.event = event /\ response.player = p /\ response.lobby = l
  OBVIOUS
<1>2. /\ DOMAIN Subscriptions = {"LobbyCreated", "LobbyCreationFailed", "ListLobbies", "JoinLobby",
                                 "JoinLobbyFailed"}
      /\ Subscriptions["LobbyCreated"] = "PartyCreated"
      /\ Subscriptions["LobbyCreationFailed"] = "PartyNotCreated"
      /\ Subscriptions["ListLobbies"] = "ListPartiesCreated"
      /\ Subscriptions["JoinLobby"] = "PlayerJoinedParty"
      /\ Subscriptions["JoinLobbyFailed"] = "PlayerNotJoinedParty"
  BY DEF Subscriptions
<1>3. SendResponse(response, request)
  OBVIOUS
<1> HIDE DEF response
<1>4. IF event \in DOMAIN Subscriptions THEN Sends(p, Subscriptions[event], args, request) ELSE UNCHANGED down
  BY <1>1, <1>3 DEF SendResponse, Sends
<1>5. args = CASE event = "LobbyCreated" -> <<l>> [] event = "ListLobbies" -> list [] OTHER -> <<>>
  BY <1>1, Zenon DEF ResponseArgs
<1> HIDE DEF args, list
<1>6. event = "LobbyCreated" => args = <<l>>
  BY <1>5, Zenon
<1>7. event = "ListLobbies" => args = list
  BY <1>5, Zenon
<1>8. event # "LobbyCreated" /\ event # "ListLobbies" => args = <<>>
  BY <1>5, Zenon
<1>9. CASE event = "LobbyCreated"
  <2>1. Sends(p, "PartyCreated", <<l>>, request)
    BY <1>2, <1>4, <1>6, <1>9
  <2> QED
    BY <1>9, <2>1
<1>10. CASE event = "ListLobbies"
  <2>1. Sends(p, "ListPartiesCreated", list, request)
    BY <1>2, <1>4, <1>7, <1>10
  <2> QED
    BY <1>10, <2>1 DEF list
<1>11. CASE event \in {"LobbyCreationFailed", "JoinLobby", "JoinLobbyFailed"}
  <2>1. Sends(p, Subscriptions[event], <<>>, request)
    BY <1>2, <1>4, <1>8, <1>11
  <2> QED
    BY <1>2, <1>11, <2>1
<1>12. CASE event \notin DOMAIN Subscriptions
  BY <1>2, <1>4, <1>12
<1> QED
  BY <1>2, <1>9, <1>10, <1>11, <1>12

\* What stands in front of the strand's queue, and what is left behind it.
LEMMA RequestAtHead ==
  ASSUME Good, lmQueue # <<>>
  PROVE  /\ Head(lmQueue) \in LobbyRequest
         /\ Head(lmQueue).args[1] \in bound /\ Head(lmQueue).args[1] \in Player
         /\ Head(lmQueue).kind = "JoinParty" =>
              /\ Head(lmQueue).args[2] \in wanted[Head(lmQueue).args[1]]
              /\ Head(lmQueue).args[2] \in LobbyId
         /\ Tail(lmQueue) \in Seq(LobbyRequest)
         /\ \A i \in DOMAIN Tail(lmQueue) : \E j \in DOMAIN lmQueue : Tail(lmQueue)[i] = lmQueue[j]
<1> USE DEF Good
<1>1. lmQueue \in Seq(LobbyRequest) /\ \A i \in DOMAIN lmQueue : lmQueue[i].args[1] \in bound
  BY DEF TypeOK
<1> DEFINE rest == Tail(lmQueue)
<1>2. /\ rest \in Seq(LobbyRequest) /\ Head(lmQueue) \in LobbyRequest
      /\ 1 \in DOMAIN lmQueue /\ Head(lmQueue) = lmQueue[1]
      /\ \A i \in DOMAIN rest : i + 1 \in DOMAIN lmQueue /\ rest[i] = lmQueue[i + 1]
  BY <1>1, Taken
<1>3. lmQueue[1].args[1] \in bound /\ lmQueue[1].args[1] \in Player
  BY <1>1, <1>2 DEF TypeOK
<1>4. lmQueue[1].kind = "JoinParty" => lmQueue[1].args[2] \in wanted[lmQueue[1].args[1]]
  BY <1>2 DEF Inductive, RequestsAreMeant
<1>5. wanted[lmQueue[1].args[1]] \subseteq LobbyId
  BY <1>3 DEF TypeOK
<1> HIDE DEF rest
<1>6. \A i \in DOMAIN rest : \E j \in DOMAIN lmQueue : rest[i] = lmQueue[j]
  BY <1>2
<1> QED
  BY <1>2, <1>3, <1>4, <1>5, <1>6 DEF rest

\* The strand takes a request of player p.
Serves(p) ==
  /\ lmQueue # <<>> /\ p = Head(lmQueue).args[1]
  /\ lmQueue' = Tail(lmQueue)
  /\ UNCHANGED <<up, registered, bound, gmQueue, gm, clientVars>>

LEMMA ServingLeaves ==
  ASSUME Good, NEW p, Serves(p)
  PROVE  /\ p \in Player
         /\ lmQueue' \in Seq(LobbyRequest) /\ \A i \in DOMAIN lmQueue' : lmQueue'[i].args[1] \in bound'
         /\ CommandsAreMeant' /\ RequestsAreMeant'
         /\ \A q \in Player : Ordered(q, down[q], lmQueue', up'[q], asked'[q])
<1> USE DEF Good
<1> DEFINE rest == Tail(lmQueue)
<1>1. /\ lmQueue # <<>> /\ lmQueue' = rest /\ p = Head(lmQueue).args[1]
      /\ UNCHANGED <<up, bound, wanted, asked>>
  BY DEF Serves
<1>2. /\ rest \in Seq(LobbyRequest) /\ p \in Player
      /\ \A i \in DOMAIN rest : \E j \in DOMAIN lmQueue : rest[i] = lmQueue[j]
  BY <1>1, RequestAtHead
<1>3. ASSUME NEW q \in Player
      PROVE  Ordered(q, down[q], rest, up[q], asked[q])
  <2>1. Ordered(q, down[q], lmQueue, up[q], asked[q]) /\ asked[q] \in Nat
    BY DEF Inductive, RequestsInOrder, TypeOK
  <2>2. Queues(ToClient, LobbyRequest, ToServer, down[q], lmQueue, up[q])
    BY QueuesAreTyped
  <2> QED
    BY <1>1, <2>1, <2>2, RequestTaken
<1> HIDE DEF rest
<1>4. \A i \in DOMAIN rest : rest[i].args[1] \in bound
  BY <1>2 DEF TypeOK
<1>5. CommandsAreMeant'
  BY <1>1 DEF Inductive, CommandsAreMeant, Meant
<1>6. RequestsAreMeant'
  BY <1>1, <1>2 DEF Inductive, RequestsAreMeant
<1> QED
  BY <1>1, <1>2, <1>3, <1>4, <1>5, <1>6

LEMMA RequestUnansweredGood ==
  ASSUME Good, NEW p, Serves(p), UNCHANGED <<down, lobbyOf, founded, gameOf, evicted>>
  PROVE  Good'
<1> USE DEF Good
<1>1. TypeOK'
  BY ServingLeaves DEF TypeOK, Serves
<1>2. CommandsAreMeant' /\ RequestsAreMeant' /\ RequestsInOrder'
  BY ServingLeaves DEF RequestsInOrder
<1>3. AnswersAreApt' /\ WillKnow'
  BY DEF Serves, Inductive, AnswersAreApt, WillKnow
<1> QED
  BY <1>1, <1>2, <1>3 DEF Inductive

LEMMA RequestAnsweredGood ==
  ASSUME Good, NEW p, Serves(p), UNCHANGED gameOf,
         founded' \subseteq LobbyId, evicted' \subseteq Player,
         lobbyOf' \in [Player -> LobbyId \cup {NoLobby}],
         \A q \in Player : q # p => lobbyOf'[q] = lobbyOf[q] /\ (q \in evicted => q \in evicted'),
         NEW m \in ToClient, m.to = Head(lmQueue).kind, m.nr = Head(lmQueue).nr,
         RouteMessage(m) \in Shown[m.to], down' = [down EXCEPT ![p] = Append(@, m)],
         \/ Tells(m) /\ lobbyOf'[p] \in Told(m, wanted[p])
         \/ ~Tells(m) /\ lobbyOf'[p] = lobbyOf[p] /\ (p \in evicted => p \in evicted')
  PROVE  Good'
<1> USE DEF Good
<1>1. p \in Player
  BY ServingLeaves
<1>2. /\ UNCHANGED <<up, registered, bound, gmQueue, gm, welcomed, wanted, belief, given, asked>>
      /\ lmQueue # <<>> /\ lmQueue' = Tail(lmQueue) /\ Head(lmQueue).args[1] = p
  BY DEF Serves
<1>3. m.to # "Join"
  BY <1>2, RequestAtHead DEF LobbyRequest, LobbyRequests
<1>4. down \in [Player -> Seq(ToClient)] /\ Append(down[p], m) \in Seq(ToClient)
  BY <1>1, Put DEF TypeOK
<1>5. /\ down' \in [Player -> Seq(ToClient)] /\ down'[p] = Append(down[p], m)
      /\ \A q \in Player : q # p => down'[q] = down[q]
  BY <1>1, <1>4
<1>6. \A i \in DOMAIN down'[p] : (i \in DOMAIN down[p] /\ down'[p][i] = down[p][i]) \/ down'[p][i] = m
  BY <1>1, <1>4, <1>5, Put
<1>7. TypeOK'
  BY <1>2, <1>5, ServingLeaves DEF TypeOK
<1>8. CommandsAreMeant' /\ RequestsAreMeant'
  BY ServingLeaves
<1>9. AnswersAreApt'
  <2> SUFFICES ASSUME NEW q \in Player, NEW i \in DOMAIN down'[q]
               PROVE  /\ RouteMessage(down'[q][i]) \in Shown[down'[q][i].to]
                      /\ down'[q][i].to = "Join" => q \in bound
    BY <1>2 DEF AnswersAreApt
  <2>1. CASE i \in DOMAIN down[q] /\ down'[q][i] = down[q][i]
    BY <2>1 DEF Inductive, AnswersAreApt
  <2>2. CASE q = p /\ down'[q][i] = m
    BY <1>3, <2>2
  <2> QED
    BY <1>5, <1>6, <2>1, <2>2
<1>10. RequestsInOrder'
  <2> SUFFICES ASSUME NEW q \in Player
               PROVE  Ordered(q, down'[q], lmQueue', up'[q], asked'[q])
    BY DEF RequestsInOrder
  <2>1. Ordered(q, down[q], lmQueue', up'[q], asked'[q])
    BY ServingLeaves
  <2>2. CASE q # p
    BY <1>5, <2>1, <2>2
  <2>3. CASE q = p
    <3>1. Ordered(p, down[p], lmQueue, up[p], asked[p]) /\ asked[p] \in Nat
      BY <1>1 DEF Inductive, RequestsInOrder, TypeOK
    <3>2. Queues(ToClient, LobbyRequest, ToServer, down[p], lmQueue, up[p])
      BY <1>1, QueuesAreTyped
    <3>3. Ordered(p, Append(down[p], m), Tail(lmQueue), up[p], asked[p])
      BY <1>2, <3>1, <3>2, RequestAnswered
    <3> QED
      BY <1>2, <1>5, <2>3, <3>3
  <2> QED
    BY <2>2, <2>3
<1>11. WillKnow'
  <2> SUFFICES ASSUME NEW q \in Player, q \notin evicted'
               PROVE  Informed(lobbyOf'[q], down'[q], wanted[q], belief[q])
    BY <1>2 DEF WillKnow
  <2>1. CASE q # p
    <3>1. Informed(lobbyOf[q], down[q], wanted[q], belief[q])
      BY <2>1 DEF Inductive, WillKnow
    <3> QED
      BY <1>5, <2>1, <3>1
  <2>2. CASE q = p /\ Tells(m) /\ lobbyOf'[p] \in Told(m, wanted[p])
    <3>1. Informed(lobbyOf'[p], Append(down[p], m), wanted[p], belief[p])
      BY <1>4, <2>2, TellingMessage
    <3> QED
      BY <1>5, <2>2, <3>1
  <2>3. CASE q = p /\ ~Tells(m) /\ lobbyOf'[p] = lobbyOf[p] /\ p \notin evicted
    <3>1. Informed(lobbyOf[p], down[p], wanted[p], belief[p])
      BY <1>1, <2>3 DEF Inductive, WillKnow
    <3>2. Informed(lobbyOf[p], Append(down[p], m), wanted[p], belief[p])
      BY <1>1, <1>4, <2>3, <3>1, AnotherMessage
    <3> QED
      BY <1>5, <2>3, <3>2
  <2> QED
    BY <2>1, <2>2, <2>3
<1> QED
  BY <1>7, <1>8, <1>9, <1>10, <1>11 DEF Inductive

KindsOfAnswers ==
  {"PartyCreated", "PartyNotCreated", "ListPartiesCreated", "PlayerJoinedParty", "PlayerNotJoinedParty"}

LEMMA AnswersToRequests ==
  ASSUME NEW kind \in KindsOfAnswers, NEW args \in Seq(LobbyId), NEW request \in LobbyRequest
  PROVE  LET m == Answer(kind, args, request.kind, request.nr) IN
         /\ m \in ToClient /\ m.type = PackMessageType(kind) /\ m.args = args
         /\ m.to = request.kind /\ m.nr = request.nr
<1> DEFINE to == request.kind
           nr == request.nr
<1>1. to \in {"Join"} \cup LobbyRequests /\ nr \in Nat
  BY DEF LobbyRequest
<1>2. SurvivesPacking(kind)
  <2>1. kind \in InUse
    BY DEF KindsOfAnswers, InUse
  <2> QED
    BY <2>1, InUseSurvive
<1> HIDE DEF to, nr
<1>3. /\ Answer(kind, args, to, nr) \in ToClient
      /\ Answer(kind, args, to, nr).type = PackMessageType(kind)
      /\ Answer(kind, args, to, nr).args = args
      /\ Answer(kind, args, to, nr).to = to /\ Answer(kind, args, to, nr).nr = nr
  BY <1>1, <1>2, AnswersAreMessages
<1> QED
  BY <1>3 DEF to, nr

\* An answer that changes nothing for anybody.
LEMMA OnlyToldGood ==
  ASSUME Good, NEW p, Serves(p), UNCHANGED <<lobbyOf, founded, gameOf, evicted>>,
         NEW kind \in {"PartyNotCreated", "ListPartiesCreated", "PlayerNotJoinedParty"},
         NEW args \in Seq(LobbyId), Sends(p, kind, args, Head(lmQueue)),
         kind = "PartyNotCreated" => Head(lmQueue).kind = "CreateParty",
         kind = "ListPartiesCreated" => Head(lmQueue).kind = "ListParties",
         kind = "PlayerNotJoinedParty" => Head(lmQueue).kind = "JoinParty"
  PROVE  Good'
<1> DEFINE request == Head(lmQueue)
           m == Answer(kind, args, request.kind, request.nr)
<1>1. request \in LobbyRequest
  BY RequestAtHead DEF Serves
<1>2. down' = [down EXCEPT ![p] = Append(@, m)]
  BY DEF Sends
<1>3. /\ m \in ToClient /\ m.type = PackMessageType(kind) /\ m.args = args
      /\ m.to = request.kind /\ m.nr = request.nr
  <2>1. kind \in KindsOfAnswers
    BY DEF KindsOfAnswers
  <2> HIDE DEF request
  <2> QED
    BY <1>1, <2>1, AnswersToRequests
<1> HIDE DEF m
<1>4. /\ kind = "PartyNotCreated" => RouteMessage(m) = "LOBBY NOT CREATED"
      /\ kind = "ListPartiesCreated" => RouteMessage(m) = "LOBBY LIST CREATED"
      /\ kind = "PlayerNotJoinedParty" => RouteMessage(m) = "JOIN LOBBY FAILED"
  BY <1>3, LinesShown
<1>5. RouteMessage(m) \in Shown[m.to] /\ ~Tells(m)
  BY <1>3, <1>4, LinesOfCommands DEF Tells
<1>6. founded \subseteq LobbyId /\ evicted \subseteq Player /\ lobbyOf \in [Player -> LobbyId \cup {NoLobby}]
  BY DEF Good, TypeOK
<1> QED
  BY <1>2, <1>3, <1>5, <1>6, RequestAnsweredGood

\* An answer that puts the player into lobby l.
LEMMA EnteredGood ==
  ASSUME Good, NEW p, Serves(p), NEW l \in LobbyId,
         lobbyOf' = [lobbyOf EXCEPT ![p] = l], evicted' = evicted \ {p},
         founded' \subseteq LobbyId, UNCHANGED gameOf,
         NEW kind \in {"PartyCreated", "PlayerJoinedParty"},
         NEW args \in Seq(LobbyId), Sends(p, kind, args, Head(lmQueue)),
         kind = "PartyCreated" => Head(lmQueue).kind = "CreateParty" /\ args # <<>> /\ args[1] = l,
         kind = "PlayerJoinedParty" => Head(lmQueue).kind = "JoinParty" /\ l \in wanted[p]
  PROVE  Good'
<1> DEFINE request == Head(lmQueue)
           m == Answer(kind, args, request.kind, request.nr)
<1>1. request \in LobbyRequest /\ p \in Player
  BY RequestAtHead DEF Serves
<1>2. down' = [down EXCEPT ![p] = Append(@, m)]
  BY DEF Sends
<1>3. /\ m \in ToClient /\ m.type = PackMessageType(kind) /\ m.args = args
      /\ m.to = request.kind /\ m.nr = request.nr
  <2>1. kind \in KindsOfAnswers
    BY DEF KindsOfAnswers
  <2> HIDE DEF request
  <2> QED
    BY <1>1, <2>1, AnswersToRequests
<1> HIDE DEF m
<1>4. /\ kind = "PartyCreated" => RouteMessage(m) = "LOBBY CREATED"
      /\ kind = "PlayerJoinedParty" => RouteMessage(m) = "JOIN LOBBY SUCCESS"
  BY <1>3, LinesShown
<1>5. RouteMessage(m) \in Shown[m.to] /\ Tells(m) /\ l \in Told(m, wanted[p])
  BY <1>3, <1>4, LinesOfCommands DEF Tells, Told
<1>6. /\ evicted' \subseteq Player
      /\ lobbyOf' \in [Player -> LobbyId \cup {NoLobby}] /\ lobbyOf'[p] = l
      /\ \A q \in Player : q # p => lobbyOf'[q] = lobbyOf[q] /\ (q \in evicted => q \in evicted')
  BY <1>1 DEF Good, TypeOK
<1> QED
  BY <1>2, <1>3, <1>5, <1>6, RequestAnsweredGood

LEMMA LobbyManagerStepGood ==
  ASSUME Good, LobbyManagerStep
  PROVE  Good'
<1> DEFINE request == Head(lmQueue)
           p == request.args[1]
           none == <<>>
<1>1. Serves(p)
  BY DEF Serves, LobbyManagerStep
<1>2. SendResponse(reply', request)
  BY DEF LobbyManagerStep
<1>3. none = <<>> /\ none \in Seq(LobbyId)
  OBVIOUS
<1>4. ASSUME NEW event, NEW l, Tell(event, p, l)
      PROVE  /\ SendResponse([event |-> event, player |-> p, lobby |-> l], request)
             /\ UNCHANGED <<lobbyOf, founded, gameOf>>
  BY <1>2, <1>4 DEF Tell, Service!Tell
<1> HIDE DEF p, none
<1>5. ASSUME request.kind = "CreateParty", OnCreateLobby(p)
      PROVE  Good'
  <2>1. ASSUME NEW l \in LobbyId, Service!Create(p, l), evicted' = evicted \ {p}
        PROVE  Good'
    <3> DEFINE args == <<l>>
               event == "LobbyCreated"
               kind == "PartyCreated"
    <3>1. /\ lobbyOf' = [lobbyOf EXCEPT ![p] = l] /\ founded' = founded \cup {l}
          /\ reply' = [event |-> event, player |-> p, lobby |-> l] /\ UNCHANGED gameOf
      BY <2>1 DEF Service!Create, Service!Answer
    <3>2. founded' \subseteq LobbyId
      BY <3>1 DEF Good, TypeOK
    <3>3. /\ args \in Seq(LobbyId) /\ args # <<>> /\ args[1] = l /\ args = <<l>>
          /\ event = "LobbyCreated" /\ kind = "PartyCreated"
      OBVIOUS
    <3> HIDE DEF event, args, kind
    <3>4. Sends(p, kind, args, request)
      BY <1>2, <3>1, <3>3, ResponsesSent
    <3>5. kind \in {"PartyCreated", "PlayerJoinedParty"} /\ kind # "PlayerJoinedParty"
      BY <3>3
    <3> QED
      BY <1>1, <1>5, <2>1, <3>1, <3>2, <3>3, <3>4, <3>5, EnteredGood
  <2>2. ASSUME Tell("LobbyCreationFailed", p, NoLobby), UNCHANGED evicted
        PROVE  Good'
    <3> DEFINE event == "LobbyCreationFailed"
               kind == "PartyNotCreated"
    <3>1. event = "LobbyCreationFailed" /\ kind = "PartyNotCreated" /\ Tell(event, p, NoLobby)
      BY <2>2
    <3> HIDE DEF event, kind
    <3>2. /\ SendResponse([event |-> event, player |-> p, lobby |-> NoLobby], request)
          /\ UNCHANGED <<lobbyOf, founded, gameOf>>
      BY <1>4, <3>1
    <3>3. Sends(p, kind, none, request)
      BY <1>3, <3>1, <3>2, ResponsesSent
    <3>4. kind \in {"PartyNotCreated", "ListPartiesCreated", "PlayerNotJoinedParty"}
      BY <3>1
    <3> QED
      BY <1>1, <1>3, <1>5, <2>2, <3>1, <3>2, <3>3, <3>4, OnlyToldGood
  <2> QED
    BY <1>5, <2>1, <2>2 DEF OnCreateLobby
<1>6. ASSUME request.kind = "ListParties", OnListLobbies(p)
      PROVE  Good'
  <2> DEFINE event == "ListLobbies"
             kind == "ListPartiesCreated"
             list == SetToSeq(Lobbies)
  <2>1. event = "ListLobbies" /\ kind = "ListPartiesCreated" /\ Tell(event, p, NoLobby) /\ UNCHANGED evicted
    BY <1>6 DEF OnListLobbies
  <2>2. list \in Seq(LobbyId) /\ list = SetToSeq(Lobbies)
    BY ListsAreSequences
  <2> HIDE DEF event, kind, list
  <2>3. /\ SendResponse([event |-> event, player |-> p, lobby |-> NoLobby], request)
        /\ UNCHANGED <<lobbyOf, founded, gameOf>>
    BY <1>4, <2>1
  <2>4. Sends(p, kind, list, request)
    BY <2>1, <2>2, <2>3, ResponsesSent
  <2>5. kind \in {"PartyNotCreated", "ListPartiesCreated", "PlayerNotJoinedParty"}
    BY <2>1
  <2> QED
    BY <1>1, <1>6, <2>1, <2>2, <2>3, <2>4, <2>5, OnlyToldGood
<1>7. ASSUME request.kind = "JoinParty", OnJoinLobby(p, request.args[2])
      PROVE  Good'
  <2> DEFINE l == request.args[2]
  <2>1. l \in LobbyId /\ l \in wanted[p]
    BY <1>1, <1>7, RequestAtHead DEF Serves, p
  <2>2. \/ Service!Join(p, l) /\ evicted' = evicted \ {p}
        \/ \E event \in {"JoinLobbyNotExists", "JoinLobbyFull", "JoinLobbyFailed"} :
             Tell(event, p, l) /\ UNCHANGED evicted
    BY <1>7 DEF OnJoinLobby
  <2> HIDE DEF l
  <2>3. ASSUME Service!Join(p, l), evicted' = evicted \ {p}
        PROVE  Good'
    <3> DEFINE event == "JoinLobby"
               kind == "PlayerJoinedParty"
    <3>1. /\ lobbyOf' = [lobbyOf EXCEPT ![p] = l]
          /\ reply' = [event |-> event, player |-> p, lobby |-> l] /\ UNCHANGED <<founded, gameOf>>
      BY <2>3 DEF Service!Join, Service!Answer
    <3>2. founded' \subseteq LobbyId
      BY <3>1 DEF Good, TypeOK
    <3>3. event = "JoinLobby" /\ kind = "PlayerJoinedParty"
      OBVIOUS
    <3> HIDE DEF event, kind
    <3>4. Sends(p, kind, none, request)
      BY <1>2, <1>3, <3>1, <3>3, ResponsesSent
    <3>5. kind \in {"PartyCreated", "PlayerJoinedParty"} /\ kind # "PartyCreated"
      BY <3>3
    <3> QED
      BY <1>1, <1>3, <1>7, <2>1, <2>3, <3>1, <3>2, <3>3, <3>4, <3>5, EnteredGood
  <2>4. ASSUME NEW event \in {"JoinLobbyNotExists", "JoinLobbyFull", "JoinLobbyFailed"},
               Tell(event, p, l), UNCHANGED evicted
        PROVE  Good'
    <3>1. /\ SendResponse([event |-> event, player |-> p, lobby |-> l], request)
          /\ UNCHANGED <<lobbyOf, founded, gameOf>>
      BY <1>4, <2>4
    <3>2. CASE event = "JoinLobbyFailed"
      <4> DEFINE kind == "PlayerNotJoinedParty"
      <4>1. /\ kind = "PlayerNotJoinedParty"
            /\ kind \in {"PartyNotCreated", "ListPartiesCreated", "PlayerNotJoinedParty"}
        OBVIOUS
      <4> HIDE DEF kind
      <4>2. Sends(p, kind, none, request)
        BY <1>3, <3>1, <3>2, <4>1, ResponsesSent
      <4> QED
        BY <1>1, <1>3, <1>7, <2>4, <3>1, <4>1, <4>2, OnlyToldGood
    <3>3. CASE event \in {"JoinLobbyNotExists", "JoinLobbyFull"}
      <4>1. UNCHANGED down
        BY <3>1, <3>3, ResponsesSent
      <4> QED
        BY <1>1, <2>4, <3>1, <4>1, RequestUnansweredGood
    <3> QED
      BY <3>2, <3>3
  <2> QED
    BY <2>2, <2>3, <2>4
<1> QED
  BY <1>5, <1>6, <1>7 DEF LobbyManagerStep, p

--------------------------------------------------------------------------------
(* The invariant, and the theorems *)

LEMMA StepGood ==
  ASSUME Good, [Next]_vars
  PROVE  Good'
<1>1. ASSUME NEW p \in Player, RouteCommand(p)    PROVE Good'
  BY <1>1, RouteCommandGood
<1>2. ASSUME NEW p \in Player, Register(p)        PROVE Good'
  BY <1>2, RegisterGood
<1>3. ASSUME NEW p \in Player, OnJoin(p)          PROVE Good'
  BY <1>3, OnJoinGood
<1>4. ASSUME NEW p \in Player, OnLobbyRequest(p)  PROVE Good'
  BY <1>4, OnLobbyRequestGood
<1>5. ASSUME NEW p \in Player, OnGameRequest(p)   PROVE Good'
  BY <1>5, OnGameRequestGood
<1>6. ASSUME NEW p \in Player, OnNoEvent(p)       PROVE Good'
  BY <1>6, OnNoEventGood
<1>7. ASSUME NEW p \in Player, ShowMessage(p)     PROVE Good'
  BY <1>7, ShowMessageGood
<1>8. ASSUME UNCHANGED vars                       PROVE Good'
  BY <1>8 DEF Good, TypeOK, Inductive, CommandsAreMeant, Meant, RequestsAreMeant, AnswersAreApt,
              RequestsInOrder, WillKnow
<1> QED
  BY <1>1, <1>2, <1>3, <1>4, <1>5, <1>6, <1>7, <1>8, LobbyManagerStepGood, TakeGameRequestGood,
     AddDungeonGood, ReadMembersGood, RemoveMemberGood, GameTickEndsGameGood DEF Next

LEMMA GoodHolds == Spec => []Good
<1>1. Good /\ [Next]_vars => Good'
  BY StepGood
<1> QED
  BY <1>1, InitGood, PTL DEF Spec

\* Whatever clients ask, and however the strands run, every queue holds what its
\* reader expects, and there is a game for every lobby that may start one.
THEOREM TypesOK == Spec => []TypeOK
<1>1. Good => TypeOK
  BY DEF Good
<1> QED
  BY <1>1, GoodHolds, PTL

\* Every message on its way down shows its client a line for the command it
\* answers, and the answers to lobby requests come in the order of the requests
\* (command_router.cpp, lobby_manager.cpp, response_sender.cpp, message_router.cpp).
THEOREM AnswersComeInOrder == Spec => []AnswersInOrder
<1>1. Good => AnswersInOrder
  BY DEF Good, Inductive, AnswersAreApt, RequestsInOrder, Ordered, AnswersInOrder
<1> QED
  BY <1>1, GoodHolds, PTL

\* A client that has heard every answer knows where it is, although some of its
\* requests are never answered and others are dropped: in the lobby it was told
\* of last or one it asked for, unless a game took it out.
THEOREM ClientsKnowTheirLobby == Spec => []KnowsItsLobby
<1>1. ASSUME Good
      PROVE  KnowsItsLobby
  <2> SUFFICES ASSUME NEW p \in Player, p \notin evicted, \A i \in DOMAIN down[p] : down[p][i].to = "Join"
               PROVE  lobbyOf[p] \in belief[p]
    BY DEF KnowsItsLobby
  <2>1. \A i \in DOMAIN down[p] : RouteMessage(down[p][i]) = "WELCOME"
    BY <1>1, LinesOfCommands DEF Good, Inductive, AnswersAreApt
  <2>2. \A i \in DOMAIN down[p] : ~Tells(down[p][i])
    BY <2>1 DEF Tells
  <2>3. Informed(lobbyOf[p], down[p], wanted[p], belief[p])
    BY <1>1 DEF Good, Inductive, WillKnow
  <2> QED
    BY <2>2, <2>3 DEF Informed
<1> QED
  BY <1>1, GoodHolds, PTL

--------------------------------------------------------------------------------
(* WELCOME means that the client is heard *)

Heard(p) == lmQueue' # lmQueue \/ gmQueue' # gmQueue \/ down'[p] # down[p]

LEMMA Longer ==
  ASSUME NEW S, NEW s \in Seq(S), NEW x
  PROVE  Append(s, x) # s /\ Len(Append(s, x)) = Len(s) + 1
<1>1. Len(Append(s, x)) = Len(s) + 1 /\ Len(s) \in Nat
  OBVIOUS
<1> QED
  BY <1>1

\* What the bound say becomes an event that is taken up.
LEMMA ReadingIsHearing ==
  ASSUME Good, NEW p \in bound, OnJoin(p) \/ OnLobbyRequest(p) \/ OnGameRequest(p) \/ OnNoEvent(p)
  PROVE  Heard(p)
<1> USE DEF Good
<1>1. p \in Player /\ p \in registered
  BY DEF TypeOK
<1>2. CASE OnJoin(p)
  <2>1. Welcome(p)
    BY <1>1, <1>2 DEF OnJoin
  <2>2. down \in [Player -> Seq(ToClient)]
    BY DEF TypeOK
  <2>3. down'[p] = Append(down[p], Answer("Welcome", <<>>, "Join", Head(up[p]).nr))
    BY <1>1, <2>1, <2>2 DEF Welcome
  <2>4. down'[p] # down[p]
    BY <1>1, <2>2, <2>3, Longer
  <2> QED
    BY <2>4 DEF Heard
<1>3. CASE OnLobbyRequest(p)
  <2>1. \E r : lmQueue' = Append(lmQueue, r)
    BY <1>3 DEF OnLobbyRequest
  <2>2. lmQueue \in Seq(LobbyRequest)
    BY DEF TypeOK
  <2>3. lmQueue' # lmQueue
    BY <2>1, <2>2, Longer
  <2> QED
    BY <2>3 DEF Heard
<1>4. CASE OnGameRequest(p)
  <2>1. \E r : gmQueue' = Append(gmQueue, r)
    BY <1>4 DEF OnGameRequest
  <2>2. gmQueue \in Seq(GameRequest)
    BY DEF TypeOK
  <2>3. gmQueue' # gmQueue
    BY <2>1, <2>2, Longer
  <2> QED
    BY <2>3 DEF Heard
<1>5. CASE OnNoEvent(p)
  <2> DEFINE event == MakeEvent(p, Head(up[p]))
  <2>1. up[p] # <<>> /\ event.kind = "none"
    BY <1>5 DEF OnNoEvent, OnRawMessage
  <2>2. PICK kind \in CommandKinds : \E args \in CommandArgs(p, kind) :
          Head(up[p]).type = PackMessageType(kind) /\ Head(up[p]).args = args
    BY <1>1, <2>1, HeadMeant
  <2>3. PICK args \in CommandArgs(p, kind) :
          Head(up[p]).type = PackMessageType(kind) /\ Head(up[p]).args = args
    BY <2>2
  <2>4. /\ kind = "Join" => event = [kind |-> "Join", args |-> <<p>> \o <<p>>]
        /\ kind # "Join" /\ p \in bound => event = [kind |-> kind, args |-> <<p>> \o args]
    BY <1>1, <2>3, EventOfCommand
  <2> HIDE DEF event
  <2>5. event.kind = kind
    BY <2>4
  <2>6. kind # "none"
    BY DEF CommandKinds, LobbyRequests, GameRequests
  <2> QED
    BY <2>1, <2>5, <2>6
<1> QED
  BY <1>2, <1>3, <1>4, <1>5

\* Nothing that a client says after it has seen WELCOME is dropped: who is
\* welcome is bound, stays bound, and everything it can say becomes an event
\* (message_router.cpp, msg_router.cpp, msg_dispatcher.cpp, connection_manager.cpp).
THEOREM WelcomeMeansHeardHolds == Spec => WelcomeMeansHeard
<1>1. ASSUME Good, [Next]_vars
      PROVE  \A p \in welcomed : up'[p] # up[p] /\ Len(up'[p]) < Len(up[p]) =>
               lmQueue' # lmQueue \/ gmQueue' # gmQueue \/ down'[p] # down[p]
  <2> SUFFICES ASSUME NEW p \in welcomed, up'[p] # up[p], Len(up'[p]) < Len(up[p])
               PROVE  Heard(p)
    BY DEF Heard
  <2>1. p \in bound /\ p \in Player /\ up \in [Player -> Seq(ToServer)]
    BY <1>1 DEF Good, TypeOK
  <2>2. ASSUME NEW q \in Player, RouteCommand(q)
        PROVE  FALSE
    <3>1. \E m : up' = [up EXCEPT ![q] = Append(@, m)]
      BY <2>2 DEF RouteCommand
    <3>2. PICK m : up' = [up EXCEPT ![q] = Append(@, m)]
      BY <3>1
    <3>3. CASE q = p
      <4>1. up'[p] = Append(up[p], m) /\ up[p] \in Seq(ToServer)
        BY <2>1, <3>2, <3>3
      <4>2. Len(up'[p]) = Len(up[p]) + 1 /\ Len(up[p]) \in Nat
        BY <4>1, Longer
      <4> QED
        BY <4>2
    <3>4. CASE q # p
      BY <2>1, <3>2, <3>4
    <3> QED
      BY <3>3, <3>4
  <2>3. ASSUME NEW q \in Player, OnJoin(q) \/ OnLobbyRequest(q) \/ OnGameRequest(q) \/ OnNoEvent(q)
        PROVE  Heard(p)
    <3>1. up' = [up EXCEPT ![q] = Tail(@)]
      BY <2>3 DEF OnJoin, OnLobbyRequest, OnGameRequest, OnNoEvent, OnRawMessage
    <3>2. q = p
      BY <2>1, <3>1
    <3> QED
      BY <1>1, <2>1, <2>3, <3>2, ReadingIsHearing
  <2>4. ASSUME NEW q \in Player, Register(q) \/ ShowMessage(q)
        PROVE  FALSE
    BY <2>4 DEF Register, ShowMessage
  <2>5. ASSUME LobbyManagerStep \/ TakeGameRequest \/ AddDungeon \/ ReadMembers \/ RemoveMember
                 \/ GameTickEndsGame
        PROVE  FALSE
    BY <2>5 DEF LobbyManagerStep, TakeGameRequest, AddDungeon, ReadMembers, RemoveMember,
                GameTickEndsGame, GameManagerKeeps
  <2>6. CASE UNCHANGED vars
    BY <2>6
  <2> QED
    BY <1>1, <2>2, <2>3, <2>4, <2>5, <2>6 DEF Next
<1> QED
  BY <1>1, GoodHolds, PTL DEF Spec, WelcomeMeansHeard

================================================================================
