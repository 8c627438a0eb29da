------------------------------ MODULE MCCodecs ------------------------------
(***************************************************************************)
(* An instance of Codecs for TLC.  Streams: payloads that are empty or     *)
(* look like a magic or a header, noise that ends in half a magic, in a    *)
(* magic, or in a header with an impossible length.  Names: every string   *)
(* of up to one character too many, with characters that do not exist, and *)
(* every number.  Lines: up to three words, commands and others.           *)
(* Messages of other clients: every type there is, types that are none, a  *)
(* type of more than sixteen bits, with too few and too many numbers and   *)
(* with directions that are none of the four and no byte.                  *)
(* Dungeons: maps of two by two or three cells anywhere in a plane of      *)
(* eight by eight, a barrier, a player and a monster anywhere in it, the   *)
(* latter apart.                                                           *)
(***************************************************************************)
EXTENDS Codecs

MCMagic == <<2, 3>>
MCPayload == {<<>>, <<1>>, <<2, 3>>, <<2, 3, 0>>}
MCNoise == {<<1>>, <<2>>, <<2, 3>>, <<2, 3, 3, 1>>}

MCName == SeqOf(0 .. CharsetSize, MaxPackedLen + 1)

MCPlayerIdOf == "alice" :> 100 @@ "12345" :> 2
MCUint64Of == "7" :> 7 @@ "12345" :> 12345
MCSessionId == 3
MCSpeaker == 2

Word == {"JOIN", "CREATE_LOBBY", "LIST_LOBBY", "JOIN_LOBBY", "START_GAME", "MOVE", "ATTACK",
         "LEAVE_LOBBY", "alice", "7", "UP", "DOWN", "LEFT", "RIGHT", "-1"}

MCLine == SeqOf(Word, 3)

MCForeign ==
  [type : {0, 7, 8, 255, 256, 272, 273, 512, 515, 520, 521, 768, 65535, 65536 + 512}
            \cup {PackMessageType(kind) : kind \in DOMAIN EventFactory},
   args : {<<>>} \cup {<<n>> : n \in {0, 3, 4, 100, 255, 256, 65536}} \cup {<<MCSpeaker, 1>>, <<100, 256>>}]

MCSaid ==
  {Event(type, <<MCSessionId, 100>>) :
     type \in {"PlayerAuthenticated", "PlayerAuthenticationFailed", "PlayerReconnected", "PlayerReconnectionFailed"}}
    \cup {Event(type, <<MCSpeaker>>) :
             type \in {"LobbyCreationFailedResponse", "ListLobbiesFailedResponse",
                       "JoinLobbyResponse", "JoinLobbyFailedResponse",
                       "JoinLobbyNotExistsResponse", "JoinLobbyFullResponse",
                       "LeaveLobbyResponse", "LeaveLobbyFailedResponse", "PlayerReadyResponse",
                       "StartGameLobbyNotReadyResponse", "StartGameNotTheLeaderResponse"}}
    \cup {Event("StartGameResponse", <<MCSpeaker, 1>>)}
    \cup {Event("LobbyCreatedResponse", <<MCSpeaker, l>>) : l \in 0 .. 3}
    \cup {Event("ListLobbiesResponse", <<MCSpeaker, ids>>) : ids \in SeqOf(0 .. 2, 5)}

\* Two columns, at the ends of the plane and on both sides of zero; two or three rows.
Corners == {e \in Point \X Point : /\ e[1].x \in {-HalfRange, -1, 0, HalfRange - 2}
                                  /\ e[2].x = e[1].x + 1 /\ e[2].y - e[1].y \in 1 .. 2}

MCDungeon ==
  UNION {LET cells == [x : a.x .. b.x, y : a.y .. b.y] IN
         {[blc |-> a, trc |-> b, barriers |-> w,
           players |-> <<[at |-> p, id |-> 1, hp |-> 2, alive |-> TRUE]>>,
           monsters |-> IF m = p THEN <<>> ELSE <<[at |-> m, id |-> 2, hp |-> 0, alive |-> FALSE]>>] :
            w \in {<<>>} \cup {<<c>> : c \in cells}, p \in cells, m \in cells}
         : <<a, b>> \in Corners}

=============================================================================
