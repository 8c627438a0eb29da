----------------------------- MODULE LobbyService -----------------------------
(***************************************************************************)
(* What the server promises about lobbies and games, with no registry, no  *)
(* strand and no lobby object: a player is in one lobby at most and in one *)
(* game at most, every operation takes effect in one step, and a response  *)
(* is true at the moment it is published.                                  *)
(***************************************************************************)
EXTENDS Naturals, FiniteSets

CONSTANTS Player, LobbyId, NoLobby, GameId, NoGame, LobbyMaxPlayers, NoReply

VARIABLES
  lobbyOf,   \* the lobby a player is in, or NoLobby
  founded,   \* the lobby ids that have been used up
  gameOf,    \* the game a player is in, or NoGame
  reply      \* the response published in the last step

vars == <<lobbyOf, founded, gameOf, reply>>

Members(l) == {p \in Player : lobbyOf[p] = l}
Roster(g) == {p \in Player : gameOf[p] = g}

Init ==
  /\ lobbyOf = [p \in Player |-> NoLobby]
  /\ founded = {}
  /\ gameOf = [p \in Player |-> NoGame]
  /\ reply = NoReply

\* A response, with the lobby the request was about (NoLobby if it named none).
Answer(event, p, l) == reply' = [event |-> event, player |-> p, lobby |-> l]

Create(p, l) ==
  /\ lobbyOf[p] = NoLobby /\ l \notin founded
  /\ lobbyOf' = [lobbyOf EXCEPT ![p] = l]
  /\ founded' = founded \cup {l}
  /\ Answer("LobbyCreated", p, l)
  /\ UNCHANGED gameOf

\* A lobby with no room for its creator: only its id is spent.
CreateNothing(p, l) ==
  /\ LobbyMaxPlayers = 0 /\ l \notin founded
  /\ founded' = founded \cup {l}
  /\ Answer("LobbyCreationFailed", p, l)
  /\ UNCHANGED <<lobbyOf, gameOf>>

Join(p, l) ==
  /\ lobbyOf[p] = NoLobby
  /\ Members(l) # {} /\ Cardinality(Members(l)) < LobbyMaxPlayers
  /\ lobbyOf' = [lobbyOf EXCEPT ![p] = l]
  /\ Answer("JoinLobby", p, l)
  /\ UNCHANGED <<founded, gameOf>>

Leave(p) ==
  /\ lobbyOf[p] # NoLobby
  /\ lobbyOf' = [lobbyOf EXCEPT ![p] = NoLobby]
  /\ Answer("LeaveLobby", p, lobbyOf[p])
  /\ UNCHANGED <<founded, gameOf>>

\* Why a refusal, or an answer that changes nothing, is true.
Justified(event, p, l) ==
  \/ /\ event \in {"LobbyCreationFailed", "PlayerReady"}
     /\ lobbyOf[p] # NoLobby
  \/ /\ event \in {"LeaveLobbyNotConsists", "LeaveLobbyFailed", "PlayerReadyFailed"}
     /\ lobbyOf[p] = NoLobby
  \/ /\ event = "JoinLobbyNotExists"
     /\ Members(l) = {}
  \/ /\ event = "JoinLobbyFull"
     /\ Cardinality(Members(l)) = LobbyMaxPlayers
  \/ /\ event = "JoinLobbyFailed"
     /\ lobbyOf[p] # NoLobby \/ (l \in founded /\ Members(l) = {})
  \/ event = "ListLobbies"

Events == {"LobbyCreationFailed", "JoinLobbyNotExists", "JoinLobbyFull", "JoinLobbyFailed",
           "LeaveLobbyNotConsists", "LeaveLobbyFailed", "PlayerReady", "PlayerReadyFailed",
           "ListLobbies"}

Tell ==
  /\ reply' \in [event : Events, player : Player, lobby : LobbyId \cup {NoLobby}]
  /\ Justified(reply'.event, reply'.player, reply'.lobby)
  /\ UNCHANGED <<lobbyOf, founded, gameOf>>

\* A game takes over the whole of a lobby's membership as it is.
Start(l, g) ==
  /\ Members(l) # {} /\ Roster(g) = {}
  /\ \A p \in Members(l) : gameOf[p] = NoGame
  /\ gameOf' = [p \in Player |-> IF p \in Members(l) THEN g ELSE gameOf[p]]
  /\ reply' = NoReply
  /\ UNCHANGED <<lobbyOf, founded>>

\* Starting a game also puts players out of lobbies, without a word to them.
Evict(p) ==
  /\ lobbyOf[p] # NoLobby
  /\ lobbyOf' = [lobbyOf EXCEPT ![p] = NoLobby]
  /\ reply' = NoReply
  /\ UNCHANGED <<founded, gameOf>>

End(over) ==
  /\ gameOf' = [p \in Player |-> IF gameOf[p] \in over THEN NoGame ELSE gameOf[p]]
  /\ reply' = NoReply
  /\ UNCHANGED <<lobbyOf, founded>>

Hush == reply' = NoReply /\ UNCHANGED <<lobbyOf, founded, gameOf>>

Next ==
  \/ Hush
  \/ Tell
  \/ \E p \in Player, l \in LobbyId : Create(p, l) \/ CreateNothing(p, l) \/ Join(p, l)
  \/ \E p \in Player : Leave(p) \/ Evict(p)
  \/ \E l \in LobbyId, g \in GameId : Start(l, g)
  \/ \E over \in SUBSET GameId : End(over)

Spec == Init /\ [][Next]_vars

=============================================================================
