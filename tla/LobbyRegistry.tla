---------------------------- MODULE LobbyRegistry ----------------------------
(***************************************************************************)
(* The server's lobby registry (server/domain/lobby/lobby_registry.cpp)    *)
(* together with the Lobby objects it owns (lobby.cpp).  One VARIABLE per  *)
(* container or field of the two classes; one operator per method.  Each   *)
(* operator is one call of the method.                                     *)
(*                                                                         *)
(* A Lobby object outlives its registration: a handler that looked it up   *)
(* keeps it alive through a shared_ptr.  Lobby ids are never reused, so    *)
(* the object is named by its id, and its fields stay defined after the    *)
(* registry has forgotten it.                                              *)
(***************************************************************************)
EXTENDS Naturals, FiniteSets

CONSTANTS
  Player,           \* the player ids
  NoPlayer,         \* the leader of a lobby that was never created
  LobbyMaxPlayers,  \* gameplay.lobby_max_players, a uint16 setting nobody validates
  MaxLobbies        \* bound: how many lobby ids a behaviour may hand out

ASSUME PlayersAssumption == IsFiniteSet(Player) /\ NoPlayer \notin Player
ASSUME LobbyBoundsAssumption == LobbyMaxPlayers \in Nat /\ MaxLobbies \in Nat

LobbyId == 1..MaxLobbies
NoLobby == 0

VARIABLES
  lobbies,        \* keys of lobbies_: the registered lobbies
  players,        \* Lobby::players_, by lobby: who is in the object
  readyPlayers,   \* those of them whose is_ready flag is set
  leader,         \* Lobby::leader_id_, by lobby
  playerToLobby,  \* player_to_lobby_, NoLobby where it has no entry
  lobbyPlayers,   \* lobby_players_, {} where it has no entry
  nextLobbyId     \* next_id_

registry == <<lobbies, players, readyPlayers, leader, playerToLobby, lobbyPlayers, nextLobbyId>>

RegistryTypeOK ==
  /\ lobbies \subseteq LobbyId
  /\ players \in [LobbyId -> SUBSET Player]
  /\ readyPlayers \in [LobbyId -> SUBSET Player]
  /\ leader \in [LobbyId -> Player \cup {NoPlayer}]
  /\ playerToLobby \in [Player -> LobbyId \cup {NoLobby}]
  /\ lobbyPlayers \in [LobbyId -> SUBSET Player]
  /\ nextLobbyId \in 1..(MaxLobbies + 1)

RegistryInit ==
  /\ lobbies = {}
  /\ players = [l \in LobbyId |-> {}]
  /\ readyPlayers = [l \in LobbyId |-> {}]
  /\ leader = [l \in LobbyId |-> NoPlayer]
  /\ playerToLobby = [p \in Player |-> NoLobby]
  /\ lobbyPlayers = [l \in LobbyId |-> {}]
  /\ nextLobbyId = 1

----------------------------------------------------------------------------
(* Lobby *)

\* Slip: the limit is one too high.
IsFullOneTooMany(l) == Cardinality(players[l]) = LobbyMaxPlayers + 1

\* The code compares with ==: a lobby above its limit would never be full.
IsFull(l) == Cardinality(players[l]) = LobbyMaxPlayers

LobbyAccepts(p, l) == p \notin players[l] /\ ~IsFull(l)

SetReady(p, l, isReady) ==
  readyPlayers' = [readyPlayers EXCEPT ![l] = IF isReady THEN @ \cup {p} ELSE @ \ {p}]

\* Slip: the leader leaves and nobody takes over.
NewLeadersNone(p, l) == {leader[l]}

\* removePlayer hands the leadership to the first key of an unordered_map.
NewLeaders(p, l) ==
  IF leader[l] = p /\ players[l] # {p} THEN players[l] \ {p} ELSE {leader[l]}

----------------------------------------------------------------------------
(* LobbyRegistry *)

IsPlayerInLobby(p) == playerToLobby[p] # NoLobby

\* generateNextLobbyId, the Lobby constructor (which does not add its leader)
\* and addLobby.
AddLobby(p) ==
  /\ nextLobbyId <= MaxLobbies     \* bound
  /\ nextLobbyId' = nextLobbyId + 1
  /\ lobbies' = lobbies \cup {nextLobbyId}
  /\ leader' = [leader EXCEPT ![nextLobbyId] = p]
  /\ UNCHANGED <<players, readyPlayers, playerToLobby, lobbyPlayers>>

\* addPlayerToLobby returns true.  When lobby_players_ already holds the player
\* the code undoes its other two insertions, which comes to changing nothing.
CanAddPlayer(p, l) ==
  /\ ~IsPlayerInLobby(p)
  /\ l \in lobbies
  /\ LobbyAccepts(p, l)
  /\ p \notin lobbyPlayers[l]

\* Slip: lobby_players_ is forgotten.
AddPlayerUnlisted(p, l) ==
  /\ CanAddPlayer(p, l)
  /\ players' = [players EXCEPT ![l] = @ \cup {p}]
  /\ readyPlayers' = [readyPlayers EXCEPT ![l] = @ \ {p}]
  /\ playerToLobby' = [playerToLobby EXCEPT ![p] = l]
  /\ UNCHANGED <<lobbies, leader, lobbyPlayers, nextLobbyId>>

AddPlayerToLobby(p, l) ==
  /\ CanAddPlayer(p, l)
  /\ players' = [players EXCEPT ![l] = @ \cup {p}]
  /\ readyPlayers' = [readyPlayers EXCEPT ![l] = @ \ {p}]
  /\ lobbyPlayers' = [lobbyPlayers EXCEPT ![l] = @ \cup {p}]
  /\ playerToLobby' = [playerToLobby EXCEPT ![p] = l]
  /\ UNCHANGED <<lobbies, leader, nextLobbyId>>

RemoveLobby(l) ==
  /\ lobbies' = lobbies \ {l}
  /\ playerToLobby' = [p \in Player |-> IF p \in lobbyPlayers[l] THEN NoLobby ELSE playerToLobby[p]]
  /\ lobbyPlayers' = [lobbyPlayers EXCEPT ![l] = {}]
  /\ UNCHANGED <<players, readyPlayers, leader, nextLobbyId>>

\* removePlayerFromLobby returns true: the mapping names a registered lobby
\* whose object holds the player.
CanRemovePlayer(p) ==
  /\ playerToLobby[p] \in lobbies
  /\ p \in players[playerToLobby[p]]

\* removePlayerFromLobby.  A mapping that cannot be honoured is dropped; the
\* last player to go takes the lobby with it.
RemovePlayerFromLobby(p) ==
  LET l == playerToLobby[p] IN
  /\ playerToLobby' = [playerToLobby EXCEPT ![p] = NoLobby]
  /\ UNCHANGED nextLobbyId
  /\ \/ /\ CanRemovePlayer(p)
        /\ players' = [players EXCEPT ![l] = @ \ {p}]
        /\ readyPlayers' = [readyPlayers EXCEPT ![l] = @ \ {p}]
        /\ \E q \in NewLeaders(p, l) : leader' = [leader EXCEPT ![l] = q]
        /\ lobbyPlayers' = [lobbyPlayers EXCEPT ![l] = IF players[l] = {p} THEN {} ELSE @ \ {p}]
        /\ lobbies' = IF players[l] = {p} THEN lobbies \ {l} ELSE lobbies
     \/ /\ ~CanRemovePlayer(p)
        /\ UNCHANGED <<lobbies, players, readyPlayers, leader, lobbyPlayers>>

=============================================================================
