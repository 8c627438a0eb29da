----------------------------- MODULE LobbyStrands -----------------------------
(***************************************************************************)
(* LobbyManager's strand and GameManager's strand, run by the server's     *)
(* pool of at least two threads (server/main.cpp), on one lobby registry.  *)
(* The calls of the two handlers interleave freely.                        *)
(*                                                                         *)
(* LobbyRegistry takes no lock.  A step here is one whole call, which is   *)
(* the best the code can hope for: two calls that really overlap are a     *)
(* data race on its hash maps, and this module says nothing about them.    *)
(***************************************************************************)
EXTENDS GameManager

VARIABLE owed   \* history: players put in the game that is starting, in its lobby ever since

vars == <<registry, lmVars, gmVars, owed>>

TypeOK == RegistryTypeOK /\ LmTypeOK /\ GmTypeOK /\ owed \subseteq Player

Init == RegistryInit /\ LmInit /\ GmInit /\ owed = {}

Owe ==
  owed' = IF gm.at = "addDungeon" /\ gm'.at = "readMembers"
            THEN players[gm.lobby]
            ELSE {p \in owed : playerToLobby'[p] = gm.lobby}

Next ==
  \/ \E p \in Player : LmTakeRequest(p) /\ UNCHANGED gmVars /\ Owe
  \/ LmContinue /\ UNCHANGED gmVars /\ Owe
  \/ \E p \in Player : GmTakeRequest(p) /\ UNCHANGED lm /\ Silent /\ Owe
  \/ GmContinue /\ UNCHANGED lm /\ Silent /\ Owe
  \/ GameTickEndsGames /\ UNCHANGED lm /\ Silent /\ Owe

Spec == Init /\ [][Next]_vars

----------------------------------------------------------------------------
\* The lobby onCreateLobbyRequest has registered but not yet put its creator in.
InCreation == IF lm.at = "addCreator" THEN {lm.lobby} ELSE {}

\* The registry's three views of who is where agree: the mapping of a player,
\* the registry's own set and the set inside the Lobby object.  A mapping names
\* a registered lobby, so getLobbyForPlayer never has a stale one to clean up
\* unless GameManager removed the player in between.
RegistryConsistent ==
  \A p \in Player, l \in LobbyId :
    /\ p \in players[l] <=> playerToLobby[p] = l
    /\ p \in lobbyPlayers[l] <=> playerToLobby[p] = l
    /\ playerToLobby[p] = l => l \in lobbies

\* The leader of a lobby is one of its players, whoever left and in whatever
\* order (Lobby::removePlayer, assignNewLeader).
LeaderIsMember == \A l \in lobbies \ InCreation : leader[l] \in players[l]

\* No lobby ever has more than lobby_max_players players, although isFull is
\* asked in one step and the player added in a later one, and although isFull
\* tests for equality only.
CapacityRespected == \A l \in LobbyId : Cardinality(players[l]) <= LobbyMaxPlayers

\* A player's ready flag goes with the player: nobody is ready in a lobby he
\* has left, and a player who comes back starts unready.
ReadyAreMembers == \A l \in LobbyId : readyPlayers[l] \subseteq players[l]

\* A lobby is sound whoever joins, leaves, gets ready or is taken into a game
\* between the calls of a handler: its leader and its ready players are players
\* of it, and it is not overfull (lobby.cpp:15-65).
LobbiesAreSound == LeaderIsMember /\ CapacityRespected /\ ReadyAreMembers

\* The dungeon registry's two maps mirror each other, so no player is in two
\* games and none is held by a game that is gone.
DungeonsConsistent ==
  \A p \in Player, g \in GameId :
    playerToDungeon[p] = g <=> g \in dungeons /\ p \in dungeonToPlayers[g]

\* Ids come from counters, and the lobby being created is still as
\* onCreateLobbyRequest left it when its creator is put in: nobody has joined it,
\* nobody has removed it, and its creator has not gone elsewhere.
IdsAreFresh ==
  /\ \A l \in lobbies : l < nextLobbyId
  /\ \A g \in dungeons : g < nextGameId

CreationUndisturbed ==
  lm.at = "addCreator" =>
    /\ lm.lobby \in lobbies
    /\ players[lm.lobby] = {}
    /\ leader[lm.lobby] = lm.player
    /\ playerToLobby[lm.player] = NoLobby

\* What every step preserves: the safety properties above need each other and
\* the two facts just stated.
Inductive ==
  /\ TypeOK
  /\ RegistryConsistent
  /\ LeaderIsMember
  /\ CapacityRespected
  /\ ReadyAreMembers
  /\ DungeonsConsistent
  /\ IdsAreFresh
  /\ CreationUndisturbed

\* The two strands together implement LobbyService: whatever the interleaving,
\* each call takes effect at once, and what a handler has looked up in earlier
\* steps never makes it publish a response that is false when it is published.
Service == INSTANCE LobbyService WITH
  lobbyOf <- playerToLobby,
  founded <- (1..(nextLobbyId - 1)) \ InCreation,
  gameOf <- playerToDungeon,
  reply <- response,
  NoReply <- NoResponse

ImplementsService == Service!Spec

\* START_GAME reads the lobby's players twice, to put them in the game and to take
\* them out of the lobby, and takes them out one by one while they come and go.
\* When its handler is done, each player it put in the game has left the lobby.
GamePlayersLeave == gm.at = "idle" => owed = {}

=============================================================================
