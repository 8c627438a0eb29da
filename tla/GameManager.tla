----------------------------- MODULE GameManager -----------------------------
(***************************************************************************)
(* GameManager's START_GAME handler and the end of its tick handler        *)
(* (server/app/game_manager.cpp), with the DungeonRegistry it owns         *)
(* (server/domain/dungeon/dungeon_registry.cpp).                           *)
(*                                                                         *)
(* The manager has a strand of its own.  Nobody else touches its dungeon   *)
(* registry, so work on that registry is part of the step before it; each  *)
(* call on the lobby registry, or on a Lobby, is a step of its own.  What  *)
(* happens inside a dungeon, and so when a game is over, is left open.     *)
(***************************************************************************)
EXTENDS LobbyManager

CONSTANT MaxGames   \* bound: how many games a behaviour may start

ASSUME GamesBoundAssumption == MaxGames \in Nat

GameId == 1..MaxGames
NoGame == 0

VARIABLES
  gm,               \* the handler on GameManager's strand
  dungeons,         \* keys of dungeons_
  dungeonToPlayers, \* dungeon_to_players_, {} where it has no entry
  playerToDungeon,  \* player_to_dungeon_, NoGame where it has no entry
  nextGameId        \* next_game_id_

dungeonRegistry == <<dungeons, dungeonToPlayers, playerToDungeon, nextGameId>>
gmVars == <<gm, dungeonRegistry>>

GmPoints == {"idle", "findLobby", "addDungeon", "readMembers", "remove"}

GmIdle == [at |-> "idle", lobby |-> NoLobby, leaving |-> {}]

GmTypeOK ==
  /\ gm \in [at : GmPoints, lobby : LobbyId \cup {NoLobby}, leaving : SUBSET Player]
  /\ gm.at = "idle" \/ gm.lobby \in LobbyId
  /\ gm.at \in {"findLobby", "addDungeon"} => nextGameId \in GameId
  /\ dungeons \subseteq GameId
  /\ dungeonToPlayers \in [GameId -> SUBSET Player]
  /\ playerToDungeon \in [Player -> GameId \cup {NoGame}]
  /\ nextGameId \in 1..(MaxGames + 1)

GmInit ==
  /\ gm = GmIdle
  /\ dungeons = {}
  /\ dungeonToPlayers = [g \in GameId |-> {}]
  /\ playerToDungeon = [p \in Player |-> NoGame]
  /\ nextGameId = 1

----------------------------------------------------------------------------
(* DungeonRegistry *)

\* Slip: players of another game are not noticed.
CanAddDungeonAnyone(roster) == roster # {}

CanAddDungeon(roster) ==
  /\ roster # {}
  /\ \A p \in roster : playerToDungeon[p] = NoGame

AddDungeon(roster) ==
  /\ CanAddDungeon(roster)
  /\ nextGameId' = nextGameId + 1
  /\ dungeons' = dungeons \cup {nextGameId}
  /\ dungeonToPlayers' = [dungeonToPlayers EXCEPT ![nextGameId] = roster]
  /\ playerToDungeon' = [p \in Player |-> IF p \in roster THEN nextGameId ELSE playerToDungeon[p]]

RemoveDungeons(over) ==
  /\ dungeons' = dungeons \ over
  /\ dungeonToPlayers' = [g \in GameId |-> IF g \in over THEN {} ELSE dungeonToPlayers[g]]
  /\ playerToDungeon' = [p \in Player |-> IF \E g \in over : p \in dungeonToPlayers[g]
                                            THEN NoGame ELSE playerToDungeon[p]]
  /\ UNCHANGED nextGameId

----------------------------------------------------------------------------
(* onStartGameRequestEvent: whoever sent the request need neither lead the *)
(* lobby nor be ready.  Without a mapping the handler only logs.           *)

StartGame(p) ==
  /\ gm.at = "idle"
  /\ nextGameId <= MaxGames     \* bound
  /\ IsPlayerInLobby(p)
  /\ gm' = [at |-> "findLobby", lobby |-> playerToLobby[p], leaving |-> {}]
  /\ UNCHANGED <<registry, dungeonRegistry>>

StartFindLobby ==
  /\ gm.at = "findLobby"
  /\ gm' = IF gm.lobby \in lobbies THEN [gm EXCEPT !.at = "addDungeon"] ELSE GmIdle
  /\ UNCHANGED <<registry, dungeonRegistry>>

\* addDungeon(GameMap{}, lobby->getAllPlayers())
StartAddDungeon ==
  /\ gm.at = "addDungeon"
  /\ IF CanAddDungeon(players[gm.lobby])
       THEN AddDungeon(players[gm.lobby]) /\ gm' = [gm EXCEPT !.at = "readMembers"]
       ELSE UNCHANGED dungeonRegistry /\ gm' = GmIdle
  /\ UNCHANGED registry

\* The loop's range expression reads the players a second time.
StartReadMembers ==
  /\ gm.at = "readMembers"
  /\ gm' = IF players[gm.lobby] = {} THEN GmIdle
           ELSE [gm EXCEPT !.at = "remove", !.leaving = players[gm.lobby]]
  /\ UNCHANGED <<registry, dungeonRegistry>>

\* Slip: the loop ends with its first turn.
StartRemoveFirstPlayer ==
  /\ gm.at = "remove"
  /\ \E p \in gm.leaving : RemovePlayerFromLobby(p)
  /\ gm' = GmIdle
  /\ UNCHANGED dungeonRegistry

\* One turn of the loop, over an unordered_map's keys.
StartRemovePlayer ==
  /\ gm.at = "remove"
  /\ \E p \in gm.leaving :
       /\ RemovePlayerFromLobby(p)
       /\ gm' = IF gm.leaving = {p} THEN GmIdle ELSE [gm EXCEPT !.leaving = @ \ {p}]
  /\ UNCHANGED dungeonRegistry

----------------------------------------------------------------------------
\* onGameTickEvent, the dungeons whose processTick returned no state.  Their
\* GameOverEvents have no subscriber.
GameTickEndsGames ==
  /\ gm.at = "idle"
  /\ \E over \in SUBSET dungeons : over # {} /\ RemoveDungeons(over)
  /\ UNCHANGED <<registry, gm>>

----------------------------------------------------------------------------
GmTakeRequest(p) == StartGame(p)

GmContinue ==
  \/ StartFindLobby
  \/ StartAddDungeon
  \/ StartReadMembers
  \/ StartRemovePlayer

=============================================================================
