----------------------------- MODULE LobbyManager -----------------------------
(***************************************************************************)
(* LobbyManager (server/domain/lobby/lobby_manager.cpp).  Its handlers run *)
(* on a strand of its own, one after another, but the registry they work   *)
(* on is shared with GameManager, which runs on another strand and another *)
(* thread.  A handler is therefore a sequence of steps, one per call it    *)
(* makes on the registry or on a Lobby; lm holds what it has learnt so far *)
(* and where it stands.  Only this manager adds lobbies and players, so    *)
(* onCreateLobbyRequest's isPlayerInLobby, generateNextLobbyId and         *)
(* addLobby are one step, and so are its failing addPlayerToLobby and the  *)
(* removeLobby that follows.                                               *)
(*                                                                         *)
(* A request is a posted event.  Its arguments depend on nothing the       *)
(* manager knows, so a request is taken up with any player and any lobby   *)
(* id: the strand's queue adds no behaviour.                               *)
(***************************************************************************)
EXTENDS LobbyRegistry

VARIABLES
  lm,        \* the handler on LobbyManager's strand
  response   \* the event published by the last step, if it published one

lmVars == <<lm, response>>

LmPoints == {"idle", "addCreator", "checkFull", "addJoiner",
             "findLeft", "cleanLeft", "remove", "findReady", "cleanReady", "setReady"}

LmIdle == [at |-> "idle", player |-> NoPlayer, lobby |-> NoLobby, isReady |-> FALSE]

NoResponse == [event |-> "none", player |-> NoPlayer, lobby |-> NoLobby]

LmResponses == {"LobbyCreated", "LobbyCreationFailed", "JoinLobby", "JoinLobbyNotExists",
                "JoinLobbyFull", "JoinLobbyFailed", "LeaveLobby", "LeaveLobbyNotConsists",
                "LeaveLobbyFailed", "PlayerReady", "PlayerReadyFailed", "ListLobbies"}

LmTypeOK ==
  /\ lm \in [at : LmPoints, player : Player \cup {NoPlayer},
             lobby : LobbyId \cup {NoLobby}, isReady : BOOLEAN]
  /\ lm.at = "idle" \/ lm.player \in Player
  /\ lm.at \in {"addCreator", "checkFull", "addJoiner", "findLeft", "findReady", "setReady"}
       => lm.lobby \in LobbyId
  /\ response \in [event : LmResponses, player : Player, lobby : LobbyId \cup {NoLobby}]
       \cup {NoResponse}

LmInit == lm = LmIdle /\ response = NoResponse

\* The lobby is the one the request was about: the event itself carries it only
\* when a lobby was created.
Publish(event, p, l) == response' = [event |-> event, player |-> p, lobby |-> l]
Silent == response' = NoResponse

\* The handler ends, with the response it publishes.
Reply(event, p, l) == lm' = LmIdle /\ Publish(event, p, l)

\* The handler goes on: nothing published yet.
Continue(at, p, l, isReady) ==
  lm' = [at |-> at, player |-> p, lobby |-> l, isReady |-> isReady] /\ Silent

----------------------------------------------------------------------------
(* onCreateLobbyRequest *)

CreateRefused(p) ==
  /\ lm.at = "idle" /\ IsPlayerInLobby(p)
  /\ Reply("LobbyCreationFailed", p, NoLobby)
  /\ UNCHANGED registry

CreateLobby(p) ==
  /\ lm.at = "idle" /\ ~IsPlayerInLobby(p)
  /\ Continue("addCreator", p, nextLobbyId, FALSE)
  /\ AddLobby(p)

AddCreator ==
  /\ lm.at = "addCreator"
  /\ IF CanAddPlayer(lm.player, lm.lobby)
       THEN AddPlayerToLobby(lm.player, lm.lobby) /\ Reply("LobbyCreated", lm.player, lm.lobby)
       ELSE RemoveLobby(lm.lobby) /\ Reply("LobbyCreationFailed", lm.player, lm.lobby)

----------------------------------------------------------------------------
(* onJoinLobbyRequest *)

JoinFindLobby(p, l) ==
  /\ lm.at = "idle"
  /\ IF l \in lobbies
       THEN Continue("checkFull", p, l, FALSE)
       ELSE Reply("JoinLobbyNotExists", p, l)
  /\ UNCHANGED registry

JoinCheckFull ==
  /\ lm.at = "checkFull"
  /\ IF IsFull(lm.lobby)
       THEN Reply("JoinLobbyFull", lm.player, lm.lobby)
       ELSE Continue("addJoiner", lm.player, lm.lobby, FALSE)
  /\ UNCHANGED registry

\* Slip: the result of addPlayerToLobby is ignored.
JoinAddUnchecked ==
  /\ lm.at = "addJoiner"
  /\ IF CanAddPlayer(lm.player, lm.lobby)
       THEN AddPlayerToLobby(lm.player, lm.lobby)
       ELSE UNCHANGED registry
  /\ Reply("JoinLobby", lm.player, lm.lobby)

JoinAddPlayer ==
  /\ lm.at = "addJoiner"
  /\ IF CanAddPlayer(lm.player, lm.lobby)
       THEN AddPlayerToLobby(lm.player, lm.lobby) /\ Reply("JoinLobby", lm.player, lm.lobby)
       ELSE UNCHANGED registry /\ Reply("JoinLobbyFailed", lm.player, lm.lobby)

----------------------------------------------------------------------------
(* getLobbyForPlayer, the first half of the leave and ready handlers *)

\* getPlayerLobby; without a mapping the request is refused.
LookUpMapping(p, next, isReady, refusal) ==
  /\ lm.at = "idle"
  /\ IF IsPlayerInLobby(p)
       THEN Continue(next, p, playerToLobby[p], isReady)
       ELSE Reply(refusal, p, NoLobby)
  /\ UNCHANGED registry

\* findLobby; the lobby may have gone since the mapping was read.
LookUpLobby(at, found, clean) ==
  /\ lm.at = at
  /\ Continue(IF lm.lobby \in lobbies THEN found ELSE clean, lm.player, lm.lobby, lm.isReady)
  /\ UNCHANGED registry

\* The stale mapping is cleaned up and the request fails.
CleanStaleMapping(at, refusal) ==
  /\ lm.at = at
  /\ RemovePlayerFromLobby(lm.player)
  /\ Reply(refusal, lm.player, lm.lobby)

----------------------------------------------------------------------------
(* onLeaveLobbyRequest, onPlayerReadyRequest, onListLobbiesRequest.  The ready *)
(* handler is subscribed like the others, though no wire message maps to its   *)
(* event yet: whoever publishes the event gets this behaviour.                 *)

LeaveLookUp(p) == LookUpMapping(p, "findLeft", FALSE, "LeaveLobbyNotConsists")
LeaveFindLobby == LookUpLobby("findLeft", "remove", "cleanLeft")
LeaveClean == CleanStaleMapping("cleanLeft", "LeaveLobbyFailed")

LeaveRemove ==
  /\ lm.at = "remove"
  /\ Reply(IF CanRemovePlayer(lm.player) THEN "LeaveLobby" ELSE "LeaveLobbyFailed",
           lm.player, lm.lobby)
  /\ RemovePlayerFromLobby(lm.player)

ReadyLookUp(p, isReady) == LookUpMapping(p, "findReady", isReady, "PlayerReadyFailed")
ReadyFindLobby == LookUpLobby("findReady", "setReady", "cleanReady")
ReadyClean == CleanStaleMapping("cleanReady", "PlayerReadyFailed")

\* Slip: the player found earlier is taken to be there still.
ReadySetUnchecked ==
  /\ lm.at = "setReady"
  /\ SetReady(lm.player, lm.lobby, lm.isReady)
  /\ Reply("PlayerReady", lm.player, lm.lobby)
  /\ UNCHANGED <<lobbies, players, leader, playerToLobby, lobbyPlayers, nextLobbyId>>

\* setReady works on the object found before, registered still or not.
ReadySet ==
  /\ lm.at = "setReady"
  /\ IF lm.player \in players[lm.lobby]
       THEN SetReady(lm.player, lm.lobby, lm.isReady) /\ Reply("PlayerReady", lm.player, lm.lobby)
       ELSE UNCHANGED readyPlayers /\ Reply("PlayerReadyFailed", lm.player, lm.lobby)
  /\ UNCHANGED <<lobbies, players, leader, playerToLobby, lobbyPlayers, nextLobbyId>>

ListLobbies(p) ==
  /\ lm.at = "idle"
  /\ Reply("ListLobbies", p, NoLobby)
  /\ UNCHANGED registry

----------------------------------------------------------------------------
\* A posted request is taken up.
LmTakeRequest(p) ==
  \/ CreateRefused(p)
  \/ CreateLobby(p)
  \/ \E l \in LobbyId : JoinFindLobby(p, l)
  \/ LeaveLookUp(p)
  \/ \E isReady \in BOOLEAN : ReadyLookUp(p, isReady)
  \/ ListLobbies(p)

\* The handler that is running makes its next call.
LmContinue ==
  \/ AddCreator
  \/ JoinCheckFull
  \/ JoinAddPlayer
  \/ LeaveFindLobby
  \/ LeaveClean
  \/ LeaveRemove
  \/ ReadyFindLobby
  \/ ReadyClean
  \/ ReadySet

=============================================================================
