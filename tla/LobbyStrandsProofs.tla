-------------------------- MODULE LobbyStrandsProofs --------------------------
(***************************************************************************)
(* Proofs about LobbyStrands, for any number of players, lobbies and       *)
(* games and any lobby_max_players.  Inductive is preserved by every step; *)
(* the lemmas take the calls on the registries one by one, the theorem     *)
(* takes the steps of the two managers and cites them.                     *)
(***************************************************************************)
EXTENDS LobbyStrands, TLAPS, FiniteSetTheorems

\* The part of the invariant that speaks of the lobby registry alone, save for
\* the leaders: those depend on whether a lobby is being created.
Registry ==
  /\ RegistryTypeOK
  /\ RegistryConsistent
  /\ CapacityRespected
  /\ ReadyAreMembers
  /\ \A l \in lobbies : l < nextLobbyId

Led(l) == leader[l] \in players[l]

----------------------------------------------------------------------------
(* Calls on the lobby registry *)

\* A set of players is finite, and its size is a number.
LEMMA PlayerSetsFinite ==
  ASSUME NEW S \in SUBSET Player
  PROVE IsFiniteSet(S) /\ Cardinality(S) \in Nat
  BY PlayersAssumption, FS_Subset, FS_CardinalityType

\* addLobby registers an empty lobby, the only one without a leader inside.
LEMMA AddLobbyKeeps ==
  ASSUME Registry, NEW p \in Player, AddLobby(p)
  PROVE /\ Registry'
        /\ nextLobbyId \in LobbyId
        /\ nextLobbyId \in lobbies'
        /\ players'[nextLobbyId] = {}
        /\ leader'[nextLobbyId] = p
        /\ playerToLobby' = playerToLobby
        /\ \A l \in lobbies' : l # nextLobbyId => l \in lobbies /\ (Led(l) => Led(l)')
  <1> DEFINE n == nextLobbyId
  <1>1. n \in LobbyId /\ n \notin lobbies
    BY LobbyBoundsAssumption DEF Registry, RegistryTypeOK, AddLobby, LobbyId
  <1>2. players[n] = {}
    BY <1>1 DEF Registry, RegistryTypeOK, RegistryConsistent
  <1>3. RegistryTypeOK'
    BY <1>1, LobbyBoundsAssumption DEF Registry, RegistryTypeOK, AddLobby, LobbyId
  <1>4. RegistryConsistent'
    BY DEF Registry, RegistryConsistent, AddLobby
  <1>5. CapacityRespected' /\ ReadyAreMembers'
    BY DEF Registry, CapacityRespected, ReadyAreMembers, AddLobby
  <1>6. \A l \in lobbies' : l < nextLobbyId'
    BY <1>1 DEF Registry, RegistryTypeOK, AddLobby, LobbyId
  <1>7. n \in lobbies' /\ players'[n] = {} /\ leader'[n] = p /\ playerToLobby' = playerToLobby
    BY <1>1, <1>2 DEF Registry, RegistryTypeOK, AddLobby
  <1>8. \A l \in lobbies' : l # n => l \in lobbies /\ (Led(l) => Led(l)')
    BY <1>1 DEF Registry, RegistryTypeOK, AddLobby, Led
  <1> QED
    BY <1>1, <1>3, <1>4, <1>5, <1>6, <1>7, <1>8 DEF Registry

\* addPlayerToLobby puts a player in one lobby that had room; every lobby that
\* had a leader inside still has him.
LEMMA AddPlayerKeeps ==
  ASSUME Registry, NEW p \in Player, NEW l \in LobbyId, AddPlayerToLobby(p, l)
  PROVE /\ Registry'
        /\ lobbies' = lobbies
        /\ leader' = leader
        /\ p \in players'[l]
        /\ \A k \in LobbyId : players[k] \subseteq players'[k]
  <1>1. /\ playerToLobby[p] = NoLobby /\ l \in lobbies
        /\ p \notin players[l] /\ Cardinality(players[l]) # LobbyMaxPlayers
    BY DEF AddPlayerToLobby, CanAddPlayer, IsPlayerInLobby, LobbyAccepts, IsFull
  <1>2. \A k \in LobbyId : players'[k] = IF k = l THEN players[k] \cup {p} ELSE players[k]
    BY DEF AddPlayerToLobby, Registry, RegistryTypeOK
  <1>3. RegistryTypeOK'
    BY DEF AddPlayerToLobby, Registry, RegistryTypeOK
  <1>4. RegistryConsistent'
    BY <1>1 DEF AddPlayerToLobby, Registry, RegistryTypeOK, RegistryConsistent, LobbyId, NoLobby
  <1>5. Cardinality(players[l] \cup {p}) <= LobbyMaxPlayers
    <2>1. players[l] \in SUBSET Player
      BY DEF Registry, RegistryTypeOK
    <2>2. Cardinality(players[l] \cup {p}) = Cardinality(players[l]) + 1
      BY <1>1, <2>1, PlayerSetsFinite, FS_AddElement
    <2>3. Cardinality(players[l]) \in Nat /\ Cardinality(players[l]) <= LobbyMaxPlayers
      BY <2>1, PlayerSetsFinite DEF Registry, CapacityRespected
    <2> QED
      BY <1>1, <2>2, <2>3, LobbyBoundsAssumption
  <1>6. CapacityRespected'
    BY <1>2, <1>5 DEF Registry, CapacityRespected
  <1>7. ReadyAreMembers'
    BY <1>2 DEF AddPlayerToLobby, Registry, RegistryTypeOK, ReadyAreMembers
  <1>8. /\ lobbies' = lobbies /\ leader' = leader /\ nextLobbyId' = nextLobbyId
    BY DEF AddPlayerToLobby
  <1> QED
    BY <1>2, <1>3, <1>4, <1>6, <1>7, <1>8 DEF Registry

\* removeLobby of a lobby that nobody is in: only its registration goes.
LEMMA RemoveEmptyLobbyKeeps ==
  ASSUME Registry, NEW l \in LobbyId, players[l] = {}, RemoveLobby(l)
  PROVE /\ Registry'
        /\ lobbies' = lobbies \ {l}
        /\ \A k \in lobbies : Led(k) => Led(k)'
  <1>1. \A p \in Player : playerToLobby[p] # l /\ p \notin lobbyPlayers[l]
    BY DEF Registry, RegistryConsistent
  <1>2. playerToLobby' = playerToLobby
    BY <1>1 DEF RemoveLobby, Registry, RegistryTypeOK
  <1>3. lobbyPlayers' = lobbyPlayers
    BY <1>1 DEF RemoveLobby, Registry, RegistryTypeOK
  <1>4. RegistryTypeOK'
    BY <1>2, <1>3 DEF RemoveLobby, Registry, RegistryTypeOK
  <1>5. RegistryConsistent'
    BY <1>1, <1>2, <1>3 DEF RemoveLobby, Registry, RegistryConsistent
  <1>6. /\ CapacityRespected' /\ ReadyAreMembers'
        /\ \A k \in lobbies' : k < nextLobbyId'
    BY DEF RemoveLobby, Registry, CapacityRespected, ReadyAreMembers
  <1>7. \A k \in lobbies : Led(k) => Led(k)'
    BY DEF RemoveLobby, Led
  <1> QED
    BY <1>4, <1>5, <1>6, <1>7 DEF RemoveLobby, Registry

\* removePlayerFromLobby: the player is nowhere afterwards, his lobby gets a new
\* leader or is unregistered, and lobbies that were empty are left alone.
LEMMA RemovePlayerKeeps ==
  ASSUME Registry, NEW p \in Player, RemovePlayerFromLobby(p)
  PROVE /\ Registry'
        /\ \A k \in lobbies' : k \in lobbies /\ (Led(k) => Led(k)')
        /\ \A k \in lobbies : players[k] = {} =>
             k \in lobbies' /\ players'[k] = {} /\ leader'[k] = leader[k]
        /\ \A q \in Player : playerToLobby[q] = NoLobby => playerToLobby'[q] = NoLobby
        /\ nextLobbyId' = nextLobbyId
  <1> DEFINE l == playerToLobby[p]
  <1>0. /\ playerToLobby' = [playerToLobby EXCEPT ![p] = NoLobby]
        /\ nextLobbyId' = nextLobbyId
    BY DEF RemovePlayerFromLobby
  <1>1. CASE CanRemovePlayer(p)
    <2>1. l \in LobbyId /\ l \in lobbies /\ p \in players[l]
      BY <1>1 DEF CanRemovePlayer, Registry, RegistryTypeOK
    <2>2. /\ players' = [players EXCEPT ![l] = @ \ {p}]
          /\ readyPlayers' = [readyPlayers EXCEPT ![l] = @ \ {p}]
          /\ lobbyPlayers' = [lobbyPlayers EXCEPT ![l] = IF players[l] = {p} THEN {} ELSE @ \ {p}]
          /\ lobbies' = IF players[l] = {p} THEN lobbies \ {l} ELSE lobbies
      BY <1>1 DEF RemovePlayerFromLobby
    <2>3. PICK q \in NewLeaders(p, l) : leader' = [leader EXCEPT ![l] = q]
      BY <1>1 DEF RemovePlayerFromLobby
    <2>4. /\ q \in Player \cup {NoPlayer}
          /\ leader[l] \in players[l] /\ players[l] # {p} => q \in players[l] \ {p}
      BY <2>1, <2>3 DEF NewLeaders, Registry, RegistryTypeOK
    <2>5. RegistryTypeOK'
      <3>1. /\ lobbies' \subseteq LobbyId
            /\ leader' \in [LobbyId -> Player \cup {NoPlayer}]
        BY <2>1, <2>2, <2>3, <2>4 DEF Registry, RegistryTypeOK
      <3>2. /\ players' \in [LobbyId -> SUBSET Player]
            /\ readyPlayers' \in [LobbyId -> SUBSET Player]
        BY <2>1, <2>2 DEF Registry, RegistryTypeOK
      <3>3. lobbyPlayers' \in [LobbyId -> SUBSET Player]
        BY <2>1, <2>2 DEF Registry, RegistryTypeOK
      <3>4. /\ playerToLobby' \in [Player -> LobbyId \cup {NoLobby}]
            /\ nextLobbyId' \in 1..(MaxLobbies + 1)
        BY <1>0 DEF Registry, RegistryTypeOK
      <3> QED
        BY <3>1, <3>2, <3>3, <3>4 DEF RegistryTypeOK
    <2>6. \A k \in LobbyId : players'[k] = IF k = l THEN players[l] \ {p} ELSE players[k]
      BY <2>2 DEF Registry, RegistryTypeOK
    <2>7. \A k \in LobbyId, r \in Player :
            r \in lobbyPlayers'[k] <=> r \in lobbyPlayers[k] /\ r # p
      BY <2>1, <2>2 DEF Registry, RegistryTypeOK, RegistryConsistent
    <2>8. \A k \in LobbyId, r \in Player :
            r \in players'[k] <=> r \in players[k] /\ r # p
      BY <2>1, <2>6 DEF Registry, RegistryTypeOK, RegistryConsistent
    <2>9. \A k \in LobbyId, r \in Player :
            playerToLobby'[r] = k <=> playerToLobby[r] = k /\ r # p
      BY <1>0 DEF Registry, RegistryTypeOK, LobbyId, NoLobby
    <2>10. \A k \in LobbyId, r \in Player :
             playerToLobby'[r] = k => k \in lobbies'
      BY <2>1, <2>2, <2>9 DEF Registry, RegistryTypeOK, RegistryConsistent
    <2>11. RegistryConsistent'
      BY <2>7, <2>8, <2>9, <2>10 DEF Registry, RegistryConsistent
    <2>12. CapacityRespected'
      <3>1. players[l] \in SUBSET Player
        BY <2>1 DEF Registry, RegistryTypeOK
      <3>2. Cardinality(players[l] \ {p}) <= Cardinality(players[l])
        BY <3>1, PlayerSetsFinite, FS_Subset
      <3>3. Cardinality(players[l] \ {p}) <= LobbyMaxPlayers
        <4>1. Cardinality(players[l] \ {p}) \in Nat /\ Cardinality(players[l]) \in Nat
          BY <3>1, PlayerSetsFinite
        <4> QED
          BY <2>1, <3>2, <4>1, LobbyBoundsAssumption DEF Registry, CapacityRespected
      <3> QED
        BY <2>6, <3>3 DEF Registry, CapacityRespected
    <2>13. ReadyAreMembers'
      BY <2>2, <2>6 DEF Registry, RegistryTypeOK, ReadyAreMembers
    <2>14. \A k \in lobbies' : k \in lobbies /\ (Led(k) => Led(k)')
      BY <2>1, <2>2, <2>3, <2>4, <2>6 DEF Registry, RegistryTypeOK, Led
    <2>15. \A k \in lobbies : players[k] = {} =>
             k \in lobbies' /\ players'[k] = {} /\ leader'[k] = leader[k]
      BY <2>1, <2>2, <2>3, <2>6 DEF Registry, RegistryTypeOK
    <2>16. \A k \in lobbies' : k < nextLobbyId'
      BY <1>0, <2>14 DEF Registry
    <2> QED
      BY <1>0, <2>5, <2>9, <2>11, <2>12, <2>13, <2>14, <2>15, <2>16 DEF Registry, RegistryTypeOK
  <1>2. CASE ~CanRemovePlayer(p)
    <2>1. UNCHANGED <<lobbies, players, readyPlayers, leader, lobbyPlayers>>
      BY <1>2 DEF RemovePlayerFromLobby
    <2>2. playerToLobby[p] = NoLobby
      BY <1>2 DEF CanRemovePlayer, Registry, RegistryTypeOK, RegistryConsistent
    <2>3. playerToLobby' = playerToLobby
      BY <1>0, <2>2 DEF Registry, RegistryTypeOK
    <2> QED
      BY <1>0, <2>1, <2>3 DEF Registry, RegistryTypeOK, RegistryConsistent, CapacityRespected,
                              ReadyAreMembers, Led
  <1> QED
    BY <1>1, <1>2

\* setReady on a player of the lobby.
LEMMA SetReadyKeeps ==
  ASSUME Registry, NEW p \in Player, NEW l \in LobbyId, NEW isReady \in BOOLEAN,
         p \in players[l], SetReady(p, l, isReady),
         UNCHANGED <<lobbies, players, leader, playerToLobby, lobbyPlayers, nextLobbyId>>
  PROVE Registry'
  BY DEF Registry, RegistryTypeOK, RegistryConsistent, CapacityRespected, ReadyAreMembers, SetReady

----------------------------------------------------------------------------
(* The two halves of the invariant *)

\* The lobby half: the registry and LobbyManager's handler.
Lobby ==
  /\ Registry
  /\ LmTypeOK
  /\ LeaderIsMember
  /\ CreationUndisturbed

\* The game half: GameManager's handler and the dungeon registry.
Games ==
  /\ GmTypeOK
  /\ DungeonsConsistent
  /\ \A g \in dungeons : g < nextGameId

LEMMA InductiveIsBoth == Inductive <=> Lobby /\ Games /\ owed \subseteq Player
  BY DEF Inductive, TypeOK, IdsAreFresh, Lobby, Registry, Games

\* Away from a creation every registered lobby has its leader inside.
LEMMA LobbyFacts ==
  ASSUME Lobby
  PROVE /\ RegistryTypeOK
        /\ lm.at # "addCreator" => \A l \in lobbies : Led(l)
        /\ lm.at # "idle" => lm.player \in Player
        /\ lm.player \in Player \cup {NoPlayer}
        /\ lm.lobby \in LobbyId \cup {NoLobby}
        /\ lm.isReady \in BOOLEAN
        /\ \A p \in Player : playerToLobby[p] \in LobbyId \cup {NoLobby}
  BY DEF Lobby, Registry, RegistryTypeOK, LmTypeOK, LeaderIsMember, InCreation, Led

\* A handler that ends publishes a well-formed response, and one that goes on
\* keeps well-formed notes.
LEMMA ReplyTyped ==
  ASSUME NEW p \in Player, NEW l \in LobbyId \cup {NoLobby}, NEW event \in LmResponses,
         Reply(event, p, l)
  PROVE LmTypeOK' /\ lm'.at = "idle"
  BY DEF Reply, Publish, LmTypeOK, LmIdle, LmPoints

LEMMA ContinueTyped ==
  ASSUME NEW p \in Player, NEW l \in LobbyId \cup {NoLobby}, NEW isReady \in BOOLEAN,
         NEW at \in LmPoints, Continue(at, p, l, isReady),
         at \in {"addCreator", "checkFull", "addJoiner", "findLeft", "findReady", "setReady"}
           => l \in LobbyId
  PROVE LmTypeOK' /\ lm' = [at |-> at, player |-> p, lobby |-> l, isReady |-> isReady]
  BY DEF Continue, Silent, LmTypeOK

\* A step that leaves the registry alone keeps the lobby half, unless it starts
\* a creation.
LEMMA QuietLmStepKeeps ==
  ASSUME Lobby, lm.at # "addCreator", UNCHANGED registry, LmTypeOK', lm'.at # "addCreator"
  PROVE Lobby'
  <1>1. \A l \in lobbies : leader[l] \in players[l]
    BY LobbyFacts DEF Led
  <1>2. Registry'
    BY DEF Lobby, Registry, registry, RegistryTypeOK, RegistryConsistent, CapacityRespected, ReadyAreMembers
  <1>3. LeaderIsMember' /\ CreationUndisturbed'
    BY <1>1 DEF LeaderIsMember, InCreation, CreationUndisturbed, registry
  <1> QED
    BY <1>2, <1>3 DEF Lobby

\* So does a step that removes a player, whichever strand takes it.
LEMMA RemoveStepKeeps ==
  ASSUME Lobby, NEW p \in Player, RemovePlayerFromLobby(p), LmTypeOK',
         \/ lm.at # "addCreator" /\ lm'.at # "addCreator"
         \/ lm' = lm
  PROVE Lobby'
  <1>1. Registry /\ LmTypeOK /\ LeaderIsMember /\ CreationUndisturbed
    BY DEF Lobby
  <1>2. Registry'
    BY <1>1, RemovePlayerKeeps
  <1>3. LeaderIsMember'
    BY <1>1, RemovePlayerKeeps DEF LeaderIsMember, InCreation, Led
  <1>4. CreationUndisturbed'
    BY <1>1, RemovePlayerKeeps DEF CreationUndisturbed, LmTypeOK
  <1> QED
    BY <1>2, <1>3, <1>4 DEF Lobby

----------------------------------------------------------------------------
(* LobbyManager's steps *)

LEMMA LmTakeRequestKeeps ==
  ASSUME Lobby, NEW p \in Player, LmTakeRequest(p)
  PROVE Lobby'
  <1> USE LobbyFacts
  <1>1. CASE CreateRefused(p)
    BY <1>1, ReplyTyped, QuietLmStepKeeps DEF CreateRefused, LmResponses
  <1>2. CASE CreateLobby(p)
    <2>1. /\ lm.at = "idle" /\ playerToLobby[p] = NoLobby
          /\ Continue("addCreator", p, nextLobbyId, FALSE) /\ AddLobby(p)
      BY <1>2 DEF CreateLobby, IsPlayerInLobby
    <2>2. Registry /\ \A l \in lobbies : Led(l)
      BY <2>1 DEF Lobby
    <2>3. /\ LmTypeOK'
          /\ lm' = [at |-> "addCreator", player |-> p, lobby |-> nextLobbyId, isReady |-> FALSE]
      BY <2>1, <2>2, AddLobbyKeeps, ContinueTyped DEF LmPoints
    <2>4. Registry'
      BY <2>1, <2>2, AddLobbyKeeps
    <2>5. LeaderIsMember' /\ CreationUndisturbed'
      BY <2>1, <2>2, <2>3, AddLobbyKeeps DEF LeaderIsMember, InCreation, Led, CreationUndisturbed
    <2> QED
      BY <2>3, <2>4, <2>5 DEF Lobby
  <1>3. ASSUME NEW l \in LobbyId, JoinFindLobby(p, l)
        PROVE Lobby'
    <2>1. CASE l \in lobbies
      <3>1. PICK isReady \in BOOLEAN : Continue("checkFull", p, l, isReady)
        BY <1>3, <2>1 DEF JoinFindLobby
      <3> QED
        BY <3>1, <1>3, ContinueTyped, QuietLmStepKeeps DEF JoinFindLobby, LmPoints
    <2>2. CASE l \notin lobbies
      <3>1. Reply("JoinLobbyNotExists", p, l)
        BY <1>3, <2>2 DEF JoinFindLobby
      <3> QED
        BY <3>1, <1>3, ReplyTyped, QuietLmStepKeeps DEF JoinFindLobby, LmResponses
    <2> QED
      BY <2>1, <2>2
  <1>4. ASSUME NEW next \in {"findLeft", "findReady"}, NEW isReady \in BOOLEAN,
               NEW refusal \in LmResponses, LookUpMapping(p, next, isReady, refusal)
        PROVE Lobby'
    <2>1. CASE IsPlayerInLobby(p)
      <3>1. playerToLobby[p] \in LobbyId /\ Continue(next, p, playerToLobby[p], isReady)
        BY <1>4, <2>1 DEF LookUpMapping, IsPlayerInLobby
      <3> QED
        BY <3>1, <1>4, ContinueTyped, QuietLmStepKeeps DEF LookUpMapping, LmPoints
    <2>2. CASE ~IsPlayerInLobby(p)
      BY <1>4, <2>2, ReplyTyped, QuietLmStepKeeps DEF LookUpMapping
    <2> QED
      BY <2>1, <2>2
  <1>5. CASE LeaveLookUp(p)
    BY <1>4, <1>5 DEF LeaveLookUp, LmResponses
  <1>6. ASSUME NEW isReady \in BOOLEAN, ReadyLookUp(p, isReady)
        PROVE Lobby'
    BY <1>4, <1>6 DEF ReadyLookUp, LmResponses
  <1>7. CASE ListLobbies(p)
    BY <1>7, ReplyTyped, QuietLmStepKeeps DEF ListLobbies, LmResponses
  <1> QED
    BY <1>1, <1>2, <1>3, <1>5, <1>6, <1>7 DEF LmTakeRequest

\* AddCreator: the creator leads the lobby he is put in; if he cannot be, the
\* lobby goes again, and nobody was in it.
LEMMA AddCreatorKeeps ==
  ASSUME Lobby, AddCreator
  PROVE Lobby'
  <1> DEFINE p == lm.player
             l == lm.lobby
  <1>1. /\ p \in Player /\ l \in LobbyId
        /\ Registry /\ LeaderIsMember
        /\ l \in lobbies /\ players[l] = {} /\ leader[l] = p
    BY DEF AddCreator, Lobby, LmTypeOK, CreationUndisturbed
  <1>2. \A k \in lobbies \ {l} : k \in LobbyId /\ Led(k)
    BY <1>1 DEF AddCreator, LeaderIsMember, InCreation, Led, Registry, RegistryTypeOK
  <1>3. CASE CanAddPlayer(p, l)
    <2>1. AddPlayerToLobby(p, l) /\ Reply("LobbyCreated", p, l)
      BY <1>3 DEF AddCreator
    <2>2. LmTypeOK' /\ lm'.at = "idle"
      BY <1>1, <2>1, ReplyTyped DEF LmResponses
    <2>3. Registry' /\ \A k \in lobbies' : leader'[k] \in players'[k]
      BY <1>1, <1>2, <2>1, AddPlayerKeeps DEF Led
    <2> QED
      BY <2>2, <2>3 DEF Lobby, LeaderIsMember, CreationUndisturbed
  <1>4. CASE ~CanAddPlayer(p, l)
    <2>1. RemoveLobby(l) /\ Reply("LobbyCreationFailed", p, l)
      BY <1>4 DEF AddCreator
    <2>2. LmTypeOK' /\ lm'.at = "idle"
      BY <1>1, <2>1, ReplyTyped DEF LmResponses
    <2>3. Registry' /\ \A k \in lobbies' : leader'[k] \in players'[k]
      BY <1>1, <1>2, <2>1, RemoveEmptyLobbyKeeps DEF Led
    <2> QED
      BY <2>2, <2>3 DEF Lobby, LeaderIsMember, CreationUndisturbed
  <1> QED
    BY <1>3, <1>4

LEMMA JoinKeeps ==
  ASSUME Lobby, JoinCheckFull \/ JoinAddPlayer
  PROVE Lobby'
  <1> DEFINE p == lm.player
             l == lm.lobby
  <1>1. p \in Player /\ l \in LobbyId /\ lm.at \in {"checkFull", "addJoiner"}
    BY DEF JoinCheckFull, JoinAddPlayer, Lobby, LmTypeOK
  <1>2. CASE JoinCheckFull
    <2>1. CASE IsFull(l)
      BY <1>1, <1>2, <2>1, ReplyTyped, QuietLmStepKeeps DEF JoinCheckFull, LmResponses
    <2>2. CASE ~IsFull(l)
      <3>1. PICK isReady \in BOOLEAN : Continue("addJoiner", p, l, isReady)
        BY <1>2, <2>2 DEF JoinCheckFull
      <3> QED
        BY <3>1, <1>1, <1>2, ContinueTyped, QuietLmStepKeeps DEF JoinCheckFull, LmPoints
    <2> QED
      BY <2>1, <2>2
  <1>3. CASE JoinAddPlayer
    <2>1. CASE CanAddPlayer(p, l)
      <3>1. AddPlayerToLobby(p, l) /\ Reply("JoinLobby", p, l)
        BY <1>3, <2>1 DEF JoinAddPlayer
      <3>2. LmTypeOK' /\ lm'.at = "idle"
        BY <1>1, <3>1, ReplyTyped DEF LmResponses
      <3>3. Registry /\ \A k \in lobbies : k \in LobbyId /\ Led(k)
        BY <1>1, LobbyFacts DEF Lobby, RegistryTypeOK
      <3>4. Registry' /\ \A k \in lobbies' : leader'[k] \in players'[k]
        BY <1>1, <3>1, <3>3, AddPlayerKeeps DEF Led
      <3> QED
        BY <3>2, <3>4 DEF Lobby, LeaderIsMember, CreationUndisturbed
    <2>2. CASE ~CanAddPlayer(p, l)
      BY <1>1, <1>3, <2>2, ReplyTyped, QuietLmStepKeeps DEF JoinAddPlayer, LmResponses
    <2> QED
      BY <2>1, <2>2
  <1> QED
    BY <1>2, <1>3

LEMMA LeaveKeeps ==
  ASSUME Lobby, LeaveFindLobby \/ LeaveClean \/ LeaveRemove
  PROVE Lobby'
  <1>1. lm.player \in Player /\ lm.at \in {"findLeft", "cleanLeft", "remove"}
    BY DEF LeaveFindLobby, LeaveClean, LeaveRemove, LookUpLobby, CleanStaleMapping, Lobby, LmTypeOK
  <1>2. CASE LeaveFindLobby
    <2>1. PICK at \in {"remove", "cleanLeft"} : Continue(at, lm.player, lm.lobby, lm.isReady)
      BY <1>2 DEF LeaveFindLobby, LookUpLobby
    <2>2. UNCHANGED registry
      BY <1>2 DEF LeaveFindLobby, LookUpLobby
    <2> QED
      BY <1>1, <2>1, <2>2, LobbyFacts, ContinueTyped, QuietLmStepKeeps DEF LmPoints
  <1>3. CASE LeaveClean
    <2>1. RemovePlayerFromLobby(lm.player) /\ Reply("LeaveLobbyFailed", lm.player, lm.lobby)
      BY <1>3 DEF LeaveClean, CleanStaleMapping
    <2> QED
      BY <1>1, <2>1, LobbyFacts, ReplyTyped, RemoveStepKeeps DEF LmResponses
  <1>4. CASE LeaveRemove
    <2>1. PICK event \in LmResponses : Reply(event, lm.player, lm.lobby)
      BY <1>4 DEF LeaveRemove, LmResponses
    <2>2. RemovePlayerFromLobby(lm.player)
      BY <1>4 DEF LeaveRemove
    <2> QED
      BY <1>1, <2>1, <2>2, LobbyFacts, ReplyTyped, RemoveStepKeeps
  <1> QED
    BY <1>2, <1>3, <1>4

LEMMA ReadyKeeps ==
  ASSUME Lobby, ReadyFindLobby \/ ReadyClean \/ ReadySet
  PROVE Lobby'
  <1> DEFINE p == lm.player
             l == lm.lobby
  <1>1. p \in Player /\ lm.at \in {"findReady", "cleanReady", "setReady"}
    BY DEF ReadyFindLobby, ReadyClean, ReadySet, LookUpLobby, CleanStaleMapping, Lobby, LmTypeOK
  <1>2. CASE ReadyFindLobby
    <2>1. PICK at \in {"setReady", "cleanReady"} : Continue(at, p, l, lm.isReady)
      BY <1>2 DEF ReadyFindLobby, LookUpLobby
    <2>2. UNCHANGED registry /\ l \in LobbyId
      BY <1>2 DEF ReadyFindLobby, LookUpLobby, Lobby, LmTypeOK
    <2> QED
      BY <1>1, <2>1, <2>2, LobbyFacts, ContinueTyped, QuietLmStepKeeps DEF LmPoints
  <1>3. CASE ReadyClean
    <2>1. RemovePlayerFromLobby(p) /\ Reply("PlayerReadyFailed", p, l)
      BY <1>3 DEF ReadyClean, CleanStaleMapping
    <2> QED
      BY <1>1, <2>1, LobbyFacts, ReplyTyped, RemoveStepKeeps DEF LmResponses
  <1>4. CASE ReadySet
    <2>1. lm.at = "setReady" /\ l \in LobbyId /\ lm.isReady \in BOOLEAN
      BY <1>4 DEF ReadySet, Lobby, LmTypeOK
    <2>2. UNCHANGED <<lobbies, players, leader, playerToLobby, lobbyPlayers, nextLobbyId>>
      BY <1>4 DEF ReadySet
    <2>3. CASE p \in players[l]
      <3>1. SetReady(p, l, lm.isReady) /\ Reply("PlayerReady", p, l)
        BY <1>4, <2>3 DEF ReadySet
      <3>2. LmTypeOK' /\ lm'.at = "idle"
        BY <1>1, <2>1, <3>1, ReplyTyped DEF LmResponses
      <3>3. Registry'
        BY <1>1, <2>1, <2>2, <2>3, <3>1, SetReadyKeeps DEF Lobby
      <3>4. LeaderIsMember' /\ CreationUndisturbed'
        BY <2>1, <2>2, <3>2 DEF Lobby, LeaderIsMember, InCreation, CreationUndisturbed
      <3> QED
        BY <3>2, <3>3, <3>4 DEF Lobby
    <2>4. CASE p \notin players[l]
      <3>1. UNCHANGED registry /\ Reply("PlayerReadyFailed", p, l)
        BY <1>4, <2>4 DEF ReadySet, registry
      <3> QED
        BY <1>1, <2>1, <3>1, ReplyTyped, QuietLmStepKeeps DEF LmResponses
    <2> QED
      BY <2>3, <2>4
  <1> QED
    BY <1>2, <1>3, <1>4

LEMMA LmContinueKeeps ==
  ASSUME Lobby, LmContinue
  PROVE Lobby'
  BY AddCreatorKeeps, JoinKeeps, LeaveKeeps, ReadyKeeps DEF LmContinue

----------------------------------------------------------------------------
(* GameManager's steps *)

\* Whatever GameManager does leaves the lobby half of the invariant as it is:
\* the only call on the lobby registry that changes it removes a player.
LEMMA GmStepKeepsLobby ==
  ASSUME Lobby, UNCHANGED lm, Silent,
         \/ UNCHANGED registry
         \/ \E p \in Player : RemovePlayerFromLobby(p)
  PROVE Lobby'
  <1>1. LmTypeOK'
    BY DEF Lobby, LmTypeOK, Silent
  <1>2. CASE \E p \in Player : RemovePlayerFromLobby(p)
    BY <1>1, <1>2, RemoveStepKeeps
  <1>3. CASE UNCHANGED registry
    BY <1>1, <1>3 DEF Lobby, Registry, registry, RegistryTypeOK, RegistryConsistent, CapacityRespected,
                      ReadyAreMembers, LeaderIsMember, InCreation, CreationUndisturbed
  <1> QED
    BY <1>2, <1>3

\* addDungeon: the game's id is new, and its players were in no game.
LEMMA AddDungeonKeeps ==
  ASSUME Games, NEW roster \in SUBSET Player, nextGameId \in GameId, AddDungeon(roster),
         gm' \in [at : GmPoints, lobby : LobbyId \cup {NoLobby}, leaving : SUBSET Player],
         gm'.lobby \in LobbyId, gm'.at \notin {"findLobby", "addDungeon"}
  PROVE Games'
  <1> DEFINE n == nextGameId
  <1>1. n \in Nat /\ n \notin dungeons /\ n # NoGame /\ n + 1 \in 1..(MaxGames + 1)
    BY GamesBoundAssumption DEF Games, GmTypeOK, GameId, NoGame
  <1>2. /\ nextGameId' = n + 1
        /\ dungeons' = dungeons \cup {n}
        /\ dungeonToPlayers' = [dungeonToPlayers EXCEPT ![n] = roster]
        /\ playerToDungeon' = [p \in Player |-> IF p \in roster THEN n ELSE playerToDungeon[p]]
        /\ \A p \in roster : playerToDungeon[p] = NoGame
    BY DEF AddDungeon, CanAddDungeon
  <1>3. GmTypeOK'
    BY <1>1, <1>2 DEF Games, GmTypeOK
  <1>4. DungeonsConsistent'
    <2> SUFFICES ASSUME NEW p \in Player, NEW g \in GameId
                 PROVE playerToDungeon'[p] = g <=> g \in dungeons' /\ p \in dungeonToPlayers'[g]
      BY DEF DungeonsConsistent
    <2>1. playerToDungeon[p] = g <=> g \in dungeons /\ p \in dungeonToPlayers[g]
      BY DEF Games, DungeonsConsistent
    <2>2. dungeonToPlayers'[g] = IF g = n THEN roster ELSE dungeonToPlayers[g]
      BY <1>2 DEF Games, GmTypeOK
    <2>3. playerToDungeon'[p] = IF p \in roster THEN n ELSE playerToDungeon[p]
      BY <1>2
    <2>4. p \in roster => playerToDungeon[p] # g
      BY <1>2 DEF GameId, NoGame
    <2> QED
      BY <1>1, <1>2, <2>1, <2>2, <2>3, <2>4
  <1>5. \A g \in dungeons' : g < nextGameId'
    BY <1>1, <1>2 DEF Games, GmTypeOK, GameId
  <1> QED
    BY <1>3, <1>4, <1>5 DEF Games

\* removeDungeon, for the games that are over.
LEMMA RemoveDungeonsKeeps ==
  ASSUME Games, NEW over \in SUBSET dungeons, RemoveDungeons(over), UNCHANGED gm
  PROVE Games'
  <1>1. /\ dungeons' = dungeons \ over
        /\ dungeonToPlayers' = [g \in GameId |-> IF g \in over THEN {} ELSE dungeonToPlayers[g]]
        /\ playerToDungeon' = [p \in Player |-> IF \E g \in over : p \in dungeonToPlayers[g]
                                                   THEN NoGame ELSE playerToDungeon[p]]
        /\ nextGameId' = nextGameId
    BY DEF RemoveDungeons
  <1>2. GmTypeOK'
    BY <1>1 DEF Games, GmTypeOK
  <1>3. DungeonsConsistent'
    <2> SUFFICES ASSUME NEW p \in Player, NEW g \in GameId
                 PROVE playerToDungeon'[p] = g <=> g \in dungeons' /\ p \in dungeonToPlayers'[g]
      BY DEF DungeonsConsistent
    <2>1. /\ dungeons \subseteq GameId /\ NoGame \notin GameId
          /\ \A h \in GameId : playerToDungeon[p] = h <=> h \in dungeons /\ p \in dungeonToPlayers[h]
      BY DEF Games, GmTypeOK, DungeonsConsistent, GameId, NoGame
    <2>2. CASE \E h \in over : p \in dungeonToPlayers[h]
      <3>1. PICK h \in over : p \in dungeonToPlayers[h]
        BY <2>2
      <3>2. playerToDungeon'[p] = NoGame /\ playerToDungeon[p] = h
        BY <1>1, <2>1, <2>2, <3>1
      <3> QED
        BY <1>1, <2>1, <3>2
    <2>3. CASE ~ \E h \in over : p \in dungeonToPlayers[h]
      BY <1>1, <2>1, <2>3
    <2> QED
      BY <2>2, <2>3
  <1>4. \A g \in dungeons' : g < nextGameId'
    BY <1>1 DEF Games
  <1> QED
    BY <1>2, <1>3, <1>4 DEF Games

LEMMA GmStepKeepsGames ==
  ASSUME Lobby, Games,
         (\E p \in Player : GmTakeRequest(p)) \/ GmContinue \/ GameTickEndsGames
  PROVE Games'
  <1> DEFINE Notes == [at : GmPoints, lobby : LobbyId \cup {NoLobby}, leaving : SUBSET Player]
  <1>1. /\ gm \in Notes /\ GmIdle \in Notes /\ GmIdle.at = "idle"
        /\ \A l \in LobbyId : players[l] \in SUBSET Player
        /\ \A p \in Player : playerToLobby[p] \in LobbyId \cup {NoLobby}
    BY DEF Games, GmTypeOK, GmIdle, GmPoints, Lobby, Registry, RegistryTypeOK
  <1>2. ASSUME UNCHANGED dungeonRegistry, gm' \in Notes, gm'.at = "idle" \/ gm'.lobby \in LobbyId,
               gm'.at \in {"findLobby", "addDungeon"} => nextGameId \in GameId
        PROVE Games'
    BY <1>2 DEF Games, GmTypeOK, DungeonsConsistent, dungeonRegistry
  <1>3. ASSUME NEW p \in Player, StartGame(p)
        PROVE Games'
    <2>1. /\ playerToLobby[p] \in LobbyId
          /\ gm' = [at |-> "findLobby", lobby |-> playerToLobby[p], leaving |-> {}]
          /\ UNCHANGED dungeonRegistry
      BY <1>1, <1>3 DEF StartGame, IsPlayerInLobby
    <2>2. nextGameId \in GameId
      BY <1>3, GamesBoundAssumption DEF StartGame, Games, GmTypeOK, GameId
    <2>3. gm' \in Notes /\ gm'.lobby \in LobbyId
      BY <2>1 DEF GmPoints
    <2> QED
      BY <1>2, <2>1, <2>2, <2>3
  <1>4. CASE StartFindLobby
    BY <1>1, <1>2, <1>4 DEF StartFindLobby, Games, GmTypeOK, GmPoints
  <1>5. CASE StartAddDungeon
    <2>1. gm.lobby \in LobbyId /\ nextGameId \in GameId
      BY <1>5 DEF StartAddDungeon, Games, GmTypeOK
    <2>2. CASE CanAddDungeon(players[gm.lobby])
      BY <1>1, <1>5, <2>1, <2>2, AddDungeonKeeps DEF StartAddDungeon, GmPoints
    <2>3. CASE ~CanAddDungeon(players[gm.lobby])
      BY <1>1, <1>2, <1>5, <2>3 DEF StartAddDungeon
    <2> QED
      BY <2>2, <2>3
  <1>6. CASE StartReadMembers
    <2>1. gm.lobby \in LobbyId /\ UNCHANGED dungeonRegistry
      BY <1>6 DEF StartReadMembers, Games, GmTypeOK
    <2>2. gm' \in Notes /\ gm'.at \in {"idle", "remove"} /\ (gm'.at = "idle" \/ gm'.lobby \in LobbyId)
      BY <1>1, <1>6, <2>1 DEF StartReadMembers, GmPoints
    <2> QED
      BY <1>2, <2>1, <2>2
  <1>7. CASE StartRemovePlayer
    <2>1. gm.lobby \in LobbyId /\ UNCHANGED dungeonRegistry
      BY <1>7 DEF StartRemovePlayer, Games, GmTypeOK
    <2>2. gm' \in Notes /\ gm'.at \in {"idle", "remove"} /\ (gm'.at = "idle" \/ gm'.lobby \in LobbyId)
      BY <1>1, <1>7, <2>1 DEF StartRemovePlayer
    <2> QED
      BY <1>2, <2>1, <2>2
  <1>8. CASE GameTickEndsGames
    BY <1>8, RemoveDungeonsKeeps DEF GameTickEndsGames
  <1> QED
    BY <1>3, <1>4, <1>5, <1>6, <1>7, <1>8 DEF GmTakeRequest, GmContinue

----------------------------------------------------------------------------
(* The specification *)

LEMMA InitInductive == Init => Inductive
  <1> SUFFICES ASSUME Init PROVE Inductive
    OBVIOUS
  <1>1. RegistryTypeOK /\ LmTypeOK /\ GmTypeOK /\ owed \subseteq Player
    BY LobbyBoundsAssumption, GamesBoundAssumption
    DEF Init, RegistryInit, LmInit, GmInit, RegistryTypeOK, LmTypeOK, GmTypeOK,
        LmIdle, LmPoints, NoResponse, GmIdle, GmPoints
  <1>2. RegistryConsistent /\ ReadyAreMembers /\ DungeonsConsistent
    BY DEF Init, RegistryInit, GmInit, RegistryConsistent, ReadyAreMembers, DungeonsConsistent,
           LobbyId, NoLobby, GameId, NoGame
  <1>3. CapacityRespected
    BY FS_EmptySet, LobbyBoundsAssumption DEF Init, RegistryInit, CapacityRespected
  <1>4. LeaderIsMember /\ IdsAreFresh /\ CreationUndisturbed
    BY DEF Init, RegistryInit, LmInit, GmInit, LeaderIsMember, IdsAreFresh, CreationUndisturbed,
           LmIdle
  <1> QED
    BY <1>1, <1>2, <1>3, <1>4 DEF Inductive, TypeOK

LEMMA StepInductive == Inductive /\ [Next]_vars => Inductive'
  <1> SUFFICES ASSUME Lobby, Games, owed \subseteq Player, [Next]_vars
               PROVE Lobby' /\ Games' /\ owed' \subseteq Player
    BY InductiveIsBoth DEF Inductive, TypeOK, IdsAreFresh, Lobby, Registry, Games
  <1>1. ASSUME UNCHANGED gmVars
        PROVE Games'
    BY <1>1 DEF gmVars, dungeonRegistry, Games, GmTypeOK, DungeonsConsistent
  <1>2. ASSUME NEW p \in Player, LmTakeRequest(p) /\ UNCHANGED gmVars
        PROVE Lobby' /\ Games'
    BY <1>1, <1>2, LmTakeRequestKeeps
  <1>3. ASSUME LmContinue /\ UNCHANGED gmVars
        PROVE Lobby' /\ Games'
    BY <1>1, <1>3, LmContinueKeeps
  <1>4. ASSUME NEW p \in Player, GmTakeRequest(p) /\ UNCHANGED lm /\ Silent
        PROVE Lobby' /\ Games'
    <2>1. UNCHANGED registry
      BY <1>4 DEF GmTakeRequest, StartGame
    <2> QED
      BY <1>4, <2>1, GmStepKeepsLobby, GmStepKeepsGames
  <1>5. ASSUME GmContinue /\ UNCHANGED lm /\ Silent
        PROVE Lobby' /\ Games'
    <2>1. UNCHANGED registry \/ \E p \in Player : RemovePlayerFromLobby(p)
      BY <1>5 DEF GmContinue, StartFindLobby, StartAddDungeon, StartReadMembers, StartRemovePlayer,
                  Games, GmTypeOK
    <2> QED
      BY <1>5, <2>1, GmStepKeepsLobby, GmStepKeepsGames
  <1>6. ASSUME GameTickEndsGames /\ UNCHANGED lm /\ Silent
        PROVE Lobby' /\ Games'
    <2>1. UNCHANGED registry
      BY <1>6 DEF GameTickEndsGames
    <2> QED
      BY <1>6, <2>1, GmStepKeepsLobby, GmStepKeepsGames
  <1>7. ASSUME UNCHANGED vars
        PROVE Lobby' /\ Games'
    <2>1. UNCHANGED gmVars /\ UNCHANGED registry /\ UNCHANGED <<lm, response>>
      BY <1>7 DEF vars, lmVars
    <2>2. Lobby'
      BY <2>1 DEF Lobby, LmTypeOK, Registry, registry, RegistryTypeOK, RegistryConsistent,
                  CapacityRespected, ReadyAreMembers, LeaderIsMember, InCreation, CreationUndisturbed
    <2> QED
      BY <1>1, <2>1, <2>2
  <1>8. owed' \subseteq Player
    <2>1. gm.at = "addDungeon" => players[gm.lobby] \subseteq Player
      BY DEF Games, GmTypeOK, Lobby, Registry, RegistryTypeOK
    <2> QED
      BY <2>1 DEF Next, Owe, vars
  <1> QED
    BY <1>2, <1>3, <1>4, <1>5, <1>6, <1>7, <1>8 DEF Next

\* Every reachable state of the two strands satisfies the whole invariant: the
\* registries agree with the Lobby objects, leaders are members, nobody is in
\* two games, and no lobby is overfull, however the handlers' calls interleave.
THEOREM InductiveHolds == Spec => []Inductive
  BY InitInductive, StepInductive, PTL DEF Spec

\* Types: in particular a handler that acts on a lobby has a real lobby id.
THEOREM TypesHold == Spec => []TypeOK
  <1>1. Inductive => TypeOK
    BY DEF Inductive
  <1> QED
    BY <1>1, InductiveHolds, PTL

\* player_to_lobby_, lobby_players_ and the Lobby objects never disagree between
\* two calls, although two strands change them without a lock.
THEOREM RegistryStaysConsistent == Spec => []RegistryConsistent
  <1>1. Inductive => RegistryConsistent
    BY DEF Inductive
  <1> QED
    BY <1>1, InductiveHolds, PTL

\* Lobby::removePlayer always leaves a leader who is a player.
THEOREM LeadersAreMembers == Spec => []LeaderIsMember
  <1>1. Inductive => LeaderIsMember
    BY DEF Inductive
  <1> QED
    BY <1>1, InductiveHolds, PTL

\* Lobby::isFull, an equality test, is enough to keep every lobby within
\* lobby_max_players.
THEOREM CapacityHolds == Spec => []CapacityRespected
  <1>1. Inductive => CapacityRespected
    BY DEF Inductive
  <1> QED
    BY <1>1, InductiveHolds, PTL

\* Lobby::setReady never marks a player who is gone.
THEOREM ReadyPlayersAreMembers == Spec => []ReadyAreMembers
  <1>1. Inductive => ReadyAreMembers
    BY DEF Inductive
  <1> QED
    BY <1>1, InductiveHolds, PTL

\* Lobbies are sound between any two calls of the two strands.
THEOREM LobbiesStaySound == Spec => []LobbiesAreSound
  <1>1. LeaderIsMember /\ CapacityRespected /\ ReadyAreMembers => LobbiesAreSound
    BY DEF LobbiesAreSound
  <1> QED
    BY <1>1, LeadersAreMembers, CapacityHolds, ReadyPlayersAreMembers, PTL

\* DungeonRegistry's maps mirror each other: nobody is in two games.
THEOREM DungeonsStayConsistent == Spec => []DungeonsConsistent
  <1>1. Inductive => DungeonsConsistent
    BY DEF Inductive
  <1> QED
    BY <1>1, InductiveHolds, PTL

----------------------------------------------------------------------------
(* The players of a game that is starting *)

\* Who is in the game and has been in its lobby ever since is still there, and
\* on the list of those to be taken out once the handler has read that list.
OwedAreHere ==
  \A p \in owed :
    /\ gm.at \in {"readMembers", "remove"}
    /\ playerToLobby[p] = gm.lobby
    /\ gm.at = "remove" => p \in gm.leaving

LEMMA OwedKept == Inductive /\ OwedAreHere /\ [Next]_vars => OwedAreHere'
  <1> SUFFICES ASSUME Inductive, OwedAreHere, [Next]_vars, NEW p \in owed'
               PROVE /\ gm'.at \in {"readMembers", "remove"}
                     /\ playerToLobby'[p] = gm'.lobby
                     /\ gm'.at = "remove" => p \in gm'.leaving
    BY DEF OwedAreHere
  <1>0. /\ RegistryTypeOK /\ RegistryConsistent /\ GmTypeOK /\ p \in Player
        /\ NoLobby \notin LobbyId
    BY StepInductive DEF Inductive, TypeOK, LobbyId, NoLobby
  <1>1. CASE UNCHANGED vars
    BY <1>1 DEF vars, registry, gmVars, OwedAreHere
  <1>2. CASE gm.at = "addDungeon" /\ gm'.at = "readMembers"
    <2>1. StartAddDungeon /\ Owe
      BY <1>2 DEF Next, LmTakeRequest, LmContinue, GmTakeRequest, StartGame, GmContinue, StartFindLobby,
                  StartReadMembers, StartRemovePlayer, GameTickEndsGames, gmVars, vars
    <2>2. gm.lobby \in LobbyId /\ p \in players[gm.lobby]
      BY <1>0, <1>2, <2>1 DEF Owe, GmTypeOK
    <2>3. playerToLobby[p] = gm.lobby /\ UNCHANGED playerToLobby
      BY <1>0, <2>1, <2>2 DEF StartAddDungeon, registry, RegistryConsistent
    <2>4. gm'.lobby = gm.lobby
      BY <1>0, <1>2, <2>1 DEF StartAddDungeon, GmIdle, GmTypeOK
    <2> QED
      BY <1>2, <2>3, <2>4
  <1>3. CASE Next /\ ~(gm.at = "addDungeon" /\ gm'.at = "readMembers")
    <2>1. /\ p \in owed /\ playerToLobby'[p] = gm.lobby
          /\ gm.at \in {"readMembers", "remove"} /\ playerToLobby[p] = gm.lobby
          /\ gm.at = "remove" => p \in gm.leaving
      BY <1>3 DEF Next, Owe, OwedAreHere
    <2>2. CASE UNCHANGED gm
      BY <2>1, <2>2
    <2>3. CASE StartReadMembers
      BY <1>0, <2>1, <2>3 DEF StartReadMembers, registry, RegistryConsistent, GmTypeOK
    <2>4. CASE StartRemovePlayer
      <3>1. PICK q \in gm.leaving :
              /\ RemovePlayerFromLobby(q)
              /\ gm' = IF gm.leaving = {q} THEN GmIdle ELSE [gm EXCEPT !.leaving = @ \ {q}]
        BY <2>4 DEF StartRemovePlayer
      <3>2. gm.at = "remove" /\ q \in Player /\ gm.lobby \in LobbyId
        BY <1>0, <2>4, <3>1 DEF StartRemovePlayer, GmTypeOK
      <3>3. p # q
        BY <1>0, <2>1, <3>1, <3>2 DEF RemovePlayerFromLobby, RegistryTypeOK
      <3>4. gm' = [gm EXCEPT !.leaving = @ \ {q}]
        BY <2>1, <3>1, <3>2, <3>3
      <3> QED
        BY <1>0, <2>1, <3>2, <3>3, <3>4 DEF GmTypeOK
    <2>5. UNCHANGED gm \/ StartReadMembers \/ StartRemovePlayer
      BY <1>3, <2>1 DEF Next, GmTakeRequest, StartGame, GmContinue, StartFindLobby, StartAddDungeon,
                        GameTickEndsGames, gmVars
    <2> QED
      BY <2>2, <2>3, <2>4, <2>5
  <1> QED
    BY <1>1, <1>2, <1>3

\* The loop of onStartGameRequestEvent takes out everybody it put in the game,
\* whoever comes and goes between its two reads of the lobby's players.
THEOREM StartsEmptyTheirLobby == Spec => []GamePlayersLeave
  <1>1. Init => OwedAreHere
    BY DEF Init, OwedAreHere
  <1>2. OwedAreHere => GamePlayersLeave
    BY DEF OwedAreHere, GamePlayersLeave
  <1> QED
    BY <1>1, <1>2, OwedKept, InductiveHolds, PTL DEF Spec

-----------------------------------------------------------------------------
(***************************************************************************)
(* LobbyStrands implements LobbyService, for any number of players,        *)
(* lobbies and games and any lobby_max_players.  What a handler looked up  *)
(* in earlier steps may be out of date when it answers; HandlerKnows is    *)
(* what is left of it, and enough for every answer to be true.             *)
(***************************************************************************)

\* What LobbyManager's handler still knows in the middle: others only remove
\* players, so a lobby with room keeps room, and a player who was found in a
\* lobby is there or nowhere.
HandlerKnows ==
  /\ lm.at \in {"checkFull", "addJoiner"} => lm.lobby < nextLobbyId
  /\ lm.at = "addJoiner" => Cardinality(players[lm.lobby]) < LobbyMaxPlayers
  /\ lm.at \in {"findLeft", "remove", "findReady", "setReady"} =>
       playerToLobby[lm.player] \in {lm.lobby, NoLobby}
  /\ lm.at \in {"cleanLeft", "cleanReady"} => playerToLobby[lm.player] = NoLobby

Informed == Inductive /\ HandlerKnows

----------------------------------------------------------------------------
(* What the service sees of the registries *)

\* The players of a Lobby are those the service counts as its members, and a
\* lobby that is not registered has none.
LEMMA MembersArePlayers ==
  ASSUME Inductive, NEW l \in LobbyId
  PROVE /\ Service!Members(l) = players[l]
        /\ l \notin lobbies => players[l] = {}
  BY DEF Inductive, TypeOK, RegistryTypeOK, RegistryConsistent, Service!Members

\* The service counts as the code does.
LEMMA SameCount ==
  ASSUME NEW S
  PROVE Service!Cardinality(S) = Cardinality(S)
  BY DEF Service!Cardinality, Cardinality

\* A registered lobby that is not being created has somebody in it.
LEMMA RegisteredHasMembers ==
  ASSUME Inductive, NEW l \in lobbies, lm.at # "addCreator"
  PROVE players[l] # {}
  BY DEF Inductive, LeaderIsMember, InCreation

\* What removing a player does, as the service sees it.
LEMMA RemovalSeen ==
  ASSUME Inductive, NEW p \in Player, RemovePlayerFromLobby(p)
  PROVE /\ playerToLobby' = [playerToLobby EXCEPT ![p] = NoLobby]
        /\ nextLobbyId' = nextLobbyId
        /\ \A l \in LobbyId : players'[l] \in SUBSET players[l]
        /\ CanRemovePlayer(p) <=> playerToLobby[p] # NoLobby
  <1>1. /\ RegistryTypeOK /\ RegistryConsistent
        /\ playerToLobby[p] \in LobbyId \cup {NoLobby}
        /\ NoLobby \notin LobbyId
    BY DEF Inductive, TypeOK, RegistryTypeOK, LobbyId, NoLobby
  <1>2. CanRemovePlayer(p) <=> playerToLobby[p] # NoLobby
    BY <1>1 DEF RegistryTypeOK, RegistryConsistent, CanRemovePlayer
  <1>3. \A l \in LobbyId : players'[l] \in SUBSET players[l]
    <2>1. CASE CanRemovePlayer(p)
      <3>1. players' = [players EXCEPT ![playerToLobby[p]] = @ \ {p}]
        BY <2>1 DEF RemovePlayerFromLobby
      <3> QED
        BY <1>1, <3>1 DEF RegistryTypeOK
    <2>2. CASE ~CanRemovePlayer(p)
      BY <2>2 DEF RemovePlayerFromLobby
    <2> QED
      BY <2>1, <2>2
  <1> QED
    BY <1>2, <1>3 DEF RemovePlayerFromLobby

----------------------------------------------------------------------------
(* HandlerKnows *)

\* Removing anybody takes nothing from what the handler knows.
LEMMA RemovalKeepsKnowledge ==
  ASSUME Informed, NEW p \in Player, RemovePlayerFromLobby(p), UNCHANGED lm
  PROVE HandlerKnows'
  <1>1. /\ lm.at # "idle" => lm.player \in Player
        /\ playerToLobby \in [Player -> LobbyId \cup {NoLobby}]
        /\ lm.at = "addJoiner" => lm.lobby \in LobbyId
        /\ lm.lobby \in LobbyId => players[lm.lobby] \in SUBSET Player
    BY DEF Informed, Inductive, TypeOK, LmTypeOK, RegistryTypeOK
  <1>2. ASSUME lm.at = "addJoiner"
        PROVE Cardinality(players'[lm.lobby]) < LobbyMaxPlayers
    <2>1. players'[lm.lobby] \in SUBSET players[lm.lobby]
      BY <1>1, <1>2, RemovalSeen DEF Informed
    <2>2. /\ Cardinality(players'[lm.lobby]) <= Cardinality(players[lm.lobby])
          /\ Cardinality(players'[lm.lobby]) \in Nat /\ Cardinality(players[lm.lobby]) \in Nat
      BY <1>1, <1>2, <2>1, PlayerSetsFinite, FS_Subset
    <2> QED
      BY <1>2, <2>2, LobbyBoundsAssumption DEF Informed, HandlerKnows
  <1> QED
    BY <1>1, <1>2, RemovalSeen DEF Informed, HandlerKnows

LEMMA KnowledgeKept == Informed /\ [Next]_vars => HandlerKnows'
  <1> SUFFICES ASSUME Informed, [Next]_vars
               PROVE HandlerKnows'
    OBVIOUS
  <1>0. /\ RegistryTypeOK /\ RegistryConsistent /\ LmTypeOK /\ HandlerKnows
        /\ \A l \in lobbies : l < nextLobbyId
    BY DEF Informed, Inductive, TypeOK, IdsAreFresh
  <1>1. ASSUME lm'.at \in {"idle", "addCreator"}
        PROVE HandlerKnows'
    BY <1>1 DEF HandlerKnows
  <1>2. ASSUME UNCHANGED registry, UNCHANGED lm
        PROVE HandlerKnows'
    BY <1>0, <1>2 DEF HandlerKnows, registry
  <1>3. ASSUME NEW p \in Player, LmTakeRequest(p)
        PROVE HandlerKnows'
    <2>1. CASE CreateRefused(p) \/ CreateLobby(p) \/ ListLobbies(p)
      BY <1>1, <2>1 DEF CreateRefused, CreateLobby, ListLobbies, Reply, Continue, LmIdle
    <2>2. ASSUME NEW l \in LobbyId, JoinFindLobby(p, l)
          PROVE HandlerKnows'
      BY <1>0, <2>2 DEF JoinFindLobby, Reply, Continue, LmIdle, registry, HandlerKnows
    <2>3. CASE LeaveLookUp(p) \/ \E isReady \in BOOLEAN : ReadyLookUp(p, isReady)
      BY <1>0, <2>3 DEF LeaveLookUp, ReadyLookUp, LookUpMapping, Reply, Continue, LmIdle, registry, HandlerKnows
    <2> QED
      BY <1>3, <2>1, <2>2, <2>3 DEF LmTakeRequest
  <1>4. CASE LmContinue
    <2>1. CASE AddCreator \/ JoinAddPlayer \/ LeaveClean \/ LeaveRemove \/ ReadyClean \/ ReadySet
      BY <1>1, <2>1 DEF AddCreator, JoinAddPlayer, LeaveClean, LeaveRemove, ReadyClean, ReadySet,
                        CleanStaleMapping, Reply, LmIdle
    <2>2. CASE JoinCheckFull
      <3>1. lm.lobby \in LobbyId /\ players[lm.lobby] \in SUBSET Player /\ UNCHANGED registry
        BY <1>0, <2>2 DEF JoinCheckFull, LmTypeOK, RegistryTypeOK
      <3>2. Cardinality(players[lm.lobby]) \in Nat /\ Cardinality(players[lm.lobby]) <= LobbyMaxPlayers
        BY <3>1, PlayerSetsFinite DEF Informed, Inductive, CapacityRespected
      <3>3. CASE IsFull(lm.lobby)
        BY <1>1, <2>2, <3>3 DEF JoinCheckFull, Reply, LmIdle
      <3>4. CASE ~IsFull(lm.lobby)
        <4>1. Cardinality(players[lm.lobby]) < LobbyMaxPlayers
          BY <3>2, <3>4, LobbyBoundsAssumption DEF IsFull
        <4>2. lm' = [at |-> "addJoiner", player |-> lm.player, lobby |-> lm.lobby, isReady |-> FALSE]
          BY <2>2, <3>4 DEF JoinCheckFull, Continue
        <4> QED
          BY <1>0, <2>2, <3>1, <4>1, <4>2 DEF HandlerKnows, registry, JoinCheckFull
      <3> QED
        BY <3>3, <3>4
    <2>3. CASE LeaveFindLobby \/ ReadyFindLobby
      <3>1. /\ lm.at \in {"findLeft", "findReady"} /\ UNCHANGED registry
            /\ lm.player \in Player /\ lm.lobby \in LobbyId
        BY <1>0, <2>3 DEF LeaveFindLobby, ReadyFindLobby, LookUpLobby, LmTypeOK
      <3>2. lm.lobby \notin lobbies => playerToLobby[lm.player] = NoLobby
        BY <1>0, <3>1 DEF HandlerKnows, RegistryConsistent
      <3> QED
        BY <1>0, <2>3, <3>1, <3>2 DEF LeaveFindLobby, ReadyFindLobby, LookUpLobby, Continue, registry, HandlerKnows
    <2> QED
      BY <1>4, <2>1, <2>2, <2>3 DEF LmContinue
  <1>5. CASE GmContinue /\ UNCHANGED lm
    <2>1. UNCHANGED registry \/ \E p \in Player : RemovePlayerFromLobby(p)
      BY <1>5 DEF GmContinue, StartFindLobby, StartAddDungeon, StartReadMembers, StartRemovePlayer,
                  Informed, Inductive, TypeOK, GmTypeOK
    <2> QED
      BY <1>2, <1>5, <2>1, RemovalKeepsKnowledge
  <1>6. ASSUME UNCHANGED lm, GameTickEndsGames \/ (\E p \in Player : GmTakeRequest(p)) \/ UNCHANGED vars
        PROVE HandlerKnows'
    BY <1>2, <1>6 DEF GameTickEndsGames, GmTakeRequest, StartGame, vars
  <1> QED
    BY <1>3, <1>4, <1>5, <1>6 DEF Next, vars, lmVars

LEMMA InformedHolds == Spec => []Informed
  <1>1. Init => HandlerKnows
    BY DEF Init, LmInit, LmIdle, HandlerKnows
  <1>2. Init => Informed
    BY <1>1, InitInductive DEF Informed
  <1>3. Informed /\ [Next]_vars => Informed'
    BY KnowledgeKept, StepInductive DEF Informed
  <1> QED
    BY <1>2, <1>3, PTL DEF Spec

----------------------------------------------------------------------------
(* The steps as the service sees them *)

Founded == (1..(nextLobbyId - 1)) \ InCreation

\* A response that is true, with nothing changed, is one of the service's answers.
LEMMA TrueAnswer ==
  ASSUME NEW event \in Service!Events, NEW p \in Player, NEW l \in LobbyId \cup {NoLobby},
         Service!Justified(event, p, l), Publish(event, p, l),
         UNCHANGED <<playerToLobby, Founded, playerToDungeon>>
  PROVE Service!Next
  BY DEF Service!Tell, Service!Next, Publish, Founded

\* A silent step that changes nothing the service knows.
LEMMA SilentStep ==
  ASSUME Silent, UNCHANGED <<playerToLobby, Founded, playerToDungeon>>
  PROVE Service!Next
  BY DEF Service!Hush, Service!Next, Silent, Founded

\* Outside creations Founded depends on the counter alone.
LEMMA FoundedKept ==
  ASSUME UNCHANGED nextLobbyId, lm.at # "addCreator", lm'.at # "addCreator"
  PROVE UNCHANGED Founded
  BY DEF Founded, InCreation

LEMMA RequestRefines ==
  ASSUME Informed, NEW p \in Player, LmTakeRequest(p), UNCHANGED gmVars
  PROVE Service!Next
  <1>0. /\ RegistryTypeOK /\ UNCHANGED playerToDungeon
        /\ playerToLobby[p] \in LobbyId \cup {NoLobby}
    BY DEF Informed, Inductive, TypeOK, RegistryTypeOK, gmVars, dungeonRegistry
  \* A request that is answered at once.
  <1>1. ASSUME NEW event \in Service!Events, NEW l \in LobbyId \cup {NoLobby},
               Service!Justified(event, p, l), Reply(event, p, l), UNCHANGED registry, lm.at = "idle"
        PROVE Service!Next
    BY <1>0, <1>1, FoundedKept, TrueAnswer DEF Reply, LmIdle, registry
  \* A request that the handler takes a first look at.
  <1>2. ASSUME NEW at, NEW l, NEW isReady, Continue(at, p, l, isReady), UNCHANGED registry,
               lm.at = "idle", at # "addCreator"
        PROVE Service!Next
    BY <1>0, <1>2, FoundedKept, SilentStep DEF Continue, registry
  <1>3. CASE CreateRefused(p)
    <2>1. Service!Justified("LobbyCreationFailed", p, NoLobby)
      BY <1>3 DEF CreateRefused, IsPlayerInLobby, Service!Justified
    <2> QED
      BY <1>1, <1>3, <2>1 DEF CreateRefused, Service!Events
  <1>4. CASE CreateLobby(p)
    <2>1. /\ lm.at = "idle" /\ lm'.at = "addCreator" /\ lm'.lobby = nextLobbyId
          /\ nextLobbyId \in Nat \ {0} /\ nextLobbyId' = nextLobbyId + 1
          /\ UNCHANGED playerToLobby /\ Silent
      BY <1>0, <1>4, LobbyBoundsAssumption DEF CreateLobby, Continue, AddLobby, RegistryTypeOK
    <2>2. UNCHANGED Founded
      BY <2>1 DEF Founded, InCreation
    <2> QED
      BY <1>0, <2>1, <2>2, SilentStep
  <1>5. ASSUME NEW l \in LobbyId, JoinFindLobby(p, l)
        PROVE Service!Next
    <2>1. CASE l \in lobbies
      BY <1>2, <1>5, <2>1 DEF JoinFindLobby
    <2>2. CASE l \notin lobbies
      <3>1. Service!Justified("JoinLobbyNotExists", p, l)
        BY <2>2, MembersArePlayers DEF Informed, Service!Justified
      <3> QED
        BY <1>1, <1>5, <2>2, <3>1 DEF JoinFindLobby, Service!Events
    <2> QED
      BY <2>1, <2>2
  <1>6. ASSUME NEW next \in LmPoints, NEW isReady \in BOOLEAN, next # "addCreator",
               NEW refusal \in {"LeaveLobbyNotConsists", "PlayerReadyFailed"},
               LookUpMapping(p, next, isReady, refusal)
        PROVE Service!Next
    <2>1. CASE IsPlayerInLobby(p)
      BY <1>2, <1>6, <2>1 DEF LookUpMapping
    <2>2. CASE ~IsPlayerInLobby(p)
      <3>1. Service!Justified(refusal, p, NoLobby) /\ refusal \in Service!Events
        BY <2>2 DEF IsPlayerInLobby, Service!Justified, Service!Events
      <3> QED
        BY <1>1, <1>6, <2>2, <3>1 DEF LookUpMapping
    <2> QED
      BY <2>1, <2>2
  <1>7. CASE LeaveLookUp(p)
    BY <1>6, <1>7 DEF LeaveLookUp, LmPoints
  <1>8. ASSUME NEW isReady \in BOOLEAN, ReadyLookUp(p, isReady)
        PROVE Service!Next
    BY <1>6, <1>8 DEF ReadyLookUp, LmPoints
  <1>9. CASE ListLobbies(p)
    BY <1>1, <1>9 DEF ListLobbies, Service!Justified, Service!Events
  <1> QED
    BY <1>3, <1>4, <1>5, <1>7, <1>8, <1>9 DEF LmTakeRequest

LEMMA CreationRefines ==
  ASSUME Informed, AddCreator, UNCHANGED gmVars
  PROVE Service!Next
  <1> DEFINE p == lm.player
             l == lm.lobby
  <1>0. /\ RegistryTypeOK /\ RegistryConsistent /\ UNCHANGED playerToDungeon
        /\ lm.at = "addCreator" /\ p \in Player /\ l \in LobbyId
        /\ l \in lobbies /\ l < nextLobbyId /\ players[l] = {} /\ playerToLobby[p] = NoLobby
        /\ nextLobbyId \in Nat /\ l \in 1..(nextLobbyId - 1)
    BY LobbyBoundsAssumption DEF Informed, Inductive, TypeOK, IdsAreFresh, LmTypeOK, CreationUndisturbed, RegistryTypeOK,
           AddCreator, gmVars, dungeonRegistry, LobbyId
  <1>1. l \notin Founded
    BY <1>0 DEF Founded, InCreation
  <1>2. ASSUME UNCHANGED nextLobbyId, lm'.at = "idle"
        PROVE Founded' = Founded \cup {l}
    BY <1>0, <1>2 DEF Founded, InCreation
  <1>3. CASE CanAddPlayer(p, l)
    <2>1. AddPlayerToLobby(p, l) /\ Reply("LobbyCreated", p, l)
      BY <1>3 DEF AddCreator
    <2>2. /\ playerToLobby' = [playerToLobby EXCEPT ![p] = l]
          /\ Founded' = Founded \cup {l}
      BY <1>2, <2>1 DEF AddPlayerToLobby, Reply, LmIdle
    <2>3. Service!Create(p, l)
      BY <1>0, <1>1, <2>1, <2>2 DEF Service!Create, Service!Answer, Reply, Publish, Founded
    <2> QED
      BY <1>0, <2>3 DEF Service!Next
  <1>4. CASE ~CanAddPlayer(p, l)
    <2>1. RemoveLobby(l) /\ Reply("LobbyCreationFailed", p, l)
      BY <1>4 DEF AddCreator
    <2>2. Cardinality(players[l]) = LobbyMaxPlayers
      BY <1>0, <1>4 DEF CanAddPlayer, IsPlayerInLobby, LobbyAccepts, IsFull, RegistryConsistent
    <2>3. LobbyMaxPlayers = 0
      BY <1>0, <2>2, FS_EmptySet
    <2>4. playerToLobby' = playerToLobby
      BY <1>0, <2>1 DEF RemoveLobby, RegistryTypeOK, RegistryConsistent
    <2>5. Founded' = Founded \cup {l}
      BY <1>2, <2>1 DEF RemoveLobby, Reply, LmIdle
    <2>6. Service!CreateNothing(p, l)
      BY <1>0, <1>1, <2>1, <2>3, <2>4, <2>5 DEF Service!CreateNothing, Service!Answer, Reply, Publish, Founded
    <2> QED
      BY <1>0, <2>6 DEF Service!Next
  <1> QED
    BY <1>3, <1>4

LEMMA JoinRefines ==
  ASSUME Informed, JoinCheckFull \/ JoinAddPlayer, UNCHANGED gmVars
  PROVE Service!Next
  <1> DEFINE p == lm.player
             l == lm.lobby
  <1>0. /\ RegistryTypeOK /\ RegistryConsistent /\ UNCHANGED playerToDungeon
        /\ lm.at \in {"checkFull", "addJoiner"} /\ p \in Player /\ l \in LobbyId
        /\ nextLobbyId \in Nat /\ l < nextLobbyId
        /\ Service!Members(l) = players[l] /\ players[l] \in SUBSET Player
    <2>1. lm.at \in {"checkFull", "addJoiner"}
      BY DEF JoinCheckFull, JoinAddPlayer
    <2>2. RegistryTypeOK /\ RegistryConsistent /\ LmTypeOK /\ Inductive /\ HandlerKnows
      BY DEF Informed, Inductive, TypeOK
    <2>3. p \in Player /\ l \in LobbyId
      BY <2>1, <2>2 DEF LmTypeOK
    <2>4. nextLobbyId \in Nat /\ l < nextLobbyId /\ players[l] \in SUBSET Player
      BY <2>1, <2>2, <2>3, LobbyBoundsAssumption DEF RegistryTypeOK, HandlerKnows
    <2> QED
      BY <2>1, <2>2, <2>3, <2>4, MembersArePlayers DEF gmVars, dungeonRegistry
  <1>1. UNCHANGED nextLobbyId /\ lm'.at # "addCreator"
    BY DEF JoinCheckFull, JoinAddPlayer, AddPlayerToLobby, registry, Reply, Continue, LmIdle
  <1>2. UNCHANGED Founded
    BY <1>0, <1>1, FoundedKept
  <1>3. CASE JoinCheckFull
    <2>1. CASE IsFull(l)
      BY <1>0, <1>2, <1>3, <2>1, SameCount, TrueAnswer
      DEF JoinCheckFull, IsFull, Reply, registry, Service!Justified, Service!Events
    <2>2. CASE ~IsFull(l)
      BY <1>0, <1>2, <1>3, <2>2, SilentStep DEF JoinCheckFull, Continue, registry
    <2> QED
      BY <2>1, <2>2
  <1>4. CASE JoinAddPlayer
    <2>0. lm.at = "addJoiner"
      BY <1>4 DEF JoinAddPlayer
    <2>1. Cardinality(players[l]) < LobbyMaxPlayers /\ Cardinality(players[l]) \in Nat
      BY <1>0, <2>0, PlayerSetsFinite DEF Informed, HandlerKnows
    <2>2. CASE CanAddPlayer(p, l)
      <3>1. AddPlayerToLobby(p, l) /\ Publish("JoinLobby", p, l)
        BY <1>4, <2>2 DEF JoinAddPlayer, Reply
      <3>2. players[l] # {}
        BY <2>0, <2>2, RegisteredHasMembers DEF Informed, CanAddPlayer
      <3>3. Service!Join(p, l)
        BY <1>0, <1>2, <2>1, <2>2, <3>1, <3>2, SameCount
        DEF Service!Join, Service!Answer, Publish, AddPlayerToLobby, CanAddPlayer, IsPlayerInLobby, Founded
      <3> QED
        BY <1>0, <3>3 DEF Service!Next
    <2>3. CASE ~CanAddPlayer(p, l)
      <3>1. UNCHANGED registry /\ Publish("JoinLobbyFailed", p, l)
        BY <1>4, <2>3 DEF JoinAddPlayer, Reply
      <3>2. playerToLobby[p] # NoLobby \/ l \notin lobbies
        BY <1>0, <2>1, <2>3, LobbyBoundsAssumption
        DEF CanAddPlayer, IsPlayerInLobby, LobbyAccepts, IsFull, RegistryConsistent, LobbyId, NoLobby
      <3>3. l \in Founded
        BY <1>0, <2>0 DEF Founded, InCreation, LobbyId
      <3>4. Service!Justified("JoinLobbyFailed", p, l)
        BY <1>0, <3>2, <3>3, MembersArePlayers DEF Informed, Service!Justified, Founded
      <3> QED
        BY <1>0, <1>2, <3>1, <3>4, TrueAnswer DEF registry, Service!Events
    <2> QED
      BY <2>2, <2>3
  <1> QED
    BY <1>3, <1>4

LEMMA LeaveRefines ==
  ASSUME Informed, LeaveFindLobby \/ LeaveClean \/ LeaveRemove, UNCHANGED gmVars
  PROVE Service!Next
  <1> DEFINE p == lm.player
             l == lm.lobby
  <1>0. /\ lm.at \in {"findLeft", "cleanLeft", "remove"} /\ UNCHANGED playerToDungeon
        /\ p \in Player /\ l \in LobbyId \cup {NoLobby}
        /\ playerToLobby \in [Player -> LobbyId \cup {NoLobby}]
        /\ Inductive /\ HandlerKnows
    BY DEF Informed, Inductive, TypeOK, LmTypeOK, RegistryTypeOK, LeaveFindLobby, LeaveClean, LeaveRemove, LookUpLobby,
           CleanStaleMapping, gmVars, dungeonRegistry
  <1>1. ASSUME Service!Justified("LeaveLobbyFailed", p, l), Reply("LeaveLobbyFailed", p, l), RemovePlayerFromLobby(p),
               playerToLobby[p] = NoLobby
        PROVE Service!Next
    <2>1. UNCHANGED playerToLobby /\ UNCHANGED Founded
      BY <1>0, <1>1, RemovalSeen, FoundedKept DEF Reply, LmIdle
    <2> QED
      BY <1>0, <1>1, <2>1, TrueAnswer DEF Reply, Service!Events
  <1>2. CASE LeaveFindLobby
    <2>1. UNCHANGED registry /\ Silent /\ lm'.at # "addCreator"
      BY <1>2 DEF LeaveFindLobby, LookUpLobby, Continue
    <2> QED
      BY <1>0, <2>1, FoundedKept, SilentStep DEF registry
  <1>3. CASE LeaveClean
    BY <1>0, <1>1, <1>3 DEF LeaveClean, CleanStaleMapping, HandlerKnows, Service!Justified
  <1>4. CASE LeaveRemove
    <2>1. RemovePlayerFromLobby(p) /\ playerToLobby[p] \in {l, NoLobby}
      BY <1>0, <1>4 DEF LeaveRemove, HandlerKnows
    <2>2. CASE playerToLobby[p] = NoLobby
      <3>1. Reply("LeaveLobbyFailed", p, l)
        BY <1>0, <1>4, <2>1, <2>2, RemovalSeen DEF LeaveRemove
      <3> QED
        BY <1>1, <2>1, <2>2, <3>1 DEF Service!Justified
    <2>3. CASE playerToLobby[p] # NoLobby
      <3>1. Reply("LeaveLobby", p, l) /\ l = playerToLobby[p]
        BY <1>0, <1>4, <2>1, <2>3, RemovalSeen DEF LeaveRemove
      <3>2. playerToLobby' = [playerToLobby EXCEPT ![p] = NoLobby] /\ UNCHANGED Founded
        BY <1>0, <2>1, <3>1, RemovalSeen, FoundedKept DEF Reply, LmIdle
      <3>3. Service!Leave(p)
        BY <1>0, <2>3, <3>1, <3>2 DEF Service!Leave, Service!Answer, Reply, Publish, Founded
      <3> QED
        BY <1>0, <3>3 DEF Service!Next
    <2> QED
      BY <2>2, <2>3
  <1> QED
    BY <1>2, <1>3, <1>4

LEMMA ReadyRefines ==
  ASSUME Informed, ReadyFindLobby \/ ReadyClean \/ ReadySet, UNCHANGED gmVars
  PROVE Service!Next
  <1> DEFINE p == lm.player
             l == lm.lobby
  <1>0. /\ lm.at \in {"findReady", "cleanReady", "setReady"} /\ UNCHANGED playerToDungeon
        /\ p \in Player /\ l \in LobbyId \cup {NoLobby} /\ (lm.at = "setReady" => l \in LobbyId)
        /\ playerToLobby \in [Player -> LobbyId \cup {NoLobby}]
        /\ Inductive /\ HandlerKnows /\ RegistryConsistent /\ NoLobby \notin LobbyId
    BY DEF Informed, Inductive, TypeOK, LmTypeOK, RegistryTypeOK, ReadyFindLobby, ReadyClean, ReadySet, LookUpLobby,
           CleanStaleMapping, gmVars, dungeonRegistry, LobbyId, NoLobby
  <1>1. ASSUME playerToLobby[p] = NoLobby, Reply("PlayerReadyFailed", p, l),
               UNCHANGED <<playerToLobby, nextLobbyId>>
        PROVE Service!Next
    <2>1. UNCHANGED Founded
      BY <1>0, <1>1, FoundedKept DEF Reply, LmIdle
    <2> QED
      BY <1>0, <1>1, <2>1, TrueAnswer DEF Reply, Service!Events, Service!Justified
  <1>2. CASE ReadyFindLobby
    <2>1. UNCHANGED registry /\ Silent /\ lm'.at # "addCreator"
      BY <1>2 DEF ReadyFindLobby, LookUpLobby, Continue
    <2> QED
      BY <1>0, <2>1, FoundedKept, SilentStep DEF registry
  <1>3. CASE ReadyClean
    <2>1. RemovePlayerFromLobby(p) /\ Reply("PlayerReadyFailed", p, l) /\ playerToLobby[p] = NoLobby
      BY <1>0, <1>3 DEF ReadyClean, CleanStaleMapping, HandlerKnows
    <2>2. UNCHANGED <<playerToLobby, nextLobbyId>>
      BY <1>0, <2>1, RemovalSeen
    <2> QED
      BY <1>1, <2>1, <2>2
  <1>4. CASE ReadySet
    <2>1. /\ l \in LobbyId /\ playerToLobby[p] \in {l, NoLobby}
          /\ UNCHANGED <<playerToLobby, nextLobbyId>>
      BY <1>0, <1>4 DEF ReadySet, HandlerKnows
    <2>2. CASE p \in players[l]
      <3>1. Reply("PlayerReady", p, l) /\ playerToLobby[p] # NoLobby
        BY <1>0, <1>4, <2>1, <2>2 DEF ReadySet, RegistryConsistent
      <3>2. UNCHANGED Founded
        BY <1>0, <2>1, <3>1, FoundedKept DEF Reply, LmIdle
      <3> QED
        BY <1>0, <2>1, <3>1, <3>2, TrueAnswer DEF Reply, Service!Events, Service!Justified
    <2>3. CASE p \notin players[l]
      BY <1>0, <1>1, <1>4, <2>1, <2>3 DEF ReadySet, RegistryConsistent
    <2> QED
      BY <2>2, <2>3
  <1> QED
    BY <1>2, <1>3, <1>4

\* The start of a game, call by call, and its end.
LEMMA GamesRefine ==
  ASSUME Informed, UNCHANGED lm, Silent,
         (\E p \in Player : GmTakeRequest(p)) \/ GmContinue \/ GameTickEndsGames
  PROVE Service!Next
  <1>0. /\ Inductive /\ GmTypeOK /\ DungeonsConsistent /\ RegistryTypeOK
        /\ \A g \in dungeons : g < nextGameId
        /\ NoGame \notin GameId
    BY DEF Informed, Inductive, TypeOK, IdsAreFresh, GameId, NoGame
  <1>1. UNCHANGED nextLobbyId => UNCHANGED Founded
    BY DEF Founded, InCreation
  <1>2. ASSUME UNCHANGED registry, UNCHANGED dungeonRegistry
        PROVE Service!Next
    BY <1>1, <1>2, SilentStep DEF registry, dungeonRegistry
  <1>3. CASE (\E p \in Player : GmTakeRequest(p)) \/ StartFindLobby \/ StartReadMembers
    BY <1>2, <1>3 DEF GmTakeRequest, StartGame, StartFindLobby, StartReadMembers
  <1>4. CASE StartAddDungeon
    <2> DEFINE l == gm.lobby
               g == nextGameId
    <2>1. /\ l \in LobbyId /\ g \in GameId /\ UNCHANGED registry
          /\ Service!Members(l) = players[l] /\ players[l] \in SUBSET Player
      BY <1>0, <1>4, MembersArePlayers DEF StartAddDungeon, GmTypeOK, RegistryTypeOK
    <2>2. CASE CanAddDungeon(players[l])
      <3>1. AddDungeon(players[l])
        BY <1>4, <2>2 DEF StartAddDungeon
      <3>2. Service!Roster(g) = {}
        BY <1>0, <2>1 DEF Service!Roster, DungeonsConsistent, GameId
      <3>3. Service!Start(l, g)
        BY <1>1, <2>1, <2>2, <3>1, <3>2
        DEF Service!Start, CanAddDungeon, AddDungeon, Silent, registry, Founded
      <3> QED
        BY <2>1, <3>3 DEF Service!Next
    <2>3. CASE ~CanAddDungeon(players[l])
      BY <1>2, <1>4, <2>1, <2>3 DEF StartAddDungeon
    <2> QED
      BY <2>2, <2>3
  <1>5. CASE StartRemovePlayer
    <2>1. PICK p \in gm.leaving : RemovePlayerFromLobby(p)
      BY <1>5 DEF StartRemovePlayer
    <2>2. /\ p \in Player /\ UNCHANGED playerToDungeon /\ UNCHANGED Founded
          /\ playerToLobby' = [playerToLobby EXCEPT ![p] = NoLobby]
      BY <1>0, <1>1, <1>5, <2>1, RemovalSeen DEF GmTypeOK, StartRemovePlayer, dungeonRegistry
    <2>3. CASE playerToLobby[p] = NoLobby
      BY <1>0, <2>2, <2>3, SilentStep DEF RegistryTypeOK
    <2>4. CASE playerToLobby[p] # NoLobby
      <3>1. Service!Evict(p)
        BY <2>2, <2>4 DEF Service!Evict, Silent, Founded
      <3> QED
        BY <2>2, <3>1 DEF Service!Next
    <2> QED
      BY <2>3, <2>4
  <1>6. CASE GameTickEndsGames
    <2>1. PICK over \in SUBSET dungeons : RemoveDungeons(over)
      BY <1>6 DEF GameTickEndsGames
    <2>2. over \in SUBSET GameId
      BY <1>0 DEF GmTypeOK
    <2>3. \A p \in Player : (\E g \in over : p \in dungeonToPlayers[g]) <=> playerToDungeon[p] \in over
      BY <1>0, <2>2 DEF DungeonsConsistent
    <2>4. Service!End(over)
      BY <1>1, <1>6, <2>1, <2>3 DEF Service!End, RemoveDungeons, GameTickEndsGames, Silent, registry, Founded
    <2> QED
      BY <2>2, <2>4 DEF Service!Next
  <1> QED
    BY <1>3, <1>4, <1>5, <1>6 DEF GmContinue

LEMMA StepRefines == Informed /\ [Next]_vars => [Service!Next]_(Service!vars)
  <1> SUFFICES ASSUME Informed, Next
               PROVE Service!Next
    BY DEF vars, lmVars, gmVars, registry, dungeonRegistry, Service!vars, InCreation
  <1> QED
    BY RequestRefines, CreationRefines, JoinRefines, LeaveRefines, ReadyRefines, GamesRefine
    DEF Next, LmContinue

LEMMA InitRefines == Init => Service!Init
  BY LobbyBoundsAssumption DEF Init, RegistryInit, LmInit, GmInit, LmIdle, InCreation, Service!Init

\* However the calls of the two managers interleave, lobbies and games behave as
\* if every request took effect in one step and every response were true when it
\* is published (lobby_manager.cpp, game_manager.cpp).
THEOREM ServiceIsImplemented == Spec => ImplementsService
  BY InitRefines, StepRefines, InformedHolds, PTL DEF Spec, ImplementsService, Service!Spec

=============================================================================
