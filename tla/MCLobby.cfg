\* Two lobbies and two games for three players: a lobby fills up, is emptied
\* and started while its players move to the other one.
CONSTANTS
  Player = {p1, p2, p3}
  NoPlayer = NoPlayer
  LobbyMaxPlayers = 2
  MaxLobbies = 2
  MaxGames = 2
SPECIFICATION Spec
SYMMETRY PlayerSymmetry
INVARIANTS
  RegistryConsistent
  LobbiesAreSound
  DungeonsConsistent
  GamePlayersLeave
PROPERTIES
  ImplementsService
\* Nobody is obliged to send a request.
CHECK_DEADLOCK FALSE
