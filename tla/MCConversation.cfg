\* Five commands are two names, a lobby, a second player in it, and its game.
CONSTANTS
  Player = {p1, p2}
  Commands = {"Join", "CreateParty", "ListParties", "JoinParty", "StartGame", "Move"}
  LobbyMaxPlayers = 2
  MaxLobbies = 2
  MaxCommands = 5
SPECIFICATION Spec
SYMMETRY PlayerSymmetry
INVARIANTS
  TypeOK
  AnswersInOrder
  KnowsItsLobby
PROPERTIES
  WelcomeMeansHeard
\* Nobody is obliged to give a command.
CHECK_DEADLOCK FALSE
