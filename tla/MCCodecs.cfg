\* Streams of up to four frames and pieces of noise, cut anywhere; three letters
\* for names of up to two; coordinates of three bits.
CONSTANTS
  Base = 4
  Magic <- MCMagic
  MaxMessageSize = 3
  Payload <- MCPayload
  Noise <- MCNoise
  MaxItems = 4
  MaxRead = 9
  CharsetSize = 3
  CharValues = 4
  LengthValues = 4
  MinNameLen = 1
  MaxPackedLen = 2
  HalfRange = 4
  HpValues = 4
  MaxMapCells = 8
  Name <- MCName
  Line <- MCLine
  Foreign <- MCForeign
  Said <- MCSaid
  PlayerIdOf <- MCPlayerIdOf
  Uint64Of <- MCUint64Of
  SessionId <- MCSessionId
  Speaker <- MCSpeaker
  Dungeon <- MCDungeon
SPECIFICATION CodecsSpec
INVARIANTS
  DeliveredWhenWhole
  CodecsAgree
  LittleWaits
  NamesSurvive
  UnderstoodAsMeant
  DrawnAsItIs
\* The stream ends, and what is shown stays.
CHECK_DEADLOCK FALSE
