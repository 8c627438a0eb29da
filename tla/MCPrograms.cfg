\* One error of the timer, one session; documents of up to two members; texts of
\* up to four characters; three keys and three polls.
CONSTANTS
  ShortBits = 16
  LongBits = 24
  SignedBits = 30
  Spelling <- MCSpelling
  LogDir <- MCLogDir
  LogLevel = {"warn", "error", "debug"}
  MaxErrors = 1
  kKeys <- MCkKeys
  Typed <- MCTyped
  MaxPolls = 3
  Calls <- MCCalls
SPECIFICATION Spec
INVARIANTS
  SettingsAreLayered
  IoOutlivesItsUsers
  LeavesInOrder
  InputIsHanded
PROPERTIES
  TicksKeepComing
\* A process ends.
CHECK_DEADLOCK FALSE
