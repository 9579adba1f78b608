SPECIFICATION Spec
CONSTANTS
  c1 = c1
  c2 = c2
  c3 = c3
  c4 = c4
  Clients = {c1, c2, c3, c4}
  NoClient = NoClient
  MAX_COUNT_SOCK = 2
  MaxFd = 6
  ListenArg = 1
  MAX_LEN_BUF = 2
  Words <- OneDigit
  MaxStream = 2
  Pacers <- Others
  Cut = {c1}
  Resets = TRUE
SYMMETRY Symmetry
INVARIANTS
  TypeOK
  NeverBlocks
  SlotsNameOpenConnections
  FullOnlyByTurnedAway
PROPERTIES
  PacedWordsAnswered
  ServesAsPool
