SPECIFICATION FairSpec
CONSTANTS
  c1 = c1
  c2 = c2
  c3 = c3
  Clients = {c1, c2, c3}
  NoClient = NoClient
  MAX_COUNT_SOCK = 2
  MaxFd = 5
  ListenArg = 1
  MAX_LEN_BUF = 2
  Words <- OneDigit
  MaxStream = 3
  Pacers <- Others
  Cut = {c1}
  Resets = TRUE
PROPERTIES
  LoneWordAnswered
  WordsAreRead
  SlotsAreReleased
  QueueIsServed
