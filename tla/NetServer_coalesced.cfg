SPECIFICATION Spec
CONSTANTS
  c1 = c1
  c2 = c2
  Clients = {c1, c2}
  NoClient = NoClient
  MAX_COUNT_SOCK = 2
  MaxFd = 5
  ListenArg = 1
  MAX_LEN_BUF = 6
  Words <- Mixed
  MaxStream = 6
  Pacers <- Others
  Cut = {}
  Resets = FALSE
SYMMETRY Symmetry
PROPERTIES
  EachWordAnswered
