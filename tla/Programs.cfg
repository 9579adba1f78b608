SPECIFICATION Spec
CONSTANTS
  LastLetter = 6
  BUFF_SIZE = 4
  Names = {"a", "b"}
  MaxDepth = 3
  PathMax = 2
  MaxFiles = 4
  Trees <- MCTrees
  MaxRemoved = 2
  s1 = s1
  s2 = s2
  c1 = c1
  c2 = c2
  m1 = m1
  Servers = {s1, s2}
  Clients = {c1, c2}
  Messages = {m1}
  MaxQueue = 2
  NoFile = NoFile
  Stale = Stale
  NoMessage = NoMessage
INVARIANTS
  NameLeadsToServer
PROPERTIES
  EndsAsReported
  ImplementsTreeWalk
