SPECIFICATION Spec
CONSTANTS
  p1 = p1
  p2 = p2
  A = A
  B = B
  Procs = {p1, p2}
  Letters = {A, B}
  NUL = NUL
  COOKIE_BUF_SIZE = 5
  TmpSize = 4
  MaxCount = 4
  Exclusive = TRUE
SYMMETRY Symmetry
INVARIANTS
  TypeOK
  IndicesAtBounds
PROPERTIES
  DiesOnlyAtTheEdges
  ImplementsRing
