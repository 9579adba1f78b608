SPECIFICATION Spec
CONSTANTS
  p1 = p1
  p2 = p2
  A = A
  B = B
  Procs = {p1, p2}
  Letters = {A, B}
  NUL = NUL
  COOKIE_BUF_SIZE = 4
  TmpSize = 6
  MaxCount = 2
  Exclusive = FALSE
SYMMETRY Symmetry
INVARIANTS
  AcknowledgedCookiesKept
