SPECIFICATION Spec
CONSTANTS
  a = a
  b = b
  Keys = {a, b}
  Unknown = Unknown
  NUL = NUL
  Foreign = Foreign
  KeyLen <- Names
  MAX_INFO_LAST = 3
  Presses = {a, b}
  Paced = TRUE
  KeysWhileLoading = TRUE
  MayFail = {}
INVARIANTS
  HandlerHasQueue
