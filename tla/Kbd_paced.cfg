SPECIFICATION FairSpec
CONSTANTS
  a = a
  b = b
  Keys = {a, b}
  Unknown = Unknown
  NUL = NUL
  Foreign = Foreign
  KeyLen <- Names
  MAX_INFO_LAST = 3
  Presses = {a, b}
  Paced = TRUE
  KeysWhileLoading = FALSE
  MayFail = {"proc_create"}
INVARIANTS
  HoldsTypedKeys
PROPERTIES
  KeysAreLogged
