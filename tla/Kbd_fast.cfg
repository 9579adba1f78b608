SPECIFICATION Spec
CONSTANTS
  a = a
  b = b
  Keys = {a, b}
  Unknown = Unknown
  NUL = NUL
  Foreign = Foreign
  KeyLen <- Names
  MAX_INFO_LAST = 3
  Presses = {b, Unknown}
  Paced = FALSE
  KeysWhileLoading = TRUE
  MayFail = {"request_irq", "create_workqueue"}
INVARIANTS
  TypeOK
  NothingLeftBehind
  NameFits
  TextReachesCursor
