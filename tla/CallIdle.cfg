CONSTANTS
  Sizes = {0, 1, 4}
  Existing = {0, 2}
  readlen = 2
  Slow = TRUE
  MayCancel = TRUE
  MaxErrors = 1
  Callers = {"a1", "a2"}
  Name <- MCName
  Known <- MCKnown
  Changed = {}
  Guest = "g"
  NoName = "-"
  AddUser = TRUE
  UserAdd = FALSE
  Associate = TRUE
  RootLogin = FALSE
  start_uid = 2
  MaxUid = 4
  SystemLines <- MCSystemLines
  HomeLines <- MCHomeLines
  PwTypes = {"clear", "md5", "sys", "unix"}
  MaxAdmin = 1
  Parts = {"timed"}
SPECIFICATION SessionsSpec
INVARIANTS IdleOnly
CHECK_DEADLOCK FALSE
