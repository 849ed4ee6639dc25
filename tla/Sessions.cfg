CONSTANTS
  Sizes = {0, 1, 4}
  Existing = {0, 2}
  readlen = 2
  Slow = TRUE
  MayCancel = TRUE
  MaxErrors = 1
  Callers = {"a1", "a2"}
  Name <- MCName
  Known <- MCKnown
  Changed = {}
  Guest = "g"
  NoName = "-"
  AddUser = TRUE
  UserAdd = FALSE
  Associate = TRUE
  RootLogin = FALSE
  start_uid = 2
  MaxUid = 4
  SystemLines <- MCSystemLines
  HomeLines <- MCHomeLines
  PwTypes = {"clear", "md5", "sys", "unix"}
  MaxAdmin = 1
  Parts = {"yapp", "calm", "bin", "term", "timed", "axspawn", "login", "useradd", "huffman", "ax25io",
           "axwrapper", "user_call", "rose", "rosesigned", "ax25d", "ax25mond", "rxecho", "ttylink", "callsign", "ports", "ipdconf"}
SPECIFICATION SessionsSpec
INVARIANTS YappSafe BinExact     Conversation RoseKept PortsServed
            EchoRight ConfigRight
PROPERTIES  SessionsGoOn
CHECK_DEADLOCK FALSE
