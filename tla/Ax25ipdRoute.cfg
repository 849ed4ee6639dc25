CONSTANTS
  Config <- MCTreeConfig
  Bcast <- MCBcast
  Calls <- MCTreeCalls
  Sources <- MCSources
  DnsAnswers <- MCDnsAnswers
  NoIp = "0"
  Tid = {t1, t2}
  WAIT_CHANGED = 1
  WAIT_POLL = 2
  Parts = {"route", "dns"}
SYMMETRY Symmetry
SPECIFICATION LoopSpec
INVARIANTS TypeOK OneDnsThread ReturnPathFound ReturnPathsAreExtra
PROPERTIES PermanentKept
