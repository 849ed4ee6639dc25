CONSTANTS
  Config <- MCDnsConfig
  Bcast <- MCBcast
  Calls <- MCDnsCalls
  Sources <- MCSources
  DnsAnswers <- MCDnsAnswers
  NoIp = "0"
  Tid = {t1}
  WAIT_CHANGED = 1
  WAIT_POLL = 2
  Parts = {"route", "tty", "tap"}
SPECIFICATION FairSpec
PROPERTIES HostResolved LoopLives
