CONSTANTS
  Nodes = {"a", "b", "c", "g"}
  Neighbours <- MCNeighbours
  Hops <- MCHops
  Dests <- MCDests
  Leavers = {"g"}
  BadMnemonics = {}
  Compliant = {}
  default_qual = 64
  worst_qual = 4
  minimum_obs = 1
  obs_init = 2
  PerPacket = 1
  MaxChildren = 1
  Routers = {"a", "b", "c"}
  Dest <- MCDest
  RipHops <- MCRipHops
  Own <- MCOwn
  MaxEntries = 2
  RIP98_INFINITY = 4
  MaxTrouble = 1
  Parts = {"netrom", "line", "rip98", "mheard"}
SPECIFICATION RoutingSpec
INVARIANTS  HonestMetric HeardRight
PROPERTIES  RipLearned
CHECK_DEADLOCK FALSE
