CONSTANTS
  Keys = {k1, k2, k3}
  Nodes = {n1, n2, n3}
  Sizes = {0, 3}
  NULL = NULL
  Wild = Wild
  Ports = {"p1", "p2"}
  Foreign = "eth0"
  Subnet <- MCSubnet
  NoIp = "noip"
  DefaultPath <- MCDefaultPath
  Confs <- MCConfs
  Frames <- MCFrames
  Adds <- MCAdds
  Dels <- MCDels
  Restarts = TRUE
  MaxNow = 2
  Parts = {"list"}
SYMMETRY Symmetry
SPECIFICATION MCSpec
INVARIANTS ExpireSurvives
