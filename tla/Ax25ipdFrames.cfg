CONSTANTS
  MAX_FRAME = 9
  SEND_RETRIES = 1
  PTABLE_SIZE = 1
  Params <- MCParams
  Payloads <- MCPayloads
  MaxFrames = 2
  MaxLine = 9
  MaxNoise = 0
  Gateway <- MCGateway
  Nowhere = "none"
  MyCalls <- MCMyCalls
  Digi = {"g1", "g2"}
  Routes <- MCRoutes
  Bcast = {"QST"}
  Frames <- MCFrames
  MAX_DIGIS = 2
  MaxNet = 2
  Parts = {"kiss", "noise", "process"}
SPECIFICATION FramesSpec
INVARIANTS InsideBuffers LineFaithful HonestTrail
 
CHECK_DEADLOCK FALSE
