CONSTANTS
  Programs = {"k1", "k2", "n"}
  ByInit = {"n"}
  MaxStarts = 4
  NoPid = 0
  Kind <- MCKind
  Uses <- MCUses
  Parts = {"mkiss", "kissnetd", "topty", "tonet", "m6pack", "nrsdrv", "locks"}
SPECIFICATION SerialSpec
INVARIANTS   PacketsExact AttachedOnce
PROPERTIES IdleReopens
CHECK_DEADLOCK FALSE
