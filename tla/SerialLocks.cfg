CONSTANTS
  Programs = {"k1", "m"}
  ByInit = {}
  MaxStarts = 2
  NoPid = 0
  Kind <- MCKind
  Uses <- MCUses
  Parts = {"locks"}
SPECIFICATION SerialSpec
INVARIANT LockedWhileRunning
CHECK_DEADLOCK FALSE
