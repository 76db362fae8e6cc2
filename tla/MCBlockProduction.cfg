CONSTANTS
  m = m
  o = o
  p = p
  Delegates = {m, o, p}
  Mine = {m}
  Orders <- MCOrders
  Interval = 2
  Offsets <- MCOffsets
  MaxTime = 8
  MaxSlot = 4
  MaxBlocks = 4
  Rekeying = {m}
  MaxCorrections = 1
  MaxLocks = 1
SPECIFICATION Spec
INVARIANTS
  OneBlockPerSlot
  OwnBlockAccepted
  SlotsAccounted
CHECK_DEADLOCK FALSE
