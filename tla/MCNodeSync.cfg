CONSTANTS
  p1 = p1
  p2 = p2
  a1 = a1
  a2 = a2
  a3 = a3
  b2 = b2
  b3 = b3
  None = None
  Peers = {p1, p2}
  Blocks = {a1, a2, a3, b2, b3}
  previous <- MCPrevious
  FirstHead <- MCFirstHead
  LaterHeads <- MCLaterHeads
  Bad = {b2}
  MaxUndo = 1
  Lacking = {p2}
  Leaving = {p2}
  Stored = {a1}
  Limit = 2
  MaxPerPeer = 1
  MaxAtOnce = 2
  MaxPrefetch = 1
SPECIFICATION Spec
INVARIANTS
  ActiveRequestsBacked
  HandedInOrder
  ListsLinked
PROPERTY SyncEnds
CHECK_DEADLOCK FALSE
