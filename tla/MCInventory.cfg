CONSTANTS
  A = A
  B = B
  C = C
  t = t
  b = b
  None = None
  Nodes = {A, B, C}
  Transactions = {t}
  Blocks = {b}
  CacheBlocks = 1
  InventoryLimit = 3
  Situations <- MCSituations
SPECIFICATION SpreadSpec
INVARIANTS
  AnsweredOnce
PROPERTY OfferedHandled
CHECK_DEADLOCK FALSE
