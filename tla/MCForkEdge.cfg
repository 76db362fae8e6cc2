SPECIFICATION Spec
CONSTANTS
    k = k  a1 = a1  a2 = a2  b2 = b2  b3 = b3  b4 = b4  b5 = b5  g1 = g1  g2 = g2
    Genesis = Genesis
    None = None
    Block <- MCBlock
    previous <- MCprevious
    block_num <- MCblock_num
    Bad <- MCBad
    Future <- MCFuture
    new_keys <- MCnew_keys
    MaxUndo = 1
INVARIANTS
    NoDeadEnd
    UndoAvailable
PROPERTIES
    PushReturns
CHECK_DEADLOCK FALSE
