SPECIFICATION Spec
CONSTANTS
    k = k  a1 = a1  a2 = a2  a3 = a3  b2 = b2  b3 = b3  b4 = b4  b5 = b5  x3 = x3
    Genesis = Genesis
    None = None
    Block <- MCBlock
    previous <- MCprevious
    block_num <- MCblock_num
    Bad <- MCBad
    Future <- MCFuture
    new_keys <- MCnew_keys
    MaxUndo = 3
INVARIANTS
    TypeOK
    LinkedExactly
    ChainConsistent
    ValidStaysApplicable
PROPERTIES
    ValidIsStable
    HeadKeptOrHigher
CHECK_DEADLOCK FALSE
