SPECIFICATION Spec
CONSTANTS
    n1 = n1  n2 = n2  k1 = k1  k2 = k2  k3 = k3
    NullKey = NullKey
    None = None
    Name = {n1, n2}
    Key = {k1, k2, k3, NullKey}
    MaxId = 2
    MaxVotes = 1
    MaxTime = 3
    MaxBlocks = 2
    MaxOps = 2
INVARIANTS
    IndexesExact
    KeysFound
PROPERTIES
    AccountsUndone
CHECK_DEADLOCK FALSE
SYMMETRY MCSymmetry
