CONSTANTS
  a1 = a1
  a2 = a2
  b2 = b2
  b3 = b3
  Root = Root
  Blocks = {a1, a2, b2, b3}
  Parent <- MCParent
  Deposits = {a2, b2}
  Timeouts = {1, 9}
  Ranges <- MCRanges
  MaxYoung = 1
  MaxTime = 2
  MaxCalls = 4
SPECIFICATION Spec
INVARIANTS
  MissedOnlyIf
  DelegateLoopRuns
CHECK_DEADLOCK FALSE
PROPERTIES
  LocksAgain
  CatchesUp
