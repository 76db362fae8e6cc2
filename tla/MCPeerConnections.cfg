CONSTANTS
  A = A
  B = B
  C = C
  ab = ab
  ba = ba
  cb = cb
  Nodes = {A, B, C}
  Conns = {ab, ba, cb}
  From <- MCFrom
  To <- MCTo
  Maximum <- MCMaximum
  Desired = 1
  Slow = {}
  Settings <- MCSettings
SPECIFICATION Spec
INVARIANTS
  AcceptedOnce
  WithinMaximum
PROPERTIES
  Settles
CHECK_DEADLOCK FALSE
