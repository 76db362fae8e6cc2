CONSTANTS
  n1 = n1
  n2 = n2
  r = r
  contact = contact
  imported = imported
  Names = {n1, n2, r}
  Registered = {r}
  owner_key <- MCOwnerKey
  active_key <- MCActiveKey
  Contacts <- MCContacts
  Imports <- MCImports
  Passwords = {p1, p2}
  MaxDbCalls = 4
SYMMETRY MCSymmetry
SPECIFICATION DbSpec
INVARIANTS
  IndexesFresh
  ReopensSame
  KeysReadable
  NotReissued
PROPERTY
  KeysKept
CHECK_DEADLOCK FALSE
