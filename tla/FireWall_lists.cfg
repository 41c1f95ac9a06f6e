CONSTANTS
  a = a
  b = b
  c = c
  u = u
  v = v
  Apps = {a, b, c}
  School = a
  Uids = {u, v}
  Uid <- Shared
  MaxPending = 2
SPECIFICATION Spec
CHECK_DEADLOCK FALSE
INVARIANTS
  OnlyLockedDenied
  Exact
  SchoolFree
PROPERTIES
  Settles
