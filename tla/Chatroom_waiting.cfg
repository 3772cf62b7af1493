SPECIFICATION Spec
CONSTANTS
  Clients = {c1, c2}
  NULL = NULL
  Slow = {}
  MaxFd = 6
  MaxSay = 1
  MaxJoin = 2
SYMMETRY Symmetry
CHECK_DEADLOCK FALSE
INVARIANTS ConnectedAreAccepted
