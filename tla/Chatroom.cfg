SPECIFICATION Spec
CONSTANTS
  Clients = {c1, c2, c3}
  NULL = NULL
  Slow = {c3}
  MaxFd = 6
  MaxSay = 2
  MaxJoin = 4
SYMMETRY Symmetry
CHECK_DEADLOCK FALSE
INVARIANTS EveryoneHears UnreadHasEvent
