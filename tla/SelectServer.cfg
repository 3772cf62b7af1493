SPECIFICATION FairSpec
CONSTANTS
  Clients = {c1, c2, c3}
  NULL = NULL
  MaxFd = 5
  MaxUnread = 2
CHECK_DEADLOCK FALSE
INVARIANTS OpenIsServed NeverBlocksInRead NothingSkipped
PROPERTIES Served
