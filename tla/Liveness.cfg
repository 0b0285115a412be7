SPECIFICATION LiveParts
CONSTANTS
  Procs = {p1, p2}
  Tokens = {t1, t2, t3}
  NoToken = NoToken
  NoProc = NoProc
  Advisory = FALSE
  GraceCovers = TRUE
  Terminals = {t1}
  Capacity = 2
  MaxTerminals = 1
  Retention = 1
  EventBytes = 2
  MaxBytes = 2
  MaxAttaches = 2
  InputItems = 1
INVARIANTS EventsInOrder
PROPERTIES CloseEnds DeadClaimReclaimed
CHECK_DEADLOCK FALSE
