SPECIFICATION Spec
CONSTANTS
  Procs = {p1, p2, p3}
  Tokens = {t1, t2, t3, t4}
  NoToken = NoToken
  NoProc = NoProc
  Advisory = TRUE
  GraceCovers = FALSE
SYMMETRY Symmetry
INVARIANTS TakeoverSparesLive
PROPERTIES ImplementsLock
