SPECIFICATION TreeSpec
CONSTANTS
  Pids = {q1, q2, q3}
  InitPid = InitPid
  Daemon = Daemon
  StopRounds = 1
  KillRounds = 1
  MaxBirths = 3
INVARIANTS JoinSeesEof
CHECK_DEADLOCK FALSE
