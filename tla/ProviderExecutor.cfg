SPECIFICATION Spec
CONSTANTS
  Families = {"chat", "messages", "responses", "codex", "google", "converse", "images", "faux"}
  Slots = {t1, t2}
  Ids = {i1, i2}
  Frags = {x, y}
  Closing = x
  None = None
  MaxFrames = 6
  MaxAttempts = 2
  CR = CR
  LF = LF
  Data = Data
  Id = Id
  Other = {}
  EventLimit = 4
  MaxBytes = 6
  Pids = {q1, q2, q3}
  InitPid = InitPid
  Daemon = Daemon
  StopRounds = 1
  KillRounds = 1
  MaxBirths = 4
  StreamLimit = 4
  TotalLimit = 6
  Chunks = {1, 3}
  MaxOutput = 7
  Hands = {i1, i2}
  Keys = {"k1", "shift"}
  Modifiers = {"shift", "ctrl"}
  Shift = "shift"
  MaxRepeats = 1
  MaxInteractions = 2
  MaxInputFaults = 2
INVARIANTS CommittedAsSent PiecesDontMatter GroupSignalled OutputAccounted NothingStaysPressed
CHECK_DEADLOCK FALSE
SYMMETRY Symm
