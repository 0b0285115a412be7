SPECIFICATION LiveSpec
CONSTANTS
  Runs = {r1}
  Calls = {c1, c2}
  NoRun = NoRun
  NoCall = NoCall
  MaxTurns = 2
  MaxAttempts = 2
  MaxCrashes = 1
  MaxFaults = 1
  EventTaskFails = TRUE
INVARIANTS ConcludedOnce HonestOutcome
PROPERTIES RunEnds
