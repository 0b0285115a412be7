SPECIFICATION Spec
CONSTANTS
  Runs = {r1, r2}
  Calls = {c1, c2}
  NoRun = NoRun
  NoCall = NoCall
  MaxTurns = 2
  MaxAttempts = 1
  MaxCrashes = 2
  MaxFaults = 0
  EventTaskFails = FALSE
SYMMETRY Symmetry
INVARIANTS StartNeedsConsent CallsSettled
PROPERTIES CancellationHolds EndingIsLast KeepsContract
