SPECIFICATION IdentitySpec
CONSTANTS
  CallIds = {"c1", "c2", "c3"}
  MaxRuns = 3
  MaxBatches = 2
  MaxDropOuts = 2
  Reuses = TRUE
INVARIANTS IdsNeverReused
CHECK_DEADLOCK FALSE
