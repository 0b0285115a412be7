SPECIFICATION Spec
CONSTANTS
  Procs = {p1, p2}
  Sessions = {s1}
  None = none
  Dead = dead
  MaxDirs = 2
  MaxRequests = 5
  MaxCrashes = 2
  EntryTypes = {"user", "assistant", "thinking_level_change", "compaction", "branch_summary", "session_info", "label"}
  MaxEntries = 4
  Commands = {c1, c2}
  Backends = {b1, b2}
  NoOne = NoOne
  MaxIssued = 2
  MaxSpawns = 2
  MaxBreaks = 1
INVARIANTS DirectoriesSound ImportFaithful
PROPERTIES PendingDeleteEnds CallsReturn
CHECK_DEADLOCK FALSE
