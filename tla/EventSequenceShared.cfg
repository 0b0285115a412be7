SPECIFICATION SequenceSpec
CONSTANTS
  Daemons = {d1, d2}
  NoDaemon = NoDaemon
  MaxEvents = 7
  MaxLost = 0
  MaxDeaths = 0
INVARIANTS SeqIncreasing
CHECK_DEADLOCK FALSE
