SPECIFICATION Spec
CONSTANTS
  Runs = {r1}
  Clients = {c1}
  MaxLines = 9
  MaxExtras = 1
  MaxControls = 2
  MaxFaults = 1
  MaxOutages = 1
  Workers = {w1, w2}
  Pictures = {"x", "y"}
  Absent = Absent
  MaxIds = 3
  MaxArtifactFaults = 1
  Shells = {w1}
  Sources = {"s"}
  Versions = {1, 2}
  Contents = {"a", "b"}
  Offers <- MCOffers
  Expiring <- MCExpiring
  MaxCalls = 2
  MaxCatalogFaults = 1
  Calls = {w1, w2}
  Paths = {"f"}
  Old = "o"
  New = "n"
  MaxReadBytes = 1
  MaxInodes = 3
  MaxFileFaults = 1
INVARIANT AcceptedIsCached
CHECK_DEADLOCK FALSE
