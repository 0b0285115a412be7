SPECIFICATION Spec
CONSTANTS
  Procs = {p1, p2}
  Providers = {a, b}
  Urls = {u, v}
  None = None
  MaxIds = 2
  MaxRequests = 4
  MaxCrashes = 1
  Clients = {p1, p2}
  Bodies = {x, y}
  ToolSets = {{}, {"t"}}
  Nobody = Nobody
  MaxProfiles = 1
  MaxRevision = 3
  MaxCalls = 4
  MaxKills = 1
  Items = {i1, i2, i3}
  NoItem = NoItem
  MaxQueued = 2
  MaxTurns = 3
  MaxFaults = 1
  Daemons = {d1}
  NoDaemon = NoDaemon
  MaxEvents = 7
  MaxLost = 2
  MaxDeaths = 2
  CallIds = {"c1", "c2", "c3"}
  MaxRuns = 3
  MaxBatches = 2
  MaxDropOuts = 2
  Reuses = FALSE
  Commands = {p1, p2}
  Backends = {u, v}
  NoOne = NoOne
  MaxIssued = 3
  MaxSpawns = 2
  MaxBreaks = 1
  Specs <- MCSpecs
  Legacy <- MCLegacy
  Manifest <- MCManifest
  Environments <- MCEnvironments
  CustomIds = {"compatible"}
  Connections <- MCConnections
  Relays = {"relay-e"}
  RelayRoutes <- MCRelayRoutes
  NoProfile = NoProfile
  MaxRebinds = 2
  MaxToolCalls = 1
INVARIANTS ConnectionsOwn StoreKeepsLast DatabaseSound OffersHold EffectsGated
INVARIANTS QueuesKeepOrder OnlyMissedRepeat NeverRefused AnswersCurrent
PROPERTIES SteeringFirst
CHECK_DEADLOCK FALSE
SYMMETRY Symm
