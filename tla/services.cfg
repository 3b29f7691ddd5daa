\* Every other component: requests, tabs, publishers or processes in small numbers, each
\* component with its budget of requests, so a behaviour ends when it is spent.
CONSTANTS
  Writers = {w1, w2}
  PathOrder <- MCPathOrder
  Locations <- MCLocations
  Moves <- MCMoves
  Uploads <- MCUploads
  Contents = {"c1", "c2"}
  FirstTree <- MCFirstTree
  MaxRequests = 3
  Names = {p, q}
  Configs = {a, b}
  Editors = {s1, s2}
  MaxEdits = 3
  Visits = {v1, v2, v3}
  Usernames = {ann}
  Preparers = {r1, r2}
  Plans = {cpu, gpu}
  Limit = 1
  Variables = {lr}
  Secrets = {token}
  MaxEvents = 4
  Publishers = {p1, p2}
  PageSize = 1
  MaxPublished = 3
  Commands = 3
  MaxInterrupts = 2
  Launches = {x1, x2}
  Readers = {c1, c2}
  MaxLines = 1
  Tabs = {t1, t2}
  People = {ann, ben}
  MaxIds = 3
  MaxVisits = 5
  None = None
SPECIFICATION ServicesSpec
CHECK_DEADLOCK FALSE
INVARIANTS
  ServicesTypeOK
  SequencesContiguous
  RowsHaveContent
  NamesUnique
  DefaultFollowsConfigurations
  OneAccountOneWorkspace
  RequestsUseTheirAccount
  JobEnvironmentComplete
  ExcessIsSwitched
  FeedSkipsNothing
  NoOrphans
  RefusedOnlyIfDisturbed
PROPERTIES
  RestoreGivesVersion
  TreeRequestsEnd
  DevStops
  SlotIsFreed
