CONSTANTS
  fleet = fleet
  host = host
  past = past
  Jobs = {past, fleet, host}
  Past = {past}
  Stored <- PastRows
  k1 = k1
  none = none
  users = users
  detection = detection
  containers = containers
  Pillars <- EveryPillar
  Plan <- FleetAndHost
  Images = {containers}
  Upserted = {detection}
  Unique = {users}
  Sentinel = {users}
  Keys = {k1, k2}
  Running = {k1}
  Placeholder = none
  All = all
  Stale = 1
SPECIFICATION FairSpec
INVARIANTS TypeOK RowsAreWholeScans ScannedIsRemembered
PROPERTIES RefusalEnds ScanEnds
CHECK_DEADLOCK FALSE
