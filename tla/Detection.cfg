CONSTANTS
  ip1 = ip1
  agent1 = agent1
  agent2 = agent2
  NoSource = NoSource
  Events = {e1, e2, e3}
  RawAlerts <- AlertsExplored
  Lags = {0, 2}
  WindowSeconds = 1
  MaxWindowEvents = 3
  MinAttempts = 2
  Cooldown = 1
  BootAges = {1}
  MaxChanges = 1
  MaxTime = 2
SPECIFICATION Spec
SYMMETRY EventSymmetry
INVARIANTS TypeOK TelegramsApart
PROPERTIES BurstIsEscalated FloorIsDispatched
CHECK_DEADLOCK FALSE
