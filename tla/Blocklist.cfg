CONSTANTS
  h1 = h1
  h2 = h2
  h3 = h3
  Hosts = {h1, h2, h3}
  Evidence <- SeenByTwo
  Calls = {c1, c2}
  IPs = {ip1}
  MayLose = TRUE
  MaxFlaps = 1
  Machines = {m1, m2, m3}
  Names = {n1, n2}
  Onboardings = {o1, o2}
  Prepared = {m1, m2}
  Nobody = Nobody
  MaxMishaps = 1
SPECIFICATION HostsSpec
INVARIANTS ExecutedHasRule ActiveHasConnected ImportsItsOwn
PROPERTIES ImplementsGate ConfirmAnswers InventoryConverges
CHECK_DEADLOCK FALSE
