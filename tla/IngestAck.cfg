CONSTANTS
  a1 = a1
  a2 = a2
  ip1 = ip1
  NoSource = NoSource
  r1 = r1
  o1 = o1
  Alerts <- SingleAlert
  Keys <- KeysOfAlerts
  Refusable = {}
  MaxAttempts = 2
  CommitOrders = {TRUE}
  MayFail = TRUE
  MaxOutages = 0
  Window = 2
  Stale = 3
  MaxEntries = 2
  MaxTime = 3
SPECIFICATION Spec
INVARIANT AcknowledgedIsCommitted
CHECK_DEADLOCK FALSE
