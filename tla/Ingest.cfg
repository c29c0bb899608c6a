CONSTANTS
  a1 = a1
  a2 = a2
  ip1 = ip1
  NoSource = NoSource
  r1 = r1
  o1 = o1
  Alerts <- TwinAlerts
  Keys <- KeysOfAlerts
  Refusable <- OneOfTwins
  MaxAttempts = 2
  CommitOrders = {TRUE, FALSE}
  MayFail = TRUE
  MaxOutages = 1
  Window = 1
  Stale = 1
  MaxEntries = 1
  MaxTime = 1
SPECIFICATION FairSpec
INVARIANTS ProcessedIsCommitted RowsApart AcknowledgedUnlessFault
PROPERTY HookTerminates
CHECK_DEADLOCK FALSE
