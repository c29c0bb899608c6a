CONSTANTS
  Events = {e1, e2}
  MaxTs = 7
  MaxNow = 5
  Months <- FirstMonths
  MonthOf <- TwoDayMonth
  EndOf <- TwoDayEnd
  MonthsAhead = 1
  Days = 1
  MayFail = TRUE
SPECIFICATION FairSpec
PROPERTIES RemovedIsExpired PromiseHolds ExpiredIsRemoved
CHECK_DEADLOCK FALSE
