CONSTANTS
  ip1 = ip1
  ip2 = ip2
  IPs <- Addresses
  SeedFile <- OneSeed
  Calls = {c1}
  MayFail = TRUE
  MaxIds = 4
  MaxRequests = 1
  MaxRestarts = 1
SPECIFICATION FairSpec
INVARIANT CacheWasAsked
PROPERTIES ImplementsGate CacheConverges
CHECK_DEADLOCK FALSE
