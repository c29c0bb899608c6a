CONSTANTS
  Events = {e1, e2}
  Watchers = {s1, s2}
  Never = never
  Lookback = 1
  Limit = 2
  MaxTime = 2
  MaxFaults = 2
SPECIFICATION FairWatchSpec
INVARIANT TriagesAreBounded
PROPERTY ReadIsTriaged
