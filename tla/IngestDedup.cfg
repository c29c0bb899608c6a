CONSTANTS
  Keys = {k1, k2, k3, k4}
  Window = 2
  Stale = 3
  MaxEntries = 3
  MaxTime = 8
SPECIFICATION DedupSpec
SYMMETRY Symmetry
INVARIANTS RemembersWindow CapHolds
