CONSTANTS
  Dst = {d1, d2, d3}
  NoDst = NoDst
  Hop = {n1, n2}
  RCacheSize = 2
  RCacheExpiry = 1
  Hysteresis = 1
  HopCounts = {1, 2}
  Metrics = {0, 2}
  ClockMod = 4
SYMMETRY Symmetry
SPECIFICATION Spec
INVARIANTS TypeOK OneEntryPerDst LiveIsRecent
