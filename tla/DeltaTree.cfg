SPECIFICATION FairSpec
CONSTANTS
  a = a
  b = b
  c = c
  d = d
  Ids <- MCIds
  Packs <- MCPacks
  ThreadLimit = 2
  MaxFaults = 1
CHECK_DEADLOCK FALSE
INVARIANTS Exclusive AllInspected DrainedIsQuiet UnresolvedIsTrue
PROPERTIES BaseFirst TraversalEnds
