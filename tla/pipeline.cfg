CONSTANTS
  u1 = u1  u2 = u2  d1 = d1  k1 = k1  k2 = k2  NoScan = NoScan
  Scans = {u1, u2, d1}
  Web = {u1, u2}
  Asks = {k1}
  NTools = 3
  Hard = {1}
  Probe = 2
  Skip <- MCSkip
  MayCancel = TRUE
  StoreFaults = FALSE
SPECIFICATION FairSpec
CHECK_DEADLOCK FALSE
INVARIANTS SlotIsScan  DiffAfterTools CompletedIsComplete
PROPERTIES FinalStays SlotFreed
