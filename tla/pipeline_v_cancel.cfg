CONSTANTS
  u1 = u1  u2 = u2  d1 = d1  k1 = k1  k2 = k2  NoScan = NoScan
  Scans = {d1}
  Web = {}
  Asks = {k1}
  NTools = 3
  Hard = {1}
  Probe = 2
  Skip <- MCSkip
  MayCancel = FALSE
  StoreFaults = FALSE
SPECIFICATION Spec
CHECK_DEADLOCK FALSE
PROPERTY CancelSticks
