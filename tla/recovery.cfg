CONSTANTS
  NoOne = NoOne  OneHost = OneHost
  p1 = p1  p2 = p2  p3 = p3  s1 = s1  a1 = a1
  Procs = {p1, p2}
  HostOf <- EachItsHost
  StaleAfter = 1
  Timely = TRUE
  MayCrash = TRUE
  StoreFaults = TRUE
  Scans = {s1, a1}
  AdHoc = {a1}
  MayRunUnlocked = FALSE
  MayTimeOut = FALSE
  MayLoseWrite = TRUE
  Stale = 3
  Probes = 4
  Rate = 3
  RetryCap = 1
  Window = 1
  Floor = 1
SPECIFICATION ProcLiveSpec
INVARIANTS ProcTypeOK  NoZombies
PROPERTIES DeadHolderReplaced LiveScansKept FinalStays RunReturns RunnerEnds
CHECK_DEADLOCK FALSE
