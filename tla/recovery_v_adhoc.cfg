CONSTANTS
  NoOne = NoOne  OneHost = OneHost
  p1 = p1  p2 = p2  p3 = p3  s1 = s1  a1 = a1
  Procs = {p1, p2}
  HostOf <- EachItsHost
  StaleAfter = 1
  Timely = TRUE
  MayCrash = TRUE
  StoreFaults = FALSE
  Scans = {s1, a1}
  AdHoc = {a1}
  MayRunUnlocked = FALSE
  MayTimeOut = FALSE
  MayLoseWrite = FALSE
SPECIFICATION RecSpec
PROPERTY AdHocReaped
