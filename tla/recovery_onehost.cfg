CONSTANTS
  NoOne = NoOne  OneHost = OneHost
  p1 = p1  p2 = p2  p3 = p3  s1 = s1  a1 = a1
  Procs = {p1, p2, p3}
  HostOf <- AllOneHost
  StaleAfter = 1
  Timely = TRUE
  MayCrash = TRUE
  StoreFaults = TRUE
  Scans = {s1, a1}
  AdHoc = {a1}
  MayRunUnlocked = TRUE
  MayTimeOut = TRUE
  MayLoseWrite = FALSE
SPECIFICATION RecSpec
SYMMETRY MCSymmetry
 
PROPERTY LostToTakeOver
