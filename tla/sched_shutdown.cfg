CONSTANTS
  s1 = s1  s2 = s2  s3 = s3  c1 = c1  c2 = c2  t1 = t1  t2 = t2
  w1 = w1  w2 = w2  b1 = b1  b2 = b2  r1 = r1  r2 = r2
  None = None  Saturated = Saturated  NoJob = NoJob
  Targets = {t1, t2}
  Rules = {r1, r2}
  Covers <- MCCovers
  WStart <- MCStartNow
  WEnd <- MCEnd
  Rank <- MCRank
  Fires <- MCFires
  TargetOf <- MCTargetOf
  InitRow <- MCRow
  Schedules = {s1}
  Callers = {c1}
  Workers = {w1}
  Windows = {b1}
  InitWindows = {}
  Horizon = 0
  MaxSkips = 1
  Overhead = 1
  Unresolvable = {}
  MayEdit = TRUE
  MayStop = TRUE
  StoreFaults = TRUE
  MayHangUp = TRUE
SPECIFICATION FairSpec
INVARIANTS StoppedIsQuiet
PROPERTIES AdHocFinal ShutdownEnds
CHECK_DEADLOCK FALSE
