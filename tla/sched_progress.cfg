CONSTANTS
  s1 = s1  s2 = s2  s3 = s3  c1 = c1  c2 = c2  t1 = t1  t2 = t2
  w1 = w1  w2 = w2  b1 = b1  b2 = b2  r1 = r1  r2 = r2
  None = None  Saturated = Saturated  NoJob = NoJob
  Targets = {t1, t2}
  Rules = {r1, r2}
  Covers <- MCCovers
  WStart <- MCStart
  WEnd <- MCEnd
  Rank <- MCRank
  Fires <- MCFires
  TargetOf <- MCTargetOf
  InitRow <- MCRow
  Schedules = {s1, s2}
  Callers = {c1}
  Workers = {w1}
  Windows = {b1}
  InitWindows = {b1}
  Horizon = 2
  MaxSkips = 2
  Overhead = 1
  Unresolvable = {}
  MayEdit = FALSE
  MayStop = FALSE
  StoreFaults = FALSE
  MayHangUp = FALSE
SPECIFICATION FairSpec
PROPERTIES DueAdvances AdHocSettles SerialPerTarget
