CONSTANTS
  t1 = t1  t2 = t2  s1 = s1  s2 = s2  s3 = s3  r1 = r1
  a1 = a1  a2 = a2  b1 = b1  f1 = f1  f2 = f2  g1 = g1  k1 = k1  NoScan = NoScan
  Scans = {s1, r1}
  Targets = {t1, t2}
  Target <- MCTarget
  Assets = {a1, b1}
  OwnerOf <- MCOwner
  Findings = {f1, g1}
  On <- MCOn
  Edits = {k1}
  MayReopen = FALSE
  Serial = TRUE
  MayShareSecond = FALSE
  MaxNow = 3
  h0 = h0  h1 = h1  h2 = h2  i1 = i1  i2 = i2  p1 = p1  p2 = p2  x1 = x1  m1 = m1  w1 = w1  w2 = w2
  Hosts = {h0, h1, h2}
  Root = h0
  Addresses = {i1, i2}
  Addr <- MCAddr
  Elsewhere = Elsewhere
  NoHost = NoHost
  MaxUrls = 2
  Writers = {w1, w2}
  Lines = 2
  Capacity = 2
  BatchSize = 2
  PageLimit = 2
  Watched = w1
  LastInstant = 2
  MaxLength = 2
  MaxJitter = 1
  LookBack = 2
  MaxTries = 2
  Ahead = 2
  Day = 4
  Never = Never
  Saturated = Saturated
  Boots = {p1, p2}
  Latest = 3
  Repeatable = {2}
  Rebuilds = {3}
  Sites = {x1}
  Builtins = {m1}
SPECIFICATION DetSpec
CHECK_DEADLOCK FALSE
INVARIANT ResolvedAreKept
