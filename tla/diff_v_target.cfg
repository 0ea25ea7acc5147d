CONSTANTS
  t1 = t1  t2 = t2  s1 = s1  s2 = s2  s3 = s3  r1 = r1
  a1 = a1  a2 = a2  b1 = b1  f1 = f1  f2 = f2  g1 = g1  k1 = k1  NoScan = NoScan
  Scans = {s1, r1}
  Targets = {t1, t2}
  Target <- MCTarget
  Assets = {a1, b1}
  OwnerOf <- MCOwner
  Findings = {f1, g1}
  On <- MCOn
  Edits = {}
  MayReopen = FALSE
  Serial = TRUE
  MayShareSecond = FALSE
  MaxNow = 3
SPECIFICATION Spec
CHECK_DEADLOCK FALSE
INVARIANT ResolvesItsOwn
