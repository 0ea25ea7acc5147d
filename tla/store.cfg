CONSTANTS
  t1 = t1  i1 = i1  i2 = i2  n1 = n1  n2 = n2  m1 = m1  m2 = m2  m3 = m3  k1 = k1  k2 = k2
  r1 = r1  r2 = r2  h1 = h1  h2 = h2
  None = None
  Targets = {t1}
  Ids = {i1, i2}
  Names = {n1, n2}
  Templates = {m1, m2, m3}
  System = {m2}
  Blackouts = {k1, k2}
  Rules = {r1, r2}
  Clashes <- MCClashes
  BootRule = r1
  Requests = {h1, h2}
  Kinds <- MCKinds
  InitRows <- MCRows
  InitTemplates <- MCTemplates
  InitBlackouts <- MCBlackouts
  NewRows <- MCNew
  MaxFaults = 1
SPECIFICATION StoreLiveSpec
CHECK_DEADLOCK FALSE
INVARIANT RefsHold
PROPERTIES DeletedStays RunsKeepEdits NextSettles
