\* Saves that wait for the lock, and a cut to two records (a violation is
\* expected).
CONSTANTS
  s1 = s1
  s2 = s2
  s3 = s3
  A = A
  B = B
  C = C
  NoLock = NoLock
  Savers <- ThreeSavers
  Pids <- TwoPids
  PidOf <- Shared
  MaxRecords = 2
  MaxAge = 1
  MaxClock = 2
  LocksAge = FALSE
SPECIFICATION Spec
SYMMETRY Goroutines23
CHECK_DEADLOCK FALSE
PROPERTIES
  NeverDropsNewer
