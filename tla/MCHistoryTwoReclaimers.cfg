\* Two waiters meet one abandoned lock (a violation is expected).
CONSTANTS
  s1 = s1
  s2 = s2
  s3 = s3
  A = A
  B = B
  C = C
  NoLock = NoLock
  Savers <- ThreeSavers
  Pids <- ThreePids
  PidOf <- OneEach3
  MaxRecords = 0
  MaxAge = 0
  MaxClock = 0
  LocksAge = TRUE
SPECIFICATION Spec
CONSTRAINT NoSlowSave
CHECK_DEADLOCK FALSE
INVARIANTS
  LockExclusive
