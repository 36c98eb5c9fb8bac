\* Three Saves, two in one process; two records are kept, of any age; locks
\* may outlive their process, and one waiter at a time reclaims.
CONSTANTS
  s1 = s1
  s2 = s2
  s3 = s3
  A = A
  B = B
  C = C
  NoLock = NoLock
  Savers <- ThreeSavers
  Pids <- TwoPids
  PidOf <- Shared
  MaxRecords = 2
  MaxAge = 0
  MaxClock = 1
  LocksAge = TRUE
SPECIFICATION FairSpec
CONSTRAINT Calm
ACTION_CONSTRAINT QuietTicks
CHECK_DEADLOCK FALSE
INVARIANTS
  TypeOK
  LockExclusive
  ResultsCurrent
  OutcomeHonest
PROPERTIES
  AppendsOnly
  SaveReturns
  AbandonedReclaimed
