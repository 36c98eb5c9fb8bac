\* Verdicts, coverage, report and termination of a small scan.
CONSTANTS
  w1 = w1
  w2 = w2
  f1 = f1
  f2 = f2
  Unset = Unset
  Workers <- MCWorkers
  Jobs <- FourJobs
  MaxJobs = 3
  IdorCells <- MCIdor
  Shows <- MCShows
  HasBudget = TRUE
  DefaultMaxActions = 2
SPECIFICATION FairSpec
CHECK_DEADLOCK FALSE
INVARIANTS
  CoverageIsStrongest
  VerdictsJustified
  VerifiedIsReported
  CompleteUnlessStopped
  RecommendsMostUrgent
PROPERTIES
  NoNewProbes
  ScanEnds
