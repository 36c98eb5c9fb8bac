\* Safety, refinement and liveness.
CONSTANTS
  w1 = w1
  w2 = w2
  w3 = w3
  w4 = w4
  Workers <- MCWorkers
  Total <- MCTotal
  WindowSize <- MCWindowSize
SPECIFICATION FairSpec
INVARIANTS
  PermitConservation
  ChannelNeverFull
PROPERTIES
  ImplementsPool
  ShrinkRealized
  AcquireReturns
