\* Pacing and backlog of three callers.
CONSTANTS
  p1 = p1
  p2 = p2
  p3 = p3
  Callers <- MCCallers
  Requested <- MCRequested
  MinInterval = 2
  MaxInterval = 4
SPECIFICATION FairSpec
INVARIANTS
  SlotsSpaced
  BacklogIsUsed
PROPERTIES
  WaitReturns
