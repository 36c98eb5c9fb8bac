\* Three workers, two keys; the verification of the first candidate may hang.
CONSTANTS
  p1 = p1
  p2 = p2
  p3 = p3
  a1 = a1
  a2 = a2
  absent = absent
  nocall = nocall
  Callers <- MCCallers
  Candidates <- TwoPayloads
  Results <- MCResults
  Outcome <- AnyOutcome
  Calls <- MCCalls
  Hung <- FirstHangs
  Absent = absent
  NoCall = nocall
SPECIFICATION FairSpec
INVARIANTS
  SingleFlight
  ResultFitsCandidate
PROPERTIES
  ImplementsOnceMap
  OthersReturn
