\* A GET and a POST candidate share a key (a violation is expected).
CONSTANTS
  p1 = p1
  p2 = p2
  p3 = p3
  a1 = a1
  a2 = a2
  absent = absent
  nocall = nocall
  Callers <- MCCallers
  Candidates <- TwoMethods
  Results <- MCResults
  Outcome <- ByMethod
  Calls <- MCCalls
  Hung <- NoneHangs
  Absent = absent
  NoCall = nocall
SPECIFICATION Spec
INVARIANTS
  ResultFitsCandidate
