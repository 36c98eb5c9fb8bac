------------------------------ MODULE Coverage ------------------------------
(***************************************************************************)
(* The coverage tracker, pkg/coverage/coverage.go: one state per cell      *)
(* (endpoint, parameter, category).  A tracker is a function from cells to *)
(* states; a cell that was not seeded is not in its domain.                *)
(***************************************************************************)
EXTENDS Integers, Functions

CoverageStates == {"not_attempted", "attempted", "failed", "inconclusive", "verified"}

rank ==
  [not_attempted |-> 0, attempted |-> 1, failed |-> 2, inconclusive |-> 3, verified |-> 4]

(* Seed: an unknown cell becomes not_attempted, a known one is left alone. *)
Seed(tracker, cells) ==
  [c \in cells \cup DOMAIN tracker |->
     IF c \in DOMAIN tracker THEN tracker[c] ELSE "not_attempted"]

(* Slip: the last observation wins. *)
MarkLatest(tracker, cell, state) ==
  [c \in DOMAIN tracker \cup {cell} |-> IF c = cell THEN state ELSE tracker[c]]

(* Mark: a cell only ever becomes stronger. *)
Mark(tracker, cell, state) ==
  IF cell \in DOMAIN tracker /\ rank[state] <= rank[tracker[cell]]
  THEN tracker
  ELSE [c \in DOMAIN tracker \cup {cell} |-> IF c = cell THEN state ELSE tracker[c]]

FromVerificationStatus(status) ==
  CASE status = "CONFIRMED" -> "verified"
    [] status = "FALSE_POSITIVE" -> "failed"
    [] status \in {"LIKELY", "PROBABLE", "POTENTIAL", "INCONCLUSIVE", "UNVERIFIED"} -> "inconclusive"
    [] OTHER -> "attempted"

(* The strongest of a set of states. *)
Strongest(states) == CHOOSE s \in states : \A t \in states : rank[t] <= rank[s]
=============================================================================
