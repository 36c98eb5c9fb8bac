------------------------------ MODULE Planner ------------------------------
(***************************************************************************)
(* What to test next: Tracker.Snapshot (pkg/coverage/coverage.go) and Plan *)
(* (pkg/planner/planner.go), a pure function of the coverage.              *)
(*                                                                         *)
(* A cell is a triple of endpoint, parameter and category; numbers stand   *)
(* for the strings, whose order is all that matters here.                  *)
(***************************************************************************)
EXTENDS Coverage, Sequences, FiniteSets, Lists

(* The tie-break of both sorts. *)
CellBefore(a, b) ==
  \/ a[1] < b[1]
  \/ a[1] = b[1] /\ a[2] < b[2]
  \/ a[1] = b[1] /\ a[2] = b[2] /\ a[3] < b[3]

(* The entries; the order that Snapshot gives them does not outlive Plan's. *)
Snapshot(m) == {[cell |-> c, state |-> m[c]] : c \in DOMAIN m}

priority == [inconclusive |-> 0, not_attempted |-> 1]

ActionBefore(x, y) ==
  \/ x.priority < y.priority
  \/ x.priority = y.priority /\ CellBefore(x.cell, y.cell)

Candidates(coverage) ==
  {[cell |-> e.cell, priority |-> priority[e.state]] : e \in {x \in coverage : x.state \in DOMAIN priority}}

Cut(s, max) == IF Len(s) > max THEN SubSeq(s, 1, max) ELSE s

(* Slip: the order of the snapshot. *)
PlanUnsorted(coverage, max) ==
  {Cut(s, max) : s \in Sorts(Candidates(coverage), LAMBDA x, y : CellBefore(x.cell, y.cell))}

(* What sort.Slice makes of the candidates, in whatever order it finds them. *)
Plan(coverage, max) == {Cut(s, max) : s \in Sorts(Candidates(coverage), ActionBefore)}
=============================================================================
