------------------------------- MODULE MCScan -------------------------------
(* Two workers.  A reflecting parameter c1 is probed with one payload in   *)
(* two encodings that leave it alike (one cache key) and with a second,    *)
(* flaky payload whose finding has the same fingerprint; the fourth job    *)
(* belongs to another cell.  One endpoint has an identifier for the IDOR   *)
(* phase.                                                                  *)
EXTENDS Scan

CONSTANTS w1, w2, f1, f2

MCWorkers == {w1, w2}

c1 == <<1, 1, 2>>
c2 == <<1, 2, 2>>
i1 == <<1, 2, 3>>

Job(cell, key, id, checkable) == [cell |-> cell, key |-> key, id |-> id, checkable |-> checkable]

FourJobs == <<Job(c1, "k1", f1, TRUE), Job(c1, "k1", f1, TRUE),
              Job(c1, "k2", f1, TRUE), Job(c2, "k3", f2, FALSE)>>

MCShows == [k \in {"k1", "k2", "k3"} |->
  CASE k = "k1" -> [attack |-> {TRUE}, benign |-> {FALSE}]
    [] k = "k2" -> [attack |-> {TRUE, FALSE}, benign |-> {TRUE}]
    [] k = "k3" -> [attack |-> {TRUE}, benign |-> {FALSE}]]

MCIdor == <<{i1}>>
=============================================================================
