--------------------------- MODULE MCHistoryStore ---------------------------
(* Save calls s1, s2, s3: s1 and s2 in different processes, s3 either in   *)
(* the process of s2 (two goroutines) or in one of its own.                *)
EXTENDS HistoryStore, TLC

CONSTANTS s1, s2, s3, A, B, C

ThreeSavers == {s1, s2, s3}
TwoPids == {A, B}
ThreePids == {A, B, C}

(* s2 and s3, of one process, may be swapped. *)
Goroutines23 == Permutations({s2, s3})

(* Bound: time that SavedAt shows passes only while no Save is under way. *)
QuietTicks == clock' # clock => \A p \in Savers : pc[p] \in Ended \cup {"idle"}

Shared == s1 :> A @@ s2 :> B @@ s3 :> B
OneEach3 == s1 :> A @@ s2 :> B @@ s3 :> C
=============================================================================
