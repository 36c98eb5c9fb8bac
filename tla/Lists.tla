-------------------------------- MODULE Lists --------------------------------
(***************************************************************************)
(* Lists of the members of a finite set, written without recursion: the    *)
(* provers can reason about these, and not about SelectSeq and SortSeq.    *)
(***************************************************************************)
EXTENDS Integers, FiniteSets

(* The members of S in the order of the pairs in R, a strict total order. *)
Listing(S, R) ==
  [k \in 1..Cardinality(S) |->
     CHOOSE x \in S : Cardinality({y \in S : <<y, x>> \in R}) = k - 1]

Before(K) == {p \in K \X K : p[1] < p[2]}

(* What list s has at the places in K, in the order of s. *)
Sublist(s, K) ==
  LET places == Listing(K, Before(K))
  IN  [k \in DOMAIN places |-> s[places[k]]]

(* What sorting may make of the members of S: none comes after one that it *)
(* is before.                                                              *)
Sorts(S, Less(_, _)) ==
  {s \in [1..Cardinality(S) -> S] :
     \A i, j \in DOMAIN s : i < j => s[i] # s[j] /\ ~ Less(s[j], s[i])}
=============================================================================
