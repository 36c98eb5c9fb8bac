----------------------------- MODULE ElasticPool -----------------------------
(***************************************************************************)
(* What the concurrency controller promises, without channel or IOUs: a    *)
(* pool with a target number of users that may move between 1 and Total,   *)
(* and a limit that follows it.  The limit never falls while a user is     *)
(* inside, only as one leaves; a user enters only below the limit.         *)
(***************************************************************************)
EXTENDS Integers, FiniteSets

CONSTANTS Users, Total

VARIABLES
  inside,   \* the users holding a permit
  target,   \* where the limit is heading
  limit     \* how many users may be inside now

poolVars == <<inside, target, limit>>

Init ==
  /\ inside = {}
  /\ target = Total
  /\ limit = Total

Enter(u) ==
  /\ u \notin inside
  /\ Cardinality(inside) < limit
  /\ inside' = inside \cup {u}
  /\ UNCHANGED <<target, limit>>

(* Whoever leaves while the limit is above the target may take its place   *)
(* in the pool away; otherwise the place is free again.                    *)
Leave(u) ==
  /\ u \in inside
  /\ inside' = inside \ {u}
  /\ UNCHANGED target
  /\ \/ limit > target /\ limit' = limit - 1
     \/ UNCHANGED limit

Lower ==
  /\ target > 1
  /\ target' = target - 1
  /\ UNCHANGED <<inside, limit>>

(* Raising the target raises the limit only if the limit is in its way. *)
Raise ==
  /\ target < Total
  /\ target' = target + 1
  /\ limit' = IF limit > target THEN limit ELSE target'
  /\ UNCHANGED inside

Next ==
  \/ \E u \in Users : Enter(u) \/ Leave(u)
  \/ Lower
  \/ Raise

Spec == Init /\ [][Next]_poolVars
=============================================================================
