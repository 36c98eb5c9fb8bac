---------------------------- MODULE MCVerifyCache ----------------------------
(* Three workers verifying two candidates of one parameter (two payloads), *)
(* whose verification may confirm or end inconclusive; and, for the        *)
(* question of the key, a GET and a POST candidate with the same URL.      *)
EXTENDS VerifyCache

CONSTANTS p1, p2, p3, a1, a2, absent, nocall

Candidate(method, payload) ==
  [category |-> "XSS", endpoint |-> "/item", method |-> method,
   parameter |-> "q", payload |-> payload]

MCCallers == {p1, p2, p3}
MCCalls == {a1, a2}
MCResults == {"CONFIRMED", "POTENTIAL", "INCONCLUSIVE"}

First == Candidate("GET", "one")
Second == Candidate("GET", "two")
Posted == Candidate("POST", "one")

TwoPayloads == {First, Second}
AnyOutcome == [c \in TwoPayloads |-> IF c = First THEN {"CONFIRMED", "INCONCLUSIVE"}
                                                  ELSE {"POTENTIAL", "INCONCLUSIVE"}]
NoneHangs == {}
FirstHangs == {First}

(* The GET handler reflects the payload, the POST handler does not. *)
TwoMethods == {First, Posted}
ByMethod == [c \in TwoMethods |-> IF c = First THEN {"CONFIRMED"} ELSE {"POTENTIAL"}]
=============================================================================
