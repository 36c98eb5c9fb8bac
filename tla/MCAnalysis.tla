----------------------------- MODULE MCAnalysis -----------------------------
(* Up to three findings: duplicates of one weakness with every kind of     *)
(* verdict, in two spellings of its endpoint, garbled and missing fields,  *)
(* a finding of equal score elsewhere, and cross-principal comparisons     *)
(* that differ in the accessor or in the spelling of the verdict.  And the *)
(* findings of the IDOR heuristics: principals whose label and session     *)
(* read alike when joined, one that is the owner's in disguise, one        *)
(* without a probe; a parameter in two spellings; replies equal, close,    *)
(* short, denied or none.                                                  *)
EXTENDS Chains, SequencesExt

Lower == {"/x", "/y", "q", "id", "sqli", "xss", "lfi", "idor", "potential", "cross-principal"}
MCLowerCase == "/X" :> "/x" @@ "ID" :> "id" @@ [t \in Lower |-> t]

Raw(what, endpoint, severity, cvss, confidence, verification, status, evidence, idor) ==
  [what |-> what, endpoint |-> endpoint, severity |-> severity, cvss |-> cvss, confidence |-> confidence,
   verification |-> verification, status |-> status, evidence |-> evidence, idor |-> idor]

MCFindings == {
  Raw(<<"sqli", "id">>, "/x", "HIGH", 75, "HIGH", "CONFIRMED", "200", None, None),
  Raw(<<"sqli", "id">>, "/X", "HIGH", 98, "CERTAIN", "UNVERIFIED", None, "proof", None),
  Raw(<<"sqli", "ID">>, "/x", "CRITICAL", 100, None, "FALSE_POSITIVE", "SUPPRESSED", "proof", None),
  Raw(<<"sqli", "id">>, "/x", "garbled", None, "MEDIUM", "INCONCLUSIVE", "RESOLVED", None, None),
  Raw(<<"sqli", "id">>, "/y", "HIGH", 75, "HIGH", "CONFIRMED", "200", "proof", None),
  Raw(<<"xss", "id">>, "/y", "LOW", 10, "LOW", "CONFIRMED", "200", None, None),
  Raw(<<"lfi", "id">>, "/y", "LOW", 100, "CERTAIN", "UNVERIFIED", "200", None, None),
  Raw(<<"idor", "id">>, "/x", "HIGH", 75, "MEDIUM", "LIKELY", "200", None, <<<<"o">>, <<"1", "r">>>>),
  Raw(<<"idor", "id">>, "/x", "HIGH", 75, "MEDIUM", "PROBABLE", "200", "proof", <<<<"o">>, <<"1", "r">>>>),
  Raw(<<"idor", "id">>, "/x", "HIGH", 75, "MEDIUM", "PROBABLE", "200", "proof", <<<<"o">>, <<"2", "r">>>>) }

MCInputs ==
  [wellFormed : {TRUE}, findings : UNION {[1..n -> MCFindings] : n \in 0..3}]
  \cup {[wellFormed |-> FALSE, findings |-> <<>>]}

(* Any fixed order of the hashes will do. *)
Whats == <<"sqli", "xss", "lfi", "idor", "potential", "cross-principal">>
Place(id) ==
  <<IndexFirstSubSeq(<<id[1][1]>>, Whats), IF id[1][2] = "id" THEN 1 ELSE 2, IF id[2] = "/x" THEN 2 ELSE 1,
    IF id[3] = None THEN 0 ELSE IF Head(id[3][2]) = "1" THEN 1 ELSE 2>>
MCHashBefore(a, b) ==
  \E i \in 1..4 : Place(a)[i] < Place(b)[i] /\ \A j \in 1..(i - 1) : Place(a)[j] = Place(b)[j]

(* No score of these findings is a tie for the rounding. *)
ASSUME NoRoundingTie ==
  \A raw \in MCFindings :
    LET f == parseFinding(raw)
    IN  (weightedSum(f) * VerificationMultipliers[f.verification]) % 100 # 50

MCSecretIn == [e \in {"/x", "/X", "/y"} |-> IF e = "/y" THEN {"token", "session"} ELSE {}]

(* Text is made of four bytes; numbers are the lengths that occur. *)
MCBytes == {":", "a", "b", "c", "1", "3"}
MCDecimal == 1 :> <<"1">> @@ 3 :> <<"3">>

Principal(label, session, probes) == [label |-> label, session |-> session, probes |-> probes]
MCOwner == Principal(<<"a">>, <<"b">>, TRUE)
MCOthers == <<
  Principal(<<"a", ":", "b">>, <<"c">>, TRUE),
  Principal(<<"a">>, <<"b">>, TRUE),
  Principal(<<"c">>, <<"c">>, FALSE),
  Principal(<<"a">>, <<"b", ":", "c">>, TRUE) >>

MCEndpoints == {
  <<[name |-> "q", value |-> Nil], [name |-> "id", value |-> 1]>>,
  <<[name |-> "id", value |-> 0], [name |-> "ID", value |-> 0]>> }

Served(denial, body) == [served |-> TRUE, denial |-> denial, body |-> body]
MCReplies == {
  Served(FALSE, <<1, 2, 3, 4, 5, 6>>),
  Served(FALSE, <<1, 2, 3, 4, 5, 7>>),
  Served(FALSE, <<1, 2, 3, 4>>),
  Served(TRUE, <<1, 2, 3, 4, 5, 6>>),
  [served |-> FALSE, denial |-> FALSE, body |-> <<>>] }

(* Bounds: three kinds of answers compared with each other, three findings *)
(* of the scanner, and the model asked only about the reports it is given. *)
Small ==
  /\ Cardinality({a.own : a \in asked} \cup {a.reply : a \in asked}) <= 3
  /\ Cardinality(Range(flagged)) <= 3
  /\ stage = "ask" => heuristic # "done"
=============================================================================
