------------------------------- MODULE Chains -------------------------------
(***************************************************************************)
(* From what the principals were answered (Principals) to the attack       *)
(* chains of the report (Analysis): the scanner writes the deduplicated    *)
(* findings to its report, and ARFAEngine.process reads it.  An analysis   *)
(* may also start from a report given to it.                               *)
(***************************************************************************)
EXTENDS Principals, Analysis

CONSTANT Endpoint   \* the URL of the endpoint Principals looks at

vars == <<idorVars, analysisVars>>

Init ==
  /\ IdorInit
  /\ AnalysisInit
  /\ \/ input \in Inputs /\ stage = "parse"
     \/ input = None /\ stage = "scan"

Compare ==
  /\ stage = "scan"
  /\ IdorNext
  /\ UNCHANGED analysisVars

(* The fixed fields of either heuristic's findings. *)
RawFinding(f) ==
  LET cross == f.idor # Nil IN
  [what |-> <<IF cross THEN "cross-principal" ELSE "potential", f.param>>,
   endpoint |-> Endpoint,
   severity |-> IF cross THEN "HIGH" ELSE "MEDIUM", cvss |-> IF cross THEN 75 ELSE 65,
   confidence |-> IF cross THEN "MEDIUM" ELSE "LOW",
   verification |-> f.verification, status |-> "200", evidence |-> f.evidence, idor |-> IF cross THEN f.idor ELSE None]

(* What the heuristics may flag. *)
Names == UNION {{e[i].name : i \in DOMAIN e} : e \in Endpoints}
Accessors == {p \in Range(Others) : ~Insufficient(p)}
Flaggable == {Neighbour(n) : n \in Names} \cup {CrossPrincipal(x[1], x[2]) : x \in Names \X Accessors}

ASSUME ChainsAssumption ==
  /\ Hashed({Fingerprint(RawFinding(f)) : f \in Flaggable})
  /\ \A p \in Accessors : <<identityOf(Owner), identityOf(p)>> \notin {Nil, None}

(* dedup lists a map in any order, and the sort by severity, which is not  *)
(* stable, leaves findings of one severity in any order.                   *)
Orders(S) == {s \in [1..Cardinality(S) -> S] : Range(s) = S}
Written(fs) ==
  LET cross == {f \in Range(fs) : f.idor # Nil}
  IN  {p[1] \o p[2] : p \in Orders(cross) \X Orders(Range(fs) \ cross)}

HandOver ==
  /\ stage = "scan" /\ heuristic = "done"
  /\ \E fs \in Written(dedup(flagged)) :
       input' = [wellFormed |-> TRUE, findings |-> [i \in DOMAIN fs |-> RawFinding(fs[i])]]
  /\ stage' = "parse"
  /\ UNCHANGED <<idorVars, findings, correlated, chains, summary, llmVars>>

AnalyseInput == Analyse /\ UNCHANGED idorVars

Next == Compare \/ HandOver \/ AnalyseInput

Spec == Init /\ [][Next]_vars

-----------------------------------------------------------------------------
(* The owner's answer was a record of its own, and another principal was   *)
(* answered with practically the same.                                     *)
Reached(a) ==
  /\ a.who.probes /\ <<a.who.label, a.who.session>> # <<Owner.label, Owner.session>>
  /\ \A r \in {a.own, a.reply} : r.served /\ ~r.denial
  /\ Substantive(a.reply.body) /\ AtLeast(similarity(a.own.body, a.reply.body), 90)

(* Every principal that reached the owner's record has its own chain in    *)
(* the report, for every parameter up to its case, and nobody else has     *)
(* one: a probe that failed in between, another principal with the same    *)
(* evidence, a label that reads like another label with its session, the   *)
(* neighbours, two deduplications and the gate on the verdict hide nobody  *)
(* and accuse nobody.  "Two distinct accessors improperly reaching the     *)
(* same owner's resource would silently collapse" (scanner.go 755-763).    *)
(* The scanner's fingerprint keeps the case of the parameter, the          *)
(* analysis's does not (scanner_parser.py 100-108): id and ID of one       *)
(* endpoint share a chain.                                                 *)
AccessorsKeepChains ==
  (heuristic = "done" /\ stage \notin {"scan", "parse", "score", "deduplicate", "correlate"}) =>
    LET reached == {a \in asked : Reached(a)}
        people  == {<<LowerCase[a.param], a.who.label, a.who.session>> : a \in reached}
    IN  /\ {<<c.finding[1][2], c.proof>> : c \in chains}
             = {<<LowerCase[a.param], <<identityOf(Owner), identityOf(a.who)>>>> : a \in reached}
        /\ Cardinality(chains) = Cardinality(people)
        /\ \A c \in chains : c.verification = "LIKELY"
=============================================================================
