------------------------------ MODULE Analysis ------------------------------
(***************************************************************************)
(* The analysis of a scan's findings, ai-engine: ARFAEngine.process parses *)
(* the scanner's output, scores, deduplicates and correlates the findings, *)
(* extracts attack chains, and writes a report with the help of a language *)
(* model if one answers (llm/client.py).                                   *)
(*                                                                         *)
(* A raw finding is [what, endpoint, severity, cvss, confidence,           *)
(* verification, status, evidence, idor].  what is the pair of the kind,   *)
(* which stands for category and name, and the parameter; cvss is in       *)
(* tenths; idor is the pair of owner and accessor of a cross-principal     *)
(* comparison; a field may be None.  A fingerprint is what it is computed  *)
(* from.  A text for or from the model is the set of secrets it carries.   *)
(***************************************************************************)
EXTENDS Integers, Sequences, FiniteSets, FiniteSetsExt, Functions, Lists

CONSTANTS
  Inputs,             \* [wellFormed, findings]
  LowerCase,          \* of kinds, parameters and endpoints, also stripped
  HashBefore(_, _),   \* the order of fingerprints as hashes
  LLMConfigured,
  SecretIn,           \* SecretIn[e]: the secrets in the spelling of endpoint e
  Redactable,         \* the secrets in a form that redaction.py 100-141 lists
  None

VARIABLES
  input,
  stage,
  findings,     \* the findings as the last stage left them
  correlated,   \* endpoints, the riskiest first
  chains,
  summary,      \* [total, dist, posture]
  prompt,       \* what was sent to the language model, or None
  reply,        \* its answer, or None
  observation,  \* what the report quotes of it, or None
  assisted      \* metadata.llm_assisted

llmVars == <<prompt, reply, observation, assisted>>
analysisVars == <<input, stage, findings, correlated, chains, summary, llmVars>>

-----------------------------------------------------------------------------
(* The orders of the deduplicator; their domains are the enums.            *)
SeverityOrder == [CRITICAL |-> 5, HIGH |-> 4, MEDIUM |-> 3, LOW |-> 2, INFO |-> 1]
ConfidenceOrder == [CERTAIN |-> 4, HIGH |-> 3, MEDIUM |-> 2, LOW |-> 1]
VerificationOrder ==
  [CONFIRMED |-> 4, LIKELY |-> 3, PROBABLE |-> 3, POTENTIAL |-> 2, UNVERIFIED |-> 1,
   INCONCLUSIVE |-> 0, FALSE_POSITIVE |-> 0]

(* Weights and multipliers, in hundredths. *)
SeverityWeights == [CRITICAL |-> 100, HIGH |-> 80, MEDIUM |-> 50, LOW |-> 20, INFO |-> 5]
ConfidenceWeights == [CERTAIN |-> 100, HIGH |-> 85, MEDIUM |-> 65, LOW |-> 40]
VerificationMultipliers ==
  [CONFIRMED |-> 100, LIKELY |-> 80, PROBABLE |-> 80, POTENTIAL |-> 60, UNVERIFIED |-> 40,
   INCONCLUSIVE |-> 30, FALSE_POSITIVE |-> 0]

DefaultCvss == [CRITICAL |-> 90, HIGH |-> 75, MEDIUM |-> 50, LOW |-> 25, INFO |-> 0]

(* A value outside the enum, or none, becomes the default. *)
MapTo(value, enum, default) == IF value \in DOMAIN enum THEN value ELSE default

Clamp(low, x, high) == IF x < low THEN low ELSE IF x > high THEN high ELSE x

Fingerprint(raw) ==
  <<<<LowerCase[raw.what[1]], LowerCase[raw.what[2]]>>, LowerCase[raw.endpoint], raw.idor>>

(* Different fingerprints have different hashes, which are strings. *)
Hashed(ids) ==
  /\ \A x \in ids : ~ HashBefore(x, x)
  /\ \A x, y \in ids : x = y \/ HashBefore(x, y) \/ HashBefore(y, x)
  /\ \A x, y, z \in ids : HashBefore(x, y) /\ HashBefore(y, z) => HashBefore(x, z)

(* A list of findings, if it is well formed. *)
IsInput(raw) ==
  raw.wellFormed =>
    /\ raw.findings \in Seq(Range(raw.findings))
    /\ \A i \in DOMAIN raw.findings : raw.findings[i].cvss \in Int \cup {None}
    /\ Hashed({Fingerprint(raw.findings[i]) : i \in DOMAIN raw.findings})

ASSUME AnalysisAssumption == \A raw \in Inputs : IsInput(raw)

(* An HTTP status code, or anything else unknown, is an open finding. *)
mapStatus(status) == IF status \in {"RESOLVED", "SUPPRESSED"} THEN status ELSE "OPEN"

parseFinding(raw) ==
  LET severity == MapTo(raw.severity, SeverityOrder, "INFO") IN
  [id           |-> Fingerprint(raw),
   endpoint     |-> raw.endpoint,
   severity     |-> severity,
   cvss         |-> IF raw.cvss = None THEN DefaultCvss[severity] ELSE Clamp(0, raw.cvss, 100),
   confidence   |-> MapTo(raw.confidence, ConfidenceOrder, "LOW"),
   verification |-> MapTo(raw.verification, VerificationOrder, "UNVERIFIED"),
   status       |-> mapStatus(raw.status),
   evidence     |-> raw.evidence,
   idor         |-> raw.idor,
   occurrences  |-> 1,
   score        |-> 0]

(* In hundredths of a point of 100, before the damping. *)
weightedSum(f) ==
  LET base == IF f.cvss > 0 THEN f.cvss ELSE SeverityWeights[f.severity]
  IN  50 * base + 25 * SeverityWeights[f.severity] + 15 * ConfidenceWeights[f.confidence]
        + 10 * VerificationMultipliers[f.verification]

(* Slip: the verification status is one signal among others. *)
riskScoreUndamped(f) == weightedSum(f)

(* Rounded to two decimals. *)
riskScore(f) == (weightedSum(f) * VerificationMultipliers[f.verification] + 50) \div 100

-----------------------------------------------------------------------------
KeyOf(f) ==
  <<f.score, SeverityOrder[f.severity], VerificationOrder[f.verification],
    ConfidenceOrder[f.confidence], f.cvss>>

isBetter(f, g) ==
  \E i \in 1..5 : KeyOf(f)[i] > KeyOf(g)[i] /\ \A j \in 1..(i - 1) : KeyOf(f)[j] = KeyOf(g)[j]

(* The first of the strongest of the duplicates at the places K. *)
strongest(fs, K) ==
  CHOOSE i \in K : \A j \in K \ {i} :
    isBetter(fs[i], fs[j]) \/ (i < j /\ ~isBetter(fs[j], fs[i]))

(* Slip: nothing is taken from the weaker ones. *)
mergeNothing(f, fs, K) == f

(* What f lacks comes from the first that has it.  Evidence stands for the *)
(* eight optional fields.                                                  *)
mergeMissingFields(f, fs, K) ==
  LET having == {i \in K : fs[i].evidence # None}
      closed == {i \in K : fs[i].status # "OPEN"}
  IN  [f EXCEPT !.evidence = IF @ = None /\ having # {} THEN fs[Min(having)].evidence ELSE @,
                !.status = IF @ = "OPEN" /\ closed # {} THEN fs[Min(closed)].status ELSE @]

merged(fs, K) ==
  [mergeMissingFields(fs[strongest(fs, K)], fs, K)
     EXCEPT !.occurrences = SumFunctionOnSet([i \in K |-> fs[i].occurrences], K)]

(* Slip: findings of one score stay in the order they came in. *)
ReportBeforeByScore(f, g) == f.score > g.score

ReportBefore(f, g) ==
  \/ f.score > g.score
  \/ f.score = g.score /\ SeverityOrder[f.severity] > SeverityOrder[g.severity]
  \/ /\ f.score = g.score /\ f.severity = g.severity
     /\ HashBefore(f.id, g.id)

Places(fs, id) == {i \in DOMAIN fs : fs[i].id = id}

(* One finding for each fingerprint, sorted. *)
deduplicate(fs) == Sorts({merged(fs, Places(fs, fs[i].id)) : i \in DOMAIN fs}, ReportBefore)

-----------------------------------------------------------------------------
(* correlate_endpoints: by the endpoint as written, in the order of the    *)
(* first finding of each; the sort by risk is stable.                      *)
correlate(fs) ==
  LET group(i) == {j \in DOMAIN fs : fs[j].endpoint = fs[i].endpoint}
      risk(i)  == Max({fs[j].score : j \in group(i)})
      worst(i) == CHOOSE s \in {fs[j].severity : j \in group(i)} :
                    \A j \in group(i) : SeverityOrder[fs[j].severity] <= SeverityOrder[s]
      firsts   == {i \in DOMAIN fs : \A j \in 1..(i - 1) : fs[j].endpoint # fs[i].endpoint}
      riskier  == {p \in firsts \X firsts :
                     risk(p[1]) > risk(p[2]) \/ (risk(p[1]) = risk(p[2]) /\ p[1] < p[2])}
      ordered  == Listing(firsts, riskier)
  IN  [n \in DOMAIN ordered |->
         LET i == ordered[n]
             members == Listing(group(i), Before(group(i))) IN
         [endpoint |-> fs[i].endpoint, ids |-> [k \in DOMAIN members |-> fs[members[k]].id],
          severity |-> worst(i), risk |-> risk(i)]]

Eligible == {"CONFIRMED", "LIKELY", "PROBABLE"}

(* One relationship, one chain for each eligible comparison. *)
attackChains(fs) ==
  {[finding |-> f.id, proof |-> f.idor, verification |-> f.verification] :
     f \in {g \in Range(fs) : g.idor # None /\ g.verification \in Eligible}}

riskDistribution(fs) ==
  [s \in DOMAIN SeverityOrder |-> Cardinality({i \in DOMAIN fs : fs[i].severity = s})]

postureScore(fs) ==
  LET d == riskDistribution(fs)
  IN  Clamp(0, 100 - (30 * d.CRITICAL + 15 * d.HIGH + 5 * d.MEDIUM + d.LOW), 100)

-----------------------------------------------------------------------------
AnalysisInit ==
  /\ findings = <<>> /\ correlated = <<>> /\ chains = {} /\ summary = None
  /\ prompt = None /\ reply = None /\ observation = None /\ assisted = FALSE

(* Input that is not an array of objects raises ValueError. *)
Reject ==
  /\ stage = "parse" /\ ~input.wellFormed
  /\ stage' = "rejected"
  /\ UNCHANGED <<input, findings, correlated, chains, summary, llmVars>>

Parse ==
  /\ stage = "parse" /\ input.wellFormed
  /\ findings' = [i \in DOMAIN input.findings |-> parseFinding(input.findings[i])]
  /\ stage' = "score"
  /\ UNCHANGED <<input, correlated, chains, summary, llmVars>>

Score ==
  /\ stage = "score"
  /\ findings' = [i \in DOMAIN findings |-> [findings[i] EXCEPT !.score = riskScore(findings[i])]]
  /\ stage' = "deduplicate"
  /\ UNCHANGED <<input, correlated, chains, summary, llmVars>>

Deduplicate ==
  /\ stage = "deduplicate"
  /\ findings' \in deduplicate(findings)
  /\ stage' = "correlate"
  /\ UNCHANGED <<input, correlated, chains, summary, llmVars>>

Correlate ==
  /\ stage = "correlate"
  /\ correlated' = correlate(findings)
  /\ chains' = attackChains(findings)
  /\ stage' = "summarise"
  /\ UNCHANGED <<input, findings, summary, llmVars>>

(* The model is asked when it is configured and its health check passes. *)
Summarise ==
  /\ stage = "summarise"
  /\ summary' = [total |-> Len(input.findings), dist |-> riskDistribution(findings),
                 posture |-> postureScore(findings)]
  /\ \/ LLMConfigured /\ stage' = "ask"
     \/ stage' = "assemble"
  /\ UNCHANGED <<input, findings, correlated, chains, llmVars>>

-----------------------------------------------------------------------------
(* redact_text takes out what is listed, and nothing else; should it fail, *)
(* there is no text.                                                       *)
redacted(text) == {text \ Redactable, None}

(* The prompt names the first five findings. *)
Sample == UNION {SecretIn[findings[i].endpoint] : i \in {n \in DOMAIN findings : n <= 5}}

Ask ==
  /\ stage = "ask"
  /\ prompt' \in redacted(Sample)
  /\ stage' = IF prompt' = None THEN "assemble" ELSE "answer"
  /\ UNCHANGED <<input, findings, correlated, chains, summary, reply, observation, assisted>>

(* The model may say what it was told, or a secret of its own. *)
Answer ==
  /\ stage = "answer"
  /\ \/ reply' \in SUBSET (prompt \cup {"its own"}) /\ stage' = "quote"
     \/ reply' = None /\ stage' = "assemble"
  /\ UNCHANGED <<input, findings, correlated, chains, summary, prompt, observation, assisted>>

Quote ==
  /\ stage = "quote"
  /\ observation' \in redacted(reply)
  /\ stage' = "assemble"
  /\ UNCHANGED <<input, findings, correlated, chains, summary, prompt, reply, assisted>>

(* The metadata asks for the model's health a second time. *)
Assemble ==
  /\ stage = "assemble"
  /\ assisted' \in {FALSE, LLMConfigured}
  /\ stage' = "reported"
  /\ UNCHANGED <<input, findings, correlated, chains, summary, prompt, reply, observation>>

Analyse ==
  \/ Reject \/ Parse \/ Score \/ Deduplicate \/ Correlate \/ Summarise
  \/ Ask \/ Answer \/ Quote \/ Assemble

-----------------------------------------------------------------------------
Parsed == [i \in DOMAIN input.findings |-> parseFinding(input.findings[i])]
Deduplicated == stage \notin {"scan", "parse", "rejected", "score", "deduplicate"}
Group(id) == {i \in DOMAIN Parsed : Parsed[i].id = id}

(* Deduplication loses nothing: every fingerprint keeps one finding, which *)
(* counts all its occurrences, has evidence if any of them has, and is     *)
(* open only if all of them are; the endpoints' roll-up lists each finding *)
(* once, under its endpoint (deduplicator.py 58-129,                       *)
(* endpoint_correlator.py 37-80).                                          *)
Listed == {p \in (DOMAIN correlated) \X (1..Len(findings)) : p[2] \in DOMAIN correlated[p[1]].ids}
NothingLost ==
  Deduplicated =>
    /\ {Parsed[i].id : i \in DOMAIN Parsed} = {f.id : f \in Range(findings)}
    /\ \A f \in Range(findings) :
         /\ f.occurrences = Cardinality(Group(f.id))
         /\ f.evidence = None <=> \A i \in Group(f.id) : Parsed[i].evidence = None
         /\ f.status = "OPEN" <=> \A i \in Group(f.id) : Parsed[i].status = "OPEN"
    /\ stage # "correlate" =>
         /\ \A p \in Listed : \E f \in Range(findings) :
              f.id = correlated[p[1]].ids[p[2]] /\ f.endpoint = correlated[p[1]].endpoint
         /\ \A f \in Range(findings) : Cardinality({p \in Listed : correlated[p[1]].ids[p[2]] = f.id}) = 1

(* The order in which the scanner's workers appended their findings does   *)
(* not show: with any two of the input exchanged, hence in any other order *)
(* of it, findings of the same rank come in the same order, with the same  *)
(* chains (deduplicator.py 106-138).  What may differ is what equal        *)
(* duplicates lend: the evidence, the closed status, the spelling of the   *)
(* endpoint, and which of the equivalent LIKELY and PROBABLE is shown.     *)
Rank(f) == <<f.id, f.severity, f.cvss, f.confidence, VerificationOrder[f.verification], f.occurrences, f.score>>
Ranks(fs) == [i \in DOMAIN fs |-> Rank(fs[i])]
ChainRanks(fs) == {<<c.finding, c.proof, VerificationOrder[c.verification]>> : c \in attackChains(fs)}
Scored == [i \in DOMAIN Parsed |-> [Parsed[i] EXCEPT !.score = riskScore(Parsed[i])]]
Exchanges == {x \in (DOMAIN input.findings) \X (DOMAIN input.findings) : x[1] < x[2]}
InputOrderInvisible ==
  stage = "correlate" =>
    \A x \in Exchanges :
      \A other \in deduplicate([Scored EXCEPT ![x[1]] = Scored[x[2]], ![x[2]] = Scored[x[1]]]) :
        Ranks(other) = Ranks(findings) /\ ChainRanks(other) = ChainRanks(findings)

(* "A disproven finding always scores exactly 0.0" (risk_engine.py 39-41): *)
(* it never stands for a group in which another duplicate was not          *)
(* disproven, and no finding that was not comes after it in the report.    *)
DisprovenNeverRepresents ==
  Deduplicated =>
    \A n \in DOMAIN findings : findings[n].verification = "FALSE_POSITIVE" =>
      /\ \A i \in Group(findings[n].id) : Parsed[i].verification = "FALSE_POSITIVE"
      /\ \A m \in n..Len(findings) : findings[m].verification = "FALSE_POSITIVE"

(* "an unverified or unresolved finding can never outrank a verified one   *)
(* of the same severity, no matter how high its CVSS" (risk_engine.py      *)
(* 35-37).                                                                 *)
UnverifiedNeverOutranks ==
  Deduplicated =>
    \A m, n \in DOMAIN findings :
      (/\ findings[m].severity = findings[n].severity
       /\ findings[m].verification \in {"UNVERIFIED", "INCONCLUSIVE"}
       /\ findings[n].verification = "CONFIRMED") => findings[m].score <= findings[n].score
=============================================================================
