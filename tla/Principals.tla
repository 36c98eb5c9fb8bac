----------------------------- MODULE Principals -----------------------------
(***************************************************************************)
(* The IDOR heuristics, pkg/detectors/idor.go, on one endpoint: ScanIDOR   *)
(* asks for the neighbours of every numeric parameter of the endpoint, and *)
(* ScanIDORCrossPrincipal asks for the owner's own value on behalf of      *)
(* other principals.  What they find is fingerprinted and deduplicated as  *)
(* in pkg/scanner/scanner.go.                                              *)
(*                                                                         *)
(* A reply is [served, denial, body]: served means no error and status     *)
(* 200, denial that the body reads like one.  A body is a sequence of      *)
(* blocks of BlockSize bytes; two blocks that differ do so at their first  *)
(* byte.  A principal is [label, session, probes], the last FALSE when no  *)
(* probe was supplied for it.                                              *)
(***************************************************************************)
EXTENDS Identity, FiniteSets, Lists

CONSTANTS
  Endpoints,   \* sequences of [name, value]; Nil when absent or no number
  Owner,       \* a principal with a probe
  Others,      \* a sequence of principals
  Replies,
  Nil

(* There is something to ask for, and someone to ask on behalf of; names  *)
(* are texts whose length can be written.                                  *)
ASSUME PrincipalsAssumption ==
  /\ \A e \in Endpoints : e \in Seq({e[i] : i \in DOMAIN e}) /\ e # <<>>
  /\ Others \in Seq({Others[i] : i \in DOMAIN Others}) /\ Others # <<>>
  /\ \A p \in {Owner} \cup {Others[i] : i \in DOMAIN Others} :
       \A s \in {p.label, p.session} : s \in Seq(Bytes) /\ Len(s) \in DOMAIN Decimal

BlockSize == 10

VARIABLES
  params,     \* the parameters of the endpoint
  heuristic,  \* "neighbours", "principals" or "done"
  at,         \* index of the parameter
  turn,       \* 0 for the baseline, then the neighbour or principal asked
  baseline,   \* the owner's reply
  flagged,    \* the findings
  asked       \* what the principals were answered, with the baseline

idorVars == <<params, heuristic, at, turn, baseline, flagged, asked>>

-----------------------------------------------------------------------------
(* similarity(a, b) as a fraction of num and den: the mean of the ratio of *)
(* the lengths and the share of the shorter body that is a common prefix.  *)
CommonPrefix(a, b) ==
  LET n == IF Len(a) < Len(b) THEN Len(a) ELSE Len(b)
  IN  CHOOSE k \in 0..n :
        /\ \A i \in 1..k : a[i] = b[i]
        /\ k = n \/ a[k + 1] # b[k + 1]

similarity(a, b) ==
  LET short == IF Len(a) < Len(b) THEN Len(a) ELSE Len(b)
      long  == IF Len(a) < Len(b) THEN Len(b) ELSE Len(a)
  IN  CASE a = b -> [num |-> 1, den |-> 1]
        [] a # b /\ short = 0 -> [num |-> 0, den |-> 1]
        [] OTHER -> [num |-> short * short + CommonPrefix(a, b) * long, den |-> 2 * short * long]

AtLeast(s, percent) == 100 * s.num >= percent * s.den

Substantive(body) == BlockSize * Len(body) > 40

identityOf(p) == identity(p.label, p.session)

(* Slip: the evidence is all that tells two findings apart. *)
fingerprintOfEvidence(f) == <<f.param, f.evidence>>

(* Category and endpoint are the same for all of them. *)
fingerprint(f) == IF f.idor = Nil THEN <<f.param, f.evidence>> ELSE <<f.param, f.evidence, f.idor>>

(* The first finding of every fingerprint. *)
dedup(fs) ==
  Sublist(fs, {i \in DOMAIN fs : \A j \in 1..(i - 1) : fingerprint(fs[j]) # fingerprint(fs[i])})

Neighbour(param) == [param |-> param, evidence |-> "neighbour", verification |-> "UNVERIFIED", idor |-> Nil]

CrossPrincipal(param, accessor) ==
  [param |-> param, evidence |-> "principal", verification |-> "LIKELY",
   idor |-> <<identityOf(Owner), identityOf(accessor)>>]

-----------------------------------------------------------------------------
IdorInit ==
  /\ params \in Endpoints
  /\ heuristic = "neighbours" /\ at = 1 /\ turn = 0 /\ baseline = Nil
  /\ flagged = <<>> /\ asked = {}

Param == params[at]

(* The next parameter, the next heuristic, or the end. *)
NextParam ==
  /\ turn' = 0 /\ baseline' = Nil
  /\ \/ at < Len(params) /\ at' = at + 1 /\ heuristic' = heuristic
     \/ at = Len(params) /\ at' = 1 /\ heuristic' = (IF heuristic = "neighbours" THEN "principals" ELSE "done")

NextTurn(last) ==
  \/ turn = last /\ NextParam
  \/ turn < last /\ turn' = turn + 1 /\ UNCHANGED <<heuristic, at, baseline>>

SkipParam ==
  /\ heuristic # "done" /\ turn = 0
  /\ Param.value = Nil
  /\ NextParam
  /\ UNCHANGED <<params, flagged, asked>>

(* ScanIDOR takes a baseline that reads like a denial, the other does not. *)
Comparable(r) == r.served /\ r.body # <<>> /\ (heuristic = "principals" => ~r.denial)

Baseline ==
  /\ heuristic # "done" /\ turn = 0
  /\ Param.value # Nil
  /\ \E r \in Replies :
       \/ ~Comparable(r) /\ NextParam
       \/ Comparable(r) /\ turn' = 1 /\ baseline' = r /\ UNCHANGED <<heuristic, at>>
  /\ UNCHANGED <<params, flagged, asked>>

delta == <<-1, 1>>

AskNeighbour ==
  /\ heuristic = "neighbours" /\ turn > 0
  /\ \/ Param.value + delta[turn] < 0 /\ UNCHANGED flagged
     \/ /\ Param.value + delta[turn] >= 0
        /\ \E r \in Replies :
             LET distinct == Substantive(r.body) /\ ~AtLeast(similarity(baseline.body, r.body), 98)
             IN  flagged' = IF r.served /\ ~r.denial /\ distinct
                            THEN Append(flagged, Neighbour(Param.name)) ELSE flagged
  /\ NextTurn(Len(delta))
  /\ UNCHANGED <<params, asked>>

(* Not a cross-principal comparison. *)
Insufficient(p) == ~p.probes \/ identityOf(p) = identityOf(Owner)

SkipPrincipal ==
  /\ heuristic = "principals" /\ turn > 0
  /\ Insufficient(Others[turn])
  /\ NextTurn(Len(Others))
  /\ UNCHANGED <<params, flagged, asked>>

AskPrincipal ==
  /\ heuristic = "principals" /\ turn > 0
  /\ ~Insufficient(Others[turn])
  /\ \E r \in Replies :
       LET same == Substantive(r.body) /\ AtLeast(similarity(baseline.body, r.body), 90) IN
       /\ flagged' = IF r.served /\ ~r.denial /\ same
                     THEN Append(flagged, CrossPrincipal(Param.name, Others[turn])) ELSE flagged
       /\ asked' = asked \cup {[param |-> Param.name, who |-> Others[turn], own |-> baseline, reply |-> r]}
  /\ NextTurn(Len(Others))
  /\ UNCHANGED params

IdorNext == SkipParam \/ Baseline \/ AskNeighbour \/ SkipPrincipal \/ AskPrincipal
=============================================================================
