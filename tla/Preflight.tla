------------------------------ MODULE Preflight ------------------------------
(***************************************************************************)
(* The reachability gate, pkg/preflight/preflight.go: Run resolves the     *)
(* host and tries one scheme after the other, each with a TCP connection,  *)
(* a HEAD request and, when that fails, a GET request, until one of them   *)
(* completes.  Every step is bounded by a timeout and by the context.      *)
(*                                                                         *)
(* The network is a record [resolves, lossy, at]: at gives for each        *)
(* address a server [open, speaks, head], open when it accepts TCP         *)
(* connections, speaks the schemes it answers (a certificate the client    *)
(* does not accept is no answer), head when it answers HEAD too.  On a     *)
(* lossy network any step may fail.                                        *)
(***************************************************************************)
EXTENDS Integers, Sequences, SequencesExt

CONSTANT Networks

Schemes == {"http", "https"}

ASSUME PreflightAssumption ==
  Networks \subseteq [resolves : BOOLEAN, lossy : BOOLEAN,
                      at : [Schemes -> [open : BOOLEAN, speaks : SUBSET Schemes, head : BOOLEAN]]]

VARIABLES
  network,
  scheme,        \* of the target
  explicitPort,  \* the target names its port
  late,          \* the context has ended
  step,          \* "dns", "tcp", "head", "get" or "done"
  left,          \* the schemes not yet given up, the current one first
  checks,        \* the checks made, <<name, scheme, passed>>
  selected       \* <<>>, or <<scheme>> of the SelectedURL

preflightVars == <<network, scheme, explicitPort, late, step, left, checks, selected>>

-----------------------------------------------------------------------------
(* A target with a port is tried on that port with either scheme. *)
Address(s) == IF explicitPort THEN scheme ELSE s

Candidates == IF scheme = "http" THEN <<"http", "https">> ELSE <<"https", "http">>

Resolved == network.resolves

Connects(s) == Resolved /\ network.at[Address(s)].open

Answers(s) == Connects(s) /\ s \in network.at[Address(s)].speaks

AnswersHead(s) == Answers(s) /\ network.at[Address(s)].head

(* The outcomes of a step that succeeds when able. *)
Outcomes(able) ==
  CASE ~able \/ late -> {FALSE}
    [] able /\ ~late /\ network.lossy -> BOOLEAN
    [] OTHER -> {TRUE}

Status == IF selected = <<>> THEN "inconclusive" ELSE "reachable"

-----------------------------------------------------------------------------
PreflightInit ==
  /\ network \in Networks
  /\ scheme \in Schemes /\ explicitPort \in BOOLEAN
  /\ late = FALSE
  /\ step = "dns" /\ left = <<>> /\ checks = <<>> /\ selected = <<>>

Check(name, s, passed) == checks' = Append(checks, <<name, s, passed>>)

(* The next candidate, or the end without an answer. *)
NextScheme ==
  /\ left' = Tail(left)
  /\ step' = IF Len(left) = 1 THEN "done" ELSE "tcp"
  /\ UNCHANGED selected

LookupHost ==
  /\ step = "dns"
  /\ \E found \in Outcomes(Resolved) :
       /\ Check("dns", "", found)
       /\ left' = IF found THEN Candidates ELSE <<>>
       /\ step' = IF found THEN "tcp" ELSE "done"
  /\ UNCHANGED <<network, scheme, explicitPort, late, selected>>

Dial ==
  /\ step = "tcp"
  /\ \E up \in Outcomes(Connects(left[1])) :
       /\ Check("tcp", left[1], up)
       /\ IF up THEN step' = "head" /\ UNCHANGED <<left, selected>> ELSE NextScheme
  /\ UNCHANGED <<network, scheme, explicitPort, late>>

Select ==
  /\ Check("http", left[1], TRUE)
  /\ selected' = <<left[1]>>
  /\ step' = "done"
  /\ UNCHANGED left

(* Slip: a failed HEAD settles the candidate. *)
HeadOnly ==
  /\ step = "head"
  /\ \/ TRUE \in Outcomes(AnswersHead(left[1])) /\ Select
     \/ FALSE \in Outcomes(AnswersHead(left[1])) /\ Check("http", left[1], FALSE) /\ NextScheme
  /\ UNCHANGED <<network, scheme, explicitPort, late>>

(* A failed HEAD leaves no check: GET is tried in its place. *)
TryHead ==
  /\ step = "head"
  /\ \/ TRUE \in Outcomes(AnswersHead(left[1])) /\ Select
     \/ FALSE \in Outcomes(AnswersHead(left[1])) /\ step' = "get" /\ UNCHANGED <<left, checks, selected>>
  /\ UNCHANGED <<network, scheme, explicitPort, late>>

TryGet ==
  /\ step = "get"
  /\ \/ TRUE \in Outcomes(Answers(left[1])) /\ Select
     \/ FALSE \in Outcomes(Answers(left[1])) /\ Check("http", left[1], FALSE) /\ NextScheme
  /\ UNCHANGED <<network, scheme, explicitPort, late>>

PreflightNext == LookupHost \/ Dial \/ TryHead \/ TryGet

-----------------------------------------------------------------------------
(* The verdict fits the network, whatever of HEAD, GET, ports and schemes  *)
(* works: a selected candidate answers and the ones before it failed       *)
(* their checks; and when nothing is lost and the context lives,           *)
(* "inconclusive" means that no candidate answers (preflight.go 103-194).  *)
VerdictFitsNetwork ==
  step = "done" =>
    /\ \A i \in DOMAIN selected : Answers(selected[i]) /\ Last(checks) = <<"http", selected[i], TRUE>>
    /\ (~network.lossy /\ ~late) =>
         /\ selected = <<>> => ~\E s \in Range(Candidates) : Answers(s)
         /\ selected = <<Candidates[2]>> => ~Answers(Candidates[1])
=============================================================================
