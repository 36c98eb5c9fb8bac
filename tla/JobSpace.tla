------------------------------ MODULE JobSpace ------------------------------
(***************************************************************************)
(* The jobs of a scan, pkg/scanner/scanner.go and noise_filter.go: which   *)
(* combinations of endpoint, detector, payload, parameter and encoding     *)
(* walkJobs visits, in which order, what Scan seeds the coverage with, and *)
(* the producer that streams the first MaxJobs of them.                    *)
(*                                                                         *)
(* The corpus (pkg/payloads/loader.go) is, for each category, the lines of *)
(* its files in the order of Walk; a line is a record [file, id, usable,   *)
(* overlong, unreserved], usable when it is no comment and has at most     *)
(* 2048 bytes, overlong when it does not fit the buffer of a Scanner.      *)
(* Escaping leaves a value of unreserved characters as it is, so its       *)
(* encodings are one and the same probe value; a value is the payload and  *)
(* the form it is sent in.                                                 *)
(***************************************************************************)
EXTENDS Integers, Sequences, FiniteSets, SequencesExt, Lists

CONSTANTS
  Noise,       \* knownNoiseParameters
  Fallback,    \* the parameters guessed for a GET endpoint without any
  Categories,  \* of the registered detectors, in order
  Lines,       \* of the payload files of each category
  Budget,      \* quickBudget and standardBudget, 0 for a category without one
  Escaping,    \* the categories for which Standard adds the "url" encoding
  MaxJobs

Modes == {"quick", "standard", "deep"}

FileLine == [file : Nat, id : Nat, usable : BOOLEAN, overlong : BOOLEAN, unreserved : BOOLEAN]

ASSUME JobSpaceAssumption ==
  /\ MaxJobs \in Nat \ {0}
  /\ Categories \in Seq(STRING) /\ IsInjective(Categories)
  /\ Fallback \in Seq(STRING) /\ IsInjective(Fallback)
  /\ Lines \in [Range(Categories) -> Seq(FileLine)]
  /\ Budget \in [{"quick", "standard"} -> [Range(Categories) -> Nat]]

VARIABLES
  surface,   \* the endpoints to probe; <<>> before there are any
  mode,
  sent       \* the jobs streamed so far

jobVars == <<surface, mode, sent>>

-----------------------------------------------------------------------------
(* An overlong line ends its file, and Load does not ask whether it did.   *)
Scanned(lines) ==
  {i \in DOMAIN lines : \A j \in 1..i : lines[j].overlong => lines[j].file # lines[i].file}

(* Slip: a payload is loaded for every file it is in. *)
LoadEvery(lines) == Sublist(lines, {i \in Scanned(lines) : lines[i].usable})

(* Load: the first of the usable lines with one id. *)
Load(lines) ==
  LET usable == LoadEvery(lines)
  IN  Sublist(usable, {i \in DOMAIN usable : \A j \in 1..(i - 1) : usable[j].id # usable[i].id})

Corpus == [c \in Range(Categories) |-> Load(Lines[c])]

filterNoise(params) == Sublist(params, {i \in DOMAIN params : params[i] \notin Noise})

(* Scan filters both parameter lists of every endpoint. *)
Filtered(eps) ==
  [i \in DOMAIN eps |->
     [eps[i] EXCEPT !.params = filterNoise(@), !.form = filterNoise(@)]]

effectiveParams(ep) == IF ep.params = <<>> THEN Fallback ELSE ep.params

jobParams(ep) == IF ep.method = "POST" THEN ep.form ELSE effectiveParams(ep)

encodings(category, m) ==
  CASE m = "deep" -> <<"plain", "url", "double_url">>
    [] m = "standard" /\ category \in Escaping -> <<"plain", "url">>
    [] OTHER -> <<"plain">>

encode(payload, enc) ==
  [payload |-> payload.id, form |-> IF payload.unreserved THEN "plain" ELSE enc]

selectPayloads(category, m) ==
  LET all == Corpus[category]
      limit == IF m = "deep" THEN 0 ELSE Budget[m][category]
  IN  IF limit = 0 \/ limit > Len(all) THEN all ELSE SubSeq(all, 1, limit)

(* The nest of loops: one list after the other, of the jobs of each turn.  *)
Visited(done, list) == done \o list
InTurn(lists) == FoldLeft(Visited, <<>>, lists)

Job(ep, cat, pl, param, enc) ==
  [url |-> ep.url, method |-> ep.method, param |-> param, category |-> cat,
   value |-> encode(pl, enc), encoding |-> enc]

JobsOfParam(ep, cat, pl, param, m) ==
  [i \in DOMAIN encodings(cat, m) |-> Job(ep, cat, pl, param, encodings(cat, m)[i])]
JobsOfPayload(ep, cat, pl, m) ==
  InTurn([i \in DOMAIN jobParams(ep) |-> JobsOfParam(ep, cat, pl, jobParams(ep)[i], m)])
JobsOfCategory(ep, cat, m) ==
  InTurn([i \in DOMAIN selectPayloads(cat, m) |-> JobsOfPayload(ep, cat, selectPayloads(cat, m)[i], m)])
JobsOfEndpoint(ep, m) ==
  InTurn([i \in DOMAIN Categories |-> JobsOfCategory(ep, Categories[i], m)])

walkJobs(eps, m) == InTurn([i \in DOMAIN eps |-> JobsOfEndpoint(eps[i], m)])

Cell(url, param, category) == <<url, param, category>>

(* Slip: a POST endpoint is seeded with the parameters guessed for GET. *)
SeededCellsOfGet(eps) ==
  UNION { {Cell(ep.url, p, c) : p \in Range(effectiveParams(ep)), c \in Range(Categories)}
          \cup {Cell(ep.url, p, "IDOR") : p \in Range(ep.params)} : ep \in Range(eps) }

(* The cells Scan seeds before any probe, IDOR's included. *)
SeededCells(eps) ==
  UNION { {Cell(ep.url, p, c) : p \in Range(jobParams(ep)), c \in Range(Categories)}
          \cup {Cell(ep.url, p, "IDOR") : p \in Range(ep.params)} : ep \in Range(eps) }

plannedJobs(eps, m) ==
  LET total == Len(walkJobs(eps, m)) IN IF total > MaxJobs THEN MaxJobs ELSE total

-----------------------------------------------------------------------------
JobsInit == surface = <<>> /\ mode \in Modes /\ sent = <<>>

(* Scan takes what Crawl returned. *)
TakeSurface(eps) ==
  /\ surface = <<>>
  /\ surface' = Filtered(eps)
  /\ UNCHANGED <<mode, sent>>

(* streamJobs sends the next job of the walk, up to its limit. *)
Stream ==
  /\ Len(sent) < plannedJobs(surface, mode)
  /\ sent' = Append(sent, walkJobs(surface, mode)[Len(sent) + 1])
  /\ UNCHANGED <<surface, mode>>

-----------------------------------------------------------------------------
CellOf(j) == Cell(j.url, j.param, j.category)

(* The coverage snapshot and the probes agree: every probe belongs to a    *)
(* seeded cell, and when the stream ends below the cap, every seeded cell  *)
(* of a category with payloads has had a job.  The seeding loop of Scan    *)
(* and the walk compute the parameters of an endpoint apart from each      *)
(* other (scanner.go 229-251, 535-572).  And no job is streamed twice,     *)
(* whatever the pages and the payload files repeat.                        *)
JobsMatchSeeds ==
  /\ IsInjective(sent)
  /\ \A i \in DOMAIN sent : CellOf(sent[i]) \in SeededCells(surface)
  /\ (Len(sent) = Len(walkJobs(surface, mode))) =>
       \A cell \in SeededCells(surface) :
         (cell[3] # "IDOR" /\ Corpus[cell[3]] # <<>>) => \E i \in DOMAIN sent : CellOf(sent[i]) = cell
=============================================================================
