-------------------------------- MODULE Scan --------------------------------
(***************************************************************************)
(* One call of Scanner.Scan, pkg/scanner/scanner.go: preflight and crawl,  *)
(* the producer and the workers around the unbuffered channel jobsCh, the  *)
(* verification of what a detector reports (verification.Verify, called    *)
(* through the cache), the coverage tracker, the IDOR phase, and the       *)
(* result, under a context that the caller may cancel and MaxDuration may  *)
(* end.                                                                    *)
(*                                                                         *)
(* The controller and the cache appear as what their own modules show them *)
(* to be: an elastic pool (ElasticPool) whose limit stays between 1 and    *)
(* the number of workers and never below the permits out, and a write-once *)
(* map (OnceMap).  A target's responses are abstracted to whether they     *)
(* carry the detector's evidence.                                          *)
(***************************************************************************)
EXTENDS Integers, Sequences, FiniteSets, Planner

CONSTANTS
  Workers,    \* Config.Workers, as goroutines
  Jobs,       \* the combinations walkJobs visits, in its order
  MaxJobs,    \* Config.MaxJobs
  IdorCells,  \* for each endpoint, the cells of its discovered parameters
  Shows,      \* Shows[k].attack, Shows[k].benign: whether evidence may be seen
              \* for the payload of cache key k, and for the control value
  HasBudget,  \* Config.MaxDuration > 0
  DefaultMaxActions,  \* the planner's bound (20 in the code)
  Unset       \* no cached verdict, no job

Statuses == {"UNVERIFIED", "POTENTIAL", "CONFIRMED", "FALSE_POSITIVE", "INCONCLUSIVE"}

maxProbeAttempts == 2

Keys == {Jobs[j].key : j \in DOMAIN Jobs}
JobCells == {Jobs[j].cell : j \in DOMAIN Jobs}
Ids == {Jobs[j].id : j \in DOMAIN Jobs}
Cells == JobCells \cup UNION {IdorCells[e] : e \in DOMAIN IdorCells}

ASSUME ScanAssumption ==
  /\ IsFiniteSet(Workers) /\ Workers # {}
  /\ Jobs \in Seq([cell : JobCells, key : Keys, id : Ids, checkable : BOOLEAN])
  /\ IdorCells \in Seq(SUBSET Cells)
  /\ Cells \subseteq Nat \X Nat \X Nat
  /\ \A e \in DOMAIN IdorCells : IsFiniteSet(IdorCells[e])
  /\ MaxJobs \in Nat \ {0}
  /\ HasBudget \in BOOLEAN /\ DefaultMaxActions \in Nat \ {0}
  /\ \A k \in Keys : Shows[k].attack \subseteq BOOLEAN /\ Shows[k].attack # {}
  /\ \A k \in Keys : Shows[k].benign \subseteq BOOLEAN /\ Shows[k].benign # {}

(* fingerprint hashes endpoint, parameter and category, which make the     *)
(* cell, and evidence; the hash is taken to be free of collisions.         *)
ASSUME FingerprintAssumption ==
  /\ \A i, j \in DOMAIN Jobs : Jobs[i].id = Jobs[j].id => Jobs[i].cell = Jobs[j].cell
  /\ Ids \cap UNION {IdorCells[e] : e \in DOMAIN IdorCells} = {}

VARIABLES
  caller,      \* the caller's context: "live" or "canceled"
  ctx,         \* the scan's own: "live", "canceled" or "deadline"
  phase,       \* where Scan is
  planned,     \* plannedJobs
  produced,    \* jobs the producer has sent
  producing,   \* jobsCh is not closed yet
  pc, job,     \* where each worker is, with which job
  stage,       \* which probe it makes: "job", "repeat" or "control"
  tries,       \* attempts of that probe so far
  verdict,     \* the status of its finding
  limit,       \* permits in circulation
  cache,       \* settled verdicts
  cov,         \* the coverage tracker
  findings,
  fate,        \* what became of each job
  idor,        \* endpoints the IDOR phase has visited
  report,      \* result.Findings, as a set
  actions,     \* result.NextActions
  exhausted    \* Stats.TimeBudgetExhausted

main == <<phase, planned, idor, report, actions, exhausted>>
flow == <<produced, producing>>
workers == <<pc, job, stage, tries, verdict>>
shared == <<limit, cache, cov, findings, fate>>
vars == <<caller, ctx, main, flow, workers, shared>>

WorkerPCs == {"off", "receiving", "taken", "probing", "wire", "answered", "candidate",
              "attempting", "settled", "marking", "appending", "exited"}

KeyOf(w) == Jobs[job[w]].key
CellOf(w) == Jobs[job[w]].cell

(* Slip: the permit is released when the job is done, not the probe. *)
HoldingAllJob ==
  {w \in Workers : pc[w] \in {"wire", "answered", "candidate", "attempting", "settled",
                              "marking", "appending"}}

(* Workers that hold a permit. *)
Holding == {w \in Workers : pc[w] = "wire"}

(* Workers inside Verify. *)
Verifying == {w \in Workers : stage[w] \in {"repeat", "control"}}

Lesser(a, b) == IF a < b THEN a ELSE b

-----------------------------------------------------------------------------
Init ==
  /\ caller = "live" /\ ctx = "live"
  /\ phase = "preflight"
  /\ planned = 0 /\ produced = 0 /\ producing = FALSE
  /\ pc = [w \in Workers |-> "off"]
  /\ job = [w \in Workers |-> Unset]
  /\ stage = [w \in Workers |-> "job"]
  /\ tries = [w \in Workers |-> 0]
  /\ verdict = [w \in Workers |-> "UNVERIFIED"]
  /\ limit = Cardinality(Workers)
  /\ cache = [k \in Keys |-> Unset]
  /\ cov = <<>>
  /\ findings = <<>>
  /\ fate = [j \in DOMAIN Jobs |-> "unsent"]
  /\ idor = 0
  /\ report = {}
  /\ actions = <<>>
  /\ exhausted = FALSE

Enter(p) == phase' = p

(* Contexts: ctx keeps the reason it ended for. *)
CallerCancels ==
  /\ caller = "live" /\ phase # "returned"
  /\ caller' = "canceled"
  /\ ctx' = IF ctx = "live" THEN "canceled" ELSE ctx
  /\ UNCHANGED <<main, flow, workers, shared>>

DeadlinePasses ==
  /\ HasBudget /\ ctx = "live" /\ phase # "returned"
  /\ ctx' = "deadline"
  /\ UNCHANGED <<caller, main, flow, workers, shared>>

BudgetRanOut == HasBudget /\ caller = "live" /\ ctx = "deadline"

-----------------------------------------------------------------------------
(* The main goroutine.                                                     *)

(* Skipped or reachable; or preflight only, or not reachable. *)
Preflight ==
  /\ phase = "preflight"
  /\ Enter("crawl") \/ Enter("returning")
  /\ UNCHANGED <<caller, ctx, planned, idor, report, actions, exhausted, flow, workers, shared>>

CrawlFails ==
  /\ phase = "crawl"
  /\ Enter(IF BudgetRanOut THEN "returning" ELSE "failing")
  /\ UNCHANGED <<caller, ctx, planned, idor, report, actions, exhausted, flow, workers, shared>>

PlanNext(tracker) == actions' \in Plan(Snapshot(tracker), DefaultMaxActions)

(* Coverage is seeded whatever the corpus gives; no job at all ends the scan *)
(* here, else the workers and the producer are started.                      *)
StartWorkers(total) ==
  /\ phase = "crawl"
  /\ cov' = Seed(cov, Cells)
  /\ planned' = Lesser(total, MaxJobs)
  /\ IF total = 0
     THEN /\ Enter("returning")
          /\ PlanNext(cov')
          /\ UNCHANGED <<pc, producing, limit>>
     ELSE /\ Enter("workers")
          /\ UNCHANGED actions
          /\ producing' = TRUE
          /\ limit' = Lesser(Cardinality(Workers), planned')
          /\ \E started \in SUBSET Workers :
               /\ Cardinality(started) = limit'
               /\ pc' = [w \in Workers |-> IF w \in started THEN "receiving" ELSE "off"]
  /\ UNCHANGED <<caller, ctx, idor, report, exhausted, produced, job, stage, tries, verdict,
                 cache, findings, fate>>

(* wg.Wait returns. *)
WorkersDone ==
  /\ phase = "workers"
  /\ \A w \in Workers : pc[w] \in {"off", "exited"}
  /\ Enter(IF ctx = "live" THEN "idor" ELSE "finalizing")
  /\ UNCHANGED <<caller, ctx, planned, idor, report, actions, exhausted, flow, workers, shared>>

MarkAll(tracker, cells, state) ==
  [c \in DOMAIN tracker |-> IF c \in cells THEN Mark(tracker, c, state)[c] ELSE tracker[c]]

(* ScanIDOR on the next endpoint reports some of its parameters; all of    *)
(* them are marked.                                                        *)
ScanIDOR ==
  /\ phase = "idor" /\ ctx = "live"
  /\ idor < Len(IdorCells)
  /\ idor' = idor + 1
  /\ \E found \in SUBSET IdorCells[idor'] :
       /\ cov' = MarkAll(MarkAll(cov, IdorCells[idor'], "attempted"),
                         found, FromVerificationStatus("UNVERIFIED"))
       /\ \E list \in [1..Cardinality(found) -> found] :
            /\ {list[i] : i \in DOMAIN list} = found
            /\ findings' = findings \o
                 [i \in DOMAIN list |-> [id |-> list[i], cell |-> list[i], key |-> Unset,
                                         status |-> "UNVERIFIED"]]
  /\ UNCHANGED <<caller, ctx, phase, planned, report, actions, exhausted, flow, workers,
                 limit, cache, fate>>

IdorDone ==
  /\ phase = "idor"
  /\ idor = Len(IdorCells) \/ ctx # "live"
  /\ Enter("finalizing")
  /\ UNCHANGED <<caller, ctx, planned, idor, report, actions, exhausted, flow, workers, shared>>

(* dedup keeps the first finding of each fingerprint. *)
dedup(fs) ==
  {fs[i] : i \in {n \in DOMAIN fs : \A m \in 1..(n - 1) : fs[m].id # fs[n].id}}

Finalize ==
  /\ phase = "finalizing"
  /\ report' = dedup(findings)
  /\ PlanNext(cov)
  /\ Enter("returning")
  /\ UNCHANGED <<caller, ctx, planned, idor, exhausted, flow, workers, shared>>

(* The deferred function runs on every return, then the deferred cancel. *)
Return ==
  /\ phase \in {"returning", "failing"}
  /\ exhausted' = BudgetRanOut
  /\ Enter(IF phase = "failing" THEN "failed" ELSE "returned")
  /\ UNCHANGED <<caller, ctx, planned, idor, report, actions, flow, workers, shared>>

-----------------------------------------------------------------------------
(* The producer, streamJobs.                                               *)

Goto(w, label) == pc' = [pc EXCEPT ![w] = label]

(* A send on the unbuffered channel meets a worker that receives.  The     *)
(* select may still send when the context has ended.                       *)
Deliver(w) ==
  /\ producing /\ produced < planned
  /\ pc[w] = "receiving"
  /\ produced' = produced + 1
  /\ job' = [job EXCEPT ![w] = produced']
  /\ fate' = [fate EXCEPT ![produced'] = "taken"]
  /\ Goto(w, "taken")
  /\ UNCHANGED <<caller, ctx, main, producing, stage, tries, verdict, limit, cache, cov, findings>>

(* Slip: the producer stops one job early. *)
CloseJobsEarly ==
  /\ producing
  /\ produced + 1 >= planned \/ ctx # "live"
  /\ producing' = FALSE
  /\ UNCHANGED <<caller, ctx, main, produced, workers, shared>>

CloseJobs ==
  /\ producing
  /\ produced = planned \/ ctx # "live"
  /\ producing' = FALSE
  /\ UNCHANGED <<caller, ctx, main, produced, workers, shared>>

-----------------------------------------------------------------------------
(* A worker.                                                               *)

NoMoreJobs(w) ==
  /\ pc[w] = "receiving" /\ ~producing
  /\ Goto(w, "exited")
  /\ UNCHANGED <<caller, ctx, main, flow, job, stage, tries, verdict, shared>>

(* The check of ctx.Err() at the top of the loop drops the job. *)
DropJob(w) ==
  /\ pc[w] = "taken" /\ ctx # "live"
  /\ fate' = [fate EXCEPT ![job[w]] = "dropped"]
  /\ Goto(w, "exited")
  /\ UNCHANGED <<caller, ctx, main, flow, job, stage, tries, verdict, limit, cache, cov, findings>>

StartJob(w) ==
  /\ pc[w] = "taken" /\ ctx = "live"
  /\ Goto(w, "probing")
  /\ UNCHANGED <<caller, ctx, main, flow, job, stage, tries, verdict, shared>>

(* rawProbe: the permit is held until the probe is over.  Acquire does not *)
(* look at the context.                                                    *)
Acquire(w) ==
  /\ pc[w] = "probing"
  /\ Cardinality(Holding) < limit
  /\ Goto(w, "wire")
  /\ UNCHANGED <<caller, ctx, main, flow, job, stage, tries, verdict, shared>>

Adapt ==
  /\ phase = "workers"
  /\ limit' \in 1..Lesser(Cardinality(Workers), planned)
  /\ Cardinality(Holding) <= limit'
  /\ limit' # limit
  /\ UNCHANGED <<caller, ctx, main, flow, workers, cache, cov, findings, fate>>

JobFails(w) ==
  /\ pc[w] = "wire" /\ stage[w] = "job"
  /\ fate' = [fate EXCEPT ![job[w]] = "failed"]
  /\ Goto(w, "receiving")
  /\ UNCHANGED <<caller, ctx, main, flow, job, stage, tries, verdict, limit, cache, cov, findings>>

JobAnswered(w) ==
  /\ pc[w] = "wire" /\ stage[w] = "job"
  /\ fate' = [fate EXCEPT ![job[w]] = "answered"]
  /\ Goto(w, "answered")
  /\ UNCHANGED <<caller, ctx, main, flow, job, stage, tries, verdict, limit, cache, cov, findings>>

(* The cell is marked attempted and the detector looks for its evidence. *)
Detect(w) ==
  /\ pc[w] = "answered"
  /\ cov' = Mark(cov, CellOf(w), "attempted")
  /\ verdict' = [verdict EXCEPT ![w] = "UNVERIFIED"]
  /\ \E found \in Shows[KeyOf(w)].attack :
       Goto(w, IF ~found THEN "receiving"
               ELSE IF Jobs[job[w]].checkable THEN "candidate" ELSE "marking")
  /\ UNCHANGED <<caller, ctx, main, flow, job, stage, tries, limit, cache, findings, fate>>

(* GetOrCompute: a settled verdict is reused, even one that a failed probe *)
(* left inconclusive; a caller waits while another one verifies.           *)
Reuse(w) ==
  /\ pc[w] = "candidate"
  /\ cache[KeyOf(w)] # Unset
  /\ verdict' = [verdict EXCEPT ![w] = cache[KeyOf(w)]]
  /\ Goto(w, "marking")
  /\ UNCHANGED <<caller, ctx, main, flow, job, stage, tries, shared>>

Verify(w) ==
  /\ pc[w] = "candidate"
  /\ cache[KeyOf(w)] = Unset
  /\ \A q \in Verifying : KeyOf(q) # KeyOf(w)
  /\ stage' = [stage EXCEPT ![w] = "repeat"]
  /\ Goto(w, "attempting")
  /\ UNCHANGED <<caller, ctx, main, flow, job, tries, verdict, shared>>

(* Slip: retries on a dead context. *)
AttemptRegardless(w) ==
  /\ pc[w] = "attempting"
  /\ tries[w] < maxProbeAttempts
  /\ tries' = [tries EXCEPT ![w] = @ + 1]
  /\ Goto(w, "probing")
  /\ UNCHANGED <<caller, ctx, main, flow, job, stage, verdict, shared>>

(* probeWithRetry: at most maxProbeAttempts attempts, none on a dead context. *)
Attempt(w) ==
  /\ pc[w] = "attempting"
  /\ tries[w] < maxProbeAttempts /\ ctx = "live"
  /\ tries' = [tries EXCEPT ![w] = @ + 1]
  /\ Goto(w, "probing")
  /\ UNCHANGED <<caller, ctx, main, flow, job, stage, verdict, shared>>

AttemptFails(w) ==
  /\ pc[w] = "wire" /\ stage[w] # "job"
  /\ Goto(w, "attempting")
  /\ UNCHANGED <<caller, ctx, main, flow, job, stage, tries, verdict, shared>>

Settle(w, status) ==
  /\ verdict' = [verdict EXCEPT ![w] = status]
  /\ Goto(w, "settled")
  /\ UNCHANGED stage

(* Slip: a control probe that failed counts as clean. *)
GiveUpConfirms(w) ==
  /\ pc[w] = "attempting"
  /\ tries[w] = maxProbeAttempts \/ ctx # "live"
  /\ Settle(w, IF stage[w] = "control" THEN "CONFIRMED" ELSE "INCONCLUSIVE")
  /\ UNCHANGED <<caller, ctx, main, flow, job, tries, shared>>

GiveUp(w) ==
  /\ pc[w] = "attempting"
  /\ tries[w] = maxProbeAttempts \/ ctx # "live"
  /\ Settle(w, "INCONCLUSIVE")
  /\ UNCHANGED <<caller, ctx, main, flow, job, tries, shared>>

RepeatAnswered(w) ==
  /\ pc[w] = "wire" /\ stage[w] = "repeat"
  /\ tries' = [tries EXCEPT ![w] = 0]
  /\ \/ /\ FALSE \in Shows[KeyOf(w)].attack
        /\ Settle(w, "POTENTIAL")
     \/ /\ TRUE \in Shows[KeyOf(w)].attack
        /\ stage' = [stage EXCEPT ![w] = "control"]
        /\ Goto(w, "attempting")
        /\ UNCHANGED verdict
  /\ UNCHANGED <<caller, ctx, main, flow, job, shared>>

ControlAnswered(w) ==
  /\ pc[w] = "wire" /\ stage[w] = "control"
  /\ \E evidence \in Shows[KeyOf(w)].benign :
       Settle(w, IF evidence THEN "FALSE_POSITIVE" ELSE "CONFIRMED")
  /\ UNCHANGED <<caller, ctx, main, flow, job, tries, shared>>

(* The verdict is published in the cache. *)
Publish(w) ==
  /\ pc[w] = "settled"
  /\ cache' = [cache EXCEPT ![KeyOf(w)] = verdict[w]]
  /\ stage' = [stage EXCEPT ![w] = "job"]
  /\ tries' = [tries EXCEPT ![w] = 0]
  /\ Goto(w, "marking")
  /\ UNCHANGED <<caller, ctx, main, flow, job, verdict, limit, cov, findings, fate>>

MarkFinding(w) ==
  /\ pc[w] = "marking"
  /\ cov' = Mark(cov, CellOf(w), FromVerificationStatus(verdict[w]))
  /\ Goto(w, "appending")
  /\ UNCHANGED <<caller, ctx, main, flow, job, stage, tries, verdict, limit, cache, findings, fate>>

Finding(w) == [id |-> Jobs[job[w]].id, cell |-> CellOf(w), key |-> KeyOf(w), status |-> verdict[w]]

(* Slip: a finding is dropped when the context has ended. *)
AppendFindingWhileLive(w) ==
  /\ pc[w] = "appending"
  /\ findings' = IF ctx = "live" THEN Append(findings, Finding(w)) ELSE findings
  /\ Goto(w, "receiving")
  /\ UNCHANGED <<caller, ctx, main, flow, job, stage, tries, verdict, limit, cache, cov, fate>>

AppendFinding(w) ==
  /\ pc[w] = "appending"
  /\ findings' = Append(findings, Finding(w))
  /\ Goto(w, "receiving")
  /\ UNCHANGED <<caller, ctx, main, flow, job, stage, tries, verdict, limit, cache, cov, fate>>

-----------------------------------------------------------------------------
MainStep ==
  \/ Preflight \/ CrawlFails \/ WorkersDone \/ ScanIDOR \/ IdorDone \/ Finalize \/ Return
  \/ \E total \in 0..Len(Jobs) : StartWorkers(total)

WorkerStep(w) ==
  \/ NoMoreJobs(w) \/ DropJob(w) \/ StartJob(w)
  \/ JobFails(w) \/ JobAnswered(w) \/ Detect(w) \/ Reuse(w) \/ Verify(w)
  \/ Attempt(w) \/ AttemptFails(w) \/ GiveUp(w) \/ RepeatAnswered(w) \/ ControlAnswered(w)
  \/ Publish(w) \/ MarkFinding(w) \/ AppendFinding(w)

Send == \E w \in Workers : Deliver(w)

Next ==
  \/ MainStep \/ Send \/ CloseJobs \/ Adapt \/ CallerCancels \/ DeadlinePasses
  \/ \E w \in Workers : WorkerStep(w) \/ Acquire(w)

Spec == Init /\ [][Next]_vars

(* Goroutines are scheduled, preflight, crawl and probes are bounded by    *)
(* timeouts, and the channel of permits serves its receivers in turn.      *)
Fairness ==
  /\ WF_vars(MainStep) /\ WF_vars(Send \/ CloseJobs)
  /\ \A w \in Workers : WF_vars(WorkerStep(w)) /\ SF_vars(Acquire(w))

FairSpec == Spec /\ Fairness

-----------------------------------------------------------------------------
(* Once the workers are done, every cell holds "the strongest observation  *)
(* ... regardless of goroutine scheduling" (coverage.go 62-67), and no     *)
(* other: an answered probe, a verified finding, a visit of the IDOR phase.*)
Observed(c) ==
  {"not_attempted"}
  \cup {"attempted" : j \in {i \in DOMAIN Jobs : fate[i] = "answered" /\ Jobs[i].cell = c}}
  \cup {"attempted" : e \in {i \in 1..idor : c \in IdorCells[i]}}
  \cup {FromVerificationStatus(findings[i].status) : i \in {n \in DOMAIN findings : findings[n].cell = c}}

CoverageIsStrongest ==
  (planned > 0 /\ \A w \in Workers : pc[w] \in {"off", "exited", "receiving"}) =>
    \A c \in Cells : cov[c] = Strongest(Observed(c))

(* A verdict says no more than the probes showed, to whichever worker of   *)
(* the same key it went through the cache (verification.go 80-94).         *)
Justified(status, k) ==
  /\ status = "CONFIRMED" => TRUE \in Shows[k].attack /\ FALSE \in Shows[k].benign
  /\ status = "FALSE_POSITIVE" => TRUE \in Shows[k].benign
  /\ status = "POTENTIAL" => FALSE \in Shows[k].attack
VerdictsJustified ==
  \A i \in DOMAIN findings : findings[i].key # Unset => Justified(findings[i].status, findings[i].key)

(* A verdict the coverage snapshot calls verified stands behind a finding  *)
(* of that cell in the report (scanner.go 391-397, 441 and 448).           *)
VerifiedIsReported ==
  phase = "returned" =>
    \A c \in DOMAIN cov : cov[c] = "verified" => \E f \in report : f.cell = c

(* The plan recommends open cells only, each once, as many as the bound    *)
(* allows, and leaves none out that comes before one it takes: an          *)
(* inconclusive cell is never crowded out by an untested one, however the  *)
(* scan ended (planner.go 30-46, scanner.go 254-259 and 441-447).  And     *)
(* "output is deterministic: stable priority ordering, then alphabetical   *)
(* ... every time" (planner.go 40-46): the order in which ranging over the *)
(* map visits the cells does not show.                                     *)
Open == {c \in DOMAIN cov : cov[c] \in {"inconclusive", "not_attempted"}}
Chosen == {actions[i].cell : i \in DOMAIN actions}
RecommendsMostUrgent ==
  (phase = "returned" /\ actions # <<>>) =>
    /\ Chosen \subseteq Open
    /\ \A i, j \in DOMAIN actions : i < j => ActionBefore(actions[i], actions[j])
    /\ Cardinality(Chosen) = Len(actions) /\ Len(actions) <= DefaultMaxActions
    /\ \/ Chosen = Open
       \/ /\ Len(actions) = DefaultMaxActions
          /\ \A c \in Chosen, d \in Open \ Chosen :
               /\ priority[cov[c]] <= priority[cov[d]]
               /\ priority[cov[c]] = priority[cov[d]] => CellBefore(c, d)

(* A scan that nothing stopped ran every planned job and the whole IDOR    *)
(* phase: no job is lost between producer, channel and workers.            *)
CompleteUnlessStopped ==
  (phase = "returned" /\ planned > 0 /\ ctx = "live") =>
    /\ \A j \in 1..planned : fate[j] \in {"answered", "failed"}
    /\ idor = Len(IdorCells)

(* After the context has ended "Scan does not schedule further work"       *)
(* (scanner.go 76-80): no worker enters another probe, not even a retry.   *)
NoNewProbes ==
  [][ctx # "live" => \A w \in Workers : pc'[w] = "probing" => pc[w] = "probing"]_vars

(* Scan returns, whoever waits for a permit, a job or another worker's     *)
(* verification when the context ends, or when it never does; and the      *)
(* producer does not outlive it: a send that no worker will receive is     *)
(* abandoned (scanner.go 590-606).                                         *)
ScanEnds ==
  /\ <>(phase \in {"returned", "failed"})
  /\ producing ~> ~producing
=============================================================================
