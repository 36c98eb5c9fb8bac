# ARFA, specified

ARFA is a web vulnerability scanner written in Go, with a Python `ai-engine`
that post-processes its findings. This directory holds TLA+ modules of the parts
whose correctness depends on interleaving, ordering, failure or arithmetic at a
boundary; TLC configurations that check them on small instances; and proofs,
checked by TLAPS, of the invariants that matter most, for every value of the
constants. `PROJECT.json` maps each definition to the source lines it models.

## The system and its hard parts

One run of `cmd/arfa` is a gate (`preflight`), one call of `Scanner.Scan`, two
report files, and one `Save` in the history. `ai-engine` is a second program that
reads the JSON report.

| Component | State | Operations | What is hard |
|---|---|---|---|
| command line (`cmd/arfa`), report files (`pkg/report`) | the files in the output directory, the exit code | start, gate, scan, write, save, exit | many ways to end early; files of an earlier run; a failure between two files; the exit code must not vouch for what was not written |
| preflight (`pkg/preflight`) | the checks made, the selected URL | `Run` | two schemes, TCP, HEAD, then GET, each of which may fail or be cut by the context |
| scan pipeline (`pkg/scanner`) | job channel, findings, statistics, one context | crawl, seed, start workers and producer, IDOR phase, finalize | many goroutines around one unbuffered channel, a context that ends at any step, a result assembled from concurrent observations |
| job space (`pkg/scanner`), payload corpus (`pkg/payloads`) | none (a walk); the payloads | load, filter noise, select payloads, encode, seed, stream | two separately written loops must agree; budgets and caps at their boundaries; duplicates |
| adaptive controller (`pkg/adaptive`) | token channel, budget, IOUs, window | `Acquire`, `Release`, `Report` | part of `Release` is outside the mutex; a shrink is decided while tokens are out |
| rate limiter (`pkg/ratelimiter`) | interval, next slot | `Wait`, `Feedback` | slots are reserved now and used later, while the interval changes |
| verification cache (`pkg/verification`) | results, calls in flight | `GetOrCompute` | single flight, a waiter outliving the map entry |
| verification engine (`pkg/verification`) | none | `Verify` with a retry | what a failed probe may be taken for |
| coverage tracker (`pkg/coverage`) | a state per cell | `Seed`, `Mark`, `Snapshot` | concurrent marks must converge |
| planner (`pkg/planner`) | none | `Plan` | cut after sort, map order, coverage of a scan that ended early |
| scan history (`pkg/db`) | a file, a lock file, memory per process | `Open`, `Save`, lock, reclaim, retention | several processes, crashes, stale locks, clocks |
| crawler (`pkg/crawler`) | queue, visited URLs, endpoints | `Crawl`, `parsePage`, `CanonicalizeURL` | one page under many spellings, failed pages, a page limit, endpoints merged from many pages |
| IDOR heuristics (`pkg/detectors/idor.go`), authenticated contexts (`pkg/models`) | findings | `ScanIDOR`, `ScanIDORCrossPrincipal`, `NewAuthContext` | a failing principal between others, thresholds, identities that must not be confused, evidence that looks alike |
| `ai-engine` (parser, risk, deduplication, correlation, report, language model) | the findings, stage by stage | `ARFAEngine.process` | input in the order the workers happened to append it, duplicates with contradicting verdicts, scores that must respect verdicts, two redactions either of which may fail |

How they interact. `main` checks the flags and calls `Scan`, which runs the gate,
then the crawl, then seeds coverage and starts `workers` goroutines and a producer.
A worker takes a job, and `rawProbe` wraps every request - the job's own, a
verification's, the IDOR phase's - in `Acquire`, `Wait`, the request, `Feedback`,
`Report`, `Release`. A detector's finding is verified through the cache; the verdict
goes into the coverage tracker and the findings list. After the workers the IDOR
phase runs, then `dedup`, the snapshot and the planner build the result, which
`main` writes as JSON and HTML and saves in the history. `ai-engine` shares no state
with the scanner.

What makes each part correct, in a sentence: a report without findings has a reason
that the user can see; permits are conserved; slots are spaced; a key is verified
once and its callers agree; no saved record is lost and an error means that nothing
was saved; a crawl misses no page it could reach and requests none twice; the
probes made are the cells the coverage is seeded with; coverage, verdicts, findings
and recommendations are backed by one another however the scan ends, and it does
end; everyone who reached another one's record is shown, and nobody else; the
analysis loses nothing, does not depend on the order of its input and ranks what was
disproven last.

## Modules

Each concurrent component is specified in its own module, with a program
counter per goroutine or call and one action per atomic step: a critical section
is one step, what the code does outside the lock is another. The pipeline module
uses the *abstract* behaviour that the component modules are shown to implement.

| Module | Models | State and actions |
|---|---|---|
| `Adaptive` | `adaptive.go` under `rawProbe` | `permits` is the number of tokens in the channel, `pendingSkip` the IOUs. `Release` is two steps: `ReleaseLocked` (the critical section) and `ReturnToken` (the send after the unlock). |
| `ElasticPool` | what `Adaptive` promises | users inside, a target and a limit that follows it |
| `VerifyCache` | `cache.go` | `m`, `calls`, and `heap`, the call structs a waiter still holds after the map entry is gone. `Publish` is the return of `compute` and the second critical section, `Close` the `close(cl.done)` after it. |
| `OnceMap` | what `VerifyCache` promises | clients ask a key, the key is settled once, clients are answered |
| `Limiter` | `limiter.go` under `rawProbe` | time is relative to now: `backlog` is `next - now`, `left[p]` what a caller still sleeps; `Tick` lets time pass |
| `HistoryStore` | `store.go` | the lock file as its creator, whether its body is written (`stamped`) and old (`aged`); `Inspect`, `Judge` and `RemoveAbandoned` are the three steps of a reclamation; removing a lock, here and in `Unlock`, may fail (`LockGoes`, `LockStays`); `Crash` kills a process anywhere |
| `Coverage`, `Planner` | `coverage.go`, `planner.go` | operators on trackers and snapshots; `Scan` extends them |
| `Scan` | `Scanner.Scan` with `Verify` | the main goroutine (`phase`), the producer, the workers (`pc`, `stage`, `tries`), the two contexts, the cache as a write-once map, the controller as a limit that moves |
| `Preflight` | `preflight.go` | `step` and `left` are the position in its loops: `LookupHost`, `Dial`, `TryHead`, `TryGet`; `checks` and `selected` its result |
| `Crawler` | `crawler.go`, `canonical.go` | `queue`, `seen` and `eps` are the code's; one action per round of its loop: `SkipSeen`, `VisitFails`, `Visit`; `log` records the requests for the properties |
| `JobSpace` | `walkJobs`, `streamJobs`, seeding, the noise filter, `payloads.Load` | the endpoints, the mode, the jobs sent so far; `Load` is an operator on the lines of the payload files, and `Scanned` the lines a `bufio.Scanner` gets to see |
| `Command` | `main` and the skeleton of `Scan` | composes `Preflight`, `Crawler` and `JobSpace`: the gate, the crawl, what it hands to the job stream, the result, the two report files (`OpenReport`, `FillReport`), the history and the exit code; `Kill` ends it while it writes |
| `Identity` | `auth_context.go` | the identity of an authenticated context, as the bytes that are hashed |
| `Principals` | `idor.go` with `fingerprint` and `dedup` | one request per step: `Baseline`, `AskNeighbour`, `AskPrincipal`; `similarity` on bodies |
| `Analysis` | `ai-engine` | one action per stage of `ARFAEngine.process`; each stage is an operator on the list of findings; `Ask`, `Answer`, `Quote` are the exchange with the language model |
| `Chains` | from the probes to the report | composes `Principals` and `Analysis`: what is found is written, in any order the map of `dedup` and the unstable sort may leave (`Written`), and read back |
| `Lists` | sorting and filtering | `Listing` of a set by an order, `Sublist` of a list at some places, `Sorts`, all the lists sorting by a comparison may leave: without recursion, so that the provers can reason about them |
| `AdaptiveProofs`, `VerifyCacheProofs`, `HistoryStoreProofs`, `LimiterProofs`, `ScanProofs`, `CommandProofs`, `ChainsProofs` | theorems | |
| `ListProofs` | lemmas | induction, folds, sums, `Lists` |
| `MC*` | small instances | |

`Command` and `Scan` are two views of `Scanner.Scan`. `Command` follows one run from
end to end and abstracts the workers to "jobs are sent, one may hit"; `Scan` has the
workers, and the gate and the crawl as steps that may go either way.

The definitions marked "Slip" in the modules are the code with a plausible bug:
a lost reset, a dropped guard, an off-by-one. No action uses them; putting one in
the place of the definition it follows makes TLC find a violation of the property
that `PROJECT.json` pairs it with, so every property is known to be able to fail.

### What is abstract

* A response is abstracted to "an error", "evidence" or "no evidence". `Shows`
  says which of the two an attack and a benign value may show for a cache key.
* Wording, statistics counters, evidence records and confidence labels are left out.
* In `Scan` the pool and the cache appear as `ElasticPool` and `OnceMap` describe
  them. The limiter does not appear: a probe takes any time.
* `VerifyCache` represents the key, a string joined by `|`, as a tuple.
* `HistoryStore` commits the history in one step: the temp file is private to its
  writer and the rename is atomic. Files in the format before records are not modelled.
* In `Preflight` the network says what could answer; on a lossy one each step may
  fail all the same. Details and durations of the checks are left out.
* In `Command` a report is whole, torn or of an earlier run; what refuses a start
  (flags, configuration, scope) is one Boolean.
* A line in `JobSpace` is its file, an identifier, whether it is usable, whether it
  overflows the buffer it is read into, and whether escaping changes it.
* In `Crawler` a URL is a record of what canonicalization and resolution look at,
  and a page the sequence of its tags that matter; `Marked` URLs have a question mark and
  no parameter. URLs and links that do not
  parse, and schemes other than the target's, are left out.
* In `Principals` a body is a sequence of blocks of ten bytes; two different blocks
  differ at once. That a body reads like a denial is part of the reply. The owner is
  a principal with a probe, as its callers (tests only) ensure.
* In `Analysis` a fingerprint is the tuple it is the hash of, scores are integers in
  hundredths, and `evidence` stands for the eight optional fields that are merged
  alike. The texts of the report are left out, but for the one the language model
  contributes, which is the set of secrets it carries; redaction takes out those in a form
  that it lists (`Redactable`) and leaves the others. `LowerCase` strips and lower-cases.

## Runs

| Run | Instance | Shows |
|---|---|---|
| `adaptive` | 4 workers, 4 permits, window 3 | tokens, permits out and IOUs always add up (`PermitConservation`); a send never blocks and a grow never loses its token (`ChannelNeverFull`); the controller implements `ElasticPool`; a recorded shrink takes effect (`ShrinkRealized`) and nobody starves (`AcquireReturns`) |
| `cache` | 3 callers, 2 keys, one of whose verifications may hang | single flight, only results the candidate may have, refinement of `OnceMap` (agreement, write-once), and callers of other keys return |
| `cache_method` (violation) | a GET and a POST candidate | they share a key, so one is given a verdict of the other |
| `history` | 3 Saves, 2 of them goroutines of one process; 2 records kept; locks grow old, are abandoned and reclaimed within the constraint `Calm` (below); the clock moves between Saves (`QuietTicks`) | exclusion, no lost append, honest outcomes, memory equal to disk, every Save ends, an abandoned lock is reclaimed unless removing it fails; with crashes and failures of every file operation |
| `history_newer_dropped` (violation) | as `history`, but the clock moves at any time and no lock grows old | a record is dropped while one saved before it stays |
| `history_two_reclaimers` (violation) | 3 processes, locks that outlive their process (`NoSlowSave`) | two waiters that judged the same dead lock can both enter |
| `limiter` | 3 callers, intervals 0 to 4 with bounds 2 and 4 | slots stay spaced, none is left unused, every `Wait` returns |
| `scan` | 2 workers, 3 of 4 jobs, a shared and a flaky key, 1 IDOR cell | coverage is the strongest observation, no verdict exceeds its probes, verified cells are in the report, no job is lost, no probe starts on a dead context, the plan takes the most urgent open cells in an order the map does not influence, the scan and its producer end |
| `command` | 16 sites of 3 pages, 2 targets, 3 modes, 4 networks, 7 sets of flags, a page limit of 3 | the gate's verdict fits the network; no page is requested twice, a crawl below its limit has followed every link, endpoints merge all pages and forms; every seeded cell has its jobs, each once, and every job its cell; a report that shows no findings, `[]` or `null`, comes from a scan that ran its jobs, from a target with nothing to test, or with an exit code that says that the gate refused; exit code, files and history agree |
| `command_wrong_scheme` (violation) | as `command` | the gate accepts a target that answers under the other scheme, the scan then asks the given one, and the report is clean |
| `analysis` | every list of up to 3 of 10 findings; 4 principals and 5 replies on an endpoint with one parameter in two spellings, within `Small` | no finding, occurrence, evidence or closed status is lost; permuting the input changes no rank; a disproven finding neither stands for others nor precedes them; who reached the owner's record has a chain in the report for each parameter up to its case, and nobody else |
| `analysis_risk` (violation) | as `analysis` | an unverified finding outranks a confirmed one of its severity |

### Why the bounds suffice

* `adaptive`: four workers can report shrinks and then fill a window of three with
  clean outcomes before any of them releases, so a grow meets outstanding IOUs;
  budgets 1 to 4 and up to three IOUs occur. With the real window of 20 the same
  needs correspondingly more workers.
* `cache`: three callers of one key are a computing one, a waiter, and a late
  comer; the second key lets them disturb each other.
* `history`: an append is lost between two Saves; a third tells the middle
  of a queue from its ends and makes retention choose. Retention by age is not part
  of the run (`MaxAge` = 0), and a clock that moves only while no Save is under way
  tells an early record from a late one; `history_newer_dropped` has both bounds of
  retention and a clock without that bound, and the theorems hold for any of them.
* `limiter`: three sleepers are the least for which the middle slot matters.
  Intervals are small numbers with the order of the code's bounds. `backlog` needs no
  bound: at most three slots are reserved ahead.
* `scan`: two workers race for one key while the third job is a flaky one; the cap
  of three leaves a fourth job out. Three cells compete for two recommendations, and
  the alphabetically last can be the only inconclusive one.
* `command`: three pages are a target, a page and one found only through the
  latter; a fourth URL among the links makes the limit of three bite. The sites
  have links in two spellings, with an explicit port and to another host, and forms
  that are closed, nested, left open and empty; any request may fail. `MaxJobs` = 20
  cuts the longest walks only; budgets are below, at and above the corpus, and absent;
  the corpus has a comment, a duplicate, an overlong line that hides the rest of its file, and an
  empty category; one page has a question mark and no parameter. The networks are one on
  which everything answers but may fail, one that answers GET only, a port that accepts
  and stays silent next to one that speaks either scheme, and a name that does not
  resolve. Gate and crawl meet only in what the one hands to the other, so `Considered`
  takes all sites and modes with one network and no gate, and one site and mode with
  every network, scheme and set of flags.
* `analysis`: a group of three has a strongest and two to merge in either order;
  the findings include every verdict that changes a comparison, both spellings of
  one verdict, equal scores in different groups, and malformed fields. No score of
  the instance is a rounding tie (assumption `NoRoundingTie`). The principals are one
  whose label contains the separator that would join it to its session, the owner in
  disguise, one without a probe between them, and a last one behind all these; the
  replies lie on both sides of each threshold. `Small` leaves out endpoints on which more
  than three kinds of answers are compared, scans that flag more than three findings, and
  the language model for reports that come from the principals, which it treats like the
  given ones: three findings are enough for two deduplications to drop the middle one.

### Fairness

Weak fairness stands for a goroutine that the Go runtime keeps scheduling and for
operations the code bounds by a timeout: HTTP requests (`httpclient` timeout), the
limiter's sleep, crawl and preflight. Strong fairness is assumed of `Acquire` only:
receivers of a Go channel are served in the order of arrival, so a waiting worker
is not overtaken forever. Nothing makes a caller begin an operation, a worker take
another job in `Adaptive`, a context end, or a process crash.

`CHECK_DEADLOCK FALSE` is set where the system stops: a scan returns, the Saves
end, the command exits, the report is written.

## What is proved

For any number of workers, jobs, callers, processes, cells, pages and payloads:

* `AdaptiveProofs`: type correctness, `PermitConservation`, `ChannelNeverFull`,
  and that `Adaptive` implements `ElasticPool`. `PermitConservation` is inductive with
  the types: tokens + permits out = budget + IOUs. That sum never exceeds the
  ceiling because a grow cancels an IOU first.
* `VerifyCacheProofs`: `SingleFlight`, `CallersAgree`, `CachedForGood`, and that
  `VerifyCache` implements `OnceMap`. They say that all callers of a key get one result; that
  it is one their own candidate may have depends on the key, and `cache_method` shows that
  the code's key does not ensure it. The invariant says what a call struct is for: an open
  one belongs to exactly one computing caller, and a waiter's struct, even
  after its entry is gone from the map, carries the published result.
* `LimiterProofs`: type correctness, `SlotsSpaced`, that a throttled answer never
  shortens the interval (`ThrottlingSlows`), and `BacklogIsUsed`. Spacing needs
  that no sleeper's slot lies beyond `backlog`, and that an interval of 0 (a
  requested rate above 10^9 per second) never reserves anything. `BacklogIsUsed` is not
  inductive: a tick wakes those whose time is up, so for *every* t the time reserved more
  than t ahead has to be covered by the callers that sleep longer than t.
* `HistoryStoreProofs`: type correctness, with `MaxRecords` as the bound of the history, and,
  under the premise `[]Calm`, `LockExclusive`, `AppendsOnly`, `ResultsCurrent`,
  `OutcomeHonest` and `DropsInFileOrder`, with crashes, failures and reclamations anywhere.
  `Calm` has two parts: no Save is still inside when its lock is old (`NoSlowSave`), which is
  what `staleLockAge` is for (`store.go:73`), and no two waiters are about to remove a lock
  (`OneReclaimer`). The code ensures neither, and the premise is needed: without the second part
  TLC finds the violation of `history_two_reclaimers`; without the first, a slow Save
  whose old lock was read by a waiter releases it and exits, a third one creates its
  own, and the waiter finds the process dead and removes that. What is proved is that nothing
  else breaks the lock. The invariant: who is inside is alive and
  owns the lock file, an old lock stays where it was seen until the one call that condemns it
  removes it, a draft about to be written is today's history plus one record, and from the
  rename until the unlock draft, file and memory are the same. For the outcomes, a
  record in the file belongs to a call that wrote it, no call has two, and one whose record
  is gone has `MaxRecords` others behind it or is too old. `DropsInFileOrder` is what is left
  of `NeverDropsNewer`: what goes precedes, in the file, what stays.
* `ScanProofs`: `VerdictsJustified`, `CompleteUnlessStopped` and `NoNewProbes`, from one
  inductive invariant, `ScanInv`, of five parts. For the verdicts: a worker that
  makes the control probe has seen evidence in the repeat, and whatever is
  settled, cached or found is justified; the cached verdict is the link between workers.
  For completeness: every job that was sent is with a worker or has its fate, and while
  the context lives no worker leaves before the producer has sent all jobs
  and closed the channel, which is why `wg.Wait` means that all are done.
* `ScanProofs`, the coverage: `CoverageIsStrongest`. `Mark` takes the
  stronger of two states, but it runs before the finding is appended and after the probe is
  answered. So the invariant lets a cell be ahead of what is observed while a worker stands
  between mark and append, and behind it while one stands between answer and
  mark; with no job in hand both exceptions are gone. That no decided job comes back needs
  that two workers never have the same one. `VerifiedIsReported` follows once the list is
  deduplicated: the finding that backs a verified cell may go, but only for another of the
  same fingerprint, which is of the same cell (`FingerprintAssumption`).
* `ScanProofs`, the plan: `RecommendsMostUrgent`, for any cells and bound. Sorting may leave
  one list only, because the order is strict and total on cells (`CellsOrdered`), so
  the order in which the tracker's map is read cannot show; and what a cut of
  a sorted list drops comes after all it keeps. The invariant adds that nothing marks a cell
  between the plan and the return.
* `CommandProofs`, the command: `VerdictFitsNetwork` for any network, and
  `CleanIsExplained` and `ExitCodeHonest` for any site, corpus, network and set of flags.
  The invariant of the gate says what is known at each place of its loops about the
  candidates given up before. The one of the command says at each phase which files are
  written, whether the scan was admitted, and why a list of findings is `null`.
* `CommandProofs`, the crawl: `VisitsOnce`, `CrawlIsClosed` and `SurfaceIsUnion` for sites
  and pages of any size. `VisitsOnce` and `CrawlIsClosed` rest on `LogInv` (the requests are
  the pages seen, each once, in canonical form) and `ClosedInv` (the canonical form of the
  target and of each link of an answered page is seen, or some spelling of it is in the
  queue). For `SurfaceIsUnion`, `EpsInv` says that the endpoints known are what the answered
  pages say: that the parser finds exactly the fields and the forms it should
  (`PageTells`) is an induction over the tokens with the form that is open, the forms that
  are closed and the fields collected so far; what a page adds to the map
  (`PageLearns`) is one over its forms.
* `CommandProofs`, the jobs: `JobsMatchSeeds`. Every loop of the walk runs over things that
  differ - endpoints in URL or method, categories, payload lines after `Load` in identifier,
  parameters after `uniq` and the noise filter, encodings - so the jobs of its rounds are
  apart and the walk repeats none (`WalkCovers`); what is sent is a prefix of the walk.
  That the endpoints differ is the order of `SurfaceIsUnion`.
* `ChainsProofs`: `IdentityInjective`, that label and session are recovered from
  the hashed bytes, *assuming* that the decimal form of a number has no colon
  and determines the number; the first colon ends the length, and the length ends the field.
  That SHA-256 does not collide is outside the model: an identity is what is hashed.
* `ChainsProofs`, the analysis: `NothingLost`, `DisprovenNeverRepresents` and
  `InputOrderInvisible`, for any list of findings. The invariant (`DataInv`) says only which
  list each stage works on; what a stage makes of its list are lemmas about its operator.
  `Deduped` collects them for `deduplicate`: one place for each identifier, which
  shows a finding none of its group is better than, the sum of their occurrences, and an
  absent field only if all of them lack it (`MergedIsMerged`; that a strongest one exists
  is `StrongestIsBest`, since `isBetter` compares lexicographically). `NothingLost` adds that the roll-up lists each place once
  (`RolledOnce`). For `DisprovenNeverRepresents`, a disproven finding scores 0 and any other
  more than 0 (`ScoreSign`), and score is the first thing `isBetter` and the report
  compare. For `InputOrderInvisible`, an exchange keeps the groups as multisets
  (`GroupsAgree`), the best of a group is unique up to its rank (`RanksAgree`), and two
  sorted lists of the same ranks are one (`RanksSorted`).
* `ChainsProofs`, the principals: `AccessorsKeepChains`, for any endpoints, principals and
  replies. `AskInv` says that what was flagged across principals is what was reached, and
  reached by principals that are not the owner in disguise; from there the proof follows one
  finding through both deduplications, the report file in any order, and the gate on the
  verdict; parameters that differ in case only merge into one chain. It is
  where `IdentityInjective` is used: two accessors have two fingerprints.

The assumptions are the named ASSUMEs on the constants; TLC evaluates them in each run.
Most say what the constants are. Those that say something about the world: the order of
URLs as strings is total (`AlphabeticalAssumption`); to give an origin its default port
twice changes nothing more (`CrawlerAssumption`); no detector is registered twice and no
parameter guessed twice (`JobSpaceAssumption`); equal fingerprints of findings mean equal
cells (`FingerprintAssumption`: they are hashes of what contains the cell); fingerprints
that differ have hashes that differ, and hashes are ordered as strings (`Hashed`, assumed of
the inputs in `AnalysisAssumption` and of what the heuristics may flag in
`ChainsAssumption`); the values that stand for an absent field are not among the
present ones (the same two).

### Folds and lists

The provers cannot use the library's induction theorems, which take a predicate as a
parameter. `ListProofs` derives induction as a statement about *sets* from the fact that a
finite set has no infinite descent (`MinimalSet`, `FiniteInduction`, `UpTo`), and from
it that a fold has the values one expects: `TraceExists` says of `FoldLeft` and its like
that there is a sequence of intermediate results, each of which comes from the one before, so
that an invariant of the loop is a set of indices to which `UpTo` applies. Sums
(`SumRemove`, `SumSubset`), sorting (`ListingLists`), the best of a group (`MaxChosen`) and
filtering (`SublistPicks`) are treated alike. This is why the models sort and filter with
`Lists`. A model that relies on a library's sort says that the result is in `Sorts`, and
`SortedAlike` that there is only one such list if the order is strict and total.

### Only model-checked

All liveness, which is out of the provers' reach: `ShrinkRealized`, `AcquireReturns`,
`OthersReturn`, `SaveReturns`, `AbandonedReclaimed`, `WaitReturns`, `ScanEnds`. And
`ResultFitsCandidate`, for an instance without a POST candidate. The violated statements
have no theorem; a premise under which `LockExclusive` does hold is the one above.

## Findings

Five runs end in a violation of a statement the repository makes:
the cache key (`cache_method`), the exclusive lock (`history_two_reclaimers`), retention
(`history_newer_dropped`: `SavedAt` is taken before the lock, `store.go:240`, so the last
records of the file need not be the most recent), the
ranking of unverified findings (`analysis_risk`: LOW, UNVERIFIED, CVSS 10, CERTAIN
scores 29.6; LOW, CONFIRMED, CVSS 1, LOW confidence scores 26), and the gate
(`command_wrong_scheme`): a target given as `http://` that answers https only
passes it, every request of the scan fails, and the run ends with exit code 0 and no
findings.

Observed while modelling, and not clearly contradicted by a document:

* `TimeBudgetExhausted` is set when the deadline has passed by the time `Scan`
  returns, even if nothing was cut short (`scanner.go:164`).
* `-preflight-only` with `-skip-preflight` crawls and tests nothing; like an empty corpus it
  ends with `null` for the findings, which the HTML report and the summary show as "No
  findings.", and with exit code 0 (`scanner.go:182-189`, `254-259`).
* What `Open` and `Save` of the history return is ignored by `main`: exit code 0 does not
  mean that the run is in the history. A fatal error leaves the reports of an earlier run in
  the directory. The HTML report says "No findings." of an unreachable target too.
  Two commands that share an output directory interleave their reports.
* `LoadPayloads` never fails: a missing directory is an empty corpus, and the scan then
  ends without a job.
* The cells of an endpoint are marked attempted by the IDOR phase although the
  context may have ended before their requests (`scanner.go:425`).
* `Scan` calls `ScanIDOR` only; `ScanIDORCrossPrincipal` and `ScanIDORWithContext` are
  reached from tests.
* `interval *= 9 / 10` (`limiter.go:95`) multiplies by an integer constant 0, so one
  success resets the interval to its minimum.
* `reclaimAbandonedLock` checks a lock and then removes a path (`store.go:402-431`): besides the
  finding above, the lock of a third Save may go when the one that was read had a slow holder
  that has just released it and exited.
* A crash between creating and writing the lock file leaves a lock that is never
  reclaimed (`store.go:346-357`); every later Save fails after its timeout.
* The unlock ignores the error of `os.Remove` (`store.go:357`): a lock that stays behind a
  living process blocks every later Save until that process exits and the lock is old.
* A line of the corpus beyond the buffer of `bufio.Scanner` ends its file, and `Load` does
  not ask for the error (`loader.go:44`).
* The scanner's fingerprint tells `id` from `ID`, that of `ai-engine` lower-cases the
  parameter (`scanner_parser.py:100-108`): two findings become one, and their chains too.
* Redaction knows names and patterns (`redaction.py:100-141`); a secret in another form
  reaches the language model.
* Deduplication fills an absent field from the duplicates in the order of the input
  (`deduplicator.py:112`).
* `dedup` keeps the first finding of a fingerprint, which may be weaker than a later
  one (`scanner.go:735`).
* The crawl compares hosts as written: a target with an explicit default port does not
  lead to links without it, though they have one canonical form (`crawler.go:339`).
  Relative links resolve against the target, form actions against their page
  (`crawler.go:338`, `315`). A form action on another host becomes an endpoint.
  A form opened inside another replaces it (`crawler.go:160`).
* A duplicate marked LIKELY and an otherwise equal one marked PROBABLE tie, so the
  order of the input decides which word is shown (`deduplicator.py:109`).
* The language model's health is asked for twice (`generator.py:101`, `161`), so
  `llm_assisted` need not agree with the observations.

## Not modelled

* The HTTP client (one exchange under a timeout; everywhere an answer or an error), the
  detectors and the redaction (text matching; evidence or none, secrets listed or not), the test
  target, the command line and schemas of `ai-engine`, and the scripts.
* Of modelled parts: adoption of histories in the old format and the read-only
  summaries (`pkg/db`), `Set`, `Get` and `Len` of the cache, statistics and evidence records of
  the scan, the fingerprint of the corpus, the contexts attached to single-principal IDOR
  findings, the Markdown report, which nothing calls, and all wording.

What would come next: that `Scan` uses the cache and
the pool only as `OnceMap` and `ElasticPool` allow; a history file that two commands of different
versions share.
