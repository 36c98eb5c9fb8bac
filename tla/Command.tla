------------------------------ MODULE Command ------------------------------
(***************************************************************************)
(* One run of the command, cmd/arfa/main.go, from the flags to the exit    *)
(* code: the gate (Preflight), Scanner.Scan with its crawl (Crawler) and   *)
(* its stream of jobs (JobSpace), and the files it leaves in the output    *)
(* directory, pkg/report/report.go, where those of an earlier run may be.  *)
(* What the workers do with a job is the subject of Scan.                  *)
(***************************************************************************)
EXTENDS Crawler, JobSpace, Preflight

(* accepted: the configuration loads, the target is an absolute http(s)    *)
(* URL, its scan is acknowledged and the directory can be made; corpus:    *)
(* the payload directory holds payloads (an absent one is an empty one);   *)
(* budget: there is a -max-duration; earlier: the files of an earlier run  *)
(* are in the directory.                                                   *)
CONSTANTS
  Flags,
  Considered(_, _)  \* which runs to look at, by the flags and what they meet

ASSUME CommandAssumption ==
  Flags \subseteq [{"accepted", "preflightOnly", "skipPreflight", "corpus", "budget", "earlier"} -> BOOLEAN]

VARIABLES
  flags,
  phase,   \* of main
  hit,     \* a worker has appended a finding
  result,  \* <<>>, or <<what Scan returned>>
  files,   \* the report files and the history
  exit     \* the exit code

commandVars == <<flags, phase, hit, result, files, exit>>
vars == <<crawlVars, jobVars, preflightVars, commandVars>>

Running == -1
Killed == -9

Whole(run) == [of |-> run, whole |-> TRUE]
Torn(run) == [of |-> run, whole |-> FALSE]
Reports == {"json", "html"}

-----------------------------------------------------------------------------
Init ==
  /\ CrawlInit /\ JobsInit /\ PreflightInit
  /\ explicitPort = (target.origin # DefaultPort[target.origin])
  /\ flags \in Flags
  /\ Considered(flags, [network |-> network, scheme |-> scheme, site |-> site, mode |-> mode])
  /\ phase = "start" /\ hit = FALSE /\ result = <<>> /\ exit = Running
  /\ files = [f \in Reports \cup {"history"} |-> Whole(IF flags.earlier THEN "earlier" ELSE "none")]

Start ==
  /\ phase = "start"
  /\ \/ flags.accepted /\ phase' = (IF flags.skipPreflight THEN "crawl" ELSE "preflight") /\ exit' = exit
     \/ ~flags.accepted /\ phase' = "exit" /\ exit' = 1
  /\ UNCHANGED <<crawlVars, jobVars, preflightVars, flags, hit, result, files>>

(* The context of Scan ends at -max-duration. *)
DeadlinePasses ==
  /\ flags.budget /\ ~late /\ phase \in {"preflight", "crawl", "jobs"}
  /\ late' = TRUE
  /\ UNCHANGED <<crawlVars, jobVars, network, scheme, explicitPort, step, left, checks, selected, commandVars>>

(* Scan returns; findings are "null" when it never got to make the list. *)
ReturnResult(list) ==
  /\ result' = <<[findings |-> list, exhausted |-> late]>>
  /\ phase' = "json"

CheckTarget ==
  /\ phase = "preflight"
  /\ PreflightNext
  /\ UNCHANGED <<crawlVars, jobVars, commandVars>>

(* Slip: only the flag ends the scan here. *)
StopsWhenAsked == flags.preflightOnly

StopsAtGate == flags.preflightOnly \/ Status # "reachable"

Gate ==
  /\ phase = "preflight" /\ step = "done"
  /\ \/ StopsAtGate /\ ReturnResult("null")
     \/ ~StopsAtGate /\ phase' = "crawl" /\ result' = result
  /\ UNCHANGED <<crawlVars, jobVars, preflightVars, flags, hit, files, exit>>

(* The crawl and the jobs take the target as it was given, not what the    *)
(* gate selected.                                                          *)
Replies == Outcomes(Answers(scheme))

Crawl ==
  /\ phase = "crawl"
  /\ \/ SkipSeen
     \/ TRUE \in Replies /\ Visit
     \/ FALSE \in Replies /\ VisitFails
     \/ FinishCrawl
  /\ UNCHANGED <<jobVars, preflightVars, commandVars>>

(* With -preflight-only no payloads are loaded. *)
Loaded == flags.corpus /\ ~flags.preflightOnly

HandOver ==
  /\ phase = "crawl" /\ found # <<>>
  /\ TakeSurface(found)
  /\ \/ (~Loaded \/ plannedJobs(surface', mode) = 0) /\ ReturnResult("null")
     \/ Loaded /\ plannedJobs(surface', mode) > 0 /\ phase' = "jobs" /\ result' = result
  /\ UNCHANGED <<crawlVars, preflightVars, flags, hit, files, exit>>

Walk ==
  /\ phase = "jobs"
  /\ Stream
  /\ hit' \in {hit} \cup Replies
  /\ hit => hit'
  /\ UNCHANGED <<crawlVars, preflightVars, flags, phase, result, files, exit>>

(* The jobs are through, or the context has ended. *)
FinishJobs ==
  /\ phase = "jobs"
  /\ late \/ Len(sent) = plannedJobs(surface, mode)
  /\ ReturnResult(IF hit THEN "some" ELSE "empty")
  /\ UNCHANGED <<crawlVars, jobVars, preflightVars, flags, hit, files, exit>>

-----------------------------------------------------------------------------
Fatal == phase' = "exit" /\ exit' = 1

(* A report is truncated, then filled, and either may fail. *)
OpenReport(f) ==
  /\ phase = f /\ files[f] # Torn("this")
  /\ \/ files' = [files EXCEPT ![f] = Torn("this")] /\ UNCHANGED <<phase, exit>>
     \/ Fatal /\ UNCHANGED files
  /\ UNCHANGED <<crawlVars, jobVars, preflightVars, flags, hit, result>>

(* Slip: what could not be written is ignored. *)
FillReportIgnoring(f, next) ==
  /\ phase = f /\ files[f] = Torn("this")
  /\ files' \in {files, [files EXCEPT ![f] = Whole("this")]}
  /\ phase' = next
  /\ UNCHANGED <<crawlVars, jobVars, preflightVars, flags, hit, result, exit>>

FillReport(f, next) ==
  /\ phase = f /\ files[f] = Torn("this")
  /\ \/ files' = [files EXCEPT ![f] = Whole("this")] /\ phase' = next /\ UNCHANGED exit
     \/ Fatal /\ UNCHANGED files
  /\ UNCHANGED <<crawlVars, jobVars, preflightVars, flags, hit, result>>

WriteReports ==
  \/ OpenReport("json") \/ FillReport("json", "html")
  \/ OpenReport("html") \/ FillReport("html", "history")

(* What Open and Save return is ignored; the file changes as a whole. *)
SaveHistory ==
  /\ phase = "history"
  /\ files' \in {files, [files EXCEPT !["history"] = Whole("this")]}
  /\ phase' = "leave"
  /\ UNCHANGED <<crawlVars, jobVars, preflightVars, flags, hit, result, exit>>

ExitCode == IF flags.skipPreflight \/ Status = "reachable" THEN 0 ELSE 3

Leave ==
  /\ phase = "leave"
  /\ phase' = "exit" /\ exit' = ExitCode
  /\ UNCHANGED <<crawlVars, jobVars, preflightVars, flags, hit, result, files>>

(* Killed earlier, the command leaves the directory as it was. *)
Kill ==
  /\ phase \in {"json", "html", "history"}
  /\ phase' = "exit" /\ exit' = Killed
  /\ UNCHANGED <<crawlVars, jobVars, preflightVars, flags, hit, result, files>>

Next ==
  \/ Start \/ DeadlinePasses \/ CheckTarget \/ Gate \/ Crawl \/ HandOver \/ Walk \/ FinishJobs
  \/ WriteReports \/ SaveHistory \/ Leave \/ Kill

Spec == Init /\ [][Next]_vars

-----------------------------------------------------------------------------
(* A report of this run shows no findings: its list is empty, or null,     *)
(* which the HTML page and the summary line do not tell apart.             *)
NoFindings == (\E f \in Reports : files[f] = Whole("this")) /\ result[1].findings # "some"

(* The user asked for no probes, or nothing could be made of corpus and    *)
(* surface.                                                                *)
NothingToTest == ~Loaded \/ (found # <<>> /\ plannedJobs(surface, mode) = 0)

(* A report without findings has one of three reasons: a scan of a target  *)
(* that was reachable, or was not to be checked, streamed every job up to  *)
(* the cap, or says that its time budget ran out; such a target left       *)
(* nothing to test, and the list is null; or the gate stopped the scan,    *)
(* the list is null and the exit code is not 0.  "A target that cannot     *)
(* complete the baseline ... is not misreported as a clean scan"           *)
(* (README.md:31).                                                         *)
CleanIsExplained ==
  NoFindings =>
    LET reached == flags.skipPreflight \/ selected # <<>>
        list == result[1].findings
    IN  \/ reached /\ list = "empty"
           /\ (result[1].exhausted \/ (sent # <<>> /\ Len(sent) = plannedJobs(surface, mode)))
        \/ reached /\ list = "null" /\ NothingToTest /\ sent = <<>>
        \/ ~reached /\ list = "null" /\ exit # 0 /\ sent = <<>>

(* The exit code and the files agree, whichever step failed or was the     *)
(* last: 0 and 3 come with both reports of this run, 0 only after a        *)
(* reachable or unchecked target, 3 only with a report that lists nothing; *)
(* and the history has no run whose reports are missing (main.go 95-106).  *)
ExitCodeHonest ==
  /\ exit \in {0, 3} => \A f \in Reports : files[f] = Whole("this")
  /\ exit = 0 => flags.skipPreflight \/ selected # <<>>
  /\ exit = 3 => result[1].findings = "null"
  /\ files["history"] = Whole("this") => \A f \in Reports : files[f] = Whole("this")

(* A report without findings, after probes were sent to a checked target,  *)
(* means that the target, as it was given, completes the baseline.  The    *)
(* gate is "designed to classify DNS/TCP/HTTP failures as inconclusive     *)
(* and stop the active scan instead of producing a false No                *)
(* vulnerabilities found result" (TEST_RESULTS.md:38).                     *)
CleanMeansBaseline ==
  (NoFindings /\ sent # <<>> /\ ~flags.skipPreflight /\ ~result[1].exhausted) => Answers(scheme)
=============================================================================
