---- MODULE CommandProofs ----------------------------
(***************************************************************************)
(* What one run of the command says, for every network, site, corpus and   *)
(* set of flags: the gate, the reports and the exit code; then the crawl   *)
(* (the requests it makes, the pages it knows, the endpoints it learns     *)
(* from their tokens, what it returns) and the jobs walked over them.      *)
(***************************************************************************)
EXTENDS Command, ListProofs, TLAPS

(* The gate: the schemes that are no longer left did not answer, unless    *)
(* the network loses something or the context has ended.                   *)
Tried(s) == (~network.lossy /\ ~late) => ~Answers(s)

First == Candidates[1]
Second == Candidates[2]

Records == {"dns", "tcp", "http"} \X ({""} \cup Schemes) \X BOOLEAN

GateInv ==
  /\ network \in Networks /\ explicitPort \in BOOLEAN /\ late \in BOOLEAN
  /\ scheme \in Schemes
  /\ step \in {"dns", "tcp", "head", "get", "done"}
  /\ checks \in Seq(Records)
  /\ step # "done" => selected = <<>>
  /\ step \in {"tcp", "head", "get"} => left = Candidates \/ (left = <<Second>> /\ Tried(First))
  /\ step = "done" =>
       \/ selected = <<>> /\ Tried(First) /\ Tried(Second)
       \/ selected = <<First>> /\ Answers(First) /\ Last(checks) = <<"http", First, TRUE>>
       \/ selected = <<Second>> /\ Tried(First) /\ Answers(Second) /\ Last(checks) = <<"http", Second, TRUE>>

-----------------------------------------------------------------------------
LEMMA TwoCandidates ==
  ASSUME scheme \in Schemes
  PROVE  /\ Candidates = <<First, Second>> /\ First # Second
         /\ First \in Schemes /\ Second \in Schemes
         /\ Len(Candidates) = 2 /\ Tail(Candidates) = <<Second>>
         /\ Tail(<<Second>>) = <<>> /\ Len(<<Second>>) = 1 /\ <<Second>>[1] = Second
         /\ Range(Candidates) = {First, Second}
<1>1. \/ Candidates = <<"http", "https">> /\ First = "http" /\ Second = "https"
      \/ Candidates = <<"https", "http">> /\ First = "https" /\ Second = "http"
  BY DEF Candidates, First, Second
<1>2. Candidates = <<First, Second>> /\ First # Second /\ First \in Schemes /\ Second \in Schemes
  BY <1>1 DEF Schemes
<1> HIDE DEF First, Second
<1>3. /\ Len(Candidates) = 2 /\ Tail(Candidates) = <<Second>>
      /\ Tail(<<Second>>) = <<>> /\ Len(<<Second>>) = 1 /\ <<Second>>[1] = Second
  BY <1>2
<1>4. Range(Candidates) = {First, Second}
  <2>1. DOMAIN Candidates = {1, 2} /\ Candidates[1] = First /\ Candidates[2] = Second
    BY <1>2
  <2> QED
    BY <2>1 DEF Range
<1> QED
  BY <1>2, <1>3, <1>4

LEMMA LastOfAppend ==
  ASSUME NEW S, NEW q \in Seq(S), NEW r \in S
  PROVE  Append(q, r) \in Seq(S) /\ Last(Append(q, r)) = r
<1>1. Append(q, r) \in Seq(S) /\ Len(Append(q, r)) = Len(q) + 1
  OBVIOUS
<1>2. Append(q, r)[Len(q) + 1] = r
  OBVIOUS
<1> QED
  BY <1>1, <1>2 DEF Last

LEMMA GateInit == Init => GateInv
<1> SUFFICES ASSUME Init  PROVE GateInv
  OBVIOUS
<1>1. <<>> \in Seq(Records)
  OBVIOUS
<1> QED
  BY <1>1 DEF Init, PreflightInit, GateInv

LEMMA GateImplies == GateInv => VerdictFitsNetwork
<1> SUFFICES ASSUME GateInv, step = "done"  PROVE VerdictFitsNetwork
  BY DEF VerdictFitsNetwork
<1>1. Candidates[1] = First /\ Candidates[2] = Second /\ First # Second /\ Range(Candidates) = {First, Second}
  BY TwoCandidates DEF GateInv, First, Second
<1>2. CASE selected = <<>> /\ Tried(First) /\ Tried(Second)
  BY <1>1, <1>2 DEF VerdictFitsNetwork, Tried
<1>3. CASE selected = <<First>> /\ Answers(First) /\ Last(checks) = <<"http", First, TRUE>>
  BY <1>1, <1>3 DEF VerdictFitsNetwork
<1>4. CASE selected = <<Second>> /\ Tried(First) /\ Answers(Second) /\ Last(checks) = <<"http", Second, TRUE>>
  BY <1>1, <1>4 DEF VerdictFitsNetwork, Tried
<1> QED
  BY <1>2, <1>3, <1>4 DEF GateInv

(* One step of the gate. *)
LEMMA GateStep == GateInv /\ PreflightNext => GateInv'
<1> SUFFICES ASSUME GateInv, PreflightNext  PROVE GateInv'
  OBVIOUS
<1> DEFINE s == left[1]
<1>1. UNCHANGED <<network, scheme, explicitPort, late>>
  BY DEF PreflightNext, LookupHost, Dial, TryHead, TryGet
<1>2. /\ Answers(First)' = Answers(First) /\ Answers(Second)' = Answers(Second)
      /\ Tried(First)' = Tried(First) /\ Tried(Second)' = Tried(Second)
      /\ First' = First /\ Second' = Second /\ Candidates' = Candidates
  BY <1>1 DEF First, Second, Candidates, Tried, Answers, Connects, Resolved, Address
<1>3. /\ First \in Schemes /\ Second \in Schemes /\ First # Second
      /\ Candidates = <<First, Second>> /\ Len(Candidates) = 2 /\ Tail(Candidates) = <<Second>>
      /\ Tail(<<Second>>) = <<>> /\ Len(<<Second>>) = 1 /\ <<Second>>[1] = Second /\ Candidates[1] = First
  BY TwoCandidates DEF GateInv, First
<1>4. ASSUME step \in {"tcp", "head", "get"}
      PROVE  \/ left = Candidates /\ s = First /\ Len(left) = 2 /\ Tail(left) = <<Second>>
             \/ left = <<Second>> /\ s = Second /\ Len(left) = 1 /\ Tried(First)
  BY <1>3, <1>4 DEF GateInv
<1>5. ASSUME NEW x \in Schemes
      PROVE  /\ TRUE \in Outcomes(Answers(x)) => Answers(x)
             /\ TRUE \in Outcomes(AnswersHead(x)) => Answers(x)
             /\ FALSE \in Outcomes(Answers(x)) => Tried(x)
             /\ FALSE \in Outcomes(Connects(x)) => Tried(x)
             /\ FALSE \in Outcomes(Resolved) => Tried(x)
  BY <1>5, PreflightAssumption DEF GateInv, Outcomes, Answers, AnswersHead, Connects, Resolved, Address, Tried
<1>6. ASSUME NEW n \in {"dns", "tcp", "http"}, NEW x \in {""} \cup Schemes, NEW b \in BOOLEAN, Check(n, x, b)
      PROVE  checks' \in Seq(Records) /\ Last(checks') = <<n, x, b>>
  <2>1. checks \in Seq(Records) /\ <<n, x, b>> \in Records /\ checks' = Append(checks, <<n, x, b>>)
    BY <1>6 DEF GateInv, Check, Records
  <2> QED
    BY <2>1, LastOfAppend
<1> HIDE DEF s
<1>7. CASE LookupHost
  <2>1. PICK b \in Outcomes(Resolved) :
          /\ Check("dns", "", b)
          /\ left' = IF b THEN Candidates ELSE <<>>
          /\ step' = IF b THEN "tcp" ELSE "done"
    BY <1>7 DEF LookupHost
  <2>2. b \in BOOLEAN /\ step = "dns" /\ selected' = selected /\ selected = <<>>
    BY <1>7, PreflightAssumption DEF LookupHost, Outcomes, GateInv
  <2>3. checks' \in Seq(Records)
    BY <1>6, <2>1, <2>2
  <2>4. CASE b
    BY <1>1, <1>2, <2>1, <2>2, <2>3, <2>4 DEF GateInv
  <2>5. CASE ~b
    <3>1. Tried(First) /\ Tried(Second)
      BY <1>3, <1>5, <2>1, <2>2, <2>5
    <3> QED
      BY <1>1, <1>2, <2>1, <2>2, <2>3, <2>5, <3>1 DEF GateInv
  <2> QED
    BY <2>2, <2>4, <2>5
<1>8. ASSUME step \in {"tcp", "head", "get"}, NextScheme, Tried(s), checks' \in Seq(Records)
      PROVE  GateInv'
  <2>1. CASE left = Candidates /\ s = First /\ Len(left) = 2 /\ Tail(left) = <<Second>>
    <3>1. left' = <<Second>> /\ step' = "tcp" /\ selected' = <<>> /\ Tried(First)'
      BY <1>2, <1>8, <2>1 DEF NextScheme, GateInv
    <3> QED
      BY <1>1, <1>2, <1>8, <3>1 DEF GateInv
  <2>2. CASE left = <<Second>> /\ s = Second /\ Len(left) = 1 /\ Tried(First)
    <3>1. step' = "done" /\ selected' = <<>> /\ Tried(First)' /\ Tried(Second)'
      BY <1>2, <1>8, <2>2 DEF NextScheme, GateInv
    <3> QED
      BY <1>1, <1>2, <1>8, <3>1 DEF GateInv
  <2> QED
    BY <1>4, <1>8, <2>1, <2>2
<1>9. ASSUME step \in {"tcp", "head", "get"}, Select, Answers(s)
      PROVE  GateInv'
  <2>1. s \in Schemes /\ selected' = <<s>> /\ step' = "done" /\ Check("http", s, TRUE)
    BY <1>3, <1>4, <1>9 DEF Select, s
  <2>2. checks' \in Seq(Records) /\ Last(checks') = <<"http", s, TRUE>>
    BY <1>6, <2>1
  <2>3. CASE s = First
    BY <1>1, <1>2, <1>9, <2>1, <2>2, <2>3 DEF GateInv
  <2>4. CASE s = Second /\ Tried(First)
    BY <1>1, <1>2, <1>9, <2>1, <2>2, <2>4 DEF GateInv
  <2> QED
    BY <1>4, <1>9, <2>3, <2>4
<1>10. step \in {"tcp", "head", "get"} => s \in Schemes
  BY <1>3, <1>4
<1>11. CASE Dial
  <2>1. PICK b \in Outcomes(Connects(s)) :
          /\ Check("tcp", s, b)
          /\ IF b THEN step' = "head" /\ UNCHANGED <<left, selected>> ELSE NextScheme
    BY <1>11 DEF Dial, s
  <2>2. b \in BOOLEAN /\ step = "tcp"
    BY <1>11, PreflightAssumption DEF Dial, Outcomes, GateInv
  <2>3. checks' \in Seq(Records)
    BY <1>6, <1>10, <2>1, <2>2
  <2>4. CASE b
    BY <1>1, <1>2, <2>1, <2>2, <2>3, <2>4 DEF GateInv
  <2>5. CASE ~b
    BY <1>5, <1>8, <1>10, <2>1, <2>2, <2>3, <2>5
  <2> QED
    BY <2>2, <2>4, <2>5
<1>12. CASE TryHead
  <2>1. step = "head"
    BY <1>12 DEF TryHead
  <2>2. CASE TRUE \in Outcomes(AnswersHead(s)) /\ Select
    BY <1>5, <1>9, <1>10, <2>1, <2>2
  <2>3. CASE step' = "get" /\ UNCHANGED <<left, checks, selected>>
    BY <1>1, <1>2, <2>1, <2>3 DEF GateInv
  <2> QED
    BY <1>12, <2>2, <2>3 DEF TryHead, s
<1>13. CASE TryGet
  <2>1. step = "get"
    BY <1>13 DEF TryGet
  <2>2. CASE TRUE \in Outcomes(Answers(s)) /\ Select
    BY <1>5, <1>9, <1>10, <2>1, <2>2
  <2>3. CASE FALSE \in Outcomes(Answers(s)) /\ Check("http", s, FALSE) /\ NextScheme
    <3>1. checks' \in Seq(Records)
      BY <1>6, <1>10, <2>1, <2>3
    <3> QED
      BY <1>5, <1>8, <1>10, <2>1, <2>3, <3>1
  <2> QED
    BY <1>13, <2>2, <2>3 DEF TryGet, s
<1> QED
  BY <1>7, <1>11, <1>12, <1>13 DEF PreflightNext

LEMMA GateKept == GateInv /\ [Next]_vars => GateInv'
<1> SUFFICES ASSUME GateInv, [Next]_vars  PROVE GateInv'
  OBVIOUS
<1>1. CASE UNCHANGED preflightVars
  <2>1. UNCHANGED <<network, scheme, explicitPort, late, step, left, checks, selected>>
    BY <1>1 DEF preflightVars
  <2> QED
    BY <2>1 DEF GateInv, First, Second, Candidates, Tried, Answers, Connects, Resolved, Address
<1>2. CASE DeadlinePasses
  <2>1. UNCHANGED <<network, scheme, explicitPort, step, left, checks, selected>> /\ late'
    BY <1>2 DEF DeadlinePasses
  <2>2. Tried(First)' /\ Tried(Second)' /\ late' \in BOOLEAN
    BY <1>2 DEF Tried, DeadlinePasses
  <2> QED
    BY <2>1, <2>2 DEF GateInv, First, Second, Candidates, Answers, Connects, Resolved, Address
<1>3. CASE CheckTarget
  BY <1>3, GateStep DEF CheckTarget
<1> QED
  BY <1>1, <1>2, <1>3
     DEF Next, vars, Start, Gate, Crawl, HandOver, Walk, FinishJobs, WriteReports, OpenReport, FillReport,
         SaveHistory, Leave, Kill

(* A gate that calls a target reachable has had an answer from the         *)
(* candidate it selected and none from the ones before; one that does not  *)
(* has had none, or lost something (preflight.go 103-194).                 *)
THEOREM GateIsRight == Spec => []VerdictFitsNetwork
<1>1. Spec => []GateInv
  BY GateInit, GateKept, PTL DEF Spec
<1> QED
  BY <1>1, GateImplies, PTL

-----------------------------------------------------------------------------
Phases == {"start", "preflight", "crawl", "jobs", "json", "html", "history", "leave", "exit"}
Written(f) == files[f] = Whole("this")

(* main reaches a step only after the ones before it succeeded. *)
FilesInv ==
  /\ phase \in Phases
  /\ DOMAIN files = Reports \cup {"history"}
  /\ phase = "html" => Written("json")
  /\ phase \in {"history", "leave"} => Written("json") /\ Written("html")
  /\ phase \notin {"leave", "exit"} => ~Written("history")
  /\ Written("history") => Written("json") /\ Written("html")
  /\ phase # "exit" => exit = Running
  /\ exit \in {0, 3} => Written("json") /\ Written("html")

Admitted == flags.skipPreflight \/ selected # <<>>
Streamed == sent # <<>> /\ Len(sent) = plannedJobs(surface, mode)

(* What the result of Scan says about the scan. *)
ResultInv ==
  /\ phase \in {"crawl", "jobs"} => Admitted
  /\ phase = "jobs" => plannedJobs(surface, mode) > 0
  /\ phase \in {"start", "preflight", "crawl", "jobs"} => ~Written("json") /\ ~Written("html") /\ result = <<>>
  /\ phase \in {"json", "html", "history", "leave"} => Admitted \/ result[1].findings = "null"
  /\ phase \in {"json", "html", "history", "leave"} => result # <<>>
  /\ Written("json") \/ Written("html") => result # <<>>
  /\ exit = 0 => Admitted
  /\ exit = 3 => result[1].findings = "null"

(* Why there are no findings. *)
Reason ==
  \/ result[1].findings = "some"
  \/ result[1].findings = "empty" /\ Admitted /\ (result[1].exhausted \/ Streamed)
  \/ result[1].findings = "null" /\ sent = <<>> /\ (Admitted => NothingToTest)

ReasonInv ==
  /\ phase = "preflight" => ~flags.skipPreflight
  /\ phase \in {"start", "preflight", "crawl"} => sent = <<>>
  /\ result = <<>> \/ Reason

CommandInv == FilesInv /\ ResultInv

LEMMA CommandInit == Init => CommandInv
BY DEF Init, CommandInv, FilesInv, ResultInv, Phases, Written, Reports, Whole, Running

LEMMA ReasonInit == Init => ReasonInv
BY DEF Init, ReasonInv, JobsInit

LEMMA CommandImplies == CommandInv => ExitCodeHonest
BY DEF CommandInv, FilesInv, ResultInv, Phases, Written, Reports, Admitted, ExitCodeHonest

LEMMA ReasonImplies == CommandInv /\ ReasonInv => CleanIsExplained
<1> SUFFICES ASSUME CommandInv, ReasonInv, NoFindings  PROVE CleanIsExplained
  BY DEF CleanIsExplained
<1>1. Written("json") \/ Written("html")
  BY DEF NoFindings, Written, Reports
<1>2. result # <<>> /\ result[1].findings # "some" /\ (exit = 0 => Admitted)
  BY <1>1 DEF NoFindings, CommandInv, ResultInv
<1> QED
  BY <1>2 DEF ReasonInv, Reason, Admitted, Streamed, CleanIsExplained

LEMMA CommandKept == CommandInv /\ [Next]_vars => CommandInv'
<1> SUFFICES ASSUME CommandInv, [Next]_vars  PROVE CommandInv'
  OBVIOUS
<1> USE DEF CommandInv, FilesInv, ResultInv, Phases, Written, Reports, Whole, Torn, Running, Killed
<1>1. CASE UNCHANGED vars
  BY <1>1 DEF vars, commandVars, jobVars, preflightVars, Admitted, Streamed
<1>2. CASE Start
  BY <1>2 DEF Start, jobVars, preflightVars, Admitted
<1>3. CASE DeadlinePasses
  BY <1>3 DEF DeadlinePasses, commandVars, jobVars, Admitted, Streamed
<1>4. CASE CheckTarget
  BY <1>4 DEF CheckTarget, commandVars, jobVars
<1>5. CASE Gate
  BY <1>5 DEF Gate, ReturnResult, StopsAtGate, Status, Admitted, jobVars, preflightVars
<1>6. CASE Crawl
  BY <1>6 DEF Crawl, commandVars, preflightVars, Admitted
<1>7. CASE HandOver
  BY <1>7 DEF HandOver, ReturnResult, TakeSurface, preflightVars, Admitted
<1>8. CASE Walk
  BY <1>8 DEF Walk, Stream, preflightVars, Admitted
<1>9. CASE FinishJobs
  BY <1>9 DEF FinishJobs, ReturnResult, preflightVars, jobVars, Admitted, Streamed
<1>10. CASE WriteReports
  <2> USE DEF Fatal, preflightVars, jobVars, Admitted, Streamed
  <2>1. \A x : \A f \in Reports : files' = [files EXCEPT ![f] = x] =>
          /\ DOMAIN files' = DOMAIN files /\ files'[f] = x
          /\ \A g \in DOMAIN files : g # f => files'[g] = files[g]
    OBVIOUS
  <2>2. Whole("this") # Torn("this")
    OBVIOUS
  <2> HIDE DEF Whole, Torn
  <2>3. CASE OpenReport("json")
    BY <2>1, <2>2, <2>3 DEF OpenReport
  <2>4. CASE FillReport("json", "html")
    BY <2>1, <2>2, <2>4 DEF FillReport
  <2>5. CASE OpenReport("html")
    BY <2>1, <2>2, <2>5 DEF OpenReport
  <2>6. CASE FillReport("html", "history")
    BY <2>1, <2>2, <2>6 DEF FillReport
  <2> QED
    BY <1>10, <2>3, <2>4, <2>5, <2>6 DEF WriteReports
<1>11. CASE SaveHistory
  BY <1>11 DEF SaveHistory, preflightVars, jobVars, Admitted, Streamed
<1>12. CASE Leave
  BY <1>12 DEF Leave, ExitCode, Status, preflightVars, jobVars, Admitted, Streamed
<1>13. CASE Kill
  BY <1>13 DEF Kill, preflightVars, jobVars, Admitted, Streamed
<1> QED
  BY <1>1, <1>2, <1>3, <1>4, <1>5, <1>6, <1>7, <1>8, <1>9, <1>10, <1>11, <1>12, <1>13 DEF Next

(* Before Scan returns there is no result; afterwards nothing it was made  *)
(* from changes.                                                           *)
LEMMA ReasonKept == CommandInv /\ ReasonInv /\ [Next]_vars => ReasonInv'
<1> SUFFICES ASSUME CommandInv, ReasonInv, [Next]_vars  PROVE ReasonInv'
  OBVIOUS
<1>1. ASSUME UNCHANGED <<found, surface, mode, sent, selected, flags, result>>,
             phase' \in {"start", "preflight", "crawl"} => phase' = phase
      PROVE  ReasonInv'
  <2>1. Admitted' = Admitted /\ Streamed' = Streamed /\ NothingToTest' = NothingToTest
    BY <1>1 DEF Admitted, Streamed, NothingToTest, Loaded
  <2>2. Reason' = Reason
    BY <1>1, <2>1 DEF Reason
  <2> QED
    BY <1>1, <2>2 DEF ReasonInv
<1>2. ASSUME result' = <<>>, phase' = "preflight" => ~flags'.skipPreflight,
             phase' \in {"start", "preflight", "crawl"} => sent' = <<>>
      PROVE  ReasonInv'
  BY <1>2 DEF ReasonInv
<1>3. phase \in {"start", "preflight", "crawl", "jobs"} => result = <<>>
  BY DEF CommandInv, ResultInv
<1>4. CASE UNCHANGED vars
  BY <1>1, <1>4 DEF vars, crawlVars, commandVars, jobVars, preflightVars
<1>5. CASE Start
  <2>1. result = <<>> /\ sent = <<>>
    BY <1>3, <1>5 DEF Start, ReasonInv
  <2> QED
    BY <1>2, <1>5, <2>1 DEF Start, jobVars
<1>6. CASE DeadlinePasses
  BY <1>1, <1>6 DEF DeadlinePasses, crawlVars, jobVars, commandVars
<1>7. CASE CheckTarget
  BY <1>2, <1>3, <1>7 DEF CheckTarget, commandVars, jobVars, ReasonInv
<1>8. CASE Gate
  <2>1. sent = <<>> /\ result = <<>> /\ ~flags.skipPreflight
    BY <1>3, <1>8 DEF Gate, ReasonInv
  <2>2. UNCHANGED <<sent, selected, flags>>
    BY <1>8 DEF Gate, jobVars, preflightVars
  <2>3. CASE StopsAtGate /\ ReturnResult("null")
    <3>1. phase' = "json" /\ result'[1].findings = "null"
      BY <2>3 DEF ReturnResult
    <3>2. Admitted' => NothingToTest'
      BY <2>1, <2>2, <2>3 DEF StopsAtGate, Status, Admitted, NothingToTest, Loaded
    <3> QED
      BY <2>1, <2>2, <3>1, <3>2 DEF ReasonInv, Reason
  <2>4. CASE phase' = "crawl" /\ result' = result
    BY <1>2, <2>1, <2>2, <2>4
  <2> QED
    BY <1>8, <2>3, <2>4 DEF Gate
<1>9. CASE Crawl
  BY <1>2, <1>3, <1>9 DEF Crawl, commandVars, jobVars, ReasonInv
<1>10. CASE HandOver
  <2>1. sent = <<>> /\ result = <<>> /\ sent' = sent /\ mode' = mode /\ found' = found /\ found # <<>>
    BY <1>3, <1>10 DEF HandOver, TakeSurface, ReasonInv, crawlVars
  <2>2. CASE (~Loaded \/ plannedJobs(surface', mode) = 0) /\ ReturnResult("null")
    <3>1. phase' = "json" /\ result'[1].findings = "null" /\ flags' = flags
      BY <1>10, <2>2 DEF HandOver, ReturnResult
    <3>2. NothingToTest'
      BY <2>1, <2>2, <3>1 DEF NothingToTest, Loaded
    <3> QED
      BY <2>1, <3>1, <3>2 DEF ReasonInv, Reason
  <2>3. CASE phase' = "jobs" /\ result' = result
    BY <1>2, <2>1, <2>3
  <2> QED
    BY <1>10, <2>2, <2>3 DEF HandOver
<1>11. CASE Walk
  BY <1>2, <1>3, <1>11 DEF Walk
<1>12. CASE FinishJobs
  <2>1. UNCHANGED <<surface, mode, sent, selected, flags, late>>
    BY <1>12 DEF FinishJobs, jobVars, preflightVars
  <2>2. /\ phase' = "json" /\ result'[1].findings \in {"some", "empty"}
        /\ result'[1].exhausted = late
    BY <1>12 DEF FinishJobs, ReturnResult
  <2>3. Admitted /\ (late \/ Streamed)
    <3>1. plannedJobs(surface, mode) > 0 /\ Admitted /\ (late \/ Len(sent) = plannedJobs(surface, mode))
      BY <1>12 DEF FinishJobs, CommandInv, ResultInv
    <3>2. Len(<<>>) = 0
      OBVIOUS
    <3> QED
      BY <3>1, <3>2 DEF Streamed
  <2>4. Admitted' /\ (Streamed => Streamed')
    BY <2>1, <2>3 DEF Admitted, Streamed
  <2> QED
    BY <2>2, <2>3, <2>4 DEF ReasonInv, Reason
<1>13. CASE WriteReports \/ SaveHistory \/ Leave \/ Kill
  <2>1. UNCHANGED <<found, surface, mode, sent, selected, flags, result>>
    BY <1>13 DEF WriteReports, OpenReport, FillReport, SaveHistory, Leave, Kill, crawlVars, jobVars, preflightVars
  <2>2. phase' \in {phase, "html", "history", "leave", "exit"}
    BY <1>13 DEF WriteReports, OpenReport, FillReport, Fatal, SaveHistory, Leave, Kill
  <2> QED
    BY <1>1, <2>1, <2>2
<1> QED
  BY <1>4, <1>5, <1>6, <1>7, <1>8, <1>9, <1>10, <1>11, <1>12, <1>13 DEF Next

(* A report without findings, its list empty or null, is explained: the    *)
(* scan streamed every job or says that its time ran out, there was        *)
(* nothing to test, or the gate stopped it and the exit code is not 0      *)
(* (README.md:31; Scan, scanner.go 182-189, 253-259 and 402-451).          *)
THEOREM CleanHasReason == Spec => []CleanIsExplained
<1>1. Init => CommandInv /\ ReasonInv
  BY CommandInit, ReasonInit
<1>2. CommandInv /\ ReasonInv /\ [Next]_vars => (CommandInv /\ ReasonInv)'
  BY CommandKept, ReasonKept
<1> QED
  BY <1>1, <1>2, ReasonImplies, PTL DEF Spec

(* The exit code vouches for nothing that was not written (main.go 95-106).*)
THEOREM ExitIsHonest == Spec => []ExitCodeHonest
<1>1. Spec => []CommandInv
  BY CommandInit, CommandKept, PTL DEF Spec
<1> QED
  BY <1>1, CommandImplies, PTL

-----------------------------------------------------------------------------
(* The crawl. *)
Unrepeated(X) == {q \in Seq(X) : \A i, j \in 1..Len(q) : q[i] = q[j] => i = j}

LEMMA AddNewTypes ==
  ASSUME NEW X, NEW q \in Unrepeated(X), NEW x \in X
  PROVE  AddNew(q, x) \in Unrepeated(X) /\ Range(AddNew(q, x)) = Range(q) \cup {x}
<1>1. q \in Seq(X) /\ Len(q) \in Nat /\ Range(q) = {q[i] : i \in 1..Len(q)}
  BY DEF Unrepeated, Range
<1>2. CASE x \in Range(q)
  BY <1>2 DEF AddNew
<1>3. CASE x \notin Range(q)
  <2>1. PICK r : r = Append(q, x)
    OBVIOUS
  <2>2. r \in Seq(X) /\ Len(r) = Len(q) + 1 /\ r[Len(q) + 1] = x /\ \A i \in 1..Len(q) : r[i] = q[i]
    BY <1>1, <2>1
  <2>3. \A i, j \in 1..Len(r) : r[i] = r[j] => i = j
    <3>1. \A i \in 1..Len(r) : i \in 1..Len(q) \/ i = Len(q) + 1
      BY <1>1, <2>2
    <3> QED
      BY <1>1, <1>3, <2>2, <3>1 DEF Unrepeated
  <2>4. Range(r) = Range(q) \cup {x}
    <3>1. Range(r) = {r[i] : i \in 1..(Len(q) + 1)}
      BY <2>2 DEF Range
    <3>2. Len(q) + 1 \in 1..(Len(q) + 1) /\ \A i \in 1..(Len(q) + 1) : i \in 1..Len(q) \/ i = Len(q) + 1
      BY <1>1
    <3> QED
      BY <1>1, <2>2, <3>1, <3>2
  <2> QED
    BY <1>3, <2>1, <2>2, <2>3, <2>4 DEF AddNew, Unrepeated
<1> QED
  BY <1>2, <1>3

LEMMA UniqSteps ==
  ASSUME NEW X, NEW s \in Seq(X)
  PROVE  \E g \in [0..Len(s) -> Unrepeated(X)] :
           /\ g[0] = <<>> /\ \A k \in 1..Len(s) : g[k] = AddNew(g[k - 1], s[k])
           /\ uniq(s) = g[Len(s)]
<1> DEFINE n == Len(s)
           V == Unrepeated(X)
           f == [p \in (1..n) \X V |-> AddNew(p[2], s[p[1]])]
           Is(k) == k = [A \in SUBSET (1..n) |-> IF A = {} THEN <<>> ELSE AddNew(k[A \ {Max(A)}], s[Max(A)])]
           iter == CHOOSE k : Is(k)
<1>1. n \in Nat /\ DOMAIN s = 1..n
  OBVIOUS
<1>2. uniq(s) = iter[1..n]
  BY <1>1 DEF uniq, FoldLeft, MapThenFoldSet, AddNew
<1>3. <<>> \in V
  BY DEF Unrepeated
<1>4. f \in [(1..n) \X V -> V]
  BY AddNewTypes
<1>5. PICK g : Trace(g, n, V, <<>>, f)
  <2> HIDE DEF f, V, n
  <2> QED
    BY <1>1, <1>3, <1>4, TraceExists
<1> HIDE DEF V, n
<1>6. PICK h \in [SUBSET (1..n) -> V] : Obeys(h, n, V, <<>>, f)
  BY <1>5 DEF Trace
<1>7. \A A \in SUBSET (1..n) : \A v \in V : A # {} => f[<<Max(A), v>>] = AddNew(v, s[Max(A)])
  <2>1. \A A \in SUBSET (1..n) : A # {} => Max(A) \in 1..n
    BY <1>5 DEF Trace
  <2> QED
    BY <2>1
<1>8. Is(iter)
  <2>1. ASSUME NEW A \in SUBSET (1..n)
        PROVE  h[A] = IF A = {} THEN <<>> ELSE AddNew(h[A \ {Max(A)}], s[Max(A)])
    <3> HIDE DEF f
    <3>1. A # {} => A \ {Max(A)} \in SUBSET (1..n) /\ h[A \ {Max(A)}] \in V
      OBVIOUS
    <3> QED
      BY <1>6, <1>7, <3>1 DEF Obeys
  <2>2. Is(h)
    BY <2>1
  <2> HIDE DEF Is
  <2> QED
    BY <2>2, Zenon
<1>9. iter[1..n] = g[n]
  <2> HIDE DEF iter
  <2>1. Obeys(iter, n, V, <<>>, f)
    <3> HIDE DEF f
    <3> QED
      BY <1>7, <1>8 DEF Obeys
  <2> HIDE DEF f, Is
  <2> QED
    BY <1>5, <2>1 DEF Trace
<1>10. ASSUME NEW k \in 1..n  PROVE g[k] = AddNew(g[k - 1], s[k])
  <2>1. g[k - 1] \in V /\ g[k] = f[<<k, g[k - 1]>>]
    <3> HIDE DEF f
    <3> QED
      BY <1>1, <1>5 DEF Trace
  <2> QED
    BY <2>1
<1>11. g[0] = <<>> /\ g \in [0..n -> V]
  BY <1>5 DEF Trace
<1> HIDE DEF f, Is, iter
<1>12. uniq(s) = g[n]
  BY <1>2, <1>9
<1> QED
  BY <1>10, <1>11, <1>12 DEF n, V

-----------------------------------------------------------------------------
(* The tokens of a page, folded into links, names and forms. *)
Methods == {"GET", "POST"}
Form == [method : Methods, action : {r \in Seq(Reference) : Len(r) <= 1}, fields : Seq(STRING)]
Page == [links : Seq(Reference), names : Seq(STRING), forms : Seq(Form), current : {c \in Seq(Form) : Len(c) <= 1}]

LEMMA NextTokenTypes ==
  ASSUME NEW page \in Page, NEW t \in Tokens
  PROVE  NextToken(page, t) \in Page
<1>1. /\ t.ref \in Seq(Reference) /\ Len(t.ref) <= 1 /\ t.name \in STRING
      /\ t.tag \in {"link", "form", "form/", "endform", "field"}
  BY DEF Tokens
<1>2. /\ page.links \in Seq(Reference) /\ page.names \in Seq(STRING) /\ page.forms \in Seq(Form)
      /\ page.current \in Seq(Form) /\ Len(page.current) <= 1
      /\ page = [links |-> page.links, names |-> page.names, forms |-> page.forms, current |-> page.current]
  BY DEF Page
<1>3. page.links \o t.ref \in Seq(Reference)
  BY <1>1, <1>2
<1>4. t.tag \in {"form", "form/"} => NewForm(t) \in Form
  <2>1. t.tag \in {"form", "form/"} => t.method \in Methods
    BY DEF Tokens, Methods
  <2> QED
    BY <1>1, <2>1 DEF NewForm, Form
<1>5. CASE t.tag = "link"
  BY <1>2, <1>3, <1>5 DEF NextToken, Page
<1>6. CASE t.tag = "form"
  <2>1. <<NewForm(t)>> \in Seq(Form) /\ Len(<<NewForm(t)>>) = 1
    BY <1>4, <1>6
  <2>2. NextToken(page, t) = [page EXCEPT !.links = @ \o t.ref, !.current = <<NewForm(t)>>]
    BY <1>6 DEF NextToken
  <2>3. NextToken(page, t).current = <<NewForm(t)>> /\ NextToken(page, t).links = page.links \o t.ref
        /\ NextToken(page, t) = [links |-> page.links \o t.ref, names |-> page.names, forms |-> page.forms,
                                 current |-> <<NewForm(t)>>]
    BY <1>2, <2>2
  <2> QED
    BY <1>2, <1>3, <2>1, <2>3 DEF Page
<1>7. CASE t.tag = "form/"
  <2>1. Append(page.forms, NewForm(t)) \in Seq(Form)
    BY <1>2, <1>4, <1>7
  <2>2. NextToken(page, t) = [page EXCEPT !.links = @ \o t.ref, !.forms = Append(@, NewForm(t))]
    BY <1>7 DEF NextToken
  <2> QED
    BY <1>2, <1>3, <2>1, <2>2 DEF Page
<1>8. CASE t.tag = "endform"
  <2>1. page.forms \o page.current \in Seq(Form)
    BY <1>2
  <2>2. NextToken(page, t) = [page EXCEPT !.forms = @ \o page.current, !.current = <<>>]
    BY <1>8 DEF NextToken
  <2>3. <<>> \in {c \in Seq(Form) : Len(c) <= 1}
    OBVIOUS
  <2> QED
    BY <1>2, <2>1, <2>2, <2>3 DEF Page
<1>9. CASE t.tag = "field"
  <2> DEFINE current == [i \in DOMAIN page.current |-> AddField(page.current[i], t.name)]
  <2>1. Append(page.names, t.name) \in Seq(STRING)
    BY <1>1, <1>2
  <2>2. \A i \in DOMAIN page.current : AddField(page.current[i], t.name) \in Form
    <3> SUFFICES ASSUME NEW i \in DOMAIN page.current
                 PROVE  AddField(page.current[i], t.name) \in Form
      OBVIOUS
    <3>1. page.current[i] \in Form
      BY <1>2
    <3>2. Append(page.current[i].fields, t.name) \in Seq(STRING)
      BY <1>1, <3>1 DEF Form
    <3> QED
      BY <3>1, <3>2 DEF Form, AddField
  <2>3. current \in Seq(Form) /\ Len(current) = Len(page.current)
    <3>1. DOMAIN page.current = 1..Len(page.current) /\ Len(page.current) \in Nat
      BY <1>2
    <3> QED
      BY <2>2, <3>1
  <2>4. NextToken(page, t) = [page EXCEPT !.names = Append(@, t.name), !.current = current]
    BY <1>9 DEF NextToken
  <2> HIDE DEF current
  <2> QED
    BY <1>2, <2>1, <2>3, <2>4 DEF Page
<1> QED
  BY <1>1, <1>5, <1>6, <1>7, <1>8, <1>9

(* The pages after each token. *)
Parses(g, tokens) ==
  /\ g \in [0..Len(tokens) -> Page]
  /\ g[0] = EmptyPage
  /\ \A k \in 1..Len(tokens) : g[k] = NextToken(g[k - 1], tokens[k])
  /\ parsePage(tokens) =
       [links |-> g[Len(tokens)].links, names |-> g[Len(tokens)].names,
        forms |-> g[Len(tokens)].forms \o g[Len(tokens)].current]

LEMMA ParseSteps ==
  ASSUME NEW s \in Seq(Tokens)
  PROVE  \E g : Parses(g, s)
<1> DEFINE n == Len(s)
           V == Page
           f == [p \in (1..n) \X V |-> NextToken(p[2], s[p[1]])]
           Is(k) == k = [A \in SUBSET (1..n) |-> IF A = {} THEN EmptyPage ELSE NextToken(k[A \ {Max(A)}], s[Max(A)])]
           iter == CHOOSE k : Is(k)
           end == FoldLeft(NextToken, EmptyPage, s)
<1>1. n \in Nat /\ DOMAIN s = 1..n
  OBVIOUS
<1>2. end = iter[1..n]
  BY <1>1 DEF FoldLeft, MapThenFoldSet
<1>3. EmptyPage \in V
  BY DEF EmptyPage, Page
<1>4. f \in [(1..n) \X V -> V]
  BY NextTokenTypes
<1>5. PICK g : Trace(g, n, V, EmptyPage, f)
  <2> HIDE DEF f, V, n
  <2> QED
    BY <1>1, <1>3, <1>4, TraceExists
<1> HIDE DEF V, n
<1>6. PICK h \in [SUBSET (1..n) -> V] : Obeys(h, n, V, EmptyPage, f)
  BY <1>5 DEF Trace
<1>7. \A A \in SUBSET (1..n) : \A v \in V : A # {} => f[<<Max(A), v>>] = NextToken(v, s[Max(A)])
  <2>1. \A A \in SUBSET (1..n) : A # {} => Max(A) \in 1..n
    BY <1>5 DEF Trace
  <2> QED
    BY <2>1
<1>8. Is(iter)
  <2>1. ASSUME NEW A \in SUBSET (1..n)
        PROVE  h[A] = IF A = {} THEN EmptyPage ELSE NextToken(h[A \ {Max(A)}], s[Max(A)])
    <3> HIDE DEF f
    <3>1. A # {} => A \ {Max(A)} \in SUBSET (1..n) /\ h[A \ {Max(A)}] \in V
      OBVIOUS
    <3> QED
      BY <1>6, <1>7, <3>1 DEF Obeys
  <2>2. Is(h)
    BY <2>1
  <2> HIDE DEF Is
  <2> QED
    BY <2>2, Zenon
<1>9. iter[1..n] = g[n]
  <2> HIDE DEF iter
  <2>1. Obeys(iter, n, V, EmptyPage, f)
    <3> HIDE DEF f
    <3> QED
      BY <1>7, <1>8 DEF Obeys
  <2> HIDE DEF f, Is
  <2> QED
    BY <1>5, <2>1 DEF Trace
<1>10. ASSUME NEW k \in 1..n  PROVE g[k] = NextToken(g[k - 1], s[k])
  <2>1. g[k - 1] \in V /\ g[k] = f[<<k, g[k - 1]>>]
    <3> HIDE DEF f
    <3> QED
      BY <1>1, <1>5 DEF Trace
  <2> QED
    BY <2>1
<1>11. g[0] = EmptyPage /\ g \in [0..n -> V]
  BY <1>5 DEF Trace
<1> HIDE DEF f, Is, iter
<1>12. end = g[n]
  BY <1>2, <1>9
<1>13. parsePage(s) = [links |-> end.links, names |-> end.names, forms |-> end.forms \o end.current]
  BY DEF parsePage
<1> HIDE DEF end
<1> QED
  BY <1>10, <1>11, <1>12, <1>13 DEF n, V, Parses

(* Every reference of a page is among its links. *)
LEMMA PageLinks ==
  ASSUME NEW s \in Seq(Tokens)
  PROVE  /\ parsePage(s).links \in Seq(Reference)
         /\ parsePage(s).names \in Seq(STRING)
         /\ parsePage(s).forms \in Seq(Form)
         /\ \A i \in 1..Len(s) : s[i].ref # <<>> =>
              \E j \in 1..Len(parsePage(s).links) : parsePage(s).links[j] = s[i].ref[1]
<1> DEFINE n == Len(s)
           Has(l, r) == \E j \in 1..Len(l) : l[j] = r
<1>1. PICK g : Parses(g, s)
  BY ParseSteps
<1> DEFINE T == {k \in 0..n : \A i \in 1..k : s[i].ref # <<>> => Has(g[k].links, s[i].ref[1])}
<1>2. n \in Nat /\ g \in [0..n -> Page]
  BY <1>1 DEF Parses
<1>3. ASSUME NEW l \in Seq(Reference), NEW m \in Seq(Reference), NEW r
      PROVE  /\ Has(l, r) => Has(l \o m, r)
             /\ Has(m, r) => Has(l \o m, r)
  <2>1. PICK q : q = l \o m
    OBVIOUS
  <2>2. /\ Len(l) \in Nat /\ Len(m) \in Nat /\ Len(q) = Len(l) + Len(m)
        /\ \A j \in 1..Len(l) : q[j] = l[j]
        /\ \A j \in 1..Len(m) : q[Len(l) + j] = m[j]
    BY <2>1
  <2>3. (\A j \in 1..Len(l) : j \in 1..Len(q)) /\ (\A j \in 1..Len(m) : Len(l) + j \in 1..Len(q))
    BY <2>2
  <2> QED
    BY <2>1, <2>2, <2>3
<1>4. ASSUME NEW k \in 0..(n - 1), k \in T  PROVE k + 1 \in T
  <2>1. /\ g[k] \in Page /\ s[k + 1] \in Tokens /\ g[k + 1] = NextToken(g[k], s[k + 1])
        /\ k + 1 \in 1..n /\ k + 1 \in 0..n /\ (k + 1) - 1 = k
    BY <1>1, <1>2 DEF Parses
  <2>2. g[k].links \in Seq(Reference) /\ s[k + 1].ref \in Seq(Reference) /\ Len(s[k + 1].ref) <= 1
    BY <2>1 DEF Page, Tokens
  <2>3. s[k + 1].tag \in {"link", "form", "form/"} \/ s[k + 1].ref = <<>>
    BY <2>1 DEF Tokens
  <2>4. g[k + 1].links = g[k].links \o s[k + 1].ref \/ (g[k + 1].links = g[k].links /\ s[k + 1].ref = <<>>)
    <3>1. g[k] = [links |-> g[k].links, names |-> g[k].names, forms |-> g[k].forms, current |-> g[k].current]
      BY <2>1 DEF Page
    <3>2. s[k + 1].tag \in {"link", "form", "form/", "endform", "field"}
      BY <2>1 DEF Tokens
    <3> QED
      BY <2>1, <2>3, <3>1, <3>2 DEF NextToken
  <2>5. s[k + 1].ref # <<>> => Has(s[k + 1].ref, s[k + 1].ref[1])
    BY <2>2
  <2>6. ASSUME NEW i \in 1..(k + 1), s[i].ref # <<>>  PROVE Has(g[k + 1].links, s[i].ref[1])
    <3>1. CASE i = k + 1
      <4> HIDE DEF Has
      <4> QED
        BY <1>3, <2>2, <2>4, <2>5, <2>6, <3>1
    <3>2. CASE i # k + 1
      <4>1. i \in 1..k
        BY <1>2, <3>2
      <4>2. Has(g[k].links, s[i].ref[1])
        BY <1>4, <2>6, <4>1
      <4> HIDE DEF Has
      <4> QED
        BY <1>3, <2>2, <2>4, <4>2
    <3> QED
      BY <3>1, <3>2
  <2> HIDE DEF Has
  <2> QED
    BY <2>1, <2>6
<1>5. n \in T
  <2>1. 0 \in T
    BY <1>2
  <2> HIDE DEF T
  <2>2. \A k \in 0..n : k \in T
    BY <1>2, <1>4, <2>1, UpTo
  <2> QED
    BY <1>2, <2>2
<1>6. g[n] \in Page
  BY <1>2
<1>7. /\ parsePage(s).links = g[n].links /\ parsePage(s).names = g[n].names
      /\ parsePage(s).forms = g[n].forms \o g[n].current
  <2> HIDE DEF T
  <2>1. PICK c : c = g[n].forms \o g[n].current
    OBVIOUS
  <2>2. parsePage(s) = [links |-> g[n].links, names |-> g[n].names, forms |-> c]
    BY <1>1, <2>1 DEF Parses
  <2>3. parsePage(s).links = g[n].links /\ parsePage(s).names = g[n].names /\ parsePage(s).forms = c
    BY <2>2
  <2> QED
    BY <2>1, <2>3
<1>8. g[n].forms \o g[n].current \in Seq(Form) /\ g[n].links \in Seq(Reference) /\ g[n].names \in Seq(STRING)
  BY <1>6 DEF Page
<1> QED
  BY <1>5, <1>7, <1>8

-----------------------------------------------------------------------------
(* URLs. *)
LEMMA CanonicalTypes ==
  ASSUME NEW u \in URL
  PROVE  /\ Canonical(u) \in URL
         /\ Canonical(Canonical(u)) = Canonical(u)
         /\ DefaultPort[Canonical(u).origin] = Canonical(u).origin
         /\ Canonical(u).spelling = "plain"
BY CrawlerAssumption DEF Canonical, URL, Origins, Spellings

LEMMA SamePageSame ==
  ASSUME NEW u \in URL, NEW v \in URL, SamePage(Canonical(u), Canonical(v))
  PROVE  Canonical(u) = Canonical(v)
<1>1. \A a, b \in URL :
        (/\ a.origin = b.origin /\ a.dir = b.dir /\ a.name = b.name
         /\ a.query = b.query /\ a.spelling = b.spelling) => a = b
  <2> SUFFICES ASSUME NEW a \in URL, NEW b \in URL, a.origin = b.origin, a.dir = b.dir, a.name = b.name,
                      a.query = b.query, a.spelling = b.spelling
               PROVE  a = b
    OBVIOUS
  <2>1. /\ a = [origin |-> a.origin, dir |-> a.dir, name |-> a.name, query |-> a.query, spelling |-> a.spelling]
        /\ b = [origin |-> b.origin, dir |-> b.dir, name |-> b.name, query |-> b.query, spelling |-> b.spelling]
    BY DEF URL
  <2> QED
    BY <2>1
<1> QED
  BY <1>1, CanonicalTypes DEF SamePage

LEMMA ResolveTypes ==
  ASSUME NEW base \in URL, NEW ref \in Reference
  PROVE  Resolve(base, ref) \in URL
<1>1. ref \in URL \/ (ref.origin = "" /\ ref \in [origin : {""}, dir : Dirs \cup {0}, name : Names, query : Queries, spelling : Spellings])
  BY DEF Reference
<1> QED
  BY <1>1 DEF Resolve, URL

LEMMA FollowedTypes ==
  ASSUME NEW page, page.links \in Seq(Reference), NEW visited, target \in URL
  PROVE  /\ Followed(page, visited) \in Seq(URL)
         /\ \A j \in 1..Len(page.links) :
              LET u == Resolve(target, page.links[j]) IN
              (u.origin = target.origin /\ Canonical(u) \notin visited) =>
                \E k \in 1..Len(Followed(page, visited)) : Followed(page, visited)[k] = u
<1>1. PICK urls : urls = Absolute(page)
  OBVIOUS
<1>2. PICK l : l = page.links
  OBVIOUS
<1>3. /\ l \in Seq(Reference) /\ Len(l) \in Nat /\ DOMAIN l = 1..Len(l)
      /\ \A i \in 1..Len(l) : Resolve(target, l[i]) \in URL
  BY <1>2, ResolveTypes
<1>4. urls = [i \in 1..Len(l) |-> Resolve(target, l[i])]
  BY <1>1, <1>2, <1>3 DEF Absolute
<1>5. urls \in Seq(URL) /\ Len(urls) = Len(l) /\ DOMAIN urls = 1..Len(l)
  BY <1>3, <1>4
<1> DEFINE K == {i \in DOMAIN urls : urls[i].origin = target.origin /\ Canonical(urls[i]) \notin visited}
<1>6. Followed(page, visited) = Sublist(urls, K)
  BY <1>1 DEF Followed
<1>7. K \in SUBSET (1..Len(urls))
  BY <1>5
<1> DEFINE f == Sublist(urls, K)
<1>8. f \in Seq(URL) /\ \E h : Picks(h, f, urls, K)
  <2> HIDE DEF K
  <2> QED
    BY <1>5, <1>7, SublistPicks
<1>9. PICK h : Picks(h, f, urls, K)
  BY <1>8
<1>10. ASSUME NEW j \in 1..Len(l), Resolve(target, l[j]).origin = target.origin,
              Canonical(Resolve(target, l[j])) \notin visited
       PROVE  \E k \in 1..Len(f) : f[k] = Resolve(target, l[j])
  <2>1. j \in K /\ urls[j] = Resolve(target, l[j])
    BY <1>4, <1>5, <1>10
  <2> HIDE DEF f, K
  <2>2. PICK k \in 1..Len(f) : h[k] = j
    BY <1>9, <2>1 DEF Picks
  <2>3. f[k] = urls[h[k]]
    BY <1>9, <2>2 DEF Picks
  <2> QED
    BY <2>1, <2>2, <2>3
<1> HIDE DEF f, K
<1> QED
  BY <1>2, <1>6, <1>8, <1>10 DEF f

-----------------------------------------------------------------------------
Requests == [url : URL, answered : BOOLEAN]

(* The log is the history of seen. *)
LogInv ==
  /\ site \in Sites /\ target \in URL
  /\ queue \in Seq(URL)
  /\ log \in Seq(Requests)
  /\ \A i \in 1..Len(log) : Canonical(log[i].url) = log[i].url
  /\ \A i, j \in 1..Len(log) : log[i].url = log[j].url => i = j
  /\ seen = Requested /\ IsFiniteSet(seen) /\ Cardinality(seen) = Len(log)
  /\ Len(log) <= MaxPages

(* What is to be requested has been or is queued. *)
Known(c, s, q) == c \in s \/ \E k \in 1..Len(q) : Canonical(q[k]) = c

ClosedInv ==
  /\ Known(Canonical(target), seen, queue)
  /\ \A u \in Answered : \A i \in DOMAIN Body(u) :
       LET t == Body(u)[i] IN
       (t.ref # <<>> /\ Resolve(target, t.ref[1]).origin = target.origin) =>
         Known(Canonical(Resolve(target, t.ref[1])), seen, queue)
  /\ found # <<>> => queue = <<>> \/ Len(log) >= MaxPages

LEMMA LogImplies == LogInv => VisitsOnce
<1> SUFFICES ASSUME LogInv  PROVE VisitsOnce
  OBVIOUS
<1>1. DOMAIN log = 1..Len(log) /\ \A i \in 1..Len(log) : log[i].url \in URL /\ Canonical(log[i].url) = log[i].url
  <2>1. log \in Seq(Requests) /\ \A i \in 1..Len(log) : Canonical(log[i].url) = log[i].url
    BY DEF LogInv
  <2>2. \A i \in 1..Len(log) : log[i] \in Requests
    BY <2>1
  <2> QED
    BY <2>1, <2>2 DEF Requests
<1>2. ASSUME NEW i \in DOMAIN log, NEW j \in DOMAIN log, SamePage(log[i].url, log[j].url)  PROVE i = j
  <2>1. log[i].url = log[j].url
    BY <1>1, <1>2, SamePageSame
  <2> QED
    BY <1>1, <1>2, <2>1 DEF LogInv
<1> QED
  BY <1>2 DEF VisitsOnce, LogInv

LEMMA ClosedImplies == LogInv /\ ClosedInv => CrawlIsClosed
<1> SUFFICES ASSUME LogInv, ClosedInv, found # <<>>, Len(log) < MaxPages  PROVE CrawlIsClosed
  BY DEF CrawlIsClosed
<1>1. queue = <<>>
  BY CrawlerAssumption DEF ClosedInv, LogInv
<1>2. \A c : Known(c, seen, queue) => c \in Requested
  BY <1>1 DEF Known, LogInv
<1> QED
  BY <1>2 DEF ClosedInv, CrawlIsClosed

LEMMA CrawlInitial == CrawlInit => LogInv /\ ClosedInv
<1> SUFFICES ASSUME CrawlInit  PROVE LogInv /\ ClosedInv
  OBVIOUS
<1>1. site \in Sites /\ target \in URL /\ queue = <<target>> /\ seen = {} /\ log = <<>> /\ found = <<>>
  BY CrawlerAssumption DEF CrawlInit
<1>2. queue \in Seq(URL) /\ Len(queue) = 1 /\ queue[1] = target /\ log \in Seq(Requests) /\ Len(log) = 0 /\ DOMAIN log = {}
  BY <1>1
<1>3. Requested = {} /\ Answered = {} /\ IsFiniteSet({}) /\ Cardinality({}) = 0
  BY <1>2, FS_EmptySet DEF Requested, Answered
<1>4. 1..0 = {} /\ 1 \in 1..1 /\ MaxPages \in Nat
  BY CrawlerAssumption
<1>5. LogInv
  BY <1>1, <1>2, <1>3, <1>4 DEF LogInv
<1>6. ClosedInv
  BY <1>1, <1>2, <1>3, <1>4 DEF ClosedInv, Known
<1> QED
  BY <1>5, <1>6

(* A request adds its URL. *)
LEMMA RequestStep ==
  ASSUME LogInv, Crawling, Current \notin seen, NEW b \in BOOLEAN,
         seen' = seen \cup {Current}, log' = Append(log, [url |-> Current, answered |-> b])
  PROVE  /\ Current \in URL /\ Canonical(Current) = Current
         /\ log' \in Seq(Requests)
         /\ \A i \in 1..Len(log') : Canonical(log'[i].url) = log'[i].url
         /\ \A i, j \in 1..Len(log') : log'[i].url = log'[j].url => i = j
         /\ seen' = Requested' /\ IsFiniteSet(seen') /\ Cardinality(seen') = Len(log')
         /\ Len(log') <= MaxPages
         /\ Answered' = Answered \cup {c \in {Current} : b}
<1> DEFINE n == Len(log)
           r == [url |-> Current, answered |-> b]
<1>1. Head(queue) \in URL
  BY DEF LogInv, Crawling
<1>2. Current \in URL /\ Canonical(Current) = Current
  BY <1>1, CanonicalTypes DEF Current
<1>3. n \in Nat /\ log \in Seq(Requests) /\ DOMAIN log = 1..n /\ r \in Requests
  BY <1>2 DEF LogInv, Requests
<1>4. PICK q : q = log'
  OBVIOUS
<1>5. q \in Seq(Requests) /\ Len(q) = n + 1 /\ DOMAIN q = 1..(n + 1) /\ q[n + 1] = r /\ \A i \in 1..n : q[i] = log[i]
  BY <1>3, <1>4
<1>6. \A i \in 1..(n + 1) : i \in 1..n \/ i = n + 1
  BY <1>3
<1>7. (\A i \in 1..n : i \in 1..(n + 1)) /\ n + 1 \in 1..(n + 1)
  BY <1>3
<1>8. r.url = Current /\ r.answered = b
  OBVIOUS
<1> HIDE DEF r
<1>9. seen = {log[i].url : i \in 1..n} /\ Requested' = {q[i].url : i \in 1..(n + 1)}
  BY <1>3, <1>4, <1>5 DEF LogInv, Requested
<1>10. seen' = Requested'
  BY <1>5, <1>6, <1>7, <1>8, <1>9
<1>11. IsFiniteSet(seen') /\ Cardinality(seen') = n + 1
  BY FS_AddElement DEF LogInv
<1>12. \A i \in 1..(n + 1) : Canonical(q[i].url) = q[i].url
  BY <1>2, <1>5, <1>6, <1>8 DEF LogInv
<1>13. ASSUME NEW i \in 1..(n + 1), NEW j \in 1..(n + 1), q[i].url = q[j].url  PROVE i = j
  <2>1. \A k \in 1..n : log[k].url \in seen
    BY <1>9
  <2> QED
    BY <1>5, <1>6, <1>8, <1>13, <2>1 DEF LogInv
<1>14. n + 1 <= MaxPages
  BY <1>3, CrawlerAssumption DEF Crawling, LogInv
<1>15. Answered' = Answered \cup {c \in {Current} : b}
  <2>1. /\ Answered = {log[i].url : i \in {k \in 1..n : log[k].answered}}
        /\ Answered' = {q[i].url : i \in {k \in 1..(n + 1) : q[k].answered}}
    BY <1>3, <1>4, <1>5 DEF Answered
  <2> QED
    BY <1>5, <1>6, <1>7, <1>8, <2>1
<1> HIDE DEF n
<1> QED
  BY <1>2, <1>4, <1>5, <1>10, <1>11, <1>12, <1>13, <1>14, <1>15 DEF n

(* The queue without its head, and with more. *)
Rest(q, more) == Tail(q) \o more

Moved(r, q, more) ==
  /\ r \in Seq(URL)
  /\ \A k \in 1..Len(q) : q[k] = Head(q) \/ \E i \in 1..Len(r) : r[i] = q[k]
  /\ \A k \in 1..Len(more) : \E i \in 1..Len(r) : r[i] = more[k]

LEMMA QueueTail ==
  ASSUME NEW q \in Seq(URL), q # <<>>, NEW more \in Seq(URL)
  PROVE  Moved(Rest(q, more), q, more)
<1> DEFINE r == Rest(q, more)
<1>1. PICK t : t = Tail(q)
  OBVIOUS
<1>2. /\ t \in Seq(URL) /\ Len(q) \in Nat /\ Len(q) > 0 /\ Len(t) = Len(q) - 1 /\ Head(q) = q[1]
      /\ \A k \in 1..Len(t) : t[k] = q[k + 1]
  BY <1>1
<1>3. /\ r \in Seq(URL) /\ Len(more) \in Nat /\ Len(r) = Len(t) + Len(more)
      /\ \A k \in 1..Len(t) : r[k] = t[k]
      /\ \A k \in 1..Len(more) : r[Len(t) + k] = more[k]
  BY <1>1, <1>2 DEF Rest
<1>4. ASSUME NEW k \in 1..Len(q), k # 1  PROVE \E i \in 1..Len(r) : r[i] = q[k]
  <2>1. k - 1 \in 1..Len(t) /\ (k - 1) + 1 = k /\ k - 1 \in 1..Len(r)
    BY <1>2, <1>3, <1>4
  <2>2. r[k - 1] = q[k]
    BY <1>2, <1>3, <2>1
  <2> QED
    BY <2>1, <2>2
<1>5. ASSUME NEW k \in 1..Len(more)  PROVE \E i \in 1..Len(r) : r[i] = more[k]
  <2>1. Len(t) + k \in 1..Len(r)
    BY <1>2, <1>3
  <2> QED
    BY <1>3, <2>1
<1> HIDE DEF r
<1>6. Moved(r, q, more)
  BY <1>2, <1>3, <1>4, <1>5 DEF Moved
<1> QED
  BY <1>6 DEF r

(* No URL is forgotten when the head of the queue has been dealt with. *)
LEMMA KnownStays ==
  ASSUME LogInv, Crawling, seen \subseteq seen', Current \in seen',
         NEW more \in Seq(URL), queue' = Rest(queue, more)
  PROVE  /\ queue' \in Seq(URL)
         /\ \A c : Known(c, seen, queue) => Known(c, seen', queue')
         /\ \A k \in 1..Len(more) : Known(Canonical(more[k]), seen', queue')
<1>1. queue \in Seq(URL) /\ queue # <<>>
  BY DEF LogInv, Crawling
<1>2. PICK r : r = queue'
  OBVIOUS
<1>3. Moved(r, queue, more)
  BY <1>1, <1>2, QueueTail
<1>4. ASSUME NEW c, Known(c, seen, queue)  PROVE c \in seen' \/ \E i \in 1..Len(r) : Canonical(r[i]) = c
  <2>1. CASE c \in seen
    BY <2>1
  <2>2. ASSUME NEW k \in 1..Len(queue), Canonical(queue[k]) = c
        PROVE  c \in seen' \/ \E i \in 1..Len(r) : Canonical(r[i]) = c
    <3>1. CASE queue[k] = Head(queue)
      BY <2>2, <3>1 DEF Current
    <3>2. CASE \E i \in 1..Len(r) : r[i] = queue[k]
      BY <2>2, <3>2
    <3> QED
      BY <1>3, <3>1, <3>2 DEF Moved
  <2> QED
    BY <1>4, <2>1, <2>2 DEF Known
<1> QED
  BY <1>2, <1>3, <1>4 DEF Known, Moved

LEMMA CrawlKept == LogInv /\ ClosedInv /\ CrawlNext => LogInv' /\ ClosedInv'
<1> SUFFICES ASSUME LogInv, ClosedInv, CrawlNext  PROVE LogInv' /\ ClosedInv'
  OBVIOUS
<1>1. site' = site /\ target' = target
  BY DEF CrawlNext, SkipSeen, VisitFails, Visit, FinishCrawl
<1>2. \A u : Body(u)' = Body(u)
  BY <1>1 DEF Body
<1> DEFINE Links(u) == \A i \in DOMAIN Body(u) :
             LET t == Body(u)[i] IN
             (t.ref # <<>> /\ Resolve(target, t.ref[1]).origin = target.origin) =>
               Known(Canonical(Resolve(target, t.ref[1])), seen', queue')
<1>3. ASSUME \A c : Known(c, seen, queue) => Known(c, seen', queue'), found' = found, found = <<>>, \A u \in Answered' : Links(u)
      PROVE  ClosedInv'
  BY <1>1, <1>2, <1>3 DEF ClosedInv
<1>4. ASSUME \A c : Known(c, seen, queue) => Known(c, seen', queue'), NEW u \in Answered  PROVE Links(u)
  <2> SUFFICES ASSUME NEW i \in DOMAIN Body(u), Body(u)[i].ref # <<>>,
                      Resolve(target, Body(u)[i].ref[1]).origin = target.origin
               PROVE  Known(Canonical(Resolve(target, Body(u)[i].ref[1])), seen', queue')
    OBVIOUS
  <2>1. Known(Canonical(Resolve(target, Body(u)[i].ref[1])), seen, queue)
    BY <1>4 DEF ClosedInv
  <2> QED
    BY <1>1, <1>4, <2>1
<1>5. <<>> \in Seq(URL) /\ \A q \in Seq(URL) : q # <<>> => Rest(q, <<>>) = Tail(q)
  BY DEF Rest
<1> HIDE DEF Links
<1>6. CASE SkipSeen
  <2>1. Crawling /\ Current \in seen /\ seen' = seen /\ log' = log /\ found' = found /\ queue' = Rest(queue, <<>>)
    BY <1>5, <1>6 DEF SkipSeen, LogInv, Crawling
  <2>2. queue' \in Seq(URL) /\ \A c : Known(c, seen, queue) => Known(c, seen', queue')
    BY <1>5, <2>1, KnownStays
  <2>3. Requested' = Requested /\ Answered' = Answered
    BY <2>1 DEF Requested, Answered
  <2>4. LogInv'
    BY <1>1, <2>1, <2>2, <2>3 DEF LogInv
  <2>5. ClosedInv'
    BY <1>3, <1>4, <2>1, <2>2, <2>3 DEF Crawling
  <2> QED
    BY <2>4, <2>5
<1>7. CASE VisitFails
  <2>1. /\ Crawling /\ Current \notin seen /\ seen' = seen \cup {Current} /\ found' = found
        /\ log' = Append(log, [url |-> Current, answered |-> FALSE]) /\ queue' = Rest(queue, <<>>)
    BY <1>5, <1>7 DEF VisitFails, LogInv, Crawling
  <2>2. queue' \in Seq(URL) /\ \A c : Known(c, seen, queue) => Known(c, seen', queue')
    BY <1>5, <2>1, KnownStays
  <2>3. LogInv' /\ Answered' = Answered
    <3>1. FALSE \in BOOLEAN
      OBVIOUS
    <3> QED
      BY <1>1, <2>1, <2>2, <3>1, RequestStep DEF LogInv
  <2>4. ClosedInv'
    BY <1>3, <1>4, <2>1, <2>2, <2>3 DEF Crawling
  <2> QED
    BY <2>3, <2>4
<1>8. CASE Visit
  <2> DEFINE body == Body(Current)
             page == parsePage(body)
             more == Followed(page, seen')
  <2>1. /\ Crawling /\ Current \notin seen /\ seen' = seen \cup {Current} /\ found' = found
        /\ log' = Append(log, [url |-> Current, answered |-> TRUE]) /\ queue' = Rest(queue, more)
    BY <1>8 DEF Visit, Rest
  <2>2. body \in Seq(Tokens)
    BY CrawlerAssumption DEF LogInv, Body
  <2> HIDE DEF body
  <2>3. /\ page.links \in Seq(Reference)
        /\ \A i \in 1..Len(body) : body[i].ref # <<>> =>
             \E j \in 1..Len(page.links) : page.links[j] = body[i].ref[1]
    BY <2>2, PageLinks
  <2> HIDE DEF page
  <2>4. /\ more \in Seq(URL)
        /\ \A j \in 1..Len(page.links) :
             LET u == Resolve(target, page.links[j]) IN
             (u.origin = target.origin /\ Canonical(u) \notin seen') => \E k \in 1..Len(more) : more[k] = u
    BY <2>3, FollowedTypes DEF LogInv
  <2> HIDE DEF more
  <2>5. /\ queue' \in Seq(URL) /\ \A c : Known(c, seen, queue) => Known(c, seen', queue')
        /\ \A k \in 1..Len(more) : Known(Canonical(more[k]), seen', queue')
    <3>1. Crawling /\ seen \subseteq seen' /\ Current \in seen' /\ queue' = Rest(queue, more)
      BY <2>1
    <3> QED
      BY <2>4, <3>1, KnownStays
  <2>6. LogInv' /\ Answered' = Answered \cup {Current}
    <3>1. TRUE \in BOOLEAN
      OBVIOUS
    <3> QED
      BY <1>1, <2>1, <2>5, <3>1, RequestStep DEF LogInv
  <2>7. Links(Current)
    <3> SUFFICES ASSUME NEW i \in DOMAIN body, body[i].ref # <<>>,
                        Resolve(target, body[i].ref[1]).origin = target.origin
                 PROVE  Known(Canonical(Resolve(target, body[i].ref[1])), seen', queue')
      BY DEF Links, body
    <3>1. PICK j \in 1..Len(page.links) : page.links[j] = body[i].ref[1]
      BY <2>2, <2>3
    <3> DEFINE u == Resolve(target, page.links[j])
    <3>2. u = Resolve(target, body[i].ref[1]) /\ u.origin = target.origin
      BY <3>1
    <3>3. CASE Canonical(u) \in seen'
      <4>1. Known(Canonical(u), seen', queue')
        BY <3>3 DEF Known
      <4> HIDE DEF u
      <4> QED
        BY <3>2, <4>1
    <3>4. CASE Canonical(u) \notin seen'
      BY <2>4, <2>5, <3>2, <3>4
    <3> QED
      BY <3>2, <3>3, <3>4
  <2>8. ClosedInv'
    BY <1>3, <1>4, <2>1, <2>5, <2>6, <2>7 DEF Crawling
  <2> QED
    BY <2>6, <2>8
<1>9. CASE FinishCrawl
  <2>1. UNCHANGED <<queue, seen, log>> /\ ~Crawling /\ found = <<>>
    BY <1>9 DEF FinishCrawl
  <2>2. queue = <<>> \/ Len(log) >= MaxPages
    <3>1. queue = <<>> \/ ~(Cardinality(seen) < MaxPages)
      BY <2>1 DEF Crawling
    <3>2. Cardinality(seen) = Len(log) /\ Len(log) \in Nat /\ MaxPages \in Nat
      BY CrawlerAssumption DEF LogInv
    <3> QED
      BY <3>1, <3>2
  <2>3. Requested' = Requested /\ Answered' = Answered /\ \A c : Known(c, seen', queue') = Known(c, seen, queue)
    BY <2>1 DEF Requested, Answered, Known
  <2>4. LogInv'
    BY <1>1, <2>1, <2>3 DEF LogInv
  <2>5. ClosedInv'
    BY <1>1, <1>2, <2>1, <2>2, <2>3 DEF ClosedInv
  <2> QED
    BY <2>4, <2>5
<1> QED
  BY <1>6, <1>7, <1>8, <1>9 DEF CrawlNext

-----------------------------------------------------------------------------
(* The endpoints that a page adds. *)
Keys == CanonicalURL \X Methods
Value == [params : Unrepeated(STRING), form : Unrepeated(STRING)]

(* The endpoints found so far, and the parameters known of one. *)
Surface(e) == DOMAIN e \in SUBSET Keys /\ IsFiniteSet(DOMAIN e) /\ e \in [DOMAIN e -> Value]
ParamSet(e, k) == IF k \in DOMAIN e THEN Range(e[k].params) ELSE {}
FormSet(e, k) == IF k \in DOMAIN e THEN Range(e[k].form) ELSE {}

(* r is e and, for key, parameters P and form parameters F. *)
Adds(r, e, key, P, F) ==
  /\ Surface(r)
  /\ DOMAIN r = DOMAIN e \cup {key}
  /\ ParamSet(r, key) = ParamSet(e, key) \cup P
  /\ FormSet(r, key) = FormSet(e, key) \cup F
  /\ \A k : k # key => ParamSet(r, k) = ParamSet(e, k) /\ FormSet(r, k) = FormSet(e, k)

LEMMA UniqTypes ==
  ASSUME NEW X, NEW s \in Seq(X)
  PROVE  uniq(s) \in Unrepeated(X) /\ Range(uniq(s)) = Range(s)
<1> DEFINE n == Len(s)
<1>1. PICK g \in [0..n -> Unrepeated(X)] :
        /\ g[0] = <<>> /\ \A k \in 1..n : g[k] = AddNew(g[k - 1], s[k])
        /\ uniq(s) = g[n]
  BY UniqSteps
<1>2. n \in Nat /\ Range(s) = {s[i] : i \in 1..n}
  BY DEF Range
<1> DEFINE T == {k \in 0..n : Range(g[k]) = {s[i] : i \in 1..k}}
<1>3. 0 \in T
  <2>1. Range(<<>>) = {} /\ 1..0 = {}
    BY DEF Range
  <2> QED
    BY <1>1, <1>2, <2>1
<1>4. ASSUME NEW k \in 0..(n - 1), k \in T  PROVE k + 1 \in T
  <2>1. k + 1 \in 0..n /\ k + 1 \in 1..n /\ (k + 1) - 1 = k /\ k \in 0..n
    BY <1>2
  <2>2. g[k + 1] = AddNew(g[k], s[k + 1]) /\ g[k] \in Unrepeated(X) /\ s[k + 1] \in X
    BY <1>1, <2>1
  <2>3. Range(g[k + 1]) = Range(g[k]) \cup {s[k + 1]}
    BY <2>2, AddNewTypes
  <2>4. \A i : i \in 1..(k + 1) <=> i \in 1..k \/ i = k + 1
    BY <1>2
  <2>5. {s[i] : i \in 1..(k + 1)} = {s[i] : i \in 1..k} \cup {s[k + 1]}
    BY <2>4
  <2> QED
    BY <1>4, <2>1, <2>3, <2>5
<1>5. n \in T
  <2> HIDE DEF T
  <2>1. \A k \in 0..n : k \in T
    BY <1>2, <1>3, <1>4, UpTo
  <2> QED
    BY <1>2, <2>1
<1> QED
  BY <1>1, <1>2, <1>5

LEMMA AddEndpointAdds ==
  ASSUME NEW e, Surface(e), NEW u \in CanonicalURL, NEW m \in Methods, NEW P \in Seq(STRING), NEW F \in Seq(STRING)
  PROVE  Adds(addEndpoint(e, u, m, P, F), e, <<u, m>>, Range(P), Range(F))
<1> DEFINE key == <<u, m>>
           old == IF key \in DOMAIN e THEN e[key] ELSE [params |-> <<>>, form |-> <<>>]
           new == [params |-> uniq(old.params \o P), form |-> uniq(old.form \o F)]
           r == addEndpoint(e, u, m, P, F)
<1>2. old.params \in Seq(STRING) /\ Range(old.params) = ParamSet(e, key)
      /\ old.form \in Seq(STRING) /\ Range(old.form) = FormSet(e, key)
  <2>1. <<>> \in Seq(STRING) /\ Range(<<>>) = {}
    BY DEF Range
  <2>2. CASE key \in DOMAIN e
    BY <2>2 DEF Surface, Value, ParamSet, FormSet, Unrepeated
  <2>3. CASE key \notin DOMAIN e
    BY <2>1, <2>3 DEF ParamSet, FormSet
  <2> QED
    BY <2>2, <2>3
<1> HIDE DEF old
<1>3. new \in Value /\ Range(new.params) = ParamSet(e, key) \cup Range(P) /\ Range(new.form) = FormSet(e, key) \cup Range(F)
  <2>1. PICK a : a = old.params \o P
    OBVIOUS
  <2>2. PICK b : b = old.form \o F
    OBVIOUS
  <2>3. a \in Seq(STRING) /\ Range(a) = ParamSet(e, key) \cup Range(P)
    BY <1>2, ConcatRange, <2>1
  <2>4. b \in Seq(STRING) /\ Range(b) = FormSet(e, key) \cup Range(F)
    BY <1>2, ConcatRange, <2>2
  <2>5. uniq(a) \in Unrepeated(STRING) /\ Range(uniq(a)) = Range(a)
    BY <2>3, UniqTypes
  <2>6. uniq(b) \in Unrepeated(STRING) /\ Range(uniq(b)) = Range(b)
    BY <2>4, UniqTypes
  <2>7. new = [params |-> uniq(a), form |-> uniq(b)]
    BY <2>1, <2>2
  <2> HIDE DEF new
  <2> QED
    BY <2>3, <2>4, <2>5, <2>6, <2>7 DEF Value
<1>5. r = [k \in DOMAIN e \cup {key} |-> IF k = key THEN new ELSE e[k]]
  BY DEF addEndpoint, old
<1> HIDE DEF new, r
<1>6. DOMAIN r = DOMAIN e \cup {key} /\ r[key] = new /\ \A k \in DOMAIN e : k # key => r[k] = e[k]
  BY <1>5
<1>7. key \in Keys
  BY DEF Keys
<1> HIDE DEF key
<1>8. Surface(r)
  <2>1. IsFiniteSet(DOMAIN e \cup {key})
    BY FS_AddElement DEF Surface
  <2> QED
    BY <1>3, <1>5, <1>6, <1>7, <2>1 DEF Surface
<1>9. Adds(r, e, key, Range(P), Range(F))
  BY <1>3, <1>6, <1>8 DEF Adds, ParamSet, FormSet
<1> QED
  BY <1>9 DEF r, key

-----------------------------------------------------------------------------
(* A GET endpoint has parameters only, a POST endpoint form parameters     *)
(* only; Knows is those.                                                   *)
Proper(e) ==
  /\ Surface(e)
  /\ \A k \in DOMAIN e :
       /\ k[2] = "GET" => FormSet(e, k) = {}
       /\ k[2] = "POST" => ParamSet(e, k) = {}
Knows(e, k) == IF k[2] = "GET" THEN ParamSet(e, k) ELSE FormSet(e, k)

(* r is e with the names P for key. *)
Learns(r, e, key, P) ==
  /\ Proper(r) /\ DOMAIN e \subseteq DOMAIN r
  /\ \A k : Knows(r, k) = Knows(e, k) \cup (IF k = key THEN P ELSE {})

LEMMA AddsLearns ==
  ASSUME NEW e, Proper(e), NEW r, NEW u \in CanonicalURL, NEW m \in Methods, NEW P,
         NEW A, NEW B, Adds(r, e, <<u, m>>, A, B),
         m = "GET" => A = P /\ B = {}, m = "POST" => A = {} /\ B = P
  PROVE  Learns(r, e, <<u, m>>, P) /\ <<u, m>> \in DOMAIN r
<1> DEFINE key == <<u, m>>
<1>1. key[2] = m /\ (m = "GET" \/ m = "POST")
  BY DEF Methods
<1>2. key \notin DOMAIN e => ParamSet(e, key) = {} /\ FormSet(e, key) = {}
  BY DEF ParamSet, FormSet
<1>3. Adds(r, e, key, A, B)
  OBVIOUS
<1> HIDE DEF key
<1>4. key \in DOMAIN e => (m = "GET" => FormSet(e, key) = {}) /\ (m = "POST" => ParamSet(e, key) = {})
  BY <1>1 DEF Proper
<1>5. ASSUME NEW k \in DOMAIN r
      PROVE  /\ k[2] = "GET" => FormSet(r, k) = {}
             /\ k[2] = "POST" => ParamSet(r, k) = {}
  <2>1. CASE k = key
    BY <1>1, <1>2, <1>3, <1>4, <2>1 DEF Adds
  <2>2. CASE k # key
    BY <1>3, <2>2 DEF Adds, Proper
  <2> QED
    BY <2>1, <2>2
<1>6. ASSUME NEW k  PROVE Knows(r, k) = Knows(e, k) \cup (IF k = key THEN P ELSE {})
  <2>1. CASE k = key
    BY <1>1, <1>3, <2>1 DEF Adds, Knows
  <2>2. CASE k # key
    BY <1>3, <2>2 DEF Adds, Knows
  <2> QED
    BY <2>1, <2>2
<1>7. Surface(r) /\ DOMAIN r = DOMAIN e \cup {key}
  BY <1>3 DEF Adds
<1>8. Learns(r, e, key, P) /\ key \in DOMAIN r
  BY <1>5, <1>6, <1>7 DEF Learns, Proper
<1> QED
  BY <1>8 DEF key

LEMMA ActionTypes ==
  ASSUME NEW u \in CanonicalURL, NEW form \in Form
  PROVE  ActionOf(u, form) \in CanonicalURL
<1>1. u \in URL
  BY DEF CanonicalURL
<1>2. form.action # <<>> => form.action[1] \in Reference
  BY DEF Form
<1>3. (IF form.action = <<>> THEN u ELSE Resolve(u, form.action[1])) \in URL
  BY <1>1, <1>2, ResolveTypes
<1> QED
  BY <1>3, CanonicalTypes DEF ActionOf, CanonicalURL

LEMMA AddFormLearns ==
  ASSUME NEW e, Proper(e), NEW u \in CanonicalURL, NEW form \in Form
  PROVE  Learns(addForm(e, u, form), e, <<ActionOf(u, form), form.method>>, Range(form.fields))
<1>1. form.fields \in Seq(STRING) /\ form.method \in Methods /\ ActionOf(u, form) \in CanonicalURL
  BY ActionTypes DEF Form
<1> DEFINE a == ActionOf(u, form)
           r == addForm(e, u, form)
<1>2. Range(<<>>) = {} /\ <<>> \in Seq(STRING)
  BY DEF Range
<1>3. CASE form.fields = <<>>
  <2>1. r = e
    BY <1>3 DEF addForm
  <2> QED
    BY <1>2, <1>3, <2>1 DEF Learns
<1>4. CASE form.fields # <<>>
  <2>1. Range(form.fields) # {}
    <3>1. 1 \in DOMAIN form.fields
      BY <1>1, <1>4
    <3> QED
      BY <3>1 DEF Range
  <2>2. Surface(e)
    BY DEF Proper
  <2>3. CASE form.method = "POST"
    <3>1. r = addEndpoint(e, a, "POST", <<>>, form.fields)
      BY <1>4, <2>3 DEF addForm
    <3> HIDE DEF a, r
    <3>2. a \in CanonicalURL
      BY <1>1 DEF a
    <3>3. Adds(r, e, <<a, "POST">>, {}, Range(form.fields))
      BY <1>1, <1>2, <2>2, <2>3, <3>1, <3>2, AddEndpointAdds
    <3>4. Learns(r, e, <<a, "POST">>, Range(form.fields))
      BY <1>1, <2>1, <2>3, <3>2, <3>3, AddsLearns
    <3> QED
      BY <2>3, <3>4 DEF a, r
  <2>4. CASE form.method = "GET"
    <3>1. r = addEndpoint(e, a, "GET", form.fields, <<>>)
      BY <1>4, <2>4 DEF addForm
    <3> HIDE DEF a, r
    <3>2. a \in CanonicalURL
      BY <1>1 DEF a
    <3>3. Adds(r, e, <<a, "GET">>, Range(form.fields), {})
      BY <1>1, <1>2, <2>2, <2>4, <3>1, <3>2, AddEndpointAdds
    <3>4. Learns(r, e, <<a, "GET">>, Range(form.fields))
      BY <1>1, <2>1, <2>4, <3>2, <3>3, AddsLearns
    <3> QED
      BY <2>4, <3>4 DEF a, r
  <2> QED
    BY <1>1, <2>3, <2>4 DEF Methods
<1> QED
  BY <1>3, <1>4

Surfaces == {e \in UNION {[D -> Value] : D \in SUBSET Keys} : Proper(e)}

(* The first j forms of page u have x among the fields of endpoint k. *)
Told(u, forms, j, k, x) ==
  \E i \in 1..j : k = <<ActionOf(u, forms[i]), forms[i].method>> /\ x \in Range(forms[i].fields)

(* The endpoints after each form. *)
Steps(g, e, u, s) ==
  /\ g \in [0..Len(s) -> Surfaces]
  /\ g[0] = e /\ \A k \in 1..Len(s) : g[k] = addForm(g[k - 1], u, s[k])
  /\ addForms(e, u, s) = g[Len(s)]

LEMMA FormsSteps ==
  ASSUME NEW e, Proper(e), NEW u \in CanonicalURL, NEW s \in Seq(Form)
  PROVE  \E g : Steps(g, e, u, s)
<1> DEFINE n == Len(s)
           V == Surfaces
           f == [p \in (1..n) \X V |-> addForm(p[2], u, s[p[1]])]
           Is(k) == k = [A \in SUBSET (1..n) |-> IF A = {} THEN e ELSE addForm(k[A \ {Max(A)}], u, s[Max(A)])]
           iter == CHOOSE k : Is(k)
           end == addForms(e, u, s)
<1>1. n \in Nat /\ DOMAIN s = 1..n
  OBVIOUS
<1>2. end = iter[1..n]
  BY <1>1 DEF addForms, FoldLeft, MapThenFoldSet
<1>3. \A r : Proper(r) <=> r \in V
  BY DEF Proper, Surface, Surfaces
<1>4. f \in [(1..n) \X V -> V]
  <2>1. ASSUME NEW i \in 1..n, NEW r \in V  PROVE addForm(r, u, s[i]) \in V
    <3>1. Proper(r) /\ s[i] \in Form
      BY <1>3
    <3>2. Proper(addForm(r, u, s[i]))
      BY <3>1, AddFormLearns DEF Learns
    <3> QED
      BY <1>3, <3>2
  <2> QED
    BY <2>1
<1>5. PICK g : Trace(g, n, V, e, f)
  <2>1. e \in V
    BY <1>3
  <2> HIDE DEF f, V, n
  <2> QED
    BY <1>1, <1>4, <2>1, TraceExists
<1> HIDE DEF V, n
<1>6. PICK h \in [SUBSET (1..n) -> V] : Obeys(h, n, V, e, f)
  BY <1>5 DEF Trace
<1>7. \A A \in SUBSET (1..n) : \A v \in V : A # {} => f[<<Max(A), v>>] = addForm(v, u, s[Max(A)])
  <2>1. \A A \in SUBSET (1..n) : A # {} => Max(A) \in 1..n
    BY <1>5 DEF Trace
  <2> QED
    BY <2>1
<1>8. Is(iter)
  <2>1. ASSUME NEW A \in SUBSET (1..n)
        PROVE  h[A] = IF A = {} THEN e ELSE addForm(h[A \ {Max(A)}], u, s[Max(A)])
    <3> HIDE DEF f
    <3>1. A # {} => A \ {Max(A)} \in SUBSET (1..n) /\ h[A \ {Max(A)}] \in V
      OBVIOUS
    <3> QED
      BY <1>6, <1>7, <3>1 DEF Obeys
  <2>2. Is(h)
    BY <2>1
  <2> HIDE DEF Is
  <2> QED
    BY <2>2, Zenon
<1>9. iter[1..n] = g[n]
  <2> HIDE DEF iter
  <2>1. Obeys(iter, n, V, e, f)
    <3> HIDE DEF f
    <3> QED
      BY <1>7, <1>8 DEF Obeys
  <2> HIDE DEF f, Is
  <2> QED
    BY <1>5, <2>1 DEF Trace
<1>10. ASSUME NEW k \in 1..n  PROVE g[k] = addForm(g[k - 1], u, s[k])
  <2>1. g[k - 1] \in V /\ g[k] = f[<<k, g[k - 1]>>]
    <3> HIDE DEF f
    <3> QED
      BY <1>1, <1>5 DEF Trace
  <2> QED
    BY <2>1
<1>11. g[0] = e /\ g \in [0..n -> V]
  BY <1>5 DEF Trace
<1> HIDE DEF f, Is, iter
<1>12. end = g[n]
  BY <1>2, <1>9
<1> QED
  BY <1>10, <1>11, <1>12 DEF n, V, end, Steps

LEMMA PageLearns ==
  ASSUME NEW e, Proper(e), NEW u \in CanonicalURL, NEW page, page.names \in Seq(STRING), page.forms \in Seq(Form),
         NEW r, r = pageEndpoints(e, u, page)
  PROVE  /\ Proper(r) /\ DOMAIN e \subseteq DOMAIN r
         /\ u.name \in Marked => <<u, "GET">> \in DOMAIN r
         /\ \A k, x : x \in Knows(r, k) <=>
              \/ x \in Knows(e, k)
              \/ k = <<u, "GET">> /\ x \in Range(u.query) \cup Range(page.names)
              \/ Told(u, page.forms, Len(page.forms), k, x)
<1> DEFINE params == uniq(u.query \o page.names)
           start == IF params = <<>> /\ u.name \notin Marked THEN e ELSE addEndpoint(e, u, "GET", params, <<>>)
           s == page.forms
           n == Len(s)
<1>1. params \in Seq(STRING) /\ Range(params) = Range(u.query) \cup Range(page.names)
  <2>1. PICK q : q = u.query
    OBVIOUS
  <2>2. PICK t : t = q \o page.names
    OBVIOUS
  <2>3. q \in Seq(STRING)
    BY <2>1, CrawlerAssumption DEF CanonicalURL, URL
  <2>4. t \in Seq(STRING) /\ Range(t) = Range(q) \cup Range(page.names)
    BY <2>2, <2>3, ConcatRange
  <2>5. uniq(t) \in Unrepeated(STRING) /\ Range(uniq(t)) = Range(t)
    BY <2>4, UniqTypes
  <2> QED
    BY <2>1, <2>2, <2>4, <2>5 DEF Unrepeated
<1>2. /\ Proper(start) /\ DOMAIN e \subseteq DOMAIN start
      /\ u.name \in Marked => <<u, "GET">> \in DOMAIN start
      /\ \A k : Knows(start, k) = Knows(e, k) \cup (IF k = <<u, "GET">> THEN Range(params) ELSE {})
  <2> HIDE DEF params
  <2>1. CASE params = <<>> /\ u.name \notin Marked
    <3>1. Range(params) = {}
      BY <2>1 DEF Range
    <3> QED
      BY <2>1, <3>1
  <2>2. CASE ~(params = <<>> /\ u.name \notin Marked)
    <3>2. start = addEndpoint(e, u, "GET", params, <<>>)
      BY <2>2
    <3> HIDE DEF start
    <3>3. "GET" \in Methods /\ <<>> \in Seq(STRING) /\ Range(<<>>) = {} /\ Surface(e)
      BY DEF Methods, Range, Proper
    <3>4. Adds(start, e, <<u, "GET">>, Range(params), {})
      BY <1>1, <3>2, <3>3, AddEndpointAdds
    <3>5. Learns(start, e, <<u, "GET">>, Range(params)) /\ <<u, "GET">> \in DOMAIN start
      BY <3>3, <3>4, AddsLearns
    <3> QED
      BY <3>5 DEF Learns
  <2> QED
    BY <2>1, <2>2
<1>3. r = addForms(start, u, s)
  BY DEF pageEndpoints
<1> HIDE DEF params, start
<1>4. s \in Seq(Form) /\ n \in Nat
  BY DEF s
<1> HIDE DEF s
<1>5. PICK g : Steps(g, start, u, s)
  BY <1>2, <1>4, FormsSteps
<1>10. /\ g[0] = start /\ \A j \in 0..n : Proper(g[j])
       /\ \A k \in 1..n : g[k] = addForm(g[k - 1], u, s[k])
       /\ r = g[n]
  BY <1>3, <1>4, <1>5 DEF Steps, Surfaces
<1> DEFINE Right(j) == /\ \A k, x : x \in Knows(g[j], k) <=> x \in Knows(start, k) \/ Told(u, s, j, k, x)
                       /\ DOMAIN start \subseteq DOMAIN g[j]
           T == {j \in 0..n : Right(j)}
<1>6. 0 \in T
  <2>1. 1..0 = {}
    OBVIOUS
  <2>2. \A k, x : ~Told(u, s, 0, k, x)
    BY <2>1 DEF Told
  <2> QED
    BY <1>4, <1>10, <2>2
<1>7. ASSUME NEW j \in 0..(n - 1), j \in T  PROVE j + 1 \in T
  <2>1. j + 1 \in 1..n /\ j + 1 \in 0..n /\ j \in 0..n /\ (j + 1) - 1 = j /\ s[j + 1] \in Form
    BY <1>4
  <2> DEFINE key == <<ActionOf(u, s[j + 1]), s[j + 1].method>>
  <2>2. Learns(g[j + 1], g[j], key, Range(s[j + 1].fields))
    <3>1. g[j + 1] = addForm(g[j], u, s[j + 1])
      BY <1>10, <2>1
    <3> QED
      BY <1>10, <2>1, <3>1, AddFormLearns
  <2>3. \A k, x : Told(u, s, j + 1, k, x) <=>
          Told(u, s, j, k, x) \/ (k = key /\ x \in Range(s[j + 1].fields))
    <3>1. \A i : i \in 1..(j + 1) <=> i \in 1..j \/ i = j + 1
      BY <1>4
    <3> QED
      BY <3>1 DEF Told
  <2> HIDE DEF key
  <2>4. Right(j)
    BY <1>7
  <2>5. Right(j + 1)
    BY <2>2, <2>3, <2>4 DEF Learns
  <2> QED
    BY <2>1, <2>5
<1>8. Right(n)
  <2> HIDE DEF Right
  <2>1. n \in T
    <3> HIDE DEF T
    <3>1. \A j \in 0..n : j \in T
      BY <1>4, <1>6, <1>7, UpTo
    <3> QED
      BY <1>4, <3>1
  <2> QED
    BY <2>1
<1>9. r = g[n] /\ Proper(g[n])
  BY <1>4, <1>10
<1>11. \A k, x : x \in Knows(r, k) <=> x \in Knows(start, k) \/ Told(u, s, n, k, x)
  BY <1>8, <1>9
<1>12. \A k, x : x \in Knows(start, k) <=>
         x \in Knows(e, k) \/ (k = <<u, "GET">> /\ x \in Range(u.query) \cup Range(page.names))
  BY <1>1, <1>2
<1> HIDE DEF n
<1>13. \A k, x : x \in Knows(r, k) <=>
         \/ x \in Knows(e, k)
         \/ k = <<u, "GET">> /\ x \in Range(u.query) \cup Range(page.names)
         \/ Told(u, s, n, k, x)
  BY <1>11, <1>12
<1>14. DOMAIN start \subseteq DOMAIN r
  BY <1>8, <1>9
<1> QED
  BY <1>2, <1>9, <1>13, <1>14 DEF s, n

-----------------------------------------------------------------------------
(* A form with this action and method has a field x. *)
Field(forms, action, method, x) ==
  \E j \in 1..Len(forms) : forms[j].action = action /\ forms[j].method = method /\ x \in Range(forms[j].fields)

LEMMA FieldConcat ==
  ASSUME NEW p \in Seq(Form), NEW q \in Seq(Form), NEW r, r = p \o q, NEW a, NEW m, NEW x
  PROVE  Field(r, a, m, x) <=> Field(p, a, m, x) \/ Field(q, a, m, x)
<1>1. /\ Len(p) \in Nat /\ Len(q) \in Nat /\ Len(r) = Len(p) + Len(q)
      /\ \A j \in 1..Len(p) : r[j] = p[j]
      /\ \A j \in 1..Len(q) : r[Len(p) + j] = q[j]
  OBVIOUS
<1>2. ASSUME Field(p, a, m, x)  PROVE Field(r, a, m, x)
  <2>1. PICK j \in 1..Len(p) : p[j].action = a /\ p[j].method = m /\ x \in Range(p[j].fields)
    BY <1>2 DEF Field
  <2>2. j \in 1..Len(r) /\ r[j] = p[j]
    BY <1>1
  <2> QED
    BY <2>1, <2>2 DEF Field
<1>3. ASSUME Field(q, a, m, x)  PROVE Field(r, a, m, x)
  <2>1. PICK j \in 1..Len(q) : q[j].action = a /\ q[j].method = m /\ x \in Range(q[j].fields)
    BY <1>3 DEF Field
  <2>2. Len(p) + j \in 1..Len(r) /\ r[Len(p) + j] = q[j]
    BY <1>1
  <2> QED
    BY <2>1, <2>2 DEF Field
<1>4. ASSUME Field(r, a, m, x)  PROVE Field(p, a, m, x) \/ Field(q, a, m, x)
  <2>1. PICK j \in 1..Len(r) : r[j].action = a /\ r[j].method = m /\ x \in Range(r[j].fields)
    BY <1>4 DEF Field
  <2>2. CASE j \in 1..Len(p)
    BY <1>1, <2>1, <2>2 DEF Field
  <2>3. CASE j \notin 1..Len(p)
    <3>1. PICK i \in 1..Len(q) : j = Len(p) + i
      <4>1. j - Len(p) \in 1..Len(q) /\ j = Len(p) + (j - Len(p))
        BY <1>1, <2>3
      <4> QED
        BY <4>1
    <3>2. r[j] = q[i]
      BY <1>1, <3>1
    <3> QED
      BY <2>1, <3>2 DEF Field
  <2> QED
    BY <2>2, <2>3
<1> QED
  BY <1>2, <1>3, <1>4

(* What a token does to the fields, the open form and the closed ones. *)
Effect(r, page, t) ==
  /\ t.tag \in {"link", "form", "form/", "endform"} => r.names = page.names
  /\ t.tag = "field" => Range(r.names) = Range(page.names) \cup {t.name}
  /\ t.tag # "endform" => \A a, m, x : Field(r.forms, a, m, x) <=> Field(page.forms, a, m, x)
  /\ t.tag = "endform" =>
       \A a, m, x : Field(r.forms, a, m, x) <=> Field(page.forms, a, m, x) \/ Field(page.current, a, m, x)
  /\ t.tag \in {"link", "form/"} => r.current = page.current
  /\ t.tag = "form" => r.current = <<NewForm(t)>>
  /\ t.tag = "endform" => r.current = <<>>
  /\ t.tag = "field" =>
       /\ Len(r.current) = Len(page.current)
       /\ \A i \in 1..Len(page.current) :
            /\ r.current[i].action = page.current[i].action /\ r.current[i].method = page.current[i].method
            /\ Range(r.current[i].fields) = Range(page.current[i].fields) \cup {t.name}

LEMMA TokenEffect ==
  ASSUME NEW page \in Page, NEW t \in Tokens
  PROVE  Effect(NextToken(page, t), page, t)
<1> DEFINE r == NextToken(page, t)
<1>1. /\ t.ref \in Seq(Reference) /\ t.name \in STRING
      /\ t.tag \in {"link", "form", "form/", "endform", "field"}
  BY DEF Tokens
<1>2. /\ page.names \in Seq(STRING) /\ page.forms \in Seq(Form) /\ page.current \in Seq(Form)
      /\ page = [links |-> page.links, names |-> page.names, forms |-> page.forms, current |-> page.current]
  BY DEF Page
<1>3. CASE t.tag = "link"
  <2>1. r.names = page.names /\ r.forms = page.forms /\ r.current = page.current
    BY <1>2, <1>3 DEF NextToken
  <2> QED
    BY <1>3, <2>1 DEF Effect
<1>4. CASE t.tag = "form"
  <2>1. r.names = page.names /\ r.forms = page.forms /\ r.current = <<NewForm(t)>>
    BY <1>2, <1>4 DEF NextToken
  <2> QED
    BY <1>4, <2>1 DEF Effect
<1>5. CASE t.tag = "form/"
  <2>1. r.names = page.names /\ r.forms = Append(page.forms, NewForm(t)) /\ r.current = page.current
    BY <1>2, <1>5 DEF NextToken
  <2>2. NewForm(t) \in Form /\ NewForm(t).fields = <<>>
    <3>1. t.method \in Methods /\ Len(t.ref) <= 1
      BY <1>5 DEF Tokens, Methods
    <3> QED
      BY <1>1, <3>1 DEF NewForm, Form
  <2>3. PICK one : one = <<NewForm(t)>>
    OBVIOUS
  <2>4. one \in Seq(Form) /\ Len(one) = 1 /\ one[1] = NewForm(t)
    BY <2>2, <2>3
  <2>5. r.forms = page.forms \o one
    BY <1>2, <2>1, <2>2, <2>3
  <2>6. \A a, m, x : ~Field(one, a, m, x)
    BY <2>2, <2>4 DEF Field, Range
  <2>7. \A a, m, x : Field(r.forms, a, m, x) <=> Field(page.forms, a, m, x)
    <3> HIDE DEF r
    <3>1. PICK all : all = r.forms
      OBVIOUS
    <3>2. \A a, m, x : Field(all, a, m, x) <=> Field(page.forms, a, m, x) \/ Field(one, a, m, x)
      BY <1>2, <2>4, <2>5, <3>1, FieldConcat
    <3> QED
      BY <2>6, <3>1, <3>2
  <2> QED
    BY <1>5, <2>1, <2>7 DEF Effect
<1>6. CASE t.tag = "endform"
  <2>1. r.names = page.names /\ r.forms = page.forms \o page.current /\ r.current = <<>>
    BY <1>2, <1>6 DEF NextToken
  <2>2. \A a, m, x : Field(r.forms, a, m, x) <=> Field(page.forms, a, m, x) \/ Field(page.current, a, m, x)
    BY <1>2, <2>1, FieldConcat
  <2> QED
    BY <1>6, <2>1, <2>2 DEF Effect
<1>7. CASE t.tag = "field"
  <2> DEFINE current == [i \in DOMAIN page.current |-> AddField(page.current[i], t.name)]
             names == Append(page.names, t.name)
  <2>1. r = [page EXCEPT !.names = names, !.current = current]
    BY <1>7 DEF NextToken
  <2>2. Len(page.current) \in Nat /\ DOMAIN page.current = 1..Len(page.current)
    BY <1>2
  <2>3. Range(names) = Range(page.names) \cup {t.name}
    BY <1>1, <1>2, AppendRange
  <2>4. Len(current) = Len(page.current) /\ \A i \in 1..Len(page.current) : current[i] = AddField(page.current[i], t.name)
    BY <2>2
  <2> HIDE DEF current, names
  <2>5. r.names = names /\ r.forms = page.forms /\ r.current = current
    BY <1>2, <2>1
  <2>6. ASSUME NEW i \in 1..Len(page.current)
        PROVE  /\ current[i].action = page.current[i].action /\ current[i].method = page.current[i].method
               /\ Range(current[i].fields) = Range(page.current[i].fields) \cup {t.name}
    <3>1. page.current[i] \in Form
      BY <1>2, <2>2
    <3>2. PICK f : f = Append(page.current[i].fields, t.name)
      OBVIOUS
    <3>3. current[i] = [page.current[i] EXCEPT !.fields = f]
      BY <2>4, <3>2 DEF AddField
    <3>4. current[i].action = page.current[i].action /\ current[i].method = page.current[i].method /\ current[i].fields = f
      BY <3>1, <3>3 DEF Form
    <3>5. page.current[i].fields \in Seq(STRING)
      BY <3>1 DEF Form
    <3>6. Range(f) = Range(page.current[i].fields) \cup {t.name}
      BY <1>1, <3>2, <3>5, AppendRange
    <3> QED
      BY <3>4, <3>6
  <2> QED
    BY <1>7, <2>3, <2>4, <2>5, <2>6 DEF Effect
<1> QED
  BY <1>1, <1>3, <1>4, <1>5, <1>6, <1>7

(* The form tag at i is open, or closed, after k tokens; its fields so far.*)
Open(s, i, k) == s[i].tag = "form" /\ \A m \in (i + 1)..k : ~IsFormTag(s[m])
Closed(s, i, k) ==
  /\ s[i].tag = "form"
  /\ \E e \in (i + 1)..k : s[e].tag = "endform" /\ \A m \in (i + 1)..(e - 1) : ~IsFormTag(s[m])
Within(s, i, j) == s[j].tag = "field" /\ \A m \in (i + 1)..j : ~IsFormTag(s[m])
FieldsTo(s, i, k) == {s[j].name : j \in {n \in (i + 1)..k : Within(s, i, n)}}

(* One more token. *)
Grown(s, i, k) ==
  /\ Open(s, i, k + 1) <=> Open(s, i, k) /\ ~IsFormTag(s[k + 1])
  /\ Closed(s, i, k + 1) <=> Closed(s, i, k) \/ (Open(s, i, k) /\ s[k + 1].tag = "endform")
  /\ ~(Open(s, i, k) /\ Closed(s, i, k))
  /\ Open(s, i, k) /\ s[k + 1].tag = "field" => FieldsTo(s, i, k + 1) = FieldsTo(s, i, k) \cup {s[k + 1].name}
  /\ Closed(s, i, k) \/ s[k + 1].tag # "field" => FieldsTo(s, i, k + 1) = FieldsTo(s, i, k)

LEMMA FormGrows ==
  ASSUME NEW s, NEW k \in Nat, NEW i \in 1..k
  PROVE  Grown(s, i, k)
<1>1. \A m : m \in (i + 1)..(k + 1) <=> m \in (i + 1)..k \/ m = k + 1
  OBVIOUS
<1>2. Open(s, i, k + 1) <=> Open(s, i, k) /\ ~IsFormTag(s[k + 1])
  BY <1>1 DEF Open
<1>3. (k + 1) - 1 = k
  OBVIOUS
<1>4. Closed(s, i, k + 1) <=> Closed(s, i, k) \/ (Open(s, i, k) /\ s[k + 1].tag = "endform")
  BY <1>1, <1>3 DEF Open, Closed
<1>5. ~(Open(s, i, k) /\ Closed(s, i, k))
  BY DEF Open, Closed, IsFormTag
<1>6. /\ Within(s, i, k + 1) => FieldsTo(s, i, k + 1) = FieldsTo(s, i, k) \cup {s[k + 1].name}
      /\ ~Within(s, i, k + 1) => FieldsTo(s, i, k + 1) = FieldsTo(s, i, k)
  BY <1>1 DEF FieldsTo
<1>7. Open(s, i, k) /\ s[k + 1].tag = "field" => Within(s, i, k + 1)
  <2>1. s[k + 1].tag = "field" => ~IsFormTag(s[k + 1])
    BY DEF IsFormTag
  <2> QED
    BY <1>1, <2>1 DEF Open, Within
<1>8. Closed(s, i, k) \/ s[k + 1].tag # "field" => ~Within(s, i, k + 1)
  <2>1. ASSUME Closed(s, i, k)  PROVE ~Within(s, i, k + 1)
    <3>1. PICK e \in (i + 1)..k : s[e].tag = "endform"
      BY <2>1 DEF Closed
    <3>2. e \in (i + 1)..(k + 1) /\ IsFormTag(s[e])
      BY <3>1 DEF IsFormTag
    <3> QED
      BY <3>2 DEF Within
  <2> QED
    BY <2>1 DEF Within
<1> QED
  BY <1>2, <1>4, <1>5, <1>6, <1>7, <1>8 DEF Grown

(* The page after k tokens. *)
Follows(page, s, k) ==
  /\ Range(page.names) = {s[j].name : j \in {n \in 1..k : s[n].tag = "field"}}
  /\ \A a, m, x : Field(page.forms, a, m, x) <=>
       \E i \in 1..k : Closed(s, i, k) /\ s[i].ref = a /\ s[i].method = m /\ x \in FieldsTo(s, i, k)
  /\ \A i \in 1..k : Open(s, i, k) =>
       /\ Len(page.current) = 1 /\ page.current[1].action = s[i].ref /\ page.current[1].method = s[i].method
       /\ Range(page.current[1].fields) = FieldsTo(s, i, k)
  /\ (\A i \in 1..k : ~Open(s, i, k)) => page.current = <<>>

LEMMA FollowsStart ==
  ASSUME NEW s
  PROVE  Follows(EmptyPage, s, 0)
<1>1. 1..0 = {} /\ Len(<<>>) = 0 /\ Range(<<>>) = {}
  BY DEF Range
<1>2. EmptyPage.names = <<>> /\ EmptyPage.forms = <<>> /\ EmptyPage.current = <<>>
  BY DEF EmptyPage
<1>3. \A a, m, x : ~Field(<<>>, a, m, x)
  BY <1>1 DEF Field
<1> QED
  BY <1>1, <1>2, <1>3 DEF Follows

LEMMA FollowsStep ==
  ASSUME NEW s \in Seq(Tokens), NEW k \in 0..(Len(s) - 1), NEW page \in Page, Follows(page, s, k)
  PROVE  Follows(NextToken(page, s[k + 1]), s, k + 1)
<1> DEFINE t == s[k + 1]
           r == NextToken(page, t)
<1>1. k \in Nat /\ k + 1 \in 1..Len(s) /\ t \in Tokens /\ Len(s) \in Nat
  OBVIOUS
<1>2. t.tag \in {"link", "form", "form/", "endform", "field"}
  BY <1>1 DEF Tokens
<1>3. Effect(r, page, t)
  BY <1>1, TokenEffect
<1>4. \A i : i \in 1..(k + 1) <=> i \in 1..k \/ i = k + 1
  BY <1>1
<1>5. \A i \in 1..k : Grown(s, i, k)
  BY <1>1, FormGrows
<1>6. /\ Open(s, k + 1, k + 1) <=> t.tag = "form"
      /\ ~Closed(s, k + 1, k + 1)
      /\ FieldsTo(s, k + 1, k + 1) = {}
  <2>1. ((k + 1) + 1)..(k + 1) = {}
    BY <1>1
  <2> QED
    BY <2>1 DEF Open, Closed, FieldsTo
<1>7. IsFormTag(t) <=> t.tag \in {"form", "endform"}
  BY DEF IsFormTag
<1> HIDE DEF r
<1>8. Range(r.names) = {s[j].name : j \in {n \in 1..(k + 1) : s[n].tag = "field"}}
  <2>1. CASE t.tag = "field"
    <3>1. Range(r.names) = {s[j].name : j \in {n \in 1..k : s[n].tag = "field"}} \cup {t.name}
      BY <1>3, <2>1 DEF Effect, Follows
    <3> QED
      BY <1>4, <2>1, <3>1
  <2>2. CASE t.tag # "field"
    <3>1. Range(r.names) = {s[j].name : j \in {n \in 1..k : s[n].tag = "field"}}
      BY <1>2, <1>3, <2>2 DEF Effect, Follows
    <3> QED
      BY <1>4, <2>2, <3>1
  <2> QED
    BY <2>1, <2>2
<1> HIDE DEF t
<1>9. ASSUME NEW a, NEW m, NEW x
      PROVE  Field(r.forms, a, m, x) <=>
               \E i \in 1..(k + 1) : Closed(s, i, k + 1) /\ s[i].ref = a /\ s[i].method = m /\ x \in FieldsTo(s, i, k + 1)
  <2> DEFINE Gives(i, j) == s[i].ref = a /\ s[i].method = m /\ x \in FieldsTo(s, i, j)
  <2>1. \A i \in 1..k : Closed(s, i, k) => FieldsTo(s, i, k + 1) = FieldsTo(s, i, k)
    BY <1>5 DEF Grown
  <2>2. Field(page.forms, a, m, x) <=> \E i \in 1..k : Closed(s, i, k) /\ Gives(i, k)
    BY DEF Follows
  <2>3. CASE t.tag # "endform"
    <3>1. \A i \in 1..k : Closed(s, i, k + 1) <=> Closed(s, i, k)
      BY <1>5, <2>3 DEF Grown, t
    <3>2. Field(r.forms, a, m, x) <=> Field(page.forms, a, m, x)
      BY <1>3, <2>3 DEF Effect
    <3> QED
      BY <1>4, <1>6, <2>1, <2>2, <3>1, <3>2
  <2>4. CASE t.tag = "endform"
    <3>1. Field(r.forms, a, m, x) <=> Field(page.forms, a, m, x) \/ Field(page.current, a, m, x)
      BY <1>3, <2>4 DEF Effect
    <3>2. \A i \in 1..k : Closed(s, i, k + 1) <=> Closed(s, i, k) \/ Open(s, i, k)
      BY <1>5, <2>4 DEF Grown, t
    <3>3. \A i \in 1..k : FieldsTo(s, i, k + 1) = FieldsTo(s, i, k)
      BY <1>5, <2>4 DEF Grown, t
    <3>4. Field(page.current, a, m, x) <=> \E i \in 1..k : Open(s, i, k) /\ Gives(i, k)
      <4>1. CASE \E i \in 1..k : Open(s, i, k)
        <5>1. ASSUME NEW i \in 1..k, Open(s, i, k)
              PROVE  Field(page.current, a, m, x) <=> Gives(i, k)
          <6>1. /\ Len(page.current) = 1 /\ page.current[1].action = s[i].ref /\ page.current[1].method = s[i].method
                /\ Range(page.current[1].fields) = FieldsTo(s, i, k)
            BY <5>1 DEF Follows
          <6>2. \A j : j \in 1..1 <=> j = 1
            OBVIOUS
          <6> QED
            BY <6>1, <6>2 DEF Field
        <5> QED
          BY <4>1, <5>1
      <4>2. CASE ~ \E i \in 1..k : Open(s, i, k)
        <5>1. page.current = <<>> /\ Len(<<>>) = 0 /\ 1..0 = {}
          BY <4>2 DEF Follows
        <5> QED
          BY <4>2, <5>1 DEF Field
      <4> QED
        BY <4>1, <4>2
    <3> QED
      BY <1>4, <1>6, <2>2, <3>1, <3>2, <3>3, <3>4
  <2> QED
    BY <2>3, <2>4
<1>10. ASSUME NEW i \in 1..(k + 1), Open(s, i, k + 1)
       PROVE  /\ Len(r.current) = 1 /\ r.current[1].action = s[i].ref /\ r.current[1].method = s[i].method
              /\ Range(r.current[1].fields) = FieldsTo(s, i, k + 1)
  <2>1. CASE i = k + 1
    <3>1. r.current = <<NewForm(t)>> /\ s[i] = t
      BY <1>3, <1>6, <1>10, <2>1 DEF Effect, t
    <3>2. NewForm(t).action = t.ref /\ NewForm(t).method = t.method /\ NewForm(t).fields = <<>> /\ Range(<<>>) = {}
      BY DEF NewForm, Range
    <3>3. Len(r.current) = 1 /\ r.current[1] = NewForm(t)
      BY <3>1
    <3> QED
      BY <1>6, <2>1, <3>1, <3>2, <3>3
  <2>2. CASE i # k + 1
    <3>1. i \in 1..k /\ Open(s, i, k) /\ t.tag \in {"link", "form/", "field"}
      BY <1>2, <1>4, <1>5, <1>7, <1>10, <2>2 DEF Grown, t
    <3>2. /\ Len(page.current) = 1 /\ page.current[1].action = s[i].ref /\ page.current[1].method = s[i].method
          /\ Range(page.current[1].fields) = FieldsTo(s, i, k)
      BY <3>1 DEF Follows
    <3>3. CASE t.tag = "field"
      <4>1. FieldsTo(s, i, k + 1) = FieldsTo(s, i, k) \cup {t.name}
        BY <1>5, <3>1, <3>3 DEF Grown, t
      <4>2. 1 \in 1..Len(page.current)
        BY <3>2
      <4>3. /\ Len(r.current) = Len(page.current)
            /\ r.current[1].action = page.current[1].action /\ r.current[1].method = page.current[1].method
            /\ Range(r.current[1].fields) = Range(page.current[1].fields) \cup {t.name}
        BY <1>3, <3>3, <4>2 DEF Effect
      <4> QED
        BY <3>2, <4>1, <4>3
    <3>4. CASE t.tag # "field"
      <4>1. r.current = page.current
        BY <1>3, <3>1, <3>4 DEF Effect
      <4>2. FieldsTo(s, i, k + 1) = FieldsTo(s, i, k)
        BY <1>5, <3>1, <3>4 DEF Grown, t
      <4> QED
        BY <3>2, <4>1, <4>2
    <3> QED
      BY <3>3, <3>4
  <2> QED
    BY <2>1, <2>2
<1>11. ASSUME \A i \in 1..(k + 1) : ~Open(s, i, k + 1)  PROVE r.current = <<>>
  <2>1. t.tag # "form" /\ k + 1 \in 1..(k + 1)
    BY <1>4, <1>6, <1>11
  <2>2. CASE t.tag = "endform"
    BY <1>3, <2>2 DEF Effect
  <2>3. CASE t.tag \in {"link", "form/", "field"}
    <3>1. \A i \in 1..k : ~Open(s, i, k)
      BY <1>4, <1>5, <1>7, <1>11, <2>3 DEF Grown, t
    <3>2. page.current = <<>>
      BY <3>1 DEF Follows
    <3>3. CASE t.tag = "field"
      <4>1. Len(r.current) = 0
        BY <1>3, <3>2, <3>3 DEF Effect
      <4>2. r \in Page
        BY <1>1, NextTokenTypes DEF r, t
      <4> QED
        BY <4>1, <4>2 DEF Page
    <3>4. CASE t.tag # "field"
      BY <1>3, <2>3, <3>2, <3>4 DEF Effect
    <3> QED
      BY <3>3, <3>4
  <2> QED
    BY <1>2, <2>1, <2>2, <2>3
<1>12. Follows(r, s, k + 1)
  BY <1>8, <1>9, <1>10, <1>11 DEF Follows
<1> QED
  BY <1>12 DEF r, t

LEMMA ReportedIs ==
  ASSUME NEW s, NEW n \in Nat, Len(s) = n, NEW i \in 1..n
  PROVE  /\ ReportedForm(s, i) <=> Closed(s, i, n) \/ Open(s, i, n)
         /\ FieldsOf(s, i) = FieldsTo(s, i, n)
<1>1. ASSUME ReportedForm(s, i), ~Open(s, i, n)  PROVE Closed(s, i, n)
  <2> DEFINE U == {m \in (i + 1)..n : IsFormTag(s[m])}
  <2>1. U # {} /\ U \in SUBSET Nat /\ s[i].tag = "form"
    BY <1>1 DEF ReportedForm, Open
  <2> HIDE DEF U
  <2>2. PICK e \in U : \A m \in U : e <= m
    BY <2>1, Least
  <2>3. e \in (i + 1)..n /\ IsFormTag(s[e])
    BY DEF U
  <2>4. \A m \in (i + 1)..(e - 1) : ~IsFormTag(s[m])
    <3> SUFFICES ASSUME NEW m \in (i + 1)..(e - 1), IsFormTag(s[m])  PROVE FALSE
      OBVIOUS
    <3>1. m \in (i + 1)..n /\ ~(e <= m)
      BY <2>3
    <3> QED
      BY <2>2, <3>1 DEF U
  <2>5. s[e].tag = "endform"
    BY <1>1, <2>3, <2>4 DEF ReportedForm
  <2> QED
    BY <2>1, <2>3, <2>4, <2>5 DEF Closed
<1>2. ASSUME Closed(s, i, n)  PROVE ReportedForm(s, i)
  <2>1. PICK e \in (i + 1)..n : s[e].tag = "endform" /\ \A m \in (i + 1)..(e - 1) : ~IsFormTag(s[m])
    BY <1>2 DEF Closed
  <2> SUFFICES ASSUME NEW k \in (i + 1)..n, IsFormTag(s[k]), \A m \in (i + 1)..(k - 1) : ~IsFormTag(s[m])
               PROVE  s[k].tag = "endform"
    BY <1>2 DEF ReportedForm, Closed
  <2>2. ~(k < e)
    <3>1. k < e => k \in (i + 1)..(e - 1)
      OBVIOUS
    <3> QED
      BY <2>1, <3>1
  <2>3. ~(e < k)
    <3>1. e < k => e \in (i + 1)..(k - 1)
      OBVIOUS
    <3> QED
      BY <2>1, <3>1 DEF IsFormTag
  <2> QED
    BY <2>1, <2>2, <2>3
<1>3. ASSUME Open(s, i, n)  PROVE ReportedForm(s, i)
  BY <1>3 DEF Open, ReportedForm
<1>4. FieldsOf(s, i) = FieldsTo(s, i, n)
  BY DEF FieldsOf, FieldsTo, Within
<1> QED
  BY <1>1, <1>2, <1>3, <1>4

(* parsePage reports the fields, and each reported form with its fields. *)
Tells(page, s) ==
  /\ Range(page.names) = {s[j].name : j \in {n \in 1..Len(s) : s[n].tag = "field"}}
  /\ \A a, m, x : Field(page.forms, a, m, x) <=>
       \E i \in 1..Len(s) : ReportedForm(s, i) /\ s[i].ref = a /\ s[i].method = m /\ x \in FieldsOf(s, i)

LEMMA PageTells ==
  ASSUME NEW s \in Seq(Tokens)
  PROVE  Tells(parsePage(s), s)
<1> DEFINE n == Len(s)
<1>1. PICK g : Parses(g, s)
  BY ParseSteps
<1>2. n \in Nat /\ g \in [0..n -> Page]
  BY <1>1 DEF Parses
<1> DEFINE T == {k \in 0..n : Follows(g[k], s, k)}
<1>3. 0 \in T
  BY <1>1, <1>2, FollowsStart DEF Parses
<1>4. ASSUME NEW k \in 0..(n - 1), k \in T  PROVE k + 1 \in T
  <2>1. g[k] \in Page /\ k + 1 \in 1..n /\ k + 1 \in 0..n /\ (k + 1) - 1 = k
    BY <1>2
  <2>2. g[k + 1] = NextToken(g[k], s[k + 1])
    BY <1>1, <2>1 DEF Parses
  <2>3. Follows(g[k], s, k)
    BY <1>4
  <2>4. Follows(g[k + 1], s, k + 1)
    BY <2>1, <2>2, <2>3, FollowsStep
  <2> QED
    BY <2>1, <2>4
<1>5. Follows(g[n], s, n)
  <2>1. n \in T
    <3> HIDE DEF T
    <3>1. \A k \in 0..n : k \in T
      BY <1>2, <1>3, <1>4, UpTo
    <3> QED
      BY <1>2, <3>1
  <2> QED
    BY <2>1
<1> HIDE DEF T
<1>6. PICK p, q, c : p = g[n].forms /\ q = g[n].current /\ c = p \o q
  OBVIOUS
<1>7. parsePage(s).names = g[n].names /\ parsePage(s).forms = c
  <2>1. parsePage(s) = [links |-> g[n].links, names |-> g[n].names, forms |-> c]
    BY <1>1, <1>6 DEF Parses
  <2> QED
    BY <2>1
<1>8. p \in Seq(Form) /\ q \in Seq(Form) /\ c = p \o q
  <2>1. g[n] \in Page
    BY <1>2
  <2> QED
    BY <1>6, <2>1 DEF Page
<1>9. \A a, m, x : Field(c, a, m, x) <=> Field(g[n].forms, a, m, x) \/ Field(g[n].current, a, m, x)
  <2>1. \A a, m, x : Field(c, a, m, x) <=> Field(p, a, m, x) \/ Field(q, a, m, x)
    BY <1>8, FieldConcat
  <2> QED
    BY <1>6, <2>1
<1>10. ASSUME NEW a, NEW m, NEW x
       PROVE  Field(g[n].current, a, m, x) <=>
                \E i \in 1..n : Open(s, i, n) /\ s[i].ref = a /\ s[i].method = m /\ x \in FieldsTo(s, i, n)
  <2>1. CASE \E i \in 1..n : Open(s, i, n)
    <3>1. ASSUME NEW i \in 1..n, Open(s, i, n)
          PROVE  Field(g[n].current, a, m, x) <=> s[i].ref = a /\ s[i].method = m /\ x \in FieldsTo(s, i, n)
      <4>1. /\ Len(g[n].current) = 1 /\ g[n].current[1].action = s[i].ref /\ g[n].current[1].method = s[i].method
            /\ Range(g[n].current[1].fields) = FieldsTo(s, i, n)
        BY <1>5, <3>1 DEF Follows
      <4>2. \A j : j \in 1..1 <=> j = 1
        OBVIOUS
      <4> QED
        BY <4>1, <4>2 DEF Field
    <3> QED
      BY <2>1, <3>1
  <2>2. CASE ~ \E i \in 1..n : Open(s, i, n)
    <3>1. g[n].current = <<>> /\ Len(<<>>) = 0 /\ 1..0 = {}
      BY <1>5, <2>2 DEF Follows
    <3> QED
      BY <2>2, <3>1 DEF Field
  <2> QED
    BY <2>1, <2>2
<1>11. /\ Range(g[n].names) = {s[j].name : j \in {k \in 1..n : s[k].tag = "field"}}
       /\ \A a, m, x : Field(g[n].forms, a, m, x) <=>
            \E i \in 1..n : Closed(s, i, n) /\ s[i].ref = a /\ s[i].method = m /\ x \in FieldsTo(s, i, n)
  BY <1>5 DEF Follows
<1>12. \A i \in 1..n : (ReportedForm(s, i) <=> Closed(s, i, n) \/ Open(s, i, n)) /\ FieldsOf(s, i) = FieldsTo(s, i, n)
  BY <1>2, ReportedIs
<1>13. \A a, m, x : Field(c, a, m, x) <=>
         \E i \in 1..n : ReportedForm(s, i) /\ s[i].ref = a /\ s[i].method = m /\ x \in FieldsOf(s, i)
  BY <1>9, <1>10, <1>11, <1>12
<1> QED
  BY <1>7, <1>11, <1>13 DEF Tells

-----------------------------------------------------------------------------
(* Page u with tokens b says that endpoint k has x. *)
Says(b, u, k, x) ==
  \/ k = <<u, "GET">> /\ x \in Range(u.query) \cup {b[i].name : i \in {n \in DOMAIN b : b[n].tag = "field"}}
  \/ \E i \in DOMAIN b :
       /\ ReportedForm(b, i)
       /\ k = <<Canonical(IF b[i].ref = <<>> THEN u ELSE Resolve(u, b[i].ref[1])), b[i].method>>
       /\ x \in FieldsOf(b, i)

LEMMA VisitLearns ==
  ASSUME NEW e, Proper(e), NEW u \in CanonicalURL, NEW b \in Seq(Tokens), NEW r, r = pageEndpoints(e, u, parsePage(b))
  PROVE  /\ Proper(r) /\ DOMAIN e \subseteq DOMAIN r
         /\ u.name \in Marked => <<u, "GET">> \in DOMAIN r
         /\ \A k, x : x \in Knows(r, k) <=> x \in Knows(e, k) \/ Says(b, u, k, x)
<1>1. PICK page : page = parsePage(b)
  OBVIOUS
<1>2. page.names \in Seq(STRING) /\ page.forms \in Seq(Form)
  BY <1>1, PageLinks
<1>3. /\ Proper(r) /\ DOMAIN e \subseteq DOMAIN r
      /\ u.name \in Marked => <<u, "GET">> \in DOMAIN r
      /\ \A k, x : x \in Knows(r, k) <=>
           \/ x \in Knows(e, k)
           \/ k = <<u, "GET">> /\ x \in Range(u.query) \cup Range(page.names)
           \/ Told(u, page.forms, Len(page.forms), k, x)
  BY <1>1, <1>2, PageLearns
<1>4. DOMAIN b = 1..Len(b)
  OBVIOUS
<1>5. /\ Range(page.names) = {b[j].name : j \in {n \in 1..Len(b) : b[n].tag = "field"}}
      /\ \A a, m, x : Field(page.forms, a, m, x) <=>
           \E i \in 1..Len(b) : ReportedForm(b, i) /\ b[i].ref = a /\ b[i].method = m /\ x \in FieldsOf(b, i)
  <2>1. Tells(page, b)
    BY <1>1, PageTells
  <2> QED
    BY <2>1 DEF Tells
<1> DEFINE At(a) == Canonical(IF a = <<>> THEN u ELSE Resolve(u, a[1]))
<1>6. ASSUME NEW k, NEW x
      PROVE  Told(u, page.forms, Len(page.forms), k, x) <=> \E a, m : Field(page.forms, a, m, x) /\ k = <<At(a), m>>
  BY DEF Told, Field, ActionOf
<1> HIDE DEF At
<1>7. \A k, x : Told(u, page.forms, Len(page.forms), k, x) <=>
        \E i \in DOMAIN b : ReportedForm(b, i) /\ k = <<At(b[i].ref), b[i].method>> /\ x \in FieldsOf(b, i)
  BY <1>4, <1>5, <1>6
<1>8. \A k, x : Says(b, u, k, x) <=>
        \/ k = <<u, "GET">> /\ x \in Range(u.query) \cup Range(page.names)
        \/ Told(u, page.forms, Len(page.forms), k, x)
  BY <1>4, <1>5, <1>7 DEF Says, At
<1> QED
  BY <1>3, <1>8

EpsInv ==
  /\ Proper(eps)
  /\ \A u \in Answered : u.name \in Marked => <<u, "GET">> \in DOMAIN eps
  /\ \A k, x : x \in Knows(eps, k) <=> \E u \in Answered : Says(Body(u), u, k, x)

LEMMA SaysParams ==
  /\ \A url, x : x \in ParamsOf(url) <=> \E u \in Answered : Says(Body(u), u, <<url, "GET">>, x)
  /\ \A url, x : x \in FormParamsOf(url) <=> \E u \in Answered : Says(Body(u), u, <<url, "POST">>, x)
<1> DEFINE At(u, i) == Canonical(IF Body(u)[i].ref = <<>> THEN u ELSE Resolve(u, Body(u)[i].ref[1]))
           Given(u, url, m, x) ==
             \E i \in DOMAIN Body(u) :
               ReportedForm(Body(u), i) /\ url = At(u, i) /\ Body(u)[i].method = m /\ x \in FieldsOf(Body(u), i)
<1>1. \A m, url, x : x \in UNION {f.fields : f \in {g \in FormsOf(m) : g.url = url}} <=> \E u \in Answered : Given(u, url, m, x)
  <2>1. ASSUME NEW m, NEW url, NEW x, NEW f \in FormsOf(m), f.url = url, x \in f.fields
        PROVE  \E u \in Answered : Given(u, url, m, x)
    <3>0. PICK u \in Answered :
            \E i \in DOMAIN Body(u) :
              /\ ReportedForm(Body(u), i) /\ Body(u)[i].method = m
              /\ f = [url |-> At(u, i), fields |-> FieldsOf(Body(u), i)]
      BY <2>1 DEF FormsOf
    <3>1. PICK i \in DOMAIN Body(u) :
            /\ ReportedForm(Body(u), i) /\ Body(u)[i].method = m
            /\ f = [url |-> At(u, i), fields |-> FieldsOf(Body(u), i)]
      BY <3>0
    <3>2. f.url = At(u, i) /\ f.fields = FieldsOf(Body(u), i)
      BY <3>1
    <3> QED
      BY <2>1, <3>1, <3>2
  <2>2. ASSUME NEW m, NEW url, NEW x, NEW u \in Answered, Given(u, url, m, x)
        PROVE  \E f \in FormsOf(m) : f.url = url /\ x \in f.fields
    <3>1. PICK i \in DOMAIN Body(u) :
            ReportedForm(Body(u), i) /\ url = At(u, i) /\ Body(u)[i].method = m /\ x \in FieldsOf(Body(u), i)
      BY <2>2
    <3> DEFINE f == [url |-> At(u, i), fields |-> FieldsOf(Body(u), i)]
    <3>2. f \in FormsOf(m)
      BY <3>1 DEF FormsOf
    <3>3. f.url = url /\ x \in f.fields
      BY <3>1
    <3> QED
      BY <3>2, <3>3
  <2> HIDE DEF Given
  <2> QED
    BY <2>1, <2>2
<1>2. \A u, url, m, x : Says(Body(u), u, <<url, m>>, x) <=>
        (url = u /\ m = "GET" /\ x \in PageParams(u)) \/ Given(u, url, m, x)
  BY DEF Says, PageParams
<1> HIDE DEF Given
<1>3. \A url, x : x \in ParamsOf(url) <=>
        (url \in Answered /\ x \in PageParams(url)) \/ \E u \in Answered : Given(u, url, "GET", x)
  <2>1. \A url : ParamsOf(url) = (UNION {PageParams(u) : u \in Answered \cap {url}})
                                 \cup (UNION {f.fields : f \in {g \in FormsOf("GET") : g.url = url}})
    BY DEF ParamsOf
  <2> QED
    BY <1>1, <2>1
<1>4. \A url, x : x \in FormParamsOf(url) <=> \E u \in Answered : Given(u, url, "POST", x)
  BY <1>1 DEF FormParamsOf
<1> QED
  BY <1>2, <1>3, <1>4

LEMMA EpsInitial == CrawlInit => EpsInv
<1> SUFFICES ASSUME CrawlInit  PROVE EpsInv
  OBVIOUS
<1>1. eps = <<>> /\ log = <<>> /\ DOMAIN eps = {} /\ DOMAIN log = {}
  BY DEF CrawlInit
<1>2. Answered = {} /\ IsFiniteSet({})
  BY <1>1, FS_EmptySet DEF Answered
<1>3. Proper(eps)
  BY <1>1, <1>2 DEF Proper, Surface
<1>4. \A k : Knows(eps, k) = {}
  BY <1>1 DEF Knows, ParamSet, FormSet
<1> QED
  BY <1>2, <1>3, <1>4 DEF EpsInv

LEMMA EpsKept == LogInv /\ EpsInv /\ CrawlNext => EpsInv'
<1> SUFFICES ASSUME LogInv, EpsInv, CrawlNext  PROVE EpsInv'
  OBVIOUS
<1>1. site' = site
  BY DEF CrawlNext, SkipSeen, VisitFails, Visit, FinishCrawl
<1>2. \A u : Body(u)' = Body(u)
  BY <1>1 DEF Body
<1>3. ASSUME eps' = eps, Answered' = Answered  PROVE EpsInv'
  BY <1>2, <1>3 DEF EpsInv
<1>4. CASE SkipSeen \/ FinishCrawl
  <2>1. eps' = eps /\ log' = log
    BY <1>4 DEF SkipSeen, FinishCrawl
  <2>2. Answered' = Answered
    BY <2>1 DEF Answered
  <2> QED
    BY <1>3, <2>1, <2>2
<1>5. CASE VisitFails
  <2>1. /\ Crawling /\ Current \notin seen /\ seen' = seen \cup {Current} /\ eps' = eps
        /\ log' = Append(log, [url |-> Current, answered |-> FALSE]) /\ FALSE \in BOOLEAN
    BY <1>5 DEF VisitFails
  <2>2. Answered' = Answered
    BY <2>1, RequestStep
  <2> QED
    BY <1>3, <2>1, <2>2
<1>6. CASE Visit
  <2>1. /\ Crawling /\ Current \notin seen /\ seen' = seen \cup {Current}
        /\ log' = Append(log, [url |-> Current, answered |-> TRUE]) /\ TRUE \in BOOLEAN
        /\ eps' = pageEndpoints(eps, Current, parsePage(Body(Current)))
    BY <1>6 DEF Visit
  <2>2. Answered' = Answered \cup {Current} /\ Current \in URL /\ Canonical(Current) = Current
    BY <2>1, RequestStep
  <2>3. Body(Current) \in Seq(Tokens) /\ Current \in CanonicalURL
    BY <2>2, CrawlerAssumption DEF LogInv, Body, CanonicalURL
  <2>4. PICK c, b, r : c = Current /\ b = Body(Current) /\ r = eps'
    OBVIOUS
  <2>5. /\ Proper(r) /\ DOMAIN eps \subseteq DOMAIN r
        /\ c.name \in Marked => <<c, "GET">> \in DOMAIN r
        /\ \A k, x : x \in Knows(r, k) <=> x \in Knows(eps, k) \/ Says(b, c, k, x)
    <3>1. Proper(eps) /\ c \in CanonicalURL /\ b \in Seq(Tokens) /\ r = pageEndpoints(eps, c, parsePage(b))
      BY <2>1, <2>3, <2>4 DEF EpsInv
    <3> QED
      BY <3>1, VisitLearns
  <2>6. \A k, x : (\E u \in Answered' : Says(Body(u)', u, k, x)) <=>
                   (\E u \in Answered : Says(Body(u), u, k, x)) \/ Says(b, c, k, x)
    BY <1>2, <2>2, <2>4
  <2>7. \A u \in Answered' : u.name \in Marked => <<u, "GET">> \in DOMAIN r
    BY <2>2, <2>4, <2>5 DEF EpsInv
  <2>8. Proper(eps') /\ \A k, x : x \in Knows(eps', k) <=> \E u \in Answered' : Says(Body(u)', u, k, x)
    BY <2>4, <2>5, <2>6 DEF EpsInv
  <2> QED
    BY <2>4, <2>7, <2>8 DEF EpsInv
<1> QED
  BY <1>4, <1>5, <1>6 DEF CrawlNext

-----------------------------------------------------------------------------
(* The list that Crawl returns. *)
LEMMA KeysOrdered ==
  ASSUME NEW D \in SUBSET Keys
  PROVE  StrictOrder(D, KeyOrder(D))
<1>1. \A k \in D : k = <<k[1], k[2]>> /\ k[1] \in CanonicalURL /\ k[2] \in {"GET", "POST"}
  BY DEF Keys, Methods
<1>2. \A a, b \in D : <<a, b>> \in KeyOrder(D) <=> KeyBefore(a, b)
  BY DEF KeyOrder
<1>3. \A a \in D : ~KeyBefore(a, a)
  BY <1>1, AlphabeticalAssumption DEF KeyBefore
<1>4. \A a, b \in D : a = b \/ KeyBefore(a, b) \/ KeyBefore(b, a)
  <2> SUFFICES ASSUME NEW a \in D, NEW b \in D  PROVE a = b \/ KeyBefore(a, b) \/ KeyBefore(b, a)
    OBVIOUS
  <2>1. CASE a[1] = b[1]
    <3>1. a[2] = b[2] => a = b
      BY <1>1, <2>1
    <3> QED
      BY <1>1, <2>1, <3>1 DEF KeyBefore
  <2>2. CASE a[1] # b[1]
    BY <1>1, <2>2, AlphabeticalAssumption DEF KeyBefore
  <2> QED
    BY <2>1, <2>2
<1>5. \A a, b, c \in D : KeyBefore(a, b) /\ KeyBefore(b, c) => KeyBefore(a, c)
  BY <1>1, AlphabeticalAssumption DEF KeyBefore
<1> QED
  BY <1>2, <1>3, <1>4, <1>5 DEF StrictOrder

Endpoints == [url : CanonicalURL, method : Methods, params : Unrepeated(STRING), form : Unrepeated(STRING)]

(* f is the list of endpoints e, in order. *)
Presents(f, e) ==
  /\ f \in Seq(Endpoints)
  /\ \A i, j \in 1..Len(f) : i < j <=> KeyBefore(<<f[i].url, f[i].method>>, <<f[j].url, f[j].method>>)
  /\ \A i \in 1..Len(f) :
       LET k == <<f[i].url, f[i].method>> IN
       k \in DOMAIN e /\ f[i].params = e[k].params /\ f[i].form = e[k].form
  /\ \A k \in DOMAIN e : \E i \in 1..Len(f) : <<f[i].url, f[i].method>> = k

LEMMA ListOf ==
  ASSUME NEW S, NEW n \in Nat, NEW q \in [1..n -> S]
  PROVE  q \in Seq(S) /\ Len(q) = n
OBVIOUS

LEMMA SortedPresents ==
  ASSUME NEW e, Surface(e), NEW l, l = Listing(DOMAIN e, KeyOrder(DOMAIN e)), NEW f,
         f = [i \in DOMAIN l |-> [url |-> l[i][1], method |-> l[i][2], params |-> e[l[i]].params, form |-> e[l[i]].form]]
  PROVE  Presents(f, e)
<1> DEFINE D == DOMAIN e
           n == Cardinality(D)
<1>1. D \in SUBSET Keys /\ IsFiniteSet(D) /\ \A k \in D : e[k] \in Value
  BY DEF Surface
<1>2. StrictOrder(D, KeyOrder(D))
  BY <1>1, KeysOrdered
<1>3. Lists(l, D, KeyOrder(D))
  BY <1>1, <1>2, ListingLists
<1> HIDE DEF D
<1>4. /\ n \in Nat /\ l \in [1..n -> D]
      /\ \A x \in D : \E k \in 1..n : l[k] = x
      /\ \A i, j \in 1..n : i < j <=> <<l[i], l[j]>> \in KeyOrder(D)
  BY <1>3 DEF Lists
<1> HIDE DEF n
<1>5. ASSUME NEW i \in 1..n
      PROVE  /\ l[i] \in D /\ l[i] = <<l[i][1], l[i][2]>> /\ l[i][1] \in CanonicalURL /\ l[i][2] \in Methods
             /\ e[l[i]].params \in Unrepeated(STRING) /\ e[l[i]].form \in Unrepeated(STRING)
  <2>1. l[i] \in D /\ l[i] \in Keys /\ e[l[i]] \in Value
    BY <1>1, <1>4
  <2> QED
    BY <2>1 DEF Keys, Value
<1>6. DOMAIN l = 1..n
  BY <1>4
<1>7. f = [i \in 1..n |-> [url |-> l[i][1], method |-> l[i][2], params |-> e[l[i]].params, form |-> e[l[i]].form]]
  BY <1>6
<1>8. ASSUME NEW i \in 1..n
      PROVE  /\ f[i] \in Endpoints /\ f[i].url = l[i][1] /\ f[i].method = l[i][2]
             /\ f[i].params = e[l[i]].params /\ f[i].form = e[l[i]].form
  <2>1. f[i] = [url |-> l[i][1], method |-> l[i][2], params |-> e[l[i]].params, form |-> e[l[i]].form]
    BY <1>7
  <2> QED
    BY <1>5, <2>1 DEF Endpoints
<1>9. f \in Seq(Endpoints) /\ Len(f) = n
  <2>1. f \in [1..n -> Endpoints]
    BY <1>7, <1>8
  <2>2. PICK q : q = f
    OBVIOUS
  <2>3. q \in Seq(Endpoints) /\ Len(q) = n
    BY <1>4, <2>1, <2>2, ListOf
  <2> QED
    BY <2>2, <2>3
<1>10. \A i \in 1..n : <<f[i].url, f[i].method>> = l[i]
  BY <1>5, <1>8
<1>11. \A i, j \in 1..n : i < j <=> KeyBefore(l[i], l[j])
  BY <1>4, <1>5 DEF KeyOrder
<1>12. \A i \in 1..n : l[i] \in DOMAIN e
  BY <1>5 DEF D
<1>13. \A k \in DOMAIN e : \E i \in 1..n : <<f[i].url, f[i].method>> = k
  BY <1>4, <1>10 DEF D
<1>14. PICK g : g = f
  OBVIOUS
<1>15. g \in Seq(Endpoints) /\ Len(g) = n
  BY <1>9, <1>14
<1>17. \A i \in 1..n : <<g[i].url, g[i].method>> = l[i] /\ g[i].params = e[l[i]].params /\ g[i].form = e[l[i]].form
  BY <1>8, <1>10, <1>14
<1>18. \A k \in DOMAIN e : \E i \in 1..n : <<g[i].url, g[i].method>> = k
  BY <1>13, <1>14
<1>16. Presents(g, e)
  BY <1>11, <1>12, <1>15, <1>17, <1>18 DEF Presents
<1> QED
  BY <1>14, <1>16

(* e is what Crawl sorts: the endpoints known, or the target for want of any. *)
Complete(e, known) ==
  /\ Surface(e) /\ DOMAIN known \subseteq DOMAIN e
  /\ \A k \in DOMAIN e : (k[2] = "GET" => FormSet(e, k) = {}) /\ (k[2] = "POST" => ParamSet(e, k) = {})
  /\ \A k : Knows(e, k) = Knows(known, k)

LEMMA FinishPresents ==
  ASSUME LogInv, EpsInv, FinishCrawl
  PROVE  \E e : Complete(e, eps) /\ Presents(found', e)
<1> DEFINE e == IF eps # <<>> THEN eps ELSE addEndpoint(eps, Canonical(target), "GET", <<>>, <<>>)
           l == Listing(DOMAIN e, KeyOrder(DOMAIN e))
<1>1. found' = [i \in DOMAIN l |-> [url |-> l[i][1], method |-> l[i][2], params |-> e[l[i]].params, form |-> e[l[i]].form]]
  BY DEF FinishCrawl
<1>2. Complete(e, eps)
  <2>1. CASE eps # <<>>
    <3>1. e = eps
      BY <2>1
    <3> HIDE DEF e
    <3> QED
      BY <3>1 DEF Complete, EpsInv, Proper
  <2>2. CASE eps = <<>>
    <3>1. e = addEndpoint(eps, Canonical(target), "GET", <<>>, <<>>)
      BY <2>2
    <3>2. Canonical(target) \in CanonicalURL /\ "GET" \in Methods /\ <<>> \in Seq(STRING) /\ Range(<<>>) = {}
      BY CanonicalTypes DEF LogInv, CanonicalURL, Methods, Range
    <3>3. Surface(eps)
      BY DEF EpsInv, Proper
    <3> HIDE DEF e, l
    <3>4. PICK key : key = <<Canonical(target), "GET">>
      OBVIOUS
    <3>5. Adds(e, eps, key, {}, {})
      BY <3>1, <3>2, <3>3, <3>4, AddEndpointAdds
    <3>6. DOMAIN eps = {}
      BY <2>2
    <3>7. \A k : ParamSet(e, k) = {} /\ FormSet(e, k) = {} /\ ParamSet(eps, k) = {} /\ FormSet(eps, k) = {}
      BY <3>5, <3>6 DEF Adds, ParamSet, FormSet
    <3> QED
      BY <3>5, <3>7 DEF Adds, Complete, Knows
  <2> QED
    BY <2>1, <2>2
<1>3. Surface(e)
  BY <1>2 DEF Complete
<1> HIDE DEF e
<1>4. Presents(found', e)
  BY <1>1, <1>3, SortedPresents
<1> QED
  BY <1>2, <1>4

FoundInv == found # <<>> => \E e : Complete(e, eps) /\ Presents(found, e)

LEMMA EmptyRange ==
  ASSUME NEW X, NEW q \in Seq(X), Range(q) = {}
  PROVE  q = <<>>
<1>1. Len(q) \in Nat /\ \A i \in 1..Len(q) : q[i] \in Range(q)
  BY DEF Range
<1>2. Len(q) = 0
  <2>1. Len(q) # 0 => 1 \in 1..Len(q)
    BY <1>1
  <2> QED
    BY <1>1, <2>1
<1> QED
  BY <1>2

LEMMA SurfaceImplies == LogInv /\ EpsInv /\ FoundInv => SurfaceIsUnion
<1> SUFFICES ASSUME LogInv, EpsInv, FoundInv, found # <<>>  PROVE SurfaceIsUnion
  BY DEF SurfaceIsUnion
<1>1. PICK e : Complete(e, eps) /\ Presents(found, e)
  BY DEF FoundInv
<1> DEFINE Key(i) == <<found[i].url, found[i].method>>
<1>2. /\ found \in Seq(Endpoints) /\ DOMAIN found = 1..Len(found) /\ Len(found) \in Nat
      /\ \A i, j \in DOMAIN found : i < j <=> KeyBefore(Key(i), Key(j))
      /\ \A i \in DOMAIN found : Key(i) \in DOMAIN e /\ found[i].params = e[Key(i)].params /\ found[i].form = e[Key(i)].form
      /\ \A k \in DOMAIN e : \E i \in DOMAIN found : Key(i) = k
  BY <1>1 DEF Presents
<1>3. ASSUME NEW i \in DOMAIN found
      PROVE  /\ found[i].url \in CanonicalURL /\ found[i].method \in Methods
             /\ found[i].params \in Unrepeated(STRING) /\ found[i].form \in Unrepeated(STRING)
  <2>1. found[i] \in Endpoints
    BY <1>2
  <2> QED
    BY <2>1 DEF Endpoints
<1>4. ASSUME NEW i \in DOMAIN found  PROVE IsInjective(found[i].params) /\ IsInjective(found[i].form)
  <2>1. \A q \in Unrepeated(STRING) : IsInjective(q)
    BY DEF Unrepeated, IsInjective
  <2> QED
    BY <1>3, <2>1
<1>5. \A k, x : x \in Knows(e, k) <=> \E u \in Answered : Says(Body(u), u, k, x)
  BY <1>1 DEF EpsInv, Complete
<1>6. /\ \A url : Knows(e, <<url, "GET">>) = ParamsOf(url)
      /\ \A url : Knows(e, <<url, "POST">>) = FormParamsOf(url)
  <2>1. ASSUME NEW url  PROVE Knows(e, <<url, "GET">>) = ParamsOf(url)
    <3>1. \A x : x \in Knows(e, <<url, "GET">>) <=> x \in ParamsOf(url)
      BY <1>5, SaysParams
    <3> QED
      BY <3>1
  <2>2. ASSUME NEW url  PROVE Knows(e, <<url, "POST">>) = FormParamsOf(url)
    <3>1. \A x : x \in Knows(e, <<url, "POST">>) <=> x \in FormParamsOf(url)
      BY <1>5, SaysParams
    <3> QED
      BY <3>1
  <2> QED
    BY <2>1, <2>2
<1>7. ASSUME NEW i \in DOMAIN found, found[i].method = "GET"
      PROVE  found[i].form = <<>> /\ Range(found[i].params) = ParamsOf(found[i].url)
  <2>1. PICK k : k = Key(i)
    OBVIOUS
  <2>2. k \in DOMAIN e /\ k[2] = "GET" /\ k = <<found[i].url, "GET">>
    BY <1>2, <1>7, <2>1
  <2>3. FormSet(e, k) = {} /\ Knows(e, k) = ParamSet(e, k)
    BY <1>1, <2>2 DEF Complete, Knows
  <2>4. Range(found[i].form) = {} /\ Range(found[i].params) = ParamSet(e, k)
    BY <1>2, <2>1, <2>2, <2>3 DEF FormSet, ParamSet
  <2>5. found[i].form \in Seq(STRING)
    BY <1>3 DEF Unrepeated
  <2> QED
    BY <1>6, <2>2, <2>3, <2>4, <2>5, EmptyRange
<1>8. ASSUME NEW i \in DOMAIN found, found[i].method = "POST"
      PROVE  found[i].params = <<>> /\ Range(found[i].form) = FormParamsOf(found[i].url)
  <2>1. PICK k : k = Key(i)
    OBVIOUS
  <2>2. k \in DOMAIN e /\ k[2] = "POST" /\ k = <<found[i].url, "POST">>
    BY <1>2, <1>8, <2>1
  <2>3. ParamSet(e, k) = {} /\ Knows(e, k) = FormSet(e, k)
    BY <1>1, <2>2 DEF Complete, Knows
  <2>4. Range(found[i].params) = {} /\ Range(found[i].form) = FormSet(e, k)
    BY <1>2, <2>1, <2>2, <2>3 DEF FormSet, ParamSet
  <2>5. found[i].params \in Seq(STRING)
    BY <1>3 DEF Unrepeated
  <2> QED
    BY <1>6, <2>2, <2>3, <2>4, <2>5, EmptyRange
<1>9. ASSUME NEW url, NEW m, Knows(e, <<url, m>>) # {}
      PROVE  \E i \in DOMAIN found : found[i].url = url /\ found[i].method = m
  <2>1. <<url, m>> \in DOMAIN e
    BY <1>9 DEF Knows, ParamSet, FormSet
  <2>2. PICK i \in DOMAIN found : Key(i) = <<url, m>>
    BY <1>2, <2>1
  <2> QED
    BY <2>2
<1>10. \A url : ParamsOf(url) # {} => \E i \in DOMAIN found : found[i].url = url /\ found[i].method = "GET"
  BY <1>6, <1>9
<1>11. ASSUME NEW f \in FormsOf("POST"), f.fields # {}
       PROVE  \E i \in DOMAIN found : found[i].url = f.url /\ found[i].method = "POST"
  <2>1. FormParamsOf(f.url) # {}
    BY <1>11 DEF FormParamsOf
  <2> QED
    BY <1>6, <1>9, <2>1
<1>12. ASSUME NEW u \in Answered, u.name \in Marked
       PROVE  \E i \in DOMAIN found : found[i].url = u /\ found[i].method = "GET"
  <2>1. <<u, "GET">> \in DOMAIN e
    BY <1>1, <1>12 DEF EpsInv, Complete
  <2>2. PICK i \in DOMAIN found : Key(i) = <<u, "GET">>
    BY <1>2, <2>1
  <2> QED
    BY <2>2
<1> QED
  BY <1>2, <1>4, <1>7, <1>8, <1>10, <1>11, <1>12 DEF SurfaceIsUnion

LEMMA FoundKept == LogInv /\ EpsInv /\ FoundInv /\ CrawlNext => FoundInv'
<1> SUFFICES ASSUME LogInv, EpsInv, FoundInv, CrawlNext  PROVE FoundInv'
  OBVIOUS
<1>1. CASE FinishCrawl
  <2>1. eps' = eps
    BY <1>1 DEF FinishCrawl
  <2>2. \E e : Complete(e, eps) /\ Presents(found', e)
    BY <1>1, FinishPresents
  <2> QED
    BY <2>1, <2>2 DEF FoundInv
<1>2. CASE SkipSeen \/ VisitFails \/ Visit
  <2>1. found' = <<>>
    BY <1>2 DEF SkipSeen, VisitFails, Visit, Crawling
  <2> QED
    BY <2>1 DEF FoundInv
<1> QED
  BY <1>1, <1>2 DEF CrawlNext

-----------------------------------------------------------------------------
(* What holds of a crawl: its log, its queue, its endpoints, its result. *)
CrawlInv == LogInv /\ ClosedInv /\ EpsInv /\ FoundInv

LEMMA CrawlSteps == CrawlInv /\ [Next]_vars => CrawlInv'
<1> SUFFICES ASSUME CrawlInv, [Next]_vars  PROVE CrawlInv'
  OBVIOUS
<1>1. CASE UNCHANGED crawlVars
  <2>1. UNCHANGED <<site, target, queue, seen, eps, log, found>>
    BY <1>1 DEF crawlVars
  <2>2. Requested' = Requested /\ Answered' = Answered /\ \A u : Body(u)' = Body(u)
    BY <2>1 DEF Requested, Answered, Body
  <2>3. LogInv' /\ ClosedInv'
    BY <2>1, <2>2 DEF CrawlInv, LogInv, ClosedInv
  <2>4. EpsInv' /\ FoundInv'
    BY <2>1, <2>2 DEF CrawlInv, EpsInv, FoundInv
  <2> QED
    BY <2>3, <2>4 DEF CrawlInv
<1>2. CASE Crawl
  <2>1. CrawlNext
    BY <1>2 DEF Crawl, CrawlNext
  <2>2. LogInv' /\ ClosedInv'
    BY <2>1, CrawlKept DEF CrawlInv
  <2>3. EpsInv' /\ FoundInv'
    BY <2>1, EpsKept, FoundKept DEF CrawlInv
  <2> QED
    BY <2>2, <2>3 DEF CrawlInv
<1> QED
  BY <1>1, <1>2
     DEF Next, vars, Start, DeadlinePasses, CheckTarget, Gate, HandOver, Walk, FinishJobs, WriteReports, OpenReport,
         FillReport, SaveHistory, Leave, Kill

LEMMA CrawlHolds == Spec => []CrawlInv
<1>1. Init => CrawlInv
  <2>1. Init => FoundInv
    BY DEF Init, CrawlInit, FoundInv
  <2> QED
    BY <2>1, CrawlInitial, EpsInitial DEF Init, CrawlInv
<1> QED
  BY <1>1, CrawlSteps, PTL DEF Spec

(* No page is requested twice under different spellings of its URL, and    *)
(* the page limit bounds the requests (crawler.go 236-244, 260-272).       *)
THEOREM PagesOnce == Spec => []VisitsOnce
<1>1. CrawlInv => VisitsOnce
  BY LogImplies DEF CrawlInv
<1> QED
  BY <1>1, CrawlHolds, PTL

(* A crawl below the page limit has requested every link to its host on    *)
(* every page that answered, whatever failed on the way (crawler.go        *)
(* 260-346).                                                               *)
THEOREM CrawlCloses == Spec => []CrawlIsClosed
<1>1. CrawlInv => CrawlIsClosed
  BY ClosedImplies DEF CrawlInv
<1> QED
  BY <1>1, CrawlHolds, PTL

(* What Crawl returns has one endpoint for each URL and method, sorted,    *)
(* with the parameters of every page and form that names it and no other   *)
(* (crawler.go 169-224, 300-390).                                          *)
THEOREM SurfaceComplete == Spec => []SurfaceIsUnion
<1>1. CrawlInv => SurfaceIsUnion
  BY SurfaceImplies DEF CrawlInv
<1> QED
  BY <1>1, CrawlHolds, PTL

-----------------------------------------------------------------------------
(* The jobs. *)
LEMMA ConcatUnrepeated ==
  ASSUME NEW X, NEW q \in Unrepeated(X), NEW s \in Unrepeated(X), Range(q) \cap Range(s) = {}, NEW r, r = q \o s
  PROVE  r \in Unrepeated(X)
<1>1. /\ q \in Seq(X) /\ s \in Seq(X) /\ Len(q) \in Nat /\ Len(s) \in Nat
      /\ \A i, j \in 1..Len(q) : q[i] = q[j] => i = j
      /\ \A i, j \in 1..Len(s) : s[i] = s[j] => i = j
  BY DEF Unrepeated
<1>2. /\ r \in Seq(X) /\ Len(r) = Len(q) + Len(s)
      /\ \A i \in 1..Len(q) : r[i] = q[i]
      /\ \A i \in 1..Len(s) : r[Len(q) + i] = s[i]
  BY <1>1
<1>3. /\ \A i \in 1..Len(q) : r[i] \in Range(q)
      /\ \A i \in 1..Len(s) : r[Len(q) + i] \in Range(s)
  BY <1>1, <1>2 DEF Range
<1>4. \A i \in 1..Len(r) : i \in 1..Len(q) \/ (i - Len(q) \in 1..Len(s) /\ Len(q) + (i - Len(q)) = i)
  BY <1>1, <1>2
<1>5. ASSUME NEW i \in 1..Len(r), NEW j \in 1..Len(r), r[i] = r[j]  PROVE i = j
  <2>1. CASE i \in 1..Len(q) /\ j \in 1..Len(q)
    BY <1>1, <1>2, <1>5, <2>1
  <2>2. CASE i \in 1..Len(q) /\ j \notin 1..Len(q)
    <3>1. r[i] \in Range(q)
      BY <1>3, <2>2
    <3>2. r[j] \in Range(s)
      BY <1>3, <1>4, <2>2
    <3> QED
      BY <1>5, <3>1, <3>2
  <2>3. CASE i \notin 1..Len(q) /\ j \in 1..Len(q)
    <3>1. r[j] \in Range(q)
      BY <1>3, <2>3
    <3>2. r[i] \in Range(s)
      BY <1>3, <1>4, <2>3
    <3> QED
      BY <1>5, <3>1, <3>2
  <2>4. CASE i \notin 1..Len(q) /\ j \notin 1..Len(q)
    <3>1. i - Len(q) \in 1..Len(s) /\ j - Len(q) \in 1..Len(s) /\ Len(q) + (i - Len(q)) = i /\ Len(q) + (j - Len(q)) = j
      BY <1>4, <2>4
    <3>2. r[i] = s[i - Len(q)] /\ r[j] = s[j - Len(q)]
      BY <1>2, <3>1
    <3>3. i - Len(q) = j - Len(q)
      BY <1>1, <1>5, <3>1, <3>2
    <3> QED
      BY <1>1, <3>3
  <2> QED
    BY <2>1, <2>2, <2>3, <2>4
<1> QED
  BY <1>2, <1>5 DEF Unrepeated

(* What has been visited after each list. *)
Turns(g, lists, X) ==
  /\ g \in [0..Len(lists) -> Seq(X)]
  /\ g[0] = <<>> /\ \A k \in 1..Len(lists) : g[k] = Visited(g[k - 1], lists[k])
  /\ InTurn(lists) = g[Len(lists)]

LEMMA TurnSteps ==
  ASSUME NEW X, NEW s \in Seq(Seq(X))
  PROVE  \E g : Turns(g, s, X)
<1> DEFINE n == Len(s)
           V == Seq(X)
           f == [p \in (1..n) \X V |-> Visited(p[2], s[p[1]])]
           Is(k) == k = [A \in SUBSET (1..n) |-> IF A = {} THEN <<>> ELSE Visited(k[A \ {Max(A)}], s[Max(A)])]
           iter == CHOOSE k : Is(k)
<1>1. n \in Nat /\ DOMAIN s = 1..n
  OBVIOUS
<1>2. InTurn(s) = iter[1..n]
  BY <1>1 DEF InTurn, FoldLeft, MapThenFoldSet
<1>3. <<>> \in V
  OBVIOUS
<1>4. f \in [(1..n) \X V -> V]
  <2>1. \A i \in 1..n : \A v \in V : Visited(v, s[i]) \in V
    BY DEF Visited
  <2> QED
    BY <2>1
<1>5. PICK g : Trace(g, n, V, <<>>, f)
  <2> HIDE DEF f, V, n
  <2> QED
    BY <1>1, <1>3, <1>4, TraceExists
<1> HIDE DEF V, n
<1>6. PICK h \in [SUBSET (1..n) -> V] : Obeys(h, n, V, <<>>, f)
  BY <1>5 DEF Trace
<1>7. \A A \in SUBSET (1..n) : \A v \in V : A # {} => f[<<Max(A), v>>] = Visited(v, s[Max(A)])
  <2>1. \A A \in SUBSET (1..n) : A # {} => Max(A) \in 1..n
    BY <1>5 DEF Trace
  <2> QED
    BY <2>1
<1>8. Is(iter)
  <2>1. ASSUME NEW A \in SUBSET (1..n)
        PROVE  h[A] = IF A = {} THEN <<>> ELSE Visited(h[A \ {Max(A)}], s[Max(A)])
    <3> HIDE DEF f
    <3>1. A # {} => A \ {Max(A)} \in SUBSET (1..n) /\ h[A \ {Max(A)}] \in V
      OBVIOUS
    <3> QED
      BY <1>6, <1>7, <3>1 DEF Obeys
  <2>2. Is(h)
    BY <2>1
  <2> HIDE DEF Is
  <2> QED
    BY <2>2, Zenon
<1>9. iter[1..n] = g[n]
  <2> HIDE DEF iter
  <2>1. Obeys(iter, n, V, <<>>, f)
    <3> HIDE DEF f
    <3> QED
      BY <1>7, <1>8 DEF Obeys
  <2> HIDE DEF f, Is
  <2> QED
    BY <1>5, <2>1 DEF Trace
<1>10. ASSUME NEW k \in 1..n  PROVE g[k] = Visited(g[k - 1], s[k])
  <2>1. g[k - 1] \in V /\ g[k] = f[<<k, g[k - 1]>>]
    <3> HIDE DEF f
    <3> QED
      BY <1>1, <1>5 DEF Trace
  <2> QED
    BY <2>1
<1>11. g[0] = <<>> /\ g \in [0..n -> V]
  BY <1>5 DEF Trace
<1> HIDE DEF f, Is, iter
<1>12. InTurn(s) = g[n]
  BY <1>2, <1>9
<1> QED
  BY <1>10, <1>11, <1>12 DEF n, V, Turns

(* Lists without repetition that share nothing. *)
Apart(lists, X) ==
  /\ lists \in Seq(Unrepeated(X))
  /\ \A i, j \in 1..Len(lists) : i # j => Range(lists[i]) \cap Range(lists[j]) = {}

LEMMA InTurnAll ==
  ASSUME NEW X, NEW s, Apart(s, X)
  PROVE  /\ InTurn(s) \in Unrepeated(X)
         /\ \A x : x \in Range(InTurn(s)) <=> \E i \in 1..Len(s) : x \in Range(s[i])
<1> DEFINE n == Len(s)
           U == Unrepeated(X)
<1>1. s \in Seq(U) /\ n \in Nat /\ \A i \in 1..n : s[i] \in U
  BY DEF Apart
<1>2. U \subseteq Seq(X)
  BY DEF Unrepeated
<1>3. s \in Seq(Seq(X))
  <2> HIDE DEF U
  <2> QED
    BY <1>1, <1>2
<1>4. PICK g : Turns(g, s, X)
  BY <1>3, TurnSteps
<1>5. /\ g \in [0..n -> Seq(X)] /\ g[0] = <<>> /\ InTurn(s) = g[n]
      /\ \A k \in 1..n : g[k] = Visited(g[k - 1], s[k])
  BY <1>4 DEF Turns
<1> DEFINE Right(k) == g[k] \in U /\ \A x : x \in Range(g[k]) <=> \E i \in 1..k : x \in Range(s[i])
           T == {k \in 0..n : Right(k)}
<1> HIDE DEF U
<1>6. Right(0)
  <2>1. <<>> \in U /\ Range(<<>>) = {} /\ 1..0 = {}
    BY DEF U, Unrepeated, Range
  <2> QED
    BY <1>5, <2>1
<1>7. ASSUME NEW k \in 0..(n - 1), Right(k)  PROVE Right(k + 1)
  <2>1. k + 1 \in 1..n /\ k + 1 \in 0..n /\ k \in 0..n /\ (k + 1) - 1 = k /\ s[k + 1] \in U
    BY <1>1
  <2>2. PICK q, l, r : q = g[k] /\ l = s[k + 1] /\ r = q \o l
    OBVIOUS
  <2>3. g[k + 1] = r
    BY <1>5, <2>1, <2>2 DEF Visited
  <2>4. q \in U /\ l \in U
    BY <1>7, <2>1, <2>2
  <2>5. Range(q) \cap Range(l) = {}
    <3>1. ASSUME NEW x, x \in Range(q), x \in Range(l)  PROVE FALSE
      <4>1. PICK i \in 1..k : x \in Range(s[i])
        BY <1>7, <2>2, <3>1
      <4>2. i \in 1..n /\ i # k + 1
        BY <1>1
      <4>3. Range(s[i]) \cap Range(s[k + 1]) = {}
        BY <2>1, <4>2 DEF Apart
      <4> QED
        BY <2>2, <3>1, <4>1, <4>3
    <3> QED
      BY <3>1
  <2>6. r \in U
    BY <2>2, <2>4, <2>5, ConcatUnrepeated DEF U
  <2>7. Range(r) = Range(q) \cup Range(l)
    BY <2>2, <2>4, ConcatRange DEF U, Unrepeated
  <2>8. \A i : i \in 1..(k + 1) <=> i \in 1..k \/ i = k + 1
    BY <1>1
  <2> QED
    BY <1>7, <2>2, <2>3, <2>6, <2>7, <2>8
<1>8. Right(n)
  <2> HIDE DEF Right
  <2>1. \A k \in 0..(n - 1) : k \in T => k + 1 \in T
    BY <1>1, <1>7
  <2>2. 0 \in T
    BY <1>1, <1>6
  <2>3. n \in T
    <3> HIDE DEF T
    <3>1. \A k \in 0..n : k \in T
      BY <1>1, <2>1, <2>2, UpTo
    <3> QED
      BY <1>1, <3>1
  <2> QED
    BY <2>3
<1> QED
  BY <1>5, <1>8 DEF U

-----------------------------------------------------------------------------
(* What the walk runs over has no repetitions: endpoints, payloads,       *)
(* parameters, encodings.                                                  *)
LEMMA SublistUnrepeated ==
  ASSUME NEW X, NEW s \in Unrepeated(X), NEW K \in SUBSET (1..Len(s))
  PROVE  Sublist(s, K) \in Unrepeated(X)
<1> DEFINE t == Sublist(s, K)
<1>1. s \in Seq(X) /\ \A i, j \in 1..Len(s) : s[i] = s[j] => i = j
  BY DEF Unrepeated
<1>2. t \in Seq(X) /\ \E f : Picks(f, t, s, K)
  BY <1>1, SublistPicks
<1>3. PICK f : Picks(f, t, s, K)
  BY <1>2
<1> HIDE DEF t
<1>4. /\ Len(t) \in Nat /\ f \in [1..Len(t) -> K]
      /\ \A k \in 1..Len(t) : t[k] = s[f[k]]
      /\ \A i, j \in 1..Len(t) : i < j => f[i] < f[j]
  BY <1>3 DEF Picks
<1>5. ASSUME NEW i \in 1..Len(t), NEW j \in 1..Len(t), t[i] = t[j]  PROVE i = j
  <2>1. f[i] \in K /\ f[j] \in K
    BY <1>4
  <2>3. f[i] \in 1..Len(s) /\ f[j] \in 1..Len(s) /\ s[f[i]] = s[f[j]]
    BY <1>4, <1>5, <2>1
  <2>4. f[i] = f[j] /\ f[i] \in Nat
    BY <1>1, <2>3
  <2>2. ~(i < j) /\ ~(j < i)
    BY <1>4, <2>4
  <2> QED
    BY <1>4, <2>2
<1>6. t \in Unrepeated(X)
  BY <1>2, <1>5 DEF Unrepeated
<1> QED
  BY <1>6 DEF t

(* Endpoints of different URLs or methods. *)
Distinct(s) ==
  /\ s \in Seq(Endpoints)
  /\ \A i, j \in 1..Len(s) : s[i].url = s[j].url /\ s[i].method = s[j].method => i = j

LEMMA FilteredDistinct ==
  ASSUME NEW s, Distinct(s)
  PROVE  Distinct(Filtered(s))
<1> DEFINE r == Filtered(s)
<1>1. s \in Seq(Endpoints) /\ Len(s) \in Nat /\ DOMAIN s = 1..Len(s) /\ \A i \in 1..Len(s) : s[i] \in Endpoints
  BY DEF Distinct
<1>2. \A q \in Unrepeated(STRING) : filterNoise(q) \in Unrepeated(STRING)
  <2> SUFFICES ASSUME NEW q \in Unrepeated(STRING)  PROVE filterNoise(q) \in Unrepeated(STRING)
    OBVIOUS
  <2>1. DOMAIN q = 1..Len(q)
    BY DEF Unrepeated
  <2>2. {i \in DOMAIN q : q[i] \notin Noise} \in SUBSET (1..Len(q))
    BY <2>1
  <2> QED
    BY <2>2, SublistUnrepeated DEF filterNoise
<1>3. r = [i \in 1..Len(s) |-> [s[i] EXCEPT !.params = filterNoise(@), !.form = filterNoise(@)]]
  BY <1>1 DEF Filtered
<1> HIDE DEF r
<1>4. ASSUME NEW i \in 1..Len(s)  PROVE r[i] \in Endpoints /\ r[i].url = s[i].url /\ r[i].method = s[i].method
  <2>1. PICK e : e = s[i]
    OBVIOUS
  <2>2. e \in Endpoints /\ filterNoise(e.params) \in Unrepeated(STRING) /\ filterNoise(e.form) \in Unrepeated(STRING)
    BY <1>1, <1>2, <2>1 DEF Endpoints
  <2>3. e = [url |-> e.url, method |-> e.method, params |-> e.params, form |-> e.form]
    BY <2>2 DEF Endpoints
  <2>4. r[i] = [e EXCEPT !.params = filterNoise(@), !.form = filterNoise(@)]
    BY <1>3, <2>1
  <2>5. r[i] = [url |-> e.url, method |-> e.method, params |-> filterNoise(e.params), form |-> filterNoise(e.form)]
    BY <2>3, <2>4
  <2> QED
    BY <2>1, <2>2, <2>5 DEF Endpoints
<1>5. r \in [1..Len(s) -> Endpoints]
  BY <1>3, <1>4
<1>6. r \in Seq(Endpoints) /\ Len(r) = Len(s)
  BY <1>1, <1>5, ListOf
<1>7. Distinct(r)
  BY <1>4, <1>6 DEF Distinct
<1> QED
  BY <1>7 DEF r

-----------------------------------------------------------------------------
(* Payloads of different ids. *)
OneId(s) == s \in Seq(FileLine) /\ \A i, j \in 1..Len(s) : s[i].id = s[j].id => i = j

LEMMA LoadIds ==
  ASSUME NEW lines \in Seq(FileLine)
  PROVE  OneId(Load(lines))
<1>1. PICK s : s = LoadEvery(lines)
  OBVIOUS
<1>2. s \in Seq(FileLine)
  <2>1. DOMAIN lines = 1..Len(lines)
    OBVIOUS
  <2>2. {i \in Scanned(lines) : lines[i].usable} \in SUBSET (1..Len(lines))
    BY <2>1 DEF Scanned
  <2> QED
    BY <1>1, <2>2, SublistPicks DEF LoadEvery
<1> DEFINE K == {i \in DOMAIN s : \A j \in 1..(i - 1) : s[j].id # s[i].id}
           t == Sublist(s, K)
<1>3. Load(lines) = t
  BY <1>1 DEF Load
<1>4. K \in SUBSET (1..Len(s))
  <2>1. DOMAIN s = 1..Len(s)
    BY <1>2
  <2> QED
    BY <2>1
<1>5. t \in Seq(FileLine) /\ \E f : Picks(f, t, s, K)
  <2> HIDE DEF K
  <2> QED
    BY <1>2, <1>4, SublistPicks
<1>6. PICK f : Picks(f, t, s, K)
  BY <1>5
<1> HIDE DEF t
<1>7. /\ Len(t) \in Nat /\ f \in [1..Len(t) -> K]
      /\ \A k \in 1..Len(t) : t[k] = s[f[k]]
      /\ \A i, j \in 1..Len(t) : i < j => f[i] < f[j]
  <2> HIDE DEF K
  <2> QED
    BY <1>6 DEF Picks
<1>8. ASSUME NEW i \in 1..Len(t), NEW j \in 1..Len(t), i < j  PROVE t[i].id # t[j].id
  <2>1. f[i] \in K /\ f[j] \in K /\ f[i] < f[j] /\ t[i] = s[f[i]] /\ t[j] = s[f[j]]
    BY <1>7, <1>8
  <2>2. f[i] \in 1..Len(s) /\ f[j] \in 1..Len(s)
    BY <1>4, <2>1
  <2>3. f[i] \in 1..(f[j] - 1)
    BY <1>2, <2>1, <2>2
  <2> QED
    BY <2>1, <2>3
<1>9. \A i, j \in 1..Len(t) : t[i].id = t[j].id => i = j
  BY <1>7, <1>8
<1>10. OneId(t)
  BY <1>5, <1>9 DEF OneId, t
<1> QED
  BY <1>3, <1>10

LEMMA Selected ==
  ASSUME NEW cat \in Range(Categories), NEW m \in Modes
  PROVE  /\ OneId(selectPayloads(cat, m))
         /\ Corpus[cat] # <<>> => selectPayloads(cat, m) # <<>>
<1> DEFINE limit == IF m = "deep" THEN 0 ELSE Budget[m][cat]
           r == selectPayloads(cat, m)
<1>1. PICK all : all = Corpus[cat]
  OBVIOUS
<1>2. OneId(all)
  <2>1. Lines[cat] \in Seq(FileLine)
    BY JobSpaceAssumption
  <2> QED
    BY <1>1, <2>1, LoadIds DEF Corpus
<1>3. limit \in Nat
  <2>1. m # "deep" => m \in {"quick", "standard"}
    BY DEF Modes
  <2> QED
    BY <2>1, JobSpaceAssumption
<1>4. r = IF limit = 0 \/ limit > Len(all) THEN all ELSE SubSeq(all, 1, limit)
  BY <1>1 DEF selectPayloads
<1> HIDE DEF r, limit
<1>5. all \in Seq(FileLine) /\ Len(all) \in Nat
  BY <1>2 DEF OneId
<1>6. CASE limit = 0 \/ limit > Len(all)
  <2>1. r = all
    BY <1>4, <1>6
  <2> QED
    BY <1>1, <1>2, <2>1 DEF r
<1>7. CASE limit # 0 /\ ~(limit > Len(all))
  <2>1. r = SubSeq(all, 1, limit) /\ limit \in 1..Len(all)
    BY <1>3, <1>4, <1>5, <1>7
  <2>2. r \in Seq(FileLine) /\ Len(r) = limit /\ \A i \in 1..limit : r[i] = all[i]
    BY <1>5, <2>1
  <2>3. OneId(r) /\ r # <<>>
    BY <1>2, <1>5, <2>1, <2>2 DEF OneId
  <2> QED
    BY <2>3 DEF r
<1> QED
  BY <1>6, <1>7

EncodingNames == {"plain", "url", "double_url"}

LEMMA EncodingsDiffer ==
  ASSUME NEW cat, NEW m
  PROVE  encodings(cat, m) \in Unrepeated(EncodingNames) /\ encodings(cat, m) # <<>>
<1>1. \A a, b, c \in EncodingNames : a # b /\ a # c /\ b # c =>
        <<a>> \in Unrepeated(EncodingNames) /\ <<a, b>> \in Unrepeated(EncodingNames)
        /\ <<a, b, c>> \in Unrepeated(EncodingNames)
  BY DEF Unrepeated
<1>2. \/ encodings(cat, m) = <<"plain", "url", "double_url">>
      \/ encodings(cat, m) = <<"plain", "url">>
      \/ encodings(cat, m) = <<"plain">>
  BY DEF encodings
<1>3. encodings(cat, m) # <<>>
  BY <1>2
<1>4. "plain" \in EncodingNames /\ "url" \in EncodingNames /\ "double_url" \in EncodingNames
  BY DEF EncodingNames
<1> QED
  BY <1>1, <1>2, <1>3, <1>4

LEMMA JobParams ==
  ASSUME NEW ep \in Endpoints
  PROVE  jobParams(ep) \in Unrepeated(STRING)
<1>1. Fallback \in Unrepeated(STRING)
  <2>1. Fallback \in Seq(STRING) /\ DOMAIN Fallback = 1..Len(Fallback)
    BY JobSpaceAssumption
  <2> QED
    BY <2>1, JobSpaceAssumption DEF IsInjective, Unrepeated
<1>2. ep.params \in Unrepeated(STRING) /\ ep.form \in Unrepeated(STRING)
  BY DEF Endpoints
<1> QED
  BY <1>1, <1>2 DEF jobParams, effectiveParams

-----------------------------------------------------------------------------
(* The lists of jobs, from the innermost loop out. *)
Jobs == [url : CanonicalURL, method : Methods, param : STRING, category : STRING,
         value : [payload : Nat, form : EncodingNames], encoding : EncodingNames]

(* The jobs of list l come from endpoint ep and category cat. *)
OfCategory(l, ep, cat) ==
  /\ l \in Unrepeated(Jobs)
  /\ \A j \in Range(l) : /\ j.url = ep.url /\ j.method = ep.method /\ j.category = cat
                         /\ j.param \in Range(jobParams(ep))
OfPayload(l, ep, cat, pl) == OfCategory(l, ep, cat) /\ \A j \in Range(l) : j.value.payload = pl.id
OfParam(l, ep, cat, pl, param) ==
  OfPayload(l, ep, cat, pl) /\ Range(l) # {} /\ \A j \in Range(l) : j.param = param
AllParams(l, ep) == \A p \in Range(jobParams(ep)) : \E j \in Range(l) : j.param = p
OfEndpoint(l, ep) ==
  /\ l \in Unrepeated(Jobs)
  /\ \A j \in Range(l) : /\ j.url = ep.url /\ j.method = ep.method
                         /\ j.category \in Range(Categories) /\ j.param \in Range(jobParams(ep))
  /\ \A p \in Range(jobParams(ep)) : \A c \in Range(Categories) :
       Corpus[c] # <<>> => \E j \in Range(l) : j.param = p /\ j.category = c

LEMMA ParamJobs ==
  ASSUME NEW ep \in Endpoints, NEW cat \in STRING, NEW pl \in FileLine, NEW param \in Range(jobParams(ep)), NEW m,
         NEW l, l = JobsOfParam(ep, cat, pl, param, m)
  PROVE  OfParam(l, ep, cat, pl, param)
<1>1. PICK es : es = encodings(cat, m)
  OBVIOUS
<1>2. /\ es \in Seq(EncodingNames) /\ Len(es) \in Nat /\ DOMAIN es = 1..Len(es) /\ es # <<>>
      /\ \A i, k \in 1..Len(es) : es[i] = es[k] => i = k
  <2>1. encodings(cat, m) \in Unrepeated(EncodingNames) /\ encodings(cat, m) # <<>>
    BY EncodingsDiffer
  <2>2. es \in Unrepeated(EncodingNames) /\ es # <<>>
    BY <1>1, <2>1
  <2>3. es \in Seq(EncodingNames) /\ \A i, k \in 1..Len(es) : es[i] = es[k] => i = k
    BY <2>2 DEF Unrepeated
  <2>4. Len(es) \in Nat /\ DOMAIN es = 1..Len(es)
    BY <2>3
  <2> QED
    BY <2>2, <2>3, <2>4
<1>3. l = [i \in 1..Len(es) |-> Job(ep, cat, pl, param, es[i])]
  BY <1>1, <1>2 DEF JobsOfParam
<1>4. param \in STRING
  BY JobParams DEF Unrepeated, Range
<1>5. \A enc \in EncodingNames : encode(pl, enc) \in [payload : Nat, form : EncodingNames] /\ encode(pl, enc).payload = pl.id
  BY DEF encode, FileLine, EncodingNames
<1>6. ASSUME NEW enc \in EncodingNames, NEW j, j = Job(ep, cat, pl, param, enc)
      PROVE  /\ j \in Jobs /\ j.encoding = enc /\ j.url = ep.url /\ j.method = ep.method /\ j.category = cat
             /\ j.param = param /\ j.value.payload = pl.id
  <2>1. PICK v : v = encode(pl, enc)
    OBVIOUS
  <2>2. j = [url |-> ep.url, method |-> ep.method, param |-> param, category |-> cat, value |-> v, encoding |-> enc]
    BY <1>6, <2>1 DEF Job
  <2>3. ep.url \in CanonicalURL /\ ep.method \in Methods
    BY DEF Endpoints
  <2> QED
    BY <1>4, <1>5, <2>1, <2>2, <2>3 DEF Jobs
<1>7. \A i \in 1..Len(es) :
        /\ l[i] \in Jobs /\ l[i].encoding = es[i] /\ l[i].url = ep.url /\ l[i].method = ep.method /\ l[i].category = cat
        /\ l[i].param = param /\ l[i].value.payload = pl.id
  <2> TAKE i \in 1..Len(es)
  <2>1. es[i] \in EncodingNames /\ l[i] = Job(ep, cat, pl, param, es[i])
    BY <1>2, <1>3
  <2> QED
    BY <1>6, <2>1
<1>8. l \in [1..Len(es) -> Jobs]
  BY <1>3, <1>7
<1>9. l \in Seq(Jobs) /\ Len(l) = Len(es)
  BY <1>2, <1>8, ListOf
<1>10. l \in Unrepeated(Jobs)
  BY <1>2, <1>7, <1>9 DEF Unrepeated
<1>11. \A j \in Range(l) : \E i \in 1..Len(es) : j = l[i]
  BY <1>8 DEF Range
<1>12. Range(l) # {}
  <2>1. 1 \in 1..Len(es)
    BY <1>2
  <2> QED
    BY <1>8, <2>1 DEF Range
<1> QED
  BY <1>7, <1>10, <1>11, <1>12 DEF OfParam, OfPayload, OfCategory

LEMMA PayloadJobs ==
  ASSUME NEW ep \in Endpoints, NEW cat \in STRING, NEW pl \in FileLine, NEW m,
         NEW l, l = JobsOfPayload(ep, cat, pl, m)
  PROVE  OfPayload(l, ep, cat, pl) /\ AllParams(l, ep)
<1>1. PICK ps : ps = jobParams(ep)
  OBVIOUS
<1>2. /\ ps \in Seq(STRING) /\ Len(ps) \in Nat /\ DOMAIN ps = 1..Len(ps)
      /\ \A i, k \in 1..Len(ps) : ps[i] = ps[k] => i = k
  BY <1>1, JobParams DEF Unrepeated
<1>3. PICK s : s = [i \in 1..Len(ps) |-> JobsOfParam(ep, cat, pl, ps[i], m)]
  OBVIOUS
<1>4. l = InTurn(s)
  BY <1>1, <1>2, <1>3 DEF JobsOfPayload
<1>5. \A i \in 1..Len(ps) : OfParam(s[i], ep, cat, pl, ps[i])
  <2> TAKE i \in 1..Len(ps)
  <2>1. ps[i] \in Range(jobParams(ep)) /\ s[i] = JobsOfParam(ep, cat, pl, ps[i], m)
    BY <1>1, <1>2, <1>3 DEF Range
  <2> QED
    BY <2>1, ParamJobs
<1>6. \A i \in 1..Len(ps) :
        /\ s[i] \in Unrepeated(Jobs) /\ Range(s[i]) # {}
        /\ \A j \in Range(s[i]) : /\ j.url = ep.url /\ j.method = ep.method /\ j.category = cat
                                  /\ j.param = ps[i] /\ j.value.payload = pl.id
  BY <1>5 DEF OfParam, OfPayload, OfCategory
<1>7. s \in Seq(Unrepeated(Jobs)) /\ Len(s) = Len(ps)
  <2>1. s \in [1..Len(ps) -> Unrepeated(Jobs)]
    BY <1>3, <1>6
  <2> QED
    BY <1>2, <2>1, ListOf
<1>8. Apart(s, Jobs)
  <2>1. ASSUME NEW i \in 1..Len(s), NEW k \in 1..Len(s), i # k  PROVE Range(s[i]) \cap Range(s[k]) = {}
    <3>1. ps[i] # ps[k]
      BY <1>2, <1>7, <2>1
    <3> QED
      BY <1>6, <1>7, <3>1
  <2> QED
    BY <1>7, <2>1 DEF Apart
<1>9. l \in Unrepeated(Jobs) /\ \A x : x \in Range(l) <=> \E i \in 1..Len(ps) : x \in Range(s[i])
  BY <1>4, <1>7, <1>8, InTurnAll
<1>10. \A p : p \in Range(ps) <=> \E i \in 1..Len(ps) : p = ps[i]
  BY <1>2 DEF Range
<1>11. OfPayload(l, ep, cat, pl)
  BY <1>1, <1>6, <1>9, <1>10 DEF OfPayload, OfCategory
<1>12. AllParams(l, ep)
  <2>1. ASSUME NEW p \in Range(ps)  PROVE \E j \in Range(l) : j.param = p
    <3>1. PICK i \in 1..Len(ps) : p = ps[i]
      BY <1>10
    <3>2. PICK j : j \in Range(s[i])
      BY <1>6
    <3> QED
      BY <1>6, <1>9, <3>1, <3>2
  <2> QED
    BY <1>1, <2>1 DEF AllParams
<1> QED
  BY <1>11, <1>12

LEMMA CategoryJobs ==
  ASSUME NEW ep \in Endpoints, NEW cat \in Range(Categories), NEW m \in Modes, NEW l, l = JobsOfCategory(ep, cat, m)
  PROVE  OfCategory(l, ep, cat) /\ (Corpus[cat] # <<>> => AllParams(l, ep))
<1>1. PICK ps : ps = selectPayloads(cat, m)
  OBVIOUS
<1>2. /\ ps \in Seq(FileLine) /\ Len(ps) \in Nat /\ DOMAIN ps = 1..Len(ps)
      /\ \A i, k \in 1..Len(ps) : ps[i].id = ps[k].id => i = k
      /\ Corpus[cat] # <<>> => ps # <<>>
  BY <1>1, Selected DEF OneId
<1>3. PICK s : s = [i \in 1..Len(ps) |-> JobsOfPayload(ep, cat, ps[i], m)]
  OBVIOUS
<1>4. l = InTurn(s)
  BY <1>1, <1>2, <1>3 DEF JobsOfCategory
<1>5. cat \in STRING
  BY JobSpaceAssumption DEF Range
<1>6. \A i \in 1..Len(ps) : OfPayload(s[i], ep, cat, ps[i]) /\ AllParams(s[i], ep)
  <2> TAKE i \in 1..Len(ps)
  <2>1. ps[i] \in FileLine /\ s[i] = JobsOfPayload(ep, cat, ps[i], m)
    BY <1>2, <1>3
  <2> QED
    BY <1>5, <2>1, PayloadJobs
<1>7. \A i \in 1..Len(ps) :
        /\ s[i] \in Unrepeated(Jobs)
        /\ \A j \in Range(s[i]) : /\ j.url = ep.url /\ j.method = ep.method /\ j.category = cat
                                  /\ j.param \in Range(jobParams(ep)) /\ j.value.payload = ps[i].id
  BY <1>6 DEF OfPayload, OfCategory
<1>8. s \in Seq(Unrepeated(Jobs)) /\ Len(s) = Len(ps)
  <2>1. s \in [1..Len(ps) -> Unrepeated(Jobs)]
    BY <1>3, <1>7
  <2> QED
    BY <1>2, <2>1, ListOf
<1>9. Apart(s, Jobs)
  <2>1. ASSUME NEW i \in 1..Len(s), NEW k \in 1..Len(s), i # k  PROVE Range(s[i]) \cap Range(s[k]) = {}
    <3>1. ps[i].id # ps[k].id
      BY <1>2, <1>8, <2>1
    <3> QED
      BY <1>7, <1>8, <3>1
  <2> QED
    BY <1>8, <2>1 DEF Apart
<1>10. l \in Unrepeated(Jobs) /\ \A x : x \in Range(l) <=> \E i \in 1..Len(ps) : x \in Range(s[i])
  BY <1>4, <1>8, <1>9, InTurnAll
<1>11. OfCategory(l, ep, cat)
  BY <1>7, <1>10 DEF OfCategory
<1>12. Corpus[cat] # <<>> => AllParams(l, ep)
  <2>1. SUFFICES ASSUME Corpus[cat] # <<>>  PROVE AllParams(l, ep)
    OBVIOUS
  <2>2. 1 \in 1..Len(ps)
    BY <1>2, <2>1
  <2>3. AllParams(s[1], ep) /\ \A x \in Range(s[1]) : x \in Range(l)
    BY <1>6, <1>10, <2>2
  <2> QED
    BY <2>3 DEF AllParams
<1> QED
  BY <1>11, <1>12

LEMMA EndpointJobs ==
  ASSUME NEW ep \in Endpoints, NEW m \in Modes, NEW l, l = JobsOfEndpoint(ep, m)
  PROVE  OfEndpoint(l, ep)
<1>1. /\ Categories \in Seq(STRING) /\ Len(Categories) \in Nat /\ DOMAIN Categories = 1..Len(Categories)
      /\ \A i, k \in 1..Len(Categories) : Categories[i] = Categories[k] => i = k
  BY JobSpaceAssumption DEF IsInjective
<1>2. PICK n \in Nat : n = Len(Categories)
  BY <1>1
<1>3. PICK s : s = [i \in 1..n |-> JobsOfCategory(ep, Categories[i], m)]
  OBVIOUS
<1>4. l = InTurn(s)
  BY <1>1, <1>2, <1>3 DEF JobsOfEndpoint
<1>5. \A i \in 1..n : Categories[i] \in Range(Categories)
  BY <1>1, <1>2 DEF Range
<1>6. \A i \in 1..n : OfCategory(s[i], ep, Categories[i]) /\ (Corpus[Categories[i]] # <<>> => AllParams(s[i], ep))
  <2> TAKE i \in 1..n
  <2>1. s[i] = JobsOfCategory(ep, Categories[i], m)
    BY <1>3
  <2> QED
    BY <1>5, <2>1, CategoryJobs
<1>7. \A i \in 1..n :
        /\ s[i] \in Unrepeated(Jobs)
        /\ \A j \in Range(s[i]) : /\ j.url = ep.url /\ j.method = ep.method /\ j.category = Categories[i]
                                  /\ j.param \in Range(jobParams(ep))
  BY <1>6 DEF OfCategory
<1>8. s \in Seq(Unrepeated(Jobs)) /\ Len(s) = n
  <2>1. s \in [1..n -> Unrepeated(Jobs)]
    BY <1>3, <1>7
  <2> QED
    BY <2>1, ListOf
<1>9. Apart(s, Jobs)
  <2>1. ASSUME NEW i \in 1..Len(s), NEW k \in 1..Len(s), i # k  PROVE Range(s[i]) \cap Range(s[k]) = {}
    <3>1. Categories[i] # Categories[k]
      BY <1>1, <1>2, <1>8, <2>1
    <3> QED
      BY <1>7, <1>8, <3>1
  <2> QED
    BY <1>8, <2>1 DEF Apart
<1>10. l \in Unrepeated(Jobs) /\ \A x : x \in Range(l) <=> \E i \in 1..n : x \in Range(s[i])
  BY <1>4, <1>8, <1>9, InTurnAll
<1>11. \A j \in Range(l) : /\ j.url = ep.url /\ j.method = ep.method
                           /\ j.category \in Range(Categories) /\ j.param \in Range(jobParams(ep))
  BY <1>5, <1>7, <1>10
<1>12. ASSUME NEW p \in Range(jobParams(ep)), NEW c \in Range(Categories), Corpus[c] # <<>>
       PROVE  \E j \in Range(l) : j.param = p /\ j.category = c
  <2>1. PICK i \in 1..n : c = Categories[i]
    BY <1>1, <1>2 DEF Range
  <2>2. PICK j \in Range(s[i]) : j.param = p
    BY <1>6, <1>12, <2>1 DEF AllParams
  <2> QED
    BY <1>7, <1>10, <2>1, <2>2
<1> QED
  BY <1>10, <1>11, <1>12 DEF OfEndpoint

(* The jobs of a walk over the endpoints. *)
Covers(l, list) ==
  /\ l \in Unrepeated(Jobs)
  /\ \A j \in Range(l) : \E ep \in Range(list) :
       j.url = ep.url /\ j.category \in Range(Categories) /\ j.param \in Range(jobParams(ep))
  /\ \A ep \in Range(list) : \A p \in Range(jobParams(ep)) : \A c \in Range(Categories) :
       Corpus[c] # <<>> => \E j \in Range(l) : j.url = ep.url /\ j.param = p /\ j.category = c

LEMMA WalkCovers ==
  ASSUME NEW list, Distinct(list), NEW m \in Modes, NEW l, l = walkJobs(list, m)
  PROVE  Covers(l, list)
<1>1. /\ list \in Seq(Endpoints) /\ Len(list) \in Nat /\ DOMAIN list = 1..Len(list)
      /\ \A i, k \in 1..Len(list) : list[i].url = list[k].url /\ list[i].method = list[k].method => i = k
  BY DEF Distinct
<1>2. PICK n \in Nat : n = Len(list)
  BY <1>1
<1>3. PICK s : s = [i \in 1..n |-> JobsOfEndpoint(list[i], m)]
  OBVIOUS
<1>4. l = InTurn(s)
  BY <1>1, <1>2, <1>3 DEF walkJobs
<1>5. \A i \in 1..n : OfEndpoint(s[i], list[i])
  <2> TAKE i \in 1..n
  <2>1. s[i] = JobsOfEndpoint(list[i], m) /\ list[i] \in Endpoints
    BY <1>1, <1>2, <1>3
  <2> QED
    BY <2>1, EndpointJobs
<1>6. \A i \in 1..n :
        /\ s[i] \in Unrepeated(Jobs)
        /\ \A j \in Range(s[i]) : /\ j.url = list[i].url /\ j.method = list[i].method
                                  /\ j.category \in Range(Categories) /\ j.param \in Range(jobParams(list[i]))
  BY <1>5 DEF OfEndpoint
<1>7. s \in Seq(Unrepeated(Jobs)) /\ Len(s) = n
  <2>1. s \in [1..n -> Unrepeated(Jobs)]
    BY <1>3, <1>6
  <2> QED
    BY <2>1, ListOf
<1>8. Apart(s, Jobs)
  <2>1. ASSUME NEW i \in 1..Len(s), NEW k \in 1..Len(s), i # k  PROVE Range(s[i]) \cap Range(s[k]) = {}
    <3>1. ~(list[i].url = list[k].url /\ list[i].method = list[k].method)
      BY <1>1, <1>2, <1>7, <2>1
    <3> QED
      BY <1>6, <1>7, <3>1
  <2> QED
    BY <1>7, <2>1 DEF Apart
<1>9. l \in Unrepeated(Jobs) /\ \A x : x \in Range(l) <=> \E i \in 1..n : x \in Range(s[i])
  BY <1>4, <1>7, <1>8, InTurnAll
<1>10. \A ep : ep \in Range(list) <=> \E i \in 1..n : ep = list[i]
  BY <1>1, <1>2 DEF Range
<1>11. \A j \in Range(l) : \E ep \in Range(list) :
         j.url = ep.url /\ j.category \in Range(Categories) /\ j.param \in Range(jobParams(ep))
  BY <1>6, <1>9, <1>10
<1>12. ASSUME NEW ep \in Range(list), NEW p \in Range(jobParams(ep)), NEW c \in Range(Categories), Corpus[c] # <<>>
       PROVE  \E j \in Range(l) : j.url = ep.url /\ j.param = p /\ j.category = c
  <2>1. PICK i \in 1..n : ep = list[i]
    BY <1>10
  <2>2. PICK j \in Range(s[i]) : j.param = p /\ j.category = c
    BY <1>5, <1>12, <2>1 DEF OfEndpoint
  <2> QED
    BY <1>6, <1>9, <2>1, <2>2
<1> QED
  BY <1>9, <1>11, <1>12 DEF Covers

-----------------------------------------------------------------------------
(* The stream is the beginning of the walk over distinct endpoints. *)
JobsInv ==
  /\ mode \in Modes /\ Distinct(surface)
  /\ sent \in Seq(Jobs) /\ Len(sent) <= Len(walkJobs(surface, mode))
  /\ \A i \in 1..Len(sent) : sent[i] = walkJobs(surface, mode)[i]

LEMMA PresentsDistinct ==
  ASSUME NEW f, NEW e, Presents(f, e)
  PROVE  Distinct(f)
<1>1. f \in Seq(Endpoints) /\ Len(f) \in Nat
  BY DEF Presents
<1>2. ASSUME NEW i \in 1..Len(f), NEW j \in 1..Len(f), f[i].url = f[j].url /\ f[i].method = f[j].method, i < j
      PROVE  FALSE
  <2>1. KeyBefore(<<f[i].url, f[i].method>>, <<f[j].url, f[j].method>>)
    BY <1>2 DEF Presents
  <2>2. f[i].url \in CanonicalURL
    <3>1. f[i] \in Endpoints
      BY <1>1
    <3> QED
      BY <3>1 DEF Endpoints
  <2>3. ~Alphabetical(f[i].url, f[i].url)
    BY <2>2, AlphabeticalAssumption
  <2> QED
    BY <1>2, <2>1, <2>3 DEF KeyBefore
<1>3. \A i, j \in 1..Len(f) : f[i].url = f[j].url /\ f[i].method = f[j].method => ~(i < j) /\ ~(j < i)
  BY <1>2
<1> QED
  BY <1>1, <1>3 DEF Distinct

LEMMA WalkTypes ==
  ASSUME NEW list, Distinct(list), NEW m \in Modes, NEW l, l = walkJobs(list, m)
  PROVE  /\ l \in Seq(Jobs) /\ Len(l) \in Nat
         /\ \A i, j \in 1..Len(l) : l[i] = l[j] => i = j
         /\ list = <<>> => l = <<>>
<1>1. Covers(l, list)
  BY WalkCovers
<1>2. l \in Seq(Jobs) /\ Len(l) \in Nat /\ \A i, j \in 1..Len(l) : l[i] = l[j] => i = j
  BY <1>1 DEF Covers, Unrepeated
<1>3. list = <<>> => Range(l) = {}
  <2>1. list = <<>> => Range(list) = {}
    BY DEF Range
  <2> QED
    BY <1>1, <2>1 DEF Covers
<1> QED
  BY <1>2, <1>3, EmptyRange

LEMMA JobsInitial == JobsInit => JobsInv
<1> SUFFICES ASSUME JobsInit  PROVE JobsInv
  OBVIOUS
<1>1. mode \in Modes /\ surface = <<>> /\ sent = <<>>
  BY DEF JobsInit
<1>2. Distinct(surface)
  BY <1>1 DEF Distinct
<1>3. Len(walkJobs(surface, mode)) \in Nat
  BY <1>1, <1>2, WalkTypes
<1>4. sent \in Seq(Jobs) /\ Len(sent) = 0 /\ 1..Len(sent) = {}
  BY <1>1
<1> QED
  BY <1>1, <1>2, <1>3, <1>4 DEF JobsInv

LEMMA SurfaceTaken ==
  ASSUME JobsInv, FoundInv, found # <<>>, TakeSurface(found)
  PROVE  JobsInv'
<1>1. surface = <<>> /\ surface' = Filtered(found) /\ mode' = mode /\ sent' = sent
  BY DEF TakeSurface
<1>2. Distinct(surface')
  <2>1. Distinct(found)
    BY PresentsDistinct DEF FoundInv
  <2> QED
    BY <1>1, <2>1, FilteredDistinct
<1>3. mode' \in Modes
  BY <1>1 DEF JobsInv
<1>4. Len(sent) = 0
  <2>1. walkJobs(surface, mode) = <<>>
    BY <1>1, WalkTypes DEF JobsInv
  <2>2. Len(<<>>) = 0
    OBVIOUS
  <2> QED
    BY <2>1, <2>2 DEF JobsInv
<1>5. Len(walkJobs(surface', mode')) \in Nat
  BY <1>2, <1>3, WalkTypes
<1>6. sent' \in Seq(Jobs) /\ Len(sent') = 0 /\ 1..Len(sent') = {}
  BY <1>1, <1>4 DEF JobsInv
<1> QED
  BY <1>2, <1>3, <1>5, <1>6 DEF JobsInv

LEMMA JobStreamed ==
  ASSUME JobsInv, Stream
  PROVE  JobsInv'
<1>1. PICK l : l = walkJobs(surface, mode)
  OBVIOUS
<1>2. /\ surface' = surface /\ mode' = mode
      /\ Len(sent) < plannedJobs(surface, mode) /\ sent' = Append(sent, l[Len(sent) + 1])
  BY <1>1 DEF Stream
<1>3. /\ mode \in Modes /\ Distinct(surface) /\ sent \in Seq(Jobs) /\ Len(sent) \in Nat
      /\ \A i \in 1..Len(sent) : sent[i] = l[i]
  BY <1>1 DEF JobsInv
<1>4. l \in Seq(Jobs) /\ Len(l) \in Nat
  BY <1>1, <1>3, WalkTypes
<1>5. plannedJobs(surface, mode) <= Len(l) /\ plannedJobs(surface, mode) \in Nat
  BY <1>1, <1>4, JobSpaceAssumption DEF plannedJobs
<1>6. Len(sent) + 1 \in 1..Len(l)
  BY <1>2, <1>3, <1>4, <1>5
<1>7. PICK x \in Jobs : x = l[Len(sent) + 1]
  BY <1>4, <1>6
<1>8. PICK r : r = Append(sent, x)
  OBVIOUS
<1>9. /\ r \in Seq(Jobs) /\ Len(r) = Len(sent) + 1
      /\ \A i \in 1..Len(r) : r[i] = IF i = Len(sent) + 1 THEN x ELSE sent[i]
  BY <1>3, <1>8
<1>10. \A i \in 1..Len(r) : r[i] = l[i]
  <2>1. \A i \in 1..Len(r) : i # Len(sent) + 1 => i \in 1..Len(sent)
    BY <1>3, <1>9
  <2> QED
    BY <1>3, <1>7, <1>9, <2>1
<1>11. sent' = r
  BY <1>2, <1>7, <1>8
<1>12. walkJobs(surface, mode)' = l
  BY <1>1, <1>2
<1>13. Len(r) <= Len(l)
  BY <1>6, <1>9
<1>14. Distinct(surface)'
  BY <1>2, <1>3
<1> QED
  BY <1>2, <1>3, <1>9, <1>10, <1>11, <1>12, <1>13, <1>14 DEF JobsInv

LEMMA JobsKept == JobsInv /\ FoundInv /\ [Next]_vars => JobsInv'
<1> SUFFICES ASSUME JobsInv, FoundInv, [Next]_vars  PROVE JobsInv'
  OBVIOUS
<1>1. CASE UNCHANGED jobVars
  BY <1>1 DEF jobVars, JobsInv
<1>2. CASE HandOver
  BY <1>2, SurfaceTaken DEF HandOver
<1>3. CASE Walk
  BY <1>3, JobStreamed DEF Walk
<1> QED
  BY <1>1, <1>2, <1>3
     DEF Next, vars, Start, DeadlinePasses, CheckTarget, Gate, Crawl, FinishJobs, WriteReports, OpenReport,
         FillReport, SaveHistory, Leave, Kill

LEMMA SeededAre ==
  ASSUME NEW list, NEW cell
  PROVE  cell \in SeededCells(list) <=>
           \E ep \in Range(list) :
             \/ \E p \in Range(jobParams(ep)) : \E c \in Range(Categories) : cell = Cell(ep.url, p, c)
             \/ \E p \in Range(ep.params) : cell = Cell(ep.url, p, "IDOR")
<1> DEFINE Of(ep) == {Cell(ep.url, p, c) : p \in Range(jobParams(ep)), c \in Range(Categories)}
                     \cup {Cell(ep.url, p, "IDOR") : p \in Range(ep.params)}
<1>1. \A ep : cell \in Of(ep) <=>
                \/ \E p \in Range(jobParams(ep)) : \E c \in Range(Categories) : cell = Cell(ep.url, p, c)
                \/ \E p \in Range(ep.params) : cell = Cell(ep.url, p, "IDOR")
  OBVIOUS
<1>2. SeededCells(list) = UNION {Of(ep) : ep \in Range(list)}
  BY DEF SeededCells
<1> HIDE DEF Of
<1>3. cell \in SeededCells(list) <=> \E ep \in Range(list) : cell \in Of(ep)
  BY <1>2
<1> QED
  BY <1>1, <1>3

LEMMA JobsImply == JobsInv => JobsMatchSeeds
<1> SUFFICES ASSUME JobsInv  PROVE JobsMatchSeeds
  OBVIOUS
<1>1. PICK l : l = walkJobs(surface, mode)
  OBVIOUS
<1>2. /\ mode \in Modes /\ Distinct(surface) /\ sent \in Seq(Jobs) /\ Len(sent) \in Nat /\ DOMAIN sent = 1..Len(sent)
      /\ Len(sent) <= Len(l) /\ \A i \in 1..Len(sent) : sent[i] = l[i]
  BY <1>1 DEF JobsInv
<1>3. l \in Seq(Jobs) /\ Len(l) \in Nat /\ DOMAIN l = 1..Len(l) /\ \A i, j \in 1..Len(l) : l[i] = l[j] => i = j
  BY <1>1, <1>2, WalkTypes
<1>4. Covers(l, surface)
  BY <1>1, <1>2, WalkCovers
<1>5. \A i \in 1..Len(sent) : i \in 1..Len(l)
  BY <1>2, <1>3
<1>6. IsInjective(sent)
  <2>1. \A i, j \in DOMAIN sent : sent[i] = sent[j] => i = j
    BY <1>2, <1>3, <1>5
  <2> QED
    BY <2>1 DEF IsInjective
<1>7. ASSUME NEW i \in DOMAIN sent  PROVE CellOf(sent[i]) \in SeededCells(surface)
  <2>1. PICK j : j = sent[i] /\ j \in Range(l)
    BY <1>2, <1>3, <1>5 DEF Range
  <2>2. PICK ep \in Range(surface) : j.url = ep.url /\ j.category \in Range(Categories) /\ j.param \in Range(jobParams(ep))
    BY <1>4, <2>1 DEF Covers
  <2>3. CellOf(j) = Cell(ep.url, j.param, j.category)
    BY <2>2 DEF CellOf
  <2>4. CellOf(j) \in SeededCells(surface)
    BY <2>2, <2>3, SeededAre
  <2> QED
    BY <2>1, <2>4
<1>8. ASSUME Len(sent) = Len(l), NEW cell \in SeededCells(surface), cell[3] # "IDOR", Corpus[cell[3]] # <<>>
      PROVE  \E i \in DOMAIN sent : CellOf(sent[i]) = cell
  <2>1. PICK ep \in Range(surface) :
          \/ \E p \in Range(jobParams(ep)) : \E c \in Range(Categories) : cell = Cell(ep.url, p, c)
          \/ \E p \in Range(ep.params) : cell = Cell(ep.url, p, "IDOR")
    BY <1>8, SeededAre
  <2>2. \A p : Cell(ep.url, p, "IDOR")[3] = "IDOR"
    BY DEF Cell
  <2>3. PICK p \in Range(jobParams(ep)), c \in Range(Categories) : cell = Cell(ep.url, p, c)
    BY <1>8, <2>1, <2>2
  <2>4. cell[3] = c
    BY <2>3 DEF Cell
  <2>5. PICK j \in Range(l) : j.url = ep.url /\ j.param = p /\ j.category = c
    BY <1>4, <1>8, <2>4 DEF Covers
  <2>6. PICK i \in 1..Len(l) : j = l[i]
    BY <1>3, <2>5 DEF Range
  <2>7. i \in DOMAIN sent /\ sent[i] = j
    BY <1>2, <1>8, <2>6
  <2>8. CellOf(j) = cell
    BY <2>3, <2>5 DEF CellOf
  <2> QED
    BY <2>7, <2>8
<1> QED
  BY <1>1, <1>6, <1>7, <1>8 DEF JobsMatchSeeds

(* Every job streamed belongs to a seeded cell and is streamed once, and   *)
(* a walk that ends below the cap leaves no seeded cell of a category with *)
(* payloads without a job (scanner.go 229-251, 535-621).                   *)
THEOREM JobsFollowSeeds == Spec => []JobsMatchSeeds
<1>1. Init => JobsInv
  BY JobsInitial DEF Init
<1>2. CrawlInv /\ JobsInv /\ [Next]_vars => JobsInv'
  BY JobsKept DEF CrawlInv
<1> QED
  BY <1>1, <1>2, JobsImply, CrawlHolds, PTL DEF Spec
=============================================================================
