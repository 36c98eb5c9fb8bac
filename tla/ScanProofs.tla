----------------------------- MODULE ScanProofs -----------------------------
(***************************************************************************)
(* Proofs about Scan for any number of workers and jobs and any behaviour  *)
(* of the target: the context stops the probes, a verdict says no more     *)
(* than was seen, a scan that is not stopped loses no job, the coverage    *)
(* converges, what it calls verified is reported, and the plan holds the   *)
(* most urgent of what is left.                                            *)
(***************************************************************************)
EXTENDS Scan, ListProofs

(* The places where a worker has no job, where it is not verifying, and    *)
(* where the fate of its job is not known yet.                             *)
Jobless == {"off", "receiving", "exited"}
NotVerifying == Jobless \cup {"taken", "answered", "candidate", "marking", "appending"}
Undecided == {"taken", "probing", "wire"}

Good(status, k) == status \in Statuses /\ Justified(status, k)

WorkerOK(w) ==
  /\ pc[w] \in WorkerPCs
  /\ stage[w] \in {"job", "repeat", "control"}
  /\ pc[w] \in NotVerifying => stage[w] = "job"
  /\ pc[w] = "attempting" => stage[w] # "job"
  /\ pc[w] \notin Jobless => job[w] \in DOMAIN Jobs
  /\ (pc[w] \notin Jobless /\ stage[w] = "control") => TRUE \in Shows[KeyOf(w)].attack
  /\ pc[w] \in {"settled", "marking", "appending"} => Good(verdict[w], KeyOf(w))

WorkersInv ==
  /\ DOMAIN pc = Workers /\ DOMAIN job = Workers /\ DOMAIN stage = Workers
  /\ DOMAIN verdict = Workers
  /\ \A w \in Workers : WorkerOK(w)

Records ==
  [id : Ids \cup Cells, cell : Cells, key : Keys \cup {Unset}, status : Statuses]
GoodRecords == {f \in Records : f.key # Unset => Justified(f.status, f.key)}

(* What is cached and what is found is justified. *)
ResultsInv ==
  /\ DOMAIN cache = Keys
  /\ \A k \in Keys : cache[k] # Unset => Good(cache[k], k)
  /\ findings \in Seq(GoodRecords)

Phases == {"preflight", "crawl", "workers", "idor", "finalizing", "returning", "returned",
           "failing", "failed"}

PhaseInv ==
  /\ phase \in Phases
  /\ produced \in Nat /\ planned \in Nat /\ produced <= planned /\ planned <= Len(Jobs)
  /\ idor \in 0..Len(IdorCells)
  /\ producing \in BOOLEAN
  /\ phase \in {"preflight", "crawl"} =>
       planned = 0 /\ produced = 0 /\ ~producing /\ \A w \in Workers : pc[w] = "off"

Over == {"idor", "finalizing", "returning", "returned", "failing", "failed"}

(* Every job that was sent is with a worker or has its fate; and while     *)
(* nothing stops the scan no worker leaves before all were sent.           *)
FateInv ==
  /\ DOMAIN fate = DOMAIN Jobs
  /\ \A j \in 1..produced : fate[j] \in {"taken", "dropped", "answered", "failed"}
  /\ \A j \in 1..produced : fate[j] = "taken" =>
       \E w \in Workers : job[w] = j /\ stage[w] = "job" /\ pc[w] \in Undecided
  /\ phase = "workers" => \E w \in Workers : pc[w] # "off"

LiveInv ==
  ctx = "live" =>
    /\ \A j \in 1..produced : fate[j] # "dropped"
    /\ ~producing => produced = planned
    /\ \A w \in Workers : pc[w] = "exited" => ~producing
    /\ phase \in Over => ~producing /\ \A j \in 1..planned : fate[j] \in {"answered", "failed"}
    /\ phase \in Over \ {"idor"} /\ planned > 0 => idor = Len(IdorCells)

-----------------------------------------------------------------------------
LEMMA JobsAreRecords ==
  /\ Len(Jobs) \in Nat /\ DOMAIN Jobs = 1..Len(Jobs)
  /\ Len(IdorCells) \in Nat /\ DOMAIN IdorCells = 1..Len(IdorCells)
  /\ \A j \in DOMAIN Jobs : Jobs[j].key \in Keys /\ Jobs[j].cell \in Cells /\ Jobs[j].id \in Ids
  /\ \A e \in DOMAIN IdorCells : IdorCells[e] \in SUBSET Cells /\ IsFiniteSet(IdorCells[e])
  /\ Cardinality(Workers) \in Nat \ {0}
<1>1. Jobs \in Seq([cell : JobCells, key : Keys, id : Ids, checkable : BOOLEAN])
  BY ScanAssumption
<1>2. Len(Jobs) \in Nat /\ DOMAIN Jobs = 1..Len(Jobs)
  BY <1>1
<1>3. IdorCells \in Seq(SUBSET Cells)
  BY ScanAssumption
<1>4. Len(IdorCells) \in Nat /\ DOMAIN IdorCells = 1..Len(IdorCells)
  BY <1>3
<1>5. \A e \in DOMAIN IdorCells : IdorCells[e] \in SUBSET Cells
  BY <1>3
<1>6. Cardinality(Workers) \in Nat /\ Cardinality(Workers) # 0
  BY ScanAssumption, FS_CardinalityType, FS_EmptySet
<1>7. \A j \in DOMAIN Jobs : Jobs[j].key \in Keys /\ Jobs[j].cell \in JobCells /\ Jobs[j].id \in Ids
  BY DEF Keys, JobCells, Ids
<1> QED
  BY <1>2, <1>4, <1>5, <1>6, <1>7, ScanAssumption DEF Cells

(* What a step of worker w does to the others. *)
OnlyMoves(w) ==
  /\ \E label : Goto(w, label)
  /\ \A v \in Workers : v # w => stage'[v] = stage[v] /\ job'[v] = job[v] /\ verdict'[v] = verdict[v]
  /\ DOMAIN stage' = DOMAIN stage /\ DOMAIN job' = DOMAIN job /\ DOMAIN verdict' = DOMAIN verdict

LEMMA WorkerMoves ==
  ASSUME WorkersInv, NEW w \in Workers, OnlyMoves(w), WorkerOK(w)'
  PROVE  WorkersInv'
<1>1. PICK label : pc' = [pc EXCEPT ![w] = label]
  BY DEF OnlyMoves, Goto
<1>2. DOMAIN pc' = Workers /\ \A v \in Workers : v # w => pc'[v] = pc[v]
  BY <1>1 DEF WorkersInv
<1>3. ASSUME NEW v \in Workers, v # w  PROVE WorkerOK(v)'
  BY <1>2, <1>3 DEF WorkersInv, OnlyMoves, WorkerOK, KeyOf
<1> QED
  BY <1>2, <1>3 DEF WorkersInv, OnlyMoves

ScanInv == WorkersInv /\ ResultsInv /\ PhaseInv /\ FateInv /\ LiveInv

LEMMA ScanInit == Init => ScanInv
<1> SUFFICES ASSUME Init  PROVE ScanInv
  OBVIOUS
<1> USE DEF Init
<1>1. WorkersInv
  BY DEF WorkersInv, WorkerOK, WorkerPCs, NotVerifying, Jobless
<1>2. ResultsInv
  BY DEF ResultsInv
<1>3. PhaseInv
  <2>1. 0 \in 0..Len(IdorCells) /\ 0 <= Len(Jobs)
    BY JobsAreRecords
  <2>2. phase = "preflight" /\ planned = 0 /\ produced = 0 /\ idor = 0
    OBVIOUS
  <2>3. producing \in BOOLEAN /\ ~producing
    BY Zenon
  <2>4. \A w \in Workers : pc[w] = "off"
    OBVIOUS
  <2> HIDE DEF Init
  <2> QED
    BY <2>1, <2>2, <2>3, <2>4 DEF PhaseInv, Phases
<1>4. FateInv /\ LiveInv
  BY DEF FateInv, LiveInv, Over
<1> QED
  BY <1>1, <1>2, <1>3, <1>4 DEF ScanInv

-----------------------------------------------------------------------------
(* Each step keeps the workers in order, one lemma for the steps of a      *)
(* worker and one for those of the others.                                 *)
LEMMA WorkerStepKept ==
  ASSUME ScanInv, NEW w \in Workers, WorkerStep(w) \/ Acquire(w)
  PROVE  WorkersInv'
<1> USE DEF ScanInv, WorkersInv, WorkerOK, WorkerPCs, NotVerifying, Jobless, OnlyMoves, KeyOf, Goto
<1>1. CASE NoMoreJobs(w)
  BY <1>1, WorkerMoves DEF NoMoreJobs
<1>2. CASE DropJob(w)
  BY <1>2, WorkerMoves DEF DropJob
<1>3. CASE StartJob(w)
  BY <1>3, WorkerMoves DEF StartJob
<1>4. CASE Acquire(w)
  BY <1>4, WorkerMoves DEF Acquire
<1>5. CASE JobFails(w)
  BY <1>5, WorkerMoves DEF JobFails
<1>6. CASE JobAnswered(w)
  BY <1>6, WorkerMoves DEF JobAnswered
<1>7. CASE Detect(w)
  BY <1>7, WorkerMoves DEF Detect, Good, Justified, Statuses
<1>8. CASE Reuse(w)
  BY <1>8, WorkerMoves DEF Reuse, ResultsInv, Keys
<1>9. CASE Verify(w)
  BY <1>9, WorkerMoves DEF Verify
<1>10. CASE Attempt(w)
  BY <1>10, WorkerMoves DEF Attempt
<1>11. CASE AttemptFails(w)
  BY <1>11, WorkerMoves DEF AttemptFails
<1>12. CASE GiveUp(w)
  BY <1>12, WorkerMoves DEF GiveUp, Settle, Good, Justified, Statuses
<1>13. CASE RepeatAnswered(w)
  <2>1. CASE FALSE \in Shows[KeyOf(w)].attack /\ Settle(w, "POTENTIAL")
    BY <1>13, <2>1, WorkerMoves DEF RepeatAnswered, Settle, Good, Justified, Statuses
  <2>2. CASE TRUE \in Shows[KeyOf(w)].attack /\ stage' = [stage EXCEPT ![w] = "control"]
               /\ Goto(w, "attempting") /\ UNCHANGED verdict
    BY <1>13, <2>2, WorkerMoves DEF RepeatAnswered
  <2> QED
    BY <1>13, <2>1, <2>2 DEF RepeatAnswered
<1>14. CASE ControlAnswered(w)
  <2>1. PICK evidence \in Shows[KeyOf(w)].benign :
          Settle(w, IF evidence THEN "FALSE_POSITIVE" ELSE "CONFIRMED")
    BY <1>14 DEF ControlAnswered
  <2>2. evidence \in BOOLEAN /\ TRUE \in Shows[KeyOf(w)].attack
    BY <1>14, ScanAssumption DEF ControlAnswered, Keys
  <2>3. Good(IF evidence THEN "FALSE_POSITIVE" ELSE "CONFIRMED", KeyOf(w))
    BY <2>1, <2>2 DEF Good, Justified, Statuses
  <2> HIDE DEF KeyOf
  <2>4. KeyOf(w)' = KeyOf(w)
    BY <1>14 DEF ControlAnswered, KeyOf
  <2>5. WorkerOK(w)'
    BY <1>14, <2>1, <2>2, <2>3, <2>4 DEF ControlAnswered, Settle, Good, Justified
  <2> QED
    BY <1>14, <2>1, <2>5, WorkerMoves DEF ControlAnswered, Settle
<1>15. CASE Publish(w)
  BY <1>15, WorkerMoves DEF Publish
<1>16. CASE MarkFinding(w)
  BY <1>16, WorkerMoves DEF MarkFinding
<1>17. CASE AppendFinding(w)
  BY <1>17, WorkerMoves DEF AppendFinding
<1> QED
  BY <1>1, <1>2, <1>3, <1>4, <1>5, <1>6, <1>7, <1>8, <1>9, <1>10, <1>11, <1>12, <1>13, <1>14,
     <1>15, <1>16, <1>17 DEF WorkerStep

LEMMA WorkersKept == ScanInv /\ [Next]_vars => WorkersInv'
<1> SUFFICES ASSUME ScanInv, [Next]_vars  PROVE WorkersInv'
  OBVIOUS
<1> USE DEF ScanInv
<1>1. CASE UNCHANGED workers
  BY <1>1 DEF workers, WorkersInv, WorkerOK, KeyOf
<1>2. ASSUME NEW w \in Workers, WorkerStep(w) \/ Acquire(w)  PROVE WorkersInv'
  BY <1>2, WorkerStepKept
<1>3. ASSUME NEW w \in Workers, Deliver(w)  PROVE WorkersInv'
  <2>1. produced' \in DOMAIN Jobs
    BY <1>3, JobsAreRecords DEF Deliver, PhaseInv
  <2>2. WorkerOK(w)'
    BY <1>3, <2>1
       DEF Deliver, Goto, WorkersInv, WorkerOK, WorkerPCs, NotVerifying, Jobless, KeyOf
  <2>3. OnlyMoves(w)
    BY <1>3 DEF Deliver, OnlyMoves, WorkersInv
  <2> QED
    BY <2>2, <2>3, WorkerMoves
<1>4. ASSUME NEW total \in 0..Len(Jobs), StartWorkers(total)  PROVE WorkersInv'
  <2>1. phase = "crawl" /\ (UNCHANGED pc \/ \E started \in SUBSET Workers :
          pc' = [w \in Workers |-> IF w \in started THEN "receiving" ELSE "off"])
    BY <1>4 DEF StartWorkers
  <2>2. UNCHANGED <<job, stage, verdict>>
    BY <1>4 DEF StartWorkers
  <2>3. \A w \in Workers : pc[w] = "off"
    BY <2>1 DEF PhaseInv
  <2>4. DOMAIN pc' = Workers /\ \A w \in Workers : pc'[w] \in {"off", "receiving"}
    BY <2>1, <2>3 DEF WorkersInv
  <2>5. ASSUME NEW w \in Workers  PROVE WorkerOK(w)'
    BY <2>2, <2>3, <2>4 DEF WorkersInv, WorkerOK, WorkerPCs, NotVerifying, Jobless
  <2> QED
    BY <2>2, <2>4, <2>5 DEF WorkersInv
<1> QED
  BY <1>1, <1>2, <1>3, <1>4
     DEF Next, vars, MainStep, Send, Preflight, CrawlFails, WorkersDone, ScanIDOR, IdorDone, Finalize,
         Return, CloseJobs, Adapt, CallerCancels, DeadlinePasses

LEMMA ResultsKept == ScanInv /\ [Next]_vars => ResultsInv'
<1> SUFFICES ASSUME ScanInv, [Next]_vars  PROVE ResultsInv'
  OBVIOUS
<1> USE DEF ScanInv
<1>1. CASE UNCHANGED <<cache, findings>>
  BY <1>1 DEF ResultsInv
<1>2. ASSUME NEW w \in Workers, Publish(w)  PROVE ResultsInv'
  <2>1. Good(verdict[w], KeyOf(w)) /\ cache' = [cache EXCEPT ![KeyOf(w)] = verdict[w]] /\ UNCHANGED findings
    BY <1>2 DEF Publish, WorkersInv, WorkerOK
  <2> QED
    BY <2>1 DEF ResultsInv
<1>3. ASSUME NEW w \in Workers, AppendFinding(w)  PROVE ResultsInv'
  <2>1. job[w] \in DOMAIN Jobs /\ Good(verdict[w], KeyOf(w))
    BY <1>3 DEF AppendFinding, WorkersInv, WorkerOK, Jobless
  <2>2. Finding(w) \in GoodRecords
    BY <2>1, JobsAreRecords DEF Finding, GoodRecords, Records, Good, KeyOf, CellOf
  <2>3. findings' = Append(findings, Finding(w)) /\ UNCHANGED cache
    BY <1>3 DEF AppendFinding
  <2> QED
    BY <2>2, <2>3 DEF ResultsInv
<1>4. CASE ScanIDOR
  <2>1. idor' \in DOMAIN IdorCells /\ UNCHANGED cache
    BY <1>4, JobsAreRecords DEF ScanIDOR, PhaseInv
  <2>2. PICK found \in SUBSET IdorCells[idor'] : \E list \in [1..Cardinality(found) -> found] :
          findings' = findings \o
            [i \in DOMAIN list |-> [id |-> list[i], cell |-> list[i], key |-> Unset, status |-> "UNVERIFIED"]]
    BY <1>4 DEF ScanIDOR
  <2>3. Cardinality(found) \in Nat /\ found \in SUBSET Cells
    BY <2>1, JobsAreRecords, FS_Subset, FS_CardinalityType
  <2>4. PICK list \in [1..Cardinality(found) -> found] :
          findings' = findings \o
            [i \in DOMAIN list |-> [id |-> list[i], cell |-> list[i], key |-> Unset, status |-> "UNVERIFIED"]]
    BY <2>2
  <2>5. \A i \in 1..Cardinality(found) :
          [id |-> list[i], cell |-> list[i], key |-> Unset, status |-> "UNVERIFIED"] \in GoodRecords
    BY <2>3 DEF GoodRecords, Records, Statuses
  <2>6. [i \in DOMAIN list |-> [id |-> list[i], cell |-> list[i], key |-> Unset, status |-> "UNVERIFIED"]]
          \in Seq(GoodRecords)
    BY <2>3, <2>5
  <2> QED
    BY <2>1, <2>4, <2>6 DEF ResultsInv
<1> QED
  BY <1>1, <1>2, <1>3, <1>4
     DEF Next, vars, MainStep, Send, WorkerStep, Acquire, Preflight, CrawlFails, StartWorkers, WorkersDone,
         IdorDone, Finalize, Return, Deliver, CloseJobs, Adapt, CallerCancels, DeadlinePasses,
         main, flow, workers, shared, NoMoreJobs, DropJob, StartJob, JobFails, JobAnswered, Detect, Reuse,
         Verify, Attempt, AttemptFails, GiveUp, RepeatAnswered, ControlAnswered, MarkFinding

LEMMA PhaseKept == ScanInv /\ [Next]_vars => PhaseInv'
<1> SUFFICES ASSUME ScanInv, [Next]_vars  PROVE PhaseInv'
  OBVIOUS
<1> USE DEF ScanInv, PhaseInv, Phases, Enter
<1>1. CASE UNCHANGED <<phase, produced, planned, producing, idor, pc>>
  BY <1>1
<1>2. ASSUME NEW total \in 0..Len(Jobs), StartWorkers(total)  PROVE PhaseInv'
  <2>1. planned' \in Nat /\ planned' <= Len(Jobs)
    BY <1>2, JobsAreRecords, ScanAssumption DEF StartWorkers, Lesser
  <2>2. phase' \in {"returning", "workers"} /\ producing' \in BOOLEAN /\ UNCHANGED <<idor, produced>>
    BY <1>2 DEF StartWorkers
  <2>3. phase = "crawl"
    BY <1>2 DEF StartWorkers
  <2> QED
    BY <2>1, <2>2, <2>3
<1>3. ASSUME NEW w \in Workers, Deliver(w)  PROVE PhaseInv'
  BY <1>3 DEF Deliver, main
<1>4. CASE CloseJobs
  BY <1>4 DEF CloseJobs, main, workers
<1>5. ASSUME NEW w \in Workers, WorkerStep(w) \/ Acquire(w)  PROVE PhaseInv'
  <2>1. pc[w] # "off" /\ UNCHANGED <<main, flow>>
    BY <1>5
       DEF WorkerStep, Acquire, NoMoreJobs, DropJob, StartJob, JobFails, JobAnswered, Detect, Reuse, Verify,
           Attempt, AttemptFails, GiveUp, RepeatAnswered, ControlAnswered, Publish, MarkFinding, AppendFinding
  <2> QED
    BY <2>1 DEF main, flow
<1>6. CASE Preflight \/ CrawlFails \/ WorkersDone \/ IdorDone \/ Finalize \/ Return
  BY <1>6 DEF Preflight, CrawlFails, WorkersDone, IdorDone, Finalize, Return, flow, workers
<1>7. CASE ScanIDOR
  BY <1>7, JobsAreRecords DEF ScanIDOR, flow, workers
<1> QED
  BY <1>1, <1>2, <1>3, <1>4, <1>5, <1>6, <1>7
     DEF Next, vars, MainStep, Send, Adapt, CallerCancels, DeadlinePasses, main, flow, workers

(* A worker whose job is still undecided keeps it or decides it.           *)
LEMMA FateKept == ScanInv /\ [Next]_vars => FateInv'
<1> SUFFICES ASSUME ScanInv, [Next]_vars  PROVE FateInv'
  OBVIOUS
<1> USE DEF ScanInv, Undecided
<1>1. CASE UNCHANGED <<fate, produced, job, stage, pc, phase>>
  BY <1>1 DEF FateInv
<1>2. ASSUME NEW total \in 0..Len(Jobs), StartWorkers(total)  PROVE FateInv'
  <2>1. phase = "crawl" /\ produced = 0 /\ UNCHANGED <<fate, produced>>
    BY <1>2 DEF StartWorkers, PhaseInv
  <2>2. ASSUME phase' = "workers"  PROVE \E w \in Workers : pc'[w] # "off"
    <3>1. total > 0 /\ planned' = Lesser(total, MaxJobs) /\ limit' = Lesser(Cardinality(Workers), planned')
      BY <1>2, <2>2, JobsAreRecords DEF StartWorkers, Enter
    <3>2. limit' # 0
      BY <3>1, JobsAreRecords, ScanAssumption DEF Lesser
    <3>3. PICK started \in SUBSET Workers :
            /\ Cardinality(started) = limit'
            /\ pc' = [w \in Workers |-> IF w \in started THEN "receiving" ELSE "off"]
      BY <1>2, <2>2 DEF StartWorkers, Enter
    <3>4. started # {}
      BY <3>2, <3>3, FS_EmptySet
    <3> QED
      BY <3>3, <3>4
  <2> QED
    BY <2>1, <2>2 DEF FateInv, PhaseInv
<1>3. ASSUME NEW w \in Workers, Deliver(w)  PROVE FateInv'
  <2>1. produced' = produced + 1 /\ produced' \in DOMAIN fate /\ produced \in Nat
    BY <1>3, JobsAreRecords DEF Deliver, PhaseInv, FateInv
  <2>2. pc[w] = "receiving" /\ stage[w] = "job" /\ UNCHANGED <<stage, phase>>
    BY <1>3 DEF Deliver, WorkersInv, WorkerOK, NotVerifying, Jobless, main
  <2>3. job' = [job EXCEPT ![w] = produced'] /\ fate' = [fate EXCEPT ![produced'] = "taken"]
        /\ pc' = [pc EXCEPT ![w] = "taken"]
    BY <1>3 DEF Deliver, Goto
  <2>4. pc'[w] = "taken" /\ job'[w] = produced' /\ \A v \in Workers \ {w} : pc'[v] = pc[v] /\ job'[v] = job[v]
    BY <2>3 DEF WorkersInv
  <2>5. ASSUME NEW j \in 1..produced', fate'[j] = "taken"
        PROVE  \E v \in Workers : job'[v] = j /\ stage'[v] = "job" /\ pc'[v] \in Undecided
    <3>1. CASE j = produced'
      BY <2>2, <2>4, <3>1
    <3>2. CASE j # produced'
      <4>1. j \in 1..produced /\ fate[j] = "taken"
        BY <2>1, <2>3, <2>5, <3>2 DEF FateInv
      <4>2. PICK v \in Workers : job[v] = j /\ stage[v] = "job" /\ pc[v] \in Undecided
        BY <4>1 DEF FateInv
      <4> QED
        BY <2>2, <2>4, <4>2
    <3> QED
      BY <3>1, <3>2
  <2>6. \A j \in 1..produced' : fate'[j] \in {"taken", "dropped", "answered", "failed"}
    BY <2>1, <2>3 DEF FateInv
  <2>7. DOMAIN fate' = DOMAIN Jobs /\ \E v \in Workers : pc'[v] # "off"
    BY <2>3, <2>4 DEF FateInv
  <2> QED
    BY <2>5, <2>6, <2>7 DEF FateInv
<1>4. ASSUME NEW w \in Workers, DropJob(w) \/ JobFails(w) \/ JobAnswered(w)  PROVE FateInv'
  <2>1. PICK end \in {"dropped", "failed", "answered"}, label \in {"exited", "receiving", "answered"} :
          fate' = [fate EXCEPT ![job[w]] = end] /\ pc' = [pc EXCEPT ![w] = label]
    BY <1>4 DEF DropJob, JobFails, JobAnswered, Goto
  <2>2. UNCHANGED <<produced, job, stage, phase>>
    BY <1>4 DEF DropJob, JobFails, JobAnswered, main, flow
  <2>3. \A j \in DOMAIN fate : fate'[j] = IF j = job[w] THEN end ELSE fate[j]
    BY <2>1
  <2>4. \A v \in Workers : pc'[v] = IF v = w THEN label ELSE pc[v]
    BY <2>1 DEF WorkersInv
  <2>5. 1..produced \subseteq DOMAIN fate /\ DOMAIN fate' = DOMAIN Jobs
    BY <2>1, JobsAreRecords DEF FateInv, PhaseInv
  <2> QED
    BY <2>2, <2>3, <2>4, <2>5 DEF FateInv
<1>5. ASSUME NEW w \in Workers, UNCHANGED <<fate, produced, job, phase>>,
             pc[w] \in Undecided => stage[w] # "job" \/ (stage'[w] = "job" /\ pc'[w] \in Undecided),
             pc'[w] # "off", OnlyMoves(w)
      PROVE  FateInv'
  <2>1. \A v \in Workers \ {w} : pc'[v] = pc[v] /\ stage'[v] = stage[v]
    BY <1>5 DEF OnlyMoves, Goto, WorkersInv
  <2> QED
    BY <1>5, <2>1 DEF FateInv
<1>6. ASSUME NEW w \in Workers, WorkerStep(w) \/ Acquire(w)  PROVE FateInv'
  <2>1. CASE DropJob(w) \/ JobFails(w) \/ JobAnswered(w)
    BY <1>4, <2>1
  <2> USE DEF OnlyMoves, Goto, WorkersInv, main, flow, shared
  <2>2. CASE NoMoreJobs(w) \/ StartJob(w) \/ Acquire(w)
    BY <1>5, <2>2 DEF NoMoreJobs, StartJob, Acquire
  <2>3. CASE Detect(w)
    BY <1>5, <2>3 DEF Detect
  <2>4. CASE Reuse(w) \/ Verify(w)
    BY <1>5, <2>4 DEF Reuse, Verify
  <2>5. CASE Attempt(w) \/ AttemptFails(w) \/ GiveUp(w)
    BY <1>5, <2>5 DEF Attempt, AttemptFails, GiveUp, Settle
  <2>6. CASE RepeatAnswered(w) \/ ControlAnswered(w)
    BY <1>5, <2>6 DEF RepeatAnswered, ControlAnswered, Settle
  <2>7. CASE Publish(w) \/ MarkFinding(w) \/ AppendFinding(w)
    BY <1>5, <2>7 DEF Publish, MarkFinding, AppendFinding
  <2> QED
    BY <1>6, <2>1, <2>2, <2>3, <2>4, <2>5, <2>6, <2>7 DEF WorkerStep
<1>7. CASE Preflight \/ CrawlFails \/ WorkersDone \/ IdorDone \/ Finalize \/ Return \/ ScanIDOR
  BY <1>7 DEF Preflight, CrawlFails, WorkersDone, IdorDone, Finalize, Return, ScanIDOR, Enter, flow, workers,
              shared, FateInv
<1> QED
  BY <1>1, <1>2, <1>3, <1>6, <1>7
     DEF Next, vars, MainStep, Send, CloseJobs, Adapt, CallerCancels, DeadlinePasses, main, flow, workers, shared

(* While the scan is live nobody stops before the producer has sent all.   *)
LEMMA LiveKept == ScanInv /\ [Next]_vars => LiveInv'
<1> SUFFICES ASSUME ScanInv, [Next]_vars, ctx' = "live"  PROVE LiveInv'
  BY DEF LiveInv
<1> USE DEF ScanInv, Over
<1>1. ctx = "live"
  <2>1. CallerCancels => ctx = "live"
    BY DEF CallerCancels
  <2>2. ctx' = "live" /\ UNCHANGED ctx => ctx = "live"
    OBVIOUS
  <2>3. CASE UNCHANGED ctx
    BY <2>2, <2>3
  <2>4. CASE CallerCancels
    BY <2>1, <2>4
  <2>5. CASE DeadlinePasses
    BY <2>5 DEF DeadlinePasses
  <2> QED
    BY <2>3, <2>4, <2>5
       DEF Next, vars, MainStep, Send, WorkerStep, Acquire, Preflight, CrawlFails, StartWorkers, WorkersDone,
           ScanIDOR, IdorDone, Finalize, Return, Deliver, CloseJobs, Adapt, NoMoreJobs, DropJob, StartJob,
           JobFails, JobAnswered, Detect, Reuse, Verify, Attempt, AttemptFails, GiveUp, RepeatAnswered,
           ControlAnswered, Publish, MarkFinding, AppendFinding
<1>2. CASE UNCHANGED <<fate, produced, planned, producing, pc, phase, idor>>
  BY <1>1, <1>2 DEF LiveInv
<1>3. ASSUME NEW total \in 0..Len(Jobs), StartWorkers(total)  PROVE LiveInv'
  <2>1. phase = "crawl" /\ produced = 0 /\ ~producing /\ UNCHANGED <<fate, produced, idor>>
    BY <1>3 DEF StartWorkers, PhaseInv
  <2>2. \A w \in Workers : pc'[w] # "exited"
    <3>1. \A w \in Workers : pc[w] = "off"
      BY <2>1 DEF PhaseInv
    <3>2. UNCHANGED pc \/ \E started \in SUBSET Workers :
            pc' = [w \in Workers |-> IF w \in started THEN "receiving" ELSE "off"]
      BY <1>3 DEF StartWorkers
    <3> QED
      BY <3>1, <3>2
  <2>3. CASE total = 0
    <3>1. planned' = 0 /\ UNCHANGED producing
      BY <1>3, <2>3, ScanAssumption DEF StartWorkers, Lesser
    <3> QED
      BY <2>1, <2>2, <3>1 DEF LiveInv
  <2>4. CASE total # 0
    <3>1. phase' = "workers" /\ producing'
      BY <1>3, <2>4 DEF StartWorkers, Enter
    <3> QED
      BY <2>1, <2>2, <3>1 DEF LiveInv
  <2> QED
    BY <2>3, <2>4
<1>4. ASSUME NEW w \in Workers, Deliver(w)  PROVE LiveInv'
  <2>1. producing /\ producing' /\ phase' = phase /\ planned' = planned
    BY <1>4 DEF Deliver, main
  <2>2. phase \notin Over
    BY <1>1, <2>1 DEF LiveInv
  <2>3. produced' = produced + 1 /\ produced \in Nat /\ fate' = [fate EXCEPT ![produced'] = "taken"]
    BY <1>4 DEF Deliver, PhaseInv
  <2>4. \A j \in 1..produced' : fate'[j] # "dropped"
    <3>1. \A j \in 1..produced' : j \in DOMAIN fate /\ (j = produced' \/ j \in 1..produced)
      BY <1>4, <2>3, JobsAreRecords DEF Deliver, FateInv, PhaseInv
    <3> QED
      BY <1>1, <2>3, <3>1 DEF LiveInv
  <2>5. \A v \in Workers : pc'[v] # "exited"
    BY <1>1, <1>4, <2>1 DEF Deliver, Goto, LiveInv, WorkersInv
  <2> QED
    BY <2>1, <2>2, <2>4, <2>5 DEF LiveInv
<1>5. CASE CloseJobs
  <2>1. produced = planned /\ ~producing' /\ UNCHANGED <<fate, produced, planned, pc, phase, idor>>
    BY <1>1, <1>5 DEF CloseJobs, main, workers, shared
  <2>2. phase \notin Over
    BY <1>1, <1>5 DEF CloseJobs, LiveInv
  <2> QED
    BY <1>1, <2>1, <2>2 DEF LiveInv
<1>6. CASE WorkersDone
  <2>1. phase' = "idor" /\ UNCHANGED <<fate, produced, planned, producing, pc>>
    BY <1>1, <1>6 DEF WorkersDone, Enter, flow, workers, shared
  <2>2. PICK w \in Workers : pc[w] = "exited"
    BY <1>6 DEF WorkersDone, FateInv
  <2>3. ~producing /\ produced = planned
    BY <1>1, <2>2 DEF LiveInv
  <2>4. \A j \in 1..planned : fate[j] \in {"answered", "failed"}
    BY <1>1, <1>6, <2>3 DEF WorkersDone, LiveInv, FateInv, Undecided
  <2> QED
    BY <1>1, <2>1, <2>3, <2>4 DEF LiveInv
<1>7. CASE Preflight \/ CrawlFails
  <2>1. planned' = 0 /\ produced' = 0 /\ ~producing' /\ UNCHANGED <<fate, pc>>
    BY <1>7 DEF Preflight, CrawlFails, flow, workers, shared, PhaseInv
  <2>2. \A w \in Workers : pc'[w] = "off"
    BY <1>7, <2>1 DEF Preflight, CrawlFails, PhaseInv
  <2> QED
    BY <2>1, <2>2 DEF LiveInv
<1>8. CASE IdorDone \/ Finalize \/ Return \/ ScanIDOR
  <2>1. phase \in Over /\ phase' \in Over /\ UNCHANGED <<produced, planned, producing, pc, fate>>
    BY <1>8 DEF IdorDone, Finalize, Return, ScanIDOR, Enter, flow, workers, shared
  <2>2. planned' > 0 /\ phase' # "idor" => idor' = Len(IdorCells)
    BY <1>1, <1>8 DEF IdorDone, Finalize, Return, ScanIDOR, Enter, LiveInv
  <2> QED
    BY <1>1, <2>1, <2>2 DEF LiveInv
<1>9. ASSUME NEW w \in Workers, JobFails(w) \/ JobAnswered(w)  PROVE LiveInv'
  <2>1. PICK end \in {"failed", "answered"}, label \in {"receiving", "answered"} :
          fate' = [fate EXCEPT ![job[w]] = end] /\ pc' = [pc EXCEPT ![w] = label]
    BY <1>9 DEF JobFails, JobAnswered, Goto
  <2>2. UNCHANGED <<produced, planned, producing, phase, idor>>
    BY <1>9 DEF JobFails, JobAnswered, main, flow
  <2>3. \A j \in DOMAIN fate : fate'[j] = IF j = job[w] THEN end ELSE fate[j]
    BY <2>1
  <2>4. 1..produced \subseteq DOMAIN fate /\ 1..planned \subseteq DOMAIN fate
    BY JobsAreRecords DEF FateInv, PhaseInv
  <2>5. \A v \in Workers : pc'[v] = "exited" => pc[v] = "exited"
    BY <2>1 DEF WorkersInv
  <2> QED
    BY <1>1, <2>2, <2>3, <2>4, <2>5 DEF LiveInv
<1>10. ASSUME NEW w \in Workers, UNCHANGED <<fate, main, flow>>, OnlyMoves(w),
              pc'[w] = "exited" => ~producing
       PROVE  LiveInv'
  <2>1. \A v \in Workers \ {w} : pc'[v] = pc[v]
    BY <1>10 DEF OnlyMoves, Goto, WorkersInv
  <2> QED
    BY <1>1, <1>10, <2>1 DEF LiveInv, main, flow
<1>11. ASSUME NEW w \in Workers, WorkerStep(w) \/ Acquire(w)  PROVE LiveInv'
  <2>1. CASE DropJob(w)
    BY <1>1, <2>1 DEF DropJob
  <2>2. CASE JobFails(w) \/ JobAnswered(w)
    BY <1>9, <2>2
  <2> USE DEF OnlyMoves, Goto, WorkersInv, shared
  <2>3. CASE NoMoreJobs(w) \/ StartJob(w) \/ Acquire(w)
    BY <1>10, <2>3 DEF NoMoreJobs, StartJob, Acquire
  <2>4. CASE Detect(w)
    BY <1>10, <2>4 DEF Detect
  <2>5. CASE Reuse(w) \/ Verify(w)
    BY <1>10, <2>5 DEF Reuse, Verify
  <2>6. CASE Attempt(w) \/ AttemptFails(w) \/ GiveUp(w)
    BY <1>10, <2>6 DEF Attempt, AttemptFails, GiveUp, Settle
  <2>7. CASE RepeatAnswered(w) \/ ControlAnswered(w)
    BY <1>10, <2>7 DEF RepeatAnswered, ControlAnswered, Settle
  <2>8. CASE Publish(w) \/ MarkFinding(w) \/ AppendFinding(w)
    BY <1>10, <2>8 DEF Publish, MarkFinding, AppendFinding
  <2> QED
    BY <1>11, <2>1, <2>2, <2>3, <2>4, <2>5, <2>6, <2>7, <2>8 DEF WorkerStep
<1> QED
  BY <1>1, <1>2, <1>3, <1>4, <1>5, <1>6, <1>7, <1>8, <1>11
     DEF Next, vars, MainStep, Send, Adapt, CallerCancels, DeadlinePasses, main, flow, workers, shared

-----------------------------------------------------------------------------
(* The workers, the results, the phases and the fates of the jobs together *)
(* are inductive.                                                          *)
THEOREM ScanInvariant == Spec => []ScanInv
<1>1. ScanInv /\ [Next]_vars => ScanInv'
  BY WorkersKept, ResultsKept, PhaseKept, FateKept, LiveKept DEF ScanInv
<1> QED
  BY ScanInit, <1>1, PTL DEF Spec

(* What verification found out about one job holds for every finding that  *)
(* reuses it through the cache, and a probe that failed never makes it     *)
(* more than inconclusive (verification.go 70-94).                         *)
THEOREM FindingsAreJustified == Spec => []VerdictsJustified
<1>1. ScanInv => VerdictsJustified
  BY DEF ScanInv, ResultsInv, GoodRecords, VerdictsJustified
<1> QED
  BY ScanInvariant, <1>1, PTL

(* Whatever the number of workers, a scan that was not stopped has run     *)
(* every planned job and every endpoint of the IDOR phase (scanner.go      *)
(* 261-448).                                                               *)
THEOREM NoJobIsLost == Spec => []CompleteUnlessStopped
<1>1. ScanInv => CompleteUnlessStopped
  BY DEF ScanInv, LiveInv, Over, CompleteUnlessStopped
<1> QED
  BY ScanInvariant, <1>1, PTL

(* A context that has ended keeps every worker from a new probe, be it the *)
(* next job or a retry (scanner.go 76-80).                                 *)
THEOREM StopIsObeyed == Spec => NoNewProbes
<1> DEFINE Quiet == ctx # "live" => \A w \in Workers : pc'[w] = "probing" => pc[w] = "probing"
<1>1. ScanInv /\ [Next]_vars => Quiet
  <2> SUFFICES ASSUME ScanInv, [Next]_vars, ctx # "live", NEW w \in Workers, pc'[w] = "probing"
               PROVE  pc[w] = "probing"
    OBVIOUS
  <2>1. ASSUME NEW v \in Workers, NEW label, Goto(v, label), label # "probing"  PROVE pc[w] = "probing"
    BY <2>1 DEF Goto, ScanInv, WorkersInv
  <2>2. ASSUME NEW v \in Workers, WorkerStep(v) \/ Acquire(v) \/ Deliver(v)  PROVE pc[w] = "probing"
    <3>1. CASE NoMoreJobs(v) \/ DropJob(v) \/ Acquire(v) \/ Deliver(v)
      BY <2>1, <3>1 DEF NoMoreJobs, DropJob, Acquire, Deliver
    <3>2. CASE JobFails(v) \/ JobAnswered(v) \/ Reuse(v) \/ Verify(v)
      BY <2>1, <3>2 DEF JobFails, JobAnswered, Reuse, Verify
    <3>3. CASE Detect(v)
      BY <2>1, <3>3 DEF Detect
    <3>4. CASE StartJob(v) \/ Attempt(v)
      BY <3>4 DEF StartJob, Attempt
    <3>5. CASE AttemptFails(v) \/ GiveUp(v)
      BY <2>1, <3>5 DEF AttemptFails, GiveUp, Settle
    <3>6. CASE RepeatAnswered(v) \/ ControlAnswered(v)
      BY <2>1, <3>6 DEF RepeatAnswered, ControlAnswered, Settle
    <3>7. CASE Publish(v) \/ MarkFinding(v) \/ AppendFinding(v)
      BY <2>1, <3>7 DEF Publish, MarkFinding, AppendFinding
    <3> QED
      BY <2>2, <3>1, <3>2, <3>3, <3>4, <3>5, <3>6, <3>7 DEF WorkerStep
  <2>3. ASSUME NEW total \in 0..Len(Jobs), StartWorkers(total)  PROVE pc[w] = "probing"
    BY <2>3 DEF StartWorkers
  <2>4. CASE UNCHANGED pc
    BY <2>4
  <2> QED
    BY <2>2, <2>3, <2>4
       DEF Next, vars, MainStep, Send, Preflight, CrawlFails, WorkersDone, ScanIDOR, IdorDone, Finalize, Return,
           CloseJobs, Adapt, CallerCancels, DeadlinePasses, workers
<1>2. ScanInv /\ [Next]_vars => [Quiet]_vars
  BY <1>1
<1> QED
  BY ScanInvariant, <1>2, PTL DEF Spec, NoNewProbes

-----------------------------------------------------------------------------
(* Concurrent marks converge: whatever the order in which any number of    *)
(* workers and the IDOR phase mark the cells, the coverage they leave is   *)
(* the strongest observation of each cell.                                 *)

Early == {"preflight", "crawl"}

(* A job belongs to one worker, and is "taken" until that one decides it.  *)
OwnInv ==
  /\ \A w \in Workers : pc[w] \notin Jobless => job[w] \in 1..produced
  /\ \A v, w \in Workers :
       (v # w /\ pc[v] \notin Jobless /\ pc[w] \notin Jobless) => job[v] # job[w]
  /\ \A w \in Workers : (pc[w] \in Undecided /\ stage[w] = "job") => fate[job[w]] = "taken"
  /\ \A w \in Workers : pc[w] = "answered" => fate[job[w]] = "answered"
  /\ \A j \in DOMAIN Jobs : j > produced => fate[j] = "unsent"
  /\ phase \in Early => cov = <<>> /\ findings = <<>> /\ idor = 0

(* A state stands behind what was observed, or behind a finding about to   *)
(* be appended.                                                            *)
Appending(c) == {w \in Workers : pc[w] = "appending" /\ CellOf(w) = c}
Backed(c, s) == s \in Observed(c) \/ \E w \in Appending(c) : FromVerificationStatus(verdict[w]) = s

(* Nothing observed is stronger, but for an answer about to be marked.     *)
CellOK(c) ==
  /\ cov[c] \in CoverageStates /\ Backed(c, cov[c])
  /\ \A j \in DOMAIN Jobs : (fate[j] = "answered" /\ Jobs[j].cell = c) =>
       1 <= rank[cov[c]] \/ \E w \in Workers : pc[w] = "answered" /\ job[w] = j
  /\ \A e \in 1..idor : c \in IdorCells[e] => 1 <= rank[cov[c]]
  /\ \A i \in DOMAIN findings : findings[i].cell = c =>
       rank[FromVerificationStatus(findings[i].status)] <= rank[cov[c]]
  /\ \A w \in Appending(c) : rank[FromVerificationStatus(verdict[w])] <= rank[cov[c]]

CovInv == (phase \notin Early /\ planned > 0) => (DOMAIN cov = Cells /\ \A c \in Cells : CellOK(c))

-----------------------------------------------------------------------------
LEMMA Ranks ==
  /\ \A s \in CoverageStates : rank[s] \in 0..4
  /\ \A s, t \in CoverageStates : rank[s] = rank[t] => s = t
  /\ rank["not_attempted"] = 0 /\ rank["attempted"] = 1 /\ rank["inconclusive"] = 3
  /\ \A s \in Statuses : FromVerificationStatus(s) \in {"verified", "failed", "inconclusive"}
  /\ FromVerificationStatus("UNVERIFIED") = "inconclusive"
BY DEF rank, CoverageStates, Statuses, FromVerificationStatus

(* Mark takes the stronger of the two states. *)
LEMMA MarkIsMaximum ==
  ASSUME NEW m, DOMAIN m = Cells, NEW c \in Cells, m[c] \in CoverageStates, NEW s \in CoverageStates
  PROVE  /\ DOMAIN Mark(m, c, s) = Cells
         /\ \A d \in Cells \ {c} : Mark(m, c, s)[d] = m[d]
         /\ \/ Mark(m, c, s)[c] = m[c] /\ rank[s] <= rank[m[c]]
            \/ Mark(m, c, s)[c] = s /\ rank[m[c]] <= rank[s]
<1>1. CASE rank[s] <= rank[m[c]]
  BY <1>1 DEF Mark
<1>2. CASE ~(rank[s] <= rank[m[c]])
  <2>1. rank[m[c]] <= rank[s]
    BY <1>2, Ranks
  <2> QED
    BY <1>2, <2>1 DEF Mark
<1> QED
  BY <1>1, <1>2

LEMMA OwnInit == Init => OwnInv /\ CovInv
BY JobsAreRecords DEF Init, OwnInv, CovInv, Jobless, Undecided, Early

(* Steps that neither mark nor observe. *)
LEMMA NothingObserved ==
  ASSUME ScanInv, CovInv, UNCHANGED <<cov, findings, idor, planned>>,
         phase' \notin Early => phase \notin Early \/ planned = 0,
         \A j \in DOMAIN Jobs : fate'[j] = "answered" <=> fate[j] = "answered",
         \A w \in Workers : pc[w] \in {"answered", "appending"} =>
           pc'[w] = pc[w] /\ job'[w] = job[w] /\ verdict'[w] = verdict[w],
         \A w \in Workers : pc'[w] = "appending" => pc[w] = "appending"
  PROVE  CovInv'
<1> SUFFICES ASSUME phase' \notin Early, planned > 0
             PROVE  DOMAIN cov' = Cells /\ \A c \in Cells : CellOK(c)'
  BY DEF CovInv
<1>1. DOMAIN cov = Cells /\ \A c \in Cells : CellOK(c)
  BY DEF CovInv, ScanInv, PhaseInv
<1>2. ASSUME NEW c \in Cells  PROVE CellOK(c)'
  <2>1. CellOK(c)
    BY <1>1
  <2>2. Observed(c)' = Observed(c)
    BY DEF Observed
  <2>3. Backed(c, cov[c])'
    BY <2>1, <2>2 DEF CellOK, Backed, Appending, CellOf
  <2>4. Appending(c)' = Appending(c) /\ \A w \in Appending(c) : verdict'[w] = verdict[w]
    BY DEF Appending, CellOf
  <2> QED
    BY <2>1, <2>3, <2>4 DEF CellOK
<1> QED
  BY <1>1, <1>2

-----------------------------------------------------------------------------
LEMMA OwnSame ==
  ASSUME ScanInv, OwnInv, UNCHANGED <<produced, job, fate>>,
         \A w \in Workers : pc'[w] \notin Jobless => pc[w] \notin Jobless,
         \A w \in Workers : (pc'[w] \in Undecided /\ stage'[w] = "job") => (pc[w] \in Undecided /\ stage[w] = "job"),
         \A w \in Workers : pc'[w] = "answered" => pc[w] = "answered",
         phase' \in Early => phase \in Early /\ UNCHANGED <<cov, findings, idor>>
  PROVE  OwnInv'
BY DEF OwnInv

(* A step of worker w moves only w. *)
LEMMA Moved ==
  ASSUME ScanInv, NEW w \in Workers, NEW label, Goto(w, label)
  PROVE  pc'[w] = label /\ \A v \in Workers \ {w} : pc'[v] = pc[v]
BY DEF Goto, ScanInv, WorkersInv

LEMMA OwnKept == ScanInv /\ OwnInv /\ [Next]_vars => OwnInv'
<1> SUFFICES ASSUME ScanInv, OwnInv, [Next]_vars  PROVE OwnInv'
  OBVIOUS
<1> USE DEF Jobless, Undecided, Early
<1>1. CASE UNCHANGED <<produced, job, fate, pc, stage, phase, cov, findings, idor>>
  BY <1>1, OwnSame
<1>2. ASSUME NEW total \in 0..Len(Jobs), StartWorkers(total)  PROVE OwnInv'
  <2>1. phase = "crawl" /\ phase' \notin Early /\ UNCHANGED <<produced, job, fate, stage>>
    BY <1>2 DEF StartWorkers, Enter
  <2>2. \A w \in Workers : pc[w] = "off"
    BY <2>1 DEF ScanInv, PhaseInv
  <2>3. \A w \in Workers : pc'[w] \in {"off", "receiving"}
    BY <1>2, <2>2 DEF StartWorkers
  <2> QED
    BY <2>1, <2>3, OwnSame
<1>3. ASSUME NEW w \in Workers, Deliver(w)  PROVE OwnInv'
  <2>1. pc[w] = "receiving" /\ pc'[w] = "taken" /\ \A v \in Workers \ {w} : pc'[v] = pc[v]
    BY <1>3, Moved DEF Deliver
  <2>2. produced' = produced + 1 /\ produced \in Nat /\ produced' \in DOMAIN Jobs
        /\ UNCHANGED <<stage, phase, cov, findings, idor>>
    BY <1>3, JobsAreRecords DEF Deliver, ScanInv, PhaseInv, main
  <2>3. job'[w] = produced' /\ \A v \in Workers \ {w} : job'[v] = job[v]
    BY <1>3 DEF Deliver, ScanInv, WorkersInv
  <2>4. DOMAIN fate = DOMAIN Jobs /\ fate' = [fate EXCEPT ![produced'] = "taken"]
    BY <1>3 DEF Deliver, ScanInv, FateInv
  <2>5. \A j \in DOMAIN Jobs : fate'[j] = IF j = produced' THEN "taken" ELSE fate[j]
    BY <2>4
  <2>6. \A v \in Workers \ {w} : pc[v] \notin Jobless => job[v] \in 1..produced /\ job[v] # produced' /\ job[v] \in 1..produced'
    BY <2>2 DEF OwnInv
  <2>7. \A v \in Workers \ {w} : pc[v] \notin Jobless => job[v] \in DOMAIN Jobs
    BY <2>2, <2>6, JobsAreRecords
  <2>8. \A v \in Workers : pc'[v] \notin Jobless => job'[v] \in 1..produced'
    BY <2>1, <2>2, <2>3, <2>6
  <2>9. \A u, v \in Workers :
          (u # v /\ pc'[u] \notin Jobless /\ pc'[v] \notin Jobless) => job'[u] # job'[v]
    <3> SUFFICES ASSUME NEW u \in Workers, NEW v \in Workers, u # v,
                        pc'[u] \notin Jobless, pc'[v] \notin Jobless
                 PROVE  job'[u] # job'[v]
      OBVIOUS
    <3>1. CASE u # w /\ v # w
      BY <2>1, <2>3, <3>1 DEF OwnInv
    <3>2. CASE u = w \/ v = w
      BY <2>1, <2>3, <2>6, <3>2
    <3> QED
      BY <3>1, <3>2
  <2>10. \A v \in Workers : (pc'[v] \in Undecided /\ stage'[v] = "job") => fate'[job'[v]] = "taken"
    <3> SUFFICES ASSUME NEW v \in Workers, pc'[v] \in Undecided, stage'[v] = "job"
                 PROVE  fate'[job'[v]] = "taken"
      OBVIOUS
    <3>1. CASE v = w
      BY <2>2, <2>3, <2>5, <3>1
    <3>2. CASE v # w
      <4>1. pc[v] \in Undecided /\ stage[v] = "job" /\ pc[v] \notin Jobless /\ job'[v] = job[v]
        BY <2>1, <2>2, <2>3, <3>2
      <4>2. fate[job[v]] = "taken" /\ job[v] \in DOMAIN Jobs /\ job[v] # produced'
        BY <2>6, <2>7, <3>2, <4>1 DEF OwnInv
      <4> QED
        BY <2>5, <4>1, <4>2
    <3> QED
      BY <3>1, <3>2
  <2>11. \A v \in Workers : pc'[v] = "answered" => fate'[job'[v]] = "answered"
    BY <2>1, <2>3, <2>5, <2>6, <2>7 DEF OwnInv
  <2>12. \A j \in DOMAIN Jobs : j > produced' => fate'[j] = "unsent"
    BY <2>2, <2>5, JobsAreRecords DEF OwnInv
  <2>13. phase' \in Early => cov' = <<>> /\ findings' = <<>> /\ idor' = 0
    BY <2>2 DEF OwnInv
  <2> QED
    BY <2>8, <2>9, <2>10, <2>11, <2>12, <2>13 DEF OwnInv
<1>4. ASSUME NEW w \in Workers, DropJob(w) \/ JobFails(w) \/ JobAnswered(w)  PROVE OwnInv'
  <2>1. PICK end \in {"dropped", "failed", "answered"}, label \in {"exited", "receiving", "answered"} :
          fate' = [fate EXCEPT ![job[w]] = end] /\ Goto(w, label) /\ (label = "answered" => end = "answered")
    BY <1>4 DEF DropJob, JobFails, JobAnswered
  <2>2. UNCHANGED <<produced, job, stage, phase, cov, findings, idor>>
    BY <1>4 DEF DropJob, JobFails, JobAnswered, main, flow
  <2>3. pc'[w] = label /\ \A v \in Workers \ {w} : pc'[v] = pc[v]
    BY <2>1, Moved
  <2>4. pc[w] \in {"taken", "wire"} /\ job[w] \in 1..produced
    BY <1>4 DEF DropJob, JobFails, JobAnswered, OwnInv
  <2>5. \A j \in DOMAIN Jobs : j # job[w] => fate'[j] = fate[j]
    BY <2>1 DEF ScanInv, FateInv
  <2>6. \A v \in Workers : pc'[v] \notin Jobless => pc[v] \notin Jobless
    BY <2>3, <2>4
  <2>7. \A v \in Workers \ {w} : pc[v] \notin Jobless => job[v] # job[w] /\ job[v] \in DOMAIN Jobs
    BY <2>4, JobsAreRecords DEF OwnInv, ScanInv, WorkersInv, WorkerOK
  <2>8. \A v \in Workers : (pc'[v] \in Undecided /\ stage'[v] = "job") => fate'[job'[v]] = "taken"
    BY <2>2, <2>3, <2>5, <2>7 DEF OwnInv
  <2>9. \A j \in DOMAIN Jobs : j > produced' => fate'[j] = "unsent"
    BY <2>2, <2>4, <2>5, JobsAreRecords DEF OwnInv, ScanInv, PhaseInv
  <2>10. fate'[job[w]] = end
    BY <2>1, <2>4, JobsAreRecords DEF ScanInv, FateInv, PhaseInv
  <2>11. \A v \in Workers : pc'[v] = "answered" => fate'[job'[v]] = "answered"
    BY <2>1, <2>2, <2>3, <2>5, <2>7, <2>10 DEF OwnInv
  <2> QED
    BY <2>2, <2>6, <2>8, <2>9, <2>11 DEF OwnInv
<1>5. ASSUME NEW w \in Workers, NEW label, Goto(w, label), UNCHANGED <<produced, job, fate, phase>>,
             label \in Jobless \/ pc[w] \notin Jobless, label # "answered",
             label \in Undecided => (pc[w] \in Undecided /\ stage'[w] = stage[w]) \/ stage'[w] # "job",
             \A v \in Workers \ {w} : stage'[v] = stage[v],
             phase \notin Early
      PROVE  OwnInv'
  <2>1. pc'[w] = label /\ \A v \in Workers \ {w} : pc'[v] = pc[v]
    BY <1>5, Moved
  <2>2. \A v \in Workers : pc'[v] \notin Jobless => pc[v] \notin Jobless
    BY <1>5, <2>1
  <2>3. \A v \in Workers : pc'[v] = "answered" => pc[v] = "answered"
    BY <1>5, <2>1
  <2>4. \A v \in Workers : (pc'[v] \in Undecided /\ stage'[v] = "job") => (pc[v] \in Undecided /\ stage[v] = "job")
    BY <1>5, <2>1
  <2> QED
    BY <1>5, <2>2, <2>3, <2>4, OwnSame
<1>6. ASSUME NEW w \in Workers, WorkerStep(w) \/ Acquire(w)  PROVE OwnInv'
  <2>1. phase \notin Early
    BY <1>6 DEF ScanInv, PhaseInv, WorkerStep, Acquire, NoMoreJobs, DropJob, StartJob, JobFails, JobAnswered,
                Detect, Reuse, Verify, Attempt, AttemptFails, GiveUp, RepeatAnswered, ControlAnswered, Publish,
                MarkFinding, AppendFinding
  <2>2. CASE DropJob(w) \/ JobFails(w) \/ JobAnswered(w)
    BY <1>4, <2>2
  <2> USE DEF ScanInv, WorkersInv, main, flow, shared
  <2>3. CASE NoMoreJobs(w) \/ StartJob(w) \/ Acquire(w)
    BY <1>5, <2>1, <2>3 DEF NoMoreJobs, StartJob, Acquire
  <2>4. CASE Detect(w)
    BY <1>5, <2>1, <2>4 DEF Detect
  <2>5. CASE Reuse(w) \/ Verify(w)
    BY <1>5, <2>1, <2>5 DEF Reuse, Verify
  <2>6. CASE Attempt(w) \/ AttemptFails(w) \/ GiveUp(w)
    <3>1. pc[w] = "attempting" => stage[w] # "job"
      BY DEF WorkerOK
    <3> QED
      BY <1>5, <2>1, <2>6, <3>1 DEF Attempt, AttemptFails, GiveUp, Settle
  <2>7. CASE RepeatAnswered(w) \/ ControlAnswered(w)
    BY <1>5, <2>1, <2>7 DEF RepeatAnswered, ControlAnswered, Settle
  <2>8. CASE Publish(w) \/ MarkFinding(w) \/ AppendFinding(w)
    BY <1>5, <2>1, <2>8 DEF Publish, MarkFinding, AppendFinding
  <2> QED
    BY <1>6, <2>2, <2>3, <2>4, <2>5, <2>6, <2>7, <2>8 DEF WorkerStep
<1>7. CASE Preflight \/ CrawlFails \/ WorkersDone \/ IdorDone \/ Finalize \/ Return \/ ScanIDOR
  <2>1. UNCHANGED <<produced, job, fate, pc, stage>>
    BY <1>7 DEF Preflight, CrawlFails, WorkersDone, IdorDone, Finalize, Return, ScanIDOR, flow, workers, shared
  <2>2. phase' \in Early => phase \in Early /\ UNCHANGED <<cov, findings, idor>>
    BY <1>7 DEF Preflight, CrawlFails, WorkersDone, IdorDone, Finalize, Return, ScanIDOR, Enter, shared
  <2> QED
    BY <2>1, <2>2, OwnSame
<1> QED
  BY <1>1, <1>2, <1>3, <1>6, <1>7
     DEF Next, vars, MainStep, Send, CloseJobs, Adapt, CallerCancels, DeadlinePasses, main, flow, workers, shared

-----------------------------------------------------------------------------
(* What is marked or observed, step by step.                               *)
Covered == DOMAIN cov = Cells /\ \A c \in Cells : CellOK(c)

LEMMA Unfold ==
  ASSUME ScanInv, CovInv, phase \notin Early, planned > 0
  PROVE  Covered
BY DEF CovInv, Covered

LEMMA Fold == Covered' => CovInv'
BY DEF CovInv, Covered

(* What a cell is backed by does not vanish while observations are kept.   *)
LEMMA BackedKept ==
  ASSUME NEW c \in Cells, NEW s, Backed(c, s),
         Observed(c) \subseteq Observed(c)',
         \A w \in Appending(c) : w \in Appending(c)' /\ verdict'[w] = verdict[w]
  PROVE  Backed(c, s)'
BY DEF Backed

LEMMA AnswerKeepsCoverage ==
  ASSUME ScanInv, OwnInv, Covered, NEW w \in Workers, JobAnswered(w)
  PROVE  Covered'
<1>1. pc[w] = "wire" /\ pc'[w] = "answered" /\ \A v \in Workers \ {w} : pc'[v] = pc[v]
  BY Moved DEF JobAnswered
<1>2. UNCHANGED <<job, verdict, cov, findings, idor>>
  BY DEF JobAnswered, main
<1>3. \A j \in DOMAIN Jobs : fate'[j] = IF j = job[w] THEN "answered" ELSE fate[j]
  BY DEF JobAnswered, ScanInv, FateInv
<1>4. ASSUME NEW c \in Cells  PROVE CellOK(c)'
  <2>1. CellOK(c)
    BY DEF Covered
  <2>2. Observed(c) \subseteq Observed(c)'
    BY <1>2, <1>3 DEF Observed
  <2>3. Appending(c)' = Appending(c)
    BY <1>1, <1>2 DEF Appending, CellOf
  <2>4. PICK old \in CoverageStates : old = cov[c] /\ Backed(c, old)'
    <3>1. PICK old \in CoverageStates : old = cov[c]
      BY <2>1 DEF CellOK
    <3>2. Backed(c, old)
      BY <2>1, <3>1 DEF CellOK
    <3>3. Backed(c, old)'
      BY <1>2, <2>2, <2>3, <3>2, BackedKept
    <3> QED
      BY <3>1, <3>3
  <2>5. \A j \in DOMAIN Jobs : (fate'[j] = "answered" /\ Jobs[j].cell = c) =>
          1 <= rank[cov'[c]] \/ \E v \in Workers : pc'[v] = "answered" /\ job'[v] = j
    BY <1>1, <1>2, <1>3, <2>1 DEF CellOK
  <2> QED
    BY <1>2, <2>1, <2>3, <2>4, <2>5 DEF CellOK
<1> QED
  BY <1>2, <1>4 DEF Covered

LEMMA DetectKeepsCoverage ==
  ASSUME ScanInv, OwnInv, Covered, NEW w \in Workers, Detect(w)
  PROVE  Covered'
<1>1. PICK label \in {"receiving", "candidate", "marking"} : Goto(w, label)
  BY DEF Detect
<1>2. pc[w] = "answered" /\ pc'[w] = label /\ \A v \in Workers \ {w} : pc'[v] = pc[v]
  BY <1>1, Moved DEF Detect
<1>3. UNCHANGED <<job, fate, findings, idor>> /\ \A v \in Workers \ {w} : verdict'[v] = verdict[v]
  BY DEF Detect, main, ScanInv, WorkersInv
<1>4. job[w] \in DOMAIN Jobs /\ CellOf(w) \in Cells /\ fate[job[w]] = "answered"
  BY <1>2, JobsAreRecords DEF OwnInv, ScanInv, WorkersInv, WorkerOK, Jobless, CellOf
<1>5. cov' = Mark(cov, CellOf(w), "attempted") /\ "attempted" \in CoverageStates
  BY DEF Detect, CoverageStates
<1>6. /\ DOMAIN cov' = Cells /\ \A d \in Cells \ {CellOf(w)} : cov'[d] = cov[d]
      /\ \/ cov'[CellOf(w)] = cov[CellOf(w)] /\ rank["attempted"] <= rank[cov[CellOf(w)]]
         \/ cov'[CellOf(w)] = "attempted" /\ rank[cov[CellOf(w)]] <= rank["attempted"]
  BY <1>4, <1>5, MarkIsMaximum DEF Covered, CellOK
<1>7. ASSUME NEW c \in Cells  PROVE CellOK(c)'
  <2>1. CellOK(c) /\ rank[cov[c]] \in 0..4
    BY Ranks DEF Covered, CellOK
  <2>2. Observed(c)' = Observed(c)
    BY <1>3 DEF Observed
  <2>3. Appending(c)' = Appending(c) /\ \A v \in Appending(c) : verdict'[v] = verdict[v]
    BY <1>2, <1>3 DEF Appending, CellOf
  <2>4. PICK old \in CoverageStates : old = cov[c] /\ Backed(c, old)'
    <3>1. PICK old \in CoverageStates : old = cov[c]
      BY <2>1 DEF CellOK
    <3>2. Backed(c, old)
      BY <2>1, <3>1 DEF CellOK
    <3>3. Backed(c, old)'
      BY <2>2, <2>3, <3>2, BackedKept
    <3> QED
      BY <3>1, <3>3
  <2>5. CASE c # CellOf(w)
    <3>1. cov'[c] = cov[c] /\ Backed(c, cov[c])'
      BY <1>6, <2>4, <2>5 DEF Backed
    <3>2. \A j \in DOMAIN Jobs : (fate'[j] = "answered" /\ Jobs[j].cell = c) =>
            1 <= rank[cov'[c]] \/ \E v \in Workers : pc'[v] = "answered" /\ job'[v] = j
      BY <1>2, <1>3, <2>1, <2>5, <3>1 DEF CellOK, CellOf
    <3> QED
      BY <1>3, <2>1, <2>3, <3>1, <3>2 DEF CellOK
  <2>6. CASE c = CellOf(w)
    <3>1. "attempted" \in Observed(c)
      BY <1>4, <2>6 DEF Observed, CellOf
    <3>2. rank[cov[c]] <= rank[cov'[c]] /\ 1 <= rank[cov'[c]] /\ rank[cov'[c]] \in 0..4
      BY <1>6, <2>1, <2>6, Ranks, <1>5
    <3>3. cov'[c] \in CoverageStates /\ (cov'[c] = cov[c] \/ cov'[c] = "attempted")
      BY <1>5, <1>6, <2>1, <2>6 DEF CellOK
    <3>4. Backed(c, cov[c])'
      BY <2>2, <2>4, <3>1, <3>3 DEF Backed
    <3>5. \A s \in Statuses : rank[FromVerificationStatus(s)] \in 0..4
      BY Ranks DEF CoverageStates
    <3>6. \A i \in DOMAIN findings : findings[i].status \in Statuses
      BY DEF ScanInv, ResultsInv, GoodRecords, Records
    <3>7. \A v \in Appending(c) : verdict[v] \in Statuses
      BY DEF Appending, ScanInv, WorkersInv, WorkerOK, Good
    <3>8. \A i \in DOMAIN findings' : findings'[i].cell = c =>
            rank[FromVerificationStatus(findings'[i].status)] <= rank[cov'[c]]
      BY <1>3, <2>1, <3>2, <3>5, <3>6 DEF CellOK
    <3>9. \A v \in Appending(c)' : rank[FromVerificationStatus(verdict'[v])] <= rank[cov'[c]]
      BY <2>1, <2>3, <3>2, <3>5, <3>7 DEF CellOK
    <3> QED
      BY <3>2, <3>3, <3>4, <3>8, <3>9 DEF CellOK
  <2> QED
    BY <2>5, <2>6
<1> QED
  BY <1>6, <1>7 DEF Covered

LEMMA MarkFindingKeepsCoverage ==
  ASSUME ScanInv, OwnInv, Covered, NEW w \in Workers, MarkFinding(w)
  PROVE  Covered'
<1> DEFINE s == FromVerificationStatus(verdict[w])
<1>1. pc[w] = "marking" /\ pc'[w] = "appending" /\ \A v \in Workers \ {w} : pc'[v] = pc[v]
  BY Moved DEF MarkFinding
<1>2. UNCHANGED <<job, verdict, fate, findings, idor>>
  BY DEF MarkFinding, main
<1>3. CellOf(w) \in Cells /\ verdict[w] \in Statuses
  BY <1>1, JobsAreRecords DEF ScanInv, WorkersInv, WorkerOK, Jobless, CellOf, Good
<1>4. s \in CoverageStates /\ rank[s] \in 0..4
  BY <1>3, Ranks DEF CoverageStates
<1>5. cov' = Mark(cov, CellOf(w), s)
  BY DEF MarkFinding
<1> HIDE DEF s
<1>6. /\ DOMAIN cov' = Cells /\ \A d \in Cells \ {CellOf(w)} : cov'[d] = cov[d]
      /\ \/ cov'[CellOf(w)] = cov[CellOf(w)] /\ rank[s] <= rank[cov[CellOf(w)]]
         \/ cov'[CellOf(w)] = s /\ rank[cov[CellOf(w)]] <= rank[s]
  BY <1>3, <1>4, <1>5, MarkIsMaximum DEF Covered, CellOK
<1>7. ASSUME NEW c \in Cells  PROVE CellOK(c)'
  <2>1. CellOK(c) /\ rank[cov[c]] \in 0..4
    BY Ranks DEF Covered, CellOK
  <2>2. Observed(c)' = Observed(c)
    BY <1>2 DEF Observed
  <2>3. Appending(c)' = IF c = CellOf(w) THEN Appending(c) \cup {w} ELSE Appending(c)
    BY <1>1, <1>2 DEF Appending, CellOf
  <2>4. PICK old \in CoverageStates : old = cov[c] /\ Backed(c, old)'
    <3>1. PICK old \in CoverageStates : old = cov[c]
      BY <2>1 DEF CellOK
    <3>2. Backed(c, old)
      BY <2>1, <3>1 DEF CellOK
    <3>3. Backed(c, old)'
      BY <1>2, <2>2, <2>3, <3>2, BackedKept
    <3> QED
      BY <3>1, <3>3
  <2>5. \A j \in DOMAIN Jobs : (fate[j] = "answered" /\ Jobs[j].cell = c) =>
          1 <= rank[cov[c]] \/ \E v \in Workers : pc'[v] = "answered" /\ job[v] = j
    BY <1>1, <2>1 DEF CellOK
  <2>6. CASE c # CellOf(w)
    <3>1. cov'[c] = cov[c] /\ Backed(c, cov[c])'
      BY <1>6, <2>4, <2>6 DEF Backed
    <3> QED
      BY <1>2, <2>1, <2>3, <2>5, <2>6, <3>1 DEF CellOK
  <2>7. CASE c = CellOf(w)
    <3>1. rank[cov[c]] <= rank[cov'[c]] /\ rank[s] <= rank[cov'[c]] /\ rank[cov'[c]] \in 0..4
      BY <1>4, <1>6, <2>1, <2>7
    <3>2. cov'[c] \in CoverageStates /\ (cov'[c] = cov[c] \/ cov'[c] = s)
      BY <1>4, <1>6, <2>1, <2>7 DEF CellOK
    <3>3. Backed(c, cov[c])'
      <4>1. w \in Appending(c)' /\ verdict'[w] = verdict[w]
        BY <1>2, <2>3, <2>7
      <4>2. CASE cov'[c] = cov[c]
        BY <2>4, <4>2 DEF Backed
      <4>3. CASE cov'[c] = s
        BY <4>1, <4>3 DEF Backed, s
      <4> QED
        BY <3>2, <4>2, <4>3
    <3>4. \A x \in Statuses : rank[FromVerificationStatus(x)] \in 0..4
      BY Ranks DEF CoverageStates
    <3>5. \A i \in DOMAIN findings : findings[i].status \in Statuses
      BY DEF ScanInv, ResultsInv, GoodRecords, Records
    <3>6. \A v \in Appending(c) : verdict[v] \in Statuses
      BY DEF Appending, ScanInv, WorkersInv, WorkerOK, Good
    <3>7. \A i \in DOMAIN findings' : findings'[i].cell = c =>
            rank[FromVerificationStatus(findings'[i].status)] <= rank[cov'[c]]
      BY <1>2, <2>1, <3>1, <3>4, <3>5 DEF CellOK
    <3>8. \A v \in Appending(c)' : rank[FromVerificationStatus(verdict'[v])] <= rank[cov'[c]]
      BY <1>2, <2>1, <2>3, <2>7, <3>1, <3>4, <3>6 DEF CellOK, s
    <3>9. \A j \in DOMAIN Jobs : (fate'[j] = "answered" /\ Jobs[j].cell = c) =>
            1 <= rank[cov'[c]] \/ \E v \in Workers : pc'[v] = "answered" /\ job'[v] = j
      BY <1>2, <2>1, <2>5, <3>1
    <3>10. \A e \in 1..idor' : c \in IdorCells[e] => 1 <= rank[cov'[c]]
      BY <1>2, <2>1, <3>1 DEF CellOK
    <3> QED
      BY <3>2, <3>3, <3>7, <3>8, <3>9, <3>10 DEF CellOK
  <2> QED
    BY <2>6, <2>7
<1> QED
  BY <1>6, <1>7 DEF Covered

(* The finding that is appended was observed before it could be read.      *)
LEMMA AppendKeepsCoverage ==
  ASSUME ScanInv, Covered, NEW w \in Workers, AppendFinding(w)
  PROVE  Covered'
<1>1. pc[w] = "appending" /\ pc'[w] = "receiving" /\ \A v \in Workers \ {w} : pc'[v] = pc[v]
  BY Moved DEF AppendFinding
<1>2. UNCHANGED <<job, verdict, fate, cov, idor>> /\ findings' = Append(findings, Finding(w))
  BY DEF AppendFinding, main
<1>3. findings \in Seq(GoodRecords) /\ Finding(w).cell = CellOf(w) /\ Finding(w).status = verdict[w]
  BY DEF ScanInv, ResultsInv, Finding
<1>4. /\ DOMAIN findings' = DOMAIN findings \cup {Len(findings) + 1}
      /\ \A i \in DOMAIN findings : findings'[i] = findings[i]
      /\ findings'[Len(findings) + 1] = Finding(w)
  BY <1>2, <1>3
<1>5. ASSUME NEW c \in Cells  PROVE CellOK(c)'
  <2>1. CellOK(c)
    BY DEF Covered
  <2>2. Observed(c) \subseteq Observed(c)'
    BY <1>2, <1>4 DEF Observed
  <2>3. Appending(c)' = Appending(c) \ {w} /\ (w \in Appending(c) <=> c = CellOf(w))
    BY <1>1, <1>2 DEF Appending, CellOf
  <2>4. c = CellOf(w) => FromVerificationStatus(verdict[w]) \in Observed(c)'
    BY <1>3, <1>4 DEF Observed
  <2>5. Backed(c, cov[c])'
    <3>1. CASE cov[c] \in Observed(c)
      BY <1>2, <2>2, <3>1 DEF Backed
    <3>2. ASSUME NEW v \in Appending(c), FromVerificationStatus(verdict[v]) = cov[c]  PROVE Backed(c, cov[c])'
      BY <1>2, <2>3, <2>4, <3>2 DEF Backed
    <3> QED
      BY <2>1, <3>1, <3>2 DEF CellOK, Backed
  <2>6. \A i \in DOMAIN findings' : findings'[i].cell = c =>
          rank[FromVerificationStatus(findings'[i].status)] <= rank[cov'[c]]
    BY <1>2, <1>3, <1>4, <2>1, <2>3 DEF CellOK
  <2>7. \A j \in DOMAIN Jobs : (fate'[j] = "answered" /\ Jobs[j].cell = c) =>
          1 <= rank[cov'[c]] \/ \E v \in Workers : pc'[v] = "answered" /\ job'[v] = j
    BY <1>1, <1>2, <2>1 DEF CellOK
  <2> QED
    BY <1>2, <2>1, <2>3, <2>5, <2>6, <2>7 DEF CellOK
<1> QED
  BY <1>2, <1>5 DEF Covered

(* Tracker after is tracker before with the cells marked s. *)
Stronger(before, after, cells, s) ==
  /\ DOMAIN after = Cells
  /\ \A c \in Cells \ cells : after[c] = before[c]
  /\ \A c \in cells : \/ after[c] = before[c] /\ rank[s] <= rank[before[c]]
                      \/ after[c] = s /\ rank[before[c]] <= rank[s]

LEMMA MarkAllIsMaximum ==
  ASSUME NEW m, DOMAIN m = Cells, \A c \in Cells : m[c] \in CoverageStates,
         NEW cells \in SUBSET Cells, NEW s \in CoverageStates
  PROVE  Stronger(m, MarkAll(m, cells, s), cells, s)
BY MarkIsMaximum DEF MarkAll, Stronger

(* A visit of the IDOR phase marks what it attempts and what it reports.   *)
LEMMA IdorKeepsCoverage ==
  ASSUME ScanInv, Covered, ScanIDOR
  PROVE  Covered'
<1>1. idor' = idor + 1 /\ idor' \in DOMAIN IdorCells /\ idor \in Nat
  BY JobsAreRecords DEF ScanIDOR, ScanInv, PhaseInv
<1>2. UNCHANGED <<job, verdict, fate, pc>>
  BY DEF ScanIDOR, workers
<1> DEFINE new(list) ==
      [i \in DOMAIN list |-> [id |-> list[i], cell |-> list[i], key |-> Unset, status |-> "UNVERIFIED"]]
<1>3. PICK found \in SUBSET IdorCells[idor'] :
        /\ cov' = MarkAll(MarkAll(cov, IdorCells[idor'], "attempted"), found, FromVerificationStatus("UNVERIFIED"))
        /\ \E list \in [1..Cardinality(found) -> found] :
             {list[i] : i \in DOMAIN list} = found /\ findings' = findings \o new(list)
  BY DEF ScanIDOR
<1>4. PICK list \in [1..Cardinality(found) -> found] :
        {list[i] : i \in DOMAIN list} = found /\ findings' = findings \o new(list)
  BY <1>3
<1>5. found \in SUBSET Cells /\ IdorCells[idor'] \in SUBSET Cells /\ Cardinality(found) \in Nat
  BY <1>1, JobsAreRecords, FS_Subset, FS_CardinalityType
<1>6. PICK more : more = new(list)
  OBVIOUS
<1>7. /\ more \in Seq(GoodRecords) /\ Len(more) = Cardinality(found)
      /\ \A i \in 1..Len(more) : more[i].cell = list[i] /\ more[i].status = "UNVERIFIED"
  <2>1. \A i \in 1..Cardinality(found) :
          [id |-> list[i], cell |-> list[i], key |-> Unset, status |-> "UNVERIFIED"] \in GoodRecords
    BY <1>5 DEF GoodRecords, Records, Statuses
  <2> QED
    BY <1>5, <1>6, <2>1
<1>8. findings \in Seq(GoodRecords) /\ findings' = findings \o more
  BY <1>4, <1>6 DEF ScanInv, ResultsInv
<1>9. /\ \A i \in DOMAIN findings : i \in DOMAIN findings' /\ findings'[i] = findings[i]
      /\ \A i \in 1..Len(more) : Len(findings) + i \in DOMAIN findings' /\ findings'[Len(findings) + i] = more[i]
      /\ \A n \in DOMAIN findings' : n \in DOMAIN findings \/ \E i \in 1..Len(more) : findings'[n] = more[i]
  <2>1. DOMAIN findings = 1..Len(findings) /\ DOMAIN findings' = 1..(Len(findings) + Len(more))
        /\ Len(findings) \in Nat /\ Len(more) \in Nat
    BY <1>7, <1>8
  <2>2. \A i \in 1..Len(findings) : findings'[i] = findings[i]
    BY <1>7, <1>8
  <2>3. \A i \in 1..Len(more) : Len(findings) + i \in DOMAIN findings' /\ findings'[Len(findings) + i] = more[i]
    BY <1>7, <1>8, <2>1
  <2>4. ASSUME NEW n \in DOMAIN findings', n \notin DOMAIN findings
        PROVE  \E i \in 1..Len(more) : findings'[n] = more[i]
    <3>1. n - Len(findings) \in 1..Len(more) /\ n = Len(findings) + (n - Len(findings))
      BY <2>1, <2>4
    <3> QED
      BY <2>3, <3>1
  <2> QED
    BY <2>1, <2>2, <2>3, <2>4
<1> HIDE DEF new
<1>10. PICK m : m = MarkAll(cov, IdorCells[idor'], "attempted")
  OBVIOUS
<1>11. /\ "attempted" \in CoverageStates /\ "inconclusive" \in CoverageStates
       /\ DOMAIN cov = Cells /\ \A c \in Cells : cov[c] \in CoverageStates
  BY DEF CoverageStates, Covered, CellOK
<1>12. Stronger(cov, m, IdorCells[idor'], "attempted")
  BY <1>5, <1>10, <1>11, MarkAllIsMaximum
<1>13. DOMAIN m = Cells /\ \A c \in Cells : m[c] \in CoverageStates
  BY <1>11, <1>12 DEF Stronger
<1>14. cov' = MarkAll(m, found, "inconclusive")
  BY <1>3, <1>10, Ranks
<1>15. Stronger(m, cov', found, "inconclusive")
  BY <1>5, <1>11, <1>13, <1>14, MarkAllIsMaximum
<1>16. ASSUME NEW c \in Cells  PROVE CellOK(c)'
  <2>1. CellOK(c)
    BY DEF Covered
  <2>2. cov'[c] \in CoverageStates /\ rank[cov[c]] \in 0..4 /\ rank[m[c]] \in 0..4 /\ rank[cov'[c]] \in 0..4
    BY <1>11, <1>13, <1>15, Ranks DEF Stronger
  <2>3. rank[cov[c]] <= rank[cov'[c]]
    BY <1>12, <1>15, <2>2 DEF Stronger
  <2>4. c \in IdorCells[idor'] => 1 <= rank[cov'[c]]
    BY <1>12, <1>15, <2>2, Ranks DEF Stronger
  <2>5. c \in found => 3 <= rank[cov'[c]]
    BY <1>15, <2>2, Ranks DEF Stronger
  <2>6. Observed(c) \subseteq Observed(c)'
    BY <1>1, <1>2, <1>9 DEF Observed
  <2>7. c \in IdorCells[idor'] => "attempted" \in Observed(c)'
    BY <1>1 DEF Observed
  <2>8. c \in found => "inconclusive" \in Observed(c)'
    <3> SUFFICES ASSUME c \in found  PROVE "inconclusive" \in Observed(c)'
      OBVIOUS
    <3>1. PICK i \in DOMAIN list : list[i] = c
      BY <1>4
    <3>2. findings'[Len(findings) + i].cell = c /\ findings'[Len(findings) + i].status = "UNVERIFIED"
          /\ Len(findings) + i \in DOMAIN findings'
      BY <1>5, <1>7, <1>9, <3>1
    <3> QED
      BY <3>2, Ranks DEF Observed
  <2>9. cov'[c] = cov[c] \/ (cov'[c] = "attempted" /\ c \in IdorCells[idor'])
        \/ (cov'[c] = "inconclusive" /\ c \in found)
    BY <1>12, <1>15 DEF Stronger
  <2>10. Appending(c)' = Appending(c)
    BY <1>2 DEF Appending, CellOf
  <2>11. Backed(c, cov[c])'
    BY <1>2, <2>1, <2>6, <2>7, <2>8, <2>9, <2>10 DEF CellOK, Backed
  <2>12. \A s \in Statuses : rank[FromVerificationStatus(s)] \in 0..4
    BY Ranks DEF CoverageStates
  <2>13. \A j \in DOMAIN Jobs : (fate'[j] = "answered" /\ Jobs[j].cell = c) =>
           1 <= rank[cov'[c]] \/ \E v \in Workers : pc'[v] = "answered" /\ job'[v] = j
    BY <1>2, <2>1, <2>2, <2>3 DEF CellOK
  <2>14. \A e \in 1..idor' : c \in IdorCells[e] => 1 <= rank[cov'[c]]
    BY <1>1, <2>1, <2>2, <2>3, <2>4 DEF CellOK
  <2>15. \A n \in DOMAIN findings' : findings'[n].cell = c =>
           rank[FromVerificationStatus(findings'[n].status)] <= rank[cov'[c]]
    <3> SUFFICES ASSUME NEW n \in DOMAIN findings', findings'[n].cell = c
                 PROVE  rank[FromVerificationStatus(findings'[n].status)] <= rank[cov'[c]]
      OBVIOUS
    <3>1. CASE n \in DOMAIN findings
      <4>1. findings[n].status \in Statuses
        BY <1>8, <3>1 DEF GoodRecords, Records
      <4> QED
        BY <1>9, <2>1, <2>2, <2>3, <2>12, <3>1, <4>1 DEF CellOK
    <3>2. ASSUME NEW i \in 1..Len(more), findings'[n] = more[i]
          PROVE  rank[FromVerificationStatus(findings'[n].status)] <= rank[cov'[c]]
      <4>1. c \in found
        BY <1>5, <1>7, <3>2
      <4> QED
        BY <1>7, <2>5, <3>2, <4>1, Ranks
    <3> QED
      BY <1>9, <3>1, <3>2
  <2>16. \A v \in Appending(c)' : rank[FromVerificationStatus(verdict'[v])] <= rank[cov'[c]]
    <3>1. \A v \in Appending(c) : verdict[v] \in Statuses
      BY DEF Appending, ScanInv, WorkersInv, WorkerOK, Good
    <3> QED
      BY <1>2, <2>1, <2>2, <2>3, <2>10, <2>12, <3>1 DEF CellOK
  <2> QED
    BY <2>2, <2>11, <2>13, <2>14, <2>15, <2>16 DEF CellOK
<1> QED
  BY <1>15, <1>16 DEF Covered, Stronger

(* The tracker starts with every cell not attempted. *)
LEMMA SeedCovers ==
  ASSUME ScanInv, OwnInv, NEW total \in 0..Len(Jobs), StartWorkers(total)
  PROVE  Covered'
<1>1. phase = "crawl" /\ cov' = Seed(cov, Cells) /\ UNCHANGED <<job, verdict, fate, findings, idor>>
  BY DEF StartWorkers
<1>2. cov = <<>> /\ findings = <<>> /\ idor = 0 /\ produced = 0 /\ \A w \in Workers : pc[w] = "off"
  BY <1>1 DEF OwnInv, Early, ScanInv, PhaseInv
<1>3. DOMAIN cov' = Cells /\ \A c \in Cells : cov'[c] = "not_attempted"
  BY <1>1, <1>2 DEF Seed
<1>4. \A w \in Workers : pc'[w] \in {"off", "receiving"}
  BY <1>2 DEF StartWorkers
<1>5. \A j \in DOMAIN Jobs : fate'[j] = "unsent"
  BY <1>1, <1>2, JobsAreRecords DEF OwnInv
<1>6. ASSUME NEW c \in Cells  PROVE CellOK(c)'
  <2>1. Appending(c)' = {}
    BY <1>4 DEF Appending
  <2>2. Backed(c, cov[c])'
    BY <1>3 DEF Backed, Observed
  <2> QED
    BY <1>1, <1>2, <1>3, <1>5, <2>1, <2>2 DEF CellOK, CoverageStates
<1> QED
  BY <1>3, <1>6 DEF Covered

-----------------------------------------------------------------------------
LEMMA CovKept == ScanInv /\ OwnInv /\ CovInv /\ [Next]_vars => CovInv'
<1> SUFFICES ASSUME ScanInv, OwnInv, CovInv, [Next]_vars  PROVE CovInv'
  OBVIOUS
<1>1. CASE UNCHANGED <<cov, findings, idor, planned, fate, pc, job, verdict>> /\ (phase' \notin Early => phase \notin Early \/ planned = 0)
  BY <1>1, NothingObserved
<1>2. ASSUME NEW total \in 0..Len(Jobs), StartWorkers(total)  PROVE CovInv'
  BY <1>2, SeedCovers, Fold
<1>3. ASSUME NEW w \in Workers, Deliver(w)  PROVE CovInv'
  <2>1. produced' = produced + 1 /\ produced' \in DOMAIN Jobs /\ produced \in Nat
    BY <1>3, JobsAreRecords DEF Deliver, ScanInv, PhaseInv, main
  <2>2. fate[produced'] = "unsent" /\ fate' = [fate EXCEPT ![produced'] = "taken"] /\ DOMAIN fate = DOMAIN Jobs
    BY <1>3, <2>1 DEF Deliver, OwnInv, ScanInv, FateInv
  <2>3. \A j \in DOMAIN Jobs : fate'[j] = "answered" <=> fate[j] = "answered"
    BY <2>1, <2>2
  <2>4. pc[w] = "receiving" /\ pc'[w] = "taken" /\ \A v \in Workers \ {w} : pc'[v] = pc[v] /\ job'[v] = job[v]
    BY <1>3 DEF Deliver, Goto, ScanInv, WorkersInv
  <2> QED
    BY <1>3, <2>3, <2>4, NothingObserved DEF Deliver, main
<1>4. ASSUME NEW w \in Workers, NEW label, Goto(w, label), UNCHANGED <<main, cov, findings, job>>,
             pc[w] \notin {"answered", "appending"}, label # "appending",
             \A v \in Workers \ {w} : verdict'[v] = verdict[v],
             \A j \in DOMAIN Jobs : fate'[j] = "answered" <=> fate[j] = "answered"
      PROVE  CovInv'
  <2>1. pc'[w] = label /\ \A v \in Workers \ {w} : pc'[v] = pc[v]
    BY <1>4, Moved
  <2>2. \A v \in Workers : pc[v] \in {"answered", "appending"} =>
          pc'[v] = pc[v] /\ job'[v] = job[v] /\ verdict'[v] = verdict[v]
    BY <1>4, <2>1
  <2>3. \A v \in Workers : pc'[v] = "appending" => pc[v] = "appending"
    BY <1>4, <2>1
  <2> QED
    BY <1>4, <2>2, <2>3, NothingObserved DEF main
<1>5. ASSUME NEW w \in Workers, DropJob(w) \/ JobFails(w)  PROVE CovInv'
  <2>1. PICK end \in {"dropped", "failed"}, label \in {"exited", "receiving"} :
          fate' = [fate EXCEPT ![job[w]] = end] /\ Goto(w, label)
    BY <1>5 DEF DropJob, JobFails
  <2>2. pc[w] \in {"taken", "wire"} /\ stage[w] = "job" /\ UNCHANGED <<main, cov, findings, job, verdict>>
    BY <1>5 DEF DropJob, JobFails, ScanInv, WorkersInv, WorkerOK, NotVerifying
  <2>3. fate[job[w]] = "taken"
    BY <2>2 DEF OwnInv, Undecided
  <2>4. \A j \in DOMAIN Jobs : fate'[j] = "answered" <=> fate[j] = "answered"
    BY <2>1, <2>3 DEF ScanInv, FateInv
  <2> QED
    BY <1>4, <2>1, <2>2, <2>4
<1>6. ASSUME NEW w \in Workers, WorkerStep(w) \/ Acquire(w)  PROVE CovInv'
  <2> USE DEF ScanInv, WorkersInv, shared
  <2>1. CASE DropJob(w) \/ JobFails(w)
    BY <1>5, <2>1
  <2>2. CASE NoMoreJobs(w) \/ StartJob(w) \/ Acquire(w) \/ Reuse(w) \/ Verify(w)
    BY <1>4, <2>2 DEF NoMoreJobs, StartJob, Acquire, Reuse, Verify
  <2>3. CASE Attempt(w) \/ AttemptFails(w) \/ GiveUp(w)
    BY <1>4, <2>3 DEF Attempt, AttemptFails, GiveUp, Settle
  <2>4. CASE RepeatAnswered(w) \/ ControlAnswered(w)
    BY <1>4, <2>4 DEF RepeatAnswered, ControlAnswered, Settle
  <2>5. CASE Publish(w)
    BY <1>4, <2>5 DEF Publish
  <2> USE DEF PhaseInv
  <2>6. ASSUME pc[w] # "off", UNCHANGED main, Covered => Covered'  PROVE CovInv'
    <3>1. phase \notin Early
      BY <2>6 DEF Early
    <3>2. CASE planned > 0
      BY <2>6, <3>1, <3>2, Unfold, Fold
    <3>3. CASE ~(planned > 0)
      BY <2>6, <3>3 DEF CovInv, main
    <3> QED
      BY <3>2, <3>3
  <2>7. CASE JobAnswered(w)
    BY <2>6, <2>7, AnswerKeepsCoverage DEF JobAnswered
  <2>8. CASE Detect(w)
    BY <2>6, <2>8, DetectKeepsCoverage DEF Detect
  <2>9. CASE MarkFinding(w)
    BY <2>6, <2>9, MarkFindingKeepsCoverage DEF MarkFinding
  <2>10. CASE AppendFinding(w)
    BY <2>6, <2>10, AppendKeepsCoverage DEF AppendFinding
  <2> QED
    BY <1>6, <2>1, <2>2, <2>3, <2>4, <2>5, <2>7, <2>8, <2>9, <2>10 DEF WorkerStep
<1>7. CASE ScanIDOR
  <2>1. phase = "idor" /\ UNCHANGED planned
    BY <1>7 DEF ScanIDOR
  <2>2. CASE planned > 0
    BY <1>7, <2>1, <2>2, Unfold, Fold, IdorKeepsCoverage DEF Early
  <2>3. CASE ~(planned > 0)
    BY <2>1, <2>3 DEF CovInv
  <2> QED
    BY <2>2, <2>3
<1>8. CASE Preflight \/ CrawlFails \/ WorkersDone \/ IdorDone \/ Finalize \/ Return
  BY <1>1, <1>8 DEF Preflight, CrawlFails, WorkersDone, IdorDone, Finalize, Return, workers, shared,
                    Early, ScanInv, PhaseInv
<1> QED
  BY <1>1, <1>2, <1>3, <1>6, <1>7, <1>8
     DEF Next, vars, MainStep, Send, CloseJobs, Adapt, CallerCancels, DeadlinePasses, main, flow, workers, shared

(* When no worker is between a mark and its observation, the state of a    *)
(* cell is observed, and nothing observed is stronger.                     *)
LEMMA QuietIsStrongest ==
  ASSUME ScanInv, CovInv, planned > 0, \A w \in Workers : pc[w] \in {"off", "exited", "receiving"},
         NEW c \in Cells
  PROVE  cov[c] = Strongest(Observed(c))
<1>1. phase \notin Early
  BY DEF ScanInv, PhaseInv, Early
<1>2. CellOK(c)
  BY <1>1, Unfold DEF Covered
<1>3. Appending(c) = {} /\ \A w \in Workers : pc[w] # "answered"
  BY DEF Appending
<1>4. cov[c] \in Observed(c)
  BY <1>2, <1>3 DEF CellOK, Backed
<1>5. \A i \in DOMAIN findings : findings[i].status \in Statuses
  BY DEF ScanInv, ResultsInv, GoodRecords, Records
<1>6. ASSUME NEW s \in Observed(c)  PROVE s \in CoverageStates /\ rank[s] <= rank[cov[c]]
  <2>1. cov[c] \in CoverageStates /\ rank[cov[c]] \in 0..4
    BY <1>2, Ranks DEF CellOK
  <2>2. CASE s = "not_attempted"
    BY <2>1, <2>2, Ranks DEF CoverageStates
  <2>3. CASE s = "attempted" /\ \E j \in DOMAIN Jobs : fate[j] = "answered" /\ Jobs[j].cell = c
    BY <1>2, <1>3, <2>3, Ranks DEF CellOK, CoverageStates
  <2>4. CASE s = "attempted" /\ \E e \in 1..idor : c \in IdorCells[e]
    BY <1>2, <2>4, Ranks DEF CellOK, CoverageStates
  <2>5. ASSUME NEW i \in DOMAIN findings, findings[i].cell = c,
               s = FromVerificationStatus(findings[i].status)
        PROVE  s \in CoverageStates /\ rank[s] <= rank[cov[c]]
    BY <1>2, <1>5, <2>5, Ranks DEF CellOK, CoverageStates
  <2> QED
    BY <2>2, <2>3, <2>4, <2>5 DEF Observed
<1>7. \A s \in Observed(c) : (\A t \in Observed(c) : rank[t] <= rank[s]) => s = cov[c]
  <2> SUFFICES ASSUME NEW s \in Observed(c), \A t \in Observed(c) : rank[t] <= rank[s]  PROVE s = cov[c]
    OBVIOUS
  <2>1. rank[cov[c]] <= rank[s] /\ rank[s] <= rank[cov[c]] /\ s \in CoverageStates /\ cov[c] \in CoverageStates
    BY <1>4, <1>6
  <2> QED
    BY <2>1, Ranks
<1> QED
  BY <1>4, <1>6, <1>7 DEF Strongest

(* "The strongest observation ... regardless of goroutine scheduling"      *)
(* (coverage.go 62-67), for any number of workers: once no job is in hand  *)
(* the tracker holds for every cell just what was observed, and an IDOR    *)
(* phase that follows keeps it so.                                         *)
THEOREM CoverageConverges == Spec => []CoverageIsStrongest
<1>1. ScanInv /\ OwnInv /\ CovInv /\ [Next]_vars => OwnInv' /\ CovInv'
  BY OwnKept, CovKept
<1>2. ScanInv /\ CovInv => CoverageIsStrongest
  BY QuietIsStrongest DEF CoverageIsStrongest
<1> QED
  BY ScanInvariant, OwnInit, <1>1, <1>2, PTL DEF Spec

-----------------------------------------------------------------------------
(* What is verified is reported: dedup keeps a finding of every cell that  *)
(* has one, because findings of one fingerprint are of one cell.           *)
IdorFindingCells == UNION {IdorCells[e] : e \in DOMAIN IdorCells}
OfJob(f) == \E j \in DOMAIN Jobs : f.id = Jobs[j].id /\ f.cell = Jobs[j].cell
OfIdor(f) == f.id \in IdorFindingCells /\ f.cell = f.id

ReportInv ==
  /\ \A i \in DOMAIN findings : OfJob(findings[i]) \/ OfIdor(findings[i])
  /\ phase \in Over => \A w \in Workers : pc[w] \in {"off", "exited"}
  /\ planned = 0 =>
       /\ phase \notin {"workers", "idor", "finalizing"}
       /\ \A w \in Workers : pc[w] = "off"
       /\ \A c \in DOMAIN cov : cov[c] = "not_attempted"
  /\ (phase \in {"returning", "returned"} /\ planned > 0) => report = dedup(findings)

IdorRecords(params) == [id : params, cell : params, key : {Unset}, status : {"UNVERIFIED"}]

LEMMA ReportInit == Init => ReportInv
BY DEF Init, ReportInv, Over

LEMMA ReportKept == ScanInv /\ OwnInv /\ ReportInv /\ [Next]_vars => ReportInv'
<1> SUFFICES ASSUME ScanInv, OwnInv, ReportInv, [Next]_vars  PROVE ReportInv'
  OBVIOUS
<1>1. CASE UNCHANGED <<phase, pc, planned, cov, findings, report>>
  BY <1>1 DEF ReportInv, dedup
<1>2. ASSUME NEW w \in Workers, pc[w] \notin {"off", "exited"}, UNCHANGED main,
             \A i \in DOMAIN findings' : OfJob(findings'[i]) \/ OfIdor(findings'[i])
      PROVE  ReportInv'
  <2>1. phase' \notin Over /\ planned' # 0
    BY <1>2 DEF ReportInv, main
  <2> QED
    BY <1>2, <2>1 DEF ReportInv, Over
<1>3. ASSUME NEW w \in Workers, AppendFinding(w)  PROVE ReportInv'
  <2>1. job[w] \in DOMAIN Jobs
    BY <1>3 DEF AppendFinding, ScanInv, WorkersInv, WorkerOK, Jobless
  <2>2. OfJob(Finding(w))
    BY <2>1 DEF OfJob, Finding, CellOf
  <2>3. findings \in Seq(GoodRecords)
    BY DEF ScanInv, ResultsInv
  <2>4. findings' = Append(findings, Finding(w))
    BY <1>3 DEF AppendFinding
  <2>5. ASSUME NEW i \in DOMAIN findings'  PROVE OfJob(findings'[i]) \/ OfIdor(findings'[i])
    <3>1. (i \in DOMAIN findings /\ findings'[i] = findings[i]) \/ findings'[i] = Finding(w)
      BY <2>3, <2>4
    <3> QED
      BY <2>2, <3>1 DEF ReportInv
  <2> QED
    BY <1>2, <1>3, <2>5 DEF AppendFinding
<1>4. ASSUME NEW w \in Workers, WorkerStep(w) \/ Acquire(w) \/ Deliver(w), UNCHANGED findings  PROVE ReportInv'
  <2>1. pc[w] \notin {"off", "exited"} /\ UNCHANGED main
    BY <1>4
       DEF WorkerStep, Acquire, Deliver, NoMoreJobs, DropJob, StartJob, JobFails, JobAnswered, Detect, Reuse, Verify,
           Attempt, AttemptFails, GiveUp, RepeatAnswered, ControlAnswered, Publish, MarkFinding, AppendFinding
  <2> QED
    BY <1>2, <1>4, <2>1 DEF ReportInv
<1>5. ASSUME NEW w \in Workers, WorkerStep(w)  PROVE AppendFinding(w) \/ UNCHANGED findings
  BY <1>5
     DEF WorkerStep, NoMoreJobs, DropJob, StartJob, JobFails, JobAnswered, Detect, Reuse, Verify, shared,
         Attempt, AttemptFails, GiveUp, RepeatAnswered, ControlAnswered, Publish, MarkFinding
<1>6. ASSUME NEW w \in Workers, Acquire(w) \/ Deliver(w)  PROVE UNCHANGED findings
  BY <1>6 DEF Acquire, Deliver, shared
<1>7. ASSUME NEW total \in 0..Len(Jobs), StartWorkers(total)  PROVE ReportInv'
  <2>1. phase = "crawl" /\ UNCHANGED <<findings, report>> /\ cov = <<>>
    BY <1>7 DEF StartWorkers, OwnInv, Early
  <2>2. \A w \in Workers : pc[w] = "off"
    BY <2>1 DEF ScanInv, PhaseInv
  <2>3. cov' = Seed(cov, Cells) /\ planned' = Lesser(total, MaxJobs)
    BY <1>7 DEF StartWorkers
  <2>4. \A c \in DOMAIN cov' : cov'[c] = "not_attempted"
    BY <2>1, <2>3 DEF Seed
  <2>5. planned' = 0 => total = 0
    BY <2>3, ScanAssumption DEF Lesser
  <2>6. total = 0 => planned' = 0
    BY <2>3, ScanAssumption DEF Lesser
  <2>7. CASE total = 0
    <3>1. phase' = "returning" /\ UNCHANGED pc
      BY <1>7, <2>7 DEF StartWorkers, Enter
    <3> QED
      BY <2>1, <2>2, <2>4, <2>6, <2>7, <3>1 DEF ReportInv
  <2>8. CASE total # 0
    <3>1. phase' = "workers"
      BY <1>7, <2>8 DEF StartWorkers, Enter
    <3> QED
      BY <2>1, <2>5, <2>8, <3>1 DEF ReportInv, Over
  <2> QED
    BY <2>7, <2>8
<1>8. CASE Preflight \/ CrawlFails
  <2>1. planned = 0 /\ UNCHANGED <<pc, planned, cov, findings, report>>
        /\ phase' \in {"crawl", "returning", "failing"}
    BY <1>8 DEF Preflight, CrawlFails, Enter, workers, shared, ScanInv, PhaseInv
  <2> QED
    BY <2>1 DEF ReportInv
<1>9. CASE WorkersDone \/ IdorDone
  <2>1. UNCHANGED <<pc, planned, cov, findings, report>> /\ phase' \in {"idor", "finalizing"}
        /\ \A w \in Workers : pc[w] \in {"off", "exited"}
    BY <1>9 DEF WorkersDone, IdorDone, Enter, workers, shared, ReportInv, Over
  <2>2. planned # 0
    BY <1>9 DEF WorkersDone, IdorDone, ReportInv
  <2> QED
    BY <2>1, <2>2 DEF ReportInv
<1>10. CASE Finalize
  <2>1. UNCHANGED <<pc, planned, cov, findings>> /\ phase' = "returning" /\ report' = dedup(findings)
        /\ phase = "finalizing"
    BY <1>10 DEF Finalize, Enter, workers, shared
  <2>2. dedup(findings') = dedup(findings)
    BY <2>1
  <2> QED
    BY <2>1, <2>2 DEF ReportInv, Over
<1>11. CASE Return
  <2>1. UNCHANGED <<pc, planned, cov, findings, report>> /\ phase \in {"returning", "failing"}
        /\ phase' = IF phase = "failing" THEN "failed" ELSE "returned"
    BY <1>11 DEF Return, Enter, workers, shared
  <2>2. dedup(findings') = dedup(findings)
    BY <2>1
  <2> QED
    BY <2>1, <2>2 DEF ReportInv, Over
<1>12. CASE ScanIDOR
  <2>1. phase = "idor" /\ UNCHANGED <<phase, pc, planned, report>> /\ idor' \in DOMAIN IdorCells
    BY <1>12, JobsAreRecords DEF ScanIDOR, ScanInv, PhaseInv, workers
  <2>2. planned # 0
    BY <2>1 DEF ReportInv
  <2>3. PICK found \in SUBSET IdorCells[idor'] : \E list \in [1..Cardinality(found) -> found] :
          findings' = findings \o
            [i \in DOMAIN list |-> [id |-> list[i], cell |-> list[i], key |-> Unset, status |-> "UNVERIFIED"]]
    BY <1>12 DEF ScanIDOR
  <2>4. PICK list \in [1..Cardinality(found) -> found] :
          findings' = findings \o
            [i \in DOMAIN list |-> [id |-> list[i], cell |-> list[i], key |-> Unset, status |-> "UNVERIFIED"]]
    BY <2>3
  <2>5. found \in SUBSET IdorFindingCells /\ Cardinality(found) \in Nat
    BY <2>1, JobsAreRecords, FS_Subset, FS_CardinalityType DEF IdorFindingCells
  <2>6. PICK more : more =
          [i \in DOMAIN list |-> [id |-> list[i], cell |-> list[i], key |-> Unset, status |-> "UNVERIFIED"]]
    OBVIOUS
  <2>7. more \in Seq(IdorRecords(found)) /\ Len(more) = Cardinality(found)
        /\ \A i \in 1..Len(more) : more[i].id = list[i] /\ more[i].cell = list[i] /\ list[i] \in found
    <3>1. \A i \in 1..Cardinality(found) :
            [id |-> list[i], cell |-> list[i], key |-> Unset, status |-> "UNVERIFIED"]
              \in IdorRecords(found)
      BY DEF IdorRecords
    <3> QED
      BY <2>5, <2>6, <3>1
  <2>8. findings \in Seq(GoodRecords) /\ findings' = findings \o more
    BY <2>4, <2>6 DEF ScanInv, ResultsInv
  <2>9. ASSUME NEW i \in DOMAIN findings'  PROVE OfJob(findings'[i]) \/ OfIdor(findings'[i])
    <3>1. \A k \in 1..Len(more) : OfIdor(more[k])
      BY <2>5, <2>7 DEF OfIdor
    <3>2. i \in 1..(Len(findings) + Len(more)) /\ Len(findings) \in Nat /\ Len(more) \in Nat
      BY <2>7, <2>8
    <3>3. CASE i \in 1..Len(findings)
      BY <2>7, <2>8, <3>3 DEF ReportInv
    <3>4. CASE i \notin 1..Len(findings)
      <4>1. i - Len(findings) \in 1..Len(more)
        BY <3>2, <3>4
      <4>2. findings'[i] = more[i - Len(findings)]
        BY <2>7, <2>8, <3>2, <3>4, <4>1
      <4> QED
        BY <3>1, <4>1, <4>2
    <3> QED
      BY <3>3, <3>4
  <2> QED
    BY <2>1, <2>2, <2>9 DEF ReportInv
<1> QED
  BY <1>1, <1>3, <1>4, <1>5, <1>6, <1>7, <1>8, <1>9, <1>10, <1>11, <1>12
     DEF Next, vars, MainStep, Send, CloseJobs, Adapt, CallerCancels, DeadlinePasses, main, flow, workers, shared

(* Of the findings with one fingerprint dedup keeps the first. *)
LEMMA DedupKeepsCells ==
  ASSUME ScanInv, ReportInv, NEW i \in DOMAIN findings
  PROVE  \E f \in dedup(findings) : f.cell = findings[i].cell
<1> DEFINE Alike == {n \in DOMAIN findings : findings[n].id = findings[i].id}
<1>1. findings \in Seq(GoodRecords)
  BY DEF ScanInv, ResultsInv
<1>2. PICK m \in Alike : \A k \in Alike : m <= k
  <2>1. Alike \in SUBSET Nat /\ i \in Alike
    BY <1>1
  <2> HIDE DEF Alike
  <2> QED
    BY <2>1, Least
<1>3. \A k \in 1..(m - 1) : findings[k].id # findings[m].id
  BY <1>1, <1>2
<1>4. findings[m] \in dedup(findings)
  BY <1>2, <1>3 DEF dedup
<1>5. findings[m].id = findings[i].id /\ m \in DOMAIN findings
  BY <1>2
<1>6. \A j \in DOMAIN Jobs : Jobs[j].id \notin IdorFindingCells
  BY FingerprintAssumption DEF Ids, IdorFindingCells
<1>7. findings[m].cell = findings[i].cell
  BY <1>5, <1>6, FingerprintAssumption DEF ReportInv, OfJob, OfIdor
<1> QED
  BY <1>4, <1>7

(* A cell the snapshot calls verified has a finding in the report, however *)
(* many duplicates there were (scanner.go 391-397, 441 and 448).           *)
THEOREM VerifiedCellsReported == Spec => []VerifiedIsReported
<1>1. ScanInv /\ CovInv /\ ReportInv => VerifiedIsReported
  <2> SUFFICES ASSUME ScanInv, CovInv, ReportInv, phase = "returned",
                      NEW c \in DOMAIN cov, cov[c] = "verified"
               PROVE  \E f \in report : f.cell = c
    BY DEF VerifiedIsReported
  <2>1. planned > 0
    BY DEF ReportInv, ScanInv, PhaseInv
  <2>2. c \in Cells /\ CellOK(c)
    BY <2>1, Unfold DEF Covered, Early
  <2>3. Appending(c) = {}
    BY DEF Appending, ReportInv, Over
  <2>4. "verified" \in Observed(c)
    BY <2>2, <2>3 DEF CellOK, Backed
  <2>5. PICK i \in DOMAIN findings : findings[i].cell = c
    BY <2>4 DEF Observed
  <2>6. report = dedup(findings)
    BY <2>1 DEF ReportInv
  <2> QED
    BY <2>5, <2>6, DedupKeepsCells
<1>2. ScanInv /\ OwnInv /\ CovInv /\ ReportInv /\ [Next]_vars => OwnInv' /\ CovInv' /\ ReportInv'
  BY OwnKept, CovKept, ReportKept
<1> QED
  BY ScanInvariant, OwnInit, ReportInit, <1>1, <1>2, PTL DEF Spec

-----------------------------------------------------------------------------
(* The plan: whatever order the cells are found in, sorting by urgency and *)
(* cutting to the bound leaves the most urgent of the open cells.          *)
OpenIn(m) == {c \in DOMAIN m : m[c] \in {"inconclusive", "not_attempted"}}
CellsOf(s) == {s[i].cell : i \in DOMAIN s}
Urgent(m, s) ==
  /\ CellsOf(s) \subseteq OpenIn(m)
  /\ \A i, j \in DOMAIN s : i < j => ActionBefore(s[i], s[j])
  /\ Cardinality(CellsOf(s)) = Len(s) /\ Len(s) <= DefaultMaxActions
  /\ \/ CellsOf(s) = OpenIn(m)
     \/ /\ Len(s) = DefaultMaxActions
        /\ \A c \in CellsOf(s), d \in OpenIn(m) \ CellsOf(s) :
             /\ priority[m[c]] <= priority[m[d]]
             /\ priority[m[c]] = priority[m[d]] => CellBefore(c, d)

LEMMA CellsFinite == IsFiniteSet(Cells)
<1> DEFINE f == [j \in DOMAIN Jobs |-> Jobs[j].cell]
           g == [e \in DOMAIN IdorCells |-> IdorCells[e]]
           Sets == {IdorCells[e] : e \in DOMAIN IdorCells}
<1>1. IsFiniteSet(DOMAIN Jobs) /\ IsFiniteSet(DOMAIN IdorCells)
  BY JobsAreRecords, FS_Interval
<1>2. f \in Surjection(DOMAIN Jobs, JobCells)
  BY DEF JobCells, Surjection
<1>3. g \in Surjection(DOMAIN IdorCells, Sets)
  BY DEF Surjection
<1>4. IsFiniteSet(JobCells) /\ IsFiniteSet(Sets)
  <2> HIDE DEF f, g, Sets
  <2> QED
    BY <1>1, <1>2, <1>3, FS_Surjection
<1>5. \A T \in Sets : IsFiniteSet(T)
  BY ScanAssumption
<1>6. IsFiniteSet(UNION Sets)
  <2> HIDE DEF Sets
  <2> QED
    BY <1>4, <1>5, FS_UNION
<1> QED
  BY <1>4, <1>6, FS_Union DEF Cells

(* Of two cells one comes first. *)
LEMMA CellsOrdered ==
  ASSUME NEW c \in Cells, NEW d \in Cells, c # d
  PROVE  CellBefore(c, d) \/ CellBefore(d, c)
<1>1. c \in Nat \X Nat \X Nat /\ d \in Nat \X Nat \X Nat
  BY ScanAssumption
<1> QED
  BY <1>1 DEF CellBefore

(* A candidate is an open cell with the priority of its state. *)
LEMMA CandidatesAreOpen ==
  ASSUME NEW m
  PROVE  Candidates(Snapshot(m)) = {[cell |-> c, priority |-> priority[m[c]]] : c \in OpenIn(m)}
<1>1. DOMAIN priority = {"inconclusive", "not_attempted"}
  BY DEF priority
<1>2. {x \in Snapshot(m) : x.state \in DOMAIN priority} = {[cell |-> c, state |-> m[c]] : c \in OpenIn(m)}
  BY <1>1 DEF Snapshot, OpenIn
<1> DEFINE open == {[cell |-> c, state |-> m[c]] : c \in OpenIn(m)}
           all == {[cell |-> c, priority |-> priority[m[c]]] : c \in OpenIn(m)}
<1>3. Candidates(Snapshot(m)) = {[cell |-> e.cell, priority |-> priority[e.state]] : e \in open}
  BY <1>2 DEF Candidates
<1>4. ASSUME NEW e \in open  PROVE [cell |-> e.cell, priority |-> priority[e.state]] \in all
  OBVIOUS
<1>5. ASSUME NEW c \in OpenIn(m)
      PROVE  \E e \in open : [cell |-> e.cell, priority |-> priority[e.state]] = [cell |-> c, priority |-> priority[m[c]]]
  <2>1. [cell |-> c, state |-> m[c]] \in open
    OBVIOUS
  <2> QED
    BY <2>1
<1>6. {[cell |-> e.cell, priority |-> priority[e.state]] : e \in open} = all
  <2> HIDE DEF open
  <2> QED
    BY <1>4, <1>5
<1> QED
  BY <1>3, <1>6

LEMMA CutTakes ==
  ASSUME NEW S, NEW s \in Seq(S), NEW max \in Nat \ {0}
  PROVE  /\ Cut(s, max) \in Seq(S)
         /\ Len(Cut(s, max)) = Lesser(Len(s), max)
         /\ \A i \in 1..Len(Cut(s, max)) : Cut(s, max)[i] = s[i]
BY DEF Cut, Lesser

LEMMA PlanIsUrgent ==
  ASSUME NEW m, DOMAIN m \subseteq Cells, NEW s \in Plan(Snapshot(m), DefaultMaxActions)
  PROVE  Urgent(m, s)
<1> DEFINE max == DefaultMaxActions
           all == Candidates(Snapshot(m))
<1>1. PICK v \in [1..Cardinality(all) -> all] :
        s = Cut(v, max) /\ \A i, j \in DOMAIN v : i < j => v[i] # v[j] /\ ~ ActionBefore(v[j], v[i])
  BY DEF Plan, Sorts
<1>2. all = {[cell |-> c, priority |-> priority[m[c]]] : c \in OpenIn(m)}
  BY CandidatesAreOpen
<1>3. OpenIn(m) \subseteq Cells /\ IsFiniteSet(OpenIn(m))
  BY CellsFinite, FS_Subset DEF OpenIn
<1>4. IsFiniteSet(all)
  <2> DEFINE f == [c \in OpenIn(m) |-> [cell |-> c, priority |-> priority[m[c]]]]
  <2>1. f \in Surjection(OpenIn(m), all)
    BY <1>2 DEF Surjection
  <2> HIDE DEF f, all
  <2> QED
    BY <1>3, <2>1, FS_Surjection
<1>5. PICK n : n = Cardinality(all)
  OBVIOUS
<1>6. v \in [1..n -> all] /\ (\A i, j \in 1..n : i < j => v[i] # v[j] /\ ~ ActionBefore(v[j], v[i]))
  <2> HIDE DEF all
  <2>1. DOMAIN v = 1..n /\ v \in [1..n -> all]
    BY <1>1, <1>5
  <2> QED
    BY <1>1, <2>1
<1>7. /\ n \in Nat /\ v \in Seq(all) /\ Len(v) = n
      /\ \A i, j \in 1..n : v[i] = v[j] => i = j
      /\ \A a \in all : \E i \in 1..n : v[i] = a
  <2> HIDE DEF all
  <2>1. v \in [1..Cardinality(all) -> all] /\ NoTwice(v, Cardinality(all))
    BY <1>5, <1>6 DEF NoTwice
  <2>2. AllOnce(v, Cardinality(all), all)
    BY <1>4, <2>1, ListsAll
  <2> QED
    BY <1>5, <2>2 DEF AllOnce
<1>8. \A c \in OpenIn(m) : priority[m[c]] \in Nat
  BY DEF OpenIn, priority
<1>9. \A i \in 1..n : v[i].cell \in OpenIn(m) /\ v[i].priority = priority[m[v[i].cell]]
                      /\ v[i] = [cell |-> v[i].cell, priority |-> priority[m[v[i].cell]]]
  <2> SUFFICES ASSUME NEW i \in 1..n
               PROVE  /\ v[i].cell \in OpenIn(m) /\ v[i].priority = priority[m[v[i].cell]]
                      /\ v[i] = [cell |-> v[i].cell, priority |-> priority[m[v[i].cell]]]
    OBVIOUS
  <2>1. v[i] \in all
    <3> HIDE DEF all
    <3> QED
      BY <1>6
  <2>2. PICK c \in OpenIn(m) : v[i] = [cell |-> c, priority |-> priority[m[c]]]
    BY <1>2, <2>1
  <2> QED
    BY <2>2
<1>10. \A i, j \in 1..n : i # j => v[i].cell # v[j].cell
  <2> SUFFICES ASSUME NEW i \in 1..n, NEW j \in 1..n, v[i].cell = v[j].cell  PROVE i = j
    OBVIOUS
  <2>1. v[i] = v[j]
    BY <1>9
  <2> HIDE DEF all
  <2> QED
    BY <1>7, <2>1
<1>11. \A i, j \in 1..n : i < j => ActionBefore(v[i], v[j])
  <2> SUFFICES ASSUME NEW i \in 1..n, NEW j \in 1..n, i < j  PROVE ActionBefore(v[i], v[j])
    OBVIOUS
  <2>1. ~ ActionBefore(v[j], v[i])
    BY <1>6
  <2>2. v[i].cell \in Cells /\ v[j].cell \in Cells /\ v[i].cell # v[j].cell
    <3>1. i # j
      BY <1>7 
    <3> QED
      BY <1>3, <1>9, <1>10, <3>1
  <2>3. v[i].priority \in Nat /\ v[j].priority \in Nat
    BY <1>8, <1>9
  <2>4. CellBefore(v[i].cell, v[j].cell) \/ CellBefore(v[j].cell, v[i].cell)
    BY <2>2, CellsOrdered
  <2> QED
    BY <2>1, <2>3, <2>4 DEF ActionBefore
<1>12. max \in Nat \ {0}
  BY ScanAssumption
<1> HIDE DEF all, max
<1>13. PICK k \in 0..n : k = Len(s) /\ k <= max /\ (k = n \/ k = max) /\ DOMAIN s = 1..k
                         /\ \A i \in 1..k : s[i] = v[i]
  <2>1. /\ Cut(v, max) \in Seq(all)
        /\ Len(Cut(v, max)) = Lesser(Len(v), max)
        /\ \A i \in 1..Len(Cut(v, max)) : Cut(v, max)[i] = v[i]
    <3>1. PICK S : S = all
      OBVIOUS
    <3>2. v \in Seq(S)
      BY <1>7, <3>1
    <3> QED
      BY <1>12, <3>1, <3>2, CutTakes
  <2> QED
    BY <1>1, <1>7, <1>12, <2>1 DEF Lesser
<1>14. CellsOf(s) = {v[i].cell : i \in 1..k}
  BY <1>13 DEF CellsOf
<1>15. \A d \in OpenIn(m) : \E j \in 1..n : v[j].cell = d
  <2> SUFFICES ASSUME NEW d \in OpenIn(m)  PROVE \E j \in 1..n : v[j].cell = d
    OBVIOUS
  <2>1. [cell |-> d, priority |-> priority[m[d]]] \in all
    BY <1>2
  <2> QED
    BY <1>7, <2>1
<1>16. CellsOf(s) \subseteq OpenIn(m)
  <2>1. 1..k \subseteq 1..n
    BY <1>7, <1>13
  <2> QED
    BY <1>9, <1>14, <2>1
<1>17. \A i, j \in DOMAIN s : i < j => ActionBefore(s[i], s[j])
  BY <1>7, <1>11, <1>13
<1>18. Cardinality(CellsOf(s)) = Len(s)
  <2> DEFINE h == [i \in 1..k |-> v[i].cell]
  <2>1. h \in Bijection(1..k, CellsOf(s))
    BY <1>7, <1>10, <1>13, <1>14 DEF Bijection, Injection, Surjection, IsInjective
  <2>2. IsFiniteSet(1..k) /\ Cardinality(1..k) = k
    <3>1. k \in Nat
      BY <1>13
    <3> QED
      BY <3>1, FS_Interval
  <2> HIDE DEF h
  <2> QED
    BY <1>13, <2>1, <2>2, FS_Bijection DEF ExistsBijection
<1>19. CASE k = n
  <2>1. CellsOf(s) = OpenIn(m)
    BY <1>14, <1>15, <1>16, <1>19
  <2> QED
    BY <1>13, <1>16, <1>17, <1>18, <2>1, ScanAssumption DEF Urgent, max
<1>20. CASE k = max
  <2>1. ASSUME NEW c \in CellsOf(s), NEW d \in OpenIn(m) \ CellsOf(s)
        PROVE  /\ priority[m[c]] <= priority[m[d]]
               /\ priority[m[c]] = priority[m[d]] => CellBefore(c, d)
    <3>1. PICK i \in 1..k : c = v[i].cell
      BY <1>14
    <3>2. PICK j \in 1..n : d = v[j].cell
      BY <1>15
    <3>3. j \notin 1..k /\ i \in 1..n
      BY <1>7, <1>13, <1>14, <3>2
    <3>4. ActionBefore(v[i], v[j])
      BY <1>11, <1>13, <3>3
    <3>5. v[i].priority = priority[m[c]] /\ v[j].priority = priority[m[d]]
      BY <1>9, <3>1, <3>2, <3>3
    <3>6. priority[m[c]] \in Nat /\ priority[m[d]] \in Nat
      BY <1>8, <1>16
    <3> QED
      BY <3>1, <3>2, <3>4, <3>5, <3>6 DEF ActionBefore
  <2> QED
    BY <1>13, <1>16, <1>17, <1>18, <1>20, <2>1 DEF Urgent, max
<1> QED
  BY <1>13, <1>19, <1>20

(* The plan is made last, when no one marks the tracker any more. *)
PlanInv ==
  actions # <<>> => phase \in {"returning", "returned"} /\ Urgent(cov, actions)

LEMMA PlanKept == ScanInv /\ OwnInv /\ CovInv /\ ReportInv /\ PlanInv /\ [Next]_vars => PlanInv'
<1> SUFFICES ASSUME ScanInv, OwnInv, CovInv, ReportInv, PlanInv, [Next]_vars  PROVE PlanInv'
  OBVIOUS
<1>1. CASE UNCHANGED <<phase, cov, actions>>
  BY <1>1 DEF PlanInv
<1>2. CASE phase \notin {"returning", "returned"} /\ UNCHANGED actions
  BY <1>2 DEF PlanInv
<1>3. ASSUME NEW w \in Workers, WorkerStep(w) \/ Acquire(w) \/ Deliver(w)  PROVE PlanInv'
  <2>1. pc[w] \notin {"off", "exited"} /\ UNCHANGED main
    BY <1>3
       DEF WorkerStep, Acquire, Deliver, NoMoreJobs, DropJob, StartJob, JobFails, JobAnswered, Detect, Reuse, Verify,
           Attempt, AttemptFails, GiveUp, RepeatAnswered, ControlAnswered, Publish, MarkFinding, AppendFinding
  <2>2. phase \notin Over
    BY <2>1 DEF ReportInv
  <2> QED
    BY <1>2, <2>1, <2>2 DEF Over, main
<1>4. ASSUME NEW total \in 0..Len(Jobs), StartWorkers(total)  PROVE PlanInv'
  <2>1. phase = "crawl" /\ cov' = Seed(cov, Cells)
    BY <1>4 DEF StartWorkers
  <2>2. cov = <<>>
    BY <2>1 DEF OwnInv, Early
  <2>3. DOMAIN cov' = Cells
    BY <2>1, <2>2 DEF Seed
  <2>4. CASE total = 0
    <3>1. phase' = "returning" /\ actions' \in Plan(Snapshot(cov'), DefaultMaxActions)
      BY <1>4, <2>4 DEF StartWorkers, Enter, PlanNext
    <3> QED
      BY <2>3, <3>1, PlanIsUrgent DEF PlanInv
  <2>5. CASE total # 0
    <3>1. UNCHANGED actions
      BY <1>4, <2>5 DEF StartWorkers
    <3> QED
      BY <1>2, <2>1, <3>1
  <2> QED
    BY <2>4, <2>5
<1>5. CASE Finalize
  <2>1. phase = "finalizing" /\ phase' = "returning" /\ cov' = cov
        /\ actions' \in Plan(Snapshot(cov), DefaultMaxActions)
    BY <1>5 DEF Finalize, Enter, PlanNext, shared
  <2>2. planned # 0
    BY <2>1 DEF ReportInv
  <2>3. DOMAIN cov = Cells
    BY <2>1, <2>2 DEF CovInv, Early, ScanInv, PhaseInv
  <2> QED
    BY <2>1, <2>3, PlanIsUrgent DEF PlanInv
<1>6. CASE Return
  <2>1. UNCHANGED <<cov, actions>> /\ phase \in {"returning", "failing"}
        /\ phase' = IF phase = "failing" THEN "failed" ELSE "returned"
    BY <1>6 DEF Return, Enter, shared
  <2> QED
    BY <2>1 DEF PlanInv
<1>7. CASE Preflight \/ CrawlFails \/ WorkersDone \/ ScanIDOR \/ IdorDone
  BY <1>2, <1>7 DEF Preflight, CrawlFails, WorkersDone, ScanIDOR, IdorDone
<1> QED
  BY <1>1, <1>3, <1>4, <1>5, <1>6, <1>7
     DEF Next, vars, MainStep, Send, CloseJobs, Adapt, CallerCancels, DeadlinePasses, main, shared

(* However the scan ended, its next actions are the most urgent of the     *)
(* open cells, each once, in the one order of urgency and name, and as     *)
(* many as the bound allows (planner.go 40-84, scanner.go 254-259).        *)
THEOREM PlanIsMostUrgent == Spec => []RecommendsMostUrgent
<1>1. PlanInv => RecommendsMostUrgent
  <2> SUFFICES ASSUME PlanInv, phase = "returned", actions # <<>>  PROVE RecommendsMostUrgent
    BY DEF RecommendsMostUrgent
  <2>1. Urgent(cov, actions)
    BY DEF PlanInv
  <2>2. OpenIn(cov) = Open /\ CellsOf(actions) = Chosen
    BY DEF OpenIn, Open, CellsOf, Chosen
  <2> QED
    BY <2>1, <2>2 DEF Urgent, RecommendsMostUrgent
<1>2. Init => PlanInv
  BY DEF Init, PlanInv
<1>3. ScanInv /\ OwnInv /\ CovInv /\ ReportInv /\ PlanInv /\ [Next]_vars
        => OwnInv' /\ CovInv' /\ ReportInv' /\ PlanInv'
  BY OwnKept, CovKept, ReportKept, PlanKept
<1> QED
  BY ScanInvariant, OwnInit, ReportInit, <1>1, <1>2, <1>3, PTL DEF Spec
=============================================================================
