---------------------------- MODULE HistoryStore ----------------------------
(***************************************************************************)
(* The scan history, pkg/db/store.go: Save calls of several arfa processes *)
(* (and of several goroutines of one process) on one history file.         *)
(*                                                                         *)
(* A member of Savers is one Save call, and its record's scan id.          *)
(* The lock file is O_EXCL-created, then stamped with PID and time; a      *)
(* waiter that finds it reads it, judges it (older than staleLockAge and   *)
(* its process dead?) and only then removes the path, whatever is at the   *)
(* path by then.  A process may crash between any two steps.  Time is      *)
(* abstract: a lock becomes old (aged), a deadline passes (late), and      *)
(* SavedAt is a coarse clock.  The temp file of writeRecordsAtomic is      *)
(* private to its writer, so writing and renaming it is one step, Commit.  *)
(***************************************************************************)
EXTENDS Integers, Sequences, FiniteSets, Lists

CONSTANTS
  Savers,      \* calls of Save
  Pids,        \* operating system processes
  PidOf,       \* the process of each call
  MaxRecords,  \* RetentionPolicy.MaxRecords; 0 for unbounded
  MaxAge,      \* RetentionPolicy.MaxAge; 0 for unbounded
  MaxClock,    \* bound on the clock
  LocksAge,    \* may a lock in use or abandoned outlive staleLockAge?
  NoLock

ASSUME StoreAssumption ==
  /\ PidOf \in [Savers -> Pids]
  /\ MaxRecords \in Nat /\ MaxAge \in Nat /\ MaxClock \in Nat
  /\ LocksAge \in BOOLEAN
  /\ NoLock \notin Savers

VARIABLES
  lock,     \* the lock file: the call that created it, or NoLock
  stamped,  \* calls whose lock file has its body
  aged,     \* calls whose lock was created more than staleLockAge ago
  alive,    \* running processes
  clock, savedAt,
  file,     \* the history on disk
  results,  \* Store.results of each process
  pc,
  late,     \* waiters whose lock deadline has passed
  seen,     \* the lock a waiter has read (NoLock: absent or unreadable)
  draft     \* the records a call is about to write

vars == <<lock, stamped, aged, alive, clock, savedAt, file, results, pc, late, seen, draft>>

PCs == {"idle", "locking", "inspecting", "judging", "removing", "refused", "waiting",
        "stamping", "reading", "writing", "caching", "unlocking", "aborting",
        "saved", "failed", "crashed"}

Ended == {"saved", "failed", "crashed"}

(* A call between the creation and the removal of its lock file. *)
Critical == {"stamping", "reading", "writing", "caching", "unlocking", "aborting"}

-----------------------------------------------------------------------------
(* applyRetention: by age first, then the last MaxRecords. *)

(* Slip: retention keeps one record too many. *)
LastNAndOne(s, n) == IF n = 0 \/ Len(s) <= n THEN s ELSE SubSeq(s, Len(s) - n, Len(s))

LastN(s, n) == IF n = 0 \/ Len(s) <= n THEN s ELSE SubSeq(s, Len(s) - n + 1, Len(s))

Young(r, now) == MaxAge = 0 \/ r.savedAt >= now - MaxAge

Retain(recs, now) ==
  LastN(Sublist(recs, {i \in DOMAIN recs : Young(recs[i], now)}), MaxRecords)

(* The record a call saves. *)
Rec(p) == [id |-> p, savedAt |-> savedAt[p]]

-----------------------------------------------------------------------------
Init ==
  /\ lock = NoLock
  /\ stamped = {} /\ aged = {} /\ late = {}
  /\ alive = Pids
  /\ clock = 0
  /\ savedAt = [p \in Savers |-> 0]
  /\ file = <<>>
  /\ results = [h \in Pids |-> <<>>]
  /\ pc = [p \in Savers |-> "idle"]
  /\ seen = [p \in Savers |-> NoLock]
  /\ draft = [p \in Savers |-> <<>>]

Goto(p, label) == pc' = [pc EXCEPT ![p] = label]

At(p, label) == pc[p] = label /\ PidOf[p] \in alive

(* Open reads the history without the lock, before the process saves. *)
Open(h) ==
  /\ h \in alive
  /\ \A p \in Savers : PidOf[p] = h => pc[p] = "idle"
  /\ results' = [results EXCEPT ![h] = file]
  /\ UNCHANGED <<lock, stamped, aged, alive, clock, savedAt, file, pc, late, seen, draft>>

(* Save takes its id and its SavedAt before it asks for the lock. *)
Begin(p) ==
  /\ At(p, "idle")
  /\ savedAt' = [savedAt EXCEPT ![p] = clock]
  /\ Goto(p, "locking")
  /\ UNCHANGED <<lock, stamped, aged, alive, clock, file, results, late, seen, draft>>

(* Slip: the lock file is opened without O_EXCL. *)
CreateLockShared(p) ==
  /\ At(p, "locking")
  /\ lock' = p
  /\ late' = late \ {p}
  /\ Goto(p, "stamping")
  /\ UNCHANGED <<stamped, aged, alive, clock, savedAt, file, results, seen, draft>>

(* OpenFile with O_EXCL succeeds, finds a lock, or fails otherwise. *)
CreateLock(p) ==
  /\ At(p, "locking")
  /\ lock = NoLock
  /\ lock' = p
  /\ late' = late \ {p}
  /\ Goto(p, "stamping")
  /\ UNCHANGED <<stamped, aged, alive, clock, savedAt, file, results, seen, draft>>

FindLock(p) ==
  /\ At(p, "locking")
  /\ lock # NoLock
  /\ Goto(p, "inspecting")
  /\ UNCHANGED <<lock, stamped, aged, alive, clock, savedAt, file, results, late, seen, draft>>

LockError(p) ==
  /\ At(p, "locking")
  /\ late' = late \ {p}
  /\ Goto(p, "failed")
  /\ UNCHANGED <<lock, stamped, aged, alive, clock, savedAt, file, results, seen, draft>>

(* The body is written through the descriptor, to the file this call made, *)
(* best-effort: a failed write is ignored.                                 *)
Stamp(p) ==
  /\ At(p, "stamping")
  /\ stamped' \in {stamped, stamped \cup {p}}
  /\ Goto(p, "reading")
  /\ UNCHANGED <<lock, aged, alive, clock, savedAt, file, results, late, seen, draft>>

(* Stat and ReadFile of reclaimAbandonedLock, either of which may fail. *)
Inspect(p) ==
  /\ At(p, "inspecting")
  /\ \E found \in {NoLock} \cup ({lock} \cap stamped) : seen' = [seen EXCEPT ![p] = found]
  /\ Goto(p, "judging")
  /\ UNCHANGED <<lock, stamped, aged, alive, clock, savedAt, file, results, late, draft>>

Abandoned(q) == q # NoLock /\ q \in aged /\ PidOf[q] \notin alive

(* Slip: an abandoned lock is never removed. *)
JudgeLenient(p) ==
  /\ At(p, "judging")
  /\ Goto(p, "waiting")
  /\ seen' = [seen EXCEPT ![p] = NoLock]
  /\ UNCHANGED <<lock, stamped, aged, alive, clock, savedAt, file, results, late, draft>>

Judge(p) ==
  /\ At(p, "judging")
  /\ Goto(p, IF Abandoned(seen[p]) THEN "removing" ELSE "waiting")
  /\ seen' = [seen EXCEPT ![p] = NoLock]
  /\ UNCHANGED <<lock, stamped, aged, alive, clock, savedAt, file, results, late, draft>>

(* os.Remove of the path: what is there goes, or stays if that fails. *)
LockGoes ==
  /\ lock' = NoLock
  /\ stamped' = stamped \ {lock}

LockStays ==
  /\ lock # NoLock
  /\ UNCHANGED <<lock, stamped>>

(* "Already gone" counts as removed; a waiter whose removal fails goes on  *)
(* waiting.                                                                *)
RemoveAbandoned(p) ==
  /\ At(p, "removing")
  /\ \/ LockGoes /\ Goto(p, "locking")
     \/ LockStays /\ Goto(p, "refused")
  /\ UNCHANGED <<aged, alive, clock, savedAt, file, results, late, seen, draft>>

(* Slip: the deadline is not looked at. *)
WaitForever(p) ==
  /\ At(p, "waiting") \/ At(p, "refused")
  /\ Goto(p, "locking")
  /\ UNCHANGED <<lock, stamped, aged, alive, clock, savedAt, file, results, late, seen, draft>>

(* Past the deadline the wait ends in an error, else sleep and retry. *)
Wait(p) ==
  /\ At(p, "waiting") \/ At(p, "refused")
  /\ Goto(p, IF p \in late THEN "failed" ELSE "locking")
  /\ late' = late \ {p}
  /\ UNCHANGED <<lock, stamped, aged, alive, clock, savedAt, file, results, seen, draft>>

(* Slip: the record is appended to what the process remembers. *)
ReadFromMemory(p) ==
  /\ At(p, "reading")
  /\ draft' = [draft EXCEPT ![p] = Retain(Append(results[PidOf[p]], Rec(p)), clock)]
  /\ Goto(p, "writing")
  /\ UNCHANGED <<lock, stamped, aged, alive, clock, savedAt, file, results, late, seen>>

Read(p) ==
  /\ At(p, "reading")
  /\ draft' = [draft EXCEPT ![p] = Retain(Append(file, Rec(p)), clock)]
  /\ Goto(p, "writing")
  /\ UNCHANGED <<lock, stamped, aged, alive, clock, savedAt, file, results, late, seen>>

(* The rename of writeRecordsAtomic. *)
Commit(p) ==
  /\ At(p, "writing")
  /\ file' = draft[p]
  /\ Goto(p, "caching")
  /\ UNCHANGED <<lock, stamped, aged, alive, clock, savedAt, results, late, seen, draft>>

(* Slip: Save may still fail after the rename. *)
StoreErrorLate(p) ==
  /\ At(p, "reading") \/ At(p, "writing") \/ At(p, "caching")
  /\ draft' = [draft EXCEPT ![p] = <<>>]
  /\ Goto(p, "aborting")
  /\ UNCHANGED <<lock, stamped, aged, alive, clock, savedAt, file, results, late, seen>>

(* Reading or writing the history fails: Save returns the error through    *)
(* its deferred unlock.                                                    *)
StoreError(p) ==
  /\ At(p, "reading") \/ At(p, "writing")
  /\ draft' = [draft EXCEPT ![p] = <<>>]
  /\ Goto(p, "aborting")
  /\ UNCHANGED <<lock, stamped, aged, alive, clock, savedAt, file, results, late, seen>>

(* Slip: only the own record is added to the memory of the process. *)
UpdateResultsOwn(p) ==
  /\ At(p, "caching")
  /\ results' = [results EXCEPT ![PidOf[p]] = Append(@, Rec(p))]
  /\ draft' = [draft EXCEPT ![p] = <<>>]
  /\ Goto(p, "unlocking")
  /\ UNCHANGED <<lock, stamped, aged, alive, clock, savedAt, file, late, seen>>

UpdateResults(p) ==
  /\ At(p, "caching")
  /\ results' = [results EXCEPT ![PidOf[p]] = draft[p]]
  /\ draft' = [draft EXCEPT ![p] = <<>>]
  /\ Goto(p, "unlocking")
  /\ UNCHANGED <<lock, stamped, aged, alive, clock, savedAt, file, late, seen>>

(* The unlock closure removes the path, whoever's file is there, and does  *)
(* not look at the error: the lock may stay behind.                        *)
Unlock(p) ==
  /\ \/ At(p, "unlocking") /\ Goto(p, "saved")
     \/ At(p, "aborting") /\ Goto(p, "failed")
  /\ LockGoes \/ LockStays
  /\ UNCHANGED <<aged, alive, clock, savedAt, file, results, late, seen, draft>>

-----------------------------------------------------------------------------
(* The environment.                                                        *)

Calls(h) == {p \in Savers : PidOf[p] = h}

(* A process dies with its memory and all its calls, or exits when they    *)
(* have ended.                                                             *)
Crash(h) ==
  /\ h \in alive
  /\ alive' = alive \ {h}
  /\ results' = [results EXCEPT ![h] = <<>>]
  /\ late' = late \ Calls(h)
  /\ seen' = [p \in Savers |-> IF PidOf[p] = h THEN NoLock ELSE seen[p]]
  /\ draft' = [p \in Savers |-> IF PidOf[p] = h THEN <<>> ELSE draft[p]]
  /\ pc' = [p \in Savers |->
              IF PidOf[p] = h /\ pc[p] \notin Ended THEN "crashed" ELSE pc[p]]
  /\ UNCHANGED <<lock, stamped, aged, clock, savedAt, file>>

(* staleLockAge goes by since a call created its lock. *)
LockAges(p) ==
  /\ LocksAge
  /\ lock = p \/ pc[p] \in Critical
  /\ p \notin aged
  /\ aged' = aged \cup {p}
  /\ UNCHANGED <<lock, stamped, alive, clock, savedAt, file, results, pc, late, seen, draft>>

DeadlinePasses(p) ==
  /\ pc[p] \in {"locking", "inspecting", "judging", "removing", "refused", "waiting"}
  /\ p \notin late
  /\ late' = late \cup {p}
  /\ UNCHANGED <<lock, stamped, aged, alive, clock, savedAt, file, results, pc, seen, draft>>

Tick ==
  /\ clock < MaxClock
  /\ clock' = clock + 1
  /\ UNCHANGED <<lock, stamped, aged, alive, savedAt, file, results, pc, late, seen, draft>>

Step(p) ==
  \/ Begin(p) \/ CreateLock(p) \/ FindLock(p) \/ LockError(p) \/ Stamp(p)
  \/ Inspect(p) \/ Judge(p) \/ RemoveAbandoned(p) \/ Wait(p)
  \/ Read(p) \/ Commit(p) \/ StoreError(p) \/ UpdateResults(p) \/ Unlock(p)

Next ==
  \/ \E p \in Savers : Step(p) \/ LockAges(p) \/ DeadlinePasses(p)
  \/ \E h \in Pids : Open(h) \/ Crash(h)
  \/ Tick

Spec == Init /\ [][Next]_vars

(* A call that has begun is scheduled until it returns, and time passes.   *)
Fairness ==
  \A p \in Savers :
    /\ WF_vars(pc[p] # "idle" /\ Step(p))
    /\ WF_vars(DeadlinePasses(p))

FairSpec == Spec /\ Fairness

-----------------------------------------------------------------------------
Records == [id : Savers, savedAt : 0..MaxClock]

TypeOK ==
  /\ lock \in Savers \cup {NoLock}
  /\ stamped \subseteq Savers /\ aged \subseteq Savers /\ late \subseteq Savers
  /\ alive \subseteq Pids
  /\ clock \in 0..MaxClock
  /\ savedAt \in [Savers -> 0..MaxClock]
  /\ file \in Seq(Records)
  /\ results \in [Pids -> Seq(Records)]
  /\ pc \in [Savers -> PCs]
  /\ seen \in [Savers -> Savers \cup {NoLock}]
  /\ draft \in [Savers -> Seq(Records)]
  /\ MaxRecords > 0 => Len(file) <= MaxRecords

(* "exactly one caller ... ever holds the lock at a time" (store.go        *)
(* 328-332): two calls are never both between creating and removing a lock.*)
LockExclusive ==
  \A p, q \in Savers : (pc[p] \in Critical /\ pc[q] \in Critical) => p = q

(* What the lock counts on: "a lock this old is never a legitimately slow  *)
(* in-progress Save" (store.go 73-82), and one waiter at a time is about   *)
(* to remove one.                                                          *)
NoSlowSave == \A q \in aged : pc[q] \notin Critical
Condemns(p) == pc[p] = "removing" \/ (pc[p] = "judging" /\ Abandoned(seen[p]))
OneReclaimer == \A p, q \in Savers : Condemns(p) /\ Condemns(q) => p = q
Calm == NoSlowSave /\ OneReclaimer

(* Concurrent Saves "serialize instead of one silently clobbering          *)
(* another's append" (store.go 225-231): whenever the history changes, the *)
(* new one is the old one with one record appended and retention applied.  *)
SavedOnTop ==
  file' # file =>
    \E p \in Savers, now \in 0..clock : file' = Retain(Append(file, Rec(p)), now)
AppendsOnly == [][SavedOnTop]_vars

(* What a Save leaves in memory is what is on disk: when it is about to    *)
(* release the lock, no goroutine or process has overtaken it.             *)
ResultsCurrent ==
  \A p \in Savers : pc[p] = "unlocking" => results[PidOf[p]] = file

InFile(p) == \E i \in 1..Len(file) : file[i].id = p

(* Calls that may have written the history. *)
Written == {p \in Savers : pc[p] \in {"caching", "unlocking", "saved", "crashed"}}

AgedOut(p) == MaxAge > 0 /\ savedAt[p] < clock - MaxAge

(* MaxRecords others have been written. *)
CrowdedOut(p) ==
  MaxRecords > 0 /\ \E others \in SUBSET (Written \ {p}) : Cardinality(others) = MaxRecords

(* A Save that reported an error left no record behind, and one that       *)
(* reported success did, unless retention removed it.                      *)
OutcomeHonest ==
  \A p \in Savers :
    /\ pc[p] = "failed" => ~InFile(p)
    /\ pc[p] = "saved" => InFile(p) \/ AgedOut(p) \/ CrowdedOut(p)

(* "Retention never drops newer records" (store.go 582-586): no step takes  *)
(* a record out of the history and keeps one that was saved before it.     *)
DropsNoNewer(r) ==
  \A k \in DOMAIN file' : file'[k].savedAt >= r.savedAt
NeverDropsNewer ==
  [][\A i \in DOMAIN file : (\A k \in DOMAIN file' : file'[k] # file[i]) => DropsNoNewer(file[i])]_vars

(* In the order of the file, which is that of the commits: what a Save     *)
(* drops is older than MaxAge, or MaxRecords that were committed after it  *)
(* are kept.                                                               *)
OutlivedBy(p, kept) ==
  \E i \in 1..Len(file) :
    /\ file[i].id = p
    /\ \A j \in 1..i : \A k \in 1..Len(kept) : kept[k] # file[j]
DroppedByPolicy(p) ==
  (InFile(p) /\ ~InFile(p)') =>
    AgedOut(p) \/ (MaxRecords > 0 /\ Len(file') = MaxRecords /\ OutlivedBy(p, file'))
DropsInFileOrder ==
  [][\A p \in Savers : DroppedByPolicy(p)]_vars

(* "lock never blocks forever" (store.go 334-341): every Save that begins  *)
(* ends, in success, in an error or with its process.                      *)
SaveReturns == \A p \in Savers : pc[p] = "locking" ~> pc[p] \in Ended

(* An abandoned lock does not outlive the Save that has read it, unless   *)
(* removing it fails (store.go 378-435).                                   *)
AbandonedReclaimed ==
  \A p \in Savers : \A q \in Savers \ {p} :
    (pc[p] = "judging" /\ seen[p] = q /\ lock = q /\ Abandoned(q))
      ~> (lock # q \/ pc[p] \in {"crashed", "refused"})
=============================================================================
