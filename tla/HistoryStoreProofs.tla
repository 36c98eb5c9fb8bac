------------------------- MODULE HistoryStoreProofs -------------------------
(***************************************************************************)
(* Proofs about HistoryStore for any number of Saves and processes, with   *)
(* crashes anywhere and locks that are abandoned and reclaimed.  What      *)
(* depends on the lock holds as long as the reclamation is Calm.           *)
(***************************************************************************)
EXTENDS HistoryStore, ListProofs

(* The control part of the type invariant. *)
ControlOK ==
  /\ lock \in Savers \cup {NoLock}
  /\ pc \in [Savers -> PCs]
  /\ clock \in Nat
  /\ draft = [p \in Savers |-> draft[p]]
  /\ savedAt \in [Savers -> Nat]
  /\ aged \subseteq Savers
  /\ seen \in [Savers -> Savers \cup {NoLock}]

(* An old lock stays where it was seen, until the one call that condemns   *)
(* it removes it; and who is inside is alive.                              *)
OldLocksStand ==
  /\ \A p \in Savers : pc[p] \in Critical => PidOf[p] \in alive
  /\ \A p \in Savers : pc[p] = "judging" /\ seen[p] \in aged => lock = seen[p]
  /\ \A p \in Savers : pc[p] = "removing" => lock \in aged /\ PidOf[lock] \notin alive

(* Whoever is inside owns the lock file. *)
HolderOwnsLock == \A p \in Savers : pc[p] \in Critical => lock = p

(* What a call is about to write is the history of now plus its record. *)
DraftCurrent ==
  \A p \in Savers : pc[p] = "writing" =>
    \E now \in 0..clock : draft[p] = Retain(Append(file, Rec(p)), now)

IInv == ControlOK /\ OldLocksStand /\ HolderOwnsLock /\ DraftCurrent

-----------------------------------------------------------------------------
(* The store starts in the invariant. *)
LEMMA InvInit ==
  ASSUME StoreAssumption, Init
  PROVE  IInv
BY DEF StoreAssumption, Init, IInv, ControlOK, OldLocksStand, HolderOwnsLock,
       DraftCurrent, PCs, Critical

(* A step that leaves the history alone, lets the clock only grow, puts    *)
(* nobody into "writing" and touches no draft there keeps them current.    *)
LEMMA DraftKept ==
  ASSUME IInv, UNCHANGED file, clock' \in Nat, clock <= clock',
         \A q \in Savers : pc'[q] = "writing" =>
           pc[q] = "writing" /\ savedAt'[q] = savedAt[q] /\ draft'[q] = draft[q]
  PROVE  DraftCurrent'
<1> SUFFICES ASSUME NEW q \in Savers, pc'[q] = "writing"
             PROVE  \E now \in 0..clock' : draft'[q] = Retain(Append(file', Rec(q)'), now)
  BY DEF DraftCurrent
<1>1. Rec(q)' = Rec(q) /\ pc[q] = "writing"
  BY DEF Rec
<1>2. PICK now \in 0..clock : draft[q] = Retain(Append(file, Rec(q)), now)
  BY <1>1 DEF IInv, DraftCurrent
<1>3. now \in 0..clock'
  BY DEF IInv, ControlOK
<1>4. draft'[q] = Retain(Append(file', Rec(q)'), now)
  BY <1>1, <1>2
<1> QED
  BY <1>3, <1>4

(* Every step from a calm state keeps the invariant; only Commit changes   *)
(* the history.                                                            *)
LEMMA InvNext ==
  ASSUME StoreAssumption, Calm, IInv, [Next]_vars
  PROVE  IInv'
<1> USE DEF PCs
<1>1. ASSUME NEW p \in Savers, Begin(p) PROVE IInv'
  <2>1. ControlOK' /\ OldLocksStand' /\ HolderOwnsLock'
    BY <1>1 DEF Begin, At, Goto, IInv, ControlOK, OldLocksStand, HolderOwnsLock, Critical
  <2>2. DraftCurrent'
    BY <1>1, DraftKept DEF Begin, At, Goto, IInv, ControlOK
  <2> QED
    BY <2>1, <2>2 DEF IInv
<1>2. ASSUME NEW p \in Savers, CreateLock(p) PROVE IInv'
  <2>1. ControlOK' /\ OldLocksStand'
    BY <1>2 DEF CreateLock, At, Goto, IInv, ControlOK, OldLocksStand
  <2>2. HolderOwnsLock'
    BY <1>2 DEF CreateLock, At, Goto, IInv, ControlOK, HolderOwnsLock, Critical, StoreAssumption
  <2>3. DraftCurrent'
    BY <1>2, DraftKept DEF CreateLock, At, Goto, IInv, ControlOK
  <2> QED
    BY <2>1, <2>2, <2>3 DEF IInv
<1>3. ASSUME NEW p \in Savers,
             FindLock(p) \/ LockError(p) \/ Inspect(p) \/ Wait(p) \/ Stamp(p)
      PROVE  IInv'
  <2>1. ControlOK' /\ OldLocksStand' /\ HolderOwnsLock'
    BY <1>3 DEF FindLock, LockError, Inspect, Wait, Stamp, At, Goto, IInv, ControlOK,
                OldLocksStand, HolderOwnsLock, Critical
  <2>2. DraftCurrent'
    BY <1>3, DraftKept DEF FindLock, LockError, Inspect, Wait, Stamp, At, Goto, IInv, ControlOK
  <2> QED
    BY <2>1, <2>2 DEF IInv
<1>4. ASSUME NEW p \in Savers, Judge(p) PROVE IInv'
  <2>1. ControlOK' /\ HolderOwnsLock'
    BY <1>4 DEF Judge, At, Goto, IInv, ControlOK, HolderOwnsLock, Critical
  <2>2. OldLocksStand'
    <3>1. Abandoned(seen[p]) => lock \in aged /\ PidOf[lock] \notin alive
      BY <1>4 DEF Judge, At, Abandoned, IInv, OldLocksStand
    <3>2. NoLock \notin aged
      BY DEF IInv, ControlOK, StoreAssumption
    <3> QED
      BY <1>4, <3>1, <3>2 DEF Judge, At, Goto, IInv, ControlOK, OldLocksStand, Critical
  <2>3. DraftCurrent'
    BY <1>4, DraftKept DEF Judge, At, Goto, IInv, ControlOK
  <2> QED
    BY <2>1, <2>2, <2>3 DEF IInv
<1>5. ASSUME NEW p \in Savers, RemoveAbandoned(p) PROVE IInv'
  <2>1. lock \in aged /\ PidOf[lock] \notin alive /\ Condemns(p)
    BY <1>5 DEF RemoveAbandoned, At, IInv, OldLocksStand, Condemns
  <2>2. \A q \in Savers : pc[q] \notin Critical
    BY <2>1 DEF IInv, HolderOwnsLock, OldLocksStand
  <2>3. \A q \in Savers : pc[q] = "judging" => seen[q] \notin aged
    <3> SUFFICES ASSUME NEW q \in Savers, pc[q] = "judging", seen[q] \in aged  PROVE FALSE
      OBVIOUS
    <3>1. Condemns(q)
      BY <2>1 DEF Condemns, Abandoned, IInv, ControlOK, OldLocksStand, StoreAssumption
    <3> QED
      BY <1>5, <2>1, <3>1 DEF Calm, OneReclaimer, RemoveAbandoned, At
  <2>4. \A q \in Savers : pc[q] = "removing" => q = p
    BY <2>1 DEF Calm, OneReclaimer, Condemns
  <2>5. ControlOK' /\ HolderOwnsLock'
    <3>1. lock' \in {NoLock, lock} /\ \E label \in PCs \ Critical : Goto(p, label)
      BY <1>5 DEF RemoveAbandoned, LockGoes, LockStays, Critical
    <3>2. UNCHANGED <<clock, draft, savedAt, aged, seen>>
      BY <1>5 DEF RemoveAbandoned
    <3> QED
      BY <2>2, <3>1, <3>2 DEF Goto, IInv, ControlOK, HolderOwnsLock
  <2>6. OldLocksStand'
    BY <1>5, <2>2, <2>3, <2>4 DEF RemoveAbandoned, At, Goto, IInv, ControlOK, OldLocksStand, Critical
  <2>7. DraftCurrent'
    BY <1>5, DraftKept DEF RemoveAbandoned, At, Goto, IInv, ControlOK
  <2> QED
    BY <2>5, <2>6, <2>7 DEF IInv
<1>6. ASSUME NEW p \in Savers, Read(p) PROVE IInv'
  <2>1. ControlOK' /\ OldLocksStand' /\ HolderOwnsLock'
    BY <1>6 DEF Read, At, Goto, IInv, ControlOK, OldLocksStand, HolderOwnsLock, Critical
  <2>2. DraftCurrent'
    <3> SUFFICES ASSUME NEW q \in Savers, pc'[q] = "writing"
                 PROVE  \E now \in 0..clock' :
                          draft'[q] = Retain(Append(file', Rec(q)'), now)
      BY DEF DraftCurrent
    <3>1. Rec(q)' = Rec(q) /\ file' = file /\ clock' = clock
      BY <1>6 DEF Read, Rec
    <3>2. CASE q = p
      <4>1. draft'[p] = Retain(Append(file, Rec(p)), clock) /\ clock \in 0..clock
        BY <1>6 DEF Read, IInv, ControlOK
      <4> QED
        BY <3>1, <3>2, <4>1
    <3>3. CASE q # p
      <4>1. pc[q] = "writing" /\ draft'[q] = draft[q]
        BY <1>6, <3>3 DEF Read, Goto, IInv, ControlOK
      <4> QED
        BY <3>1, <4>1 DEF IInv, DraftCurrent
    <3> QED
      BY <3>2, <3>3
  <2> QED
    BY <2>1, <2>2 DEF IInv
<1>7. ASSUME NEW p \in Savers, Commit(p) PROVE IInv'
  <2>1. ControlOK' /\ OldLocksStand' /\ HolderOwnsLock'
    BY <1>7 DEF Commit, At, Goto, IInv, ControlOK, OldLocksStand, HolderOwnsLock, Critical
  <2>2. \A q \in Savers : pc'[q] # "writing"
    BY <1>7 DEF Commit, At, Goto, IInv, ControlOK, HolderOwnsLock, Critical
  <2> QED
    BY <2>1, <2>2 DEF IInv, DraftCurrent
<1>8. ASSUME NEW p \in Savers, StoreError(p) \/ UpdateResults(p) PROVE IInv'
  <2>1. ControlOK' /\ OldLocksStand' /\ HolderOwnsLock'
    BY <1>8 DEF StoreError, UpdateResults, At, Goto, IInv, ControlOK, OldLocksStand,
                HolderOwnsLock, Critical
  <2>2. DraftCurrent'
    BY <1>8, DraftKept DEF StoreError, UpdateResults, At, Goto, IInv, ControlOK
  <2> QED
    BY <2>1, <2>2 DEF IInv
<1>9. ASSUME NEW p \in Savers, Unlock(p) PROVE IInv'
  <2>0. lock = p /\ p \notin aged
    BY <1>9 DEF Unlock, At, IInv, HolderOwnsLock, Critical, Calm, NoSlowSave
  <2>1. ControlOK' /\ OldLocksStand'
    <3>1. ControlOK'
      <4>1. lock' \in {NoLock, lock} /\ \E label \in PCs : Goto(p, label)
        BY <1>9 DEF Unlock, LockGoes, LockStays
      <4>2. UNCHANGED <<clock, draft, savedAt, aged, seen>>
        BY <1>9 DEF Unlock
      <4> QED
        BY <4>1, <4>2 DEF Goto, IInv, ControlOK
    <3>2. \A q \in Savers : pc'[q] \in Critical \cup {"judging", "removing"} => pc'[q] = pc[q]
      BY <1>9 DEF Unlock, At, Goto, IInv, ControlOK, Critical
    <3> QED
      BY <1>9, <2>0, <3>1, <3>2 DEF Unlock, IInv, OldLocksStand
  <2>2. HolderOwnsLock'
    BY <1>9 DEF Unlock, At, Goto, IInv, ControlOK, HolderOwnsLock, Critical
  <2>3. DraftCurrent'
    BY <1>9, DraftKept DEF Unlock, At, Goto, IInv, ControlOK
  <2> QED
    BY <2>1, <2>2, <2>3 DEF IInv
<1>10. ASSUME NEW h \in Pids, Crash(h) PROVE IInv'
  <2>1. ControlOK' /\ OldLocksStand' /\ HolderOwnsLock'
    <3>1. ControlOK'
      BY <1>10 DEF Crash, IInv, ControlOK
    <3>2. \A q \in Savers : pc'[q] \in Critical \cup {"judging", "removing"} => pc'[q] = pc[q] /\ PidOf[q] # h
      BY <1>10 DEF Crash, IInv, ControlOK, Critical, Ended
    <3> QED
      BY <1>10, <3>1, <3>2 DEF Crash, IInv, OldLocksStand, HolderOwnsLock
  <2>2. DraftCurrent'
    BY <1>10, DraftKept DEF Crash, IInv, ControlOK, Ended
  <2> QED
    BY <2>1, <2>2 DEF IInv
<1>11. ASSUME NEW p \in Savers, DeadlinePasses(p) PROVE IInv'
  <2>1. ControlOK' /\ OldLocksStand' /\ HolderOwnsLock'
    BY <1>11 DEF DeadlinePasses, IInv, ControlOK, OldLocksStand, HolderOwnsLock
  <2>2. DraftCurrent'
    BY <1>11, DraftKept DEF DeadlinePasses, IInv, ControlOK
  <2> QED
    BY <2>1, <2>2 DEF IInv
<1>12. ASSUME NEW h \in Pids, Open(h) PROVE IInv'
  <2>1. ControlOK' /\ OldLocksStand' /\ HolderOwnsLock'
    BY <1>12 DEF Open, IInv, ControlOK, OldLocksStand, HolderOwnsLock
  <2>2. DraftCurrent'
    BY <1>12, DraftKept DEF Open, IInv, ControlOK
  <2> QED
    BY <2>1, <2>2 DEF IInv
<1>13. CASE Tick
  <2>1. ControlOK' /\ OldLocksStand' /\ HolderOwnsLock'
    BY <1>13 DEF Tick, IInv, ControlOK, OldLocksStand, HolderOwnsLock
  <2>2. DraftCurrent'
    BY <1>13, DraftKept DEF Tick, IInv, ControlOK
  <2> QED
    BY <2>1, <2>2 DEF IInv
<1>14. CASE UNCHANGED vars
  <2>1. ControlOK' /\ OldLocksStand' /\ HolderOwnsLock'
    BY <1>14 DEF vars, IInv, ControlOK, OldLocksStand, HolderOwnsLock
  <2>2. DraftCurrent'
    BY <1>14, DraftKept DEF vars, IInv, ControlOK
  <2> QED
    BY <2>1, <2>2 DEF IInv
<1>15. ASSUME NEW p \in Savers, LockAges(p) PROVE IInv'
  <2>1. lock = p
    BY <1>15 DEF LockAges, IInv, HolderOwnsLock
  <2>2. ControlOK' /\ OldLocksStand' /\ HolderOwnsLock'
    BY <1>15, <2>1 DEF LockAges, IInv, ControlOK, OldLocksStand, HolderOwnsLock
  <2>3. DraftCurrent'
    BY <1>15, DraftKept DEF LockAges, IInv, ControlOK
  <2> QED
    BY <2>2, <2>3 DEF IInv
<1> QED
  BY <1>1, <1>2, <1>3, <1>4, <1>5, <1>6, <1>7, <1>8, <1>9, <1>10, <1>11, <1>12, <1>13, <1>14, <1>15
     DEF Next, Step

(* The inductive invariant holds as long as the reclamation is calm.       *)
LEMMA Invariance ==
  ASSUME StoreAssumption
  PROVE  Spec /\ []Calm => []IInv
<1>1. Init => IInv
  BY InvInit
<1>2. Calm /\ IInv /\ [Next]_vars => IInv'
  BY InvNext
<1> QED
  BY <1>1, <1>2, PTL DEF Spec

(* As long as the reclamation is calm the lock file excludes, whatever      *)
(* processes crash and wherever, and whoever reclaims their locks (lock and *)
(* reclaimAbandonedLock, store.go 343-435).                                 *)
THEOREM LockExcludes ==
  ASSUME StoreAssumption
  PROVE  Spec /\ []Calm => []LockExclusive
<1>1. IInv => LockExclusive
  BY DEF IInv, HolderOwnsLock, LockExclusive
<1> QED
  BY <1>1, Invariance, PTL

(* Under the same premise every change of the history is one append to the *)
(* history it replaces, under retention (Save, store.go 235-263).          *)
THEOREM NoLostAppend ==
  ASSUME StoreAssumption
  PROVE  Spec /\ []Calm => AppendsOnly
<1>1. IInv /\ [Next]_vars => [SavedOnTop]_vars
  <2> SUFFICES ASSUME IInv, [Next]_vars, file' # file
               PROVE  \E p \in Savers, now \in 0..clock :
                        file' = Retain(Append(file, Rec(p)), now)
    BY DEF SavedOnTop
  <2>1. PICK p \in Savers : Commit(p)
    BY DEF Next, Step, vars, Begin, CreateLock, FindLock, LockError, Stamp, Inspect,
           Judge, RemoveAbandoned, Wait, Read, StoreError, UpdateResults, Unlock,
           LockAges, DeadlinePasses, Open, Crash, Tick
  <2>2. file' = draft[p] /\ pc[p] = "writing"
    BY <2>1 DEF Commit, At
  <2> QED
    BY <2>2 DEF IInv, DraftCurrent
<1> QED
  BY <1>1, Invariance, PTL DEF Spec, AppendsOnly

(* After the rename, what the call wrote is the history; once cached, so   *)
(* is what its process remembers.                                          *)
MemoryInv ==
  /\ DOMAIN results = Pids
  /\ \A p \in Savers : pc[p] = "caching" => draft[p] = file
  /\ \A p \in Savers : pc[p] = "unlocking" => results[PidOf[p]] = file

LEMMA MemoryNext ==
  ASSUME StoreAssumption, IInv, MemoryInv, [Next]_vars
  PROVE  MemoryInv'
<1>1. ASSUME file' = file, DOMAIN results' = Pids,
             \A q \in Savers : pc'[q] \in {"caching", "unlocking"} =>
               /\ pc'[q] = pc[q]
               /\ draft'[q] = draft[q] /\ results'[PidOf[q]] = results[PidOf[q]]
      PROVE  MemoryInv'
  BY <1>1 DEF MemoryInv
<1>2. ASSUME NEW p \in Savers,
             \/ Begin(p) \/ CreateLock(p) \/ FindLock(p) \/ LockError(p) \/ Stamp(p) \/ Inspect(p)
             \/ Judge(p) \/ RemoveAbandoned(p) \/ Wait(p) \/ StoreError(p) \/ Unlock(p)
      PROVE  MemoryInv'
  <2>1. \E label \in PCs \ {"caching", "unlocking"} : Goto(p, label)
    BY <1>2 DEF Begin, CreateLock, FindLock, LockError, Stamp, Inspect, Judge, RemoveAbandoned, Wait,
                StoreError, Unlock, PCs
  <2>2. UNCHANGED <<file, results>> /\ draft' \in {draft, [draft EXCEPT ![p] = <<>>]}
    BY <1>2 DEF Begin, CreateLock, FindLock, LockError, Stamp, Inspect, Judge, RemoveAbandoned, Wait,
                StoreError, Unlock
  <2>3. \A q \in Savers : pc'[q] \in {"caching", "unlocking"} => q # p /\ pc'[q] = pc[q]
    BY <2>1 DEF Goto, IInv, ControlOK
  <2>4. \A q \in Savers \ {p} : draft'[q] = draft[q]
    BY <2>2 DEF IInv, ControlOK
  <2> QED
    BY <1>1, <2>2, <2>3, <2>4 DEF MemoryInv
<1>3. ASSUME NEW p \in Savers, Read(p) PROVE MemoryInv'
  BY <1>3 DEF Read, Goto, MemoryInv, IInv, ControlOK
<1>4. ASSUME NEW p \in Savers, Commit(p) PROVE MemoryInv'
  <2>1. \A q \in Savers : pc'[q] \in {"caching", "unlocking"} => q = p
    BY <1>4 DEF Commit, At, Goto, IInv, ControlOK, HolderOwnsLock, Critical
  <2> QED
    BY <1>4, <2>1 DEF Commit, Goto, MemoryInv, IInv, ControlOK
<1>5. ASSUME NEW p \in Savers, UpdateResults(p) PROVE MemoryInv'
  <2>1. \A q \in Savers : pc'[q] \in {"caching", "unlocking"} => q = p
    BY <1>5 DEF UpdateResults, At, Goto, IInv, ControlOK, HolderOwnsLock, Critical
  <2>2. draft[p] = file /\ PidOf[p] \in DOMAIN results
    BY <1>5 DEF UpdateResults, At, MemoryInv, StoreAssumption
  <2> QED
    BY <1>5, <2>1, <2>2 DEF UpdateResults, Goto, MemoryInv, IInv, ControlOK
<1>6. ASSUME NEW h \in Pids, Open(h) PROVE MemoryInv'
  BY <1>6 DEF Open, MemoryInv
<1>7. ASSUME NEW h \in Pids, Crash(h) PROVE MemoryInv'
  <2>1. \A q \in Savers : pc'[q] \in {"caching", "unlocking"} => pc'[q] = pc[q] /\ PidOf[q] # h
    BY <1>7 DEF Crash, Ended
  <2>2. /\ \A q \in Savers : PidOf[q] # h => draft'[q] = draft[q]
        /\ \A g \in Pids : g # h => results'[g] = results[g]
        /\ DOMAIN results' = Pids /\ file' = file
    BY <1>7 DEF Crash, MemoryInv
  <2> QED
    BY <1>1, <2>1, <2>2 DEF StoreAssumption
<1>8. ASSUME NEW p \in Savers, DeadlinePasses(p) PROVE MemoryInv'
  BY <1>1, <1>8 DEF DeadlinePasses, MemoryInv
<1>9. ASSUME NEW p \in Savers, LockAges(p) PROVE MemoryInv'
  BY <1>1, <1>9 DEF LockAges, MemoryInv
<1>10. CASE Tick \/ UNCHANGED vars
  BY <1>1, <1>10 DEF Tick, vars, MemoryInv
<1> QED
  BY <1>2, <1>3, <1>4, <1>5, <1>6, <1>7, <1>8, <1>9, <1>10 DEF Next, Step

(* Under the same premise what a Save leaves in the memory of its process  *)
(* is what is on disk when it lets the lock go (Save, store.go 235-263).   *)
THEOREM MemoryIsCurrent ==
  ASSUME StoreAssumption
  PROVE  Spec /\ []Calm => []ResultsCurrent
<1>1. Init => IInv /\ MemoryInv
  BY InvInit DEF Init, MemoryInv
<1>2. Calm /\ IInv /\ MemoryInv /\ [Next]_vars => (IInv /\ MemoryInv)'
  BY InvNext, MemoryNext
<1>3. MemoryInv => ResultsCurrent
  BY DEF MemoryInv, ResultsCurrent
<1> QED
  BY <1>1, <1>2, <1>3, PTL DEF Spec

-----------------------------------------------------------------------------
(* Retention.                                                              *)

(* t is what retention may leave of s: f gives the place each record had,  *)
(* and what has no place any more is old or has MaxRecords behind it.      *)
Retains(f, t, s, now) ==
  /\ Len(t) \in Nat /\ DOMAIN t = 1..Len(t)
  /\ f \in [1..Len(t) -> 1..Len(s)]
  /\ \A k \in 1..Len(t) : t[k] = s[f[k]]
  /\ \A i, j \in 1..Len(t) : i < j => f[i] < f[j]
  /\ \A i \in 1..Len(s) :
       \/ \E k \in 1..Len(t) : f[k] = i
       \/ ~Young(s[i], now)
       \/ MaxRecords > 0 /\ Len(t) = MaxRecords /\ \A k \in 1..Len(t) : i < f[k]

LEMMA RetainRetains ==
  ASSUME StoreAssumption, NEW S, NEW s \in Seq(S), NEW now
  PROVE  /\ Retain(s, now) \in Seq(S)
         /\ MaxRecords > 0 => Len(Retain(s, now)) <= MaxRecords
         /\ \E f : Retains(f, Retain(s, now), s, now)
<1> DEFINE K == {i \in DOMAIN s : Young(s[i], now)}
<1>1. K \in SUBSET (1..Len(s)) /\ Len(s) \in Nat /\ DOMAIN s = 1..Len(s)
  OBVIOUS
<1>2. PICK u : u = Sublist(s, K)
  OBVIOUS
<1>3. u \in Seq(S)
  BY <1>1, <1>2, SublistPicks
<1>4. PICK f : Picks(f, u, s, K)
  BY <1>1, <1>2, SublistPicks
<1>5. /\ Len(u) \in Nat /\ f \in [1..Len(u) -> 1..Len(s)]
      /\ \A k \in 1..Len(u) : u[k] = s[f[k]]
      /\ \A i, j \in 1..Len(u) : i < j => f[i] < f[j]
      /\ \A i \in 1..Len(s) : ~Young(s[i], now) \/ \E k \in 1..Len(u) : f[k] = i
  BY <1>1, <1>4 DEF Picks
<1>6. Retain(s, now) = LastN(u, MaxRecords)
  BY <1>2 DEF Retain
<1>7. MaxRecords \in Nat
  BY DEF StoreAssumption
<1> HIDE DEF K
<1>8. CASE MaxRecords = 0 \/ Len(u) <= MaxRecords
  <2>1. Retain(s, now) = u
    BY <1>6, <1>8 DEF LastN
  <2>2. Retains(f, u, s, now)
    BY <1>3, <1>5 DEF Retains
  <2> QED
    BY <1>3, <1>7, <1>8, <2>1, <2>2
<1>9. CASE MaxRecords # 0 /\ MaxRecords < Len(u)
  <2> DEFINE d == Len(u) - MaxRecords
             g == [k \in 1..MaxRecords |-> f[d + k]]
  <2>1. d \in Nat /\ d >= 1 /\ MaxRecords > 0
    BY <1>5, <1>7, <1>9
  <2>2. PICK t : t = SubSeq(u, d + 1, Len(u))
    OBVIOUS
  <2>3. Retain(s, now) = t
    BY <1>5, <1>6, <1>7, <1>9, <2>2 DEF LastN
  <2>4. t \in Seq(S) /\ Len(t) = MaxRecords /\ \A k \in 1..MaxRecords : t[k] = u[d + k]
    BY <1>3, <1>5, <1>7, <1>9, <2>2
  <2>5. \A k \in 1..MaxRecords : d + k \in 1..Len(u)
    BY <1>5, <1>7, <1>9
  <2>6. g \in [1..MaxRecords -> 1..Len(s)] /\ \A k \in 1..MaxRecords : g[k] = f[d + k]
    BY <1>5, <2>5
  <2>7. \A i, j \in 1..MaxRecords : i < j => g[i] < g[j]
    <3> HIDE DEF g, d
    <3> SUFFICES ASSUME NEW i \in 1..MaxRecords, NEW j \in 1..MaxRecords, i < j  PROVE g[i] < g[j]
      OBVIOUS
    <3>1. d + i < d + j
      BY <1>7, <2>1
    <3>2. d + i \in 1..Len(u) /\ d + j \in 1..Len(u)
      BY <2>5
    <3>3. f[d + i] < f[d + j]
      BY <1>5, <3>1, <3>2
    <3> QED
      BY <2>6, <3>3
  <2>8. ASSUME NEW i \in 1..Len(s), Young(s[i], now)
        PROVE  (\E k \in 1..MaxRecords : g[k] = i) \/ \A k \in 1..MaxRecords : i < g[k]
    <3>1. PICK m \in 1..Len(u) : f[m] = i
      BY <1>5, <2>8
    <3>2. CASE m <= d
      <4>1. \A k \in 1..MaxRecords : m < d + k
        BY <1>5, <1>7, <2>1, <3>2
      <4> HIDE DEF g, d
      <4> QED
        BY <1>5, <2>5, <2>6, <3>1, <4>1
    <3>3. CASE m > d
      <4>1. m - d \in 1..MaxRecords /\ d + (m - d) = m
        BY <1>5, <1>7, <2>1, <3>3
      <4> HIDE DEF g, d
      <4> QED
        BY <2>6, <3>1, <4>1
    <3> QED
      BY <1>5, <2>1, <3>2, <3>3
  <2> HIDE DEF g, d
  <2>9. Retains(g, t, s, now)
    <3>1. DOMAIN t = 1..MaxRecords
      BY <2>4
    <3>2. \A k \in 1..MaxRecords : t[k] = s[g[k]]
      BY <1>5, <2>4, <2>5, <2>6
    <3> QED
      BY <1>7, <2>1, <2>4, <2>6, <2>7, <2>8, <3>1, <3>2 DEF Retains
  <2> QED
    BY <1>7, <2>3, <2>4, <2>9
<1> QED
  BY <1>5, <1>7, <1>8, <1>9

-----------------------------------------------------------------------------
(* Types: what a call is about to write is within the bound, whoever else  *)
(* has the lock.                                                           *)
Bounded(recs) == recs \in Seq(Records) /\ (MaxRecords > 0 => Len(recs) <= MaxRecords)

TypeInv == TypeOK /\ \A p \in Savers : Bounded(draft[p])

LEMMA TypeInit == StoreAssumption /\ Init => TypeInv
BY DEF StoreAssumption, Init, TypeInv, TypeOK, Bounded, PCs

LEMMA TypeNext ==
  ASSUME StoreAssumption, TypeInv, [Next]_vars
  PROVE  TypeInv'
<1> USE DEF PCs
<1>1. ASSUME UNCHANGED <<clock, savedAt, file>>,
             /\ \A p \in Savers : draft'[p] \in {<<>>, draft[p]}
             /\ DOMAIN draft' = Savers
             /\ \A h \in Pids : results'[h] \in {<<>>, results[h]}
             /\ DOMAIN results' = Pids
             /\ results' = [h \in Pids |-> results'[h]] /\ draft' = [p \in Savers |-> draft'[p]]
             /\ lock' \in Savers \cup {NoLock}
             /\ stamped' \subseteq Savers /\ aged' \subseteq Savers /\ late' \subseteq Savers
             /\ alive' \subseteq Pids /\ pc' \in [Savers -> PCs]
             /\ seen' \in [Savers -> Savers \cup {NoLock}]
      PROVE  TypeInv'
  <2>0. <<>> \in Seq(Records) /\ Len(<<>>) = 0
    OBVIOUS
  <2>1. results' \in [Pids -> Seq(Records)] /\ draft' \in [Savers -> Seq(Records)]
    <3>1. \A h \in Pids : results'[h] \in Seq(Records)
      BY <1>1, <2>0, Zenon DEF TypeInv, TypeOK
    <3>2. \A p \in Savers : draft'[p] \in Seq(Records)
      BY <1>1, <2>0, Zenon DEF TypeInv, TypeOK
    <3> QED
      BY <1>1, <3>1, <3>2, Zenon
  <2>2. \A p \in Savers : Bounded(draft'[p])
    <3>1. Bounded(<<>>)
      BY <2>0 DEF Bounded, StoreAssumption
    <3> QED
      BY <1>1, <3>1, Zenon DEF TypeInv
  <2> QED
    BY <1>1, <2>1, <2>2 DEF TypeInv, TypeOK, Bounded
<1>2. ASSUME NEW p \in Savers,
             \/ CreateLock(p) \/ FindLock(p) \/ LockError(p) \/ Stamp(p) \/ Judge(p) \/ RemoveAbandoned(p)
             \/ Wait(p) \/ StoreError(p) \/ Unlock(p) \/ LockAges(p) \/ DeadlinePasses(p)
      PROVE  TypeInv'
  <2>1. \A label \in PCs : Goto(p, label) => pc' \in [Savers -> PCs]
    BY DEF Goto, TypeInv, TypeOK
  <2>2. UNCHANGED <<clock, savedAt, file, results>> /\ draft' \in {draft, [draft EXCEPT ![p] = <<>>]}
    BY <1>2 DEF CreateLock, FindLock, LockError, Stamp, Judge, RemoveAbandoned, Wait, StoreError, Unlock,
                LockAges, DeadlinePasses
  <2>3. pc' \in [Savers -> PCs]
    BY <1>2, <2>1 DEF CreateLock, FindLock, LockError, Stamp, Judge, RemoveAbandoned, Wait, StoreError,
                Unlock, LockAges, DeadlinePasses, TypeInv, TypeOK
  <2>4. /\ lock' \in Savers \cup {NoLock}
        /\ stamped' \subseteq Savers /\ aged' \subseteq Savers /\ late' \subseteq Savers
        /\ alive' \subseteq Pids /\ seen' \in [Savers -> Savers \cup {NoLock}]
    <3>1. lock' \in {lock, p, NoLock} /\ stamped' \subseteq stamped \cup {p}
      BY <1>2 DEF CreateLock, FindLock, LockError, Stamp, Judge, RemoveAbandoned, LockGoes, LockStays,
                  Wait, StoreError, Unlock, LockAges, DeadlinePasses
    <3>2. aged' \subseteq aged \cup {p} /\ late' \subseteq late \cup {p} /\ alive' = alive
      BY <1>2 DEF CreateLock, FindLock, LockError, Stamp, Judge, RemoveAbandoned, Wait, StoreError, Unlock,
                  LockAges, DeadlinePasses
    <3>3. seen' = seen \/ seen' = [seen EXCEPT ![p] = NoLock]
      BY <1>2 DEF CreateLock, FindLock, LockError, Stamp, Judge, RemoveAbandoned, Wait, StoreError, Unlock,
                  LockAges, DeadlinePasses
    <3> QED
      BY <3>1, <3>2, <3>3 DEF TypeInv, TypeOK
  <2> QED
    BY <1>1, <2>2, <2>3, <2>4 DEF TypeInv, TypeOK
<1>3. ASSUME NEW p \in Savers, Inspect(p) PROVE TypeInv'
  BY <1>1, <1>3 DEF Inspect, Goto, TypeInv, TypeOK
<1>4. ASSUME NEW p \in Savers, Begin(p) PROVE TypeInv'
  BY <1>4 DEF Begin, Goto, TypeInv, TypeOK, Bounded
<1>5. ASSUME NEW p \in Savers, Read(p) PROVE TypeInv'
  <2>1. Rec(p) \in Records
    BY DEF Rec, Records, TypeInv, TypeOK
  <2>2. Append(file, Rec(p)) \in Seq(Records)
    BY <2>1 DEF TypeInv, TypeOK
  <2>3. Bounded(Retain(Append(file, Rec(p)), clock))
    BY <2>2, RetainRetains DEF Bounded
  <2> QED
    BY <1>5, <2>3 DEF Read, Goto, TypeInv, TypeOK, Bounded
<1>6. ASSUME NEW p \in Savers, Commit(p) PROVE TypeInv'
  BY <1>6 DEF Commit, Goto, TypeInv, TypeOK, Bounded
<1>7. ASSUME NEW p \in Savers, UpdateResults(p) PROVE TypeInv'
  <2>1. results' \in [Pids -> Seq(Records)]
    BY <1>7 DEF UpdateResults, TypeInv, TypeOK, StoreAssumption
  <2> QED
    BY <1>7, <2>1 DEF UpdateResults, Goto, TypeInv, TypeOK, Bounded, StoreAssumption
<1>8. ASSUME NEW h \in Pids, Open(h) PROVE TypeInv'
  BY <1>8 DEF Open, TypeInv, TypeOK, Bounded
<1>9. ASSUME NEW h \in Pids, Crash(h) PROVE TypeInv'
  BY <1>1, <1>9 DEF Crash, TypeInv, TypeOK
<1>10. CASE Tick
  BY <1>10 DEF Tick, TypeInv, TypeOK, Bounded, StoreAssumption
<1>11. CASE UNCHANGED vars
  BY <1>11 DEF vars, TypeInv, TypeOK, Bounded
<1> QED
  BY <1>2, <1>3, <1>4, <1>5, <1>6, <1>7, <1>8, <1>9, <1>10, <1>11 DEF Next, Step

(* Type correctness, with locks that age and without: in particular the    *)
(* history never holds more than MaxRecords (applyRetention, store.go      *)
(* 598-618).                                                               *)
THEOREM TypeCorrect == Spec => []TypeOK
<1>1. Init => TypeInv
  BY TypeInit, StoreAssumption
<1>2. TypeInv /\ [Next]_vars => TypeInv'
  BY TypeNext, StoreAssumption
<1>3. TypeInv => TypeOK
  BY DEF TypeInv
<1> QED
  BY <1>1, <1>2, <1>3, PTL DEF Spec

-----------------------------------------------------------------------------
(* Outcomes: a record in the history is of a call that wrote it, no call   *)
(* has two, and one that has none any more was dropped for a reason.       *)
Caching == {"caching", "unlocking", "saved"}

RecordsInv ==
  /\ \A i \in DOMAIN file : file[i].id \in Written /\ file[i].savedAt = savedAt[file[i].id]
  /\ \A i, j \in DOMAIN file : file[i].id = file[j].id => i = j
  /\ \A p \in Savers : pc[p] \in Caching => InFile(p) \/ AgedOut(p) \/ CrowdedOut(p)

LEMMA RecordsInit == Init => RecordsInv
BY DEF Init, RecordsInv, Caching

(* A step that leaves the history alone and lets nobody into Caching. *)
LEMMA RecordsKept ==
  ASSUME StoreAssumption, TypeInv, TypeInv', RecordsInv, file' = file, Written \subseteq Written',
         clock <= clock', \A p \in Savers : pc'[p] \in Caching => pc[p] \in Caching,
         \A p \in Written : savedAt'[p] = savedAt[p]
  PROVE  RecordsInv'
<1>1. \A i \in DOMAIN file' : file'[i].id \in Written' /\ file'[i].savedAt = savedAt'[file'[i].id]
  BY DEF RecordsInv
<1>2. \A i, j \in DOMAIN file' : file'[i].id = file'[j].id => i = j
  BY DEF RecordsInv
<1>3. ASSUME NEW p \in Savers, pc'[p] \in Caching
      PROVE  InFile(p)' \/ AgedOut(p)' \/ CrowdedOut(p)'
  <2>1. pc[p] \in Caching /\ p \in Written
    BY <1>3 DEF Written, Caching
  <2>2. InFile(p) => InFile(p)'
    BY DEF InFile
  <2>3. AgedOut(p) => AgedOut(p)'
    <3>1. savedAt'[p] = savedAt[p] /\ savedAt[p] \in Nat /\ clock \in Nat /\ clock' \in Nat /\ MaxAge \in Nat
      BY <2>1 DEF TypeInv, TypeOK, StoreAssumption
    <3> QED
      BY <3>1 DEF AgedOut
  <2>4. CrowdedOut(p) => CrowdedOut(p)'
    BY DEF CrowdedOut
  <2> QED
    BY <2>1, <2>2, <2>3, <2>4 DEF RecordsInv
<1> QED
  BY <1>1, <1>2, <1>3 DEF RecordsInv

(* The records a Commit leaves: places tells where each of them was among  *)
(* the old ones and the new one, whose place is the last.                  *)
Commits(q, recs, places, now) ==
  /\ recs = Append(file, Rec(q)) /\ recs \in Seq(Records)
  /\ Len(recs) = Len(file) + 1 /\ Len(file) \in Nat
  /\ \A i \in 1..Len(file) : recs[i] = file[i]
  /\ recs[Len(recs)] = Rec(q)
  /\ now \in 0..clock
  /\ file' \in Seq(Records)
  /\ Retains(places, file', recs, now)
  /\ \A i \in 1..Len(recs) : recs[i].id \in Written \cup {q} /\ recs[i].savedAt = savedAt[recs[i].id]
  /\ \A i, j \in 1..Len(recs) : recs[i].id = recs[j].id => i = j

LEMMA CommitRetains ==
  ASSUME StoreAssumption, IInv, TypeInv, RecordsInv, NEW q \in Savers, Commit(q)
  PROVE  \E recs, places, now : Commits(q, recs, places, now)
<1>1. file' = draft[q] /\ pc[q] = "writing"
  BY DEF Commit, At
<1>2. PICK now \in 0..clock : file' = Retain(Append(file, Rec(q)), now)
  BY <1>1 DEF IInv, DraftCurrent
<1>3. PICK recs : recs = Append(file, Rec(q))
  OBVIOUS
<1>4. file \in Seq(Records) /\ Rec(q) \in Records
  BY DEF TypeInv, TypeOK, Rec, Records
<1>5. /\ recs \in Seq(Records) /\ Len(recs) = Len(file) + 1 /\ Len(file) \in Nat
      /\ \A i \in 1..Len(file) : recs[i] = file[i]
      /\ recs[Len(recs)] = Rec(q)
  BY <1>3, <1>4
<1>6. file' \in Seq(Records) /\ \E places : Retains(places, file', recs, now)
  BY <1>2, <1>3, <1>5, RetainRetains
<1>7. \A i \in 1..Len(file) : /\ file[i].id \in Written /\ file[i].savedAt = savedAt[file[i].id]
                              /\ \A j \in 1..Len(file) : file[i].id = file[j].id => i = j
  BY <1>4 DEF RecordsInv
<1>8. q \notin Written /\ Rec(q).id = q /\ Rec(q).savedAt = savedAt[q]
  BY <1>1 DEF Written, Rec
<1>9. \A i \in 1..Len(recs) : i \in 1..Len(file) \/ i = Len(recs)
  BY <1>5
<1>10. \A i \in 1..Len(recs) : recs[i].id \in Written \cup {q} /\ recs[i].savedAt = savedAt[recs[i].id]
  BY <1>5, <1>7, <1>8, <1>9
<1>11. \A i, j \in 1..Len(recs) : recs[i].id = recs[j].id => i = j
  BY <1>5, <1>7, <1>8, <1>9
<1>12. PICK places : Retains(places, file', recs, now)
  BY <1>6
<1>13. Commits(q, recs, places, now)
  BY <1>3, <1>5, <1>6, <1>10, <1>11, <1>12 DEF Commits
<1> QED
  BY <1>13

(* A record among recs stays, or is too old, or MaxRecords others stay.    *)
LEMMA CommitDrops ==
  ASSUME StoreAssumption, TypeInv, NEW q \in Savers, Commit(q),
         NEW recs, NEW places, NEW now, Commits(q, recs, places, now), NEW i \in 1..Len(recs)
  PROVE  \/ InFile(recs[i].id)'
         \/ AgedOut(recs[i].id)
         \/ /\ MaxRecords > 0 /\ Len(file') = MaxRecords
            /\ \A k \in 1..Len(file') : i < places[k]
<1>1. CASE \E k \in 1..Len(file') : places[k] = i
  BY <1>1 DEF Commits, Retains, InFile
<1>2. CASE ~Young(recs[i], now)
  <2>1. MaxAge # 0 /\ ~(savedAt[recs[i].id] >= now - MaxAge)
    BY <1>2 DEF Commits, Young
  <2>2. now \in Nat /\ clock \in Nat /\ now <= clock /\ MaxAge \in Nat
    BY DEF Commits, TypeInv, TypeOK, StoreAssumption
  <2>3. savedAt[recs[i].id] \in Nat
    BY DEF Commits, Written, TypeInv, TypeOK
  <2> QED
    BY <2>1, <2>2, <2>3 DEF AgedOut
<1>3. CASE MaxRecords > 0 /\ Len(file') = MaxRecords /\ \A k \in 1..Len(file') : i < places[k]
  BY <1>3
<1> QED
  BY <1>1, <1>2, <1>3 DEF Commits, Retains

LEMMA CommitKeepsRecords ==
  ASSUME StoreAssumption, IInv, TypeInv, RecordsInv, NEW q \in Savers, Commit(q)
  PROVE  RecordsInv'
<1>1. PICK recs, places, now : Commits(q, recs, places, now)
  BY CommitRetains
<1>2. /\ pc[q] = "writing" /\ pc' = [pc EXCEPT ![q] = "caching"]
      /\ UNCHANGED <<clock, savedAt>> /\ pc \in [Savers -> PCs]
  BY DEF Commit, At, Goto, TypeInv, TypeOK
<1>3. Written' = Written \cup {q}
  BY <1>2 DEF Written
<1>4. /\ Len(file') \in Nat /\ DOMAIN file' = 1..Len(file')
      /\ \A k \in 1..Len(file') : places[k] \in 1..Len(recs) /\ file'[k] = recs[places[k]]
      /\ \A i, j \in 1..Len(file') : i < j => places[i] < places[j]
  BY <1>1 DEF Commits, Retains
<1>5. Len(recs) \in Nat /\ \A i \in 1..Len(recs) : recs[i].savedAt = savedAt[recs[i].id]
  BY <1>1 DEF Commits
<1>6. \A k \in DOMAIN file' : file'[k].id \in Written' /\ file'[k].savedAt = savedAt'[file'[k].id]
  BY <1>1, <1>2, <1>3, <1>4 DEF Commits
<1>7. ASSUME NEW i \in 1..Len(file'), NEW j \in 1..Len(file'), file'[i].id = file'[j].id  PROVE i = j
  <2>1. places[i] = places[j]
    <3>1. recs[places[i]].id = recs[places[j]].id /\ places[i] \in 1..Len(recs) /\ places[j] \in 1..Len(recs)
      BY <1>4, <1>7
    <3> QED
      BY <1>1, <3>1 DEF Commits
  <2>2. ~(i < j) /\ ~(j < i)
    BY <1>4, <1>5, <2>1
  <2> QED
    BY <1>4, <2>2
<1>8. ASSUME NEW p \in Savers, NEW i \in 1..Len(recs), recs[i].id = p
      PROVE  InFile(p)' \/ AgedOut(p)' \/ CrowdedOut(p)'
  <2>1. CASE InFile(p)' \/ AgedOut(p)
    BY <1>2, <2>1 DEF AgedOut
  <2>2. CASE /\ MaxRecords > 0 /\ Len(file') = MaxRecords
             /\ \A k \in 1..Len(file') : i < places[k]
    <3> DEFINE name == [k \in 1..Len(file') |-> file'[k].id]
               others == {file'[k].id : k \in 1..Len(file')}
    <3>1. name \in Bijection(1..Len(file'), others)
      <4>1. name \in Injection(1..Len(file'), others)
        BY <1>7 DEF Injection, IsInjective
      <4>2. name \in Surjection(1..Len(file'), others)
        BY DEF Surjection
      <4> QED
        BY <4>1, <4>2 DEF Bijection
    <3>2. IsFiniteSet(1..Len(file')) /\ Cardinality(1..Len(file')) = MaxRecords
      BY <1>4, <2>2, FS_Interval
    <3>3. Cardinality(others) = MaxRecords
      <4> HIDE DEF name, others
      <4> QED
        BY <3>1, <3>2, FS_Bijection DEF ExistsBijection
    <3>4. others \in SUBSET (Written' \ {p})
      <4> SUFFICES ASSUME NEW k \in 1..Len(file')  PROVE file'[k].id \in Written' \ {p}
        OBVIOUS
      <4>1. places[k] # i /\ places[k] \in 1..Len(recs) /\ file'[k] = recs[places[k]]
        BY <1>4, <1>5, <2>2
      <4>2. recs[places[k]].id # p
        BY <1>1, <1>8, <4>1 DEF Commits
      <4> QED
        BY <1>1, <1>3, <4>1, <4>2 DEF Commits
    <3> HIDE DEF others
    <3> QED
      BY <2>2, <3>3, <3>4 DEF CrowdedOut
  <2> QED
    BY <1>1, <1>8, <2>1, <2>2, CommitDrops
<1>9. ASSUME NEW p \in Savers, pc'[p] \in Caching
      PROVE  InFile(p)' \/ AgedOut(p)' \/ CrowdedOut(p)'
  <2>1. CASE p = q
    <3>1. Len(recs) \in 1..Len(recs) /\ recs[Len(recs)].id = p
      BY <1>1, <1>5, <2>1 DEF Commits, Rec
    <3> QED
      BY <1>8, <3>1
  <2>2. CASE p # q
    <3>1. InFile(p) \/ AgedOut(p) \/ CrowdedOut(p)
      BY <1>2, <1>9, <2>2 DEF RecordsInv
    <3>2. CASE InFile(p)
      <4>1. PICK i \in 1..Len(file) : file[i].id = p
        BY <3>2 DEF InFile
      <4>2. i \in 1..Len(recs) /\ recs[i].id = p
        BY <1>1, <4>1 DEF Commits
      <4> QED
        BY <1>8, <4>2
    <3>3. CASE AgedOut(p)
      BY <1>2, <3>3 DEF AgedOut
    <3>4. CASE CrowdedOut(p)
      BY <1>3, <3>4 DEF CrowdedOut
    <3> QED
      BY <3>1, <3>2, <3>3, <3>4
  <2> QED
    BY <2>1, <2>2
<1> QED
  BY <1>4, <1>6, <1>7, <1>9 DEF RecordsInv

LEMMA RecordsNext ==
  ASSUME StoreAssumption, IInv, TypeInv, TypeInv', RecordsInv, [Next]_vars
  PROVE  RecordsInv'
<1>1. ASSUME NEW p \in Savers, Commit(p) PROVE RecordsInv'
  BY <1>1, CommitKeepsRecords
<1>2. ASSUME NEW p \in Savers, Begin(p) PROVE RecordsInv'
  <2>1. UNCHANGED <<file, clock>> /\ p \notin Written
        /\ pc' = [pc EXCEPT ![p] = "locking"] /\ savedAt' = [savedAt EXCEPT ![p] = clock]
    BY <1>2 DEF Begin, At, Goto, Written
  <2>2. pc \in [Savers -> PCs] /\ savedAt \in [Savers -> Nat] /\ clock \in Nat
    BY DEF TypeInv, TypeOK, IInv, ControlOK
  <2>3. /\ Written \subseteq Written' /\ clock <= clock'
        /\ \A q \in Savers : pc'[q] \in Caching => pc[q] \in Caching
        /\ \A q \in Written : savedAt'[q] = savedAt[q]
    BY <2>1, <2>2 DEF Written, Caching
  <2> QED
    BY <2>1, <2>3, RecordsKept
<1>3. ASSUME NEW p \in Savers,
             \/ CreateLock(p) \/ FindLock(p) \/ LockError(p) \/ Stamp(p) \/ Inspect(p) \/ Judge(p)
             \/ RemoveAbandoned(p) \/ Wait(p) \/ Read(p) \/ StoreError(p) \/ UpdateResults(p) \/ Unlock(p)
             \/ LockAges(p) \/ DeadlinePasses(p)
      PROVE  RecordsInv'
  <2>1. UNCHANGED <<file, clock, savedAt>>
    BY <1>3 DEF CreateLock, FindLock, LockError, Stamp, Inspect, Judge, RemoveAbandoned, Wait, Read,
                StoreError, UpdateResults, Unlock, LockAges, DeadlinePasses
  <2>2. pc \in [Savers -> PCs] /\ clock \in Nat
    BY DEF TypeInv, TypeOK, StoreAssumption
  <2>3. Written \subseteq Written' /\ \A q \in Savers : pc'[q] \in Caching => pc[q] \in Caching
    BY <1>3, <2>2
       DEF CreateLock, FindLock, LockError, Stamp, Inspect, Judge, RemoveAbandoned, Wait, Read,
           StoreError, UpdateResults, Unlock, LockAges, DeadlinePasses, At, Goto, Written, Caching
  <2> QED
    BY <2>1, <2>2, <2>3, RecordsKept
<1>4. CASE Tick \/ UNCHANGED vars \/ \E h \in Pids : Open(h) \/ Crash(h)
  <2>1. UNCHANGED <<file, savedAt>> /\ clock' \in {clock, clock + 1}
    BY <1>4 DEF Tick, vars, Open, Crash
  <2>2. pc \in [Savers -> PCs] /\ clock \in Nat
    BY DEF TypeInv, TypeOK, StoreAssumption
  <2>3. Written \subseteq Written' /\ \A q \in Savers : pc'[q] \in Caching => pc[q] \in Caching
    BY <1>4, <2>2 DEF Tick, vars, Open, Crash, Written, Caching, Ended
  <2> QED
    BY <2>1, <2>2, <2>3, RecordsKept
<1> QED
  BY <1>1, <1>2, <1>3, <1>4 DEF Next, Step

LEMMA RecordsInvariance ==
  ASSUME StoreAssumption
  PROVE  Spec /\ []Calm => [](IInv /\ TypeInv /\ RecordsInv)
<1>1. Init => IInv /\ TypeInv /\ RecordsInv
  BY InvInit, TypeInit, RecordsInit
<1>2. Calm /\ IInv /\ TypeInv /\ RecordsInv /\ [Next]_vars => (IInv /\ TypeInv /\ RecordsInv)'
  BY InvNext, TypeNext, RecordsNext
<1> QED
  BY <1>1, <1>2, PTL DEF Spec

(* While the reclamation is calm a Save that failed left no record, and one *)
(* that succeeded did unless the policy took it: it is older than MaxAge or     *)
(* MaxRecords others were written (Save, store.go 235-263).                *)
THEOREM OutcomesAreHonest ==
  ASSUME StoreAssumption
  PROVE  Spec /\ []Calm => []OutcomeHonest
<1>1. RecordsInv => OutcomeHonest
  BY DEF RecordsInv, OutcomeHonest, InFile, Written, Caching
<1> QED
  BY <1>1, RecordsInvariance, PTL

(* Under the same premise whatever a Save drops was too old, or as many as *)
(* MaxRecords records behind it in the file stay, which is the order of    *)
(* the commits and not that of SavedAt (applyRetention, store.go 598-618). *)
THEOREM NothingElseDropped ==
  ASSUME StoreAssumption
  PROVE  Spec /\ []Calm => DropsInFileOrder
<1>1. IInv /\ TypeInv /\ RecordsInv /\ [Next]_vars => [\A p \in Savers : DroppedByPolicy(p)]_vars
  <2> SUFFICES ASSUME IInv, TypeInv, RecordsInv, Next, NEW p \in Savers, InFile(p), ~InFile(p)'
               PROVE  \/ AgedOut(p)
                      \/ MaxRecords > 0 /\ Len(file') = MaxRecords /\ OutlivedBy(p, file')
    BY DEF DroppedByPolicy
  <2>1. file' # file
    BY DEF InFile
  <2>2. PICK q \in Savers : Commit(q)
    BY <2>1 DEF Next, Step, Begin, CreateLock, FindLock, LockError, Stamp, Inspect,
           Judge, RemoveAbandoned, Wait, Read, StoreError, UpdateResults, Unlock,
           LockAges, DeadlinePasses, Open, Crash, Tick
  <2>3. PICK recs, places, now : Commits(q, recs, places, now)
    BY <2>2, CommitRetains
  <2>4. PICK i \in 1..Len(file) : file[i].id = p
    BY DEF InFile
  <2>5. /\ i \in 1..Len(recs) /\ recs[i].id = p /\ i \in Nat
        /\ \A j \in 1..i : j \in 1..Len(file) /\ j \in 1..Len(recs) /\ recs[j] = file[j]
    BY <2>3, <2>4 DEF Commits
  <2>6. CASE /\ MaxRecords > 0 /\ Len(file') = MaxRecords
             /\ \A k \in 1..Len(file') : i < places[k]
    <3>1. ASSUME NEW j \in 1..i, NEW k \in 1..Len(file')  PROVE file'[k] # file[j]
      <4>1. places[k] \in 1..Len(recs) /\ file'[k] = recs[places[k]] /\ Len(recs) \in Nat
        <5>1. places \in [1..Len(file') -> 1..Len(recs)] /\ Len(recs) = Len(file) + 1 /\ Len(file) \in Nat
          BY <2>3 DEF Commits, Retains
        <5>2. \A n \in 1..Len(file') : file'[n] = recs[places[n]]
          BY <2>3 DEF Commits, Retains
        <5>3. places[k] \in 1..Len(recs)
          BY <5>1
        <5> QED
          BY <5>1, <5>2, <5>3
      <4>2. places[k] # j
        BY <2>5, <2>6, <4>1
      <4>3. recs[places[k]].id # recs[j].id
        BY <2>3, <2>5, <4>1, <4>2 DEF Commits
      <4> QED
        BY <2>5, <4>1, <4>3
    <3> QED
      BY <2>4, <2>6, <3>1 DEF OutlivedBy
  <2> QED
    BY <2>2, <2>3, <2>5, <2>6, CommitDrops
<1> QED
  BY <1>1, RecordsInvariance, PTL DEF Spec, DropsInFileOrder
=============================================================================
