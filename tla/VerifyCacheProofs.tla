-------------------------- MODULE VerifyCacheProofs --------------------------
(***************************************************************************)
(* Proofs about VerifyCache for any callers, candidates and results:       *)
(* single flight, agreement of all callers with the cache, write-once      *)
(* entries, and the implementation of OnceMap.                             *)
(***************************************************************************)
EXTENDS VerifyCache, TLAPS

(* A call in the calls map belongs to one key, is open and still empty. *)
InFlightInv ==
  \A k \in Keys : calls[k] # NoCall =>
    /\ heap[calls[k]] = [state |-> "open", result |-> Absent]
    /\ m[k] = Absent
    /\ \A l \in Keys : calls[l] = calls[k] => l = k

(* The caller that computes owns its key's call. *)
ComputingInv ==
  \A p \in Callers : pc[p] = "computing" =>
    mine[p] # NoCall /\ calls[KeyOf(p)] = mine[p]

(* The caller that published still owns its call, which holds the result. *)
ClosingInv ==
  \A p \in Callers : pc[p] = "closing" =>
    /\ mine[p] # NoCall
    /\ heap[mine[p]].state = "open"
    /\ heap[mine[p]].result # Absent
    /\ ret[p] # Absent

(* No two callers own the same call. *)
OwnerInv ==
  \A p, q \in Callers :
    (/\ pc[p] \in {"computing", "closing"}
     /\ pc[q] \in {"computing", "closing"}
     /\ mine[p] = mine[q]) => p = q

(* A waiter waits on the call in flight for its key, or on one that was    *)
(* already filled with what the cache now holds.                           *)
WaitingInv ==
  \A p \in Callers : pc[p] = "waiting" =>
    /\ mine[p] # NoCall
    /\ heap[mine[p]].state # "free"
    /\ \/ calls[KeyOf(p)] = mine[p]
       \/ /\ heap[mine[p]].result = m[KeyOf(p)]
          /\ m[KeyOf(p)] # Absent

(* Only an empty call can be allocated; a closed one was filled. *)
HeapInv ==
  \A c \in Calls :
    /\ heap[c].state = "free" => heap[c].result = Absent
    /\ heap[c].state = "closed" => heap[c].result # Absent

IInv ==
  /\ TypeOK
  /\ InFlightInv /\ ComputingInv /\ ClosingInv /\ OwnerInv /\ WaitingInv /\ HeapInv
  /\ CallersAgree

-----------------------------------------------------------------------------
(* Every caller's key is a key of the cache. *)
LEMMA KeyOfType ==
  ASSUME TypeOK
  PROVE  \A p \in Callers : KeyOf(p) \in Keys
BY DEF TypeOK, Keys, KeyOf

(* The key of a caller that keeps its candidate stays the same. *)
LEMMA KeyOfSame ==
  ASSUME cand' = cand
  PROVE  \A p \in Callers : KeyOf(p)' = KeyOf(p)
BY DEF KeyOf

(* An empty cache, an empty heap and idle callers satisfy the invariant. *)
LEMMA InvInit ==
  ASSUME CacheAssumption, Init
  PROVE  IInv
BY DEF CacheAssumption, Init, IInv, TypeOK, CallStructs, InFlightInv, ComputingInv,
       ClosingInv, OwnerInv, WaitingInv, HeapInv, CallersAgree

(* Every step of every caller keeps the invariant. *)
LEMMA InvNext ==
  ASSUME CacheAssumption, IInv, [Next]_vars
  PROVE  IInv'
<1>k. \A p \in Callers : KeyOf(p) \in Keys
  BY KeyOfType DEF IInv
<1>1. ASSUME NEW p \in Callers, NEW c \in Candidates, Request(p, c) PROVE IInv'
  <2>1. \A q \in Callers : q # p => KeyOf(q)' = KeyOf(q)
    BY <1>1 DEF Request, KeyOf, IInv, TypeOK
  <2>2. TypeOK'
    BY <1>1 DEF Request, Goto, IInv, TypeOK
  <2>3. InFlightInv' /\ HeapInv'
    BY <1>1 DEF Request, IInv, InFlightInv, HeapInv
  <2>4. ComputingInv' /\ ClosingInv' /\ OwnerInv' /\ WaitingInv'
    BY <1>1, <2>1 DEF Request, Goto, IInv, TypeOK, ComputingInv, ClosingInv,
                      OwnerInv, WaitingInv
  <2>5. CallersAgree'
    BY <1>1, <2>1 DEF Request, IInv, TypeOK, CallersAgree
  <2> QED
    BY <2>2, <2>3, <2>4, <2>5 DEF IInv
<1>2. ASSUME NEW p \in Callers, Hit(p) PROVE IInv'
  <2>1. \A q \in Callers : KeyOf(q)' = KeyOf(q)
    BY <1>2, KeyOfSame DEF Hit
  <2>2. TypeOK'
    BY <1>2, <1>k DEF Hit, Goto, IInv, TypeOK
  <2>3. InFlightInv' /\ HeapInv'
    BY <1>2 DEF Hit, IInv, InFlightInv, HeapInv
  <2>4. ComputingInv' /\ ClosingInv' /\ OwnerInv' /\ WaitingInv'
    BY <1>2, <2>1 DEF Hit, Goto, IInv, TypeOK, ComputingInv, ClosingInv,
                      OwnerInv, WaitingInv
  <2>5. CallersAgree'
    BY <1>2, <2>1 DEF Hit, IInv, TypeOK, CallersAgree
  <2> QED
    BY <2>2, <2>3, <2>4, <2>5 DEF IInv
<1>3. ASSUME NEW p \in Callers, Join(p) PROVE IInv'
  <2>1. \A q \in Callers : KeyOf(q)' = KeyOf(q)
    BY <1>3, KeyOfSame DEF Join
  <2>2. TypeOK'
    BY <1>3, <1>k DEF Join, Goto, IInv, TypeOK
  <2>3. InFlightInv' /\ HeapInv'
    BY <1>3 DEF Join, IInv, InFlightInv, HeapInv
  <2>4. ComputingInv' /\ ClosingInv' /\ OwnerInv'
    BY <1>3, <2>1 DEF Join, Goto, IInv, TypeOK, ComputingInv, ClosingInv, OwnerInv
  <2>5. WaitingInv'
    BY <1>3, <1>k, <2>1 DEF Join, Goto, IInv, TypeOK, WaitingInv, InFlightInv
  <2>6. CallersAgree'
    BY <1>3, <2>1 DEF Join, IInv, TypeOK, CallersAgree
  <2> QED
    BY <2>2, <2>3, <2>4, <2>5, <2>6 DEF IInv
<1>4. ASSUME NEW p \in Callers, Begin(p) PROVE IInv'
  <2>0. PICK new \in Calls :
          /\ heap[new].state = "free"
          /\ heap' = [heap EXCEPT ![new].state = "open"]
          /\ calls' = [calls EXCEPT ![KeyOf(p)] = new]
          /\ mine' = [mine EXCEPT ![p] = new]
    BY <1>4 DEF Begin
  <2>1. \A q \in Callers : KeyOf(q)' = KeyOf(q)
    BY <1>4, KeyOfSame DEF Begin
  <2>2. /\ heap[new] = [state |-> "free", result |-> Absent]
        /\ heap'[new] = [state |-> "open", result |-> Absent]
        /\ \A c \in Calls : c # new => heap'[c] = heap[c]
    BY <2>0 DEF IInv, TypeOK, CallStructs, HeapInv
  <2>3. TypeOK'
    BY <1>4, <1>k, <2>0 DEF Begin, Goto, IInv, TypeOK, CallStructs
  <2>4. \A k \in Keys : calls[k] # new
    BY <2>0, <2>2 DEF IInv, InFlightInv
  <2>5. InFlightInv'
    BY <1>4, <1>k, <2>0, <2>2, <2>4 DEF Begin, IInv, TypeOK, InFlightInv
  <2>6. HeapInv'
    BY <2>0, <2>2 DEF IInv, HeapInv
  <2>7. \A q \in Callers : pc[q] \in {"computing", "closing", "waiting"} => mine[q] # new
    BY <1>k, <2>0, <2>2, <2>4 DEF IInv, ComputingInv, ClosingInv, WaitingInv
  <2>8. ComputingInv'
    <3> SUFFICES ASSUME NEW q \in Callers, pc'[q] = "computing"
                 PROVE  mine'[q] # NoCall /\ calls'[KeyOf(q)] = mine'[q]
      BY <2>1 DEF ComputingInv
    <3>1. CASE q = p
      BY <1>k, <2>0, <3>1 DEF IInv, TypeOK, CacheAssumption
    <3>2. CASE q # p
      <4>1. pc[q] = "computing" /\ mine'[q] = mine[q]
        BY <1>4, <2>0, <3>2 DEF Begin, Goto, IInv, TypeOK
      <4>2. mine[q] # NoCall /\ calls[KeyOf(q)] = mine[q]
        BY <4>1 DEF IInv, ComputingInv
      <4>3. KeyOf(q) # KeyOf(p)
        BY <1>4, <4>2 DEF Begin
      <4> QED
        BY <1>k, <2>0, <4>1, <4>2, <4>3 DEF IInv, TypeOK
    <3> QED
      BY <3>1, <3>2
  <2>9. ClosingInv'
    BY <1>4, <2>0, <2>2, <2>7 DEF Begin, Goto, IInv, TypeOK, ClosingInv
  <2>10. OwnerInv'
    BY <1>4, <2>0, <2>7 DEF Begin, Goto, IInv, TypeOK, OwnerInv
  <2>11. WaitingInv'
    <3> SUFFICES ASSUME NEW q \in Callers, pc'[q] = "waiting"
                 PROVE  /\ mine'[q] # NoCall
                        /\ heap'[mine'[q]].state # "free"
                        /\ \/ calls'[KeyOf(q)] = mine'[q]
                           \/ /\ heap'[mine'[q]].result = m'[KeyOf(q)]
                              /\ m'[KeyOf(q)] # Absent
      BY <2>1 DEF WaitingInv
    <3>1. pc[q] = "waiting" /\ q # p /\ mine'[q] = mine[q] /\ m' = m
      BY <1>4, <2>0 DEF Begin, Goto, IInv, TypeOK
    <3>2. mine[q] \in Calls /\ mine[q] # new /\ heap'[mine[q]] = heap[mine[q]]
      BY <2>2, <2>7, <3>1 DEF IInv, TypeOK, WaitingInv
    <3>3. calls[KeyOf(q)] = mine[q] => KeyOf(q) # KeyOf(p)
      BY <1>4, <3>1 DEF Begin, IInv, WaitingInv
    <3>4. calls[KeyOf(q)] = mine[q] => calls'[KeyOf(q)] = mine[q]
      BY <1>k, <2>0, <3>3 DEF IInv, TypeOK
    <3> QED
      BY <3>1, <3>2, <3>4 DEF IInv, WaitingInv
  <2>12. CallersAgree'
    BY <1>4, <2>1 DEF Begin, IInv, CallersAgree
  <2> QED
    BY <2>3, <2>5, <2>6, <2>8, <2>9, <2>10, <2>11, <2>12 DEF IInv
<1>5. ASSUME NEW p \in Callers, Publish(p) PROVE IInv'
  <2>0. PICK r \in Outcome[cand[p]] :
          /\ heap' = [heap EXCEPT ![mine[p]].result = r]
          /\ m' = [m EXCEPT ![KeyOf(p)] = r]
          /\ ret' = [ret EXCEPT ![p] = r]
    BY <1>5 DEF Publish
  <2>r. r \in Results /\ r # Absent
    BY <2>0 DEF CacheAssumption, IInv, TypeOK
  <2>1. \A q \in Callers : KeyOf(q)' = KeyOf(q)
    BY <1>5, KeyOfSame DEF Publish
  <2>2. /\ mine[p] \in Calls
        /\ calls[KeyOf(p)] = mine[p]
        /\ heap[mine[p]] = [state |-> "open", result |-> Absent]
        /\ m[KeyOf(p)] = Absent
        /\ \A l \in Keys : calls[l] = mine[p] => l = KeyOf(p)
    BY <1>5, <1>k DEF Publish, IInv, TypeOK, ComputingInv, InFlightInv
  <2>3. /\ heap'[mine[p]] = [state |-> "open", result |-> r]
        /\ \A c \in Calls : c # mine[p] => heap'[c] = heap[c]
    BY <2>0, <2>2 DEF IInv, TypeOK
  <2>4. TypeOK'
    BY <1>5, <1>k, <2>0, <2>r, <2>2 DEF Publish, Goto, IInv, TypeOK, CallStructs
  <2>5. InFlightInv'
    <3> SUFFICES ASSUME NEW k \in Keys, calls'[k] # NoCall
                 PROVE  /\ heap'[calls'[k]] = [state |-> "open", result |-> Absent]
                        /\ m'[k] = Absent
                        /\ \A l \in Keys : calls'[l] = calls'[k] => l = k
      BY DEF InFlightInv
    <3>1. k # KeyOf(p) /\ calls'[k] = calls[k] /\ m'[k] = m[k]
      BY <1>5, <1>k, <2>0 DEF Publish, IInv, TypeOK
    <3>2. calls[k] # mine[p] /\ calls[k] \in Calls
      BY <2>2, <3>1 DEF IInv, TypeOK
    <3>3. \A l \in Keys : calls'[l] = calls[k] => calls[l] = calls[k]
      BY <1>5, <1>k, <3>1 DEF Publish, IInv, TypeOK
    <3> QED
      BY <2>3, <3>1, <3>2, <3>3 DEF IInv, InFlightInv
  <2>6. HeapInv'
    BY <2>r, <2>2, <2>3 DEF IInv, HeapInv
  <2>7. ComputingInv'
    <3> SUFFICES ASSUME NEW q \in Callers, pc'[q] = "computing"
                 PROVE  mine'[q] # NoCall /\ calls'[KeyOf(q)] = mine'[q]
      BY <2>1 DEF ComputingInv
    <3>1. q # p /\ pc[q] = "computing" /\ mine' = mine
      BY <1>5 DEF Publish, Goto, IInv, TypeOK
    <3>2. mine[q] # NoCall /\ calls[KeyOf(q)] = mine[q] /\ mine[q] # mine[p]
      BY <1>5, <3>1 DEF Publish, IInv, ComputingInv, OwnerInv
    <3>3. KeyOf(q) # KeyOf(p)
      BY <2>2, <3>2
    <3> QED
      BY <1>5, <1>k, <3>1, <3>2, <3>3 DEF Publish, IInv, TypeOK
  <2>8. ClosingInv'
    <3> SUFFICES ASSUME NEW q \in Callers, pc'[q] = "closing"
                 PROVE  /\ mine'[q] # NoCall
                        /\ heap'[mine'[q]].state = "open"
                        /\ heap'[mine'[q]].result # Absent
                        /\ ret'[q] # Absent
      BY DEF ClosingInv
    <3>1. CASE q = p
      BY <1>5, <2>0, <2>r, <2>2, <2>3, <3>1 DEF Publish, IInv, TypeOK, CacheAssumption
    <3>2. CASE q # p
      <4>1. pc[q] = "closing" /\ mine' = mine /\ ret'[q] = ret[q]
        BY <1>5, <2>0, <3>2 DEF Publish, Goto, IInv, TypeOK
      <4>2. mine[q] \in Calls /\ mine[q] # mine[p]
        BY <1>5, <3>2, <4>1 DEF Publish, IInv, TypeOK, ClosingInv, OwnerInv
      <4> QED
        BY <2>3, <4>1, <4>2 DEF IInv, ClosingInv
    <3> QED
      BY <3>1, <3>2
  <2>9. OwnerInv'
    BY <1>5 DEF Publish, Goto, IInv, TypeOK, OwnerInv
  <2>10. WaitingInv'
    <3> SUFFICES ASSUME NEW q \in Callers, pc'[q] = "waiting"
                 PROVE  /\ mine'[q] # NoCall
                        /\ heap'[mine'[q]].state # "free"
                        /\ \/ calls'[KeyOf(q)] = mine'[q]
                           \/ /\ heap'[mine'[q]].result = m'[KeyOf(q)]
                              /\ m'[KeyOf(q)] # Absent
      BY <2>1 DEF WaitingInv
    <3>1. pc[q] = "waiting" /\ mine' = mine
      BY <1>5 DEF Publish, Goto, IInv, TypeOK
    <3>2. mine[q] \in Calls /\ heap[mine[q]].state # "free"
      BY <3>1 DEF IInv, TypeOK, WaitingInv
    <3>3. CASE mine[q] = mine[p]
      <4>1. KeyOf(q) = KeyOf(p)
        BY <1>k, <2>2, <3>1, <3>3 DEF IInv, WaitingInv
      <4>2. m'[KeyOf(q)] = r
        BY <1>k, <2>0, <4>1 DEF IInv, TypeOK
      <4> QED
        BY <2>r, <2>3, <3>1, <3>2, <3>3, <4>2 DEF CacheAssumption
    <3>4. CASE mine[q] # mine[p]
      <4>1. heap'[mine[q]] = heap[mine[q]]
        BY <2>3, <3>2, <3>4
      <4>2. KeyOf(q) # KeyOf(p)
        BY <2>2, <3>1, <3>4 DEF IInv, WaitingInv
      <4>3. calls'[KeyOf(q)] = calls[KeyOf(q)] /\ m'[KeyOf(q)] = m[KeyOf(q)]
        BY <1>5, <1>k, <2>0, <4>2 DEF Publish, IInv, TypeOK
      <4> QED
        BY <3>1, <4>1, <4>3 DEF IInv, WaitingInv
    <3> QED
      BY <3>3, <3>4
  <2>11. CallersAgree'
    <3> SUFFICES ASSUME NEW q \in Callers, ret'[q] # Absent
                 PROVE  ret'[q] = m'[KeyOf(q)]
      BY <2>1 DEF CallersAgree
    <3>1. CASE q = p
      BY <1>k, <2>0, <3>1 DEF IInv, TypeOK
    <3>2. CASE q # p
      <4>1. ret'[q] = ret[q]
        BY <2>0, <3>2 DEF IInv, TypeOK
      <4>2. KeyOf(q) # KeyOf(p) /\ ret[q] = m[KeyOf(q)]
        BY <2>2, <4>1 DEF IInv, CallersAgree
      <4> QED
        BY <1>k, <2>0, <4>1, <4>2 DEF IInv, TypeOK
    <3> QED
      BY <3>1, <3>2
  <2> QED
    BY <2>4, <2>5, <2>6, <2>7, <2>8, <2>9, <2>10, <2>11 DEF IInv
<1>6. ASSUME NEW p \in Callers, Close(p) PROVE IInv'
  <2>1. \A q \in Callers : KeyOf(q)' = KeyOf(q)
    BY <1>6, KeyOfSame DEF Close
  <2>2. mine[p] \in Calls /\ heap[mine[p]].result # Absent
    BY <1>6 DEF Close, IInv, TypeOK, ClosingInv
  <2>3. /\ heap'[mine[p]].state = "closed"
        /\ heap'[mine[p]].result = heap[mine[p]].result
        /\ \A c \in Calls : c # mine[p] => heap'[c] = heap[c]
    BY <1>6, <2>2 DEF Close, IInv, TypeOK, CallStructs
  <2>4. TypeOK'
    BY <1>6, <2>2 DEF Close, Goto, IInv, TypeOK, CallStructs
  <2>5. InFlightInv'
    BY <1>6, <2>2, <2>3 DEF Close, IInv, TypeOK, InFlightInv
  <2>6. HeapInv'
    BY <2>2, <2>3 DEF IInv, HeapInv
  <2>7. ComputingInv'
    BY <1>6, <2>1 DEF Close, Goto, IInv, TypeOK, ComputingInv
  <2>8. ClosingInv'
    BY <1>6, <2>2, <2>3 DEF Close, Goto, IInv, TypeOK, ClosingInv, OwnerInv
  <2>9. OwnerInv'
    BY <1>6 DEF Close, Goto, IInv, TypeOK, OwnerInv
  <2>10. WaitingInv'
    BY <1>6, <2>1, <2>2, <2>3 DEF Close, Goto, IInv, TypeOK, WaitingInv
  <2>11. CallersAgree'
    BY <1>6, <2>1 DEF Close, IInv, CallersAgree
  <2> QED
    BY <2>4, <2>5, <2>6, <2>7, <2>8, <2>9, <2>10, <2>11 DEF IInv
<1>7. ASSUME NEW p \in Callers, Wake(p) PROVE IInv'
  <2>1. \A q \in Callers : KeyOf(q)' = KeyOf(q)
    BY <1>7, KeyOfSame DEF Wake
  <2>2. mine[p] \in Calls /\ heap[mine[p]].result = m[KeyOf(p)]
    BY <1>7, <1>k DEF Wake, IInv, TypeOK, WaitingInv, InFlightInv
  <2>3. TypeOK'
    BY <1>7, <2>2 DEF Wake, Goto, IInv, TypeOK, CallStructs
  <2>4. InFlightInv' /\ HeapInv'
    BY <1>7 DEF Wake, IInv, InFlightInv, HeapInv
  <2>5. ComputingInv' /\ ClosingInv' /\ OwnerInv' /\ WaitingInv'
    BY <1>7, <2>1 DEF Wake, Goto, IInv, TypeOK, ComputingInv, ClosingInv,
                      OwnerInv, WaitingInv
  <2>6. CallersAgree'
    BY <1>7, <2>1, <2>2 DEF Wake, IInv, TypeOK, CallersAgree
  <2> QED
    BY <2>3, <2>4, <2>5, <2>6 DEF IInv
<1>8. CASE UNCHANGED vars
  <2>1. \A q \in Callers : KeyOf(q)' = KeyOf(q)
    BY <1>8, KeyOfSame DEF vars
  <2> QED
    BY <1>8, <2>1 DEF vars, IInv, TypeOK, InFlightInv, ComputingInv, ClosingInv,
                      OwnerInv, WaitingInv, HeapInv, CallersAgree
<1> QED
  BY <1>1, <1>2, <1>3, <1>4, <1>5, <1>6, <1>7, <1>8 DEF Next

(* The inductive invariant holds in every reachable state. *)
LEMMA Invariance ==
  ASSUME CacheAssumption
  PROVE  Spec => []IInv
<1>1. Init => IInv
  BY InvInit
<1>2. IInv /\ [Next]_vars => IInv'
  BY InvNext
<1> QED
  BY <1>1, <1>2, PTL DEF Spec

(* The state of the cache and of its callers is well typed. *)
THEOREM TypeCorrect ==
  ASSUME CacheAssumption
  PROVE  Spec => []TypeOK
<1>1. IInv => TypeOK
  BY DEF IInv
<1> QED
  BY <1>1, Invariance, PTL

(* compute() never runs twice for a key, at once or one after the other    *)
(* (GetOrCompute, cache.go 82-107).                                        *)
THEOREM ComputedOnce ==
  ASSUME CacheAssumption
  PROVE  Spec => []SingleFlight
<1>1. IInv => SingleFlight
  <2> SUFFICES ASSUME IInv, NEW p \in Callers, pc[p] = "computing"
               PROVE  /\ m[KeyOf(p)] = Absent
                      /\ \A q \in Callers :
                           (pc[q] = "computing" /\ KeyOf(q) = KeyOf(p)) => q = p
    BY DEF SingleFlight
  <2>1. calls[KeyOf(p)] = mine[p] /\ mine[p] # NoCall /\ KeyOf(p) \in Keys
    BY KeyOfType DEF IInv, ComputingInv
  <2>2. m[KeyOf(p)] = Absent
    BY <2>1 DEF IInv, InFlightInv
  <2>3. ASSUME NEW q \in Callers, pc[q] = "computing", KeyOf(q) = KeyOf(p)
        PROVE  q = p
    BY <2>1, <2>3 DEF IInv, ComputingInv, OwnerInv
  <2> QED
    BY <2>2, <2>3
<1> QED
  BY <1>1, Invariance, PTL

(* Every caller returns with what the cache holds for its key. *)
THEOREM Agreement ==
  ASSUME CacheAssumption
  PROVE  Spec => []CallersAgree
<1>1. IInv => CallersAgree
  BY DEF IInv
<1> QED
  BY <1>1, Invariance, PTL

(* A cached result is final: only Publish writes it, and only when absent. *)
THEOREM WriteOnce ==
  ASSUME CacheAssumption
  PROVE  Spec => CachedForGood
<1>1. IInv /\ [Next]_vars => [EntriesKept]_vars
  <2> SUFFICES ASSUME IInv, [Next]_vars, NEW k \in Keys, m[k] # Absent
               PROVE  m'[k] = m[k]
    BY DEF EntriesKept
  <2>1. ASSUME NEW p \in Callers, Publish(p) PROVE m'[k] = m[k]
    <3>1. m[KeyOf(p)] = Absent
      BY <2>1, KeyOfType DEF Publish, IInv, ComputingInv, InFlightInv
    <3> QED
      BY <2>1, <3>1 DEF Publish, IInv, TypeOK
  <2>2. ASSUME NEW p \in Callers, NEW c \in Candidates, Request(p, c)
        PROVE  m'[k] = m[k]
    BY <2>2 DEF Request
  <2>3. ASSUME NEW p \in Callers,
               Hit(p) \/ Join(p) \/ Begin(p) \/ Close(p) \/ Wake(p)
        PROVE  m'[k] = m[k]
    BY <2>3 DEF Hit, Join, Begin, Close, Wake
  <2> QED
    BY <2>1, <2>2, <2>3 DEF Next, vars
<1> QED
  BY <1>1, Invariance, PTL DEF Spec, CachedForGood

-----------------------------------------------------------------------------
(* The cache implements the write-once map: Publish settles a key, Hit and *)
(* Wake answer, everything else but Request is invisible to the clients.   *)
LEMMA OnceNext ==
  ASSUME CacheAssumption, IInv, [Next]_vars
  PROVE  [Once!Next]_Once!onceVars
<1> DEFINE asked == [p \in Callers |-> IF Pending(p) THEN KeyOf(p) ELSE Absent]
<1> USE DEF Once!Next, Once!onceVars
<1>k. \A p \in Callers : KeyOf(p) \in Keys /\ KeyOf(p) # Absent
  BY KeyOfType DEF IInv, CacheAssumption
<1>1. ASSUME NEW p \in Callers, NEW c \in Candidates, Request(p, c)
      PROVE  Once!Next
  <2>1. \A q \in Callers : q # p => KeyOf(q)' = KeyOf(q)
    BY <1>1 DEF Request, KeyOf, IInv, TypeOK
  <2>2. KeyOf(p)' = CacheKey(c) /\ CacheKey(c) \in Keys
    BY <1>1 DEF Request, KeyOf, IInv, TypeOK, Keys
  <2>3. asked[p] = Absent /\ asked' = [asked EXCEPT ![p] = CacheKey(c)]
    BY <1>1, <2>1, <2>2 DEF Request, Goto, Pending, IInv, TypeOK
  <2>4. Once!Ask(p, CacheKey(c))
    BY <1>1, <2>3 DEF Request, Once!Ask
  <2> QED
    BY <2>2, <2>4
<1>2. ASSUME NEW p \in Callers, Hit(p) \/ Wake(p) PROVE Once!Next
  <2>1. \A q \in Callers : KeyOf(q)' = KeyOf(q)
    BY <1>2, KeyOfSame DEF Hit, Wake
  <2>2. asked[p] = KeyOf(p) /\ asked' = [asked EXCEPT ![p] = Absent]
    BY <1>2, <2>1 DEF Hit, Wake, Goto, Pending, IInv, TypeOK
  <2>3. m[KeyOf(p)] # Absent /\ ret' = [ret EXCEPT ![p] = m[KeyOf(p)]]
    <3>1. CASE Hit(p)
      BY <3>1 DEF Hit
    <3>2. CASE Wake(p)
      <4>1. calls[KeyOf(p)] # mine[p]
        BY <3>2, <1>k DEF Wake, IInv, WaitingInv, InFlightInv
      <4>2. heap[mine[p]].result = m[KeyOf(p)] /\ m[KeyOf(p)] # Absent
        BY <3>2, <4>1 DEF Wake, IInv, WaitingInv
      <4> QED
        BY <3>2, <4>2 DEF Wake
    <3> QED
      BY <1>2, <3>1, <3>2
  <2>4. Once!Answer(p)
    BY <1>2, <1>k, <2>2, <2>3 DEF Hit, Wake, Once!Answer
  <2> QED
    BY <2>4
<1>3. ASSUME NEW p \in Callers, Publish(p) PROVE Once!Next
  <2>0. PICK r \in Outcome[cand[p]] :
          m' = [m EXCEPT ![KeyOf(p)] = r] /\ ret' = [ret EXCEPT ![p] = r]
    BY <1>3 DEF Publish
  <2>1. \A q \in Callers : KeyOf(q)' = KeyOf(q)
    BY <1>3, KeyOfSame DEF Publish
  <2>2. asked[p] = KeyOf(p) /\ asked' = [asked EXCEPT ![p] = Absent]
    BY <1>3, <2>1 DEF Publish, Goto, Pending, IInv, TypeOK
  <2>3. m[KeyOf(p)] = Absent /\ r \in Results
    BY <1>3, <1>k, <2>0 DEF Publish, IInv, TypeOK, ComputingInv, InFlightInv, CacheAssumption
  <2>4. Once!Settle(p, r)
    BY <1>k, <2>0, <2>2, <2>3 DEF Once!Settle
  <2> QED
    BY <2>3, <2>4
<1>4. ASSUME NEW p \in Callers, Join(p) \/ Begin(p) \/ Close(p)
      PROVE  UNCHANGED Once!onceVars
  <2>1. \A q \in Callers : KeyOf(q)' = KeyOf(q)
    BY <1>4, KeyOfSame DEF Join, Begin, Close
  <2>2. asked' = asked
    BY <1>4, <2>1 DEF Join, Begin, Close, Goto, Pending, IInv, TypeOK
  <2> QED
    BY <1>4, <2>2 DEF Join, Begin, Close
<1>5. CASE UNCHANGED vars
  <2>1. \A q \in Callers : KeyOf(q)' = KeyOf(q)
    BY <1>5, KeyOfSame DEF vars
  <2> QED
    BY <1>5, <2>1 DEF vars, Pending
<1> QED
  BY <1>1, <1>2, <1>3, <1>4, <1>5 DEF Next

(* GetOrCompute, with its two critical sections and its channel, is a      *)
(* write-once map for its callers.                                         *)
THEOREM OnceMapImplemented ==
  ASSUME CacheAssumption
  PROVE  Spec => ImplementsOnceMap
<1>1. Init => Once!Init
  BY DEF Init, Once!Init, Pending
<1>2. IInv /\ [Next]_vars => [Once!Next]_Once!onceVars
  BY OnceNext
<1> QED
  BY <1>1, <1>2, Invariance, PTL DEF Spec, ImplementsOnceMap, Once!Spec
=============================================================================
