----------------------------- MODULE VerifyCache -----------------------------
(***************************************************************************)
(* The per-scan cache of verification results, pkg/verification/cache.go:  *)
(* concurrent callers of GetOrCompute, each with a candidate to verify.    *)
(*                                                                         *)
(* A critical section under Cache.mu is one step.  compute() runs without  *)
(* the lock; its duration is the pc "computing", and its result stays in a *)
(* local variable until the second critical section, so the return of      *)
(* compute and that section are one step, Publish.  close(cl.done) comes   *)
(* after the unlock and is a step of its own.  call structs are members of *)
(* Calls: a caller keeps its pointer after the map entry is deleted.       *)
(***************************************************************************)
EXTENDS FiniteSets

CONSTANTS
  Callers,     \* goroutines that call GetOrCompute
  Candidates,  \* what they verify: category, endpoint, method, parameter, payload
  Results,     \* the verification results
  Outcome,     \* Outcome[c]: the results Verify may reach for candidate c
  Calls,       \* addresses of call structs
  Hung,        \* candidates whose verification is not assumed to return
  Absent,      \* no cached entry, no result yet
  NoCall       \* no entry in Cache.calls

(* Slip: a key without the payload. *)
CacheKeyNoPayload(c) == <<c.category, c.endpoint, c.parameter>>

(* The key names everything of a candidate but its HTTP method.  (The code *)
(* joins the four by "|"; a tuple stands for the string, on the premise    *)
(* that no "|" moves between its parts.)                                   *)
CacheKey(c) == <<c.category, c.endpoint, c.parameter, c.payload>>

Keys == {CacheKey(c) : c \in Candidates}

ASSUME CacheAssumption ==
  /\ Outcome \in [Candidates -> SUBSET Results]
  /\ Hung \subseteq Candidates
  /\ Absent \notin Results
  /\ Absent \notin Keys
  /\ NoCall \notin Calls

VARIABLES
  m,        \* Cache.m: the published results
  calls,    \* Cache.calls: the computation in flight for a key
  heap,     \* the call structs
  pc, cand, \* where each caller is, and with which candidate
  mine,     \* the call struct a caller created or waits on
  ret       \* what its last GetOrCompute returned

vars == <<m, calls, heap, pc, cand, mine, ret>>

CallStructs == [state : {"free", "open", "closed"}, result : Results \cup {Absent}]

KeyOf(p) == CacheKey(cand[p])

-----------------------------------------------------------------------------
Init ==
  /\ m = [k \in Keys |-> Absent]
  /\ calls = [k \in Keys |-> NoCall]
  /\ heap = [c \in Calls |-> [state |-> "free", result |-> Absent]]
  /\ pc = [p \in Callers |-> "idle"]
  /\ cand \in [Callers -> Candidates]
  /\ mine = [p \in Callers |-> NoCall]
  /\ ret = [p \in Callers |-> Absent]

Goto(p, label) == pc' = [pc EXCEPT ![p] = label]

(* A detector reported a finding for candidate c: its worker calls in. *)
Request(p, c) ==
  /\ pc[p] = "idle"
  /\ cand' = [cand EXCEPT ![p] = c]
  /\ ret' = [ret EXCEPT ![p] = Absent]
  /\ Goto(p, "lookup")
  /\ UNCHANGED <<m, calls, heap, mine>>

Hit(p) ==
  /\ pc[p] = "lookup"
  /\ m[KeyOf(p)] # Absent
  /\ ret' = [ret EXCEPT ![p] = m[KeyOf(p)]]
  /\ Goto(p, "idle")
  /\ UNCHANGED <<m, calls, heap, cand, mine>>

Join(p) ==
  /\ pc[p] = "lookup"
  /\ m[KeyOf(p)] = Absent
  /\ calls[KeyOf(p)] # NoCall
  /\ mine' = [mine EXCEPT ![p] = calls[KeyOf(p)]]
  /\ Goto(p, "waiting")
  /\ UNCHANGED <<m, calls, heap, cand, ret>>

(* Slip: a Get, then a Set: a lookup does not see the flight in progress.  *)
BeginTwice(p) ==
  /\ pc[p] = "lookup"
  /\ m[KeyOf(p)] = Absent
  /\ \E new \in Calls :
       /\ heap[new].state = "free"
       /\ heap' = [heap EXCEPT ![new].state = "open"]
       /\ calls' = [calls EXCEPT ![KeyOf(p)] = new]
       /\ mine' = [mine EXCEPT ![p] = new]
  /\ Goto(p, "computing")
  /\ UNCHANGED <<m, cand, ret>>

Begin(p) ==
  /\ pc[p] = "lookup"
  /\ m[KeyOf(p)] = Absent
  /\ calls[KeyOf(p)] = NoCall
  /\ \E new \in Calls :
       /\ heap[new].state = "free"
       /\ heap' = [heap EXCEPT ![new].state = "open"]
       /\ calls' = [calls EXCEPT ![KeyOf(p)] = new]
       /\ mine' = [mine EXCEPT ![p] = new]
  /\ Goto(p, "computing")
  /\ UNCHANGED <<m, cand, ret>>

(* Slips: the result is not stored in the call struct; the channel is not *)
(* closed.                                                                 *)
PublishForgetsCall(p) ==
  /\ pc[p] = "computing"
  /\ \E r \in Outcome[cand[p]] :
       /\ m' = [m EXCEPT ![KeyOf(p)] = r]
       /\ ret' = [ret EXCEPT ![p] = r]
  /\ calls' = [calls EXCEPT ![KeyOf(p)] = NoCall]
  /\ Goto(p, "closing")
  /\ UNCHANGED <<heap, cand, mine>>

PublishSkipsClose(p) ==
  /\ pc[p] = "computing"
  /\ \E r \in Outcome[cand[p]] :
       /\ heap' = [heap EXCEPT ![mine[p]].result = r]
       /\ m' = [m EXCEPT ![KeyOf(p)] = r]
       /\ ret' = [ret EXCEPT ![p] = r]
  /\ calls' = [calls EXCEPT ![KeyOf(p)] = NoCall]
  /\ Goto(p, "idle")
  /\ UNCHANGED <<cand, mine>>

Publish(p) ==
  /\ pc[p] = "computing"
  /\ \E r \in Outcome[cand[p]] :
       /\ heap' = [heap EXCEPT ![mine[p]].result = r]
       /\ m' = [m EXCEPT ![KeyOf(p)] = r]
       /\ ret' = [ret EXCEPT ![p] = r]
  /\ calls' = [calls EXCEPT ![KeyOf(p)] = NoCall]
  /\ Goto(p, "closing")
  /\ UNCHANGED <<cand, mine>>

Close(p) ==
  /\ pc[p] = "closing"
  /\ heap' = [heap EXCEPT ![mine[p]].state = "closed"]
  /\ Goto(p, "idle")
  /\ UNCHANGED <<m, calls, cand, mine, ret>>

Wake(p) ==
  /\ pc[p] = "waiting"
  /\ heap[mine[p]].state = "closed"
  /\ ret' = [ret EXCEPT ![p] = heap[mine[p]].result]
  /\ Goto(p, "idle")
  /\ UNCHANGED <<m, calls, heap, cand, mine>>

Next ==
  \E p \in Callers :
    \/ \E c \in Candidates : Request(p, c)
    \/ Hit(p) \/ Join(p) \/ Begin(p) \/ Publish(p) \/ Close(p) \/ Wake(p)

Spec == Init /\ [][Next]_vars

(* The mutex is only held for a few map operations, so a caller that wants *)
(* it gets it; a closed channel wakes its receivers; a verification that   *)
(* does not hang returns (every probe it makes is bounded by a timeout).   *)
Fairness ==
  \A p \in Callers :
    /\ WF_vars(Hit(p) \/ Join(p) \/ Begin(p))
    /\ WF_vars(cand[p] \notin Hung /\ Publish(p))
    /\ WF_vars(Close(p))
    /\ WF_vars(Wake(p))

FairSpec == Spec /\ Fairness

-----------------------------------------------------------------------------
TypeOK ==
  /\ m \in [Keys -> Results \cup {Absent}]
  /\ calls \in [Keys -> Calls \cup {NoCall}]
  /\ heap \in [Calls -> CallStructs]
  /\ pc \in [Callers -> {"idle", "lookup", "waiting", "computing", "closing"}]
  /\ cand \in [Callers -> Candidates]
  /\ mine \in [Callers -> Calls \cup {NoCall}]
  /\ ret \in [Callers -> Results \cup {Absent}]

(* compute() runs "exactly once per key, even when many callers request    *)
(* the same key concurrently" (cache.go 68-70): never twice at a time, and *)
(* never once a result is cached.                                          *)
SingleFlight ==
  \A p \in Callers : pc[p] = "computing" =>
    /\ m[KeyOf(p)] = Absent
    /\ \A q \in Callers : (pc[q] = "computing" /\ KeyOf(q) = KeyOf(p)) => q = p

(* Whoever returns from GetOrCompute returns a result, and it is the one   *)
(* the cache holds for its key: a waiter that wakes after the map entry    *)
(* is gone reads the struct the computing caller filled.                   *)
CallersAgree ==
  \A p \in Callers : ret[p] # Absent => ret[p] = m[KeyOf(p)]

(* A cached result is never replaced or dropped during the scan. *)
EntriesKept == \A k \in Keys : m[k] # Absent => m'[k] = m[k]
CachedForGood == [][EntriesKept]_vars

(* "Two candidates only ever share a key if they are indistinguishable     *)
(* from verification's point of view" (cache.go 38-41): nobody is handed a *)
(* result Verify could not have reached for the candidate it asked about.  *)
ResultFitsCandidate ==
  \A p \in Callers : ret[p] # Absent => ret[p] \in Outcome[cand[p]]

(* "Callers for different keys never block on each other" (cache.go 71):   *)
(* a caller returns even if the verification of other candidates hangs.    *)
OthersReturn ==
  \A p \in Callers, c \in Candidates :
    CacheKey(c) \notin {CacheKey(h) : h \in Hung} =>
      ((pc[p] # "idle" /\ cand[p] = c) ~> pc[p] = "idle")

-----------------------------------------------------------------------------
(* The cache as a write-once map shared by its callers.  A caller's         *)
(* question is settled when it publishes, before it closes the channel.     *)
Pending(p) == pc[p] \in {"lookup", "waiting", "computing"}

Once == INSTANCE OnceMap WITH
          Clients <- Callers,
          Values  <- Results,
          Unset   <- Absent,
          NoKey   <- Absent,
          value   <- m,
          asked   <- [p \in Callers |-> IF Pending(p) THEN KeyOf(p) ELSE Absent],
          answer  <- ret

(* GetOrCompute implements the write-once map (cache.go 67-107). *)
ImplementsOnceMap == Once!Spec
=============================================================================
