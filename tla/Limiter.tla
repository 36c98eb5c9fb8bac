------------------------------- MODULE Limiter -------------------------------
(***************************************************************************)
(* The scan-wide rate limiter, pkg/ratelimiter/limiter.go, called by       *)
(* Scanner.rawProbe: Wait, one HTTP request, Feedback.                     *)
(*                                                                         *)
(* Only differences of times matter, so time is kept relative to now:      *)
(* backlog is l.next - now (0 once next has passed, as Wait takes the      *)
(* later of the two as its base) and left[p] is the rest of p's sleep.     *)
(* Tick lets one unit of time go by.  A sleeper may wake late.             *)
(***************************************************************************)
EXTENDS Integers, FiniteSets, FiniteSetsExt

CONSTANTS
  Callers,    \* goroutines that probe
  Requested,  \* intervals a -rate may ask for
  MinInterval, MaxInterval    \* Limiter.min, Limiter.max

ASSUME LimiterAssumption ==
  /\ IsFiniteSet(Callers)
  /\ Requested \subseteq Nat
  /\ MinInterval \in Nat \ {0} /\ MaxInterval \in Nat \ {0}
  /\ MinInterval <= MaxInterval

VARIABLES
  interval,  \* Limiter.interval
  backlog,   \* Limiter.next, ahead of now
  pc,
  left,      \* time a caller has to sleep for its slot
  gap,       \* the interval its slot was reserved with
  ctxDone    \* the scan's context is done

vars == <<interval, backlog, pc, left, gap, ctxDone>>

Sleepers == {p \in Callers : pc[p] = "sleeping"}

(* New: a rate below 0.2/s is raised to 0.2/s, whose interval is           *)
(* MaxInterval; the interval of a fast rate may lie below MinInterval, at  *)
(* 0 for more than 10^9 requests per second.                               *)
Initial(r) == IF r > MaxInterval THEN MaxInterval ELSE r

Init ==
  /\ \E r \in Requested : interval = Initial(r)
  /\ backlog = 0
  /\ pc = [p \in Callers |-> "idle"]
  /\ left = [p \in Callers |-> 0]
  /\ gap = [p \in Callers |-> 0]
  /\ ctxDone = FALSE

Goto(p, label) == pc' = [pc EXCEPT ![p] = label]

(* The check of ctx.Err() at the top of Wait. *)
EnterWait(p) ==
  /\ pc[p] = "idle"
  /\ ~ctxDone
  /\ Goto(p, "entered")
  /\ UNCHANGED <<interval, backlog, left, gap, ctxDone>>

(* Slip: every slot is one interval from now. *)
ReserveFromNow(p) ==
  /\ pc[p] = "entered"
  /\ backlog' = interval
  /\ left' = [left EXCEPT ![p] = interval]
  /\ gap' = [gap EXCEPT ![p] = interval]
  /\ Goto(p, "sleeping")
  /\ UNCHANGED <<interval, ctxDone>>

(* The critical section of Wait: the slot one interval after the last one. *)
Reserve(p) ==
  /\ pc[p] = "entered"
  /\ backlog' = backlog + interval
  /\ left' = [left EXCEPT ![p] = backlog + interval]
  /\ gap' = [gap EXCEPT ![p] = interval]
  /\ Goto(p, "sleeping")
  /\ UNCHANGED <<interval, ctxDone>>

(* Slip: a sleeper waits for the last reserved slot instead of its own. *)
FireWhenDrained(p) ==
  /\ pc[p] = "sleeping"
  /\ backlog = 0
  /\ Goto(p, "sending")
  /\ UNCHANGED <<interval, backlog, left, gap, ctxDone>>

Fire(p) ==
  /\ pc[p] = "sleeping"
  /\ left[p] = 0
  /\ Goto(p, "sending")
  /\ UNCHANGED <<interval, backlog, left, gap, ctxDone>>

(* The sleeper's select takes ctx.Done; its slot stays reserved. *)
GiveUp(p) ==
  /\ pc[p] = "sleeping"
  /\ ctxDone
  /\ left' = [left EXCEPT ![p] = 0]
  /\ Goto(p, "idle")
  /\ UNCHANGED <<interval, backlog, gap, ctxDone>>

Double(i) == IF 2 * i > MaxInterval THEN MaxInterval ELSE 2 * i

(* 9 / 10 is an integer division of constants, hence 0. *)
Shorten(i) == IF i * (9 \div 10) < MinInterval THEN MinInterval ELSE i * (9 \div 10)

(* Slip: being throttled also pushes the next slot back. *)
ThrottledDelays(p) ==
  /\ pc[p] = "sending"
  /\ interval' = Double(interval)
  /\ backlog' = backlog + interval'
  /\ Goto(p, "idle")
  /\ UNCHANGED <<left, gap, ctxDone>>

(* Feedback after a 429, a 403 or an error; after another status below     *)
(* 500; after a server error (which changes nothing).                      *)
Throttled(p) ==
  /\ pc[p] = "sending"
  /\ interval' = Double(interval)
  /\ Goto(p, "idle")
  /\ UNCHANGED <<backlog, left, gap, ctxDone>>

Succeeded(p) ==
  /\ pc[p] = "sending"
  /\ interval' = Shorten(interval)
  /\ Goto(p, "idle")
  /\ UNCHANGED <<backlog, left, gap, ctxDone>>

ServerError(p) ==
  /\ pc[p] = "sending"
  /\ Goto(p, "idle")
  /\ UNCHANGED <<interval, backlog, left, gap, ctxDone>>

Cancel ==
  /\ ~ctxDone
  /\ ctxDone' = TRUE
  /\ UNCHANGED <<interval, backlog, pc, left, gap>>

Less(n) == IF n > 0 THEN n - 1 ELSE 0

Tick ==
  /\ backlog' = Less(backlog)
  /\ left' = [p \in Callers |-> Less(left[p])]
  /\ UNCHANGED <<interval, pc, gap, ctxDone>>

Next ==
  \/ \E p \in Callers :
       \/ EnterWait(p) \/ Reserve(p) \/ Fire(p) \/ GiveUp(p)
       \/ Throttled(p) \/ Succeeded(p) \/ ServerError(p)
  \/ Cancel
  \/ Tick

Spec == Init /\ [][Next]_vars

(* Time passes, a timer that is due fires, and a caller in Wait is run. *)
Fairness ==
  /\ WF_vars(Tick)
  /\ \A p \in Callers : WF_vars(Reserve(p)) /\ WF_vars(Fire(p))

FairSpec == Spec /\ Fairness

-----------------------------------------------------------------------------
TypeOK ==
  /\ interval \in 0..MaxInterval
  /\ backlog \in Nat
  /\ pc \in [Callers -> {"idle", "entered", "sleeping", "sending"}]
  /\ left \in [Callers -> Nat]
  /\ gap \in [Callers -> 0..MaxInterval]
  /\ ctxDone \in BOOLEAN

(* "N concurrent callers reserve N distinct, interval-spaced slots"        *)
(* (limiter.go 14-17), and "Feedback affects new waits only ... no burst"  *)
(* (26-28): of two callers still asleep, the later slot is at least the    *)
(* interval it was reserved with behind the other, whatever Feedback did.  *)
SlotsSpaced ==
  \A p, q \in Sleepers :
    (p # q /\ 0 < left[q] /\ left[q] <= left[p]) => left[p] - left[q] >= gap[p]

(* The reserved slots reach no further than the intervals of the callers   *)
(* asleep, so nobody queues behind a slot no one will use: a probe waits   *)
(* at most MaxInterval per concurrent caller.  (The slot of a cancelled    *)
(* sleeper is not returned, but then the whole scan has ended.)            *)
BacklogIsUsed ==
  ~ctxDone => backlog <= MapThenSumSet(LAMBDA p : gap[p], Sleepers)

(* Being throttled never makes the scan faster, whatever rate was asked    *)
(* for (limiter.go 40-44 and 87-92).                                       *)
ThrottleSlows == [][\A p \in Callers : Throttled(p) => interval' >= interval]_vars

(* A caller in Wait gets its turn: later reservations and longer intervals *)
(* never push its slot back ("already-started waiters keep their computed  *)
(* delay", limiter.go 26-28).                                              *)
WaitReturns == \A p \in Callers : pc[p] = "entered" ~> pc[p] \in {"sending", "idle"}
=============================================================================
