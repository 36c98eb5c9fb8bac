---------------------------- MODULE LimiterProofs ----------------------------
(***************************************************************************)
(* Proofs about Limiter for any set of callers and any bounds: the type    *)
(* invariant, the spacing of the slots, the effect of throttling and the   *)
(* use of the reserved time.                                               *)
(*                                                                         *)
(* Spacing is not inductive: a caller that reserves now gets a slot one    *)
(* interval after backlog, so it has to be known that no sleeper's slot    *)
(* lies beyond backlog (WithinBacklog), and that an interval of 0, which   *)
(* only New can set, reserves nothing (ZeroReservesNothing).               *)
(***************************************************************************)
EXTENDS Limiter, ListProofs

USE LimiterAssumption DEF LimiterAssumption

WithinBacklog == \A p \in Sleepers : left[p] <= backlog

ZeroReservesNothing == interval = 0 => backlog = 0

IInv == TypeOK /\ WithinBacklog /\ ZeroReservesNothing /\ SlotsSpaced

(* The two adjustments of Feedback keep the interval in range. *)
LEMMA DoubleInRange ==
  ASSUME NEW i \in 0..MaxInterval
  PROVE  Double(i) \in 0..MaxInterval /\ Double(i) >= i /\ (Double(i) = 0 => i = 0)
BY DEF Double

LEMMA ShortenInRange ==
  ASSUME NEW i \in 0..MaxInterval
  PROVE  Shorten(i) \in 0..MaxInterval /\ Shorten(i) # 0
BY DEF Shorten

LEMMA InitiallyIInv == Init => IInv
<1> SUFFICES ASSUME Init PROVE IInv
  OBVIOUS
<1>1. interval \in 0..MaxInterval
  BY DEF Init, Initial
<1>2. TypeOK
  <2>1. gap \in [Callers -> 0..MaxInterval]
    BY DEF Init
  <2>2. pc \in [Callers -> {"idle", "entered", "sleeping", "sending"}]
    BY DEF Init
  <2> QED
    BY <1>1, <2>1, <2>2 DEF Init, TypeOK
<1>3. Sleepers = {}
  BY DEF Init, Sleepers
<1> QED
  BY <1>2, <1>3 DEF Init, IInv, WithinBacklog, ZeroReservesNothing, SlotsSpaced

(* A step that wakes or stops callers but moves no slot keeps the spacing. *)
LEMMA SlotsUntouched ==
  ASSUME IInv, UNCHANGED <<backlog, gap>>, Sleepers' \subseteq Sleepers,
         \A p \in Sleepers' : left'[p] = left[p]
  PROVE  WithinBacklog' /\ SlotsSpaced'
<1>1. \A p \in Sleepers' : left'[p] <= backlog'
  BY DEF IInv, WithinBacklog
<1>2. \A p, q \in Sleepers' :
        (p # q /\ 0 < left'[q] /\ left'[q] <= left'[p]) => left'[p] - left'[q] >= gap'[p]
  BY DEF IInv, SlotsSpaced
<1> QED
  BY <1>1, <1>2 DEF WithinBacklog, SlotsSpaced

LEMMA StepKeepsIInv == IInv /\ [Next]_vars => IInv'
<1> SUFFICES ASSUME IInv, [Next]_vars PROVE IInv'
  OBVIOUS
<1> USE DEF IInv
<1>1. ASSUME NEW p \in Callers, EnterWait(p) PROVE IInv'
  <2>1. TypeOK'
    BY <1>1 DEF EnterWait, Goto, TypeOK
  <2>2. Sleepers' \subseteq Sleepers
    BY <1>1 DEF EnterWait, Goto, TypeOK, Sleepers
  <2> QED
    BY <1>1, <2>1, <2>2, SlotsUntouched DEF EnterWait, ZeroReservesNothing
<1>2. ASSUME NEW p \in Callers, Reserve(p) PROVE IInv'
  <2>1. TypeOK'
    BY <1>2 DEF Reserve, Goto, TypeOK
  <2>2. p \notin Sleepers /\ Sleepers' = Sleepers \cup {p}
    BY <1>2 DEF Reserve, Goto, TypeOK, Sleepers
  <2>3. /\ left'[p] = backlog' /\ gap'[p] = interval /\ backlog' = backlog + interval
        /\ \A q \in Sleepers : left'[q] = left[q] /\ gap'[q] = gap[q]
    BY <1>2, <2>2 DEF Reserve, TypeOK, Sleepers
  <2>4. interval \in Nat /\ backlog \in Nat /\ \A q \in Callers : left[q] \in Nat
    BY DEF TypeOK
  <2>5. WithinBacklog'
    BY <2>2, <2>3, <2>4 DEF WithinBacklog, Sleepers
  <2>6. ASSUME NEW r \in Sleepers', NEW q \in Sleepers', r # q, 0 < left'[q], left'[q] <= left'[r]
        PROVE  left'[r] - left'[q] >= gap'[r]
    <3>1. q \in Sleepers
      <4> SUFFICES ASSUME q = p PROVE FALSE
        BY <2>2
      <4>1. r \in Sleepers /\ left[r] <= backlog /\ left'[r] = left[r] /\ r \in Callers
        BY <2>2, <2>3, <2>6 DEF WithinBacklog, Sleepers
      <4>2. interval = 0
        BY <2>3, <2>4, <2>6, <4>1
      <4> QED
        BY <2>3, <2>4, <2>6, <4>2 DEF ZeroReservesNothing
    <3>2. CASE r = p
      BY <3>1, <3>2, <2>3, <2>4 DEF WithinBacklog, Sleepers
    <3>3. CASE r # p
      BY <3>1, <3>3, <2>2, <2>3, <2>6 DEF SlotsSpaced
    <3> QED
      BY <3>2, <3>3
  <2> QED
    BY <2>1, <2>3, <2>4, <2>5, <2>6, <1>2 DEF SlotsSpaced, ZeroReservesNothing, Reserve
<1>3. ASSUME NEW p \in Callers, Fire(p) PROVE IInv'
  <2>1. TypeOK'
    BY <1>3 DEF Fire, Goto, TypeOK
  <2>2. Sleepers' \subseteq Sleepers
    BY <1>3 DEF Fire, Goto, TypeOK, Sleepers
  <2> QED
    BY <1>3, <2>1, <2>2, SlotsUntouched DEF Fire, ZeroReservesNothing
<1>4. ASSUME NEW p \in Callers, GiveUp(p) PROVE IInv'
  <2>1. TypeOK'
    BY <1>4 DEF GiveUp, Goto, TypeOK
  <2>2. Sleepers' \subseteq Sleepers /\ p \notin Sleepers'
    BY <1>4 DEF GiveUp, Goto, TypeOK, Sleepers
  <2>3. \A q \in Sleepers' : left'[q] = left[q]
    BY <1>4, <2>2 DEF GiveUp, TypeOK
  <2> QED
    BY <1>4, <2>1, <2>2, <2>3, SlotsUntouched DEF GiveUp, ZeroReservesNothing
<1>5. ASSUME NEW p \in Callers, Throttled(p) \/ Succeeded(p) \/ ServerError(p) PROVE IInv'
  <2>1. TypeOK'
    BY <1>5, DoubleInRange, ShortenInRange
       DEF Throttled, Succeeded, ServerError, Goto, TypeOK
  <2>2. Sleepers' \subseteq Sleepers
    BY <1>5 DEF Throttled, Succeeded, ServerError, Goto, TypeOK, Sleepers
  <2>3. ZeroReservesNothing'
    BY <1>5, DoubleInRange, ShortenInRange
       DEF Throttled, Succeeded, ServerError, TypeOK, ZeroReservesNothing
  <2> QED
    BY <1>5, <2>1, <2>2, <2>3, SlotsUntouched DEF Throttled, Succeeded, ServerError
<1>6. CASE Cancel
  BY <1>6, SlotsUntouched DEF Cancel, TypeOK, Sleepers, ZeroReservesNothing
<1>7. CASE Tick
  <2>1. TypeOK'
    BY <1>7 DEF Tick, Less, TypeOK
  <2>2. Sleepers' = Sleepers /\ \A p \in Sleepers : left'[p] = Less(left[p])
    BY <1>7 DEF Tick, Sleepers
  <2>3. backlog \in Nat /\ \A q \in Sleepers : left[q] \in Nat
    BY DEF TypeOK, Sleepers
  <2>4. WithinBacklog'
    BY <1>7, <2>2, <2>3 DEF Tick, Less, WithinBacklog
  <2>5. ASSUME NEW p \in Sleepers, NEW q \in Sleepers,
               p # q, 0 < left'[q], left'[q] <= left'[p]
        PROVE  left'[p] - left'[q] >= gap'[p]
    <3>1. left'[q] = left[q] - 1 /\ left[q] > 0
      BY <2>2, <2>3, <2>5 DEF Less
    <3>2. left'[p] = left[p] - 1
      BY <2>2, <2>3, <2>5, <3>1 DEF Less
    <3>3. left[p] - left[q] >= gap[p]
      BY <2>3, <2>5, <3>1, <3>2 DEF SlotsSpaced
    <3> QED
      BY <1>7, <2>3, <3>1, <3>2, <3>3 DEF Tick
  <2>6. SlotsSpaced'
    BY <2>2, <2>5 DEF SlotsSpaced
  <2>7. ZeroReservesNothing'
    BY <1>7, <2>3 DEF Tick, Less, ZeroReservesNothing
  <2> QED
    BY <2>1, <2>4, <2>6, <2>7
<1>8. CASE UNCHANGED vars
  BY <1>8 DEF vars, TypeOK, WithinBacklog, ZeroReservesNothing, SlotsSpaced, Sleepers
<1> QED
  BY <1>1, <1>2, <1>3, <1>4, <1>5, <1>6, <1>7, <1>8 DEF Next

LEMMA Inductive == Spec => []IInv
BY InitiallyIInv, StepKeepsIInv, PTL DEF Spec

(* Type correctness: in particular Feedback never pushes the interval      *)
(* above MaxInterval (limiter.go 84-100).                                  *)
THEOREM TypeCorrect == Spec => []TypeOK
<1>1. IInv => TypeOK
  BY DEF IInv
<1> QED
  BY <1>1, Inductive, PTL

(* Concurrent callers hold distinct slots, each an interval behind the one *)
(* before it, whatever Feedback does meanwhile (limiter.go 14-17, 26-28).  *)
THEOREM SlotsAreSpaced == Spec => []SlotsSpaced
<1>1. IInv => SlotsSpaced
  BY DEF IInv
<1> QED
  BY <1>1, Inductive, PTL

(* A throttled response never shortens the interval (limiter.go 87-92). *)
THEOREM ThrottlingSlows == Spec => ThrottleSlows
<1>1. IInv /\ [Next]_vars => [\A p \in Callers : Throttled(p) => interval' >= interval]_vars
  <2> SUFFICES ASSUME IInv, NEW p \in Callers, Throttled(p) PROVE interval' >= interval
    OBVIOUS
  <2> QED
    BY DoubleInRange DEF IInv, TypeOK, Throttled
<1> QED
  BY <1>1, Inductive, PTL DEF Spec, ThrottleSlows

-----------------------------------------------------------------------------
(* That no slot is reserved in vain is not inductive either: what lies     *)
(* more than t ahead has to be covered by the callers that sleep longer    *)
(* than t, for every t; a tick leads from t to t + 1.                      *)
AsleepAfter(t) == {q \in Sleepers : left[q] > t}

Covered == ~ctxDone => \A t \in Nat : backlog - t <= Total(gap, AsleepAfter(t))

LEMMA SumsAreNumbers ==
  ASSUME NEW S, S \in SUBSET Callers, NEW g, g \in [Callers -> 0..MaxInterval],
         NEW A, A \in SUBSET S
  PROVE  /\ IsFiniteSet(A) /\ IsFiniteSet(S)
         /\ \A q \in S : g[q] \in Nat
         /\ Total(g, A) \in Nat
<1>1. IsFiniteSet(S)
  BY FS_Subset
<1>2. IsFiniteSet(A)
  BY <1>1, FS_Subset
<1>3. \A q \in S : g[q] \in Nat
  OBVIOUS
<1>4. Total(g, A) \in Nat
  BY <1>1, <1>3, SumSubset
<1> QED
  BY <1>1, <1>2, <1>3, <1>4

(* A step that keeps backlog, the intervals reserved and the callers with  *)
(* time left to sleep keeps what they cover.                               *)
LEMMA CoverUntouched ==
  ASSUME Covered, UNCHANGED <<backlog, gap, ctxDone>>,
         \A t \in Nat : AsleepAfter(t)' = AsleepAfter(t)
  PROVE  Covered'
BY DEF Covered

LEMMA StepKeepsCovered == IInv /\ IInv' /\ Covered /\ [Next]_vars => Covered'
<1> SUFFICES ASSUME IInv, IInv', Covered, [Next]_vars PROVE Covered'
  OBVIOUS
<1>1. TypeOK /\ TypeOK'
  BY DEF IInv
<1>2. ASSUME NEW p \in Callers,
             EnterWait(p) \/ Fire(p) \/ Throttled(p) \/ Succeeded(p) \/ ServerError(p)
      PROVE  Covered'
  <2>1. UNCHANGED <<backlog, gap, ctxDone, left>>
    BY <1>2 DEF EnterWait, Fire, Throttled, Succeeded, ServerError
  <2>2. ASSUME NEW t \in Nat PROVE AsleepAfter(t)' = AsleepAfter(t)
    <3>1. ASSUME NEW q \in Callers, left[q] > t
          PROVE  pc'[q] = "sleeping" <=> pc[q] = "sleeping"
      BY <1>1, <1>2, <3>1
         DEF EnterWait, Fire, Throttled, Succeeded, ServerError, Goto, TypeOK
    <3> QED
      BY <2>1, <3>1 DEF AsleepAfter, Sleepers
  <2> QED
    BY <2>1, <2>2, CoverUntouched
<1>3. ASSUME NEW p \in Callers, Reserve(p) PROVE Covered'
  <2>1. p \notin Sleepers /\ Sleepers' = Sleepers \cup {p}
    BY <1>1, <1>3 DEF Reserve, Goto, TypeOK, Sleepers
  <2>2. /\ left'[p] = backlog' /\ gap'[p] = interval /\ backlog' = backlog + interval
        /\ \A q \in Sleepers : left'[q] = left[q] /\ gap'[q] = gap[q]
        /\ interval \in Nat /\ backlog \in Nat /\ ctxDone' = ctxDone
    BY <1>1, <1>3, <2>1 DEF Reserve, TypeOK, Sleepers
  <2>3. ASSUME ~ctxDone, NEW t \in Nat PROVE backlog' - t <= Total(gap', AsleepAfter(t)')
    <3>1. /\ Sleepers \in SUBSET Callers /\ AsleepAfter(t) \in SUBSET Sleepers
          /\ Sleepers' \in SUBSET Callers /\ AsleepAfter(t)' \in SUBSET Sleepers'
          /\ gap \in [Callers -> 0..MaxInterval] /\ gap' \in [Callers -> 0..MaxInterval]
      BY <1>1 DEF AsleepAfter, Sleepers, TypeOK
    <3>4. /\ IsFiniteSet(AsleepAfter(t)) /\ Total(gap, AsleepAfter(t)) \in Nat
          /\ \A q \in Sleepers : gap[q] \in Nat
      BY <3>1, SumsAreNumbers
    <3>5. /\ IsFiniteSet(AsleepAfter(t)') /\ Total(gap', AsleepAfter(t)') \in Nat
          /\ \A q \in Sleepers' : gap'[q] \in Nat
      BY <3>1, SumsAreNumbers
    <3>2. CASE backlog' <= t
      BY <3>5, <3>2, <2>2
    <3>3. CASE backlog' > t
      <4>1. p \in AsleepAfter(t)' /\ AsleepAfter(t)' \ {p} = AsleepAfter(t)
        BY <2>1, <2>2, <3>3 DEF AsleepAfter
      <4>2. Total(gap', AsleepAfter(t)') = gap'[p] + Total(gap', AsleepAfter(t)' \ {p})
        BY <3>1, <3>5, <4>1, SumRemove
      <4>3. Total(gap', AsleepAfter(t)) = Total(gap, AsleepAfter(t))
        BY <3>1, <3>4, <2>2, SumSame
      <4>4. backlog - t <= Total(gap, AsleepAfter(t))
        BY <2>3 DEF Covered
      <4> QED
        BY <2>2, <3>4, <4>1, <4>2, <4>3, <4>4
    <3> QED
      BY <2>2, <3>2, <3>3
  <2> QED
    BY <2>2, <2>3 DEF Covered
<1>4. ASSUME NEW p \in Callers, GiveUp(p) PROVE Covered'
  BY <1>4 DEF GiveUp, Covered
<1>5. CASE Cancel
  BY <1>5 DEF Cancel, Covered
<1>6. CASE Tick
  <2>1. ASSUME NEW t \in Nat PROVE AsleepAfter(t)' = AsleepAfter(t + 1)
    BY <1>1, <1>6 DEF Tick, Less, AsleepAfter, Sleepers, TypeOK
  <2>2. ASSUME ~ctxDone, NEW t \in Nat PROVE backlog' - t <= Total(gap', AsleepAfter(t)')
    <3>1. gap' = gap /\ backlog \in Nat /\ backlog' = IF backlog > 0 THEN backlog - 1 ELSE 0
      BY <1>1, <1>6 DEF Tick, Less, TypeOK
    <3>2. Total(gap, AsleepAfter(t + 1)) \in Nat
      <4>1. Sleepers \in SUBSET Callers /\ AsleepAfter(t + 1) \in SUBSET Sleepers
        BY DEF AsleepAfter, Sleepers
      <4> QED
        BY <1>1, <4>1, SumsAreNumbers DEF TypeOK
    <3>3. backlog - (t + 1) <= Total(gap, AsleepAfter(t + 1))
      BY <2>2 DEF Covered
    <3> QED
      BY <2>1, <3>1, <3>2, <3>3
  <2> QED
    BY <1>6, <2>2 DEF Covered, Tick
<1>7. CASE UNCHANGED vars
  BY <1>7, CoverUntouched DEF vars, AsleepAfter, Sleepers
<1> QED
  BY <1>2, <1>3, <1>4, <1>5, <1>6, <1>7 DEF Next

(* The slots reserved ahead are covered by the callers asleep for them: no *)
(* one queues behind a slot that nobody will use (limiter.go 46-74).       *)
THEOREM NothingReservedInVain == Spec => []BacklogIsUsed
<1>1. Init => Covered
  <2> SUFFICES ASSUME Init, NEW t \in Nat PROVE backlog - t <= Total(gap, AsleepAfter(t))
    BY DEF Covered
  <2>1. Total(gap, AsleepAfter(t)) \in Nat
    <3>1. Sleepers \in SUBSET Callers /\ AsleepAfter(t) \in SUBSET Sleepers
      BY DEF AsleepAfter, Sleepers
    <3> QED
      BY <3>1, InitiallyIInv, SumsAreNumbers DEF IInv, TypeOK
  <2> QED
    BY <2>1 DEF Init
<1>2. IInv /\ Covered => BacklogIsUsed
  <2> SUFFICES ASSUME IInv, Covered, ~ctxDone PROVE backlog <= Total(gap, Sleepers)
    BY DEF BacklogIsUsed, Total
  <2>1. backlog - 0 <= Total(gap, AsleepAfter(0))
    BY DEF Covered
  <2>2. /\ IsFiniteSet(Sleepers) /\ AsleepAfter(0) \in SUBSET Sleepers
        /\ \A q \in Sleepers : gap[q] \in Nat
    <3>1. Sleepers \in SUBSET Callers /\ AsleepAfter(0) \in SUBSET Sleepers
      BY DEF AsleepAfter, Sleepers
    <3> QED
      BY <3>1, SumsAreNumbers DEF IInv, TypeOK
  <2>3. /\ Total(gap, AsleepAfter(0)) \in Nat /\ Total(gap, Sleepers) \in Nat
        /\ Total(gap, AsleepAfter(0)) <= Total(gap, Sleepers)
    BY <2>2, SumSubset
  <2>4. backlog \in Nat
    BY DEF IInv, TypeOK
  <2> QED
    BY <2>1, <2>3, <2>4
<1> QED
  BY <1>1, <1>2, Inductive, StepKeepsCovered, PTL DEF Spec
=============================================================================
