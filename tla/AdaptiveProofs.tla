--------------------------- MODULE AdaptiveProofs ---------------------------
(***************************************************************************)
(* Proofs about Adaptive for any number of workers, any ceiling and any    *)
(* window: the type invariant, conservation of permits, the channel that   *)
(* is never full, and the implementation of ElasticPool.                   *)
(***************************************************************************)
EXTENDS Adaptive, FiniteSetTheorems, TLAPS

(* A shrink leaves budget + pendingSkip alone and a grow raises it only     *)
(* below the ceiling, so what circulates never exceeds the channel.         *)
WithinCeiling == budget + pendingSkip <= Total

IInv == TypeOK /\ PermitConservation /\ WithinCeiling

-----------------------------------------------------------------------------
(* How a change of one worker's pc changes the set of workers in flight.   *)

(* A worker that enters the in-flight labels adds one to their number. *)
LEMMA EnterCounts ==
  ASSUME IsFiniteSet(Workers), NEW w \in Workers, TypeOK,
         pc[w] \in {"idle", "acquiring", "exited"},
         NEW label \in {"probing", "reported", "returning"},
         pc' = [pc EXCEPT ![w] = label]
  PROVE  /\ InFlight' = InFlight \cup {w}
         /\ w \notin InFlight
         /\ Cardinality(InFlight') = Cardinality(InFlight) + 1
<1>1. InFlight' = InFlight \cup {w} /\ w \notin InFlight
  BY DEF InFlight, TypeOK
<1>2. IsFiniteSet(InFlight)
  BY FS_Subset DEF InFlight
<1> QED
  BY <1>1, <1>2, FS_AddElement

(* A worker that leaves the in-flight labels takes one from their number. *)
LEMMA LeaveCounts ==
  ASSUME IsFiniteSet(Workers), NEW w \in Workers, TypeOK,
         pc[w] \in {"probing", "reported", "returning"},
         NEW label \in {"idle", "acquiring", "exited"},
         pc' = [pc EXCEPT ![w] = label]
  PROVE  /\ InFlight' = InFlight \ {w}
         /\ w \in InFlight
         /\ Cardinality(InFlight') = Cardinality(InFlight) - 1
<1>1. InFlight' = InFlight \ {w} /\ w \in InFlight
  BY DEF InFlight, TypeOK
<1>2. IsFiniteSet(InFlight)
  BY FS_Subset DEF InFlight
<1> QED
  BY <1>1, <1>2, FS_RemoveElement

(* A move within one side of that border changes nothing. *)
LEMMA StayCounts ==
  ASSUME NEW w \in Workers, TypeOK, NEW label,
         pc[w] \in {"probing", "reported", "returning"}
           <=> label \in {"probing", "reported", "returning"},
         pc' = [pc EXCEPT ![w] = label]
  PROVE  InFlight' = InFlight
BY DEF InFlight, TypeOK

(* The number of workers in flight is a natural number. *)
LEMMA InFlightCount ==
  ASSUME IsFiniteSet(Workers)
  PROVE  IsFiniteSet(InFlight) /\ Cardinality(InFlight) \in Nat
BY FS_Subset, FS_CardinalityType DEF InFlight

(* The window keeps its type and its bound when an outcome slides in. *)
LEMMA SlideType ==
  ASSUME AdaptiveAssumption, NEW win \in Seq(BOOLEAN), Len(win) <= WindowSize,
         NEW throttled \in BOOLEAN
  PROVE  /\ Slide(win, throttled) \in Seq(BOOLEAN)
         /\ Len(Slide(win, throttled)) <= WindowSize
<1> DEFINE longer == Append(win, throttled)
<1>1. longer \in Seq(BOOLEAN) /\ Len(longer) = Len(win) + 1
  OBVIOUS
<1>2. CASE Len(longer) > WindowSize
  <2>1. longer # <<>>
    BY <1>1
  <2>2. Tail(longer) \in Seq(BOOLEAN) /\ Len(Tail(longer)) = Len(longer) - 1
    BY <1>1, <2>1
  <2> QED
    BY <1>1, <1>2, <2>2 DEF Slide, AdaptiveAssumption
<1>3. CASE ~(Len(longer) > WindowSize)
  BY <1>1, <1>3 DEF Slide, AdaptiveAssumption
<1> QED
  BY <1>2, <1>3

-----------------------------------------------------------------------------
(* The controller starts in the invariant (New, adaptive.go 33-42). *)
LEMMA InvInit ==
  ASSUME AdaptiveAssumption, Init
  PROVE  IInv
<1>1. InFlight = {}
  BY DEF Init, InFlight
<1>2. Cardinality(InFlight) = 0
  BY <1>1, FS_EmptySet
<1> QED
  BY <1>2 DEF AdaptiveAssumption, Init, IInv, TypeOK, PermitConservation,
              WithinCeiling, PCs

(* Every step of every worker keeps it. *)
LEMMA InvNext ==
  ASSUME AdaptiveAssumption, IInv, [Next]_vars
  PROVE  IInv'
<1> USE DEF PCs
<1>0. IsFiniteSet(Workers) /\ Cardinality(InFlight) \in Nat
  BY InFlightCount DEF AdaptiveAssumption
<1>1. ASSUME NEW w \in Workers, StartProbe(w) PROVE IInv'
  <2>1. InFlight' = InFlight
    BY <1>1, StayCounts DEF IInv, StartProbe, Goto
  <2> QED
    BY <1>1, <2>1 DEF IInv, TypeOK, PermitConservation, WithinCeiling, StartProbe, Goto
<1>2. ASSUME NEW w \in Workers, Exit(w) PROVE IInv'
  <2>1. InFlight' = InFlight
    BY <1>2, StayCounts DEF IInv, Exit, Goto
  <2> QED
    BY <1>2, <2>1 DEF IInv, TypeOK, PermitConservation, WithinCeiling, Exit, Goto
<1>3. ASSUME NEW w \in Workers, Acquire(w) PROVE IInv'
  <2>1. Cardinality(InFlight') = Cardinality(InFlight) + 1
    BY <1>0, <1>3, EnterCounts DEF IInv, Acquire, Goto
  <2> QED
    BY <1>0, <1>3, <2>1 DEF AdaptiveAssumption, IInv, TypeOK, PermitConservation,
                            WithinCeiling, Acquire, Goto
<1>4. ASSUME NEW w \in Workers, AbandonProbe(w) PROVE IInv'
  <2>1. InFlight' = InFlight
    BY <1>4, StayCounts DEF IInv, AbandonProbe, Goto
  <2> QED
    BY <1>4, <2>1 DEF IInv, TypeOK, PermitConservation, WithinCeiling, AbandonProbe, Goto
<1>5. ASSUME NEW w \in Workers, NEW throttled \in BOOLEAN, Report(w, throttled)
      PROVE  IInv'
  <2>1. InFlight' = InFlight
    BY <1>5, StayCounts DEF IInv, Report, Goto
  <2>2. window' \in Seq(BOOLEAN) /\ Len(window') <= WindowSize
    BY <1>5, SlideType DEF IInv, TypeOK, Report
  <2>3. pc' \in [Workers -> PCs]
    BY <1>5 DEF IInv, TypeOK, Report, Goto
  <2>4. CASE ShouldShrink(window') /\ Shrink
    BY <1>0, <2>1, <2>2, <2>3, <2>4
       DEF AdaptiveAssumption, IInv, TypeOK, PermitConservation, WithinCeiling,
           ShouldShrink, Shrink
  <2>5. CASE ShouldGrow(window') /\ Grow
    BY <1>0, <2>1, <2>2, <2>3, <2>5
       DEF AdaptiveAssumption, IInv, TypeOK, PermitConservation, WithinCeiling,
           ShouldGrow, Grow
  <2>6. CASE UNCHANGED <<permits, budget, pendingSkip>>
    BY <2>1, <2>2, <2>3, <2>6
       DEF IInv, TypeOK, PermitConservation, WithinCeiling
  <2> QED
    BY <1>5, <2>4, <2>5, <2>6 DEF Report
<1>6. ASSUME NEW w \in Workers, ReleaseLocked(w) PROVE IInv'
  <2>1. CASE pendingSkip > 0 /\ pendingSkip' = pendingSkip - 1 /\ Goto(w, "idle")
    <3>1. Cardinality(InFlight') = Cardinality(InFlight) - 1
      BY <1>0, <1>6, <2>1, LeaveCounts DEF IInv, ReleaseLocked, Goto
    <3> QED
      BY <1>0, <1>6, <2>1, <3>1
         DEF AdaptiveAssumption, IInv, TypeOK, PermitConservation, WithinCeiling,
             ReleaseLocked, Goto
  <2>2. CASE Goto(w, "returning") /\ UNCHANGED pendingSkip
    <3>1. InFlight' = InFlight
      BY <1>6, <2>2, StayCounts DEF IInv, ReleaseLocked, Goto
    <3> QED
      BY <1>6, <2>2, <3>1 DEF IInv, TypeOK, PermitConservation, WithinCeiling,
                              ReleaseLocked, Goto
  <2> QED
    BY <1>6, <2>1, <2>2 DEF ReleaseLocked
<1>7. ASSUME NEW w \in Workers, ReturnToken(w) PROVE IInv'
  <2>1. Cardinality(InFlight') = Cardinality(InFlight) - 1
    BY <1>0, <1>7, LeaveCounts DEF IInv, ReturnToken, Goto
  <2> QED
    BY <1>0, <1>7, <2>1 DEF AdaptiveAssumption, IInv, TypeOK, PermitConservation,
                            WithinCeiling, ReturnToken, Goto
<1>8. CASE UNCHANGED vars
  BY <1>8 DEF vars, IInv, TypeOK, PermitConservation, WithinCeiling, InFlight
<1> QED
  BY <1>1, <1>2, <1>3, <1>4, <1>5, <1>6, <1>7, <1>8 DEF Next, Probe, AllExited

(* The inductive invariant holds in every reachable state. *)
LEMMA Invariance ==
  ASSUME AdaptiveAssumption
  PROVE  Spec => []IInv
<1>1. Init => IInv
  BY InvInit
<1>2. IInv /\ [Next]_vars => IInv'
  BY InvNext
<1> QED
  BY <1>1, <1>2, PTL DEF Spec

(* Every counter of the controller stays within the pool. *)
THEOREM TypeCorrect ==
  ASSUME AdaptiveAssumption
  PROVE  Spec => []TypeOK
<1>1. IInv => TypeOK
  BY DEF IInv
<1> QED
  BY <1>1, Invariance, PTL

(* No permit is lost or minted by Acquire, Report and the two halves of    *)
(* Release, in any interleaving (adaptive.go 45-112).                      *)
THEOREM PermitsConserved ==
  ASSUME AdaptiveAssumption
  PROVE  Spec => []PermitConservation
<1>1. IInv => PermitConservation
  BY DEF IInv
<1> QED
  BY <1>1, Invariance, PTL

(* The send of Release never blocks and the default case of Report's send  *)
(* is never taken (adaptive.go 59 and 105-110).                            *)
THEOREM SendNeverBlocks ==
  ASSUME AdaptiveAssumption
  PROVE  Spec => []ChannelNeverFull
<1>1. IInv => ChannelNeverFull
  <2> SUFFICES ASSUME IInv PROVE ChannelNeverFull
    OBVIOUS
  <2>1. IsFiniteSet(InFlight) /\ Cardinality(InFlight) \in Nat
    BY InFlightCount DEF AdaptiveAssumption
  <2>2. ASSUME NEW w \in Workers, pc[w] = "returning" PROVE permits < Total
    <3>1. InFlight # {}
      BY <2>2 DEF InFlight
    <3>2. Cardinality(InFlight) # 0
      BY <2>1, <3>1, FS_EmptySet
    <3> QED
      BY <2>1, <3>2 DEF AdaptiveAssumption, IInv, TypeOK, PermitConservation, WithinCeiling
  <2>3. (pendingSkip = 0 /\ budget < Total) => permits < Total
    BY <2>1 DEF AdaptiveAssumption, IInv, TypeOK, PermitConservation, WithinCeiling
  <2> QED
    BY <2>2, <2>3 DEF ChannelNeverFull
<1> QED
  BY <1>1, Invariance, PTL

-----------------------------------------------------------------------------
(* The initial states of the controller are initial states of the pool. *)
LEMMA PoolInit ==
  ASSUME AdaptiveAssumption, Init
  PROVE  Pool!Init
BY DEF AdaptiveAssumption, Init, InFlight, Pool!Init

(* Every step of the controller is a step of the pool or a stutter. *)
LEMMA PoolNext ==
  ASSUME AdaptiveAssumption, IInv, [Next]_vars
  PROVE  [Pool!Next]_Pool!poolVars
<1> USE DEF Pool!poolVars, Pool!Next
<1>0. IsFiniteSet(Workers) /\ Cardinality(InFlight) \in Nat
  BY InFlightCount DEF AdaptiveAssumption
<1>1. ASSUME NEW w \in Workers, StartProbe(w) \/ Exit(w) \/ AbandonProbe(w)
      PROVE  [Pool!Next]_Pool!poolVars
  <2>1. InFlight' = InFlight
    BY <1>1, StayCounts DEF IInv, StartProbe, Exit, AbandonProbe, Goto
  <2> QED
    BY <1>1, <2>1 DEF StartProbe, Exit, AbandonProbe
<1>2. ASSUME NEW w \in Workers, Acquire(w) PROVE Pool!Next
  <2>1. InFlight' = InFlight \cup {w} /\ w \notin InFlight
    BY <1>0, <1>2, EnterCounts DEF IInv, Acquire, Goto
  <2>2. Cardinality(InFlight) < budget + pendingSkip
    BY <1>0, <1>2 DEF IInv, TypeOK, PermitConservation, Acquire
  <2>3. Pool!Cardinality(InFlight) = Cardinality(InFlight)
    BY DEF Cardinality, Pool!Cardinality
  <2>4. Pool!Enter(w)
    BY <1>2, <2>1, <2>2, <2>3 DEF Acquire, Pool!Enter
  <2> QED
    BY <2>4
<1>3. ASSUME NEW w \in Workers, NEW throttled \in BOOLEAN, Report(w, throttled)
      PROVE  [Pool!Next]_Pool!poolVars
  <2>1. InFlight' = InFlight
    BY <1>3, StayCounts DEF IInv, Report, Goto
  <2>2. CASE ShouldShrink(window') /\ Shrink
    BY <2>1, <2>2 DEF AdaptiveAssumption, IInv, TypeOK, ShouldShrink, Shrink, Pool!Lower
  <2>3. CASE ShouldGrow(window') /\ Grow
    BY <2>1, <2>3 DEF AdaptiveAssumption, IInv, TypeOK, ShouldGrow, Grow, Pool!Raise
  <2>4. CASE UNCHANGED <<permits, budget, pendingSkip>>
    BY <2>1, <2>4
  <2> QED
    BY <1>3, <2>2, <2>3, <2>4 DEF Report
<1>4. ASSUME NEW w \in Workers, ReleaseLocked(w)
      PROVE  [Pool!Next]_Pool!poolVars
  <2>1. CASE pendingSkip > 0 /\ pendingSkip' = pendingSkip - 1 /\ Goto(w, "idle")
    <3>1. InFlight' = InFlight \ {w} /\ w \in InFlight
      BY <1>0, <1>4, <2>1, LeaveCounts DEF IInv, ReleaseLocked, Goto
    <3>2. Pool!Leave(w)
      BY <1>4, <2>1, <3>1 DEF IInv, TypeOK, ReleaseLocked, Pool!Leave
    <3> QED
      BY <3>2
  <2>2. CASE Goto(w, "returning") /\ UNCHANGED pendingSkip
    <3>1. InFlight' = InFlight
      BY <1>4, <2>2, StayCounts DEF IInv, ReleaseLocked, Goto
    <3> QED
      BY <1>4, <2>2, <3>1 DEF ReleaseLocked
  <2> QED
    BY <1>4, <2>1, <2>2 DEF ReleaseLocked
<1>5. ASSUME NEW w \in Workers, ReturnToken(w) PROVE Pool!Next
  <2>1. InFlight' = InFlight \ {w} /\ w \in InFlight
    BY <1>0, <1>5, LeaveCounts DEF IInv, ReturnToken, Goto
  <2>2. Pool!Leave(w)
    BY <1>5, <2>1 DEF ReturnToken, Pool!Leave
  <2> QED
    BY <2>2
<1>6. CASE UNCHANGED vars
  BY <1>6 DEF vars, InFlight
<1> QED
  BY <1>1, <1>2, <1>3, <1>4, <1>5, <1>6 DEF Next, Probe, AllExited

(* The token channel with its IOU counter implements the elastic pool. *)
THEOREM PoolImplemented ==
  ASSUME AdaptiveAssumption
  PROVE  Spec => ImplementsPool
<1>1. Init => Pool!Init
  BY PoolInit
<1>2. IInv /\ [Next]_vars => [Pool!Next]_Pool!poolVars
  BY PoolNext
<1> QED
  BY <1>1, <1>2, Invariance, PTL DEF Spec, ImplementsPool, Pool!Spec
=============================================================================
