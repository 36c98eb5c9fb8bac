------------------------------ MODULE Adaptive ------------------------------
(***************************************************************************)
(* The adaptive concurrency controller, pkg/adaptive/adaptive.go, driven   *)
(* the way Scanner.rawProbe (pkg/scanner/scanner.go) drives it: a worker   *)
(* acquires a permit, waits for the rate limiter, sends one request,       *)
(* reports its outcome and releases the permit.                            *)
(*                                                                         *)
(* permits is the number of tokens in the buffered channel c.permits; the  *)
(* channel's capacity is Total.  A shrink never drains a token: it records *)
(* an IOU in pendingSkip that the next Release honours.  Release looks at  *)
(* pendingSkip under the mutex and sends its token after unlocking, so it  *)
(* is two steps here, ReleaseLocked and ReturnToken.                       *)
(***************************************************************************)
EXTENDS Integers, Sequences, FiniteSets

CONSTANTS
  Workers,      \* the goroutines that probe
  Total,        \* the ceiling given to New
  WindowSize    \* length of the rolling window (20 in the code)

ASSUME AdaptiveAssumption ==
  /\ IsFiniteSet(Workers)
  /\ Total \in Nat \ {0}
  /\ WindowSize \in Nat \ {0}

VARIABLES
  permits,      \* tokens in the channel
  budget,       \* target number of concurrent probes
  pendingSkip,  \* IOUs: tokens that coming Releases withhold
  window,       \* the last outcomes, TRUE for a throttled one
  pc            \* what each worker is doing

vars == <<permits, budget, pendingSkip, window, pc>>

PCs == {"idle", "acquiring", "probing", "reported", "returning", "exited"}

(* Workers between Acquire and the end of Release. *)
InFlight == {w \in Workers : pc[w] \in {"probing", "reported", "returning"}}

-----------------------------------------------------------------------------
(* The rolling window and the two thresholds of Report.                    *)

Slide(win, throttled) ==
  LET longer == Append(win, throttled)
  IN  IF Len(longer) > WindowSize THEN Tail(longer) ELSE longer

Errors(win) == Cardinality({i \in 1..Len(win) : win[i]})

EnoughSignal(win) == Len(win) >= WindowSize \div 2

(* Slip: the floor of one probe is forgotten. *)
ShrinkToZero(win) ==
  /\ EnoughSignal(win)
  /\ 10 * Errors(win) > 3 * Len(win)
  /\ budget > 0

ShouldShrink(win) ==
  /\ EnoughSignal(win)
  /\ 10 * Errors(win) > 3 * Len(win)
  /\ budget > 1

ShouldGrow(win) ==
  /\ EnoughSignal(win)
  /\ 20 * Errors(win) < Len(win)
  /\ budget < Total

-----------------------------------------------------------------------------
Init ==
  /\ permits = Total
  /\ budget = Total
  /\ pendingSkip = 0
  /\ window = <<>>
  /\ pc = [w \in Workers |-> "idle"]

Goto(w, label) == pc' = [pc EXCEPT ![w] = label]

(* A worker takes a job and is about to call Acquire. *)
StartProbe(w) ==
  /\ pc[w] = "idle"
  /\ Goto(w, "acquiring")
  /\ UNCHANGED <<permits, budget, pendingSkip, window>>

(* The job channel is closed, or the scan's context ended. *)
Exit(w) ==
  /\ pc[w] = "idle"
  /\ Goto(w, "exited")
  /\ UNCHANGED <<permits, budget, pendingSkip, window>>

Acquire(w) ==
  /\ pc[w] = "acquiring"
  /\ permits > 0
  /\ permits' = permits - 1
  /\ Goto(w, "probing")
  /\ UNCHANGED <<budget, pendingSkip, window>>

(* The limiter's Wait fails on a cancelled context: rawProbe returns       *)
(* without a Report and its deferred Release runs.                         *)
AbandonProbe(w) ==
  /\ pc[w] = "probing"
  /\ Goto(w, "reported")
  /\ UNCHANGED <<permits, budget, pendingSkip, window>>

(* Slip: a shrink drains a token at once when it finds one. *)
ShrinkDrains ==
  /\ budget' = budget - 1
  /\ \/ permits > 0 /\ permits' = permits - 1 /\ UNCHANGED pendingSkip
     \/ permits = 0 /\ pendingSkip' = pendingSkip + 1 /\ UNCHANGED permits

Shrink ==
  /\ budget' = budget - 1
  /\ pendingSkip' = pendingSkip + 1
  /\ UNCHANGED permits

(* Slip: a grow cancels an IOU and sends a token as well. *)
GrowPaysTwice ==
  /\ budget' = budget + 1
  /\ pendingSkip' = IF pendingSkip > 0 THEN pendingSkip - 1 ELSE 0
  /\ permits' = IF permits < Total THEN permits + 1 ELSE permits

(* A grow cancels an IOU if there is one, and only otherwise sends a fresh *)
(* token; the send has a default case that drops the token when the        *)
(* channel is full.                                                        *)
Grow ==
  /\ budget' = budget + 1
  /\ \/ /\ pendingSkip > 0
        /\ pendingSkip' = pendingSkip - 1
        /\ UNCHANGED permits
     \/ /\ pendingSkip = 0
        /\ permits' = IF permits < Total THEN permits + 1 ELSE permits
        /\ UNCHANGED pendingSkip

Report(w, throttled) ==
  /\ pc[w] = "probing"
  /\ window' = Slide(window, throttled)
  /\ \/ ShouldShrink(window') /\ Shrink
     \/ ShouldGrow(window') /\ Grow
     \/ /\ ~ShouldShrink(window') /\ ~ShouldGrow(window')
        /\ UNCHANGED <<permits, budget, pendingSkip>>
  /\ Goto(w, "reported")

(* Slip: Release always returns its token. *)
ReleaseForgetsIOU(w) ==
  /\ pc[w] = "reported"
  /\ Goto(w, "returning")
  /\ UNCHANGED <<permits, budget, pendingSkip, window>>

(* Release, up to the unlock: pay an IOU, or go on to send the token. *)
ReleaseLocked(w) ==
  /\ pc[w] = "reported"
  /\ \/ /\ pendingSkip > 0
        /\ pendingSkip' = pendingSkip - 1
        /\ Goto(w, "idle")
     \/ /\ pendingSkip = 0
        /\ Goto(w, "returning")
        /\ UNCHANGED pendingSkip
  /\ UNCHANGED <<permits, budget, window>>

(* The send at the end of Release, which blocks on a full channel. *)
ReturnToken(w) ==
  /\ pc[w] = "returning"
  /\ permits < Total
  /\ permits' = permits + 1
  /\ Goto(w, "idle")
  /\ UNCHANGED <<budget, pendingSkip, window>>

(* The pool is drained: every worker has exited. *)
AllExited ==
  /\ \A w \in Workers : pc[w] = "exited"
  /\ UNCHANGED vars

Probe(w) ==
  \/ AbandonProbe(w)
  \/ \E throttled \in BOOLEAN : Report(w, throttled)

Next ==
  \/ \E w \in Workers :
       \/ StartProbe(w) \/ Exit(w) \/ Acquire(w)
       \/ Probe(w) \/ ReleaseLocked(w) \/ ReturnToken(w)
  \/ AllExited

(* A probe always comes back (the HTTP client has a timeout, Wait returns   *)
(* after a bounded delay), a running goroutine keeps running, and the Go    *)
(* runtime serves the receivers of a channel in order, hence SF on Acquire. *)
(* Nothing makes a worker start another probe or exit.                      *)
Fairness ==
  \A w \in Workers :
    /\ WF_vars(Probe(w))
    /\ WF_vars(ReleaseLocked(w))
    /\ WF_vars(ReturnToken(w))
    /\ SF_vars(Acquire(w))

Spec == Init /\ [][Next]_vars

FairSpec == Spec /\ Fairness

-----------------------------------------------------------------------------
(* Type invariant: every counter stays within the pool (adaptive.go 20-28). *)
TypeOK ==
  /\ permits \in 0..Total
  /\ budget \in 1..Total
  /\ pendingSkip \in 0..Total
  /\ window \in Seq(BOOLEAN)
  /\ Len(window) <= WindowSize
  /\ pc \in [Workers -> PCs]

(* No permit is ever lost or minted: the tokens in the channel and those   *)
(* out with a worker are exactly the budget plus the shrinks still owed,   *)
(* whatever interleaving of Report and the two halves of Release.          *)
PermitConservation ==
  permits + Cardinality(InFlight) = budget + pendingSkip

(* Release's channel send never blocks and Report's non-blocking send      *)
(* never falls to its default case ("Should not happen if the invariant    *)
(* above holds", adaptive.go 107).                                         *)
ChannelNeverFull ==
  /\ \A w \in Workers : pc[w] = "returning" => permits < Total
  /\ (pendingSkip = 0 /\ budget < Total) => permits < Total

(* A shrink is "eventually realized exactly once" (adaptive.go 90-91): the *)
(* probes in flight come down to a lowered budget, even when more shrinks  *)
(* and grows are decided meanwhile.                                        *)
ShrinkRealized ==
  Cardinality(InFlight) > budget ~> Cardinality(InFlight) <= budget

(* Capacity cannot leak away: a worker blocked in Acquire gets a permit.   *)
AcquireReturns ==
  \A w \in Workers : pc[w] = "acquiring" ~> pc[w] = "probing"

(* The controller as an elastic pool: a worker is inside until its token   *)
(* is back in the channel or withheld; the limit is what circulates.       *)
Pool == INSTANCE ElasticPool WITH
          Users  <- Workers,
          inside <- InFlight,
          target <- budget,
          limit  <- budget + pendingSkip

(* The channel of tokens and the IOU counter implement the elastic pool    *)
(* (adaptive.go 42-112 against the package comment at 1-14).               *)
ImplementsPool == Pool!Spec

=============================================================================
