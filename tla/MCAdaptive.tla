----------------------------- MODULE MCAdaptive -----------------------------
(* Adaptive with four workers under a ceiling of four, as Scan starts it   *)
(* (adaptive.New(workers)), and a window of three outcomes: one failure    *)
(* shrinks, and four probes in flight are enough to shrink and then, with  *)
(* the IOUs still owed, to see a clean window and grow.                    *)
EXTENDS Adaptive

CONSTANTS w1, w2, w3, w4

MCWorkers == {w1, w2, w3, w4}
MCTotal == 4
MCWindowSize == 3
=============================================================================
