------------------------------ MODULE MCLimiter ------------------------------
(* Three callers; intervals from 0 to 4 units, with MinInterval = 2: the   *)
(* requested rate may be faster than MinInterval allows, or slower than    *)
(* MaxInterval.                                                            *)
EXTENDS Limiter

CONSTANTS p1, p2, p3

MCCallers == {p1, p2, p3}
MCRequested == {0, 1, 3, 6}
=============================================================================
