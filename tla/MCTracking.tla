----------------------------- MODULE MCTracking -----------------------------
(* Model checking of Tracking: two requests, one byte, one reset of the      *)
(* counters, one restart.                                                    *)
EXTENDS Tracking
=============================================================================
