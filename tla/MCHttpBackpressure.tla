------------------------- MODULE MCHttpBackpressure -------------------------
(* Instances of HttpBackpressure for TLC. *)
EXTENDS HttpBackpressure

CONSTANTS r1, r2, r3, r4, r5

MCRequests  == {r1, r2, r3, r4, r5}
MCImpatient == {r1}
=============================================================================
