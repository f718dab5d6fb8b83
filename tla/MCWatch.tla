------------------------------- MODULE MCWatch ------------------------------
(* The values of Watch's constants for TLC.                                *)
EXTENDS Watch

CONSTANTS r1, r2   \* model values
=============================================================================
