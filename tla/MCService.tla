------------------------------ MODULE MCService -----------------------------
(* The values of Service's constants for TLC: two events of one signal_id. *)
EXTENDS Service

CONSTANTS e1, e2, q1   \* model values

OneSid == [e \in {e1, e2} |-> "s"]
=============================================================================
