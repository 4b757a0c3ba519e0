--------------------------- MODULE MCOriginalFlow ---------------------------
(* The bounds of OriginalFlow: two peers share the bandwidth of the host;  *)
(* or the round trips to one peer are measured, again and again.           *)
EXTENDS OriginalFlow

MCBudgets == {[peers |-> 2, calls |-> 3, samples |-> 1],
              [peers |-> 1, calls |-> 1, samples |-> 5]}

SteadyBudgets == {[peers |-> 1, calls |-> 0, samples |-> 6]}
=============================================================================
