----------------------------- MODULE MCStepLoop -----------------------------
(* The last step of the plan is declared to come after the first.          *)
EXTENDS StepLoop

MCAfter == [s \in 1..Plan |-> IF s = Plan THEN {1} ELSE {}]

=============================================================================
