--------------------------- MODULE MCOperatorAsk ---------------------------
(***************************************************************************)
(* OperatorAsk with three calls of answer(); the third may be made in a    *)
(* process of its own.                                                     *)
(***************************************************************************)
EXTENDS OperatorAsk

CONSTANTS a1, a2, a3, p1, p2

MCHome == [a \in Answer |-> IF a = a3 /\ p2 \in Process THEN p2 ELSE p1]
=============================================================================
