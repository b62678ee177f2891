---------------------------- MODULE MCAdmission ----------------------------
(***************************************************************************)
(* Admission with two loops in one process and one loop in each of two     *)
(* others.                                                                 *)
(***************************************************************************)
EXTENDS Admission

CONSTANTS a1, a2, b1, c1, pa, pb, pc1

MCProcOf == [l \in Loop |-> CASE l \in {a1, a2} -> pa [] l = b1 -> pb [] OTHER -> pc1]
=============================================================================
