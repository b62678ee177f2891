------------------------------ MODULE MCDagLane ------------------------------
(* One root and three steps after it, the second by default, the third and the
   fourth by their tags; the fifth declares those two.                     *)
EXTENDS DagLane

MCDeps == <<{}, {1}, {1}, {1}, {3, 4}>>
MCDeclared == <<{}, {}, {1}, {1}, {3, 4}>>

=============================================================================
