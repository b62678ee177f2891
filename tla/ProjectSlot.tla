---------------------------- MODULE ProjectSlot ----------------------------
(***************************************************************************)
(* What the admission gate promises for one project: the loops that hold a *)
(* handle on its slot are all loops of one process.                        *)
(***************************************************************************)
CONSTANTS
    Loop,     \* agent loops that want to run in the project
    Process,
    ProcOf    \* the process a loop is a thread of

VARIABLE members   \* loops that hold a handle

Init == members = {}

Join(l) ==
    /\ \A m \in members : ProcOf[m] = ProcOf[l]
    /\ members' = members \cup {l}

Leave(l) == members' = members \ {l}

\* A process dies with every loop it ran.
Die(p) == members' = {m \in members : ProcOf[m] # p}

\* A loop goes ahead without the slot: nothing is promised any more.
Abandon == members' = {}

Next ==
    (\E l \in Loop : Join(l) \/ Leave(l)) \/ (\E p \in Process : Die(p)) \/ Abandon

Spec == Init /\ [][Next]_members
=============================================================================
