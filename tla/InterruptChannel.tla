-------------------------- MODULE InterruptChannel --------------------------
(***************************************************************************)
(* What the interrupt queue promises: every interrupt that was posted is   *)
(* handed to one consumer, once, in the order of arrival, and a consumer   *)
(* that polls gets all there is.                                           *)
(***************************************************************************)
EXTENDS Sequences

CONSTANTS Intr, Consumer

VARIABLES
    posted,    \* interrupts that were ever accepted
    pending,   \* those nobody has been given, in order of arrival
    given      \* what each consumer was given, in order

vars == <<posted, pending, given>>

Init ==
    /\ posted = {}
    /\ pending = <<>>
    /\ given = [c \in Consumer |-> <<>>]

Post(i) ==
    /\ i \notin posted
    /\ posted' = posted \cup {i}
    /\ pending' = Append(pending, i)
    /\ UNCHANGED given

Give(c) ==
    /\ given' = [given EXCEPT ![c] = @ \o pending]
    /\ pending' = <<>>
    /\ UNCHANGED posted

Next == (\E i \in Intr : Post(i)) \/ (\E c \in Consumer : Give(c))

Spec == Init /\ [][Next]_vars
=============================================================================
