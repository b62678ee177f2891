--------------------------- MODULE InterruptQueue ---------------------------
(***************************************************************************)
(* The interrupt queue of src/src/interrupt.py over file_lock.py: posts    *)
(* append a line under the sidecar lock, poll() and clear() look first     *)
(* without the lock and then rewrite the whole file under it, and          *)
(* loop_post_step applies what poll() returned, one interrupt at a time,   *)
(* at the boundary after a step.                                           *)
(***************************************************************************)
EXTENDS Naturals, Sequences

CONSTANTS
    Intr,      \* interrupts, each posted by a process of its own
    Stop,      \* those with the intent "stop"
    Loop,      \* agent loops that poll
    Clearer,   \* processes that call clear()
    Nobody,
    MaxFaults  \* bound on lock timeouts, failed writes and applies, and crashes

ASSUME ActorAssumption ==
    /\ Stop \subseteq Intr
    /\ Intr \cap (Loop \cup Clearer) = {} /\ Loop \cap Clearer = {}
    /\ Nobody \notin Intr \cup Loop \cup Clearer
    /\ MaxFaults \in Nat

Consumer == Loop \cup Clearer
Actor == Intr \cup Consumer

VARIABLES
    file,     \* the rows of the queue file
    lock,     \* who holds the flock of the sidecar file
    pc,
    old,      \* the text a consumer read under the lock
    batch,    \* interrupts a loop was returned and has yet to apply
    given,    \* history: what the rewrites of each consumer marked applied
    acked,    \* history: posts that returned to their caller
    recorded, \* interrupts that got their injection record
    faults

vars == <<file, lock, pc, old, batch, given, acked, recorded, faults>>

Row == [id : Intr, st : {"pending", "applied", "torn"}]

TypeOK ==
    /\ file \in Seq(Row)
    /\ lock \in Actor \cup {Nobody}
    /\ pc \in [Actor -> {"idle", "want", "locked", "write", "apply", "stopped", "dead"}]
    /\ old \in [Consumer -> Seq(Row)]
    /\ batch \in [Loop -> Seq(Intr)]
    /\ given \in [Consumer -> Seq(Intr)]
    /\ acked \subseteq Intr
    /\ recorded \subseteq Intr
    /\ faults \in 0..MaxFaults

Init ==
    /\ file = <<>>
    /\ lock = Nobody
    /\ pc = [a \in Actor |-> "idle"]
    /\ old = [c \in Consumer |-> <<>>]
    /\ batch = [l \in Loop |-> <<>>]
    /\ given = [c \in Consumer |-> <<>>]
    /\ acked = {}
    /\ recorded = {}
    /\ faults = 0

-----------------------------------------------------------------------------
(* Rows.                                                                   *)

\* _peek_counted(): the pending rows by their ids, torn ones left out.
Pending(f) ==
    LET upTo[n \in 0..Len(f)] ==
            IF n = 0 THEN <<>>
            ELSE IF f[n].st = "pending" THEN Append(upTo[n - 1], f[n].id)
            ELSE upTo[n - 1]
    IN  upTo[Len(f)]

\* Mutant: only the last of the rows returned is marked.
MarkedLast(f) ==
    [n \in 1..Len(f) |-> IF n = Len(f) /\ f[n].st = "pending" THEN [f[n] EXCEPT !.st = "applied"] ELSE f[n]]

\* _mark_applied(): pending rows are marked, all others ride along.
Marked(f) ==
    [n \in 1..Len(f) |-> IF f[n].st = "pending" THEN [f[n] EXCEPT !.st = "applied"] ELSE f[n]]

\* Mutant: a row appended to a torn tail fuses with it.
WithRowFused(f, i) ==
    IF f # <<>> /\ f[Len(f)].st = "torn" THEN f ELSE Append(f, [id |-> i, st |-> "pending"])

\* locked_append() of a whole row: a torn last line is closed with a newline
\* first and so stays a row of its own.
WithRow(f, i) == Append(f, [id |-> i, st |-> "pending"])

-----------------------------------------------------------------------------
(* Producers: _append().                                                   *)

Goto(a, where) == pc' = [pc EXCEPT ![a] = where]

StartPost(i) ==
    /\ pc[i] = "idle" /\ i \in Intr
    /\ Goto(i, "want")
    /\ UNCHANGED <<file, lock, old, batch, given, acked, recorded, faults>>

\* The line is written and the lock dropped; the caller has its Interrupt.
AppendLine(i) ==
    /\ i \in Intr /\ pc[i] = "locked"
    /\ file' = WithRow(file, i)
    /\ acked' = acked \cup {i}
    /\ lock' = IF lock = i THEN Nobody ELSE lock
    /\ Goto(i, "stopped")
    /\ UNCHANGED <<old, batch, given, recorded, faults>>

\* The producer dies in the middle of the write.
TornLine(i) ==
    /\ i \in Intr /\ pc[i] = "locked"
    /\ faults < MaxFaults /\ faults' = faults + 1
    /\ file' = Append(file, [id |-> i, st |-> "torn"])
    /\ lock' = IF lock = i THEN Nobody ELSE lock
    /\ Goto(i, "dead")
    /\ UNCHANGED <<old, batch, given, acked, recorded>>

-----------------------------------------------------------------------------
(* The sidecar lock: locked_write().                                       *)

TakeLock(a) ==
    /\ pc[a] = "want" /\ lock = Nobody
    /\ lock' = a
    /\ Goto(a, "locked")
    /\ UNCHANGED <<file, old, batch, given, acked, recorded, faults>>

\* The deadline passes while somebody else holds the lock: the call raises,
\* post() to its caller and poll() to its own handler.
LockTimeout(a) ==
    /\ pc[a] = "want" /\ lock # Nobody
    /\ faults < MaxFaults /\ faults' = faults + 1
    /\ Goto(a, IF a \in Consumer THEN "idle" ELSE "dead")
    /\ UNCHANGED <<file, lock, old, batch, given, acked, recorded>>

-----------------------------------------------------------------------------
(* Consumers: poll() and clear().                                          *)

\* Mutant: one torn row makes the unlocked look fail for good.
PeekStrict(c) ==
    /\ c \in Consumer /\ pc[c] = "idle"
    /\ Pending(file) # <<>> /\ \A n \in 1..Len(file) : file[n].st # "torn"
    /\ Goto(c, "want")
    /\ UNCHANGED <<file, lock, old, batch, given, acked, recorded, faults>>

\* The unlocked look; an empty queue is left alone.
Peek(c) ==
    /\ c \in Consumer /\ pc[c] = "idle"
    /\ Pending(file) # <<>>
    /\ Goto(c, "want")
    /\ UNCHANGED <<file, lock, old, batch, given, acked, recorded, faults>>

ReadFile(c) ==
    /\ c \in Consumer /\ pc[c] = "locked"
    /\ old' = [old EXCEPT ![c] = file]
    /\ Goto(c, "write")
    /\ UNCHANGED <<file, lock, batch, given, acked, recorded, faults>>

\* atomic_write() replaces the file; poll() returns what it marked.
Commit(c) ==
    /\ c \in Consumer /\ pc[c] = "write"
    /\ file' = Marked(old[c])
    /\ given' = [given EXCEPT ![c] = @ \o Pending(old[c])]
    /\ IF c \in Loop
       THEN batch' = [batch EXCEPT ![c] = Pending(old[c])] /\ Goto(c, "apply")
       ELSE Goto(c, "idle") /\ UNCHANGED batch
    /\ old' = [old EXCEPT ![c] = <<>>]
    /\ lock' = Nobody
    /\ UNCHANGED <<acked, recorded, faults>>

\* The write or the replace fails: nothing changed, nothing is returned.
CommitFails(c) ==
    /\ c \in Consumer /\ pc[c] = "write"
    /\ faults < MaxFaults /\ faults' = faults + 1
    /\ old' = [old EXCEPT ![c] = <<>>]
    /\ lock' = Nobody
    /\ Goto(c, "idle")
    /\ UNCHANGED <<file, batch, given, acked, recorded>>

\* _check_loop_interrupts(): record and apply the next one; a stop ends the
\* loop at once.
ApplyNext(l) ==
    /\ l \in Loop /\ pc[l] = "apply" /\ batch[l] # <<>>
    /\ recorded' = recorded \cup {Head(batch[l])}
    /\ batch' = [batch EXCEPT ![l] = Tail(@)]
    /\ Goto(l, IF Head(batch[l]) \in Stop THEN "stopped" ELSE "apply")
    /\ UNCHANGED <<file, lock, old, given, acked, faults>>

\* Applying one raises: the handler logs it and the rest of the batch is gone.
ApplyFails(l) ==
    /\ l \in Loop /\ pc[l] = "apply" /\ batch[l] # <<>>
    /\ faults < MaxFaults /\ faults' = faults + 1
    /\ recorded' \in {recorded, recorded \cup {Head(batch[l])}}
    /\ batch' = [batch EXCEPT ![l] = <<>>]
    /\ Goto(l, "idle")
    /\ UNCHANGED <<file, lock, old, given, acked>>

\* The boundary is over; the next poll comes after the next step.
BoundaryDone(l) ==
    /\ l \in Loop /\ pc[l] = "apply" /\ batch[l] = <<>>
    /\ Goto(l, "idle")
    /\ UNCHANGED <<file, lock, old, batch, given, acked, recorded, faults>>

\* A consumer dies; the kernel releases its lock.
Crash(c) ==
    /\ c \in Consumer /\ pc[c] \notin {"dead", "stopped"}
    /\ faults < MaxFaults /\ faults' = faults + 1
    /\ lock' = IF lock = c THEN Nobody ELSE lock
    /\ old' = [old EXCEPT ![c] = <<>>]
    /\ batch' = [l \in Loop |-> IF l = c THEN <<>> ELSE batch[l]]
    /\ Goto(c, "dead")
    /\ UNCHANGED <<file, given, acked, recorded>>

Work(a) ==
    \/ TakeLock(a) \/ AppendLine(a)
    \/ Peek(a) \/ ReadFile(a) \/ Commit(a) \/ ApplyNext(a) \/ BoundaryDone(a)

Fault(a) ==
    TornLine(a) \/ LockTimeout(a) \/ CommitFails(a) \/ ApplyFails(a) \/ Crash(a)

Next == \E a \in Actor : StartPost(a) \/ Work(a) \/ Fault(a)

Spec == Init /\ [][Next]_vars

\* A loop that has not been stopped reaches its next boundary and polls; the
\* lock's retries get their turn when it keeps coming free.
FairSpec == Spec /\ \A a \in Actor : WF_vars(Work(a)) /\ SF_vars(TakeLock(a))

-----------------------------------------------------------------------------
(* Properties.                                                             *)

GivenTo(i) == {c \in Consumer : \E n \in 1..Len(given[c]) : given[c][n] = i}

\* A post that returned to its caller is on disk until a consumer is given it:
\* no rewrite races the append, no torn neighbour swallows the row.
NoLostInterrupt ==
    \A i \in acked :
        (\E n \in 1..Len(file) : file[n] = [id |-> i, st |-> "pending"]) \/ GivenTo(i) # {}

\* The queue implements the abstract channel.
Channel == INSTANCE InterruptChannel WITH
    posted <- {i \in Intr : \E n \in 1..Len(file) : file[n].id = i /\ file[n].st # "torn"},
    pending <- Pending(file)
ImplementsChannel == Channel!Spec

\* An acknowledged interrupt is given to somebody as long as a loop goes on
\* polling: it does not sit behind torn rows, failed writes or other loops.
PostedIsGiven ==
    \A i \in Intr : i \in acked ~> (GivenTo(i) # {} \/ \A l \in Loop : pc[l] \in {"stopped", "dead"})
=============================================================================
