----------------------------- MODULE Admission -----------------------------
(***************************************************************************)
(* The per-project admission gate of src/src/interrupt.py, as loop_init    *)
(* and loop_finalize use it: acquire_project_slot() takes a flock on       *)
(* loop-<project>.lock, checks that the path still names the file it       *)
(* locked, and publishes the slot to the sibling threads of its process;   *)
(* set_loop_running() and clear_loop_running() advertise the loop in the   *)
(* global loop.lock, which readers check for a dead pid.                   *)
(*                                                                         *)
(* The slots of one process share a _SlotCore, which the registry refers   *)
(* to weakly.  CPython runs the __del__ of a core before it clears the     *)
(* weak references to it: while close() is under way ref() still returns   *)
(* the core, and whoever keeps that reference keeps the object.  A core is *)
(* named here by the loop that made it.                                    *)
(*                                                                         *)
(* A file is an inode: unlinking the path leaves the inode to whoever has  *)
(* it open, and the next open(path, "a+") makes a fresh one.               *)
(***************************************************************************)
EXTENDS Naturals

CONSTANTS
    Loop, Process, ProcOf,  \* loops of one project and the process of each
    NoLoop,
    MaxInode,   \* bound on the files ever made at the path
    MaxPolls,   \* polls that fit in wait_s (0: refuse immediately)
    Worktree,   \* loop.busy_policy = worktree
    FsErrors    \* the lock file may fail to open

ASSUME LoopAssumption == ProcOf \in [Loop -> Process] /\ NoLoop \notin Loop
ASSUME BoundAssumption ==
    MaxInode \in Nat \ {0} /\ MaxPolls \in Nat /\ Worktree \in BOOLEAN /\ FsErrors \in BOOLEAN

VARIABLES
    path,     \* the inode loop-<project>.lock names, 0 when there is none
    made,     \* inodes made so far: 1..made
    flock,    \* the loop whose open file holds the flock of an inode
    registry, \* _process_slot_cores: the core the weak reference names, if any
    pc,
    fd,       \* the inode a loop has open while it acquires or closes, or 0
    core,     \* the core a loop has a handle on
    file,     \* _SlotCore._fh: the inode a core keeps open, 0 once it is closed
    pin,      \* the core kept by a local of acquire_project_slot() or by __del__
    polls,    \* polls a waiting loop has left
    marker,   \* loop.lock: who wrote it and whether it names the project
    dead,     \* processes that died
    reader,   \* a get_running_loop() call between its read and its unlink
    ungated,  \* history: a loop went ahead without a slot
    late      \* history: loops given a handle on a core that was being closed

vars == <<path, made, flock, registry, pc, fd, core, file, pin, polls, marker, dead, reader,
          ungated, late>>
slots == <<core, file, pin, late>>

Inode == 1..MaxInode
NoMarker == [by |-> NoLoop, named |-> FALSE]
Marker == [by : Loop, named : BOOLEAN] \cup {NoMarker}

PC == {"new", "open", "lock", "busy", "verify", "register", "start",
       "working", "release", "closing", "unlock", "clear", "unmark", "refused", "over", "dead"}

TypeOK ==
    /\ path \in 0..made
    /\ made \in 0..MaxInode
    /\ flock \in [Inode -> Loop \cup {NoLoop}]
    /\ registry \in [Process -> Loop \cup {NoLoop}]
    /\ pc \in [Loop -> PC]
    /\ fd \in [Loop -> 0..MaxInode]
    /\ core \in [Loop -> Loop \cup {NoLoop}]
    /\ file \in [Loop -> 0..MaxInode]
    /\ pin \in [Loop -> Loop \cup {NoLoop}]
    /\ polls \in [Loop -> 0..MaxPolls]
    /\ marker \in Marker
    /\ dead \subseteq Process
    /\ reader \in {"idle", "stale"}
    /\ ungated \in BOOLEAN
    /\ late \subseteq Loop

Init ==
    /\ path = 0 /\ made = 0
    /\ flock = [i \in Inode |-> NoLoop]
    /\ registry = [p \in Process |-> NoLoop]
    /\ pc = [l \in Loop |-> "new"]
    /\ fd = [l \in Loop |-> 0]
    /\ core = [l \in Loop |-> NoLoop]
    /\ file = [l \in Loop |-> 0]
    /\ pin = [l \in Loop |-> NoLoop]
    /\ polls = [l \in Loop |-> MaxPolls]
    /\ marker = NoMarker
    /\ dead = {}
    /\ reader = "idle"
    /\ ungated = FALSE
    /\ late = {}

Goto(l, where) == pc' = [pc EXCEPT ![l] = where]

\* open() of a path that may not exist: the file it names afterwards.
Create ==
    IF path # 0 THEN UNCHANGED <<path, made>>
    ELSE made < MaxInode /\ made' = made + 1 /\ path' = made + 1

\* A handle, a local or the frame of __del__ keeps the core.
Alive(c) == \E m \in Loop : core[m] = c \/ pin[m] = c

\* ref(): the core a process last registered, as long as it is there.
Deref(p) == IF registry[p] # NoLoop /\ Alive(registry[p]) THEN registry[p] ELSE NoLoop

\* The last reference to c is gone, and close() has not taken its file yet.
Dying(c) == \E m \in Loop : pc[m] = "closing" /\ pin[m] = c

-----------------------------------------------------------------------------
(* acquire_project_slot().                                                 *)

\* A sibling's slot is shared when its file is open; otherwise go for the
\* file, with whatever ref() returned in a local.
CheckRegistry(l) ==
    /\ pc[l] = "new"
    /\ LET c == Deref(ProcOf[l]) IN
        IF c # NoLoop /\ file[c] # 0
        THEN /\ core' = [core EXCEPT ![l] = c]
             /\ pin' = [pin EXCEPT ![l] = NoLoop]
             /\ late' = IF Dying(c) THEN late \cup {l} ELSE late
             /\ Goto(l, "start")
        ELSE /\ pin' = [pin EXCEPT ![l] = c]
             /\ Goto(l, "open")
             /\ UNCHANGED <<core, late>>
    /\ UNCHANGED <<path, made, flock, registry, fd, file, polls, marker, dead, reader, ungated>>

OpenFile(l) ==
    /\ pc[l] = "open"
    /\ Create
    /\ fd' = [fd EXCEPT ![l] = path']
    /\ Goto(l, "lock")
    /\ UNCHANGED <<flock, registry, slots, polls, marker, dead, reader, ungated>>

\* The lock directory is unusable: the loop proceeds ungated, without a slot.
OpenFails(l) ==
    /\ pc[l] = "open" /\ FsErrors
    /\ Goto(l, "start")
    /\ ungated' = TRUE
    /\ pin' = [pin EXCEPT ![l] = NoLoop]
    /\ UNCHANGED <<path, made, flock, registry, fd, core, file, late, polls, marker, dead, reader>>

\* Mutant: the flock is asked for but its refusal ignored.
TryLockIgnored(l) ==
    /\ pc[l] = "lock"
    /\ flock' = [flock EXCEPT ![fd[l]] = l]
    /\ Goto(l, "verify")
    /\ UNCHANGED <<path, made, registry, fd, slots, polls, marker, dead, reader, ungated>>

TryLock(l) ==
    /\ pc[l] = "lock"
    /\ IF flock[fd[l]] = NoLoop
       THEN /\ flock' = [flock EXCEPT ![fd[l]] = l]
            /\ Goto(l, "verify")
            /\ UNCHANGED fd
       ELSE /\ Goto(l, "busy")
            /\ fd' = [fd EXCEPT ![l] = 0]
            /\ UNCHANGED flock
    /\ UNCHANGED <<path, made, registry, slots, polls, marker, dead, reader, ungated>>

\* The holder may be a sibling: start over to share its slot, at once and
\* whatever the deadline.  A closed core that is still referred to, also by
\* this thread, is taken for one.
BusySibling(l) ==
    /\ pc[l] = "busy"
    /\ Deref(ProcOf[l]) # NoLoop
    /\ Goto(l, "new")
    /\ UNCHANGED <<path, made, flock, registry, fd, slots, polls, marker, dead, reader, ungated>>

\* Mutant: the wait is not counted against the deadline.
PollUncounted(l) ==
    /\ pc[l] = "busy" /\ Deref(ProcOf[l]) = NoLoop
    /\ Goto(l, "new")
    /\ UNCHANGED <<path, made, flock, registry, fd, slots, polls, marker, dead, reader, ungated>>

Poll(l) ==
    /\ pc[l] = "busy"
    /\ Deref(ProcOf[l]) = NoLoop
    /\ polls[l] > 0
    /\ polls' = [polls EXCEPT ![l] = @ - 1]
    /\ Goto(l, "new")
    /\ UNCHANGED <<path, made, flock, registry, fd, slots, marker, dead, reader, ungated>>

\* LoopBusy.  loop_init returns refused_busy, or runs the loop in a worktree
\* of its own when the policy says so and one can be provisioned.
Busy(l) ==
    /\ pc[l] = "busy"
    /\ Deref(ProcOf[l]) = NoLoop
    /\ polls[l] = 0
    /\ \/ Goto(l, "refused") /\ UNCHANGED ungated
       \/ Worktree /\ Goto(l, "start") /\ ungated' = TRUE
    /\ pin' = [pin EXCEPT ![l] = NoLoop]
    /\ UNCHANGED <<path, made, flock, registry, fd, core, file, late, polls, marker, dead, reader>>

\* The unlink/reacquire guard: the lock must be on the file the path names.
Verify(l) ==
    /\ pc[l] = "verify"
    /\ IF fd[l] = path
       THEN Goto(l, "register") /\ UNCHANGED <<flock, fd>>
       ELSE /\ Goto(l, "new")
            /\ flock' = [flock EXCEPT ![fd[l]] = NoLoop]
            /\ fd' = [fd EXCEPT ![l] = 0]
    /\ UNCHANGED <<path, made, registry, slots, polls, marker, dead, reader, ungated>>

\* Payload written, core made and published to the siblings.
Register(l) ==
    /\ pc[l] = "register"
    /\ registry' = [registry EXCEPT ![ProcOf[l]] = l]
    /\ core' = [core EXCEPT ![l] = l]
    /\ file' = [file EXCEPT ![l] = fd[l]]
    /\ pin' = [pin EXCEPT ![l] = NoLoop]
    /\ fd' = [fd EXCEPT ![l] = 0]
    /\ Goto(l, "start")
    /\ UNCHANGED <<path, made, flock, polls, marker, dead, reader, ungated, late>>

-----------------------------------------------------------------------------
(* The run.                                                                *)

\* set_loop_running(): a loop without a slot also writes the project's file.
Advertise(l) ==
    /\ pc[l] = "start"
    /\ marker' = [by |-> l, named |-> core[l] = NoLoop]
    /\ IF core[l] = NoLoop THEN Create ELSE UNCHANGED <<path, made>>
    /\ Goto(l, "working")
    /\ UNCHANGED <<flock, registry, fd, slots, polls, dead, reader, ungated>>

Finish(l) ==
    /\ pc[l] = "working"
    /\ Goto(l, "release")
    /\ UNCHANGED <<path, made, flock, registry, fd, slots, polls, marker, dead, reader, ungated>>

\* Nobody else keeps the core of l.
Last(l) ==
    /\ core[l] # NoLoop /\ pin[l] # core[l]
    /\ \A m \in Loop \ {l} : core[m] # core[l] /\ pin[m] # core[l]

\* release_loop_resources() drops the handle; with the last one the __del__
\* of the core runs, with the core as its argument, unless it ran before.
Release(l) ==
    /\ pc[l] = "release"
    /\ core' = [core EXCEPT ![l] = NoLoop]
    /\ IF Last(l) /\ file[core[l]] # 0
       THEN pin' = [pin EXCEPT ![l] = core[l]] /\ Goto(l, "closing")
       ELSE UNCHANGED pin /\ Goto(l, "clear")
    /\ UNCHANGED <<path, made, flock, registry, fd, file, polls, marker, dead, reader, ungated,
                   late>>

\* Mutant: close() unlocks the file and leaves it in the core.
TakeFileLeaves(l) ==
    /\ pc[l] = "closing"
    /\ fd' = [fd EXCEPT ![l] = file[pin[l]]]
    /\ Goto(l, "unlock")
    /\ UNCHANGED <<path, made, flock, registry, slots, polls, marker, dead, reader, ungated>>

\* _SlotCore.close() takes the file out of the core ...
TakeFile(l) ==
    /\ pc[l] = "closing"
    /\ fd' = [fd EXCEPT ![l] = file[pin[l]]]
    /\ file' = [file EXCEPT ![pin[l]] = 0]
    /\ Goto(l, "unlock")
    /\ UNCHANGED <<path, made, flock, registry, core, pin, polls, marker, dead, reader, ungated,
                   late>>

\* Mutant: close() neither unlocks nor closes the file.
UnlockForgotten(l) ==
    /\ pc[l] = "unlock"
    /\ fd' = [fd EXCEPT ![l] = 0]
    /\ pin' = [pin EXCEPT ![l] = NoLoop]
    /\ Goto(l, "clear")
    /\ UNCHANGED <<path, made, flock, registry, core, file, polls, marker, dead, reader, ungated,
                   late>>

\* ... and then empties and unlocks it, and __del__ lets go of the core.
Unlock(l) ==
    /\ pc[l] = "unlock"
    /\ flock' = [flock EXCEPT ![fd[l]] = NoLoop]
    /\ fd' = [fd EXCEPT ![l] = 0]
    /\ pin' = [pin EXCEPT ![l] = NoLoop]
    /\ Goto(l, "clear")
    /\ UNCHANGED <<path, made, registry, core, file, polls, marker, dead, reader, ungated, late>>

\* Mutant: the project's file is unlinked whoever owns it.
ClearProjectAlways(l) ==
    /\ pc[l] = "clear"
    /\ path' = 0
    /\ Goto(l, "unmark")
    /\ UNCHANGED <<made, flock, registry, fd, slots, polls, marker, dead, reader, ungated>>

\* clear_loop_running(): the project's file goes if loop.lock names it ...
ClearProject(l) ==
    /\ pc[l] = "clear"
    /\ path' = IF marker.named THEN 0 ELSE path
    /\ Goto(l, "unmark")
    /\ UNCHANGED <<made, flock, registry, fd, slots, polls, marker, dead, reader, ungated>>

\* ... and loop.lock goes, whoever wrote it.
ClearMarker(l) ==
    /\ pc[l] = "unmark"
    /\ marker' = NoMarker
    /\ Goto(l, "over")
    /\ UNCHANGED <<path, made, flock, registry, fd, slots, polls, dead, reader, ungated>>

\* A process dies: the kernel drops its flocks, the files stay.
Crash(p) ==
    /\ p \notin dead
    /\ dead' = dead \cup {p}
    /\ LET mine == {l \in Loop : ProcOf[l] = p} IN
        /\ pc' = [l \in Loop |-> IF l \in mine THEN "dead" ELSE pc[l]]
        /\ fd' = [l \in Loop |-> IF l \in mine THEN 0 ELSE fd[l]]
        /\ core' = [l \in Loop |-> IF l \in mine THEN NoLoop ELSE core[l]]
        /\ file' = [l \in Loop |-> IF l \in mine THEN 0 ELSE file[l]]
        /\ pin' = [l \in Loop |-> IF l \in mine THEN NoLoop ELSE pin[l]]
        /\ flock' = [i \in Inode |-> IF flock[i] \in mine THEN NoLoop ELSE flock[i]]
    /\ registry' = [registry EXCEPT ![p] = NoLoop]
    /\ UNCHANGED <<path, made, polls, marker, reader, ungated, late>>

\* get_running_loop(): a marker whose pid is dead is unlinked, in two steps.
ReadStale ==
    /\ reader = "idle" /\ marker # NoMarker
    /\ ProcOf[marker.by] \in dead
    /\ reader' = "stale"
    /\ UNCHANGED <<path, made, flock, registry, pc, fd, slots, polls, marker, dead, ungated>>

UnlinkStale ==
    /\ reader = "stale"
    /\ reader' = "idle"
    /\ marker' = NoMarker
    /\ UNCHANGED <<path, made, flock, registry, pc, fd, slots, polls, dead, ungated>>

Acquire(l) ==
    \/ CheckRegistry(l) \/ OpenFile(l) \/ OpenFails(l) \/ TryLock(l)
    \/ BusySibling(l) \/ Poll(l) \/ Busy(l) \/ Verify(l) \/ Register(l)

Ending(l) == Release(l) \/ TakeFile(l) \/ Unlock(l) \/ ClearProject(l) \/ ClearMarker(l)

Next ==
    \/ \E l \in Loop : Acquire(l) \/ Advertise(l) \/ Finish(l) \/ Ending(l)
    \/ \E p \in Process : Crash(p)
    \/ ReadStale \/ UnlinkStale

Spec == Init /\ [][Next]_vars

\* A thread inside acquire_project_slot() or the finalizer is scheduled; how
\* long a loop works is up to its plan.
FairSpec == Spec /\ \A l \in Loop : WF_vars(Acquire(l)) /\ WF_vars(Ending(l))

-----------------------------------------------------------------------------
(* Properties.                                                             *)

\* Loops with a handle on a slot of the project directory itself.  The one
\* that got it while the core was being closed is not protected by it.
Admitted == {l \in Loop : core[l] # NoLoop}
Secure == Admitted \ late

\* Loops of two processes are never admitted to one project at once: the
\* registry, the flock and the inode guard leave no window, also across
\* crashes of the holder and while cores are closed and made anew.  (A loop
\* that was handed a dying core runs on without the lock and is left out.)
SlotExclusive == \A l, m \in Secure : ProcOf[l] = ProcOf[m]

\* So it is as long as every loop that runs went through the gate.
GatedExclusive == ~ungated => SlotExclusive

\* From its admission to its release the core of a loop keeps its file open
\* (unless it was dying when the loop got it); and while no loop went ungated
\* that is the file the path names, locked by its process: whoever comes next
\* meets the lock and not a fresh file.
SlotIsOnPath ==
    \A l \in Secure :
        /\ file[core[l]] # 0
        /\ ~ungated => path = file[core[l]] /\ flock[path] # NoLoop
                       /\ ProcOf[flock[path]] = ProcOf[l]

\* The flock never outlives its use: whoever holds one is about to publish it,
\* a loop of that process is still admitted on it, or it is being closed, also
\* when a sibling picked up the dying core.
NoLeakedLock ==
    \A i \in Inode : flock[i] # NoLoop =>
        \/ pc[flock[i]] \in {"verify", "register"} /\ fd[flock[i]] = i
        \/ \E l \in Loop : pc[l] = "unlock" /\ fd[l] = i
        \/ \E l \in Loop : pc[l] = "closing" /\ file[pin[l]] = i
        \/ \E l \in Admitted : file[core[l]] = i /\ ProcOf[l] = ProcOf[flock[i]]

\* The gate implements the abstract slot until a loop goes ahead without it.
Slot == INSTANCE ProjectSlot WITH members <- IF ungated THEN {} ELSE Secure
ImplementsSlot == Slot!Spec

\* A loop never spins in the gate: it is admitted, refused or dies - unless
\* for ever somebody in its process, it itself included, keeps a core that was
\* closed: that is taken for a sibling's slot and ends every round early.
Decided(l) == pc[l] \notin {"new", "open", "lock", "busy", "verify", "register"}
ClosedCoreKept(p) == Deref(p) # NoLoop /\ file[Deref(p)] = 0
GateDecides == \A l \in Loop : []<>Decided(l) \/ <>[]ClosedCoreKept(ProcOf[l])
=============================================================================
