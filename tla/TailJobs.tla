------------------------------ MODULE TailJobs ------------------------------
(***************************************************************************)
(* The deferred tail of a run: src/src/tail_jobs.py and its callers.  A    *)
(* run records its learning and maintenance as rows of an append-only      *)
(* store; the run itself, a detached finalize-tail child, the heartbeat's  *)
(* sweep or an operator drains them.  A row is appended under the lock of  *)
(* the store and what was decided from the rows is decided under the same  *)
(* lock (_transact), so that a transaction is one step.  Between the       *)
(* claim, each runner and the release a drainer may die.                   *)
(***************************************************************************)
EXTENDS Naturals, Sequences, FiniteSets

CONSTANTS
    Parent,      \* the process of the run
    Child,       \* the finalize-tail process it spawns
    Sweepers,    \* heartbeats that sweep stranded tails
    Operators,   \* processes of "finalize-tail --handle-id"
    NoOne,
    Rounds,      \* loops of the run: 1, or more when the quality gate escalates
    Mortal,      \* processes that may die in the middle
    MaxFaults    \* bound on appends and spawns that fail

ASSUME ProcAssumption ==
    /\ Parent # Child
    /\ {Parent, Child} \cap (Sweepers \cup Operators) = {}
    /\ Sweepers \cap Operators = {}
    /\ NoOne \notin {Parent, Child} \cup Sweepers \cup Operators

ASSUME BoundAssumption == Rounds \in Nat \ {0} /\ MaxFaults \in Nat

Proc == {Parent, Child} \cup Sweepers \cup Operators

VARIABLES
    jobs,     \* the kinds of the "job" rows; the index is the seq
    started,  \* seqs with a "started" row
    done,     \* seqs with a "done" row, ok or not
    claim,    \* process of the last "claim" row, NoOne once it is released
    aged,     \* the store was not written for min_age_s
    alive,
    pc,
    want,     \* kinds a sweep found drainable
    todo,     \* pending seqs a drainer read with its claim
    stage,    \* where the run is
    round,
    faults

tailVars == <<jobs, started, done, claim, aged, alive, pc, want, todo, stage, round, faults>>

Kind == {"learning", "maintenance"}
Stage == {"loop", "closure", "gate", "early", "finish", "inline", "ended"}

TailTypeOK ==
    /\ jobs \in Seq(Kind) /\ Len(jobs) <= 2 * Rounds
    /\ started \subseteq DOMAIN jobs
    /\ done \subseteq DOMAIN jobs
    /\ claim \in Proc \cup {NoOne}
    /\ aged \in BOOLEAN
    /\ alive \subseteq Proc
    /\ pc \in [Proc -> {"idle", "found", "drain", "run", "end"}]
    /\ want \in [Proc -> SUBSET Kind]
    /\ todo \in [Proc -> Seq(DOMAIN jobs)]
    /\ stage \in Stage
    /\ round \in 1..Rounds
    /\ faults \in 0..MaxFaults

TailInit ==
    /\ jobs = <<>>
    /\ started = {}
    /\ done = {}
    /\ claim = NoOne
    /\ aged = FALSE
    /\ alive = Proc \ {Child}
    /\ pc = [p \in Proc |-> "idle"]
    /\ want = [p \in Proc |-> {}]
    /\ todo = [p \in Proc |-> <<>>]
    /\ stage = "loop"
    /\ round = 1
    /\ faults = 0

-----------------------------------------------------------------------------
(* What the rows mean.                                                     *)

Pending == DOMAIN jobs \ done

PendingOf(kinds) == {s \in Pending : jobs[s] \in kinds}

\* Learning comes before maintenance, and by seq in each kind.
Precedes(s, t) ==
    IF jobs[s] = jobs[t] THEN s < t ELSE jobs[s] = "learning"

\* Each of some jobs once, in that order.
InOrder(due) ==
    {q \in [1..Cardinality(due) -> due] : \A i, j \in DOMAIN q : i < j => Precedes(q[i], q[j])}

\* Mutant: jobs with a done row are drained as well.
OrderedAll(kinds) == InOrder({s \in DOMAIN jobs : jobs[s] \in kinds})

\* The list of the pending jobs of some kinds.
Ordered(kinds) == InOrder(PendingOf(kinds))

\* Mutant: a claim is live until it is released, whoever holds it.
LiveForEver == claim # NoOne

\* Mutant: the pid test is always false, as a /proc read is on macOS.
NeverLive == FALSE

\* _live_claim()
LiveClaim == claim \in alive

\* _resweep_safe()
ResweepSafe(s) == jobs[s] = "learning" \/ s \notin started

Drainable == {jobs[s] : s \in {t \in Pending : ResweepSafe(t)}}

\* An append touches the file; one that fails costs a fault.
Fault == faults < MaxFaults /\ faults' = faults + 1

-----------------------------------------------------------------------------
(* A drain: run_jobs() and _run_one().                                     *)

\* The parent's early drain does not ask whether the store is claimed.
Respects(p) == ~(p = Parent /\ stage = "early")

\* Where a process goes when its drain is over.
AfterDrain(p) == IF p = Child THEN "end" ELSE "idle"

\* The run goes on to its next loop, or is over.
ParentMoves == stage' = IF stage = "early" THEN "loop" ELSE "ended"

Leave(p) ==
    /\ pc' = [pc EXCEPT ![p] = AfterDrain(p)]
    /\ want' = [want EXCEPT ![p] = {}]
    /\ IF p = Parent THEN ParentMoves ELSE UNCHANGED stage

\* The claim transaction: nothing to do, claimed by a live process, or claimed now.
ClaimStore(p, kinds) ==
    \/ /\ PendingOf(kinds) = {} \/ (Respects(p) /\ LiveClaim)
       /\ Leave(p)
       /\ UNCHANGED <<claim, aged, todo, faults>>
    \/ /\ PendingOf(kinds) # {} /\ ~(Respects(p) /\ LiveClaim)
       /\ \/ /\ claim' = p
             /\ aged' = FALSE
             /\ \E list \in Ordered(kinds) : todo' = [todo EXCEPT ![p] = list]
             /\ pc' = [pc EXCEPT ![p] = "drain"]
             /\ UNCHANGED <<want, stage, faults>>
          \/ /\ Fault
             /\ Leave(p)
             /\ UNCHANGED <<claim, aged, todo>>

\* Before its runner a job is marked started; maintenance that cannot be
\* marked is skipped, learning runs unmarked.
Begin(p) ==
    /\ pc[p] = "drain" /\ p \in alive /\ todo[p] # <<>>
    /\ LET s == Head(todo[p])
       IN  \/ /\ started' = started \cup {s}
              /\ aged' = FALSE
              /\ pc' = [pc EXCEPT ![p] = "run"]
              /\ UNCHANGED <<todo, faults>>
           \/ /\ Fault
              /\ IF jobs[s] = "learning"
                 THEN pc' = [pc EXCEPT ![p] = "run"] /\ UNCHANGED todo
                 ELSE todo' = [todo EXCEPT ![p] = Tail(@)] /\ UNCHANGED pc
              /\ UNCHANGED <<started, aged>>
    /\ UNCHANGED <<jobs, done, claim, alive, want, stage, round>>

\* The runner returned or raised: done either way, unless the append fails.
FinishJob(p) ==
    /\ pc[p] = "run" /\ p \in alive
    /\ \/ done' = done \cup {Head(todo[p])} /\ aged' = FALSE /\ UNCHANGED faults
       \/ Fault /\ UNCHANGED <<done, aged>>
    /\ todo' = [todo EXCEPT ![p] = Tail(@)]
    /\ pc' = [pc EXCEPT ![p] = "drain"]
    /\ UNCHANGED <<jobs, started, claim, alive, want, stage, round>>

\* The release row, in the finally: the last claim row wins, whose ever it was.
Release(p) ==
    /\ pc[p] = "drain" /\ p \in alive /\ todo[p] = <<>>
    /\ \/ claim' = NoOne /\ aged' = FALSE /\ UNCHANGED faults
       \/ Fault /\ UNCHANGED <<claim, aged>>
    /\ Leave(p)
    /\ UNCHANGED <<jobs, started, done, alive, todo, round>>

-----------------------------------------------------------------------------
(* Who drains.                                                             *)

\* find_stranded(): reads without the lock, and goes on to the next store
\* unless something here is pending, unclaimed and safe to run.
Find(p) ==
    /\ p \in Sweepers \cap alive /\ pc[p] = "idle"
    /\ aged /\ ~LiveClaim /\ Drainable # {}
    /\ pc' = [pc EXCEPT ![p] = "found"]
    /\ want' = [want EXCEPT ![p] = Drainable]
    /\ UNCHANGED <<jobs, started, done, claim, aged, alive, todo, stage, round, faults>>

\* sweep_stranded() drains by the kinds it found, not by the jobs.
Sweep(p) ==
    /\ p \in Sweepers \cap alive /\ pc[p] = "found"
    /\ ClaimStore(p, want[p])
    /\ UNCHANGED <<jobs, started, done, alive, round>>

\* "finalize-tail --handle-id", by the spawned child or an operator.
FinalizeTail(p) ==
    /\ p \in ({Child} \cup Operators) \cap alive /\ pc[p] = "idle"
    /\ ClaimStore(p, Kind)
    /\ UNCHANGED <<jobs, started, done, alive, round>>

\* The parent drains: learning only before it escalates, all when it could not spawn.
DrainHere ==
    /\ Parent \in alive /\ pc[Parent] = "idle"
    /\ \/ stage = "early" /\ ClaimStore(Parent, {"learning"})
       \/ stage = "inline" /\ ClaimStore(Parent, Kind)
    /\ UNCHANGED <<jobs, started, done, alive, round>>

-----------------------------------------------------------------------------
(* The run.                                                                *)

\* _transact() with _next_seq().  What cannot be recorded stays with the caller,
\* who runs it in its own process; it is no part of the store.
RecordJob(kind) ==
    \/ jobs' = Append(jobs, kind) /\ aged' = FALSE /\ UNCHANGED faults
    \/ Fault /\ UNCHANGED <<jobs, aged>>

\* The loop finalizes: record_maintenance().
LoopEnds ==
    /\ stage = "loop" /\ Parent \in alive
    /\ RecordJob("maintenance")
    /\ stage' = "closure"
    /\ UNCHANGED <<started, done, claim, alive, pc, want, todo, round>>

\* Closure: record_learning(), or nothing for a loop whose audit failed.
Judge ==
    /\ stage = "closure" /\ Parent \in alive
    /\ RecordJob("learning") \/ UNCHANGED <<jobs, aged, faults>>
    /\ stage' = "gate"
    /\ UNCHANGED <<started, done, claim, alive, pc, want, todo, round>>

\* The quality gate passes, or asks for one more loop with a better model.
Escalate ==
    /\ stage = "gate" /\ Parent \in alive /\ round < Rounds
    /\ stage' = "early"
    /\ round' = round + 1
    /\ UNCHANGED <<jobs, started, done, claim, aged, alive, pc, want, todo, faults>>

Passes ==
    /\ stage = "gate" /\ Parent \in alive
    /\ stage' = "finish"
    /\ UNCHANGED <<jobs, started, done, claim, aged, alive, pc, want, todo, round, faults>>

\* drain_or_spawn().
\* The spawn row is an append like any other, and nothing reads it.
Dispatch ==
    /\ stage = "finish" /\ Parent \in alive
    /\ \/ Pending = {} /\ stage' = "ended" /\ UNCHANGED <<alive, aged, faults>>
       \/ Pending # {} /\ stage' = "ended" /\ alive' = alive \cup {Child} /\ aged' = FALSE /\ UNCHANGED faults
       \/ Pending # {} /\ Fault /\ stage' = "inline" /\ UNCHANGED <<alive, aged>>
    /\ UNCHANGED <<jobs, started, done, claim, pc, want, todo, round>>

-----------------------------------------------------------------------------
(* Time and death.                                                         *)

Age ==
    /\ ~aged
    /\ aged' = TRUE
    /\ UNCHANGED <<jobs, started, done, claim, alive, pc, want, todo, stage, round, faults>>

Gone(p) ==
    /\ alive' = alive \ {p}
    /\ pc' = [pc EXCEPT ![p] = "end"]
    /\ want' = [want EXCEPT ![p] = {}]
    /\ todo' = [todo EXCEPT ![p] = <<>>]

\* A process that has nothing left to do exits; a heartbeat stays.
Exit(p) ==
    /\ p \in alive
    /\ \/ p = Parent /\ stage = "ended"
       \/ p = Child /\ pc[p] = "end"
       \/ p \in Operators /\ pc[p] = "idle"
    /\ Gone(p)
    /\ UNCHANGED <<jobs, started, done, claim, aged, stage, round, faults>>

Die(p) ==
    /\ p \in alive \cap Mortal
    /\ Gone(p)
    /\ UNCHANGED <<jobs, started, done, claim, aged, stage, round, faults>>

Drain(p) == Begin(p) \/ FinishJob(p) \/ Release(p)

Run == LoopEnds \/ Judge \/ Escalate \/ Passes \/ Dispatch \/ DrainHere

TailNext ==
    \/ Run
    \/ Age
    \/ \E p \in Proc : Drain(p) \/ Find(p) \/ Sweep(p) \/ FinalizeTail(p) \/ Exit(p) \/ Die(p)

TailSpec == TailInit /\ [][TailNext]_tailVars

\* Drains go on unless they die, the heartbeat sweeps on its schedule, time passes,
\* and processes that are through exit.  The run, the operators and the faults owe nothing.
TailFairSpec ==
    /\ TailSpec
    /\ WF_tailVars(Age)
    /\ \A p \in Proc : WF_tailVars(Drain(p)) /\ WF_tailVars(Exit(p))
    /\ \A p \in Sweepers : WF_tailVars(Find(p) \/ Sweep(p))

-----------------------------------------------------------------------------
(* Properties.                                                             *)

Draining(p) == p \in alive /\ pc[p] \in {"drain", "run"}

\* Of the drainers that live at most one holds the store, so no runner is
\* invoked by two processes at once: the claim transaction of run_jobs() must
\* see every claim, the release must not free another's, and a failed append or
\* a death in between must not let a second one in.  So it is until the quality
\* gate escalates: the early drain ignores claims.
OneDrainer == round = 1 => \A p, q \in Proc : Draining(p) /\ Draining(q) => p = q

\* A job with a done row, be it of a runner that raised, is not run again,
\* though a drainer works through a list it read long before (again until the
\* gate escalates).
DoneIsNotRun ==
    [][round = 1 => \A p \in Proc : pc[p] = "drain" /\ pc'[p] = "run" => Head(todo[p]) \notin done]_tailVars

\* "needs_operator": pending, started, and not for a sweep to run.
NeedsOperator(s) == s \in Pending /\ ~ResweepSafe(s)

\* The release row of a process that still lives could not be written.
Withheld == claim \in alive /\ ~Draining(claim)

\* A tail may move in time, never vanish: every recorded job ends up done or on
\* the operator's list, unless a live process withholds the store.
TailFinishes ==
    <>[]Withheld \/ <>[](\A s \in DOMAIN jobs : s \in done \/ NeedsOperator(s))

=============================================================================
