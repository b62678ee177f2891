------------------------------- MODULE DagLane -------------------------------
(***************************************************************************)
(* The parallel lane of a loop: _run_steps_dag and _run_parallel_path of   *)
(* src/src/loop_parallel.py.  A coordinator submits the steps whose        *)
(* prerequisites are settled to a pool of worker threads, consumes their   *)
(* futures one at a time, and gates or releases what waited for them.      *)
(* Workers write their own rows; each row is written under results_lock    *)
(* together with the checkpoint of all rows so far, so that a commit is    *)
(* one step.  A refusal by the environment halts the lane, a timeout makes *)
(* the coordinator stop waiting, though not the workers stop working, and  *)
(* the process may die and its checkpoint be resumed.                      *)
(***************************************************************************)
EXTENDS Naturals, FiniteSets

CONSTANTS
    N,          \* steps of the plan
    Deps,       \* what each step waits for: its [after:] tag, else the step before it
    Declared,   \* the part of it that a tag names
    GateAll,    \* execution.gate_implicit_prerequisites
    Workers,    \* size of the pool
    MaxRuns,    \* bound on the lives of the run: the first and its resumes
    MaxFaults   \* bound on checkpoint writes that fail

Step == 1..N

ASSUME SizeAssumption ==
    N \in Nat \ {0} /\ Workers \in Nat \ {0} /\ MaxRuns \in Nat /\ MaxFaults \in Nat
ASSUME DepsAssumption ==
    /\ Deps \in [Step -> SUBSET Step]
    /\ Declared \in [Step -> SUBSET Step]
    /\ \A i \in Step : Declared[i] \subseteq Deps[i]
    /\ GateAll \in BOOLEAN

VARIABLES
    plan,      \* the steps of this life; the others were done in an earlier one
    bound,     \* what the numbers of its tags name is known in this life
    results,   \* the rows committed in it
    future,    \* where the future of each step is
    answer,    \* what its execution came to, were it never reported
    active,    \* futures the coordinator has not consumed
    released,  \* steps it has discarded from remaining_deps
    phase,     \* where the coordinator is
    todo,      \* steps it still has to write a row for there
    halt,      \* a worker was refused by the environment
    late,      \* steps whose adapter was called after that
    verdict,   \* status of the LoopResult
    saved,     \* steps the checkpoint on disk calls done
    runs,
    faults

lot == <<plan, bound>>
laneVars == <<active, released, phase, todo>>
vars == <<plan, bound, results, future, answer, active, released, phase, todo,
          halt, late, verdict, saved, runs, faults>>

Answer == {"done", "blocked", "refused", "raised"}
Synthetic == {"timeout", "gated", "unstarted", "upstream"}
Row == {"none"} \cup Answer \cup Synthetic

Busy == {"entered", "calling", "merging"}
Settled == {"none", "finished", "raised", "notified"}
Future == Busy \cup Settled \cup {"queued", "cancelled"}

TypeOK ==
    /\ plan \subseteq Step
    /\ bound \in BOOLEAN
    /\ results \in [Step -> Row]
    /\ future \in [Step -> Future]
    /\ answer \in [Step -> Answer \cup {"none"}]
    /\ active \subseteq plan
    /\ released \subseteq plan
    /\ phase \in {"submit", "wait", "expire", "fill", "returned", "dead"}
    /\ todo \subseteq plan
    /\ halt \in BOOLEAN
    /\ late \subseteq Step
    /\ verdict \in {"none", "done", "stuck", "interrupted"}
    /\ saved \subseteq Step
    /\ runs \in 1..(MaxRuns + 1)
    /\ faults \in 0..MaxFaults

NoRows == [i \in Step |-> "none"]

\* What a life of the lane starts with, whatever plan and rows it is given.
Fresh ==
    /\ results' = NoRows
    /\ future' = NoRows
    /\ answer' = NoRows
    /\ active' = {} /\ released' = {} /\ todo' = {} /\ late' = {}
    /\ halt' = FALSE /\ verdict' = "none"

Init ==
    /\ plan = Step /\ bound = TRUE
    /\ results = NoRows /\ future = NoRows /\ answer = NoRows /\ saved = {}
    /\ active = {} /\ released = {} /\ todo = {} /\ late = {}
    /\ phase = "submit" /\ halt = FALSE /\ verdict = "none"
    /\ runs = 1 /\ faults = 0

-----------------------------------------------------------------------------
(* Rows and the checkpoint.                                                *)

\* Mutant: the checkpoint is written from this life's rows alone.
SnapshotOfLife(rows) == {i \in plan : rows[i] = "done"}

\* The carried rows, and those of this life after them; only "done" finishes a
\* position of the plan.
Snapshot(rows) == (Step \ plan) \cup {i \in plan : rows[i] = "done"}

\* on_progress: write_checkpoint() swallows its failures.
Progress(rows) ==
    \/ saved' = Snapshot(rows) /\ UNCHANGED faults
    \/ faults < MaxFaults /\ faults' = faults + 1 /\ UNCHANGED saved

Commit(i, row) ==
    /\ results' = [results EXCEPT ![i] = row]
    /\ Progress(results')

Committed(i) == results[i] # "none"

-----------------------------------------------------------------------------
(* The workers.                                                            *)

Free == Cardinality({i \in Step : future[i] \in Busy}) < Workers

Move(i, to) == future' = [future EXCEPT ![i] = to]

\* Mutant: a worker starts whatever was submitted.
BeginBlind(i) ==
    /\ future[i] = "queued" /\ Free
    /\ Move(i, "entered")
    /\ UNCHANGED <<lot, results, answer, laneVars, halt, late, verdict, saved, runs, faults>>

\* A thread takes a submitted step and asks once whether the lane is halted.
Begin(i) ==
    /\ future[i] = "queued" /\ Free /\ ~halt
    /\ Move(i, "entered")
    /\ UNCHANGED <<lot, results, answer, laneVars, halt, late, verdict, saved, runs, faults>>

\* It is: the row says so, over a synthetic one if there is one.
NotStarted(i) ==
    /\ future[i] = "queued" /\ Free /\ halt
    /\ Commit(i, "unstarted")
    /\ Move(i, "finished")
    /\ UNCHANGED <<lot, answer, laneVars, halt, late, verdict, runs>>

\* It takes a cancelled one and only tells the waiters.
Notify(i) ==
    /\ future[i] = "cancelled" /\ Free
    /\ Move(i, "notified")
    /\ UNCHANGED <<lot, results, answer, laneVars, halt, late, verdict, saved, runs, faults>>

\* _execute_step() reaches the adapter.
Call(i) ==
    /\ future[i] = "entered"
    /\ Move(i, "calling")
    /\ late' = IF halt THEN late \cup {i} ELSE late
    /\ UNCHANGED <<lot, results, answer, laneVars, halt, verdict, saved, runs, faults>>

\* It returns, and a refusal is published before anything else is done.
Return(i) ==
    /\ future[i] = "calling"
    /\ \E oc \in {"done", "blocked", "refused"} :
        /\ answer' = [answer EXCEPT ![i] = oc]
        /\ halt' = (halt \/ oc = "refused")
    /\ Move(i, "merging")
    /\ UNCHANGED <<lot, results, laneVars, late, verdict, saved, runs, faults>>

\* It raises, the worktree is kept, and so does the future.
Raise(i) ==
    /\ future[i] = "calling"
    /\ answer' = [answer EXCEPT ![i] = "raised"]
    /\ Move(i, "raised")
    /\ UNCHANGED <<lot, results, laneVars, halt, late, verdict, saved, runs, faults>>

\* A failed merge_back() blocks the step, and leaves the error class of a refusal
\* alone.  The worker writes its row, over a synthetic one if there is one.
Land(i) ==
    /\ future[i] = "merging"
    /\ \E merged \in BOOLEAN :
        LET row == IF answer[i] = "done" /\ ~merged THEN "blocked" ELSE answer[i]
        IN answer' = [answer EXCEPT ![i] = row] /\ Commit(i, row)
    /\ Move(i, "finished")
    /\ UNCHANGED <<lot, laneVars, halt, late, verdict, runs>>

Worker(i) ==
    Begin(i) \/ NotStarted(i) \/ Notify(i) \/ Call(i) \/ Return(i) \/ Raise(i) \/ Land(i)

-----------------------------------------------------------------------------
(* The coordinator.                                                        *)

\* parse_dependencies() of the steps S numbered anew: a tag's numbers, written for
\* the whole plan, are read as places among S, so that they may name another step,
\* or itself; a step with a number beyond S waits for ever, as for itself.
Place(S, i) == Cardinality({j \in S : j <= i})

Renumbered(S, i) ==
    IF Declared[i] = {} THEN {j \in S : Place(S, j) + 1 = Place(S, i)}
    ELSE {j \in S : Place(S, j) \in Declared[i]}
         \cup {j \in {i} : ~(Declared[i] \subseteq 1..Cardinality(S))}

\* What the steps of this life are scheduled by: the edges of the plan, re-keyed
\* (remap_suffix_deps), or without a binding what their tags seem to say.
WaitsFor(i) == IF bound THEN Deps[i] \cap plan ELSE Renumbered(plan, i)

\* Without a binding no edge gates an outcome.
Enforced(i, d) == bound /\ d \in Deps[i] /\ (GateAll \/ d \in Declared[i])

\* Mutant: whatever ended, its dependents are released.
GatedNever(i, free) == {}

\* What an unmet step i blocks among the steps not started: the least set that
\* holds whoever has an enforced edge to i or to a member of it.
Gated(i, free) ==
    LET Closed(S) == \A j \in free : (\E d \in S \cup {i} : Enforced(j, d)) => j \in S
    IN {j \in free : \A S \in SUBSET free : Closed(S) => j \in S}

Ready == {i \in plan \ active : ~Committed(i) /\ WaitsFor(i) \subseteq released}

\* _submit_ready(), once the rows of gated steps are written.
Submit ==
    /\ phase = "submit" /\ todo = {}
    /\ active' = active \cup Ready
    /\ future' = [i \in Step |-> IF i \in active' \ active THEN "queued" ELSE future[i]]
    /\ phase' = "wait"
    /\ UNCHANGED <<lot, results, answer, released, todo, halt, late, verdict, saved, runs, faults>>

\* Mutant: a cancelled future is not taken for a completed one.
ConsumableUncancelled(i) == i \in active /\ future[i] \in {"finished", "raised"}

\* What as_completed() yields.
Consumable(i) == i \in active /\ future[i] \in {"finished", "raised", "notified"}

\* One future is consumed; its step has a row, or gets one here.
RowFor(i) ==
    IF future[i] = "finished" THEN results[i]
    ELSE IF future[i] = "raised" THEN "raised" ELSE "unstarted"

RowOfFuture(i) ==
    IF Committed(i) THEN UNCHANGED <<results, saved, faults>> ELSE Commit(i, RowFor(i))

\* The lane is halted: what has not begun is cancelled, nothing is released.
ReapHalted(i) ==
    /\ phase = "wait" /\ Consumable(i) /\ halt
    /\ RowOfFuture(i)
    /\ active' = active \ {i}
    /\ future' = [j \in Step |-> IF j \in active' /\ future[j] = "queued" THEN "cancelled" ELSE future[j]]
    /\ UNCHANGED <<lot, answer, released, phase, todo, halt, late, verdict, runs>>

\* Otherwise an unmet step gates its enforced dependents, and so do these; what
\* is left over is released.
Reap(i) ==
    /\ phase = "wait" /\ Consumable(i) /\ ~halt
    /\ RowOfFuture(i)
    /\ active' = active \ {i}
    /\ todo' = IF RowFor(i) = "done" THEN {}
               ELSE Gated(i, {j \in plan \ active : ~Committed(j)})
    /\ released' = released \cup {i} \cup todo'
    /\ phase' = "submit"
    /\ UNCHANGED <<lot, future, answer, halt, late, verdict, runs>>

Gate(i) ==
    /\ phase = "submit" /\ i \in todo
    /\ Commit(i, "gated")
    /\ todo' = todo \ {i}
    /\ UNCHANGED <<lot, future, answer, active, released, phase, halt, late, verdict, runs>>

\* MARO_STEP_TIMEOUT went by and no future was done.
TimedOut ==
    /\ phase = "wait" /\ active # {}
    /\ \A i \in Step : ~Consumable(i)
    /\ phase' = "expire"
    /\ todo' = active
    /\ UNCHANGED <<lot, results, future, answer, active, released, halt, late, verdict, saved, runs, faults>>

\* Mutant: the row of a timeout is written whatever is there.
ExpireAnyway(i) ==
    /\ phase = "expire" /\ i \in todo
    /\ Commit(i, "timeout")
    /\ todo' = todo \ {i}
    /\ UNCHANGED <<lot, future, answer, active, released, phase, halt, late, verdict, runs>>

\* A worker's row that landed in between is left alone.
Expire(i) ==
    /\ phase = "expire" /\ i \in todo
    /\ IF Committed(i) THEN UNCHANGED <<results, saved, faults>> ELSE Commit(i, "timeout")
    /\ todo' = todo \ {i}
    /\ UNCHANGED <<lot, future, answer, active, released, phase, halt, late, verdict, runs>>

\* The pool's exit waits for all that was submitted, which runs to its end also
\* after a timeout.
LeavePool ==
    /\ \/ phase = "wait" /\ active = {}
       \/ phase = "expire" /\ todo = {}
    /\ \A i \in Step : future[i] \in Settled
    /\ phase' = "fill"
    /\ todo' = {i \in plan : ~Committed(i)}
    /\ UNCHANGED <<lot, results, future, answer, active, released, halt, late, verdict, saved, runs, faults>>

Fill(i) ==
    /\ phase = "fill" /\ i \in todo /\ \A j \in todo : i <= j
    /\ Commit(i, IF halt THEN "unstarted" ELSE "upstream")
    /\ todo' = todo \ {i}
    /\ UNCHANGED <<lot, future, answer, active, released, phase, halt, late, verdict, runs>>

\* _run_parallel_path(): a refusal makes the run interrupted, any other row that
\* is not done makes it stuck; the checkpoint is written once more.
Report ==
    /\ phase = "fill" /\ todo = {}
    /\ verdict' = IF \E i \in plan : results[i] = "refused" THEN "interrupted"
                  ELSE IF \E i \in plan : results[i] # "done" THEN "stuck" ELSE "done"
    /\ phase' = "returned"
    /\ Progress(results)
    /\ UNCHANGED <<lot, results, future, answer, active, released, todo, halt, late, runs>>

Coordinator ==
    \/ Submit \/ LeavePool \/ Report
    \/ \E i \in Step : ReapHalted(i) \/ Reap(i) \/ Gate(i) \/ Expire(i) \/ Fill(i)

-----------------------------------------------------------------------------
(* Death and resume.                                                       *)

Crash ==
    /\ phase \notin {"returned", "dead"}
    /\ Fresh
    /\ phase' = "dead"
    /\ UNCHANGED <<lot, saved, runs, faults>>

\* use_dag: some two steps of the plan could run at once, after others T none of
\* which waits for ever.
Parallel ==
    \E T \in SUBSET plan :
        /\ \A i \in T : WaitsFor(i) \subseteq T
        /\ \A S \in SUBSET T : S = {} \/ \E i \in S : WaitsFor(i) \cap S = {}
        /\ \E i, j \in plan \ T : i # j /\ WaitsFor(i) \cup WaitsFor(j) \subseteq T

\* A blocked row is a step to be done again.
Remaining == Step \ saved

\* maro resume, with the rows of the checkpoint in front of what is left of the
\* plan.  Its file may lack the binding of the numbers (a plan that was reshaped, or
\* that names one item twice, or a file that is older), and what is resumed without
\* one is saved without one.
Resume ==
    /\ phase \in {"returned", "dead"} /\ verdict # "done"
    /\ runs <= MaxRuns
    /\ Fresh
    /\ plan' = Remaining
    /\ bound' \in BOOLEAN /\ (bound' => bound)
    /\ Parallel'
    /\ phase' = "submit"
    /\ runs' = runs + 1
    /\ UNCHANGED <<saved, faults>>

Next ==
    \/ \E i \in Step : Worker(i)
    \/ Coordinator \/ TimedOut \/ Crash \/ Resume

Spec == Init /\ [][Next]_vars

\* Some thread goes on, for adapters return (each call has a timeout of its own), or
\* the coordinator does; nobody has to die, resume or be late, and the timeout is not
\* counted on.
FairSpec == Spec /\ WF_vars(Coordinator \/ \E i \in Step : Worker(i))

-----------------------------------------------------------------------------
(* Properties.                                                             *)

\* No step is begun, or even submitted, before every step it waits for has a
\* row, and before those an enforced edge names are done: not by a timeout, a
\* release of soft dependents, a gate that reaches it over other steps, or a
\* resume that carries the binding of the numbers (a prerequisite outside the plan
\* was done in an earlier life).  After a resume without it, only what the tags
\* seem to name comes first, whatever it came to.
PrerequisitesFirst ==
    \A i \in plan : future[i] # "none" =>
        /\ \A d \in WaitsFor(i) : Committed(d)
        /\ \A d \in plan : Enforced(i, d) => results[d] = "done"

\* When the lane returns, every step has a row; a step that was executed has the
\* row of what it came to, a row of the scheduler never in its place, however a
\* timeout, a gate and a late worker raced (one that raised may be called late);
\* and the run is paused exactly if the environment refused a step.
ReportIsTrue ==
    phase = "returned" =>
        /\ \A i \in plan :
            /\ Committed(i)
            /\ answer[i] \notin {"none", "raised"} => results[i] = answer[i]
            /\ results[i] = "done" => answer[i] = "done"
        /\ verdict = "interrupted" <=> \E i \in plan : answer[i] = "refused"
        /\ verdict = "done" <=> \A i \in plan : answer[i] = "done"

\* Once the environment has refused one step, at most the others that threads
\* had already begun still reach the adapter.
PauseHolds == Cardinality(late) < Workers

Executes(i) == future[i] = "entered" /\ future'[i] = "calling"

\* A step the checkpoint calls done stays done in it, whichever thread writes it,
\* whatever writes failed before, over crashes and resumes, and is not executed
\* again, in this life or a later one.
CheckpointAdvances == [][saved \subseteq saved' /\ \A i \in saved : ~Executes(i)]_vars

\* The lane comes to an end, and does not wait for ever for a future that was
\* cancelled, gated or late.
LaneReturns == (phase = "submit") ~> (phase \in {"returned", "dead"})
=============================================================================
