------------------------------ MODULE StepLoop ------------------------------
(***************************************************************************)
(* The execute loop of a run: _execute_main_loop of src/src/loop_execute.py *)
(* with the recovery tree of loop_blocked.py and the boundary work of      *)
(* loop_post_step.py.  The loop takes the plan's steps one at a time, runs *)
(* each in a prompt that carries the context pending for it, judges the    *)
(* outcome, and may retry the step, replace it by smaller ones, give up on *)
(* it or on the run; between two steps the operator may speak.  Parallel   *)
(* batches and the director's adaptive execution (off by default) are left *)
(* out.  What a step says, and why, is a choice of the environment.        *)
(***************************************************************************)
EXTENDS Naturals, Sequences

CONSTANTS
    Plan,            \* the plan has steps 1..Plan
    After,           \* After[s]: the steps that step s declares with [after:...]
    MaxIterations,   \* the run's max_iterations
    BumpBy,          \* what the one bump adds to it (ten or more in the code)
    MaxStep,         \* bound on the steps ever drawn up, the plan's included
    MaxExpansions,   \* boundary and milestone steps in the plan
    MaxInterrupts,   \* bound on the operator's changes of the plan
    Notes,           \* the operator's notes
    Strict,          \* a budget breach is not softened (ladder off, or a budget of zero)
    Advisor,         \* advisor.stuck_step
    Intact,          \* the plan's numbers are bound to its items: it was not reshaped, no item is twice in it
    LastPass         \* this pass is at the depth where a continuation escalates

ASSUME StepAssumption ==
    /\ Plan \in Nat \ {0} /\ MaxStep \in Nat /\ MaxStep >= Plan
    /\ After \in [1..Plan -> SUBSET (1..Plan)]
    /\ \A s \in 1..Plan : \A d \in After[s] : d < s

ASSUME BoundAssumption ==
    /\ MaxIterations \in Nat /\ BumpBy \in Nat
    /\ MaxExpansions \in Nat /\ MaxInterrupts \in Nat
    /\ {Strict, Advisor, Intact, LastPass} \subseteq BOOLEAN

VARIABLES
    pc,
    remaining,   \* the steps ahead
    current,     \* the step taken from them
    result,      \* what the current step came to
    drawn,       \* steps drawn up so far are 1..drawn
    superseded,  \* gate_superseded: steps whose work others carry on
    gone,        \* steps that left the plan for others, or by a decision of the operator
    rows,        \* step_outcomes: how many, how many done, how many in the checkpoint
    outcome,     \* the latest row of each step
    iteration,
    limit,       \* max_iterations, once bumped
    retries,     \* per step
    reruns,      \* per step: re-runs for an environment request, and for a bad question
    streak,      \* the last outcome, and how often it has repeated
    timeouts,    \* consecutive
    replans,     \* up to the two that matter
    extensions,  \* of the budget
    expansions,
    interrupts,  \* the operator's changes of the plan so far
    pending,     \* the ledger: notes no prompt has carried
    delivered,   \* notes in the prompt of the current step
    reached,     \* notes that were in a prompt whose step was not taken back
    logged,      \* notes the exit wrote to the decision log
    posted,      \* notes given
    status, stop, pause,
    child        \* the task enqueued for the remaining steps

vars == <<pc, remaining, current, result, drawn, superseded, gone, rows, outcome,
          iteration, limit, retries, reruns, streak, timeouts, replans, extensions,
          expansions, interrupts, pending, delivered, reached, logged, posted,
          status, stop, pause, child>>

steps == <<remaining, drawn, superseded, gone>>
record == <<rows, outcome>>
tries == <<retries, reruns, timeouts, replans>>
limits == <<limit, extensions, expansions, interrupts>>
ledger == <<pending, delivered, reached>>
ended == <<logged, posted>>
ending == <<status, stop, pause, child>>

Synthesis == 0                  \* the step a landing puts in place of the rest
Research == MaxStep + 1         \* "Research: ..." in front of a step that lacks information
Step == 0..(MaxStep + 1)

Verdict == {"done", "blocked", "skipped"}
StopVerdict == {"out-of-budget", "thesis-refuted", "external-interrupt"}
PauseReason == {"environment", "clarification", "budget-decision", "manual"}

TypeOK ==
    /\ pc \in {"head", "picked", "run", "judge", "boundary", "poll", "exit", "end"}
    /\ remaining \in Seq(Step)
    /\ current \in Step
    /\ result \in {"none", "done", "blocked", "demoted"}
    /\ drawn \in Plan..MaxStep
    /\ superseded \subseteq Step /\ gone \subseteq Step
    /\ rows \in [all : Nat, done : Nat, saved : Nat]
    /\ rows.done <= rows.all /\ rows.saved <= rows.all
    /\ outcome \in [Step -> Verdict \cup {"none", "attempt"}]
    /\ iteration \in 0..limit
    /\ limit \in {MaxIterations, MaxIterations + BumpBy}
    /\ retries \in [Step -> 0..3]
    /\ reruns \in [Step -> [env : 0..2, ask : 0..1]]
    /\ streak \in [step : Step, done : BOOLEAN, again : 0..2]
    /\ timeouts \in 0..3 /\ replans \in 0..2 /\ extensions \in 0..2
    /\ expansions \in 0..MaxExpansions /\ interrupts \in 0..MaxInterrupts
    /\ pending \subseteq Notes /\ delivered \subseteq Notes
    /\ reached \subseteq Notes /\ logged \subseteq Notes /\ posted \subseteq Notes
    /\ status \in {"done", "stuck", "interrupted"}
    /\ stop \in StopVerdict \cup {"none"}
    /\ pause \in PauseReason \cup {"none"}
    /\ child \in {"none", "continuation", "escalation"}

Init ==
    /\ pc = "head"
    /\ remaining = [s \in 1..Plan |-> s]
    /\ current = Synthesis
    /\ result = "none"
    /\ drawn = Plan
    /\ superseded = {} /\ gone = {}
    /\ rows = [all |-> 0, done |-> 0, saved |-> 0]
    /\ outcome = [s \in Step |-> "none"]
    /\ iteration = 0
    /\ limit = MaxIterations
    /\ retries = [s \in Step |-> 0]
    /\ reruns = [s \in Step |-> [env |-> 0, ask |-> 0]]
    /\ streak = [step |-> Synthesis, done |-> FALSE, again |-> 0]
    /\ timeouts = 0 /\ replans = 0 /\ extensions = 0 /\ expansions = 0 /\ interrupts = 0
    /\ pending = {} /\ delivered = {} /\ reached = {} /\ logged = {} /\ posted = {}
    /\ status = "done" /\ stop = "none" /\ pause = "none" /\ child = "none"

-----------------------------------------------------------------------------
(* Ways to leave a step, and the plan.                                     *)

Smaller(a, b) == IF a < b THEN a ELSE b
In(s) == {s[i] : i \in 1..Len(s)}

\* Mutant: the last cause wins.
StampStopLast(v) == stop' = v

\* stamp_stop(), stamp_pause(): the first cause stands.
StampStop(v) == stop' = IF stop = "none" THEN v ELSE stop
StampPause(r) == pause' = IF pause = "none" THEN r ELSE pause

\* A row of the current step at the end of step_outcomes.
Row(o) ==
    /\ outcome' = [outcome EXCEPT ![current] = o]
    /\ rows' = [rows EXCEPT !.all = @ + 1, !.done = IF o = "done" THEN @ + 1 ELSE @]

\* The row is in the checkpoint too.
RowSaved(o) ==
    /\ outcome' = [outcome EXCEPT ![current] = o]
    /\ rows' = [all |-> rows.all + 1, saved |-> rows.all + 1,
                done |-> IF o = "done" THEN rows.done + 1 ELSE rows.done]

\* The prompt of the current step was its last: what it carried has reached it.
Keep ==
    /\ reached' = reached \cup delivered
    /\ delivered' = {}
    /\ UNCHANGED pending

\* Mutant: the blocked step's context is not armed again.
RearmNothing ==
    /\ delivered' = {}
    /\ UNCHANGED <<pending, reached>>

\* Another prompt takes over: what this one carried is pending again.
Rearm ==
    /\ pending' = pending \cup delivered
    /\ delivered' = {}
    /\ UNCHANGED reached

\* Mutant: the step that is to be retried was popped, and stays so.
RequeueNever == UNCHANGED steps

\* The current step comes next again.
Requeue ==
    /\ remaining' = <<current>> \o remaining
    /\ UNCHANGED <<drawn, superseded, gone>>

\* Two fresh steps come next, for the current one.
Break ==
    /\ drawn + 2 <= MaxStep
    /\ drawn' = drawn + 2
    /\ remaining' = <<drawn + 1, drawn + 2>> \o remaining
    /\ gone' = gone \cup {current}

\* The loop ends in the middle of a step.
BreakOff(st) ==
    /\ status' = st
    /\ Keep
    /\ pc' = "exit"
    /\ UNCHANGED <<current, result, child, iteration, streak>>
    /\ UNCHANGED <<steps, tries, limits, ended>>

-----------------------------------------------------------------------------
(* The head of the loop.                                                   *)

\* Mutant: the ceiling hands the work on and does not leave the loop.
CeilingStays ==
    /\ pc = "head" /\ remaining # <<>> /\ iteration >= limit
    /\ status' = "stuck"
    /\ StampStop("out-of-budget")
    /\ child' \in {"none", IF LastPass THEN "escalation" ELSE "continuation"}
    /\ UNCHANGED <<pc, current, result, pause, iteration, streak>>
    /\ UNCHANGED <<steps, record, tries, limits, ledger, ended>>

\* The handed-on work is enqueued unless the task store fails.
Ceiling ==
    /\ pc = "head" /\ remaining # <<>> /\ iteration >= limit
    /\ status' = "stuck"
    /\ StampStop("out-of-budget")
    /\ child' \in {"none", IF LastPass THEN "escalation" ELSE "continuation"}
    /\ pc' = "exit"
    /\ UNCHANGED <<current, result, pause, iteration, streak>>
    /\ UNCHANGED <<steps, record, tries, limits, ledger, ended>>

PlanEnds ==
    /\ pc = "head" /\ remaining = <<>>
    /\ pc' = "exit"
    /\ UNCHANGED <<current, result, iteration, streak>>
    /\ UNCHANGED <<steps, record, tries, limits, ledger, ended, ending>>

\* Three quarters of the budget used, more than two steps ahead, half of the rows done.
Bumps ==
    /\ limit = MaxIterations
    /\ Len(remaining) > 2
    /\ iteration >= (3 * limit) \div 4
    /\ rows.done > 0 /\ 2 * rows.done >= rows.all

Bump ==
    /\ pc = "head" /\ iteration < limit /\ Bumps
    /\ limit' = limit + BumpBy
    /\ UNCHANGED <<pc, current, result, iteration, streak, extensions, expansions, interrupts>>
    /\ UNCHANGED <<steps, record, tries, ledger, ended, ending>>

Lands ==
    /\ limit - iteration <= 2
    /\ Len(remaining) > 1
    /\ rows.all >= 3 /\ rows.done >= 2

\* One synthesis step replaces the rest; the verdict keeps that visible.
Land ==
    /\ pc = "head" /\ iteration < limit /\ ~Bumps /\ Lands
    /\ remaining' = <<Synthesis>>
    /\ gone' = (gone \cup In(remaining)) \ {Synthesis}
    /\ replans' = Smaller(replans + 1, 2)
    /\ StampStop("out-of-budget")
    /\ UNCHANGED <<pc, current, result, drawn, superseded, iteration, retries, reruns, timeouts>>
    /\ UNCHANGED <<streak, status, pause, child>>
    /\ UNCHANGED <<record, limits, ledger, ended>>

Take ==
    /\ pc = "head" /\ remaining # <<>> /\ iteration < limit /\ ~Bumps /\ ~Lands
    /\ current' = Head(remaining)
    /\ remaining' = Tail(remaining)
    /\ result' = "none"
    /\ pc' = "picked"
    /\ UNCHANGED <<drawn, superseded, gone, iteration, streak>>
    /\ UNCHANGED <<record, tries, limits, ledger, ended, ending>>

\* Mutant: a skipped step counts as no outcome.
UnmetBlocked(s) ==
    /\ Intact /\ s \in 1..Plan
    /\ \E d \in After[s] : d \notin superseded /\ outcome[d] \in {"attempt", "blocked"}

\* prerequisite_verdict(): a step the plan declares to come first has a row that
\* says blocked or skipped.  A step without a row does not gate; and when the plan's
\* identity is not intact the verdict is logged and the step runs.
Unmet(s) ==
    /\ Intact /\ s \in 1..Plan
    /\ \E d \in After[s] : d \notin superseded /\ outcome[d] \in {"attempt", "blocked", "skipped"}

Refuse ==
    /\ pc = "picked" /\ Unmet(current)
    /\ iteration' = iteration + 1
    /\ RowSaved("blocked")
    /\ pc' = "head"
    /\ UNCHANGED <<current, result, streak>>
    /\ UNCHANGED <<steps, tries, limits, ledger, ended, ending>>

\* A boundary or a milestone step is replaced before it runs.  Milestones go by the number
\* the step will get, so any step may be met there, a retried one or the synthesis step.
Expand ==
    /\ pc = "picked" /\ ~Unmet(current)
    /\ expansions < MaxExpansions
    /\ expansions' = expansions + 1
    /\ Break
    /\ pc' = "head"
    /\ UNCHANGED <<current, result, superseded, iteration, streak, limit, extensions, interrupts>>
    /\ UNCHANGED <<record, tries, ledger, ended, ending>>

\* A milestone that cannot be expanded, skipped on the advisor's word.
SkipMilestone ==
    /\ pc = "picked" /\ ~Unmet(current)
    /\ expansions < MaxExpansions
    /\ expansions' = expansions + 1
    /\ Row("skipped")
    /\ pc' = "head"
    /\ UNCHANGED <<current, result, iteration, streak, limit, extensions, interrupts>>
    /\ UNCHANGED <<steps, tries, ledger, ended, ending>>

\* A step that runs and analyses at once is split before its prompt.
SplitCompound ==
    /\ pc = "picked" /\ ~Unmet(current)
    /\ iteration' = iteration + 1
    /\ Break
    /\ pc' = "head"
    /\ UNCHANGED <<current, result, superseded, streak>>
    /\ UNCHANGED <<record, tries, limits, ledger, ended, ending>>

\* The ledger is drained into the prompt, once.
Start ==
    /\ pc = "picked" /\ ~Unmet(current)
    /\ iteration' = iteration + 1
    /\ delivered' = pending
    /\ pending' = {}
    /\ pc' = "run"
    /\ UNCHANGED <<current, result, streak, reached>>
    /\ UNCHANGED <<steps, record, tries, limits, ended, ending>>

-----------------------------------------------------------------------------
(* What a prompt comes to.                                                 *)

\* budget_runaway: the adapter refused a call in the middle of the step.
Runaway ==
    /\ pc = "run"
    /\ StampStop("out-of-budget")
    /\ BreakOff("stuck")
    /\ UNCHANGED <<pause, record>>

\* An environment request that is answered, or ignored with a note.
RunOnNewLayer ==
    /\ pc = "run" /\ reruns[current].env < 2
    /\ reruns' = [reruns EXCEPT ![current].env = @ + 1]
    /\ Requeue
    /\ Rearm
    /\ pc' = "head"
    /\ UNCHANGED <<current, result, iteration, streak, retries, timeouts, replans>>
    /\ UNCHANGED <<record, limits, ended, ending>>

\* A question that fails its checks goes back to the step, once.
BounceQuestion ==
    /\ pc = "run" /\ reruns[current].ask < 1
    /\ reruns' = [reruns EXCEPT ![current].ask = @ + 1]
    /\ Requeue
    /\ Rearm
    /\ pc' = "head"
    /\ UNCHANGED <<current, result, iteration, streak, retries, timeouts, replans>>
    /\ UNCHANGED <<record, limits, ended, ending>>

\* The environment refuses the step, or the step asks the operator.
Pause(r) ==
    /\ pc = "run" /\ r \in {"environment", "clarification"}
    /\ StampPause(r)
    /\ Row("blocked")
    /\ BreakOff("interrupted")
    /\ UNCHANGED stop

Breachable(raw) == remaining # <<>> \/ raw # "done"

\* A third breach of a budget: no row is written.
BudgetPause(raw, breaches) ==
    /\ pc = "run" /\ Breachable(raw)
    /\ breaches \in 1..2 /\ extensions + breaches > 2
    /\ StampPause("budget-decision")
    /\ status' = "interrupted"
    /\ extensions' = 2
    /\ Keep
    /\ pc' = "exit"
    /\ UNCHANGED <<current, result, iteration, streak, limit, expansions, interrupts, stop, child>>
    /\ UNCHANGED <<steps, record, tries, ended>>

BudgetKill(raw) ==
    /\ pc = "run" /\ Strict /\ Breachable(raw)
    /\ StampStop("out-of-budget")
    /\ BreakOff("stuck")
    /\ UNCHANGED <<pause, record>>

\* The token and the cost budget are weighed; then the fences and the verifier may
\* demote what the step calls done, and the outcome is compared with the last ones.
Weigh(raw, res, breaches) ==
    /\ pc = "run"
    /\ res = raw \/ (raw = "done" /\ res = "demoted")
    /\ breaches \in 0..2 /\ extensions + breaches <= 2
    /\ breaches > 0 => Breachable(raw)
    /\ extensions' = extensions + breaches
    /\ result' = res
    /\ LET now == [step |-> current, done |-> res = "done", again |-> 0]
       IN  streak' = IF [streak EXCEPT !.again = 0] = now
                     THEN [streak EXCEPT !.again = Smaller(@ + 1, 2)] ELSE now
    /\ pc' = "judge"
    /\ UNCHANGED <<current, iteration, limit, expansions, interrupts>>
    /\ UNCHANGED <<steps, record, tries, ledger, ended, ending>>

Judging == pc = "judge" /\ streak.again < 2
Blocked == Judging /\ result \in {"blocked", "demoted"}

\* The same outcome of the same step for the third time.
Stuck ==
    /\ pc = "judge" /\ streak.again = 2
    /\ StampStop("thesis-refuted")
    /\ Row("blocked")
    /\ BreakOff("stuck")
    /\ UNCHANGED pause

\* The advisor answers "(b)": the streak starts again, and so does the loop.
Advise ==
    /\ Advisor
    /\ pc = "judge" /\ streak.again = 2
    /\ streak' = [streak EXCEPT !.again = 0]
    /\ Row("attempt")
    /\ Keep
    /\ pc' = "head"
    /\ UNCHANGED <<current, result, iteration>>
    /\ UNCHANGED <<steps, tries, limits, ended, ending>>

\* _process_done_step(): a done step may put steps in front of the rest.
FinishStep(inject) ==
    /\ Judging /\ result = "done"
    /\ RowSaved("done")
    /\ inject \in 0..1 /\ drawn + inject <= MaxStep
    /\ drawn' = drawn + inject
    /\ remaining' = [i \in 1..inject |-> drawn + i] \o remaining
    /\ timeouts' = 0
    /\ Keep
    /\ pc' = "boundary"
    /\ UNCHANGED <<current, result, superseded, gone, iteration, streak, retries, reruns, replans>>
    /\ UNCHANGED <<limits, ended, ending>>

\* token_runaway: the step dies, the run goes on.
Abandon ==
    /\ Judging /\ result = "blocked"
    /\ RowSaved("blocked")
    /\ Keep
    /\ pc' = "boundary"
    /\ UNCHANGED <<current, result, iteration, streak>>
    /\ UNCHANGED <<steps, tries, limits, ended, ending>>

Retry ==
    /\ Blocked /\ retries[current] < 3
    /\ retries' = [retries EXCEPT ![current] = @ + 1]
    /\ Requeue
    /\ Rearm
    /\ Row("attempt")
    /\ pc' = "head"
    /\ UNCHANGED <<current, result, iteration, streak, reruns, timeouts, replans>>
    /\ UNCHANGED <<limits, ended, ending>>

\* The step's work goes to the steps that come next in its place.
Supersede ==
    /\ superseded' = superseded \cup {current}
    /\ Rearm
    /\ Row("attempt")
    /\ replans' = Smaller(replans + 1, 2)
    /\ pc' = "head"
    /\ UNCHANGED <<current, result, iteration, streak, retries, reruns>>
    /\ UNCHANGED <<limits, ended, ending>>

Redecompose ==
    /\ Blocked /\ replans < 2
    /\ Break
    /\ Supersede
    /\ UNCHANGED timeouts

\* A combined step, split by its shape.
SplitShape ==
    /\ Blocked
    /\ Break
    /\ timeouts' = 0
    /\ Supersede

\* NEED_INFO: a research step, then the same step again, which no longer is an item of
\* the plan.  What it asks for may speak of a timeout.
SplitForInfo ==
    /\ Blocked /\ result = "blocked"
    /\ remaining' = <<Research, current>> \o remaining
    /\ timeouts' = 0 \/ (timeouts < 2 /\ timeouts' = timeouts + 1)
    /\ Supersede
    /\ UNCHANGED <<drawn, gone>>

SplitOnTimeout ==
    /\ Blocked /\ result = "blocked" /\ timeouts < 2
    /\ timeouts' = timeouts + 1
    /\ Break
    /\ Supersede

\* The third timeout in a row: the adapter seems to hang.
Hung ==
    /\ Blocked /\ result = "blocked" /\ timeouts >= 2
    /\ timeouts' = timeouts + 1
    /\ status' = "stuck"
    /\ StampStop("external-interrupt")
    /\ Keep
    /\ pc' = "exit"
    /\ UNCHANGED <<current, result, iteration, streak, retries, reruns, replans, pause, child>>
    /\ UNCHANGED <<steps, record, limits, ended>>

\* Mutant: the replan that failed leaves no verdict.
CausesOfReplan == IF replans >= 2 THEN {"thesis-refuted", "external-interrupt", "out-of-budget"}
                  ELSE {"none", "external-interrupt", "out-of-budget"}

\* What a terminal block is put down to: a missing input or a replan that failed, a
\* timeout that could not be split, recovery used up.
Causes == IF replans >= 2 THEN {"thesis-refuted", "external-interrupt", "out-of-budget"}
          ELSE {"external-interrupt", "out-of-budget"}

GiveUp(v) ==
    /\ Blocked /\ v \in Causes
    /\ StampStop(v)
    /\ status' = "stuck"
    /\ RowSaved("blocked")
    /\ Keep
    /\ pc' = "exit"
    /\ UNCHANGED <<current, result, iteration, streak, pause, child>>
    /\ UNCHANGED <<steps, tries, limits, ended>>

-----------------------------------------------------------------------------
(* The boundary between two steps, and the exit.                           *)

KillSwitch ==
    /\ pc = "boundary"
    /\ status' = "interrupted"
    /\ StampStop("external-interrupt")
    /\ StampPause("manual")
    /\ pc' = "exit"
    /\ UNCHANGED <<current, result, iteration, streak, child>>
    /\ UNCHANGED <<steps, record, tries, limits, ledger, ended>>

WallClock ==
    /\ pc = "boundary"
    /\ status' = "interrupted"
    /\ StampStop("out-of-budget")
    /\ pc' = "exit"
    /\ UNCHANGED <<current, result, iteration, streak, pause, child>>
    /\ UNCHANGED <<steps, record, tries, limits, ledger, ended>>

Poll ==
    /\ pc = "boundary"
    /\ pc' = "poll"
    /\ UNCHANGED <<current, result, iteration, streak>>
    /\ UNCHANGED <<steps, record, tries, limits, ledger, ended, ending>>

Note(n) ==
    /\ pc = "poll" /\ n \notin posted
    /\ posted' = posted \cup {n}
    /\ pending' = pending \cup {n}
    /\ UNCHANGED <<pc, current, result, iteration, streak, delivered, reached, logged>>
    /\ UNCHANGED <<steps, record, tries, limits, ending>>

\* Where the operator's new step goes: behind the rest, in front of it, in its place.
Changed(intent, new) ==
    CASE intent = "additive"   -> Append(remaining, new)
      [] intent = "priority"   -> <<new>> \o remaining
      [] intent = "corrective" -> <<new>>

ChangePlan(intent) ==
    /\ pc = "poll"
    /\ interrupts < MaxInterrupts /\ drawn < MaxStep
    /\ interrupts' = interrupts + 1
    /\ drawn' = drawn + 1
    /\ remaining' = Changed(intent, drawn + 1)
    /\ gone' = IF intent = "corrective" THEN gone \cup In(remaining) ELSE gone
    /\ UNCHANGED <<pc, current, result, superseded, iteration, streak, limit, extensions, expansions>>
    /\ UNCHANGED <<record, tries, ledger, ended, ending>>

StopLoop ==
    /\ pc = "poll"
    /\ status' = "interrupted"
    /\ StampStop("external-interrupt")
    /\ StampPause("manual")
    /\ remaining' = <<>>
    /\ gone' = gone \cup In(remaining)
    /\ pc' = "exit"
    /\ UNCHANGED <<current, result, drawn, superseded, iteration, streak, child>>
    /\ UNCHANGED <<record, tries, limits, ledger, ended>>

NextStep ==
    /\ pc = "poll"
    /\ pc' = "head"
    /\ UNCHANGED <<current, result, iteration, streak>>
    /\ UNCHANGED <<steps, record, tries, limits, ledger, ended, ending>>

\* Mutant: the last snapshot is taken for marks that are owed, and a retry owes none.
UnsavedMarks == \E s \in Step : outcome[s] = "skipped"

Unsaved == rows.all > rows.saved

Exit ==
    /\ pc = "exit"
    /\ rows' = IF Unsaved THEN [rows EXCEPT !.saved = rows.all] ELSE rows
    /\ logged' = logged \cup pending
    /\ pending' = {}
    /\ pc' = "end"
    /\ UNCHANGED <<current, result, outcome, iteration, streak, delivered, reached, posted>>
    /\ UNCHANGED <<steps, tries, limits, ending>>

Operator ==
    \/ \E n \in Notes : Note(n)
    \/ \E intent \in {"additive", "priority", "corrective"} : ChangePlan(intent)
    \/ StopLoop

AtHead == Ceiling \/ PlanEnds \/ Bump \/ Land \/ Take

AtStep == Refuse \/ Expand \/ SkipMilestone \/ SplitCompound \/ Start

AtOutcome ==
    \/ Runaway \/ RunOnNewLayer \/ BounceQuestion
    \/ \E r \in PauseReason : Pause(r)
    \/ \E raw \in {"done", "blocked"} :
          \/ \E breaches \in 1..2 : BudgetPause(raw, breaches)
          \/ BudgetKill(raw)
          \/ \E res \in {"done", "blocked", "demoted"}, breaches \in 0..2 : Weigh(raw, res, breaches)

AtVerdict ==
    \/ Stuck \/ Advise
    \/ \E inject \in 0..1 : FinishStep(inject)
    \/ Abandon \/ Retry
    \/ Redecompose \/ SplitShape \/ SplitForInfo \/ SplitOnTimeout
    \/ Hung
    \/ \E v \in StopVerdict \cup {"none"} : GiveUp(v)

AtBoundary == KillSwitch \/ WallClock \/ Poll \/ NextStep \/ Exit

Loop == AtHead \/ AtStep \/ AtOutcome \/ AtVerdict \/ AtBoundary

Next == Loop \/ Operator

Spec == Init /\ [][Next]_vars

\* One thread runs the loop; calls of the model end, if only by their timeout.
FairSpec == Spec /\ WF_vars(Loop)

-----------------------------------------------------------------------------
(* What the loop promises.                                                 *)

\* A note of the operator is in the ledger, or in a prompt whose step was not taken
\* back for a retry or for others, or in the decision log: no path that drains the
\* ledger loses one (the one consumption seam, and the re-arms of loop_blocked).
ContextReaches == posted \subseteq pending \cup delivered \cup reached \cup logged

Open == In(remaining) \cup (IF pc \in {"picked", "run", "judge"} THEN {current} ELSE {})

\* While a run may still end "done", every step that was ever part of the plan is
\* ahead, or has a row that is its verdict and no mere attempt, or left the plan for
\* steps that replace it or by the operator's word.
NoStepVanishes ==
    status = "done" =>
        \A s \in 1..drawn : s \in Open \/ outcome[s] \in Verdict \/ s \in gone

\* No step is done on ground that did not hold: what it was declared to come after is
\* done as well, or was handed over to other steps.  Only for a plan whose numbers are
\* bound; otherwise the code runs the step and logs what it lacks.
DoneOnDoneGround ==
    Intact => \A s \in 1..Plan : outcome[s] = "done" =>
        \A d \in After[s] : outcome[d] = "done" \/ d \in superseded \cup gone

\* The step of a landing has a row, or others stand for it.
Synthesized == outcome[Synthesis] # "none" \/ Synthesis \in gone

\* Every end has its type: a run that is stuck has a verdict, an interrupted one a
\* pause or a verdict, and a done run a verdict only if a landing cut it short and its
\* synthesis step was dealt with.
EndIsTyped ==
    pc \in {"exit", "end"} =>
        /\ status = "stuck" => stop # "none" /\ pause = "none"
        /\ status = "interrupted" => stop # "none" \/ pause # "none"
        /\ status = "done" => pause = "none" /\ (stop = "none" \/ Synthesized)

Landed == Synthesis \in In(remaining) \/ Synthesized

\* A landing stays on the run's record as out-of-budget, whatever ends the run later.
LandingStaysVisible == Landed => stop = "out-of-budget"

\* The checkpoint of a loop that has ended holds every row it returns.
EveryRowSaved == pc = "end" => rows.saved = rows.all

\* The loop ends: what it may repeat is bounded by its iterations.
LoopEnds == <>(pc = "end")

=============================================================================
