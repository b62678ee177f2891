------------------------------ MODULE ItemMarks ------------------------------
(***************************************************************************)
(* NEXT.md as the mirror of a run's plan (loop_planning.py, orch_items.py):*)
(* a run appends its steps to the file and marks the line of each step     *)
(* with the step's verdict.  A line is known by its number, though people  *)
(* edit the file, and a mark is lost while somebody holds the file's lock. *)
(* The row then owes the mark: every snapshot, the end of the run and      *)
(* every resume try to settle it.  The run takes the sequential lane; it   *)
(* may die and be resumed from its checkpoint, in which the number of a    *)
(* line also says which step a row is of.                                  *)
(***************************************************************************)
EXTENDS Naturals, Sequences, FiniteSets, SequencesExt

CONSTANTS
    Steps,        \* the plan has steps 1..Steps
    Chore,        \* items people write by hand
    Fresh,        \* no line
    MaxEdits,     \* bound on the edits of people
    MaxJams,      \* bound on the times the lock is held for too long
    MaxLives,     \* bound on starts and resumes
    MaxAttempts   \* bound on attempts that are no verdict

ASSUME PlanAssumption == Steps \in Nat \ {0} /\ Chore \cap Nat = {} /\ Fresh \notin Nat

ASSUME LimitAssumption == {MaxEdits, MaxJams, MaxLives, MaxAttempts} \subseteq Nat

VARIABLES
    lines,     \* the items of NEXT.md, each by its text
    jammed,    \* whoever wants the lock of the file times out
    pc,        \* where the run is, "none" if it does not live
    plan,      \* the steps this life has to do
    items,     \* step_indices: the line of each of them
    todo,      \* remaining_steps
    rows,      \* step_outcomes
    at, next,  \* settle_item_marks(): its row; where the run goes after it
    ckpt,      \* the checkpoint
    edits, jams, lives, attempts,
    shown,     \* the last mark a run has set on a line of each step
    performed, \* the steps that were done
    strayed,   \* lines were inserted or removed under a living run
    cut        \* lines were removed, so numbers may be given out again

run == <<pc, plan, items, todo, rows, at, next>>
bounds == <<edits, jams, lives, attempts>>
ghosts == <<shown, performed, strayed, cut>>
vars == <<lines, jammed, run, ckpt, bounds, ghosts>>

Step == 1..Steps
Text == Step \cup Chore
Mark == {"applied", "pending", "drifted", "attempt"}
Row == [step : Step, at : Nat, verdict : {"done", "blocked"}, mark : Mark]
Mirror == [Step -> Nat \cup {Fresh}]
Unmirrored == [s \in Step |-> Fresh]

TypeOK ==
    /\ lines \in Seq(Text)
    /\ jammed \in BOOLEAN
    /\ pc \in {"none", "step", "run", "settle", "mirror", "save"}
    /\ plan \subseteq Step /\ items \in Mirror
    /\ todo \subseteq Step
    /\ rows \in Seq(Row)
    /\ at \in Nat /\ next \in {"none", "step", "mirror"}
    /\ ckpt \in [written : BOOLEAN, plan : SUBSET Step, rows : Seq(Row), items : Mirror]
    /\ edits \in 0..MaxEdits /\ jams \in 0..MaxJams
    /\ lives \in 0..MaxLives /\ attempts \in 0..MaxAttempts
    /\ shown \in [Step -> {"todo", "done", "blocked"}]
    /\ performed \subseteq Step
    /\ strayed \in BOOLEAN /\ cut \in BOOLEAN

Init ==
    /\ lines = <<>> /\ jammed = FALSE
    /\ pc = "none" /\ plan = {} /\ items = Unmirrored /\ todo = {} /\ rows = <<>>
    /\ at = 1 /\ next = "none"
    /\ ckpt = [written |-> FALSE, plan |-> {}, rows |-> <<>>, items |-> Unmirrored]
    /\ edits = 0 /\ jams = 0 /\ lives = 0 /\ attempts = 0
    /\ shown = [s \in Step |-> "todo"]
    /\ performed = {} /\ strayed = FALSE /\ cut = FALSE

-----------------------------------------------------------------------------
(* People and other processes.                                             *)

\* A line is written by hand: a chore, or a second copy of a step.
WriteLine(text, place) ==
    /\ edits < MaxEdits
    /\ edits' = edits + 1
    /\ lines' = InsertAt(lines, place, text)
    /\ strayed' = (strayed \/ pc # "none")
    /\ UNCHANGED <<jammed, run, ckpt, jams, lives, attempts, shown, performed, cut>>

\* Lines are removed by hand.
RemoveLines(first, last) ==
    /\ edits < MaxEdits
    /\ edits' = edits + 1
    /\ lines' = SubSeq(lines, 1, first - 1) \o SubSeq(lines, last + 1, Len(lines))
    /\ strayed' = (strayed \/ pc # "none")
    /\ cut' = TRUE
    /\ UNCHANGED <<jammed, run, ckpt, jams, lives, attempts, shown, performed>>

Jam ==
    /\ ~jammed /\ jams < MaxJams
    /\ jammed' = TRUE
    /\ jams' = jams + 1
    /\ UNCHANGED <<lines, run, ckpt, edits, lives, attempts, ghosts>>

Unjam ==
    /\ jammed
    /\ jammed' = FALSE
    /\ UNCHANGED <<lines, run, ckpt, bounds, ghosts>>

-----------------------------------------------------------------------------
(* The run.                                                                *)

\* The place of s among the steps.
Rank(steps, s) == Cardinality({t \in steps : t <= s})

\* append_next_items(), and the lines the steps got.
AppendItems(steps) ==
    /\ \E new \in [1..Cardinality(steps) -> steps] :
          /\ \A s \in steps : new[Rank(steps, s)] = s
          /\ lines' = lines \o new
    /\ items' = [s \in Step |-> IF s \in steps THEN Len(lines) + Rank(steps, s) ELSE items[s]]

\* A run that finds no checkpoint starts with the whole plan.
Begin ==
    /\ pc = "none" /\ ~ckpt.written /\ lives < MaxLives
    /\ ~jammed
    /\ lives' = lives + 1
    /\ plan' = Step /\ todo' = Step
    /\ AppendItems(Step)
    /\ pc' = "step"
    /\ UNCHANGED <<jammed, rows, at, next, ckpt, edits, jams, attempts, ghosts>>

\* write_checkpoint(); a write that fails is logged and forgotten.
WriteCheckpoint == ckpt' \in {ckpt, [written |-> TRUE, plan |-> plan, rows |-> rows, items |-> items]}

\* The in-flight write before each prompt.
Prompt ==
    /\ pc = "step" /\ todo # {}
    /\ WriteCheckpoint
    /\ pc' = "run"
    /\ UNCHANGED <<lines, jammed, plan, items, todo, rows, at, next, bounds, ghosts>>

\* The steps are taken in their order.
InTurn(s) == s \in todo /\ \A t \in todo : s <= t

RowOf(s, verdict, mark) == [step |-> s, at |-> items[s], verdict |-> verdict, mark |-> mark]

\* The record of an attempt that is repeated: no verdict.
Attempt(s) ==
    /\ pc = "run" /\ InTurn(s) /\ attempts < MaxAttempts
    /\ attempts' = attempts + 1
    /\ rows' = Append(rows, RowOf(s, "blocked", "attempt"))
    /\ pc' = "step"
    /\ UNCHANGED <<lines, jammed, plan, items, todo, at, next, ckpt, edits, jams, lives, ghosts>>

\* mark_item(): whatever is written in the line by now.
MarkItem(i, state) ==
    shown' = IF lines[i] \in Step THEN [shown EXCEPT ![lines[i]] = state] ELSE shown

\* What a row is born with when its mark has timed out.
Owed == "pending"

\* A verdict is a row and a mark, at once or owed.  A line that is no longer
\* there raises what nobody catches, and the loop dies.
Verdict(s, verdict) ==
    /\ InTurn(s)
    /\ jammed \/ items[s] \in 1..Len(lines)
    /\ IF jammed THEN UNCHANGED shown ELSE MarkItem(items[s], verdict)
    /\ rows' = Append(rows, RowOf(s, verdict, IF jammed THEN Owed ELSE "applied"))
    /\ performed' = IF verdict = "done" THEN performed \cup {s} ELSE performed
    /\ todo' = todo \ {s}

\* The step is done, or blocked; a blocked step may end the run.
Judge(s, verdict, ends) ==
    /\ pc = "run"
    /\ ends => verdict = "blocked"
    /\ Verdict(s, verdict)
    /\ next' = IF ends THEN "none" ELSE "step"
    /\ at' = 1
    /\ pc' = "settle"
    /\ UNCHANGED <<lines, jammed, plan, items, ckpt, bounds, strayed, cut>>

\* A prerequisite is not met: a verdict without a prompt, saved as it is.
Gate(s) ==
    /\ pc = "step"
    /\ \E k \in 1..Len(rows) : rows[k].verdict = "blocked" /\ rows[k].step # s
    /\ Verdict(s, "blocked")
    /\ next' = "step"
    /\ pc' = "save"
    /\ UNCHANGED <<lines, jammed, plan, items, at, ckpt, bounds, strayed, cut>>

\* The plan is through, or something ends the loop between two steps.
Leave ==
    /\ pc = "step"
    /\ next' = "none"
    /\ at' = 1
    /\ pc' = "settle"
    /\ UNCHANGED <<lines, jammed, plan, items, todo, rows, ckpt, bounds, ghosts>>

\* The line carries this text, and no other line does.
Names(i, text) == {j \in 1..Len(lines) : lines[j] = text} = {i}

Pending == {k \in at..Len(rows) : rows[k].mark = "pending"}

\* Mutant: an attempt supersedes what an earlier row owes.
SupersededByAttempt(k) == \E l \in k+1..Len(rows) : rows[l].at = rows[k].at

\* A later verdict for the same line carries the obligation.
Superseded(k) == \E l \in k+1..Len(rows) : rows[l].at = rows[k].at /\ rows[l].mark # "attempt"

\* settle_item_marks(), a row: compare and mark under the lock.
Settle(k) ==
    /\ pc = "settle"
    /\ k \in Pending /\ \A l \in Pending : k <= l
    /\ LET r == rows[k]
           Becomes(mark) == rows' = [rows EXCEPT ![k].mark = mark]
       IN  /\ \/ Superseded(k) /\ Becomes("applied") /\ UNCHANGED shown
              \/ ~Superseded(k) /\ jammed /\ UNCHANGED <<rows, shown>>
              \/ /\ ~Superseded(k) /\ ~jammed /\ Names(r.at, r.step)
                 /\ MarkItem(r.at, r.verdict)
                 /\ Becomes("applied")
              \/ /\ ~Superseded(k) /\ ~jammed /\ ~Names(r.at, r.step)
                 /\ Becomes("drifted")
                 /\ UNCHANGED shown
           /\ at' = k + 1
    /\ UNCHANGED <<lines, jammed, pc, plan, items, todo, next, ckpt, bounds, performed, strayed, cut>>

Settled ==
    /\ pc = "settle" /\ Pending = {}
    /\ pc' = IF next = "mirror" THEN "mirror" ELSE "save"
    /\ UNCHANGED <<lines, jammed, plan, items, todo, rows, at, next, ckpt, bounds, ghosts>>

Gone ==
    /\ pc' = "none" /\ plan' = {} /\ items' = Unmirrored /\ todo' = {} /\ rows' = <<>>
    /\ at' = 1 /\ next' = "none"

\* The snapshot after a step, or the last one.
Save ==
    /\ pc = "save"
    /\ WriteCheckpoint
    /\ \/ next = "step" /\ pc' = "step" /\ UNCHANGED <<plan, items, todo, rows, at, next>>
       \/ next = "none" /\ Gone
    /\ UNCHANGED <<lines, jammed, bounds, ghosts>>

Die ==
    /\ pc # "none"
    /\ Gone
    /\ UNCHANGED <<lines, jammed, ckpt, bounds, ghosts>>

\* The rows the checkpoint takes for rows of step s: those of its line.
Rows(s) == {k \in 1..Len(ckpt.rows) : ckpt.rows[k].at = ckpt.items[s]}

\* Mutant: any row finishes its step.
FinishedIfRecorded(s) == Rows(s) # {}

\* _done_positions(): the latest row is done.
Finished(s) ==
    \E k \in Rows(s) : ckpt.rows[k].verdict = "done" /\ \A l \in Rows(s) : l <= k

Remaining == {s \in ckpt.plan : ~Finished(s)}

\* _items_name_these_steps()
ItemsNameSteps(steps) == \A s \in steps : Names(ckpt.items[s], s)

\* A resume keeps the lines of the remaining steps, all of them or none.
Resume ==
    /\ pc = "none" /\ ckpt.written /\ Remaining # {} /\ lives < MaxLives
    /\ lives' = lives + 1
    /\ rows' = ckpt.rows
    /\ plan' = Remaining /\ todo' = Remaining
    /\ items' = IF ItemsNameSteps(Remaining) THEN ckpt.items ELSE Unmirrored
    /\ next' = "mirror"
    /\ at' = 1
    /\ pc' = "settle"
    /\ UNCHANGED <<lines, jammed, ckpt, edits, jams, attempts, ghosts>>

\* What is owed is settled before; steps without lines get new ones.
MirrorPlan ==
    /\ pc = "mirror"
    /\ IF items = Unmirrored
       THEN ~jammed /\ AppendItems(todo)
       ELSE UNCHANGED <<lines, items>>
    /\ pc' = "step" /\ next' = "none"
    /\ UNCHANGED <<jammed, plan, todo, rows, at, ckpt, bounds, ghosts>>

Run ==
    \/ Begin \/ Prompt
    \/ \E s \in Step :
          \/ Attempt(s) \/ Gate(s)
          \/ \E verdict \in {"done", "blocked"}, ends \in BOOLEAN : Judge(s, verdict, ends)
    \/ \E k \in 1..Len(rows) : Settle(k)
    \/ Leave \/ Settled \/ Save \/ Die \/ Resume \/ MirrorPlan

Next ==
    \/ Run
    \/ \E text \in Text, place \in 1..Len(lines) + 1 : WriteLine(text, place)
    \/ \E last \in 1..Len(lines) : \E first \in 1..last : RemoveLines(first, last)
    \/ Jam \/ Unjam

Spec == Init /\ [][Next]_vars

-----------------------------------------------------------------------------

IsVerdict(rs, k) ==
    /\ rs[k].mark # "attempt"
    /\ \A l \in k+1..Len(rs) : rs[l].step = rs[k].step => rs[l].mark = "attempt"

Mirrored(rs) ==
    \A k \in 1..Len(rs) :
        IsVerdict(rs, k) /\ rs[k].mark = "applied"
            => shown[rs[k].step] \in (IF rs[k].verdict = "done" THEN {"done"} ELSE {"done", "blocked"})

\* NEXT.md is the mirror of the rows (loop_planning.py:261): what the run and
\* its checkpoint say was applied for the last verdict of a step is what the
\* file was last told, whatever deaths, resumes, superseded rows and jammed
\* locks did; a step shown blocked may since have been done in a life that
\* died before its snapshot.
AppliedIsShown == ~strayed /\ ~cut => Mirrored(rows) /\ Mirrored(ckpt.rows)

\* No resume leaves out a step that was never done (checkpoint.py:458), though
\* rows are told apart by line numbers of a file people edit.
FinishedIsDone ==
    ckpt.written /\ ~cut => Step \ Remaining \subseteq performed
=============================================================================
