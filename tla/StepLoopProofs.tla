--------------------------- MODULE StepLoopProofs ---------------------------
(***************************************************************************)
(* What the execute loop keeps, for any plan, any declared prerequisites,  *)
(* any budget and any number of notes and changes of the plan.             *)
(***************************************************************************)
EXTENDS StepLoop, TLAPS

Mark == Verdict \cup {"none", "attempt"}

\* What the invariants need to know of the types.
Shape ==
    /\ remaining \in Seq(Step)
    /\ current \in Step
    /\ drawn \in Plan..MaxStep
    /\ outcome \in [Step -> Mark]

-----------------------------------------------------------------------------
(* Sequences of steps.                                                     *)

LEMMA InFront ==
    ASSUME NEW S, NEW a \in S, NEW s \in Seq(S)
    PROVE  /\ <<a>> \o s \in Seq(S)
           /\ In(<<a>> \o s) = {a} \cup In(s)
<1> DEFINE t == <<a>> \o s
<1>1. t \in Seq(S) /\ Len(t) = Len(s) + 1 /\ Len(s) \in Nat
  OBVIOUS
<1>2. t[1] = a /\ \A i \in 1..Len(s) : t[i + 1] = s[i]
  OBVIOUS
<1>3. ASSUME NEW x \in In(t) PROVE x \in {a} \cup In(s)
  <2>1. PICK i \in 1..Len(t) : x = t[i]
    BY <1>3 DEF In
  <2>2. CASE i = 1
    BY <2>1, <2>2, <1>2
  <2>3. CASE i # 1
    <3>1. i - 1 \in 1..Len(s) /\ (i - 1) + 1 = i
      BY <2>3, <1>1
    <3>2. x = s[i - 1]
      BY <3>1, <2>1, <1>2
    <3> QED BY <3>1, <3>2 DEF In
  <2> QED BY <2>2, <2>3
<1>4. a \in In(t)
  <2>1. 1 \in 1..Len(t)
    BY <1>1
  <2> QED BY <2>1, <1>2 DEF In
<1>5. ASSUME NEW x \in In(s) PROVE x \in In(t)
  <2>1. PICK i \in 1..Len(s) : x = s[i]
    BY <1>5 DEF In
  <2>2. i + 1 \in 1..Len(t) /\ t[i + 1] = x
    BY <2>1, <1>1, <1>2
  <2> QED BY <2>2 DEF In
<1> QED BY <1>1, <1>3, <1>4, <1>5

LEMMA InPair ==
    ASSUME NEW S, NEW a \in S, NEW b \in S, NEW s \in Seq(S)
    PROVE  /\ <<a, b>> \o s \in Seq(S)
           /\ In(<<a, b>> \o s) = {a, b} \cup In(s)
<1> DEFINE t == <<a, b>> \o s
<1>1. t \in Seq(S) /\ Len(t) = Len(s) + 2 /\ Len(s) \in Nat
  OBVIOUS
<1>2. t[1] = a /\ t[2] = b /\ \A i \in 1..Len(s) : t[i + 2] = s[i]
  OBVIOUS
<1>3. ASSUME NEW x \in In(t) PROVE x \in {a, b} \cup In(s)
  <2>1. PICK i \in 1..Len(t) : x = t[i]
    BY <1>3 DEF In
  <2>2. CASE i \in {1, 2}
    BY <2>1, <2>2, <1>2
  <2>3. CASE i \notin {1, 2}
    <3>1. i - 2 \in 1..Len(s) /\ (i - 2) + 2 = i
      BY <2>3, <1>1
    <3>2. x = s[i - 2]
      BY <3>1, <2>1, <1>2
    <3> QED BY <3>1, <3>2 DEF In
  <2> QED BY <2>2, <2>3
<1>4. a \in In(t) /\ b \in In(t)
  <2>1. 1 \in 1..Len(t) /\ 2 \in 1..Len(t)
    BY <1>1
  <2> QED BY <2>1, <1>2 DEF In
<1>5. ASSUME NEW x \in In(s) PROVE x \in In(t)
  <2>1. PICK i \in 1..Len(s) : x = s[i]
    BY <1>5 DEF In
  <2>2. i + 2 \in 1..Len(t) /\ t[i + 2] = x
    BY <2>1, <1>1, <1>2
  <2> QED BY <2>2 DEF In
<1> QED BY <1>1, <1>3, <1>4, <1>5

LEMMA InBehind ==
    ASSUME NEW S, NEW a \in S, NEW s \in Seq(S)
    PROVE  /\ Append(s, a) \in Seq(S)
           /\ In(Append(s, a)) = {a} \cup In(s)
<1> DEFINE t == Append(s, a)
<1>1. t \in Seq(S) /\ Len(t) = Len(s) + 1 /\ Len(s) \in Nat
  OBVIOUS
<1>2. t[Len(s) + 1] = a /\ \A i \in 1..Len(s) : t[i] = s[i]
  OBVIOUS
<1>3. ASSUME NEW x \in In(t) PROVE x \in {a} \cup In(s)
  <2>1. PICK i \in 1..Len(t) : x = t[i]
    BY <1>3 DEF In
  <2>2. i = Len(s) + 1 \/ i \in 1..Len(s)
    BY <1>1
  <2> QED BY <2>1, <2>2, <1>2 DEF In
<1>4. a \in In(t)
  <2>1. Len(s) + 1 \in 1..Len(t)
    BY <1>1
  <2> QED BY <2>1, <1>2 DEF In
<1>5. ASSUME NEW x \in In(s) PROVE x \in In(t)
  <2>1. PICK i \in 1..Len(s) : x = s[i]
    BY <1>5 DEF In
  <2>2. i \in 1..Len(t) /\ t[i] = x
    BY <2>1, <1>1, <1>2
  <2> QED BY <2>2 DEF In
<1> QED BY <1>1, <1>3, <1>4, <1>5

LEMMA InTail ==
    ASSUME NEW S, NEW s \in Seq(S), s # <<>>
    PROVE  /\ Head(s) \in S /\ Tail(s) \in Seq(S)
           /\ In(s) = {Head(s)} \cup In(Tail(s))
<1>1. Head(s) \in S /\ Tail(s) \in Seq(S) /\ s = <<Head(s)>> \o Tail(s)
  OBVIOUS
<1> QED BY <1>1, InFront

LEMMA InNone == In(<<>>) = {}
BY DEF In

LEMMA InOne == ASSUME NEW S, NEW a \in S PROVE <<a>> \in Seq(S) /\ In(<<a>>) = {a}
<1>1. <<a>> \in Seq(S) /\ Len(<<a>>) = 1 /\ <<a>>[1] = a
  OBVIOUS
<1> QED BY <1>1 DEF In

-----------------------------------------------------------------------------
(* The ledger of notes.                                                    *)

Between == pc \in {"head", "picked", "boundary", "poll"}

\* Between two prompts nothing is on its way to one: what a prompt is given is all
\* that was pending, and nothing given before is forgotten for it.
Ledger ==
    /\ ContextReaches
    /\ Between => delivered = {}

LEMMA Quiet ==
    ASSUME Ledger, UNCHANGED <<ledger, ended>>, Between' => Between
    PROVE  Ledger'
BY DEF Ledger, ContextReaches, ledger, ended

LEMMA Kept ==
    ASSUME Ledger, Keep, UNCHANGED ended
    PROVE  Ledger'
BY DEF Ledger, ContextReaches, Keep, ended

LEMMA Rearmed ==
    ASSUME Ledger, Rearm, UNCHANGED ended
    PROVE  Ledger'
BY DEF Ledger, ContextReaches, Rearm, ended

LEMMA LedgerStep == Ledger /\ [Next]_vars => Ledger'
<1> SUFFICES ASSUME Ledger, [Next]_vars PROVE Ledger'
  OBVIOUS
<1>1. CASE AtHead
  BY <1>1, Quiet DEF AtHead, Ceiling, PlanEnds, Bump, Land, Take, Between
<1>2. CASE AtStep
  <2>1. CASE Start
    BY <2>1 DEF Start, Ledger, ContextReaches, Between, ended
  <2>2. CASE Refuse \/ Expand \/ SkipMilestone \/ SplitCompound
    BY <2>2, Quiet DEF Refuse, Expand, SkipMilestone, SplitCompound, Between
  <2> QED BY <1>2, <2>1, <2>2 DEF AtStep
<1>3. CASE AtOutcome
  <2>1. CASE Runaway
    BY <2>1, Kept DEF Runaway, BreakOff
  <2>2. CASE RunOnNewLayer \/ BounceQuestion
    BY <2>2, Rearmed DEF RunOnNewLayer, BounceQuestion
  <2>3. ASSUME NEW r \in PauseReason, Pause(r) PROVE Ledger'
    BY <2>3, Kept DEF Pause, BreakOff
  <2>4. ASSUME NEW raw, NEW breaches, BudgetPause(raw, breaches) PROVE Ledger'
    BY <2>4, Kept DEF BudgetPause
  <2>5. ASSUME NEW raw, BudgetKill(raw) PROVE Ledger'
    BY <2>5, Kept DEF BudgetKill, BreakOff
  <2>6. ASSUME NEW raw, NEW res, NEW breaches, Weigh(raw, res, breaches) PROVE Ledger'
    BY <2>6, Quiet DEF Weigh, Between
  <2> QED BY <1>3, <2>1, <2>2, <2>3, <2>4, <2>5, <2>6 DEF AtOutcome
<1>4. CASE AtVerdict
  <2>1. CASE Stuck \/ Advise \/ Abandon \/ Hung
    BY <2>1, Kept DEF Stuck, BreakOff, Advise, Abandon, Hung
  <2>2. ASSUME NEW inject, FinishStep(inject) PROVE Ledger'
    BY <2>2, Kept DEF FinishStep
  <2>3. CASE Retry \/ Redecompose \/ SplitShape \/ SplitForInfo \/ SplitOnTimeout
    BY <2>3, Rearmed DEF Retry, Redecompose, SplitShape, SplitForInfo, SplitOnTimeout, Supersede
  <2>4. ASSUME NEW v, GiveUp(v) PROVE Ledger'
    BY <2>4, Kept DEF GiveUp
  <2> QED BY <1>4, <2>1, <2>2, <2>3, <2>4 DEF AtVerdict
<1>5. CASE AtBoundary
  <2>1. CASE Exit
    BY <2>1 DEF Exit, Ledger, ContextReaches, Between
  <2>2. CASE KillSwitch \/ WallClock \/ Poll \/ NextStep
    BY <2>2, Quiet DEF KillSwitch, WallClock, Poll, NextStep, Between
  <2> QED BY <1>5, <2>1, <2>2 DEF AtBoundary
<1>6. CASE Operator
  <2>1. ASSUME NEW n \in Notes, Note(n) PROVE Ledger'
    BY <2>1 DEF Note, Ledger, ContextReaches, Between
  <2>2. ASSUME NEW intent, ChangePlan(intent) PROVE Ledger'
    BY <2>2, Quiet DEF ChangePlan, Between
  <2>3. CASE StopLoop
    BY <2>3, Quiet DEF StopLoop, Between
  <2> QED BY <1>6, <2>1, <2>2, <2>3 DEF Operator
<1>7. CASE UNCHANGED vars
  BY <1>7, Quiet DEF vars, ledger, ended, Between
<1> QED
  BY <1>1, <1>2, <1>3, <1>4, <1>5, <1>6, <1>7 DEF Next, Loop

\* No note of the operator is lost: whichever way the steps that carried it went,
\* it is pending, in a prompt that stood, or on the exit's record.
THEOREM NotesReach == Spec => []ContextReaches
<1>1. Init => Ledger
  BY DEF Init, Ledger, ContextReaches
<1>2. Ledger => ContextReaches
  BY DEF Ledger
<1> QED
  BY <1>1, <1>2, LedgerStep, PTL DEF Spec

-----------------------------------------------------------------------------
(* The steps.                                                              *)

LEMMA StepFacts ==
    /\ Synthesis \in Step /\ Research \in Step /\ 1..MaxStep \subseteq Step
    /\ Synthesis \notin 1..MaxStep /\ Synthesis # Research
    /\ \A d \in Plan..MaxStep : 1..d \subseteq 1..MaxStep
BY StepAssumption DEF Synthesis, Research, Step

\* A row of the current step keeps the table a table, and touches no other step.
LEMMA RowKeeps ==
    ASSUME Shape, NEW o \in Mark, outcome' = [outcome EXCEPT ![current] = o]
    PROVE  /\ outcome' \in [Step -> Mark] /\ outcome'[current] = o
           /\ \A s \in Step : s # current => outcome'[s] = outcome[s]
BY DEF Shape

\* Fresh steps for the current one.
LEMMA BreakKeeps ==
    ASSUME Shape, Break
    PROVE  /\ remaining' \in Seq(Step) /\ drawn' \in Plan..MaxStep
           /\ drawn' = drawn + 2 /\ gone' = gone \cup {current}
           /\ In(remaining') = {drawn + 1, drawn + 2} \cup In(remaining)
<1>1. drawn + 1 \in Step /\ drawn + 2 \in Step
  BY StepAssumption DEF Shape, Break, Step
<1>2. remaining' = <<drawn + 1, drawn + 2>> \o remaining
  BY DEF Break
<1>3. drawn' \in Plan..MaxStep
  BY StepAssumption DEF Shape, Break
<1> QED BY <1>1, <1>2, <1>3, InPair DEF Shape, Break

\* The current step in front again.
LEMMA RequeueKeeps ==
    ASSUME Shape, Requeue
    PROVE  /\ remaining' \in Seq(Step)
           /\ In(remaining') = {current} \cup In(remaining)
BY InFront DEF Shape, Requeue

LEMMA HeadKeeps ==
    ASSUME Shape, remaining # <<>>
    PROVE  /\ Head(remaining) \in Step /\ Tail(remaining) \in Seq(Step)
           /\ In(remaining) = {Head(remaining)} \cup In(Tail(remaining))
BY InTail DEF Shape

\* The operator's new step among the rest, or in its place.
LEMMA ChangeKeeps ==
    ASSUME Shape, NEW intent \in {"additive", "priority", "corrective"}, ChangePlan(intent)
    PROVE  /\ remaining' \in Seq(Step) /\ drawn' \in Plan..MaxStep /\ drawn' = drawn + 1
           /\ IF intent = "corrective" THEN In(remaining') = {drawn + 1} /\ gone' = gone \cup In(remaining)
              ELSE In(remaining') = {drawn + 1} \cup In(remaining) /\ gone' = gone
<1>1. drawn + 1 \in Step /\ drawn' = drawn + 1 /\ drawn' \in Plan..MaxStep /\ remaining \in Seq(Step)
  BY StepAssumption DEF Shape, ChangePlan, Step
<1>2. remaining' = Changed(intent, drawn + 1)
  BY DEF ChangePlan
<1>3. gone' = IF intent = "corrective" THEN gone \cup In(remaining) ELSE gone
  BY DEF ChangePlan
<1>4. CASE intent = "additive"
  <2>1. remaining' = Append(remaining, drawn + 1)
    BY <1>2, <1>4 DEF Changed
  <2>2. remaining' \in Seq(Step) /\ In(remaining') = {drawn + 1} \cup In(remaining)
    BY <1>1, <2>1, InBehind
  <2> QED BY <1>1, <1>3, <1>4, <2>2
<1>5. CASE intent = "priority"
  <2>1. remaining' = <<drawn + 1>> \o remaining
    BY <1>2, <1>5 DEF Changed
  <2>2. remaining' \in Seq(Step) /\ In(remaining') = {drawn + 1} \cup In(remaining)
    BY <1>1, <2>1, InFront
  <2> QED BY <1>1, <1>3, <1>5, <2>2
<1>6. CASE intent = "corrective"
  <2>1. remaining' = <<drawn + 1>>
    BY <1>2, <1>6 DEF Changed
  <2>2. remaining' \in Seq(Step) /\ In(remaining') = {drawn + 1}
    BY <1>1, <2>1, InOne
  <2> QED BY <1>1, <1>3, <1>6, <2>2
<1> QED BY <1>4, <1>5, <1>6

\* What a done step puts in front of the rest.
LEMMA InjectKeeps ==
    ASSUME Shape, NEW inject, FinishStep(inject)
    PROVE  /\ remaining' \in Seq(Step) /\ drawn' \in Plan..MaxStep /\ drawn' = drawn + inject
           /\ inject \in 0..1
           /\ In(remaining') = (IF inject = 1 THEN {drawn + 1} ELSE {}) \cup In(remaining)
<1>1. inject \in 0..1 /\ drawn \in Nat /\ drawn' = drawn + inject /\ drawn' \in Plan..MaxStep
  BY StepAssumption DEF Shape, FinishStep
<1>2. inject = 1 => drawn + 1 \in Step
  BY <1>1, StepAssumption DEF Step
<1>3. remaining \in Seq(Step)
  BY DEF Shape
<1>4. CASE inject = 0
  <2>1. [i \in 1..inject |-> drawn + i] = <<>>
    BY <1>4
  <2>2. remaining' = <<>> \o remaining
    BY <2>1 DEF FinishStep
  <2>3. remaining' = remaining
    BY <2>2, <1>3
  <2> QED BY <1>1, <1>3, <1>4, <2>3
<1>5. CASE inject = 1
  <2>1. [i \in 1..inject |-> drawn + i] = <<drawn + 1>>
    BY <1>5
  <2>2. remaining' = <<drawn + 1>> \o remaining
    BY <2>1 DEF FinishStep
  <2>3. remaining' \in Seq(Step) /\ In(remaining') = {drawn + 1} \cup In(remaining)
    BY <1>2, <1>3, <1>5, <2>2, InFront
  <2> QED BY <1>1, <1>5, <2>3
<1> QED BY <1>1, <1>4, <1>5

\* A step that lacks information, behind its research step.
LEMMA InfoKeeps ==
    ASSUME Shape, SplitForInfo
    PROVE  /\ remaining' \in Seq(Step)
           /\ In(remaining') = {Research, current} \cup In(remaining)
<1>1. remaining' = <<Research, current>> \o remaining
  BY DEF SplitForInfo
<1> QED BY <1>1, StepFacts, InPair DEF Shape

LEMMA LandKeeps ==
    ASSUME Shape, Land
    PROVE  /\ remaining' \in Seq(Step) /\ In(remaining') = {Synthesis}
           /\ gone' = (gone \cup In(remaining)) \ {Synthesis}
BY StepFacts, InOne DEF Land

LEMMA ShapeStep == Shape /\ [Next]_vars => Shape'
<1> SUFFICES ASSUME Shape, [Next]_vars PROVE Shape'
  OBVIOUS
<1>0. {"done", "blocked", "skipped", "attempt"} \subseteq Mark
  BY DEF Mark, Verdict
<1>1. CASE AtHead
  <2>1. CASE Ceiling \/ PlanEnds \/ Bump
    BY <2>1 DEF Ceiling, PlanEnds, Bump, Shape, steps, record
  <2>2. CASE Land
    BY <2>2, LandKeeps DEF Land, Shape, record
  <2>3. CASE Take
    BY <2>3, HeadKeeps DEF Take, Shape, record
  <2> QED BY <1>1, <2>1, <2>2, <2>3 DEF AtHead
<1>2. CASE AtStep
  <2>1. CASE Start
    BY <2>1 DEF Start, Shape, steps, record
  <2>2. CASE Refuse \/ SkipMilestone
    BY <2>2, <1>0, RowKeeps DEF Refuse, SkipMilestone, Row, RowSaved, Shape, steps
  <2>3. CASE Expand \/ SplitCompound
    BY <2>3, BreakKeeps DEF Expand, SplitCompound, Shape, record
  <2> QED BY <1>2, <2>1, <2>2, <2>3 DEF AtStep
<1>3. CASE AtOutcome
  <2>1. CASE Runaway
    BY <2>1 DEF Runaway, BreakOff, Shape, steps, record
  <2>2. CASE RunOnNewLayer \/ BounceQuestion
    BY <2>2, RequeueKeeps DEF RunOnNewLayer, BounceQuestion, Requeue, Shape, record
  <2>3. ASSUME NEW r \in PauseReason, Pause(r) PROVE Shape'
    BY <2>3, <1>0, RowKeeps DEF Pause, BreakOff, Row, Shape, steps
  <2>4. ASSUME NEW raw, NEW breaches, BudgetPause(raw, breaches) PROVE Shape'
    BY <2>4 DEF BudgetPause, Shape, steps, record
  <2>5. ASSUME NEW raw, BudgetKill(raw) PROVE Shape'
    BY <2>5 DEF BudgetKill, BreakOff, Shape, steps, record
  <2>6. ASSUME NEW raw, NEW res, NEW breaches, Weigh(raw, res, breaches) PROVE Shape'
    BY <2>6 DEF Weigh, Shape, steps, record
  <2> QED BY <1>3, <2>1, <2>2, <2>3, <2>4, <2>5, <2>6 DEF AtOutcome
<1>4. CASE AtVerdict
  <2>1. CASE Stuck \/ Advise \/ Abandon
    BY <2>1, <1>0, RowKeeps DEF Stuck, BreakOff, Advise, Abandon, Row, RowSaved, Shape, steps
  <2>2. CASE Hung
    BY <2>2 DEF Hung, Shape, steps, record
  <2>3. ASSUME NEW inject, FinishStep(inject) PROVE Shape'
    BY <2>3, <1>0, RowKeeps, InjectKeeps DEF FinishStep, RowSaved, Shape
  <2>4. CASE Retry
    BY <2>4, <1>0, RowKeeps, RequeueKeeps DEF Retry, Requeue, Row, Shape
  <2>5. CASE Redecompose \/ SplitShape \/ SplitOnTimeout
    BY <2>5, <1>0, RowKeeps, BreakKeeps DEF Redecompose, SplitShape, SplitOnTimeout, Supersede, Row, Shape
  <2>6. CASE SplitForInfo
    BY <2>6, <1>0, RowKeeps, InfoKeeps DEF SplitForInfo, Supersede, Row, Shape
  <2>7. ASSUME NEW v, GiveUp(v) PROVE Shape'
    BY <2>7, <1>0, RowKeeps DEF GiveUp, RowSaved, Shape, steps
  <2> QED BY <1>4, <2>1, <2>2, <2>3, <2>4, <2>5, <2>6, <2>7 DEF AtVerdict
<1>5. CASE AtBoundary
  BY <1>5 DEF AtBoundary, KillSwitch, WallClock, Poll, NextStep, Exit, Shape, steps, record
<1>6. CASE Operator
  <2>1. ASSUME NEW n \in Notes, Note(n) PROVE Shape'
    BY <2>1 DEF Note, Shape, steps, record
  <2>2. ASSUME NEW intent \in {"additive", "priority", "corrective"}, ChangePlan(intent) PROVE Shape'
    BY <2>2, ChangeKeeps DEF ChangePlan, Shape, record
  <2>3. CASE StopLoop
    BY <2>3 DEF StopLoop, Shape, record
  <2> QED BY <1>6, <2>1, <2>2, <2>3 DEF Operator
<1>7. CASE UNCHANGED vars
  BY <1>7 DEF vars, Shape
<1> QED
  BY <1>1, <1>2, <1>3, <1>4, <1>5, <1>6, <1>7 DEF Next, Loop

-----------------------------------------------------------------------------
(* No step vanishes.                                                       *)

Accounted(s) == s \in Open \/ outcome[s] \in Verdict \/ s \in gone

\* What a step of the loop does to the other steps: nothing is taken from the rest.
LEMMA OthersStay ==
    ASSUME NEW s \in Step, s # current, outcome'[s] = outcome[s],
           In(remaining) \subseteq In(remaining'), gone \subseteq gone', Accounted(s)
    PROVE  Accounted(s)'
BY DEF Accounted, Open

LEMMA AccountHolds ==
    ASSUME Shape, NoStepVanishes, status' = status, drawn' \in drawn..(drawn + 2),
           \A s \in 1..drawn : Accounted(s) => Accounted(s)',
           \A s \in (drawn + 1)..drawn' : s \in In(remaining')
    PROVE  NoStepVanishes'
<1> SUFFICES ASSUME status' = "done", NEW s \in 1..drawn' PROVE Accounted(s)'
  BY DEF NoStepVanishes, Accounted
<1>1. drawn \in Nat
  BY StepAssumption DEF Shape
<1>2. CASE s \in 1..drawn
  BY <1>2 DEF NoStepVanishes, Accounted
<1>3. CASE s \notin 1..drawn
  <2>1. s \in (drawn + 1)..drawn'
    BY <1>1, <1>3
  <2> QED BY <2>1 DEF Accounted, Open
<1> QED BY <1>2, <1>3

\* The loop moves on and leaves the steps as they are.
LEMMA PlanStays ==
    ASSUME Shape, NoStepVanishes, UNCHANGED <<status, steps, outcome, current>>,
           pc \in {"picked", "run", "judge"} => pc' \in {"picked", "run", "judge"}
    PROVE  NoStepVanishes'
BY DEF NoStepVanishes, Open, steps

\* The current step gets a row, and the rest stands.
LEMMA RowAccounts ==
    ASSUME Shape, NoStepVanishes, UNCHANGED <<status, drawn>>, gone \subseteq gone',
           NEW o \in Mark, outcome' = [outcome EXCEPT ![current] = o],
           In(remaining) \subseteq In(remaining'),
           o \in Verdict \/ current \in In(remaining') \/ current \in gone'
    PROVE  NoStepVanishes'
<1>1. ASSUME NEW s \in 1..drawn, Accounted(s) PROVE Accounted(s)'
  <2>1. s \in Step
    BY StepFacts DEF Shape
  <2>2. CASE s = current
    BY <2>2, RowKeeps DEF Accounted, Open
  <2>3. CASE s # current
    BY <1>1, <2>1, <2>3, RowKeeps, OthersStay
  <2> QED BY <2>2, <2>3
<1>2. drawn' \in drawn..(drawn + 2) /\ (drawn + 1)..drawn' = {}
  BY StepAssumption DEF Shape
<1> QED BY <1>1, <1>2, AccountHolds

\* Fresh steps come for the current one, with a row that says so or with none.
LEMMA BreakAccounts ==
    ASSUME Shape, NoStepVanishes, Break, UNCHANGED status,
           \A s \in Step : s # current => outcome'[s] = outcome[s]
    PROVE  NoStepVanishes'
<1>1. ASSUME NEW s \in 1..drawn, Accounted(s) PROVE Accounted(s)'
  <2>1. s \in Step
    BY StepFacts DEF Shape
  <2>2. CASE s = current
    BY <2>2, BreakKeeps DEF Accounted
  <2>3. CASE s # current
    <3>1. In(remaining) \subseteq In(remaining') /\ gone \subseteq gone'
      BY BreakKeeps
    <3> QED BY <1>1, <2>1, <2>3, <3>1, OthersStay
  <2> QED BY <2>2, <2>3
<1>2. drawn' \in drawn..(drawn + 2)
  BY BreakKeeps, StepAssumption DEF Shape
<1>3. ASSUME NEW s \in (drawn + 1)..drawn' PROVE s \in In(remaining')
  <2>1. s = drawn + 1 \/ s = drawn + 2
    BY BreakKeeps, StepAssumption DEF Shape
  <2> QED BY <2>1, BreakKeeps
<1> QED BY <1>1, <1>2, <1>3, AccountHolds

\* The current step goes back to the front, its row an attempt or none.
LEMMA RequeueAccounts ==
    ASSUME Shape, NoStepVanishes, Requeue, UNCHANGED <<status, outcome>>
    PROVE  NoStepVanishes'
<1>1. ASSUME NEW s \in 1..drawn, Accounted(s) PROVE Accounted(s)'
  <2>1. In(remaining') = {current} \cup In(remaining) /\ gone' = gone
    BY RequeueKeeps DEF Requeue
  <2> QED BY <1>1, <2>1 DEF Accounted, Open
<1>2. drawn' \in drawn..(drawn + 2) /\ (drawn + 1)..drawn' = {}
  BY StepAssumption DEF Shape, Requeue
<1> QED BY <1>1, <1>2, AccountHolds

LEMMA TakeAccounts == ASSUME Shape, NoStepVanishes, Take PROVE NoStepVanishes'
<1>1. Open' = Open
  BY HeadKeeps DEF Take, Open
<1>2. UNCHANGED <<status, drawn, gone, outcome>>
  BY DEF Take, record, ending
<1> QED BY <1>1, <1>2 DEF NoStepVanishes

LEMMA LandAccounts == ASSUME Shape, NoStepVanishes, Land PROVE NoStepVanishes'
<1>1. ASSUME NEW s \in 1..drawn, Accounted(s) PROVE Accounted(s)'
  <2>1. s # Synthesis
    BY StepFacts DEF Shape
  <2>2. pc = "head" /\ outcome' = outcome /\ gone' = (gone \cup In(remaining)) \ {Synthesis}
    BY DEF Land, record
  <2> QED BY <1>1, <2>1, <2>2 DEF Accounted, Open
<1>2. drawn' \in drawn..(drawn + 2) /\ (drawn + 1)..drawn' = {}
  BY StepAssumption DEF Shape, Land
<1>3. status' = status
  BY DEF Land
<1> QED BY <1>1, <1>2, <1>3, AccountHolds

LEMMA FinishAccounts ==
    ASSUME Shape, NoStepVanishes, NEW inject, FinishStep(inject)
    PROVE  NoStepVanishes'
<1>0. /\ outcome' = [outcome EXCEPT ![current] = "done"] /\ "done" \in Mark
      /\ status' = status /\ gone' = gone
  BY DEF FinishStep, RowSaved, ending, Mark, Verdict
<1>1. ASSUME NEW s \in 1..drawn, Accounted(s) PROVE Accounted(s)'
  <2>1. s \in Step
    BY StepFacts DEF Shape
  <2>2. CASE s = current
    BY <1>0, <2>2, RowKeeps DEF Accounted, Verdict
  <2>3. CASE s # current
    <3>1. In(remaining) \subseteq In(remaining') /\ gone \subseteq gone'
      BY <1>0, InjectKeeps
    <3>2. outcome'[s] = outcome[s]
      BY <1>0, <2>1, <2>3, RowKeeps
    <3> QED BY <1>1, <2>1, <2>3, <3>1, <3>2, OthersStay
  <2> QED BY <2>2, <2>3
<1>2. drawn' \in drawn..(drawn + 2)
  BY InjectKeeps, StepAssumption DEF Shape
<1>3. ASSUME NEW s \in (drawn + 1)..drawn' PROVE s \in In(remaining')
  <2>1. inject = 1 /\ s = drawn + 1
    BY InjectKeeps, StepAssumption DEF Shape
  <2> QED BY <2>1, InjectKeeps
<1> QED BY <1>0, <1>1, <1>2, <1>3, AccountHolds

LEMMA ChangeAccounts ==
    ASSUME Shape, NoStepVanishes, NEW intent \in {"additive", "priority", "corrective"},
           ChangePlan(intent)
    PROVE  NoStepVanishes'
<1>0. pc = "poll" /\ outcome' = outcome /\ status' = status
  BY DEF ChangePlan, record, ending
<1>1. ASSUME NEW s \in 1..drawn, Accounted(s) PROVE Accounted(s)'
  BY <1>0, <1>1, ChangeKeeps DEF Accounted, Open
<1>2. drawn' \in drawn..(drawn + 2)
  BY ChangeKeeps, StepAssumption DEF Shape
<1>3. ASSUME NEW s \in (drawn + 1)..drawn' PROVE s \in In(remaining')
  <2>1. s = drawn + 1
    BY ChangeKeeps, StepAssumption DEF Shape
  <2> QED BY <2>1, ChangeKeeps
<1> QED BY <1>0, <1>1, <1>2, <1>3, AccountHolds

LEMMA VanishStep ==
    ASSUME ~Advisor, Shape, NoStepVanishes, [Next]_vars
    PROVE  NoStepVanishes'
<1>0. {"done", "blocked", "skipped", "attempt"} \subseteq Mark /\ {"done", "blocked", "skipped"} \subseteq Verdict
  BY DEF Mark, Verdict
<1>1. CASE AtHead
  <2>1. CASE Ceiling
    BY <2>1 DEF Ceiling, NoStepVanishes
  <2>2. CASE PlanEnds \/ Bump
    BY <2>2, PlanStays DEF PlanEnds, Bump, record, ending
  <2> QED BY <1>1, <2>1, <2>2, LandAccounts, TakeAccounts DEF AtHead
<1>2. CASE AtStep
  <2>1. CASE Start
    BY <2>1, PlanStays DEF Start, record, ending
  <2>2. CASE Refuse
    BY <1>0, <2>2, RowAccounts DEF Refuse, RowSaved, steps, ending
  <2>3. CASE SkipMilestone
    BY <1>0, <2>3, RowAccounts DEF SkipMilestone, Row, steps, ending
  <2>4. CASE Expand \/ SplitCompound
    BY <2>4, BreakAccounts DEF Expand, SplitCompound, record, ending
  <2> QED BY <1>2, <2>1, <2>2, <2>3, <2>4 DEF AtStep
<1>3. CASE AtOutcome
  <2>1. CASE Runaway
    BY <2>1 DEF Runaway, BreakOff, NoStepVanishes
  <2>2. CASE RunOnNewLayer \/ BounceQuestion
    BY <2>2, RequeueAccounts DEF RunOnNewLayer, BounceQuestion, record, ending
  <2>3. ASSUME NEW r \in PauseReason, Pause(r) PROVE NoStepVanishes'
    BY <2>3 DEF Pause, BreakOff, NoStepVanishes
  <2>4. ASSUME NEW raw, NEW breaches, BudgetPause(raw, breaches) PROVE NoStepVanishes'
    BY <2>4 DEF BudgetPause, NoStepVanishes
  <2>5. ASSUME NEW raw, BudgetKill(raw) PROVE NoStepVanishes'
    BY <2>5 DEF BudgetKill, BreakOff, NoStepVanishes
  <2>6. ASSUME NEW raw, NEW res, NEW breaches, Weigh(raw, res, breaches) PROVE NoStepVanishes'
    BY <2>6, PlanStays DEF Weigh, record, ending
  <2> QED BY <1>3, <2>1, <2>2, <2>3, <2>4, <2>5, <2>6 DEF AtOutcome
<1>4. CASE AtVerdict
  <2>1. CASE Stuck
    BY <2>1 DEF Stuck, BreakOff, NoStepVanishes
  <2>2. CASE Advise
    BY <2>2 DEF Advise
  <2>3. ASSUME NEW inject, FinishStep(inject) PROVE NoStepVanishes'
    BY <2>3, FinishAccounts
  <2>4. CASE Abandon
    BY <1>0, <2>4, RowAccounts DEF Abandon, RowSaved, steps, ending
  <2>5. CASE Retry
    <3>1. UNCHANGED <<status, drawn, gone>> /\ outcome' = [outcome EXCEPT ![current] = "attempt"]
      BY <2>5 DEF Retry, Requeue, Row, ending
    <3>2. In(remaining') = {current} \cup In(remaining)
      BY <2>5, RequeueKeeps DEF Retry
    <3> QED BY <1>0, <3>1, <3>2, RowAccounts
  <2>6. CASE Redecompose \/ SplitShape \/ SplitOnTimeout
    <3>1. Break /\ status' = status /\ outcome' = [outcome EXCEPT ![current] = "attempt"]
      BY <2>6 DEF Redecompose, SplitShape, SplitOnTimeout, Supersede, Row, ending
    <3> QED BY <1>0, <3>1, RowKeeps, BreakAccounts
  <2>7. CASE SplitForInfo
    <3>1. UNCHANGED <<status, drawn, gone>> /\ outcome' = [outcome EXCEPT ![current] = "attempt"]
      BY <2>7 DEF SplitForInfo, Supersede, Row, ending
    <3>2. In(remaining') = {Research, current} \cup In(remaining)
      BY <2>7, InfoKeeps
    <3> QED BY <1>0, <3>1, <3>2, RowAccounts
  <2>8. CASE Hung
    BY <2>8 DEF Hung, NoStepVanishes
  <2>9. ASSUME NEW v, GiveUp(v) PROVE NoStepVanishes'
    BY <2>9 DEF GiveUp, NoStepVanishes
  <2> QED BY <1>4, <2>1, <2>2, <2>3, <2>4, <2>5, <2>6, <2>7, <2>8, <2>9 DEF AtVerdict
<1>5. CASE AtBoundary
  <2>1. CASE KillSwitch \/ WallClock
    BY <2>1 DEF KillSwitch, WallClock, NoStepVanishes
  <2>2. CASE Poll \/ NextStep
    BY <2>2, PlanStays DEF Poll, NextStep, record, ending
  <2>3. CASE Exit
    BY <2>3, PlanStays DEF Exit, ending
  <2> QED BY <1>5, <2>1, <2>2, <2>3 DEF AtBoundary
<1>6. CASE Operator
  <2>1. ASSUME NEW n \in Notes, Note(n) PROVE NoStepVanishes'
    BY <2>1, PlanStays DEF Note, record, ending
  <2>2. ASSUME NEW intent \in {"additive", "priority", "corrective"}, ChangePlan(intent) PROVE NoStepVanishes'
    BY <2>2, ChangeAccounts
  <2>3. CASE StopLoop
    BY <2>3 DEF StopLoop, NoStepVanishes
  <2> QED BY <1>6, <2>1, <2>2, <2>3 DEF Operator
<1>7. CASE UNCHANGED vars
  BY <1>7, PlanStays DEF vars, steps
<1> QED
  BY <1>1, <1>2, <1>3, <1>4, <1>5, <1>6, <1>7 DEF Next, Loop

LEMMA ShapeInit == Init => Shape
BY StepAssumption DEF Init, Shape, Step, Mark, Synthesis

\* With the advisor off (its default), no step of the plan, and none that the loop or
\* the operator adds, drops out of a run that may still end "done": it is ahead, or it
\* has a verdict, or others carry on with it.
THEOREM NoStepIsLost == ASSUME ~Advisor PROVE Spec => []NoStepVanishes
<1>1. Init => Shape /\ NoStepVanishes
  <2> SUFFICES ASSUME Init PROVE NoStepVanishes
    BY ShapeInit
  <2>1. drawn = Plan /\ remaining = [s \in 1..Plan |-> s] /\ Plan \in Nat
    BY StepAssumption DEF Init
  <2>2. \A s \in 1..drawn : s \in In(remaining)
    BY <2>1 DEF In
  <2> QED BY <2>2 DEF NoStepVanishes, Open
<1>2. Shape /\ NoStepVanishes /\ [Next]_vars => (Shape /\ NoStepVanishes)'
  BY ShapeStep, VanishStep
<1> QED
  BY <1>1, <1>2, PTL DEF Spec

-----------------------------------------------------------------------------
(* Every end has its type, and a landing stays on the record.              *)

Going == pc \notin {"exit", "end"}
InHand == pc \in {"picked", "run", "judge"} /\ current = Synthesis
NextUp == pc = "head" /\ remaining # <<>> /\ Head(remaining) = Synthesis

\* A run that goes on has no verdict but that of a landing, and the synthesis step of
\* a landing is next, in hand, has a row, or went to others.
Ends ==
    /\ LandingStaysVisible
    /\ InHand => stop = "out-of-budget"
    /\ Going => stop \in {"none", "out-of-budget"} /\ status = "done" /\ pause = "none"
    /\ Going /\ stop # "none" => Synthesized \/ NextUp \/ InHand
    /\ EndIsTyped

\* The loop goes on: the synthesis step passes from the rest to the hand, back, or to its row.
LEMMA GoesOn ==
    ASSUME Ends, Going, Going', UNCHANGED <<status, stop, pause>>,
           Landed' => Landed \/ InHand,
           InHand' => Landed \/ InHand,
           Synthesized => Synthesized',
           NextUp \/ InHand => (Synthesized \/ NextUp \/ InHand)'
    PROVE  Ends'
BY DEF Ends, Going, LandingStaysVisible, EndIsTyped

\* The loop ends: a verdict that stands is not replaced.
LEMMA GoesOut ==
    ASSUME Ends, Going, pc' = "exit", Landed' => Landed \/ InHand,
           stop # "none" => stop' = stop, EndIsTyped'
    PROVE  Ends'
BY DEF Ends, Going, InHand, LandingStaysVisible

\* A row of the current step is the synthesis step's if that is the one in hand.
LEMMA RowLands ==
    ASSUME Shape, NEW o \in Mark, o # "none", outcome' = [outcome EXCEPT ![current] = o],
           gone \subseteq gone', gone' \subseteq gone \cup {current}
    PROVE  /\ Synthesized => Synthesized'
           /\ current = Synthesis => Synthesized'
           /\ Synthesized' => Synthesized \/ current = Synthesis
BY RowKeeps, StepFacts DEF Synthesized

\* Steps drawn up are none of them the synthesis step.
LEMMA DrawnAreFresh ==
    ASSUME Shape
    PROVE  drawn + 1 # Synthesis /\ drawn + 2 # Synthesis /\ Research # Synthesis
BY StepAssumption, StepFacts DEF Shape, Synthesis

LEMMA RequeueLands ==
    ASSUME Shape, Ends, Requeue, pc \in {"run", "judge"}, pc' = "head", UNCHANGED <<status, stop, pause>>,
           Synthesized => Synthesized', Synthesized' => Synthesized \/ current = Synthesis
    PROVE  Ends'
<1>1. remaining' = <<current>> \o remaining /\ remaining \in Seq(Step) /\ current \in Step
  BY DEF Requeue, Shape
<1>2. remaining' # <<>> /\ Head(remaining') = current
  BY <1>1
<1>3. In(remaining') = {current} \cup In(remaining)
  BY RequeueKeeps
<1>4. Landed' => Landed \/ InHand
  BY <1>3 DEF Landed, InHand
<1>5. InHand => NextUp'
  BY <1>2 DEF InHand, NextUp
<1>6. Going /\ Going' /\ ~InHand' /\ ~NextUp
  BY DEF Going, InHand, NextUp
<1> QED BY <1>4, <1>5, <1>6, GoesOn

\* The current step, with a row, leaves its place to others.
LEMMA RowMoves ==
    ASSUME Shape, Ends, NEW o \in Mark, o # "none", outcome' = [outcome EXCEPT ![current] = o],
           gone \subseteq gone', gone' \subseteq gone \cup {current},
           pc \in {"picked", "run", "judge"}, pc' \in {"head", "boundary"},
           UNCHANGED <<status, stop, pause>>,
           Synthesis \in In(remaining') => Synthesis \in In(remaining) \/ current = Synthesis
    PROVE  Ends'
<1>1. Landed' => Landed \/ InHand
  BY RowLands DEF Landed, InHand, Synthesized
<1>2. InHand => Synthesized'
  BY RowLands DEF InHand
<1>3. Going /\ Going' /\ ~InHand' /\ ~NextUp
  BY DEF Going, InHand, NextUp
<1> QED BY <1>1, <1>2, <1>3, RowLands, GoesOn

\* A step is replaced by others, without a row.
LEMMA BreakMoves ==
    ASSUME Shape, Ends, Break, pc = "picked", pc' = "head",
           UNCHANGED <<status, stop, pause, outcome>>
    PROVE  Ends'
<1>1. Synthesis \in In(remaining') => Synthesis \in In(remaining)
  BY BreakKeeps, DrawnAreFresh
<1>2. gone' = gone \cup {current}
  BY BreakKeeps
<1>3. /\ Synthesized => Synthesized'
      /\ current = Synthesis => Synthesized'
      /\ Synthesized' => Synthesized \/ current = Synthesis
  BY <1>2 DEF Synthesized
<1>4. Landed' => Landed \/ InHand
  BY <1>1, <1>3 DEF Landed, InHand
<1>5. InHand => Synthesized'
  BY <1>3 DEF InHand
<1>6. Going /\ Going' /\ ~InHand' /\ ~NextUp
  BY DEF Going, InHand, NextUp
<1> QED BY <1>3, <1>4, <1>5, <1>6, GoesOn

\* The loop moves on between steps, or through one.
LEMMA Moves ==
    ASSUME Ends, Going, Going', UNCHANGED <<status, stop, pause, outcome, remaining, gone, current>>,
           pc \in {"picked", "run", "judge"} <=> pc' \in {"picked", "run", "judge"},
           pc = "head" => pc' = "head"
    PROVE  Ends'
<1>1. (InHand' <=> InHand) /\ (NextUp => NextUp') /\ (Synthesized' <=> Synthesized) /\ (Landed' <=> Landed)
  BY DEF InHand, NextUp, Synthesized, Landed
<1> QED BY <1>1, GoesOn

LEMMA EndsAtHead == ASSUME Shape, Ends, AtHead PROVE Ends'
<1>0. pc = "head" /\ Going /\ ~InHand /\ status = "done" /\ pause = "none"
  BY DEF AtHead, Ceiling, PlanEnds, Bump, Land, Take, Going, InHand, Ends
<1>1. CASE Ceiling
  <2>1. EndIsTyped' /\ (stop # "none" => stop' = stop)
    BY <1>0, <1>1 DEF Ceiling, StampStop, EndIsTyped
  <2>2. Landed' => Landed
    BY <1>1 DEF Ceiling, Landed, Synthesized, steps, record
  <2> QED BY <1>0, <1>1, <2>1, <2>2, GoesOut DEF Ceiling
<1>2. CASE PlanEnds
  <2>1. Synthesized \/ stop = "none"
    BY <1>0, <1>2 DEF PlanEnds, Ends, NextUp
  <2>2. EndIsTyped'
    BY <1>0, <1>2, <2>1 DEF PlanEnds, EndIsTyped, Synthesized, steps, record, ending
  <2>3. (Landed' => Landed) /\ stop' = stop /\ pc' = "exit"
    BY <1>2 DEF PlanEnds, Landed, Synthesized, steps, record, ending
  <2> QED BY <1>0, <2>2, <2>3, GoesOut
<1>3. CASE Bump
  BY <1>0, <1>3, Moves DEF Bump, Going, steps, record, ending
<1>4. CASE Land
  <2>1. pc' = "head" /\ remaining' = <<Synthesis>> /\ UNCHANGED <<status, pause>> /\ stop' = "out-of-budget"
    BY <1>0, <1>4 DEF Land, StampStop, Ends
  <2>2. NextUp'
    BY <2>1 DEF NextUp
  <2> QED BY <1>0, <2>1, <2>2 DEF Ends, Going, InHand, LandingStaysVisible, EndIsTyped
<1>5. CASE Take
  <2>1. In(remaining) = {Head(remaining)} \cup In(Tail(remaining))
    BY <1>5, HeadKeeps DEF Take
  <2>2. /\ current' = Head(remaining) /\ remaining' = Tail(remaining) /\ remaining # <<>>
        /\ pc' = "picked" /\ UNCHANGED <<status, stop, pause, outcome, gone>>
    BY <1>5 DEF Take, record, ending
  <2>3. (Landed' => Landed) /\ (InHand' => Landed) /\ (Synthesized' <=> Synthesized)
    BY <2>1, <2>2 DEF Landed, InHand, Synthesized
  <2>4. NextUp => InHand'
    BY <2>2 DEF NextUp, InHand
  <2>5. Going'
    BY <2>2 DEF Going
  <2> QED BY <1>0, <2>2, <2>3, <2>4, <2>5, GoesOn
<1> QED BY <1>1, <1>2, <1>3, <1>4, <1>5 DEF AtHead

LEMMA EndsAtStep == ASSUME Shape, Ends, AtStep PROVE Ends'
<1>0. {"done", "blocked", "skipped", "attempt"} \subseteq Mark
  BY DEF Mark, Verdict
<1>1. CASE Start
  BY <1>1, Moves DEF Start, Going, steps, record, ending
<1>2. CASE Refuse
  BY <1>0, <1>2, RowMoves DEF Refuse, RowSaved, steps, ending
<1>3. CASE SkipMilestone
  BY <1>0, <1>3, RowMoves DEF SkipMilestone, Row, steps, ending
<1>4. CASE Expand \/ SplitCompound
  BY <1>4, BreakMoves DEF Expand, SplitCompound, record, ending
<1> QED BY <1>1, <1>2, <1>3, <1>4 DEF AtStep

LEMMA EndsAtOutcome == ASSUME Shape, Ends, AtOutcome PROVE Ends'
<1>0. pc = "run" /\ Going /\ status = "done" /\ pause = "none"
  <2>1. pc = "run"
    BY DEF AtOutcome, Runaway, RunOnNewLayer, BounceQuestion, Pause, BudgetPause, BudgetKill, Weigh
  <2> QED BY <2>1 DEF Going, Ends
<1>1. CASE Runaway
  <2>1. EndIsTyped' /\ (stop # "none" => stop' = stop)
    BY <1>0, <1>1 DEF Runaway, BreakOff, StampStop, EndIsTyped
  <2>2. (Landed' => Landed) /\ pc' = "exit"
    BY <1>1 DEF Runaway, BreakOff, Landed, Synthesized, steps, record
  <2> QED BY <1>0, <2>1, <2>2, GoesOut
<1>2. CASE RunOnNewLayer \/ BounceQuestion
  <2>1. Requeue /\ pc' = "head" /\ UNCHANGED <<status, stop, pause, outcome, gone>>
    BY <1>2 DEF RunOnNewLayer, BounceQuestion, Requeue, record, ending
  <2> QED BY <1>0, <2>1, RequeueLands DEF Synthesized
<1>3. ASSUME NEW r \in PauseReason, Pause(r) PROVE Ends'
  <2>1. EndIsTyped' /\ stop' = stop
    BY <1>0, <1>3 DEF Pause, BreakOff, StampPause, EndIsTyped
  <2>2. /\ outcome' = [outcome EXCEPT ![current] = "blocked"] /\ "blocked" \in Mark
        /\ remaining' = remaining /\ gone' = gone /\ pc' = "exit"
    BY <1>3 DEF Pause, BreakOff, Row, Mark, Verdict, steps
  <2>3. Landed' => Landed \/ InHand
    BY <1>0, <2>2, RowLands DEF Landed, InHand, Synthesized
  <2> QED BY <1>0, <2>1, <2>2, <2>3, GoesOut
<1>4. ASSUME NEW raw, NEW breaches, BudgetPause(raw, breaches) PROVE Ends'
  <2>1. EndIsTyped' /\ stop' = stop
    BY <1>0, <1>4 DEF BudgetPause, StampPause, EndIsTyped
  <2>2. (Landed' => Landed) /\ pc' = "exit"
    BY <1>4 DEF BudgetPause, Landed, Synthesized, steps, record
  <2> QED BY <1>0, <2>1, <2>2, GoesOut
<1>5. ASSUME NEW raw, BudgetKill(raw) PROVE Ends'
  <2>1. EndIsTyped' /\ (stop # "none" => stop' = stop)
    BY <1>0, <1>5 DEF BudgetKill, BreakOff, StampStop, EndIsTyped
  <2>2. (Landed' => Landed) /\ pc' = "exit"
    BY <1>5 DEF BudgetKill, BreakOff, Landed, Synthesized, steps, record
  <2> QED BY <1>0, <2>1, <2>2, GoesOut
<1>6. ASSUME NEW raw, NEW res, NEW breaches, Weigh(raw, res, breaches) PROVE Ends'
  BY <1>0, <1>6, Moves DEF Weigh, Going, steps, record, ending
<1> QED BY <1>1, <1>2, <1>3, <1>4, <1>5, <1>6 DEF AtOutcome

LEMMA EndsAtVerdict == ASSUME Shape, Ends, AtVerdict PROVE Ends'
<1>0. {"done", "blocked", "skipped", "attempt"} \subseteq Mark
  BY DEF Mark, Verdict
<1>1. pc = "judge" /\ Going /\ status = "done" /\ pause = "none"
  <2>1. pc = "judge"
    BY DEF AtVerdict, Stuck, Advise, FinishStep, Abandon, Retry, Redecompose, SplitShape,
           SplitForInfo, SplitOnTimeout, Hung, GiveUp, Blocked, Judging
  <2> QED BY <2>1 DEF Going, Ends
<1>2. CASE Stuck
  <2>1. EndIsTyped' /\ (stop # "none" => stop' = stop)
    BY <1>1, <1>2 DEF Stuck, BreakOff, StampStop, EndIsTyped
  <2>2. /\ outcome' = [outcome EXCEPT ![current] = "blocked"]
        /\ remaining' = remaining /\ gone' = gone /\ pc' = "exit"
    BY <1>2 DEF Stuck, BreakOff, Row, steps
  <2>3. Landed' => Landed \/ InHand
    BY <1>0, <1>1, <2>2, RowLands DEF Landed, InHand, Synthesized
  <2> QED BY <1>1, <2>1, <2>2, <2>3, GoesOut
<1>3. CASE Advise
  BY <1>0, <1>1, <1>3, RowMoves DEF Advise, Row, steps, ending
<1>4. ASSUME NEW inject, FinishStep(inject) PROVE Ends'
  <2>1. Synthesis \in In(remaining') => Synthesis \in In(remaining)
    BY <1>4, InjectKeeps, DrawnAreFresh
  <2> QED BY <1>0, <1>1, <1>4, <2>1, RowMoves DEF FinishStep, RowSaved, ending
<1>5. CASE Abandon
  BY <1>0, <1>1, <1>5, RowMoves DEF Abandon, RowSaved, steps, ending
<1>6. CASE Retry
  <2>1. /\ Requeue /\ pc' = "head" /\ UNCHANGED <<status, stop, pause>>
        /\ outcome' = [outcome EXCEPT ![current] = "attempt"] /\ gone' = gone
    BY <1>6 DEF Retry, Requeue, Row, ending
  <2>2. (Synthesized => Synthesized') /\ (Synthesized' => Synthesized \/ current = Synthesis)
    BY <1>0, <2>1, RowLands
  <2> QED BY <1>1, <2>1, <2>2, RequeueLands
<1>7. CASE Redecompose \/ SplitShape \/ SplitOnTimeout
  <2>1. /\ Break /\ pc' = "head" /\ UNCHANGED <<status, stop, pause>>
        /\ outcome' = [outcome EXCEPT ![current] = "attempt"]
    BY <1>7 DEF Redecompose, SplitShape, SplitOnTimeout, Supersede, Row, ending
  <2>2. Synthesis \in In(remaining') => Synthesis \in In(remaining)
    BY <2>1, BreakKeeps, DrawnAreFresh
  <2>3. gone' = gone \cup {current}
    BY <2>1, BreakKeeps
  <2> QED BY <1>0, <1>1, <2>1, <2>2, <2>3, RowMoves
<1>8. CASE SplitForInfo
  <2>1. /\ pc' = "head" /\ UNCHANGED <<status, stop, pause>>
        /\ outcome' = [outcome EXCEPT ![current] = "attempt"] /\ gone' = gone
    BY <1>8 DEF SplitForInfo, Supersede, Row, ending
  <2>2. Synthesis \in In(remaining') => Synthesis \in In(remaining) \/ current = Synthesis
    BY <1>8, InfoKeeps, DrawnAreFresh
  <2> QED BY <1>0, <1>1, <2>1, <2>2, RowMoves
<1>9. CASE Hung
  <2>1. EndIsTyped' /\ (stop # "none" => stop' = stop)
    BY <1>1, <1>9 DEF Hung, StampStop, EndIsTyped
  <2>2. (Landed' => Landed) /\ pc' = "exit"
    BY <1>9 DEF Hung, Landed, Synthesized, steps, record
  <2> QED BY <1>1, <2>1, <2>2, GoesOut
<1>10. ASSUME NEW v, GiveUp(v) PROVE Ends'
  <2>1. v # "none"
    BY <1>10 DEF GiveUp, Causes
  <2>2. EndIsTyped' /\ (stop # "none" => stop' = stop)
    BY <1>1, <1>10, <2>1 DEF GiveUp, StampStop, EndIsTyped
  <2>3. /\ outcome' = [outcome EXCEPT ![current] = "blocked"]
        /\ remaining' = remaining /\ gone' = gone /\ pc' = "exit"
    BY <1>10 DEF GiveUp, RowSaved, steps
  <2>4. Landed' => Landed \/ InHand
    BY <1>0, <1>1, <2>3, RowLands DEF Landed, InHand, Synthesized
  <2> QED BY <1>1, <2>2, <2>3, <2>4, GoesOut
<1> QED BY <1>2, <1>3, <1>4, <1>5, <1>6, <1>7, <1>8, <1>9, <1>10 DEF AtVerdict

LEMMA EndsAtBoundary == ASSUME Shape, Ends, AtBoundary PROVE Ends'
<1>1. CASE KillSwitch \/ WallClock
  <2>1. Going /\ pc' = "exit" /\ status = "done" /\ pause = "none"
    BY <1>1 DEF KillSwitch, WallClock, Going, Ends
  <2>2. EndIsTyped' /\ (stop # "none" => stop' = stop)
    BY <1>1, <2>1 DEF KillSwitch, WallClock, StampStop, StampPause, EndIsTyped
  <2>3. Landed' => Landed
    BY <1>1 DEF KillSwitch, WallClock, Landed, Synthesized, steps, record
  <2> QED BY <2>1, <2>2, <2>3, GoesOut
<1>2. CASE Poll \/ NextStep
  BY <1>2, Moves DEF Poll, NextStep, Going, steps, record, ending
<1>3. CASE Exit
  BY <1>3 DEF Exit, Ends, Going, InHand, LandingStaysVisible, Landed, Synthesized, EndIsTyped, steps, ending
<1> QED BY <1>1, <1>2, <1>3 DEF AtBoundary

LEMMA EndsAtPoll == ASSUME Shape, Ends, Operator PROVE Ends'
<1>1. ASSUME NEW n \in Notes, Note(n) PROVE Ends'
  BY <1>1, Moves DEF Note, Going, steps, record, ending
<1>2. ASSUME NEW intent \in {"additive", "priority", "corrective"}, ChangePlan(intent) PROVE Ends'
  <2>1. pc = "poll" /\ pc' = "poll" /\ UNCHANGED <<status, stop, pause, outcome>>
    BY <1>2 DEF ChangePlan, record, ending
  <2>2. Synthesis \in In(remaining') => Synthesis \in In(remaining)
    BY <1>2, ChangeKeeps, DrawnAreFresh
  <2>3. (Landed' => Landed) /\ (Synthesized => Synthesized')
    BY <1>2, <2>1, <2>2, ChangeKeeps DEF Landed, Synthesized
  <2>4. Going /\ Going' /\ ~InHand /\ ~InHand' /\ ~NextUp
    BY <2>1 DEF Going, InHand, NextUp
  <2> QED BY <2>1, <2>3, <2>4, GoesOn
<1>3. CASE StopLoop
  <2>1. Going /\ pc' = "exit" /\ status = "done" /\ pause = "none"
    BY <1>3 DEF StopLoop, Going, Ends
  <2>2. EndIsTyped' /\ (stop # "none" => stop' = stop)
    BY <1>3, <2>1 DEF StopLoop, StampStop, StampPause, EndIsTyped
  <2>3. Landed' => Landed
    BY <1>3, InNone DEF StopLoop, Landed, Synthesized, record
  <2> QED BY <2>1, <2>2, <2>3, GoesOut
<1> QED BY <1>1, <1>2, <1>3 DEF Operator

LEMMA EndsStep == Shape /\ Ends /\ [Next]_vars => Ends'
<1> SUFFICES ASSUME Shape, Ends, [Next]_vars PROVE Ends'
  OBVIOUS
<1>1. CASE UNCHANGED vars
  BY <1>1 DEF vars, Ends, Going, InHand, NextUp, Synthesized, LandingStaysVisible, Landed, EndIsTyped
<1> QED
  BY <1>1, EndsAtHead, EndsAtStep, EndsAtOutcome, EndsAtVerdict, EndsAtBoundary, EndsAtPoll
  DEF Next, Loop

LEMMA EndsInit == Init => Ends
<1> SUFFICES ASSUME Init PROVE Ends
  OBVIOUS
<1>1. remaining = [s \in 1..Plan |-> s] /\ Plan \in Nat /\ outcome[Synthesis] = "none"
  BY StepAssumption, StepFacts DEF Init
<1>2. Synthesis \notin In(remaining)
  BY <1>1 DEF In, Synthesis
<1> QED
  BY <1>1, <1>2 DEF Init, Ends, Going, InHand, NextUp, Synthesized, LandingStaysVisible, Landed, EndIsTyped

\* Whatever ends the run after a landing, its record still says the budget cut it short:
\* the first verdict stands (stamp_stop), and the synthesis step never comes before it.
THEOREM LandingStays == Spec => []LandingStaysVisible
<1>1. Init => Shape /\ Ends
  BY ShapeInit, EndsInit
<1>2. Shape /\ Ends /\ [Next]_vars => (Shape /\ Ends)'
  BY ShapeStep, EndsStep
<1>3. Ends => LandingStaysVisible
  BY DEF Ends
<1> QED
  BY <1>1, <1>2, <1>3, PTL DEF Spec

\* No run ends without saying why, and none is "done" with a verdict against it, save
\* one that a landing cut short and whose synthesis step was dealt with.
THEOREM EveryEndIsTyped == Spec => []EndIsTyped
<1>1. Init => Shape /\ Ends
  BY ShapeInit, EndsInit
<1>2. Shape /\ Ends /\ [Next]_vars => (Shape /\ Ends)'
  BY ShapeStep, EndsStep
<1>3. Ends => EndIsTyped
  BY DEF Ends
<1> QED
  BY <1>1, <1>2, <1>3, PTL DEF Spec

-----------------------------------------------------------------------------
(* The checkpoint.                                                         *)

\* The rows that are saved are rows there are; at the end they are all of them.
Saved ==
    /\ rows \in [all : Nat, done : Nat, saved : Nat]
    /\ rows.saved <= rows.all
    /\ EveryRowSaved

LEMMA SavedRow == ASSUME Saved, NEW o, Row(o), pc' # "end" PROVE Saved'
<1>1. rows' = [all |-> rows.all + 1, saved |-> rows.saved,
               done |-> IF o = "done" THEN rows.done + 1 ELSE rows.done]
  BY DEF Row, Saved
<1> QED BY <1>1 DEF Saved, EveryRowSaved

LEMMA SavedAll == ASSUME Saved, NEW o, RowSaved(o) PROVE Saved'
BY DEF Saved, RowSaved, EveryRowSaved

LEMMA SavedSame == ASSUME Saved, UNCHANGED rows, pc' # "end" PROVE Saved'
BY DEF Saved, EveryRowSaved

LEMMA SavedStep == Saved /\ [Next]_vars => Saved'
<1> SUFFICES ASSUME Saved, [Next]_vars PROVE Saved'
  OBVIOUS
<1>1. CASE AtHead
  BY <1>1, SavedSame DEF AtHead, Ceiling, PlanEnds, Bump, Land, Take, record
<1>2. CASE AtStep
  <2>1. CASE Refuse
    BY <2>1, SavedAll DEF Refuse
  <2>2. CASE SkipMilestone
    BY <2>2, SavedRow DEF SkipMilestone
  <2>3. CASE Expand \/ SplitCompound \/ Start
    BY <2>3, SavedSame DEF Expand, SplitCompound, Start, record
  <2> QED BY <1>2, <2>1, <2>2, <2>3 DEF AtStep
<1>3. CASE AtOutcome
  <2>1. CASE Runaway \/ RunOnNewLayer \/ BounceQuestion
    BY <2>1, SavedSame DEF Runaway, BreakOff, RunOnNewLayer, BounceQuestion, record
  <2>2. ASSUME NEW r \in PauseReason, Pause(r) PROVE Saved'
    BY <2>2, SavedRow DEF Pause, BreakOff
  <2>3. ASSUME NEW raw, NEW breaches, BudgetPause(raw, breaches) PROVE Saved'
    BY <2>3, SavedSame DEF BudgetPause, record
  <2>4. ASSUME NEW raw, BudgetKill(raw) PROVE Saved'
    BY <2>4, SavedSame DEF BudgetKill, BreakOff, record
  <2>5. ASSUME NEW raw, NEW res, NEW breaches, Weigh(raw, res, breaches) PROVE Saved'
    BY <2>5, SavedSame DEF Weigh, record
  <2> QED BY <1>3, <2>1, <2>2, <2>3, <2>4, <2>5 DEF AtOutcome
<1>4. CASE AtVerdict
  <2>1. CASE Stuck \/ Advise \/ Retry
    BY <2>1, SavedRow DEF Stuck, BreakOff, Advise, Retry
  <2>2. ASSUME NEW inject, FinishStep(inject) PROVE Saved'
    BY <2>2, SavedAll DEF FinishStep
  <2>3. CASE Abandon
    BY <2>3, SavedAll DEF Abandon
  <2>4. CASE Redecompose \/ SplitShape \/ SplitForInfo \/ SplitOnTimeout
    BY <2>4, SavedRow DEF Redecompose, SplitShape, SplitForInfo, SplitOnTimeout, Supersede
  <2>5. CASE Hung
    BY <2>5, SavedSame DEF Hung, record
  <2>6. ASSUME NEW v, GiveUp(v) PROVE Saved'
    BY <2>6, SavedAll DEF GiveUp
  <2> QED BY <1>4, <2>1, <2>2, <2>3, <2>4, <2>5, <2>6 DEF AtVerdict
<1>5. CASE AtBoundary
  <2>1. CASE KillSwitch \/ WallClock \/ Poll \/ NextStep
    BY <2>1, SavedSame DEF KillSwitch, WallClock, Poll, NextStep, record
  <2>2. CASE Exit
    BY <2>2 DEF Exit, Unsaved, Saved, EveryRowSaved
  <2> QED BY <1>5, <2>1, <2>2 DEF AtBoundary
<1>6. CASE Operator
  BY <1>6, SavedSame DEF Operator, Note, ChangePlan, StopLoop, record
<1>7. CASE UNCHANGED vars
  BY <1>7 DEF vars, Saved, EveryRowSaved
<1> QED
  BY <1>1, <1>2, <1>3, <1>4, <1>5, <1>6, <1>7 DEF Next, Loop

\* A loop that has ended left no row out of the checkpoint, the attempts included.
THEOREM RowsAreSaved == Spec => []EveryRowSaved
<1>1. Init => Saved
  BY DEF Init, Saved, EveryRowSaved
<1>2. Saved => EveryRowSaved
  BY DEF Saved
<1> QED
  BY <1>1, <1>2, SavedStep, PTL DEF Spec

-----------------------------------------------------------------------------
(* The order of the plan, and what its steps stand on.                     *)

\* Steps of the plan are ahead in the plan's order, each once.
InOrder(rs) ==
    \A i, j \in 1..Len(rs) : i < j /\ rs[i] \in 1..Plan /\ rs[j] \in 1..Plan => rs[i] < rs[j]

\* The plan's steps in S come after step a.
Before(a, S) == a \in 1..Plan => \A s \in S : s \in 1..Plan => a < s

LEMMA OrderFront ==
    ASSUME NEW a \in Step, NEW s \in Seq(Step), InOrder(s), Before(a, In(s))
    PROVE  InOrder(<<a>> \o s)
<1> DEFINE t == <<a>> \o s
<1>1. t \in Seq(Step) /\ Len(t) = Len(s) + 1 /\ Len(s) \in Nat
  OBVIOUS
<1>2. t[1] = a /\ \A i \in 1..Len(s) : t[i + 1] = s[i]
  OBVIOUS
<1>3. \A i \in 1..Len(s) : s[i] \in In(s)
  BY DEF In
<1>4. ASSUME NEW i \in 1..Len(t), NEW j \in 1..Len(t), i < j, t[i] \in 1..Plan, t[j] \in 1..Plan
      PROVE  t[i] < t[j]
  <2>1. j - 1 \in 1..Len(s) /\ (j - 1) + 1 = j
    BY <1>1, <1>4
  <2>2. t[j] = s[j - 1]
    BY <1>2, <2>1
  <2>3. CASE i = 1
    BY <1>2, <1>3, <1>4, <2>1, <2>2, <2>3 DEF Before
  <2>4. CASE i # 1
    <3>1. i - 1 \in 1..Len(s) /\ (i - 1) + 1 = i /\ i - 1 < j - 1
      BY <1>1, <1>4, <2>4
    <3>2. t[i] = s[i - 1]
      BY <1>2, <3>1
    <3> QED BY <1>4, <2>1, <2>2, <3>1, <3>2 DEF InOrder
  <2> QED BY <2>3, <2>4
<1> QED BY <1>4 DEF InOrder

LEMMA OrderBehind ==
    ASSUME NEW a \in Step, a \notin 1..Plan, NEW s \in Seq(Step), InOrder(s)
    PROVE  InOrder(Append(s, a))
<1> DEFINE t == Append(s, a)
<1>1. t \in Seq(Step) /\ Len(t) = Len(s) + 1 /\ Len(s) \in Nat
  OBVIOUS
<1>2. t[Len(s) + 1] = a /\ \A i \in 1..Len(s) : t[i] = s[i]
  OBVIOUS
<1>3. ASSUME NEW i \in 1..Len(t), NEW j \in 1..Len(t), i < j, t[i] \in 1..Plan, t[j] \in 1..Plan
      PROVE  t[i] < t[j]
  <2>1. j # Len(s) + 1
    BY <1>2, <1>3
  <2>2. i \in 1..Len(s) /\ j \in 1..Len(s)
    BY <1>1, <1>3, <2>1
  <2> QED BY <1>2, <1>3, <2>2 DEF InOrder
<1> QED BY <1>3 DEF InOrder

LEMMA OrderTail ==
    ASSUME NEW s \in Seq(Step), s # <<>>, InOrder(s)
    PROVE  InOrder(Tail(s)) /\ Before(Head(s), In(Tail(s)))
<1> DEFINE t == Tail(s)
<1>1. Len(t) = Len(s) - 1 /\ Len(s) \in Nat \ {0} /\ Head(s) = s[1]
  OBVIOUS
<1>2. \A i \in 1..Len(t) : t[i] = s[i + 1] /\ i + 1 \in 1..Len(s) /\ i + 1 > 1
  OBVIOUS
<1>3. InOrder(t)
  <2> SUFFICES ASSUME NEW i \in 1..Len(t), NEW j \in 1..Len(t), i < j, t[i] \in 1..Plan, t[j] \in 1..Plan
               PROVE  t[i] < t[j]
    BY DEF InOrder
  <2>1. i + 1 \in 1..Len(s) /\ j + 1 \in 1..Len(s) /\ i + 1 < j + 1 /\ t[i] = s[i + 1] /\ t[j] = s[j + 1]
    BY <1>2
  <2> QED BY <2>1 DEF InOrder
<1>4. Before(Head(s), In(t))
  <2> SUFFICES ASSUME s[1] \in 1..Plan, NEW x \in In(t), x \in 1..Plan PROVE s[1] < x
    BY <1>1 DEF Before
  <2>1. PICK i \in 1..Len(t) : x = t[i]
    BY DEF In
  <2>2. 1 \in 1..Len(s) /\ i + 1 \in 1..Len(s) /\ 1 < i + 1 /\ x = s[i + 1]
    BY <1>1, <1>2, <2>1
  <2> QED BY <2>2 DEF InOrder
<1> QED BY <1>3, <1>4

\* A step that was not in the plan may stand anywhere.
LEMMA OrderFresh ==
    ASSUME NEW a \in Step, a \notin 1..Plan
    PROVE  InOrder(<<a>>) /\ \A S : Before(a, S)
<1>1. Len(<<a>>) = 1 /\ <<a>>[1] = a
  OBVIOUS
<1> QED BY <1>1 DEF InOrder, Before

LEMMA DrawnIsFresh ==
    ASSUME Shape
    PROVE  /\ drawn + 1 \notin 1..Plan /\ drawn + 2 \notin 1..Plan
           /\ Research \notin 1..Plan /\ Synthesis \notin 1..Plan
           /\ 1..Plan \subseteq Step
BY StepAssumption DEF Shape, Research, Synthesis, Step

AtWork == pc \in {"picked", "run", "judge"}

\* The plan's steps are worked on in its order, each once: what comes before the step
\* at hand is not open any more, so it has a row or went to others, and its row is
\* not overwritten once it says done.
Ground ==
    /\ InOrder(remaining)
    /\ AtWork => Before(current, In(remaining))
    /\ Going => \A d \in 1..Plan : outcome[d] = "none" => d \in Open \cup gone
    /\ \A d \in 1..Plan : outcome[d] = "done" => d \notin Open
    /\ pc \in {"run", "judge"} => ~Unmet(current)
    /\ DoneOnDoneGround

\* No step turns done, and what is open stays so, has a row, or is gone.
LEMMA GroundMoves ==
    ASSUME Shape, Ground,
           \A d \in 1..Plan :
              \/ outcome'[d] = outcome[d]
              \/ d \in Open /\ outcome'[d] \notin {"done", "none"},
           superseded \subseteq superseded', \A d \in 1..Plan : d \in gone => d \in gone',
           \A d \in 1..Plan : d \in Open' => d \in Open,
           Going' => Going /\ \A d \in 1..Plan : d \in Open => d \in Open' \/ d \in gone' \/ outcome'[d] # "none",
           InOrder(remaining'),
           AtWork' => Before(current', In(remaining')),
           pc' \in {"run", "judge"} => ~Unmet(current)'
    PROVE  Ground'
<1>1. Going' => \A d \in 1..Plan : outcome'[d] = "none" => d \in Open' \cup gone'
  BY DEF Ground
<1>2. \A d \in 1..Plan : outcome'[d] = "done" => outcome[d] = "done"
  OBVIOUS
<1>3. \A d \in 1..Plan : outcome[d] = "done" => outcome'[d] = "done"
  BY DEF Ground
<1>4. \A d \in 1..Plan : outcome'[d] = "done" => d \notin Open'
  BY <1>2 DEF Ground
<1>5. DoneOnDoneGround'
  <2> SUFFICES ASSUME Intact, NEW s \in 1..Plan, outcome'[s] = "done", NEW d \in After[s]
               PROVE  outcome'[d] = "done" \/ d \in superseded' \cup gone'
    BY DEF DoneOnDoneGround
  <2>1. d \in 1..Plan
    BY StepAssumption
  <2>2. outcome[d] = "done" \/ d \in superseded \cup gone
    BY <1>2 DEF Ground, DoneOnDoneGround
  <2> QED BY <1>3, <2>1, <2>2
<1> QED BY <1>1, <1>4, <1>5 DEF Ground

\* The loop moves on, or out, and leaves the steps and their rows as they are.
LEMMA GroundStays ==
    ASSUME Shape, Ground, UNCHANGED <<outcome, steps, current>>,
           AtWork' => AtWork, Going' => Going /\ (AtWork => AtWork'),
           pc' \in {"run", "judge"} => ~Unmet(current)
    PROVE  Ground'
<1>1. UNCHANGED <<outcome, remaining, superseded, gone, current>>
  BY DEF steps
<1>2. \A d \in 1..Plan : d \in Open' => d \in Open
  BY <1>1 DEF Open, AtWork
<1>3. Going' => Going /\ \A d \in 1..Plan : d \in Open => d \in Open'
  BY <1>1 DEF Open, AtWork
<1>4. Unmet(current)' <=> Unmet(current)
  BY <1>1 DEF Unmet
<1>5. InOrder(remaining') /\ (AtWork' => Before(current', In(remaining')))
  BY <1>1 DEF Ground
<1> QED BY <1>1, <1>2, <1>3, <1>4, <1>5, GroundMoves

\* The step at hand is put down with a row that is not done, or with none when it
\* comes again or is gone; what is put in front of the rest is it, or is fresh.
LEMMA GroundPutsDown ==
    ASSUME Shape, Ground, AtWork, ~AtWork', superseded \subseteq superseded', gone \subseteq gone',
           \/ outcome' = outcome /\ (Going' => current \in In(remaining') \cup gone')
           \/ \E o \in Mark \ {"done", "none"} : outcome' = [outcome EXCEPT ![current] = o],
           InOrder(remaining'), In(remaining) \subseteq In(remaining'),
           \A d \in 1..Plan : d \in In(remaining') => d = current \/ d \in In(remaining)
    PROVE  Ground'
<1>1. /\ Open = In(remaining) \cup {current}
      /\ Open' = In(remaining')
  BY DEF Open, AtWork
<1>2. Going /\ pc' \notin {"run", "judge"}
  BY DEF Going, AtWork
<1>3. \A d \in 1..Plan : d # current => outcome'[d] = outcome[d]
  BY RowKeeps, DrawnIsFresh
<1>4. outcome' = outcome \/ outcome'[current] \in Mark \ {"done", "none"}
  BY RowKeeps
<1>5. \A d \in 1..Plan : outcome'[d] = outcome[d] \/ (d \in Open /\ outcome'[d] \notin {"done", "none"})
  BY <1>1, <1>3, <1>4
<1>6. Going' => \A d \in 1..Plan : d \in Open => d \in Open' \/ d \in gone' \/ outcome'[d] # "none"
  <2> SUFFICES ASSUME Going', NEW d \in 1..Plan, d \in Open
               PROVE  d \in Open' \/ d \in gone' \/ outcome'[d] # "none"
    OBVIOUS
  <2>1. CASE d = current
    <3>1. current \in In(remaining') \cup gone' \/ outcome'[current] # "none"
      BY RowKeeps
    <3> QED BY <1>1, <2>1, <3>1
  <2>2. CASE d # current
    BY <1>1, <2>2
  <2> QED BY <2>1, <2>2
<1>7. \A d \in 1..Plan : d \in Open' => d \in Open
  BY <1>1
<1> QED BY <1>2, <1>5, <1>6, <1>7, GroundMoves

\* Two fresh steps in front of the rest.
LEMMA GroundBreaks ==
    ASSUME Shape, Ground, AtWork, ~AtWork', Break, superseded \subseteq superseded',
           outcome' = outcome \/ \E o \in Mark \ {"done", "none"} : outcome' = [outcome EXCEPT ![current] = o]
    PROVE  Ground'
<1>1. /\ drawn + 1 \in Step \ 1..Plan /\ drawn + 2 \in Step \ 1..Plan
      /\ remaining' = <<drawn + 1, drawn + 2>> \o remaining
  BY StepAssumption, DrawnIsFresh DEF Shape, Break, Step
<1>2. remaining' = <<drawn + 1>> \o (<<drawn + 2>> \o remaining)
  BY <1>1 DEF Shape
<1>3. <<drawn + 2>> \o remaining \in Seq(Step) /\ InOrder(<<drawn + 2>> \o remaining)
  BY <1>1, OrderFront, OrderFresh, InFront DEF Shape, Ground
<1>4. InOrder(remaining')
  BY <1>1, <1>2, <1>3, OrderFront, OrderFresh
<1>5. gone' = gone \cup {current} /\ In(remaining') = {drawn + 1, drawn + 2} \cup In(remaining)
  BY BreakKeeps
<1> QED BY <1>1, <1>4, <1>5, GroundPutsDown

\* The step at hand in front of the rest.
LEMMA GroundRequeues ==
    ASSUME Shape, Ground, AtWork, ~AtWork', Requeue,
           outcome' = outcome \/ \E o \in Mark \ {"done", "none"} : outcome' = [outcome EXCEPT ![current] = o]
    PROVE  Ground'
<1>1. remaining' = <<current>> \o remaining /\ UNCHANGED <<superseded, gone>>
  BY DEF Requeue
<1>2. InOrder(remaining')
  BY <1>1, OrderFront DEF Shape, Ground
<1>3. In(remaining') = {current} \cup In(remaining)
  BY RequeueKeeps
<1> QED BY <1>1, <1>2, <1>3, GroundPutsDown

\* The step taken is the first of the rest.
LEMMA GroundTakes == ASSUME Shape, Ground, Take PROVE Ground'
<1>1. /\ current' = Head(remaining) /\ remaining' = Tail(remaining) /\ remaining # <<>>
      /\ pc = "head" /\ pc' = "picked" /\ UNCHANGED <<outcome, superseded, gone>>
  BY DEF Take, record
<1>2. In(remaining) = {Head(remaining)} \cup In(Tail(remaining))
  BY <1>1, HeadKeeps
<1>3. Open' = Open
  BY <1>1, <1>2 DEF Open
<1>4. InOrder(remaining') /\ Before(current', In(remaining'))
  BY <1>1, OrderTail DEF Shape, Ground
<1>5. Going
  BY <1>1 DEF Going
<1> QED BY <1>1, <1>3, <1>4, <1>5, GroundMoves

LEMMA GroundLands == ASSUME Shape, Ground, Land PROVE Ground'
<1>1. /\ remaining' = <<Synthesis>> /\ In(remaining') = {Synthesis}
      /\ gone' = (gone \cup In(remaining)) \ {Synthesis}
      /\ pc = "head" /\ pc' = "head" /\ UNCHANGED <<outcome, superseded>>
  BY LandKeeps DEF Land, record
<1>2. Synthesis \in Step \ 1..Plan
  BY StepFacts, DrawnIsFresh
<1>3. InOrder(remaining')
  BY <1>1, <1>2, OrderFresh
<1>4. \A d \in 1..Plan : (d \in Open => d \in gone') /\ (d \in gone => d \in gone') /\ d \notin Open'
  BY <1>1, <1>2 DEF Open
<1>5. Going /\ ~AtWork'
  BY <1>1 DEF Going, AtWork
<1> QED BY <1>1, <1>3, <1>4, <1>5, GroundMoves DEF AtWork

\* What the operator changes is ahead; what the change replaces is gone.
LEMMA GroundChanges ==
    ASSUME Shape, Ground, NEW intent \in {"additive", "priority", "corrective"}, ChangePlan(intent)
    PROVE  Ground'
<1>1. /\ pc = "poll" /\ pc' = "poll" /\ UNCHANGED <<outcome, superseded>>
      /\ remaining' = Changed(intent, drawn + 1)
  BY DEF ChangePlan, record
<1>2. drawn + 1 \in Step \ 1..Plan /\ remaining \in Seq(Step) /\ InOrder(remaining)
  BY StepAssumption, DrawnIsFresh DEF Shape, ChangePlan, Step, Ground
<1>3. InOrder(remaining')
  <2>1. CASE intent = "additive"
    BY <1>1, <1>2, <2>1, OrderBehind DEF Changed
  <2>2. CASE intent = "priority"
    BY <1>1, <1>2, <2>2, OrderFront, OrderFresh DEF Changed
  <2>3. CASE intent = "corrective"
    BY <1>1, <1>2, <2>3, OrderFresh DEF Changed
  <2> QED BY <2>1, <2>2, <2>3
<1>4. gone \subseteq gone' /\ In(remaining) \subseteq In(remaining') \cup gone'
  BY ChangeKeeps
<1>5. \A d \in 1..Plan : d \in In(remaining') => d \in In(remaining)
  BY <1>2, ChangeKeeps
<1>6. Open = In(remaining) /\ Open' = In(remaining') /\ Going /\ ~AtWork'
  BY <1>1 DEF Open, Going, AtWork
<1> QED BY <1>1, <1>3, <1>4, <1>5, <1>6, GroundMoves DEF AtWork

\* The step at hand is done: what it was to come after came before it in the plan, so
\* it is not open, has a row or is gone, and its row passed the gate.
LEMMA GroundFinishes ==
    ASSUME Shape, Ground, NEW inject, FinishStep(inject)
    PROVE  Ground'
<1>0. /\ outcome' = [outcome EXCEPT ![current] = "done"] /\ "done" \in Mark
      /\ UNCHANGED <<superseded, gone, current>> /\ pc = "judge" /\ pc' = "boundary"
  BY DEF FinishStep, Judging, RowSaved, Mark, Verdict
<1>1. Open = In(remaining) \cup {current} /\ Open' = In(remaining') /\ Going /\ ~AtWork'
  BY <1>0 DEF Open, Going, AtWork
<1>2. outcome'[current] = "done" /\ \A d \in 1..Plan : d # current => outcome'[d] = outcome[d]
  BY <1>0, RowKeeps, DrawnIsFresh
<1>3. In(remaining) \subseteq In(remaining') /\ \A d \in 1..Plan : d \in In(remaining') => d \in In(remaining)
  BY InjectKeeps, DrawnIsFresh
<1>4. Before(current, In(remaining)) /\ InOrder(remaining)
  BY <1>0 DEF Ground, AtWork
<1>5. InOrder(remaining')
  <2>1. CASE inject = 0
    <3>1. [i \in 1..inject |-> drawn + i] = <<>>
      BY <2>1
    <3>2. remaining' = <<>> \o remaining
      BY <3>1 DEF FinishStep
    <3>3. remaining' = remaining
      BY <3>2 DEF Shape
    <3> QED BY <1>4, <3>3
  <2>2. CASE inject = 1
    <3>1. [i \in 1..inject |-> drawn + i] = <<drawn + 1>>
      BY <2>2
    <3>2. remaining' = <<drawn + 1>> \o remaining
      BY <3>1 DEF FinishStep
    <3>3. drawn + 1 \in Step \ 1..Plan
      BY <2>2, StepAssumption, DrawnIsFresh DEF FinishStep, Shape, Step
    <3> QED BY <1>4, <3>2, <3>3, OrderFront, OrderFresh DEF Shape
  <2> QED BY <2>1, <2>2, InjectKeeps
<1>6. \A d \in 1..Plan : outcome'[d] = "none" => d \in Open' \cup gone'
  <2> SUFFICES ASSUME NEW d \in 1..Plan, outcome'[d] = "none" PROVE d \in Open' \cup gone'
    OBVIOUS
  <2>1. d # current /\ outcome[d] = "none"
    BY <1>2
  <2>2. d \in Open \cup gone
    BY <1>1, <2>1 DEF Ground
  <2> QED BY <1>0, <1>1, <1>3, <2>1, <2>2
<1>7. ASSUME NEW d \in 1..Plan, outcome'[d] = "done" PROVE d \notin Open'
  <2>1. CASE d = current
    <3>1. d \notin In(remaining)
      BY <1>4, <2>1 DEF Before
    <3> QED BY <1>1, <1>3, <3>1
  <2>2. CASE d # current
    <3>1. d \notin Open
      BY <1>2, <1>7, <2>2 DEF Ground
    <3> QED BY <1>1, <1>3, <3>1
  <2> QED BY <2>1, <2>2
<1>8. DoneOnDoneGround'
  <2> SUFFICES ASSUME Intact, NEW s \in 1..Plan, outcome'[s] = "done", NEW d \in After[s]
               PROVE  outcome'[d] = "done" \/ d \in superseded' \cup gone'
    BY DEF DoneOnDoneGround
  <2>1. d \in 1..Plan /\ d < s
    BY StepAssumption
  <2>2. outcome[d] = "done" \/ d \in superseded \cup gone
    <3>1. CASE s # current
      BY <1>2, <3>1 DEF Ground, DoneOnDoneGround
    <3>2. CASE s = current
      <4>1. d \notin Open
        BY <1>1, <1>4, <2>1, <3>2 DEF Before
      <4>2. outcome[d] # "none" \/ d \in gone
        BY <1>1, <2>1, <4>1 DEF Ground
      <4>3. d \in superseded \/ outcome[d] \notin {"attempt", "blocked", "skipped"}
        BY <1>0, <3>2 DEF Ground, Unmet
      <4>4. outcome[d] \in Mark
        BY <2>1, DrawnIsFresh DEF Shape
      <4> QED BY <4>2, <4>3, <4>4 DEF Mark, Verdict
    <3> QED BY <3>1, <3>2
  <2>3. outcome[d] = "done" => outcome'[d] = "done"
    BY <1>2, <2>1
  <2> QED BY <1>0, <2>2, <2>3
<1> QED BY <1>0, <1>1, <1>5, <1>6, <1>7, <1>8 DEF Ground, AtWork

LEMMA GroundStep == Shape /\ Ground /\ [Next]_vars => Ground'
<1> SUFFICES ASSUME Shape, Ground, [Next]_vars PROVE Ground'
  OBVIOUS
<1>0. {"blocked", "skipped", "attempt"} \subseteq Mark \ {"done", "none"}
  BY DEF Mark, Verdict
<1>r. ASSUME AtWork, ~AtWork', UNCHANGED steps,
             NEW o \in Mark \ {"done", "none"}, outcome' = [outcome EXCEPT ![current] = o]
      PROVE  Ground'
  BY <1>r, GroundPutsDown DEF steps, Ground
<1>1. CASE AtHead
  <2>1. CASE Ceiling \/ PlanEnds \/ Bump
    BY <2>1, GroundStays DEF Ceiling, PlanEnds, Bump, record, AtWork, Going
  <2> QED BY <1>1, <2>1, GroundLands, GroundTakes DEF AtHead
<1>2. CASE AtStep
  <2>1. CASE Start
    BY <2>1, GroundStays DEF Start, record, AtWork, Going
  <2>2. CASE Refuse
    BY <1>0, <1>r, <2>2 DEF Refuse, RowSaved, AtWork
  <2>3. CASE SkipMilestone
    BY <1>0, <1>r, <2>3 DEF SkipMilestone, Row, AtWork
  <2>4. CASE Expand \/ SplitCompound
    BY <2>4, GroundBreaks DEF Expand, SplitCompound, record, AtWork
  <2> QED BY <1>2, <2>1, <2>2, <2>3, <2>4 DEF AtStep
<1>3. CASE AtOutcome
  <2>1. CASE Runaway
    BY <2>1, GroundStays DEF Runaway, BreakOff, record, AtWork, Going
  <2>2. CASE RunOnNewLayer \/ BounceQuestion
    BY <2>2, GroundRequeues DEF RunOnNewLayer, BounceQuestion, record, AtWork
  <2>3. ASSUME NEW r \in PauseReason, Pause(r) PROVE Ground'
    BY <1>0, <1>r, <2>3 DEF Pause, BreakOff, Row, AtWork
  <2>4. ASSUME NEW raw, NEW breaches, BudgetPause(raw, breaches) PROVE Ground'
    BY <2>4, GroundStays DEF BudgetPause, record, AtWork, Going
  <2>5. ASSUME NEW raw, BudgetKill(raw) PROVE Ground'
    BY <2>5, GroundStays DEF BudgetKill, BreakOff, record, AtWork, Going
  <2>6. ASSUME NEW raw, NEW res, NEW breaches, Weigh(raw, res, breaches) PROVE Ground'
    BY <2>6, GroundStays DEF Weigh, record, AtWork, Going, Ground
  <2> QED BY <1>3, <2>1, <2>2, <2>3, <2>4, <2>5, <2>6 DEF AtOutcome
<1>4. CASE AtVerdict
  <2>1. CASE Stuck \/ Advise \/ Abandon
    BY <1>0, <1>r, <2>1 DEF Stuck, Advise, Abandon, BreakOff, Judging, Row, RowSaved, AtWork
  <2>2. ASSUME NEW inject, FinishStep(inject) PROVE Ground'
    BY <2>2, GroundFinishes
  <2>3. CASE Retry
    BY <1>0, <2>3, GroundRequeues DEF Retry, Blocked, Judging, Row, AtWork
  <2>4. CASE Redecompose \/ SplitShape \/ SplitOnTimeout
    <3>1. /\ Break /\ superseded \subseteq superseded' /\ AtWork /\ ~AtWork'
          /\ outcome' = [outcome EXCEPT ![current] = "attempt"]
      BY <2>4 DEF Redecompose, SplitShape, SplitOnTimeout, Supersede, Blocked, Judging, Row, AtWork
    <3> QED BY <1>0, <3>1, GroundBreaks
  <2>5. CASE SplitForInfo
    <3>1. /\ superseded \subseteq superseded' /\ gone' = gone /\ AtWork /\ ~AtWork'
          /\ outcome' = [outcome EXCEPT ![current] = "attempt"]
          /\ remaining' = <<Research, current>> \o remaining
      BY <2>5 DEF SplitForInfo, Supersede, Blocked, Judging, Row, AtWork
    <3>2. remaining' = <<Research>> \o (<<current>> \o remaining)
      BY <3>1, StepFacts DEF Shape
    <3>3. <<current>> \o remaining \in Seq(Step) /\ InOrder(<<current>> \o remaining)
      BY <3>1, OrderFront, InFront DEF Shape, Ground
    <3>4. InOrder(remaining')
      BY <3>2, <3>3, StepFacts, DrawnIsFresh, OrderFront, OrderFresh
    <3>5. In(remaining') = {Research, current} \cup In(remaining)
      BY <2>5, InfoKeeps
    <3> QED BY <1>0, <3>1, <3>4, <3>5, DrawnIsFresh, GroundPutsDown
  <2>6. CASE Hung
    BY <2>6, GroundStays DEF Hung, record, AtWork, Going
  <2>7. ASSUME NEW v, GiveUp(v) PROVE Ground'
    BY <1>0, <1>r, <2>7 DEF GiveUp, Blocked, Judging, RowSaved, AtWork
  <2> QED BY <1>4, <2>1, <2>2, <2>3, <2>4, <2>5, <2>6, <2>7 DEF AtVerdict
<1>5. CASE AtBoundary
  <2>1. CASE KillSwitch \/ WallClock \/ Poll \/ NextStep
    BY <2>1, GroundStays DEF KillSwitch, WallClock, Poll, NextStep, record, AtWork, Going
  <2>2. CASE Exit
    BY <2>2, GroundStays DEF Exit, AtWork, Going
  <2> QED BY <1>5, <2>1, <2>2 DEF AtBoundary
<1>6. CASE Operator
  <2>1. ASSUME NEW n \in Notes, Note(n) PROVE Ground'
    BY <2>1, GroundStays DEF Note, record, AtWork, Going
  <2>2. ASSUME NEW intent \in {"additive", "priority", "corrective"}, ChangePlan(intent) PROVE Ground'
    BY <2>2, GroundChanges
  <2>3. CASE StopLoop
    <3>1. /\ remaining' = <<>> /\ gone \subseteq gone' /\ pc' = "exit" /\ pc = "poll"
          /\ UNCHANGED <<outcome, superseded>>
      BY <2>3 DEF StopLoop, record
    <3>2. InOrder(remaining') /\ Open' = {} /\ ~Going' /\ ~AtWork'
      BY <3>1, InNone DEF InOrder, Open, Going, AtWork
    <3> QED BY <3>1, <3>2, GroundMoves DEF AtWork
  <2> QED BY <1>6, <2>1, <2>2, <2>3 DEF Operator
<1>7. CASE UNCHANGED vars
  BY <1>7, GroundStays DEF vars, steps, AtWork, Going, Ground
<1> QED
  BY <1>1, <1>2, <1>3, <1>4, <1>5, <1>6, <1>7 DEF Next, Loop

LEMMA GroundInit == Init => Ground
<1> SUFFICES ASSUME Init PROVE Ground
  OBVIOUS
<1>1. /\ remaining = [s \in 1..Plan |-> s] /\ Plan \in Nat /\ pc = "head"
      /\ \A s \in 1..Plan : outcome[s] = "none"
  BY StepAssumption, ShapeInit, DrawnIsFresh DEF Init
<1>2. Len(remaining) = Plan /\ \A i \in 1..Plan : remaining[i] = i
  BY <1>1
<1>3. InOrder(remaining) /\ In(remaining) = 1..Plan
  BY <1>2 DEF InOrder, In
<1> QED BY <1>1, <1>3 DEF Ground, AtWork, Open, DoneOnDoneGround

\* No step counts as done while one it was declared to come after is not, unless that
\* one's work went to others: neither a retry, a split nor a change of the plan lets a
\* step overtake what it builds on (prerequisite_verdict()).
THEOREM DoneOnGround == Spec => []DoneOnDoneGround
<1>1. Init => Shape /\ Ground
  BY ShapeInit, GroundInit
<1>2. Shape /\ Ground /\ [Next]_vars => (Shape /\ Ground)'
  BY ShapeStep, GroundStep
<1>3. Ground => DoneOnDoneGround
  BY DEF Ground
<1> QED
  BY <1>1, <1>2, <1>3, PTL DEF Spec

=============================================================================
