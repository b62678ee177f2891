--------------------------- MODULE ItemMarksProofs ---------------------------
(***************************************************************************)
(* No resume leaves out a step that was never done, and what the rows say  *)
(* was applied is what the file was last told, for every plan, any number  *)
(* of lives, retries and edits that take no line away.  A row is told from *)
(* others by its line number, so the argument is about numbers: those of   *)
(* the steps ahead differ from each other and from those of the rows of    *)
(* other steps, since what is appended gets numbers that were never given  *)
(* out.                                                                    *)
(***************************************************************************)
EXTENDS ItemMarks, FiniteSetTheorems, TLAPS

\* Every row has one of n lines, and tells what was done.
Numbered(rs, n, did) ==
    /\ rs \in Seq(Row)
    /\ \A k \in 1..Len(rs) :
          /\ rs[k].at \in 1..n
          /\ rs[k].verdict = "done" => rs[k].step \in did

\* The steps of p have lines of their own among n, and the rows that have one
\* of these lines are rows of its step.
Located(its, p, n) ==
    \A s \in p : its[s] \in 1..n /\ \A t \in p : its[t] = its[s] => t = s

Placed(rs, its, p) ==
    \A s \in p : \A k \in 1..Len(rs) : rs[k].at = its[s] => rs[k].step = s

Carried(rs, its, p, n) == Located(its, p, n) /\ Placed(rs, its, p)

\* A resumed run has yet to check the lines it has read.
Mirroring == pc = "mirror" \/ (pc = "settle" /\ next = "mirror")

Shape ==
    /\ lines \in Seq(Text)
    /\ pc \in {"none", "step", "run", "settle", "mirror", "save"}
    /\ items \in Mirror /\ plan \subseteq Step /\ todo \subseteq plan
    /\ ckpt \in [written : BOOLEAN, plan : SUBSET Step, rows : Seq(Row), items : Mirror]

RunHolds ==
    /\ Numbered(rows, Len(lines), performed)
    /\ pc # "none" => Step \ plan \subseteq performed
    /\ Mirroring => todo = plan /\ (items = Unmirrored \/ Carried(rows, items, plan, Len(lines)))
    /\ pc # "none" /\ ~Mirroring => Carried(rows, items, plan, Len(lines))

CkptHolds ==
    /\ Numbered(ckpt.rows, Len(lines), performed)
    /\ ckpt.written =>
          /\ Step \ ckpt.plan \subseteq performed
          /\ Carried(ckpt.rows, ckpt.items, ckpt.plan, Len(lines))

\* Once lines have been removed, numbers are given out again.
IInv == ~cut => Shape /\ RunHolds /\ CkptHolds

-----------------------------------------------------------------------------

\* The steps of a plan are finitely many numbers, and no line is not a number.
LEMMA StepFacts == Step \subseteq Nat /\ IsFiniteSet(Step) /\ Fresh \notin Nat
<1>1. IsFiniteSet(Step)
  BY FS_Interval, PlanAssumption DEF Step
<1> QED
  BY <1>1, PlanAssumption DEF Step

\* The ranks of steps are 1..Cardinality(steps), in their order (append_next_items).
LEMMA RankFacts ==
    ASSUME NEW steps \in SUBSET Step
    PROVE  /\ Cardinality(steps) \in Nat
           /\ \A s \in steps : Rank(steps, s) \in 1..Cardinality(steps)
           /\ \A s, t \in steps : s < t => Rank(steps, s) < Rank(steps, t)
<1> DEFINE UpTo(s) == {t \in steps : t <= s}
<1>1. IsFiniteSet(steps)
  BY StepFacts, FS_Subset
<1>2. Cardinality(steps) \in Nat
  BY <1>1, FS_CardinalityType
<1>3. ASSUME NEW s \in steps
      PROVE  /\ IsFiniteSet(UpTo(s)) /\ Cardinality(UpTo(s)) \in Nat
             /\ Cardinality(UpTo(s)) <= Cardinality(steps)
             /\ Cardinality(UpTo(s)) # 0
  <2>1. IsFiniteSet(UpTo(s)) /\ Cardinality(UpTo(s)) <= Cardinality(steps)
    BY <1>1, FS_Subset, UpTo(s) \subseteq steps
  <2>2. s \in UpTo(s)
    BY StepFacts
  <2> QED
    BY <2>1, <2>2, FS_CardinalityType, FS_EmptySet
<1>4. ASSUME NEW s \in steps, NEW t \in steps, s < t
      PROVE  Cardinality(UpTo(s)) < Cardinality(UpTo(t))
  <2>1. ASSUME NEW u \in UpTo(s) PROVE u \in UpTo(t)
    <3>1. u \in Nat /\ s \in Nat /\ t \in Nat /\ u <= s
      BY StepFacts
    <3> QED
      BY <1>4, <3>1
  <2>2. t \in UpTo(t) /\ t \notin UpTo(s)
    BY <1>4, StepFacts
  <2>3. Cardinality(UpTo(s)) <= Cardinality(UpTo(t)) /\ Cardinality(UpTo(s)) # Cardinality(UpTo(t))
    <3> HIDE DEF UpTo
    <3>1. UpTo(s) \in SUBSET UpTo(t)
      BY <2>1
    <3> QED
      BY <1>3, <2>2, <3>1, FS_Subset
  <2> QED
    BY <1>3, <2>3
<1> QED
  BY <1>2, <1>3, <1>4 DEF Rank

-----------------------------------------------------------------------------
(* Lines are only added, and steps only get done. *)

\* Rows stay numbered when lines are added and steps get done.
LEMMA NumberedGrows ==
    ASSUME NEW rs, NEW n \in Nat, NEW m \in Nat, n <= m, NEW did, NEW more, did \subseteq more,
           Numbered(rs, n, did)
    PROVE  Numbered(rs, m, more)
BY DEF Numbered

\* Steps keep their lines when lines are added.
LEMMA LocatedGrows ==
    ASSUME NEW rs, NEW its, NEW p, NEW n \in Nat, NEW m \in Nat, n <= m, Carried(rs, its, p, n)
    PROVE  Carried(rs, its, p, m)
BY DEF Carried, Located

\* A row is added for a step of the plan, with its line.
LEMMA RowAdded ==
    ASSUME NEW rs, NEW its, NEW p \in SUBSET Step, NEW n \in Nat, NEW did,
           Numbered(rs, n, did), Carried(rs, its, p, n),
           NEW r \in Row, r.step \in p, r.at = its[r.step], r.verdict = "done" => r.step \in did
    PROVE  Numbered(Append(rs, r), n, did) /\ Carried(Append(rs, r), its, p, n)
<1> DEFINE more == Append(rs, r)
<1>1. /\ more \in Seq(Row) /\ Len(more) = Len(rs) + 1 /\ Len(rs) \in Nat
      /\ \A k \in 1..Len(rs) : more[k] = rs[k]
      /\ more[Len(rs) + 1] = r
  BY DEF Numbered
<1>2. r.at \in 1..n
  BY DEF Carried, Located
<1> HIDE DEF more
<1>3. Numbered(more, n, did)
  BY <1>1, <1>2 DEF Numbered
<1>4. Placed(more, its, p)
  BY <1>1 DEF Carried, Located, Placed
<1> QED
  BY <1>3, <1>4 DEF more, Carried

\* A mark that is settled leaves the number, step and verdict of its row.
LEMMA RowMarked ==
    ASSUME NEW rs, NEW n, NEW did, NEW k \in 1..Len(rs), NEW mark \in Mark, Numbered(rs, n, did)
    PROVE  LET more == [rs EXCEPT ![k].mark = mark]
           IN  /\ Numbered(more, n, did)
               /\ \A its, p : Placed(rs, its, p) => Placed(more, its, p)
<1> DEFINE r == [rs[k] EXCEPT !.mark = mark]
           more == [rs EXCEPT ![k] = r]
<1>1. rs \in Seq(Row) /\ rs[k] \in Row
  BY DEF Numbered
<1>2. r \in Row /\ r.at = rs[k].at /\ r.step = rs[k].step /\ r.verdict = rs[k].verdict
  BY <1>1 DEF Row
<1> HIDE DEF r
<1>3. /\ more \in Seq(Row) /\ Len(more) = Len(rs)
      /\ more[k] = r /\ \A l \in (1..Len(rs)) \ {k} : more[l] = rs[l]
  BY <1>1, <1>2
<1> HIDE DEF more
<1>4. Numbered(more, n, did) /\ \A its, p : Placed(rs, its, p) => Placed(more, its, p)
  BY <1>2, <1>3 DEF Numbered, Placed
<1> QED
  BY <1>4 DEF more, r

\* A file to which lines are appended.
LEMMA Joined ==
    ASSUME NEW S, NEW s \in Seq(S), NEW t \in Seq(S)
    PROVE  s \o t \in Seq(S) /\ Len(s \o t) = Len(s) + Len(t)
OBVIOUS

\* What is appended gets numbers of its own, above all that were given out.
LEMMA Appended ==
    ASSUME NEW steps \in SUBSET Step, lines \in Seq(Text), items \in Mirror, AppendItems(steps)
    PROVE  /\ lines' \in Seq(Text) /\ Len(lines) <= Len(lines')
           /\ items' \in Mirror
           /\ Located(items', steps, Len(lines'))
           /\ \A s \in steps : items'[s] > Len(lines)
<1> DEFINE C == Cardinality(steps)
<1>1. PICK new \in [1..C -> steps] : lines' = lines \o new
  BY DEF AppendItems
<1>2. C \in Nat /\ \A s \in steps : Rank(steps, s) \in 1..C
  BY RankFacts
<1>3. \A s, t \in steps : s < t => Rank(steps, s) < Rank(steps, t)
  BY RankFacts
<1> HIDE DEF C
<1>4. new \in Seq(Text) /\ Len(new) = C
  BY <1>2 DEF Text
<1>5. lines' \in Seq(Text) /\ Len(lines') = Len(lines) + C /\ Len(lines) \in Nat
  <2>1. lines \o new \in Seq(Text) /\ Len(lines \o new) = Len(lines) + Len(new) /\ Len(lines) \in Nat
    BY <1>4, Joined
  <2> QED
    BY <1>1, <1>4, <2>1
<1>6. \A s \in Step : items'[s] = IF s \in steps THEN Len(lines) + Rank(steps, s) ELSE items[s]
  BY DEF AppendItems
<1>7. items' \in Mirror
  BY <1>2, <1>5 DEF AppendItems, Mirror
<1>8. ASSUME NEW s \in steps, NEW t \in steps, items'[t] = items'[s] PROVE t = s
  <2>1. Rank(steps, s) = Rank(steps, t)
    BY <1>2, <1>5, <1>6, <1>8
  <2>2. s \in Nat /\ t \in Nat
    BY StepFacts
  <2> QED
    BY <1>2, <1>3, <2>1, <2>2
<1>9. \A s \in steps : items'[s] \in 1..Len(lines') /\ items'[s] > Len(lines)
  BY <1>2, <1>5, <1>6
<1> QED
  BY <1>2, <1>5, <1>7, <1>8, <1>9 DEF Located

\* The checkpoint leaves out only steps that were done (Checkpoint.remaining_steps).
LEMMA LeftOutIsDone ==
    ASSUME CkptHolds, ckpt.written
    PROVE  Step \ Remaining \subseteq performed
BY DEF CkptHolds, Remaining, Finished, Rows, Numbered, Carried, Placed

-----------------------------------------------------------------------------
(* The three parts of the invariant under what the actions share. *)

\* The file grows, and what was done stays done.
Grows == Len(lines') \in Nat /\ Len(lines) <= Len(lines') /\ performed \subseteq performed'

\* A checkpoint nobody writes stays good.
LEMMA CkptStays ==
    ASSUME Shape, CkptHolds, Grows, UNCHANGED ckpt
    PROVE  CkptHolds'
<1>1. Len(lines) \in Nat
  BY DEF Shape
<1>2. Numbered(ckpt.rows, Len(lines'), performed')
  BY <1>1, NumberedGrows DEF CkptHolds, Grows
<1>3. ckpt.written => Carried(ckpt.rows, ckpt.items, ckpt.plan, Len(lines'))
  BY <1>1, LocatedGrows DEF CkptHolds, Grows
<1> QED
  BY <1>2, <1>3 DEF CkptHolds, Grows

\* So does a run that nothing happens to.
LEMMA RunStays ==
    ASSUME Shape, RunHolds, Grows, UNCHANGED run
    PROVE  RunHolds'
<1>1. Len(lines) \in Nat
  BY DEF Shape
<1>2. Numbered(rows, Len(lines'), performed')
  BY <1>1, NumberedGrows DEF RunHolds, Grows
<1>3. Carried(rows, items, plan, Len(lines)) => Carried(rows, items, plan, Len(lines'))
  BY <1>1, LocatedGrows DEF Grows
<1> QED
  BY <1>2, <1>3 DEF RunHolds, Mirroring, Grows, run

\* A checkpoint written by a run that has its lines is as good as the run
\* (write_checkpoint), and so is the one that stays when the write fails.
LEMMA WrittenHolds ==
    ASSUME Shape, RunHolds, CkptHolds, WriteCheckpoint, pc # "none", ~Mirroring,
           UNCHANGED <<lines, performed>>
    PROVE  CkptHolds' /\ ckpt' \in [written : BOOLEAN, plan : SUBSET Step, rows : Seq(Row), items : Mirror]
<1>1. CASE ckpt' = ckpt
  BY <1>1 DEF Shape, CkptHolds
<1>2. CASE ckpt' = [written |-> TRUE, plan |-> plan, rows |-> rows, items |-> items]
  BY <1>2 DEF Shape, RunHolds, CkptHolds, Numbered
<1> QED
  BY <1>1, <1>2 DEF WriteCheckpoint

\* A run that has ended, or died, owes nothing.
LEMMA GoneHolds ==
    ASSUME Shape, Gone
    PROVE  RunHolds' /\ items' \in Mirror /\ plan' \subseteq Step /\ todo' \subseteq plan' /\ pc' = "none"
<1>1. Numbered(<<>>, Len(lines'), performed')
  BY DEF Numbered
<1> QED
  BY <1>1 DEF Gone, RunHolds, Mirroring, Mirror, Unmirrored

-----------------------------------------------------------------------------
(* The steps. *)

\* At first there are no rows.
LEMMA InitHolds == Init => IInv
<1> SUFFICES ASSUME Init PROVE Shape /\ RunHolds /\ CkptHolds
  BY DEF IInv
<1>1. Numbered(<<>>, Len(lines), performed)
  BY DEF Numbered
<1> QED
  BY <1>1 DEF Init, Shape, RunHolds, CkptHolds, Mirroring, Mirror, Unmirrored

\* Lines written by hand leave every number that was given out (WriteLine).
LEMMA WriteLineStep ==
    ASSUME Shape, RunHolds, CkptHolds,
           NEW text \in Text, NEW place \in 1..Len(lines) + 1, WriteLine(text, place)
    PROVE  Shape' /\ RunHolds' /\ CkptHolds'
<1> DEFINE before == SubSeq(lines, 1, place - 1)
           after == SubSeq(lines, place, Len(lines))
<1>1. lines \in Seq(Text) /\ Len(lines) \in Nat
  BY DEF Shape
<1>2. before \in Seq(Text) /\ Len(before) = place - 1
  BY <1>1
<1>3. after \in Seq(Text) /\ Len(after) = Len(lines) - place + 1
  BY <1>1
<1>4. lines' = before \o <<text>> \o after
  BY DEF WriteLine, InsertAt
<1> HIDE DEF before, after
<1>5. lines' \in Seq(Text) /\ Len(lines') = Len(lines) + 1
  <2>1. <<text>> \in Seq(Text) /\ Len(<<text>>) = 1
    OBVIOUS
  <2>2. before \o <<text>> \in Seq(Text) /\ Len(before \o <<text>>) = place
    BY <1>1, <1>2, <2>1, Joined
  <2> QED
    BY <1>1, <1>3, <1>4, <2>2, Joined
<1>6. Grows
  BY <1>1, <1>5 DEF Grows, WriteLine
<1>7. RunHolds' /\ CkptHolds'
  BY <1>6, RunStays, CkptStays DEF WriteLine
<1> QED
  BY <1>5, <1>7 DEF Shape, WriteLine, run

\* A row and its verdict: what Judge and Gate share.
LEMMA VerdictStep ==
    ASSUME Shape, RunHolds, CkptHolds, pc \in {"step", "run"},
           NEW s \in Step, NEW verdict \in {"done", "blocked"}, Verdict(s, verdict),
           UNCHANGED <<lines, items, plan, ckpt>>, ~Mirroring', pc' \in {"settle", "save"}
    PROVE  Shape' /\ RunHolds' /\ CkptHolds'
<1> DEFINE r == RowOf(s, verdict, IF jammed THEN Owed ELSE "applied")
<1>1. s \in plan /\ ~Mirroring /\ pc # "none"
  BY DEF Shape, Verdict, InTurn, Mirroring
<1>2. performed \subseteq performed' /\ (verdict = "done" => s \in performed')
  BY DEF Verdict
<1>3. Grows
  BY <1>2 DEF Grows, Shape
<1>4. Len(lines) \in Nat /\ plan \in SUBSET Step
  BY DEF Shape
<1>5. Numbered(rows, Len(lines), performed') /\ Carried(rows, items, plan, Len(lines))
  BY <1>1, <1>2, <1>4, NumberedGrows DEF RunHolds
<1>6. items[s] \in 1..Len(lines)
  BY <1>1, <1>5 DEF Carried, Located
<1>7. r \in Row /\ r.step = s /\ r.at = items[s] /\ r.verdict = verdict
  BY <1>4, <1>6 DEF RowOf, Row, Mark, Owed
<1> HIDE DEF r
<1>8. Numbered(Append(rows, r), Len(lines), performed') /\ Carried(Append(rows, r), items, plan, Len(lines))
  BY <1>1, <1>2, <1>4, <1>5, <1>7, RowAdded
<1>9. rows' = Append(rows, r)
  BY DEF Verdict, r
<1>10. RunHolds'
  BY <1>1, <1>2, <1>8, <1>9 DEF RunHolds
<1>11. Shape'
  BY DEF Shape, Verdict
<1> QED
  BY <1>3, <1>10, <1>11, CkptStays

\* The record of an attempt is a row of the step in turn (_process_blocked_step).
LEMMA AttemptStep ==
    ASSUME Shape, RunHolds, CkptHolds, NEW s \in Step, Attempt(s)
    PROVE  Shape' /\ RunHolds' /\ CkptHolds'
<1> DEFINE r == RowOf(s, "blocked", "attempt")
<1>1. s \in plan /\ ~Mirroring /\ ~Mirroring' /\ pc # "none"
  BY DEF Shape, Attempt, InTurn, Mirroring
<1>2. Len(lines) \in Nat /\ plan \in SUBSET Step
  BY DEF Shape
<1>3. Numbered(rows, Len(lines), performed) /\ Carried(rows, items, plan, Len(lines))
  BY <1>1 DEF RunHolds
<1>4. items[s] \in 1..Len(lines)
  BY <1>1, <1>3 DEF Carried, Located
<1>5. r \in Row /\ r.step = s /\ r.at = items[s] /\ r.verdict = "blocked"
  BY <1>2, <1>4 DEF RowOf, Row, Mark
<1> HIDE DEF r
<1>6. Numbered(Append(rows, r), Len(lines), performed) /\ Carried(Append(rows, r), items, plan, Len(lines))
  BY <1>1, <1>2, <1>3, <1>5, RowAdded
<1>7. rows' = Append(rows, r)
  BY DEF Attempt, r
<1>8. RunHolds'
  BY <1>1, <1>6, <1>7 DEF RunHolds, Attempt, ghosts
<1> QED
  BY <1>8 DEF Shape, CkptHolds, Attempt, ghosts

\* Settling a mark leaves what the row is of (settle_item_marks).
LEMMA SettleStep ==
    ASSUME Shape, RunHolds, CkptHolds, NEW k \in 1..Len(rows), Settle(k)
    PROVE  Shape' /\ RunHolds' /\ CkptHolds'
<1>1. UNCHANGED <<lines, pc, plan, items, todo, next, ckpt, performed>>
  BY DEF Settle
<1>2. rows' = rows \/ \E mark \in Mark : rows' = [rows EXCEPT ![k].mark = mark]
  BY DEF Settle, Mark
<1>3. /\ Numbered(rows', Len(lines), performed)
      /\ Placed(rows, items, plan) => Placed(rows', items, plan)
  BY <1>2, RowMarked DEF RunHolds
<1> QED
  BY <1>1, <1>3 DEF Shape, RunHolds, CkptHolds, Carried, Mirroring

\* A first life has no rows, and lines that are new (_mirror_plan_items).
LEMMA BeginStep ==
    ASSUME Shape, RunHolds, CkptHolds, Begin
    PROVE  Shape' /\ RunHolds' /\ CkptHolds'
<1>1. /\ lines' \in Seq(Text) /\ Len(lines) <= Len(lines')
      /\ items' \in Mirror /\ Located(items', Step, Len(lines'))
      /\ \A s \in Step : items'[s] > Len(lines)
  BY Appended DEF Begin, Shape
<1>2. Len(lines) \in Nat /\ Len(lines') \in Nat
  BY <1>1 DEF Shape
<1>3. Grows
  BY <1>1, <1>2 DEF Grows, Begin, ghosts
<1>4. Numbered(rows, Len(lines), performed) /\ Numbered(rows, Len(lines'), performed)
  BY <1>1, <1>2, NumberedGrows DEF RunHolds
<1>5. Placed(rows, items', Step)
  BY <1>1, <1>2, <1>4 DEF Numbered, Placed
<1>6. RunHolds'
  BY <1>1, <1>4, <1>5 DEF RunHolds, Carried, Mirroring, Begin, ghosts
<1>7. CkptHolds'
  BY <1>3, CkptStays DEF Begin
<1> QED
  BY <1>1, <1>6, <1>7 DEF Shape, Begin

\* A resume carries the rows, and all lines of the steps ahead or none of them.
LEMMA ResumeStep ==
    ASSUME Shape, RunHolds, CkptHolds, Resume
    PROVE  Shape' /\ RunHolds' /\ CkptHolds'
<1>1. Remaining \subseteq ckpt.plan /\ ckpt.plan \subseteq Step
  BY DEF Remaining, Shape
<1>2. Step \ Remaining \subseteq performed
  BY LeftOutIsDone DEF Resume
<1>3. Carried(ckpt.rows, ckpt.items, Remaining, Len(lines))
  BY <1>1 DEF CkptHolds, Resume, Carried, Located, Placed
<1>4. RunHolds'
  BY <1>2, <1>3 DEF RunHolds, CkptHolds, Mirroring, Resume, ghosts
<1>5. Shape'
  BY <1>1 DEF Shape, Resume, Mirror, Unmirrored
<1> QED
  BY <1>4, <1>5 DEF CkptHolds, Resume, ghosts

\* Steps without lines get new ones, which no carried row has.
LEMMA MirrorPlanStep ==
    ASSUME Shape, RunHolds, CkptHolds, MirrorPlan
    PROVE  Shape' /\ RunHolds' /\ CkptHolds'
<1>1. todo = plan /\ plan \in SUBSET Step /\ ~Mirroring' /\ pc # "none" /\ pc' = "step"
  BY DEF Shape, RunHolds, MirrorPlan, Mirroring
<1>2. CASE items # Unmirrored
  <2>1. Carried(rows, items, plan, Len(lines))
    BY <1>2 DEF RunHolds, MirrorPlan, Mirroring
  <2> QED
    BY <1>1, <1>2, <2>1 DEF Shape, RunHolds, CkptHolds, MirrorPlan, ghosts
<1>3. CASE items = Unmirrored
  <2>1. /\ lines' \in Seq(Text) /\ Len(lines) <= Len(lines')
        /\ items' \in Mirror /\ Located(items', plan, Len(lines'))
        /\ \A s \in plan : items'[s] > Len(lines)
    BY <1>1, <1>3, Appended DEF MirrorPlan, Shape
  <2>2. Len(lines) \in Nat /\ Len(lines') \in Nat
    BY <2>1 DEF Shape
  <2>3. Grows
    BY <2>1, <2>2 DEF Grows, MirrorPlan, ghosts
  <2>4. Numbered(rows, Len(lines), performed) /\ Numbered(rows, Len(lines'), performed)
    BY <2>1, <2>2, NumberedGrows DEF RunHolds
  <2>5. Placed(rows, items', plan)
    BY <1>1, <2>1, <2>2, <2>4 DEF Numbered, Placed
  <2>6. RunHolds'
    BY <1>1, <2>1, <2>4, <2>5 DEF RunHolds, Carried, MirrorPlan, ghosts
  <2>7. CkptHolds'
    BY <2>3, CkptStays DEF MirrorPlan
  <2> QED
    BY <2>1, <2>6, <2>7 DEF Shape, MirrorPlan
<1> QED
  BY <1>2, <1>3

\* Every step but the removal of lines keeps the invariant.
LEMMA NextHolds == IInv /\ [Next]_vars => IInv'
<1> SUFFICES ASSUME IInv, [Next]_vars, ~cut' PROVE Shape' /\ RunHolds' /\ CkptHolds'
  BY DEF IInv
<1>0. ~cut => Shape /\ RunHolds /\ CkptHolds
  BY DEF IInv
<1>1. CASE UNCHANGED vars
  BY <1>0, <1>1 DEF vars, run, ghosts, Shape, RunHolds, CkptHolds, Mirroring
<1>2. CASE Jam \/ Unjam
  BY <1>0, <1>2 DEF Jam, Unjam, run, ghosts, Shape, RunHolds, CkptHolds, Mirroring
<1>3. ASSUME NEW last \in 1..Len(lines), NEW first \in 1..last, RemoveLines(first, last) PROVE FALSE
  BY <1>3 DEF RemoveLines
<1>4. ASSUME NEW text \in Text, NEW place \in 1..Len(lines) + 1, WriteLine(text, place)
      PROVE  Shape' /\ RunHolds' /\ CkptHolds'
  BY <1>0, <1>4, WriteLineStep DEF WriteLine
<1>5. CASE Begin
  BY <1>0, <1>5, BeginStep DEF Begin, ghosts
<1>6. CASE Prompt
  <2>1. ~cut /\ ~Mirroring /\ pc # "none"
    BY <1>6 DEF Prompt, Mirroring, ghosts
  <2>2. CkptHolds' /\ ckpt' \in [written : BOOLEAN, plan : SUBSET Step, rows : Seq(Row), items : Mirror]
    BY <1>0, <1>6, <2>1, WrittenHolds DEF Prompt, ghosts
  <2> QED
    BY <1>0, <1>6, <2>1, <2>2 DEF Prompt, ghosts, Shape, RunHolds, Mirroring
<1>7. ASSUME NEW s \in Step, Attempt(s) PROVE Shape' /\ RunHolds' /\ CkptHolds'
  BY <1>0, <1>7, AttemptStep DEF Attempt, ghosts
<1>8. ASSUME NEW s \in Step, Gate(s) PROVE Shape' /\ RunHolds' /\ CkptHolds'
  BY <1>0, <1>8, VerdictStep DEF Gate, Mirroring
<1>9. ASSUME NEW s \in Step, NEW verdict \in {"done", "blocked"}, NEW ends \in BOOLEAN, Judge(s, verdict, ends)
      PROVE  Shape' /\ RunHolds' /\ CkptHolds'
  BY <1>0, <1>9, VerdictStep DEF Judge, Mirroring
<1>10. CASE Leave
  BY <1>0, <1>10 DEF Leave, ghosts, Shape, RunHolds, CkptHolds, Mirroring
<1>11. ASSUME NEW k \in 1..Len(rows), Settle(k) PROVE Shape' /\ RunHolds' /\ CkptHolds'
  BY <1>0, <1>11, SettleStep DEF Settle
<1>12. CASE Settled
  BY <1>0, <1>12 DEF Settled, ghosts, Shape, RunHolds, CkptHolds, Mirroring
<1>13. CASE Save
  <2>1. ~cut /\ ~Mirroring /\ pc # "none"
    BY <1>13 DEF Save, Mirroring, ghosts
  <2>2. CkptHolds' /\ ckpt' \in [written : BOOLEAN, plan : SUBSET Step, rows : Seq(Row), items : Mirror]
    BY <1>0, <1>13, <2>1, WrittenHolds DEF Save, ghosts
  <2>3. CASE Gone
    BY <1>0, <1>13, <2>1, <2>2, <2>3, GoneHolds DEF Save, Shape
  <2>4. CASE next = "step" /\ pc' = "step" /\ UNCHANGED <<plan, items, todo, rows, at, next>>
    BY <1>0, <1>13, <2>1, <2>2, <2>4 DEF Save, ghosts, Shape, RunHolds, Mirroring
  <2> QED
    BY <1>13, <2>3, <2>4 DEF Save
<1>14. CASE Die
  BY <1>0, <1>14, GoneHolds DEF Die, ghosts, Shape, CkptHolds
<1>15. CASE Resume
  BY <1>0, <1>15, ResumeStep DEF Resume, ghosts
<1>16. CASE MirrorPlan
  BY <1>0, <1>16, MirrorPlanStep DEF MirrorPlan, ghosts
<1> QED
  BY <1>1, <1>2, <1>3, <1>4, <1>5, <1>6, <1>7, <1>8, <1>9, <1>10, <1>11, <1>12, <1>13, <1>14, <1>15, <1>16
     DEF Next, Run

\* Whatever deaths, retries, lost snapshots and lines written by hand: what a
\* resume leaves out of the plan was done (Checkpoint._done_positions).
THEOREM FinishedHolds == Spec => []FinishedIsDone
<1>1. IInv => FinishedIsDone
  BY LeftOutIsDone DEF IInv, FinishedIsDone
<1> QED
  BY <1>1, InitHolds, NextHolds, PTL DEF Spec


-----------------------------------------------------------------------------
(* What the file was last told (settle_item_marks).  While nobody edits    *)
(* the lines of a living run, the line of a step ahead carries its text,   *)
(* and a step whose rows have different lines has two lines with its text: *)
(* a mark that is owed to a line in which its step can be told was not     *)
(* outdone by a verdict on another line.                                   *)

Listed(ls, s) == \E i \in 1..Len(ls) : ls[i] = s
Twice(ls, s) == \E i, j \in 1..Len(ls) : i # j /\ ls[i] = s /\ ls[j] = s

\* A line is of one step, and nothing follows the row of a step that is done.
Ordered(rs) ==
    /\ \A k, l \in 1..Len(rs) : rs[k].at = rs[l].at => rs[k].step = rs[l].step
    /\ \A k, l \in 1..Len(rs) : k < l /\ rs[k].verdict = "done" => rs[l].step # rs[k].step
    /\ \A k \in 1..Len(rs) : rs[k].verdict = "done" => rs[k].mark # "attempt"

\* The steps of the rows are in the file, those with rows of two lines twice.
Written(rs, ls) ==
    /\ \A k \in 1..Len(rs) : Listed(ls, rs[k].step)
    /\ \A k, l \in 1..Len(rs) :
          rs[k].step = rs[l].step /\ rs[k].at # rs[l].at => Twice(ls, rs[k].step)

\* So are the steps ahead whose lines are not those of their rows.
Moved(rs, its, p, ls) ==
    \A s \in p : \A k \in 1..Len(rs) : rs[k].step = s /\ rs[k].at # its[s] => Twice(ls, s)

DoneAt(rs, its, p) ==
    \A k \in 1..Len(rs) : rs[k].verdict = "done" /\ rs[k].step \in p => rs[k].at = its[rs[k].step]

Shows(rs, sh) ==
    \A k \in 1..Len(rs) :
        IsVerdict(rs, k) /\ rs[k].mark = "applied"
            => sh[rs[k].step] \in (IF rs[k].verdict = "done" THEN {"done"} ELSE {"done", "blocked"})

Told(rs, ls, sh) == Ordered(rs) /\ Written(rs, ls) /\ Shows(rs, sh)

\* The done rows of the checkpoint are done rows of the run that goes on.
CarriedOn(saved, rs) ==
    \A c \in 1..Len(saved) : saved[c].verdict = "done" =>
        \E k \in 1..Len(rs) : rs[k].verdict = "done" /\ rs[k].step = saved[c].step

RunTold ==
    /\ Told(rows, lines, shown)
    /\ pc = "none" => rows = <<>>
    /\ \A k \in 1..Len(rows) : rows[k].verdict = "done" => rows[k].step \notin todo
    /\ DoneAt(rows, items, plan)
    /\ pc # "none" /\ (Mirroring => items # Unmirrored) =>
          Moved(rows, items, plan, lines) /\ \A s \in plan : lines[items[s]] = s
    /\ pc # "none" => CarriedOn(ckpt.rows, rows)

CkptTold ==
    /\ Told(ckpt.rows, lines, shown)
    /\ ~ckpt.written => ckpt.rows = <<>>
    /\ DoneAt(ckpt.rows, ckpt.items, ckpt.plan)
    /\ ckpt.written => Moved(ckpt.rows, ckpt.items, ckpt.plan, lines)

Shown == shown \in [Step -> {"todo", "done", "blocked"}]

MInv == ~strayed /\ ~cut => Shown /\ RunTold /\ CkptTold

-----------------------------------------------------------------------------

\* No copy of a step is lost.
Copied(ls, more) ==
    \A s : (Listed(ls, s) => Listed(more, s)) /\ (Twice(ls, s) => Twice(more, s))

LEMMA CopiedTold ==
    ASSUME NEW ls, NEW more, Copied(ls, more)
    PROVE  /\ \A rs : Written(rs, ls) => Written(rs, more)
           /\ \A rs, its, p : Moved(rs, its, p, ls) => Moved(rs, its, p, more)
BY DEF Copied, Written, Moved

\* Lines that keep their text, wherever each of them goes.
LEMMA CopiedAt ==
    ASSUME NEW ls, NEW more, NEW f \in [1..Len(ls) -> 1..Len(more)],
           \A i, j \in 1..Len(ls) : f[i] = f[j] => i = j,
           \A i \in 1..Len(ls) : more[f[i]] = ls[i]
    PROVE  Copied(ls, more)
<1>1. ASSUME NEW s, Listed(ls, s) PROVE Listed(more, s)
  BY <1>1 DEF Listed
<1>2. ASSUME NEW s, Twice(ls, s) PROVE Twice(more, s)
  <2>1. PICK i, j \in 1..Len(ls) : i # j /\ ls[i] = s /\ ls[j] = s
    BY <1>2 DEF Twice
  <2>2. f[i] # f[j] /\ more[f[i]] = s /\ more[f[j]] = s
    BY <2>1
  <2> QED
    BY <2>2 DEF Twice
<1> QED
  BY <1>1, <1>2 DEF Copied

LEMMA CopiedAppended ==
    ASSUME NEW ls \in Seq(Text), NEW more \in Seq(Text), Len(ls) <= Len(more),
           \A i \in 1..Len(ls) : more[i] = ls[i]
    PROVE  Copied(ls, more)
<1> DEFINE f == [i \in 1..Len(ls) |-> i]
<1>1. f \in [1..Len(ls) -> 1..Len(more)] /\ \A i \in 1..Len(ls) : f[i] = i
  OBVIOUS
<1> HIDE DEF f
<1> QED
  BY <1>1, CopiedAt

LEMMA CopiedInserted ==
    ASSUME NEW ls \in Seq(Text), NEW place \in 1..Len(ls) + 1, NEW text \in Text
    PROVE  Copied(ls, InsertAt(ls, place, text))
<1> DEFINE more == InsertAt(ls, place, text)
           before == SubSeq(ls, 1, place - 1)
           after == SubSeq(ls, place, Len(ls))
           f == [i \in 1..Len(ls) |-> IF i < place THEN i ELSE i + 1]
<1>1. /\ before \in Seq(Text) /\ Len(before) = place - 1
      /\ \A i \in 1..place - 1 : before[i] = ls[i]
  OBVIOUS
<1>2. /\ after \in Seq(Text) /\ Len(after) = Len(ls) - place + 1
      /\ \A i \in 1..Len(ls) - place + 1 : after[i] = ls[place + i - 1]
  OBVIOUS
<1>3. more = before \o <<text>> \o after
  BY DEF InsertAt
<1>4. f \in [1..Len(ls) -> 1..Len(ls) + 1] /\ \A i \in 1..Len(ls) : f[i] = IF i < place THEN i ELSE i + 1
  OBVIOUS
<1> HIDE DEF before, after, more, f
<1>5. /\ before \o <<text>> \in Seq(Text) /\ Len(before \o <<text>>) = place
      /\ \A i \in 1..place - 1 : (before \o <<text>>)[i] = ls[i]
  BY <1>1
<1>6. /\ Len(more) = Len(ls) + 1
      /\ \A i \in 1..place - 1 : more[i] = ls[i]
      /\ \A i \in place..Len(ls) : more[i + 1] = ls[i]
  <2> DEFINE front == before \o <<text>>
  <2> HIDE DEF front
  <2>1. front \in Seq(Text) /\ Len(front) = place /\ \A i \in 1..place - 1 : front[i] = ls[i]
    BY <1>5 DEF front
  <2>2. more = front \o after
    BY <1>3 DEF front
  <2>3. Len(more) = Len(ls) + 1 /\ \A i \in 1..place - 1 : more[i] = ls[i]
    BY <1>2, <2>1, <2>2
  <2>4. ASSUME NEW i \in place..Len(ls) PROVE more[i + 1] = ls[i]
    <3>1. more[i + 1] = after[i + 1 - place]
      BY <1>2, <2>1, <2>2
    <3> QED
      BY <1>2, <3>1
  <2> QED
    BY <2>3, <2>4
<1>7. \A i \in 1..Len(ls) : more[f[i]] = ls[i]
  BY <1>4, <1>6
<1>8. \A i, j \in 1..Len(ls) : f[i] = f[j] => i = j
  BY <1>4
<1>9. Copied(ls, more)
  BY <1>4, <1>6, <1>7, <1>8, CopiedAt
<1> QED
  BY <1>9 DEF more

\* What is appended carries the text of its step.
LEMMA AppendedText ==
    ASSUME NEW steps \in SUBSET Step, lines \in Seq(Text), AppendItems(steps)
    PROVE  /\ \A i \in 1..Len(lines) : lines'[i] = lines[i]
           /\ \A s \in steps : lines'[items'[s]] = s
<1> DEFINE C == Cardinality(steps)
<1>1. PICK new \in [1..C -> steps] : lines' = lines \o new /\ \A s \in steps : new[Rank(steps, s)] = s
  BY DEF AppendItems
<1>2. C \in Nat /\ \A s \in steps : Rank(steps, s) \in 1..C
  BY RankFacts
<1> HIDE DEF C
<1>3. new \in Seq(Text) /\ Len(new) = C
  BY <1>2 DEF Text
<1>4. /\ \A i \in 1..Len(lines) : lines'[i] = lines[i]
      /\ \A i \in 1..C : lines'[Len(lines) + i] = new[i]
  BY <1>1, <1>2, <1>3
<1>5. \A s \in steps : items'[s] = Len(lines) + Rank(steps, s)
  BY DEF AppendItems
<1> QED
  BY <1>1, <1>2, <1>4, <1>5

LEMMA RowTold ==
    ASSUME NEW rs \in Seq(Row), NEW ls, NEW r \in Row, Ordered(rs), Written(rs, ls),
           \A k \in 1..Len(rs) : rs[k].step = r.step => rs[k].verdict # "done",
           \A k \in 1..Len(rs) : rs[k].at = r.at => rs[k].step = r.step,
           r.verdict = "done" => r.mark # "attempt",
           Listed(ls, r.step),
           \A k \in 1..Len(rs) : rs[k].step = r.step /\ rs[k].at # r.at => Twice(ls, r.step)
    PROVE  Ordered(Append(rs, r)) /\ Written(Append(rs, r), ls)
<1> DEFINE more == Append(rs, r)
<1>1. /\ Len(more) = Len(rs) + 1 /\ Len(rs) \in Nat
      /\ \A k \in 1..Len(more) : k \in 1..Len(rs) \/ k = Len(rs) + 1
      /\ \A k \in 1..Len(rs) : more[k] = rs[k] /\ k < Len(rs) + 1
      /\ more[Len(rs) + 1] = r
  OBVIOUS
<1> HIDE DEF more
<1>2. ASSUME NEW k \in 1..Len(more), NEW l \in 1..Len(more)
      PROVE  /\ more[k].at = more[l].at => more[k].step = more[l].step
             /\ k < l /\ more[k].verdict = "done" => more[l].step # more[k].step
             /\ more[k].step = more[l].step /\ more[k].at # more[l].at => Twice(ls, more[k].step)
  <2>1. CASE k \in 1..Len(rs) /\ l \in 1..Len(rs)
    BY <1>1, <2>1 DEF Ordered, Written
  <2>2. CASE k \in 1..Len(rs) /\ l = Len(rs) + 1
    BY <1>1, <2>2
  <2>3. CASE k = Len(rs) + 1 /\ l \in 1..Len(rs)
    BY <1>1, <2>3
  <2>4. CASE k = Len(rs) + 1 /\ l = Len(rs) + 1
    BY <2>4
  <2> QED
    BY <1>1, <2>1, <2>2, <2>3, <2>4
<1>3. \A k \in 1..Len(more) : more[k].verdict = "done" => more[k].mark # "attempt"
  BY <1>1 DEF Ordered
<1>4. \A k \in 1..Len(more) : Listed(ls, more[k].step)
  BY <1>1 DEF Written
<1>5. Ordered(more)
  BY <1>2, <1>3 DEF Ordered
<1>6. Written(more, ls)
  BY <1>2, <1>4 DEF Written
<1> QED
  BY <1>5, <1>6 DEF more

\* The mark of the new row is the last one its step was given.
LEMMA RowShown ==
    ASSUME NEW rs \in Seq(Row), NEW r \in Row, NEW sh, NEW now, Shows(rs, sh),
           \A k \in 1..Len(rs) : rs[k].step # r.step \/ r.mark = "attempt" => now[rs[k].step] = sh[rs[k].step],
           r.mark = "applied" => now[r.step] = r.verdict
    PROVE  Shows(Append(rs, r), now)
<1> DEFINE more == Append(rs, r)
<1>1. /\ Len(more) = Len(rs) + 1 /\ Len(rs) \in Nat
      /\ \A k \in 1..Len(more) : k \in 1..Len(rs) \/ k = Len(rs) + 1
      /\ \A k \in 1..Len(rs) : more[k] = rs[k]
      /\ more[Len(rs) + 1] = r
  OBVIOUS
<1> HIDE DEF more
<1> SUFFICES ASSUME NEW k \in 1..Len(more), IsVerdict(more, k), more[k].mark = "applied"
             PROVE  now[more[k].step] \in (IF more[k].verdict = "done" THEN {"done"} ELSE {"done", "blocked"})
  BY DEF Shows, more
<1>2. CASE k = Len(rs) + 1
  <2>1. r.verdict \in {"done", "blocked"}
    BY DEF Row
  <2> QED
    BY <1>1, <1>2, <2>1
<1>3. CASE k \in 1..Len(rs)
  <2>1. more[k] = rs[k]
    BY <1>1, <1>3
  <2>2. \A l \in k+1..Len(rs) : l \in k+1..Len(more) /\ l \in 1..Len(rs) /\ more[l] = rs[l]
    BY <1>1, <1>3
  <2>3. IsVerdict(rs, k)
    BY <2>1, <2>2 DEF IsVerdict
  <2>4. Len(rs) + 1 \in k+1..Len(more)
    BY <1>1, <1>3
  <2>5. rs[k].step # r.step \/ r.mark = "attempt"
    BY <1>1, <2>1, <2>4 DEF IsVerdict
  <2> QED
    BY <1>3, <2>1, <2>3, <2>5 DEF Shows
<1> QED
  BY <1>1, <1>2, <1>3

\* A mark that is set anew: no older row of the step says more than it.
LEMMA ShownAgain ==
    ASSUME NEW rs \in Seq(Row), NEW sh \in [Step -> {"todo", "done", "blocked"}], Shows(rs, sh),
           NEW s \in Step, NEW v \in {"done", "blocked"},
           v = "done" \/ \A k \in 1..Len(rs) : rs[k].verdict = "done" => rs[k].step # s
    PROVE  Shows(rs, [sh EXCEPT ![s] = v])
<1> SUFFICES ASSUME NEW k \in 1..Len(rs), IsVerdict(rs, k), rs[k].mark = "applied"
             PROVE  [sh EXCEPT ![s] = v][rs[k].step]
                       \in (IF rs[k].verdict = "done" THEN {"done"} ELSE {"done", "blocked"})
  BY DEF Shows
<1>1. rs[k].step \in Step
  <2>1. rs[k] \in Row
    OBVIOUS
  <2> QED
    BY <2>1 DEF Row
<1>2. sh[rs[k].step] \in (IF rs[k].verdict = "done" THEN {"done"} ELSE {"done", "blocked"})
  BY DEF Shows
<1> QED
  BY <1>1, <1>2

\* An obligation that is met, found superseded, or dropped (settle_item_marks).
LEMMA MarkTold ==
    ASSUME NEW rs \in Seq(Row), NEW k \in 1..Len(rs), NEW mark \in {"applied", "drifted"},
           NEW ls, NEW sh, Told(rs, ls, sh), rs[k].mark = "pending",
           NEW now, \/ now = sh /\ (mark = "applied" => \E l \in k+1..Len(rs) :
                                       rs[l].at = rs[k].at /\ rs[l].mark # "attempt")
                    \/ /\ sh \in [Step -> {"todo", "done", "blocked"}]
                       /\ now = [sh EXCEPT ![rs[k].step] = rs[k].verdict]
                       /\ ~Twice(ls, rs[k].step)
                       /\ ~\E l \in k+1..Len(rs) : rs[l].at = rs[k].at /\ rs[l].mark # "attempt"
    PROVE  Told([rs EXCEPT ![k].mark = mark], ls, now)
<1> DEFINE r == [rs[k] EXCEPT !.mark = mark]
           more == [rs EXCEPT ![k] = r]
<1>1. rs[k] \in Row /\ \A l \in 1..Len(rs) : rs[l] \in Row
  OBVIOUS
<1>2. r.at = rs[k].at /\ r.step = rs[k].step /\ r.verdict = rs[k].verdict /\ r.mark = mark
  BY <1>1 DEF Row
<1> HIDE DEF r
<1>3. /\ Len(more) = Len(rs) /\ Len(rs) \in Nat
      /\ \A l \in 1..Len(rs) : more[l] = IF l = k THEN r ELSE rs[l]
  OBVIOUS
<1> HIDE DEF more
<1>4. \A l \in 1..Len(rs) :
         /\ more[l].at = rs[l].at /\ more[l].step = rs[l].step /\ more[l].verdict = rs[l].verdict
         /\ more[l].mark = "attempt" <=> rs[l].mark = "attempt"
         /\ l # k => more[l].mark = rs[l].mark
  BY <1>2, <1>3
<1>5. Ordered(more)
  BY <1>3, <1>4 DEF Told, Ordered
<1>6. Written(more, ls)
  BY <1>3, <1>4 DEF Told, Written
<1>7. \A l \in 1..Len(rs) : IsVerdict(more, l) => IsVerdict(rs, l)
  <2> SUFFICES ASSUME NEW l \in 1..Len(rs), IsVerdict(more, l) PROVE IsVerdict(rs, l)
    OBVIOUS
  <2>1. \A m \in l+1..Len(rs) : m \in 1..Len(rs)
    OBVIOUS
  <2> QED
    BY <1>3, <1>4, <2>1 DEF IsVerdict
<1>8. Shows(more, now)
  <2> SUFFICES ASSUME NEW l \in 1..Len(rs), IsVerdict(more, l), more[l].mark = "applied"
               PROVE  now[rs[l].step] \in (IF rs[l].verdict = "done" THEN {"done"} ELSE {"done", "blocked"})
    BY <1>3, <1>4 DEF Shows
  <2>1. IsVerdict(rs, l)
    BY <1>7
  <2>2. l # k => sh[rs[l].step] \in (IF rs[l].verdict = "done" THEN {"done"} ELSE {"done", "blocked"})
    BY <1>4, <2>1 DEF Told, Shows
  <2>3. l < k => rs[l].step # rs[k].step
    <3> SUFFICES ASSUME l < k PROVE rs[l].step # rs[k].step
      OBVIOUS
    <3>1. k \in l+1..Len(rs)
      OBVIOUS
    <3> QED
      BY <2>1, <3>1 DEF IsVerdict
  <2>4. rs[l].verdict \in {"done", "blocked"} /\ rs[l].step \in Step
    BY <1>1 DEF Row
  <2>5. CASE /\ now = sh
             /\ mark = "applied" => \E m \in k+1..Len(rs) : rs[m].at = rs[k].at /\ rs[m].mark # "attempt"
    <3>1. l # k
      <4> SUFFICES ASSUME l = k PROVE FALSE
        OBVIOUS
      <4>1. mark = "applied"
        BY <1>2, <1>3
      <4>2. PICK m \in k+1..Len(rs) : rs[m].at = rs[k].at /\ rs[m].mark # "attempt"
        BY <2>5, <4>1
      <4>3. m \in 1..Len(rs)
        OBVIOUS
      <4>4. rs[m].step = rs[k].step
        BY <4>2, <4>3 DEF Told, Ordered
      <4> QED
        BY <2>1, <4>2, <4>4 DEF IsVerdict
    <3> QED
      BY <2>2, <2>5, <3>1
  <2>6. CASE /\ sh \in [Step -> {"todo", "done", "blocked"}]
             /\ now = [sh EXCEPT ![rs[k].step] = rs[k].verdict]
             /\ ~Twice(ls, rs[k].step)
             /\ ~\E m \in k+1..Len(rs) : rs[m].at = rs[k].at /\ rs[m].mark # "attempt"
    <3>1. l > k => rs[l].step # rs[k].step
      <4> SUFFICES ASSUME l > k, rs[l].step = rs[k].step PROVE FALSE
        OBVIOUS
      <4>1. l \in k+1..Len(rs)
        OBVIOUS
      <4>2. rs[l].mark # "attempt"
        BY <2>1 DEF IsVerdict
      <4>3. rs[l].at # rs[k].at
        BY <2>6, <4>1, <4>2
      <4> QED
        BY <2>6, <4>3 DEF Told, Written
    <3>2. CASE l = k
      BY <2>4, <2>6, <3>2
    <3>3. CASE l # k
      BY <2>2, <2>3, <2>4, <2>6, <3>1, <3>3
    <3> QED
      BY <3>2, <3>3
  <2> QED
    BY <2>5, <2>6
<1>9. Told(more, ls, now)
  BY <1>5, <1>6, <1>8 DEF Told
<1> QED
  BY <1>9 DEF more, r

-----------------------------------------------------------------------------
(* The steps, again: what they do to what was told. *)

\* Steps that only move the run on, or write its checkpoint.
LEMMA RunToldStays ==
    ASSUME RunTold, UNCHANGED <<lines, shown, rows, items, plan, todo>>,
           pc # "none", pc' # "none", Mirroring' <=> Mirroring,
           ckpt' = ckpt \/ ckpt'.rows = rows
    PROVE  RunTold'
<1>1. CarriedOn(ckpt'.rows, rows)
  BY DEF RunTold, CarriedOn
<1> QED
  BY <1>1 DEF RunTold

LEMMA CkptToldStays ==
    ASSUME CkptTold, UNCHANGED <<lines, shown, ckpt>>
    PROVE  CkptTold'
BY DEF CkptTold

LEMMA CkptToldWritten ==
    ASSUME RunTold, CkptTold, WriteCheckpoint, pc # "none", ~Mirroring, UNCHANGED <<lines, shown>>
    PROVE  CkptTold' /\ (ckpt' = ckpt \/ ckpt'.rows = rows)
<1>1. CASE ckpt' = ckpt
  BY <1>1, CkptToldStays
<1>2. CASE ckpt' = [written |-> TRUE, plan |-> plan, rows |-> rows, items |-> items]
  BY <1>2 DEF RunTold, CkptTold
<1> QED
  BY <1>1, <1>2 DEF WriteCheckpoint

LEMMA GoneTold ==
    ASSUME Gone
    PROVE  RunTold'
BY DEF Gone, RunTold, Told, Ordered, Written, Shows, DoneAt

\* A verdict of a step ahead, told at once or owed.
LEMMA VerdictTold ==
    ASSUME Shape, RunHolds, CkptHolds, Shown, RunTold, CkptTold, pc \in {"step", "run"},
           NEW s \in Step, NEW verdict \in {"done", "blocked"}, Verdict(s, verdict),
           UNCHANGED <<lines, items, plan, ckpt>>, ~Mirroring', pc' \in {"settle", "save"}
    PROVE  Shown' /\ RunTold' /\ CkptTold'
<1> DEFINE r == RowOf(s, verdict, IF jammed THEN "pending" ELSE "applied")
<1>1. /\ s \in plan /\ s \in todo /\ ~Mirroring /\ pc # "none"
      /\ rows' = Append(rows, r) /\ todo' = todo \ {s}
  BY DEF Shape, Verdict, InTurn, Mirroring, Owed
<1>2. /\ rows \in Seq(Row) /\ ckpt.rows \in Seq(Row)
      /\ Carried(rows, items, plan, Len(lines)) /\ items[s] \in 1..Len(lines)
  BY <1>1 DEF RunHolds, CkptHolds, Numbered, Carried, Located
<1>3. /\ r \in Row /\ r.step = s /\ r.at = items[s] /\ r.verdict = verdict
      /\ r.mark = IF jammed THEN "pending" ELSE "applied"
  <2>1. items[s] \in Nat
    BY <1>2 DEF Shape
  <2> QED
    BY <2>1 DEF RowOf, Row, Mark
<1> HIDE DEF r
<1>4. /\ lines[items[s]] = s
      /\ \A k \in 1..Len(rows) : rows[k].step = s /\ rows[k].at # items[s] => Twice(lines, s)
  BY <1>1 DEF RunTold, Moved
<1>5. \A k \in 1..Len(rows) : rows[k].verdict = "done" => rows[k].step # s
  BY <1>1 DEF RunTold
<1>6. \A c \in 1..Len(ckpt.rows) : ckpt.rows[c].verdict = "done" => ckpt.rows[c].step # s
  BY <1>1, <1>5 DEF RunTold, CarriedOn
<1>7. shown' = IF jammed THEN shown ELSE [shown EXCEPT ![s] = verdict]
  BY <1>4 DEF Verdict, MarkItem
<1>8. Shown'
  BY <1>7 DEF Shown
<1>9. Ordered(rows') /\ Written(rows', lines)
  <2>1. Listed(lines, s)
    BY <1>2, <1>4 DEF Listed
  <2>2. \A k \in 1..Len(rows) : rows[k].at = items[s] => rows[k].step = s
    BY <1>1, <1>2 DEF Carried, Placed
  <2> QED
    BY <1>1, <1>2, <1>3, <1>4, <1>5, <2>1, <2>2, RowTold DEF RunTold, Told
<1>10. Shows(rows', shown')
  <2>1. \A k \in 1..Len(rows) :
           rows[k].step # r.step \/ r.mark = "attempt" => shown'[rows[k].step] = shown[rows[k].step]
    BY <1>3, <1>7 DEF Shown
  <2>2. r.mark = "applied" => shown'[r.step] = r.verdict
    BY <1>3, <1>7 DEF Shown
  <2>3. Shows(rows, shown)
    BY DEF RunTold, Told
  <2>4. Shows(Append(rows, r), shown')
    BY <1>2, <1>3, <2>1, <2>2, <2>3, RowShown
  <2> QED
    BY <1>1, <2>4
<1>11. /\ Len(rows') = Len(rows) + 1 /\ Len(rows) \in Nat
       /\ \A k \in 1..Len(rows') : k \in 1..Len(rows) \/ k = Len(rows) + 1
       /\ \A k \in 1..Len(rows) : k \in 1..Len(rows') /\ rows'[k] = rows[k]
       /\ rows'[Len(rows) + 1] = r
  BY <1>1, <1>2, <1>3
<1>12. \A k \in 1..Len(rows') : rows'[k].verdict = "done" => rows'[k].step \notin todo'
  BY <1>1, <1>3, <1>11 DEF RunTold
<1>13. DoneAt(rows', items, plan)
  BY <1>3, <1>11 DEF RunTold, DoneAt
<1>14. Moved(rows', items, plan, lines) /\ \A t \in plan : lines[items[t]] = t
  BY <1>1, <1>3, <1>11 DEF RunTold, Moved
<1>15. CarriedOn(ckpt.rows, rows')
  BY <1>1, <1>11 DEF RunTold, CarriedOn
<1>16. RunTold'
  BY <1>9, <1>10, <1>12, <1>13, <1>14, <1>15 DEF RunTold, Told
<1>17. Shows(ckpt.rows, shown')
  BY <1>2, <1>6, <1>7, ShownAgain DEF CkptTold, Told, Shown
<1> QED
  BY <1>8, <1>16, <1>17 DEF CkptTold, Told

\* An attempt is no verdict: it changes nothing that was told.
LEMMA AttemptTold ==
    ASSUME Shape, RunHolds, Shown, RunTold, CkptTold, NEW s \in Step, Attempt(s)
    PROVE  Shown' /\ RunTold' /\ CkptTold'
<1> DEFINE r == RowOf(s, "blocked", "attempt")
<1>1. /\ s \in plan /\ s \in todo /\ ~Mirroring /\ pc # "none" /\ ~Mirroring' /\ pc' # "none"
      /\ rows' = Append(rows, r)
      /\ UNCHANGED <<lines, shown, items, plan, todo, ckpt>>
  BY DEF Shape, Attempt, InTurn, Mirroring, ghosts
<1>2. rows \in Seq(Row) /\ Carried(rows, items, plan, Len(lines)) /\ items[s] \in 1..Len(lines)
  BY <1>1 DEF RunHolds, Numbered, Carried, Located
<1>3. r \in Row /\ r.step = s /\ r.at = items[s] /\ r.verdict = "blocked" /\ r.mark = "attempt"
  <2>1. items[s] \in Nat
    BY <1>2 DEF Shape
  <2> QED
    BY <2>1 DEF RowOf, Row, Mark
<1> HIDE DEF r
<1>4. /\ lines[items[s]] = s
      /\ \A k \in 1..Len(rows) : rows[k].step = s /\ rows[k].at # items[s] => Twice(lines, s)
  BY <1>1 DEF RunTold, Moved
<1>5. \A k \in 1..Len(rows) : rows[k].verdict = "done" => rows[k].step # s
  BY <1>1 DEF RunTold
<1>6. Ordered(rows') /\ Written(rows', lines)
  <2>1. Listed(lines, s)
    BY <1>2, <1>4 DEF Listed
  <2>2. \A k \in 1..Len(rows) : rows[k].at = items[s] => rows[k].step = s
    BY <1>1, <1>2 DEF Carried, Placed
  <2> QED
    BY <1>1, <1>2, <1>3, <1>4, <1>5, <2>1, <2>2, RowTold DEF RunTold, Told
<1>7. Shows(rows', shown)
  BY <1>1, <1>2, <1>3, RowShown DEF RunTold, Told
<1>8. /\ Len(rows') = Len(rows) + 1 /\ Len(rows) \in Nat
      /\ \A k \in 1..Len(rows') : k \in 1..Len(rows) \/ k = Len(rows) + 1
      /\ \A k \in 1..Len(rows) : k \in 1..Len(rows') /\ rows'[k] = rows[k]
      /\ rows'[Len(rows) + 1] = r
  BY <1>1, <1>2, <1>3
<1>9. \A k \in 1..Len(rows') : rows'[k].verdict = "done" => rows'[k].step \notin todo
  BY <1>3, <1>8 DEF RunTold
<1>10. DoneAt(rows', items, plan)
  BY <1>3, <1>8 DEF RunTold, DoneAt
<1>11. Moved(rows', items, plan, lines) /\ \A t \in plan : lines[items[t]] = t
  BY <1>1, <1>3, <1>8 DEF RunTold, Moved
<1>12. CarriedOn(ckpt.rows, rows')
  BY <1>1, <1>8 DEF RunTold, CarriedOn
<1>13. RunTold'
  BY <1>1, <1>6, <1>7, <1>9, <1>10, <1>11, <1>12 DEF RunTold, Told
<1> QED
  BY <1>1, <1>13, CkptToldStays DEF Shown

\* What is owed is told in a line that can only be the step's, or not at all.
LEMMA SettleTold ==
    ASSUME RunHolds, CkptHolds, Shown, RunTold, CkptTold, NEW k \in 1..Len(rows), Settle(k)
    PROVE  Shown' /\ RunTold' /\ CkptTold'
<1>1. /\ UNCHANGED <<lines, pc, plan, items, todo, next, ckpt>>
      /\ rows[k].mark = "pending" /\ pc # "none" /\ (Mirroring' <=> Mirroring)
  BY DEF Settle, Pending, Mirroring
<1>2. rows \in Seq(Row) /\ rows[k] \in Row /\ ckpt.rows \in Seq(Row)
  BY DEF RunHolds, CkptHolds, Numbered
<1>3. rows[k].step \in Step /\ rows[k].verdict \in {"done", "blocked"}
  BY <1>2 DEF Row
<1>4. CASE rows' = rows /\ shown' = shown
  BY <1>1, <1>4, RunToldStays, CkptToldStays DEF Shown
<1>5. ASSUME NEW mark \in {"applied", "drifted"}, rows' = [rows EXCEPT ![k].mark = mark],
             Told(rows', lines, shown')
      PROVE  RunTold'
  <2> DEFINE r == [rows[k] EXCEPT !.mark = mark]
  <2>1. r.at = rows[k].at /\ r.step = rows[k].step /\ r.verdict = rows[k].verdict
    BY <1>2 DEF Row
  <2> HIDE DEF r
  <2>2. Len(rows') = Len(rows) /\ \A l \in 1..Len(rows) : rows'[l] = IF l = k THEN r ELSE rows[l]
    BY <1>2, <1>5 DEF r
  <2>3. \A l \in 1..Len(rows) :
           rows'[l].at = rows[l].at /\ rows'[l].step = rows[l].step /\ rows'[l].verdict = rows[l].verdict
    BY <2>1, <2>2
  <2>4. DoneAt(rows', items, plan)
    BY <2>2, <2>3 DEF RunTold, DoneAt
  <2>5. Moved(rows, items, plan, lines) => Moved(rows', items, plan, lines)
    BY <2>2, <2>3 DEF Moved
  <2>6. CarriedOn(ckpt.rows, rows) => CarriedOn(ckpt.rows, rows')
    BY <2>2, <2>3 DEF CarriedOn
  <2>7. \A l \in 1..Len(rows') : rows'[l].verdict = "done" => rows'[l].step \notin todo
    BY <2>2, <2>3 DEF RunTold
  <2> QED
    BY <1>1, <1>5, <2>4, <2>5, <2>6, <2>7 DEF RunTold
<1>6. ASSUME NEW mark \in {"applied", "drifted"}, mark = "applied" => Superseded(k),
             rows' = [rows EXCEPT ![k].mark = mark], shown' = shown
      PROVE  Shown' /\ RunTold' /\ CkptTold'
  <2>1. Told(rows', lines, shown')
    BY <1>1, <1>2, <1>6, MarkTold DEF Superseded, RunTold
  <2> QED
    BY <1>1, <1>5, <1>6, <2>1, CkptToldStays DEF Shown
<1>7. ASSUME ~Superseded(k), Names(rows[k].at, rows[k].step), MarkItem(rows[k].at, rows[k].verdict),
             rows' = [rows EXCEPT ![k].mark = "applied"]
      PROVE  Shown' /\ RunTold' /\ CkptTold'
  <2>1. lines[rows[k].at] = rows[k].step /\ ~Twice(lines, rows[k].step)
    BY <1>7 DEF Names, Twice
  <2>2. shown' = [shown EXCEPT ![rows[k].step] = rows[k].verdict]
    BY <1>3, <1>7, <2>1 DEF MarkItem
  <2>3. Told(rows', lines, shown')
    BY <1>1, <1>2, <1>7, <2>1, <2>2, MarkTold DEF Superseded, RunTold, Shown
  <2>4. rows[k].verdict = "done" \/ \A c \in 1..Len(ckpt.rows) :
           ckpt.rows[c].verdict = "done" => ckpt.rows[c].step # rows[k].step
    <3> SUFFICES ASSUME rows[k].verdict # "done", NEW c \in 1..Len(ckpt.rows),
                        ckpt.rows[c].verdict = "done", ckpt.rows[c].step = rows[k].step
                 PROVE  FALSE
      OBVIOUS
    <3>1. PICK d \in 1..Len(rows) : rows[d].verdict = "done" /\ rows[d].step = rows[k].step
      BY <1>1 DEF RunTold, CarriedOn
    <3>2. ~(d < k)
      BY <3>1 DEF RunTold, Told, Ordered
    <3>3. d > k
      BY <3>1, <3>2
    <3>4. d \in k+1..Len(rows)
      BY <3>3
    <3>5. rows[d].mark # "attempt"
      BY <3>1 DEF RunTold, Told, Ordered
    <3>6. rows[d].at # rows[k].at
      BY <1>7, <3>4, <3>5 DEF Superseded
    <3> QED
      BY <2>1, <3>1, <3>6 DEF RunTold, Told, Written
  <2>5. Shows(ckpt.rows, shown')
    BY <1>2, <1>3, <2>2, <2>4, ShownAgain DEF CkptTold, Told, Shown
  <2>6. CkptTold'
    BY <1>1, <2>5 DEF CkptTold, Told
  <2>7. Shown'
    BY <1>3, <2>2 DEF Shown
  <2> QED
    BY <1>5, <1>7, <2>3, <2>6, <2>7
<1> QED
  BY <1>4, <1>6, <1>7 DEF Settle

\* The first life writes the lines of the whole plan.
LEMMA BeginTold ==
    ASSUME Shape, Shown, RunTold, CkptTold, Begin
    PROVE  Shown' /\ RunTold' /\ CkptTold'
<1>1. /\ rows' = <<>> /\ ckpt.rows = <<>> /\ ckpt' = ckpt /\ ~ckpt.written /\ shown' = shown
      /\ plan' = Step /\ ~Mirroring'
  BY DEF Begin, RunTold, CkptTold, Mirroring, ghosts
<1>2. \A s \in Step : lines'[items'[s]] = s
  BY AppendedText DEF Begin, Shape
<1>3. RunTold'
  BY <1>1, <1>2 DEF RunTold, Told, Ordered, Written, Shows, DoneAt, Moved, CarriedOn
<1>4. CkptTold'
  BY <1>1 DEF CkptTold, Told, Ordered, Written, Shows, DoneAt
<1> QED
  BY <1>1, <1>3, <1>4 DEF Shown

\* What a resume leaves to do has no done row.
LEMMA DoneIsFinished ==
    ASSUME CkptHolds, CkptTold, ckpt.written, NEW c \in 1..Len(ckpt.rows), ckpt.rows[c].verdict = "done"
    PROVE  ckpt.rows[c].step \notin Remaining
<1> DEFINE s == ckpt.rows[c].step
<1> SUFFICES ASSUME s \in ckpt.plan PROVE Finished(s)
  BY DEF Remaining
<1>1. ckpt.rows[c].at = ckpt.items[s]
  BY DEF CkptTold, DoneAt
<1>2. c \in Rows(s)
  BY <1>1 DEF Rows
<1>3. ASSUME NEW l \in Rows(s) PROVE l <= c
  <2>1. l \in 1..Len(ckpt.rows) /\ ckpt.rows[l].step = s
    BY <1>3 DEF Rows, CkptHolds, Carried, Placed
  <2>2. ~(c < l)
    BY <2>1 DEF CkptTold, Told, Ordered
  <2>3. l \in Nat /\ c \in Nat
    BY <2>1
  <2> QED
    BY <2>2, <2>3
<1> QED
  BY <1>2, <1>3 DEF Finished

LEMMA ResumeTold ==
    ASSUME Shape, CkptHolds, Shown, RunTold, CkptTold, Resume
    PROVE  Shown' /\ RunTold' /\ CkptTold'
<1>1. /\ rows' = ckpt.rows /\ ckpt' = ckpt /\ ckpt.written /\ UNCHANGED <<lines, shown>>
      /\ plan' = Remaining /\ todo' = Remaining /\ Mirroring' /\ pc' # "none"
      /\ items' = IF ItemsNameSteps(Remaining) THEN ckpt.items ELSE Unmirrored
  BY DEF Resume, Mirroring, ghosts
<1>2. Remaining \subseteq ckpt.plan
  BY DEF Remaining
<1>3. \A c \in 1..Len(ckpt.rows) : ckpt.rows[c].verdict = "done" => ckpt.rows[c].step \notin Remaining
  BY <1>1, DoneIsFinished
<1>4. DoneAt(ckpt.rows, items', Remaining)
  BY <1>3 DEF DoneAt
<1>5. ItemsNameSteps(Remaining) =>
         Moved(ckpt.rows, ckpt.items, Remaining, lines) /\ \A s \in Remaining : lines[ckpt.items[s]] = s
  BY <1>1, <1>2 DEF CkptTold, Moved, ItemsNameSteps, Names
<1>6. CarriedOn(ckpt.rows, ckpt.rows)
  BY DEF CarriedOn
<1>7. RunTold'
  BY <1>1, <1>3, <1>4, <1>5, <1>6 DEF RunTold, CkptTold
<1> QED
  BY <1>1, <1>7, CkptToldStays DEF Shown

LEMMA MirrorPlanTold ==
    ASSUME Shape, RunHolds, Shown, RunTold, CkptTold, MirrorPlan
    PROVE  Shown' /\ RunTold' /\ CkptTold'
<1>1. /\ UNCHANGED <<rows, plan, todo, ckpt, shown>> /\ todo = plan /\ plan \in SUBSET Step
      /\ pc # "none" /\ pc' # "none" /\ ~Mirroring'
  BY DEF MirrorPlan, Mirroring, Shape, RunHolds, ghosts
<1>2. CASE items # Unmirrored
  <2>1. UNCHANGED <<lines, items>>
    BY <1>2 DEF MirrorPlan
  <2> QED
    BY <1>1, <1>2, <2>1 DEF RunTold, CkptTold, Shown
<1>3. CASE items = Unmirrored
  <2>1. /\ lines \in Seq(Text) /\ lines' \in Seq(Text) /\ Len(lines) <= Len(lines')
        /\ \A s \in plan : items'[s] > Len(lines) /\ items'[s] \in 1..Len(lines')
    BY <1>1, <1>3, Appended DEF MirrorPlan, Shape, Located
  <2>2. /\ \A i \in 1..Len(lines) : lines'[i] = lines[i]
        /\ \A s \in plan : lines'[items'[s]] = s
    BY <1>1, <1>3, AppendedText DEF MirrorPlan, Shape
  <2>3. Copied(lines, lines')
    BY <2>1, <2>2, CopiedAppended
  <2>4. Moved(rows, items', plan, lines')
    <3> SUFFICES ASSUME NEW s \in plan, NEW k \in 1..Len(rows), rows[k].step = s PROVE Twice(lines', s)
      BY DEF Moved
    <3>1. PICK i \in 1..Len(lines) : lines[i] = s
      BY DEF RunTold, Told, Written, Listed
    <3>2. i \in 1..Len(lines') /\ lines'[i] = s /\ i # items'[s]
      BY <2>1, <2>2, <3>1
    <3> QED
      BY <2>1, <2>2, <3>2 DEF Twice
  <2>5. DoneAt(rows, items', plan)
    BY <1>1 DEF RunTold, DoneAt
  <2>6. Told(rows, lines', shown) /\ Told(ckpt.rows, lines', shown)
    BY <2>3, CopiedTold DEF RunTold, CkptTold, Told
  <2>7. ckpt.written => Moved(ckpt.rows, ckpt.items, ckpt.plan, lines')
    BY <2>3, CopiedTold DEF CkptTold
  <2>8. RunTold'
    BY <1>1, <2>2, <2>4, <2>5, <2>6 DEF RunTold
  <2>9. CkptTold'
    BY <1>1, <2>6, <2>7 DEF CkptTold
  <2> QED
    BY <1>1, <2>8, <2>9 DEF Shown
<1> QED
  BY <1>2, <1>3

\* People write lines when no run is there to mark them.
LEMMA WriteLineTold ==
    ASSUME Shape, Shown, RunTold, CkptTold, NEW text \in Text, NEW place \in 1..Len(lines) + 1,
           WriteLine(text, place), pc = "none"
    PROVE  Shown' /\ RunTold' /\ CkptTold'
<1>1. UNCHANGED <<run, ckpt, shown>> /\ lines' = InsertAt(lines, place, text)
  BY DEF WriteLine
<1>2. Copied(lines, lines')
  BY <1>1, CopiedInserted DEF Shape
<1>3. Told(rows, lines', shown) /\ Told(ckpt.rows, lines', shown)
  BY <1>2, CopiedTold DEF RunTold, CkptTold, Told
<1>4. ckpt.written => Moved(ckpt.rows, ckpt.items, ckpt.plan, lines')
  BY <1>2, CopiedTold DEF CkptTold
<1>5. RunTold'
  BY <1>1, <1>3 DEF RunTold, run
<1>6. CkptTold'
  BY <1>1, <1>3, <1>4 DEF CkptTold
<1> QED
  BY <1>1, <1>5, <1>6 DEF Shown

LEMMA ToldStep == IInv /\ MInv /\ [Next]_vars => MInv'
<1> SUFFICES ASSUME IInv, MInv, [Next]_vars, ~strayed', ~cut' PROVE Shown' /\ RunTold' /\ CkptTold'
  BY DEF MInv
<1>0. ~strayed /\ ~cut => Shape /\ RunHolds /\ CkptHolds /\ Shown /\ RunTold /\ CkptTold
  BY DEF IInv, MInv
<1>1. CASE UNCHANGED vars
  BY <1>0, <1>1 DEF vars, run, ghosts, Shown, RunTold, CkptTold, Mirroring
<1>2. CASE Jam \/ Unjam
  BY <1>0, <1>2 DEF Jam, Unjam, run, ghosts, Shown, RunTold, CkptTold, Mirroring
<1>3. ASSUME NEW last \in 1..Len(lines), NEW first \in 1..last, RemoveLines(first, last) PROVE FALSE
  BY <1>3 DEF RemoveLines
<1>4. ASSUME NEW text \in Text, NEW place \in 1..Len(lines) + 1, WriteLine(text, place)
      PROVE  Shown' /\ RunTold' /\ CkptTold'
  BY <1>0, <1>4, WriteLineTold DEF WriteLine
<1>5. CASE Begin
  BY <1>0, <1>5, BeginTold DEF Begin, ghosts
<1>6. CASE Prompt
  <2>1. /\ ~cut /\ ~strayed /\ ~Mirroring /\ ~Mirroring' /\ pc # "none" /\ pc' # "none"
        /\ UNCHANGED <<lines, shown, rows, items, plan, todo>>
    BY <1>6 DEF Prompt, Mirroring, ghosts
  <2>2. CkptTold' /\ (ckpt' = ckpt \/ ckpt'.rows = rows)
    BY <1>0, <1>6, <2>1, CkptToldWritten DEF Prompt
  <2> QED
    BY <1>0, <2>1, <2>2, RunToldStays DEF Shown
<1>7. ASSUME NEW s \in Step, Attempt(s) PROVE Shown' /\ RunTold' /\ CkptTold'
  BY <1>0, <1>7, AttemptTold DEF Attempt, ghosts
<1>8. ASSUME NEW s \in Step, Gate(s) PROVE Shown' /\ RunTold' /\ CkptTold'
  BY <1>0, <1>8, VerdictTold DEF Gate, Mirroring
<1>9. ASSUME NEW s \in Step, NEW verdict \in {"done", "blocked"}, NEW ends \in BOOLEAN, Judge(s, verdict, ends)
      PROVE  Shown' /\ RunTold' /\ CkptTold'
  BY <1>0, <1>9, VerdictTold DEF Judge, Mirroring
<1>10. CASE Leave
  <2>1. /\ ~cut /\ ~strayed /\ ~Mirroring /\ ~Mirroring' /\ pc # "none" /\ pc' # "none" /\ ckpt' = ckpt
        /\ UNCHANGED <<lines, shown, rows, items, plan, todo>>
    BY <1>10 DEF Leave, Mirroring, ghosts
  <2> QED
    BY <1>0, <2>1, RunToldStays, CkptToldStays DEF Shown
<1>11. ASSUME NEW k \in 1..Len(rows), Settle(k) PROVE Shown' /\ RunTold' /\ CkptTold'
  BY <1>0, <1>11, SettleTold DEF Settle
<1>12. CASE Settled
  <2>1. /\ ~cut /\ ~strayed /\ (Mirroring' <=> Mirroring) /\ pc # "none" /\ pc' # "none" /\ ckpt' = ckpt
        /\ UNCHANGED <<lines, shown, rows, items, plan, todo>>
    BY <1>12 DEF Settled, Mirroring, ghosts
  <2> QED
    BY <1>0, <2>1, RunToldStays, CkptToldStays DEF Shown
<1>13. CASE Save
  <2>1. ~cut /\ ~strayed /\ ~Mirroring /\ pc # "none" /\ UNCHANGED <<lines, shown>>
    BY <1>13 DEF Save, Mirroring, ghosts
  <2>2. CkptTold' /\ (ckpt' = ckpt \/ ckpt'.rows = rows)
    BY <1>0, <1>13, <2>1, CkptToldWritten DEF Save
  <2>3. CASE Gone
    BY <1>0, <2>1, <2>2, <2>3, GoneTold DEF Shown
  <2>4. CASE next = "step" /\ pc' = "step" /\ UNCHANGED <<plan, items, todo, rows, at, next>>
    <3>1. ~Mirroring'
      BY <2>4 DEF Mirroring
    <3> QED
      BY <1>0, <2>1, <2>2, <2>4, <3>1, RunToldStays DEF Shown
  <2> QED
    BY <1>13, <2>3, <2>4 DEF Save
<1>14. CASE Die
  BY <1>0, <1>14, GoneTold, CkptToldStays DEF Die, ghosts, Shown
<1>15. CASE Resume
  BY <1>0, <1>15, ResumeTold DEF Resume, ghosts
<1>16. CASE MirrorPlan
  BY <1>0, <1>16, MirrorPlanTold DEF MirrorPlan, ghosts
<1> QED
  BY <1>1, <1>2, <1>3, <1>4, <1>5, <1>6, <1>7, <1>8, <1>9, <1>10, <1>11, <1>12, <1>13, <1>14, <1>15, <1>16
     DEF Next, Run

\* NEXT.md mirrors the rows that say so, whatever deaths, resumes, superseded
\* rows and jammed locks did (settle_item_marks, loop_planning.py:261).
THEOREM WhatIsAppliedIsShown == Spec => []AppliedIsShown
<1>1. Init => MInv
  BY DEF Init, MInv, Shown, RunTold, CkptTold, Told, Ordered, Written, Shows, DoneAt
<1>2. MInv => AppliedIsShown
  BY DEF MInv, RunTold, CkptTold, Told, Shows, AppliedIsShown, Mirrored
<1> QED
  BY <1>1, <1>2, InitHolds, NextHolds, ToldStep, PTL DEF Spec

=============================================================================
