---------------------------- MODULE DagLaneProofs ----------------------------
(***************************************************************************)
(* What holds of the parallel lane for every plan, every set of edges, any *)
(* number of workers, resumes and failed writes.  The inductive invariant  *)
(* ties the row of each step to the state of its future, the steps the     *)
(* coordinator has released to the rows of what they waited for, and the   *)
(* threads inside the adapter to the halt.                                 *)
(***************************************************************************)
EXTENDS DagLane, FiniteSetTheorems, TLAPS

Ended == {"done", "blocked", "refused"}
Entered == {i \in Step : future[i] = "entered"}
InPool == {i \in Step : future[i] \in Busy}
Unwritten == {"none"} \cup Synthetic

\* The row and the outcome of a step, by the state of its future.
RowsOfFutures ==
    \A i \in Step :
        /\ i \notin plan => future[i] = "none" /\ results[i] = "none"
        /\ future[i] \in {"none", "queued", "cancelled", "notified", "entered", "calling"}
              => answer[i] = "none" /\ results[i] \in Unwritten
        /\ future[i] = "merging" => answer[i] \in Ended /\ results[i] \in Unwritten
        /\ future[i] = "raised" => answer[i] = "raised" /\ results[i] \in Unwritten \cup {"raised"}
        /\ future[i] = "finished" =>
              \/ answer[i] \in Ended /\ results[i] = answer[i]
              \/ answer[i] = "none" /\ results[i] \in Synthetic

\* What the coordinator has still to do in each of its phases.
Phases ==
    /\ \A i \in active : future[i] # "none"
    /\ \A i \in plan \ active : future[i] # "none" => Committed(i)
    /\ phase = "submit" => \A i \in todo : ~Committed(i) /\ future[i] = "none"
    /\ phase = "wait" => todo = {}
    /\ phase \in {"fill", "returned", "dead"} => \A i \in Step : future[i] \in Settled
    /\ phase = "fill" => todo = {i \in plan : ~Committed(i)}
    /\ phase = "returned" => \A i \in plan : Committed(i)

\* A row, or a place among the steps about to be gated.
Accounted(i) == Committed(i) \/ (phase = "submit" /\ i \in todo)

\* A released step has its row for good; if it is unmet, whatever has an
\* enforced edge to it is blocked or about to be.
ReleasesHold ==
    \A d \in released :
        /\ d \notin active
        /\ future[d] \in Settled
        /\ Accounted(d)
        /\ results[d] # "done" =>
              \A j \in plan : Enforced(j, d) => future[j] = "none" /\ Accounted(j)

\* What was submitted was submitted on released ground.
SubmittedOnGround ==
    \A i \in plan : future[i] # "none" =>
        /\ \A d \in WaitsFor(i) : d \in released /\ Committed(d)
        /\ \A d \in plan : Enforced(i, d) => d \in released /\ results[d] = "done"

VerdictHolds ==
    phase = "returned" =>
        verdict = IF \E i \in plan : results[i] = "refused" THEN "interrupted"
                  ELSE IF \E i \in plan : results[i] # "done" THEN "stuck" ELSE "done"

\* Those who may still reach the adapter were in the pool, with the refused one,
\* when the halt was published.
HaltHolds ==
    /\ Cardinality(InPool) <= Workers
    /\ ~halt => late = {}
    /\ halt => Cardinality(late \cup Entered) < Workers

SavedHolds ==
    /\ Step \ plan \subseteq saved
    /\ phase # "dead" => saved \subseteq Snapshot(results)

IInv ==
    /\ TypeOK
    /\ RowsOfFutures
    /\ Phases
    /\ ReleasesHold
    /\ SubmittedOnGround
    /\ VerdictHolds
    /\ HaltHolds
    /\ SavedHolds

-----------------------------------------------------------------------------
(* The operators.                                                          *)

\* The gated steps are among those it was asked about, and closed: whoever has an
\* enforced edge to the unmet step or to one of them is one of them.
LEMMA GatedClosed ==
    ASSUME NEW i, NEW free
    PROVE  /\ Gated(i, free) \subseteq free
           /\ \A j \in free : (\E d \in Gated(i, free) \cup {i} : Enforced(j, d)) => j \in Gated(i, free)
  <1> DEFINE Closed(S) == \A j \in free : (\E d \in S \cup {i} : Enforced(j, d)) => j \in S
             G == {j \in free : \A S \in SUBSET free : Closed(S) => j \in S}
  <1>1. ASSUME NEW j \in free, NEW d \in G \cup {i}, Enforced(j, d),
               NEW S \in SUBSET free, Closed(S)
        PROVE  j \in S
    <2>1. d \in S \cup {i}
      BY <1>1
    <2> QED
      BY <1>1, <2>1
  <1>2. \A j \in free : (\E d \in G \cup {i} : Enforced(j, d)) => j \in G
    BY <1>1
  <1>3. Gated(i, free) = G
    BY DEF Gated
  <1> HIDE DEF G
  <1>4. G \subseteq free
    BY DEF G
  <1> QED
    BY <1>2, <1>3, <1>4

\* The enforced edges do not change within a life, ...
LEMMA EdgesKept ==
    plan' = plan /\ bound' = bound => \A i, d : Enforced(i, d)' <=> Enforced(i, d)
  BY DEF Enforced

\* ... nor does what a step waits for, ...
LEMMA WaitsKept ==
    plan' = plan /\ bound' = bound => \A i : WaitsFor(i)' = WaitsFor(i)
  BY DEF WaitsFor, Renumbered, Place

\* ... which holds every enforced prerequisite of the plan.
LEMMA EnforcedWaits == \A i, d : Enforced(i, d) /\ d \in plan => d \in WaitsFor(i)
  BY DEF Enforced, WaitsFor

\* A commit writes one row and, if the write succeeds, all of them to the checkpoint.
LEMMA CommitTypes ==
    ASSUME TypeOK, NEW i \in Step, NEW row \in Row, Commit(i, row)
    PROVE  /\ results' \in [Step -> Row]
           /\ saved' \subseteq Step
           /\ faults' \in 0..MaxFaults
  BY SizeAssumption DEF TypeOK, Commit, Progress, Snapshot

LEMMA RowOfFutureTypes ==
    ASSUME TypeOK, NEW i \in Step, RowOfFuture(i)
    PROVE  /\ results' \in [Step -> Row]
           /\ saved' \subseteq Step
           /\ faults' \in 0..MaxFaults
  <1>1. RowFor(i) \in Row
    BY DEF TypeOK, RowFor, Row, Answer, Synthetic
  <1> QED
    BY <1>1, CommitTypes DEF RowOfFuture, TypeOK

-----------------------------------------------------------------------------
(* The initial states.                                                     *)

LEMMA InitHolds == Init => IInv
  <1> SUFFICES ASSUME Init PROVE IInv
    OBVIOUS
  <1>1. TypeOK
    <2>1. 1 \in 1..(MaxRuns + 1) /\ 0 \in 0..MaxFaults
      BY SizeAssumption
    <2> QED
      BY <2>1 DEF Init, NoRows, TypeOK, Row, Answer, Future, Settled
  <1>2. RowsOfFutures /\ Phases /\ VerdictHolds /\ SavedHolds
    BY DEF Init, NoRows, Settled, RowsOfFutures, Unwritten, Phases, VerdictHolds, SavedHolds
  <1>3. ReleasesHold /\ SubmittedOnGround
    BY DEF Init, NoRows, ReleasesHold, SubmittedOnGround
  <1>4. InPool = {}
    BY DEF Init, NoRows, InPool, Busy
  <1>5. HaltHolds
    BY <1>4, FS_EmptySet, SizeAssumption DEF Init, HaltHolds
  <1> QED
    BY <1>1, <1>2, <1>3, <1>5 DEF IInv

-----------------------------------------------------------------------------
(* Every step keeps the invariant.                                         *)

\* Every action keeps the types.
LEMMA TypeStep == IInv /\ [Next]_vars => TypeOK'
  <1> SUFFICES ASSUME IInv, [Next]_vars PROVE TypeOK'
    OBVIOUS
  <1> USE DEF IInv, TypeOK, Move, lot, laneVars, Future, Busy, Settled
  <1>1. ASSUME NEW i \in Step, Begin(i) PROVE TypeOK'
    BY <1>1 DEF Begin
  <1>2. ASSUME NEW i \in Step, NotStarted(i) PROVE TypeOK'
    BY <1>2, CommitTypes DEF NotStarted, Row, Synthetic
  <1>3. ASSUME NEW i \in Step, Notify(i) PROVE TypeOK'
    BY <1>3 DEF Notify
  <1>4. ASSUME NEW i \in Step, Call(i) PROVE TypeOK'
    BY <1>4 DEF Call
  <1>5. ASSUME NEW i \in Step, Return(i) PROVE TypeOK'
    BY <1>5 DEF Return, Answer
  <1>6. ASSUME NEW i \in Step, Raise(i) PROVE TypeOK'
    BY <1>6 DEF Raise, Answer
  <1>7. ASSUME NEW i \in Step, Land(i) PROVE TypeOK'
    BY <1>7, CommitTypes DEF Land, Row, Answer
  <1>8. ASSUME NEW i \in Step, ReapHalted(i) PROVE TypeOK'
    BY <1>8, RowOfFutureTypes DEF ReapHalted
  <1>9. ASSUME NEW i \in Step, Reap(i) PROVE TypeOK'
    <2>1. todo' \subseteq plan \ active
      BY <1>9, GatedClosed DEF Reap
    <2> QED
      BY <1>9, <2>1, RowOfFutureTypes DEF Reap, Consumable
  <1>10. ASSUME NEW i \in Step, Gate(i) PROVE TypeOK'
    BY <1>10, CommitTypes DEF Gate, Row, Synthetic
  <1>11. ASSUME NEW i \in Step, Expire(i) PROVE TypeOK'
    BY <1>11, CommitTypes DEF Expire, Row, Synthetic
  <1>12. ASSUME NEW i \in Step, Fill(i) PROVE TypeOK'
    BY <1>12, CommitTypes DEF Fill, Row, Synthetic
  <1>13. CASE Submit
    BY <1>13 DEF Submit, Ready
  <1>14. CASE LeavePool
    BY <1>14 DEF LeavePool
  <1>15. CASE Report
    BY <1>15, SizeAssumption DEF Report, Progress, Snapshot
  <1>16. CASE TimedOut
    BY <1>16 DEF TimedOut
  <1>17. CASE Crash
    BY <1>17 DEF Crash, Fresh, NoRows, Row
  <1>18. CASE Resume
    <2>1. runs' \in 1..(MaxRuns + 1)
      BY <1>18, SizeAssumption DEF Resume
    <2> QED
      BY <1>18, <2>1 DEF Resume, Fresh, NoRows, Row, Remaining
  <1>19. CASE UNCHANGED vars
    BY <1>19 DEF vars
  <1> QED
    BY <1>1, <1>2, <1>3, <1>4, <1>5, <1>6, <1>7, <1>8, <1>9, <1>10, <1>11, <1>12,
       <1>13, <1>14, <1>15, <1>16, <1>17, <1>18, <1>19 DEF Next, Worker, Coordinator

\* A row is written where the state of the future allows it.
LEMMA RowsStep == IInv /\ [Next]_vars => RowsOfFutures'
  <1> SUFFICES ASSUME IInv, [Next]_vars PROVE RowsOfFutures'
    OBVIOUS
  <1> USE DEF IInv, TypeOK, RowsOfFutures, Phases, Commit, Progress, Committed,
      Move, lot, laneVars, Answer, Synthetic, Ended, Busy, Settled, Unwritten
  <1>1. ASSUME NEW i \in Step, Begin(i) PROVE RowsOfFutures'
    BY <1>1 DEF Begin
  <1>2. ASSUME NEW i \in Step, NotStarted(i) PROVE RowsOfFutures'
    BY <1>2 DEF NotStarted
  <1>3. ASSUME NEW i \in Step, Notify(i) PROVE RowsOfFutures'
    BY <1>3 DEF Notify
  <1>4. ASSUME NEW i \in Step, Call(i) PROVE RowsOfFutures'
    BY <1>4 DEF Call
  <1>5. ASSUME NEW i \in Step, Return(i) PROVE RowsOfFutures'
    BY <1>5 DEF Return
  <1>6. ASSUME NEW i \in Step, Raise(i) PROVE RowsOfFutures'
    BY <1>6 DEF Raise
  <1>7. ASSUME NEW i \in Step, Land(i) PROVE RowsOfFutures'
    BY <1>7 DEF Land
  <1>8. ASSUME NEW i \in Step, ReapHalted(i) PROVE RowsOfFutures'
    BY <1>8 DEF ReapHalted, RowOfFuture, RowFor, Consumable
  <1>9. ASSUME NEW i \in Step, Reap(i) PROVE RowsOfFutures'
    BY <1>9 DEF Reap, RowOfFuture, RowFor, Consumable
  <1>10. ASSUME NEW i \in Step, Gate(i) PROVE RowsOfFutures'
    BY <1>10 DEF Gate
  <1>11. ASSUME NEW i \in Step, Expire(i) PROVE RowsOfFutures'
    BY <1>11 DEF Expire
  <1>12. ASSUME NEW i \in Step, Fill(i) PROVE RowsOfFutures'
    BY <1>12 DEF Fill
  <1>13. CASE Submit
    BY <1>13 DEF Submit, Ready
  <1>14. CASE LeavePool
    BY <1>14 DEF LeavePool
  <1>15. CASE Report
    BY <1>15 DEF Report
  <1>16. CASE TimedOut
    BY <1>16 DEF TimedOut
  <1>17. CASE Crash
    BY <1>17 DEF Crash, Fresh, NoRows
  <1>18. CASE Resume
    BY <1>18 DEF Resume, Remaining, Fresh, NoRows
  <1>19. CASE UNCHANGED vars
    BY <1>19 DEF vars
  <1> QED
    BY <1>1, <1>2, <1>3, <1>4, <1>5, <1>6, <1>7, <1>8, <1>9, <1>10, <1>11, <1>12,
       <1>13, <1>14, <1>15, <1>16, <1>17, <1>18, <1>19 DEF Next, Worker, Coordinator

\* The coordinator's books agree with the futures and the rows.
LEMMA PhasesStep == IInv /\ [Next]_vars => Phases'
  <1> SUFFICES ASSUME IInv, [Next]_vars PROVE Phases'
    OBVIOUS
  <1> USE DEF IInv, TypeOK, RowsOfFutures, Phases, Commit, Progress, Committed,
      Move, lot, laneVars, Answer, Synthetic, Ended, Busy, Settled, Unwritten
  <1>1. ASSUME NEW i \in Step, Begin(i) PROVE Phases'
    BY <1>1 DEF Begin
  <1>2. ASSUME NEW i \in Step, NotStarted(i) PROVE Phases'
    BY <1>2 DEF NotStarted
  <1>3. ASSUME NEW i \in Step, Notify(i) PROVE Phases'
    BY <1>3 DEF Notify
  <1>4. ASSUME NEW i \in Step, Call(i) PROVE Phases'
    BY <1>4 DEF Call
  <1>5. ASSUME NEW i \in Step, Return(i) PROVE Phases'
    BY <1>5 DEF Return
  <1>6. ASSUME NEW i \in Step, Raise(i) PROVE Phases'
    BY <1>6 DEF Raise
  <1>7. ASSUME NEW i \in Step, Land(i) PROVE Phases'
    BY <1>7 DEF Land
  <1>8. ASSUME NEW i \in Step, ReapHalted(i) PROVE Phases'
    BY <1>8 DEF ReapHalted, RowOfFuture, RowFor, Consumable
  <1>9. ASSUME NEW i \in Step, Reap(i) PROVE Phases'
    <2>1. \A j \in Step : j # i => results'[j] = results[j]
      BY <1>9 DEF Reap, RowOfFuture
    <2>2. results'[i] # "none"
      BY <1>9 DEF Reap, RowOfFuture, RowFor, Consumable
    <2>3. \A j \in todo' : j # i /\ j \in plan \ active /\ ~Committed(j)
      BY <1>9, GatedClosed DEF Reap, Consumable
    <2> QED
      BY <1>9, <2>1, <2>2, <2>3 DEF Reap
  <1>10. ASSUME NEW i \in Step, Gate(i) PROVE Phases'
    BY <1>10 DEF Gate
  <1>11. ASSUME NEW i \in Step, Expire(i) PROVE Phases'
    BY <1>11 DEF Expire
  <1>12. ASSUME NEW i \in Step, Fill(i) PROVE Phases'
    BY <1>12 DEF Fill
  <1>13. CASE Submit
    BY <1>13 DEF Submit, Ready
  <1>14. CASE LeavePool
    BY <1>14 DEF LeavePool
  <1>15. CASE Report
    BY <1>15 DEF Report
  <1>16. CASE TimedOut
    BY <1>16 DEF TimedOut
  <1>17. CASE Crash
    BY <1>17 DEF Crash, Fresh, NoRows
  <1>18. CASE Resume
    BY <1>18 DEF Resume, Remaining, Fresh, NoRows
  <1>19. CASE UNCHANGED vars
    BY <1>19 DEF vars
  <1> QED
    BY <1>1, <1>2, <1>3, <1>4, <1>5, <1>6, <1>7, <1>8, <1>9, <1>10, <1>11, <1>12,
       <1>13, <1>14, <1>15, <1>16, <1>17, <1>18, <1>19 DEF Next, Worker, Coordinator

\* What is released has a row that stays, and so have those it blocks.
LEMMA ReleasesStep == IInv /\ [Next]_vars => ReleasesHold'
  <1> SUFFICES ASSUME IInv, [Next]_vars PROVE ReleasesHold'
    OBVIOUS
  <1> USE EdgesKept DEF IInv, TypeOK, RowsOfFutures, Phases, ReleasesHold, Accounted,
      Commit, Committed, Move, lot, laneVars, Answer, Synthetic, Busy, Settled,
      Unwritten
  <1>1. ASSUME NEW i \in Step, Begin(i) PROVE ReleasesHold'
    BY <1>1 DEF Begin
  <1>2. ASSUME NEW i \in Step, NotStarted(i) PROVE ReleasesHold'
    BY <1>2 DEF NotStarted
  <1>3. ASSUME NEW i \in Step, Notify(i) PROVE ReleasesHold'
    BY <1>3 DEF Notify
  <1>4. ASSUME NEW i \in Step, Call(i) PROVE ReleasesHold'
    BY <1>4 DEF Call
  <1>5. ASSUME NEW i \in Step, Return(i) PROVE ReleasesHold'
    BY <1>5 DEF Return
  <1>6. ASSUME NEW i \in Step, Raise(i) PROVE ReleasesHold'
    BY <1>6 DEF Raise
  <1>7. ASSUME NEW i \in Step, Land(i) PROVE ReleasesHold'
    BY <1>7 DEF Land
  <1>8. ASSUME NEW i \in Step, ReapHalted(i) PROVE ReleasesHold'
    BY <1>8 DEF ReapHalted, RowOfFuture, Consumable
  <1>9. ASSUME NEW i \in Step, Reap(i) PROVE ReleasesHold'
    <2> DEFINE free == {j \in plan \ active : ~Committed(j)}
    <2>1. /\ released' = released \cup {i} \cup todo'
          /\ i \in active /\ active' = active \ {i} /\ future[i] \in Settled
          /\ phase' = "submit" /\ plan' = plan /\ bound' = bound /\ future' = future
      BY <1>9 DEF Reap, Consumable
    <2>2. ASSUME Committed(i)
          PROVE  /\ results'[i] # "none"
                 /\ results'[i] = "done" <=> RowFor(i) = "done"
                 /\ \A j \in Step : j # i => results'[j] = results[j]
      <3>1. results' = results
        BY <1>9, <2>2 DEF Reap, RowOfFuture
      <3> QED
        BY <1>9, <2>2, <3>1 DEF Reap, RowFor, Consumable
    <2>3. ASSUME ~Committed(i)
          PROVE  /\ results'[i] # "none"
                 /\ results'[i] = "done" <=> RowFor(i) = "done"
                 /\ \A j \in Step : j # i => results'[j] = results[j]
      <3>1. results' = [results EXCEPT ![i] = RowFor(i)]
        BY <1>9, <2>3 DEF Reap, RowOfFuture
      <3>2. RowFor(i) \in {"raised", "unstarted"}
        BY <1>9, <2>3 DEF Reap, RowFor, Consumable, Ended
      <3> QED
        BY <3>1, <3>2
    <2>4. /\ results'[i] # "none"
          /\ results'[i] = "done" <=> RowFor(i) = "done"
          /\ \A j \in Step : j # i => results'[j] = results[j]
      BY <2>2, <2>3
    <2>5. /\ todo' \subseteq free
          /\ results'[i] # "done" =>
                \A j \in free : (\E d \in todo' \cup {i} : Enforced(j, d)) => j \in todo'
      BY <1>9, <2>4, GatedClosed DEF Reap
    <2>6. RowFor(i) = "done" => todo' = {}
      BY <1>9 DEF Reap
    <2>7. \A j \in plan, d \in active \cup free :
             Enforced(j, d) => future[j] = "none" /\ (Committed(j) \/ j \in free)
      BY DEF SubmittedOnGround
    <2>8. ASSUME NEW d \in released, d # i
          PROVE  /\ d \notin active /\ Committed(d) /\ results'[d] = results[d]
                 /\ results[d] # "done" =>
                       \A j \in plan : Enforced(j, d) => future[j] = "none" /\ Committed(j)
      BY <1>9, <2>4, <2>8 DEF Reap
    <2>9. i \notin released
      BY <2>1
    <2>10. \A j \in plan : Committed(j) => results'[j] # "none"
      BY <2>4
    <2>11. ASSUME NEW d \in released PROVE
             /\ d \notin active' /\ future'[d] \in Settled /\ Accounted(d)'
             /\ results'[d] # "done" =>
                   \A j \in plan' : Enforced(j, d)' => future'[j] = "none" /\ Accounted(j)'
      BY <2>1, <2>4, <2>8, <2>9, <2>10, <2>11
    <2>12. \A j \in plan : Committed(j) \/ j \in todo' => Accounted(j)'
      BY <2>1, <2>10
    <2>13. /\ i \notin active' /\ future'[i] \in Settled /\ Accounted(i)'
           /\ results'[i] # "done" =>
                 \A j \in plan' : Enforced(j, i)' => future'[j] = "none" /\ Accounted(j)'
      BY <2>1, <2>4, <2>5, <2>7, <2>12
    <2>14. ASSUME NEW d \in todo' PROVE
             /\ d \notin active' /\ future'[d] \in Settled /\ Accounted(d)'
             /\ results'[d] # "done" =>
                   \A j \in plan' : Enforced(j, d)' => future'[j] = "none" /\ Accounted(j)'
      BY <2>1, <2>4, <2>5, <2>6, <2>7, <2>12, <2>14
    <2> QED
      BY <2>1, <2>11, <2>13, <2>14
  <1>10. ASSUME NEW i \in Step, Gate(i) PROVE ReleasesHold'
    BY <1>10 DEF Gate
  <1>11. ASSUME NEW i \in Step, Expire(i) PROVE ReleasesHold'
    BY <1>11 DEF Expire
  <1>12. ASSUME NEW i \in Step, Fill(i) PROVE ReleasesHold'
    BY <1>12 DEF Fill
  <1>13. CASE Submit
    BY <1>13, EnforcedWaits DEF Submit, Ready
  <1>14. CASE LeavePool
    BY <1>14 DEF LeavePool
  <1>15. CASE Report
    BY <1>15 DEF Report
  <1>16. CASE TimedOut
    BY <1>16 DEF TimedOut
  <1>17. CASE Crash
    BY <1>17 DEF Crash, Fresh, NoRows
  <1>18. CASE Resume
    BY <1>18 DEF Resume, Fresh, NoRows
  <1>19. CASE UNCHANGED vars
    BY <1>19 DEF vars
  <1> QED
    BY <1>1, <1>2, <1>3, <1>4, <1>5, <1>6, <1>7, <1>8, <1>9, <1>10, <1>11, <1>12,
       <1>13, <1>14, <1>15, <1>16, <1>17, <1>18, <1>19 DEF Next, Worker, Coordinator

\* Only _submit_ready() submits, and no row it relied on changes.
LEMMA GroundStep == IInv /\ [Next]_vars => SubmittedOnGround'
  <1> SUFFICES ASSUME IInv, [Next]_vars PROVE SubmittedOnGround'
    OBVIOUS
  <1> USE EdgesKept, WaitsKept DEF IInv, TypeOK, RowsOfFutures, Phases, ReleasesHold,
      SubmittedOnGround, Accounted, Commit, Committed, Move, lot, laneVars,
      Answer, Synthetic, Busy, Settled, Unwritten
  <1>1. ASSUME NEW i \in Step, Begin(i) PROVE SubmittedOnGround'
    BY <1>1 DEF Begin
  <1>2. ASSUME NEW i \in Step, NotStarted(i) PROVE SubmittedOnGround'
    BY <1>2 DEF NotStarted
  <1>3. ASSUME NEW i \in Step, Notify(i) PROVE SubmittedOnGround'
    BY <1>3 DEF Notify
  <1>4. ASSUME NEW i \in Step, Call(i) PROVE SubmittedOnGround'
    BY <1>4 DEF Call
  <1>5. ASSUME NEW i \in Step, Return(i) PROVE SubmittedOnGround'
    BY <1>5 DEF Return
  <1>6. ASSUME NEW i \in Step, Raise(i) PROVE SubmittedOnGround'
    BY <1>6 DEF Raise
  <1>7. ASSUME NEW i \in Step, Land(i) PROVE SubmittedOnGround'
    BY <1>7 DEF Land
  <1>8. ASSUME NEW i \in Step, ReapHalted(i) PROVE SubmittedOnGround'
    BY <1>8 DEF ReapHalted, RowOfFuture, Consumable
  <1>9. ASSUME NEW i \in Step, Reap(i) PROVE SubmittedOnGround'
    BY <1>9 DEF Reap, RowOfFuture, Consumable
  <1>10. ASSUME NEW i \in Step, Gate(i) PROVE SubmittedOnGround'
    BY <1>10 DEF Gate
  <1>11. ASSUME NEW i \in Step, Expire(i) PROVE SubmittedOnGround'
    BY <1>11 DEF Expire
  <1>12. ASSUME NEW i \in Step, Fill(i) PROVE SubmittedOnGround'
    BY <1>12 DEF Fill
  <1>13. CASE Submit
    BY <1>13, EnforcedWaits DEF Submit, Ready
  <1>14. CASE LeavePool
    BY <1>14 DEF LeavePool
  <1>15. CASE Report
    BY <1>15 DEF Report
  <1>16. CASE TimedOut
    BY <1>16 DEF TimedOut
  <1>17. CASE Crash
    BY <1>17 DEF Crash, Fresh, NoRows
  <1>18. CASE Resume
    BY <1>18 DEF Resume, Remaining, Fresh, NoRows
  <1>19. CASE UNCHANGED vars
    BY <1>19 DEF vars
  <1> QED
    BY <1>1, <1>2, <1>3, <1>4, <1>5, <1>6, <1>7, <1>8, <1>9, <1>10, <1>11, <1>12,
       <1>13, <1>14, <1>15, <1>16, <1>17, <1>18, <1>19 DEF Next, Worker, Coordinator

\* Nobody writes a row once the lane has returned.
LEMMA VerdictStep == IInv /\ [Next]_vars => VerdictHolds'
  <1> SUFFICES ASSUME IInv, [Next]_vars PROVE VerdictHolds'
    OBVIOUS
  <1> USE DEF IInv, Phases, VerdictHolds, lot, laneVars, Settled
  <1>1. ASSUME NEW i \in Step, Begin(i) PROVE VerdictHolds'
    BY <1>1 DEF Begin
  <1>2. ASSUME NEW i \in Step, NotStarted(i) PROVE VerdictHolds'
    BY <1>2 DEF NotStarted
  <1>3. ASSUME NEW i \in Step, Notify(i) PROVE VerdictHolds'
    BY <1>3 DEF Notify
  <1>4. ASSUME NEW i \in Step, Call(i) PROVE VerdictHolds'
    BY <1>4 DEF Call
  <1>5. ASSUME NEW i \in Step, Return(i) PROVE VerdictHolds'
    BY <1>5 DEF Return
  <1>6. ASSUME NEW i \in Step, Raise(i) PROVE VerdictHolds'
    BY <1>6 DEF Raise
  <1>7. ASSUME NEW i \in Step, Land(i) PROVE VerdictHolds'
    BY <1>7 DEF Land
  <1>8. ASSUME NEW i \in Step, ReapHalted(i) PROVE VerdictHolds'
    BY <1>8 DEF ReapHalted
  <1>9. ASSUME NEW i \in Step, Reap(i) PROVE VerdictHolds'
    BY <1>9 DEF Reap
  <1>10. ASSUME NEW i \in Step, Gate(i) PROVE VerdictHolds'
    BY <1>10 DEF Gate
  <1>11. ASSUME NEW i \in Step, Expire(i) PROVE VerdictHolds'
    BY <1>11 DEF Expire
  <1>12. ASSUME NEW i \in Step, Fill(i) PROVE VerdictHolds'
    BY <1>12 DEF Fill
  <1>13. CASE Submit
    BY <1>13 DEF Submit
  <1>14. CASE LeavePool
    BY <1>14 DEF LeavePool
  <1>15. CASE Report
    BY <1>15 DEF Report
  <1>16. CASE TimedOut
    BY <1>16 DEF TimedOut
  <1>17. CASE Crash
    BY <1>17 DEF Crash, Fresh
  <1>18. CASE Resume
    BY <1>18 DEF Resume, Fresh
  <1>19. CASE UNCHANGED vars
    BY <1>19 DEF vars
  <1> QED
    BY <1>1, <1>2, <1>3, <1>4, <1>5, <1>6, <1>7, <1>8, <1>9, <1>10, <1>11, <1>12,
       <1>13, <1>14, <1>15, <1>16, <1>17, <1>18, <1>19 DEF Next, Worker, Coordinator

\* No commit takes back a row that is done.
LEMMA SavedStep == IInv /\ [Next]_vars => SavedHolds'
  <1> SUFFICES ASSUME IInv, [Next]_vars PROVE SavedHolds'
    OBVIOUS
  <1> USE DEF IInv, TypeOK, RowsOfFutures, Phases, SavedHolds, Snapshot, Commit,
      Progress, Committed, Move, lot, laneVars, Ended, Answer, Synthetic, Busy,
      Settled, Unwritten
  <1>1. ASSUME NEW i \in Step, Begin(i) PROVE SavedHolds'
    BY <1>1 DEF Begin
  <1>2. ASSUME NEW i \in Step, NotStarted(i) PROVE SavedHolds'
    BY <1>2 DEF NotStarted
  <1>3. ASSUME NEW i \in Step, Notify(i) PROVE SavedHolds'
    BY <1>3 DEF Notify
  <1>4. ASSUME NEW i \in Step, Call(i) PROVE SavedHolds'
    BY <1>4 DEF Call
  <1>5. ASSUME NEW i \in Step, Return(i) PROVE SavedHolds'
    BY <1>5 DEF Return
  <1>6. ASSUME NEW i \in Step, Raise(i) PROVE SavedHolds'
    BY <1>6 DEF Raise
  <1>7. ASSUME NEW i \in Step, Land(i) PROVE SavedHolds'
    BY <1>7 DEF Land
  <1>8. ASSUME NEW i \in Step, ReapHalted(i) PROVE SavedHolds'
    BY <1>8 DEF ReapHalted, RowOfFuture, Consumable
  <1>9. ASSUME NEW i \in Step, Reap(i) PROVE SavedHolds'
    BY <1>9 DEF Reap, RowOfFuture, Consumable
  <1>10. ASSUME NEW i \in Step, Gate(i) PROVE SavedHolds'
    BY <1>10 DEF Gate
  <1>11. ASSUME NEW i \in Step, Expire(i) PROVE SavedHolds'
    BY <1>11 DEF Expire
  <1>12. ASSUME NEW i \in Step, Fill(i) PROVE SavedHolds'
    BY <1>12 DEF Fill
  <1>13. CASE Submit
    BY <1>13 DEF Submit
  <1>14. CASE LeavePool
    BY <1>14 DEF LeavePool
  <1>15. CASE Report
    BY <1>15 DEF Report
  <1>16. CASE TimedOut
    BY <1>16 DEF TimedOut
  <1>17. CASE Crash
    BY <1>17 DEF Crash, Fresh, NoRows
  <1>18. CASE Resume
    BY <1>18 DEF Resume, Remaining, Fresh, NoRows
  <1>19. CASE UNCHANGED vars
    BY <1>19 DEF vars
  <1> QED
    BY <1>1, <1>2, <1>3, <1>4, <1>5, <1>6, <1>7, <1>8, <1>9, <1>10, <1>11, <1>12,
       <1>13, <1>14, <1>15, <1>16, <1>17, <1>18, <1>19 DEF Next, Worker, Coordinator

\* Each write of the checkpoint holds what the one before it held.
LEMMA SavedGrows == IInv /\ [Next]_vars => saved \subseteq saved'
  <1> SUFFICES ASSUME IInv, [Next]_vars PROVE saved \subseteq saved'
    OBVIOUS
  <1> USE DEF IInv, TypeOK, RowsOfFutures, Phases, SavedHolds, Snapshot, Commit,
      Progress, Committed, Move, lot, laneVars, Ended, Answer, Synthetic, Busy,
      Settled, Unwritten
  <1>1. ASSUME NEW i \in Step, Begin(i) PROVE saved \subseteq saved'
    BY <1>1 DEF Begin
  <1>2. ASSUME NEW i \in Step, NotStarted(i) PROVE saved \subseteq saved'
    BY <1>2 DEF NotStarted
  <1>3. ASSUME NEW i \in Step, Notify(i) PROVE saved \subseteq saved'
    BY <1>3 DEF Notify
  <1>4. ASSUME NEW i \in Step, Call(i) PROVE saved \subseteq saved'
    BY <1>4 DEF Call
  <1>5. ASSUME NEW i \in Step, Return(i) PROVE saved \subseteq saved'
    BY <1>5 DEF Return
  <1>6. ASSUME NEW i \in Step, Raise(i) PROVE saved \subseteq saved'
    BY <1>6 DEF Raise
  <1>7. ASSUME NEW i \in Step, Land(i) PROVE saved \subseteq saved'
    BY <1>7 DEF Land
  <1>8. ASSUME NEW i \in Step, ReapHalted(i) PROVE saved \subseteq saved'
    BY <1>8 DEF ReapHalted, RowOfFuture, Consumable
  <1>9. ASSUME NEW i \in Step, Reap(i) PROVE saved \subseteq saved'
    BY <1>9 DEF Reap, RowOfFuture, Consumable
  <1>10. ASSUME NEW i \in Step, Gate(i) PROVE saved \subseteq saved'
    BY <1>10 DEF Gate
  <1>11. ASSUME NEW i \in Step, Expire(i) PROVE saved \subseteq saved'
    BY <1>11 DEF Expire
  <1>12. ASSUME NEW i \in Step, Fill(i) PROVE saved \subseteq saved'
    BY <1>12 DEF Fill
  <1>13. CASE Submit
    BY <1>13 DEF Submit
  <1>14. CASE LeavePool
    BY <1>14 DEF LeavePool
  <1>15. CASE Report
    BY <1>15 DEF Report
  <1>16. CASE TimedOut
    BY <1>16 DEF TimedOut
  <1>17. CASE Crash
    BY <1>17 DEF Crash
  <1>18. CASE Resume
    BY <1>18 DEF Resume
  <1>19. CASE UNCHANGED vars
    BY <1>19 DEF vars
  <1> QED
    BY <1>1, <1>2, <1>3, <1>4, <1>5, <1>6, <1>7, <1>8, <1>9, <1>10, <1>11, <1>12,
       <1>13, <1>14, <1>15, <1>16, <1>17, <1>18, <1>19 DEF Next, Worker, Coordinator


\* A set of steps is finite.
LEMMA Finite ==
    ASSUME NEW S, S \subseteq Step
    PROVE  IsFiniteSet(S) /\ Cardinality(S) \in Nat
  <1>1. IsFiniteSet(Step)
    BY FS_Interval, SizeAssumption DEF Step
  <1> QED
    BY <1>1, FS_Subset, FS_CardinalityType

\* An action by which nobody enters the pool, and nobody new comes to the adapter.
LEMMA HaltKept ==
    ASSUME TypeOK, TypeOK', HaltHolds,
           InPool' \subseteq InPool, halt' => halt, ~halt' => late' = {},
           late' \cup Entered' \subseteq late \cup Entered
    PROVE  HaltHolds'
  <1>1. /\ IsFiniteSet(InPool) /\ Cardinality(InPool) \in Nat
        /\ Cardinality(InPool') \in Nat /\ Cardinality(InPool') <= Cardinality(InPool)
    BY Finite, FS_Subset DEF InPool
  <1>2. late \cup Entered \subseteq Step
    BY DEF TypeOK, Entered
  <1>3. /\ IsFiniteSet(late \cup Entered) /\ Cardinality(late \cup Entered) \in Nat
        /\ Cardinality(late' \cup Entered') \in Nat
        /\ Cardinality(late' \cup Entered') <= Cardinality(late \cup Entered)
    BY <1>2, Finite, FS_Subset
  <1> QED
    BY <1>1, <1>3, SizeAssumption DEF HaltHolds

\* The pool is never larger than its size, and nothing begins after the halt.
LEMMA HaltStep == IInv /\ [Next]_vars => HaltHolds'
  <1> SUFFICES ASSUME IInv, [Next]_vars PROVE HaltHolds'
    OBVIOUS
  <1> USE DEF IInv, TypeOK, HaltHolds
  <1>1. ASSUME NEW i \in Step, Begin(i) PROVE HaltHolds'
    <2>1. InPool' = InPool \cup {i} /\ i \notin InPool
      BY <1>1 DEF Begin, Move, InPool, Busy
    <2>2. Cardinality(InPool) < Workers
      BY <1>1 DEF Begin, Free, InPool
    <2>3. IsFiniteSet(InPool) /\ Cardinality(InPool) \in Nat
      BY Finite DEF InPool
    <2>4. Cardinality(InPool') = Cardinality(InPool) + 1
      BY <2>1, <2>3, FS_AddElement
    <2> QED
      BY <1>1, <2>2, <2>3, <2>4, SizeAssumption DEF Begin
  <1>2. ASSUME NEW i \in Step, NotStarted(i) PROVE HaltHolds'
    BY <1>2, HaltKept, TypeStep DEF NotStarted, InPool, Entered, Busy, Move, lot, laneVars
  <1>3. ASSUME NEW i \in Step, Notify(i) PROVE HaltHolds'
    BY <1>3, HaltKept, TypeStep DEF Notify, InPool, Entered, Busy, Move, lot, laneVars
  <1>4. ASSUME NEW i \in Step, Call(i) PROVE HaltHolds'
    BY <1>4, HaltKept, TypeStep DEF Call, InPool, Entered, Busy, Move, lot, laneVars
  <1>5. ASSUME NEW i \in Step, Return(i) PROVE HaltHolds'
    <2>1. InPool' = InPool /\ i \in InPool /\ Entered' = Entered
      BY <1>5 DEF Return, Move, InPool, Entered, Busy
    <2>2. late' = late
      BY <1>5 DEF Return
    <2>3. CASE halt
      BY <1>5, <2>1, <2>2, <2>3 DEF Return
    <2>4. CASE ~halt
      <3>1. late \cup Entered \subseteq InPool \ {i}
        BY <1>5, <2>4 DEF Return, Entered, InPool, Busy
      <3>2. /\ IsFiniteSet(InPool \ {i}) /\ Cardinality(InPool) \in Nat
            /\ Cardinality(InPool \ {i}) = Cardinality(InPool) - 1
        BY <2>1, Finite, FS_RemoveElement DEF InPool
      <3>3. /\ Cardinality(late \cup Entered) \in Nat
            /\ Cardinality(late \cup Entered) <= Cardinality(InPool \ {i})
        BY <3>1, <3>2, FS_Subset, FS_CardinalityType
      <3> QED
        BY <2>1, <2>2, <2>4, <3>2, <3>3, SizeAssumption
    <2> QED
      BY <2>3, <2>4
  <1>6. ASSUME NEW i \in Step, Raise(i) PROVE HaltHolds'
    BY <1>6, HaltKept, TypeStep DEF Raise, InPool, Entered, Busy, Move, lot, laneVars
  <1>7. ASSUME NEW i \in Step, Land(i) PROVE HaltHolds'
    BY <1>7, HaltKept, TypeStep DEF Land, InPool, Entered, Busy, Move, lot, laneVars
  <1>8. ASSUME NEW i \in Step, ReapHalted(i) PROVE HaltHolds'
    BY <1>8, HaltKept, TypeStep DEF ReapHalted, InPool, Entered, Busy, Move, lot, laneVars
  <1>9. ASSUME NEW i \in Step, Reap(i) PROVE HaltHolds'
    BY <1>9, HaltKept, TypeStep DEF Reap, InPool, Entered, Busy, Move, lot, laneVars
  <1>10. ASSUME NEW i \in Step, Gate(i) PROVE HaltHolds'
    BY <1>10, HaltKept, TypeStep DEF Gate, InPool, Entered, Busy, Move, lot, laneVars
  <1>11. ASSUME NEW i \in Step, Expire(i) PROVE HaltHolds'
    BY <1>11, HaltKept, TypeStep DEF Expire, InPool, Entered, Busy, Move, lot, laneVars
  <1>12. ASSUME NEW i \in Step, Fill(i) PROVE HaltHolds'
    BY <1>12, HaltKept, TypeStep DEF Fill, InPool, Entered, Busy, Move, lot, laneVars
  <1>13. CASE Submit
    BY <1>13, HaltKept, TypeStep DEF Submit, Ready, Phases, Committed, InPool, Entered, Busy
  <1>14. CASE LeavePool
    BY <1>14, HaltKept, TypeStep DEF LeavePool, InPool, Entered, Busy, Move, lot, laneVars
  <1>15. CASE Report
    BY <1>15, HaltKept, TypeStep DEF Report, InPool, Entered, Busy, Move, lot, laneVars
  <1>16. CASE TimedOut
    BY <1>16, HaltKept, TypeStep DEF TimedOut, InPool, Entered, Busy, Move, lot, laneVars
  <1>17. CASE Crash
    BY <1>17, HaltKept, TypeStep DEF Crash, Fresh, NoRows, InPool, Entered, Busy
  <1>18. CASE Resume
    BY <1>18, HaltKept, TypeStep DEF Resume, Fresh, NoRows, InPool, Entered, Busy
  <1>19. CASE UNCHANGED vars
    BY <1>19 DEF vars, InPool, Entered, Busy
  <1> QED
    BY <1>1, <1>2, <1>3, <1>4, <1>5, <1>6, <1>7, <1>8, <1>9, <1>10, <1>11, <1>12,
       <1>13, <1>14, <1>15, <1>16, <1>17, <1>18, <1>19 DEF Next, Worker, Coordinator

-----------------------------------------------------------------------------
(* The theorems.                                                           *)

\* The invariant holds in every state of the lane (_run_steps_dag and its resumes).
THEOREM Invariance == Spec => []IInv
  <1>1. IInv /\ [Next]_vars => IInv'
    BY TypeStep, RowsStep, PhasesStep, ReleasesStep, GroundStep, VerdictStep,
       HaltStep, SavedStep DEF IInv
  <1> QED
    BY <1>1, InitHolds, PTL DEF Spec

\* Every state is of its type.
THEOREM TypeCorrect == Spec => []TypeOK
  <1>1. IInv => TypeOK
    BY DEF IInv
  <1> QED
    BY <1>1, Invariance, PTL

\* No step is submitted before what it waits for has a row, and, in a life whose
\* numbers are bound, is done where an enforced edge says so (_submit_ready,
\* _gate_dependents).
THEOREM PrerequisitesHold == Spec => []PrerequisitesFirst
  <1>1. IInv => PrerequisitesFirst
    BY DEF IInv, SubmittedOnGround, PrerequisitesFirst
  <1> QED
    BY <1>1, Invariance, PTL

\* What the lane returns is what its steps came to (_run_steps_dag, _run_parallel_path).
THEOREM ReportHolds == Spec => []ReportIsTrue
  <1>1. ASSUME IInv, phase = "returned" PROVE ReportIsTrue
    <2>1. \A i \in plan :
             /\ Committed(i)
             /\ answer[i] \in Answer \cup {"none"}
             /\ future[i] \in Settled
      BY <1>1 DEF IInv, TypeOK, Phases
    <2>2. \A i \in plan :
             \/ answer[i] \in Ended /\ results[i] = answer[i]
             \/ answer[i] \in {"none", "raised"} /\ results[i] \in Synthetic \cup {"raised"}
      BY <1>1, <2>1 DEF IInv, TypeOK, RowsOfFutures, Settled, Ended, Unwritten, Committed
    <2> QED
      BY <1>1, <2>1, <2>2 DEF IInv, VerdictHolds, ReportIsTrue, Ended, Synthetic
  <1>2. IInv => ReportIsTrue
    BY <1>1 DEF ReportIsTrue
  <1> QED
    BY <1>2, Invariance, PTL

\* After a refusal fewer steps than there are threads still reach the adapter
\* (_publish_halt, _run_one).
THEOREM PauseIsHeld == Spec => []PauseHolds
  <1>1. ASSUME IInv PROVE PauseHolds
    <2>1. late \cup Entered \subseteq Step
      BY <1>1 DEF IInv, TypeOK, Entered
    <2>2. /\ Cardinality(late) \in Nat /\ Cardinality(late \cup Entered) \in Nat
          /\ Cardinality(late) <= Cardinality(late \cup Entered)
      BY <2>1, Finite, FS_Subset
    <2>3. CASE halt
      BY <1>1, <2>2, <2>3, SizeAssumption DEF IInv, HaltHolds, PauseHolds
    <2>4. CASE ~halt
      BY <1>1, <2>4, FS_EmptySet, SizeAssumption DEF IInv, HaltHolds, PauseHolds
    <2> QED
      BY <2>3, <2>4
  <1> QED
    BY <1>1, Invariance, PTL

\* What the checkpoint calls done stays done in it and is not executed again
\* (_commit, _write_progress, and the resume that reads it back).
THEOREM SavedStays == Spec => CheckpointAdvances
  <1>1. ASSUME IInv, NEW i \in saved PROVE ~Executes(i)
    <2>1. i \in Step
      BY <1>1 DEF IInv, TypeOK
    <2>2. CASE i \notin plan
      BY <1>1, <2>1, <2>2 DEF IInv, RowsOfFutures, Executes
    <2>3. CASE phase = "dead"
      BY <1>1, <2>1, <2>3 DEF IInv, Phases, Settled, Executes
    <2>4. CASE i \in plan /\ phase # "dead"
      BY <1>1, <2>1, <2>4 DEF IInv, SavedHolds, Snapshot, RowsOfFutures, Unwritten, Synthetic, Executes
    <2> QED
      BY <2>2, <2>3, <2>4
  <1>2. IInv /\ [Next]_vars => [saved \subseteq saved' /\ \A i \in saved : ~Executes(i)]_vars
    BY <1>1, SavedGrows
  <1> QED
    BY <1>2, Invariance, PTL DEF Spec, CheckpointAdvances

=============================================================================
