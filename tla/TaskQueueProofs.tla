-------------------------- MODULE TaskQueueProofs --------------------------
(***************************************************************************)
(* TaskQueue's safety for any number of jobs and processes.                *)
(***************************************************************************)
EXTENDS TaskQueue, TLAPS

\* The queue starts empty, with every process idle.
LEMMA InitTypeOK == Init => TypeOK
  BY ProcessAssumption DEF Init, StoreInit, TypeOK, StoreTypeOK, Status

\* No operation of the store or of a process leaves the types.
LEMMA TypeStep == TypeOK /\ [Next]_vars => TypeOK'
<1> SUFFICES ASSUME TypeOK, [Next]_vars PROVE TypeOK'
  OBVIOUS
<1> USE ProcessAssumption, JobAssumption DEF TypeOK, StoreTypeOK, Status, Worker, Runner, Drainer
<1>1. ASSUME NEW j \in Job, NEW deps \in SUBSET (Job \cup Missing), Enqueue(j, deps)
      PROVE  TypeOK'
  BY <1>1 DEF Enqueue, EnqueueTask, procVars
<1>2. ASSUME NEW j \in Job, Archive(j)
      PROVE  TypeOK'
  BY <1>2 DEF Archive, ArchiveTask, procVars, history
<1>3. ASSUME NEW j \in Job, Recover(j)
      PROVE  TypeOK'
  BY <1>3 DEF Recover, RecoverTask, procVars, history
<1>4. ASSUME NEW p \in Worker, DrainTick(p)
      PROVE  TypeOK'
  BY <1>4 DEF DrainTick, storeVars, history, FirstOf, Listed
<1>5. ASSUME NEW p \in Worker, NEW ids \in SUBSET Job, DrainOwn(p, ids)
      PROVE  TypeOK'
  BY <1>5 DEF DrainOwn, storeVars, history, FirstOf, Listed
<1>6. ASSUME NEW p \in Worker, NEW j \in Job, Spawn(p, j)
      PROVE  TypeOK'
  BY <1>6 DEF Spawn, storeVars, history
<1>7. ASSUME NEW p \in Worker, NEW j \in Job, Claim(p, j)
      PROVE  TypeOK'
  BY <1>7 DEF Claim, ClaimTask, history
<1>8. ASSUME NEW p \in Worker, NEW j \in Job,
             ClaimRefusedDrain(p, j) \/ ClaimRefusedDispatch(p, j)
      PROVE  TypeOK'
  <2>1. CASE ClaimRefusedDrain(p, j)
    BY <2>1 DEF ClaimRefusedDrain, Proceed, storeVars, history
  <2>2. CASE ClaimRefusedDispatch(p, j)
    BY <2>2 DEF ClaimRefusedDispatch, storeVars, history
  <2>3. QED
    BY <1>8, <2>1, <2>2
<1>9. ASSUME NEW p \in Worker, HandleReturns(p)
      PROVE  TypeOK'
  BY <1>9 DEF HandleReturns, storeVars, history
<1>10. ASSUME NEW p \in Worker, Complete(p)
       PROVE  TypeOK'
  BY <1>10 DEF Complete, CompleteTask, Completable
<1>11. ASSUME NEW p \in Worker, CompleteRefused(p)
       PROVE  TypeOK'
  BY <1>11 DEF CompleteRefused, Proceed, storeVars, history
<1>12. ASSUME NEW p \in Worker, NEW d \in Job, Resolve(p, d)
       PROVE  TypeOK'
  BY <1>12 DEF Resolve, ResolveTask, history
<1>13. ASSUME NEW p \in Worker, Resolved(p)
       PROVE  TypeOK'
  BY <1>13 DEF Resolved, Proceed, storeVars, history
<1>14. ASSUME NEW p \in Worker, Fail(p)
       PROVE  TypeOK'
  BY <1>14 DEF Fail, FailTask, Proceed, storeVars, history
<1>15. ASSUME NEW p \in Worker, Crash(p)
       PROVE  TypeOK'
  BY <1>15 DEF Crash, storeVars, history
<1>16. ASSUME NEW p \in Worker, Scan(p)
       PROVE  TypeOK'
  BY <1>16 DEF Scan, Dependents, Present, storeVars, history
<1>17. ASSUME NEW p \in Worker, NEW j \in Job, HandComplete(p, j)
      PROVE  TypeOK'
  BY <1>17 DEF HandComplete, CompleteTask, Completable
<1>18. ASSUME NEW p \in Worker, NEW j \in Job, HandFail(p, j)
      PROVE  TypeOK'
  BY <1>18 DEF HandFail, FailTask, Failable
<1>19. ASSUME NEW p \in Worker, NEW j \in Job, HandClaim(p, j)
      PROVE  TypeOK'
  BY <1>19 DEF HandClaim, ClaimTask, Claimable, Stale, DepDone, history
<1>20. ASSUME NEW p \in Worker, Exit(p)
      PROVE  TypeOK'
  BY <1>20 DEF Exit, Proceed, storeVars, history
<1>21. CASE UNCHANGED vars
  BY <1>21 DEF vars, storeVars, procVars, history
<1>22. QED
  BY <1>1, <1>2, <1>3, <1>4, <1>5, <1>6, <1>7, <1>8, <1>9, <1>10, <1>11,
     <1>12, <1>13, <1>14, <1>15, <1>16, <1>17, <1>18, <1>19, <1>20, <1>21 DEF Next, Step

\* No step takes the record from a running task in a way that lets a second
\* process claim it.
LEMMA RunStep ==
  Inductive /\ TypeOK' /\ [Next]_vars => (RunIsRecorded /\ NoDoubleRun)'
<1> SUFFICES ASSUME Inductive, TypeOK', [Next]_vars PROVE (RunIsRecorded /\ NoDoubleRun)'
  OBVIOUS
<1> USE ProcessAssumption, JobAssumption DEF Inductive, TypeOK, StoreTypeOK, Status, Worker, Runner, Drainer, RunIsRecorded, NoDoubleRun, Running
<1>1. ASSUME NEW j \in Job, NEW deps \in SUBSET (Job \cup Missing), Enqueue(j, deps)
      PROVE  (RunIsRecorded /\ NoDoubleRun)'
  BY <1>1 DEF Enqueue, EnqueueTask, Minted, Present, procVars
<1>2. ASSUME NEW j \in Job, Archive(j)
      PROVE  (RunIsRecorded /\ NoDoubleRun)'
  BY <1>2 DEF Archive, ArchiveTask, procVars, history, Present
<1>3. ASSUME NEW j \in Job, Recover(j)
      PROVE  (RunIsRecorded /\ NoDoubleRun)'
  BY <1>3 DEF Recover, RecoverTask, Stale, procVars, history, Present
<1>4. ASSUME NEW p \in Worker, DrainTick(p)
      PROVE  (RunIsRecorded /\ NoDoubleRun)'
  BY <1>4 DEF DrainTick, storeVars, history, Present
<1>5. ASSUME NEW p \in Worker, NEW ids \in SUBSET Job, DrainOwn(p, ids)
      PROVE  (RunIsRecorded /\ NoDoubleRun)'
  BY <1>5 DEF DrainOwn, storeVars, history, Present
<1>6. ASSUME NEW p \in Worker, NEW j \in Job, Spawn(p, j)
      PROVE  (RunIsRecorded /\ NoDoubleRun)'
  BY <1>6 DEF Spawn, storeVars, history, Present
<1>7. ASSUME NEW p \in Worker, NEW j \in Job, Claim(p, j)
      PROVE  (RunIsRecorded /\ NoDoubleRun)'
  BY <1>7 DEF Claim, ClaimTask, Claimable, Stale, DepDone, history, Present
<1>8. ASSUME NEW p \in Worker, NEW j \in Job, ClaimRefusedDrain(p, j)
      PROVE  (RunIsRecorded /\ NoDoubleRun)'
  BY <1>8 DEF ClaimRefusedDrain, Proceed, storeVars, history, Present
<1>9. ASSUME NEW p \in Worker, NEW j \in Job, ClaimRefusedDispatch(p, j)
      PROVE  (RunIsRecorded /\ NoDoubleRun)'
  BY <1>9 DEF ClaimRefusedDispatch, storeVars, history, Present
<1>10. ASSUME NEW p \in Worker, HandleReturns(p)
      PROVE  (RunIsRecorded /\ NoDoubleRun)'
  BY <1>10 DEF HandleReturns, storeVars, history, Present
<1>11. ASSUME NEW p \in Worker, Complete(p)
      PROVE  (RunIsRecorded /\ NoDoubleRun)'
  BY <1>11 DEF Complete, CompleteTask, Completable, Present
<1>12. ASSUME NEW p \in Worker, CompleteRefused(p)
      PROVE  (RunIsRecorded /\ NoDoubleRun)'
  BY <1>12 DEF CompleteRefused, Proceed, storeVars, history, Present
<1>13. ASSUME NEW p \in Worker, NEW d \in Job, Resolve(p, d)
      PROVE  (RunIsRecorded /\ NoDoubleRun)'
  BY <1>13 DEF Resolve, ResolveTask, history, Present
<1>14. ASSUME NEW p \in Worker, Resolved(p)
      PROVE  (RunIsRecorded /\ NoDoubleRun)'
  BY <1>14 DEF Resolved, Proceed, storeVars, history, Present
<1>15. ASSUME NEW p \in Worker, Fail(p)
      PROVE  (RunIsRecorded /\ NoDoubleRun)'
  BY <1>15 DEF Fail, FailTask, Failable, Proceed, storeVars, history, Present
<1>16. ASSUME NEW p \in Worker, Crash(p)
      PROVE  (RunIsRecorded /\ NoDoubleRun)'
  BY <1>16 DEF Crash, storeVars, history, Present
<1>17. ASSUME NEW p \in Worker, Scan(p)
      PROVE  (RunIsRecorded /\ NoDoubleRun)'
  BY <1>17 DEF Scan, storeVars, history, Present
<1>18. ASSUME NEW p \in Worker, NEW j \in Job, HandComplete(p, j)
      PROVE  (RunIsRecorded /\ NoDoubleRun)'
  BY <1>18 DEF HandComplete, CompleteTask, Completable, Present
<1>19. ASSUME NEW p \in Worker, NEW j \in Job, HandFail(p, j)
      PROVE  (RunIsRecorded /\ NoDoubleRun)'
  BY <1>19 DEF HandFail, FailTask, Failable, Present
<1>20. ASSUME NEW p \in Worker, NEW j \in Job, HandClaim(p, j)
      PROVE  (RunIsRecorded /\ NoDoubleRun)'
  BY <1>20 DEF HandClaim, ClaimTask, Claimable, Stale, DepDone, Present, history
<1>21. ASSUME NEW p \in Worker, Exit(p)
      PROVE  (RunIsRecorded /\ NoDoubleRun)'
  BY <1>21 DEF Exit, Proceed, storeVars, Present, history
<1>22. CASE UNCHANGED vars
  BY <1>22 DEF vars, storeVars, procVars, history, Present
<1>23. QED
  BY <1>1, <1>2, <1>3, <1>4, <1>5, <1>6, <1>7, <1>8, <1>9, <1>10, <1>11, <1>12,
     <1>13, <1>14, <1>15, <1>16, <1>17, <1>18, <1>19, <1>20, <1>21, <1>22 DEF Next, Step

\* No step marks done, resolves or claims against the history of completions.
LEMMA HistoryStep ==
  Inductive /\ TypeOK' /\ [Next]_vars => (DoneWasFinished /\ DependenciesFirst)'
<1> SUFFICES ASSUME Inductive, TypeOK', [Next]_vars PROVE (DoneWasFinished /\ DependenciesFirst)'
  OBVIOUS
<1> USE ProcessAssumption, JobAssumption DEF Inductive, TypeOK, StoreTypeOK, Status, Worker, Runner, Drainer, RunIsRecorded, DoneWasFinished, DependenciesFirst, Running
<1>1. ASSUME NEW j \in Job, NEW deps \in SUBSET (Job \cup Missing), Enqueue(j, deps)
      PROVE  (DoneWasFinished /\ DependenciesFirst)'
  BY <1>1 DEF Enqueue, EnqueueTask, Minted, Present, procVars
<1>2. ASSUME NEW j \in Job, Archive(j)
      PROVE  (DoneWasFinished /\ DependenciesFirst)'
  BY <1>2 DEF Archive, ArchiveTask, procVars, history, Present
<1>3. ASSUME NEW j \in Job, Recover(j)
      PROVE  (DoneWasFinished /\ DependenciesFirst)'
  BY <1>3 DEF Recover, RecoverTask, Stale, procVars, history, Present
<1>4. ASSUME NEW p \in Worker, DrainTick(p)
      PROVE  (DoneWasFinished /\ DependenciesFirst)'
  BY <1>4 DEF DrainTick, storeVars, history, Present
<1>5. ASSUME NEW p \in Worker, NEW ids \in SUBSET Job, DrainOwn(p, ids)
      PROVE  (DoneWasFinished /\ DependenciesFirst)'
  BY <1>5 DEF DrainOwn, storeVars, history, Present
<1>6. ASSUME NEW p \in Worker, NEW j \in Job, Spawn(p, j)
      PROVE  (DoneWasFinished /\ DependenciesFirst)'
  BY <1>6 DEF Spawn, storeVars, history, Present
<1>7. ASSUME NEW p \in Worker, NEW j \in Job, Claim(p, j)
      PROVE  (DoneWasFinished /\ DependenciesFirst)'
  <2>1. j \in Present /\ blockedBy[j] \subseteq finished
    BY <1>7 DEF Claim, Claimable, Stale, DepDone, Present
  <2>2. wanted[j] \subseteq finished
    BY <2>1
  <2>3. DependenciesFirst'
    BY <1>7, <2>2 DEF Claim, ClaimTask, history
  <2>4. DoneWasFinished'
    <3>1. Present' = Present
      BY <1>7, <2>1 DEF Claim, ClaimTask, Present
    <3>2. QED
      BY <1>7, <3>1 DEF Claim, ClaimTask, history
  <2>5. QED
    BY <2>3, <2>4
<1>8. ASSUME NEW p \in Worker, NEW j \in Job, ClaimRefusedDrain(p, j)
      PROVE  (DoneWasFinished /\ DependenciesFirst)'
  BY <1>8 DEF ClaimRefusedDrain, Proceed, storeVars, history, Present
<1>9. ASSUME NEW p \in Worker, NEW j \in Job, ClaimRefusedDispatch(p, j)
      PROVE  (DoneWasFinished /\ DependenciesFirst)'
  BY <1>9 DEF ClaimRefusedDispatch, storeVars, history, Present
<1>10. ASSUME NEW p \in Worker, HandleReturns(p)
      PROVE  (DoneWasFinished /\ DependenciesFirst)'
  BY <1>10 DEF HandleReturns, storeVars, history, Present
<1>11. ASSUME NEW p \in Worker, Complete(p)
      PROVE  (DoneWasFinished /\ DependenciesFirst)'
  BY <1>11 DEF Complete, CompleteTask, Completable, Present
<1>12. ASSUME NEW p \in Worker, CompleteRefused(p)
      PROVE  (DoneWasFinished /\ DependenciesFirst)'
  BY <1>12 DEF CompleteRefused, Proceed, storeVars, history, Present
<1>13. ASSUME NEW p \in Worker, NEW d \in Job, Resolve(p, d)
      PROVE  (DoneWasFinished /\ DependenciesFirst)'
  <2>1. job[p] \in Job /\ job[p] \in finished
    <3>1. p \in live /\ pc[p] = "resolve" /\ job[p] # NoJob
      BY <1>13 DEF Resolve
    <3>2. job[p] \in Job
      BY <3>1
    <3>3. QED
      BY <3>1, <3>2
  <2>2. \A k \in Job : blockedBy[k] \ blockedBy'[k] \subseteq finished
    BY <1>13, <2>1 DEF Resolve, ResolveTask
  <2>3. \A k \in Present : wanted[k] \ blockedBy'[k] \subseteq finished
    BY <2>2 DEF Present
  <2>4. Present' = Present
    BY <1>13 DEF Resolve, ResolveTask, Present
  <2>5. QED
    BY <1>13, <2>3, <2>4 DEF Resolve, ResolveTask, history
<1>14. ASSUME NEW p \in Worker, Resolved(p)
      PROVE  (DoneWasFinished /\ DependenciesFirst)'
  BY <1>14 DEF Resolved, Proceed, storeVars, history, Present
<1>15. ASSUME NEW p \in Worker, Fail(p)
      PROVE  (DoneWasFinished /\ DependenciesFirst)'
  BY <1>15 DEF Fail, FailTask, Failable, Proceed, storeVars, history, Present
<1>16. ASSUME NEW p \in Worker, Crash(p)
      PROVE  (DoneWasFinished /\ DependenciesFirst)'
  BY <1>16 DEF Crash, storeVars, history, Present
<1>17. ASSUME NEW p \in Worker, Scan(p)
      PROVE  (DoneWasFinished /\ DependenciesFirst)'
  BY <1>17 DEF Scan, storeVars, history, Present
<1>18. ASSUME NEW p \in Worker, NEW j \in Job, HandComplete(p, j)
      PROVE  (DoneWasFinished /\ DependenciesFirst)'
  BY <1>18 DEF HandComplete, CompleteTask, Completable, Present
<1>19. ASSUME NEW p \in Worker, NEW j \in Job, HandFail(p, j)
      PROVE  (DoneWasFinished /\ DependenciesFirst)'
  BY <1>19 DEF HandFail, FailTask, Failable, Present
<1>20. ASSUME NEW p \in Worker, NEW j \in Job, HandClaim(p, j)
      PROVE  (DoneWasFinished /\ DependenciesFirst)'
  BY <1>20 DEF HandClaim, ClaimTask, Claimable, Stale, DepDone, Present, history
<1>21. ASSUME NEW p \in Worker, Exit(p)
      PROVE  (DoneWasFinished /\ DependenciesFirst)'
  BY <1>21 DEF Exit, Proceed, storeVars, Present, history
<1>22. CASE UNCHANGED vars
  BY <1>22 DEF vars, storeVars, procVars, history, Present
<1>23. QED
  BY <1>1, <1>2, <1>3, <1>4, <1>5, <1>6, <1>7, <1>8, <1>9, <1>10, <1>11, <1>12,
     <1>13, <1>14, <1>15, <1>16, <1>17, <1>18, <1>19, <1>20, <1>21, <1>22 DEF Next, Step

\* The invariant holds when the queue is created.
LEMMA InitInductive == Init => Inductive
<1> SUFFICES ASSUME Init PROVE Inductive
  OBVIOUS
<1>1. TypeOK
  BY InitTypeOK
<1>2. QED
  BY <1>1 DEF Init, StoreInit, Inductive, RunIsRecorded, NoDoubleRun,
              DoneWasFinished, DependenciesFirst, Running, Present

\* Every step of the queue preserves it.
LEMMA InductiveStep == Inductive /\ [Next]_vars => Inductive'
  BY TypeStep, RunStep, HistoryStep DEF Inductive

\* The type, run-record and history invariant holds in every reachable state.
THEOREM InductiveInvariant == Spec => []Inductive
  BY InitInductive, InductiveStep, PTL DEF Spec

\* TaskStore files and process states keep their types for ever.
THEOREM TypeCorrect == Spec => []TypeOK
<1>1. Inductive => TypeOK
  BY DEF Inductive
<1>2. QED
  BY <1>1, InductiveInvariant, PTL

\* claim(), recover_stale_claims(), fail() and crashes never let two live
\* processes execute one task, for any number of tasks and processes.
THEOREM NeverRunTwice == Spec => []NoDoubleRun
<1>1. Inductive => NoDoubleRun
  BY DEF Inductive
<1>2. QED
  BY <1>1, InductiveInvariant, PTL

\* No task runs before every task it was enqueued behind was completed.
THEOREM DependenciesRunFirst == Spec => []DependenciesFirst
<1>1. Inductive => DependenciesFirst
  BY DEF Inductive
<1>2. QED
  BY <1>1, InductiveInvariant, PTL
-----------------------------------------------------------------------------
(* What only its runner may end.                                           *)

\* A dispatch worker only ever touches the job it was spawned for (or, as a
\* shell, commanded); and the record of a job nobody was spawned for and no
\* command ended is claimed by whoever runs it or is about to end it.  No rogue
\* fail() can meet such a job.
Ownership ==
    /\ \A p \in live \cap Dispatcher : batch[p] \subseteq spawned /\ job[p] \in spawned \cup commanded \cup {NoJob}
    /\ \A p \in live, j \in Drained :
         pc[p] \in {"run", "complete", "fail"} /\ job[p] = j
            => status[j] = "claimed" /\ owner[j] = p

\* No step of anybody else changes the record while it is claimed by a live process.
LEMMA OwnershipStep == TypeOK /\ Ownership /\ [Next]_vars => Ownership'
<1> SUFFICES ASSUME TypeOK, Ownership, [Next]_vars PROVE Ownership'
  OBVIOUS
<1> USE ProcessAssumption, JobAssumption, PidAssumption
    DEF TypeOK, StoreTypeOK, Status, Worker, Runner, Drainer, Ownership, Drained, history
<1>1. ASSUME NEW j \in Job, NEW deps, Enqueue(j, deps) PROVE Ownership'
  BY <1>1 DEF Enqueue, EnqueueTask, Minted, Present, procVars
<1>2. ASSUME NEW j \in Job, Archive(j) PROVE Ownership'
  BY <1>2 DEF Archive, ArchiveTask, procVars
<1>3. ASSUME NEW j \in Job, Recover(j) PROVE Ownership'
  BY <1>3 DEF Recover, RecoverTask, Stale, procVars
<1>4. ASSUME NEW p \in Worker, DrainTick(p) PROVE Ownership'
  BY <1>4 DEF DrainTick, storeVars
<1>5. ASSUME NEW p \in Worker, NEW ids, DrainOwn(p, ids) PROVE Ownership'
  BY <1>5 DEF DrainOwn, storeVars
<1>6. ASSUME NEW p \in Worker, NEW j \in Job, Spawn(p, j) PROVE Ownership'
  BY <1>6 DEF Spawn, storeVars
<1>7. ASSUME NEW p \in Worker, NEW j \in Job, Claim(p, j) PROVE Ownership'
  BY <1>7 DEF Claim, ClaimTask, Claimable, Stale, IsNext
<1>8. ASSUME NEW p \in Worker, NEW j \in Job, ClaimRefusedDrain(p, j) PROVE Ownership'
  BY <1>8 DEF ClaimRefusedDrain, Proceed, storeVars
<1>9. ASSUME NEW p \in Worker, NEW j \in Job, ClaimRefusedDispatch(p, j) PROVE Ownership'
  BY <1>9 DEF ClaimRefusedDispatch, IsNext, storeVars
<1>10. ASSUME NEW p \in Worker, HandleReturns(p) PROVE Ownership'
  BY <1>10 DEF HandleReturns, storeVars
<1>11. ASSUME NEW p \in Worker, Complete(p) PROVE Ownership'
  BY <1>11 DEF Complete, CompleteTask
<1>12. ASSUME NEW p \in Worker, CompleteRefused(p) PROVE Ownership'
  BY <1>12 DEF CompleteRefused, Proceed, storeVars
<1>13. ASSUME NEW p \in Worker, Scan(p) PROVE Ownership'
  BY <1>13 DEF Scan, storeVars
<1>14. ASSUME NEW p \in Worker, NEW d \in Job, Resolve(p, d) PROVE Ownership'
  BY <1>14 DEF Resolve, ResolveTask
<1>15. ASSUME NEW p \in Worker, Resolved(p) PROVE Ownership'
  BY <1>15 DEF Resolved, Proceed, storeVars
<1>16. ASSUME NEW p \in Worker, Fail(p) PROVE Ownership'
  BY <1>16 DEF Fail, FailTask, Proceed, storeVars
<1>17. ASSUME NEW p \in Worker, Crash(p) PROVE Ownership'
  BY <1>17 DEF Crash, storeVars
<1>18. ASSUME NEW p \in Worker, NEW j \in Job, HandComplete(p, j)
      PROVE  Ownership'
  BY <1>18 DEF HandComplete, CompleteTask, Completable
<1>19. ASSUME NEW p \in Worker, NEW j \in Job, HandFail(p, j)
      PROVE  Ownership'
  BY <1>19 DEF HandFail, FailTask, Failable
<1>20. ASSUME NEW p \in Worker, NEW j \in Job, HandClaim(p, j)
      PROVE  Ownership'
  BY <1>20 DEF HandClaim, ClaimTask, Claimable, Stale, DepDone
<1>21. ASSUME NEW p \in Worker, Exit(p)
      PROVE  Ownership'
  BY <1>21 DEF Exit, Proceed, storeVars
<1>22. CASE UNCHANGED vars
  BY <1>22 DEF vars, storeVars, procVars
<1> QED
  BY <1>1, <1>2, <1>3, <1>4, <1>5, <1>6, <1>7, <1>8, <1>9, <1>10, <1>11, <1>12,
     <1>13, <1>14, <1>15, <1>16, <1>17, <1>18, <1>19, <1>20, <1>21, <1>22 DEF Next, Step

\* A record changes its status in these ways only.
LEMMA StatusStep ==
    ASSUME TypeOK, [Next]_vars, NEW j \in Job, status'[j] # status[j]
    PROVE  \/ status[j] = "absent"
           \/ status[j] \in {"done", "failed"} /\ status'[j] = "absent"
           \/ status[j] = "claimed" /\ Stale(j, live)
           \/ status[j] = "queued" /\ status'[j] = "claimed"
           \/ \E p \in live : pc[p] \in {"complete", "fail"} /\ job[p] = j
           \/ j \in commanded'
<1> USE ProcessAssumption, JobAssumption DEF TypeOK, StoreTypeOK, Status, Worker, Runner, Drainer
<1>1. ASSUME NEW k \in Job, NEW deps, Enqueue(k, deps) PROVE status[j] = "absent"
  BY <1>1 DEF Enqueue, EnqueueTask, Minted, Present
<1>2. ASSUME NEW k \in Job, Archive(k)
      PROVE  status[j] \in {"done", "failed"} /\ status'[j] = "absent"
  BY <1>2 DEF Archive, ArchiveTask
<1>3. ASSUME NEW k \in Job, Recover(k) PROVE status[j] = "claimed" /\ Stale(j, live)
  BY <1>3 DEF Recover, RecoverTask, Stale
<1>4. ASSUME NEW p \in Worker, NEW k \in Job, Claim(p, k)
      PROVE  \/ status[j] = "claimed" /\ Stale(j, live)
             \/ status[j] = "queued" /\ status'[j] = "claimed"
  BY <1>4 DEF Claim, ClaimTask, Claimable, Stale
<1>5. ASSUME NEW p \in Worker, Complete(p) \/ Fail(p)
      PROVE  p \in live /\ pc[p] \in {"complete", "fail"} /\ job[p] = j
  BY <1>5 DEF Complete, CompleteTask, Completable, Fail, FailTask, Failable, Present, storeVars
<1>6. ASSUME NEW p \in Worker, NEW k \in Job, NEW ids, NEW d \in Job,
             \/ DrainTick(p) \/ DrainOwn(p, ids) \/ Spawn(p, k)
             \/ ClaimRefusedDrain(p, k) \/ ClaimRefusedDispatch(p, k)
             \/ HandleReturns(p) \/ CompleteRefused(p) \/ Scan(p)
             \/ Resolve(p, d) \/ Resolved(p) \/ Exit(p) \/ Crash(p)
      PROVE  FALSE
  BY <1>6 DEF DrainTick, DrainOwn, Spawn, ClaimRefusedDrain, ClaimRefusedDispatch,
              HandleReturns, CompleteRefused, Scan, Resolve, ResolveTask, Resolved, Exit, Crash, storeVars
<1>7. ASSUME NEW p \in Worker, NEW k \in Job, HandComplete(p, k) \/ HandFail(p, k)
      PROVE  j \in commanded'
  BY <1>7 DEF HandComplete, CompleteTask, HandFail, FailTask
<1>8. ASSUME NEW p \in Worker, NEW k \in Job, HandClaim(p, k)
      PROVE  \/ status[j] = "claimed" /\ Stale(j, live)
             \/ status[j] = "queued" /\ status'[j] = "claimed"
  BY <1>8 DEF HandClaim, ClaimTask, Claimable, Stale
<1>9. CASE UNCHANGED vars
  BY <1>9 DEF vars, storeVars
<1> QED
  BY <1>1, <1>2, <1>3, <1>4, <1>5, <1>6, <1>7, <1>8, <1>9 DEF Next, Step

\* A job that was spawned for or commanded stays so.
LEMMA EndedGrows == [Next]_vars => spawned \subseteq spawned' /\ commanded \subseteq commanded'
  BY DEF Next, Step, vars, procVars, history, Enqueue, Archive, Recover, DrainTick, DrainOwn, Spawn,
         Claim, ClaimRefusedDrain, ClaimRefusedDispatch, HandleReturns, Complete, CompleteRefused,
         Scan, Resolve, Resolved, Fail, Crash, HandComplete, HandFail, HandClaim, Exit

LEMMA OwnershipHolds == Spec => [](TypeOK /\ Ownership)
<1>1. Init => TypeOK /\ Ownership
  <2>1. Init => Ownership
    BY DEF Init, Ownership, Worker
  <2> QED
    BY <2>1, InitTypeOK
<1> QED
  BY <1>1, TypeStep, OwnershipStep, PTL DEF Spec

\* What a drain completed stays done until it is archived: no claim, sweep or
\* fail() of anybody rewrites it (task_store.py, handle_queue.py).
THEOREM DrainedStays == Spec => DrainedIsFinal
<1>1. TypeOK /\ Ownership /\ [Next]_vars => [DoneStays(Drained')]_vars
  <2> SUFFICES ASSUME TypeOK, Ownership, [Next]_vars,
                      NEW j \in Drained', status[j] = "done", status'[j] # "done"
               PROVE  status'[j] = "absent"
    BY DEF DoneStays
  <2>1. j \in Drained /\ j \notin commanded'
    BY EndedGrows DEF Drained
  <2>2. \A p \in live : ~(pc[p] \in {"complete", "fail"} /\ job[p] = j)
    BY <2>1 DEF Ownership
  <2> QED
    BY <2>1, <2>2, StatusStep DEF Drained
<1> QED
  BY <1>1, OwnershipHolds, PTL DEF Spec, DrainedIsFinal

\* The claim of a live process is ended by that process, which is through with
\* the task (claim, recover_stale_claims, complete, fail).
THEOREM ClaimsEndByOwner == Spec => ClaimEndsByOwner
<1> DEFINE Ends ==
       \A j \in Drained' :
         status[j] = "claimed" /\ owner[j] \in live /\ status'[j] # "claimed"
            => pc[owner[j]] \in {"complete", "fail"} /\ job[owner[j]] = j
<1>1. TypeOK /\ Ownership /\ [Next]_vars => [Ends]_vars
  <2> SUFFICES ASSUME TypeOK, Ownership, [Next]_vars, NEW j \in Drained',
                      status[j] = "claimed", owner[j] \in live, status'[j] # "claimed"
               PROVE  pc[owner[j]] \in {"complete", "fail"} /\ job[owner[j]] = j
    OBVIOUS
  <2>1. j \in Drained /\ j \notin commanded'
    BY EndedGrows DEF Drained
  <2>2. PICK p \in live : pc[p] \in {"complete", "fail"} /\ job[p] = j
    BY <2>1, StatusStep DEF Stale, Drained
  <2> QED
    BY <2>1, <2>2 DEF Ownership
<1> QED
  BY <1>1, OwnershipHolds, PTL DEF Spec, ClaimEndsByOwner
=============================================================================
