----------------------------- MODULE TaskQueue -----------------------------
(***************************************************************************)
(* The processes around the task store: the heartbeat's drain thread and   *)
(* `maro-enqueue --drain` (handle_queue.drain_task_store), the detached    *)
(* one-job worker of deploy/hermes/dispatch.py, the heartbeat's stale      *)
(* claim sweep, and the operator's commands (task_store.main).             *)
(***************************************************************************)
EXTENDS TaskStore

CONSTANTS
    Heartbeat,   \* heartbeat daemons: all of them sweep
    Autonomous,  \* those with heartbeat.autonomy on, each with its one drain thread
    Cli,         \* `enqueue --drain` processes: drain their own ids and exit
    Dispatcher,  \* dispatch.py workers: run the one job they are given and exit
    Operator,    \* processes that run one `task_store claim | complete | fail` and exit
    NoJob,
    Foreign,     \* jobs that may be enqueued with a source no drain asks for
    MaxTasks,    \* drain_task_store's max_tasks
    MaxCrashes   \* bound on process deaths

ASSUME ProcessAssumption ==
    /\ Heartbeat \cup Cli \cup Dispatcher \cup Operator \subseteq Pid
    /\ Heartbeat \cap Cli = {} /\ (Heartbeat \cup Cli) \cap Dispatcher = {}
    /\ Heartbeat \cap Operator = {}
    /\ Autonomous \subseteq Heartbeat
    /\ NoJob \notin Job /\ Foreign \subseteq Job
    /\ MaxTasks \in Nat \ {0} /\ MaxCrashes \in Nat

VARIABLES
    live,      \* processes that have neither exited nor died
    pc,        \* what the process does next
    job,       \* the task it is working on
    batch,     \* ids still to try, from the listing it read at the start
    scan,      \* files _resolve_dependents has yet to visit
    spawned,   \* jobs a dispatch worker was started for
    unlisted,  \* jobs with a source no drain asks for
    crashes,
    wanted,    \* history: blocked_by as it was given at enqueue
    finished,  \* history: jobs that complete() once wrote "done"
    commanded  \* history: jobs an operator's complete or fail named

procVars == <<live, pc, job, batch, scan, spawned, unlisted, crashes>>
history == <<wanted, finished, commanded>>
vars == <<storeVars, procVars, history>>

Drainer == Heartbeat \cup Cli
Runner == Drainer \cup Dispatcher
Worker == Runner \cup Operator

TypeOK ==
    /\ StoreTypeOK
    /\ live \subseteq Worker
    /\ pc \in [Worker -> {"idle", "claim", "run", "complete", "fail", "scan", "resolve", "exit"}]
    /\ job \in [Worker -> Job \cup {NoJob}]
    /\ batch \in [Worker -> SUBSET Job]
    /\ scan \in [Worker -> SUBSET Job]
    /\ spawned \subseteq Job
    /\ crashes \in 0..MaxCrashes
    /\ wanted \in [Job -> SUBSET (Job \cup Missing)]
    /\ finished \subseteq Job
    /\ commanded \subseteq Job
    /\ unlisted \subseteq Foreign
    /\ \A p \in Worker : job[p] = NoJob <=> pc[p] \in {"idle", "claim", "exit"}

Init ==
    /\ StoreInit
    /\ live = Worker
    /\ pc = [p \in Worker |-> "idle"]
    /\ job = [p \in Worker |-> NoJob]
    /\ batch = [p \in Worker |-> {}]
    /\ scan = [p \in Worker |-> {}]
    /\ spawned = {}
    /\ unlisted \in SUBSET Foreign
    /\ crashes = 0
    /\ wanted = [j \in Job |-> {}]
    /\ finished = {}
    /\ commanded = {}

-----------------------------------------------------------------------------
(* Submission and housekeeping.                                            *)

\* enqueue_goal / enqueue_goals / maro enqueue --blocked-by.
Enqueue(j, deps) ==
    /\ deps \subseteq Minted \cup Missing
    /\ EnqueueTask(j, deps)
    /\ wanted' = [wanted EXCEPT ![j] = deps]
    /\ UNCHANGED <<procVars, finished, commanded>>

\* `task_store archive <id>`, by hand.
Archive(j) ==
    /\ ArchiveTask(j)
    /\ UNCHANGED <<procVars, history>>

\* recover_stale_claims(): stranded_state_sweep(), or `task_store recover` by hand.
Recover(j) ==
    /\ RecoverTask(j, live)
    /\ UNCHANGED <<procVars, history>>

-----------------------------------------------------------------------------
(* The drain.                                                              *)

\* What list_tasks("queued") returns and the filter on sources leaves.
Listed == {j \in Job \ unlisted : status[j] = "queued"}

\* Mutant: the slice of the listing ends one too early.
FirstButOne(S, n) == {j \in S : Cardinality({k \in S : k < j}) + 1 < n}

\* queued[:n] of the sorted listing S; the loop takes its least id first.
FirstOf(S, n) == {j \in S : Cardinality({k \in S : k < j}) < n}

IsNext(p, j) == j \in batch[p] /\ \A k \in batch[p] : j <= k

\* A process that is through with a job tries the rest of its batch; after
\* that a heartbeat waits for its next tick and any other process exits.
Proceed(p, rest) ==
    /\ pc' = [pc EXCEPT ![p] = IF rest = {} THEN "idle" ELSE "claim"]
    /\ job' = [job EXCEPT ![p] = NoJob]
    /\ live' = IF rest = {} /\ p \notin Heartbeat THEN live \ {p} ELSE live

\* The tick of an autonomous heartbeat that finds no mission and no interactive
\* session active starts the drain: any listed task, at most MaxTasks of them.
\* Whether ticks find that is up to the world, and not assumed in FairSpec.
DrainTick(p) ==
    /\ p \in live \cap Autonomous /\ pc[p] = "idle"
    /\ Listed # {}
    /\ batch' = [batch EXCEPT ![p] = FirstOf(Listed, MaxTasks)]
    /\ pc' = [pc EXCEPT ![p] = "claim"]
    /\ UNCHANGED <<storeVars, history, live, job, scan, spawned, unlisted, crashes>>

\* maro-enqueue --drain: only the ids it enqueued, all of them.  One id is also
\* operator_ask.drain(), the inline resume of an answered question.
DrainOwn(p, ids) ==
    /\ p \in live \cap Cli /\ pc[p] = "idle"
    /\ Listed \cap ids # {}
    /\ batch' = [batch EXCEPT ![p] = FirstOf(Listed \cap ids, Cardinality(ids))]
    /\ pc' = [pc EXCEPT ![p] = "claim"]
    /\ UNCHANGED <<storeVars, history, live, job, scan, spawned, unlisted, crashes>>

\* dispatch.py starts one detached worker per enqueued goal or answer.
Spawn(p, j) ==
    /\ p \in live \cap Dispatcher /\ pc[p] = "idle"
    /\ j \in Minted \ spawned
    /\ spawned' = spawned \cup {j}
    /\ batch' = [batch EXCEPT ![p] = {j}]
    /\ pc' = [pc EXCEPT ![p] = "claim"]
    /\ UNCHANGED <<storeVars, history, live, job, scan, unlisted, crashes>>

Claim(p, j) ==
    /\ p \in live /\ pc[p] = "claim"
    /\ IsNext(p, j)
    /\ Claimable(j, live)
    /\ ClaimTask(j, p)
    /\ job' = [job EXCEPT ![p] = j]
    /\ pc' = [pc EXCEPT ![p] = "run"]
    /\ batch' = [batch EXCEPT ![p] = @ \ {j}]
    /\ UNCHANGED <<history, live, scan, spawned, unlisted, crashes>>

\* The drain skips a task it cannot claim.
ClaimRefusedDrain(p, j) ==
    /\ p \in live \cap Drainer /\ pc[p] = "claim"
    /\ IsNext(p, j)
    /\ ~Claimable(j, live)
    /\ batch' = [batch EXCEPT ![p] = @ \ {j}]
    /\ Proceed(p, batch[p] \ {j})
    /\ UNCHANGED <<storeVars, history, scan, spawned, unlisted, crashes>>

\* In cmd_worker claim() is inside the try whose handler calls task_fail().
ClaimRefusedDispatch(p, j) ==
    /\ p \in live \cap Dispatcher /\ pc[p] = "claim"
    /\ IsNext(p, j)
    /\ ~Claimable(j, live)
    /\ job' = [job EXCEPT ![p] = j]
    /\ batch' = [batch EXCEPT ![p] = {}]
    /\ pc' = [pc EXCEPT ![p] = "fail"]
    /\ UNCHANGED <<storeVars, history, live, scan, spawned, unlisted, crashes>>

\* handle_task() returned a status, or returned "error" or raised.
HandleReturns(p) ==
    /\ p \in live /\ pc[p] = "run"
    /\ \E outcome \in {"complete", "fail"} : pc' = [pc EXCEPT ![p] = outcome]
    /\ UNCHANGED <<storeVars, history, live, job, batch, scan, spawned, unlisted, crashes>>

Complete(p) ==
    /\ p \in live /\ pc[p] = "complete"
    /\ Completable(job[p])
    /\ CompleteTask(job[p])
    /\ finished' = finished \cup {job[p]}
    /\ pc' = [pc EXCEPT ![p] = "scan"]
    /\ UNCHANGED <<wanted, commanded, live, job, batch, scan, spawned, unlisted, crashes>>

\* complete() raised: the drain logs it and goes on, the dispatch worker's
\* handler calls task_fail().
CompleteRefused(p) ==
    /\ p \in live /\ pc[p] = "complete"
    /\ ~Completable(job[p])
    /\ \/ p \in Drainer /\ Proceed(p, batch[p])
       \/ p \in Dispatcher /\ pc' = [pc EXCEPT ![p] = "fail"] /\ UNCHANGED <<job, live>>
    /\ UNCHANGED <<storeVars, history, batch, scan, spawned, unlisted, crashes>>

\* _resolve_dependents() lists the directory after complete() has released the
\* task's lock ...
Scan(p) ==
    /\ p \in live /\ pc[p] = "scan"
    /\ scan' = [scan EXCEPT ![p] = Dependents(job[p])]
    /\ pc' = [pc EXCEPT ![p] = "resolve"]
    /\ UNCHANGED <<storeVars, history, live, job, batch, spawned, unlisted, crashes>>

\* ... and rewrites one file at a time, in the order of the directory.
Resolve(p, d) ==
    /\ p \in live /\ pc[p] = "resolve"
    /\ d \in scan[p]
    /\ ResolveTask(d, job[p])
    /\ scan' = [scan EXCEPT ![p] = @ \ {d}]
    /\ UNCHANGED <<history, live, pc, job, batch, spawned, unlisted, crashes>>

Resolved(p) ==
    /\ p \in live /\ pc[p] = "resolve"
    /\ scan[p] = {}
    /\ Proceed(p, batch[p])
    /\ UNCHANGED <<storeVars, history, batch, scan, spawned, unlisted, crashes>>

Fail(p) ==
    /\ p \in live /\ pc[p] = "fail"
    /\ IF Failable(job[p]) THEN FailTask(job[p]) ELSE UNCHANGED storeVars
    /\ Proceed(p, batch[p])
    /\ UNCHANGED <<history, batch, scan, spawned, unlisted, crashes>>

\* A process that has started dies; what it had claimed stays claimed in its name.
Crash(p) ==
    /\ p \in live /\ crashes < MaxCrashes
    /\ p \in Heartbeat \/ pc[p] # "idle"
    /\ live' = live \ {p}
    /\ crashes' = crashes + 1
    /\ pc' = [pc EXCEPT ![p] = "idle"]
    /\ job' = [job EXCEPT ![p] = NoJob]
    /\ batch' = [batch EXCEPT ![p] = {}]
    /\ scan' = [scan EXCEPT ![p] = {}]
    /\ UNCHANGED <<storeVars, history, spawned, unlisted>>

-----------------------------------------------------------------------------
(* By hand.                                                                *)

\* `task_store complete <id>`: no claim is asked for; the dependents follow.
HandComplete(p, j) ==
    /\ p \in live \cap Operator /\ pc[p] = "idle"
    /\ Completable(j)
    /\ CompleteTask(j)
    /\ finished' = finished \cup {j}
    /\ commanded' = commanded \cup {j}
    /\ job' = [job EXCEPT ![p] = j]
    /\ pc' = [pc EXCEPT ![p] = "scan"]
    /\ UNCHANGED <<wanted, live, batch, scan, spawned, unlisted, crashes>>

\* `task_store fail <id>`: whatever the status.
HandFail(p, j) ==
    /\ p \in live \cap Operator /\ pc[p] = "idle"
    /\ Failable(j)
    /\ FailTask(j)
    /\ commanded' = commanded \cup {j}
    /\ pc' = [pc EXCEPT ![p] = "exit"]
    /\ UNCHANGED <<wanted, finished, live, job, batch, scan, spawned, unlisted, crashes>>

\* `task_store claim <id>`: in the name of a process that is about to exit.
HandClaim(p, j) ==
    /\ p \in live \cap Operator /\ pc[p] = "idle"
    /\ Claimable(j, live)
    /\ ClaimTask(j, p)
    /\ pc' = [pc EXCEPT ![p] = "exit"]
    /\ UNCHANGED <<history, live, job, batch, scan, spawned, unlisted, crashes>>

Exit(p) ==
    /\ p \in live /\ pc[p] = "exit"
    /\ Proceed(p, {})
    /\ UNCHANGED <<storeVars, history, batch, scan, spawned, unlisted, crashes>>

Step(p) ==
    \/ \E j \in Job :
        Claim(p, j) \/ ClaimRefusedDrain(p, j) \/ ClaimRefusedDispatch(p, j)
    \/ HandleReturns(p) \/ Complete(p) \/ CompleteRefused(p) \/ Scan(p)
    \/ \E d \in Job : Resolve(p, d)
    \/ Resolved(p) \/ Fail(p) \/ Exit(p)

Next ==
    \/ \E j \in Job, deps \in SUBSET (Job \cup Missing) : Enqueue(j, deps)
    \/ \E j \in Job : Archive(j) \/ Recover(j)
    \/ \E p \in Worker :
        \/ DrainTick(p)
        \/ \E ids \in SUBSET Job : DrainOwn(p, ids)
        \/ \E j \in Job : Spawn(p, j) \/ HandComplete(p, j) \/ HandFail(p, j) \/ HandClaim(p, j)
        \/ Step(p)
        \/ Crash(p)

Spec == Init /\ [][Next]_vars

\* The sweep of a heartbeat's tick.
Sweep(j) == Heartbeat \cap live # {} /\ Recover(j)

\* A started process keeps running, handle_task() returns, and a live heartbeat
\* keeps sweeping; nobody has to submit, archive, command or die, and no
\* heartbeat has to drain.
Fairness ==
    /\ \A p \in Worker : WF_vars(Step(p))
    /\ \A j \in Job : WF_vars(Sweep(j))

FairSpec == Spec /\ Fairness

-----------------------------------------------------------------------------
(* Safety.                                                                 *)

\* A live process that is executing handle_task(j) for a job it claimed.
Running(p, j) == p \in live \cap Runner /\ pc[p] \in {"run", "complete"} /\ job[p] = j

\* No task is executed by two live processes at once, however claims, crashes,
\* stale-claim recovery, the dispatch worker's fail() and an operator's
\* commands interleave.
NoDoubleRun ==
    \A p, q \in Worker, j \in Job : Running(p, j) /\ Running(q, j) => p = q

\* A task runs only after every dependency it was enqueued with was completed
\* once (by its run or by hand): neither claim's check nor _resolve_dependents
\* ever lets it through because a dependency failed, crashed, was archived or
\* never existed.
DependenciesFirst ==
    \A p \in Worker, j \in Job : Running(p, j) => wanted[j] \subseteq finished

\* Why the two hold.  A running task is still claimed in its runner's name, or
\* a rogue fail() or a command ended the record for good: nobody can claim it
\* again.
RunIsRecorded ==
    \A p \in Worker, j \in Job : Running(p, j) =>
        \/ status[j] = "claimed" /\ owner[j] = p
        \/ status[j] \in {"done", "failed"}
        \/ status[j] = "absent" /\ j \in archived

\* What was taken off blocked_by, or reads "done", really was completed.
DoneWasFinished ==
    /\ \A j \in Job : status[j] = "done" => j \in finished
    /\ \A j \in Present : wanted[j] \ blockedBy[j] \subseteq finished
    /\ \A p \in Worker, j \in Job :
         p \in live /\ pc[p] \in {"scan", "resolve"} /\ job[p] = j => j \in finished

\* The inductive invariant of the proofs: type, the record of every running
\* task and the history of every "done" determine who may run what next.
Inductive ==
    /\ TypeOK
    /\ RunIsRecorded
    /\ NoDoubleRun
    /\ DoneWasFinished
    /\ DependenciesFirst

DoneStays(J) == \A j \in J : status[j] = "done" => status'[j] \in {"done", "absent"}

\* Tasks that were neither given a worker of their own nor ended by hand.
Drained == Job \ (spawned \cup commanded)

\* A task recorded done stays recorded done until it is archived, and the queue
\* record does not come to contradict the outcome of the run, for every task no
\* dispatch worker was started for and no command named, whatever drains,
\* sweeps, crashes, hand-made claims and archives do.
DrainedIsFinal == [][DoneStays(Drained')]_vars

\* Only the process a task is claimed by ends the claim while that process is
\* alive: no other drain, no sweep, no claim by hand and no death of another
\* process takes the record from under it.  (A dispatch worker that lost its
\* claim and `task_store complete | fail` do: their tasks are excepted.)
ClaimEndsByOwner ==
    [][\A j \in Drained' :
         status[j] = "claimed" /\ owner[j] \in live /\ status'[j] # "claimed"
            => pc[owner[j]] \in {"complete", "fail"} /\ job[owner[j]] = j]_vars

-----------------------------------------------------------------------------
(* Liveness.                                                               *)

\* The conditions of what follows: some heartbeat lives again and again ...
Swept == []<>(Heartbeat \cap live # {})

\* ... or, for what needs a drain, an autonomous one lives on and its ticks
\* keep finding nobody else active.
Attended == \E h \in Autonomous : []<>(h \in live) /\ WF_vars(DrainTick(h))

\* A claim never sticks: the owner finishes it or dies and the sweep releases
\* it, also where no heartbeat is autonomous.
ClaimsEnd ==
    Swept => \A j \in Job : (status[j] = "claimed") ~> (status[j] # "claimed")

\* The whole batch of a heartbeat goes to tasks that sort before j and cannot
\* be claimed: they are skipped and listed again.
Crowded(j) ==
    Cardinality({k \in Listed : k < j /\ ~Claimable(k, live)}) >= MaxTasks

\* A listed task that is claimable again and again is not left in the queue,
\* unless unclaimable tasks that sort before it fill every batch for ever.
ClaimableIsTaken ==
    Attended => \A j \in Job :
        []<>(j \notin unlisted /\ Claimable(j, live))
            => []<>(status[j] # "queued") \/ <>[]Crowded(j)

\* What was completed reads so no more: it was archived, or somebody failed it
\* who had no claim: a dispatch worker that lost it, or an operator.
Unsettled(d) == d \in archived \/ (d \in spawned \cup commanded /\ status[d] = "failed")

\* Once all it waited for was completed, a listed task does not wait for ever,
\* also when a process died between writing "done" and resolving the
\* dependents, unless something it waited for reads otherwise before it is
\* claimed, or it is crowded out of every batch.
UnblockedIsTaken ==
    Attended =>
        \A j \in Job :
            (status[j] = "queued" /\ j \notin unlisted /\ wanted[j] \subseteq finished)
                ~> \/ status[j] # "queued"
                   \/ \E d \in wanted[j] : Unsettled(d)
                   \/ []Crowded(j)
=============================================================================
