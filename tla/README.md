# Maro in TLA+

Maro runs goals as agent loops: a goal is planned into steps, a language model
executes the steps, and the outcome is judged. Around the models sits a system
of ordinary processes that share files and nothing else: a heartbeat daemon, the
command line, detached workers, chat listeners and several loops at once. Every
hand-over between them is a JSON file, a lock file or a line in a ledger, and
every one of these processes may die between two writes. This directory models
the hand-overs. What a model answers is a nondeterministic choice.

## Inventory

| Component | State it keeps | Operations | What makes it hard | Status |
|---|---|---|---|---|
| Task store (`task_store.py`) | one file per task: status, `blocked_by`, `claimed_by_pid` | enqueue, claim, complete, fail, archive, recover_stale_claims | claims of dead processes, dependencies resolved file by file after the lock is gone | `TaskStore` |
| Queue drains (`handle_queue.py`, heartbeat, `dispatch.py`) | a batch of ids read once | drain_task_store, cmd_worker, the heartbeat's sweep | three kinds of process on one queue; listings that are stale when used | `TaskQueue` |
| Project admission (`interrupt.py`, `loop_init.py`, `loop_finalize.py`) | `loop-<project>.lock`, its flock, a registry per process, `loop.lock` | acquire, share, release, advertise, clear | a lock on a file that can be unlinked; threads that share and processes that may not | `Admission` |
| Interrupt queue (`interrupt.py`, `file_lock.py`, `loop_post_step.py`) | a JSONL file and its sidecar lock | post, poll, clear, apply at the boundary | whole-file rewrites beside appends, torn lines, lock timeouts | `InterruptQueue` |
| Operator questions (`operator_ask.py`, `loop_execute.py`, `runs.py`) | the record in the run's metadata, marker and answer file, resume tasks | ask live, pause, answer, re-drive, expire | check and claim apart, live window closing, answers from several processes | `OperatorAsk` |
| Run lease and stranded runs (`run_lease.py`, heartbeat, `runs.py`) | a lock per loop, the pid in the run's metadata, its status | acquire, probe, release, sweep | a lease given back long before the run is closed, a pid that is never renewed | `ResumeClaim` |
| Checkpoints and resume (`checkpoint.py`, `cli.py`, `loop_planning.py`) | a checkpoint per run or loop, with claim and consumer | write, look up, lock, claim, release, settle | two ways to resume one file under different locks, owners and claimants that died | `ResumeClaim` |
| Tail jobs (`tail_jobs.py`, `handle.py`) | an append-only store of post-run jobs | record, claim, drain, release, sweep, spawn | once-only work decided from rows, four kinds of drainer | `TailJobs` |
| Step loop (`loop_execute.py`, `loop_blocked.py`, `loop_post_step.py`, `step_gate.py`) | the steps ahead, rows, retry counters, budgets, a ledger of context, verdicts | take, prompt, judge, retry, split, replan, bump, land, interrupt, stop | some thirty ways to leave a step, each of which must put back what it took | `StepLoop` |
| Parallel lane (`loop_parallel.py`, `planner.py`) | rows under a lock, futures of a thread pool, the coordinator's books, the checkpoint | submit, begin, execute, merge, commit, gate, release, cancel, give up, resume | threads and coordinator write the same rows; a halt, a timeout and late answers | `DagLane` |
| Plan and judgement of steps (`planner.py`, `step_exec.py`, ...) | none shared | decompose, execute, verify | a language model's answers | not modelled |
| Plan mirror (`orch_items.py`, `loop_planning.py`, `loop_post_step.py`) | the items of `NEXT.md`, the mark each row owes, the line of each step | append, mark, owe, settle, check the carried lines, mirror again | a line number is an item's identity in a file people edit, and a mark can time out | `ItemMarks` |
| Backlog and missions (`heartbeat.py`, `mission.py`, `scheduler.py`) | item states in `NEXT.md`, job and milestone files | take, revert, schedule | an item left DOING by a dead process | planned |
| Worktrees (`worktree.py`) | a branch and a directory per refused run | provision, merge back, remove | merging into a directory its holder still writes | planned |
| Learning stores (`knowledge_lens.py`, `skills.py`, `evolver_store.py`) | rules, skills and suggestions with counters and states | promote, demote, trip, apply, revert | counters that cross thresholds in several processes | planned in part |
| Model backends (`llm.py`) | failover order and cooldowns | call, fall over | a cooldown that hides every backend | planned in part |
| Front door, verification, channels, reports, experiments, configuration | see `PROJECT.json` | | judgements of language models, input and output, readers of what others wrote | not modelled |

How they interact: an operator's channel posts to the interrupt queue of a running
loop, enqueues goals into the task store, or answers a question. The heartbeat
drains the store. `handle_task` turns a task into a loop, or, for an answered
question, into the next segment of a paused run. Every loop passes the admission
gate of its project first, writes a checkpoint around each step, polls the interrupt queue at each step boundary and
releases everything in `release_loop_resources`. What is left of a run then is its tail,
which the run or somebody after it drains; a run that died is resumed from its checkpoint.

## Modules

**TaskStore / TaskQueue.** `TaskStore` holds the task files as three functions over
job ids (`status`, `blockedBy`, `owner`) and the effect of each operation. Every operation
of the code reads, decides and rewrites under the task's own flock, so it is one step.
`complete` is three: the write, the listing of the directory, and one rewrite per
dependent. `TaskQueue` adds the processes: `Heartbeat` (all of them sweep; those in `Autonomous` have
`heartbeat.autonomy` on and one drain thread, at most `MaxTasks` tasks a tick), `Cli` (`maro-enqueue --drain` and the
inline resume of an answer: its own ids, then exit), `Dispatcher` (`cmd_worker`: one job,
then exit) and `Operator` (one `task_store claim | complete | fail`, then exit; archive and recover by hand are steps of nobody).
A drain lists only tasks of the sources it asks for: `unlisted` are the others. `pc` names the call a process is in.
`wanted`, `finished` and `commanded` are histories.
Job ids are numbers because the drain takes the sorted listing from the front.

**ProjectSlot / Admission.** A file is an inode: `path` is the inode the name leads to
(0: none), `flock` the loop whose open file holds an inode's lock, `registry` each
process's `_process_slot_cores` entry. A `_SlotCore` is named by the loop that made it: `core` is the handle of a loop,
`file` the core's open file (`_fh`). Each step of `acquire_project_slot` between which
another process or thread can run is an action: registry, open, flock, look again at the
registry, poll or refuse, inode check, publish. The registry only holds a weak reference, and CPython runs the
`__del__` of a core before it clears the weak references to it: a sibling may still be given the core while its last
handle is going (`Release`, `TakeFile`, `Unlock`). So `Deref` returns a core as long as a handle, the frame of `__del__` or the
local `core` of `acquire_project_slot` (`pin`) keeps it. A loop that got its handle between the last release and `close()`
taking the file is recorded in `late`: it runs without the lock. `ProjectSlot` is the
promise: the members of a slot are loops of one process. `Admission` implements it until a loop
goes ahead without a slot (the worktree policy, or a lock directory that cannot be
written); the history `ungated` marks that moment. The members are the loops that are not `late`.

**InterruptChannel / InterruptQueue.** `file` is the sequence of rows; `old` is the
text a consumer read under the lock and `batch` what `poll` returned and the boundary has yet to
apply. Producers and consumers contend for one sidecar lock. A producer that dies in its
write leaves a torn row, which stays a row of its own. `InterruptChannel` is a sequence of pending interrupts that is
handed over whole to one consumer.

**OperatorAsk.** One run through its resumed segments. `rec` is
`metadata.operator_ask`; a metadata write is one step because it happens under the metadata's lock,
and each call of `answer()` is a small machine (`apc`): read, live claim, deliver, or
claim, enqueue. Whether the resume of an answered question ever ran takes two looks, at the list of tasks and then at the set of
enqueues in flight, once before the claim (`Read`, `Peek`) and once inside it (`Claim`, `Look`); the second pair keeps the metadata's lock (`Free`). `task` is the fate of the resume a call enqueued. `run` walks the loop
through step, `close_live` (which looks at the files, then at the metadata), pause and tail. `sweep()` lists,
reads and stamps in three steps, a live ask like any other: its deadline is the end of its window.

**TailJobs.** The store is what its rows mean: `jobs` (the index is the seq), `started`, `done` and the process of the
last claim row. Whatever `_transact` decides from the rows it decides and appends under one lock, so a
transaction is one step; a drain is claim, started row, runner, done row, release, with a death or a failed append
between any two. The parent records and drains early before an escalation, or spawns the child; the heartbeat's
sweep reads without the lock (`Find`) and drains later (`Sweep`) by the kinds it read.

**ResumeClaim.** `file` is the checkpoint at each address: the run's own (`Home`), written by the first
owner and by `maro resume` of it, one per library resume, and one in the directory a `maro resume` makes for itself when its source has none
(`Destination`; a later `maro resume` of that directory goes on in place). A resume is `Lookup`, `Lock` (with its second
read), `Probe`, `Claim`, `Start`: one action for each stretch in which nobody else can come in between. `pos` is what a loop knows to
be done, `onRecord` (a history) the most a checkpoint ever said. After its loop a process is in `closure`, without its lease, until it settles the
source and stamps the run. `Rerun` is a loop with a plan of its own that comes into the directory of a run: the recovery re-run of a loop
that gave up, the restart of a run that closure rejected, the queued continuation of a paused run. It takes no lock, probes no lease
and claims no checkpoint, and writes its progress over what is there (`Foreign`); `reran` says whether one has been at `Home`, and
`RerunEnds` is the status it leaves. `Recovered` is the settling of the source after a recovery re-run.

**StepLoop.** One pass of `_execute_main_loop`, an action per way through it. `pc` is where the pass is: head, a step
picked, its prompt run, its outcome judged, the boundary, the poll. `remaining` is the list the code pops from. Steps are
numbers: the plan's, those drawn up later, the synthesis of a landing (0) and the research step. `outcome` keeps
the latest row of each step. The ledger of context is `pending` and, while a step is out, `delivered`; `reached`, `posted` and
`logged` are histories, and so is `gone`, the steps that left the plan for others or by the operator's word.
Which branch a blocked step takes depends on wording and on a model, so it is a choice; its counters and limits are not.
`Intact` says whether the plan's numbers are bound to its items: only then does the gate (`Unmet`) refuse a step.

**DagLane.** A loop whose plan has steps that can run side by side leaves the step loop for this lane. `future` is where each
step's future is: queued, entered (past its only look at the halt), inside the adapter, merging its worktree, finished,
raised, or cancelled and notified; `answer` is what its execution came to. The workers' actions are the stretches
of `_run_one`; `results` is the dictionary under `results_lock`, and a commit writes its row and the checkpoint in one
step because the code does so under that lock. The coordinator is `phase` with its books: `active`, `released` (what it has
discarded from `remaining_deps`) and `todo`, the rows it still has to write. `Reap` takes a future, computes what an unmet step gates
(the least set closed under enforced edges, which is what the frontier of `_gate_dependents` collects), and `Gate`
writes those rows one by one beside the workers. After `TimedOut` it writes rows only where there is none (`only_if_absent`) while the workers
overwrite without asking. `plan` is what is left of the steps in this life; `Resume` takes it from the checkpoint.
`bound` says whether what the tags' numbers name is known in this life: it is in the first, and after a resume whose checkpoint carries
the binding, which re-keys the edges. Without it `WaitsFor` is what the tags say when read as places among the steps left (`Renumbered`),
and no edge is `Enforced`.

**ItemMarks.** `lines` are the items of `NEXT.md` by their texts (a step or a chore); `items` is the line of each step,
`step_indices`. A verdict is a row and a mark in one step, since all of it is memory but for the file. A mark that times out
(`jammed`) is owed: the row's `mark` is `pending`. `Settle` is one row of `settle_item_marks`, called at a snapshot, at the exit and by a
resume. `Resume` reads the checkpoint and decides about the carried lines, the settling and `MirrorPlan` follow, and people may write or remove
lines in between. `Rows` says which rows the checkpoint places at a step: those with the number of its line. The state
of an item is left out, but for the last mark a run has set on a step's line, the history `shown`.

The MC modules give `Pid`, `ProcOf`, `Home`, `After`, `Deps` and `Declared` their values. Operators whose comment begins with "Mutant"
are small bugs the definitions next to them could have; no specification uses them. They
show that each property can fail.

## Runs

| Run | Shows | Bounds |
|---|---|---|
| `TaskQueue_all` | no task runs in two live processes or before its dependencies were completed; a task no dispatch worker was started for and no command named stays done, and its claim ends by its live owner only; claims end while somebody sweeps; under a heartbeat that drains, a claimable listed task is taken or crowded out, and so is one whose dependencies were completed by a process that died before resolving them | 2 jobs, one of any source, with any dependencies among those enqueued before and an id that never existed, one autonomous heartbeat with batches of one, one process that is a `maro-enqueue --drain` or a command by hand, one dispatch worker, two deaths |
| `Admission_gate` | exclusion, the lock is on the file the path names, no leaked lock, refinement of `ProjectSlot`, every loop is decided | 2 sibling loops and one of another process, 3 inodes, 1 poll, both ways around the gate |
| `InterruptQueue_all` | nothing acknowledged is lost, refinement of `InterruptChannel` (nothing is given twice), everything acknowledged is given | 3 interrupts (one a stop), a loop, a `clear()`, 2 faults |
| `OperatorAsk_answers` | one resume and one delivery per question, an answer stands | 3 calls of one process, 2 questions, 1 sweep, 1 crash |
| `TailJobs_tail` | one drainer at a time, a done job is not run again, every job ends done or on the operator's list | two loops of the run (one escalation), a heartbeat, an operator, run, child and operator mortal, one fault |
| `ResumeClaim_claims` | one executor, no step replayed, a settled source stays settled, nothing runs for a closed run, a patient operator gets in | a plan of 2 steps, the owner, two `maro resume`, one library resume; the owner and one command mortal; one fault, which may be another plan that comes into the run |
| `StepLoop_loop` | no note and no step is lost, done steps stand on done ground, every end has its type, a landing stays visible, the last checkpoint is complete | 3 steps with bound numbers, the last after the first, up to 5 steps drawn up, 4 iterations and one more after the bump, one expansion, one change and one note of the operator |
| `StepLoop_ends` | the loop ends, with the advisor on, a soft gate and continuations that escalate | 2 steps with numbers that are not bound, up to 6 drawn up, 4 iterations and one more, one expansion |
| `DagLane_dag` | prerequisites first, the report is what the steps came to, a refusal stops what has not begun, the checkpoint only grows and nothing in it is executed again, the lane returns | a root, three steps after it (one by default, two by tag), one declared after the latter two; 2 threads, a timeout per life, 1 resume, bound or not, 1 lost write |
| `ItemMarks_marks` | what a row says was applied is what the file was last told, no resume leaves out a step that was never done | 2 steps, 1 retry, 1 edit, 1 jam of the lock, 2 lives, any lost checkpoint write |

No run spends a property on a `TypeOK`. It documents the state, and but for `TailJobs` and `StepLoop` it is
proved, as a part of the inductive invariant.

Why these bounds are enough. The properties of the queue relate a task to one dependency and to one other
process; two tasks and two processes beside the heartbeat or worker they meet cover every pair. A batch of one
lets the task that sorts first crowd out the other. Two deaths
let a claim be recovered and its new owner die too. Three loops give siblings
and a stranger, three inodes let the path be unlinked and remade twice. Three
rows are a torn one with a neighbour on each side. Two questions distinguish an answer's question from the
current one, and a third answer can re-drive a second that failed. Two loops of a run give the early drain a second
store of jobs to meet, and the four kinds of drainer appear once each. Two `maro resume` compete for the run's lock and a library resume
goes past it; two steps give a checkpoint that is neither empty nor complete, and the dying owner, claimant and
successor make chains of three. Four iterations reach the landing (three rows, two of them done, two left), the ceiling, the third equal
outcome and, after the bump, both again; five steps allow one split, or an injected step and one from the operator. Three
timeouts in a row, two replans and the third retry need the six steps of `StepLoop_ends` or fewer. In the lane
three steps compete for two threads, so one is queued when the halt comes; declared edges go over two levels and one edge is soft; and
what is left after a death can still be run side by side, by the edges of the plan and by the tags read anew. A retry, a jam and a second life together make
the rows that once went wrong in `settle_item_marks`: an owed mark before a newer verdict, and one before a mere attempt. One edit
can be a chore or a twin of a step above, between or below the plan, or the removal of any of the lines. The
proofs below lift the bounds where it matters most.

### Where the code and its own words disagree

Two runs check a sentence of the repository and find it violated.

- `Admission_worktree`: a loop that was refused into a worktree has no slot, advertises itself under
  the project's name, and at its end unlinks the lock file of the loop that refused it.
- `ResumeClaim_stranded`: the run's metadata keeps the pid of its first writer, and the lease is given back at
  the end of the loop. While a `maro resume` lives but holds no lease under the name the sweep knows, the
  heartbeat stamps the run stranded.

Also seen, and part of the models without a run of their own:

- A dispatch worker calls `claim()` inside the `try` whose handler fails the task, so losing the claim to a drain
  turns the drain's `done` into `failed`. `task_store complete` and `fail` by hand
  end the claim of a live run too. `DrainedIsFinal` and `ClaimEndsByOwner` speak of tasks no worker was started for and no such command named.
- A batch is cut to `max_tasks` before anyone asks what is claimable; tasks that are blocked for ever sort first and fill it.
  `ClaimableIsTaken` and `UnblockedIsTaken` say so (`Crowded`): a claimable task is left only behind a batch full of these.
- A heartbeat drains the task store only with `heartbeat.autonomy` on (off by default) and while no mission and no interactive
  session is active, and no drain takes a task whose source it does not ask for (`task_store enqueue` by hand says `cli`). The two properties
  speak of listed tasks and of a heartbeat that lives on and whose ticks find nobody else active (`Attended`).
- A sibling can meet the flock before the holder has published the core; it is then refused by its own process.
- A sibling that asks the registry after the last handle of a core went and before `close()` took its file (`interrupt.py:942`) is given the
  dying core: its weak reference is not cleared yet. It runs with a slot whose lock is gone, and a second process is admitted
  beside it. `late` records such loops; `GatedExclusive`, `SlotIsOnPath` and `ImplementsSlot` are about the others.
  TLC violates each of them without the exception.
- A core that was closed and is still referred to passes for a sibling's slot: `ref() is not None` at `interrupt.py:1069` sends the loop back at once,
  before it looks at its deadline or sleeps. The local variable `core` of the asking thread is such a reference. While another process
  holds the file the thread spins; `GateDecides` excepts a closed core that is kept for ever.
- A stop leaves the loop over a batch that is already marked applied: the rest is given and never recorded.
- The sweep of questions reads and stamps in two steps, so it can expire one that has just been answered. It does not look at `live` either:
  an ask whose step outlasts its window is expired while the worker still waits, and the next answer is claimed for a resume.
- A re-drive lists the tasks first and asks the set of enqueues in flight afterwards (`operator_ask.py:698`, `715`). Another answer of the
  same process may publish its resume and leave the set in between: the re-drive finds neither and resumes the question a second time. `raced` records
  these questions and `OneResume` is about the others; without the exception TLC violates it.
- The set of enqueues in flight lives in one process. A second process takes one for a failed enqueue and resumes the
  question again (`OneResume` is checked and proved for one answering process).
- The end of one loop removes `loop.lock` though another loop is active.
- The pause reason of a first segment is never cleared, so in a resumed segment the answer to a live ask is claimed for a resume
  (`AnswerStands` excepts the pause that undoes such a claim, and that of an ask a sweep has expired).
- Every way a loop comes into the directory of a run but a resume writes over its checkpoint without lock, probe or claim: the recovery re-run
  (`agent_loop.py:697`), restarts, queued continuations (`handle_queue.py:143`). A checkpoint a resume had settled is lost to it, a live resume
  can be at work in the same directory, and the status it stamps is not about the plan it displaced. `SpentStaysSpent` excepts such a write, `ClosedRunsNothing` ends with the first
  one, and `NeverWedged` does not count a file whose successor was displaced. `OneExecutor` and `NoReplay` hold beside them, as they are about one plan.
- An answer that lands after the step ended, or after the worker asked again, counts as heard.
- The sweep of tails drains by the kinds it read before the claim, so a maintenance job that was started in between is run
  again; and the early drain before an escalation ignores claims, so `OneDrainer` and `DoneIsNotRun` are stated until then.
- A checkpoint tells its rows apart by line numbers. If people remove lines of `NEXT.md` between a death and the resume, the steps
  ahead are appended again and may get numbers that carried rows have. `write_checkpoint` then places a carried row at a step of the new plan, though its
  comment says that "a row carried in from an earlier attempt" gets position 0 (`checkpoint.py:716`): a step in flight counts as done, and
  a second resume leaves it out or finds the plan complete. Without `~cut`, TLC violates `FinishedIsDone` in eleven steps: a plan of two,
  the first done, a death, both lines removed, a resume, its first prompt. `AppliedIsShown` has the same exception, as `settle_item_marks` looks for a later row by number too.
- A run marks by number at once and compares only when it settles (`loop_post_step.py:982`), so lines written above the plan while it runs move its marks to
  other items, and a line that has gone raises `ItemIdentityError`, which is no `OSError`, and ends the loop.
- A mark that times out at the step and again at both settlings of the last iteration stays owed for good: a complete checkpoint is not resumed.
- The advisor's "retry" of a stuck step (off by default) does not put the popped step back (`loop_execute.py:2145`):
  `NoStepVanishes` is checked and proved with the advisor off.
- A third breach of the budget pauses the run before the row of the step that was just paid for is
  written (`loop_execute.py:1616`), so a resume executes it again; a refusal by the environment keeps its row (`loop_execute.py:1527`).
- A loop that dies while a live question is pending leaves it open: a later answer is written to a file nobody reads.
- Notes in a prompt that the environment refuses count as heard; the resumed segment is not given them again.
- The streak counts the third identical outcome of a step before a third retry is used up, so retries beyond the
  second need an outcome that differs.
- The gate refuses a step only if the plan's numbers are bound to its items (`step_gate.py:311`). If the plan was reshaped by step splitting, names one item
  twice, or is resumed without a binding, declared edges are only logged (`loop_planning.py:147`), and a step runs though one it was
  declared to come after is blocked: `DoneOnDoneGround` is stated, checked and proved for bound plans.
- A resume without a binding schedules the parallel lane by tags that name the steps of the whole plan, read as places among those
  left (`loop_parallel.py:1050`): with the first of five done, `[after:1]` waits for the second, a tag that comes to name its own step is never met,
  and the gate is off, so a step may begin before or despite the one it was declared to come after. `PrerequisitesFirst` then says only that
  the lane keeps the order it has computed.
- A worker of the parallel lane that raises after the coordinator gave up leaves the timeout row as its row, and so loses the
  reason; both are blocked rows (`ReportIsTrue` excepts steps that raised).
- Read, not modelled: `_write_progress` (`loop_parallel.py:566`) marks the lane's own items in `NEXT.md` and then settles the
  marks the carried rows owe, from the carried rows alone. A carried blocked row whose mark failed twice then
  marks an item blocked that this life has just marked done, though `loop_planning.py:281` says that an earlier row of
  the same item is superseded and owes nothing.

### Fairness

`TaskQueue!FairSpec`: a process that has started a batch takes its next step (`Step`), and a live heartbeat keeps
sweeping (`Sweep`), which `run_heartbeat` does at every tick, whatever the configuration. `handle_task`
returns because every loop has a step and a time budget. No fairness is assumed of submitters, operators, `--drain`,
workers being spawned, or drain ticks: by default a heartbeat never drains. What needs the sweep is promised if some heartbeat lives again and again
(`Swept`), and what needs a drain under `Attended`, which is a premise of the two properties and not of the specification: some
autonomous heartbeat lives on and its tick comes to drain when there is something to drain for good.
`Admission!FairSpec`: a thread inside `acquire_project_slot` or the finalizer is scheduled. Nothing is assumed
about how long a loop works. `InterruptQueue!FairSpec`: a live loop reaches its
next boundary, and the polling retry of `locked_write` gets the lock if it comes
free again and again (strong fairness on `TakeLock`; a timeout is a fault and bounded).
`TailJobs!TailFairSpec`: a drain goes on unless its process dies, time passes (`Age`), the heartbeat sweeps on its
schedule, and a process with nothing left to do exits. Nothing is assumed of the run, the operators or the faults.
`ResumeClaim!FairSpec`: a process goes on unless it dies, and a patient operator repeats the command for every
address (strong fairness on `Lookup`, since another resume may hold the lock in between). A resume whose claim is no longer its own
gets its refusal; nothing else that fails is promised, and no other plan has to come. `StepLoop!FairSpec`: weak fairness of the whole loop. It is one thread, and a call
of a model ends at the latest by its timeout; nothing is assumed of the operator. `DagLane!FairSpec`: some thread or the coordinator goes on,
as every call of an adapter has a timeout of its own. The lane's own timeout is not relied on.

## Proofs

`TaskQueueProofs` proves, for any set of jobs, processes, `MaxTasks` and
number of deaths, and from `JobAssumption`, `PidAssumption` and `ProcessAssumption` only:

- `TypeCorrect`: `[]TypeOK`;
- `NeverRunTwice`: `[]NoDoubleRun`;
- `DependenciesRunFirst`: `[]DependenciesFirst`;
- `InductiveInvariant`: `[]Inductive`, from which these three follow;
- `DrainedStays`: `Spec => DrainedIsFinal`, and `ClaimsEndByOwner`: `Spec => ClaimEndsByOwner`.

Neither `NoDoubleRun` nor `DependenciesFirst` is inductive. A claim looks at the record and
not at who runs, so `RunIsRecorded` ties the two: while a process runs a task, the record
is claimed in its name, or it was ended for good by a worker's `fail()` or a command. `claim()` accepts neither, and the sweep
releases only claims of processes that do not live. A claim looks at what is left of
`blocked_by`, so `DoneWasFinished` says that what was taken off the list, or reads `done`, was
completed. `RunStep` and `HistoryStep` show, action by action, that a step keeps these. The two action properties need to know who is about to write: by `Ownership` the
record of a task no worker was started for is claimed by whoever runs it or is about to end it. `StatusStep` lists the only ways a status changes.

`AdmissionProofs` proves, for any number of loops, processes, files, polls and deaths, and from
`LoopAssumption` and `BoundAssumption` only:

- `AdmissionTypes`: `[]TypeOK`;
- `GateExcludes`: `[]GatedExclusive`;
- `LockStaysOnPath`: `[]SlotIsOnPath`;
- `GateImplementsSlot`: `Spec => ImplementsSlot`, every step of the gate is a step of `ProjectSlot` or leaves it alone;
- `GateInvariant`: `[]Inductive`, from which these follow;
- `NothingLeaks`: `[]NoLeakedLock`.

The argument follows the cores. An open core has the lock of its file, taken through a thread of its process that is past the gate
(`KeptBy`), no other core has that file, and somebody has a handle on it or is about to close it (`Open`). One thread
closes a core, and every other reference without a handle is to a core that was closed (`Closing`), so a core is never closed
under a loop that got it in time (`Safe`) and never left open by the last of its users. A file that is being unlocked is nobody's any more
(`Unlocking`); a thread at the gate has no lock but the one it is about to publish (`Threads`), and every lock is a
thread's, a core's or about to go (`Owned`, which gives `NoLeakedLock`). All of it, `Cores`, holds whoever goes ungated and whatever is
unlinked. While nobody does, no second file is ever made (`OneFile`); then two admitted loops have cores with the same file, which are the same core,
and a core is shared within its process (`Local`): this is `GatedExclusive`.

`InterruptQueueProofs` proves, for any number of producers, loops, clearers and faults, and from `ActorAssumption`:

- `NothingIsLost`: `[]NoLostInterrupt`;
- `QueueIsChannel`: `Spec => ImplementsChannel`, every step is a post to the channel, a handover of all that is
  pending, or leaves it alone.

`poll()` looks without the lock and acts under it. `LockHolds` says who is inside, and that what a consumer read there is still the file
when it rewrites it, so no row that came in between is written over; `RowsHold` says that a row is its producer's last act, so no producer has two. What
the channel holds is the ids of the unhandled rows in their order (`Pending`, a recursive function), so the refinement needs what that function is
after an append, a torn append and a rewrite. The lemmas unfold it row by row: a first row where it went wrong would be a least one (`Smallest`).

`ClaimProofs` holds the proofs of two claims that are rows of a record, of an operator's question (`OperatorAsk`) and of a run's tail
(`TailJobs`); the two have no variable in common. It proves, for any number of calls, processes, questions, sweeps and deaths, and from
`AskAssumption`:

- `DeliveredAtMostOnce`: `[]DeliveredOnce`;
- `ClaimedAnswerStands`: `Spec => AnswerStands`;
- `ResumedOnce`: `[]OneResume`, if all answers come from one process (`OneProcess`);
- `AskTypeCorrect`: `[]TypeOK`.

The record names one call, and the properties speak of all of them. `AskInv` says that questions are numbered as they are asked and a live one is the last
(`Counts`), what a run that has not paused and was not swept yet can have on record (`Unpaused`, `FirstSegment`), that a call which
delivers is the one whose delivery is on record (`OneDelivery`), which a sweep's stamp and a later claim leave there, and that a call has no task before it has enqueued one (`Tasks`). `Resumed` adds for `OneResume` that an answered question names the resume that is under way, as long as no write that compares nothing
has undone one and no re-drive raced it. The hypothesis `OneProcess` is the code's own: `_last_resume_failed` asks a set of enqueues in flight that is a
variable of its process, and with two processes TLC finds the second resume.

And for any number of sweeps, operators, loops, deaths and faults:

- `OneDrainerAtATime`: `[]OneDrainer`;
- `DoneStaysDone`: `TailSpec => DoneIsNotRun`.

`OneDrainer` looks at the drainers only. What keeps a second one out is the claim row, so `ClaimInv` adds that whoever
drains lives and is the process of the last claim row: a claim is then refused while a drainer lives, and a release frees no claim but its own.
A drainer works through a list it read with its claim; by `ListInv` each job is on it once and none is done, which stays so because nobody else
appends done rows meanwhile. All of it holds until the gate escalates.

`ResumeClaimProofs` proves, for any plan, any number of `maro resume` and library resumes, deaths, faults and forced claims, and from
`ProcAssumption` and `BoundAssumption`:

- `PlanHasOneExecutor`: `[]OneExecutor`;
- `NothingReplays`, `SpentForGood`, `ClosedForGood`: `Spec => NoReplay`, `SpentStaysSpent`, `ClosedRunsNothing`;
- `TypeCorrect`: `[]TypeOK`, and `ClaimInvariant`: `[]IInv`, from which all follow.

The locks do not exclude: one resume locks the run and another the loop. What excludes is the checkpoint files. Each claim makes the place the
claimant writes to the next of a chain (the same file again, for a `maro resume` of the run), and the chain has one end (`OneLeaf`): a file that is not claimed, or whose claimant has written nothing yet. Whoever has claimed
or runs is alone (`Alone`) and holds that end (`Hold`): it claimed the file, or wrote it, or there is no end at all (`Lost`), since nobody has written yet or
another plan was written over the last file. Then nobody can claim until it has written again. Claims are
taken by comparison with the file looked at before, and `Fresh` and `Free` carry what the probe found over to the claim: no process is
known before it starts, and a lease found free is not taken again. `Record` says that the end of the chain and whoever goes on
with it are as far as any checkpoint ever was, which gives `NoReplay`. `Closed` and `OwnerFirst` say where a `maro resume` can be while the first owner
lives and after the run was closed, until another plan comes (`reran`). `Files` says who can have written, claimed and consumed what.

`StepLoopProofs` proves, for any plan, prerequisites, notes and bounds, and from `StepAssumption` and `BoundAssumption`:

- `NotesReach`: `[]ContextReaches`. `Ledger` adds that between two prompts nothing is on its way to one, so a prompt that takes over
  cannot overwrite what an earlier one carried.
- `NoStepIsLost`: `[]NoStepVanishes`, if the advisor is off. Every way to leave a step puts it back (`RequeueAccounts`),
  writes its verdict (`RowAccounts`) or draws up others for it (`BreakAccounts`); the lemmas say what each does to the
  list. With the types that these need (`Shape`) the property is inductive.
- `LandingStays`, `EveryEndIsTyped`: `[]LandingStaysVisible`, `[]EndIsTyped`. Neither is inductive: a verdict that was set in the middle
  of a run might be laundered, or the synthesis step dropped. `Ends` says that a run that goes on has no verdict but that of a
  landing, and that the synthesis step of a landing is next, in hand, or has its row.
- `RowsAreSaved`: `[]EveryRowSaved`, from the counts of rows (`Saved`).
- `DoneOnGround`: `[]DoneOnDoneGround`, with the advisor on or off. The gate looks at rows that may change later: a retry overwrites a row, and a
  replan may put steps back. `Ground` adds the order of the plan: `remaining` keeps it, and what comes before the step in hand is not open any more, so
  its row stands or its work went to others; and a step that is being run passed the gate on rows that still say so. The plan's numbers are bound
  (`Intact`); otherwise the gate is soft and there is nothing to prove.

`DagLaneProofs` proves, for any plan, edges, pool, number of resumes and failed writes, and from `SizeAssumption` only:

- `TypeCorrect`: `[]TypeOK`;
- `PrerequisitesHold`: `[]PrerequisitesFirst`, the enforced half of which is about lives whose numbers are bound;
- `ReportHolds`: `[]ReportIsTrue`;
- `PauseIsHeld`: `[]PauseHolds`;
- `SavedStays`: `Spec => CheckpointAdvances`.

The coordinator decides from its books, not from the rows. `Phases` ties the books to rows and futures, and `RowsOfFutures` says which row a
step can have while its future is where it is: before it ends, none or one of the scheduler's. `ReleasesHold` is the heart:
a released step has a row that no thread will touch, and if it is unmet, every step with an enforced edge to it is blocked or about
to be. From it follows that whatever was submitted stands on done ground (`SubmittedOnGround`). That `Gated` is closed is a lemma of its
own (`GatedClosed`). `HaltHolds` counts: when the first refusal is published its step holds a thread, so at most
the others are on their way to the adapter, and nobody begins after that. `SavedHolds` keeps the checkpoint
behind the rows, since no commit takes back a row that is done. Edges need not be acyclic. What a step waits for is fixed within a life and holds its
enforced edges (`WaitsKept`, `EnforcedWaits`), bound or not.

`ItemMarksProofs` proves, for any plan, lives, retries, jams and edits, and from `PlanAssumption`:

- `FinishedHolds`: `[]FinishedIsDone`;
- `WhatIsAppliedIsShown`: `[]AppliedIsShown`.

The checkpoint tells rows apart by line numbers, so the argument is about numbers. The steps ahead have numbers that differ from each other
(`Located`) and from those of every row of another step (`Placed`); every row has a number that was given out (`Numbered`), and what is appended
gets numbers above these (`Appended`, which rests on the ranks of the steps, `RankFacts`). A resume that has read its lines and
not yet mirrored the plan has good lines or none. All of it holds while no line is removed (`~cut`): a removal alone makes numbers come again.

`AppliedIsShown` relates the rows to what the file was last told, over rows that share a step. `MInv` adds that each line of a step ahead carries its text,
so that a mark lands on the step it is meant for; that nothing follows the row of a step that is done; that a step with rows on two lines is in the file twice, as when it was
mirrored again; and that the done rows of the checkpoint are among those of the run that goes on. It holds while no line moves under a living run (`~strayed`), as the property says.

Model-checked only: liveness (`ClaimsEnd`, `ClaimableIsTaken`, `UnblockedIsTaken`, `GateDecides`,
`PostedIsGiven`, `TailFinishes`, `NeverWedged`, `LoopEnds`, `LaneReturns`), which needs fairness and is out of the prover's reach. Every safety
property of a passing run is a theorem, `NoStepVanishes` under `~Advisor` and `OneResume` under `OneProcess`, as they are checked. The
type invariants of `TailJobs` and `StepLoop` are proved in the parts the theorems need. No module the proofs use has a `RECURSIVE` operator. Recursive functions can be reasoned about by least counterexamples, as for `Pending`.

## Abstractions

- A pid is never reused, and `_pid_alive` is exact.
- A read of a task file is atomic, as `_atomic_write` renames. Reads of metadata are too.
- What `handle_task` does with a task is its outcome only. Tasks it enqueues itself appear as `Enqueue`.
- What `ref()` returns on the stack of a comparison is gone with the step; only locals, handles and the frame of `__del__` keep a core.
- Interrupt rows with an unreadable flag behave as torn ones. Intent and message are left out, except for `stop`.
- `file_lock`'s fail-open mode, off by default and documented as unsafe, is left out: a lock that times out raises.
- `OperatorAsk`: time is not modelled; any pending question may be past its deadline when `sweep()` lists it. Resume tasks are not archived or
  recovered by hand there: one that was archived after it ran would read as missing, and an answer would re-drive it.
- Loops die in `Admission` and `InterruptQueue`, answering processes in `OperatorAsk`; the asking loop does not die there.
- Environment requests add fields to the record after the claim and are left out.
- `TailJobs`: jobs that cannot be recorded are run by their caller outside the store and leave the model. The age of the
  store is a flag. A runner does its work or raises; either ends in a done row.
- `ResumeClaim`: a resume of a checkpoint that is complete, or that another loop has overwritten, is a refusal (the library starts
  a fresh run instead, with a plan of its own). What resumes do with the checkpoint of another plan, and the locks they take for it, is left out: it is the
  same protocol on another chain. At most one such loop is followed in `Home`; it may write more than once. The recovery re-run of a library resume writes to a new address and
  is followed only in what it settles. The probes of a directory a command made for itself are left out; they only refuse. Files that cannot be read, claims that cannot be judged and lease
  directories that cannot be written are left out. A refusal after the claim counts as a fault. A patient operator repeats one command
  under one process id. The pid in the metadata is that of the first writer, as in the code.
- `DagLane`: the pool takes any queued future (the code's is first in, first out). Texts, completed context, spend, the effects of a row and
  its mark in `NEXT.md` are left out; a row in the checkpoint is done or it is not. No row is `skipped`, since a step's execution
  never returns it, and so no step is gated before the lane begins (`pre_gated`): a blocked row is
  no finished position, so its step is in the resumed plan itself. A remaining plan without two steps that can run at once goes to another lane.
  The switch for pauses is on. Who may resume is the matter of `ResumeClaim`.
- `ItemMarks`: what a line says is compared exactly (the code strips tags, notes and blanks on both sides). Unreadable files, plans reshaped by splitting,
  items without a line, steps drawn up later, the plan binding and other markers of the file are left out. A step is gated when some row of another step is blocked. A jam that
  meets an append ends the run, which is a death.
- `StepLoop`: the sequential loop. Its batch branch (a plan with parallel levels takes the parallel lane instead), adaptive execution (off by default) and the navigator's override are left out. A
  split always gives two steps, a done step injects at most one, and `BumpBy` is small (ten or more in the code). Of
  the ledger the operator's notes are tracked, one per id; hints, budget lines and hook output ride the same
  ledger and are not told apart. Checkpoint writes do not fail (they may in `ResumeClaim`). `SplitCompound` drains
  the ledger and puts it back before another prompt, which is no change. A step that asked for information comes back as no item of the plan (its item is -1);
  `outcome` still keeps its row under its number, which the gate does not read, as it takes a step that was handed over for satisfied.

## Not modelled

`PROJECT.json` gives the reason for each part. What a plan says and whether a step is done are a language model's
judgement; the front door, memory, skills and verification score text with it. Channels, reports, experiments and
configuration are input, output and readers. What remains and can be modelled is in the plan.

## Plan

Done: `TaskStore`, `TaskQueue`, `ProjectSlot`, `Admission`, `InterruptChannel`, `InterruptQueue`, `OperatorAsk`,
`TailJobs`, `ResumeClaim`, `StepLoop`, `DagLane`, `ItemMarks`; `TaskQueueProofs`, `AdmissionProofs`, `InterruptQueueProofs`, `ClaimProofs`,
`ResumeClaimProofs`, `StepLoopProofs`, `DagLaneProofs`, `ItemMarksProofs`.

1. Proofs: an abstract claim that `TailJobs` and `ResumeClaim` both implement, in place of their separate invariants; the type invariants of `TailJobs` and `StepLoop`.
2. The fan-out of independent steps (`_run_steps_parallel`) and the `NEXT.md` marks of the parallel lane.
3. `Backlog`: the heartbeat's drain of `NEXT.md`, DOING pids and the sweep of stranded items; scheduled jobs; worktree merge-back.
4. The learning stores: the circuit breaker of skills, standing rules, suggestions; the cooldowns of backends.
