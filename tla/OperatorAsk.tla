---------------------------- MODULE OperatorAsk ----------------------------
(***************************************************************************)
(* A worker's question to the operator (src/src/operator_ask.py): the loop *)
(* stamps the question on the run's metadata, either live, while the step  *)
(* waits for an answer file, or as a pause; processes call answer(), which *)
(* delivers to the waiting step or claims the question in the metadata and *)
(* enqueues a resume of the run; sweep() expires questions.  Each write of *)
(* the metadata happens under its lock and is one step; reads are not      *)
(* locked.  One run is modelled, through its resumed segments.             *)
(***************************************************************************)
EXTENDS Naturals, FiniteSets

CONSTANTS
    Answer,      \* calls of answer(); the call's name is also its job id
    Process,
    Home,        \* the process a call is made in
    None,
    MaxAsks,     \* questions the run asks (bound)
    MaxSweeps,   \* sweeps that run (bound)
    MaxCrashes,  \* answering processes that die (bound)
    Live         \* workers may ask live

ASSUME AskAssumption ==
    /\ Home \in [Answer -> Process] /\ None \notin Answer
    /\ MaxAsks \in Nat \ {0} /\ MaxSweeps \in Nat /\ MaxCrashes \in Nat
    /\ Live \in BOOLEAN

VARIABLES
    rec,      \* metadata.operator_ask of the run
    paused,   \* metadata.pause_reason is set; nothing ever unsets it
    verdict,  \* metadata.goal_verdict_source is set
    run,      \* what the loop that works on the run does next
    seg,      \* the resume it runs for, None in the first segment
    asked,    \* questions the run asked so far
    mark,     \* scratch/.ask-live.json: the question it announces, or 0
    file,     \* scratch/ask-answer.json: the answer in it, or None
    task,     \* the resume each call enqueued
    apc, saw, \* each call: what it does next, the question it read
    missed,   \* the resume whose task a call, before its claim, did not find
    sweep,    \* sweep(): what it does next and the record it read
    bounds,   \* sweeps and crashes so far
    undone,   \* history: a write that compares nothing undid another one
    raced,    \* history: questions a re-drive claimed beside a published resume
    resumes,  \* history: the question each call claimed for its resume, or 0
    heard     \* history: answers the worker read, and for which question

meta == <<rec, paused, verdict>>
loopVars == <<run, seg, asked, mark>>
callVars == <<apc, saw, missed, raced, resumes>>
vars == <<meta, loopVars, file, task, callVars, sweep, bounds, undone, heard>>

Record == [q : 0..MaxAsks, status : {"none", "pending", "answered", "expired"},
           live : BOOLEAN, delivery : BOOLEAN, by : Answer \cup {None}, job : Answer \cup {None}]
Asked(n, live) == [q |-> n, status |-> "pending", live |-> live, delivery |-> FALSE, by |-> None, job |-> None]
NoRecord == [Asked(0, FALSE) EXCEPT !.status = "none"]

TypeOK ==
    /\ rec \in Record
    /\ paused \in BOOLEAN /\ verdict \in BOOLEAN
    /\ run \in {"working", "waiting", "ended", "closing", "pausing", "tail", "idle"}
    /\ seg \in Answer \cup {None}
    /\ asked \in 0..MaxAsks /\ mark \in 0..MaxAsks
    /\ file \in Answer \cup {None}
    /\ task \in [Answer -> {"none", "queued", "routed", "running", "ran", "failed"}]
    /\ apc \in [Answer -> {"idle", "peek", "claimlive", "reread", "deliver", "claim", "look",
                           "enqueue", "queued", "delivered", "refused", "dead"}]
    /\ saw \in [Answer -> 0..MaxAsks]
    /\ missed \in [Answer -> Answer \cup {None}]
    /\ raced \subseteq 0..MaxAsks
    /\ sweep \in [pc : {"idle", "listed", "read"}, rec : Record]
    /\ bounds \in [sweeps : 0..MaxSweeps, crashes : 0..MaxCrashes]
    /\ undone \in BOOLEAN
    /\ resumes \in [Answer -> 0..MaxAsks]
    /\ heard \subseteq Answer \X (1..MaxAsks)

Init ==
    /\ rec = NoRecord /\ paused = FALSE /\ verdict = FALSE
    /\ run = "working" /\ seg = None /\ asked = 0 /\ mark = 0
    /\ file = None
    /\ task = [a \in Answer |-> "none"]
    /\ apc = [a \in Answer |-> "idle"]
    /\ saw = [a \in Answer |-> 0]
    /\ missed = [a \in Answer |-> None]
    /\ raced = {}
    /\ sweep = [pc |-> "idle", rec |-> NoRecord]
    /\ bounds = [sweeps |-> 0, crashes |-> 0]
    /\ undone = FALSE
    /\ resumes = [a \in Answer |-> 0]
    /\ heard = {}

-----------------------------------------------------------------------------
(* The loop.                                                               *)

Rest == <<task, callVars, sweep, bounds, undone>>

\* The lock of the metadata is free.  A claim that has to ask for its resume
\* keeps it from the list of tasks to the set of enqueues in flight; every other
\* write is one step.
Free == \A a \in Answer : apc[a] # "look"

\* watch_live(): announce a live ask; when the worker asks again within the
\* step, the old mark and answer file are retired first.
AskLive ==
    /\ Live /\ run \in {"working", "waiting"} /\ asked < MaxAsks /\ Free
    /\ asked' = asked + 1
    /\ rec' = Asked(asked', TRUE)
    /\ mark' = asked'
    /\ file' = IF mark # 0 THEN None ELSE file
    /\ run' = "waiting"
    /\ UNCHANGED <<paused, verdict, seg, heard, Rest>>

\* The worker finds the answer file it polls for.
Hear ==
    /\ run = "waiting" /\ file # None
    /\ <<file, mark>> \notin heard
    /\ heard' = heard \cup {<<file, mark>>}
    /\ UNCHANGED <<meta, loopVars, file, Rest>>

\* The step is over: the worker returned, or its window closed.
StepEnds ==
    /\ run = "waiting"
    /\ run' = "ended"
    /\ UNCHANGED <<meta, seg, asked, mark, file, heard, Rest>>

\* close_live(): retire the mark and the answer file ...
CloseFiles ==
    /\ run = "ended"
    /\ run' = IF file # None THEN "working" ELSE "closing"
    /\ mark' = IF file # None THEN 0 ELSE mark
    /\ file' = None
    /\ UNCHANGED <<meta, seg, asked, heard, Rest>>

\* ... and ask the metadata too.
CloseMeta ==
    /\ run = "closing"
    /\ LET answered == rec.live /\ rec.status = "answered" IN
        /\ run' = IF answered THEN "working" ELSE "pausing"
        /\ mark' = IF answered THEN 0 ELSE mark
    /\ UNCHANGED <<meta, seg, asked, file, heard, Rest>>

\* pause_for_ask(record = the mark): the live question becomes a pause.
PauseLive ==
    /\ run = "pausing" /\ Free
    /\ rec' = Asked(mark, FALSE)
    /\ paused' = TRUE
    /\ run' = "tail"
    /\ mark' = 0
    /\ undone' = (undone \/ rec.status = "answered")
    /\ UNCHANGED <<verdict, seg, asked, file, heard, task, callVars, sweep, bounds>>

\* pause_for_ask() for a question found after the step.
PauseForAsk ==
    /\ run = "working" /\ asked < MaxAsks /\ Free
    /\ asked' = asked + 1
    /\ rec' = Asked(asked', FALSE)
    /\ paused' = TRUE
    /\ run' = "tail"
    /\ UNCHANGED <<verdict, seg, mark, file, heard, Rest>>

\* The loop ends without a question, judged or not.
Finish ==
    /\ run = "working" /\ Free
    /\ verdict' \in {verdict, TRUE}
    /\ run' = "tail"
    /\ UNCHANGED <<rec, paused, seg, asked, mark, file, heard, Rest>>

\* The post-loop tail is through and the project slot is released.
EndSegment ==
    /\ run = "tail"
    /\ run' = "idle"
    /\ task' = [a \in Answer |-> IF a = seg THEN "ran" ELSE task[a]]
    /\ seg' = None
    /\ UNCHANGED <<meta, asked, mark, file, callVars, sweep, bounds, undone, heard>>

-----------------------------------------------------------------------------
(* The resumes: handle_task() of a loop_continuation.                      *)

\* A paused run without a verdict is resumed; any other starts a new run.
Route(a) ==
    /\ task[a] = "queued"
    /\ task' = [task EXCEPT ![a] = IF paused /\ ~verdict THEN "routed" ELSE "ran"]
    /\ UNCHANGED <<meta, loopVars, file, callVars, sweep, bounds, undone, heard>>

\* The resume waits for the project slot ...
Admit(a) ==
    /\ task[a] = "routed" /\ run = "idle"
    /\ task' = [task EXCEPT ![a] = "running"]
    /\ run' = "working"
    /\ seg' = a
    /\ UNCHANGED <<meta, asked, mark, file, callVars, sweep, bounds, undone, heard>>

\* ... and is refused_busy when the wait is over.
RefuseBusy(a) ==
    /\ task[a] = "routed" /\ run # "idle"
    /\ task' = [task EXCEPT ![a] = "failed"]
    /\ UNCHANGED <<meta, loopVars, file, callVars, sweep, bounds, undone, heard>>

-----------------------------------------------------------------------------
(* answer().                                                               *)

CallOnly == <<loopVars, task, sweep, bounds, undone, heard>>

CallGoto(a, where) == apc' = [apc EXCEPT ![a] = where]

\* Mutant: ids on their way to the queue are not remembered.
InFlightForgotten(p) == {}

\* _ENQUEUES_IN_FLIGHT, a module variable of each process.
InFlight(p) == {a \in Answer : Home[a] = p /\ apc[a] = "enqueue"}

Unanswered == rec.status \in {"pending", "expired"}

\* An answered question may be answered again only when its resume never ran;
\* a live delivery is final.  The resume never ran if its task says so ...
Resumable == rec.status = "answered" /\ ~rec.delivery /\ rec.job # None

ResumeRefused == Resumable /\ task[rec.job] = "failed"

\* ... or if list_tasks() finds none, and the set of enqueues in flight, which
\* _last_resume_failed() asks after that, has not got it either.
ResumeMissing == Resumable /\ task[rec.job] = "none"

Read(a) ==
    /\ apc[a] = "idle"
    /\ saw' = [saw EXCEPT ![a] = rec.q]
    /\ missed' = [missed EXCEPT ![a] = IF ~verdict /\ ResumeMissing THEN rec.job ELSE None]
    /\ CallGoto(a, IF verdict THEN "refused"
                   ELSE IF ResumeMissing THEN "peek"
                   ELSE IF rec.live /\ rec.status = "pending" /\ ~paused THEN "claimlive"
                   ELSE IF Unanswered \/ ResumeRefused THEN "claim"
                   ELSE "refused")
    /\ UNCHANGED <<meta, file, raced, resumes, CallOnly>>

Peek(a) ==
    /\ apc[a] = "peek"
    /\ CallGoto(a, IF missed[a] \in InFlight(Home[a]) THEN "refused" ELSE "claim")
    /\ missed' = [missed EXCEPT ![a] = None]
    /\ UNCHANGED <<meta, file, saw, raced, resumes, CallOnly>>

\* Mutant: the live claim does not look at the status again.
LiveClaimableTwice(a) == rec.live /\ ~paused /\ ~verdict /\ rec.q = saw[a]

LiveClaimable(a) ==
    rec.live /\ rec.status = "pending" /\ ~paused /\ ~verdict /\ rec.q = saw[a]

ClaimLive(a) ==
    /\ apc[a] = "claimlive" /\ Free
    /\ IF LiveClaimable(a)
       THEN rec' = [rec EXCEPT !.status = "answered", !.delivery = TRUE, !.by = a]
            /\ CallGoto(a, "deliver")
       ELSE UNCHANGED rec /\ CallGoto(a, "reread")
    /\ UNCHANGED <<paused, verdict, file, saw, missed, raced, resumes, CallOnly>>

\* A just-closed live window becomes the queued answer path.
Reread(a) ==
    /\ apc[a] = "reread"
    /\ CallGoto(a, IF paused THEN "claim" ELSE "refused")
    /\ UNCHANGED <<meta, file, saw, missed, raced, resumes, CallOnly>>

Deliver(a) ==
    /\ apc[a] = "deliver"
    /\ file' = a
    /\ CallGoto(a, "delivered")
    /\ UNCHANGED <<meta, saw, missed, raced, resumes, CallOnly>>

\* The answer file cannot be written: the claim is rolled back if it is still
\* this call's own.
DeliverFails(a) ==
    /\ apc[a] = "deliver" /\ Free
    /\ rec' = IF rec.status = "answered" /\ rec.live /\ rec.delivery /\ rec.by = a
              THEN [rec EXCEPT !.status = "pending", !.delivery = FALSE, !.by = None] ELSE rec
    /\ CallGoto(a, "refused")
    /\ UNCHANGED <<paused, verdict, file, saw, missed, raced, resumes, CallOnly>>

\* What a claim writes.
Claims(a) ==
    /\ rec' = [rec EXCEPT !.status = "answered", !.by = a, !.job = a]
    /\ resumes' = [resumes EXCEPT ![a] = rec.q]
    /\ CallGoto(a, "enqueue")

\* The conditional claim, decided from the locked snapshot ...
Claim(a) ==
    /\ apc[a] = "claim" /\ Free
    /\ IF ~verdict /\ (Unanswered \/ ResumeRefused) THEN Claims(a)
       ELSE /\ CallGoto(a, IF ~verdict /\ ResumeMissing THEN "look" ELSE "refused")
            /\ UNCHANGED <<rec, resumes>>
    /\ UNCHANGED <<paused, verdict, file, saw, missed, raced, CallOnly>>

\* ... and, where the list had no task, from the set of enqueues in flight.  The
\* task may have been published since, and its id discarded.
Look(a) ==
    /\ apc[a] = "look"
    /\ IF rec.job \notin InFlight(Home[a])
       THEN /\ Claims(a)
            /\ raced' = IF task[rec.job] # "none" THEN raced \cup {rec.q} ELSE raced
       ELSE UNCHANGED <<rec, resumes, raced>> /\ CallGoto(a, "refused")
    /\ UNCHANGED <<paused, verdict, file, saw, missed, CallOnly>>

\* The metadata cannot be stamped: the caller is told to retry.
StampFails(a) ==
    /\ apc[a] \in {"claimlive", "claim", "look"}
    /\ CallGoto(a, "refused")
    /\ UNCHANGED <<meta, file, saw, missed, raced, resumes, CallOnly>>

Enqueue(a) ==
    /\ apc[a] = "enqueue"
    /\ task' = [task EXCEPT ![a] = "queued"]
    /\ CallGoto(a, "queued")
    /\ UNCHANGED <<meta, loopVars, file, saw, missed, raced, resumes, sweep, bounds, undone, heard>>

\* Mutant: a failed enqueue reopens the question.
EnqueueFailsReopens(a) ==
    /\ apc[a] = "enqueue"
    /\ rec' = [rec EXCEPT !.status = "pending"]
    /\ CallGoto(a, "refused")
    /\ UNCHANGED <<paused, verdict, file, saw, missed, raced, resumes, CallOnly>>

\* enqueue() raised; the id is not in flight any more.
EnqueueFails(a) ==
    /\ apc[a] = "enqueue"
    /\ CallGoto(a, "refused")
    /\ UNCHANGED <<meta, file, saw, missed, raced, resumes, CallOnly>>

Done == {"idle", "queued", "delivered", "refused", "dead"}

\* An answering process dies between two steps of its calls.
Crash(p) ==
    /\ bounds.crashes < MaxCrashes
    /\ \E a \in Answer : Home[a] = p /\ apc[a] \notin Done
    /\ bounds' = [bounds EXCEPT !.crashes = @ + 1]
    /\ apc' = [a \in Answer |-> IF Home[a] = p /\ apc[a] \notin Done THEN "dead" ELSE apc[a]]
    /\ UNCHANGED <<meta, loopVars, file, task, saw, missed, raced, resumes, sweep, undone, heard>>

-----------------------------------------------------------------------------
(* sweep(): list, read and stamp, none of it under one lock.  Any pending  *)
(* question may be past its deadline; that of a live one is the end of its *)
(* window, which the step may outlast.                                     *)

SweepOnly == <<paused, verdict, loopVars, file, task, callVars, heard>>

SweepList ==
    /\ sweep.pc = "idle" /\ bounds.sweeps < MaxSweeps
    /\ rec.status = "pending"
    /\ bounds' = [bounds EXCEPT !.sweeps = @ + 1]
    /\ sweep' = [sweep EXCEPT !.pc = "listed"]
    /\ UNCHANGED <<rec, undone, SweepOnly>>

SweepRead ==
    /\ sweep.pc = "listed"
    /\ sweep' = [pc |-> "read", rec |-> rec]
    /\ UNCHANGED <<rec, bounds, undone, SweepOnly>>

SweepStamp ==
    /\ sweep.pc = "read" /\ Free
    /\ rec' = [sweep.rec EXCEPT !.status = "expired"]
    /\ undone' = (undone \/ rec.status = "answered" \/ rec # sweep.rec)
    /\ sweep' = [pc |-> "idle", rec |-> NoRecord]
    /\ UNCHANGED <<bounds, SweepOnly>>

Call(a) ==
    \/ Read(a) \/ Peek(a) \/ Look(a) \/ ClaimLive(a) \/ Reread(a) \/ Deliver(a) \/ DeliverFails(a)
    \/ Claim(a) \/ StampFails(a) \/ Enqueue(a) \/ EnqueueFails(a)

Next ==
    \/ AskLive \/ Hear \/ StepEnds \/ CloseFiles \/ CloseMeta \/ PauseLive
    \/ PauseForAsk \/ Finish \/ EndSegment
    \/ \E a \in Answer : Route(a) \/ Admit(a) \/ RefuseBusy(a) \/ Call(a)
    \/ \E p \in Process : Crash(p)
    \/ SweepList \/ SweepRead \/ SweepStamp

Spec == Init /\ [][Next]_vars

-----------------------------------------------------------------------------
(* Properties.                                                             *)

\* A question is resumed at most once: however answers, failed enqueues, dead
\* answerers, refused resumes and live windows interleave, no second resume of
\* the same question is alive beside one that is queued, running or has run.  A
\* write that undid an answer has reopened its question; and a re-drive does not
\* see the one resume that was published, and left the set of enqueues in flight,
\* between its list of the tasks and its look at that set.
OneResume ==
    ~undone => \A a, b \in Answer :
        /\ resumes[a] \notin {0} \cup raced /\ resumes[a] = resumes[b]
        /\ {task[a], task[b]} \subseteq {"queued", "routed", "running", "ran"}
        => a = b

\* An answer claimed for a resume becomes an open question again.
Reopened == rec.status = "answered" /\ rec.job # None /\ rec'.q = rec.q /\ rec'.status # "answered"

\* An answer claimed for a resume stays on record until the run asks its next
\* question: nothing undoes it but the two writes that compare nothing, the stamp
\* of a sweep, and the pause of a live ask where answers do not wait for the live
\* window: in a resumed run, or once a sweep has expired the ask.
AnswerStands ==
    [][Reopened => SweepStamp \/ (PauseLive /\ (seg # None \/ bounds.sweeps > 0))]_vars

\* Two live responders deliver at most one answer to a question, also when a
\* claim is rolled back or the window closes in between.
DeliveredOnce ==
    \A a, b \in Answer :
        apc[a] = "delivered" /\ apc[b] = "delivered" /\ saw[a] = saw[b] => a = b

=============================================================================
