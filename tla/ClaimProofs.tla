---------------------------- MODULE ClaimProofs ----------------------------
(***************************************************************************)
(* Two claims that are rows of a record: of an operator's question, by the *)
(* call that answers it (OperatorAsk), and of the tail of a run, by the    *)
(* process that drains it (TailJobs).  Whoever may claim next decides from *)
(* the record under its lock; what it decides from says nothing of who is  *)
(* at work, so the invariants tie the record to the workers.               *)
(***************************************************************************)
EXTENDS OperatorAsk, TailJobs, TLAPS, FiniteSetTheorems, SequenceTheorems

InWindow == run \in {"waiting", "ended", "closing", "pausing"}
Early == {"idle", "peek", "claimlive", "reread", "deliver", "claim", "look"}

\* Questions are numbered as they are asked, and the mark of a live one is the last.
Counts ==
    /\ rec.q <= asked /\ sweep.rec.q <= asked
    /\ InWindow => mark = asked /\ asked > 0
    /\ \A a \in Answer : saw[a] <= asked

\* Until a question has paused the run, or a sweep has run, every question is live, and
\* nobody claims one for a resume.
Unpaused ==
    ~paused /\ bounds.sweeps = 0 =>
        /\ rec.job = None /\ rec.status # "expired" /\ (rec.live \/ rec.status = "none")
        /\ sweep.pc = "idle"
        /\ \A a \in Answer : apc[a] \notin {"peek", "claim", "look", "enqueue"}

FirstSegment == seg = None /\ (InWindow \/ run = "working") => ~paused

\* A question that is being delivered is pending no more, nor for anybody else's
\* delivery; what a failed delivery rolls back is its own claim, and no resume's.
Taken(a) == apc[a] \in {"deliver", "delivered"}
OneDelivery ==
    /\ \A a \in Answer : Taken(a) /\ ~paused /\ saw[a] = rec.q => rec.status # "pending"
    /\ \A a \in Answer : apc[a] = "deliver" /\ rec.status = "answered" /\ rec.by = a
                         => saw[a] = rec.q /\ rec.job = None
    /\ rec.status = "pending" => rec.job = None
    /\ \A a, b \in Answer : Taken(a) /\ Taken(b) /\ saw[a] = saw[b] => a = b

\* The resume of a question that is on its way, queued or run is the one on its
\* record, unless a re-drive raced it; one that is neither never will be.
Viable(a) ==
    resumes[a] \notin {0} \cup raced /\ (task[a] \in {"queued", "routed", "running", "ran"} \/ apc[a] = "enqueue")
Tasks ==
    \A a \in Answer :
       /\ apc[a] \in Early => resumes[a] = 0
       /\ apc[a] \in Early \cup {"enqueue"} => task[a] = "none"
       /\ a = seg => task[a] = "running"
Resumed ==
    ~undone =>
       /\ rec.q = asked
       /\ \A a \in Answer : resumes[a] <= asked
       /\ \A a \in Answer : Viable(a) /\ resumes[a] = rec.q => rec.status = "answered" /\ rec.job = a
       /\ \A a, b \in Answer : Viable(a) /\ Viable(b) /\ resumes[a] = resumes[b] => a = b

AskInv == TypeOK /\ Counts /\ Unpaused /\ FirstSegment /\ OneDelivery /\ Tasks

-----------------------------------------------------------------------------
(* The parts of a step.                                                    *)

Loop ==
    AskLive \/ Hear \/ StepEnds \/ CloseFiles \/ CloseMeta \/ PauseLive \/ PauseForAsk
      \/ Finish \/ EndSegment
Route1(a) == Route(a) \/ Admit(a) \/ RefuseBusy(a)
Sweeps == SweepList \/ SweepRead \/ SweepStamp

LEMMA AskTypes ==
    /\ \A n \in 0..MaxAsks : \A l \in BOOLEAN : Asked(n, l) \in Record
    /\ NoRecord \in Record
    /\ \A r \in Record :
          /\ [r EXCEPT !.status = "expired"] \in Record
          /\ [r EXCEPT !.status = "pending", !.delivery = FALSE, !.by = None] \in Record
          /\ \A a \in Answer : /\ [r EXCEPT !.status = "answered", !.delivery = TRUE, !.by = a] \in Record
                               /\ [r EXCEPT !.status = "answered", !.by = a, !.job = a] \in Record
<1>1. \A n \in 0..MaxAsks : \A l \in BOOLEAN : Asked(n, l) \in Record
  BY DEF Asked, Record
<1>2. NoRecord \in Record
  <2>1. Asked(0, FALSE) \in Record
    BY AskAssumption DEF Asked, Record
  <2> QED BY <2>1 DEF NoRecord, Record
<1>3. ASSUME NEW r \in Record
      PROVE  /\ [r EXCEPT !.status = "expired"] \in Record
             /\ [r EXCEPT !.status = "pending", !.delivery = FALSE, !.by = None] \in Record
             /\ \A a \in Answer : /\ [r EXCEPT !.status = "answered", !.delivery = TRUE, !.by = a] \in Record
                                  /\ [r EXCEPT !.status = "answered", !.by = a, !.job = a] \in Record
  BY DEF Record
<1> QED BY <1>1, <1>2, <1>3

LEMMA TypeStep == TypeOK /\ Counts /\ [Next]_vars => TypeOK'
<1> SUFFICES ASSUME TypeOK, Counts, [Next]_vars PROVE TypeOK'
  OBVIOUS
<1>0. MaxAsks \in Nat \ {0} /\ MaxSweeps \in Nat /\ MaxCrashes \in Nat
  BY AskAssumption
<1>1. CASE Loop
  <2>1. CASE AskLive
    <3>1. asked' \in 0..MaxAsks
      BY <2>1, <1>0 DEF AskLive, TypeOK
    <3>2. rec' \in Record
      BY <2>1, <3>1, AskTypes DEF AskLive
    <3> QED BY <2>1, <3>1, <3>2 DEF AskLive, TypeOK, Rest, callVars
  <2>2. CASE Hear
    <3>1. mark \in 1..MaxAsks /\ file \in Answer
      BY <2>2, <1>0 DEF Hear, Counts, InWindow, TypeOK
    <3> QED BY <2>2, <3>1 DEF Hear, TypeOK, meta, loopVars, Rest, callVars
  <2>3. CASE StepEnds \/ CloseFiles \/ CloseMeta
    <3>1. mark' \in 0..MaxAsks /\ run' \in {"ended", "working", "closing", "pausing"} /\ file' \in {file, None}
      BY <2>3, <1>0 DEF StepEnds, CloseFiles, CloseMeta, TypeOK
    <3>2. UNCHANGED <<meta, seg, asked, heard, Rest>>
      BY <2>3 DEF StepEnds, CloseFiles, CloseMeta
    <3> QED BY <3>1, <3>2 DEF TypeOK, meta, Rest, callVars
  <2>7. CASE Finish
    <3>1. verdict' \in BOOLEAN
      BY <2>7 DEF Finish, TypeOK
    <3> QED BY <2>7, <3>1 DEF Finish, TypeOK, Rest, callVars
  <2>4. CASE PauseLive
    <3>1. rec' \in Record
      BY <2>4, AskTypes DEF PauseLive, TypeOK
    <3>2. undone' \in BOOLEAN
      BY <2>4 DEF PauseLive, TypeOK
    <3>3. /\ UNCHANGED <<verdict, seg, asked, file, heard, task, sweep, bounds, callVars>>
          /\ paused' = TRUE /\ run' = "tail" /\ mark' = 0
      BY <2>4 DEF PauseLive, callVars
    <3> QED BY <1>0, <3>1, <3>2, <3>3 DEF TypeOK, callVars
  <2>5. CASE PauseForAsk
    <3>1. asked' \in 0..MaxAsks
      BY <2>5, <1>0 DEF PauseForAsk, TypeOK
    <3>2. rec' \in Record
      BY <2>5, <3>1, AskTypes DEF PauseForAsk
    <3> QED BY <2>5, <3>1, <3>2 DEF PauseForAsk, TypeOK, Rest, callVars
  <2>6. CASE EndSegment
    BY <2>6 DEF EndSegment, TypeOK, meta, callVars
  <2> QED BY <1>1, <2>1, <2>2, <2>3, <2>4, <2>5, <2>6, <2>7 DEF Loop
<1>2. ASSUME NEW a \in Answer, Route1(a) PROVE TypeOK'
  BY <1>2 DEF Route1, Route, Admit, RefuseBusy, TypeOK, meta, loopVars, callVars
<1>3. ASSUME NEW a \in Answer, Call(a) PROVE TypeOK'
  <2>1. CASE Read(a)
    <3>1. rec.q \in 0..MaxAsks
      BY DEF TypeOK, Record
    <3>2. ResumeMissing => rec.job \in Answer
      BY DEF ResumeMissing, Resumable, TypeOK, Record
    <3>3. missed' \in [Answer -> Answer \cup {None}]
      BY <2>1, <3>2 DEF Read, TypeOK
    <3> QED BY <2>1, <3>1, <3>3 DEF Read, CallGoto, TypeOK, meta, loopVars, CallOnly
  <2>2. CASE ClaimLive(a)
    <3>0. rec' = rec \/ rec' = [rec EXCEPT !.status = "answered", !.delivery = TRUE, !.by = a]
      BY <2>2 DEF ClaimLive
    <3>1. rec \in Record
      BY DEF TypeOK
    <3>2. rec' \in Record
      BY <3>0, <3>1, AskTypes
    <3> QED BY <2>2, <3>2 DEF ClaimLive, CallGoto, TypeOK, loopVars, CallOnly
  <2>3. CASE DeliverFails(a)
    <3>1. rec' \in Record
      BY <2>3, AskTypes DEF DeliverFails, TypeOK
    <3> QED BY <2>3, <3>1 DEF DeliverFails, CallGoto, TypeOK, loopVars, CallOnly
  <2>4. CASE Claim(a) \/ Look(a)
    <3>0. rec' = rec \/ rec' = [rec EXCEPT !.status = "answered", !.by = a, !.job = a]
      BY <2>4 DEF Claim, Look, Claims
    <3>1. rec \in Record
      BY DEF TypeOK
    <3>2. rec' \in Record
      BY <3>0, <3>1, AskTypes
    <3>3. rec.q \in 0..MaxAsks
      BY DEF TypeOK, Record
    <3> QED BY <2>4, <3>2, <3>3 DEF Claim, Look, Claims, CallGoto, TypeOK, loopVars, CallOnly
  <2>5. CASE Peek(a) \/ Reread(a) \/ Deliver(a) \/ StampFails(a) \/ Enqueue(a) \/ EnqueueFails(a)
    BY <2>5 DEF Peek, Reread, Deliver, StampFails, Enqueue, EnqueueFails, CallGoto, TypeOK, meta, loopVars, CallOnly
  <2> QED BY <1>3, <2>1, <2>2, <2>3, <2>4, <2>5 DEF Call
<1>4. ASSUME NEW p \in Process, Crash(p) PROVE TypeOK'
  BY <1>4, <1>0 DEF Crash, TypeOK, meta, loopVars
<1>5. CASE Sweeps
  <2>1. CASE SweepList
    BY <2>1, <1>0 DEF SweepList, SweepOnly, TypeOK, loopVars, callVars
  <2>2. CASE SweepRead
    BY <2>2 DEF SweepRead, SweepOnly, TypeOK, loopVars, callVars
  <2>3. CASE SweepStamp
    <3>1. rec' \in Record /\ NoRecord \in Record
      BY <2>3, AskTypes DEF SweepStamp, TypeOK
    <3> QED BY <2>3, <3>1 DEF SweepStamp, SweepOnly, TypeOK, loopVars, callVars
  <2> QED BY <1>5, <2>1, <2>2, <2>3 DEF Sweeps
<1>6. CASE UNCHANGED vars
  BY <1>6 DEF vars, TypeOK, meta, loopVars, callVars
<1> QED BY <1>1, <1>2, <1>3, <1>4, <1>5, <1>6 DEF Next, Loop, Route1, Sweeps

-----------------------------------------------------------------------------
(* Steps of the loop.                                                      *)

\* The loop asks, ends a question, or goes on with the one there is.
LEMMA LoopEffect ==
    ASSUME TypeOK, Counts, Loop
    PROVE  /\ UNCHANGED <<apc, saw, raced, resumes, sweep, bounds>>
           /\ \A a \in Answer : task'[a] = task[a] \/ (task'[a] = "ran" /\ a = seg)
           /\ (seg' = seg /\ task' = task) \/ seg' = None
           /\ asked <= asked' /\ rec'.q <= asked'
           /\ run' \in {"waiting", "ended", "closing", "pausing"} => mark' = asked' /\ asked' > 0
           /\ \/ paused' = paused /\ rec' = rec /\ asked' = asked
              \/ /\ paused' = paused /\ asked' = asked + 1 /\ rec'.q = asked'
                 /\ rec'.status = "pending" /\ rec'.live /\ rec'.job = None /\ rec'.by = None
              \/ paused' /\ run' = "tail" /\ rec'.q = asked' /\ asked' = asked + 1 /\ rec'.job = None /\ rec'.by = None
              \/ /\ paused' /\ run = "pausing" /\ run' = "tail" /\ rec'.q = asked' /\ asked' = asked
                 /\ undone' = (undone \/ rec.status = "answered") /\ rec'.status = "pending" /\ rec'.job = None /\ rec'.by = None
<1>0. asked \in Nat /\ mark \in Nat
  BY AskAssumption DEF TypeOK
<1>1. CASE AskLive
  <2>1. rec' = [q |-> asked + 1, status |-> "pending", live |-> TRUE, delivery |-> FALSE, by |-> None, job |-> None]
    BY <1>1 DEF AskLive, Asked
  <2>2. /\ asked' = asked + 1 /\ mark' = asked' /\ run' = "waiting"
        /\ UNCHANGED <<paused, apc, saw, raced, resumes, sweep, bounds, task, seg>>
    BY <1>1 DEF AskLive, Rest, callVars
  <2> QED BY <1>0, <2>1, <2>2
<1>2. CASE PauseLive
  <2>1. rec' = [q |-> mark, status |-> "pending", live |-> FALSE, delivery |-> FALSE, by |-> None, job |-> None]
    BY <1>2 DEF PauseLive, Asked
  <2>2. /\ asked' = asked /\ run = "pausing" /\ run' = "tail" /\ paused' = TRUE
        /\ undone' = (undone \/ rec.status = "answered")
        /\ UNCHANGED <<apc, saw, raced, resumes, sweep, bounds, task, seg>>
    BY <1>2 DEF PauseLive, callVars
  <2>3. mark = asked
    BY <2>2 DEF Counts, InWindow
  <2> QED BY <1>0, <2>1, <2>2, <2>3
<1>3. CASE PauseForAsk
  <2>1. rec' = [q |-> asked + 1, status |-> "pending", live |-> FALSE, delivery |-> FALSE, by |-> None, job |-> None]
    BY <1>3 DEF PauseForAsk, Asked
  <2>2. /\ asked' = asked + 1 /\ run' = "tail" /\ paused' = TRUE
        /\ UNCHANGED <<apc, saw, raced, resumes, sweep, bounds, task, seg>>
    BY <1>3 DEF PauseForAsk, Rest, callVars
  <2> QED BY <1>0, <2>1, <2>2
<1>4. CASE Hear \/ StepEnds \/ CloseFiles \/ CloseMeta \/ Finish
  <2>1. UNCHANGED <<rec, paused, asked, apc, saw, raced, resumes, sweep, bounds, task, seg>>
    BY <1>4 DEF Hear, StepEnds, CloseFiles, CloseMeta, Finish, meta, loopVars, Rest, callVars
  <2>2. run' \in {"waiting", "ended", "closing", "pausing"} => InWindow /\ mark' = mark
    BY <1>4 DEF Hear, StepEnds, CloseFiles, CloseMeta, Finish, loopVars, InWindow
  <2> QED BY <1>0, <2>1, <2>2 DEF Counts
<1>5. CASE EndSegment
  <2>1. UNCHANGED <<rec, paused, asked, apc, saw, raced, resumes, sweep, bounds>> /\ run' = "idle" /\ seg' = None
    BY <1>5 DEF EndSegment, meta, callVars
  <2>2. \A a \in Answer : task'[a] = IF a = seg THEN "ran" ELSE task[a]
    BY <1>5 DEF EndSegment
  <2> QED BY <1>0, <2>1, <2>2 DEF Counts
<1> QED BY <1>1, <1>2, <1>3, <1>4, <1>5 DEF Loop

LEMMA LoopKeeps ==
    ASSUME AskInv, Loop
    PROVE  Counts' /\ Unpaused' /\ OneDelivery' /\ Tasks'
<1>0. asked \in Nat /\ asked' \in Nat /\ \A a \in Answer : saw[a] \in Nat
  BY AskAssumption, TypeStep DEF AskInv, TypeOK, Next, Loop
<1>e. TypeOK /\ Counts /\ Unpaused /\ OneDelivery /\ Tasks
  BY DEF AskInv
<1>1. Counts'
  BY <1>0, <1>e, LoopEffect DEF Counts, InWindow, TypeOK, Record
<1>2. Unpaused'
  BY <1>0, <1>e, LoopEffect DEF Unpaused
<1>3. OneDelivery'
  BY <1>0, <1>e, LoopEffect, AskAssumption DEF OneDelivery, Taken, Counts
<1>4. Tasks'
  BY <1>0, <1>e, LoopEffect, AskAssumption DEF Tasks, Early
<1> QED BY <1>1, <1>2, <1>3, <1>4

LEMMA FirstKeeps ==
    ASSUME AskInv, [Next]_vars
    PROVE  FirstSegment'
<1>0. None \notin Answer /\ FirstSegment
  BY AskAssumption DEF AskInv
<1>1. CASE Loop
  BY <1>0, <1>1 DEF Loop, AskLive, Hear, StepEnds, CloseFiles, CloseMeta, PauseLive, PauseForAsk, Finish,
     EndSegment, FirstSegment, InWindow, meta, loopVars
<1>2. ASSUME NEW a \in Answer, Route1(a) PROVE FirstSegment'
  BY <1>0, <1>2 DEF Route1, Route, Admit, RefuseBusy, FirstSegment, InWindow, meta, loopVars
<1>3. ASSUME NEW a \in Answer, Call(a) PROVE FirstSegment'
  <2>1. UNCHANGED <<paused, run, seg>>
    BY <1>3 DEF Call, Read, Peek, ClaimLive, Reread, Deliver, DeliverFails, Claim, Look, Claims, StampFails, Enqueue,
       EnqueueFails, meta, loopVars, CallOnly
  <2> QED BY <1>0, <2>1 DEF FirstSegment, InWindow
<1>4. ASSUME NEW p \in Process, Crash(p) PROVE FirstSegment'
  BY <1>0, <1>4 DEF Crash, FirstSegment, InWindow, meta, loopVars
<1>5. CASE Sweeps
  BY <1>0, <1>5 DEF Sweeps, SweepList, SweepRead, SweepStamp, SweepOnly, FirstSegment, InWindow, loopVars
<1>6. CASE UNCHANGED vars
  BY <1>0, <1>6 DEF vars, FirstSegment, InWindow, meta, loopVars
<1> QED BY <1>1, <1>2, <1>3, <1>4, <1>5, <1>6 DEF Next, Loop, Route1, Sweeps

-----------------------------------------------------------------------------
(* Steps of answers, resumes and sweeps.                                   *)

\* A resume takes its way; what is not queued stays where it is.
LEMMA RouteKeeps ==
    ASSUME AskInv, NEW c \in Answer, Route1(c)
    PROVE  Counts' /\ Unpaused' /\ OneDelivery' /\ Tasks'
<1>1. UNCHANGED <<rec, paused, asked, apc, saw, resumes, sweep, bounds>>
  BY DEF Route1, Route, Admit, RefuseBusy, meta, loopVars, callVars
<1>2. /\ UNCHANGED mark /\ (InWindow' => InWindow)
      /\ task[c] # "none" /\ task[c] # "running" /\ \A a \in Answer : a # c => task'[a] = task[a]
      /\ seg' = seg \/ (seg' = c /\ task'[c] = "running" /\ run = "idle")
  BY DEF Route1, Route, Admit, RefuseBusy, loopVars, InWindow, AskInv, TypeOK
<1>3. TypeOK /\ Counts /\ Unpaused /\ OneDelivery /\ Tasks
  BY DEF AskInv
<1>4. Counts'
  BY <1>1, <1>2, <1>3 DEF Counts
<1>5. Unpaused'
  BY <1>1, <1>2, <1>3 DEF Unpaused
<1>6. OneDelivery'
  BY <1>1, <1>2, <1>3 DEF OneDelivery, Taken
<1>7. Tasks'
  BY <1>1, <1>2, <1>3 DEF Tasks
<1> QED BY <1>4, <1>5, <1>6, <1>7

\* What a call does to its own fields and to the record.
LEMMA CallEffect ==
    ASSUME AskInv, NEW c \in Answer, Call(c)
    PROVE  /\ UNCHANGED <<paused, asked, mark, run, seg, sweep, bounds, undone>> /\ raced \subseteq raced'
           /\ rec'.q = rec.q /\ rec'.live = rec.live
           /\ \A a \in Answer : a # c => /\ apc'[a] = apc[a] /\ saw'[a] = saw[a]
                                         /\ resumes'[a] = resumes[a] /\ task'[a] = task[a]
           /\ apc[c] # "idle" => saw'[c] = saw[c]
           /\ apc[c] = "idle" => /\ saw'[c] = rec.q /\ rec' = rec
                                 /\ apc'[c] \in {"refused", "peek", "claimlive", "claim"}
           /\ \/ /\ rec' = rec /\ resumes' = resumes /\ task' = task
                 /\ apc[c] \in Early \cup {"enqueue"}
                 /\ apc'[c] \in {"refused", "delivered", "peek", "claimlive", "claim", "look", "reread"}
                 /\ apc'[c] = "delivered" => apc[c] = "deliver"
                 /\ apc'[c] = "peek" => rec.job # None
                 /\ apc'[c] = "look" => apc[c] = "claim"
                 /\ apc'[c] = "claim" =>
                      \/ apc[c] = "reread" /\ paused
                      \/ apc[c] = "peek"
                      \/ /\ apc[c] = "idle" /\ (Unanswered \/ ResumeRefused)
                         /\ ~(rec.live /\ rec.status = "pending" /\ ~paused)
                 /\ apc[c] = "enqueue" => apc'[c] = "refused"
              \/ /\ apc[c] = "claimlive" /\ LiveClaimable(c) /\ apc'[c] = "deliver"
                 /\ resumes' = resumes /\ task' = task /\ rec'.status = "answered" /\ rec'.by = c /\ rec'.job = rec.job
              \/ /\ apc[c] = "deliver" /\ apc'[c] = "refused" /\ resumes' = resumes /\ task' = task
                 /\ rec.status = "answered" /\ rec.by = c /\ rec'.by = None
                 /\ rec'.status = "pending" /\ rec'.job = rec.job
              \/ /\ apc[c] \in {"claim", "look"} /\ apc'[c] = "enqueue" /\ task' = task
                 /\ apc[c] = "claim" => Unanswered \/ ResumeRefused
                 /\ apc[c] = "look" => /\ rec.job \notin InFlight(Home[c])
                                       /\ task[rec.job] # "none" => rec.q \in raced'
                 /\ resumes'[c] = rec.q /\ rec'.status = "answered" /\ rec'.by = c /\ rec'.job = c
              \/ /\ apc[c] = "enqueue" /\ apc'[c] = "queued" /\ rec' = rec
                 /\ resumes' = resumes /\ task'[c] = "queued"
<1>0. /\ rec \in Record
      /\ apc \in [Answer -> {"idle", "peek", "claimlive", "reread", "deliver", "claim", "look", "enqueue",
                           "queued", "delivered", "refused", "dead"}]
      /\ saw \in [Answer -> 0..MaxAsks] /\ resumes \in [Answer -> 0..MaxAsks]
      /\ task \in [Answer -> {"none", "queued", "routed", "running", "ran", "failed"}]
  BY DEF AskInv, TypeOK
<1>1. CASE Read(c)
  <2>1. ResumeMissing => rec.job # None
    BY DEF ResumeMissing, Resumable
  <2>2. /\ UNCHANGED <<rec, paused, asked, mark, run, seg, sweep, bounds, undone, raced, resumes, task>>
        /\ apc[c] = "idle" /\ saw' = [saw EXCEPT ![c] = rec.q]
        /\ \A a \in Answer : a # c => apc'[a] = apc[a]
    BY <1>0, <1>1 DEF Read, CallGoto, meta, loopVars, CallOnly
  <2>3. /\ apc'[c] \in {"refused", "peek", "claimlive", "claim"}
        /\ apc'[c] = "peek" => ResumeMissing
        /\ apc'[c] = "claim" => /\ Unanswered \/ ResumeRefused
                                /\ ~(rec.live /\ rec.status = "pending" /\ ~paused)
    BY <1>0, <1>1 DEF Read, CallGoto
  <2> QED BY <1>0, <2>1, <2>2, <2>3 DEF Early
<1>2. CASE ClaimLive(c)
  <2>1. CASE LiveClaimable(c)
    <3>1. rec' = [rec EXCEPT !.status = "answered", !.delivery = TRUE, !.by = c]
      BY <1>2, <2>1 DEF ClaimLive
    <3>2. rec'.q = rec.q /\ rec'.live = rec.live /\ rec'.status = "answered" /\ rec'.by = c /\ rec'.job = rec.job
      BY <1>0, <3>1 DEF Record
    <3> QED BY <1>0, <1>2, <2>1, <3>2 DEF ClaimLive, CallGoto, loopVars, CallOnly
  <2>2. CASE ~LiveClaimable(c)
    BY <1>0, <1>2, <2>2 DEF ClaimLive, CallGoto, loopVars, CallOnly, Early
  <2> QED BY <2>1, <2>2
<1>3. CASE Peek(c) \/ Reread(c) \/ Deliver(c) \/ StampFails(c) \/ EnqueueFails(c)
  BY <1>0, <1>3 DEF Peek, Reread, Deliver, StampFails, EnqueueFails, CallGoto, meta, loopVars, CallOnly, Early
<1>4. CASE DeliverFails(c)
  <2>0. /\ UNCHANGED <<paused, asked, mark, run, seg, sweep, bounds, undone, saw, raced, resumes, task>>
        /\ apc[c] = "deliver" /\ apc' = [apc EXCEPT ![c] = "refused"]
    BY <1>4 DEF DeliverFails, CallGoto, loopVars, CallOnly
  <2>1. CASE rec' = rec
    BY <1>0, <2>0, <2>1 DEF Early
  <2>2. CASE rec' # rec
    <3>1. /\ rec.status = "answered" /\ rec.by = c
          /\ rec' = [rec EXCEPT !.status = "pending", !.delivery = FALSE, !.by = None]
      BY <1>4, <2>2 DEF DeliverFails
    <3>2. /\ rec'.q = rec.q /\ rec'.live = rec.live /\ rec'.status = "pending" /\ rec'.job = rec.job
          /\ rec'.by = None
      BY <1>0, <3>1 DEF Record
    <3> QED BY <1>0, <2>0, <3>1, <3>2
  <2> QED BY <2>1, <2>2
<1>5. CASE Claim(c) \/ Look(c)
  <2>0. /\ UNCHANGED <<paused, asked, mark, run, seg, sweep, bounds, undone, saw, task>>
        /\ apc[c] \in {"claim", "look"} /\ raced \subseteq raced'
    BY <1>5 DEF Claim, Look, loopVars, CallOnly
  <2>1. CASE Claims(c)
    <3>1. /\ rec' = [rec EXCEPT !.status = "answered", !.by = c, !.job = c]
          /\ resumes' = [resumes EXCEPT ![c] = rec.q] /\ apc' = [apc EXCEPT ![c] = "enqueue"]
      BY <2>1 DEF Claims, CallGoto
    <3>2. rec'.q = rec.q /\ rec'.live = rec.live /\ rec'.status = "answered" /\ rec'.by = c /\ rec'.job = c
      BY <1>0, <3>1 DEF Record
    <3>3. apc'[c] = "enqueue"
      BY <1>0, <3>1
    <3>4. apc[c] = "claim" => Unanswered \/ ResumeRefused
      BY <1>0, <1>5, <3>3 DEF Claim, Look, CallGoto
    <3>5. apc[c] = "look" => /\ rec.job \notin InFlight(Home[c])
                             /\ task[rec.job] # "none" => rec.q \in raced'
      <4> SUFFICES ASSUME apc[c] = "look"
                   PROVE  rec.job \notin InFlight(Home[c]) /\ (task[rec.job] # "none" => rec.q \in raced')
        OBVIOUS
      <4>1. Look(c)
        BY <1>5 DEF Claim
      <4>2. rec.job \notin InFlight(Home[c])
        BY <1>0, <3>3, <4>1 DEF Look, CallGoto
      <4> QED BY <4>1, <4>2 DEF Look
    <3> QED BY <1>0, <2>0, <3>1, <3>2, <3>4, <3>5
  <2>2. CASE ~Claims(c)
    <3>1. UNCHANGED <<rec, resumes>> /\ apc'[c] \in {"look", "refused"} /\ (apc'[c] = "look" => apc[c] = "claim")
          /\ \A a \in Answer : a # c => apc'[a] = apc[a]
      BY <1>0, <1>5, <2>2 DEF Claim, Look, CallGoto
    <3> QED BY <1>0, <2>0, <3>1 DEF Early
  <2> QED BY <2>1, <2>2
<1>6. CASE Enqueue(c)
  BY <1>0, <1>6 DEF Enqueue, CallGoto, meta, loopVars
<1> QED BY <1>1, <1>2, <1>3, <1>4, <1>5, <1>6 DEF Call

LEMMA CallKeeps ==
    ASSUME AskInv, NEW c \in Answer, Call(c)
    PROVE  Counts' /\ Unpaused' /\ OneDelivery' /\ Tasks'
<1>0. TypeOK /\ Counts /\ Unpaused /\ OneDelivery /\ Tasks /\ None \notin Answer
  BY AskAssumption DEF AskInv
<1>1. Counts'
  BY <1>0, CallEffect DEF Counts, InWindow
<1>2. Unpaused'
  BY <1>0, CallEffect DEF Unpaused, Unanswered, ResumeRefused, Resumable, LiveClaimable
<1>3. OneDelivery'
  <2>0. /\ paused' = paused /\ rec'.q = rec.q
        /\ \A a \in Answer : a # c => apc'[a] = apc[a] /\ saw'[a] = saw[a]
        /\ apc[c] # "idle" => saw'[c] = saw[c]
    BY CallEffect
  <2>1. CASE apc[c] = "claimlive" /\ LiveClaimable(c) /\ apc'[c] = "deliver"
    <3>1. /\ rec'.status = "answered" /\ rec'.by = c /\ rec'.job = rec.job
          /\ ~paused /\ rec.status = "pending" /\ saw[c] = rec.q
      BY <2>1, CallEffect DEF LiveClaimable
    <3>2. \A a \in Answer : a # c /\ Taken(a) => saw[a] # rec.q
      BY <1>0, <3>1 DEF OneDelivery
    <3> QED BY <1>0, <2>0, <2>1, <3>1, <3>2 DEF OneDelivery, Taken
  <2>2. CASE apc'[c] # "deliver" /\ rec' = rec
    <3>1. apc'[c] = "delivered" => apc[c] = "deliver" /\ saw'[c] = saw[c]
      BY <2>2, CallEffect
    <3> QED BY <1>0, <2>0, <2>2, <3>1 DEF OneDelivery, Taken
  <2>3. CASE apc[c] = "deliver" /\ apc'[c] = "refused" /\ rec' # rec
    <3>1. rec.status = "answered" /\ rec.by = c /\ rec'.status = "pending" /\ rec'.job = rec.job /\ rec'.by = None
      BY <2>3, CallEffect
    <3>2. saw[c] = rec.q /\ rec.job = None
      BY <1>0, <2>3, <3>1 DEF OneDelivery
    <3>3. \A a \in Answer : a # c /\ Taken(a) => saw[a] # rec.q
      BY <1>0, <2>3, <3>2 DEF OneDelivery, Taken
    <3> QED BY <1>0, <2>0, <2>3, <3>1, <3>2, <3>3 DEF OneDelivery, Taken
  <2>4. CASE apc[c] \in {"claim", "look"} /\ apc'[c] = "enqueue"
    <3>1. rec'.status = "answered" /\ rec'.by = c
      BY <2>4, CallEffect
    <3> QED BY <1>0, <2>0, <2>4, <3>1 DEF OneDelivery, Taken
  <2> QED BY <2>1, <2>2, <2>3, <2>4, CallEffect
<1>4. Tasks'
  BY <1>0, CallEffect DEF Tasks, Early
<1> QED BY <1>1, <1>2, <1>3, <1>4

LEMMA CrashKeeps ==
    ASSUME AskInv, NEW p \in Process, Crash(p)
    PROVE  Counts' /\ Unpaused' /\ OneDelivery' /\ Tasks'
<1>1. /\ UNCHANGED <<rec, paused, asked, mark, run, seg, task, saw, resumes, sweep>>
      /\ \A a \in Answer : apc'[a] \in {apc[a], "dead"}
      /\ bounds'.sweeps = bounds.sweeps
  BY DEF Crash, meta, loopVars, AskInv, TypeOK
<1>2. TypeOK /\ Counts /\ Unpaused /\ OneDelivery /\ Tasks
  BY DEF AskInv
<1> QED BY <1>1, <1>2 DEF Counts, InWindow, Unpaused, OneDelivery, Taken, Tasks, Early

LEMMA SweepKeeps ==
    ASSUME AskInv, Sweeps
    PROVE  Counts' /\ Unpaused' /\ OneDelivery' /\ Tasks'
<1>1. UNCHANGED <<paused, asked, mark, run, seg, task, apc, saw, resumes>>
  BY DEF Sweeps, SweepList, SweepRead, SweepStamp, SweepOnly, loopVars, callVars
<1>2. TypeOK /\ Counts /\ Unpaused /\ OneDelivery /\ Tasks /\ asked \in Nat
  BY AskAssumption DEF AskInv, TypeOK
<1>3. bounds'.sweeps # 0 \/ (~paused => FALSE)
  <2>1. bounds.sweeps \in Nat
    BY <1>2, AskAssumption DEF TypeOK
  <2>2. CASE SweepList
    <3>1. bounds'.sweeps = bounds.sweeps + 1
      BY <1>2, <2>2 DEF SweepList, TypeOK
    <3> QED BY <2>1, <3>1
  <2>3. CASE SweepRead \/ SweepStamp
    BY <1>2, <2>3 DEF SweepRead, SweepStamp, Unpaused
  <2> QED BY <2>2, <2>3 DEF Sweeps
<1>4. CASE SweepList \/ SweepRead
  <2>1. rec' = rec /\ sweep'.rec.q <= asked
    BY <1>2, <1>4 DEF SweepList, SweepRead, Counts, TypeOK
  <2> QED BY <1>1, <1>2, <1>3, <2>1 DEF Counts, InWindow, Unpaused, OneDelivery, Taken, Tasks
<1>5. CASE SweepStamp
  <2>1. rec' = [sweep.rec EXCEPT !.status = "expired"] /\ sweep'.rec = NoRecord
    BY <1>5 DEF SweepStamp
  <2>2. rec'.q = sweep.rec.q /\ rec'.status = "expired"
    BY <1>2, <2>1 DEF TypeOK, Record
  <2>3. NoRecord.q = 0
    BY DEF NoRecord, Asked
  <2> QED BY <1>1, <1>2, <1>3, <2>1, <2>2, <2>3 DEF Counts, InWindow, Unpaused, OneDelivery, Taken, Tasks
<1> QED BY <1>4, <1>5 DEF Sweeps

LEMMA AskInit == Init => AskInv
<1> SUFFICES ASSUME Init PROVE AskInv
  OBVIOUS
<1>1. TypeOK
  <2>1. rec \in Record /\ sweep \in [pc : {"idle", "listed", "read"}, rec : Record]
    BY AskTypes DEF Init
  <2>2. \A a \in Answer : 0 \in 0..MaxAsks
    BY AskAssumption
  <2>3. saw \in [Answer -> 0..MaxAsks] /\ resumes \in [Answer -> 0..MaxAsks] /\ missed \in [Answer -> Answer \cup {None}]
    BY <2>2 DEF Init
  <2>4. bounds \in [sweeps : 0..MaxSweeps, crashes : 0..MaxCrashes] /\ asked \in 0..MaxAsks /\ mark \in 0..MaxAsks
    BY AskAssumption DEF Init
  <2>5. paused \in BOOLEAN /\ verdict \in BOOLEAN /\ undone \in BOOLEAN
    BY DEF Init
  <2> QED BY <2>1, <2>3, <2>4, <2>5 DEF Init, TypeOK
<1>2. NoRecord.q = 0 /\ NoRecord.job = None /\ NoRecord.status = "none"
  BY DEF NoRecord, Asked
<1>3. Counts /\ Unpaused /\ FirstSegment /\ OneDelivery /\ Tasks
  BY <1>2, AskAssumption DEF Init, Counts, InWindow, Unpaused, FirstSegment, OneDelivery, Taken, Tasks, Early
<1> QED BY <1>1, <1>3 DEF AskInv

LEMMA AskStep == AskInv /\ [Next]_vars => AskInv'
<1> SUFFICES ASSUME AskInv, [Next]_vars PROVE AskInv'
  OBVIOUS
<1>1. TypeOK' /\ FirstSegment'
  BY TypeStep, FirstKeeps DEF AskInv
<1>2. CASE UNCHANGED vars
  BY <1>2 DEF AskInv, vars, meta, loopVars, callVars, Counts, InWindow, Unpaused, FirstSegment, OneDelivery, Taken,
              Tasks, Early, TypeOK
<1>3. CASE Next
  BY <1>1, <1>3, LoopKeeps, RouteKeeps, CallKeeps, CrashKeeps, SweepKeeps DEF AskInv, Next, Loop, Route1, Sweeps
<1> QED BY <1>2, <1>3

\* Every call, sweep and crash leaves a record, files and tasks of the right types.
THEOREM AskTypeCorrect == Spec => []TypeOK
<1>1. AskInv => TypeOK
  BY DEF AskInv
<1> QED BY <1>1, AskInit, AskStep, PTL DEF Spec

\* A question has at most one live delivery, whichever calls read it, claim it, roll
\* their claim back or die, and however its window closes (_deliver_live()).
THEOREM DeliveredAtMostOnce == Spec => []DeliveredOnce
<1>1. AskInv => DeliveredOnce
  BY DEF AskInv, OneDelivery, Taken, DeliveredOnce
<1> QED BY <1>1, AskInit, AskStep, PTL DEF Spec

LEMMA StandsStep ==
    ASSUME AskInv, [Next]_vars, Reopened
    PROVE  SweepStamp \/ (PauseLive /\ (seg # None \/ bounds.sweeps > 0))
<1>0. /\ rec.status = "answered" /\ rec.job # None /\ rec'.q = rec.q /\ rec'.status # "answered"
      /\ paused \/ bounds.sweeps > 0
      /\ rec.q <= asked /\ asked \in Nat
  BY AskAssumption DEF Reopened, AskInv, Unpaused, Counts, TypeOK
<1>1. rec' # rec
  BY <1>0
<1>2. CASE Loop
  <2>1. CASE PauseLive
    <3>1. run = "pausing"
      BY <2>1 DEF PauseLive
    <3> QED BY <1>0, <2>1, <3>1 DEF AskInv, FirstSegment, InWindow
  <2>2. CASE AskLive \/ PauseForAsk
    <3>1. rec'.q = asked + 1
      BY <2>2 DEF AskLive, PauseForAsk, Asked
    <3> QED BY <1>0, <3>1
  <2>3. CASE Hear \/ StepEnds \/ CloseFiles \/ CloseMeta \/ Finish \/ EndSegment
    BY <1>1, <2>3 DEF Hear, StepEnds, CloseFiles, CloseMeta, Finish, EndSegment, meta
  <2> QED BY <1>2, <2>1, <2>2, <2>3 DEF Loop
<1>3. ASSUME NEW a \in Answer, Call(a) PROVE FALSE
  <2>1. apc[a] = "deliver" /\ rec.by = a
    BY <1>0, <1>1, <1>3, CallEffect
  <2> QED BY <1>0, <2>1 DEF AskInv, OneDelivery
<1>4. CASE SweepList \/ SweepRead
  BY <1>1, <1>4 DEF SweepList, SweepRead
<1>5. ASSUME NEW a \in Answer, Route1(a) PROVE FALSE
  BY <1>1, <1>5 DEF Route1, Route, Admit, RefuseBusy, meta
<1>6. ASSUME NEW p \in Process, Crash(p) PROVE FALSE
  BY <1>1, <1>6 DEF Crash, meta
<1>7. ~ UNCHANGED vars
  BY <1>1 DEF vars, meta
<1> QED BY <1>2, <1>3, <1>4, <1>5, <1>6, <1>7 DEF Next, Loop, Route1

\* Only a sweep, or the pause of a live question in a resumed run or after a sweep, takes an
\* answer that was claimed for a resume off the record: a later question has a number of its
\* own, a failed delivery rolls back its own claim, and until a sweep expires a question the
\* first segment pauses no claimed one.
THEOREM ClaimedAnswerStands == Spec => AnswerStands
<1>1. AskInv /\ [Next]_vars => (Reopened => SweepStamp \/ (PauseLive /\ (seg # None \/ bounds.sweeps > 0)))
  BY StandsStep
<1> QED BY <1>1, AskInit, AskStep, PTL DEF Spec, AnswerStands

-----------------------------------------------------------------------------
(* One resume of a question.                                               *)

\* All answers come from one process, as those of one chat listener do; the set of
\* enqueues in flight that answer() consults is a variable of its process.
OneProcess == \A a, b \in Answer : Home[a] = Home[b]

\* While no write that compares nothing has undone one, the record only moves on to
\* later questions, and an answered question keeps its resume.
LEMMA ResumedQuiet ==
    ASSUME AskInv, Resumed, asked' \in Nat, resumes' = resumes, \A a \in Answer : Viable(a)' => Viable(a),
           ~undone' => /\ ~undone /\ rec'.q = asked' /\ asked <= asked'
                       /\ rec' = rec \/ rec'.q > asked \/ rec.status # "answered" \/ rec.job = None
    PROVE  Resumed'
<1> SUFFICES ASSUME ~undone' PROVE Resumed'
  BY DEF Resumed
<1>1. /\ ~undone /\ rec.q = asked /\ asked \in Nat /\ asked' \in Nat /\ None \notin Answer
      /\ \A a \in Answer : resumes[a] <= asked /\ resumes[a] \in Nat
  BY AskAssumption DEF Resumed, AskInv, TypeOK
<1>2. \A a \in Answer : resumes'[a] <= asked'
  BY <1>1
<1>3. ASSUME NEW a \in Answer, Viable(a)', resumes'[a] = rec'.q
      PROVE  rec'.status = "answered" /\ rec'.job = a
  <2>1. Viable(a) /\ resumes[a] = rec'.q /\ rec'.q <= asked
    BY <1>1, <1>3
  <2>2. rec'.q = rec.q
    BY <1>1, <2>1
  <2>3. rec.status = "answered" /\ rec.job = a
    BY <1>1, <2>1, <2>2 DEF Resumed
  <2> QED BY <1>1, <2>1, <2>3
<1>4. \A a, b \in Answer : Viable(a)' /\ Viable(b)' /\ resumes'[a] = resumes'[b] => a = b
  BY <1>1 DEF Resumed
<1> QED BY <1>2, <1>3, <1>4 DEF Resumed

\* A claim for a resume: no other resume of the question is viable then.
LEMMA ResumedClaim ==
    ASSUME OneProcess, AskInv, Resumed, NEW c \in Answer, Call(c),
           apc[c] \in {"claim", "look"}, apc'[c] = "enqueue"
    PROVE  Resumed'
<1> SUFFICES ASSUME ~undone' PROVE Resumed'
  BY DEF Resumed
<1>1. /\ UNCHANGED <<asked, undone, task>> /\ rec'.q = rec.q /\ rec'.status = "answered" /\ rec'.job = c
      /\ resumes'[c] = rec.q /\ raced \subseteq raced'
      /\ \A a \in Answer : a # c => resumes'[a] = resumes[a] /\ apc'[a] = apc[a]
  BY CallEffect
<1>2. /\ rec.q = asked /\ asked \in Nat /\ \A a \in Answer : resumes[a] <= asked /\ resumes[a] \in Nat
      /\ None \notin Answer
  BY <1>1, AskAssumption DEF Resumed, AskInv, TypeOK
<1>3. \A a \in Answer : a # c /\ Viable(a)' => Viable(a) /\ resumes[a] \notin raced'
  BY <1>1 DEF Viable
<1>4. ASSUME NEW a \in Answer, a # c, Viable(a)' PROVE resumes[a] # rec.q
  <2> SUFFICES ASSUME resumes[a] = rec.q PROVE FALSE
    OBVIOUS
  <2>0. Viable(a) /\ rec.q \notin raced'
    BY <1>3, <1>4
  <2>1. rec.status = "answered" /\ rec.job = a
    BY <1>1, <2>0 DEF Resumed
  <2>2. Home[a] = Home[c]
    BY DEF OneProcess
  <2>3. apc[a] = "enqueue" => task[a] = "none" /\ a \in InFlight(Home[c])
    BY <2>2 DEF AskInv, Tasks, InFlight
  <2>4. CASE apc[c] = "claim"
    <3>1. task[a] = "failed"
      BY <2>1, <2>4, CallEffect DEF Unanswered, ResumeRefused
    <3> QED BY <2>0, <2>3, <3>1 DEF Viable
  <2>5. CASE apc[c] = "look"
    <3>1. a \notin InFlight(Home[c]) /\ task[a] = "none"
      BY <2>0, <2>1, <2>5, CallEffect
    <3> QED BY <2>0, <2>3, <3>1 DEF Viable
  <2> QED BY <2>4, <2>5
<1>5. \A a \in Answer : resumes'[a] <= asked'
  BY <1>1, <1>2
<1>6. \A a \in Answer : Viable(a)' /\ resumes'[a] = rec'.q => rec'.status = "answered" /\ rec'.job = a
  BY <1>1, <1>4
<1>7. \A a, b \in Answer : Viable(a)' /\ Viable(b)' /\ resumes'[a] = resumes'[b] => a = b
  BY <1>1, <1>3, <1>4 DEF Resumed
<1> QED BY <1>1, <1>2, <1>5, <1>6, <1>7 DEF Resumed

LEMMA ResumedStep ==
    ASSUME OneProcess, AskInv, Resumed, [Next]_vars
    PROVE  Resumed'
<1>0. TypeOK /\ Counts /\ Unpaused /\ Tasks /\ asked \in Nat /\ None \notin Answer
  BY AskAssumption DEF AskInv, TypeOK
<1>q. ~undone => rec.q = asked
  BY DEF Resumed
<1>1. CASE Loop
  <2>1. resumes' = resumes
    BY <1>0, <1>1, LoopEffect
  <2>2. \A a \in Answer : Viable(a)' => Viable(a)
    <3> SUFFICES ASSUME NEW a \in Answer, Viable(a)' PROVE Viable(a)
      OBVIOUS
    <3>1. UNCHANGED <<raced, resumes, apc>> /\ (task'[a] = task[a] \/ a = seg)
      BY <1>0, <1>1, LoopEffect
    <3>2. a = seg => task[a] = "running"
      BY <1>0 DEF Tasks
    <3> QED BY <3>1, <3>2 DEF Viable
  <2>3. ~undone' => ~undone
    BY <1>1 DEF Loop, AskLive, Hear, StepEnds, CloseFiles, CloseMeta, PauseLive, PauseForAsk, Finish, EndSegment, Rest
  <2>4. ~undone' => /\ rec'.q = asked' /\ asked <= asked'
                    /\ rec' = rec \/ rec'.q > asked \/ rec.status # "answered"
    <3>1. \/ rec' = rec /\ asked' = asked
          \/ rec'.q = asked' /\ asked' = asked + 1
          \/ rec'.q = asked' /\ asked' = asked /\ (~undone' => rec.status # "answered")
      BY <1>0, <1>1, LoopEffect
    <3> QED BY <1>0, <1>q, <2>3, <3>1
  <2>5. asked' \in Nat
    BY <1>0, <1>1, LoopEffect
  <2> QED BY <2>5, <2>1, <2>2, <2>3, <2>4, ResumedQuiet
<1>2. ASSUME NEW c \in Answer, Route1(c) PROVE Resumed'
  <2>1. UNCHANGED <<rec, asked, undone, raced, resumes, apc>>
    BY <1>2 DEF Route1, Route, Admit, RefuseBusy, meta, loopVars, callVars
  <2>2. /\ task[c] \in {"queued", "routed"} /\ \A a \in Answer : a # c => task'[a] = task[a]
    BY <1>0, <1>2 DEF Route1, Route, Admit, RefuseBusy, TypeOK
  <2>3. \A a \in Answer : Viable(a)' => Viable(a)
    BY <2>1, <2>2 DEF Viable
  <2> QED BY <1>0, <1>q, <2>1, <2>3, ResumedQuiet
<1>3. ASSUME NEW c \in Answer, Call(c) PROVE Resumed'
  <2>1. CASE apc[c] \in {"claim", "look"} /\ apc'[c] = "enqueue"
    BY <1>3, <2>1, ResumedClaim
  <2>2. CASE ~(apc[c] \in {"claim", "look"} /\ apc'[c] = "enqueue")
    <3>1. /\ UNCHANGED <<asked, undone>> /\ rec'.q = rec.q /\ resumes' = resumes /\ raced \subseteq raced'
          /\ \/ rec' = rec \/ rec.status # "answered"
             \/ apc[c] = "deliver" /\ rec.by = c
      BY <1>3, <2>2, CallEffect DEF LiveClaimable
    <3>3. rec' = rec \/ rec.status # "answered" \/ rec.job = None
      BY <3>1 DEF AskInv, OneDelivery
    <3>2. \A a \in Answer : Viable(a)' => Viable(a)
      BY <1>3, <2>2, <3>1, CallEffect DEF Viable
    <3> QED BY <1>0, <1>q, <3>1, <3>2, <3>3, ResumedQuiet
  <2> QED BY <2>1, <2>2
<1>4. ASSUME NEW p \in Process, Crash(p) PROVE Resumed'
  <2>1. UNCHANGED <<rec, asked, undone, raced, resumes, task>> /\ \A a \in Answer : apc'[a] \in {apc[a], "dead"}
    BY <1>4 DEF Crash, meta, loopVars
  <2>2. \A a \in Answer : Viable(a)' => Viable(a)
    BY <2>1 DEF Viable
  <2> QED BY <1>0, <1>q, <2>1, <2>2, ResumedQuiet
<1>5. CASE Sweeps
  <2>1. UNCHANGED <<asked, raced, resumes, task, apc>>
    BY <1>5 DEF Sweeps, SweepList, SweepRead, SweepStamp, SweepOnly, loopVars, callVars
  <2>2. \A a \in Answer : Viable(a)' => Viable(a)
    BY <2>1 DEF Viable
  <2>3. CASE SweepList \/ SweepRead
    <3>1. UNCHANGED <<rec, undone>>
      BY <2>3 DEF SweepList, SweepRead
    <3> QED BY <1>0, <1>q, <2>1, <2>2, <3>1, ResumedQuiet
  <2>4. CASE SweepStamp
    <3>1. /\ rec' = [sweep.rec EXCEPT !.status = "expired"]
          /\ undone' = (undone \/ rec.status = "answered" \/ rec # sweep.rec)
      BY <2>4 DEF SweepStamp
    <3>2. rec'.q = sweep.rec.q
      BY <1>0, <3>1 DEF TypeOK, Record
    <3>3. ~undone' => ~undone /\ rec.status # "answered" /\ rec = sweep.rec
      BY <3>1
    <3> QED BY <1>0, <1>q, <2>1, <2>2, <3>2, <3>3, ResumedQuiet
  <2> QED BY <1>5, <2>3, <2>4 DEF Sweeps
<1>6. CASE UNCHANGED vars
  <2>1. UNCHANGED <<rec, asked, undone, raced, resumes, task, apc>>
    BY <1>6 DEF vars, meta, loopVars, callVars
  <2>2. \A a \in Answer : Viable(a)' => Viable(a)
    BY <2>1 DEF Viable
  <2> QED BY <1>0, <1>q, <2>1, <2>2, ResumedQuiet
<1> QED BY <1>1, <1>2, <1>3, <1>4, <1>5, <1>6 DEF Next, Loop, Route1, Sweeps

\* Among the calls of one process a question is resumed at most once, though an enqueue
\* may fail, a call may die before it, and a resume may be refused: it is answered again
\* only when the job on its record is neither in the queue nor, looked up after that, on
\* its way (_last_resume_failed()), or was published between these two looks (`raced`).
THEOREM ResumedOnce == ASSUME OneProcess PROVE Spec => []OneResume
<1>1. Init => Resumed
  <2>1. NoRecord.q = 0
    BY DEF NoRecord, Asked
  <2> QED BY <2>1, AskAssumption DEF Init, Resumed, Viable
<1>2. AskInv /\ Resumed /\ [Next]_vars => Resumed'
  BY ResumedStep
<1>3. Resumed /\ AskInv => OneResume
  BY DEF Resumed, OneResume, Viable
<1> QED BY <1>1, <1>2, <1>3, AskInit, AskStep, PTL DEF Spec

-----------------------------------------------------------------------------
(* The claim of a run's tail.                                              *)

Busy(p) == pc[p] \in {"drain", "run"}

\* What the claim row says of the drainers: until the gate escalates whoever drains
\* lives and is the process of the last claim row.
ClaimInv ==
    /\ pc \in [Proc -> {"idle", "found", "drain", "run", "end"}]
    /\ round \in Nat \ {0}
    /\ round = 1 => stage # "early"
    /\ \A p \in Proc : Busy(p) => p \in alive
    /\ round = 1 => \A p \in Proc : Busy(p) => claim = p

LEMMA ClaimInit == TailInit => ClaimInv
  BY DEF TailInit, ClaimInv, Busy

\* A claim transaction: the claim it appends is the only live one.
LEMMA ClaimKept ==
    ASSUME ClaimInv, NEW p \in Proc, p \in alive, ~Busy(p),
           NEW kinds, ClaimStore(p, kinds), UNCHANGED <<alive, round>>
    PROVE  ClaimInv'
<1>1. CASE Leave(p) /\ UNCHANGED claim
  BY <1>1 DEF ClaimInv, Leave, ParentMoves, AfterDrain, Busy
<1>2. CASE /\ ~(Respects(p) /\ LiveClaim)
           /\ claim' = p
           /\ pc' = [pc EXCEPT ![p] = "drain"]
           /\ UNCHANGED stage
  <2>1. round = 1 => ~LiveClaim
    BY <1>2 DEF ClaimInv, Respects
  <2>2. round = 1 => \A q \in Proc : ~Busy(q)
    BY <2>1 DEF ClaimInv, LiveClaim
  <2> QED
    BY <1>2, <2>2 DEF ClaimInv, Busy
<1> QED
  BY <1>1, <1>2 DEF ClaimStore

\* A drainer that goes on keeps its claim; its release is of its own claim.
LEMMA DrainKept ==
    ASSUME ClaimInv, NEW p \in Proc, Drain(p)
    PROVE  ClaimInv'
<1>1. CASE Begin(p)
  BY <1>1 DEF Begin, ClaimInv, Busy
<1>2. CASE FinishJob(p)
  BY <1>2 DEF FinishJob, ClaimInv, Busy
<1>3. CASE Release(p)
  <2>1. round = 1 => \A q \in Proc : Busy(q) => q = p
    BY <1>3 DEF Release, ClaimInv, Busy
  <2>2. /\ pc' = [pc EXCEPT ![p] = AfterDrain(p)]
        /\ UNCHANGED <<alive, round>>
        /\ round = 1 => stage' # "early"
    BY <1>3 DEF Release, Leave, ParentMoves, ClaimInv
  <2> QED
    BY <2>1, <2>2 DEF ClaimInv, Busy, AfterDrain
<1> QED
  BY <1>1, <1>2, <1>3 DEF Drain

\* Every step keeps the claim with its drainer.
LEMMA ClaimStep == ClaimInv /\ [TailNext]_tailVars => ClaimInv'
<1> SUFFICES ASSUME ClaimInv, [TailNext]_tailVars PROVE ClaimInv'
  OBVIOUS
<1>1. CASE LoopEnds \/ Judge \/ Passes
  BY <1>1 DEF LoopEnds, Judge, Passes, ClaimInv, Busy
<1>2. CASE Escalate
  BY <1>2 DEF Escalate, ClaimInv, Busy
<1>3. CASE Dispatch
  BY <1>3 DEF Dispatch, ClaimInv, Busy
<1>4. CASE DrainHere
  BY <1>4, ClaimKept DEF DrainHere, Proc, Busy
<1>5. CASE Age
  BY <1>5 DEF Age, ClaimInv, Busy
<1>6. ASSUME NEW p \in Proc, Drain(p) PROVE ClaimInv'
  BY <1>6, DrainKept
<1>7. ASSUME NEW p \in Proc, Find(p) PROVE ClaimInv'
  BY <1>7 DEF Find, ClaimInv, Busy
<1>8. ASSUME NEW p \in Proc, Sweep(p) \/ FinalizeTail(p) PROVE ClaimInv'
  BY <1>8, ClaimKept DEF Sweep, FinalizeTail, Busy
<1>9. ASSUME NEW p \in Proc, Exit(p) \/ Die(p) PROVE ClaimInv'
  BY <1>9 DEF Exit, Die, Gone, ClaimInv, Busy
<1>10. CASE UNCHANGED tailVars
  BY <1>10 DEF tailVars, ClaimInv, Busy
<1> QED
  BY <1>1, <1>2, <1>3, <1>4, <1>5, <1>6, <1>7, <1>8, <1>9, <1>10 DEF TailNext, Run

\* Until the quality gate escalates no two live processes drain a store at once,
\* whichever of run, child, sweeps and operators race for it, die, or fail to
\* append: the claim transaction of run_jobs() excludes the rest.
THEOREM OneDrainerAtATime == TailSpec => []OneDrainer
<1>1. ClaimInv => OneDrainer
  BY DEF ClaimInv, OneDrainer, Draining, Busy
<1> QED
  BY ClaimInit, ClaimStep, <1>1, PTL DEF TailSpec

-----------------------------------------------------------------------------
(* The list a drainer works through.                                       *)

Once(list) == \A i, j \in DOMAIN list : i # j => list[i] # list[j]
Outstanding(list) == \A i \in DOMAIN list : list[i] \notin done

\* Until the gate escalates a drainer has each job it read once on its list, and
\* none of them is done: the list was read with the claim, and only the process
\* of the claim appends done rows.
ListInv ==
    /\ jobs \in Seq(Kind)
    /\ todo \in [Proc -> Seq(Nat)]
    /\ \A p \in Proc : pc[p] = "run" => todo[p] # <<>>
    /\ round = 1 => \A p \in Proc : Busy(p) => Once(todo[p]) /\ Outstanding(todo[p])

\* The list of a claim holds pending jobs, each once.
LEMMA OrderedList ==
    ASSUME jobs \in Seq(Kind), NEW kinds, NEW list \in Ordered(kinds)
    PROVE  list \in Seq(Nat) /\ Once(list) /\ Outstanding(list)
<1> DEFINE due == PendingOf(kinds)
           n == Cardinality(due)
<1>1. due \subseteq 1..Len(jobs) /\ due \cap done = {} /\ Len(jobs) \in Nat
  BY DEF PendingOf, Pending
<1>2. n \in Nat
  <2>1. IsFiniteSet(1..Len(jobs))
    BY <1>1, FS_Interval
  <2>2. IsFiniteSet(due)
    BY <1>1, <2>1, FS_Subset
  <2> QED BY <2>2, FS_CardinalityType
<1>3. /\ list \in [1..n -> due]
      /\ \A i, j \in DOMAIN list : i < j => Precedes(list[i], list[j])
  BY DEF Ordered, InOrder
<1>4. \A s \in due : s \in Nat
  BY <1>1
<1>5. list \in Seq(Nat)
  <2> HIDE DEF due, n
  <2> QED BY <1>2, <1>3, <1>4
<1>6. \A s \in due : ~Precedes(s, s)
  <2> HIDE DEF due
  <2> QED BY <1>4 DEF Precedes
<1>7. Once(list)
  <2> HIDE DEF due, n
  <2> SUFFICES ASSUME NEW i \in 1..n, NEW j \in 1..n, i # j, list[i] = list[j] PROVE FALSE
    BY <1>3 DEF Once
  <2>1. CASE i < j
    BY <2>1, <1>2, <1>3, <1>6
  <2>2. CASE j < i
    BY <2>2, <1>2, <1>3, <1>6
  <2> QED BY <2>1, <2>2, <1>2
<1>8. Outstanding(list)
  <2> HIDE DEF due, n
  <2> QED BY <1>1, <1>3 DEF Outstanding
<1> QED BY <1>5, <1>7, <1>8

\* What is left of a list is on it, after its head.
LEMMA TailOfList ==
    ASSUME NEW list \in Seq(Nat), list # <<>>
    PROVE  /\ Tail(list) \in Seq(Nat)
           /\ Head(list) = list[1] /\ 1 \in DOMAIN list
           /\ \A i \in DOMAIN Tail(list) : i + 1 \in DOMAIN list /\ i + 1 # 1 /\ Tail(list)[i] = list[i + 1]
           /\ \A i, j \in DOMAIN Tail(list) : i # j => i + 1 # j + 1
<1>1. /\ Len(list) \in Nat \ {0} /\ DOMAIN list = 1..Len(list)
      /\ Tail(list) \in Seq(Nat) /\ Len(Tail(list)) = Len(list) - 1
      /\ \A i \in 1..Len(Tail(list)) : Tail(list)[i] = list[i + 1]
  BY HeadTailProperties
<1>2. DOMAIN Tail(list) = 1..Len(Tail(list))
  BY <1>1
<1> QED BY <1>1, <1>2

LEMMA ListInit == TailInit => ListInv
  BY DEF TailInit, ListInv, Busy

\* A claim transaction reads a new list, or leaves things as they are.
LEMMA ListClaimed ==
    ASSUME ListInv, ClaimInv, NEW p \in Proc, ~Busy(p), NEW kinds, ClaimStore(p, kinds),
           UNCHANGED <<jobs, done, round>>
    PROVE  ListInv'
<1>1. CASE Leave(p) /\ UNCHANGED todo
  BY <1>1 DEF ListInv, ClaimInv, Leave, AfterDrain, Busy, Once, Outstanding
<1>2. ASSUME NEW list \in Ordered(kinds), todo' = [todo EXCEPT ![p] = list],
             pc' = [pc EXCEPT ![p] = "drain"]
      PROVE  ListInv'
  <2>1. list \in Seq(Nat) /\ Once(list) /\ Outstanding(list)
    BY OrderedList DEF ListInv
  <2> QED
    BY <1>2, <2>1 DEF ListInv, ClaimInv, Busy, Once, Outstanding
<1> QED
  BY <1>1, <1>2 DEF ClaimStore

\* A drainer strikes the head of its list, and only that becomes done.
LEMMA ListDrained ==
    ASSUME ListInv, ClaimInv, NEW p \in Proc, Drain(p)
    PROVE  ListInv'
<1>0. todo[p] \in Seq(Nat)
  BY DEF ListInv
<1>1. CASE UNCHANGED <<jobs, todo, done, round>> /\ todo[p] # <<>> /\ Busy(p)
           /\ pc' = [pc EXCEPT ![p] = "run"]
  BY <1>1 DEF ListInv, ClaimInv, Busy, Once, Outstanding
<1>2. CASE /\ todo[p] # <<>> /\ Busy(p)
           /\ todo' = [todo EXCEPT ![p] = Tail(@)]
           /\ pc' = [pc EXCEPT ![p] = "drain"]
           /\ done' = done \/ done' = done \cup {Head(todo[p])}
           /\ UNCHANGED <<jobs, round>>
  <2>1. Tail(todo[p]) \in Seq(Nat) /\ todo'[p] = Tail(todo[p])
    BY <1>0, <1>2, TailOfList DEF ListInv
  <2>2. round = 1 => \A q \in Proc : Busy(q)' => q = p
    BY <1>2 DEF ClaimInv, Busy
  <2>3. round = 1 => Once(todo[p]) /\ Outstanding(todo[p])
    BY <1>2 DEF ListInv
  <2>4. round = 1 => Once(Tail(todo[p]))
    BY <2>3, <1>0, <1>2, TailOfList DEF Once
  <2>5. round = 1 => \A i \in DOMAIN Tail(todo[p]) : Tail(todo[p])[i] \notin done'
    BY <2>3, <1>0, <1>2, TailOfList DEF Once, Outstanding
  <2>6. round' = 1 => \A q \in Proc : Busy(q)' => Once(todo[q])' /\ Outstanding(todo[q])'
    <3> SUFFICES ASSUME round = 1, NEW q \in Proc, Busy(q)' PROVE Once(todo[q])' /\ Outstanding(todo[q])'
      BY <1>2
    <3>1. q = p /\ todo'[q] = Tail(todo[p])
      BY <2>1, <2>2
    <3> QED BY <3>1, <2>4, <2>5 DEF Once, Outstanding
  <2>7. \A q \in Proc : pc'[q] = "run" => todo'[q] # <<>>
    BY <1>2 DEF ListInv, ClaimInv
  <2>8. jobs' \in Seq(Kind) /\ todo' \in [Proc -> Seq(Nat)]
    BY <1>2, <2>1 DEF ListInv
  <2> QED BY <2>6, <2>7, <2>8 DEF ListInv
<1>3. CASE Begin(p)
  <2>1. CASE UNCHANGED todo /\ pc' = [pc EXCEPT ![p] = "run"]
    BY <1>1, <1>3, <2>1 DEF Begin, Busy
  <2>2. CASE todo' = [todo EXCEPT ![p] = Tail(@)] /\ UNCHANGED pc
    <3>1. pc' = [pc EXCEPT ![p] = "drain"]
      BY <1>3, <2>2 DEF Begin, ClaimInv
    <3> QED BY <1>2, <1>3, <2>2, <3>1 DEF Begin, Busy
  <2> QED BY <1>3, <2>1, <2>2 DEF Begin
<1>4. CASE FinishJob(p)
  BY <1>2, <1>4 DEF FinishJob, Busy, ListInv
<1>5. CASE Release(p)
  BY <1>5 DEF Release, Leave, AfterDrain, ListInv, ClaimInv, Busy, Once, Outstanding
<1> QED
  BY <1>3, <1>4, <1>5 DEF Drain

\* Every step keeps the lists.
LEMMA ListStep == ListInv /\ ClaimInv /\ [TailNext]_tailVars => ListInv'
<1> SUFFICES ASSUME ListInv, ClaimInv, [TailNext]_tailVars PROVE ListInv'
  OBVIOUS
<1>1. CASE UNCHANGED <<done, pc, todo>> /\ (UNCHANGED jobs \/ \E kind \in Kind : RecordJob(kind))
           /\ (UNCHANGED round \/ round' = round + 1)
  <2>1. jobs' \in Seq(Kind)
    BY <1>1, AppendProperties DEF RecordJob, ListInv
  <2> QED BY <1>1, <2>1 DEF ListInv, ClaimInv, Busy, Once, Outstanding
<1>2. CASE LoopEnds \/ Judge
  BY <1>1, <1>2 DEF LoopEnds, Judge, Kind
<1>3. CASE Passes \/ Escalate \/ Dispatch \/ Age \/ UNCHANGED tailVars
  BY <1>1, <1>3 DEF Passes, Escalate, Dispatch, Age, tailVars
<1>4. CASE DrainHere
  BY <1>4, ListClaimed DEF DrainHere, Proc, Busy
<1>5. ASSUME NEW p \in Proc, Drain(p) PROVE ListInv'
  BY <1>5, ListDrained
<1>6. ASSUME NEW p \in Proc, Find(p) PROVE ListInv'
  BY <1>6 DEF Find, ListInv, ClaimInv, Busy, Once, Outstanding
<1>7. ASSUME NEW p \in Proc, Sweep(p) \/ FinalizeTail(p) PROVE ListInv'
  BY <1>7, ListClaimed DEF Sweep, FinalizeTail, Busy
<1>8. ASSUME NEW p \in Proc, Exit(p) \/ Die(p) PROVE ListInv'
  <2>1. <<>> \in Seq(Nat)
    OBVIOUS
  <2>2. /\ UNCHANGED <<jobs, done, round>>
        /\ pc' = [pc EXCEPT ![p] = "end"] /\ todo' = [todo EXCEPT ![p] = <<>>]
    BY <1>8 DEF Exit, Die, Gone
  <2>3. \A q \in Proc : pc'[q] \in {"drain", "run"} => pc'[q] = pc[q] /\ todo'[q] = todo[q]
    BY <2>2 DEF ListInv, ClaimInv
  <2> QED BY <2>1, <2>2, <2>3 DEF ListInv, Busy, Once, Outstanding
<1> QED
  BY <1>2, <1>3, <1>4, <1>5, <1>6, <1>7, <1>8 DEF TailNext, Run

\* Only Begin() invokes a runner.
LEMMA RunsTheHead ==
    ASSUME ListInv, ClaimInv, [TailNext]_tailVars, round = 1,
           NEW p \in Proc, pc[p] = "drain", pc'[p] = "run"
    PROVE  Head(todo[p]) \notin done
<1>1. CASE \E q \in Proc : Begin(q)
  <2>1. todo[p] # <<>>
    BY <1>1 DEF Begin, ClaimInv
  <2>2. 1 \in DOMAIN todo[p] /\ Head(todo[p]) = todo[p][1]
    BY <2>1, TailOfList DEF ListInv
  <2> QED BY <2>2 DEF ListInv, Busy, Outstanding
<1>2. CASE \E q \in Proc : FinishJob(q) \/ Release(q) \/ Find(q) \/ Exit(q) \/ Die(q)
  BY <1>2 DEF FinishJob, Release, Leave, AfterDrain, Find, Exit, Die, Gone, ClaimInv
<1>3. ASSUME NEW q \in Proc, NEW kinds, ClaimStore(q, kinds) PROVE FALSE
  BY <1>3 DEF ClaimStore, Leave, AfterDrain, ClaimInv
<1>4. CASE DrainHere \/ \E q \in Proc : Sweep(q) \/ FinalizeTail(q)
  BY <1>3, <1>4 DEF DrainHere, Sweep, FinalizeTail, Proc
<1>5. CASE LoopEnds \/ Judge \/ Passes \/ Escalate \/ Dispatch \/ Age \/ UNCHANGED tailVars
  BY <1>5 DEF LoopEnds, Judge, Passes, Escalate, Dispatch, Age, tailVars
<1> QED
  BY <1>1, <1>2, <1>4, <1>5 DEF TailNext, Run, Drain

\* Until the gate escalates no job with a done row is run again: neither a list
\* read long ago nor a release, a death or a failed append brings one back.
THEOREM DoneStaysDone == TailSpec => DoneIsNotRun
<1>1. /\ TailInit => ClaimInv /\ ListInv
      /\ ClaimInv /\ ListInv /\ [TailNext]_tailVars => ClaimInv' /\ ListInv'
  BY ClaimInit, ClaimStep, ListInit, ListStep
<1>2. ClaimInv /\ ListInv /\ [TailNext]_tailVars =>
        (round = 1 => \A p \in Proc : pc[p] = "drain" /\ pc'[p] = "run" => Head(todo[p]) \notin done)
  BY RunsTheHead
<1> QED
  BY <1>1, <1>2, PTL DEF TailSpec, DoneIsNotRun

=============================================================================
