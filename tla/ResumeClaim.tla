---------------------------- MODULE ResumeClaim ----------------------------
(***************************************************************************)
(* Resuming the plan of a run whose process died: src/src/checkpoint.py,   *)
(* run_lease.py, _cmd_resume of cli.py and _load_resume of loop_planning.  *)
(* A loop writes its progress to one file, without a lock, before and      *)
(* after every step.  A resume takes the admission lock, reads the file    *)
(* twice, looks for signs of a live owner and claims the file by compare   *)
(* and swap; its own loop then goes on with the plan.  "maro resume" of a  *)
(* run writes to the run's file, a resume through the library to a file of *)
(* its own.  A loop is named by its process, and so are its claim's nonce, *)
(* its lease, its own file and the run a command makes for itself.  Other  *)
(* loops with plans of their own come into the run's directory: recovery,  *)
(* restarts and queued continuations.                                      *)
(***************************************************************************)
EXTENDS Naturals, FiniteSets

CONSTANTS
    Owner,       \* the process that started the run
    Cli,         \* processes of "maro resume"
    Api,         \* processes that resume through run_agent_loop()
    Home,        \* the run, and its directory's checkpoint
    Other,       \* a loop that draws up another plan in the directory of a run
    None,
    Steps,       \* length of the plan
    Patient,     \* operators who repeat "maro resume --reclaim" until it is admitted
    Mortal,      \* processes that may die in the middle
    MaxFaults    \* bound on writes that fail, steps that give up, late refusals and
                 \* other plans that nobody's giving up was the reason for

ASSUME ProcAssumption ==
    /\ Owner \notin Cli \cup Api
    /\ Cli \cap Api = {}
    /\ {Home, Other, None} \cap ({Owner} \cup Cli \cup Api) = {}
    /\ Home # None /\ Other # None

ASSUME BoundAssumption == Patient \subseteq Cli /\ Steps \in Nat \ {0} /\ MaxFaults \in Nat

Proc == {Owner} \cup Cli \cup Api
Address == {Home} \cup Cli \cup Api
Run == {Home} \cup Cli   \* directories of runs, that of a command only if it made one
LockName == (Run \X {"run"}) \cup (Proc \X {"loop"})

VARIABLES
    file,     \* the checkpoint at each address
    lock,     \* who holds each admission lock
    lease,    \* processes whose loop holds its run lease
    alive,
    pc,
    at,       \* the address a resume found its source at
    seen,     \* the snapshot it read there
    pos,      \* steps the loop of a process has behind it
    status,   \* the run's metadata
    looked,   \* the heartbeat found no owner, and is about to say so
    onRecord, \* steps that some checkpoint once called finished
    reran,    \* loops with other plans have come into the run
    faults

vars == <<file, lock, lease, alive, pc, at, seen, pos, status, looked, onRecord, reran, faults>>

Checkpoint == [loop : Proc, done : 0..Steps, flight : BOOLEAN,
               claim : Proc \cup {None}, consumer : Proc \cup {None}]

\* No file.
Absent == [loop |-> None, done |-> 0, flight |-> FALSE, claim |-> None, consumer |-> None]

\* The checkpoint of another plan; what resumes of that do is not modelled.
Foreign == [Absent EXCEPT !.loop = Other]
NoPlan == {Absent, Foreign}

Waiting == {"looked", "locked", "probed"}   \* a resume being admitted
Running == {"exec", "step"}

TypeOK ==
    /\ file \in [Address -> Checkpoint \cup NoPlan]
    /\ lock \in [LockName -> Proc \cup {None}]
    /\ lease \subseteq alive
    /\ alive \subseteq Proc
    /\ pc \in [Proc -> {"idle", "claimed", "closure", "end"} \cup Waiting \cup Running]
    /\ at \in [Proc -> Address \cup {None}]
    /\ seen \in [Proc -> Checkpoint \cup {Absent}]
    /\ pos \in [Proc -> 0..Steps]
    /\ status \in {"", "stranded", "open", "done"}
    /\ looked \in BOOLEAN
    /\ onRecord \in 0..Steps
    /\ reran \in {"no", "live", "over"}
    /\ faults \in 0..MaxFaults

Init ==
    /\ file = [a \in Address |-> Absent]
    /\ lock = [l \in LockName |-> None]
    /\ lease = {Owner}
    /\ alive = Proc
    /\ pc = [p \in Proc |-> IF p = Owner THEN "exec" ELSE "idle"]
    /\ at = [p \in Proc |-> None]
    /\ seen = [p \in Proc |-> Absent]
    /\ pos = [p \in Proc |-> 0]
    /\ status = ""
    /\ looked = FALSE
    /\ onRecord = 0
    /\ reran = "no"
    /\ faults = 0

Fault == faults < MaxFaults /\ faults' = faults + 1

-----------------------------------------------------------------------------
(* What a checkpoint means.                                                *)

Complete(c) == c.done = Steps
Consumed(c) == c.consumer # None

\* Where the loop of p writes when its source is at a: a command goes on in the
\* directory of the run it resumes, or makes one.
Destination(p, a) ==
    CASE p = Owner -> Home
      [] p \in Cli /\ a \in Run -> a
      [] p # Owner /\ ~(p \in Cli /\ a \in Run) -> p

\* Mutant: the successor's file is looked for in the run's directory only.
ClaimStatusBlind(a) ==
    LET c == file[a]
    IN  CASE c.claim = None \/ Consumed(c) -> "none"
          [] c.claim # None /\ ~Consumed(c) -> IF c.claim \in alive THEN "live" ELSE "unresolved"

\* resume_claim_status(): the claimant lives, a file of its successor exists, or
\* neither.  A file that cannot be read is not modelled.
ClaimStatus(a) ==
    LET c == file[a]
        heir == file[Destination(c.claim, a)]
    IN  CASE c.claim = None \/ Consumed(c) -> "none"
          [] c.claim # None /\ ~Consumed(c) /\ c.claim \in alive -> "live"
          [] c.claim # None /\ ~Consumed(c) /\ c.claim \notin alive ->
                IF heir # Absent /\ heir.loop # c.loop THEN "superseded" ELSE "unresolved"

\* probe_owner_alive(), of the loop that wrote c.
OwnerAlive(c) == c.loop \in lease

\* write_checkpoint(): a new file with no claim; a failure is swallowed.
Write(p, done, flight) ==
    \/ /\ file' = [file EXCEPT ![Destination(p, at[p])] =
                      [loop |-> p, done |-> done, flight |-> flight, claim |-> None, consumer |-> None]]
       /\ onRecord' = IF done > onRecord THEN done ELSE onRecord
       /\ UNCHANGED faults
    \/ Fault /\ UNCHANGED <<file, onRecord>>

-----------------------------------------------------------------------------
(* The loop.                                                               *)

\* The marker of the step in flight is written, and the step runs.
BeginStep(p) ==
    /\ pc[p] = "exec" /\ p \in alive /\ pos[p] < Steps
    /\ Write(p, pos[p], TRUE)
    /\ pc' = [pc EXCEPT ![p] = "step"]
    /\ UNCHANGED <<lock, lease, alive, at, seen, pos, status, looked, reran>>

\* The step is done and written down; an unwritten one may be written with the next.
FinishStep(p) ==
    /\ pc[p] = "step" /\ p \in alive
    /\ Write(p, pos[p] + 1, FALSE)
    /\ pos' = [pos EXCEPT ![p] = @ + 1]
    /\ pc' = [pc EXCEPT ![p] = "exec"]
    /\ UNCHANGED <<lock, lease, alive, at, seen, status, looked, reran>>

\* The loop gives up on the step, and ends without it.
GiveUp(p) ==
    /\ pc[p] = "step" /\ p \in alive
    /\ Fault
    /\ lease' = lease \ {p}
    /\ pc' = [pc EXCEPT ![p] = "closure"]
    /\ UNCHANGED <<file, lock, alive, at, seen, pos, status, looked, onRecord, reran>>

\* release_loop_resources() of a loop whose plan is done.  A loop of the library
\* has settled its source before (settle_resume_claim).
LoopEnds(p) ==
    /\ pc[p] = "exec" /\ p \in alive /\ pos[p] = Steps
    /\ lease' = lease \ {p}
    /\ pc' = [pc EXCEPT ![p] = "closure"]
    /\ UNCHANGED <<file, lock, alive, at, seen, pos, status, looked, onRecord, reran, faults>>

-----------------------------------------------------------------------------
(* Admission.                                                              *)

\* "maro resume" locks the run, the library the loop it was asked for.
LockOf(p) ==
    IF p \in Cli /\ at[p] \in Run THEN <<at[p], "run">> ELSE <<seen[p].loop, "loop">>

Unlock(p) == lock' = [l \in LockName |-> IF lock[l] = p THEN None ELSE lock[l]]

\* A process lets go of the run: lock, lease, and what it had read.
Leave(p, next) ==
    /\ Unlock(p)
    /\ lease' = lease \ {p}
    /\ pc' = [pc EXCEPT ![p] = next]
    /\ pos' = [pos EXCEPT ![p] = 0]
    /\ at' = [at EXCEPT ![p] = None]
    /\ seen' = [seen EXCEPT ![p] = Absent]

\* A resume that is refused before it claimed leaves nothing behind; a patient
\* operator starts the command again.
Refuse(p) == Leave(p, IF p \in Patient THEN "idle" ELSE "end")

\* The first lookup, which says what to lock.  A loop of the library has its
\* lease by then.  (Who finds another plan there leaves this one alone.)
Lookup(p, a) ==
    /\ p \in (Cli \cup Api) \cap alive /\ pc[p] = "idle"
    /\ file[a] \notin NoPlan
    /\ at' = [at EXCEPT ![p] = a]
    /\ seen' = [seen EXCEPT ![p] = file[a]]
    /\ lease' = IF p \in Api THEN lease \cup {p} ELSE lease
    /\ pc' = [pc EXCEPT ![p] = "looked"]
    /\ UNCHANGED <<file, lock, alive, pos, status, looked, onRecord, reran, faults>>

\* Under the lock the source is read again: "maro resume" wants the snapshot it
\* locked for, the library the loop it was asked for.
Same(p) ==
    IF p \in Cli THEN file[at[p]] = seen[p] ELSE file[at[p]].loop = seen[p].loop

\* acquire_pidfile(), refused at once when it is held, and the second lookup.
Lock(p) ==
    /\ pc[p] = "looked" /\ p \in alive
    /\ IF lock[LockOf(p)] = None /\ Same(p) /\ ~Complete(file[at[p]]) /\ ~Consumed(file[at[p]])
       THEN /\ lock' = [lock EXCEPT ![LockOf(p)] = p]
            /\ seen' = [seen EXCEPT ![p] = file[at[p]]]
            /\ pc' = [pc EXCEPT ![p] = "locked"]
            /\ UNCHANGED <<lease, at, pos>>
       ELSE Refuse(p)
    /\ UNCHANGED <<file, alive, status, looked, onRecord, reran, faults>>

\* Mutant: the run's pid is believed, and no lease probed.
NoOwnerPid(p) == Owner \notin alive

\* Mutant: a free lease is believed, whatever the run's metadata says.
NoOwnerLease(p) == ~OwnerAlive(seen[p])

\* The signs of an owner: the lease of the loop; for "maro resume" of a run also
\* a run that was closed as done, and the pid while it is not closed.  (The same
\* checks on the run a command made for itself are left out: they only refuse.)
NoOwner(p) ==
    /\ ~OwnerAlive(seen[p])
    /\ p \in Cli /\ at[p] = Home => status # "done" /\ (status = "" => Owner \notin alive)

Probe(p) ==
    /\ pc[p] = "locked" /\ p \in alive
    /\ IF NoOwner(p)
       THEN pc' = [pc EXCEPT ![p] = "probed"] /\ UNCHANGED <<lock, lease, at, seen, pos>>
       ELSE Refuse(p)
    /\ UNCHANGED <<file, alive, status, looked, onRecord, reran, faults>>

\* Mutant: the claim is put on whatever its loop has made of the file by now.
MayClaimChanged(p, reclaim) ==
    /\ file[at[p]].loop = seen[p].loop
    /\ ClaimStatus(at[p]) \in {"none"} \cup (IF reclaim THEN {"unresolved"} ELSE {})

\* Mutant: --reclaim is not passed on to the write.
MayClaimUnclaimed(p, reclaim) ==
    /\ file[at[p]] = seen[p]
    /\ ~Complete(file[at[p]]) /\ ~Consumed(file[at[p]])
    /\ ClaimStatus(at[p]) = "none"

\* mark_checkpoint_claimed(): the same bytes, not finished, not claimed by another.
MayClaim(p, reclaim) ==
    /\ file[at[p]] = seen[p]
    /\ ~Complete(file[at[p]]) /\ ~Consumed(file[at[p]])
    /\ ClaimStatus(at[p]) \in {"none"} \cup (IF reclaim THEN {"unresolved"} ELSE {})

\* The claim is written under the file's lock.  When it does not read back, the
\* resume is refused and its claim stays.
Claim(p, reclaim) ==
    /\ pc[p] = "probed" /\ p \in alive
    /\ reclaim => p \in Cli
    /\ p \in Patient => reclaim
    /\ IF MayClaim(p, reclaim)
       THEN /\ file' = [file EXCEPT ![at[p]].claim = p]
            /\ \/ pc' = [pc EXCEPT ![p] = "claimed"] /\ UNCHANGED <<lock, lease, at, seen, pos, faults>>
               \/ Fault /\ Leave(p, "end")
       ELSE Refuse(p) /\ UNCHANGED <<file, faults>>
    /\ UNCHANGED <<alive, status, looked, onRecord, reran>>

-----------------------------------------------------------------------------
(* The resumed run.                                                        *)

\* The loop starts from the claimed file, if the claim is still its own; the
\* library gives the admission lock back, the command keeps it to the end.
Start(p) ==
    /\ pc[p] = "claimed" /\ p \in alive
    /\ file[at[p]].claim = p
    /\ lease' = lease \cup {p}
    /\ pos' = [pos EXCEPT ![p] = file[at[p]].done]
    /\ pc' = [pc EXCEPT ![p] = "exec"]
    /\ IF p \in Api THEN Unlock(p) ELSE UNCHANGED lock
    /\ UNCHANGED <<file, alive, at, seen, status, looked, onRecord, reran, faults>>

\* release_checkpoint_claim(): its own claim, and no other.
Released(p) ==
    IF file[at[p]].claim = p THEN [file EXCEPT ![at[p]].claim = None] ELSE file

\* A claim that is no longer its own, a busy project or the cost gate:
\* finalize_refusal(), and "maro resume" closes the run.
RefuseLate(p) ==
    /\ pc[p] = "claimed" /\ p \in alive
    /\ IF file[at[p]].claim = p THEN Fault ELSE UNCHANGED faults
    /\ \/ file' = Released(p) /\ Refuse(p)
       \/ UNCHANGED file /\ Leave(p, "end")
    /\ status' = IF p \in Cli /\ at[p] = Home THEN "open" ELSE status
    /\ UNCHANGED <<alive, looked, onRecord, reran>>

\* source_is_settled(), of a loop whose plan is done.
Settled(p) ==
    LET c == file[at[p]]
    IN  \/ c.loop = p /\ Complete(c)
        \/ c.loop = seen[p].loop /\ c.consumer = p

\* consume_claimed(): only while the file carries this run's claim.
MayConsume(p) == file[at[p]].loop = seen[p].loop /\ file[at[p]].claim = p

\* The source is settled, or cannot be: then the run is not done.
Settle(p) ==
    \/ /\ Settled(p)
       /\ status' = IF at[p] = Home /\ p \in Cli THEN "done" ELSE status
       /\ UNCHANGED <<file, faults>>
    \/ /\ ~Settled(p) /\ MayConsume(p)
       /\ file' = [file EXCEPT ![at[p]].consumer = p]
       /\ status' = IF at[p] = Home /\ p \in Cli THEN "done" ELSE status
       /\ UNCHANGED faults
    \/ /\ ~Settled(p)
       /\ IF MayConsume(p) THEN Fault ELSE UNCHANGED faults
       /\ status' = IF at[p] = Home /\ p \in Cli THEN "open" ELSE status
       /\ UNCHANGED file

\* The loop gave up, and a recovery re-run of its frame finished the goal by
\* another plan: in the directory the source was in, or elsewhere.
Recovered(p) ==
    /\ \/ /\ MayConsume(p)
          /\ file' = [file EXCEPT ![at[p]].consumer = p]
       \/ Destination(p, at[p]) = at[p] /\ file[at[p]] = Foreign /\ UNCHANGED file
    /\ status' = IF at[p] = Home /\ p \in Cli THEN "done" ELSE status
    /\ UNCHANGED faults

\* Closure is over.  A plan that is done may still be judged incomplete.
Close(p) ==
    /\ pc[p] = "closure" /\ p \in alive
    /\ \/ pos[p] = Steps /\ p # Owner /\ Settle(p)
       \/ pos[p] < Steps /\ p # Owner /\ Recovered(p)
       \/ p = Owner /\ pos[p] = Steps /\ status' = "done" /\ UNCHANGED <<file, faults>>
       \/ /\ p \notin Api \/ pos[p] < Steps
          /\ status' = IF p = Owner \/ (p \in Cli /\ at[p] = Home) THEN "open" ELSE status
          /\ UNCHANGED <<file, faults>>
    /\ Leave(p, "end")
    /\ UNCHANGED <<alive, looked, onRecord, reran>>

-----------------------------------------------------------------------------
(* Loops with another plan, which take no lock, probe no lease and claim no *)
(* checkpoint: the recovery re-run of a stuck loop, the restart of a run    *)
(* that closure rejected, and the queued continuation of a paused run.      *)

\* The loop the directory of a run was made for has ended.
FirstEnded(r) == pc[IF r = Home THEN Owner ELSE r] \in {"closure", "end"}

\* A loop that gave up goes on with another plan in its frame.
Recovers(r) ==
    \E p \in Proc : pc[p] = "closure" /\ pos[p] < Steps /\ Destination(p, at[p]) = r

\* Its progress is written over what the directory holds.
Rerun(r) ==
    /\ IF r = Home /\ reran = "no" /\ ~Recovers(r) THEN Fault ELSE UNCHANGED faults
    /\ r = Home => reran # "over"
    /\ FirstEnded(r) /\ file[r] \notin NoPlan
    /\ file' = [file EXCEPT ![r] = Foreign]
    /\ reran' = IF r = Home THEN "live" ELSE reran
    /\ UNCHANGED <<lock, lease, alive, pc, at, seen, pos, status, looked, onRecord>>

\* A continuation says on the run how it ended; after that no other comes (bound).
RerunEnds ==
    /\ reran = "live"
    /\ reran' = "over"
    /\ status' \in {"open", "done"}
    /\ UNCHANGED <<file, lock, lease, alive, pc, at, seen, pos, looked, onRecord, faults>>

-----------------------------------------------------------------------------
(* The sweep of stranded runs, and death.                                  *)

\* _backfill_stranded_run_cards(): a look without a lock ...
Look ==
    /\ ~looked
    /\ status = "" /\ ~OwnerAlive(file[Home]) /\ Owner \notin alive
    /\ looked' = TRUE
    /\ UNCHANGED <<file, lock, lease, alive, pc, at, seen, pos, status, onRecord, reran, faults>>

\* ... and a stamp that asks for the status again.
Stamp ==
    /\ looked
    /\ looked' = FALSE
    /\ status' = IF status = "" THEN "stranded" ELSE status
    /\ UNCHANGED <<file, lock, lease, alive, pc, at, seen, pos, onRecord, reran, faults>>

Gone(p) ==
    /\ alive' = alive \ {p}
    /\ Leave(p, "end")
    /\ UNCHANGED <<file, status, looked, onRecord, reran, faults>>

Exit(p) ==
    /\ p \in alive /\ pc[p] = "end"
    /\ Gone(p)

Crash(p) ==
    /\ p \in alive \cap Mortal
    /\ Gone(p)

Loop(p) == BeginStep(p) \/ FinishStep(p) \/ LoopEnds(p)

\* One command of an admission after the other.
Admit(p) == Lock(p) \/ Probe(p) \/ \E reclaim \in BOOLEAN : Claim(p, reclaim)

Next ==
    \/ \E p \in Proc : Loop(p) \/ GiveUp(p) \/ Admit(p) \/ Start(p) \/ RefuseLate(p) \/ Close(p)
    \/ \E p \in Proc, a \in Address : Lookup(p, a)
    \/ \E p \in Proc : Exit(p) \/ Crash(p)
    \/ RerunEnds \/ \E r \in Run : Rerun(r)
    \/ Look \/ Stamp

Spec == Init /\ [][Next]_vars

\* Processes go on unless they die, and a patient operator tries every address
\* again and again.  What fails owes nothing.
FairSpec ==
    /\ Spec
    /\ \A p \in Proc : WF_vars(Loop(p) \/ Admit(p) \/ Start(p) \/ RefuseLate(p) \/ Close(p) \/ Exit(p))
    /\ \A p \in Patient, a \in Address \ Patient : SF_vars(Lookup(p, a))

-----------------------------------------------------------------------------
(* Properties.                                                             *)

\* Two live processes never go on with the plan at once, though one may be
\* admitted by the run and the other by its loop, under different locks: the
\* claim must catch whoever read the file before it changed hands.
OneExecutor == \A p, q \in Proc : pc[p] \in Running /\ pc[q] \in Running => p = q

\* No chain of deaths, refused and resumed runs, overridden claims and lost
\* writes repeats a step that a checkpoint once called finished.
NoReplay == [][\A p \in Proc : pc[p] = "exec" /\ pc'[p] = "step" => pos[p] >= onRecord]_vars

\* Finished, or consumed by a successor.
Spent(c) == c # Absent /\ (Complete(c) \/ Consumed(c))

\* settle_resume_source(): what a successful resume left unable to replay stays
\* so: no slower resume, claim or loop of the plan writes over it.  Only a loop
\* with another plan may, which comes into a run's directory without a claim.
SpentStaysSpent ==
    [][\A a \in Address : Spent(file[a]) => Spent(file'[a]) \/ (a \in Run /\ file'[a] = Foreign)]_vars

\* After the run was closed as done "maro resume" runs no step of it, even when
\* its last checkpoint was lost; unless a loop with another plan has worked in the
\* run, which may stamp it done while a resume is at work.
ClosedRunsNothing ==
    [][status = "done" /\ reran = "no" => \A p \in Cli : at[p] = Home /\ pc[p] = "exec" => pc'[p] # "step"]_vars

\* _backfill_stranded_run_cards(): a run is called stranded when its owner died
\* before it finalized, not while a resume of it lives.
StrandedIsDead ==
    [][status' = "stranded" /\ status = "" =>
          ~\E p \in Cli : at[p] = Home /\ pc[p] \in Running \cup {"closure"}]_vars

\* No chain of deaths, refusals and failed writes locks a plan away: a patient
\* operator is admitted in time, unless there is nothing to resume: no checkpoint
\* of the plan, or none but those whose successor another plan wrote over.
NothingLeft == \A a \in Address : file[a] \in NoPlan \/ ClaimStatus(a) = "superseded"
NeverWedged ==
    <>[](\/ NothingLeft \/ status = "done"
         \/ \E a \in Address : Spent(file[a])
         \/ \E p \in Patient : pc[p] \in {"end", "closure"} \cup Running)

=============================================================================
