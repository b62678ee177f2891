----------------------------- MODULE TaskStore -----------------------------
(***************************************************************************)
(* The file-per-task queue of src/src/task_store.py.  Every task is one    *)
(* JSON file, <job_id>.json; every operation reads, decides and rewrites   *)
(* that file (atomic rename) while it holds the task's own flock, so one   *)
(* operation on one task is one step here.  An operation that touches      *)
(* several tasks (complete, then _resolve_dependents) takes and releases   *)
(* the locks one after the other and is several steps of TaskQueue.        *)
(*                                                                         *)
(* This module holds the files and the effect of each operation on them;   *)
(* TaskQueue says which process runs which operation when.                 *)
(***************************************************************************)
EXTENDS Naturals, FiniteSets

CONSTANTS
    Job,      \* job ids; the order of the numbers is the order of sorted(glob)
    Pid,      \* process ids that claim tasks
    NoPid,    \* claimed_by_pid = None
    Missing   \* ids somebody mistyped in --blocked-by

ASSUME JobAssumption == Job \subseteq Nat /\ Job \cap Missing = {}
ASSUME PidAssumption == NoPid \notin Pid

VARIABLES
    status,     \* "absent" (no file) or the status field of the file
    blockedBy,  \* the blocked_by field
    owner,      \* the claimed_by_pid field
    archived    \* ids whose file was moved to archive/

storeVars == <<status, blockedBy, owner, archived>>

Status == {"absent", "queued", "claimed", "done", "failed"}

StoreTypeOK ==
    /\ status \in [Job -> Status]
    /\ blockedBy \in [Job -> SUBSET (Job \cup Missing)]
    /\ owner \in [Job -> Pid \cup {NoPid}]
    /\ archived \subseteq Job

StoreInit ==
    /\ status = [j \in Job |-> "absent"]
    /\ blockedBy = [j \in Job |-> {}]
    /\ owner = [j \in Job |-> NoPid]
    /\ archived = {}

\* Tasks that list_tasks() and the scans find.
Present == {j \in Job : status[j] # "absent"}

\* Ids that new_job_id() has handed out; uuid4 never repeats one.
Minted == Present \cup archived

\* enqueue(): a fresh id is written "queued".  Its dependencies are whatever the
\* caller names: ids handed out before (their file may be archived by now) or
\* a mistyped one.  _check_cycle is no guard here: an id that did not exist
\* yet cannot be on the blocked_by list of anything that did.
EnqueueTask(j, deps) ==
    /\ j \notin Minted
    /\ status' = [status EXCEPT ![j] = "queued"]
    /\ blockedBy' = [blockedBy EXCEPT ![j] = deps]
    /\ owner' = [owner EXCEPT ![j] = NoPid]
    /\ UNCHANGED archived

\* Mutant: a claimed task counts as stale whether or not its pid lives.
StaleWhenClaimed(j, live) == status[j] = "claimed" /\ owner[j] # NoPid

\* A claim whose recorded pid is dead: claim() treats it as released.
Stale(j, live) == status[j] = "claimed" /\ owner[j] # NoPid /\ owner[j] \notin live

\* Mutant: a dependency that failed is over, too.
DepSettled(d) == d \in Job /\ status[d] \in {"done", "failed"}

DepDone(d) == d \in Job /\ status[d] = "done"

\* Mutant: claim() does not look at the status.
ClaimableAnyStatus(j, live) == j \in Present /\ \A d \in blockedBy[j] : DepDone(d)

\* Mutant: claim() trusts _resolve_dependents to have emptied blocked_by.
ClaimableResolved(j, live) == (status[j] = "queued" \/ Stale(j, live)) /\ blockedBy[j] = {}

\* The conditions under which claim() does not raise.
Claimable(j, live) ==
    /\ status[j] = "queued" \/ Stale(j, live)
    /\ \A d \in blockedBy[j] : DepDone(d)

ClaimTask(j, p) ==
    /\ status' = [status EXCEPT ![j] = "claimed"]
    /\ owner' = [owner EXCEPT ![j] = p]
    /\ UNCHANGED <<blockedBy, archived>>

\* complete() refuses every status but these two.
Completable(j) == status[j] \in {"claimed", "queued"}

CompleteTask(j) ==
    /\ status' = [status EXCEPT ![j] = "done"]
    /\ owner' = [owner EXCEPT ![j] = NoPid]
    /\ UNCHANGED <<blockedBy, archived>>

\* fail() checks only that the file exists, never its status.
Failable(j) == j \in Present

FailTask(j) ==
    /\ status' = [status EXCEPT ![j] = "failed"]
    /\ owner' = [owner EXCEPT ![j] = NoPid]
    /\ UNCHANGED <<blockedBy, archived>>

\* The files _resolve_dependents(j) will rewrite.  blocked_by only shrinks, so
\* the others stay untouched whenever the scan reaches them.
Dependents(j) == {d \in Present : j \in blockedBy[d]}

\* One such rewrite, under d's own lock; the file may be gone by then.
ResolveTask(d, j) ==
    /\ blockedBy' = [blockedBy EXCEPT ![d] = @ \ {j}]
    /\ UNCHANGED <<status, owner, archived>>

\* archive(): the file moves to archive/ and is no longer found.
ArchiveTask(j) ==
    /\ status[j] \in {"done", "failed"}
    /\ archived' = archived \cup {j}
    /\ status' = [status EXCEPT ![j] = "absent"]
    /\ blockedBy' = [blockedBy EXCEPT ![j] = {}]
    /\ owner' = [owner EXCEPT ![j] = NoPid]

\* Mutant: the sweep clears the pid and forgets the status.
RecoverOwnerOnly(j, live) ==
    Stale(j, live) /\ owner' = [owner EXCEPT ![j] = NoPid] /\ UNCHANGED <<status, blockedBy, archived>>

\* One iteration of recover_stale_claims().
RecoverTask(j, live) ==
    /\ Stale(j, live)
    /\ status' = [status EXCEPT ![j] = "queued"]
    /\ owner' = [owner EXCEPT ![j] = NoPid]
    /\ UNCHANGED <<blockedBy, archived>>
=============================================================================
