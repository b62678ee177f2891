-------------------------- MODULE ResumeClaimProofs -------------------------
(***************************************************************************)
(* A plan has one executor, its finished steps are not replayed, and what  *)
(* is spent stays so, for every number of commands and library resumes,    *)
(* every length of the plan, and any deaths and lost writes.  The files    *)
(* form a chain, each claimed for the next: the argument is that only its  *)
(* last file can be claimed, and that whoever goes on with the plan holds  *)
(* that file, as its writer or by its claim.                               *)
(***************************************************************************)
EXTENDS ResumeClaim, TLAPS

\* The file that a claim on a makes the next of the chain, once it is written.
Heir(a) == Destination(file[a].claim, a)

\* The end of the chain.  A file that another plan wrote over has no end.
Leaf(a) ==
    /\ file[a] \notin NoPlan
    /\ file[a].claim # None /\ Heir(a) # a => file[Heir(a)] = Absent

OneLeaf == \A a, b \in Address : Leaf(a) /\ Leaf(b) => a = b

\* How a process holds the plan: the last file is its own, it has claimed the last
\* file, or there is none, since nobody has written or another plan was written
\* over the last file, and the one it writes holds no plan.
Writes(p) ==
    LET d == Destination(p, at[p])
    IN  file[d] \notin NoPlan /\ file[d].loop = p /\ file[d].claim = None
HasClaim(p) == p # Owner /\ Leaf(at[p]) /\ file[at[p]].claim = p
Lost(p) ==
    /\ \A a \in Address : ~Leaf(a)
    /\ file[Destination(p, at[p])] \in NoPlan
    /\ p # Owner => file[at[p]].claim # p

\* Who has claimed or goes on with the plan is alone, and holds it.
Admitted(p) == pc[p] \in Running \cup {"claimed"}
Alone == \A p, q \in Proc : Admitted(p) /\ Admitted(q) => p = q
Hold ==
    \A p \in Proc :
       /\ pc[p] = "claimed" => HasClaim(p) \/ Lost(p)
       /\ pc[p] \in Running => Writes(p) \/ HasClaim(p) \/ Lost(p)

\* Who is admitted lives, runs under a lease, and knows its source.
Procs ==
    /\ pc[Owner] \in Running \cup {"closure", "end"}
    /\ \A p \in Proc : pc[p] # "end" => p \in alive
    /\ \A p \in Proc : pc[p] \in Running => p \in lease
    /\ \A p \in Cli \cup Api : pc[p] \notin {"idle", "end"} => at[p] \in Address /\ seen[p] # Absent
    /\ \A p \in Proc : pc[p] = "step" => pos[p] < Steps

\* A file names its writer, only a resume claims, only an unfinished file is
\* claimed, and only a claimant that has ended has consumed.
Files ==
    /\ file[Home] \notin NoPlan => file[Home].loop \in {Owner} \cup Cli
    /\ \A p \in Cli : file[p] \notin NoPlan => file[p].loop \in Cli
    /\ \A p \in Api : file[p] \notin NoPlan => file[p].loop = p
    /\ \A a \in Address :
          /\ file[a].claim # Owner
          /\ file[a].consumer # None => file[a].consumer = file[a].claim /\ pc[file[a].claim] = "end"
          /\ file[a].claim # None => ~Complete(file[a])
          /\ file[a].done <= onRecord

\* A process that has not started is unknown, so a lease found free stays free,
\* and no file waits at its address.
Unused(p) == pc[p] \in {"idle", "claimed"} \cup Waiting
Fresh ==
    /\ \A p \in Proc : Unused(p) =>
          (\A a \in Address : file[a].loop # p) /\ \A q \in Proc : seen[q].loop # p
    /\ \A p \in Cli \cup Api : Unused(p) => file[p] = Absent
    /\ \A p \in Proc : at[p] \in Address => file[at[p]] # Absent
Free == \A p \in Proc : pc[p] = "probed" => seen[p].loop \notin lease

\* The end of the chain, and whoever goes on with it, is as far as the record.
Record ==
    /\ \A a \in Address : Leaf(a) => file[a].done >= onRecord
    /\ \A p \in Proc : pc[p] \in Running => pos[p] >= onRecord

\* After a run was closed as done nobody can claim its file any more, as long as
\* no other plan came into the run.
Closed ==
    /\ file[Home] = Foreign => reran # "no"
    /\ status = "done" /\ reran = "no" => \A p \in Cli : at[p] = Home =>
          /\ pc[p] \notin {"claimed"} \cup Running
          /\ pc[p] = "probed" => Spent(file[Home])

\* Until the first owner has ended, or another plan came, nobody is past the probe
\* of its run.
OwnerFirst ==
    /\ looked => Owner \notin alive
    /\ pc[Owner] # "end" /\ reran = "no" =>
          status = "" /\ \A p \in Cli : at[p] = Home => pc[p] \notin {"probed", "claimed", "closure"} \cup Running

IInv ==
    /\ TypeOK /\ Procs /\ Files /\ Fresh /\ Free
    /\ OneLeaf /\ Alone /\ Hold /\ Record /\ Closed /\ OwnerFirst

-----------------------------------------------------------------------------
(* Names and checkpoints. *)

\* Processes, addresses, other loops and None are told apart.
LEMMA Names ==
    /\ None \notin Proc /\ None \notin Address /\ Home \notin Proc /\ Home \in Address /\ Owner \in Proc
    /\ Other \notin Proc /\ Other # None /\ Home \in Run /\ Run \subseteq Address
    /\ Owner \notin Cli \cup Api
    /\ \A p \in Cli \cup Api : p \in Proc /\ p \in Address /\ p # Home /\ p # None /\ p # Owner
    /\ \A p \in Proc : p # Owner => p \in Cli \cup Api
    /\ \A a \in Address : a # Home => a \in Cli \cup Api
    /\ \A a \in Address : a \notin Run => a \in Api
    /\ \A p \in Cli : p \notin Api
BY ProcAssumption DEF Proc, Address, Run

\* A loop writes to the run's file, to the source of its command, or to its own.
LEMMA Destinations ==
    ASSUME NEW p \in Proc, NEW a
    PROVE  /\ Destination(p, a) \in Address
           /\ p = Owner => Destination(p, a) = Home
           /\ p \in Cli /\ a \in Run => Destination(p, a) = a
           /\ p # Owner /\ ~(p \in Cli /\ a \in Run) => Destination(p, a) = p /\ p \in Cli \cup Api
<1>1. CASE p = Owner
  BY <1>1, Names DEF Destination
<1>2. CASE p \in Cli /\ a \in Run
  BY <1>2, Names DEF Destination
<1>3. CASE p # Owner /\ ~(p \in Cli /\ a \in Run)
  BY <1>3, Names DEF Destination
<1> QED
  BY <1>1, <1>2, <1>3

\* What a file holds.
LEMMA Fields ==
    ASSUME NEW c \in Checkpoint \cup NoPlan
    PROVE  /\ c.done \in 0..Steps /\ c.claim \in Proc \cup {None} /\ c.consumer \in Proc \cup {None}
           /\ c.loop \in Proc \cup {None, Other}
           /\ c.loop \in Proc <=> c \notin NoPlan
           /\ c \notin NoPlan <=> c \in Checkpoint
           /\ c.claim # None => c \notin NoPlan
           /\ Spent(c) => c \notin NoPlan
           /\ Absent # Foreign /\ Absent.loop = None /\ Foreign.loop = Other
           /\ Absent \in NoPlan /\ Foreign \in NoPlan
<1>1. /\ Absent.loop = None /\ Foreign.loop = Other /\ Absent.claim = None /\ Foreign.claim = None
      /\ Absent.done = 0 /\ Foreign.done = 0 /\ Absent.consumer = None /\ Foreign.consumer = None
  BY DEF Absent, Foreign
<1>2. CASE c \in Checkpoint
  BY <1>1, <1>2, Names DEF Checkpoint, NoPlan
<1>3. CASE c \in NoPlan
  <2>1. ~Spent(c)
    BY <1>1, <1>3, BoundAssumption DEF Spent, Complete, Consumed, NoPlan
  <2>2. c \notin Checkpoint
    BY <1>1, <1>3, Names DEF Checkpoint, NoPlan
  <2>3. 0 \in 0..Steps
    BY BoundAssumption
  <2> QED
    BY <1>1, <1>3, <2>1, <2>2, <2>3, Names DEF NoPlan
<1> QED
  BY <1>1, <1>2, <1>3, Names DEF NoPlan

\* A claim or a consumer is put on a checkpoint, or taken off.
LEMMA Touched ==
    ASSUME NEW c \in Checkpoint, NEW p \in Proc \cup {None}
    PROVE  /\ [c EXCEPT !.claim = p] \in Checkpoint /\ [c EXCEPT !.claim = p] \notin NoPlan
           /\ [c EXCEPT !.claim = p].claim = p /\ [c EXCEPT !.claim = p].loop = c.loop
           /\ [c EXCEPT !.claim = p].done = c.done /\ [c EXCEPT !.claim = p].consumer = c.consumer
           /\ [c EXCEPT !.consumer = p] \in Checkpoint /\ [c EXCEPT !.consumer = p] \notin NoPlan
           /\ [c EXCEPT !.consumer = p].consumer = p /\ [c EXCEPT !.consumer = p].loop = c.loop
           /\ [c EXCEPT !.consumer = p].done = c.done /\ [c EXCEPT !.consumer = p].claim = c.claim
<1>1. [c EXCEPT !.claim = p] \in Checkpoint /\ [c EXCEPT !.consumer = p] \in Checkpoint
  BY DEF Checkpoint
<1>2. [c EXCEPT !.claim = p] \notin NoPlan /\ [c EXCEPT !.consumer = p] \notin NoPlan
  BY <1>1, Fields
<1> QED
  BY <1>1, <1>2 DEF Checkpoint

\* A file whose claim may be taken is the last of the chain, and a claim that
\* is overridden was a dead process's.
LEMMA Claimable ==
    ASSUME TypeOK, Files, NEW a \in Address, file[a] \notin NoPlan, ~Consumed(file[a]),
           ClaimStatus(a) \in {"none", "unresolved"}
    PROVE  Leaf(a) /\ (file[a].claim # None => file[a].claim \notin alive)
<1> DEFINE c == file[a].claim
<1>1. c \in Proc \cup {None} /\ file[a].loop \in Proc
  BY Fields DEF TypeOK
<1>2. CASE c = None
  BY <1>2 DEF Leaf
<1>3. CASE c # None
  <2>1. c \in Cli \cup Api
    BY <1>1, <1>3, Names DEF Files
  <2>2. c \notin alive /\ (file[Heir(a)] = Absent \/ file[Heir(a)].loop = file[a].loop)
    BY <1>3 DEF ClaimStatus, Heir
  <2>3. Heir(a) = a \/ (Heir(a) = c /\ ~(c \in Cli /\ a \in Run))
    BY <2>1, Names, Destinations DEF Heir
  <2>4. ASSUME Heir(a) # a, file[Heir(a)] # Absent PROVE FALSE
    <3>1. Heir(a) = c /\ ~(c \in Cli /\ a \in Run) /\ c \in Address /\ c # a
      BY <2>1, <2>3, <2>4, Names
    <3>2. file[c].loop = file[a].loop
      BY <2>2, <2>4, <3>1
    <3>3. file[c] \notin NoPlan
      BY <1>1, <3>1, <3>2, Fields DEF TypeOK
    <3>4. CASE c \in Api
      <4>1. file[c].loop = c
        BY <3>3, <3>4 DEF Files
      <4>2. a \in Api => file[a].loop = a
        BY DEF Files
      <4>3. a \notin Api => file[a].loop \in {Owner} \cup Cli
        BY Names DEF Files
      <4> QED
        BY <3>1, <3>2, <3>4, <4>1, <4>2, <4>3, Names
    <3>5. CASE c \in Cli
      <4>1. a \in Api
        BY <3>1, <3>5, Names
      <4>2. file[a].loop = a /\ file[c].loop \in Cli
        BY <3>3, <3>5, <4>1 DEF Files
      <4> QED
        BY <3>2, <4>1, <4>2, Names
    <3> QED
      BY <2>1, <3>4, <3>5
  <2> QED
    BY <2>2, <2>4 DEF Leaf
<1> QED
  BY <1>2, <1>3

\* Who writes the last file of the chain.
LEMMA WriterHolds ==
    ASSUME NEW p \in Proc, Writes(p)
    PROVE  Leaf(Destination(p, at[p])) /\ Destination(p, at[p]) \in Address
BY Destinations DEF Writes, Leaf

\* Who goes on has a source, but for the owner.
LEMMA Sources ==
    ASSUME IInv, NEW p \in Proc, Admitted(p), p # Owner
    PROVE  at[p] \in Address
BY Names DEF IInv, Procs, Admitted, Running

-----------------------------------------------------------------------------
(* What a step keeps. *)

\* The chain of files is as it was, but for who has claimed or consumed the last.
SameChain ==
    /\ UNCHANGED onRecord
    /\ \A a \in Address :
          /\ file'[a] = Absent <=> file[a] = Absent
          /\ file'[a] \in NoPlan <=> file[a] \in NoPlan
          /\ file'[a].loop = file[a].loop /\ file'[a].done = file[a].done
          /\ Leaf(a)' <=> Leaf(a)

\* Nobody comes back from the end, becomes new, or starts but from its claim.
Onward ==
    \A p \in Proc :
       /\ pc[p] = "end" => pc'[p] = "end"
       /\ Unused(p)' => Unused(p)
       /\ seen'[p] = seen[p] \/ seen'[p] = Absent \/ \E a \in Address : seen'[p] = file[a]
       /\ at'[p] = at[p] \/ at'[p] = None \/ file[at'[p]] # Absent
       /\ pc'[p] \in Running =>
             \/ pc[p] \in Running /\ pos'[p] >= pos[p]
             \/ pc[p] = "claimed" /\ HasClaim(p) /\ pos'[p] = file[at[p]].done

\* Then new processes are still unknown to the files, and nothing that a
\* checkpoint called finished is ahead.
LEMMA ChainKept ==
    ASSUME IInv, SameChain, Onward, pos' \in [Proc -> 0..Steps]
    PROVE  Fresh' /\ OneLeaf' /\ Record'
<1>1. Fresh'
  <2>1. ASSUME NEW p \in Proc, Unused(p)'
        PROVE  (\A a \in Address : file'[a].loop # p) /\ \A q \in Proc : seen'[q].loop # p
    <3>1. (\A a \in Address : file[a].loop # p) /\ \A q \in Proc : seen[q].loop # p
      BY <2>1 DEF Onward, IInv, Fresh
    <3>2. Absent.loop # p
      BY Names DEF Absent
    <3> QED
      BY <3>1, <3>2 DEF SameChain, Onward
  <2>2. ASSUME NEW p \in Cli \cup Api, Unused(p)' PROVE file'[p] = Absent
    BY <2>2, Names DEF Onward, IInv, Fresh, SameChain
  <2>3. ASSUME NEW p \in Proc, at'[p] \in Address PROVE file'[at'[p]] # Absent
    BY <2>3, Names DEF Onward, IInv, Fresh, SameChain
  <2> QED
    BY <2>1, <2>2, <2>3 DEF Fresh
<1>2. OneLeaf'
  BY DEF IInv, OneLeaf, SameChain
<1>3. Record'
  <2>1. \A a \in Address : Leaf(a)' => file'[a].done >= onRecord'
    BY DEF IInv, Record, SameChain
  <2>2. ASSUME NEW p \in Proc, pc'[p] \in Running PROVE pos'[p] >= onRecord'
    <3>1. CASE pc[p] \in Running /\ pos'[p] >= pos[p]
      <4>1. pos[p] >= onRecord /\ onRecord' = onRecord
        BY <3>1 DEF IInv, Record, SameChain
      <4>2. pos[p] \in 0..Steps /\ pos'[p] \in 0..Steps /\ onRecord \in 0..Steps
        BY DEF IInv, TypeOK
      <4> QED
        BY <3>1, <4>1, <4>2, BoundAssumption
    <3>2. CASE pc[p] = "claimed" /\ HasClaim(p) /\ pos'[p] = file[at[p]].done
      <4>1. HasClaim(p) /\ at[p] \in Address
        BY <3>2, Names DEF IInv, Procs, HasClaim
      <4> QED
        BY <3>2, <4>1 DEF IInv, Record, SameChain, HasClaim
    <3> QED
      BY <2>2, <3>1, <3>2 DEF Onward
  <2> QED
    BY <2>1, <2>2 DEF Record
<1> QED
  BY <1>1, <1>2, <1>3

\* A step that leaves the files alone leaves their chain.
LEMMA SameFiles ==
    ASSUME UNCHANGED <<file, onRecord>>
    PROVE  SameChain
BY DEF SameChain, Leaf, Heir

\* Whoever holds the plan goes on holding it while nobody claims or writes.
LEMMA HoldKept ==
    ASSUME IInv, SameChain, \A a \in Address : file'[a].claim = file[a].claim,
           \A p \in Proc : pc'[p] \in Running => Admitted(p),
           \A p \in Proc : pc'[p] = "claimed" => pc[p] = "claimed",
           \A p \in Proc : pc'[p] \in Running \cup {"claimed"} => at'[p] = at[p]
    PROVE  Hold' /\ Alone'
<1>1. ASSUME NEW p \in Proc, at'[p] = at[p], p # Owner => at[p] \in Address
      PROVE  /\ Writes(p) => Writes(p)'
             /\ HasClaim(p) => HasClaim(p)'
             /\ Lost(p) => Lost(p)'
  <2>1. Destination(p, at[p]) \in Address
    BY Destinations
  <2>2. Writes(p) => Writes(p)'
    BY <1>1, <2>1 DEF Writes, SameChain
  <2>3. HasClaim(p) => HasClaim(p)'
    BY <1>1 DEF HasClaim, SameChain
  <2>4. Lost(p) => Lost(p)'
    BY <1>1, <2>1 DEF Lost, SameChain
  <2> QED
    BY <2>2, <2>3, <2>4
<1>2. \A p \in Proc : Admitted(p)' => Admitted(p) /\ at'[p] = at[p]
  BY DEF Admitted
<1>3. Alone'
  BY <1>2 DEF IInv, Alone
<1>4. ASSUME NEW p \in Proc, Admitted(p)'
      PROVE  /\ pc'[p] = "claimed" => HasClaim(p)' \/ Lost(p)'
             /\ pc'[p] \in Running => Writes(p)' \/ HasClaim(p)' \/ Lost(p)'
  <2>1. Admitted(p) /\ at'[p] = at[p] /\ (p # Owner => at[p] \in Address)
    BY <1>2, <1>4, Sources
  <2> QED
    BY <1>1, <2>1 DEF IInv, Hold, Admitted
<1>5. Hold'
  BY <1>4 DEF Hold, Admitted
<1> QED
  BY <1>3, <1>5

LEMMA FilesKept ==
    ASSUME IInv, UNCHANGED <<file, onRecord>>, \A p \in Proc : pc[p] = "end" => pc'[p] = "end"
    PROVE  Files'
<1>1. \A a \in Address : file[a].consumer # None => file[a].claim \in Proc
  BY Fields DEF IInv, TypeOK, Files
<1> QED
  BY <1>1 DEF IInv, Files, Complete

\* What one claim or consumer more or less leaves of what the files say.
LEMMA FilesTouched ==
    ASSUME IInv, SameChain, NEW b \in Address, \A a \in Address : a # b => file'[a] = file[a],
           \A p \in Proc : pc[p] = "end" => pc'[p] = "end",
           file'[b].claim # Owner,
           file'[b].consumer # None => file'[b].consumer = file'[b].claim /\ pc'[file'[b].claim] = "end",
           file'[b].claim # None => file[b].done # Steps
    PROVE  Files'
<1>1. /\ file'[Home] \notin NoPlan => file'[Home].loop \in {Owner} \cup Cli
      /\ \A p \in Cli : file'[p] \notin NoPlan => file'[p].loop \in Cli
      /\ \A p \in Api : file'[p] \notin NoPlan => file'[p].loop = p
  BY Names DEF IInv, Files, SameChain
<1>2. ASSUME NEW a \in Address, a # b
      PROVE  /\ file'[a].claim # Owner
             /\ file'[a].consumer # None => file'[a].consumer = file'[a].claim /\ pc'[file'[a].claim] = "end"
             /\ file'[a].claim # None => ~Complete(file'[a])
  <2>1. file[a].claim \in Proc \cup {None} /\ file[a].consumer \in Proc \cup {None}
    BY Fields DEF IInv, TypeOK
  <2>2. /\ file[a].claim # Owner
        /\ file[a].consumer # None => file[a].consumer = file[a].claim /\ pc[file[a].claim] = "end"
        /\ file[a].claim # None => ~Complete(file[a])
    BY DEF IInv, Files
  <2> QED
    BY <1>2, <2>1, <2>2
<1>3. /\ file'[b].claim # Owner
      /\ file'[b].consumer # None => file'[b].consumer = file'[b].claim /\ pc'[file'[b].claim] = "end"
      /\ file'[b].claim # None => ~Complete(file'[b])
  BY DEF SameChain, Complete
<1>4. \A a \in Address : file'[a].done <= onRecord'
  BY DEF IInv, Files, SameChain
<1> QED
  BY <1>1, <1>2, <1>3, <1>4 DEF Files, Complete

\* A step that neither stamps the run nor spends its file, and leads nobody past
\* the probe, keeps what is known of the run's end.
LEMMA StatusKept ==
    ASSUME IInv, UNCHANGED <<status, looked, reran>>, alive' \subseteq alive,
           file'[Home] = Foreign => file[Home] = Foreign,
           pc'[Owner] # "end" => pc[Owner] # "end",
           Spent(file[Home]) => Spent(file'[Home]),
           \A p \in Cli : pc'[p] \in {"probed", "claimed", "closure"} \cup Running => at'[p] = at[p],
           \A p \in Cli : pc'[p] \in {"claimed"} \cup Running => pc[p] \in {"claimed"} \cup Running,
           \A p \in Cli : pc'[p] = "probed" => pc[p] = "probed",
           \A p \in Cli : pc'[p] = "closure" => pc[p] \in {"closure"} \cup Running
    PROVE  Closed' /\ OwnerFirst'
<1>1. Spent(file[Home]) => Spent(file[Home])'
  BY DEF Spent, Complete, Consumed
<1>2. Closed'
  BY <1>1 DEF IInv, Closed
<1>3. OwnerFirst'
  BY DEF IInv, OwnerFirst
<1> QED
  BY <1>2, <1>3

-----------------------------------------------------------------------------
(* The steps. *)

\* A refused, finished or dead process lets go of everything.
LEMMA LeaveKept ==
    ASSUME IInv, NEW p \in Proc, NEW next \in {"idle", "end"}, Leave(p, next),
           next = "idle" => Unused(p) /\ p # Owner,
           alive' = alive \/ (alive' = alive \ {p} /\ next = "end")
    PROVE  /\ Procs' /\ Free' /\ Onward
           /\ lock' \in [LockName -> Proc \cup {None}] /\ lease' \subseteq alive' /\ alive' \subseteq Proc
           /\ pc' \in [Proc -> {"idle", "claimed", "closure", "end"} \cup Waiting \cup Running]
           /\ at' \in [Proc -> Address \cup {None}]
           /\ seen' \in [Proc -> Checkpoint \cup {Absent}]
           /\ pos' \in [Proc -> 0..Steps]
           /\ \A q \in Proc : pc'[q] = (IF q = p THEN next ELSE pc[q]) /\ (q # p => at'[q] = at[q])
<1>1. \A q \in Proc :
         /\ pc'[q] = (IF q = p THEN next ELSE pc[q])
         /\ at'[q] = (IF q = p THEN None ELSE at[q])
         /\ seen'[q] = (IF q = p THEN Absent ELSE seen[q])
         /\ pos'[q] = (IF q = p THEN 0 ELSE pos[q])
  BY DEF Leave, IInv, TypeOK
<1>2. lease' = lease \ {p}
  BY DEF Leave
<1>3. Procs'
  <2>1. pc'[Owner] \in Running \cup {"closure", "end"}
    BY <1>1, Names DEF IInv, Procs
  <2>2. \A q \in Proc : pc'[q] # "end" => q \in alive'
    <3>1. Unused(p) => pc[p] # "end"
      BY DEF Unused, Waiting
    <3> QED
      BY <1>1, <3>1 DEF IInv, Procs
  <2>3. \A q \in Proc : pc'[q] \in Running => q # p /\ pc[q] \in Running
    BY <1>1 DEF Running
  <2>4. \A q \in Cli \cup Api : pc'[q] \notin {"idle", "end"} => at'[q] \in Address /\ seen'[q] # Absent
    BY <1>1, Names DEF IInv, Procs
  <2>5. \A q \in Proc : pc'[q] = "step" => pos'[q] < Steps
    BY <1>1 DEF IInv, Procs
  <2> QED
    BY <1>2, <2>1, <2>2, <2>3, <2>4, <2>5 DEF IInv, Procs
<1>4. Free'
  BY <1>1, <1>2 DEF IInv, Free
<1>5. Onward
  <2> SUFFICES ASSUME NEW q \in Proc
               PROVE  /\ pc[q] = "end" => pc'[q] = "end"
                      /\ Unused(q)' => Unused(q)
                      /\ seen'[q] = seen[q] \/ seen'[q] = Absent
                      /\ at'[q] = at[q] \/ at'[q] = None
                      /\ pc'[q] \in Running => pc[q] \in Running /\ pos'[q] >= pos[q]
    BY DEF Onward
  <2> QED
    <3>1. pc'[q] \in Running => pc[q] \in Running /\ pos'[q] = pos[q]
      BY <1>1 DEF Running
    <3>2. pos[q] >= pos[q]
      <4>1. pos[q] \in 0..Steps
        BY DEF IInv, TypeOK
      <4> QED
        BY <4>1
    <3>3. Unused(q)' => Unused(q)
      <4>1. CASE q = p
        BY <1>1, <4>1 DEF Unused, Waiting
      <4>2. CASE q # p
        BY <1>1, <4>2 DEF Unused
      <4> QED
        BY <4>1, <4>2
    <3>4. pc[q] = "end" => pc'[q] = "end"
      <4>1. Unused(p) => pc[p] # "end"
        BY DEF Unused, Waiting
      <4> QED
        BY <1>1, <4>1
    <3> QED
      BY <1>1, <3>1, <3>2, <3>3, <3>4
<1>6. lock' \in [LockName -> Proc \cup {None}]
  BY DEF Leave, Unlock, IInv, TypeOK
<1>7. lease' \subseteq alive' /\ alive' \subseteq Proc
  BY <1>2 DEF IInv, TypeOK
<1>8. /\ pc' \in [Proc -> {"idle", "claimed", "closure", "end"} \cup Waiting \cup Running]
      /\ at' \in [Proc -> Address \cup {None}]
      /\ seen' \in [Proc -> Checkpoint \cup {Absent}]
  BY DEF Leave, IInv, TypeOK
<1>9. pos' \in [Proc -> 0..Steps]
  <2>1. 0 \in 0..Steps
    BY BoundAssumption
  <2> QED
    BY <2>1 DEF Leave, IInv, TypeOK
<1> QED
  BY <1>1, <1>3, <1>4, <1>5, <1>6, <1>7, <1>8, <1>9

\* When somebody else's steps are all that happened, the run's end is as it was.
LEMMA OthersStay ==
    ASSUME IInv, NEW p \in Proc, NEW next \in {"idle", "end"}, UNCHANGED <<status, looked, reran>>, alive' \subseteq alive,
           file'[Home] = Foreign => file[Home] = Foreign,
           \A q \in Proc : pc'[q] = (IF q = p THEN next ELSE pc[q]) /\ (q # p => at'[q] = at[q]),
           next = "idle" => p # Owner,
           Spent(file[Home]) => Spent(file'[Home])
    PROVE  Closed' /\ OwnerFirst'
BY StatusKept, Names DEF Running

\* A process that leaves the files as they are.
LEMMA LeaveStep ==
    ASSUME IInv, NEW p \in Proc, NEW next \in {"idle", "end"}, Leave(p, next),
           next = "idle" => Unused(p) /\ p # Owner,
           alive' = alive \/ (alive' = alive \ {p} /\ next = "end"),
           UNCHANGED <<file, status, looked, onRecord, reran, faults>>
    PROVE  IInv'
<1>1. Procs' /\ Free' /\ Onward
  BY LeaveKept
<1>2. \A q \in Proc : pc'[q] = (IF q = p THEN next ELSE pc[q]) /\ (q # p => at'[q] = at[q])
  BY LeaveKept
<1>3. TypeOK'
  BY LeaveKept DEF IInv, TypeOK
<1>4. Fresh' /\ OneLeaf' /\ Record'
  BY <1>1, <1>3, SameFiles, ChainKept DEF TypeOK
<1>5. Hold' /\ Alone'
  BY <1>2, SameFiles, HoldKept DEF Running, Admitted
<1>6. Files'
  BY <1>1, FilesKept DEF Onward
<1>7. Closed' /\ OwnerFirst'
  BY <1>2, OthersStay
<1> QED
  BY <1>1, <1>3, <1>4, <1>5, <1>6, <1>7 DEF IInv

\* Before its claim a process is refused, and a patient one starts again.
LEMMA RefuseStep ==
    ASSUME IInv, NEW p \in Proc, pc[p] \in {"looked", "locked", "probed"}, Refuse(p),
           UNCHANGED <<file, alive, status, looked, onRecord, reran, faults>>
    PROVE  IInv'
<1>1. p \in Patient => p # Owner
  BY Names, BoundAssumption
<1>2. Unused(p)
  BY DEF Unused, Waiting
<1> QED
  BY <1>1, <1>2, LeaveStep DEF Refuse

\* One process moves on, the files stay: what its move must keep is its own part.
LEMMA MoveStep ==
    ASSUME IInv, NEW p \in Proc, NEW w \in {"looked", "locked", "probed", "closure"} \cup Running,
           pc' = [pc EXCEPT ![p] = w], pc[p] # "end", UNCHANGED <<file, alive, onRecord, pos>>,
           TypeOK', Free', Closed' /\ OwnerFirst',
           \A q \in Proc \ {p} : at'[q] = at[q] /\ seen'[q] = seen[q],
           w \in {"closure"} \cup Running => at'[p] = at[p] /\ seen'[p] = seen[p] /\ pc[p] \in Running,
           seen'[p] = seen[p] \/ \E a \in Address : seen'[p] = file[a],
           at'[p] = at[p] \/ file[at'[p]] # Absent,
           w \in {"looked", "locked", "probed"} =>
              /\ p # Owner /\ pc[p] \in {"idle"} \cup Waiting
              /\ at'[p] \in Address /\ seen'[p] # Absent,
           w \in Running => p \in lease',
           w = "step" => pos[p] < Steps,
           \A q \in lease : q # p => q \in lease'
    PROVE  IInv'
<1>1. \A q \in Proc : pc'[q] = (IF q = p THEN w ELSE pc[q])
  BY DEF IInv, TypeOK
<1>2. Procs'
  <2>1. pc'[Owner] \in Running \cup {"closure", "end"}
    BY <1>1, Names DEF IInv, Procs
  <2>2. \A q \in Proc : pc'[q] # "end" => q \in alive'
    BY <1>1 DEF IInv, Procs
  <2>3. \A q \in Proc : pc'[q] \in Running => q \in lease'
    BY <1>1 DEF IInv, Procs
  <2>4. \A q \in Cli \cup Api : pc'[q] \notin {"idle", "end"} => at'[q] \in Address /\ seen'[q] # Absent
    <3>1. p \in Cli \cup Api /\ pc[p] \in Running => at[p] \in Address /\ seen[p] # Absent
      BY DEF IInv, Procs, Running
    <3> QED
      BY <1>1, <3>1, Names DEF IInv, Procs
  <2>5. \A q \in Proc : pc'[q] = "step" => pos'[q] < Steps
    BY <1>1 DEF IInv, Procs
  <2> QED
    BY <2>1, <2>2, <2>3, <2>4, <2>5 DEF Procs
<1>3. Onward
  <2> SUFFICES ASSUME NEW q \in Proc
               PROVE  /\ pc[q] = "end" => pc'[q] = "end"
                      /\ Unused(q)' => Unused(q)
                      /\ seen'[q] = seen[q] \/ \E a \in Address : seen'[q] = file[a]
                      /\ at'[q] = at[q] \/ file[at'[q]] # Absent
                      /\ pc'[q] \in Running => pc[q] \in Running /\ pos'[q] >= pos[q]
    BY DEF Onward
  <2>1. pos[q] \in 0..Steps
    BY DEF IInv, TypeOK
  <2>2. Unused(q)' => Unused(q)
    <3>1. CASE q = p
      BY <1>1, <3>1 DEF Unused, Waiting, Running
    <3>2. CASE q # p
      BY <1>1, <3>2 DEF Unused
    <3> QED
      BY <3>1, <3>2
  <2>3. pc'[q] \in Running => pc[q] \in Running
    BY <1>1 DEF Running
  <2>4. pos'[q] >= pos[q]
    BY <2>1
  <2> QED
    BY <1>1, <2>2, <2>3, <2>4
<1>4. Fresh' /\ OneLeaf' /\ Record'
  BY <1>3, SameFiles, ChainKept DEF TypeOK
<1>5. Hold' /\ Alone'
  BY <1>1, SameFiles, HoldKept DEF Running, Admitted
<1>6. Files'
  BY <1>3, FilesKept DEF Onward
<1> QED
  BY <1>2, <1>4, <1>5, <1>6 DEF IInv

\* A loop that has ended, or given up, keeps the source it read.
LEMMA LoopEndStep ==
    ASSUME IInv, NEW p \in Proc, LoopEnds(p) \/ GiveUp(p)
    PROVE  IInv'
<1>1. /\ pc[p] \in Running /\ lease' = lease \ {p} /\ pc' = [pc EXCEPT ![p] = "closure"]
      /\ UNCHANGED <<file, lock, alive, at, seen, pos, status, looked, onRecord, reran>>
      /\ faults' \in 0..MaxFaults
  <2>1. faults \in 0..MaxFaults /\ (Fault => faults' \in 0..MaxFaults)
    <3>1. faults \in 0..MaxFaults
      BY DEF IInv, TypeOK
    <3> QED
      BY <3>1, BoundAssumption DEF Fault
  <2> QED
    BY <2>1 DEF LoopEnds, GiveUp, Running
<1>2. TypeOK'
  BY <1>1 DEF IInv, TypeOK
<1>3. Free'
  BY <1>1 DEF IInv, Free, TypeOK
<1>4. \A q \in Proc : pc'[q] = (IF q = p THEN "closure" ELSE pc[q])
  BY <1>1 DEF IInv, TypeOK
<1>5. Closed' /\ OwnerFirst'
  <2>1. pc'[Owner] # "end" => pc[Owner] # "end"
    BY <1>1, <1>4, Names DEF Running
  <2> QED
    BY <1>1, <1>4, <2>1, StatusKept, Names DEF Running
<1> QED
  BY <1>1, <1>2, <1>3, <1>5, MoveStep DEF Running

\* A process that looks is new: nobody has probed for its lease.
LEMMA LookupStep ==
    ASSUME IInv, NEW p \in Proc, NEW a \in Address, Lookup(p, a)
    PROVE  IInv'
<1>1. \A q \in Proc : pc'[q] = (IF q = p THEN "looked" ELSE pc[q])
  BY DEF Lookup, IInv, TypeOK
<1>2. file[a] # Absent /\ file[a] \in Checkpoint /\ p \in alive /\ p # Owner
  BY Names, Fields DEF Lookup, IInv, TypeOK
<1>3. TypeOK'
  <2>1. lease' \subseteq alive'
    BY <1>2 DEF Lookup, IInv, TypeOK
  <2>2. /\ pc' \in [Proc -> {"idle", "claimed", "closure", "end"} \cup Waiting \cup Running]
        /\ at' \in [Proc -> Address \cup {None}]
        /\ seen' \in [Proc -> Checkpoint \cup {Absent}]
    BY <1>2 DEF Lookup, IInv, TypeOK, Waiting
  <2> QED
    BY <2>1, <2>2 DEF Lookup, IInv, TypeOK
<1>4. Free'
  <2>1. \A q \in Proc : q # p => seen'[q] = seen[q]
    BY DEF Lookup, IInv, TypeOK
  <2>2. \A q \in Proc : seen[q].loop # p
    BY DEF Lookup, IInv, Fresh, Unused
  <2>3. lease' \subseteq lease \cup {p}
    BY DEF Lookup
  <2> QED
    BY <1>1, <2>1, <2>2, <2>3 DEF IInv, Free
<1>5. Closed' /\ OwnerFirst'
  <2>1. \A q \in Proc : q # p => at'[q] = at[q]
    BY DEF Lookup, IInv, TypeOK
  <2> QED
    BY <1>1, <1>2, <2>1, StatusKept, Names DEF Lookup, Running
<1> QED
  <2>1. \A q \in Proc \ {p} : at'[q] = at[q] /\ seen'[q] = seen[q]
    BY DEF Lookup, IInv, TypeOK
  <2>2. at'[p] = a /\ seen'[p] = file[a]
    BY DEF Lookup, IInv, TypeOK
  <2>3. \A q \in lease : q \in lease'
    BY DEF Lookup
  <2> QED
    BY <1>2, <1>3, <1>4, <1>5, <2>1, <2>2, <2>3, MoveStep DEF Lookup, Running

\* The second look, under the lock.
LEMMA LockStep ==
    ASSUME IInv, NEW p \in Proc, Lock(p)
    PROVE  IInv'
<1>0. pc[p] = "looked" /\ p # Owner /\ p \in Cli \cup Api
  BY Names DEF Lock, IInv, Procs, Running
<1>1. CASE Refuse(p)
  BY <1>0, <1>1, RefuseStep DEF Lock
<1>2. CASE ~Refuse(p)
  <2>1. /\ Same(p) /\ lock' = [lock EXCEPT ![LockOf(p)] = p]
        /\ seen' = [seen EXCEPT ![p] = file[at[p]]]
        /\ pc' = [pc EXCEPT ![p] = "locked"]
        /\ UNCHANGED <<file, alive, status, looked, onRecord, reran, faults, lease, at, pos>>
    BY <1>2 DEF Lock
  <2>2. at[p] \in Address /\ seen[p] \in Checkpoint /\ file[at[p]] \in Checkpoint \cup NoPlan
    BY <1>0 DEF IInv, Procs, TypeOK
  <2>3. file[at[p]] \in Checkpoint /\ file[at[p]] # Absent
    <3>1. seen[p].loop \in Proc
      BY <2>2, Fields
    <3>2. file[at[p]].loop = seen[p].loop
      BY <2>1 DEF Same
    <3> QED
      BY <2>2, <3>1, <3>2, Fields
  <2>4. /\ \A q \in Proc : pc'[q] = (IF q = p THEN "locked" ELSE pc[q])
        /\ \A q \in Proc \ {p} : seen'[q] = seen[q]
        /\ seen'[p] = file[at[p]]
    BY <2>1 DEF IInv, TypeOK
  <2>5. TypeOK'
    <3>1. lock' \in [LockName -> Proc \cup {None}]
      BY <2>1 DEF IInv, TypeOK
    <3>2. /\ pc' \in [Proc -> {"idle", "claimed", "closure", "end"} \cup Waiting \cup Running]
          /\ seen' \in [Proc -> Checkpoint \cup {Absent}]
      BY <2>1, <2>2, <2>3 DEF IInv, TypeOK, Waiting
    <3> QED
      BY <2>1, <3>1, <3>2 DEF IInv, TypeOK
  <2>6. Free'
    BY <2>1, <2>4 DEF IInv, Free
  <2>7. Closed' /\ OwnerFirst'
    BY <1>0, <2>1, <2>4, StatusKept, Names DEF Running
  <2> QED
    BY <1>0, <2>1, <2>2, <2>3, <2>4, <2>5, <2>6, <2>7, MoveStep DEF Waiting, Running
<1> QED
  BY <1>1, <1>2

\* No owner was found: none can come back, and the run is not closed as done.
LEMMA ProbeStep ==
    ASSUME IInv, NEW p \in Proc, Probe(p)
    PROVE  IInv'
<1>0. pc[p] = "locked" /\ p # Owner /\ p \in Cli \cup Api
  BY Names DEF Probe, IInv, Procs, Running
<1>1. CASE Refuse(p)
  BY <1>0, <1>1, RefuseStep DEF Probe
<1>2. CASE ~Refuse(p)
  <2>1. /\ NoOwner(p) /\ pc' = [pc EXCEPT ![p] = "probed"]
        /\ UNCHANGED <<file, lock, lease, alive, at, seen, pos, status, looked, onRecord, reran, faults>>
    BY <1>2 DEF Probe
  <2>2. at[p] \in Address /\ seen[p] # Absent
    BY <1>0 DEF IInv, Procs
  <2>3. \A q \in Proc : pc'[q] = (IF q = p THEN "probed" ELSE pc[q])
    BY <2>1 DEF IInv, TypeOK
  <2>4. TypeOK'
    BY <2>1 DEF IInv, TypeOK, Waiting
  <2>5. Free'
    BY <2>1, <2>3 DEF IInv, Free, NoOwner, OwnerAlive
  <2>6. Closed'
    <3>1. status = "done" => ~(p \in Cli /\ at[p] = Home)
      BY <2>1 DEF NoOwner
    <3>2. Spent(file[Home]) => Spent(file[Home])'
      BY <2>1 DEF Spent, Complete, Consumed
    <3> QED
      BY <2>1, <2>3, <3>1, <3>2, Names DEF IInv, Closed, Running
  <2>7. OwnerFirst'
    <3>1. pc[Owner] # "end" /\ reran = "no" => ~(p \in Cli /\ at[p] = Home)
      BY <2>1, Names DEF NoOwner, IInv, OwnerFirst, Procs
    <3> QED
      BY <1>0, <2>1, <2>3, <3>1, Names DEF IInv, OwnerFirst
  <2> QED
    BY <1>0, <2>1, <2>2, <2>3, <2>4, <2>5, <2>6, <2>7, MoveStep DEF Waiting, Running
<1> QED
  BY <1>1, <1>2

\* The loop goes on from where the claimed checkpoint says, which is where any
\* checkpoint ever got.
LEMMA StartStep ==
    ASSUME IInv, NEW p \in Proc, Start(p)
    PROVE  IInv'
<1>0. /\ pc[p] = "claimed" /\ p \in alive /\ HasClaim(p) /\ p # Owner
      /\ at[p] \in Address /\ seen[p] # Absent
  <2>1. pc[p] = "claimed" /\ p # Owner /\ file[at[p]].claim = p /\ p \in alive
    BY Names DEF Start, IInv, Procs, Running
  <2>2. HasClaim(p)
    BY <2>1 DEF IInv, Hold, Lost
  <2> QED
    BY <2>1, <2>2, Names DEF IInv, Procs
<1>1. /\ \A q \in Proc : pc'[q] = (IF q = p THEN "exec" ELSE pc[q])
      /\ \A q \in Proc : pos'[q] = (IF q = p THEN file[at[p]].done ELSE pos[q])
      /\ lease' = lease \cup {p}
      /\ UNCHANGED <<file, alive, at, seen, status, looked, onRecord, reran, faults>>
  BY DEF Start, IInv, TypeOK
<1>2. TypeOK'
  <2>1. file[at[p]].done \in 0..Steps
    BY <1>0, Fields DEF IInv, TypeOK
  <2>2. lock' \in [LockName -> Proc \cup {None}]
    BY DEF Start, Unlock, IInv, TypeOK
  <2>3. pos' \in [Proc -> 0..Steps]
    BY <2>1 DEF Start, IInv, TypeOK
  <2>4. pc' \in [Proc -> {"idle", "claimed", "closure", "end"} \cup Waiting \cup Running]
    BY DEF Start, IInv, TypeOK, Running
  <2> QED
    BY <1>0, <1>1, <2>2, <2>3, <2>4 DEF IInv, TypeOK
<1>3. Procs'
  <2>1. \A q \in Proc : pc'[q] # "end" => q \in alive'
    BY <1>0, <1>1 DEF IInv, Procs
  <2>2. \A q \in Proc : pc'[q] \in Running => q \in lease'
    BY <1>1 DEF IInv, Procs
  <2>3. \A q \in Cli \cup Api : pc'[q] \notin {"idle", "end"} => at'[q] \in Address /\ seen'[q] # Absent
    BY <1>0, <1>1, Names DEF IInv, Procs
  <2>4. \A q \in Proc : pc'[q] = "step" => pos'[q] < Steps
    BY <1>1 DEF IInv, Procs
  <2> QED
    BY <1>0, <1>1, <2>1, <2>2, <2>3, <2>4, Names DEF IInv, Procs
<1>4. Free'
  <2>1. \A q \in Proc : seen[q].loop # p
    BY <1>0 DEF IInv, Fresh, Unused
  <2> QED
    BY <1>1, <2>1 DEF IInv, Free
<1>5. Onward
  <2> SUFFICES ASSUME NEW q \in Proc
               PROVE  /\ pc[q] = "end" => pc'[q] = "end"
                      /\ Unused(q)' => Unused(q)
                      /\ seen'[q] = seen[q] /\ at'[q] = at[q]
                      /\ pc'[q] \in Running =>
                            \/ pc[q] \in Running /\ pos'[q] >= pos[q]
                            \/ pc[q] = "claimed" /\ HasClaim(q) /\ pos'[q] = file[at[q]].done
    BY DEF Onward
  <2>1. CASE q = p
    BY <1>0, <1>1, <2>1 DEF Unused
  <2>2. CASE q # p
    <3>1. pos[q] \in 0..Steps
      BY DEF IInv, TypeOK
    <3> QED
      BY <1>1, <2>2, <3>1 DEF Unused
  <2> QED
    BY <2>1, <2>2
<1>6. Fresh' /\ OneLeaf' /\ Record'
  BY <1>1, <1>2, <1>5, SameFiles, ChainKept DEF TypeOK
<1>7. Hold' /\ Alone'
  BY <1>0, <1>1, SameFiles, HoldKept DEF Running, Admitted
<1>8. Files'
  BY <1>1, <1>5, FilesKept DEF Onward
<1>9. Closed' /\ OwnerFirst'
  <2>1. pc'[Owner] # "end" => pc[Owner] # "end"
    BY <1>0, <1>1, Names
  <2> QED
    BY <1>0, <1>1, <2>1, StatusKept, Names DEF Running
<1> QED
  BY <1>2, <1>3, <1>4, <1>6, <1>7, <1>8, <1>9 DEF IInv

\* The heartbeat stamps a run whose owner is dead.
LEMMA StampStep ==
    ASSUME IInv, Look \/ Stamp
    PROVE  IInv'
<1>1. /\ UNCHANGED <<file, lock, lease, alive, pc, at, seen, pos, onRecord, reran, faults>>
      /\ status' = status \/ (looked /\ status = "" /\ status' = "stranded")
      /\ looked' => Owner \notin alive
      /\ looked' \in BOOLEAN
  BY DEF Look, Stamp
<1>2. TypeOK'
  BY <1>1 DEF IInv, TypeOK
<1>3. Procs' /\ Free'
  BY <1>1 DEF IInv, Procs, Free
<1>4. Onward
  <2>1. ASSUME NEW q \in Proc PROVE pos'[q] >= pos[q]
    <3>1. pos[q] \in 0..Steps /\ pos' = pos
      BY <1>1 DEF IInv, TypeOK
    <3> QED
      BY <3>1
  <2>2. \A q \in Proc : Unused(q)' => Unused(q)
    BY <1>1 DEF Unused
  <2> QED
    BY <1>1, <2>1, <2>2 DEF Onward
<1>5. Fresh' /\ OneLeaf' /\ Record'
  BY <1>1, <1>2, <1>4, SameFiles, ChainKept DEF TypeOK
<1>6. Hold' /\ Alone' /\ Files'
  BY <1>1, SameFiles, HoldKept, FilesKept DEF Admitted
<1>7. Closed'
  <2>1. Spent(file[Home]) => Spent(file[Home])'
    BY <1>1 DEF Spent, Complete, Consumed
  <2> QED
    BY <1>1, <2>1 DEF IInv, Closed
<1>8. OwnerFirst'
  BY <1>1, Names DEF IInv, OwnerFirst, Procs
<1> QED
  BY <1>2, <1>3, <1>5, <1>6, <1>7, <1>8 DEF IInv

\* A process exits, or dies anywhere.
LEMMA GoneStep ==
    ASSUME IInv, NEW p \in Proc, Exit(p) \/ Crash(p)
    PROVE  IInv'
BY LeaveStep DEF Exit, Crash, Gone

-----------------------------------------------------------------------------
(* The steps that write a checkpoint. *)

\* A loop writes its progress.  Its file is the end of the chain from now on, and
\* what it takes the place of was not spent.
LEMMA WriteStep ==
    ASSUME IInv, NEW p \in Proc, pc[p] \in Running, pos[p] < Steps,
           NEW done \in 0..Steps, done >= pos[p], NEW flight \in BOOLEAN,
           NEW w \in Running, pc' = [pc EXCEPT ![p] = w],
           pos' = [pos EXCEPT ![p] = done], w = "step" => done < Steps,
           UNCHANGED <<lock, lease, alive, at, seen, status, looked, reran>>,
           Write(p, done, flight), NEW d, d = Destination(p, at[p])
    PROVE  IInv' /\ \A a \in Address : Spent(file[a]) => Spent(file'[a])
<1> DEFINE new == [loop |-> p, done |-> done, flight |-> flight, claim |-> None, consumer |-> None]
<1>0. /\ \A q \in Proc : pc'[q] = (IF q = p THEN w ELSE pc[q])
      /\ \A q \in Proc : pos'[q] = (IF q = p THEN done ELSE pos[q])
      /\ pos' \in [Proc -> 0..Steps]
      /\ pc' \in [Proc -> {"idle", "claimed", "closure", "end"} \cup Waiting \cup Running]
  BY DEF IInv, TypeOK
<1>1. /\ pos[p] \in 0..Steps /\ onRecord \in 0..Steps /\ faults \in 0..MaxFaults
      /\ onRecord <= pos[p] /\ p \in alive /\ p \in lease
  BY DEF IInv, TypeOK, Record, Procs, Running
<1>2. Procs'
  <2>1. \A q \in Proc : pc'[q] # "end" => q \in alive'
    BY <1>0, <1>1 DEF IInv, Procs
  <2>2. \A q \in Proc : pc'[q] \in Running => q \in lease'
    BY <1>0, <1>1 DEF IInv, Procs
  <2>3. \A q \in Cli \cup Api : pc'[q] \notin {"idle", "end"} => at'[q] \in Address /\ seen'[q] # Absent
    BY <1>0, Names DEF IInv, Procs, Running
  <2>4. \A q \in Proc : pc'[q] = "step" => pos'[q] < Steps
    BY <1>0 DEF IInv, Procs
  <2> QED
    BY <1>0, <2>1, <2>2, <2>3, <2>4, Names DEF IInv, Procs
<1>3. Free'
  BY <1>0 DEF IInv, Free, Running
<1>4. CASE UNCHANGED <<file, onRecord>> /\ Fault
  <2>1. TypeOK'
    <3>1. faults' \in 0..MaxFaults
      BY <1>1, <1>4, BoundAssumption DEF Fault
    <3> QED
      BY <1>0, <1>4, <3>1 DEF IInv, TypeOK
  <2>2. Onward
    <3> SUFFICES ASSUME NEW q \in Proc
                 PROVE  /\ pc[q] = "end" => pc'[q] = "end"
                        /\ Unused(q)' => Unused(q)
                        /\ pc'[q] \in Running => pc[q] \in Running /\ pos'[q] >= pos[q]
      BY DEF Onward
    <3>1. pos[q] \in 0..Steps
      BY DEF IInv, TypeOK
    <3>2. CASE q = p
      BY <1>0, <3>2 DEF Unused, Waiting, Running
    <3>3. CASE q # p
      BY <1>0, <3>1, <3>3 DEF Unused
    <3> QED
      BY <3>2, <3>3
  <2>3. Fresh' /\ OneLeaf' /\ Record'
    BY <1>0, <1>4, <2>2, SameFiles, ChainKept
  <2>4. Hold' /\ Alone'
    BY <1>0, <1>4, SameFiles, HoldKept DEF Running, Admitted
  <2>5. Files'
    BY <1>4, <2>2, FilesKept DEF Onward
  <2>6. Closed' /\ OwnerFirst'
    BY <1>0, <1>4, StatusKept, Names DEF Running
  <2> QED
    BY <1>2, <1>3, <1>4, <2>1, <2>3, <2>4, <2>5, <2>6 DEF IInv
<1>5. CASE /\ file' = [file EXCEPT ![d] = new]
           /\ onRecord' = (IF done > onRecord THEN done ELSE onRecord)
           /\ UNCHANGED faults
  <2>1. /\ d \in Address
        /\ p = Owner => d = Home
        /\ p # Owner => p \in Cli \cup Api /\ at[p] \in Address /\ ((p \in Cli /\ d = at[p] /\ d \in Run) \/ d = p)
    BY Destinations, Sources, Names DEF Admitted
  <2>2. new \in Checkpoint /\ new \notin NoPlan /\ new # Absent /\ new # Foreign /\ new.loop = p /\ new.done = done
        /\ new.claim = None /\ new.consumer = None
    <3>1. new \in Checkpoint
      BY Names DEF Checkpoint
    <3> QED
      BY <3>1, Fields DEF NoPlan
  <2> HIDE DEF new
  <2>3. \A a \in Address : file'[a] = (IF a = d THEN new ELSE file[a])
    BY <1>5, <2>1 DEF IInv, TypeOK
  <2>4. onRecord' = done
    BY <1>1, <1>5
  <2>5. TypeOK'
    BY <1>0, <1>5, <2>2, <2>4 DEF IInv, TypeOK
  <2>6. \A q \in Proc : q # p => pc[q] \notin Running \cup {"claimed"}
    BY DEF IInv, Alone, Admitted
  <2>7. Lost(p) \/ Writes(p) \/ HasClaim(p)
    BY DEF IInv, Hold
  <2>8. \A a \in Address : Leaf(a)' <=> a = d
    <3>1. Leaf(d)'
      BY <2>1, <2>2, <2>3 DEF Leaf
    <3>2. ASSUME NEW a \in Address, a # d, Leaf(a)' PROVE FALSE
      <4>1. file'[a] = file[a] /\ Heir(a)' = Heir(a)
        BY <2>3, <3>2 DEF Heir
      <4>2. file[a].claim # None => Heir(a) \in Address
        <5>1. file[a].claim \in Proc \cup {None}
          BY Fields DEF IInv, TypeOK
        <5> QED
          BY <5>1, Destinations DEF Heir
      <4>3. Leaf(a)
        BY <2>2, <2>3, <3>2, <4>1, <4>2 DEF Leaf
      <4>4. CASE Lost(p)
        BY <4>3, <4>4 DEF Lost
      <4>5. CASE Writes(p)
        <5>1. Leaf(d)
          BY <4>5, WriterHolds
        <5> QED
          BY <2>1, <3>2, <4>3, <5>1 DEF IInv, OneLeaf
      <4>6. CASE HasClaim(p)
        <5>1. a = at[p]
          BY <2>1, <4>3, <4>6 DEF IInv, OneLeaf, HasClaim
        <5>2. Heir(a) = d /\ file[a].claim # None
          BY <4>6, <5>1, Names DEF HasClaim, Heir
        <5> QED
          BY <2>1, <2>2, <2>3, <3>2, <4>1, <5>2 DEF Leaf
      <4> QED
        BY <2>7, <4>4, <4>5, <4>6
    <3> QED
      BY <3>1, <3>2
  <2>9. OneLeaf'
    BY <2>8 DEF OneLeaf
  <2>10. Hold' /\ Alone'
    <3>1. Writes(p)'
      BY <2>1, <2>2, <2>3 DEF Writes
    <3>2. \A q \in Proc : Admitted(q)' => q = p
      BY <1>0, <2>6 DEF Admitted
    <3> QED
      BY <1>0, <3>1, <3>2 DEF Hold, Alone, Admitted, Running
  <2>11. Record'
    <3>1. done >= done
      OBVIOUS
    <3> QED
      BY <1>0, <2>2, <2>3, <2>4, <2>6, <2>8, <3>1 DEF Record
  <2>12. Fresh'
    <3>1. \A q \in Proc : Unused(q)' => q # p /\ Unused(q)
      BY <1>0 DEF Unused, Waiting, Running
    <3>2. ASSUME NEW q \in Proc, Unused(q)'
          PROVE  (\A a \in Address : file'[a].loop # q) /\ \A r \in Proc : seen'[r].loop # q
      BY <2>2, <2>3, <3>1, <3>2 DEF IInv, Fresh
    <3>3. ASSUME NEW q \in Cli \cup Api, Unused(q)' PROVE file'[q] = Absent
      <4>1. q \in Proc /\ q # p /\ q \in Address /\ q # Home /\ file[q] = Absent
        BY <3>1, <3>3, Names DEF IInv, Fresh
      <4>2. q # d
        BY <2>1, <4>1 DEF IInv, Fresh
      <4> QED
        BY <2>3, <4>1, <4>2
    <3>4. ASSUME NEW q \in Proc, at'[q] \in Address PROVE file'[at'[q]] # Absent
      BY <2>2, <2>3, <3>4 DEF IInv, Fresh
    <3> QED
      BY <3>2, <3>3, <3>4 DEF Fresh
  <2>13. Files'
    <3>1. file'[Home] \notin NoPlan => file'[Home].loop \in {Owner} \cup Cli
      BY <2>1, <2>2, <2>3, Names DEF IInv, Files
    <3>2. /\ \A q \in Cli : file'[q] \notin NoPlan => file'[q].loop \in Cli
          /\ \A q \in Api : file'[q] \notin NoPlan => file'[q].loop = q
      <4>1. d \in Cli => p \in Cli
        BY <2>1, Names
      <4>2. d \in Api => p = d
        BY <2>1, Names DEF Run
      <4> QED
        BY <2>2, <2>3, <4>1, <4>2, Names DEF IInv, Files
    <3>3. ASSUME NEW a \in Address
          PROVE  /\ file'[a].claim # Owner
                 /\ file'[a].consumer # None => file'[a].consumer = file'[a].claim /\ pc'[file'[a].claim] = "end"
                 /\ file'[a].claim # None => ~Complete(file'[a])
                 /\ file'[a].done <= onRecord'
      <4>1. CASE a = d
        <5>1. done <= done
          OBVIOUS
        <5> QED
          BY <2>2, <2>3, <2>4, <4>1, <5>1, Names
      <4>2. CASE a # d
        <5>1. file[a].claim \in Proc \cup {None} /\ file[a].done \in 0..Steps /\ file[a].consumer \in Proc \cup {None}
          BY Fields DEF IInv, TypeOK
        <5>2. file[a].done <= onRecord
          BY DEF IInv, Files
        <5>3. file[a].done <= done
          BY <1>1, <5>1, <5>2
        <5>4. file[a].consumer # None => file[a].consumer = file[a].claim /\ pc[file[a].claim] = "end"
          BY DEF IInv, Files
        <5>5. file[a].consumer # None => pc'[file[a].claim] = "end"
          BY <1>0, <5>1, <5>4 DEF Running
        <5> QED
          BY <2>3, <2>4, <4>2, <5>3, <5>4, <5>5 DEF IInv, Files
      <4> QED
        BY <4>1, <4>2
    <3> QED
      BY <3>1, <3>2, <3>3 DEF Files
  <2>14. ASSUME NEW a \in Address, Spent(file[a]) PROVE a # d
    <3>1. file[a].done <= onRecord /\ file[a].done \in 0..Steps
      BY Fields DEF IInv, Files, TypeOK
    <3>2. file[a].done # Steps
      BY <1>1, <3>1
    <3>3. file[a].consumer # None /\ file[a] \notin NoPlan
      <4>1. file[a] \in Checkpoint \cup NoPlan
        BY DEF IInv, TypeOK
      <4> QED
        BY <2>14, <3>2, <4>1, Fields DEF Spent, Complete, Consumed
    <3>4. file[a].claim = file[a].consumer /\ pc[file[a].claim] = "end"
      BY <3>3 DEF IInv, Files
    <3>5. file[a].claim # p /\ file[a].claim # None
      BY <3>3, <3>4 DEF Running
    <3>6. CASE Lost(p)
      BY <3>3, <3>6 DEF Lost
    <3>7. CASE Writes(p)
      BY <3>5, <3>7 DEF Writes
    <3>8. ASSUME HasClaim(p), a = d PROVE FALSE
      <4>1. at[p] # d /\ at[p] \in Address /\ file[at[p]].claim = p
        BY <2>1, <3>5, <3>8 DEF HasClaim
      <4>2. Heir(at[p]) = d
        BY <4>1 DEF Heir
      <4> QED
        BY <3>3, <3>8, <4>1, <4>2, Names DEF HasClaim, Leaf, NoPlan
    <3> QED
      BY <2>7, <3>6, <3>7, <3>8
  <2>15. Closed' /\ OwnerFirst'
    <3>1. (Spent(file[Home]) => Spent(file'[Home])) /\ (file'[Home] = Foreign => file[Home] = Foreign)
      BY <2>2, <2>3, <2>14, Names
    <3> QED
      BY <1>0, <3>1, StatusKept, Names DEF Running
  <2> QED
    BY <1>2, <1>3, <2>3, <2>5, <2>9, <2>10, <2>11, <2>12, <2>13, <2>14, <2>15 DEF IInv
<1> QED
  BY <1>4, <1>5 DEF Write

\* A checkpoint gets a claim or a consumer, and the chain of files stays.
LEMMA TouchChain ==
    ASSUME IInv, NEW b \in Address, file[b] \in Checkpoint,
           NEW c \in Checkpoint, c.loop = file[b].loop, c.done = file[b].done,
           file' = [file EXCEPT ![b] = c], UNCHANGED onRecord, Leaf(b)' <=> Leaf(b)
    PROVE  /\ SameChain
           /\ file' \in [Address -> Checkpoint \cup NoPlan]
           /\ \A a \in Address : file'[a] = (IF a = b THEN c ELSE file[a])
<1>1. /\ file' \in [Address -> Checkpoint \cup NoPlan]
      /\ \A a \in Address : file'[a] = (IF a = b THEN c ELSE file[a])
  BY DEF IInv, TypeOK
<1>2. file[b] \notin NoPlan /\ c \notin NoPlan /\ Absent \in NoPlan
  BY Fields
<1>3. \A a \in Address : (file'[a] = Absent <=> file[a] = Absent) /\ (file'[a] \in NoPlan <=> file[a] \in NoPlan)
  BY <1>1, <1>2
<1>4. ASSUME NEW a \in Address, a # b PROVE Leaf(a)' <=> Leaf(a)
  <2>1. file[a].claim \in Proc \cup {None} /\ file'[a] = file[a]
    BY <1>1, <1>4, Fields DEF IInv, TypeOK
  <2>2. Heir(a)' = Heir(a) /\ (file[a].claim # None => Heir(a) \in Address)
    BY <2>1, Destinations DEF Heir
  <2> QED
    BY <1>3, <2>1, <2>2 DEF Leaf
<1> QED
  BY <1>1, <1>3, <1>4 DEF SameChain

\* A claim is put on the end of the chain only when nobody holds it.
LEMMA ClaimStep ==
    ASSUME IInv, NEW p \in Proc, NEW reclaim \in BOOLEAN, Claim(p, reclaim), NEW b, b = at[p]
    PROVE  IInv' /\ \A a \in Address : Spent(file[a]) => Spent(file'[a])
<1>0. pc[p] = "probed" /\ p # Owner /\ p \in Cli \cup Api /\ b \in Address /\ seen[p] # Absent /\ p # None
      /\ p \in alive
  BY Names DEF Claim, IInv, Procs, Running
<1>1. CASE ~MayClaim(p, reclaim)
  <2>1. Refuse(p) /\ UNCHANGED <<file, alive, status, looked, onRecord, reran, faults>>
    BY <1>1 DEF Claim
  <2>2. IInv'
    BY <1>0, <2>1, RefuseStep
  <2> QED
    BY <2>1, <2>2
<1>2. CASE MayClaim(p, reclaim)
  <2> DEFINE c == [file[b] EXCEPT !.claim = p]
  <2>1. file[b] = seen[p] /\ file[b] \in Checkpoint /\ file[b] \notin NoPlan
        /\ ~Complete(file[b]) /\ ~Consumed(file[b]) /\ ClaimStatus(b) \in {"none", "unresolved"}
    <3>1. seen[p] \in Checkpoint
      BY <1>0 DEF IInv, TypeOK
    <3> QED
      BY <1>2, <3>1, Fields DEF MayClaim
  <2>2. Leaf(b) /\ (file[b].claim # None => file[b].claim \notin alive)
    BY <1>0, <2>1, Claimable DEF IInv
  <2>3. /\ file' = [file EXCEPT ![b] = c] /\ UNCHANGED <<alive, status, looked, onRecord, reran>>
    BY <1>2 DEF Claim
  <2>4. c \in Checkpoint /\ c \notin NoPlan /\ c.claim = p /\ c.loop = file[b].loop
        /\ c.done = file[b].done /\ c.consumer = file[b].consumer
    <3>1. file[b] \in Checkpoint /\ p \in Proc \cup {None}
      BY <2>1
    <3> QED
      BY <3>1, Touched
  <2> HIDE DEF c
  <2>5. \A a \in Address : file'[a] = (IF a = b THEN c ELSE file[a])
    BY <2>3 DEF IInv, TypeOK
  <2>6. file[p] = Absent /\ p \in Address
    BY <1>0, Names DEF IInv, Fresh, Unused, Waiting
  <2>7. Leaf(b)'
    <3>1. Heir(b)' = Destination(p, b)
      BY <1>0, <2>4, <2>5 DEF Heir
    <3>2. Destination(p, b) # b => Destination(p, b) = p /\ p # b
      BY <1>0, Destinations
    <3> QED
      BY <1>0, <2>4, <2>5, <2>6, <3>1, <3>2 DEF Leaf
  <2>8. SameChain /\ file' \in [Address -> Checkpoint \cup NoPlan]
    BY <1>0, <2>1, <2>2, <2>3, <2>4, <2>7, TouchChain
  <2>9. ASSUME NEW q \in Proc, Admitted(q) PROVE FALSE
    <3>1. q \in alive /\ (q # Owner => at[q] \in Address)
      BY <2>9, Sources DEF IInv, Procs, Admitted, Running
    <3>2. CASE HasClaim(q)
      <4>1. at[q] = b
        BY <1>0, <2>2, <3>1, <3>2 DEF HasClaim, IInv, OneLeaf
      <4> QED
        BY <2>2, <3>1, <3>2, <4>1, Names DEF HasClaim
    <3>3. CASE Lost(q)
      BY <1>0, <2>2, <3>3 DEF Lost
    <3>4. CASE Writes(q) /\ pc[q] \in Running
      <4>1. Destination(q, at[q]) = b
        BY <1>0, <2>2, <3>4, WriterHolds DEF IInv, OneLeaf
      <4>2. seen[p].loop = q
        BY <2>1, <3>4, <4>1 DEF Writes
      <4> QED
        BY <1>0, <3>4, <4>2 DEF IInv, Free, Procs
    <3> QED
      BY <2>9, <3>2, <3>3, <3>4 DEF IInv, Hold, Admitted
  <2>10. \A a \in Address : Spent(file[a]) => Spent(file'[a])
    BY <2>4, <2>5 DEF Spent, Complete, Consumed, NoPlan
  <2>11. ASSUME \A q \in Proc : pc[q] = "end" => pc'[q] = "end" PROVE Files'
    <3>1. file[b].consumer = None /\ file[b].done # Steps
      BY <2>1 DEF Complete, Consumed
    <3> QED
      BY <1>0, <2>4, <2>5, <2>8, <2>11, <3>1, FilesTouched
  <2>12. CASE Leave(p, "end")
    <3>1. faults' \in 0..MaxFaults
      <4>1. Fault \/ faults' = faults
        BY <1>2 DEF Claim
      <4>2. faults \in 0..MaxFaults
        BY DEF IInv, TypeOK
      <4> QED
        BY <4>1, <4>2, BoundAssumption DEF Fault
    <3>2. Procs' /\ Free' /\ Onward
      BY <2>3, <2>12, LeaveKept
    <3>3. \A q \in Proc : pc'[q] = (IF q = p THEN "end" ELSE pc[q]) /\ (q # p => at'[q] = at[q])
      BY <2>3, <2>12, LeaveKept
    <3>4. TypeOK'
      <4>1. /\ lock' \in [LockName -> Proc \cup {None}] /\ lease' \subseteq alive' /\ alive' \subseteq Proc
            /\ pc' \in [Proc -> {"idle", "claimed", "closure", "end"} \cup Waiting \cup Running]
            /\ at' \in [Proc -> Address \cup {None}]
            /\ seen' \in [Proc -> Checkpoint \cup {Absent}]
            /\ pos' \in [Proc -> 0..Steps]
        BY <2>3, <2>12, LeaveKept
      <4> QED
        BY <2>3, <2>8, <3>1, <4>1 DEF IInv, TypeOK
    <3>5. Fresh' /\ OneLeaf' /\ Record'
      BY <2>8, <3>2, <3>4, ChainKept DEF TypeOK
    <3>6. Hold' /\ Alone'
      <4>1. \A q \in Proc : ~Admitted(q)'
        BY <2>9, <3>3 DEF Admitted, Running
      <4> QED
        BY <4>1 DEF Hold, Alone, Admitted
    <3>7. Closed' /\ OwnerFirst'
      <4>1. file'[Home] = Foreign => file[Home] = Foreign
        BY <2>4, <2>5, Names, Fields
      <4> QED
        BY <2>3, <2>10, <3>3, <4>1, OthersStay, Names
    <3>8. Files'
      BY <2>11, <3>2 DEF Onward
    <3> QED
      BY <2>10, <3>2, <3>4, <3>5, <3>6, <3>7, <3>8 DEF IInv
  <2>13. CASE pc' = [pc EXCEPT ![p] = "claimed"] /\ UNCHANGED <<lock, lease, at, seen, pos, faults>>
    <3>1. \A q \in Proc : pc'[q] = (IF q = p THEN "claimed" ELSE pc[q])
      BY <2>13 DEF IInv, TypeOK
    <3>2. TypeOK'
      BY <2>3, <2>8, <2>13 DEF IInv, TypeOK
    <3>3. Procs'
      BY <1>0, <2>3, <2>13, <3>1, Names DEF IInv, Procs, Running
    <3>4. Free'
      BY <2>13, <3>1 DEF IInv, Free
    <3>5. Onward
      <4> SUFFICES ASSUME NEW q \in Proc
                   PROVE  /\ pc[q] = "end" => pc'[q] = "end"
                          /\ Unused(q)' => Unused(q)
                          /\ pc'[q] \in Running => pc[q] \in Running /\ pos'[q] >= pos[q]
        BY <2>13 DEF Onward
      <4>1. pos[q] \in 0..Steps
        BY DEF IInv, TypeOK
      <4>2. CASE q = p
        BY <1>0, <3>1, <4>2 DEF Unused, Waiting, Running
      <4>3. CASE q # p
        BY <2>13, <3>1, <4>1, <4>3 DEF Unused
      <4> QED
        BY <4>2, <4>3
    <3>6. Fresh' /\ OneLeaf' /\ Record'
      BY <2>8, <3>2, <3>5, ChainKept DEF TypeOK
    <3>7. Hold' /\ Alone'
      <4>1. HasClaim(p)'
        <5>1. at'[p] = b
          BY <2>13
        <5> QED
          BY <1>0, <2>4, <2>5, <2>7, <5>1 DEF HasClaim, Leaf, Heir
      <4>2. \A q \in Proc : Admitted(q)' => q = p
        BY <2>9, <3>1 DEF Admitted, Running
      <4> QED
        BY <3>1, <4>1, <4>2 DEF Hold, Alone, Admitted, Running
    <3>8. Closed'
      <4>1. status = "done" /\ reran = "no" /\ p \in Cli => b # Home
        BY <1>0, <2>1 DEF IInv, Closed, Spent
      <4>2. Spent(file[Home]) => Spent(file[Home])'
        BY <2>10, Names DEF Spent, Complete, Consumed
      <4>3. file'[Home] = Foreign => file[Home] = Foreign
        BY <2>4, <2>5, Names, Fields
      <4> QED
        BY <2>3, <2>13, <3>1, <4>1, <4>2, <4>3 DEF IInv, Closed
    <3>9. OwnerFirst'
      BY <1>0, <2>3, <2>13, <3>1, Names DEF IInv, OwnerFirst
    <3>10. Files'
      BY <2>11, <3>5 DEF Onward
    <3> QED
      BY <2>10, <3>2, <3>3, <3>4, <3>6, <3>7, <3>8, <3>9, <3>10 DEF IInv
  <2> QED
    BY <1>2, <2>10, <2>12, <2>13 DEF Claim
<1> QED
  BY <1>1, <1>2

\* Who ends its part of the run: the files keep what they say of it, but for a
\* claim it drops or a source it consumes.
LEMMA EndStep ==
    ASSUME IInv, NEW p \in Proc, pc[p] \in {"claimed", "closure"},
           NEW next \in {"idle", "end"}, Leave(p, next), next = "idle" => Unused(p) /\ p # Owner,
           UNCHANGED <<alive, looked, onRecord, reran>>, faults' \in 0..MaxFaults,
           status' \in {"", "stranded", "open", "done"},
           NEW b, b = at[p],
           \/ UNCHANGED file
           \/ /\ pc[p] = "claimed" /\ file[b].claim = p
              /\ file' = [file EXCEPT ![b].claim = None]
           \/ /\ pc[p] = "closure" /\ p # Owner /\ next = "end"
              /\ file[b].claim = p /\ file' = [file EXCEPT ![b].consumer = p]
    PROVE  /\ TypeOK' /\ Procs' /\ Files' /\ Fresh' /\ Free' /\ OneLeaf' /\ Alone' /\ Hold' /\ Record'
           /\ \A q \in Proc : pc'[q] = (IF q = p THEN next ELSE pc[q]) /\ (q # p => at'[q] = at[q])
           /\ \A a \in Address : Spent(file[a]) => Spent(file'[a])
           /\ file'[Home] = Foreign => file[Home] = Foreign
<1>1. Procs' /\ Free' /\ Onward
  BY LeaveKept
<1>2. \A q \in Proc : pc'[q] = (IF q = p THEN next ELSE pc[q]) /\ (q # p => at'[q] = at[q])
  BY LeaveKept
<1>3. ASSUME file' \in [Address -> Checkpoint \cup NoPlan] PROVE TypeOK'
  BY <1>3, LeaveKept DEF IInv, TypeOK
<1>4. pos' \in [Proc -> 0..Steps]
  BY LeaveKept
<1>5. CASE UNCHANGED file
  <2>1. TypeOK'
    BY <1>3, <1>5 DEF IInv, TypeOK
  <2>2. Fresh' /\ OneLeaf' /\ Record'
    BY <1>1, <1>4, <1>5, SameFiles, ChainKept
  <2>3. Hold' /\ Alone'
    BY <1>2, <1>5, SameFiles, HoldKept DEF Running, Admitted
  <2>4. Files'
    BY <1>1, <1>5, FilesKept DEF Onward
  <2> QED
    BY <1>1, <1>2, <1>5, <2>1, <2>2, <2>3, <2>4
<1>6. CASE pc[p] = "claimed" /\ file[b].claim = p /\ file' = [file EXCEPT ![b].claim = None]
  <2> DEFINE c == [file[b] EXCEPT !.claim = None]
  <2>1. b \in Address /\ Leaf(b) /\ file[b].claim = p /\ p # Owner /\ p # None
    <3>1. p # Owner /\ p # None
      BY <1>6, Names DEF IInv, Procs, Running
    <3>2. HasClaim(p)
      BY <1>6, <3>1 DEF IInv, Hold, Lost
    <3> QED
      BY <1>6, <3>1, <3>2, Sources DEF HasClaim, Admitted
  <2>2. file[b] \in Checkpoint
    BY <2>1, Fields DEF Leaf, IInv, TypeOK
  <2>3. file' = [file EXCEPT ![b] = c]
    BY <1>6
  <2>4. c \in Checkpoint /\ c \notin NoPlan /\ c.claim = None /\ c.loop = file[b].loop
        /\ c.done = file[b].done /\ c.consumer = file[b].consumer
    BY <2>2, Touched
  <2> HIDE DEF c
  <2>5. file[b].consumer = None
    BY <1>6, <2>1 DEF IInv, Files
  <2>6. \A a \in Address : file'[a] = (IF a = b THEN c ELSE file[a])
    BY <2>3 DEF IInv, TypeOK
  <2>7. Leaf(b)'
    BY <2>1, <2>4, <2>6 DEF Leaf
  <2>8. SameChain /\ file' \in [Address -> Checkpoint \cup NoPlan]
    BY <2>1, <2>2, <2>3, <2>4, <2>7, TouchChain
  <2>9. Fresh' /\ OneLeaf' /\ Record'
    BY <1>1, <1>4, <2>8, ChainKept
  <2>10. Hold' /\ Alone'
    <3>1. \A q \in Proc : ~Admitted(q)'
      BY <1>2, <1>6 DEF IInv, Alone, Admitted, Running
    <3> QED
      BY <3>1 DEF Hold, Alone, Admitted
  <2>11. Files'
    <3>1. file[b].done # Steps
      BY <2>1 DEF IInv, Files, Complete
    <3>2. \A q \in Proc : pc[q] = "end" => pc'[q] = "end"
      BY <1>1 DEF Onward
    <3>3. file'[b].claim # Owner /\ file'[b].claim = None /\ file'[b].consumer = None
      BY <2>1, <2>4, <2>5, <2>6, Names
    <3>4. \A a \in Address : a # b => file'[a] = file[a]
      BY <2>6
    <3> QED
      BY <2>1, <2>8, <3>1, <3>2, <3>3, <3>4, FilesTouched
  <2>12. \A a \in Address : Spent(file[a]) => Spent(file'[a])
    BY <2>4, <2>6 DEF Spent, Complete, Consumed, NoPlan
  <2>13. file'[Home] = Foreign => file[Home] = Foreign
    BY <2>4, <2>6, Names DEF NoPlan
  <2> QED
    BY <1>1, <1>2, <1>3, <2>8, <2>9, <2>10, <2>11, <2>12, <2>13
<1>7. CASE /\ pc[p] = "closure" /\ p # Owner /\ next = "end"
           /\ file[b].claim = p /\ file' = [file EXCEPT ![b].consumer = p]
  <2> DEFINE c == [file[b] EXCEPT !.consumer = p]
  <2>1. b \in Address /\ p # None /\ p \in Cli \cup Api
    BY <1>7, Names DEF IInv, Procs
  <2>2. file[b] \in Checkpoint
    BY <1>7, <2>1, Fields DEF IInv, TypeOK
  <2>3. file' = [file EXCEPT ![b] = c]
    BY <1>7
  <2>4. c \in Checkpoint /\ c \notin NoPlan /\ c.consumer = p /\ c.loop = file[b].loop
        /\ c.done = file[b].done /\ c.claim = file[b].claim
    BY <2>2, Touched
  <2> HIDE DEF c
  <2>5. file[b] \notin NoPlan
    BY <2>2, Fields
  <2>6. \A a \in Address : file'[a] = (IF a = b THEN c ELSE file[a])
    BY <2>3 DEF IInv, TypeOK
  <2>7. Leaf(b)' <=> Leaf(b)
    <3>1. Heir(b)' = Heir(b)
      BY <2>1, <2>4, <2>6 DEF Heir
    <3>2. Heir(b) \in Address
      BY <1>7, Destinations DEF Heir
    <3> QED
      <4>1. file'[b] \notin NoPlan /\ file'[b].claim = file[b].claim
        BY <2>1, <2>4, <2>6
      <4>2. Heir(b) # b => file'[Heir(b)] = file[Heir(b)]
        BY <2>6, <3>2
      <4> QED
        BY <2>5, <3>1, <4>1, <4>2 DEF Leaf
  <2>8. SameChain /\ file' \in [Address -> Checkpoint \cup NoPlan]
    BY <2>1, <2>2, <2>3, <2>4, <2>7, TouchChain
  <2>9. Fresh' /\ OneLeaf' /\ Record'
    BY <1>1, <1>4, <2>8, ChainKept
  <2>10. Hold' /\ Alone'
    <3>1. \A a \in Address : file'[a].claim = file[a].claim
      BY <2>4, <2>6
    <3> QED
      BY <1>2, <1>7, <2>8, <3>1, HoldKept DEF Running, Admitted
  <2>11. Files'
    <3>1. file[b].done # Steps /\ file[b].claim # Owner
      BY <1>7, <2>1 DEF IInv, Files, Complete
    <3>2. pc'[p] = "end"
      BY <1>2, <1>7
    <3>3. \A q \in Proc : pc[q] = "end" => pc'[q] = "end"
      BY <1>1 DEF Onward
    <3>4. file'[b].claim = p /\ file'[b].consumer = p
      BY <1>7, <2>1, <2>4, <2>6
    <3>5. \A a \in Address : a # b => file'[a] = file[a]
      BY <2>6
    <3> QED
      BY <1>7, <2>1, <2>8, <3>1, <3>2, <3>3, <3>4, <3>5, FilesTouched
  <2>12. \A a \in Address : Spent(file[a]) => Spent(file'[a])
    BY <2>1, <2>4, <2>6 DEF Spent, Complete, Consumed, NoPlan
  <2>13. file'[Home] = Foreign => file[Home] = Foreign
    BY <2>4, <2>6, Names DEF NoPlan
  <2> QED
    BY <1>1, <1>2, <1>3, <2>8, <2>9, <2>10, <2>11, <2>12, <2>13
<1> QED
  BY <1>5, <1>6, <1>7

\* A resume is refused after its claim, and drops it or leaves it behind.
LEMMA RefuseLateStep ==
    ASSUME IInv, NEW p \in Proc, RefuseLate(p)
    PROVE  IInv' /\ \A a \in Address : Spent(file[a]) => Spent(file'[a])
<1>0. pc[p] = "claimed" /\ p # Owner
  BY Names DEF RefuseLate, IInv, Procs, Running
<1>1. PICK b : b = at[p]
  OBVIOUS
<1>2. PICK next \in {"idle", "end"} : Leave(p, next)
  BY DEF RefuseLate, Refuse
<1>3. UNCHANGED file \/ (pc[p] = "claimed" /\ file[b].claim = p /\ file' = [file EXCEPT ![b].claim = None])
  BY <1>0, <1>1 DEF RefuseLate, Released
<1>4. /\ UNCHANGED <<alive, looked, onRecord, reran>> /\ faults' \in 0..MaxFaults
      /\ status' = status \/ (status' = "open" /\ p \in Cli /\ at[p] = Home)
  <2>1. faults \in 0..MaxFaults
    BY DEF IInv, TypeOK
  <2> QED
    BY <2>1, BoundAssumption DEF RefuseLate, Fault
<1>5. status' \in {"", "stranded", "open", "done"} /\ Unused(p)
  BY <1>0, <1>4 DEF IInv, TypeOK, Unused
<1>6. /\ TypeOK' /\ Procs' /\ Files' /\ Fresh' /\ Free' /\ OneLeaf' /\ Alone' /\ Hold' /\ Record'
      /\ \A q \in Proc : pc'[q] = (IF q = p THEN next ELSE pc[q]) /\ (q # p => at'[q] = at[q])
      /\ \A a \in Address : Spent(file[a]) => Spent(file'[a])
      /\ file'[Home] = Foreign => file[Home] = Foreign
  BY <1>0, <1>1, <1>2, <1>3, <1>4, <1>5, EndStep
<1>7. Closed' /\ OwnerFirst'
  <2>1. CASE status' = status
    BY <1>0, <1>4, <1>6, <2>1, OthersStay, Names
  <2>2. CASE status' = "open" /\ p \in Cli /\ at[p] = Home
    <3>1. reran = "no" => pc[Owner] = "end" /\ pc'[Owner] = "end"
      BY <1>0, <1>6, <2>2, Names DEF IInv, OwnerFirst
    <3> QED
      BY <1>4, <1>6, <2>2, <3>1 DEF IInv, Closed, OwnerFirst
  <2> QED
    BY <1>4, <2>1, <2>2
<1> QED
  BY <1>6, <1>7 DEF IInv

\* Closure: whoever stamps a resumed run as done has spent its file, and the
\* owner does so before anybody is past the probe.
LEMMA CloseStep ==
    ASSUME IInv, NEW p \in Proc, Close(p)
    PROVE  IInv' /\ \A a \in Address : Spent(file[a]) => Spent(file'[a])
<1>0. pc[p] = "closure" /\ Leave(p, "end") /\ UNCHANGED <<alive, looked, onRecord, reran>>
  BY DEF Close
<1>1. PICK b : b = at[p]
  OBVIOUS
<1>2. \/ UNCHANGED file
      \/ p # Owner /\ file[b].claim = p /\ file' = [file EXCEPT ![b].consumer = p]
  BY <1>1 DEF Close, Settle, Recovered, MayConsume
<1>3. faults' \in 0..MaxFaults
  <2>1. faults \in 0..MaxFaults
    BY DEF IInv, TypeOK
  <2>2. faults' = faults \/ Fault
    BY DEF Close, Settle, Recovered
  <2> QED
    BY <2>1, <2>2, BoundAssumption DEF Fault
<1>4. \/ status' = status
      \/ status' = "open" /\ (p = Owner \/ (p \in Cli /\ at[p] = Home))
      \/ status' = "done" /\ p = Owner
      \/ /\ status' = "done" /\ p # Owner /\ p \in Cli /\ at[p] = Home
         /\ \/ Settled(p) /\ UNCHANGED file
            \/ MayConsume(p) /\ file' = [file EXCEPT ![b].consumer = p]
            \/ file[Home] = Foreign
  BY <1>1, Names DEF Close, Settle, Recovered
<1>5. status' \in {"", "stranded", "open", "done"}
  BY <1>4 DEF IInv, TypeOK
<1>6. /\ TypeOK' /\ Procs' /\ Files' /\ Fresh' /\ Free' /\ OneLeaf' /\ Alone' /\ Hold' /\ Record'
      /\ \A q \in Proc : pc'[q] = (IF q = p THEN "end" ELSE pc[q]) /\ (q # p => at'[q] = at[q])
      /\ \A a \in Address : Spent(file[a]) => Spent(file'[a])
      /\ file'[Home] = Foreign => file[Home] = Foreign
  BY <1>0, <1>1, <1>2, <1>3, <1>5, EndStep
<1>7. Closed' /\ OwnerFirst'
  <2>1. CASE status' = status
    BY <1>0, <1>6, <2>1, OthersStay, Names
  <2>2. CASE status' = "open" /\ (p = Owner \/ (p \in Cli /\ at[p] = Home))
    <3>1. reran = "no" => pc'[Owner] = "end"
      BY <1>0, <1>6, <2>2, Names DEF IInv, OwnerFirst
    <3> QED
      BY <1>0, <1>6, <2>2, <3>1 DEF IInv, Closed, OwnerFirst
  <2>3. CASE status' = "done" /\ p = Owner
    <3>1. reran = "no" => \A q \in Cli : at[q] = Home => pc[q] \notin {"probed", "claimed", "closure"} \cup Running
      BY <1>0, <2>3 DEF IInv, OwnerFirst
    <3> QED
      BY <1>0, <1>6, <2>3, <3>1, Names DEF IInv, Closed, OwnerFirst
  <2>4. CASE /\ status' = "done" /\ p # Owner /\ p \in Cli /\ at[p] = Home
             /\ \/ Settled(p) /\ UNCHANGED file
                \/ MayConsume(p) /\ file' = [file EXCEPT ![b].consumer = p]
                \/ file[Home] = Foreign
    <3>1. CASE reran # "no"
      BY <1>0, <1>6, <3>1 DEF IInv, Closed, OwnerFirst
    <3>2. CASE reran = "no"
      <4>0. b = Home /\ Home \in Address /\ p # None /\ file[Home] # Foreign
        BY <1>1, <2>4, <3>2, Names DEF IInv, Closed
      <4>1. \/ file[Home].loop = p /\ Complete(file[Home]) /\ UNCHANGED file
            \/ file[Home].claim = p /\ file' = [file EXCEPT ![Home].consumer = p]
        <5>1. ASSUME file[Home].consumer = p PROVE FALSE
          BY <1>0, <4>0, <5>1 DEF IInv, Files
        <5> QED
          BY <2>4, <4>0, <5>1 DEF Settled, MayConsume
      <4>2. Spent(file'[Home])
        <5>1. CASE file[Home].loop = p /\ Complete(file[Home]) /\ UNCHANGED file
          BY <5>1, Names DEF Spent, Absent
        <5>2. CASE file[Home].claim = p /\ file' = [file EXCEPT ![Home].consumer = p]
          <6>1. file[Home] \in Checkpoint
            BY <4>0, <5>2, Fields DEF IInv, TypeOK
          <6>2. file'[Home] = [file[Home] EXCEPT !.consumer = p]
            BY <4>0, <5>2 DEF IInv, TypeOK
          <6> QED
            <7>1. p \in Proc \cup {None}
              OBVIOUS
            <7>2. file'[Home] # Absent /\ file'[Home].consumer = p
              <8>1. [file[Home] EXCEPT !.consumer = p] # Absent /\ [file[Home] EXCEPT !.consumer = p].consumer = p
                BY <6>1, <7>1, Touched DEF NoPlan
              <8> QED
                BY <6>2, <8>1
            <7> QED
              BY <4>0, <7>2 DEF Spent, Consumed
        <5> QED
          BY <4>1, <5>1, <5>2
      <4>3. ASSUME NEW q \in Cli, q # p, at[q] = Home, pc[q] \in {"claimed"} \cup Running PROVE FALSE
        <5>1. q \in Proc /\ q # Owner /\ (Writes(q) \/ HasClaim(q) \/ Lost(q))
          BY <4>3, Names DEF IInv, Hold
        <5>2. Destination(q, at[q]) = Home
          BY <4>3, <5>1, Names, Destinations
        <5>3. CASE Writes(q)
          BY <4>0, <4>1, <4>3, <5>2, <5>3 DEF Writes
        <5>4. CASE HasClaim(q)
          BY <4>0, <4>1, <4>3, <5>1, <5>4, Names DEF HasClaim, IInv, Files
        <5>5. CASE Lost(q)
          <6>1. file[Home].loop = p \/ file[Home].claim = p
            BY <4>1
          <6>2. file[Home] \in NoPlan
            BY <5>2, <5>5 DEF Lost
          <6>3. file[Home].loop \notin Proc /\ file[Home].claim = None
            BY <6>2, Fields
          <6> QED
            BY <4>0, <6>1, <6>3
        <5> QED
          BY <5>1, <5>3, <5>4, <5>5
      <4>4. Spent(file[Home])'
        BY <4>2 DEF Spent, Complete, Consumed
      <4>5. Closed'
        <5>1. file'[Home] # Foreign
          BY <1>6, <4>0
        <5>2. \A q \in Cli : at'[q] = Home => pc'[q] \notin {"claimed"} \cup Running
          BY <1>6, <4>3, Names DEF Running
        <5> QED
          BY <4>4, <5>1, <5>2 DEF Closed
      <4>6. OwnerFirst'
        <5>1. pc[Owner] = "end" /\ pc'[Owner] = "end"
          BY <1>0, <1>6, <2>4, <3>2, Names DEF IInv, OwnerFirst
        <5> QED
          BY <1>0, <5>1 DEF IInv, OwnerFirst
      <4> QED
        BY <4>5, <4>6
    <3> QED
      BY <3>1, <3>2
  <2> QED
    BY <1>4, <2>1, <2>2, <2>3, <2>4
<1> QED
  BY <1>6, <1>7 DEF IInv

\* Another plan is written over a file: if that was the last of the chain there is
\* none any more, and whoever held it holds nothing that a resume could claim.
LEMMA RerunStep ==
    ASSUME IInv, NEW r \in Run, Rerun(r)
    PROVE  /\ IInv'
           /\ \A a \in Address : Spent(file[a]) => Spent(file'[a]) \/ (a \in Run /\ file'[a] = Foreign)
<1>1. /\ r \in Address /\ FirstEnded(r) /\ file[r] \notin NoPlan
      /\ reran' = (IF r = Home THEN "live" ELSE reran)
      /\ UNCHANGED <<lock, lease, alive, pc, at, seen, pos, status, looked, onRecord>>
  BY Names DEF Rerun
<1>2. \A a \in Address : file'[a] = (IF a = r THEN Foreign ELSE file[a])
  BY <1>1 DEF Rerun, IInv, TypeOK
<1>3. /\ Foreign \in NoPlan /\ Foreign # Absent /\ Absent \in NoPlan
      /\ Foreign.loop = Other /\ Foreign.claim = None /\ Foreign.consumer = None /\ Foreign.done = 0
  BY Names DEF Foreign, Absent, NoPlan
<1>4. TypeOK'
  <2>1. faults' \in 0..MaxFaults
    <3>1. faults \in 0..MaxFaults /\ (faults' = faults \/ Fault)
      BY DEF Rerun, IInv, TypeOK
    <3> QED
      BY <3>1, BoundAssumption DEF Fault
  <2>2. file' \in [Address -> Checkpoint \cup NoPlan]
    BY <1>3 DEF Rerun, IInv, TypeOK
  <2>3. reran' \in {"no", "live", "over"}
    BY <1>1 DEF IInv, TypeOK
  <2> QED
    BY <1>1, <2>1, <2>2, <2>3 DEF IInv, TypeOK
<1>5. \A a \in Address : Leaf(a)' <=> Leaf(a) /\ a # r
  <2> SUFFICES ASSUME NEW a \in Address PROVE Leaf(a)' <=> Leaf(a) /\ a # r
    OBVIOUS
  <2>1. CASE a = r
    BY <1>2, <1>3, <2>1 DEF Leaf
  <2>2. CASE a # r
    <3>1. file'[a] = file[a] /\ Heir(a)' = Heir(a)
      BY <1>2, <2>2 DEF Heir
    <3>2. file[a].claim # None => Heir(a) \in Address
      <4>1. file[a].claim \in Proc \cup {None}
        BY Fields DEF IInv, TypeOK
      <4> QED
        BY <4>1, Destinations DEF Heir
    <3> QED
      BY <1>1, <1>2, <1>3, <2>2, <3>1, <3>2 DEF Leaf
  <2> QED
    BY <2>1, <2>2
<1>6. Procs' /\ Free' /\ Alone' /\ OneLeaf' /\ Record'
  <2>1. Procs' /\ Free'
    BY <1>1 DEF IInv, Procs, Free
  <2>2. Alone'
    BY <1>1 DEF IInv, Alone, Admitted
  <2>3. OneLeaf' /\ Record'
    BY <1>1, <1>2, <1>5 DEF IInv, OneLeaf, Record
  <2> QED
    BY <2>1, <2>2, <2>3
<1>7. Files'
  <2>1. /\ file'[Home] \notin NoPlan => file'[Home].loop \in {Owner} \cup Cli
        /\ \A p \in Cli : file'[p] \notin NoPlan => file'[p].loop \in Cli
        /\ \A p \in Api : file'[p] \notin NoPlan => file'[p].loop = p
    BY <1>2, <1>3, Names DEF IInv, Files
  <2>2. ASSUME NEW a \in Address
        PROVE  /\ file'[a].claim # Owner
               /\ file'[a].consumer # None => file'[a].consumer = file'[a].claim /\ pc'[file'[a].claim] = "end"
               /\ file'[a].claim # None => ~Complete(file'[a])
               /\ file'[a].done <= onRecord'
    <3>1. CASE a = r
      <4>1. onRecord \in 0..Steps
        BY DEF IInv, TypeOK
      <4> QED
        BY <1>1, <1>2, <1>3, <3>1, <4>1, Names
    <3>2. CASE a # r
      BY <1>1, <1>2, <3>2 DEF IInv, Files
    <3> QED
      BY <3>1, <3>2
  <2> QED
    BY <2>1, <2>2 DEF Files, Complete
<1>8. Fresh'
  <2>1. ASSUME NEW p \in Proc, Unused(p)'
        PROVE  (\A a \in Address : file'[a].loop # p) /\ \A q \in Proc : seen'[q].loop # p
    BY <1>1, <1>2, <1>3, <2>1, Names DEF IInv, Fresh, Unused
  <2>2. ASSUME NEW p \in Cli \cup Api, Unused(p)' PROVE file'[p] = Absent
    <3>1. file[p] = Absent /\ p \in Address
      BY <1>1, <2>2, Names DEF IInv, Fresh, Unused
    <3> QED
      BY <1>1, <1>2, <1>3, <3>1
  <2>3. ASSUME NEW p \in Proc, at'[p] \in Address PROVE file'[at'[p]] # Absent
    BY <1>1, <1>2, <1>3, <2>3 DEF IInv, Fresh
  <2> QED
    BY <2>1, <2>2, <2>3 DEF Fresh
<1>9. Hold'
  <2> SUFFICES ASSUME NEW p \in Proc, Admitted(p)
               PROVE  /\ Writes(p) => Writes(p)' \/ Lost(p)'
                      /\ HasClaim(p) => HasClaim(p)' \/ Lost(p)'
                      /\ Lost(p) => Lost(p)'
    BY <1>1 DEF IInv, Hold, Admitted
  <2>1. /\ Destination(p, at[p]) \in Address /\ at'[p] = at[p]
        /\ p # Owner => at[p] \in Address
    BY <1>1, Destinations, Sources
  <2>2. ASSUME Destination(p, at[p]) = r, p # Owner PROVE at[p] = r
    <3>1. p # r
      BY <1>1, <2>2, Names DEF FirstEnded, Admitted, Running
    <3> QED
      BY <2>2, <3>1, Destinations
  <2>3. Destination(p, at[p]) = r => p # Owner
    BY <1>1, Destinations DEF FirstEnded, Admitted, Running
  <2>4. ASSUME Lost(p) PROVE Lost(p)'
    BY <1>2, <1>3, <1>5, <2>1, <2>4, Names DEF Lost
  <2>5. ASSUME Writes(p) PROVE Writes(p)' \/ Lost(p)'
    <3>1. CASE Destination(p, at[p]) # r
      BY <1>2, <2>1, <2>5, <3>1 DEF Writes
    <3>2. CASE Destination(p, at[p]) = r
      <4>1. \A a \in Address : ~Leaf(a)'
        BY <1>5, <2>1, <2>5, <3>2, WriterHolds DEF IInv, OneLeaf
      <4>2. file'[Destination(p, at'[p])] \in NoPlan /\ file'[at'[p]].claim # p
        BY <1>2, <1>3, <2>1, <2>2, <2>3, <3>2, Names
      <4> QED
        BY <4>1, <4>2 DEF Lost
    <3> QED
      BY <3>1, <3>2
  <2>6. ASSUME HasClaim(p) PROVE HasClaim(p)' \/ Lost(p)'
    <3>0. at[p] \in Address /\ p # Owner /\ p # None
      BY <2>1, <2>6, Names DEF HasClaim
    <3>1. CASE at[p] # r
      BY <1>2, <1>5, <2>1, <2>6, <3>0, <3>1 DEF HasClaim
    <3>2. CASE at[p] = r
      <4>1. \A a \in Address : ~Leaf(a)'
        BY <1>5, <2>6, <3>0, <3>2 DEF HasClaim, IInv, OneLeaf
      <4>2. file'[at'[p]].claim # p
        BY <1>2, <1>3, <2>1, <3>0, <3>2
      <4>3. Destination(p, at[p]) # r => file[Destination(p, at[p])] = Absent
        BY <2>6, <3>0, <3>2 DEF HasClaim, Leaf, Heir
      <4>4. file'[Destination(p, at'[p])] \in NoPlan
        BY <1>2, <1>3, <2>1, <4>3
      <4> QED
        BY <4>1, <4>2, <4>4 DEF Lost
    <3> QED
      BY <3>1, <3>2
  <2> QED
    BY <2>4, <2>5, <2>6
<1>10. Closed' /\ OwnerFirst'
  <2>1. file'[Home] = Foreign => reran' # "no"
    BY <1>1, <1>2, Names DEF IInv, Closed
  <2>2. reran' = "no" => reran = "no" /\ file'[Home] = file[Home]
    BY <1>1, <1>2, Names
  <2>3. reran' = "no" => (Spent(file[Home])' <=> Spent(file[Home]))
    BY <2>2 DEF Spent, Complete, Consumed
  <2>4. Closed'
    BY <1>1, <2>1, <2>2, <2>3 DEF IInv, Closed
  <2>5. OwnerFirst'
    BY <1>1, <2>2 DEF IInv, OwnerFirst
  <2> QED
    BY <2>4, <2>5
<1>11. \A a \in Address : Spent(file[a]) => Spent(file'[a]) \/ (a \in Run /\ file'[a] = Foreign)
  BY <1>2
<1> QED
  BY <1>4, <1>6, <1>7, <1>8, <1>9, <1>10, <1>11 DEF IInv

\* Such a loop says how the run ended.
LEMMA RerunEndsStep ==
    ASSUME IInv, RerunEnds
    PROVE  IInv'
<1>1. /\ UNCHANGED <<file, lock, lease, alive, pc, at, seen, pos, looked, onRecord, faults>>
      /\ status' \in {"open", "done"} /\ reran' = "over"
  BY DEF RerunEnds
<1>2. TypeOK'
  BY <1>1 DEF IInv, TypeOK
<1>3. Procs' /\ Free'
  BY <1>1 DEF IInv, Procs, Free
<1>4. Onward
  <2>1. ASSUME NEW q \in Proc PROVE pos'[q] >= pos[q]
    <3>1. pos[q] \in 0..Steps /\ pos' = pos
      BY <1>1 DEF IInv, TypeOK
    <3> QED
      BY <3>1
  <2>2. \A q \in Proc : Unused(q)' => Unused(q)
    BY <1>1 DEF Unused
  <2> QED
    BY <1>1, <2>1, <2>2 DEF Onward
<1>5. Fresh' /\ OneLeaf' /\ Record'
  BY <1>1, <1>2, <1>4, SameFiles, ChainKept DEF TypeOK
<1>6. Hold' /\ Alone' /\ Files'
  BY <1>1, SameFiles, HoldKept, FilesKept DEF Admitted
<1>7. Closed' /\ OwnerFirst'
  BY <1>1 DEF IInv, Closed, OwnerFirst
<1> QED
  BY <1>2, <1>3, <1>5, <1>6, <1>7 DEF IInv

-----------------------------------------------------------------------------
(* The theorems. *)

\* The first owner is about to run its plan, and nothing is written.
LEMMA InitHolds == Init => IInv
<1> SUFFICES ASSUME Init PROVE IInv
  OBVIOUS
<1>1. TypeOK
  <2>1. 0 \in 0..Steps /\ 0 \in 0..MaxFaults
    BY BoundAssumption
  <2> QED
    BY <2>1, Names DEF Init, TypeOK, Waiting, Running, NoPlan
<1>2. \A a \in Address : file[a] = Absent /\ ~Leaf(a)
  BY DEF Init, Leaf, NoPlan
<1>3. Procs /\ Free
  BY Names DEF Init, Procs, Free, Running
<1>4. Files
  <2>1. 0 <= 0 /\ 0 # Steps
    BY BoundAssumption
  <2> QED
    BY <1>2, <2>1, Names DEF Init, Files, Absent, Complete, NoPlan
<1>5. Fresh
  BY <1>2, Names DEF Init, Fresh, Absent
<1>6. OneLeaf /\ Closed /\ OwnerFirst
  <2>1. \A q \in Cli : at[q] # Home
    BY Names DEF Init
  <2>2. file[Home] # Foreign
    BY <1>2, Names DEF Absent, Foreign
  <2> QED
    BY <1>2, <2>1, <2>2 DEF Init, OneLeaf, Closed, OwnerFirst
<1>7. Hold /\ Alone
  <2>1. \A p \in Proc : Admitted(p) => p = Owner
    BY DEF Init, Admitted, Running
  <2>2. Lost(Owner) /\ pc[Owner] # "claimed"
    BY <1>2, Names, Destinations DEF Init, Lost, NoPlan
  <2> QED
    BY <2>1, <2>2 DEF Hold, Alone, Admitted
<1>8. Record
  <2>1. 0 >= 0
    OBVIOUS
  <2> QED
    BY <1>2, <2>1 DEF Init, Record
<1> QED
  BY <1>1, <1>3, <1>4, <1>5, <1>6, <1>7, <1>8 DEF IInv

\* Every step of every process, and of the heartbeat, keeps the invariant and
\* what is spent.
LEMMA NextHolds ==
    IInv /\ [Next]_vars =>
        /\ IInv'
        /\ \A a \in Address : Spent(file[a]) => Spent(file'[a]) \/ (a \in Run /\ file'[a] = Foreign)
<1> DEFINE Good ==
      /\ IInv'
      /\ \A a \in Address : Spent(file[a]) => Spent(file'[a]) \/ (a \in Run /\ file'[a] = Foreign)
<1> SUFFICES ASSUME IInv, [Next]_vars
             PROVE  Good
  OBVIOUS
<1>1. ASSUME UNCHANGED file, IInv' PROVE Good
  BY <1>1
<1>2. CASE UNCHANGED vars
  <2>1. UNCHANGED <<file, lock, lease, alive, pc, at, seen, pos, status, looked, onRecord, reran, faults>>
    BY <1>2 DEF vars
  <2>2. \A a \in Address : Leaf(a)' <=> Leaf(a)
    BY <2>1 DEF Leaf, Heir
  <2>3. TypeOK' /\ Procs' /\ Files'
    BY <2>1 DEF IInv, TypeOK, Procs, Files, Complete
  <2>4. Fresh' /\ Free' /\ OneLeaf' /\ Record'
    BY <2>1, <2>2 DEF IInv, Fresh, Free, OneLeaf, Record, Unused
  <2>5. Hold' /\ Alone'
    BY <2>1 DEF IInv, Hold, Alone, Admitted, Writes, HasClaim, Lost, Leaf, Heir
  <2>6. Closed' /\ OwnerFirst'
    BY <2>1 DEF IInv, Closed, OwnerFirst, Spent, Complete, Consumed
  <2> QED
    BY <2>1, <2>3, <2>4, <2>5, <2>6 DEF IInv
<1>3. ASSUME NEW p \in Proc, BeginStep(p) PROVE Good
  <2>1. PICK d : d = Destination(p, at[p])
    OBVIOUS
  <2>2. PICK k : k = pos[p]
    OBVIOUS
  <2>3. k \in 0..Steps /\ k >= k /\ k < Steps /\ pos' = [pos EXCEPT ![p] = k]
    <3>1. pos[p] \in 0..Steps /\ pos' = [pos EXCEPT ![p] = pos[p]]
      BY <1>3 DEF BeginStep, IInv, TypeOK
    <3> QED
      <4>1. k \in 0..Steps /\ k < Steps
        BY <1>3, <2>2, <3>1 DEF BeginStep
      <4> QED
        BY <2>2, <3>1, <4>1
  <2>4. Write(p, k, TRUE)
    BY <1>3, <2>2 DEF BeginStep
  <2> QED
    BY <1>3, <2>1, <2>2, <2>3, <2>4, WriteStep DEF BeginStep, Running
<1>4. ASSUME NEW p \in Proc, FinishStep(p) PROVE Good
  <2>1. PICK d : d = Destination(p, at[p])
    OBVIOUS
  <2>2. PICK k : k = pos[p] + 1
    OBVIOUS
  <2>3. k \in 0..Steps /\ k >= pos[p] /\ pos[p] < Steps
    <3>1. pos[p] \in 0..Steps /\ pos[p] < Steps
      BY <1>4 DEF FinishStep, IInv, TypeOK, Procs
    <3> QED
      BY <2>2, <3>1, BoundAssumption
  <2>4. Write(p, k, FALSE) /\ pos' = [pos EXCEPT ![p] = k]
    BY <1>4, <2>2 DEF FinishStep
  <2> QED
    BY <1>4, <2>1, <2>3, <2>4, WriteStep DEF FinishStep, Running
<1>5. ASSUME NEW p \in Proc, LoopEnds(p) \/ GiveUp(p) PROVE Good
  BY <1>1, <1>5, LoopEndStep DEF LoopEnds, GiveUp
<1>6. ASSUME NEW p \in Proc, NEW a \in Address, Lookup(p, a) PROVE Good
  BY <1>1, <1>6, LookupStep DEF Lookup
<1>7. ASSUME NEW p \in Proc, Lock(p) PROVE Good
  BY <1>1, <1>7, LockStep DEF Lock
<1>8. ASSUME NEW p \in Proc, Probe(p) PROVE Good
  BY <1>1, <1>8, ProbeStep DEF Probe
<1>9. ASSUME NEW p \in Proc, NEW reclaim \in BOOLEAN, Claim(p, reclaim) PROVE Good
  <2>1. PICK b : b = at[p]
    OBVIOUS
  <2> QED
    BY <1>9, <2>1, ClaimStep
<1>10. ASSUME NEW p \in Proc, Start(p) PROVE Good
  BY <1>1, <1>10, StartStep DEF Start
<1>11. ASSUME NEW p \in Proc, RefuseLate(p) \/ Close(p) PROVE Good
  BY <1>11, RefuseLateStep, CloseStep
<1>12. ASSUME NEW p \in Proc, Exit(p) \/ Crash(p) PROVE Good
  BY <1>1, <1>12, GoneStep DEF Exit, Crash, Gone
<1>13. CASE Look \/ Stamp
  BY <1>1, <1>13, StampStep DEF Look, Stamp
<1>14. ASSUME NEW r \in Run, Rerun(r) PROVE Good
  BY <1>14, RerunStep
<1>15. CASE RerunEnds
  BY <1>1, <1>15, RerunEndsStep DEF RerunEnds
<1> HIDE DEF Good
<1> QED
  BY <1>2, <1>3, <1>4, <1>5, <1>6, <1>7, <1>8, <1>9, <1>10, <1>11, <1>12, <1>13, <1>14, <1>15
     DEF Next, Loop, Admit

\* The invariant of claims, leases and files, from which the others follow.
THEOREM ClaimInvariant == Spec => []IInv
BY InitHolds, NextHolds, PTL DEF Spec

\* checkpoint.py and run_lease.py: files, locks, leases and processes keep their
\* types.
THEOREM TypeCorrect == Spec => []TypeOK
<1>1. IInv => TypeOK
  BY DEF IInv
<1> QED
  BY <1>1, ClaimInvariant, PTL

\* A plan has one executor: no two live processes go on with it at once, whatever
\* locks admitted them (mark_checkpoint_claimed(), probe_owner_alive()).
THEOREM PlanHasOneExecutor == Spec => []OneExecutor
<1>1. IInv => OneExecutor
  BY DEF IInv, Alone, Admitted, OneExecutor
<1> QED
  BY <1>1, ClaimInvariant, PTL

\* A resume starts where the furthest checkpoint left the plan, so no step that
\* was written down as finished is run again (_load_resume()).
THEOREM NothingReplays == Spec => NoReplay
<1>1. IInv => [\A p \in Proc : pc[p] = "exec" /\ pc'[p] = "step" => pos[p] >= onRecord]_vars
  BY DEF IInv, Record, Running
<1> QED
  BY <1>1, ClaimInvariant, PTL DEF NoReplay

\* settle_resume_source(), source_is_settled(): a file that is finished or consumed
\* is never written over or released, but by a loop with another plan in a run's
\* directory.
THEOREM SpentForGood == Spec => SpentStaysSpent
<1>1. IInv /\ [Next]_vars => [\A a \in Address :
          Spent(file[a]) => Spent(file'[a]) \/ (a \in Run /\ file'[a] = Foreign)]_vars
  BY NextHolds
<1> QED
  BY <1>1, ClaimInvariant, PTL DEF SpentStaysSpent, Spec

\* _cmd_resume(): once the run was closed as done, no "maro resume" of it runs a
\* step, even where the last checkpoint was lost; as long as no loop with another
\* plan came into the run.
THEOREM ClosedForGood == Spec => ClosedRunsNothing
<1>1. IInv => [status = "done" /\ reran = "no" => \A p \in Cli : at[p] = Home /\ pc[p] = "exec" => pc'[p] # "step"]_vars
  BY DEF IInv, Closed, Running
<1> QED
  BY <1>1, ClaimInvariant, PTL DEF ClosedRunsNothing

=============================================================================
