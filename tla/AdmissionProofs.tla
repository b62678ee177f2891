-------------------------- MODULE AdmissionProofs --------------------------
(***************************************************************************)
(* The admission gate excludes loops of other processes for any number of  *)
(* loops, processes, files and crashes, as long as every loop that runs    *)
(* went through it; and it leaks no lock, whoever went around it.  The     *)
(* argument follows the cores: each has its file to itself, from the       *)
(* thread that makes it to the thread that closes it.                      *)
(***************************************************************************)
EXTENDS Admission, TLAPS

AtGate == {"new", "open", "lock", "busy", "verify", "register"}
Admitting == {"start", "working", "release"}   \* the slot was granted
WithFile == {"lock", "verify", "register", "unlock"}
Locking == {"verify", "register"}

\* The lock of file i was taken for the process of l, by a thread past the gate.
KeptBy(i, l) ==
    flock[i] # NoLoop /\ ProcOf[flock[i]] = ProcOf[l] /\ pc[flock[i]] \notin AtGate

\* Who is at the gate has no lock but the one it is about to publish.
Threads ==
    /\ \A l \in Loop : pc[l] \in WithFile => fd[l] # 0
    /\ \A l \in Loop : pc[l] \in Locking => flock[fd[l]] = l
    /\ \A i \in Inode : flock[i] # NoLoop => pc[flock[i]] \notin AtGate \ Locking
    /\ \A l \in Loop : core[l] # NoLoop => pc[l] \in Admitting

\* A loop at the gate has not made its core.
Unborn ==
    \A l \in Loop : pc[l] \in AtGate =>
        /\ file[l] = 0
        /\ \A m \in Loop : core[m] # l /\ pin[m] # l
        /\ \A p \in Process : registry[p] # l

\* Cores are shared within their process.
Local ==
    /\ \A m \in Loop : core[m] # NoLoop => ProcOf[core[m]] = ProcOf[m]
    /\ \A m \in Loop : pin[m] # NoLoop => ProcOf[pin[m]] = ProcOf[m]
    /\ \A p \in Process : registry[p] # NoLoop => ProcOf[registry[p]] = p

\* An open core has the lock of its file, which no other core has open, and
\* somebody has a handle on it or is about to close it.
Open ==
    \A c \in Loop : file[c] # 0 =>
        /\ KeptBy(file[c], c)
        /\ \A d \in Loop : file[d] = file[c] => d = c
        /\ \E m \in Loop : core[m] = c \/ (pc[m] = "closing" /\ pin[m] = c)

\* One thread closes a core, and other references without a handle are to
\* cores that were closed.
Closing ==
    /\ \A m \in Loop : pc[m] = "closing" => pin[m] # NoLoop /\ file[pin[m]] # 0
    /\ \A m \in Loop : pc[m] # "closing" /\ pin[m] # NoLoop => file[pin[m]] = 0
    /\ \A m, n \in Loop : pc[m] = "closing" /\ pc[n] = "closing" /\ pin[m] = pin[n] => m = n

\* The file that is unlocked is nobody's any more.
Unlocking ==
    \A m \in Loop : pc[m] = "unlock" =>
        /\ KeptBy(fd[m], m)
        /\ \A c \in Loop : file[c] # fd[m]
        /\ \A n \in Loop : pc[n] = "unlock" /\ fd[n] = fd[m] => n = m

\* The core of a loop that came in time is open, and nobody closes it.
Safe == \A l \in Secure : file[core[l]] # 0 /\ ~Dying(core[l])

\* Every lock is somebody's.
Owned ==
    \A i \in Inode : flock[i] # NoLoop =>
        \/ pc[flock[i]] \in Locking /\ fd[flock[i]] = i
        \/ \E m \in Loop : pc[m] = "unlock" /\ fd[m] = i
        \/ \E c \in Loop : file[c] = i

Cores == Threads /\ Unborn /\ Local /\ Open /\ Closing /\ Unlocking /\ Safe /\ Owned

\* Only one file is ever made at the path, all that is open or locked is it,
\* and whoever runs has a slot.
OneFile ==
    /\ ~marker.named
    /\ path = made
    /\ \A l \in Loop : fd[l] \in {0, path} /\ file[l] \in {0, path}
    /\ \A l \in Loop : pc[l] \in Admitting => core[l] # NoLoop

Inductive == TypeOK /\ Cores /\ (~ungated => OneFile)

-----------------------------------------------------------------------------
\* The bounds on files and polls are numbers.
LEMMA Bounds == MaxInode \in Nat /\ MaxInode > 0 /\ MaxPolls \in Nat
  BY BoundAssumption

\* The gate starts without files, slots or loops.
LEMMA InitInductive == Init => Inductive
<1> SUFFICES ASSUME Init PROVE Inductive
  OBVIOUS
<1> USE Bounds, LoopAssumption DEF Init
<1>1. /\ path \in 0..made /\ made \in 0..MaxInode
      /\ flock \in [Inode -> Loop \cup {NoLoop}] /\ registry \in [Process -> Loop \cup {NoLoop}]
  OBVIOUS
<1>2. pc \in [Loop -> PC]
  BY DEF PC
<1>3. /\ fd \in [Loop -> 0..MaxInode] /\ polls \in [Loop -> 0..MaxPolls]
      /\ core \in [Loop -> Loop \cup {NoLoop}] /\ file \in [Loop -> 0..MaxInode]
      /\ pin \in [Loop -> Loop \cup {NoLoop}]
  OBVIOUS
<1>4. marker \in Marker
  BY DEF Marker
<1>5. TypeOK
  BY <1>1, <1>2, <1>3, <1>4 DEF TypeOK
<1>6. Cores
  BY DEF Cores, Threads, Unborn, Local, Open, Closing, Unlocking, Safe, Owned, Secure, Admitted,
     WithFile, Locking, AtGate
<1>7. OneFile
  BY DEF OneFile, NoMarker, Admitting
<1> QED
  BY <1>5, <1>6, <1>7 DEF Inductive

\* No step of a loop, a dying process or a reader leaves the types.
LEMMA TypeStep == TypeOK /\ Closing /\ [Next]_vars => TypeOK'
<1> SUFFICES ASSUME TypeOK, Closing, [Next]_vars PROVE TypeOK'
  OBVIOUS
<1> USE Bounds DEF TypeOK, Marker, NoMarker, PC, slots
<1>1. ASSUME NEW l \in Loop, CheckRegistry(l) PROVE TypeOK'
  <2> DEFINE c == Deref(ProcOf[l])
  <2>1. c \in Loop \cup {NoLoop}
    BY LoopAssumption DEF Deref
  <2>2. CASE c # NoLoop /\ file[c] # 0
    <3>1. core' = [core EXCEPT ![l] = c] /\ pin' = [pin EXCEPT ![l] = NoLoop]
      BY <1>1, <2>2 DEF CheckRegistry
    <3>2. late' \subseteq Loop /\ pc' = [pc EXCEPT ![l] = "start"]
      BY <1>1, <2>2 DEF CheckRegistry, Goto
    <3> QED
      BY <1>1, <2>1, <3>1, <3>2 DEF CheckRegistry
  <2>3. CASE ~(c # NoLoop /\ file[c] # 0)
    <3>1. /\ UNCHANGED <<core, late>> /\ pin' = [pin EXCEPT ![l] = c]
          /\ pc' = [pc EXCEPT ![l] = "open"]
      BY <1>1, <2>3 DEF CheckRegistry, Goto
    <3> QED
      BY <1>1, <2>1, <3>1 DEF CheckRegistry
  <2> QED
    BY <2>2, <2>3
<1>2. ASSUME NEW l \in Loop, OpenFile(l) PROVE TypeOK'
  BY <1>2 DEF OpenFile, Goto, Create
<1>3. ASSUME NEW l \in Loop, OpenFails(l) PROVE TypeOK'
  BY <1>3 DEF OpenFails, Goto
<1>4. ASSUME NEW l \in Loop, TryLock(l) PROVE TypeOK'
  <2>1. flock' \in [Inode -> Loop \cup {NoLoop}]
    BY <1>4 DEF TryLock
  <2>2. QED
    BY <1>4, <2>1 DEF TryLock, Goto
<1>5. ASSUME NEW l \in Loop, BusySibling(l) PROVE TypeOK'
  BY <1>5 DEF BusySibling, Goto
<1>6. ASSUME NEW l \in Loop, Poll(l) PROVE TypeOK'
  BY <1>6 DEF Poll, Goto
<1>7. ASSUME NEW l \in Loop, Busy(l) PROVE TypeOK'
  BY <1>7 DEF Busy, Goto
<1>8. ASSUME NEW l \in Loop, Verify(l) PROVE TypeOK'
  <2>1. flock' \in [Inode -> Loop \cup {NoLoop}]
    BY <1>8 DEF Verify
  <2>2. QED
    BY <1>8, <2>1 DEF Verify, Goto
<1>9. ASSUME NEW l \in Loop, Register(l) PROVE TypeOK'
  <2>1. fd' \in [Loop -> 0..MaxInode] /\ file' \in [Loop -> 0..MaxInode]
    BY <1>9 DEF Register
  <2>2. /\ registry' \in [Process -> Loop \cup {NoLoop}]
        /\ core' \in [Loop -> Loop \cup {NoLoop}] /\ pin' \in [Loop -> Loop \cup {NoLoop}]
    BY <1>9 DEF Register
  <2>3. QED
    BY <1>9, <2>1, <2>2 DEF Register, Goto
<1>10. ASSUME NEW l \in Loop, Advertise(l) PROVE TypeOK'
  BY <1>10 DEF Advertise, Goto, Create
<1>11. ASSUME NEW l \in Loop, Finish(l) PROVE TypeOK'
  BY <1>11 DEF Finish, Goto
<1>12. ASSUME NEW l \in Loop, Release(l) PROVE TypeOK'
  <2>1. core' \in [Loop -> Loop \cup {NoLoop}] /\ pin' \in [Loop -> Loop \cup {NoLoop}]
    BY <1>12 DEF Release
  <2>2. pc' \in [Loop -> PC]
    BY <1>12 DEF Release, Goto
  <2> QED
    BY <1>12, <2>1, <2>2 DEF Release
<1>13. ASSUME NEW l \in Loop, TakeFile(l) PROVE TypeOK'
  <2>1. pin[l] \in Loop
    BY <1>13 DEF TakeFile, Closing
  <2>2. fd' \in [Loop -> 0..MaxInode] /\ file' \in [Loop -> 0..MaxInode]
    BY <1>13, <2>1 DEF TakeFile
  <2> QED
    BY <1>13, <2>2 DEF TakeFile, Goto
<1>14. ASSUME NEW l \in Loop, Unlock(l) PROVE TypeOK'
  <2>1. flock' \in [Inode -> Loop \cup {NoLoop}] /\ pin' \in [Loop -> Loop \cup {NoLoop}]
    BY <1>14 DEF Unlock
  <2>2. QED
    BY <1>14, <2>1 DEF Unlock, Goto
<1>15. ASSUME NEW l \in Loop, ClearProject(l) PROVE TypeOK'
  BY <1>15 DEF ClearProject, Goto
<1>16. ASSUME NEW l \in Loop, ClearMarker(l) PROVE TypeOK'
  BY <1>16 DEF ClearMarker, Goto
<1>17. ASSUME NEW p \in Process, Crash(p) PROVE TypeOK'
  BY <1>17 DEF Crash
<1>18. CASE ReadStale
  BY <1>18 DEF ReadStale
<1>19. CASE UnlinkStale
  BY <1>19 DEF UnlinkStale
<1>20. CASE UNCHANGED vars
  BY <1>20 DEF vars
<1>21. QED
  BY <1>1, <1>2, <1>3, <1>4, <1>5, <1>6, <1>7, <1>8, <1>9, <1>10, <1>11,
     <1>12, <1>13, <1>14, <1>15, <1>16, <1>17, <1>18, <1>19, <1>20
     DEF Next, Acquire, Ending

\* Where the references and the files of a state lead.
LEMMA Facts ==
    ASSUME TypeOK
    PROVE  /\ \A i \in Inode : flock[i] \in Loop \cup {NoLoop}
           /\ \A m \in Loop : fd[m] # 0 => fd[m] \in Inode
           /\ \A m \in Loop : file[m] # 0 => file[m] \in Inode
           /\ \A m \in Loop : core[m] \in Loop \cup {NoLoop} /\ pin[m] \in Loop \cup {NoLoop}
           /\ \A p \in Process : registry[p] \in Loop \cup {NoLoop}
           /\ \A m \in Loop : ProcOf[m] \in Process
           /\ NoLoop \notin Loop /\ late \subseteq Loop
  BY Bounds, LoopAssumption DEF TypeOK, Inode

\* What is kept stays kept when neither the lock nor its taker changes for the worse.
LEMMA StillKept ==
    ASSUME TypeOK, NEW i \in Inode, NEW m \in Loop, KeptBy(i, m), flock'[i] = flock[i],
           \A n \in Loop : pc'[n] = pc[n] \/ pc'[n] \notin AtGate \/ pc[n] \in AtGate
    PROVE  KeptBy(i, m)'
  BY Facts DEF KeptBy

\* Steps that move a loop about, and touch no lock, handle or core: at most a
\* local of the gate is dropped.
LEMMA QuietStep ==
    ASSUME TypeOK, TypeOK', Cores, NEW l \in Loop,
           UNCHANGED <<flock, registry, core, file, late>>,
           \A m \in Loop \ {l} : pc'[m] = pc[m] /\ fd'[m] = fd[m] /\ pin'[m] = pin[m],
           pin'[l] \in {pin[l], NoLoop},
           pc[l] \notin Locking \cup {"unlock", "closing"},
           pc'[l] \notin Locking \cup {"unlock", "closing"},
           pc'[l] \in WithFile => fd'[l] # 0,
           pc[l] \in Admitting => pc'[l] \in Admitting \/ core[l] = NoLoop,
           pc'[l] \in AtGate => pc[l] \in AtGate
    PROVE  Cores'
<1> USE Facts
<1>1. \A m \in Loop :
         /\ pc'[m] \in Locking \cup {"unlock", "closing"} =>
               m # l /\ pc'[m] = pc[m] /\ fd'[m] = fd[m] /\ pin'[m] = pin[m]
         /\ pc[m] \in Locking \cup {"unlock", "closing"} =>
               m # l /\ pc'[m] = pc[m] /\ fd'[m] = fd[m] /\ pin'[m] = pin[m]
  OBVIOUS
<1>2. \A i \in Inode, m \in Loop : KeptBy(i, m) => KeptBy(i, m)'
  BY StillKept
<1>3. Threads'
  BY <1>1 DEF Cores, Threads, AtGate, Locking
<1>4. Unborn' /\ Local'
  BY DEF Cores, Unborn, Local
<1>5. Open'
  BY <1>1, <1>2 DEF Cores, Open
<1>6. Closing'
  BY <1>1 DEF Cores, Closing
<1>7. Unlocking'
  BY <1>1, <1>2 DEF Cores, Threads, Unlocking, WithFile
<1>8. Safe'
  BY <1>1 DEF Cores, Safe, Secure, Admitted, Dying
<1>9. Owned'
  BY <1>1 DEF Cores, Owned, Locking
<1> QED
  BY <1>3, <1>4, <1>5, <1>6, <1>7, <1>8, <1>9 DEF Cores

\* A sibling is given the published core, if it is open, or keeps a closed one.
LEMMA CheckRegistryStep ==
    ASSUME TypeOK, TypeOK', Cores, NEW l \in Loop, CheckRegistry(l)
    PROVE  Cores'
<1> USE Facts
<1> DEFINE c == Deref(ProcOf[l])
<1>1. /\ pc[l] = "new" /\ c \in Loop \cup {NoLoop}
      /\ UNCHANGED <<flock, registry, fd, file>>
      /\ \A m \in Loop \ {l} : pc'[m] = pc[m] /\ core'[m] = core[m] /\ pin'[m] = pin[m]
  BY DEF CheckRegistry, Goto, Deref, TypeOK
<1>2. c # NoLoop => /\ c = registry[ProcOf[l]] /\ ProcOf[c] = ProcOf[l]
                    /\ pc[c] \notin AtGate
  BY DEF Deref, Cores, Local, Unborn
<1>3. core[l] = NoLoop
  BY <1>1 DEF Cores, Threads, Admitting
<1>4. CASE c # NoLoop /\ file[c] # 0
  <2>1. /\ pc'[l] = "start" /\ core'[l] = c /\ pin'[l] = NoLoop
        /\ late' = IF Dying(c) THEN late \cup {l} ELSE late
    BY <1>4 DEF CheckRegistry, Goto, TypeOK
  <2>2. \A i \in Inode, m \in Loop : KeptBy(i, m) => KeptBy(i, m)'
    BY <1>1, <2>1, StillKept DEF AtGate
  <2>3. Threads'
    BY <1>1, <2>1 DEF Cores, Threads, AtGate, Locking, WithFile, Admitting
  <2>4. Unborn' /\ Local'
    BY <1>1, <1>2, <1>4, <2>1 DEF Cores, Unborn, Local, AtGate
  <2>5. Open'
    <3>1. ASSUME NEW d \in Loop, NEW m \in Loop, core[m] = d \/ (pc[m] = "closing" /\ pin[m] = d)
          PROVE  core'[m] = d \/ (pc'[m] = "closing" /\ pin'[m] = d)
      BY <1>1, <1>3, <3>1
    <3> QED
      BY <1>1, <2>2, <3>1 DEF Cores, Open
  <2>6. Closing' /\ Unlocking' /\ Owned'
    BY <1>1, <2>1, <2>2 DEF Cores, Closing, Unlocking, Owned, Locking, Threads, WithFile
  <2>7. Safe'
    <3>1. \A d \in Loop : Dying(d)' <=> Dying(d)
      BY <1>1, <2>1 DEF Dying
    <3> QED
      BY <1>1, <1>4, <2>1, <3>1 DEF Cores, Safe, Secure, Admitted
  <2> QED
    BY <2>3, <2>4, <2>5, <2>6, <2>7 DEF Cores
<1>5. CASE ~(c # NoLoop /\ file[c] # 0)
  <2>1. pc'[l] = "open" /\ pin'[l] = c /\ UNCHANGED <<core, late>>
    BY <1>5 DEF CheckRegistry, Goto, TypeOK
  <2>2. \A i \in Inode, m \in Loop : KeptBy(i, m) => KeptBy(i, m)'
    BY <1>1, <2>1, StillKept DEF AtGate
  <2>3. Threads'
    BY <1>1, <2>1 DEF Cores, Threads, AtGate, Locking, WithFile, Admitting
  <2>4. Unborn' /\ Local'
    BY <1>1, <1>2, <2>1 DEF Cores, Unborn, Local, AtGate
  <2>5. Open' /\ Closing'
    BY <1>1, <1>5, <2>1, <2>2 DEF Cores, Open, Closing
  <2>6. Unlocking' /\ Owned'
    BY <1>1, <2>1, <2>2 DEF Cores, Unlocking, Owned, Locking, Threads, WithFile
  <2>7. Safe'
    BY <1>1, <2>1 DEF Cores, Safe, Secure, Admitted, Dying
  <2> QED
    BY <2>3, <2>4, <2>5, <2>6, <2>7 DEF Cores
<1> QED
  BY <1>4, <1>5

\* The flock is granted on a file nobody has locked, and the thread is new to it.
LEMMA TryLockStep ==
    ASSUME TypeOK, TypeOK', Cores, NEW l \in Loop, TryLock(l), flock[fd[l]] = NoLoop
    PROVE  Cores'
<1> USE Facts
<1>1. /\ pc[l] = "lock" /\ fd[l] \in Inode /\ UNCHANGED <<registry, core, file, pin, fd, late>>
      /\ pc'[l] = "verify" /\ \A m \in Loop \ {l} : pc'[m] = pc[m]
      /\ flock'[fd[l]] = l /\ \A i \in Inode \ {fd[l]} : flock'[i] = flock[i]
  BY DEF TryLock, Goto, TypeOK, Cores, Threads, WithFile, slots
<1>2. ASSUME NEW i \in Inode, NEW m \in Loop, KeptBy(i, m) PROVE KeptBy(i, m)' /\ i # fd[l]
  <2>1. i # fd[l]
    BY <1>2 DEF KeptBy
  <2> QED
    BY <1>1, <1>2, <2>1, StillKept DEF AtGate
<1>3. Threads'
  BY <1>1 DEF Cores, Threads, AtGate, Locking, WithFile, Admitting
<1>4. Unborn' /\ Local'
  BY <1>1 DEF Cores, Unborn, Local, AtGate
<1>5. Open' /\ Closing'
  BY <1>1, <1>2 DEF Cores, Open, Closing
<1>6. Unlocking'
  BY <1>1, <1>2 DEF Cores, Unlocking, Threads, WithFile
<1>7. Safe'
  BY <1>1 DEF Cores, Safe, Secure, Admitted, Dying
<1>8. Owned'
  BY <1>1 DEF Cores, Owned, Locking
<1> QED
  BY <1>3, <1>4, <1>5, <1>6, <1>7, <1>8 DEF Cores

\* The thread whose file the path still names goes on to publish it.
LEMMA VerifiedStep ==
    ASSUME TypeOK, TypeOK', Cores, NEW l \in Loop, Verify(l), fd[l] = path
    PROVE  Cores'
<1> USE Facts
<1>1. /\ pc[l] = "verify" /\ UNCHANGED <<flock, registry, core, file, pin, fd, late>>
      /\ pc'[l] = "register" /\ \A m \in Loop \ {l} : pc'[m] = pc[m]
  BY DEF Verify, Goto, TypeOK, slots
<1>2. \A i \in Inode, m \in Loop : KeptBy(i, m) => KeptBy(i, m)'
  BY <1>1, StillKept DEF AtGate
<1>3. Threads'
  BY <1>1 DEF Cores, Threads, AtGate, Locking, WithFile, Admitting
<1>4. Unborn' /\ Local'
  BY <1>1 DEF Cores, Unborn, Local, AtGate
<1>5. Open' /\ Closing'
  BY <1>1, <1>2 DEF Cores, Open, Closing
<1>6. Unlocking'
  BY <1>1, <1>2 DEF Cores, Unlocking, Threads, WithFile
<1>7. Safe'
  BY <1>1 DEF Cores, Safe, Secure, Admitted, Dying
<1>8. Owned'
  BY <1>1 DEF Cores, Owned, Locking
<1> QED
  BY <1>3, <1>4, <1>5, <1>6, <1>7, <1>8 DEF Cores

\* The flock of one file is dropped, by the thread that took it or the one that
\* closed its core; no core has that file.
LEMMA UnlockStep ==
    ASSUME TypeOK, TypeOK', Cores, NEW l \in Loop, pc[l] \in {"verify", "unlock"},
           NEW k, k = fd[l],
           flock' = [flock EXCEPT ![k] = NoLoop], fd' = [fd EXCEPT ![l] = 0],
           pc' = [pc EXCEPT ![l] = IF pc[l] = "verify" THEN "new" ELSE "clear"],
           pin' = [pin EXCEPT ![l] = IF pc[l] = "verify" THEN @ ELSE NoLoop],
           UNCHANGED <<registry, core, file, late>>
    PROVE  Cores'
<1> USE Facts
<1>1. k \in Inode
  BY DEF Cores, Threads, WithFile
<1>2. /\ flock'[k] = NoLoop /\ \A i \in Inode \ {k} : flock'[i] = flock[i]
      /\ fd'[l] = 0 /\ \A m \in Loop \ {l} : fd'[m] = fd[m]
      /\ pc'[l] = (IF pc[l] = "verify" THEN "new" ELSE "clear")
      /\ \A m \in Loop \ {l} : pc'[m] = pc[m]
      /\ \A m \in Loop \ {l} : pin'[m] = pin[m]
      /\ pin'[l] = (IF pc[l] = "verify" THEN pin[l] ELSE NoLoop)
  BY <1>1 DEF TypeOK
<1>3. pc[l] = "verify" => flock[k] = l
  BY DEF Cores, Threads, Locking
<1>4. \A c \in Loop : file[c] # k
  <2>1. CASE pc[l] = "verify"
    BY <1>1, <1>3, <2>1 DEF Cores, Open, KeptBy, AtGate, Inode
  <2>2. CASE pc[l] = "unlock"
    BY <2>2 DEF Cores, Unlocking
  <2> QED
    BY <2>1, <2>2
<1>5. ASSUME NEW m \in Loop, m # l, pc[m] \in Locking \cup {"unlock"}
      PROVE  fd[m] \in Inode /\ fd[m] # k
  <2>1. fd[m] \in Inode
    BY <1>5 DEF Cores, Threads, WithFile, Locking
  <2>2. CASE pc[m] \in Locking
    <3>1. flock[fd[m]] = m
      BY <2>2 DEF Cores, Threads
    <3> QED
      BY <1>1, <1>3, <1>5, <2>1, <2>2, <3>1 DEF Cores, Unlocking, KeptBy, Locking, AtGate
  <2>3. CASE pc[m] = "unlock"
    BY <1>1, <1>3, <1>5, <2>1, <2>3 DEF Cores, Unlocking, KeptBy, AtGate
  <2> QED
    BY <1>5, <2>1, <2>2, <2>3
<1>6. \A i \in Inode, m \in Loop : KeptBy(i, m) /\ i # k => KeptBy(i, m)'
  BY <1>2, StillKept DEF AtGate
<1>7. \A i \in Inode : i # k /\ pc[l] = "verify" => flock[i] # l
  <2> SUFFICES ASSUME NEW i \in Inode, i # k, pc[l] = "verify", flock[i] = l PROVE FALSE
    OBVIOUS
  <2>1. \/ \E m \in Loop : pc[m] = "unlock" /\ fd[m] = i
        \/ \E c \in Loop : file[c] = i
    BY DEF Cores, Owned
  <2> QED
    BY <2>1 DEF Cores, Open, Unlocking, KeptBy, AtGate, Inode
<1>8. Threads'
  BY <1>1, <1>2, <1>5, <1>7 DEF Cores, Threads, AtGate, Locking, WithFile, Admitting
<1>9. Unborn' /\ Local'
  BY <1>2 DEF Cores, Unborn, Local, AtGate
<1>10. Open' /\ Closing'
  BY <1>2, <1>4, <1>6 DEF Cores, Open, Closing
<1>11. Unlocking'
  BY <1>2, <1>5, <1>6 DEF Cores, Unlocking
<1>12. Safe'
  BY <1>2 DEF Cores, Safe, Secure, Admitted, Dying
<1>13. Owned'
  BY <1>2, <1>7 DEF Cores, Owned, Locking
<1> QED
  BY <1>8, <1>9, <1>10, <1>11, <1>12, <1>13 DEF Cores

\* A new core gets the file whose lock its maker holds.
LEMMA RegisterStep ==
    ASSUME TypeOK, TypeOK', Cores, NEW l \in Loop, Register(l)
    PROVE  Cores'
<1> USE Facts
<1>0. PICK k \in {fd[l]} : TRUE
  OBVIOUS
<1> USE <1>0
<1>1. /\ pc[l] = "register" /\ k \in Inode /\ flock[k] = l
      /\ file[l] = 0 /\ core[l] = NoLoop
      /\ \A m \in Loop : core[m] # l /\ pin[m] # l
  BY DEF Register, Cores, Threads, Unborn, WithFile, Locking, AtGate, Admitting
<1>2. /\ UNCHANGED <<flock, late>>
      /\ pc'[l] = "start" /\ core'[l] = l /\ file'[l] = k /\ pin'[l] = NoLoop /\ fd'[l] = 0
      /\ \A m \in Loop \ {l} : /\ pc'[m] = pc[m] /\ core'[m] = core[m] /\ file'[m] = file[m]
                               /\ pin'[m] = pin[m] /\ fd'[m] = fd[m]
      /\ registry'[ProcOf[l]] = l
      /\ \A p \in Process \ {ProcOf[l]} : registry'[p] = registry[p]
  BY DEF Register, Goto, TypeOK
<1>3. \A c \in Loop : file[c] # k
  BY <1>1 DEF Cores, Open, KeptBy, AtGate, Inode
<1>4. \A m \in Loop : pc[m] = "unlock" => fd[m] # k
  BY <1>1 DEF Cores, Unlocking, KeptBy, AtGate
<1>5. \A i \in Inode, m \in Loop : KeptBy(i, m) => KeptBy(i, m)'
  BY <1>2, StillKept DEF AtGate
<1>6. KeptBy(k, l)'
  BY <1>1, <1>2 DEF KeptBy, AtGate
<1>7. Threads'
  BY <1>1, <1>2 DEF Cores, Threads, AtGate, Locking, WithFile, Admitting
<1>8. Unborn'
  BY <1>1, <1>2 DEF Cores, Unborn, AtGate
<1>9. Local'
  BY <1>2 DEF Cores, Local
<1>10. Open'
  <2>1. ASSUME NEW d \in Loop, NEW m \in Loop, d # l,
               core[m] = d \/ (pc[m] = "closing" /\ pin[m] = d)
        PROVE  core'[m] = d \/ (pc'[m] = "closing" /\ pin'[m] = d)
    BY <1>1, <1>2, <2>1
  <2> SUFFICES ASSUME NEW c \in Loop, file'[c] # 0
               PROVE  /\ KeptBy(file[c], c)'
                      /\ \A d \in Loop : file'[d] = file'[c] => d = c
                      /\ \E m \in Loop : core'[m] = c \/ (pc'[m] = "closing" /\ pin'[m] = c)
    BY DEF Open
  <2>2. CASE c = l
    BY <1>2, <1>3, <1>6, <2>2
  <2>3. CASE c # l
    <3>1. file'[c] = file[c] /\ file[c] # 0 /\ file[c] # k
      BY <1>2, <1>3, <2>3
    <3>2. KeptBy(file[c], c)'
      BY <1>5, <3>1 DEF Cores, Open
    <3> QED
      BY <1>2, <2>1, <2>3, <3>1, <3>2 DEF Cores, Open
  <2> QED
    BY <2>2, <2>3
<1>11. Closing'
  BY <1>1, <1>2 DEF Cores, Closing
<1>12. Unlocking'
  BY <1>2, <1>4, <1>5 DEF Cores, Unlocking, Threads, WithFile
<1>13. Safe'
  BY <1>1, <1>2 DEF Cores, Safe, Secure, Admitted, Dying, Inode
<1>14. Owned'
  <2> SUFFICES ASSUME NEW i \in Inode, flock[i] # NoLoop
               PROVE  \/ pc'[flock[i]] \in Locking /\ fd'[flock[i]] = i
                      \/ \E m \in Loop : pc'[m] = "unlock" /\ fd'[m] = i
                      \/ \E d \in Loop : file'[d] = i
    BY <1>2 DEF Owned
  <2>1. \/ pc[flock[i]] \in Locking /\ fd[flock[i]] = i
        \/ \E m \in Loop : pc[m] = "unlock" /\ fd[m] = i
        \/ \E d \in Loop : file[d] = i
    BY DEF Cores, Owned
  <2>2. \A d \in Loop : file[d] = i => file'[d] = i
    BY <1>1, <1>2 DEF Inode
  <2> QED
    BY <1>1, <1>2, <2>1, <2>2 DEF Locking
<1> QED
  BY <1>7, <1>8, <1>9, <1>10, <1>11, <1>12, <1>13, <1>14 DEF Cores

\* A handle is dropped: with the last one on an open core, this thread closes it.
LEMMA ReleaseStep ==
    ASSUME TypeOK, TypeOK', Cores, NEW l \in Loop, Release(l)
    PROVE  Cores'
<1> USE Facts
<1> DEFINE c == core[l]
           closes == Last(l) /\ file[c] # 0
<1>1. /\ pc[l] = "release" /\ UNCHANGED <<flock, registry, fd, file, late>>
      /\ core'[l] = NoLoop
      /\ \A m \in Loop \ {l} : pc'[m] = pc[m] /\ core'[m] = core[m] /\ pin'[m] = pin[m]
      /\ closes => pc'[l] = "closing" /\ pin'[l] = c /\ c # NoLoop
      /\ ~closes => pc'[l] = "clear" /\ pin'[l] = pin[l]
  BY DEF Release, Goto, TypeOK, Last
<1>2. closes => \A m \in Loop : (core[m] = c => m = l) /\ pin[m] # c
  BY DEF Last
<1>3. \A i \in Inode, m \in Loop : KeptBy(i, m) => KeptBy(i, m)'
  BY <1>1, StillKept DEF AtGate
<1>4. Threads'
  BY <1>1 DEF Cores, Threads, AtGate, Locking, WithFile, Admitting
<1>5. Unborn' /\ Local'
  BY <1>1 DEF Cores, Unborn, Local, AtGate
<1>6. Open'
  <2> SUFFICES ASSUME NEW d \in Loop, file[d] # 0
               PROVE  \E m \in Loop : core'[m] = d \/ (pc'[m] = "closing" /\ pin'[m] = d)
    BY <1>1, <1>3 DEF Cores, Open
  <2>1. PICK m \in Loop : core[m] = d \/ (pc[m] = "closing" /\ pin[m] = d)
    BY DEF Cores, Open
  <2>2. CASE m # l
    BY <1>1, <2>1, <2>2
  <2>3. CASE m = l
    <3>1. c = d
      BY <1>1, <2>1, <2>3
    <3>2. CASE closes
      BY <1>1, <3>1, <3>2
    <3>3. CASE ~closes
      <4>1. PICK n \in Loop : (n # l /\ core[n] = d) \/ pin[n] = d
        BY <3>1, <3>3 DEF Last
      <4>2. pin[n] = d => pc[n] = "closing"
        BY DEF Cores, Closing
      <4> QED
        BY <1>1, <4>1, <4>2
    <3> QED
      BY <3>2, <3>3
  <2> QED
    BY <2>2, <2>3
<1>7. Closing'
  BY <1>1, <1>2 DEF Cores, Closing
<1>8. Unlocking' /\ Owned'
  BY <1>1, <1>3 DEF Cores, Unlocking, Owned, Locking, Threads, WithFile
<1>9. Safe'
  <2> SUFFICES ASSUME NEW m \in Loop, m \in Secure' PROVE file[core[m]] # 0 /\ ~Dying(core[m])'
                                                        /\ core'[m] = core[m]
    BY <1>1 DEF Safe, Secure, Admitted
  <2>1. m # l /\ core'[m] = core[m] /\ m \in Secure
    BY <1>1 DEF Secure, Admitted
  <2>2. file[core[m]] # 0 /\ ~Dying(core[m])
    BY <2>1 DEF Cores, Safe
  <2>3. ~Dying(core[m])'
    BY <1>1, <1>2, <2>1, <2>2 DEF Dying
  <2> QED
    BY <2>1, <2>2, <2>3
<1> QED
  BY <1>4, <1>5, <1>6, <1>7, <1>8, <1>9 DEF Cores

\* close() takes the file of a core that no loop came in time for.
LEMMA TakeFileStep ==
    ASSUME TypeOK, TypeOK', Cores, NEW l \in Loop, TakeFile(l)
    PROVE  Cores'
<1> USE Facts
<1> DEFINE c == pin[l]
<1>1. pc[l] = "closing" /\ c \in Loop /\ file[c] # 0 /\ file[c] \in Inode /\ ProcOf[c] = ProcOf[l]
  BY DEF TakeFile, Cores, Closing, Local
<1>2. /\ UNCHANGED <<flock, registry, core, pin, late>>
      /\ pc'[l] = "unlock" /\ fd'[l] = file[c] /\ file'[c] = 0
      /\ \A m \in Loop \ {l} : pc'[m] = pc[m] /\ fd'[m] = fd[m]
      /\ \A m \in Loop \ {c} : file'[m] = file[m]
  BY <1>1 DEF TakeFile, Goto, TypeOK
<1>3. \A i \in Inode, m \in Loop : KeptBy(i, m) => KeptBy(i, m)'
  BY <1>2, StillKept DEF AtGate
<1>4. PICK k \in {file[c]} : TRUE
  OBVIOUS
<1>12. KeptBy(k, l)'
  <2>1. KeptBy(k, c)'
    BY <1>1, <1>2, <1>3, <1>4 DEF Cores, Open
  <2> QED
    BY <1>1, <1>2, <2>1 DEF KeptBy
<1>5. Threads'
  BY <1>1, <1>2 DEF Cores, Threads, AtGate, Locking, WithFile, Admitting
<1>6. Unborn' /\ Local'
  BY <1>1, <1>2 DEF Cores, Unborn, Local, AtGate
<1>7. Open'
  <2> SUFFICES ASSUME NEW d \in Loop, file'[d] # 0
               PROVE  /\ KeptBy(file[d], d)' /\ file'[d] = file[d]
                      /\ \A e \in Loop : file'[e] = file'[d] => e = d
                      /\ \E m \in Loop : core'[m] = d \/ (pc'[m] = "closing" /\ pin'[m] = d)
    BY DEF Open
  <2>1. d # c /\ file'[d] = file[d]
    BY <1>2
  <2>2. PICK m \in Loop : core[m] = d \/ (pc[m] = "closing" /\ pin[m] = d)
    BY <2>1 DEF Cores, Open
  <2>3. core'[m] = d \/ (pc'[m] = "closing" /\ pin'[m] = d)
    BY <1>2, <2>1, <2>2
  <2>4. KeptBy(file[d], d)'
    BY <1>3, <2>1 DEF Cores, Open
  <2>5. \A e \in Loop : file'[e] = file'[d] => e = d
    BY <1>2, <2>1 DEF Cores, Open
  <2> QED
    BY <2>1, <2>3, <2>4, <2>5
<1>8. Closing'
  BY <1>1, <1>2 DEF Cores, Closing
<1>9. Unlocking'
  <2> SUFFICES ASSUME NEW m \in Loop, pc'[m] = "unlock"
               PROVE  /\ KeptBy(fd[m], m)'
                      /\ \A d \in Loop : file'[d] # fd'[m]
                      /\ \A n \in Loop : pc'[n] = "unlock" /\ fd'[n] = fd'[m] => n = m
    BY DEF Unlocking
  <2>1. CASE m = l
    BY <1>1, <1>2, <1>4, <1>12, <2>1 DEF Cores, Open, Unlocking
  <2>2. CASE m # l
    <3>1. pc[m] = "unlock" /\ fd'[m] = fd[m] /\ fd[m] \in Inode /\ KeptBy(fd[m], m)
      BY <1>2, <2>2 DEF Cores, Unlocking, Threads, WithFile
    <3>2. \A d \in Loop : file[d] # fd[m] /\ file'[d] \in {0, file[d]}
      BY <1>2, <3>1 DEF Cores, Unlocking
    <3>3. \A d \in Loop : file'[d] # fd'[m]
      BY <3>1, <3>2 DEF Inode
    <3> QED
      BY <1>1, <1>2, <1>3, <2>2, <3>1, <3>2, <3>3 DEF Cores, Unlocking
  <2> QED
    BY <2>1, <2>2
<1>10. Safe'
  <2> SUFFICES ASSUME NEW m \in Loop, m \in Secure
               PROVE  file'[core[m]] # 0 /\ ~Dying(core[m])'
    BY <1>2 DEF Safe, Secure, Admitted
  <2>1. file[core[m]] # 0 /\ ~Dying(core[m]) /\ core[m] \in Loop
    BY DEF Cores, Safe, Secure, Admitted
  <2>2. core[m] # c
    BY <1>1, <2>1 DEF Dying
  <2> QED
    BY <1>2, <2>1, <2>2 DEF Dying
<1>11. Owned'
  <2> SUFFICES ASSUME NEW i \in Inode, flock[i] # NoLoop
               PROVE  \/ pc'[flock[i]] \in Locking /\ fd'[flock[i]] = i
                      \/ \E m \in Loop : pc'[m] = "unlock" /\ fd'[m] = i
                      \/ \E d \in Loop : file'[d] = i
    BY <1>2 DEF Owned
  <2>1. \/ pc[flock[i]] \in Locking /\ fd[flock[i]] = i
        \/ \E m \in Loop : pc[m] = "unlock" /\ fd[m] = i
        \/ \E d \in Loop : file[d] = i
    BY DEF Cores, Owned
  <2> QED
    BY <1>1, <1>2, <2>1 DEF Locking
<1> QED
  BY <1>5, <1>6, <1>7, <1>8, <1>9, <1>10, <1>11 DEF Cores

\* A process dies with its cores and its locks; those of the others stay as they are.
LEMMA CrashStep ==
    ASSUME TypeOK, TypeOK', Cores, NEW p \in Process, Crash(p)
    PROVE  Cores'
<1> USE Facts
<1>1. /\ \A m \in Loop : ProcOf[m] = p =>
            pc'[m] = "dead" /\ fd'[m] = 0 /\ core'[m] = NoLoop /\ file'[m] = 0 /\ pin'[m] = NoLoop
      /\ \A m \in Loop : ProcOf[m] # p =>
            /\ pc'[m] = pc[m] /\ fd'[m] = fd[m] /\ core'[m] = core[m] /\ file'[m] = file[m]
            /\ pin'[m] = pin[m]
      /\ \A i \in Inode : flock'[i] = (IF flock[i] \in Loop /\ ProcOf[flock[i]] = p
                                        THEN NoLoop ELSE flock[i])
      /\ registry'[p] = NoLoop /\ \A q \in Process \ {p} : registry'[q] = registry[q]
      /\ late' = late
  BY DEF Crash, TypeOK
<1>2. \A i \in Inode, m \in Loop : KeptBy(i, m) /\ ProcOf[m] # p => KeptBy(i, m)'
  BY <1>1 DEF KeptBy
<1>3. Threads'
  <2>1. \A m \in Loop : pc'[m] \in WithFile => fd'[m] # 0
    BY <1>1 DEF Cores, Threads, WithFile
  <2>2. ASSUME NEW m \in Loop, pc'[m] \in Locking PROVE flock'[fd'[m]] = m
    <3>1. pc[m] \in Locking /\ fd'[m] = fd[m] /\ ProcOf[m] # p
      BY <1>1, <2>2 DEF Locking
    <3>2. fd[m] \in Inode /\ flock[fd[m]] = m
      BY <3>1 DEF Cores, Threads, WithFile, Locking
    <3> QED
      BY <1>1, <3>1, <3>2
  <2>3. \A i \in Inode : flock'[i] # NoLoop => pc'[flock'[i]] \notin AtGate \ Locking
    BY <1>1 DEF Cores, Threads
  <2>4. \A m \in Loop : core'[m] # NoLoop => pc'[m] \in Admitting
    BY <1>1 DEF Cores, Threads
  <2> QED
    BY <2>1, <2>2, <2>3, <2>4 DEF Threads
<1>4. Unborn' /\ Local'
  BY <1>1 DEF Cores, Unborn, Local, AtGate
<1>5. Open'
  <2> SUFFICES ASSUME NEW c \in Loop, file'[c] # 0
               PROVE  /\ KeptBy(file[c], c)' /\ file'[c] = file[c]
                      /\ \A d \in Loop : file'[d] = file'[c] => d = c
                      /\ \E m \in Loop : core'[m] = c \/ (pc'[m] = "closing" /\ pin'[m] = c)
    BY DEF Open
  <2>1. ProcOf[c] # p /\ file'[c] = file[c] /\ file[c] # 0
    BY <1>1
  <2>2. PICK m \in Loop : core[m] = c \/ (pc[m] = "closing" /\ pin[m] = c)
    BY <2>1 DEF Cores, Open
  <2>3. ProcOf[m] = ProcOf[c]
    BY <2>2 DEF Cores, Local
  <2>4. core'[m] = c \/ (pc'[m] = "closing" /\ pin'[m] = c)
    BY <1>1, <2>1, <2>2, <2>3
  <2>5. KeptBy(file[c], c)'
    BY <1>2, <2>1 DEF Cores, Open
  <2>6. \A d \in Loop : file'[d] = file'[c] => d = c
    BY <1>1, <2>1 DEF Cores, Open
  <2> QED
    BY <2>1, <2>4, <2>5, <2>6
<1>6. Closing'
  BY <1>1 DEF Cores, Closing, Local
<1>7. Unlocking'
  <2> SUFFICES ASSUME NEW m \in Loop, pc'[m] = "unlock"
               PROVE  /\ KeptBy(fd[m], m)'
                      /\ \A d \in Loop : file'[d] # fd'[m]
                      /\ \A n \in Loop : pc'[n] = "unlock" /\ fd'[n] = fd'[m] => n = m
    BY DEF Unlocking
  <2>1. pc[m] = "unlock" /\ fd'[m] = fd[m] /\ fd[m] \in Inode /\ ProcOf[m] # p
    BY <1>1 DEF Cores, Threads, WithFile
  <2>2. \A d \in Loop : file[d] # fd[m] /\ file'[d] \in {0, file[d]}
    BY <1>1, <2>1 DEF Cores, Unlocking
  <2>3. \A d \in Loop : file'[d] # fd'[m]
    BY <2>1, <2>2 DEF Inode
  <2>4. \A n \in Loop : pc'[n] = "unlock" => pc[n] = "unlock" /\ fd'[n] = fd[n]
    BY <1>1
  <2> QED
    BY <1>2, <2>1, <2>3, <2>4 DEF Cores, Unlocking
<1>8. Safe'
  <2> SUFFICES ASSUME NEW m \in Loop, m \in Secure'
               PROVE  file'[core'[m]] # 0 /\ ~Dying(core[m])'
    BY DEF Safe, Secure, Admitted
  <2>1. m \in Secure /\ ProcOf[m] # p /\ core'[m] = core[m] /\ core[m] \in Loop
    BY <1>1 DEF Secure, Admitted
  <2>2. file[core[m]] # 0 /\ ~Dying(core[m]) /\ ProcOf[core[m]] # p
    BY <2>1 DEF Cores, Safe, Local
  <2> QED
    BY <1>1, <2>1, <2>2 DEF Dying
<1>9. Owned'
  <2> SUFFICES ASSUME NEW i \in Inode, flock'[i] # NoLoop
               PROVE  \/ pc'[flock'[i]] \in Locking /\ fd'[flock'[i]] = i
                      \/ \E m \in Loop : pc'[m] = "unlock" /\ fd'[m] = i
                      \/ \E d \in Loop : file'[d] = i
    BY DEF Owned
  <2>1. flock'[i] = flock[i] /\ flock[i] \in Loop /\ ProcOf[flock[i]] # p
    BY <1>1
  <2>2. \/ pc[flock[i]] \in Locking /\ fd[flock[i]] = i
        \/ \E m \in Loop : pc[m] = "unlock" /\ fd[m] = i
        \/ \E d \in Loop : file[d] = i
    BY <2>1 DEF Cores, Owned
  <2>3. \A m \in Loop : pc[m] = "unlock" /\ fd[m] = i => ProcOf[m] # p
    BY <2>1 DEF Cores, Unlocking, KeptBy
  <2>4. \A d \in Loop : file[d] = i => ProcOf[d] # p
    BY <2>1 DEF Cores, Open, KeptBy, Inode
  <2> QED
    BY <1>1, <2>1, <2>2, <2>3, <2>4
<1> QED
  BY <1>3, <1>4, <1>5, <1>6, <1>7, <1>8, <1>9 DEF Cores

\* Every step keeps the cores, their files and their locks in order.
LEMMA CoresStep == TypeOK /\ Cores /\ [Next]_vars => Cores'
<1> SUFFICES ASSUME TypeOK, Cores, [Next]_vars PROVE Cores'
  OBVIOUS
<1>1. TypeOK'
  BY TypeStep DEF Cores
<1> USE <1>1
<1>2. \A m \in Loop : pc[m] \in PC
  BY DEF TypeOK
<1>3. ASSUME NEW l \in Loop, OpenFile(l) PROVE Cores'
  <2>1. path' # 0
    BY <1>3, Bounds DEF OpenFile, Create, TypeOK
  <2> QED
    BY <1>3, <2>1, QuietStep DEF OpenFile, Goto, TypeOK, WithFile, Locking, Admitting, AtGate, slots
<1>4. ASSUME NEW l \in Loop, OpenFails(l) \/ BusySibling(l) \/ Poll(l) \/ Busy(l)
      PROVE  Cores'
  BY <1>4, QuietStep
     DEF OpenFails, BusySibling, Poll, Busy, Goto, TypeOK, WithFile, Locking, Admitting, AtGate,
         slots
<1>5. ASSUME NEW l \in Loop, TryLock(l) PROVE Cores'
  <2>1. CASE flock[fd[l]] # NoLoop
    BY <1>5, <2>1, QuietStep
       DEF TryLock, Goto, TypeOK, WithFile, Locking, Admitting, AtGate, slots
  <2> QED
    BY <1>5, <2>1, TryLockStep
<1>6. ASSUME NEW l \in Loop, Advertise(l) \/ Finish(l) \/ ClearProject(l) \/ ClearMarker(l)
      PROVE  Cores'
  BY <1>6, QuietStep
     DEF Advertise, Finish, ClearProject, ClearMarker, Goto, TypeOK, WithFile, Locking, Admitting,
         AtGate, slots
<1>7. ASSUME NEW l \in Loop, Verify(l) PROVE Cores'
  <2>1. CASE fd[l] # path
    <3>1. pin' = [pin EXCEPT ![l] = @]
      BY <1>7 DEF Verify, slots, TypeOK
    <3> QED
      BY <1>7, <2>1, <3>1, UnlockStep DEF Verify, Goto, slots
  <2> QED
    BY <1>7, <2>1, VerifiedStep
<1>8. ASSUME NEW l \in Loop, Unlock(l) PROVE Cores'
  BY <1>8, UnlockStep DEF Unlock, Goto
<1>9. CASE UNCHANGED <<flock, registry, pc, fd, core, file, pin, late>>
  BY <1>9 DEF Cores, Threads, Unborn, Local, Open, Closing, Unlocking, Safe, Owned, KeptBy, Secure,
     Admitted, Dying
<1> QED
  BY <1>3, <1>4, <1>5, <1>6, <1>7, <1>8, <1>9, CheckRegistryStep, RegisterStep, ReleaseStep,
     TakeFileStep, CrashStep DEF Next, Acquire, Ending, ReadStale, UnlinkStale, vars, slots

\* While nobody runs without a slot, no file is unlinked and no second one is made.
LEMMA OneFileStep ==
  TypeOK /\ Cores /\ (~ungated => OneFile) /\ [Next]_vars => (~ungated' => OneFile')
<1> SUFFICES ASSUME TypeOK, Cores, ~ungated => OneFile, [Next]_vars, ~ungated'
             PROVE  OneFile'
  OBVIOUS
<1> USE Bounds, Facts DEF OneFile, Admitting, NoMarker, slots
<1>1. ~ungated /\ OneFile
  BY DEF Next, Acquire, Ending, vars, CheckRegistry, OpenFile, OpenFails, TryLock,
     BusySibling, Poll, Busy, Verify, Register, Advertise, Finish, Release, TakeFile, Unlock,
     ClearProject, ClearMarker, Crash, ReadStale, UnlinkStale
<1>2. ASSUME NEW l \in Loop, CheckRegistry(l) PROVE OneFile'
  BY <1>1, <1>2 DEF CheckRegistry, Goto, TypeOK
<1>3. ASSUME NEW l \in Loop, OpenFile(l) PROVE OneFile'
  BY <1>1, <1>3 DEF OpenFile, Goto, Create, TypeOK
<1>4. ASSUME NEW l \in Loop, OpenFails(l) PROVE OneFile'
  BY <1>4 DEF OpenFails
<1>5. ASSUME NEW l \in Loop, TryLock(l) PROVE OneFile'
  BY <1>1, <1>5 DEF TryLock, Goto, TypeOK
<1>6. ASSUME NEW l \in Loop, BusySibling(l) \/ Poll(l) PROVE OneFile'
  BY <1>1, <1>6 DEF BusySibling, Poll, Goto, TypeOK
<1>7. ASSUME NEW l \in Loop, Busy(l) PROVE OneFile'
  BY <1>1, <1>7 DEF Busy, Goto, TypeOK
<1>8. ASSUME NEW l \in Loop, Verify(l) PROVE OneFile'
  BY <1>1, <1>8 DEF Verify, Goto, TypeOK
<1>9. ASSUME NEW l \in Loop, Register(l) PROVE OneFile'
  BY <1>1, <1>9 DEF Register, Goto, TypeOK
<1>10. ASSUME NEW l \in Loop, Advertise(l) PROVE OneFile'
  <2>1. core[l] # NoLoop
    BY <1>1, <1>10 DEF Advertise
  <2> QED
    BY <1>1, <1>10, <2>1 DEF Advertise, Goto, TypeOK
<1>11. ASSUME NEW l \in Loop, Finish(l) PROVE OneFile'
  BY <1>1, <1>11 DEF Finish, Goto, TypeOK
<1>12. ASSUME NEW l \in Loop, Release(l) PROVE OneFile'
  BY <1>1, <1>12 DEF Release, Goto, TypeOK
<1>13. ASSUME NEW l \in Loop, TakeFile(l) PROVE OneFile'
  <2>1. pin[l] \in Loop
    BY <1>13 DEF TakeFile, Cores, Closing
  <2> QED
    BY <1>1, <1>13, <2>1 DEF TakeFile, Goto, TypeOK
<1>14. ASSUME NEW l \in Loop, Unlock(l) PROVE OneFile'
  BY <1>1, <1>14 DEF Unlock, Goto, TypeOK
<1>15. ASSUME NEW l \in Loop, ClearProject(l) \/ ClearMarker(l) PROVE OneFile'
  BY <1>1, <1>15 DEF ClearProject, ClearMarker, Goto, TypeOK
<1>16. ASSUME NEW p \in Process, Crash(p) PROVE OneFile'
  BY <1>1, <1>16 DEF Crash, TypeOK
<1>17. CASE ReadStale \/ UnlinkStale \/ UNCHANGED vars
  BY <1>1, <1>17 DEF ReadStale, UnlinkStale, vars
<1> QED
  BY <1>2, <1>3, <1>4, <1>5, <1>6, <1>7, <1>8, <1>9, <1>10, <1>11, <1>12, <1>13, <1>14, <1>15,
     <1>16, <1>17 DEF Next, Acquire, Ending

\* Cores, files, locks and registries agree in every state of the gate, and on
\* the one file at the path as long as nobody went ahead without a slot.
THEOREM GateInvariant == Spec => []Inductive
<1>1. Inductive /\ [Next]_vars => Inductive'
  BY TypeStep, CoresStep, OneFileStep DEF Inductive, Cores
<1>2. QED
  BY <1>1, InitInductive, PTL DEF Spec

\* Lock files, registries and loops keep their types for ever.
THEOREM AdmissionTypes == Spec => []TypeOK
<1>1. Inductive => TypeOK
  BY DEF Inductive
<1>2. QED
  BY <1>1, GateInvariant, PTL

\* Two admitted loops have open cores on the one file, which is one core.
LEMMA InductiveExcludes == Inductive => GatedExclusive
<1> SUFFICES ASSUME Inductive, ~ungated, NEW l \in Secure, NEW m \in Secure
             PROVE  ProcOf[l] = ProcOf[m]
  BY DEF GatedExclusive, SlotExclusive
<1> USE Facts DEF Inductive
<1>1. core[l] \in Loop /\ core[m] \in Loop /\ l \in Loop /\ m \in Loop
  BY DEF Secure, Admitted
<1>2. file[core[l]] # 0 /\ file[core[m]] # 0
  BY DEF Cores, Safe
<1>3. file[core[l]] = file[core[m]]
  BY <1>1, <1>2 DEF OneFile
<1>4. core[l] = core[m]
  BY <1>1, <1>2, <1>3 DEF Cores, Open
<1> QED
  BY <1>1, <1>4 DEF Cores, Local

\* acquire_project_slot() never admits loops of two processes to one project,
\* for any number of them, across any crashes, while every loop is gated - but
\* for loops that a sibling's core was handed to while it was being closed.
THEOREM GateExcludes == Spec => []GatedExclusive
  BY GateInvariant, InductiveExcludes, PTL

\* An admitted loop's core stays open to its release, also with other loops
\* ungated, and its lock stays on the file the path names while there are none.
THEOREM LockStaysOnPath == Spec => []SlotIsOnPath
<1>1. Inductive => SlotIsOnPath
  <2> SUFFICES ASSUME Inductive, NEW l \in Secure
               PROVE  /\ file[core[l]] # 0
                      /\ ~ungated => path = file[core[l]] /\ flock[path] # NoLoop
                                     /\ ProcOf[flock[path]] = ProcOf[l]
    BY DEF SlotIsOnPath
  <2> USE Facts DEF Inductive
  <2>1. core[l] \in Loop /\ l \in Loop
    BY DEF Secure, Admitted
  <2>2. file[core[l]] # 0 /\ ProcOf[core[l]] = ProcOf[l]
    BY <2>1 DEF Cores, Safe, Local
  <2>3. KeptBy(file[core[l]], core[l])
    BY <2>1, <2>2 DEF Cores, Open
  <2> QED
    BY <2>1, <2>2, <2>3 DEF OneFile, KeptBy
<1>2. QED
  BY <1>1, GateInvariant, PTL

\* acquire_project_slot() and _SlotCore.close(): no flock outlives its use, in
\* every file ever made at the path, also when loops go ahead ungated, files
\* are unlinked under their owners and processes die anywhere.
THEOREM NothingLeaks == Spec => []NoLeakedLock
<1>1. Inductive => NoLeakedLock
  <2> SUFFICES ASSUME Inductive, NEW i \in Inode, flock[i] # NoLoop,
                      ~(pc[flock[i]] \in {"verify", "register"} /\ fd[flock[i]] = i),
                      ~(\E l \in Loop : pc[l] = "unlock" /\ fd[l] = i)
               PROVE  \/ \E l \in Loop : pc[l] = "closing" /\ file[pin[l]] = i
                      \/ \E l \in Admitted : file[core[l]] = i /\ ProcOf[l] = ProcOf[flock[i]]
    BY DEF NoLeakedLock
  <2> USE Facts DEF Inductive
  <2>1. PICK c \in Loop : file[c] = i
    BY DEF Cores, Owned, Locking
  <2>2. file[c] # 0 /\ i \in Inode
    BY <2>1 DEF Inode
  <2>3. ProcOf[flock[i]] = ProcOf[c]
    BY <2>1, <2>2 DEF Cores, Open, KeptBy
  <2>4. PICK m \in Loop : core[m] = c \/ (pc[m] = "closing" /\ pin[m] = c)
    BY <2>1, <2>2 DEF Cores, Open
  <2>5. core[m] = c => m \in Admitted /\ ProcOf[m] = ProcOf[c]
    BY <2>4 DEF Cores, Local, Admitted
  <2> QED
    BY <2>1, <2>3, <2>4, <2>5
<1>2. QED
  BY <1>1, GateInvariant, PTL

-----------------------------------------------------------------------------
(* The gate implements ProjectSlot.                                        *)

\* Before any loop starts, the slot has no members.
LEMMA SlotInit == Init => Slot!Init
  BY DEF Init, Slot!Init, Admitted, Secure

\* Every step of the gate joins, leaves or kills members, or abandons the slot.
LEMMA SlotStep ==
  Inductive /\ Inductive' /\ [Next]_vars
    => [Slot!Next]_(IF ungated THEN {} ELSE Secure)
<1> SUFFICES ASSUME Inductive, Inductive', [Next]_vars
             PROVE  [Slot!Next]_(IF ungated THEN {} ELSE Secure)
  OBVIOUS
<1> USE DEF slots
<1>1. ungated => ungated'
  BY DEF Next, Acquire, Ending, vars, CheckRegistry, OpenFile, OpenFails, TryLock,
     BusySibling, Poll, Busy, Verify, Register, Advertise, Finish, Release, TakeFile, Unlock,
     ClearProject, ClearMarker, Crash, ReadStale, UnlinkStale
<1>2. CASE ungated'
  BY <1>1, <1>2 DEF Slot!Next, Slot!Abandon
<1>3. CASE ~ungated' /\ Secure' = Secure
  BY <1>1, <1>3
<1>4. ASSUME ~ungated', NEW l \in Loop, Secure' = Secure \cup {l} PROVE Slot!Next
  <2>1. \A m \in Secure : ProcOf[m] = ProcOf[l]
    <3>1. GatedExclusive'
      BY InductiveExcludes, PTL
    <3>2. QED
      BY <1>4, <3>1 DEF GatedExclusive, SlotExclusive
  <2>2. QED
    BY <1>1, <1>4, <2>1 DEF Slot!Next, Slot!Join
<1>5. ASSUME ~ungated', NEW l \in Loop, CheckRegistry(l)
      PROVE  [Slot!Next]_(IF ungated THEN {} ELSE Secure)
  <2>1. \/ UNCHANGED <<core, late>>
        \/ /\ \E c \in Loop : core' = [core EXCEPT ![l] = c]
           /\ late' \in {late, late \cup {l}}
    BY <1>5, Facts DEF CheckRegistry, Deref, Inductive
  <2>2. core[l] = NoLoop
    BY <1>5 DEF CheckRegistry, Inductive, Cores, Threads, Admitting
  <2>3. Secure' = Secure \/ Secure' = Secure \cup {l}
    BY <2>1, <2>2, Facts DEF Secure, Admitted, Inductive, TypeOK
  <2> QED
    BY <1>3, <1>4, <1>5, <2>3
<1>6. ASSUME ~ungated', NEW l \in Loop, Register(l)
      PROVE  [Slot!Next]_(IF ungated THEN {} ELSE Secure)
  <2>1. Secure' = Secure \/ Secure' = Secure \cup {l}
    BY <1>6, Facts DEF Register, Inductive, TypeOK, Secure, Admitted
  <2>2. QED
    BY <1>3, <1>4, <1>6, <2>1
<1>7. ASSUME ~ungated', NEW l \in Loop, Release(l)
      PROVE  [Slot!Next]_(IF ungated THEN {} ELSE Secure)
  <2>1. Secure' = Secure \ {l}
    BY <1>7 DEF Release, Inductive, TypeOK, Secure, Admitted
  <2>2. QED
    BY <1>1, <1>7, <2>1 DEF Slot!Next, Slot!Leave
<1>8. ASSUME ~ungated', NEW p \in Process, Crash(p)
      PROVE  [Slot!Next]_(IF ungated THEN {} ELSE Secure)
  <2>1. Secure' = {m \in Secure : ProcOf[m] # p}
    BY <1>8 DEF Crash, Secure, Admitted
  <2>2. QED
    BY <1>1, <1>8, <2>1 DEF Slot!Next, Slot!Die
<1>9. CASE UNCHANGED <<core, late>>
  <2>1. Secure' = Secure
    BY <1>9 DEF Secure, Admitted
  <2> QED
    BY <1>2, <1>3, <2>1
<1>10. QED
  BY <1>2, <1>5, <1>6, <1>7, <1>8, <1>9
     DEF Next, Acquire, Ending, vars, OpenFile, OpenFails, TryLock, BusySibling, Poll, Busy,
         Verify, Advertise, Finish, TakeFile, Unlock, ClearProject, ClearMarker, ReadStale,
         UnlinkStale

\* acquire_project_slot(), release() and a dying process implement the slot
\* that belongs to one process at a time, until a loop goes ahead without it;
\* its members are the loops whose core was not being closed when they got it.
THEOREM GateImplementsSlot == Spec => ImplementsSlot
<1>1. Spec => [][Slot!Next]_(IF ungated THEN {} ELSE Secure)
  BY GateInvariant, SlotStep, PTL DEF Spec
<1>2. QED
  BY <1>1, SlotInit, PTL DEF Spec, ImplementsSlot, Slot!Spec

=============================================================================
