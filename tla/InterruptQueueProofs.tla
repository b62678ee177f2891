------------------------ MODULE InterruptQueueProofs ------------------------
(***************************************************************************)
(* No posted interrupt is lost between the unlocked look and the rewrite,  *)
(* and the queue is the channel of InterruptChannel, for any number of     *)
(* producers, loops, clearers, lock timeouts, failed writes and deaths.    *)
(* Both need what Pending collects, row by row, so its recursion is first  *)
(* unfolded by least counterexamples.                                      *)
(***************************************************************************)
EXTENDS InterruptQueue, WellFoundedInduction, TLAPS

\* A nonempty set of numbers has a least element.
LEMMA Smallest ==
    ASSUME NEW T \in SUBSET Nat, T # {}
    PROVE  \E n \in T : \A m \in T : n <= m
<1> DEFINE R == OpToRel(<, Nat)
<1>1. IsWellFoundedOn(R, Nat)
  BY NatLessThanWellFounded
<1>2. R = {ss \in Nat \X Nat : ss[1] < ss[2]}
  BY DEF OpToRel
<1> HIDE DEF R
<1>3. PICK n \in T : \A m \in T : ~(<<m, n>> \in R)
  BY <1>1, WFMin
<1>4. \A m \in T : ~(m < n)
  BY <1>2, <1>3
<1> QED
  BY <1>4

\* g is the recursion of Pending(f) over the first n rows.
Recursion(g, f, n) ==
    g = [k \in 0..n |-> IF k = 0 THEN <<>>
                        ELSE IF f[k].st = "pending" THEN Append(g[k - 1], f[k].id)
                        ELSE g[k - 1]]

\* What it says, row by row.
Collects(g, f, n) ==
    /\ g[0] = <<>>
    /\ \A k \in 1..n : g[k] = IF f[k].st = "pending" THEN Append(g[k - 1], f[k].id) ELSE g[k - 1]

\* The recursion of Pending, unfolded.
LEMMA RecursionCollects ==
    ASSUME NEW f, NEW n \in Nat, NEW g, Recursion(g, f, n)
    PROVE  Collects(g, f, n)
<1>1. g[0] = <<>>
  BY DEF Recursion
<1>2. ASSUME NEW k \in 1..n
      PROVE  g[k] = IF f[k].st = "pending" THEN Append(g[k - 1], f[k].id) ELSE g[k - 1]
  BY k \in 0..n, k # 0 DEF Recursion
<1> QED
  BY <1>1, <1>2 DEF Collects

\* There is such a function, for every number of rows.
LEMMA RecursionExists ==
    ASSUME NEW f, NEW n \in Nat
    PROVE  \E g : Recursion(g, f, n)
<1> DEFINE T == {k \in Nat : ~\E g : Recursion(g, f, k)}
<1> SUFFICES ASSUME T # {} PROVE FALSE
  OBVIOUS
<1>0. T \in SUBSET Nat
  OBVIOUS
<1>1. PICK k \in T : \A m \in T : k <= m
  <2> HIDE DEF T
  <2> QED BY <1>0, Smallest
<1>2. CASE k = 0
  <2> DEFINE h == [j \in 0..0 |-> <<>>]
  <2>1. Recursion(h, f, 0)
    BY DEF Recursion
  <2> QED
    BY <1>1, <1>2, <2>1
<1>3. CASE k # 0
  <2>1. k - 1 \in Nat /\ k - 1 \notin T
    BY <1>1, <1>3
  <2>2. PICK g : Recursion(g, f, k - 1)
    BY <2>1
  <2> DEFINE h == [j \in 0..k |-> IF j = k THEN (IF f[k].st = "pending" THEN Append(g[k - 1], f[k].id) ELSE g[k - 1]) ELSE g[j]]
  <2>3. Collects(g, f, k - 1)
    BY <2>1, <2>2, RecursionCollects
  <2>4. ASSUME NEW j \in 0..k
        PROVE  h[j] = IF j = 0 THEN <<>>
                      ELSE IF f[j].st = "pending" THEN Append(h[j - 1], f[j].id)
                      ELSE h[j - 1]
    BY <1>3, <2>1, <2>3 DEF Collects
  <2>5. Recursion(h, f, k)
    <3>1. h = [j \in 0..k |-> h[j]]
      OBVIOUS
    <3> HIDE DEF h
    <3> QED
      BY <2>4, <3>1 DEF Recursion
  <2> QED
    BY <1>1, <2>5
<1> QED
  BY <1>2, <1>3

\* Two recursions agree as far as their rows do.
LEMMA CollectsUnique ==
    ASSUME NEW f, NEW f2, NEW g, NEW h, NEW n \in Nat, \A k \in 1..n : f[k] = f2[k],
           Collects(g, f, n), Collects(h, f2, n)
    PROVE  g[n] = h[n]
<1> DEFINE T == {k \in 0..n : g[k] # h[k]}
<1> SUFFICES ASSUME T # {} PROVE FALSE
  OBVIOUS
<1>0. T \in SUBSET Nat
  OBVIOUS
<1>1. PICK k \in T : \A j \in T : k <= j
  <2> HIDE DEF T
  <2> QED BY <1>0, Smallest
<1>2. k # 0
  BY <1>1 DEF Collects
<1>3. k \in 1..n /\ k - 1 \in 0..n /\ k - 1 \notin T
  BY <1>1, <1>2
<1>4. g[k - 1] = h[k - 1]
  BY <1>3
<1>5. g[k] = h[k]
  BY <1>3, <1>4 DEF Collects
<1> QED
  BY <1>1, <1>5

\* Pending(f) is what the recursion has collected after the last row.
LEMMA PendingDef ==
    ASSUME NEW f, Len(f) \in Nat
    PROVE  \E g : Collects(g, f, Len(f)) /\ Pending(f) = g[Len(f)]
<1> DEFINE c == CHOOSE g : Recursion(g, f, Len(f))
<1>1. Pending(f) = c[Len(f)]
  BY Zenon DEF Pending, Recursion
<1>2. Recursion(c, f, Len(f))
  <2>1. \E g : Recursion(g, f, Len(f))
    BY RecursionExists
  <2> QED BY <2>1
<1> QED
  BY <1>1, <1>2, RecursionCollects

\* A row that is added, as _append() does, is collected if it is pending.
LEMMA PendingAppend ==
    ASSUME NEW f \in Seq(Row), NEW r \in Row
    PROVE  Pending(Append(f, r)) = IF r.st = "pending" THEN Append(Pending(f), r.id) ELSE Pending(f)
<1> DEFINE n == Len(f)
           more == Append(f, r)
<1>1. n \in Nat /\ Len(more) = n + 1 /\ more[n + 1] = r /\ \A k \in 1..n : f[k] = more[k]
  OBVIOUS
<1> HIDE DEF n, more
<1>2. PICK g : Collects(g, f, n) /\ Pending(f) = g[n]
  BY <1>1, PendingDef DEF n
<1>3. PICK h : Collects(h, more, n + 1) /\ Pending(more) = h[n + 1]
  <2>1. Len(more) \in Nat
    BY <1>1
  <2> QED
    BY <1>1, <2>1, PendingDef
<1>4. g[n] = h[n]
  <2>1. Collects(h, more, n)
    BY <1>1, <1>3 DEF Collects
  <2> QED
    BY <1>1, <1>2, <2>1, CollectsUnique
<1>5. h[n + 1] = IF more[n + 1].st = "pending" THEN Append(h[n], more[n + 1].id) ELSE h[n]
  BY <1>1, <1>3, n + 1 \in 1..(n + 1), n + 1 - 1 = n DEF Collects
<1> QED
  BY <1>1, <1>2, <1>3, <1>4, <1>5 DEF more

\* A row names an interrupt.
LEMMA RowIds ==
    ASSUME NEW f \in Seq(Row)
    PROVE  \A n \in 1..Len(f) : f[n].id \in Intr
<1>1. \A n \in 1..Len(f) : f[n] \in Row
  OBVIOUS
<1> QED
  BY <1>1 DEF Row

\* Both parts of a concatenation are found in it.
LEMMA Joined ==
    ASSUME NEW S, NEW s \in Seq(S), NEW t \in Seq(S)
    PROVE  /\ s \o t \in Seq(S) /\ Len(s \o t) = Len(s) + Len(t)
           /\ \A n \in 1..Len(s) : n \in 1..Len(s \o t) /\ (s \o t)[n] = s[n]
           /\ \A n \in 1..Len(t) : \E m \in 1..Len(s \o t) : (s \o t)[m] = t[n]
<1>1. /\ s \o t \in Seq(S) /\ Len(s \o t) = Len(s) + Len(t)
      /\ \A n \in 1..Len(s) : (s \o t)[n] = s[n]
  OBVIOUS
<1>2. ASSUME NEW n \in 1..Len(t)
      PROVE  Len(s) + n \in 1..Len(s \o t) /\ (s \o t)[Len(s) + n] = t[n]
  <2>1. Len(s) \in Nat /\ Len(t) \in Nat
    OBVIOUS
  <2>2. Len(s) + n \in 1..Len(s \o t)
    BY <1>1, <2>1
  <2> QED
    BY <2>1, <2>2
<1>3. ASSUME NEW n \in 1..Len(t)
      PROVE  \E m \in 1..Len(s \o t) : (s \o t)[m] = t[n]
  BY <1>2
<1>4. \A n \in 1..Len(s) : n \in 1..Len(s \o t)
  BY <1>1
<1> QED
  BY <1>1, <1>3, <1>4

\* What is collected are ids, and among them those of all pending rows.
LEMMA PendingHas ==
    ASSUME NEW f \in Seq(Row)
    PROVE  /\ Pending(f) \in Seq(Intr)
           /\ \A n \in 1..Len(f) : f[n].st = "pending" =>
                  \E k \in 1..Len(Pending(f)) : Pending(f)[k] = f[n].id
           /\ (\A n \in 1..Len(f) : f[n].st # "pending") => Pending(f) = <<>>
<1> DEFINE N == Len(f)
<1>1. N \in Nat /\ \A n \in 1..N : f[n].id \in Intr
  <2>1. N \in Nat /\ \A n \in 1..N : f[n] \in Row
    OBVIOUS
  <2> QED
    BY <2>1 DEF Row
<1>2. PICK g : Collects(g, f, N) /\ Pending(f) = g[N]
  BY <1>1, PendingDef
<1> HIDE DEF N
<1> DEFINE Good(m) == /\ g[m] \in Seq(Intr)
                      /\ \A n \in 1..m : f[n].st = "pending" => \E k \in 1..Len(g[m]) : g[m][k] = f[n].id
                      /\ (\A n \in 1..m : f[n].st # "pending") => g[m] = <<>>
           T == {m \in 0..N : ~Good(m)}
<1>3. ASSUME T # {} PROVE FALSE
  <2>1. T \in SUBSET Nat
    BY <1>1
  <2>2. PICK m \in T : \A j \in T : m <= j
    <3> HIDE DEF T
    <3> QED BY <1>3, <2>1, Smallest
  <2>3. Good(0)
    <3>1. g[0] = <<>> /\ <<>> \in Seq(Intr) /\ \A n : n \notin 1..0
      BY <1>2 DEF Collects
    <3> QED
      BY <3>1
  <2>4. m \in 1..N /\ m - 1 \in 0..N /\ m - 1 \notin T
    <3>1. m \in 0..N /\ ~Good(m)
      BY <2>2
    <3>2. m # 0
      <4> HIDE DEF Good
      <4> QED
        BY <2>3, <3>1
    <3>3. m - 1 \notin T
      <4> HIDE DEF T
      <4> QED
        BY <1>1, <2>2, <3>1, <3>2
    <3> QED
      BY <1>1, <3>1, <3>2, <3>3
  <2>5. Good(m - 1)
    BY <2>4
  <2>6. g[m] = IF f[m].st = "pending" THEN Append(g[m - 1], f[m].id) ELSE g[m - 1]
    BY <1>2, <2>4 DEF Collects
  <2>7. Good(m)
    <3>0. \A n \in 1..m : n = m \/ n \in 1..(m - 1)
      BY <2>4
    <3>1. CASE f[m].st = "pending"
      <4>1. /\ g[m] \in Seq(Intr) /\ Len(g[m]) = Len(g[m - 1]) + 1
            /\ Len(g[m - 1]) \in Nat
            /\ g[m][Len(g[m - 1]) + 1] = f[m].id
            /\ \A k \in 1..Len(g[m - 1]) : g[m][k] = g[m - 1][k]
        BY <1>1, <2>4, <2>5, <2>6, <3>1
      <4>2. \A n \in 1..m : f[n].st = "pending" => \E k \in 1..Len(g[m]) : g[m][k] = f[n].id
        BY <2>5, <3>0, <4>1
      <4> QED
        BY <2>4, <3>1, <4>1, <4>2
    <3>2. CASE f[m].st # "pending"
      BY <2>4, <2>5, <2>6, <3>0, <3>2
    <3> QED
      BY <3>1, <3>2
  <2> QED
    BY <2>2, <2>7
<1>4. Good(N)
  BY <1>1, <1>3
<1> QED
  BY <1>2, <1>4 DEF N

\* A rewrite marks what it read as pending, and leaves ids and torn rows.
LEMMA MarkedRows ==
    ASSUME NEW f \in Seq(Row)
    PROVE  /\ Marked(f) \in Seq(Row) /\ Len(Marked(f)) = Len(f)
           /\ \A n \in 1..Len(f) :
                 /\ Marked(f)[n].id = f[n].id
                 /\ Marked(f)[n].st = "torn" <=> f[n].st = "torn"
           /\ Pending(Marked(f)) = <<>>
<1>1. ASSUME NEW n \in 1..Len(f)
      PROVE  /\ Marked(f)[n] \in Row /\ Marked(f)[n].id = f[n].id
             /\ Marked(f)[n].st = IF f[n].st = "pending" THEN "applied" ELSE f[n].st
  <2>1. f[n] \in Row
    OBVIOUS
  <2>2. Marked(f)[n] = IF f[n].st = "pending" THEN [f[n] EXCEPT !.st = "applied"] ELSE f[n]
    BY DEF Marked
  <2> QED
    BY <2>1, <2>2 DEF Row
<1>2. Marked(f) \in Seq(Row) /\ Len(Marked(f)) = Len(f)
  BY <1>1 DEF Marked
<1>3. Pending(Marked(f)) = <<>>
  <2>1. \A n \in 1..Len(Marked(f)) : Marked(f)[n].st # "pending"
    BY <1>1, <1>2
  <2> QED
    BY <1>2, <2>1, PendingHas
<1> QED
  BY <1>1, <1>2, <1>3

-----------------------------------------------------------------------------

\* Who is between taking the lock and dropping it.
Inside(a) == pc[a] \in {"locked", "write"}

LockHolds ==
    /\ \A a \in Actor : Inside(a) <=> lock = a
    /\ \A i \in Intr : pc[i] \in {"idle", "want", "locked", "stopped", "dead"}
    /\ \A c \in Consumer : pc[c] = "write" => old[c] = file

\* Each producer writes one row, its last act.
RowsHold == \A n \in 1..Len(file) : pc[file[n].id] \in {"stopped", "dead"}

IInv == TypeOK /\ LockHolds /\ RowsHold /\ NoLostInterrupt

\* The empty queue.
LEMMA InitHolds == Init => IInv
BY ActorAssumption DEF Init, IInv, TypeOK, LockHolds, RowsHold, NoLostInterrupt, Inside, Actor, Consumer, Row

\* Steps that neither write the file nor give anything away.
LEMMA QuietStep ==
    ASSUME IInv, UNCHANGED <<file, given, acked>>, TypeOK', LockHolds',
           \A i \in Intr : pc[i] \in {"stopped", "dead"} => pc'[i] \in {"stopped", "dead"}
    PROVE  IInv'
<1>1. NoLostInterrupt'
  BY DEF IInv, NoLostInterrupt, GivenTo
<1>2. \A n \in 1..Len(file) : file[n].id \in Intr
  BY RowIds DEF IInv, TypeOK
<1>3. RowsHold'
  BY <1>2 DEF IInv, RowsHold
<1> QED
  BY <1>1, <1>3 DEF IInv

\* A row is added by its producer, which stops.
LEMMA RowStep ==
    ASSUME IInv, NEW i \in Intr, AppendLine(i) \/ TornLine(i)
    PROVE  IInv'
<1>0. PICK st \in {"pending", "torn"} :
         /\ pc[i] = "locked"
         /\ file' = Append(file, [id |-> i, st |-> st])
         /\ acked' = (IF st = "pending" THEN acked \cup {i} ELSE acked)
         /\ lock' = (IF lock = i THEN Nobody ELSE lock)
         /\ pc' = [pc EXCEPT ![i] = IF st = "pending" THEN "stopped" ELSE "dead"]
         /\ UNCHANGED <<old, batch, given, recorded>> /\ faults' \in 0..MaxFaults
  <2>1. CASE AppendLine(i)
    <3>1. faults' \in 0..MaxFaults
      BY <2>1 DEF AppendLine, IInv, TypeOK
    <3> WITNESS "pending" \in {"pending", "torn"}
    <3> QED
      BY <2>1, <3>1 DEF AppendLine, WithRow, Goto
  <2>2. CASE TornLine(i)
    <3>1. faults' \in 0..MaxFaults
      BY <2>2, ActorAssumption DEF TornLine, IInv, TypeOK
    <3> WITNESS "torn" \in {"pending", "torn"}
    <3> QED
      BY <2>2, <3>1 DEF TornLine, Goto
  <2> QED
    BY <2>1, <2>2
<1> DEFINE r == [id |-> i, st |-> st]
<1>1. r \in Row /\ r.id = i /\ r.st = st
  BY DEF Row
<1> HIDE DEF r
<1>2. /\ file \in Seq(Row) /\ file' \in Seq(Row) /\ Len(file') = Len(file) + 1 /\ Len(file) \in Nat
      /\ file'[Len(file) + 1] = r /\ \A n \in 1..Len(file) : file'[n] = file[n]
  BY <1>0, <1>1 DEF IInv, TypeOK, r
<1>3. i \in Actor /\ i # Nobody /\ i \notin Consumer /\ \A c \in Consumer : c \in Actor /\ c # i
  BY ActorAssumption DEF Actor, Consumer
<1>4. lock = i /\ lock' = Nobody
  BY <1>0, <1>3 DEF IInv, LockHolds, Inside
<1>5. TypeOK'
  BY <1>0, <1>2, <1>4 DEF IInv, TypeOK
<1>6. LockHolds'
  <2>1. \A a \in Actor : pc'[a] = IF a = i THEN (IF st = "pending" THEN "stopped" ELSE "dead") ELSE pc[a]
    BY <1>0 DEF IInv, TypeOK
  <2>2. \A a \in Actor : a # Nobody
    BY ActorAssumption DEF Actor, Consumer
  <2>3. \A a \in Actor : Inside(a)' <=> lock' = a
    BY <1>3, <1>4, <2>1, <2>2 DEF IInv, LockHolds, Inside
  <2>4. \A c \in Consumer : pc'[c] # "write"
    BY <1>3, <1>4, <2>1 DEF IInv, LockHolds, Inside
  <2>5. \A j \in Intr : pc'[j] \in {"idle", "want", "locked", "stopped", "dead"}
    BY <2>1 DEF IInv, LockHolds, Actor
  <2> QED
    BY <2>3, <2>4, <2>5 DEF LockHolds
<1>7. RowsHold'
  <2>1. \A n \in 1..Len(file) : file[n].id \in Intr
    BY <1>2, RowIds
  <2>2. \A j \in Intr : pc'[j] = IF j = i THEN (IF st = "pending" THEN "stopped" ELSE "dead") ELSE pc[j]
    BY <1>0 DEF IInv, TypeOK, Actor
  <2>3. \A n \in 1..Len(file') : n = Len(file) + 1 \/ n \in 1..Len(file)
    BY <1>2
  <2> QED
    BY <1>1, <1>2, <2>1, <2>2, <2>3 DEF IInv, RowsHold
<1>8. NoLostInterrupt'
  <2>1. \A j \in acked : (\E n \in 1..Len(file') : file'[n] = [id |-> j, st |-> "pending"]) \/ GivenTo(j)' # {}
    BY <1>0, <1>2 DEF IInv, NoLostInterrupt, GivenTo
  <2>2. st = "pending" => file'[Len(file) + 1] = [id |-> i, st |-> "pending"] /\ Len(file) + 1 \in 1..Len(file')
    BY <1>2 DEF r
  <2> QED
    BY <1>0, <2>1, <2>2 DEF NoLostInterrupt
<1> QED
  BY <1>5, <1>6, <1>7, <1>8 DEF IInv

\* The rewrite of what was read under the lock is a rewrite of the file.
LEMMA CommitStep ==
    ASSUME IInv, NEW c \in Consumer, Commit(c)
    PROVE  IInv' /\ old[c] = file
<1>1. c \in Actor /\ c \notin Intr /\ old[c] = file /\ lock = c
  BY ActorAssumption DEF IInv, LockHolds, Inside, Commit, Actor, Consumer
<1>2. file \in Seq(Row) /\ Pending(file) \in Seq(Intr)
  BY PendingHas DEF IInv, TypeOK
<1>3. file' = Marked(file) /\ given' = [given EXCEPT ![c] = @ \o Pending(file)]
  BY <1>1 DEF Commit
<1>4. \A a \in Actor : pc'[a] = IF a = c THEN (IF c \in Loop THEN "apply" ELSE "idle") ELSE pc[a]
  BY DEF IInv, TypeOK, Commit, Goto
<1>5. TypeOK'
  <2>1. file' \in Seq(Row)
    BY <1>2, <1>3, MarkedRows
  <2>2. given' \in [Consumer -> Seq(Intr)]
    <3>1. \A d \in Consumer : given[d] \in Seq(Intr) /\ given[d] \o Pending(file) \in Seq(Intr)
      BY <1>2, Joined DEF IInv, TypeOK
    <3> QED
      BY <1>3, <3>1 DEF IInv, TypeOK
  <2>3. batch' \in [Loop -> Seq(Intr)] /\ old' \in [Consumer -> Seq(Row)]
    <3>1. old' \in [Consumer -> Seq(Row)]
      BY DEF IInv, TypeOK, Commit
    <3>2. CASE c \in Loop
      BY <1>1, <1>2, <3>1, <3>2 DEF IInv, TypeOK, Commit
    <3>3. CASE c \notin Loop
      BY <1>1, <1>2, <3>1, <3>3 DEF IInv, TypeOK, Commit
    <3> QED
      BY <3>2, <3>3
  <2>4. pc' \in [Actor -> {"idle", "want", "locked", "write", "apply", "stopped", "dead"}]
    BY DEF IInv, TypeOK, Commit, Goto
  <2> QED
    BY <2>1, <2>2, <2>3, <2>4 DEF IInv, TypeOK, Commit
<1>6. LockHolds'
  <2>1. \A a \in Actor : a # Nobody
    BY ActorAssumption DEF Actor, Consumer
  <2>2. lock' = Nobody
    BY DEF Commit
  <2>3. \A a \in Actor : ~Inside(a)'
    BY <1>1, <1>4 DEF IInv, LockHolds, Inside
  <2>4. \A j \in Intr : pc'[j] \in {"idle", "want", "locked", "stopped", "dead"}
    BY <1>1, <1>4 DEF IInv, LockHolds, Actor
  <2>5. \A d \in Consumer : pc'[d] # "write"
    BY <2>3 DEF Inside, Actor
  <2> QED
    BY <2>1, <2>2, <2>3, <2>4, <2>5 DEF LockHolds
<1>7. RowsHold'
  <2>1. \A n \in 1..Len(file') : n \in 1..Len(file) /\ file'[n].id = file[n].id /\ file[n].id \in Intr
    BY <1>2, <1>3, MarkedRows, RowIds
  <2> QED
    BY <1>1, <1>4, <2>1 DEF IInv, RowsHold, Actor
<1>8. NoLostInterrupt'
  <2> SUFFICES ASSUME NEW i \in acked PROVE GivenTo(i)' # {} \/ \E n \in 1..Len(file') : file'[n] = [id |-> i, st |-> "pending"]
    BY DEF NoLostInterrupt, Commit
  <2>1. ASSUME NEW d \in Consumer
        PROVE  /\ \A n \in 1..Len(given[d]) : n \in 1..Len(given'[d]) /\ given'[d][n] = given[d][n]
               /\ d = c => \A k \in 1..Len(Pending(file)) : \E n \in 1..Len(given'[d]) : given'[d][n] = Pending(file)[k]
    <3>1. CASE d # c
      BY <1>3, <3>1 DEF IInv, TypeOK
    <3>2. CASE d = c
      <4>1. given[c] \in Seq(Intr) /\ given'[c] = given[c] \o Pending(file)
        BY <1>3 DEF IInv, TypeOK
      <4>2. /\ \A n \in 1..Len(given[c]) : n \in 1..Len(given'[c]) /\ given'[c][n] = given[c][n]
            /\ \A k \in 1..Len(Pending(file)) : \E n \in 1..Len(given'[c]) : given'[c][n] = Pending(file)[k]
        <5>1. \A s, t \in Seq(Intr) :
                 /\ \A n \in 1..Len(s) : n \in 1..Len(s \o t) /\ (s \o t)[n] = s[n]
                 /\ \A n \in 1..Len(t) : \E m \in 1..Len(s \o t) : (s \o t)[m] = t[n]
          BY Joined
        <5>2. /\ \A n \in 1..Len(given[c]) : n \in 1..Len(given[c] \o Pending(file)) /\ (given[c] \o Pending(file))[n] = given[c][n]
              /\ \A k \in 1..Len(Pending(file)) : \E m \in 1..Len(given[c] \o Pending(file)) : (given[c] \o Pending(file))[m] = Pending(file)[k]
          <6>1. Pending(file) \in Seq(Intr) /\ given[c] \in Seq(Intr)
            BY <1>2, <4>1
          <6> QED
            BY Zenon, <5>1, <6>1
        <5> QED
          BY ZenonT(30), <4>1, <5>2
      <4> QED
        BY <3>2, <4>2
    <3> QED
      BY <3>1, <3>2
  <2>2. CASE GivenTo(i) # {}
    BY <2>1, <2>2 DEF GivenTo
  <2>3. ASSUME NEW n \in 1..Len(file), file[n] = [id |-> i, st |-> "pending"] PROVE GivenTo(i)' # {}
    <3>1. \E k \in 1..Len(Pending(file)) : Pending(file)[k] = i
      BY <1>2, <2>3, PendingHas
    <3> QED
      BY <2>1, <3>1 DEF GivenTo
  <2> QED
    BY <2>2, <2>3 DEF IInv, NoLostInterrupt
<1> QED
  BY <1>1, <1>5, <1>6, <1>7, <1>8 DEF IInv

\* Every step of a producer or consumer, and every fault, keeps the invariant.
LEMMA NextHolds == IInv /\ [Next]_vars => IInv'
<1> SUFFICES ASSUME IInv, [Next]_vars PROVE IInv'
  OBVIOUS
<1> USE ActorAssumption
<1>0. CASE UNCHANGED vars
  BY <1>0 DEF vars, IInv, TypeOK, LockHolds, RowsHold, NoLostInterrupt, GivenTo, Inside
<1>1. ASSUME NEW a \in Actor, StartPost(a) PROVE IInv'
  <2>1. TypeOK'
    BY <1>1 DEF StartPost, Goto, IInv, TypeOK
  <2>2. LockHolds'
    BY <1>1 DEF StartPost, Goto, IInv, TypeOK, LockHolds, Inside, Actor
  <2> QED
    BY <1>1, <2>1, <2>2, QuietStep DEF StartPost, Goto, IInv, TypeOK, Actor
<1>2. ASSUME NEW a \in Actor, TakeLock(a) PROVE IInv'
  <2>1. TypeOK'
    BY <1>2 DEF TakeLock, Goto, IInv, TypeOK
  <2>2. LockHolds'
    BY <1>2 DEF TakeLock, Goto, IInv, TypeOK, LockHolds, Inside, Actor, Consumer
  <2> QED
    BY <1>2, <2>1, <2>2, QuietStep DEF TakeLock, Goto, IInv, TypeOK, Actor
<1>3. ASSUME NEW a \in Actor, AppendLine(a) PROVE IInv'
  BY <1>3, RowStep DEF AppendLine
<1>4. ASSUME NEW a \in Actor, TornLine(a) PROVE IInv'
  BY <1>4, RowStep DEF TornLine
<1>5. ASSUME NEW a \in Actor, LockTimeout(a) PROVE IInv'
  <2>1. TypeOK'
    BY <1>5 DEF LockTimeout, Goto, IInv, TypeOK
  <2>2. LockHolds'
    BY <1>5 DEF LockTimeout, Goto, IInv, TypeOK, LockHolds, Inside, Actor, Consumer
  <2> QED
    BY <1>5, <2>1, <2>2, QuietStep DEF LockTimeout, Goto, IInv, TypeOK, Actor
<1>6. ASSUME NEW a \in Actor, Peek(a) PROVE IInv'
  <2>1. TypeOK'
    BY <1>6 DEF Peek, Goto, IInv, TypeOK
  <2>2. LockHolds'
    BY <1>6 DEF Peek, Goto, IInv, TypeOK, LockHolds, Inside, Actor, Consumer
  <2> QED
    BY <1>6, <2>1, <2>2, QuietStep DEF Peek, Goto, IInv, TypeOK, Actor
<1>7. ASSUME NEW a \in Actor, ReadFile(a) PROVE IInv'
  <2>1. TypeOK'
    BY <1>7 DEF ReadFile, Goto, IInv, TypeOK
  <2>2. LockHolds'
    BY <1>7 DEF ReadFile, Goto, IInv, TypeOK, LockHolds, Inside, Actor, Consumer
  <2> QED
    BY <1>7, <2>1, <2>2, QuietStep DEF ReadFile, Goto, IInv, TypeOK, Actor
<1>8. ASSUME NEW a \in Actor, Commit(a) PROVE IInv'
  BY <1>8, CommitStep DEF Commit
<1>9. ASSUME NEW a \in Actor, CommitFails(a) PROVE IInv'
  <2>1. TypeOK'
    BY <1>9 DEF CommitFails, Goto, IInv, TypeOK
  <2>2. LockHolds'
    BY <1>9 DEF CommitFails, Goto, IInv, TypeOK, LockHolds, Inside, Actor, Consumer
  <2> QED
    BY <1>9, <2>1, <2>2, QuietStep DEF CommitFails, Goto, IInv, TypeOK, Actor
<1>10. ASSUME NEW a \in Actor, ApplyNext(a) PROVE IInv'
  <2>1. TypeOK'
    <3>1. batch[a] \in Seq(Intr) /\ Head(batch[a]) \in Intr /\ Tail(batch[a]) \in Seq(Intr)
      BY <1>10 DEF ApplyNext, IInv, TypeOK
    <3> QED
      BY <1>10, <3>1 DEF ApplyNext, Goto, IInv, TypeOK
  <2>2. LockHolds'
    BY <1>10 DEF ApplyNext, Goto, IInv, TypeOK, LockHolds, Inside, Actor, Consumer
  <2> QED
    BY <1>10, <2>1, <2>2, QuietStep DEF ApplyNext, Goto, IInv, TypeOK, Actor, Consumer
<1>11. ASSUME NEW a \in Actor, ApplyFails(a) PROVE IInv'
  <2>1. TypeOK'
    <3>1. batch[a] \in Seq(Intr) /\ Head(batch[a]) \in Intr
      BY <1>11 DEF ApplyFails, IInv, TypeOK
    <3> QED
      BY <1>11, <3>1 DEF ApplyFails, Goto, IInv, TypeOK
  <2>2. LockHolds'
    BY <1>11 DEF ApplyFails, Goto, IInv, TypeOK, LockHolds, Inside, Actor, Consumer
  <2> QED
    BY <1>11, <2>1, <2>2, QuietStep DEF ApplyFails, Goto, IInv, TypeOK, Actor, Consumer
<1>12. ASSUME NEW a \in Actor, BoundaryDone(a) PROVE IInv'
  <2>1. TypeOK'
    BY <1>12 DEF BoundaryDone, Goto, IInv, TypeOK
  <2>2. LockHolds'
    BY <1>12 DEF BoundaryDone, Goto, IInv, TypeOK, LockHolds, Inside, Actor, Consumer
  <2> QED
    BY <1>12, <2>1, <2>2, QuietStep DEF BoundaryDone, Goto, IInv, TypeOK, Actor, Consumer
<1>13. ASSUME NEW a \in Actor, Crash(a) PROVE IInv'
  <2>1. TypeOK'
    BY <1>13 DEF Crash, Goto, IInv, TypeOK
  <2>2. LockHolds'
    BY <1>13 DEF Crash, Goto, IInv, TypeOK, LockHolds, Inside, Actor, Consumer
  <2> QED
    BY <1>13, <2>1, <2>2, QuietStep DEF Crash, Goto, IInv, TypeOK, Actor, Consumer
<1> QED
  BY <1>0, <1>1, <1>2, <1>3, <1>4, <1>5, <1>6, <1>7, <1>8, <1>9, <1>10, <1>11, <1>12, <1>13 DEF Next, Work, Fault

\* post(), poll() and clear(): an interrupt whose post returned is in the file
\* as pending, or a rewrite has given it to somebody.
THEOREM NothingIsLost == Spec => []NoLostInterrupt
<1>1. IInv => NoLostInterrupt
  BY DEF IInv
<1> QED
  BY <1>1, InitHolds, NextHolds, PTL DEF Spec

-----------------------------------------------------------------------------
(* The refinement. *)

Posted == {i \in Intr : \E n \in 1..Len(file) : file[n].id = i /\ file[n].st # "torn"}

\* Every step posts to the channel, gives all that is posted and not yet given,
\* or leaves the channel alone.
LEMMA ChannelStep == IInv /\ [Next]_vars => [Channel!Next]_Channel!vars
<1> SUFFICES ASSUME IInv, [Next]_vars PROVE [Channel!Next]_Channel!vars
  OBVIOUS
<1>1. file \in Seq(Row)
  BY DEF IInv, TypeOK
<1>2. ASSUME UNCHANGED <<file, given>> PROVE UNCHANGED Channel!vars
  BY <1>2 DEF Channel!vars
<1>3. ASSUME NEW i \in Intr, pc[i] = "locked", NEW st \in {"pending", "torn"},
             file' = Append(file, [id |-> i, st |-> st]), UNCHANGED given
      PROVE  [Channel!Next]_Channel!vars
  <2> DEFINE r == [id |-> i, st |-> st]
  <2>1. r \in Row /\ r.id = i /\ r.st = st
    BY DEF Row
  <2> HIDE DEF r
  <2>2. file' = Append(file, r)
    BY <1>3 DEF r
  <2>3. Pending(file)' = IF st = "pending" THEN Append(Pending(file), i) ELSE Pending(file)
    BY <1>1, <2>1, <2>2, PendingAppend
  <2>4. /\ Len(file') = Len(file) + 1 /\ Len(file) \in Nat
        /\ file'[Len(file) + 1] = r /\ \A n \in 1..Len(file) : file'[n] = file[n]
    BY <1>1, <2>1, <2>2
  <2>5. Posted' = IF st = "pending" THEN Posted \cup {i} ELSE Posted
    <3>1. \A n \in 1..Len(file') : n = Len(file) + 1 \/ n \in 1..Len(file)
      BY <2>4
    <3>2. \A n \in 1..Len(file) : n \in 1..Len(file')
      BY <2>4
    <3>3. Len(file) + 1 \in 1..Len(file')
      BY <2>4
    <3> QED
      BY <2>1, <2>4, <3>1, <3>2, <3>3 DEF Posted
  <2>6. i \notin Posted
    BY <1>3 DEF Posted, IInv, RowsHold
  <2>7. CASE st = "pending"
    <3>1. Channel!Post(i)
      BY <1>3, <2>3, <2>5, <2>6, <2>7 DEF Channel!Post, Posted
    <3> QED
      BY <3>1 DEF Channel!Next
  <2>8. CASE st = "torn"
    BY <1>3, <2>3, <2>5, <2>8 DEF Channel!vars, Posted
  <2> QED
    BY <2>7, <2>8
<1>4. ASSUME NEW c \in Consumer, Commit(c) PROVE Channel!Next
  <2>1. file' = Marked(file) /\ given' = [given EXCEPT ![c] = @ \o Pending(file)]
    BY <1>4, CommitStep DEF Commit
  <2>2. Pending(file)' = <<>>
    BY <1>1, <2>1, MarkedRows
  <2>3. Posted' = Posted
    BY <1>1, <2>1, MarkedRows DEF Posted
  <2> QED
    BY <2>1, <2>2, <2>3 DEF Channel!Next, Channel!Give, Posted
<1>5. CASE UNCHANGED vars
  BY <1>2, <1>5 DEF vars
<1>6. ASSUME NEW a \in Actor, StartPost(a) \/ Work(a) \/ Fault(a) PROVE [Channel!Next]_Channel!vars
  <2>1. CASE AppendLine(a)
    BY <1>3, <2>1 DEF AppendLine, WithRow
  <2>2. CASE TornLine(a)
    BY <1>3, <2>2 DEF TornLine
  <2>3. CASE Commit(a)
    BY <1>4, <2>3 DEF Commit
  <2>4. CASE UNCHANGED <<file, given>>
    BY <1>2, <2>4
  <2> QED
    BY <1>6, <2>1, <2>2, <2>3, <2>4 DEF Work, Fault, StartPost, TakeLock, Peek, ReadFile, ApplyNext, BoundaryDone,
       LockTimeout, CommitFails, ApplyFails, Crash
<1> QED
  BY <1>5, <1>6 DEF Next

\* interrupt.py implements the channel it promises to its callers: what is posted
\* is given once, to one consumer, in the order of the posts.
THEOREM QueueIsChannel == Spec => ImplementsChannel
<1>1. Init => Channel!Init
  <2> SUFFICES ASSUME Init PROVE Channel!Init
    OBVIOUS
  <2>1. file = <<>> /\ <<>> \in Seq(Row) /\ Len(<<>>) = 0
    BY DEF Init
  <2>2. Pending(file) = <<>>
    <3>1. file \in Seq(Row) /\ \A n \in 1..Len(file) : file[n].st # "pending"
      BY <2>1
    <3> QED
      BY <3>1, PendingHas
  <2> QED
    BY <2>1, <2>2 DEF Init, Channel!Init
<1> QED
  BY <1>1, InitHolds, NextHolds, ChannelStep, PTL DEF Spec, ImplementsChannel, Channel!Spec

=============================================================================
