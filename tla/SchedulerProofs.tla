-------------------------- MODULE SchedulerProofs --------------------------
(***************************************************************************)
(* Proofs about Scheduler and, in the second part, about the semaphores on *)
(* top of it, for every number of tasks, of cpus and of priorities.  The   *)
(* scheduler hands cpus on in the middle of system calls, so the invariant *)
(* is stated of any state s of the kernel, with room for a task that is    *)
(* nowhere and for a cpu that is being handed on.                          *)
(***************************************************************************)
EXTENDS Semaphores, FiniteSetTheorems, SequenceTheorems, WellFoundedInduction, TLAPS

-----------------------------------------------------------------------------
\* The nodes the theorems are about.
Roams == \A t \in Tasks : Bound[t] = AnyHost
Both(a, b) == a \in Calls /\ b \in Calls

\* A cpu is not taken from a task that was killed while it syncs.
SyncsKeepCpus == Discipline = "PR" /\ Both("sync", "kill") => Roams
\* A task leaves its cpu with no quantum event of it left.
QuantaEnd ==
  Quantum => /\ Discipline = "PR" => "sync" \notin Calls /\ "priority" \notin Calls
             /\ ~Both("sync", "suspend")
\* A task that gives way to another may run wherever that one could have.
Exchangeable == Roams \/ (Discipline # "PR" /\ ~Quantum)
\* No task raises the priority of another above its own.
NoRaises == Discipline = "PR" /\ "priority" \in Calls => \A t \in Tasks : Parent[t] = Outside
\* No computation is given up.
Timely == NoRaises /\ "suspend" \notin Calls
\* No event is due for a task that has been suspended or put on hold.
EventsMatch == QuantaEnd /\ ~(Quantum /\ "hold" \in Calls) /\ ~Both("timed", "suspend")

-----------------------------------------------------------------------------
\* States of the kernel.
Shape(s) ==
  s = [htp |-> s.htp, run |-> s.run, rtrq |-> s.rtrq, abort |-> s.abort, st |-> s.st, pri |-> s.pri,
       hp |-> s.hp, tep |-> s.tep, rct |-> s.rct, rtoep |-> s.rtoep, qep |-> s.qep, quanta |-> s.quanta,
       qx |-> s.qx, nmess |-> s.nmess, inReceive |-> s.inReceive, owed |-> s.owed]
Typed(s) ==
  /\ s.htp \in Tasks \cup {Driver, Outside} /\ s.run \in [Hosts -> Tasks \cup {None}] /\ s.rtrq \in Seq(Tasks)
  /\ s.abort \in {None, "event", "quantum", "receive", "queue"}
  /\ s.st \in [Tasks -> States] /\ s.pri \in [Tasks -> Priorities] /\ s.hp \in [Tasks -> Hosts \cup {AnyHost}]
  /\ s.tep \in [Tasks -> Events] /\ s.rct \in [Tasks -> BOOLEAN] /\ s.rtoep \in [Tasks -> BOOLEAN]
  /\ s.qep \in [Tasks -> BOOLEAN] /\ s.quanta \in [Tasks -> Int] /\ s.qx \in [Tasks -> BOOLEAN]
  /\ s.nmess \in [Tasks -> Int] /\ s.inReceive \in [Tasks -> BOOLEAN] /\ s.owed \in [Tasks -> BOOLEAN]
Kernel(s) == Shape(s) /\ Typed(s)

\* Task t has one of the cpus H, or none, as its state says.
CpuOf(s, t, H) ==
  /\ \A h \in H : s.run[h] = t <=> s.st[t] \in OnCpu /\ s.hp[t] = h
  /\ s.st[t] \in OnCpu => s.hp[t] \in H

\* The events that a task in state st may wait for: one that syncs may lose its
\* event at the end of a quantum.
EventsOf(st) ==
  CASE st = "computing" -> {"END_COMPUTE"}
    [] st = "blocked" -> {"END_BLOCK", "END_HOLD"}
    [] st = "sleeping" -> {"END_SLEEP"}
    [] st \in Uninterruptible -> {"END_SYNC"} \cup (IF Quantum THEN {None} ELSE {})
    [] OTHER -> {None}

\* Only these calls lead to these states.
Legal(st, e) ==
  /\ st \in Uninterruptible => "sync" \in Calls
  /\ st = "syncFree" => "kill" \in Calls
  /\ st = "syncSuspend" => "suspend" \in Calls
  /\ e = "END_HOLD" => "hold" \in Calls

Placed(s, t, H) ==
  /\ CpuOf(s, t, H)
  /\ t \in Range(s.rtrq) <=> s.st[t] = "ready"
  /\ s.st[t] = "hot" => s.htp = t
  /\ s.tep[t] \in EventsOf(s.st[t])
  /\ Legal(s.st[t], s.tep[t])

\* Messages, and the time-out of a receive.
MessagesOf(s, t) ==
  /\ s.nmess[t] \in 0..MaxMessages+1 /\ (s.st[t] = "receiving" => s.nmess[t] = 0)
  /\ s.rtoep[t] => "timed" \in Calls /\ ("suspend" \in Calls \/ s.st[t] = "receiving")

\* Quantum events.
QuantaOf(s, t) ==
  /\ s.quanta[t] = IF s.qep[t] THEN 1 ELSE 0
  /\ s.qep[t] => Quantum /\ s.st[t] \in OnCpu
  /\ s.qx[t] => Quantum /\ s.st[t] \in Uninterruptible \cup {"free"} /\ ~s.qep[t]

\* Cpu time still owed is being computed or remains.
TimeOf(s, t) ==
  /\ s.owed[t] => s.st[t] = "computing" \/ s.rct[t]
  /\ s.rct[t] => s.st[t] \in {"ready", "free"}
  /\ s.owed[t] => s.st[t] # "free"

\* All is well with task t on the cpus H.
WellOff(s, t, H) ==
  /\ Placed(s, t, H) /\ MessagesOf(s, t)
  /\ QuantaEnd => QuantaOf(s, t)
  /\ Timely => TimeOf(s, t)

\* Task t has none of the cpus H and nothing to wait for: it is being moved.
Moving(s, t, H) ==
  /\ \A h \in H : s.run[h] # t
  /\ t \notin Range(s.rtrq)
  /\ s.tep[t] = None
  /\ s.nmess[t] \in 0..MaxMessages+1
  /\ s.rtoep[t] => "timed" \in Calls /\ "suspend" \in Calls
  /\ QuantaEnd => s.quanta[t] = 0 /\ ~s.qep[t] /\ ~s.qx[t]
  /\ Timely => (s.owed[t] => s.rct[t])

\* Cpu h does not idle while t waits, nor keeps it waiting for a lower priority.
Serves(s, h, t) ==
  MayRunOn(t, h) =>
    /\ s.run[h] # None
    /\ Discipline = "PR" /\ s.st[s.run[h]] \notin Uninterruptible => s.pri[t] <= s.pri[s.run[h]]
UsedWell(s, h) == \A t \in Range(s.rtrq) : Serves(s, h, t)

Sorted(s) ==
  Discipline # "FIFO" => \A i, j \in DOMAIN s.rtrq : i < j => s.pri[s.rtrq[i]] >= s.pri[s.rtrq[j]]
QueueOK(s) == IsInjective(s.rtrq) /\ Sorted(s)

\* The hot task is in the hot state.
HotIs(s) == s.htp \in Tasks => s.st[s.htp] = "hot"

\* All is well with the tasks T and the cpus H.
FineFor(s, T, H) ==
  /\ Kernel(s) /\ QueueOK(s)
  /\ \A t \in T : WellOff(s, t, H)
  /\ Exchangeable => \A h \in H : UsedWell(s, h)
Fine(s) == FineFor(s, Tasks, Hosts) /\ HotIs(s)

Inv(s) == SyncsKeepCpus => Fine(s) /\ (EventsMatch => s.abort = None)

\* An invariant that is inductive.
IInv == node \in Nodes /\ Inv(k)

-----------------------------------------------------------------------------
\* A set of naturals has a least element, and a sequence a first position of it.
LEMMA LeastExists ==
  ASSUME NEW S \in SUBSET Nat, S # {}
  PROVE  \E m \in S : \A n \in S : m <= n
<1> DEFINE T == {0..n : n \in S}
<1>1. IsWellFoundedOn(StrictSubsetOrdering(Nat), FiniteSubsetsOf(Nat))
  BY FS_StrictSubsetOrderingWellFounded
<1>2. T \subseteq FiniteSubsetsOf(Nat) /\ T # {}
  <2>1. \A n \in S : 0..n \in SUBSET Nat /\ IsFiniteSet(0..n)
    BY FS_Interval
  <2> QED BY <2>1 DEF FiniteSubsetsOf
<1>3. PICK x \in T : \A y \in T : ~(<<y, x>> \in StrictSubsetOrdering(Nat))
  BY <1>1, <1>2, WFMin
<1>4. PICK m \in S : x = 0..m
  OBVIOUS
<1>5. ASSUME NEW n \in S, n < m
      PROVE  FALSE
  <2>1. 0..n \subseteq 0..m /\ m \in 0..m /\ m \notin 0..n
    BY <1>5
  <2>2. <<0..n, x>> \in StrictSubsetOrdering(Nat)
    BY <2>1, <1>4 DEF StrictSubsetOrdering
  <2> QED BY <2>2, <1>3
<1> QED BY <1>5

\* The sequence r is q with e put in at place i, or without what is at place i.
WithOne(q, i, e, r) ==
  /\ Len(q) \in Nat /\ DOMAIN q = 1..Len(q) /\ DOMAIN r = 1..Len(q)+1 /\ Len(r) = Len(q) + 1
  /\ \A j \in 1..Len(q)+1 : r[j] = IF j < i THEN q[j] ELSE IF j = i THEN e ELSE q[j-1]
WithoutOne(q, i, r) ==
  /\ Len(q) \in Nat /\ DOMAIN q = 1..Len(q) /\ DOMAIN r = 1..Len(q)-1 /\ Len(r) = Len(q) - 1
  /\ \A j \in 1..Len(q)-1 : r[j] = IF j < i THEN q[j] ELSE q[j+1]

LEMMA Inserted ==
  ASSUME NEW S, NEW q \in Seq(S), NEW i \in 1..Len(q)+1, NEW e \in S
  PROVE  InsertAt(q, i, e) \in Seq(S) /\ WithOne(q, i, e, InsertAt(q, i, e))
<1> DEFINE a == SubSeq(q, 1, i-1)
           b == SubSeq(q, i, Len(q))
<1>1. Len(q) \in Nat /\ i \in Int /\ i - 1 \in Int /\ \A j \in 1..Len(q) : q[j] \in S
  BY LenProperties
<1>2. a \in Seq(S) /\ Len(a) = i - 1 /\ \A j \in 1..i-1 : a[j] = q[j]
  <2>1. \A j \in 1..i-1 : q[j] \in S
    BY <1>1
  <2>2. /\ a \in Seq(S) /\ Len(a) = IF 1 <= i - 1 THEN (i - 1) - 1 + 1 ELSE 0
        /\ \A j \in 1..(i-1)-1+1 : a[j] = q[1 + j - 1]
    BY <1>1, <2>1, SubSeqProperties
  <2> QED BY <1>1, <2>2
<1>3. b \in Seq(S) /\ Len(b) = Len(q) - i + 1 /\ \A j \in 1..Len(q)-i+1 : b[j] = q[i+j-1]
  <2>1. \A j \in i..Len(q) : q[j] \in S
    BY <1>1
  <2>2. /\ b \in Seq(S) /\ Len(b) = IF i <= Len(q) THEN Len(q) - i + 1 ELSE 0
        /\ \A j \in 1..Len(q)-i+1 : b[j] = q[i+j-1]
    BY <1>1, <2>1, SubSeqProperties
  <2> QED BY <1>1, <2>2
<1>4. <<e>> \in Seq(S) /\ Len(<<e>>) = 1 /\ <<e>>[1] = e
  OBVIOUS
<1>5. /\ a \o <<e>> \in Seq(S) /\ Len(a \o <<e>>) = i
      /\ \A j \in 1..i : (a \o <<e>>)[j] = IF j < i THEN q[j] ELSE e
  <2>1. /\ a \o <<e>> \in Seq(S) /\ Len(a \o <<e>>) = Len(a) + 1
        /\ \A j \in 1..Len(a)+1 : (a \o <<e>>)[j] = IF j <= Len(a) THEN a[j] ELSE <<e>>[j - Len(a)]
    BY <1>2, <1>4, ConcatProperties
  <2> HIDE DEF a
  <2> QED BY <1>1, <1>2, <1>4, <2>1
<1>6. /\ (a \o <<e>>) \o b \in Seq(S) /\ Len((a \o <<e>>) \o b) = i + Len(b)
      /\ \A j \in 1..i+Len(b) : ((a \o <<e>>) \o b)[j] = IF j <= i THEN (a \o <<e>>)[j] ELSE b[j - i]
  <2> DEFINE c == a \o <<e>>
  <2>1. c \in Seq(S) /\ b \in Seq(S) /\ Len(c) = i
    BY <1>3, <1>5
  <2> HIDE DEF a, b, c
  <2>2. /\ c \o b \in Seq(S) /\ Len(c \o b) = Len(c) + Len(b)
        /\ \A j \in 1..Len(c)+Len(b) : (c \o b)[j] = IF j <= Len(c) THEN c[j] ELSE b[j - Len(c)]
    BY <2>1, ConcatProperties
  <2> QED BY <2>1, <2>2 DEF c
<1>7. InsertAt(q, i, e) = (a \o <<e>>) \o b
  BY DEF InsertAt
<1> HIDE DEF a, b
<1>8. /\ InsertAt(q, i, e) \in Seq(S) /\ Len(InsertAt(q, i, e)) = Len(q) + 1
      /\ \A j \in 1..Len(q)+1 : InsertAt(q, i, e)[j] = IF j < i THEN q[j] ELSE IF j = i THEN e ELSE q[j-1]
  BY <1>1, <1>3, <1>5, <1>6, <1>7
<1> QED BY <1>1, <1>8, LenProperties DEF WithOne

LEMMA Removed ==
  ASSUME NEW S, NEW q \in Seq(S), NEW i \in 1..Len(q)
  PROVE  RemoveAt(q, i) \in Seq(S) /\ WithoutOne(q, i, RemoveAt(q, i))
<1> DEFINE a == SubSeq(q, 1, i-1)
           b == SubSeq(q, i+1, Len(q))
<1>1. Len(q) \in Nat /\ i \in Int /\ i - 1 \in Int /\ i + 1 \in Int /\ \A j \in 1..Len(q) : q[j] \in S
  BY LenProperties
<1>2. a \in Seq(S) /\ Len(a) = i - 1 /\ \A j \in 1..i-1 : a[j] = q[j]
  <2>1. \A j \in 1..i-1 : q[j] \in S
    BY <1>1
  <2>2. /\ a \in Seq(S) /\ Len(a) = IF 1 <= i - 1 THEN (i - 1) - 1 + 1 ELSE 0
        /\ \A j \in 1..(i-1)-1+1 : a[j] = q[1 + j - 1]
    BY <1>1, <2>1, SubSeqProperties
  <2> QED BY <1>1, <2>2
<1>3. b \in Seq(S) /\ Len(b) = Len(q) - i /\ \A j \in 1..Len(q)-i : b[j] = q[i+j]
  <2>1. \A j \in i+1..Len(q) : q[j] \in S
    BY <1>1
  <2>2. /\ b \in Seq(S) /\ Len(b) = IF i + 1 <= Len(q) THEN Len(q) - (i+1) + 1 ELSE 0
        /\ \A j \in 1..Len(q)-(i+1)+1 : b[j] = q[(i+1)+j-1]
    BY <1>1, <2>1, SubSeqProperties
  <2> QED BY <1>1, <2>2
<1>4. /\ a \o b \in Seq(S) /\ Len(a \o b) = Len(a) + Len(b)
      /\ \A j \in 1..Len(a)+Len(b) : (a \o b)[j] = IF j <= Len(a) THEN a[j] ELSE b[j - Len(a)]
  BY <1>2, <1>3, ConcatProperties
<1>5. RemoveAt(q, i) = a \o b
  BY DEF RemoveAt
<1> HIDE DEF a, b
<1>6. Len(RemoveAt(q, i)) = Len(q) - 1 /\ RemoveAt(q, i) \in Seq(S)
  BY <1>1, <1>2, <1>3, <1>4, <1>5
<1>7. ASSUME NEW j \in 1..Len(q)-1
      PROVE  RemoveAt(q, i)[j] = IF j < i THEN q[j] ELSE q[j+1]
  <2>1. j \in 1..Len(a)+Len(b)
    BY <1>1, <1>2, <1>3
  <2>2. RemoveAt(q, i)[j] = IF j <= i - 1 THEN a[j] ELSE b[j - (i - 1)]
    BY <2>1, <1>2, <1>4, <1>5
  <2>3. CASE j < i
    BY <2>2, <2>3, <1>1, <1>2
  <2>4. CASE ~(j < i)
    <3>1. j - (i - 1) \in 1..Len(q)-i /\ i + (j - (i - 1)) = j + 1
      BY <2>4, <1>1
    <3> QED BY <3>1, <2>2, <2>4, <1>1, <1>3
  <2> QED BY <2>3, <2>4
<1>8. DOMAIN RemoveAt(q, i) = 1..Len(q)-1
  BY <1>6, LenProperties
<1> QED BY <1>1, <1>6, <1>7, <1>8, LenProperties DEF WithoutOne

LEMMA EntersRange ==
  ASSUME NEW S, NEW q \in Seq(S), NEW i \in 1..Len(q)+1, NEW e \in S
  PROVE  /\ Range(InsertAt(q, i, e)) = Range(q) \cup {e}
         /\ IsInjective(q) /\ e \notin Range(q) => IsInjective(InsertAt(q, i, e))
<1> DEFINE r == InsertAt(q, i, e)
<1>a. WithOne(q, i, e, r)
  BY Inserted
<1>1. /\ Len(q) \in Nat /\ DOMAIN q = 1..Len(q) /\ DOMAIN r = 1..Len(q)+1
      /\ \A j \in 1..Len(q)+1 : r[j] = IF j < i THEN q[j] ELSE IF j = i THEN e ELSE q[j-1]
  BY <1>a DEF WithOne
<1> HIDE DEF r
<1>2. \A j \in DOMAIN r : r[j] \in Range(q) \cup {e}
  <2>1. \A j \in DOMAIN q : q[j] \in Range(q)
    BY DEF Range
  <2>2. \A j \in DOMAIN r : j < i \/ j = i \/ j - 1 \in DOMAIN q
    BY <1>1
  <2> QED BY <1>1, <2>1, <2>2
<1>3. \A j \in DOMAIN q : q[j] \in Range(r)
  <2> TAKE j \in DOMAIN q
  <2>1. CASE j < i
    BY <1>1, <2>1 DEF Range
  <2>2. CASE ~(j < i)
    <3>1. j + 1 \in DOMAIN r /\ r[j+1] = q[j]
      BY <1>1, <2>2
    <3> QED BY <3>1 DEF Range
  <2> QED BY <2>1, <2>2
<1>4. e \in Range(r)
  BY <1>1 DEF Range
<1>5. ASSUME IsInjective(q), e \notin Range(q)
      PROVE  IsInjective(r)
  <2>1. \A j \in DOMAIN q : q[j] # e
    BY <1>5 DEF Range
  <2>2. \A a, b \in DOMAIN q : q[a] = q[b] => a = b
    BY <1>5 DEF IsInjective
  <2>3. SUFFICES ASSUME NEW a \in DOMAIN r, NEW b \in DOMAIN r, r[a] = r[b]
                 PROVE  a = b
    BY DEF IsInjective
  <2> DEFINE from(j) == IF j < i THEN j ELSE j - 1
  <2>4. \A j \in DOMAIN r : j # i => from(j) \in DOMAIN q /\ r[j] = q[from(j)]
    BY <1>1
  <2>5. r[i] = e /\ i \in DOMAIN r
    BY <1>1
  <2>6. a = i <=> b = i
    BY <2>1, <2>3, <2>4, <2>5
  <2>7. ASSUME a # i, b # i
        PROVE  a = b
    <3>1. from(a) = from(b)
      BY <2>2, <2>3, <2>4, <2>6, <2>7
    <3> QED BY <3>1, <2>7, <1>1
  <2> QED BY <2>6, <2>7
<1>6. Range(r) = Range(q) \cup {e}
  BY <1>2, <1>3, <1>4 DEF Range
<1> QED BY <1>5, <1>6 DEF r

LEMMA LeavesRange ==
  ASSUME NEW S, NEW q \in Seq(S), NEW i \in 1..Len(q), IsInjective(q)
  PROVE  /\ Range(RemoveAt(q, i)) = Range(q) \ {q[i]}
         /\ IsInjective(RemoveAt(q, i))
<1> DEFINE r == RemoveAt(q, i)
           from(j) == IF j < i THEN j ELSE j + 1
<1>a. WithoutOne(q, i, r)
  BY Removed
<1>1. /\ Len(q) \in Nat /\ DOMAIN q = 1..Len(q) /\ DOMAIN r = 1..Len(q)-1 /\ i \in DOMAIN q
      /\ \A j \in 1..Len(q)-1 : r[j] = IF j < i THEN q[j] ELSE q[j+1]
  BY <1>a DEF WithoutOne
<1> HIDE DEF r
<1>2. \A j \in DOMAIN r : from(j) \in DOMAIN q /\ from(j) # i /\ r[j] = q[from(j)]
  BY <1>1
<1>3. \A a, b \in DOMAIN q : q[a] = q[b] => a = b
  BY DEF IsInjective
<1>4. \A j \in DOMAIN r : r[j] \in Range(q) \ {q[i]}
  BY <1>1, <1>2, <1>3 DEF Range
<1>5. \A j \in DOMAIN q : q[j] # q[i] => q[j] \in Range(r)
  <2> TAKE j \in DOMAIN q
  <2>1. CASE j < i
    BY <1>1, <2>1 DEF Range
  <2>2. CASE j > i
    <3>1. j - 1 \in DOMAIN r /\ r[j-1] = q[j]
      BY <1>1, <2>2
    <3> QED BY <3>1 DEF Range
  <2> QED BY <2>1, <2>2, <1>1
<1>6. Range(r) = Range(q) \ {q[i]}
  BY <1>4, <1>5 DEF Range
<1>7. ASSUME NEW a \in DOMAIN r, NEW b \in DOMAIN r, r[a] = r[b]
      PROVE  a = b
  <2>1. from(a) = from(b)
    BY <1>2, <1>3, <1>7
  <2> QED BY <2>1, <1>1
<1>8. IsInjective(r)
  BY <1>7 DEF IsInjective
<1> QED BY <1>6, <1>8 DEF r

LEMMA EntersInOrder ==
  ASSUME NEW S, NEW q \in Seq(S), NEW i \in 1..Len(q)+1, NEW e \in S, NEW p, \A x \in S : p[x] \in Nat,
         \A a, b \in DOMAIN q : a < b => p[q[a]] >= p[q[b]],
         \A j \in 1..i-1 : p[q[j]] >= p[e],
         i \in DOMAIN q => p[e] >= p[q[i]]
  PROVE  \A a, b \in DOMAIN InsertAt(q, i, e) : a < b => p[InsertAt(q, i, e)[a]] >= p[InsertAt(q, i, e)[b]]
<1> DEFINE r == InsertAt(q, i, e)
<1>a. WithOne(q, i, e, r)
  BY Inserted
<1>b. \A j \in DOMAIN q : q[j] \in S
  OBVIOUS
<1>1. /\ Len(q) \in Nat /\ DOMAIN q = 1..Len(q) /\ DOMAIN r = 1..Len(q)+1 /\ \A j \in DOMAIN q : q[j] \in S
      /\ \A j \in 1..Len(q)+1 : r[j] = IF j < i THEN q[j] ELSE IF j = i THEN e ELSE q[j-1]
  BY <1>a, <1>b DEF WithOne
<1> HIDE DEF r
<1>2. \A j \in DOMAIN q : j >= i => p[e] >= p[q[j]]
  <2> TAKE j \in DOMAIN q
  <2>1. CASE j > i
    <3>1. i \in DOMAIN q /\ p[e] >= p[q[i]] /\ p[q[i]] >= p[q[j]]
      BY <1>1, <2>1
    <3>2. p[e] \in Nat /\ p[q[i]] \in Nat /\ p[q[j]] \in Nat
      BY <1>1, <3>1
    <3> QED BY <3>1, <3>2
  <2> QED BY <2>1, <1>1
<1>3. ASSUME NEW a \in DOMAIN r, NEW b \in DOMAIN r, a < b
      PROVE  p[r[a]] >= p[r[b]]
  <2>1. CASE b < i
    BY <1>1, <1>3, <2>1
  <2>2. CASE b = i
    BY <1>1, <1>3, <2>2
  <2>3. CASE b > i
    <3>1. b - 1 \in DOMAIN q /\ b - 1 >= i /\ r[b] = q[b-1]
      BY <1>1, <2>3
    <3>2. CASE a < i
      <4>1. a \in DOMAIN q /\ a < b - 1 /\ r[a] = q[a]
        BY <1>1, <3>1, <3>2
      <4> QED BY <3>1, <4>1
    <3>3. CASE a = i
      <4>1. r[a] = e
        BY <1>1, <3>3
      <4> QED BY <1>2, <3>1, <4>1
    <3>4. CASE a > i
      <4>1. a - 1 \in DOMAIN q /\ r[a] = q[a-1] /\ a - 1 < b - 1
        BY <1>1, <1>3, <3>4
      <4> QED BY <3>1, <4>1
    <3> QED BY <3>2, <3>3, <3>4, <1>1
  <2> QED BY <2>1, <2>2, <2>3, <1>1
<1> QED BY <1>3 DEF r

LEMMA LeavesInOrder ==
  ASSUME NEW S, NEW q \in Seq(S), NEW i \in 1..Len(q), NEW p, NEW r, r = RemoveAt(q, i),
         \A a, b \in DOMAIN q : a < b => p[q[a]] >= p[q[b]]
  PROVE  \A a, b \in DOMAIN r : a < b => p[r[a]] >= p[r[b]]
<1> DEFINE from(j) == IF j < i THEN j ELSE j + 1
<1>a. WithoutOne(q, i, r)
  BY Removed
<1>1. /\ Len(q) \in Nat /\ DOMAIN q = 1..Len(q) /\ DOMAIN r = 1..Len(q)-1
      /\ \A j \in 1..Len(q)-1 : r[j] = IF j < i THEN q[j] ELSE q[j+1]
  BY <1>a DEF WithoutOne
<1>2. \A j \in DOMAIN r : from(j) \in DOMAIN q /\ r[j] = q[from(j)]
  BY <1>1
<1>3. \A a, b \in DOMAIN r : a < b => from(a) < from(b)
  BY <1>1
<1> HIDE DEF from
<1> QED BY <1>2, <1>3

-----------------------------------------------------------------------------
\* What the functions of the kernel change.
\* What the functions that move tasks leave alone.
Untouched(r, s) ==
  /\ r.abort = s.abort /\ r.pri = s.pri /\ r.rtoep = s.rtoep /\ r.qx = s.qx /\ r.nmess = s.nmess
  /\ r.inReceive = s.inReceive /\ r.owed = s.owed

\* r is s after a quantum event of task t, if there are any, was added.
QuantumPut(r, s, t) ==
  /\ Kernel(r) /\ Untouched(r, s)
  /\ r.htp = s.htp /\ r.run = s.run /\ r.rtrq = s.rtrq /\ r.st = s.st
  /\ r.hp = s.hp /\ r.tep = s.tep /\ r.rct = s.rct
  /\ Quantum => r.qep = [s.qep EXCEPT ![t] = TRUE] /\ r.quanta = [s.quanta EXCEPT ![t] = @ + 1]
  /\ ~Quantum => r.qep = s.qep /\ r.quanta = s.quanta

LEMMA QuantumAdded ==
  ASSUME NEW s, Kernel(s), NEW t \in Tasks, NEW r, r = AddQuantum(s, t)
  PROVE  QuantumPut(r, s, t)
<1>1. CASE Quantum
  <2>1. r = [htp |-> s.htp, run |-> s.run, rtrq |-> s.rtrq, abort |-> s.abort, st |-> s.st, pri |-> s.pri,
             hp |-> s.hp, tep |-> s.tep, rct |-> s.rct, rtoep |-> s.rtoep, qep |-> [s.qep EXCEPT ![t] = TRUE],
             quanta |-> [s.quanta EXCEPT ![t] = @ + 1],
             qx |-> s.qx, nmess |-> s.nmess, inReceive |-> s.inReceive, owed |-> s.owed]
    BY <1>1 DEF AddQuantum, Kernel, Shape
  <2>2. Shape(r)
    BY <2>1 DEF Shape
  <2>3. Typed(r)
    BY <2>1 DEF Typed, Kernel
  <2> QED BY <1>1, <2>1, <2>2, <2>3 DEF Kernel, Untouched, QuantumPut
<1>2. CASE ~Quantum
  BY <1>2 DEF AddQuantum, Untouched, QuantumPut
<1> QED BY <1>1, <1>2

\* r is s after the quantum event of task t, if any, was removed.
QuantumGone(r, s, t) ==
  /\ Kernel(r) /\ Untouched(r, s)
  /\ r.htp = s.htp /\ r.run = s.run /\ r.rtrq = s.rtrq /\ r.st = s.st
  /\ r.hp = s.hp /\ r.tep = s.tep /\ r.rct = s.rct /\ r.qep = [s.qep EXCEPT ![t] = FALSE]
  /\ r.quanta = [s.quanta EXCEPT ![t] = IF s.qep[t] THEN @ - 1 ELSE @]

LEMMA QuantumRemoved ==
  ASSUME NEW s, Kernel(s), NEW t \in Tasks, NEW r, r = RemoveQuantum(s, t)
  PROVE  QuantumGone(r, s, t)
<1>1. r = [htp |-> s.htp, run |-> s.run, rtrq |-> s.rtrq, abort |-> s.abort, st |-> s.st, pri |-> s.pri,
           hp |-> s.hp, tep |-> s.tep, rct |-> s.rct, rtoep |-> s.rtoep, qep |-> [s.qep EXCEPT ![t] = FALSE],
           quanta |-> [s.quanta EXCEPT ![t] = IF s.qep[t] THEN @ - 1 ELSE @],
           qx |-> s.qx, nmess |-> s.nmess, inReceive |-> s.inReceive, owed |-> s.owed]
  BY DEF RemoveQuantum, Kernel, Shape
<1>2. Shape(r)
  BY <1>1 DEF Shape
<1>3. Typed(r)
  BY <1>1 DEF Typed, Kernel
<1> QED BY <1>1, <1>2, <1>3 DEF Kernel, Untouched, QuantumGone

LEMMA IsCooled ==
  ASSUME NEW s, Kernel(s), NEW r, r = Cooled(s)
  PROVE  /\ Kernel(r) /\ Untouched(r, s)
         /\ r.run = s.run /\ r.rtrq = s.rtrq /\ r.st = s.st /\ r.hp = s.hp /\ r.tep = s.tep /\ r.rct = s.rct
         /\ r.qep = s.qep /\ r.quanta = s.quanta
         /\ r.htp = IF s.htp \in Tasks /\ s.st[s.htp] # "hot" THEN Driver ELSE s.htp
<1>1. CASE s.htp \in Tasks /\ s.st[s.htp] # "hot"
  <2>1. r = [htp |-> Driver, run |-> s.run, rtrq |-> s.rtrq, abort |-> s.abort, st |-> s.st, pri |-> s.pri,
             hp |-> s.hp, tep |-> s.tep, rct |-> s.rct, rtoep |-> s.rtoep, qep |-> s.qep, quanta |-> s.quanta,
             qx |-> s.qx, nmess |-> s.nmess, inReceive |-> s.inReceive, owed |-> s.owed]
    BY <1>1 DEF Cooled, Kernel, Shape
  <2>2. Shape(r)
    BY <2>1 DEF Shape
  <2>3. Typed(r)
    BY <2>1 DEF Typed, Kernel
  <2> QED BY <1>1, <2>1, <2>2, <2>3 DEF Kernel, Untouched
<1>2. CASE ~(s.htp \in Tasks /\ s.st[s.htp] # "hot")
  <2>1. r = s
    BY <1>2 DEF Cooled
  <2> QED BY <1>2, <2>1 DEF Untouched
<1> QED BY <1>1, <1>2

\* r is s after task t was given cpu h.
StartedAs(r, s, t, h) ==
  /\ Kernel(r) /\ Untouched(r, s)
  /\ r.rtrq = s.rtrq /\ r.run = [s.run EXCEPT ![h] = t] /\ r.hp = [s.hp EXCEPT ![t] = h]
  /\ Quantum => r.qep = [s.qep EXCEPT ![t] = TRUE] /\ r.quanta = [s.quanta EXCEPT ![t] = @ + 1]
  /\ ~Quantum => r.qep = s.qep /\ r.quanta = s.quanta
  /\ r.rct = IF s.rct[t] THEN [s.rct EXCEPT ![t] = FALSE] ELSE s.rct
  /\ r.htp = IF ~s.rct[t] /\ s.htp = Driver THEN t ELSE s.htp
  /\ r.st = [s.st EXCEPT ![t] = IF s.rct[t] THEN "computing" ELSE IF s.htp = Driver THEN "hot" ELSE "blocked"]
  /\ r.tep = [s.tep EXCEPT ![t] = IF s.rct[t] THEN "END_COMPUTE" ELSE IF s.htp = Driver THEN @ ELSE "END_BLOCK"]

LEMMA IsStarted ==
  ASSUME NEW s, Kernel(s), NEW t \in Tasks, NEW h \in Hosts, NEW r, r = Start(s, t, h)
  PROVE  StartedAs(r, s, t, h)
<1> DEFINE b == [s EXCEPT !.run[h] = t, !.hp[t] = h]
           a == AddQuantum(b, t)
<1>0. Shape(s)
  BY DEF Kernel
<1>1. b = [htp |-> s.htp, run |-> [s.run EXCEPT ![h] = t], rtrq |-> s.rtrq, abort |-> s.abort, st |-> s.st, pri |-> s.pri,
           hp |-> [s.hp EXCEPT ![t] = h], tep |-> s.tep, rct |-> s.rct, rtoep |-> s.rtoep, qep |-> s.qep,
           quanta |-> s.quanta, qx |-> s.qx, nmess |-> s.nmess, inReceive |-> s.inReceive, owed |-> s.owed]
  <2>1. b = [[s EXCEPT !.run[h] = t] EXCEPT !.hp[t] = h]
    OBVIOUS
  <2>2. [s EXCEPT !.run[h] = t] = [htp |-> s.htp, run |-> [s.run EXCEPT ![h] = t], rtrq |-> s.rtrq, abort |-> s.abort, st |-> s.st, pri |-> s.pri,
           hp |-> s.hp, tep |-> s.tep, rct |-> s.rct, rtoep |-> s.rtoep, qep |-> s.qep,
           quanta |-> s.quanta, qx |-> s.qx, nmess |-> s.nmess, inReceive |-> s.inReceive, owed |-> s.owed]
    BY <1>0 DEF Shape
  <2> HIDE DEF b
  <2> QED BY <2>1, <2>2
<1>2. Kernel(b)
  <2>1. Shape(b)
    BY <1>1 DEF Shape
  <2>2. Typed(b)
    BY <1>1 DEF Typed, Kernel
  <2> QED BY <2>1, <2>2 DEF Kernel
<1>3. r = CASE s.rct[t] -> [a EXCEPT !.st[t] = "computing", !.tep[t] = "END_COMPUTE", !.rct[t] = FALSE]
            [] ~s.rct[t] /\ s.htp = Driver -> [a EXCEPT !.st[t] = "hot", !.htp = t]
            [] OTHER -> [a EXCEPT !.st[t] = "blocked", !.tep[t] = "END_BLOCK"]
  BY DEF Start
<1>4. /\ Kernel(a) /\ Untouched(a, b)
      /\ a.htp = b.htp /\ a.run = b.run /\ a.rtrq = b.rtrq /\ a.st = b.st
      /\ a.hp = b.hp /\ a.tep = b.tep /\ a.rct = b.rct
      /\ Quantum => a.qep = [b.qep EXCEPT ![t] = TRUE] /\ a.quanta = [b.quanta EXCEPT ![t] = @ + 1]
      /\ ~Quantum => a.qep = b.qep /\ a.quanta = b.quanta
  <2>1. QuantumPut(a, b, t)
    <3> HIDE DEF b
    <3> QED BY <1>2, QuantumAdded
  <2> HIDE DEF a, b
  <2> QED BY <2>1 DEF QuantumPut
<1> HIDE DEF a, b
<1>5. /\ s.rct[t] \in BOOLEAN /\ s.st \in [Tasks -> States] /\ s.tep \in [Tasks -> Events] /\ s.rct \in [Tasks -> BOOLEAN]
      /\ "computing" \in States /\ "hot" \in States /\ "blocked" \in States
      /\ "END_COMPUTE" \in Events /\ "END_BLOCK" \in Events
  BY DEF Kernel, Typed, States, Events
<1>9. Typed(a) /\ Shape(a)
  BY <1>4 DEF Kernel
<1>6. CASE s.rct[t]
  <2>1. r = [htp |-> a.htp, run |-> a.run, rtrq |-> a.rtrq, abort |-> a.abort, st |-> [a.st EXCEPT ![t] = "computing"],
             pri |-> a.pri, hp |-> a.hp, tep |-> [a.tep EXCEPT ![t] = "END_COMPUTE"], rct |-> [a.rct EXCEPT ![t] = FALSE],
             rtoep |-> a.rtoep, qep |-> a.qep, quanta |-> a.quanta, qx |-> a.qx, nmess |-> a.nmess,
             inReceive |-> a.inReceive, owed |-> a.owed]
    BY <1>3, <1>9, <1>6 DEF Shape
  <2>2. Shape(r)
    BY <2>1 DEF Shape
  <2>3. Typed(r)
    BY <2>1, <1>9 DEF Typed, States, Events
  <2> QED BY <1>1, <1>4, <1>6, <2>1, <2>2, <2>3 DEF Kernel, Untouched, StartedAs
<1>7. CASE ~s.rct[t] /\ s.htp = Driver
  <2>1. r = [htp |-> t, run |-> a.run, rtrq |-> a.rtrq, abort |-> a.abort, st |-> [a.st EXCEPT ![t] = "hot"],
             pri |-> a.pri, hp |-> a.hp, tep |-> a.tep, rct |-> a.rct,
             rtoep |-> a.rtoep, qep |-> a.qep, quanta |-> a.quanta, qx |-> a.qx, nmess |-> a.nmess,
             inReceive |-> a.inReceive, owed |-> a.owed]
    BY <1>3, <1>9, <1>7 DEF Shape
  <2>2. Shape(r)
    BY <2>1 DEF Shape
  <2>3. Typed(r)
    BY <2>1, <1>9 DEF Typed, States, Events
  <2>4. [s.tep EXCEPT ![t] = @] = s.tep
    BY <1>5
  <2> QED BY <1>1, <1>4, <1>7, <2>1, <2>2, <2>3, <2>4 DEF Kernel, Untouched, StartedAs
<1>8. CASE ~s.rct[t] /\ s.htp # Driver
  <2>1. r = [htp |-> a.htp, run |-> a.run, rtrq |-> a.rtrq, abort |-> a.abort, st |-> [a.st EXCEPT ![t] = "blocked"],
             pri |-> a.pri, hp |-> a.hp, tep |-> [a.tep EXCEPT ![t] = "END_BLOCK"], rct |-> a.rct,
             rtoep |-> a.rtoep, qep |-> a.qep, quanta |-> a.quanta, qx |-> a.qx, nmess |-> a.nmess,
             inReceive |-> a.inReceive, owed |-> a.owed]
    BY <1>3, <1>9, <1>8 DEF Shape
  <2>2. Shape(r)
    BY <2>1 DEF Shape
  <2>3. Typed(r)
    BY <2>1, <1>9 DEF Typed, States, Events
  <2> QED BY <1>1, <1>4, <1>8, <2>1, <2>2, <2>3 DEF Kernel, Untouched, StartedAs
<1> QED BY <1>5, <1>6, <1>7, <1>8

LEMMA PlaceExists ==
  ASSUME NEW s, Kernel(s), NEW t \in Tasks, NEW qx
  PROVE  \E i \in 1..Len(s.rtrq)+1 : /\ \A j \in 1..i-1 : Ahead(s, t, s.rtrq[j], qx)
                                     /\ i = Len(s.rtrq) + 1 \/ ~Ahead(s, t, s.rtrq[i], qx)
<1> DEFINE q == s.rtrq
           S == {i \in 1..Len(q)+1 : i = Len(q) + 1 \/ ~Ahead(s, t, q[i], qx)}
<1>1. Len(q) \in Nat
  BY LenProperties DEF Kernel, Typed
<1>2. S \in SUBSET Nat /\ Len(q) + 1 \in S
  BY <1>1
<1>3. PICK i \in S : \A j \in S : i <= j
  <2> HIDE DEF S
  <2> QED BY <1>2, LeastExists
<1>4. i \in 1..Len(q)+1 /\ (i = Len(q) + 1 \/ ~Ahead(s, t, q[i], qx))
  OBVIOUS
<1>5. ASSUME NEW j \in 1..i-1
      PROVE  Ahead(s, t, q[j], qx)
  <2>1. j \in 1..Len(q)+1 /\ ~(i <= j)
    BY <1>1, <1>4
  <2>2. j \notin S
    BY <2>1, <1>3
  <2> QED BY <2>1, <2>2
<1> QED BY <1>4, <1>5

\* r is s after task t entered the ready queue.
ReadyAs(r, s, t) ==
  /\ Kernel(r) /\ Untouched(r, s)
  /\ r.htp = s.htp /\ r.run = s.run /\ r.tep = s.tep /\ r.rct = s.rct /\ r.qep = s.qep /\ r.quanta = s.quanta
  /\ r.st = [s.st EXCEPT ![t] = "ready"] /\ r.hp = [s.hp EXCEPT ![t] = AnyHost]
  /\ Range(r.rtrq) = Range(s.rtrq) \cup {t}
  /\ QueueOK(s) /\ t \notin Range(s.rtrq) => QueueOK(r)

LEMMA IsReady ==
  ASSUME node \in Nodes, NEW s, Kernel(s), NEW t \in Tasks, NEW qx \in BOOLEAN, NEW r, r = Ready(s, t, qx)
  PROVE  ReadyAs(r, s, t)
<1> DEFINE q == s.rtrq
           place(i) == /\ \A j \in 1..i-1 : Ahead(s, t, q[j], qx)
                       /\ i = Len(q) + 1 \/ ~Ahead(s, t, q[i], qx)
           i == CHOOSE i \in 1..Len(q)+1 : place(i)
<1>1. i \in 1..Len(q)+1 /\ place(i)
  <2>1. \E n \in 1..Len(q)+1 : place(n)
    BY PlaceExists
  <2> QED BY <2>1
<1>2. r = [s EXCEPT !.rtrq = InsertAt(q, i, t), !.st[t] = "ready", !.hp[t] = AnyHost]
  BY DEF Ready
<1> HIDE DEF i
<1>3. Shape(s) /\ Typed(s) /\ q \in Seq(Tasks)
  BY DEF Kernel, Typed
<1>4. r = [htp |-> s.htp, run |-> s.run, rtrq |-> InsertAt(q, i, t), abort |-> s.abort, st |-> [s.st EXCEPT ![t] = "ready"],
           pri |-> s.pri, hp |-> [s.hp EXCEPT ![t] = AnyHost], tep |-> s.tep, rct |-> s.rct, rtoep |-> s.rtoep,
           qep |-> s.qep, quanta |-> s.quanta,
           qx |-> s.qx, nmess |-> s.nmess, inReceive |-> s.inReceive, owed |-> s.owed]
  BY <1>2, <1>3 DEF Shape
<1>5. Shape(r)
  BY <1>4 DEF Shape
<1>6. Typed(r)
  <2>1. InsertAt(q, i, t) \in Seq(Tasks)
    BY <1>1, <1>3, Inserted
  <2> HIDE DEF q, place
  <2> QED BY <1>3, <1>4, <2>1 DEF Typed, States
<1>7. Range(r.rtrq) = Range(s.rtrq) \cup {t}
  BY <1>1, <1>3, <1>4, EntersRange
<1>8. ASSUME QueueOK(s), t \notin Range(s.rtrq)
      PROVE  QueueOK(r)
  <2>1. IsInjective(r.rtrq)
    BY <1>1, <1>3, <1>4, <1>8, EntersRange DEF QueueOK
  <2>2. ASSUME Discipline # "FIFO"
        PROVE  \A a, b \in DOMAIN r.rtrq : a < b => s.pri[r.rtrq[a]] >= s.pri[r.rtrq[b]]
    <3>1. \A x \in Tasks : s.pri[x] \in Nat
      BY <1>3, NodesAssumption DEF Typed, NodeAssumption, Priorities
    <3>2. \A a, b \in DOMAIN q : a < b => s.pri[q[a]] >= s.pri[q[b]]
      BY <1>8, <2>2 DEF QueueOK, Sorted
    <3>3. Len(q) \in Nat /\ DOMAIN q = 1..Len(q) /\ \A j \in DOMAIN q : q[j] \in Tasks
      BY <1>3, LenProperties
    <3>4. ASSUME NEW j \in 1..i-1
          PROVE  s.pri[q[j]] >= s.pri[t]
      <4>1. Ahead(s, t, q[j], qx)
        BY <1>1
      <4>2. q[j] \in Tasks
        BY <3>3, <1>1
      <4> QED BY <4>1, <4>2, <3>1, <2>2 DEF Ahead
    <3>5. ASSUME i \in DOMAIN q
          PROVE  s.pri[t] >= s.pri[q[i]]
      <4>1. ~Ahead(s, t, q[i], qx) /\ q[i] \in Tasks
        BY <1>1, <3>3, <3>5
      <4> QED BY <4>1, <3>1, <2>2 DEF Ahead
    <3>6. \A a, b \in DOMAIN InsertAt(q, i, t) : a < b => s.pri[InsertAt(q, i, t)[a]] >= s.pri[InsertAt(q, i, t)[b]]
      <4> HIDE DEF q
      <4> QED BY <1>1, <1>3, <3>1, <3>2, <3>4, <3>5, EntersInOrder
    <3> QED BY <3>6, <1>4
  <2>3. r.pri = s.pri
    BY <1>4
  <2> QED BY <2>1, <2>2, <2>3 DEF QueueOK, Sorted
<1> QED BY <1>4, <1>5, <1>6, <1>7, <1>8 DEF Kernel, Untouched, ReadyAs

\* s without the task at position i of the ready queue.
Without(s, i) == [s EXCEPT !.rtrq = RemoveAt(@, i)]

LEMMA IsRemoved ==
  ASSUME NEW s, Kernel(s), QueueOK(s), NEW i \in DOMAIN s.rtrq, NEW r, r = Without(s, i)
  PROVE  /\ Kernel(r) /\ Untouched(r, s) /\ s.rtrq[i] \in Tasks
         /\ r.htp = s.htp /\ r.run = s.run /\ r.tep = s.tep /\ r.rct = s.rct /\ r.qep = s.qep /\ r.quanta = s.quanta
         /\ r.st = s.st /\ r.hp = s.hp /\ r.rtrq = RemoveAt(s.rtrq, i)
         /\ Range(r.rtrq) = Range(s.rtrq) \ {s.rtrq[i]} /\ QueueOK(r)
<1> DEFINE q == s.rtrq
<1>1. Shape(s) /\ Typed(s) /\ q \in Seq(Tasks) /\ i \in 1..Len(q) /\ q[i] \in Tasks
  <2>1. Shape(s) /\ Typed(s)
    BY DEF Kernel
  <2>2. q \in Seq(Tasks)
    BY <2>1 DEF Typed
  <2>3. i \in 1..Len(q)
    BY <2>2, LenProperties
  <2> QED BY <2>1, <2>2, <2>3, ElementOfSeq
<1>2. r = [htp |-> s.htp, run |-> s.run, rtrq |-> RemoveAt(q, i), abort |-> s.abort, st |-> s.st,
           pri |-> s.pri, hp |-> s.hp, tep |-> s.tep, rct |-> s.rct, rtoep |-> s.rtoep,
           qep |-> s.qep, quanta |-> s.quanta,
           qx |-> s.qx, nmess |-> s.nmess, inReceive |-> s.inReceive, owed |-> s.owed]
  BY <1>1 DEF Shape, Without
<1>3. Shape(r)
  BY <1>2 DEF Shape
<1>4. Typed(r)
  <2>1. RemoveAt(q, i) \in Seq(Tasks)
    BY <1>1, Removed
  <2>2. Typed(s) /\ r.rtrq \in Seq(Tasks)
    BY <1>1, <1>2, <2>1
  <2> HIDE DEF q
  <2> QED BY <1>2, <2>2 DEF Typed
<1>5. Range(r.rtrq) = Range(q) \ {q[i]} /\ IsInjective(r.rtrq)
  BY <1>1, <1>2, LeavesRange DEF QueueOK
<1>6. Sorted(r)
  <2>1. Sorted(s) /\ r.rtrq = RemoveAt(s.rtrq, i) /\ r.pri = s.pri
    BY <1>2 DEF QueueOK
  <2> QED BY <1>1, <2>1, LeavesInOrder DEF Sorted
<1> QED BY <1>1, <1>2, <1>3, <1>4, <1>5, <1>6 DEF Kernel, Untouched, QueueOK

-----------------------------------------------------------------------------
\* A task that the step does not touch stays as well off as it was.
SameTask(r, s, t) ==
  /\ r.st[t] = s.st[t] /\ r.hp[t] = s.hp[t] /\ r.tep[t] = s.tep[t] /\ r.rct[t] = s.rct[t] /\ r.rtoep[t] = s.rtoep[t]
  /\ r.qep[t] = s.qep[t] /\ r.quanta[t] = s.quanta[t] /\ r.qx[t] = s.qx[t] /\ r.nmess[t] = s.nmess[t]
  /\ r.owed[t] = s.owed[t]

LEMMA StaysWellOff ==
  ASSUME NEW s, NEW r, NEW t, NEW G, NEW H, WellOff(s, t, G), SameTask(r, s, t), CpuOf(r, t, H),
         t \in Range(r.rtrq) <=> t \in Range(s.rtrq), s.st[t] = "hot" => r.htp = t
  PROVE  WellOff(r, t, H)
<1>1. Placed(r, t, H)
  BY DEF WellOff, Placed, SameTask
<1>2. MessagesOf(r, t)
  BY DEF WellOff, MessagesOf, SameTask
<1>3. QuantaEnd => QuantaOf(r, t)
  BY DEF WellOff, QuantaOf, SameTask
<1>4. Timely => TimeOf(r, t)
  BY DEF WellOff, TimeOf, SameTask
<1> QED BY <1>1, <1>2, <1>3, <1>4 DEF WellOff

LEMMA StaysMoving ==
  ASSUME NEW s, NEW r, NEW t, NEW G, NEW H, Moving(s, t, G), SameTask(r, s, t), \A g \in H : r.run[g] # t,
         t \in Range(r.rtrq) => t \in Range(s.rtrq)
  PROVE  Moving(r, t, H)
  BY DEF Moving, SameTask

\* What the states of a task say.
LEMMA StateNames ==
  /\ \A st \in {"hot", "computing", "blocked"} : st \in OnCpu /\ st \notin Uninterruptible
  /\ \A st \in Uninterruptible : st \in OnCpu
  /\ \A st \in {"free", "suspended", "ready", "sleeping", "receiving"} : st \notin OnCpu /\ st \notin Uninterruptible
  /\ None \notin Tasks /\ Driver \notin Tasks /\ Outside \notin Tasks /\ Driver # Outside
  /\ AnyHost \notin Hosts
  BY NodesAssumption DEF OnCpu, Uninterruptible, Hosts, AnyHost, Driver, Outside

LEMMA CoolingKeeps ==
  ASSUME NEW s, NEW T, T \subseteq Tasks, NEW H, FineFor(s, T, H), NEW r, r = Cooled(s)
  PROVE  /\ FineFor(r, T, H) /\ HotIs(r) /\ (r.htp = s.htp \/ r.htp = Driver)
         /\ \A t \in Tasks : Moving(s, t, H) => Moving(r, t, H)
<1>1. /\ Kernel(r) /\ Untouched(r, s)
      /\ r.run = s.run /\ r.rtrq = s.rtrq /\ r.st = s.st /\ r.hp = s.hp /\ r.tep = s.tep /\ r.rct = s.rct
      /\ r.qep = s.qep /\ r.quanta = s.quanta
      /\ r.htp = IF s.htp \in Tasks /\ s.st[s.htp] # "hot" THEN Driver ELSE s.htp
  BY IsCooled DEF FineFor
<1>2. \A t \in Tasks : SameTask(r, s, t)
  BY <1>1 DEF SameTask, Untouched
<1>3. ASSUME NEW t \in T
      PROVE  WellOff(r, t, H)
  <2>1. WellOff(s, t, H) /\ CpuOf(s, t, H) /\ (s.st[t] = "hot" => s.htp = t)
    BY DEF FineFor, WellOff, Placed
  <2>2. CpuOf(r, t, H) /\ (s.st[t] = "hot" => r.htp = t)
    BY <1>1, <2>1 DEF CpuOf
  <2> QED BY <1>1, <1>2, <2>1, <2>2, StaysWellOff
<1>4. QueueOK(r)
  BY <1>1 DEF FineFor, QueueOK, Sorted, Untouched
<1>5. Exchangeable => \A h \in H : UsedWell(r, h)
  BY <1>1 DEF FineFor, UsedWell, Serves, Untouched
<1>6. HotIs(r)
  BY <1>1, StateNames DEF HotIs
<1>7. ASSUME NEW t \in Tasks, Moving(s, t, H)
      PROVE  Moving(r, t, H)
  BY <1>1, <1>2, <1>7, StaysMoving DEF Moving
<1> QED BY <1>1, <1>3, <1>4, <1>5, <1>6, <1>7 DEF FineFor

LEMMA ReadyKeeps ==
  ASSUME node \in Nodes, NEW s, NEW T, T \subseteq Tasks, NEW H, H \subseteq Hosts, NEW t \in Tasks,
         FineFor(s, T \ {t}, H), Moving(s, t, H),
         Exchangeable => \A h \in H : Serves(s, h, t),
         NEW qx \in BOOLEAN, NEW r, r = Ready(s, t, qx)
  PROVE  /\ FineFor(r, T \cup {t}, H)
         /\ \A u \in Tasks \ {t} : Moving(s, u, H) => Moving(r, u, H)
<1>0. Kernel(s) /\ QueueOK(s) /\ t \notin Range(s.rtrq)
  BY DEF FineFor, Moving
<1>1. /\ Kernel(r) /\ Untouched(r, s)
      /\ r.htp = s.htp /\ r.run = s.run /\ r.tep = s.tep /\ r.rct = s.rct /\ r.qep = s.qep /\ r.quanta = s.quanta
      /\ r.st = [s.st EXCEPT ![t] = "ready"] /\ r.hp = [s.hp EXCEPT ![t] = AnyHost]
      /\ Range(r.rtrq) = Range(s.rtrq) \cup {t} /\ QueueOK(r)
  <2>1. ReadyAs(r, s, t)
    BY <1>0, IsReady
  <2> QED BY <1>0, <2>1 DEF ReadyAs
<1>2. \A u \in Tasks \ {t} : SameTask(r, s, u)
  BY <1>0, <1>1 DEF SameTask, Untouched, Kernel, Typed
<1>3. r.st[t] = "ready" /\ r.hp[t] = AnyHost
  BY <1>0, <1>1 DEF Kernel, Typed
<1>4. ASSUME NEW u \in T \ {t}
      PROVE  WellOff(r, u, H)
  <2>1. WellOff(s, u, H) /\ CpuOf(s, u, H) /\ (s.st[u] = "hot" => s.htp = u) /\ SameTask(r, s, u)
    BY <1>2 DEF FineFor, WellOff, Placed
  <2>2. CpuOf(r, u, H)
    BY <1>1, <2>1 DEF CpuOf, SameTask
  <2>3. u \in Range(r.rtrq) <=> u \in Range(s.rtrq)
    BY <1>1
  <2> QED BY <1>1, <2>1, <2>2, <2>3, StaysWellOff
<1>5. WellOff(r, t, H)
  <2>1. CpuOf(r, t, H)
    BY <1>1, <1>3, StateNames DEF CpuOf, Moving
  <2>2. Placed(r, t, H)
    BY <1>1, <1>3, <2>1 DEF Placed, Moving, EventsOf, Legal, Uninterruptible, None
  <2>3. MessagesOf(r, t)
    BY <1>1, <1>3 DEF MessagesOf, Moving, Untouched
  <2>4. QuantaEnd => QuantaOf(r, t)
    BY <1>1, <1>3 DEF QuantaOf, Moving, Untouched
  <2>5. Timely => TimeOf(r, t)
    BY <1>1, <1>3 DEF TimeOf, Moving, Untouched
  <2> QED BY <2>2, <2>3, <2>4, <2>5 DEF WellOff
<1>6. ASSUME Exchangeable, NEW h \in H
      PROVE  UsedWell(r, h)
  <2>1. r.pri = s.pri /\ r.run = s.run /\ s.run[h] # t /\ s.run[h] \in Tasks \cup {None}
    BY <1>0, <1>1 DEF Untouched, Moving, Kernel, Typed
  <2>2. s.run[h] # None => r.st[s.run[h]] = s.st[s.run[h]]
    BY <1>2, <2>1 DEF SameTask
  <2>3. \A u \in Range(r.rtrq) : Serves(s, h, u)
    BY <1>1, <1>6 DEF FineFor, UsedWell
  <2> QED BY <2>1, <2>2, <2>3 DEF UsedWell, Serves
<1>7. ASSUME NEW u \in Tasks \ {t}, Moving(s, u, H)
      PROVE  Moving(r, u, H)
  <2>1. SameTask(r, s, u) /\ (\A g \in H : r.run[g] # u) /\ (u \in Range(r.rtrq) => u \in Range(s.rtrq))
    BY <1>1, <1>2, <1>7 DEF Moving
  <2> QED BY <1>7, <2>1, StaysMoving
<1> QED BY <1>1, <1>4, <1>5, <1>6, <1>7 DEF FineFor

LEMMA RemovalKeeps ==
  ASSUME node \in Nodes, NEW s, NEW T, T \subseteq Tasks, NEW H, FineFor(s, T, H),
         NEW i \in DOMAIN s.rtrq, NEW t, t = s.rtrq[i], t \in T, NEW r, r = Without(s, i)
  PROVE  /\ FineFor(r, T \ {t}, H) /\ Moving(r, t, H) /\ s.st[t] = "ready"
         /\ r.htp = s.htp /\ r.run = s.run /\ r.st = s.st /\ r.pri = s.pri /\ r.rct = s.rct
         /\ Range(r.rtrq) = Range(s.rtrq) \ {t}
<1>1. /\ Kernel(r) /\ Untouched(r, s)
      /\ r.htp = s.htp /\ r.run = s.run /\ r.tep = s.tep /\ r.rct = s.rct /\ r.qep = s.qep /\ r.quanta = s.quanta
      /\ r.st = s.st /\ r.hp = s.hp
      /\ Range(r.rtrq) = Range(s.rtrq) \ {t} /\ QueueOK(r)
  BY IsRemoved DEF FineFor
<1>2. \A u \in Tasks : SameTask(r, s, u)
  BY <1>1 DEF SameTask, Untouched
<1>3. ASSUME NEW u \in T \ {t}
      PROVE  WellOff(r, u, H)
  <2>1. WellOff(s, u, H) /\ CpuOf(s, u, H) /\ (s.st[u] = "hot" => s.htp = u) /\ SameTask(r, s, u)
    BY <1>2 DEF FineFor, WellOff, Placed
  <2>2. CpuOf(r, u, H)
    BY <1>1, <2>1 DEF CpuOf
  <2> QED BY <1>1, <2>1, <2>2, StaysWellOff
<1>4. WellOff(s, t, H) /\ s.st[t] = "ready"
  BY DEF FineFor, WellOff, Placed, Range
<1>5. Moving(r, t, H)
  <2>1. t \notin Range(r.rtrq) /\ \A h \in H : r.run[h] # t
    BY <1>1, <1>4, StateNames DEF WellOff, Placed, CpuOf
  <2>2. s.tep[t] = None
    BY <1>4 DEF WellOff, Placed, EventsOf, Uninterruptible
  <2>3. s.nmess[t] \in 0..MaxMessages+1 /\ (s.rtoep[t] => "timed" \in Calls /\ "suspend" \in Calls)
    BY <1>4 DEF WellOff, MessagesOf
  <2>4. QuantaEnd => s.quanta[t] = 0 /\ ~s.qep[t] /\ ~s.qx[t]
    BY <1>4, StateNames DEF WellOff, QuantaOf
  <2>5. Timely => (s.owed[t] => s.rct[t])
    BY <1>4 DEF WellOff, TimeOf
  <2> QED BY <1>1, <2>1, <2>2, <2>3, <2>4, <2>5 DEF Moving, Untouched
<1>6. Exchangeable => \A h \in H : UsedWell(r, h)
  BY <1>1 DEF FineFor, UsedWell, Serves, Untouched
<1> QED BY <1>1, <1>3, <1>4, <1>5, <1>6 DEF FineFor, Untouched

LEMMA StartKeeps ==
  ASSUME node \in Nodes, NEW s, NEW t \in Tasks, NEW h \in Hosts,
         FineFor(s, Tasks \ {t}, Hosts \ {h}), Moving(s, t, Hosts \ {h}), HotIs(s), s.htp # t,
         Exchangeable /\ Discipline = "PR" => \A u \in Range(s.rtrq) : MayRunOn(u, h) => s.pri[u] <= s.pri[t],
         NEW r, r = Start(s, t, h)
  PROVE  Fine(r) /\ r.abort = s.abort
<1>0. Kernel(s) /\ QueueOK(s) /\ t \notin Range(s.rtrq) /\ s.rct[t] \in BOOLEAN
  BY DEF FineFor, Moving, Kernel, Typed
<1>1. /\ Kernel(r) /\ Untouched(r, s)
      /\ r.rtrq = s.rtrq /\ r.run = [s.run EXCEPT ![h] = t] /\ r.hp = [s.hp EXCEPT ![t] = h]
      /\ Quantum => r.qep = [s.qep EXCEPT ![t] = TRUE] /\ r.quanta = [s.quanta EXCEPT ![t] = @ + 1]
      /\ ~Quantum => r.qep = s.qep /\ r.quanta = s.quanta
      /\ r.rct = IF s.rct[t] THEN [s.rct EXCEPT ![t] = FALSE] ELSE s.rct
      /\ r.htp = IF ~s.rct[t] /\ s.htp = Driver THEN t ELSE s.htp
      /\ r.st = [s.st EXCEPT ![t] = IF s.rct[t] THEN "computing" ELSE IF s.htp = Driver THEN "hot" ELSE "blocked"]
      /\ r.tep = [s.tep EXCEPT ![t] = IF s.rct[t] THEN "END_COMPUTE" ELSE IF s.htp = Driver THEN @ ELSE "END_BLOCK"]
  <2>1. StartedAs(r, s, t, h)
    BY <1>0, IsStarted
  <2> QED BY <2>1 DEF StartedAs
<1>2. \A u \in Tasks \ {t} : SameTask(r, s, u)
  <2>1. Typed(s)
    BY <1>0 DEF Kernel
  <2> QED BY <1>1, <2>1 DEF SameTask, Untouched, Typed
<1>3. /\ r.hp[t] = h /\ r.run[h] = t /\ \A g \in Hosts \ {h} : r.run[g] = s.run[g]
      /\ r.st[t] = IF s.rct[t] THEN "computing" ELSE IF s.htp = Driver THEN "hot" ELSE "blocked"
      /\ r.tep[t] = IF s.rct[t] THEN "END_COMPUTE" ELSE IF s.htp = Driver THEN s.tep[t] ELSE "END_BLOCK"
      /\ ~r.rct[t]
      /\ QuantaEnd => r.quanta[t] = IF r.qep[t] THEN 1 ELSE 0
      /\ QuantaEnd /\ r.qep[t] => Quantum
  <2>1. Typed(s)
    BY <1>0 DEF Kernel
  <2> QED BY <1>1, <2>1 DEF Typed, Moving
<1>4. r.st[t] \in {"hot", "computing", "blocked"}
  BY <1>3
<1>5. ASSUME NEW u \in Tasks \ {t}
      PROVE  WellOff(r, u, Hosts)
  <2>1. WellOff(s, u, Hosts \ {h}) /\ CpuOf(s, u, Hosts \ {h}) /\ (s.st[u] = "hot" => s.htp = u) /\ SameTask(r, s, u)
    BY <1>2, <1>5 DEF FineFor, WellOff, Placed
  <2>2. CpuOf(r, u, Hosts)
    BY <1>3, <1>5, <2>1 DEF CpuOf, SameTask
  <2>3. s.st[u] = "hot" => r.htp = u
    BY <1>1, <2>1, StateNames
  <2> QED BY <1>1, <2>1, <2>2, <2>3, StaysWellOff
<1>6. WellOff(r, t, Hosts)
  <2>1. CpuOf(r, t, Hosts)
    BY <1>3, <1>4, StateNames DEF CpuOf, Moving
  <2>2. t \notin Range(r.rtrq) /\ r.st[t] # "ready" /\ (r.st[t] = "hot" => r.htp = t)
    BY <1>0, <1>1, <1>3
  <2>3. r.tep[t] \in EventsOf(r.st[t]) /\ Legal(r.st[t], r.tep[t])
    BY <1>0, <1>3 DEF Moving, EventsOf, Legal, Uninterruptible, None
  <2>4. Placed(r, t, Hosts)
    BY <2>1, <2>2, <2>3 DEF Placed
  <2>5. MessagesOf(r, t)
    BY <1>1, <1>4 DEF MessagesOf, Moving, Untouched
  <2>6. QuantaEnd => QuantaOf(r, t)
    BY <1>1, <1>3, <1>4, StateNames DEF QuantaOf, Moving, Untouched
  <2>7. Timely => TimeOf(r, t)
    BY <1>0, <1>1, <1>3 DEF TimeOf, Moving, Untouched
  <2> QED BY <2>4, <2>5, <2>6, <2>7 DEF WellOff
<1>7. ASSUME Exchangeable, NEW g \in Hosts
      PROVE  UsedWell(r, g)
  <2>1. r.pri = s.pri /\ r.rtrq = s.rtrq
    BY <1>1 DEF Untouched
  <2>2. CASE g = h
    BY <1>3, <1>7, <2>1, <2>2, StateNames DEF UsedWell, Serves
  <2>3. CASE g # h
    <3>1. UsedWell(s, g) /\ r.run[g] = s.run[g] /\ s.run[g] # t /\ s.run[g] \in Tasks \cup {None}
      BY <1>0, <1>3, <1>7, <2>3 DEF FineFor, Moving, Kernel, Typed
    <3>2. s.run[g] # None => r.st[s.run[g]] = s.st[s.run[g]]
      BY <1>2, <3>1 DEF SameTask
    <3> QED BY <2>1, <3>1, <3>2 DEF UsedWell, Serves
  <2> QED BY <2>2, <2>3
<1>8. QueueOK(r) /\ r.abort = s.abort
  BY <1>0, <1>1 DEF QueueOK, Sorted, Untouched
<1>9. HotIs(r)
  <2>1. CASE r.htp = t
    <3>1. ~s.rct[t] /\ s.htp = Driver
      BY <1>1, <2>1
    <3> QED BY <1>3, <2>1, <3>1 DEF HotIs
  <2>2. CASE r.htp # t
    <3>1. r.htp = s.htp
      BY <1>1, <2>2
    <3> QED BY <1>2, <2>2, <3>1 DEF HotIs, SameTask
  <2> QED BY <2>1, <2>2
<1> QED BY <1>1, <1>5, <1>6, <1>7, <1>8, <1>9 DEF Fine, FineFor

\* Task p gives up cpu h: all is still well with the other tasks and cpus.
LEMMA GivingUp ==
  ASSUME NEW s, NEW T, T \subseteq Tasks, FineFor(s, T, Hosts), NEW h \in Hosts, NEW p, p = s.run[h],
         NEW r, Kernel(r), Untouched(r, s), r.htp = s.htp, r.run = s.run, r.rtrq = s.rtrq, r.st = s.st,
         \A u \in Tasks \ {p} : SameTask(r, s, u)
  PROVE  /\ FineFor(r, T \ {p}, Hosts \ {h})
         /\ \A u \in Tasks \ {p} : Moving(s, u, Hosts) => Moving(r, u, Hosts \ {h})
<1>1. ASSUME NEW u \in T \ {p}
      PROVE  WellOff(r, u, Hosts \ {h})
  <2>1. WellOff(s, u, Hosts) /\ CpuOf(s, u, Hosts) /\ (s.st[u] = "hot" => s.htp = u) /\ SameTask(r, s, u)
    BY DEF FineFor, WellOff, Placed
  <2>2. CpuOf(r, u, Hosts \ {h})
    BY <2>1 DEF CpuOf, SameTask
  <2> QED BY <2>1, <2>2, StaysWellOff
<1>2. ASSUME NEW u \in Tasks \ {p}, Moving(s, u, Hosts)
      PROVE  Moving(r, u, Hosts \ {h})
  <2>1. SameTask(r, s, u) /\ (\A g \in Hosts \ {h} : r.run[g] # u) /\ (u \in Range(r.rtrq) => u \in Range(s.rtrq))
    BY <1>2 DEF Moving
  <2> QED BY <1>2, <2>1, StaysMoving
<1>3. QueueOK(r)
  BY DEF FineFor, QueueOK, Sorted, Untouched
<1>4. Exchangeable => \A g \in Hosts \ {h} : UsedWell(r, g)
  BY DEF FineFor, UsedWell, Serves, Untouched
<1> QED BY <1>1, <1>2, <1>3, <1>4 DEF FineFor

LEMMA FindReadyKeeps ==
  ASSUME node \in Nodes, NEW s, NEW h \in Hosts, FineFor(s, Tasks, Hosts \ {h}), NEW r, r = FindReady(s, h)
  PROVE  Fine(r) /\ r.abort = s.abort
<1> DEFINE c == Cooled(s)
           fit == Fitting(c, h)
           i == CHOOSE i \in fit : \A j \in fit : i <= j
<1>0. r = IF fit = {} THEN [c EXCEPT !.run[h] = None] ELSE Start([c EXCEPT !.rtrq = RemoveAt(@, i)], c.rtrq[i], h)
  BY DEF FindReady
<1>1. FineFor(c, Tasks, Hosts \ {h}) /\ HotIs(c)
  BY CoolingKeeps
<1>2. c.abort = s.abort
  BY IsCooled DEF FineFor, Untouched
<1>3. Shape(c) /\ Typed(c)
  BY <1>1 DEF FineFor, Kernel
<1> HIDE DEF c
<1>4. CASE fit = {}
  <2>1. r = [htp |-> c.htp, run |-> [c.run EXCEPT ![h] = None], rtrq |-> c.rtrq, abort |-> c.abort, st |-> c.st,
             pri |-> c.pri, hp |-> c.hp, tep |-> c.tep, rct |-> c.rct, rtoep |-> c.rtoep, qep |-> c.qep,
             quanta |-> c.quanta, qx |-> c.qx, nmess |-> c.nmess, inReceive |-> c.inReceive, owed |-> c.owed]
    BY <1>0, <1>3, <1>4 DEF Shape
  <2>2. Kernel(r)
    <3>1. Shape(r)
      BY <2>1 DEF Shape
    <3>2. Typed(r)
      BY <2>1, <1>3 DEF Typed
    <3> QED BY <3>1, <3>2 DEF Kernel
  <2>3. r.run[h] = None /\ \A g \in Hosts \ {h} : r.run[g] = c.run[g]
    BY <2>1, <1>3 DEF Typed
  <2>4. \A u \in Tasks : SameTask(r, c, u)
    BY <2>1 DEF SameTask
  <2>5. ASSUME NEW u \in Tasks
        PROVE  WellOff(r, u, Hosts)
    <3>1. WellOff(c, u, Hosts \ {h}) /\ CpuOf(c, u, Hosts \ {h}) /\ (c.st[u] = "hot" => c.htp = u) /\ SameTask(r, c, u)
      BY <1>1, <2>4 DEF FineFor, WellOff, Placed
    <3>2. CpuOf(r, u, Hosts)
      BY <2>3, <3>1, StateNames DEF CpuOf, SameTask
    <3>3. r.htp = c.htp /\ r.rtrq = c.rtrq
      BY <2>1
    <3> QED BY <3>1, <3>2, <3>3, StaysWellOff
  <2>6. QueueOK(r) /\ HotIs(r)
    BY <1>1, <2>1 DEF FineFor, QueueOK, Sorted, HotIs
  <2>7. ASSUME Exchangeable, NEW g \in Hosts
        PROVE  UsedWell(r, g)
    <3>1. CASE g = h
      <4>1. \A u \in Range(r.rtrq) : ~MayRunOn(u, h)
        BY <1>4, <2>1 DEF Range, Fitting
      <4> QED BY <3>1, <4>1 DEF UsedWell, Serves
    <3>2. CASE g # h
      <4>1. UsedWell(c, g) /\ r.run[g] = c.run[g] /\ r.rtrq = c.rtrq /\ r.st = c.st /\ r.pri = c.pri
        BY <1>1, <2>1, <2>3, <2>7, <3>2 DEF FineFor
      <4> QED BY <4>1 DEF UsedWell, Serves
    <3> QED BY <3>1, <3>2
  <2>8. r.abort = s.abort
    BY <2>1, <1>2
  <2> QED BY <2>2, <2>5, <2>6, <2>7, <2>8 DEF Fine, FineFor
<1>5. CASE fit # {}
  <2>1. c.rtrq \in Seq(Tasks) /\ DOMAIN c.rtrq \subseteq Nat
    BY <1>3, LenProperties DEF Typed
  <2>2. fit \in SUBSET Nat
    BY <2>1 DEF Fitting
  <2>3. i \in fit /\ \A j \in fit : i <= j
    <3>1. \E n \in fit : \A j \in fit : n <= j
      <4> HIDE DEF fit
      <4> QED BY <1>5, <2>2, LeastExists
    <3> QED BY <3>1
  <2> HIDE DEF i
  <2>4. i \in DOMAIN c.rtrq /\ c.rtrq[i] \in Tasks
    BY <2>1, <2>3, ElementOfSeq, LenProperties DEF Fitting
  <2> DEFINE t == c.rtrq[i]
             d == Without(c, i)
  <2>5. /\ FineFor(d, Tasks \ {t}, Hosts \ {h}) /\ Moving(d, t, Hosts \ {h}) /\ c.st[t] = "ready"
        /\ d.htp = c.htp /\ d.run = c.run /\ d.st = c.st /\ d.pri = c.pri
        /\ Range(d.rtrq) = Range(c.rtrq) \ {t}
    <3>1. t = c.rtrq[i] /\ d = Without(c, i) /\ t \in Tasks /\ Tasks \subseteq Tasks
      BY <2>4
    <3> HIDE DEF t, d
    <3> QED BY <1>1, <2>4, <3>1, RemovalKeeps
  <2>6. d.abort = c.abort
    BY <1>3 DEF Shape, Without
  <2> HIDE DEF d
  <2>7. HotIs(d) /\ d.htp # t
    BY <1>1, <2>4, <2>5 DEF HotIs
  <2>8. ASSUME Discipline = "PR", NEW u \in Range(d.rtrq), MayRunOn(u, h)
        PROVE  d.pri[u] <= d.pri[t]
    <3>1. PICK j \in DOMAIN c.rtrq : c.rtrq[j] = u /\ u # t
      BY <2>5, <2>8 DEF Range
    <3>2. j \in fit /\ i \in Nat /\ j \in Nat /\ j # i
      BY <3>1, <2>1, <2>4, <2>8 DEF Fitting
    <3>3. i < j
      BY <3>2, <2>3
    <3>4. c.pri[t] >= c.pri[u]
      BY <3>1, <3>3, <2>4, <2>8, <1>1 DEF FineFor, QueueOK, Sorted
    <3>5. c.pri[t] \in Nat /\ c.pri[u] \in Nat
      <4>1. u \in Tasks
        BY <3>1, <2>1, ElementOfSeq, LenProperties
      <4> QED BY <4>1, <2>4, <1>3, NodesAssumption DEF Typed, NodeAssumption, Priorities
    <3> QED BY <3>4, <3>5, <2>5
  <2>9. r = Start(d, t, h)
    BY <1>0, <1>5 DEF d, Without
  <2>10. Fine(r) /\ r.abort = d.abort
    <3> HIDE DEF t
    <3> QED BY <2>4, <2>5, <2>7, <2>8, <2>9, StartKeeps DEF t
  <2> QED BY <2>6, <2>10, <1>2
<1> QED BY <1>4, <1>5

\* Task t takes the place of the hot task on cpu h.
HotOn(s, t, h) == [s EXCEPT !.htp = t, !.run[h] = t, !.hp[t] = h, !.st[t] = "hot"]

LEMMA TakingOver ==
  ASSUME node \in Nodes, NEW s, NEW t \in Tasks, NEW h \in Hosts,
         FineFor(s, Tasks \ {t}, Hosts \ {h}), Moving(s, t, Hosts \ {h}),
         \A u \in Tasks \ {t} : s.st[u] # "hot",
         Timely => ~s.rct[t],
         Exchangeable /\ Discipline = "PR" => \A u \in Range(s.rtrq) : MayRunOn(u, h) => s.pri[u] <= s.pri[t],
         NEW r, r = HotOn(s, t, h)
  PROVE  Fine(r) /\ r.abort = s.abort
<1>0. Kernel(s) /\ QueueOK(s) /\ t \notin Range(s.rtrq) /\ Shape(s) /\ Typed(s)
  BY DEF FineFor, Moving, Kernel
<1>1. r = [htp |-> t, run |-> [s.run EXCEPT ![h] = t], rtrq |-> s.rtrq, abort |-> s.abort,
           st |-> [s.st EXCEPT ![t] = "hot"], pri |-> s.pri, hp |-> [s.hp EXCEPT ![t] = h], tep |-> s.tep,
           rct |-> s.rct, rtoep |-> s.rtoep, qep |-> s.qep, quanta |-> s.quanta, qx |-> s.qx, nmess |-> s.nmess,
           inReceive |-> s.inReceive, owed |-> s.owed]
  BY <1>0 DEF Shape, HotOn
<1>2. Kernel(r) /\ Untouched(r, s)
  <2>1. Shape(r)
    BY <1>1 DEF Shape
  <2>2. Typed(r)
    BY <1>0, <1>1 DEF Typed, States
  <2> QED BY <1>1, <2>1, <2>2 DEF Kernel, Untouched
<1>3. /\ r.run[h] = t /\ \A g \in Hosts \ {h} : r.run[g] = s.run[g]
      /\ r.hp[t] = h /\ r.st[t] = "hot" /\ \A u \in Tasks \ {t} : SameTask(r, s, u)
  BY <1>0, <1>1 DEF Typed, SameTask
<1>4. r.rtrq = s.rtrq /\ r.tep = s.tep /\ r.rct = s.rct /\ r.qep = s.qep /\ r.quanta = s.quanta /\ r.htp = t
  BY <1>1
<1>5. ASSUME NEW u \in Tasks \ {t}
      PROVE  WellOff(r, u, Hosts)
  <2>1. WellOff(s, u, Hosts \ {h}) /\ CpuOf(s, u, Hosts \ {h}) /\ s.st[u] # "hot" /\ SameTask(r, s, u)
    BY <1>3, <1>5 DEF FineFor, WellOff, Placed
  <2>2. CpuOf(r, u, Hosts)
    BY <1>3, <1>5, <2>1 DEF CpuOf, SameTask
  <2> QED BY <1>4, <2>1, <2>2, StaysWellOff
<1>6. WellOff(r, t, Hosts)
  <2>1. CpuOf(r, t, Hosts)
    BY <1>3, StateNames DEF CpuOf, Moving
  <2>2. Placed(r, t, Hosts)
    BY <1>0, <1>3, <1>4, <2>1 DEF Placed, Moving, EventsOf, Legal, Uninterruptible, None
  <2>3. MessagesOf(r, t)
    BY <1>2, <1>3 DEF MessagesOf, Moving, Untouched
  <2>4. QuantaEnd => QuantaOf(r, t)
    BY <1>2, <1>3, <1>4, StateNames DEF QuantaOf, Moving, Untouched
  <2>5. Timely => TimeOf(r, t)
    BY <1>2, <1>3, <1>4 DEF TimeOf, Moving, Untouched
  <2> QED BY <2>2, <2>3, <2>4, <2>5 DEF WellOff
<1>7. ASSUME Exchangeable, NEW g \in Hosts
      PROVE  UsedWell(r, g)
  <2>1. r.pri = s.pri /\ r.rtrq = s.rtrq
    BY <1>1
  <2>2. CASE g = h
    BY <1>3, <1>7, <2>1, <2>2, StateNames DEF UsedWell, Serves
  <2>3. CASE g # h
    <3>1. UsedWell(s, g) /\ r.run[g] = s.run[g] /\ s.run[g] # t /\ s.run[g] \in Tasks \cup {None}
      BY <1>0, <1>3, <1>7, <2>3 DEF FineFor, Moving, Typed
    <3>2. s.run[g] # None => r.st[s.run[g]] = s.st[s.run[g]]
      BY <1>3, <3>1 DEF SameTask
    <3> QED BY <2>1, <3>1, <3>2 DEF UsedWell, Serves
  <2> QED BY <2>2, <2>3
<1>8. QueueOK(r) /\ HotIs(r)
  BY <1>0, <1>1, <1>3 DEF QueueOK, Sorted, HotIs
<1> QED BY <1>2, <1>5, <1>6, <1>7, <1>8 DEF Fine, FineFor, Untouched

\* The task that is made to leave its cpu keeps the time it has left.
Evicted(s, p) ==
  [RemoveQuantum(s, p) EXCEPT !.tep[p] = None, !.rct[p] = @ \/ s.st[p] = "computing"]

EvictedAs(r, s, T, p, h) ==
  /\ Untouched(r, s) /\ r.htp = s.htp /\ r.run = s.run /\ r.rtrq = s.rtrq /\ r.st = s.st
  /\ FineFor(r, T \ {p}, Hosts \ {h}) /\ Moving(r, p, Hosts \ {h})
  /\ \A u \in Tasks \ {p} : r.rct[u] = s.rct[u] /\ (Moving(s, u, Hosts) => Moving(r, u, Hosts \ {h}))

LEMMA IsEvicted ==
  ASSUME node \in Nodes, NEW s, NEW T, T \subseteq Tasks, FineFor(s, T, Hosts), NEW h \in Hosts,
         NEW p \in T, p = s.run[h], s.st[p] \in {"hot", "computing", "blocked"},
         NEW r, r = Evicted(s, p)
  PROVE  EvictedAs(r, s, T, p, h)
<1> DEFINE b == RemoveQuantum(s, p)
<1>1. Kernel(s) /\ Typed(s) /\ p \in Tasks /\ WellOff(s, p, Hosts)
  BY DEF FineFor, Kernel
<1>2. /\ Kernel(b) /\ Untouched(b, s)
      /\ b.htp = s.htp /\ b.run = s.run /\ b.rtrq = s.rtrq /\ b.st = s.st
      /\ b.hp = s.hp /\ b.tep = s.tep /\ b.rct = s.rct /\ b.qep = [s.qep EXCEPT ![p] = FALSE]
      /\ b.quanta = [s.quanta EXCEPT ![p] = IF s.qep[p] THEN @ - 1 ELSE @]
  <2>1. QuantumGone(b, s, p)
    BY <1>1, QuantumRemoved
  <2> HIDE DEF b
  <2> QED BY <2>1 DEF QuantumGone
<1>3. r = [b EXCEPT !.tep[p] = None, !.rct[p] = @ \/ s.st[p] = "computing"]
  BY DEF Evicted
<1> HIDE DEF b
<1>4. r = [htp |-> b.htp, run |-> b.run, rtrq |-> b.rtrq, abort |-> b.abort, st |-> b.st, pri |-> b.pri,
           hp |-> b.hp, tep |-> [b.tep EXCEPT ![p] = None],
           rct |-> [b.rct EXCEPT ![p] = @ \/ s.st[p] = "computing"], rtoep |-> b.rtoep,
           qep |-> b.qep, quanta |-> b.quanta, qx |-> b.qx, nmess |-> b.nmess, inReceive |-> b.inReceive, owed |-> b.owed]
  <2>1. Shape(b)
    BY <1>2 DEF Kernel
  <2> QED BY <1>3, <2>1 DEF Shape
<1>5. Kernel(r) /\ Untouched(r, s) /\ r.htp = s.htp /\ r.run = s.run /\ r.rtrq = s.rtrq /\ r.st = s.st /\ r.hp = s.hp
  <2>1. Shape(r)
    BY <1>4 DEF Shape
  <2>2. Typed(b)
    BY <1>2 DEF Kernel
  <2>3. r.tep \in [Tasks -> Events] /\ r.rct \in [Tasks -> BOOLEAN]
    BY <1>4, <2>2 DEF Typed, Events
  <2>4. Typed(r)
    BY <1>4, <2>2, <2>3 DEF Typed
  <2> QED BY <1>2, <1>4, <2>1, <2>4 DEF Kernel, Untouched
<1>6. /\ r.tep[p] = None /\ ~r.qep[p] /\ (s.st[p] = "computing" => r.rct[p])
      /\ r.quanta[p] = IF s.qep[p] THEN s.quanta[p] - 1 ELSE s.quanta[p]
      /\ \A u \in Tasks \ {p} : SameTask(r, s, u)
  <2>1. /\ r.tep = [s.tep EXCEPT ![p] = None] /\ r.rct = [s.rct EXCEPT ![p] = @ \/ s.st[p] = "computing"]
        /\ r.qep = b.qep /\ r.quanta = b.quanta
    BY <1>2, <1>4
  <2>2. /\ r.tep[p] = None /\ (s.st[p] = "computing" => r.rct[p]) /\ ~r.qep[p]
        /\ \A u \in Tasks \ {p} : r.rct[u] = s.rct[u]
    <3>1. r.tep[p] = None
      BY <1>1, <2>1 DEF Typed
    <3>2. ~r.qep[p]
      BY <1>1, <1>2, <2>1 DEF Typed
    <3>3. PICK x : x = (s.rct[p] \/ s.st[p] = "computing")
      OBVIOUS
    <3>4. r.rct = [s.rct EXCEPT ![p] = x]
      BY <2>1, <3>3
    <3>5. r.rct[p] = x /\ \A u \in Tasks \ {p} : r.rct[u] = s.rct[u]
      BY <1>1, <3>4 DEF Typed
    <3> QED BY <3>1, <3>2, <3>3, <3>5
  <2>3. r.quanta[p] = IF s.qep[p] THEN s.quanta[p] - 1 ELSE s.quanta[p]
    BY <1>1, <1>2, <2>1 DEF Typed
  <2>4. ASSUME NEW u \in Tasks \ {p}
        PROVE  r.tep[u] = s.tep[u] /\ r.qep[u] = s.qep[u] /\ r.quanta[u] = s.quanta[u]
    <3>1. u \in Tasks /\ u # p
      BY <2>4
    <3>2. r.tep[u] = s.tep[u]
      BY <1>1, <2>1, <3>1 DEF Typed
    <3>3. r.qep[u] = s.qep[u]
      BY <1>1, <1>2, <2>1, <3>1 DEF Typed
    <3>4. r.quanta[u] = s.quanta[u]
      BY <1>1, <1>2, <2>1, <3>1 DEF Typed
    <3> QED BY <3>2, <3>3, <3>4
  <2> QED BY <1>5, <2>2, <2>3, <2>4 DEF SameTask, Untouched
<1>7. Moving(r, p, Hosts \ {h})
  <2>1. p \notin Range(r.rtrq) /\ \A g \in Hosts \ {h} : r.run[g] # p
    BY <1>1, <1>5 DEF WellOff, Placed, CpuOf
  <2>2. s.nmess[p] \in 0..MaxMessages+1 /\ (s.rtoep[p] => "timed" \in Calls /\ "suspend" \in Calls)
    BY <1>1 DEF WellOff, MessagesOf
  <2>3. QuantaEnd => r.quanta[p] = 0 /\ ~s.qx[p]
    BY <1>1, <1>6, StateNames DEF WellOff, QuantaOf
  <2>4. Timely => (s.owed[p] => r.rct[p])
    BY <1>1, <1>6 DEF WellOff, TimeOf
  <2> QED BY <1>5, <1>6, <2>1, <2>2, <2>3, <2>4 DEF Moving, Untouched
<1>8. /\ FineFor(r, T \ {p}, Hosts \ {h})
      /\ \A u \in Tasks \ {p} : Moving(s, u, Hosts) => Moving(r, u, Hosts \ {h})
  BY <1>5, <1>6, GivingUp
<1> QED BY <1>5, <1>6, <1>7, <1>8 DEF SameTask, EvictedAs

\* Under SyncsKeepCpus no cpu is taken from a task that syncs.
LEMMA VictimExists ==
  ASSUME node \in Nodes, SyncsKeepCpus, NEW s, NEW t \in Tasks, FineFor(s, Tasks \ {t}, Hosts), Moving(s, t, Hosts),
         Discipline = "PR", IdleFor(s, t) = {}, Preemptable(s, t) # {}, NEW h, h = Victim(s, t)
  PROVE  /\ h \in Hosts /\ MayRunOn(t, h) /\ s.run[h] \in Tasks \ {t} /\ s.pri[s.run[h]] < s.pri[t]
         /\ s.st[s.run[h]] \in {"hot", "computing", "blocked"}
         /\ \A g \in Preemptable(s, t) : s.pri[s.run[h]] <= s.pri[s.run[g]]
<1>1. Typed(s) /\ \A u \in Tasks : s.pri[u] \in Nat
  <2>1. Typed(s)
    BY DEF FineFor, Kernel
  <2> QED BY <2>1, NodesAssumption DEF Typed, NodeAssumption, Priorities
<1>2. ASSUME NEW g \in Preemptable(s, t)
      PROVE  /\ g \in Hosts /\ MayRunOn(t, g) /\ s.run[g] \in Tasks \ {t} /\ s.pri[s.run[g]] < s.pri[t]
             /\ ~KeepsCpu(s, s.run[g], t)
  <2>1. g \in Hosts /\ MayRunOn(t, g) /\ s.pri[s.run[g]] < s.pri[t] /\ ~KeepsCpu(s, s.run[g], t)
    BY DEF Preemptable
  <2>2. s.run[g] \in Tasks /\ s.run[g] # t
    BY <1>1, <2>1 DEF Typed, IdleFor, Moving
  <2> QED BY <2>1, <2>2
<1> DEFINE P == {s.pri[s.run[g]] : g \in Preemptable(s, t)}
<1>3. P \in SUBSET Nat /\ P # {}
  BY <1>1, <1>2
<1>4. PICK m \in P : \A n \in P : m <= n
  <2> HIDE DEF P
  <2> QED BY <1>3, LeastExists
<1> DEFINE Q == {g \in Preemptable(s, t) : s.pri[s.run[g]] = m}
<1>5. Q \in SUBSET Nat /\ Q # {}
  BY <1>2 DEF Hosts
<1>6. PICK v \in Q : \A g \in Q : v <= g
  <2> HIDE DEF Q
  <2> QED BY <1>5, LeastExists
<1>7. \A g \in Preemptable(s, t) : \/ s.pri[s.run[v]] < s.pri[s.run[g]]
                                   \/ s.pri[s.run[v]] = s.pri[s.run[g]] /\ v <= g
  <2> TAKE g \in Preemptable(s, t)
  <2>1. s.pri[s.run[g]] \in P /\ s.pri[s.run[v]] = m /\ s.pri[s.run[g]] \in Nat /\ m \in Nat
    BY <1>1, <1>2, <1>3
  <2>2. m <= s.pri[s.run[g]]
    BY <1>4, <2>1
  <2>3. s.pri[s.run[g]] = m => v <= g
    BY <1>6
  <2> QED BY <2>1, <2>2, <2>3
<1>8. /\ h \in Preemptable(s, t)
      /\ \A g \in Preemptable(s, t) : \/ s.pri[s.run[h]] < s.pri[s.run[g]]
                                      \/ s.pri[s.run[h]] = s.pri[s.run[g]] /\ h <= g
  <2>1. v \in Preemptable(s, t)
    OBVIOUS
  <2> QED BY <1>7, <2>1 DEF Victim
<1>9. \A g \in Preemptable(s, t) : s.pri[s.run[h]] <= s.pri[s.run[g]]
  BY <1>1, <1>2, <1>8
<1>10. s.st[s.run[h]] \in {"hot", "computing", "blocked"}
  <2> DEFINE p == s.run[h]
  <2>1. p \in Tasks \ {t} /\ h \in Hosts /\ ~KeepsCpu(s, p, t)
    BY <1>2, <1>8
  <2>2. Placed(s, p, Hosts)
    BY <2>1 DEF FineFor, WellOff
  <2> HIDE DEF p
  <2>3. s.st[p] \in OnCpu /\ (s.st[p] \in Uninterruptible => "sync" \in Calls) /\ (s.st[p] = "syncFree" => "kill" \in Calls)
    BY <2>1, <2>2 DEF Placed, CpuOf, Legal, p
  <2>4. s.st[p] # "syncFree"
    <3>1. ASSUME s.st[p] = "syncFree"
          PROVE  FALSE
      <4>1. Roams
        BY <2>3, <3>1 DEF SyncsKeepCpus, Both, Uninterruptible
      <4> QED BY <2>1, <3>1, <4>1 DEF Roams, KeepsCpu
    <3> QED BY <3>1
  <2>5. s.st[p] \notin {"sync", "syncSuspend"}
    BY <2>1 DEF KeepsCpu
  <2>6. s.st[p] \in {"hot", "computing", "blocked"}
    BY <2>3, <2>4, <2>5 DEF OnCpu
  <2> QED BY <2>6 DEF p
<1> QED BY <1>2, <1>8, <1>9, <1>10

\* Task p has left its cpu for the ready queue.
BackInQueue(s, p) == Ready(Evicted(s, p), p, FALSE)

\* Task t takes the cpu of a task that goes back to the ready queue.
LEMMA IsPreempted ==
  ASSUME NEW s, Kernel(s), NEW t, NEW h, NEW p \in Tasks, p = s.run[h], s.st[p] \in {"hot", "computing", "blocked"},
         NEW b, b = BackInQueue(s, p), NEW r, r = Preempt(s, t, h)
  PROVE  /\ s.st[p] = "hot" => r = HotOn(b, t, h)
         /\ s.st[p] # "hot" => r = Start(b, t, h)
<1> DEFINE e == Evicted(s, p)
           q == RemoveQuantum(s, p)
           a == [q EXCEPT !.tep[p] = None]
<1>1. QuantumGone(q, s, p)
  BY QuantumRemoved
<1>2. Shape(q) /\ q.rct \in [Tasks -> BOOLEAN]
  BY <1>1 DEF QuantumGone, Kernel, Typed
<1>3. e = [q EXCEPT !.tep[p] = None, !.rct[p] = @ \/ s.st[p] = "computing"]
  BY DEF Evicted
<1>4. r = CASE s.st[p] = "hot" -> HotOn(Ready(a, p, FALSE), t, h)
            [] s.st[p] = "computing" -> Start(Ready([a EXCEPT !.rct[p] = TRUE], p, FALSE), t, h)
            [] s.st[p] = "blocked" -> Start(Ready(a, p, FALSE), t, h)
            [] OTHER -> Start(RemoveQuantum(s, p), t, h)
  BY DEF Preempt, HotOn
<1>9. b = Ready(e, p, FALSE)
  BY DEF BackInQueue
<1> HIDE DEF q, e
<1>5. a = [htp |-> q.htp, run |-> q.run, rtrq |-> q.rtrq, abort |-> q.abort, st |-> q.st, pri |-> q.pri,
           hp |-> q.hp, tep |-> [q.tep EXCEPT ![p] = None], rct |-> q.rct, rtoep |-> q.rtoep,
           qep |-> q.qep, quanta |-> q.quanta, qx |-> q.qx, nmess |-> q.nmess, inReceive |-> q.inReceive, owed |-> q.owed]
  BY <1>2 DEF Shape
<1>6. e = [htp |-> q.htp, run |-> q.run, rtrq |-> q.rtrq, abort |-> q.abort, st |-> q.st, pri |-> q.pri,
           hp |-> q.hp, tep |-> [q.tep EXCEPT ![p] = None], rct |-> [q.rct EXCEPT ![p] = @ \/ s.st[p] = "computing"],
           rtoep |-> q.rtoep, qep |-> q.qep, quanta |-> q.quanta, qx |-> q.qx, nmess |-> q.nmess,
           inReceive |-> q.inReceive, owed |-> q.owed]
  BY <1>2, <1>3 DEF Shape
<1>7. ASSUME s.st[p] # "computing"
      PROVE  e = a
  <2>1. [q.rct EXCEPT ![p] = @ \/ s.st[p] = "computing"] = q.rct
    <3>1. (q.rct[p] \/ s.st[p] = "computing") = q.rct[p]
      BY <1>2, <1>7
    <3> QED BY <1>2, <3>1
  <2> QED BY <1>5, <1>6, <2>1
<1>8. ASSUME s.st[p] = "computing"
      PROVE  e = [a EXCEPT !.rct[p] = TRUE]
  <2>1. [q.rct EXCEPT ![p] = @ \/ s.st[p] = "computing"] = [q.rct EXCEPT ![p] = TRUE]
    <3>1. (q.rct[p] \/ s.st[p] = "computing") = TRUE
      BY <1>8
    <3> QED BY <3>1
  <2>2. [a EXCEPT !.rct[p] = TRUE] = [q EXCEPT !.tep[p] = None, !.rct[p] = TRUE]
    OBVIOUS
  <2>3. [q EXCEPT !.tep[p] = None, !.rct[p] = TRUE] =
          [htp |-> q.htp, run |-> q.run, rtrq |-> q.rtrq, abort |-> q.abort, st |-> q.st, pri |-> q.pri,
           hp |-> q.hp, tep |-> [q.tep EXCEPT ![p] = None], rct |-> [q.rct EXCEPT ![p] = TRUE],
           rtoep |-> q.rtoep, qep |-> q.qep, quanta |-> q.quanta, qx |-> q.qx, nmess |-> q.nmess,
           inReceive |-> q.inReceive, owed |-> q.owed]
    <3>1. PICK f : f = [q EXCEPT !.tep[p] = None, !.rct[p] = TRUE]
      OBVIOUS
    <3>2. f =
            [htp |-> q.htp, run |-> q.run, rtrq |-> q.rtrq, abort |-> q.abort, st |-> q.st, pri |-> q.pri,
             hp |-> q.hp, tep |-> [q.tep EXCEPT ![p] = None], rct |-> [q.rct EXCEPT ![p] = TRUE],
             rtoep |-> q.rtoep, qep |-> q.qep, quanta |-> q.quanta, qx |-> q.qx, nmess |-> q.nmess,
             inReceive |-> q.inReceive, owed |-> q.owed]
      BY <1>2, <3>1 DEF Shape
    <3> QED BY <3>1, <3>2
  <2> HIDE DEF a
  <2> QED BY <1>6, <2>1, <2>2, <2>3
<1> HIDE DEF a
<1> QED BY <1>4, <1>7, <1>8, <1>9

LEMMA PreemptKeeps ==
  ASSUME node \in Nodes, SyncsKeepCpus, NEW s, NEW t \in Tasks, FineFor(s, Tasks \ {t}, Hosts), Moving(s, t, Hosts),
         HotIs(s), s.htp # t, Timely /\ s.htp \in Tasks => ~s.rct[t],
         Discipline = "PR", IdleFor(s, t) = {}, Preemptable(s, t) # {}, NEW r, r = Preempt(s, t, Victim(s, t))
  PROVE  Fine(r) /\ r.abort = s.abort
<1> DEFINE h == Victim(s, t)
           p == s.run[h]
           e == Evicted(s, p)
           b == Ready(e, p, FALSE)
<1>1. /\ h \in Hosts /\ MayRunOn(t, h) /\ p \in Tasks \ {t} /\ s.pri[p] < s.pri[t]
      /\ s.st[p] \in {"hot", "computing", "blocked"}
      /\ \A g \in Preemptable(s, t) : s.pri[p] <= s.pri[s.run[g]]
  BY VictimExists
<1>2. /\ p = s.run[h]
      /\ s.st[p] = "hot" => r = HotOn(b, t, h)
      /\ s.st[p] # "hot" => r = Start(b, t, h)
  <2>1. Kernel(s) /\ p \in Tasks /\ p = s.run[h] /\ b = BackInQueue(s, p) /\ r = Preempt(s, t, h)
    BY <1>1 DEF FineFor, BackInQueue
  <2> HIDE DEF p, h, e, b
  <2> QED BY <1>1, <2>1, IsPreempted
<1>3. /\ Untouched(e, s) /\ e.htp = s.htp /\ e.run = s.run /\ e.rtrq = s.rtrq /\ e.st = s.st
      /\ FineFor(e, (Tasks \ {t}) \ {p}, Hosts \ {h}) /\ Moving(e, p, Hosts \ {h})
      /\ e.rct[t] = s.rct[t] /\ Moving(e, t, Hosts \ {h})
  <2>1. Tasks \ {t} \subseteq Tasks /\ p \in Tasks \ {t} /\ p = s.run[h] /\ e = Evicted(s, p) /\ t \in Tasks \ {p}
    BY <1>1
  <2> HIDE DEF p, h, e
  <2>2. /\ Untouched(e, s) /\ e.htp = s.htp /\ e.run = s.run /\ e.rtrq = s.rtrq /\ e.st = s.st
        /\ FineFor(e, (Tasks \ {t}) \ {p}, Hosts \ {h}) /\ Moving(e, p, Hosts \ {h})
        /\ \A u \in Tasks \ {p} : e.rct[u] = s.rct[u] /\ (Moving(s, u, Hosts) => Moving(e, u, Hosts \ {h}))
    <3>1. EvictedAs(e, s, Tasks \ {t}, p, h)
      BY <1>1, <2>1, IsEvicted
    <3> QED BY <3>1 DEF EvictedAs
  <2> QED BY <2>1, <2>2
<1> HIDE DEF e
<1>4. ASSUME Exchangeable, NEW g \in Hosts \ {h}
      PROVE  Serves(e, g, p)
  <2>1. Roams
    BY <1>4 DEF Exchangeable
  <2>2. MayRunOn(t, g) /\ e.run[g] # None /\ e.run[g] \in Tasks
    <3>1. Typed(s)
      BY DEF FineFor, Kernel
    <3> QED BY <1>3, <2>1, <3>1 DEF Roams, MayRunOn, IdleFor, Typed
  <2>3. ASSUME s.st[s.run[g]] \notin Uninterruptible
        PROVE  s.pri[p] <= s.pri[s.run[g]]
    <3>1. CASE g \in Preemptable(s, t)
      BY <1>1, <3>1
    <3>2. CASE g \notin Preemptable(s, t)
      <4>1. ~KeepsCpu(s, s.run[g], t)
        BY <2>1, <2>3 DEF KeepsCpu, Uninterruptible, Roams
      <4>2. ~(s.pri[s.run[g]] < s.pri[t])
        BY <2>2, <3>2, <4>1 DEF Preemptable
      <4>3. s.pri[s.run[g]] \in Nat /\ s.pri[t] \in Nat /\ s.pri[p] \in Nat
        <5>1. Typed(s)
          BY DEF FineFor, Kernel
        <5> QED BY <1>1, <1>3, <2>2, <5>1, NodesAssumption DEF Typed, NodeAssumption, Priorities
      <4> QED BY <1>1, <4>2, <4>3
    <3> QED BY <3>1, <3>2
  <2> QED BY <1>3, <2>2, <2>3 DEF Serves, Untouched
<1>5. FineFor(b, Tasks \ {t}, Hosts \ {h}) /\ Moving(b, t, Hosts \ {h})
  <2>1. /\ Tasks \ {t} \subseteq Tasks /\ Hosts \ {h} \subseteq Hosts /\ p \in Tasks /\ (Tasks \ {t}) \cup {p} = Tasks \ {t}
        /\ t \in Tasks \ {p} /\ b = Ready(e, p, FALSE) /\ FALSE \in BOOLEAN
    BY <1>1
  <2> HIDE DEF b, p, h
  <2>2. /\ FineFor(b, (Tasks \ {t}) \cup {p}, Hosts \ {h})
        /\ \A u \in Tasks \ {p} : Moving(e, u, Hosts \ {h}) => Moving(b, u, Hosts \ {h})
    BY <1>3, <1>4, <2>1, ReadyKeeps
  <2> QED BY <1>3, <2>1, <2>2
<1>6. /\ b.htp = s.htp /\ b.rct[t] = s.rct[t] /\ b.st = [s.st EXCEPT ![p] = "ready"] /\ b.pri = s.pri /\ b.abort = s.abort
      /\ Range(b.rtrq) = Range(s.rtrq) \cup {p}
  <2>1. Kernel(e) /\ p \in Tasks /\ b = Ready(e, p, FALSE) /\ FALSE \in BOOLEAN
    BY <1>1, <1>3 DEF FineFor
  <2> HIDE DEF b, p, h
  <2>2. ReadyAs(b, e, p)
    BY <2>1, IsReady
  <2> QED BY <1>3, <2>2 DEF Untouched, ReadyAs
<1> HIDE DEF b, p, h
<1>7. ASSUME Exchangeable /\ Discipline = "PR", NEW u \in Range(b.rtrq), MayRunOn(u, h)
      PROVE  b.pri[u] <= b.pri[t]
  <2>1. CASE u = p
    <3>1. s.pri[p] \in Nat /\ s.pri[t] \in Nat
      <4>1. Typed(s)
        BY DEF FineFor, Kernel
      <4> QED BY <1>1, <4>1, NodesAssumption DEF Typed, NodeAssumption, Priorities
    <3>2. b.pri = s.pri /\ s.pri[p] < s.pri[t]
      BY <1>1, <1>6
    <3> QED BY <2>1, <3>1, <3>2
  <2>2. CASE u # p
    <3>1. u \in Range(s.rtrq) /\ UsedWell(s, h)
      BY <1>1, <1>6, <1>7, <2>2 DEF FineFor
    <3>2. s.pri[u] <= s.pri[p]
      <4>1. Serves(s, h, u) /\ MayRunOn(u, h) /\ Discipline = "PR" /\ s.st[p] \notin Uninterruptible
        BY <1>1, <1>7, <3>1, StateNames DEF UsedWell
      <4> QED BY <1>2, <4>1 DEF Serves
    <3>3. s.pri[p] \in Nat /\ s.pri[t] \in Nat /\ s.pri[u] \in Nat
      <4>1. Typed(s)
        BY DEF FineFor, Kernel
      <4>2. u \in Tasks
        BY <3>1, <4>1, RangeOfSeq DEF Typed
      <4> QED BY <1>1, <4>1, <4>2, NodesAssumption DEF Typed, NodeAssumption, Priorities
    <3> QED BY <1>1, <1>6, <3>2, <3>3
  <2> QED BY <2>1, <2>2
<1>8. s.st \in [Tasks -> States] /\ \A u \in Tasks \ {t} : s.st[u] = "hot" => s.htp = u
  BY DEF FineFor, Kernel, Typed, WellOff, Placed
<1>9. CASE s.st[p] = "hot"
  <2>1. \A u \in Tasks \ {t} : b.st[u] # "hot"
    BY <1>1, <1>6, <1>8, <1>9
  <2>2. Timely => ~b.rct[t]
    BY <1>1, <1>6, <1>8, <1>9
  <2>3. r = HotOn(b, t, h) /\ h \in Hosts
    BY <1>1, <1>2, <1>9
  <2>4. Exchangeable /\ Discipline = "PR" => \A u \in Range(b.rtrq) : MayRunOn(u, h) => b.pri[u] <= b.pri[t]
    BY <1>7
  <2>5. Fine(r) /\ r.abort = b.abort
    BY <1>5, <2>1, <2>2, <2>3, <2>4, TakingOver
  <2> QED BY <1>6, <2>5
<1>10. CASE s.st[p] # "hot"
  <2>1. HotIs(b) /\ b.htp # t
    BY <1>1, <1>6, <1>8, <1>10 DEF HotIs
  <2>2. r = Start(b, t, h) /\ h \in Hosts
    BY <1>1, <1>2, <1>10
  <2> QED BY <1>5, <1>6, <1>7, <2>1, <2>2, StartKeeps
<1> QED BY <1>9, <1>10

\* Conditions under which a task may be handed to find_host.
MayMove(s, t) ==
  /\ FineFor(s, Tasks \ {t}, Hosts) /\ Moving(s, t, Hosts) /\ HotIs(s) /\ s.htp # t
  /\ Timely /\ Discipline = "PR" /\ s.htp \in Tasks => ~s.rct[t]

LEMMA FindHostKeeps ==
  ASSUME node \in Nodes, SyncsKeepCpus, NEW s, NEW t \in Tasks, MayMove(s, t), NEW r, r = FindHost(s, t)
  PROVE  Fine(r) /\ r.abort = s.abort
<1>1. Typed(s) /\ Kernel(s)
  BY DEF MayMove, FineFor, Kernel
<1>2. CASE IdleFor(s, t) # {}
  <2>1. IdleFor(s, t) \in SUBSET Nat
    BY DEF IdleFor, Hosts
  <2>2. PICK n \in IdleFor(s, t) : \A g \in IdleFor(s, t) : n <= g
    BY <1>2, <2>1, LeastExists
  <2>3. PICK h \in IdleFor(s, t) : r = Start(s, t, h)
    <3> DEFINE h == CHOOSE h \in IdleFor(s, t) : \A g \in IdleFor(s, t) : h <= g
    <3>1. h \in IdleFor(s, t)
      BY <2>2
    <3>2. r = Start(s, t, h)
      BY <1>2 DEF FindHost
    <3> QED BY <3>1, <3>2
  <2>4. h \in Hosts /\ s.run[h] = None /\ MayRunOn(t, h)
    BY DEF IdleFor
  <2>5. \A u \in Tasks : SameTask(s, s, u)
    BY DEF SameTask
  <2>6. FineFor(s, Tasks \ {t}, Hosts \ {h}) /\ Moving(s, t, Hosts \ {h})
    <3>1. /\ FineFor(s, (Tasks \ {t}) \ {None}, Hosts \ {h})
          /\ \A u \in Tasks \ {None} : Moving(s, u, Hosts) => Moving(s, u, Hosts \ {h})
      <4>1. PICK T : T = Tasks \ {t}
        OBVIOUS
      <4>2. T \subseteq Tasks /\ FineFor(s, T, Hosts) /\ Untouched(s, s)
        BY <4>1 DEF MayMove, Untouched
      <4>3. /\ FineFor(s, T \ {None}, Hosts \ {h})
            /\ \A u \in Tasks \ {None} : Moving(s, u, Hosts) => Moving(s, u, Hosts \ {h})
        BY <1>1, <2>4, <2>5, <4>2, GivingUp
      <4> QED BY <4>1, <4>3
    <3> QED BY <3>1, StateNames DEF MayMove
  <2>7. ASSUME Exchangeable /\ Discipline = "PR", NEW u \in Range(s.rtrq), MayRunOn(u, h)
        PROVE  s.pri[u] <= s.pri[t]
    BY <2>4, <2>7 DEF MayMove, FineFor, UsedWell, Serves
  <2> QED BY <2>3, <2>4, <2>6, <2>7, StartKeeps DEF MayMove
<1>3. CASE IdleFor(s, t) = {} /\ Discipline = "PR" /\ Preemptable(s, t) # {}
  <2>1. r = Preempt(s, t, Victim(s, t))
    BY <1>3 DEF FindHost
  <2> QED BY <1>3, <2>1, PreemptKeeps DEF MayMove
<1>4. CASE IdleFor(s, t) = {} /\ ~(Discipline = "PR" /\ Preemptable(s, t) # {})
  <2>1. r = Ready(s, t, TRUE)
    BY <1>4 DEF FindHost
  <2>2. ASSUME Exchangeable, NEW h \in Hosts, MayRunOn(t, h)
        PROVE  Serves(s, h, t)
    <3>1. s.run[h] # None /\ s.run[h] \in Tasks
      BY <1>1, <1>4, <2>2 DEF IdleFor, Typed
    <3>2. ASSUME Discipline = "PR", s.st[s.run[h]] \notin Uninterruptible
          PROVE  s.pri[t] <= s.pri[s.run[h]]
      <4>1. s.run[h] # t /\ s.st[s.run[h]] \in OnCpu
        BY <3>1 DEF MayMove, Moving, FineFor, WellOff, Placed, CpuOf
      <4>2. ~KeepsCpu(s, s.run[h], t)
        BY <3>2, <4>1, StateNames DEF KeepsCpu, Uninterruptible
      <4>3. ~(s.pri[s.run[h]] < s.pri[t])
        BY <1>4, <2>2, <3>2, <4>2 DEF Preemptable
      <4>4. s.pri[s.run[h]] \in Nat /\ s.pri[t] \in Nat
        BY <1>1, <3>1, NodesAssumption DEF Typed, NodeAssumption, Priorities
      <4> QED BY <4>3, <4>4
    <3> QED BY <3>1, <3>2 DEF Serves
  <2>3. Exchangeable => \A h \in Hosts : Serves(s, h, t)
    BY <2>2 DEF Serves
  <2>4. FineFor(r, Tasks \cup {t}, Hosts)
    BY <2>1, <2>3, ReadyKeeps DEF MayMove
  <2>5. r.htp = s.htp /\ r.abort = s.abort /\ r.st = [s.st EXCEPT ![t] = "ready"]
    <3>1. ReadyAs(r, s, t)
      BY <1>1, <2>1, IsReady
    <3> QED BY <3>1 DEF ReadyAs, Untouched
  <2>6. HotIs(r)
    BY <1>1, <2>5 DEF HotIs, MayMove, Typed
  <2>7. Tasks \cup {t} = Tasks
    OBVIOUS
  <2> QED BY <2>4, <2>5, <2>6, <2>7 DEF Fine
<1> QED BY <1>2, <1>3, <1>4

\* A task that gives way to another keeps the time it has left.
Displaced(s, t) == [s EXCEPT !.tep[t] = None, !.rct[t] = @ \/ LeftOver(s, t)]

LEMMA IsDisplaced ==
  ASSUME NEW s, Kernel(s), NEW t \in Tasks, NEW r, r = Displaced(s, t)
  PROVE  /\ Kernel(r) /\ Untouched(r, s) /\ r.htp = s.htp /\ r.run = s.run /\ r.rtrq = s.rtrq /\ r.st = s.st
         /\ r.hp = s.hp /\ r.qep = s.qep /\ r.quanta = s.quanta
         /\ r.tep[t] = None /\ (r.rct[t] <=> s.rct[t] \/ LeftOver(s, t))
         /\ \A u \in Tasks \ {t} : SameTask(r, s, u)
<1> DEFINE x == s.rct[t] \/ LeftOver(s, t)
<1>0. Shape(s) /\ Typed(s)
  BY DEF Kernel
<1>1. r = [s EXCEPT !.tep[t] = None, !.rct[t] = x]
  BY DEF Displaced
<1>2. x \in BOOLEAN
  OBVIOUS
<1> HIDE DEF x
<1>3. r = [htp |-> s.htp, run |-> s.run, rtrq |-> s.rtrq, abort |-> s.abort, st |-> s.st, pri |-> s.pri,
           hp |-> s.hp, tep |-> [s.tep EXCEPT ![t] = None], rct |-> [s.rct EXCEPT ![t] = x], rtoep |-> s.rtoep,
           qep |-> s.qep, quanta |-> s.quanta, qx |-> s.qx, nmess |-> s.nmess, inReceive |-> s.inReceive, owed |-> s.owed]
  BY <1>0, <1>1 DEF Shape
<1>4. Shape(r)
  BY <1>3 DEF Shape
<1>5. Typed(r)
  <2>1. r.tep \in [Tasks -> Events] /\ r.rct \in [Tasks -> BOOLEAN]
    BY <1>0, <1>2, <1>3 DEF Typed, Events
  <2> QED BY <1>0, <1>3, <2>1 DEF Typed
<1>6. r.tep[t] = None /\ r.rct[t] = x
  BY <1>0, <1>3 DEF Typed
<1>7. \A u \in Tasks \ {t} : SameTask(r, s, u)
  BY <1>0, <1>3 DEF Typed, SameTask
<1>8. /\ Untouched(r, s) /\ r.htp = s.htp /\ r.run = s.run /\ r.rtrq = s.rtrq /\ r.st = s.st
      /\ r.hp = s.hp /\ r.qep = s.qep /\ r.quanta = s.quanta
  BY <1>3 DEF Untouched
<1>9. r.rct[t] <=> s.rct[t] \/ LeftOver(s, t)
  BY <1>6 DEF x
<1> QED BY <1>4, <1>5, <1>6, <1>7, <1>8, <1>9 DEF Kernel

\* Conditions under which find_priority may be called for task t of cpu h.
MayGiveWay(s, t, h, p) ==
  /\ s.run[h] = t /\ s.hp[t] = h
  /\ FineFor(s, Tasks \ {t}, Hosts \ {h}) /\ HotIs(s)
  /\ Moving(Displaced(s, t), t, Hosts \ {h})
  /\ Exchangeable => Roams
  /\ p \in Int /\ (Discipline = "PR" => p \in {s.pri[t], s.pri[t] - 1})
  /\ s.htp # Driver \/ (Quantum /\ ~s.qep[t]) => WellOff(s, t, Hosts)
  /\ s.htp = Driver /\ ~(Quantum /\ ~s.qep[t]) => s.tep[t] = None /\ (Timely => ~s.rct[t])

\* The positions of the ready tasks to which it may give way.
Successors(s, h, p) == {i \in Fitting(s, h) : \A j \in 1..i : s.pri[s.rtrq[j]] > p}

LEMMA NoSuccessor ==
  ASSUME node \in Nodes, NEW s, NEW h \in Hosts, NEW t \in Tasks, NEW p, MayGiveWay(s, t, h, p),
         Successors(s, h, p) = {}, Exchangeable, Discipline = "PR", NEW u \in Range(s.rtrq)
  PROVE  s.pri[u] <= s.pri[t]
<1>1. Roams /\ Typed(s) /\ p \in Int /\ p \in {s.pri[t], s.pri[t] - 1} /\ QueueOK(s)
  BY DEF MayGiveWay, FineFor, Kernel
<1>2. /\ DOMAIN s.rtrq = 1..Len(s.rtrq) /\ Len(s.rtrq) \in Nat
      /\ \A j \in DOMAIN s.rtrq : s.rtrq[j] \in Tasks
  BY <1>1, LenProperties DEF Typed
<1>3. \A v \in Tasks : s.pri[v] \in Nat
  BY <1>1, NodesAssumption DEF Typed, NodeAssumption, Priorities
<1>4. PICK j \in DOMAIN s.rtrq : s.rtrq[j] = u
  BY DEF Range
<1>5. 1 \in DOMAIN s.rtrq /\ 1 <= j /\ MayRunOn(s.rtrq[1], h)
  BY <1>1, <1>2, <1>4 DEF Roams, MayRunOn
<1>6. ~(s.pri[s.rtrq[1]] > p)
  <2>1. 1 \in Fitting(s, h) /\ 1..1 = {1}
    BY <1>5 DEF Fitting
  <2> QED BY <2>1 DEF Successors
<1>7. s.pri[s.rtrq[1]] >= s.pri[u]
  <2>1. CASE j = 1
    BY <1>2, <1>3, <1>4, <2>1
  <2>2. CASE j # 1
    <3>1. 1 < j
      BY <1>2, <1>5, <2>2
    <3> QED BY <1>1, <1>4, <1>5, <3>1 DEF QueueOK, Sorted
  <2> QED BY <2>1, <2>2
<1>8. s.pri[u] \in Nat /\ s.pri[t] \in Nat /\ s.pri[s.rtrq[1]] \in Nat
  BY <1>2, <1>3, <1>4, <1>5
<1> QED BY <1>1, <1>6, <1>7, <1>8

LEMMA StayingPut ==
  ASSUME node \in Nodes, NEW s, NEW h \in Hosts, NEW t \in Tasks, NEW p, MayGiveWay(s, t, h, p),
         Successors(s, h, p) = {}, WellOff(s, t, Hosts)
  PROVE  FineFor(s, Tasks, Hosts)
<1>1. Kernel(s) /\ QueueOK(s)
  BY DEF MayGiveWay, FineFor
<1>2. ASSUME NEW u \in Tasks \ {t}
      PROVE  WellOff(s, u, Hosts)
  <2>1. /\ WellOff(s, u, Hosts \ {h}) /\ CpuOf(s, u, Hosts \ {h}) /\ (s.st[u] = "hot" => s.htp = u) /\ SameTask(s, s, u)
        /\ s.run[h] # u
    BY <1>2 DEF MayGiveWay, FineFor, WellOff, Placed, SameTask
  <2>2. CpuOf(s, u, Hosts)
    BY <2>1 DEF CpuOf
  <2> QED BY <2>1, <2>2, StaysWellOff
<1>3. ASSUME Exchangeable, NEW g \in Hosts
      PROVE  UsedWell(s, g)
  <2>1. CASE g = h
    <3>1. s.run[h] = t /\ t # None
      BY StateNames DEF MayGiveWay
    <3> QED BY <1>3, <2>1, <3>1, NoSuccessor DEF UsedWell, Serves
  <2>2. CASE g # h
    BY <1>3, <2>2 DEF MayGiveWay, FineFor
  <2> QED BY <2>1, <2>2
<1> QED BY <1>1, <1>2, <1>3 DEF FineFor

LEMMA GivingWay ==
  ASSUME node \in Nodes, NEW s, NEW h \in Hosts, NEW t \in Tasks, NEW p, MayGiveWay(s, t, h, p),
         Successors(s, h, p) # {}, NEW qx \in BOOLEAN, NEW r, r = FindPriority(s, h, p, qx)
  PROVE  Fine(r) /\ r.abort = s.abort
<1> DEFINE fit == Successors(s, h, p)
           i == CHOOSE i \in fit : \A j \in fit : i <= j
           u == s.rtrq[i]
           d == Displaced(s, t)
           w == Without(d, i)
           b == Ready(w, t, qx)
           c == Cooled(b)
           H == Hosts \ {h}
<1>1. /\ Roams \/ ~Exchangeable
      /\ Typed(s) /\ Kernel(s) /\ QueueOK(s) /\ p \in Int /\ (Discipline = "PR" => p \in {s.pri[t], s.pri[t] - 1})
      /\ s.run[h] = t /\ HotIs(s) /\ FineFor(s, Tasks \ {t}, H) /\ Moving(d, t, H)
  BY DEF MayGiveWay, FineFor, Kernel
<1>2. /\ DOMAIN s.rtrq = 1..Len(s.rtrq) /\ Len(s.rtrq) \in Nat
      /\ \A j \in DOMAIN s.rtrq : s.rtrq[j] \in Tasks
      /\ \A v \in Tasks : s.pri[v] \in Nat
  <2>1. s.rtrq \in Seq(Tasks)
    BY <1>1 DEF Typed
  <2>2. \A v \in Tasks : s.pri[v] \in Nat
    BY <1>1, NodesAssumption DEF Typed, NodeAssumption, Priorities
  <2> QED BY <2>1, <2>2, LenProperties
<1>3. i \in fit /\ \A j \in fit : i <= j
  <2>1. fit \in SUBSET Nat /\ fit # {}
    BY <1>2 DEF Successors, Fitting
  <2>2. \E n \in fit : \A j \in fit : n <= j
    <3> HIDE DEF fit
    <3> QED BY <2>1, LeastExists
  <2> QED BY <2>2
<1>4. /\ i \in DOMAIN s.rtrq /\ MayRunOn(u, h) /\ \A j \in 1..i : s.pri[s.rtrq[j]] > p
      /\ u \in Tasks /\ u \in Range(s.rtrq) /\ i \in Nat /\ i >= 1
  <2> HIDE DEF i
  <2>1. i \in DOMAIN s.rtrq /\ MayRunOn(u, h) /\ \A j \in 1..i : s.pri[s.rtrq[j]] > p
    BY <1>3 DEF Successors, Fitting
  <2> QED BY <1>2, <2>1 DEF Range
<1>5. /\ Kernel(d) /\ Untouched(d, s) /\ d.htp = s.htp /\ d.run = s.run /\ d.rtrq = s.rtrq /\ d.st = s.st
      /\ d.hp = s.hp /\ d.qep = s.qep /\ d.quanta = s.quanta
      /\ \A v \in Tasks \ {t} : SameTask(d, s, v)
  <2>1. d = Displaced(s, t)
    OBVIOUS
  <2> HIDE DEF d
  <2> QED BY <1>1, <2>1, IsDisplaced
<1>6. r = Start(c, u, h)
  <2> DEFINE f == {n \in Fitting(s, h) : \A j \in 1..n : s.pri[s.rtrq[j]] > p}
             m == CHOOSE m \in f : \A j \in f : m <= j
             a == [s EXCEPT !.rtrq = RemoveAt(@, m), !.tep[t] = None, !.rct[t] = @ \/ LeftOver(s, t)]
  <2>1. f # {} /\ f = fit /\ m = i
    BY DEF Successors
  <2>2. r = Start(Cooled(Ready(a, t, qx)), s.rtrq[m], h)
    BY <1>1, <2>1 DEF FindPriority
  <2>3. a = w
    <3> DEFINE x == s.rct[t] \/ LeftOver(s, t)
    <3>0. Shape(s) /\ x \in BOOLEAN
      BY <1>1 DEF Kernel
    <3>1. a = [s EXCEPT !.rtrq = RemoveAt(@, i), !.tep[t] = None, !.rct[t] = x]
      BY <2>1
    <3>2. d = [s EXCEPT !.tep[t] = None, !.rct[t] = x]
      BY DEF Displaced
    <3>3. w = [d EXCEPT !.rtrq = RemoveAt(s.rtrq, i)]
      BY <1>5 DEF Without
    <3> HIDE DEF x, a, w, d, i
    <3>4. d = [htp |-> s.htp, run |-> s.run, rtrq |-> s.rtrq, abort |-> s.abort, st |-> s.st, pri |-> s.pri,
               hp |-> s.hp, tep |-> [s.tep EXCEPT ![t] = None], rct |-> [s.rct EXCEPT ![t] = x], rtoep |-> s.rtoep,
               qep |-> s.qep, quanta |-> s.quanta, qx |-> s.qx, nmess |-> s.nmess, inReceive |-> s.inReceive, owed |-> s.owed]
      BY <3>0, <3>2 DEF Shape
    <3>5. w = [htp |-> s.htp, run |-> s.run, rtrq |-> RemoveAt(s.rtrq, i), abort |-> s.abort, st |-> s.st, pri |-> s.pri,
               hp |-> s.hp, tep |-> [s.tep EXCEPT ![t] = None], rct |-> [s.rct EXCEPT ![t] = x], rtoep |-> s.rtoep,
               qep |-> s.qep, quanta |-> s.quanta, qx |-> s.qx, nmess |-> s.nmess, inReceive |-> s.inReceive, owed |-> s.owed]
      BY <3>3, <3>4
    <3>6. a = [htp |-> s.htp, run |-> s.run, rtrq |-> RemoveAt(s.rtrq, i), abort |-> s.abort, st |-> s.st, pri |-> s.pri,
               hp |-> s.hp, tep |-> [s.tep EXCEPT ![t] = None], rct |-> [s.rct EXCEPT ![t] = x], rtoep |-> s.rtoep,
               qep |-> s.qep, quanta |-> s.quanta, qx |-> s.qx, nmess |-> s.nmess, inReceive |-> s.inReceive, owed |-> s.owed]
      BY <3>0, <3>1 DEF Shape
    <3> QED BY <3>5, <3>6
  <2> HIDE DEF a, m, f
  <2> QED BY <2>1, <2>2, <2>3
<1> HIDE DEF fit, i, d
<1>7. FineFor(d, Tasks \ {t}, H)
  <2>1. ASSUME NEW v \in Tasks \ {t}
        PROVE  WellOff(d, v, H)
    <3>1. WellOff(s, v, H) /\ CpuOf(s, v, H) /\ (s.st[v] = "hot" => s.htp = v) /\ SameTask(d, s, v)
      BY <1>1, <1>5, <2>1 DEF FineFor, WellOff, Placed
    <3>2. CpuOf(d, v, H)
      BY <1>5, <3>1 DEF CpuOf
    <3> HIDE DEF H
    <3> QED BY <1>5, <3>1, <3>2, StaysWellOff
  <2>2. QueueOK(d)
    BY <1>1, <1>5 DEF QueueOK, Sorted, Untouched
  <2>3. Exchangeable => \A g \in H : UsedWell(d, g)
    BY <1>1, <1>5 DEF FineFor, UsedWell, Serves, Untouched
  <2> QED BY <1>5, <2>1, <2>2, <2>3 DEF FineFor
<1>8. u # t /\ u = d.rtrq[i] /\ i \in DOMAIN d.rtrq
  BY <1>1, <1>4, <1>5 DEF Moving
<1>9. /\ FineFor(w, (Tasks \ {t}) \ {u}, H) /\ Moving(w, u, H) /\ d.st[u] = "ready"
      /\ w.htp = d.htp /\ w.run = d.run /\ w.st = d.st /\ w.pri = d.pri /\ w.rct = d.rct
      /\ Range(w.rtrq) = Range(d.rtrq) \ {u}
  <2>1. Tasks \ {t} \subseteq Tasks /\ u \in Tasks \ {t} /\ w = Without(d, i)
    BY <1>4, <1>8
  <2> HIDE DEF w, u, H
  <2> QED BY <1>7, <1>8, <2>1, RemovalKeeps
<1>10. Moving(w, t, H) /\ w.rtrq = RemoveAt(s.rtrq, i) /\ w.abort = s.abort
  <2>1. /\ Untouched(w, d) /\ w.hp = d.hp /\ w.tep = d.tep /\ w.rct = d.rct /\ w.qep = d.qep /\ w.quanta = d.quanta /\ w.st = d.st
        /\ w.rtrq = RemoveAt(d.rtrq, i)
    <3>1. QueueOK(d) /\ w = Without(d, i)
      BY <1>7 DEF FineFor
    <3> HIDE DEF w
    <3> QED BY <1>5, <1>8, <3>1, IsRemoved
  <2> HIDE DEF w
  <2>2. SameTask(w, d, t)
    BY <2>1 DEF SameTask, Untouched
  <2>3. (\A g \in H : w.run[g] # t) /\ (t \in Range(w.rtrq) => t \in Range(d.rtrq))
    BY <1>1, <1>9 DEF Moving
  <2> HIDE DEF H
  <2>4. Moving(w, t, H)
    BY <1>1, <2>2, <2>3, StaysMoving
  <2> QED BY <1>5, <2>1, <2>4 DEF Untouched
<1> HIDE DEF w
<1>11. ASSUME Discipline = "PR"
       PROVE  s.pri[t] <= s.pri[u]
  <2>1. s.pri[u] > p
    BY <1>4
  <2>2. s.pri[u] \in Nat /\ s.pri[t] \in Nat /\ p \in {s.pri[t], s.pri[t] - 1}
    BY <1>1, <1>2, <1>4, <1>11
  <2> HIDE DEF u
  <2> QED BY <2>1, <2>2
<1>12. ASSUME Exchangeable, NEW g \in H
       PROVE  Serves(w, g, t)
  <2>1. Serves(s, g, u) /\ MayRunOn(u, g)
    BY <1>1, <1>4, <1>12 DEF FineFor, UsedWell, Roams, MayRunOn
  <2>2. s.run[g] # None /\ s.run[g] \in Tasks
    BY <1>1, <1>12, <2>1 DEF Serves, Typed
  <2>3. ASSUME Discipline = "PR", s.st[s.run[g]] \notin Uninterruptible
        PROVE  s.pri[t] <= s.pri[s.run[g]]
    <3>1. s.pri[u] <= s.pri[s.run[g]]
      BY <2>1, <2>3 DEF Serves
    <3>2. s.pri[u] \in Nat /\ s.pri[t] \in Nat /\ s.pri[s.run[g]] \in Nat
      BY <1>2, <1>4, <2>2
    <3>3. s.pri[t] <= s.pri[u]
      BY <1>11, <2>3
    <3> QED BY <3>1, <3>2, <3>3
  <2>4. w.run = s.run /\ w.st = s.st /\ w.pri = s.pri
    BY <1>5, <1>9 DEF Untouched
  <2> QED BY <2>2, <2>3, <2>4 DEF Serves
<1>13. FineFor(b, Tasks \ {u}, H) /\ Moving(b, u, H)
  <2>1. /\ Tasks \ {u} \subseteq Tasks /\ H \subseteq Hosts /\ (Tasks \ {t}) \ {u} = (Tasks \ {u}) \ {t}
        /\ (Tasks \ {u}) \cup {t} = Tasks \ {u} /\ u \in Tasks \ {t} /\ b = Ready(w, t, qx)
    BY <1>4, <1>8
  <2> HIDE DEF b, u, H
  <2>2. /\ FineFor(b, (Tasks \ {u}) \cup {t}, H)
        /\ \A v \in Tasks \ {t} : Moving(w, v, H) => Moving(b, v, H)
    BY <1>9, <1>10, <1>12, <2>1, ReadyKeeps
  <2> QED BY <1>9, <2>1, <2>2
<1>14. b.htp = s.htp /\ b.pri = s.pri /\ b.abort = s.abort /\ Range(b.rtrq) = (Range(s.rtrq) \ {u}) \cup {t}
  <2>1. Kernel(w) /\ b = Ready(w, t, qx)
    BY <1>9 DEF FineFor
  <2> HIDE DEF b, u
  <2>2. ReadyAs(b, w, t)
    BY <2>1, IsReady
  <2> QED BY <1>5, <1>9, <1>10, <2>2 DEF ReadyAs, Untouched
<1> HIDE DEF b
<1>15. /\ FineFor(c, Tasks \ {u}, H) /\ HotIs(c) /\ (c.htp = b.htp \/ c.htp = Driver) /\ Moving(c, u, H)
       /\ c.pri = b.pri /\ c.abort = b.abort /\ c.rtrq = b.rtrq
  <2>1. c = Cooled(b) /\ Kernel(b) /\ Tasks \ {u} \subseteq Tasks /\ u \in Tasks
    BY <1>4, <1>13 DEF FineFor
  <2> HIDE DEF c, u, H
  <2>2. /\ FineFor(c, Tasks \ {u}, H) /\ HotIs(c) /\ (c.htp = b.htp \/ c.htp = Driver)
        /\ \A v \in Tasks : Moving(b, v, H) => Moving(c, v, H)
    BY <1>13, <2>1, CoolingKeeps
  <2>3. Untouched(c, b) /\ c.rtrq = b.rtrq
    BY <2>1, IsCooled
  <2> QED BY <1>13, <2>1, <2>2, <2>3 DEF Untouched
<1> HIDE DEF c
<1>16. c.htp # u
  <2>1. s.htp # u
    BY <1>1, <1>4, <1>5, <1>9 DEF HotIs
  <2> QED BY <1>4, <1>14, <1>15, <2>1, StateNames
<1>17. ASSUME Exchangeable /\ Discipline = "PR", NEW v \in Range(c.rtrq), MayRunOn(v, h)
       PROVE  c.pri[v] <= c.pri[u]
  <2>1. CASE v = t
    BY <1>11, <1>14, <1>15, <1>17, <2>1
  <2>2. CASE v # t
    <3>1. PICK j \in DOMAIN s.rtrq : s.rtrq[j] = v /\ v # u
      BY <1>14, <1>15, <1>17, <2>2 DEF Range
    <3>2. i = 1
      <4>1. 1 \in fit
        <5>1. 1 \in DOMAIN s.rtrq /\ s.pri[s.rtrq[1]] > p /\ 1..1 = {1}
          BY <1>2, <1>4
        <5>2. 1 \in Fitting(s, h)
          BY <1>1, <1>2, <1>17, <5>1 DEF Roams, MayRunOn, Fitting
        <5> QED BY <5>1, <5>2 DEF Successors, fit
      <4> QED BY <1>3, <1>4, <4>1
    <3>3. i < j
      BY <1>2, <3>1, <3>2
    <3>4. s.pri[u] >= s.pri[v] /\ s.pri[u] \in Nat /\ s.pri[v] \in Nat
      BY <1>1, <1>2, <1>4, <1>17, <3>1, <3>3 DEF QueueOK, Sorted
    <3>5. c.pri = s.pri
      BY <1>14, <1>15
    <3> HIDE DEF u
    <3> QED BY <3>4, <3>5
  <2> QED BY <2>1, <2>2
<1>18. Fine(r) /\ r.abort = c.abort
  <2>1. u \in Tasks /\ H = Hosts \ {h}
    BY <1>4
  <2> HIDE DEF u, H
  <2> QED BY <1>6, <1>15, <1>16, <1>17, <2>1, StartKeeps
<1> QED BY <1>14, <1>15, <1>18

LEMMA FindPriorityKeeps ==
  ASSUME node \in Nodes, NEW s, NEW h \in Hosts, NEW t \in Tasks, NEW p, MayGiveWay(s, t, h, p),
         NEW qx \in BOOLEAN, NEW r, r = FindPriority(s, h, p, qx)
  PROVE  Fine(r) /\ r.abort = s.abort
<1>1. /\ Typed(s) /\ Kernel(s) /\ Shape(s) /\ QueueOK(s) /\ s.run[h] = t /\ s.hp[t] = h
      /\ HotIs(s) /\ FineFor(s, Tasks \ {t}, Hosts \ {h})
  BY DEF MayGiveWay, FineFor, Kernel
<1>2. Successors(s, h, p) = {} =>
        r = IF s.htp # Driver THEN s
            ELSE IF Quantum /\ ~s.qep[t] THEN AddQuantum(s, t) ELSE [s EXCEPT !.htp = t, !.st[t] = "hot"]
  BY <1>1 DEF FindPriority, Successors
<1>3. CASE Successors(s, h, p) # {}
  BY <1>3, GivingWay
<1>4. CASE Successors(s, h, p) = {} /\ s.htp # Driver
  BY <1>1, <1>2, <1>4, StayingPut DEF Fine, MayGiveWay
<1>5. CASE Successors(s, h, p) = {} /\ s.htp = Driver /\ Quantum /\ ~s.qep[t]
  <2>1. FineFor(s, Tasks, Hosts) /\ WellOff(s, t, Hosts)
    BY <1>5, StayingPut DEF MayGiveWay
  <2>2. r = AddQuantum(s, t)
    BY <1>2, <1>5
  <2>3. /\ Kernel(r) /\ Untouched(r, s)
        /\ r.htp = s.htp /\ r.run = s.run /\ r.rtrq = s.rtrq /\ r.st = s.st
        /\ r.hp = s.hp /\ r.tep = s.tep /\ r.rct = s.rct
        /\ r.qep = [s.qep EXCEPT ![t] = TRUE] /\ r.quanta = [s.quanta EXCEPT ![t] = @ + 1]
    <3>1. QuantumPut(r, s, t)
      BY <1>1, <2>2, QuantumAdded
    <3> QED BY <3>1, <1>5 DEF QuantumPut
  <2>4. \A u \in Tasks \ {t} : SameTask(r, s, u)
    BY <1>1, <2>3 DEF SameTask, Untouched, Typed
  <2>5. ASSUME NEW u \in Tasks \ {t}
        PROVE  WellOff(r, u, Hosts)
    <3>1. WellOff(s, u, Hosts) /\ CpuOf(s, u, Hosts) /\ (s.st[u] = "hot" => s.htp = u) /\ SameTask(r, s, u)
      BY <2>1, <2>4, <2>5 DEF FineFor, WellOff, Placed
    <3>2. CpuOf(r, u, Hosts)
      BY <2>3, <3>1 DEF CpuOf
    <3> QED BY <2>3, <3>1, <3>2, StaysWellOff
  <2>6. WellOff(r, t, Hosts)
    <3>1. Placed(r, t, Hosts)
      BY <2>1, <2>3 DEF WellOff, Placed, CpuOf
    <3>2. MessagesOf(r, t)
      BY <2>1, <2>3 DEF WellOff, MessagesOf, Untouched
    <3>3. ASSUME QuantaEnd
          PROVE  QuantaOf(r, t)
      <4>1. s.quanta[t] = 0 /\ ~s.qx[t]
        <5>1. Displaced(s, t).quanta = s.quanta /\ Displaced(s, t).qx = s.qx
          BY <1>1, IsDisplaced DEF Untouched
        <5> QED BY <3>3, <5>1 DEF MayGiveWay, Moving
      <4>2. r.qep[t] = TRUE /\ r.quanta[t] = 1 /\ ~r.qx[t]
        BY <1>1, <2>3, <4>1 DEF Typed, Untouched
      <4>3. r.st[t] \in OnCpu
        BY <1>1, <2>1, <2>3 DEF WellOff, Placed, CpuOf
      <4> QED BY <1>5, <4>2, <4>3 DEF QuantaOf
    <3>4. Timely => TimeOf(r, t)
      BY <2>1, <2>3 DEF WellOff, TimeOf, Untouched
    <3> QED BY <3>1, <3>2, <3>3, <3>4 DEF WellOff
  <2>7. QueueOK(r) /\ HotIs(r) /\ r.abort = s.abort
    BY <1>1, <2>3 DEF QueueOK, Sorted, HotIs, Untouched
  <2>8. Exchangeable => \A g \in Hosts : UsedWell(r, g)
    BY <2>1, <2>3 DEF FineFor, UsedWell, Serves, Untouched
  <2> QED BY <2>3, <2>5, <2>6, <2>7, <2>8 DEF Fine, FineFor
<1>6. CASE Successors(s, h, p) = {} /\ s.htp = Driver /\ ~(Quantum /\ ~s.qep[t])
  <2>1. s.tep[t] = None /\ (Timely => ~s.rct[t])
    BY <1>6 DEF MayGiveWay
  <2>2. r = HotOn(s, t, h)
    <3>1. r = [s EXCEPT !.htp = t, !.st[t] = "hot"]
      BY <1>2, <1>6
    <3>2. PICK o : o = [s EXCEPT !.htp = t, !.run[h] = t, !.hp[t] = h, !.st[t] = "hot"]
      OBVIOUS
    <3>3. r = [htp |-> t, run |-> s.run, rtrq |-> s.rtrq, abort |-> s.abort, st |-> [s.st EXCEPT ![t] = "hot"],
               pri |-> s.pri, hp |-> s.hp, tep |-> s.tep, rct |-> s.rct, rtoep |-> s.rtoep, qep |-> s.qep,
               quanta |-> s.quanta, qx |-> s.qx, nmess |-> s.nmess, inReceive |-> s.inReceive, owed |-> s.owed]
      BY <1>1, <3>1 DEF Shape
    <3>4. o = [htp |-> t, run |-> [s.run EXCEPT ![h] = t], rtrq |-> s.rtrq, abort |-> s.abort, st |-> [s.st EXCEPT ![t] = "hot"],
               pri |-> s.pri, hp |-> [s.hp EXCEPT ![t] = h], tep |-> s.tep, rct |-> s.rct, rtoep |-> s.rtoep, qep |-> s.qep,
               quanta |-> s.quanta, qx |-> s.qx, nmess |-> s.nmess, inReceive |-> s.inReceive, owed |-> s.owed]
      BY <1>1, <3>2 DEF Shape
    <3>5. [s.run EXCEPT ![h] = t] = s.run /\ [s.hp EXCEPT ![t] = h] = s.hp
      BY <1>1 DEF Typed
    <3> QED BY <3>2, <3>3, <3>4, <3>5 DEF HotOn
  <2>3. Moving(s, t, Hosts \ {h})
    <3> DEFINE d == Displaced(s, t)
    <3>1. /\ Untouched(d, s) /\ d.run = s.run /\ d.rtrq = s.rtrq /\ d.qep = s.qep /\ d.quanta = s.quanta
          /\ (d.rct[t] <=> s.rct[t] \/ LeftOver(s, t))
      <4>1. d = Displaced(s, t)
        OBVIOUS
      <4> HIDE DEF d
      <4> QED BY <1>1, <4>1, IsDisplaced
    <3>2. Moving(d, t, Hosts \ {h})
      BY DEF MayGiveWay
    <3>3. ~LeftOver(s, t)
      BY <2>1 DEF LeftOver, None
    <3> HIDE DEF d
    <3> QED BY <2>1, <3>1, <3>2, <3>3 DEF Moving, Untouched
  <2>4. \A u \in Tasks \ {t} : s.st[u] # "hot"
    BY <1>1, <1>6, StateNames DEF FineFor, WellOff, Placed
  <2>5. ASSUME Exchangeable /\ Discipline = "PR"
        PROVE  \A u \in Range(s.rtrq) : MayRunOn(u, h) => s.pri[u] <= s.pri[t]
    BY <1>6, <2>5, NoSuccessor
  <2> QED BY <1>1, <2>1, <2>2, <2>3, <2>4, <2>5, TakingOver
<1> QED BY <1>3, <1>4, <1>5, <1>6

-----------------------------------------------------------------------------
\* A step that changes the fields of one task.

\* r is s but for the fields of task t and the hot task.
Edited(r, s, t) ==
  /\ Kernel(r) /\ r.run = s.run /\ r.rtrq = s.rtrq /\ r.abort = s.abort
  /\ \A u \in Tasks \ {t} : SameTask(r, s, u) /\ r.pri[u] = s.pri[u]

\* The change of task t leaves the queue in order and the cpus H well used.
KeepsOrder(r, s, t, H) ==
  /\ r.pri[t] = s.pri[t] \/ t \notin Range(s.rtrq) \/ Discipline = "FIFO"
  /\ \A g \in H : s.run[g] = t /\ Discipline = "PR" =>
       \/ r.st[t] \in Uninterruptible
       \/ s.st[t] \notin Uninterruptible /\ r.pri[t] = s.pri[t]

LEMMA OthersKeep ==
  ASSUME NEW s, NEW T, T \subseteq Tasks, NEW G, G \subseteq Hosts, FineFor(s, T, G),
         NEW H, H \subseteq G, NEW t \in Tasks, NEW r, Edited(r, s, t), KeepsOrder(r, s, t, H),
         \A g \in G \ H : s.run[g] = t,
         \A u \in T \ {t} : s.st[u] = "hot" => r.htp = u
  PROVE  FineFor(r, T \ {t}, H)
<1>1. Kernel(r) /\ Kernel(s) /\ Typed(s) /\ r.run = s.run /\ r.rtrq = s.rtrq /\ QueueOK(s)
  BY DEF Edited, FineFor, Kernel
<1>2. \A u \in Tasks \ {t} : SameTask(r, s, u) /\ r.pri[u] = s.pri[u]
  BY DEF Edited
<1>3. ASSUME NEW u \in T \ {t}
      PROVE  WellOff(r, u, H)
  <2>1. WellOff(s, u, G) /\ CpuOf(s, u, G) /\ SameTask(r, s, u)
    BY <1>2 DEF FineFor, WellOff, Placed
  <2>2. CpuOf(r, u, H)
    <3>1. s.st[u] \in OnCpu => s.hp[u] \in H
      BY <2>1 DEF CpuOf
    <3> QED BY <1>1, <2>1, <3>1 DEF CpuOf, SameTask
  <2>3. s.st[u] = "hot" => r.htp = u
    OBVIOUS
  <2> QED BY <1>1, <2>1, <2>2, <2>3, StaysWellOff
<1>4. QueueOK(r)
  <2>1. ASSUME Discipline # "FIFO", NEW i \in DOMAIN s.rtrq, NEW j \in DOMAIN s.rtrq, i < j
        PROVE  r.pri[s.rtrq[i]] >= r.pri[s.rtrq[j]]
    <3>1. s.rtrq[i] \in Range(s.rtrq) /\ s.rtrq[j] \in Range(s.rtrq)
      BY DEF Range
    <3>2. \A u \in Range(s.rtrq) : r.pri[u] = s.pri[u]
      <4>1. s.rtrq \in Seq(Tasks)
        BY <1>1 DEF Typed
      <4>2. Range(s.rtrq) \subseteq Tasks
        BY <4>1, RangeOfSeq
      <4> QED BY <1>2, <2>1, <4>2 DEF KeepsOrder
    <3> QED BY <1>1, <2>1, <3>1, <3>2 DEF QueueOK, Sorted
  <2> QED BY <1>1, <2>1 DEF QueueOK, Sorted
<1>5. ASSUME Exchangeable, NEW g \in H
      PROVE  UsedWell(r, g)
  <2>1. UsedWell(s, g)
    BY <1>5 DEF FineFor
  <2>2. ASSUME NEW u \in Range(s.rtrq), MayRunOn(u, g)
        PROVE  /\ r.run[g] # None
               /\ Discipline = "PR" /\ r.st[r.run[g]] \notin Uninterruptible => r.pri[u] <= r.pri[r.run[g]]
    <3>1. /\ s.run[g] # None
          /\ Discipline = "PR" /\ s.st[s.run[g]] \notin Uninterruptible => s.pri[u] <= s.pri[s.run[g]]
      BY <2>1, <2>2 DEF UsedWell, Serves
    <3>2. s.run[g] \in Tasks /\ u \in Tasks
      <4>1. s.rtrq \in Seq(Tasks) /\ g \in Hosts
        BY <1>1 DEF Typed
      <4> QED BY <1>1, <3>1, <4>1, RangeOfSeq DEF Typed
    <3>3. ASSUME Discipline = "PR", r.st[s.run[g]] \notin Uninterruptible
          PROVE  r.pri[u] <= r.pri[s.run[g]]
      <4>1. r.pri[u] = s.pri[u]
        BY <1>2, <2>2, <3>2, <3>3 DEF KeepsOrder
      <4>2. s.st[s.run[g]] \notin Uninterruptible /\ r.pri[s.run[g]] = s.pri[s.run[g]]
        <5>1. CASE s.run[g] = t
          BY <3>3, <5>1 DEF KeepsOrder
        <5>2. CASE s.run[g] # t
          BY <1>2, <3>2, <3>3, <5>2 DEF SameTask
        <5> QED BY <5>1, <5>2
      <4> QED BY <3>1, <3>3, <4>1, <4>2
    <3> QED BY <1>1, <3>1, <3>3
  <2> QED BY <1>1, <2>2 DEF UsedWell, Serves
<1> QED BY <1>1, <1>3, <1>4, <1>5 DEF FineFor

LEMMA WholeAgain ==
  ASSUME NEW r, NEW t \in Tasks, NEW H, FineFor(r, Tasks \ {t}, H), WellOff(r, t, H)
  PROVE  FineFor(r, Tasks, H)
  BY DEF FineFor

\* What a task on a cpu, and one without, has in a state in which all is well.
LEMMA OnOneCpu ==
  ASSUME NEW s, NEW t \in Tasks, FineFor(s, Tasks, Hosts), s.st[t] \in OnCpu
  PROVE  /\ s.hp[t] \in Hosts /\ s.run[s.hp[t]] = t /\ t \notin Range(s.rtrq)
         /\ \A g \in Hosts \ {s.hp[t]} : s.run[g] # t
<1>1. Placed(s, t, Hosts) /\ s.st[t] # "ready"
  BY StateNames DEF FineFor, WellOff
<1> QED BY <1>1 DEF Placed, CpuOf

LEMMA OnNoCpu ==
  ASSUME NEW s, NEW t \in Tasks, FineFor(s, Tasks, Hosts), s.st[t] \notin OnCpu
  PROVE  \A g \in Hosts : s.run[g] # t
  BY DEF FineFor, WellOff, Placed, CpuOf

\* r is s after task t began to compute.
IsComputingAs(r, s, t) ==
  /\ Edited(r, s, t) /\ r.htp = s.htp /\ r.st[t] = "computing" /\ r.pri[t] = s.pri[t] /\ r.hp[t] = s.hp[t]
  /\ r.tep[t] = "END_COMPUTE" /\ r.rct[t] = s.rct[t] /\ r.rtoep[t] = s.rtoep[t] /\ r.qep[t] = s.qep[t]
  /\ r.quanta[t] = s.quanta[t] /\ r.qx[t] = s.qx[t] /\ r.nmess[t] = s.nmess[t] /\ r.owed[t] = TRUE

LEMMA IsComputing ==
  ASSUME NEW s, Kernel(s), NEW t \in Tasks, NEW r,
         r = [s EXCEPT !.st[t] = "computing", !.tep[t] = "END_COMPUTE", !.owed[t] = TRUE]
  PROVE  IsComputingAs(r, s, t)
<1>1. Shape(s) /\ Typed(s)
  BY DEF Kernel
<1>3. r = [htp |-> s.htp, run |-> s.run, rtrq |-> s.rtrq, abort |-> s.abort,
            st |-> [s.st EXCEPT ![t] = "computing"], pri |-> s.pri, hp |-> s.hp,
            tep |-> [s.tep EXCEPT ![t] = "END_COMPUTE"], rct |-> s.rct, rtoep |-> s.rtoep, qep |-> s.qep,
            quanta |-> s.quanta, qx |-> s.qx, nmess |-> s.nmess, inReceive |-> s.inReceive,
            owed |-> [s.owed EXCEPT ![t] = TRUE]]
  BY <1>1 DEF Shape
<1>4. Shape(r)
  BY <1>3 DEF Shape
<1>5. Typed(r)
  BY <1>1, <1>3 DEF Typed, States, Events
<1>6. \A u \in Tasks \ {t} : SameTask(r, s, u) /\ r.pri[u] = s.pri[u]
  BY <1>1, <1>3 DEF Typed, SameTask
<1>7. Edited(r, s, t)
  BY <1>3, <1>4, <1>5, <1>6 DEF Kernel, Edited
<1> QED BY <1>1, <1>3, <1>7 DEF Typed, IsComputingAs

\* r is s after task t went into state st to wait for event e.
IsBusyAs(r, s, t, st, e) ==
  /\ Edited(r, s, t) /\ r.htp = s.htp /\ r.st[t] = st /\ r.pri[t] = s.pri[t] /\ r.hp[t] = s.hp[t] /\ r.tep[t] = e
  /\ r.rct[t] = s.rct[t] /\ r.rtoep[t] = s.rtoep[t] /\ r.qep[t] = s.qep[t] /\ r.quanta[t] = s.quanta[t]
  /\ r.qx[t] = s.qx[t] /\ r.nmess[t] = s.nmess[t] /\ r.owed[t] = s.owed[t]

LEMMA IsBusy ==
  ASSUME NEW s, Kernel(s), NEW t \in Tasks, NEW st \in States, NEW e \in Events, NEW r,
         r = [s EXCEPT !.st[t] = st, !.tep[t] = e]
  PROVE  IsBusyAs(r, s, t, st, e)
<1>1. Shape(s) /\ Typed(s)
  BY DEF Kernel
<1>3. r = [htp |-> s.htp, run |-> s.run, rtrq |-> s.rtrq, abort |-> s.abort, st |-> [s.st EXCEPT ![t] = st],
            pri |-> s.pri, hp |-> s.hp, tep |-> [s.tep EXCEPT ![t] = e], rct |-> s.rct, rtoep |-> s.rtoep,
            qep |-> s.qep, quanta |-> s.quanta, qx |-> s.qx, nmess |-> s.nmess, inReceive |-> s.inReceive,
            owed |-> s.owed]
  BY <1>1 DEF Shape
<1>4. Shape(r)
  BY <1>3 DEF Shape
<1>5. Typed(r)
  BY <1>1, <1>3 DEF Typed
<1>6. \A u \in Tasks \ {t} : SameTask(r, s, u) /\ r.pri[u] = s.pri[u]
  BY <1>1, <1>3 DEF Typed, SameTask
<1>7. Edited(r, s, t)
  BY <1>3, <1>4, <1>5, <1>6 DEF Kernel, Edited
<1> QED BY <1>1, <1>3, <1>7 DEF Typed, IsBusyAs

\* r is s after task t went into state st.
IsInStateAs(r, s, t, st) ==
  /\ Edited(r, s, t) /\ r.htp = s.htp /\ r.st[t] = st /\ r.pri[t] = s.pri[t] /\ r.hp[t] = s.hp[t]
  /\ r.tep[t] = s.tep[t] /\ r.rct[t] = s.rct[t] /\ r.rtoep[t] = s.rtoep[t] /\ r.qep[t] = s.qep[t]
  /\ r.quanta[t] = s.quanta[t] /\ r.qx[t] = s.qx[t] /\ r.nmess[t] = s.nmess[t] /\ r.owed[t] = s.owed[t]

LEMMA IsInState ==
  ASSUME NEW s, Kernel(s), NEW t \in Tasks, NEW st \in States, NEW r,
         r = [s EXCEPT !.st[t] = st]
  PROVE  IsInStateAs(r, s, t, st)
<1>1. Shape(s) /\ Typed(s)
  BY DEF Kernel
<1>3. r = [htp |-> s.htp, run |-> s.run, rtrq |-> s.rtrq, abort |-> s.abort, st |-> [s.st EXCEPT ![t] = st],
            pri |-> s.pri, hp |-> s.hp, tep |-> s.tep, rct |-> s.rct, rtoep |-> s.rtoep, qep |-> s.qep,
            quanta |-> s.quanta, qx |-> s.qx, nmess |-> s.nmess, inReceive |-> s.inReceive, owed |-> s.owed]
  BY <1>1 DEF Shape
<1>4. Shape(r)
  BY <1>3 DEF Shape
<1>5. Typed(r)
  BY <1>1, <1>3 DEF Typed
<1>6. \A u \in Tasks \ {t} : SameTask(r, s, u) /\ r.pri[u] = s.pri[u]
  BY <1>1, <1>3 DEF Typed, SameTask
<1>7. Edited(r, s, t)
  BY <1>3, <1>4, <1>5, <1>6 DEF Kernel, Edited
<1> QED BY <1>1, <1>3, <1>7 DEF Typed, IsInStateAs

Asleep(s, t) ==
  [RemoveQuantum(s, t) EXCEPT !.st[t] = "sleeping", !.tep[t] = "END_SLEEP", !.hp[t] = AnyHost]

\* r is s after task t fell asleep.
IsAsleepAs(r, s, t) ==
  /\ Edited(r, s, t) /\ r.htp = s.htp /\ r.st[t] = "sleeping" /\ r.pri[t] = s.pri[t] /\ r.hp[t] = AnyHost
  /\ r.tep[t] = "END_SLEEP" /\ r.rct[t] = s.rct[t] /\ r.rtoep[t] = s.rtoep[t] /\ r.qep[t] = FALSE
  /\ r.quanta[t] = (IF s.qep[t] THEN s.quanta[t] - 1 ELSE s.quanta[t]) /\ r.qx[t] = s.qx[t]
  /\ r.nmess[t] = s.nmess[t] /\ r.owed[t] = s.owed[t]

LEMMA IsAsleep ==
  ASSUME NEW s, Kernel(s), NEW t \in Tasks, NEW r, r = Asleep(s, t)
  PROVE  IsAsleepAs(r, s, t)
<1> DEFINE q == RemoveQuantum(s, t)
<1>0. QuantumGone(q, s, t)
  BY QuantumRemoved
<1>1. Shape(q) /\ Typed(q) /\ Typed(s)
  BY <1>0 DEF QuantumGone, Kernel
<1>2. r = [q EXCEPT !.st[t] = "sleeping", !.tep[t] = "END_SLEEP", !.hp[t] = AnyHost]
  BY DEF Asleep
<1> HIDE DEF q
<1>3. r = [htp |-> q.htp, run |-> q.run, rtrq |-> q.rtrq, abort |-> q.abort,
            st |-> [q.st EXCEPT ![t] = "sleeping"], pri |-> q.pri, hp |-> [q.hp EXCEPT ![t] = AnyHost],
            tep |-> [q.tep EXCEPT ![t] = "END_SLEEP"], rct |-> q.rct, rtoep |-> q.rtoep, qep |-> q.qep,
            quanta |-> q.quanta, qx |-> q.qx, nmess |-> q.nmess, inReceive |-> q.inReceive, owed |-> q.owed]
  BY <1>1, <1>2 DEF Shape
<1>10. Typed(q)
  BY <1>1
<1>4. Shape(r)
  BY <1>3 DEF Shape
<1>5. Typed(r)
  <2>1. r.st \in [Tasks -> States]
    BY <1>10, <1>3 DEF Typed, States
  <2>2. r.tep \in [Tasks -> Events]
    BY <1>10, <1>3 DEF Typed, Events
  <2>3. r.hp \in [Tasks -> Hosts \cup {AnyHost}]
    BY <1>10, <1>3 DEF Typed
  <2> QED BY <1>10, <1>3, <2>1, <2>2, <2>3 DEF Typed
<1>6. r.pri = s.pri
  BY <1>0, <1>3 DEF QuantumGone, Untouched
<1>7. \A u \in Tasks \ {t} : SameTask(q, s, u)
  BY <1>0, <1>1 DEF QuantumGone, Untouched, Typed, SameTask
<1>8. \A u \in Tasks \ {t} : SameTask(r, q, u)
  <2>1. \A u \in Tasks \ {t} : r.st[u] = q.st[u]
    BY <1>10, <1>3 DEF Typed
  <2>2. \A u \in Tasks \ {t} : r.tep[u] = q.tep[u]
    BY <1>10, <1>3 DEF Typed
  <2>3. \A u \in Tasks \ {t} : r.hp[u] = q.hp[u]
    BY <1>10, <1>3 DEF Typed
  <2> QED BY <1>3, <2>1, <2>2, <2>3 DEF SameTask
<1>9. Edited(r, s, t)
  BY <1>0, <1>3, <1>4, <1>5, <1>6, <1>7, <1>8 DEF QuantumGone, Untouched, Kernel, SameTask, Edited
<1> QED BY <1>0, <1>1, <1>3, <1>9 DEF QuantumGone, Untouched, Typed, IsAsleepAs

Waiting(s, t) ==
  [RemoveQuantum(s, t) EXCEPT !.st[t] = "receiving", !.inReceive[t] = TRUE]

\* r is s after task t began to wait for a message.
IsWaitingAs(r, s, t) ==
  /\ Edited(r, s, t) /\ r.htp = s.htp /\ r.st[t] = "receiving" /\ r.pri[t] = s.pri[t] /\ r.hp[t] = s.hp[t]
  /\ r.tep[t] = s.tep[t] /\ r.rct[t] = s.rct[t] /\ r.rtoep[t] = s.rtoep[t] /\ r.qep[t] = FALSE
  /\ r.quanta[t] = (IF s.qep[t] THEN s.quanta[t] - 1 ELSE s.quanta[t]) /\ r.qx[t] = s.qx[t]
  /\ r.nmess[t] = s.nmess[t] /\ r.owed[t] = s.owed[t]

LEMMA IsWaiting ==
  ASSUME NEW s, Kernel(s), NEW t \in Tasks, NEW r, r = Waiting(s, t)
  PROVE  IsWaitingAs(r, s, t)
<1> DEFINE q == RemoveQuantum(s, t)
<1>0. QuantumGone(q, s, t)
  BY QuantumRemoved
<1>1. Shape(q) /\ Typed(q) /\ Typed(s)
  BY <1>0 DEF QuantumGone, Kernel
<1>2. r = [q EXCEPT !.st[t] = "receiving", !.inReceive[t] = TRUE]
  BY DEF Waiting
<1> HIDE DEF q
<1>3. r = [htp |-> q.htp, run |-> q.run, rtrq |-> q.rtrq, abort |-> q.abort,
            st |-> [q.st EXCEPT ![t] = "receiving"], pri |-> q.pri, hp |-> q.hp, tep |-> q.tep, rct |-> q.rct,
            rtoep |-> q.rtoep, qep |-> q.qep, quanta |-> q.quanta, qx |-> q.qx, nmess |-> q.nmess,
            inReceive |-> [q.inReceive EXCEPT ![t] = TRUE], owed |-> q.owed]
  BY <1>1, <1>2 DEF Shape
<1>10. Typed(q)
  BY <1>1
<1>4. Shape(r)
  BY <1>3 DEF Shape
<1>5. Typed(r)
  BY <1>10, <1>3 DEF Typed, States
<1>6. r.pri = s.pri
  BY <1>0, <1>3 DEF QuantumGone, Untouched
<1>7. \A u \in Tasks \ {t} : SameTask(q, s, u)
  BY <1>0, <1>1 DEF QuantumGone, Untouched, Typed, SameTask
<1>8. \A u \in Tasks \ {t} : SameTask(r, q, u)
  BY <1>10, <1>3 DEF Typed, SameTask
<1>9. Edited(r, s, t)
  BY <1>0, <1>3, <1>4, <1>5, <1>6, <1>7, <1>8 DEF QuantumGone, Untouched, Kernel, SameTask, Edited
<1> QED BY <1>0, <1>1, <1>3, <1>9 DEF QuantumGone, Untouched, Typed, IsWaitingAs

Suspended(s, t) ==
  [RemoveQuantum(s, t) EXCEPT !.st[t] = "suspended", !.hp[t] = AnyHost]

\* r is s after task t was suspended.
IsSuspendedAs(r, s, t) ==
  /\ Edited(r, s, t) /\ r.htp = s.htp /\ r.st[t] = "suspended" /\ r.pri[t] = s.pri[t] /\ r.hp[t] = AnyHost
  /\ r.tep[t] = s.tep[t] /\ r.rct[t] = s.rct[t] /\ r.rtoep[t] = s.rtoep[t] /\ r.qep[t] = FALSE
  /\ r.quanta[t] = (IF s.qep[t] THEN s.quanta[t] - 1 ELSE s.quanta[t]) /\ r.qx[t] = s.qx[t]
  /\ r.nmess[t] = s.nmess[t] /\ r.owed[t] = s.owed[t]

LEMMA IsSuspended ==
  ASSUME NEW s, Kernel(s), NEW t \in Tasks, NEW r, r = Suspended(s, t)
  PROVE  IsSuspendedAs(r, s, t)
<1> DEFINE q == RemoveQuantum(s, t)
<1>0. QuantumGone(q, s, t)
  BY QuantumRemoved
<1>1. Shape(q) /\ Typed(q) /\ Typed(s)
  BY <1>0 DEF QuantumGone, Kernel
<1>2. r = [q EXCEPT !.st[t] = "suspended", !.hp[t] = AnyHost]
  BY DEF Suspended
<1> HIDE DEF q
<1>3. r = [htp |-> q.htp, run |-> q.run, rtrq |-> q.rtrq, abort |-> q.abort,
            st |-> [q.st EXCEPT ![t] = "suspended"], pri |-> q.pri, hp |-> [q.hp EXCEPT ![t] = AnyHost],
            tep |-> q.tep, rct |-> q.rct, rtoep |-> q.rtoep, qep |-> q.qep, quanta |-> q.quanta, qx |-> q.qx,
            nmess |-> q.nmess, inReceive |-> q.inReceive, owed |-> q.owed]
  BY <1>1, <1>2 DEF Shape
<1>10. Typed(q)
  BY <1>1
<1>4. Shape(r)
  BY <1>3 DEF Shape
<1>5. Typed(r)
  <2>1. r.st \in [Tasks -> States]
    BY <1>10, <1>3 DEF Typed, States
  <2>2. r.hp \in [Tasks -> Hosts \cup {AnyHost}]
    BY <1>10, <1>3 DEF Typed
  <2> QED BY <1>10, <1>3, <2>1, <2>2 DEF Typed
<1>6. r.pri = s.pri
  BY <1>0, <1>3 DEF QuantumGone, Untouched
<1>7. \A u \in Tasks \ {t} : SameTask(q, s, u)
  BY <1>0, <1>1 DEF QuantumGone, Untouched, Typed, SameTask
<1>8. \A u \in Tasks \ {t} : SameTask(r, q, u)
  BY <1>10, <1>3 DEF Typed, SameTask
<1>9. Edited(r, s, t)
  BY <1>0, <1>3, <1>4, <1>5, <1>6, <1>7, <1>8 DEF QuantumGone, Untouched, Kernel, SameTask, Edited
<1> QED BY <1>0, <1>1, <1>3, <1>9 DEF QuantumGone, Untouched, Typed, IsSuspendedAs

Dead(s, t) ==
  [RemoveQuantum(s, t) EXCEPT !.st[t] = "free", !.tep[t] = None, !.rtoep[t] = FALSE,
                                  !.nmess[t] = 0, !.inReceive[t] = FALSE, !.owed[t] = FALSE]

\* r is s after task t was killed.
IsDeadAs(r, s, t) ==
  /\ Edited(r, s, t) /\ r.htp = s.htp /\ r.st[t] = "free" /\ r.pri[t] = s.pri[t] /\ r.hp[t] = s.hp[t]
  /\ r.tep[t] = None /\ r.rct[t] = s.rct[t] /\ r.rtoep[t] = FALSE /\ r.qep[t] = FALSE
  /\ r.quanta[t] = (IF s.qep[t] THEN s.quanta[t] - 1 ELSE s.quanta[t]) /\ r.qx[t] = s.qx[t] /\ r.nmess[t] = 0
  /\ r.owed[t] = FALSE

LEMMA IsDead ==
  ASSUME NEW s, Kernel(s), NEW t \in Tasks, NEW r, r = Dead(s, t)
  PROVE  IsDeadAs(r, s, t)
<1> DEFINE q == RemoveQuantum(s, t)
<1>0. QuantumGone(q, s, t)
  BY QuantumRemoved
<1>1. Shape(q) /\ Typed(q) /\ Typed(s)
  BY <1>0 DEF QuantumGone, Kernel
<1>2. r = [q EXCEPT !.st[t] = "free", !.tep[t] = None, !.rtoep[t] = FALSE,
                                       !.nmess[t] = 0, !.inReceive[t] = FALSE, !.owed[t] = FALSE]
  BY DEF Dead
<1> HIDE DEF q
<1>3. r = [htp |-> q.htp, run |-> q.run, rtrq |-> q.rtrq, abort |-> q.abort, st |-> [q.st EXCEPT ![t] = "free"],
            pri |-> q.pri, hp |-> q.hp, tep |-> [q.tep EXCEPT ![t] = None], rct |-> q.rct,
            rtoep |-> [q.rtoep EXCEPT ![t] = FALSE], qep |-> q.qep, quanta |-> q.quanta, qx |-> q.qx,
            nmess |-> [q.nmess EXCEPT ![t] = 0], inReceive |-> [q.inReceive EXCEPT ![t] = FALSE],
            owed |-> [q.owed EXCEPT ![t] = FALSE]]
  BY <1>1, <1>2 DEF Shape
<1>10. Typed(q)
  BY <1>1
<1>4. Shape(r)
  BY <1>3 DEF Shape
<1>5. Typed(r)
  <2>1. r.st \in [Tasks -> States]
    BY <1>10, <1>3 DEF Typed, States
  <2>2. r.tep \in [Tasks -> Events]
    BY <1>10, <1>3 DEF Typed, Events
  <2>3. r.rtoep \in [Tasks -> BOOLEAN]
    BY <1>10, <1>3 DEF Typed
  <2>4. r.nmess \in [Tasks -> Int]
    BY <1>10, <1>3 DEF Typed
  <2>5. r.inReceive \in [Tasks -> BOOLEAN]
    BY <1>10, <1>3 DEF Typed
  <2>6. r.owed \in [Tasks -> BOOLEAN]
    BY <1>10, <1>3 DEF Typed
  <2> QED BY <1>10, <1>3, <2>1, <2>2, <2>3, <2>4, <2>5, <2>6 DEF Typed
<1>6. r.pri = s.pri
  BY <1>0, <1>3 DEF QuantumGone, Untouched
<1>7. \A u \in Tasks \ {t} : SameTask(q, s, u)
  BY <1>0, <1>1 DEF QuantumGone, Untouched, Typed, SameTask
<1>8. \A u \in Tasks \ {t} : SameTask(r, q, u)
  BY <1>10, <1>3 DEF Typed, SameTask
<1>9. Edited(r, s, t)
  BY <1>0, <1>3, <1>4, <1>5, <1>6, <1>7, <1>8 DEF QuantumGone, Untouched, Kernel, SameTask, Edited
<1> QED BY <1>0, <1>1, <1>3, <1>9 DEF QuantumGone, Untouched, Typed, IsDeadAs

\* r is s with the time-out of task t set or cancelled.
IsTimedAs(r, s, t, x) ==
  /\ Edited(r, s, t) /\ r.htp = s.htp /\ r.st[t] = s.st[t] /\ r.pri[t] = s.pri[t] /\ r.hp[t] = s.hp[t]
  /\ r.tep[t] = s.tep[t] /\ r.rct[t] = s.rct[t] /\ r.rtoep[t] = x /\ r.qep[t] = s.qep[t]
  /\ r.quanta[t] = s.quanta[t] /\ r.qx[t] = s.qx[t] /\ r.nmess[t] = s.nmess[t] /\ r.owed[t] = s.owed[t]

LEMMA IsTimed ==
  ASSUME NEW s, Kernel(s), NEW t \in Tasks, NEW x \in BOOLEAN, NEW r,
         r = [s EXCEPT !.rtoep[t] = x]
  PROVE  IsTimedAs(r, s, t, x)
<1>1. Shape(s) /\ Typed(s)
  BY DEF Kernel
<1>3. r = [htp |-> s.htp, run |-> s.run, rtrq |-> s.rtrq, abort |-> s.abort, st |-> s.st, pri |-> s.pri,
            hp |-> s.hp, tep |-> s.tep, rct |-> s.rct, rtoep |-> [s.rtoep EXCEPT ![t] = x], qep |-> s.qep,
            quanta |-> s.quanta, qx |-> s.qx, nmess |-> s.nmess, inReceive |-> s.inReceive, owed |-> s.owed]
  BY <1>1 DEF Shape
<1>4. Shape(r)
  BY <1>3 DEF Shape
<1>5. Typed(r)
  BY <1>1, <1>3 DEF Typed
<1>6. \A u \in Tasks \ {t} : SameTask(r, s, u) /\ r.pri[u] = s.pri[u]
  BY <1>1, <1>3 DEF Typed, SameTask
<1>7. Edited(r, s, t)
  BY <1>3, <1>4, <1>5, <1>6 DEF Kernel, Edited
<1> QED BY <1>1, <1>3, <1>7 DEF Typed, IsTimedAs

\* r is s after task t took a message.
IsReceivedAs(r, s, t) ==
  /\ Edited(r, s, t) /\ r.htp = s.htp /\ r.st[t] = s.st[t] /\ r.pri[t] = s.pri[t] /\ r.hp[t] = s.hp[t]
  /\ r.tep[t] = s.tep[t] /\ r.rct[t] = s.rct[t] /\ r.rtoep[t] = FALSE /\ r.qep[t] = s.qep[t]
  /\ r.quanta[t] = s.quanta[t] /\ r.qx[t] = s.qx[t] /\ r.nmess[t] = s.nmess[t] - 1 /\ r.owed[t] = s.owed[t]

LEMMA IsReceived ==
  ASSUME NEW s, Kernel(s), NEW t \in Tasks, NEW r,
         r = [s EXCEPT !.nmess[t] = @ - 1, !.rtoep[t] = FALSE, !.inReceive[t] = FALSE]
  PROVE  IsReceivedAs(r, s, t)
<1>1. Shape(s) /\ Typed(s)
  BY DEF Kernel
<1>3. r = [htp |-> s.htp, run |-> s.run, rtrq |-> s.rtrq, abort |-> s.abort, st |-> s.st, pri |-> s.pri,
            hp |-> s.hp, tep |-> s.tep, rct |-> s.rct, rtoep |-> [s.rtoep EXCEPT ![t] = FALSE], qep |-> s.qep,
            quanta |-> s.quanta, qx |-> s.qx, nmess |-> [s.nmess EXCEPT ![t] = @ - 1],
            inReceive |-> [s.inReceive EXCEPT ![t] = FALSE], owed |-> s.owed]
  BY <1>1 DEF Shape
<1>4. Shape(r)
  BY <1>3 DEF Shape
<1>5. Typed(r)
  BY <1>1, <1>3 DEF Typed
<1>6. \A u \in Tasks \ {t} : SameTask(r, s, u) /\ r.pri[u] = s.pri[u]
  BY <1>1, <1>3 DEF Typed, SameTask
<1>7. Edited(r, s, t)
  BY <1>3, <1>4, <1>5, <1>6 DEF Kernel, Edited
<1> QED BY <1>1, <1>3, <1>7 DEF Typed, IsReceivedAs

\* r is s with a message more for task t.
IsSentAs(r, s, t) ==
  /\ Edited(r, s, t) /\ r.htp = s.htp /\ r.st[t] = s.st[t] /\ r.pri[t] = s.pri[t] /\ r.hp[t] = s.hp[t]
  /\ r.tep[t] = s.tep[t] /\ r.rct[t] = s.rct[t] /\ r.rtoep[t] = s.rtoep[t] /\ r.qep[t] = s.qep[t]
  /\ r.quanta[t] = s.quanta[t] /\ r.qx[t] = s.qx[t] /\ r.nmess[t] = s.nmess[t] + 1 /\ r.owed[t] = s.owed[t]

LEMMA IsSent ==
  ASSUME NEW s, Kernel(s), NEW t \in Tasks, NEW r,
         r = [s EXCEPT !.nmess[t] = @ + 1]
  PROVE  IsSentAs(r, s, t)
<1>1. Shape(s) /\ Typed(s)
  BY DEF Kernel
<1>3. r = [htp |-> s.htp, run |-> s.run, rtrq |-> s.rtrq, abort |-> s.abort, st |-> s.st, pri |-> s.pri,
            hp |-> s.hp, tep |-> s.tep, rct |-> s.rct, rtoep |-> s.rtoep, qep |-> s.qep, quanta |-> s.quanta,
            qx |-> s.qx, nmess |-> [s.nmess EXCEPT ![t] = @ + 1], inReceive |-> s.inReceive, owed |-> s.owed]
  BY <1>1 DEF Shape
<1>4. Shape(r)
  BY <1>3 DEF Shape
<1>5. Typed(r)
  BY <1>1, <1>3 DEF Typed
<1>6. \A u \in Tasks \ {t} : SameTask(r, s, u) /\ r.pri[u] = s.pri[u]
  BY <1>1, <1>3 DEF Typed, SameTask
<1>7. Edited(r, s, t)
  BY <1>3, <1>4, <1>5, <1>6 DEF Kernel, Edited
<1> QED BY <1>1, <1>3, <1>7 DEF Typed, IsSentAs

\* r is s without the event of task t.
IsCancelledAs(r, s, t) ==
  /\ Edited(r, s, t) /\ r.htp = s.htp /\ r.st[t] = s.st[t] /\ r.pri[t] = s.pri[t] /\ r.hp[t] = s.hp[t]
  /\ r.tep[t] = None /\ r.rct[t] = s.rct[t] /\ r.rtoep[t] = s.rtoep[t] /\ r.qep[t] = s.qep[t]
  /\ r.quanta[t] = s.quanta[t] /\ r.qx[t] = s.qx[t] /\ r.nmess[t] = s.nmess[t] /\ r.owed[t] = s.owed[t]

LEMMA IsCancelled ==
  ASSUME NEW s, Kernel(s), NEW t \in Tasks, NEW r,
         r = [s EXCEPT !.tep[t] = None]
  PROVE  IsCancelledAs(r, s, t)
<1>1. Shape(s) /\ Typed(s)
  BY DEF Kernel
<1>3. r = [htp |-> s.htp, run |-> s.run, rtrq |-> s.rtrq, abort |-> s.abort, st |-> s.st, pri |-> s.pri,
            hp |-> s.hp, tep |-> [s.tep EXCEPT ![t] = None], rct |-> s.rct, rtoep |-> s.rtoep, qep |-> s.qep,
            quanta |-> s.quanta, qx |-> s.qx, nmess |-> s.nmess, inReceive |-> s.inReceive, owed |-> s.owed]
  BY <1>1 DEF Shape
<1>4. Shape(r)
  BY <1>3 DEF Shape
<1>5. Typed(r)
  BY <1>1, <1>3 DEF Typed, Events
<1>6. \A u \in Tasks \ {t} : SameTask(r, s, u) /\ r.pri[u] = s.pri[u]
  BY <1>1, <1>3 DEF Typed, SameTask
<1>7. Edited(r, s, t)
  BY <1>3, <1>4, <1>5, <1>6 DEF Kernel, Edited
<1> QED BY <1>1, <1>3, <1>7 DEF Typed, IsCancelledAs

\* r is s with priority p for task t.
IsRankedAs(r, s, t, p) ==
  /\ Edited(r, s, t) /\ r.htp = s.htp /\ r.st[t] = s.st[t] /\ r.pri[t] = p /\ r.hp[t] = s.hp[t]
  /\ r.tep[t] = s.tep[t] /\ r.rct[t] = s.rct[t] /\ r.rtoep[t] = s.rtoep[t] /\ r.qep[t] = s.qep[t]
  /\ r.quanta[t] = s.quanta[t] /\ r.qx[t] = s.qx[t] /\ r.nmess[t] = s.nmess[t] /\ r.owed[t] = s.owed[t]

LEMMA IsRanked ==
  ASSUME NEW s, Kernel(s), NEW t \in Tasks, NEW p \in Priorities, NEW r,
         r = [s EXCEPT !.pri[t] = p]
  PROVE  IsRankedAs(r, s, t, p)
<1>1. Shape(s) /\ Typed(s)
  BY DEF Kernel
<1>3. r = [htp |-> s.htp, run |-> s.run, rtrq |-> s.rtrq, abort |-> s.abort, st |-> s.st,
            pri |-> [s.pri EXCEPT ![t] = p], hp |-> s.hp, tep |-> s.tep, rct |-> s.rct, rtoep |-> s.rtoep,
            qep |-> s.qep, quanta |-> s.quanta, qx |-> s.qx, nmess |-> s.nmess, inReceive |-> s.inReceive,
            owed |-> s.owed]
  BY <1>1 DEF Shape
<1>4. Shape(r)
  BY <1>3 DEF Shape
<1>5. Typed(r)
  BY <1>1, <1>3 DEF Typed
<1>6. \A u \in Tasks \ {t} : SameTask(r, s, u) /\ r.pri[u] = s.pri[u]
  BY <1>1, <1>3 DEF Typed, SameTask
<1>7. Edited(r, s, t)
  BY <1>3, <1>4, <1>5, <1>6 DEF Kernel, Edited
<1> QED BY <1>1, <1>3, <1>7 DEF Typed, IsRankedAs

\* r is s after task t was created with priority p.
IsCreatedAs(r, s, t, p) ==
  /\ Edited(r, s, t) /\ r.htp = s.htp /\ r.st[t] = "suspended" /\ r.pri[t] = p /\ r.hp[t] = AnyHost
  /\ r.tep[t] = s.tep[t] /\ r.rct[t] = FALSE /\ r.rtoep[t] = s.rtoep[t] /\ r.qep[t] = s.qep[t]
  /\ r.quanta[t] = s.quanta[t] /\ r.qx[t] = FALSE /\ r.nmess[t] = s.nmess[t] /\ r.owed[t] = s.owed[t]

LEMMA IsCreated ==
  ASSUME NEW s, Kernel(s), NEW t \in Tasks, NEW p \in Priorities, NEW r,
         r = [s EXCEPT !.st[t] = "suspended", !.pri[t] = p, !.hp[t] = AnyHost, !.rct[t] = FALSE, !.qx[t] = FALSE]
  PROVE  IsCreatedAs(r, s, t, p)
<1>1. Shape(s) /\ Typed(s)
  BY DEF Kernel
<1>3. r = [htp |-> s.htp, run |-> s.run, rtrq |-> s.rtrq, abort |-> s.abort,
            st |-> [s.st EXCEPT ![t] = "suspended"], pri |-> [s.pri EXCEPT ![t] = p],
            hp |-> [s.hp EXCEPT ![t] = AnyHost], tep |-> s.tep, rct |-> [s.rct EXCEPT ![t] = FALSE],
            rtoep |-> s.rtoep, qep |-> s.qep, quanta |-> s.quanta, qx |-> [s.qx EXCEPT ![t] = FALSE],
            nmess |-> s.nmess, inReceive |-> s.inReceive, owed |-> s.owed]
  BY <1>1 DEF Shape
<1>4. Shape(r)
  BY <1>3 DEF Shape
<1>5. Typed(r)
  BY <1>1, <1>3 DEF Typed, States
<1>6. \A u \in Tasks \ {t} : SameTask(r, s, u) /\ r.pri[u] = s.pri[u]
  BY <1>1, <1>3 DEF Typed, SameTask
<1>7. Edited(r, s, t)
  BY <1>3, <1>4, <1>5, <1>6 DEF Kernel, Edited
<1> QED BY <1>1, <1>3, <1>7 DEF Typed, IsCreatedAs

\* r is s after task t became hot.
IsHotAs(r, s, t) ==
  /\ Edited(r, s, t) /\ r.htp = t /\ r.st[t] = "hot" /\ r.pri[t] = s.pri[t] /\ r.hp[t] = s.hp[t] /\ r.tep[t] = None
  /\ r.rct[t] = s.rct[t] /\ r.rtoep[t] = s.rtoep[t] /\ r.qep[t] = s.qep[t] /\ r.quanta[t] = s.quanta[t]
  /\ r.qx[t] = s.qx[t] /\ r.nmess[t] = s.nmess[t] /\ r.owed[t] = s.owed[t]

LEMMA IsHot ==
  ASSUME NEW s, Kernel(s), NEW t \in Tasks, NEW r,
         r = MadeHot(s, t)
  PROVE  IsHotAs(r, s, t)
<1>1. Shape(s) /\ Typed(s)
  BY DEF Kernel
<1>3. r = [htp |-> t, run |-> s.run, rtrq |-> s.rtrq, abort |-> s.abort, st |-> [s.st EXCEPT ![t] = "hot"],
            pri |-> s.pri, hp |-> s.hp, tep |-> [s.tep EXCEPT ![t] = None], rct |-> s.rct, rtoep |-> s.rtoep,
            qep |-> s.qep, quanta |-> s.quanta, qx |-> s.qx, nmess |-> s.nmess, inReceive |-> s.inReceive,
            owed |-> s.owed]
  BY <1>1 DEF Shape, MadeHot
<1>4. Shape(r)
  BY <1>3 DEF Shape
<1>5. Typed(r)
  BY <1>1, <1>3 DEF Typed, States, Events
<1>6. \A u \in Tasks \ {t} : SameTask(r, s, u) /\ r.pri[u] = s.pri[u]
  BY <1>1, <1>3 DEF Typed, SameTask
<1>7. Edited(r, s, t)
  BY <1>3, <1>4, <1>5, <1>6 DEF Kernel, Edited
<1> QED BY <1>1, <1>3, <1>7 DEF Typed, IsHotAs

\* r is s after task t had the cpu time it asked for.
IsServedAs(r, s, t) ==
  /\ Edited(r, s, t) /\ r.htp = s.htp /\ r.st[t] = s.st[t] /\ r.pri[t] = s.pri[t] /\ r.hp[t] = s.hp[t]
  /\ r.tep[t] = s.tep[t] /\ r.rct[t] = s.rct[t] /\ r.rtoep[t] = s.rtoep[t] /\ r.qep[t] = s.qep[t]
  /\ r.quanta[t] = s.quanta[t] /\ r.qx[t] = s.qx[t] /\ r.nmess[t] = s.nmess[t] /\ r.owed[t] = FALSE

LEMMA IsServed ==
  ASSUME NEW s, Kernel(s), NEW t \in Tasks, NEW r,
         r = [s EXCEPT !.owed[t] = FALSE]
  PROVE  IsServedAs(r, s, t)
<1>1. Shape(s) /\ Typed(s)
  BY DEF Kernel
<1>3. r = [htp |-> s.htp, run |-> s.run, rtrq |-> s.rtrq, abort |-> s.abort, st |-> s.st, pri |-> s.pri,
            hp |-> s.hp, tep |-> s.tep, rct |-> s.rct, rtoep |-> s.rtoep, qep |-> s.qep, quanta |-> s.quanta,
            qx |-> s.qx, nmess |-> s.nmess, inReceive |-> s.inReceive, owed |-> [s.owed EXCEPT ![t] = FALSE]]
  BY <1>1 DEF Shape
<1>4. Shape(r)
  BY <1>3 DEF Shape
<1>5. Typed(r)
  BY <1>1, <1>3 DEF Typed
<1>6. \A u \in Tasks \ {t} : SameTask(r, s, u) /\ r.pri[u] = s.pri[u]
  BY <1>1, <1>3 DEF Typed, SameTask
<1>7. Edited(r, s, t)
  BY <1>3, <1>4, <1>5, <1>6 DEF Kernel, Edited
<1> QED BY <1>1, <1>3, <1>7 DEF Typed, IsServedAs

\* r is s after an END_QUANTUM event of task t.
IsQuantumOverAs(r, s, t) ==
  /\ Edited(r, s, t) /\ r.htp = s.htp /\ r.st[t] = s.st[t] /\ r.pri[t] = s.pri[t] /\ r.hp[t] = s.hp[t]
  /\ r.tep[t] = s.tep[t] /\ r.rct[t] = s.rct[t] /\ r.rtoep[t] = s.rtoep[t] /\ r.qep[t] = FALSE
  /\ r.quanta[t] = s.quanta[t] - 1 /\ r.qx[t] = s.qx[t] /\ r.nmess[t] = s.nmess[t] /\ r.owed[t] = s.owed[t]

LEMMA IsQuantumOver ==
  ASSUME NEW s, Kernel(s), NEW t \in Tasks, NEW r,
         r = [s EXCEPT !.qep[t] = FALSE, !.quanta[t] = @ - 1]
  PROVE  IsQuantumOverAs(r, s, t)
<1>1. Shape(s) /\ Typed(s)
  BY DEF Kernel
<1>3. r = [htp |-> s.htp, run |-> s.run, rtrq |-> s.rtrq, abort |-> s.abort, st |-> s.st, pri |-> s.pri,
            hp |-> s.hp, tep |-> s.tep, rct |-> s.rct, rtoep |-> s.rtoep, qep |-> [s.qep EXCEPT ![t] = FALSE],
            quanta |-> [s.quanta EXCEPT ![t] = @ - 1], qx |-> s.qx, nmess |-> s.nmess, inReceive |-> s.inReceive,
            owed |-> s.owed]
  BY <1>1 DEF Shape
<1>4. Shape(r)
  BY <1>3 DEF Shape
<1>5. Typed(r)
  BY <1>1, <1>3 DEF Typed
<1>6. \A u \in Tasks \ {t} : SameTask(r, s, u) /\ r.pri[u] = s.pri[u]
  BY <1>1, <1>3 DEF Typed, SameTask
<1>7. Edited(r, s, t)
  BY <1>3, <1>4, <1>5, <1>6 DEF Kernel, Edited
<1> QED BY <1>1, <1>3, <1>7 DEF Typed, IsQuantumOverAs

\* r is s with the flag of task t set or cleared.
IsMarkedAs(r, s, t, x) ==
  /\ Edited(r, s, t) /\ r.htp = s.htp /\ r.st[t] = s.st[t] /\ r.pri[t] = s.pri[t] /\ r.hp[t] = s.hp[t]
  /\ r.tep[t] = s.tep[t] /\ r.rct[t] = s.rct[t] /\ r.rtoep[t] = s.rtoep[t] /\ r.qep[t] = s.qep[t]
  /\ r.quanta[t] = s.quanta[t] /\ r.qx[t] = x /\ r.nmess[t] = s.nmess[t] /\ r.owed[t] = s.owed[t]

LEMMA IsMarked ==
  ASSUME NEW s, Kernel(s), NEW t \in Tasks, NEW x \in BOOLEAN, NEW r,
         r = [s EXCEPT !.qx[t] = x]
  PROVE  IsMarkedAs(r, s, t, x)
<1>1. Shape(s) /\ Typed(s)
  BY DEF Kernel
<1>3. r = [htp |-> s.htp, run |-> s.run, rtrq |-> s.rtrq, abort |-> s.abort, st |-> s.st, pri |-> s.pri,
            hp |-> s.hp, tep |-> s.tep, rct |-> s.rct, rtoep |-> s.rtoep, qep |-> s.qep, quanta |-> s.quanta,
            qx |-> [s.qx EXCEPT ![t] = x], nmess |-> s.nmess, inReceive |-> s.inReceive, owed |-> s.owed]
  BY <1>1 DEF Shape
<1>4. Shape(r)
  BY <1>3 DEF Shape
<1>5. Typed(r)
  BY <1>1, <1>3 DEF Typed
<1>6. \A u \in Tasks \ {t} : SameTask(r, s, u) /\ r.pri[u] = s.pri[u]
  BY <1>1, <1>3 DEF Typed, SameTask
<1>7. Edited(r, s, t)
  BY <1>3, <1>4, <1>5, <1>6 DEF Kernel, Edited
<1> QED BY <1>1, <1>3, <1>7 DEF Typed, IsMarkedAs

LEMMA EditedTwice ==
  ASSUME NEW s, NEW a, NEW r, NEW t \in Tasks, Edited(a, s, t), Edited(r, a, t)
  PROVE  Edited(r, s, t)
  BY DEF Edited, SameTask

-----------------------------------------------------------------------------
\* What the system calls keep.

\* A task keeps its cpu or its lack of one.
LEMMA InPlace ==
  ASSUME NEW s, FineFor(s, Tasks, Hosts), NEW t \in Tasks, NEW r, Edited(r, s, t), KeepsOrder(r, s, t, Hosts),
         r.htp = s.htp \/ \A u \in Tasks \ {t} : s.st[u] # "hot", WellOff(r, t, Hosts)
  PROVE  FineFor(r, Tasks, Hosts)
<1>1. \A u \in Tasks \ {t} : s.st[u] = "hot" => r.htp = u
  BY DEF FineFor, WellOff, Placed
<1>2. FineFor(r, Tasks \ {t}, Hosts)
  <2>1. \A g \in Hosts \ Hosts : s.run[g] = t
    OBVIOUS
  <2> QED BY <1>1, <2>1, OthersKeep
<1> QED BY <1>2, WholeAgain

\* A task has left its cpu, which goes to the next one.
LEMMA LeavingCpu ==
  ASSUME node \in Nodes, NEW s, FineFor(s, Tasks, Hosts), NEW t \in Tasks, NEW h, h = s.hp[t], s.st[t] \in OnCpu,
         NEW r, Edited(r, s, t), r.htp = s.htp, r.pri[t] = s.pri[t], WellOff(r, t, Hosts \ {h}),
         NEW q, q = FindReady(r, h)
  PROVE  Fine(q) /\ q.abort = s.abort
<1>1. h \in Hosts /\ s.run[h] = t /\ \A g \in Hosts \ {h} : s.run[g] # t
  BY OnOneCpu
<1>2. \A u \in Tasks \ {t} : s.st[u] = "hot" => r.htp = u
  BY DEF FineFor, WellOff, Placed
<1>3. FineFor(r, Tasks \ {t}, Hosts \ {h})
  <2>1. KeepsOrder(r, s, t, Hosts \ {h})
    BY <1>1 DEF KeepsOrder
  <2>2. \A g \in Hosts \ (Hosts \ {h}) : s.run[g] = t
    BY <1>1
  <2>3. Hosts \ {h} \subseteq Hosts
    OBVIOUS
  <2> QED BY <1>2, <2>1, <2>2, <2>3, OthersKeep
<1>4. FineFor(r, Tasks, Hosts \ {h})
  BY <1>3, WholeAgain
<1>5. Fine(q) /\ q.abort = r.abort
  BY <1>1, <1>4, FindReadyKeeps
<1> QED BY <1>5 DEF Edited

\* What makes all well with a task that has no cpu and is not ready.
LEMMA OffCpu ==
  ASSUME NEW s, NEW t \in Tasks, NEW H, t \notin Range(s.rtrq), \A g \in H : s.run[g] # t,
         NEW r, Edited(r, s, t), r.st[t] \in {"free", "suspended", "sleeping", "receiving"},
         r.tep[t] = IF r.st[t] = "sleeping" THEN "END_SLEEP" ELSE None,
         MessagesOf(r, t), Timely => TimeOf(r, t),
         QuantaEnd => r.quanta[t] = 0 /\ ~r.qep[t] /\ (r.qx[t] => Quantum /\ r.st[t] = "free")
  PROVE  WellOff(r, t, H)
<1>1. r.st[t] \notin OnCpu /\ r.st[t] \notin Uninterruptible
  BY StateNames
<1>2. CpuOf(r, t, H)
  BY <1>1 DEF CpuOf, Edited
<1>3. r.tep[t] \in EventsOf(r.st[t])
  BY <1>1 DEF EventsOf
<1>4. Legal(r.st[t], r.tep[t])
  BY <1>1 DEF Legal, None
<1>5. Placed(r, t, H)
  BY <1>1, <1>2, <1>3, <1>4 DEF Placed, Edited
<1>6. QuantaEnd => QuantaOf(r, t)
  BY <1>1 DEF QuantaOf
<1> QED BY <1>5, <1>6 DEF WellOff

\* The hot task is in the hot state, on a cpu, and has nothing to wait for.
LEMMA HotTask ==
  ASSUME NEW s, Fine(s), s.htp \in Tasks, NEW t, t = s.htp
  PROVE  /\ s.st[t] = "hot" /\ FineFor(s, Tasks, Hosts) /\ WellOff(s, t, Hosts) /\ s.tep[t] = None
         /\ s.hp[t] \in Hosts /\ s.run[s.hp[t]] = t /\ t \notin Range(s.rtrq)
         /\ \A g \in Hosts \ {s.hp[t]} : s.run[g] # t
         /\ QuantaEnd => s.quanta[t] = (IF s.qep[t] THEN 1 ELSE 0) /\ ~s.qx[t]
         /\ Timely => ~s.owed[t] /\ ~s.rct[t]
<1>1. s.st[t] = "hot" /\ FineFor(s, Tasks, Hosts) /\ WellOff(s, t, Hosts)
  BY DEF Fine, HotIs, FineFor
<1>2. /\ s.hp[t] \in Hosts /\ s.run[s.hp[t]] = t /\ t \notin Range(s.rtrq)
      /\ \A g \in Hosts \ {s.hp[t]} : s.run[g] # t
  BY <1>1, StateNames, OnOneCpu
<1>3. s.tep[t] = None
  BY <1>1 DEF WellOff, Placed, EventsOf, Uninterruptible
<1>4. QuantaEnd => s.quanta[t] = (IF s.qep[t] THEN 1 ELSE 0) /\ ~s.qx[t]
  BY <1>1, StateNames DEF WellOff, QuantaOf
<1>5. Timely => ~s.owed[t] /\ ~s.rct[t]
  BY <1>1 DEF WellOff, TimeOf
<1> QED BY <1>1, <1>2, <1>3, <1>4, <1>5

LEMMA CooledIsFine ==
  ASSUME NEW s, FineFor(s, Tasks, Hosts), NEW r, r = Cooled(s)
  PROVE  Fine(r) /\ r.abort = s.abort
<1>1. FineFor(r, Tasks, Hosts) /\ HotIs(r)
  BY CoolingKeeps
<1>2. Untouched(r, s)
  BY IsCooled DEF FineFor
<1> QED BY <1>1, <1>2 DEF Fine, Untouched

LEMMA ComputeKeeps ==
  ASSUME node \in Nodes, NEW s, Fine(s), NEW t \in Tasks, t = s.htp,
         NEW a, a = [s EXCEPT !.st[t] = "computing", !.tep[t] = "END_COMPUTE", !.owed[t] = TRUE],
         NEW r, r = Cooled(a)
  PROVE  Fine(r) /\ r.abort = s.abort
<1>1. /\ s.st[t] = "hot" /\ FineFor(s, Tasks, Hosts) /\ WellOff(s, t, Hosts) /\ t \notin Range(s.rtrq)
      /\ Timely => ~s.owed[t] /\ ~s.rct[t]
      /\ QuantaEnd => ~s.qx[t]
  BY HotTask
<1>2. IsComputingAs(a, s, t)
  BY <1>1, IsComputing DEF FineFor
<1> USE DEF IsComputingAs
<1>3. WellOff(a, t, Hosts)
  <2>1. CpuOf(a, t, Hosts)
    BY <1>1, <1>2, StateNames DEF WellOff, Placed, CpuOf, Edited
  <2>2. Placed(a, t, Hosts)
    BY <1>1, <1>2, <2>1, StateNames DEF Placed, EventsOf, Legal, Edited
  <2>3. MessagesOf(a, t)
    BY <1>1, <1>2 DEF WellOff, MessagesOf
  <2>4. QuantaEnd => QuantaOf(a, t)
    BY <1>1, <1>2, StateNames DEF WellOff, QuantaOf
  <2>5. Timely => TimeOf(a, t)
    BY <1>1, <1>2 DEF TimeOf
  <2> QED BY <2>2, <2>3, <2>4, <2>5 DEF WellOff
<1>4. KeepsOrder(a, s, t, Hosts)
  BY <1>1, <1>2, StateNames DEF KeepsOrder
<1>5. FineFor(a, Tasks, Hosts)
  BY <1>1, <1>2, <1>3, <1>4, InPlace
<1>6. Fine(r) /\ r.abort = a.abort
  BY <1>5, CooledIsFine
<1> QED BY <1>2, <1>6 DEF Edited

\* ps_hold and ps_sync.
LEMMA BusyKeeps ==
  ASSUME node \in Nodes, NEW s, Fine(s), NEW t \in Tasks, t = s.htp, NEW st \in {"blocked", "sync"}, NEW e,
         st = "blocked" => e = "END_HOLD" /\ "hold" \in Calls,
         st = "sync" => e = "END_SYNC" /\ "sync" \in Calls,
         NEW a, IsBusyAs(a, s, t, st, e), NEW r, r = Cooled(a)
  PROVE  Fine(r) /\ r.abort = s.abort
<1>1. /\ s.st[t] = "hot" /\ FineFor(s, Tasks, Hosts) /\ WellOff(s, t, Hosts) /\ t \notin Range(s.rtrq)
      /\ Timely => ~s.owed[t] /\ ~s.rct[t]
      /\ QuantaEnd => ~s.qx[t]
  BY HotTask
<1>2. IsBusyAs(a, s, t, st, e)
  OBVIOUS
<1> USE DEF IsBusyAs
<1>3. WellOff(a, t, Hosts)
  <2>0. st \in OnCpu
    BY DEF OnCpu
  <2>1. CpuOf(a, t, Hosts)
    BY <1>1, <1>2, <2>0, StateNames DEF WellOff, Placed, CpuOf, Edited
  <2>2. a.tep[t] \in EventsOf(a.st[t]) /\ Legal(a.st[t], a.tep[t])
    BY <1>2 DEF EventsOf, Legal, Uninterruptible
  <2>3. Placed(a, t, Hosts)
    BY <1>1, <1>2, <2>1, <2>2 DEF Placed, Edited
  <2>4. MessagesOf(a, t)
    BY <1>1, <1>2 DEF WellOff, MessagesOf
  <2>5. QuantaEnd => QuantaOf(a, t)
    BY <1>1, <1>2, <2>0 DEF WellOff, QuantaOf
  <2>6. Timely => TimeOf(a, t)
    BY <1>1, <1>2 DEF TimeOf
  <2> QED BY <2>3, <2>4, <2>5, <2>6 DEF WellOff
<1>4. KeepsOrder(a, s, t, Hosts)
  BY <1>1, <1>2, StateNames DEF KeepsOrder
<1>5. FineFor(a, Tasks, Hosts)
  BY <1>1, <1>2, <1>3, <1>4, InPlace
<1>6. Fine(r) /\ r.abort = a.abort
  BY <1>5, CooledIsFine
<1> QED BY <1>2, <1>6 DEF Edited

LEMMA SleepKeeps ==
  ASSUME node \in Nodes, NEW s, Fine(s), NEW t \in Tasks, t = s.htp,
         NEW r, r = FindReady(Asleep(s, t), s.hp[t])
  PROVE  Fine(r) /\ r.abort = s.abort
<1> DEFINE a == Asleep(s, t)
           h == s.hp[t]
<1>1. /\ s.st[t] = "hot" /\ FineFor(s, Tasks, Hosts) /\ WellOff(s, t, Hosts) /\ t \notin Range(s.rtrq)
      /\ Timely => ~s.owed[t] /\ ~s.rct[t]
      /\ QuantaEnd => s.quanta[t] = (IF s.qep[t] THEN 1 ELSE 0) /\ ~s.qx[t]
      /\ \A g \in Hosts \ {h} : s.run[g] # t
  BY HotTask
<1>2. IsAsleepAs(a, s, t)
  <2> HIDE DEF a
  <2> QED BY <1>1, IsAsleep DEF FineFor, a
<1>3. s.st[t] \in OnCpu /\ r = FindReady(a, h)
  BY <1>1, StateNames
<1> HIDE DEF a
<1> USE DEF IsAsleepAs
<1>4. WellOff(a, t, Hosts \ {h})
  <2>1. MessagesOf(a, t)
    BY <1>1, <1>2 DEF WellOff, MessagesOf
  <2>2. Timely => TimeOf(a, t)
    BY <1>1, <1>2 DEF TimeOf
  <2>3. QuantaEnd => a.quanta[t] = 0 /\ ~a.qep[t] /\ ~a.qx[t]
    BY <1>1, <1>2
  <2> HIDE DEF h
  <2> QED BY <1>1, <1>2, <2>1, <2>2, <2>3, OffCpu
<1> QED BY <1>1, <1>2, <1>3, <1>4, LeavingCpu

LEMMA HotStays ==
  ASSUME NEW s, HotIs(s), NEW t \in Tasks, NEW r, Edited(r, s, t), r.htp = s.htp, s.htp # t \/ r.st[t] = "hot"
  PROVE  HotIs(r)
  BY DEF HotIs, Edited, SameTask

\* A task without a cpu is given to find_host.
LEMMA MovingOn ==
  ASSUME node \in Nodes, SyncsKeepCpus, NEW s, Fine(s), NEW t \in Tasks,
         s.st[t] \in {"suspended", "sleeping", "receiving"},
         NEW r, Edited(r, s, t), r.htp = s.htp, r.st[t] = s.st[t], r.pri[t] = s.pri[t], r.tep[t] = None,
         r.rct[t] = s.rct[t], r.owed[t] = s.owed[t], r.qep[t] = s.qep[t], r.quanta[t] = s.quanta[t], r.qx[t] = s.qx[t],
         r.nmess[t] \in 0..MaxMessages+1, r.rtoep[t] => s.rtoep[t] /\ s.st[t] # "receiving",
         NEW q, q = FindHost(r, t)
  PROVE  Fine(q) /\ q.abort = s.abort
<1>1. /\ FineFor(s, Tasks, Hosts) /\ HotIs(s) /\ WellOff(s, t, Hosts)
      /\ s.st[t] \notin OnCpu /\ s.st[t] \notin Uninterruptible
  BY StateNames DEF Fine, FineFor
<1>2. \A g \in Hosts : s.run[g] # t
  BY <1>1, OnNoCpu
<1>3. FineFor(r, Tasks \ {t}, Hosts)
  <2>1. \A u \in Tasks \ {t} : s.st[u] = "hot" => r.htp = u
    BY <1>1 DEF FineFor, WellOff, Placed
  <2>2. KeepsOrder(r, s, t, Hosts)
    BY <1>2 DEF KeepsOrder
  <2>3. \A g \in Hosts \ Hosts : s.run[g] = t
    OBVIOUS
  <2> QED BY <1>1, <2>1, <2>2, <2>3, OthersKeep
<1>4. s.htp # t /\ HotIs(r)
  <2>1. s.htp # t
    BY <1>1 DEF HotIs
  <2> QED BY <1>1, <2>1, HotStays
<1>5. Moving(r, t, Hosts)
  <2>1. t \notin Range(r.rtrq) /\ \A g \in Hosts : r.run[g] # t
    BY <1>1, <1>2 DEF Edited, WellOff, Placed
  <2>2. r.rtoep[t] => "timed" \in Calls /\ "suspend" \in Calls
    BY <1>1 DEF WellOff, MessagesOf
  <2>3. QuantaEnd => r.quanta[t] = 0 /\ ~r.qep[t] /\ ~r.qx[t]
    BY <1>1 DEF WellOff, QuantaOf
  <2>4. Timely => (r.owed[t] => r.rct[t])
    BY <1>1 DEF WellOff, TimeOf
  <2> QED BY <2>1, <2>2, <2>3, <2>4 DEF Moving
<1>6. Timely => ~r.rct[t]
  BY <1>1 DEF WellOff, TimeOf
<1>7. MayMove(r, t)
  BY <1>3, <1>4, <1>5, <1>6 DEF MayMove
<1>8. Fine(q) /\ q.abort = r.abort
  BY <1>7, FindHostKeeps
<1> QED BY <1>8 DEF Edited

\* b is s but for the time-out of task t.
Timing(b, s, t) ==
  /\ Edited(b, s, t) /\ b.htp = s.htp /\ b.st[t] = s.st[t] /\ b.pri[t] = s.pri[t] /\ b.hp[t] = s.hp[t]
  /\ b.tep[t] = s.tep[t] /\ b.rct[t] = s.rct[t] /\ b.qep[t] = s.qep[t] /\ b.quanta[t] = s.quanta[t]
  /\ b.qx[t] = s.qx[t] /\ b.nmess[t] = s.nmess[t] /\ b.owed[t] = s.owed[t]

LEMMA WaitKeeps ==
  ASSUME node \in Nodes, NEW s, Fine(s), NEW t \in Tasks, t = s.htp, ~(s.nmess[t] > 0),
         NEW b, Timing(b, s, t), b.rtoep[t] => "timed" \in Calls,
         NEW r, r = WaitForMessage(b, t)
  PROVE  Fine(r) /\ r.abort = s.abort
<1> DEFINE a == Waiting(b, t)
           h == s.hp[t]
<1>1. /\ s.st[t] = "hot" /\ FineFor(s, Tasks, Hosts) /\ WellOff(s, t, Hosts) /\ t \notin Range(s.rtrq) /\ s.tep[t] = None
      /\ Timely => ~s.owed[t] /\ ~s.rct[t]
      /\ QuantaEnd => s.quanta[t] = (IF s.qep[t] THEN 1 ELSE 0) /\ ~s.qx[t]
      /\ \A g \in Hosts \ {h} : s.run[g] # t
  BY HotTask
<1>2. s.nmess[t] = 0
  BY <1>1, NodesAssumption DEF WellOff, MessagesOf
<1>3. IsWaitingAs(a, b, t)
  <2> HIDE DEF a
  <2> QED BY IsWaiting DEF Timing, Edited, a
<1>4. s.st[t] \in OnCpu /\ r = FindReady(a, h)
  <2>1. r = FindReady([RemoveQuantum(b, t) EXCEPT !.st[t] = "receiving", !.inReceive[t] = TRUE], b.hp[t])
    BY DEF WaitForMessage, QuantumStops
  <2> QED BY <1>1, <2>1, StateNames DEF Timing, Waiting
<1> HIDE DEF a
<1>5. /\ Edited(a, s, t) /\ a.htp = s.htp /\ a.st[t] = "receiving" /\ a.pri[t] = s.pri[t] /\ a.tep[t] = None
      /\ a.rct[t] = s.rct[t] /\ a.rtoep[t] = b.rtoep[t] /\ ~a.qep[t] /\ a.qx[t] = s.qx[t] /\ a.nmess[t] = 0
      /\ a.quanta[t] = (IF s.qep[t] THEN s.quanta[t] - 1 ELSE s.quanta[t]) /\ a.owed[t] = s.owed[t]
  BY <1>1, <1>2, <1>3, EditedTwice DEF IsWaitingAs, Timing
<1>6. WellOff(a, t, Hosts \ {h})
  <2>1. MessagesOf(a, t)
    BY <1>1, <1>2, <1>5 DEF WellOff, MessagesOf
  <2>2. Timely => TimeOf(a, t)
    BY <1>1, <1>5 DEF TimeOf
  <2>3. QuantaEnd => a.quanta[t] = 0 /\ ~a.qep[t] /\ ~a.qx[t]
    BY <1>1, <1>5
  <2> HIDE DEF h
  <2> QED BY <1>1, <1>5, <2>1, <2>2, <2>3, OffCpu
<1> QED BY <1>1, <1>4, <1>5, <1>6, LeavingCpu

LEMMA TakingKeeps ==
  ASSUME node \in Nodes, NEW s, Fine(s), NEW t \in Tasks, t = s.htp, s.nmess[t] > 0, NEW r, r = TakeMessage(s, t)
  PROVE  Fine(r) /\ r.abort = s.abort
<1>1. s.st[t] = "hot" /\ FineFor(s, Tasks, Hosts) /\ WellOff(s, t, Hosts) /\ HotIs(s)
  BY HotTask DEF Fine
<1>2. IsReceivedAs(r, s, t)
  BY <1>1, IsReceived DEF FineFor, TakeMessage
<1> USE DEF IsReceivedAs
<1>3. WellOff(r, t, Hosts)
  <2>1. Placed(r, t, Hosts)
    BY <1>1, <1>2 DEF WellOff, Placed, CpuOf, Edited
  <2>2. MessagesOf(r, t)
    <3>1. s.nmess[t] - 1 \in 0..MaxMessages+1
      BY <1>1, NodesAssumption DEF WellOff, MessagesOf
    <3> QED BY <1>1, <1>2, <3>1 DEF MessagesOf
  <2>3. QuantaEnd => QuantaOf(r, t)
    BY <1>1, <1>2 DEF WellOff, QuantaOf
  <2>4. Timely => TimeOf(r, t)
    BY <1>1, <1>2 DEF WellOff, TimeOf
  <2> QED BY <2>1, <2>2, <2>3, <2>4 DEF WellOff
<1>4. KeepsOrder(r, s, t, Hosts)
  BY <1>1, <1>2, StateNames DEF KeepsOrder
<1>5. FineFor(r, Tasks, Hosts)
  BY <1>1, <1>2, <1>3, <1>4, InPlace
<1>6. HotIs(r)
  BY <1>1, <1>2, HotStays
<1> QED BY <1>2, <1>5, <1>6 DEF Fine, Edited

LEMMA PortSendKeeps ==
  ASSUME node \in Nodes, SyncsKeepCpus, NEW s, Fine(s), NEW u \in Tasks, s.nmess[u] <= MaxMessages,
         NEW r, r = PortSend(s, u)
  PROVE  Fine(r) /\ r.abort = s.abort
<1>1. FineFor(s, Tasks, Hosts) /\ HotIs(s) /\ WellOff(s, u, Hosts) /\ Kernel(s)
  BY DEF Fine, FineFor
<1>2. PICK a : a = [s EXCEPT !.nmess[u] = @ + 1]
  OBVIOUS
<1>3. IsSentAs(a, s, u)
  BY <1>1, <1>2, IsSent
<1> USE DEF IsSentAs
<1>4. s.nmess[u] + 1 \in 0..MaxMessages+1
  BY <1>1, NodesAssumption DEF WellOff, MessagesOf
<1>5. CASE s.st[u] = "receiving"
  <2>1. PICK c : c = [a EXCEPT !.rtoep[u] = FALSE]
    OBVIOUS
  <2>2. r = FindHost(c, u)
    BY <1>2, <1>5, <2>1 DEF PortSend
  <2>3. IsTimedAs(c, a, u, FALSE)
    BY <1>3, <2>1, IsTimed DEF Edited
  <2>4. /\ Edited(c, s, u) /\ c.htp = s.htp /\ c.st[u] = s.st[u] /\ c.pri[u] = s.pri[u] /\ c.tep[u] = s.tep[u]
        /\ c.rct[u] = s.rct[u] /\ c.owed[u] = s.owed[u] /\ c.qep[u] = s.qep[u] /\ c.quanta[u] = s.quanta[u]
        /\ c.qx[u] = s.qx[u] /\ c.nmess[u] = s.nmess[u] + 1 /\ c.rtoep[u] = FALSE
    BY <1>3, <2>3, EditedTwice DEF IsTimedAs
  <2>5. s.tep[u] = None
    BY <1>1, <1>5, StateNames DEF WellOff, Placed, EventsOf
  <2> QED BY <1>4, <1>5, <2>2, <2>4, <2>5, MovingOn
<1>6. CASE s.st[u] # "receiving"
  <2>1. r = a
    BY <1>2, <1>6 DEF PortSend
  <2>2. WellOff(a, u, Hosts)
    <3>1. Placed(a, u, Hosts)
      BY <1>1, <1>3 DEF WellOff, Placed, CpuOf, Edited
    <3>2. MessagesOf(a, u)
      BY <1>1, <1>3, <1>4, <1>6 DEF WellOff, MessagesOf
    <3>3. QuantaEnd => QuantaOf(a, u)
      BY <1>1, <1>3 DEF WellOff, QuantaOf
    <3>4. Timely => TimeOf(a, u)
      BY <1>1, <1>3 DEF WellOff, TimeOf
    <3> QED BY <3>1, <3>2, <3>3, <3>4 DEF WellOff
  <2>3. KeepsOrder(a, s, u, Hosts)
    BY <1>3 DEF KeepsOrder
  <2>4. FineFor(a, Tasks, Hosts)
    BY <1>1, <1>3, <2>2, <2>3, InPlace
  <2>5. HotIs(a)
    BY <1>1, <1>3, HotStays DEF HotIs
  <2> QED BY <1>3, <2>1, <2>4, <2>5 DEF Fine, Edited
<1> QED BY <1>5, <1>6

\* A task that a call of another task takes out of the ready queue.
LEMMA IsDequeued ==
  ASSUME NEW s, NEW t \in Range(s.rtrq), NEW r, r = Dequeue(s, t)
  PROVE  \E i \in DOMAIN s.rtrq : s.rtrq[i] = t /\ r = Without(s, i)
<1> DEFINE i == CHOOSE i \in DOMAIN s.rtrq : s.rtrq[i] = t
<1>1. i \in DOMAIN s.rtrq /\ s.rtrq[i] = t
  BY DEF Range
<1>2. r = Without(s, i)
  BY DEF Dequeue, Without
<1> QED BY <1>1, <1>2

LeftQueue(r, s, t) ==
  /\ FineFor(r, Tasks \ {t}, Hosts) /\ Untouched(r, s) /\ t \notin Range(r.rtrq)
  /\ r.htp = s.htp /\ r.run = s.run /\ r.st = s.st
  /\ \A u \in Tasks : SameTask(r, s, u)

LEMMA LeavingQueue ==
  ASSUME NEW s, NEW t \in Tasks, FineFor(s, Tasks \ {t}, Hosts), NEW i \in DOMAIN s.rtrq, s.rtrq[i] = t,
         NEW r, r = Without(s, i)
  PROVE  LeftQueue(r, s, t)
<1>1. /\ Kernel(r) /\ Untouched(r, s)
      /\ r.htp = s.htp /\ r.run = s.run /\ r.tep = s.tep /\ r.rct = s.rct /\ r.qep = s.qep /\ r.quanta = s.quanta
      /\ r.st = s.st /\ r.hp = s.hp
      /\ Range(r.rtrq) = Range(s.rtrq) \ {t} /\ QueueOK(r)
  BY IsRemoved DEF FineFor
<1>2. \A u \in Tasks : SameTask(r, s, u)
  BY <1>1 DEF SameTask, Untouched
<1>3. ASSUME NEW u \in Tasks \ {t}
      PROVE  WellOff(r, u, Hosts)
  <2>1. WellOff(s, u, Hosts) /\ CpuOf(s, u, Hosts) /\ (s.st[u] = "hot" => s.htp = u) /\ SameTask(r, s, u)
    BY <1>2 DEF FineFor, WellOff, Placed
  <2>2. CpuOf(r, u, Hosts)
    BY <1>1, <2>1 DEF CpuOf
  <2> QED BY <1>1, <2>1, <2>2, StaysWellOff
<1>4. Exchangeable => \A h \in Hosts : UsedWell(r, h)
  BY <1>1 DEF FineFor, UsedWell, Serves, Untouched
<1> QED BY <1>1, <1>2, <1>3, <1>4 DEF FineFor, LeftQueue

\* c is s after task t was suspended: it waits for nothing.
Parked(c, s, t) ==
  /\ Edited(c, s, t) /\ c.htp = s.htp /\ c.st[t] = "suspended" /\ c.pri[t] = s.pri[t] /\ c.tep[t] = None
  /\ c.rct[t] = s.rct[t] /\ c.rtoep[t] = s.rtoep[t] /\ ~c.qep[t]
  /\ c.quanta[t] = (IF s.qep[t] THEN s.quanta[t] - 1 ELSE s.quanta[t])
  /\ c.qx[t] = s.qx[t] /\ c.nmess[t] = s.nmess[t] /\ c.owed[t] = s.owed[t]

LEMMA ParkedWell ==
  ASSUME NEW s, NEW t \in Tasks, NEW H, WellOff(s, t, Hosts), t \notin Range(s.rtrq), \A g \in H : s.run[g] # t,
         "suspend" \in Calls, QuantaEnd => ~s.qx[t], NEW c, Parked(c, s, t)
  PROVE  WellOff(c, t, H)
<1>1. MessagesOf(c, t)
  BY DEF WellOff, MessagesOf, Parked
<1>2. QuantaEnd => c.quanta[t] = 0 /\ ~c.qep[t] /\ ~c.qx[t]
  BY DEF WellOff, QuantaOf, Parked
<1>3. Timely => TimeOf(c, t)
  BY DEF Timely
<1> QED BY <1>1, <1>2, <1>3, OffCpu DEF Parked

\* Task t has left the queue for a state in which all is well with it.
LEMMA OutOfQueue ==
  ASSUME NEW s, Fine(s), NEW t \in Tasks, s.st[t] = "ready", NEW a, Edited(a, s, t), a.htp = s.htp, a.pri[t] = s.pri[t],
         \A b : Kernel(b) /\ SameTask(b, a, t) /\ b.pri = a.pri /\ t \notin Range(b.rtrq) /\ (\A g \in Hosts : b.run[g] # t)
                  => WellOff(b, t, Hosts),
         NEW r, r = Dequeue(a, t)
  PROVE  Fine(r) /\ r.abort = s.abort
<1>1. FineFor(s, Tasks, Hosts) /\ HotIs(s) /\ WellOff(s, t, Hosts) /\ s.st[t] \notin OnCpu /\ s.htp # t
  BY StateNames DEF Fine, FineFor, HotIs
<1>2. \A g \in Hosts : s.run[g] # t
  BY <1>1, OnNoCpu
<1>3. FineFor(a, Tasks \ {t}, Hosts)
  <2>1. \A u \in Tasks \ {t} : s.st[u] = "hot" => a.htp = u
    BY <1>1 DEF FineFor, WellOff, Placed
  <2>2. KeepsOrder(a, s, t, Hosts)
    BY <1>2 DEF KeepsOrder
  <2>3. \A g \in Hosts \ Hosts : s.run[g] = t
    OBVIOUS
  <2> QED BY <1>1, <2>1, <2>2, <2>3, OthersKeep
<1>4. t \in Range(a.rtrq)
  BY <1>1 DEF WellOff, Placed, Edited
<1>5. PICK i \in DOMAIN a.rtrq : a.rtrq[i] = t /\ r = Without(a, i)
  BY <1>4, IsDequeued
<1>6. /\ FineFor(r, Tasks \ {t}, Hosts) /\ Untouched(r, a) /\ t \notin Range(r.rtrq)
      /\ r.htp = a.htp /\ r.run = a.run /\ r.st = a.st
      /\ \A u \in Tasks : SameTask(r, a, u)
  <2>1. LeftQueue(r, a, t)
    BY <1>3, <1>5, LeavingQueue
  <2> QED BY <2>1 DEF LeftQueue
<1>7. WellOff(r, t, Hosts)
  BY <1>2, <1>6 DEF Edited, FineFor, Untouched
<1>8. FineFor(r, Tasks, Hosts)
  BY <1>6, <1>7, WholeAgain
<1>9. HotIs(r)
  <2>1. HotIs(a)
    BY <1>1, HotStays
  <2> QED BY <1>6, <2>1 DEF HotIs
<1> QED BY <1>6, <1>8, <1>9 DEF Fine, Untouched, Edited

\* A task on a cpu changes nothing but its state.
LEMMA SyncStays ==
  ASSUME node \in Nodes, NEW s, Fine(s), NEW t \in Tasks, s.st[t] \in Uninterruptible,
         NEW st \in Uninterruptible, st = "syncFree" => "kill" \in Calls, st = "syncSuspend" => "suspend" \in Calls,
         NEW r, r = [s EXCEPT !.st[t] = st]
  PROVE  Fine(r) /\ r.abort = s.abort
<1>1. FineFor(s, Tasks, Hosts) /\ HotIs(s) /\ WellOff(s, t, Hosts) /\ Kernel(s)
  BY DEF Fine, FineFor
<1>2. st \in States /\ st \in OnCpu /\ s.st[t] \in OnCpu /\ st # "hot" /\ s.st[t] # "hot" /\ st # "ready" /\ s.st[t] # "ready"
  BY DEF States, Uninterruptible, OnCpu
<1>3. IsInStateAs(r, s, t, st)
  BY <1>1, <1>2, IsInState
<1> USE DEF IsInStateAs
<1>4. WellOff(r, t, Hosts)
  <2>1. Placed(r, t, Hosts)
    <3>1. CpuOf(r, t, Hosts)
      BY <1>1, <1>2, <1>3 DEF WellOff, Placed, CpuOf, Edited
    <3>2. s.tep[t] \in EventsOf(st)
      BY <1>1 DEF WellOff, Placed, EventsOf, Uninterruptible
    <3>3. Legal(st, s.tep[t])
      BY <1>1 DEF WellOff, Placed, Legal
    <3>4. t \in Range(r.rtrq) <=> r.st[t] = "ready"
      BY <1>1, <1>2, <1>3 DEF WellOff, Placed, Edited
    <3> QED BY <1>2, <1>3, <3>1, <3>2, <3>3, <3>4 DEF Placed
  <2>2. MessagesOf(r, t)
    BY <1>1, <1>2, <1>3 DEF WellOff, MessagesOf, Uninterruptible
  <2>3. QuantaEnd => QuantaOf(r, t)
    BY <1>1, <1>2, <1>3 DEF WellOff, QuantaOf, Uninterruptible
  <2>4. Timely => TimeOf(r, t)
    BY <1>1, <1>2, <1>3 DEF WellOff, TimeOf, Uninterruptible
  <2> QED BY <2>1, <2>2, <2>3, <2>4 DEF WellOff
<1>5. KeepsOrder(r, s, t, Hosts)
  BY <1>3 DEF KeepsOrder
<1>6. FineFor(r, Tasks, Hosts)
  BY <1>1, <1>3, <1>4, <1>5, InPlace
<1>7. HotIs(r)
  BY <1>1, <1>2, <1>3, HotStays DEF HotIs
<1> QED BY <1>3, <1>6, <1>7 DEF Fine, Edited

LEMMA SuspendKeeps ==
  ASSUME node \in Nodes, "suspend" \in Calls, NEW s, Fine(s), NEW u \in Tasks, NEW r, r = SuspendTask(s, u)
  PROVE  Fine(r) /\ r.abort = s.abort
<1> DEFINE h == s.hp[u]
<1>1. FineFor(s, Tasks, Hosts) /\ HotIs(s) /\ WellOff(s, u, Hosts) /\ Kernel(s) /\ Placed(s, u, Hosts)
  BY DEF Fine, FineFor, WellOff
<1>2. PICK a : a = Suspended(s, u)
  OBVIOUS
<1>3. PICK c : c = [a EXCEPT !.tep[u] = None]
  OBVIOUS
<1>4. r = CASE s.st[u] = "sync" -> [s EXCEPT !.st[u] = "syncSuspend"]
            [] s.st[u] = "ready" -> Dequeue(a, u)
            [] s.st[u] \in {"blocked", "computing"} -> FindReady(c, h)
            [] s.st[u] = "hot" -> FindReady(a, h)
            [] s.st[u] \in {"receiving", "sleeping"} -> c
            [] s.st[u] = "suspended" -> a
            [] OTHER -> s
  BY <1>2, <1>3 DEF SuspendTask, Suspended
<1>5. IsSuspendedAs(a, s, u)
  BY <1>1, <1>2, IsSuspended
<1>6. IsCancelledAs(c, a, u)
  BY <1>3, <1>5, IsCancelled DEF IsSuspendedAs, Edited
<1>7. Parked(c, s, u)
  BY <1>5, <1>6, EditedTwice DEF IsSuspendedAs, IsCancelledAs, Parked
<1>8. s.tep[u] = None => Parked(a, s, u)
  BY <1>5 DEF IsSuspendedAs, Parked
<1>9. s.st[u] \in {"hot", "ready", "suspended", "receiving"} => s.tep[u] = None
  BY <1>1, StateNames DEF Placed, EventsOf
<1>10. QuantaEnd /\ s.st[u] \in {"hot", "ready", "suspended", "receiving", "sleeping", "blocked", "computing"} => ~s.qx[u]
  BY <1>1, StateNames DEF WellOff, QuantaOf
<1>11. CASE s.st[u] = "sync"
  <2>1. r = [s EXCEPT !.st[u] = "syncSuspend"]
    BY <1>4, <1>11
  <2>2. "syncSuspend" \in Uninterruptible /\ s.st[u] \in Uninterruptible
    BY <1>11 DEF Uninterruptible
  <2> QED BY <2>1, <2>2, SyncStays
<1>12. CASE s.st[u] = "ready"
  <2>1. r = Dequeue(a, u)
    BY <1>4, <1>12
  <2>2. ASSUME NEW b, Kernel(b), SameTask(b, a, u), b.pri = a.pri, u \notin Range(b.rtrq), \A g \in Hosts : b.run[g] # u
        PROVE  WellOff(b, u, Hosts)
    <3>1. Parked(a, s, u)
      BY <1>8, <1>9, <1>12
    <3>2. b.tep[u] = None /\ b.st[u] = "suspended"
      BY <2>2, <3>1 DEF Parked, SameTask
    <3>3. MessagesOf(b, u)
      BY <1>1, <2>2, <3>1 DEF WellOff, MessagesOf, Parked, SameTask
    <3>4. QuantaEnd => b.quanta[u] = 0 /\ ~b.qep[u] /\ ~b.qx[u]
      BY <1>1, <1>10, <1>12, <2>2, <3>1 DEF WellOff, QuantaOf, Parked, SameTask
    <3>5. Timely => TimeOf(b, u)
      BY DEF Timely
    <3>6. Edited(b, b, u)
      BY <2>2 DEF Edited, SameTask
    <3> QED BY <2>2, <3>2, <3>3, <3>4, <3>5, <3>6, OffCpu
  <2>3. Edited(a, s, u) /\ a.htp = s.htp /\ a.pri[u] = s.pri[u]
    BY <1>5 DEF IsSuspendedAs
  <2> QED BY <1>12, <2>1, <2>2, <2>3, OutOfQueue
<1>13. ASSUME s.st[u] \in {"blocked", "computing", "hot"}, NEW x, Parked(x, s, u), r = FindReady(x, h)
       PROVE  Fine(r) /\ r.abort = s.abort
  <2>1. s.st[u] \in OnCpu
    BY <1>13, StateNames
  <2>2. u \notin Range(s.rtrq) /\ \A g \in Hosts \ {h} : s.run[g] # u
    BY <1>1, <2>1, OnOneCpu
  <2>3. h = s.hp[u]
    OBVIOUS
  <2> HIDE DEF h
  <2>4. WellOff(x, u, Hosts \ {h})
    BY <1>1, <1>10, <1>13, <2>2, ParkedWell
  <2>5. Edited(x, s, u) /\ x.htp = s.htp /\ x.pri[u] = s.pri[u]
    BY <1>13 DEF Parked
  <2> QED BY <1>1, <1>13, <2>1, <2>3, <2>4, <2>5, LeavingCpu
<1>14. CASE s.st[u] \in {"blocked", "computing"}
  <2>1. r = FindReady(c, h)
    BY <1>4, <1>14
  <2> QED BY <1>7, <1>13, <1>14, <2>1
<1>15. CASE s.st[u] = "hot"
  <2>1. r = FindReady(a, h)
    BY <1>4, <1>15
  <2> QED BY <1>8, <1>9, <1>13, <1>15, <2>1
<1>16. ASSUME s.st[u] \in {"receiving", "sleeping", "suspended"}, Parked(r, s, u)
       PROVE  Fine(r) /\ r.abort = s.abort
  <2>1. s.st[u] \notin OnCpu /\ u \notin Range(s.rtrq) /\ s.st[u] # "hot"
    BY <1>1, <1>16, StateNames DEF Placed
  <2>2. \A g \in Hosts : s.run[g] # u
    BY <1>1, <2>1, OnNoCpu
  <2>3. WellOff(r, u, Hosts)
    BY <1>1, <1>10, <1>16, <2>1, <2>2, ParkedWell
  <2>4. Edited(r, s, u) /\ r.htp = s.htp /\ KeepsOrder(r, s, u, Hosts)
    BY <1>16, <2>2 DEF Parked, KeepsOrder
  <2>5. FineFor(r, Tasks, Hosts)
    BY <1>1, <2>3, <2>4, InPlace
  <2>6. HotIs(r)
    BY <1>1, <2>1, <2>4, HotStays DEF HotIs
  <2> QED BY <2>4, <2>5, <2>6 DEF Fine, Edited
<1>17. CASE s.st[u] \in {"receiving", "sleeping"}
  <2>1. r = c
    BY <1>4, <1>17
  <2> QED BY <1>7, <1>16, <1>17, <2>1
<1>18. CASE s.st[u] = "suspended"
  <2>1. r = a
    BY <1>4, <1>18
  <2> QED BY <1>8, <1>9, <1>16, <1>18, <2>1
<1>19. CASE s.st[u] \notin {"sync", "ready", "blocked", "computing", "hot", "receiving", "sleeping", "suspended"}
  <2>1. r = s
    BY <1>4, <1>19
  <2> QED BY <2>1
<1> QED BY <1>11, <1>12, <1>14, <1>15, <1>17, <1>18, <1>19

\* c is s after task t was killed.
Buried(c, s, t) ==
  /\ Edited(c, s, t) /\ c.htp = s.htp /\ c.st[t] = "free" /\ c.pri[t] = s.pri[t] /\ c.tep[t] = None
  /\ c.rct[t] = s.rct[t] /\ c.rtoep[t] = FALSE /\ ~c.qep[t]
  /\ c.quanta[t] = (IF s.qep[t] THEN s.quanta[t] - 1 ELSE s.quanta[t])
  /\ c.qx[t] = s.qx[t] /\ c.nmess[t] = 0 /\ c.owed[t] = FALSE

LEMMA BuriedWell ==
  ASSUME NEW s, NEW t \in Tasks, NEW H, WellOff(s, t, Hosts), t \notin Range(s.rtrq), \A g \in H : s.run[g] # t,
         NEW c, Buried(c, s, t)
  PROVE  WellOff(c, t, H)
<1>1. MessagesOf(c, t)
  BY NodesAssumption DEF MessagesOf, Buried
<1>2. QuantaEnd => c.quanta[t] = 0 /\ ~c.qep[t] /\ (c.qx[t] => Quantum /\ c.st[t] = "free")
  BY DEF WellOff, QuantaOf, Buried
<1>3. Timely => TimeOf(c, t)
  BY DEF TimeOf, Buried
<1> QED BY <1>1, <1>2, <1>3, OffCpu DEF Buried

LEMMA KillKeeps ==
  ASSUME node \in Nodes, "kill" \in Calls, NEW s, Fine(s), NEW u \in Tasks, NEW r, r = KillTask(s, u)
  PROVE  Fine(r) /\ r.abort = s.abort
<1> DEFINE h == s.hp[u]
<1>1. FineFor(s, Tasks, Hosts) /\ HotIs(s) /\ WellOff(s, u, Hosts) /\ Kernel(s) /\ Placed(s, u, Hosts)
  BY DEF Fine, FineFor, WellOff
<1>2. PICK a : a = Dead(s, u)
  OBVIOUS
<1>3. r = CASE s.st[u] \in {"sync", "syncSuspend"} -> [s EXCEPT !.st[u] = "syncFree"]
            [] s.st[u] = "ready" -> Dequeue(a, u)
            [] s.st[u] \in {"blocked", "computing"} -> FindReady(a, h)
            [] s.st[u] \in {"sleeping", "receiving", "suspended"} -> a
            [] OTHER -> s
  BY <1>2 DEF KillTask, LeavesQueue, Dead
<1>4. IsDeadAs(a, s, u)
  BY <1>1, <1>2, IsDead
<1>5. Buried(a, s, u)
  BY <1>4 DEF IsDeadAs, Buried
<1>6. CASE s.st[u] \in {"sync", "syncSuspend"}
  <2>1. r = [s EXCEPT !.st[u] = "syncFree"]
    BY <1>3, <1>6
  <2>2. "syncFree" \in Uninterruptible /\ s.st[u] \in Uninterruptible
    BY <1>6 DEF Uninterruptible
  <2> QED BY <2>1, <2>2, SyncStays
<1>7. CASE s.st[u] = "ready"
  <2>1. r = Dequeue(a, u)
    BY <1>3, <1>7
  <2>2. ASSUME NEW b, Kernel(b), SameTask(b, a, u), b.pri = a.pri, u \notin Range(b.rtrq), \A g \in Hosts : b.run[g] # u
        PROVE  WellOff(b, u, Hosts)
    <3>1. b.tep[u] = None /\ b.st[u] = "free"
      BY <1>5, <2>2 DEF Buried, SameTask
    <3>2. MessagesOf(b, u)
      BY <1>5, <2>2, NodesAssumption DEF MessagesOf, Buried, SameTask
    <3>3. QuantaEnd => b.quanta[u] = 0 /\ ~b.qep[u] /\ (b.qx[u] => Quantum /\ b.st[u] = "free")
      BY <1>1, <1>5, <2>2 DEF WellOff, QuantaOf, Buried, SameTask
    <3>4. Timely => TimeOf(b, u)
      BY <1>5, <2>2 DEF TimeOf, Buried, SameTask
    <3>5. Edited(b, b, u)
      BY <2>2 DEF Edited, SameTask
    <3> QED BY <2>2, <3>1, <3>2, <3>3, <3>4, <3>5, OffCpu
  <2>3. Edited(a, s, u) /\ a.htp = s.htp /\ a.pri[u] = s.pri[u]
    BY <1>5 DEF Buried
  <2> QED BY <1>7, <2>1, <2>2, <2>3, OutOfQueue
<1>8. CASE s.st[u] \in {"blocked", "computing"}
  <2>1. s.st[u] \in OnCpu /\ r = FindReady(a, h)
    BY <1>3, <1>8, StateNames
  <2>2. u \notin Range(s.rtrq) /\ \A g \in Hosts \ {h} : s.run[g] # u
    BY <1>1, <2>1, OnOneCpu
  <2>3. h = s.hp[u]
    OBVIOUS
  <2> HIDE DEF h
  <2>4. WellOff(a, u, Hosts \ {h})
    BY <1>1, <1>5, <2>2, BuriedWell
  <2>5. Edited(a, s, u) /\ a.htp = s.htp /\ a.pri[u] = s.pri[u]
    BY <1>5 DEF Buried
  <2> QED BY <1>1, <2>1, <2>3, <2>4, <2>5, LeavingCpu
<1>9. CASE s.st[u] \in {"sleeping", "receiving", "suspended"}
  <2>1. s.st[u] \notin OnCpu /\ u \notin Range(s.rtrq) /\ s.st[u] # "hot" /\ r = a
    BY <1>1, <1>3, <1>9, StateNames DEF Placed
  <2>2. \A g \in Hosts : s.run[g] # u
    BY <1>1, <2>1, OnNoCpu
  <2>3. WellOff(r, u, Hosts)
    BY <1>1, <1>5, <2>1, <2>2, BuriedWell
  <2>4. Edited(r, s, u) /\ r.htp = s.htp /\ KeepsOrder(r, s, u, Hosts)
    BY <1>5, <2>1, <2>2 DEF Buried, KeepsOrder
  <2>5. FineFor(r, Tasks, Hosts)
    BY <1>1, <2>3, <2>4, InPlace
  <2>6. HotIs(r)
    BY <1>1, <2>1, <2>4, HotStays DEF HotIs
  <2> QED BY <2>4, <2>5, <2>6 DEF Fine, Edited
<1>10. CASE s.st[u] \notin {"sync", "syncSuspend", "ready", "blocked", "computing", "sleeping", "receiving", "suspended"}
  <2>1. r = s
    BY <1>3, <1>10
  <2> QED BY <2>1
<1> QED BY <1>6, <1>7, <1>8, <1>9, <1>10

LEMMA CreateKeeps ==
  ASSUME node \in Nodes, NEW s, Fine(s), NEW u \in Tasks, s.st[u] = "free", NEW p \in Priorities,
         NEW r, IsCreatedAs(r, s, u, p)
  PROVE  Fine(r) /\ r.abort = s.abort
<1>1. FineFor(s, Tasks, Hosts) /\ HotIs(s) /\ WellOff(s, u, Hosts) /\ Kernel(s) /\ Placed(s, u, Hosts)
  BY DEF Fine, FineFor, WellOff
<1>2. IsCreatedAs(r, s, u, p)
  OBVIOUS
<1> USE DEF IsCreatedAs
<1>3. s.st[u] \notin OnCpu /\ u \notin Range(s.rtrq) /\ s.tep[u] = None
  BY <1>1, StateNames DEF Placed, EventsOf
<1>4. \A g \in Hosts : s.run[g] # u
  BY <1>1, <1>3, OnNoCpu
<1>5. WellOff(r, u, Hosts)
  <2>1. MessagesOf(r, u)
    BY <1>1, <1>2 DEF WellOff, MessagesOf
  <2>2. QuantaEnd => r.quanta[u] = 0 /\ ~r.qep[u] /\ ~r.qx[u]
    BY <1>1, <1>2, StateNames DEF WellOff, QuantaOf
  <2>3. Timely => TimeOf(r, u)
    BY <1>1, <1>2 DEF WellOff, TimeOf
  <2> QED BY <1>2, <1>3, <1>4, <2>1, <2>2, <2>3, OffCpu
<1>6. KeepsOrder(r, s, u, Hosts)
  BY <1>3, <1>4 DEF KeepsOrder
<1>7. FineFor(r, Tasks, Hosts)
  BY <1>1, <1>2, <1>5, <1>6, InPlace
<1>8. HotIs(r)
  BY <1>1, <1>2, HotStays DEF HotIs
<1> QED BY <1>2, <1>7, <1>8 DEF Fine, Edited

\* A task of another node runs, or blocks.
LEMMA OutsideKeeps ==
  ASSUME NEW s, Fine(s), s.htp \in {Driver, Outside}, NEW x \in {Driver, Outside}, NEW r, r = [s EXCEPT !.htp = x]
  PROVE  Fine(r) /\ r.abort = s.abort
<1>0. Shape(s) /\ Typed(s) /\ FineFor(s, Tasks, Hosts) /\ QueueOK(s)
  BY DEF Fine, FineFor, Kernel
<1>1. r = [htp |-> x, run |-> s.run, rtrq |-> s.rtrq, abort |-> s.abort, st |-> s.st, pri |-> s.pri, hp |-> s.hp,
           tep |-> s.tep, rct |-> s.rct, rtoep |-> s.rtoep, qep |-> s.qep, quanta |-> s.quanta, qx |-> s.qx,
           nmess |-> s.nmess, inReceive |-> s.inReceive, owed |-> s.owed]
  BY <1>0 DEF Shape
<1>2. Kernel(r)
  <2>1. Shape(r)
    BY <1>1 DEF Shape
  <2>2. Typed(r)
    BY <1>0, <1>1 DEF Typed
  <2> QED BY <2>1, <2>2 DEF Kernel
<1>3. ASSUME NEW u \in Tasks
      PROVE  WellOff(r, u, Hosts)
  <2>1. WellOff(s, u, Hosts) /\ CpuOf(s, u, Hosts) /\ s.st[u] # "hot"
    BY <1>0, StateNames DEF FineFor, WellOff, Placed
  <2>2. SameTask(r, s, u) /\ CpuOf(r, u, Hosts) /\ r.rtrq = s.rtrq
    BY <1>1, <2>1 DEF SameTask, CpuOf
  <2> QED BY <2>1, <2>2, StaysWellOff
<1>4. QueueOK(r) /\ HotIs(r)
  BY <1>0, <1>1, StateNames DEF QueueOK, Sorted, HotIs
<1>5. Exchangeable => \A g \in Hosts : UsedWell(r, g)
  BY <1>0, <1>1 DEF FineFor, UsedWell, Serves
<1>6. r.abort = s.abort
  BY <1>1
<1> QED BY <1>2, <1>3, <1>4, <1>5, <1>6 DEF Fine, FineFor

\* The task of a cpu is given to find_priority.
LEMMA CanGiveWay ==
  ASSUME NEW s, Fine(s), NEW t \in Tasks, s.st[t] \in OnCpu, NEW h, h = s.hp[t],
         NEW a, Edited(a, s, t), a.htp = s.htp, a.st[t] = s.st[t], a.hp[t] = s.hp[t], a.rtoep[t] = s.rtoep[t],
         a.nmess[t] = s.nmess[t], a.rct[t] = s.rct[t], a.owed[t] = s.owed[t],
         a.tep[t] = s.tep[t] \/ s.st[t] # "computing",
         QuantaEnd => a.quanta[t] = 0 /\ ~a.qep[t] /\ ~a.qx[t], Exchangeable => Roams,
         NEW p \in Int, Discipline = "PR" => p \in {a.pri[t], a.pri[t] - 1},
         a.htp # Driver \/ (Quantum /\ ~a.qep[t]) => WellOff(a, t, Hosts),
         a.htp = Driver /\ ~(Quantum /\ ~a.qep[t]) => a.tep[t] = None /\ (Timely => ~a.rct[t])
  PROVE  h \in Hosts /\ MayGiveWay(a, t, h, p)
<1>1. FineFor(s, Tasks, Hosts) /\ HotIs(s) /\ WellOff(s, t, Hosts)
  BY DEF Fine, FineFor
<1>2. h \in Hosts /\ s.run[h] = t /\ t \notin Range(s.rtrq) /\ \A g \in Hosts \ {h} : s.run[g] # t
  BY <1>1, OnOneCpu
<1>3. FineFor(a, Tasks \ {t}, Hosts \ {h})
  <2>1. \A u \in Tasks \ {t} : s.st[u] = "hot" => a.htp = u
    BY <1>1 DEF FineFor, WellOff, Placed
  <2>2. KeepsOrder(a, s, t, Hosts \ {h})
    BY <1>2 DEF KeepsOrder
  <2>3. (\A g \in Hosts \ (Hosts \ {h}) : s.run[g] = t) /\ Hosts \ {h} \subseteq Hosts
    BY <1>2
  <2> QED BY <1>1, <2>1, <2>2, <2>3, OthersKeep
<1>4. HotIs(a)
  <2>1. s.htp = t => s.st[t] = "hot"
    BY <1>1 DEF HotIs
  <2> QED BY <1>1, <2>1, HotStays
<1>5. Moving(Displaced(a, t), t, Hosts \ {h})
  <2> DEFINE d == Displaced(a, t)
  <2>1. /\ Untouched(d, a) /\ d.run = a.run /\ d.rtrq = a.rtrq /\ d.qep = a.qep /\ d.quanta = a.quanta
        /\ d.tep[t] = None /\ (d.rct[t] <=> a.rct[t] \/ LeftOver(a, t))
    <3>1. d = Displaced(a, t) /\ Kernel(a)
      BY DEF Edited
    <3> HIDE DEF d
    <3> QED BY <3>1, IsDisplaced
  <2> HIDE DEF d
  <2>2. t \notin Range(d.rtrq) /\ \A g \in Hosts \ {h} : d.run[g] # t
    BY <1>2, <2>1 DEF Edited
  <2>3. d.nmess[t] \in 0..MaxMessages+1
    BY <1>1, <2>1 DEF WellOff, MessagesOf, Untouched
  <2>4. d.rtoep[t] => "timed" \in Calls /\ "suspend" \in Calls
    BY <1>1, <2>1, StateNames DEF WellOff, MessagesOf, Untouched
  <2>5. QuantaEnd => d.quanta[t] = 0 /\ ~d.qep[t] /\ ~d.qx[t]
    BY <2>1 DEF Untouched
  <2>6. ASSUME Timely, d.owed[t]
        PROVE  d.rct[t]
    <3>1. s.st[t] = "computing" \/ s.rct[t]
      BY <1>1, <2>1, <2>6 DEF WellOff, TimeOf, Untouched
    <3>2. s.st[t] = "computing" => a.tep[t] = "END_COMPUTE"
      BY <1>1, StateNames DEF WellOff, Placed, EventsOf
    <3> QED BY <2>1, <3>1, <3>2 DEF LeftOver
  <2>7. Moving(d, t, Hosts \ {h})
    BY <2>1, <2>2, <2>3, <2>4, <2>5, <2>6 DEF Moving
  <2> QED BY <2>7 DEF d
<1>6. a.run[h] = t /\ a.hp[t] = h
  BY <1>2 DEF Edited
<1> QED BY <1>2, <1>3, <1>4, <1>5, <1>6 DEF MayGiveWay

\* A task that waited on its cpu becomes hot.
LEMMA WarmingUp ==
  ASSUME node \in Nodes, NEW s, Fine(s), s.htp = Driver, NEW t \in Tasks, s.st[t] \in OnCpu,
         s.st[t] \notin Uninterruptible \/ Discipline # "PR", QuantaEnd => ~s.qx[t],
         NEW a, IsHotAs(a, s, t), NEW r, r = a \/ IsServedAs(r, a, t),
         Timely => ~r.owed[t] /\ ~r.rct[t]
  PROVE  Fine(r) /\ r.abort = s.abort
<1>1. FineFor(s, Tasks, Hosts) /\ HotIs(s) /\ WellOff(s, t, Hosts) /\ \A u \in Tasks : s.st[u] # "hot"
  BY StateNames DEF Fine, FineFor, WellOff, Placed
<1>2. /\ Edited(r, s, t) /\ r.htp = t /\ r.st[t] = "hot" /\ r.pri[t] = s.pri[t] /\ r.hp[t] = s.hp[t] /\ r.tep[t] = None
      /\ r.rtoep[t] = s.rtoep[t] /\ r.qep[t] = s.qep[t] /\ r.quanta[t] = s.quanta[t] /\ r.qx[t] = s.qx[t]
      /\ r.nmess[t] = s.nmess[t]
  <2>1. CASE r = a
    BY <2>1 DEF IsHotAs
  <2>2. CASE IsServedAs(r, a, t)
    BY <2>2, EditedTwice DEF IsHotAs, IsServedAs
  <2> QED BY <2>1, <2>2
<1>3. t \notin Range(s.rtrq)
  BY <1>1, OnOneCpu
<1>4. WellOff(r, t, Hosts)
  <2>1. CpuOf(r, t, Hosts)
    BY <1>1, <1>2, StateNames DEF WellOff, Placed, CpuOf, Edited
  <2>2. Placed(r, t, Hosts)
    BY <1>2, <1>3, <2>1, StateNames DEF Placed, EventsOf, Legal, Edited, None
  <2>3. MessagesOf(r, t)
    BY <1>1, <1>2, StateNames DEF WellOff, MessagesOf
  <2>4. QuantaEnd => QuantaOf(r, t)
    BY <1>1, <1>2, StateNames DEF WellOff, QuantaOf
  <2>5. Timely => TimeOf(r, t)
    BY <1>2 DEF TimeOf
  <2> QED BY <2>2, <2>3, <2>4, <2>5 DEF WellOff
<1>5. KeepsOrder(r, s, t, Hosts)
  BY <1>2 DEF KeepsOrder
<1>6. FineFor(r, Tasks, Hosts)
  BY <1>1, <1>2, <1>4, <1>5, InPlace
<1>7. HotIs(r)
  BY <1>2 DEF HotIs
<1> QED BY <1>2, <1>6, <1>7 DEF Fine, Edited

LEMMA AdjustKeeps ==
  ASSUME node \in Nodes, SyncsKeepCpus, "priority" \in Calls, NEW s, Fine(s), NEW u \in Tasks, NEW p \in Priorities,
         s.htp # Driver, s.htp \in {Outside, Parent[u]} \/ u = s.htp, NEW r, r = Adjusted(s, u, p)
  PROVE  Fine(r) /\ r.abort = s.abort
<1>1. FineFor(s, Tasks, Hosts) /\ HotIs(s) /\ WellOff(s, u, Hosts) /\ Kernel(s) /\ Placed(s, u, Hosts) /\ Typed(s)
  BY DEF Fine, FineFor, WellOff, Kernel
<1>2. PICK a : a = [s EXCEPT !.pri[u] = p]
  OBVIOUS
<1>3. IsRankedAs(a, s, u, p)
  BY <1>1, <1>2, IsRanked
<1> USE DEF IsRankedAs
<1>4. r = CASE s.st[u] = "ready" -> Requeue(a, u)
            [] s.st[u] \in {"hot", "blocked", "computing"} /\ Discipline = "PR" -> FindPriority(a, s.hp[u], p, FALSE)
            [] OTHER -> a
  BY <1>2 DEF Adjusted
<1>5. WellOff(a, u, Hosts)
  <2>1. CpuOf(a, u, Hosts) /\ (u \in Range(a.rtrq) <=> u \in Range(s.rtrq)) /\ (s.st[u] = "hot" => a.htp = u)
    BY <1>1, <1>3 DEF Placed, CpuOf, Edited
  <2>2. SameTask(a, s, u)
    BY <1>3 DEF SameTask
  <2> QED BY <1>1, <2>1, <2>2, StaysWellOff
<1>6. ASSUME r = a, KeepsOrder(a, s, u, Hosts)
      PROVE  Fine(r) /\ r.abort = s.abort
  <2>1. FineFor(a, Tasks, Hosts)
    BY <1>1, <1>3, <1>5, <1>6, InPlace
  <2>2. HotIs(a)
    <3>1. s.htp = u => s.st[u] = "hot"
      BY <1>1 DEF HotIs
    <3> QED BY <1>1, <1>3, <3>1, HotStays
  <2> QED BY <1>3, <1>6, <2>1, <2>2 DEF Fine, Edited
<1>7. CASE s.st[u] = "ready" /\ Discipline = "FIFO"
  <2>1. r = a
    BY <1>4, <1>7 DEF Requeue
  <2>2. KeepsOrder(a, s, u, Hosts)
    BY <1>7 DEF KeepsOrder
  <2> QED BY <1>6, <2>1, <2>2
<1>8. CASE s.st[u] = "ready" /\ Discipline # "FIFO"
  <2>1. r = FindHost(Dequeue(a, u), u)
    BY <1>4, <1>8 DEF Requeue
  <2>2. u \in Range(a.rtrq)
    BY <1>1, <1>3, <1>8 DEF Placed, Edited
  <2>3. PICK i \in DOMAIN a.rtrq : a.rtrq[i] = u /\ Dequeue(a, u) = Without(a, i)
    BY <2>2, IsDequeued
  <2>4. PICK d : d = Without(s, i)
    OBVIOUS
  <2>5. PICK e : e = Without(a, i)
    OBVIOUS
  <2>6. i \in DOMAIN s.rtrq /\ s.rtrq[i] = u
    BY <1>3, <2>3 DEF Edited
  <2>7. /\ FineFor(d, Tasks \ {u}, Hosts) /\ Moving(d, u, Hosts)
        /\ d.htp = s.htp /\ d.run = s.run /\ d.st = s.st /\ d.pri = s.pri /\ d.rct = s.rct
    <3>1. Tasks \subseteq Tasks
      OBVIOUS
    <3> QED BY <1>1, <2>4, <2>6, <3>1, RemovalKeeps
  <2>8. Untouched(d, s) /\ Kernel(d)
    BY <1>1, <2>4, <2>6, IsRemoved DEF FineFor
  <2>9. IsRankedAs(e, d, u, p)
    <3>1. e = [d EXCEPT !.pri[u] = p]
      <4>0. Shape(s)
        BY <1>1 DEF Kernel
      <4>1. a = [htp |-> s.htp, run |-> s.run, rtrq |-> s.rtrq, abort |-> s.abort, st |-> s.st,
                 pri |-> [s.pri EXCEPT ![u] = p], hp |-> s.hp, tep |-> s.tep, rct |-> s.rct, rtoep |-> s.rtoep,
                 qep |-> s.qep, quanta |-> s.quanta, qx |-> s.qx, nmess |-> s.nmess, inReceive |-> s.inReceive,
                 owed |-> s.owed]
        BY <1>2, <4>0 DEF Shape
      <4>2. d = [htp |-> s.htp, run |-> s.run, rtrq |-> RemoveAt(s.rtrq, i), abort |-> s.abort, st |-> s.st,
                 pri |-> s.pri, hp |-> s.hp, tep |-> s.tep, rct |-> s.rct, rtoep |-> s.rtoep,
                 qep |-> s.qep, quanta |-> s.quanta, qx |-> s.qx, nmess |-> s.nmess, inReceive |-> s.inReceive,
                 owed |-> s.owed]
        BY <2>4, <4>0 DEF Shape, Without
      <4>3. e = [htp |-> s.htp, run |-> s.run, rtrq |-> RemoveAt(s.rtrq, i), abort |-> s.abort, st |-> s.st,
                 pri |-> [s.pri EXCEPT ![u] = p], hp |-> s.hp, tep |-> s.tep, rct |-> s.rct, rtoep |-> s.rtoep,
                 qep |-> s.qep, quanta |-> s.quanta, qx |-> s.qx, nmess |-> s.nmess, inReceive |-> s.inReceive,
                 owed |-> s.owed]
        BY <2>5, <4>1 DEF Without
      <4>4. PICK f : f = [d EXCEPT !.pri[u] = p]
        OBVIOUS
      <4>5. f = [htp |-> s.htp, run |-> s.run, rtrq |-> RemoveAt(s.rtrq, i), abort |-> s.abort, st |-> s.st,
                 pri |-> [s.pri EXCEPT ![u] = p], hp |-> s.hp, tep |-> s.tep, rct |-> s.rct, rtoep |-> s.rtoep,
                 qep |-> s.qep, quanta |-> s.quanta, qx |-> s.qx, nmess |-> s.nmess, inReceive |-> s.inReceive,
                 owed |-> s.owed]
        BY <4>2, <4>4
      <4> QED BY <4>3, <4>4, <4>5
    <3> HIDE DEF IsRankedAs
    <3> QED BY <2>8, <3>1, IsRanked
  <2>10. (s.htp # u /\ s.htp \notin Tasks) \/ ~Timely \/ Discipline # "PR"
    <3>1. u # s.htp
      BY <1>1, <1>8 DEF HotIs
    <3>2. Timely /\ Discipline = "PR" => Parent[u] = Outside
      BY DEF Timely, NoRaises
    <3> QED BY <3>1, <3>2, StateNames
  <2>11. FineFor(e, Tasks \ {u}, Hosts)
    <3>1. PICK T : T = Tasks \ {u}
      OBVIOUS
    <3>2. KeepsOrder(e, d, u, Hosts)
      BY <2>7 DEF KeepsOrder, Moving
    <3>3. \A v \in T \ {u} : d.st[v] = "hot" => e.htp = v
      BY <2>7, <2>9, <3>1 DEF FineFor, WellOff, Placed
    <3>4. (\A g \in Hosts \ Hosts : d.run[g] = u) /\ T \subseteq Tasks /\ T \ {u} = T /\ Edited(e, d, u) /\ FineFor(d, T, Hosts)
      BY <2>7, <2>9, <3>1
    <3>5. FineFor(e, T \ {u}, Hosts)
      BY <3>2, <3>3, <3>4, OthersKeep
    <3> QED BY <3>1, <3>4, <3>5
  <2>12. Moving(e, u, Hosts)
    <3>1. SameTask(e, d, u) /\ (\A g \in Hosts : e.run[g] # u) /\ (u \in Range(e.rtrq) => u \in Range(d.rtrq))
      BY <2>7, <2>9 DEF SameTask, Edited, Moving
    <3> QED BY <2>7, <3>1, StaysMoving
  <2>13. u # s.htp /\ HotIs(e)
    <3>1. u # s.htp
      BY <1>1, <1>8 DEF HotIs
    <3>2. HotIs(d)
      BY <1>1, <2>7 DEF HotIs
    <3> QED BY <2>7, <2>9, <3>1, <3>2, HotStays
  <2>14. MayMove(e, u)
    BY <2>7, <2>9, <2>10, <2>11, <2>12, <2>13 DEF MayMove
  <2>15. Fine(r) /\ r.abort = e.abort
    BY <2>1, <2>3, <2>5, <2>14, FindHostKeeps
  <2> QED BY <2>8, <2>9, <2>15 DEF Untouched, Edited
<1>9. CASE s.st[u] \in {"hot", "blocked", "computing"} /\ Discipline = "PR"
  <2>1. PICK h : h = s.hp[u]
    OBVIOUS
  <2>2. r = FindPriority(a, h, p, FALSE)
    BY <1>4, <1>9, <2>1
  <2>3. s.st[u] \in OnCpu
    BY <1>9, StateNames
  <2>4. QuantaEnd => a.quanta[u] = 0 /\ ~a.qep[u] /\ ~a.qx[u]
    <3>1. QuantaEnd => ~Quantum
      BY <1>9 DEF QuantaEnd
    <3> QED BY <1>1, <1>3, <3>1 DEF WellOff, QuantaOf
  <2>5. p \in Int /\ p \in {a.pri[u], a.pri[u] - 1}
    BY <1>3, NodesAssumption DEF NodeAssumption, Priorities
  <2>6. h \in Hosts /\ MayGiveWay(a, u, h, p)
    <3>1. Exchangeable => Roams
      BY <1>9 DEF Exchangeable
    <3> QED BY <1>3, <1>5, <2>1, <2>3, <2>4, <2>5, <3>1, CanGiveWay
  <2>7. Fine(r) /\ r.abort = a.abort
    <3>1. PICK x \in BOOLEAN : x = FALSE
      OBVIOUS
    <3>2. r = FindPriority(a, h, p, x)
      BY <2>2, <3>1
    <3> QED BY <2>6, <3>2, FindPriorityKeeps
  <2> QED BY <1>3, <2>7 DEF Edited
<1>10. CASE s.st[u] # "ready" /\ ~(s.st[u] \in {"hot", "blocked", "computing"} /\ Discipline = "PR")
  <2>1. r = a
    BY <1>4, <1>10
  <2>2. u \notin Range(s.rtrq)
    BY <1>1, <1>10 DEF Placed
  <2>3. ASSUME NEW g \in Hosts, s.run[g] = u, Discipline = "PR"
        PROVE  a.st[u] \in Uninterruptible
    <3>1. s.st[u] \in OnCpu
      BY <1>1, <2>3 DEF Placed, CpuOf
    <3> QED BY <1>3, <1>10, <2>3, <3>1 DEF OnCpu, Uninterruptible
  <2>4. KeepsOrder(a, s, u, Hosts)
    BY <2>2, <2>3 DEF KeepsOrder
  <2> QED BY <1>6, <2>1, <2>4
<1> QED BY <1>7, <1>8, <1>9, <1>10

-----------------------------------------------------------------------------
\* What the events keep.
LEMMA AbortKeeps ==
  ASSUME NEW s, Fine(s), NEW why \in {"event", "quantum", "receive"}, NEW r, r = [s EXCEPT !.abort = why]
  PROVE  Fine(r)
<1>0. Shape(s) /\ Typed(s) /\ FineFor(s, Tasks, Hosts) /\ QueueOK(s) /\ HotIs(s)
  BY DEF Fine, FineFor, Kernel
<1>1. r = [htp |-> s.htp, run |-> s.run, rtrq |-> s.rtrq, abort |-> why, st |-> s.st, pri |-> s.pri, hp |-> s.hp,
           tep |-> s.tep, rct |-> s.rct, rtoep |-> s.rtoep, qep |-> s.qep, quanta |-> s.quanta, qx |-> s.qx,
           nmess |-> s.nmess, inReceive |-> s.inReceive, owed |-> s.owed]
  BY <1>0 DEF Shape
<1>2. Kernel(r)
  <2>1. Shape(r)
    BY <1>1 DEF Shape
  <2>2. Typed(r)
    BY <1>0, <1>1 DEF Typed
  <2> QED BY <2>1, <2>2 DEF Kernel
<1>3. ASSUME NEW u \in Tasks
      PROVE  WellOff(r, u, Hosts)
  <2>1. WellOff(s, u, Hosts) /\ CpuOf(s, u, Hosts) /\ (s.st[u] = "hot" => s.htp = u)
    BY <1>0 DEF FineFor, WellOff, Placed
  <2>2. SameTask(r, s, u) /\ CpuOf(r, u, Hosts) /\ r.rtrq = s.rtrq /\ r.htp = s.htp
    BY <1>1, <2>1 DEF SameTask, CpuOf
  <2> QED BY <2>1, <2>2, StaysWellOff
<1>4. QueueOK(r) /\ HotIs(r)
  BY <1>0, <1>1 DEF QueueOK, Sorted, HotIs
<1>5. Exchangeable => \A g \in Hosts : UsedWell(r, g)
  BY <1>0, <1>1 DEF FineFor, UsedWell, Serves
<1> QED BY <1>2, <1>3, <1>4, <1>5 DEF Fine, FineFor

\* The sync of a task that was suspended meanwhile ends.
LEMMA SuspendAfterSync ==
  ASSUME node \in Nodes, NEW s, Fine(s), NEW t \in Tasks, s.st[t] = "syncSuspend",
         NEW a, IsCancelledAs(a, s, t), NEW r, r = FindReady(Suspended(a, t), s.hp[t])
  PROVE  Fine(r) /\ r.abort = s.abort
<1>1. FineFor(s, Tasks, Hosts) /\ WellOff(s, t, Hosts) /\ s.st[t] \in OnCpu /\ s.st[t] \in Uninterruptible
  BY DEF Fine, FineFor, OnCpu, Uninterruptible
<1>2. PICK c : c = Suspended(a, t)
  OBVIOUS
<1>3. PICK h : h = s.hp[t]
  OBVIOUS
<1>4. IsSuspendedAs(c, a, t)
  BY <1>2, IsSuspended DEF IsCancelledAs, Edited
<1>5. Parked(c, s, t)
  BY <1>4, EditedTwice DEF IsSuspendedAs, IsCancelledAs, Parked
<1>6. "suspend" \in Calls /\ "sync" \in Calls
  BY <1>1 DEF WellOff, Placed, Legal
<1>7. QuantaEnd => ~s.qx[t]
  <2>1. QuantaEnd => ~Quantum
    BY <1>6 DEF QuantaEnd, Both
  <2> QED BY <1>1, <2>1 DEF WellOff, QuantaOf
<1>8. t \notin Range(s.rtrq) /\ \A g \in Hosts \ {h} : s.run[g] # t
  BY <1>1, <1>3, OnOneCpu
<1>9. WellOff(c, t, Hosts \ {h})
  BY <1>1, <1>5, <1>6, <1>7, <1>8, ParkedWell
<1>10. Edited(c, s, t) /\ c.htp = s.htp /\ c.pri[t] = s.pri[t] /\ r = FindReady(c, h)
  BY <1>2, <1>3, <1>5 DEF Parked
<1> QED BY <1>1, <1>3, <1>9, <1>10, LeavingCpu

\* The sync of a task that was killed meanwhile ends.
LEMMA KillAfterSync ==
  ASSUME node \in Nodes, NEW s, Fine(s), NEW t \in Tasks, s.st[t] = "syncFree",
         NEW a, IsCancelledAs(a, s, t), NEW r, r = KillTask([a EXCEPT !.st[t] = "computing"], t)
  PROVE  Fine(r) /\ r.abort = s.abort
<1>1. FineFor(s, Tasks, Hosts) /\ WellOff(s, t, Hosts) /\ s.st[t] \in OnCpu /\ s.st[t] \in Uninterruptible
  BY DEF Fine, FineFor, OnCpu, Uninterruptible
<1>2. PICK b : b = [a EXCEPT !.st[t] = "computing"]
  OBVIOUS
<1>3. IsInStateAs(b, a, t, "computing")
  <2>1. "computing" \in States
    BY DEF States
  <2> QED BY <1>2, <2>1, IsInState DEF IsCancelledAs, Edited
<1>4. PICK h : h = s.hp[t]
  OBVIOUS
<1>5. PICK c : c = Dead(b, t)
  OBVIOUS
<1>6. r = FindReady(c, h)
  <2>1. b.st[t] = "computing" /\ b.hp[t] = h
    BY <1>3, <1>4 DEF IsInStateAs, IsCancelledAs
  <2> QED BY <1>2, <1>5, <2>1 DEF KillTask, Dead
<1>7. IsDeadAs(c, b, t)
  BY <1>3, <1>5, IsDead DEF IsInStateAs, Edited
<1>8. Buried(c, s, t)
  <2>1. Edited(c, s, t)
    BY <1>3, <1>7, EditedTwice DEF IsDeadAs, IsInStateAs, IsCancelledAs
  <2> QED BY <1>3, <1>7, <2>1 DEF IsDeadAs, IsInStateAs, IsCancelledAs, Buried
<1>9. t \notin Range(s.rtrq) /\ \A g \in Hosts \ {h} : s.run[g] # t
  BY <1>1, <1>4, OnOneCpu
<1>10. WellOff(c, t, Hosts \ {h})
  BY <1>1, <1>8, <1>9, BuriedWell
<1>11. Edited(c, s, t) /\ c.htp = s.htp /\ c.pri[t] = s.pri[t]
  BY <1>8 DEF Buried
<1> QED BY <1>1, <1>4, <1>6, <1>10, <1>11, LeavingCpu

\* A sync ends, and the cpu may go to another task.
LEMMA SyncGivesWay ==
  ASSUME node \in Nodes, NEW s, Fine(s), NEW t \in Tasks, s.htp = Driver, s.st[t] = "sync",
         NEW a, Edited(a, s, t), a.htp = s.htp, a.st[t] = s.st[t], a.pri[t] = s.pri[t], a.hp[t] = s.hp[t], a.tep[t] = None,
         a.rct[t] = s.rct[t], a.rtoep[t] = s.rtoep[t], a.qep[t] = s.qep[t], a.quanta[t] = s.quanta[t],
         a.nmess[t] = s.nmess[t], a.owed[t] = s.owed[t],
         NEW p \in Int, Discipline = "PR" => p \in {s.pri[t], s.pri[t] - 1},
         NEW qx \in BOOLEAN, qx => ~a.qx[t], s.qx[t] = qx, qx \/ (Discipline = "PR" /\ a.qx[t] = s.qx[t]),
         NEW r, r = FindPriority(a, s.hp[t], p, qx)
  PROVE  Fine(r) /\ r.abort = s.abort
<1>1. /\ FineFor(s, Tasks, Hosts) /\ WellOff(s, t, Hosts) /\ s.st[t] \in OnCpu /\ s.st[t] \in Uninterruptible
      /\ Typed(s)
  BY DEF Fine, FineFor, OnCpu, Uninterruptible, Kernel
<1>2. "sync" \in Calls
  BY <1>1 DEF WellOff, Placed, Legal
<1>3. QuantaEnd => a.quanta[t] = 0 /\ ~a.qep[t] /\ ~a.qx[t]
  <2>1. CASE qx
    BY <1>1, <2>1 DEF WellOff, QuantaOf
  <2>2. CASE ~qx
    <3>1. QuantaEnd => ~Quantum
      BY <1>2, <2>2 DEF QuantaEnd
    <3> QED BY <1>1, <2>2, <3>1 DEF WellOff, QuantaOf
  <2> QED BY <2>1, <2>2
<1>4. Exchangeable => Roams
  <2>1. Quantum \/ QuantaEnd
    BY DEF QuantaEnd
  <2>2. Quantum \/ Discipline = "PR"
    BY <1>1, <2>1 DEF WellOff, QuantaOf
  <2> QED BY <2>2 DEF Exchangeable
<1>5. ASSUME Quantum, ~a.qep[t]
      PROVE  WellOff(a, t, Hosts)
  <2>1. Placed(a, t, Hosts)
    <3>1. CpuOf(a, t, Hosts) /\ (t \in Range(a.rtrq) <=> a.st[t] = "ready") /\ a.st[t] # "hot"
      BY <1>1 DEF WellOff, Placed, CpuOf, Edited
    <3>2. a.tep[t] \in EventsOf(a.st[t])
      BY <1>1, <1>5 DEF EventsOf, Uninterruptible
    <3>3. Legal(a.st[t], a.tep[t])
      BY <1>2 DEF Legal, None
    <3> QED BY <3>1, <3>2, <3>3 DEF Placed
  <2>2. MessagesOf(a, t)
    BY <1>1 DEF WellOff, MessagesOf
  <2>3. QuantaEnd => QuantaOf(a, t)
    BY <1>1, <1>3, <1>5 DEF QuantaOf
  <2>4. Timely => TimeOf(a, t)
    BY <1>1 DEF WellOff, TimeOf
  <2> QED BY <2>1, <2>2, <2>3, <2>4 DEF WellOff
<1>6. Timely => ~a.rct[t]
  BY <1>1 DEF WellOff, TimeOf
<1>7. PICK h : h = s.hp[t]
  OBVIOUS
<1>8. h \in Hosts /\ MayGiveWay(a, t, h, p)
  BY <1>1, <1>3, <1>4, <1>5, <1>6, <1>7, CanGiveWay
<1>9. Fine(r) /\ r.abort = a.abort
  BY <1>7, <1>8, FindPriorityKeeps
<1> QED BY <1>9 DEF Edited

\* A quantum event is due only where there are quanta.
LEMMA QuantumIsDue ==
  ASSUME NEW s, Fine(s), NEW t \in Tasks, s.quanta[t] > 0
  PROVE  /\ Quantum
         /\ QuantaEnd => s.quanta[t] = 1 /\ s.qep[t] /\ ~s.qx[t] /\ s.st[t] \in OnCpu
<1>1. WellOff(s, t, Hosts)
  BY DEF Fine, FineFor
<1>2. QuantaEnd => s.quanta[t] = 1 /\ s.qep[t] /\ ~s.qx[t] /\ s.st[t] \in OnCpu
  BY <1>1 DEF WellOff, QuantaOf
<1>3. ~Quantum => QuantaEnd
  BY DEF QuantaEnd
<1> QED BY <1>1, <1>2, <1>3 DEF WellOff, QuantaOf

\* A quantum ends, and the cpu may go to another task.
LEMMA QuantumGivesWay ==
  ASSUME node \in Nodes, NEW s, Fine(s), NEW t \in Tasks, s.htp = Driver, s.st[t] = "computing", s.quanta[t] > 0,
         NEW a, IsQuantumOverAs(a, s, t), NEW p \in Int, Discipline # "FIFO" => p = s.pri[t] - 1,
         NEW qx \in BOOLEAN, NEW r, r = FindPriority(a, s.hp[t], p, qx)
  PROVE  Fine(r) /\ r.abort = s.abort
<1>1. /\ FineFor(s, Tasks, Hosts) /\ WellOff(s, t, Hosts) /\ s.st[t] \in OnCpu
  BY DEF Fine, FineFor, OnCpu
<1> USE DEF IsQuantumOverAs
<1>2. Quantum /\ (QuantaEnd => s.quanta[t] = 1 /\ s.qep[t] /\ ~s.qx[t])
  BY QuantumIsDue
<1>3. QuantaEnd => a.quanta[t] = 0 /\ ~a.qep[t] /\ ~a.qx[t]
  BY <1>2
<1>4. Exchangeable => Roams
  BY <1>2 DEF Exchangeable
<1>5. WellOff(a, t, Hosts)
  <2>1. Placed(a, t, Hosts)
    BY <1>1 DEF WellOff, Placed, CpuOf, Edited
  <2>2. MessagesOf(a, t)
    BY <1>1 DEF WellOff, MessagesOf
  <2>3. QuantaEnd => QuantaOf(a, t)
    BY <1>3 DEF QuantaOf
  <2>4. Timely => TimeOf(a, t)
    BY <1>1 DEF WellOff, TimeOf
  <2> QED BY <2>1, <2>2, <2>3, <2>4 DEF WellOff
<1>6. Discipline = "PR" => p \in {a.pri[t], a.pri[t] - 1}
  OBVIOUS
<1>7. PICK h : h = s.hp[t]
  OBVIOUS
<1>8. h \in Hosts /\ MayGiveWay(a, t, h, p)
  BY <1>1, <1>2, <1>3, <1>4, <1>5, <1>6, <1>7, CanGiveWay
<1>9. Fine(r) /\ r.abort = a.abort
  BY <1>7, <1>8, FindPriorityKeeps
<1> QED BY <1>9 DEF Edited

\* A quantum ends during a sync: the task is marked.
LEMMA QuantumMarks ==
  ASSUME node \in Nodes, NEW s, Fine(s), NEW t \in Tasks, s.st[t] \in Uninterruptible, s.quanta[t] > 0,
         NEW a, IsQuantumOverAs(a, s, t), NEW x \in BOOLEAN, NEW r, IsMarkedAs(r, a, t, x)
  PROVE  Fine(r) /\ r.abort = s.abort
<1>1. /\ FineFor(s, Tasks, Hosts) /\ WellOff(s, t, Hosts) /\ HotIs(s)
  BY DEF Fine, FineFor
<1>2. Quantum /\ (QuantaEnd => s.quanta[t] = 1 /\ s.qep[t] /\ ~s.qx[t])
  BY QuantumIsDue
<1>4. IsMarkedAs(r, a, t, x)
  OBVIOUS
<1>5. /\ Edited(r, s, t) /\ r.htp = s.htp /\ r.st[t] = s.st[t] /\ r.pri[t] = s.pri[t] /\ r.hp[t] = s.hp[t]
      /\ r.tep[t] = s.tep[t] /\ r.rct[t] = s.rct[t] /\ r.rtoep[t] = s.rtoep[t] /\ r.qep[t] = FALSE
      /\ r.quanta[t] = s.quanta[t] - 1 /\ r.nmess[t] = s.nmess[t] /\ r.owed[t] = s.owed[t]
  BY <1>4, EditedTwice DEF IsQuantumOverAs, IsMarkedAs
<1>6. WellOff(r, t, Hosts)
  <2>1. Placed(r, t, Hosts)
    BY <1>1, <1>5 DEF WellOff, Placed, CpuOf, Edited
  <2>2. MessagesOf(r, t)
    BY <1>1, <1>5 DEF WellOff, MessagesOf
  <2>3. QuantaEnd => QuantaOf(r, t)
    BY <1>2, <1>5 DEF QuantaOf
  <2>4. Timely => TimeOf(r, t)
    BY <1>1, <1>5 DEF WellOff, TimeOf
  <2> QED BY <2>1, <2>2, <2>3, <2>4 DEF WellOff
<1>7. KeepsOrder(r, s, t, Hosts)
  BY <1>5 DEF KeepsOrder
<1>8. FineFor(r, Tasks, Hosts)
  BY <1>1, <1>5, <1>6, <1>7, InPlace
<1>9. HotIs(r)
  <2>1. s.htp # t \/ r.st[t] = "hot"
    BY <1>1, <1>5, StateNames DEF HotIs
  <2> QED BY <1>1, <1>5, <2>1, HotStays
<1> QED BY <1>5, <1>8, <1>9 DEF Fine, Edited

\* A time-out is cleared.
LEMMA TimedOut ==
  ASSUME node \in Nodes, NEW s, Fine(s), NEW t \in Tasks, NEW x \in BOOLEAN, ~x, NEW r, IsTimedAs(r, s, t, x)
  PROVE  /\ Fine(r) /\ r.abort = s.abort
         /\ r.htp = s.htp /\ r.st[t] = s.st[t] /\ r.nmess[t] = s.nmess[t]
<1>1. /\ FineFor(s, Tasks, Hosts) /\ WellOff(s, t, Hosts) /\ HotIs(s) /\ Kernel(s)
  BY DEF Fine, FineFor
<1>2. IsTimedAs(r, s, t, x)
  OBVIOUS
<1> USE DEF IsTimedAs
<1>6. WellOff(r, t, Hosts)
  <2>1. Placed(r, t, Hosts)
    BY <1>1, <1>2 DEF WellOff, Placed, CpuOf, Edited
  <2>2. MessagesOf(r, t)
    BY <1>1, <1>2 DEF WellOff, MessagesOf
  <2>3. QuantaEnd => QuantaOf(r, t)
    BY <1>1, <1>2 DEF WellOff, QuantaOf
  <2>4. Timely => TimeOf(r, t)
    BY <1>1, <1>2 DEF WellOff, TimeOf
  <2> QED BY <2>1, <2>2, <2>3, <2>4 DEF WellOff
<1>7. KeepsOrder(r, s, t, Hosts)
  BY <1>2 DEF KeepsOrder
<1>8. FineFor(r, Tasks, Hosts)
  BY <1>1, <1>2, <1>6, <1>7, InPlace
<1>9. HotIs(r)
  BY <1>1, <1>2, HotStays DEF HotIs
<1> QED BY <1>2, <1>8, <1>9 DEF Fine, Edited

-----------------------------------------------------------------------------
\* The steps: one lemma for the system calls of a task about itself, one for
\* those about another task, and one for the events.

LEMMA OwnCallsKeep ==
  ASSUME node \in Nodes, Fine(k),
         Compute \/ Hold \/ Sync \/ Sleep \/ Receive("receive") \/ Receive("timed") \/ ReceiveAgain
         \/ OutsideRuns \/ OutsideBlocks
  PROVE  Fine(k') /\ k'.abort = k.abort
<1> DEFINE OK == Fine(k') /\ k'.abort = k.abort
<1>1. k.htp \in Tasks => k.nmess[k.htp] \in Int
  BY DEF Fine, FineFor, Kernel, Typed
<1>2. CASE Compute
  <2>1. PICK t : t = k.htp
    OBVIOUS
  <2>2. PICK a : a = [k EXCEPT !.st[t] = "computing", !.tep[t] = "END_COMPUTE", !.owed[t] = TRUE]
    OBVIOUS
  <2>3. t \in Tasks /\ k' = Cooled(a)
    BY <1>2, <2>1, <2>2 DEF Compute, OwnCall, me
  <2> QED BY <2>1, <2>2, <2>3, ComputeKeeps
<1>3. CASE Hold
  <2>1. PICK t : t = k.htp
    OBVIOUS
  <2>2. PICK st \in {"blocked", "sync"} : st = "blocked"
    OBVIOUS
  <2>3. PICK e : e = "END_HOLD"
    OBVIOUS
  <2>4. PICK a : a = [k EXCEPT !.st[t] = st, !.tep[t] = e]
    OBVIOUS
  <2>5. t \in Tasks /\ k' = Cooled(a) /\ "hold" \in Calls
    BY <1>3, <2>1, <2>2, <2>3, <2>4 DEF Hold, OwnCall, Call, me
  <2>6. /\ st = "blocked" => e = "END_HOLD" /\ "hold" \in Calls
        /\ st = "sync" => e = "END_SYNC" /\ "sync" \in Calls
    BY <2>2, <2>3, <2>5
  <2>7. IsBusyAs(a, k, t, st, e)
    <3>1. st \in States /\ e \in Events
      BY <2>3 DEF States, Events
    <3> QED BY <2>4, <2>5, <3>1, IsBusy DEF Fine, FineFor
  <2> QED BY <2>1, <2>5, <2>6, <2>7, BusyKeeps
<1>4. CASE Sync
  <2>1. PICK t : t = k.htp
    OBVIOUS
  <2>2. PICK st \in {"blocked", "sync"} : st = "sync"
    OBVIOUS
  <2>3. PICK e : e = "END_SYNC"
    OBVIOUS
  <2>4. PICK a : a = [k EXCEPT !.st[t] = st, !.tep[t] = e]
    OBVIOUS
  <2>5. t \in Tasks /\ k' = Cooled(a) /\ "sync" \in Calls
    BY <1>4, <2>1, <2>2, <2>3, <2>4 DEF Sync, OwnCall, Call, me
  <2>6. /\ st = "blocked" => e = "END_HOLD" /\ "hold" \in Calls
        /\ st = "sync" => e = "END_SYNC" /\ "sync" \in Calls
    BY <2>2, <2>3, <2>5
  <2>7. IsBusyAs(a, k, t, st, e)
    <3>1. st \in States /\ e \in Events
      BY <2>3 DEF States, Events
    <3> QED BY <2>4, <2>5, <3>1, IsBusy DEF Fine, FineFor
  <2> QED BY <2>1, <2>5, <2>6, <2>7, BusyKeeps
<1>5. CASE Sleep
  <2>1. PICK t : t = k.htp
    OBVIOUS
  <2>2. t \in Tasks /\ k' = FindReady(Asleep(k, t), k.hp[t])
    BY <1>5, <2>1 DEF Sleep, OwnCall, me, QuantumStops, Asleep
  <2> QED BY <2>1, <2>2, SleepKeeps
<1>6. ASSUME NEW name \in {"receive", "timed"}, Receive(name)
      PROVE  OK
  <2>1. PICK t : t = k.htp
    OBVIOUS
  <2>2. t \in Tasks /\ name \in Calls
    BY <1>6, <2>1 DEF Receive, OwnCall, Call, me
  <2>3. CASE k.nmess[t] > 0
    <3>1. k' = TakeMessage(k, t)
      BY <1>6, <2>1, <2>3 DEF Receive, me
    <3> QED BY <2>1, <2>2, <2>3, <3>1, TakingKeeps
  <2>4. CASE ~(k.nmess[t] > 0)
    <3>1. PICK x \in BOOLEAN : x = (name = "timed")
      OBVIOUS
    <3>2. PICK b : b = [k EXCEPT !.rtoep[t] = x]
      OBVIOUS
    <3>3. k' = WaitForMessage(b, t)
      BY <1>6, <2>1, <2>4, <3>1, <3>2 DEF Receive, me
    <3>4. IsTimedAs(b, k, t, x)
      BY <2>2, <3>2, IsTimed DEF Fine, FineFor
    <3>5. Timing(b, k, t) /\ (b.rtoep[t] => "timed" \in Calls)
      BY <2>2, <3>1, <3>4 DEF IsTimedAs, Timing
    <3> QED BY <2>1, <2>2, <2>4, <3>3, <3>5, WaitKeeps
  <2> QED BY <2>3, <2>4
<1>7. CASE ReceiveAgain
  <2>1. PICK t : t = k.htp
    OBVIOUS
  <2>2. t \in Tasks /\ k' = LooksAgain(k, t)
    BY <1>7, <2>1 DEF ReceiveAgain, me
  <2>3. CASE k.nmess[t] > 0
    <3>1. k' = TakeMessage(k, t)
      BY <2>2, <2>3 DEF LooksAgain
    <3> QED BY <2>1, <2>2, <2>3, <3>1, TakingKeeps
  <2>4. CASE ~(k.nmess[t] > 0)
    <3>1. k' = WaitForMessage(k, t)
      BY <2>2, <2>4 DEF LooksAgain
    <3>2. Timing(k, k, t)
      BY DEF Fine, FineFor, Timing, Edited, SameTask
    <3>3. k.rtoep[t] => "timed" \in Calls
      BY <2>2 DEF Fine, FineFor, WellOff, MessagesOf
    <3> QED BY <2>1, <2>2, <2>4, <3>1, <3>2, <3>3, WaitKeeps
  <2> QED BY <2>3, <2>4
<1>8. CASE OutsideRuns
  <2>1. PICK x \in {Driver, Outside} : x = Outside
    OBVIOUS
  <2>2. k.htp \in {Driver, Outside} /\ k' = [k EXCEPT !.htp = x]
    BY <1>8, <2>1 DEF OutsideRuns, me
  <2> QED BY <2>2, OutsideKeeps
<1>9. CASE OutsideBlocks
  <2>1. PICK x \in {Driver, Outside} : x = Driver
    OBVIOUS
  <2>2. k.htp \in {Driver, Outside} /\ k' = [k EXCEPT !.htp = x]
    BY <1>9, <2>1 DEF OutsideBlocks, me
  <2> QED BY <2>2, OutsideKeeps
<1> QED BY <1>2, <1>3, <1>4, <1>5, <1>6, <1>7, <1>8, <1>9

LEMMA ResumingKeeps ==
  ASSUME node \in Nodes, SyncsKeepCpus, NEW s, Fine(s), NEW u \in Tasks, s.st[u] = "suspended", NEW q, q = FindHost(s, u)
  PROVE  Fine(q) /\ q.abort = s.abort
<1>1. FineFor(s, Tasks, Hosts) /\ WellOff(s, u, Hosts) /\ Kernel(s)
  BY DEF Fine, FineFor
<1>2. Edited(s, s, u)
  BY <1>1 DEF Edited, SameTask
<1>3. s.tep[u] = None
  BY <1>1, StateNames DEF WellOff, Placed, EventsOf
<1>4. s.nmess[u] \in 0..MaxMessages+1
  BY <1>1 DEF WellOff, MessagesOf
<1>5. s.st[u] \in {"suspended", "sleeping", "receiving"} /\ s.st[u] # "receiving"
  OBVIOUS
<1> QED BY <1>2, <1>3, <1>4, <1>5, MovingOn

LEMMA AwakeningKeeps ==
  ASSUME node \in Nodes, SyncsKeepCpus, NEW s, Fine(s), NEW u \in Tasks, s.st[u] = "sleeping",
         NEW a, IsCancelledAs(a, s, u), NEW q, q = FindHost(a, u)
  PROVE  Fine(q) /\ q.abort = s.abort
<1>1. FineFor(s, Tasks, Hosts) /\ WellOff(s, u, Hosts) /\ Kernel(s)
  BY DEF Fine, FineFor
<1>4. s.nmess[u] \in 0..MaxMessages+1
  BY <1>1 DEF WellOff, MessagesOf
<1>5. s.st[u] \in {"suspended", "sleeping", "receiving"} /\ s.st[u] # "receiving"
  OBVIOUS
<1> QED BY <1>4, <1>5, MovingOn DEF IsCancelledAs

LEMMA OtherCallsKeep ==
  ASSUME node \in Nodes, SyncsKeepCpus, Fine(k), NEW u \in Tasks,
         \/ Send(u) \/ Suspend(u) \/ Resume(u) \/ Awaken(u) \/ Kill(u)
         \/ \E p \in Priorities : AdjustPriority(u, p) \/ Create(u, p)
  PROVE  Fine(k') /\ k'.abort = k.abort
<1>1. CASE Send(u)
  <2>1. k.nmess[u] <= MaxMessages
    <3>1. k.nmess[u] \in Int
      BY DEF Fine, FineFor, Kernel, Typed
    <3> QED BY <1>1, <3>1, NodesAssumption DEF Send
  <2>2. k' = PortSend(k, u)
    BY <1>1 DEF Send
  <2> QED BY <2>1, <2>2, PortSendKeeps
<1>2. CASE Suspend(u)
  <2>1. "suspend" \in Calls /\ k' = SuspendTask(k, u)
    BY <1>2 DEF Suspend, Call
  <2> QED BY <2>1, SuspendKeeps
<1>3. CASE Resume(u)
  <2>1. CASE k.st[u] = "suspended" /\ k' = FindHost(k, u)
    BY <2>1, ResumingKeeps
  <2>2. CASE k.st[u] = "syncSuspend" /\ k' = [k EXCEPT !.st[u] = "sync"]
    <3>1. PICK st \in Uninterruptible : st = "sync"
      BY DEF Uninterruptible
    <3>2. k.st[u] \in Uninterruptible /\ st # "syncFree" /\ st # "syncSuspend" /\ k' = [k EXCEPT !.st[u] = st]
      BY <2>2, <3>1 DEF Uninterruptible
    <3>3. (st = "syncFree" => "kill" \in Calls) /\ (st = "syncSuspend" => "suspend" \in Calls)
      BY <3>2
    <3> QED BY <3>2, <3>3, SyncStays
  <2> QED BY <1>3, <2>1, <2>2 DEF Resume
<1>4. CASE Awaken(u)
  <2>1. PICK a : a = [k EXCEPT !.tep[u] = None]
    OBVIOUS
  <2>2. k.st[u] = "sleeping" /\ k' = FindHost(a, u)
    BY <1>4, <2>1 DEF Awaken, CancelEvent
  <2>3. IsCancelledAs(a, k, u)
    BY <2>1, IsCancelled DEF Fine, FineFor
  <2> QED BY <2>2, <2>3, AwakeningKeeps
<1>5. CASE Kill(u)
  <2>1. "kill" \in Calls /\ k' = KillTask(k, u)
    BY <1>5 DEF Kill, Call
  <2> QED BY <2>1, KillKeeps
<1>6. ASSUME NEW p \in Priorities, AdjustPriority(u, p)
      PROVE  Fine(k') /\ k'.abort = k.abort
  <2>1. "priority" \in Calls /\ k.htp # Driver /\ (k.htp \in {Outside, Parent[u]} \/ u = k.htp) /\ k' = Adjusted(k, u, p)
    BY <1>6 DEF AdjustPriority, Call, Ancestor, me
  <2> QED BY <2>1, AdjustKeeps
<1>7. ASSUME NEW p \in Priorities, Create(u, p)
      PROVE  Fine(k') /\ k'.abort = k.abort
  <2>1. /\ k.st[u] = "free"
        /\ k' = [k EXCEPT !.st[u] = "suspended", !.pri[u] = p, !.hp[u] = AnyHost, !.rct[u] = FALSE, !.qx[u] = FALSE]
    BY <1>7 DEF Create, FreeEntry
  <2>2. PICK r : r = k'
    OBVIOUS
  <2>3. IsCreatedAs(r, k, u, p)
    BY <2>1, <2>2, IsCreated DEF Fine, FineFor
  <2>4. Fine(r) /\ r.abort = k.abort
    BY <2>1, <2>3, CreateKeeps
  <2> QED BY <2>2, <2>4
<1> QED BY <1>1, <1>2, <1>3, <1>4, <1>5, <1>6, <1>7

\* An event finds its task in the state in which it waits for it.
LEMMA EventsFit ==
  ASSUME NEW s, Fine(s), NEW t \in Tasks
  PROVE  /\ s.tep[t] \in {"END_BLOCK", "END_HOLD"} => s.st[t] = "blocked"
         /\ s.tep[t] = "END_COMPUTE" => s.st[t] = "computing"
         /\ s.tep[t] = "END_SLEEP" => s.st[t] = "sleeping"
         /\ s.tep[t] = "END_SYNC" => s.st[t] \in Uninterruptible
<1>1. s.tep[t] \in EventsOf(s.st[t])
  BY DEF Fine, FineFor, WellOff, Placed
<1> QED BY <1>1 DEF EventsOf, None

\* A task whose event came becomes hot.
LEMMA BecomingHot ==
  ASSUME node \in Nodes, NEW s, Fine(s), s.htp = Driver, NEW t \in Tasks, s.st[t] \in {"blocked", "computing"},
         NEW a, IsHotAs(a, s, t), NEW r,
         s.st[t] = "blocked" => r = a, s.st[t] # "blocked" => IsServedAs(r, a, t)
  PROVE  Fine(r) /\ r.abort = s.abort
<1>1. FineFor(s, Tasks, Hosts) /\ WellOff(s, t, Hosts) /\ Kernel(s)
  BY DEF Fine, FineFor
<1>2. IsHotAs(a, s, t)
  OBVIOUS
<1>3. s.st[t] \in OnCpu /\ s.st[t] \notin Uninterruptible /\ s.st[t] \notin {"free", "ready"}
  BY StateNames
<1>4. (QuantaEnd => ~s.qx[t]) /\ (Timely => ~s.rct[t] /\ (s.owed[t] => s.st[t] = "computing"))
  BY <1>1, <1>3 DEF WellOff, QuantaOf, TimeOf
<1>5. CASE s.st[t] = "blocked"
  <2>1. r = a /\ (Timely => ~r.owed[t] /\ ~r.rct[t])
    BY <1>2, <1>4, <1>5 DEF IsHotAs
  <2> QED BY <1>2, <1>3, <1>4, <2>1, WarmingUp
<1>6. CASE s.st[t] # "blocked"
  <2>1. IsServedAs(r, a, t)
    BY <1>6
  <2>2. Timely => ~r.owed[t] /\ ~r.rct[t]
    BY <1>2, <1>4, <2>1 DEF IsHotAs, IsServedAs
  <2> QED BY <1>2, <1>3, <1>4, <2>1, <2>2, WarmingUp
<1> QED BY <1>5, <1>6

LEMMA EndSyncKeeps ==
  ASSUME node \in Nodes, SyncsKeepCpus, Fine(k), NEW t \in Tasks, EndSync(t)
  PROVE  Fine(k') /\ k'.abort = k.abort
<1>1. PICK h : h = k.hp[t]
  OBVIOUS
<1>2. PICK a : a = [k EXCEPT !.tep[t] = None]
  OBVIOUS
<1>3. /\ k.htp = Driver /\ k.st[t] \in Uninterruptible /\ FineFor(k, Tasks, Hosts) /\ Kernel(k) /\ WellOff(k, t, Hosts)
      /\ k.pri[t] \in Int /\ k.qx[t] \in BOOLEAN
  <2>1. FineFor(k, Tasks, Hosts) /\ Kernel(k) /\ WellOff(k, t, Hosts)
    BY DEF Fine, FineFor
  <2>2. k.pri[t] \in Nat /\ k.qx[t] \in BOOLEAN
    BY <2>1, NodesAssumption DEF Kernel, Typed, NodeAssumption, Priorities
  <2>3. k.htp = Driver /\ k.tep[t] = "END_SYNC"
    BY DEF EndSync, Pending, me
  <2>4. k.st[t] \in Uninterruptible
    BY <2>3, EventsFit
  <2>5. k.pri[t] \in Int
    BY <2>2
  <2> QED BY <2>1, <2>2, <2>3, <2>4, <2>5
<1>4. IsCancelledAs(a, k, t)
  BY <1>2, <1>3, IsCancelled
<1>5. CASE k.st[t] = "syncSuspend"
  <2>1. k' = FindReady(Suspended(a, t), k.hp[t])
    BY <1>2, <1>5 DEF EndSync, Suspended
  <2> QED BY <1>4, <1>5, <2>1, SuspendAfterSync
<1>6. CASE k.st[t] = "syncFree"
  <2>1. k' = KillTask([a EXCEPT !.st[t] = "computing"], t)
    BY <1>2, <1>6 DEF EndSync
  <2>2. PICK r : r = k'
    OBVIOUS
  <2>3. Fine(r) /\ r.abort = k.abort
    BY <1>4, <1>6, <2>1, <2>2, KillAfterSync
  <2> QED BY <2>2, <2>3
<1>7. CASE k.st[t] = "sync" /\ k.qx[t]
  <2>1. PICK x \in BOOLEAN : x = FALSE
    OBVIOUS
  <2>2. PICK qx \in BOOLEAN : qx = TRUE
    OBVIOUS
  <2>3. PICK b : b = [a EXCEPT !.qx[t] = x]
    OBVIOUS
  <2>4. PICK p \in Int : p = k.pri[t] - 1
    BY <1>3
  <2>5. k' = FindPriority(b, k.hp[t], p, qx)
    BY <1>2, <1>7, <2>1, <2>2, <2>3, <2>4 DEF EndSync
  <2>6. IsMarkedAs(b, a, t, x)
    BY <1>4, <2>3, IsMarked DEF IsCancelledAs, Edited
  <2>7. /\ Edited(b, k, t) /\ b.htp = k.htp /\ b.st[t] = k.st[t] /\ b.pri[t] = k.pri[t] /\ b.hp[t] = k.hp[t] /\ b.tep[t] = None
        /\ b.rct[t] = k.rct[t] /\ b.rtoep[t] = k.rtoep[t] /\ b.qep[t] = k.qep[t] /\ b.quanta[t] = k.quanta[t]
        /\ b.nmess[t] = k.nmess[t] /\ b.owed[t] = k.owed[t] /\ ~b.qx[t]
    BY <1>4, <2>1, <2>6, EditedTwice DEF IsCancelledAs, IsMarkedAs
  <2>8. /\ Discipline = "PR" => p \in {k.pri[t], k.pri[t] - 1}
        /\ (qx => ~b.qx[t]) /\ k.qx[t] = qx /\ (qx \/ (Discipline = "PR" /\ b.qx[t] = k.qx[t]))
    BY <1>3, <1>7, <2>2, <2>4, <2>7
  <2> QED BY <1>3, <1>7, <2>5, <2>7, <2>8, SyncGivesWay
<1>8. CASE k.st[t] = "sync" /\ ~k.qx[t] /\ Discipline = "PR"
  <2>2. PICK qx \in BOOLEAN : qx = FALSE
    OBVIOUS
  <2>4. PICK p \in Int : p = k.pri[t]
    BY <1>3
  <2>5. k' = FindPriority(a, k.hp[t], p, qx)
    BY <1>2, <1>8, <2>2, <2>4 DEF EndSync
  <2>7. /\ Edited(a, k, t) /\ a.htp = k.htp /\ a.st[t] = k.st[t] /\ a.pri[t] = k.pri[t] /\ a.hp[t] = k.hp[t] /\ a.tep[t] = None
        /\ a.rct[t] = k.rct[t] /\ a.rtoep[t] = k.rtoep[t] /\ a.qep[t] = k.qep[t] /\ a.quanta[t] = k.quanta[t]
        /\ a.nmess[t] = k.nmess[t] /\ a.owed[t] = k.owed[t]
    BY <1>4 DEF IsCancelledAs
  <2>8. /\ Discipline = "PR" => p \in {k.pri[t], k.pri[t] - 1}
        /\ (qx => ~a.qx[t]) /\ k.qx[t] = qx /\ (qx \/ (Discipline = "PR" /\ a.qx[t] = k.qx[t]))
    BY <1>3, <1>4, <1>8, <2>2, <2>4 DEF IsCancelledAs
  <2> QED BY <1>3, <1>8, <2>5, <2>7, <2>8, SyncGivesWay
<1>9. CASE k.st[t] = "sync" /\ ~k.qx[t] /\ Discipline # "PR"
  <2>1. k' = MadeHot(a, t)
    BY <1>2, <1>9 DEF EndSync
  <2>2. PICK r : r = k'
    OBVIOUS
  <2>3. IsHotAs(r, a, t)
    BY <1>4, <2>1, <2>2, IsHot DEF IsCancelledAs, Edited
  <2>4. IsHotAs(r, k, t)
    BY <1>4, <2>3, EditedTwice DEF IsHotAs, IsCancelledAs
  <2>5. Timely => ~r.owed[t] /\ ~r.rct[t]
    BY <1>3, <1>9, <2>4 DEF WellOff, TimeOf, IsHotAs
  <2>6. k.st[t] \in OnCpu
    BY <1>3, StateNames
  <2>7. Fine(r) /\ r.abort = k.abort
    BY <1>3, <1>9, <2>4, <2>5, <2>6, WarmingUp
  <2> QED BY <2>2, <2>7
<1> QED BY <1>3, <1>5, <1>6, <1>7, <1>8, <1>9 DEF Uninterruptible

LEMMA EndQuantumKeeps ==
  ASSUME node \in Nodes, Fine(k), NEW t \in Tasks, EndQuantum(t)
  PROVE  Fine(k') /\ (EventsMatch => k'.abort = k.abort)
<1>1. PICK a : a = [k EXCEPT !.qep[t] = FALSE, !.quanta[t] = @ - 1]
  OBVIOUS
<1>2. k.htp = Driver /\ k.quanta[t] > 0 /\ FineFor(k, Tasks, Hosts) /\ HotIs(k) /\ Kernel(k) /\ WellOff(k, t, Hosts)
  BY DEF EndQuantum, me, Fine, FineFor
<1>3. IsQuantumOverAs(a, k, t)
  BY <1>1, <1>2, IsQuantumOver
<1>4. CASE k.st[t] = "computing"
  <2>1. PICK qx \in BOOLEAN : qx = (Discipline # "FIFO")
    OBVIOUS
  <2>2. k.pri[t] \in Nat
    BY <1>2, NodesAssumption DEF Kernel, Typed, NodeAssumption, Priorities
  <2>3. PICK p \in Int : p = GivesWayTo(t)
    <3>1. k.pri[t] - 1 \in Int /\ -1 \in Int
      BY <2>2
    <3> QED BY <3>1 DEF GivesWayTo
  <2>4. Discipline # "FIFO" => p = k.pri[t] - 1
    BY <2>3 DEF GivesWayTo
  <2>5. k' = FindPriority(a, k.hp[t], p, qx)
    BY <1>1, <1>4, <2>1, <2>3 DEF EndQuantum
  <2>6. Fine(k') /\ k'.abort = k.abort
    BY <1>2, <1>3, <1>4, <2>4, <2>5, QuantumGivesWay
  <2> QED BY <2>6
<1>5. CASE k.st[t] \in Uninterruptible
  <2>1. k' = [a EXCEPT !.qx[t] = TRUE]
    BY <1>1, <1>5 DEF EndQuantum, Uninterruptible
  <2>2. PICK r : r = k'
    OBVIOUS
  <2>3. PICK x \in BOOLEAN : x = TRUE
    OBVIOUS
  <2>4. IsMarkedAs(r, a, t, x)
    BY <1>3, <2>1, <2>2, <2>3, IsMarked DEF IsQuantumOverAs, Edited
  <2>5. Fine(r) /\ r.abort = k.abort
    BY <1>2, <1>3, <1>5, <2>4, QuantumMarks
  <2> QED BY <2>2, <2>5
<1>6. CASE k.st[t] # "computing" /\ k.st[t] \notin Uninterruptible
  <2>1. PICK why \in {"event", "quantum", "receive"} : why = "quantum"
    OBVIOUS
  <2>2. k' = [k EXCEPT !.abort = why]
    BY <1>6, <2>1 DEF EndQuantum, Abort, Uninterruptible
  <2>3. Fine(k')
    BY <2>2, AbortKeeps
  <2>4. ~EventsMatch
    <3>1. SUFFICES ASSUME EventsMatch
                   PROVE  FALSE
      OBVIOUS
    <3>2. Quantum /\ k.st[t] \in OnCpu /\ QuantaEnd
      BY <1>2, <3>1, QuantumIsDue DEF EventsMatch
    <3>3. k.st[t] # "hot"
      BY <1>2, StateNames DEF WellOff, Placed
    <3>4. k.st[t] = "blocked"
      BY <1>6, <3>2, <3>3 DEF OnCpu, Uninterruptible
    <3>5. k.tep[t] \in {"END_BLOCK", "END_HOLD"} /\ Legal(k.st[t], k.tep[t])
      BY <1>2, <3>4, StateNames DEF WellOff, Placed, EventsOf
    <3>6. k.tep[t] # "END_BLOCK"
      BY DEF EndQuantum, Timed
    <3> QED BY <3>1, <3>2, <3>5, <3>6 DEF Legal, EventsMatch
  <2> QED BY <2>3, <2>4
<1> QED BY <1>4, <1>5, <1>6

LEMMA EventsKeep ==
  ASSUME node \in Nodes, SyncsKeepCpus, Fine(k), NEW t \in Tasks, Event(t)
  PROVE  Fine(k') /\ (EventsMatch => k'.abort = k.abort)
<1>1. PICK a : a = MadeHot(k, t)
  OBVIOUS
<1>8. IsHotAs(a, k, t)
  BY <1>1, IsHot DEF Fine, FineFor
<1>2. CASE EndBlock(t)
  <2>1. k.htp = Driver /\ k.tep[t] \in {"END_BLOCK", "END_HOLD"}
    BY <1>2 DEF EndBlock, Pending, me
  <2>2. k.st[t] = "blocked"
    BY <2>1, EventsFit
  <2>3. k' = a
    BY <1>1, <1>2, <2>2 DEF EndBlock, Unless
  <2>4. k.st[t] \in {"blocked", "computing"}
    BY <2>2
  <2>5. Fine(k') /\ k'.abort = k.abort
    BY <1>8, <2>1, <2>2, <2>3, <2>4, BecomingHot
  <2> QED BY <2>5
<1>3. CASE EndCompute(t)
  <2>1. k.htp = Driver /\ k.tep[t] = "END_COMPUTE"
    BY <1>3 DEF EndCompute, Pending, me
  <2>2. k.st[t] = "computing"
    BY <2>1, EventsFit
  <2>3. k' = [a EXCEPT !.owed[t] = FALSE]
    BY <1>1, <1>3, <2>2 DEF EndCompute, Unless
  <2>4. k.st[t] \in {"blocked", "computing"} /\ k.st[t] # "blocked"
    BY <2>2
  <2>5. PICK r : r = k'
    OBVIOUS
  <2>6. IsServedAs(r, a, t)
    BY <1>8, <2>3, <2>5, IsServed DEF IsHotAs, Edited
  <2>7. Fine(r) /\ r.abort = k.abort
    BY <1>8, <2>1, <2>4, <2>6, BecomingHot
  <2> QED BY <2>5, <2>7
<1>4. CASE EndSleep(t)
  <2>1. PICK b : b = [k EXCEPT !.tep[t] = None]
    OBVIOUS
  <2>2. k.st[t] = "sleeping"
    BY <1>4, EventsFit DEF EndSleep, Pending
  <2>3. k' = FindHost(b, t)
    BY <1>4, <2>1, <2>2 DEF EndSleep, Unless
  <2>4. IsCancelledAs(b, k, t)
    BY <2>1, IsCancelled DEF Fine, FineFor
  <2> QED BY <2>2, <2>3, <2>4, AwakeningKeeps
<1>5. CASE EndReceive(t)
  <2>1. k.rtoep[t] /\ WellOff(k, t, Hosts)
    BY <1>5 DEF EndReceive, Fine, FineFor
  <2>2. CASE k.st[t] = "receiving"
    <3>1. PICK x \in BOOLEAN : x = FALSE
      OBVIOUS
    <3>2. PICK b : b = [k EXCEPT !.rtoep[t] = x]
      OBVIOUS
    <3>3. k' = PortSend(b, t)
      BY <1>5, <2>2, <3>1, <3>2 DEF EndReceive, Unless
    <3>4. Fine(b) /\ b.abort = k.abort /\ b.nmess[t] = k.nmess[t]
      <4>1. IsTimedAs(b, k, t, x)
        BY <3>2, IsTimed DEF Fine, FineFor
      <4> QED BY <3>1, <4>1, TimedOut
    <3>5. b.nmess[t] <= MaxMessages
      BY <2>1, <2>2, <3>4, NodesAssumption DEF WellOff, MessagesOf
    <3>6. Fine(k') /\ k'.abort = b.abort
      BY <3>3, <3>4, <3>5, PortSendKeeps
    <3> QED BY <3>4, <3>6
  <2>3. CASE k.st[t] # "receiving"
    <3>1. PICK why \in {"event", "quantum", "receive"} : why = "receive"
      OBVIOUS
    <3>2. k' = [k EXCEPT !.abort = why]
      BY <1>5, <2>3, <3>1 DEF EndReceive, Unless, Abort
    <3>3. Fine(k')
      BY <3>2, AbortKeeps
    <3>4. ~EventsMatch
      BY <2>1, <2>3 DEF WellOff, MessagesOf, EventsMatch, Both
    <3> QED BY <3>3, <3>4
  <2> QED BY <2>2, <2>3
<1>6. CASE EndSync(t)
  BY <1>6, EndSyncKeeps
<1>7. CASE EndQuantum(t)
  BY <1>7, EndQuantumKeeps
<1> QED BY <1>2, <1>3, <1>4, <1>5, <1>6, <1>7 DEF Event

LEMMA StepKeeps ==
  ASSUME node \in Nodes, SyncsKeepCpus, Fine(k), Next
  PROVE  Fine(k') /\ (EventsMatch => k'.abort = k.abort)
  BY OwnCallsKeep, OtherCallsKeep, EventsKeep DEF Next

-----------------------------------------------------------------------------
\* The node does not change, so what holds of the next state of the kernel now
\* holds in the next state.
LEMMA FineNext ==
  ASSUME node' = node, Fine(k')
  PROVE  Fine(k)'
<1>1. /\ Hosts' = Hosts /\ Discipline' = Discipline /\ Quantum' = Quantum /\ Calls' = Calls /\ Bound' = Bound
      /\ Priorities' = Priorities
  BY DEF Hosts, NCPU, Discipline, Quantum, Calls, Bound, Priorities
<1>2. (Roams' <=> Roams) /\ (QuantaEnd' <=> QuantaEnd) /\ (NoRaises' <=> NoRaises)
  BY <1>1 DEF Roams, QuantaEnd, NoRaises, Both
<1>3. (Timely' <=> Timely) /\ (Exchangeable' <=> Exchangeable)
  BY <1>1, <1>2 DEF Timely, Exchangeable
<1>4. FineFor(k', Tasks, Hosts) /\ Kernel(k') /\ QueueOK(k') /\ HotIs(k')
  BY DEF Fine, FineFor
<1>5. Kernel(k)'
  <2>1. Shape(k)'
    BY <1>4 DEF Kernel, Shape
  <2>2. Typed(k)'
    BY <1>1, <1>4 DEF Kernel, Typed
  <2> QED BY <2>1, <2>2 DEF Kernel
<1>6. QueueOK(k)' /\ HotIs(k)'
  BY <1>1, <1>4 DEF QueueOK, Sorted, HotIs
<1>7. ASSUME NEW t \in Tasks
      PROVE  WellOff(k, t, Hosts)'
  <2>1. Placed(k', t, Hosts) /\ MessagesOf(k', t) /\ (QuantaEnd => QuantaOf(k', t)) /\ (Timely => TimeOf(k', t))
    BY <1>4 DEF FineFor, WellOff
  <2>2. Placed(k, t, Hosts)'
    <3>1. CpuOf(k, t, Hosts)'
      BY <1>1, <2>1 DEF Placed, CpuOf
    <3>2. k'.tep[t] \in EventsOf(k.st[t])'
      BY <1>1, <2>1 DEF Placed, EventsOf
    <3>3. Legal(k.st[t], k.tep[t])'
      BY <1>1, <2>1 DEF Placed, Legal
    <3> QED BY <2>1, <3>1, <3>2, <3>3 DEF Placed
  <2>3. MessagesOf(k, t)'
    BY <1>1, <2>1 DEF MessagesOf
  <2>4. QuantaEnd' => QuantaOf(k, t)'
    BY <1>1, <1>2, <2>1 DEF QuantaOf
  <2>5. Timely' => TimeOf(k, t)'
    BY <1>3, <2>1 DEF TimeOf
  <2> QED BY <2>2, <2>3, <2>4, <2>5 DEF WellOff
<1>8. ASSUME Exchangeable', NEW h \in Hosts
      PROVE  UsedWell(k, h)'
  <2>1. UsedWell(k', h)
    BY <1>3, <1>4, <1>8 DEF FineFor
  <2> QED BY <1>1, <2>1 DEF UsedWell, Serves, MayRunOn
<1>9. FineFor(k, Tasks, Hosts)'
  BY <1>1, <1>5, <1>6, <1>7, <1>8 DEF FineFor
<1> QED BY <1>6, <1>9 DEF Fine

LEMMA StartsWell == Init => IInv
<1> SUFFICES ASSUME Init
             PROVE  node \in Nodes /\ Fine(k) /\ k.abort = None
  BY DEF IInv, Inv
<1>1. PICK p \in [Tasks -> Priorities] :
        k = [htp |-> Outside, run |-> [h \in Hosts |-> None], rtrq |-> <<>>, abort |-> None,
             st |-> [t \in Tasks |-> "suspended"], pri |-> p,
             hp |-> [t \in Tasks |-> AnyHost], tep |-> [t \in Tasks |-> None],
             rct |-> [t \in Tasks |-> FALSE], rtoep |-> [t \in Tasks |-> FALSE],
             qep |-> [t \in Tasks |-> FALSE], quanta |-> [t \in Tasks |-> 0],
             qx |-> [t \in Tasks |-> FALSE], nmess |-> [t \in Tasks |-> 0],
             inReceive |-> [t \in Tasks |-> FALSE], owed |-> [t \in Tasks |-> FALSE]]
  BY DEF Init
<1>2. node \in Nodes /\ k.abort = None
  BY <1>1 DEF Init
<1>3. Kernel(k)
  <2>1. Shape(k)
    BY <1>1 DEF Shape
  <2>2. Typed(k)
    BY <1>1 DEF Typed, States, Events, None
  <2> QED BY <2>1, <2>2 DEF Kernel
<1>4. Range(k.rtrq) = {} /\ DOMAIN k.rtrq = {}
  BY <1>1 DEF Range
<1>5. QueueOK(k) /\ HotIs(k)
  BY <1>1, <1>4, StateNames DEF QueueOK, IsInjective, Sorted, HotIs
<1>6. ASSUME NEW t \in Tasks
      PROVE  WellOff(k, t, Hosts)
  <2>1. k.st[t] = "suspended" /\ k.tep[t] = None /\ ~k.rtoep[t] /\ ~k.qep[t] /\ ~k.qx[t] /\ ~k.owed[t] /\ ~k.rct[t]
    BY <1>1
  <2>2. CpuOf(k, t, Hosts)
    BY <1>1, <2>1, StateNames DEF CpuOf
  <2>3. Placed(k, t, Hosts)
    BY <1>4, <2>1, <2>2, StateNames DEF Placed, EventsOf, Legal, None
  <2>4. k.nmess[t] = 0 /\ k.quanta[t] = 0
    BY <1>1
  <2>5. MessagesOf(k, t)
    BY <2>1, <2>4, NodesAssumption DEF MessagesOf
  <2> QED BY <2>1, <2>3, <2>4, <2>5 DEF WellOff, QuantaOf, TimeOf
<1>7. \A h \in Hosts : UsedWell(k, h)
  BY <1>4 DEF UsedWell
<1> QED BY <1>2, <1>3, <1>5, <1>6, <1>7 DEF Fine, FineFor

LEMMA Inductive == IInv /\ [Next]_vars => IInv'
<1> SUFFICES ASSUME IInv, [Next]_vars
             PROVE  IInv'
  OBVIOUS
<1>1. node' = node /\ node \in Nodes
  BY DEF Next, vars, IInv
<1>2. (SyncsKeepCpus' <=> SyncsKeepCpus) /\ (EventsMatch' <=> EventsMatch)
  BY <1>1 DEF SyncsKeepCpus, EventsMatch, QuantaEnd, Roams, Both, Discipline, Quantum, Calls, Bound
<1>3. ASSUME SyncsKeepCpus
      PROVE  Fine(k') /\ (EventsMatch => k'.abort = None)
  <2>1. Fine(k) /\ (EventsMatch => k.abort = None)
    BY <1>3 DEF IInv, Inv
  <2>2. CASE Next
    BY <1>1, <1>3, <2>1, <2>2, StepKeeps
  <2>3. CASE UNCHANGED vars
    BY <2>1, <2>3 DEF vars
  <2> QED BY <2>2, <2>3
<1>4. ASSUME SyncsKeepCpus
      PROVE  Fine(k)'
  BY <1>1, <1>3, <1>4, FineNext
<1> QED BY <1>1, <1>2, <1>3, <1>4 DEF IInv, Inv

-----------------------------------------------------------------------------
\* The invariant holds of every node, whatever its tasks call and however the
\* calls and the events of the calendar are interleaved.
THEOREM Invariant == Spec => []IInv
<1>1. Init => IInv
  BY StartsWell
<1>2. IInv /\ [Next]_vars => IInv'
  BY Inductive
<1> QED BY <1>1, <1>2, PTL DEF Spec

LEMMA IsConsistent == IInv /\ SyncsKeepCpus => CpusAgree /\ QueueIsReady
<1> SUFFICES ASSUME IInv, SyncsKeepCpus
             PROVE  CpusAgree /\ QueueIsReady
  OBVIOUS
<1>1. FineFor(k, Tasks, Hosts) /\ HotIs(k) /\ Typed(k) /\ QueueOK(k)
  BY DEF IInv, Inv, Fine, FineFor, Kernel
<1>2. ASSUME NEW t \in Tasks
      PROVE  /\ k.st[t] \in OnCpu <=> \E h \in Hosts : k.run[h] = t
             /\ k.st[t] \in OnCpu => k.run[k.hp[t]] = t
             /\ k.st[t] = "hot" <=> k.htp = t
             /\ t \in Range(k.rtrq) <=> k.st[t] = "ready"
  <2>1. /\ CpuOf(k, t, Hosts) /\ (t \in Range(k.rtrq) <=> k.st[t] = "ready")
        /\ k.st[t] = "hot" => k.htp = t
    BY <1>1 DEF FineFor, WellOff, Placed
  <2>2. k.htp = t => k.st[t] = "hot"
    BY <1>1 DEF HotIs
  <2>3. k.st[t] \in OnCpu => k.hp[t] \in Hosts /\ k.run[k.hp[t]] = t
    BY <2>1 DEF CpuOf
  <2>4. (\E h \in Hosts : k.run[h] = t) => k.st[t] \in OnCpu
    BY <2>1 DEF CpuOf
  <2>5. k.st[t] \in OnCpu <=> \E h \in Hosts : k.run[h] = t
    BY <2>3, <2>4
  <2> QED BY <2>1, <2>2, <2>3, <2>5
<1>3. CpusAgree
  <2> SUFFICES ASSUME NEW t \in Tasks
               PROVE  /\ (k.st[t] \in OnCpu) = (\E h \in Hosts : k.run[h] = t)
                      /\ k.st[t] \in OnCpu => k.run[k.hp[t]] = t
                      /\ (k.st[t] = "hot") = (k.htp = t)
    BY Zenon DEF CpusAgree
  <2>1. (k.st[t] \in OnCpu) = (\E h \in Hosts : k.run[h] = t)
    <3> DEFINE A == k.st[t] \in OnCpu
               B == \E h \in Hosts : k.run[h] = t
    <3>1. A <=> B
      BY <1>2
    <3>2. A \in BOOLEAN /\ B \in BOOLEAN
      OBVIOUS
    <3> HIDE DEF A, B
    <3>3. A = B
      BY <3>1, <3>2
    <3> QED BY <3>3 DEF A, B
  <2>2. (k.st[t] = "hot") = (k.htp = t)
    BY <1>2, Zenon
  <2> QED BY <1>2, <2>1, <2>2, Zenon
<1>4. Range(k.rtrq) \subseteq Tasks
  <2>1. k.rtrq \in Seq(Tasks)
    BY <1>1 DEF Typed
  <2> QED BY <2>1, RangeOfSeq
<1>5. Range(k.rtrq) = {t \in Tasks : k.st[t] = "ready"}
  BY <1>2, <1>4
<1>6. QueueIsReady
  BY <1>1, <1>5 DEF QueueIsReady, QueueOK, Sorted
<1> QED BY <1>3, <1>6

LEMMA IsTyped == IInv /\ SyncsKeepCpus /\ QuantaEnd => TypeOK
<1> SUFFICES ASSUME IInv, SyncsKeepCpus, QuantaEnd
             PROVE  TypeOK
  OBVIOUS
<1>1. node \in Nodes /\ Typed(k)
  BY DEF IInv, Inv, Fine, FineFor, Kernel
<1>2. ASSUME NEW t \in Tasks
      PROVE  k.quanta[t] \in 0..2 /\ k.nmess[t] \in 0..MaxMessages+1
  <2>1. WellOff(k, t, Hosts)
    BY DEF IInv, Inv, Fine, FineFor
  <2> QED BY <2>1 DEF WellOff, QuantaOf, MessagesOf
<1>3. k.quanta \in [Tasks -> 0..2] /\ k.nmess \in [Tasks -> 0..MaxMessages+1]
  BY <1>1, <1>2 DEF Typed
<1> QED BY <1>1, <1>3 DEF Typed, TypeOK

\* Whatever the tasks call, every cpu is run by the one task that believes to
\* have it, and the ready-to-run queue holds the ready tasks in order: find_host,
\* find_ready and find_priority lose no task, no cpu and no order (but where a
\* killed task that still syncs may lose its cpu to one that is bound to it).
THEOREM CpusAndQueueAgree == Spec => [](SyncsKeepCpus => CpusAgree /\ QueueIsReady)
  BY Invariant, IsConsistent, PTL

\* And on the nodes where a task never leaves its cpu with a quantum event left,
\* all of the kernel's tables are consistent, with at most one quantum event for
\* each task.
THEOREM KernelConsistent == Spec => [](SyncsKeepCpus /\ QuantaEnd => Consistent)
<1>1. IInv /\ SyncsKeepCpus /\ QuantaEnd => Consistent
  BY IsConsistent, IsTyped DEF Consistent
<1> QED BY <1>1, Invariant, PTL

\* On nodes whose tasks may run on any cpu, or which never take a cpu away, no cpu
\* idles beside a task that may run on it, and no interruptible task of a preemptive
\* node keeps a cpu from a task of higher priority.
THEOREM CpusGoToTheRightTasks == Spec => [](Exchangeable => CpusWellUsed)
<1>1. ASSUME IInv, Exchangeable
      PROVE  CpusWellUsed
  <2>1. SyncsKeepCpus
    BY <1>1 DEF Exchangeable, SyncsKeepCpus
  <2>2. FineFor(k, Tasks, Hosts)
    BY <1>1, <2>1 DEF IInv, Inv, Fine
  <2>3. ASSUME NEW t \in Tasks, k.st[t] = "ready", NEW h \in Hosts
        PROVE  Serves(k, h, t)
    <3>1. t \in Range(k.rtrq)
      BY <2>2, <2>3 DEF FineFor, WellOff, Placed
    <3> QED BY <1>1, <2>2, <3>1 DEF FineFor, UsedWell
  <2>4. WorkConserving
    BY <2>3 DEF WorkConserving, Serves
  <2>5. HighestRuns
    BY <2>3 DEF HighestRuns, Serves
  <2> QED BY <2>4, <2>5 DEF CpusWellUsed
<1> QED BY <1>1, Invariant, PTL

\* On nodes where no event can be due for a task that was suspended or put on hold
\* in the meantime, no handler finds its task in a state it does not expect: sleep,
\* receive, kill, preemption and the end of a quantum leave no stale event behind.
THEOREM NoStaleEvent == Spec => [](SyncsKeepCpus /\ EventsMatch => NoAbort)
<1>1. IInv /\ SyncsKeepCpus /\ EventsMatch => NoAbort
  BY DEF IInv, Inv, NoAbort, Running
<1> QED BY <1>1, Invariant, PTL

\* A task that gave up its cpu, or that keeps it without computing, has an event or a
\* message to come, on every node without both syncs and quanta.
THEOREM EveryTaskHasItsWaker == Spec => [](SyncsKeepCpus => NoneForgotten)
<1>1. ASSUME IInv, SyncsKeepCpus
      PROVE  NoneForgotten
  <2>1. SUFFICES ASSUME ~(Quantum /\ "sync" \in Calls), NEW t \in Tasks
                 PROVE  /\ k.st[t] \in {"computing", "blocked", "sleeping", "sync", "syncSuspend", "syncFree"}
                             => k.tep[t] # None
                        /\ k.st[t] = "receiving" => k.nmess[t] = 0
    BY DEF NoneForgotten, WakersExist
  <2>2. WellOff(k, t, Hosts)
    BY <1>1 DEF IInv, Inv, Fine, FineFor
  <2>3. k.st[t] \in Uninterruptible => ~Quantum
    BY <2>1, <2>2 DEF WellOff, Placed, Legal
  <2>4. k.tep[t] \in EventsOf(k.st[t])
    BY <2>2 DEF WellOff, Placed
  <2>5. k.st[t] \in {"computing", "blocked", "sleeping"} => k.tep[t] # None
    BY <2>4, StateNames DEF EventsOf, None
  <2>6. k.st[t] \in Uninterruptible => k.tep[t] # None
    BY <2>3, <2>4 DEF EventsOf, Uninterruptible, None
  <2> QED BY <2>2, <2>5, <2>6 DEF WellOff, MessagesOf, Uninterruptible
<1> QED BY <1>1, Invariant, PTL

\* However often a computation is preempted, gives way or has its quantum ended, the
\* task goes on only when it has had all of its time (unless tasks are suspended, or a
\* task raises the priority of its sons above its own).
THEOREM NoTimeIsLost == Spec => [](SyncsKeepCpus /\ NoRaises => PreemptionKeepsTime)
<1>1. ASSUME IInv, SyncsKeepCpus, NoRaises
      PROVE  PreemptionKeepsTime
  <2>1. SUFFICES ASSUME "suspend" \notin Calls, NEW t \in Tasks, k.st[t] = "hot"
                 PROVE  ~k.owed[t]
    BY DEF PreemptionKeepsTime, ComputesFully
  <2>2. TimeOf(k, t)
    BY <1>1, <2>1 DEF IInv, Inv, Fine, FineFor, WellOff, Timely
  <2> QED BY <2>1, <2>2 DEF TimeOf
<1> QED BY <1>1, Invariant, PTL

-----------------------------------------------------------------------------
(***************************************************************************)
(* Semaphores, on top of the scheduler: for every number of tasks and cpus *)
(* and every use of the semaphore.  A wait, a signal and a reset hand cpus *)
(* on in the middle of the call, so the invariant relates any state s of   *)
(* the kernel to any state m of the semaphore.                             *)
(***************************************************************************)

\* A task that resets the semaphore does not lose its cpu to one it resumes.
ResetsUndisturbed == "reset" \in node.sem => Discipline # "PR"

SemRecords ==
  [count : Int, queue : Seq(Tasks), by : Tasks \cup {Outside, None}, next : Nat, holders : SUBSET Tasks]

\* The waiters that nobody has resumed yet are suspended; the one that resets the
\* semaphore is hot, and nothing else happens to the semaphore meanwhile.
InLine(s, m) ==
  /\ m \in SemRecords /\ IsInjective(m.queue)
  /\ \A i \in DOMAIN m.queue : i >= m.next => s.st[m.queue[i]] = "suspended"
  /\ m.by = None => m.next = 0 /\ Len(m.queue) = IF m.count < 0 THEN 0 - m.count ELSE 0
  /\ m.by # None =>
       /\ m.by = s.htp /\ (m.by = Outside \/ Discipline # "PR")
       /\ m.count >= 0 /\ m.next \in 1..Len(m.queue)+1
  /\ Lock =>
       /\ m.by = None
       /\ (m.count = 1 /\ m.holders = {}) \/ (m.count <= 0 /\ \E t \in Tasks : m.holders = {t})

\* All is well with the kernel and the semaphore.
Orderly(s, m) == Fine(s) /\ InLine(s, m)

\* An invariant that is inductive.
SemInv ==
  /\ node \in Nodes
  /\ SyncsKeepCpus /\ ResetsUndisturbed => Orderly(k, sem) /\ (EventsMatch => k.abort = None)

-----------------------------------------------------------------------------
\* What the scheduler does to suspended tasks.

\* A cpu that is free goes to a ready task, so that the suspended ones stay suspended.
LEMMA FindReadyWakesNone ==
  ASSUME NEW s, Kernel(s), QueueOK(s), NEW h \in Hosts, \A u \in Range(s.rtrq) : s.st[u] # "suspended",
         NEW r, r = FindReady(s, h)
  PROVE  \A u \in Tasks : s.st[u] = "suspended" => r.st[u] = "suspended"
<1> DEFINE c == Cooled(s)
           fit == Fitting(c, h)
           i == CHOOSE i \in fit : \A j \in fit : i <= j
<1>0. r = IF fit = {} THEN [c EXCEPT !.run[h] = None] ELSE Start([c EXCEPT !.rtrq = RemoveAt(@, i)], c.rtrq[i], h)
  BY DEF FindReady
<1>1. Kernel(c) /\ c.rtrq = s.rtrq /\ c.st = s.st
  BY IsCooled
<1> HIDE DEF c
<1>2. Shape(c) /\ Typed(c) /\ QueueOK(c)
  <2>1. c.pri = s.pri
    BY IsCooled DEF Untouched, c
  <2> QED BY <1>1, <2>1 DEF Kernel, QueueOK, Sorted
<1>3. CASE fit = {}
  <2>1. r.st = c.st
    BY <1>0, <1>2, <1>3 DEF Shape
  <2> QED BY <1>1, <2>1
<1>4. CASE fit # {}
  <2>1. c.rtrq \in Seq(Tasks) /\ DOMAIN c.rtrq \subseteq Nat
    BY <1>2, LenProperties DEF Typed
  <2>2. fit \in SUBSET Nat
    BY <2>1 DEF Fitting
  <2>3. i \in fit
    <3>1. \E n \in fit : \A j \in fit : n <= j
      <4> HIDE DEF fit
      <4> QED BY <1>4, <2>2, LeastExists
    <3> QED BY <3>1
  <2> HIDE DEF i
  <2>4. i \in DOMAIN c.rtrq /\ c.rtrq[i] \in Tasks
    BY <2>1, <2>3, ElementOfSeq, LenProperties DEF Fitting
  <2>5. PICK t \in Tasks : t = c.rtrq[i]
    BY <2>4
  <2>6. PICK d : d = Without(c, i)
    OBVIOUS
  <2>7. Kernel(d) /\ d.st = c.st
    BY <1>1, <1>2, <2>4, <2>6, IsRemoved
  <2>8. r = Start(d, t, h)
    BY <1>0, <1>4, <2>5, <2>6 DEF Without
  <2>9. StartedAs(r, d, t, h)
    BY <2>7, <2>8, IsStarted
  <2>10. \A u \in Tasks \ {t} : r.st[u] = s.st[u]
    BY <1>1, <1>2, <2>7, <2>9 DEF StartedAs, Typed
  <2>11. s.st[t] # "suspended"
    BY <1>1, <2>4, <2>5 DEF Range
  <2> QED BY <2>10, <2>11
<1> QED BY <1>3, <1>4

\* A task that is given to find_host wakes no other one; and where it takes no cpu
\* from the hot task, that one stays hot.
LEMMA FindHostWakesNone ==
  ASSUME node \in Nodes, SyncsKeepCpus, NEW s, NEW t \in Tasks, MayMove(s, t), NEW r, r = FindHost(s, t)
  PROVE  /\ \A u \in Tasks \ {t} : s.st[u] = "suspended" => r.st[u] = "suspended"
         /\ s.htp # Driver /\ (s.htp = Outside \/ Discipline # "PR") => r.htp = s.htp
<1>1. Typed(s) /\ Kernel(s)
  BY DEF MayMove, FineFor, Kernel
<1>2. CASE IdleFor(s, t) # {}
  <2>1. IdleFor(s, t) \in SUBSET Nat
    BY DEF IdleFor, Hosts
  <2>2. PICK n \in IdleFor(s, t) : \A g \in IdleFor(s, t) : n <= g
    BY <1>2, <2>1, LeastExists
  <2>3. PICK h \in IdleFor(s, t) : r = Start(s, t, h)
    <3> DEFINE h == CHOOSE h \in IdleFor(s, t) : \A g \in IdleFor(s, t) : h <= g
    <3>1. h \in IdleFor(s, t)
      BY <2>2
    <3>2. r = Start(s, t, h)
      BY <1>2 DEF FindHost
    <3> QED BY <3>1, <3>2
  <2>4. h \in Hosts
    BY DEF IdleFor
  <2>5. StartedAs(r, s, t, h)
    BY <1>1, <2>3, <2>4, IsStarted
  <2> QED BY <1>1, <2>5 DEF StartedAs, Typed
<1>3. CASE IdleFor(s, t) = {} /\ Discipline = "PR" /\ Preemptable(s, t) # {}
  <2>1. PICK h : h = Victim(s, t)
    OBVIOUS
  <2>2. PICK p : p = s.run[h]
    OBVIOUS
  <2>3. h \in Hosts /\ p \in Tasks \ {t} /\ s.st[p] \in {"hot", "computing", "blocked"}
    BY <1>3, <2>1, <2>2, VictimExists DEF MayMove
  <2>4. PICK e : e = Evicted(s, p)
    OBVIOUS
  <2>5. PICK b : b = Ready(e, p, FALSE)
    OBVIOUS
  <2>6. (s.st[p] = "hot" => r = HotOn(b, t, h)) /\ (s.st[p] # "hot" => r = Start(b, t, h))
    <3>1. r = Preempt(s, t, h)
      BY <1>3, <2>1 DEF FindHost
    <3>2. /\ Kernel(s) /\ p \in Tasks /\ p = s.run[h] /\ s.st[p] \in {"hot", "computing", "blocked"}
          /\ b = BackInQueue(s, p) /\ r = Preempt(s, t, h)
      BY <1>1, <2>2, <2>3, <2>4, <2>5, <3>1 DEF BackInQueue
    <3>3. s.st[p] = "hot" => r = HotOn(b, t, h)
      BY <3>2, IsPreempted
    <3>4. s.st[p] # "hot" => r = Start(b, t, h)
      BY <3>2, IsPreempted
    <3> QED BY <3>3, <3>4
  <2>7. Kernel(e) /\ e.st = s.st /\ e.htp = s.htp
    <3>1. PICK T : T = Tasks \ {t}
      OBVIOUS
    <3>2. T \subseteq Tasks /\ FineFor(s, T, Hosts) /\ p \in T
      BY <2>3, <3>1 DEF MayMove
    <3>3. EvictedAs(e, s, T, p, h)
      BY <2>2, <2>3, <2>4, <3>2, IsEvicted
    <3> QED BY <3>3 DEF EvictedAs, FineFor
  <2>8. Kernel(b) /\ b.st = [s.st EXCEPT ![p] = "ready"] /\ b.htp = s.htp
    <3>1. ReadyAs(b, e, p)
      BY <2>3, <2>5, <2>7, IsReady
    <3> QED BY <2>7, <3>1 DEF ReadyAs
  <2>9. \A u \in Tasks \ {t, p} : b.st[u] = s.st[u]
    BY <1>1, <2>8 DEF Typed
  <2>10. CASE s.st[p] = "hot"
    <3>1. r.st = [b.st EXCEPT ![t] = "hot"]
      BY <2>6, <2>8, <2>10 DEF HotOn, Kernel, Shape
    <3>2. \A u \in Tasks \ {t, p} : r.st[u] = s.st[u]
      BY <2>8, <2>9, <3>1 DEF Kernel, Typed
    <3>3. s.htp = p
      BY <2>3, <2>10 DEF MayMove, FineFor, WellOff, Placed
    <3> QED BY <1>3, <2>3, <2>10, <3>2, <3>3, StateNames
  <2>11. CASE s.st[p] # "hot"
    <3>1. StartedAs(r, b, t, h)
      BY <2>3, <2>6, <2>8, <2>11, IsStarted
    <3>2. \A u \in Tasks \ {t, p} : r.st[u] = s.st[u]
      BY <2>8, <2>9, <3>1 DEF StartedAs, Kernel, Typed
    <3>3. s.htp # Driver => r.htp = s.htp
      BY <2>8, <3>1 DEF StartedAs
    <3> QED BY <2>3, <3>2, <3>3
  <2> QED BY <2>10, <2>11
<1>4. CASE IdleFor(s, t) = {} /\ ~(Discipline = "PR" /\ Preemptable(s, t) # {})
  <2>1. r = Ready(s, t, TRUE)
    BY <1>4 DEF FindHost
  <2>2. ReadyAs(r, s, t)
    BY <1>1, <2>1, IsReady
  <2> QED BY <1>1, <2>2 DEF ReadyAs, Typed
<1> QED BY <1>2, <1>3, <1>4

LEMMA CanResume ==
  ASSUME NEW s, Fine(s), NEW u \in Tasks, s.st[u] = "suspended"
  PROVE  MayMove(s, u)
<1>1. FineFor(s, Tasks, Hosts) /\ HotIs(s) /\ WellOff(s, u, Hosts) /\ s.st[u] \notin OnCpu
  BY StateNames DEF Fine, FineFor
<1>2. FineFor(s, Tasks \ {u}, Hosts)
  BY <1>1 DEF FineFor
<1>3. s.htp # u
  BY <1>1 DEF HotIs
<1>4. Moving(s, u, Hosts)
  <2>1. (\A h \in Hosts : s.run[h] # u) /\ u \notin Range(s.rtrq)
    BY <1>1 DEF WellOff, Placed, CpuOf
  <2>2. s.tep[u] = None
    BY <1>1, StateNames DEF WellOff, Placed, EventsOf
  <2>3. s.nmess[u] \in 0..MaxMessages+1 /\ (s.rtoep[u] => "timed" \in Calls /\ "suspend" \in Calls)
    BY <1>1 DEF WellOff, MessagesOf
  <2>4. QuantaEnd => s.quanta[u] = 0 /\ ~s.qep[u] /\ ~s.qx[u]
    BY <1>1, StateNames DEF WellOff, QuantaOf
  <2>5. Timely => (s.owed[u] => s.rct[u])
    BY <1>1 DEF WellOff, TimeOf
  <2> QED BY <2>1, <2>2, <2>3, <2>4, <2>5 DEF Moving
<1>5. Timely => ~s.rct[u]
  BY <1>1 DEF WellOff, TimeOf
<1> QED BY <1>1, <1>2, <1>3, <1>4, <1>5 DEF MayMove

\* ps_resume of a suspended task.
LEMMA ResumedWell ==
  ASSUME node \in Nodes, SyncsKeepCpus, NEW s, Fine(s), NEW t \in Tasks, s.st[t] = "suspended", NEW r, r = Resumed(s, t)
  PROVE  /\ Fine(r) /\ r.abort = s.abort
         /\ \A u \in Tasks \ {t} : s.st[u] = "suspended" => r.st[u] = "suspended"
         /\ s.htp # Driver /\ (s.htp = Outside \/ Discipline # "PR") => r.htp = s.htp
<1>1. r = FindHost(s, t)
  BY DEF Resumed
<1>2. MayMove(s, t)
  BY CanResume
<1> QED BY <1>1, <1>2, FindHostKeeps, FindHostWakesNone

\* The hot task suspends itself in its wait, whether or not tasks call ps_suspend.
LEMMA HotSuspends ==
  ASSUME node \in Nodes, NEW s, Fine(s), NEW t \in Tasks, t = s.htp, NEW r, r = SuspendTask(s, t)
  PROVE  /\ Fine(r) /\ r.abort = s.abort /\ r.st[t] = "suspended"
         /\ \A u \in Tasks : s.st[u] = "suspended" => r.st[u] = "suspended"
<1>1. PICK h : h = s.hp[t]
  OBVIOUS
<1>2. /\ s.st[t] = "hot" /\ FineFor(s, Tasks, Hosts) /\ WellOff(s, t, Hosts) /\ s.tep[t] = None
      /\ h \in Hosts /\ t \notin Range(s.rtrq) /\ \A g \in Hosts \ {h} : s.run[g] # t
      /\ QuantaEnd => s.quanta[t] = (IF s.qep[t] THEN 1 ELSE 0) /\ ~s.qx[t]
      /\ Timely => ~s.owed[t] /\ ~s.rct[t]
  BY <1>1, HotTask
<1>3. PICK a : a = Suspended(s, t)
  OBVIOUS
<1>4. r = FindReady(a, h)
  BY <1>1, <1>2, <1>3 DEF SuspendTask, Suspended
<1>5. IsSuspendedAs(a, s, t)
  BY <1>2, <1>3, IsSuspended DEF FineFor
<1>6. WellOff(a, t, Hosts \ {h})
  <2>1. MessagesOf(a, t)
    BY <1>2, <1>5 DEF WellOff, MessagesOf, IsSuspendedAs
  <2>2. Timely => TimeOf(a, t)
    BY <1>2, <1>5 DEF TimeOf, IsSuspendedAs
  <2>3. QuantaEnd => a.quanta[t] = 0 /\ ~a.qep[t] /\ ~a.qx[t]
    BY <1>2, <1>5 DEF IsSuspendedAs
  <2>4. PICK H : H = Hosts \ {h}
    OBVIOUS
  <2>5. Edited(a, s, t) /\ a.st[t] = "suspended" /\ a.tep[t] = None
    BY <1>2, <1>5 DEF IsSuspendedAs
  <2>6. WellOff(a, t, H)
    BY <1>2, <2>1, <2>2, <2>3, <2>4, <2>5, OffCpu
  <2> QED BY <2>4, <2>6
<1>7. Fine(r) /\ r.abort = s.abort
  <2>1. s.st[t] \in OnCpu
    BY <1>2, StateNames
  <2> QED BY <1>1, <1>2, <1>4, <1>5, <1>6, <2>1, LeavingCpu DEF IsSuspendedAs
<1>8. Kernel(a) /\ QueueOK(a) /\ \A u \in Range(a.rtrq) : a.st[u] # "suspended"
  <2>1. Kernel(a) /\ a.rtrq = s.rtrq /\ a.st[t] = "suspended" /\ \A u \in Tasks \ {t} : a.st[u] = s.st[u] /\ a.pri[u] = s.pri[u]
    BY <1>5 DEF IsSuspendedAs, Edited, SameTask
  <2>2. Range(s.rtrq) \subseteq Tasks \ {t}
    <3>1. s.rtrq \in Seq(Tasks)
      BY <1>2 DEF FineFor, Kernel, Typed
    <3> QED BY <1>2, <3>1, RangeOfSeq
  <2>3. \A u \in Range(s.rtrq) : s.st[u] = "ready"
    BY <1>2, <2>2 DEF FineFor, WellOff, Placed
  <2>4. QueueOK(a)
    <3>1. \A i \in DOMAIN s.rtrq : s.rtrq[i] \in Tasks \ {t}
      BY <2>2 DEF Range
    <3> QED BY <1>2, <2>1, <3>1 DEF FineFor, QueueOK, Sorted
  <2> QED BY <2>1, <2>2, <2>3, <2>4
<1>9. \A u \in Tasks : a.st[u] = "suspended" => r.st[u] = "suspended"
  BY <1>2, <1>4, <1>8, FindReadyWakesNone
<1>10. a.st[t] = "suspended" /\ \A u \in Tasks \ {t} : a.st[u] = s.st[u]
  BY <1>5 DEF IsSuspendedAs, Edited, SameTask
<1> QED BY <1>7, <1>9, <1>10
-----------------------------------------------------------------------------
\* What the calls of the semaphore keep.

\* While nobody resets the semaphore, all its waiters are suspended.
LEMMA NobodyResets ==
  ASSUME NEW s, NEW m, InLine(s, m), m.by = None
  PROVE  /\ m \in SemRecords /\ IsInjective(m.queue) /\ m.next = 0
         /\ Len(m.queue) \in Nat /\ DOMAIN m.queue = 1..Len(m.queue)
         /\ Len(m.queue) = IF m.count < 0 THEN 0 - m.count ELSE 0
         /\ \A i \in DOMAIN m.queue : m.queue[i] \in Tasks /\ s.st[m.queue[i]] = "suspended"
<1>1. m \in SemRecords /\ m.queue \in Seq(Tasks) /\ m.next = 0
  BY DEF InLine, SemRecords
<1>2. Len(m.queue) \in Nat /\ DOMAIN m.queue = 1..Len(m.queue) /\ \A i \in DOMAIN m.queue : m.queue[i] \in Tasks
  BY <1>1, LenProperties
<1> QED BY <1>1, <1>2 DEF InLine

\* And what shows that the semaphore is in order while nobody resets it.
LEMMA InLineAgain ==
  ASSUME NEW s, NEW m, m \in SemRecords, m.by = None, m.next = 0, IsInjective(m.queue),
         Len(m.queue) = IF m.count < 0 THEN 0 - m.count ELSE 0,
         \A i \in DOMAIN m.queue : s.st[m.queue[i]] = "suspended",
         Lock => (m.count = 1 /\ m.holders = {}) \/ (m.count <= 0 /\ \E t \in Tasks : m.holders = {t})
  PROVE  InLine(s, m)
  BY DEF InLine

\* n is the semaphore m with a new count, queue and set of holders.
ChangedTo(n, m, c, q, H) ==
  n \in SemRecords /\ n.count = c /\ n.queue = q /\ n.by = m.by /\ n.next = m.next /\ n.holders = H

LEMMA IsChanged ==
  ASSUME NEW m \in SemRecords, NEW c \in Int, NEW q \in Seq(Tasks), NEW H \in SUBSET Tasks, NEW n,
         n = [count |-> c, queue |-> q, by |-> m.by, next |-> m.next, holders |-> H]
  PROVE  ChangedTo(n, m, c, q, H)
<1>1. m.by \in Tasks \cup {Outside, None} /\ m.next \in Nat
  BY DEF SemRecords
<1> QED BY <1>1 DEF ChangedTo, SemRecords

LEMMA IsRecord ==
  ASSUME NEW m \in SemRecords
  PROVE  /\ m = [count |-> m.count, queue |-> m.queue, by |-> m.by, next |-> m.next, holders |-> m.holders]
         /\ m.count \in Int /\ m.queue \in Seq(Tasks) /\ m.by \in Tasks \cup {Outside, None} /\ m.next \in Nat
         /\ m.holders \subseteq Tasks
  BY DEF SemRecords

LEMMA WaitKeepsLine ==
  ASSUME node \in Nodes, NEW s, NEW m, Orderly(s, m), m.by = None, NEW t \in Tasks, t = s.htp,
         Lock => t \notin m.holders, m.count <= 0,
         NEW n, ChangedTo(n, m, m.count - 1, Append(m.queue, t), m.holders), NEW r, r = SuspendTask(s, t)
  PROVE  Orderly(r, n) /\ r.abort = s.abort
<1>1. /\ m \in SemRecords /\ IsInjective(m.queue) /\ m.next = 0
      /\ Len(m.queue) \in Nat /\ DOMAIN m.queue = 1..Len(m.queue)
      /\ Len(m.queue) = IF m.count < 0 THEN 0 - m.count ELSE 0
      /\ \A i \in DOMAIN m.queue : m.queue[i] \in Tasks /\ s.st[m.queue[i]] = "suspended"
  BY NobodyResets DEF Orderly
<1>2. /\ Fine(r) /\ r.abort = s.abort /\ r.st[t] = "suspended"
      /\ \A u \in Tasks : s.st[u] = "suspended" => r.st[u] = "suspended"
  BY HotSuspends DEF Orderly
<1>3. s.st[t] = "hot"
  BY DEF Orderly, Fine, HotIs
<1>4. PICK q : q = Append(m.queue, t)
  OBVIOUS
<1>5. /\ q \in Seq(Tasks) /\ Len(q) = Len(m.queue) + 1 /\ DOMAIN q = 1..Len(m.queue)+1
      /\ q[Len(m.queue)+1] = t /\ \A i \in 1..Len(m.queue) : q[i] = m.queue[i]
  <2>1. m.queue \in Seq(Tasks)
    BY <1>1 DEF SemRecords
  <2>2. q \in Seq(Tasks) /\ Len(q) = Len(m.queue) + 1
        /\ q[Len(m.queue)+1] = t /\ \A i \in 1..Len(m.queue) : q[i] = m.queue[i]
    BY <1>4, <2>1, AppendProperties
  <2> QED BY <2>2, LenProperties
<1>6. /\ n.count = m.count - 1 /\ n.queue = q /\ n.by = None /\ n.next = 0 /\ n.holders = m.holders
      /\ n \in SemRecords
  BY <1>1, <1>4 DEF ChangedTo
<1>7. \A i \in DOMAIN q : r.st[q[i]] = "suspended"
  <2> SUFFICES ASSUME NEW i \in DOMAIN q
               PROVE  r.st[q[i]] = "suspended"
    OBVIOUS
  <2>1. CASE i = Len(m.queue) + 1
    BY <1>2, <1>5, <2>1
  <2>2. CASE i # Len(m.queue) + 1
    <3>1. i \in 1..Len(m.queue)
      BY <1>1, <1>5, <2>2
    <3> QED BY <1>1, <1>2, <1>5, <3>1
  <2> QED BY <2>1, <2>2
<1>8. IsInjective(q)
  <2>1. \A i \in 1..Len(m.queue) : q[i] # t
    BY <1>1, <1>3, <1>5
  <2>2. \A i, j \in 1..Len(m.queue) : q[i] = q[j] => i = j
    BY <1>1, <1>5 DEF IsInjective
  <2>3. ASSUME NEW i \in DOMAIN q, NEW j \in DOMAIN q, q[i] = q[j]
        PROVE  i = j
    <3>1. (i \in 1..Len(m.queue) \/ i = Len(m.queue) + 1) /\ (j \in 1..Len(m.queue) \/ j = Len(m.queue) + 1)
      BY <1>1, <1>5
    <3> QED BY <1>5, <2>1, <2>2, <2>3, <3>1
  <2> QED BY <2>3 DEF IsInjective
<1>9. Len(q) = IF m.count - 1 < 0 THEN 0 - (m.count - 1) ELSE 0
  BY <1>1, <1>5 DEF SemRecords
<1>10. Lock => m.count - 1 <= 0 /\ \E u \in Tasks : m.holders = {u}
  BY <1>1 DEF Orderly, InLine, SemRecords
<1>11. InLine(r, n)
  BY <1>6, <1>7, <1>8, <1>9, <1>10, InLineAgain
<1> QED BY <1>2, <1>11 DEF Orderly

LEMMA PassingKeepsLine ==
  ASSUME NEW s, NEW m, Orderly(s, m), m.by = None, NEW t \in Tasks, m.count > 0,
         NEW n, ChangedTo(n, m, m.count - 1, m.queue, m.holders \cup {t})
  PROVE  Orderly(s, n)
<1>1. /\ m \in SemRecords /\ IsInjective(m.queue) /\ m.next = 0
      /\ Len(m.queue) = IF m.count < 0 THEN 0 - m.count ELSE 0
      /\ \A i \in DOMAIN m.queue : s.st[m.queue[i]] = "suspended"
  BY NobodyResets DEF Orderly
<1>2. /\ n.count = m.count - 1 /\ n.queue = m.queue /\ n.by = None /\ n.next = 0 /\ n.holders = m.holders \cup {t}
      /\ n \in SemRecords
  BY <1>1 DEF ChangedTo
<1>3. Len(m.queue) = IF m.count - 1 < 0 THEN 0 - (m.count - 1) ELSE 0
  BY <1>1 DEF SemRecords
<1>4. ASSUME Lock
      PROVE  n.count <= 0 /\ n.holders = {t}
  <2>1. m.count = 1 /\ m.holders = {}
    BY <1>1, <1>4 DEF Orderly, InLine, SemRecords
  <2> QED BY <1>2, <2>1
<1>5. InLine(s, n)
  <2>1. Lock => (n.count = 1 /\ n.holders = {}) \/ (n.count <= 0 /\ \E u \in Tasks : n.holders = {u})
    BY <1>4
  <2>2. /\ n \in SemRecords /\ n.by = None /\ n.next = 0 /\ IsInjective(n.queue)
        /\ Len(n.queue) = IF n.count < 0 THEN 0 - n.count ELSE 0
        /\ \A i \in DOMAIN n.queue : s.st[n.queue[i]] = "suspended"
    BY <1>1, <1>2, <1>3
  <2> QED BY <2>1, <2>2, InLineAgain
<1> QED BY <1>5 DEF Orderly

\* A signal that nobody waits for.
LEMMA SignalKeepsCount ==
  ASSUME NEW s, NEW m, Orderly(s, m), m.by = None, NEW t, Lock => t \in m.holders, ~(m.count < 0),
         NEW n, ChangedTo(n, m, m.count + 1, m.queue, m.holders \ {t})
  PROVE  Orderly(s, n)
<1>1. /\ m \in SemRecords /\ IsInjective(m.queue) /\ m.next = 0
      /\ Len(m.queue) = IF m.count < 0 THEN 0 - m.count ELSE 0
      /\ \A i \in DOMAIN m.queue : s.st[m.queue[i]] = "suspended"
  BY NobodyResets DEF Orderly
<1>2. /\ n.count = m.count + 1 /\ n.queue = m.queue /\ n.by = None /\ n.next = 0 /\ n.holders = m.holders \ {t}
      /\ n \in SemRecords
  BY <1>1 DEF ChangedTo
<1>3. Len(m.queue) = IF m.count + 1 < 0 THEN 0 - (m.count + 1) ELSE 0
  BY <1>1 DEF SemRecords
<1>4. ASSUME Lock
      PROVE  n.count = 1 /\ n.holders = {}
  <2>1. m.count <= 0 /\ \E u \in Tasks : m.holders = {u}
    BY <1>4 DEF Orderly, InLine
  <2>2. m.count = 0 /\ m.holders = {t}
    BY <1>1, <1>4, <2>1 DEF SemRecords
  <2> QED BY <1>2, <2>2
<1>5. InLine(s, n)
  <2>1. Lock => (n.count = 1 /\ n.holders = {}) \/ (n.count <= 0 /\ \E u \in Tasks : n.holders = {u})
    BY <1>4
  <2>2. /\ n \in SemRecords /\ n.by = None /\ n.next = 0 /\ IsInjective(n.queue)
        /\ Len(n.queue) = IF n.count < 0 THEN 0 - n.count ELSE 0
        /\ \A i \in DOMAIN n.queue : s.st[n.queue[i]] = "suspended"
    BY <1>1, <1>2, <1>3
  <2> QED BY <2>1, <2>2, InLineAgain
<1> QED BY <1>5 DEF Orderly

\* A signal resumes the first waiter.
LEMMA SignalKeepsLine ==
  ASSUME node \in Nodes, SyncsKeepCpus, NEW s, NEW m, Orderly(s, m), m.by = None, NEW t, Lock => t \in m.holders,
         m.count < 0, NEW n, NEW u, u = m.queue[1],
         ChangedTo(n, m, m.count + 1, RemoveAt(m.queue, 1), (m.holders \ {t}) \cup {u}),
         NEW r, r = Resumed(s, u)
  PROVE  Orderly(r, n) /\ r.abort = s.abort
<1>1. /\ m \in SemRecords /\ IsInjective(m.queue) /\ m.next = 0
      /\ Len(m.queue) \in Nat /\ DOMAIN m.queue = 1..Len(m.queue)
      /\ Len(m.queue) = IF m.count < 0 THEN 0 - m.count ELSE 0
      /\ \A i \in DOMAIN m.queue : m.queue[i] \in Tasks /\ s.st[m.queue[i]] = "suspended"
  BY NobodyResets DEF Orderly
<1>2. 1 \in 1..Len(m.queue) /\ u \in Tasks /\ s.st[u] = "suspended" /\ m.queue \in Seq(Tasks)
  BY <1>1 DEF SemRecords
<1>3. PICK q : q = RemoveAt(m.queue, 1)
  OBVIOUS
<1>4. /\ q \in Seq(Tasks) /\ Len(q) = Len(m.queue) - 1 /\ DOMAIN q = 1..Len(m.queue)-1
      /\ \A i \in 1..Len(m.queue)-1 : q[i] = m.queue[i+1]
  <2>1. q \in Seq(Tasks) /\ WithoutOne(m.queue, 1, q)
    BY <1>2, <1>3, Removed
  <2> QED BY <2>1 DEF WithoutOne
<1>5. IsInjective(q)
  BY <1>1, <1>2, <1>3, LeavesRange
<1>6. /\ Fine(r) /\ r.abort = s.abort
      /\ \A v \in Tasks \ {u} : s.st[v] = "suspended" => r.st[v] = "suspended"
  BY <1>2, ResumedWell DEF Orderly
<1>7. /\ n.count = m.count + 1 /\ n.queue = q /\ n.by = None /\ n.next = 0 /\ n.holders = (m.holders \ {t}) \cup {u}
      /\ n \in SemRecords
  BY <1>1, <1>3 DEF ChangedTo
<1>8. \A i \in DOMAIN q : r.st[q[i]] = "suspended"
  <2> SUFFICES ASSUME NEW i \in DOMAIN q
               PROVE  r.st[q[i]] = "suspended"
    OBVIOUS
  <2>0. i \in 1..Len(m.queue)-1
    BY <1>4
  <2>1. q[i] = m.queue[i+1] /\ i + 1 \in DOMAIN m.queue /\ i + 1 # 1 /\ 1 \in DOMAIN m.queue
    <3>1. i + 1 \in 1..Len(m.queue) /\ i + 1 # 1
      BY <1>1, <2>0
    <3> QED BY <1>1, <1>2, <1>4, <2>0, <3>1
  <2>2. q[i] # u
    BY <1>1, <2>1 DEF IsInjective
  <2> QED BY <1>1, <1>6, <2>1, <2>2
<1>9. Len(q) = IF m.count + 1 < 0 THEN 0 - (m.count + 1) ELSE 0
  BY <1>1, <1>4 DEF SemRecords
<1>10. ASSUME Lock
       PROVE  n.count <= 0 /\ n.holders = {u}
  <2>1. \E v \in Tasks : m.holders = {v}
    BY <1>1, <1>10 DEF Orderly, InLine, SemRecords
  <2>2. m.holders = {t}
    BY <1>10, <2>1
  <2> QED BY <1>1, <1>7, <2>2 DEF SemRecords
<1>11. InLine(r, n)
  <2>1. Lock => (n.count = 1 /\ n.holders = {}) \/ (n.count <= 0 /\ \E v \in Tasks : n.holders = {v})
    BY <1>2, <1>10
  <2> QED BY <1>5, <1>7, <1>8, <1>9, <2>1, InLineAgain
<1> QED BY <1>6, <1>11 DEF Orderly
\* A reset of a semaphore that tasks wait for, and the steps of it.
LEMMA ResetKeepsLine ==
  ASSUME NEW s, NEW m, Orderly(s, m), m.by = None, ~Lock, NEW t \in Tasks \cup {Outside}, t = s.htp,
         t = Outside \/ Discipline # "PR", NEW v \in Nat, NEW n,
         n = [count |-> v, queue |-> m.queue, by |-> t, next |-> 1, holders |-> m.holders]
  PROVE  Orderly(s, n)
<1>1. /\ m \in SemRecords /\ IsInjective(m.queue) /\ Len(m.queue) \in Nat
      /\ \A i \in DOMAIN m.queue : s.st[m.queue[i]] = "suspended"
  BY NobodyResets DEF Orderly
<1>2. n.count = v /\ n.queue = m.queue /\ n.by = t /\ n.next = 1
  OBVIOUS
<1>3. n \in SemRecords
  BY <1>1 DEF SemRecords
<1>4. t # None
  BY NodesAssumption DEF None, Outside
<1>5. n.next \in 1..Len(n.queue)+1
  BY <1>1, <1>2
<1> QED BY <1>1, <1>2, <1>3, <1>4, <1>5 DEF Orderly, InLine

LEMMA ResetStepKeepsLine ==
  ASSUME node \in Nodes, SyncsKeepCpus, NEW s, NEW m, Orderly(s, m), m.by # None, m.next <= Len(m.queue),
         NEW u, u = m.queue[m.next], NEW n,
         n = [count |-> m.count, queue |-> m.queue, by |-> m.by, next |-> m.next + 1, holders |-> m.holders \cup {u}],
         NEW r, r = Resumed(s, u)
  PROVE  Orderly(r, n) /\ r.abort = s.abort
<1>1. /\ m \in SemRecords /\ IsInjective(m.queue) /\ ~Lock /\ m.by = s.htp /\ (m.by = Outside \/ Discipline # "PR")
      /\ m.count >= 0 /\ m.next \in 1..Len(m.queue)+1
      /\ \A i \in DOMAIN m.queue : i >= m.next => s.st[m.queue[i]] = "suspended"
  BY DEF Orderly, InLine
<1>2. /\ m.queue \in Seq(Tasks) /\ m.count \in Int /\ m.by \in Tasks \cup {Outside, None} /\ m.next \in Nat
      /\ m.holders \subseteq Tasks
  BY <1>1, IsRecord
<1>3. Len(m.queue) \in Nat /\ DOMAIN m.queue = 1..Len(m.queue) /\ \A i \in DOMAIN m.queue : m.queue[i] \in Tasks
  BY <1>2, LenProperties
<1>4. m.next \in DOMAIN m.queue /\ u \in Tasks
  BY <1>1, <1>3
<1>5. s.st[u] = "suspended" /\ s.htp # Driver
  <2>1. m.next >= m.next
    BY <1>2
  <2>2. s.htp \in Tasks \cup {Outside}
    BY <1>1, <1>2
  <2> QED BY <1>1, <1>4, <2>1, <2>2, StateNames
<1>6. /\ Fine(r) /\ r.abort = s.abort /\ r.htp = s.htp
      /\ \A v \in Tasks \ {u} : s.st[v] = "suspended" => r.st[v] = "suspended"
  BY <1>1, <1>4, <1>5, ResumedWell DEF Orderly
<1>7. n.count = m.count /\ n.queue = m.queue /\ n.by = m.by /\ n.next = m.next + 1
  OBVIOUS
<1>8. n \in SemRecords
  <2>1. m.holders \cup {u} \in SUBSET Tasks /\ m.next + 1 \in Nat
    BY <1>2, <1>4
  <2> QED BY <1>2, <2>1 DEF SemRecords
<1>9. \A i \in DOMAIN n.queue : i >= n.next => r.st[n.queue[i]] = "suspended"
  <2> SUFFICES ASSUME NEW i \in DOMAIN m.queue, i >= m.next + 1
               PROVE  r.st[m.queue[i]] = "suspended"
    BY <1>7
  <2>1. i # m.next /\ i >= m.next
    BY <1>2, <1>3
  <2>2. m.queue[i] # u
    BY <1>1, <1>4, <2>1 DEF IsInjective
  <2> QED BY <1>1, <1>3, <1>6, <2>1, <2>2
<1>10. n.next \in 1..Len(n.queue)+1
  BY <1>1, <1>2, <1>3, <1>7
<1>11. InLine(r, n)
  BY <1>1, <1>6, <1>7, <1>8, <1>9, <1>10 DEF InLine
<1> QED BY <1>6, <1>11 DEF Orderly

LEMMA ResetEndKeepsLine ==
  ASSUME NEW s, NEW m, Orderly(s, m), m.by # None, NEW n,
         n = [count |-> m.count, queue |-> <<>>, by |-> None, next |-> 0, holders |-> m.holders]
  PROVE  Orderly(s, n)
<1>1. m \in SemRecords /\ ~Lock /\ m.count >= 0
  BY DEF Orderly, InLine
<1>2. m.count \in Int /\ m.holders \subseteq Tasks
  BY <1>1, IsRecord
<1>3. n \in SemRecords
  BY <1>2 DEF SemRecords
<1>4. n.by = None /\ n.next = 0 /\ n.queue = <<>> /\ n.count = m.count
  OBVIOUS
<1>5. DOMAIN n.queue = {} /\ IsInjective(n.queue)
  BY <1>4 DEF IsInjective
<1>6. Len(n.queue) = IF n.count < 0 THEN 0 - n.count ELSE 0
  BY <1>1, <1>2, <1>4
<1>7. InLine(s, n)
  BY <1>1, <1>3, <1>4, <1>5, <1>6, InLineAgain
<1> QED BY <1>7 DEF Orderly

\* A reset of a semaphore that nobody waits for.
LEMMA EmptyResetKeepsLine ==
  ASSUME NEW s, NEW m, Orderly(s, m), m.by = None, ~Lock, m.queue = <<>>, NEW v \in Nat, NEW n,
         n = [count |-> v, queue |-> m.queue, by |-> m.by, next |-> m.next, holders |-> m.holders]
  PROVE  Orderly(s, n)
<1>1. m \in SemRecords /\ m.next = 0 /\ IsInjective(m.queue)
  BY NobodyResets DEF Orderly
<1>2. m.holders \subseteq Tasks /\ m.queue \in Seq(Tasks)
  BY <1>1, IsRecord
<1>3. ChangedTo(n, m, v, m.queue, m.holders)
  <2>1. v \in Int /\ m.holders \in SUBSET Tasks
    BY <1>2
  <2> QED BY <1>1, <1>2, <2>1, IsChanged
<1>4. n \in SemRecords /\ n.by = None /\ n.next = 0 /\ n.queue = <<>> /\ n.count = v /\ IsInjective(n.queue)
  BY <1>1, <1>3 DEF ChangedTo
<1>5. DOMAIN n.queue = {} /\ Len(n.queue) = IF n.count < 0 THEN 0 - n.count ELSE 0
  BY <1>4
<1>6. InLine(s, n)
  BY <1>4, <1>5, InLineAgain
<1> QED BY <1>6 DEF Orderly
-----------------------------------------------------------------------------
\* The calls of the semaphore as steps from k and sem.
LEMMA WaitStep ==
  ASSUME node \in Nodes, Orderly(k, sem), WaitSemaphore
  PROVE  Orderly(k', sem') /\ k'.abort = k.abort
<1>1. /\ sem.by # me /\ me \in Tasks /\ me = k.htp /\ (Lock => me \notin sem.holders)
      /\ sem.count <= 0 => /\ sem' = [sem EXCEPT !.count = @ - 1, !.queue = Append(@, me)]
                           /\ k' = SuspendTask(k, me)
      /\ ~(sem.count <= 0) => sem' = [sem EXCEPT !.count = @ - 1, !.holders = @ \cup {me}] /\ k' = k
  BY DEF WaitSemaphore, SemCall, Blocks, me
<1>2. sem.by = None /\ sem \in SemRecords
  BY <1>1 DEF Orderly, InLine
<1>3. /\ sem = [count |-> sem.count, queue |-> sem.queue, by |-> sem.by, next |-> sem.next, holders |-> sem.holders]
      /\ sem.count \in Int /\ sem.queue \in Seq(Tasks) /\ sem.holders \subseteq Tasks
  BY <1>2, IsRecord
<1>4. PICK t \in Tasks : t = me
  BY <1>1
<1>5. CASE sem.count <= 0
  <2>1. sem' = [count |-> sem.count - 1, queue |-> Append(sem.queue, t), by |-> sem.by, next |-> sem.next, holders |-> sem.holders]
    BY <1>1, <1>3, <1>4, <1>5
  <2>2. ChangedTo(sem', sem, sem.count - 1, Append(sem.queue, t), sem.holders)
    <3>1. sem.count - 1 \in Int /\ Append(sem.queue, t) \in Seq(Tasks) /\ sem.holders \in SUBSET Tasks
      BY <1>3, AppendProperties
    <3> QED BY <1>2, <2>1, <3>1, IsChanged
  <2>3. k' = SuspendTask(k, t) /\ t = k.htp /\ (Lock => t \notin sem.holders)
    BY <1>1, <1>4, <1>5
  <2> QED BY <1>2, <1>5, <2>2, <2>3, WaitKeepsLine
<1>6. CASE ~(sem.count <= 0)
  <2>1. sem' = [count |-> sem.count - 1, queue |-> sem.queue, by |-> sem.by, next |-> sem.next, holders |-> sem.holders \cup {t}]
    BY <1>1, <1>3, <1>4, <1>6
  <2>2. ChangedTo(sem', sem, sem.count - 1, sem.queue, sem.holders \cup {t})
    <3>1. sem.count - 1 \in Int /\ sem.holders \cup {t} \in SUBSET Tasks
      BY <1>3
    <3> QED BY <1>2, <1>3, <2>1, <3>1, IsChanged
  <2>3. k' = k /\ sem.count > 0
    BY <1>1, <1>3, <1>6
  <2> QED BY <1>2, <2>2, <2>3, PassingKeepsLine
<1> QED BY <1>5, <1>6

LEMMA SignalStep ==
  ASSUME node \in Nodes, SyncsKeepCpus, Orderly(k, sem), SignalSemaphore
  PROVE  Orderly(k', sem') /\ k'.abort = k.abort
<1>1. sem.by # me /\ me = k.htp /\ (Lock => me \in sem.holders)
  BY DEF SignalSemaphore, SemCall, me
<1>2. sem.by = None /\ sem \in SemRecords
  BY <1>1 DEF Orderly, InLine
<1>3. /\ sem = [count |-> sem.count, queue |-> sem.queue, by |-> sem.by, next |-> sem.next, holders |-> sem.holders]
      /\ sem.count \in Int /\ sem.queue \in Seq(Tasks) /\ sem.holders \subseteq Tasks
  BY <1>2, IsRecord
<1>4. PICK t : t = me
  OBVIOUS
<1>5. PICK z : z = [sem EXCEPT !.count = @ + 1, !.holders = @ \ {t}]
  OBVIOUS
<1>6. z = [count |-> sem.count + 1, queue |-> sem.queue, by |-> sem.by, next |-> sem.next, holders |-> sem.holders \ {t}]
  BY <1>3, <1>5
<1>7. PICK u : u = sem.queue[1]
  OBVIOUS
<1>8. /\ sem.count < 0 /\ sem.queue # <<>> =>
           /\ sem' = [z EXCEPT !.queue = RemoveAt(@, 1), !.holders = @ \cup {u}]
           /\ k' = Resumed(k, u)
      /\ ~(sem.count < 0) => sem' = z /\ k' = k
  BY <1>4, <1>5, <1>7 DEF SignalSemaphore, Owed, FirstWaiter
<1>9. CASE sem.count < 0
  <2>1. sem.queue # <<>>
    <3>1. Len(sem.queue) = 0 - sem.count
      BY <1>2, <1>9, NobodyResets DEF Orderly
    <3>2. Len(<<>>) = 0
      OBVIOUS
    <3> QED BY <1>3, <1>9, <3>1, <3>2
  <2>2. sem' = [count |-> sem.count + 1, queue |-> RemoveAt(sem.queue, 1), by |-> sem.by, next |-> sem.next,
                holders |-> (sem.holders \ {t}) \cup {u}]
    BY <1>6, <1>8, <1>9, <2>1
  <2>3. Len(sem.queue) \in Nat /\ 1 \in 1..Len(sem.queue) /\ u \in Tasks
    <3>1. Len(sem.queue) \in Nat /\ Len(sem.queue) = 0 - sem.count /\ DOMAIN sem.queue = 1..Len(sem.queue)
          /\ \A i \in DOMAIN sem.queue : sem.queue[i] \in Tasks
      BY <1>2, <1>9, NobodyResets DEF Orderly
    <3>2. 1 \in 1..Len(sem.queue)
      BY <1>3, <1>9, <3>1
    <3> QED BY <1>7, <3>1, <3>2
  <2>4. ChangedTo(sem', sem, sem.count + 1, RemoveAt(sem.queue, 1), (sem.holders \ {t}) \cup {u})
    <3>1. sem.count + 1 \in Int /\ RemoveAt(sem.queue, 1) \in Seq(Tasks) /\ (sem.holders \ {t}) \cup {u} \in SUBSET Tasks
      BY <1>3, <2>3, Removed
    <3> QED BY <1>2, <2>2, <3>1, IsChanged
  <2>5. k' = Resumed(k, u) /\ (Lock => t \in sem.holders)
    BY <1>1, <1>4, <1>8, <1>9, <2>1
  <2>6. PICK n, r : n = sem' /\ r = k'
    OBVIOUS
  <2>7. ChangedTo(n, sem, sem.count + 1, RemoveAt(sem.queue, 1), (sem.holders \ {t}) \cup {u}) /\ r = Resumed(k, u)
    BY <2>4, <2>5, <2>6
  <2>8. Orderly(r, n) /\ r.abort = k.abort
    BY <1>2, <1>7, <1>9, <2>5, <2>7, SignalKeepsLine
  <2> QED BY <2>6, <2>8
<1>10. CASE ~(sem.count < 0)
  <2>1. ChangedTo(sem', sem, sem.count + 1, sem.queue, sem.holders \ {t})
    <3>1. sem.count + 1 \in Int /\ sem.holders \ {t} \in SUBSET Tasks
      BY <1>3
    <3>2. sem' = [count |-> sem.count + 1, queue |-> sem.queue, by |-> sem.by, next |-> sem.next, holders |-> sem.holders \ {t}]
      BY <1>6, <1>8, <1>10
    <3> QED BY <1>2, <1>3, <3>1, <3>2, IsChanged
  <2>2. k' = k /\ (Lock => t \in sem.holders)
    BY <1>1, <1>4, <1>8, <1>10
  <2> QED BY <1>2, <1>10, <2>1, <2>2, SignalKeepsCount
<1> QED BY <1>9, <1>10

LEMMA ResetStep ==
  ASSUME node \in Nodes, ResetsUndisturbed, Orderly(k, sem), NEW v \in 0..MaxCount, ResetSemaphore(v)
  PROVE  Orderly(k', sem') /\ k'.abort = k.abort
<1>1. /\ sem.by = None /\ me = k.htp /\ k' = k
      /\ (me \in Tasks /\ "reset" \in node.sem) \/ (me = Outside /\ "reset" \in node.outside)
      /\ sem' = IF sem.queue = <<>> THEN [sem EXCEPT !.count = v] ELSE [sem EXCEPT !.count = v, !.by = me, !.next = 1]
  BY DEF ResetSemaphore, SemCall, me
<1>2. sem \in SemRecords
  BY DEF Orderly, InLine
<1>3. sem = [count |-> sem.count, queue |-> sem.queue, by |-> sem.by, next |-> sem.next, holders |-> sem.holders]
  BY <1>2, IsRecord
<1>4. ~Lock /\ v \in Nat
  BY <1>1, SemaphoresAssumption DEF Lock
<1>5. PICK t \in Tasks \cup {Outside} : t = me
  BY <1>1
<1>6. CASE sem.queue = <<>>
  <2>1. sem' = [count |-> v, queue |-> sem.queue, by |-> sem.by, next |-> sem.next, holders |-> sem.holders]
    BY <1>1, <1>3, <1>6
  <2> QED BY <1>1, <1>4, <1>6, <2>1, EmptyResetKeepsLine
<1>7. CASE sem.queue # <<>>
  <2>1. sem' = [count |-> v, queue |-> sem.queue, by |-> t, next |-> 1, holders |-> sem.holders]
    BY <1>1, <1>3, <1>5, <1>7
  <2>2. t = k.htp /\ (t = Outside \/ Discipline # "PR")
    BY <1>1, <1>5 DEF ResetsUndisturbed
  <2> QED BY <1>1, <1>4, <2>1, <2>2, ResetKeepsLine
<1> QED BY <1>6, <1>7

LEMMA ResetNextStep ==
  ASSUME node \in Nodes, SyncsKeepCpus, Orderly(k, sem), ResetNext
  PROVE  Orderly(k', sem') /\ k'.abort = k.abort
<1>1. sem \in SemRecords /\ me = k.htp /\ sem.by = me /\ k.htp \in Tasks \cup {Driver, Outside}
  BY DEF Orderly, InLine, ResetNext, me, Fine, FineFor, Kernel, Typed
<1>2. sem.by # None
  BY <1>1, NodesAssumption DEF None, Driver, Outside
<1>3. sem = [count |-> sem.count, queue |-> sem.queue, by |-> sem.by, next |-> sem.next, holders |-> sem.holders]
  BY <1>1, IsRecord
<1>4. PICK u : u = sem.queue[sem.next]
  OBVIOUS
<1>5. /\ sem.next <= Len(sem.queue) /\ k' = Resumed(k, u)
      /\ sem' = [sem EXCEPT !.next = @ + 1, !.holders = @ \cup {u}]
  BY <1>4 DEF ResetNext
<1>6. sem' = [count |-> sem.count, queue |-> sem.queue, by |-> sem.by, next |-> sem.next + 1, holders |-> sem.holders \cup {u}]
  BY <1>3, <1>5
<1>7. PICK n, r : n = sem' /\ r = k'
  OBVIOUS
<1>8. /\ n = [count |-> sem.count, queue |-> sem.queue, by |-> sem.by, next |-> sem.next + 1, holders |-> sem.holders \cup {u}]
      /\ r = Resumed(k, u) /\ sem.next <= Len(sem.queue)
  BY <1>5, <1>6, <1>7
<1>9. Orderly(r, n) /\ r.abort = k.abort
  BY <1>2, <1>4, <1>8, ResetStepKeepsLine
<1> QED BY <1>7, <1>9

LEMMA ResetEndStep ==
  ASSUME Orderly(k, sem), ResetEnd
  PROVE  Orderly(k', sem') /\ k'.abort = k.abort
<1>1. sem \in SemRecords /\ me = k.htp /\ sem.by = me /\ k.htp \in Tasks \cup {Driver, Outside} /\ k' = k
  BY DEF Orderly, InLine, ResetEnd, me, Fine, FineFor, Kernel, Typed
<1>2. sem.by # None
  BY <1>1, NodesAssumption DEF None, Driver, Outside
<1>3. sem = [count |-> sem.count, queue |-> sem.queue, by |-> sem.by, next |-> sem.next, holders |-> sem.holders]
  BY <1>1, IsRecord
<1>4. sem' = [count |-> sem.count, queue |-> <<>>, by |-> None, next |-> 0, holders |-> sem.holders]
  BY <1>3 DEF ResetEnd
<1> QED BY <1>1, <1>2, <1>4, ResetEndKeepsLine

LEMMA ElsewhereStep ==
  ASSUME node \in Nodes, SyncsKeepCpus, Orderly(k, sem), Elsewhere
  PROVE  Orderly(k', sem') /\ (EventsMatch => k'.abort = k.abort)
<1>1. /\ Next /\ sem' = sem /\ sem.by # me /\ me = k.htp
      /\ \A t \in Range(sem.queue) : k.st[t] = "suspended" => k'.st[t] = "suspended"
  BY DEF Elsewhere, me
<1>2. sem.by = None
  BY <1>1 DEF Orderly, InLine
<1>3. Fine(k') /\ (EventsMatch => k'.abort = k.abort)
  BY <1>1, StepKeeps DEF Orderly
<1>4. \A i \in DOMAIN sem.queue : k'.st[sem.queue[i]] = "suspended"
  <2>1. \A i \in DOMAIN sem.queue : k.st[sem.queue[i]] = "suspended"
    BY <1>2, NobodyResets DEF Orderly
  <2> QED BY <1>1, <2>1 DEF Range
<1>5. InLine(k', sem)
  BY <1>2, <1>4 DEF Orderly, InLine
<1> QED BY <1>1, <1>3, <1>5 DEF Orderly

\* The node does not change, so what holds of the next state now holds then.
LEMMA OrderlyNext ==
  ASSUME node' = node, Orderly(k', sem')
  PROVE  Orderly(k, sem)'
<1>1. Fine(k)'
  BY FineNext DEF Orderly
<1>2. (Lock' <=> Lock) /\ Discipline' = Discipline
  BY DEF Lock, Discipline
<1>3. InLine(k, sem)'
  BY <1>2 DEF Orderly, InLine, SemRecords
<1> QED BY <1>1, <1>3 DEF Orderly

LEMMA SemStarts == SemInit => SemInv
<1> SUFFICES ASSUME SemInit, SyncsKeepCpus
             PROVE  node \in Nodes /\ Orderly(k, sem) /\ (EventsMatch => k.abort = None)
  BY StartsWell DEF SemInit, SemInv, IInv
<1>1. node \in Nodes /\ Fine(k) /\ (EventsMatch => k.abort = None)
  BY StartsWell DEF SemInit, IInv, Inv
<1>2. sem = [count |-> 1, queue |-> <<>>, by |-> None, next |-> 0, holders |-> {}]
  BY DEF SemInit
<1>3. sem.count = 1 /\ sem.queue = <<>> /\ sem.by = None /\ sem.next = 0 /\ sem.holders = {} /\ sem \in SemRecords
  BY <1>2 DEF SemRecords
<1>4. DOMAIN sem.queue = {} /\ IsInjective(sem.queue) /\ Len(sem.queue) = 0
  BY <1>3 DEF IsInjective
<1>5. InLine(k, sem)
  BY <1>3, <1>4, InLineAgain
<1> QED BY <1>1, <1>5 DEF Orderly

LEMMA SemInductive == SemInv /\ [SemNext]_semVars => SemInv'
<1> SUFFICES ASSUME SemInv, [SemNext]_semVars
             PROVE  SemInv'
  OBVIOUS
<1>1. node' = node /\ node \in Nodes
  BY DEF SemNext, Elsewhere, Next, semVars, SemInv
<1>2. (SyncsKeepCpus' <=> SyncsKeepCpus) /\ (EventsMatch' <=> EventsMatch) /\ (ResetsUndisturbed' <=> ResetsUndisturbed)
  BY <1>1 DEF SyncsKeepCpus, EventsMatch, QuantaEnd, Roams, Both, Discipline, Quantum, Calls, Bound, ResetsUndisturbed
<1>3. ASSUME SyncsKeepCpus, ResetsUndisturbed
      PROVE  Orderly(k', sem') /\ (EventsMatch => k'.abort = None)
  <2>1. Orderly(k, sem) /\ (EventsMatch => k.abort = None)
    BY <1>3 DEF SemInv
  <2>2. CASE SemNext
    <3>1. CASE Elsewhere
      BY <1>1, <1>3, <2>1, <3>1, ElsewhereStep
    <3>2. CASE WaitSemaphore
      BY <1>1, <2>1, <3>2, WaitStep
    <3>3. CASE SignalSemaphore
      BY <1>1, <1>3, <2>1, <3>3, SignalStep
    <3>4. CASE ResetNext
      BY <1>1, <1>3, <2>1, <3>4, ResetNextStep
    <3>5. CASE ResetEnd
      BY <2>1, <3>5, ResetEndStep
    <3>6. ASSUME NEW v \in 0..MaxCount, ResetSemaphore(v)
          PROVE  Orderly(k', sem') /\ (EventsMatch => k'.abort = None)
      BY <1>1, <1>3, <2>1, <3>6, ResetStep
    <3> QED BY <2>2, <3>1, <3>2, <3>3, <3>4, <3>5, <3>6 DEF SemNext
  <2>3. CASE UNCHANGED semVars
    BY <2>1, <2>3 DEF semVars
  <2> QED BY <2>2, <2>3
<1>4. ASSUME SyncsKeepCpus, ResetsUndisturbed
      PROVE  Orderly(k, sem)'
  BY <1>1, <1>3, <1>4, OrderlyNext
<1> QED BY <1>1, <1>2, <1>3, <1>4 DEF SemInv

-----------------------------------------------------------------------------
LEMMA SemAlways == SemSpec => []SemInv
  BY SemStarts, SemInductive, PTL DEF SemSpec

\* Different waiters are no more than there are tasks.
LEMMA QueueFits ==
  ASSUME NEW q \in Seq(Tasks), IsInjective(q)
  PROVE  Cardinality(Tasks) \in Nat /\ Len(q) \in Nat /\ Len(q) <= Cardinality(Tasks)
<1>1. IsFiniteSet(Tasks) /\ Cardinality(Tasks) \in Nat
  BY SemaphoresAssumption, FS_CardinalityType
<1>2. Len(q) \in Nat /\ DOMAIN q = 1..Len(q) /\ q \in [1..Len(q) -> Tasks]
  BY LenProperties
<1>3. q \in Injection(1..Len(q), Tasks)
  BY <1>2 DEF Injection, IsInjective
<1>4. Cardinality(1..Len(q)) = Len(q)
  BY <1>2, FS_Interval
<1>5. Cardinality(1..Len(q)) <= Cardinality(Tasks)
  BY <1>1, <1>3, FS_Injection
<1> QED BY <1>1, <1>2, <1>4, <1>5

LEMMA LineIsCounted ==
  ASSUME SemInv, SyncsKeepCpus, ResetsUndisturbed
  PROVE  SemTypeOK /\ CountsWaiters /\ OneHolder
<1>1. InLine(k, sem) /\ sem \in SemRecords
  BY DEF SemInv, Orderly, InLine
<1>2. /\ sem.count \in Int /\ sem.queue \in Seq(Tasks) /\ sem.by \in Tasks \cup {Outside, None} /\ sem.next \in Nat
      /\ sem.holders \subseteq Tasks
  BY <1>1, IsRecord
<1>3. Len(sem.queue) \in Nat /\ Cardinality(Tasks) \in Nat /\ Len(sem.queue) <= Cardinality(Tasks)
  BY <1>1, <1>2, QueueFits DEF InLine
<1>4. SemTypeOK
  <2>1. sem.next = 0 \/ sem.next \in 1..Len(sem.queue)+1
    BY <1>1 DEF InLine
  <2>2. sem.next \in 0..Cardinality(Tasks)+1
    BY <1>2, <1>3, <2>1
  <2> QED BY <1>2, <2>2 DEF SemTypeOK
<1>5. CountsWaiters
  BY <1>1 DEF InLine, CountsWaiters
<1>6. OneHolder
  <2> SUFFICES ASSUME Lock
               PROVE  Cardinality(sem.holders) <= 1 /\ (sem.count <= 0 => sem.holders # {})
    BY DEF OneHolder
  <2>1. CASE sem.count = 1 /\ sem.holders = {}
    BY <2>1, FS_EmptySet
  <2>2. CASE sem.count <= 0 /\ \E t \in Tasks : sem.holders = {t}
    BY <2>2, FS_Singleton
  <2> QED BY <1>1, <2>1, <2>2 DEF InLine
<1> QED BY <1>4, <1>5, <1>6

\* However waits, signals and resets are interleaved with the rest of the scheduler, the
\* count is below zero by the number of waiters, the waiters are different suspended
\* tasks, and a semaphore used as a lock has one holder: no token is lost or doubled
\* when a resumed task takes the cpu in the middle of a call (unless it may take it from
\* the task that resets the semaphore).
THEOREM WaitersAreCounted ==
  SemSpec => [](SyncsKeepCpus /\ ResetsUndisturbed => SemTypeOK /\ CountsWaiters /\ OneHolder)
<1>1. SemInv /\ SyncsKeepCpus /\ ResetsUndisturbed => SemTypeOK /\ CountsWaiters /\ OneHolder
  BY LineIsCounted
<1> QED BY <1>1, SemAlways, PTL

\* And on the nodes where no event can be due for a task that was suspended or put on
\* hold, the scheduler keeps its own promises to the tasks that use semaphores and no
\* call follows a null pointer.
THEOREM SemaphoreConsistent ==
  SemSpec => [](SyncsKeepCpus /\ EventsMatch /\ ResetsUndisturbed => SemConsistent)
<1>1. SemInv /\ SyncsKeepCpus /\ EventsMatch /\ ResetsUndisturbed => SemConsistent
  <2> SUFFICES ASSUME SemInv, SyncsKeepCpus, EventsMatch, ResetsUndisturbed
               PROVE  SemConsistent
    OBVIOUS
  <2>1. IInv
    BY DEF SemInv, Orderly, IInv, Inv
  <2>2. NoAbort
    BY DEF SemInv, NoAbort, Running
  <2> QED BY <2>1, <2>2, IsConsistent, LineIsCounted DEF SemConsistent
<1> QED BY <1>1, SemAlways, PTL
=============================================================================
