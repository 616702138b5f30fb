---------------------------- MODULE PortsProofs ----------------------------
(***************************************************************************)
(* Proofs about Ports, for every number of tasks, surrogates, ports and    *)
(* messages and whatever the tasks do: owners and members agree, no        *)
(* receiver sleeps beside a message, and no message is lost, doubled or    *)
(* overtaken.  A call goes through several states of the kernel, so what   *)
(* is said of k is said of any record s like it.                           *)
(***************************************************************************)
EXTENDS Ports, FiniteSetTheorems, SequenceTheorems, WellFoundedInduction, TLAPS

-----------------------------------------------------------------------------
\* States of the kernel.
Shape(s) ==
  s = [at |-> s.at, rec |-> s.rec, rtoep |-> s.rtoep, got |-> s.got, target |-> s.target, state |-> s.state,
       owner |-> s.owner, queue |-> s.queue, pairs |-> s.pairs, media |-> s.media, sent |-> s.sent,
       received |-> s.received, lost |-> s.lost, abort |-> s.abort]

Receives == [port : PortIds \cup {None}, discipline : Disciplines, mode : Modes]
Pairs == [task : Surrogates, port : PortIds \ Range(Std)]
AtStates == {"running", "receiving", "awake", "free"}
Kinds == {"nothing", "message", "timeout", "error"}
PortStates == {"free", "used", "set"}

\* A time-out is the message without a number, and is never on a bus or link.
Sound(m) == m \in Messages /\ (m.kind = "timeout" <=> m.mid = 0)
SoundOnes == {m \in Messages : Sound(m)}
Carried == {m \in Messages : m.kind = "message" /\ m.mid # 0}

Typed(s) ==
  /\ Shape(s)
  /\ s.at \in [All -> AtStates] /\ s.rec \in [All -> Receives] /\ s.rtoep \in [All -> BOOLEAN] /\ s.got \in [All -> Kinds]
  /\ s.target \in [Surrogates -> PortIds \cup {None}] /\ s.state \in [PortIds -> PortStates]
  /\ s.owner \in [PortIds -> All \cup {None}] /\ s.queue \in [PortIds -> Seq(SoundOnes)]
  /\ s.pairs \in [PortIds -> SUBSET Pairs] /\ s.media \in [Media -> Seq(Carried)]
  /\ s.sent \in 0..MaxSent /\ s.received \subseteq 1..MaxSent /\ s.lost \subseteq 1..MaxSent
  /\ s.abort \in {None, "transmission"}

\* A port in use has a live owner, a set a user task, a member its surrogate; and
\* every task keeps its standard port.
OwnerOf(s, p) ==
  /\ s.state[p] = "free" => s.owner[p] = None /\ s.queue[p] = <<>>
  /\ s.state[p] # "free" => s.owner[p] \in All /\ s.at[s.owner[p]] # "free"
  /\ s.state[p] = "set" => s.owner[p] \in Tasks
  /\ s.state[p] # "set" => s.pairs[p] = {}
  /\ s.owner[p] \in Surrogates => s.rec[s.owner[p]].port = p
KeepsStd(s, t) == s.at[t] # "free" /\ s.owner[Std[t]] = t /\ s.state[Std[t]] = "used"

\* A live surrogate forwards to a port set of which its port is a member.
ServesSet(s, g) ==
  IF s.at[g] = "free" THEN s.target[g] = None /\ s.rec[g] = NoReceive
  ELSE /\ s.at[g] # "running" /\ s.target[g] \in PortIds /\ s.state[s.target[g]] = "set"
       /\ s.rec[g].port \in PortIds /\ s.rec[g].mode = "never"
       /\ [task |-> g, port |-> s.rec[g].port] \in s.pairs[s.target[g]]

\* A task in a receive owns the port, finds it empty, and only then may have a time-out due.
WaitsWell(s, t) ==
  /\ s.at[t] = "receiving" => s.rec[t].port \in PortIds /\ s.owner[s.rec[t].port] = t /\ s.queue[s.rec[t].port] = <<>>
  /\ s.at[t] = "awake" => s.rec[t].port \in PortIds
  /\ s.rtoep[t] => s.at[t] = "receiving" /\ s.rec[t].mode = "timed"

Tables(s) ==
  /\ Typed(s)
  /\ \A p \in PortIds : OwnerOf(s, p)
  /\ \A t \in Tasks : KeepsStd(s, t)
  /\ \A g \in Surrogates : ServesSet(s, g)
  /\ \A t \in All : WaitsWell(s, t)

MemberOf(s, x, r) == s.state[x] = "set" /\ s.owner[r.port] = r.task /\ s.target[r.task] = x /\ s.rec[r.task].port = r.port
Members(s) == ~Happens({"releaseMember"}) => \A x \in PortIds : \A r \in s.pairs[x] : MemberOf(s, x, r)

-----------------------------------------------------------------------------
\* Messages.

\* The places a message may be in, and the numbers of those that are there.
Places == {<<"port", p>> : p \in PortIds} \cup {<<"media", m>> : m \in Media} \cup {<<"end", "received">>, <<"end", "lost">>}
Held(s, a) ==
  CASE a[1] = "port" -> Ids(s.queue[a[2]])
    [] a[1] = "media" -> Ids(s.media[a[2]])
    [] a = <<"end", "received">> -> s.received
    [] a = <<"end", "lost">> -> s.lost

\* The messages N are each in one place, once.
Parts(s, N) ==
  /\ \A i : i \in N <=> \E a \in Places : i \in Held(s, a)
  /\ \A a, b \in Places : a # b => Held(s, a) \cap Held(s, b) = {}
  /\ \A p \in PortIds : Distinct(s.queue[p])
  /\ \A m \in Media : Distinct(s.media[m])

\* What a port that is no set holds was sent to it.
OwnMail(s) == \A p \in PortIds : s.state[p] = "used" => \A i \in DOMAIN s.queue[p] : s.queue[p][i].org = p

Releases == Happens({"release", "releaseMember"})
\* Unless ports are released, all in transmission is for a port in use and nothing is lost.
Safe(s) ==
  /\ ~Happens({"transmit"}) => \A m \in Media : s.media[m] = <<>>
  /\ ~Releases => \A m \in Media : \A i \in DOMAIN s.media[m] : s.state[s.media[m][i].org] # "free"
  /\ ~Releases /\ ~Happens({"transmit"}) => s.lost = {}
  /\ ~(Releases /\ Happens({"transmit"})) => s.abort = None

Ordered(s) ==
  \A p \in PortIds :
    /\ InOrder(s.queue[p], p)
    /\ \A x \in PortIds \ {p} : s.state[x] = "set" => InOrder(s.queue[x], p) /\ Before(s.queue[x], s.queue[p], p)

\* Received first in, first out from one's own port, a time-out is the first message
\* there and its task is about to look at it.
FirstOnly == world.disciplines = {"FIFO"} /\ ~Happens({"pass", "releaseMember"})
StaleFree(s) ==
  /\ \A t \in All : s.rec[t].discipline \in world.disciplines \cup {"FIFO"}
  /\ FirstOnly =>
       /\ \A p \in PortIds : \A i \in DOMAIN s.queue[p] :
            s.queue[p][i].kind = "timeout" =>
              /\ i = 1 /\ s.owner[p] \in Tasks /\ s.at[s.owner[p]] = "awake"
              /\ s.rec[s.owner[p]].port = p /\ s.rec[s.owner[p]].mode = "timed"
       /\ \A t \in Tasks : s.at[t] = "running" /\ s.got[t] = "timeout" => s.rec[t].mode # "never"

Mail(s) ==
  /\ Parts(s, 1..s.sent) /\ OwnMail(s) /\ Safe(s) /\ StaleFree(s)
  /\ ~Happens({"leave", "transmit"}) => Ordered(s)

IInv == world \in Worlds /\ Tables(k) /\ Members(k) /\ Mail(k)

-----------------------------------------------------------------------------
\* Sequences.

\* The sequence r holds the elements of q at the places S, in their order.
Thinned(q, r, S) ==
  /\ S \subseteq DOMAIN q
  /\ \E f \in [DOMAIN r -> S] :
       /\ \A i, j \in DOMAIN r : i < j => f[i] < f[j]
       /\ \A x \in S : \E n \in DOMAIN r : f[n] = x
       /\ \A n \in DOMAIN r : r[n] = q[f[n]]

LEMMA Places1 ==
  ASSUME NEW S, NEW q \in Seq(S)
  PROVE  /\ Len(q) \in Nat /\ DOMAIN q = 1..Len(q) /\ DOMAIN q \subseteq Nat \ {0}
         /\ \A i \in DOMAIN q : q[i] \in S
         /\ q = <<>> <=> DOMAIN q = {}
<1>1. Len(q) \in Nat /\ DOMAIN q = 1..Len(q) /\ \A i \in 1..Len(q) : q[i] \in S
  BY LenProperties, ElementOfSeq
<1>2. q = <<>> <=> Len(q) = 0
  BY EmptySeq
<1>3. q = <<>> <=> DOMAIN q = {}
  BY <1>1, <1>2
<1> QED BY <1>1, <1>3

LEMMA RemovedThins ==
  ASSUME NEW S, NEW q \in Seq(S), NEW n \in DOMAIN q, NEW r, r = RemoveAt(q, n)
  PROVE  r \in Seq(S) /\ Thinned(q, r, DOMAIN q \ {n})
<1>l. PICK l : l = Len(q)
  OBVIOUS
<1>1. l \in Nat /\ DOMAIN q = 1..l /\ n \in Int /\ 1 <= n /\ n <= l /\ \A j \in 1..l : q[j] \in S
  BY <1>l, Places1
<1>a. PICK a : a = SubSeq(q, 1, n - 1)
  OBVIOUS
<1>b. PICK b : b = SubSeq(q, n + 1, l)
  OBVIOUS
<1>2. a \in Seq(S) /\ Len(a) = n - 1 /\ \A j \in 1..(n - 1) : a[j] = q[j]
  <2>1. \A j \in 1..(n - 1) : q[j] \in S
    BY <1>1
  <2>2. /\ a \in Seq(S) /\ Len(a) = IF 1 <= n - 1 THEN (n - 1) - 1 + 1 ELSE 0
        /\ \A j \in 1..((n - 1) - 1 + 1) : a[j] = q[1 + j - 1]
    BY <1>1, <1>a, <2>1, SubSeqProperties
  <2> QED BY <1>1, <2>2
<1>3. b \in Seq(S) /\ Len(b) = l - n /\ \A j \in 1..(l - n) : b[j] = q[n + j]
  <2>1. \A j \in (n + 1)..l : q[j] \in S
    BY <1>1
  <2>2. /\ b \in Seq(S) /\ Len(b) = IF n + 1 <= l THEN l - (n + 1) + 1 ELSE 0
        /\ \A j \in 1..(l - (n + 1) + 1) : b[j] = q[(n + 1) + j - 1]
    BY <1>1, <1>b, <2>1, SubSeqProperties
  <2>3. l - (n + 1) + 1 = l - n /\ \A j \in 1..(l - n) : (n + 1) + j - 1 = n + j
    BY <1>1
  <2>4. Len(b) = l - n
    BY <1>1, <2>2, <2>3
  <2> QED BY <2>2, <2>3, <2>4
<1>4. /\ r \in Seq(S) /\ Len(r) = Len(a) + Len(b)
      /\ \A j \in 1..(Len(a) + Len(b)) : r[j] = IF j <= Len(a) THEN a[j] ELSE b[j - Len(a)]
  <2>1. r = a \o b
    BY <1>a, <1>b, <1>l DEF RemoveAt
  <2> QED BY <1>2, <1>3, <2>1, ConcatProperties
<1>5. DOMAIN r = 1..(l - 1)
  BY <1>1, <1>2, <1>3, <1>4, LenProperties
<1>f. PICK f : f = [j \in 1..(l - 1) |-> IF j < n THEN j ELSE j + 1]
  OBVIOUS
<1>6. ASSUME NEW j \in 1..(l - 1) PROVE r[j] = q[f[j]]
  <2>1. CASE j < n
    BY <1>1, <1>2, <1>3, <1>4, <1>f, <2>1
  <2>2. CASE ~(j < n)
    <3>1. j - (n - 1) \in 1..(l - n) /\ n + (j - (n - 1)) = j + 1 /\ ~(j <= n - 1) /\ j \in 1..((n - 1) + (l - n))
      BY <1>1, <2>2
    <3>2. r[j] = b[j - (n - 1)]
      BY <1>2, <1>3, <1>4, <3>1
    <3> QED BY <1>3, <1>f, <2>2, <3>1, <3>2
  <2> QED BY <2>1, <2>2
<1>7. f \in [DOMAIN r -> DOMAIN q \ {n}]
  BY <1>1, <1>5, <1>f
<1>8. \A i, j \in DOMAIN r : i < j => f[i] < f[j]
  BY <1>1, <1>5, <1>f
<1>9. ASSUME NEW x \in DOMAIN q \ {n} PROVE \E m \in DOMAIN r : f[m] = x
  <2>1. CASE x < n
    BY <1>1, <1>5, <1>f, <2>1
  <2>2. CASE ~(x < n)
    <3>1. x - 1 \in 1..(l - 1) /\ ~(x - 1 < n)
      BY <1>1, <2>2
    <3>2. f[x - 1] = x
      BY <1>1, <1>f, <3>1
    <3> QED BY <1>5, <3>1, <3>2
  <2> QED BY <2>1, <2>2
<1>10. \A m \in DOMAIN r : r[m] = q[f[m]]
  BY <1>5, <1>6
<1>T. PICK T : T = DOMAIN q \ {n}
  OBVIOUS
<1>11. f \in [DOMAIN r -> T] /\ T \subseteq DOMAIN q /\ \A x \in T : \E m \in DOMAIN r : f[m] = x
  BY <1>7, <1>9, <1>T
<1>12. Thinned(q, r, T)
  BY <1>8, <1>10, <1>11 DEF Thinned
<1> QED BY <1>4, <1>12, <1>T

LEMMA TailThins ==
  ASSUME NEW S, NEW q \in Seq(S), q # <<>>, NEW r, r = Tail(q)
  PROVE  r \in Seq(S) /\ Thinned(q, r, DOMAIN q \ {1}) /\ 1 \in DOMAIN q /\ Head(q) = q[1]
<1>l. PICK l : l = Len(q)
  OBVIOUS
<1>1. /\ l \in Nat \ {0} /\ DOMAIN q = 1..l /\ r \in Seq(S) /\ DOMAIN r = 1..(l - 1)
      /\ \A j \in 1..(l - 1) : r[j] = q[j + 1]
      /\ q[1] = Head(q)
  BY <1>l, HeadTailProperties, LenProperties, EmptySeq
<1>f. PICK f : f = [j \in 1..(l - 1) |-> j + 1]
  OBVIOUS
<1>2. f \in [DOMAIN r -> DOMAIN q \ {1}]
  BY <1>1, <1>f
<1>3. \A i, j \in DOMAIN r : i < j => f[i] < f[j]
  BY <1>1, <1>f
<1>4. ASSUME NEW x \in DOMAIN q \ {1} PROVE \E n \in DOMAIN r : f[n] = x
  <2>1. x - 1 \in 1..(l - 1) /\ f[x - 1] = x
    BY <1>1, <1>f
  <2> QED BY <1>1, <2>1
<1>5. \A n \in DOMAIN r : r[n] = q[f[n]]
  BY <1>1, <1>f
<1> QED BY <1>1, <1>2, <1>3, <1>4, <1>5 DEF Thinned

\* The places before and at the n-th of a set of places.
LEMMA PartThins ==
  ASSUME NEW V, NEW q \in Seq(V), NEW S \in SUBSET DOMAIN q, NEW r, r = Part(q, S)
  PROVE  r \in Seq(V) /\ Thinned(q, r, S)
<1>n. PICK n : n = Cardinality(S)
  OBVIOUS
<1>c. PICK c : c = [i \in S |-> Cardinality({j \in S : j <= i})]
  OBVIOUS
<1>1. DOMAIN q = 1..Len(q) /\ Len(q) \in Nat /\ S \subseteq Nat /\ \A i \in S : q[i] \in V
  BY Places1
<1>2. IsFiniteSet(S) /\ n \in Nat
  <2>1. IsFiniteSet(1..Len(q))
    BY <1>1, FS_Interval
  <2>2. S \subseteq 1..Len(q)
    BY <1>1
  <2>3. IsFiniteSet(S)
    BY <2>1, <2>2, FS_Subset
  <2> QED BY <2>3, <1>n, FS_CardinalityType
<1>3. ASSUME NEW i \in S PROVE c[i] \in 1..n /\ c[i] \in Nat /\ IsFiniteSet({j \in S : j <= i})
  <2>1. {j \in S : j <= i} \subseteq S /\ {i} \subseteq {j \in S : j <= i}
    BY <1>1
  <2>2. IsFiniteSet({j \in S : j <= i}) /\ Cardinality({j \in S : j <= i}) <= n
    BY <1>2, <1>n, <2>1, FS_Subset
  <2>3. Cardinality({j \in S : j <= i}) \in Nat /\ Cardinality({j \in S : j <= i}) # 0
    BY <2>1, <2>2, FS_CardinalityType, FS_EmptySet
  <2> QED BY <1>2, <1>c, <2>2, <2>3
<1>4. ASSUME NEW i \in S, NEW j \in S, i < j PROVE c[i] < c[j]
  <2>a. PICK A, B : A = {x \in S : x <= i} /\ B = {x \in S : x <= j}
    OBVIOUS
  <2>1. A \subseteq B /\ j \in B /\ j \notin A
    BY <1>1, <1>4, <2>a
  <2>2. IsFiniteSet(A) /\ IsFiniteSet(B) /\ Cardinality(A) = c[i] /\ Cardinality(B) = c[j]
    BY <1>3, <1>c, <2>a
  <2>3. Cardinality(A) <= Cardinality(B) /\ (Cardinality(B) = Cardinality(A) => B = A)
    BY <2>1, <2>2, FS_Subset
  <2>4. c[i] \in Nat /\ c[j] \in Nat
    BY <1>3
  <2> QED BY <2>1, <2>2, <2>3, <2>4
<1>5. c \in Injection(S, 1..n)
  <2>1. c \in [S -> 1..n]
    BY <1>3, <1>c
  <2>2. \A i, j \in S : c[i] = c[j] => i = j
    <3> SUFFICES ASSUME NEW i \in S, NEW j \in S, c[i] = c[j], i # j PROVE FALSE
      OBVIOUS
    <3>1. i < j \/ j < i
      BY <1>1
    <3>2. c[i] \in Nat /\ c[j] \in Nat
      BY <1>3
    <3>3. ~(c[i] < c[j]) /\ ~(c[j] < c[i])
      BY <3>2
    <3> QED BY <1>4, <3>1, <3>3
  <2> QED BY <2>1, <2>2 DEF Injection, IsInjective
<1>6. c \in Surjection(S, 1..n)
  <2>1. IsFiniteSet(1..n) /\ Cardinality(1..n) = n
    BY <1>2, FS_Interval
  <2> QED BY <1>2, <1>5, <1>n, <2>1, FS_Injection
<1>7. \A m \in 1..n : \E i \in S : c[i] = m
  BY <1>6 DEF Surjection
<1> DEFINE place(m) == CHOOSE i \in S : Cardinality({j \in S : j <= i}) = m
<1>a. r = [m \in 1..n |-> q[place(m)]]
  BY <1>n DEF Part
<1>b. ASSUME NEW m \in 1..n PROVE place(m) \in S /\ c[place(m)] = m
  <2>1. \E i \in S : Cardinality({j \in S : j <= i}) = m
    BY <1>7, <1>c
  <2>2. place(m) \in S /\ Cardinality({j \in S : j <= place(m)}) = m
    BY <2>1
  <2> QED BY <1>c, <2>2
<1> HIDE DEF place
<1>f. PICK f : f = [m \in 1..n |-> place(m)]
  OBVIOUS
<1>8. f \in [1..n -> S] /\ \A m \in 1..n : f[m] \in S /\ c[f[m]] = m
  BY <1>b, <1>f
<1>9. r = [m \in 1..n |-> q[f[m]]]
  BY <1>a, <1>f
<1>10. r \in Seq(V)
  BY <1>1, <1>2, <1>8, <1>9, IsASeq
<1>11. DOMAIN r = 1..n /\ f \in [DOMAIN r -> S] /\ \A m \in DOMAIN r : r[m] = q[f[m]]
  <2>1. DOMAIN r = 1..n /\ \A m \in 1..n : r[m] = q[f[m]]
    BY <1>9
  <2> QED BY <1>8, <2>1
<1>12. ASSUME NEW i \in 1..n, NEW j \in 1..n, i < j PROVE f[i] < f[j]
  <2>1. f[i] \in Nat /\ f[j] \in Nat
    BY <1>1, <1>8
  <2>2. ~(f[j] < f[i]) /\ f[i] # f[j]
    BY <1>2, <1>4, <1>8, <1>12
  <2> QED BY <2>1, <2>2
<1>13. ASSUME NEW x \in S PROVE \E m \in DOMAIN r : f[m] = x
  <2>1. c[x] \in 1..n /\ f[c[x]] \in S /\ c[f[c[x]]] = c[x]
    BY <1>3, <1>8
  <2>2. f[c[x]] = x
    BY <1>5, <2>1 DEF Injection, IsInjective
  <2> QED BY <1>11, <2>1, <2>2
<1> QED BY <1>10, <1>11, <1>12, <1>13 DEF Thinned

\* What thinning, appending and inserting do to the numbers of a queue.
LEMMA ThinnedIds ==
  ASSUME NEW V, NEW q \in Seq(V), NEW r \in Seq(V), NEW S, Thinned(q, r, S)
  PROVE  /\ Ids(r) = {q[i].mid : i \in S} \ {0}
         /\ Ids(r) \subseteq Ids(q)
         /\ Distinct(q) => Distinct(r)
         /\ \A n \in DOMAIN r : \E i \in S : i \in DOMAIN q /\ r[n] = q[i]
         /\ \A i, j \in DOMAIN r : i < j => \E a, b \in DOMAIN q : a < b /\ r[i] = q[a] /\ r[j] = q[b]
<1>1. S \subseteq DOMAIN q
  BY DEF Thinned
<1>2. PICK f \in [DOMAIN r -> S] :
        /\ \A i, j \in DOMAIN r : i < j => f[i] < f[j]
        /\ \A x \in S : \E n \in DOMAIN r : f[n] = x
        /\ \A n \in DOMAIN r : r[n] = q[f[n]]
  BY DEF Thinned
<1>3. {r[n].mid : n \in DOMAIN r} = {q[i].mid : i \in S}
  BY <1>2
<1>4. DOMAIN r \subseteq Nat /\ DOMAIN q \subseteq Nat
  BY Places1
<1>5. Distinct(q) => Distinct(r)
  <2> SUFFICES ASSUME Distinct(q), NEW i \in DOMAIN r, NEW j \in DOMAIN r, r[i].mid = r[j].mid, r[i].mid # 0, i # j
               PROVE  FALSE
    BY DEF Distinct
  <2>1. f[i] = f[j]
    BY <1>1, <1>2 DEF Distinct
  <2>2. i < j \/ j < i
    BY <1>4
  <2>3. f[i] \in Nat
    BY <1>1, <1>2, <1>4
  <2> QED BY <1>2, <2>1, <2>2, <2>3
<1>6. \A n \in DOMAIN r : f[n] \in S /\ f[n] \in DOMAIN q
  BY <1>1, <1>2
<1> QED BY <1>1, <1>2, <1>3, <1>5, <1>6 DEF Ids

LEMMA JoinedIds ==
  ASSUME NEW V, NEW q \in Seq(V), NEW r \in Seq(V), NEW u, u = q \o r
  PROVE  /\ u \in Seq(V)
         /\ \A i : i \in Ids(u) <=> i \in Ids(q) \/ i \in Ids(r)
         /\ Distinct(q) /\ Distinct(r) /\ Ids(q) \cap Ids(r) = {} => Distinct(u)
         /\ DOMAIN u = 1..Len(q)+Len(r) /\ DOMAIN q = 1..Len(q) /\ DOMAIN r = 1..Len(r) /\ Len(q) \in Nat /\ Len(r) \in Nat
         /\ \A i \in DOMAIN q : u[i] = q[i]
         /\ \A i \in DOMAIN r : u[Len(q) + i] = r[i]
         /\ \A i \in DOMAIN u : i \in DOMAIN q \/ (i - Len(q) \in DOMAIN r /\ i > Len(q) /\ u[i] = r[i - Len(q)])
<1>l. PICK l, m : l = Len(q) /\ m = Len(r)
  OBVIOUS
<1>1. l \in Nat /\ m \in Nat /\ DOMAIN q = 1..l /\ DOMAIN r = 1..m
  BY <1>l, Places1
<1>2. u \in Seq(V) /\ Len(u) = l + m /\ \A i \in 1..l+m : u[i] = IF i <= l THEN q[i] ELSE r[i - l]
  BY <1>l, ConcatProperties
<1>3. DOMAIN u = 1..l+m
  BY <1>2, Places1
<1>4. \A i \in DOMAIN q : u[i] = q[i] /\ i \in DOMAIN u
  BY <1>1, <1>2, <1>3
<1>5. ASSUME NEW i \in DOMAIN r PROVE u[l + i] = r[i] /\ l + i \in DOMAIN u
  <2>1. l + i \in 1..l+m /\ ~(l + i <= l) /\ (l + i) - l = i
    BY <1>1
  <2> QED BY <1>2, <1>3, <2>1
<1>6. ASSUME NEW i \in DOMAIN u PROVE i \in DOMAIN q \/ (i - l \in DOMAIN r /\ i > l /\ u[i] = r[i - l])
  <2>1. CASE i <= l
    BY <1>1, <1>3, <2>1
  <2>2. CASE ~(i <= l)
    BY <1>1, <1>2, <1>3, <2>2
  <2> QED BY <2>1, <2>2
<1>7. {u[i].mid : i \in DOMAIN u} = {q[i].mid : i \in DOMAIN q} \cup {r[i].mid : i \in DOMAIN r}
  <2>1. ASSUME NEW x \in {u[i].mid : i \in DOMAIN u}
        PROVE  x \in {q[i].mid : i \in DOMAIN q} \cup {r[i].mid : i \in DOMAIN r}
    <3>1. PICK i \in DOMAIN u : x = u[i].mid
      BY <2>1
    <3> QED BY <1>4, <1>6, <3>1
  <2>2. {q[i].mid : i \in DOMAIN q} \subseteq {u[i].mid : i \in DOMAIN u}
    BY <1>4
  <2>3. {r[i].mid : i \in DOMAIN r} \subseteq {u[i].mid : i \in DOMAIN u}
    BY <1>5
  <2> QED BY <2>1, <2>2, <2>3
<1>8. ASSUME Distinct(q), Distinct(r), Ids(q) \cap Ids(r) = {}, NEW i \in DOMAIN u, NEW j \in DOMAIN u,
             u[i].mid = u[j].mid, u[i].mid # 0
      PROVE  i = j
  <2>1. CASE i \in DOMAIN q /\ j \in DOMAIN q
    BY <1>4, <1>8, <2>1 DEF Distinct
  <2>2. CASE i \notin DOMAIN q /\ j \notin DOMAIN q
    <3>1. i - l = j - l
      BY <1>6, <1>8, <2>2 DEF Distinct
    <3> QED BY <1>1, <1>3, <3>1
  <2>3. CASE i \in DOMAIN q /\ j \notin DOMAIN q
    BY <1>4, <1>6, <1>8, <2>3 DEF Ids
  <2>4. CASE i \notin DOMAIN q /\ j \in DOMAIN q
    BY <1>4, <1>6, <1>8, <2>4 DEF Ids
  <2> QED BY <2>1, <2>2, <2>3, <2>4
<1>9. Distinct(q) /\ Distinct(r) /\ Ids(q) \cap Ids(r) = {} => Distinct(u)
  BY <1>8 DEF Distinct
<1>10. Ids(u) = Ids(q) \cup Ids(r)
  BY <1>7 DEF Ids
<1> QED BY <1>1, <1>2, <1>3, <1>4, <1>5, <1>6, <1>9, <1>10, <1>l

LEMMA JoinedSet ==
  ASSUME NEW V, NEW q \in Seq(V), NEW r \in Seq(V)
  PROVE  Ids(q \o r) = Ids(q) \cup Ids(r)
<1>1. PICK u : u = q \o r
  OBVIOUS
<1>2. Ids(u) = Ids(q) \cup Ids(r)
  BY <1>1, JoinedIds
<1> QED BY <1>1, <1>2

LEMMA SingleIds ==
  ASSUME NEW V, NEW m \in V
  PROVE  /\ <<m>> \in Seq(V) /\ DOMAIN <<m>> = {1} /\ Len(<<m>>) = 1 /\ <<m>>[1] = m /\ <<m>> # <<>>
         /\ Ids(<<m>>) = {m.mid} \ {0} /\ Distinct(<<m>>)
<1>1. <<m>> \in Seq(V) /\ DOMAIN <<m>> = {1} /\ Len(<<m>>) = 1 /\ <<m>>[1] = m /\ <<m>> # <<>>
  OBVIOUS
<1> QED BY <1>1 DEF Ids, Distinct

\* A message put on a bus may go before others.
LEMMA InsertedIds ==
  ASSUME NEW V, NEW q \in Seq(V), NEW e \in V, NEW i \in 1..Len(q)+1, NEW r, r = InsertAt(q, i, e)
  PROVE  /\ r \in Seq(V) /\ Ids(r) = Ids(q) \cup ({e.mid} \ {0})
         /\ Distinct(q) /\ e.mid \notin Ids(q) => Distinct(r)
         /\ \A n \in DOMAIN r : r[n] = e \/ \E j \in DOMAIN q : r[n] = q[j]
<1>l. PICK l : l = Len(q)
  OBVIOUS
<1>a. PICK a, b : a = SubSeq(q, 1, i - 1) /\ b = SubSeq(q, i, l)
  OBVIOUS
<1>1. l \in Nat /\ DOMAIN q = 1..l /\ i \in Int /\ i - 1 \in Int /\ i >= 1 /\ i <= l + 1 /\ \A j \in 1..l : q[j] \in V
  BY <1>l, Places1
<1>2. a \in Seq(V) /\ DOMAIN a = 1..(i - 1) /\ \A j \in 1..i-1 : a[j] = q[j]
  <2>1. \A j \in 1..i-1 : q[j] \in V
    BY <1>1
  <2>2. /\ a \in Seq(V) /\ Len(a) = IF 1 <= i - 1 THEN (i - 1) - 1 + 1 ELSE 0
        /\ \A j \in 1..(i-1)-1+1 : a[j] = q[1 + j - 1]
    BY <1>1, <1>a, <2>1, SubSeqProperties
  <2>3. DOMAIN a = 1..Len(a)
    BY <2>2, Places1
  <2> QED BY <1>1, <2>2, <2>3
<1>3. b \in Seq(V) /\ DOMAIN b = 1..(l - i + 1) /\ \A j \in 1..l-i+1 : b[j] = q[i+j-1]
  <2>1. \A j \in i..l : q[j] \in V
    BY <1>1
  <2>2. /\ b \in Seq(V) /\ Len(b) = IF i <= l THEN l - i + 1 ELSE 0
        /\ \A j \in 1..l-i+1 : b[j] = q[i+j-1]
    BY <1>1, <1>a, <2>1, SubSeqProperties
  <2>3. DOMAIN b = 1..Len(b)
    BY <2>2, Places1
  <2> QED BY <1>1, <2>2, <2>3
<1>4. r = (a \o <<e>>) \o b
  BY <1>a, <1>l DEF InsertAt
<1>5. Thinned(q, a, 1..(i - 1))
  <2>f. PICK f : f = [j \in 1..(i - 1) |-> j]
    OBVIOUS
  <2>1. f \in [DOMAIN a -> 1..(i - 1)] /\ \A j \in DOMAIN a : f[j] = j
    BY <1>2, <2>f
  <2>2. 1..(i - 1) \subseteq DOMAIN q
    BY <1>1
  <2>3. \A x \in 1..(i - 1) : x \in DOMAIN a /\ f[x] = x
    BY <1>2, <2>1
  <2>4. \A n \in DOMAIN a : a[n] = q[f[n]]
    BY <1>2, <2>1
  <2> QED BY <2>1, <2>2, <2>3, <2>4 DEF Thinned
<1>6. Thinned(q, b, i..l)
  <2>f. PICK f : f = [j \in 1..(l - i + 1) |-> i + j - 1]
    OBVIOUS
  <2>1. f \in [DOMAIN b -> i..l]
    BY <1>1, <1>3, <2>f
  <2>2. \A x \in i..l : x - i + 1 \in DOMAIN b /\ f[x - i + 1] = x
    BY <1>1, <1>3, <2>f
  <2>3. \A x, y \in DOMAIN b : x < y => f[x] < f[y]
    BY <1>1, <1>3, <2>f
  <2>4. \A n \in DOMAIN b : b[n] = q[f[n]]
    BY <1>1, <1>3, <2>f
  <2>5. i..l \subseteq DOMAIN q
    BY <1>1
  <2> QED BY <2>1, <2>2, <2>3, <2>4, <2>5 DEF Thinned
<1>7. /\ Ids(a) = {q[j].mid : j \in 1..(i - 1)} \ {0} /\ Ids(b) = {q[j].mid : j \in i..l} \ {0}
      /\ Ids(a) \subseteq Ids(q) /\ Ids(b) \subseteq Ids(q)
      /\ Distinct(q) => Distinct(a) /\ Distinct(b)
  <2>a. PICK A, B : A = 1..(i - 1) /\ B = i..l
    OBVIOUS
  <2>b. a \in Seq(V) /\ b \in Seq(V) /\ Thinned(q, a, A) /\ Thinned(q, b, B)
    BY <1>2, <1>3, <1>5, <1>6, <2>a
  <2>1. Ids(a) = {q[j].mid : j \in A} \ {0} /\ Ids(a) \subseteq Ids(q) /\ (Distinct(q) => Distinct(a))
    BY <2>b, ThinnedIds
  <2>2. Ids(b) = {q[j].mid : j \in B} \ {0} /\ Ids(b) \subseteq Ids(q) /\ (Distinct(q) => Distinct(b))
    BY <2>b, ThinnedIds
  <2> QED BY <2>1, <2>2, <2>a
<1>c. PICK c : c = a \o <<e>>
  OBVIOUS
<1>d. PICK d : d = <<e>>
  OBVIOUS
<1>8. /\ c \in Seq(V) /\ Ids(c) = Ids(a) \cup ({e.mid} \ {0})
      /\ Distinct(a) /\ e.mid \notin Ids(a) => Distinct(c)
      /\ \A n \in DOMAIN c : c[n] = e \/ \E j \in DOMAIN q : c[n] = q[j]
  <2>1. d \in Seq(V) /\ DOMAIN d = {1} /\ d[1] = e /\ Ids(d) = {e.mid} \ {0} /\ Distinct(d)
    BY <1>d, SingleIds
  <2>a. c = a \o d
    BY <1>c, <1>d
  <2>2. /\ c \in Seq(V) /\ Ids(c) = Ids(a) \cup Ids(d)
        /\ Distinct(a) /\ Distinct(d) /\ Ids(a) \cap Ids(d) = {} => Distinct(c)
        /\ \A n \in DOMAIN a : c[n] = a[n]
        /\ \A n \in DOMAIN c : n \in DOMAIN a \/ (n - Len(a) \in DOMAIN d /\ n > Len(a) /\ c[n] = d[n - Len(a)])
    <3>1. a \in Seq(V) /\ d \in Seq(V)
      BY <1>2, <2>1
    <3>2. c \in Seq(V) /\ Ids(c) = Ids(a) \cup Ids(d)
      <4>1. c \in Seq(V)
        BY <2>a, <3>1, JoinedIds
      <4>2. Ids(c) = Ids(a) \cup Ids(d)
        BY <2>a, <3>1, JoinedSet, Zenon
      <4> QED BY <4>1, <4>2
    <3>3. Distinct(a) /\ Distinct(d) /\ Ids(a) \cap Ids(d) = {} => Distinct(c)
      BY <2>a, <3>1, JoinedIds
    <3>4. \A n \in DOMAIN a : c[n] = a[n]
      BY <2>a, <3>1, JoinedIds
    <3>5. \A n \in DOMAIN c : n \in DOMAIN a \/ (n - Len(a) \in DOMAIN d /\ n > Len(a) /\ c[n] = d[n - Len(a)])
      BY <2>a, <3>1, JoinedIds
    <3> QED BY <3>2, <3>3, <3>4, <3>5
  <2>3. ASSUME NEW n \in DOMAIN c PROVE c[n] = e \/ \E j \in DOMAIN q : c[n] = q[j]
    <3>1. CASE n \in DOMAIN a
      <4>1. n \in DOMAIN q /\ a[n] = q[n]
        BY <1>1, <1>2, <3>1
      <4> QED BY <2>2, <3>1, <4>1
    <3>2. CASE n \notin DOMAIN a
      BY <2>1, <2>2, <3>2
    <3> QED BY <3>1, <3>2
  <2> QED BY <2>1, <2>2, <2>3
<1>9. /\ r \in Seq(V) /\ Ids(r) = Ids(c) \cup Ids(b)
      /\ Distinct(c) /\ Distinct(b) /\ Ids(c) \cap Ids(b) = {} => Distinct(r)
      /\ \A n \in DOMAIN c : r[n] = c[n]
      /\ \A n \in DOMAIN r : n \in DOMAIN c \/ (n - Len(c) \in DOMAIN b /\ n > Len(c) /\ r[n] = b[n - Len(c)])
  <2>1. r = c \o b
    BY <1>4, <1>c
  <2>2. c \in Seq(V) /\ b \in Seq(V)
    BY <1>3, <1>8
  <2>3. r \in Seq(V) /\ Ids(r) = Ids(c) \cup Ids(b)
    <3>1. r \in Seq(V)
      BY <2>1, <2>2, JoinedIds
    <3>2. Ids(r) = Ids(c) \cup Ids(b)
      BY <2>1, <2>2, JoinedSet, Zenon
    <3> QED BY <3>1, <3>2
  <2>4. Distinct(c) /\ Distinct(b) /\ Ids(c) \cap Ids(b) = {} => Distinct(r)
    BY <2>1, <2>2, JoinedIds
  <2>5. \A n \in DOMAIN c : r[n] = c[n]
    BY <2>1, <2>2, JoinedIds
  <2>6. \A n \in DOMAIN r : n \in DOMAIN c \/ (n - Len(c) \in DOMAIN b /\ n > Len(c) /\ r[n] = b[n - Len(c)])
    BY <2>1, <2>2, JoinedIds
  <2> QED BY <2>3, <2>4, <2>5, <2>6
<1>10. Ids(a) \cup Ids(b) = Ids(q)
  BY <1>1, <1>7 DEF Ids
<1>11. ASSUME Distinct(q), e.mid \notin Ids(q) PROVE Distinct(r)
  <2>1. Ids(a) \cap Ids(b) = {}
    <3> SUFFICES ASSUME NEW x \in Ids(a), x \in Ids(b) PROVE FALSE
      OBVIOUS
    <3>1. PICK y \in 1..(i - 1), z \in i..l : q[y].mid = x /\ q[z].mid = x /\ x # 0
      BY <1>7
    <3>2. y \in DOMAIN q /\ z \in DOMAIN q /\ y # z
      BY <1>1
    <3> QED BY <1>11, <3>1, <3>2 DEF Distinct
  <2>2. e.mid \notin Ids(a) /\ e.mid \notin Ids(b)
    BY <1>10, <1>11
  <2>3. Ids(c) \cap Ids(b) = {}
    BY <1>8, <2>1, <2>2
  <2> QED BY <1>7, <1>8, <1>9, <1>11, <2>2, <2>3
<1>12. ASSUME NEW n \in DOMAIN r PROVE r[n] = e \/ \E j \in DOMAIN q : r[n] = q[j]
  <2>1. CASE n \in DOMAIN c
    BY <1>8, <1>9, <2>1
  <2>2. CASE n \notin DOMAIN c
    <3>1. PICK x \in DOMAIN b : r[n] = b[x]
      BY <1>9, <2>2
    <3>2. b[x] = q[i + x - 1] /\ i + x - 1 \in DOMAIN q
      BY <1>1, <1>3
    <3> QED BY <3>1, <3>2
  <2> QED BY <2>1, <2>2
<1> QED BY <1>8, <1>9, <1>10, <1>11, <1>12

-----------------------------------------------------------------------------
\* What the constants are.
LEMMA Basics ==
  /\ Std \in [Tasks -> PortIds] /\ \A t, u \in Tasks : Std[t] = Std[u] => t = u
  /\ \A t \in Tasks : Std[t] \in Range(Std) /\ t \notin Surrogates /\ t \in All /\ t # None
  /\ \A p \in Range(Std) : \E t \in Tasks : Std[t] = p
  /\ \A g \in Surrogates : g \notin Tasks /\ g \in All /\ g # None
  /\ \A t \in All : t \in Tasks \/ t \in Surrogates
  /\ None \notin All /\ None \notin PortIds /\ PortIds \cap Media = {} /\ Range(Std) \subseteq PortIds
  /\ Parent \in [Tasks -> Tasks \cup {None}] /\ \A t \in Tasks : Parent[t] # t
  /\ MaxSent \in Nat /\ IsFiniteSet(Tasks)
<1>1. Std \in [Tasks -> PortIds] /\ IsInjective(Std) /\ Tasks \cap Surrogates = {} /\ None \notin Tasks \cup Surrogates \cup PortIds
  BY PortsAssumption
<1>2. Range(Std) \subseteq PortIds /\ (\A t \in Tasks : Std[t] \in Range(Std)) /\ \A p \in Range(Std) : \E t \in Tasks : Std[t] = p
  BY <1>1 DEF Range
<1>3. \A t, u \in Tasks : Std[t] = Std[u] => t = u
  BY <1>1 DEF IsInjective
<1> QED BY <1>1, <1>2, <1>3, PortsAssumption DEF All

LEMMA WorldBasics ==
  ASSUME world \in Worlds
  PROVE  /\ world.calls \in [Tasks -> SUBSET Calls] /\ world.ports \subseteq PortIds /\ world.disciplines \subseteq Disciplines
         /\ world.modes \subseteq Modes /\ world.priorities \subseteq Nat /\ world.random \in BOOLEAN
  BY PortsAssumption DEF WorldAssumption

-----------------------------------------------------------------------------
\* Changes of the state.

\* Components of u that are not named in K are as in s.
Keeps(s, u, K) ==
  /\ "at" \in K \/ u.at = s.at
  /\ "rec" \in K \/ u.rec = s.rec
  /\ "rtoep" \in K \/ u.rtoep = s.rtoep
  /\ "got" \in K \/ u.got = s.got
  /\ "target" \in K \/ u.target = s.target
  /\ "state" \in K \/ u.state = s.state
  /\ "owner" \in K \/ u.owner = s.owner
  /\ "queue" \in K \/ u.queue = s.queue
  /\ "pairs" \in K \/ u.pairs = s.pairs
  /\ "media" \in K \/ u.media = s.media
  /\ "sent" \in K \/ u.sent = s.sent
  /\ "received" \in K \/ u.received = s.received
  /\ "lost" \in K \/ u.lost = s.lost
  /\ "abort" \in K \/ u.abort = s.abort

WithQueue(s, p, q) == [s EXCEPT !.queue[p] = q]
WithLost(s, N) == [s EXCEPT !.lost = @ \cup N]
WithOwner(s, p, o) == [s EXCEPT !.owner[p] = o]
WithPairs(s, x, P) == [s EXCEPT !.pairs[x] = P]
WithMedia(s, m, q) == [s EXCEPT !.media[m] = q]

\* The state u is s with one component changed.
Queued(s, u, p, q) == Keeps(s, u, {"queue"}) /\ \A r \in PortIds : u.queue[r] = IF r = p THEN q ELSE s.queue[r]
Woken(s, u, T) ==
  /\ Keeps(s, u, {"at", "rtoep"})
  /\ \A t \in All : u.at[t] = (IF t \in T THEN "awake" ELSE s.at[t]) /\ u.rtoep[t] = IF t \in T THEN FALSE ELSE s.rtoep[t]
Owned(s, u, p, o) == Keeps(s, u, {"owner"}) /\ \A r \in PortIds : u.owner[r] = IF r = p THEN o ELSE s.owner[r]
Paired(s, u, x, P) == Keeps(s, u, {"pairs"}) /\ \A r \in PortIds : u.pairs[r] = IF r = x THEN P ELSE s.pairs[r]
Carrying(s, u, m, q) == Keeps(s, u, {"media"}) /\ \A r \in Media : u.media[r] = IF r = m THEN q ELSE s.media[r]

LEMMA NumberedForm ==
  ASSUME NEW s, Typed(s), s.sent + 1 <= MaxSent, NEW u, u = Numbered(s)
  PROVE  /\ Typed(u) /\ Keeps(s, u, {"sent"})
         /\ u.sent = s.sent + 1
<1>a. PICK new1 : new1 = s.sent + 1
  OBVIOUS
<1>1. u = [at |-> s.at, rec |-> s.rec, rtoep |-> s.rtoep, got |-> s.got, target |-> s.target, state |-> s.state, owner |-> s.owner, queue |-> s.queue, pairs |-> s.pairs, media |-> s.media, sent |-> new1, received |-> s.received, lost |-> s.lost, abort |-> s.abort]
  BY <1>a DEF Numbered, Typed, Shape
<1>2. Shape(u) /\ Keeps(s, u, {"sent"}) /\ u.sent = new1
  BY <1>1 DEF Shape, Keeps
<1>3. new1 \in 0..MaxSent /\ new1 \in Nat
  BY <1>a, Basics DEF Typed
<1>4. Typed(u)
  BY <1>2, <1>3 DEF Typed, Keeps
<1> QED BY <1>2, <1>3, <1>4, <1>a

LEMMA QueueForm ==
  ASSUME NEW s, Typed(s), NEW p \in PortIds, NEW q \in Seq(SoundOnes), NEW u, u = WithQueue(s, p, q)
  PROVE  Typed(u) /\ Queued(s, u, p, q)
<1>a. PICK new1 : new1 = [s.queue EXCEPT ![p] = q]
  OBVIOUS
<1>1. u = [at |-> s.at, rec |-> s.rec, rtoep |-> s.rtoep, got |-> s.got, target |-> s.target, state |-> s.state, owner |-> s.owner, queue |-> new1, pairs |-> s.pairs, media |-> s.media, sent |-> s.sent, received |-> s.received, lost |-> s.lost, abort |-> s.abort]
  BY <1>a DEF WithQueue, Typed, Shape
<1>2. Shape(u) /\ Keeps(s, u, {"queue"}) /\ u.queue = new1
  BY <1>1 DEF Shape, Keeps
<1>3. new1 \in [PortIds -> Seq(SoundOnes)] /\ \A r \in PortIds : new1[r] = IF r = p THEN q ELSE s.queue[r]
  BY <1>a DEF Typed
<1>4. Typed(u)
  BY <1>2, <1>3 DEF Typed, Keeps
<1> QED BY <1>2, <1>3, <1>4, <1>a DEF Queued

LEMMA LostForm ==
  ASSUME NEW s, Typed(s), NEW N \in SUBSET (1..MaxSent), NEW u, u = WithLost(s, N)
  PROVE  /\ Typed(u) /\ Keeps(s, u, {"lost"})
         /\ u.lost = s.lost \cup N
<1>a. PICK new1 : new1 = s.lost \cup N
  OBVIOUS
<1>1. u = [at |-> s.at, rec |-> s.rec, rtoep |-> s.rtoep, got |-> s.got, target |-> s.target, state |-> s.state, owner |-> s.owner, queue |-> s.queue, pairs |-> s.pairs, media |-> s.media, sent |-> s.sent, received |-> s.received, lost |-> new1, abort |-> s.abort]
  BY <1>a DEF WithLost, Typed, Shape
<1>2. Shape(u) /\ Keeps(s, u, {"lost"}) /\ u.lost = new1
  BY <1>1 DEF Shape, Keeps
<1>3. new1 \subseteq 1..MaxSent
  BY <1>a DEF Typed
<1>4. Typed(u)
  BY <1>2, <1>3 DEF Typed, Keeps
<1> QED BY <1>2, <1>3, <1>4, <1>a

LEMMA WakeForm ==
  ASSUME NEW s, Typed(s), NEW T \in SUBSET All, NEW u, u = Wake(s, T)
  PROVE  Typed(u) /\ Woken(s, u, T)
<1>a. PICK new1 : new1 = Put(s.at, T, "awake")
  OBVIOUS
<1>b. PICK new2 : new2 = Put(s.rtoep, T, FALSE)
  OBVIOUS
<1>1. u = [at |-> new1, rec |-> s.rec, rtoep |-> new2, got |-> s.got, target |-> s.target, state |-> s.state, owner |-> s.owner, queue |-> s.queue, pairs |-> s.pairs, media |-> s.media, sent |-> s.sent, received |-> s.received, lost |-> s.lost, abort |-> s.abort]
  BY <1>a, <1>b DEF Wake, Typed, Shape
<1>2. Shape(u) /\ Keeps(s, u, {"at", "rtoep"}) /\ u.at = new1 /\ u.rtoep = new2
  BY <1>1 DEF Shape, Keeps
<1>3. new1 \in [All -> AtStates] /\ \A t \in All : new1[t] = IF t \in T THEN "awake" ELSE s.at[t]
  BY <1>a, <1>b DEF Typed, Put, AtStates
<1>4. new2 \in [All -> BOOLEAN] /\ \A t \in All : new2[t] = IF t \in T THEN FALSE ELSE s.rtoep[t]
  BY <1>a, <1>b DEF Typed, Put
<1>5. Typed(u)
  BY <1>2, <1>3, <1>4 DEF Typed, Keeps
<1> QED BY <1>2, <1>3, <1>4, <1>5, <1>a, <1>b DEF Woken

LEMMA OwnerForm ==
  ASSUME NEW s, Typed(s), NEW p \in PortIds, NEW o \in All, NEW u, u = WithOwner(s, p, o)
  PROVE  Typed(u) /\ Owned(s, u, p, o)
<1>a. PICK new1 : new1 = [s.owner EXCEPT ![p] = o]
  OBVIOUS
<1>1. u = [at |-> s.at, rec |-> s.rec, rtoep |-> s.rtoep, got |-> s.got, target |-> s.target, state |-> s.state, owner |-> new1, queue |-> s.queue, pairs |-> s.pairs, media |-> s.media, sent |-> s.sent, received |-> s.received, lost |-> s.lost, abort |-> s.abort]
  BY <1>a DEF WithOwner, Typed, Shape
<1>2. Shape(u) /\ Keeps(s, u, {"owner"}) /\ u.owner = new1
  BY <1>1 DEF Shape, Keeps
<1>3. new1 \in [PortIds -> All \cup {None}] /\ \A r \in PortIds : new1[r] = IF r = p THEN o ELSE s.owner[r]
  BY <1>a DEF Typed
<1>4. Typed(u)
  BY <1>2, <1>3 DEF Typed, Keeps
<1> QED BY <1>2, <1>3, <1>4, <1>a DEF Owned

LEMMA PairsForm ==
  ASSUME NEW s, Typed(s), NEW x \in PortIds, NEW P \in SUBSET Pairs, NEW u, u = WithPairs(s, x, P)
  PROVE  Typed(u) /\ Paired(s, u, x, P)
<1>a. PICK new1 : new1 = [s.pairs EXCEPT ![x] = P]
  OBVIOUS
<1>1. u = [at |-> s.at, rec |-> s.rec, rtoep |-> s.rtoep, got |-> s.got, target |-> s.target, state |-> s.state, owner |-> s.owner, queue |-> s.queue, pairs |-> new1, media |-> s.media, sent |-> s.sent, received |-> s.received, lost |-> s.lost, abort |-> s.abort]
  BY <1>a DEF WithPairs, Typed, Shape
<1>2. Shape(u) /\ Keeps(s, u, {"pairs"}) /\ u.pairs = new1
  BY <1>1 DEF Shape, Keeps
<1>3. new1 \in [PortIds -> SUBSET Pairs] /\ \A r \in PortIds : new1[r] = IF r = x THEN P ELSE s.pairs[r]
  BY <1>a DEF Typed
<1>4. Typed(u)
  BY <1>2, <1>3 DEF Typed, Keeps
<1> QED BY <1>2, <1>3, <1>4, <1>a DEF Paired

LEMMA MediaForm ==
  ASSUME NEW s, Typed(s), NEW m \in Media, NEW q \in Seq(Carried), NEW u, u = WithMedia(s, m, q)
  PROVE  Typed(u) /\ Carrying(s, u, m, q)
<1>a. PICK new1 : new1 = [s.media EXCEPT ![m] = q]
  OBVIOUS
<1>1. u = [at |-> s.at, rec |-> s.rec, rtoep |-> s.rtoep, got |-> s.got, target |-> s.target, state |-> s.state, owner |-> s.owner, queue |-> s.queue, pairs |-> s.pairs, media |-> new1, sent |-> s.sent, received |-> s.received, lost |-> s.lost, abort |-> s.abort]
  BY <1>a DEF WithMedia, Typed, Shape
<1>2. Shape(u) /\ Keeps(s, u, {"media"}) /\ u.media = new1
  BY <1>1 DEF Shape, Keeps
<1>3. new1 \in [Media -> Seq(Carried)] /\ \A r \in Media : new1[r] = IF r = m THEN q ELSE s.media[r]
  BY <1>a DEF Typed
<1>4. Typed(u)
  BY <1>2, <1>3 DEF Typed, Keeps
<1> QED BY <1>2, <1>3, <1>4, <1>a DEF Carrying


LEMMA IdsRange ==
  /\ \A q \in Seq(SoundOnes) : Ids(q) \subseteq 1..MaxSent /\ Ids(q) \in SUBSET (1..MaxSent)
  /\ \A q \in Seq(Carried) : Ids(q) \subseteq 1..MaxSent /\ q \in Seq(SoundOnes)
  /\ Carried \subseteq SoundOnes
<1>1. MaxSent \in Nat
  BY Basics
<1>2. \A m \in SoundOnes : m.mid \in 0..MaxSent
  BY DEF SoundOnes, Messages
<1>3. Carried \subseteq SoundOnes
  BY DEF Carried, SoundOnes, Sound, Messages
<1>4. ASSUME NEW q \in Seq(SoundOnes) PROVE Ids(q) \subseteq 1..MaxSent
  <2>1. \A i \in DOMAIN q : q[i] \in SoundOnes
    BY Places1
  <2>2. \A i \in DOMAIN q : q[i].mid # 0 => q[i].mid \in 1..MaxSent
    BY <1>1, <1>2, <2>1
  <2> QED BY <2>2 DEF Ids
<1>5. ASSUME NEW q \in Seq(Carried) PROVE q \in Seq(SoundOnes)
  BY <1>3, SeqDef
<1> QED BY <1>3, <1>4, <1>5

\* The ports P are freed: what they hold is lost.
Freed(s, u, P) ==
  /\ \A r \in PortIds \ P : u.state[r] = s.state[r] /\ u.owner[r] = s.owner[r] /\ u.queue[r] = s.queue[r] /\ u.pairs[r] = s.pairs[r]
  /\ \A r \in P : u.state[r] = "free" /\ u.owner[r] = None /\ u.queue[r] = <<>> /\ u.pairs[r] = {}
  /\ \A i : i \in u.lost <=> i \in s.lost \/ \E r \in P : i \in Ids(s.queue[r])

LEMMA FreeForm ==
  ASSUME NEW s, Typed(s), NEW P \in SUBSET PortIds, NEW u, u = Free(s, P)
  PROVE  Typed(u) /\ Keeps(s, u, {"state", "owner", "queue", "pairs", "lost"}) /\ Freed(s, u, P)
<1>a. PICK a : a = Put(s.state, P, "free")
  OBVIOUS
<1>b. PICK b : b = Put(s.owner, P, None)
  OBVIOUS
<1>c. PICK c : c = Put(s.queue, P, <<>>)
  OBVIOUS
<1>d. PICK d : d = Put(s.pairs, P, {})
  OBVIOUS
<1>e. PICK e : e = s.lost \cup UNION {Ids(s.queue[r]) : r \in P}
  OBVIOUS
<1>1. u = [at |-> s.at, rec |-> s.rec, rtoep |-> s.rtoep, got |-> s.got, target |-> s.target, state |-> a, owner |-> b, queue |-> c, pairs |-> d, media |-> s.media, sent |-> s.sent, received |-> s.received, lost |-> e, abort |-> s.abort]
  BY <1>a, <1>b, <1>c, <1>d, <1>e DEF Free, Typed, Shape
<1>2. /\ Shape(u) /\ Keeps(s, u, {"state", "owner", "queue", "pairs", "lost"})
      /\ u.state = a /\ u.owner = b /\ u.queue = c /\ u.pairs = d /\ u.lost = e
  BY <1>1 DEF Shape, Keeps
<1>3. /\ a \in [PortIds -> PortStates] /\ \A r \in PortIds : a[r] = IF r \in P THEN "free" ELSE s.state[r]
      /\ b \in [PortIds -> All \cup {None}] /\ \A r \in PortIds : b[r] = IF r \in P THEN None ELSE s.owner[r]
      /\ c \in [PortIds -> Seq(SoundOnes)] /\ \A r \in PortIds : c[r] = IF r \in P THEN <<>> ELSE s.queue[r]
      /\ d \in [PortIds -> SUBSET Pairs] /\ \A r \in PortIds : d[r] = IF r \in P THEN {} ELSE s.pairs[r]
      /\ e \subseteq 1..MaxSent /\ \A i : i \in e <=> i \in s.lost \/ \E r \in P : i \in Ids(s.queue[r])
  <2>1. a \in [PortIds -> PortStates] /\ \A r \in PortIds : a[r] = IF r \in P THEN "free" ELSE s.state[r]
    BY <1>a DEF Put, Typed, PortStates
  <2>2. b \in [PortIds -> All \cup {None}] /\ \A r \in PortIds : b[r] = IF r \in P THEN None ELSE s.owner[r]
    BY <1>b DEF Put, Typed
  <2>3. c \in [PortIds -> Seq(SoundOnes)] /\ \A r \in PortIds : c[r] = IF r \in P THEN <<>> ELSE s.queue[r]
    BY <1>c DEF Put, Typed
  <2>4. d \in [PortIds -> SUBSET Pairs] /\ \A r \in PortIds : d[r] = IF r \in P THEN {} ELSE s.pairs[r]
    BY <1>d DEF Put, Typed
  <2>5. \A i : i \in e <=> i \in s.lost \/ \E r \in P : i \in Ids(s.queue[r])
    BY <1>e
  <2>6. \A r \in P : Ids(s.queue[r]) \subseteq 1..MaxSent
    BY IdsRange DEF Typed
  <2>7. e \subseteq 1..MaxSent
    BY <2>5, <2>6 DEF Typed
  <2> QED BY <2>1, <2>2, <2>3, <2>4, <2>5, <2>7
<1>4. Typed(u)
  BY <1>2, <1>3 DEF Typed, Keeps
<1>5. Freed(s, u, P)
  BY <1>2, <1>3 DEF Freed
<1> QED BY <1>2, <1>4, <1>5

\* The surrogates D are gone.
Gone(s, u, D) ==
  /\ \A t \in All \ D : u.at[t] = s.at[t] /\ u.rec[t] = s.rec[t]
  /\ \A t \in D : u.at[t] = "free" /\ u.rec[t] = NoReceive
  /\ \A g \in Surrogates : u.target[g] = IF g \in D THEN None ELSE s.target[g]

Living(s, G) == {g \in G : s.at[g] # "free"}
OwnedBy(s, D) == {p \in PortIds : s.owner[p] \in D}
KillChanges == {"at", "rec", "target", "state", "owner", "queue", "pairs", "lost"}

LEMMA KilledForm ==
  ASSUME NEW s, Typed(s), NEW G \in SUBSET Surrogates, NEW u, u = Killed(s, G), NEW D, D = Living(s, G)
  PROVE  Typed(u) /\ Keeps(s, u, KillChanges) /\ Freed(s, u, OwnedBy(s, D)) /\ Gone(s, u, D) /\ D \subseteq Surrogates
<1>P. PICK P : P = OwnedBy(s, D)
  OBVIOUS
<1>0. P \in SUBSET PortIds /\ D \in SUBSET Surrogates
  BY <1>P DEF OwnedBy, Living
<1>v. PICK v : v = Free(s, P)
  OBVIOUS
<1>1. Typed(v) /\ Keeps(s, v, {"state", "owner", "queue", "pairs", "lost"}) /\ Freed(s, v, P)
  BY <1>0, <1>v, FreeForm
<1>a. PICK a : a = Put(v.at, D, "free")
  OBVIOUS
<1>b. PICK b : b = Put(v.target, D, None)
  OBVIOUS
<1>c. PICK c : c = Put(v.rec, D, NoReceive)
  OBVIOUS
<1>2. u = [v EXCEPT !.at = a, !.target = b, !.rec = c]
  BY <1>a, <1>b, <1>c, <1>v, <1>P DEF Killed, OwnedBy, Living
<1>3. u = [at |-> a, rec |-> c, rtoep |-> v.rtoep, got |-> v.got, target |-> b, state |-> v.state, owner |-> v.owner, queue |-> v.queue, pairs |-> v.pairs, media |-> v.media, sent |-> v.sent, received |-> v.received, lost |-> v.lost, abort |-> v.abort]
  BY <1>1, <1>2 DEF Typed, Shape
<1>4. Shape(u) /\ Keeps(v, u, {"at", "target", "rec"}) /\ u.at = a /\ u.target = b /\ u.rec = c
  BY <1>3 DEF Shape, Keeps
<1>5. a \in [All -> AtStates] /\ \A t \in All : a[t] = IF t \in D THEN "free" ELSE v.at[t]
  BY <1>1, <1>a DEF Put, Typed, AtStates
<1>6. b \in [Surrogates -> PortIds \cup {None}] /\ \A g \in Surrogates : b[g] = IF g \in D THEN None ELSE v.target[g]
  BY <1>1, <1>b DEF Put, Typed
<1>7. c \in [All -> Receives] /\ \A t \in All : c[t] = IF t \in D THEN NoReceive ELSE v.rec[t]
  <2>1. NoReceive \in Receives
    BY DEF NoReceive, Receives, Disciplines, Modes
  <2> QED BY <1>1, <1>c, <2>1 DEF Put, Typed
<1>8. Typed(u)
  BY <1>1, <1>4, <1>5, <1>6, <1>7 DEF Typed, Keeps
<1>9. Keeps(s, u, KillChanges) /\ Freed(s, u, P)
  BY <1>1, <1>4 DEF Keeps, KillChanges, Freed
<1>10. v.at = s.at /\ v.rec = s.rec /\ v.target = s.target
  BY <1>1 DEF Keeps
<1>11. Gone(s, u, D)
  BY <1>0, <1>4, <1>5, <1>6, <1>7, <1>10 DEF Gone, All
<1> QED BY <1>0, <1>8, <1>9, <1>11, <1>P

\* The messages q have been sent to port p.
Delivered(s, u, p, q) ==
  /\ Keeps(s, u, {"at", "rtoep", "queue", "lost"})
  /\ s.owner[p] = None => Keeps(s, u, {"lost"}) /\ u.lost = s.lost \cup Ids(q)
  /\ s.owner[p] # None =>
       /\ u.lost = s.lost /\ \A r \in PortIds : u.queue[r] = IF r = p THEN s.queue[p] \o q ELSE s.queue[r]
       /\ \A t \in All : IF t = s.owner[p] /\ Waits(s, t, p) THEN u.at[t] = "awake" /\ u.rtoep[t] = FALSE
                                                           ELSE u.at[t] = s.at[t] /\ u.rtoep[t] = s.rtoep[t]

LEMMA DeliverForm ==
  ASSUME NEW s, Typed(s), NEW p \in PortIds, NEW q \in Seq(SoundOnes), q # <<>>, NEW u, u = Deliver(s, p, q)
  PROVE  Typed(u) /\ Delivered(s, u, p, q)
<1>o. PICK o : o = s.owner[p]
  OBVIOUS
<1>0. o \in All \cup {None}
  BY <1>o DEF Typed
<1>1. CASE o = None
  <2>1. u = WithLost(s, Ids(q))
    BY <1>1, <1>o DEF Deliver, WithLost
  <2>2. Typed(u) /\ Keeps(s, u, {"lost"}) /\ u.lost = s.lost \cup Ids(q)
    BY <2>1, IdsRange, LostForm
  <2>3. Keeps(s, u, {"at", "rtoep", "queue", "lost"})
    BY <2>2 DEF Keeps
  <2> QED BY <1>1, <1>o, <2>2, <2>3 DEF Delivered
<1>2. CASE o # None
  <2>j. PICK j : j = s.queue[p] \o q
    OBVIOUS
  <2>v. PICK v : v = WithQueue(s, p, j)
    OBVIOUS
  <2>1. j \in Seq(SoundOnes)
    BY <2>j, ConcatProperties DEF Typed
  <2>2. Typed(v) /\ Queued(s, v, p, j)
    BY <2>v, <2>1, QueueForm
  <2>3. u = WakeOwner(v, p) /\ v.owner[p] = o /\ (Waits(v, o, p) <=> Waits(s, o, p))
    <3>1. u = WakeOwner(v, p)
      BY <1>2, <1>o, <2>j, <2>v DEF Deliver, WithQueue
    <3> QED BY <1>o, <2>2, <3>1 DEF Keeps, Waits, Queued
  <2>4. CASE Waits(s, o, p)
    <3>1. u = Wake(v, {o}) /\ {o} \in SUBSET All
      BY <1>0, <1>2, <2>3, <2>4 DEF WakeOwner
    <3>2. Typed(u) /\ Woken(v, u, {o})
      BY <2>2, <3>1, WakeForm
    <3>3. Keeps(s, u, {"at", "rtoep", "queue", "lost"}) /\ u.lost = s.lost /\ u.queue = v.queue /\ v.at = s.at /\ v.rtoep = s.rtoep
      BY <2>2, <3>2 DEF Keeps, Queued, Woken
    <3> QED BY <1>2, <1>o, <2>2, <2>4, <2>j, <3>2, <3>3 DEF Delivered, Queued, Woken
  <2>5. CASE ~Waits(s, o, p)
    <3>1. u = v
      BY <2>3, <2>5 DEF WakeOwner
    <3>3. Keeps(s, u, {"at", "rtoep", "queue", "lost"}) /\ u.lost = s.lost /\ u.at = s.at /\ u.rtoep = s.rtoep
      BY <2>2, <3>1 DEF Keeps, Queued
    <3> QED BY <1>2, <1>o, <2>2, <2>5, <2>j, <3>1, <3>3 DEF Delivered, Queued, Woken
  <2> QED BY <2>4, <2>5
<1> QED BY <1>1, <1>2

-----------------------------------------------------------------------------
\* The tables, while a call is under way: the surrogates G have yet to be killed,
\* and the task o to be woken from its receive on port p.
Doomed(s, g) == s.at[g] \notin {"free", "running"} /\ s.rec[g].mode = "never"
Stranded(s, t, p) == Waits(s, t, p) /\ (s.rtoep[t] => s.rec[t].mode = "timed")
TablesBut(s, G, o, p) ==
  /\ Typed(s)
  /\ \A r \in PortIds : OwnerOf(s, r)
  /\ \A t \in Tasks : KeepsStd(s, t)
  /\ \A g \in Surrogates : ServesSet(s, g) \/ (g \in G /\ Doomed(s, g))
  /\ \A t \in All : WaitsWell(s, t) \/ (t = o /\ Stranded(s, t, p))

LEMMA TablesDone == ASSUME NEW s, Tables(s), NEW G, NEW o, NEW p PROVE TablesBut(s, G, o, p)
  BY DEF Tables, TablesBut

LEMMA KilledTables ==
  ASSUME NEW s, NEW G \in SUBSET Surrogates, NEW o, NEW p, TablesBut(s, G, o, p), NEW u, u = Killed(s, G)
  PROVE  TablesBut(u, {}, o, p)
<1>D. PICK D, P : D = Living(s, G) /\ P = OwnedBy(s, D)
  OBVIOUS
<1>0. Typed(s)
  BY DEF TablesBut
<1>1. Typed(u) /\ Keeps(s, u, KillChanges) /\ Freed(s, u, P) /\ Gone(s, u, D) /\ D \subseteq Surrogates
  BY <1>0, <1>D, KilledForm
<1>2. /\ \A g \in D : g \in G /\ s.at[g] # "free" /\ g \in Surrogates /\ g \in All
      /\ \A g \in G : g \notin D => s.at[g] = "free"
      /\ \A r \in PortIds : r \in P <=> s.owner[r] \in D
      /\ P \subseteq PortIds
  BY <1>1, <1>D, Basics DEF Living, OwnedBy
<1>3. /\ \A r \in PortIds : r \notin P => /\ u.state[r] = s.state[r] /\ u.owner[r] = s.owner[r]
                                          /\ u.queue[r] = s.queue[r] /\ u.pairs[r] = s.pairs[r]
      /\ \A r \in P : u.state[r] = "free" /\ u.owner[r] = None /\ u.queue[r] = <<>> /\ u.pairs[r] = {}
      /\ \A t \in All : t \notin D => u.at[t] = s.at[t] /\ u.rec[t] = s.rec[t]
      /\ \A t \in D : u.at[t] = "free" /\ u.rec[t] = NoReceive
      /\ \A g \in Surrogates : u.target[g] = IF g \in D THEN None ELSE s.target[g]
      /\ u.rtoep = s.rtoep
  BY <1>1 DEF Freed, Gone, Keeps, KillChanges
<1>4. ASSUME NEW r \in PortIds PROVE OwnerOf(u, r)
  <2>1. OwnerOf(s, r)
    BY DEF TablesBut
  <2>2. CASE r \in P
    BY <1>3, <2>2, Basics DEF OwnerOf
  <2>3. CASE r \notin P
    <3>1. s.owner[r] \notin D /\ (s.owner[r] \in All => u.at[s.owner[r]] = s.at[s.owner[r]] /\ u.rec[s.owner[r]] = s.rec[s.owner[r]])
      BY <1>2, <1>3, <2>3
    <3> QED BY <1>3, <2>1, <2>3, <3>1, Basics DEF OwnerOf
  <2> QED BY <2>2, <2>3
<1>5. ASSUME NEW t \in Tasks PROVE KeepsStd(u, t)
  <2>1. KeepsStd(s, t) /\ Std[t] \in PortIds /\ t \notin D /\ t \in All
    BY <1>1, Basics DEF TablesBut
  <2>2. Std[t] \notin P
    BY <1>2, <2>1 DEF KeepsStd
  <2> QED BY <1>3, <2>1, <2>2 DEF KeepsStd
<1>6. ASSUME NEW g \in Surrogates PROVE ServesSet(u, g)
  <2>1. g \in All /\ (ServesSet(s, g) \/ (g \in G /\ Doomed(s, g)))
    BY Basics DEF TablesBut
  <2>2. CASE g \in D
    BY <1>3, <2>2 DEF ServesSet
  <2>3. CASE g \notin D
    <3>1. ServesSet(s, g) /\ u.at[g] = s.at[g] /\ u.rec[g] = s.rec[g] /\ u.target[g] = s.target[g]
      BY <1>2, <1>3, <2>1, <2>3 DEF Doomed
    <3>2. CASE s.at[g] = "free"
      BY <3>1, <3>2 DEF ServesSet
    <3>3. CASE s.at[g] # "free"
      <4>x. PICK x : x = s.target[g]
        OBVIOUS
      <4>1. x \in PortIds /\ s.state[x] = "set"
        BY <3>1, <3>3, <4>x DEF ServesSet
      <4>2. s.owner[x] \in Tasks
        BY <4>1 DEF TablesBut, OwnerOf
      <4>3. x \notin P
        BY <1>1, <1>2, <4>1, <4>2, Basics
      <4>4. u.state[x] = "set" /\ u.pairs[x] = s.pairs[x]
        BY <1>3, <4>1, <4>3
      <4> QED BY <3>1, <3>3, <4>1, <4>4, <4>x DEF ServesSet
    <3> QED BY <3>2, <3>3
  <2> QED BY <2>2, <2>3
<1>7. ASSUME NEW t \in All PROVE WaitsWell(u, t) \/ (t = o /\ Stranded(u, t, p))
  <2>1. (WaitsWell(s, t) \/ (t = o /\ Stranded(s, t, p))) /\ (t \in Surrogates => ServesSet(s, t) \/ Doomed(s, t))
    BY DEF TablesBut
  <2>2. CASE t \in D
    <3>1. s.at[t] # "free" /\ t \in Surrogates
      BY <1>2, <2>2
    <3>2. s.rec[t].mode = "never"
      BY <2>1, <3>1 DEF ServesSet, Doomed
    <3>3. ~s.rtoep[t]
      BY <2>1, <3>2 DEF WaitsWell, Stranded
    <3> QED BY <1>3, <2>2, <3>3 DEF WaitsWell
  <2>3. CASE t \notin D
    <3>1. u.at[t] = s.at[t] /\ u.rec[t] = s.rec[t] /\ u.rtoep[t] = s.rtoep[t]
      BY <1>3, <2>3
    <3>2. CASE t = o /\ Stranded(s, t, p)
      BY <3>1, <3>2 DEF Stranded, Waits
    <3>3. CASE WaitsWell(s, t)
      <4>1. ASSUME s.at[t] = "receiving" PROVE u.owner[s.rec[t].port] = t /\ u.queue[s.rec[t].port] = <<>>
        <5>1. s.rec[t].port \in PortIds /\ s.owner[s.rec[t].port] = t /\ s.queue[s.rec[t].port] = <<>>
          BY <3>3, <4>1 DEF WaitsWell
        <5> QED BY <1>2, <1>3, <2>3, <5>1
      <4> QED BY <3>1, <3>3, <4>1 DEF WaitsWell
    <3> QED BY <2>1, <3>2, <3>3
  <2> QED BY <2>2, <2>3
<1> QED BY <1>1, <1>4, <1>5, <1>6, <1>7 DEF TablesBut

LEMMA WokenTables ==
  ASSUME NEW s, NEW o \in All, NEW p \in PortIds, TablesBut(s, {}, o, p), NEW u, u = WakeOld(s, o, p)
  PROVE  Tables(u)
<1>0. Typed(s)
  BY DEF TablesBut
<1>1. CASE ~Waits(s, o, p)
  BY <1>1 DEF WakeOld, TablesBut, Tables, Stranded
<1>2. CASE Waits(s, o, p)
  <2>1. Typed(u) /\ Woken(s, u, {o})
    <3>1. u = Wake(s, {o}) /\ {o} \in SUBSET All
      BY <1>2 DEF WakeOld
    <3> QED BY <1>0, <3>1, WakeForm
  <2>2. /\ u.state = s.state /\ u.owner = s.owner /\ u.queue = s.queue /\ u.pairs = s.pairs /\ u.rec = s.rec /\ u.target = s.target
        /\ \A t \in All : t # o => u.at[t] = s.at[t] /\ u.rtoep[t] = s.rtoep[t]
        /\ s.at[o] = "receiving" /\ u.at[o] = "awake" /\ ~u.rtoep[o] /\ u.rec[o].port = p
    BY <1>2, <2>1 DEF Woken, Keeps, Waits
  <2>3. \A t \in All : u.at[t] = "free" <=> s.at[t] = "free"
    BY <2>2
  <2>4. ASSUME NEW r \in PortIds PROVE OwnerOf(u, r)
    BY <2>2, <2>3 DEF OwnerOf, TablesBut
  <2>5. ASSUME NEW t \in Tasks PROVE KeepsStd(u, t)
    BY <2>2, <2>3, Basics DEF KeepsStd, TablesBut
  <2>6. ASSUME NEW g \in Surrogates PROVE ServesSet(u, g)
    <3>1. ServesSet(s, g) /\ g \in All
      BY Basics DEF TablesBut
    <3> QED BY <2>2, <2>3, <3>1 DEF ServesSet
  <2>7. ASSUME NEW t \in All PROVE WaitsWell(u, t)
    BY <2>2 DEF WaitsWell, TablesBut
  <2> QED BY <2>1, <2>4, <2>5, <2>6, <2>7 DEF Tables
<1> QED BY <1>1, <1>2

LEMMA OwnedTables ==
  ASSUME NEW s, Tables(s), NEW p \in PortIds, p \notin Range(Std), s.state[p] = "used",
         NEW o \in All, s.at[o] # "free", o \in Surrogates => s.rec[o].port = p, NEW u, u = WithOwner(s, p, o)
  PROVE  TablesBut(u, {}, s.owner[p], p)
<1>1. Typed(u) /\ Owned(s, u, p, o)
  BY OwnerForm DEF Tables
<1>2. /\ u.state = s.state /\ u.at = s.at /\ u.queue = s.queue /\ u.pairs = s.pairs /\ u.rec = s.rec /\ u.target = s.target
      /\ u.rtoep = s.rtoep /\ \A r \in PortIds : u.owner[r] = IF r = p THEN o ELSE s.owner[r]
  BY <1>1 DEF Owned, Keeps
<1>3. ASSUME NEW r \in PortIds PROVE OwnerOf(u, r)
  BY <1>2 DEF OwnerOf, Tables
<1>4. ASSUME NEW t \in Tasks PROVE KeepsStd(u, t)
  <2>1. Std[t] # p /\ Std[t] \in PortIds
    BY Basics
  <2> QED BY <1>2, <2>1 DEF KeepsStd, Tables
<1>5. ASSUME NEW g \in Surrogates PROVE ServesSet(u, g)
  BY <1>2 DEF ServesSet, Tables
<1>6. ASSUME NEW t \in All PROVE WaitsWell(u, t) \/ (t = s.owner[p] /\ Stranded(u, t, p))
  BY <1>2 DEF WaitsWell, Tables, Stranded, Waits
<1> QED BY <1>1, <1>3, <1>4, <1>5, <1>6 DEF TablesBut

\* The sets a member p of the old owner may have to leave.
SetsOf(s, old, p) == {x \in PortIds : s.state[x] = "set" /\ s.owner[x] = Sire(s, old) /\ \E r \in s.pairs[x] : r.port = p}

LeavesSet(s, u, old, p) ==
  \/ SetsOf(s, old, p) = {} /\ u = s
  \/ \E x \in SetsOf(s, old, p) : \E r \in s.pairs[x] :
       /\ r.port = p /\ r.task \in Surrogates /\ u = Killed(WithPairs(s, x, s.pairs[x] \ {r}), {r.task})

LEMMA PartedForm ==
  ASSUME NEW s, Typed(s), NEW old, NEW p, NEW u, u = Parted(s, old, p)
  PROVE  LeavesSet(s, u, old, p)
<1>1. CASE SetsOf(s, old, p) = {}
  BY <1>1 DEF Parted, SetsOf, LeavesSet
<1>2. CASE SetsOf(s, old, p) # {}
  <2>x. PICK x : x = CHOOSE y \in SetsOf(s, old, p) : TRUE
    OBVIOUS
  <2>r. PICK r : r = CHOOSE z \in s.pairs[x] : z.port = p
    OBVIOUS
  <2>1. x \in SetsOf(s, old, p)
    BY <1>2, <2>x
  <2>2. \E z \in s.pairs[x] : z.port = p
    BY <2>1 DEF SetsOf
  <2>3. r \in s.pairs[x] /\ r.port = p
    BY <2>2, <2>r
  <2>4. x \in PortIds /\ s.pairs[x] \subseteq Pairs
    BY <2>1 DEF SetsOf, Typed
  <2>5. r.task \in Surrogates
    BY <2>3, <2>4 DEF Pairs
  <2>6. u = Killed([s EXCEPT !.pairs[x] = @ \ {r}], {r.task})
    BY <1>2, <2>x, <2>r DEF Parted, SetsOf
  <2>7. WithPairs(s, x, s.pairs[x] \ {r}) = [s EXCEPT !.pairs[x] = @ \ {r}]
    BY DEF WithPairs
  <2> QED BY <2>1, <2>3, <2>5, <2>6, <2>7 DEF LeavesSet
<1> QED BY <1>1, <1>2

LEMMA PartedTables ==
  ASSUME NEW s, NEW old, NEW p, NEW o, NEW q, TablesBut(s, {}, o, q), NEW u, u = Parted(s, old, p)
  PROVE  TablesBut(u, {}, o, q)
<1>0. Typed(s)
  BY DEF TablesBut
<1>1. CASE u = s
  BY <1>1
<1>2. CASE \E x \in SetsOf(s, old, p) : \E r \in s.pairs[x] :
             /\ r.port = p /\ r.task \in Surrogates /\ u = Killed(WithPairs(s, x, s.pairs[x] \ {r}), {r.task})
  <2>1. PICK x \in SetsOf(s, old, p) : \E r \in s.pairs[x] :
             /\ r.port = p /\ r.task \in Surrogates /\ u = Killed(WithPairs(s, x, s.pairs[x] \ {r}), {r.task})
    BY <1>2
  <2>2. PICK r \in s.pairs[x] : r.port = p /\ r.task \in Surrogates /\ u = Killed(WithPairs(s, x, s.pairs[x] \ {r}), {r.task})
    BY <2>1
  <2>P. PICK P : P = s.pairs[x] \ {r}
    OBVIOUS
  <2>v. PICK v : v = WithPairs(s, x, P)
    OBVIOUS
  <2>3. x \in PortIds /\ s.state[x] = "set" /\ P \in SUBSET Pairs
    BY <1>0, <2>P DEF SetsOf, Typed
  <2>4. Typed(v) /\ Paired(s, v, x, P)
    BY <1>0, <2>3, <2>v, PairsForm
  <2>5. /\ v.state = s.state /\ v.at = s.at /\ v.queue = s.queue /\ v.owner = s.owner /\ v.rec = s.rec /\ v.target = s.target
        /\ v.rtoep = s.rtoep /\ \A y \in PortIds : v.pairs[y] = IF y = x THEN P ELSE s.pairs[y]
    BY <2>4 DEF Paired, Keeps
  <2>6. ASSUME NEW y \in PortIds PROVE OwnerOf(v, y)
    BY <2>3, <2>5 DEF OwnerOf, TablesBut
  <2>7. ASSUME NEW t \in Tasks PROVE KeepsStd(v, t)
    BY <2>5 DEF KeepsStd, TablesBut
  <2>8. ASSUME NEW g \in Surrogates PROVE ServesSet(v, g) \/ (g \in {r.task} /\ Doomed(v, g))
    <3>1. ServesSet(s, g)
      BY DEF TablesBut
    <3>2. CASE s.at[g] = "free" \/ g = r.task
      BY <2>5, <3>1, <3>2 DEF ServesSet, Doomed
    <3>3. CASE s.at[g] # "free" /\ g # r.task
      <4>1. [task |-> g, port |-> s.rec[g].port] # r
        BY <3>3
      <4>2. s.target[g] = x => [task |-> g, port |-> s.rec[g].port] \in P
        BY <2>P, <3>1, <3>3, <4>1 DEF ServesSet
      <4> QED BY <2>5, <3>1, <3>3, <4>2 DEF ServesSet
    <3> QED BY <3>2, <3>3
  <2>9. ASSUME NEW t \in All PROVE WaitsWell(v, t) \/ (t = o /\ Stranded(v, t, q))
    BY <2>5 DEF WaitsWell, TablesBut, Stranded, Waits
  <2>10. TablesBut(v, {r.task}, o, q)
    BY <2>4, <2>6, <2>7, <2>8, <2>9 DEF TablesBut
  <2>11. u = Killed(v, {r.task}) /\ {r.task} \in SUBSET Surrogates
    BY <2>2, <2>P, <2>v
  <2> QED BY <2>10, <2>11, KilledTables
<1> QED BY <1>0, <1>1, <1>2, PartedForm DEF LeavesSet

LEMMA PassedTables ==
  ASSUME NEW s, Tables(s), NEW p \in PortIds, p \notin Range(Std), s.state[p] = "used",
         NEW o \in All, s.at[o] # "free", o \in Surrogates => s.rec[o].port = p, NEW u, u = Passed(s, p, o)
  PROVE  Tables(u)
<1>a. PICK a, old : a = WithOwner(s, p, o) /\ old = s.owner[p]
  OBVIOUS
<1>b. PICK b : b = Parted(a, old, p)
  OBVIOUS
<1>1. old \in All
  BY <1>a DEF Tables, OwnerOf
<1>2. TablesBut(a, {}, old, p)
  BY <1>a, OwnedTables
<1>3. TablesBut(b, {}, old, p)
  BY <1>2, <1>b, PartedTables
<1>4. u = WakeOld(b, old, p)
  BY <1>a, <1>b DEF Passed, WithOwner
<1> QED BY <1>1, <1>3, <1>4, WokenTables

LEMMA DeliveredTables ==
  ASSUME NEW s, Tables(s), NEW p \in PortIds, NEW q, NEW u, Typed(u), Delivered(s, u, p, q)
  PROVE  Tables(u)
<1>1. /\ u.state = s.state /\ u.owner = s.owner /\ u.pairs = s.pairs /\ u.rec = s.rec /\ u.target = s.target
  BY DEF Delivered, Keeps
<1>2. CASE s.owner[p] = None
  <2>1. u.at = s.at /\ u.queue = s.queue /\ u.rtoep = s.rtoep
    BY <1>2 DEF Delivered, Keeps
  <2> QED BY <1>1, <2>1 DEF Tables, OwnerOf, KeepsStd, ServesSet, WaitsWell
<1>3. CASE s.owner[p] # None
  <2>1. /\ \A r \in PortIds : r # p => u.queue[r] = s.queue[r]
        /\ \A t \in All : IF t = s.owner[p] /\ Waits(s, t, p) THEN u.at[t] = "awake" /\ u.rtoep[t] = FALSE
                                                             ELSE u.at[t] = s.at[t] /\ u.rtoep[t] = s.rtoep[t]
    BY <1>3 DEF Delivered
  <2>2. \A t \in All : (u.at[t] = "free" <=> s.at[t] = "free") /\ (u.at[t] = "running" <=> s.at[t] = "running")
    BY <2>1 DEF Waits
  <2>3. ASSUME NEW r \in PortIds PROVE OwnerOf(u, r)
    <3>1. OwnerOf(s, r)
      BY DEF Tables
    <3>2. s.owner[r] \in All => (u.at[s.owner[r]] = "free" <=> s.at[s.owner[r]] = "free")
      BY <2>2
    <3>3. CASE r = p
      BY <1>1, <1>3, <3>1, <3>2, <3>3 DEF OwnerOf
    <3>4. CASE r # p
      BY <1>1, <2>1, <3>1, <3>2, <3>4 DEF OwnerOf
    <3> QED BY <3>3, <3>4
  <2>4. ASSUME NEW t \in Tasks PROVE KeepsStd(u, t)
    BY <1>1, <2>2, Basics DEF KeepsStd, Tables
  <2>5. ASSUME NEW g \in Surrogates PROVE ServesSet(u, g)
    <3>1. ServesSet(s, g) /\ g \in All
      BY Basics DEF Tables
    <3> QED BY <1>1, <2>2, <3>1 DEF ServesSet
  <2>6. ASSUME NEW t \in All PROVE WaitsWell(u, t)
    <3>1. WaitsWell(s, t)
      BY DEF Tables
    <3>2. CASE t = s.owner[p] /\ Waits(s, t, p)
      BY <1>1, <2>1, <3>2 DEF Waits, WaitsWell
    <3>3. CASE ~(t = s.owner[p] /\ Waits(s, t, p))
      <4>1. u.at[t] = s.at[t] /\ u.rtoep[t] = s.rtoep[t]
        BY <2>1, <3>3
      <4>2. s.at[t] = "receiving" => s.rec[t].port # p
        BY <3>1, <3>3 DEF WaitsWell, Waits
      <4> QED BY <1>1, <2>1, <3>1, <4>1, <4>2 DEF WaitsWell
    <3> QED BY <3>2, <3>3
  <2> QED BY <2>3, <2>4, <2>5, <2>6 DEF Tables
<1> QED BY <1>2, <1>3

-----------------------------------------------------------------------------
\* Where messages are.
PortAt(p) == <<"port", p>>
MediaAt(m) == <<"media", m>>
Received == <<"end", "received">>
Lost == <<"end", "lost">>

LEMMA Seats ==
  /\ \A p \in PortIds : PortAt(p) \in Places /\ \A s : Held(s, PortAt(p)) = Ids(s.queue[p])
  /\ \A m \in Media : MediaAt(m) \in Places /\ \A s : Held(s, MediaAt(m)) = Ids(s.media[m])
  /\ Received \in Places /\ \A s : Held(s, Received) = s.received
  /\ Lost \in Places /\ \A s : Held(s, Lost) = s.lost
  /\ Received # Lost
  /\ \A p \in PortIds : PortAt(p) # Received /\ PortAt(p) # Lost /\ \A r \in PortIds : PortAt(p) = PortAt(r) => p = r
  /\ \A m \in Media : MediaAt(m) # Received /\ MediaAt(m) # Lost /\ \A r \in Media : MediaAt(m) = MediaAt(r) => m = r
  /\ \A p \in PortIds, m \in Media : PortAt(p) # MediaAt(m)
  /\ \A a \in Places : a = Received \/ a = Lost \/ (\E p \in PortIds : a = PortAt(p)) \/ (\E m \in Media : a = MediaAt(m))
<1>1. \A p \in PortIds : PortAt(p) \in Places /\ \A s : Held(s, PortAt(p)) = Ids(s.queue[p])
  BY DEF PortAt, Places, Held
<1>2. \A m \in Media : MediaAt(m) \in Places /\ \A s : Held(s, MediaAt(m)) = Ids(s.media[m])
  BY DEF MediaAt, Places, Held
<1>3. Received \in Places /\ \A s : Held(s, Received) = s.received
  BY DEF Received, Places, Held
<1>4. Lost \in Places /\ \A s : Held(s, Lost) = s.lost
  BY DEF Lost, Places, Held
<1>5. Received # Lost /\ \A p : PortAt(p) # Received /\ PortAt(p) # Lost /\ \A r : PortAt(p) = PortAt(r) => p = r
  BY DEF Received, Lost, PortAt
<1>6. \A m : MediaAt(m) # Received /\ MediaAt(m) # Lost /\ \A r : (MediaAt(m) = MediaAt(r) => m = r) /\ PortAt(r) # MediaAt(m)
  BY DEF Received, Lost, PortAt, MediaAt
<1>7. \A a \in Places : a = Received \/ a = Lost \/ (\E p \in PortIds : a = PortAt(p)) \/ (\E m \in Media : a = MediaAt(m))
  BY DEF Places, Received, Lost, PortAt, MediaAt
<1> QED BY <1>1, <1>2, <1>3, <1>4, <1>5, <1>6, <1>7

AllDistinct(s) == (\A p \in PortIds : Distinct(s.queue[p])) /\ \A m \in Media : Distinct(s.media[m])
ElsewhereAlike(s, u, a) == \A b \in Places : b # a => Held(u, b) = Held(s, b)

LEMMA PortOnly ==
  ASSUME NEW s, NEW u, NEW p \in PortIds, \A r \in PortIds : r # p => u.queue[r] = s.queue[r],
         u.media = s.media, u.received = s.received, u.lost = s.lost
  PROVE  ElsewhereAlike(s, u, PortAt(p))
<1> SUFFICES ASSUME NEW b \in Places, b # PortAt(p) PROVE Held(u, b) = Held(s, b)
  BY DEF ElsewhereAlike
<1>1. CASE \E r \in PortIds : b = PortAt(r)
  BY <1>1, Seats
<1>2. CASE ~\E r \in PortIds : b = PortAt(r)
  BY <1>2, Seats
<1> QED BY <1>1, <1>2

LEMMA OtherOnly ==
  ASSUME NEW s, NEW u, u.queue = s.queue
  PROVE  /\ u.received = s.received /\ u.media = s.media => ElsewhereAlike(s, u, Lost)
         /\ u.lost = s.lost /\ u.media = s.media => ElsewhereAlike(s, u, Received)
         /\ \A m \in Media : u.lost = s.lost /\ u.received = s.received /\ (\A r \in Media : r # m => u.media[r] = s.media[r])
                               => ElsewhereAlike(s, u, MediaAt(m))
<1>1. ASSUME u.received = s.received, u.media = s.media PROVE ElsewhereAlike(s, u, Lost)
  BY <1>1, Seats DEF ElsewhereAlike
<1>2. ASSUME u.lost = s.lost, u.media = s.media PROVE ElsewhereAlike(s, u, Received)
  BY <1>2, Seats DEF ElsewhereAlike
<1>3. ASSUME NEW m \in Media, u.lost = s.lost, u.received = s.received, \A r \in Media : r # m => u.media[r] = s.media[r]
      PROVE  ElsewhereAlike(s, u, MediaAt(m))
  BY <1>3, Seats DEF ElsewhereAlike
<1> QED BY <1>1, <1>2, <1>3

LEMMA PartsKept ==
  ASSUME NEW s, NEW u, NEW N, Parts(s, N), u.queue = s.queue, u.media = s.media, u.received = s.received, u.lost = s.lost
  PROVE  Parts(u, N)
<1>1. \A a \in Places : Held(u, a) = Held(s, a)
  BY Seats
<1> QED BY <1>1 DEF Parts

\* The messages M, not there before, come to a.
LEMMA PartsGrow ==
  ASSUME NEW s, NEW u, NEW N, Parts(s, N), NEW a \in Places, ElsewhereAlike(s, u, a), NEW M,
         \A i : i \in Held(u, a) <=> i \in Held(s, a) \/ i \in M, \A i \in M : i \notin N, AllDistinct(u)
  PROVE  Parts(u, N \cup M)
<1>1. \A b \in Places : b # a => Held(u, b) = Held(s, b)
  BY DEF ElsewhereAlike
<1>2. \A i : i \in N <=> \E b \in Places : i \in Held(s, b)
  BY DEF Parts
<1>3. \A i : i \in N \cup M <=> \E b \in Places : i \in Held(u, b)
  BY <1>1, <1>2
<1>4. ASSUME NEW b \in Places, NEW c \in Places, b # c PROVE Held(u, b) \cap Held(u, c) = {}
  <2>1. Held(s, b) \cap Held(s, c) = {}
    BY <1>4 DEF Parts
  <2> QED BY <1>1, <1>2, <1>4, <2>1
<1> QED BY <1>3, <1>4 DEF Parts, AllDistinct

\* The messages M leave a.
LEMMA PartsShrink ==
  ASSUME NEW s, NEW u, NEW N, Parts(s, N), NEW a \in Places, ElsewhereAlike(s, u, a), NEW M, M \subseteq Held(s, a),
         \A i : i \in Held(u, a) <=> i \in Held(s, a) /\ i \notin M, AllDistinct(u)
  PROVE  Parts(u, N \ M)
<1>1. \A b \in Places : b # a => Held(u, b) = Held(s, b) /\ Held(s, a) \cap Held(s, b) = {}
  BY DEF ElsewhereAlike, Parts
<1>2. \A i : i \in N <=> \E b \in Places : i \in Held(s, b)
  BY DEF Parts
<1>3. \A i : i \in N \ M <=> \E b \in Places : i \in Held(u, b)
  BY <1>1, <1>2
<1>4. ASSUME NEW b \in Places, NEW c \in Places, b # c PROVE Held(u, b) \cap Held(u, c) = {}
  <2>1. Held(s, b) \cap Held(s, c) = {}
    BY <1>4 DEF Parts
  <2> QED BY <1>1, <1>4, <2>1
<1> QED BY <1>3, <1>4 DEF Parts, AllDistinct

LEMMA DeliveredParts ==
  ASSUME NEW s, Typed(s), NEW N, Parts(s, N), NEW p \in PortIds, NEW q \in Seq(SoundOnes), NEW u, Delivered(s, u, p, q),
         Distinct(q), \A i \in Ids(q) : i \notin N
  PROVE  Parts(u, N \cup Ids(q))
<1>1. u.media = s.media /\ u.received = s.received
  BY DEF Delivered, Keeps
<1>2. CASE s.owner[p] = None
  <2>1. u.queue = s.queue /\ \A i : i \in u.lost <=> i \in s.lost \/ i \in Ids(q)
    BY <1>2 DEF Delivered, Keeps
  <2>2. ElsewhereAlike(s, u, Lost) /\ AllDistinct(u)
    BY <1>1, <2>1, OtherOnly DEF Parts, AllDistinct
  <2>3. \A i : i \in Held(u, Lost) <=> i \in Held(s, Lost) \/ i \in Ids(q)
    BY <2>1, Seats
  <2> QED BY <2>2, <2>3, Seats, PartsGrow
<1>3. CASE s.owner[p] # None
  <2>j. PICK j : j = s.queue[p] \o q
    OBVIOUS
  <2>1. u.lost = s.lost /\ u.queue[p] = j /\ \A r \in PortIds : r # p => u.queue[r] = s.queue[r]
    BY <1>3, <2>j DEF Delivered
  <2>2. ElsewhereAlike(s, u, PortAt(p))
    BY <1>1, <2>1, PortOnly
  <2>3. s.queue[p] \in Seq(SoundOnes) /\ Distinct(s.queue[p])
    BY DEF Typed, Parts
  <2>4. \A i \in Ids(s.queue[p]) : i \in N
    BY Seats DEF Parts
  <2>5. Ids(s.queue[p]) \cap Ids(q) = {}
    BY <2>4
  <2>c. PICK c : c = s.queue[p]
    OBVIOUS
  <2>6. \A i : i \in Ids(j) <=> i \in Ids(s.queue[p]) \/ i \in Ids(q)
    <3>1. c \in Seq(SoundOnes) /\ j = c \o q
      BY <2>3, <2>j, <2>c
    <3>2. \A i : i \in Ids(j) <=> i \in Ids(c) \/ i \in Ids(q)
      BY <3>1, JoinedIds
    <3> QED BY <2>c, <3>2
  <2>7. Distinct(j)
    <3>1. c \in Seq(SoundOnes) /\ j = c \o q /\ Distinct(c) /\ Ids(c) \cap Ids(q) = {}
      BY <2>3, <2>5, <2>j, <2>c
    <3> QED BY <3>1, JoinedIds
  <2>8. AllDistinct(u)
    BY <1>1, <2>1, <2>7 DEF Parts, AllDistinct
  <2>9. \A i : i \in Held(u, PortAt(p)) <=> i \in Held(s, PortAt(p)) \/ i \in Ids(q)
    BY <2>1, <2>6, Seats
  <2>10. PortAt(p) \in Places
    BY Seats
  <2> QED BY <2>2, <2>8, <2>9, <2>10, PartsGrow
<1> QED BY <1>2, <1>3

\* Only some of the messages of port p stay there.
LEMMA ThinnedParts ==
  ASSUME NEW s, Typed(s), NEW N, Parts(s, N), NEW p \in PortIds, NEW q \in Seq(SoundOnes), NEW S, Thinned(s.queue[p], q, S),
         NEW u, u.queue[p] = q, \A r \in PortIds : r # p => u.queue[r] = s.queue[r],
         u.media = s.media, u.received = s.received, u.lost = s.lost
  PROVE  Parts(u, N \ (Ids(s.queue[p]) \ Ids(q)))
<1>1. s.queue[p] \in Seq(SoundOnes) /\ Distinct(s.queue[p])
  BY DEF Typed, Parts
<1>2. Ids(q) \subseteq Ids(s.queue[p]) /\ Distinct(q)
  BY <1>1, ThinnedIds
<1>M. PICK M : M = Ids(s.queue[p]) \ Ids(q)
  OBVIOUS
<1>3. ElsewhereAlike(s, u, PortAt(p)) /\ PortAt(p) \in Places /\ Held(s, PortAt(p)) = Ids(s.queue[p]) /\ Held(u, PortAt(p)) = Ids(q)
  BY PortOnly, Seats
<1>4. AllDistinct(u)
  BY <1>2 DEF Parts, AllDistinct
<1>5. M \subseteq Held(s, PortAt(p)) /\ \A i : i \in Held(u, PortAt(p)) <=> i \in Held(s, PortAt(p)) /\ i \notin M
  BY <1>2, <1>3, <1>M
<1>6. Parts(u, N \ M)
  BY <1>3, <1>4, <1>5, PartsShrink
<1> QED BY <1>6, <1>M

LEMMA FreedParts ==
  ASSUME NEW s, NEW N, Parts(s, N), NEW P \in SUBSET PortIds, NEW u, Freed(s, u, P), u.media = s.media, u.received = s.received
  PROVE  Parts(u, N)
<1>1. /\ \A r \in PortIds : r \notin P => u.queue[r] = s.queue[r]
      /\ \A r \in P : u.queue[r] = <<>>
      /\ \A i : i \in u.lost <=> i \in s.lost \/ \E r \in P : i \in Ids(s.queue[r])
  BY DEF Freed
<1>2. Ids(<<>>) = {} /\ Distinct(<<>>)
  BY DEF Ids, Distinct
<1>3. /\ \A r \in P : r \in PortIds /\ Held(u, PortAt(r)) = {}
      /\ \A r \in PortIds : r \notin P => Held(u, PortAt(r)) = Held(s, PortAt(r))
      /\ \A m \in Media : Held(u, MediaAt(m)) = Held(s, MediaAt(m))
      /\ Held(u, Received) = Held(s, Received)
      /\ \A i : i \in Held(u, Lost) <=> i \in Held(s, Lost) \/ \E r \in P : i \in Held(s, PortAt(r))
  BY <1>1, <1>2, Seats
<1>4. \A a \in Places : a # Lost => Held(u, a) = Held(s, a) \/ (Held(u, a) = {} /\ \E r \in P : a = PortAt(r))
  BY <1>3, Seats
<1>5. \A a \in Places : a # Lost => \A i \in Held(u, a) : i \in Held(s, a) /\ ~\E r \in P : a = PortAt(r)
  BY <1>3, <1>4
<1>6. ASSUME NEW a \in Places, NEW b \in Places, a # b PROVE Held(u, a) \cap Held(u, b) = {}
  <2>0. \A c, d \in Places : c # d => Held(s, c) \cap Held(s, d) = {}
    BY DEF Parts
  <2>1. CASE a # Lost /\ b # Lost
    BY <1>5, <1>6, <2>0, <2>1
  <2>2. ASSUME NEW c \in Places, c # Lost PROVE Held(u, c) \cap Held(u, Lost) = {}
    <3> SUFFICES ASSUME NEW i, i \in Held(u, c), i \in Held(u, Lost) PROVE FALSE
      OBVIOUS
    <3>1. i \in Held(s, c) /\ ~\E r \in P : c = PortAt(r)
      BY <1>5, <2>2
    <3>2. CASE i \in Held(s, Lost)
      BY <2>0, <2>2, <3>1, <3>2, Seats
    <3>3. CASE i \notin Held(s, Lost)
      <4>1. PICK r \in P : i \in Held(s, PortAt(r))
        BY <1>3, <3>3
      <4>2. PortAt(r) \in Places /\ c # PortAt(r)
        BY <3>1, Seats
      <4> QED BY <2>0, <3>1, <4>1, <4>2
    <3> QED BY <3>2, <3>3
  <2> QED BY <1>6, <2>1, <2>2
<1>7. \A i : i \in N <=> \E a \in Places : i \in Held(u, a)
  <2>1. \A i : i \in N <=> \E a \in Places : i \in Held(s, a)
    BY DEF Parts
  <2>2. ASSUME NEW i, NEW a \in Places, i \in Held(u, a) PROVE i \in N
    <3>1. CASE a # Lost
      BY <1>5, <2>1, <2>2, <3>1
    <3>2. CASE a = Lost
      BY <1>3, <2>1, <2>2, <3>2, Seats
    <3> QED BY <3>1, <3>2
  <2>3. ASSUME NEW i, NEW a \in Places, i \in Held(s, a) PROVE \E b \in Places : i \in Held(u, b)
    <3>1. CASE \E r \in P : a = PortAt(r)
      BY <1>3, <2>3, <3>1, Seats
    <3>2. CASE a = Lost
      BY <1>3, <2>3, <3>2
    <3>3. CASE a # Lost /\ ~\E r \in P : a = PortAt(r)
      BY <1>4, <2>3, <3>3
    <3> QED BY <3>1, <3>2, <3>3
  <2> QED BY <2>1, <2>2, <2>3
<1>8. AllDistinct(u)
  <2>1. \A r \in PortIds : Distinct(u.queue[r])
    BY <1>1, <1>2 DEF Parts
  <2> QED BY <2>1 DEF Parts, AllDistinct
<1> QED BY <1>6, <1>7, <1>8 DEF Parts, AllDistinct

-----------------------------------------------------------------------------
\* The order of messages.

\* The elements of r are elements of q, in the same order.
Within(r, q) ==
  /\ \A n \in DOMAIN r : \E i \in DOMAIN q : r[n] = q[i]
  /\ \A i, j \in DOMAIN r : i < j => \E a, b \in DOMAIN q : a < b /\ r[i] = q[a] /\ r[j] = q[b]

LEMMA Withins ==
  /\ \A q : Within(<<>>, q) /\ Within(q, q)
  /\ \A V : \A q, r \in Seq(V) : \A S : Thinned(q, r, S) => Within(r, q)
<1>1. \A q : Within(<<>>, q) /\ Within(q, q)
  BY DEF Within
<1>2. ASSUME NEW V, NEW q \in Seq(V), NEW r \in Seq(V), NEW S, Thinned(q, r, S) PROVE Within(r, q)
  <2>1. \A n \in DOMAIN r : \E i \in S : i \in DOMAIN q /\ r[n] = q[i]
    BY <1>2, ThinnedIds
  <2>2. \A i, j \in DOMAIN r : i < j => \E a, b \in DOMAIN q : a < b /\ r[i] = q[a] /\ r[j] = q[b]
    BY <1>2, ThinnedIds
  <2> QED BY <2>1, <2>2 DEF Within
<1> QED BY <1>1, <1>2

LEMMA OrderWithin ==
  ASSUME NEW q, NEW r, NEW v, NEW w, Within(r, q), Within(w, v), NEW p
  PROVE  (InOrder(q, p) => InOrder(r, p)) /\ (Before(q, v, p) => Before(r, w, p))
<1>1. ASSUME InOrder(q, p) PROVE InOrder(r, p)
  BY <1>1 DEF InOrder, Within
<1>2. ASSUME Before(q, v, p) PROVE Before(r, w, p)
  <2> SUFFICES ASSUME NEW i \in DOMAIN r, NEW j \in DOMAIN w, r[i].org = p, w[j].org = p PROVE Older(r[i], w[j])
    BY DEF Before
  <2>1. PICK a \in DOMAIN q : r[i] = q[a]
    BY DEF Within
  <2>2. PICK b \in DOMAIN v : w[j] = v[b]
    BY DEF Within
  <2> QED BY <1>2, <2>1, <2>2 DEF Before
<1> QED BY <1>1, <1>2

\* Ports lose messages, and only empty ports become sets.
LEMMA OrderedThins ==
  ASSUME NEW s, NEW u, Ordered(s), \A p \in PortIds : Within(u.queue[p], s.queue[p]),
         \A x \in PortIds : u.state[x] = "set" => s.state[x] = "set" \/ u.queue[x] = <<>>
  PROVE  Ordered(u)
<1>1. ASSUME NEW p \in PortIds PROVE InOrder(u.queue[p], p)
  BY OrderWithin DEF Ordered
<1>2. ASSUME NEW p \in PortIds, NEW x \in PortIds \ {p}, u.state[x] = "set"
      PROVE  InOrder(u.queue[x], p) /\ Before(u.queue[x], u.queue[p], p)
  <2>1. CASE s.state[x] = "set"
    BY <1>2, <2>1, OrderWithin DEF Ordered
  <2>2. CASE u.queue[x] = <<>>
    BY <2>2 DEF InOrder, Before
  <2> QED BY <1>2, <2>1, <2>2
<1> QED BY <1>1, <1>2 DEF Ordered

\* A port gets a message, not older than any there is.
LEMMA OrderedGrows ==
  ASSUME NEW s, NEW u, Typed(s), Ordered(s), u.state = s.state, NEW N, \A p \in PortIds : \A i \in Ids(s.queue[p]) : i <= N,
         N \in Nat,
         \A p \in PortIds : \/ u.queue[p] = s.queue[p]
                            \/ \E m \in SoundOnes : u.queue[p] = s.queue[p] \o <<m>> /\ m.org = p /\ (m.mid = 0 \/ m.mid > N)
  PROVE  Ordered(u)
<1>1. ASSUME NEW p \in PortIds
      PROVE  \A j \in DOMAIN u.queue[p] : j \in Nat /\
              (\/ j \in DOMAIN s.queue[p] /\ u.queue[p][j] = s.queue[p][j]
               \/ /\ \A i \in DOMAIN u.queue[p] : i < j => i \in DOMAIN s.queue[p]
                  /\ \A i \in DOMAIN u.queue[p] : i <= j
                  /\ u.queue[p][j].org = p /\ u.queue[p][j].mid \in Nat /\ (u.queue[p][j].mid = 0 \/ u.queue[p][j].mid > N))
  <2>q. PICK q, w : q = s.queue[p] /\ w = u.queue[p]
    OBVIOUS
  <2>0. q \in Seq(SoundOnes)
    BY <2>q DEF Typed
  <2>1. CASE w = q
    BY <2>0, <2>1, <2>q, Places1
  <2>2. CASE \E m \in SoundOnes : w = q \o <<m>> /\ m.org = p /\ (m.mid = 0 \/ m.mid > N)
    <3>1. PICK m \in SoundOnes : w = q \o <<m>> /\ m.org = p /\ (m.mid = 0 \/ m.mid > N)
      BY <2>2
    <3>l. PICK l : l = Len(q)
      OBVIOUS
    <3>d. PICK d : d = <<m>>
      OBVIOUS
    <3>2. d \in Seq(SoundOnes) /\ Len(d) = 1 /\ d[1] = m /\ DOMAIN d = {1}
      BY <3>d, SingleIds
    <3>3. l \in Nat /\ DOMAIN w = 1..l+1 /\ DOMAIN q = 1..l
      BY <2>0, <3>1, <3>2, <3>d, <3>l, JoinedIds
    <3>4. (\A i \in DOMAIN q : w[i] = q[i]) /\ \A i \in DOMAIN d : w[l + i] = d[i]
      BY <2>0, <3>1, <3>2, <3>d, <3>l, JoinedIds
    <3>5. w[l + 1] = m
      BY <3>2, <3>4
    <3>6. ASSUME NEW j \in DOMAIN w
          PROVE  \/ j \in DOMAIN q /\ w[j] = q[j]
                 \/ /\ \A i \in DOMAIN w : i < j => i \in DOMAIN q
                    /\ \A i \in DOMAIN w : i <= j
                    /\ w[j].org = p /\ w[j].mid \in Nat /\ (w[j].mid = 0 \/ w[j].mid > N)
      <4>1. CASE j <= l
        BY <3>3, <3>4, <4>1
      <4>2. CASE ~(j <= l)
        <5>1. j = l + 1
          BY <3>3, <4>2
        <5>2. m.mid \in Nat
          BY Basics DEF SoundOnes, Messages
        <5> QED BY <3>1, <3>3, <3>5, <5>1, <5>2
      <4> QED BY <4>1, <4>2
    <3>7. \A j \in DOMAIN w : j \in Nat
      BY <3>3
    <3> QED BY <2>q, <3>6, <3>7
  <2> QED BY <2>1, <2>2, <2>q
<1>2. \A p \in PortIds : s.queue[p] \in Seq(SoundOnes) /\ DOMAIN s.queue[p] \subseteq Nat
  BY Places1 DEF Typed
<1>3. \A p \in PortIds : \A i \in DOMAIN s.queue[p] : s.queue[p][i].mid \in Nat /\ s.queue[p][i].mid <= N
  <2> SUFFICES ASSUME NEW p \in PortIds, NEW i \in DOMAIN s.queue[p] PROVE s.queue[p][i].mid \in Nat /\ s.queue[p][i].mid <= N
    OBVIOUS
  <2>1. s.queue[p][i] \in SoundOnes
    BY <1>2, Places1
  <2>2. s.queue[p][i].mid \in 0..MaxSent
    BY <2>1 DEF SoundOnes, Messages
  <2>3. s.queue[p][i].mid # 0 => s.queue[p][i].mid \in Ids(s.queue[p])
    BY DEF Ids
  <2> QED BY <2>2, <2>3, Basics
<1>4. ASSUME NEW p \in PortIds, NEW x \in PortIds, InOrder(s.queue[x], p)
      PROVE  InOrder(u.queue[x], p)
  <2> SUFFICES ASSUME NEW i \in DOMAIN u.queue[x], NEW j \in DOMAIN u.queue[x], i < j,
                      u.queue[x][i].org = p, u.queue[x][j].org = p
               PROVE  Older(u.queue[x][i], u.queue[x][j])
    BY DEF InOrder
  <2>1. i \in DOMAIN s.queue[x] /\ u.queue[x][i] = s.queue[x][i]
    <3>1. CASE ~(j <= i)
      BY <1>1, <3>1
    <3>2. CASE j <= i
      <4>1. i \in Nat /\ j \in Nat
        BY <1>1
      <4> QED BY <3>2, <4>1
    <3> QED BY <3>1, <3>2
  <2>2. CASE j \in DOMAIN s.queue[x] /\ u.queue[x][j] = s.queue[x][j]
    BY <1>4, <2>1, <2>2 DEF InOrder
  <2>3. CASE u.queue[x][j].mid \in Nat /\ (u.queue[x][j].mid = 0 \/ u.queue[x][j].mid > N)
    BY <1>3, <2>1, <2>3 DEF Older
  <2> QED BY <1>1, <2>2, <2>3
<1>5. ASSUME NEW p \in PortIds, NEW x \in PortIds \ {p}, Before(s.queue[x], s.queue[p], p)
      PROVE  Before(u.queue[x], u.queue[p], p)
  <2> SUFFICES ASSUME NEW i \in DOMAIN u.queue[x], NEW j \in DOMAIN u.queue[p],
                      u.queue[x][i].org = p, u.queue[p][j].org = p
               PROVE  Older(u.queue[x][i], u.queue[p][j])
    BY DEF Before
  <2>1. i \in DOMAIN s.queue[x] /\ u.queue[x][i] = s.queue[x][i]
    BY <1>1
  <2>2. CASE j \in DOMAIN s.queue[p] /\ u.queue[p][j] = s.queue[p][j]
    BY <1>5, <2>1, <2>2 DEF Before
  <2>3. CASE u.queue[p][j].mid \in Nat /\ (u.queue[p][j].mid = 0 \/ u.queue[p][j].mid > N)
    BY <1>3, <2>1, <2>3 DEF Older
  <2> QED BY <1>1, <2>2, <2>3
<1> QED BY <1>4, <1>5 DEF Ordered

-----------------------------------------------------------------------------
\* What passing and releasing ports leaves alone: ports and surrogates may be
\* freed, and receivers woken.
Settles(s, u) ==
  /\ u.media = s.media /\ u.sent = s.sent /\ u.received = s.received /\ u.abort = s.abort /\ u.got = s.got
  /\ \A r \in PortIds : \/ u.state[r] = s.state[r] /\ u.queue[r] = s.queue[r]
                        \/ u.state[r] = "free" /\ u.queue[r] = <<>>
  /\ \A t \in Tasks : u.rec[t] = s.rec[t] /\ (u.at[t] = s.at[t] \/ (s.at[t] = "receiving" /\ u.at[t] = "awake"))
  /\ \A t \in All : u.rec[t].discipline = s.rec[t].discipline \/ u.rec[t].discipline = "FIFO"
  /\ \A N : Parts(s, N) => Parts(u, N)

\* No port is freed, and no message lost.
Quiet(s, u) == u.lost = s.lost /\ \A r \in PortIds : u.state[r] = s.state[r] /\ u.queue[r] = s.queue[r]

LEMMA SettlesOn == ASSUME NEW s, NEW u, NEW v, Settles(s, u), Settles(u, v) PROVE Settles(s, v)
<1>1. \A r \in PortIds : \/ v.state[r] = s.state[r] /\ v.queue[r] = s.queue[r]
                         \/ v.state[r] = "free" /\ v.queue[r] = <<>>
  BY DEF Settles
<1>2. \A t \in Tasks : v.rec[t] = s.rec[t] /\ (v.at[t] = s.at[t] \/ (s.at[t] = "receiving" /\ v.at[t] = "awake"))
  BY DEF Settles
<1>3. \A t \in All : v.rec[t].discipline = s.rec[t].discipline \/ v.rec[t].discipline = "FIFO"
  BY DEF Settles
<1>4. \A N : Parts(s, N) => Parts(v, N)
  BY DEF Settles
<1> QED BY <1>1, <1>2, <1>3, <1>4 DEF Settles

LEMMA KilledSettles ==
  ASSUME NEW s, Typed(s), NEW G \in SUBSET Surrogates, NEW u, u = Killed(s, G)
  PROVE  Typed(u) /\ Settles(s, u)
<1>D. PICK D, P : D = Living(s, G) /\ P = OwnedBy(s, D)
  OBVIOUS
<1>1. Typed(u) /\ Keeps(s, u, KillChanges) /\ Freed(s, u, P) /\ Gone(s, u, D) /\ D \subseteq Surrogates
  BY <1>D, KilledForm
<1>2. P \in SUBSET PortIds /\ u.media = s.media /\ u.received = s.received /\ u.sent = s.sent /\ u.abort = s.abort /\ u.got = s.got
  BY <1>1, <1>D DEF OwnedBy, Keeps, KillChanges
<1>3. \A N : Parts(s, N) => Parts(u, N)
  BY <1>1, <1>2, FreedParts
<1>4. \A r \in PortIds : \/ u.state[r] = s.state[r] /\ u.queue[r] = s.queue[r]
                         \/ u.state[r] = "free" /\ u.queue[r] = <<>>
  BY <1>1 DEF Freed
<1>5. \A t \in Tasks : u.rec[t] = s.rec[t] /\ u.at[t] = s.at[t]
  BY <1>1, Basics DEF Gone
<1>6. \A t \in All : u.rec[t] = s.rec[t] \/ u.rec[t].discipline = "FIFO"
  BY <1>1 DEF Gone, NoReceive
<1> QED BY <1>1, <1>2, <1>3, <1>4, <1>5, <1>6 DEF Settles

LEMMA FreeSettles ==
  ASSUME NEW s, Typed(s), NEW P \in SUBSET PortIds, NEW u, u = Free(s, P)
  PROVE  Typed(u) /\ Settles(s, u)
<1>1. Typed(u) /\ Keeps(s, u, {"state", "owner", "queue", "pairs", "lost"}) /\ Freed(s, u, P)
  BY FreeForm
<1>2. /\ u.media = s.media /\ u.received = s.received /\ u.sent = s.sent /\ u.abort = s.abort /\ u.got = s.got
      /\ u.at = s.at /\ u.rec = s.rec
  BY <1>1 DEF Keeps
<1>3. \A N : Parts(s, N) => Parts(u, N)
  BY <1>1, <1>2, FreedParts
<1>4. \A r \in PortIds : \/ u.state[r] = s.state[r] /\ u.queue[r] = s.queue[r]
                         \/ u.state[r] = "free" /\ u.queue[r] = <<>>
  BY <1>1 DEF Freed
<1> QED BY <1>1, <1>2, <1>3, <1>4 DEF Settles

\* A change of owners or members, or a wake-up.
LEMMA AlikeSettles ==
  ASSUME NEW s, NEW u, Keeps(s, u, {"at", "rtoep", "owner", "pairs"}),
         \A t \in Tasks : u.at[t] = s.at[t] \/ (s.at[t] = "receiving" /\ u.at[t] = "awake")
  PROVE  Settles(s, u) /\ Quiet(s, u)
<1>1. /\ u.media = s.media /\ u.received = s.received /\ u.sent = s.sent /\ u.abort = s.abort /\ u.got = s.got
      /\ u.rec = s.rec /\ u.state = s.state /\ u.queue = s.queue /\ u.lost = s.lost
  BY DEF Keeps
<1>2. \A N : Parts(s, N) => Parts(u, N)
  BY <1>1, PartsKept
<1> QED BY <1>1, <1>2 DEF Settles, Quiet

\* The old owner is woken, and only it.
LEMMA WakeOldForm ==
  ASSUME NEW s, Typed(s), NEW o \in All, NEW p, NEW u, u = WakeOld(s, o, p)
  PROVE  Typed(u) /\ Keeps(s, u, {"at", "rtoep"}) /\ Settles(s, u) /\ Quiet(s, u)
<1>1. CASE ~Waits(s, o, p)
  <2>1. u = s
    BY <1>1 DEF WakeOld
  <2>2. Keeps(s, u, {"at", "rtoep"}) /\ Keeps(s, u, {"at", "rtoep", "owner", "pairs"})
    BY <2>1 DEF Keeps
  <2> QED BY <2>1, <2>2, AlikeSettles
<1>2. CASE Waits(s, o, p)
  <2>1. u = Wake(s, {o}) /\ {o} \in SUBSET All
    BY <1>2 DEF WakeOld
  <2>2. Typed(u) /\ Woken(s, u, {o})
    BY <2>1, WakeForm
  <2>3. Keeps(s, u, {"at", "rtoep"}) /\ Keeps(s, u, {"at", "rtoep", "owner", "pairs"})
    BY <2>2 DEF Woken, Keeps
  <2>4. \A t \in Tasks : u.at[t] = s.at[t] \/ (s.at[t] = "receiving" /\ u.at[t] = "awake")
    BY <1>2, <2>2, Basics DEF Woken, Waits
  <2> QED BY <2>2, <2>3, <2>4, AlikeSettles
<1> QED BY <1>1, <1>2

LEMMA OwnerSettles ==
  ASSUME NEW s, Typed(s), NEW p \in PortIds, NEW o \in All, NEW u, u = WithOwner(s, p, o)
  PROVE  Typed(u) /\ Owned(s, u, p, o) /\ Settles(s, u) /\ Quiet(s, u)
<1>1. Typed(u) /\ Owned(s, u, p, o)
  BY OwnerForm
<1>2. Keeps(s, u, {"at", "rtoep", "owner", "pairs"}) /\ u.at = s.at
  BY <1>1 DEF Owned, Keeps
<1> QED BY <1>1, <1>2, AlikeSettles

LEMMA PairsSettles ==
  ASSUME NEW s, Typed(s), NEW x \in PortIds, NEW P \in SUBSET Pairs, NEW u, u = WithPairs(s, x, P)
  PROVE  Typed(u) /\ Paired(s, u, x, P) /\ Settles(s, u) /\ Quiet(s, u)
<1>1. Typed(u) /\ Paired(s, u, x, P)
  BY PairsForm
<1>2. Keeps(s, u, {"at", "rtoep", "owner", "pairs"}) /\ u.at = s.at
  BY <1>1 DEF Paired, Keeps
<1> QED BY <1>1, <1>2, AlikeSettles

LEMMA PartedSettles ==
  ASSUME NEW s, Typed(s), NEW old, NEW p, NEW u, u = Parted(s, old, p)
  PROVE  Typed(u) /\ Settles(s, u)
<1>1. CASE u = s
  <2>1. Keeps(s, u, {"at", "rtoep", "owner", "pairs"})
    BY <1>1 DEF Keeps
  <2> QED BY <1>1, <2>1, AlikeSettles
<1>2. CASE \E x \in SetsOf(s, old, p) : \E r \in s.pairs[x] :
             /\ r.port = p /\ r.task \in Surrogates /\ u = Killed(WithPairs(s, x, s.pairs[x] \ {r}), {r.task})
  <2>1. PICK x \in SetsOf(s, old, p) : \E r \in s.pairs[x] :
             /\ r.port = p /\ r.task \in Surrogates /\ u = Killed(WithPairs(s, x, s.pairs[x] \ {r}), {r.task})
    BY <1>2
  <2>2. PICK r \in s.pairs[x] : r.port = p /\ r.task \in Surrogates /\ u = Killed(WithPairs(s, x, s.pairs[x] \ {r}), {r.task})
    BY <2>1
  <2>P. PICK P : P = s.pairs[x] \ {r}
    OBVIOUS
  <2>v. PICK v : v = WithPairs(s, x, P)
    OBVIOUS
  <2>3. x \in PortIds /\ P \in SUBSET Pairs
    BY <2>P DEF SetsOf, Typed
  <2>4. Typed(v) /\ Settles(s, v)
    BY <2>3, <2>v, PairsSettles
  <2>5. u = Killed(v, {r.task}) /\ {r.task} \in SUBSET Surrogates
    BY <2>2, <2>P, <2>v
  <2>6. Typed(u) /\ Settles(v, u)
    BY <2>4, <2>5, KilledSettles
  <2> QED BY <2>4, <2>6, SettlesOn
<1> QED BY <1>1, <1>2, PartedForm DEF LeavesSet

LEMMA PassedSettles ==
  ASSUME NEW s, Typed(s), NEW p \in PortIds, NEW o \in All, s.owner[p] \in All, NEW u, u = Passed(s, p, o)
  PROVE  Typed(u) /\ Settles(s, u)
<1>a. PICK a, old : a = WithOwner(s, p, o) /\ old = s.owner[p]
  OBVIOUS
<1>b. PICK b : b = Parted(a, old, p)
  OBVIOUS
<1>1. Typed(a) /\ Settles(s, a)
  BY <1>a, OwnerSettles
<1>2. Typed(b) /\ Settles(a, b)
  BY <1>1, <1>b, PartedSettles
<1>3. u = WakeOld(b, old, p)
  BY <1>a, <1>b DEF Passed, WithOwner
<1>4. Typed(u) /\ Settles(b, u)
  BY <1>2, <1>3, <1>a, WakeOldForm
<1>5. Settles(s, b)
  BY <1>1, <1>2, SettlesOn
<1> QED BY <1>4, <1>5, SettlesOn

\* A port that no set has as a member is passed.
LEMMA PassedAlone ==
  ASSUME NEW s, Typed(s), NEW p \in PortIds, NEW o \in All, s.owner[p] \in All, NEW u, u = Passed(s, p, o),
         \A x \in PortIds : \A r \in s.pairs[x] :
           r.port = p /\ s.state[x] = "set" => x # p /\ s.owner[x] # Sire(WithOwner(s, p, o), s.owner[p])
  PROVE  /\ Typed(u) /\ Settles(s, u) /\ Quiet(s, u) /\ Keeps(s, u, {"at", "rtoep", "owner"})
         /\ \A r \in PortIds : u.owner[r] = IF r = p THEN o ELSE s.owner[r]
<1>a. PICK a, old : a = WithOwner(s, p, o) /\ old = s.owner[p]
  OBVIOUS
<1>1. Typed(a) /\ Settles(s, a) /\ Quiet(s, a) /\ Owned(s, a, p, o)
  BY <1>a, OwnerSettles
<1>2. SetsOf(a, old, p) = {}
  <2>1. a.pairs = s.pairs /\ a.state = s.state /\ \A x \in PortIds : x # p => a.owner[x] = s.owner[x]
    BY <1>1 DEF Owned, Keeps
  <2>2. \A x \in PortIds : a.state[x] = "set" /\ a.owner[x] = Sire(a, old) => ~\E r \in a.pairs[x] : r.port = p
    BY <1>a, <2>1
  <2> QED BY <2>2 DEF SetsOf
<1>3. Parted(a, old, p) = a
  BY <1>1, <1>2, PartedForm DEF LeavesSet
<1>4. u = WakeOld(a, old, p)
  BY <1>a, <1>3 DEF Passed, WithOwner
<1>5. Typed(u) /\ Keeps(a, u, {"at", "rtoep"}) /\ Settles(a, u) /\ Quiet(a, u)
  BY <1>1, <1>4, <1>a, WakeOldForm
<1>6. Settles(s, u)
  BY <1>1, <1>5, SettlesOn
<1>7. Quiet(s, u) /\ Keeps(s, u, {"at", "rtoep", "owner"}) /\ \A r \in PortIds : u.owner[r] = IF r = p THEN o ELSE s.owner[r]
  BY <1>1, <1>5 DEF Quiet, Keeps, Owned
<1> QED BY <1>5, <1>6, <1>7

\* A member that is passed to a user task leaves its set, and only it.
LEMMA PassedMembers ==
  ASSUME NEW s, Tables(s), Members(s), ~Happens({"releaseMember"}), NEW p \in PortIds, s.state[p] = "used",
         NEW o \in Tasks, NEW u, u = Passed(s, p, o)
  PROVE  Members(u) /\ Quiet(s, u) /\ \A r \in PortIds : u.owner[r] = IF r = p THEN o ELSE s.owner[r]
<1>0. /\ Typed(s) /\ s.owner[p] \in All /\ o \in All
      /\ \A x \in PortIds : \A r \in s.pairs[x] : MemberOf(s, x, r) /\ r.task \in Surrogates /\ r.port \in PortIds
  BY Basics DEF Tables, OwnerOf, Members, Typed, Pairs
<1>1. CASE \A x \in PortIds : \A r \in s.pairs[x] : r.port # p
  <2>1. /\ Typed(u) /\ Settles(s, u) /\ Quiet(s, u) /\ Keeps(s, u, {"at", "rtoep", "owner"})
        /\ \A r \in PortIds : u.owner[r] = IF r = p THEN o ELSE s.owner[r]
    BY <1>0, <1>1, PassedAlone
  <2>2. u.pairs = s.pairs /\ u.state = s.state /\ u.target = s.target /\ u.rec = s.rec
    BY <2>1 DEF Keeps
  <2>3. ASSUME NEW x \in PortIds, NEW r \in u.pairs[x] PROVE MemberOf(u, x, r)
    BY <1>0, <1>1, <2>1, <2>2 DEF MemberOf
  <2> QED BY <2>1, <2>3 DEF Members
<1>2. CASE \E x \in PortIds : \E r \in s.pairs[x] : r.port = p
  <2>x. PICK x \in PortIds : \E r \in s.pairs[x] : r.port = p
    BY <1>2
  <2>r. PICK r \in s.pairs[x] : r.port = p
    BY <2>x
  <2>a. PICK a, old : a = WithOwner(s, p, o) /\ old = s.owner[p]
    OBVIOUS
  <2>1. old = r.task /\ old \in Surrogates /\ s.target[old] = x /\ s.rec[old].port = p /\ s.state[x] = "set" /\ x # p /\ old # o
    BY <1>0, <2>a, <2>r, Basics DEF MemberOf
  <2>2. Typed(a) /\ Owned(s, a, p, o)
    BY <1>0, <2>a, OwnerForm
  <2>3. /\ a.pairs = s.pairs /\ a.state = s.state /\ a.target = s.target /\ a.rec = s.rec /\ a.queue = s.queue /\ a.lost = s.lost
        /\ a.at = s.at /\ \A y \in PortIds : a.owner[y] = IF y = p THEN o ELSE s.owner[y]
    BY <2>2 DEF Owned, Keeps
  <2>4. x \in SetsOf(a, old, p)
    <3>1. Sire(a, old) = a.owner[x]
      BY <2>1, <2>3, Basics DEF Sire
    <3> QED BY <2>1, <2>3, <2>r, <3>1 DEF SetsOf
  <2>b. PICK b : b = Parted(a, old, p)
    OBVIOUS
  <2>v. PICK v : v = WithPairs(a, x, a.pairs[x] \ {r})
    OBVIOUS
  <2>5. b = Killed(v, {old})
    <3>0. \/ SetsOf(a, old, p) = {} /\ b = a
          \/ \E y \in SetsOf(a, old, p) : \E z \in a.pairs[y] :
               /\ z.port = p /\ z.task \in Surrogates /\ b = Killed(WithPairs(a, y, a.pairs[y] \ {z}), {z.task})
      <4>1. Typed(a) /\ b = Parted(a, old, p)
        BY <2>2, <2>b
      <4>2. LeavesSet(a, b, old, p)
        BY <4>1, PartedForm
      <4> QED BY <4>2 DEF LeavesSet
    <3>1. PICK y \in SetsOf(a, old, p) : \E z \in a.pairs[y] : z.port = p /\ b = Killed(WithPairs(a, y, a.pairs[y] \ {z}), {z.task})
      BY <2>4, <3>0
    <3>2. PICK z \in a.pairs[y] : z.port = p /\ b = Killed(WithPairs(a, y, a.pairs[y] \ {z}), {z.task})
      BY <3>1
    <3>3. y \in PortIds /\ z \in s.pairs[y]
      BY <2>3, <3>1, <3>2 DEF SetsOf
    <3>4. z.task = old /\ y = x
      BY <1>0, <2>1, <2>a, <3>2, <3>3 DEF MemberOf
    <3>5. z = r
      <4>1. z \in Pairs /\ r \in Pairs
        BY <1>0, <3>3 DEF Typed
      <4> QED BY <2>1, <2>r, <3>2, <3>4, <4>1 DEF Pairs
    <3> QED BY <2>v, <3>2, <3>4, <3>5
  <2>6. Typed(v) /\ Paired(a, v, x, a.pairs[x] \ {r})
    BY <1>0, <2>2, <2>3, <2>v, PairsForm DEF Typed
  <2>7. /\ v.state = s.state /\ v.target = s.target /\ v.rec = s.rec /\ v.queue = s.queue /\ v.at = s.at /\ v.lost = s.lost
        /\ \A y \in PortIds : v.owner[y] = IF y = p THEN o ELSE s.owner[y]
        /\ \A y \in PortIds : v.pairs[y] = IF y = x THEN s.pairs[x] \ {r} ELSE s.pairs[y]
    BY <2>3, <2>6 DEF Paired, Keeps
  <2>D. PICK D, P : D = Living(v, {old}) /\ P = OwnedBy(v, D)
    OBVIOUS
  <2>8. P = {}
    <3>1. \A y \in PortIds : s.owner[y] = old => y = p
      BY <2>1 DEF Tables, OwnerOf
    <3> QED BY <2>1, <2>7, <2>D, <3>1 DEF OwnedBy, Living
  <2>9. Typed(b) /\ Keeps(v, b, KillChanges) /\ Freed(v, b, P) /\ Gone(v, b, D) /\ D \subseteq {old}
    <3>1. D \subseteq {old} /\ {old} \in SUBSET Surrogates
      BY <2>1, <2>D DEF Living
    <3> QED BY <2>5, <2>6, <2>D, <3>1, KilledForm
  <2>10. /\ \A y \in PortIds : b.state[y] = s.state[y] /\ b.owner[y] = v.owner[y] /\ b.queue[y] = s.queue[y] /\ b.pairs[y] = v.pairs[y]
         /\ b.lost = s.lost
         /\ \A g \in Surrogates : g # old => b.target[g] = s.target[g] /\ b.rec[g] = s.rec[g]
    <3>1. \A y \in PortIds : b.state[y] = s.state[y] /\ b.owner[y] = v.owner[y] /\ b.queue[y] = s.queue[y] /\ b.pairs[y] = v.pairs[y]
      BY <2>7, <2>8, <2>9 DEF Freed
    <3>2. b.lost = s.lost
      <4>1. \A i : i \in b.lost <=> i \in s.lost
        BY <2>7, <2>8, <2>9 DEF Freed
      <4> QED BY <4>1
    <3>3. \A g \in Surrogates : g # old => b.target[g] = s.target[g] /\ b.rec[g] = s.rec[g]
      BY <2>7, <2>9, Basics DEF Gone
    <3> QED BY <3>1, <3>2, <3>3
  <2>11. Keeps(b, u, {"at", "rtoep"}) /\ Quiet(b, u)
    <3>1. u = WakeOld(b, old, p)
      BY <2>a, <2>b DEF Passed, WithOwner
    <3> QED BY <1>0, <2>9, <2>a, <3>1, WakeOldForm
  <2>12. Quiet(s, u) /\ \A y \in PortIds : u.owner[y] = IF y = p THEN o ELSE s.owner[y]
    BY <2>7, <2>10, <2>11 DEF Quiet, Keeps
  <2>13. ASSUME NEW y \in PortIds, NEW z \in u.pairs[y] PROVE MemberOf(u, y, z)
    <3>1. u.pairs[y] = v.pairs[y] /\ u.target = b.target /\ u.rec = b.rec
      BY <2>10, <2>11 DEF Keeps
    <3>2. z \in s.pairs[y] /\ ~(y = x /\ z = r)
      BY <2>7, <3>1, <2>13
    <3>3. MemberOf(s, y, z) /\ z.task \in Surrogates /\ z.port \in PortIds
      BY <1>0, <3>2
    <3>4. z.task # old
      <4> SUFFICES ASSUME z.task = old PROVE FALSE
        OBVIOUS
      <4>1. y = x /\ z.port = p
        BY <2>1, <3>3 DEF MemberOf
      <4>2. z \in Pairs /\ r \in Pairs
        BY <1>0, <3>2 DEF Typed
      <4>3. z = r
        BY <2>1, <2>r, <4>1, <4>2 DEF Pairs
      <4> QED BY <3>2, <4>1, <4>3
    <3>5. z.port # p
      BY <2>a, <3>3, <3>4 DEF MemberOf
    <3> QED BY <2>10, <2>12, <3>1, <3>3, <3>4, <3>5 DEF MemberOf, Quiet
  <2> QED BY <2>12, <2>13 DEF Members
<1> QED BY <1>1, <1>2

LEMMA FreedTables ==
  ASSUME NEW s, NEW o, NEW p \in PortIds, TablesBut(s, {}, o, p), p \notin Range(Std), s.owner[p] = o \/ s.owner[p] = None,
         \A g \in Surrogates : s.at[g] # "free" => s.target[g] # p, NEW u, u = Free(s, {p})
  PROVE  TablesBut(u, {}, o, p)
<1>1. Typed(u) /\ Keeps(s, u, {"state", "owner", "queue", "pairs", "lost"}) /\ Freed(s, u, {p})
  BY FreeForm DEF TablesBut
<1>2. /\ u.at = s.at /\ u.rec = s.rec /\ u.rtoep = s.rtoep /\ u.target = s.target
      /\ \A r \in PortIds : r # p => /\ u.state[r] = s.state[r] /\ u.owner[r] = s.owner[r]
                                     /\ u.queue[r] = s.queue[r] /\ u.pairs[r] = s.pairs[r]
      /\ u.state[p] = "free" /\ u.owner[p] = None /\ u.queue[p] = <<>> /\ u.pairs[p] = {}
  BY <1>1 DEF Freed, Keeps
<1>3. ASSUME NEW r \in PortIds PROVE OwnerOf(u, r)
  <2>1. CASE r = p
    BY <1>2, <2>1, Basics DEF OwnerOf
  <2>2. CASE r # p
    <3>1. OwnerOf(s, r)
      BY DEF TablesBut
    <3>2. u.state[r] = s.state[r] /\ u.owner[r] = s.owner[r] /\ u.queue[r] = s.queue[r] /\ u.pairs[r] = s.pairs[r]
      BY <1>2, <2>2
    <3> QED BY <1>2, <3>1, <3>2 DEF OwnerOf
  <2> QED BY <2>1, <2>2
<1>4. ASSUME NEW t \in Tasks PROVE KeepsStd(u, t)
  <2>1. Std[t] # p /\ Std[t] \in PortIds
    BY Basics
  <2>2. KeepsStd(s, t)
    BY DEF TablesBut
  <2>3. u.at[t] = s.at[t] /\ u.owner[Std[t]] = s.owner[Std[t]] /\ u.state[Std[t]] = s.state[Std[t]]
    BY <1>2, <2>1
  <2> QED BY <2>2, <2>3 DEF KeepsStd
<1>5. ASSUME NEW g \in Surrogates PROVE ServesSet(u, g)
  <2>1. ServesSet(s, g)
    BY DEF TablesBut
  <2>2. CASE s.at[g] = "free"
    BY <1>2, <2>1, <2>2 DEF ServesSet
  <2>3. CASE s.at[g] # "free"
    <3>x. PICK x : x = s.target[g]
      OBVIOUS
    <3>1. x # p /\ x \in PortIds
      BY <2>1, <2>3, <3>x DEF ServesSet
    <3>2. u.state[x] = s.state[x] /\ u.pairs[x] = s.pairs[x]
      BY <1>2, <3>1
    <3> QED BY <1>2, <2>1, <2>3, <3>x, <3>2 DEF ServesSet
  <2> QED BY <2>2, <2>3
<1>6. ASSUME NEW t \in All PROVE WaitsWell(u, t) \/ (t = o /\ Stranded(u, t, p))
  <2>1. WaitsWell(s, t) \/ (t = o /\ Stranded(s, t, p))
    BY DEF TablesBut
  <2>2. CASE t = o /\ Stranded(s, t, p)
    BY <1>2, <2>2 DEF Stranded, Waits
  <2>3. CASE WaitsWell(s, t) /\ s.at[t] = "receiving" /\ s.rec[t].port = p
    <3>1. s.owner[p] = t /\ t # None
      BY <2>3, Basics DEF WaitsWell
    <3> QED BY <1>2, <2>3, <3>1 DEF WaitsWell, Stranded, Waits
  <2>4. CASE WaitsWell(s, t) /\ ~(s.at[t] = "receiving" /\ s.rec[t].port = p)
    BY <1>2, <2>4 DEF WaitsWell
  <2> QED BY <2>1, <2>2, <2>3, <2>4
<1> QED BY <1>1, <1>3, <1>4, <1>5, <1>6 DEF TablesBut

LEMMA ReleasedTables ==
  ASSUME NEW s, Tables(s), NEW p \in PortIds, p \notin Range(Std), s.state[p] # "free", NEW u, u = Released(s, p)
  PROVE  /\ Tables(u) /\ Settles(s, u)
         /\ \A r \in PortIds : u.owner[r] = s.owner[r] \/ u.queue[r] = <<>>
<1>G. PICK G, o : G = {r.task : r \in s.pairs[p]} /\ o = s.owner[p]
  OBVIOUS
<1>a. PICK a : a = Killed(s, G)
  OBVIOUS
<1>b. PICK b : b = Free(a, {p})
  OBVIOUS
<1>1. G \in SUBSET Surrogates /\ o \in All /\ Typed(s)
  BY <1>G DEF Tables, OwnerOf, Typed, Pairs
<1>D. PICK D, P : D = Living(s, G) /\ P = OwnedBy(s, D)
  OBVIOUS
<1>2. Typed(a) /\ Keeps(s, a, KillChanges) /\ Freed(s, a, P) /\ Gone(s, a, D) /\ D \subseteq Surrogates
  BY <1>1, <1>D, <1>a, KilledForm
<1>3. TablesBut(a, {}, o, p)
  BY <1>1, <1>a, KilledTables, TablesDone
<1>4. a.owner[p] = o \/ a.owner[p] = None
  BY <1>2, <1>G DEF Freed
<1>5. ASSUME NEW g \in Surrogates, a.at[g] # "free" PROVE a.target[g] # p
  <2> SUFFICES ASSUME a.target[g] = p PROVE FALSE
    OBVIOUS
  <2>1. g \notin D /\ a.at[g] = s.at[g] /\ s.target[g] = p
    BY <1>2, <1>5, Basics DEF Gone
  <2>2. [task |-> g, port |-> s.rec[g].port] \in s.pairs[p]
    BY <1>5, <2>1 DEF Tables, ServesSet
  <2>3. g \in G
    BY <1>G, <2>2
  <2> QED BY <1>5, <1>D, <2>1, <2>3 DEF Living
<1>6. TablesBut(b, {}, o, p)
  BY <1>3, <1>4, <1>5, <1>b, FreedTables
<1>7. u = WakeOld(b, o, p)
  BY <1>G, <1>a, <1>b DEF Released
<1>8. Tables(u)
  BY <1>1, <1>6, <1>7, WokenTables
<1>9. Settles(s, a) /\ Typed(b) /\ Settles(a, b) /\ Settles(b, u) /\ Keeps(b, u, {"at", "rtoep"})
  BY <1>1, <1>2, <1>a, <1>b, <1>7, KilledSettles, FreeSettles, WakeOldForm
<1>10. Settles(s, u)
  BY <1>9, SettlesOn
<1>11. ASSUME NEW r \in PortIds PROVE u.owner[r] = s.owner[r] \/ u.queue[r] = <<>>
  <2>1. Freed(a, b, {p})
    BY <1>2, <1>b, FreeForm
  <2>2. b.owner[r] = s.owner[r] \/ b.queue[r] = <<>>
    BY <1>2, <2>1 DEF Freed
  <2> QED BY <1>9, <2>2 DEF Keeps
<1> QED BY <1>8, <1>10, <1>11

LEMMA ReleasedMembers ==
  ASSUME NEW s, Tables(s), Members(s), ~Happens({"releaseMember"}), NEW p \in PortIds, s.owner[p] \in Tasks,
         NEW u, u = Released(s, p)
  PROVE  Members(u)
<1>G. PICK G, o : G = {r.task : r \in s.pairs[p]} /\ o = s.owner[p]
  OBVIOUS
<1>a. PICK a : a = Killed(s, G)
  OBVIOUS
<1>b. PICK b : b = Free(a, {p})
  OBVIOUS
<1>D. PICK D, P : D = Living(s, G) /\ P = OwnedBy(s, D)
  OBVIOUS
<1>1. /\ G \in SUBSET Surrogates /\ Typed(s) /\ o \in All
      /\ \A x \in PortIds : \A r \in s.pairs[x] : MemberOf(s, x, r) /\ r.task \in Surrogates /\ r.port \in PortIds
  BY <1>G, Basics DEF Tables, Typed, Pairs, Members
<1>2. Typed(a) /\ Keeps(s, a, KillChanges) /\ Freed(s, a, P) /\ Gone(s, a, D) /\ D \subseteq Surrogates
  BY <1>1, <1>D, <1>a, KilledForm
<1>3. Typed(b) /\ Keeps(a, b, {"state", "owner", "queue", "pairs", "lost"}) /\ Freed(a, b, {p})
  BY <1>2, <1>b, FreeForm
<1>4. Keeps(b, u, {"at", "rtoep"})
  <2>1. u = WakeOld(b, o, p)
    BY <1>G, <1>a, <1>b DEF Released
  <2> QED BY <1>1, <1>3, <2>1, WakeOldForm
<1>5. /\ u.state = b.state /\ u.owner = b.owner /\ u.target = a.target /\ u.rec = a.rec /\ u.pairs = b.pairs
  BY <1>3, <1>4 DEF Keeps
<1>6. ASSUME NEW x \in PortIds, NEW r \in u.pairs[x] PROVE MemberOf(u, x, r)
  <2>1. x # p /\ x \notin P /\ r \in s.pairs[x]
    BY <1>2, <1>3, <1>5, <1>6 DEF Freed
  <2>2. MemberOf(s, x, r) /\ r.task \in Surrogates /\ r.port \in PortIds
    BY <1>1, <2>1
  <2>3. r.task \notin D
    <3> SUFFICES ASSUME r.task \in D PROVE FALSE
      OBVIOUS
    <3>1. PICK z \in s.pairs[p] : z.task = r.task
      BY <1>D, <1>G DEF Living
    <3>2. s.target[r.task] = p
      BY <1>1, <3>1 DEF MemberOf
    <3> QED BY <2>1, <2>2, <3>2 DEF MemberOf
  <2>4. r.port \notin P
    BY <1>D, <2>2, <2>3 DEF MemberOf, OwnedBy
  <2>5. r.port # p
    BY <2>2, Basics DEF MemberOf
  <2>6. u.state[x] = s.state[x] /\ u.owner[r.port] = s.owner[r.port]
    BY <1>2, <1>3, <1>5, <2>1, <2>2, <2>4, <2>5 DEF Freed
  <2>7. u.target[r.task] = s.target[r.task] /\ u.rec[r.task] = s.rec[r.task]
    BY <1>2, <1>5, <2>2, <2>3, Basics DEF Gone
  <2> QED BY <2>2, <2>6, <2>7 DEF MemberOf
<1> QED BY <1>6 DEF Members

LEMMA OwnMailSettles == ASSUME NEW s, NEW u, OwnMail(s), Settles(s, u) PROVE OwnMail(u)
<1> SUFFICES ASSUME NEW p \in PortIds, u.state[p] = "used", NEW i \in DOMAIN u.queue[p] PROVE u.queue[p][i].org = p
  BY DEF OwnMail
<1>1. u.state[p] = s.state[p] /\ u.queue[p] = s.queue[p]
  BY DEF Settles
<1> QED BY <1>1 DEF OwnMail

LEMMA MailSettles ==
  ASSUME NEW s, Typed(s), Mail(s), NEW u, Settles(s, u), Quiet(s, u) \/ Releases,
         FirstOnly => \A r \in PortIds : \/ u.owner[r] = s.owner[r] \/ u.queue[r] = <<>>
                                         \/ \A i \in DOMAIN s.queue[r] : s.queue[r][i].kind # "timeout"
  PROVE  Mail(u)
<1>1. Parts(u, 1..u.sent)
  BY DEF Mail, Settles
<1>2. OwnMail(u)
  BY OwnMailSettles DEF Mail
<1>3. Safe(u)
  <2>1. ~Happens({"transmit"}) => \A m \in Media : u.media[m] = <<>>
    BY DEF Mail, Safe, Settles
  <2>2. ASSUME ~Releases, NEW m \in Media, NEW i \in DOMAIN u.media[m] PROVE u.state[u.media[m][i].org] # "free"
    <3>1. u.media = s.media /\ s.state[s.media[m][i].org] # "free"
      BY <2>2 DEF Mail, Safe, Settles
    <3>2. s.media[m][i].org \in PortIds
      <4>1. s.media[m] \in Seq(Carried) /\ i \in DOMAIN s.media[m]
        BY <2>2, <3>1 DEF Typed
      <4>2. s.media[m][i] \in Carried
        BY <4>1, Places1
      <4> QED BY <4>2 DEF Carried, Messages
    <3> QED BY <2>2, <3>1, <3>2 DEF Quiet
  <2>3. ~Releases /\ ~Happens({"transmit"}) => u.lost = {}
    BY DEF Mail, Safe, Quiet
  <2>4. ~(Releases /\ Happens({"transmit"})) => u.abort = None
    BY DEF Mail, Safe, Settles
  <2> QED BY <2>1, <2>2, <2>3, <2>4 DEF Safe
<1>4. StaleFree(u)
  <2>1. \A t \in All : u.rec[t].discipline \in world.disciplines \cup {"FIFO"}
    BY DEF Mail, StaleFree, Settles
  <2>2. ASSUME FirstOnly, NEW p \in PortIds, NEW i \in DOMAIN u.queue[p], u.queue[p][i].kind = "timeout"
        PROVE  /\ i = 1 /\ u.owner[p] \in Tasks /\ u.at[u.owner[p]] = "awake"
               /\ u.rec[u.owner[p]].port = p /\ u.rec[u.owner[p]].mode = "timed"
    <3>1. u.queue[p] = s.queue[p] /\ u.owner[p] = s.owner[p]
      BY <2>2 DEF Settles
    <3>2. /\ i = 1 /\ s.owner[p] \in Tasks /\ s.at[s.owner[p]] = "awake"
          /\ s.rec[s.owner[p]].port = p /\ s.rec[s.owner[p]].mode = "timed"
      BY <2>2, <3>1 DEF Mail, StaleFree
    <3> QED BY <3>1, <3>2 DEF Settles
  <2>3. ASSUME FirstOnly, NEW t \in Tasks, u.at[t] = "running", u.got[t] = "timeout" PROVE u.rec[t].mode # "never"
    BY <2>3 DEF Mail, StaleFree, Settles
  <2> QED BY <2>1, <2>2, <2>3 DEF StaleFree
<1>5. ASSUME Ordered(s) PROVE Ordered(u)
  <2>1. \A p \in PortIds : Within(u.queue[p], s.queue[p])
    BY Withins DEF Settles
  <2>2. \A x \in PortIds : u.state[x] = "set" => s.state[x] = "set" \/ u.queue[x] = <<>>
    BY DEF Settles
  <2> QED BY <1>5, <2>1, <2>2, OrderedThins
<1> QED BY <1>1, <1>2, <1>3, <1>4, <1>5 DEF Mail

-----------------------------------------------------------------------------
\* What all the steps keep: the tables, the sets, and the messages.
Good(s) == Tables(s) /\ Members(s) /\ Mail(s)

LEMMA Happening == ASSUME world \in Worlds, NEW t \in Tasks, NEW c, c \in world.calls[t], NEW C, c \in C PROVE Happens(C)
  BY DEF Happens

LEMMA DeliveredMembers == ASSUME NEW s, Members(s), NEW u, NEW p, NEW q, Delivered(s, u, p, q) PROVE Members(u)
<1>1. u.state = s.state /\ u.owner = s.owner /\ u.pairs = s.pairs /\ u.target = s.target /\ u.rec = s.rec
  BY DEF Delivered, Keeps
<1> QED BY <1>1 DEF Members, MemberOf

LEMMA DeliveredSafe ==
  ASSUME NEW s, Safe(s), NEW u, NEW p, NEW q, Delivered(s, u, p, q),
         s.owner[p] # None \/ Releases \/ Happens({"transmit"})
  PROVE  Safe(u)
<1>1. u.state = s.state /\ u.media = s.media /\ u.abort = s.abort /\ (s.owner[p] # None => u.lost = s.lost)
  BY DEF Delivered, Keeps
<1> QED BY <1>1 DEF Safe

\* The queues after q has been sent to p.
LEMMA DeliveredQueues ==
  ASSUME NEW s, Typed(s), NEW p \in PortIds, NEW q \in Seq(SoundOnes), NEW u, Delivered(s, u, p, q)
  PROVE  /\ \A r \in PortIds : r # p => u.queue[r] = s.queue[r]
         /\ \A i \in DOMAIN u.queue[p] :
              \/ i \in DOMAIN s.queue[p] /\ u.queue[p][i] = s.queue[p][i]
              \/ \E j \in DOMAIN q : s.owner[p] # None /\ u.queue[p][i] = q[j] /\ i = Len(s.queue[p]) + j
<1>1. CASE s.owner[p] = None
  BY <1>1 DEF Delivered, Keeps
<1>2. CASE s.owner[p] # None
  <2>c. PICK c, w, l : c = s.queue[p] /\ w = u.queue[p] /\ l = Len(c)
    OBVIOUS
  <2>1. c \in Seq(SoundOnes) /\ w = c \o q
    BY <1>2, <2>c DEF Typed, Delivered
  <2>2. /\ \A i \in DOMAIN c : w[i] = c[i]
        /\ \A i \in DOMAIN w : i \in DOMAIN c \/ (i - l \in DOMAIN q /\ i > l /\ w[i] = q[i - l])
    BY <2>1, <2>c, JoinedIds
  <2>3. l \in Nat /\ DOMAIN w \subseteq Nat
    BY <2>1, <2>c, JoinedIds
  <2>4. ASSUME NEW i \in DOMAIN w PROVE (i \in DOMAIN c /\ w[i] = c[i]) \/ \E j \in DOMAIN q : w[i] = q[j] /\ i = l + j
    <3>1. CASE i \in DOMAIN c
      BY <2>2, <3>1
    <3>2. CASE i \notin DOMAIN c
      <4>1. i - l \in DOMAIN q /\ w[i] = q[i - l]
        BY <2>2, <3>2
      <4>2. i = l + (i - l)
        BY <2>3
      <4> QED BY <4>1, <4>2
    <3> QED BY <3>1, <3>2
  <2> QED BY <1>2, <2>c, <2>4 DEF Delivered
<1> QED BY <1>1, <1>2

LEMMA DeliveredOwnMail ==
  ASSUME NEW s, Typed(s), OwnMail(s), NEW p \in PortIds, NEW q \in Seq(SoundOnes), NEW u, Delivered(s, u, p, q),
         s.state[p] = "used" => \A i \in DOMAIN q : q[i].org = p
  PROVE  OwnMail(u)
<1> SUFFICES ASSUME NEW r \in PortIds, u.state[r] = "used", NEW i \in DOMAIN u.queue[r] PROVE u.queue[r][i].org = r
  BY DEF OwnMail
<1>1. s.state[r] = "used"
  BY DEF Delivered, Keeps
<1>2. CASE r # p
  BY <1>1, <1>2, DeliveredQueues DEF OwnMail
<1>3. CASE r = p
  <2>1. \/ i \in DOMAIN s.queue[p] /\ u.queue[p][i] = s.queue[p][i]
        \/ \E j \in DOMAIN q : u.queue[p][i] = q[j]
    BY <1>3, DeliveredQueues
  <2> QED BY <1>1, <1>3, <2>1 DEF OwnMail
<1> QED BY <1>2, <1>3

\* A time-out is sent to its own receiver, whose port is empty.
LEMMA DeliveredStale ==
  ASSUME NEW s, Typed(s), StaleFree(s), NEW p \in PortIds, NEW q \in Seq(SoundOnes), NEW u, Delivered(s, u, p, q),
         FirstOnly => \A i \in DOMAIN q : q[i].kind = "timeout" =>
                        /\ i = 1 /\ s.queue[p] = <<>> /\ s.owner[p] \in Tasks /\ Waits(s, s.owner[p], p)
                        /\ s.rec[s.owner[p]].mode = "timed"
  PROVE  StaleFree(u)
<1>1. u.owner = s.owner /\ u.rec = s.rec /\ u.got = s.got
  BY DEF Delivered, Keeps
<1>2. \A t \in All : u.at[t] = s.at[t] \/ (Waits(s, t, p) /\ t = s.owner[p] /\ u.at[t] = "awake")
  BY DEF Delivered, Keeps
<1>3. ASSUME FirstOnly, NEW t \in Tasks, u.at[t] = "running", u.got[t] = "timeout" PROVE u.rec[t].mode # "never"
  BY <1>1, <1>2, <1>3, Basics DEF StaleFree
<1>4. ASSUME FirstOnly, NEW r \in PortIds, NEW i \in DOMAIN u.queue[r], u.queue[r][i].kind = "timeout"
      PROVE  /\ i = 1 /\ u.owner[r] \in Tasks /\ u.at[u.owner[r]] = "awake"
             /\ u.rec[u.owner[r]].port = r /\ u.rec[u.owner[r]].mode = "timed"
  <2>1. CASE i \in DOMAIN s.queue[r] /\ u.queue[r][i] = s.queue[r][i]
    <3>1. /\ i = 1 /\ s.owner[r] \in Tasks /\ s.at[s.owner[r]] = "awake"
          /\ s.rec[s.owner[r]].port = r /\ s.rec[s.owner[r]].mode = "timed"
      BY <1>4, <2>1 DEF StaleFree
    <3>2. u.at[s.owner[r]] = "awake"
      BY <1>2, <3>1, Basics DEF Waits
    <3> QED BY <1>1, <3>1, <3>2
  <2>2. CASE ~(i \in DOMAIN s.queue[r] /\ u.queue[r][i] = s.queue[r][i])
    <3>1. r = p
      BY <1>4, <2>2, DeliveredQueues
    <3>2. PICK j \in DOMAIN q : s.owner[p] # None /\ u.queue[p][i] = q[j] /\ i = Len(s.queue[p]) + j
      BY <1>4, <2>2, <3>1, DeliveredQueues
    <3>3. /\ j = 1 /\ s.queue[p] = <<>> /\ s.owner[p] \in Tasks /\ Waits(s, s.owner[p], p)
          /\ s.rec[s.owner[p]].mode = "timed"
      BY <1>4, <3>1, <3>2
    <3>4. i = 1
      BY <3>2, <3>3
    <3>5. u.at[s.owner[p]] = "awake"
      BY <3>2, <3>3, Basics DEF Delivered
    <3> QED BY <1>1, <3>1, <3>3, <3>4, <3>5 DEF Waits
  <2> QED BY <2>1, <2>2
<1> QED BY <1>1, <1>3, <1>4 DEF StaleFree

LEMMA DeliveredNoStale ==
  ASSUME NEW s, Typed(s), StaleFree(s), NEW p \in PortIds, NEW q \in Seq(SoundOnes), NEW u, Delivered(s, u, p, q),
         FirstOnly => \A i \in DOMAIN q : q[i].kind # "timeout"
  PROVE  StaleFree(u)
<1>1. FirstOnly => \A i \in DOMAIN q : q[i].kind = "timeout" =>
                        /\ i = 1 /\ s.queue[p] = <<>> /\ s.owner[p] \in Tasks /\ Waits(s, s.owner[p], p)
                        /\ s.rec[s.owner[p]].mode = "timed"
  OBVIOUS
<1> QED BY <1>1, DeliveredStale

\* A message for p, not older than those there are, is queued last.
LEMMA DeliveredOrder ==
  ASSUME NEW s, Typed(s), Ordered(s), NEW p \in PortIds, NEW m \in SoundOnes, NEW u, Delivered(s, u, p, <<m>>), m.org = p,
         NEW N \in Nat, \A r \in PortIds : \A i \in Ids(s.queue[r]) : i <= N, m.mid = 0 \/ m.mid > N
  PROVE  Ordered(u)
<1>1. \A r \in PortIds : u.queue[r] = s.queue[r] \/ (r = p /\ u.queue[r] = s.queue[r] \o <<m>>)
  BY DEF Delivered, Keeps
<1>2. u.state = s.state
  BY DEF Delivered, Keeps
<1> QED BY <1>1, <1>2, OrderedGrows

-----------------------------------------------------------------------------
\* Sending.

\* The number of a message changes nothing else.
LEMMA NumberedKeeps ==
  ASSUME NEW s, NEW u, Typed(u), Keeps(s, u, {"sent"})
  PROVE  /\ Tables(s) => Tables(u)
         /\ Members(s) => Members(u)
         /\ OwnMail(s) => OwnMail(u)
         /\ Safe(s) => Safe(u)
         /\ StaleFree(s) => StaleFree(u)
         /\ Ordered(s) => Ordered(u)
         /\ \A N : Parts(s, N) => Parts(u, N)
<1>1. /\ u.at = s.at /\ u.rec = s.rec /\ u.rtoep = s.rtoep /\ u.got = s.got /\ u.target = s.target /\ u.state = s.state
      /\ u.owner = s.owner /\ u.queue = s.queue /\ u.pairs = s.pairs /\ u.media = s.media /\ u.received = s.received
      /\ u.lost = s.lost /\ u.abort = s.abort
  BY DEF Keeps
<1>2. Tables(s) => Tables(u)
  BY <1>1 DEF Tables, OwnerOf, KeepsStd, ServesSet, WaitsWell
<1>3. Members(s) => Members(u)
  BY <1>1 DEF Members, MemberOf
<1>4. Safe(s) => Safe(u)
  BY <1>1 DEF Safe
<1>5. StaleFree(s) => StaleFree(u)
  BY <1>1 DEF StaleFree
<1>6. Ordered(s) => Ordered(u)
  BY <1>1 DEF Ordered
<1>7. OwnMail(s) => OwnMail(u)
  BY <1>1 DEF OwnMail
<1>8. \A N : Parts(s, N) => Parts(u, N)
  BY <1>1, PartsKept
<1> QED BY <1>2, <1>3, <1>4, <1>5, <1>6, <1>7, <1>8

\* The numbers of the messages on a port.
LEMMA Numbers ==
  ASSUME NEW s, NEW n \in Nat, Parts(s, 1..n)
  PROVE  /\ \A p \in PortIds : \A i \in Ids(s.queue[p]) : i \in 1..n /\ i <= n
         /\ \A m \in Media : \A i \in Ids(s.media[m]) : i \in 1..n /\ i <= n
<1>1. \A a \in Places : \A i \in Held(s, a) : i \in 1..n /\ i <= n
  BY DEF Parts
<1>2. \A p \in PortIds : \A i \in Ids(s.queue[p]) : i \in Held(s, PortAt(p)) /\ PortAt(p) \in Places
  BY Seats
<1>3. \A m \in Media : \A i \in Ids(s.media[m]) : i \in Held(s, MediaAt(m)) /\ MediaAt(m) \in Places
  BY Seats
<1> QED BY <1>1, <1>2, <1>3

LEMMA NewMessage ==
  ASSUME IInv, Room(1), NEW p \in PortIds, NEW pri \in world.priorities, NEW m, m = Message(k.sent + 1, "message", p, pri)
  PROVE  /\ m \in Carried /\ m \in SoundOnes /\ m.org = p /\ m.kind = "message" /\ m.mid = k.sent + 1
         /\ k.sent \in Nat /\ k.sent + 1 \in 1..MaxSent /\ m.mid # 0 /\ m.mid > k.sent
<1>1. k.sent \in Nat /\ k.sent + 1 \in 1..MaxSent /\ k.sent + 1 # 0 /\ k.sent + 1 > k.sent /\ k.sent + 1 \in 0..MaxSent
  BY Basics DEF IInv, Tables, Typed, Room
<1>2. m.mid = k.sent + 1 /\ m.kind = "message" /\ m.org = p /\ m.pri = pri
  BY DEF Message
<1>3. m \in Messages
  BY <1>1 DEF Message, Messages
<1> QED BY <1>1, <1>2, <1>3, IdsRange DEF Carried

LEMMA Sending ==
  ASSUME IInv, Room(1), NEW p \in PortIds, k.state[p] # "free", NEW pri \in world.priorities,
         NEW u, u = Deliver(Numbered(k), p, <<Message(k.sent + 1, "message", p, pri)>>)
  PROVE  Good(u)
<1>m. PICK m : m = Message(k.sent + 1, "message", p, pri)
  OBVIOUS
<1>q. PICK q : q = <<m>>
  OBVIOUS
<1>s. PICK s : s = Numbered(k)
  OBVIOUS
<1>n. PICK n : n = k.sent
  OBVIOUS
<1>0. /\ m \in SoundOnes /\ m.org = p /\ m.kind = "message" /\ m.mid = n + 1 /\ n \in Nat /\ m.mid # 0 /\ m.mid > n
      /\ k.sent + 1 <= MaxSent
  BY <1>m, <1>n, NewMessage, Basics
<1>1. Typed(k) /\ Tables(k) /\ Members(k) /\ Mail(k) /\ Parts(k, 1..n)
  BY <1>n DEF IInv, Tables, Mail
<1>2. Typed(s) /\ Keeps(k, s, {"sent"}) /\ s.sent = n + 1
  BY <1>0, <1>1, <1>n, <1>s, NumberedForm
<1>3. /\ Tables(s) /\ Members(s) /\ OwnMail(s) /\ Safe(s) /\ StaleFree(s) /\ Parts(s, 1..n)
      /\ ~Happens({"leave", "transmit"}) => Ordered(s)
  BY <1>1, <1>2, NumberedKeeps DEF Mail
<1>4. q \in Seq(SoundOnes) /\ q # <<>> /\ DOMAIN q = {1} /\ q[1] = m /\ Distinct(q) /\ Ids(q) = {n + 1}
  BY <1>0, <1>q, SingleIds
<1>5. Typed(u) /\ Delivered(s, u, p, q)
  BY <1>2, <1>4, <1>m, <1>q, <1>s, DeliverForm
<1>6. s.owner[p] # None /\ u.sent = n + 1
  <2>1. k.owner[p] \in All /\ s.owner = k.owner /\ u.sent = s.sent
    BY <1>1, <1>2, <1>5 DEF Tables, OwnerOf, Keeps, Delivered
  <2> QED BY <1>2, <2>1, Basics
<1>7. Tables(u) /\ Members(u)
  BY <1>3, <1>5, DeliveredTables, DeliveredMembers
<1>8. Parts(u, 1..u.sent)
  <2>1. Parts(u, (1..n) \cup Ids(q))
    <3>1. \A i \in Ids(q) : i \notin 1..n
      BY <1>0, <1>4
    <3> QED BY <1>2, <1>3, <1>4, <1>5, <3>1, DeliveredParts
  <2>2. (1..n) \cup Ids(q) = 1..(n + 1)
    BY <1>0, <1>4
  <2> QED BY <1>6, <2>1, <2>2
<1>9. OwnMail(u)
  BY <1>0, <1>2, <1>3, <1>4, <1>5, DeliveredOwnMail
<1>10. Safe(u)
  BY <1>3, <1>5, <1>6, DeliveredSafe
<1>11. StaleFree(u)
  BY <1>0, <1>2, <1>3, <1>4, <1>5, DeliveredStale
<1>12. ASSUME ~Happens({"leave", "transmit"}) PROVE Ordered(u)
  <2>1. \A r \in PortIds : \A i \in Ids(s.queue[r]) : i <= n
    BY <1>0, <1>3, Numbers
  <2>2. Ordered(s) /\ Delivered(s, u, p, <<m>>)
    BY <1>3, <1>5, <1>12, <1>q
  <2> QED BY <1>0, <1>2, <2>1, <2>2, DeliveredOrder
<1> QED BY <1>7, <1>8, <1>9, <1>10, <1>11, <1>12 DEF Good, Mail

LEMMA SendPriorityStep == ASSUME IInv, NEW t, NEW p \in PortIds, NEW pri \in world.priorities, SendPriority(t, p, pri) PROVE Good(k')
  BY Sending DEF SendPriority

LEMMA ResendStep == ASSUME IInv, NEW t, NEW p \in PortIds, NEW pri \in world.priorities, Resend(t, p, pri) PROVE Good(k')
  BY Sending DEF Resend

LEMMA TransmitStep ==
  ASSUME IInv, NEW t \in Tasks, NEW d \in Media, NEW p \in PortIds, NEW pri \in world.priorities, Transmit(t, d, p, pri)
  PROVE  Good(k')
<1>m. PICK m : m = Message(k.sent + 1, "message", p, pri)
  OBVIOUS
<1>n. PICK n, q : n = k.sent /\ q = k.media[d]
  OBVIOUS
<1>s. PICK s : s = Numbered(k)
  OBVIOUS
<1>u. PICK u : u = k'
  OBVIOUS
<1>0. /\ m \in Carried /\ m.org = p /\ m.mid = n + 1 /\ n \in Nat /\ m.mid # 0 /\ m.mid > n
      /\ k.sent + 1 <= MaxSent
  BY <1>m, <1>n, NewMessage, Basics DEF Transmit
<1>1. /\ Typed(k) /\ Tables(k) /\ Members(k) /\ Mail(k) /\ Parts(k, 1..n) /\ q \in Seq(Carried)
      /\ Happens({"transmit"}) /\ k.state[p] # "free"
  BY <1>n, Happening DEF IInv, Tables, Mail, Typed, Transmit, May
<1>2. Typed(s) /\ Keeps(k, s, {"sent"}) /\ s.sent = n + 1
  BY <1>0, <1>1, <1>n, <1>s, NumberedForm
<1>3. /\ Tables(s) /\ Members(s) /\ OwnMail(s) /\ Safe(s) /\ StaleFree(s) /\ Parts(s, 1..n)
      /\ s.media = k.media /\ s.state = k.state
  BY <1>1, <1>2, NumberedKeeps DEF Mail, Keeps
<1>4. PICK i \in Sides(q, d) : u = [s EXCEPT !.media[d] = InsertAt(@, i, m)]
  BY <1>m, <1>n, <1>s, <1>u DEF Transmit
<1>r. PICK r : r = InsertAt(q, i, m)
  OBVIOUS
<1>5. i \in 1..Len(q)+1
  <2>1. Len(q) \in Nat
    BY <1>1, Places1
  <2> QED BY <2>1 DEF Sides
<1>6. r \in Seq(Carried) /\ (Distinct(q) /\ m.mid \notin Ids(q) => Distinct(r)) /\ \A x \in DOMAIN r : r[x] = m \/ \E j \in DOMAIN q : r[x] = q[j]
  BY <1>0, <1>1, <1>5, <1>r, InsertedIds
<1>7. \A x : x \in Ids(r) <=> x \in Ids(q) \/ x = n + 1
  <2>1. Ids(r) = Ids(q) \cup ({m.mid} \ {0})
    BY <1>0, <1>1, <1>5, <1>r, InsertedIds
  <2> QED BY <1>0, <2>1
<1>8. Typed(u) /\ Carrying(s, u, d, r)
  <2>1. u = WithMedia(s, d, r)
    BY <1>3, <1>4, <1>n, <1>r DEF WithMedia
  <2> QED BY <1>2, <1>6, <2>1, MediaForm
<1>9. /\ u.at = s.at /\ u.rec = s.rec /\ u.rtoep = s.rtoep /\ u.got = s.got /\ u.target = s.target /\ u.state = s.state
      /\ u.owner = s.owner /\ u.queue = s.queue /\ u.pairs = s.pairs /\ u.received = s.received /\ u.lost = s.lost
      /\ u.abort = s.abort /\ u.sent = n + 1
      /\ \A x \in Media : u.media[x] = IF x = d THEN r ELSE k.media[x]
  BY <1>2, <1>3, <1>8 DEF Carrying, Keeps
<1>10. Tables(u)
  BY <1>3, <1>8, <1>9 DEF Tables, OwnerOf, KeepsStd, ServesSet, WaitsWell
<1>11. Members(u) /\ OwnMail(u) /\ StaleFree(u)
  BY <1>3, <1>9 DEF Members, MemberOf, OwnMail, StaleFree
<1>12. Parts(u, 1..u.sent)
  <2>1. ElsewhereAlike(s, u, MediaAt(d)) /\ MediaAt(d) \in Places
    BY <1>3, <1>9, OtherOnly, Seats
  <2>2. \A x : x \in Held(u, MediaAt(d)) <=> x \in Held(s, MediaAt(d)) \/ x \in {n + 1}
    BY <1>3, <1>7, <1>9, <1>n, Seats
  <2>3. \A x \in {n + 1} : x \notin 1..n
    BY <1>0
  <2>4. AllDistinct(u)
    <3>1. Distinct(q)
      BY <1>1, <1>n DEF Parts
    <3>2. n + 1 \notin Ids(q)
      <4>1. \A x \in Ids(q) : x \in 1..n /\ x <= n
        BY <1>0, <1>1, <1>n, Numbers
      <4> QED BY <1>0, <4>1
    <3>3. m.mid \notin Ids(q)
      BY <1>0, <3>2
    <3>4. Distinct(r)
      BY <1>6, <3>1, <3>3
    <3> QED BY <1>3, <1>9, <3>4 DEF AllDistinct, Parts
  <2>5. Parts(u, (1..n) \cup {n + 1})
    BY <1>3, <2>1, <2>2, <2>3, <2>4, PartsGrow
  <2>6. (1..n) \cup {n + 1} = 1..(n + 1)
    BY <1>0
  <2> QED BY <1>9, <2>5, <2>6
<1>13. Safe(u)
  <2>1. ASSUME ~Releases, NEW x \in Media, NEW j \in DOMAIN u.media[x] PROVE u.state[u.media[x][j].org] # "free"
    <3>1. CASE x = d
      <4>1. r[j] = m \/ \E y \in DOMAIN q : r[j] = q[y]
        BY <1>6, <1>9, <2>1, <3>1
      <4> QED BY <1>0, <1>1, <1>3, <1>9, <1>n, <2>1, <3>1, <4>1 DEF Safe
    <3>2. CASE x # d
      BY <1>3, <1>9, <2>1, <3>2 DEF Safe
    <3> QED BY <3>1, <3>2
  <2>2. ~(Releases /\ Happens({"transmit"})) => u.abort = None
    BY <1>3, <1>9 DEF Safe
  <2> QED BY <1>1, <2>1, <2>2 DEF Safe
<1>14. Happens({"leave", "transmit"})
  BY Happening DEF IInv, Transmit, May
<1> QED BY <1>10, <1>11, <1>12, <1>13, <1>14, <1>u DEF Good, Mail

\* The time-out is sent to the empty port its task waits on.
LEMMA TimeOutStep == ASSUME IInv, NEW t \in Tasks, TimeOut(t) PROVE Good(k')
<1>p. PICK p, n : p = k.rec[t].port /\ n = k.sent
  OBVIOUS
<1>m. PICK m : m = Message(0, "timeout", p, 0)
  OBVIOUS
<1>q. PICK q : q = <<m>>
  OBVIOUS
<1>a. PICK a : a = [k EXCEPT !.rtoep[t] = FALSE]
  OBVIOUS
<1>u. PICK u : u = k'
  OBVIOUS
<1>1. /\ Typed(k) /\ Tables(k) /\ Members(k) /\ Mail(k) /\ Parts(k, 1..n) /\ t \in All /\ k.rtoep[t]
      /\ n \in Nat /\ k.sent = n
  BY <1>p, Basics DEF IInv, Tables, Mail, TimeOut, Typed
<1>2. k.at[t] = "receiving" /\ k.rec[t].mode = "timed" /\ p \in PortIds /\ k.owner[p] = t /\ k.queue[p] = <<>>
  BY <1>1, <1>p DEF Tables, WaitsWell
<1>f. PICK f : f = [k.rtoep EXCEPT ![t] = FALSE]
  OBVIOUS
<1>3. a = [at |-> k.at, rec |-> k.rec, rtoep |-> f, got |-> k.got, target |-> k.target, state |-> k.state, owner |-> k.owner, queue |-> k.queue, pairs |-> k.pairs, media |-> k.media, sent |-> k.sent, received |-> k.received, lost |-> k.lost, abort |-> k.abort]
  BY <1>1, <1>a, <1>f DEF Typed, Shape
<1>4. Shape(a) /\ Keeps(k, a, {"rtoep"}) /\ a.rtoep = f
  BY <1>3 DEF Shape, Keeps
<1>5. f \in [All -> BOOLEAN] /\ \A x \in All : f[x] = IF x = t THEN FALSE ELSE k.rtoep[x]
  BY <1>1, <1>f DEF Typed
<1>6. /\ a.at = k.at /\ a.rec = k.rec /\ a.got = k.got /\ a.target = k.target /\ a.state = k.state /\ a.owner = k.owner
      /\ a.queue = k.queue /\ a.pairs = k.pairs /\ a.media = k.media /\ a.received = k.received /\ a.lost = k.lost
      /\ a.abort = k.abort /\ a.sent = n
  BY <1>1, <1>4 DEF Keeps
<1>7. Typed(a)
  BY <1>1, <1>4, <1>5, <1>6 DEF Typed
<1>8. Tables(a)
  <2>1. ASSUME NEW x \in All PROVE WaitsWell(a, x)
    <3>1. WaitsWell(k, x)
      BY <1>1 DEF Tables
    <3>2. a.rtoep[x] => k.rtoep[x]
      BY <1>4, <1>5
    <3> QED BY <1>6, <3>1, <3>2 DEF WaitsWell
  <2> QED BY <1>1, <1>6, <1>7, <2>1 DEF Tables, OwnerOf, KeepsStd, ServesSet
<1>9. Members(a) /\ OwnMail(a) /\ Safe(a) /\ StaleFree(a)
  BY <1>1, <1>6 DEF Mail, Members, MemberOf, OwnMail, Safe, StaleFree
<1>10. Parts(a, 1..n)
  BY <1>1, <1>6, PartsKept
<1>11. m \in SoundOnes /\ m.mid = 0 /\ m.kind = "timeout" /\ m.org = p
  <2>1. m.mid = 0 /\ m.kind = "timeout" /\ m.org = p /\ m.pri = 0
    BY <1>m DEF Message
  <2>2. m \in Messages
    BY <1>2, <1>m, Basics DEF Message, Messages
  <2> QED BY <2>1, <2>2 DEF SoundOnes, Sound
<1>12. q \in Seq(SoundOnes) /\ q # <<>> /\ DOMAIN q = {1} /\ q[1] = m /\ Distinct(q) /\ Ids(q) = {}
  BY <1>11, <1>q, SingleIds
<1>13. u = Deliver(a, p, q)
  <2>1. k' = Deliver(a, p, q)
    BY <1>2, <1>a, <1>m, <1>p, <1>q DEF TimeOut
  <2> QED BY <2>1, <1>u
<1>14. Typed(u) /\ Delivered(a, u, p, q)
  BY <1>2, <1>7, <1>12, <1>13, DeliverForm
<1>15. u.sent = n /\ a.owner[p] = t /\ t # None
  BY <1>2, <1>6, <1>14, Basics DEF Delivered, Keeps
<1>16. Tables(u) /\ Members(u) /\ Safe(u)
  BY <1>2, <1>8, <1>9, <1>14, <1>15, DeliveredTables, DeliveredMembers, DeliveredSafe
<1>17. Parts(u, 1..u.sent)
  <2>1. Parts(u, (1..n) \cup Ids(q))
    BY <1>2, <1>7, <1>10, <1>12, <1>14, DeliveredParts
  <2>2. (1..n) \cup Ids(q) = 1..n
    BY <1>12
  <2> QED BY <1>15, <2>1, <2>2
<1>18. OwnMail(u)
  BY <1>2, <1>7, <1>9, <1>11, <1>12, <1>14, DeliveredOwnMail
<1>19. StaleFree(u)
  <2>1. a.queue[p] = <<>> /\ a.owner[p] \in Tasks /\ Waits(a, a.owner[p], p) /\ a.rec[a.owner[p]].mode = "timed"
    BY <1>2, <1>6, <1>15, <1>p DEF Waits
  <2>2. \A i \in DOMAIN q : i = 1
    BY <1>12
  <2> QED BY <1>2, <1>7, <1>9, <1>12, <1>14, <2>1, <2>2, DeliveredStale
<1>20. ASSUME ~Happens({"leave", "transmit"}) PROVE Ordered(u)
  <2>1. Ordered(a)
    BY <1>1, <1>6, <1>20 DEF Mail, Ordered
  <2>2. \A r \in PortIds : \A i \in Ids(a.queue[r]) : i <= n
    BY <1>1, <1>10, Numbers
  <2> QED BY <1>1, <1>2, <1>7, <1>11, <1>14, <1>q, <2>1, <2>2, DeliveredOrder
<1> QED BY <1>16, <1>17, <1>18, <1>19, <1>20, <1>u DEF Good, Mail

LEMMA EndTransmissionStep == ASSUME IInv, NEW d \in Media, EndTransmission(d) PROVE Good(k')
<1>n. PICK n, q : n = k.sent /\ q = k.media[d]
  OBVIOUS
<1>m. PICK m, r, p : m = Head(q) /\ r = Tail(q) /\ p = m.org
  OBVIOUS
<1>a. PICK a : a = WithMedia(k, d, r)
  OBVIOUS
<1>u. PICK u : u = k'
  OBVIOUS
<1>1. /\ Typed(k) /\ Tables(k) /\ Members(k) /\ Mail(k) /\ Parts(k, 1..n) /\ q \in Seq(Carried) /\ q # <<>>
      /\ n \in Nat /\ k.sent = n
  BY <1>n, Basics DEF IInv, Tables, Mail, Typed, EndTransmission
<1>2. r \in Seq(Carried) /\ Thinned(q, r, DOMAIN q \ {1}) /\ 1 \in DOMAIN q /\ m = q[1]
  BY <1>1, <1>m, TailThins
<1>3. m \in Carried /\ m \in SoundOnes /\ p \in PortIds /\ m.mid # 0 /\ m.mid \in 1..MaxSent /\ m.kind = "message"
  <2>1. m \in Carried
    BY <1>1, <1>2, Places1
  <2>2. m.mid \in 0..MaxSent /\ m.mid # 0 /\ m.kind = "message" /\ p \in PortIds
    BY <1>m, <2>1 DEF Carried, Messages
  <2> QED BY <2>1, <2>2, Basics, IdsRange
<1>4. Happens({"transmit"}) /\ Happens({"leave", "transmit"})
  <2>1. Happens({"transmit"})
    BY <1>1, <1>n DEF Mail, Safe
  <2> QED BY <2>1 DEF Happens
<1>5. Typed(a) /\ Carrying(k, a, d, r)
  BY <1>1, <1>2, <1>a, MediaForm
<1>6. /\ a.at = k.at /\ a.rec = k.rec /\ a.rtoep = k.rtoep /\ a.got = k.got /\ a.target = k.target /\ a.state = k.state
      /\ a.owner = k.owner /\ a.queue = k.queue /\ a.pairs = k.pairs /\ a.received = k.received /\ a.lost = k.lost
      /\ a.abort = k.abort /\ a.sent = n
      /\ \A x \in Media : a.media[x] = IF x = d THEN r ELSE k.media[x]
  BY <1>1, <1>5 DEF Carrying, Keeps
<1>7. Tables(a)
  BY <1>1, <1>5, <1>6 DEF Tables, OwnerOf, KeepsStd, ServesSet, WaitsWell
<1>8. Members(a) /\ OwnMail(a) /\ StaleFree(a)
  BY <1>1, <1>6 DEF Mail, Members, MemberOf, OwnMail, StaleFree
<1>9. Safe(a)
  <2>1. ASSUME ~Releases, NEW x \in Media, NEW j \in DOMAIN a.media[x] PROVE a.state[a.media[x][j].org] # "free"
    <3>1. CASE x = d
      <4>1. PICK y \in DOMAIN q : r[j] = q[y]
        <5>1. \E i \in DOMAIN q \ {1} : i \in DOMAIN q /\ r[j] = q[i]
          BY <1>1, <1>2, <1>6, <2>1, <3>1, ThinnedIds
        <5> QED BY <5>1
      <4> QED BY <1>1, <1>6, <1>n, <2>1, <3>1, <4>1 DEF Mail, Safe
    <3>2. CASE x # d
      BY <1>1, <1>6, <2>1, <3>2 DEF Mail, Safe
    <3> QED BY <3>1, <3>2
  <2> QED BY <1>1, <1>4, <1>6, <2>1 DEF Mail, Safe
<1>10. Parts(a, (1..n) \ {m.mid}) /\ m.mid \in 1..n
  <2>1. ElsewhereAlike(k, a, MediaAt(d)) /\ MediaAt(d) \in Places
    BY <1>6, OtherOnly, Seats
  <2>2. Distinct(q) /\ m.mid \in Ids(q)
    BY <1>1, <1>2, <1>3, <1>n DEF Parts, Ids
  <2>3. Ids(r) \subseteq Ids(q) /\ Distinct(r)
    BY <1>1, <1>2, <2>2, ThinnedIds
  <2>4. Ids(r) = {q[i].mid : i \in DOMAIN q \ {1}} \ {0}
    BY <1>1, <1>2, ThinnedIds
  <2>5. \A x : x \in Ids(r) <=> x \in Ids(q) /\ x # m.mid
    BY <1>2, <1>3, <2>2, <2>4 DEF Ids, Distinct
  <2>6. Held(k, MediaAt(d)) = Ids(q) /\ Held(a, MediaAt(d)) = Ids(r)
    BY <1>6, <1>n, Seats
  <2>7. AllDistinct(a)
    BY <1>1, <1>6, <2>3 DEF AllDistinct, Parts
  <2>M. PICK M, N : M = {m.mid} /\ N = 1..n
    OBVIOUS
  <2>9. M \subseteq Held(k, MediaAt(d))
    BY <2>2, <2>6, <2>M
  <2>10. \A x : x \in Held(a, MediaAt(d)) <=> x \in Held(k, MediaAt(d)) /\ x \notin M
    BY <2>5, <2>6, <2>M
  <2>11. Parts(k, N)
    BY <1>1, <2>M
  <2>12. Parts(a, N \ M)
    BY <2>1, <2>7, <2>9, <2>10, <2>11, PartsShrink
  <2>8. Parts(a, (1..n) \ {m.mid})
    BY <2>12, <2>M
  <2> QED BY <1>1, <1>n, <2>2, <2>8, Numbers
<1>11. CASE k.owner[p] = None
  <2>1. u = [k EXCEPT !.abort = "transmission"]
    BY <1>11, <1>m, <1>n, <1>u DEF EndTransmission
  <2>2. u = [at |-> k.at, rec |-> k.rec, rtoep |-> k.rtoep, got |-> k.got, target |-> k.target, state |-> k.state, owner |-> k.owner, queue |-> k.queue, pairs |-> k.pairs, media |-> k.media, sent |-> k.sent, received |-> k.received, lost |-> k.lost, abort |-> "transmission"]
    BY <1>1, <2>1 DEF Typed, Shape
  <2>3. Shape(u) /\ Keeps(k, u, {"abort"}) /\ u.abort = "transmission"
    BY <2>2 DEF Shape, Keeps
  <2>4. /\ u.at = k.at /\ u.rec = k.rec /\ u.rtoep = k.rtoep /\ u.got = k.got /\ u.target = k.target /\ u.state = k.state
        /\ u.owner = k.owner /\ u.queue = k.queue /\ u.pairs = k.pairs /\ u.received = k.received /\ u.lost = k.lost
        /\ u.media = k.media /\ u.sent = k.sent
    BY <2>3 DEF Keeps
  <2>5. Releases
    <3> SUFFICES ASSUME ~Releases PROVE FALSE
      OBVIOUS
    <3>1. k.state[p] # "free"
      BY <1>1, <1>2, <1>m, <1>n DEF Mail, Safe
    <3>2. k.owner[p] \in All
      BY <1>1, <1>3, <3>1 DEF Tables, OwnerOf
    <3> QED BY <1>11, <3>2, Basics
  <2>6. Typed(u)
    BY <1>1, <2>3, <2>4 DEF Typed
  <2>7. Tables(u) /\ Members(u)
    BY <1>1, <2>4, <2>6 DEF Tables, OwnerOf, KeepsStd, ServesSet, WaitsWell, Members, MemberOf
  <2>8. Parts(u, 1..u.sent)
    BY <1>1, <2>4, PartsKept
  <2>9. OwnMail(u) /\ StaleFree(u)
    BY <1>1, <2>4 DEF Mail, OwnMail, StaleFree
  <2>10. Safe(u)
    BY <1>1, <1>4, <2>4, <2>5 DEF Mail, Safe
  <2> QED BY <1>4, <1>u, <2>7, <2>8, <2>9, <2>10 DEF Good, Mail
<1>12. CASE k.owner[p] # None /\ Home(k, k.owner[p]) \in world.to[d]
  <2>q. PICK w : w = <<m>>
    OBVIOUS
  <2>1. u = Deliver(a, p, w)
    BY <1>12, <1>a, <1>m, <1>n, <1>u, <2>q DEF EndTransmission, WithMedia
  <2>2. w \in Seq(SoundOnes) /\ w # <<>> /\ DOMAIN w = {1} /\ w[1] = m /\ Distinct(w) /\ Ids(w) = {m.mid}
    BY <1>3, <2>q, SingleIds
  <2>3. Typed(u) /\ Delivered(a, u, p, w)
    BY <1>3, <1>5, <2>1, <2>2, DeliverForm
  <2>8. Tables(u)
    BY <1>3, <1>7, <2>3, DeliveredTables
  <2>9. Members(u)
    BY <1>8, <2>3, DeliveredMembers
  <2>10. Safe(u)
    BY <1>4, <1>9, <2>3, DeliveredSafe
  <2>11. u.sent = n
    BY <1>6, <2>3 DEF Delivered, Keeps
  <2>4. Tables(u) /\ Members(u) /\ Safe(u) /\ u.sent = n
    BY <2>8, <2>9, <2>10, <2>11
  <2>5. Parts(u, 1..u.sent)
    <3>1. Parts(u, ((1..n) \ {m.mid}) \cup Ids(w))
      BY <1>3, <1>5, <1>10, <2>2, <2>3, DeliveredParts
    <3>2. ((1..n) \ {m.mid}) \cup Ids(w) = 1..n
      BY <1>10, <2>2
    <3> QED BY <2>4, <3>1, <3>2
  <2>6. OwnMail(u)
    BY <1>3, <1>5, <1>8, <1>m, <2>2, <2>3, DeliveredOwnMail
  <2>7. StaleFree(u)
    BY <1>3, <1>5, <1>8, <2>2, <2>3, DeliveredStale
  <2> QED BY <1>4, <1>u, <2>4, <2>5, <2>6, <2>7 DEF Good, Mail
<1>13. CASE k.owner[p] # None /\ Home(k, k.owner[p]) \notin world.to[d]
  <2>1. u = WithLost(a, {m.mid})
    BY <1>13, <1>a, <1>m, <1>n, <1>u DEF EndTransmission, WithMedia, WithLost
  <2>2. Typed(u) /\ Keeps(a, u, {"lost"}) /\ u.lost = a.lost \cup {m.mid}
    BY <1>3, <1>5, <2>1, LostForm
  <2>3. /\ u.at = a.at /\ u.rec = a.rec /\ u.rtoep = a.rtoep /\ u.got = a.got /\ u.target = a.target /\ u.state = a.state
        /\ u.owner = a.owner /\ u.queue = a.queue /\ u.pairs = a.pairs /\ u.received = a.received
        /\ u.media = a.media /\ u.sent = n /\ u.abort = a.abort
    BY <1>6, <2>2 DEF Keeps
  <2>4. Tables(u) /\ Members(u)
    BY <1>7, <1>8, <2>2, <2>3 DEF Tables, OwnerOf, KeepsStd, ServesSet, WaitsWell, Members, MemberOf
  <2>5. OwnMail(u) /\ StaleFree(u)
    BY <1>8, <2>3 DEF OwnMail, StaleFree
  <2>6. Safe(u)
    BY <1>4, <1>9, <2>3 DEF Safe
  <2>7. Parts(u, 1..u.sent)
    <3>1. ElsewhereAlike(a, u, Lost) /\ Lost \in Places
      BY <2>3, OtherOnly, Seats
    <3>2. \A i : i \in Held(u, Lost) <=> i \in Held(a, Lost) \/ i \in {m.mid}
      BY <2>2, Seats
    <3>3. AllDistinct(u)
      BY <1>10, <2>3 DEF AllDistinct, Parts
    <3>4. Parts(u, ((1..n) \ {m.mid}) \cup {m.mid})
      BY <1>10, <3>1, <3>2, <3>3, PartsGrow
    <3>5. ((1..n) \ {m.mid}) \cup {m.mid} = 1..n
      BY <1>10
    <3> QED BY <2>3, <3>4, <3>5
  <2> QED BY <1>4, <1>u, <2>4, <2>5, <2>6, <2>7 DEF Good, Mail
<1> QED BY <1>11, <1>12, <1>13

-----------------------------------------------------------------------------
\* The steps of sending to every task.

\* The standard ports of the tasks T, in the order of the task table.
LEMMA Announced ==
  ASSUME NEW T \in SUBSET Tasks, NEW w, w = SetToSeq(T)
  PROVE  /\ Len(w) \in Nat /\ DOMAIN w = 1..Len(w)
         /\ \A n \in DOMAIN w : w[n] \in T
         /\ \A i, j \in DOMAIN w : w[i] = w[j] => i = j
         /\ \A u \in T : \E n \in DOMAIN w : w[n] = u
<1>c. PICK c : c = Cardinality(T)
  OBVIOUS
<1>1. IsFiniteSet(T)
  BY Basics, FS_Subset
<1>2. c \in Nat /\ ExistsBijection(1..c, T)
  BY <1>1, <1>c, FS_CardinalityType
<1>3. PICK g : g \in Bijection(1..c, T)
  BY <1>2 DEF ExistsBijection
<1>4. g \in [1..c -> T] /\ IsInjective(g)
  BY <1>3 DEF Bijection, Injection
<1>5. w = CHOOSE f \in [1..c -> T] : IsInjective(f)
  BY <1>c DEF SetToSeq
<1>6. w \in [1..c -> T] /\ IsInjective(w)
  BY <1>4, <1>5
<1>7. w \in Injection(1..c, T)
  BY <1>6 DEF Injection
<1>8. IsFiniteSet(1..c) /\ Cardinality(1..c) = c
  BY <1>2, FS_Interval
<1>9. w \in Surjection(1..c, T)
  BY <1>1, <1>7, <1>8, <1>c, FS_Injection
<1>10. Len(w) = c /\ DOMAIN w = 1..c
  <2>1. w \in Seq(T)
    BY <1>2, <1>6, SeqDef
  <2>2. Len(w) \in Nat /\ DOMAIN w = 1..Len(w)
    BY <2>1, LenProperties
  <2>3. 1..Len(w) = 1..c
    BY <1>6, <2>2
  <2>4. Len(w) = c
    <3>l. PICK l : l = Len(w)
      OBVIOUS
    <3>1. l \in Nat /\ 1..l = 1..c
      BY <2>2, <2>3, <3>l
    <3>2. Cardinality(1..l) = l
      BY <3>1, FS_Interval
    <3> QED BY <1>8, <3>1, <3>2, <3>l
  <2> QED BY <1>6, <2>4
<1> QED BY <1>2, <1>6, <1>9, <1>10 DEF IsInjective, Surjection

\* A new message comes to each of the ports Q, to p that with the number h[p].
Announces(s, u, n, c, Q, h) ==
  /\ h \in [Q -> (n + 1)..(n + c)]
  /\ \A p, r \in Q : h[p] = h[r] => p = r
  /\ \A i \in (n + 1)..(n + c) : \E p \in Q : h[p] = i
  /\ u.media = s.media /\ u.received = s.received /\ u.lost = s.lost
  /\ \A p \in PortIds \ Q : u.queue[p] = s.queue[p]
  /\ \A p \in Q : \E m \in SoundOnes : m.mid = h[p] /\ u.queue[p] = s.queue[p] \o <<m>>

LEMMA BroadcastParts ==
  ASSUME NEW s, Typed(s), NEW n \in Nat, NEW c \in Nat, Parts(s, 1..n), NEW Q \in SUBSET PortIds, NEW h,
         NEW u, Announces(s, u, n, c, Q, h)
  PROVE  Parts(u, 1..(n + c))
<1>0. /\ h \in [Q -> (n + 1)..(n + c)]
      /\ \A p, r \in Q : h[p] = h[r] => p = r
      /\ \A i \in (n + 1)..(n + c) : \E p \in Q : h[p] = i
      /\ u.media = s.media /\ u.received = s.received /\ u.lost = s.lost
      /\ \A p \in PortIds \ Q : u.queue[p] = s.queue[p]
      /\ \A p \in Q : \E m \in SoundOnes : m.mid = h[p] /\ u.queue[p] = s.queue[p] \o <<m>>
  BY DEF Announces
<1>1. ASSUME NEW p \in Q
      PROVE  /\ \A i : i \in Ids(u.queue[p]) <=> i \in Ids(s.queue[p]) \/ i = h[p]
             /\ Distinct(u.queue[p])
  <2>q. PICK q, r : q = s.queue[p] /\ r = u.queue[p]
    OBVIOUS
  <2>1. q \in Seq(SoundOnes) /\ Distinct(q) /\ p \in PortIds
    BY <2>q DEF Typed, Parts
  <2>2. PICK m \in SoundOnes : m.mid = h[p] /\ r = q \o <<m>>
    BY <1>0, <2>q
  <2>d. PICK d : d = <<m>>
    OBVIOUS
  <2>3. d \in Seq(SoundOnes) /\ Ids(d) = {m.mid} \ {0} /\ Distinct(d)
    BY <2>d, SingleIds
  <2>4. h[p] \in Nat /\ h[p] # 0 /\ ~(h[p] <= n)
    BY <1>0
  <2>5. \A i \in Ids(q) : i <= n
    BY <2>1, <2>q, Numbers
  <2>6. \A i : i \in Ids(d) <=> i = h[p]
    BY <2>2, <2>3, <2>4
  <2>7. Ids(q) \cap Ids(d) = {}
    BY <2>4, <2>5, <2>6
  <2>8. r = q \o d
    BY <2>2, <2>d
  <2>9. Ids(r) = Ids(q) \cup Ids(d)
    <3>1. Ids(q \o d) = Ids(q) \cup Ids(d)
      BY <2>1, <2>3, JoinedSet
    <3> QED BY <3>1, <2>8, Zenon
  <2>10. Distinct(r)
    BY <2>1, <2>3, <2>7, <2>8, JoinedIds
  <2> QED BY <2>6, <2>9, <2>10, <2>q
<1>2. AllDistinct(u)
  BY <1>0, <1>1 DEF AllDistinct, Parts
<1>3. ASSUME NEW a \in Places
      PROVE  \A i : i \in Held(u, a) <=> i \in Held(s, a) \/ \E p \in Q : a = PortAt(p) /\ i = h[p]
  <2>1. CASE \E p \in Q : a = PortAt(p)
    <3>1. PICK p \in Q : a = PortAt(p)
      BY <2>1
    <3>2. Held(u, a) = Ids(u.queue[p]) /\ Held(s, a) = Ids(s.queue[p]) /\ \A r \in Q : a = PortAt(r) => r = p
      BY <3>1, Seats
    <3> QED BY <1>1, <3>1, <3>2
  <2>2. CASE ~\E p \in Q : a = PortAt(p)
    <3>1. Held(u, a) = Held(s, a)
      BY <1>0, <2>2, Seats
    <3> QED BY <2>2, <3>1
  <2> QED BY <2>1, <2>2
<1>4. \A i : i \in 1..n <=> \E a \in Places : i \in Held(s, a)
  BY DEF Parts
<1>5. \A p \in Q : PortAt(p) \in Places /\ h[p] \in (n + 1)..(n + c)
  BY <1>0, Seats
<1>6. ASSUME NEW i PROVE i \in 1..(n + c) <=> \E a \in Places : i \in Held(u, a)
  <2>1. i \in 1..(n + c) <=> i \in 1..n \/ i \in (n + 1)..(n + c)
    OBVIOUS
  <2>2. ASSUME i \in 1..n PROVE \E a \in Places : i \in Held(u, a)
    BY <1>3, <1>4, <2>2
  <2>3. ASSUME i \in (n + 1)..(n + c) PROVE \E a \in Places : i \in Held(u, a)
    BY <1>0, <1>3, <1>5, <2>3
  <2>4. ASSUME NEW a \in Places, i \in Held(u, a) PROVE i \in 1..n \/ i \in (n + 1)..(n + c)
    BY <1>3, <1>4, <1>5, <2>4
  <2> QED BY <2>1, <2>2, <2>3, <2>4
<1>7. ASSUME NEW a \in Places, NEW b \in Places, a # b PROVE Held(u, a) \cap Held(u, b) = {}
  <2> SUFFICES ASSUME NEW i, i \in Held(u, a), i \in Held(u, b) PROVE FALSE
    OBVIOUS
  <2>1. ~(i \in Held(s, a) /\ i \in Held(s, b))
    BY <1>7 DEF Parts
  <2>2. \A x \in Places : i \in Held(s, x) => i \in 1..n
    BY <1>4
  <2>3. \A p \in Q : i = h[p] => i \notin 1..n
    BY <1>0
  <2>4. \/ i \in Held(s, a)
        \/ \E p \in Q : a = PortAt(p) /\ i = h[p]
    BY <1>3
  <2>5. \/ i \in Held(s, b)
        \/ \E p \in Q : b = PortAt(p) /\ i = h[p]
    BY <1>3
  <2> QED BY <1>0, <1>7, <2>1, <2>2, <2>3, <2>4, <2>5
<1> QED BY <1>2, <1>6, <1>7 DEF Parts, AllDistinct

LEMMA BroadcastStep == ASSUME IInv, NEW t \in Tasks, Broadcast(t) PROVE Good(k')
<1>T. PICK T, n : T = Tasks \ {t} /\ n = k.sent
  OBVIOUS
<1>w. PICK w : w = SetToSeq(T)
  OBVIOUS
<1>c. PICK c : c = Len(w)
  OBVIOUS
<1>Q. PICK Q : Q = {p \in PortIds : \E x \in T : Std[x] = p}
  OBVIOUS
<1> DEFINE number(p) == k.sent + CHOOSE j \in DOMAIN w : Std[w[j]] = p
<1>1. /\ Typed(k) /\ Tables(k) /\ Members(k) /\ Mail(k) /\ Parts(k, 1..n) /\ n \in Nat
  BY <1>T, Basics DEF IInv, Tables, Mail, Typed
<1>2. /\ c \in Nat /\ DOMAIN w = 1..c
      /\ \A j \in DOMAIN w : w[j] \in T
      /\ \A i, j \in DOMAIN w : w[i] = w[j] => i = j
      /\ \A u \in T : \E j \in DOMAIN w : w[j] = u
  <2>1. T \in SUBSET Tasks
    BY <1>T
  <2> QED BY <1>c, <1>w, <2>1, Announced
<1>3. \A p \in Q : \E j \in DOMAIN w : Std[w[j]] = p
  BY <1>2, <1>Q
<1>h. PICK h : h = [p \in Q |-> number(p)]
  OBVIOUS
<1>4. ASSUME NEW p \in Q PROVE \E j \in DOMAIN w : h[p] = n + j /\ Std[w[j]] = p
  <2>1. PICK j : j = CHOOSE x \in DOMAIN w : Std[w[x]] = p
    OBVIOUS
  <2>2. j \in DOMAIN w /\ Std[w[j]] = p
    BY <1>3, <2>1
  <2>3. h[p] = n + j
    BY <1>T, <1>h, <2>1
  <2> QED BY <2>2, <2>3
<1>5. h \in [Q -> (n + 1)..(n + c)]
  BY <1>1, <1>2, <1>4, <1>h
<1>6. ASSUME NEW p \in Q, NEW r \in Q, h[p] = h[r] PROVE p = r
  <2>1. PICK i \in DOMAIN w : h[p] = n + i /\ Std[w[i]] = p
    BY <1>4
  <2>2. PICK j \in DOMAIN w : h[r] = n + j /\ Std[w[j]] = r
    BY <1>4
  <2>3. n + i = n + j
    BY <1>6, <2>1, <2>2
  <2>4. i \in Int /\ j \in Int
    BY <1>2
  <2>5. i = j
    BY <1>1, <2>3, <2>4
  <2> QED BY <2>1, <2>2, <2>5
<1>7. \A i \in (n + 1)..(n + c) : \E p \in Q : h[p] = i
  <2> SUFFICES ASSUME NEW i \in (n + 1)..(n + c) PROVE \E p \in Q : h[p] = i
    OBVIOUS
  <2>1. i - n \in DOMAIN w /\ n + (i - n) = i
    BY <1>1, <1>2
  <2>p. PICK p, j : p = Std[w[i - n]] /\ j = i - n
    OBVIOUS
  <2>2. w[j] \in T /\ p = Std[w[j]] /\ p \in Q
    BY <1>2, <1>Q, <1>T, <2>1, <2>p, Basics
  <2>3. PICK x \in DOMAIN w : h[p] = n + x /\ Std[w[x]] = p
    BY <1>4, <2>2
  <2>4. w[x] = w[j]
    BY <1>2, <1>T, <2>2, <2>3, Basics
  <2>5. x = j
    BY <1>2, <2>1, <2>3, <2>4, <2>p
  <2> QED BY <2>1, <2>2, <2>3, <2>5, <2>p
<1>f. PICK f : f = [p \in PortIds |-> IF p \in Q THEN Append(k.queue[p], Message(number(p), "message", p, 0)) ELSE k.queue[p]]
  OBVIOUS
<1>8. n + c <= MaxSent
  BY <1>T, <1>c, <1>w DEF Broadcast, Room
<1>9. ASSUME NEW p \in Q
      PROVE  \E m \in SoundOnes : m.mid = h[p] /\ m.org = p /\ m.kind = "message" /\ m.mid > n /\ f[p] = k.queue[p] \o <<m>>
  <2>m. PICK m : m = Message(number(p), "message", p, 0)
    OBVIOUS
  <2>1. p \in PortIds /\ f[p] = Append(k.queue[p], m)
    BY <1>Q, <1>f, <2>m
  <2>2. m.mid = h[p] /\ m.org = p /\ m.kind = "message" /\ m.pri = 0
    BY <1>h, <2>m DEF Message
  <2>3. h[p] \in 0..MaxSent /\ h[p] # 0 /\ h[p] > n
    <3>1. h[p] \in (n + 1)..(n + c)
      BY <1>5
    <3> QED BY <1>1, <1>2, <1>8, <3>1, Basics
  <2>4. m \in Messages
    <3>1. number(p) = h[p]
      BY <1>h
    <3> QED BY <2>1, <2>3, <2>m, <3>1 DEF Message, Messages
  <2>5. m \in SoundOnes
    BY <2>2, <2>3, <2>4 DEF SoundOnes, Sound
  <2>6. k.queue[p] \in Seq(SoundOnes)
    BY <1>1, <2>1 DEF Typed
  <2>7. f[p] = k.queue[p] \o <<m>>
    BY <2>1, <2>5, <2>6, AppendIsConcat
  <2> QED BY <2>2, <2>3, <2>5, <2>7
<1>10. \A p \in PortIds \ Q : f[p] = k.queue[p]
  BY <1>f
<1> HIDE DEF number
<1>a. PICK a : a = [k EXCEPT !.sent = n + c, !.queue = f]
  OBVIOUS
<1>W. PICK W : W = {x \in T : Waits(k, x, Std[x])}
  OBVIOUS
<1>u. PICK u : u = k'
  OBVIOUS
<1>11. u = Wake(a, W)
  <2>1. \A p \in PortIds : p \in Q <=> \E x \in T : Std[x] = p
    BY <1>Q
  <2>2. f = [p \in PortIds |-> IF \E x \in Tasks \ {t} : Std[x] = p
                               THEN Append(k.queue[p], Message(number(p), "message", p, 0)) ELSE k.queue[p]]
    BY <1>T, <1>f, <2>1
  <2>3. k' = Wake([k EXCEPT !.sent = @ + Len(w), !.queue = f], W)
    BY <1>W, <1>T, <1>w, <2>2 DEF Broadcast, number
  <2> QED BY <1>T, <1>a, <1>c, <1>u, <2>3
<1>12. a = [at |-> k.at, rec |-> k.rec, rtoep |-> k.rtoep, got |-> k.got, target |-> k.target, state |-> k.state, owner |-> k.owner, queue |-> f, pairs |-> k.pairs, media |-> k.media, sent |-> n + c, received |-> k.received, lost |-> k.lost, abort |-> k.abort]
  BY <1>1, <1>a DEF Typed, Shape
<1>13. Shape(a) /\ Keeps(k, a, {"sent", "queue"}) /\ a.queue = f /\ a.sent = n + c
  BY <1>12 DEF Shape, Keeps
<1>14. f \in [PortIds -> Seq(SoundOnes)]
  <2>1. ASSUME NEW p \in PortIds PROVE f[p] \in Seq(SoundOnes)
    <3>1. k.queue[p] \in Seq(SoundOnes)
      BY <1>1 DEF Typed
    <3>2. CASE p \in Q
      <4>1. PICK m \in SoundOnes : f[p] = k.queue[p] \o <<m>>
        BY <1>9, <3>2
      <4> QED BY <3>1, <4>1, SingleIds, ConcatProperties
    <3> QED BY <1>10, <3>1, <3>2
  <2> QED BY <1>f, <2>1
<1>15. Typed(a)
  <2>1. n + c \in 0..MaxSent
    BY <1>1, <1>2, <1>8, Basics
  <2> QED BY <1>1, <1>13, <1>14, <2>1 DEF Typed, Keeps
<1>16. Typed(u) /\ Woken(a, u, W)
  <2>1. W \in SUBSET All
    BY <1>T, <1>W, Basics
  <2> QED BY <1>11, <1>15, <2>1, WakeForm
<1>17. /\ u.rec = k.rec /\ u.got = k.got /\ u.target = k.target /\ u.state = k.state
       /\ u.owner = k.owner /\ u.queue = f /\ u.pairs = k.pairs /\ u.received = k.received /\ u.lost = k.lost
       /\ u.abort = k.abort /\ u.sent = n + c /\ u.media = k.media
       /\ \A x \in All : u.at[x] = (IF x \in W THEN "awake" ELSE k.at[x]) /\ u.rtoep[x] = IF x \in W THEN FALSE ELSE k.rtoep[x]
  BY <1>13, <1>16 DEF Woken, Keeps
<1>18. \A p \in Q : \E x \in T : Std[x] = p /\ k.owner[p] = x /\ k.state[p] = "used" /\ x \in Tasks
  BY <1>1, <1>Q, <1>T DEF Tables, KeepsStd
<1>19. Tables(u)
  <2>1. ASSUME NEW p \in PortIds PROVE OwnerOf(u, p)
    <3>1. OwnerOf(k, p)
      BY <1>1 DEF Tables
    <3>2. k.state[p] = "free" => f[p] = k.queue[p]
      BY <1>10, <1>18
    <3> QED BY <1>17, <3>1, <3>2 DEF OwnerOf
  <2>2. ASSUME NEW x \in Tasks PROVE KeepsStd(u, x)
    <3>1. KeepsStd(k, x) /\ x \in All
      BY <1>1, Basics DEF Tables
    <3>2. u.at[x] # "free"
      BY <1>17, <3>1 DEF KeepsStd
    <3> QED BY <1>17, <3>1, <3>2 DEF KeepsStd
  <2>3. ASSUME NEW g \in Surrogates PROVE ServesSet(u, g)
    <3>1. g \notin W /\ g \in All
      BY <1>T, <1>W, Basics
    <3>2. ServesSet(k, g)
      BY <1>1 DEF Tables
    <3>3. u.at[g] = k.at[g] /\ u.rec = k.rec /\ u.target = k.target /\ u.state = k.state /\ u.pairs = k.pairs
      BY <1>17, <3>1
    <3> QED BY <3>2, <3>3 DEF ServesSet
  <2>4. ASSUME NEW x \in All PROVE WaitsWell(u, x)
    <3>1. WaitsWell(k, x)
      BY <1>1 DEF Tables
    <3>2. CASE x \in W
      <4>1. u.at[x] = "awake" /\ u.rtoep[x] = FALSE /\ k.at[x] = "receiving"
        BY <1>17, <1>W, <3>2 DEF Waits
      <4> QED BY <1>17, <3>1, <4>1 DEF WaitsWell
    <3>3. CASE x \notin W
      <4>1. u.at[x] = k.at[x] /\ u.rtoep[x] = k.rtoep[x]
        BY <1>17, <3>3
      <4>2. ASSUME k.at[x] = "receiving" PROVE f[k.rec[x].port] = k.queue[k.rec[x].port]
        <5>1. k.rec[x].port \in PortIds /\ k.owner[k.rec[x].port] = x
          BY <3>1, <4>2 DEF WaitsWell
        <5>2. k.rec[x].port \notin Q
          BY <1>18, <1>W, <3>3, <4>2, <5>1 DEF Waits
        <5> QED BY <1>10, <5>1, <5>2
      <4> QED BY <1>17, <3>1, <4>1, <4>2 DEF WaitsWell
    <3> QED BY <3>2, <3>3
  <2> QED BY <1>16, <2>1, <2>2, <2>3, <2>4 DEF Tables
<1>20. Members(u) /\ Safe(u)
  BY <1>1, <1>17 DEF Mail, Members, MemberOf, Safe
<1>21. Parts(u, 1..u.sent)
  <2>1. \A p \in PortIds \ Q : u.queue[p] = k.queue[p]
    BY <1>10, <1>17
  <2>2. \A p \in Q : \E m \in SoundOnes : m.mid = h[p] /\ u.queue[p] = k.queue[p] \o <<m>>
    BY <1>9, <1>17
  <2>3. Q \in SUBSET PortIds
    BY <1>Q
  <2>4. \A p, r \in Q : h[p] = h[r] => p = r
    BY <1>6
  <2>5. u.media = k.media /\ u.received = k.received /\ u.lost = k.lost
    BY <1>17
  <2>7. Announces(k, u, n, c, Q, h)
    BY <1>5, <1>7, <2>1, <2>2, <2>4, <2>5 DEF Announces
  <2>6. Parts(u, 1..(n + c))
    BY <1>1, <1>2, <2>3, <2>7, BroadcastParts
  <2> QED BY <1>17, <2>6
<1>22. ASSUME NEW p \in PortIds, NEW i \in DOMAIN u.queue[p]
       PROVE  (i \in DOMAIN k.queue[p] /\ u.queue[p][i] = k.queue[p][i]) \/ (u.queue[p][i].org = p /\ u.queue[p][i].kind = "message")
  <2>1. CASE p \notin Q
    BY <1>10, <1>17, <1>22, <2>1
  <2>2. CASE p \in Q
    <3>1. PICK m \in SoundOnes : m.org = p /\ m.kind = "message" /\ f[p] = k.queue[p] \o <<m>>
      BY <1>9, <2>2
    <3>q. PICK q, d, r, l : q = k.queue[p] /\ d = <<m>> /\ r = f[p] /\ l = Len(q)
      OBVIOUS
    <3>2. q \in Seq(SoundOnes) /\ d \in Seq(SoundOnes) /\ DOMAIN d = {1} /\ d[1] = m /\ r = q \o d
      BY <1>1, <3>1, <3>q, SingleIds DEF Typed
    <3>3. \A j \in DOMAIN q : r[j] = q[j]
      BY <3>2, JoinedIds
    <3>4. \A j \in DOMAIN r : j \in DOMAIN q \/ (j - l \in DOMAIN d /\ j > l /\ r[j] = d[j - l])
      BY <3>2, <3>q, JoinedIds
    <3>5. i \in DOMAIN r /\ u.queue[p] = r
      BY <1>17, <1>22, <3>q
    <3>6. i \in DOMAIN q \/ r[i] = m
      BY <3>2, <3>4, <3>5
    <3> QED BY <3>1, <3>3, <3>5, <3>6, <3>q
  <2> QED BY <2>1, <2>2
<1>23. OwnMail(u)
  BY <1>1, <1>17, <1>22 DEF Mail, OwnMail
<1>24. StaleFree(u)
  <2>0. StaleFree(k)
    BY <1>1 DEF Mail
  <2>1. ASSUME FirstOnly, NEW p \in PortIds, NEW i \in DOMAIN u.queue[p], u.queue[p][i].kind = "timeout"
        PROVE  /\ i = 1 /\ u.owner[p] \in Tasks /\ u.at[u.owner[p]] = "awake"
               /\ u.rec[u.owner[p]].port = p /\ u.rec[u.owner[p]].mode = "timed"
    <3>1. i \in DOMAIN k.queue[p] /\ k.queue[p][i].kind = "timeout"
      BY <1>22, <2>1
    <3>2. /\ i = 1 /\ k.owner[p] \in Tasks /\ k.at[k.owner[p]] = "awake"
          /\ k.rec[k.owner[p]].port = p /\ k.rec[k.owner[p]].mode = "timed"
      BY <2>0, <2>1, <3>1 DEF StaleFree
    <3>3. k.owner[p] \in All
      BY <3>2, Basics
    <3>4. u.at[k.owner[p]] = "awake"
      BY <1>17, <3>2, <3>3
    <3>5. u.owner = k.owner /\ u.rec = k.rec
      BY <1>17
    <3> QED BY <3>2, <3>4, <3>5
  <2>2. ASSUME FirstOnly, NEW x \in Tasks, u.at[x] = "running", u.got[x] = "timeout" PROVE u.rec[x].mode # "never"
    <3>1. k.at[x] = "running" /\ k.got[x] = "timeout"
      BY <1>17, <2>2, Basics
    <3> QED BY <1>17, <2>0, <2>2, <3>1 DEF StaleFree
  <2> QED BY <1>17, <2>0, <2>1, <2>2 DEF StaleFree
<1>25. ASSUME ~Happens({"leave", "transmit"}) PROVE Ordered(u)
  <2>1. \A p \in PortIds : \A i \in Ids(k.queue[p]) : i <= n
    BY <1>1, Numbers
  <2>2. \A p \in PortIds : \/ u.queue[p] = k.queue[p]
                           \/ \E m \in SoundOnes : u.queue[p] = k.queue[p] \o <<m>> /\ m.org = p /\ (m.mid = 0 \/ m.mid > n)
    <3> SUFFICES ASSUME NEW p \in PortIds
                 PROVE  \/ f[p] = k.queue[p]
                        \/ \E m \in SoundOnes : f[p] = k.queue[p] \o <<m>> /\ m.org = p /\ (m.mid = 0 \/ m.mid > n)
      BY <1>17
    <3>1. CASE p \notin Q
      BY <1>10, <3>1
    <3>2. CASE p \in Q
      BY <1>9, <3>2
    <3> QED BY <3>1, <3>2
  <2>3. Ordered(k) /\ u.state = k.state
    BY <1>1, <1>17, <1>25 DEF Mail
  <2> QED BY <1>1, <2>1, <2>2, <2>3, OrderedGrows
<1> QED BY <1>19, <1>20, <1>21, <1>23, <1>24, <1>25, <1>u DEF Good, Mail

-----------------------------------------------------------------------------
\* The steps of receiving.

\* A receive takes one of the messages there are.
LEMMA HighestExists ==
  ASSUME NEW S, NEW q \in Seq(S), q # <<>>, \A j \in DOMAIN q : q[j].pri \in Nat
  PROVE  HighestFirst(q) \in DOMAIN q
<1> DEFINE better(n) == {j \in DOMAIN q : q[j].pri > 0 /\ (q[j].pri > q[n].pri \/ (q[j].pri = q[n].pri /\ j < n))}
<1>l. PICK l, D : l = Len(q) /\ D = {j \in DOMAIN q : q[j].pri > 0}
  OBVIOUS
<1>1. l \in Nat /\ DOMAIN q = 1..l /\ 1 \in DOMAIN q /\ D \subseteq DOMAIN q
  BY <1>l, LenProperties, EmptySeq
<1>T. PICK T : T = {better(n) : n \in D}
  OBVIOUS
<1>2. CASE D = {}
  BY <1>1, <1>2, <1>l DEF HighestFirst
<1>3. CASE D # {}
  <2>1. IsWellFoundedOn(StrictSubsetOrdering(D), FiniteSubsetsOf(D))
    BY FS_StrictSubsetOrderingWellFounded
  <2>2. \A n \in D : better(n) \subseteq D
    BY <1>l
  <2>3. T \subseteq FiniteSubsetsOf(D) /\ T # {}
    <3>1. IsFiniteSet(D)
      <4>1. IsFiniteSet(1..l) /\ D \subseteq 1..l
        BY <1>1, FS_Interval
      <4> QED BY <4>1, FS_Subset
    <3>2. \A n \in D : IsFiniteSet(better(n))
      BY <2>2, <3>1, FS_Subset
    <3>3. \A n \in D : better(n) \in FiniteSubsetsOf(D)
      BY <2>2, <3>2 DEF FiniteSubsetsOf
    <3> QED BY <1>3, <1>T, <3>3
  <2>4. PICK x \in T : \A y \in T : ~(<<y, x>> \in StrictSubsetOrdering(D))
    BY <2>1, <2>3, WFMin
  <2>5. PICK n \in D : x = better(n)
    BY <1>T
  <2>6. ASSUME NEW m \in better(n) PROVE FALSE
    <3>1. /\ q[m].pri \in Nat /\ q[n].pri \in Nat /\ m \in Nat /\ n \in Nat /\ m \in D
          /\ q[m].pri > q[n].pri \/ (q[m].pri = q[n].pri /\ m < n)
      BY <1>1, <1>l
    <3>2. m \notin better(m)
      BY <3>1
    <3>3. ASSUME NEW j \in better(m) PROVE j \in better(n)
      <4>1. j \in DOMAIN q /\ j \in Nat /\ q[j].pri \in Nat /\ q[j].pri > 0 /\ (q[j].pri > q[m].pri \/ (q[j].pri = q[m].pri /\ j < m))
        BY <1>1
      <4>2. q[j].pri > q[n].pri \/ (q[j].pri = q[n].pri /\ j < n)
        BY <3>1, <4>1
      <4> QED BY <4>1, <4>2
    <3>4. better(m) \in T /\ better(n) \subseteq D
      BY <1>T, <2>2, <3>1
    <3>5. <<better(m), x>> \in StrictSubsetOrdering(D)
      BY <2>5, <2>6, <3>2, <3>3, <3>4 DEF StrictSubsetOrdering
    <3> QED BY <2>4, <3>4, <3>5
  <2>7. ASSUME NEW j \in D PROVE q[j].pri < q[n].pri \/ (q[j].pri = q[n].pri /\ n <= j)
    <3>1. j \notin better(n) /\ j \in DOMAIN q /\ q[j].pri > 0
      BY <1>l, <2>6
    <3>2. q[j].pri \in Nat /\ q[n].pri \in Nat /\ j \in Nat /\ n \in Nat
      BY <1>1, <3>1
    <3>3. ~(q[j].pri > q[n].pri) /\ ~(q[j].pri = q[n].pri /\ j < n)
      BY <3>1
    <3> QED BY <3>2, <3>3
  <2>8. HighestFirst(q) = CHOOSE i \in D : \A j \in D : q[j].pri < q[i].pri \/ (q[j].pri = q[i].pri /\ i <= j)
    BY <1>3, <1>l DEF HighestFirst
  <2>9. HighestFirst(q) \in D
    BY <2>7, <2>8
  <2> QED BY <1>1, <2>9
<1> QED BY <1>2, <1>3

LEMMA PositionsIn ==
  ASSUME world \in Worlds, NEW q \in Seq(SoundOnes), q # <<>>, NEW d \in Disciplines
  PROVE  Positions(q, d) \subseteq DOMAIN q
<1>1. DOMAIN q = 1..Len(q) /\ Len(q) \in Nat /\ 1 \in DOMAIN q /\ Len(q) \in DOMAIN q
  BY LenProperties, EmptySeq
<1>2. ASSUME NEW j \in DOMAIN q PROVE q[j].pri \in Nat
  <2>1. q[j] \in SoundOnes
    BY Places1
  <2>2. q[j].pri \in world.priorities \cup {0}
    BY <2>1 DEF SoundOnes, Messages
  <2>3. world.priorities \subseteq Nat
    BY WorldBasics
  <2> QED BY <2>2, <2>3
<1>3. HighestFirst(q) \in DOMAIN q
  BY <1>2, HighestExists
<1> QED BY <1>1, <1>3 DEF Positions, Disciplines

\* The task t receives, by a receive that has just begun or one it was woken from.
Receiving(t, r) ==
  /\ r \in Receives /\ r.port \in PortIds /\ r.discipline \in world.disciplines \cup {"FIFO"} /\ k.owner[r.port] = t
  /\ k.at[t] = "running" \/ (k.at[t] = "awake" /\ r = k.rec[t])
Begun(t, r, s) == Typed(s) /\ Keeps(k, s, {"rec", "rtoep"}) /\ \A x \in All : s.rec[x] = IF x = t THEN r ELSE k.rec[x]

\* The task t has taken the message m from port p, where q is left.
Took(s, u, t, p, m, q) ==
  /\ Keeps(s, u, {"at", "rtoep", "got", "queue", "received"})
  /\ \A x \in All : /\ u.at[x] = IF x = t THEN "running" ELSE s.at[x]
                    /\ u.rtoep[x] = IF x = t THEN FALSE ELSE s.rtoep[x]
                    /\ u.got[x] = IF x = t THEN m.kind ELSE s.got[x]
  /\ \A x \in PortIds : u.queue[x] = IF x = p THEN q ELSE s.queue[x]
  /\ u.received = s.received \cup Ids(<<m>>)

LEMMA TakeForm ==
  ASSUME NEW s, Typed(s), NEW t \in All, NEW p \in PortIds, p = s.rec[t].port, NEW i \in DOMAIN s.queue[p], NEW u, u = Take(s, t, i),
         NEW m, m = s.queue[p][i], NEW q, q = RemoveAt(s.queue[p], i)
  PROVE  Typed(u) /\ Took(s, u, t, p, m, q)
<1>a. PICK a, b, c : a = [s.at EXCEPT ![t] = "running"] /\ b = [s.rtoep EXCEPT ![t] = FALSE] /\ c = [s.got EXCEPT ![t] = m.kind]
  OBVIOUS
<1>d. PICK d, e : d = [s.queue EXCEPT ![p] = q] /\ e = s.received \cup Ids(<<m>>)
  OBVIOUS
<1>1. s.queue[p] \in Seq(SoundOnes)
  BY DEF Typed
<1>2. q \in Seq(SoundOnes) /\ m \in SoundOnes
  BY <1>1, RemovedThins, Places1
<1>3. <<m>> \in Seq(SoundOnes)
  BY <1>2, SingleIds
<1>4. Ids(<<m>>) \subseteq 1..MaxSent
  BY <1>3, IdsRange
<1>5. u = [at |-> a, rec |-> s.rec, rtoep |-> b, got |-> c, target |-> s.target, state |-> s.state, owner |-> s.owner, queue |-> d, pairs |-> s.pairs, media |-> s.media, sent |-> s.sent, received |-> e, lost |-> s.lost, abort |-> s.abort]
  BY <1>a, <1>d DEF Take, Typed, Shape
<1>6. /\ Shape(u) /\ Keeps(s, u, {"at", "rtoep", "got", "queue", "received"})
      /\ u.at = a /\ u.rtoep = b /\ u.got = c /\ u.queue = d /\ u.received = e
  BY <1>5 DEF Shape, Keeps
<1>7. m.kind \in Kinds
  BY <1>2 DEF SoundOnes, Messages, Kinds
<1>8. a \in [All -> AtStates] /\ \A x \in All : a[x] = IF x = t THEN "running" ELSE s.at[x]
  BY <1>a DEF Typed, AtStates
<1>9. b \in [All -> BOOLEAN] /\ \A x \in All : b[x] = IF x = t THEN FALSE ELSE s.rtoep[x]
  BY <1>a DEF Typed
<1>10. c \in [All -> Kinds] /\ \A x \in All : c[x] = IF x = t THEN m.kind ELSE s.got[x]
  BY <1>a, <1>7 DEF Typed
<1>11. d \in [PortIds -> Seq(SoundOnes)] /\ \A x \in PortIds : d[x] = IF x = p THEN q ELSE s.queue[x]
  BY <1>d, <1>2 DEF Typed
<1>12. e \subseteq 1..MaxSent
  BY <1>d, <1>4 DEF Typed
<1>13. Typed(u)
  BY <1>6, <1>8, <1>9, <1>10, <1>11, <1>12 DEF Typed, Keeps
<1>14. \A x \in All : /\ u.at[x] = IF x = t THEN "running" ELSE s.at[x]
                      /\ u.rtoep[x] = IF x = t THEN FALSE ELSE s.rtoep[x]
                      /\ u.got[x] = IF x = t THEN m.kind ELSE s.got[x]
  BY <1>6, <1>8, <1>9, <1>10
<1>15. \A x \in PortIds : u.queue[x] = IF x = p THEN q ELSE s.queue[x]
  BY <1>6, <1>11
<1> QED BY <1>6, <1>13, <1>14, <1>15, <1>d DEF Took

\* The message at the place i of port p is received: it is the only one with its number.
LEMMA TakenParts ==
  ASSUME NEW s, Typed(s), NEW N, Parts(s, N), NEW p \in PortIds, NEW i \in DOMAIN s.queue[p], NEW u,
         u.queue[p] = RemoveAt(s.queue[p], i), \A x \in PortIds : x # p => u.queue[x] = s.queue[x],
         u.media = s.media, u.lost = s.lost, u.received = s.received \cup Ids(<<s.queue[p][i]>>)
  PROVE  Parts(u, N)
<1>q. PICK q, r, m : q = s.queue[p] /\ r = RemoveAt(q, i) /\ m = q[i]
  OBVIOUS
<1>M. PICK M : M = {m.mid} \ {0}
  OBVIOUS
<1>1. q \in Seq(SoundOnes) /\ i \in DOMAIN q /\ Distinct(q)
  BY <1>q DEF Typed, Parts
<1>2. r \in Seq(SoundOnes) /\ Thinned(q, r, DOMAIN q \ {i})
  BY <1>1, <1>q, RemovedThins
<1>3. Ids(r) = {q[j].mid : j \in DOMAIN q \ {i}} \ {0} /\ Ids(r) \subseteq Ids(q) /\ (Distinct(q) => Distinct(r))
  BY <1>1, <1>2, ThinnedIds
<1>4. \A x : x \in Ids(r) <=> x \in Ids(q) /\ x \notin M
  <2>1. ASSUME NEW x \in Ids(r) PROVE x \in Ids(q) /\ x \notin M
    <3>1. PICK j \in DOMAIN q : j # i /\ x = q[j].mid /\ x # 0
      BY <1>3, <2>1
    <3>2. q[j].mid # m.mid
      BY <1>1, <1>q, <3>1 DEF Distinct
    <3> QED BY <1>3, <1>M, <2>1, <3>1, <3>2
  <2>2. ASSUME NEW x \in Ids(q), x \notin M PROVE x \in Ids(r)
    <3>1. PICK j \in DOMAIN q : x = q[j].mid /\ x # 0
      BY <2>2 DEF Ids
    <3>2. j # i
      BY <1>M, <1>q, <2>2, <3>1
    <3> QED BY <1>3, <3>1, <3>2
  <2> QED BY <2>1, <2>2
<1>5. M \subseteq Ids(q)
  BY <1>1, <1>M, <1>q DEF Ids
<1>6. \A x : x \in Ids(<<m>>) <=> x \in M
  <2>1. m \in SoundOnes
    BY <1>1, <1>q, Places1
  <2>2. Ids(<<m>>) = {m.mid} \ {0}
    BY <2>1, SingleIds
  <2> QED BY <1>M, <2>2
<1>v. PICK v : v = WithQueue(s, p, r)
  OBVIOUS
<1>7. Typed(v) /\ Queued(s, v, p, r)
  BY <1>2, <1>v, QueueForm
<1>8. v.media = s.media /\ v.received = s.received /\ v.lost = s.lost /\ \A x \in PortIds : v.queue[x] = IF x = p THEN r ELSE s.queue[x]
  BY <1>7 DEF Queued, Keeps
<1>9. Parts(v, N \ M)
  <2>1. ElsewhereAlike(s, v, PortAt(p)) /\ PortAt(p) \in Places /\ Held(s, PortAt(p)) = Ids(q) /\ Held(v, PortAt(p)) = Ids(r)
    BY <1>8, <1>q, PortOnly, Seats
  <2>2. AllDistinct(v)
    BY <1>1, <1>3, <1>8 DEF Parts, AllDistinct
  <2>3. M \subseteq Held(s, PortAt(p)) /\ \A x : x \in Held(v, PortAt(p)) <=> x \in Held(s, PortAt(p)) /\ x \notin M
    BY <1>4, <1>5, <2>1
  <2> QED BY <2>1, <2>2, <2>3, PartsShrink
<1>10. \A x \in PortIds : u.queue[x] = v.queue[x]
  BY <1>8, <1>q
<1>11. Parts(u, (N \ M) \cup M)
  <2>1. ElsewhereAlike(v, u, Received) /\ Received \in Places
    <3>1. ASSUME NEW b \in Places, b # Received PROVE Held(u, b) = Held(v, b)
      BY <1>8, <1>10, <3>1, Seats
    <3> QED BY <3>1, Seats DEF ElsewhereAlike
  <2>2. \A x : x \in Held(u, Received) <=> x \in Held(v, Received) \/ x \in M
    BY <1>6, <1>8, <1>q, Seats
  <2>3. \A x \in M : x \notin N \ M
    OBVIOUS
  <2>4. AllDistinct(u)
    BY <1>8, <1>9, <1>10 DEF Parts, AllDistinct
  <2> QED BY <1>9, <2>1, <2>2, <2>3, <2>4, PartsGrow
<1>12. M \subseteq N
  BY <1>5, <1>q, Seats DEF Parts
<1>13. (N \ M) \cup M = N
  BY <1>12
<1> QED BY <1>11, <1>13

\* A receive that has begun, or looks again, finds a message.
LEMMA TakeStep ==
  ASSUME IInv, NEW t \in Tasks, NEW r, Receiving(t, r), NEW s, Begun(t, r, s), s.rtoep = k.rtoep,
         NEW i \in Positions(k.queue[r.port], r.discipline), k.queue[r.port] # <<>>, NEW u, u = Take(s, t, i)
  PROVE  Good(u)
<1>p. PICK p, n : p = r.port /\ n = k.sent
  OBVIOUS
<1>q. PICK q : q = k.queue[p]
  OBVIOUS
<1>m. PICK m, v : m = q[i] /\ v = RemoveAt(q, i)
  OBVIOUS
<1>1. /\ Typed(k) /\ Tables(k) /\ Members(k) /\ Mail(k) /\ Parts(k, 1..n) /\ StaleFree(k) /\ OwnMail(k) /\ Safe(k)
      /\ n \in Nat /\ t \in All /\ world \in Worlds
  BY <1>p, Basics DEF IInv, Tables, Mail, Typed
<1>2. /\ p \in PortIds /\ k.owner[p] = t /\ r \in Receives /\ r.discipline \in Disciplines /\ (k.at[t] = "running" \/ (k.at[t] = "awake" /\ r = k.rec[t]))
      /\ q \in Seq(SoundOnes) /\ q # <<>> /\ r.discipline \in world.disciplines \cup {"FIFO"}
  BY <1>1, <1>p, <1>q DEF Receiving, Receives, Typed
<1>3. i \in DOMAIN q
  BY <1>1, <1>2, <1>p, <1>q, PositionsIn
<1>4. /\ Typed(s) /\ s.at = k.at /\ s.rtoep = k.rtoep /\ s.got = k.got /\ s.target = k.target /\ s.state = k.state /\ s.owner = k.owner
      /\ s.queue = k.queue /\ s.pairs = k.pairs /\ s.media = k.media /\ s.sent = k.sent /\ s.received = k.received
      /\ s.lost = k.lost /\ s.abort = k.abort /\ \A x \in All : s.rec[x] = IF x = t THEN r ELSE k.rec[x]
  BY DEF Begun, Keeps
<1>5. Typed(u) /\ Took(s, u, t, p, m, v)
  <2>1. p = s.rec[t].port /\ i \in DOMAIN s.queue[p] /\ m = s.queue[p][i] /\ v = RemoveAt(s.queue[p], i)
    BY <1>1, <1>3, <1>4, <1>m, <1>p, <1>q
  <2> QED BY <1>1, <1>2, <1>4, <2>1, TakeForm
<1>6. /\ u.target = k.target /\ u.state = k.state /\ u.owner = k.owner /\ u.pairs = k.pairs /\ u.media = k.media
      /\ u.sent = k.sent /\ u.lost = k.lost /\ u.abort = k.abort /\ u.received = k.received \cup Ids(<<m>>)
      /\ \A x \in All : /\ u.rec[x] = IF x = t THEN r ELSE k.rec[x]
                        /\ u.at[x] = IF x = t THEN "running" ELSE k.at[x]
                        /\ u.rtoep[x] = IF x = t THEN FALSE ELSE k.rtoep[x]
                        /\ u.got[x] = IF x = t THEN m.kind ELSE k.got[x]
      /\ \A x \in PortIds : u.queue[x] = IF x = p THEN v ELSE k.queue[x]
  <2>1. /\ u.target = k.target /\ u.state = k.state /\ u.owner = k.owner /\ u.pairs = k.pairs /\ u.media = k.media
        /\ u.sent = k.sent /\ u.lost = k.lost /\ u.abort = k.abort /\ u.rec = s.rec
    BY <1>4, <1>5 DEF Took, Keeps
  <2>2. u.received = k.received \cup Ids(<<m>>) /\ \A x \in PortIds : u.queue[x] = IF x = p THEN v ELSE k.queue[x]
    BY <1>4, <1>5 DEF Took
  <2>3. ASSUME NEW x \in All
        PROVE  /\ u.rec[x] = IF x = t THEN r ELSE k.rec[x]
               /\ u.at[x] = IF x = t THEN "running" ELSE k.at[x]
               /\ u.rtoep[x] = IF x = t THEN FALSE ELSE k.rtoep[x]
               /\ u.got[x] = IF x = t THEN m.kind ELSE k.got[x]
    <3>1. u.rec[x] = IF x = t THEN r ELSE k.rec[x]
      BY <1>4, <2>1
    <3>2. /\ u.at[x] = IF x = t THEN "running" ELSE s.at[x]
          /\ u.rtoep[x] = IF x = t THEN FALSE ELSE s.rtoep[x]
          /\ u.got[x] = IF x = t THEN m.kind ELSE s.got[x]
      BY <1>5 DEF Took
    <3>3. s.at[x] = k.at[x] /\ s.rtoep[x] = k.rtoep[x] /\ s.got[x] = k.got[x]
      BY <1>4
    <3>4. u.at[x] = IF x = t THEN "running" ELSE k.at[x]
      BY <3>2, <3>3
    <3>5. u.rtoep[x] = IF x = t THEN FALSE ELSE k.rtoep[x]
      BY <3>2, <3>3, Zenon
    <3>6. u.got[x] = IF x = t THEN m.kind ELSE k.got[x]
      BY <3>2, <3>3
    <3> QED BY <3>1, <3>4, <3>5, <3>6, Zenon
  <2> QED BY <2>1, <2>2, <2>3
<1>7. Parts(u, 1..u.sent)
  <2>1. Parts(u, 1..n)
    BY <1>1, <1>2, <1>3, <1>6, <1>m, <1>q, TakenParts
  <2> QED BY <1>6, <1>p, <2>1
<1>8. v \in Seq(SoundOnes) /\ Thinned(q, v, DOMAIN q \ {i})
  BY <1>2, <1>3, <1>m, RemovedThins
<1>9. \A j \in DOMAIN v : \E x \in DOMAIN q \ {i} : v[j] = q[x]
  BY <1>2, <1>8, ThinnedIds
<1>10. Within(v, q)
  BY <1>2, <1>8, Withins
<1>11. Tables(u)
  <2>0. k.state[p] # "free" /\ t \notin Surrogates
    BY <1>1, <1>2, Basics DEF Tables, OwnerOf
  <2>1. ASSUME NEW x \in PortIds PROVE OwnerOf(u, x)
    <3>1. OwnerOf(k, x)
      BY <1>1 DEF Tables
    <3>2. k.state[x] = "free" => u.queue[x] = k.queue[x]
      BY <1>6, <2>0
    <3>3. k.owner[x] \in All => /\ k.at[k.owner[x]] # "free" => u.at[k.owner[x]] # "free"
                                /\ k.owner[x] \in Surrogates => u.rec[k.owner[x]] = k.rec[k.owner[x]]
      BY <1>6, <2>0
    <3> QED BY <1>6, <3>1, <3>2, <3>3, Basics DEF OwnerOf
  <2>2. ASSUME NEW x \in Tasks PROVE KeepsStd(u, x)
    <3>1. KeepsStd(k, x) /\ x \in All
      BY <1>1, Basics DEF Tables
    <3>2. u.at[x] # "free"
      BY <1>6, <3>1 DEF KeepsStd
    <3> QED BY <1>6, <3>1, <3>2 DEF KeepsStd
  <2>3. ASSUME NEW g \in Surrogates PROVE ServesSet(u, g)
    <3>1. g # t /\ g \in All /\ ServesSet(k, g)
      BY <1>1, <2>0, Basics DEF Tables
    <3>2. u.at[g] = k.at[g] /\ u.rec[g] = k.rec[g]
      BY <1>6, <3>1
    <3> QED BY <1>6, <3>1, <3>2 DEF ServesSet
  <2>4. ASSUME NEW x \in All PROVE WaitsWell(u, x)
    <3>1. WaitsWell(k, x)
      BY <1>1 DEF Tables
    <3>2. CASE x = t
      BY <1>6, <3>2 DEF WaitsWell
    <3>3. CASE x # t
      <4>1. u.at[x] = k.at[x] /\ u.rtoep[x] = k.rtoep[x] /\ u.rec[x] = k.rec[x]
        BY <1>6, <3>3
      <4>2. k.at[x] = "receiving" => u.queue[k.rec[x].port] = k.queue[k.rec[x].port]
        BY <1>2, <1>6, <3>1, <3>3 DEF WaitsWell
      <4> QED BY <1>6, <3>1, <4>1, <4>2 DEF WaitsWell
    <3> QED BY <3>2, <3>3
  <2> QED BY <1>5, <2>1, <2>2, <2>3, <2>4 DEF Tables
<1>12. Members(u)
  <2> SUFFICES ASSUME ~Happens({"releaseMember"}), NEW x \in PortIds, NEW z \in u.pairs[x] PROVE MemberOf(u, x, z)
    BY DEF Members
  <2>1. MemberOf(k, x, z) /\ z.task \in Surrogates
    BY <1>1, <1>6 DEF Members, Typed, Pairs
  <2>2. z.task # t /\ z.task \in All
    BY <2>1, Basics
  <2> QED BY <1>6, <2>1, <2>2 DEF MemberOf
<1>13. OwnMail(u) /\ Safe(u)
  <2>1. ASSUME NEW x \in PortIds, u.state[x] = "used", NEW j \in DOMAIN u.queue[x] PROVE u.queue[x][j].org = x
    <3>1. \E y \in DOMAIN k.queue[x] : u.queue[x][j] = k.queue[x][y]
      BY <1>6, <1>9, <1>q, <2>1
    <3> QED BY <1>1, <1>6, <2>1, <3>1 DEF OwnMail
  <2> QED BY <1>1, <1>6, <2>1 DEF OwnMail, Safe
<1>14. StaleFree(u)
  <2>1. \A x \in All : u.rec[x].discipline \in world.disciplines \cup {"FIFO"}
    BY <1>1, <1>2, <1>6 DEF StaleFree
  <2>2. FirstOnly => i = 1
    <3>1. FirstOnly => r.discipline = "FIFO"
      BY <1>2 DEF FirstOnly
    <3> QED BY <1>p, <1>q, <3>1 DEF Positions
  <2>3. ASSUME FirstOnly, NEW x \in PortIds, NEW j \in DOMAIN u.queue[x], u.queue[x][j].kind = "timeout"
        PROVE  /\ j = 1 /\ u.owner[x] \in Tasks /\ u.at[u.owner[x]] = "awake"
               /\ u.rec[u.owner[x]].port = x /\ u.rec[u.owner[x]].mode = "timed"
    <3>1. CASE x = p
      <4>1. PICK y \in DOMAIN q \ {i} : v[j] = q[y]
        BY <1>6, <1>9, <2>3, <3>1
      <4>2. y = 1
        BY <1>1, <1>6, <1>q, <2>3, <3>1, <4>1 DEF StaleFree
      <4> QED BY <2>2, <2>3, <4>1, <4>2
    <3>2. CASE x # p
      <4>1. /\ j = 1 /\ k.owner[x] \in Tasks /\ k.at[k.owner[x]] = "awake"
            /\ k.rec[k.owner[x]].port = x /\ k.rec[k.owner[x]].mode = "timed"
        BY <1>1, <1>6, <2>3, <3>2 DEF StaleFree
      <4>2. k.owner[x] # t /\ k.owner[x] \in All
        BY <1>2, <1>p, <3>2, <4>1, Basics
      <4>3. u.at[k.owner[x]] = k.at[k.owner[x]] /\ u.rec[k.owner[x]] = k.rec[k.owner[x]]
        BY <1>6, <4>2
      <4> QED BY <1>6, <4>1, <4>3
    <3> QED BY <3>1, <3>2
  <2>4. ASSUME FirstOnly, NEW x \in Tasks, u.at[x] = "running", u.got[x] = "timeout" PROVE u.rec[x].mode # "never"
    <3>1. CASE x = t
      <4>1. q[1].kind = "timeout"
        BY <1>1, <1>6, <1>m, <2>2, <2>4, <3>1
      <4>2. k.at[t] = "awake" /\ k.rec[t].mode = "timed"
        BY <1>1, <1>2, <1>3, <1>q, <2>2, <2>4, <4>1 DEF StaleFree
      <4> QED BY <1>1, <1>2, <1>6, <3>1, <4>2
    <3>2. CASE x # t
      <4>1. k.at[x] = "running" /\ k.got[x] = "timeout" /\ u.rec[x] = k.rec[x]
        BY <1>6, <2>4, <3>2, Basics
      <4> QED BY <1>1, <2>4, <4>1 DEF StaleFree
    <3> QED BY <3>1, <3>2
  <2> QED BY <2>1, <2>3, <2>4 DEF StaleFree
<1>15. ASSUME ~Happens({"leave", "transmit"}) PROVE Ordered(u)
  <2>1. Ordered(k)
    BY <1>1, <1>15 DEF Mail
  <2>2. \A x \in PortIds : Within(u.queue[x], k.queue[x])
    BY <1>6, <1>10, <1>q, Withins
  <2> QED BY <1>6, <2>1, <2>2, OrderedThins
<1> QED BY <1>7, <1>11, <1>12, <1>13, <1>14, <1>15 DEF Good, Mail

\* It finds none, and waits.
LEMMA WaitStep ==
  ASSUME IInv, NEW t \in Tasks, NEW r, Receiving(t, r), NEW s, Begun(t, r, s), k.queue[r.port] = <<>>,
         \A x \in All : IF x = t THEN s.rtoep[t] => r.mode = "timed" ELSE s.rtoep[x] = k.rtoep[x],
         NEW u, u = WaitOn(s, t)
  PROVE  Good(u)
<1>p. PICK p, n, f : p = r.port /\ n = k.sent /\ f = [s.at EXCEPT ![t] = "receiving"]
  OBVIOUS
<1>1. /\ Typed(k) /\ Tables(k) /\ Members(k) /\ Mail(k) /\ Parts(k, 1..n) /\ StaleFree(k) /\ OwnMail(k) /\ Safe(k)
      /\ n \in Nat /\ t \in All /\ world \in Worlds
  BY <1>p, Basics DEF IInv, Tables, Mail, Typed
<1>2. /\ p \in PortIds /\ k.owner[p] = t /\ (k.at[t] = "running" \/ (k.at[t] = "awake" /\ r = k.rec[t]))
      /\ k.queue[p] = <<>> /\ r.discipline \in world.disciplines \cup {"FIFO"}
  BY <1>1, <1>p DEF Receiving
<1>3. /\ Typed(s) /\ s.at = k.at /\ s.got = k.got /\ s.target = k.target /\ s.state = k.state /\ s.owner = k.owner
      /\ s.queue = k.queue /\ s.pairs = k.pairs /\ s.media = k.media /\ s.sent = k.sent /\ s.received = k.received
      /\ s.lost = k.lost /\ s.abort = k.abort /\ \A x \in All : s.rec[x] = IF x = t THEN r ELSE k.rec[x]
  BY DEF Begun, Keeps
<1>4. u = [at |-> f, rec |-> s.rec, rtoep |-> s.rtoep, got |-> s.got, target |-> s.target, state |-> s.state, owner |-> s.owner, queue |-> s.queue, pairs |-> s.pairs, media |-> s.media, sent |-> s.sent, received |-> s.received, lost |-> s.lost, abort |-> s.abort]
  BY <1>3, <1>p DEF WaitOn, Typed, Shape
<1>5. Shape(u) /\ Keeps(s, u, {"at"}) /\ u.at = f
  BY <1>4 DEF Shape, Keeps
<1>6. f \in [All -> AtStates] /\ \A x \in All : f[x] = IF x = t THEN "receiving" ELSE k.at[x]
  BY <1>3, <1>p DEF Typed, AtStates
<1>7. Typed(u)
  BY <1>3, <1>5, <1>6 DEF Typed, Keeps
<1>8. /\ u.target = k.target /\ u.state = k.state /\ u.owner = k.owner /\ u.pairs = k.pairs /\ u.media = k.media /\ u.got = k.got
      /\ u.sent = k.sent /\ u.lost = k.lost /\ u.abort = k.abort /\ u.received = k.received /\ u.queue = k.queue
      /\ \A x \in All : /\ u.rec[x] = IF x = t THEN r ELSE k.rec[x]
                        /\ u.at[x] = IF x = t THEN "receiving" ELSE k.at[x]
                        /\ u.rtoep[x] = s.rtoep[x]
  BY <1>3, <1>5, <1>6 DEF Keeps
<1>9. Parts(u, 1..u.sent)
  BY <1>1, <1>8, <1>p, PartsKept
<1>10. t \notin Surrogates
  BY Basics
<1>11. Tables(u)
  <2>1. ASSUME NEW x \in PortIds PROVE OwnerOf(u, x)
    <3>1. OwnerOf(k, x)
      BY <1>1 DEF Tables
    <3>3. k.owner[x] \in All => /\ k.at[k.owner[x]] # "free" => u.at[k.owner[x]] # "free"
                                /\ k.owner[x] \in Surrogates => u.rec[k.owner[x]] = k.rec[k.owner[x]]
      BY <1>8, <1>10
    <3> QED BY <1>8, <3>1, <3>3, Basics DEF OwnerOf
  <2>2. ASSUME NEW x \in Tasks PROVE KeepsStd(u, x)
    <3>1. KeepsStd(k, x) /\ x \in All
      BY <1>1, Basics DEF Tables
    <3>2. u.at[x] # "free"
      BY <1>8, <3>1 DEF KeepsStd
    <3> QED BY <1>8, <3>1, <3>2 DEF KeepsStd
  <2>3. ASSUME NEW g \in Surrogates PROVE ServesSet(u, g)
    <3>1. g # t /\ g \in All
      BY <1>10, Basics
    <3> QED BY <1>1, <1>8, <3>1 DEF Tables, ServesSet
  <2>4. ASSUME NEW x \in All PROVE WaitsWell(u, x)
    <3>1. WaitsWell(k, x)
      BY <1>1 DEF Tables
    <3>2. CASE x = t
      BY <1>1, <1>2, <1>8, <1>p, <3>2 DEF WaitsWell
    <3>3. CASE x # t
      BY <1>8, <3>1, <3>3 DEF WaitsWell
    <3> QED BY <3>2, <3>3
  <2> QED BY <1>7, <2>1, <2>2, <2>3, <2>4 DEF Tables
<1>12. Members(u)
  <2> SUFFICES ASSUME ~Happens({"releaseMember"}), NEW x \in PortIds, NEW z \in u.pairs[x] PROVE MemberOf(u, x, z)
    BY DEF Members
  <2>1. MemberOf(k, x, z) /\ z.task \in Surrogates
    BY <1>1, <1>8 DEF Members, Typed, Pairs
  <2>2. z.task # t /\ z.task \in All
    BY <2>1, Basics
  <2> QED BY <1>8, <2>1, <2>2 DEF MemberOf
<1>13. OwnMail(u) /\ Safe(u)
  BY <1>1, <1>8 DEF OwnMail, Safe
<1>14. StaleFree(u)
  <2>1. \A x \in All : u.rec[x].discipline \in world.disciplines \cup {"FIFO"}
    BY <1>1, <1>2, <1>8 DEF StaleFree
  <2>3. ASSUME FirstOnly, NEW x \in PortIds, NEW j \in DOMAIN u.queue[x], u.queue[x][j].kind = "timeout"
        PROVE  /\ j = 1 /\ u.owner[x] \in Tasks /\ u.at[u.owner[x]] = "awake"
               /\ u.rec[u.owner[x]].port = x /\ u.rec[u.owner[x]].mode = "timed"
    <3>1. /\ j = 1 /\ k.owner[x] \in Tasks /\ k.at[k.owner[x]] = "awake"
          /\ k.rec[k.owner[x]].port = x /\ k.rec[k.owner[x]].mode = "timed"
      BY <1>1, <1>8, <2>3 DEF StaleFree
    <3>2. x # p
      BY <1>2, <1>8, <2>3
    <3>3. k.owner[x] # t
      BY <1>2, <1>p, <3>1, <3>2
    <3> QED BY <1>8, <3>1, <3>3, Basics
  <2>4. ASSUME FirstOnly, NEW x \in Tasks, u.at[x] = "running", u.got[x] = "timeout" PROVE u.rec[x].mode # "never"
    <3>1. x # t /\ k.at[x] = "running" /\ k.got[x] = "timeout" /\ u.rec[x] = k.rec[x]
      BY <1>8, <2>4, Basics
    <3> QED BY <1>1, <2>4, <3>1 DEF StaleFree
  <2> QED BY <2>1, <2>3, <2>4 DEF StaleFree
<1>15. ASSUME ~Happens({"leave", "transmit"}) PROVE Ordered(u)
  BY <1>1, <1>8, <1>15 DEF Mail, Ordered
<1> QED BY <1>9, <1>11, <1>12, <1>13, <1>14, <1>15 DEF Good, Mail

\* A task that a port was taken from, or that asked for a message at once, runs on.
LEMMA RunsOn ==
  ASSUME IInv, NEW t \in Tasks, k.at[t] # "receiving", NEW r \in Receives, r.discipline \in world.disciplines \cup {"FIFO"},
         NEW g \in {"timeout", "error"}, g = "timeout" => r.mode # "never",
         k.at[t] = "running" \/ k.owner[k.rec[t].port] # t,
         NEW u, Shape(u), Keeps(k, u, {"at", "rec", "got"}), DOMAIN u.at = All /\ DOMAIN u.rec = All /\ DOMAIN u.got = All,
         u.at \in [All -> AtStates], u.rec \in [All -> Receives], u.got \in [All -> Kinds],
         \A x \in All : IF x = t THEN u.at[x] = "running" /\ u.rec[x] = r /\ u.got[x] = g
                                 ELSE u.at[x] = k.at[x] /\ u.rec[x] = k.rec[x] /\ u.got[x] = k.got[x]
  PROVE  Good(u)
<1>1. /\ Typed(k) /\ Tables(k) /\ Members(k) /\ Mail(k) /\ Parts(k, 1..k.sent) /\ StaleFree(k) /\ OwnMail(k) /\ Safe(k)
      /\ t \in All /\ world \in Worlds /\ t \notin Surrogates
  BY Basics DEF IInv, Tables, Mail, Typed
<1>2. /\ u.target = k.target /\ u.state = k.state /\ u.owner = k.owner /\ u.pairs = k.pairs /\ u.media = k.media /\ u.rtoep = k.rtoep
      /\ u.sent = k.sent /\ u.lost = k.lost /\ u.abort = k.abort /\ u.received = k.received /\ u.queue = k.queue
  BY DEF Keeps
<1>3. Typed(u)
  BY <1>1, <1>2 DEF Typed
<1>4. Parts(u, 1..u.sent)
  BY <1>1, <1>2, PartsKept
<1>5. Tables(u)
  <2>1. ASSUME NEW x \in PortIds PROVE OwnerOf(u, x)
    <3>1. OwnerOf(k, x)
      BY <1>1 DEF Tables
    <3>3. k.owner[x] \in All => /\ k.at[k.owner[x]] # "free" => u.at[k.owner[x]] # "free"
                                /\ k.owner[x] \in Surrogates => u.rec[k.owner[x]] = k.rec[k.owner[x]]
      BY <1>1
    <3> QED BY <1>2, <3>1, <3>3, Basics DEF OwnerOf
  <2>2. ASSUME NEW x \in Tasks PROVE KeepsStd(u, x)
    <3>1. KeepsStd(k, x) /\ x \in All
      BY <1>1, Basics DEF Tables
    <3>2. u.at[x] # "free"
      BY <3>1 DEF KeepsStd
    <3> QED BY <1>2, <3>1, <3>2 DEF KeepsStd
  <2>3. ASSUME NEW h \in Surrogates PROVE ServesSet(u, h)
    <3>1. h # t /\ h \in All
      BY <1>1, Basics
    <3> QED BY <1>1, <1>2, <3>1 DEF Tables, ServesSet
  <2>4. ASSUME NEW x \in All PROVE WaitsWell(u, x)
    <3>1. WaitsWell(k, x)
      BY <1>1 DEF Tables
    <3>2. CASE x = t
      BY <1>2, <3>1, <3>2 DEF WaitsWell
    <3>3. CASE x # t
      BY <1>2, <3>1, <3>3 DEF WaitsWell
    <3> QED BY <3>2, <3>3
  <2> QED BY <1>3, <2>1, <2>2, <2>3, <2>4 DEF Tables
<1>6. Members(u)
  <2> SUFFICES ASSUME ~Happens({"releaseMember"}), NEW x \in PortIds, NEW z \in u.pairs[x] PROVE MemberOf(u, x, z)
    BY DEF Members
  <2>1. MemberOf(k, x, z) /\ z.task \in Surrogates
    BY <1>1, <1>2 DEF Members, Typed, Pairs
  <2>2. z.task # t /\ z.task \in All
    BY <1>1, <2>1, Basics
  <2> QED BY <1>2, <2>1, <2>2 DEF MemberOf
<1>7. OwnMail(u) /\ Safe(u)
  BY <1>1, <1>2 DEF OwnMail, Safe
<1>8. StaleFree(u)
  <2>1. \A x \in All : u.rec[x].discipline \in world.disciplines \cup {"FIFO"}
    BY <1>1 DEF StaleFree
  <2>3. ASSUME FirstOnly, NEW x \in PortIds, NEW j \in DOMAIN u.queue[x], u.queue[x][j].kind = "timeout"
        PROVE  /\ j = 1 /\ u.owner[x] \in Tasks /\ u.at[u.owner[x]] = "awake"
               /\ u.rec[u.owner[x]].port = x /\ u.rec[u.owner[x]].mode = "timed"
    <3>1. /\ j = 1 /\ k.owner[x] \in Tasks /\ k.at[k.owner[x]] = "awake"
          /\ k.rec[k.owner[x]].port = x /\ k.rec[k.owner[x]].mode = "timed"
      BY <1>1, <1>2, <2>3 DEF StaleFree
    <3>3. k.owner[x] # t
      BY <3>1
    <3> QED BY <1>2, <3>1, <3>3, Basics
  <2>4. ASSUME FirstOnly, NEW x \in Tasks, u.at[x] = "running", u.got[x] = "timeout" PROVE u.rec[x].mode # "never"
    <3>1. CASE x = t
      BY <1>1, <2>4, <3>1
    <3>2. CASE x # t
      <4>1. k.at[x] = "running" /\ k.got[x] = "timeout" /\ u.rec[x] = k.rec[x]
        BY <2>4, <3>2, Basics
      <4> QED BY <1>1, <2>4, <4>1 DEF StaleFree
    <3> QED BY <3>1, <3>2
  <2> QED BY <2>1, <2>3, <2>4 DEF StaleFree
<1>9. ASSUME ~Happens({"leave", "transmit"}) PROVE Ordered(u)
  BY <1>1, <1>2, <1>9 DEF Mail, Ordered
<1> QED BY <1>4, <1>5, <1>6, <1>7, <1>8, <1>9 DEF Good, Mail

LEMMA ReceiveStep ==
  ASSUME IInv, NEW t \in Tasks, NEW p \in PortIds, NEW discipline \in Disciplines, NEW mode \in Modes, Receive(t, p, discipline, mode)
  PROVE  Good(k')
<1>r. PICK r : r = [port |-> p, discipline |-> discipline, mode |-> mode]
  OBVIOUS
<1>q. PICK q, b : q = k.queue[p] /\ b = (k.queue[p] = <<>> /\ mode = "timed")
  OBVIOUS
<1>f. PICK f, h, d : f = [k.rec EXCEPT ![t] = r] /\ h = [k.rtoep EXCEPT ![t] = b] /\ d = [k.got EXCEPT ![t] = "timeout"]
  OBVIOUS
<1>1. /\ Typed(k) /\ Tables(k) /\ t \in All /\ world \in Worlds /\ k.at[t] = "running" /\ k.owner[p] = t
      /\ discipline \in world.disciplines
  BY Basics DEF IInv, Tables, Receive, May, Runs
<1>2. r \in Receives /\ Receiving(t, r) /\ r.port = p /\ r.discipline = discipline /\ r.mode = mode
  BY <1>1, <1>r DEF Receiving, Receives
<1>3. k.rtoep[t] = FALSE
  BY <1>1 DEF Tables, WaitsWell, Typed
<1>4. f \in [All -> Receives] /\ \A x \in All : f[x] = IF x = t THEN r ELSE k.rec[x]
  BY <1>1, <1>2, <1>f DEF Typed
<1>5. h \in [All -> BOOLEAN] /\ \A x \in All : h[x] = IF x = t THEN b ELSE k.rtoep[x]
  BY <1>1, <1>f, <1>q DEF Typed
<1>6. d \in [All -> Kinds] /\ \A x \in All : d[x] = IF x = t THEN "timeout" ELSE k.got[x]
  BY <1>1, <1>f DEF Typed, Kinds
<1>7. CASE q = <<>> /\ mode = "immediate"
  <2>u. PICK u : u = k'
    OBVIOUS
  <2>1. u = [[k EXCEPT !.rec[t] = r] EXCEPT !.got[t] = "timeout"]
    BY <1>7, <1>q, <1>r, <2>u DEF Receive
  <2>2. u = [at |-> k.at, rec |-> f, rtoep |-> k.rtoep, got |-> d, target |-> k.target, state |-> k.state, owner |-> k.owner, queue |-> k.queue, pairs |-> k.pairs, media |-> k.media, sent |-> k.sent, received |-> k.received, lost |-> k.lost, abort |-> k.abort]
    BY <1>1, <1>f, <2>1 DEF Typed, Shape
  <2>3. Shape(u) /\ Keeps(k, u, {"at", "rec", "got"}) /\ u.at = k.at /\ u.rec = f /\ u.got = d
    BY <2>2 DEF Shape, Keeps
  <2>4. k.at \in [All -> AtStates]
    BY <1>1 DEF Typed
  <2>5. \A x \in All : IF x = t THEN u.at[x] = "running" /\ u.rec[x] = r /\ u.got[x] = "timeout"
                                ELSE u.at[x] = k.at[x] /\ u.rec[x] = k.rec[x] /\ u.got[x] = k.got[x]
    BY <1>1, <1>4, <1>6, <2>3
  <2>6. r.mode # "never" /\ r.discipline \in world.disciplines \cup {"FIFO"} /\ k.at[t] # "receiving"
    BY <1>1, <1>2, <1>7
  <2>7. Good(u)
    BY <1>1, <1>2, <1>4, <1>6, <2>3, <2>4, <2>5, <2>6, RunsOn
  <2> QED BY <2>7, <2>u
<1>8. CASE ~(q = <<>> /\ mode = "immediate")
  <2>s. PICK s : s = [[k EXCEPT !.rec[t] = r] EXCEPT !.rtoep[t] = b]
    OBVIOUS
  <2>1. k' \in TakeOrWait(s, t)
    BY <1>8, <1>q, <1>r, <2>s DEF Receive
  <2>2. s = [at |-> k.at, rec |-> f, rtoep |-> h, got |-> k.got, target |-> k.target, state |-> k.state, owner |-> k.owner, queue |-> k.queue, pairs |-> k.pairs, media |-> k.media, sent |-> k.sent, received |-> k.received, lost |-> k.lost, abort |-> k.abort]
    BY <1>1, <1>f, <2>s DEF Typed, Shape
  <2>3. Shape(s) /\ Keeps(k, s, {"rec", "rtoep"}) /\ s.rec = f /\ s.rtoep = h
    BY <2>2 DEF Shape, Keeps
  <2>4. Typed(s)
    BY <1>1, <1>4, <1>5, <2>3 DEF Typed, Keeps
  <2>5. Begun(t, r, s)
    BY <1>4, <2>3, <2>4 DEF Begun
  <2>6. s.rec[t].port = p /\ s.rec[t].discipline = discipline /\ s.queue = k.queue
    BY <1>1, <1>2, <1>4, <2>3 DEF Keeps
  <2>7. CASE q = <<>>
    <3>1. k' = WaitOn(s, t)
      BY <1>q, <2>1, <2>6, <2>7 DEF TakeOrWait
    <3>2. \A x \in All : IF x = t THEN s.rtoep[t] => r.mode = "timed" ELSE s.rtoep[x] = k.rtoep[x]
      BY <1>2, <1>5, <1>q, <2>3
    <3> QED BY <1>2, <1>q, <2>5, <2>7, <3>1, <3>2, WaitStep
  <2>8. CASE q # <<>>
    <3>1. PICK i \in Positions(q, discipline) : k' = Take(s, t, i)
      BY <1>q, <2>1, <2>6, <2>8 DEF TakeOrWait
    <3>2. s.rtoep = k.rtoep
      <4>1. h = k.rtoep
        BY <1>1, <1>3, <1>5, <1>q, <2>8 DEF Typed
      <4> QED BY <2>3, <4>1
    <3> QED BY <1>2, <1>q, <2>5, <2>8, <3>1, <3>2, TakeStep
  <2> QED BY <2>7, <2>8
<1> QED BY <1>7, <1>8

LEMMA LookStep == ASSUME IInv, NEW t \in Tasks, Look(t) PROVE Good(k')
<1>r. PICK r, p : r = k.rec[t] /\ p = k.rec[t].port
  OBVIOUS
<1>1. /\ Typed(k) /\ Tables(k) /\ t \in All /\ world \in Worlds /\ k.at[t] = "awake" /\ StaleFree(k)
  BY Basics DEF IInv, Tables, Look, Mail
<1>2. r \in Receives /\ p \in PortIds /\ r.port = p /\ r.discipline \in world.disciplines \cup {"FIFO"}
  BY <1>1, <1>r DEF Tables, WaitsWell, Typed, StaleFree
<1>3. CASE k.owner[p] # t
  <2>u. PICK u : u = k'
    OBVIOUS
  <2>f. PICK f, d : f = [k.at EXCEPT ![t] = "running"] /\ d = [k.got EXCEPT ![t] = "error"]
    OBVIOUS
  <2>1. u = [k EXCEPT !.at[t] = "running", !.got[t] = "error"]
    BY <1>3, <1>r, <2>u DEF Look
  <2>2. u = [at |-> f, rec |-> k.rec, rtoep |-> k.rtoep, got |-> d, target |-> k.target, state |-> k.state, owner |-> k.owner, queue |-> k.queue, pairs |-> k.pairs, media |-> k.media, sent |-> k.sent, received |-> k.received, lost |-> k.lost, abort |-> k.abort]
    BY <1>1, <2>f, <2>1 DEF Typed, Shape
  <2>3. Shape(u) /\ Keeps(k, u, {"at", "rec", "got"}) /\ u.at = f /\ u.rec = k.rec /\ u.got = d
    BY <2>2 DEF Shape, Keeps
  <2>4. f \in [All -> AtStates] /\ \A x \in All : f[x] = IF x = t THEN "running" ELSE k.at[x]
    BY <1>1, <2>f DEF Typed, AtStates
  <2>5. d \in [All -> Kinds] /\ \A x \in All : d[x] = IF x = t THEN "error" ELSE k.got[x]
    BY <1>1, <2>f DEF Typed, Kinds
  <2>6. k.rec \in [All -> Receives]
    BY <1>1 DEF Typed
  <2>7. \A x \in All : IF x = t THEN u.at[x] = "running" /\ u.rec[x] = r /\ u.got[x] = "error"
                                ELSE u.at[x] = k.at[x] /\ u.rec[x] = k.rec[x] /\ u.got[x] = k.got[x]
    BY <1>r, <2>3, <2>4, <2>5
  <2>8. k.at[t] # "receiving" /\ k.owner[k.rec[t].port] # t
    BY <1>1, <1>3, <1>r
  <2>9. Good(u)
    BY <1>2, <2>3, <2>4, <2>5, <2>6, <2>7, <2>8, RunsOn
  <2> QED BY <2>9, <2>u
<1>4. CASE k.owner[p] = t
  <2>1. k' \in TakeOrWait(k, t)
    BY <1>4, <1>r DEF Look
  <2>2. Receiving(t, r)
    BY <1>1, <1>2, <1>4, <1>r DEF Receiving
  <2>3. Begun(t, r, k)
    BY <1>1, <1>r DEF Begun, Keeps
  <2>4. k.rtoep[t] = FALSE
    BY <1>1 DEF Tables, WaitsWell, Typed
  <2>5. CASE k.queue[p] = <<>>
    <3>1. k' = WaitOn(k, t)
      BY <1>r, <2>1, <2>5 DEF TakeOrWait
    <3>2. \A x \in All : IF x = t THEN k.rtoep[t] => r.mode = "timed" ELSE k.rtoep[x] = k.rtoep[x]
      BY <2>4
    <3> QED BY <1>2, <2>2, <2>3, <2>5, <3>1, <3>2, WaitStep
  <2>6. CASE k.queue[p] # <<>>
    <3>1. PICK i \in Positions(k.queue[p], r.discipline) : k' = Take(k, t, i)
      BY <1>r, <2>1, <2>6 DEF TakeOrWait
    <3> QED BY <1>2, <2>2, <2>3, <2>6, <3>1, TakeStep
  <2> QED BY <2>5, <2>6
<1> QED BY <1>3, <1>4

-----------------------------------------------------------------------------
\* The steps of passing, allocating and releasing ports.
LEMMA PassStep == ASSUME IInv, NEW t \in Tasks, NEW p \in PortIds, NEW o \in Tasks, Pass(t, p, o) PROVE Good(k')
<1>u. PICK u : u = k'
  OBVIOUS
<1>1. /\ Typed(k) /\ Tables(k) /\ Members(k) /\ Mail(k) /\ world \in Worlds /\ o \in All /\ o \notin Surrogates
  BY Basics DEF IInv, Tables
<1>2. k.state[p] = "used" /\ p \notin Range(Std) /\ k.at[o] # "free" /\ u = Passed(k, p, o) /\ "pass" \in world.calls[t]
  BY <1>u DEF Pass, May
<1>3. k.owner[p] \in All
  BY <1>1, <1>2 DEF Tables, OwnerOf
<1>4. Tables(u)
  BY <1>1, <1>2, PassedTables
<1>5. Typed(u) /\ Settles(k, u)
  BY <1>1, <1>2, <1>3, PassedSettles
<1>6. Happens({"pass", "releaseMember"})
  BY <1>1, <1>2, Happening
<1>7. CASE Happens({"releaseMember"})
  <2>1. Releases
    BY <1>7 DEF Releases, Happens
  <2>2. Mail(u)
    BY <1>1, <1>5, <1>6, <2>1, MailSettles DEF FirstOnly
  <2>3. Members(u)
    BY <1>7 DEF Members
  <2> QED BY <1>4, <1>u, <2>2, <2>3 DEF Good
<1>8. CASE ~Happens({"releaseMember"})
  <2>1. Members(u) /\ Quiet(k, u)
    BY <1>1, <1>2, <1>8, PassedMembers
  <2>2. Mail(u)
    BY <1>1, <1>5, <1>6, <2>1, MailSettles DEF FirstOnly
  <2> QED BY <1>4, <1>u, <2>1, <2>2 DEF Good
<1> QED BY <1>7, <1>8

LEMMA ReleaseStep == ASSUME IInv, NEW t \in Tasks, NEW p \in PortIds, Release(t, p) PROVE Good(k')
<1>u. PICK u : u = k'
  OBVIOUS
<1>1. /\ Typed(k) /\ Tables(k) /\ Members(k) /\ Mail(k) /\ world \in Worlds
  BY DEF IInv, Tables
<1>2. k.state[p] # "free" /\ p \notin Range(Std) /\ u = Released(k, p)
  BY <1>u DEF Release
<1>3. (IF k.owner[p] \in Surrogates THEN "releaseMember" ELSE "release") \in world.calls[t]
  BY DEF Release, May
<1>4. Releases
  BY <1>1, <1>3, Happening DEF Releases
<1>5. Tables(u) /\ Settles(k, u) /\ \A r \in PortIds : u.owner[r] = k.owner[r] \/ u.queue[r] = <<>>
  BY <1>1, <1>2, ReleasedTables
<1>6. Mail(u)
  BY <1>1, <1>4, <1>5, MailSettles
<1>7. Members(u)
  <2>1. CASE Happens({"releaseMember"})
    BY <2>1 DEF Members
  <2>2. CASE ~Happens({"releaseMember"})
    <3>1. k.owner[p] \in All
      BY <1>1, <1>2 DEF Tables, OwnerOf
    <3>2. k.owner[p] \notin Surrogates
      BY <1>1, <1>3, <2>2, Happening
    <3>3. k.owner[p] \in Tasks
      BY <3>1, <3>2, Basics
    <3> QED BY <1>1, <1>2, <2>2, <3>3, ReleasedMembers
  <2> QED BY <2>1, <2>2
<1> QED BY <1>5, <1>6, <1>7, <1>u DEF Good

LEMMA AllocateStep ==
  ASSUME IInv, NEW t \in Tasks, NEW p \in PortIds, NEW kind \in {"used", "set"}, Allocate(t, p, kind)
  PROVE  Good(k')
<1>u. PICK u : u = k'
  OBVIOUS
<1>f. PICK f, h : f = [k.state EXCEPT ![p] = kind] /\ h = [k.owner EXCEPT ![p] = t]
  OBVIOUS
<1>1. /\ Typed(k) /\ Tables(k) /\ Members(k) /\ Mail(k) /\ world \in Worlds /\ t \in All /\ t \notin Surrogates /\ t # None
  BY Basics DEF IInv, Tables
<1>2. k.state[p] = "free" /\ k.at[t] = "running" /\ u = [k EXCEPT !.state[p] = kind, !.owner[p] = t]
  BY <1>u DEF Allocate, May, Runs
<1>3. k.owner[p] = None /\ k.queue[p] = <<>> /\ k.pairs[p] = {}
  BY <1>1, <1>2 DEF Tables, OwnerOf
<1>4. u = [at |-> k.at, rec |-> k.rec, rtoep |-> k.rtoep, got |-> k.got, target |-> k.target, state |-> f, owner |-> h, queue |-> k.queue, pairs |-> k.pairs, media |-> k.media, sent |-> k.sent, received |-> k.received, lost |-> k.lost, abort |-> k.abort]
  BY <1>1, <1>2, <1>f DEF Typed, Shape
<1>5. Shape(u) /\ Keeps(k, u, {"state", "owner"}) /\ u.state = f /\ u.owner = h
  BY <1>4 DEF Shape, Keeps
<1>6. f \in [PortIds -> PortStates] /\ \A x \in PortIds : f[x] = IF x = p THEN kind ELSE k.state[x]
  BY <1>1, <1>f DEF Typed, PortStates
<1>7. h \in [PortIds -> All \cup {None}] /\ \A x \in PortIds : h[x] = IF x = p THEN t ELSE k.owner[x]
  BY <1>1, <1>f DEF Typed
<1>8. Typed(u)
  BY <1>1, <1>5, <1>6, <1>7 DEF Typed, Keeps
<1>9. /\ u.at = k.at /\ u.rec = k.rec /\ u.rtoep = k.rtoep /\ u.got = k.got /\ u.target = k.target
      /\ u.queue = k.queue /\ u.pairs = k.pairs /\ u.received = k.received /\ u.lost = k.lost
      /\ u.abort = k.abort /\ u.sent = k.sent /\ u.media = k.media
      /\ \A x \in PortIds : x # p => u.state[x] = k.state[x] /\ u.owner[x] = k.owner[x]
      /\ u.state[p] = kind /\ u.owner[p] = t
  BY <1>5, <1>6, <1>7 DEF Keeps
<1>10. Tables(u)
  <2>1. ASSUME NEW x \in PortIds PROVE OwnerOf(u, x)
    <3>1. CASE x = p
      BY <1>1, <1>2, <1>3, <1>9, <3>1 DEF OwnerOf
    <3>2. CASE x # p
      <4>1. OwnerOf(k, x)
        BY <1>1 DEF Tables
      <4> QED BY <1>9, <3>2, <4>1 DEF OwnerOf
    <3> QED BY <3>1, <3>2
  <2>2. ASSUME NEW x \in Tasks PROVE KeepsStd(u, x)
    <3>1. KeepsStd(k, x) /\ Std[x] \in PortIds
      BY <1>1, Basics DEF Tables
    <3>2. Std[x] # p
      BY <1>2, <3>1 DEF KeepsStd
    <3> QED BY <1>9, <3>1, <3>2 DEF KeepsStd
  <2>3. ASSUME NEW g \in Surrogates PROVE ServesSet(u, g)
    <3>1. ServesSet(k, g)
      BY <1>1 DEF Tables
    <3>2. k.target[g] \in PortIds /\ k.state[k.target[g]] = "set" => u.state[k.target[g]] = "set"
      BY <1>2, <1>9
    <3> QED BY <1>9, <3>1, <3>2 DEF ServesSet
  <2>4. ASSUME NEW x \in All PROVE WaitsWell(u, x)
    <3>1. WaitsWell(k, x)
      BY <1>1 DEF Tables
    <3>2. k.at[x] = "receiving" => u.owner[k.rec[x].port] = x
      BY <1>3, <1>9, <3>1, Basics DEF WaitsWell
    <3> QED BY <1>9, <3>1, <3>2 DEF WaitsWell
  <2> QED BY <1>8, <2>1, <2>2, <2>3, <2>4 DEF Tables
<1>11. Members(u)
  <2> SUFFICES ASSUME ~Happens({"releaseMember"}), NEW x \in PortIds, NEW z \in u.pairs[x] PROVE MemberOf(u, x, z)
    BY DEF Members
  <2>1. MemberOf(k, x, z) /\ z.task \in Surrogates /\ z.port \in PortIds
    BY <1>1, <1>9 DEF Members, Typed, Pairs
  <2>2. x # p /\ z.port # p
    BY <1>2, <1>3, <2>1, Basics DEF MemberOf
  <2> QED BY <1>9, <2>1, <2>2 DEF MemberOf
<1>12. Parts(u, 1..u.sent)
  BY <1>1, <1>9, PartsKept DEF Mail
<1>13. OwnMail(u)
  <2> SUFFICES ASSUME NEW x \in PortIds, u.state[x] = "used", NEW i \in DOMAIN u.queue[x] PROVE u.queue[x][i].org = x
    BY DEF OwnMail
  <2>1. x # p
    BY <1>3, <1>9
  <2> QED BY <1>1, <1>9, <2>1 DEF Mail, OwnMail
<1>14. Safe(u)
  <2>1. ASSUME ~Releases, NEW m \in Media, NEW i \in DOMAIN u.media[m] PROVE u.state[u.media[m][i].org] # "free"
    <3>1. k.state[k.media[m][i].org] # "free"
      BY <1>1, <1>9, <2>1 DEF Mail, Safe
    <3>2. k.media[m][i].org \in PortIds
      <4>1. k.media[m] \in Seq(Carried) /\ i \in DOMAIN k.media[m]
        BY <1>1, <1>9, <2>1 DEF Typed
      <4>2. k.media[m][i] \in Carried
        BY <4>1, Places1
      <4> QED BY <4>2 DEF Carried, Messages
    <3> QED BY <1>9, <3>1, <3>2
  <2> QED BY <1>1, <1>9, <2>1 DEF Mail, Safe
<1>15. StaleFree(u)
  <2>1. ASSUME FirstOnly, NEW x \in PortIds, NEW i \in DOMAIN u.queue[x], u.queue[x][i].kind = "timeout"
        PROVE  /\ i = 1 /\ u.owner[x] \in Tasks /\ u.at[u.owner[x]] = "awake"
               /\ u.rec[u.owner[x]].port = x /\ u.rec[u.owner[x]].mode = "timed"
    <3>1. x # p
      BY <1>3, <1>9, <2>1
    <3> QED BY <1>1, <1>9, <2>1, <3>1 DEF Mail, StaleFree
  <2> QED BY <1>1, <1>9, <2>1 DEF Mail, StaleFree
<1>16. ASSUME ~Happens({"leave", "transmit"}) PROVE Ordered(u)
  <2>1. \A x \in PortIds : Within(u.queue[x], k.queue[x])
    BY <1>9, Withins
  <2>2. \A x \in PortIds : u.state[x] = "set" => k.state[x] = "set" \/ u.queue[x] = <<>>
    BY <1>3, <1>9
  <2> QED BY <1>1, <1>16, <2>1, <2>2, OrderedThins DEF Mail
<1> QED BY <1>10, <1>11, <1>12, <1>13, <1>14, <1>15, <1>16, <1>u DEF Good, Mail

-----------------------------------------------------------------------------
\* The steps of port sets.

\* A surrogate comes to forward port p to the set x.
Enroll(s, x, p, g) ==
  [s EXCEPT !.pairs[x] = @ \cup {[task |-> g, port |-> p]}, !.target[g] = x,
            !.at[g] = "awake", !.rec[g] = [NoReceive EXCEPT !.port = p]]
Enrolled(s, u, x, p, g) ==
  /\ Keeps(s, u, {"at", "rec", "target", "pairs"})
  /\ \A y \in PortIds : u.pairs[y] = IF y = x THEN s.pairs[x] \cup {[task |-> g, port |-> p]} ELSE s.pairs[y]
  /\ \A h \in Surrogates : u.target[h] = IF h = g THEN x ELSE s.target[h]
  /\ \A h \in All : /\ u.at[h] = IF h = g THEN "awake" ELSE s.at[h]
                    /\ u.rec[h] = IF h = g THEN [port |-> p, discipline |-> "FIFO", mode |-> "never"] ELSE s.rec[h]

LEMMA EnrolledForm ==
  ASSUME NEW s, Typed(s), NEW x \in PortIds, NEW p \in PortIds, p \notin Range(Std), NEW g \in Surrogates,
         NEW u, u = Enroll(s, x, p, g)
  PROVE  Typed(u) /\ Enrolled(s, u, x, p, g)
<1>r. PICK r, z : r = [port |-> p, discipline |-> "FIFO", mode |-> "never"] /\ z = [task |-> g, port |-> p]
  OBVIOUS
<1>a. PICK a, b : a = [s.pairs EXCEPT ![x] = @ \cup {z}] /\ b = [s.target EXCEPT ![g] = x]
  OBVIOUS
<1>c. PICK c, d : c = [s.at EXCEPT ![g] = "awake"] /\ d = [s.rec EXCEPT ![g] = r]
  OBVIOUS
<1>1. [NoReceive EXCEPT !.port = p] = r /\ r \in Receives /\ z \in Pairs /\ g \in All
  BY <1>r, Basics DEF NoReceive, Receives, Disciplines, Modes, Pairs
<1>2. u = [at |-> c, rec |-> d, rtoep |-> s.rtoep, got |-> s.got, target |-> b, state |-> s.state, owner |-> s.owner, queue |-> s.queue, pairs |-> a, media |-> s.media, sent |-> s.sent, received |-> s.received, lost |-> s.lost, abort |-> s.abort]
  BY <1>1, <1>a, <1>c, <1>r DEF Typed, Shape, Enroll
<1>3. Shape(u) /\ Keeps(s, u, {"at", "rec", "target", "pairs"}) /\ u.at = c /\ u.rec = d /\ u.target = b /\ u.pairs = a
  BY <1>2 DEF Shape, Keeps
<1>4. a \in [PortIds -> SUBSET Pairs] /\ \A y \in PortIds : a[y] = IF y = x THEN s.pairs[x] \cup {z} ELSE s.pairs[y]
  BY <1>1, <1>a DEF Typed
<1>5. b \in [Surrogates -> PortIds \cup {None}] /\ \A h \in Surrogates : b[h] = IF h = g THEN x ELSE s.target[h]
  BY <1>a DEF Typed
<1>6. c \in [All -> AtStates] /\ \A h \in All : c[h] = IF h = g THEN "awake" ELSE s.at[h]
  BY <1>1, <1>c DEF Typed, AtStates
<1>7. d \in [All -> Receives] /\ \A h \in All : d[h] = IF h = g THEN r ELSE s.rec[h]
  BY <1>1, <1>c DEF Typed
<1>8. Typed(u)
  BY <1>3, <1>4, <1>5, <1>6, <1>7 DEF Typed, Keeps
<1> QED BY <1>3, <1>4, <1>5, <1>6, <1>7, <1>8, <1>r DEF Enrolled

LEMMA EnrolledGood ==
  ASSUME IInv, NEW t \in Tasks, NEW x \in PortIds, NEW p \in PortIds, p \notin Range(Std), NEW g \in Surrogates,
         k.state[x] = "set", k.state[p] = "used", k.owner[x] = t, k.owner[p] = t, k.at[g] = "free",
         NEW a, Typed(a), Enrolled(k, a, x, p, g)
  PROVE  Tables(a) /\ Mail(a)
<1>1. /\ Typed(k) /\ Tables(k) /\ Mail(k) /\ g \notin Tasks /\ g \in All
  BY Basics DEF IInv, Tables
<1>2. /\ a.rtoep = k.rtoep /\ a.got = k.got /\ a.state = k.state /\ a.owner = k.owner
      /\ a.queue = k.queue /\ a.received = k.received /\ a.lost = k.lost
      /\ a.abort = k.abort /\ a.sent = k.sent /\ a.media = k.media
  BY DEF Enrolled, Keeps
<1>3. /\ \A h \in All : h # g => a.at[h] = k.at[h] /\ a.rec[h] = k.rec[h]
      /\ a.at[g] = "awake" /\ a.rec[g].port = p /\ a.rec[g].mode = "never" /\ a.rec[g].discipline = "FIFO" /\ a.target[g] = x
      /\ \A h \in Surrogates : h # g => a.target[h] = k.target[h]
      /\ \A y \in PortIds : k.pairs[y] \subseteq a.pairs[y]
      /\ [task |-> g, port |-> p] \in a.pairs[x]
      /\ \A y \in PortIds : y # x => a.pairs[y] = k.pairs[y]
  BY <1>1 DEF Enrolled
<1>4. Tables(a)
  <2>1. ASSUME NEW y \in PortIds PROVE OwnerOf(a, y)
    <3>1. OwnerOf(k, y)
      BY <1>1 DEF Tables
    <3>2. k.owner[y] # g
      BY <1>1, <3>1, Basics DEF OwnerOf, Typed, PortStates
    <3>3. k.owner[y] \in All => a.at[k.owner[y]] = k.at[k.owner[y]] /\ a.rec[k.owner[y]] = k.rec[k.owner[y]]
      BY <1>3, <3>2
    <3>4. k.state[y] # "set" => a.pairs[y] = k.pairs[y]
      BY <1>3
    <3> QED BY <1>2, <3>1, <3>3, <3>4, Basics DEF OwnerOf
  <2>2. ASSUME NEW y \in Tasks PROVE KeepsStd(a, y)
    <3>1. y # g /\ y \in All /\ KeepsStd(k, y)
      BY <1>1, Basics DEF Tables
    <3> QED BY <1>2, <1>3, <3>1 DEF KeepsStd
  <2>3. ASSUME NEW h \in Surrogates PROVE ServesSet(a, h)
    <3>1. CASE h = g
      BY <1>2, <1>3, <3>1 DEF ServesSet
    <3>2. CASE h # g
      <4>1. ServesSet(k, h) /\ h \in All
        BY <1>1, Basics DEF Tables
      <4>2. a.at[h] = k.at[h] /\ a.rec[h] = k.rec[h] /\ a.target[h] = k.target[h]
        BY <1>3, <3>2, <4>1
      <4> QED BY <1>2, <1>3, <4>1, <4>2 DEF ServesSet
    <3> QED BY <3>1, <3>2
  <2>4. ASSUME NEW h \in All PROVE WaitsWell(a, h)
    <3>1. WaitsWell(k, h)
      BY <1>1 DEF Tables
    <3>2. CASE h = g
      BY <1>2, <1>3, <3>1, <3>2 DEF WaitsWell
    <3>3. CASE h # g
      BY <1>2, <1>3, <3>1, <3>3 DEF WaitsWell
    <3> QED BY <3>2, <3>3
  <2> QED BY <2>1, <2>2, <2>3, <2>4 DEF Tables
<1>5. Parts(a, 1..a.sent)
  BY <1>1, <1>2, PartsKept DEF Mail
<1>6. OwnMail(a) /\ Safe(a)
  BY <1>1, <1>2 DEF Mail, OwnMail, Safe
<1>7. StaleFree(a)
  <2>0. \A y \in Tasks : y \in All /\ a.at[y] = k.at[y] /\ a.rec[y] = k.rec[y]
    BY <1>1, <1>3, Basics
  <2>1. \A h \in All : a.rec[h].discipline \in world.disciplines \cup {"FIFO"}
    BY <1>1, <1>3 DEF Mail, StaleFree
  <2>2. ASSUME FirstOnly, NEW y \in PortIds, NEW i \in DOMAIN a.queue[y], a.queue[y][i].kind = "timeout"
        PROVE  /\ i = 1 /\ a.owner[y] \in Tasks /\ a.at[a.owner[y]] = "awake"
               /\ a.rec[a.owner[y]].port = y /\ a.rec[a.owner[y]].mode = "timed"
    BY <1>1, <1>2, <2>0, <2>2 DEF Mail, StaleFree
  <2>3. ASSUME FirstOnly, NEW y \in Tasks, a.at[y] = "running", a.got[y] = "timeout" PROVE a.rec[y].mode # "never"
    BY <1>1, <1>2, <2>0, <2>3 DEF Mail, StaleFree
  <2> QED BY <2>1, <2>2, <2>3 DEF StaleFree
<1>8. ASSUME ~Happens({"leave", "transmit"}) PROVE Ordered(a)
  BY <1>1, <1>2, <1>8 DEF Mail, Ordered
<1> QED BY <1>4, <1>5, <1>6, <1>7, <1>8 DEF Mail

LEMMA JoinStep ==
  ASSUME IInv, NEW t \in Tasks, NEW x \in PortIds, NEW p \in PortIds, NEW g \in Surrogates, JoinPortSet(t, x, p, g)
  PROVE  Good(k')
<1>u. PICK u : u = k'
  OBVIOUS
<1>a. PICK a : a = Enroll(k, x, p, g)
  OBVIOUS
<1>1. /\ Typed(k) /\ Tables(k) /\ Members(k) /\ Mail(k) /\ world \in Worlds /\ g \notin Tasks /\ g \in All
      /\ t \in All /\ t # g /\ g # None
  BY Basics DEF IInv, Tables
<1>2. /\ k.state[x] = "set" /\ k.state[p] = "used" /\ p \notin Range(Std) /\ k.owner[x] = t /\ k.owner[p] = t /\ k.at[g] = "free"
      /\ k.at[t] = "running" /\ u = Passed(a, p, g) /\ x # p
  BY <1>a, <1>u DEF JoinPortSet, May, Runs, Enroll
<1>3. Typed(a) /\ Enrolled(k, a, x, p, g)
  BY <1>1, <1>2, <1>a, EnrolledForm
<1>4. Tables(a) /\ Mail(a)
  BY <1>2, <1>3, EnrolledGood
<1>5. /\ a.state = k.state /\ a.owner = k.owner /\ a.queue = k.queue /\ a.at[g] = "awake" /\ a.rec[g].port = p /\ a.target[g] = x
      /\ a.at[t] = "running"
      /\ \A h \in Surrogates : h # g => a.target[h] = k.target[h] /\ a.rec[h] = k.rec[h]
      /\ \A y \in PortIds : a.pairs[y] = IF y = x THEN k.pairs[x] \cup {[task |-> g, port |-> p]} ELSE k.pairs[y]
  <2>1. a.state = k.state /\ a.owner = k.owner /\ a.queue = k.queue
    BY <1>3 DEF Enrolled, Keeps
  <2>2. a.at[g] = "awake" /\ a.rec[g].port = p /\ a.at[t] = "running"
    BY <1>1, <1>2, <1>3 DEF Enrolled
  <2>3. a.target[g] = x /\ \A h \in Surrogates : h # g => a.target[h] = k.target[h] /\ a.rec[h] = k.rec[h]
    BY <1>3, Basics DEF Enrolled
  <2>4. \A y \in PortIds : a.pairs[y] = IF y = x THEN k.pairs[x] \cup {[task |-> g, port |-> p]} ELSE k.pairs[y]
    BY <1>3 DEF Enrolled
  <2> QED BY <2>1, <2>2, <2>3, <2>4
<1>6. Tables(u)
  BY <1>1, <1>2, <1>4, <1>5, PassedTables
<1>7. a.owner[p] \in All
  BY <1>1, <1>2, <1>5
<1>8. CASE Happens({"releaseMember"})
  <2>1. Releases /\ ~FirstOnly
    BY <1>8 DEF Releases, FirstOnly, Happens
  <2>2. Settles(a, u)
    BY <1>1, <1>2, <1>3, <1>7, PassedSettles
  <2>3. Mail(u)
    BY <1>3, <1>4, <2>1, <2>2, MailSettles
  <2>4. Members(u)
    BY <1>8 DEF Members
  <2> QED BY <1>6, <1>u, <2>3, <2>4 DEF Good
<1>9. CASE ~Happens({"releaseMember"})
  <2>0. ASSUME NEW y \in PortIds, NEW z \in k.pairs[y]
        PROVE  MemberOf(k, y, z) /\ z.task \in Surrogates /\ z.port \in PortIds /\ z.task # g /\ z.port # p
    <3>1. MemberOf(k, y, z) /\ z.task \in Surrogates /\ z.port \in PortIds
      BY <1>1, <1>9 DEF Members, Typed, Pairs
    <3>2. k.owner[z.port] = z.task /\ z.task # None /\ z.task \notin Tasks
      BY <3>1, Basics DEF MemberOf
    <3>3. k.at[z.task] # "free"
      BY <1>1, <3>1, <3>2 DEF Tables, OwnerOf
    <3> QED BY <1>2, <3>1, <3>2, <3>3
  <2>1. ASSUME NEW y \in PortIds, NEW z \in a.pairs[y], z.port = p, a.state[y] = "set"
        PROVE  y # p /\ a.owner[y] # Sire(WithOwner(a, p, g), a.owner[p])
    <3>1. z \notin k.pairs[y]
      BY <2>0, <2>1
    <3>2. y = x
      BY <1>5, <2>1, <3>1
    <3>3. Sire(WithOwner(a, p, g), a.owner[p]) = Parent[t]
      BY <1>2, <1>5 DEF Sire
    <3> QED BY <1>2, <1>5, <3>2, <3>3, Basics
  <2>2. /\ Settles(a, u) /\ Quiet(a, u) /\ Keeps(a, u, {"at", "rtoep", "owner"})
        /\ \A r \in PortIds : u.owner[r] = IF r = p THEN g ELSE a.owner[r]
    <3>1. \A y \in PortIds : \A z \in a.pairs[y] : z.port = p /\ a.state[y] = "set" => y # p /\ a.owner[y] # Sire(WithOwner(a, p, g), a.owner[p])
      BY <2>1
    <3> QED BY <1>1, <1>2, <1>3, <1>7, <3>1, PassedAlone
  <2>3. FirstOnly => \A r \in PortIds : \/ u.owner[r] = a.owner[r] \/ u.queue[r] = <<>>
                                        \/ \A i \in DOMAIN a.queue[r] : a.queue[r][i].kind # "timeout"
    <3>1. FirstOnly => \A i \in DOMAIN a.queue[p] : a.queue[p][i].kind # "timeout"
      BY <1>2, <1>4, <1>5 DEF Mail, StaleFree
    <3> QED BY <2>2, <3>1
  <2>4. Mail(u)
    BY <1>3, <1>4, <2>2, <2>3, MailSettles
  <2>5. ASSUME NEW y \in PortIds, NEW z \in u.pairs[y] PROVE MemberOf(u, y, z)
    <3>1. u.pairs = a.pairs /\ u.target = a.target /\ u.rec = a.rec /\ u.state = a.state
      BY <2>2 DEF Keeps
    <3>2. CASE z \in k.pairs[y]
      <4>1. MemberOf(k, y, z) /\ z.task \in Surrogates /\ z.port \in PortIds /\ z.task # g /\ z.port # p
        BY <2>0, <3>2
      <4> QED BY <1>5, <2>2, <3>1, <4>1 DEF MemberOf
    <3>3. CASE z \notin k.pairs[y]
      <4>1. y = x /\ z = [task |-> g, port |-> p]
        BY <1>5, <2>5, <3>1, <3>3
      <4> QED BY <1>2, <1>5, <2>2, <3>1, <4>1 DEF MemberOf
    <3> QED BY <3>2, <3>3
  <2>6. Members(u)
    BY <2>5 DEF Members
  <2> QED BY <1>6, <1>u, <2>4, <2>6 DEF Good
<1> QED BY <1>8, <1>9

\* A port that a user task owns is not freed when another is passed.
LEMMA PassedKeeps ==
  ASSUME NEW s, Typed(s), NEW p \in PortIds, NEW o \in All, s.owner[p] \in All, NEW u, u = Passed(s, p, o),
         NEW x \in PortIds, x # p, s.owner[x] \in Tasks
  PROVE  u.owner[x] = s.owner[x] /\ u.queue[x] = s.queue[x] /\ u.state[x] = s.state[x]
<1>a. PICK a, old : a = WithOwner(s, p, o) /\ old = s.owner[p]
  OBVIOUS
<1>b. PICK b : b = Parted(a, old, p)
  OBVIOUS
<1>1. Typed(a) /\ Owned(s, a, p, o)
  BY <1>a, OwnerForm
<1>2. a.owner[x] = s.owner[x] /\ a.queue[x] = s.queue[x] /\ a.state[x] = s.state[x]
  BY <1>1 DEF Owned, Keeps
<1>3. LeavesSet(a, b, old, p)
  BY <1>1, <1>b, PartedForm
<1>4. Typed(b) /\ b.owner[x] = s.owner[x] /\ b.queue[x] = s.queue[x] /\ b.state[x] = s.state[x]
  <2>1. CASE b = a
    BY <1>1, <1>2, <2>1
  <2>2. CASE b # a
    <3>1. PICK y \in SetsOf(a, old, p) : \E r \in a.pairs[y] : /\ r.port = p /\ r.task \in Surrogates
                                                                /\ b = Killed(WithPairs(a, y, a.pairs[y] \ {r}), {r.task})
      BY <1>3, <2>2 DEF LeavesSet
    <3>2. PICK r \in a.pairs[y] : r.task \in Surrogates /\ b = Killed(WithPairs(a, y, a.pairs[y] \ {r}), {r.task})
      BY <3>1
    <3>v. PICK v, D : v = WithPairs(a, y, a.pairs[y] \ {r}) /\ D = Living(v, {r.task})
      OBVIOUS
    <3>3. y \in PortIds /\ a.pairs[y] \ {r} \in SUBSET Pairs
      BY <1>1, <3>1 DEF SetsOf, Typed
    <3>4. Typed(v) /\ Paired(a, v, y, a.pairs[y] \ {r})
      BY <1>1, <3>3, <3>v, PairsForm
    <3>5. v.owner = a.owner /\ v.queue = a.queue /\ v.state = a.state
      BY <3>4 DEF Paired, Keeps
    <3>6. b = Killed(v, {r.task}) /\ {r.task} \in SUBSET Surrogates
      BY <3>2, <3>v
    <3>7. Typed(b) /\ Freed(v, b, OwnedBy(v, D)) /\ D \subseteq Surrogates
      BY <3>4, <3>6, <3>v, KilledForm
    <3>8. x \notin OwnedBy(v, D)
      BY <1>2, <3>5, <3>7, Basics DEF OwnedBy
    <3> QED BY <1>2, <3>5, <3>7, <3>8 DEF Freed
  <2> QED BY <2>1, <2>2
<1>5. u = WakeOld(b, old, p)
  BY <1>a, <1>b DEF Passed, WithOwner
<1>6. Keeps(b, u, {"at", "rtoep"})
  BY <1>4, <1>5, <1>a, WakeOldForm
<1> QED BY <1>4, <1>6 DEF Keeps

\* The numbers of the two parts of a queue.
Split(q, S, v, w) ==
  /\ Ids(v) \subseteq Ids(q) /\ Distinct(v) /\ \A j \in DOMAIN v : \E i \in DOMAIN q : v[j] = q[i]
  /\ Ids(w) \subseteq Ids(q) /\ Distinct(w) /\ \A j \in DOMAIN w : \E i \in S : i \in DOMAIN q /\ w[j] = q[i]
  /\ \A i : i \in Ids(w) <=> i \in Ids(q) /\ i \notin Ids(v)

LEMMA SplitIds ==
  ASSUME NEW V, NEW q \in Seq(V), Distinct(q), NEW S \in SUBSET DOMAIN q, NEW v \in Seq(V), NEW w \in Seq(V),
         Thinned(q, v, DOMAIN q \ S), Thinned(q, w, S)
  PROVE  Split(q, S, v, w)
<1>T. PICK T : T = DOMAIN q \ S
  OBVIOUS
<1>0. Thinned(q, v, T)
  BY <1>T
<1>1. Ids(v) = {q[i].mid : i \in T} \ {0}
  BY <1>0, ThinnedIds
<1>2. Ids(v) \subseteq Ids(q) /\ Distinct(v)
  BY <1>0, ThinnedIds
<1>3. \A j \in DOMAIN v : \E i \in T : i \in DOMAIN q /\ v[j] = q[i]
  BY <1>0, ThinnedIds
<1>4. Ids(w) = {q[i].mid : i \in S} \ {0}
  BY ThinnedIds
<1>5. Ids(w) \subseteq Ids(q) /\ Distinct(w)
  BY ThinnedIds
<1>6. \A j \in DOMAIN w : \E i \in S : i \in DOMAIN q /\ w[j] = q[i]
  BY ThinnedIds
<1>7. ASSUME NEW i \in Ids(w) PROVE i \in Ids(q) /\ i \notin Ids(v)
  <2>1. PICK y \in S : q[y].mid = i /\ i # 0
    BY <1>4, <1>7
  <2>2. ASSUME NEW z \in T, q[z].mid = i PROVE FALSE
    BY <1>T, <2>1, <2>2 DEF Distinct
  <2> QED BY <1>1, <1>5, <1>7, <2>2
<1>8. ASSUME NEW i \in Ids(q), i \notin Ids(v) PROVE i \in Ids(w)
  <2>1. PICK y \in DOMAIN q : q[y].mid = i /\ i # 0
    BY <1>8 DEF Ids
  <2> QED BY <1>1, <1>4, <1>T, <1>8, <2>1
<1> QED BY <1>2, <1>3, <1>5, <1>6, <1>7, <1>8 DEF Split

\* The messages that came through p go from the set x back to p.
LEMMA LeftGood ==
  ASSUME world \in Worlds, Happens({"leave"}), NEW s, Good(s), NEW t \in Tasks, s.at[t] = "running",
         NEW x \in PortIds, s.state[x] = "set", s.owner[x] = t, NEW p \in PortIds, s.owner[p] # None \/ Releases,
         NEW q, s.queue[x] = q, NEW S \in SUBSET DOMAIN q, \A i \in S : q[i].org = p,
         NEW v \in Seq(SoundOnes), Thinned(q, v, DOMAIN q \ S), NEW w \in Seq(SoundOnes), Thinned(q, w, S), NEW u, u = Deliver(WithQueue(s, x, v), p, w)
  PROVE  Good(u)
<1>n. PICK n, N : n = s.sent /\ N = 1..n
  OBVIOUS
<1>b. PICK b : b = WithQueue(s, x, v)
  OBVIOUS
<1>1. /\ Typed(s) /\ Tables(s) /\ Members(s) /\ Parts(s, N) /\ OwnMail(s) /\ Safe(s) /\ StaleFree(s)
      /\ q \in Seq(SoundOnes) /\ Distinct(q)
  BY <1>n DEF Good, Tables, Mail, Typed, Parts
<1>2. Split(q, S, v, w)
  BY <1>1, SplitIds
<1>3. /\ Ids(v) \subseteq Ids(q) /\ \A j \in DOMAIN v : \E i \in DOMAIN q : v[j] = q[i]
      /\ Distinct(w) /\ \A j \in DOMAIN w : \E i \in S : i \in DOMAIN q /\ w[j] = q[i]
      /\ \A i : i \in Ids(w) <=> i \in Ids(q) /\ i \notin Ids(v)
  BY <1>2 DEF Split
<1>4. Thinned(s.queue[x], v, DOMAIN q \ S)
  OBVIOUS
<1>6. \A j \in DOMAIN w : w[j].org = p
  BY <1>3
<1>8. Typed(b) /\ Queued(s, b, x, v)
  BY <1>1, <1>b, QueueForm
<1>9. /\ b.at = s.at /\ b.rec = s.rec /\ b.rtoep = s.rtoep /\ b.got = s.got /\ b.target = s.target /\ b.state = s.state
      /\ b.owner = s.owner /\ b.pairs = s.pairs /\ b.received = s.received /\ b.lost = s.lost
      /\ b.abort = s.abort /\ b.sent = n /\ b.media = s.media
      /\ \A r \in PortIds : b.queue[r] = IF r = x THEN v ELSE s.queue[r]
  BY <1>8, <1>n DEF Queued, Keeps
<1>10. Tables(b)
  <2>1. q = <<>> => v = <<>>
    <3>1. q = <<>> => DOMAIN v = {}
      <4>1. q = <<>> => DOMAIN q = {}
        BY <1>1, Places1
      <4> QED BY <1>3, <4>1
    <3> QED BY <3>1, Places1
  <2>2. ASSUME NEW r \in PortIds PROVE OwnerOf(b, r)
    <3>1. OwnerOf(s, r)
      BY <1>1 DEF Tables
    <3> QED BY <1>9, <3>1 DEF OwnerOf
  <2>3. ASSUME NEW y \in All PROVE WaitsWell(b, y)
    <3>1. WaitsWell(s, y)
      BY <1>1 DEF Tables
    <3>2. s.at[y] = "receiving" => b.queue[s.rec[y].port] = <<>>
      BY <1>9, <2>1, <3>1 DEF WaitsWell
    <3> QED BY <1>9, <3>1, <3>2 DEF WaitsWell
  <2>4. (\A y \in Tasks : KeepsStd(b, y)) /\ \A g \in Surrogates : ServesSet(b, g)
    BY <1>1, <1>9 DEF Tables, KeepsStd, ServesSet
  <2> QED BY <1>8, <2>2, <2>3, <2>4 DEF Tables
<1>11. Members(b)
  BY <1>1, <1>9 DEF Members, MemberOf
<1>12. OwnMail(b) /\ Safe(b)
  BY <1>1, <1>9 DEF OwnMail, Safe
<1>13. FirstOnly => \A i \in DOMAIN q : q[i].kind # "timeout"
  BY <1>1 DEF StaleFree
<1>14. StaleFree(b)
  <2>1. ASSUME FirstOnly, NEW r \in PortIds, NEW i \in DOMAIN b.queue[r], b.queue[r][i].kind = "timeout"
        PROVE  /\ i = 1 /\ b.owner[r] \in Tasks /\ b.at[b.owner[r]] = "awake"
               /\ b.rec[b.owner[r]].port = r /\ b.rec[b.owner[r]].mode = "timed"
    <3>1. r # x
      BY <1>3, <1>9, <1>13, <2>1
    <3> QED BY <1>1, <1>9, <2>1, <3>1 DEF StaleFree
  <2> QED BY <1>1, <1>9, <2>1 DEF StaleFree
<1>M. PICK M : M = N \ (Ids(q) \ Ids(v))
  OBVIOUS
<1>15. Parts(b, M)
  BY <1>1, <1>4, <1>9, <1>M, ThinnedParts
<1>16. Ids(q) \subseteq N
  BY <1>1, Seats DEF Parts
<1>17. M \cup Ids(w) = N /\ \A i \in Ids(w) : i \notin M
  BY <1>3, <1>16, <1>M
<1>18. Happens({"leave", "transmit"})
  BY DEF Happens
<1>19. u = Deliver(b, p, w)
  BY <1>b
<1>20. CASE w = <<>>
  <2>1. u = b
    BY <1>19, <1>20 DEF Deliver
  <2>2. Ids(w) = {}
    <3>1. DOMAIN w = {}
      BY <1>20, Places1
    <3> QED BY <3>1 DEF Ids
  <2>3. Parts(u, 1..u.sent)
    <3>1. M = N
      BY <1>17, <2>2
    <3>2. u.sent = n
      BY <1>9, <2>1
    <3> QED BY <1>15, <1>n, <2>1, <3>1, <3>2
  <2> QED BY <1>10, <1>11, <1>12, <1>14, <1>18, <2>1, <2>3 DEF Good, Mail
<1>21. CASE w # <<>>
  <2>1. Typed(u) /\ Delivered(b, u, p, w)
    BY <1>8, <1>19, <1>21, DeliverForm
  <2>2. Tables(u)
    BY <1>10, <2>1, DeliveredTables
  <2>3. Members(u)
    BY <1>11, <2>1, DeliveredMembers
  <2>4. Safe(u)
    BY <1>9, <1>12, <2>1, DeliveredSafe
  <2>5. OwnMail(u)
    BY <1>6, <1>8, <1>12, <2>1, DeliveredOwnMail
  <2>6. StaleFree(u)
    <3>1. FirstOnly => \A i \in DOMAIN w : w[i].kind # "timeout"
      BY <1>3, <1>13
    <3> QED BY <1>8, <1>14, <2>1, <3>1, DeliveredNoStale
  <2>7. Parts(u, 1..u.sent)
    <3>1. Parts(u, M \cup Ids(w))
      BY <1>3, <1>8, <1>15, <1>17, <2>1, DeliveredParts
    <3>2. u.sent = n
      BY <1>9, <2>1 DEF Delivered, Keeps
    <3> QED BY <1>17, <1>n, <3>1, <3>2
  <2> QED BY <1>18, <2>2, <2>3, <2>4, <2>5, <2>6, <2>7 DEF Good, Mail
<1> QED BY <1>20, <1>21

LEMMA LeaveStep == ASSUME IInv, NEW t \in Tasks, NEW x \in PortIds, NEW p \in PortIds, LeavePortSet(t, x, p) PROVE Good(k')
<1>u. PICK u : u = k'
  OBVIOUS
<1>q. PICK q : q = k.queue[x]
  OBVIOUS
<1>S. PICK S : S = {i \in DOMAIN q : q[i].org = p}
  OBVIOUS
<1>s. PICK s : s = IF k.state[p] = "used" /\ Ancestor(k, t, k.owner[p]) THEN Passed(k, p, t) ELSE k
  OBVIOUS
<1>1. /\ Typed(k) /\ Tables(k) /\ Members(k) /\ Mail(k) /\ world \in Worlds /\ t \in All /\ t \notin Surrogates /\ t # None
  BY Basics DEF IInv, Tables
<1>2. /\ k.at[t] = "running" /\ "leave" \in world.calls[t] /\ k.state[x] = "set" /\ k.owner[x] = t
      /\ \E r \in k.pairs[x] : r.port = p
  BY DEF LeavePortSet, May, Runs
<1>v. PICK v, w : v = Part(q, DOMAIN q \ S) /\ w = Part(q, S)
  OBVIOUS
<1>3. u = Deliver(WithQueue(s, x, v), p, w)
  <2>1. k' = Deliver([s EXCEPT !.queue[x] = Part(q, DOMAIN q \ S)], p, Part(q, S))
    BY <1>q, <1>S, <1>s DEF LeavePortSet
  <2> QED BY <1>u, <1>v, <2>1 DEF WithQueue
<1>4. Happens({"leave"})
  BY <1>1, <1>2, Happening
<1>w. /\ S \in SUBSET DOMAIN q /\ \A i \in S : q[i].org = p
      /\ v \in Seq(SoundOnes) /\ Thinned(q, v, DOMAIN q \ S) /\ w \in Seq(SoundOnes) /\ Thinned(q, w, S)
  <2>1. q \in Seq(SoundOnes) /\ S \in SUBSET DOMAIN q /\ DOMAIN q \ S \in SUBSET DOMAIN q
    BY <1>1, <1>q, <1>S DEF Typed
  <2>2. v \in Seq(SoundOnes) /\ Thinned(q, v, DOMAIN q \ S)
    BY <1>v, <2>1, PartThins
  <2>3. w \in Seq(SoundOnes) /\ Thinned(q, w, S)
    BY <1>v, <2>1, PartThins
  <2> QED BY <1>S, <2>1, <2>2, <2>3
<1>5. ASSUME ~Happens({"releaseMember"}) PROVE k.state[p] = "used" /\ Ancestor(k, t, k.owner[p]) /\ k.owner[p] \in Surrogates
  <2>1. PICK r \in k.pairs[x] : r.port = p
    BY <1>2
  <2>2. MemberOf(k, x, r) /\ r.task \in Surrogates
    BY <1>1, <1>5, <2>1 DEF Members, Typed, Pairs
  <2>3. k.owner[p] = r.task /\ k.target[r.task] = x /\ r.task \notin Tasks /\ r.task # None
    BY <2>1, <2>2, Basics DEF MemberOf
  <2>4. k.state[p] = "used"
    BY <1>1, <2>3 DEF Tables, OwnerOf, Typed, PortStates
  <2>5. Home(k, k.owner[p]) = t
    BY <1>2, <2>3 DEF Home
  <2> QED BY <2>2, <2>3, <2>4, <2>5 DEF Ancestor
<1>6. CASE k.state[p] = "used" /\ Ancestor(k, t, k.owner[p])
  <2>1. s = Passed(k, p, t) /\ x # p
    BY <1>2, <1>6, <1>s
  <2>2. p \notin Range(Std)
    BY <1>1, <1>2 DEF Typed, Pairs
  <2>3. k.owner[p] \in All
    BY <1>1, <1>6 DEF Tables, OwnerOf
  <2>4. Tables(s)
    BY <1>1, <1>2, <1>6, <2>1, <2>2, PassedTables
  <2>5. Typed(s) /\ Settles(k, s)
    BY <1>1, <2>1, <2>3, PassedSettles
  <2>6. s.owner[x] = t /\ s.queue[x] = q /\ s.state[x] = "set"
    BY <1>1, <1>2, <1>q, <2>1, <2>3, PassedKeeps
  <2>7. s.at[t] = "running"
    BY <1>2, <2>5 DEF Settles
  <2>8. Members(s) /\ Mail(s) /\ (s.owner[p] # None \/ Releases)
    <3>1. CASE Happens({"releaseMember"})
      <4>1. Releases /\ ~FirstOnly
        BY <3>1 DEF Releases, FirstOnly, Happens
      <4>2. Mail(s)
        BY <1>1, <2>5, <4>1, MailSettles
      <4> QED BY <3>1, <4>1, <4>2 DEF Members
    <3>2. CASE ~Happens({"releaseMember"})
      <4>1. Members(s) /\ Quiet(k, s) /\ \A r \in PortIds : s.owner[r] = IF r = p THEN t ELSE k.owner[r]
        BY <1>1, <1>6, <2>1, <3>2, PassedMembers
      <4>2. k.owner[p] \notin Tasks
        BY <1>5, <3>2, Basics
      <4>3. FirstOnly => \A i \in DOMAIN k.queue[p] : k.queue[p][i].kind # "timeout"
        BY <1>1, <4>2 DEF Mail, StaleFree
      <4>4. FirstOnly => \A r \in PortIds : \/ s.owner[r] = k.owner[r] \/ s.queue[r] = <<>>
                                            \/ \A i \in DOMAIN k.queue[r] : k.queue[r][i].kind # "timeout"
        BY <4>1, <4>3
      <4>5. Mail(s)
        BY <1>1, <2>5, <4>1, <4>4, MailSettles
      <4> QED BY <1>1, <4>1, <4>5
    <3> QED BY <3>1, <3>2
  <2>9. Good(s)
    BY <2>4, <2>8 DEF Good
  <2>10. Good(u)
    <3>1. world \in Worlds /\ s.at[t] = "running" /\ s.state[x] = "set" /\ s.owner[x] = t /\ s.queue[x] = q
      BY <1>1, <2>6, <2>7
    <3>2. s.owner[p] # None \/ Releases
      BY <2>8
    <3> QED BY <1>3, <1>4, <1>w, <2>9, <3>1, <3>2, LeftGood
  <2> QED BY <1>u, <2>10
<1>7. CASE ~(k.state[p] = "used" /\ Ancestor(k, t, k.owner[p]))
  <2>1. s = k
    BY <1>7, <1>s
  <2>2. Releases
    <3>1. Happens({"releaseMember"})
      BY <1>5, <1>7
    <3> QED BY <3>1 DEF Releases, Happens
  <2>3. Good(s)
    BY <1>1, <2>1 DEF Good
  <2>4. Good(u)
    BY <1>1, <1>2, <1>3, <1>4, <1>q, <1>w, <2>1, <2>2, <2>3, LeftGood
  <2> QED BY <1>u, <2>4
<1> QED BY <1>6, <1>7

-----------------------------------------------------------------------------
\* Forwarding.

\* The elements of w are those of c, the first l, and then those of q.
Joins(c, q, w, l) ==
  /\ l \in Nat /\ DOMAIN w \subseteq Nat /\ DOMAIN c = 1..l
  /\ \A i \in DOMAIN c : w[i] = c[i]
  /\ \A i \in DOMAIN w : i \in DOMAIN c \/ (i - l \in DOMAIN q /\ i > l /\ w[i] = q[i - l])

LEMMA Joined == ASSUME NEW V, NEW c \in Seq(V), NEW q \in Seq(V) PROVE \E l : Joins(c, q, c \o q, l)
<1>w. PICK w, l : w = c \o q /\ l = Len(c)
  OBVIOUS
<1>1. /\ \A i \in DOMAIN c : w[i] = c[i]
      /\ \A i \in DOMAIN w : i \in DOMAIN c \/ (i - l \in DOMAIN q /\ i > l /\ w[i] = q[i - l])
  BY <1>w, JoinedIds
<1>2. l \in Nat /\ DOMAIN w \subseteq Nat
  BY <1>w, JoinedIds
<1>3. DOMAIN c = 1..l
  BY <1>w, Places1
<1>4. Joins(c, q, w, l)
  BY <1>1, <1>2, <1>3 DEF Joins
<1> QED BY <1>4, <1>w

\* The messages of p follow those that its set x has got already.
Follow(s, u, p, x) ==
  /\ x # p /\ s.state[x] = "set" /\ s.state[p] = "used" /\ u.state = s.state
  /\ \A i \in DOMAIN s.queue[p] : s.queue[p][i].org = p
  /\ u.queue[p] = <<>> /\ u.queue[x] = s.queue[x] \o s.queue[p]
  /\ \A r \in PortIds : r # p /\ r # x => u.queue[r] = s.queue[r]

LEMMA OrderedForwards ==
  ASSUME NEW s, Typed(s), Ordered(s), NEW p \in PortIds, NEW x \in PortIds, NEW u, Follow(s, u, p, x)
  PROVE  Ordered(u)
<1>0. /\ x # p /\ s.state[x] = "set" /\ s.state[p] = "used" /\ u.state = s.state
      /\ \A i \in DOMAIN s.queue[p] : s.queue[p][i].org = p
      /\ u.queue[p] = <<>> /\ u.queue[x] = s.queue[x] \o s.queue[p]
      /\ \A r \in PortIds : r # p /\ r # x => u.queue[r] = s.queue[r]
  BY DEF Follow
<1>q. PICK c, q, w : c = s.queue[x] /\ q = s.queue[p] /\ w = u.queue[x]
  OBVIOUS
<1>1. PICK l : Joins(c, q, w, l)
  <2>1. c \in Seq(SoundOnes) /\ q \in Seq(SoundOnes)
    BY <1>q DEF Typed
  <2>2. w = c \o q
    BY <1>0, <1>q
  <2>3. \E l : Joins(c, q, c \o q, l)
    BY <2>1, Joined
  <2> QED BY <2>2, <2>3
<1>2. /\ \A i \in DOMAIN c : w[i] = c[i]
      /\ \A i \in DOMAIN w : i \in DOMAIN c \/ (i - l \in DOMAIN q /\ i > l /\ w[i] = q[i - l])
  BY <1>1 DEF Joins
<1>3. l \in Nat /\ DOMAIN w \subseteq Nat /\ DOMAIN c = 1..l
  BY <1>1 DEF Joins
<1>4. ASSUME NEW i \in DOMAIN w, w[i].org # p PROVE i \in DOMAIN c /\ w[i] = c[i]
  BY <1>0, <1>2, <1>4, <1>q
<1>6. ASSUME NEW r \in PortIds, r # p, InOrder(c, r) PROVE InOrder(w, r)
  BY <1>4, <1>6 DEF InOrder
<1>7. ASSUME NEW r \in PortIds PROVE InOrder(u.queue[r], r)
  <2>1. InOrder(s.queue[r], r)
    BY DEF Ordered
  <2>2. CASE r = p
    BY <1>0, <2>2 DEF InOrder
  <2>3. CASE r = x
    BY <1>0, <1>6, <1>q, <2>1, <2>3
  <2>4. CASE r # p /\ r # x
    <3>1. u.queue[r] = s.queue[r]
      BY <1>0, <2>4
    <3> QED BY <2>1, <3>1
  <2> QED BY <2>2, <2>3, <2>4
<1>8. ASSUME NEW r \in PortIds, NEW y \in PortIds \ {r}, u.state[y] = "set"
      PROVE  InOrder(u.queue[y], r) /\ Before(u.queue[y], u.queue[r], r)
  <2>1. InOrder(s.queue[y], r) /\ Before(s.queue[y], s.queue[r], r) /\ y # p
    BY <1>0, <1>8 DEF Ordered
  <2>2. CASE y # x
    <3>1. u.queue[y] = s.queue[y]
      BY <1>0, <1>8, <2>1, <2>2
    <3>2. CASE r = p
      BY <1>0, <2>1, <3>1, <3>2 DEF Before
    <3>3. CASE r = x
      <4>1. Before(s.queue[y], w, r)
        BY <1>0, <1>4, <1>q, <2>1, <3>3 DEF Before
      <4> QED BY <1>q, <2>1, <3>1, <3>3, <4>1
    <3> QED BY <1>0, <2>1, <2>2, <3>1, <3>2, <3>3
  <2>3. CASE y = x /\ r # p
    <3>1. InOrder(w, r)
      BY <1>6, <1>q, <2>1, <2>3
    <3>2. Before(w, s.queue[r], r)
      BY <1>4, <1>q, <2>1, <2>3 DEF Before
    <3>3. u.queue[r] = s.queue[r]
      BY <1>0, <1>8, <2>3
    <3> QED BY <1>q, <2>3, <3>1, <3>2, <3>3
  <2>4. CASE y = x /\ r = p
    <3>1. InOrder(c, p) /\ Before(c, q, p)
      BY <1>q, <2>1, <2>4
    <3>2. InOrder(q, p)
      BY <1>q DEF Ordered
    <3>3. ASSUME NEW i \in DOMAIN w, NEW j \in DOMAIN w, i < j, w[i].org = p, w[j].org = p PROVE Older(w[i], w[j])
      <4>0. i \in Nat /\ j \in Nat
        BY <1>3
      <4>1. CASE j \in DOMAIN c
        <5>1. i \in DOMAIN c
          BY <1>2, <1>3, <3>3, <4>0, <4>1
        <5>2. w[i] = c[i] /\ w[j] = c[j]
          BY <1>2, <4>1, <5>1
        <5> QED BY <3>1, <3>3, <4>1, <5>1, <5>2 DEF InOrder
      <4>2. CASE j \notin DOMAIN c /\ i \in DOMAIN c
        <5>1. j - l \in DOMAIN q /\ w[j] = q[j - l] /\ w[i] = c[i]
          BY <1>2, <4>2
        <5> QED BY <3>1, <3>3, <4>2, <5>1 DEF Before
      <4>3. CASE j \notin DOMAIN c /\ i \notin DOMAIN c
        <5>1. j - l \in DOMAIN q /\ w[j] = q[j - l] /\ i - l \in DOMAIN q /\ w[i] = q[i - l]
          BY <1>2, <4>3
        <5>2. i - l < j - l
          BY <1>3, <3>3, <4>0
        <5> QED BY <3>2, <3>3, <5>1, <5>2 DEF InOrder
      <4> QED BY <4>1, <4>2, <4>3
    <3>4. InOrder(w, p)
      BY <3>3 DEF InOrder
    <3>5. Before(w, <<>>, p)
      BY DEF Before
    <3> QED BY <1>0, <1>q, <2>4, <3>4, <3>5
  <2> QED BY <2>2, <2>3, <2>4
<1> QED BY <1>7, <1>8 DEF Ordered

\* The surrogate g waits again at p, whose messages q are in the set x.
Forwarded(s, u, g, p, x, q) ==
  /\ Keeps(s, u, {"at", "rtoep", "queue"})
  /\ u.queue[p] = <<>> /\ u.queue[x] = s.queue[x] \o q
  /\ \A r \in PortIds : r # p /\ r # x => u.queue[r] = s.queue[r]
  /\ u.at[g] = "receiving" /\ u.rtoep[g] = s.rtoep[g]
  /\ \A t \in All : t # g => IF q # <<>> /\ t = s.owner[x] /\ Waits(s, t, x)
                             THEN u.at[t] = "awake" /\ u.rtoep[t] = FALSE
                             ELSE u.at[t] = s.at[t] /\ u.rtoep[t] = s.rtoep[t]

LEMMA WaitOnForm ==
  ASSUME NEW s, Typed(s), NEW g \in All, NEW u, u = WaitOn(s, g)
  PROVE  Typed(u) /\ Keeps(s, u, {"at"}) /\ \A t \in All : u.at[t] = IF t = g THEN "receiving" ELSE s.at[t]
<1>a. PICK new1 : new1 = [s.at EXCEPT ![g] = "receiving"]
  OBVIOUS
<1>1. u = [at |-> new1, rec |-> s.rec, rtoep |-> s.rtoep, got |-> s.got, target |-> s.target, state |-> s.state, owner |-> s.owner, queue |-> s.queue, pairs |-> s.pairs, media |-> s.media, sent |-> s.sent, received |-> s.received, lost |-> s.lost, abort |-> s.abort]
  BY <1>a DEF WaitOn, Typed, Shape
<1>2. Shape(u) /\ Keeps(s, u, {"at"}) /\ u.at = new1
  BY <1>1 DEF Shape, Keeps
<1>3. new1 \in [All -> AtStates] /\ \A t \in All : new1[t] = IF t = g THEN "receiving" ELSE s.at[t]
  BY <1>a DEF Typed, AtStates
<1>4. Typed(u)
  BY <1>2, <1>3 DEF Typed, Keeps
<1> QED BY <1>2, <1>3, <1>4

\* A surrogate is not the receiver at its set.
LEMMA ForwardedForm ==
  ASSUME NEW s, Typed(s), NEW N, Parts(s, N), NEW g \in Surrogates, NEW p \in PortIds, NEW x \in PortIds, x # p,
         s.owner[x] \in Tasks, NEW q, q = s.queue[p],
         NEW u, u = WaitOn(Deliver(WithQueue(s, p, <<>>), x, q), g)
  PROVE  Typed(u) /\ Forwarded(s, u, g, p, x, q) /\ Parts(u, N)
<1>b. PICK b : b = WithQueue(s, p, <<>>)
  OBVIOUS
<1>c. PICK c : c = Deliver(b, x, q)
  OBVIOUS
<1>1. <<>> \in Seq(SoundOnes) /\ q \in Seq(SoundOnes) /\ Distinct(q) /\ g \in All /\ s.owner[x] # None /\ s.owner[x] # g
  <2>1. <<>> \in Seq(SoundOnes) /\ q \in Seq(SoundOnes) /\ Distinct(q)
    BY DEF Typed, Parts
  <2> QED BY <2>1, Basics
<1>2. Typed(b) /\ Queued(s, b, p, <<>>)
  BY <1>1, <1>b, QueueForm
<1>3. /\ Keeps(s, b, {"queue"}) /\ b.queue[p] = <<>> /\ b.queue[x] = s.queue[x]
      /\ \A r \in PortIds : r # p => b.queue[r] = s.queue[r]
  BY <1>2 DEF Queued
<1>4. /\ b.media = s.media /\ b.received = s.received /\ b.lost = s.lost /\ b.owner = s.owner /\ b.at = s.at /\ b.rec = s.rec
      /\ b.rtoep = s.rtoep
  BY <1>3 DEF Keeps
<1>5. Ids(<<>>) = {} /\ Thinned(q, <<>>, {})
  <2>1. DOMAIN <<>> = {}
    OBVIOUS
  <2>2. PICK f : f = [n \in {} |-> n]
    OBVIOUS
  <2>3. f \in [DOMAIN <<>> -> {}]
    BY <2>1, <2>2
  <2>4. Thinned(q, <<>>, {})
    BY <2>1, <2>3 DEF Thinned
  <2> QED BY <2>1, <2>4 DEF Ids
<1>6. Ids(q) \subseteq N
  BY Seats DEF Parts
<1>M. PICK M : M = N \ Ids(q)
  OBVIOUS
<1>7. Parts(b, M)
  <2>1. Parts(b, N \ (Ids(s.queue[p]) \ Ids(<<>>)))
    BY <1>1, <1>3, <1>4, <1>5, ThinnedParts
  <2>2. N \ (Ids(s.queue[p]) \ Ids(<<>>)) = M
    BY <1>5, <1>M
  <2> QED BY <2>1, <2>2
<1>8. /\ Typed(c) /\ Parts(c, N) /\ Keeps(b, c, {"at", "rtoep", "queue"}) /\ c.queue[x] = b.queue[x] \o q
      /\ \A r \in PortIds : r # x => c.queue[r] = b.queue[r]
      /\ \A t \in All : IF q # <<>> /\ t = s.owner[x] /\ Waits(s, t, x)
                        THEN c.at[t] = "awake" /\ c.rtoep[t] = FALSE
                        ELSE c.at[t] = s.at[t] /\ c.rtoep[t] = s.rtoep[t]
  <2>1. CASE q = <<>>
    <3>1. c = b
      BY <1>c, <2>1 DEF Deliver
    <3>2. M = N
      BY <1>5, <1>M, <2>1
    <3>3. b.queue[x] = b.queue[x] \o q
      BY <1>2, <2>1, ConcatEmptySeq DEF Typed
    <3> QED BY <1>2, <1>4, <1>7, <2>1, <3>1, <3>2, <3>3 DEF Keeps
  <2>2. CASE q # <<>>
    <3>1. Typed(c) /\ Delivered(b, c, x, q)
      BY <1>1, <1>2, <1>c, <2>2, DeliverForm
    <3>2. Parts(c, N)
      <4>1. \A i \in Ids(q) : i \notin M
        BY <1>M
      <4>2. Parts(c, M \cup Ids(q))
        BY <1>1, <1>2, <1>7, <3>1, <4>1, DeliveredParts
      <4>3. M \cup Ids(q) = N
        BY <1>6, <1>M
      <4> QED BY <4>2, <4>3
    <3>3. /\ Keeps(b, c, {"at", "rtoep", "queue", "lost"}) /\ c.lost = b.lost /\ c.queue[x] = b.queue[x] \o q
          /\ \A r \in PortIds : r # x => c.queue[r] = b.queue[r]
      BY <1>1, <1>4, <3>1 DEF Delivered
    <3>4. Keeps(b, c, {"at", "rtoep", "queue"})
      BY <3>3 DEF Keeps
    <3>5. ASSUME NEW t \in All PROVE IF t = s.owner[x] /\ Waits(s, t, x)
                        THEN c.at[t] = "awake" /\ c.rtoep[t] = FALSE
                        ELSE c.at[t] = s.at[t] /\ c.rtoep[t] = s.rtoep[t]
      <4>1. IF t = b.owner[x] /\ Waits(b, t, x) THEN c.at[t] = "awake" /\ c.rtoep[t] = FALSE
                                                ELSE c.at[t] = b.at[t] /\ c.rtoep[t] = b.rtoep[t]
        BY <1>1, <1>4, <3>1 DEF Delivered
      <4>2. Waits(b, t, x) <=> Waits(s, t, x)
        BY <1>4 DEF Waits
      <4>3. CASE t = s.owner[x] /\ Waits(s, t, x)
        BY <1>4, <4>1, <4>2, <4>3
      <4>4. CASE ~(t = s.owner[x] /\ Waits(s, t, x))
        BY <1>4, <4>1, <4>2, <4>4
      <4> QED BY <4>3, <4>4, Zenon
    <3> QED BY <2>2, <3>1, <3>2, <3>3, <3>4, <3>5
  <2> QED BY <2>1, <2>2
<1>9. u = WaitOn(c, g)
  BY <1>b, <1>c
<1>10. Typed(u) /\ Keeps(c, u, {"at"}) /\ \A t \in All : u.at[t] = IF t = g THEN "receiving" ELSE c.at[t]
  BY <1>1, <1>8, <1>9, WaitOnForm
<1>11. u.queue = c.queue /\ u.media = c.media /\ u.received = c.received /\ u.lost = c.lost /\ u.rtoep = c.rtoep
  BY <1>10 DEF Keeps
<1>12. Parts(u, N)
  BY <1>8, <1>11, PartsKept
<1>13. Keeps(s, u, {"at", "rtoep", "queue"})
  <2>1. Keeps(s, c, {"at", "rtoep", "queue"})
    BY <1>3, <1>8 DEF Keeps
  <2> QED BY <1>10, <2>1 DEF Keeps
<1>14. u.at[g] = "receiving" /\ u.rtoep[g] = s.rtoep[g]
  BY <1>1, <1>8, <1>10, <1>11
<1>15. \A t \in All : t # g => IF q # <<>> /\ t = s.owner[x] /\ Waits(s, t, x)
                               THEN u.at[t] = "awake" /\ u.rtoep[t] = FALSE
                               ELSE u.at[t] = s.at[t] /\ u.rtoep[t] = s.rtoep[t]
  BY <1>8, <1>10, <1>11
<1>16. u.queue[p] = <<>> /\ u.queue[x] = s.queue[x] \o q /\ \A r \in PortIds : r # p /\ r # x => u.queue[r] = s.queue[r]
  BY <1>3, <1>8, <1>11
<1> QED BY <1>10, <1>12, <1>13, <1>14, <1>15, <1>16 DEF Forwarded

\* The surrogate of a member of x forwards what there is.
LEMMA ForwardedGood ==
  ASSUME IInv, NEW g \in Surrogates, NEW p, NEW x, k.at[g] = "awake", k.rec[g].port = p, k.target[g] = x, k.owner[p] = g,
         NEW q, q = k.queue[p], NEW u, u = WaitOn(Deliver(WithQueue(k, p, <<>>), x, q), g)
  PROVE  Good(u)
<1>n. PICK n : n = k.sent
  OBVIOUS
<1>1. /\ Typed(k) /\ Tables(k) /\ Members(k) /\ Parts(k, 1..n) /\ OwnMail(k) /\ Safe(k) /\ StaleFree(k)
      /\ (~Happens({"leave", "transmit"}) => Ordered(k)) /\ world \in Worlds
      /\ g \in All /\ g \notin Tasks /\ g # None
  BY <1>n, Basics DEF IInv, Tables, Mail
<1>2. p \in PortIds /\ x \in PortIds /\ k.state[x] = "set" /\ ServesSet(k, g) /\ OwnerOf(k, x) /\ OwnerOf(k, p) /\ WaitsWell(k, g)
  BY <1>1 DEF Tables, ServesSet
<1>3. k.owner[x] \in Tasks /\ k.state[p] = "used" /\ x # p /\ k.rtoep[g] = FALSE
  BY <1>1, <1>2 DEF OwnerOf, WaitsWell, Typed, PortStates
<1>4. \A i \in DOMAIN q : q[i].org = p
  BY <1>1, <1>2, <1>3 DEF OwnMail
<1>5. Typed(u) /\ Forwarded(k, u, g, p, x, q) /\ Parts(u, 1..n)
  BY <1>1, <1>2, <1>3, ForwardedForm
<1>6. /\ u.rec = k.rec /\ u.got = k.got /\ u.target = k.target /\ u.state = k.state /\ u.owner = k.owner /\ u.pairs = k.pairs
      /\ u.media = k.media /\ u.sent = n /\ u.received = k.received /\ u.lost = k.lost /\ u.abort = k.abort
  BY <1>5, <1>n DEF Forwarded, Keeps
<1>7. /\ u.queue[p] = <<>> /\ u.queue[x] = k.queue[x] \o q
      /\ \A r \in PortIds : r # p /\ r # x => u.queue[r] = k.queue[r]
      /\ u.at[g] = "receiving" /\ u.rtoep[g] = FALSE
  BY <1>3, <1>5 DEF Forwarded
<1>8. ASSUME NEW t \in All, t # g
      PROVE  \/ u.at[t] = k.at[t] /\ u.rtoep[t] = k.rtoep[t] /\ ~(q # <<>> /\ t = k.owner[x] /\ Waits(k, t, x))
             \/ u.at[t] = "awake" /\ u.rtoep[t] = FALSE /\ t = k.owner[x] /\ Waits(k, t, x)
  BY <1>5, <1>8 DEF Forwarded
<1>9. \A t \in All : t # g => u.at[t] = k.at[t] \/ (u.at[t] = "awake" /\ k.at[t] = "receiving" /\ t = k.owner[x])
  BY <1>8 DEF Waits
<1>10. Tables(u)
  <2>1. ASSUME NEW r \in PortIds PROVE OwnerOf(u, r)
    <3>1. OwnerOf(k, r)
      BY <1>1 DEF Tables
    <3>2. k.state[r] = "free" => u.queue[r] = k.queue[r]
      BY <1>2, <1>3, <1>7
    <3>3. k.owner[r] \in All /\ k.at[k.owner[r]] # "free" => u.at[k.owner[r]] # "free"
      BY <1>7, <1>9
    <3> QED BY <1>6, <3>1, <3>2, <3>3 DEF OwnerOf
  <2>2. ASSUME NEW t \in Tasks PROVE KeepsStd(u, t)
    <3>1. KeepsStd(k, t) /\ t \in All /\ t # g
      BY <1>1, Basics DEF Tables
    <3>2. u.at[t] # "free"
      BY <1>9, <3>1 DEF KeepsStd
    <3> QED BY <1>6, <3>1, <3>2 DEF KeepsStd
  <2>3. ASSUME NEW h \in Surrogates PROVE ServesSet(u, h)
    <3>1. ServesSet(k, h) /\ h \in All /\ h # k.owner[x]
      BY <1>1, <1>3, Basics DEF Tables
    <3>2. CASE h = g
      BY <1>1, <1>2, <1>6, <1>7, <3>2 DEF ServesSet
    <3>3. CASE h # g
      <4>1. u.at[h] = k.at[h]
        BY <1>9, <3>1, <3>3
      <4> QED BY <1>6, <3>1, <4>1 DEF ServesSet
    <3> QED BY <3>2, <3>3
  <2>4. ASSUME NEW t \in All PROVE WaitsWell(u, t)
    <3>1. WaitsWell(k, t)
      BY <1>1 DEF Tables
    <3>2. CASE t = g
      BY <1>2, <1>6, <1>7, <3>2 DEF WaitsWell
    <3>3. CASE t # g /\ u.at[t] = "awake" /\ u.rtoep[t] = FALSE /\ Waits(k, t, x)
      BY <1>2, <1>6, <3>3 DEF WaitsWell, Waits
    <3>4. CASE t # g /\ u.at[t] = k.at[t] /\ u.rtoep[t] = k.rtoep[t] /\ ~(q # <<>> /\ t = k.owner[x] /\ Waits(k, t, x))
      <4>1. ASSUME k.at[t] = "receiving" PROVE u.queue[k.rec[t].port] = <<>>
        <5>1. k.rec[t].port \in PortIds /\ k.owner[k.rec[t].port] = t /\ k.queue[k.rec[t].port] = <<>>
          BY <3>1, <4>1 DEF WaitsWell
        <5>2. k.rec[t].port # p
          BY <3>4, <5>1
        <5>3. CASE k.rec[t].port # x
          BY <1>7, <5>1, <5>2, <5>3
        <5>4. CASE k.rec[t].port = x
          <6>1. q = <<>>
            BY <3>4, <4>1, <5>1, <5>4 DEF Waits
          <6>2. u.queue[x] = <<>> \o <<>>
            BY <1>7, <5>1, <5>4, <6>1
          <6>3. <<>> \o <<>> = <<>>
            BY ConcatEmptySeq
          <6> QED BY <5>4, <6>2, <6>3
        <5> QED BY <5>3, <5>4
      <4> QED BY <1>6, <3>1, <3>4, <4>1 DEF WaitsWell
    <3> QED BY <1>8, <3>2, <3>3, <3>4
  <2> QED BY <1>5, <2>1, <2>2, <2>3, <2>4 DEF Tables
<1>11. Members(u)
  BY <1>1, <1>6 DEF Members, MemberOf
<1>12. Safe(u)
  <2>1. Safe(k)
    BY <1>1
  <2>2. u.media = k.media /\ u.state = k.state /\ u.lost = k.lost /\ u.abort = k.abort
    BY <1>6
  <2> QED BY <2>1, <2>2 DEF Safe
<1>13. OwnMail(u)
  <2> SUFFICES ASSUME NEW r \in PortIds, u.state[r] = "used", NEW i \in DOMAIN u.queue[r] PROVE u.queue[r][i].org = r
    BY DEF OwnMail
  <2>1. r # x /\ k.state[r] = "used"
    BY <1>2, <1>6
  <2>2. r # p
    BY <1>7
  <2> QED BY <1>1, <1>7, <2>1, <2>2 DEF OwnMail
<1>14. StaleFree(u)
  <2>1. \A t \in All : u.rec[t].discipline \in world.disciplines \cup {"FIFO"}
    BY <1>1, <1>6 DEF StaleFree
  <2>2. ASSUME FirstOnly, NEW r \in PortIds, NEW i \in DOMAIN u.queue[r], u.queue[r][i].kind = "timeout"
        PROVE  i \in DOMAIN k.queue[r] /\ k.queue[r][i].kind = "timeout"
    <3>1. r # p
      BY <1>7, <2>2
    <3>2. CASE r # x
      BY <1>2, <1>7, <2>2, <3>1, <3>2
    <3>3. CASE r = x
      <4>1. \A j \in DOMAIN q : q[j].kind # "timeout"
        BY <1>1, <1>2, <2>2 DEF StaleFree
      <4>2. k.queue[x] \in Seq(SoundOnes) /\ q \in Seq(SoundOnes)
        BY <1>1, <1>2 DEF Typed
      <4>3. PICK l : Joins(k.queue[x], q, k.queue[x] \o q, l)
        BY <4>2, Joined
      <4>4. Joins(k.queue[x], q, u.queue[x], l)
        BY <1>7, <4>3
      <4> QED BY <2>2, <3>3, <4>1, <4>4 DEF Joins
    <3> QED BY <3>2, <3>3
  <2>3. ASSUME FirstOnly, NEW r \in PortIds, NEW i \in DOMAIN u.queue[r], u.queue[r][i].kind = "timeout"
        PROVE  /\ i = 1 /\ u.owner[r] \in Tasks /\ u.at[u.owner[r]] = "awake"
               /\ u.rec[u.owner[r]].port = r /\ u.rec[u.owner[r]].mode = "timed"
    <3>1. /\ i = 1 /\ k.owner[r] \in Tasks /\ k.at[k.owner[r]] = "awake"
          /\ k.rec[k.owner[r]].port = r /\ k.rec[k.owner[r]].mode = "timed"
      BY <1>1, <2>2, <2>3 DEF StaleFree
    <3>2. u.at[k.owner[r]] = "awake"
      BY <1>1, <1>9, <3>1, Basics
    <3> QED BY <1>6, <3>1, <3>2
  <2>4. ASSUME FirstOnly, NEW t \in Tasks, u.at[t] = "running", u.got[t] = "timeout" PROVE u.rec[t].mode # "never"
    <3>1. k.at[t] = "running"
      BY <1>1, <1>9, <2>4, Basics
    <3> QED BY <1>1, <1>6, <2>4, <3>1 DEF StaleFree
  <2> QED BY <2>1, <2>3, <2>4 DEF StaleFree
<1>15. Ordered(k) => Ordered(u)
  <2>1. ASSUME Ordered(k) PROVE Ordered(u)
    <3>1. u.queue[x] = k.queue[x] \o k.queue[p] /\ \A i \in DOMAIN k.queue[p] : k.queue[p][i].org = p
      BY <1>4, <1>7
    <3>2. u.state = k.state /\ k.state[x] = "set" /\ k.state[p] = "used" /\ x # p /\ p \in PortIds /\ x \in PortIds /\ Typed(k)
      BY <1>1, <1>2, <1>3, <1>6
    <3>3. u.queue[p] = <<>> /\ \A r \in PortIds : r # p /\ r # x => u.queue[r] = k.queue[r]
      BY <1>7
    <3>4. Follow(k, u, p, x)
      BY <3>1, <3>2, <3>3 DEF Follow
    <3> QED BY <2>1, <3>2, <3>4, OrderedForwards
  <2> QED BY <2>1
<1>16. Parts(u, 1..u.sent)
  BY <1>5, <1>6
<1> QED BY <1>1, <1>10, <1>11, <1>12, <1>13, <1>14, <1>15, <1>16 DEF Good, Mail

\* A surrogate that has lost its port dies: only a member that was released or
\* left its set loses it.
LEMMA ForwardStep == ASSUME IInv, NEW g \in Surrogates, Forward(g) PROVE Good(k')
<1>u. PICK u : u = k'
  OBVIOUS
<1>p. PICK p, x, q : p = k.rec[g].port /\ x = k.target[g] /\ q = k.queue[p]
  OBVIOUS
<1>1. Typed(k) /\ Tables(k) /\ Members(k) /\ Mail(k) /\ g \in All /\ g \notin Tasks /\ g # None
  <2>1. Tables(k) /\ Members(k) /\ Mail(k)
    BY DEF IInv
  <2>2. Typed(k)
    BY <2>1 DEF Tables
  <2> QED BY <2>1, <2>2, Basics
<1>2. k.at[g] = "awake"
  BY DEF Forward
<1>3. p \in PortIds /\ x \in PortIds /\ [task |-> g, port |-> p] \in k.pairs[x] /\ k.state[x] = "set"
  BY <1>1, <1>2, <1>p DEF Tables, ServesSet
<1>4. CASE k.owner[p] = g
  <2>1. q \in Seq(SoundOnes) /\ OwnerOf(k, p)
    BY <1>1, <1>3, <1>p DEF Typed, Tables
  <2>2. k.state[p] = "used"
    BY <1>1, <1>3, <1>4, <2>1 DEF OwnerOf, Typed, PortStates
  <2>3. ASSUME NEW i \in DOMAIN q PROVE [q[i] EXCEPT !.org = p] = q[i]
    <3>1. q[i] \in Messages
      <4>1. q[i] \in SoundOnes
        BY <2>1, Places1
      <4> QED BY <4>1 DEF SoundOnes
    <3>2. q[i].org = p
      BY <1>1, <1>3, <1>p, <2>2 DEF Mail, OwnMail
    <3> QED BY <3>1, <3>2 DEF Messages
  <2>4. [i \in DOMAIN q |-> [q[i] EXCEPT !.org = p]] = q
    <3>1. q = [i \in DOMAIN q |-> q[i]]
      <4>1. PICK n \in Nat : q \in [1..n -> SoundOnes]
        BY <2>1, SeqDef
      <4> QED BY <4>1
    <3>2. [i \in DOMAIN q |-> [q[i] EXCEPT !.org = p]] = [i \in DOMAIN q |-> q[i]]
      BY <2>3
    <3> QED BY <3>1, <3>2
  <2>5. u = [Deliver([k EXCEPT !.queue[p] = <<>>], x, [i \in DOMAIN q |-> [q[i] EXCEPT !.org = p]]) EXCEPT !.at[g] = "receiving"]
    BY <1>4, <1>p, <1>u DEF Forward
  <2>6. u = WaitOn(Deliver(WithQueue(k, p, <<>>), x, q), g)
    BY <2>4, <2>5 DEF WaitOn, WithQueue
  <2>7. Good(u)
    BY <1>2, <1>4, <1>p, <2>6, ForwardedGood
  <2> QED BY <1>u, <2>7
<1>5. CASE k.owner[p] # g
  <2>1. u = Killed(k, {g}) /\ {g} \in SUBSET Surrogates
    BY <1>5, <1>p, <1>u DEF Forward
  <2>2. Happens({"releaseMember"})
    <3> SUFFICES ASSUME ~Happens({"releaseMember"}) PROVE FALSE
      OBVIOUS
    <3>1. PICK z : z = [task |-> g, port |-> p]
      OBVIOUS
    <3>2. MemberOf(k, x, z)
      BY <1>1, <1>3, <3>1 DEF Members
    <3> QED BY <1>5, <3>1, <3>2 DEF MemberOf
  <2>3. Releases /\ ~FirstOnly
    BY <2>2 DEF Releases, FirstOnly, Happens
  <2>4. Typed(u) /\ Settles(k, u)
    BY <1>1, <2>1, KilledSettles
  <2>5. Mail(u)
    BY <1>1, <2>3, <2>4, MailSettles
  <2>6. Members(u)
    BY <2>2 DEF Members
  <2>7. TablesBut(k, {g}, None, None)
    BY <1>1, TablesDone
  <2>8. TablesBut(u, {}, None, None)
    BY <2>1, <2>7, KilledTables
  <2>9. Tables(u)
    BY <2>8, Basics DEF TablesBut, Tables
  <2>10. Good(u)
    BY <2>5, <2>6, <2>9 DEF Good
  <2> QED BY <1>u, <2>10
<1> QED BY <1>4, <1>5

-----------------------------------------------------------------------------
\* The invariant, and what it says of the properties the runs check.
LEMMA InitGood == ASSUME Init PROVE IInv
<1>1. world \in Worlds
  BY DEF Init
<1>o. PICK at0, rec0, owner0, state0 :
        /\ at0 = [t \in All |-> IF t \in Tasks THEN "running" ELSE "free"]
        /\ rec0 = [t \in All |-> NoReceive]
        /\ owner0 = [p \in PortIds |-> IF p \in Range(Std) THEN Inverse(Std, Tasks, PortIds)[p] ELSE None]
        /\ state0 = [p \in PortIds |-> IF p \in Range(Std) THEN "used" ELSE "free"]
  OBVIOUS
<1>2. k = [at |-> at0, rec |-> rec0, rtoep |-> [t \in All |-> FALSE],
           got |-> [t \in All |-> "nothing"], target |-> [g \in Surrogates |-> None],
           state |-> state0, owner |-> owner0,
           queue |-> [p \in PortIds |-> <<>>], pairs |-> [p \in PortIds |-> {}],
           media |-> [m \in Media |-> <<>>],
           sent |-> 0, received |-> {}, lost |-> {}, abort |-> None]
  BY <1>o DEF Init
<1>3. /\ k.at = at0 /\ k.rec = rec0 /\ k.rtoep = [t \in All |-> FALSE] /\ k.got = [t \in All |-> "nothing"]
      /\ k.target = [g \in Surrogates |-> None] /\ k.state = state0 /\ k.owner = owner0
      /\ k.queue = [p \in PortIds |-> <<>>] /\ k.pairs = [p \in PortIds |-> {}] /\ k.media = [m \in Media |-> <<>>]
      /\ k.sent = 0 /\ k.received = {} /\ k.lost = {} /\ k.abort = None /\ Shape(k)
  BY <1>2 DEF Shape
<1>4. ASSUME NEW t \in Tasks PROVE owner0[Std[t]] = t /\ Std[t] \in PortIds /\ state0[Std[t]] = "used"
  <2>1. Std[t] \in PortIds /\ Std[t] \in Range(Std)
    BY Basics
  <2>2. owner0[Std[t]] = CHOOSE s \in Tasks : Std[t] \in Range(Std) => Std[s] = Std[t]
    BY <1>o, <2>1 DEF Inverse
  <2>3. \A s \in Tasks : Std[s] = Std[t] => s = t
    BY Basics
  <2> QED BY <1>o, <2>1, <2>2, <2>3
<1>5. ASSUME NEW p \in PortIds
      PROVE  \/ state0[p] = "free" /\ owner0[p] = None
             \/ state0[p] = "used" /\ owner0[p] \in Tasks
  <2>1. CASE p \in Range(Std)
    <3>1. PICK t \in Tasks : Std[t] = p
      BY <2>1, Basics
    <3> QED BY <1>4, <3>1
  <2>2. CASE p \notin Range(Std)
    BY <1>o, <2>2
  <2> QED BY <2>1, <2>2
<1>6. Typed(k)
  <2>1. at0 \in [All -> AtStates] /\ rec0 \in [All -> Receives]
    BY <1>o DEF AtStates, Receives, NoReceive, Disciplines, Modes
  <2>2. state0 \in [PortIds -> PortStates] /\ owner0 \in [PortIds -> All \cup {None}]
    BY <1>5, <1>o DEF PortStates, All
  <2>3. <<>> \in Seq(SoundOnes) /\ <<>> \in Seq(Carried)
    BY EmptySeq
  <2>4. 0 \in 0..MaxSent
    BY Basics
  <2>5. k.queue \in [PortIds -> Seq(SoundOnes)] /\ k.media \in [Media -> Seq(Carried)] /\ k.pairs \in [PortIds -> SUBSET Pairs]
    BY <1>3, <2>3
  <2>6. k.rtoep \in [All -> BOOLEAN] /\ k.got \in [All -> Kinds] /\ k.target \in [Surrogates -> PortIds \cup {None}]
    BY <1>3 DEF Kinds
  <2> QED BY <1>3, <2>1, <2>2, <2>4, <2>5, <2>6 DEF Typed
<1>7. \A t \in All : k.at[t] = (IF t \in Tasks THEN "running" ELSE "free") /\ k.rec[t] = NoReceive /\ k.rtoep[t] = FALSE /\ k.got[t] = "nothing"
  BY <1>3, <1>o
<1>8. \A p \in PortIds : k.queue[p] = <<>> /\ k.pairs[p] = {}
  BY <1>3
<1>9. Tables(k)
  <2>1. ASSUME NEW p \in PortIds PROVE OwnerOf(k, p)
    BY <1>3, <1>5, <1>7, <1>8, Basics DEF OwnerOf
  <2>2. ASSUME NEW t \in Tasks PROVE KeepsStd(k, t)
    BY <1>3, <1>4, <1>7, Basics DEF KeepsStd
  <2>3. ASSUME NEW g \in Surrogates PROVE ServesSet(k, g)
    BY <1>3, <1>7, Basics DEF ServesSet
  <2>4. ASSUME NEW t \in All PROVE WaitsWell(k, t)
    BY <1>7 DEF WaitsWell
  <2> QED BY <1>6, <2>1, <2>2, <2>3, <2>4 DEF Tables
<1>10. Members(k)
  BY <1>8 DEF Members
<1>11. /\ \A p \in PortIds : k.queue[p] = <<>> /\ DOMAIN k.queue[p] = {} /\ Ids(k.queue[p]) = {}
       /\ \A m \in Media : k.media[m] = <<>> /\ DOMAIN k.media[m] = {} /\ Ids(k.media[m]) = {}
  <2>1. DOMAIN <<>> = {} /\ Ids(<<>>) = {}
    BY DEF Ids
  <2> QED BY <1>3, <2>1
<1>12. Parts(k, 1..k.sent)
  <2>1. \A a \in Places : Held(k, a) = {}
    BY <1>3, <1>11, Seats
  <2>2. 1..k.sent = {}
    BY <1>3
  <2>3. (\A p \in PortIds : Distinct(k.queue[p])) /\ \A m \in Media : Distinct(k.media[m])
    BY <1>11 DEF Distinct
  <2> QED BY <2>1, <2>2, <2>3 DEF Parts
<1>13. OwnMail(k) /\ Safe(k)
  BY <1>3, <1>11 DEF OwnMail, Safe
<1>14. StaleFree(k)
  BY <1>7, <1>11, Basics DEF StaleFree, NoReceive
<1>15. Ordered(k)
  BY <1>11 DEF Ordered, InOrder, Before
<1>16. Mail(k)
  BY <1>12, <1>13, <1>14, <1>15 DEF Mail
<1> QED BY <1>1, <1>9, <1>10, <1>16 DEF IInv

LEMMA CallGood == ASSUME IInv, NEW t \in Tasks, Call(t) PROVE Good(k')
<1>w. world \in Worlds /\ \A p \in world.ports : p \in PortIds
  BY WorldBasics DEF IInv
<1>1. CASE Broadcast(t)
  BY <1>1, BroadcastStep
<1>2. ASSUME NEW p \in world.ports, NEW pri \in world.priorities,
             SendPriority(t, p, pri) \/ Resend(t, p, pri) \/ \E m \in Media : Transmit(t, m, p, pri)
      PROVE  Good(k')
  BY <1>w, <1>2, SendPriorityStep, ResendStep, TransmitStep
<1>3. ASSUME NEW p \in world.ports, NEW discipline \in Disciplines, NEW mode \in Modes, Receive(t, p, discipline, mode)
      PROVE  Good(k')
  BY <1>w, <1>3, ReceiveStep
<1>4. ASSUME NEW p \in world.ports, NEW u \in Tasks, Pass(t, p, u) PROVE Good(k')
  BY <1>w, <1>4, PassStep
<1>5. ASSUME NEW p \in world.ports, Allocate(t, p, "used") \/ Allocate(t, p, "set") PROVE Good(k')
  BY <1>w, <1>5, AllocateStep
<1>6. ASSUME NEW p \in world.ports, Release(t, p) PROVE Good(k')
  BY <1>w, <1>6, ReleaseStep
<1>7. ASSUME NEW p \in world.ports, NEW x \in world.ports, LeavePortSet(t, x, p) PROVE Good(k')
  BY <1>w, <1>7, LeaveStep
<1>8. ASSUME NEW p \in world.ports, NEW x \in world.ports, NEW g \in Surrogates, JoinPortSet(t, x, p, g) PROVE Good(k')
  BY <1>w, <1>8, JoinStep
<1> QED BY <1>1, <1>2, <1>3, <1>4, <1>5, <1>6, <1>7, <1>8 DEF Call

LEMMA NextGood == ASSUME IInv, Next PROVE Good(k') /\ world' = world
<1>1. world' = world
  BY DEF Next
<1>2. \/ \E t \in Tasks : Call(t) \/ Look(t) \/ TimeOut(t)
      \/ \E g \in Surrogates : Forward(g)
      \/ \E m \in Media : EndTransmission(m)
  BY DEF Next
<1>3. ASSUME NEW t \in Tasks, Call(t) \/ Look(t) \/ TimeOut(t) PROVE Good(k')
  BY <1>3, CallGood, LookStep, TimeOutStep
<1>4. ASSUME NEW g \in Surrogates, Forward(g) PROVE Good(k')
  BY <1>4, ForwardStep
<1>5. ASSUME NEW m \in Media, EndTransmission(m) PROVE Good(k')
  BY <1>5, EndTransmissionStep
<1> QED BY <1>1, <1>2, <1>3, <1>4, <1>5

\* What is said of k' is said of the next state, in which the world is the same.
LEMMA Primed == ASSUME world \in Worlds, Good(k'), world' = world PROVE IInv'
<1>1. \A C : Happens(C)' <=> Happens(C)
  BY DEF Happens
<1>2. Messages' = Messages
  BY DEF Messages
<1>3. SoundOnes' = SoundOnes /\ Carried' = Carried
  BY <1>2 DEF SoundOnes, Carried, Sound
<1>4. FirstOnly' = FirstOnly /\ Releases' = Releases
  BY DEF FirstOnly, Releases, Happens
<1>5. Tables(k)'
  <2>1. Typed(k')
    BY DEF Good, Tables
  <2>2. Typed(k)'
    BY <1>3, <2>1 DEF Typed, Shape
  <2> QED BY <2>2 DEF Good, Tables, OwnerOf, KeepsStd, ServesSet, WaitsWell
<1>6. Members(k)'
  BY DEF Good, Members, MemberOf, Happens
<1>7. Mail(k)'
  <2>1. Parts(k', 1..k'.sent) /\ OwnMail(k') /\ Safe(k') /\ StaleFree(k')
    BY DEF Good, Mail
  <2>2. Parts(k, 1..k.sent)'
    BY <2>1 DEF Parts, Held, Places
  <2>3. OwnMail(k)'
    BY <2>1 DEF OwnMail
  <2>4. Safe(k)'
    BY <2>1 DEF Safe, Releases, Happens
  <2>5. StaleFree(k)'
    BY <2>1 DEF StaleFree, FirstOnly, Happens
  <2>6. (~Happens({"leave", "transmit"}) => Ordered(k))'
    BY DEF Good, Mail, Ordered, Happens
  <2> QED BY <2>2, <2>3, <2>4, <2>5, <2>6 DEF Mail
<1> QED BY <1>5, <1>6, <1>7 DEF IInv

\* The invariant on which the theorems rest.
THEOREM Invariance == Spec => []IInv
<1>1. Init => IInv
  BY InitGood
<1>2. IInv /\ [Next]_vars => IInv'
  <2>1. CASE Next
    BY <2>1, NextGood, Primed DEF IInv
  <2>2. ASSUME IInv, UNCHANGED vars PROVE IInv'
    <3>1. world' = world /\ k' = k
      BY <2>2 DEF vars
    <3>2. Good(k')
      BY <2>2, <3>1 DEF IInv, Good
    <3> QED BY <2>2, <3>1, <3>2, Primed DEF IInv
  <2> QED BY <2>1, <2>2
<1> QED BY <1>1, <1>2, PTL DEF Spec

\* The kernel's tables of tasks and ports agree at all times, whatever calls are
\* made, passed and released ports, and sets left by their members included.
THEOREM TablesConsistent == Spec => []Consistent
<1>1. IInv => Consistent
  <2> SUFFICES ASSUME IInv PROVE Consistent
    OBVIOUS
  <2>1. Typed(k) /\ Tables(k) /\ Members(k) /\ world \in Worlds
    BY DEF IInv, Tables
  <2>2. TypeOK
    <3>1. SoundOnes \subseteq Messages /\ Carried \subseteq Messages
      BY DEF SoundOnes, Carried
    <3>2. k.queue \in [PortIds -> Seq(Messages)]
      <4>1. Seq(SoundOnes) \subseteq Seq(Messages)
        BY <3>1, SeqDef
      <4> QED BY <2>1, <4>1 DEF Typed
    <3>3. k.media \in [Media -> Seq(Messages)]
      <4>1. Seq(Carried) \subseteq Seq(Messages)
        BY <3>1, SeqDef
      <4> QED BY <2>1, <4>1 DEF Typed
    <3>4. k.pairs \in [PortIds -> SUBSET [task : Surrogates, port : PortIds]]
      <4>1. Pairs \subseteq [task : Surrogates, port : PortIds]
        BY DEF Pairs
      <4> QED BY <2>1, <4>1 DEF Typed
    <3>5. k.abort \in {None, "receive", "transmission"} /\ k.sent \in 0..MaxSent /\ k.received \subseteq 1..MaxSent /\ k.lost \subseteq 1..MaxSent
      BY <2>1 DEF Typed
    <3>6. k.at \in [All -> {"running", "receiving", "awake", "free"}] /\ k.rtoep \in [All -> BOOLEAN]
      BY <2>1 DEF Typed, AtStates
    <3>7. /\ k.rec \in [All -> [port : PortIds \cup {None}, discipline : Disciplines, mode : Modes]]
          /\ k.got \in [All -> {"nothing", "message", "timeout", "error"}]
      BY <2>1 DEF Typed, Receives, Kinds
    <3>8. /\ k.target \in [Surrogates -> PortIds \cup {None}] /\ k.state \in [PortIds -> {"free", "used", "set"}]
          /\ k.owner \in [PortIds -> All \cup {None}]
      BY <2>1 DEF Typed, PortStates
    <3> QED BY <2>1, <3>2, <3>3, <3>4, <3>5, <3>6, <3>7, <3>8 DEF TypeOK
  <2>3. OwnersLive
    <3> SUFFICES ASSUME NEW p \in PortIds
                 PROVE  IF k.state[p] = "free" THEN k.owner[p] = None /\ k.queue[p] = <<>>
                        ELSE k.owner[p] \in All /\ k.at[k.owner[p]] # "free"
      BY DEF OwnersLive
    <3>1. OwnerOf(k, p)
      BY <2>1 DEF Tables
    <3> QED BY <3>1 DEF OwnerOf
  <2>4. MembersServed
    BY <2>1 DEF Members, MemberOf, MembersServed
  <2> QED BY <2>2, <2>3, <2>4 DEF Consistent
<1> QED BY <1>1, Invariance, PTL

\* No task and no surrogate stays blocked in a receive beside a message, or at a
\* port that it has lost.
THEOREM ReceiversWoken == Spec => []NoLostWakeup
<1>1. IInv => NoLostWakeup
  BY DEF IInv, Tables, WaitsWell, NoLostWakeup
<1> QED BY <1>1, Invariance, PTL

\* A message is in one of the places there are, and is told apart by its place.
LEMMA CopiesKnown ==
  ASSUME IInv, NEW i \in 1..k.sent
  PROVE  \/ i \notin k.received \cup k.lost /\ \E a \in Copies(i) : Copies(i) = {a}
         \/ i \in k.received /\ i \notin k.lost /\ Copies(i) = {}
         \/ i \in k.lost /\ i \notin k.received /\ Copies(i) = {}
<1>1. Parts(k, 1..k.sent)
  BY DEF IInv, Mail
<1>2. PICK a \in Places : i \in Held(k, a)
  BY <1>1 DEF Parts
<1>3. \A b \in Places : b # a => i \notin Held(k, b)
  BY <1>1, <1>2 DEF Parts
<1>4. \A p \in PortIds : p \in Copies(i) <=> i \in Held(k, PortAt(p))
  BY Seats, Basics DEF Copies
<1>5. \A m \in Media : m \in Copies(i) <=> i \in Held(k, MediaAt(m))
  BY Seats, Basics DEF Copies
<1>6. \A c \in Copies(i) : c \in PortIds \/ c \in Media
  BY DEF Copies
<1>7. (i \in k.received <=> i \in Held(k, Received)) /\ (i \in k.lost <=> i \in Held(k, Lost))
  BY Seats
<1>8. CASE a = Received
  <2>1. \A p \in PortIds : p \notin Copies(i)
    BY <1>3, <1>4, <1>8, Seats
  <2>2. \A m \in Media : m \notin Copies(i)
    BY <1>3, <1>5, <1>8, Seats
  <2>3. i \notin k.lost
    BY <1>3, <1>7, <1>8, Seats
  <2> QED BY <1>2, <1>6, <1>7, <1>8, <2>1, <2>2, <2>3
<1>9. CASE a = Lost
  <2>1. \A p \in PortIds : p \notin Copies(i)
    BY <1>3, <1>4, <1>9, Seats
  <2>2. \A m \in Media : m \notin Copies(i)
    BY <1>3, <1>5, <1>9, Seats
  <2>3. i \notin k.received
    BY <1>3, <1>7, <1>9, Seats
  <2> QED BY <1>2, <1>6, <1>7, <1>9, <2>1, <2>2, <2>3
<1>10. ASSUME NEW p \in PortIds, a = PortAt(p) PROVE i \notin k.received \cup k.lost /\ Copies(i) = {p} /\ p \in Copies(i)
  <2>1. i \notin k.received /\ i \notin k.lost
    BY <1>3, <1>7, <1>10, Seats
  <2>2. p \in Copies(i)
    BY <1>2, <1>4, <1>10
  <2>3. \A r \in PortIds : r # p => r \notin Copies(i)
    BY <1>3, <1>4, <1>10, Seats
  <2>4. \A m \in Media : m \notin Copies(i)
    BY <1>3, <1>5, <1>10, Seats
  <2> QED BY <1>6, <2>1, <2>2, <2>3, <2>4
<1>11. ASSUME NEW m \in Media, a = MediaAt(m) PROVE i \notin k.received \cup k.lost /\ Copies(i) = {m} /\ m \in Copies(i)
  <2>1. i \notin k.received /\ i \notin k.lost
    BY <1>3, <1>7, <1>11, Seats
  <2>2. m \in Copies(i)
    BY <1>2, <1>5, <1>11
  <2>3. \A r \in PortIds : r \notin Copies(i)
    BY <1>3, <1>4, <1>11, Seats
  <2>4. \A r \in Media : r # m => r \notin Copies(i)
    BY <1>3, <1>5, <1>11, Seats
  <2> QED BY <1>6, <2>1, <2>2, <2>3, <2>4
<1> QED BY <1>8, <1>9, <1>10, <1>11, Seats

\* Every message is queued once, received once or lost with its port, those of a
\* port are received in the order they were sent in, and a time-out comes only to
\* who asked for one, under the conditions that MessagesDelivered states.
THEOREM Delivery == Spec => []MessagesDelivered
<1>1. IInv => MessagesDelivered
  <2> SUFFICES ASSUME IInv PROVE MessagesDelivered
    OBVIOUS
  <2>1. /\ Typed(k) /\ Parts(k, 1..k.sent) /\ Safe(k) /\ StaleFree(k) /\ (~Happens({"leave", "transmit"}) => Ordered(k))
        /\ world \in Worlds
    BY DEF IInv, Tables, Mail
  <2>2. EachOnce
    <3>1. (\A p \in PortIds : Distinct(k.queue[p])) /\ \A m \in Media : Distinct(k.media[m])
      BY <2>1 DEF Parts
    <3>2. ~Happens({"release", "releaseMember", "transmit"}) => k.lost = {}
      <4>1. ~Happens({"release", "releaseMember", "transmit"}) => ~Releases /\ ~Happens({"transmit"})
        BY DEF Happens, Releases
      <4> QED BY <2>1, <4>1 DEF Safe
    <3> QED BY <3>1, <3>2, CopiesKnown DEF EachOnce
  <2>3. OrderKept
    BY <2>1 DEF OrderKept, OldestFirst, Ordered
  <2>4. Punctual
    <3>1. k.abort = "transmission" => Happens({"transmit"}) /\ Happens({"release", "releaseMember"})
      BY <2>1, PortsAssumption DEF Safe, Releases, None
    <3>2. k.abort # "receive"
      BY <2>1 DEF Typed, None
    <3>3. world.disciplines = {"FIFO"} /\ ~Happens({"pass", "releaseMember"}) => NeverTimesOut
      BY <2>1 DEF StaleFree, FirstOnly, NeverTimesOut
    <3> QED BY <3>1, <3>2, <3>3 DEF Punctual
  <2> QED BY <2>2, <2>3, <2>4 DEF MessagesDelivered
<1> QED BY <1>1, Invariance, PTL
=============================================================================
