--------------------------- MODULE ServersProofs ---------------------------
(***************************************************************************)
(* Proofs about Servers, for every number of clients, tasks, workers and   *)
(* messages and every pattern of calls, forwards and joins: dispatchers,   *)
(* workers and joins agree, no request or message is lost, and every task  *)
(* that serves in order is a station of Stations.  A step goes through     *)
(* several states of the simulation, so what is said of the state k is     *)
(* said of any record s like it.                                           *)
(***************************************************************************)
EXTENDS Servers, FiniteSetTheorems, SequenceTheorems, WellFoundedInduction, TLAPS

Callers == Customers \cup Servers
WorkersOf(t) == {i \in Workers : i[1] = t}
Working == {"serving", "calling"}

\* The requests that a task t can have: rendezvous, and messages of its pool.
To(t) ==
  {r \in Requests : /\ TaskOf[r.entry] = t
                    /\ r.from \in Callers \cup {NoOne}
                    /\ r.from = NoOne <=> r.slot > 0}

-----------------------------------------------------------------------------
\* States of the simulation.
Shape(s) ==
  s = [port |-> s.port, pending |-> s.pending, hand |-> s.hand, count |-> s.count, idle |-> s.idle,
       joined |-> s.joined, done |-> s.done, free |-> s.free, at |-> s.at, job |-> s.job,
       inbox |-> s.inbox, held |-> s.held]

\* Requests are where they are addressed to.
Queues(q) == q \in [Tasks -> Seq(Requests)] /\ \A t \in Tasks : q[t] \in Seq(To(t))
Hands(h) == h \in [Tasks -> Maybe] /\ \A t \in Tasks : h[t] \in To(t) \cup {Nothing}
Inboxes(b) ==
  /\ b \in [Instances -> Seq(Requests)]
  /\ \A i \in Workers : b[i] \in Seq(To(i[1]))
  /\ \A i \in Instances \ Workers : b[i] = <<>>
Fits(i, h) == h \in [EntriesOf(i) -> Maybe] /\ \A e \in EntriesOf(i) : h[e] # Nothing => h[e] \in To(i[1]) /\ h[e].entry = e
Helds(h) == DOMAIN h = Servers /\ \A i \in Servers : Fits(i, h[i])
Job == [entry : Entries \cup {None}, phase : Phases, step : Nat]

Typed(s) ==
  /\ Shape(s)
  /\ Queues(s.port) /\ Queues(s.pending) /\ Hands(s.hand) /\ Inboxes(s.inbox) /\ Helds(s.held)
  /\ s.count \in [Tasks -> Nat] /\ s.idle \in [Tasks -> Seq(Workers)] /\ s.free \in [Tasks -> Seq(1..Pool)]
  /\ s.joined \in [Tasks -> SUBSET Entries] /\ s.done \in [Tasks -> SUBSET Entries]
  /\ s.at \in [Instances -> States] /\ s.job \in [Instances -> Job]

-----------------------------------------------------------------------------
\* Where requests and messages are.

\* What must not be lost: the rendezvous of a caller, a message of a pool.
Rendezvous(i) == [kind |-> "caller", of |-> i, slot |-> 0]
MessageOf(t, n) == [kind |-> "message", of |-> t, slot |-> n]
Things == {Rendezvous(i) : i \in Callers} \cup {MessageOf(t, n) : t \in Tasks, n \in 1..Pool}

Site(kind, of, e) == [kind |-> kind, of |-> of, entry |-> e]
Sites ==
  {Site(kind, t, None) : kind \in {"port", "pending", "free", "hand"}, t \in Tasks}
  \cup {Site("inbox", i, None) : i \in Workers}
  \cup UNION {{Site("held", i, e) : e \in EntriesOf(i)} : i \in Servers}

Optional(r) == IF r = Nothing THEN <<>> ELSE <<r>>
\* What is at site a, in a sequence.
Box(s, a) ==
  CASE a.kind = "port" -> s.port[a.of]
    [] a.kind = "pending" -> s.pending[a.of]
    [] a.kind = "free" -> s.free[a.of]
    [] a.kind = "hand" -> Optional(s.hand[a.of])
    [] a.kind = "inbox" -> s.inbox[a.of]
    [] a.kind = "held" -> Optional(s.held[a.of][a.entry])

ThingOf(t, r) == IF r.from = NoOne THEN MessageOf(t, r.slot) ELSE Rendezvous(r.from)
Thing(a, r) ==
  CASE a.kind = "free" -> MessageOf(a.of, r)
    [] a.kind \in {"port", "pending", "hand"} -> ThingOf(a.of, r)
    [] a.kind \in {"inbox", "held"} -> ThingOf(a.of[1], r)

Here(s, a, x) == \E n \in DOMAIN Box(s, a) : Thing(a, Box(s, a)[n]) = x
One(s, a, x) == \A m, n \in DOMAIN Box(s, a) : Thing(a, Box(s, a)[m]) = x /\ Thing(a, Box(s, a)[n]) = x => m = n

\* Only the rendezvous of a caller that waits exists.
Exists(s, x) == x.kind = "caller" => s.at[x.of] = "calling"

\* Whatever exists is in exactly one place.
Placed(s) ==
  \A x \in Things :
    /\ \A a, b \in Sites : Here(s, a, x) /\ Here(s, b, x) => a = b
    /\ \A a \in Sites : One(s, a, x)
    /\ (\E a \in Sites : Here(s, a, x)) <=> Exists(s, x)

-----------------------------------------------------------------------------
\* Who does what.

StateOf(s, i) ==
  /\ i \in Customers => s.at[i] \in {"idle", "calling"}
  /\ i \in Workers => s.at[i] \in {"none", "starting", "idle"} \cup Working
  /\ i \in Servers \ Workers => s.at[i] \in {"idle"} \cup Working
  /\ i \in Mains \ Servers => s.at[i] \in {"idle", "assigning", "growing"}

\* A server holds the request it works on, and those of open joins.
Holds(s, i) ==
  LET e == s.job[i].entry
      busy == s.at[i] \in Working
  IN /\ busy => /\ e \in EntriesOf(i) \ s.joined[i[1]] /\ s.job[i].step >= 1
                /\ s.job[i].phase = 2 => s.held[i][e] = Nothing \/ s.held[i][e].slot > 0
     /\ \A f \in EntriesOf(i) : s.held[i][f] # Nothing =>
          (busy /\ f = e) \/ (f \in s.joined[i[1]] /\ s.held[i][f].slot = 0)

JoinsOf(s, t) ==
  /\ s.joined[t] = s.done[t]
  /\ \A e \in s.joined[t] : TaskOf[e] = t /\ Joins[e] # {} /\ ~(Joins[e] \subseteq s.joined[t])

WorkerOf(s, i) ==
  /\ Len(s.inbox[i]) <= 1
  /\ s.at[i] = "none" <=> i[2] > s.count[i[1]]
  /\ s.at[i] = "idle" /\ s.inbox[i] = <<>> <=> i \in Range(s.idle[i[1]])
  /\ s.inbox[i] # <<>> => s.at[i] = "idle"

DispatcherOf(s, t) ==
  /\ s.count[t] <= Limit[t]
  /\ IsInjective(s.idle[t]) /\ \A i \in Range(s.idle[t]) : i[1] = t
  /\ s.hand[t] = Nothing <=> s.at[Main(t)] = "idle"
  /\ s.at[Main(t)] = "growing" => s.idle[t] # <<>> \/ \E i \in WorkersOf(t) : s.at[i] = "starting"

\* Those that are not dispatchers have nothing in hand, no workers and no notes.
SingleOf(s, t) == s.hand[t] = Nothing /\ s.count[t] = 0

Agree(s) ==
  /\ \A i \in Instances : StateOf(s, i)
  /\ \A i \in Servers : Holds(s, i)
  /\ \A t \in Tasks : JoinsOf(s, t)
  /\ \A i \in Workers : WorkerOf(s, i)
  /\ \A t \in Multi : DispatcherOf(s, t)
  /\ \A t \in Tasks \ Multi : SingleOf(s, t)

\* In a good state everything has its type and its place, and everyone agrees.
Good(s) == Typed(s) /\ Agree(s) /\ Placed(s)

IInv == world \in Worlds /\ Good(k)

-----------------------------------------------------------------------------
\* How places change.

\* The sequence u is q with r at its end, or without its n-th element.
Adds(q, r, u) ==
  /\ Len(q) \in Nat /\ DOMAIN q = 1..Len(q) /\ DOMAIN u = 1..(Len(q) + 1)
  /\ u[Len(q) + 1] = r /\ \A j \in DOMAIN q : u[j] = q[j]
Drops(q, n, u) ==
  /\ Len(q) \in Nat /\ DOMAIN q = 1..Len(q) /\ n \in DOMAIN q /\ DOMAIN u = 1..(Len(q) - 1)
  /\ \A j \in DOMAIN u : u[j] = q[IF j < n THEN j ELSE j + 1]

LEMMA AppendAdds ==
  ASSUME NEW S, NEW q \in Seq(S), NEW r \in S
  PROVE  Adds(q, r, Append(q, r)) /\ Append(q, r) \in Seq(S)
<1>1. /\ Append(q, r) \in Seq(S) /\ Len(q) \in Nat /\ DOMAIN q = 1..Len(q) /\ Len(Append(q, r)) = Len(q) + 1
      /\ DOMAIN Append(q, r) = 1..Len(Append(q, r))
      /\ \A j \in 1..Len(q) : Append(q, r)[j] = q[j]
      /\ Append(q, r)[Len(q) + 1] = r
  BY AppendProperties, LenProperties
<1> QED BY <1>1 DEF Adds

LEMMA TailDrops ==
  ASSUME NEW S, NEW q \in Seq(S), q # <<>>
  PROVE  Drops(q, 1, Tail(q)) /\ Tail(q) \in Seq(S) /\ q[1] = Head(q) /\ Head(q) \in S
<1>1. /\ Len(q) \in Nat \ {0} /\ DOMAIN q = 1..Len(q) /\ Tail(q) \in Seq(S) /\ DOMAIN Tail(q) = 1..(Len(q) - 1)
      /\ \A j \in 1..(Len(q) - 1) : Tail(q)[j] = q[j + 1]
      /\ q[1] = Head(q) /\ Head(q) \in S
  BY HeadTailProperties, LenProperties, EmptySeq
<1>2. \A j \in 1..(Len(q) - 1) : ~(j < 1)
  BY <1>1
<1> QED BY <1>1, <1>2 DEF Drops

LEMMA RemoveDrops ==
  ASSUME NEW S, NEW q \in Seq(S), NEW n \in DOMAIN q
  PROVE  Drops(q, n, RemoveAt(q, n)) /\ RemoveAt(q, n) \in Seq(S) /\ q[n] \in S
<1>l. PICK l : l = Len(q)
  OBVIOUS
<1>1. l \in Nat /\ DOMAIN q = 1..l /\ n \in Int /\ 1 <= n /\ n <= l /\ \A j \in 1..l : q[j] \in S
  BY <1>l, LenProperties, ElementOfSeq
<1>a. PICK a : a = SubSeq(q, 1, n - 1)
  OBVIOUS
<1>b. PICK b : b = SubSeq(q, n + 1, l)
  OBVIOUS
<1>2. a \in Seq(S) /\ Len(a) = n - 1 /\ \A j \in 1..(n - 1) : a[j] = q[j]
  <2>1. \A j \in 1..(n - 1) : q[j] \in S
    BY <1>1
  <2>2. /\ a \in Seq(S) /\ Len(a) = IF 1 <= n - 1 THEN (n - 1) - 1 + 1 ELSE 0
        /\ \A j \in 1..((n - 1) - 1 + 1) : a[j] = q[1 + j - 1]
    BY <1>1, <1>a, <2>1, SubSeqProperties
  <2> QED BY <1>1, <2>2
<1>3. b \in Seq(S) /\ Len(b) = l - n /\ \A j \in 1..(l - n) : b[j] = q[n + j]
  <2>1. \A j \in (n + 1)..l : q[j] \in S
    BY <1>1
  <2>2. /\ b \in Seq(S) /\ Len(b) = IF n + 1 <= l THEN l - (n + 1) + 1 ELSE 0
        /\ \A j \in 1..(l - (n + 1) + 1) : b[j] = q[(n + 1) + j - 1]
    BY <1>1, <1>b, <2>1, SubSeqProperties
  <2>3. l - (n + 1) + 1 = l - n /\ \A j \in 1..(l - n) : (n + 1) + j - 1 = n + j
    BY <1>1
  <2>4. Len(b) = l - n
    BY <1>1, <2>2, <2>3
  <2> QED BY <2>2, <2>3, <2>4
<1>c. PICK c : c = a \o b
  OBVIOUS
<1>4. /\ c \in Seq(S) /\ Len(c) = Len(a) + Len(b)
      /\ \A j \in 1..(Len(a) + Len(b)) : c[j] = IF j <= Len(a) THEN a[j] ELSE b[j - Len(a)]
  BY <1>2, <1>3, <1>c, ConcatProperties
<1>5. Len(c) = l - 1 /\ DOMAIN c = 1..(l - 1)
  BY <1>1, <1>2, <1>3, <1>4, LenProperties
<1>6. ASSUME NEW j \in 1..(l - 1) PROVE c[j] = q[IF j < n THEN j ELSE j + 1]
  <2>1. CASE j < n
    BY <1>1, <1>2, <1>3, <1>4, <2>1
  <2>2. CASE ~(j < n)
    <3>1. j - (n - 1) \in 1..(l - n) /\ n + (j - (n - 1)) = j + 1 /\ ~(j <= n - 1) /\ j \in 1..((n - 1) + (l - n))
      BY <1>1, <2>2
    <3>2. c[j] = b[j - (n - 1)]
      BY <1>2, <1>3, <1>4, <3>1
    <3> QED BY <1>3, <2>2, <3>1, <3>2
  <2> QED BY <2>1, <2>2
<1>7. RemoveAt(q, n) = c
  BY <1>a, <1>b, <1>c, <1>l DEF RemoveAt
<1> QED BY <1>1, <1>4, <1>5, <1>6, <1>7, <1>l DEF Drops

\* What is put in an empty hand, and taken from it.
LEMMA HandAdds ==
  ASSUME NEW r, r # Nothing
  PROVE  Adds(Optional(Nothing), r, Optional(r)) /\ Drops(Optional(r), 1, Optional(Nothing)) /\ Optional(r)[1] = r
  BY DEF Optional, Adds, Drops

\* Nothing changes at other sites than those of D, nor who waits.
Elsewhere(s, u, D) == \A c \in Sites \ D : Box(u, c) = Box(s, c)
SameLife(s, u) == \A x \in Things : Exists(u, x) <=> Exists(s, x)

LEMMA AddsHere ==
  ASSUME NEW s, NEW u, NEW a, NEW r, Adds(Box(s, a), r, Box(u, a)), NEW x, x = Thing(a, r), ~Here(s, a, x),
         \A y \in Things : One(s, a, y)
  PROVE  \A y \in Things : (Here(u, a, y) <=> Here(s, a, y) \/ y = x) /\ One(u, a, y)
<1>q. PICK q, w, l : q = Box(s, a) /\ w = Box(u, a) /\ l = Len(q)
  OBVIOUS
<1>1. /\ l \in Nat /\ DOMAIN q = 1..l /\ DOMAIN w = DOMAIN q \cup {l + 1} /\ l + 1 \notin DOMAIN q
      /\ w[l + 1] = r /\ \A j \in DOMAIN q : w[j] = q[j]
  BY <1>q DEF Adds
<1>2. \A y : Here(u, a, y) <=> Here(s, a, y) \/ y = x
  BY <1>1, <1>q DEF Here
<1>3. ASSUME NEW y \in Things PROVE One(u, a, y)
  <2>1. y = x => ~Here(s, a, y)
    OBVIOUS
  <2> QED BY <1>1, <1>q, <2>1 DEF One, Here
<1> QED BY <1>2, <1>3

LEMMA DropsHere ==
  ASSUME NEW s, NEW u, NEW a, NEW n, Drops(Box(s, a), n, Box(u, a)), NEW x, x = Thing(a, Box(s, a)[n]),
         \A y \in Things : One(s, a, y)
  PROVE  Here(s, a, x) /\ \A y \in Things : (Here(u, a, y) <=> Here(s, a, y) /\ y # x) /\ One(u, a, y)
<1>q. PICK q, w, l : q = Box(s, a) /\ w = Box(u, a) /\ l = Len(q)
  OBVIOUS
<1>1. /\ l \in Nat /\ DOMAIN q = 1..l /\ n \in 1..l /\ DOMAIN w = 1..(l - 1)
      /\ \A j \in DOMAIN w : w[j] = q[IF j < n THEN j ELSE j + 1]
  BY <1>q DEF Drops
<1>2. /\ \A j \in DOMAIN w : j < n => j \in DOMAIN q /\ w[j] = q[j] /\ j # n
      /\ \A j \in DOMAIN w : ~(j < n) => j + 1 \in DOMAIN q /\ w[j] = q[j + 1] /\ j + 1 # n
      /\ \A j \in DOMAIN q : j < n => j \in DOMAIN w /\ w[j] = q[j]
      /\ \A j \in DOMAIN q : j > n => j - 1 \in DOMAIN w /\ ~(j - 1 < n) /\ w[j - 1] = q[j]
  BY <1>1
<1>3. Here(s, a, x)
  BY <1>1, <1>q DEF Here
<1>5. ASSUME NEW y \in Things
      PROVE  (Here(u, a, y) <=> Here(s, a, y) /\ y # x) /\ One(u, a, y)
  <2>1. One(s, a, y)
    OBVIOUS
  <2>2. ASSUME Here(u, a, y) PROVE Here(s, a, y) /\ y # x
    <3>1. PICK j \in DOMAIN w : Thing(a, w[j]) = y
      BY <1>q, <2>2 DEF Here
    <3>2. PICK i \in DOMAIN q : i # n /\ q[i] = w[j]
      BY <1>2, <3>1
    <3> QED BY <1>1, <1>q, <2>1, <3>1, <3>2 DEF Here, One
  <2>3. ASSUME Here(s, a, y), y # x PROVE Here(u, a, y)
    <3>1. PICK j \in DOMAIN q : Thing(a, q[j]) = y
      BY <1>q, <2>3 DEF Here
    <3>2. j # n /\ (j < n \/ j > n)
      BY <1>1, <1>q, <2>3, <3>1
    <3>3. PICK i \in DOMAIN w : w[i] = q[j]
      BY <1>2, <3>1, <3>2
    <3> QED BY <1>q, <3>1, <3>3 DEF Here
  <2>4. One(u, a, y)
    <3>1. SUFFICES ASSUME NEW i \in DOMAIN w, NEW j \in DOMAIN w, Thing(a, w[i]) = y, Thing(a, w[j]) = y
                   PROVE  i = j
      BY <1>q DEF One
    <3>i. PICK g \in DOMAIN q : q[g] = w[i] /\ ((i < n /\ g = i) \/ (~(i < n) /\ g = i + 1))
      BY <1>2
    <3>j. PICK h \in DOMAIN q : q[h] = w[j] /\ ((j < n /\ h = j) \/ (~(j < n) /\ h = j + 1))
      BY <1>2
    <3>2. g = h
      BY <1>q, <2>1, <3>1, <3>i, <3>j DEF One
    <3> QED BY <1>1, <3>i, <3>j, <3>2
  <2> QED BY <2>2, <2>3, <2>4
<1> QED BY <1>3, <1>5

\* A thing is moved from site a to site b.
LEMMA Moved ==
  ASSUME NEW s, NEW u, Placed(s), NEW a \in Sites, NEW b \in Sites, a # b, NEW n, Drops(Box(s, a), n, Box(u, a)),
         NEW r, Adds(Box(s, b), r, Box(u, b)), Elsewhere(s, u, {a, b}), SameLife(s, u),
         NEW x \in Things, x = Thing(a, Box(s, a)[n]), x = Thing(b, r)
  PROVE  Placed(u)
<1>1. \A c \in Sites, y \in Things : One(s, c, y)
  BY DEF Placed
<1>2. Here(s, a, x) /\ \A y \in Things : (Here(u, a, y) <=> Here(s, a, y) /\ y # x) /\ One(u, a, y)
  BY <1>1, DropsHere
<1>3. ~Here(s, b, x) /\ Exists(s, x) /\ \A c \in Sites : Here(s, c, x) => c = a
  BY <1>2 DEF Placed
<1>4. \A y \in Things : (Here(u, b, y) <=> Here(s, b, y) \/ y = x) /\ One(u, b, y)
  BY <1>1, <1>3, AddsHere
<1>5. \A c \in Sites : c # a /\ c # b => \A y : (Here(u, c, y) <=> Here(s, c, y)) /\ (One(u, c, y) <=> One(s, c, y))
  BY DEF Elsewhere, Here, One
<1>6. ASSUME NEW y \in Things
      PROVE  /\ \A c, d \in Sites : Here(u, c, y) /\ Here(u, d, y) => c = d
             /\ \A c \in Sites : One(u, c, y)
             /\ (\E c \in Sites : Here(u, c, y)) <=> Exists(u, y)
  <2>1. /\ \A c, d \in Sites : Here(s, c, y) /\ Here(s, d, y) => c = d
        /\ \A c \in Sites : One(s, c, y)
        /\ (\E c \in Sites : Here(s, c, y)) <=> Exists(s, y)
        /\ Exists(u, y) <=> Exists(s, y)
    BY DEF Placed, SameLife
  <2>2. CASE y = x
    BY <1>2, <1>3, <1>4, <1>5, <2>1, <2>2
  <2>3. CASE y # x
    <3>1. \A c \in Sites : (Here(u, c, y) <=> Here(s, c, y)) /\ One(u, c, y)
      BY <1>2, <1>4, <1>5, <2>1, <2>3
    <3> QED BY <2>1, <3>1
  <2> QED BY <2>2, <2>3
<1> QED BY <1>6 DEF Placed

\* A thing comes into being at site a.
LEMMA Sent ==
  ASSUME NEW s, NEW u, Placed(s), NEW a \in Sites, NEW r, Adds(Box(s, a), r, Box(u, a)), Elsewhere(s, u, {a}),
         NEW x \in Things, x = Thing(a, r), ~Exists(s, x), Exists(u, x),
         \A y \in Things : y # x => (Exists(u, y) <=> Exists(s, y))
  PROVE  Placed(u)
<1>1. \A c \in Sites, y \in Things : One(s, c, y)
  BY DEF Placed
<1>2. \A c \in Sites : ~Here(s, c, x)
  BY DEF Placed
<1>3. \A y \in Things : (Here(u, a, y) <=> Here(s, a, y) \/ y = x) /\ One(u, a, y)
  BY <1>1, <1>2, AddsHere
<1>4. \A c \in Sites : c # a => \A y : (Here(u, c, y) <=> Here(s, c, y)) /\ (One(u, c, y) <=> One(s, c, y))
  BY DEF Elsewhere, Here, One
<1>5. ASSUME NEW y \in Things
      PROVE  /\ \A c, d \in Sites : Here(u, c, y) /\ Here(u, d, y) => c = d
             /\ \A c \in Sites : One(u, c, y)
             /\ (\E c \in Sites : Here(u, c, y)) <=> Exists(u, y)
  <2>1. /\ \A c, d \in Sites : Here(s, c, y) /\ Here(s, d, y) => c = d
        /\ \A c \in Sites : One(s, c, y)
        /\ (\E c \in Sites : Here(s, c, y)) <=> Exists(s, y)
    BY DEF Placed
  <2>2. CASE y = x
    BY <1>2, <1>3, <1>4, <2>1, <2>2
  <2>3. CASE y # x
    <3>1. \A c \in Sites : (Here(u, c, y) <=> Here(s, c, y)) /\ One(u, c, y)
      BY <1>3, <1>4, <2>1, <2>3
    <3> QED BY <2>1, <2>3, <3>1
  <2> QED BY <2>2, <2>3
<1> QED BY <1>5 DEF Placed

\* Some sites are emptied, and what was there ends.
LEMMA Ended ==
  ASSUME NEW s, NEW u, Placed(s), \A a \in Sites : Box(u, a) = Box(s, a) \/ Box(u, a) = <<>>,
         \A x \in Things : Exists(u, x) <=> Exists(s, x) /\ \A a \in Sites : Here(s, a, x) => Box(u, a) # <<>>
  PROVE  Placed(u)
<1>1. \A a \in Sites, y \in Things : Here(u, a, y) => Box(u, a) # <<>> /\ Box(u, a) = Box(s, a) /\ Here(s, a, y)
  BY DEF Here
<1>2. \A a \in Sites, y \in Things : Here(s, a, y) /\ Box(u, a) # <<>> => Here(u, a, y)
  BY DEF Here
<1>3. ASSUME NEW y \in Things
      PROVE  /\ \A c, d \in Sites : Here(u, c, y) /\ Here(u, d, y) => c = d
             /\ \A c \in Sites : One(u, c, y)
             /\ (\E c \in Sites : Here(u, c, y)) <=> Exists(u, y)
  <2>1. /\ \A c, d \in Sites : Here(s, c, y) /\ Here(s, d, y) => c = d
        /\ \A c \in Sites : One(s, c, y)
        /\ (\E c \in Sites : Here(s, c, y)) <=> Exists(s, y)
    BY DEF Placed
  <2>2. \A c \in Sites : One(u, c, y)
    <3>1. SUFFICES ASSUME NEW c \in Sites PROVE One(u, c, y)
      OBVIOUS
    <3>2. CASE Box(u, c) = Box(s, c)
      BY <2>1, <3>2 DEF One
    <3>3. CASE Box(u, c) = <<>>
      BY <3>3 DEF One
    <3> QED BY <3>2, <3>3
  <2> QED BY <1>1, <1>2, <2>1, <2>2
<1> QED BY <1>3 DEF Placed

\* Nothing moves.
LEMMA Unmoved ==
  ASSUME NEW s, NEW u, Placed(s), Elsewhere(s, u, {}), SameLife(s, u)
  PROVE  Placed(u)
<1>1. \A a \in Sites : \A y : (Here(u, a, y) <=> Here(s, a, y)) /\ (One(u, a, y) <=> One(s, a, y))
  BY DEF Here, One, Elsewhere
<1>2. \A y \in Things : Exists(u, y) <=> Exists(s, y)
  BY DEF SameLife
<1> QED BY <1>1, <1>2 DEF Placed

-----------------------------------------------------------------------------
\* Instances, requests and sites.
LEMMA Who ==
  /\ \A t \in Tasks : /\ Main(t) \in Mains /\ Main(t) \in Instances /\ Main(t)[1] = t
                      /\ Main(t) \notin Workers /\ Main(t) \notin Customers
                      /\ Main(t) \in Servers <=> t \notin Multi
  /\ \A t, u \in Tasks : Main(t) = Main(u) => t = u
  /\ \A i \in Workers : /\ i \in Instances /\ i \in Servers /\ i[1] \in Multi /\ i[1] \in Tasks
                        /\ i[2] \in 1..Limit[i[1]] /\ i = <<i[1], i[2]>> /\ i \notin Mains /\ i \notin Customers
  /\ \A t \in Multi : \A n \in 1..Limit[t] : <<t, n>> \in Workers /\ <<t, n>>[1] = t /\ <<t, n>>[2] = n
  /\ \A i \in Customers : i \in Instances /\ i \notin Servers /\ i \notin Workers /\ i \notin Mains /\ i[1] \in Clients
  /\ \A i \in Servers : /\ i \in Instances /\ i[1] \in Tasks
                        /\ i \notin Workers => i = Main(i[1]) /\ i[1] \notin Multi
  /\ \A i \in Mains : i[1] \in Tasks /\ i = Main(i[1])
  /\ NoOne \notin Instances
  /\ Multi \subseteq Tasks
<1>1. Multi \subseteq Tasks /\ Clients \cap Tasks = {} /\ None \notin Clients \cup Tasks /\ Limit \in [Tasks -> Nat \ {0}]
  BY ServersAssumption
<1>2. \A i \in Workers : \E t \in Multi : \E n \in 1..Limit[t] : i = <<t, n>>
  BY DEF Workers
<1>3. \A t \in Multi : \A n \in 1..Limit[t] : <<t, n>> \in Workers /\ n # 0
  BY <1>1 DEF Workers
<1>4. \A i \in Workers : i[1] \in Multi /\ i[2] \in 1..Limit[i[1]] /\ i = <<i[1], i[2]>> /\ i[2] # 0
  BY <1>2, <1>3
<1>5. \A i \in Customers : \E c \in Clients : i = <<c, 0>>
  BY DEF Customers
<1>6. \A t \in Tasks : Main(t) = <<t, 0>>
  BY DEF Main
<1>7. \A i \in Mains : \E t \in Tasks : i = <<t, 0>>
  BY DEF Mains, Main
<1>8. \A t \in Tasks : /\ Main(t) \in Mains /\ Main(t) \in Instances /\ Main(t)[1] = t
                       /\ Main(t) \notin Workers /\ Main(t) \notin Customers
                       /\ Main(t) \in Servers <=> t \notin Multi
  <2>1. SUFFICES ASSUME NEW t \in Tasks
                 PROVE  /\ Main(t) \in Mains /\ Main(t) \in Instances /\ Main(t)[1] = t
                        /\ Main(t) \notin Workers /\ Main(t) \notin Customers
                        /\ Main(t) \in Servers <=> t \notin Multi
    OBVIOUS
  <2>2. Main(t) \in Mains /\ Main(t) \in Instances /\ Main(t)[1] = t
    BY DEF Mains, Main, Instances
  <2>3. Main(t) \notin Workers
    BY <1>4, <1>6
  <2>4. Main(t) \notin Customers
    BY <1>1, <1>5, <1>6
  <2>5. Main(t) \in Servers <=> t \notin Multi
    BY <1>6, <2>3 DEF Servers
  <2> QED BY <2>2, <2>3, <2>4, <2>5
<1>9. \A t, u \in Tasks : Main(t) = Main(u) => t = u
  BY <1>6
<1>10. \A i \in Workers : i \in Instances /\ i \in Servers /\ i[1] \in Tasks /\ i \notin Mains /\ i \notin Customers
  BY <1>1, <1>4, <1>5, <1>7 DEF Instances, Servers
<1>11. \A i \in Customers : i \in Instances /\ i \notin Mains /\ i[1] \in Clients
  BY <1>1, <1>5, <1>7 DEF Instances
<1>12. \A i \in Servers : i \in Workers \/ \E t \in Tasks \ Multi : i = Main(t)
  BY DEF Servers
<1>13. \A i \in Customers : i \notin Servers
  BY <1>8, <1>10, <1>12
<1>14. \A i \in Servers : /\ i \in Instances /\ i[1] \in Tasks
                          /\ i \notin Workers => i = Main(i[1]) /\ i[1] \notin Multi
  BY <1>8, <1>10, <1>12
<1>15. \A i \in Mains : i[1] \in Tasks /\ i = Main(i[1])
  BY <1>6, <1>7
<1>16. NoOne \notin Instances
  BY <1>1, <1>4, <1>5, <1>7 DEF NoOne, Instances
<1> QED BY <1>1, <1>3, <1>4, <1>8, <1>9, <1>10, <1>11, <1>13, <1>14, <1>15, <1>16

\* Requests to a task, and what stands for none.
LEMMA RequestsTo ==
  /\ \A t : \A r \in To(t) : /\ r \in Requests /\ r # Nothing /\ r.entry \in Entries /\ TaskOf[r.entry] = t
                             /\ r.slot \in 0..Pool /\ r.from \in Callers \cup {NoOne}
                             /\ r.from = NoOne <=> r.slot > 0
  /\ Nothing.slot = 0 /\ Nothing.from = NoOne /\ Nothing \in Maybe /\ Nothing.entry \notin Entries
<1>1. None \notin Entries
  BY ServersAssumption
<1>2. Nothing.slot = 0 /\ Nothing.from = NoOne /\ Nothing \in Maybe /\ Nothing.entry = None
  BY DEF Nothing, Request, Maybe
<1>3. \A r \in Requests : r.entry \in Entries /\ r.slot \in 0..Pool
  BY DEF Requests
<1>4. \A t : To(t) \subseteq Requests
  BY DEF To
<1> QED BY <1>1, <1>2, <1>3, <1>4 DEF To

\* What a request is: a thing that exists or may exist.
LEMMA ThingsOf ==
  ASSUME NEW t \in Tasks, NEW r \in To(t)
  PROVE  /\ ThingOf(t, r) \in Things
         /\ r.slot > 0 => ThingOf(t, r) = MessageOf(t, r.slot)
         /\ r.slot = 0 => ThingOf(t, r) = Rendezvous(r.from) /\ r.from \in Callers
<1>1. r.slot \in 0..Pool /\ r.from \in Callers \cup {NoOne} /\ (r.from = NoOne <=> r.slot > 0) /\ Pool \in Nat
  BY RequestsTo, ServersAssumption
<1>2. CASE r.slot > 0
  <2>1. r.slot \in 1..Pool /\ ThingOf(t, r) = MessageOf(t, r.slot)
    BY <1>1, <1>2 DEF ThingOf
  <2> QED BY <1>2, <2>1, <1>1 DEF Things
<1>3. CASE ~(r.slot > 0)
  <2>1. r.slot = 0 /\ ThingOf(t, r) = Rendezvous(r.from) /\ r.from \in Callers
    BY <1>1, <1>3 DEF ThingOf
  <2> QED BY <2>1 DEF Things
<1> QED BY <1>2, <1>3

LEMMA Things2 ==
  /\ \A i, j \in Callers : Rendezvous(i) = Rendezvous(j) => i = j
  /\ \A i \in Callers : Rendezvous(i) \in Things /\ Rendezvous(i).kind = "caller" /\ Rendezvous(i).of = i
  /\ \A t \in Tasks, n \in 1..Pool : MessageOf(t, n) \in Things /\ MessageOf(t, n).kind = "message"
  /\ \A x \in Things : x.kind = "caller" => x.of \in Callers /\ x = Rendezvous(x.of)
<1>1. \A i : Rendezvous(i).kind = "caller" /\ Rendezvous(i).of = i
  BY DEF Rendezvous
<1>2. \A t, n : MessageOf(t, n).kind = "message"
  BY DEF MessageOf
<1>3. \A i, j \in Callers : Rendezvous(i) = Rendezvous(j) => i = j
  BY <1>1
<1>4. \A i \in Callers : Rendezvous(i) \in Things
  BY DEF Things
<1>5. \A t \in Tasks, n \in 1..Pool : MessageOf(t, n) \in Things
  BY DEF Things
<1>6. ASSUME NEW x \in Things, x.kind = "caller" PROVE x.of \in Callers /\ x = Rendezvous(x.of)
  <2>1. (\E i \in Callers : x = Rendezvous(i)) \/ \E t \in Tasks, n \in 1..Pool : x = MessageOf(t, n)
    BY DEF Things
  <2> QED BY <1>1, <1>2, <1>6, <2>1
<1> QED BY <1>1, <1>2, <1>3, <1>4, <1>5, <1>6

LEMMA WhatIsWhere ==
  /\ \A t \in Tasks : /\ Site("port", t, None) \in Sites /\ Site("pending", t, None) \in Sites
                      /\ Site("free", t, None) \in Sites /\ Site("hand", t, None) \in Sites
  /\ \A i \in Workers : Site("inbox", i, None) \in Sites
  /\ \A i \in Servers : \A e \in EntriesOf(i) : Site("held", i, e) \in Sites
  BY DEF Sites

LEMMA Boxes ==
  ASSUME NEW s, NEW of, NEW e
  PROVE  /\ Box(s, Site("port", of, e)) = s.port[of] /\ Box(s, Site("pending", of, e)) = s.pending[of]
         /\ Box(s, Site("free", of, e)) = s.free[of] /\ Box(s, Site("hand", of, e)) = Optional(s.hand[of])
         /\ Box(s, Site("inbox", of, e)) = s.inbox[of] /\ Box(s, Site("held", of, e)) = Optional(s.held[of][e])
  BY DEF Box, Site

LEMMA ThingsAt ==
  ASSUME NEW of, NEW e, NEW r
  PROVE  /\ Thing(Site("port", of, e), r) = ThingOf(of, r) /\ Thing(Site("pending", of, e), r) = ThingOf(of, r)
         /\ Thing(Site("hand", of, e), r) = ThingOf(of, r) /\ Thing(Site("free", of, e), r) = MessageOf(of, r)
         /\ Thing(Site("inbox", of, e), r) = ThingOf(of[1], r) /\ Thing(Site("held", of, e), r) = ThingOf(of[1], r)
  BY DEF Thing, Site

\* The states s and u have the same in all places but the sites of D.
Rest(s, u, D) ==
  /\ \A t \in Tasks : Site("port", t, None) \in D \/ u.port[t] = s.port[t]
  /\ \A t \in Tasks : Site("pending", t, None) \in D \/ u.pending[t] = s.pending[t]
  /\ \A t \in Tasks : Site("free", t, None) \in D \/ u.free[t] = s.free[t]
  /\ \A t \in Tasks : Site("hand", t, None) \in D \/ u.hand[t] = s.hand[t]
  /\ \A i \in Workers : Site("inbox", i, None) \in D \/ u.inbox[i] = s.inbox[i]
  /\ \A i \in Servers : \A e \in EntriesOf(i) : Site("held", i, e) \in D \/ u.held[i][e] = s.held[i][e]

LEMMA OnlyThere ==
  ASSUME NEW s, NEW u, NEW D, Rest(s, u, D)
  PROVE  Elsewhere(s, u, D)
<1>1. SUFFICES ASSUME NEW b \in Sites, b \notin D PROVE Box(u, b) = Box(s, b)
  BY DEF Elsewhere
<1>2. /\ b = Site(b.kind, b.of, b.entry)
      /\ b.kind # "held" => b.entry = None
      /\ b.kind \in {"port", "pending", "free", "hand", "inbox", "held"}
      /\ b.kind \in {"port", "pending", "free", "hand"} => b.of \in Tasks
      /\ b.kind = "inbox" => b.of \in Workers
      /\ b.kind = "held" => b.of \in Servers /\ b.entry \in EntriesOf(b.of)
  BY DEF Sites, Site
<1>5. CASE b.kind = "port"
  BY <1>1, <1>2, <1>5 DEF Rest, Box
<1>6. CASE b.kind = "pending"
  BY <1>1, <1>2, <1>6 DEF Rest, Box
<1>7. CASE b.kind = "free"
  BY <1>1, <1>2, <1>7 DEF Rest, Box
<1>8. CASE b.kind = "hand"
  BY <1>1, <1>2, <1>8 DEF Rest, Box
<1>9. CASE b.kind = "inbox"
  BY <1>1, <1>2, <1>9 DEF Rest, Box
<1>10. CASE b.kind = "held"
  BY <1>1, <1>2, <1>10 DEF Rest, Box
<1> QED BY <1>2, <1>5, <1>6, <1>7, <1>8, <1>9, <1>10

\* Who waits for a reply is what there is of rendezvous.
LEMMA Alike ==
  ASSUME NEW s, NEW u, \A i \in Callers : u.at[i] = "calling" <=> s.at[i] = "calling"
  PROVE  SameLife(s, u)
  BY Things2 DEF SameLife, Exists

-----------------------------------------------------------------------------
\* Changes of one component of the state.

\* Components of u that are not named in K are as in s.
Keeps(s, u, K) ==
  /\ "port" \in K \/ u.port = s.port
  /\ "pending" \in K \/ u.pending = s.pending
  /\ "hand" \in K \/ u.hand = s.hand
  /\ "count" \in K \/ u.count = s.count
  /\ "idle" \in K \/ u.idle = s.idle
  /\ "joined" \in K \/ u.joined = s.joined
  /\ "done" \in K \/ u.done = s.done
  /\ "free" \in K \/ u.free = s.free
  /\ "at" \in K \/ u.at = s.at
  /\ "job" \in K \/ u.job = s.job
  /\ "inbox" \in K \/ u.inbox = s.inbox
  /\ "held" \in K \/ u.held = s.held

WithPort(s, t, q) == [s EXCEPT !.port[t] = q]
WithPending(s, t, q) == [s EXCEPT !.pending[t] = q]
WithHand(s, t, r) == [s EXCEPT !.hand[t] = r]
WithCount(s, t, n) == [s EXCEPT !.count[t] = n]
WithIdle(s, t, q) == [s EXCEPT !.idle[t] = q]
WithJoined(s, t, E) == [s EXCEPT !.joined[t] = E]
WithDone(s, t, E) == [s EXCEPT !.done[t] = E]
WithFree(s, t, q) == [s EXCEPT !.free[t] = q]
WithAt(s, i, v) == [s EXCEPT !.at[i] = v]
WithJob(s, i, j) == [s EXCEPT !.job[i] = j]
WithInbox(s, i, q) == [s EXCEPT !.inbox[i] = q]
WithHeld(s, i, h) == [s EXCEPT !.held[i] = h]

LEMMA ToRequests == \A t \in Tasks : To(t) \subseteq Requests /\ To(t) \cup {Nothing} \subseteq Maybe /\ Seq(To(t)) \subseteq Seq(Requests)
<1>1. \A t \in Tasks : To(t) \subseteq Requests
  BY DEF To
<1>2. \A t \in Tasks : Seq(To(t)) \subseteq Seq(Requests)
  <2>1. SUFFICES ASSUME NEW t \in Tasks, NEW q \in Seq(To(t)) PROVE q \in Seq(Requests)
    OBVIOUS
  <2> QED BY <1>1, SeqDef
<1> QED BY <1>1, <1>2 DEF Maybe

LEMMA PortSet ==
  ASSUME NEW s, Typed(s), NEW t \in Tasks, NEW q \in Seq(To(t))
  PROVE  /\ Typed(WithPort(s, t, q)) /\ Keeps(s, WithPort(s, t, q), {"port"})
         /\ WithPort(s, t, q).port = [s.port EXCEPT ![t] = q]
<1>u. PICK u : u = WithPort(s, t, q)
  OBVIOUS
<1>f. PICK f : f = [s.port EXCEPT ![t] = q]
  OBVIOUS
<1>1. u = [port |-> f, pending |-> s.pending, hand |-> s.hand, count |-> s.count, idle |-> s.idle, joined |-> s.joined, done |-> s.done, free |-> s.free, at |-> s.at, job |-> s.job, inbox |-> s.inbox, held |-> s.held]
  BY <1>u, <1>f DEF WithPort, Typed, Shape
<1>2. Shape(u) /\ Keeps(s, u, {"port"}) /\ u.port = f
  BY <1>1 DEF Shape, Keeps
<1>3. Queues(f)
  BY <1>f, ToRequests, Who DEF Typed, Queues
<1>4. Typed(u)
  BY <1>2, <1>3 DEF Typed, Keeps
<1> QED BY <1>2, <1>4, <1>f, <1>u

LEMMA PendingSet ==
  ASSUME NEW s, Typed(s), NEW t \in Tasks, NEW q \in Seq(To(t))
  PROVE  /\ Typed(WithPending(s, t, q)) /\ Keeps(s, WithPending(s, t, q), {"pending"})
         /\ WithPending(s, t, q).pending = [s.pending EXCEPT ![t] = q]
<1>u. PICK u : u = WithPending(s, t, q)
  OBVIOUS
<1>f. PICK f : f = [s.pending EXCEPT ![t] = q]
  OBVIOUS
<1>1. u = [port |-> s.port, pending |-> f, hand |-> s.hand, count |-> s.count, idle |-> s.idle, joined |-> s.joined, done |-> s.done, free |-> s.free, at |-> s.at, job |-> s.job, inbox |-> s.inbox, held |-> s.held]
  BY <1>u, <1>f DEF WithPending, Typed, Shape
<1>2. Shape(u) /\ Keeps(s, u, {"pending"}) /\ u.pending = f
  BY <1>1 DEF Shape, Keeps
<1>3. Queues(f)
  BY <1>f, ToRequests, Who DEF Typed, Queues
<1>4. Typed(u)
  BY <1>2, <1>3 DEF Typed, Keeps
<1> QED BY <1>2, <1>4, <1>f, <1>u

LEMMA HandSet ==
  ASSUME NEW s, Typed(s), NEW t \in Tasks, NEW r \in To(t) \cup {Nothing}
  PROVE  /\ Typed(WithHand(s, t, r)) /\ Keeps(s, WithHand(s, t, r), {"hand"})
         /\ WithHand(s, t, r).hand = [s.hand EXCEPT ![t] = r]
<1>u. PICK u : u = WithHand(s, t, r)
  OBVIOUS
<1>f. PICK f : f = [s.hand EXCEPT ![t] = r]
  OBVIOUS
<1>1. u = [port |-> s.port, pending |-> s.pending, hand |-> f, count |-> s.count, idle |-> s.idle, joined |-> s.joined, done |-> s.done, free |-> s.free, at |-> s.at, job |-> s.job, inbox |-> s.inbox, held |-> s.held]
  BY <1>u, <1>f DEF WithHand, Typed, Shape
<1>2. Shape(u) /\ Keeps(s, u, {"hand"}) /\ u.hand = f
  BY <1>1 DEF Shape, Keeps
<1>3. Hands(f)
  BY <1>f, ToRequests, Who DEF Typed, Hands
<1>4. Typed(u)
  BY <1>2, <1>3 DEF Typed, Keeps
<1> QED BY <1>2, <1>4, <1>f, <1>u

LEMMA CountSet ==
  ASSUME NEW s, Typed(s), NEW t \in Tasks, NEW n \in Nat
  PROVE  /\ Typed(WithCount(s, t, n)) /\ Keeps(s, WithCount(s, t, n), {"count"})
         /\ WithCount(s, t, n).count = [s.count EXCEPT ![t] = n]
<1>u. PICK u : u = WithCount(s, t, n)
  OBVIOUS
<1>f. PICK f : f = [s.count EXCEPT ![t] = n]
  OBVIOUS
<1>1. u = [port |-> s.port, pending |-> s.pending, hand |-> s.hand, count |-> f, idle |-> s.idle, joined |-> s.joined, done |-> s.done, free |-> s.free, at |-> s.at, job |-> s.job, inbox |-> s.inbox, held |-> s.held]
  BY <1>u, <1>f DEF WithCount, Typed, Shape
<1>2. Shape(u) /\ Keeps(s, u, {"count"}) /\ u.count = f
  BY <1>1 DEF Shape, Keeps
<1>3. f \in [Tasks -> Nat]
  BY <1>f DEF Typed
<1>4. Typed(u)
  BY <1>2, <1>3 DEF Typed, Keeps
<1> QED BY <1>2, <1>4, <1>f, <1>u

LEMMA IdleSet ==
  ASSUME NEW s, Typed(s), NEW t \in Tasks, NEW q \in Seq(Workers)
  PROVE  /\ Typed(WithIdle(s, t, q)) /\ Keeps(s, WithIdle(s, t, q), {"idle"})
         /\ WithIdle(s, t, q).idle = [s.idle EXCEPT ![t] = q]
<1>u. PICK u : u = WithIdle(s, t, q)
  OBVIOUS
<1>f. PICK f : f = [s.idle EXCEPT ![t] = q]
  OBVIOUS
<1>1. u = [port |-> s.port, pending |-> s.pending, hand |-> s.hand, count |-> s.count, idle |-> f, joined |-> s.joined, done |-> s.done, free |-> s.free, at |-> s.at, job |-> s.job, inbox |-> s.inbox, held |-> s.held]
  BY <1>u, <1>f DEF WithIdle, Typed, Shape
<1>2. Shape(u) /\ Keeps(s, u, {"idle"}) /\ u.idle = f
  BY <1>1 DEF Shape, Keeps
<1>3. f \in [Tasks -> Seq(Workers)]
  BY <1>f DEF Typed
<1>4. Typed(u)
  BY <1>2, <1>3 DEF Typed, Keeps
<1> QED BY <1>2, <1>4, <1>f, <1>u

LEMMA JoinedSet ==
  ASSUME NEW s, Typed(s), NEW t \in Tasks, NEW E \in SUBSET Entries
  PROVE  /\ Typed(WithJoined(s, t, E)) /\ Keeps(s, WithJoined(s, t, E), {"joined"})
         /\ WithJoined(s, t, E).joined = [s.joined EXCEPT ![t] = E]
<1>u. PICK u : u = WithJoined(s, t, E)
  OBVIOUS
<1>f. PICK f : f = [s.joined EXCEPT ![t] = E]
  OBVIOUS
<1>1. u = [port |-> s.port, pending |-> s.pending, hand |-> s.hand, count |-> s.count, idle |-> s.idle, joined |-> f, done |-> s.done, free |-> s.free, at |-> s.at, job |-> s.job, inbox |-> s.inbox, held |-> s.held]
  BY <1>u, <1>f DEF WithJoined, Typed, Shape
<1>2. Shape(u) /\ Keeps(s, u, {"joined"}) /\ u.joined = f
  BY <1>1 DEF Shape, Keeps
<1>3. f \in [Tasks -> SUBSET Entries]
  BY <1>f DEF Typed
<1>4. Typed(u)
  BY <1>2, <1>3 DEF Typed, Keeps
<1> QED BY <1>2, <1>4, <1>f, <1>u

LEMMA DoneSet ==
  ASSUME NEW s, Typed(s), NEW t \in Tasks, NEW E \in SUBSET Entries
  PROVE  /\ Typed(WithDone(s, t, E)) /\ Keeps(s, WithDone(s, t, E), {"done"})
         /\ WithDone(s, t, E).done = [s.done EXCEPT ![t] = E]
<1>u. PICK u : u = WithDone(s, t, E)
  OBVIOUS
<1>f. PICK f : f = [s.done EXCEPT ![t] = E]
  OBVIOUS
<1>1. u = [port |-> s.port, pending |-> s.pending, hand |-> s.hand, count |-> s.count, idle |-> s.idle, joined |-> s.joined, done |-> f, free |-> s.free, at |-> s.at, job |-> s.job, inbox |-> s.inbox, held |-> s.held]
  BY <1>u, <1>f DEF WithDone, Typed, Shape
<1>2. Shape(u) /\ Keeps(s, u, {"done"}) /\ u.done = f
  BY <1>1 DEF Shape, Keeps
<1>3. f \in [Tasks -> SUBSET Entries]
  BY <1>f DEF Typed
<1>4. Typed(u)
  BY <1>2, <1>3 DEF Typed, Keeps
<1> QED BY <1>2, <1>4, <1>f, <1>u

LEMMA FreeSet ==
  ASSUME NEW s, Typed(s), NEW t \in Tasks, NEW q \in Seq(1..Pool)
  PROVE  /\ Typed(WithFree(s, t, q)) /\ Keeps(s, WithFree(s, t, q), {"free"})
         /\ WithFree(s, t, q).free = [s.free EXCEPT ![t] = q]
<1>u. PICK u : u = WithFree(s, t, q)
  OBVIOUS
<1>f. PICK f : f = [s.free EXCEPT ![t] = q]
  OBVIOUS
<1>1. u = [port |-> s.port, pending |-> s.pending, hand |-> s.hand, count |-> s.count, idle |-> s.idle, joined |-> s.joined, done |-> s.done, free |-> f, at |-> s.at, job |-> s.job, inbox |-> s.inbox, held |-> s.held]
  BY <1>u, <1>f DEF WithFree, Typed, Shape
<1>2. Shape(u) /\ Keeps(s, u, {"free"}) /\ u.free = f
  BY <1>1 DEF Shape, Keeps
<1>3. f \in [Tasks -> Seq(1..Pool)]
  BY <1>f DEF Typed
<1>4. Typed(u)
  BY <1>2, <1>3 DEF Typed, Keeps
<1> QED BY <1>2, <1>4, <1>f, <1>u

LEMMA AtSet ==
  ASSUME NEW s, Typed(s), NEW i \in Instances, NEW v \in States
  PROVE  /\ Typed(WithAt(s, i, v)) /\ Keeps(s, WithAt(s, i, v), {"at"})
         /\ WithAt(s, i, v).at = [s.at EXCEPT ![i] = v]
<1>u. PICK u : u = WithAt(s, i, v)
  OBVIOUS
<1>f. PICK f : f = [s.at EXCEPT ![i] = v]
  OBVIOUS
<1>1. u = [port |-> s.port, pending |-> s.pending, hand |-> s.hand, count |-> s.count, idle |-> s.idle, joined |-> s.joined, done |-> s.done, free |-> s.free, at |-> f, job |-> s.job, inbox |-> s.inbox, held |-> s.held]
  BY <1>u, <1>f DEF WithAt, Typed, Shape
<1>2. Shape(u) /\ Keeps(s, u, {"at"}) /\ u.at = f
  BY <1>1 DEF Shape, Keeps
<1>3. f \in [Instances -> States]
  BY <1>f DEF Typed
<1>4. Typed(u)
  BY <1>2, <1>3 DEF Typed, Keeps
<1> QED BY <1>2, <1>4, <1>f, <1>u

LEMMA JobSet ==
  ASSUME NEW s, Typed(s), NEW i \in Instances, NEW j \in Job
  PROVE  /\ Typed(WithJob(s, i, j)) /\ Keeps(s, WithJob(s, i, j), {"job"})
         /\ WithJob(s, i, j).job = [s.job EXCEPT ![i] = j]
<1>u. PICK u : u = WithJob(s, i, j)
  OBVIOUS
<1>f. PICK f : f = [s.job EXCEPT ![i] = j]
  OBVIOUS
<1>1. u = [port |-> s.port, pending |-> s.pending, hand |-> s.hand, count |-> s.count, idle |-> s.idle, joined |-> s.joined, done |-> s.done, free |-> s.free, at |-> s.at, job |-> f, inbox |-> s.inbox, held |-> s.held]
  BY <1>u, <1>f DEF WithJob, Typed, Shape
<1>2. Shape(u) /\ Keeps(s, u, {"job"}) /\ u.job = f
  BY <1>1 DEF Shape, Keeps
<1>3. f \in [Instances -> Job]
  BY <1>f DEF Typed
<1>4. Typed(u)
  BY <1>2, <1>3 DEF Typed, Keeps
<1> QED BY <1>2, <1>4, <1>f, <1>u

LEMMA InboxSet ==
  ASSUME NEW s, Typed(s), NEW i \in Workers, NEW q \in Seq(To(i[1]))
  PROVE  /\ Typed(WithInbox(s, i, q)) /\ Keeps(s, WithInbox(s, i, q), {"inbox"})
         /\ WithInbox(s, i, q).inbox = [s.inbox EXCEPT ![i] = q]
<1>u. PICK u : u = WithInbox(s, i, q)
  OBVIOUS
<1>f. PICK f : f = [s.inbox EXCEPT ![i] = q]
  OBVIOUS
<1>1. u = [port |-> s.port, pending |-> s.pending, hand |-> s.hand, count |-> s.count, idle |-> s.idle, joined |-> s.joined, done |-> s.done, free |-> s.free, at |-> s.at, job |-> s.job, inbox |-> f, held |-> s.held]
  BY <1>u, <1>f DEF WithInbox, Typed, Shape
<1>2. Shape(u) /\ Keeps(s, u, {"inbox"}) /\ u.inbox = f
  BY <1>1 DEF Shape, Keeps
<1>3. Inboxes(f)
  BY <1>f, ToRequests, Who DEF Typed, Inboxes
<1>4. Typed(u)
  BY <1>2, <1>3 DEF Typed, Keeps
<1> QED BY <1>2, <1>4, <1>f, <1>u

LEMMA HeldSet ==
  ASSUME NEW s, Typed(s), NEW i \in Servers, NEW h, Fits(i, h)
  PROVE  /\ Typed(WithHeld(s, i, h)) /\ Keeps(s, WithHeld(s, i, h), {"held"})
         /\ WithHeld(s, i, h).held = [s.held EXCEPT ![i] = h]
<1>u. PICK u : u = WithHeld(s, i, h)
  OBVIOUS
<1>f. PICK f : f = [s.held EXCEPT ![i] = h]
  OBVIOUS
<1>1. u = [port |-> s.port, pending |-> s.pending, hand |-> s.hand, count |-> s.count, idle |-> s.idle, joined |-> s.joined, done |-> s.done, free |-> s.free, at |-> s.at, job |-> s.job, inbox |-> s.inbox, held |-> f]
  BY <1>u, <1>f DEF WithHeld, Typed, Shape
<1>2. Shape(u) /\ Keeps(s, u, {"held"}) /\ u.held = f
  BY <1>1 DEF Shape, Keeps
<1>3. Helds(f)
  BY <1>f, ToRequests, Who DEF Typed, Helds, Fits
<1>4. Typed(u)
  BY <1>2, <1>3 DEF Typed, Keeps
<1> QED BY <1>2, <1>4, <1>f, <1>u

-----------------------------------------------------------------------------
\* Who agrees with whom, when some go on with their work and others wait.

AgreeBut(s, i) ==
  /\ \A j \in Instances : StateOf(s, j)
  /\ \A j \in Servers \ {i} : Holds(s, j)
  /\ \A t \in Tasks : JoinsOf(s, t)
  /\ \A j \in Workers : WorkerOf(s, j)
  /\ \A t \in Multi : DispatcherOf(s, t)
  /\ \A t \in Tasks \ Multi : SingleOf(s, t)

LEMMA ButOne ==
  ASSUME NEW s, NEW i
  PROVE  Agree(s) <=> AgreeBut(s, i) /\ (i \in Servers => Holds(s, i))
  BY DEF Agree, AgreeBut

LEMMA Passing ==
  ASSUME NEW s, NEW u, Keeps(s, u, {"port", "pending", "free", "at", "job", "held"}), NEW i, AgreeBut(s, i),
         \A j \in Instances : \/ u.at[j] = s.at[j]
                              \/ j \in Servers /\ s.at[j] \in Working /\ u.at[j] \in Working
                              \/ j \in Customers /\ u.at[j] \in {"idle", "calling"},
         \A j \in Servers \ {i} : u.held[j] = s.held[j] /\ u.job[j] = s.job[j]
  PROVE  AgreeBut(u, i)
<1>1. /\ u.hand = s.hand /\ u.count = s.count /\ u.idle = s.idle /\ u.joined = s.joined /\ u.done = s.done
      /\ u.inbox = s.inbox
  BY DEF Keeps
<1>2. ASSUME NEW j \in Instances PROVE StateOf(u, j)
  <2>1. StateOf(s, j)
    BY DEF AgreeBut
  <2> QED BY <2>1, Who DEF StateOf, Working
<1>3. ASSUME NEW j \in Servers \ {i} PROVE Holds(u, j)
  <2>1. Holds(s, j)
    BY DEF AgreeBut
  <2>2. u.at[j] \in Working <=> s.at[j] \in Working
    BY Who
  <2> QED BY <1>1, <2>1, <2>2 DEF Holds
<1>4. ASSUME NEW t \in Tasks PROVE JoinsOf(u, t)
  BY <1>1 DEF AgreeBut, JoinsOf
<1>5. ASSUME NEW j \in Workers PROVE WorkerOf(u, j)
  <2>1. WorkerOf(s, j)
    BY DEF AgreeBut
  <2>2. u.at[j] = s.at[j] \/ (s.at[j] \in Working /\ u.at[j] \in Working)
    BY Who
  <2> QED BY <1>1, <2>1, <2>2 DEF WorkerOf, Working
<1>6. ASSUME NEW t \in Multi PROVE DispatcherOf(u, t)
  <2>1. DispatcherOf(s, t)
    BY DEF AgreeBut
  <2>2. u.at[Main(t)] = s.at[Main(t)]
    BY Who
  <2>3. \A j \in WorkersOf(t) : s.at[j] = "starting" => u.at[j] = "starting"
    BY Who DEF WorkersOf, Working
  <2> QED BY <1>1, <2>1, <2>2, <2>3 DEF DispatcherOf
<1>7. ASSUME NEW t \in Tasks \ Multi PROVE SingleOf(u, t)
  BY <1>1 DEF AgreeBut, SingleOf
<1> QED BY <1>2, <1>3, <1>4, <1>5, <1>6, <1>7 DEF AgreeBut

-----------------------------------------------------------------------------
\* Requests are sent.

LEMMA PutSet ==
  ASSUME NEW s, Typed(s), NEW t \in Tasks, NEW r \in To(t)
  PROVE  /\ Typed(Put(s, r)) /\ Keeps(s, Put(s, r), {"port"})
         /\ Put(s, r).port = [s.port EXCEPT ![t] = Append(s.port[t], r)]
         /\ Adds(s.port[t], r, Append(s.port[t], r))
<1>1. TaskOf[r.entry] = t
  BY RequestsTo
<1>2. s.port[t] \in Seq(To(t))
  BY DEF Typed, Queues
<1>3. Append(s.port[t], r) \in Seq(To(t)) /\ Adds(s.port[t], r, Append(s.port[t], r))
  BY <1>2, AppendAdds
<1>q. PICK q : q = Append(s.port[t], r)
  OBVIOUS
<1>4. Put(s, r) = WithPort(s, t, q)
  BY <1>1, <1>q DEF Put, WithPort
<1>5. q \in Seq(To(t))
  BY <1>3, <1>q
<1>6. Typed(WithPort(s, t, q)) /\ Keeps(s, WithPort(s, t, q), {"port"}) /\ WithPort(s, t, q).port = [s.port EXCEPT ![t] = q]
  BY <1>5, PortSet
<1> QED BY <1>3, <1>4, <1>6, <1>q

LEMMA RequestIsTo ==
  ASSUME NEW i \in Callers, NEW e \in Entries
  PROVE  /\ Request(i, e, Priority[e], 0) \in To(TaskOf[e]) /\ TaskOf[e] \in Tasks
         /\ ThingOf(TaskOf[e], Request(i, e, Priority[e], 0)) = Rendezvous(i)
<1>1. Priority[e] \in Nat /\ TaskOf[e] \in Tasks /\ Pool \in Nat
  BY ServersAssumption
<1>2. i \in Instances /\ i # NoOne
  BY Who DEF Callers
<1>4. 0 \in 0..Pool /\ ~(0 > 0)
  BY <1>1
<1>5. Request(i, e, Priority[e], 0) \in To(TaskOf[e])
  BY <1>1, <1>2, <1>4 DEF Request, Requests, To
<1>7. ThingOf(TaskOf[e], Request(i, e, Priority[e], 0)) = Rendezvous(i)
  BY <1>2 DEF ThingOf, Request
<1> QED BY <1>1, <1>5, <1>7

LEMMA MessageIsTo ==
  ASSUME NEW e \in Entries, NEW n \in 1..Pool
  PROVE  /\ Request(NoOne, e, Priority[e], n) \in To(TaskOf[e]) /\ TaskOf[e] \in Tasks
         /\ ThingOf(TaskOf[e], Request(NoOne, e, Priority[e], n)) = MessageOf(TaskOf[e], n)
<1>1. Priority[e] \in Nat /\ TaskOf[e] \in Tasks /\ Pool \in Nat
  BY ServersAssumption
<1>2. n \in 0..Pool /\ n > 0
  BY <1>1
<1>3. Request(NoOne, e, Priority[e], n) \in To(TaskOf[e])
  BY <1>1, <1>2 DEF Request, Requests, To
<1>4. ThingOf(TaskOf[e], Request(NoOne, e, Priority[e], n)) = MessageOf(TaskOf[e], n)
  BY DEF ThingOf, Request
<1> QED BY <1>1, <1>3, <1>4

LEMMA SyncSent ==
  ASSUME NEW s, Good(s), NEW i \in Callers, s.at[i] = GoesOn(i), NEW e \in Entries
  PROVE  Good(SendSync(s, i, e)) /\ SendSync(s, i, e).count = s.count
<1>v. PICK v : v = WithAt(s, i, "calling")
  OBVIOUS
<1>r. PICK r : r = Request(i, e, Priority[e], 0)
  OBVIOUS
<1>u. PICK u : u = Put(v, r)
  OBVIOUS
<1>t. PICK t : t = TaskOf[e]
  OBVIOUS
<1>0. u = SendSync(s, i, e)
  BY <1>v, <1>r, <1>u DEF SendSync, WithAt
<1>1. i \in Instances /\ Typed(s)
  BY Who DEF Callers, Good
<1>2. Typed(v) /\ Keeps(s, v, {"at"}) /\ v.at = [s.at EXCEPT ![i] = "calling"]
  BY <1>1, <1>v, AtSet DEF States
<1>3. r \in To(t) /\ t \in Tasks /\ ThingOf(t, r) = Rendezvous(i)
  BY <1>r, <1>t, RequestIsTo
<1>4. Typed(u) /\ Keeps(v, u, {"port"}) /\ u.port = [v.port EXCEPT ![t] = Append(v.port[t], r)] /\ Adds(v.port[t], r, Append(v.port[t], r))
  BY <1>2, <1>3, <1>u, PutSet
<1>5. /\ Keeps(s, u, {"port", "at"}) /\ u.at = [s.at EXCEPT ![i] = "calling"] /\ u.port = [s.port EXCEPT ![t] = Append(s.port[t], r)]
      /\ Adds(s.port[t], r, Append(s.port[t], r))
  BY <1>2, <1>4 DEF Keeps
<1>6. DOMAIN s.at = Instances /\ DOMAIN s.port = Tasks
  BY <1>1 DEF Typed, Queues
<1>7. Agree(u)
  <2>1. AgreeBut(s, NoOne)
    BY ButOne DEF Good
  <2>2. \A j \in Instances : \/ u.at[j] = s.at[j]
                             \/ j \in Servers /\ s.at[j] \in Working /\ u.at[j] \in Working
                             \/ j \in Customers /\ u.at[j] \in {"idle", "calling"}
    BY <1>5, <1>6 DEF GoesOn, Callers, Working
  <2>3. Keeps(s, u, {"port", "pending", "free", "at", "job", "held"}) /\ u.held = s.held /\ u.job = s.job
    BY <1>5 DEF Keeps
  <2>4. AgreeBut(u, NoOne)
    BY <2>1, <2>2, <2>3, Passing
  <2> QED BY <2>4, ButOne, Who
<1>8. Placed(u)
  <2>a. PICK a : a = Site("port", t, None)
    OBVIOUS
  <2>x. PICK x : x = Rendezvous(i)
    OBVIOUS
  <2>1. a \in Sites /\ Box(s, a) = s.port[t] /\ Box(u, a) = u.port[t] /\ Thing(a, r) = x
    BY <1>3, <2>a, <2>x, WhatIsWhere, Boxes, ThingsAt
  <2>2. Adds(Box(s, a), r, Box(u, a))
    BY <1>3, <1>5, <1>6, <2>1
  <2>3. Rest(s, u, {a})
    BY <1>5, <1>6, <2>a DEF Rest, Keeps
  <2>4. x \in Things /\ x.of = i /\ x.kind = "caller"
    BY <2>x, Things2
  <2>5. ~Exists(s, x) /\ Exists(u, x)
    BY <1>1, <1>5, <1>6, <2>4 DEF Exists, GoesOn
  <2>6. ASSUME NEW y \in Things, y # x PROVE Exists(u, y) <=> Exists(s, y)
    <3>1. y.kind = "caller" => y.of # i /\ y.of \in Instances
      BY <2>6, <2>x, Things2, Who DEF Callers
    <3> QED BY <1>5, <1>6, <3>1 DEF Exists
  <2>7. Elsewhere(s, u, {a}) /\ Placed(s)
    BY <2>3, OnlyThere DEF Good
  <2> QED BY <2>1, <2>2, <2>4, <2>5, <2>6, <2>7, Sent
<1> QED BY <1>0, <1>4, <1>5, <1>7, <1>8 DEF Good, Keeps

LEMMA AsyncSent ==
  ASSUME NEW s, Good(s), NEW e \in Entries
  PROVE  Good(SendAsync(s, e)) /\ SendAsync(s, e).count = s.count
<1>t. PICK t : t = TaskOf[e]
  OBVIOUS
<1>1. CASE s.free[t] = <<>>
  BY <1>1, <1>t DEF SendAsync
<1>2. CASE s.free[t] # <<>>
  <2>f. PICK f, n : f = Tail(s.free[t]) /\ n = Head(s.free[t])
    OBVIOUS
  <2>v. PICK v : v = WithFree(s, t, f)
    OBVIOUS
  <2>r. PICK r : r = Request(NoOne, e, Priority[e], n)
    OBVIOUS
  <2>u. PICK u : u = Put(v, r)
    OBVIOUS
  <2>0. u = SendAsync(s, e)
    BY <1>2, <1>t, <2>f, <2>v, <2>r, <2>u DEF SendAsync, WithFree
  <2>1. t \in Tasks /\ Typed(s)
    BY <1>t, ServersAssumption DEF Good
  <2>2. Drops(s.free[t], 1, f) /\ f \in Seq(1..Pool) /\ s.free[t][1] = n /\ n \in 1..Pool
    <3>1. s.free[t] \in Seq(1..Pool)
      BY <2>1 DEF Typed
    <3> QED BY <1>2, <2>f, <3>1, TailDrops
  <2>3. Typed(v) /\ Keeps(s, v, {"free"}) /\ v.free = [s.free EXCEPT ![t] = f]
    BY <2>1, <2>2, <2>v, FreeSet
  <2>4. r \in To(t) /\ ThingOf(t, r) = MessageOf(t, n)
    BY <1>t, <2>2, <2>r, MessageIsTo
  <2>5. Typed(u) /\ Keeps(v, u, {"port"}) /\ u.port = [v.port EXCEPT ![t] = Append(v.port[t], r)] /\ Adds(v.port[t], r, Append(v.port[t], r))
    BY <2>1, <2>3, <2>4, <2>u, PutSet
  <2>6. /\ Keeps(s, u, {"port", "free"}) /\ u.free = [s.free EXCEPT ![t] = f] /\ u.port = [s.port EXCEPT ![t] = Append(s.port[t], r)]
        /\ Adds(s.port[t], r, Append(s.port[t], r))
    BY <2>3, <2>5 DEF Keeps
  <2>7. DOMAIN s.free = Tasks /\ DOMAIN s.port = Tasks
    BY <2>1 DEF Typed, Queues
  <2>8. Agree(u)
    <3>1. AgreeBut(s, NoOne)
      BY ButOne DEF Good
    <3>2. Keeps(s, u, {"port", "pending", "free", "at", "job", "held"}) /\ u.held = s.held /\ u.job = s.job /\ u.at = s.at
      BY <2>6 DEF Keeps
    <3>3. AgreeBut(u, NoOne)
      BY <3>1, <3>2, Passing
    <3> QED BY <3>3, ButOne, Who
  <2>9. Placed(u)
    <3>a. PICK a, b : a = Site("free", t, None) /\ b = Site("port", t, None)
      OBVIOUS
    <3>x. PICK x : x = MessageOf(t, n)
      OBVIOUS
    <3>1. /\ a \in Sites /\ Box(s, a) = s.free[t] /\ Box(u, a) = u.free[t] /\ Thing(a, n) = x
          /\ b \in Sites /\ Box(s, b) = s.port[t] /\ Box(u, b) = u.port[t] /\ Thing(b, r) = x
      BY <2>1, <2>4, <3>a, <3>x, WhatIsWhere, Boxes, ThingsAt
    <3>2. a # b
      BY <3>a DEF Site
    <3>3. Drops(Box(s, a), 1, Box(u, a)) /\ x = Thing(a, Box(s, a)[1])
      BY <2>1, <2>2, <2>6, <2>7, <3>1
    <3>4. Adds(Box(s, b), r, Box(u, b))
      BY <2>1, <2>6, <2>7, <3>1
    <3>5. Elsewhere(s, u, {a, b})
      <4>1. Rest(s, u, {a, b})
        BY <2>6, <2>7, <3>a DEF Rest, Keeps
      <4> QED BY <4>1, OnlyThere
    <3>6. x \in Things /\ SameLife(s, u) /\ Placed(s)
      <4>1. u.at = s.at
        BY <2>6 DEF Keeps
      <4> QED BY <2>1, <2>2, <3>x, <4>1, Things2, Alike DEF Good
    <3> QED BY <3>1, <3>2, <3>3, <3>4, <3>5, <3>6, Moved
  <2> QED BY <2>0, <2>5, <2>6, <2>8, <2>9 DEF Good, Keeps
<1> QED BY <1>1, <1>2

\* An instance that is not waiting makes a call.
LEMMA SendStep ==
  ASSUME NEW s, Good(s), NEW i \in Callers, s.at[i] = GoesOn(i), NEW c \in Call
  PROVE  Good(Send(s, i, c)) /\ Send(s, i, c).count = s.count
<1>1. c.to \in Entries /\ c.mode \in {"sync", "async"}
  BY DEF Call, Modes
<1> QED BY <1>1, SyncSent, AsyncSent DEF Send

LEMMA AskStep ==
  ASSUME IInv, NEW i \in Customers, Ask(i)
  PROVE  Good(k') /\ k'.count = k.count
<1>1. PICK c \in world.asks[i[1]] : k.at[i] = "idle" /\ k' = Send(k, i, c)
  BY DEF Ask
<1>2. c \in Call
  BY Who, ServersAssumption DEF IInv
<1>3. Good(k) /\ i \in Callers /\ k.at[i] = GoesOn(i)
  BY <1>1 DEF IInv, Good, Callers, GoesOn
<1> QED BY <1>1, <1>2, <1>3, SendStep

-----------------------------------------------------------------------------
\* What a server holds is freed, replied to or forwarded.

Clear(s, i, e) == [s EXCEPT !.held[i][e] = Nothing]
\* The state u is s but for what server i holds for its entry e, which is gone.
Cleared(s, u, i, e) ==
  /\ u.held[i][e] = Nothing
  /\ \A f \in EntriesOf(i) : f # e => u.held[i][f] = s.held[i][f]
  /\ \A j \in Servers \ {i} : u.held[j] = s.held[j]

LEMMA ClearSet ==
  ASSUME NEW s, Typed(s), NEW i \in Servers, NEW e \in EntriesOf(i)
  PROVE  Typed(Clear(s, i, e)) /\ Keeps(s, Clear(s, i, e), {"held"}) /\ Cleared(s, Clear(s, i, e), i, e)
<1>h. PICK h : h = [s.held[i] EXCEPT ![e] = Nothing]
  OBVIOUS
<1>1. DOMAIN s.held = Servers /\ Fits(i, s.held[i])
  BY DEF Typed, Helds
<1>2. Fits(i, h) /\ h[e] = Nothing /\ \A f \in EntriesOf(i) : f # e => h[f] = s.held[i][f]
  BY <1>1, <1>h, RequestsTo DEF Fits
<1>3. Clear(s, i, e) = WithHeld(s, i, h)
  BY <1>h DEF Clear, WithHeld
<1>4. Typed(Clear(s, i, e)) /\ Keeps(s, Clear(s, i, e), {"held"}) /\ Clear(s, i, e).held = [s.held EXCEPT ![i] = h]
  BY <1>2, <1>3, HeldSet
<1> QED BY <1>1, <1>2, <1>4 DEF Cleared

LEMMA HeldIsTo ==
  ASSUME NEW s, Typed(s), NEW i \in Servers, NEW e \in EntriesOf(i), s.held[i][e] # Nothing
  PROVE  s.held[i][e] \in To(i[1]) /\ s.held[i][e].entry = e /\ TaskOf[e] = i[1] /\ i[1] \in Tasks /\ e \in Entries
<1>1. Fits(i, s.held[i])
  BY DEF Typed, Helds
<1>2. s.held[i][e] \in To(i[1]) /\ s.held[i][e].entry = e
  BY <1>1 DEF Fits
<1>3. i[1] \in Tasks
  BY Who
<1> QED BY <1>2, <1>3 DEF EntriesOf

\* What is gone from its place.
LEMMA HeldDrops ==
  ASSUME NEW s, NEW u, NEW i \in Servers, NEW e \in EntriesOf(i), NEW a, a = Site("held", i, e), NEW r,
         r = s.held[i][e], r # Nothing, u.held[i][e] = Nothing
  PROVE  Drops(Box(s, a), 1, Box(u, a)) /\ Box(s, a)[1] = r /\ Box(u, a) = <<>> /\ Thing(a, r) = ThingOf(i[1], r) /\ a \in Sites
<1>1. Box(s, a) = Optional(r) /\ Box(u, a) = Optional(Nothing) /\ Thing(a, r) = ThingOf(i[1], r) /\ a \in Sites
  BY Boxes, ThingsAt, WhatIsWhere
<1>2. Optional(Nothing) = <<>>
  BY DEF Optional
<1> QED BY <1>1, <1>2, HandAdds

LEMMA Freed ==
  ASSUME NEW s, Typed(s), Placed(s), NEW i \in Servers, NEW e \in EntriesOf(i), s.held[i][e].slot > 0
  PROVE  /\ Typed(FreeMessage(Clear(s, i, e), s.held[i][e])) /\ Placed(FreeMessage(Clear(s, i, e), s.held[i][e]))
         /\ Keeps(s, FreeMessage(Clear(s, i, e), s.held[i][e]), {"free", "held"})
         /\ Cleared(s, FreeMessage(Clear(s, i, e), s.held[i][e]), i, e)
<1>r. PICK r, t : r = s.held[i][e] /\ t = i[1]
  OBVIOUS
<1>v. PICK v : v = Clear(s, i, e)
  OBVIOUS
<1>u. PICK u : u = FreeMessage(v, r)
  OBVIOUS
<1>1. r # Nothing
  BY <1>r, RequestsTo
<1>2. r \in To(t) /\ t \in Tasks /\ TaskOf[r.entry] = t
  BY <1>1, <1>r, HeldIsTo
<1>3. r.slot \in 1..Pool /\ ThingOf(t, r) = MessageOf(t, r.slot) /\ MessageOf(t, r.slot) \in Things
  <2>1. r.slot \in 0..Pool /\ r.slot > 0 /\ Pool \in Nat
    BY <1>2, <1>r, RequestsTo, ServersAssumption
  <2> QED BY <1>2, <2>1, ThingsOf
<1>4. Typed(v) /\ Keeps(s, v, {"held"}) /\ Cleared(s, v, i, e)
  BY <1>v, ClearSet
<1>f. PICK f : f = Append(v.free[t], r.slot)
  OBVIOUS
<1>5. f \in Seq(1..Pool) /\ Adds(v.free[t], r.slot, f)
  <2>1. v.free[t] \in Seq(1..Pool)
    BY <1>2, <1>4 DEF Typed
  <2> QED BY <1>3, <1>f, <2>1, AppendAdds
<1>6. u = WithFree(v, t, f)
  BY <1>2, <1>u, <1>f DEF FreeMessage, WithFree
<1>7. Typed(u) /\ Keeps(v, u, {"free"}) /\ u.free = [v.free EXCEPT ![t] = f]
  BY <1>2, <1>4, <1>5, <1>6, FreeSet
<1>8. Keeps(s, u, {"free", "held"}) /\ Cleared(s, u, i, e) /\ u.free = [s.free EXCEPT ![t] = f] /\ Adds(s.free[t], r.slot, f)
  BY <1>4, <1>5, <1>7 DEF Keeps, Cleared
<1>9. DOMAIN s.free = Tasks
  BY DEF Typed
<1>10. Placed(u)
  <2>a. PICK a, b : a = Site("held", i, e) /\ b = Site("free", t, None)
    OBVIOUS
  <2>x. PICK x : x = MessageOf(t, r.slot)
    OBVIOUS
  <2>1. Drops(Box(s, a), 1, Box(u, a)) /\ x = Thing(a, Box(s, a)[1]) /\ a \in Sites
    <3>1. u.held[i][e] = Nothing
      BY <1>8 DEF Cleared
    <3>2. Drops(Box(s, a), 1, Box(u, a)) /\ Box(s, a)[1] = r /\ Thing(a, r) = ThingOf(i[1], r) /\ a \in Sites
      BY <1>1, <1>r, <2>a, <3>1, HeldDrops
    <3> QED BY <1>3, <1>r, <2>x, <3>2
  <2>2. Adds(Box(s, b), r.slot, Box(u, b)) /\ x = Thing(b, r.slot) /\ b \in Sites
    <3>1. Box(s, b) = s.free[t] /\ Box(u, b) = u.free[t] /\ Thing(b, r.slot) = x /\ b \in Sites
      BY <1>2, <2>a, <2>x, WhatIsWhere, Boxes, ThingsAt
    <3> QED BY <1>2, <1>8, <1>9, <3>1
  <2>3. a # b
    BY <2>a DEF Site
  <2>4. Elsewhere(s, u, {a, b})
    <3>1. Rest(s, u, {a, b})
      BY <1>8, <1>9, <2>a DEF Rest, Keeps, Cleared
    <3> QED BY <3>1, OnlyThere
  <2>5. SameLife(s, u)
    <3>1. u.at = s.at
      BY <1>8 DEF Keeps
    <3> QED BY <3>1, Alike
  <2>6. x \in Things
    BY <1>3, <2>x
  <2> QED BY <2>1, <2>2, <2>3, <2>4, <2>5, <2>6, Moved
<1> QED BY <1>7, <1>8, <1>10, <1>r, <1>u, <1>v

LEMMA HeldHere ==
  ASSUME NEW s, NEW i \in Servers, NEW e \in EntriesOf(i), NEW a, a = Site("held", i, e), NEW r, r = s.held[i][e]
  PROVE  /\ r # Nothing => \A x : Here(s, a, x) <=> x = ThingOf(i[1], r)
         /\ r = Nothing => \A x : ~Here(s, a, x)
<1>1. Box(s, a) = Optional(r) /\ Thing(a, r) = ThingOf(i[1], r)
  BY Boxes, ThingsAt
<1>2. CASE r = Nothing
  BY <1>1, <1>2 DEF Optional, Here
<1>3. CASE r # Nothing
  <2>1. Box(s, a) = <<r>>
    BY <1>1, <1>3 DEF Optional
  <2> QED BY <1>1, <1>3, <2>1 DEF Here
<1> QED BY <1>2, <1>3

\* A held rendezvous is of a caller that waits.
LEMMA HeldWaits ==
  ASSUME NEW s, Typed(s), Placed(s), NEW i \in Servers, NEW e \in EntriesOf(i), s.held[i][e] # Nothing, s.held[i][e].slot = 0
  PROVE  /\ s.held[i][e].from \in Callers /\ s.at[s.held[i][e].from] = "calling" /\ s.held[i][e].from \in Instances
         /\ ThingOf(i[1], s.held[i][e]) = Rendezvous(s.held[i][e].from)
<1>r. PICK r, t : r = s.held[i][e] /\ t = i[1]
  OBVIOUS
<1>1. r \in To(t) /\ t \in Tasks
  BY <1>r, HeldIsTo
<1>2. ThingOf(t, r) = Rendezvous(r.from) /\ r.from \in Callers
  BY <1>1, <1>r, ThingsOf
<1>3. PICK x : x = Rendezvous(r.from)
  OBVIOUS
<1>4. x \in Things /\ x.kind = "caller" /\ x.of = r.from
  BY <1>2, <1>3, Things2
<1>5. PICK a : a = Site("held", i, e)
  OBVIOUS
<1>6. Here(s, a, x) /\ a \in Sites
  BY <1>2, <1>3, <1>5, <1>r, HeldHere, WhatIsWhere
<1>7. Exists(s, x)
  BY <1>4, <1>6 DEF Placed
<1> QED BY <1>2, <1>4, <1>7, <1>r, Who DEF Exists, Callers

LEMMA Resumed ==
  ASSUME NEW s, Typed(s), Placed(s), NEW i \in Servers, NEW e \in EntriesOf(i), s.held[i][e] # Nothing, s.held[i][e].slot = 0
  PROVE  /\ Typed(Resume(Clear(s, i, e), s.held[i][e].from)) /\ Placed(Resume(Clear(s, i, e), s.held[i][e].from))
         /\ Keeps(s, Resume(Clear(s, i, e), s.held[i][e].from), {"at", "held"})
         /\ Cleared(s, Resume(Clear(s, i, e), s.held[i][e].from), i, e)
         /\ Resume(Clear(s, i, e), s.held[i][e].from).at = [s.at EXCEPT ![s.held[i][e].from] = GoesOn(s.held[i][e].from)]
<1>r. PICK r, j : r = s.held[i][e] /\ j = r.from
  OBVIOUS
<1>v. PICK v : v = Clear(s, i, e)
  OBVIOUS
<1>u. PICK u : u = Resume(v, j)
  OBVIOUS
<1>1. j \in Callers /\ j \in Instances /\ s.at[j] = "calling" /\ ThingOf(i[1], r) = Rendezvous(j)
  BY <1>r, HeldWaits
<1>2. Typed(v) /\ Keeps(s, v, {"held"}) /\ Cleared(s, v, i, e)
  BY <1>v, ClearSet
<1>3. GoesOn(j) \in States /\ GoesOn(j) # "calling"
  BY DEF GoesOn, States
<1>4. u = WithAt(v, j, GoesOn(j))
  BY <1>u DEF Resume, WithAt
<1>g. PICK g : g = GoesOn(j)
  OBVIOUS
<1>5. Typed(u) /\ Keeps(v, u, {"at"}) /\ u.at = [v.at EXCEPT ![j] = g]
  BY <1>1, <1>2, <1>3, <1>4, <1>g, AtSet
<1>6. Keeps(s, u, {"at", "held"}) /\ Cleared(s, u, i, e) /\ u.at = [s.at EXCEPT ![j] = g] /\ u.at[j] # "calling"
  <2>1. DOMAIN s.at = Instances /\ s.at = v.at
    BY <1>2 DEF Typed, Keeps
  <2> QED BY <1>1, <1>2, <1>3, <1>5, <1>g, <2>1 DEF Keeps, Cleared
<1>7. Placed(u)
  <2>a. PICK a : a = Site("held", i, e)
    OBVIOUS
  <2>1. \A x : Here(s, a, x) <=> x = Rendezvous(j)
    BY <1>1, <1>r, <2>a, HeldHere
  <2>2. Box(u, a) = <<>>
    <3>1. u.held[i][e] = Nothing
      BY <1>6 DEF Cleared
    <3>2. Box(u, a) = Optional(u.held[i][e])
      BY <2>a, Boxes
    <3> QED BY <3>1, <3>2 DEF Optional
  <2>3. \A c \in Sites : c # a => Box(u, c) = Box(s, c)
    <3>1. Rest(s, u, {a})
      BY <1>6, <2>a DEF Rest, Keeps, Cleared
    <3> QED BY <3>1, OnlyThere DEF Elsewhere
  <2>4. ASSUME NEW x \in Things
        PROVE  Exists(u, x) <=> Exists(s, x) /\ \A c \in Sites : Here(s, c, x) => Box(u, c) # <<>>
    <3>1. CASE x = Rendezvous(j)
      <4>1. a \in Sites /\ x.kind = "caller" /\ x.of = j
        BY <1>1, <2>a, <3>1, Things2, WhatIsWhere
      <4> QED BY <1>6, <2>1, <2>2, <3>1, <4>1 DEF Exists
    <3>2. CASE x # Rendezvous(j)
      <4>1. x.kind = "caller" => x.of # j /\ x.of \in Instances
        BY <3>2, Things2, Who DEF Callers
      <4>2. Exists(u, x) <=> Exists(s, x)
        BY <1>6, <4>1 DEF Exists
      <4>3. ASSUME NEW c \in Sites, Here(s, c, x) PROVE Box(u, c) # <<>>
        <5>1. c # a
          BY <2>1, <3>2, <4>3
        <5> QED BY <2>3, <4>3, <5>1 DEF Here
      <4> QED BY <4>2, <4>3
    <3> QED BY <3>1, <3>2
  <2> QED BY <2>2, <2>3, <2>4, Ended
<1> QED BY <1>5, <1>6, <1>7, <1>g, <1>r, <1>u, <1>v

Forward(r, to) == [r EXCEPT !.entry = to, !.pri = 0]

LEMMA Forwarded ==
  ASSUME NEW s, Typed(s), Placed(s), NEW i \in Servers, NEW e \in EntriesOf(i), s.held[i][e] # Nothing, s.held[i][e].slot = 0,
         NEW to \in Entries
  PROVE  /\ Typed(Put(Clear(s, i, e), Forward(s.held[i][e], to))) /\ Placed(Put(Clear(s, i, e), Forward(s.held[i][e], to)))
         /\ Keeps(s, Put(Clear(s, i, e), Forward(s.held[i][e], to)), {"port", "held"})
         /\ Cleared(s, Put(Clear(s, i, e), Forward(s.held[i][e], to)), i, e)
<1>r. PICK r, t, q : r = s.held[i][e] /\ t = TaskOf[to] /\ q = Forward(r, to)
  OBVIOUS
<1>v. PICK v : v = Clear(s, i, e)
  OBVIOUS
<1>u. PICK u : u = Put(v, q)
  OBVIOUS
<1>x. PICK x : x = Rendezvous(r.from)
  OBVIOUS
<1>1. r.from \in Callers /\ r.from \in Instances /\ ThingOf(i[1], r) = x /\ x \in Things
  BY <1>r, <1>x, HeldWaits, Things2
<1>2. r \in Requests /\ r.slot = 0 /\ r.from # NoOne
  <2>1. r \in To(i[1])
    BY <1>r, HeldIsTo
  <2> QED BY <1>r, <2>1, RequestsTo
<1>3. t \in Tasks /\ q \in To(t) /\ ThingOf(t, q) = x
  <2>1. t \in Tasks
    BY <1>r, ServersAssumption
  <2>2. q \in Requests /\ q.entry = to /\ q.slot = 0 /\ q.from = r.from
    BY <1>2, <1>r DEF Forward, Requests
  <2>3. q \in To(t)
    BY <1>1, <1>2, <1>r, <2>2 DEF To
  <2> QED BY <1>2, <1>x, <2>1, <2>2, <2>3 DEF ThingOf
<1>4. Typed(v) /\ Keeps(s, v, {"held"}) /\ Cleared(s, v, i, e)
  BY <1>v, ClearSet
<1>5. Typed(u) /\ Keeps(v, u, {"port"}) /\ u.port = [v.port EXCEPT ![t] = Append(v.port[t], q)] /\ Adds(v.port[t], q, Append(v.port[t], q))
  BY <1>3, <1>4, <1>u, PutSet
<1>6. /\ Keeps(s, u, {"port", "held"}) /\ Cleared(s, u, i, e) /\ u.port = [s.port EXCEPT ![t] = Append(s.port[t], q)]
      /\ Adds(s.port[t], q, Append(s.port[t], q)) /\ DOMAIN s.port = Tasks
  <2>1. v.port = s.port /\ DOMAIN s.port = Tasks /\ u.held = v.held
    BY <1>4, <1>5 DEF Keeps, Typed, Queues
  <2>2. Keeps(s, u, {"port", "held"})
    BY <1>4, <1>5 DEF Keeps
  <2>3. Cleared(s, u, i, e)
    BY <1>4, <2>1 DEF Cleared
  <2> QED BY <1>5, <2>1, <2>2, <2>3
<1>7. Placed(u)
  <2>a. PICK a, b : a = Site("held", i, e) /\ b = Site("port", t, None)
    OBVIOUS
  <2>1. Drops(Box(s, a), 1, Box(u, a)) /\ x = Thing(a, Box(s, a)[1]) /\ a \in Sites
    <3>1. u.held[i][e] = Nothing
      BY <1>6 DEF Cleared
    <3>2. Drops(Box(s, a), 1, Box(u, a)) /\ Box(s, a)[1] = r /\ Thing(a, r) = ThingOf(i[1], r) /\ a \in Sites
      BY <1>r, <2>a, <3>1, HeldDrops
    <3> QED BY <1>1, <3>2
  <2>2. Adds(Box(s, b), q, Box(u, b)) /\ x = Thing(b, q) /\ b \in Sites
    <3>1. Box(s, b) = s.port[t] /\ Box(u, b) = u.port[t] /\ Thing(b, q) = ThingOf(t, q) /\ b \in Sites
      BY <1>3, <2>a, WhatIsWhere, Boxes, ThingsAt
    <3> QED BY <1>3, <1>6, <3>1
  <2>3. a # b
    BY <2>a DEF Site
  <2>4. Elsewhere(s, u, {a, b})
    <3>1. Rest(s, u, {a, b})
      BY <1>6, <2>a DEF Rest, Keeps, Cleared
    <3> QED BY <3>1, OnlyThere
  <2>5. SameLife(s, u)
    <3>1. u.at = s.at
      BY <1>6 DEF Keeps
    <3> QED BY <3>1, Alike
  <2> QED BY <1>1, <2>1, <2>2, <2>3, <2>4, <2>5, Moved
<1> QED BY <1>5, <1>6, <1>7, <1>r, <1>u, <1>v

\* What a phase does with the request that it has served.
LEMMA Answers ==
  ASSUME NEW s, Typed(s), Placed(s), NEW i \in Servers, NEW e \in EntriesOf(i), NEW to \in Entries \cup {None}
  PROVE  /\ Typed(Answer(s, i, e, to)) /\ Placed(Answer(s, i, e, to))
         /\ Keeps(s, Answer(s, i, e, to), {"port", "free", "at", "held"}) /\ Cleared(s, Answer(s, i, e, to), i, e)
         /\ \A j \in Instances : \/ Answer(s, i, e, to).at[j] = s.at[j]
                                 \/ j \in Callers /\ s.at[j] = "calling" /\ Answer(s, i, e, to).at[j] = GoesOn(j)
<1>r. PICK r : r = s.held[i][e]
  OBVIOUS
<1>v. PICK v : v = Clear(s, i, e)
  OBVIOUS
<1>u. PICK u : u = Answer(s, i, e, to)
  OBVIOUS
<1>0. u = IF r = Nothing THEN s ELSE IF r.slot > 0 THEN FreeMessage(v, r)
          ELSE IF to = None THEN Resume(v, r.from) ELSE Put(v, Forward(r, to))
  BY <1>r, <1>u, <1>v DEF Answer, Clear, Forward
<1>1. CASE r = Nothing
  <2>1. u = s
    BY <1>0, <1>1
  <2> QED BY <1>1, <1>r, <1>u, <2>1 DEF Keeps, Cleared
<1>2. CASE r # Nothing /\ r.slot > 0
  <2>1. u = FreeMessage(v, r)
    BY <1>0, <1>2
  <2>2. Typed(u) /\ Placed(u) /\ Keeps(s, u, {"free", "held"}) /\ Cleared(s, u, i, e)
    BY <1>2, <1>r, <1>v, <2>1, Freed
  <2> QED BY <1>u, <2>2 DEF Keeps
<1>3. CASE r # Nothing /\ ~(r.slot > 0) /\ to = None
  <2>0. r.slot = 0
    BY <1>3, <1>r, HeldIsTo, RequestsTo
  <2>1. u = Resume(v, r.from)
    BY <1>0, <1>3
  <2>2. Typed(u) /\ Placed(u) /\ Keeps(s, u, {"at", "held"}) /\ Cleared(s, u, i, e) /\ u.at = [s.at EXCEPT ![r.from] = GoesOn(r.from)]
    BY <1>3, <1>r, <1>v, <2>0, <2>1, Resumed
  <2>3. r.from \in Callers /\ s.at[r.from] = "calling" /\ DOMAIN s.at = Instances
    BY <1>3, <1>r, <2>0, HeldWaits DEF Typed
  <2> QED BY <1>u, <2>2, <2>3 DEF Keeps
<1>4. CASE r # Nothing /\ ~(r.slot > 0) /\ to # None
  <2>0. r.slot = 0
    BY <1>4, <1>r, HeldIsTo, RequestsTo
  <2>1. u = Put(v, Forward(r, to))
    BY <1>0, <1>4
  <2>2. to \in Entries
    BY <1>4
  <2>3. Typed(u) /\ Placed(u) /\ Keeps(s, u, {"port", "held"}) /\ Cleared(s, u, i, e)
    BY <1>4, <1>r, <1>v, <2>0, <2>1, <2>2, Forwarded
  <2> QED BY <1>u, <2>3 DEF Keeps
<1> QED BY <1>1, <1>2, <1>3, <1>4

-----------------------------------------------------------------------------
\* The server cycle.

LEMMA NotMoved ==
  ASSUME NEW s, NEW u, Placed(s), Keeps(s, u, {"at", "job", "count", "idle", "joined", "done"}),
         \A i \in Callers : u.at[i] = "calling" <=> s.at[i] = "calling"
  PROVE  Placed(u)
<1>1. Rest(s, u, {})
  BY DEF Rest, Keeps
<1> QED BY <1>1, OnlyThere, Alike, Unmoved

\* What server i works on.
Work(i) == k.job[i].entry

LEMMA Serving ==
  ASSUME IInv, NEW i \in Servers, k.at[i] = "serving"
  PROVE  /\ Typed(k) /\ Agree(k) /\ Placed(k)
         /\ Work(i) \in EntriesOf(i) /\ Work(i) \in Entries /\ TaskOf[Work(i)] = i[1] /\ i[1] \in Tasks
         /\ i \in Instances /\ Work(i) \notin k.joined[i[1]] /\ k.job[i] \in Job
         /\ k.job[i].phase = 2 => k.held[i][Work(i)] = Nothing \/ k.held[i][Work(i)].slot > 0
<1>1. Typed(k) /\ Agree(k) /\ Placed(k)
  BY DEF IInv, Good
<1>2. i \in Instances /\ i[1] \in Tasks
  BY Who
<1>3. Holds(k, i)
  BY <1>1 DEF Agree
<1>4. Work(i) \in EntriesOf(i) \ k.joined[i[1]] /\ (k.job[i].phase = 2 => k.held[i][Work(i)] = Nothing \/ k.held[i][Work(i)].slot > 0)
  BY <1>3 DEF Holds, Working, Work
<1>5. k.job[i] \in Job
  BY <1>1, <1>2 DEF Typed
<1> QED BY <1>1, <1>2, <1>4, <1>5 DEF EntriesOf

LEMMA SecondSet ==
  ASSUME NEW s, Typed(s), NEW i \in Instances
  PROVE  /\ Typed(SecondPhase(s, i)) /\ Keeps(s, SecondPhase(s, i), {"job"})
         /\ SecondPhase(s, i).job[i] = [entry |-> s.job[i].entry, phase |-> 2, step |-> 1]
         /\ \A j \in Instances : j # i => SecondPhase(s, i).job[j] = s.job[j]
<1>j. PICK g : g = [entry |-> s.job[i].entry, phase |-> 2, step |-> 1]
  OBVIOUS
<1>1. s.job[i] \in Job /\ DOMAIN s.job = Instances
  BY DEF Typed
<1>h. PICK h : h = [s.job[i] EXCEPT !.phase = 2]
  OBVIOUS
<1>2. h \in Job /\ g \in Job /\ g = [h EXCEPT !.step = 1]
  <2>1. PICK c \in Entries \cup {None}, p \in Phases, n \in Nat : s.job[i] = [entry |-> c, phase |-> p, step |-> n]
    BY <1>1 DEF Job
  <2>2. h = [entry |-> c, phase |-> 2, step |-> n] /\ g = [entry |-> c, phase |-> 2, step |-> 1]
    BY <1>h, <1>j, <2>1
  <2>3. [h EXCEPT !.step = 1] = [entry |-> c, phase |-> 2, step |-> 1]
    BY <2>2
  <2> QED BY <2>2, <2>3 DEF Job, Phases
<1>v. PICK v : v = WithJob(s, i, h)
  OBVIOUS
<1>3. Typed(v) /\ Keeps(s, v, {"job"}) /\ v.job = [s.job EXCEPT ![i] = h]
  BY <1>2, <1>v, JobSet
<1>4. v.job[i] = h
  BY <1>1, <1>3
<1>5. SecondPhase(s, i) = [v EXCEPT !.job[i] = [v.job[i] EXCEPT !.step = 1]]
  BY <1>h, <1>v DEF SecondPhase, WithJob
<1>6. SecondPhase(s, i) = WithJob(v, i, g)
  BY <1>2, <1>4, <1>5 DEF WithJob
<1>7. Typed(WithJob(v, i, g)) /\ Keeps(v, WithJob(v, i, g), {"job"}) /\ WithJob(v, i, g).job = [v.job EXCEPT ![i] = g]
  BY <1>2, <1>3, JobSet
<1>u. PICK u : u = SecondPhase(s, i)
  OBVIOUS
<1>8. Typed(u) /\ Keeps(s, u, {"job"})
  BY <1>3, <1>6, <1>7, <1>u DEF Keeps
<1>9. u.job[i] = g /\ \A j \in Instances : j # i => u.job[j] = s.job[j]
  BY <1>1, <1>3, <1>6, <1>7, <1>u
<1> QED BY <1>8, <1>9, <1>j, <1>u

LEMMA ReplyStep ==
  ASSUME IInv, NEW i \in Servers, Reply(i)
  PROVE  Good(k') /\ k'.count = k.count
<1>e. PICK e : e = Work(i)
  OBVIOUS
<1>1. PICK to \in Forwards[e] : k.at[i] = "serving" /\ k' = SecondPhase(Answer(k, i, e, to), i)
  BY <1>e DEF Reply, AtEnd, Busy, Work
<1>2. /\ Typed(k) /\ Agree(k) /\ Placed(k) /\ e \in EntriesOf(i) /\ e \in Entries /\ i \in Instances
      /\ e \notin k.joined[i[1]]
  BY <1>1, <1>e, Serving
<1>3. to \in Entries \cup {None}
  BY <1>2, ServersAssumption
<1>v. PICK v : v = Answer(k, i, e, to)
  OBVIOUS
<1>4. /\ Typed(v) /\ Placed(v) /\ Keeps(k, v, {"port", "free", "at", "held"}) /\ Cleared(k, v, i, e)
      /\ \A j \in Instances : v.at[j] = k.at[j] \/ (j \in Callers /\ k.at[j] = "calling" /\ v.at[j] = GoesOn(j))
  BY <1>2, <1>3, <1>v, Answers
<1>5. /\ Typed(k') /\ Keeps(v, k', {"job"}) /\ k'.job[i] = [entry |-> v.job[i].entry, phase |-> 2, step |-> 1]
      /\ \A j \in Instances : j # i => k'.job[j] = v.job[j]
  BY <1>1, <1>2, <1>4, <1>v, SecondSet
<1>6. Keeps(k, k', {"port", "free", "at", "held", "job"}) /\ Cleared(k, k', i, e) /\ k'.at = v.at /\ v.job = k.job
  BY <1>4, <1>5 DEF Keeps, Cleared
<1>7. Placed(k')
  <2>1. Keeps(v, k', {"at", "job", "count", "idle", "joined", "done"}) /\ k'.at = v.at
    BY <1>5 DEF Keeps
  <2> QED BY <1>4, <2>1, NotMoved
<1>8. Agree(k')
  <2>1. AgreeBut(k, i)
    BY <1>2, ButOne
  <2>2. \A j \in Instances : \/ k'.at[j] = k.at[j]
                             \/ j \in Servers /\ k.at[j] \in Working /\ k'.at[j] \in Working
                             \/ j \in Customers /\ k'.at[j] \in {"idle", "calling"}
    BY <1>4, <1>6 DEF GoesOn, Callers, Working
  <2>3. Keeps(k, k', {"port", "pending", "free", "at", "job", "held"})
    BY <1>6 DEF Keeps
  <2>4. \A j \in Servers \ {i} : k'.held[j] = k.held[j] /\ k'.job[j] = k.job[j]
    BY <1>5, <1>6, Who DEF Cleared
  <2>5. AgreeBut(k', i)
    BY <2>1, <2>2, <2>3, <2>4, Passing
  <2>6. Holds(k', i)
    <3>1. k'.job[i].entry = e /\ k'.job[i].step = 1 /\ k'.job[i].phase = 2
      BY <1>5, <1>6, <1>e DEF Work
    <3>2. k'.at[i] = "serving" /\ k'.joined = k.joined
      BY <1>1, <1>2, <1>4, <1>6 DEF Keeps
    <3>3. k'.held[i][e] = Nothing /\ \A f \in EntriesOf(i) : f # e => k'.held[i][f] = k.held[i][f]
      BY <1>6 DEF Cleared
    <3>4. \A f \in EntriesOf(i) : k.held[i][f] # Nothing => f = e \/ (f \in k.joined[i[1]] /\ k.held[i][f].slot = 0)
      BY <1>2, <1>e DEF Agree, Holds, Work
    <3> QED BY <1>2, <3>1, <3>2, <3>3, <3>4 DEF Holds, Working
  <2> QED BY <2>5, <2>6, ButOne
<1>9. k'.count = k.count
  BY <1>6 DEF Keeps
<1> QED BY <1>5, <1>7, <1>8, <1>9 DEF Good

LEMMA MakeCallStep ==
  ASSUME IInv, NEW i \in Servers, MakeCall(i)
  PROVE  Good(k') /\ k'.count = k.count
<1>n. PICK n, q : n = k.job[i].step /\ q = Calls[Work(i)][k.job[i].phase]
  OBVIOUS
<1>s. PICK s : s = [k EXCEPT !.job[i].step = n + 1]
  OBVIOUS
<1>1. k.at[i] = "serving" /\ n <= Len(q) /\ k' = Send(s, i, q[n])
  BY <1>n, <1>s DEF MakeCall, AtCall, Busy, Todo, Work
<1>2. /\ Typed(k) /\ Agree(k) /\ Placed(k) /\ Work(i) \in EntriesOf(i) /\ Work(i) \in Entries /\ i \in Instances
      /\ Work(i) \notin k.joined[i[1]] /\ k.job[i] \in Job
  BY <1>1, Serving
<1>3. Holds(k, i)
  BY <1>2 DEF Agree
<1>4. n \in Nat /\ n >= 1
  BY <1>1, <1>2, <1>3, <1>n DEF Job, Holds, Working
<1>5. q[n] \in Call
  <2>1. q \in Seq(Call)
    <3>1. k.job[i].phase \in Phases
      BY <1>2 DEF Job
    <3> QED BY <1>2, <1>n, <3>1, ServersAssumption
  <2>2. n \in 1..Len(q)
    BY <1>1, <1>4, <2>1, LenProperties
  <2> QED BY <2>1, <2>2, ElementOfSeq
<1>g. PICK g : g = [k.job[i] EXCEPT !.step = n + 1]
  OBVIOUS
<1>6. g \in Job /\ g.entry = k.job[i].entry /\ g.phase = k.job[i].phase /\ g.step = n + 1
  BY <1>2, <1>4, <1>g DEF Job
<1>7. s = WithJob(k, i, g)
  BY <1>g, <1>s DEF WithJob
<1>8. Typed(s) /\ Keeps(k, s, {"job"}) /\ s.job = [k.job EXCEPT ![i] = g]
  BY <1>2, <1>6, <1>7, JobSet
<1>9. s.at = k.at /\ s.held = k.held /\ s.joined = k.joined /\ s.count = k.count /\ s.job[i] = g /\ \A j \in Servers \ {i} : s.job[j] = k.job[j]
  <2>1. DOMAIN k.job = Instances
    BY <1>2 DEF Typed
  <2> QED BY <1>2, <1>8, <2>1, Who DEF Keeps
<1>10. Agree(s)
  <2>1. AgreeBut(k, i)
    BY <1>2, ButOne
  <2>2. Keeps(k, s, {"port", "pending", "free", "at", "job", "held"})
    BY <1>8 DEF Keeps
  <2>3. AgreeBut(s, i)
    BY <1>9, <2>1, <2>2, Passing
  <2>4. Holds(s, i)
    <3>1. n + 1 >= 1
      BY <1>4
    <3> QED BY <1>1, <1>3, <1>6, <1>9, <3>1 DEF Holds
  <2> QED BY <2>3, <2>4, ButOne
<1>11. Placed(s)
  <2>1. Keeps(k, s, {"at", "job", "count", "idle", "joined", "done"})
    BY <1>8 DEF Keeps
  <2> QED BY <1>2, <1>9, <2>1, NotMoved
<1>12. Good(s) /\ i \in Callers /\ s.at[i] = GoesOn(i)
  BY <1>1, <1>8, <1>9, <1>10, <1>11, Who DEF Good, Callers, GoesOn
<1> QED BY <1>1, <1>5, <1>9, <1>12, SendStep

\* The open joins of a task change.
LEMMA JoinsChange ==
  ASSUME NEW s, NEW u, NEW t \in Tasks \ Multi, Keeps(s, u, {"joined", "done"}), AgreeBut(s, Main(t)), JoinsOf(u, t),
         \A v \in Tasks : v # t => u.joined[v] = s.joined[v] /\ u.done[v] = s.done[v]
  PROVE  AgreeBut(u, Main(t))
<1>1. u.at = s.at /\ u.hand = s.hand /\ u.count = s.count /\ u.idle = s.idle /\ u.inbox = s.inbox /\ u.held = s.held /\ u.job = s.job
  BY DEF Keeps
<1>2. \A j \in Instances : StateOf(u, j)
  BY <1>1 DEF AgreeBut, StateOf
<1>3. ASSUME NEW j \in Servers \ {Main(t)} PROVE Holds(u, j)
  <2>1. Holds(s, j)
    BY DEF AgreeBut
  <2>2. j[1] \in Tasks /\ j[1] # t
    BY Who
  <2>3. u.joined[j[1]] = s.joined[j[1]]
    BY <2>2
  <2> QED BY <1>1, <2>1, <2>3 DEF Holds
<1>4. ASSUME NEW v \in Tasks PROVE JoinsOf(u, v)
  <2>1. CASE v = t
    BY <2>1
  <2>2. CASE v # t
    BY <2>2 DEF AgreeBut, JoinsOf
  <2> QED BY <2>1, <2>2
<1>5. \A j \in Workers : WorkerOf(u, j)
  BY <1>1 DEF AgreeBut, WorkerOf
<1>6. \A v \in Multi : DispatcherOf(u, v)
  BY <1>1 DEF AgreeBut, DispatcherOf
<1>7. \A v \in Tasks \ Multi : SingleOf(u, v)
  BY <1>1 DEF AgreeBut, SingleOf
<1> QED BY <1>2, <1>3, <1>4, <1>5, <1>6, <1>7 DEF AgreeBut

-----------------------------------------------------------------------------
\* An instance has nothing to do any more.

LEMMA NoteAdded ==
  ASSUME NEW S, NEW q \in Seq(S), NEW r \in S
  PROVE  /\ Append(q, r) \in Seq(S) /\ Range(Append(q, r)) = Range(q) \cup {r} /\ Append(q, r) # <<>>
         /\ r \notin Range(q) /\ IsInjective(q) => IsInjective(Append(q, r))
<1>u. PICK u, l : u = Append(q, r) /\ l = Len(q)
  OBVIOUS
<1>1. u \in Seq(S) /\ Adds(q, r, u)
  BY <1>u, AppendAdds
<1>2. /\ l \in Nat /\ DOMAIN q = 1..l /\ DOMAIN u = DOMAIN q \cup {l + 1} /\ l + 1 \notin DOMAIN q
      /\ u[l + 1] = r /\ \A j \in DOMAIN q : u[j] = q[j]
  BY <1>1, <1>u DEF Adds
<1>3. Range(u) = Range(q) \cup {r}
  BY <1>2 DEF Range
<1>4. u # <<>>
  BY <1>2
<1>5. r \notin Range(q) /\ IsInjective(q) => IsInjective(u)
  BY <1>2 DEF Range, IsInjective
<1> QED BY <1>1, <1>3, <1>4, <1>5, <1>u

LEMMA NoteTaken ==
  ASSUME NEW S, NEW q \in Seq(S), q # <<>>, IsInjective(q)
  PROVE  /\ Tail(q) \in Seq(S) /\ Head(q) \in S /\ Head(q) \in Range(q) /\ Range(Tail(q)) = Range(q) \ {Head(q)}
         /\ IsInjective(Tail(q))
<1>u. PICK u, l, h : u = Tail(q) /\ l = Len(q) /\ h = Head(q)
  OBVIOUS
<1>1. Drops(q, 1, u) /\ u \in Seq(S) /\ q[1] = h /\ h \in S
  BY <1>u, TailDrops
<1>2. /\ l \in Nat /\ l >= 1 /\ DOMAIN q = 1..l /\ DOMAIN u = 1..(l - 1) /\ \A j \in 1..(l - 1) : u[j] = q[j + 1]
  <2>1. /\ l \in Nat /\ DOMAIN q = 1..l /\ 1 \in DOMAIN q /\ DOMAIN u = 1..(l - 1)
        /\ \A j \in DOMAIN u : u[j] = q[IF j < 1 THEN j ELSE j + 1]
    BY <1>1, <1>u DEF Drops
  <2>2. \A j \in 1..(l - 1) : ~(j < 1)
    BY <2>1
  <2> QED BY <2>1, <2>2
<1>3. h \in Range(q)
  BY <1>1, <1>2 DEF Range
<1>4. ASSUME NEW x PROVE x \in Range(u) <=> x \in Range(q) /\ x # h
  <2>1. ASSUME x \in Range(u) PROVE x \in Range(q) /\ x # h
    <3>1. PICK j \in 1..(l - 1) : x = q[j + 1]
      BY <1>2, <2>1 DEF Range
    <3>2. j + 1 \in DOMAIN q /\ j + 1 # 1 /\ 1 \in DOMAIN q
      BY <1>2
    <3> QED BY <1>1, <3>1, <3>2 DEF Range, IsInjective
  <2>2. ASSUME x \in Range(q), x # h PROVE x \in Range(u)
    <3>1. PICK j \in DOMAIN q : x = q[j]
      BY <2>2 DEF Range
    <3>2. j - 1 \in DOMAIN u /\ u[j - 1] = q[j]
      <4>1. j # 1
        BY <1>1, <2>2, <3>1
      <4>2. j - 1 \in 1..(l - 1) /\ (j - 1) + 1 = j
        BY <1>2, <4>1
      <4> QED BY <1>2, <4>2
    <3> QED BY <3>1, <3>2 DEF Range
  <2> QED BY <2>1, <2>2
<1>5. IsInjective(u)
  <2>1. SUFFICES ASSUME NEW a \in DOMAIN u, NEW b \in DOMAIN u, u[a] = u[b] PROVE a = b
    BY DEF IsInjective
  <2>2. a \in 1..(l - 1) /\ b \in 1..(l - 1) /\ q[a + 1] = q[b + 1] /\ a + 1 \in DOMAIN q /\ b + 1 \in DOMAIN q
    BY <1>2, <2>1
  <2>3. a + 1 = b + 1
    BY <2>2 DEF IsInjective
  <2> QED BY <2>2, <2>3
<1>6. Range(u) = Range(q) \ {h}
  BY <1>4
<1> QED BY <1>1, <1>3, <1>5, <1>6, <1>u

\* What server i holds when it works on nothing: the requests of open joins.
OnlyJoined(s, i) == \A f \in EntriesOf(i) : s.held[i][f] # Nothing => f \in s.joined[i[1]] /\ s.held[i][f].slot = 0

LEMMA Announced ==
  ASSUME NEW s, Typed(s), Placed(s), NEW i \in Servers, AgreeBut(s, i), s.at[i] \in {"serving", "starting"}, OnlyJoined(s, i)
  PROVE  Good(Announce(s, i)) /\ Announce(s, i).count = s.count
<1>v. PICK v : v = WithAt(s, i, "idle")
  OBVIOUS
<1>u. PICK u : u = Announce(s, i)
  OBVIOUS
<1>t. PICK t : t = i[1]
  OBVIOUS
<1>1. i \in Instances /\ t \in Tasks /\ i \notin Customers
  BY <1>t, Who
<1>2. Typed(v) /\ Keeps(s, v, {"at"}) /\ v.at = [s.at EXCEPT ![i] = "idle"]
  BY <1>1, <1>v, AtSet DEF States
<1>3. DOMAIN s.at = Instances /\ DOMAIN s.idle = Tasks
  BY DEF Typed
<1>q. PICK q : q = Append(s.idle[t], i)
  OBVIOUS
<1>4. i \in Workers => q \in Seq(Workers) /\ Range(q) = Range(s.idle[t]) \cup {i} /\ q # <<>> /\ (i \notin Range(s.idle[t]) /\ IsInjective(s.idle[t]) => IsInjective(q))
  <2>1. s.idle[t] \in Seq(Workers)
    BY <1>1 DEF Typed
  <2> QED BY <1>q, <2>1, NoteAdded
<1>5. i \in Workers => u = WithIdle(v, t, q)
  <2>1. v.idle = s.idle
    BY <1>2 DEF Keeps
  <2> QED BY <1>q, <1>t, <1>u, <1>v, <2>1 DEF Announce, WithIdle, WithAt
<1>6. i \notin Workers => u = v
  BY <1>u, <1>v DEF Announce, WithAt
<1>7. /\ Typed(u) /\ Keeps(s, u, {"at", "idle"}) /\ u.at = [s.at EXCEPT ![i] = "idle"]
      /\ i \in Workers => u.idle = [s.idle EXCEPT ![t] = q]
      /\ i \notin Workers => u.idle = s.idle
  <2>1. CASE i \in Workers
    <3>1. Typed(WithIdle(v, t, q)) /\ Keeps(v, WithIdle(v, t, q), {"idle"}) /\ WithIdle(v, t, q).idle = [v.idle EXCEPT ![t] = q]
      BY <1>1, <1>2, <1>4, <2>1, IdleSet
    <3> QED BY <1>2, <1>5, <2>1, <3>1 DEF Keeps
  <2>2. CASE i \notin Workers
    BY <1>2, <1>6, <2>2 DEF Keeps
  <2> QED BY <2>1, <2>2
<1>8. /\ u.hand = s.hand /\ u.count = s.count /\ u.inbox = s.inbox /\ u.joined = s.joined /\ u.done = s.done
      /\ u.held = s.held /\ u.job = s.job
      /\ u.at[i] = "idle" /\ \A j \in Instances : j # i => u.at[j] = s.at[j]
      /\ \A p \in Tasks : p # t => u.idle[p] = s.idle[p]
  BY <1>1, <1>3, <1>7 DEF Keeps
<1>9. i \in Workers => u.idle[t] = q
  BY <1>1, <1>3, <1>7
<1>10. Placed(u)
  <2>1. Keeps(s, u, {"at", "job", "count", "idle", "joined", "done"})
    BY <1>7 DEF Keeps
  <2>2. \A j \in Callers : u.at[j] = "calling" <=> s.at[j] = "calling"
    BY <1>8, Who DEF Callers
  <2> QED BY <2>1, <2>2, NotMoved
<1>11. ASSUME NEW j \in Instances PROVE StateOf(u, j)
  <2>1. StateOf(s, j)
    BY DEF AgreeBut
  <2>2. CASE j # i
    BY <1>8, <2>1, <2>2 DEF StateOf
  <2>3. CASE j = i
    BY <1>1, <1>8, <2>3 DEF StateOf
  <2> QED BY <2>2, <2>3
<1>12. ASSUME NEW j \in Servers PROVE Holds(u, j)
  <2>1. CASE j # i
    <3>1. Holds(s, j) /\ u.at[j] = s.at[j]
      BY <1>8, <2>1, Who DEF AgreeBut
    <3> QED BY <1>8, <3>1 DEF Holds
  <2>2. CASE j = i
    BY <1>8, <2>2 DEF Holds, OnlyJoined, Working
  <2> QED BY <2>1, <2>2
<1>13. \A p \in Tasks : JoinsOf(u, p)
  BY <1>8 DEF AgreeBut, JoinsOf
<1>14. \A p \in Tasks \ Multi : SingleOf(u, p)
  BY <1>8 DEF AgreeBut, SingleOf
<1>15. ASSUME NEW j \in Workers PROVE WorkerOf(u, j)
  <2>1. WorkerOf(s, j) /\ j \in Instances /\ j[1] \in Tasks
    BY Who DEF AgreeBut
  <2>2. CASE j = i
    BY <1>4, <1>8, <1>9, <1>t, <2>1, <2>2 DEF WorkerOf
  <2>3. CASE j # i /\ j[1] = t /\ i \in Workers
    <3>1. u.at[j] = s.at[j] /\ (j \in Range(u.idle[t]) <=> j \in Range(s.idle[t]))
      BY <1>4, <1>8, <1>9, <2>1, <2>3
    <3> QED BY <1>8, <2>1, <2>3, <3>1 DEF WorkerOf
  <2>4. CASE j # i /\ (j[1] # t \/ i \notin Workers)
    <3>1. u.at[j] = s.at[j] /\ u.idle[j[1]] = s.idle[j[1]]
      BY <1>7, <1>8, <2>1, <2>4
    <3> QED BY <1>8, <2>1, <3>1 DEF WorkerOf
  <2> QED BY <2>2, <2>3, <2>4
<1>16. ASSUME NEW p \in Multi PROVE DispatcherOf(u, p)
  <2>1. DispatcherOf(s, p) /\ p \in Tasks /\ Main(p) # i /\ Main(p) \in Instances
    BY Who DEF AgreeBut
  <2>2. u.at[Main(p)] = s.at[Main(p)]
    BY <1>8, <2>1
  <2>3. CASE p = t
    <3>1. i \in Workers
      BY <1>t, <2>3, Who
    <3>2. WorkerOf(s, i)
      BY <3>1 DEF AgreeBut
    <3>3. i \notin Range(s.idle[t])
      BY <1>t, <3>2 DEF WorkerOf
    <3> QED BY <1>4, <1>8, <1>9, <1>t, <2>1, <2>2, <2>3, <3>1, <3>3 DEF DispatcherOf
  <2>4. CASE p # t
    <3>1. \A j \in WorkersOf(p) : u.at[j] = s.at[j]
      BY <1>8, <1>t, <2>4, Who DEF WorkersOf
    <3> QED BY <1>8, <2>1, <2>2, <2>4, <3>1 DEF DispatcherOf
  <2> QED BY <2>3, <2>4
<1>17. Agree(u)
  BY <1>11, <1>12, <1>13, <1>14, <1>15, <1>16 DEF Agree
<1> QED BY <1>7, <1>8, <1>10, <1>17, <1>u DEF Good

LEMMA StartStep ==
  ASSUME IInv, NEW i \in Workers, Start(i)
  PROVE  Good(k') /\ k'.count = k.count
<1>1. i \in Servers /\ k.at[i] = "starting" /\ k' = Announce(k, i)
  BY Who DEF Start
<1>2. Typed(k) /\ Placed(k) /\ Agree(k) /\ AgreeBut(k, i)
  BY ButOne DEF IInv, Good
<1>3. OnlyJoined(k, i)
  <2>1. Holds(k, i)
    BY <1>1, <1>2 DEF Agree
  <2> QED BY <1>1, <2>1 DEF Holds, Working, OnlyJoined
<1> QED BY <1>1, <1>2, <1>3, Announced

\* A cycle ends, when entry e of server i is done or has come to its join.
LEMMA Finished ==
  ASSUME NEW s, Typed(s), Placed(s), NEW i \in Servers, AgreeBut(s, i), s.at[i] = "serving",
         NEW e \in EntriesOf(i), e = s.job[i].entry,
         \A f \in EntriesOf(i) : s.held[i][f] # Nothing =>
           (f = e /\ s.held[i][f].slot > 0) \/ (f \in s.joined[i[1]] /\ s.held[i][f].slot = 0)
  PROVE  Good(Finish(s, i)) /\ Finish(s, i).count = s.count
<1>r. PICK r : r = s.held[i][e]
  OBVIOUS
<1>v. PICK v : v = IF r.slot > 0 THEN FreeMessage(Clear(s, i, e), r) ELSE s
  OBVIOUS
<1>w. PICK w : w = [v EXCEPT !.job[i] = NoJob]
  OBVIOUS
<1>1. Finish(s, i) = Announce(w, i)
  BY <1>r, <1>v, <1>w DEF Finish, Clear
<1>2. /\ Typed(v) /\ Placed(v) /\ Keeps(s, v, {"free", "held"}) /\ OnlyJoined(v, i)
      /\ \A j \in Servers \ {i} : v.held[j] = s.held[j]
  <2>1. CASE r.slot > 0
    <3>1. v = FreeMessage(Clear(s, i, e), r)
      BY <1>v, <2>1
    <3>2. Typed(v) /\ Placed(v) /\ Keeps(s, v, {"free", "held"}) /\ Cleared(s, v, i, e)
      BY <1>r, <2>1, <3>1, Freed
    <3>3. OnlyJoined(v, i)
      BY <3>2 DEF OnlyJoined, Cleared, Keeps
    <3> QED BY <3>2, <3>3 DEF Cleared
  <2>2. CASE ~(r.slot > 0)
    <3>1. v = s
      BY <1>v, <2>2
    <3>2. OnlyJoined(s, i)
      BY <1>r, <2>2 DEF OnlyJoined
    <3> QED BY <3>1, <3>2 DEF Keeps
  <2> QED BY <2>1, <2>2
<1>3. i \in Instances
  BY Who
<1>4. Typed(w) /\ Keeps(v, w, {"job"}) /\ w.job = [v.job EXCEPT ![i] = NoJob]
  <2>1. NoJob \in Job
    BY DEF NoJob, Job, Phases
  <2>2. w = WithJob(v, i, NoJob)
    BY <1>w DEF WithJob
  <2> QED BY <1>2, <1>3, <2>1, <2>2, JobSet
<1>5. Keeps(s, w, {"free", "held", "job"}) /\ w.held = v.held /\ w.joined = v.joined /\ w.at = s.at /\ w.count = s.count
  BY <1>2, <1>4 DEF Keeps
<1>6. AgreeBut(w, i)
  <2>1. Keeps(s, w, {"port", "pending", "free", "at", "job", "held"})
    BY <1>5 DEF Keeps
  <2>2. \A j \in Servers \ {i} : w.held[j] = s.held[j] /\ w.job[j] = s.job[j]
    <3>1. v.job = s.job /\ DOMAIN s.job = Instances
      BY <1>2 DEF Keeps, Typed
    <3> QED BY <1>2, <1>4, <1>5, <3>1, Who
  <2> QED BY <1>5, <2>1, <2>2, Passing
<1>7. Placed(w)
  <2>1. Keeps(v, w, {"at", "job", "count", "idle", "joined", "done"}) /\ w.at = v.at
    BY <1>4 DEF Keeps
  <2> QED BY <1>2, <2>1, NotMoved
<1>8. OnlyJoined(w, i)
  BY <1>2, <1>5 DEF OnlyJoined
<1>9. w.at[i] = "serving"
  BY <1>5
<1>10. Good(Announce(w, i)) /\ Announce(w, i).count = w.count
  BY <1>4, <1>6, <1>7, <1>8, <1>9, Announced
<1> QED BY <1>1, <1>5, <1>10

LEMMA EndCycleStep ==
  ASSUME IInv, NEW i \in Servers, EndCycle(i)
  PROVE  Good(k') /\ k'.count = k.count
<1>e. PICK e : e = Work(i)
  OBVIOUS
<1>1. k.at[i] = "serving" /\ k.job[i].phase = 2 /\ k' = Finish(k, i)
  BY DEF EndCycle, AtEnd, Busy
<1>2. /\ Typed(k) /\ Agree(k) /\ Placed(k) /\ e \in EntriesOf(i) /\ e = k.job[i].entry
      /\ k.held[i][e] = Nothing \/ k.held[i][e].slot > 0
  BY <1>1, <1>e, Serving DEF Work
<1>3. AgreeBut(k, i) /\ Holds(k, i)
  BY <1>2, ButOne
<1>4. \A f \in EntriesOf(i) : k.held[i][f] # Nothing =>
        (f = e /\ k.held[i][f].slot > 0) \/ (f \in k.joined[i[1]] /\ k.held[i][f].slot = 0)
  BY <1>2, <1>3 DEF Holds
<1> QED BY <1>1, <1>2, <1>3, <1>4, Finished

-----------------------------------------------------------------------------
\* Joins.

LEMMA JoinFacts ==
  ASSUME NEW e \in Entries, Joins[e] # {}
  PROVE  /\ TaskOf[e] \in Tasks \ Multi /\ e \in Joins[e] /\ Joins[e] \subseteq Entries
         /\ \A f \in Joins[e] : TaskOf[f] = TaskOf[e] /\ Joins[f] = Joins[e]
  BY ServersAssumption

WithJoins(s, t, D, J) == WithJoined(WithDone(s, t, D), t, J)

LEMMA JoinsSet ==
  ASSUME NEW s, Typed(s), NEW t \in Tasks, NEW D \in SUBSET Entries, NEW J \in SUBSET Entries
  PROVE  /\ Typed(WithJoins(s, t, D, J)) /\ Keeps(s, WithJoins(s, t, D, J), {"joined", "done"})
         /\ WithJoins(s, t, D, J).joined[t] = J /\ WithJoins(s, t, D, J).done[t] = D
         /\ \A v \in Tasks : v # t => WithJoins(s, t, D, J).joined[v] = s.joined[v] /\ WithJoins(s, t, D, J).done[v] = s.done[v]
<1>v. PICK v : v = WithDone(s, t, D)
  OBVIOUS
<1>u. PICK u : u = WithJoined(v, t, J)
  OBVIOUS
<1>1. Typed(v) /\ Keeps(s, v, {"done"}) /\ v.done = [s.done EXCEPT ![t] = D]
  BY <1>v, DoneSet
<1>2. Typed(u) /\ Keeps(v, u, {"joined"}) /\ u.joined = [v.joined EXCEPT ![t] = J]
  BY <1>1, <1>u, JoinedSet
<1>3. DOMAIN s.joined = Tasks /\ DOMAIN s.done = Tasks
  BY DEF Typed
<1>4. Keeps(s, u, {"joined", "done"}) /\ u.joined = [s.joined EXCEPT ![t] = J] /\ u.done = [s.done EXCEPT ![t] = D]
  BY <1>1, <1>2 DEF Keeps
<1>5. u = WithJoins(s, t, D, J)
  BY <1>u, <1>v DEF WithJoins
<1> QED BY <1>2, <1>3, <1>4, <1>5

\* A server that has to do with a join is the only one of its task.
LEMMA Joining ==
  ASSUME NEW i \in Servers, NEW e \in EntriesOf(i), Joins[e] # {}
  PROVE  i[1] \in Tasks \ Multi /\ i = Main(i[1])
<1>1. e \in Entries /\ TaskOf[e] = i[1]
  BY DEF EntriesOf
<1>2. i[1] \in Tasks \ Multi
  BY <1>1, JoinFacts
<1> QED BY <1>2, Who

LEMMA AwaitJoinStep ==
  ASSUME IInv, NEW i \in Servers, AwaitJoin(i)
  PROVE  Good(k') /\ k'.count = k.count
<1>e. PICK e, t : e = Work(i) /\ t = i[1]
  OBVIOUS
<1>s. PICK s, D, J : s = WithJoins(k, t, D, J) /\ D = k.done[t] \cup {e} /\ J = k.joined[t] \cup {e}
  OBVIOUS
<1>1. k.at[i] = "serving" /\ Joins[e] # {} /\ ~(Joins[e] \subseteq k.done[t] \cup {e}) /\ k' = Finish(s, i)
  <2>1. s = [k EXCEPT !.done[t] = @ \cup {e}, !.joined[t] = @ \cup {e}]
    <3>1. WithDone(k, t, D).joined = k.joined
      BY DEF WithDone, IInv, Good, Typed, Shape
    <3> QED BY <1>s, <3>1 DEF WithJoins, WithJoined, WithDone
  <2> QED BY <1>e, <2>1 DEF AwaitJoin, AtEnd, Busy, AllDone, Work
<1>2. /\ Typed(k) /\ Agree(k) /\ Placed(k) /\ e \in EntriesOf(i) /\ e = k.job[i].entry /\ e \in Entries
      /\ TaskOf[e] = t /\ e \notin k.joined[t]
  BY <1>1, <1>e, Serving DEF Work
<1>3. t \in Tasks /\ t \in Tasks \ Multi /\ i = Main(t)
  BY <1>1, <1>2, <1>e, Joining
<1>4. /\ Typed(s) /\ Keeps(k, s, {"joined", "done"}) /\ s.joined[t] = J /\ s.done[t] = D
      /\ \A v \in Tasks : v # t => s.joined[v] = k.joined[v] /\ s.done[v] = k.done[v]
  <2>1. D \in SUBSET Entries /\ J \in SUBSET Entries
    BY <1>2, <1>3, <1>s DEF Typed
  <2>2. /\ Typed(WithJoins(k, t, D, J)) /\ Keeps(k, WithJoins(k, t, D, J), {"joined", "done"})
        /\ WithJoins(k, t, D, J).joined[t] = J /\ WithJoins(k, t, D, J).done[t] = D
        /\ \A v \in Tasks : v # t => WithJoins(k, t, D, J).joined[v] = k.joined[v] /\ WithJoins(k, t, D, J).done[v] = k.done[v]
    BY <1>2, <1>3, <2>1, JoinsSet
  <2> QED BY <1>s, <2>2
<1>5. JoinsOf(s, t)
  <2>1. k.joined[t] = k.done[t] /\ \A f \in k.joined[t] : TaskOf[f] = t /\ Joins[f] # {} /\ ~(Joins[f] \subseteq k.joined[t])
    BY <1>2, <1>3 DEF Agree, JoinsOf
  <2>2. J = D
    BY <1>s, <2>1
  <2>3. ASSUME NEW f \in J PROVE TaskOf[f] = t /\ Joins[f] # {} /\ ~(Joins[f] \subseteq J)
    <3>1. CASE f = e
      BY <1>1, <1>2, <1>s, <2>1, <3>1
    <3>2. CASE f # e
      <4>1. f \in k.joined[t] /\ f \in Entries
        BY <1>2, <1>3, <1>s, <3>2 DEF Typed
      <4>2. CASE e \in Joins[f]
        <5>1. Joins[e] = Joins[f]
          BY <2>1, <4>1, <4>2, JoinFacts
        <5> QED BY <1>1, <1>s, <2>1, <4>1, <5>1
      <4>3. CASE e \notin Joins[f]
        BY <1>s, <2>1, <4>1, <4>3
      <4> QED BY <4>2, <4>3
    <3> QED BY <3>1, <3>2
  <2> QED BY <1>4, <2>2, <2>3 DEF JoinsOf
<1>6. AgreeBut(s, i)
  <2>1. AgreeBut(k, Main(t))
    BY <1>2, <1>3, ButOne
  <2>2. AgreeBut(s, Main(t))
    BY <1>3, <1>4, <1>5, <2>1, JoinsChange
  <2> QED BY <1>3, <2>2
<1>7. Placed(s) /\ s.at = k.at /\ s.held = k.held /\ s.job = k.job /\ s.count = k.count
  <2>1. Keeps(k, s, {"at", "job", "count", "idle", "joined", "done"}) /\ s.at = k.at /\ s.held = k.held /\ s.job = k.job /\ s.count = k.count
    BY <1>4 DEF Keeps
  <2> QED BY <1>2, <2>1, NotMoved
<1>8. ASSUME NEW f \in EntriesOf(i), s.held[i][f] # Nothing
      PROVE  (f = e /\ s.held[i][f].slot > 0) \/ (f \in s.joined[i[1]] /\ s.held[i][f].slot = 0)
  <2>1. f = e \/ (f \in k.joined[t] /\ k.held[i][f].slot = 0)
    BY <1>2, <1>7, <1>8, <1>e DEF Agree, Holds
  <2>2. s.held[i][f].slot \in 0..Pool /\ Pool \in Nat
    BY <1>4, <1>8, HeldIsTo, RequestsTo, ServersAssumption
  <2>3. s.held[i][f].slot > 0 \/ s.held[i][f].slot = 0
    BY <2>2
  <2> QED BY <1>4, <1>7, <1>e, <1>s, <2>1, <2>3
<1>9. s.at[i] = "serving" /\ e = s.job[i].entry
  BY <1>1, <1>2, <1>7
<1>10. Good(Finish(s, i)) /\ Finish(s, i).count = s.count
  BY <1>2, <1>4, <1>6, <1>7, <1>8, <1>9, Finished
<1> QED BY <1>1, <1>7, <1>10

WithWays(s, a) == [s EXCEPT !.at = a]

LEMMA WaysSet ==
  ASSUME NEW s, Typed(s), NEW a \in [Instances -> States]
  PROVE  Typed(WithWays(s, a)) /\ Keeps(s, WithWays(s, a), {"at"}) /\ WithWays(s, a).at = a
<1>u. PICK u : u = WithWays(s, a)
  OBVIOUS
<1>1. u = [port |-> s.port, pending |-> s.pending, hand |-> s.hand, count |-> s.count, idle |-> s.idle, joined |-> s.joined, done |-> s.done, free |-> s.free, at |-> a, job |-> s.job, inbox |-> s.inbox, held |-> s.held]
  BY <1>u DEF WithWays, Typed, Shape
<1>2. Shape(u) /\ Keeps(s, u, {"at"}) /\ u.at = a
  BY <1>1 DEF Shape, Keeps
<1>3. Typed(u)
  BY <1>2 DEF Typed, Keeps
<1> QED BY <1>2, <1>3, <1>u

\* The rendezvous that server i holds for the entries F are answered.
CallersOf(s, i, F) == {s.held[i][f].from : f \in F}

LEMMA AnswersAll ==
  ASSUME NEW s, Typed(s), Placed(s), NEW i \in Servers, NEW F \in SUBSET EntriesOf(i), \A f \in F : s.held[i][f].slot = 0
  PROVE  /\ Typed(AnswerAll(s, i, F)) /\ Placed(AnswerAll(s, i, F)) /\ Keeps(s, AnswerAll(s, i, F), {"held", "at"})
         /\ \A f \in EntriesOf(i) : AnswerAll(s, i, F).held[i][f] = IF f \in F THEN Nothing ELSE s.held[i][f]
         /\ \A j \in Servers \ {i} : AnswerAll(s, i, F).held[j] = s.held[j]
         /\ \A j \in Instances : \/ AnswerAll(s, i, F).at[j] = s.at[j]
                                 \/ j \in Callers /\ s.at[j] = "calling" /\ AnswerAll(s, i, F).at[j] = GoesOn(j)
<1>C. PICK C : C = CallersOf(s, i, F)
  OBVIOUS
<1>h. PICK h : h = [f \in EntriesOf(i) |-> IF f \in F THEN Nothing ELSE s.held[i][f]]
  OBVIOUS
<1>a. PICK a : a = [j \in Instances |-> IF j \in C THEN GoesOn(j) ELSE s.at[j]]
  OBVIOUS
<1>v. PICK v : v = WithHeld(s, i, h)
  OBVIOUS
<1>u. PICK u : u = AnswerAll(s, i, F)
  OBVIOUS
<1>1. Fits(i, h)
  <2>1. Fits(i, s.held[i])
    BY DEF Typed, Helds
  <2> QED BY <1>h, <2>1, RequestsTo DEF Fits
<1>2. Typed(v) /\ Keeps(s, v, {"held"}) /\ v.held = [s.held EXCEPT ![i] = h]
  BY <1>1, <1>v, HeldSet
<1>3. a \in [Instances -> States]
  <2>1. s.at \in [Instances -> States]
    BY DEF Typed
  <2> QED BY <1>a, <2>1 DEF GoesOn, States
<1>4. u = WithWays(v, a)
  <2>1. v.at = s.at
    BY <1>2 DEF Keeps
  <2> QED BY <1>a, <1>C, <1>h, <1>u, <1>v, <2>1 DEF AnswerAll, WithWays, WithHeld, CallersOf
<1>5. Typed(u) /\ Keeps(v, u, {"at"}) /\ u.at = a
  BY <1>2, <1>3, <1>4, WaysSet
<1>6. Keeps(s, u, {"held", "at"}) /\ u.held = [s.held EXCEPT ![i] = h] /\ u.at = a
  BY <1>2, <1>5 DEF Keeps
<1>7. /\ \A f \in EntriesOf(i) : u.held[i][f] = IF f \in F THEN Nothing ELSE s.held[i][f]
      /\ \A j \in Servers \ {i} : u.held[j] = s.held[j]
  <2>1. DOMAIN s.held = Servers
    BY DEF Typed, Helds
  <2> QED BY <1>6, <1>h, <2>1
<1>8. ASSUME NEW f \in F, s.held[i][f] # Nothing
      PROVE  /\ s.held[i][f].from \in Callers \cap Instances /\ s.at[s.held[i][f].from] = "calling"
             /\ ThingOf(i[1], s.held[i][f]) = Rendezvous(s.held[i][f].from)
  BY <1>8, HeldWaits
<1>9. ASSUME NEW j \in Instances, j \in C
      PROVE  j \in Callers /\ s.at[j] = "calling" /\ \E f \in F : s.held[i][f] # Nothing /\ s.held[i][f].from = j
  <2>1. PICK f \in F : s.held[i][f].from = j
    BY <1>9, <1>C DEF CallersOf
  <2>2. s.held[i][f] # Nothing
    BY <2>1, RequestsTo, Who
  <2> QED BY <1>8, <2>1, <2>2
<1>10. ASSUME NEW j \in Instances PROVE u.at[j] = s.at[j] \/ (j \in Callers /\ s.at[j] = "calling" /\ u.at[j] = GoesOn(j))
  BY <1>6, <1>9, <1>a
<1>11. Placed(u)
  <2>1. \A c \in Sites : Box(u, c) = Box(s, c) \/ (Box(u, c) = <<>> /\ \E f \in F : c = Site("held", i, f))
    <3>1. SUFFICES ASSUME NEW c \in Sites, Box(u, c) # Box(s, c) PROVE Box(u, c) = <<>> /\ \E f \in F : c = Site("held", i, f)
      OBVIOUS
    <3>D. PICK D : D = {Site("held", i, f) : f \in F}
      OBVIOUS
    <3>2. Rest(s, u, D)
      BY <1>6, <1>7, <3>D DEF Rest, Keeps
    <3>3. PICK f \in F : c = Site("held", i, f)
      BY <3>1, <3>2, <3>D, OnlyThere DEF Elsewhere
    <3>4. Box(u, c) = Optional(u.held[i][f])
      BY <3>3, Boxes
    <3>5. u.held[i][f] = Nothing
      BY <1>7
    <3> QED BY <3>3, <3>4, <3>5 DEF Optional
  <2>2. ASSUME NEW f \in F PROVE Box(u, Site("held", i, f)) = <<>>
    <3>1. Box(u, Site("held", i, f)) = Optional(u.held[i][f]) /\ u.held[i][f] = Nothing
      BY <1>7, Boxes
    <3> QED BY <3>1 DEF Optional
  <2>3. ASSUME NEW f \in F, NEW x, Here(s, Site("held", i, f), x)
        PROVE  s.held[i][f] # Nothing /\ x = Rendezvous(s.held[i][f].from)
    <3>1. s.held[i][f] # Nothing /\ x = ThingOf(i[1], s.held[i][f])
      BY <2>3, HeldHere
    <3> QED BY <1>8, <3>1
  <2>4. ASSUME NEW x \in Things
        PROVE  Exists(u, x) <=> Exists(s, x) /\ \A c \in Sites : Here(s, c, x) => Box(u, c) # <<>>
    <3>1. CASE x.kind = "caller" /\ x.of \in C
      <4>1. x.of \in Callers /\ x = Rendezvous(x.of) /\ x.of \in Instances
        BY <3>1, Things2, Who DEF Callers
      <4>2. PICK f \in F : s.held[i][f] # Nothing /\ s.held[i][f].from = x.of
        BY <1>9, <3>1, <4>1
      <4>3. ThingOf(i[1], s.held[i][f]) = x
        BY <1>8, <4>1, <4>2
      <4>4. Here(s, Site("held", i, f), x) /\ Site("held", i, f) \in Sites
        BY <4>2, <4>3, HeldHere, WhatIsWhere
      <4>5. ~Exists(u, x)
        <5>1. u.at[x.of] = GoesOn(x.of)
          BY <1>6, <1>a, <3>1, <4>1
        <5> QED BY <3>1, <5>1 DEF Exists, GoesOn
      <4> QED BY <2>2, <4>4, <4>5
    <3>2. CASE ~(x.kind = "caller" /\ x.of \in C)
      <4>1. Exists(u, x) <=> Exists(s, x)
        <5>1. CASE x.kind = "caller"
          <6>1. x.of \in Instances /\ x.of \notin C
            BY <3>2, <5>1, Things2, Who DEF Callers
          <6>2. u.at[x.of] = s.at[x.of]
            BY <1>6, <1>a, <6>1
          <6> QED BY <6>2 DEF Exists
        <5>2. CASE x.kind # "caller"
          BY <5>2 DEF Exists
        <5> QED BY <5>1, <5>2
      <4>2. ASSUME NEW c \in Sites, Here(s, c, x), Box(u, c) = <<>> PROVE FALSE
        <5>1. Box(s, c) # <<>>
          BY <4>2 DEF Here
        <5>2. PICK f \in F : c = Site("held", i, f)
          BY <2>1, <4>2, <5>1
        <5>3. s.held[i][f] # Nothing /\ x = Rendezvous(s.held[i][f].from)
          BY <2>3, <4>2, <5>2
        <5>4. s.held[i][f].from \in Callers
          BY <1>8, <5>3
        <5>5. x.kind = "caller" /\ x.of = s.held[i][f].from
          BY <5>3, <5>4, Things2
        <5> QED BY <1>C, <3>2, <5>5 DEF CallersOf
      <4> QED BY <4>1, <4>2
    <3> QED BY <3>1, <3>2
  <2>5. \A c \in Sites : Box(u, c) = Box(s, c) \/ Box(u, c) = <<>>
    BY <2>1
  <2> QED BY <2>4, <2>5, Ended
<1> QED BY <1>5, <1>6, <1>7, <1>10, <1>11, <1>u

LEMMA CompleteJoinStep ==
  ASSUME IInv, NEW i \in Servers, CompleteJoin(i)
  PROVE  Good(k') /\ k'.count = k.count
<1>e. PICK e, t : e = Work(i) /\ t = i[1]
  OBVIOUS
<1>F. PICK F : F = {f \in Joins[e] : k.held[i][f].slot = 0}
  OBVIOUS
<1>s. PICK s, D, J : s = WithJoins(k, t, D, J) /\ D = k.done[t] \ Joins[e] /\ J = k.joined[t] \ Joins[e]
  OBVIOUS
<1>v. PICK v : v = AnswerAll(s, i, F)
  OBVIOUS
<1>1. k.at[i] = "serving" /\ Joins[e] # {} /\ k' = SecondPhase(v, i)
  <2>1. s = Opens(k, t, e)
    <3>1. WithDone(k, t, D).joined = k.joined
      BY DEF WithDone, IInv, Good, Typed, Shape
    <3> QED BY <1>s, <3>1 DEF WithJoins, WithJoined, WithDone, Opens
  <2> QED BY <1>e, <1>F, <1>v, <2>1 DEF CompleteJoin, AtEnd, Busy, Work
<1>2. /\ Typed(k) /\ Agree(k) /\ Placed(k) /\ e \in EntriesOf(i) /\ e = k.job[i].entry /\ e \in Entries
      /\ TaskOf[e] = t /\ e \notin k.joined[t] /\ i \in Instances
  BY <1>1, <1>e, Serving DEF Work
<1>3. t \in Tasks /\ t \in Tasks \ Multi /\ i = Main(t) /\ e \in Joins[e] /\ Joins[e] \subseteq EntriesOf(i)
  <2>1. t \in Tasks /\ t \in Tasks \ Multi /\ i = Main(t)
    BY <1>1, <1>2, <1>e, Joining
  <2>2. e \in Joins[e] /\ Joins[e] \subseteq EntriesOf(i)
    BY <1>1, <1>2, <1>e, JoinFacts DEF EntriesOf
  <2> QED BY <2>1, <2>2
<1>4. /\ Typed(s) /\ Keeps(k, s, {"joined", "done"}) /\ s.joined[t] = J /\ s.done[t] = D
      /\ \A p \in Tasks : p # t => s.joined[p] = k.joined[p] /\ s.done[p] = k.done[p]
  <2>1. D \in SUBSET Entries /\ J \in SUBSET Entries
    BY <1>2, <1>3, <1>s DEF Typed
  <2>2. /\ Typed(WithJoins(k, t, D, J)) /\ Keeps(k, WithJoins(k, t, D, J), {"joined", "done"})
        /\ WithJoins(k, t, D, J).joined[t] = J /\ WithJoins(k, t, D, J).done[t] = D
        /\ \A p \in Tasks : p # t => WithJoins(k, t, D, J).joined[p] = k.joined[p] /\ WithJoins(k, t, D, J).done[p] = k.done[p]
    BY <1>2, <1>3, <2>1, JoinsSet
  <2> QED BY <1>s, <2>2
<1>5. JoinsOf(s, t)
  <2>1. k.joined[t] = k.done[t] /\ \A f \in k.joined[t] : TaskOf[f] = t /\ Joins[f] # {} /\ ~(Joins[f] \subseteq k.joined[t])
    BY <1>2, <1>3 DEF Agree, JoinsOf
  <2> QED BY <1>4, <1>s, <2>1 DEF JoinsOf
<1>6. AgreeBut(s, i)
  <2>1. AgreeBut(k, Main(t))
    BY <1>2, <1>3, ButOne
  <2>2. AgreeBut(s, Main(t))
    BY <1>3, <1>4, <1>5, <2>1, JoinsChange
  <2> QED BY <1>3, <2>2
<1>7. Placed(s) /\ s.at = k.at /\ s.held = k.held /\ s.job = k.job /\ s.count = k.count
  <2>1. Keeps(k, s, {"at", "job", "count", "idle", "joined", "done"}) /\ s.at = k.at /\ s.held = k.held /\ s.job = k.job /\ s.count = k.count
    BY <1>4 DEF Keeps
  <2> QED BY <1>2, <2>1, NotMoved
<1>8. /\ Typed(v) /\ Placed(v) /\ Keeps(s, v, {"held", "at"})
      /\ \A f \in EntriesOf(i) : v.held[i][f] = IF f \in F THEN Nothing ELSE s.held[i][f]
      /\ \A j \in Servers \ {i} : v.held[j] = s.held[j]
      /\ \A j \in Instances : v.at[j] = s.at[j] \/ (j \in Callers /\ s.at[j] = "calling" /\ v.at[j] = GoesOn(j))
  <2>1. F \in SUBSET EntriesOf(i) /\ \A f \in F : s.held[i][f].slot = 0
    BY <1>3, <1>7, <1>F
  <2> QED BY <1>4, <1>7, <1>v, <2>1, AnswersAll
<1>9. /\ Typed(k') /\ Keeps(v, k', {"job"}) /\ k'.job[i] = [entry |-> v.job[i].entry, phase |-> 2, step |-> 1]
      /\ \A j \in Instances : j # i => k'.job[j] = v.job[j]
  BY <1>1, <1>2, <1>8, SecondSet
<1>10. /\ Keeps(s, k', {"held", "at", "job"}) /\ k'.held = v.held /\ k'.at = v.at /\ v.job = s.job /\ k'.joined = s.joined
       /\ k'.count = k.count
  BY <1>7, <1>8, <1>9 DEF Keeps
<1>11. Placed(k')
  <2>1. Keeps(v, k', {"at", "job", "count", "idle", "joined", "done"})
    BY <1>9 DEF Keeps
  <2> QED BY <1>8, <1>10, <2>1, NotMoved
<1>12. AgreeBut(k', i)
  <2>1. \A j \in Instances : \/ k'.at[j] = s.at[j]
                             \/ j \in Servers /\ s.at[j] \in Working /\ k'.at[j] \in Working
                             \/ j \in Customers /\ k'.at[j] \in {"idle", "calling"}
    BY <1>8, <1>10 DEF GoesOn, Callers, Working
  <2>2. Keeps(s, k', {"port", "pending", "free", "at", "job", "held"})
    BY <1>10 DEF Keeps
  <2>3. \A j \in Servers \ {i} : k'.held[j] = s.held[j] /\ k'.job[j] = s.job[j]
    BY <1>8, <1>9, <1>10, Who
  <2> QED BY <1>6, <2>1, <2>2, <2>3, Passing
<1>13. Holds(k', i)
  <2>1. k'.job[i].entry = e /\ k'.job[i].step = 1 /\ k'.job[i].phase = 2
    BY <1>2, <1>7, <1>9, <1>10
  <2>2. k'.at[i] = "serving" /\ k'.joined[t] = J
    BY <1>1, <1>2, <1>4, <1>7, <1>8, <1>10
  <2>3. \A f \in EntriesOf(i) : k'.held[i][f] # Nothing => f \notin F /\ k'.held[i][f] = k.held[i][f]
    BY <1>7, <1>8, <1>10
  <2>4. \A f \in EntriesOf(i) : k.held[i][f] # Nothing => f = e \/ (f \in k.joined[t] /\ k.held[i][f].slot = 0)
    BY <1>2, <1>e DEF Agree, Holds
  <2>5. ASSUME NEW f \in EntriesOf(i), k'.held[i][f] # Nothing
        PROVE  f = e \/ (f \in J /\ k'.held[i][f].slot = 0)
    BY <1>F, <1>s, <2>3, <2>4, <2>5
  <2>6. k'.held[i][e] = Nothing \/ k'.held[i][e].slot > 0
    <3>1. SUFFICES ASSUME k'.held[i][e] # Nothing PROVE k'.held[i][e].slot > 0
      OBVIOUS
    <3>2. e \notin F /\ k'.held[i][e] = k.held[i][e]
      BY <1>2, <2>3, <3>1
    <3>3. k'.held[i][e].slot \in 0..Pool /\ k'.held[i][e].slot # 0 /\ Pool \in Nat
      BY <1>2, <1>3, <1>9, <1>F, <3>1, <3>2, HeldIsTo, RequestsTo, ServersAssumption
    <3> QED BY <3>3
  <2> QED BY <1>2, <1>e, <1>s, <2>1, <2>2, <2>5, <2>6 DEF Holds, Working
<1>14. Agree(k')
  BY <1>12, <1>13, ButOne
<1> QED BY <1>9, <1>10, <1>11, <1>14 DEF Good

-----------------------------------------------------------------------------
\* A server begins with a request.

\* In state u server i is at the beginning of request r, and the others are as in s.
Begins(s, u, i, r) ==
  /\ u.at[i] = "serving" /\ \A j \in Instances : j # i => u.at[j] = s.at[j]
  /\ u.job[i] = [entry |-> r.entry, phase |-> 1, step |-> 1]
  /\ \A j \in Servers : j # i => u.job[j] = s.job[j] /\ u.held[j] = s.held[j]
  /\ u.held[i][r.entry] = r /\ r.entry \in EntriesOf(i)
  /\ \A f \in EntriesOf(i) : f # r.entry => u.held[i][f] = s.held[i][f]

LEMMA ServeSet ==
  ASSUME NEW s, Typed(s), NEW i \in Servers, NEW r \in To(i[1])
  PROVE  Typed(Serve(s, i, r)) /\ Keeps(s, Serve(s, i, r), {"at", "held", "job"}) /\ Begins(s, Serve(s, i, r), i, r)
<1>e. PICK e : e = r.entry
  OBVIOUS
<1>h. PICK h : h = [s.held[i] EXCEPT ![e] = r]
  OBVIOUS
<1>j. PICK g : g = [entry |-> e, phase |-> 1, step |-> 1]
  OBVIOUS
<1>v. PICK v : v = WithAt(s, i, "serving")
  OBVIOUS
<1>w. PICK w : w = WithHeld(v, i, h)
  OBVIOUS
<1>u. PICK u : u = WithJob(w, i, g)
  OBVIOUS
<1>1. i \in Instances /\ i[1] \in Tasks
  BY Who
<1>2. e \in EntriesOf(i) /\ e \in Entries
  <2>1. e \in Entries /\ TaskOf[e] = i[1]
    BY <1>e, RequestsTo
  <2> QED BY <2>1 DEF EntriesOf
<1>3. Typed(v) /\ Keeps(s, v, {"at"}) /\ v.at = [s.at EXCEPT ![i] = "serving"]
  BY <1>1, <1>v, AtSet DEF States
<1>4. Fits(i, h) /\ h[e] = r /\ \A f \in EntriesOf(i) : f # e => h[f] = s.held[i][f]
  <2>1. Fits(i, s.held[i])
    BY DEF Typed, Helds
  <2>2. r \in Maybe
    BY <1>1, ToRequests
  <2> QED BY <1>2, <1>e, <1>h, <2>1, <2>2 DEF Fits
<1>5. Typed(w) /\ Keeps(v, w, {"held"}) /\ w.held = [v.held EXCEPT ![i] = h]
  BY <1>3, <1>4, <1>w, HeldSet
<1>6. g \in Job
  BY <1>2, <1>j DEF Job, Phases
<1>7. Typed(u) /\ Keeps(w, u, {"job"}) /\ u.job = [w.job EXCEPT ![i] = g]
  BY <1>1, <1>5, <1>6, <1>u, JobSet
<1>8. /\ Keeps(s, u, {"at", "held", "job"}) /\ u.at = [s.at EXCEPT ![i] = "serving"] /\ u.held = [s.held EXCEPT ![i] = h]
      /\ u.job = [s.job EXCEPT ![i] = g]
  BY <1>3, <1>5, <1>7 DEF Keeps
<1>9. DOMAIN s.at = Instances /\ DOMAIN s.held = Servers /\ DOMAIN s.job = Instances
  BY DEF Typed, Helds
<1>10. u = Serve(s, i, r)
  <2>1. v.held = s.held
    BY <1>3 DEF Keeps
  <2> QED BY <1>e, <1>h, <1>j, <1>u, <1>v, <1>w, <2>1 DEF Serve, WithAt, WithHeld, WithJob
<1>11. /\ u.at[i] = "serving" /\ \A j \in Instances : j # i => u.at[j] = s.at[j]
       /\ u.job[i] = g
       /\ \A j \in Servers : j # i => u.job[j] = s.job[j] /\ u.held[j] = s.held[j]
       /\ u.held[i] = h
  BY <1>1, <1>8, <1>9, Who
<1>12. Begins(s, u, i, r)
  BY <1>2, <1>4, <1>11, <1>e, <1>j DEF Begins
<1> QED BY <1>7, <1>8, <1>10, <1>12

LEMMA ServeAgrees ==
  ASSUME NEW s, Agree(s), NEW i \in Servers, s.at[i] = "idle", NEW r \in To(i[1]), r.entry \notin s.joined[i[1]],
         NEW u, Keeps(s, u, {"port", "pending", "inbox", "at", "held", "job"}),
         Begins(s, u, i, r),
         \A j \in Workers : j # i => u.inbox[j] = s.inbox[j],
         i \in Workers => s.inbox[i] # <<>> /\ u.inbox[i] = <<>>
  PROVE  Agree(u)
<1>0. /\ u.at[i] = "serving" /\ \A j \in Instances : j # i => u.at[j] = s.at[j]
      /\ u.job[i] = [entry |-> r.entry, phase |-> 1, step |-> 1]
      /\ \A j \in Servers : j # i => u.job[j] = s.job[j] /\ u.held[j] = s.held[j]
      /\ r.entry \in EntriesOf(i) /\ \A f \in EntriesOf(i) : f # r.entry => u.held[i][f] = s.held[i][f]
  BY DEF Begins
<1>1. /\ u.hand = s.hand /\ u.count = s.count /\ u.idle = s.idle /\ u.joined = s.joined /\ u.done = s.done
  BY DEF Keeps
<1>2. ASSUME NEW j \in Instances PROVE StateOf(u, j)
  <2>1. StateOf(s, j)
    BY DEF Agree
  <2>2. CASE j = i
    BY <1>0, <2>2, Who DEF StateOf, Working
  <2>3. CASE j # i
    BY <1>0, <2>1, <2>3 DEF StateOf
  <2> QED BY <2>2, <2>3
<1>3. ASSUME NEW j \in Servers PROVE Holds(u, j)
  <2>1. Holds(s, j) /\ j \in Instances
    BY Who DEF Agree
  <2>2. CASE j = i
    <3>1. u.job[i].entry = r.entry /\ u.job[i].phase = 1 /\ u.job[i].step = 1
      BY <1>0
    <3>2. \A f \in EntriesOf(i) : s.held[i][f] # Nothing => f \in s.joined[i[1]] /\ s.held[i][f].slot = 0
      BY <2>1, <2>2 DEF Holds, Working
    <3> QED BY <1>0, <1>1, <2>2, <3>1, <3>2 DEF Holds, Working
  <2>3. CASE j # i
    BY <1>0, <1>1, <2>1, <2>3 DEF Holds
  <2> QED BY <2>2, <2>3
<1>4. \A t \in Tasks : JoinsOf(u, t)
  BY <1>1 DEF Agree, JoinsOf
<1>5. ASSUME NEW j \in Workers PROVE WorkerOf(u, j)
  <2>1. WorkerOf(s, j) /\ j \in Instances
    BY Who DEF Agree
  <2>2. CASE j = i
    <3>1. Len(u.inbox[i]) = 0
      BY <2>2
    <3> QED BY <1>0, <1>1, <2>1, <2>2, <3>1 DEF WorkerOf
  <2>3. CASE j # i
    BY <1>0, <1>1, <2>1, <2>3 DEF WorkerOf
  <2> QED BY <2>2, <2>3
<1>6. ASSUME NEW t \in Multi PROVE DispatcherOf(u, t)
  <2>1. DispatcherOf(s, t) /\ Main(t) # i /\ Main(t) \in Instances
    BY Who DEF Agree
  <2>2. \A j \in WorkersOf(t) : s.at[j] = "starting" => u.at[j] = "starting"
    BY <1>0, Who DEF WorkersOf
  <2> QED BY <1>0, <1>1, <2>1, <2>2 DEF DispatcherOf
<1>7. \A t \in Tasks \ Multi : SingleOf(u, t)
  BY <1>1 DEF Agree, SingleOf
<1> QED BY <1>2, <1>3, <1>4, <1>5, <1>6, <1>7 DEF Agree

LEMMA NoJoins ==
  ASSUME NEW s, Typed(s), Agree(s), NEW t \in Multi
  PROVE  s.joined[t] = {}
<1>1. t \in Tasks /\ s.joined[t] \subseteq Entries
  BY Who DEF Typed
<1>2. \A e \in s.joined[t] : TaskOf[e] = t /\ Joins[e] # {}
  BY <1>1 DEF Agree, JoinsOf
<1> QED BY <1>1, <1>2, JoinFacts

\* What an idle server holds for an entry without an open join: nothing.
LEMMA IdleHolds ==
  ASSUME NEW s, Agree(s), NEW i \in Servers, s.at[i] = "idle", NEW e \in EntriesOf(i), e \notin s.joined[i[1]]
  PROVE  s.held[i][e] = Nothing
<1>1. Holds(s, i)
  BY DEF Agree
<1> QED BY <1>1 DEF Holds, Working

LEMMA TakeWorkStep ==
  ASSUME IInv, NEW i \in Servers, TakeWork(i)
  PROVE  Good(k') /\ k'.count = k.count
<1>1. Typed(k) /\ Agree(k) /\ Placed(k)
  BY DEF IInv, Good
<1>t. PICK t, q, r, w : t = i[1] /\ q = k.inbox[i] /\ r = Head(q) /\ w = Tail(q)
  OBVIOUS
<1>s. PICK s : s = WithInbox(k, i, w)
  OBVIOUS
<1>2. k.at[i] = "idle" /\ q # <<>> /\ k' = Serve(s, i, r)
  BY <1>s, <1>t DEF TakeWork, WithInbox
<1>3. i \in Workers /\ i \in Instances /\ t \in Multi /\ t \in Tasks
  <2>1. i \in Instances
    BY Who
  <2>2. i \in Workers
    BY <1>1, <1>2, <1>t, <2>1 DEF Typed, Inboxes
  <2> QED BY <1>t, <2>1, <2>2, Who
<1>4. q \in Seq(To(t))
  BY <1>1, <1>3, <1>t DEF Typed, Inboxes
<1>5. Drops(q, 1, w) /\ w \in Seq(To(t)) /\ q[1] = r /\ r \in To(t)
  BY <1>2, <1>4, <1>t, TailDrops
<1>6. w = <<>>
  <2>1. Len(q) <= 1 /\ Len(q) \in Nat
    BY <1>1, <1>3, <1>4, <1>t, LenProperties DEF Agree, WorkerOf
  <2>2. DOMAIN w = 1..(Len(q) - 1)
    BY <1>5 DEF Drops
  <2>3. Len(w) = 0
    <3>1. Len(w) \in Nat /\ DOMAIN w = 1..Len(w)
      BY <1>5, LenProperties
    <3>2. 1 \notin DOMAIN w
      BY <2>1, <2>2
    <3> QED BY <3>1, <3>2
  <2> QED BY <1>5, <2>3, EmptySeq
<1>i. w \in Seq(To(i[1])) /\ r \in To(i[1])
  BY <1>5, <1>t
<1>7. Typed(s) /\ Keeps(k, s, {"inbox"}) /\ s.inbox = [k.inbox EXCEPT ![i] = w]
  BY <1>1, <1>3, <1>i, <1>s, InboxSet
<1>u. PICK u : u = Serve(s, i, r)
  OBVIOUS
<1>7a. Typed(u) /\ Keeps(s, u, {"at", "held", "job"}) /\ Begins(s, u, i, r)
  BY <1>7, <1>i, <1>u, ServeSet
<1>8. /\ u.at[i] = "serving" /\ \A j \in Instances : j # i => u.at[j] = s.at[j]
      /\ u.job[i] = [entry |-> r.entry, phase |-> 1, step |-> 1]
      /\ \A j \in Servers : j # i => u.job[j] = s.job[j] /\ u.held[j] = s.held[j]
      /\ u.held[i][r.entry] = r /\ r.entry \in EntriesOf(i)
      /\ \A f \in EntriesOf(i) : f # r.entry => u.held[i][f] = s.held[i][f]
  BY <1>7a DEF Begins
<1>9. /\ Keeps(k, u, {"inbox", "at", "held", "job"}) /\ u.inbox = s.inbox /\ u.count = k.count
      /\ s.at = k.at /\ s.held = k.held /\ s.job = k.job
  BY <1>7, <1>7a DEF Keeps
<1>10. u.inbox[i] = <<>> /\ \A j \in Instances : j # i => u.inbox[j] = k.inbox[j]
  <2>1. DOMAIN k.inbox = Instances
    BY <1>1 DEF Typed, Inboxes
  <2> QED BY <1>3, <1>6, <1>7, <1>9, <2>1
<1>11. k.joined[t] = {} /\ k.held[i][r.entry] = Nothing
  <2>1. k.joined[t] = {}
    BY <1>1, <1>3, NoJoins
  <2> QED BY <1>1, <1>2, <1>8, <1>t, <2>1, IdleHolds
<1>12. Agree(u)
  <2>1. Keeps(k, u, {"port", "pending", "inbox", "at", "held", "job"})
    BY <1>9 DEF Keeps
  <2>2. \A j \in Workers : j # i => u.inbox[j] = k.inbox[j]
    BY <1>10, Who
  <2>3. r.entry \notin k.joined[i[1]]
    BY <1>11, <1>t
  <2>4. Begins(k, u, i, r)
    BY <1>8, <1>9 DEF Begins
  <2>5. i \in Workers => k.inbox[i] # <<>> /\ u.inbox[i] = <<>>
    BY <1>2, <1>10, <1>t
  <2> QED BY <1>1, <1>2, <1>i, <2>1, <2>2, <2>3, <2>4, <2>5, ServeAgrees
<1>13. Placed(u)
  <2>a. PICK a, b : a = Site("inbox", i, None) /\ b = Site("held", i, r.entry)
    OBVIOUS
  <2>x. PICK x : x = ThingOf(t, r)
    OBVIOUS
  <2>1. Drops(Box(k, a), 1, Box(u, a)) /\ x = Thing(a, Box(k, a)[1]) /\ a \in Sites
    <3>1. Box(k, a) = q /\ Box(u, a) = w /\ Thing(a, r) = x /\ a \in Sites
      BY <1>3, <1>6, <1>10, <1>t, <2>a, <2>x, WhatIsWhere, Boxes, ThingsAt
    <3> QED BY <1>5, <3>1
  <2>2. Adds(Box(k, b), r, Box(u, b)) /\ x = Thing(b, r) /\ b \in Sites
    <3>1. Box(k, b) = Optional(Nothing) /\ Box(u, b) = Optional(r) /\ Thing(b, r) = x /\ b \in Sites
      BY <1>8, <1>11, <1>t, <2>a, <2>x, WhatIsWhere, Boxes, ThingsAt
    <3>2. r # Nothing
      BY <1>5, RequestsTo
    <3> QED BY <3>1, <3>2, HandAdds
  <2>3. a # b
    BY <2>a DEF Site
  <2>4. Elsewhere(k, u, {a, b})
    <3>1. Rest(k, u, {a, b})
      BY <1>8, <1>9, <1>10, <2>a, Who DEF Rest, Keeps
    <3> QED BY <3>1, OnlyThere
  <2>5. SameLife(k, u)
    <3>1. \A j \in Callers : u.at[j] = "calling" <=> k.at[j] = "calling"
      BY <1>2, <1>8, <1>9, Who DEF Callers
    <3> QED BY <3>1, Alike
  <2>6. x \in Things
    BY <1>3, <1>5, <2>x, ThingsOf
  <2> QED BY <1>1, <2>1, <2>2, <2>3, <2>4, <2>5, <2>6, Moved
<1> QED BY <1>2, <1>7a, <1>9, <1>12, <1>13, <1>u DEF Good

-----------------------------------------------------------------------------
\* Dispatchers and workers.

LEMMA Dispatching ==
  ASSUME IInv, NEW t \in Tasks, k.at[Main(t)] \in {"assigning", "growing"}
  PROVE  /\ Typed(k) /\ Agree(k) /\ Placed(k) /\ t \in Multi /\ DispatcherOf(k, t)
         /\ Main(t) \in Instances /\ k.idle[t] \in Seq(Workers) /\ k.hand[t] \in To(t) /\ k.hand[t] # Nothing
<1>1. Typed(k) /\ Agree(k) /\ Placed(k)
  BY DEF IInv, Good
<1>2. Main(t) \in Instances /\ Main(t) \in Mains
  BY Who
<1>3. t \in Multi
  <2>1. StateOf(k, Main(t))
    BY <1>1, <1>2 DEF Agree
  <2> QED BY <2>1, Who DEF StateOf, Working
<1>4. DispatcherOf(k, t)
  BY <1>1, <1>3 DEF Agree
<1>5. k.hand[t] # Nothing
  BY <1>4 DEF DispatcherOf
<1>6. k.idle[t] \in Seq(Workers) /\ k.hand[t] \in To(t)
  BY <1>1, <1>5 DEF Typed, Hands
<1> QED BY <1>1, <1>2, <1>3, <1>4, <1>5, <1>6

LEMMA AssignStep ==
  ASSUME IInv, NEW t \in Tasks, Assign(t)
  PROVE  Good(k') /\ k'.count = k.count
<1>i. PICK i, w, r, m : i = Head(k.idle[t]) /\ w = Tail(k.idle[t]) /\ r = k.hand[t] /\ m = Main(t)
  OBVIOUS
<1>q. PICK q : q = Append(k.inbox[i], r)
  OBVIOUS
<1>1. k.at[m] \in {"assigning", "growing"} /\ k.idle[t] # <<>>
  BY <1>i DEF Assign
<1>2. /\ Typed(k) /\ Agree(k) /\ Placed(k) /\ t \in Multi /\ DispatcherOf(k, t) /\ m \in Instances
      /\ k.idle[t] \in Seq(Workers) /\ r \in To(t) /\ r # Nothing
  BY <1>1, <1>i, Dispatching
<1>3. w \in Seq(Workers) /\ i \in Workers /\ i \in Range(k.idle[t]) /\ Range(w) = Range(k.idle[t]) \ {i} /\ IsInjective(w)
  <2>1. IsInjective(k.idle[t])
    BY <1>2 DEF DispatcherOf
  <2> QED BY <1>1, <1>2, <1>i, <2>1, NoteTaken
<1>4. i[1] = t /\ i \in Instances /\ i \in Servers /\ i # m /\ m \notin Workers /\ m \notin Callers
  <2>1. i[1] = t
    BY <1>2, <1>3 DEF DispatcherOf
  <2> QED BY <1>2, <1>3, <1>i, <2>1, Who DEF Callers
<1>5. k.at[i] = "idle" /\ k.inbox[i] = <<>> /\ WorkerOf(k, i)
  BY <1>2, <1>3, <1>4 DEF Agree, WorkerOf
<1>6. q \in Seq(To(i[1])) /\ q # <<>> /\ Len(q) = 1 /\ Adds(k.inbox[i], r, q)
  <2>1. k.inbox[i] \in Seq(To(t))
    BY <1>2, <1>3, <1>4 DEF Typed, Inboxes
  <2>2. q \in Seq(To(t)) /\ Adds(k.inbox[i], r, q)
    BY <1>2, <1>q, <2>1, AppendAdds
  <2>3. q = <<r>>
    BY <1>5, <1>q
  <2> QED BY <1>4, <2>2, <2>3
<1>a. PICK a : a = WithIdle(k, t, w)
  OBVIOUS
<1>b. PICK b : b = WithAt(a, m, "idle")
  OBVIOUS
<1>c. PICK c : c = WithHand(b, t, Nothing)
  OBVIOUS
<1>u. PICK u : u = WithInbox(c, i, q)
  OBVIOUS
<1>7. Typed(a) /\ Keeps(k, a, {"idle"}) /\ a.idle = [k.idle EXCEPT ![t] = w]
  BY <1>2, <1>3, <1>a, IdleSet
<1>8. Typed(b) /\ Keeps(a, b, {"at"}) /\ b.at = [a.at EXCEPT ![m] = "idle"]
  BY <1>2, <1>7, <1>b, AtSet DEF States
<1>9. Typed(c) /\ Keeps(b, c, {"hand"}) /\ c.hand = [b.hand EXCEPT ![t] = Nothing]
  BY <1>8, <1>c, HandSet
<1>10. Typed(u) /\ Keeps(c, u, {"inbox"}) /\ u.inbox = [c.inbox EXCEPT ![i] = q]
  BY <1>3, <1>6, <1>9, <1>u, InboxSet
<1>11. k' = u
  <2>1. c.inbox = k.inbox
    BY <1>7, <1>8, <1>9 DEF Keeps
  <2>2. k' = [k EXCEPT !.idle[t] = w, !.at[m] = "idle", !.hand[t] = Nothing, !.inbox[i] = Append(@, r)]
    BY <1>i DEF Assign
  <2>3. u = [c EXCEPT !.inbox[i] = Append(@, r)]
    BY <1>q, <1>u, <2>1 DEF WithInbox
  <2> QED BY <1>a, <1>b, <1>c, <2>2, <2>3 DEF WithIdle, WithAt, WithHand
<1>12. /\ Keeps(k, u, {"idle", "at", "hand", "inbox"}) /\ u.idle = [k.idle EXCEPT ![t] = w] /\ u.at = [k.at EXCEPT ![m] = "idle"]
       /\ u.hand = [k.hand EXCEPT ![t] = Nothing] /\ u.inbox = [k.inbox EXCEPT ![i] = q]
  BY <1>7, <1>8, <1>9, <1>10 DEF Keeps
<1>13. /\ u.idle[t] = w /\ \A p \in Tasks : p # t => u.idle[p] = k.idle[p]
       /\ u.at[m] = "idle" /\ \A j \in Instances : j # m => u.at[j] = k.at[j]
       /\ u.hand[t] = Nothing /\ \A p \in Tasks : p # t => u.hand[p] = k.hand[p]
       /\ u.inbox[i] = q /\ \A j \in Instances : j # i => u.inbox[j] = k.inbox[j]
  <2>1. DOMAIN k.idle = Tasks /\ DOMAIN k.at = Instances /\ DOMAIN k.hand = Tasks /\ DOMAIN k.inbox = Instances
    BY <1>2 DEF Typed, Hands, Inboxes
  <2> QED BY <1>2, <1>4, <1>12, <2>1
<1>14. u.joined = k.joined /\ u.done = k.done /\ u.held = k.held /\ u.job = k.job /\ u.count = k.count
  BY <1>12 DEF Keeps
<1>15. Placed(u)
  <2>a. PICK d, e : d = Site("hand", t, None) /\ e = Site("inbox", i, None)
    OBVIOUS
  <2>x. PICK x : x = ThingOf(t, r)
    OBVIOUS
  <2>1. Drops(Box(k, d), 1, Box(u, d)) /\ x = Thing(d, Box(k, d)[1]) /\ d \in Sites
    <3>1. Box(k, d) = Optional(r) /\ Box(u, d) = Optional(Nothing) /\ Thing(d, r) = x /\ d \in Sites
      BY <1>13, <1>i, <2>a, <2>x, WhatIsWhere, Boxes, ThingsAt
    <3> QED BY <1>2, <3>1, HandAdds
  <2>2. Adds(Box(k, e), r, Box(u, e)) /\ x = Thing(e, r) /\ e \in Sites
    <3>1. Box(k, e) = k.inbox[i] /\ Box(u, e) = q /\ Thing(e, r) = x /\ e \in Sites
      BY <1>3, <1>4, <1>13, <2>a, <2>x, WhatIsWhere, Boxes, ThingsAt
    <3> QED BY <1>6, <3>1
  <2>3. d # e
    BY <2>a DEF Site
  <2>4. Elsewhere(k, u, {d, e})
    <3>1. Rest(k, u, {d, e})
      BY <1>12, <1>13, <2>a, Who DEF Rest, Keeps
    <3> QED BY <3>1, OnlyThere
  <2>5. SameLife(k, u)
    <3>1. \A j \in Callers : u.at[j] = "calling" <=> k.at[j] = "calling"
      BY <1>4, <1>13, Who DEF Callers
    <3> QED BY <3>1, Alike
  <2>6. x \in Things
    BY <1>2, <2>x, ThingsOf
  <2> QED BY <1>2, <2>1, <2>2, <2>3, <2>4, <2>5, <2>6, Moved
<1>16. ASSUME NEW j \in Instances PROVE StateOf(u, j)
  <2>1. StateOf(k, j)
    BY <1>2 DEF Agree
  <2>2. CASE j = m
    BY <1>2, <1>4, <1>13, <1>i, <2>2, Who DEF StateOf
  <2>3. CASE j # m
    BY <1>13, <2>1, <2>3 DEF StateOf
  <2> QED BY <2>2, <2>3
<1>17. ASSUME NEW j \in Servers PROVE Holds(u, j)
  <2>1. Holds(k, j) /\ u.at[j] = k.at[j]
    BY <1>2, <1>4, <1>13, Who DEF Agree, Callers
  <2> QED BY <1>14, <2>1 DEF Holds
<1>18. \A p \in Tasks : JoinsOf(u, p)
  BY <1>2, <1>14 DEF Agree, JoinsOf
<1>19. ASSUME NEW p \in Tasks \ Multi PROVE SingleOf(u, p)
  BY <1>2, <1>13, <1>14 DEF Agree, SingleOf
<1>20. ASSUME NEW j \in Workers PROVE WorkerOf(u, j)
  <2>1. WorkerOf(k, j) /\ j \in Instances /\ j[1] \in Tasks /\ u.at[j] = k.at[j]
    BY <1>2, <1>4, <1>13, Who DEF Agree
  <2>2. CASE j = i
    <3>1. u.inbox[i] = q /\ u.at[i] = "idle" /\ u.idle[i[1]] = w /\ u.count = k.count
      BY <1>4, <1>5, <1>13, <1>14
    <3>2. k.at[i] = "none" <=> i[2] > k.count[i[1]]
      BY <1>5 DEF WorkerOf
    <3>3. i \notin Range(w) /\ Len(q) <= 1
      BY <1>3, <1>6
    <3>4. ~(i[2] > u.count[i[1]])
      BY <1>5, <3>1, <3>2
    <3> QED BY <1>6, <2>2, <3>1, <3>3, <3>4 DEF WorkerOf
  <2>3. CASE j # i /\ j[1] = t
    <3>1. j \in Range(w) <=> j \in Range(k.idle[t])
      BY <1>3, <2>3
    <3> QED BY <1>13, <1>14, <2>1, <2>3, <3>1 DEF WorkerOf
  <2>4. CASE j # i /\ j[1] # t
    BY <1>13, <1>14, <2>1, <2>4 DEF WorkerOf
  <2> QED BY <2>2, <2>3, <2>4
<1>21. ASSUME NEW p \in Multi PROVE DispatcherOf(u, p)
  <2>1. DispatcherOf(k, p) /\ p \in Tasks /\ Main(p) \in Instances
    BY <1>2, Who DEF Agree
  <2>2. CASE p = t
    <3>1. u.idle[p] = w /\ u.hand[p] = Nothing /\ u.at[Main(p)] = "idle" /\ u.count = k.count
      BY <1>13, <1>14, <1>i, <2>2
    <3>2. IsInjective(w) /\ \A j \in Range(w) : j[1] = p
      BY <1>3, <2>1, <2>2 DEF DispatcherOf
    <3> QED BY <2>1, <3>1, <3>2 DEF DispatcherOf
  <2>3. CASE p # t
    <3>1. u.idle[p] = k.idle[p] /\ u.hand[p] = k.hand[p] /\ u.at[Main(p)] = k.at[Main(p)] /\ u.count = k.count
      BY <1>13, <1>14, <1>i, <2>1, <2>3, Who
    <3>2. \A j \in WorkersOf(p) : u.at[j] = k.at[j]
      BY <1>4, <1>13, Who DEF WorkersOf
    <3> QED BY <2>1, <3>1, <3>2 DEF DispatcherOf
  <2> QED BY <2>2, <2>3
<1>22. Agree(u)
  BY <1>16, <1>17, <1>18, <1>19, <1>20, <1>21 DEF Agree
<1> QED BY <1>10, <1>11, <1>14, <1>15, <1>22 DEF Good

LEMMA GrowStep ==
  ASSUME IInv, NEW t \in Tasks, Grow(t)
  PROVE  Good(k') /\ CanGrow(t) /\ \A p \in Tasks : p # t => k'.count[p] = k.count[p]
<1>n. PICK n, m : n = k.count[t] + 1 /\ m = Main(t)
  OBVIOUS
<1>i. PICK i : i = <<t, n>>
  OBVIOUS
<1>1. CanGrow(t) /\ k.at[m] = "assigning" /\ k.count[t] < Limit[t] /\ k.idle[t] = <<>>
  BY <1>n DEF Grow, CanGrow
<1>2. /\ Typed(k) /\ Agree(k) /\ Placed(k) /\ t \in Multi /\ DispatcherOf(k, t) /\ m \in Instances
      /\ k.hand[t] # Nothing
  BY <1>1, <1>n, Dispatching
<1>3. n \in 1..Limit[t] /\ n \in Nat /\ k.count[t] \in Nat
  <2>1. k.count[t] \in Nat /\ Limit[t] \in Nat
    BY <1>2, ServersAssumption DEF Typed
  <2> QED BY <1>1, <1>n, <2>1
<1>4. i \in Workers /\ i[1] = t /\ i[2] = n /\ i \in Instances /\ i \in Servers /\ i # m /\ m \notin Workers
  <2>1. i \in Workers /\ i[1] = t /\ i[2] = n
    BY <1>2, <1>3, <1>i, Who
  <2> QED BY <1>n, <2>1, Who
<1>5. k.at[i] = "none" /\ WorkerOf(k, i)
  <2>1. WorkerOf(k, i)
    BY <1>2, <1>4 DEF Agree
  <2>2. i[2] > k.count[i[1]]
    BY <1>3, <1>4, <1>n
  <2> QED BY <2>1, <2>2 DEF WorkerOf
<1>a. PICK a : a = WithCount(k, t, n)
  OBVIOUS
<1>b. PICK b : b = WithAt(a, i, "starting")
  OBVIOUS
<1>u. PICK u : u = WithAt(b, m, "growing")
  OBVIOUS
<1>6. Typed(a) /\ Keeps(k, a, {"count"}) /\ a.count = [k.count EXCEPT ![t] = n]
  BY <1>2, <1>3, <1>a, CountSet
<1>7. Typed(b) /\ Keeps(a, b, {"at"}) /\ b.at = [a.at EXCEPT ![i] = "starting"]
  BY <1>4, <1>6, <1>b, AtSet DEF States
<1>8. Typed(u) /\ Keeps(b, u, {"at"}) /\ u.at = [b.at EXCEPT ![m] = "growing"]
  BY <1>2, <1>7, <1>u, AtSet DEF States
<1>9. k' = u
  <2>1. k' = [k EXCEPT !.count[t] = n, !.at[i] = "starting", !.at[m] = "growing"]
    BY <1>i, <1>n DEF Grow
  <2> QED BY <1>a, <1>b, <1>u, <2>1 DEF WithCount, WithAt
<1>10. /\ Keeps(k, u, {"count", "at"}) /\ u.count[t] = n /\ \A p \in Tasks : p # t => u.count[p] = k.count[p]
       /\ u.at[i] = "starting" /\ u.at[m] = "growing" /\ \A j \in Instances : j # i /\ j # m => u.at[j] = k.at[j]
  <2>1. DOMAIN k.count = Tasks /\ DOMAIN k.at = Instances /\ a.at = k.at /\ u.count = a.count
    BY <1>2, <1>6, <1>7, <1>8 DEF Typed, Keeps
  <2>2. Keeps(k, u, {"count", "at"})
    BY <1>6, <1>7, <1>8 DEF Keeps
  <2> QED BY <1>2, <1>4, <1>6, <1>7, <1>8, <2>1, <2>2
<1>11. /\ u.joined = k.joined /\ u.done = k.done /\ u.held = k.held /\ u.job = k.job /\ u.idle = k.idle /\ u.hand = k.hand
       /\ u.inbox = k.inbox
  BY <1>10 DEF Keeps
<1>12. Placed(u)
  <2>1. Keeps(k, u, {"at", "job", "count", "idle", "joined", "done"})
    BY <1>10 DEF Keeps
  <2>2. \A j \in Callers : u.at[j] = "calling" <=> k.at[j] = "calling"
    BY <1>1, <1>5, <1>10, Who DEF Callers
  <2> QED BY <1>2, <2>1, <2>2, NotMoved
<1>13. ASSUME NEW j \in Instances PROVE StateOf(u, j)
  <2>1. StateOf(k, j)
    BY <1>2 DEF Agree
  <2>2. CASE j = m
    BY <1>2, <1>10, <1>n, <2>2, Who DEF StateOf
  <2>3. CASE j = i
    BY <1>4, <1>10, <2>3, Who DEF StateOf
  <2>4. CASE j # m /\ j # i
    BY <1>10, <2>1, <2>4 DEF StateOf
  <2> QED BY <2>2, <2>3, <2>4
<1>14. ASSUME NEW j \in Servers PROVE Holds(u, j)
  <2>1. Holds(k, j) /\ j \in Instances /\ j # m
    BY <1>2, <1>n, Who DEF Agree
  <2>2. CASE j = i
    BY <1>5, <1>10, <1>11, <2>1, <2>2 DEF Holds, Working
  <2>3. CASE j # i
    BY <1>10, <1>11, <2>1, <2>3 DEF Holds
  <2> QED BY <2>2, <2>3
<1>15. \A p \in Tasks : JoinsOf(u, p)
  BY <1>2, <1>11 DEF Agree, JoinsOf
<1>16. ASSUME NEW p \in Tasks \ Multi PROVE SingleOf(u, p)
  BY <1>2, <1>10, <1>11 DEF Agree, SingleOf
<1>17. ASSUME NEW j \in Workers PROVE WorkerOf(u, j)
  <2>1. WorkerOf(k, j) /\ j \in Instances /\ j[1] \in Tasks /\ j # m /\ j = <<j[1], j[2]>> /\ j[2] \in Nat
    BY <1>2, <1>4, Who, ServersAssumption DEF Agree
  <2>2. CASE j = i
    <3>1. u.count[i[1]] = n /\ ~(i[2] > n)
      BY <1>3, <1>4, <1>10
    <3> QED BY <1>5, <1>10, <1>11, <2>2, <3>1 DEF WorkerOf
  <2>3. CASE j # i
    <3>1. u.at[j] = k.at[j]
      BY <1>10, <2>1, <2>3
    <3>2. j[2] > u.count[j[1]] <=> j[2] > k.count[j[1]]
      <4>1. CASE j[1] = t
        <5>1. j[2] # n
          BY <1>i, <2>1, <2>3, <4>1
        <5> QED BY <1>3, <1>10, <1>n, <2>1, <4>1, <5>1
      <4>2. CASE j[1] # t
        BY <1>10, <2>1, <4>2
      <4> QED BY <4>1, <4>2
    <3> QED BY <1>11, <2>1, <3>1, <3>2 DEF WorkerOf
  <2> QED BY <2>2, <2>3
<1>18. ASSUME NEW p \in Multi PROVE DispatcherOf(u, p)
  <2>1. DispatcherOf(k, p) /\ p \in Tasks /\ Main(p) \in Instances /\ Main(p) # i
    BY <1>2, <1>4, Who DEF Agree
  <2>2. CASE p = t
    <3>1. u.count[p] <= Limit[p]
      <4>1. Limit[t] \in Nat
        BY ServersAssumption
      <4> QED BY <1>3, <1>10, <2>2, <4>1
    <3>2. i \in WorkersOf(p) /\ u.at[i] = "starting" /\ u.at[Main(p)] = "growing" /\ u.hand[p] # Nothing
      BY <1>2, <1>4, <1>10, <1>11, <1>n, <2>2 DEF WorkersOf
    <3> QED BY <1>11, <2>1, <3>1, <3>2 DEF DispatcherOf
  <2>3. CASE p # t
    <3>1. u.count[p] = k.count[p] /\ u.at[Main(p)] = k.at[Main(p)]
      BY <1>10, <1>n, <2>1, <2>3, Who
    <3>2. \A j \in WorkersOf(p) : u.at[j] = k.at[j]
      BY <1>4, <1>10, <2>3, Who DEF WorkersOf
    <3> QED BY <1>11, <2>1, <3>1, <3>2 DEF DispatcherOf
  <2> QED BY <2>2, <2>3
<1>19. Agree(u)
  BY <1>13, <1>14, <1>15, <1>16, <1>17, <1>18 DEF Agree
<1> QED BY <1>1, <1>8, <1>9, <1>10, <1>12, <1>19 DEF Good

-----------------------------------------------------------------------------
\* A request is taken from the port of a task or from its pending requests.

\* In state s request r, the n-th at site a, has been taken from there.
Taken(s, t, a, n, r) ==
  /\ Typed(s) /\ Keeps(k, s, {"port", "pending"})
  /\ a = Site("port", t, None) \/ a = Site("pending", t, None)
  /\ a \in Sites /\ Drops(Box(k, a), n, Box(s, a)) /\ r = Box(k, a)[n] /\ r \in To(t) /\ Thing(a, r) = ThingOf(t, r)
  /\ Rest(k, s, {a})

LEMMA TakenSame ==
  ASSUME NEW s, NEW t, NEW a, NEW n, NEW r, Taken(s, t, a, n, r), NEW u, u.port = s.port, u.pending = s.pending
  PROVE  Box(u, a) = Box(s, a)
<1>1. Box(u, Site("port", t, None)) = u.port[t] /\ Box(s, Site("port", t, None)) = s.port[t]
  BY Boxes
<1>2. Box(u, Site("pending", t, None)) = u.pending[t] /\ Box(s, Site("pending", t, None)) = s.pending[t]
  BY Boxes
<1> QED BY <1>1, <1>2 DEF Taken

LEMMA AcceptedBySingle ==
  ASSUME IInv, NEW t \in Tasks \ Multi, NEW s, NEW a, NEW n, NEW r, Taken(s, t, a, n, r),
         k.at[Main(t)] = "idle", r.entry \notin k.joined[t]
  PROVE  Good(Serve(s, Main(t), r)) /\ Serve(s, Main(t), r).count = k.count
<1>i. PICK i : i = Main(t)
  OBVIOUS
<1>u. PICK u : u = Serve(s, i, r)
  OBVIOUS
<1>1. Typed(k) /\ Agree(k) /\ Placed(k)
  BY DEF IInv, Good
<1>2. i \in Servers /\ i[1] = t /\ i \in Instances /\ i \notin Workers /\ k.at[i] = "idle" /\ r.entry \notin k.joined[i[1]]
  BY <1>i, Who
<1>3. r \in To(t) /\ r \in To(i[1]) /\ Typed(s) /\ Keeps(k, s, {"port", "pending"}) /\ Thing(a, r) = ThingOf(t, r) /\ a \in Sites
  BY <1>2 DEF Taken
<1>4. Typed(u) /\ Keeps(s, u, {"at", "held", "job"}) /\ Begins(s, u, i, r)
  BY <1>2, <1>3, <1>u, ServeSet
<1>5. /\ Keeps(k, u, {"port", "pending", "at", "held", "job"}) /\ s.at = k.at /\ s.held = k.held /\ s.job = k.job
      /\ u.port = s.port /\ u.pending = s.pending /\ u.inbox = k.inbox /\ u.count = k.count
  BY <1>3, <1>4 DEF Keeps
<1>6. Begins(k, u, i, r)
  BY <1>4, <1>5 DEF Begins
<1>7. Agree(u)
  <2>1. Keeps(k, u, {"port", "pending", "inbox", "at", "held", "job"})
    BY <1>5 DEF Keeps
  <2>2. r.entry \in EntriesOf(i)
    BY <1>6 DEF Begins
  <2>3. (\A j \in Workers : j # i => u.inbox[j] = k.inbox[j]) /\ (i \in Workers => k.inbox[i] # <<>> /\ u.inbox[i] = <<>>)
    BY <1>2, <1>5
  <2> QED BY <1>1, <1>2, <1>3, <1>6, <2>1, <2>2, <2>3, ServeAgrees
<1>8. /\ u.at[i] = "serving" /\ \A j \in Instances : j # i => u.at[j] = k.at[j]
      /\ \A j \in Servers : j # i => u.held[j] = k.held[j]
      /\ u.held[i][r.entry] = r /\ r.entry \in EntriesOf(i)
      /\ \A f \in EntriesOf(i) : f # r.entry => u.held[i][f] = k.held[i][f]
  BY <1>6 DEF Begins
<1>9. Placed(u)
  <2>a. PICK b : b = Site("held", i, r.entry)
    OBVIOUS
  <2>x. PICK x : x = ThingOf(t, r)
    OBVIOUS
  <2>1. Drops(Box(k, a), n, Box(u, a)) /\ x = Thing(a, Box(k, a)[n]) /\ a \in Sites
    <3>1. Box(u, a) = Box(s, a)
      BY <1>5, TakenSame
    <3> QED BY <1>3, <2>x, <3>1 DEF Taken
  <2>2. Adds(Box(k, b), r, Box(u, b)) /\ x = Thing(b, r) /\ b \in Sites
    <3>1. k.held[i][r.entry] = Nothing
      BY <1>1, <1>2, <1>8, IdleHolds
    <3>2. Box(k, b) = Optional(Nothing) /\ Box(u, b) = Optional(r) /\ Thing(b, r) = x /\ b \in Sites
      BY <1>2, <1>8, <2>a, <2>x, <3>1, WhatIsWhere, Boxes, ThingsAt
    <3>3. r # Nothing
      BY <1>3, RequestsTo
    <3> QED BY <3>2, <3>3, HandAdds
  <2>3. a # b
    BY <2>a DEF Taken, Site
  <2>4. Elsewhere(k, u, {a, b})
    <3>1. Rest(k, s, {a})
      BY DEF Taken
    <3>2. u.free = k.free /\ u.hand = k.hand
      BY <1>5 DEF Keeps
    <3>3. Rest(k, u, {a, b})
      BY <1>5, <1>8, <2>a, <3>1, <3>2 DEF Rest
    <3> QED BY <3>3, OnlyThere
  <2>5. SameLife(k, u)
    <3>1. \A j \in Callers : u.at[j] = "calling" <=> k.at[j] = "calling"
      BY <1>2, <1>8, Who DEF Callers
    <3> QED BY <3>1, Alike
  <2>6. x \in Things
    BY <1>3, <2>x, ThingsOf
  <2> QED BY <1>1, <2>1, <2>2, <2>3, <2>4, <2>5, <2>6, Moved
<1> QED BY <1>4, <1>5, <1>7, <1>9, <1>i, <1>u DEF Good

LEMMA AcceptedByDispatcher ==
  ASSUME IInv, NEW t \in Multi, NEW s, NEW a, NEW n, NEW r, Taken(s, t, a, n, r), k.at[Main(t)] = "idle"
  PROVE  /\ Good([s EXCEPT !.hand[t] = r, !.at[Main(t)] = "assigning"])
         /\ [s EXCEPT !.hand[t] = r, !.at[Main(t)] = "assigning"].count = k.count
<1>m. PICK m : m = Main(t)
  OBVIOUS
<1>v. PICK v : v = WithHand(s, t, r)
  OBVIOUS
<1>u. PICK u : u = WithAt(v, m, "assigning")
  OBVIOUS
<1>0. u = [s EXCEPT !.hand[t] = r, !.at[Main(t)] = "assigning"]
  BY <1>m, <1>u, <1>v DEF WithHand, WithAt
<1>1. Typed(k) /\ Agree(k) /\ Placed(k)
  BY DEF IInv, Good
<1>2. t \in Tasks /\ m \in Instances /\ m \notin Servers /\ m \notin Workers /\ m \notin Customers /\ k.at[m] = "idle" /\ DispatcherOf(k, t)
  BY <1>1, <1>m, Who DEF Agree
<1>3. r \in To(t) /\ r # Nothing /\ Typed(s) /\ Keeps(k, s, {"port", "pending"}) /\ Thing(a, r) = ThingOf(t, r) /\ a \in Sites
  BY RequestsTo DEF Taken
<1>4. Typed(v) /\ Keeps(s, v, {"hand"}) /\ v.hand = [s.hand EXCEPT ![t] = r]
  BY <1>2, <1>3, <1>v, HandSet
<1>5. Typed(u) /\ Keeps(v, u, {"at"}) /\ u.at = [v.at EXCEPT ![m] = "assigning"]
  BY <1>2, <1>4, <1>u, AtSet DEF States
<1>6. /\ Keeps(k, u, {"port", "pending", "at", "hand"}) /\ u.port = s.port /\ u.pending = s.pending
      /\ u.hand = [k.hand EXCEPT ![t] = r] /\ u.at = [k.at EXCEPT ![m] = "assigning"]
  BY <1>3, <1>4, <1>5 DEF Keeps
<1>7. /\ u.hand[t] = r /\ \A p \in Tasks : p # t => u.hand[p] = k.hand[p]
      /\ u.at[m] = "assigning" /\ \A j \in Instances : j # m => u.at[j] = k.at[j]
  <2>1. DOMAIN k.hand = Tasks /\ DOMAIN k.at = Instances
    BY <1>1 DEF Typed, Hands
  <2> QED BY <1>2, <1>6, <2>1
<1>8. /\ u.joined = k.joined /\ u.done = k.done /\ u.held = k.held /\ u.job = k.job /\ u.idle = k.idle /\ u.count = k.count
      /\ u.inbox = k.inbox /\ u.free = k.free
  BY <1>6 DEF Keeps
<1>9. Placed(u)
  <2>a. PICK b : b = Site("hand", t, None)
    OBVIOUS
  <2>x. PICK x : x = ThingOf(t, r)
    OBVIOUS
  <2>1. Drops(Box(k, a), n, Box(u, a)) /\ x = Thing(a, Box(k, a)[n]) /\ a \in Sites
    <3>1. Box(u, a) = Box(s, a)
      BY <1>6, TakenSame
    <3> QED BY <1>3, <2>x, <3>1 DEF Taken
  <2>2. Adds(Box(k, b), r, Box(u, b)) /\ x = Thing(b, r) /\ b \in Sites
    <3>1. k.hand[t] = Nothing
      BY <1>2, <1>m DEF DispatcherOf
    <3>2. Box(k, b) = Optional(Nothing) /\ Box(u, b) = Optional(r) /\ Thing(b, r) = x /\ b \in Sites
      BY <1>2, <1>7, <2>a, <2>x, <3>1, WhatIsWhere, Boxes, ThingsAt
    <3> QED BY <1>3, <3>2, HandAdds
  <2>3. a # b
    BY <2>a DEF Taken, Site
  <2>4. Elsewhere(k, u, {a, b})
    <3>1. Rest(k, s, {a})
      BY DEF Taken
    <3>2. Rest(k, u, {a, b})
      BY <1>6, <1>7, <1>8, <2>a, <3>1 DEF Rest
    <3> QED BY <3>2, OnlyThere
  <2>5. SameLife(k, u)
    <3>1. \A j \in Callers : u.at[j] = "calling" <=> k.at[j] = "calling"
      BY <1>2, <1>7, Who DEF Callers
    <3> QED BY <3>1, Alike
  <2>6. x \in Things
    BY <1>2, <1>3, <2>x, ThingsOf
  <2> QED BY <1>1, <2>1, <2>2, <2>3, <2>4, <2>5, <2>6, Moved
<1>10. ASSUME NEW j \in Instances PROVE StateOf(u, j)
  <2>1. StateOf(k, j)
    BY <1>1 DEF Agree
  <2>2. CASE j = m
    BY <1>2, <1>7, <2>2 DEF StateOf
  <2>3. CASE j # m
    BY <1>7, <2>1, <2>3 DEF StateOf
  <2> QED BY <2>2, <2>3
<1>11. ASSUME NEW j \in Servers PROVE Holds(u, j)
  <2>1. Holds(k, j) /\ u.at[j] = k.at[j]
    BY <1>1, <1>2, <1>7, Who DEF Agree
  <2> QED BY <1>8, <2>1 DEF Holds
<1>12. \A p \in Tasks : JoinsOf(u, p)
  BY <1>1, <1>8 DEF Agree, JoinsOf
<1>13. \A p \in Tasks \ Multi : SingleOf(u, p)
  BY <1>1, <1>7, <1>8 DEF Agree, SingleOf
<1>14. ASSUME NEW j \in Workers PROVE WorkerOf(u, j)
  <2>1. WorkerOf(k, j) /\ u.at[j] = k.at[j]
    BY <1>1, <1>2, <1>7, Who DEF Agree
  <2> QED BY <1>8, <2>1 DEF WorkerOf
<1>15. ASSUME NEW p \in Multi PROVE DispatcherOf(u, p)
  <2>1. DispatcherOf(k, p) /\ p \in Tasks /\ Main(p) \in Instances
    BY <1>1, Who DEF Agree
  <2>2. CASE p = t
    <3>1. u.hand[p] # Nothing /\ u.at[Main(p)] = "assigning"
      BY <1>3, <1>7, <1>m, <2>2
    <3> QED BY <1>8, <2>1, <3>1 DEF DispatcherOf
  <2>3. CASE p # t
    <3>1. u.hand[p] = k.hand[p] /\ u.at[Main(p)] = k.at[Main(p)]
      BY <1>7, <1>m, <2>1, <2>3, Who
    <3>2. \A j \in WorkersOf(p) : u.at[j] = k.at[j]
      BY <1>2, <1>7, Who DEF WorkersOf
    <3> QED BY <1>8, <2>1, <3>1, <3>2 DEF DispatcherOf
  <2> QED BY <2>2, <2>3
<1>16. Agree(u)
  BY <1>10, <1>11, <1>12, <1>13, <1>14, <1>15 DEF Agree
<1> QED BY <1>0, <1>5, <1>8, <1>9, <1>16 DEF Good

LEMMA AcceptStep ==
  ASSUME IInv, NEW t \in Tasks, NEW s, NEW a, NEW n, NEW r, Taken(s, t, a, n, r),
         k.at[Main(t)] = "idle", r.entry \notin k.joined[t]
  PROVE  Good(Accept(s, t, r)) /\ Accept(s, t, r).count = k.count
<1>1. CASE t \in Multi
  BY <1>1, AcceptedByDispatcher DEF Accept
<1>2. CASE t \notin Multi
  BY <1>2, AcceptedBySingle DEF Accept
<1> QED BY <1>1, <1>2

\* A set of numbers has a least one, and requests have a first of the highest priority.
LEMMA LeastOf ==
  ASSUME NEW S \in SUBSET Nat, S # {}
  PROVE  \E m \in S : \A n \in S : m <= n
<1>1. IsWellFoundedOn(OpToRel(<, Nat), Nat)
  BY NatLessThanWellFounded
<1>2. PICK m \in S : \A n \in S : ~(<<n, m>> \in OpToRel(<, Nat))
  BY <1>1, WFMin
<1>3. ASSUME NEW n \in S PROVE m <= n
  <2>1. ~(n < m)
    BY <1>2 DEF OpToRel
  <2> QED BY <2>1
<1> QED BY <1>3

Better(q, n) == {j \in DOMAIN q : q[j].pri > q[n].pri \/ (q[j].pri = q[n].pri /\ j < n)}

LEMMA HighestExists ==
  ASSUME NEW S, NEW q \in Seq(S), q # <<>>, \A j \in DOMAIN q : q[j].pri \in Nat
  PROVE  HighestFirst(q) \in DOMAIN q
<1>l. PICK l, D : l = Len(q) /\ D = DOMAIN q
  OBVIOUS
<1>1. l \in Nat /\ D = 1..l /\ D # {}
  BY <1>l, LenProperties, EmptySeq
<1>T. PICK T : T = {Better(q, n) : n \in D}
  OBVIOUS
<1>2. IsWellFoundedOn(StrictSubsetOrdering(D), FiniteSubsetsOf(D))
  BY FS_StrictSubsetOrderingWellFounded
<1>3. T \subseteq FiniteSubsetsOf(D) /\ T # {}
  <2>1. IsFiniteSet(D)
    BY <1>1, FS_Interval
  <2>2. \A n \in D : Better(q, n) \subseteq D
    BY <1>l DEF Better
  <2>3. \A n \in D : IsFiniteSet(Better(q, n))
    BY <2>1, <2>2, FS_Subset
  <2> QED BY <1>1, <1>T, <2>2, <2>3 DEF FiniteSubsetsOf
<1>4. PICK x \in T : \A y \in T : ~(<<y, x>> \in StrictSubsetOrdering(D))
  BY <1>2, <1>3, WFMin
<1>5. PICK n \in D : x = Better(q, n)
  BY <1>T
<1>6. ASSUME NEW m \in D, m \in Better(q, n) PROVE FALSE
  <2>1. /\ q[m].pri \in Nat /\ q[n].pri \in Nat /\ m \in Nat /\ n \in Nat
        /\ q[m].pri > q[n].pri \/ (q[m].pri = q[n].pri /\ m < n)
    BY <1>1, <1>6, <1>l DEF Better
  <2>2. m \notin Better(q, m)
    BY <2>1 DEF Better
  <2>3. ASSUME NEW j \in Better(q, m) PROVE j \in Better(q, n)
    <3>1. j \in D /\ j \in Nat /\ q[j].pri \in Nat /\ (q[j].pri > q[m].pri \/ (q[j].pri = q[m].pri /\ j < m))
      BY <1>1, <1>l DEF Better
    <3>2. q[j].pri > q[n].pri \/ (q[j].pri = q[n].pri /\ j < n)
      BY <2>1, <3>1
    <3> QED BY <1>l, <3>1, <3>2 DEF Better
  <2>4. Better(q, m) \in T /\ Better(q, n) \subseteq D
    BY <1>l, <1>T DEF Better
  <2>5. <<Better(q, m), x>> \in StrictSubsetOrdering(D)
    BY <1>5, <1>6, <2>2, <2>3, <2>4 DEF StrictSubsetOrdering
  <2> QED BY <1>4, <2>4, <2>5
<1>7. ASSUME NEW j \in DOMAIN q PROVE q[j].pri < q[n].pri \/ (q[j].pri = q[n].pri /\ n <= j)
  <2>1. j \in D /\ j \notin Better(q, n)
    BY <1>6, <1>l
  <2>2. q[j].pri \in Nat /\ q[n].pri \in Nat /\ j \in Nat /\ n \in Nat
    BY <1>1, <1>l
  <2>3. ~(q[j].pri > q[n].pri) /\ ~(q[j].pri = q[n].pri /\ j < n)
    BY <2>1 DEF Better
  <2> QED BY <2>2, <2>3
<1>8. n \in DOMAIN q /\ \A j \in DOMAIN q : q[j].pri < q[n].pri \/ (q[j].pri = q[n].pri /\ n <= j)
  BY <1>7, <1>l
<1> QED BY <1>8 DEF HighestFirst

LEMMA Idling ==
  ASSUME IInv, NEW t \in Tasks
  PROVE  /\ Typed(k) /\ Agree(k) /\ Placed(k) /\ k.port[t] \in Seq(To(t)) /\ k.pending[t] \in Seq(To(t))
         /\ DOMAIN k.port = Tasks /\ DOMAIN k.pending = Tasks
  BY DEF IInv, Good, Typed, Queues

LEMMA TakePendingStep ==
  ASSUME IInv, NEW t \in Tasks, TakePending(t)
  PROVE  Good(k') /\ k'.count = k.count
<1>q. PICK q : q = k.pending[t]
  OBVIOUS
<1>1. /\ Typed(k) /\ q \in Seq(To(t)) /\ DOMAIN k.pending = Tasks
  BY <1>q, Idling
<1>2. k.at[Main(t)] = "idle" /\ Available(t) # {}
  BY DEF TakePending
<1>3. PICK n : n = CHOOSE m \in Available(t) : \A j \in Available(t) : m <= j
  OBVIOUS
<1>4. n \in Available(t)
  <2>1. Available(t) \subseteq DOMAIN q
    BY <1>q DEF Available
  <2>2. DOMAIN q \subseteq Nat
    BY <1>1, LenProperties
  <2>3. Available(t) \in SUBSET Nat
    BY <2>1, <2>2
  <2> QED BY <1>2, <1>3, <2>3, LeastOf
<1>r. PICK r, w : r = q[n] /\ w = RemoveAt(q, n)
  OBVIOUS
<1>5. n \in DOMAIN q /\ r.entry \notin k.joined[t]
  BY <1>4, <1>q, <1>r DEF Available
<1>6. Drops(q, n, w) /\ w \in Seq(To(t)) /\ r \in To(t)
  BY <1>1, <1>5, <1>r, RemoveDrops
<1>s. PICK s : s = WithPending(k, t, w)
  OBVIOUS
<1>7. Typed(s) /\ Keeps(k, s, {"pending"}) /\ s.pending = [k.pending EXCEPT ![t] = w]
  BY <1>1, <1>6, <1>s, PendingSet
<1>8. k' = Accept(s, t, r)
  BY <1>3, <1>q, <1>r, <1>s DEF TakePending, WithPending
<1>a. PICK a : a = Site("pending", t, None)
  OBVIOUS
<1>9. Taken(s, t, a, n, r)
  <2>1. a \in Sites /\ Box(k, a) = q /\ Box(s, a) = w /\ Thing(a, r) = ThingOf(t, r)
    BY <1>1, <1>7, <1>a, <1>q, WhatIsWhere, Boxes, ThingsAt
  <2>2. Rest(k, s, {a})
    BY <1>1, <1>7, <1>a DEF Rest, Keeps
  <2>3. Keeps(k, s, {"port", "pending"})
    BY <1>7 DEF Keeps
  <2> QED BY <1>6, <1>7, <1>a, <1>r, <2>1, <2>2, <2>3 DEF Taken
<1> QED BY <1>2, <1>5, <1>8, <1>9, AcceptStep

LEMMA PutAsideStep ==
  ASSUME IInv, NEW t \in Tasks, NEW s, NEW a, NEW n, NEW r, Taken(s, t, a, n, r), a = Site("port", t, None), s.pending = k.pending
  PROVE  Good(PutAside(s, t, r)) /\ PutAside(s, t, r).count = k.count
<1>q. PICK q : q = Append(k.pending[t], r)
  OBVIOUS
<1>u. PICK u : u = WithPending(s, t, q)
  OBVIOUS
<1>0. u = PutAside(s, t, r)
  BY <1>q, <1>u DEF PutAside, WithPending
<1>1. Typed(k) /\ Agree(k) /\ Placed(k) /\ k.pending[t] \in Seq(To(t)) /\ DOMAIN k.pending = Tasks
  BY Idling
<1>2. r \in To(t) /\ Typed(s) /\ Keeps(k, s, {"port", "pending"}) /\ Thing(a, r) = ThingOf(t, r) /\ a \in Sites
  BY DEF Taken
<1>3. q \in Seq(To(t)) /\ Adds(k.pending[t], r, q)
  BY <1>1, <1>2, <1>q, AppendAdds
<1>4. Typed(u) /\ Keeps(s, u, {"pending"}) /\ u.pending = [s.pending EXCEPT ![t] = q]
  BY <1>2, <1>3, <1>u, PendingSet
<1>5. Keeps(k, u, {"port", "pending"}) /\ u.port = s.port /\ u.pending = [k.pending EXCEPT ![t] = q]
  BY <1>2, <1>4 DEF Keeps
<1>6. /\ u.at = k.at /\ u.held = k.held /\ u.job = k.job /\ u.count = k.count
  BY <1>5 DEF Keeps
<1>7. Agree(u)
  <2>1. AgreeBut(k, NoOne)
    BY <1>1, ButOne
  <2>2. Keeps(k, u, {"port", "pending", "free", "at", "job", "held"})
    BY <1>5 DEF Keeps
  <2>3. AgreeBut(u, NoOne)
    BY <1>6, <2>1, <2>2, Passing
  <2> QED BY <2>3, ButOne, Who
<1>8. Placed(u)
  <2>a. PICK b : b = Site("pending", t, None)
    OBVIOUS
  <2>x. PICK x : x = ThingOf(t, r)
    OBVIOUS
  <2>1. Drops(Box(k, a), n, Box(u, a)) /\ x = Thing(a, Box(k, a)[n]) /\ a \in Sites
    <3>1. Box(u, a) = Box(s, a)
      BY <1>5, Boxes
    <3> QED BY <1>2, <2>x, <3>1 DEF Taken
  <2>2. Adds(Box(k, b), r, Box(u, b)) /\ x = Thing(b, r) /\ b \in Sites
    <3>1. Box(k, b) = k.pending[t] /\ Box(u, b) = q /\ Thing(b, r) = x /\ b \in Sites
      BY <1>1, <1>5, <2>a, <2>x, WhatIsWhere, Boxes, ThingsAt
    <3> QED BY <1>3, <3>1
  <2>3. a # b
    BY <2>a DEF Site
  <2>4. Elsewhere(k, u, {a, b})
    <3>1. Rest(k, s, {a})
      BY DEF Taken
    <3>2. Rest(k, u, {a, b})
      BY <1>1, <1>5, <2>a, <3>1 DEF Rest, Keeps
    <3> QED BY <3>2, OnlyThere
  <2>5. SameLife(k, u)
    BY <1>6, Alike
  <2>6. x \in Things
    BY <1>2, <2>x, ThingsOf
  <2> QED BY <1>1, <2>1, <2>2, <2>3, <2>4, <2>5, <2>6, Moved
<1> QED BY <1>0, <1>4, <1>6, <1>7, <1>8 DEF Good

LEMMA ReceiveStep ==
  ASSUME IInv, NEW t \in Tasks, Receive(t)
  PROVE  Good(k') /\ k'.count = k.count
<1>q. PICK q, n : q = k.port[t] /\ n = Next1(q, t)
  OBVIOUS
<1>r. PICK r, w : r = q[n] /\ w = RemoveAt(q, n)
  OBVIOUS
<1>s. PICK s : s = WithPort(k, t, w)
  OBVIOUS
<1>1. /\ Typed(k) /\ q \in Seq(To(t)) /\ DOMAIN k.port = Tasks
  BY <1>q, Idling
<1>2. k.at[Main(t)] = "idle" /\ q # <<>> /\ k' = IF r.entry \in k.joined[t] THEN PutAside(s, t, r) ELSE Accept(s, t, r)
  BY <1>q, <1>r, <1>s DEF Receive, WithPort
<1>3. n \in DOMAIN q
  <2>1. 1 \in DOMAIN q
    BY <1>1, <1>2, TailDrops DEF Drops
  <2>2. ASSUME NEW j \in DOMAIN q PROVE q[j].pri \in Nat
    <3>1. q[j] \in To(t)
      BY <1>1, LenProperties, ElementOfSeq
    <3>2. q[j] \in Requests
      BY <3>1, ToRequests
    <3> QED BY <3>2 DEF Requests
  <2>3. HighestFirst(q) \in DOMAIN q
    BY <1>1, <1>2, <2>2, HighestExists
  <2> QED BY <1>q, <2>1, <2>3 DEF Next1
<1>4. Drops(q, n, w) /\ w \in Seq(To(t)) /\ r \in To(t)
  BY <1>1, <1>3, <1>r, RemoveDrops
<1>5. Typed(s) /\ Keeps(k, s, {"port"}) /\ s.port = [k.port EXCEPT ![t] = w]
  BY <1>1, <1>4, <1>s, PortSet
<1>a. PICK a : a = Site("port", t, None)
  OBVIOUS
<1>6. Taken(s, t, a, n, r)
  <2>1. a \in Sites /\ Box(k, a) = q /\ Box(s, a) = w /\ Thing(a, r) = ThingOf(t, r)
    BY <1>1, <1>5, <1>a, <1>q, WhatIsWhere, Boxes, ThingsAt
  <2>2. Rest(k, s, {a})
    BY <1>1, <1>5, <1>a DEF Rest, Keeps
  <2>3. Keeps(k, s, {"port", "pending"})
    BY <1>5 DEF Keeps
  <2> QED BY <1>4, <1>5, <1>a, <1>r, <2>1, <2>2, <2>3 DEF Taken
<1>7. CASE r.entry \in k.joined[t]
  <2>1. s.pending = k.pending
    BY <1>5 DEF Keeps
  <2> QED BY <1>2, <1>6, <1>7, <1>a, <2>1, PutAsideStep
<1>8. CASE r.entry \notin k.joined[t]
  BY <1>2, <1>6, <1>8, AcceptStep
<1> QED BY <1>7, <1>8

-----------------------------------------------------------------------------
\* The initial states are good: every message is free and nobody waits.

LEMMA InitTyped == Init => Typed(k)
<1> SUFFICES ASSUME Init PROVE Typed(k)
  OBVIOUS
<1>1. /\ k.port = [t \in Tasks |-> <<>>] /\ k.pending = [t \in Tasks |-> <<>>] /\ k.hand = [t \in Tasks |-> Nothing]
      /\ k.count = [t \in Tasks |-> 0] /\ k.idle = [t \in Tasks |-> <<>>]
      /\ k.joined = [t \in Tasks |-> {}] /\ k.done = [t \in Tasks |-> {}]
      /\ k.free = [t \in Tasks |-> [n \in 1..Pool |-> n]]
      /\ k.at = [i \in Instances |-> IF i \in Workers THEN "none" ELSE "idle"]
      /\ k.job = [i \in Instances |-> NoJob] /\ k.inbox = [i \in Instances |-> <<>>]
      /\ k.held = [i \in Servers |-> [e \in EntriesOf(i) |-> Nothing]]
  BY DEF Init
<1>2. Shape(k)
  BY DEF Init, Shape
<1>3. \A S : <<>> \in Seq(S)
  BY EmptySeq
<1>4. Nothing \in Maybe /\ Pool \in Nat
  BY ServersAssumption DEF Maybe
<1>5. Queues(k.port) /\ Queues(k.pending)
  BY <1>1, <1>3 DEF Queues
<1>6. Hands(k.hand)
  BY <1>1, <1>4 DEF Hands
<1>7. Inboxes(k.inbox)
  <2>1. \A i \in Workers : i \in Instances
    BY Who
  <2>2. \A i \in Instances : k.inbox[i] = <<>>
    BY <1>1
  <2>3. k.inbox \in [Instances -> Seq(Requests)]
    BY <1>1, <1>3
  <2>4. \A i \in Workers : k.inbox[i] \in Seq(To(i[1]))
    BY <1>3, <2>1, <2>2
  <2> QED BY <2>2, <2>3, <2>4 DEF Inboxes
<1>8. Helds(k.held)
  <2>1. \A i \in Servers : Fits(i, k.held[i])
    BY <1>1, <1>4 DEF Fits
  <2> QED BY <1>1, <2>1 DEF Helds
<1>9. k.count \in [Tasks -> Nat] /\ k.idle \in [Tasks -> Seq(Workers)]
  BY <1>1, <1>3
<1>10. k.free \in [Tasks -> Seq(1..Pool)]
  <2>1. [n \in 1..Pool |-> n] \in Seq(1..Pool)
    BY <1>4, SeqDef
  <2> QED BY <1>1, <2>1
<1>11. k.joined \in [Tasks -> SUBSET Entries] /\ k.done \in [Tasks -> SUBSET Entries]
  BY <1>1
<1>12. k.at \in [Instances -> States]
  BY <1>1 DEF States
<1>13. k.job \in [Instances -> Job]
  <2>1. NoJob \in Job
    BY DEF NoJob, Job, Phases
  <2> QED BY <1>1, <2>1
<1> QED BY <1>2, <1>5, <1>6, <1>7, <1>8, <1>9, <1>10, <1>11, <1>12, <1>13 DEF Typed

LEMMA InitAgree == Init => Agree(k)
<1> SUFFICES ASSUME Init PROVE Agree(k)
  OBVIOUS
<1>1. \A t \in Tasks : /\ k.hand[t] = Nothing /\ k.count[t] = 0 /\ k.idle[t] = <<>>
                       /\ k.joined[t] = {} /\ k.done[t] = {}
  BY DEF Init
<1>2. \A i \in Instances : k.at[i] = (IF i \in Workers THEN "none" ELSE "idle") /\ k.inbox[i] = <<>>
  BY DEF Init
<1>3. \A i \in Servers : \A e \in EntriesOf(i) : k.held[i][e] = Nothing
  BY DEF Init
<1>4. ASSUME NEW i \in Instances PROVE StateOf(k, i)
  <2>1. (i \in Customers => i \notin Workers) /\ (i \in Mains => i \notin Workers)
    BY Who
  <2> QED BY <1>2, <2>1 DEF StateOf
<1>5. ASSUME NEW i \in Servers PROVE Holds(k, i)
  <2>1. k.at[i] \notin Working
    BY <1>2, Who DEF Working
  <2> QED BY <1>3, <2>1 DEF Holds
<1>6. \A t \in Tasks : JoinsOf(k, t)
  BY <1>1 DEF JoinsOf
<1>7. ASSUME NEW i \in Workers PROVE WorkerOf(k, i)
  <2>1. k.at[i] = "none" /\ k.inbox[i] = <<>> /\ k.count[i[1]] = 0 /\ k.idle[i[1]] = <<>> /\ i[2] \in 1..Limit[i[1]]
        /\ Limit[i[1]] \in Nat
    BY <1>1, <1>2, Who, ServersAssumption
  <2>2. i[2] > k.count[i[1]]
    BY <2>1
  <2>3. Range(k.idle[i[1]]) = {} /\ Len(k.inbox[i]) = 0
    BY <2>1 DEF Range
  <2> QED BY <2>1, <2>2, <2>3 DEF WorkerOf
<1>8. ASSUME NEW t \in Multi PROVE DispatcherOf(k, t)
  <2>1. t \in Tasks /\ k.at[Main(t)] = "idle" /\ Limit[t] \in Nat
    BY <1>2, Who, ServersAssumption
  <2>2. k.count[t] <= Limit[t]
    BY <1>1, <2>1
  <2>3. IsInjective(k.idle[t]) /\ Range(k.idle[t]) = {}
    BY <1>1, <2>1 DEF IsInjective, Range
  <2> QED BY <1>1, <2>1, <2>2, <2>3 DEF DispatcherOf
<1>9. \A t \in Tasks \ Multi : SingleOf(k, t)
  BY <1>1 DEF SingleOf
<1> QED BY <1>4, <1>5, <1>6, <1>7, <1>8, <1>9 DEF Agree

LEMMA InitPlaced == Init => Placed(k)
<1> SUFFICES ASSUME Init PROVE Placed(k)
  OBVIOUS
<1>f. PICK f : f = [n \in 1..Pool |-> n]
  OBVIOUS
<1>1. /\ \A t \in Tasks : /\ Box(k, Site("port", t, None)) = <<>> /\ Box(k, Site("pending", t, None)) = <<>>
                          /\ Box(k, Site("hand", t, None)) = <<>> /\ Box(k, Site("free", t, None)) = f
      /\ \A i \in Workers : Box(k, Site("inbox", i, None)) = <<>>
      /\ \A i \in Servers : \A e \in EntriesOf(i) : Box(k, Site("held", i, e)) = <<>>
  <2>1. \A t \in Tasks : k.port[t] = <<>> /\ k.pending[t] = <<>> /\ k.hand[t] = Nothing /\ k.free[t] = f
    BY <1>f DEF Init
  <2>2. \A i \in Workers : k.inbox[i] = <<>>
    <3>1. \A i \in Workers : i \in Instances
      BY Who
    <3> QED BY <3>1 DEF Init
  <2>3. \A i \in Servers : \A e \in EntriesOf(i) : k.held[i][e] = Nothing
    BY DEF Init
  <2> QED BY <2>1, <2>2, <2>3, Boxes DEF Optional
<1>2. \A a \in Sites : (\E t \in Tasks : a = Site("free", t, None)) \/ Box(k, a) = <<>>
  BY <1>1 DEF Sites
<1>3. \A a \in Sites : \A x : Here(k, a, x) => \E t \in Tasks : a = Site("free", t, None) /\ \E n \in 1..Pool : x = MessageOf(t, n)
  <2>1. SUFFICES ASSUME NEW a \in Sites, NEW x, Here(k, a, x)
                 PROVE  \E t \in Tasks : a = Site("free", t, None) /\ \E n \in 1..Pool : x = MessageOf(t, n)
    OBVIOUS
  <2>2. PICK n \in DOMAIN Box(k, a) : Thing(a, Box(k, a)[n]) = x
    BY <2>1 DEF Here
  <2>3. PICK t \in Tasks : a = Site("free", t, None)
    BY <1>2, <2>2
  <2>4. n \in 1..Pool /\ Box(k, a)[n] = n
    BY <1>1, <1>f, <2>2, <2>3
  <2> QED BY <2>2, <2>3, <2>4, ThingsAt
<1>4. \A t \in Tasks, n \in 1..Pool : Here(k, Site("free", t, None), MessageOf(t, n))
  <2>1. SUFFICES ASSUME NEW t \in Tasks, NEW n \in 1..Pool PROVE Here(k, Site("free", t, None), MessageOf(t, n))
    OBVIOUS
  <2>2. n \in DOMAIN Box(k, Site("free", t, None)) /\ Box(k, Site("free", t, None))[n] = n
    BY <1>1, <1>f
  <2>3. Thing(Site("free", t, None), n) = MessageOf(t, n)
    BY ThingsAt
  <2> QED BY <2>2, <2>3 DEF Here
<1>5. \A a \in Sites : \A x : One(k, a, x)
  <2>1. SUFFICES ASSUME NEW a \in Sites, NEW x, NEW l \in DOMAIN Box(k, a), NEW n \in DOMAIN Box(k, a),
                        Thing(a, Box(k, a)[l]) = x, Thing(a, Box(k, a)[n]) = x
                 PROVE  l = n
    BY DEF One
  <2>2. PICK t \in Tasks : a = Site("free", t, None)
    BY <1>2, <2>1
  <2>3. Box(k, a)[l] = l /\ Box(k, a)[n] = n
    BY <1>1, <1>f, <2>2
  <2>4. MessageOf(t, l) = MessageOf(t, n)
    BY <2>1, <2>2, <2>3, ThingsAt
  <2> QED BY <2>4 DEF MessageOf
<1>6. \A t, u, m, n : MessageOf(t, m) = MessageOf(u, n) => t = u
  BY DEF MessageOf
<1>7. \A i \in Callers : k.at[i] # "calling"
  <2>1. \A i \in Instances : k.at[i] \in {"none", "idle"}
    BY DEF Init
  <2>2. \A i \in Callers : i \in Instances
    BY Who DEF Callers
  <2> QED BY <2>1, <2>2
<1>8. ASSUME NEW x \in Things PROVE (\E a \in Sites : Here(k, a, x)) <=> Exists(k, x)
  <2>1. CASE \E i \in Callers : x = Rendezvous(i)
    <3>1. x.kind = "caller" /\ ~Exists(k, x)
      BY <1>7, <2>1, Things2 DEF Exists
    <3>2. \A t \in Tasks, n \in 1..Pool : x # MessageOf(t, n)
      BY <3>1, Things2
    <3> QED BY <1>3, <3>1, <3>2
  <2>2. CASE \E t \in Tasks, n \in 1..Pool : x = MessageOf(t, n)
    <3>1. Exists(k, x)
      BY <2>2, Things2 DEF Exists
    <3> QED BY <1>4, <2>2, <3>1, WhatIsWhere
  <2> QED BY <2>1, <2>2 DEF Things
<1> QED BY <1>3, <1>5, <1>6, <1>8 DEF Placed

-----------------------------------------------------------------------------
\* Every step keeps the state good, and only Grow makes a worker.

LEMMA StepGood ==
  ASSUME IInv, Next
  PROVE  /\ IInv'
         /\ k'.count = k.count \/ \E t \in Tasks : CanGrow(t) /\ \A p \in Tasks : p # t => k'.count[p] = k.count[p]
<1>w. world' \in Worlds
  BY DEF IInv, Next
<1>1. ASSUME NEW i \in Customers, Ask(i) PROVE Good(k') /\ k'.count = k.count
  BY <1>1, AskStep
<1>2. ASSUME NEW t \in Tasks, Main1(t)
      PROVE  Good(k') /\ (k'.count = k.count \/ (CanGrow(t) /\ \A p \in Tasks : p # t => k'.count[p] = k.count[p]))
  <2>1. CASE TakePending(t)
    BY <2>1, TakePendingStep
  <2>2. CASE Receive(t)
    BY <2>2, ReceiveStep
  <2>3. CASE Assign(t)
    BY <2>3, AssignStep
  <2>4. CASE Grow(t)
    BY <2>4, GrowStep
  <2> QED BY <1>2, <2>1, <2>2, <2>3, <2>4 DEF Main1
<1>3. ASSUME NEW i \in Workers, Start(i) PROVE Good(k') /\ k'.count = k.count
  BY <1>3, StartStep
<1>4. ASSUME NEW i \in Servers, Cycle(i) PROVE Good(k') /\ k'.count = k.count
  <2>1. CASE TakeWork(i)
    BY <2>1, TakeWorkStep
  <2>2. CASE MakeCall(i)
    BY <2>2, MakeCallStep
  <2>3. CASE Reply(i)
    BY <2>3, ReplyStep
  <2>4. CASE AwaitJoin(i)
    BY <2>4, AwaitJoinStep
  <2>5. CASE CompleteJoin(i)
    BY <2>5, CompleteJoinStep
  <2>6. CASE EndCycle(i)
    BY <2>6, EndCycleStep
  <2> QED BY <1>4, <2>1, <2>2, <2>3, <2>4, <2>5, <2>6 DEF Cycle
<1>5. Good(k') /\ (k'.count = k.count \/ \E t \in Tasks : CanGrow(t) /\ \A p \in Tasks : p # t => k'.count[p] = k.count[p])
  BY <1>1, <1>2, <1>3, <1>4 DEF Next
<1>6. Good(k') => Good(k)'
  BY DEF Good, Typed, Agree, Placed, Exists, Here, One, Box, StateOf, Holds, JoinsOf, WorkerOf, DispatcherOf, SingleOf, Shape
<1> QED BY <1>w, <1>5, <1>6 DEF IInv

\* The inductive invariant: the state of the simulation is always good.
THEOREM AlwaysGood == Spec => []IInv
<1>1. Init => IInv
  BY InitTyped, InitAgree, InitPlaced DEF Init, IInv, Good
<1>2. IInv /\ [Next]_vars => IInv'
  <2> SUFFICES ASSUME IInv, [Next]_vars PROVE IInv'
    OBVIOUS
  <2>1. CASE Next
    BY <2>1, StepGood
  <2>2. CASE UNCHANGED vars
    <3>1. world' = world /\ k' = k
      BY <2>2 DEF vars
    <3> QED BY <3>1 DEF IInv, Good
  <2> QED BY <2>1, <2>2
<1> QED BY <1>1, <1>2, PTL DEF Spec

-----------------------------------------------------------------------------
\* What good states promise.

LEMMA GoodTypes == IInv => TypeOK
<1> SUFFICES ASSUME IInv PROVE TypeOK
  OBVIOUS
<1>1. world \in Worlds /\ Typed(k) /\ Agree(k)
  BY DEF IInv, Good
<1>2. /\ k.port \in [Tasks -> Seq(Requests)] /\ k.pending \in [Tasks -> Seq(Requests)] /\ k.hand \in [Tasks -> Maybe]
      /\ k.inbox \in [Instances -> Seq(Requests)]
  BY <1>1 DEF Typed, Queues, Hands, Inboxes
<1>3. /\ k.joined \in [Tasks -> SUBSET Entries] /\ k.done \in [Tasks -> SUBSET Entries]
      /\ k.at \in [Instances -> States]
      /\ k.job \in [Instances -> [entry : Entries \cup {None}, phase : Phases, step : Nat]]
  BY <1>1 DEF Typed, Job
<1>4. \A i \in Servers : k.held[i] \in [EntriesOf(i) -> Maybe]
  BY <1>1 DEF Typed, Helds, Fits
<1>5. ASSUME NEW t \in Tasks PROVE k.count[t] \in 0..Limit[t] /\ k.idle[t] \in Seq(Workers) /\ k.free[t] \in Seq(1..Pool)
  <2>1. k.count[t] \in Nat /\ Limit[t] \in Nat
    BY <1>1, ServersAssumption DEF Typed
  <2>2. k.count[t] <= Limit[t]
    BY <1>1, <2>1 DEF Agree, DispatcherOf, SingleOf
  <2> QED BY <1>1, <2>1, <2>2 DEF Typed
<1> QED BY <1>1, <1>2, <1>3, <1>4, <1>5 DEF TypeOK

LEMMA GoodDispatch == IInv => DispatchAgrees
<1> SUFFICES ASSUME IInv, NEW t \in Multi
             PROVE  /\ IsInjective(k.idle[t])
                    /\ \A i \in Range(k.idle[t]) : i[1] = t /\ k.at[i] = "idle" /\ k.inbox[i] = <<>>
                    /\ \A i \in Workers : i[1] = t =>
                         /\ Len(k.inbox[i]) <= 1
                         /\ (k.at[i] = "none") = (i[2] > k.count[t])
                         /\ (k.at[i] = "idle" /\ k.inbox[i] = <<>>) => i \in Range(k.idle[t])
                    /\ (k.hand[t] = Nothing) = (k.at[Main(t)] = "idle")
                    /\ k.at[Main(t)] = "growing" => k.idle[t] # <<>> \/ \E i \in Workers : i[1] = t /\ k.at[i] = "starting"
  BY DEF DispatchAgrees
<1>1. Typed(k) /\ DispatcherOf(k, t) /\ (\A i \in Workers : WorkerOf(k, i)) /\ t \in Tasks
  BY Who DEF IInv, Good, Agree
<1>2. \A i \in Range(k.idle[t]) : i \in Workers /\ i[1] = t
  <2>1. k.idle[t] \in Seq(Workers)
    BY <1>1 DEF Typed
  <2>2. Range(k.idle[t]) \subseteq Workers
    BY <2>1, ElementOfSeq, LenProperties DEF Range
  <2> QED BY <1>1, <2>2 DEF DispatcherOf
<1>3. \A i \in Range(k.idle[t]) : i[1] = t /\ k.at[i] = "idle" /\ k.inbox[i] = <<>>
  BY <1>1, <1>2 DEF WorkerOf
<1>4. ASSUME NEW i \in Workers, i[1] = t
      PROVE  /\ Len(k.inbox[i]) <= 1
             /\ (k.at[i] = "none") = (i[2] > k.count[t])
             /\ (k.at[i] = "idle" /\ k.inbox[i] = <<>>) => i \in Range(k.idle[t])
  <2>1. WorkerOf(k, i)
    BY <1>1
  <2>2. k.at[i] = "none" <=> i[2] > k.count[t]
    BY <1>4, <2>1 DEF WorkerOf
  <2>3. (k.at[i] = "none") = (i[2] > k.count[t])
    BY <2>2
  <2> QED BY <1>4, <2>1, <2>3 DEF WorkerOf
<1>5. (k.hand[t] = Nothing) = (k.at[Main(t)] = "idle")
  <2>1. k.hand[t] = Nothing <=> k.at[Main(t)] = "idle"
    BY <1>1 DEF DispatcherOf
  <2> QED BY <2>1
<1>6. k.at[Main(t)] = "growing" => k.idle[t] # <<>> \/ \E i \in Workers : i[1] = t /\ k.at[i] = "starting"
  BY <1>1 DEF DispatcherOf, WorkersOf
<1> QED BY <1>1, <1>3, <1>4, <1>5, <1>6 DEF DispatcherOf

LEMMA GoodJoins == IInv => JoinsAgree
<1> SUFFICES ASSUME IInv, NEW t \in Tasks \ Multi
             PROVE  /\ k.joined[t] = k.done[t]
                    /\ \A e \in k.joined[t] : ~(Joins[e] \subseteq k.joined[t])
                    /\ k.at[Main(t)] = "idle" => \A e \in EntriesOf(Main(t)) : k.held[Main(t)][e] # Nothing => e \in k.joined[t]
                    /\ k.at[Main(t)] # "idle" => k.job[Main(t)].entry \notin k.joined[t]
  BY DEF JoinsAgree
<1>i. PICK i : i = Main(t)
  OBVIOUS
<1>1. i \in Servers \ Workers /\ i \in Instances /\ i[1] = t
  BY <1>i, Who
<1>2. JoinsOf(k, t) /\ Holds(k, i) /\ StateOf(k, i)
  BY <1>1 DEF IInv, Good, Agree
<1>3. k.at[i] = "idle" => \A e \in EntriesOf(i) : k.held[i][e] # Nothing => e \in k.joined[t]
  BY <1>1, <1>2 DEF Holds, Working
<1>4. k.at[i] # "idle" => k.job[i].entry \notin k.joined[t]
  <2>1. k.at[i] # "idle" => k.at[i] \in Working
    BY <1>1, <1>2 DEF StateOf
  <2> QED BY <1>1, <1>2, <2>1 DEF Holds
<1> QED BY <1>i, <1>2, <1>3, <1>4 DEF JoinsOf

\* The simulation keeps within its types.
THEOREM TypeCorrect == Spec => []TypeOK
  BY AlwaysGood, GoodTypes, PTL

\* Dispatchers and workers agree, and so do the joins of a task (DispatchAgrees, JoinsAgree:
\* instance.cc:455-505, 645-675, 1142-1189, 1574-1590).
THEOREM EveryoneAgrees == Spec => [](DispatchAgrees /\ JoinsAgree)
  BY AlwaysGood, GoodDispatch, GoodJoins, PTL

\* A multi-server makes a worker only when no worker is free (GrowsWhenBusy:
\* instance.cc:484-499).
THEOREM MadeWhenBusy == Spec => GrowsWhenBusy
<1>1. ASSUME IInv, [Next]_vars, NEW t \in Multi, k.count'[t] > k.count[t],
             NEW i \in Workers, i[1] = t, i[2] <= k.count[t]
      PROVE  k.at[i] \in {"starting", "serving", "calling"} \/ k.inbox[i] # <<>>
  <2>1. /\ Typed(k) /\ StateOf(k, i) /\ WorkerOf(k, i) /\ t \in Tasks
        /\ k.count[t] \in Nat /\ i[2] \in Nat
    <3>1. i \in Instances /\ i[2] \in 1..Limit[i[1]] /\ Limit[i[1]] \in Nat /\ t \in Tasks
      BY Who, ServersAssumption
    <3>2. Typed(k) /\ StateOf(k, i) /\ WorkerOf(k, i)
      BY <1>1, <3>1 DEF IInv, Good, Agree
    <3>3. k.count[t] \in Nat
      BY <3>1, <3>2 DEF Typed
    <3> QED BY <3>1, <3>2, <3>3
  <2>2. k.count' # k.count
    <3>1. k.count' = k.count => ~(k.count'[t] > k.count[t])
      BY <2>1
    <3> QED BY <1>1, <3>1
  <2>3. Next
    BY <1>1, <2>2 DEF vars
  <2>4. PICK u \in Tasks : CanGrow(u) /\ \A p \in Tasks : p # u => k'.count[p] = k.count[p]
    BY <1>1, <2>2, <2>3, StepGood
  <2>5. u = t
    <3>1. u # t => k'.count[t] = k.count[t]
      BY <2>1, <2>4
    <3> QED BY <1>1, <2>1, <3>1
  <2>6. Range(k.idle[t]) = {}
    BY <2>4, <2>5 DEF CanGrow, Range
  <2>7. ~(k.at[i] = "idle" /\ k.inbox[i] = <<>>)
    BY <1>1, <2>1, <2>6 DEF WorkerOf
  <2>8. k.at[i] # "none"
    <3>1. ~(i[2] > k.count[t])
      BY <1>1, <2>1
    <3> QED BY <1>1, <2>1, <3>1 DEF WorkerOf
  <2> QED BY <2>1, <2>7, <2>8 DEF StateOf, Working
<1>2. IInv /\ [Next]_vars =>
        [\A t \in Multi : k.count'[t] > k.count[t] =>
           \A i \in Workers : i[1] = t /\ i[2] <= k.count[t] =>
             k.at[i] \in {"starting", "serving", "calling"} \/ k.inbox[i] # <<>>]_vars
  BY <1>1
<1> QED BY <1>2, AlwaysGood, PTL DEF Spec, GrowsWhenBusy

-----------------------------------------------------------------------------
\* Nothing is lost: places and sites are the same, and there are as many
\* rendezvous as callers who wait.

TaskAt(a) == IF a.kind \in {"inbox", "held"} THEN a.of[1] ELSE a.of
\* The n-th place at site a, as in Places.
PlaceAt(a, n) ==
  <<<<a.kind, a.of, IF a.kind = "held" THEN a.entry ELSE n>>,
    IF a.kind = "free" THEN Request(NoOne, None, 0, Box(k, a)[n]) ELSE Box(k, a)[n]>>

LEMMA PlacesAt ==
  ASSUME NEW of, NEW e, NEW n
  PROVE  /\ PlaceAt(Site("port", of, e), n) = <<<<"port", of, n>>, k.port[of][n]>>
         /\ PlaceAt(Site("pending", of, e), n) = <<<<"pending", of, n>>, k.pending[of][n]>>
         /\ PlaceAt(Site("free", of, e), n) = <<<<"free", of, n>>, Request(NoOne, None, 0, k.free[of][n])>>
         /\ PlaceAt(Site("hand", of, e), n) = <<<<"hand", of, n>>, Optional(k.hand[of])[n]>>
         /\ PlaceAt(Site("inbox", of, e), n) = <<<<"inbox", of, n>>, k.inbox[of][n]>>
         /\ PlaceAt(Site("held", of, e), n) = <<<<"held", of, e>>, Optional(k.held[of][e])[n]>>
         /\ TaskAt(Site("port", of, e)) = of /\ TaskAt(Site("pending", of, e)) = of
         /\ TaskAt(Site("free", of, e)) = of /\ TaskAt(Site("hand", of, e)) = of
         /\ TaskAt(Site("inbox", of, e)) = of[1] /\ TaskAt(Site("held", of, e)) = of[1]
  BY DEF PlaceAt, Box, Site, TaskAt

LEMMA Options == \A r : /\ r # Nothing => Optional(r)[1] = r /\ 1 \in DOMAIN Optional(r)
                        /\ \A n \in DOMAIN Optional(r) : n = 1 /\ r # Nothing /\ Optional(r)[n] = r
  BY DEF Optional

\* Every place of a task is at a site.
LEMMA AtSite ==
  ASSUME NEW t \in Tasks, NEW p \in Places(t)
  PROVE  \E a \in Sites : \E n \in DOMAIN Box(k, a) : TaskAt(a) = t /\ p = PlaceAt(a, n)
<1>1. CASE p \in {<<<<"port", t, n>>, k.port[t][n]>> : n \in DOMAIN k.port[t]}
  <2>1. PICK n \in DOMAIN k.port[t] : p = <<<<"port", t, n>>, k.port[t][n]>>
    BY <1>1
  <2>a. PICK a : a = Site("port", t, None)
    OBVIOUS
  <2>2. a \in Sites /\ n \in DOMAIN Box(k, a) /\ TaskAt(a) = t /\ p = PlaceAt(a, n)
    BY <2>1, <2>a, WhatIsWhere, Boxes, PlacesAt
  <2> QED BY <2>2
<1>2. CASE p \in {<<<<"pending", t, n>>, k.pending[t][n]>> : n \in DOMAIN k.pending[t]}
  <2>1. PICK n \in DOMAIN k.pending[t] : p = <<<<"pending", t, n>>, k.pending[t][n]>>
    BY <1>2
  <2>a. PICK a : a = Site("pending", t, None)
    OBVIOUS
  <2>2. a \in Sites /\ n \in DOMAIN Box(k, a) /\ TaskAt(a) = t /\ p = PlaceAt(a, n)
    BY <2>1, <2>a, WhatIsWhere, Boxes, PlacesAt
  <2> QED BY <2>2
<1>3. CASE p \in {<<<<"free", t, n>>, Request(NoOne, None, 0, k.free[t][n])>> : n \in DOMAIN k.free[t]}
  <2>1. PICK n \in DOMAIN k.free[t] : p = <<<<"free", t, n>>, Request(NoOne, None, 0, k.free[t][n])>>
    BY <1>3
  <2>a. PICK a : a = Site("free", t, None)
    OBVIOUS
  <2>2. a \in Sites /\ n \in DOMAIN Box(k, a) /\ TaskAt(a) = t /\ p = PlaceAt(a, n)
    BY <2>1, <2>a, WhatIsWhere, Boxes, PlacesAt
  <2> QED BY <2>2
<1>4. CASE p \in {q \in {<<<<"hand", t, 1>>, k.hand[t]>>} : q[2] # Nothing}
  <2>1. p = <<<<"hand", t, 1>>, k.hand[t]>> /\ k.hand[t] # Nothing
    BY <1>4
  <2>a. PICK a : a = Site("hand", t, None)
    OBVIOUS
  <2>2. a \in Sites /\ 1 \in DOMAIN Box(k, a) /\ TaskAt(a) = t /\ p = PlaceAt(a, 1)
    BY <2>1, <2>a, WhatIsWhere, Boxes, PlacesAt, Options
  <2> QED BY <2>2
<1>5. CASE p \in UNION {{<<<<"inbox", i, n>>, k.inbox[i][n]>> : n \in DOMAIN k.inbox[i]} : i \in {j \in Workers : j[1] = t}}
  <2>1. PICK i \in Workers : i[1] = t /\ \E n \in DOMAIN k.inbox[i] : p = <<<<"inbox", i, n>>, k.inbox[i][n]>>
    BY <1>5
  <2>n. PICK n \in DOMAIN k.inbox[i] : p = <<<<"inbox", i, n>>, k.inbox[i][n]>>
    BY <2>1
  <2>a. PICK a : a = Site("inbox", i, None)
    OBVIOUS
  <2>2. a \in Sites /\ TaskAt(a) = t
    BY <2>1, <2>a, WhatIsWhere, PlacesAt
  <2>3. n \in DOMAIN Box(k, a) /\ p = PlaceAt(a, n)
    BY <2>n, <2>a, Boxes, PlacesAt
  <2> QED BY <2>2, <2>3
<1>6. CASE p \in UNION {{q \in {<<<<"held", i, e>>, k.held[i][e]>> : e \in EntriesOf(i)} : q[2] # Nothing} : i \in {j \in Servers : j[1] = t}}
  <2>1. PICK i \in Servers : i[1] = t /\ \E e \in EntriesOf(i) : p = <<<<"held", i, e>>, k.held[i][e]>> /\ p[2] # Nothing
    BY <1>6
  <2>n. PICK e \in EntriesOf(i) : p = <<<<"held", i, e>>, k.held[i][e]>> /\ k.held[i][e] # Nothing
    BY <2>1
  <2>a. PICK a : a = Site("held", i, e)
    OBVIOUS
  <2>2. a \in Sites /\ TaskAt(a) = t
    BY <2>1, <2>a, WhatIsWhere, PlacesAt
  <2>3. 1 \in DOMAIN Box(k, a) /\ p = PlaceAt(a, 1)
    BY <2>n, <2>a, Boxes, PlacesAt, Options
  <2> QED BY <2>2, <2>3
<1> QED BY <1>1, <1>2, <1>3, <1>4, <1>5, <1>6 DEF Places

\* Whatever is at a site is at a place of its task, and is the same thing.
SamePlace(a, n) ==
  LET p == PlaceAt(a, n)
      t == TaskAt(a)
  IN /\ t \in Tasks /\ p \in Places(t) /\ ThingOf(t, p[2]) = Thing(a, Box(k, a)[n])
     /\ p[2].from \in Callers \cup {NoOne} /\ p[2].slot \in 0..Pool /\ (p[2].from = NoOne <=> p[2].slot > 0)

LEMMA SiteIsPlace ==
  ASSUME Typed(k), NEW a \in Sites, NEW n \in DOMAIN Box(k, a)
  PROVE  SamePlace(a, n)
<1>p. PICK p, t : p = PlaceAt(a, n) /\ t = TaskAt(a)
  OBVIOUS
<1>r. ASSUME t \in Tasks, p \in Places(t), NEW r \in To(t), p[2] = r, Thing(a, Box(k, a)[n]) = ThingOf(t, r)
      PROVE  SamePlace(a, n)
  <2>1. r.from \in Callers \cup {NoOne} /\ r.slot \in 0..Pool /\ (r.from = NoOne <=> r.slot > 0)
    BY RequestsTo
  <2> QED BY <1>p, <1>r, <2>1 DEF SamePlace
<1>1. ASSUME NEW u \in Tasks, a = Site("port", u, None) PROVE SamePlace(a, n)
  <2>1. k.port[u] \in Seq(To(u))
    BY DEF Typed, Queues
  <2>2. n \in DOMAIN k.port[u] /\ Box(k, a)[n] = k.port[u][n]
    BY <1>1, Boxes
  <2>3. k.port[u][n] \in To(u)
    BY <2>1, <2>2, ElementOfSeq, LenProperties
  <2>4. t = u /\ p = <<<<"port", u, n>>, k.port[u][n]>>
    BY <1>1, <1>p, PlacesAt
  <2>5. p \in Places(t) /\ p[2] = k.port[u][n]
    BY <2>2, <2>4 DEF Places
  <2>6. Thing(a, Box(k, a)[n]) = ThingOf(t, k.port[u][n])
    BY <1>1, <2>2, <2>4, ThingsAt
  <2> QED BY <1>r, <2>3, <2>4, <2>5, <2>6
<1>2. ASSUME NEW u \in Tasks, a = Site("pending", u, None) PROVE SamePlace(a, n)
  <2>1. k.pending[u] \in Seq(To(u))
    BY DEF Typed, Queues
  <2>2. n \in DOMAIN k.pending[u] /\ Box(k, a)[n] = k.pending[u][n]
    BY <1>2, Boxes
  <2>3. k.pending[u][n] \in To(u)
    BY <2>1, <2>2, ElementOfSeq, LenProperties
  <2>4. t = u /\ p = <<<<"pending", u, n>>, k.pending[u][n]>>
    BY <1>2, <1>p, PlacesAt
  <2>5. p \in Places(t) /\ p[2] = k.pending[u][n]
    BY <2>2, <2>4 DEF Places
  <2>6. Thing(a, Box(k, a)[n]) = ThingOf(t, k.pending[u][n])
    BY <1>2, <2>2, <2>4, ThingsAt
  <2> QED BY <1>r, <2>3, <2>4, <2>5, <2>6
<1>3. ASSUME NEW u \in Tasks, a = Site("free", u, None) PROVE SamePlace(a, n)
  <2>1. k.free[u] \in Seq(1..Pool) /\ Pool \in Nat
    BY ServersAssumption DEF Typed
  <2>2. n \in DOMAIN k.free[u] /\ Box(k, a)[n] = k.free[u][n]
    BY <1>3, Boxes
  <2>m. PICK m : m = k.free[u][n]
    OBVIOUS
  <2>3. m \in 1..Pool
    BY <2>1, <2>2, <2>m, ElementOfSeq, LenProperties
  <2>r. PICK r : r = Request(NoOne, None, 0, m)
    OBVIOUS
  <2>4. t = u /\ p = <<<<"free", u, n>>, r>>
    BY <1>3, <1>p, <2>m, <2>r, PlacesAt
  <2>5. p \in Places(t) /\ p[2] = r
    BY <2>2, <2>4, <2>m, <2>r DEF Places
  <2>6. r.from = NoOne /\ r.slot = m
    BY <2>r DEF Request
  <2>7. Thing(a, Box(k, a)[n]) = MessageOf(u, m) /\ ThingOf(t, r) = MessageOf(u, m)
    BY <1>3, <2>2, <2>4, <2>6, <2>m, ThingsAt DEF ThingOf
  <2>8. r.slot \in 0..Pool /\ r.slot > 0
    BY <2>1, <2>3, <2>6
  <2> QED BY <1>p, <2>4, <2>5, <2>6, <2>7, <2>8 DEF SamePlace
<1>4. ASSUME NEW u \in Tasks, a = Site("hand", u, None) PROVE SamePlace(a, n)
  <2>1. k.hand[u] \in To(u) \cup {Nothing}
    BY DEF Typed, Hands
  <2>2. n = 1 /\ k.hand[u] # Nothing /\ Box(k, a)[n] = k.hand[u]
    BY <1>4, Boxes, Options
  <2>4. t = u /\ p = <<<<"hand", u, 1>>, k.hand[u]>>
    BY <1>4, <1>p, <2>2, PlacesAt, Options
  <2>5. p \in Places(t) /\ p[2] = k.hand[u]
    BY <2>2, <2>4 DEF Places
  <2>6. Thing(a, Box(k, a)[n]) = ThingOf(t, k.hand[u])
    BY <1>4, <2>2, <2>4, ThingsAt
  <2> QED BY <1>r, <2>1, <2>2, <2>4, <2>5, <2>6
<1>5. ASSUME NEW i \in Workers, a = Site("inbox", i, None) PROVE SamePlace(a, n)
  <2>1. k.inbox[i] \in Seq(To(i[1])) /\ i[1] \in Tasks
    BY Who DEF Typed, Inboxes
  <2>2. n \in DOMAIN k.inbox[i] /\ Box(k, a)[n] = k.inbox[i][n]
    BY <1>5, Boxes
  <2>3. k.inbox[i][n] \in To(i[1])
    BY <2>1, <2>2, ElementOfSeq, LenProperties
  <2>4. t = i[1] /\ p = <<<<"inbox", i, n>>, k.inbox[i][n]>>
    BY <1>5, <1>p, PlacesAt
  <2>5. p \in Places(t) /\ p[2] = k.inbox[i][n]
    <3>1. p \in UNION {{<<<<"inbox", j, m>>, k.inbox[j][m]>> : m \in DOMAIN k.inbox[j]} : j \in {l \in Workers : l[1] = t}}
      BY <2>2, <2>4
    <3> QED BY <2>4, <3>1 DEF Places
  <2>6. Thing(a, Box(k, a)[n]) = ThingOf(t, k.inbox[i][n])
    BY <1>5, <2>2, <2>4, ThingsAt
  <2> QED BY <1>r, <2>1, <2>3, <2>4, <2>5, <2>6
<1>6. ASSUME NEW i \in Servers, NEW e \in EntriesOf(i), a = Site("held", i, e) PROVE SamePlace(a, n)
  <2>2. n = 1 /\ k.held[i][e] # Nothing /\ Box(k, a)[n] = k.held[i][e]
    BY <1>6, Boxes, Options
  <2>1. k.held[i][e] \in To(i[1]) /\ i[1] \in Tasks
    BY <2>2, Who DEF Typed, Helds, Fits
  <2>4. t = i[1] /\ p = <<<<"held", i, e>>, k.held[i][e]>>
    BY <1>6, <1>p, <2>2, PlacesAt, Options
  <2>5. p \in Places(t) /\ p[2] = k.held[i][e]
    <3>1. p[2] = k.held[i][e] /\ p[2] # Nothing
      BY <2>2, <2>4
    <3>2. p \in {q \in {<<<<"held", i, f>>, k.held[i][f]>> : f \in EntriesOf(i)} : q[2] # Nothing}
      BY <2>4, <3>1
    <3>3. i \in {j \in Servers : j[1] = t}
      BY <2>4
    <3>4. p \in UNION {{q \in {<<<<"held", j, f>>, k.held[j][f]>> : f \in EntriesOf(j)} : q[2] # Nothing} : j \in {l \in Servers : l[1] = t}}
      BY <3>2, <3>3
    <3> QED BY <3>1, <3>4 DEF Places
  <2>6. Thing(a, Box(k, a)[n]) = ThingOf(t, k.held[i][e])
    BY <1>6, <2>2, <2>4, ThingsAt
  <2> QED BY <1>r, <2>1, <2>4, <2>5, <2>6
<1>7. \/ \E u \in Tasks : a \in {Site("port", u, None), Site("pending", u, None), Site("free", u, None), Site("hand", u, None)}
      \/ \E i \in Workers : a = Site("inbox", i, None)
      \/ \E i \in Servers : \E e \in EntriesOf(i) : a = Site("held", i, e)
  BY DEF Sites
<1> QED BY <1>1, <1>2, <1>3, <1>4, <1>5, <1>6, <1>7

\* What is at a place exists, and everything that exists is at one place only.
LEMMA PlaceThings ==
  ASSUME IInv
  PROVE  /\ \A t \in Tasks : \A p \in Places(t) :
              /\ p[2].from \in Callers \cup {NoOne} /\ p[2].slot \in 0..Pool /\ (p[2].from = NoOne <=> p[2].slot > 0)
              /\ ThingOf(t, p[2]) \in Things /\ Exists(k, ThingOf(t, p[2]))
         /\ \A t, u \in Tasks : \A p \in Places(t), q \in Places(u) : ThingOf(t, p[2]) = ThingOf(u, q[2]) => t = u /\ p = q
         /\ \A x \in Things : Exists(k, x) => \E t \in Tasks : \E p \in Places(t) : ThingOf(t, p[2]) = x
<1>1. Typed(k) /\ Placed(k)
  BY DEF IInv, Good
<1>2. ASSUME NEW t \in Tasks, NEW p \in Places(t)
      PROVE  \E a \in Sites : \E n \in DOMAIN Box(k, a) :
               /\ p = PlaceAt(a, n) /\ t = TaskAt(a) /\ ThingOf(t, p[2]) = Thing(a, Box(k, a)[n])
               /\ p[2].from \in Callers \cup {NoOne} /\ p[2].slot \in 0..Pool /\ (p[2].from = NoOne <=> p[2].slot > 0)
  <2>1. PICK a \in Sites : \E n \in DOMAIN Box(k, a) : TaskAt(a) = t /\ p = PlaceAt(a, n)
    BY AtSite
  <2>2. PICK n \in DOMAIN Box(k, a) : TaskAt(a) = t /\ p = PlaceAt(a, n)
    BY <2>1
  <2>3. SamePlace(a, n)
    BY <1>1, SiteIsPlace
  <2> QED BY <2>2, <2>3 DEF SamePlace
<1>3. ASSUME NEW t \in Tasks, NEW p \in Places(t)
      PROVE  /\ p[2].from \in Callers \cup {NoOne} /\ p[2].slot \in 0..Pool /\ (p[2].from = NoOne <=> p[2].slot > 0)
             /\ ThingOf(t, p[2]) \in Things /\ Exists(k, ThingOf(t, p[2]))
  <2>x. PICK x : x = ThingOf(t, p[2])
    OBVIOUS
  <2>1. PICK a \in Sites : \E n \in DOMAIN Box(k, a) :
               /\ x = Thing(a, Box(k, a)[n])
               /\ p[2].from \in Callers \cup {NoOne} /\ p[2].slot \in 0..Pool /\ (p[2].from = NoOne <=> p[2].slot > 0)
    BY <1>2, <2>x
  <2>2. Here(k, a, x) /\ p[2].from \in Callers \cup {NoOne} /\ p[2].slot \in 0..Pool /\ (p[2].from = NoOne <=> p[2].slot > 0)
    BY <2>1 DEF Here
  <2>3. x \in Things
    <3>1. CASE p[2].from = NoOne
      <4>1. x = MessageOf(t, p[2].slot) /\ p[2].slot \in 1..Pool
        BY <2>2, <2>x, <3>1, ServersAssumption DEF ThingOf
      <4> QED BY <4>1, Things2
    <3>2. CASE p[2].from # NoOne
      <4>1. x = Rendezvous(p[2].from) /\ p[2].from \in Callers
        BY <2>2, <2>x, <3>2 DEF ThingOf
      <4> QED BY <4>1, Things2
    <3> QED BY <3>1, <3>2
  <2>4. Exists(k, x)
    BY <1>1, <2>2, <2>3 DEF Placed
  <2> QED BY <2>2, <2>3, <2>4, <2>x
<1>4. ASSUME NEW t \in Tasks, NEW u \in Tasks, NEW p \in Places(t), NEW q \in Places(u), ThingOf(t, p[2]) = ThingOf(u, q[2])
      PROVE  t = u /\ p = q
  <2>x. PICK x : x = ThingOf(t, p[2]) /\ x = ThingOf(u, q[2]) /\ x \in Things
    BY <1>3, <1>4
  <2>a. PICK a \in Sites : \E n \in DOMAIN Box(k, a) : p = PlaceAt(a, n) /\ t = TaskAt(a) /\ x = Thing(a, Box(k, a)[n])
    BY <1>2, <2>x
  <2>b. PICK b \in Sites : \E n \in DOMAIN Box(k, b) : q = PlaceAt(b, n) /\ u = TaskAt(b) /\ x = Thing(b, Box(k, b)[n])
    BY <1>2, <2>x
  <2>1. Here(k, a, x) /\ Here(k, b, x)
    BY <2>a, <2>b DEF Here
  <2>2. a = b /\ One(k, a, x)
    BY <1>1, <2>x, <2>1 DEF Placed
  <2>m. PICK m \in DOMAIN Box(k, a) : p = PlaceAt(a, m) /\ t = TaskAt(a) /\ x = Thing(a, Box(k, a)[m])
    BY <2>a
  <2>n. PICK n \in DOMAIN Box(k, a) : q = PlaceAt(a, n) /\ u = TaskAt(a) /\ x = Thing(a, Box(k, a)[n])
    BY <2>b, <2>2
  <2>3. m = n
    BY <2>2, <2>m, <2>n DEF One
  <2> QED BY <2>m, <2>n, <2>3
<1>5. ASSUME NEW x \in Things, Exists(k, x) PROVE \E t \in Tasks : \E p \in Places(t) : ThingOf(t, p[2]) = x
  <2>1. PICK a \in Sites : Here(k, a, x)
    BY <1>1, <1>5 DEF Placed
  <2>2. PICK n \in DOMAIN Box(k, a) : Thing(a, Box(k, a)[n]) = x
    BY <2>1 DEF Here
  <2>3. SamePlace(a, n)
    BY <1>1, SiteIsPlace
  <2> QED BY <2>2, <2>3 DEF SamePlace
<1> QED BY <1>3, <1>4, <1>5

LEMMA FiniteInstances == IsFiniteSet(Instances)
<1>1. IsFiniteSet(Clients) /\ IsFiniteSet(Tasks) /\ Multi \in SUBSET Tasks /\ Limit \in [Tasks -> Nat \ {0}]
  BY ServersAssumption
<1>2. IsFiniteSet(Customers)
  <2>f. PICK f : f = [c \in Clients |-> <<c, 0>>]
    OBVIOUS
  <2>1. f \in Surjection(Clients, Customers)
    BY <2>f DEF Customers, Surjection
  <2> QED BY <1>1, <2>1, FS_Surjection
<1>3. IsFiniteSet(Mains)
  <2>f. PICK f : f = [t \in Tasks |-> Main(t)]
    OBVIOUS
  <2>1. f \in Surjection(Tasks, Mains)
    BY <2>f DEF Mains, Surjection
  <2> QED BY <1>1, <2>1, FS_Surjection
<1>4. IsFiniteSet(Workers)
  <2>s. PICK S : S = {{<<t, n>> : n \in 1..Limit[t]} : t \in Multi}
    OBVIOUS
  <2>f. PICK f : f = [t \in Multi |-> {<<t, n>> : n \in 1..Limit[t]}]
    OBVIOUS
  <2>1. f \in Surjection(Multi, S)
    BY <2>s, <2>f DEF Surjection
  <2>2. IsFiniteSet(Multi)
    BY <1>1, FS_Subset
  <2>3. IsFiniteSet(S)
    BY <2>1, <2>2, FS_Surjection
  <2>4. ASSUME NEW T \in S PROVE IsFiniteSet(T)
    <3>1. PICK t \in Multi : T = {<<t, n>> : n \in 1..Limit[t]}
      BY <2>s
    <3>n. PICK b : b = Limit[t]
      OBVIOUS
    <3>g. PICK g : g = [n \in 1..b |-> <<t, n>>]
      OBVIOUS
    <3>2. g \in Surjection(1..b, T)
      BY <3>1, <3>n, <3>g DEF Surjection
    <3>3. b \in Int
      BY <1>1, <3>n
    <3>4. IsFiniteSet(1..b)
      BY <3>3, FS_Interval
    <3> QED BY <3>2, <3>4, FS_Surjection
  <2> QED BY <2>3, <2>4, <2>s, FS_UNION DEF Workers
<1> QED BY <1>2, <1>3, <1>4, FS_Union DEF Instances

LEMMA GoodPlaces == IInv => NothingLost
<1> SUFFICES ASSUME IInv PROVE NothingLost
  OBVIOUS
<1> DEFINE places == [t \in Tasks |-> Places(t)]
           callers == UNION {{<<t, p>> : p \in {q \in places[t] : q[2].from # NoOne}} : t \in Tasks}
           waiting == {i \in Instances : k.at[i] = "calling"}
<1>1. \A t \in Tasks : \A p \in Places(t) :
        /\ p[2].from \in Callers \cup {NoOne} /\ p[2].slot \in 0..Pool /\ (p[2].from = NoOne <=> p[2].slot > 0)
        /\ Exists(k, ThingOf(t, p[2]))
  BY PlaceThings
<1>2. \A t, u \in Tasks : \A p \in Places(t), q \in Places(u) : ThingOf(t, p[2]) = ThingOf(u, q[2]) => t = u /\ p = q
  BY PlaceThings
<1>3. \A x \in Things : Exists(k, x) => \E t \in Tasks : \E p \in Places(t) : ThingOf(t, p[2]) = x
  BY PlaceThings
<1>4. \A i \in Instances : k.at[i] = "calling" => i \in Callers
  <2>1. SUFFICES ASSUME NEW i \in Instances, k.at[i] = "calling" PROVE i \in Callers
    OBVIOUS
  <2>2. StateOf(k, i)
    BY DEF IInv, Good, Agree
  <2>3. i \notin Mains \ Servers
    BY <2>1, <2>2 DEF StateOf
  <2> QED BY <2>3, Who DEF Callers, Instances
<1>5. \A c \in callers : \E t \in Tasks : \E p \in Places(t) : p[2].from # NoOne /\ c = <<t, p>>
  OBVIOUS
<1>6. \A t \in Tasks : \A p \in Places(t) : p[2].from # NoOne => <<t, p>> \in callers
  OBVIOUS
<1>7. ASSUME NEW c \in callers
      PROVE  c[2][2].from \in waiting /\ \A d \in callers : c[2][2].from = d[2][2].from => c = d
  <2>1. PICK t \in Tasks : \E p \in Places(t) : p[2].from # NoOne /\ c = <<t, p>>
    BY <1>5
  <2>2. PICK p \in Places(t) : p[2].from # NoOne /\ c = <<t, p>>
    BY <2>1
  <2>i. PICK i : i = p[2].from
    OBVIOUS
  <2>3. i \in Callers /\ ThingOf(t, p[2]) = Rendezvous(i) /\ Exists(k, Rendezvous(i))
    BY <1>1, <2>2, <2>i DEF ThingOf
  <2>4. k.at[i] = "calling"
    BY <2>3, Things2 DEF Exists
  <2>5. i \in Instances
    BY <2>3, Who DEF Callers
  <2>6. ASSUME NEW d \in callers, c[2][2].from = d[2][2].from PROVE c = d
    <3>1. PICK u \in Tasks : \E q \in Places(u) : q[2].from # NoOne /\ d = <<u, q>>
      BY <1>5
    <3>2. PICK q \in Places(u) : q[2].from # NoOne /\ d = <<u, q>>
      BY <3>1
    <3>3. q[2].from = i
      BY <2>2, <2>6, <2>i, <3>2
    <3>4. ThingOf(u, q[2]) = Rendezvous(i)
      BY <3>2, <3>3 DEF ThingOf
    <3>5. t = u /\ p = q
      BY <1>2, <2>3, <3>4
    <3> QED BY <2>2, <3>2, <3>5
  <2>7. c[2][2].from = i
    BY <2>2, <2>i
  <2> QED BY <2>4, <2>5, <2>6, <2>7
<1>8. ASSUME NEW i \in waiting PROVE \E c \in callers : c[2][2].from = i
  <2>1. i \in Callers /\ k.at[i] = "calling"
    BY <1>4
  <2>2. Rendezvous(i) \in Things /\ Exists(k, Rendezvous(i)) /\ Rendezvous(i).kind = "caller"
    BY <2>1, Things2 DEF Exists
  <2>3. PICK t \in Tasks : \E p \in Places(t) : ThingOf(t, p[2]) = Rendezvous(i)
    BY <1>3, <2>2
  <2>4. PICK p \in Places(t) : ThingOf(t, p[2]) = Rendezvous(i)
    BY <2>3
  <2>5. p[2].from # NoOne /\ p[2].from = i
    <3>1. MessageOf(t, p[2].slot).kind = "message"
      BY DEF MessageOf
    <3>2. p[2].from # NoOne
      BY <2>2, <2>4, <3>1 DEF ThingOf
    <3>3. p[2].from \in Callers /\ Rendezvous(p[2].from) = Rendezvous(i)
      BY <1>1, <2>4, <3>2 DEF ThingOf
    <3> QED BY <2>1, <3>2, <3>3, Things2
  <2>6. <<t, p>> \in callers
    BY <1>6, <2>5
  <2> QED BY <2>5, <2>6
<1>9. {c[2][2].from : c \in callers} = waiting
  BY <1>7, <1>8
<1>10. Cardinality(callers) = Cardinality(waiting)
  <2>f. PICK f : f = [c \in callers |-> c[2][2].from]
    OBVIOUS
  <2>1. f \in Injection(callers, waiting)
    BY <1>7, <2>f DEF Injection, IsInjective
  <2>2. f \in Surjection(callers, waiting)
    BY <1>7, <1>8, <2>f DEF Surjection
  <2>3. IsFiniteSet(waiting)
    BY FiniteInstances, FS_Subset
  <2> QED BY <2>1, <2>2, <2>3, FS_Injection
<1>11. ASSUME NEW t \in Tasks
       PROVE  LET slots == {p \in places[t] : p[2].slot > 0}
              IN {p[2].slot : p \in slots} = 1..Pool /\ Cardinality(slots) = Pool
  <2> DEFINE slots == {p \in Places(t) : p[2].slot > 0}
  <2>p. Pool \in Nat
    BY ServersAssumption
  <2>1. ASSUME NEW p \in slots PROVE p[2].slot \in 1..Pool /\ ThingOf(t, p[2]) = MessageOf(t, p[2].slot)
    <3>1. p[2].slot > 0 /\ p[2].slot \in 0..Pool /\ p[2].from = NoOne
      BY <1>1
    <3> QED BY <2>p, <3>1 DEF ThingOf
  <2>2. \A p, q \in slots : p[2].slot = q[2].slot => p = q
    <3>1. SUFFICES ASSUME NEW p \in slots, NEW q \in slots, p[2].slot = q[2].slot PROVE p = q
      OBVIOUS
    <3>2. ThingOf(t, p[2]) = ThingOf(t, q[2])
      BY <2>1, <3>1
    <3> QED BY <1>2, <3>2
  <2>3. ASSUME NEW n \in 1..Pool PROVE \E p \in slots : p[2].slot = n
    <3>x. PICK x : x = MessageOf(t, n)
      OBVIOUS
    <3>1. x \in Things /\ x.kind = "message" /\ Exists(k, x)
      BY <3>x, Things2 DEF Exists
    <3>2. PICK u \in Tasks : \E p \in Places(u) : ThingOf(u, p[2]) = x
      BY <1>3, <3>1
    <3>3. PICK p \in Places(u) : ThingOf(u, p[2]) = x
      BY <3>2
    <3>4. p[2].from = NoOne
      <4>1. Rendezvous(p[2].from).kind = "caller"
        BY DEF Rendezvous
      <4> QED BY <3>1, <3>3, <4>1 DEF ThingOf
    <3>5. MessageOf(u, p[2].slot) = MessageOf(t, n)
      BY <3>3, <3>4, <3>x DEF ThingOf
    <3>6. u = t /\ p[2].slot = n
      BY <3>5 DEF MessageOf
    <3>7. p \in slots
      BY <3>3, <3>6, <2>p
    <3> QED BY <3>6, <3>7
  <2>4. {p[2].slot : p \in slots} = 1..Pool
    BY <2>1, <2>3
  <2>5. Cardinality(slots) = Pool
    <3>f. PICK f : f = [p \in slots |-> p[2].slot]
      OBVIOUS
    <3>1. f \in Injection(slots, 1..Pool)
      BY <2>1, <2>2, <3>f DEF Injection, IsInjective
    <3>2. f \in Surjection(slots, 1..Pool)
      BY <2>1, <2>3, <3>f DEF Surjection
    <3>3. IsFiniteSet(1..Pool) /\ Cardinality(1..Pool) = Pool
      BY <2>p, FS_Interval
    <3>4. Cardinality(slots) = Cardinality(1..Pool)
      BY <3>1, <3>2, <3>3, FS_Injection
    <3> QED BY <3>3, <3>4
  <2>6. places[t] = Places(t)
    OBVIOUS
  <2> QED BY <2>4, <2>5, <2>6
<1> QED BY <1>9, <1>10, <1>11 DEF NothingLost

\* No rendezvous and no message is lost or doubled between callers, dispatchers,
\* workers, joins and forwards (NothingLost: instance.cc:1258-1310, task.cc:322-343).
THEOREM NoRequestLost == Spec => []NothingLost
  BY AlwaysGood, GoodPlaces, PTL

\* All that the run checks of a state at once (Consistent: instance.cc:455-505, 1142-1189).
THEOREM AlwaysConsistent == Spec => []Consistent
<1>1. IInv => Consistent
  BY GoodTypes, GoodDispatch, GoodJoins, GoodPlaces DEF Consistent
<1> QED BY <1>1, AlwaysGood, PTL

-----------------------------------------------------------------------------
\* Every task that serves in order is a station.

Wait(s, t) == Optional(s.hand[t]) \o s.pending[t] \o s.port[t]
Engaged(s, t) == {i \in Servers : i[1] = t /\ (s.at[i] \in Working \/ s.inbox[i] # <<>>)}

\* What may happen to the station of task t when state s becomes state u.
Same(s, u, t) == Wait(u, t) = Wait(s, t) /\ Engaged(u, t) = Engaged(s, t) /\ u.joined[t] = s.joined[t]
Arrives(s, u, t) ==
  /\ Wait(u, t) # Wait(s, t) /\ IsPrefix(Wait(s, t), Wait(u, t))
  /\ Engaged(u, t) = Engaged(s, t) /\ u.joined[t] = s.joined[t]
CanBegin(s, t, n) ==
  /\ n \in DOMAIN Wait(s, t) /\ Wait(s, t)[n].entry \notin s.joined[t]
  /\ \A j \in 1..n-1 : Wait(s, t)[j].entry \in s.joined[t]
Begun(s, u, t, n) ==
  /\ Cardinality(Engaged(s, t)) < Limit[t] /\ Cardinality(Engaged(u, t)) = Cardinality(Engaged(s, t)) + 1
  /\ CanBegin(s, t, n) /\ Wait(u, t) = RemoveAt(Wait(s, t), n)
  /\ u.joined[t] = s.joined[t]
Ends(s, u, t) ==
  /\ Cardinality(Engaged(s, t)) > 0 /\ Cardinality(Engaged(u, t)) = Cardinality(Engaged(s, t)) - 1
  /\ Wait(u, t) = Wait(s, t) /\ s.joined[t] \subseteq u.joined[t]
OpensSome(s, u, t) == Wait(u, t) = Wait(s, t) /\ Engaged(u, t) = Engaged(s, t) /\ u.joined[t] \subseteq s.joined[t]

Moves(s, u, t) ==
  /\ t \in InOrder => \/ Same(s, u, t) \/ Arrives(s, u, t) \/ Ends(s, u, t) \/ OpensSome(s, u, t)
                      \/ \E n \in Nat : Begun(s, u, t, n)
  /\ \A p \in Tasks \ {t} : Same(s, u, p)
  /\ \A p \in Multi : u.pending[p] = s.pending[p]

LEMMA StationStep ==
  ASSUME NEW t \in Tasks, Moves(k, k', t)
  PROVE  [Abstract!Next]_(Abstract!vars)
<1>w. PICK w, x : w = [p \in InOrder |-> Wait(k, p)] /\ x = [p \in InOrder |-> Wait(k', p)]
  OBVIOUS
<1>b. PICK b, c : b = [p \in InOrder |-> Cardinality(Engaged(k, p))] /\ c = [p \in InOrder |-> Cardinality(Engaged(k', p))]
  OBVIOUS
<1>d. PICK d, e : d = [p \in InOrder |-> k.joined[p]] /\ e = [p \in InOrder |-> k'.joined[p]]
  OBVIOUS
<1>1. [p \in InOrder |-> WaitingAt(p)] = w /\ [p \in InOrder |-> WaitingAt(p)]' = x
  BY <1>w DEF WaitingAt, Wait, Optional
<1>2. [p \in InOrder |-> BusyAt(p)] = b /\ [p \in InOrder |-> BusyAt(p)]' = c
  BY <1>b DEF BusyAt, Engaged, Working
<1>3. [p \in InOrder |-> k.joined[p]] = d /\ [p \in InOrder |-> k.joined[p]]' = e
  BY <1>d
<1>4. InOrder \subseteq Tasks
  BY DEF InOrder
<1>5. \A p \in InOrder \ {t} : x[p] = w[p] /\ c[p] = b[p] /\ e[p] = d[p]
  BY <1>w, <1>b, <1>d, <1>4 DEF Moves, Same
<1>6. ASSUME NEW f, NEW g, DOMAIN f = InOrder, DOMAIN g = InOrder, f = [p \in InOrder |-> f[p]], g = [p \in InOrder |-> g[p]],
             \A p \in InOrder \ {t} : g[p] = f[p]
      PROVE  /\ (t \notin InOrder \/ g[t] = f[t]) => g = f
             /\ g = [f EXCEPT ![t] = g[t]]
  BY <1>6
<1>7. /\ x = [w EXCEPT ![t] = x[t]] /\ (t \notin InOrder \/ x[t] = w[t] => x = w)
      /\ c = [b EXCEPT ![t] = c[t]] /\ (t \notin InOrder \/ c[t] = b[t] => c = b)
      /\ e = [d EXCEPT ![t] = e[t]] /\ (t \notin InOrder \/ e[t] = d[t] => e = d)
  <2>1. x = [w EXCEPT ![t] = x[t]] /\ (t \notin InOrder \/ x[t] = w[t] => x = w)
    BY <1>w, <1>5, <1>6
  <2>2. c = [b EXCEPT ![t] = c[t]] /\ (t \notin InOrder \/ c[t] = b[t] => c = b)
    BY <1>b, <1>5, <1>6
  <2>3. e = [d EXCEPT ![t] = e[t]] /\ (t \notin InOrder \/ e[t] = d[t] => e = d)
    BY <1>d, <1>5, <1>6
  <2> QED BY <2>1, <2>2, <2>3
<1>8. CASE t \notin InOrder
  BY <1>1, <1>2, <1>3, <1>7, <1>8 DEF Abstract!vars
<1>9. CASE t \in InOrder
  <2>1. /\ w[t] = Wait(k, t) /\ x[t] = Wait(k', t) /\ b[t] = Cardinality(Engaged(k, t)) /\ c[t] = Cardinality(Engaged(k', t))
        /\ d[t] = k.joined[t] /\ e[t] = k'.joined[t]
    BY <1>9, <1>w, <1>b, <1>d
  <2>2. CASE Same(k, k', t)
    <3>1. x = w /\ c = b /\ e = d
      BY <1>7, <2>1, <2>2 DEF Same
    <3> QED BY <1>1, <1>2, <1>3, <3>1 DEF Abstract!vars
  <2>3. CASE Arrives(k, k', t)
    <3>1. x = [w EXCEPT ![t] = x[t]] /\ x[t] # w[t] /\ IsPrefix(w[t], x[t]) /\ c = b /\ e = d
      BY <1>7, <2>1, <2>3 DEF Arrives
    <3>2. Abstract!Arrive(t)
      BY <1>1, <1>2, <1>3, <3>1 DEF Abstract!Arrive, Abstract!IsPrefix, IsPrefix
    <3> QED BY <1>9, <3>2 DEF Abstract!Next
  <2>4. CASE Ends(k, k', t)
    <3>1. x = w /\ c = [b EXCEPT ![t] = b[t] - 1] /\ b[t] > 0 /\ e = [d EXCEPT ![t] = e[t]] /\ d[t] \subseteq e[t]
      BY <1>7, <2>1, <2>4 DEF Ends
    <3>2. Abstract!End(t)
      BY <1>1, <1>2, <1>3, <3>1 DEF Abstract!End
    <3> QED BY <1>9, <3>2 DEF Abstract!Next
  <2>5. CASE OpensSome(k, k', t)
    <3>1. x = w /\ c = b /\ e = [d EXCEPT ![t] = e[t]] /\ e[t] \subseteq d[t]
      BY <1>7, <2>1, <2>5 DEF OpensSome
    <3>2. Abstract!Open(t)
      BY <1>1, <1>2, <1>3, <3>1 DEF Abstract!Open
    <3> QED BY <1>9, <3>2 DEF Abstract!Next
  <2>6. ASSUME NEW n \in Nat, Begun(k, k', t, n)
        PROVE  Abstract!Next
    <3>1. /\ x = [w EXCEPT ![t] = RemoveAt(w[t], n)] /\ c = [b EXCEPT ![t] = b[t] + 1] /\ b[t] < Limit[t] /\ e = d
      BY <1>7, <2>1, <2>6 DEF Begun
    <3>2. n \in DOMAIN w[t] /\ w[t][n].entry \notin d[t] /\ \A j \in 1..n-1 : w[t][j].entry \in d[t]
      BY <2>1, <2>6 DEF Begun, CanBegin
    <3>3. Abstract!First(t, n)
      BY <1>1, <1>3, <3>2 DEF Abstract!First
    <3>4. Abstract!RemoveAt(w[t], n) = RemoveAt(w[t], n)
      BY DEF Abstract!RemoveAt, RemoveAt
    <3>5. Abstract!Begin(t)
      BY <1>1, <1>2, <1>3, <3>1, <3>2, <3>3, <3>4 DEF Abstract!Begin
    <3> QED BY <1>9, <3>5 DEF Abstract!Next
  <2> QED BY <1>9, <2>2, <2>3, <2>4, <2>5, <2>6 DEF Moves
<1> QED BY <1>8, <1>9

-----------------------------------------------------------------------------
\* Requests at the two ends of sequences that follow each other.

LEMMA SameInterval ==
  ASSUME NEW m \in Nat, NEW n \in Nat, 1..m = 1..n
  PROVE  m = n
<1>1. ASSUME NEW i \in Nat, NEW j \in Nat, 1..i = 1..j PROVE ~(i < j)
  <2>1. SUFFICES ASSUME i < j PROVE FALSE
    OBVIOUS
  <2>2. j \in 1..j /\ j \notin 1..i
    BY <2>1
  <2> QED BY <1>1, <2>2
<1>2. ~(m < n) /\ ~(n < m)
  BY <1>1
<1> QED BY <1>2

\* A sequence is determined by what it is without an element of another.
LEMMA DropsOnce ==
  ASSUME NEW S, NEW q, NEW n, NEW u \in Seq(S), NEW w \in Seq(S), Drops(q, n, u), Drops(q, n, w)
  PROVE  u = w
<1>1. DOMAIN u = DOMAIN w /\ \A j \in DOMAIN u : u[j] = w[j]
  BY DEF Drops
<1>2. Len(u) \in Nat /\ Len(w) \in Nat /\ DOMAIN u = 1..Len(u) /\ DOMAIN w = 1..Len(w)
  BY LenProperties
<1>3. Len(u) = Len(w)
  BY <1>1, <1>2, SameInterval
<1> QED BY <1>1, <1>2, <1>3, SeqEqual

\* A request at the end of what waits.
LEMMA AtTheEnd ==
  ASSUME NEW S, NEW a \in Seq(S), NEW q \in Seq(S), NEW r \in S
  PROVE  a \o Append(q, r) = Append(a \o q, r) /\ IsPrefix(a \o q, a \o Append(q, r)) /\ a \o Append(q, r) # a \o q
<1>b. PICK b, c : b = a \o q /\ c = Append(b, r)
  OBVIOUS
<1>1. b \in Seq(S) /\ <<r>> \in Seq(S)
  BY <1>b, ConcatProperties
<1>2. a \o Append(q, r) = c
  <2>1. Append(q, r) = q \o <<r>> /\ c = b \o <<r>>
    BY <1>1, <1>b, AppendIsConcat
  <2>2. (a \o q) \o <<r>> = a \o (q \o <<r>>)
    BY <1>1, ConcatAssociative
  <2> QED BY <1>b, <2>1, <2>2
<1>3. Len(c) = Len(b) + 1 /\ Len(b) \in Nat /\ \A j \in 1..Len(b) : c[j] = b[j]
  BY <1>1, <1>b, AppendProperties, LenProperties
<1>4. SubSeq(c, 1, Len(b)) = SubSeq(b, 1, Len(b))
  <2>1. \A j \in 1..Len(b) : b[j] \in S /\ c[j] \in S
    BY <1>1, <1>3, ElementOfSeq
  <2>2. /\ SubSeq(b, 1, Len(b)) \in Seq(S) /\ Len(SubSeq(b, 1, Len(b))) = IF 1 <= Len(b) THEN Len(b) - 1 + 1 ELSE 0
        /\ \A j \in 1..(Len(b) - 1 + 1) : SubSeq(b, 1, Len(b))[j] = b[1 + j - 1]
    BY <1>3, <2>1, SubSeqProperties
  <2>3. /\ SubSeq(c, 1, Len(b)) \in Seq(S) /\ Len(SubSeq(c, 1, Len(b))) = IF 1 <= Len(b) THEN Len(b) - 1 + 1 ELSE 0
        /\ \A j \in 1..(Len(b) - 1 + 1) : SubSeq(c, 1, Len(b))[j] = c[1 + j - 1]
    BY <1>3, <2>1, SubSeqProperties
  <2>4. Len(SubSeq(c, 1, Len(b))) = Len(SubSeq(b, 1, Len(b))) /\ Len(SubSeq(c, 1, Len(b))) = Len(b)
    BY <1>3, <2>2, <2>3
  <2>5. \A j \in 1..Len(b) : SubSeq(c, 1, Len(b))[j] = SubSeq(b, 1, Len(b))[j]
    <3>1. Len(b) - 1 + 1 = Len(b) /\ \A j \in 1..Len(b) : 1 + j - 1 = j
      BY <1>3
    <3> QED BY <1>3, <2>2, <2>3, <3>1
  <2> QED BY <2>2, <2>3, <2>4, <2>5, SeqEqual
<1>5. IsPrefix(b, c)
  BY <1>3, <1>4 DEF IsPrefix
<1>6. c # b
  BY <1>3
<1> QED BY <1>2, <1>5, <1>6, <1>b

\* An element of the first of two sequences, and the first of the second.
LEMMA FromTheFirst ==
  ASSUME NEW S, NEW a \in Seq(S), NEW b \in Seq(S), NEW n \in DOMAIN a
  PROVE  /\ n \in DOMAIN (a \o b) /\ RemoveAt(a \o b, n) = RemoveAt(a, n) \o b
         /\ \A j \in 1..n : (a \o b)[j] = a[j]
<1>c. PICK c, d, l, m : c = a \o b /\ d = RemoveAt(a, n) /\ l = Len(a) /\ m = Len(b)
  OBVIOUS
<1>1. /\ l \in Nat /\ m \in Nat /\ DOMAIN a = 1..l /\ n \in 1..l
      /\ c \in Seq(S) /\ Len(c) = l + m /\ DOMAIN c = 1..(l + m)
      /\ \A j \in 1..(l + m) : c[j] = IF j <= l THEN a[j] ELSE b[j - l]
  BY <1>c, ConcatProperties, LenProperties
<1>2. d \in Seq(S) /\ Drops(a, n, d) /\ DOMAIN d = 1..(l - 1) /\ Len(d) = l - 1
  <2>1. d \in Seq(S) /\ Drops(a, n, d)
    BY <1>c, RemoveDrops
  <2>2. DOMAIN d = 1..(l - 1) /\ DOMAIN d = 1..Len(d) /\ Len(d) \in Nat
    BY <1>c, <2>1, LenProperties DEF Drops
  <2>3. Len(d) = l - 1
    <3>1. l - 1 \in Nat
      BY <1>1
    <3> QED BY <2>2, <3>1, SameInterval
  <2> QED BY <2>1, <2>2, <2>3
<1>e. PICK e : e = d \o b
  OBVIOUS
<1>3. /\ e \in Seq(S) /\ DOMAIN e = 1..(l - 1 + m)
      /\ \A j \in 1..(l - 1 + m) : e[j] = IF j <= l - 1 THEN d[j] ELSE b[j - (l - 1)]
  BY <1>2, <1>c, <1>e, ConcatProperties, LenProperties
<1>4. Drops(c, n, e)
  <2>1. Len(c) \in Nat /\ DOMAIN c = 1..Len(c) /\ n \in DOMAIN c /\ DOMAIN e = 1..(Len(c) - 1)
    BY <1>1, <1>3
  <2>2. ASSUME NEW j \in DOMAIN e PROVE e[j] = c[IF j < n THEN j ELSE j + 1]
    <3>1. j \in Int /\ 1 <= j /\ j <= l - 1 + m
      BY <1>1, <1>3
    <3>2. CASE j <= l - 1
      <4>1. j \in DOMAIN d /\ e[j] = d[j] /\ (IF j < n THEN j ELSE j + 1) \in 1..l
        BY <1>1, <1>2, <1>3, <3>1, <3>2
      <4>2. d[j] = a[IF j < n THEN j ELSE j + 1]
        BY <1>2, <4>1 DEF Drops
      <4> QED BY <1>1, <4>1, <4>2
    <3>3. CASE ~(j <= l - 1)
      <4>1. ~(j < n) /\ ~(j + 1 <= l) /\ j + 1 \in 1..(l + m) /\ (j + 1) - l = j - (l - 1)
        BY <1>1, <3>1, <3>3
      <4> QED BY <1>1, <1>3, <3>3, <4>1
    <3> QED BY <3>2, <3>3
  <2> QED BY <2>1, <2>2 DEF Drops
<1>5. n \in DOMAIN c
  BY <1>1
<1>6. RemoveAt(c, n) = e
  <2>1. RemoveAt(c, n) \in Seq(S) /\ Drops(c, n, RemoveAt(c, n))
    BY <1>1, <1>5, RemoveDrops
  <2> QED BY <1>3, <1>4, <2>1, DropsOnce
<1>7. \A j \in 1..n : c[j] = a[j]
  BY <1>1
<1> QED BY <1>5, <1>6, <1>7, <1>c, <1>e

LEMMA FirstOfSecond ==
  ASSUME NEW S, NEW a \in Seq(S), NEW b \in Seq(S), b # <<>>
  PROVE  /\ Len(a) + 1 \in DOMAIN (a \o b) /\ (a \o b)[Len(a) + 1] = b[1]
         /\ \A j \in 1..Len(a) : (a \o b)[j] = a[j]
         /\ RemoveAt(a \o b, Len(a) + 1) = a \o RemoveAt(b, 1)
<1>c. PICK c, d, l, m : c = a \o b /\ d = RemoveAt(b, 1) /\ l = Len(a) /\ m = Len(b)
  OBVIOUS
<1>1. /\ l \in Nat /\ m \in Nat /\ m > 0 /\ DOMAIN b = 1..m /\ 1 \in DOMAIN b
      /\ c \in Seq(S) /\ Len(c) = l + m /\ DOMAIN c = 1..(l + m)
      /\ \A j \in 1..(l + m) : c[j] = IF j <= l THEN a[j] ELSE b[j - l]
  BY <1>c, ConcatProperties, LenProperties, EmptySeq
<1>2. d \in Seq(S) /\ d = Tail(b) /\ Len(d) = m - 1 /\ \A j \in 1..(m - 1) : d[j] = b[j + 1]
  <2>1. d \in Seq(S) /\ Drops(b, 1, d)
    BY <1>1, <1>c, RemoveDrops
  <2>2. Drops(b, 1, Tail(b)) /\ Tail(b) \in Seq(S)
    BY TailDrops
  <2>3. d = Tail(b)
    BY <2>1, <2>2, DropsOnce
  <2>4. Len(Tail(b)) = Len(b) - 1 /\ \A j \in 1..Len(Tail(b)) : Tail(b)[j] = b[j + 1]
    BY HeadTailProperties
  <2>5. Len(d) = m - 1 /\ \A j \in 1..Len(d) : d[j] = b[j + 1]
    BY <1>c, <2>3, <2>4
  <2> QED BY <2>1, <2>3, <2>5
<1>e. PICK e : e = a \o d
  OBVIOUS
<1>3. /\ e \in Seq(S) /\ DOMAIN e = 1..(l + (m - 1))
      /\ \A j \in 1..(l + (m - 1)) : e[j] = IF j <= l THEN a[j] ELSE d[j - l]
  <2>1. /\ e \in Seq(S) /\ Len(e) = Len(a) + Len(d)
        /\ \A j \in 1..(Len(a) + Len(d)) : e[j] = IF j <= Len(a) THEN a[j] ELSE d[j - Len(a)]
    BY <1>2, <1>e, ConcatProperties
  <2>2. DOMAIN e = 1..Len(e)
    BY <2>1, LenProperties
  <2>3. Len(a) + Len(d) = l + (m - 1)
    BY <1>2, <1>c
  <2> QED BY <1>c, <2>1, <2>2, <2>3
<1>4. Drops(c, l + 1, e)
  <2>1. Len(c) \in Nat /\ DOMAIN c = 1..Len(c) /\ l + 1 \in DOMAIN c /\ DOMAIN e = 1..(Len(c) - 1)
    BY <1>1, <1>3
  <2>2. ASSUME NEW j \in DOMAIN e PROVE e[j] = c[IF j < l + 1 THEN j ELSE j + 1]
    <3>1. j \in Int /\ 1 <= j /\ j <= l + (m - 1)
      BY <1>1, <1>3
    <3>2. CASE j <= l
      BY <1>1, <1>3, <3>1, <3>2
    <3>3. CASE ~(j <= l)
      <4>0. j > l /\ j - l >= 1 /\ j - l <= m - 1 /\ j + 1 <= l + m /\ m - 1 \in Int /\ l + m \in Int
        BY <1>1, <3>1, <3>3
      <4>1. ~(j < l + 1) /\ ~(j + 1 <= l) /\ j + 1 \in 1..(l + m) /\ (j + 1) - l = (j - l) + 1 /\ j - l \in 1..(m - 1)
        BY <1>1, <3>1, <4>0
      <4> QED BY <1>1, <1>2, <1>3, <3>3, <4>1
    <3> QED BY <3>2, <3>3
  <2> QED BY <2>1, <2>2 DEF Drops
<1>5. l + 1 \in DOMAIN c /\ c[l + 1] = b[1]
  BY <1>1
<1>6. RemoveAt(c, l + 1) = e
  <2>1. RemoveAt(c, l + 1) \in Seq(S) /\ Drops(c, l + 1, RemoveAt(c, l + 1))
    BY <1>1, <1>5, RemoveDrops
  <2> QED BY <1>3, <1>4, <2>1, DropsOnce
<1>7. \A j \in 1..l : c[j] = a[j]
  BY <1>1
<1> QED BY <1>5, <1>6, <1>7, <1>c, <1>e

\* The first of a sequence, taken out and put before the others.
LEMMA FirstAndRest ==
  ASSUME NEW S, NEW q \in Seq(S), q # <<>>
  PROVE  <<q[1]>> \o RemoveAt(q, 1) = q /\ RemoveAt(q, 1) = Tail(q) /\ 1 \in DOMAIN q /\ q[1] \in S
<1>1. 1 \in DOMAIN q /\ Len(q) \in Nat /\ Len(q) >= 1 /\ DOMAIN q = 1..Len(q)
  BY LenProperties, EmptySeq
<1>2. RemoveAt(q, 1) = Tail(q) /\ q[1] \in S
  <2>1. RemoveAt(q, 1) \in Seq(S) /\ Drops(q, 1, RemoveAt(q, 1)) /\ q[1] \in S
    BY <1>1, RemoveDrops
  <2>2. Drops(q, 1, Tail(q)) /\ Tail(q) \in Seq(S)
    BY TailDrops
  <2> QED BY <2>1, <2>2, DropsOnce
<1>3. SubSeq(q, 1, Len(q)) = <<q[1]>> \o SubSeq(q, 2, Len(q))
  <2>1. 1 \in 1..Len(q) /\ Len(q) \in 1..Len(q)
    BY <1>1
  <2> QED BY <2>1, SubSeqRecursiveFirst
<1> QED BY <1>1, <1>2, <1>3, SubSeqFull, TailIsSubSeq

Still(s, u, t) == u.hand[t] = s.hand[t] /\ u.pending[t] = s.pending[t] /\ u.port[t] = s.port[t]
Steady(s, u, t) ==
  \A i \in Servers : i[1] = t => (u.at[i] \in Working <=> s.at[i] \in Working) /\ u.inbox[i] = s.inbox[i]
\* Nothing changes at the stations of other tasks than t.
Apart(s, u, t) == \A p \in Tasks \ {t} : Still(s, u, p) /\ Steady(s, u, p) /\ u.joined[p] = s.joined[p]

LEMMA SteadySame ==
  ASSUME NEW s, NEW u, NEW t, Steady(s, u, t)
  PROVE  Engaged(u, t) = Engaged(s, t)
  BY DEF Steady, Engaged

LEMMA StillSame ==
  ASSUME NEW s, NEW u, NEW t, Still(s, u, t)
  PROVE  Wait(u, t) = Wait(s, t)
  BY DEF Still, Wait

LEMMA ApartSame ==
  ASSUME NEW s, NEW u, NEW t, Apart(s, u, t)
  PROVE  \A p \in Tasks \ {t} : Same(s, u, p)
  BY SteadySame, StillSame DEF Apart, Same

LEMMA WaitOf ==
  ASSUME NEW s, Typed(s), NEW t \in Tasks
  PROVE  /\ Optional(s.hand[t]) \in Seq(To(t)) /\ s.pending[t] \in Seq(To(t)) /\ s.port[t] \in Seq(To(t))
         /\ Optional(s.hand[t]) \o s.pending[t] \in Seq(To(t))
         /\ s.hand[t] = Nothing => Wait(s, t) = s.pending[t] \o s.port[t]
         /\ s.pending[t] = <<>> => Wait(s, t) = Optional(s.hand[t]) \o s.port[t]
<1>1. s.pending[t] \in Seq(To(t)) /\ s.port[t] \in Seq(To(t)) /\ s.hand[t] \in To(t) \cup {Nothing}
  BY DEF Typed, Queues, Hands
<1>o. PICK o : o = Optional(s.hand[t])
  OBVIOUS
<1>2. o \in Seq(To(t))
  BY <1>1, <1>o DEF Optional
<1>3. o \o s.pending[t] \in Seq(To(t))
  BY <1>1, <1>2, ConcatProperties
<1>4. s.hand[t] = Nothing => o \o s.pending[t] = s.pending[t]
  BY <1>1, <1>o, ConcatEmptySeq DEF Optional
<1>5. s.pending[t] = <<>> => o \o s.pending[t] = o
  BY <1>2, ConcatEmptySeq
<1> QED BY <1>1, <1>2, <1>3, <1>4, <1>5, <1>o DEF Wait

-----------------------------------------------------------------------------
\* A station sees nothing of a step, or a request comes to it.
Unseen(s, u) ==
  /\ u.hand = s.hand /\ u.pending = s.pending /\ u.joined = s.joined /\ u.inbox = s.inbox
  /\ \A i \in Servers : u.at[i] \in Working <=> s.at[i] \in Working
Gains(s, u) ==
  \E t \in Tasks : u.port = s.port \/ \E r \in To(t) : u.port = [s.port EXCEPT ![t] = Append(s.port[t], r)]

LEMMA Coming ==
  ASSUME NEW s, NEW u, Typed(s), Unseen(s, u), Gains(s, u)
  PROVE  \E t \in Tasks : Moves(s, u, t)
<1>1. PICK t \in Tasks : u.port = s.port \/ \E r \in To(t) : u.port = [s.port EXCEPT ![t] = Append(s.port[t], r)]
  BY DEF Gains
<1>2. \A p \in Tasks : Steady(s, u, p) /\ u.joined[p] = s.joined[p] /\ u.hand[p] = s.hand[p] /\ u.pending[p] = s.pending[p]
  BY DEF Unseen, Steady
<1>3. \A p \in Multi : u.pending[p] = s.pending[p]
  BY <1>2, Who
<1>4. CASE u.port = s.port
  <2>1. \A p \in Tasks : Same(s, u, p)
    BY <1>2, <1>4, SteadySame, StillSame DEF Same, Still
  <2> QED BY <1>3, <2>1 DEF Moves
<1>5. ASSUME NEW r \in To(t), u.port = [s.port EXCEPT ![t] = Append(s.port[t], r)] PROVE Moves(s, u, t)
  <2>1. DOMAIN s.port = Tasks
    BY DEF Typed, Queues
  <2>2. u.port[t] = Append(s.port[t], r) /\ \A p \in Tasks \ {t} : u.port[p] = s.port[p]
    BY <1>5, <2>1
  <2>3. Apart(s, u, t)
    BY <1>2, <2>2 DEF Apart, Still
  <2>a. PICK a, q : a = Optional(s.hand[t]) \o s.pending[t] /\ q = s.port[t]
    OBVIOUS
  <2>4. a \in Seq(To(t)) /\ q \in Seq(To(t))
    BY <2>a, WaitOf
  <2>5. Wait(s, t) = a \o q /\ Wait(u, t) = a \o Append(q, r)
    BY <1>2, <2>2, <2>a DEF Wait
  <2>6. Arrives(s, u, t)
    BY <1>2, <2>4, <2>5, AtTheEnd, SteadySame DEF Arrives
  <2> QED BY <1>3, <2>3, <2>6, ApartSame DEF Moves
<1> QED BY <1>1, <1>4, <1>5

LEMMA SendEffect ==
  ASSUME NEW s, Typed(s), NEW i \in Callers, s.at[i] = GoesOn(i), NEW c \in Call
  PROVE  Unseen(s, Send(s, i, c)) /\ Gains(s, Send(s, i, c))
<1>e. PICK e, t : e = c.to /\ t = TaskOf[e]
  OBVIOUS
<1>1. c.to \in Entries /\ c.mode \in {"sync", "async"} /\ t \in Tasks
  BY <1>e, ServersAssumption DEF Call, Modes
<1>2. Shape(s) /\ DOMAIN s.at = Instances /\ i \in Instances
  BY Who DEF Typed, Callers
<1>3. CASE c.mode = "sync"
  <2>r. PICK r, u : r = Request(i, e, Priority[e], 0) /\ u = Send(s, i, c)
    OBVIOUS
  <2>1. r \in To(t) /\ r.entry = e
    BY <1>1, <1>e, <2>r, RequestIsTo DEF Request
  <2>2. u = Put([s EXCEPT !.at[i] = "calling"], r)
    BY <1>3, <1>e, <2>r DEF Send, SendSync
  <2>3. /\ u.hand = s.hand /\ u.pending = s.pending /\ u.joined = s.joined /\ u.inbox = s.inbox
        /\ u.at = [s.at EXCEPT ![i] = "calling"] /\ u.port = [s.port EXCEPT ![t] = Append(s.port[t], r)]
    BY <1>2, <1>e, <2>1, <2>2 DEF Shape, Put
  <2>4. \A j \in Servers : u.at[j] \in Working <=> s.at[j] \in Working
    BY <1>2, <2>3, Who DEF GoesOn, Working
  <2> QED BY <1>1, <2>1, <2>3, <2>4, <2>r DEF Unseen, Gains
<1>4. CASE c.mode = "async" /\ s.free[t] = <<>>
  <2>1. Send(s, i, c) = s
    BY <1>4, <1>e DEF Send, SendAsync
  <2> QED BY <1>1, <2>1 DEF Unseen, Gains
<1>5. CASE c.mode = "async" /\ s.free[t] # <<>>
  <2>r. PICK n, r, u : n = Head(s.free[t]) /\ r = Request(NoOne, e, Priority[e], n) /\ u = Send(s, i, c)
    OBVIOUS
  <2>1. r \in To(t) /\ r.entry = e
    <3>1. s.free[t] \in Seq(1..Pool)
      BY <1>1 DEF Typed
    <3>2. n \in 1..Pool
      BY <1>5, <2>r, <3>1, TailDrops
    <3> QED BY <1>1, <1>e, <2>r, <3>2, MessageIsTo DEF Request
  <2>2. u = Put([s EXCEPT !.free[t] = Tail(@)], r)
    BY <1>5, <1>e, <2>r DEF Send, SendAsync
  <2>3. /\ u.hand = s.hand /\ u.pending = s.pending /\ u.joined = s.joined /\ u.inbox = s.inbox
        /\ u.at = s.at /\ u.port = [s.port EXCEPT ![t] = Append(s.port[t], r)]
    BY <1>2, <1>e, <2>1, <2>2 DEF Shape, Put
  <2> QED BY <1>1, <2>1, <2>3, <2>r DEF Unseen, Gains
<1> QED BY <1>1, <1>3, <1>4, <1>5

LEMMA AnswerEffect ==
  ASSUME NEW s, Typed(s), Placed(s), NEW i \in Servers, NEW e \in EntriesOf(i), NEW to \in Entries \cup {None}
  PROVE  Unseen(s, Answer(s, i, e, to)) /\ Gains(s, Answer(s, i, e, to))
<1>r. PICK r, u : r = s.held[i][e] /\ u = Answer(s, i, e, to)
  OBVIOUS
<1>1. Shape(s) /\ DOMAIN s.at = Instances /\ i[1] \in Tasks
  BY Who DEF Typed
<1>2. Keeps(s, u, {"port", "free", "at", "held"}) /\ \A j \in Instances : u.at[j] = s.at[j] \/ (j \in Callers /\ s.at[j] = "calling" /\ u.at[j] = GoesOn(j))
  BY <1>r, Answers
<1>3. Unseen(s, u)
  <2>1. \A j \in Servers : u.at[j] \in Working <=> s.at[j] \in Working
    BY <1>2, Who DEF GoesOn, Working
  <2> QED BY <1>2, <2>1 DEF Unseen, Keeps
<1>4. Gains(s, u)
  <2>1. CASE r # Nothing /\ ~(r.slot > 0) /\ to # None
    <3>q. PICK q, t : q = Forward(r, to) /\ t = TaskOf[to]
      OBVIOUS
    <3>1. r \in Requests /\ r.slot = 0 /\ r.from # NoOne /\ r.from \in Callers \cup {NoOne} /\ to \in Entries /\ t \in Tasks
      BY <1>r, <2>1, <3>q, HeldIsTo, RequestsTo, ServersAssumption
    <3>2. q \in Requests /\ q.entry = to /\ q.slot = 0 /\ q.from = r.from
      BY <3>1, <3>q DEF Forward, Requests
    <3>3. q \in To(t)
      BY <3>1, <3>2, <3>q DEF To
    <3>4. u = Put([s EXCEPT !.held[i][e] = Nothing], q)
      BY <1>r, <2>1, <3>q DEF Answer, Forward
    <3>5. u.port = [s.port EXCEPT ![t] = Append(s.port[t], q)]
      BY <1>1, <3>2, <3>4, <3>q DEF Shape, Put
    <3> QED BY <3>1, <3>3, <3>5 DEF Gains
  <2>2. CASE r = Nothing \/ r.slot > 0 \/ to = None
    <3>1. u.port = s.port
      BY <1>1, <1>r, <2>2 DEF Answer, FreeMessage, Resume, Shape
    <3> QED BY <1>1, <3>1 DEF Gains
  <2> QED BY <2>1, <2>2
<1> QED BY <1>3, <1>4, <1>r

LEMMA AskMoves ==
  ASSUME IInv, NEW i \in Customers, Ask(i)
  PROVE  \E t \in Tasks : Moves(k, k', t)
<1>1. PICK c \in world.asks[i[1]] : k.at[i] = "idle" /\ k' = Send(k, i, c)
  BY DEF Ask
<1>2. c \in Call
  BY Who, ServersAssumption DEF IInv
<1>3. Typed(k) /\ i \in Callers /\ k.at[i] = GoesOn(i)
  BY <1>1 DEF IInv, Good, Callers, GoesOn
<1>4. Unseen(k, k') /\ Gains(k, k')
  BY <1>1, <1>2, <1>3, SendEffect
<1> QED BY <1>3, <1>4, Coming

LEMMA ReplyMoves ==
  ASSUME IInv, NEW i \in Servers, Reply(i)
  PROVE  \E t \in Tasks : Moves(k, k', t)
<1>e. PICK e : e = Work(i)
  OBVIOUS
<1>1. PICK to \in Forwards[e] : k.at[i] = "serving" /\ k' = SecondPhase(Answer(k, i, e, to), i)
  BY <1>e DEF Reply, AtEnd, Busy, Work
<1>2. Typed(k) /\ Placed(k) /\ e \in EntriesOf(i) /\ e \in Entries /\ i \in Instances
  BY <1>1, <1>e, Serving
<1>3. to \in Entries \cup {None}
  BY <1>2, ServersAssumption
<1>v. PICK v : v = Answer(k, i, e, to)
  OBVIOUS
<1>4. Unseen(k, v) /\ Gains(k, v) /\ Typed(v)
  BY <1>2, <1>3, <1>v, AnswerEffect, Answers
<1>5. Keeps(v, k', {"job"})
  BY <1>1, <1>2, <1>4, <1>v, SecondSet
<1>6. Unseen(k, k') /\ Gains(k, k')
  BY <1>4, <1>5 DEF Unseen, Gains, Keeps
<1> QED BY <1>2, <1>6, Coming

LEMMA MakeCallMoves ==
  ASSUME IInv, NEW i \in Servers, MakeCall(i)
  PROVE  \E t \in Tasks : Moves(k, k', t)
<1>n. PICK n, q : n = k.job[i].step /\ q = Calls[Work(i)][k.job[i].phase]
  OBVIOUS
<1>s. PICK s : s = [k EXCEPT !.job[i].step = n + 1]
  OBVIOUS
<1>1. k.at[i] = "serving" /\ n <= Len(q) /\ k' = Send(s, i, q[n])
  BY <1>n, <1>s DEF MakeCall, AtCall, Busy, Todo, Work
<1>2. /\ Typed(k) /\ Agree(k) /\ Work(i) \in Entries /\ i \in Instances /\ k.job[i] \in Job
  BY <1>1, Serving
<1>4. n \in Nat /\ n >= 1
  <2>1. Holds(k, i)
    BY <1>2 DEF Agree
  <2> QED BY <1>1, <1>2, <1>n, <2>1 DEF Job, Holds, Working
<1>5. q[n] \in Call
  <2>1. q \in Seq(Call)
    <3>1. k.job[i].phase \in Phases
      BY <1>2 DEF Job
    <3> QED BY <1>2, <1>n, <3>1, ServersAssumption
  <2>2. n \in 1..Len(q)
    BY <1>1, <1>4, <2>1, LenProperties
  <2> QED BY <2>1, <2>2, ElementOfSeq
<1>g. PICK g : g = [k.job[i] EXCEPT !.step = n + 1]
  OBVIOUS
<1>6. g \in Job
  BY <1>2, <1>4, <1>g DEF Job
<1>7. s = WithJob(k, i, g)
  BY <1>g, <1>s DEF WithJob
<1>8. Typed(s) /\ Keeps(k, s, {"job"})
  BY <1>2, <1>6, <1>7, JobSet
<1>9. i \in Callers /\ s.at[i] = GoesOn(i)
  BY <1>1, <1>8, Who DEF Callers, GoesOn, Keeps
<1>10. Unseen(s, k') /\ Gains(s, k')
  BY <1>1, <1>5, <1>8, <1>9, SendEffect
<1>11. Unseen(k, k') /\ Gains(k, k')
  BY <1>8, <1>10 DEF Unseen, Gains, Keeps
<1> QED BY <1>2, <1>11, Coming

\* How many serve.
LEMMA CountEngaged ==
  ASSUME NEW s, NEW t \in Tasks
  PROVE  /\ IsFiniteSet(Engaged(s, t)) /\ Cardinality(Engaged(s, t)) \in Nat /\ Engaged(s, t) \subseteq Servers
         /\ \A x : x \notin Engaged(s, t) => Cardinality(Engaged(s, t) \cup {x}) = Cardinality(Engaged(s, t)) + 1
         /\ \A x \in Engaged(s, t) : Cardinality(Engaged(s, t) \ {x}) = Cardinality(Engaged(s, t)) - 1 /\ Cardinality(Engaged(s, t)) > 0
<1>E. PICK E : E = Engaged(s, t)
  OBVIOUS
<1>1. E \subseteq Servers /\ Servers \subseteq Instances
  BY <1>E, Who DEF Engaged
<1>2. IsFiniteSet(E) /\ Cardinality(E) \in Nat
  BY <1>1, FiniteInstances, FS_Subset, FS_CardinalityType
<1>3. \A x : x \notin E => Cardinality(E \cup {x}) = Cardinality(E) + 1
  BY <1>2, FS_AddElement
<1>4. ASSUME NEW x \in E PROVE Cardinality(E \ {x}) = Cardinality(E) - 1 /\ Cardinality(E) > 0
  <2>1. Cardinality(E \ {x}) = Cardinality(E) - 1
    BY <1>2, FS_RemoveElement
  <2>2. Cardinality(E) # 0
    BY <1>2, FS_EmptySet
  <2> QED BY <1>2, <2>1, <2>2
<1> QED BY <1>1, <1>2, <1>3, <1>4, <1>E

LEMMA CountWorkers ==
  ASSUME NEW t \in Multi
  PROVE  IsFiniteSet(WorkersOf(t)) /\ Cardinality(WorkersOf(t)) = Limit[t]
<1>f. PICK f, S : S = 1..Limit[t] /\ f = [n \in S |-> <<t, n>>]
  OBVIOUS
<1>1. t \in Tasks /\ Limit[t] \in Nat
  BY Who, ServersAssumption
<1>2. IsFiniteSet(S) /\ Cardinality(S) = Limit[t]
  BY <1>1, <1>f, FS_Interval
<1>3. f \in Bijection(S, WorkersOf(t))
  <2>1. f \in [S -> WorkersOf(t)]
    BY <1>f, Who DEF WorkersOf
  <2>2. \A m, n \in S : f[m] = f[n] => m = n
    BY <1>f
  <2>3. \A i \in WorkersOf(t) : \E n \in S : f[n] = i
    <3>1. SUFFICES ASSUME NEW i \in WorkersOf(t) PROVE \E n \in S : f[n] = i
      OBVIOUS
    <3>2. i[1] = t /\ i[2] \in S /\ i = <<i[1], i[2]>>
      BY <1>f, Who DEF WorkersOf
    <3>3. f[i[2]] = i
      BY <1>f, <3>2
    <3> QED BY <3>2, <3>3
  <2> QED BY <2>1, <2>2, <2>3 DEF Bijection, Injection, Surjection, IsInjective
<1>4. ExistsBijection(S, WorkersOf(t))
  BY <1>3 DEF ExistsBijection
<1> QED BY <1>2, <1>4, FS_Bijection

LEMMA OfMulti ==
  ASSUME NEW s, NEW t \in Multi
  PROVE  Engaged(s, t) \subseteq WorkersOf(t)
  BY Who DEF Engaged, WorkersOf

\* The server of a task that is not a multi-server is idle, or it serves.
LEMMA OfSingle ==
  ASSUME NEW s, Typed(s), NEW t \in Tasks \ Multi
  PROVE  Engaged(s, t) = IF s.at[Main(t)] \in Working THEN {Main(t)} ELSE {}
<1>1. \A i \in Servers : i[1] = t <=> i = Main(t)
  BY Who
<1>2. Main(t) \in Servers /\ s.inbox[Main(t)] = <<>>
  BY Who DEF Typed, Inboxes
<1> QED BY <1>1, <1>2 DEF Engaged

LEMMA EndMoves ==
  ASSUME IInv, NEW i \in Servers, k.at[i] = "serving", NEW u, NEW t, t = i[1],
         u.hand = k.hand, u.pending = k.pending, u.port = k.port, u.inbox = k.inbox,
         u.at = [k.at EXCEPT ![i] = "idle"],
         k.joined[t] \subseteq u.joined[t], \A p \in Tasks \ {t} : u.joined[p] = k.joined[p]
  PROVE  Moves(k, u, t)
<1>1. Typed(k) /\ Agree(k) /\ t \in Tasks /\ i \in Instances /\ DOMAIN k.at = Instances
  BY Who DEF IInv, Good, Typed
<1>2. k.inbox[i] = <<>>
  BY <1>1 DEF Typed, Inboxes, Agree, WorkerOf
<1>3. u.at[i] = "idle" /\ \A j \in Servers : j # i => u.at[j] = k.at[j]
  BY <1>1, Who
<1>4. Engaged(u, t) = Engaged(k, t) \ {i} /\ i \in Engaged(k, t)
  BY <1>2, <1>3 DEF Engaged, Working
<1>5. Wait(u, t) = Wait(k, t)
  BY DEF Wait
<1>6. Ends(k, u, t)
  BY <1>1, <1>4, <1>5, CountEngaged DEF Ends
<1>7. Apart(k, u, t)
  BY <1>3 DEF Apart, Still, Steady
<1> QED BY <1>6, <1>7, ApartSame DEF Moves

LEMMA EndCycleMoves ==
  ASSUME IInv, NEW i \in Servers, EndCycle(i)
  PROVE  \E t \in Tasks : Moves(k, k', t)
<1>1. k.at[i] = "serving" /\ k' = Finish(k, i)
  BY DEF EndCycle, AtEnd, Busy
<1>u. PICK u : u = Finish(k, i)
  OBVIOUS
<1>2. Shape(k) /\ i[1] \in Tasks
  BY Who DEF IInv, Good, Typed
<1>3. /\ u.hand = k.hand /\ u.pending = k.pending /\ u.port = k.port /\ u.inbox = k.inbox
      /\ u.at = [k.at EXCEPT ![i] = "idle"] /\ u.joined = k.joined
  BY <1>2, <1>u DEF Shape, Finish, FreeMessage, Announce
<1>4. Moves(k, u, i[1])
  BY <1>1, <1>3, EndMoves
<1> QED BY <1>1, <1>2, <1>4, <1>u

LEMMA AwaitJoinMoves ==
  ASSUME IInv, NEW i \in Servers, AwaitJoin(i)
  PROVE  \E t \in Tasks : Moves(k, k', t)
<1>e. PICK e, t : e = Work(i) /\ t = i[1]
  OBVIOUS
<1>s. PICK s, u : s = [k EXCEPT !.done[t] = @ \cup {e}, !.joined[t] = @ \cup {e}] /\ u = Finish(s, i)
  OBVIOUS
<1>1. k.at[i] = "serving" /\ k' = u
  BY <1>e, <1>s DEF AwaitJoin, AtEnd, Busy, Work
<1>2. Shape(k) /\ t \in Tasks /\ DOMAIN k.joined = Tasks
  BY <1>e, Who DEF IInv, Good, Typed
<1>3. Shape(s) /\ s.hand = k.hand /\ s.pending = k.pending /\ s.port = k.port /\ s.inbox = k.inbox /\ s.at = k.at
      /\ s.joined = [k.joined EXCEPT ![t] = @ \cup {e}]
  BY <1>2, <1>s DEF Shape
<1>4. /\ u.hand = s.hand /\ u.pending = s.pending /\ u.port = s.port /\ u.inbox = s.inbox
      /\ u.at = [s.at EXCEPT ![i] = "idle"] /\ u.joined = s.joined
  BY <1>3, <1>s DEF Shape, Finish, FreeMessage, Announce
<1>5. k.joined[t] \subseteq u.joined[t] /\ \A p \in Tasks \ {t} : u.joined[p] = k.joined[p]
  BY <1>2, <1>3, <1>4
<1>6. /\ u.hand = k.hand /\ u.pending = k.pending /\ u.port = k.port /\ u.inbox = k.inbox
      /\ u.at = [k.at EXCEPT ![i] = "idle"] /\ t = i[1] /\ k.at[i] = "serving"
  BY <1>1, <1>3, <1>4, <1>e
<1>7. Moves(k, u, t)
  BY <1>5, <1>6, EndMoves
<1> QED BY <1>1, <1>2, <1>7

LEMMA CompleteJoinMoves ==
  ASSUME IInv, NEW i \in Servers, CompleteJoin(i)
  PROVE  \E t \in Tasks : Moves(k, k', t)
<1>e. PICK e, t : e = Work(i) /\ t = i[1]
  OBVIOUS
<1>F. PICK F : F = {f \in Joins[e] : k.held[i][f].slot = 0}
  OBVIOUS
<1>s. PICK s, D, J : s = WithJoins(k, t, D, J) /\ D = k.done[t] \ Joins[e] /\ J = k.joined[t] \ Joins[e]
  OBVIOUS
<1>v. PICK v : v = AnswerAll(s, i, F)
  OBVIOUS
<1>1. k.at[i] = "serving" /\ Joins[e] # {} /\ k' = SecondPhase(v, i)
  <2>1. s = Opens(k, t, e)
    <3>1. WithDone(k, t, D).joined = k.joined
      BY DEF WithDone, IInv, Good, Typed, Shape
    <3> QED BY <1>s, <3>1 DEF WithJoins, WithJoined, WithDone, Opens
  <2> QED BY <1>e, <1>F, <1>v, <2>1 DEF CompleteJoin, AtEnd, Busy, Work
<1>2. Typed(k) /\ Placed(k) /\ e \in EntriesOf(i) /\ e \in Entries /\ i \in Instances /\ t \in Tasks
  BY <1>1, <1>e, Serving DEF Work
<1>3. Joins[e] \subseteq EntriesOf(i)
  BY <1>1, <1>2, <1>e, JoinFacts DEF EntriesOf
<1>4. /\ Typed(s) /\ Keeps(k, s, {"joined", "done"}) /\ s.joined[t] = J
      /\ \A p \in Tasks : p # t => s.joined[p] = k.joined[p]
  <2>1. D \in SUBSET Entries /\ J \in SUBSET Entries
    BY <1>2, <1>s DEF Typed
  <2>2. /\ Typed(WithJoins(k, t, D, J)) /\ Keeps(k, WithJoins(k, t, D, J), {"joined", "done"})
        /\ WithJoins(k, t, D, J).joined[t] = J
        /\ \A p \in Tasks : p # t => WithJoins(k, t, D, J).joined[p] = k.joined[p]
    BY <1>2, <2>1, JoinsSet
  <2> QED BY <1>s, <2>2
<1>5. Placed(s) /\ s.held = k.held /\ s.at = k.at
  <2>1. Keeps(k, s, {"at", "job", "count", "idle", "joined", "done"}) /\ s.at = k.at /\ s.held = k.held
    BY <1>4 DEF Keeps
  <2> QED BY <1>2, <2>1, NotMoved
<1>6. /\ Typed(v) /\ Keeps(s, v, {"held", "at"})
      /\ \A j \in Instances : v.at[j] = s.at[j] \/ (j \in Callers /\ s.at[j] = "calling" /\ v.at[j] = GoesOn(j))
  <2>1. F \in SUBSET EntriesOf(i) /\ \A f \in F : s.held[i][f].slot = 0
    BY <1>3, <1>5, <1>F
  <2> QED BY <1>4, <1>5, <1>v, <2>1, AnswersAll
<1>7. Keeps(v, k', {"job"})
  BY <1>1, <1>2, <1>6, SecondSet
<1>8. /\ k'.hand = k.hand /\ k'.pending = k.pending /\ k'.port = k.port /\ k'.inbox = k.inbox /\ k'.joined = s.joined
      /\ k'.at = v.at
  BY <1>4, <1>6, <1>7 DEF Keeps
<1>9. \A p \in Tasks : Still(k, k', p) /\ Steady(k, k', p)
  <2>1. \A j \in Servers : k'.at[j] \in Working <=> k.at[j] \in Working
    BY <1>5, <1>6, <1>8, Who DEF GoesOn, Working
  <2> QED BY <1>8, <2>1 DEF Still, Steady
<1>10. OpensSome(k, k', t)
  BY <1>2, <1>4, <1>8, <1>9, <1>s, SteadySame, StillSame DEF OpensSome
<1>11. Apart(k, k', t)
  BY <1>4, <1>8, <1>9 DEF Apart
<1>12. Moves(k, k', t)
  BY <1>8, <1>10, <1>11, ApartSame DEF Moves
<1> QED BY <1>2, <1>12

\* Steps that a station does not see.
LEMMA StartMoves ==
  ASSUME IInv, NEW i \in Workers, Start(i)
  PROVE  \E t \in Tasks : Moves(k, k', t)
<1>u. PICK u : u = Announce(k, i)
  OBVIOUS
<1>1. k.at[i] = "starting" /\ k' = u /\ Typed(k) /\ Shape(k) /\ i[1] \in Tasks /\ DOMAIN k.at = Instances /\ i \in Instances
  BY <1>u, Who DEF Start, IInv, Good, Typed
<1>2. /\ u.hand = k.hand /\ u.pending = k.pending /\ u.joined = k.joined /\ u.inbox = k.inbox /\ u.port = k.port
      /\ u.at = [k.at EXCEPT ![i] = "idle"]
  BY <1>1, <1>u DEF Shape, Announce
<1>3. \A j \in Servers : u.at[j] \in Working <=> k.at[j] \in Working
  BY <1>1, <1>2, Who DEF Working
<1>4. Unseen(k, u) /\ Gains(k, u)
  BY <1>1, <1>2, <1>3 DEF Unseen, Gains
<1> QED BY <1>1, <1>4, Coming

LEMMA GrowMoves ==
  ASSUME IInv, NEW t \in Tasks, Grow(t)
  PROVE  \E p \in Tasks : Moves(k, k', p)
<1>n. PICK n, m, i, u : n = k.count[t] + 1 /\ m = Main(t) /\ i = <<t, n>>
                        /\ u = [k EXCEPT !.count[t] = @ + 1, !.at[i] = "starting", !.at[m] = "growing"]
  OBVIOUS
<1>1. k.at[m] = "assigning" /\ k.count[t] < Limit[t] /\ k' = u
  BY <1>n DEF Grow, CanGrow
<1>2. Typed(k) /\ Agree(k) /\ t \in Multi /\ m \in Instances /\ Shape(k) /\ DOMAIN k.at = Instances
  BY <1>1, <1>n, Dispatching DEF Typed
<1>3. n \in 1..Limit[t] /\ n \in Nat /\ k.count[t] \in Nat
  <2>1. k.count[t] \in Nat /\ Limit[t] \in Nat
    BY <1>2, ServersAssumption DEF Typed
  <2> QED BY <1>1, <1>n, <2>1
<1>4. i \in Workers /\ i[1] = t /\ i[2] = n /\ i \in Instances /\ m \notin Servers
  BY <1>2, <1>3, <1>n, Who
<1>5. k.at[i] = "none"
  <2>1. WorkerOf(k, i) /\ i[2] > k.count[i[1]]
    BY <1>2, <1>3, <1>4, <1>n DEF Agree
  <2> QED BY <2>1 DEF WorkerOf
<1>6. /\ u.hand = k.hand /\ u.pending = k.pending /\ u.joined = k.joined /\ u.inbox = k.inbox /\ u.port = k.port
      /\ u.at = [[k.at EXCEPT ![i] = "starting"] EXCEPT ![m] = "growing"]
  BY <1>2, <1>n DEF Shape
<1>7. \A j \in Servers : u.at[j] \in Working <=> k.at[j] \in Working
  <2>1. u.at[i] = "starting" /\ \A j \in Servers : j # i => u.at[j] = k.at[j]
    BY <1>2, <1>4, <1>6, Who
  <2> QED BY <1>5, <2>1 DEF Working
<1>8. Unseen(k, u) /\ Gains(k, u)
  BY <1>6, <1>7 DEF Unseen, Gains
<1> QED BY <1>1, <1>2, <1>8, Coming

LEMMA TakeWorkMoves ==
  ASSUME IInv, NEW i \in Servers, TakeWork(i)
  PROVE  \E t \in Tasks : Moves(k, k', t)
<1>u. PICK q, u : q = k.inbox[i] /\ u = Serve([k EXCEPT !.inbox[i] = Tail(q)], i, Head(q))
  OBVIOUS
<1>1. k.at[i] = "idle" /\ q # <<>> /\ k' = u
  BY <1>u DEF TakeWork
<1>2. Typed(k) /\ Shape(k) /\ DOMAIN k.at = Instances /\ DOMAIN k.inbox = Instances /\ i[1] \in Tasks /\ i \in Instances
  BY Who DEF IInv, Good, Typed, Inboxes
<1>3. /\ u.hand = k.hand /\ u.pending = k.pending /\ u.joined = k.joined /\ u.port = k.port
      /\ u.inbox = [k.inbox EXCEPT ![i] = Tail(q)] /\ u.at = [k.at EXCEPT ![i] = "serving"]
  BY <1>2, <1>u DEF Shape, Serve
<1>4. u.at[i] = "serving" /\ \A j \in Servers : j # i => u.at[j] = k.at[j] /\ u.inbox[j] = k.inbox[j]
  BY <1>2, <1>3, Who
<1>5. \A p \in Tasks : Engaged(u, p) = Engaged(k, p)
  BY <1>1, <1>4, <1>u DEF Engaged, Working
<1>6. \A p \in Tasks : Same(k, u, p)
  BY <1>3, <1>5, StillSame DEF Same, Still
<1>7. Moves(k, u, i[1])
  BY <1>2, <1>3, <1>6 DEF Moves
<1> QED BY <1>1, <1>2, <1>7

NoneAside == \A t \in Multi : k.pending[t] = <<>>

\* The dispatcher gives what it has in hand to an idle worker.
LEMMA AssignMoves ==
  ASSUME IInv, NoneAside, NEW t \in Tasks, Assign(t)
  PROVE  Moves(k, k', t)
<1>i. PICK i, r, m, q, u : i = Head(k.idle[t]) /\ r = k.hand[t] /\ m = Main(t) /\ q = k.port[t]
                           /\ u = [k EXCEPT !.idle[t] = Tail(@), !.at[m] = "idle", !.hand[t] = Nothing, !.inbox[i] = Append(@, r)]
  OBVIOUS
<1>1. k.at[m] \in {"assigning", "growing"} /\ k.idle[t] # <<>> /\ k' = u
  BY <1>i DEF Assign
<1>2. /\ Typed(k) /\ Agree(k) /\ t \in Multi /\ DispatcherOf(k, t) /\ m \in Instances /\ m \notin Servers
      /\ k.idle[t] \in Seq(Workers) /\ r \in To(t) /\ r # Nothing
  BY <1>1, <1>i, Dispatching, Who
<1>3. i \in WorkersOf(t) /\ i \in Servers /\ i[1] = t /\ k.at[i] = "idle" /\ k.inbox[i] = <<>>
  <2>1. i \in Workers /\ i \in Range(k.idle[t]) /\ IsInjective(k.idle[t])
    BY <1>1, <1>2, <1>i, NoteTaken DEF DispatcherOf
  <2>2. i[1] = t
    BY <1>2, <2>1 DEF DispatcherOf
  <2>3. WorkerOf(k, i)
    BY <1>2, <2>1 DEF Agree
  <2> QED BY <2>1, <2>2, <2>3, Who DEF WorkerOf, WorkersOf
<1>4. /\ u.pending = k.pending /\ u.joined = k.joined /\ u.port = k.port
      /\ u.hand = [k.hand EXCEPT ![t] = Nothing] /\ u.inbox = [k.inbox EXCEPT ![i] = Append(@, r)]
      /\ u.at = [k.at EXCEPT ![m] = "idle"]
  BY <1>2, <1>i DEF Typed, Shape
<1>5. /\ u.hand[t] = Nothing /\ \A p \in Tasks \ {t} : u.hand[p] = k.hand[p]
      /\ u.inbox[i] # <<>> /\ \A j \in Servers \ {i} : u.inbox[j] = k.inbox[j]
      /\ \A j \in Servers : u.at[j] = k.at[j]
  <2>1. DOMAIN k.hand = Tasks /\ DOMAIN k.inbox = Instances /\ DOMAIN k.at = Instances /\ i \in Instances
    BY <1>2, <1>3, Who DEF Typed, Hands, Inboxes
  <2>2. u.inbox[i] = Append(<<>>, r)
    BY <1>3, <1>4, <2>1
  <2>3. u.inbox[i] # <<>>
    BY <2>2
  <2> QED BY <1>2, <1>4, <2>1, <2>3, Who
<1>6. /\ Cardinality(Engaged(k, t)) < Limit[t] /\ Cardinality(Engaged(u, t)) = Cardinality(Engaged(k, t)) + 1
  <2>1. Engaged(u, t) = Engaged(k, t) \cup {i} /\ i \notin Engaged(k, t)
    BY <1>3, <1>5 DEF Engaged, Working
  <2>2. Cardinality(Engaged(k, t) \cup {i}) = Cardinality(Engaged(k, t)) + 1 /\ Cardinality(Engaged(k, t)) \in Nat
    BY <2>1, CountEngaged
  <2>3. Engaged(k, t) \cup {i} \in SUBSET WorkersOf(t)
    BY <1>2, <1>3, OfMulti
  <2>4. Cardinality(Engaged(k, t) \cup {i}) <= Limit[t] /\ Limit[t] \in Nat
    BY <1>2, <2>3, CountWorkers, FS_Subset, ServersAssumption
  <2> QED BY <2>1, <2>2, <2>4
<1>7. Wait(k, t) = <<r>> \o q /\ Wait(u, t) = q /\ q \in Seq(To(t)) /\ <<r>> \in Seq(To(t))
  <2>1. k.pending[t] = <<>> /\ Optional(r) = <<r>>
    BY <1>2 DEF NoneAside, Optional
  <2>2. Wait(k, t) = <<r>> \o q /\ q \in Seq(To(t))
    BY <1>2, <1>i, <2>1, WaitOf
  <2>3. Wait(u, t) = (<<>> \o <<>>) \o q
    BY <1>4, <1>5, <1>i, <2>1 DEF Wait, Optional
  <2>4. <<>> \in Seq(To(t)) /\ <<r>> \in Seq(To(t))
    BY <1>2, EmptySeq
  <2>5. <<>> \o <<>> = <<>> /\ <<>> \o q = q
    BY <2>2, <2>4, ConcatEmptySeq
  <2> QED BY <2>2, <2>3, <2>4, <2>5
<1>8. CanBegin(k, t, 1) /\ Wait(u, t) = RemoveAt(Wait(k, t), 1)
  <2>1. 1 \in DOMAIN <<r>> /\ <<r>> # <<>> /\ <<r>>[1] = r /\ Tail(<<r>>) = <<>>
    OBVIOUS
  <2>2. RemoveAt(<<r>>, 1) = <<>>
    BY <1>7, <2>1, FirstAndRest
  <2>3. 1 \in DOMAIN (<<r>> \o q) /\ RemoveAt(<<r>> \o q, 1) = RemoveAt(<<r>>, 1) \o q
    BY <1>7, <2>1, FromTheFirst
  <2>4. <<>> \o q = q
    BY <1>7, ConcatEmptySeq
  <2>5. k.joined[t] = {}
    BY <1>2, NoJoins
  <2>6. \A j \in 1..1-1 : FALSE
    OBVIOUS
  <2> QED BY <1>7, <2>2, <2>3, <2>4, <2>5, <2>6 DEF CanBegin
<1>9. Begun(k, u, t, 1)
  BY <1>4, <1>6, <1>8 DEF Begun
<1>10. Apart(k, u, t)
  BY <1>3, <1>4, <1>5 DEF Apart, Still, Steady
<1>11. Moves(k, u, t)
  BY <1>4, <1>9, <1>10, ApartSame DEF Moves
<1> QED BY <1>1, <1>11

\* A task that is not a multi-server begins with a request.
Only(s, u, t) ==
  /\ u.joined = s.joined /\ u.inbox = s.inbox
  /\ \A p \in Tasks \ {t} : u.hand[p] = s.hand[p] /\ u.port[p] = s.port[p] /\ u.pending[p] = s.pending[p]

LEMMA SingleMoves ==
  ASSUME IInv, NEW t \in Tasks \ Multi, k.at[Main(t)] = "idle", NEW u, Only(k, u, t),
         u.at = [k.at EXCEPT ![Main(t)] = "serving"],
         NEW n \in Nat, t \in InOrder => CanBegin(k, t, n) /\ Wait(u, t) = RemoveAt(Wait(k, t), n)
  PROVE  Moves(k, u, t)
<1>1. Typed(k) /\ Main(t) \in Instances /\ Main(t)[1] = t /\ DOMAIN k.at = Instances /\ Limit[t] = 1 /\ Main(t) \in Servers
  BY Who, ServersAssumption DEF IInv, Good, Typed
<1>2. u.at[Main(t)] = "serving" /\ \A j \in Servers : j # Main(t) => u.at[j] = k.at[j]
  BY <1>1, Who
<1>3. Engaged(k, t) = {}
  BY <1>1, OfSingle DEF Working
<1>4. Engaged(u, t) = {Main(t)}
  <2>1. \A j \in Servers : j[1] = t => j = Main(t)
    BY Who
  <2> QED BY <1>1, <1>2, <2>1 DEF Engaged, Working
<1>5. Cardinality(Engaged(k, t)) = 0 /\ Cardinality(Engaged(u, t)) = 1
  BY <1>3, <1>4, FS_EmptySet, FS_Singleton
<1>6. t \in InOrder => Begun(k, u, t, n)
  BY <1>1, <1>5 DEF Begun, Only
<1>7. Apart(k, u, t)
  BY <1>2, Who DEF Apart, Still, Steady, Only
<1>8. \A p \in Multi : u.pending[p] = k.pending[p]
  BY Who DEF Only
<1> QED BY <1>6, <1>7, <1>8, ApartSame DEF Moves

LEMMA TakePendingMoves ==
  ASSUME IInv, NoneAside, NEW t \in Tasks, TakePending(t)
  PROVE  Moves(k, k', t)
<1>q. PICK a, b, m : a = k.pending[t] /\ b = k.port[t] /\ m = Main(t)
  OBVIOUS
<1>n. PICK n : n = CHOOSE l \in Available(t) : \A j \in Available(t) : l <= j
  OBVIOUS
<1>u. PICK u : u = Accept([k EXCEPT !.pending[t] = RemoveAt(@, n)], t, a[n])
  OBVIOUS
<1>1. k.at[m] = "idle" /\ Available(t) # {} /\ k' = u
  BY <1>q, <1>n, <1>u DEF TakePending
<1>2. /\ Typed(k) /\ Agree(k) /\ Shape(k) /\ a \in Seq(To(t)) /\ b \in Seq(To(t)) /\ DOMAIN k.pending = Tasks
      /\ DOMAIN a = 1..Len(a) /\ Len(a) \in Nat
  BY <1>q, Idling, LenProperties DEF Typed
<1>3. t \notin Multi
  BY <1>1, <1>q DEF NoneAside, Available
<1>4. n \in Available(t) /\ \A j \in Available(t) : n <= j
  <2>1. Available(t) \in SUBSET Nat
    BY <1>2, <1>q DEF Available
  <2> QED BY <1>1, <1>n, <2>1, LeastOf
<1>5. n \in DOMAIN a /\ n \in Nat /\ a[n].entry \notin k.joined[t] /\ \A j \in 1..n-1 : a[j].entry \in k.joined[t]
  <2>1. n \in DOMAIN a /\ a[n].entry \notin k.joined[t] /\ n \in Nat
    BY <1>2, <1>4, <1>q DEF Available
  <2>2. ASSUME NEW j \in 1..n-1 PROVE a[j].entry \in k.joined[t]
    <3>1. j \in DOMAIN a /\ ~(n <= j)
      BY <1>2, <2>1
    <3> QED BY <1>4, <1>q, <3>1 DEF Available
  <2> QED BY <2>1, <2>2
<1>6. u = Serve([k EXCEPT !.pending[t] = RemoveAt(@, n)], m, a[n])
  BY <1>3, <1>q, <1>u DEF Accept
<1>7. /\ u.hand = k.hand /\ u.joined = k.joined /\ u.inbox = k.inbox /\ u.port = k.port
      /\ u.pending = [k.pending EXCEPT ![t] = RemoveAt(@, n)] /\ u.at = [k.at EXCEPT ![m] = "serving"]
  BY <1>2, <1>6 DEF Shape, Serve
<1>8. u.pending[t] = RemoveAt(a, n) /\ \A p \in Tasks \ {t} : u.pending[p] = k.pending[p]
  BY <1>2, <1>7, <1>q
<1>9. Only(k, u, t)
  BY <1>7, <1>8 DEF Only
<1>10. Wait(k, t) = a \o b /\ Wait(u, t) = RemoveAt(a, n) \o b
  <2>1. k.hand[t] = Nothing
    BY <1>2, <1>3 DEF Agree, SingleOf
  <2>2. RemoveAt(a, n) \in Seq(To(t)) /\ <<>> \o RemoveAt(a, n) = RemoveAt(a, n)
    BY <1>2, <1>5, RemoveDrops, ConcatEmptySeq
  <2> QED BY <1>2, <1>7, <1>8, <1>q, <2>1, <2>2, WaitOf DEF Wait, Optional
<1>11. n \in DOMAIN (a \o b) /\ RemoveAt(a \o b, n) = RemoveAt(a, n) \o b /\ \A j \in 1..n : (a \o b)[j] = a[j]
  BY <1>2, <1>5, FromTheFirst
<1>12. CanBegin(k, t, n)
  <2>1. (a \o b)[n] = a[n] /\ \A j \in 1..n-1 : (a \o b)[j] = a[j]
    <3>1. n \in 1..n /\ \A j \in 1..n-1 : j \in 1..n
      BY <1>2, <1>5
    <3> QED BY <1>11, <3>1
  <2> QED BY <1>5, <1>10, <1>11, <2>1 DEF CanBegin
<1>13. Wait(u, t) = RemoveAt(Wait(k, t), n)
  BY <1>10, <1>11
<1>14. Moves(k, u, t)
  BY <1>1, <1>3, <1>5, <1>7, <1>9, <1>12, <1>13, <1>q, SingleMoves
<1> QED BY <1>1, <1>14

\* A request that a task takes from its port is put aside, handed over or served.
LEMMA ReceiveMoves ==
  ASSUME IInv, NoneAside, NEW t \in Tasks, Receive(t)
  PROVE  Moves(k, k', t)
<1>q. PICK a, b, m, n : a = k.pending[t] /\ b = k.port[t] /\ m = Main(t) /\ n = Next1(b, t)
  OBVIOUS
<1>r. PICK r, w : r = b[n] /\ w = RemoveAt(b, n)
  OBVIOUS
<1>s. PICK s : s = [k EXCEPT !.port[t] = w]
  OBVIOUS
<1>1. k.at[m] = "idle" /\ Available(t) = {} /\ b # <<>> /\ k' = IF r.entry \in k.joined[t] THEN PutAside(s, t, r) ELSE Accept(s, t, r)
  BY <1>q, <1>r, <1>s DEF Receive
<1>2. /\ Typed(k) /\ Agree(k) /\ Shape(k) /\ a \in Seq(To(t)) /\ b \in Seq(To(t))
      /\ DOMAIN k.pending = Tasks /\ DOMAIN k.port = Tasks /\ DOMAIN k.hand = Tasks /\ DOMAIN k.at = Instances
      /\ DOMAIN a = 1..Len(a) /\ Len(a) \in Nat /\ m \in Instances
  BY <1>q, Idling, LenProperties, Who DEF Typed, Hands
<1>3. t \in InOrder => n = 1
  <2>1. t \in InOrder => t \notin world.hol
    BY DEF InOrder, IInv
  <2> QED BY <1>q, <2>1 DEF Next1
<1>4. t \in InOrder => r = b[1] /\ w = RemoveAt(b, 1) /\ <<r>> \o w = b /\ r \in To(t) /\ w \in Seq(To(t))
  <2>1. SUFFICES ASSUME t \in InOrder PROVE r = b[1] /\ w = RemoveAt(b, 1) /\ <<r>> \o w = b /\ r \in To(t) /\ w \in Seq(To(t))
    OBVIOUS
  <2>2. r = b[1] /\ w = RemoveAt(b, 1)
    BY <1>3, <1>r, <2>1
  <2>3. <<b[1]>> \o RemoveAt(b, 1) = b /\ 1 \in DOMAIN b
    BY <1>1, <1>2, FirstAndRest
  <2>4. RemoveAt(b, 1) \in Seq(To(t)) /\ b[1] \in To(t)
    BY <1>2, <2>3, RemoveDrops
  <2> QED BY <2>2, <2>3, <2>4
<1>5. CASE t \in Multi
  <2>u. PICK u : u = [s EXCEPT !.hand[t] = r, !.at[m] = "assigning"]
    OBVIOUS
  <2>1. k' = u
    <3>1. k.joined[t] = {}
      BY <1>2, <1>5, NoJoins
    <3> QED BY <1>1, <1>5, <1>q, <2>u, <3>1 DEF Accept
  <2>2. /\ u.pending = k.pending /\ u.joined = k.joined /\ u.inbox = k.inbox
        /\ u.port = [k.port EXCEPT ![t] = w] /\ u.hand = [k.hand EXCEPT ![t] = r]
        /\ u.at = [k.at EXCEPT ![m] = "assigning"]
    BY <1>2, <1>s, <2>u DEF Shape
  <2>3. /\ u.port[t] = w /\ u.hand[t] = r /\ \A p \in Tasks \ {t} : u.port[p] = k.port[p] /\ u.hand[p] = k.hand[p]
        /\ \A j \in Servers : u.at[j] = k.at[j]
    BY <1>2, <1>5, <1>q, <2>2, Who
  <2>4. \A p \in Tasks : Steady(k, u, p)
    BY <2>2, <2>3 DEF Steady
  <2>5. Apart(k, u, t)
    BY <2>2, <2>3, <2>4 DEF Apart, Still
  <2>6. t \in InOrder => Same(k, u, t)
    <3>1. SUFFICES ASSUME t \in InOrder PROVE Wait(u, t) = Wait(k, t)
      BY <2>2, <2>4, SteadySame DEF Same
    <3>2. r # Nothing /\ k.hand[t] = Nothing /\ a = <<>>
      <4>1. DispatcherOf(k, t)
        BY <1>2, <1>5 DEF Agree
      <4>2. k.hand[t] = Nothing
        BY <1>1, <1>q, <4>1 DEF DispatcherOf
      <4>3. r # Nothing
        BY <1>4, <3>1, RequestsTo
      <4> QED BY <1>5, <1>q, <4>2, <4>3 DEF NoneAside
    <3>3. Wait(k, t) = a \o b
      BY <1>2, <1>q, <3>2, WaitOf
    <3>4. a \o b = b
      BY <1>2, <3>2, ConcatEmptySeq
    <3>5. Wait(u, t) = (<<r>> \o <<>>) \o w
      BY <1>q, <2>2, <2>3, <3>2 DEF Wait, Optional
    <3>6. <<r>> \o <<>> = <<r>> /\ <<r>> \o w = b
      BY <1>4, <3>1, ConcatEmptySeq
    <3> QED BY <3>3, <3>4, <3>5, <3>6
  <2>7. \A p \in Multi : u.pending[p] = k.pending[p]
    BY <2>2
  <2> QED BY <2>1, <2>5, <2>6, <2>7, ApartSame DEF Moves
<1>6. CASE t \notin Multi /\ r.entry \in k.joined[t]
  <2>u. PICK u, c : u = [s EXCEPT !.pending[t] = Append(@, r)] /\ c = Append(a, r)
    OBVIOUS
  <2>1. k' = u
    BY <1>1, <1>6, <2>u DEF PutAside
  <2>2. /\ u.hand = k.hand /\ u.joined = k.joined /\ u.inbox = k.inbox /\ u.at = k.at
        /\ u.port = [k.port EXCEPT ![t] = w] /\ u.pending = [k.pending EXCEPT ![t] = c]
    BY <1>2, <1>q, <1>s, <2>u DEF Shape
  <2>3. /\ u.port[t] = w /\ u.pending[t] = c
        /\ \A p \in Tasks \ {t} : u.port[p] = k.port[p] /\ u.pending[p] = k.pending[p]
    BY <1>2, <2>2
  <2>4. \A p \in Tasks : Steady(k, u, p)
    BY <2>2 DEF Steady
  <2>5. Apart(k, u, t)
    BY <2>2, <2>3, <2>4 DEF Apart, Still
  <2>6. t \in InOrder => Same(k, u, t)
    <3>1. SUFFICES ASSUME t \in InOrder PROVE Wait(u, t) = Wait(k, t)
      BY <2>2, <2>4, SteadySame DEF Same
    <3>2. k.hand[t] = Nothing
      BY <1>2, <1>6 DEF Agree, SingleOf
    <3>3. Wait(k, t) = a \o b
      BY <1>2, <1>q, <3>2, WaitOf
    <3>4. c \in Seq(To(t)) /\ c = a \o <<r>> /\ <<r>> \in Seq(To(t))
      BY <1>2, <1>4, <2>u, <3>1, AppendIsConcat, AppendProperties
    <3>5. Wait(u, t) = (<<>> \o c) \o w
      BY <1>q, <2>2, <2>3, <3>2 DEF Wait, Optional
    <3>6. <<>> \o c = c
      BY <3>4, ConcatEmptySeq
    <3>7. (a \o <<r>>) \o w = a \o (<<r>> \o w)
      BY <1>2, <1>4, <3>1, <3>4, ConcatAssociative
    <3> QED BY <1>4, <3>1, <3>3, <3>4, <3>5, <3>6, <3>7
  <2>7. \A p \in Multi : u.pending[p] = k.pending[p]
    BY <1>6, <2>3, Who
  <2> QED BY <2>1, <2>5, <2>6, <2>7, ApartSame DEF Moves
<1>7. CASE t \notin Multi /\ r.entry \notin k.joined[t]
  <2>u. PICK u, l : u = Serve(s, m, r) /\ l = Len(a) + 1
    OBVIOUS
  <2>1. k' = u
    BY <1>1, <1>7, <1>q, <2>u DEF Accept
  <2>2. /\ u.hand = k.hand /\ u.joined = k.joined /\ u.inbox = k.inbox /\ u.pending = k.pending
        /\ u.port = [k.port EXCEPT ![t] = w] /\ u.at = [k.at EXCEPT ![m] = "serving"]
    BY <1>2, <1>s, <2>u DEF Shape, Serve
  <2>3. u.port[t] = w /\ \A p \in Tasks \ {t} : u.port[p] = k.port[p]
    BY <1>2, <2>2
  <2>4. Only(k, u, t)
    BY <2>2, <2>3 DEF Only
  <2>5. t \in InOrder => CanBegin(k, t, l) /\ Wait(u, t) = RemoveAt(Wait(k, t), l)
    <3>1. SUFFICES ASSUME t \in InOrder PROVE CanBegin(k, t, l) /\ Wait(u, t) = RemoveAt(Wait(k, t), l)
      OBVIOUS
    <3>2. k.hand[t] = Nothing
      BY <1>2, <1>7 DEF Agree, SingleOf
    <3>3. Wait(k, t) = a \o b
      BY <1>2, <1>q, <3>2, WaitOf
    <3>4. <<>> \o a = a
      BY <1>2, ConcatEmptySeq
    <3>5. Wait(u, t) = a \o w
      BY <1>q, <2>2, <2>3, <3>2, <3>4 DEF Wait, Optional
    <3>6. /\ l \in DOMAIN (a \o b) /\ (a \o b)[l] = b[1] /\ \A j \in 1..Len(a) : (a \o b)[j] = a[j]
          /\ RemoveAt(a \o b, l) = a \o RemoveAt(b, 1)
      BY <1>1, <1>2, <2>u, FirstOfSecond
    <3>7. \A j \in 1..Len(a) : a[j].entry \in k.joined[t]
      BY <1>1, <1>2, <1>q DEF Available
    <3>8. l - 1 = Len(a)
      BY <1>2, <2>u
    <3>9. CanBegin(k, t, l)
      BY <1>4, <1>7, <3>1, <3>3, <3>6, <3>7, <3>8 DEF CanBegin
    <3> QED BY <1>4, <3>1, <3>3, <3>5, <3>6, <3>9
  <2>6. l \in Nat
    BY <1>2, <2>u
  <2>7. Moves(k, u, t)
    BY <1>1, <1>7, <1>q, <2>2, <2>4, <2>5, <2>6, SingleMoves
  <2> QED BY <2>1, <2>7
<1> QED BY <1>5, <1>6, <1>7

-----------------------------------------------------------------------------
\* Every step is a step of one station, or of none.

LEMMA StepMoves ==
  ASSUME IInv, NoneAside, Next
  PROVE  \E t \in Tasks : Moves(k, k', t)
<1>1. ASSUME NEW i \in Customers, Ask(i) PROVE \E t \in Tasks : Moves(k, k', t)
  BY <1>1, AskMoves
<1>2. ASSUME NEW t \in Tasks, Main1(t) PROVE \E p \in Tasks : Moves(k, k', p)
  <2>1. CASE TakePending(t)
    BY <2>1, TakePendingMoves
  <2>2. CASE Receive(t)
    BY <2>2, ReceiveMoves
  <2>3. CASE Assign(t)
    BY <2>3, AssignMoves
  <2>4. CASE Grow(t)
    BY <2>4, GrowMoves
  <2> QED BY <1>2, <2>1, <2>2, <2>3, <2>4 DEF Main1
<1>3. ASSUME NEW i \in Workers, Start(i) PROVE \E t \in Tasks : Moves(k, k', t)
  BY <1>3, StartMoves
<1>4. ASSUME NEW i \in Servers, Cycle(i) PROVE \E t \in Tasks : Moves(k, k', t)
  <2>1. CASE TakeWork(i)
    BY <2>1, TakeWorkMoves
  <2>2. CASE MakeCall(i)
    BY <2>2, MakeCallMoves
  <2>3. CASE Reply(i)
    BY <2>3, ReplyMoves
  <2>4. CASE AwaitJoin(i)
    BY <2>4, AwaitJoinMoves
  <2>5. CASE CompleteJoin(i)
    BY <2>5, CompleteJoinMoves
  <2>6. CASE EndCycle(i)
    BY <2>6, EndCycleMoves
  <2> QED BY <1>4, <2>1, <2>2, <2>3, <2>4, <2>5, <2>6 DEF Cycle
<1> QED BY <1>1, <1>2, <1>3, <1>4 DEF Next

LEMMA StationInit ==
  ASSUME Init
  PROVE  NoneAside /\ Abstract!Init
<1>1. \A t \in Tasks : /\ k.port[t] = <<>> /\ k.pending[t] = <<>> /\ k.hand[t] = Nothing /\ k.joined[t] = {}
  BY DEF Init
<1>2. \A i \in Servers : k.at[i] \in {"none", "idle"} /\ k.inbox[i] = <<>>
  BY Who DEF Init
<1>3. InOrder \subseteq Tasks
  BY DEF InOrder
<1>4. ASSUME NEW t \in InOrder PROVE WaitingAt(t) = <<>> /\ BusyAt(t) = 0
  <2>1. WaitingAt(t) = (<<>> \o <<>>) \o <<>>
    BY <1>1, <1>3 DEF WaitingAt
  <2>2. {i \in Servers : i[1] = t /\ (k.at[i] \in {"serving", "calling"} \/ k.inbox[i] # <<>>)} = {}
    BY <1>2
  <2>3. BusyAt(t) = 0
    BY <2>2, FS_EmptySet DEF BusyAt
  <2>4. <<>> \in Seq({}) /\ <<>> \o <<>> = <<>>
    BY EmptySeq, ConcatEmptySeq
  <2> QED BY <2>1, <2>3, <2>4
<1>5. NoneAside
  BY <1>1, Who DEF NoneAside
<1>6. Abstract!Init
  BY <1>1, <1>3, <1>4 DEF Abstract!Init
<1> QED BY <1>5, <1>6

\* Every task that does not serve by priority is a station, whatever the model: its
\* requests start in the order in which they came, but for those of busy entries,
\* and at most Limit of them are served at a time (StationsServe without its
\* fairness; instance.cc:455-505, 1142-1189).
THEOREM InOrderServed == Spec => Abstract!Safe
<1>1. Init => NoneAside /\ Abstract!Init
  BY StationInit
<1>2. IInv /\ NoneAside /\ [Next]_vars => NoneAside' /\ [Abstract!Next]_(Abstract!vars)
  <2>1. ASSUME IInv, NoneAside, Next PROVE NoneAside' /\ [Abstract!Next]_(Abstract!vars)
    <3>1. PICK t \in Tasks : Moves(k, k', t)
      BY <2>1, StepMoves
    <3>2. NoneAside'
      BY <2>1, <3>1 DEF NoneAside, Moves
    <3> QED BY <3>1, <3>2, StationStep
  <2>2. ASSUME NoneAside, UNCHANGED vars PROVE NoneAside' /\ [Abstract!Next]_(Abstract!vars)
    <3>1. k' = k
      BY <2>2 DEF vars
    <3>2. NoneAside'
      BY <2>2, <3>1 DEF NoneAside
    <3>3. UNCHANGED Abstract!vars
      BY <3>1 DEF Abstract!vars, WaitingAt, BusyAt
    <3> QED BY <3>2, <3>3
  <2> QED BY <2>1, <2>2
<1> QED BY <1>1, <1>2, AlwaysGood, PTL DEF Spec, Abstract!Safe
=============================================================================
