---------------------------- MODULE RWLockProofs ----------------------------
(***************************************************************************)
(* For every number of clients and tokens the read-write lock excludes,     *)
(* keeps its books, and implements the abstract lock.                      *)
(*                                                                         *)
(* Mutual exclusion is not inductive: it holds because of what the server  *)
(* counts.  The first strengthening, IInv, says which clients the counters *)
(* stand for: a reader is active from the moment the server forwards its   *)
(* request to the moment the server receives its unlock, wherever its      *)
(* messages are in between, and so is a writer.  The second, Agreed, says  *)
(* the counts exactly, and which messages each token has in which state.   *)
(***************************************************************************)
EXTENDS RWLock, FiniteSetTheorems, SequenceTheorems, TLAPS

\* Client c has a message on port p of f.
On(f, p, c) == \E i \in DOMAIN f[p] : f[p][i] = c

\* f is a state of the ports with at most one message of each client.
Tidy(f) ==
  /\ f \in [Ports -> Seq(Clients)]
  /\ \A p, q \in Ports : \A i \in DOMAIN f[p], j \in DOMAIN f[q] :
       f[p][i] = f[q][j] => p = q /\ i = j

-----------------------------------------------------------------------------
\* What the port operations do to the messages of each client.

\* A message put on a port is there besides what was there before.
LEMMA PutTidy ==
  ASSUME NEW f, Tidy(f), NEW p \in Ports, NEW c \in Clients,
         \A q \in Ports : ~On(f, q, c)
  PROVE  /\ Tidy(Put(f, p, c))
         /\ \A q \in Ports : \A d : On(Put(f, p, c), q, d) <=>
                                      On(f, q, d) \/ (q = p /\ d = c)
         /\ Len(Put(f, p, c)[p]) = Len(f[p]) + 1
         /\ \A q \in Ports \ {p} : Put(f, p, c)[q] = f[q]
<1> DEFINE g == Put(f, p, c)
<1>1. f \in [Ports -> Seq(Clients)] BY DEF Tidy
<1>2. f[p] \in Seq(Clients) BY <1>1
<1>3. /\ Append(f[p], c) \in Seq(Clients)
      /\ Len(Append(f[p], c)) = Len(f[p]) + 1
      /\ \A i \in 1..Len(f[p]) : Append(f[p], c)[i] = f[p][i]
      /\ Append(f[p], c)[Len(f[p]) + 1] = c
  BY <1>2, AppendProperties
<1>4. g \in [Ports -> Seq(Clients)] /\ g[p] = Append(f[p], c)
      /\ \A q \in Ports \ {p} : g[q] = f[q]
  BY <1>1, <1>3 DEF Put
<1>5. /\ Len(f[p]) \in Nat /\ DOMAIN f[p] = 1..Len(f[p])
      /\ DOMAIN g[p] = 1..(Len(f[p]) + 1)
  BY <1>2, <1>3, <1>4, LenProperties
<1>6. ASSUME NEW q \in Ports, NEW d
      PROVE On(g, q, d) <=> On(f, q, d) \/ (q = p /\ d = c)
  <2>1. CASE q = p
    <3>1. ASSUME On(g, p, d) PROVE On(f, p, d) \/ d = c
      <4>1. PICK i \in DOMAIN g[p] : g[p][i] = d BY <3>1 DEF On
      <4>2. CASE i = Len(f[p]) + 1 BY <4>1, <4>2, <1>3, <1>4
      <4>3. CASE i # Len(f[p]) + 1
        <5>1. i \in 1..Len(f[p]) BY <4>1, <4>3, <1>5
        <5>2. f[p][i] = d BY <5>1, <4>1, <1>3, <1>4
        <5> QED BY <5>1, <5>2, <1>5 DEF On
      <4> QED BY <4>2, <4>3
    <3>2. ASSUME On(f, p, d) PROVE On(g, p, d)
      <4>1. PICK i \in DOMAIN f[p] : f[p][i] = d BY <3>2 DEF On
      <4>2. i \in DOMAIN g[p] /\ g[p][i] = d BY <4>1, <1>3, <1>4, <1>5
      <4> QED BY <4>2 DEF On
    <3>3. On(g, p, c)
      <4>1. Len(f[p]) + 1 \in DOMAIN g[p] /\ g[p][Len(f[p]) + 1] = c
        BY <1>3, <1>4, <1>5
      <4> QED BY <4>1 DEF On
    <3> QED BY <2>1, <3>1, <3>2, <3>3
  <2>2. CASE q # p BY <2>2, <1>4 DEF On
  <2> QED BY <2>1, <2>2
<1>7. ASSUME NEW q \in Ports, NEW r \in Ports, NEW i \in DOMAIN g[q],
             NEW j \in DOMAIN g[r], g[q][i] = g[r][j]
      PROVE  q = r /\ i = j
  <2> DEFINE Old(x, k) == k \in DOMAIN f[x] /\ g[x][k] = f[x][k]
             New(x, k) == x = p /\ k = Len(f[p]) + 1 /\ g[x][k] = c
  <2>1. ASSUME NEW x \in Ports, NEW k \in DOMAIN g[x] PROVE Old(x, k) \/ New(x, k)
    <3>1. CASE x = p /\ k = Len(f[p]) + 1 BY <3>1, <1>3, <1>4
    <3>2. CASE x = p /\ k # Len(f[p]) + 1
      <4>1. k \in 1..Len(f[p]) BY <2>1, <3>2, <1>5
      <4> QED BY <4>1, <3>2, <1>3, <1>4, <1>5
    <3>3. CASE x # p BY <2>1, <3>3, <1>4
    <3> QED BY <3>1, <3>2, <3>3
  <2>2. ASSUME NEW x \in Ports, NEW k, Old(x, k) PROVE g[x][k] # c
    BY <2>2 DEF On
  <2>3. CASE Old(q, i) /\ Old(r, j)
    <3>1. f[q][i] = f[r][j] BY <2>3, <1>7
    <3> QED BY <3>1, <2>3 DEF Tidy
  <2>4. CASE New(q, i) /\ New(r, j) BY <2>4
  <2>5. CASE (Old(q, i) /\ New(r, j)) \/ (New(q, i) /\ Old(r, j))
    BY <2>5, <2>2, <1>7
  <2> HIDE DEF Old, New
  <2> QED BY <2>1, <2>3, <2>4, <2>5
<1> HIDE DEF g
<1>8. Tidy(g) BY <1>4, <1>7 DEF Tidy
<1> QED BY <1>3, <1>4, <1>6, <1>8 DEF g

\* The client whose message leaves a port has a message on no port.
LEMMA DropTidy ==
  ASSUME NEW f, Tidy(f), NEW p \in Ports, f[p] # <<>>
  PROVE  /\ Tidy(Drop(f, p))
         /\ Head(f[p]) \in Clients /\ On(f, p, Head(f[p]))
         /\ \A q \in Ports : \A d : On(Drop(f, p), q, d) <=>
                                      On(f, q, d) /\ d # Head(f[p])
         /\ Len(Drop(f, p)[p]) = Len(f[p]) - 1 /\ Len(f[p]) \in Nat \ {0}
         /\ \A q \in Ports \ {p} : Drop(f, p)[q] = f[q]
<1> DEFINE g == Drop(f, p)
           h == Head(f[p])
<1>1. f \in [Ports -> Seq(Clients)] /\ f[p] \in Seq(Clients) BY DEF Tidy
<1>2. /\ h \in Clients /\ h = f[p][1]
      /\ Tail(f[p]) \in Seq(Clients) /\ Len(Tail(f[p])) = Len(f[p]) - 1
      /\ \A i \in 1..Len(Tail(f[p])) : Tail(f[p])[i] = f[p][i + 1]
  BY <1>1, HeadTailProperties
<1>3. g \in [Ports -> Seq(Clients)] /\ g[p] = Tail(f[p])
      /\ \A q \in Ports \ {p} : g[q] = f[q]
  BY <1>1, <1>2 DEF Drop
<1>4. /\ Len(f[p]) \in Nat \ {0} /\ DOMAIN f[p] = 1..Len(f[p])
      /\ DOMAIN g[p] = 1..(Len(f[p]) - 1)
  BY <1>1, <1>2, <1>3, LenProperties, EmptySeq
<1>5. On(f, p, h) BY <1>2, <1>4 DEF On
<1>6. ASSUME NEW q \in Ports, NEW j \in DOMAIN f[q], f[q][j] = h
      PROVE q = p /\ j = 1
  <2>1. 1 \in DOMAIN f[p] BY <1>4
  <2> QED BY <1>2, <1>6, <2>1 DEF Tidy
<1>7. ASSUME NEW q \in Ports, NEW d PROVE On(g, q, d) <=> On(f, q, d) /\ d # h
  <2>1. CASE q = p
    <3>1. ASSUME On(g, p, d) PROVE On(f, p, d) /\ d # h
      <4>1. PICK i \in DOMAIN g[p] : g[p][i] = d BY <3>1 DEF On
      <4>2. i + 1 \in DOMAIN f[p] /\ f[p][i + 1] = d /\ i + 1 # 1
        BY <4>1, <1>2, <1>3, <1>4
      <4> QED BY <4>2, <1>6 DEF On
    <3>2. ASSUME On(f, p, d), d # h PROVE On(g, p, d)
      <4>1. PICK i \in DOMAIN f[p] : f[p][i] = d BY <3>2 DEF On
      <4>2. i # 1 BY <4>1, <3>2, <1>2
      <4>3. i - 1 \in 1..(Len(f[p]) - 1) /\ (i - 1) + 1 = i
        BY <4>1, <4>2, <1>4
      <4>4. i - 1 \in DOMAIN g[p] /\ g[p][i - 1] = d
        BY <4>1, <4>3, <1>2, <1>3, <1>4
      <4> QED BY <4>4 DEF On
    <3> QED BY <2>1, <3>1, <3>2
  <2>2. CASE q # p
    <3>1. g[q] = f[q] BY <2>2, <1>3
    <3>2. ~On(f, q, h) BY <2>2, <1>6 DEF On
    <3>3. On(g, q, d) <=> On(f, q, d) BY <3>1 DEF On
    <3> QED BY <3>2, <3>3
  <2> QED BY <2>1, <2>2
<1>8. ASSUME NEW q \in Ports, NEW r \in Ports, NEW i \in DOMAIN g[q],
             NEW j \in DOMAIN g[r], g[q][i] = g[r][j]
      PROVE  q = r /\ i = j
  <2> DEFINE At(x, k) == IF x = p THEN k + 1 ELSE k
  <2>1. ASSUME NEW x \in Ports, NEW k \in DOMAIN g[x]
        PROVE At(x, k) \in DOMAIN f[x] /\ f[x][At(x, k)] = g[x][k]
    <3>1. CASE x = p
      <4>1. k \in 1..(Len(f[p]) - 1) BY <2>1, <3>1, <1>4
      <4>2. k + 1 \in 1..Len(f[p]) BY <4>1, <1>4
      <4>3. g[p][k] = f[p][k + 1] BY <4>1, <1>2, <1>3
      <4> QED BY <3>1, <4>2, <4>3, <1>4
    <3>2. CASE x # p BY <2>1, <3>2, <1>3
    <3> QED BY <3>1, <3>2
  <2>2. q = r /\ At(q, i) = At(r, j)
    <3>1. /\ At(q, i) \in DOMAIN f[q] /\ f[q][At(q, i)] = g[q][i]
          /\ At(r, j) \in DOMAIN f[r] /\ f[r][At(r, j)] = g[r][j]
      BY <2>1
    <3> HIDE DEF At, g
    <3> QED BY <3>1, <1>8 DEF Tidy
  <2>3. CASE q = p BY <2>2, <2>3, <1>4
  <2>4. CASE q # p BY <2>2, <2>4
  <2> QED BY <2>2, <2>3, <2>4
<1> HIDE DEF g
<1>9. Tidy(g) BY <1>3, <1>8 DEF Tidy
<1> QED BY <1>2, <1>3, <1>4, <1>5, <1>7, <1>9 DEF g

\* A message moved to the end of another port is on no port but that one.
LEMMA MoveTidy ==
  ASSUME NEW f, Tidy(f), NEW p \in Ports, f[p] # <<>>, NEW q \in Ports, p # q
  PROVE  LET g == Put(Drop(f, p), q, Head(f[p])) IN
         /\ Tidy(g)
         /\ Head(f[p]) \in Clients /\ On(f, p, Head(f[p]))
         /\ \A r \in Ports : \A d : On(g, r, d) <=>
              IF d = Head(f[p]) THEN r = q ELSE On(f, r, d)
         /\ Len(g[p]) = Len(f[p]) - 1 /\ Len(f[p]) \in Nat \ {0}
         /\ Len(g[q]) = Len(f[q]) + 1
         /\ \A r \in Ports \ {p, q} : g[r] = f[r]
<1> DEFINE g == Drop(f, p)
           h == Head(f[p])
<1>1. /\ Tidy(g) /\ h \in Clients /\ On(f, p, h)
      /\ \A r \in Ports : \A d : On(g, r, d) <=> On(f, r, d) /\ d # h
      /\ Len(g[p]) = Len(f[p]) - 1 /\ Len(f[p]) \in Nat \ {0}
      /\ \A r \in Ports \ {p} : g[r] = f[r]
  BY DropTidy
<1> HIDE DEF g
<1>2. \A r \in Ports : ~On(g, r, h) BY <1>1
<1> HIDE DEF h
<1>3. /\ Tidy(Put(g, q, h))
      /\ \A r \in Ports : \A d : On(Put(g, q, h), r, d) <=>
                                   On(g, r, d) \/ (r = q /\ d = h)
      /\ Len(Put(g, q, h)[q]) = Len(g[q]) + 1
      /\ \A r \in Ports \ {q} : Put(g, q, h)[r] = g[r]
  BY <1>1, <1>2, PutTidy
<1> QED BY <1>1, <1>2, <1>3 DEF g, h

\* The messages q[1..n] moved from readerQ to the end of reader at once.
Admitted(f, n) ==
  [f EXCEPT !["reader"] = @ \o SubSeq(f["readerQ"], 1, n),
            !["readerQ"] = SubSeq(f["readerQ"], n + 1, Len(f["readerQ"]))]

LEMMA AdmittedTidy ==
  ASSUME NEW f, Tidy(f), NEW n \in 1..Len(f["readerQ"])
  PROVE  LET g == Admitted(f, n)
             moved == {f["readerQ"][i] : i \in 1..n} IN
         /\ Tidy(g)
         /\ IsFiniteSet(moved) /\ Cardinality(moved) <= n
         /\ \A d : On(g, "readerQ", d) <=> On(f, "readerQ", d) /\ d \notin moved
         /\ \A d : On(g, "reader", d) <=> On(f, "reader", d) \/ d \in moved
         /\ \A d \in moved : On(f, "readerQ", d)
         /\ \A r \in Ports \ {"reader", "readerQ"} : g[r] = f[r]
<1> DEFINE q == f["readerQ"]
           b == f["reader"]
           L == Len(q)
           K == Len(b)
           g == Admitted(f, n)
           moved == {q[i] : i \in 1..n}
<1>1. /\ f \in [Ports -> Seq(Clients)] /\ "reader" \in Ports /\ "readerQ" \in Ports
      /\ q \in Seq(Clients) /\ b \in Seq(Clients)
  BY DEF Tidy, Ports, TaskPorts
<1>2. L \in Nat /\ K \in Nat /\ DOMAIN q = 1..L /\ DOMAIN b = 1..K /\ n \in 1..L
  BY <1>1, LenProperties
<1>3. \A i \in 1..L : q[i] \in Clients BY <1>1, <1>2
<1>4. /\ SubSeq(q, 1, n) \in Seq(Clients) /\ Len(SubSeq(q, 1, n)) = n
      /\ \A i \in 1..n : SubSeq(q, 1, n)[i] = q[i]
  <2>1. \A i \in 1..n : q[i] \in Clients BY <1>2, <1>3
  <2>2. n \in Int /\ 1 <= n BY <1>2
  <2>3. /\ SubSeq(q, 1, n) \in Seq(Clients)
        /\ Len(SubSeq(q, 1, n)) = IF 1 <= n THEN n - 1 + 1 ELSE 0
        /\ \A i \in 1..n - 1 + 1 : SubSeq(q, 1, n)[i] = q[1 + i - 1]
    BY <2>1, <2>2, SubSeqProperties
  <2>4. n - 1 + 1 = n /\ \A i \in 1..n : 1 + i - 1 = i BY <1>2
  <2> QED BY <2>2, <2>3, <2>4
<1>5. /\ SubSeq(q, n + 1, L) \in Seq(Clients) /\ Len(SubSeq(q, n + 1, L)) = L - n
      /\ \A i \in 1..(L - n) : SubSeq(q, n + 1, L)[i] = q[i + n]
  <2>1. \A i \in n + 1..L : q[i] \in Clients BY <1>2, <1>3
  <2>2. n + 1 \in Int /\ L \in Int BY <1>2
  <2>3. /\ SubSeq(q, n + 1, L) \in Seq(Clients)
        /\ Len(SubSeq(q, n + 1, L)) = IF n + 1 <= L THEN L - (n + 1) + 1 ELSE 0
        /\ \A i \in 1..L - (n + 1) + 1 : SubSeq(q, n + 1, L)[i] = q[n + 1 + i - 1]
    BY <2>1, <2>2, SubSeqProperties
  <2>4. /\ L - (n + 1) + 1 = L - n /\ (~(n + 1 <= L) => L - n = 0)
        /\ \A i \in 1..(L - n) : n + 1 + i - 1 = i + n
    BY <1>2
  <2> QED BY <2>3, <2>4
<1>6. /\ b \o SubSeq(q, 1, n) \in Seq(Clients)
      /\ Len(b \o SubSeq(q, 1, n)) = K + n
      /\ \A i \in 1..(K + n) : (b \o SubSeq(q, 1, n))[i] =
                                 IF i <= K THEN b[i] ELSE SubSeq(q, 1, n)[i - K]
  BY <1>1, <1>4, ConcatProperties
<1>7. /\ g \in [Ports -> Seq(Clients)]
      /\ g["reader"] = b \o SubSeq(q, 1, n) /\ g["readerQ"] = SubSeq(q, n + 1, L)
      /\ \A r \in Ports \ {"reader", "readerQ"} : g[r] = f[r]
  BY <1>1, <1>5, <1>6 DEF Admitted
<1>8. /\ DOMAIN g["reader"] = 1..(K + n) /\ DOMAIN g["readerQ"] = 1..(L - n)
      /\ \A i \in 1..K : g["reader"][i] = b[i]
      /\ \A i \in 1..n : g["reader"][K + i] = q[i]
      /\ \A i \in 1..(L - n) : g["readerQ"][i] = q[i + n]
  <2>1. \A i \in 1..K : i \in 1..(K + n) /\ i <= K BY <1>2
  <2>2. \A i \in 1..n : K + i \in 1..(K + n) /\ ~(K + i <= K) /\ (K + i) - K = i
    BY <1>2
  <2>3. \A i \in 1..n : g["reader"][K + i] = SubSeq(q, 1, n)[(K + i) - K]
    BY <1>6, <1>7, <2>2
  <2>4. \A i \in 1..n : g["reader"][K + i] = q[i] BY <2>2, <2>3, <1>4
  <2>5. \A i \in 1..K : g["reader"][i] = b[i] BY <1>6, <1>7, <2>1
  <2> QED BY <1>5, <1>6, <1>7, <2>4, <2>5, LenProperties
<1> HIDE DEF g, q, b, L, K
\* Where the message at place k of port r was before.
<1> DEFINE Port(r, k) == IF r = "reader" /\ k > K THEN "readerQ" ELSE r
           At(r, k) == IF r = "reader" /\ k > K THEN k - K
                       ELSE IF r = "readerQ" THEN k + n ELSE k
<1>9. ASSUME NEW r \in Ports, NEW k \in DOMAIN g[r]
      PROVE  /\ Port(r, k) \in Ports /\ At(r, k) \in DOMAIN f[Port(r, k)]
             /\ f[Port(r, k)][At(r, k)] = g[r][k]
  <2>1. CASE r = "reader" /\ k \in 1..K
    BY <2>1, <1>2, <1>8 DEF b
  <2>2. CASE r = "reader" /\ k \in K + 1..K + n
    <3>1. k - K \in 1..n /\ K + (k - K) = k /\ k > K BY <2>2, <1>2
    <3>2. k - K \in 1..L /\ g[r][k] = q[k - K] BY <3>1, <2>2, <1>2, <1>8
    <3> QED BY <3>1, <3>2, <2>2, <1>1, <1>2 DEF q
  <2>3. CASE r = "readerQ"
    <3>1. k \in 1..(L - n) /\ k + n \in 1..L BY <1>9, <2>3, <1>8, <1>2
    <3> QED BY <3>1, <2>3, <1>1, <1>2, <1>8 DEF q
  <2>4. CASE r \notin {"reader", "readerQ"} BY <2>4, <1>9, <1>7
  <2>5. r = "reader" => k \in 1..K \/ k \in K + 1..K + n BY <1>9, <1>8, <1>2
  <2> QED BY <2>1, <2>2, <2>3, <2>4, <2>5
<1>10. ASSUME NEW r \in Ports, NEW s \in Ports, NEW i \in DOMAIN g[r],
              NEW j \in DOMAIN g[s], g[r][i] = g[s][j]
       PROVE  r = s /\ i = j
  <2>1. Port(r, i) = Port(s, j) /\ At(r, i) = At(s, j)
    <3>1. /\ Port(r, i) \in Ports /\ At(r, i) \in DOMAIN f[Port(r, i)]
          /\ f[Port(r, i)][At(r, i)] = g[r][i]
          /\ Port(s, j) \in Ports /\ At(s, j) \in DOMAIN f[Port(s, j)]
          /\ f[Port(s, j)][At(s, j)] = g[s][j]
      BY <1>9
    <3> HIDE DEF Port, At
    <3> QED BY <3>1, <1>10 DEF Tidy
  <2>2. /\ r = "reader" => i \in 1..K + n
        /\ s = "reader" => j \in 1..K + n
        /\ r = "readerQ" => i \in 1..L - n
        /\ s = "readerQ" => j \in 1..L - n
    BY <1>10, <1>8
  <2> QED BY <2>1, <2>2, <1>2
<1>11. Tidy(g) BY <1>7, <1>10 DEF Tidy
<1>12. ASSUME NEW d PROVE On(g, "readerQ", d) <=> On(f, "readerQ", d) /\ d \notin moved
  <2>1. ASSUME On(g, "readerQ", d) PROVE On(f, "readerQ", d) /\ d \notin moved
    <3>1. PICK i \in 1..(L - n) : g["readerQ"][i] = d BY <2>1, <1>8 DEF On
    <3>2. i + n \in 1..L /\ q[i + n] = d /\ i + n > n BY <3>1, <1>2, <1>8
    <3>3. ASSUME NEW j \in 1..n, q[j] = d PROVE FALSE
      <4>1. j \in 1..L BY <1>2
      <4>2. j = i + n BY <4>1, <3>2, <3>3, <1>1, <1>2 DEF Tidy, q
      <4> QED BY <4>2, <3>2, <1>2
    <3> QED BY <3>2, <3>3, <1>2 DEF On, q
  <2>2. ASSUME On(f, "readerQ", d), d \notin moved PROVE On(g, "readerQ", d)
    <3>1. PICK i \in 1..L : q[i] = d BY <2>2, <1>2 DEF On, q
    <3>2. i \notin 1..n BY <3>1, <2>2
    <3>3. i - n \in 1..(L - n) /\ (i - n) + n = i BY <3>1, <3>2, <1>2
    <3>4. g["readerQ"][i - n] = d BY <3>1, <3>3, <1>8
    <3> QED BY <3>3, <3>4, <1>8 DEF On
  <2> QED BY <2>1, <2>2
<1>13. ASSUME NEW d PROVE On(g, "reader", d) <=> On(f, "reader", d) \/ d \in moved
  <2>1. ASSUME On(g, "reader", d) PROVE On(f, "reader", d) \/ d \in moved
    <3>1. PICK i \in 1..(K + n) : g["reader"][i] = d BY <2>1, <1>8 DEF On
    <3>2. CASE i \in 1..K BY <3>1, <3>2, <1>2, <1>8 DEF On, b
    <3>3. CASE i \notin 1..K
      <4>1. i - K \in 1..n /\ K + (i - K) = i BY <3>1, <3>3, <1>2
      <4>2. q[i - K] = d BY <4>1, <3>1, <1>8
      <4> QED BY <4>1, <4>2
    <3> QED BY <3>2, <3>3
  <2>2. ASSUME On(f, "reader", d) PROVE On(g, "reader", d)
    <3>1. PICK i \in 1..K : b[i] = d BY <2>2, <1>2 DEF On, b
    <3>2. i \in 1..(K + n) /\ g["reader"][i] = d BY <3>1, <1>2, <1>8
    <3> QED BY <3>2, <1>8 DEF On
  <2>3. ASSUME d \in moved PROVE On(g, "reader", d)
    <3>1. PICK i \in 1..n : q[i] = d BY <2>3
    <3>2. K + i \in 1..(K + n) /\ g["reader"][K + i] = d BY <3>1, <1>2, <1>8
    <3> QED BY <3>2, <1>8 DEF On
  <2> QED BY <2>1, <2>2, <2>3
<1>14. IsFiniteSet(moved) /\ Cardinality(moved) <= n
  <2> DEFINE s == [i \in 1..n |-> q[i]]
  <2>1. s \in Surjection(1..n, moved) BY DEF Surjection
  <2>2. IsFiniteSet(1..n) /\ Cardinality(1..n) = n
    BY <1>2, FS_Interval
  <2> HIDE DEF s, moved
  <2>3. IsFiniteSet(moved) /\ Cardinality(moved) <= Cardinality(1..n)
    BY <2>1, <2>2, FS_Surjection
  <2> QED BY <2>2, <2>3
<1>15. \A d \in moved : On(f, "readerQ", d) BY <1>2 DEF On, q
<1> QED BY <1>7, <1>11, <1>12, <1>13, <1>14, <1>15 DEF g, q, b, L, K

-----------------------------------------------------------------------------
\* Readers and writers from the server's point of view.
ActiveReaders == {c \in Clients :
  \/ pc[c] = "reading"
  \/ pc[c] = "runlock" /\ On(port, "server", c)
  \/ pc[c] = "rlock" /\ ~On(port, "server", c) /\ ~On(port, "readerQ", c)}

ActiveWriters == {c \in Clients :
  \/ pc[c] = "writing"
  \/ pc[c] = "wunlock" /\ On(port, "server", c)
  \/ pc[c] = "wlock" /\ ~On(port, "server", c) /\ ~On(port, "writerQ", c)}

Accepted == \A p \in Ports : \A c : On(port, p, c) => pc[c] \in Accepts(p)

\* The types of the variables other than pc and port.
ScalarTypes ==
  /\ readers \in Int /\ activeReaders \in Int /\ writers \in Int
  /\ workerPort \in Seq(Tokens) /\ signalPort \in Seq(Tokens)
  /\ token \in [Tokens -> TokenStates]
  /\ writer \in TokenStates
  /\ signalPort2 \in Nat /\ hold \in Int
  /\ noWait \in BOOLEAN /\ undefined \in BOOLEAN

TypeInv ==
  /\ pc \in [Clients -> ClientStates] /\ Tidy(port) /\ Accepted /\ ScalarTypes

\* What the counters of the server stand for.
Counted ==
  /\ Cardinality(ActiveReaders) <= activeReaders
  /\ Len(port["writerQ"]) <= writers
  /\ ActiveWriters # {} => Len(port["writerQ"]) < writers
  /\ ActiveWriters # {} => ActiveReaders = {}
  /\ \A c, d \in ActiveWriters : c = d

IInv == TypeInv /\ Counted

LEMMA PortFacts ==
  /\ TaskPorts \subseteq Ports /\ Tokens \subseteq Ports
  /\ {"server", "readerQ", "writerQ", "reader", "unlock", "writer"} = TaskPorts
  /\ \A t \in Tokens : t \notin TaskPorts /\ Accepts(t) = {"rlock", "runlock"}
  /\ Accepts("server") = Entries
  /\ Accepts("readerQ") = {"rlock"} /\ Accepts("reader") = {"rlock"}
  /\ Accepts("writerQ") = {"wlock"} /\ Accepts("unlock") = {"runlock"}
  /\ Accepts("writer") = {"wlock", "wunlock"}
<1>1. \A t \in Tokens : t \notin TaskPorts BY TokensAssumption
<1>2. \A t \in Tokens : Accepts(t) = {"rlock", "runlock"}
  BY <1>1 DEF Accepts, TaskPorts
<1> QED BY <1>1, <1>2 DEF Accepts, Ports, TaskPorts

LEMMA TypeInvImpliesTypeOK == ASSUME TypeInv PROVE TypeOK
<1>1. port \in [Ports -> Seq(Clients)] BY DEF TypeInv, Tidy
<1>2. \A p \in Ports : \A i \in DOMAIN port[p] : pc[port[p][i]] \in Accepts(p)
  BY DEF TypeInv, Accepted, On
<1> QED BY <1>1, <1>2 DEF TypeOK, TypeInv, ScalarTypes

LEMMA AcceptsEntries == \A p \in Ports : Accepts(p) \subseteq Entries
BY PortFacts DEF Ports, TaskPorts, Entries

LEMMA CounterFacts ==
  ASSUME TypeInv
  PROVE  /\ IsFiniteSet(ActiveReaders) /\ Cardinality(ActiveReaders) \in Nat
         /\ Len(port["writerQ"]) \in Nat
<1>1. ActiveReaders \in SUBSET Clients BY DEF ActiveReaders
<1>2. IsFiniteSet(ActiveReaders) BY <1>1, ClientsAssumption, FS_Subset
<1>3. port["writerQ"] \in Seq(Clients) BY PortFacts DEF TypeInv, Tidy
<1> QED BY <1>2, <1>3, FS_CardinalityType, LenProperties

\* The steps that move no client into or out of either set keep the counts.
LEMMA CountedSame ==
  ASSUME IInv, ActiveReaders' = ActiveReaders, ActiveWriters' = ActiveWriters,
         port'["writerQ"] = port["writerQ"], UNCHANGED <<activeReaders, writers>>
  PROVE  Counted'
BY DEF IInv, Counted

-----------------------------------------------------------------------------
\* The client: its call puts a message on the server's port.
LEMMA CallStep ==
  ASSUME IInv, NEW c \in Clients, Request(c) \/ Release(c)
  PROVE  IInv'
<1>1. PICK from, entry :
        /\ Call(c, from, entry)
        /\ <<from, entry>> \in {<<"idle", "rlock">>, <<"idle", "wlock">>,
                                <<"reading", "runlock">>, <<"writing", "wunlock">>}
  BY DEF Request, Release
<1>2. pc[c] = from /\ pc' = [pc EXCEPT ![c] = entry] BY <1>1 DEF Call
<1>3. pc \in [Clients -> ClientStates] /\ Tidy(port) /\ Accepted /\ ScalarTypes
  BY DEF IInv, TypeInv
<1>4. pc'[c] = entry /\ \A d \in Clients \ {c} : pc'[d] = pc[d] BY <1>2, <1>3
<1>5. from \notin Entries /\ entry \in Entries BY <1>1 DEF Entries
<1>6. \A q \in Ports : ~On(port, q, c)
  BY <1>2, <1>3, <1>5, AcceptsEntries DEF Accepted
<1>7. /\ Tidy(port')
      /\ \A q \in Ports : \A d : On(port', q, d) <=>
                                   On(port, q, d) \/ (q = "server" /\ d = c)
      /\ \A q \in Ports \ {"server"} : port'[q] = port[q]
  BY <1>1, <1>3, <1>6, PutTidy, PortFacts DEF Call
<1>8. Accepted'
  <2> SUFFICES ASSUME NEW q \in Ports, NEW d, On(port', q, d)
               PROVE  pc'[d] \in Accepts(q)
    BY DEF Accepted
  <2>1. CASE On(port, q, d)
    <3>1. d # c /\ d \in Clients BY <2>1, <1>3, <1>6 DEF Tidy, On
    <3> QED BY <3>1, <2>1, <1>3, <1>4 DEF Accepted
  <2>2. CASE q = "server" /\ d = c BY <2>2, <1>4, <1>5, PortFacts
  <2> QED BY <1>7, <2>1, <2>2
<1>9. ScalarTypes' BY <1>1, <1>3
  DEF Call, ScalarTypes, counterVars, tokenVars, writerVars
<1>10. pc' \in [Clients -> ClientStates]
  BY <1>2, <1>3, <1>5 DEF ClientStates
<1>11. "server" \in Ports /\ "readerQ" \in Ports /\ "writerQ" \in Ports
       /\ "server" # "readerQ" /\ "server" # "writerQ"
  BY PortFacts
<1>12. ActiveReaders' = ActiveReaders
  BY <1>1, <1>2, <1>4, <1>6, <1>7, <1>11 DEF ActiveReaders
<1>13. ActiveWriters' = ActiveWriters
  BY <1>1, <1>2, <1>4, <1>6, <1>7, <1>11 DEF ActiveWriters
<1>14. UNCHANGED <<activeReaders, writers>> BY <1>1 DEF Call, counterVars
<1>15. Counted' BY <1>7, <1>11, <1>12, <1>13, <1>14, CountedSame
<1> QED BY <1>7, <1>8, <1>9, <1>10, <1>15 DEF IInv, TypeInv

\* The reply: a message leaves the port of a token or of the writer token.
LEMMA ReplyStep ==
  ASSUME IInv, NEW p \in Tokens \cup {"writer"}, Reply(p), ScalarTypes',
         UNCHANGED <<activeReaders, writers>>
  PROVE  IInv'
<1> DEFINE c == Head(port[p])
<1>1. p \in Ports /\ p \notin {"server", "readerQ", "writerQ"}
  BY PortFacts DEF TaskPorts
<1>2. pc \in [Clients -> ClientStates] /\ Tidy(port) /\ Accepted
  BY DEF IInv, TypeInv
<1>3. port[p] # <<>> /\ port' = Drop(port, p)
      /\ pc' = [pc EXCEPT ![c] = Replied(pc[c])]
  BY DEF Reply
<1>4. /\ Tidy(port') /\ c \in Clients /\ On(port, p, c)
      /\ \A q \in Ports : \A d : On(port', q, d) <=> On(port, q, d) /\ d # c
      /\ \A q \in Ports \ {p} : port'[q] = port[q]
  BY <1>1, <1>2, <1>3, DropTidy
<1> HIDE DEF c
<1>5. pc[c] \in {"rlock", "runlock", "wlock", "wunlock"}
  BY <1>1, <1>2, <1>4, AcceptsEntries DEF Accepted, Entries
<1>6. /\ pc[c] = "rlock" => pc'[c] = "reading"
      /\ pc[c] = "wlock" => pc'[c] = "writing"
      /\ pc[c] \in {"runlock", "wunlock"} => pc'[c] = "idle"
      /\ \A d \in Clients \ {c} : pc'[d] = pc[d]
  BY <1>2, <1>3, <1>4 DEF Replied
<1>7. pc' \in [Clients -> ClientStates]
  BY <1>2, <1>3, <1>4, <1>5, <1>6 DEF ClientStates
<1>8. Accepted'
  <2> SUFFICES ASSUME NEW q \in Ports, NEW d, On(port', q, d)
               PROVE  pc'[d] \in Accepts(q)
    BY DEF Accepted
  <2>1. On(port, q, d) /\ d # c BY <1>4
  <2>2. d \in Clients BY <2>1, <1>2 DEF Tidy, On
  <2> QED BY <2>1, <2>2, <1>2, <1>6 DEF Accepted
<1>9. "server" \in Ports /\ "readerQ" \in Ports /\ "writerQ" \in Ports BY PortFacts
<1>10. \A q \in {"server", "readerQ", "writerQ"} : ~On(port, q, c)
  BY <1>1, <1>2, <1>4, <1>9 DEF Tidy, On
<1>11. ActiveReaders' = ActiveReaders
  <2>1. ASSUME NEW d \in Clients PROVE d \in ActiveReaders' <=> d \in ActiveReaders
    <3>1. CASE d = c BY <3>1, <1>4, <1>5, <1>6, <1>9, <1>10 DEF ActiveReaders
    <3>2. CASE d # c BY <3>2, <1>4, <1>6, <1>9 DEF ActiveReaders
    <3> QED BY <3>1, <3>2
  <2> QED BY <2>1 DEF ActiveReaders
<1>12. ActiveWriters' = ActiveWriters
  <2>1. ASSUME NEW d \in Clients PROVE d \in ActiveWriters' <=> d \in ActiveWriters
    <3>1. CASE d = c BY <3>1, <1>4, <1>5, <1>6, <1>9, <1>10 DEF ActiveWriters
    <3>2. CASE d # c BY <3>2, <1>4, <1>6, <1>9 DEF ActiveWriters
    <3> QED BY <3>1, <3>2
  <2> QED BY <2>1 DEF ActiveWriters
<1>13. Counted' BY <1>1, <1>4, <1>9, <1>11, <1>12, CountedSame
<1> QED BY <1>4, <1>7, <1>8, <1>13 DEF IInv, TypeInv

\* A message goes on, behind the server, to a port that accepts it, or is lost.
LEMMA PassStep ==
  ASSUME IInv, NEW p \in {"reader", "unlock"}, port[p] # <<>>, UNCHANGED pc,
         NEW q \in Tokens,
         port' \in {Drop(port, p), Put(Drop(port, p), q, Head(port[p]))},
         ScalarTypes', UNCHANGED <<activeReaders, writers>>
  PROVE  IInv'
<1> DEFINE c == Head(port[p])
<1>1. /\ p \in Ports /\ q \in Ports /\ p # q
      /\ {p, q} \cap {"server", "readerQ", "writerQ"} = {}
      /\ Accepts(p) \subseteq Accepts(q)
  BY PortFacts DEF TaskPorts
<1>2. pc \in [Clients -> ClientStates] /\ Tidy(port) /\ Accepted
  BY DEF IInv, TypeInv
<1>3. /\ Tidy(port') /\ c \in Clients /\ On(port, p, c)
      /\ \A r \in Ports : \A d : On(port', r, d) =>
                                   IF d = c THEN r = q ELSE On(port, r, d)
      /\ \A r \in Ports : \A d : On(port, r, d) /\ d # c => On(port', r, d)
      /\ \A r \in Ports \ {p, q} : port'[r] = port[r]
  <2>1. CASE port' = Drop(port, p) BY <2>1, <1>1, <1>2, DropTidy
  <2>2. CASE port' = Put(Drop(port, p), q, Head(port[p]))
    BY <2>2, <1>1, <1>2, MoveTidy
  <2> QED BY <2>1, <2>2
<1> HIDE DEF c
<1>4. Accepted' BY <1>1, <1>2, <1>3 DEF Accepted
<1>5. "server" \in Ports /\ "readerQ" \in Ports /\ "writerQ" \in Ports BY PortFacts
<1>6. \A r \in {"server", "readerQ", "writerQ"} : ~On(port, r, c)
  BY <1>1, <1>2, <1>3, <1>5 DEF Tidy, On
<1>7. \A r \in {"server", "readerQ", "writerQ"} :
        \A d : On(port', r, d) <=> On(port, r, d)
  BY <1>1, <1>3, <1>5, <1>6
<1>8. ActiveReaders' = ActiveReaders /\ ActiveWriters' = ActiveWriters
  BY <1>7 DEF ActiveReaders, ActiveWriters
<1>9. Counted' BY <1>1, <1>3, <1>5, <1>8, CountedSame
<1> QED BY <1>2, <1>3, <1>4, <1>9 DEF IInv, TypeInv

\* Steps of the tokens that touch neither a client nor a port.
LEMMA QuietStep ==
  ASSUME IInv, UNCHANGED <<pc, port, activeReaders, writers>>, ScalarTypes'
  PROVE  IInv'
<1>1. ActiveReaders' = ActiveReaders /\ ActiveWriters' = ActiveWriters
  BY DEF ActiveReaders, ActiveWriters
<1>2. Counted' BY <1>1, CountedSame
<1>3. TypeInv' BY DEF IInv, TypeInv, Accepted
<1> QED BY <1>2, <1>3 DEF IInv

-----------------------------------------------------------------------------
\* What every branch of the server's loop starts from.
LEMMA ServeFacts ==
  ASSUME IInv, port["server"] # <<>>
  PROVE  /\ Caller \in Clients /\ On(port, "server", Caller)
         /\ pc \in [Clients -> ClientStates] /\ Tidy(port) /\ Accepted /\ ScalarTypes
         /\ {"server", "readerQ", "writerQ", "reader", "unlock", "writer"} \subseteq Ports
         /\ \A p \in Ports \ {"server"} : ~On(port, p, Caller)
         /\ Tidy(Received)
         /\ \A p \in Ports : \A d : On(Received, p, d) <=> On(port, p, d) /\ d # Caller
         /\ \A p \in Ports \ {"server"} : Received[p] = port[p]
<1>1. "server" \in Ports /\ TaskPorts \subseteq Ports BY PortFacts
<1>2. pc \in [Clients -> ClientStates] /\ Tidy(port) /\ Accepted /\ ScalarTypes
  BY DEF IInv, TypeInv
<1>3. /\ Tidy(Received) /\ Caller \in Clients /\ On(port, "server", Caller)
      /\ \A p \in Ports : \A d : On(Received, p, d) <=> On(port, p, d) /\ d # Caller
      /\ \A p \in Ports \ {"server"} : Received[p] = port[p]
  BY <1>1, <1>2, DropTidy DEF Received, Caller
<1>4. \A p \in Ports \ {"server"} : ~On(port, p, Caller)
  BY <1>1, <1>2, <1>3 DEF Tidy, On
<1> QED BY <1>1, <1>2, <1>3, <1>4, PortFacts

\* The server forwards the message it received.
LEMMA ForwardFacts ==
  ASSUME IInv, port["server"] # <<>>, NEW q \in Ports, q # "server"
  PROVE  /\ Tidy(Forward(q))
         /\ \A p \in Ports : \A d : On(Forward(q), p, d) <=>
              IF d = Caller THEN p = q ELSE On(port, p, d)
         /\ Len(Forward(q)[q]) = Len(port[q]) + 1
         /\ \A p \in Ports \ {"server", q} : Forward(q)[p] = port[p]
<1>1. Tidy(port) /\ "server" \in Ports BY PortFacts DEF IInv, TypeInv
<1> QED BY <1>1, MoveTidy DEF Forward, Received, Caller

LEMMA ServeRLockStep == ASSUME IInv, ServeRLock PROVE IInv'
<1> DEFINE c == Caller
<1>1. port["server"] # <<>> /\ pc[c] = "rlock" /\ pc' = pc
  BY DEF ServeRLock, Serve
<1>2. /\ c \in Clients /\ On(port, "server", c)
      /\ pc \in [Clients -> ClientStates] /\ Tidy(port) /\ Accepted /\ ScalarTypes
      /\ {"server", "readerQ", "writerQ", "reader"} \subseteq Ports
      /\ \A p \in Ports \ {"server"} : ~On(port, p, c)
  BY <1>1, ServeFacts
<1>3. PICK q \in {"readerQ", "reader"} :
        /\ port' = Forward(q) /\ writers' = writers
        /\ q = "readerQ" => activeReaders' = activeReaders
        /\ q = "reader" => activeReaders' = activeReaders + 1 /\ writers <= 0
  BY <1>2 DEF ServeRLock, ReaderMustWait, ScalarTypes
<1>4. /\ Tidy(port')
      /\ \A p \in Ports : \A d : On(port', p, d) <=>
           IF d = c THEN p = q ELSE On(port, p, d)
      /\ \A p \in Ports \ {"server", q} : port'[p] = port[p]
  BY <1>1, <1>2, <1>3, ForwardFacts
<1>5. ScalarTypes'
  BY <1>2 DEF ServeRLock, Serve, ScalarTypes, tokenVars
<1> HIDE DEF c
<1>6. Accepted'
  BY <1>1, <1>2, <1>3, <1>4, PortFacts DEF Accepted
<1>7. TypeInv' BY <1>1, <1>2, <1>4, <1>5, <1>6 DEF TypeInv
<1>8. ActiveWriters' = ActiveWriters
  BY <1>1, <1>2, <1>3, <1>4 DEF ActiveWriters
<1>9. c \notin ActiveReaders BY <1>1, <1>2 DEF ActiveReaders
<1>10. port'["writerQ"] = port["writerQ"] BY <1>2, <1>3, <1>4
<1>11. CASE q = "readerQ"
  <2>1. ActiveReaders' = ActiveReaders
    BY <1>1, <1>2, <1>4, <1>11 DEF ActiveReaders
  <2> QED BY <1>3, <1>7, <1>8, <1>10, <1>11, <2>1, CountedSame DEF IInv
<1>12. CASE q = "reader"
  <2>1. ActiveReaders' = ActiveReaders \cup {c}
    BY <1>1, <1>2, <1>4, <1>12 DEF ActiveReaders
  <2>2. IsFiniteSet(ActiveReaders) /\ Cardinality(ActiveReaders) \in Nat
        /\ Len(port["writerQ"]) \in Nat
    BY CounterFacts DEF IInv
  <2>3. Cardinality(ActiveReaders') = Cardinality(ActiveReaders) + 1
    BY <1>9, <2>1, <2>2, FS_AddElement
  <2>4. ActiveWriters = {}
    BY <1>2, <1>3, <1>12, <2>2 DEF IInv, Counted, ScalarTypes
  <2>5. Counted'
    BY <1>2, <1>3, <1>8, <1>10, <1>12, <2>2, <2>3, <2>4 DEF IInv, Counted, ScalarTypes
  <2> QED BY <1>7, <2>5 DEF IInv
<1> QED BY <1>3, <1>11, <1>12

LEMMA ServeWLockStep == ASSUME IInv, ServeWLock PROVE IInv'
<1> DEFINE c == Caller
<1>1. port["server"] # <<>> /\ pc[c] = "wlock" /\ pc' = pc
  BY DEF ServeWLock, Serve
<1>2. /\ c \in Clients /\ On(port, "server", c)
      /\ pc \in [Clients -> ClientStates] /\ Tidy(port) /\ Accepted /\ ScalarTypes
      /\ {"server", "readerQ", "writerQ", "writer"} \subseteq Ports
      /\ \A p \in Ports \ {"server"} : ~On(port, p, c)
  BY <1>1, ServeFacts
<1>3. PICK q \in {"writerQ", "writer"} :
        /\ port' = Forward(q) /\ writers' = writers + 1
        /\ activeReaders' = activeReaders
        /\ q = "writer" => writers <= 0 /\ activeReaders <= 0
  BY <1>2 DEF ServeWLock, WriterMustWait, ScalarTypes
<1>4. /\ Tidy(port')
      /\ \A p \in Ports : \A d : On(port', p, d) <=>
           IF d = c THEN p = q ELSE On(port, p, d)
      /\ Len(port'[q]) = Len(port[q]) + 1
      /\ \A p \in Ports \ {"server", q} : port'[p] = port[p]
  BY <1>1, <1>2, <1>3, ForwardFacts
<1>5. ScalarTypes'
  BY <1>2 DEF ServeWLock, Serve, ScalarTypes, tokenVars
<1> HIDE DEF c
<1>6. Accepted'
  BY <1>1, <1>2, <1>3, <1>4, PortFacts DEF Accepted
<1>7. TypeInv' BY <1>1, <1>2, <1>4, <1>5, <1>6 DEF TypeInv
<1>8. ActiveReaders' = ActiveReaders
  BY <1>1, <1>2, <1>3, <1>4 DEF ActiveReaders
<1>9. IsFiniteSet(ActiveReaders) /\ Cardinality(ActiveReaders) \in Nat
      /\ Len(port["writerQ"]) \in Nat
  BY CounterFacts DEF IInv
<1>10. CASE q = "writerQ"
  <2>1. ActiveWriters' = ActiveWriters
    BY <1>1, <1>2, <1>4, <1>10 DEF ActiveWriters
  <2>2. Counted'
    BY <1>2, <1>3, <1>4, <1>8, <1>9, <1>10, <2>1 DEF IInv, Counted, ScalarTypes
  <2> QED BY <1>7, <2>2 DEF IInv
<1>11. CASE q = "writer"
  <2>1. ActiveWriters = {} /\ Len(port["writerQ"]) = 0 /\ writers = 0
    BY <1>2, <1>3, <1>9, <1>11 DEF IInv, Counted, ScalarTypes
  <2>2. ActiveReaders = {}
    <3>1. Cardinality(ActiveReaders) = 0
      BY <1>2, <1>3, <1>9, <1>11 DEF IInv, Counted, ScalarTypes
    <3> QED BY <3>1, <1>9, FS_EmptySet
  <2>3. ActiveWriters' = ActiveWriters \cup {c}
    BY <1>1, <1>2, <1>4, <1>11 DEF ActiveWriters
  <2>4. port'["writerQ"] = port["writerQ"] BY <1>2, <1>4, <1>11
  <2>5. \A d, e \in ActiveWriters' : d = e BY <2>1, <2>3
  <2>6. Counted'
    BY <1>2, <1>3, <1>8, <1>9, <2>1, <2>2, <2>4, <2>5 DEF IInv, Counted, ScalarTypes
  <2> QED BY <1>7, <2>6 DEF IInv
<1> QED BY <1>3, <1>10, <1>11

\* The writer that is dispatched leaves the writers' queue, behind the server.
LEMMA DispatchFacts ==
  ASSUME NEW f, Tidy(f), DispatchWriter(f)
  PROVE  \/ /\ f["writerQ"] = <<>> /\ port' = f
         \/ /\ f["writerQ"] # <<>>
            /\ Tidy(port')
            /\ Head(f["writerQ"]) \in Clients
            /\ On(f, "writerQ", Head(f["writerQ"]))
            /\ \A p \in Ports : \A d : On(port', p, d) <=>
                 IF d = Head(f["writerQ"]) THEN p = "writer" ELSE On(f, p, d)
            /\ Len(port'["writerQ"]) = Len(f["writerQ"]) - 1
            /\ Len(f["writerQ"]) \in Nat \ {0}
            /\ \A p \in Ports \ {"writerQ", "writer"} : port'[p] = f[p]
<1>1. "writerQ" \in Ports /\ "writer" \in Ports /\ "writerQ" # "writer" BY PortFacts
<1>2. CASE f["writerQ"] # <<>>
  <2>1. port' = Put(Drop(f, "writerQ"), "writer", Head(f["writerQ"]))
    BY <1>2 DEF DispatchWriter, WriterNext
  <2> QED BY <1>1, <1>2, <2>1, MoveTidy
<1>3. CASE f["writerQ"] = <<>> BY <1>3 DEF DispatchWriter
<1> QED BY <1>2, <1>3

LEMMA ServeRUnlockStep == ASSUME IInv, ServeRUnlock PROVE IInv'
<1> DEFINE c == Caller
           f == Forward("unlock")
<1>1. port["server"] # <<>> /\ pc[c] = "runlock" /\ pc' = pc
  BY DEF ServeRUnlock, Serve
<1>2. /\ c \in Clients /\ On(port, "server", c)
      /\ pc \in [Clients -> ClientStates] /\ Tidy(port) /\ Accepted /\ ScalarTypes
      /\ {"server", "readerQ", "writerQ", "unlock", "writer"} \subseteq Ports
      /\ \A p \in Ports \ {"server"} : ~On(port, p, c)
  BY <1>1, ServeFacts
<1>3. activeReaders' = activeReaders - 1 /\ writers' = writers
  BY DEF ServeRUnlock
<1>4. /\ Tidy(f)
      /\ \A p \in Ports : \A d : On(f, p, d) <=>
           IF d = c THEN p = "unlock" ELSE On(port, p, d)
      /\ \A p \in Ports \ {"server", "unlock"} : f[p] = port[p]
  BY <1>1, <1>2, ForwardFacts
<1>5. ScalarTypes'
  <2>1. undefined' \in BOOLEAN
    BY <1>2 DEF ServeRUnlock, ScalarTypes, DispatchWriter
  <2>2. readers' = readers - 1 BY DEF ServeRUnlock, ReadersAfterUnlock
  <2>3. UNCHANGED <<writers, signalPort2, noWait, tokenVars, writer, hold>>
    BY DEF ServeRUnlock, Serve
  <2> QED BY <1>2, <1>3, <2>1, <2>2, <2>3 DEF ScalarTypes, tokenVars
<1>6. \/ /\ activeReaders = 1 /\ writers > 0 /\ DispatchWriter(f)
      \/ port' = f
  BY DEF ServeRUnlock, LastReader
<1> HIDE DEF c, f
<1>7. c \in ActiveReaders BY <1>1, <1>2 DEF ActiveReaders
<1>8. /\ IsFiniteSet(ActiveReaders) /\ Cardinality(ActiveReaders) \in Nat
      /\ Len(port["writerQ"]) \in Nat
  BY CounterFacts DEF IInv
<1>9. Cardinality(ActiveReaders \ {c}) = Cardinality(ActiveReaders) - 1
  BY <1>7, <1>8, FS_RemoveElement
<1>10. ActiveWriters = {} BY <1>7 DEF IInv, Counted
<1>11. CASE port' = f
  <2>1. Accepted' BY <1>1, <1>2, <1>4, <1>11, PortFacts DEF Accepted
  <2>2. TypeInv' BY <1>1, <1>2, <1>4, <1>5, <1>11, <2>1 DEF TypeInv
  <2>3. ActiveReaders' = ActiveReaders \ {c}
    BY <1>1, <1>2, <1>4, <1>11 DEF ActiveReaders
  <2>4. ActiveWriters' = {}
    BY <1>1, <1>2, <1>4, <1>10, <1>11 DEF ActiveWriters
  <2>5. port'["writerQ"] = port["writerQ"] BY <1>2, <1>4, <1>11, PortFacts DEF TaskPorts
  <2>6. Counted'
    BY <1>2, <1>3, <1>8, <1>9, <2>3, <2>4, <2>5 DEF IInv, Counted, ScalarTypes
  <2> QED BY <2>2, <2>6 DEF IInv
<1>12. CASE /\ activeReaders = 1 /\ writers > 0 /\ DispatchWriter(f)
            /\ f["writerQ"] # <<>>
  <2> DEFINE w == Head(f["writerQ"])
  <2>1. /\ Tidy(port') /\ w \in Clients /\ On(f, "writerQ", w)
        /\ \A p \in Ports : \A d : On(port', p, d) <=>
             IF d = w THEN p = "writer" ELSE On(f, p, d)
        /\ Len(port'["writerQ"]) = Len(f["writerQ"]) - 1
        /\ Len(f["writerQ"]) \in Nat \ {0}
    BY <1>4, <1>12, DispatchFacts
  <2> HIDE DEF w
  <2>2. f["writerQ"] = port["writerQ"] BY <1>2, <1>4
  <2>3. On(port, "writerQ", w) /\ w # c /\ pc[w] = "wlock"
    BY <1>2, <1>4, <2>1, PortFacts DEF Accepted
  <2>4. Accepted'
    <3> SUFFICES ASSUME NEW p \in Ports, NEW d, On(port', p, d)
                 PROVE  pc'[d] \in Accepts(p)
      BY DEF Accepted
    <3>1. CASE d = w BY <3>1, <1>1, <2>1, <2>3, PortFacts
    <3>2. CASE d # w /\ d = c BY <3>2, <1>1, <1>4, <2>1, PortFacts
    <3>3. CASE d # w /\ d # c BY <3>3, <1>1, <1>2, <1>4, <2>1 DEF Accepted
    <3> QED BY <3>1, <3>2, <3>3
  <2>5. TypeInv' BY <1>1, <1>2, <1>5, <2>1, <2>4 DEF TypeInv
  <2>6. ActiveReaders' = ActiveReaders \ {c}
    BY <1>1, <1>2, <1>4, <2>1, <2>3 DEF ActiveReaders
  <2>7. Cardinality(ActiveReaders \ {c}) <= 0
    BY <1>2, <1>8, <1>9, <1>12 DEF IInv, Counted, ScalarTypes
  <2>8. ActiveReaders' = {}
    <3>1. IsFiniteSet(ActiveReaders \ {c}) BY <1>8, FS_RemoveElement
    <3>2. Cardinality(ActiveReaders \ {c}) = 0
      BY <3>1, <2>7, FS_CardinalityType
    <3> QED BY <3>1, <3>2, <2>6, FS_EmptySet
  <2>9. \A d \in Clients : d \in ActiveWriters' => d = w \/ d \in ActiveWriters
    BY <1>1, <1>2, <1>4, <2>1, <2>3 DEF ActiveWriters
  <2>10. \A d, e \in ActiveWriters' : d = e
    BY <1>10, <2>9 DEF ActiveWriters
  <2>11. Cardinality(ActiveReaders') = 0 BY <2>8, FS_EmptySet
  <2>12. Counted'
    BY <1>2, <1>3, <1>12, <2>1, <2>2, <2>8, <2>10, <2>11
    DEF IInv, Counted, ScalarTypes
  <2> QED BY <2>5, <2>12 DEF IInv
<1>13. CASE /\ activeReaders = 1 /\ writers > 0 /\ DispatchWriter(f)
            /\ f["writerQ"] = <<>>
  BY <1>4, <1>11, <1>13, DispatchFacts
<1> QED BY <1>6, <1>11, <1>12, <1>13

LEMMA ServeWUnlockStep == ASSUME IInv, ServeWUnlock PROVE IInv'
<1> DEFINE c == Caller
           f == Forward("writer")
<1>1. port["server"] # <<>> /\ pc[c] = "wunlock" /\ pc' = pc
  BY DEF ServeWUnlock, Serve
<1>2. /\ c \in Clients /\ On(port, "server", c)
      /\ pc \in [Clients -> ClientStates] /\ Tidy(port) /\ Accepted /\ ScalarTypes
      /\ {"server", "readerQ", "writerQ", "reader", "writer"} \subseteq Ports
      /\ \A p \in Ports \ {"server"} : ~On(port, p, c)
      /\ Tidy(Received)
      /\ \A p \in Ports : \A d : On(Received, p, d) <=> On(port, p, d) /\ d # c
      /\ \A p \in Ports \ {"server"} : Received[p] = port[p]
  BY <1>1, ServeFacts
<1>3. /\ Tidy(f)
      /\ \A p \in Ports : \A d : On(f, p, d) <=>
           IF d = c THEN p = "writer" ELSE On(port, p, d)
      /\ \A p \in Ports \ {"server", "writer"} : f[p] = port[p]
  BY <1>1, <1>2, ForwardFacts
<1>4. \/ /\ port' = Received /\ writers' = writers /\ activeReaders' = activeReaders
      \/ /\ writers' = writers - 1 /\ activeReaders' = activeReaders
         /\ DispatchWriter(f)
      \/ /\ writers' = writers - 1 /\ writers <= 1 /\ AdmitReaders(f)
      \/ /\ writers' = writers - 1 /\ activeReaders' = activeReaders /\ port' = f
  BY DEF ServeWUnlock, counterVars
<1>5. ScalarTypes'
  <2>1. undefined' \in BOOLEAN /\ noWait' \in BOOLEAN /\ readers' \in Int
    BY <1>2 DEF ServeWUnlock, ScalarTypes, DispatchWriter, AdmitReaders, counterVars
  <2>2. signalPort2' \in Nat
    BY <1>2 DEF ServeWUnlock, ScalarTypes
  <2>3. writers' \in Int BY <1>2, <1>4 DEF ScalarTypes
  <2>4. activeReaders' \in Int BY <1>2, <1>4 DEF ScalarTypes, AdmitReaders
  <2>5. UNCHANGED <<tokenVars, writer, hold>> BY DEF ServeWUnlock, Serve
  <2> QED BY <1>2, <2>1, <2>2, <2>3, <2>4, <2>5 DEF ScalarTypes, tokenVars
<1> HIDE DEF c, f
<1>6. c \in ActiveWriters BY <1>1, <1>2 DEF ActiveWriters
<1>7. /\ IsFiniteSet(ActiveReaders) /\ Cardinality(ActiveReaders) \in Nat
      /\ Len(port["writerQ"]) \in Nat
  BY CounterFacts DEF IInv
<1>8. /\ ActiveReaders = {} /\ Cardinality(ActiveReaders) = 0
      /\ 0 <= activeReaders /\ Len(port["writerQ"]) < writers
      /\ \A d \in ActiveWriters : d = c
  BY <1>2, <1>6, <1>7, FS_EmptySet DEF IInv, Counted, ScalarTypes
<1>9. f["writerQ"] = port["writerQ"] /\ f["readerQ"] = port["readerQ"]
  BY <1>2, <1>3, PortFacts DEF TaskPorts
\* The message is dropped, or the client's was the only lock there was.
<1>10. CASE /\ port' \in {Received, f} /\ activeReaders' = activeReaders
            /\ writers' \in {writers, writers - 1}
  <2>1. /\ Tidy(port') /\ port'["writerQ"] = port["writerQ"]
        /\ \A p \in Ports : \A d : d # c => (On(port', p, d) <=> On(port, p, d))
        /\ \A p \in Ports : On(port', p, c) => p = "writer"
    BY <1>2, <1>3, <1>9, <1>10, PortFacts DEF TaskPorts
  <2>2. Accepted' BY <1>1, <1>2, <2>1, PortFacts DEF Accepted
  <2>3. ActiveReaders' = {}
    <3>1. \A d \in Clients : d \in ActiveReaders' => d \in ActiveReaders
      BY <1>1, <1>2, <2>1 DEF ActiveReaders
    <3> QED BY <3>1, <1>8 DEF ActiveReaders
  <2>4. ActiveWriters' = {}
    <3>1. \A d \in Clients : d \in ActiveWriters' => d \in ActiveWriters /\ d # c
      BY <1>1, <1>2, <2>1, PortFacts DEF ActiveWriters
    <3> QED BY <3>1, <1>8 DEF ActiveWriters
  <2>5. Counted'
    BY <1>2, <1>7, <1>8, <1>10, <2>1, <2>3, <2>4 DEF Counted, ScalarTypes
  <2> QED BY <1>1, <1>2, <1>5, <2>1, <2>2, <2>5 DEF IInv, TypeInv
\* The next writer is dispatched.
<1>11. CASE /\ writers' = writers - 1 /\ activeReaders' = activeReaders
            /\ DispatchWriter(f)
  <2> DEFINE w == Head(f["writerQ"])
  <2>1. CASE f["writerQ"] = <<>>
    <3>1. port' = f BY <1>3, <1>11, <2>1, DispatchFacts
    <3> QED BY <3>1, <1>10, <1>11
  <2>2. CASE f["writerQ"] # <<>>
    <3>1. /\ Tidy(port') /\ w \in Clients /\ On(f, "writerQ", w)
          /\ \A p \in Ports : \A d : On(port', p, d) <=>
               IF d = w THEN p = "writer" ELSE On(f, p, d)
          /\ Len(port'["writerQ"]) = Len(f["writerQ"]) - 1
          /\ Len(f["writerQ"]) \in Nat \ {0}
      BY <1>3, <1>11, <2>2, DispatchFacts
    <3> HIDE DEF w
    <3>2. On(port, "writerQ", w) /\ w # c /\ pc[w] = "wlock"
      BY <1>2, <1>3, <3>1, PortFacts DEF Accepted
    <3>3. Accepted'
      <4> SUFFICES ASSUME NEW p \in Ports, NEW d, On(port', p, d)
                   PROVE  pc'[d] \in Accepts(p)
        BY DEF Accepted
      <4>1. CASE d = w BY <4>1, <1>1, <3>1, <3>2, PortFacts
      <4>2. CASE d # w /\ d = c BY <4>2, <1>1, <1>3, <3>1, PortFacts
      <4>3. CASE d # w /\ d # c BY <4>3, <1>1, <1>2, <1>3, <3>1 DEF Accepted
      <4> QED BY <4>1, <4>2, <4>3
    <3>4. ActiveReaders' = {}
      <4>1. \A d \in Clients : d \in ActiveReaders' => d \in ActiveReaders
        BY <1>1, <1>2, <1>3, <3>1, <3>2 DEF ActiveReaders
      <4> QED BY <4>1, <1>8 DEF ActiveReaders
    <3>5. \A d \in ActiveWriters' : d = w
      <4>1. \A d \in Clients : d \in ActiveWriters' =>
                                 d = w \/ (d \in ActiveWriters /\ d # c)
        BY <1>1, <1>2, <1>3, <3>1, <3>2, PortFacts DEF ActiveWriters
      <4> QED BY <4>1, <1>8 DEF ActiveWriters
    <3>6. Cardinality(ActiveReaders') = 0 BY <3>4, FS_EmptySet
    <3>7. Counted'
      BY <1>2, <1>7, <1>8, <1>9, <1>11, <3>1, <3>4, <3>5, <3>6
      DEF Counted, ScalarTypes
    <3> QED BY <1>1, <1>2, <1>5, <3>1, <3>3, <3>7 DEF IInv, TypeInv
  <2> QED BY <2>1, <2>2
\* The readers held back are admitted.
<1>12. CASE writers' = writers - 1 /\ writers <= 1 /\ AdmitReaders(f)
  <2> DEFINE n == readers - activeReaders
             moved == {f["readerQ"][i] : i \in 1..n}
  <2>1. CASE port' = f /\ activeReaders' = activeReaders
    BY <1>10, <1>12, <2>1
  <2>2. CASE n \in 1..Len(f["readerQ"]) /\ port' = Admitted(f, n)
             /\ activeReaders' = activeReaders + n
    <3> HIDE DEF n
    <3>1. /\ Tidy(port') /\ IsFiniteSet(moved) /\ Cardinality(moved) <= n
          /\ \A d : On(port', "readerQ", d) <=> On(f, "readerQ", d) /\ d \notin moved
          /\ \A d : On(port', "reader", d) <=> On(f, "reader", d) \/ d \in moved
          /\ \A d \in moved : On(f, "readerQ", d)
          /\ \A r \in Ports \ {"reader", "readerQ"} : port'[r] = f[r]
      BY <1>3, <2>2, AdmittedTidy
    <3> HIDE DEF moved
    <3>2. \A r \in Ports \ {"reader", "readerQ"} :
            \A d : On(port', r, d) <=> On(f, r, d)
      BY <3>1 DEF On
    <3>3. \A d \in moved : d # c /\ d \in Clients /\ pc[d] = "rlock"
      <4> SUFFICES ASSUME NEW d \in moved
                   PROVE  d # c /\ d \in Clients /\ pc[d] = "rlock"
        OBVIOUS
      <4>1. "readerQ" \in Ports /\ On(f, "readerQ", d) BY <1>2, <3>1
      <4>2. d # c /\ On(port, "readerQ", d) BY <4>1, <1>3
      <4>3. d \in Clients BY <4>1, <4>2, <1>2 DEF Tidy, On
      <4>4. pc[d] \in Accepts("readerQ") BY <4>1, <4>2, <1>2 DEF Accepted
      <4> QED BY <4>2, <4>3, <4>4, PortFacts
    <3>4. Accepted'
      <4> SUFFICES ASSUME NEW p \in Ports, NEW d, On(port', p, d)
                   PROVE  pc'[d] \in Accepts(p)
        BY DEF Accepted
      <4>1. CASE p = "reader" /\ d \in moved
        BY <4>1, <1>1, <3>3, PortFacts
      <4>2. CASE ~(p = "reader" /\ d \in moved)
        <5>1. On(f, p, d) BY <4>2, <3>1, <3>2
        <5>2. CASE d = c BY <5>1, <5>2, <1>1, <1>3, PortFacts
        <5>3. CASE d # c BY <5>1, <5>3, <1>1, <1>2, <1>3 DEF Accepted
        <5> QED BY <5>2, <5>3
      <4> QED BY <4>1, <4>2
    <3>5. ActiveReaders' \subseteq moved
      <4>1. \A d \in Clients : d \in ActiveReaders' => d \in ActiveReaders \/ d \in moved
        BY <1>1, <1>2, <1>3, <3>1, <3>2, PortFacts DEF ActiveReaders, TaskPorts
      <4> QED BY <4>1, <1>8 DEF ActiveReaders
    <3>6. Cardinality(ActiveReaders') <= n
      <4>1. Cardinality(ActiveReaders') <= Cardinality(moved)
            /\ IsFiniteSet(ActiveReaders')
        BY <3>1, <3>5, FS_Subset
      <4>2. n \in Int /\ Cardinality(moved) \in Nat /\ Cardinality(ActiveReaders') \in Nat
        BY <2>2, <3>1, <4>1, FS_CardinalityType
      <4> QED BY <3>1, <4>1, <4>2
    <3>7. ActiveWriters' = {}
      <4>1. \A d \in Clients : d \in ActiveWriters' => d \in ActiveWriters /\ d # c
        BY <1>1, <1>2, <1>3, <3>2, PortFacts DEF ActiveWriters, TaskPorts
      <4> QED BY <4>1, <1>8 DEF ActiveWriters
    <3>8. port'["writerQ"] = port["writerQ"]
      BY <1>9, <3>1, PortFacts DEF TaskPorts
    <3>9. Cardinality(ActiveReaders') \in Nat
      BY <3>1, <3>5, FS_Subset, FS_CardinalityType
    <3>10. Counted'
      BY <1>2, <1>7, <1>8, <1>12, <2>2, <3>6, <3>7, <3>8, <3>9
      DEF Counted, ScalarTypes
    <3> QED BY <1>1, <1>2, <1>5, <3>1, <3>4, <3>10 DEF IInv, TypeInv
  <2>3. \/ port' = f /\ activeReaders' = activeReaders
        \/ /\ n \in 1..Len(f["readerQ"]) /\ port' = Admitted(f, n)
           /\ activeReaders' = activeReaders + n
    <3>1. readers \in Int /\ activeReaders \in Int BY <1>2 DEF ScalarTypes
    <3>2. activeReaders + n = readers BY <3>1
    <3> HIDE DEF moved
    <3>3. \/ port' = f /\ activeReaders' = activeReaders
          \/ /\ n \in 1..Len(f["readerQ"]) /\ activeReaders' = readers
             /\ port' = Admitted(f, n)
      BY <1>12 DEF AdmitReaders, Admitted
    <3> QED BY <3>2, <3>3
  <2> HIDE DEF n
  <2> QED BY <2>1, <2>2, <2>3
<1> QED BY <1>4, <1>10, <1>11, <1>12

-----------------------------------------------------------------------------
LEMMA InitIInv == ASSUME Init PROVE IInv
<1>1. \A p \in Ports : port[p] = <<>> BY DEF Init
<1>2. port \in [Ports -> Seq(Clients)] BY DEF Init
<1>3. \A p \in Ports : \A c : ~On(port, p, c) BY <1>1 DEF On
<1>4. Tidy(port) BY <1>1, <1>2 DEF Tidy
<1>5. ScalarTypes
  <2>1. <<>> \in Seq(Tokens) BY EmptySeq
  <2>2. token \in [Tokens -> TokenStates] /\ writer \in TokenStates
    BY DEF Init, TokenStates
  <2>3. readers \in Int /\ activeReaders \in Int /\ writers \in Int
        /\ signalPort2 \in Nat /\ hold \in Int
    BY DEF Init
  <2>4. noWait \in BOOLEAN /\ undefined \in BOOLEAN BY DEF Init
  <2>5. workerPort \in Seq(Tokens) /\ signalPort \in Seq(Tokens) BY <2>1 DEF Init
  <2> QED BY <2>2, <2>3, <2>4, <2>5 DEF ScalarTypes
<1>9. pc \in [Clients -> ClientStates] BY DEF Init, ClientStates
<1>10. TypeInv BY <1>3, <1>4, <1>5, <1>9 DEF TypeInv, Accepted
<1>6. ActiveReaders = {} /\ ActiveWriters = {}
  BY DEF Init, ActiveReaders, ActiveWriters
<1>7. Len(port["writerQ"]) = 0 BY <1>1, PortFacts
<1>8. Counted BY <1>6, <1>7, FS_EmptySet DEF Init, Counted
<1> QED BY <1>8, <1>10 DEF IInv

LEMMA NextIInv == ASSUME IInv, [Next]_vars PROVE IInv'
<1>1. ScalarTypes BY DEF IInv, TypeInv
<1>2. ASSUME NEW c \in Clients, Request(c) \/ Release(c) PROVE IInv'
  BY <1>2, CallStep
<1>3. CASE Server
  BY <1>3, ServeRLockStep, ServeRUnlockStep, ServeWLockStep, ServeWUnlockStep
  DEF Server
<1>4. CASE Semaphore
  <2>1. Head(workerPort) \in Tokens /\ Tail(workerPort) \in Seq(Tokens)
    BY <1>1, <1>4, HeadTailProperties DEF Semaphore, ScalarTypes
  <2>2. ScalarTypes'
    BY <1>1, <1>4, <2>1 DEF Semaphore, WorkersLeft, ScalarTypes, counterVars, writerVars
  <2> QED BY <1>4, <2>1, <2>2, PassStep DEF Semaphore, counterVars
<1>5. CASE Signal
  <2>1. ScalarTypes'
    BY <1>1, <1>5, HeadTailProperties
    DEF Signal, ScalarTypes, counterVars, writerVars
  <2>2. CASE signalPort # <<>>
    <3>1. Head(signalPort) \in Tokens
      BY <1>1, <2>2, HeadTailProperties DEF ScalarTypes
    <3> QED BY <1>5, <2>1, <2>2, <3>1, PassStep
        DEF Signal, counterVars
  <2>3. CASE signalPort = <<>>
    <3>1. port["unlock"] # <<>> /\ port' = Drop(port, "unlock")
      BY <1>5, <2>3 DEF Signal
    <3>2. "unlock" \in Ports /\ Tidy(port) /\ TypeInv BY PortFacts DEF IInv, TypeInv
    <3>3. /\ Tidy(port')
          /\ On(port, "unlock", Head(port["unlock"]))
          /\ \A r \in Ports : \A d : On(port', r, d) <=>
                                 On(port, r, d) /\ d # Head(port["unlock"])
          /\ \A r \in Ports \ {"unlock"} : port'[r] = port[r]
      BY <3>1, <3>2, DropTidy
    <3>4. \A r \in {"server", "readerQ", "writerQ"} : r \in Ports /\ port'[r] = port[r]
      BY <3>3, PortFacts DEF TaskPorts
    <3>5. pc' = pc /\ UNCHANGED <<activeReaders, writers>>
      BY <1>5 DEF Signal, counterVars
    <3>6. Accepted' BY <3>2, <3>3, <3>5 DEF Accepted, TypeInv
    <3>7. \A r \in {"server", "readerQ", "writerQ"} :
            \A d : On(port', r, d) <=> On(port, r, d)
      BY <3>4 DEF On
    <3>8. ActiveReaders' = ActiveReaders /\ ActiveWriters' = ActiveWriters
      BY <3>5, <3>7 DEF ActiveReaders, ActiveWriters
    <3>9. Counted' BY <3>4, <3>5, <3>8, CountedSame
    <3> QED BY <2>1, <3>2, <3>3, <3>5, <3>6, <3>9 DEF IInv, TypeInv
  <2> QED BY <2>2, <2>3
<1>6. ASSUME NEW t \in Tokens, Token(t) PROVE IInv'
  <2>1. CASE TokenStarts(t)
    <3>1. ScalarTypes'
      BY <1>1, <2>1, AppendProperties
      DEF TokenStarts, ScalarTypes, TokenStates, counterVars, writerVars
    <3> QED BY <2>1, <3>1, QuietStep DEF TokenStarts, counterVars
  <2>2. CASE TokenReceives(t)
    <3>1. token' \in [Tokens -> TokenStates]
      BY <1>1, <2>2 DEF TokenReceives, ScalarTypes, TokenStates
    <3>2. Append(signalPort, t) \in Seq(Tokens)
      BY <1>1, <1>6, AppendProperties DEF ScalarTypes
    <3>3. signalPort' = signalPort \/ signalPort' = Append(signalPort, t) BY <2>2 DEF TokenReceives
    <3>4. hold' = hold \/ hold' = hold + 1 BY <2>2 DEF TokenReceives
    <3>5. signalPort' \in Seq(Tokens) /\ hold' \in Int
      BY <1>1, <3>2, <3>3, <3>4 DEF ScalarTypes
    <3>6. ScalarTypes'
      BY <1>1, <2>2, <3>1, <3>5
      DEF TokenReceives, ScalarTypes, counterVars, writerVars
    <3> QED BY <2>2, <3>6, QuietStep DEF TokenReceives, counterVars
  <2>3. CASE TokenReplies(t)
    <3>1. ScalarTypes'
      BY <1>1, <2>3 DEF TokenReplies, ScalarTypes, TokenStates, counterVars, writerVars
    <3> QED BY <2>3, <3>1, ReplyStep DEF TokenReplies, counterVars
  <2>4. CASE TokenEndsCycle(t)
    <3>1. token' \in [Tokens -> TokenStates]
      BY <1>1, <2>4 DEF TokenEndsCycle, ScalarTypes, TokenStates
    <3>2. Append(workerPort, t) \in Seq(Tokens)
      BY <1>1, <1>6, AppendProperties DEF ScalarTypes
    <3>3. workerPort' = workerPort \/ workerPort' = Append(workerPort, t) BY <2>4 DEF TokenEndsCycle
    <3>4. hold' = hold \/ hold' = hold - 1 BY <2>4 DEF TokenEndsCycle
    <3>5. workerPort' \in Seq(Tokens) BY <1>1, <3>2, <3>3 DEF ScalarTypes
    <3>6. hold' \in Int BY <1>1, <3>4 DEF ScalarTypes
    <3>7. ScalarTypes'
      BY <1>1, <2>4, <3>1, <3>5, <3>6
      DEF TokenEndsCycle, ScalarTypes, counterVars, writerVars
    <3> QED BY <2>4, <3>7, QuietStep DEF TokenEndsCycle, counterVars
  <2> QED BY <1>6, <2>1, <2>2, <2>3, <2>4 DEF Token
<1>7. CASE Writer
  <2>1. CASE WriterReceives
    <3>1. ScalarTypes'
      BY <1>1, <2>1
      DEF WriterReceives, WriterAnnounced, ScalarTypes, TokenStates, counterVars, tokenVars
    <3> QED BY <2>1, <3>1, QuietStep DEF WriterReceives, counterVars
  <2>2. CASE WriterReplies
    <3>1. ScalarTypes'
      BY <1>1, <2>2 DEF WriterReplies, ScalarTypes, TokenStates, counterVars, tokenVars
    <3> QED BY <2>2, <3>1, ReplyStep DEF WriterReplies, counterVars
  <2>3. CASE WriterEndsCycle
    <3>1. ScalarTypes'
      BY <1>1, <2>3
      DEF WriterEndsCycle, ScalarTypes, TokenStates, counterVars, tokenVars
    <3> QED BY <2>3, <3>1, QuietStep DEF WriterEndsCycle, counterVars
  <2> QED BY <1>7, <2>1, <2>2, <2>3 DEF Writer
<1>8. CASE UNCHANGED vars
  <2>1. ScalarTypes' BY <1>1, <1>8
    DEF vars, ScalarTypes, counterVars, tokenVars, writerVars
  <2> QED BY <1>8, <2>1, QuietStep DEF vars, counterVars
<1> QED BY <1>2, <1>3, <1>4, <1>5, <1>6, <1>7, <1>8 DEF Next

\* The inductive invariant holds in every behaviour.
THEOREM Counting == Spec => []IInv
<1>1. Init => IInv BY InitIInv
<1>2. IInv /\ [Next]_vars => IInv' BY NextIInv
<1> QED BY <1>1, <1>2, PTL DEF Spec

\* Every variable stays in its type, and no port of RWLock_Server::run or of
\* its tasks ever holds a request that the task behind it does not serve.
THEOREM TypeCorrectness == Spec => []TypeOK
<1>1. IInv => TypeOK BY TypeInvImpliesTypeOK DEF IInv
<1> QED BY <1>1, Counting, PTL

\* The counters of RWLock_Server::run admit a writer only when no reader and
\* no other writer has the lock, and readers only when no writer has it.
THEOREM Exclusion == Spec => []MutualExclusion
<1>1. ASSUME IInv PROVE MutualExclusion
  <2>1. Readers \subseteq ActiveReaders /\ Writers \subseteq ActiveWriters
    BY DEF Readers, Writers, ActiveReaders, ActiveWriters
  <2> QED BY <1>1, <2>1 DEF IInv, Counted, MutualExclusion
<1>2. IInv => MutualExclusion BY <1>1
<1> QED BY <1>2, Counting, PTL

-----------------------------------------------------------------------------
(***************************************************************************)
(* The rest of what the run checks: every unlock finds its token, nobody   *)
(* is stranded, and the lock implements the abstract one.  For this the    *)
(* counters must be exact, and each token must have the messages that its  *)
(* state and the queues of free and signalled tokens say.                  *)
(***************************************************************************)

Queued(q, t) == \E i \in DOMAIN q : q[i] = t
NoRepeats(q) == \A i, j \in DOMAIN q : q[i] = q[j] => i = j

\* A port with one message, or two, that call these entries.
One(q, entry) == \E c \in Clients : q = <<c>> /\ pc[c] = entry
Two(q, first, second) ==
  \E c, d \in Clients : q = <<c, d>> /\ pc[c] = first /\ pc[d] = second

\* A token is on worker_port while it is free, and on signal_port from its
\* lock until an unlock is sent to it.
TokenFits(t) ==
  \/ /\ token[t] \in {"created", "unlocked"}
     /\ ~Queued(workerPort, t) /\ ~Queued(signalPort, t) /\ port[t] = <<>>
  \/ /\ token[t] = "free" /\ ~Queued(signalPort, t)
     /\ IF Queued(workerPort, t) THEN port[t] = <<>> ELSE One(port[t], "rlock")
  \/ /\ token[t] = "lock" /\ ~Queued(workerPort, t)
     /\ IF Queued(signalPort, t) THEN One(port[t], "rlock")
                                 ELSE Two(port[t], "rlock", "runlock")
  \/ /\ token[t] \in {"locked", "held"} /\ ~Queued(workerPort, t)
     /\ IF Queued(signalPort, t) THEN port[t] = <<>> ELSE One(port[t], "runlock")
  \/ /\ token[t] = "unlock"
     /\ ~Queued(workerPort, t) /\ ~Queued(signalPort, t) /\ One(port[t], "runlock")

\* The readers whose unlock has not yet been given to a token.
Owed == {c \in Clients :
  \/ pc[c] = "reading"
  \/ pc[c] = "runlock" /\ (On(port, "server", c) \/ On(port, "unlock", c))
  \/ pc[c] = "rlock" /\ \E t \in Tokens : token[t] = "lock" /\ On(port, t, c)}

\* The writer whose unlock has not yet been given to the Writer_Token.
Holding == {c \in Clients :
  pc[c] = "writing" \/ (pc[c] = "wunlock" /\ On(port, "server", c))}

WriterFits ==
  LET q == port["writer"] IN
  \/ /\ writer \in {"free", "unlocked"} /\ signalPort2 = 0 /\ Holding = {}
     /\ q = <<>> \/ One(q, "wlock")
  \/ /\ writer = "lock" /\ signalPort2 = 1 /\ Holding = {} /\ One(q, "wlock")
  \/ /\ writer \in {"locked", "held"} /\ signalPort2 = 1 /\ Holding # {} /\ q = <<>>
  \/ /\ writer \in {"locked", "held", "unlock"} /\ signalPort2 = 0 /\ Holding = {}
     /\ One(q, "wunlock") \/ Two(q, "wunlock", "wlock")

\* The counters are not only bounds, and nobody is held back without cause.
Exact ==
  /\ activeReaders = Cardinality(ActiveReaders)
  /\ readers = activeReaders + Len(port["readerQ"])
  /\ writers = Len(port["writerQ"]) + Cardinality(ActiveWriters)
  /\ port["readerQ"] # <<>> => writers > 0
  /\ port["writerQ"] # <<>> => ActiveReaders # {} \/ ActiveWriters # {}

\* There is a token on signal_port for each unlock to come.
Signalled ==
  /\ NoRepeats(workerPort) /\ NoRepeats(signalPort)
  /\ Cardinality(Owed) = Len(signalPort)

\* Nobody waits for the reply to a message that is nowhere.
Carried == \A c \in Clients : pc[c] \in Entries => \E p \in Ports : On(port, p, c)

TokensFit == \A t \in Tokens : TokenFits(t)

Agreed ==
  IInv /\ TokensFit /\ WriterFits /\ Exact /\ Signalled /\ Carried /\ EveryRequestAnswerable

-----------------------------------------------------------------------------
\* The queues of tokens.

LEMMA AppendQueue ==
  ASSUME NEW q \in Seq(Tokens), NoRepeats(q), NEW t \in Tokens, ~Queued(q, t)
  PROVE  /\ NoRepeats(Append(q, t)) /\ Len(Append(q, t)) = Len(q) + 1
         /\ Len(q) \in Nat
         /\ \A u : Queued(Append(q, t), u) <=> Queued(q, u) \/ u = t
<1> DEFINE r == Append(q, t)
           n == Len(q)
<1>1. /\ n \in Nat /\ DOMAIN q = 1..n /\ DOMAIN r = 1..(n + 1) /\ Len(r) = n + 1
      /\ \A i \in 1..n : r[i] = q[i]
      /\ r[n + 1] = t
  BY AppendProperties, LenProperties
<1>2. \A i \in 1..(n + 1) : i \in 1..n \/ i = n + 1 BY <1>1
<1> HIDE DEF r, n
<1>3. NoRepeats(r) BY <1>1, <1>2 DEF NoRepeats, Queued
<1>4. ASSUME NEW u PROVE Queued(r, u) <=> Queued(q, u) \/ u = t
  <2>1. \A i \in 1..n : i \in 1..(n + 1) BY <1>1
  <2>2. n + 1 \in 1..(n + 1) BY <1>1
  <2> QED BY <1>1, <1>2, <2>1, <2>2 DEF Queued
<1> QED BY <1>1, <1>3, <1>4 DEF r, n

LEMMA TailQueue ==
  ASSUME NEW q \in Seq(Tokens), NoRepeats(q), q # <<>>
  PROVE  /\ Head(q) \in Tokens /\ Queued(q, Head(q))
         /\ NoRepeats(Tail(q)) /\ Len(Tail(q)) = Len(q) - 1 /\ Len(q) \in Nat \ {0}
         /\ \A u : Queued(Tail(q), u) <=> Queued(q, u) /\ u # Head(q)
<1> DEFINE r == Tail(q)
           n == Len(q)
<1>1. /\ n \in Nat /\ n # 0 /\ DOMAIN q = 1..n /\ DOMAIN r = 1..(n - 1) /\ Len(r) = n - 1
      /\ \A i \in 1..(n - 1) : r[i] = q[i + 1]
      /\ Head(q) = q[1] /\ Head(q) \in Tokens
  <2>1. r \in Seq(Tokens) /\ Len(r) = n - 1 /\ \A i \in 1..Len(r) : r[i] = q[i + 1]
        /\ Head(q) = q[1] /\ Head(q) \in Tokens
    BY HeadTailProperties
  <2> QED BY <2>1, LenProperties, EmptySeq
<1>2. \A i \in 1..n : i = 1 \/ (i - 1 \in 1..(n - 1) /\ (i - 1) + 1 = i) BY <1>1
<1>3. \A i \in 1..(n - 1) : i + 1 \in 1..n /\ i + 1 # 1 BY <1>1
<1>4. 1 \in 1..n BY <1>1
<1> HIDE DEF r, n
<1>5. NoRepeats(r)
  <2> SUFFICES ASSUME NEW i \in 1..(n - 1), NEW j \in 1..(n - 1), r[i] = r[j]
               PROVE  i = j
    BY <1>1 DEF NoRepeats
  <2>1. i + 1 = j + 1 BY <1>1, <1>3 DEF NoRepeats
  <2> QED BY <2>1, <1>1
<1>6. ASSUME NEW u PROVE Queued(r, u) <=> Queued(q, u) /\ u # Head(q)
  <2>1. ASSUME Queued(r, u) PROVE Queued(q, u) /\ u # Head(q)
    <3>1. PICK i \in 1..(n - 1) : r[i] = u BY <2>1, <1>1 DEF Queued
    <3>2. i + 1 \in 1..n /\ q[i + 1] = u /\ i + 1 # 1 BY <3>1, <1>1, <1>3
    <3> QED BY <3>2, <1>1, <1>4 DEF Queued, NoRepeats
  <2>2. ASSUME Queued(q, u), u # Head(q) PROVE Queued(r, u)
    <3>1. PICK i \in 1..n : q[i] = u BY <2>2, <1>1 DEF Queued
    <3>2. i # 1 BY <3>1, <2>2, <1>1
    <3>3. i - 1 \in 1..(n - 1) /\ r[i - 1] = u BY <3>1, <3>2, <1>1, <1>2
    <3> QED BY <3>3, <1>1 DEF Queued
  <2> QED BY <2>1, <2>2
<1>7. Queued(q, Head(q)) BY <1>1, <1>4 DEF Queued
<1> QED BY <1>1, <1>5, <1>6, <1>7 DEF r, n

\* A queue without repetition is no longer than there are tokens.
LEMMA QueueBounded ==
  ASSUME NEW q \in Seq(Tokens), NoRepeats(q)
  PROVE  /\ Len(q) <= Cardinality(Tokens) /\ Cardinality(Tokens) \in Nat /\ Len(q) \in Nat
<1>1. Len(q) \in Nat /\ DOMAIN q = 1..Len(q) /\ \A i \in 1..Len(q) : q[i] \in Tokens
  BY LenProperties
<1>2. IsFiniteSet(Tokens) BY TokensAssumption
<1> DEFINE f == [i \in 1..Len(q) |-> q[i]]
<1>3. f \in Injection(1..Len(q), Tokens) BY <1>1 DEF Injection, IsInjective, NoRepeats
<1>4. ASSUME NEW n \in Nat PROVE IsFiniteSet(1..n) /\ Cardinality(1..n) = n
  BY FS_Interval
<1>5. Cardinality(1..Len(q)) <= Cardinality(Tokens)
  BY <1>1, <1>2, <1>3, <1>4, FS_Injection
<1> QED BY <1>1, <1>2, <1>4, <1>5, FS_CardinalityType

\* What the steps do to short queues of messages.
LEMMA ShortQueues ==
  ASSUME NEW c, NEW d
  PROVE  /\ Append(<<>>, c) = <<c>> /\ Append(<<d>>, c) = <<d, c>>
         /\ Tail(<<c>>) = <<>> /\ Tail(<<d, c>>) = <<c>>
         /\ Head(<<c>>) = c /\ Head(<<d, c>>) = d
         /\ <<c>> # <<>> /\ <<d, c>> # <<>>
         /\ Len(<<c>>) = 1 /\ Len(<<d, c>>) = 2 /\ <<c>> # <<c, d>>
         /\ <<c>>[1] = c /\ <<d, c>>[1] = d /\ <<d, c>>[2] = c
         /\ DOMAIN <<c>> = {1} /\ DOMAIN <<d, c>> = {1, 2}
<1>1. DOMAIN <<c>> = {1} /\ DOMAIN <<d, c>> = {1, 2} OBVIOUS
<1>2. <<c>>[1] = c /\ <<d, c>>[1] = d /\ <<d, c>>[2] = c OBVIOUS
<1>3. Len(<<c>>) = 1 /\ Len(<<d, c>>) = 2 OBVIOUS
<1>4. <<c>> # <<>> /\ <<d, c>> # <<>> /\ <<c>> # <<c, d>> OBVIOUS
<1>5. Head(<<c>>) = c /\ Head(<<d, c>>) = d OBVIOUS
<1>6. Tail(<<c>>) = <<>> OBVIOUS
<1>7. Tail(<<d, c>>) = <<c>> OBVIOUS
<1>8. Append(<<>>, c) = <<c>> OBVIOUS
<1>9. Append(<<d>>, c) = <<d, c>>
  <2> DEFINE S == {c, d}
  <2>1. <<d>> \in Seq(S) /\ <<d, c>> \in Seq(S) /\ c \in S OBVIOUS
  <2>2. Len(<<d>>) = 1 /\ Len(<<d, c>>) = 2 /\ <<d>>[1] = d OBVIOUS
  <2> HIDE DEF S
  <2>3. /\ Append(<<d>>, c) \in Seq(S) /\ Len(Append(<<d>>, c)) = 2
        /\ Append(<<d>>, c)[1] = d /\ Append(<<d>>, c)[2] = c
    BY <2>1, <2>2, AppendProperties
  <2>4. \A i \in 1..2 : i = 1 \/ i = 2 OBVIOUS
  <2> QED BY <1>2, <2>1, <2>2, <2>3, <2>4, SeqEqual
<1> QED BY <1>1, <1>2, <1>3, <1>4, <1>5, <1>6, <1>7, <1>8, <1>9

\* Whose messages are on a port with at most two.
LEMMA OnShort ==
  ASSUME NEW f, NEW p, NEW e
  PROVE  /\ f[p] = <<>> => ~On(f, p, e)
         /\ \A c : f[p] = <<c>> => (On(f, p, e) <=> e = c)
         /\ \A c, d : f[p] = <<c, d>> => (On(f, p, e) <=> e \in {c, d})
<1>1. ASSUME f[p] = <<>> PROVE ~On(f, p, e) BY <1>1 DEF On
<1>2. ASSUME NEW c, f[p] = <<c>> PROVE On(f, p, e) <=> e = c
  <2>1. DOMAIN f[p] = {1} /\ f[p][1] = c BY <1>2, ShortQueues
  <2> QED BY <2>1 DEF On
<1>3. ASSUME NEW c, NEW d, f[p] = <<c, d>> PROVE On(f, p, e) <=> e \in {c, d}
  <2>1. DOMAIN f[p] = {1, 2} /\ f[p][1] = c /\ f[p][2] = d BY <1>3, ShortQueues
  <2> QED BY <2>1 DEF On
<1> QED BY <1>1, <1>2, <1>3

-----------------------------------------------------------------------------
\* What a step leaves alone stays as it is.

LEMMA FitsSame ==
  ASSUME NEW t \in Tokens, TokenFits(t), token'[t] = token[t], port'[t] = port[t],
         Queued(workerPort', t) <=> Queued(workerPort, t),
         Queued(signalPort', t) <=> Queued(signalPort, t),
         \A c \in Clients : On(port, t, c) => pc'[c] = pc[c]
  PROVE  TokenFits(t)'
<1>1. ASSUME NEW e, One(port[t], e) PROVE One(port[t], e)'
  <2>1. PICK c \in Clients : port[t] = <<c>> /\ pc[c] = e BY <1>1 DEF One
  <2>2. On(port, t, c) BY <2>1, OnShort
  <2> QED BY <2>1, <2>2 DEF One
<1>2. ASSUME Two(port[t], "rlock", "runlock") PROVE Two(port[t], "rlock", "runlock")'
  <2>1. PICK c \in Clients, d \in Clients :
          port[t] = <<c, d>> /\ pc[c] = "rlock" /\ pc[d] = "runlock"
    BY <1>2 DEF Two
  <2>2. On(port, t, c) /\ On(port, t, d) BY <2>1, OnShort
  <2> QED BY <2>1, <2>2 DEF Two
<1>3. CASE port[t] = <<>> BY <1>1, <1>2, <1>3 DEF TokenFits
<1>4. /\ One(port[t], "rlock") => One(port[t], "rlock")'
      /\ One(port[t], "runlock") => One(port[t], "runlock")'
  BY <1>1
<1> QED BY <1>2, <1>4 DEF TokenFits

LEMMA WriterSame ==
  ASSUME WriterFits, writer' = writer, signalPort2' = signalPort2, Holding' = Holding,
         port'["writer"] = port["writer"],
         \A c \in Clients : On(port, "writer", c) => pc'[c] = pc[c]
  PROVE  WriterFits'
<1>1. ASSUME NEW e, One(port["writer"], e) PROVE One(port["writer"], e)'
  <2>1. PICK c \in Clients : port["writer"] = <<c>> /\ pc[c] = e BY <1>1 DEF One
  <2>2. On(port, "writer", c) BY <2>1, OnShort
  <2> QED BY <2>1, <2>2 DEF One
<1>2. ASSUME Two(port["writer"], "wunlock", "wlock")
      PROVE  Two(port["writer"], "wunlock", "wlock")'
  <2>1. PICK c \in Clients, d \in Clients :
          port["writer"] = <<c, d>> /\ pc[c] = "wunlock" /\ pc[d] = "wlock"
    BY <1>2 DEF Two
  <2>2. On(port, "writer", c) /\ On(port, "writer", d) BY <2>1, OnShort
  <2> QED BY <2>1, <2>2 DEF Two
<1>3. /\ One(port["writer"], "wlock") => One(port["writer"], "wlock")'
      /\ One(port["writer"], "wunlock") => One(port["writer"], "wunlock")'
  BY <1>1
<1> QED BY <1>2, <1>3 DEF WriterFits

LEMMA ExactSame ==
  ASSUME Exact, ActiveReaders' = ActiveReaders, ActiveWriters' = ActiveWriters,
         port'["readerQ"] = port["readerQ"], port'["writerQ"] = port["writerQ"],
         UNCHANGED counterVars
  PROVE  Exact'
BY DEF Exact, counterVars

LEMMA SignalledSame ==
  ASSUME Signalled, Owed' = Owed, UNCHANGED <<workerPort, signalPort>>
  PROVE  Signalled'
BY DEF Signalled

LEMMA AgreedFacts ==
  ASSUME Agreed
  PROVE  /\ pc \in [Clients -> ClientStates] /\ Tidy(port) /\ Accepted /\ ScalarTypes
         /\ port \in [Ports -> Seq(Clients)]
         /\ {"server", "readerQ", "writerQ", "reader", "unlock", "writer"} \subseteq Ports
         /\ Tokens \subseteq Ports
         /\ \A t \in Tokens :
              t \notin {"server", "readerQ", "writerQ", "reader", "unlock", "writer"}
         /\ \A p \in Ports : \A c : On(port, p, c) => c \in Clients
         /\ \A p, q \in Ports : \A c : On(port, p, c) /\ On(port, q, c) => p = q
         /\ \A t \in Tokens : TokenFits(t)
<1>1. Tidy(port) BY DEF Agreed, IInv, TypeInv
<1>2. port \in [Ports -> Seq(Clients)] BY <1>1 DEF Tidy
<1>3. ASSUME NEW p \in Ports, NEW c, On(port, p, c) PROVE c \in Clients
  <2>1. port[p] \in Seq(Clients) BY <1>2
  <2>2. PICK i \in DOMAIN port[p] : port[p][i] = c BY <1>3 DEF On
  <2> QED BY <2>1, <2>2
<1>4. \A p, q \in Ports : \A c : On(port, p, c) /\ On(port, q, c) => p = q
  BY <1>1 DEF Tidy, On
<1> QED BY <1>1, <1>2, <1>3, <1>4, PortFacts DEF Agreed, IInv, TypeInv, TokensFit

-----------------------------------------------------------------------------
LEMMA CallAgreed ==
  ASSUME Agreed, NEW c \in Clients, Request(c) \/ Release(c), IInv'
  PROVE  Agreed'
<1>1. PICK from, entry :
        /\ Call(c, from, entry)
        /\ <<from, entry>> \in {<<"idle", "rlock">>, <<"idle", "wlock">>,
                                <<"reading", "runlock">>, <<"writing", "wunlock">>}
  BY DEF Request, Release
<1>2. /\ pc \in [Clients -> ClientStates] /\ Tidy(port) /\ Accepted
      /\ {"server", "readerQ", "writerQ", "reader", "unlock", "writer"} \subseteq Ports
      /\ Tokens \subseteq Ports
      /\ \A t \in Tokens :
           t \notin {"server", "readerQ", "writerQ", "reader", "unlock", "writer"}
      /\ \A t \in Tokens : TokenFits(t)
  BY AgreedFacts
<1>3. pc[c] = from /\ pc' = [pc EXCEPT ![c] = entry] /\ port' = Put(port, "server", c)
  BY <1>1 DEF Call
<1>4. pc'[c] = entry /\ \A d \in Clients \ {c} : pc'[d] = pc[d] BY <1>2, <1>3
<1>5. from \notin Entries /\ entry \in Entries BY <1>1 DEF Entries
<1>6. \A q \in Ports : ~On(port, q, c)
  BY <1>2, <1>3, <1>5, AcceptsEntries DEF Accepted
<1>7. /\ \A q \in Ports : \A d : On(port', q, d) <=>
                                   On(port, q, d) \/ (q = "server" /\ d = c)
      /\ \A q \in Ports \ {"server"} : port'[q] = port[q]
  BY <1>2, <1>3, <1>6, PutTidy
<1>8. UNCHANGED <<counterVars, tokenVars, writerVars, noWait, undefined>>
  BY <1>1 DEF Call
<1>9. \A q \in Ports : \A d \in Clients : On(port, q, d) => pc'[d] = pc[d]
  BY <1>4, <1>6
<1>10. ActiveReaders' = ActiveReaders
  BY <1>1, <1>2, <1>3, <1>4, <1>6, <1>7 DEF ActiveReaders
<1>11. ActiveWriters' = ActiveWriters
  BY <1>1, <1>2, <1>3, <1>4, <1>6, <1>7 DEF ActiveWriters
<1>12. Holding' = Holding BY <1>1, <1>2, <1>3, <1>4, <1>6, <1>7 DEF Holding
<1>13. Owed' = Owed
  <2>1. ASSUME NEW d \in Clients PROVE d \in Owed' <=> d \in Owed
    <3>1. token' = token BY <1>8 DEF tokenVars
    <3>2. \A t \in Tokens : On(port', t, d) <=> On(port, t, d) BY <1>2, <1>7
    <3>3. (\E t \in Tokens : token'[t] = "lock" /\ On(port', t, d)) <=>
          (\E t \in Tokens : token[t] = "lock" /\ On(port, t, d))
      BY <3>1, <3>2
    <3>4. d = c => ~\E t \in Tokens : token[t] = "lock" /\ On(port, t, d) BY <1>2, <1>6
    <3> QED BY <1>1, <1>2, <1>3, <1>4, <1>6, <1>7, <3>3, <3>4 DEF Owed
  <2> QED BY <2>1 DEF Owed
<1>14. TokensFit'
  <2> SUFFICES ASSUME NEW t \in Tokens PROVE TokenFits(t)' BY DEF TokensFit
  <2> QED BY <1>2, <1>7, <1>8, <1>9, FitsSame DEF tokenVars
<1>15. WriterFits'
  BY <1>2, <1>7, <1>8, <1>9, <1>12, WriterSame DEF writerVars, Agreed
<1>16. Exact' BY <1>2, <1>7, <1>8, <1>10, <1>11, ExactSame DEF Agreed
<1>17. Signalled' BY <1>8, <1>13, SignalledSame DEF tokenVars, Agreed
<1>18. Carried'
  <2> SUFFICES ASSUME NEW d \in Clients, pc'[d] \in Entries
               PROVE  \E p \in Ports : On(port', p, d)
    BY DEF Carried
  <2>1. CASE d = c BY <2>1, <1>2, <1>7
  <2>2. CASE d # c BY <2>2, <1>4, <1>7 DEF Agreed, Carried
  <2> QED BY <2>1, <2>2
<1> QED BY <1>8, <1>14, <1>15, <1>16, <1>17, <1>18 DEF Agreed, EveryRequestAnswerable

-----------------------------------------------------------------------------
\* A reply wakes the client of the message, and the server learns nothing.
LEMMA ReplyFacts ==
  ASSUME Agreed, NEW p \in Tokens \cup {"writer"}, Reply(p), NEW c, c = Head(port[p])
  PROVE  /\ p \in Ports /\ c \in Clients /\ On(port, p, c)
         /\ \A q \in Ports : On(port, q, c) => q = p
         /\ \A q \in Ports : \A d : On(port', q, d) <=> On(port, q, d) /\ d # c
         /\ \A q \in Ports \ {p} : port'[q] = port[q]
         /\ port'[p] = Tail(port[p])
         /\ pc'[c] = Replied(pc[c]) /\ \A d \in Clients \ {c} : pc'[d] = pc[d]
         /\ pc[c] \in Accepts(p)
         /\ ActiveReaders' = ActiveReaders /\ ActiveWriters' = ActiveWriters
         /\ Carried'
<1>1. /\ pc \in [Clients -> ClientStates] /\ Tidy(port) /\ Accepted
      /\ port \in [Ports -> Seq(Clients)]
      /\ {"server", "readerQ", "writerQ", "reader", "unlock", "writer"} \subseteq Ports
      /\ Tokens \subseteq Ports
      /\ \A t \in Tokens :
           t \notin {"server", "readerQ", "writerQ", "reader", "unlock", "writer"}
      /\ \A q, r \in Ports : \A d : On(port, q, d) /\ On(port, r, d) => q = r
  BY AgreedFacts
<1>2. p \in Ports /\ p \notin {"server", "readerQ", "writerQ"} BY <1>1
<1>3. port[p] # <<>> /\ port' = Drop(port, p) /\ pc' = [pc EXCEPT ![c] = Replied(@)]
  BY DEF Reply
<1>4. /\ c \in Clients /\ On(port, p, c)
      /\ \A q \in Ports : \A d : On(port', q, d) <=> On(port, q, d) /\ d # c
      /\ \A q \in Ports \ {p} : port'[q] = port[q]
  BY <1>1, <1>2, <1>3, DropTidy
<1>5. port'[p] = Tail(port[p]) BY <1>1, <1>2, <1>3 DEF Drop
<1>6. pc'[c] = Replied(pc[c]) /\ \A d \in Clients \ {c} : pc'[d] = pc[d]
  BY <1>1, <1>3, <1>4
<1>7. pc[c] \in Accepts(p) /\ pc[c] \in Entries
  BY <1>2, <1>1, <1>4, AcceptsEntries DEF Accepted
<1>8. /\ pc[c] = "rlock" => pc'[c] = "reading"
      /\ pc[c] = "wlock" => pc'[c] = "writing"
      /\ pc[c] \in {"runlock", "wunlock"} => pc'[c] = "idle"
      /\ pc[c] \in {"rlock", "runlock", "wlock", "wunlock"}
  BY <1>6, <1>7 DEF Replied, Entries
<1>9. \A q \in {"server", "readerQ", "writerQ"} :
        ~On(port, q, c) /\ \A d : On(port', q, d) <=> On(port, q, d)
  BY <1>1, <1>2, <1>4
<1>10. ActiveReaders' = ActiveReaders
  <2>1. ASSUME NEW d \in Clients PROVE d \in ActiveReaders' <=> d \in ActiveReaders
    <3>1. CASE d = c BY <3>1, <1>4, <1>8, <1>9 DEF ActiveReaders
    <3>2. CASE d # c BY <3>2, <1>6, <1>9 DEF ActiveReaders
    <3> QED BY <3>1, <3>2
  <2> QED BY <2>1 DEF ActiveReaders
<1>11. ActiveWriters' = ActiveWriters
  <2>1. ASSUME NEW d \in Clients PROVE d \in ActiveWriters' <=> d \in ActiveWriters
    <3>1. CASE d = c BY <3>1, <1>4, <1>8, <1>9 DEF ActiveWriters
    <3>2. CASE d # c BY <3>2, <1>6, <1>9 DEF ActiveWriters
    <3> QED BY <3>1, <3>2
  <2> QED BY <2>1 DEF ActiveWriters
<1>12. Carried'
  <2> SUFFICES ASSUME NEW d \in Clients, pc'[d] \in Entries
               PROVE  \E q \in Ports : On(port', q, d)
    BY DEF Carried
  <2>1. d # c BY <1>8 DEF Entries
  <2>2. PICK q \in Ports : On(port, q, d) BY <2>1, <1>6 DEF Agreed, Carried
  <2> QED BY <2>1, <2>2, <1>4
<1> QED BY <1>1, <1>2, <1>4, <1>5, <1>6, <1>7, <1>10, <1>11, <1>12

LEMMA TokenRepliesAgreed ==
  ASSUME Agreed, NEW t \in Tokens, TokenReplies(t), IInv'
  PROVE  Agreed'
<1>1. PICK c : c = Head(port[t]) OBVIOUS
<1>2. /\ Reply(t) /\ UNCHANGED <<counterVars, workerPort, signalPort, writerVars>>
      /\ UNCHANGED <<noWait, undefined>>
  BY DEF TokenReplies
<1>3. /\ pc \in [Clients -> ClientStates] /\ ScalarTypes
      /\ {"server", "readerQ", "writerQ", "reader", "unlock", "writer"} \subseteq Ports
      /\ Tokens \subseteq Ports
      /\ \A u \in Tokens :
           u \notin {"server", "readerQ", "writerQ", "reader", "unlock", "writer"}
      /\ \A u \in Tokens : TokenFits(u)
  BY AgreedFacts
<1>4. /\ c \in Clients /\ On(port, t, c)
      /\ \A q \in Ports : On(port, q, c) => q = t
      /\ \A q \in Ports : \A d : On(port', q, d) <=> On(port, q, d) /\ d # c
      /\ \A q \in Ports \ {t} : port'[q] = port[q]
      /\ port'[t] = Tail(port[t])
      /\ pc'[c] = Replied(pc[c]) /\ \A d \in Clients \ {c} : pc'[d] = pc[d]
      /\ ActiveReaders' = ActiveReaders /\ ActiveWriters' = ActiveWriters
      /\ Carried'
  BY <1>1, <1>2, ReplyFacts
<1>5. pc[c] \in {"rlock", "runlock"} BY <1>1, <1>2, ReplyFacts, PortFacts
<1>6. pc[c] = "rlock" => pc'[c] = "reading" BY <1>4 DEF Replied
<1>7. pc[c] = "runlock" => pc'[c] = "idle" BY <1>4 DEF Replied
<1>8. \A u \in Tokens \ {t} : token'[u] = token[u]
  BY <1>3 DEF TokenReplies, ScalarTypes
<1>9. \/ token[t] = "lock" /\ token'[t] = "locked"
      \/ token[t] = "unlock" /\ token'[t] = "unlocked"
  BY <1>3 DEF TokenReplies, ScalarTypes
<1>10. ASSUME NEW u \in Tokens \ {t} PROVE TokenFits(u)'
  <2>1. u \in Ports /\ TokenFits(u) /\ port'[u] = port[u] BY <1>3, <1>4
  <2>2. \A d \in Clients : On(port, u, d) => pc'[d] = pc[d] BY <1>4, <2>1
  <2> QED BY <1>2, <1>8, <2>1, <2>2, FitsSame
<1>11. ASSUME token[t] = "lock" /\ token'[t] = "locked"
       PROVE  TokenFits(t)' /\ \A d \in Clients : d \in Owed' <=> d \in Owed
  <2>1. ~Queued(workerPort', t) /\ pc[c] = "rlock"
        /\ IF Queued(signalPort, t) THEN port'[t] = <<>> ELSE One(port[t], "runlock")'
    <3>1. CASE Queued(signalPort, t)
      <4>1. One(port[t], "rlock") /\ ~Queued(workerPort, t)
        BY <1>3, <1>11, <3>1 DEF TokenFits
      <4>2. PICK d \in Clients : port[t] = <<d>> /\ pc[d] = "rlock" BY <4>1 DEF One
      <4>3. d = c BY <1>1, <4>2, ShortQueues
      <4> QED BY <1>2, <1>4, <3>1, <4>1, <4>2, <4>3, ShortQueues
    <3>2. CASE ~Queued(signalPort, t)
      <4>1. Two(port[t], "rlock", "runlock") /\ ~Queued(workerPort, t)
        BY <1>3, <1>11, <3>2 DEF TokenFits
      <4>2. PICK d \in Clients, e \in Clients :
              port[t] = <<d, e>> /\ pc[d] = "rlock" /\ pc[e] = "runlock"
        BY <4>1 DEF Two
      <4>3. d = c /\ port'[t] = <<e>> BY <1>1, <1>4, <4>2, ShortQueues
      <4>4. e # c /\ pc'[e] = "runlock" BY <1>4, <4>2, <4>3
      <4> QED BY <1>2, <3>2, <4>1, <4>2, <4>3, <4>4 DEF One
    <3> QED BY <3>1, <3>2
  <2>2. TokenFits(t)' BY <1>2, <1>11, <2>1 DEF TokenFits
  <2>3. ASSUME NEW d \in Clients PROVE d \in Owed' <=> d \in Owed
    <3>1. CASE d = c BY <3>1, <2>1, <1>3, <1>4, <1>6, <1>11 DEF Owed
    <3>2. CASE d # c
      <4>1. (pc[d] = "rlock" /\ \E u \in Tokens : token'[u] = "lock" /\ On(port', u, d)) <=>
            (pc[d] = "rlock" /\ \E u \in Tokens : token[u] = "lock" /\ On(port, u, d))
        <5>1. ASSUME pc[d] = "rlock" PROVE ~On(port, t, d)
          <6>1. CASE Queued(signalPort, t)
            <7>1. One(port[t], "rlock") BY <1>3, <1>11, <6>1 DEF TokenFits
            <7>2. PICK e \in Clients : port[t] = <<e>> BY <7>1 DEF One
            <7> QED BY <7>2, <1>4, <3>2, OnShort
          <6>2. CASE ~Queued(signalPort, t)
            <7>1. Two(port[t], "rlock", "runlock") BY <1>3, <1>11, <6>2 DEF TokenFits
            <7>2. PICK e \in Clients, g \in Clients :
                    port[t] = <<e, g>> /\ pc[g] = "runlock"
              BY <7>1 DEF Two
            <7>3. e = c BY <1>1, <7>2, ShortQueues
            <7> QED BY <7>2, <7>3, <3>2, <5>1, OnShort
          <6> QED BY <6>1, <6>2
        <5> QED BY <5>1, <1>3, <1>4, <1>8, <1>11, <3>2
      <4>2. /\ On(port', "server", d) <=> On(port, "server", d)
            /\ On(port', "unlock", d) <=> On(port, "unlock", d)
        BY <1>3, <1>4, <3>2
      <4> QED BY <3>2, <4>1, <4>2, <1>4 DEF Owed
    <3> QED BY <3>1, <3>2
  <2> QED BY <2>2, <2>3
<1>12. ASSUME token[t] = "unlock" /\ token'[t] = "unlocked"
       PROVE  TokenFits(t)' /\ \A d \in Clients : d \in Owed' <=> d \in Owed
  <2>1. One(port[t], "runlock") /\ ~Queued(workerPort, t) /\ ~Queued(signalPort, t)
    BY <1>3, <1>12 DEF TokenFits
  <2>2. port[t] = <<c>> /\ pc[c] = "runlock" BY <2>1, <1>1, ShortQueues DEF One
  <2>3. TokenFits(t)' BY <1>2, <1>4, <1>12, <2>1, <2>2, ShortQueues DEF TokenFits
  <2>4. ASSUME NEW d \in Clients PROVE d \in Owed' <=> d \in Owed
    <3>1. CASE d = c BY <3>1, <2>2, <1>3, <1>4, <1>7 DEF Owed
    <3>2. CASE d # c
      <4>1. (\E u \in Tokens : token'[u] = "lock" /\ On(port', u, d)) <=>
            (\E u \in Tokens : token[u] = "lock" /\ On(port, u, d))
        BY <1>3, <1>4, <1>8, <1>12, <3>2
      <4>2. /\ On(port', "server", d) <=> On(port, "server", d)
            /\ On(port', "unlock", d) <=> On(port, "unlock", d)
        BY <1>3, <1>4, <3>2
      <4> QED BY <3>2, <4>1, <4>2, <1>4 DEF Owed
    <3> QED BY <3>1, <3>2
  <2> QED BY <2>3, <2>4
<1>13. TokenFits(t)' /\ \A d \in Clients : d \in Owed' <=> d \in Owed
  BY <1>9, <1>11, <1>12
<1>14. Owed' = Owed BY <1>13 DEF Owed
<1>15. TokensFit' BY <1>10, <1>13 DEF TokensFit
<1>16. WriterFits'
  <2>1. ASSUME NEW d \in Clients PROVE d \in Holding' <=> d \in Holding
    <3>1. CASE d = c BY <3>1, <1>5, <1>6, <1>7 DEF Holding
    <3>2. CASE d # c BY <3>2, <1>3, <1>4 DEF Holding
    <3> QED BY <3>1, <3>2
  <2>2. Holding' = Holding BY <2>1 DEF Holding
  <2>3. port'["writer"] = port["writer"] BY <1>3, <1>4
  <2>4. \A d \in Clients : On(port, "writer", d) => pc'[d] = pc[d] BY <1>3, <1>4
  <2> QED BY <1>2, <2>2, <2>3, <2>4, WriterSame DEF Agreed, writerVars
<1>17. Exact' BY <1>2, <1>3, <1>4, ExactSame DEF Agreed
<1>18. Signalled' BY <1>2, <1>14, SignalledSame DEF Agreed
<1> QED BY <1>2, <1>4, <1>15, <1>16, <1>17, <1>18 DEF Agreed, EveryRequestAnswerable

LEMMA WriterRepliesAgreed ==
  ASSUME Agreed, WriterReplies, IInv'
  PROVE  Agreed'
<1>1. PICK c : c = Head(port["writer"]) OBVIOUS
<1>2. /\ Reply("writer") /\ UNCHANGED <<counterVars, tokenVars, signalPort2>>
      /\ UNCHANGED <<noWait, undefined>>
  BY DEF WriterReplies
<1>3. /\ pc \in [Clients -> ClientStates] /\ ScalarTypes
      /\ {"server", "readerQ", "writerQ", "reader", "unlock", "writer"} \subseteq Ports
      /\ Tokens \subseteq Ports
      /\ \A u \in Tokens :
           u \notin {"server", "readerQ", "writerQ", "reader", "unlock", "writer"}
      /\ \A u \in Tokens : TokenFits(u)
  BY AgreedFacts
<1>4. /\ c \in Clients /\ On(port, "writer", c)
      /\ \A q \in Ports : On(port, q, c) => q = "writer"
      /\ \A q \in Ports : \A d : On(port', q, d) <=> On(port, q, d) /\ d # c
      /\ \A q \in Ports \ {"writer"} : port'[q] = port[q]
      /\ port'["writer"] = Tail(port["writer"])
      /\ pc'[c] = Replied(pc[c]) /\ \A d \in Clients \ {c} : pc'[d] = pc[d]
      /\ ActiveReaders' = ActiveReaders /\ ActiveWriters' = ActiveWriters
      /\ Carried'
  BY <1>1, <1>2, ReplyFacts
<1>5. pc[c] \in {"wlock", "wunlock"} BY <1>1, <1>2, ReplyFacts, PortFacts
<1>6. pc[c] = "wlock" => pc'[c] = "writing" BY <1>4 DEF Replied
<1>7. pc[c] = "wunlock" => pc'[c] = "idle" BY <1>4 DEF Replied
<1>8. TokensFit'
  <2> SUFFICES ASSUME NEW u \in Tokens PROVE TokenFits(u)' BY DEF TokensFit
  <2>1. u \in Ports /\ TokenFits(u) /\ port'[u] = port[u] BY <1>3, <1>4
  <2>2. \A d \in Clients : On(port, u, d) => pc'[d] = pc[d] BY <1>3, <1>4, <2>1
  <2> QED BY <1>2, <2>1, <2>2, FitsSame DEF tokenVars
<1>9. Owed' = Owed
  <2>1. ASSUME NEW d \in Clients PROVE d \in Owed' <=> d \in Owed
    <3>1. CASE d = c BY <3>1, <1>3, <1>4, <1>5, <1>6, <1>7 DEF Owed
    <3>2. CASE d # c
      <4>1. (\E u \in Tokens : token'[u] = "lock" /\ On(port', u, d)) <=>
            (\E u \in Tokens : token[u] = "lock" /\ On(port, u, d))
        BY <1>2, <1>3, <1>4, <3>2 DEF tokenVars
      <4>2. /\ On(port', "server", d) <=> On(port, "server", d)
            /\ On(port', "unlock", d) <=> On(port, "unlock", d)
        BY <1>3, <1>4, <3>2
      <4> QED BY <3>2, <4>1, <4>2, <1>4 DEF Owed
    <3> QED BY <3>1, <3>2
  <2> QED BY <2>1 DEF Owed
<1>10. \A d \in Clients \ {c} : d \in Holding' <=> d \in Holding
  BY <1>3, <1>4 DEF Holding
<1>11. ASSUME writer = "lock" /\ writer' = "locked" PROVE WriterFits'
  <2>1. /\ One(port["writer"], "wlock") /\ signalPort2 = 1
    BY <1>11 DEF Agreed, WriterFits
  <2>2. port["writer"] = <<c>> /\ pc[c] = "wlock" BY <2>1, <1>1, ShortQueues DEF One
  <2>3. port'["writer"] = <<>> BY <2>2, <1>4, ShortQueues
  <2>4. c \in Holding' BY <2>2, <1>4, <1>6 DEF Holding
  <2> QED BY <1>2, <1>11, <2>1, <2>3, <2>4 DEF WriterFits
<1>12. ASSUME writer = "unlock" /\ writer' = "unlocked" PROVE WriterFits'
  <2>1. /\ One(port["writer"], "wunlock") \/ Two(port["writer"], "wunlock", "wlock")
        /\ signalPort2 = 0 /\ Holding = {}
    BY <1>12 DEF Agreed, WriterFits
  <2>2. pc[c] = "wunlock" /\ (port'["writer"] = <<>> \/ One(port["writer"], "wlock")')
    <3>1. CASE One(port["writer"], "wunlock")
      <4>1. port["writer"] = <<c>> /\ pc[c] = "wunlock" BY <3>1, <1>1, ShortQueues DEF One
      <4> QED BY <4>1, <1>4, ShortQueues
    <3>2. CASE Two(port["writer"], "wunlock", "wlock")
      <4>1. PICK d \in Clients, e \in Clients :
              port["writer"] = <<d, e>> /\ pc[d] = "wunlock" /\ pc[e] = "wlock"
        BY <3>2 DEF Two
      <4>2. d = c /\ port'["writer"] = <<e>> BY <1>1, <1>4, <4>1, ShortQueues
      <4>3. e # c /\ pc'[e] = "wlock" BY <1>4, <4>1, <4>2
      <4> QED BY <4>1, <4>2, <4>3 DEF One
    <3> QED BY <2>1, <3>1, <3>2
  <2>3. c \notin Holding' BY <2>2, <1>7 DEF Holding
  <2>4. Holding' = {} BY <2>1, <2>3, <1>10 DEF Holding
  <2> QED BY <1>2, <1>12, <2>1, <2>2, <2>4 DEF WriterFits
<1>13. WriterFits' BY <1>11, <1>12 DEF WriterReplies
<1>14. Exact' BY <1>2, <1>3, <1>4, ExactSame DEF Agreed
<1>15. Signalled' BY <1>2, <1>9, SignalledSame DEF Agreed, tokenVars
<1> QED BY <1>2, <1>4, <1>8, <1>13, <1>14, <1>15 DEF Agreed, EveryRequestAnswerable

-----------------------------------------------------------------------------
\* Steps that move no message and wake no client.
LEMMA StillSame ==
  ASSUME Agreed, IInv', UNCHANGED <<pc, port, counterVars, noWait, undefined>>
  PROVE  /\ Exact' /\ Carried' /\ EveryRequestAnswerable'
         /\ Holding' = Holding
         /\ \A c \in Clients : \A q \in Ports : On(port, q, c) => pc'[c] = pc[c]
<1>1. ActiveReaders' = ActiveReaders /\ ActiveWriters' = ActiveWriters
      /\ Holding' = Holding
  BY DEF ActiveReaders, ActiveWriters, Holding
<1>2. Exact' BY <1>1, ExactSame DEF Agreed
<1>3. Carried' BY DEF Agreed, Carried
<1>4. EveryRequestAnswerable' BY DEF Agreed, EveryRequestAnswerable
<1> QED BY <1>1, <1>2, <1>3, <1>4

LEMMA OthersFit ==
  ASSUME Agreed, UNCHANGED <<pc, port>>, NEW t \in Tokens,
         \A u \in Tokens \ {t} :
           /\ token'[u] = token[u]
           /\ Queued(workerPort', u) <=> Queued(workerPort, u)
           /\ Queued(signalPort', u) <=> Queued(signalPort, u),
         TokenFits(t)'
  PROVE  TokensFit'
<1> SUFFICES ASSUME NEW u \in Tokens PROVE TokenFits(u)' BY DEF TokensFit
<1>1. TokenFits(u) BY AgreedFacts
<1>2. CASE u = t BY <1>2
<1>3. CASE u # t BY <1>1, <1>3, FitsSame
<1> QED BY <1>2, <1>3

\* No unlock is owed for a token that neither was nor is in its lock.
LEMMA OwedStill ==
  ASSUME UNCHANGED <<pc, port>>, NEW t \in Tokens, token[t] # "lock", token'[t] # "lock",
         \A u \in Tokens \ {t} : token'[u] = token[u]
  PROVE  Owed' = Owed
<1>1. ASSUME NEW d \in Clients PROVE d \in Owed' <=> d \in Owed
  <2>1. (\E u \in Tokens : token'[u] = "lock" /\ On(port', u, d)) <=>
        (\E u \in Tokens : token[u] = "lock" /\ On(port, u, d))
    OBVIOUS
  <2> QED BY <2>1 DEF Owed
<1> QED BY <1>1 DEF Owed

\* The token becomes free, at its start or at the end of its unlock.
LEMMA BecomesFree ==
  ASSUME Agreed, IInv', NEW t \in Tokens, token[t] \in {"created", "unlocked"},
         token' = [token EXCEPT ![t] = "free"], workerPort' = Append(workerPort, t),
         UNCHANGED <<pc, port, counterVars, signalPort, writerVars, noWait, undefined>>
  PROVE  Agreed'
<1>1. TokenFits(t) /\ ScalarTypes BY AgreedFacts
<1>2. /\ ~Queued(workerPort, t) /\ ~Queued(signalPort, t) /\ port[t] = <<>>
  BY <1>1 DEF TokenFits
<1>3. workerPort \in Seq(Tokens) /\ NoRepeats(workerPort) /\ NoRepeats(signalPort)
  BY <1>1 DEF ScalarTypes, Agreed, Signalled
<1>4. NoRepeats(workerPort')
      /\ \A u : Queued(workerPort', u) <=> Queued(workerPort, u) \/ u = t
  BY <1>2, <1>3, AppendQueue
<1>5. token'[t] = "free" /\ \A u \in Tokens \ {t} : token'[u] = token[u]
  BY <1>1 DEF ScalarTypes
<1>6. TokenFits(t)' BY <1>2, <1>4, <1>5 DEF TokenFits
<1>7. TokensFit' BY <1>4, <1>5, <1>6, OthersFit
<1>8. Owed' = Owed BY <1>5, OwedStill
<1>9. Signalled' BY <1>3, <1>4, <1>8 DEF Signalled, Agreed
<1>10. Exact' /\ Carried' /\ EveryRequestAnswerable' /\ Holding' = Holding
  BY StillSame
<1>11. WriterFits' BY <1>10, WriterSame DEF Agreed, writerVars
<1> QED BY <1>7, <1>9, <1>10, <1>11 DEF Agreed

LEMMA TokenReceivesAgreed ==
  ASSUME Agreed, NEW t \in Tokens, TokenReceives(t), IInv'
  PROVE  Agreed'
<1>1. /\ TokenFits(t) /\ ScalarTypes /\ Tokens \subseteq Ports
      /\ {"server", "unlock"} \subseteq Ports /\ t \notin {"server", "unlock"}
      /\ \A p, q \in Ports : \A c : On(port, p, c) /\ On(port, q, c) => p = q
  BY AgreedFacts
<1>2. /\ port[t] # <<>>
      /\ UNCHANGED <<pc, port, counterVars, workerPort, writerVars, noWait, undefined>>
  BY DEF TokenReceives
<1>3. \A u \in Tokens \ {t} : token'[u] = token[u]
  BY <1>1 DEF TokenReceives, ScalarTypes
<1>4. Exact' /\ Carried' /\ EveryRequestAnswerable' /\ Holding' = Holding
  BY <1>2, StillSame
<1>5. WriterFits' BY <1>2, <1>4, WriterSame DEF Agreed, writerVars
<1>6. signalPort \in Seq(Tokens) /\ NoRepeats(signalPort) /\ NoRepeats(workerPort)
      /\ Cardinality(Owed) = Len(signalPort)
  BY <1>1 DEF ScalarTypes, Agreed, Signalled
<1>7. CASE token[t] = "free" /\ token'[t] = "lock" /\ signalPort' = Append(signalPort, t)
  <2>1. ~Queued(workerPort, t) /\ ~Queued(signalPort, t) /\ One(port[t], "rlock")
    BY <1>1, <1>2, <1>7 DEF TokenFits
  <2>2. NoRepeats(signalPort') /\ Len(signalPort') = Len(signalPort) + 1
        /\ \A u : Queued(signalPort', u) <=> Queued(signalPort, u) \/ u = t
    BY <1>6, <1>7, <2>1, AppendQueue
  <2>3. PICK c \in Clients : port[t] = <<c>> /\ pc[c] = "rlock" BY <2>1 DEF One
  <2>4. One(port[t], "rlock")' BY <1>2, <2>3 DEF One
  <2>5. TokenFits(t)' BY <1>2, <1>7, <2>1, <2>2, <2>4 DEF TokenFits
  <2>6. TokensFit' BY <1>2, <1>3, <2>2, <2>5, OthersFit
  <2>7. On(port, t, c) /\ \A d : On(port, t, d) => d = c BY <2>3, OnShort
  <2>8. Owed' = Owed \cup {c}
    <3>1. ASSUME NEW d \in Clients PROVE d \in Owed' <=> d \in Owed \/ d = c
      <4>1. CASE d = c BY <4>1, <1>2, <1>7, <2>3, <2>7 DEF Owed
      <4>2. CASE d # c
        <5>1. (\E u \in Tokens : token'[u] = "lock" /\ On(port', u, d)) <=>
              (\E u \in Tokens : token[u] = "lock" /\ On(port, u, d))
          BY <4>2, <1>2, <1>3, <2>7
        <5> QED BY <4>2, <5>1, <1>2 DEF Owed
      <4> QED BY <4>1, <4>2
    <3> QED BY <3>1 DEF Owed
  <2>9. c \notin Owed
    <3>1. \A u \in Tokens : On(port, u, c) => u = t BY <1>1, <2>7
    <3> QED BY <3>1, <1>7, <2>3 DEF Owed
  <2>10. IsFiniteSet(Owed) BY ClientsAssumption, FS_Subset DEF Owed
  <2>11. Cardinality(Owed') = Cardinality(Owed) + 1 BY <2>8, <2>9, <2>10, FS_AddElement
  <2>12. Signalled' BY <1>2, <1>6, <2>2, <2>11 DEF Signalled
  <2> QED BY <1>4, <1>5, <2>6, <2>12 DEF Agreed
<1>8. CASE token[t] = "held" /\ token'[t] = "unlock" /\ signalPort' = signalPort
  <2>1. ~Queued(workerPort, t) /\ ~Queued(signalPort, t) /\ One(port[t], "runlock")
    BY <1>1, <1>2, <1>8 DEF TokenFits
  <2>2. One(port[t], "runlock")' BY <1>2, <2>1 DEF One
  <2>3. TokenFits(t)' BY <1>2, <1>8, <2>1, <2>2 DEF TokenFits
  <2>4. TokensFit' BY <1>2, <1>3, <1>8, <2>3, OthersFit
  <2>5. Owed' = Owed BY <1>2, <1>3, <1>8, OwedStill
  <2>6. Signalled' BY <1>2, <1>8, <2>5, SignalledSame DEF Agreed
  <2> QED BY <1>4, <1>5, <2>4, <2>6 DEF Agreed
<1>9. \/ token[t] = "free" /\ token'[t] = "lock" /\ signalPort' = Append(signalPort, t)
      \/ token[t] = "held" /\ token'[t] = "unlock" /\ signalPort' = signalPort
  BY <1>1 DEF TokenReceives, ScalarTypes
<1> QED BY <1>7, <1>8, <1>9

LEMMA TokenEndsCycleAgreed ==
  ASSUME Agreed, NEW t \in Tokens, TokenEndsCycle(t), IInv'
  PROVE  Agreed'
<1>1. TokenFits(t) /\ ScalarTypes BY AgreedFacts
<1>2. CASE token[t] = "locked" /\ token' = [token EXCEPT ![t] = "held"]
           /\ UNCHANGED <<hold, workerPort>>
  <2>1. UNCHANGED <<pc, port, counterVars, workerPort, signalPort, writerVars, noWait,
                    undefined>>
    BY <1>2 DEF TokenEndsCycle
  <2>2. token'[t] = "held" /\ \A u \in Tokens \ {t} : token'[u] = token[u]
    BY <1>1, <1>2 DEF ScalarTypes
  <2>3. One(port[t], "runlock") => One(port[t], "runlock")' BY <2>1 DEF One
  <2>4. TokenFits(t)' BY <1>1, <1>2, <2>1, <2>2, <2>3 DEF TokenFits
  <2>5. TokensFit' BY <2>1, <2>2, <2>4, OthersFit
  <2>6. Owed' = Owed BY <1>2, <2>1, <2>2, OwedStill
  <2>7. Signalled' BY <2>1, <2>6, SignalledSame DEF Agreed
  <2>8. Exact' /\ Carried' /\ EveryRequestAnswerable' /\ Holding' = Holding
    BY <2>1, StillSame
  <2>9. WriterFits' BY <2>1, <2>8, WriterSame DEF Agreed, writerVars
  <2> QED BY <2>5, <2>7, <2>8, <2>9 DEF Agreed
<1>3. CASE token[t] = "unlocked" /\ token' = [token EXCEPT ![t] = "free"]
           /\ workerPort' = Append(workerPort, t)
  BY <1>3, BecomesFree DEF TokenEndsCycle
<1> QED BY <1>2, <1>3 DEF TokenEndsCycle

\* The Writer_Token takes a message up, or ends its cycle.
LEMMA WriterTurnsAgreed ==
  ASSUME Agreed, WriterReceives \/ WriterEndsCycle, IInv'
  PROVE  Agreed'
<1>1. UNCHANGED <<pc, port, counterVars, tokenVars, noWait, undefined>>
  BY DEF WriterReceives, WriterEndsCycle
<1>2. Exact' /\ Carried' /\ EveryRequestAnswerable' /\ Holding' = Holding
  BY <1>1, StillSame
<1>3. TokensFit'
  <2> SUFFICES ASSUME NEW u \in Tokens PROVE TokenFits(u)' BY DEF TokensFit
  <2> QED BY <1>1, AgreedFacts, FitsSame DEF tokenVars
<1>4. Owed' = Owed BY <1>1 DEF Owed, tokenVars
<1>5. Signalled' BY <1>1, <1>4, SignalledSame DEF Agreed, tokenVars
<1>6. /\ One(port["writer"], "wlock") => One(port["writer"], "wlock")'
      /\ One(port["writer"], "wunlock") => One(port["writer"], "wunlock")'
      /\ Two(port["writer"], "wunlock", "wlock") => Two(port["writer"], "wunlock", "wlock")'
  BY <1>1 DEF One, Two
<1>7. WriterFits'
  <2>1. CASE writer = "free" /\ writer' = "lock" /\ signalPort2' = signalPort2 + 1
             /\ port["writer"] # <<>>
    BY <1>1, <1>2, <1>6, <2>1 DEF Agreed, WriterFits
  <2>2. CASE writer = "held" /\ writer' = "unlock" /\ signalPort2' = signalPort2
             /\ port["writer"] # <<>>
    BY <1>1, <1>2, <1>6, <2>2 DEF Agreed, WriterFits
  <2>3. CASE writer = "locked" /\ writer' = "held" /\ signalPort2' = signalPort2
    BY <1>1, <1>2, <1>6, <2>3 DEF Agreed, WriterFits
  <2>4. CASE writer = "unlocked" /\ writer' = "free" /\ signalPort2' = signalPort2
    BY <1>1, <1>2, <1>6, <2>4 DEF Agreed, WriterFits
  <2> QED BY <2>1, <2>2, <2>3, <2>4
          DEF WriterReceives, WriterEndsCycle, WriterAnnounced
<1> QED BY <1>2, <1>3, <1>5, <1>7 DEF Agreed

-----------------------------------------------------------------------------
\* A dispatcher hands a message to a token.
LEMMA PassFacts ==
  ASSUME Agreed, NEW p \in {"reader", "unlock"}, port[p] # <<>>, NEW t \in Tokens,
         NEW c, c = Head(port[p]), port' = Put(Drop(port, p), t, Head(port[p])),
         UNCHANGED <<pc, counterVars, writerVars, noWait, undefined>>
  PROVE  /\ c \in Clients /\ On(port, p, c) /\ pc[c] \in Accepts(p)
         /\ \A q \in Ports : On(port, q, c) => q = p
         /\ \A q \in Ports : \A d : On(port', q, d) <=>
                                      IF d = c THEN q = t ELSE On(port, q, d)
         /\ port'[t] = Append(port[t], c)
         /\ \A q \in Ports \ {p, t} : port'[q] = port[q]
         /\ Exact' /\ Carried' /\ EveryRequestAnswerable' /\ WriterFits'
<1>1. /\ Tidy(port) /\ Accepted /\ port \in [Ports -> Seq(Clients)]
      /\ {"server", "readerQ", "writerQ", "reader", "unlock", "writer"} \subseteq Ports
      /\ Tokens \subseteq Ports
      /\ t \notin {"server", "readerQ", "writerQ", "reader", "unlock", "writer"}
      /\ \A q, r \in Ports : \A d : On(port, q, d) /\ On(port, r, d) => q = r
  BY AgreedFacts
<1>2. p \in Ports /\ t \in Ports /\ p # t BY <1>1
<1>3. /\ c \in Clients /\ On(port, p, c)
      /\ \A q \in Ports : \A d : On(port', q, d) <=>
                                   IF d = c THEN q = t ELSE On(port, q, d)
      /\ \A q \in Ports \ {p, t} : port'[q] = port[q]
  BY <1>1, <1>2, MoveTidy
<1>4. port'[t] = Append(port[t], c) BY <1>1, <1>2 DEF Put, Drop
<1>5. \A q \in Ports : On(port, q, c) => q = p BY <1>1, <1>2, <1>3
<1>6. pc[c] \in Accepts(p) BY <1>1, <1>2, <1>3 DEF Accepted
<1>7. \A q \in {"server", "readerQ", "writerQ", "writer"} :
        /\ q \in Ports \ {p, t} /\ ~On(port, q, c)
        /\ \A d : On(port', q, d) <=> On(port, q, d)
  BY <1>1, <1>2, <1>3, <1>5
<1>8. ActiveReaders' = ActiveReaders /\ ActiveWriters' = ActiveWriters
      /\ Holding' = Holding
  BY <1>7 DEF ActiveReaders, ActiveWriters, Holding
<1>9. Exact' BY <1>3, <1>7, <1>8, ExactSame DEF Agreed
<1>10. WriterFits' BY <1>3, <1>7, <1>8, WriterSame DEF Agreed, writerVars
<1>11. Carried'
  <2> SUFFICES ASSUME NEW d \in Clients, pc[d] \in Entries
               PROVE  \E q \in Ports : On(port', q, d)
    BY DEF Carried
  <2>1. CASE d = c BY <2>1, <1>2, <1>3
  <2>2. CASE d # c BY <2>2, <1>3 DEF Agreed, Carried
  <2> QED BY <2>1, <2>2
<1>12. EveryRequestAnswerable' BY DEF Agreed, EveryRequestAnswerable
<1> QED BY <1>3, <1>4, <1>5, <1>6, <1>9, <1>10, <1>11, <1>12

LEMMA SemaphoreAgreed ==
  ASSUME Agreed, Semaphore, IInv'
  PROVE  Agreed'
<1>1. PICK t, c : t = Head(workerPort) /\ c = Head(port["reader"]) OBVIOUS
<1>2. /\ ScalarTypes /\ Tokens \subseteq Ports /\ {"reader", "server", "unlock"} \subseteq Ports
      /\ \A u \in Tokens : TokenFits(u)
      /\ \A u \in Tokens : u \notin {"reader", "server", "unlock"}
  BY AgreedFacts
<1>3. /\ port["reader"] # <<>> /\ workerPort # <<>>
      /\ port' = Put(Drop(port, "reader"), t, c) /\ workerPort' = Tail(workerPort)
      /\ UNCHANGED <<pc, counterVars, token, signalPort, writerVars, noWait, undefined>>
  BY <1>1 DEF Semaphore, WorkersLeft
<1>4. /\ t \in Tokens /\ Queued(workerPort, t) /\ NoRepeats(workerPort')
      /\ \A u : Queued(workerPort', u) <=> Queued(workerPort, u) /\ u # t
  BY <1>1, <1>2, <1>3, TailQueue DEF ScalarTypes, Agreed, Signalled
<1>5. /\ c \in Clients /\ On(port, "reader", c) /\ pc[c] \in Accepts("reader")
      /\ \A q \in Ports : On(port, q, c) => q = "reader"
      /\ \A q \in Ports : \A d : On(port', q, d) <=>
                                   IF d = c THEN q = t ELSE On(port, q, d)
      /\ port'[t] = Append(port[t], c)
      /\ \A q \in Ports \ {"reader", t} : port'[q] = port[q]
      /\ Exact' /\ Carried' /\ EveryRequestAnswerable' /\ WriterFits'
  BY <1>1, <1>3, <1>4, PassFacts
<1>6. pc[c] = "rlock" BY <1>5, PortFacts
<1>7. token[t] = "free" /\ ~Queued(signalPort, t) /\ port[t] = <<>>
  BY <1>2, <1>4 DEF TokenFits
<1>8. TokenFits(t)'
  <2>1. port'[t] = <<c>> BY <1>5, <1>7, ShortQueues
  <2>2. One(port[t], "rlock")' BY <2>1, <1>3, <1>5, <1>6 DEF One
  <2> QED BY <2>2, <1>3, <1>4, <1>7 DEF TokenFits
<1>9. ASSUME NEW u \in Tokens \ {t} PROVE TokenFits(u)'
  <2>1. TokenFits(u) /\ port'[u] = port[u] BY <1>2, <1>5
  <2> QED BY <2>1, <1>3, <1>4, FitsSame
<1>10. TokensFit' BY <1>8, <1>9 DEF TokensFit
<1>11. Owed' = Owed
  <2>1. ASSUME NEW d \in Clients PROVE d \in Owed' <=> d \in Owed
    <3>1. CASE d = c
      <4>1. ~\E u \in Tokens : token[u] = "lock" /\ On(port, u, c) BY <1>2, <1>5
      <4>2. ~\E u \in Tokens : token'[u] = "lock" /\ On(port', u, c)
        BY <1>2, <1>3, <1>5, <1>7
      <4> QED BY <3>1, <4>1, <4>2, <1>3, <1>6 DEF Owed
    <3>2. CASE d # c
      <4>1. (\E u \in Tokens : token'[u] = "lock" /\ On(port', u, d)) <=>
            (\E u \in Tokens : token[u] = "lock" /\ On(port, u, d))
        BY <3>2, <1>2, <1>3, <1>5
      <4> QED BY <3>2, <4>1, <1>2, <1>3, <1>5 DEF Owed
    <3> QED BY <3>1, <3>2
  <2> QED BY <2>1 DEF Owed
<1>12. Signalled' BY <1>3, <1>4, <1>11 DEF Agreed, Signalled
<1> QED BY <1>5, <1>10, <1>12 DEF Agreed

LEMMA SignalAgreed ==
  ASSUME Agreed, Signal, IInv'
  PROVE  Agreed'
<1>1. PICK t, c : t = Head(signalPort) /\ c = Head(port["unlock"]) OBVIOUS
<1>2. /\ ScalarTypes /\ Tokens \subseteq Ports /\ {"server", "unlock"} \subseteq Ports
      /\ Tidy(port) /\ Accepted
      /\ \A u \in Tokens : TokenFits(u)
      /\ \A u \in Tokens : u \notin {"server", "unlock"}
  BY AgreedFacts
<1>3. /\ port["unlock"] # <<>>
      /\ UNCHANGED <<pc, counterVars, token, workerPort, writerVars, undefined>>
  BY DEF Signal
<1>4. c \in Clients /\ On(port, "unlock", c) BY <1>1, <1>2, <1>3, DropTidy
<1>5. pc[c] = "runlock" BY <1>2, <1>4, PortFacts DEF Accepted
<1>6. c \in Owed BY <1>4, <1>5 DEF Owed
<1>7. IsFiniteSet(Owed) BY ClientsAssumption, FS_Subset DEF Owed
<1>8. signalPort \in Seq(Tokens) /\ NoRepeats(signalPort) /\ NoRepeats(workerPort)
      /\ Cardinality(Owed) = Len(signalPort)
  BY <1>2 DEF ScalarTypes, Agreed, Signalled
\* The client's own unlock is owed: so some token can be signalled.
<1>9. signalPort # <<>>
  <2>1. Owed # {} BY <1>6
  <2>2. Cardinality(Owed) # 0 BY <2>1, <1>7, FS_EmptySet
  <2> QED BY <2>2, <1>8, EmptySeq
<1>10. /\ port' = Put(Drop(port, "unlock"), t, c) /\ signalPort' = Tail(signalPort)
       /\ UNCHANGED noWait
  BY <1>1, <1>9 DEF Signal
<1>11. /\ t \in Tokens /\ Queued(signalPort, t) /\ NoRepeats(signalPort')
       /\ Len(signalPort') = Len(signalPort) - 1
       /\ \A u : Queued(signalPort', u) <=> Queued(signalPort, u) /\ u # t
  BY <1>1, <1>8, <1>9, <1>10, TailQueue
<1>12. /\ \A q \in Ports : On(port, q, c) => q = "unlock"
       /\ \A q \in Ports : \A d : On(port', q, d) <=>
                                    IF d = c THEN q = t ELSE On(port, q, d)
       /\ port'[t] = Append(port[t], c)
       /\ \A q \in Ports \ {"unlock", t} : port'[q] = port[q]
       /\ Exact' /\ Carried' /\ EveryRequestAnswerable' /\ WriterFits'
  BY <1>1, <1>3, <1>10, <1>11, PassFacts
<1>13. TokenFits(t)'
  <2>1. CASE token[t] = "lock"
    <3>1. ~Queued(workerPort, t) /\ One(port[t], "rlock")
      BY <2>1, <1>2, <1>11 DEF TokenFits
    <3>2. PICK d \in Clients : port[t] = <<d>> /\ pc[d] = "rlock" BY <3>1 DEF One
    <3>3. port'[t] = <<d, c>>
      <4>1. Append(<<d>>, c) = <<d, c>> BY ShortQueues
      <4> QED BY <3>2, <4>1, <1>12
    <3>4. Two(port[t], "rlock", "runlock")' BY <3>2, <3>3, <1>3, <1>4, <1>5 DEF Two
    <3> QED BY <2>1, <3>1, <3>4, <1>3, <1>11 DEF TokenFits
  <2>2. CASE token[t] \in {"locked", "held"}
    <3>1. ~Queued(workerPort, t) /\ port[t] = <<>> BY <2>2, <1>2, <1>11 DEF TokenFits
    <3>2. port'[t] = <<c>> BY <3>1, <1>12, ShortQueues
    <3>3. One(port[t], "runlock")' BY <3>2, <1>3, <1>4, <1>5 DEF One
    <3> QED BY <2>2, <3>1, <3>3, <1>3, <1>11 DEF TokenFits
  <2>3. token[t] \in {"lock", "locked", "held"} BY <1>2, <1>11 DEF TokenFits
  <2> QED BY <2>1, <2>2, <2>3
<1>14. ASSUME NEW u \in Tokens \ {t} PROVE TokenFits(u)'
  <2>1. TokenFits(u) /\ port'[u] = port[u] BY <1>2, <1>12
  <2> QED BY <2>1, <1>3, <1>11, FitsSame
<1>15. TokensFit' BY <1>13, <1>14 DEF TokensFit
<1>16. Owed' = Owed \ {c}
  <2>1. ASSUME NEW d \in Clients PROVE d \in Owed' <=> d \in Owed /\ d # c
    <3>1. CASE d = c
      <4>1. ~On(port', "server", c) /\ ~On(port', "unlock", c)
        BY <1>2, <1>11, <1>12
      <4>2. c \notin Owed' BY <4>1, <1>3, <1>5 DEF Owed
      <4> QED BY <3>1, <4>2
    <3>2. CASE d # c
      <4>1. (\E u \in Tokens : token'[u] = "lock" /\ On(port', u, d)) <=>
            (\E u \in Tokens : token[u] = "lock" /\ On(port, u, d))
        BY <3>2, <1>2, <1>3, <1>12
      <4> QED BY <3>2, <4>1, <1>2, <1>3, <1>12 DEF Owed
    <3> QED BY <3>1, <3>2
  <2> QED BY <2>1 DEF Owed
<1>17. Cardinality(Owed') = Cardinality(Owed) - 1
  BY <1>6, <1>7, <1>16, FS_RemoveElement
<1>18. Signalled' BY <1>3, <1>8, <1>11, <1>17 DEF Signalled
<1> QED BY <1>12, <1>15, <1>18 DEF Agreed

-----------------------------------------------------------------------------
\* The branches of the server.

LEMMA ExactFacts ==
  ASSUME Agreed
  PROVE  /\ IsFiniteSet(ActiveReaders) /\ IsFiniteSet(ActiveWriters)
         /\ Cardinality(ActiveReaders) \in Nat /\ Cardinality(ActiveWriters) \in Nat
         /\ Cardinality(ActiveReaders) = 0 <=> ActiveReaders = {}
         /\ Cardinality(ActiveWriters) = 0 <=> ActiveWriters = {}
         /\ port["readerQ"] \in Seq(Clients) /\ port["writerQ"] \in Seq(Clients)
         /\ Len(port["readerQ"]) \in Nat /\ Len(port["writerQ"]) \in Nat
         /\ Len(port["readerQ"]) = 0 <=> port["readerQ"] = <<>>
         /\ Len(port["writerQ"]) = 0 <=> port["writerQ"] = <<>>
         /\ activeReaders = Cardinality(ActiveReaders)
         /\ readers = activeReaders + Len(port["readerQ"])
         /\ writers = Len(port["writerQ"]) + Cardinality(ActiveWriters)
         /\ port["readerQ"] # <<>> => writers > 0
         /\ port["writerQ"] # <<>> => ActiveReaders # {} \/ ActiveWriters # {}
         /\ ActiveWriters # {} => ActiveReaders = {}
         /\ \A c, d \in ActiveWriters : c = d
<1>1. IsFiniteSet(ActiveReaders) BY ClientsAssumption, FS_Subset DEF ActiveReaders
<1>2. IsFiniteSet(ActiveWriters) BY ClientsAssumption, FS_Subset DEF ActiveWriters
<1>3. \A q \in {"readerQ", "writerQ"} : port[q] \in Seq(Clients) BY AgreedFacts
<1>4. \A q \in {"readerQ", "writerQ"} :
        Len(port[q]) \in Nat /\ (Len(port[q]) = 0 <=> port[q] = <<>>)
  BY <1>3, LenProperties, EmptySeq
<1>5. /\ Cardinality(ActiveReaders) \in Nat /\ Cardinality(ActiveWriters) \in Nat
      /\ Cardinality(ActiveReaders) = 0 <=> ActiveReaders = {}
      /\ Cardinality(ActiveWriters) = 0 <=> ActiveWriters = {}
  BY <1>1, <1>2, FS_CardinalityType, FS_EmptySet
<1> QED BY <1>1, <1>2, <1>3, <1>4, <1>5 DEF Agreed, IInv, Counted, Exact

\* The server moves no unlock of a reader but to the port of the Signal task.
LEMMA TokensUntouched ==
  ASSUME Agreed, UNCHANGED <<pc, tokenVars>>, \A t \in Tokens : port'[t] = port[t],
         \A c \in Clients : pc[c] = "runlock" =>
           ((On(port', "server", c) \/ On(port', "unlock", c)) <=>
            (On(port, "server", c) \/ On(port, "unlock", c)))
  PROVE  TokensFit' /\ Signalled'
<1>1. TokensFit'
  <2> SUFFICES ASSUME NEW t \in Tokens PROVE TokenFits(t)' BY DEF TokensFit
  <2>1. TokenFits(t) BY AgreedFacts
  <2> QED BY <2>1, FitsSame DEF tokenVars
<1>2. ASSUME NEW d \in Clients PROVE d \in Owed' <=> d \in Owed
  <2>1. (\E u \in Tokens : token'[u] = "lock" /\ On(port', u, d)) <=>
        (\E u \in Tokens : token[u] = "lock" /\ On(port, u, d))
    BY DEF tokenVars, On
  <2> QED BY <2>1 DEF Owed
<1>3. Owed' = Owed BY <1>2 DEF Owed
<1> QED BY <1>1, <1>3, SignalledSame DEF Agreed, tokenVars

\* A lock request comes to the Writer_Token: at most an unlock is before it.
LEMMA WriterGets ==
  ASSUME Agreed, UNCHANGED <<pc, writer, signalPort2>>, NEW w \in Clients, pc[w] = "wlock",
         ActiveWriters = {}, Holding' = Holding,
         port'["writer"] = Append(port["writer"], w)
  PROVE  WriterFits'
<1>1. Holding = {}
  <2>1. \A d \in Clients : d \in Holding => d \in ActiveWriters
    BY DEF Holding, ActiveWriters
  <2> QED BY <2>1 DEF Holding
<1>2. ASSUME NEW d \in Clients, On(port, "writer", d) PROVE pc[d] # "wlock"
  <2>1. ~On(port, "server", d) /\ ~On(port, "writerQ", d) BY <1>2, AgreedFacts
  <2> QED BY <2>1 DEF ActiveWriters
<1>3. ~One(port["writer"], "wlock")
  <2> SUFFICES ASSUME NEW d \in Clients, port["writer"] = <<d>>, pc[d] = "wlock" PROVE FALSE
    BY DEF One
  <2>1. On(port, "writer", d) BY OnShort
  <2> QED BY <2>1, <1>2
<1>4. ~Two(port["writer"], "wunlock", "wlock")
  <2> SUFFICES ASSUME NEW d \in Clients, NEW e \in Clients, port["writer"] = <<d, e>>,
                      pc[e] = "wlock"
               PROVE  FALSE
    BY DEF Two
  <2>1. On(port, "writer", e) BY OnShort
  <2> QED BY <2>1, <1>2
<1>5. CASE port["writer"] = <<>>
  <2>1. port'["writer"] = <<w>> BY <1>5, ShortQueues
  <2>2. One(port["writer"], "wlock")' BY <2>1 DEF One
  <2>3. ~One(port["writer"], "wunlock") BY <1>5, ShortQueues DEF One
  <2>4. writer \in {"free", "unlocked"} /\ signalPort2 = 0
    BY <1>1, <1>3, <1>4, <2>3 DEF Agreed, WriterFits
  <2> QED BY <2>2, <2>4, <1>1 DEF WriterFits
<1>6. CASE One(port["writer"], "wunlock")
  <2>1. PICK d \in Clients : port["writer"] = <<d>> /\ pc[d] = "wunlock" BY <1>6 DEF One
  <2>2. Append(<<d>>, w) = <<d, w>> BY ShortQueues
  <2>3. Two(port["writer"], "wunlock", "wlock")' BY <2>1, <2>2 DEF Two
  <2>4. port["writer"] # <<>> BY <2>1, ShortQueues
  <2>5. writer \in {"locked", "held", "unlock"} /\ signalPort2 = 0
    BY <1>1, <1>3, <2>4 DEF Agreed, WriterFits
  <2> QED BY <2>3, <2>5, <1>1 DEF WriterFits
<1> QED BY <1>3, <1>4, <1>5, <1>6 DEF Agreed, WriterFits

LEMMA ServeRLockAgreed ==
  ASSUME Agreed, ServeRLock, IInv'
  PROVE  Agreed'
<1>1. PICK c : c = Caller OBVIOUS
<1>2. /\ port["server"] # <<>> /\ pc[c] = "rlock" /\ readers' = readers + 1
      /\ UNCHANGED <<pc, tokenVars, writer, hold, writers, signalPort2, noWait, undefined>>
  BY <1>1 DEF ServeRLock, Serve
<1>3. /\ pc \in [Clients -> ClientStates] /\ Accepted /\ ScalarTypes
      /\ {"server", "readerQ", "writerQ", "reader", "unlock", "writer"} \subseteq Ports
      /\ Tokens \subseteq Ports
      /\ \A t \in Tokens :
           t \notin {"server", "readerQ", "writerQ", "reader", "unlock", "writer"}
  BY AgreedFacts
<1>4. /\ c \in Clients /\ On(port, "server", c)
      /\ \A p \in Ports \ {"server"} : ~On(port, p, c)
  BY <1>1, <1>2, ServeFacts DEF Agreed
<1>5. PICK q \in {"readerQ", "reader"} :
        /\ port' = Forward(q)
        /\ q = "readerQ" => activeReaders' = activeReaders /\ writers > 0
        /\ q = "reader" => activeReaders' = activeReaders + 1 /\ writers <= 0
  BY <1>3 DEF ServeRLock, ReaderMustWait, ScalarTypes
<1>6. /\ \A p \in Ports : \A d : On(port', p, d) <=>
           IF d = c THEN p = q ELSE On(port, p, d)
      /\ Len(port'[q]) = Len(port[q]) + 1
      /\ \A p \in Ports \ {"server", q} : port'[p] = port[p]
  BY <1>1, <1>2, <1>3, <1>5, ForwardFacts DEF Agreed
<1>7. TokensFit' /\ Signalled'
  <2>1. \A t \in Tokens : port'[t] = port[t] BY <1>3, <1>6
  <2>2. \A d \in Clients : d # c =>
          /\ On(port', "server", d) <=> On(port, "server", d)
          /\ On(port', "unlock", d) <=> On(port, "unlock", d)
    BY <1>3, <1>6
  <2> QED BY <1>2, <2>1, <2>2, TokensUntouched
<1>8. WriterFits'
  <2>1. port'["writer"] = port["writer"] BY <1>3, <1>6
  <2>2. Holding' = Holding BY <1>2, <1>3, <1>6 DEF Holding
  <2> QED BY <1>2, <2>1, <2>2, WriterSame DEF Agreed
<1>9. Carried' BY <1>2, <1>3, <1>6 DEF Agreed, Carried
<1>10. ActiveWriters' = ActiveWriters BY <1>2, <1>3, <1>6 DEF ActiveWriters
<1>11. port'["writerQ"] = port["writerQ"] BY <1>3, <1>6
<1>12. CASE q = "readerQ"
  <2>1. ActiveReaders' = ActiveReaders
    BY <1>2, <1>3, <1>4, <1>6, <1>12 DEF ActiveReaders
  <2>2. Len(port'["readerQ"]) = Len(port["readerQ"]) + 1 BY <1>6, <1>12
  <2>3. Exact'
    BY <1>2, <1>5, <1>10, <1>11, <1>12, <2>1, <2>2, ExactFacts DEF Exact
  <2> QED BY <1>2, <1>7, <1>8, <1>9, <2>3 DEF Agreed, EveryRequestAnswerable
<1>13. CASE q = "reader"
  <2>1. ActiveReaders' = ActiveReaders \cup {c}
    BY <1>2, <1>3, <1>4, <1>6, <1>13 DEF ActiveReaders
  <2>2. c \notin ActiveReaders BY <1>2, <1>4 DEF ActiveReaders
  <2>3. Cardinality(ActiveReaders') = Cardinality(ActiveReaders) + 1
    BY <2>1, <2>2, ExactFacts, FS_AddElement
  <2>4. port'["readerQ"] = port["readerQ"] BY <1>3, <1>6, <1>13
  <2>5. ActiveReaders' # {} BY <2>1
  <2>6. Exact'
    BY <1>2, <1>5, <1>10, <1>11, <1>13, <2>3, <2>4, <2>5, ExactFacts DEF Exact
  <2> QED BY <1>2, <1>7, <1>8, <1>9, <2>6 DEF Agreed, EveryRequestAnswerable
<1> QED BY <1>12, <1>13

LEMMA ServeWLockAgreed ==
  ASSUME Agreed, ServeWLock, IInv'
  PROVE  Agreed'
<1>1. PICK c : c = Caller OBVIOUS
<1>2. /\ port["server"] # <<>> /\ pc[c] = "wlock" /\ writers' = writers + 1
      /\ UNCHANGED <<pc, tokenVars, writer, hold, readers, activeReaders, signalPort2>>
      /\ UNCHANGED <<noWait, undefined>>
  BY <1>1 DEF ServeWLock, Serve
<1>3. /\ pc \in [Clients -> ClientStates] /\ Accepted /\ ScalarTypes
      /\ port \in [Ports -> Seq(Clients)]
      /\ {"server", "readerQ", "writerQ", "reader", "unlock", "writer"} \subseteq Ports
      /\ Tokens \subseteq Ports
      /\ \A t \in Tokens :
           t \notin {"server", "readerQ", "writerQ", "reader", "unlock", "writer"}
  BY AgreedFacts
<1>4. /\ c \in Clients /\ On(port, "server", c)
      /\ \A p \in Ports \ {"server"} : ~On(port, p, c)
  BY <1>1, <1>2, ServeFacts DEF Agreed
<1>5. PICK q \in {"writerQ", "writer"} :
        /\ port' = Forward(q)
        /\ q = "writerQ" => writers > 0 \/ activeReaders > 0
        /\ q = "writer" => writers <= 0 /\ activeReaders <= 0
  BY <1>3 DEF ServeWLock, WriterMustWait, ScalarTypes
<1>6. /\ \A p \in Ports : \A d : On(port', p, d) <=>
           IF d = c THEN p = q ELSE On(port, p, d)
      /\ Len(port'[q]) = Len(port[q]) + 1
      /\ \A p \in Ports \ {"server", q} : port'[p] = port[p]
  BY <1>1, <1>2, <1>3, <1>5, ForwardFacts DEF Agreed
<1>7. TokensFit' /\ Signalled'
  <2>1. \A t \in Tokens : port'[t] = port[t] BY <1>3, <1>6
  <2>2. \A d \in Clients : d # c =>
          /\ On(port', "server", d) <=> On(port, "server", d)
          /\ On(port', "unlock", d) <=> On(port, "unlock", d)
    BY <1>3, <1>6
  <2> QED BY <1>2, <2>1, <2>2, TokensUntouched
<1>8. Holding' = Holding BY <1>2, <1>3, <1>6 DEF Holding
<1>9. Carried' BY <1>2, <1>3, <1>6 DEF Agreed, Carried
<1>10. ActiveReaders' = ActiveReaders BY <1>2, <1>3, <1>6 DEF ActiveReaders
<1>11. port'["readerQ"] = port["readerQ"] BY <1>3, <1>6
<1>12. CASE q = "writerQ"
  <2>1. ActiveWriters' = ActiveWriters
    BY <1>2, <1>3, <1>4, <1>6, <1>12 DEF ActiveWriters
  <2>2. ActiveReaders # {} \/ ActiveWriters # {}
    <3>1. CASE activeReaders > 0
      <4>1. Cardinality(ActiveReaders) # 0 BY <3>1, ExactFacts
      <4> QED BY <4>1, ExactFacts
    <3>2. CASE writers > 0
      <4>1. Len(port["writerQ"]) # 0 \/ Cardinality(ActiveWriters) # 0
        BY <3>2, ExactFacts
      <4> QED BY <4>1, ExactFacts
    <3> QED BY <1>5, <1>12, <3>1, <3>2
  <2>3. Exact'
    BY <1>2, <1>6, <1>10, <1>11, <1>12, <2>1, <2>2, ExactFacts DEF Exact
  <2>4. port'["writer"] = port["writer"] BY <1>3, <1>6, <1>12
  <2>5. WriterFits' BY <1>2, <1>8, <2>4, WriterSame DEF Agreed
  <2> QED BY <1>2, <1>7, <1>9, <2>3, <2>5 DEF Agreed, EveryRequestAnswerable
<1>13. CASE q = "writer"
  <2>1. /\ writers = 0 /\ ActiveWriters = {} /\ port["writerQ"] = <<>>
        /\ Len(port["writerQ"]) = 0
    BY <1>5, <1>13, ExactFacts
  <2>2. ActiveWriters' = {c}
    <3>1. \A d \in Clients : d \in ActiveWriters' <=> d \in ActiveWriters \/ d = c
      BY <1>2, <1>3, <1>4, <1>6, <1>13 DEF ActiveWriters
    <3> QED BY <3>1, <2>1, <1>4 DEF ActiveWriters
  <2>3. Cardinality(ActiveWriters') = 1 BY <2>2, FS_Singleton
  <2>4. port'["writerQ"] = port["writerQ"] BY <1>3, <1>6, <1>13
  <2>5. Exact'
    <3>1. activeReaders' = Cardinality(ActiveReaders') BY <1>2, <1>10, ExactFacts
    <3>2. readers' = activeReaders' + Len(port'["readerQ"]) BY <1>2, <1>11, ExactFacts
    <3>3. writers' = Len(port'["writerQ"]) + Cardinality(ActiveWriters')
      BY <1>2, <2>1, <2>3, <2>4
    <3>4. writers' > 0 /\ ActiveWriters' # {} BY <1>2, <2>1, <2>2
    <3> QED BY <3>1, <3>2, <3>3, <3>4 DEF Exact
  <2>6. port'["writer"] = Append(port["writer"], c)
    BY <1>1, <1>3, <1>5, <1>13 DEF Forward, Received, Put, Drop
  <2>7. WriterFits' BY <1>2, <1>4, <1>8, <2>1, <2>6, WriterGets
  <2> QED BY <1>2, <1>7, <1>9, <2>5, <2>7 DEF Agreed, EveryRequestAnswerable
<1> QED BY <1>12, <1>13

\* The counters tell the server whether a writer waits in its queue.
LEMMA ServeRUnlockAgreed ==
  ASSUME Agreed, ServeRUnlock, IInv'
  PROVE  Agreed'
<1>1. PICK c, f : c = Caller /\ f = Forward("unlock") OBVIOUS
<1>2. /\ port["server"] # <<>> /\ pc[c] = "runlock"
      /\ readers' = readers - 1 /\ activeReaders' = activeReaders - 1
      /\ UNCHANGED <<pc, tokenVars, writer, hold, writers, signalPort2, noWait>>
  BY <1>1 DEF ServeRUnlock, Serve, ReadersAfterUnlock
<1>3. /\ pc \in [Clients -> ClientStates] /\ Accepted /\ ScalarTypes
      /\ port \in [Ports -> Seq(Clients)]
      /\ {"server", "readerQ", "writerQ", "reader", "unlock", "writer"} \subseteq Ports
      /\ Tokens \subseteq Ports
      /\ \A t \in Tokens :
           t \notin {"server", "readerQ", "writerQ", "reader", "unlock", "writer"}
  BY AgreedFacts
<1>4. /\ c \in Clients /\ On(port, "server", c)
      /\ \A p \in Ports \ {"server"} : ~On(port, p, c)
  BY <1>1, <1>2, ServeFacts DEF Agreed
<1>5. /\ Tidy(f)
      /\ \A p \in Ports : \A d : On(f, p, d) <=>
           IF d = c THEN p = "unlock" ELSE On(port, p, d)
      /\ \A p \in Ports \ {"server", "unlock"} : f[p] = port[p]
  BY <1>1, <1>2, <1>3, ForwardFacts DEF Agreed
<1>6. \/ activeReaders = 1 /\ writers > 0 /\ DispatchWriter(f)
      \/ ~(activeReaders = 1 /\ writers > 0) /\ port' = f /\ undefined' = undefined
  BY <1>1 DEF ServeRUnlock, LastReader
<1>7. c \in ActiveReaders BY <1>2, <1>4 DEF ActiveReaders
<1>8. ActiveWriters = {} /\ writers = Len(port["writerQ"]) BY <1>7, ExactFacts, FS_EmptySet
<1>9. IsFiniteSet(ActiveReaders \ {c})
      /\ Cardinality(ActiveReaders \ {c}) = Cardinality(ActiveReaders) - 1
  BY <1>7, ExactFacts, FS_RemoveElement
<1>10. f["readerQ"] = port["readerQ"] /\ f["writerQ"] = port["writerQ"]
       /\ f["writer"] = port["writer"] /\ \A t \in Tokens : f[t] = port[t]
  BY <1>3, <1>5
<1>11. ASSUME ~(activeReaders = 1 /\ writers > 0), port' = f, undefined' = undefined
       PROVE  Agreed'
  <2>1. TokensFit' /\ Signalled'
    <3>1. \A d \in Clients :
            (On(port', "server", d) \/ On(port', "unlock", d)) <=>
            (On(port, "server", d) \/ On(port, "unlock", d))
      BY <1>3, <1>4, <1>5, <1>11
    <3> QED BY <3>1, <1>2, <1>10, <1>11, TokensUntouched
  <2>2. Holding' = Holding BY <1>2, <1>3, <1>5, <1>11 DEF Holding
  <2>3. WriterFits' BY <2>2, <1>2, <1>10, <1>11, WriterSame DEF Agreed
  <2>4. Carried' BY <1>2, <1>3, <1>5, <1>11 DEF Agreed, Carried
  <2>5. ActiveReaders' = ActiveReaders \ {c}
    BY <1>2, <1>3, <1>4, <1>5, <1>11 DEF ActiveReaders
  <2>6. ActiveWriters' = {}
    <3>1. \A d \in Clients : d \in ActiveWriters' <=> d \in ActiveWriters
      BY <1>2, <1>3, <1>5, <1>11 DEF ActiveWriters
    <3> QED BY <3>1, <1>8 DEF ActiveWriters
  <2>7. Exact'
    <3>1. activeReaders' = Cardinality(ActiveReaders') BY <1>2, <1>9, <2>5, ExactFacts
    <3>2. readers' = activeReaders' + Len(port'["readerQ"])
      BY <1>2, <1>10, <1>11, ExactFacts
    <3>3. writers' = Len(port'["writerQ"]) + Cardinality(ActiveWriters')
      BY <1>2, <1>8, <1>10, <1>11, <2>6, ExactFacts, FS_EmptySet
    <3>4. port'["readerQ"] # <<>> => writers' > 0 BY <1>2, <1>10, <1>11, ExactFacts
    <3>5. ASSUME port'["writerQ"] # <<>> PROVE ActiveReaders' # {}
      <4>1. Len(port["writerQ"]) # 0 BY <3>5, <1>10, <1>11, ExactFacts
      <4>2. activeReaders # 1 BY <4>1, <1>8, <1>11, ExactFacts
      <4>3. Cardinality(ActiveReaders') # 0 BY <4>2, <1>9, <2>5, ExactFacts
      <4> QED BY <4>3, FS_EmptySet
    <3> QED BY <3>1, <3>2, <3>3, <3>4, <3>5 DEF Exact
  <2> QED BY <1>2, <1>11, <2>1, <2>3, <2>4, <2>7 DEF Agreed, EveryRequestAnswerable
<1>12. ASSUME activeReaders = 1, writers > 0, DispatchWriter(f) PROVE Agreed'
  <2>1. f["writerQ"] # <<>> BY <1>8, <1>10, <1>12, ExactFacts
  <2>2. PICK w : w = Head(f["writerQ"]) OBVIOUS
  <2>3. /\ w \in Clients /\ On(f, "writerQ", w)
        /\ \A p \in Ports : \A d : On(port', p, d) <=>
             IF d = w THEN p = "writer" ELSE On(f, p, d)
        /\ Len(port'["writerQ"]) = Len(f["writerQ"]) - 1
        /\ \A p \in Ports \ {"writerQ", "writer"} : port'[p] = f[p]
    BY <1>5, <1>12, <2>1, <2>2, DispatchFacts
  <2>4. /\ undefined' = undefined
        /\ port'["writer"] = Append(f["writer"], w)
    <3>1. port' = Put(Drop(f, "writerQ"), "writer", w) /\ undefined' = undefined
      BY <1>12, <2>1, <2>2 DEF DispatchWriter, WriterNext
    <3>2. f \in [Ports -> Seq(Clients)] BY <1>5 DEF Tidy
    <3> QED BY <3>1, <3>2, <1>3 DEF Put, Drop
  <2>5. On(port, "writerQ", w) /\ w # c /\ pc[w] = "wlock"
    BY <1>3, <1>5, <2>3, PortFacts DEF Accepted
  <2>6. TokensFit' /\ Signalled'
    <3>1. \A d \in Clients : pc[d] = "runlock" =>
            ((On(port', "server", d) \/ On(port', "unlock", d)) <=>
             (On(port, "server", d) \/ On(port, "unlock", d)))
      BY <1>3, <1>4, <1>5, <2>3, <2>5
    <3>2. \A t \in Tokens : port'[t] = port[t] BY <1>3, <1>10, <2>3
    <3> QED BY <3>1, <3>2, <1>2, TokensUntouched
  <2>7. Holding' = Holding BY <1>2, <1>3, <1>5, <2>3, <2>5 DEF Holding
  <2>8. WriterFits' BY <1>2, <1>8, <1>10, <2>3, <2>4, <2>5, <2>7, WriterGets
  <2>9. Carried' BY <1>2, <1>3, <1>5, <2>3 DEF Agreed, Carried
  <2>10. ActiveReaders' = ActiveReaders \ {c}
    BY <1>2, <1>3, <1>4, <1>5, <2>3, <2>5 DEF ActiveReaders
  <2>11. ActiveReaders' = {}
    <3>1. Cardinality(ActiveReaders \ {c}) = 0 BY <1>9, <1>12, ExactFacts
    <3> QED BY <3>1, <1>9, <2>10, FS_EmptySet
  <2>12. ActiveWriters' = {w}
    <3>1. \A d \in Clients : d \in ActiveWriters' <=> d \in ActiveWriters \/ d = w
      BY <1>2, <1>3, <1>4, <1>5, <2>3, <2>5 DEF ActiveWriters
    <3> QED BY <3>1, <1>8, <2>3 DEF ActiveWriters
  <2>13. Cardinality(ActiveWriters') = 1 BY <2>12, FS_Singleton
  <2>14. port'["readerQ"] = port["readerQ"] BY <1>3, <1>10, <2>3
  <2>15. Exact'
    <3>1. activeReaders' = Cardinality(ActiveReaders') BY <1>2, <1>12, <2>11, FS_EmptySet
    <3>2. readers' = activeReaders' + Len(port'["readerQ"]) BY <1>2, <2>14, ExactFacts
    <3>3. writers' = Len(port'["writerQ"]) + Cardinality(ActiveWriters')
      BY <1>2, <1>8, <1>10, <2>3, <2>13, ExactFacts
    <3>4. writers' > 0 /\ ActiveWriters' # {} BY <1>2, <1>12, <2>12
    <3> QED BY <3>1, <3>2, <3>3, <3>4 DEF Exact
  <2> QED BY <1>2, <2>4, <2>6, <2>8, <2>9, <2>15 DEF Agreed, EveryRequestAnswerable
<1> QED BY <1>6, <1>11, <1>12

\* All readers held back are admitted: as many as the counters say there are.
LEMMA AdmittedAll ==
  ASSUME NEW f, Tidy(f), NEW n \in Nat, n = Len(f["readerQ"]), n # 0
  PROVE  LET g == Admitted(f, n)
             moved == {d \in Clients : On(f, "readerQ", d)} IN
         /\ Cardinality(moved) = n
         /\ g["readerQ"] = <<>>
         /\ \A d : On(g, "reader", d) <=> On(f, "reader", d) \/ d \in moved
         /\ \A r \in Ports \ {"reader", "readerQ"} : g[r] = f[r]
<1> DEFINE g == Admitted(f, n)
           q == f["readerQ"]
           front == {q[i] : i \in 1..n}
           moved == {d \in Clients : On(f, "readerQ", d)}
<1>1. "readerQ" \in Ports /\ f \in [Ports -> Seq(Clients)] BY PortFacts DEF Tidy
<1>2. q \in Seq(Clients) /\ DOMAIN q = 1..n /\ n \in 1..Len(q)
  BY <1>1, LenProperties
<1>3. \A i \in 1..n : q[i] \in Clients BY <1>2
<1>4. front = moved
  <2>1. ASSUME NEW i \in 1..n PROVE q[i] \in moved BY <1>2, <1>3 DEF On
  <2>2. ASSUME NEW d \in moved PROVE d \in front
    <3>1. PICK i \in DOMAIN f["readerQ"] : f["readerQ"][i] = d BY <2>2 DEF On
    <3> QED BY <3>1, <1>2
  <2> QED BY <2>1, <2>2
<1>5. /\ Tidy(g)
      /\ IsFiniteSet(front) /\ Cardinality(front) <= n
      /\ \A d : On(g, "readerQ", d) <=> On(f, "readerQ", d) /\ d \notin front
      /\ \A d : On(g, "reader", d) <=> On(f, "reader", d) \/ d \in front
      /\ \A r \in Ports \ {"reader", "readerQ"} : g[r] = f[r]
  <2>1. n \in 1..Len(f["readerQ"]) BY <1>2
  <2>2. IsFiniteSet(front)
    <3>1. front \subseteq Clients BY <1>4
    <3> HIDE DEF front
    <3> QED BY <3>1, ClientsAssumption, FS_Subset
  <2>3. Tidy(g) /\ Cardinality(front) <= n BY <2>1, AdmittedTidy
  <2>4. /\ \A d : On(g, "readerQ", d) <=> On(f, "readerQ", d) /\ d \notin front
        /\ \A d : On(g, "reader", d) <=> On(f, "reader", d) \/ d \in front
        /\ \A r \in Ports \ {"reader", "readerQ"} : g[r] = f[r]
    BY <2>1, AdmittedTidy
  <2> QED BY <2>2, <2>3, <2>4
<1>6. Cardinality(front) = n
  <2> DEFINE s == [i \in 1..n |-> q[i]]
  <2>1. \A i, j \in 1..n : q[i] = q[j] => i = j BY <1>1, <1>2 DEF Tidy
  <2>2. s \in Injection(1..n, front) BY <2>1 DEF Injection, IsInjective
  <2>3. IsFiniteSet(1..n) /\ Cardinality(1..n) = n BY <1>2, FS_Interval
  <2> HIDE DEF s, front
  <2>4. Cardinality(1..n) <= Cardinality(front) BY <1>5, <2>2, <2>3, FS_Injection
  <2> QED BY <1>5, <2>3, <2>4, FS_CardinalityType
<1>7. g["readerQ"] = <<>>
  <2>1. g["readerQ"] \in Seq(Clients) BY <1>1, <1>5 DEF Tidy
  <2>2. ASSUME g["readerQ"] # <<>> PROVE FALSE
    <3>1. 1 \in DOMAIN g["readerQ"] /\ g["readerQ"][1] \in Clients
      BY <2>1, <2>2, LenProperties, EmptySeq
    <3>2. On(g, "readerQ", g["readerQ"][1]) BY <3>1 DEF On
    <3> QED BY <3>1, <3>2, <1>4, <1>5
  <2> QED BY <2>2
<1> QED BY <1>4, <1>5, <1>6, <1>7

\* The server finds the token it needs, and what its counters say is there.
LEMMA ServeWUnlockAgreed ==
  ASSUME Agreed, ServeWUnlock, IInv'
  PROVE  Agreed'
<1>1. PICK c, f : c = Caller /\ f = Forward("writer") OBVIOUS
<1>2. /\ port["server"] # <<>> /\ pc[c] = "wunlock"
      /\ UNCHANGED <<pc, tokenVars, writer, hold>>
  BY <1>1 DEF ServeWUnlock, Serve
<1>3. /\ pc \in [Clients -> ClientStates] /\ Accepted /\ ScalarTypes
      /\ port \in [Ports -> Seq(Clients)]
      /\ {"server", "readerQ", "writerQ", "reader", "unlock", "writer"} \subseteq Ports
      /\ Tokens \subseteq Ports
      /\ \A t \in Tokens :
           t \notin {"server", "readerQ", "writerQ", "reader", "unlock", "writer"}
  BY AgreedFacts
<1>4. /\ c \in Clients /\ On(port, "server", c)
      /\ \A p \in Ports \ {"server"} : ~On(port, p, c)
  BY <1>1, <1>2, ServeFacts DEF Agreed
<1>5. /\ Tidy(f)
      /\ \A p \in Ports : \A d : On(f, p, d) <=>
           IF d = c THEN p = "writer" ELSE On(port, p, d)
      /\ \A p \in Ports \ {"server", "writer"} : f[p] = port[p]
  BY <1>1, <1>2, <1>3, ForwardFacts DEF Agreed
<1>6. c \in Holding /\ c \in ActiveWriters BY <1>2, <1>4 DEF Holding, ActiveWriters
<1>7. signalPort2 = 1 /\ writer \in {"locked", "held"} /\ port["writer"] = <<>>
  BY <1>6 DEF Agreed, WriterFits
<1>8. /\ ActiveWriters = {c} /\ ActiveReaders = {} /\ activeReaders = 0
      /\ writers = Len(port["writerQ"]) + 1
  <2>1. ActiveWriters = {c} BY <1>6, ExactFacts
  <2>2. Cardinality(ActiveWriters) = 1 BY <2>1, FS_Singleton
  <2> QED BY <2>1, <2>2, ExactFacts
<1>9. /\ writers' = writers - 1 /\ signalPort2' = 0 /\ UNCHANGED <<readers, noWait>>
      /\ \/ /\ writers > 1 /\ DispatchWriter(f)
            /\ UNCHANGED activeReaders
         \/ writers <= 1 /\ readers > 0 /\ AdmitReaders(f)
         \/ /\ writers <= 1 /\ readers <= 0 /\ port' = f
            /\ UNCHANGED <<activeReaders, undefined>>
  BY <1>1, <1>7 DEF ServeWUnlock
<1>10. /\ f["readerQ"] = port["readerQ"] /\ f["writerQ"] = port["writerQ"]
       /\ f["writer"] = <<c>> /\ \A t \in Tokens : f[t] = port[t]
  <2>1. f["writer"] = Append(port["writer"], c)
    BY <1>1, <1>3 DEF Forward, Received, Put, Drop
  <2> QED BY <2>1, <1>3, <1>5, <1>7, ShortQueues
\* In every branch the client's unlock is all that the Writer_Token gets, or
\* the first that it gets.
<1>11. ASSUME Holding' = {}, One(port["writer"], "wunlock")'
                               \/ Two(port["writer"], "wunlock", "wlock")'
       PROVE  WriterFits'
  BY <1>2, <1>7, <1>9, <1>11 DEF WriterFits
<1>12. ASSUME writers > 1, DispatchWriter(f), UNCHANGED activeReaders PROVE Agreed'
  <2>1. f["writerQ"] # <<>> BY <1>8, <1>10, <1>12, ExactFacts
  <2>2. PICK w : w = Head(f["writerQ"]) OBVIOUS
  <2>3. /\ w \in Clients /\ On(f, "writerQ", w)
        /\ \A p \in Ports : \A d : On(port', p, d) <=>
             IF d = w THEN p = "writer" ELSE On(f, p, d)
        /\ Len(port'["writerQ"]) = Len(f["writerQ"]) - 1
        /\ \A p \in Ports \ {"writerQ", "writer"} : port'[p] = f[p]
    BY <1>5, <1>12, <2>1, <2>2, DispatchFacts
  <2>4. undefined' = undefined /\ port'["writer"] = <<c, w>>
    <3>1. port' = Put(Drop(f, "writerQ"), "writer", w) /\ undefined' = undefined
      BY <1>12, <2>1, <2>2 DEF DispatchWriter, WriterNext
    <3>2. f \in [Ports -> Seq(Clients)] BY <1>5 DEF Tidy
    <3>3. port'["writer"] = Append(f["writer"], w) BY <3>1, <3>2, <1>3 DEF Put, Drop
    <3>4. Append(<<c>>, w) = <<c, w>> BY ShortQueues
    <3> QED BY <3>1, <3>3, <3>4, <1>10
  <2>5. On(port, "writerQ", w) /\ w # c /\ pc[w] = "wlock"
    BY <1>3, <1>5, <2>3, PortFacts DEF Accepted
  <2>6. TokensFit' /\ Signalled'
    <3>1. \A d \in Clients : pc[d] = "runlock" =>
            ((On(port', "server", d) \/ On(port', "unlock", d)) <=>
             (On(port, "server", d) \/ On(port, "unlock", d)))
      BY <1>2, <1>3, <1>5, <2>3, <2>5
    <3>2. \A t \in Tokens : port'[t] = port[t] BY <1>3, <1>10, <2>3
    <3> QED BY <3>1, <3>2, <1>2, TokensUntouched
  <2>7. ActiveWriters' = {w}
    <3>1. \A d \in Clients : d \in ActiveWriters' <=> d = w \/ (d \in ActiveWriters /\ d # c)
      BY <1>2, <1>3, <1>4, <1>5, <2>3, <2>5 DEF ActiveWriters
    <3> QED BY <3>1, <1>8, <2>3 DEF ActiveWriters
  <2>8. Holding' = {}
    <3>1. \A d \in Clients : d \in Holding' => d \in ActiveWriters'
      BY DEF Holding, ActiveWriters
    <3>2. w \notin Holding' BY <1>2, <2>5 DEF Holding
    <3> QED BY <3>1, <3>2, <2>7 DEF Holding
  <2>9. Two(port["writer"], "wunlock", "wlock")'
    BY <1>2, <1>4, <2>3, <2>4, <2>5 DEF Two
  <2>10. WriterFits' BY <1>11, <2>8, <2>9
  <2>11. Carried' BY <1>2, <1>3, <1>5, <2>3 DEF Agreed, Carried
  <2>12. ActiveReaders' = {}
    <3>1. \A d \in Clients : d \in ActiveReaders' <=> d \in ActiveReaders
      BY <1>2, <1>3, <1>5, <2>3, <2>5 DEF ActiveReaders
    <3> QED BY <3>1, <1>8 DEF ActiveReaders
  <2>13. Exact'
    <3>1. activeReaders' = Cardinality(ActiveReaders')
      BY <1>8, <1>12, <2>12, FS_EmptySet
    <3>2. port'["readerQ"] = port["readerQ"] BY <1>3, <1>10, <2>3
    <3>3. readers' = activeReaders' + Len(port'["readerQ"])
      BY <1>9, <1>12, <3>2, ExactFacts
    <3>4. Cardinality(ActiveWriters') = 1 /\ ActiveWriters' # {} BY <2>7, FS_Singleton
    <3>5. writers' = Len(port'["writerQ"]) + Cardinality(ActiveWriters')
      BY <1>8, <1>9, <1>10, <2>3, <3>4, ExactFacts
    <3>6. writers' > 0 BY <1>8, <1>9, <1>12, ExactFacts
    <3> QED BY <3>1, <3>3, <3>4, <3>5, <3>6 DEF Exact
  <2> QED BY <1>9, <2>4, <2>6, <2>10, <2>11, <2>13 DEF Agreed, EveryRequestAnswerable
\* No writer is left.
<1>13. ASSUME writers <= 1
       PROVE  port["writerQ"] = <<>> /\ Len(port["writerQ"]) = 0 /\ writers' = 0
  BY <1>8, <1>9, <1>13, ExactFacts
<1>14. One(f["writer"], "wunlock")
  BY <1>2, <1>4, <1>10 DEF One
<1>15. ASSUME writers <= 1, readers > 0, AdmitReaders(f) PROVE Agreed'
  <2>1. PICK n : n = Len(f["readerQ"]) OBVIOUS
  <2>2. /\ n \in Nat /\ n # 0 /\ readers = n /\ readers - activeReaders = n
        /\ n \in 1..Len(f["readerQ"])
    BY <1>8, <1>10, <1>15, <2>1, ExactFacts
  <2>3. port' = Admitted(f, n) /\ activeReaders' = n /\ undefined' = undefined
    <3>1. \/ readers - activeReaders <= 0
          \/ /\ port' = Admitted(f, readers - activeReaders)
             /\ activeReaders' = readers /\ undefined' = undefined
          \/ readers - activeReaders > Len(f["readerQ"])
      BY <1>15 DEF AdmitReaders, Admitted
    <3>2. ~(n <= 0) /\ ~(n > Len(f["readerQ"])) BY <2>1, <2>2
    <3> QED BY <3>1, <3>2, <2>2
  <2> DEFINE moved == {d \in Clients : On(f, "readerQ", d)}
  <2>4. /\ Cardinality(moved) = n /\ port'["readerQ"] = <<>>
        /\ \A d : On(port', "reader", d) <=> On(f, "reader", d) \/ d \in moved
        /\ \A r \in Ports \ {"reader", "readerQ"} : port'[r] = f[r]
    BY <1>5, <2>1, <2>2, <2>3, AdmittedAll
  <2>5. \A d : ~On(port', "readerQ", d) BY <2>4, OnShort
  <2>6. \A r \in Ports \ {"reader", "readerQ"} : \A d : On(port', r, d) <=> On(f, r, d)
    BY <2>4 DEF On
  <2>7. \A d \in Clients : d \in moved <=> On(port, "readerQ", d)
    BY <1>3, <1>4, <1>5
  <2>8. \A d \in moved : d # c /\ pc[d] = "rlock" /\ ~On(port, "server", d)
    <3> SUFFICES ASSUME NEW d \in moved
                 PROVE  d # c /\ pc[d] = "rlock" /\ ~On(port, "server", d)
      OBVIOUS
    <3>1. On(port, "readerQ", d) BY <2>7
    <3>2. pc[d] = "rlock" BY <3>1, <1>3, PortFacts DEF Accepted
    <3> QED BY <3>1, <3>2, <1>2, <1>3, AgreedFacts
  <2> HIDE DEF moved
  <2>9. TokensFit' /\ Signalled'
    <3>1. \A d \in Clients : pc[d] = "runlock" =>
            ((On(port', "server", d) \/ On(port', "unlock", d)) <=>
             (On(port, "server", d) \/ On(port, "unlock", d)))
      BY <1>2, <1>3, <1>5, <2>6
    <3>2. \A t \in Tokens : port'[t] = port[t] BY <1>3, <1>10, <2>4
    <3> QED BY <3>1, <3>2, <1>2, TokensUntouched
  <2>10. ActiveWriters' = {}
    <3>1. \A d \in Clients : d \in ActiveWriters' => d \in ActiveWriters /\ d # c
      BY <1>2, <1>3, <1>5, <2>6 DEF ActiveWriters
    <3> QED BY <3>1, <1>8 DEF ActiveWriters
  <2>11. Holding' = {}
    <3>1. \A d \in Clients : d \in Holding' => d \in ActiveWriters'
      BY DEF Holding, ActiveWriters
    <3> QED BY <3>1, <2>10 DEF Holding
  <2>12. WriterFits'
    <3>1. port'["writer"] = f["writer"] BY <1>3, <2>4
    <3>2. One(port["writer"], "wunlock")' BY <1>2, <1>14, <3>1 DEF One
    <3> QED BY <1>11, <2>11, <3>2
  <2>13. Carried'
    <3> SUFFICES ASSUME NEW d \in Clients, pc[d] \in Entries
                 PROVE  \E q \in Ports : On(port', q, d)
      BY <1>2 DEF Carried
    <3>1. PICK q \in Ports : On(port, q, d) BY DEF Agreed, Carried
    <3>2. CASE d = c BY <3>2, <1>3, <1>5, <2>6
    <3>3. CASE d # c /\ q = "readerQ" BY <3>1, <3>3, <1>3, <2>4, <2>7
    <3>4. CASE d # c /\ q = "reader" BY <3>1, <3>4, <1>3, <1>5, <2>4
    <3>5. CASE d # c /\ q \notin {"reader", "readerQ"} BY <3>1, <3>5, <1>5, <2>6
    <3> QED BY <3>2, <3>3, <3>4, <3>5
  <2>14. ActiveReaders' = moved
    <3>1. ASSUME NEW d \in Clients PROVE d \in ActiveReaders' <=> d \in moved
      <4>1. CASE d \in moved
        <5>1. d # c /\ pc[d] = "rlock" /\ ~On(port, "server", d) BY <4>1, <2>8
        <5>2. ~On(port', "server", d) /\ ~On(port', "readerQ", d)
          BY <5>1, <1>3, <1>5, <2>5, <2>6
        <5> QED BY <4>1, <5>1, <5>2, <1>2 DEF ActiveReaders
      <4>2. CASE d \notin moved
        <5>1. d \notin ActiveReaders BY <1>8
        <5>2. ~On(port, "readerQ", d) BY <4>2, <2>7
        <5>3. d # c => (On(port', "server", d) <=> On(port, "server", d))
          BY <1>3, <1>5, <2>6
        <5> QED BY <4>2, <5>1, <5>2, <5>3, <1>2 DEF ActiveReaders
      <4> QED BY <4>1, <4>2
    <3>2. moved \subseteq Clients BY DEF moved
    <3> QED BY <3>1, <3>2 DEF ActiveReaders
  <2>15. Exact'
    <3>1. port'["writerQ"] = <<>> BY <1>3, <1>10, <1>13, <1>15, <2>4
    <3>2. Len(port'["readerQ"]) = 0 /\ Len(port'["writerQ"]) = 0 BY <2>4, <3>1, <1>13, <1>15
    <3>3. activeReaders' = Cardinality(ActiveReaders') BY <2>3, <2>4, <2>14
    <3>4. readers' = activeReaders' + Len(port'["readerQ"]) BY <1>9, <2>2, <2>3, <3>2
    <3>5. writers' = Len(port'["writerQ"]) + Cardinality(ActiveWriters')
      BY <1>13, <1>15, <2>10, <3>2, FS_EmptySet
    <3> QED BY <2>4, <3>1, <3>3, <3>4, <3>5 DEF Exact
  <2> QED BY <1>9, <2>3, <2>9, <2>12, <2>13, <2>15 DEF Agreed, EveryRequestAnswerable
<1>16. ASSUME writers <= 1, readers <= 0, port' = f, UNCHANGED <<activeReaders, undefined>>
       PROVE  Agreed'
  <2>1. port["readerQ"] = <<>> BY <1>8, <1>16, ExactFacts
  <2>2. TokensFit' /\ Signalled'
    <3>1. \A d \in Clients : pc[d] = "runlock" =>
            ((On(port', "server", d) \/ On(port', "unlock", d)) <=>
             (On(port, "server", d) \/ On(port, "unlock", d)))
      BY <1>2, <1>3, <1>5, <1>16
    <3> QED BY <3>1, <1>2, <1>10, <1>16, TokensUntouched
  <2>3. ActiveWriters' = {}
    <3>1. \A d \in Clients : d \in ActiveWriters' => d \in ActiveWriters /\ d # c
      BY <1>2, <1>3, <1>5, <1>16 DEF ActiveWriters
    <3> QED BY <3>1, <1>8 DEF ActiveWriters
  <2>4. Holding' = {}
    <3>1. \A d \in Clients : d \in Holding' => d \in ActiveWriters'
      BY DEF Holding, ActiveWriters
    <3> QED BY <3>1, <2>3 DEF Holding
  <2>5. WriterFits'
    <3>1. One(port["writer"], "wunlock")' BY <1>2, <1>14, <1>16 DEF One
    <3> QED BY <1>11, <2>4, <3>1
  <2>6. Carried' BY <1>2, <1>3, <1>5, <1>16 DEF Agreed, Carried
  <2>7. ActiveReaders' = {}
    <3>1. \A d \in Clients : d \in ActiveReaders' <=> d \in ActiveReaders
      BY <1>2, <1>3, <1>5, <1>16 DEF ActiveReaders
    <3> QED BY <3>1, <1>8 DEF ActiveReaders
  <2>8. Exact'
    <3>1. activeReaders' = Cardinality(ActiveReaders')
      BY <1>8, <1>16, <2>7, FS_EmptySet
    <3>2. port'["readerQ"] = <<>> /\ port'["writerQ"] = <<>>
          /\ port'["readerQ"] = port["readerQ"] /\ port'["writerQ"] = port["writerQ"]
      BY <1>10, <1>13, <1>16, <2>1
    <3>3. readers' = activeReaders' + Len(port'["readerQ"])
      BY <1>9, <1>16, <3>2, ExactFacts
    <3>4. writers' = Len(port'["writerQ"]) + Cardinality(ActiveWriters')
      BY <1>13, <1>16, <2>3, <3>2, FS_EmptySet
    <3> QED BY <3>1, <3>2, <3>3, <3>4 DEF Exact
  <2> QED BY <1>9, <1>16, <2>2, <2>5, <2>6, <2>8 DEF Agreed, EveryRequestAnswerable
<1> QED BY <1>9, <1>12, <1>15, <1>16

-----------------------------------------------------------------------------
LEMMA InitAgreed == ASSUME Init PROVE Agreed
<1>1. IInv BY InitIInv
<1>2. /\ \A p \in Ports : port[p] = <<>>
      /\ \A p \in Ports : \A c : ~On(port, p, c)
      /\ {"server", "readerQ", "writerQ", "unlock", "writer"} \subseteq Ports
      /\ Tokens \subseteq Ports
  <2>1. \A p \in Ports : port[p] = <<>> BY DEF Init
  <2>2. \A p \in Ports : \A c : ~On(port, p, c) BY <2>1, OnShort
  <2> QED BY <2>1, <2>2, PortFacts
<1>3. /\ workerPort = <<>> /\ signalPort = <<>> /\ writer = "free" /\ signalPort2 = 0
      /\ \A c \in Clients : pc[c] = "idle"
      /\ \A t \in Tokens : token[t] = "created"
      /\ readers = 0 /\ activeReaders = 0 /\ writers = 0
      /\ ~noWait /\ ~undefined
  BY DEF Init
<1>4. \A t : ~Queued(<<>>, t) BY DEF Queued
<1>5. TokensFit BY <1>2, <1>3, <1>4 DEF TokensFit, TokenFits
<1>6. Holding = {} /\ ActiveReaders = {} /\ ActiveWriters = {} /\ Owed = {}
  BY <1>3 DEF Holding, ActiveReaders, ActiveWriters, Owed
<1>7. WriterFits BY <1>2, <1>3, <1>6 DEF WriterFits
<1>8. Len(port["readerQ"]) = 0 /\ Len(port["writerQ"]) = 0 BY <1>2
<1>9. Exact BY <1>2, <1>3, <1>6, <1>8, FS_EmptySet DEF Exact
<1>10. NoRepeats(<<>>) BY DEF NoRepeats
<1>11. Signalled BY <1>3, <1>6, <1>10, FS_EmptySet DEF Signalled
<1>12. Carried BY <1>3 DEF Carried, Entries
<1> QED BY <1>1, <1>3, <1>5, <1>7, <1>9, <1>11, <1>12 DEF Agreed, EveryRequestAnswerable

LEMMA NextAgreed == ASSUME Agreed, [Next]_vars PROVE Agreed'
<1>1. IInv' BY NextIInv DEF Agreed
<1>2. ASSUME NEW c \in Clients, Request(c) \/ Release(c) PROVE Agreed'
  BY <1>1, <1>2, CallAgreed
<1>3. CASE Server
  BY <1>1, <1>3, ServeRLockAgreed, ServeRUnlockAgreed, ServeWLockAgreed,
     ServeWUnlockAgreed
  DEF Server
<1>4. CASE Semaphore BY <1>1, <1>4, SemaphoreAgreed
<1>5. CASE Signal BY <1>1, <1>5, SignalAgreed
<1>6. ASSUME NEW t \in Tokens, Token(t) PROVE Agreed'
  <2>1. CASE TokenStarts(t) BY <1>1, <2>1, BecomesFree DEF TokenStarts
  <2> QED BY <1>1, <1>6, <2>1, TokenReceivesAgreed, TokenRepliesAgreed,
             TokenEndsCycleAgreed
          DEF Token
<1>7. CASE Writer
  BY <1>1, <1>7, WriterTurnsAgreed, WriterRepliesAgreed DEF Writer
<1>8. CASE UNCHANGED vars
  <2>1. UNCHANGED <<pc, port, counterVars, tokenVars, writerVars, noWait, undefined>>
    BY <1>8 DEF vars
  <2>2. Exact' /\ Carried' /\ EveryRequestAnswerable' /\ Holding' = Holding
        /\ \A c \in Clients : \A q \in Ports : On(port, q, c) => pc'[c] = pc[c]
    BY <1>1, <2>1, StillSame
  <2>3. TokensFit' /\ Signalled' BY <2>1, TokensUntouched
  <2>4. WriterFits' BY <2>1, <2>2, WriterSame DEF Agreed, writerVars
  <2> QED BY <1>1, <2>2, <2>3, <2>4 DEF Agreed
<1> QED BY <1>2, <1>3, <1>4, <1>5, <1>6, <1>7, <1>8 DEF Next

\* The counters, the ports and the states of the tokens of RWLock_Server::run,
\* Semaphore::run, Signal::run and Token::run fit together in every behaviour.
THEOREM Agreement == Spec => []Agreed
<1>1. Init => Agreed BY InitAgreed
<1>2. Agreed /\ [Next]_vars => Agreed' BY NextAgreed
<1> QED BY <1>1, <1>2, PTL DEF Spec

LEMMA AgreedBounds ==
  ASSUME Agreed
  PROVE  /\ Cardinality(Owed) <= Cardinality(Tokens) /\ Cardinality(Tokens) \in Nat
         /\ IsFiniteSet(Owed) /\ Cardinality(Owed) \in Nat
         /\ Readers \subseteq Owed
<1>1. signalPort \in Seq(Tokens) /\ NoRepeats(signalPort) /\ Cardinality(Owed) = Len(signalPort)
  BY AgreedFacts DEF Agreed, Signalled, ScalarTypes
<1>2. IsFiniteSet(Owed) BY ClientsAssumption, FS_Subset DEF Owed
<1>3. Readers \subseteq Owed BY DEF Readers, Owed
<1> QED BY <1>1, <1>2, <1>3, QueueBounded, FS_CardinalityType

LEMMA AgreedImpliesConsistent == ASSUME Agreed PROVE Consistent
<1>1. ReadersBounded
  <2>1. Cardinality(Readers) <= Cardinality(Owed) /\ IsFiniteSet(Readers)
    BY AgreedBounds, FS_Subset
  <2> QED BY <2>1, AgreedBounds, FS_CardinalityType DEF ReadersBounded
<1>2. EveryRequestAnswerable BY DEF Agreed
<1>3. NobodyStranded
  <2>1. port["readerQ"] # <<>> => writers > 0 BY ExactFacts
  <2>2. ASSUME port["writerQ"] # <<>>, ~(activeReaders > 0)
        PROVE  port["writer"] # <<>> \/ writer \in {"locked", "held"}
    <3>1. ActiveReaders = {} BY <2>2, ExactFacts
    <3>2. PICK c \in ActiveWriters : TRUE BY <2>2, <3>1, ExactFacts
    <3>3. CASE c \in Holding
      BY <3>3 DEF Agreed, WriterFits
    <3>4. CASE c \notin Holding
      <4>1. c \in Clients /\ pc[c] = "wlock" /\ ~On(port, "server", c)
            /\ ~On(port, "writerQ", c)
        BY <3>2, <3>4 DEF ActiveWriters, Holding
      <4>2. PICK p \in Ports : On(port, p, c) BY <4>1 DEF Agreed, Carried, Entries
      <4>3. pc[c] \in Accepts(p) BY <4>2, AgreedFacts DEF Accepted
      <4>4. p = "writer" BY <4>1, <4>2, <4>3, PortFacts DEF Ports, TaskPorts
      <4> QED BY <4>2, <4>4, OnShort
    <3> QED BY <3>3, <3>4
  <2> QED BY <2>1, <2>2 DEF NobodyStranded
<1>4. QuiescentIsReset
  <2> SUFFICES ASSUME \A c \in Clients : pc[c] = "idle"
               PROVE  /\ readers = 0 /\ activeReaders = 0 /\ writers = 0
                      /\ signalPort = <<>> /\ signalPort2 = 0
                      /\ \A t \in Tokens : token[t] \in {"created", "free", "unlocked"}
    BY DEF QuiescentIsReset
  <2>1. ActiveReaders = {} /\ ActiveWriters = {} /\ Owed = {} /\ Holding = {}
    BY DEF ActiveReaders, ActiveWriters, Owed, Holding
  <2>2. readers = 0 /\ activeReaders = 0 /\ writers = 0
    <3>1. port["readerQ"] = <<>> /\ port["writerQ"] = <<>>
      <4>1. ASSUME NEW p \in {"readerQ", "writerQ"}, port[p] # <<>> PROVE FALSE
        <5>1. p \in Ports /\ port[p] \in Seq(Clients) BY AgreedFacts
        <5>2. Head(port[p]) \in Clients /\ On(port, p, Head(port[p]))
          BY <4>1, <5>1, DropTidy, AgreedFacts
        <5>3. pc[Head(port[p])] \in Accepts(p) BY <5>1, <5>2, AgreedFacts DEF Accepted
        <5> QED BY <5>2, <5>3, PortFacts
      <4> QED BY <4>1
    <3> QED BY <2>1, <3>1, ExactFacts
  <2>3. signalPort = <<>>
    <3>1. signalPort \in Seq(Tokens) /\ Len(signalPort) = 0
      BY <2>1, AgreedFacts, FS_EmptySet DEF Agreed, Signalled, ScalarTypes
    <3> QED BY <3>1, EmptySeq
  <2>4. \A e \in Entries : \A q : ~One(q, e) /\ ~Two(q, e, "runlock")
    BY DEF One, Two, Entries
  <2>5. signalPort2 = 0 BY <2>1, <2>4 DEF Agreed, WriterFits, Entries
  <2>6. ASSUME NEW t \in Tokens PROVE token[t] \in {"created", "free", "unlocked"}
    <3>1. ~Queued(signalPort, t) BY <2>3 DEF Queued
    <3>2. TokenFits(t) BY AgreedFacts
    <3> QED BY <2>4, <3>1, <3>2 DEF TokenFits, Entries
  <2> QED BY <2>2, <2>3, <2>5, <2>6
<1>5. TokensServeTheirEntry
  <2>1. ASSUME NEW q, NEW e, One(q, e) PROVE pc[Head(q)] = e
    <3>1. PICK c \in Clients : q = <<c>> /\ pc[c] = e BY <2>1 DEF One
    <3> QED BY <3>1, ShortQueues
  <2>2. ASSUME NEW q, NEW e, NEW g, Two(q, e, g) PROVE pc[Head(q)] = e
    <3>1. PICK c \in Clients, d \in Clients : q = <<c, d>> /\ pc[c] = e BY <2>2 DEF Two
    <3> QED BY <3>1, ShortQueues
  <2>3. ASSUME NEW t \in Tokens
        PROVE  /\ token[t] = "lock" => pc[Head(port[t])] = "rlock"
               /\ token[t] = "unlock" => pc[Head(port[t])] = "runlock"
    BY <2>1, <2>2, AgreedFacts DEF TokenFits
  <2>4. /\ writer = "lock" => pc[Head(port["writer"])] = "wlock"
        /\ writer = "unlock" => pc[Head(port["writer"])] = "wunlock"
    BY <2>1, <2>2 DEF Agreed, WriterFits
  <2> QED BY <2>3, <2>4 DEF TokensServeTheirEntry
<1> QED BY <1>1, <1>2, <1>3, <1>4, <1>5 DEF Consistent

\* No more readers than tokens, no unlock without a token, no receive from an
\* empty queue, nobody stranded, counters back at zero, and tokens that serve
\* the entry they take a message for: RWLock_Server::run keeps its books.
THEOREM BooksAgree == Spec => []Consistent
<1>1. Agreed => Consistent BY AgreedImpliesConsistent
<1> QED BY <1>1, Agreement, PTL

-----------------------------------------------------------------------------
(***************************************************************************)
(* The lock implements the abstract read-write lock: a reply to a lock     *)
(* request is the grant, and a reply to an unlock its end.  All other      *)
(* steps than these and the calls are invisible to the clients.            *)
(***************************************************************************)
Mapped == [c \in Clients |-> Abstract(c)]

LEMMA MappedMove ==
  ASSUME NEW c \in Clients, \A d \in Clients \ {c} : pc'[d] = pc[d],
         NEW from, NEW to, Abstract(c) = from, Abstract(c)' = to
  PROVE  Promise!Move(c, from, to)
<1>1. \A d \in Clients \ {c} : Abstract(d)' = Abstract(d) BY DEF Abstract
<1>2. Mapped[c] = from /\ Mapped' = [Mapped EXCEPT ![c] = to]
  BY <1>1 DEF Mapped
<1> QED BY <1>2 DEF Promise!Move, Mapped

LEMMA MappedSets ==
  ASSUME pc \in [Clients -> ClientStates]
  PROVE  Promise!Reading = Readers /\ Promise!Writing = Writers
<1>1. ASSUME NEW c \in Clients
      PROVE  /\ Abstract(c) = "reading" <=> pc[c] = "reading"
             /\ Abstract(c) = "writing" <=> pc[c] = "writing"
  BY DEF Abstract, ClientStates, Entries
<1> QED BY <1>1 DEF Promise!Reading, Promise!Writing, Readers, Writers

\* Who is granted a lock by the tokens may have it.
LEMMA MayRead ==
  ASSUME Agreed, NEW c \in ActiveReaders \cap Owed, pc[c] # "reading"
  PROVE  Promise!Writing = {} /\ Cardinality(Promise!Reading) < Cardinality(Tokens)
<1>1. Promise!Reading = Readers /\ Promise!Writing = Writers
  BY MappedSets, AgreedFacts
<1>2. ActiveWriters = {} BY ExactFacts
<1>3. Writers = {}
  <2>1. Writers \subseteq ActiveWriters BY DEF Writers, ActiveWriters
  <2> QED BY <1>2, <2>1
<1>4. Readers \subseteq Owed \ {c} BY AgreedBounds DEF Readers
<1>5. IsFiniteSet(Owed \ {c}) /\ Cardinality(Owed \ {c}) = Cardinality(Owed) - 1
  BY AgreedBounds, FS_RemoveElement
<1>6. IsFiniteSet(Readers) /\ Cardinality(Readers) <= Cardinality(Owed \ {c})
  BY <1>4, <1>5, FS_Subset
<1>7. Cardinality(Readers) \in Nat BY <1>6, FS_CardinalityType
<1>8. Cardinality(Readers) < Cardinality(Tokens) BY <1>5, <1>6, <1>7, AgreedBounds
<1> QED BY <1>1, <1>3, <1>8

LEMMA MayWrite ==
  ASSUME Agreed, NEW c \in ActiveWriters, pc[c] # "writing"
  PROVE  Promise!Writing = {} /\ Promise!Reading = {}
<1>1. Promise!Reading = Readers /\ Promise!Writing = Writers
  BY MappedSets, AgreedFacts
<1>2. ActiveReaders = {} /\ \A d \in ActiveWriters : d = c BY ExactFacts
<1>3. Readers \subseteq ActiveReaders /\ Writers \subseteq ActiveWriters
  BY DEF Readers, Writers, ActiveReaders, ActiveWriters
<1>4. c \notin Writers BY DEF Writers
<1> QED BY <1>1, <1>2, <1>3, <1>4

LEMMA CallPromised ==
  ASSUME Agreed, NEW c \in Clients, Request(c) \/ Release(c)
  PROVE  Promise!Next
<1>1. PICK from, entry :
        /\ Call(c, from, entry)
        /\ <<from, entry>> \in {<<"idle", "rlock">>, <<"idle", "wlock">>,
                                <<"reading", "runlock">>, <<"writing", "wunlock">>}
  BY DEF Request, Release
<1>2. pc[c] = from /\ pc'[c] = entry /\ \A d \in Clients \ {c} : pc'[d] = pc[d]
  BY <1>1, AgreedFacts DEF Call
<1>3. CASE from = "idle" /\ entry = "rlock"
  <2>1. Promise!Move(c, "idle", "wantRead") BY <1>2, <1>3, MappedMove DEF Abstract
  <2> QED BY <2>1 DEF Promise!Next, Promise!AskRead
<1>4. CASE from = "idle" /\ entry = "wlock"
  <2>1. Promise!Move(c, "idle", "wantWrite") BY <1>2, <1>4, MappedMove DEF Abstract
  <2> QED BY <2>1 DEF Promise!Next, Promise!AskWrite
<1>5. CASE from = "reading" /\ entry = "runlock"
  <2>1. Promise!Move(c, "reading", "leaving") BY <1>2, <1>5, MappedMove DEF Abstract
  <2> QED BY <2>1 DEF Promise!Next, Promise!Leave
<1>6. CASE from = "writing" /\ entry = "wunlock"
  <2>1. Promise!Move(c, "writing", "leaving") BY <1>2, <1>6, MappedMove DEF Abstract
  <2> QED BY <2>1 DEF Promise!Next, Promise!Leave
<1> QED BY <1>1, <1>3, <1>4, <1>5, <1>6

LEMMA ReplyPromised ==
  ASSUME Agreed, NEW p \in Tokens \cup {"writer"}, Reply(p),
         p \in Tokens => token[p] \in {"lock", "unlock"}
  PROVE  Promise!Next
<1>1. PICK c : c = Head(port[p]) OBVIOUS
<1>2. /\ p \in Ports /\ c \in Clients /\ On(port, p, c)
      /\ \A q \in Ports : On(port, q, c) => q = p
      /\ pc'[c] = Replied(pc[c]) /\ \A d \in Clients \ {c} : pc'[d] = pc[d]
      /\ pc[c] \in Accepts(p)
  BY <1>1, ReplyFacts
<1>3. {"server", "readerQ", "writerQ"} \subseteq Ports
      /\ p \notin {"server", "readerQ", "writerQ"}
  BY AgreedFacts
<1>4. pc[c] \in Entries BY <1>2, AcceptsEntries
<1>5. CASE pc[c] = "rlock"
  <2>1. p \in Tokens BY <1>2, <1>5, PortFacts
  <2>2. TokenFits(p) BY <2>1, AgreedFacts
  <2>3. token[p] # "unlock"
    <3>1. ASSUME token[p] = "unlock" PROVE FALSE
      <4>1. One(port[p], "runlock") BY <2>2, <3>1 DEF TokenFits
      <4>2. PICK d \in Clients : port[p] = <<d>> /\ pc[d] = "runlock" BY <4>1 DEF One
      <4> QED BY <4>2, <1>1, <1>5, ShortQueues
    <3> QED BY <3>1
  <2>4. token[p] = "lock" BY <2>1, <2>3
  <2>5. c \in Owed BY <1>2, <1>5, <2>1, <2>4 DEF Owed
  <2>6. c \in ActiveReaders BY <1>2, <1>3, <1>5 DEF ActiveReaders
  <2>7. Promise!Writing = {} /\ Cardinality(Promise!Reading) < Cardinality(Tokens)
    BY <1>5, <2>5, <2>6, MayRead
  <2>8. pc'[c] = "reading" BY <1>2, <1>5 DEF Replied
  <2>9. Promise!Move(c, "wantRead", "reading")
    BY <1>2, <1>5, <2>8, MappedMove DEF Abstract
  <2>10. Promise!Cardinality(Promise!Reading) = Cardinality(Promise!Reading)
    BY DEF Promise!Cardinality, Cardinality
  <2> QED BY <1>2, <2>7, <2>9, <2>10 DEF Promise!Next, Promise!GrantRead
<1>6. CASE pc[c] = "wlock"
  <2>1. c \in ActiveWriters BY <1>2, <1>3, <1>6 DEF ActiveWriters
  <2>2. Promise!Writing = {} /\ Promise!Reading = {} BY <1>6, <2>1, MayWrite
  <2>3. pc'[c] = "writing" BY <1>2, <1>6 DEF Replied
  <2>4. Promise!Move(c, "wantWrite", "writing")
    BY <1>2, <1>6, <2>3, MappedMove DEF Abstract
  <2> QED BY <1>2, <2>2, <2>4 DEF Promise!Next, Promise!GrantWrite
<1>7. CASE pc[c] \in {"runlock", "wunlock"}
  <2>1. pc'[c] = "idle" BY <1>2, <1>7 DEF Replied
  <2>2. Promise!Move(c, "leaving", "idle")
    BY <1>2, <1>7, <2>1, MappedMove DEF Abstract
  <2> QED BY <1>2, <2>2 DEF Promise!Next, Promise!Left
<1> QED BY <1>4, <1>5, <1>6, <1>7 DEF Entries

LEMMA StepPromised == ASSUME Agreed, [Next]_vars PROVE [Promise!Next]_Mapped
<1>1. ASSUME UNCHANGED pc PROVE UNCHANGED Mapped BY <1>1 DEF Mapped, Abstract
<1>2. ASSUME NEW c \in Clients, Request(c) \/ Release(c) PROVE Promise!Next
  BY <1>2, CallPromised
<1>3. CASE Server
  BY <1>1, <1>3 DEF Server, ServeRLock, ServeRUnlock, ServeWLock, ServeWUnlock, Serve
<1>4. CASE Semaphore BY <1>1, <1>4 DEF Semaphore
<1>5. CASE Signal BY <1>1, <1>5 DEF Signal
<1>6. ASSUME NEW t \in Tokens, Token(t) PROVE [Promise!Next]_Mapped
  <2>1. CASE TokenReplies(t)
    BY <2>1, ReplyPromised DEF TokenReplies
  <2> QED BY <1>1, <1>6, <2>1 DEF Token, TokenStarts, TokenReceives, TokenEndsCycle
<1>7. CASE Writer
  <2>1. CASE WriterReplies
    <3>1. Reply("writer") /\ "writer" \notin Tokens
      BY <2>1, AgreedFacts DEF WriterReplies
    <3> QED BY <3>1, ReplyPromised
  <2> QED BY <1>1, <1>7, <2>1 DEF Writer, WriterReceives, WriterEndsCycle
<1>8. CASE UNCHANGED vars BY <1>1, <1>8 DEF vars
<1> QED BY <1>2, <1>3, <1>4, <1>5, <1>6, <1>7, <1>8 DEF Next

\* The tasks behind RWLock_Server::run implement a read-write lock with as many
\* places for readers as there are tokens, for every number of clients.
THEOREM Refinement == Spec => ImplementsReadWriteLock
<1>1. Init => Promise!Init BY DEF Init, Promise!Init, Abstract
<1>2. Agreed /\ [Next]_vars => [Promise!Next]_Mapped BY StepPromised
<1> QED BY <1>1, <1>2, Agreement, PTL DEF Spec, ImplementsReadWriteLock, Promise!Spec, Mapped
=============================================================================
