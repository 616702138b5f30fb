------------------------ MODULE SemaphoreTaskProofs ------------------------
(***************************************************************************)
(* Proofs about SemaphoreTask, for every number of clients and of tokens:  *)
(* every token is accounted for by one note or request, the tokens taken   *)
(* are as many as the clients that hold the semaphore, and, unless tokens  *)
(* that start taken serve a second phase, no signal finds the port of the  *)
(* signal entry empty.                                                     *)
(***************************************************************************)
EXTENDS SemaphoreTask, FiniteSetTheorems, SequenceTheorems, TLAPS

-----------------------------------------------------------------------------
\* The inductive invariant.  k is a record of its twelve fields.
Shape ==
  k = [at |-> k.at, token |-> k.token, job |-> k.job, inbox |-> k.inbox,
       waits |-> k.waits, signals |-> k.signals, hand |-> k.hand, heard |-> k.heard,
       worker_port |-> k.worker_port, signal_port |-> k.signal_port, free |-> k.free, deaf |-> k.deaf]

\* What a request to token n asks for, by what the token does.
ForWait(n) == k.token[n] \in {"free"} \cup (IF world.full THEN {} ELSE {"signal1", "signal2"})
ForSignal(n) == k.token[n] \in {"held"} \cup (IF world.full THEN {"wait1", "wait2"} ELSE {})

\* A token has its note at the port of the kind of request that it expects next, or
\* that request; and none of them while it expects nothing.
PostedAt(n) ==
  /\ n \in Range(k.worker_port) => ForWait(n) /\ k.inbox[n] = <<>>
  /\ n \in Range(k.signal_port) => ForSignal(n) /\ k.inbox[n] = <<>>
  /\ ForWait(n) /\ n \notin Range(k.worker_port) => Len(k.inbox[n]) = 1
  /\ ForSignal(n) /\ n \notin Range(k.signal_port) => Len(k.inbox[n]) = 1
  /\ ~ForWait(n) /\ ~ForSignal(n) => k.inbox[n] = <<>>
Posted ==
  /\ IsInjective(k.worker_port) /\ IsInjective(k.signal_port)
  /\ \A n \in Tokens : PostedAt(n)

\* A token that serves has a client to answer, and serves a second phase only if
\* there is one.
Jobs ==
  \A n \in Tokens :
    /\ k.token[n] \in {"wait1", "signal1"} => k.job[n] \in Clients
    /\ k.token[n] = "wait2" => world.second

\* The client whose wait, or whose signal, token n has got and not answered yet.
WaitOf == [n \in Tokens |-> IF k.token[n] = "wait1" THEN k.job[n]
                            ELSE IF ForWait(n) /\ k.inbox[n] # <<>> THEN Head(k.inbox[n]) ELSE None]
SignalOf == [n \in Tokens |-> IF k.token[n] = "signal1" THEN k.job[n]
                              ELSE IF ForSignal(n) /\ k.inbox[n] # <<>> THEN Head(k.inbox[n]) ELSE None]

\* The clients in queue q, in hand h and at the tokens, of, are in state s, and each
\* is in one of these places.
Agree(q, h, of, at, s) ==
  /\ \A i \in DOMAIN q : at[q[i]] = s /\ h # q[i] /\ \A n \in Tokens : of[n] # q[i]
  /\ \A i, j \in DOMAIN q : q[i] = q[j] => i = j
  /\ h # None => at[h] = s /\ \A n \in Tokens : of[n] # h
  /\ \A n \in Tokens : of[n] # None => at[of[n]] = s /\ \A m \in Tokens : of[m] = of[n] => m = n

WaitersAgree == Agree(k.waits, k.hand, WaitOf, k.at, "waits")
SignallersAgree == world.async \/ Agree(k.signals, k.heard, SignalOf, k.at, "signals")

\* The signals on their way are at most those that were sent and not answered: by the
\* state of their senders or, if these do not wait, by the messages of the pool.
Inside == {c \in Clients : k.at[c] \in {"in", "signals"}}
Calling == {c \in Clients : k.at[c] = "signals"}
Holding == {n \in Tokens : k.token[n] \in {"wait2", "held", "signal1"}}
Served == {n \in Tokens : SignalOf[n] # None}
Sent == IF world.async THEN Cardinality(Tokens) - k.free ELSE Cardinality(Calling)
Heard == IF k.heard = None THEN 0 ELSE 1
OnTheWay == Len(k.signals) + Heard + Cardinality(Served)
Balance == OnTheWay <= Sent

\* An invariant that is inductive.
IInv ==
  /\ TypeOK /\ Shape /\ Posted /\ Jobs
  /\ WaitersAgree /\ SignallersAgree
  /\ Balance /\ HoldersHold

-----------------------------------------------------------------------------
\* Sequences: an element appended, and the head taken.
LEMMA Pushed ==
  ASSUME NEW S, NEW q \in Seq(S), NEW e \in S
  PROVE  /\ Append(q, e) \in Seq(S) /\ Len(Append(q, e)) = Len(q) + 1
         /\ DOMAIN Append(q, e) = DOMAIN q \cup {Len(q) + 1} /\ Len(q) + 1 \notin DOMAIN q
         /\ \A i \in DOMAIN q : Append(q, e)[i] = q[i]
         /\ Append(q, e)[Len(q) + 1] = e
  BY AppendProperties, LenProperties

LEMMA Popped ==
  ASSUME NEW S, NEW q \in Seq(S), q # <<>>
  PROVE  /\ Tail(q) \in Seq(S) /\ Len(Tail(q)) = Len(q) - 1 /\ Len(q) \in Nat
         /\ Head(q) = q[1] /\ Head(q) \in S /\ 1 \in DOMAIN q
         /\ \A i \in DOMAIN Tail(q) : i \in Nat /\ i + 1 # 1 /\ i + 1 \in DOMAIN q /\ Tail(q)[i] = q[i + 1]
         /\ \A i \in DOMAIN q : i # 1 => i \in Nat /\ i - 1 \in DOMAIN Tail(q) /\ Tail(q)[i - 1] = q[i]
  BY HeadTailProperties, LenProperties, EmptySeq

LEMMA PushedRange ==
  ASSUME NEW S, NEW q \in Seq(S), NEW e \in S
  PROVE  /\ Range(Append(q, e)) = Range(q) \cup {e}
         /\ IsInjective(q) /\ e \notin Range(q) => IsInjective(Append(q, e))
<1>1. Range(Append(q, e)) = Range(q) \cup {e}
  BY Pushed DEF Range
<1>2. ASSUME IsInjective(q), e \notin Range(q)
      PROVE  IsInjective(Append(q, e))
  BY <1>2, Pushed DEF IsInjective, Range
<1> QED BY <1>1, <1>2

LEMMA PoppedRange ==
  ASSUME NEW S, NEW q \in Seq(S), q # <<>>, IsInjective(q)
  PROVE  /\ Range(Tail(q)) = Range(q) \ {Head(q)} /\ Head(q) \in Range(q)
         /\ IsInjective(Tail(q))
<1>1. IsInjective(Tail(q))
  BY Popped DEF IsInjective
<1>2. Range(Tail(q)) \subseteq Range(q) \ {Head(q)}
  BY Popped DEF IsInjective, Range
<1>3. ASSUME NEW e \in Range(q), e # Head(q)
      PROVE  e \in Range(Tail(q))
  <2>1. PICK i \in DOMAIN q : q[i] = e
    BY DEF Range
  <2>2. i # 1 /\ i - 1 \in DOMAIN Tail(q) /\ Tail(q)[i - 1] = e
    BY <2>1, <1>3, Popped
  <2> QED BY <2>2 DEF Range
<1> QED BY <1>1, <1>2, <1>3, Popped DEF Range

\* Every token is in the queue that is made of all of them, once.
LEMMA Enumerated ==
  ASSUME NEW S, IsFiniteSet(S)
  PROVE  SetToSeq(S) \in Seq(S) /\ IsInjective(SetToSeq(S)) /\ Range(SetToSeq(S)) = S
<1> DEFINE n == Cardinality(S)
           Q == SetToSeq(S)
<1>1. n \in Nat /\ \E f \in [1..n -> S] : IsInjective(f)
  BY FS_CardinalityType DEF ExistsBijection, Bijection, Injection
<1>2. Q \in [1..n -> S] /\ IsInjective(Q)
  BY <1>1 DEF SetToSeq
<1>3. Cardinality(1..n) = n
  BY <1>1, FS_Interval
<1>4. Q \in Injection(1..n, S)
  BY <1>2 DEF Injection
<1>5. Q \in Surjection(1..n, S)
  BY <1>3, <1>4, FS_Injection
<1>6. Range(Q) = S
  BY <1>2, <1>5 DEF Surjection, Range
<1> QED BY <1>1, <1>2, <1>6, IsASeq

\* In a queue without repetition an element occurs once or not at all.
LEMMA OccursOnce ==
  ASSUME NEW q \in Seq(Tokens), IsInjective(q), NEW n
  PROVE  Occurs(q, n) = IF n \in Range(q) THEN 1 ELSE 0
<1>1. CASE n \in Range(q)
  <2>1. PICK i \in DOMAIN q : q[i] = n
    BY <1>1 DEF Range
  <2>2. {j \in DOMAIN q : q[j] = n} = {i}
    BY <2>1 DEF IsInjective
  <2> QED BY <1>1, <2>2, FS_Singleton DEF Occurs
<1>2. CASE n \notin Range(q)
  <2>1. {j \in DOMAIN q : q[j] = n} = {}
    BY <1>2 DEF Range
  <2> QED BY <1>2, <2>1, FS_EmptySet DEF Occurs
<1> QED BY <1>1, <1>2

-----------------------------------------------------------------------------
\* What a step does to the places of the clients: a client enters the queue, ...
LEMMA AgreeEnter ==
  ASSUME NEW q \in Seq(Clients), NEW h, NEW of, NEW at, NEW s, DOMAIN at = Clients,
         NEW c \in Clients, at[c] # s, Agree(q, h, of, at, s), None \notin Clients
  PROVE  Agree(Append(q, c), h, of, [at EXCEPT ![c] = s], s)
<1>1. /\ \A i \in DOMAIN q : q[i] \in Clients
      /\ \A i \in DOMAIN q : q[i] # c
  BY ElementOfSeq DEF Agree
<1> QED BY <1>1, Pushed DEF Agree

\* ... goes from the queue to the hand, ...
LEMMA AgreeHand ==
  ASSUME NEW q \in Seq(Clients), q # <<>>, NEW of, NEW at, NEW s, Agree(q, None, of, at, s)
  PROVE  Agree(Tail(q), Head(q), of, at, s)
  BY Popped DEF Agree

\* ... from the hand to a token, ...
LEMMA AgreeGive ==
  ASSUME NEW q \in Seq(Clients), NEW h, h # None, NEW of, NEW at, NEW s, DOMAIN of = Tokens,
         NEW n \in Tokens, of[n] = None, Agree(q, h, of, at, s), None \notin Clients
  PROVE  Agree(q, None, [of EXCEPT ![n] = h], at, s)
<1>1. \A i \in DOMAIN q : q[i] # None
  BY ElementOfSeq
<1> QED BY <1>1 DEF Agree

\* ... from the hand to nowhere, ...
LEMMA AgreeDrop ==
  ASSUME NEW q \in Seq(Clients), NEW h, NEW of, NEW at, NEW s, Agree(q, h, of, at, s), None \notin Clients
  PROVE  Agree(q, None, of, at, s)
<1>1. \A i \in DOMAIN q : q[i] # None
  BY ElementOfSeq
<1> QED BY <1>1 DEF Agree

\* ... is answered by a token, ...
LEMMA AgreeLeave ==
  ASSUME NEW q \in Seq(Clients), NEW h, NEW of, NEW at, NEW s, NEW t, t # s, DOMAIN of = Tokens, DOMAIN at = Clients,
         NEW n \in Tokens, of[n] # None, of[n] \in Clients, Agree(q, h, of, at, s), None \notin Clients
  PROVE  Agree(q, h, [of EXCEPT ![n] = None], [at EXCEPT ![of[n]] = t], s)
<1>1. \A i \in DOMAIN q : q[i] \in Clients
  BY ElementOfSeq
<1>2. h # of[n] /\ \A i \in DOMAIN q : q[i] # of[n]
  BY DEF Agree
<1> QED BY <1>1, <1>2 DEF Agree

\* ... or changes its state for another matter.
LEMMA AgreeElse ==
  ASSUME NEW q, NEW h, NEW of, NEW at, NEW s, NEW t, DOMAIN at = Clients,
         NEW c \in Clients, at[c] # s, t # s, Agree(q, h, of, at, s)
  PROVE  Agree(q, h, of, [at EXCEPT ![c] = t], s)
  BY DEF Agree

-----------------------------------------------------------------------------
\* What depends on the tokens alone.
LEMMA SameTokens ==
  ASSUME world' = world, k'.token = k.token, k'.job = k.job, k'.inbox = k.inbox
  PROVE  /\ WaitOf' = WaitOf /\ SignalOf' = SignalOf /\ Holding' = Holding /\ Served' = Served
         /\ Jobs => Jobs'
         /\ k'.worker_port = k.worker_port /\ k'.signal_port = k.signal_port /\ Posted => Posted'
<1>1. \A n : ForWait(n)' = ForWait(n) /\ ForSignal(n)' = ForSignal(n)
  BY DEF ForWait, ForSignal
<1>2. WaitOf' = WaitOf /\ SignalOf' = SignalOf
  BY <1>1 DEF WaitOf, SignalOf
<1> QED BY <1>1, <1>2 DEF Holding, Served, Jobs, Posted, PostedAt

\* The sets whose members are counted are finite.
LEMMA Finite ==
  /\ IsFiniteSet(Inside) /\ IsFiniteSet(Calling) /\ IsFiniteSet(Holding) /\ IsFiniteSet(Served)
  /\ Cardinality(Tokens) \in Nat /\ Cardinality(Inside) \in Nat /\ Cardinality(Calling) \in Nat
  /\ Cardinality(Holding) \in Nat /\ Cardinality(Served) \in Nat
  /\ Cardinality(Holding) <= Cardinality(Tokens) /\ None \notin Clients
<1>1. /\ Inside \in SUBSET Clients /\ Calling \in SUBSET Clients
      /\ Holding \in SUBSET Tokens /\ Served \in SUBSET Tokens
  BY DEF Inside, Calling, Holding, Served
<1> QED BY <1>1, FS_Subset, FS_CardinalityType, SemaphoreTaskAssumption

LEMMA Sizes ==
  ASSUME TypeOK
  PROVE  OnTheWay \in Nat /\ Sent \in Nat /\ Heard \in Nat /\ Len(k.signals) \in Nat
<1>1. Len(k.signals) \in Nat /\ k.free \in 0..Cardinality(Tokens)
  BY LenProperties DEF TypeOK
<1>2. Sent \in Nat
  BY <1>1, Finite DEF Sent
<1>3. Heard \in Nat
  BY DEF Heard
<1>4. OnTheWay \in Nat
  BY <1>1, <1>3, Finite DEF OnTheWay
<1> QED BY <1>1, <1>2, <1>3, <1>4

\* HoldersHold in the names of the sets.
LEMMA HoldersCounted ==
  HoldersHold <=> Cardinality(Inside) + (Cardinality(Tokens) - k.free) = Cardinality(Holding)
  BY DEF HoldersHold, Inside, Holding

\* A step that changes none of the sets changes none of the counts.
LEMMA SameCounts ==
  ASSUME world' = world, k'.free = k.free, Inside' = Inside, Calling' = Calling, Holding' = Holding
  PROVE  /\ HoldersHold => HoldersHold'
         /\ Sent' = Sent
         /\ k'.signals = k.signals /\ k'.heard = k.heard /\ Served' = Served /\ Balance => Balance'
<1>1. HoldersHold => HoldersHold'
  BY DEF HoldersHold, Inside, Holding
<1>2. Sent' = Sent
  BY DEF Sent
<1>3. ASSUME k'.signals = k.signals, k'.heard = k.heard, Served' = Served
      PROVE  OnTheWay' = OnTheWay
  BY <1>3 DEF OnTheWay, Heard
<1> QED BY <1>1, <1>2, <1>3 DEF Balance

\* What a step of token n leaves to the other tokens, and to itself.
LEMMA OtherTokens ==
  ASSUME world' = world, NEW n \in Tokens,
         \A m \in Tokens \ {n} : k'.token[m] = k.token[m] /\ k'.job[m] = k.job[m] /\ k'.inbox[m] = k.inbox[m]
  PROVE  /\ \A m \in Tokens \ {n} : ForWait(m)' = ForWait(m) /\ ForSignal(m)' = ForSignal(m)
         /\ WaitOf' = [WaitOf EXCEPT ![n] = WaitOf'[n]] /\ (WaitOf'[n] = WaitOf[n] => WaitOf' = WaitOf)
         /\ SignalOf' = [SignalOf EXCEPT ![n] = SignalOf'[n]] /\ (SignalOf'[n] = SignalOf[n] => SignalOf' = SignalOf)
<1>1. \A m \in Tokens \ {n} : ForWait(m)' = ForWait(m) /\ ForSignal(m)' = ForSignal(m)
  BY DEF ForWait, ForSignal
<1>2. \A m \in Tokens \ {n} : WaitOf'[m] = WaitOf[m] /\ SignalOf'[m] = SignalOf[m]
  BY <1>1 DEF WaitOf, SignalOf
<1>3. /\ WaitOf = [m \in Tokens |-> WaitOf[m]] /\ WaitOf' = [m \in Tokens |-> WaitOf'[m]]
      /\ SignalOf = [m \in Tokens |-> SignalOf[m]] /\ SignalOf' = [m \in Tokens |-> SignalOf'[m]]
  BY DEF WaitOf, SignalOf
<1> QED BY <1>1, <1>2, <1>3

LEMMA PostedElse ==
  ASSUME Posted, world' = world, NEW n \in Tokens, PostedAt(n)',
         IsInjective(k'.worker_port), IsInjective(k'.signal_port),
         \A m \in Tokens \ {n} :
           /\ k'.token[m] = k.token[m] /\ k'.inbox[m] = k.inbox[m]
           /\ m \in Range(k'.worker_port) <=> m \in Range(k.worker_port)
           /\ m \in Range(k'.signal_port) <=> m \in Range(k.signal_port)
  PROVE  Posted'
<1>1. \A m \in Tokens \ {n} : ForWait(m)' = ForWait(m) /\ ForSignal(m)' = ForSignal(m)
  BY DEF ForWait, ForSignal
<1>2. \A m \in Tokens \ {n} : PostedAt(m)'
  BY <1>1 DEF Posted, PostedAt
<1> QED BY <1>2 DEF Posted

\* No token expects both, and a token holds a client as its state says.
LEMMA OneKind ==
  ASSUME TypeOK, NEW n \in Tokens
  PROVE  /\ ~(ForWait(n) /\ ForSignal(n))
         /\ WaitOf[n] = IF k.token[n] = "wait1" THEN k.job[n]
                        ELSE IF ForWait(n) /\ k.inbox[n] # <<>> THEN Head(k.inbox[n]) ELSE None
         /\ SignalOf[n] = IF k.token[n] = "signal1" THEN k.job[n]
                          ELSE IF ForSignal(n) /\ k.inbox[n] # <<>> THEN Head(k.inbox[n]) ELSE None
         /\ k.inbox[n] \in Seq(Clients)
  BY DEF ForWait, ForSignal, WaitOf, SignalOf, TypeOK

-----------------------------------------------------------------------------
\* A client calls the wait entry.
LEMMA WaitStep ==
  ASSUME IInv, NEW c \in Clients, Wait(c), UNCHANGED world
  PROVE  IInv'
<1> USE SemaphoreTaskAssumption DEF IInv
<1>1. /\ k.at[c] = "out" /\ k'.at = [k.at EXCEPT ![c] = "waits"] /\ k'.waits = Append(k.waits, c)
      /\ UNCHANGED <<k.token, k.job, k.inbox, k.signals, k.hand, k.heard, k.worker_port, k.signal_port, k.free, k.deaf>>
      /\ Shape'
  BY DEF Wait, Shape
<1>2. TypeOK'
  BY <1>1 DEF TypeOK
<1>3. /\ WaitOf' = WaitOf /\ SignalOf' = SignalOf /\ Holding' = Holding /\ Served' = Served
      /\ Jobs' /\ Posted'
  BY <1>1, SameTokens
<1>4. k.waits \in Seq(Clients) /\ DOMAIN k.at = Clients
  BY DEF TypeOK
<1>5. WaitersAgree'
  BY <1>1, <1>3, <1>4, AgreeEnter DEF WaitersAgree
<1>6. SignallersAgree'
  <2>1. Agree(k.signals, k.heard, SignalOf, k.at, "signals")
        => Agree(k.signals, k.heard, SignalOf, [k.at EXCEPT ![c] = "waits"], "signals")
    BY <1>1, <1>4, AgreeElse
  <2> QED BY <1>1, <1>3, <2>1 DEF SignallersAgree
<1>7. Inside' = Inside /\ Calling' = Calling
  BY <1>1, <1>4 DEF Inside, Calling
<1>8. Balance' /\ HoldersHold'
  BY <1>1, <1>3, <1>7, SameCounts
<1> QED BY <1>1, <1>2, <1>3, <1>5, <1>6, <1>8

\* A client signals: it waits for the reply, or takes a message of the pool.
LEMMA SignalStep ==
  ASSUME IInv, NEW c \in Clients, Signal(c), UNCHANGED world
  PROVE  IInv'
<1> USE SemaphoreTaskAssumption DEF IInv
<1> DEFINE to == IF world.async THEN "out" ELSE "signals"
<1>1. /\ k.at[c] = "in" /\ k'.at = [k.at EXCEPT ![c] = to] /\ k'.signals = Append(k.signals, c)
      /\ k'.free = IF world.async THEN k.free - 1 ELSE k.free
      /\ UNCHANGED <<k.token, k.job, k.inbox, k.waits, k.hand, k.heard, k.worker_port, k.signal_port, k.deaf>>
      /\ Shape'
  BY DEF Signal, Shape
<1>2. /\ WaitOf' = WaitOf /\ SignalOf' = SignalOf /\ Holding' = Holding /\ Served' = Served
      /\ Jobs' /\ Posted'
  BY <1>1, SameTokens
<1>3. k.signals \in Seq(Clients) /\ DOMAIN k.at = Clients /\ k.free \in 0..Cardinality(Tokens)
  BY DEF TypeOK
<1>4. Len(k'.signals) = Len(k.signals) + 1 /\ Len(k.signals) \in Nat
  BY <1>1, <1>3, Pushed, LenProperties
<1>5. WaitersAgree'
  <2>1. Agree(k.waits, k.hand, WaitOf, [k.at EXCEPT ![c] = to], "waits")
    BY <1>1, <1>3, AgreeElse DEF WaitersAgree
  <2> QED BY <1>1, <1>2, <2>1 DEF WaitersAgree
<1>6. SignallersAgree'
  <2>1. Agree(k.signals, k.heard, SignalOf, k.at, "signals")
        => Agree(Append(k.signals, c), k.heard, SignalOf, [k.at EXCEPT ![c] = "signals"], "signals")
    BY <1>1, <1>3, AgreeEnter
  <2> QED BY <1>1, <1>2, <2>1 DEF SignallersAgree
<1>7. c \in Inside /\ c \notin Calling
  BY <1>1 DEF Inside, Calling
<1>8. CASE world.async
  <2>1. Inside' = Inside \ {c} /\ Cardinality(Inside') = Cardinality(Inside) - 1
    <3>1. Inside' = Inside \ {c}
      BY <1>1, <1>3, <1>8 DEF Inside
    <3> QED BY <3>1, <1>7, Finite, FS_RemoveElement
  <2>2. Cardinality(Inside) + (Cardinality(Tokens) - k.free) = Cardinality(Holding) /\ Cardinality(Inside) >= 1
    BY <1>7, HoldersCounted, Finite, FS_EmptySet
  <2>3. k.free - 1 \in 0..Cardinality(Tokens)
    BY <2>2, <1>3, Finite
  <2>4. TypeOK'
    BY <1>1, <1>3, <1>8, <2>3 DEF TypeOK
  <2>5. Cardinality(Inside') + (Cardinality(Tokens) - k'.free) = Cardinality(Holding')
    BY <1>1, <1>2, <1>3, <1>8, <2>1, <2>2, Finite
  <2>6. HoldersHold'
    BY <2>5, HoldersCounted DEF HoldersHold, Inside, Holding
  <2>7. Sent' = Sent + 1
    BY <1>1, <1>3, <1>8, Finite DEF Sent
  <2>8. OnTheWay' = OnTheWay + 1
    <3>1. Heard' = Heard
      BY <1>1 DEF Heard
    <3> QED BY <1>2, <1>4, <3>1, Finite, Sizes DEF OnTheWay
  <2>9. Balance'
    BY <2>7, <2>8, Sizes DEF Balance
  <2> QED BY <1>1, <1>2, <1>5, <1>6, <2>4, <2>6, <2>9
<1>9. CASE ~world.async
  <2>1. TypeOK'
    BY <1>1, <1>3, <1>9 DEF TypeOK
  <2>2. Inside' = Inside
    BY <1>1, <1>3, <1>9 DEF Inside
  <2>3. HoldersHold'
    BY <1>1, <1>2, <1>9, <2>2 DEF HoldersHold, Inside, Holding
  <2>4. Calling' = Calling \cup {c} /\ Cardinality(Calling') = Cardinality(Calling) + 1
    <3>1. Calling' = Calling \cup {c}
      BY <1>1, <1>3, <1>9 DEF Calling
    <3> QED BY <3>1, <1>7, Finite, FS_AddElement
  <2>5. Sent' = Sent + 1
    BY <1>1, <1>9, <2>4, Finite DEF Sent
  <2>6. OnTheWay' = OnTheWay + 1
    <3>1. Heard' = Heard
      BY <1>1 DEF Heard
    <3> QED BY <1>2, <1>4, <3>1, Finite, Sizes DEF OnTheWay
  <2>7. Balance'
    BY <2>5, <2>6, Sizes DEF Balance
  <2> QED BY <1>1, <1>2, <1>5, <1>6, <2>1, <2>3, <2>7
<1> QED BY <1>8, <1>9

-----------------------------------------------------------------------------
\* The dispatcher of the wait entry takes the oldest request, ...
LEMMA AcceptStep ==
  ASSUME IInv, Accept, UNCHANGED world
  PROVE  IInv'
<1> USE SemaphoreTaskAssumption DEF IInv
<1>1. /\ k.hand = None /\ k.waits # <<>> /\ k'.hand = Head(k.waits) /\ k'.waits = Tail(k.waits)
      /\ UNCHANGED <<k.at, k.token, k.job, k.inbox, k.signals, k.heard, k.worker_port, k.signal_port, k.free, k.deaf>>
      /\ Shape'
  BY DEF Accept, Shape
<1>2. k.waits \in Seq(Clients) /\ Tail(k.waits) \in Seq(Clients) /\ Head(k.waits) \in Clients
  BY <1>1, Popped DEF TypeOK
<1>3. TypeOK'
  BY <1>1, <1>2 DEF TypeOK, Maybe
<1>4. /\ WaitOf' = WaitOf /\ SignalOf' = SignalOf /\ Holding' = Holding /\ Served' = Served
      /\ Jobs' /\ Posted'
  BY <1>1, SameTokens
<1>5. WaitersAgree'
  BY <1>1, <1>2, <1>4, AgreeHand DEF WaitersAgree
<1>6. SignallersAgree' /\ Inside' = Inside /\ Calling' = Calling
  BY <1>1, <1>4 DEF SignallersAgree, Inside, Calling
<1>7. Balance' /\ HoldersHold'
  BY <1>1, <1>4, <1>6, SameCounts
<1> QED BY <1>1, <1>3, <1>4, <1>5, <1>6, <1>7

\* ... and gives it to the token whose note is the oldest.
LEMMA GiveStep ==
  ASSUME IInv, Give, UNCHANGED world
  PROVE  IInv'
<1> USE SemaphoreTaskAssumption DEF IInv
<1> PICK n \in Tokens : n = Head(k.worker_port)
  BY Popped DEF Give, TypeOK
<1>1. /\ k.hand # None /\ k.worker_port # <<>> /\ k'.hand = None /\ k'.worker_port = Tail(k.worker_port)
      /\ k'.inbox = [k.inbox EXCEPT ![n] = Append(@, k.hand)]
      /\ UNCHANGED <<k.at, k.token, k.job, k.waits, k.signals, k.heard, k.signal_port, k.free, k.deaf>>
      /\ Shape'
  BY DEF Give, Shape
<1>2. /\ n \in Tokens /\ k'.worker_port \in Seq(Tokens) /\ IsInjective(k'.worker_port)
      /\ Range(k'.worker_port) = Range(k.worker_port) \ {n} /\ n \in Range(k.worker_port)
  BY <1>1, Popped, PoppedRange DEF TypeOK, Posted
<1>3. /\ ForWait(n) /\ k.inbox[n] = <<>> /\ ~ForSignal(n) /\ n \notin Range(k.signal_port)
      /\ k.hand \in Clients /\ k.waits \in Seq(Clients) /\ DOMAIN k.inbox = Tokens
  BY <1>1, <1>2, OneKind DEF Posted, PostedAt, TypeOK, Maybe
<1>4. k'.inbox[n] = <<k.hand>> /\ k'.inbox[n] \in Seq(Clients) /\ Len(k'.inbox[n]) = 1 /\ k'.inbox[n] # <<>> /\ Head(k'.inbox[n]) = k.hand
  BY <1>1, <1>2, <1>3
<1>5. TypeOK'
  <2>1. k'.inbox \in [Tokens -> Seq(Clients)]
    BY <1>1, <1>2, <1>3, <1>4 DEF TypeOK
  <2> QED BY <1>1, <1>2, <2>1 DEF TypeOK, Maybe
<1>6. \A m \in Tokens \ {n} : k'.token[m] = k.token[m] /\ k'.job[m] = k.job[m] /\ k'.inbox[m] = k.inbox[m]
  BY <1>1, <1>3
<1>7. ForWait(n)' /\ ~ForSignal(n)'
  BY <1>1, <1>3 DEF ForWait, ForSignal
<1>8. Posted'
  <2>1. PostedAt(n)'
    BY <1>1, <1>2, <1>3, <1>4, <1>7 DEF PostedAt
  <2> QED BY <1>1, <1>2, <1>6, <2>1, PostedElse DEF Posted
<1>9. k.token[n] # "wait1" /\ WaitOf[n] = None /\ WaitOf'[n] = k.hand /\ SignalOf'[n] = SignalOf[n]
  <2>1. k.token[n] # "wait1"
    BY <1>3 DEF ForWait
  <2> QED BY <1>1, <1>2, <1>3, <1>4, <1>7, <2>1 DEF WaitOf, SignalOf
<1>10. WaitOf' = [WaitOf EXCEPT ![n] = k.hand] /\ SignalOf' = SignalOf
  BY <1>2, <1>6, <1>9, OtherTokens
<1>11. WaitersAgree'
  <2>1. DOMAIN WaitOf = Tokens
    BY DEF WaitOf
  <2>2. Agree(k.waits, None, [WaitOf EXCEPT ![n] = k.hand], k.at, "waits")
    BY <1>1, <1>2, <1>3, <1>9, <2>1, AgreeGive DEF WaitersAgree
  <2> QED BY <1>1, <1>10, <2>2 DEF WaitersAgree
<1>12. /\ SignallersAgree' /\ Inside' = Inside /\ Calling' = Calling /\ Holding' = Holding
       /\ Served' = Served /\ Jobs'
  BY <1>1, <1>10 DEF SignallersAgree, Inside, Calling, Holding, Served, Jobs
<1>13. Balance' /\ HoldersHold'
  BY <1>1, <1>12, SameCounts
<1> QED BY <1>1, <1>5, <1>8, <1>11, <1>12, <1>13

\* The dispatcher of the signal entry takes the oldest signal, ...
LEMMA HearStep ==
  ASSUME IInv, Hear, UNCHANGED world
  PROVE  IInv'
<1> USE SemaphoreTaskAssumption DEF IInv
<1>1. /\ k.heard = None /\ k.signals # <<>> /\ k'.heard = Head(k.signals) /\ k'.signals = Tail(k.signals)
      /\ UNCHANGED <<k.at, k.token, k.job, k.inbox, k.waits, k.hand, k.worker_port, k.signal_port, k.free, k.deaf>>
      /\ Shape'
  BY DEF Hear, Shape
<1>2. /\ k.signals \in Seq(Clients) /\ Tail(k.signals) \in Seq(Clients) /\ Head(k.signals) \in Clients
      /\ Len(Tail(k.signals)) = Len(k.signals) - 1
  BY <1>1, Popped DEF TypeOK
<1>3. TypeOK'
  BY <1>1, <1>2 DEF TypeOK, Maybe
<1>4. /\ WaitOf' = WaitOf /\ SignalOf' = SignalOf /\ Holding' = Holding /\ Served' = Served
      /\ Jobs' /\ Posted'
  BY <1>1, SameTokens
<1>5. SignallersAgree'
  <2>1. Agree(k.signals, None, SignalOf, k.at, "signals")
        => Agree(Tail(k.signals), Head(k.signals), SignalOf, k.at, "signals")
    BY <1>1, <1>2, AgreeHand
  <2> QED BY <1>1, <1>4, <2>1 DEF SignallersAgree
<1>6. WaitersAgree' /\ Inside' = Inside /\ Calling' = Calling
  BY <1>1, <1>4 DEF WaitersAgree, Inside, Calling
<1>7. HoldersHold' /\ Sent' = Sent
  BY <1>1, <1>4, <1>6, SameCounts
<1>8. Heard = 0 /\ Heard' = 1
  BY <1>1, <1>2 DEF Heard
<1>9. OnTheWay' = OnTheWay
  BY <1>1, <1>2, <1>4, <1>8, Finite, Sizes DEF OnTheWay
<1> QED BY <1>1, <1>3, <1>4, <1>5, <1>6, <1>7, <1>9 DEF Balance

\* ... and finds the note of a token, if the tokens that start taken serve no second
\* phase: were there none, every holder's token would have a signal already, and the
\* signals served would be as many as those that were sent.
LEMMA MatchFinds ==
  ASSUME IInv, k.heard # None, world.full \/ ~world.second
  PROVE  k.signal_port # <<>>
<1> USE SemaphoreTaskAssumption DEF IInv
<1> SUFFICES ASSUME k.signal_port = <<>> PROVE FALSE
  OBVIOUS
<1>1. Range(k.signal_port) = {}
  BY DEF Range
<1>2. ASSUME NEW n \in Holding
      PROVE  n \in Served
  <2>1. n \in Tokens /\ k.token[n] \in {"wait2", "held", "signal1"}
    BY DEF Holding
  <2>2. CASE k.token[n] = "signal1"
    BY <2>1, <2>2, OneKind DEF Jobs, Served
  <2>3. CASE k.token[n] # "signal1"
    <3>1. ForSignal(n)
      BY <2>1, <2>3 DEF ForSignal, Jobs
    <3>2. Len(k.inbox[n]) = 1 /\ k.inbox[n] \in Seq(Clients)
      BY <1>1, <2>1, <3>1, OneKind DEF Posted, PostedAt
    <3>3. k.inbox[n] # <<>> /\ Head(k.inbox[n]) \in Clients
      <4>1. k.inbox[n] # <<>>
        BY <3>2
      <4> QED BY <3>2, <4>1, Popped
    <3>4. SignalOf[n] = Head(k.inbox[n])
      BY <2>1, <2>3, <3>1, <3>3, OneKind
    <3> QED BY <2>1, <3>3, <3>4 DEF Served
  <2> QED BY <2>2, <2>3
<1>3. Cardinality(Holding) <= Cardinality(Served)
  BY <1>2, Finite, FS_Subset
<1>4. Cardinality(Inside) + (Cardinality(Tokens) - k.free) = Cardinality(Holding) /\ k.free \in 0..Cardinality(Tokens)
  BY HoldersCounted DEF TypeOK
<1>5. Cardinality(Served) + 1 <= Sent
  <2>1. Heard = 1
    BY DEF Heard
  <2> QED BY <2>1, Finite, Sizes DEF Balance, OnTheWay
<1>6. Cardinality(Calling) <= Cardinality(Inside)
  <2>1. Calling \subseteq Inside
    BY DEF Calling, Inside
  <2> QED BY <2>1, Finite, FS_Subset
<1>7. Sent <= Cardinality(Inside) + (Cardinality(Tokens) - k.free)
  BY <1>4, <1>6, Finite DEF Sent
<1> QED BY <1>3, <1>4, <1>5, <1>7, Finite, Sizes

LEMMA MatchStep ==
  ASSUME IInv, Match, UNCHANGED world
  PROVE  IInv' /\ (world.full \/ ~world.second => k'.deaf = k.deaf)
<1> USE SemaphoreTaskAssumption DEF IInv
<1>1. CASE k.signal_port = <<>>
  <2>1. /\ k.heard # None /\ k'.heard = None /\ k'.deaf = k.deaf \cup {k.heard}
        /\ UNCHANGED <<k.at, k.token, k.job, k.inbox, k.waits, k.signals, k.hand, k.worker_port, k.signal_port, k.free>>
        /\ Shape'
    BY <1>1 DEF Match, Shape
  <2>2. k.heard \in Clients /\ k.signals \in Seq(Clients)
    BY <2>1 DEF TypeOK, Maybe
  <2>3. TypeOK'
    BY <2>1, <2>2 DEF TypeOK, Maybe
  <2>4. /\ WaitOf' = WaitOf /\ SignalOf' = SignalOf /\ Holding' = Holding /\ Served' = Served
        /\ Jobs' /\ Posted'
    BY <2>1, SameTokens
  <2>5. SignallersAgree'
    <3>1. Agree(k.signals, k.heard, SignalOf, k.at, "signals")
          => Agree(k.signals, None, SignalOf, k.at, "signals")
      BY <2>2, AgreeDrop
    <3> QED BY <2>1, <2>4, <3>1 DEF SignallersAgree
  <2>6. WaitersAgree' /\ Inside' = Inside /\ Calling' = Calling
    BY <2>1, <2>4 DEF WaitersAgree, Inside, Calling
  <2>7. HoldersHold' /\ Sent' = Sent
    BY <2>1, <2>4, <2>6, SameCounts
  <2>8. Heard = 1 /\ Heard' = 0
    BY <2>1 DEF Heard
  <2>9. OnTheWay' = OnTheWay - 1
    BY <2>1, <2>4, <2>8, Finite, Sizes DEF OnTheWay
  <2>10. Balance'
    BY <2>7, <2>9, Sizes DEF Balance
  <2> QED BY <1>1, <2>1, <2>3, <2>4, <2>5, <2>6, <2>7, <2>10, MatchFinds
<1>2. CASE k.signal_port # <<>>
  <2> PICK n \in Tokens : n = Head(k.signal_port)
    BY <1>2, Popped DEF TypeOK
  <2>1. /\ k.heard # None /\ k'.heard = None /\ k'.signal_port = Tail(k.signal_port)
        /\ k'.inbox = [k.inbox EXCEPT ![n] = Append(@, k.heard)]
        /\ UNCHANGED <<k.at, k.token, k.job, k.waits, k.signals, k.hand, k.worker_port, k.free, k.deaf>>
        /\ Shape'
    BY <1>2 DEF Match, Shape
  <2>2. /\ k'.signal_port \in Seq(Tokens) /\ IsInjective(k'.signal_port)
        /\ Range(k'.signal_port) = Range(k.signal_port) \ {n} /\ n \in Range(k.signal_port)
    BY <1>2, <2>1, Popped, PoppedRange DEF TypeOK, Posted
  <2>3. /\ ForSignal(n) /\ k.inbox[n] = <<>> /\ ~ForWait(n) /\ n \notin Range(k.worker_port)
        /\ k.heard \in Clients /\ k.signals \in Seq(Clients) /\ DOMAIN k.inbox = Tokens
    BY <2>1, <2>2, OneKind DEF Posted, PostedAt, TypeOK, Maybe
  <2>4. k'.inbox[n] = <<k.heard>> /\ k'.inbox[n] \in Seq(Clients) /\ Len(k'.inbox[n]) = 1 /\ k'.inbox[n] # <<>> /\ Head(k'.inbox[n]) = k.heard
    BY <2>1, <2>3
  <2>5. TypeOK'
    <3>1. k'.inbox \in [Tokens -> Seq(Clients)]
      BY <2>1, <2>3, <2>4 DEF TypeOK
    <3> QED BY <2>1, <2>2, <3>1 DEF TypeOK, Maybe
  <2>6. \A m \in Tokens \ {n} : k'.token[m] = k.token[m] /\ k'.job[m] = k.job[m] /\ k'.inbox[m] = k.inbox[m]
    BY <2>1, <2>3
  <2>7. ForSignal(n)' /\ ~ForWait(n)'
    BY <2>1, <2>3 DEF ForWait, ForSignal
  <2>8. Posted'
    <3>1. PostedAt(n)'
      BY <2>1, <2>2, <2>3, <2>4, <2>7 DEF PostedAt
    <3> QED BY <2>1, <2>2, <2>6, <3>1, PostedElse DEF Posted
  <2>9. k.token[n] # "signal1" /\ SignalOf[n] = None /\ SignalOf'[n] = k.heard /\ WaitOf'[n] = WaitOf[n]
    <3>1. k.token[n] # "signal1"
      BY <2>3 DEF ForSignal
    <3> QED BY <2>1, <2>3, <2>4, <2>7, <3>1 DEF WaitOf, SignalOf
  <2>10. SignalOf' = [SignalOf EXCEPT ![n] = k.heard] /\ WaitOf' = WaitOf
    BY <2>6, <2>9, OtherTokens
  <2>11. SignallersAgree'
    <3>1. DOMAIN SignalOf = Tokens
      BY DEF SignalOf
    <3>2. Agree(k.signals, k.heard, SignalOf, k.at, "signals")
          => Agree(k.signals, None, [SignalOf EXCEPT ![n] = k.heard], k.at, "signals")
      BY <2>1, <2>3, <2>9, <3>1, AgreeGive
    <3> QED BY <2>1, <2>10, <3>2 DEF SignallersAgree
  <2>12. WaitersAgree' /\ Inside' = Inside /\ Calling' = Calling /\ Holding' = Holding /\ Jobs'
    BY <2>1, <2>10 DEF WaitersAgree, Inside, Calling, Holding, Jobs
  <2>13. HoldersHold' /\ Sent' = Sent
    BY <2>1, <2>12, SameCounts
  <2>14. Heard = 1 /\ Heard' = 0
    BY <2>1 DEF Heard
  <2>15. Cardinality(Served') = Cardinality(Served) + 1
    <3>1. Served' = Served \cup {n} /\ n \notin Served
      BY <2>3, <2>9, <2>10 DEF Served, SignalOf
    <3> QED BY <3>1, Finite, FS_AddElement
  <2>16. OnTheWay' = OnTheWay
    BY <2>1, <2>14, <2>15, Finite, Sizes DEF OnTheWay
  <2> QED BY <2>1, <2>5, <2>8, <2>11, <2>12, <2>13, <2>16 DEF Balance
<1> QED BY <1>1, <1>2

-----------------------------------------------------------------------------
\* A request that a token takes is its only one.
LEMMA OneRequest ==
  ASSUME TypeOK, Posted, NEW n \in Tokens, k.inbox[n] # <<>>
  PROVE  /\ n \notin Range(k.worker_port) /\ n \notin Range(k.signal_port)
         /\ k.inbox[n] \in Seq(Clients) /\ Head(k.inbox[n]) \in Clients /\ Tail(k.inbox[n]) = <<>>
         /\ ForWait(n) \/ ForSignal(n)
<1>1. PostedAt(n) /\ k.inbox[n] \in Seq(Clients)
  BY DEF TypeOK, Posted
<1>2. n \notin Range(k.worker_port) /\ n \notin Range(k.signal_port) /\ (ForWait(n) \/ ForSignal(n)) /\ Len(k.inbox[n]) = 1
  BY <1>1 DEF PostedAt
<1>3. Head(k.inbox[n]) \in Clients /\ Tail(k.inbox[n]) \in Seq(Clients) /\ Len(Tail(k.inbox[n])) = 0
  BY <1>1, <1>2, Popped
<1>4. Tail(k.inbox[n]) = <<>>
  BY <1>3, EmptySeq
<1> QED BY <1>1, <1>2, <1>3, <1>4

\* A token takes a wait: it holds the same client as before.
LEMMA TakeWaitStep ==
  ASSUME IInv, NEW n \in Tokens, TakeWait(n), UNCHANGED world
  PROVE  IInv'
<1> USE SemaphoreTaskAssumption DEF IInv
<1>1. /\ k.token[n] = "free" /\ k.inbox[n] # <<>>
      /\ k'.token = [k.token EXCEPT ![n] = "wait1"] /\ k'.job = [k.job EXCEPT ![n] = Head(k.inbox[n])]
      /\ k'.inbox = [k.inbox EXCEPT ![n] = Tail(@)]
      /\ k'.signal_port = IF world.full THEN Append(k.signal_port, n) ELSE k.signal_port
      /\ UNCHANGED <<k.at, k.waits, k.signals, k.hand, k.heard, k.worker_port, k.free, k.deaf>>
      /\ Shape'
  BY DEF TakeWait, Take, BeforeWait, NoteSignal, Shape
<1>2. /\ n \notin Range(k.worker_port) /\ n \notin Range(k.signal_port)
      /\ k.inbox[n] \in Seq(Clients) /\ Head(k.inbox[n]) \in Clients /\ Tail(k.inbox[n]) = <<>>
  BY <1>1, OneRequest
<1>3. /\ DOMAIN k.token = Tokens /\ DOMAIN k.job = Tokens /\ DOMAIN k.inbox = Tokens /\ world.full \in BOOLEAN
      /\ k'.token[n] = "wait1" /\ k'.job[n] = Head(k.inbox[n]) /\ k'.inbox[n] = <<>>
  BY <1>1, <1>2 DEF TypeOK
<1>4. /\ k'.signal_port \in Seq(Tokens) /\ IsInjective(k'.signal_port)
      /\ \A m : m # n => (m \in Range(k'.signal_port) <=> m \in Range(k.signal_port))
      /\ n \in Range(k'.signal_port) <=> world.full
  <2>1. k.signal_port \in Seq(Tokens) /\ IsInjective(k.signal_port)
    BY DEF TypeOK, Posted
  <2>2. CASE world.full
    BY <1>1, <1>2, <2>1, <2>2, Pushed, PushedRange
  <2>3. CASE ~world.full
    BY <1>1, <1>2, <2>1, <2>3
  <2> QED BY <2>2, <2>3
<1>5. TypeOK'
  <2>1. /\ k'.token \in [Tokens -> TokenStates] /\ k'.job \in [Tokens -> Maybe]
        /\ k'.inbox \in [Tokens -> Seq(Clients)]
    BY <1>1, <1>2 DEF TypeOK, TokenStates, Maybe
  <2> QED BY <1>1, <1>4, <2>1 DEF TypeOK
<1>6. \A m \in Tokens \ {n} : k'.token[m] = k.token[m] /\ k'.job[m] = k.job[m] /\ k'.inbox[m] = k.inbox[m]
  BY <1>1, <1>3
<1>7. ForWait(n) /\ ~ForSignal(n) /\ ~ForWait(n)' /\ (ForSignal(n)' <=> world.full)
  BY <1>1, <1>3 DEF ForWait, ForSignal
<1>8. Posted'
  <2>1. PostedAt(n)'
    BY <1>1, <1>2, <1>3, <1>4, <1>7 DEF PostedAt
  <2> QED BY <1>1, <1>4, <1>6, <2>1, PostedElse DEF Posted
<1>9. Jobs'
  BY <1>1, <1>2, <1>3, <1>6 DEF Jobs
<1>10. WaitOf'[n] = WaitOf[n] /\ SignalOf'[n] = SignalOf[n]
  BY <1>1, <1>3, <1>7 DEF WaitOf, SignalOf
<1>11. WaitOf' = WaitOf /\ SignalOf' = SignalOf
  BY <1>6, <1>10, OtherTokens
<1>12. /\ WaitersAgree' /\ SignallersAgree' /\ Inside' = Inside /\ Calling' = Calling
       /\ Served' = Served
  BY <1>1, <1>11 DEF WaitersAgree, SignallersAgree, Inside, Calling, Served
<1>13. Holding' = Holding
  BY <1>1, <1>3, <1>6 DEF Holding
<1>14. Balance' /\ HoldersHold'
  BY <1>1, <1>12, <1>13, SameCounts
<1> QED BY <1>1, <1>5, <1>8, <1>9, <1>12, <1>14

\* A token takes a signal.
LEMMA TakeSignalStep ==
  ASSUME IInv, NEW n \in Tokens, TakeSignal(n), UNCHANGED world
  PROVE  IInv'
<1> USE SemaphoreTaskAssumption DEF IInv
<1>1. /\ k.token[n] = "held" /\ k.inbox[n] # <<>>
      /\ k'.token = [k.token EXCEPT ![n] = "signal1"] /\ k'.job = [k.job EXCEPT ![n] = Head(k.inbox[n])]
      /\ k'.inbox = [k.inbox EXCEPT ![n] = Tail(@)]
      /\ k'.worker_port = IF ~world.full THEN Append(k.worker_port, n) ELSE k.worker_port
      /\ UNCHANGED <<k.at, k.waits, k.signals, k.hand, k.heard, k.signal_port, k.free, k.deaf>>
      /\ Shape'
  BY DEF TakeSignal, Take, BeforeSignal, NoteWorker, Shape
<1>2. /\ n \notin Range(k.worker_port) /\ n \notin Range(k.signal_port)
      /\ k.inbox[n] \in Seq(Clients) /\ Head(k.inbox[n]) \in Clients /\ Tail(k.inbox[n]) = <<>>
  BY <1>1, OneRequest
<1>3. /\ DOMAIN k.token = Tokens /\ DOMAIN k.job = Tokens /\ DOMAIN k.inbox = Tokens /\ world.full \in BOOLEAN
      /\ k'.token[n] = "signal1" /\ k'.job[n] = Head(k.inbox[n]) /\ k'.inbox[n] = <<>>
  BY <1>1, <1>2 DEF TypeOK
<1>4. /\ k'.worker_port \in Seq(Tokens) /\ IsInjective(k'.worker_port)
      /\ \A m : m # n => (m \in Range(k'.worker_port) <=> m \in Range(k.worker_port))
      /\ n \in Range(k'.worker_port) <=> ~world.full
  <2>1. k.worker_port \in Seq(Tokens) /\ IsInjective(k.worker_port)
    BY DEF TypeOK, Posted
  <2>2. CASE world.full
    BY <1>1, <1>2, <2>1, <2>2
  <2>3. CASE ~world.full
    BY <1>1, <1>2, <2>1, <2>3, Pushed, PushedRange
  <2> QED BY <2>2, <2>3
<1>5. TypeOK'
  <2>1. /\ k'.token \in [Tokens -> TokenStates] /\ k'.job \in [Tokens -> Maybe]
        /\ k'.inbox \in [Tokens -> Seq(Clients)]
    BY <1>1, <1>2 DEF TypeOK, TokenStates, Maybe
  <2> QED BY <1>1, <1>4, <2>1 DEF TypeOK
<1>6. \A m \in Tokens \ {n} : k'.token[m] = k.token[m] /\ k'.job[m] = k.job[m] /\ k'.inbox[m] = k.inbox[m]
  BY <1>1, <1>3
<1>7. ForSignal(n) /\ ~ForWait(n) /\ ~ForSignal(n)' /\ (ForWait(n)' <=> ~world.full)
  BY <1>1, <1>3 DEF ForWait, ForSignal
<1>8. Posted'
  <2>1. PostedAt(n)'
    BY <1>1, <1>2, <1>3, <1>4, <1>7 DEF PostedAt
  <2> QED BY <1>1, <1>4, <1>6, <2>1, PostedElse DEF Posted
<1>9. Jobs'
  BY <1>1, <1>2, <1>3, <1>6 DEF Jobs
<1>10. WaitOf'[n] = WaitOf[n] /\ SignalOf'[n] = SignalOf[n]
  BY <1>1, <1>3, <1>7 DEF WaitOf, SignalOf
<1>11. WaitOf' = WaitOf /\ SignalOf' = SignalOf
  BY <1>6, <1>10, OtherTokens
<1>12. /\ WaitersAgree' /\ SignallersAgree' /\ Inside' = Inside /\ Calling' = Calling
       /\ Served' = Served
  BY <1>1, <1>11 DEF WaitersAgree, SignallersAgree, Inside, Calling, Served
<1>13. Holding' = Holding
  BY <1>1, <1>3, <1>6 DEF Holding
<1>14. Balance' /\ HoldersHold'
  BY <1>1, <1>12, <1>13, SameCounts
<1> QED BY <1>1, <1>5, <1>8, <1>9, <1>12, <1>14

-----------------------------------------------------------------------------
\* A token that goes on to hold: it sends its note for the signal if it started taken.
LEMMA Held ==
  ASSUME IInv, NEW n \in Tokens, k.token[n] \in {"wait1", "wait2"}, world' = world,
         k'.token = [k.token EXCEPT ![n] = "held"], k'.inbox = k.inbox, k'.worker_port = k.worker_port,
         k'.signal_port = IF world.full THEN k.signal_port ELSE Append(k.signal_port, n)
  PROVE  Posted' /\ k'.signal_port \in Seq(Tokens) /\ SignalOf'[n] = SignalOf[n] /\ WaitOf'[n] = None
<1> USE DEF IInv
<1>1. /\ DOMAIN k.token = Tokens /\ k'.token[n] = "held" /\ k.signal_port \in Seq(Tokens) /\ IsInjective(k.signal_port)
      /\ PostedAt(n)
  BY DEF TypeOK, Posted
<1>2. n \notin Range(k.worker_port) /\ ~ForWait(n) /\ (ForSignal(n) <=> world.full) /\ ~ForWait(n)' /\ ForSignal(n)'
  BY <1>1 DEF PostedAt, ForWait, ForSignal
<1>3. CASE world.full
  <2>1. PostedAt(n)'
    BY <1>1, <1>2, <1>3 DEF PostedAt
  <2>2. Posted'
    BY <1>1, <1>3, <2>1, PostedElse DEF Posted
  <2> QED BY <1>1, <1>2, <1>3, <2>2 DEF WaitOf, SignalOf
<1>4. CASE ~world.full
  <2>1. n \notin Range(k.signal_port) /\ k.inbox[n] = <<>>
    BY <1>1, <1>2, <1>4 DEF PostedAt
  <2>2. /\ k'.signal_port \in Seq(Tokens) /\ IsInjective(k'.signal_port)
        /\ Range(k'.signal_port) = Range(k.signal_port) \cup {n}
    BY <1>1, <1>4, <2>1, Pushed, PushedRange
  <2>3. PostedAt(n)'
    BY <1>1, <1>2, <1>4, <2>1, <2>2 DEF PostedAt
  <2>4. Posted'
    BY <1>1, <1>4, <2>2, <2>3, PostedElse DEF Posted
  <2> QED BY <1>1, <1>2, <1>4, <2>1, <2>2, <2>4 DEF WaitOf, SignalOf
<1> QED BY <1>3, <1>4

\* A token answers the wait: its client is inside, and it is taken.
LEMMA ReplyWaitStep ==
  ASSUME IInv, NEW n \in Tokens, ReplyWait(n), UNCHANGED world
  PROVE  IInv'
<1> USE SemaphoreTaskAssumption DEF IInv
<1> DEFINE c == k.job[n]
           to == IF world.second THEN "wait2" ELSE "held"
<1>1. /\ k.token[n] = "wait1"
      /\ k'.token = [k.token EXCEPT ![n] = to]
      /\ k'.job = IF world.second THEN k.job ELSE [k.job EXCEPT ![n] = None]
      /\ k'.at = [k.at EXCEPT ![c] = "in"]
      /\ k'.signal_port = IF world.second \/ world.full THEN k.signal_port ELSE Append(k.signal_port, n)
      /\ UNCHANGED <<k.inbox, k.waits, k.signals, k.hand, k.heard, k.worker_port, k.free, k.deaf>>
      /\ Shape'
  BY DEF ReplyWait, AnswerWait, EndWait, AfterWait, Set, NoteSignal, Shape
<1>2. /\ DOMAIN k.token = Tokens /\ DOMAIN k.job = Tokens /\ DOMAIN k.at = Clients
      /\ world.full \in BOOLEAN /\ world.second \in BOOLEAN /\ k.waits \in Seq(Clients)
      /\ c \in Clients /\ k'.token[n] = to
  BY <1>1 DEF TypeOK, Jobs
<1>3. WaitOf[n] = c /\ k.at[c] = "waits" /\ DOMAIN WaitOf = Tokens
  BY <1>1, <1>2 DEF WaitOf, WaitersAgree, Agree
<1>4. Posted' /\ k'.signal_port \in Seq(Tokens) /\ SignalOf'[n] = SignalOf[n] /\ WaitOf'[n] = None
  <2>1. CASE ~world.second
    <3>1. k'.signal_port = IF world.full THEN k.signal_port ELSE Append(k.signal_port, n)
      BY <1>1, <2>1
    <3> QED BY <1>1, <2>1, <3>1, Held
  <2>2. CASE world.second
    <3>1. ~ForWait(n) /\ ~ForWait(n)' /\ (ForSignal(n)' <=> ForSignal(n)) /\ PostedAt(n)
      BY <1>1, <1>2, <2>2 DEF ForWait, ForSignal, Posted
    <3>2. PostedAt(n)'
      BY <1>1, <2>2, <3>1 DEF PostedAt
    <3>3. Posted' /\ k'.signal_port \in Seq(Tokens)
      BY <1>1, <1>2, <2>2, <3>2, PostedElse DEF Posted, TypeOK
    <3> QED BY <1>1, <1>2, <2>2, <3>1, <3>3 DEF WaitOf, SignalOf
  <2> QED BY <1>2, <2>1, <2>2
<1>5. TypeOK'
  <2>1. /\ k'.token \in [Tokens -> TokenStates] /\ k'.job \in [Tokens -> Maybe]
        /\ k'.at \in [Clients -> {"out", "waits", "in", "signals"}]
    BY <1>1, <1>2 DEF TypeOK, TokenStates, Maybe
  <2> QED BY <1>1, <1>4, <2>1 DEF TypeOK
<1>6. \A m \in Tokens \ {n} : k'.token[m] = k.token[m] /\ k'.job[m] = k.job[m] /\ k'.inbox[m] = k.inbox[m]
  BY <1>1, <1>2
<1>7. Jobs'
  BY <1>1, <1>2, <1>6 DEF Jobs
<1>8. WaitOf' = [WaitOf EXCEPT ![n] = None] /\ SignalOf' = SignalOf
  BY <1>4, <1>6, OtherTokens
<1>9. WaitersAgree'
  <2>1. Agree(k.waits, k.hand, [WaitOf EXCEPT ![n] = None], [k.at EXCEPT ![WaitOf[n]] = "in"], "waits")
    BY <1>2, <1>3, AgreeLeave DEF WaitersAgree
  <2> QED BY <1>1, <1>3, <1>8, <2>1 DEF WaitersAgree
<1>10. SignallersAgree'
  <2>1. Agree(k.signals, k.heard, SignalOf, k.at, "signals")
        => Agree(k.signals, k.heard, SignalOf, [k.at EXCEPT ![c] = "in"], "signals")
    BY <1>2, <1>3, AgreeElse
  <2> QED BY <1>1, <1>8, <2>1 DEF SignallersAgree
<1>11. Calling' = Calling /\ Served' = Served
  BY <1>1, <1>2, <1>3, <1>8 DEF Calling, Served
<1>12. Balance'
  BY <1>1, <1>11 DEF Balance, OnTheWay, Heard, Sent
<1>13. Inside' = Inside \cup {c} /\ c \notin Inside
  BY <1>1, <1>2, <1>3 DEF Inside
<1>14. Holding' = Holding \cup {n} /\ n \notin Holding
  BY <1>1, <1>2, <1>6 DEF Holding
<1>15. /\ Cardinality(Inside') = Cardinality(Inside) + 1
       /\ Cardinality(Holding') = Cardinality(Holding) + 1
  BY <1>13, <1>14, Finite, FS_AddElement
<1>16. Cardinality(Inside') + (Cardinality(Tokens) - k'.free) = Cardinality(Holding')
  BY <1>1, <1>15, Finite, HoldersCounted DEF TypeOK
<1>17. HoldersHold'
  BY <1>16 DEF HoldersHold, Inside, Holding
<1> QED BY <1>1, <1>4, <1>5, <1>7, <1>9, <1>10, <1>12, <1>17

\* A token ends the second phase of the wait.
LEMMA SecondWaitStep ==
  ASSUME IInv, NEW n \in Tokens, SecondWait(n), UNCHANGED world
  PROVE  IInv'
<1> USE SemaphoreTaskAssumption DEF IInv
<1>1. /\ k.token[n] = "wait2"
      /\ k'.token = [k.token EXCEPT ![n] = "held"] /\ k'.job = [k.job EXCEPT ![n] = None]
      /\ k'.signal_port = IF world.full THEN k.signal_port ELSE Append(k.signal_port, n)
      /\ UNCHANGED <<k.at, k.inbox, k.waits, k.signals, k.hand, k.heard, k.worker_port, k.free, k.deaf>>
      /\ Shape'
  BY DEF SecondWait, EndWait, AfterWait, NoteSignal, Shape
<1>2. DOMAIN k.token = Tokens /\ DOMAIN k.job = Tokens /\ k'.token[n] = "held"
  BY <1>1 DEF TypeOK
<1>3. Posted' /\ k'.signal_port \in Seq(Tokens) /\ SignalOf'[n] = SignalOf[n] /\ WaitOf'[n] = None
  BY <1>1, Held
<1>4. TypeOK'
  <2>1. k'.token \in [Tokens -> TokenStates] /\ k'.job \in [Tokens -> Maybe]
    BY <1>1, <1>2 DEF TypeOK, TokenStates, Maybe
  <2> QED BY <1>1, <1>3, <2>1 DEF TypeOK
<1>5. \A m \in Tokens \ {n} : k'.token[m] = k.token[m] /\ k'.job[m] = k.job[m] /\ k'.inbox[m] = k.inbox[m]
  BY <1>1, <1>2
<1>6. Jobs' /\ Holding' = Holding
  BY <1>1, <1>2, <1>5 DEF Jobs, Holding
<1>7. WaitOf[n] = None
  BY <1>1 DEF WaitOf, ForWait
<1>8. WaitOf' = WaitOf /\ SignalOf' = SignalOf
  BY <1>3, <1>5, <1>7, OtherTokens
<1>9. /\ WaitersAgree' /\ SignallersAgree' /\ Inside' = Inside /\ Calling' = Calling
      /\ Served' = Served
  BY <1>1, <1>8 DEF WaitersAgree, SignallersAgree, Inside, Calling, Served
<1>10. Balance' /\ HoldersHold'
  BY <1>1, <1>6, <1>9, SameCounts
<1> QED BY <1>1, <1>3, <1>4, <1>6, <1>9, <1>10

\* A token answers the signal: it is not taken any more, and no signal of this client
\* is on its way.
LEMMA ReplySignalStep ==
  ASSUME IInv, NEW n \in Tokens, ReplySignal(n), UNCHANGED world
  PROVE  IInv'
<1> USE SemaphoreTaskAssumption DEF IInv
<1> DEFINE c == k.job[n]
<1>1. /\ k.token[n] = "signal1"
      /\ k'.token = [k.token EXCEPT ![n] = "signal2"]
      /\ k'.at = IF world.async THEN k.at ELSE [k.at EXCEPT ![c] = "out"]
      /\ k'.free = IF world.async THEN k.free + 1 ELSE k.free
      /\ UNCHANGED <<k.job, k.inbox, k.waits, k.signals, k.hand, k.heard, k.worker_port, k.signal_port, k.deaf>>
      /\ Shape'
  BY DEF ReplySignal, AnswerSignal, Set, Shape
<1>2. /\ DOMAIN k.token = Tokens /\ DOMAIN k.at = Clients /\ k.signals \in Seq(Clients)
      /\ c \in Clients /\ k'.token[n] = "signal2" /\ k.free \in 0..Cardinality(Tokens)
  BY <1>1 DEF TypeOK, Jobs
<1>3. SignalOf[n] = c /\ DOMAIN SignalOf = Tokens /\ n \in Served
  BY <1>1, <1>2 DEF SignalOf, Served
<1>4. (ForWait(n)' <=> ForWait(n)) /\ ~ForSignal(n) /\ ~ForSignal(n)'
  BY <1>1, <1>2 DEF ForWait, ForSignal
<1>5. \A m \in Tokens \ {n} : k'.token[m] = k.token[m] /\ k'.job[m] = k.job[m] /\ k'.inbox[m] = k.inbox[m]
  BY <1>1, <1>2
<1>6. Posted'
  <2>1. PostedAt(n)'
    BY <1>1, <1>4 DEF Posted, PostedAt
  <2> QED BY <1>1, <1>5, <2>1, PostedElse DEF Posted
<1>7. Jobs'
  BY <1>1, <1>2, <1>5 DEF Jobs
<1>8. WaitOf'[n] = WaitOf[n] /\ SignalOf'[n] = None
  BY <1>1, <1>2, <1>4 DEF WaitOf, SignalOf
<1>9. WaitOf' = WaitOf /\ SignalOf' = [SignalOf EXCEPT ![n] = None]
  BY <1>5, <1>8, OtherTokens
<1>10. Served' = Served \ {n} /\ Holding' = Holding \ {n} /\ n \in Holding
  BY <1>1, <1>2, <1>3, <1>5, <1>9 DEF Served, Holding
<1>11. /\ Cardinality(Served') = Cardinality(Served) - 1
       /\ Cardinality(Holding') = Cardinality(Holding) - 1
       /\ Cardinality(Served) >= 1
  <2>1. Cardinality(Served) # 0
    BY <1>3, Finite, FS_EmptySet
  <2>2. Cardinality(Served') = Cardinality(Served) - 1
    BY <1>3, <1>10, Finite, FS_RemoveElement
  <2>3. Cardinality(Holding') = Cardinality(Holding) - 1
    BY <1>10, Finite, FS_RemoveElement
  <2> QED BY <2>1, <2>2, <2>3, Finite
<1>12. OnTheWay' = OnTheWay - 1
  <2>1. Heard' = Heard
    BY <1>1 DEF Heard
  <2> QED BY <1>1, <1>11, <2>1, Finite, Sizes DEF OnTheWay
<1>13. Cardinality(Inside) + (Cardinality(Tokens) - k.free) = Cardinality(Holding)
  BY HoldersCounted
<1>14. CASE world.async
  <2>1. Cardinality(Tokens) - k.free >= 1
    BY <1>11, <1>14, Finite, Sizes DEF Balance, OnTheWay, Sent
  <2>2. k'.free \in 0..Cardinality(Tokens) /\ k'.free = k.free + 1
    BY <1>1, <1>2, <1>14, <2>1, Finite
  <2>3. TypeOK'
    BY <1>1, <1>2, <1>14, <2>2 DEF TypeOK, TokenStates
  <2>4. WaitersAgree' /\ SignallersAgree' /\ Inside' = Inside
    BY <1>1, <1>9, <1>14 DEF WaitersAgree, SignallersAgree, Inside
  <2>5. Cardinality(Inside') + (Cardinality(Tokens) - k'.free) = Cardinality(Holding')
    BY <1>2, <1>11, <1>13, <2>2, <2>4, Finite
  <2>6. HoldersHold'
    BY <2>5 DEF HoldersHold, Inside, Holding
  <2>7. Sent' = Sent - 1
    BY <1>2, <1>14, <2>2, Finite DEF Sent
  <2>8. Balance'
    BY <1>12, <2>7, Sizes DEF Balance
  <2> QED BY <1>1, <1>6, <1>7, <2>3, <2>4, <2>6, <2>8
<1>15. CASE ~world.async
  <2>1. k.at[c] = "signals"
    BY <1>3, <1>2, <1>15 DEF SignallersAgree, Agree
  <2>2. TypeOK'
    <3>1. k'.at \in [Clients -> {"out", "waits", "in", "signals"}]
      BY <1>1, <1>2, <1>15 DEF TypeOK
    <3> QED BY <1>1, <1>2, <1>15, <3>1 DEF TypeOK, TokenStates
  <2>3. SignallersAgree'
    <3>1. Agree(k.signals, k.heard, [SignalOf EXCEPT ![n] = None], [k.at EXCEPT ![SignalOf[n]] = "out"], "signals")
      BY <1>2, <1>3, <1>15, AgreeLeave DEF SignallersAgree
    <3> QED BY <1>1, <1>3, <1>9, <1>15, <3>1 DEF SignallersAgree
  <2>4. WaitersAgree'
    <3>1. Agree(k.waits, k.hand, WaitOf, [k.at EXCEPT ![c] = "out"], "waits")
      BY <1>2, <2>1, AgreeElse DEF WaitersAgree
    <3> QED BY <1>1, <1>9, <1>15, <3>1 DEF WaitersAgree
  <2>5. Inside' = Inside \ {c} /\ Calling' = Calling \ {c} /\ c \in Inside /\ c \in Calling
    BY <1>1, <1>2, <1>15, <2>1 DEF Inside, Calling
  <2>6. Cardinality(Inside') = Cardinality(Inside) - 1 /\ Cardinality(Calling') = Cardinality(Calling) - 1
    BY <2>5, Finite, FS_RemoveElement
  <2>7. Cardinality(Inside') + (Cardinality(Tokens) - k'.free) = Cardinality(Holding')
    BY <1>1, <1>2, <1>11, <1>13, <1>15, <2>6, Finite
  <2>8. HoldersHold'
    BY <2>7 DEF HoldersHold, Inside, Holding
  <2>9. Sent' = Sent - 1
    BY <1>15, <2>6 DEF Sent
  <2>10. Balance'
    BY <1>12, <2>9, Sizes DEF Balance
  <2> QED BY <1>1, <1>6, <1>7, <2>2, <2>3, <2>4, <2>8, <2>10
<1> QED BY <1>14, <1>15

\* A token ends the second phase of the signal: it is free.
LEMMA EndSignalStep ==
  ASSUME IInv, NEW n \in Tokens, EndSignal(n), UNCHANGED world
  PROVE  IInv'
<1> USE SemaphoreTaskAssumption DEF IInv
<1>1. /\ k.token[n] = "signal2"
      /\ k'.token = [k.token EXCEPT ![n] = "free"] /\ k'.job = [k.job EXCEPT ![n] = None]
      /\ k'.worker_port = IF world.full THEN Append(k.worker_port, n) ELSE k.worker_port
      /\ UNCHANGED <<k.at, k.inbox, k.waits, k.signals, k.hand, k.heard, k.signal_port, k.free, k.deaf>>
      /\ Shape'
  BY DEF EndSignal, AfterSignal, NoteWorker, Shape
<1>2. /\ DOMAIN k.token = Tokens /\ DOMAIN k.job = Tokens /\ k'.token[n] = "free"
      /\ k.worker_port \in Seq(Tokens) /\ IsInjective(k.worker_port) /\ PostedAt(n)
  BY <1>1 DEF TypeOK, Posted
<1>3. ~ForSignal(n) /\ ~ForSignal(n)' /\ ForWait(n)' /\ (ForWait(n) <=> ~world.full)
  BY <1>1, <1>2 DEF ForWait, ForSignal
<1>4. \A m \in Tokens \ {n} : k'.token[m] = k.token[m] /\ k'.job[m] = k.job[m] /\ k'.inbox[m] = k.inbox[m]
  BY <1>1, <1>2
<1>5. Posted' /\ k'.worker_port \in Seq(Tokens) /\ WaitOf'[n] = WaitOf[n] /\ SignalOf'[n] = SignalOf[n]
  <2>1. CASE ~world.full
    <3>1. PostedAt(n)'
      BY <1>1, <1>2, <1>3, <2>1 DEF PostedAt
    <3>2. Posted'
      BY <1>1, <1>4, <2>1, <3>1, PostedElse DEF Posted
    <3> QED BY <1>1, <1>2, <1>3, <2>1, <3>2 DEF WaitOf, SignalOf
  <2>2. CASE world.full
    <3>1. n \notin Range(k.worker_port) /\ n \notin Range(k.signal_port) /\ k.inbox[n] = <<>>
      BY <1>2, <1>3, <2>2 DEF PostedAt
    <3>2. /\ k'.worker_port \in Seq(Tokens) /\ IsInjective(k'.worker_port)
          /\ Range(k'.worker_port) = Range(k.worker_port) \cup {n}
      BY <1>1, <1>2, <2>2, <3>1, Pushed, PushedRange
    <3>3. PostedAt(n)'
      BY <1>1, <1>2, <1>3, <3>1, <3>2 DEF PostedAt
    <3>4. Posted'
      BY <1>1, <1>4, <3>2, <3>3, PostedElse DEF Posted
    <3> QED BY <1>1, <1>2, <1>3, <2>2, <3>1, <3>2, <3>4 DEF WaitOf, SignalOf
  <2> QED BY <2>1, <2>2
<1>6. TypeOK'
  <2>1. k'.token \in [Tokens -> TokenStates] /\ k'.job \in [Tokens -> Maybe]
    BY <1>1, <1>2 DEF TypeOK, TokenStates, Maybe
  <2> QED BY <1>1, <1>5, <2>1 DEF TypeOK
<1>7. Jobs' /\ Holding' = Holding
  BY <1>1, <1>2, <1>4 DEF Jobs, Holding
<1>8. WaitOf' = WaitOf /\ SignalOf' = SignalOf
  BY <1>4, <1>5, OtherTokens
<1>9. /\ WaitersAgree' /\ SignallersAgree' /\ Inside' = Inside /\ Calling' = Calling
      /\ Served' = Served
  BY <1>1, <1>8 DEF WaitersAgree, SignallersAgree, Inside, Calling, Served
<1>10. Balance' /\ HoldersHold'
  BY <1>1, <1>7, <1>9, SameCounts
<1> QED BY <1>1, <1>5, <1>6, <1>7, <1>9, <1>10

-----------------------------------------------------------------------------
LEMMA Initially ==
  ASSUME Init
  PROVE  IInv /\ k.deaf = {}
<1> USE SemaphoreTaskAssumption DEF Init
<1> DEFINE all == SetToSeq(Tokens)
<1>1. /\ all \in Seq(Tokens) /\ IsInjective(all) /\ Range(all) = Tokens
      /\ IsInjective(<<>>) /\ Range(<<>>) = {} /\ <<>> \in Seq(Tokens) /\ <<>> \in Seq(Clients)
  BY Enumerated DEF IsInjective, Range
<1>2. Shape
  BY DEF Shape
<1>3. /\ world \in Worlds /\ world.full \in BOOLEAN /\ world.async \in BOOLEAN /\ world.second \in BOOLEAN
      /\ world.openers \subseteq Clients /\ Cardinality(world.openers) = IF world.full THEN 0 ELSE Cardinality(Tokens)
  OBVIOUS
<1>4. /\ k.at = [c \in Clients |-> IF c \in world.openers THEN "in" ELSE "out"]
      /\ k.token = [n \in Tokens |-> IF world.full THEN "free" ELSE "held"]
      /\ k.job = [n \in Tokens |-> None] /\ k.inbox = [n \in Tokens |-> <<>>]
      /\ k.waits = <<>> /\ k.signals = <<>> /\ k.hand = None /\ k.heard = None
      /\ k.worker_port = IF world.full THEN all ELSE <<>>
      /\ k.signal_port = IF world.full THEN <<>> ELSE all
      /\ k.free = Cardinality(Tokens) /\ k.deaf = {}
  OBVIOUS
<1>5. TypeOK
  <2>1. k.free \in 0..Cardinality(Tokens)
    BY <1>4, Finite
  <2> QED BY <1>1, <1>3, <1>4, <2>1 DEF TypeOK, TokenStates, Maybe
<1>6. Posted
  <2>1. ASSUME NEW n \in Tokens PROVE PostedAt(n)
    <3>1. CASE world.full
      BY <1>1, <1>4, <3>1 DEF PostedAt, ForWait, ForSignal
    <3>2. CASE ~world.full
      BY <1>1, <1>4, <3>2 DEF PostedAt, ForWait, ForSignal
    <3> QED BY <3>1, <3>2
  <2> QED BY <1>1, <1>4, <2>1 DEF Posted
<1>7. Jobs
  BY <1>4 DEF Jobs
<1>8. \A n \in Tokens : WaitOf[n] = None /\ SignalOf[n] = None
  BY <1>4 DEF WaitOf, SignalOf
<1>9. WaitersAgree /\ SignallersAgree
  BY <1>4, <1>8 DEF WaitersAgree, SignallersAgree, Agree
<1>10. Served = {} /\ Calling = {} /\ Inside = world.openers
  BY <1>3, <1>4, <1>8 DEF Served, Calling, Inside
<1>11. Balance
  <2>1. Heard = 0 /\ Len(k.signals) = 0
    BY <1>4 DEF Heard
  <2> QED BY <1>4, <1>5, <1>10, <2>1, FS_EmptySet, Finite, Sizes DEF Balance, OnTheWay
<1>12. Holding = IF world.full THEN {} ELSE Tokens
  BY <1>4 DEF Holding
<1>13. HoldersHold
  BY <1>3, <1>4, <1>10, <1>12, FS_EmptySet, Finite, HoldersCounted
<1> QED BY <1>2, <1>4, <1>5, <1>6, <1>7, <1>9, <1>11, <1>13 DEF IInv

\* Every step keeps the invariant, and drops no signal in the worlds named.
LEMMA Step ==
  ASSUME IInv, [Next]_vars
  PROVE  IInv' /\ world' = world /\ (world.full \/ ~world.second => k'.deaf = k.deaf)
<1>1. CASE UNCHANGED vars
  <2>1. world' = world /\ k' = k
    BY <1>1 DEF vars
  <2> QED BY <2>1, SameTokens, SameCounts DEF IInv, TypeOK, Shape, WaitersAgree, SignallersAgree, Inside, Calling
<1>2. ASSUME Next, NEW c \in Clients, Wait(c) \/ Signal(c)
      PROVE  IInv' /\ k'.deaf = k.deaf
  BY <1>2, WaitStep, SignalStep DEF Next, Wait, Signal, IInv, Shape
<1>3. ASSUME Next, Accept \/ Give \/ Hear
      PROVE  IInv' /\ k'.deaf = k.deaf
  BY <1>3, AcceptStep, GiveStep, HearStep DEF Next, Accept, Give, Hear, IInv, Shape
<1>4. ASSUME Next, NEW n \in Tokens, Token(n)
      PROVE  IInv' /\ k'.deaf = k.deaf
  <2>1. IInv'
    BY <1>4, TakeWaitStep, ReplyWaitStep, SecondWaitStep, TakeSignalStep, ReplySignalStep, EndSignalStep DEF Next, Token
  <2>2. k'.deaf = k.deaf
    BY <1>4 DEF IInv, Shape, Token, TakeWait, ReplyWait, SecondWait, TakeSignal, ReplySignal, EndSignal, Take, Set,
         BeforeWait, AfterWait, BeforeSignal, AfterSignal, AnswerWait, AnswerSignal, EndWait, NoteWorker, NoteSignal
  <2> QED BY <2>1, <2>2
<1> QED BY <1>1, <1>2, <1>3, <1>4, MatchStep DEF Next

-----------------------------------------------------------------------------
\* A token owes at most one note or request, and one that waits for work exactly one
\* (instance.cc 689-860).
LEMMA Owed ==
  ASSUME IInv
  PROVE  NotesAgree
<1> SUFFICES ASSUME NEW n \in Tokens
             PROVE  LET owed == Occurs(k.worker_port, n) + Occurs(k.signal_port, n) + Len(k.inbox[n])
                    IN /\ owed <= 1
                       /\ k.token[n] \in {"free", "held"} => owed = 1
                       /\ n \in Range(k.worker_port) => k.token[n] \in {"free"} \cup (IF world.full THEN {} ELSE {"signal1", "signal2"})
                       /\ n \in Range(k.signal_port) => k.token[n] \in {"held"} \cup (IF world.full THEN {"wait1", "wait2"} ELSE {})
  BY DEF NotesAgree
<1>1. /\ Occurs(k.worker_port, n) = IF n \in Range(k.worker_port) THEN 1 ELSE 0
      /\ Occurs(k.signal_port, n) = IF n \in Range(k.signal_port) THEN 1 ELSE 0
  BY OccursOnce DEF IInv, TypeOK, Posted
<1>2. PostedAt(n) /\ ~(ForWait(n) /\ ForSignal(n)) /\ k.inbox[n] \in Seq(Clients)
  BY OneKind DEF IInv, Posted
<1>3. k.inbox[n] = <<>> => Len(k.inbox[n]) = 0
  OBVIOUS
<1>4. k.token[n] \in {"free", "held"} => ForWait(n) \/ ForSignal(n)
  BY DEF ForWait, ForSignal
<1>5. CASE n \in Range(k.worker_port)
  <2>1. /\ n \notin Range(k.signal_port) /\ Len(k.inbox[n]) = 0 /\ ForWait(n)
        /\ Occurs(k.worker_port, n) = 1 /\ Occurs(k.signal_port, n) = 0
    BY <1>1, <1>2, <1>3, <1>5 DEF PostedAt
  <2> QED BY <2>1 DEF ForWait
<1>6. CASE n \in Range(k.signal_port)
  <2>1. /\ n \notin Range(k.worker_port) /\ Len(k.inbox[n]) = 0 /\ ForSignal(n)
        /\ Occurs(k.worker_port, n) = 0 /\ Occurs(k.signal_port, n) = 1
    BY <1>1, <1>2, <1>3, <1>6 DEF PostedAt
  <2> QED BY <2>1 DEF ForSignal
<1>7. CASE n \notin Range(k.worker_port) /\ n \notin Range(k.signal_port)
  <2>1. /\ Occurs(k.worker_port, n) = 0 /\ Occurs(k.signal_port, n) = 0
        /\ Len(k.inbox[n]) \in {0, 1} /\ (ForWait(n) \/ ForSignal(n) => Len(k.inbox[n]) = 1)
    BY <1>1, <1>2, <1>3, <1>7 DEF PostedAt
  <2>2. Occurs(k.worker_port, n) + Occurs(k.signal_port, n) + Len(k.inbox[n]) \in {0, 1}
    BY <2>1
  <2>3. ForWait(n) \/ ForSignal(n)
        => Occurs(k.worker_port, n) + Occurs(k.signal_port, n) + Len(k.inbox[n]) = 1
    BY <2>1
  <2> QED BY <1>4, <1>7, <2>2, <2>3
<1> QED BY <1>5, <1>6, <1>7

\* Every token is accounted for, and the tokens taken are as many as the clients that
\* hold the semaphore or whose signals are not served (instance.cc 551-636, 689-860).
THEOREM TokensAccountedFor == Spec => []Consistent
<1>1. Init => IInv
  BY Initially
<1>2. IInv /\ [Next]_vars => IInv'
  BY Step
<1>3. IInv => Consistent
  BY Owed DEF IInv, Consistent
<1> QED BY <1>1, <1>2, <1>3, PTL DEF Spec

\* No signal is lost, in the worlds where the tokens start free or where the wait entry
\* has no second phase; in the others Token_r sends its note only after the second phase,
\* when the client may have signalled already (instance.cc:592, 619-624, 760-860).
THEOREM NoSignalLost == Spec => [](world.full \/ ~world.second => SignalsHeard)
<1> DEFINE Heeds == world.full \/ ~world.second => k.deaf = {}
<1>1. Init => IInv /\ Heeds
  BY Initially
<1>2. IInv /\ Heeds /\ [Next]_vars => (IInv /\ Heeds)'
  BY Step
<1>3. IInv /\ Heeds => (world.full \/ ~world.second => SignalsHeard)
  BY DEF SignalsHeard
<1> QED BY <1>1, <1>2, <1>3, PTL DEF Spec
=============================================================================
