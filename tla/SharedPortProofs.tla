-------------------------- MODULE SharedPortProofs --------------------------
(***************************************************************************)
(* What holds of a shared port for any number of users and messages.  For  *)
(* every program: types, the dispatcher's counter, and that no message is  *)
(* lost unless the dispatcher spins.  For the programs without give-ups    *)
(* that race with an answer: that every call has one request or one        *)
(* answer, and the dispatcher serves.  For those without kills: that       *)
(* messages are given in order, and if nobody gives up either, to users in *)
(* order.                                                                  *)
(***************************************************************************)
EXTENDS SharedPort, SequenceTheorems, FiniteSetTheorems, TLAPS

\* A queue port without requests holds messages; a dispatcher that spins has
\* emptied them.
Queued == IF dispatcher = "spins" THEN Letters ELSE Messages

\* After a drop the queue port can only hold messages, one less than counted,
\* until the dispatcher is stuck.
Counted ==
  \/ dropped = {} /\ queue \in Seq(Users) /\ Len(queue) = state
  \/ dropped = {} /\ queue \in Seq(Queued) /\ Len(queue) + state = 0
  \/ /\ dropped # {} /\ queue \in Seq(Queued)
     /\ dispatcher = "serving" => Len(queue) + state + 1 = 0

TypeInv == TypeOK /\ Counted

-----------------------------------------------------------------------------
LEMMA Alphabet == \A x \in Users : x \notin Messages /\ x \notin Letters
  BY PortAssumption, NamesAssumption DEF Letters

\* A sequence over a set is one over a larger set.
LEMMA Wider ==
  ASSUME NEW S, NEW T, S \subseteq T, NEW s \in Seq(S)
  PROVE  s \in Seq(T)
<1>1. Len(s) \in Nat /\ s \in [1..Len(s) -> S]
  BY LenProperties
<1>2. s \in [1..Len(s) -> T]
  BY <1>1
<1> QED
  BY <1>1, <1>2

\* What is left of a sequence behind, and before, its i-th element.
LEMMA Behind ==
  ASSUME NEW S, NEW s \in Seq(S), NEW i \in 1..Len(s)
  PROVE  /\ SubSeq(s, i + 1, Len(s)) \in Seq(S)
         /\ Len(SubSeq(s, i + 1, Len(s))) = Len(s) - i
<1>1. Len(s) \in Nat /\ i \in Nat /\ i >= 1 /\ i <= Len(s)
  BY LenProperties
<1>2. \A j \in (i + 1)..Len(s) : s[j] \in S
  BY <1>1, ElementOfSeq
<1>3. /\ SubSeq(s, i + 1, Len(s)) \in Seq(S)
      /\ Len(SubSeq(s, i + 1, Len(s))) = IF i + 1 <= Len(s) THEN Len(s) - (i + 1) + 1 ELSE 0
  BY <1>1, <1>2, SubSeqProperties, Z3
<1> QED
  BY <1>1, <1>3

LEMMA Before ==
  ASSUME NEW S, NEW s \in Seq(S), NEW i \in 1..Len(s)
  PROVE  /\ SubSeq(s, 1, i - 1) \in Seq(S)
         /\ Len(SubSeq(s, 1, i - 1)) = i - 1
<1>1. Len(s) \in Nat /\ i \in Nat /\ i >= 1 /\ i <= Len(s)
  BY LenProperties
<1>2. \A j \in 1..(i - 1) : s[j] \in S
  BY <1>1, ElementOfSeq
<1>3. /\ SubSeq(s, 1, i - 1) \in Seq(S)
      /\ Len(SubSeq(s, 1, i - 1)) = IF 1 <= i - 1 THEN (i - 1) - 1 + 1 ELSE 0
  BY <1>1, <1>2, SubSeqProperties, Z3
<1> QED
  BY <1>1, <1>3

LEMMA WithoutType ==
  ASSUME NEW S, NEW s \in Seq(S), NEW x
  PROVE  Without(s, x) \in Seq(S)
<1>1. CASE x \in Range(s)
  <2> DEFINE i == CHOOSE i \in DOMAIN s : s[i] = x
  <2>1. i \in DOMAIN s
    BY <1>1 DEF Range
  <2>2. i \in 1..Len(s)
    BY <2>1, LenProperties
  <2>3. SubSeq(s, 1, i - 1) \in Seq(S) /\ SubSeq(s, i + 1, Len(s)) \in Seq(S)
    BY <2>2, Before, Behind
  <2>4. SubSeq(s, 1, i - 1) \o SubSeq(s, i + 1, Len(s)) \in Seq(S)
    BY <2>3, ConcatProperties
  <2> QED
    BY <1>1, <2>4 DEF Without
<1>2. CASE x \notin Range(s)
  BY <1>2 DEF Without
<1> QED
  BY <1>1, <1>2

\* An item of the port concerns a user or carries a message.
LEMMA Items ==
  ASSUME NEW x \in Item
  PROVE  /\ x.type \in {"SP_REQUEST", "SP_CANCEL"} => x.of \in Users
         /\ x.type = "message" => x.of \in Messages
  BY DEF Item

LEMMA Sent ==
  /\ \A u \in Users : Request(u) \in Item /\ Cancel(u) \in Item
  /\ \A m \in Messages : Message(m) \in Item
  BY DEF Item, Request, Cancel, Message

\* The queue port while requests are counted, and while messages are.
LEMMA QueueHolds ==
  ASSUME TypeInv, dispatcher = "serving"
  PROVE  /\ state > 0 => dropped = {} /\ queue \in Seq(Users) /\ Len(queue) = state
         /\ state = 0 => dropped = {} /\ queue = <<>>
         /\ state < 0 => /\ queue \in Seq(Messages)
                         /\ dropped = {} => Len(queue) + state = 0
                         /\ dropped # {} => Len(queue) + state + 1 = 0
<1>1. state \in Int /\ queue \in Seq(Users \cup Letters) /\ Len(queue) \in Nat
  BY LenProperties DEF TypeInv, TypeOK
<1>2. Len(queue) = 0 => queue = <<>>
  BY <1>1, EmptySeq
<1> QED
  BY <1>1, <1>2 DEF TypeInv, Counted, Queued

\* A message that is given goes to a blind port, and leaves the histories types.
LEMMA Giving ==
  ASSUME TypeInv, NEW m \in Messages, NEW u \in Users, Give(m, u)
  PROVE  /\ blind' \in [Users -> Seq(Messages \cup {TimedOut})]
         /\ user' \in [Users -> {"idle", "asking", "polling", "waiting", "ready", "dead"}]
         /\ order' \in Seq(Messages) /\ line' \in Seq(Users)
<1>1. blind[u] \in Seq(Messages \cup {TimedOut})
  BY DEF TypeInv, TypeOK
<1>2. Append(blind[u], m) \in Seq(Messages \cup {TimedOut})
  BY <1>1, AppendProperties
<1>3. blind' \in [Users -> Seq(Messages \cup {TimedOut})]
  BY <1>2 DEF Give, TypeInv, TypeOK
<1>4. user' \in [Users -> {"idle", "asking", "polling", "waiting", "ready", "dead"}]
  BY DEF Give, Woken, TypeInv, TypeOK
<1>5. order' \in Seq(Messages) /\ line' \in Seq(Users)
  BY WithoutType DEF Give, TypeInv, TypeOK
<1> QED
  BY <1>3, <1>4, <1>5

LEMMA NotGiving ==
  ASSUME TypeInv, GiveNothing
  PROVE  /\ blind' \in [Users -> Seq(Messages \cup {TimedOut})]
         /\ user' \in [Users -> {"idle", "asking", "polling", "waiting", "ready", "dead"}]
         /\ order' \in Seq(Messages) /\ line' \in Seq(Users)
  BY DEF GiveNothing, TypeInv, TypeOK

\* What the dispatcher's steps have in common.
Handled ==
  /\ blind' \in [Users -> Seq(Messages \cup {TimedOut})]
  /\ user' \in [Users -> {"idle", "asking", "polling", "waiting", "ready", "dead"}]
  /\ order' \in Seq(Messages) /\ line' \in Seq(Users)
  /\ state' \in Int /\ dispatcher' \in {"serving", "waits", "spins"} /\ dropped' \subseteq Messages
  /\ Counted'

LEMMA Requesting ==
  ASSUME TypeInv, dispatcher = "serving", NEW u \in Users, HandleRequest(u)
  PROVE  Handled
<1>t. state \in Int /\ dispatcher \in {"serving", "waits", "spins"} /\ dropped \subseteq Messages
  BY DEF TypeInv, TypeOK
<1>q. /\ state > 0 => dropped = {} /\ queue \in Seq(Users) /\ Len(queue) = state
      /\ state = 0 => dropped = {} /\ queue = <<>>
      /\ state < 0 => /\ queue \in Seq(Messages)
                      /\ dropped = {} => Len(queue) + state = 0
                      /\ dropped # {} => Len(queue) + state + 1 = 0
  BY QueueHolds
<1>e. <<>> \in Seq(Users) /\ <<>> \in Seq(Messages) /\ Len(<<>>) = 0
  BY EmptySeq
<1>c. Counted
  BY DEF TypeInv
<1>1. CASE NobodyIsOwed /\ queue' = Append(queue, u) /\ state' = state + 1
           /\ GiveNothing /\ UNCHANGED <<dispatcher, dropped>>
  <2>a. state = 0 \/ state > 0
    BY <1>1, <1>t DEF NobodyIsOwed
  <2>1. state >= 0 /\ dropped = {} /\ queue \in Seq(Users) /\ Len(queue) = state
    <3>1. CASE state = 0
      <4>1. queue = <<>> /\ dropped = {}
        BY <3>1, <1>q
      <4> QED
        BY <4>1, <3>1, <1>e
    <3>2. CASE state > 0
      BY <3>2, <1>t, <1>q
    <3> QED
      BY <2>a, <3>1, <3>2
  <2>2. queue' \in Seq(Users) /\ Len(queue') = state'
    BY <1>1, <2>1, AppendProperties
  <2> QED
    BY <1>1, <2>1, <2>2, NotGiving, <1>t, <1>c DEF Handled, Counted, Queued
<1>2. CASE ~NobodyIsOwed /\ queue = <<>> /\ Stuck /\ state' = state + 1
  <2>1. state < 0 /\ state' \in Int
    BY <1>2, <1>t DEF NobodyIsOwed
  <2>2. Len(queue) = 0 /\ queue \in Seq(Messages)
    BY <1>2, <1>e
  <2>3. dropped # {}
    BY <2>1, <2>2, <1>t, <1>q
  <2> QED
    BY <1>2, <2>1, <2>2, <2>3, NotGiving, <1>t DEF Stuck, Handled, Counted, Queued
<1>3. CASE ~NobodyIsOwed /\ queue # <<>> /\ Give(Head(queue), u) /\ queue' = Tail(queue)
           /\ state' = state + 1 /\ UNCHANGED <<dispatcher, dropped>>
  <2>1. queue \in Seq(Messages) /\ state < 0
    BY <1>3, <1>t, <1>q DEF NobodyIsOwed
  <2>2. Head(queue) \in Messages /\ queue' \in Seq(Messages) /\ Len(queue') = Len(queue) - 1
    BY <1>3, <2>1, HeadTailProperties
  <2>3. Len(queue') \in Nat /\ Len(queue) \in Nat /\ state' = state + 1
    BY <1>3, <2>1, <2>2, LenProperties
  <2>4. Counted'
    <3>1. CASE dropped = {}
      <4>1. Len(queue) + state = 0
        BY <2>1, <3>1, <1>q
      <4>2. Len(queue') + state' = 0
        BY <4>1, <2>2, <2>3, <1>t
      <4> QED
        BY <1>3, <2>2, <3>1, <4>2 DEF Counted, Queued
    <3>2. CASE dropped # {}
      <4>1. Len(queue) + state + 1 = 0
        BY <2>1, <3>2, <1>q
      <4>2. Len(queue') + state' + 1 = 0
        BY <4>1, <2>2, <2>3, <1>t
      <4> QED
        BY <1>3, <2>2, <3>2, <4>2 DEF Counted, Queued
    <3> QED
      BY <3>1, <3>2
  <2> QED
    BY <1>3, <2>2, <2>4, Giving, <1>t DEF Handled
<1>4. CASE ~NobodyIsOwed /\ queue # <<>> /\ Requeued
           /\ GiveNothing /\ UNCHANGED <<state, dispatcher, dropped>>
  <2>1. queue \in Seq(Messages) /\ state < 0
    BY <1>4, <1>t, <1>q DEF NobodyIsOwed
  <2>2. Head(queue) \in Messages /\ Tail(queue) \in Seq(Messages) /\ Len(Tail(queue)) = Len(queue) - 1
    BY <1>4, <2>1, HeadTailProperties
  <2>3. queue' \in Seq(Messages) /\ Len(queue') = Len(queue)
    BY <1>4, <2>1, <2>2, AppendProperties, LenProperties DEF Requeued
  <2>4. Counted'
    BY <1>4, <2>1, <2>3, <1>t, <1>q, <1>t DEF Counted, Queued
  <2> QED
    BY <1>4, <2>4, NotGiving, <1>t, <1>c DEF Handled
<1> QED
  BY <1>1, <1>2, <1>3, <1>4 DEF HandleRequest

\* A cancellation turns requests round as they are, and empties messages.
LEMMA Turned ==
  ASSUME NEW s \in Seq(Users)
  PROVE  Emptied(s) = s
<1>1. Len(s) \in Nat /\ DOMAIN s = 1..Len(s) /\ s \in [1..Len(s) -> Users]
  BY LenProperties
<1>2. \A i \in DOMAIN s : s[i] \notin Messages
  BY <1>1, Alphabet
<1> QED
  BY <1>1, <1>2 DEF Emptied

LEMMA Spoilt ==
  ASSUME NEW s \in Seq(Messages)
  PROVE  Emptied(s) \in Seq(Letters) /\ Len(Emptied(s)) = Len(s)
<1>1. Len(s) \in Nat /\ DOMAIN s = 1..Len(s)
  BY LenProperties
<1>2. Emptied(s) = [i \in 1..Len(s) |-> IF s[i] \in Messages THEN Empty ELSE s[i]]
  BY <1>1 DEF Emptied
<1>3. \A i \in 1..Len(s) : s[i] \in Messages
  BY <1>1, ElementOfSeq
<1>4. Emptied(s) \in [1..Len(s) -> Letters]
  BY <1>2, <1>3 DEF Letters
<1>5. Emptied(s) \in Seq(Letters)
  BY <1>1, <1>4
<1>6. DOMAIN Emptied(s) = 1..Len(s) /\ DOMAIN Emptied(s) = 1..Len(Emptied(s)) /\ Len(Emptied(s)) \in Nat
  BY <1>2, <1>5, LenProperties
<1> QED
  BY <1>1, <1>5, <1>6

\* The queue of a cancellation that finds its request.
LEMMA CancelledThere ==
  ASSUME TypeInv, dispatcher = "serving", NEW u \in Users, HandleCancel(u), u \in Range(queue)
  PROVE  /\ state > 0 /\ dropped = {} /\ queue \in Seq(Users) /\ Len(queue) = state
         /\ state' = state - 1 /\ GiveNothing /\ UNCHANGED <<dispatcher, dropped>>
         /\ \E i \in 1..Len(queue) :
              /\ queue[i] = u /\ \A j \in 1..(i - 1) : queue[j] # u
              /\ queue' = SubSeq(queue, i + 1, Len(queue)) \o SubSeq(queue, 1, i - 1)
<1>t. state \in Int
  BY DEF TypeInv, TypeOK
<1>q. /\ state > 0 => dropped = {} /\ queue \in Seq(Users) /\ Len(queue) = state
      /\ state = 0 => queue = <<>>
      /\ state < 0 => queue \in Seq(Messages)
  BY QueueHolds
<1>1. state' = state - 1 /\ GiveNothing /\ UNCHANGED <<dispatcher, dropped>>
  BY DEF HandleCancel, OneLess
<1>2. PICK i \in DOMAIN queue :
        /\ queue[i] = u /\ \A j \in 1..(i - 1) : queue[j] # u
        /\ queue' = SubSeq(queue, i + 1, Len(queue)) \o Emptied(SubSeq(queue, 1, i - 1))
  BY DEF HandleCancel
<1>3. ~(queue \in Seq(Messages))
  BY <1>2, LenProperties, ElementOfSeq, Alphabet
<1>4. <<>> \in Seq(Messages)
  BY EmptySeq
<1>5. state > 0 /\ dropped = {} /\ queue \in Seq(Users) /\ Len(queue) = state
  BY <1>t, <1>q, <1>3, <1>4
<1>6. i \in 1..Len(queue)
  BY <1>2, <1>5, LenProperties
<1>7. Emptied(SubSeq(queue, 1, i - 1)) = SubSeq(queue, 1, i - 1)
  BY <1>5, <1>6, Before, Turned
<1> QED
  BY <1>1, <1>2, <1>5, <1>6, <1>7

LEMMA Cancelling ==
  ASSUME TypeInv, dispatcher = "serving", NEW u \in Users, HandleCancel(u)
  PROVE  Handled
<1>t. state \in Int /\ dispatcher \in {"serving", "waits", "spins"} /\ dropped \subseteq Messages
  BY DEF TypeInv, TypeOK
<1>q. /\ state > 0 => dropped = {} /\ queue \in Seq(Users) /\ Len(queue) = state
      /\ state = 0 => dropped = {} /\ queue = <<>>
      /\ state < 0 => /\ queue \in Seq(Messages)
                      /\ dropped = {} => Len(queue) + state = 0
                      /\ dropped # {} => Len(queue) + state + 1 = 0
  BY QueueHolds
<1>e. <<>> \in Seq(Users) /\ <<>> \in Seq(Messages) /\ Len(<<>>) = 0
  BY EmptySeq
<1>c. Counted
  BY DEF TypeInv
<1>1. CASE u \in Range(queue)
  <2>1. /\ state > 0 /\ dropped = {} /\ queue \in Seq(Users) /\ Len(queue) = state
        /\ state' = state - 1 /\ GiveNothing /\ UNCHANGED <<dispatcher, dropped>>
        /\ \E i \in 1..Len(queue) :
             queue' = SubSeq(queue, i + 1, Len(queue)) \o SubSeq(queue, 1, i - 1)
    BY <1>1, CancelledThere
  <2>2. PICK i \in 1..Len(queue) :
          queue' = SubSeq(queue, i + 1, Len(queue)) \o SubSeq(queue, 1, i - 1)
    BY <2>1
  <2>3. queue' \in Seq(Users) /\ Len(queue') = (Len(queue) - i) + (i - 1)
    <3>1. queue \in Seq(Users)
      BY <2>1
    <3>2. PICK a, b : a = SubSeq(queue, i + 1, Len(queue)) /\ b = SubSeq(queue, 1, i - 1)
      OBVIOUS
    <3>3. a \in Seq(Users) /\ b \in Seq(Users) /\ Len(a) = Len(queue) - i /\ Len(b) = i - 1
      BY <3>1, <3>2, Behind, Before
    <3>4. queue' = a \o b
      BY <2>2, <3>2
    <3>5. queue' \in Seq(Users) /\ Len(queue') = Len(a) + Len(b)
      BY <3>3, <3>4, ConcatProperties
    <3> QED BY <3>3, <3>5
  <2>4. Counted'
    BY <2>1, <2>2, <2>3, <1>t DEF Counted, Queued
  <2> QED
    BY <2>1, <2>4, NotGiving, <1>t, <1>c DEF Handled
<1>2. CASE u \notin Range(queue)
  <2>1. /\ queue' = Emptied(queue) /\ dispatcher' = IF queue = <<>> THEN "waits" ELSE "spins"
        /\ GiveNothing /\ UNCHANGED <<state, dropped>>
    BY <1>2 DEF HandleCancel
  <2>2. Counted'
    <3>1. CASE queue \in Seq(Users)
      <4>1. queue' = queue
        BY <2>1, <3>1, Turned
      <4>2. CASE queue = <<>>
        BY <2>1, <4>1, <4>2, <1>c, <1>e DEF Counted, Queued
      <4>3. CASE queue # <<>>
        <5>1. state > 0 /\ dropped = {} /\ Len(queue) = state
          <6>1. ~(state < 0)
            <7>1. queue[1] \in Users /\ 1 \in 1..Len(queue)
              BY <3>1, <4>3, EmptySeq, LenProperties, ElementOfSeq
            <7> QED BY <7>1, <1>q, ElementOfSeq, Alphabet
          <6> QED BY <6>1, <4>3, <1>t, <1>q
        <5>2. UNCHANGED <<queue, state, dropped>>
          BY <2>1, <4>1
        <5> QED BY <3>1, <5>1, <5>2 DEF Counted
      <4> QED BY <4>2, <4>3
    <3>2. CASE queue \in Seq(Messages) /\ queue # <<>>
      <4>1. queue' \in Seq(Letters) /\ Len(queue') = Len(queue)
        BY <2>1, <3>2, Spoilt
      <4>2. state < 0
        <5>1. ~(state > 0)
          <6>1. queue[1] \in Messages /\ 1 \in 1..Len(queue)
            BY <3>2, EmptySeq, LenProperties, ElementOfSeq
          <6> QED BY <6>1, <1>q, ElementOfSeq, Alphabet
        <5> QED BY <5>1, <3>2, <1>t, <1>q
      <4>3. dispatcher' = "spins" /\ state' = state /\ dropped' = dropped
        BY <2>1, <3>2
      <4>4. queue' \in Seq(Queued)'
        BY <4>1, <4>3 DEF Queued
      <4>5. CASE dropped = {}
        <5>1. dropped' = {} /\ Len(queue') + state' = 0
          BY <4>1, <4>2, <4>3, <4>5, <1>q
        <5> QED BY <4>4, <5>1 DEF Counted
      <4>6. CASE dropped # {}
        <5>1. dropped' # {} /\ (dispatcher' = "serving" => Len(queue') + state' + 1 = 0)
          BY <4>3, <4>6
        <5> QED BY <4>4, <5>1 DEF Counted
      <4> QED BY <4>5, <4>6
    <3>3. state > 0 \/ state = 0 \/ state < 0
      BY <1>t
    <3>4. queue \in Seq(Users) \/ (queue \in Seq(Messages) /\ queue # <<>>)
      BY <3>3, <1>q, <1>e, Zenon
    <3> QED BY <3>1, <3>2, <3>4
  <2> QED
    BY <2>1, <2>2, NotGiving, <1>t DEF Handled
<1> QED
  BY <1>1, <1>2

LEMMA Delivering ==
  ASSUME TypeInv, dispatcher = "serving", NEW m \in Messages, HandleMessage(m)
  PROVE  Handled
<1>t. state \in Int /\ dispatcher \in {"serving", "waits", "spins"} /\ dropped \subseteq Messages
  BY DEF TypeInv, TypeOK
<1>q. /\ state > 0 => dropped = {} /\ queue \in Seq(Users) /\ Len(queue) = state
      /\ state = 0 => dropped = {} /\ queue = <<>>
      /\ state < 0 => /\ queue \in Seq(Messages)
                      /\ dropped = {} => Len(queue) + state = 0
                      /\ dropped # {} => Len(queue) + state + 1 = 0
  BY QueueHolds
<1>e. <<>> \in Seq(Users) /\ <<>> \in Seq(Messages) /\ Len(<<>>) = 0
  BY EmptySeq
<1>c. Counted
  BY DEF TypeInv
<1>1. CASE state <= 0 /\ queue' = Append(queue, m) /\ state' = state - 1
           /\ GiveNothing /\ UNCHANGED <<dispatcher, dropped>>
  <2>1. /\ queue \in Seq(Messages)
        /\ dropped = {} => Len(queue) + state = 0
        /\ dropped # {} => Len(queue) + state + 1 = 0
    <3>1. CASE state = 0
      <4>1. queue = <<>> /\ dropped = {}
        BY <3>1, <1>q
      <4> QED
        BY <4>1, <3>1, <1>e
    <3>2. CASE state < 0
      BY <3>2, <1>t, <1>q
    <3> QED
      BY <1>1, <1>t, <3>1, <3>2
  <2>2. queue' \in Seq(Messages) /\ Len(queue') = Len(queue) + 1
    BY <1>1, <2>1, AppendProperties
  <2>3. Counted'
    BY <1>1, <2>1, <2>2, <1>t DEF Counted, Queued
  <2> QED
    BY <1>1, <2>3, NotGiving, <1>t, <1>c DEF Handled
<1>2. ASSUME state > 0,
             NEW i \in FirstInLine, Give(m, queue[i]),
             queue' = SubSeq(queue, i + 1, Len(queue)), CountsAll(i),
             UNCHANGED <<dispatcher, dropped>>
      PROVE  Handled
  <2>1. dropped = {} /\ queue \in Seq(Users) /\ Len(queue) = state
    BY <1>2, <1>t, <1>q
  <2>2. i \in 1..Len(queue)
    BY <1>2, <2>1, LenProperties DEF FirstInLine, There
  <2>3. queue[i] \in Users
    BY <2>1, <2>2, ElementOfSeq
  <2>4. queue' \in Seq(Users) /\ Len(queue') = Len(queue) - i
    BY <1>2, <2>1, <2>2, Behind
  <2>5. Counted' /\ state' \in Int
    BY <1>2, <2>1, <2>2, <2>4 DEF Counted, Queued, CountsAll
  <2> QED
    BY <1>2, <2>3, <2>5, Giving, <1>t DEF Handled
<1>3. CASE state > 0 /\ queue' = SubSeq(queue, state + 1, Len(queue)) /\ state' = -1
           /\ dispatcher' = (IF state > Len(queue) THEN "waits" ELSE dispatcher)
           /\ dropped' = dropped \cup {m} /\ GiveNothing
  <2>1. queue \in Seq(Users) /\ Len(queue) = state
    BY <1>3, <1>t, <1>q
  <2>2. queue' = <<>>
    BY <1>3, <2>1, SubSeqEmpty
  <2>3. Counted'
    <3>1. queue' \in Seq(Messages) /\ Len(queue') = 0
      BY <2>2, <1>e
    <3>2. dropped' # {} /\ state' = -1
      BY <1>3
    <3> QED
      BY <3>1, <3>2 DEF Counted, Queued
  <2> QED
    BY <1>3, <2>3, NotGiving, <1>t, <1>c DEF Handled
<1> QED
  BY <1>1, <1>2, <1>3 DEF HandleMessage

-----------------------------------------------------------------------------
LEMMA Starts == Init => TypeInv
<1> SUFFICES ASSUME Init PROVE TypeInv
  OBVIOUS
<1>1. <<>> \in Seq(Item) /\ <<>> \in Seq(Users \cup Letters) /\ <<>> \in Seq(Users)
      /\ <<>> \in Seq(Messages) /\ <<>> \in Seq(Messages \cup {TimedOut}) /\ Len(<<>>) = 0
  BY EmptySeq
<1> QED
  BY <1>1 DEF Init, TypeInv, TypeOK, Counted, Queued

\* What a step of a user, or of one that sends a message, leaves to be shown.
LEMMA Outside ==
  ASSUME TypeInv, UNCHANGED <<program, queue, state, dispatcher, dropped>>,
         port' \in Seq(Item),
         user' \in [Users -> {"idle", "asking", "polling", "waiting", "ready", "dead"}],
         blind' \in [Users -> Seq(Messages \cup {TimedOut})],
         order' \in Seq(Messages), line' \in Seq(Users)
  PROVE  TypeInv'
  BY DEF TypeInv, TypeOK, Counted, Queued

LEMMA Dispatching == TypeInv /\ Dispatch => TypeInv'
<1> SUFFICES ASSUME TypeInv, Dispatch PROVE TypeInv'
  OBVIOUS
<1>1. /\ port \in Seq(Item) /\ port # <<>> /\ port' = Tail(port)
      /\ program' = program /\ dispatcher = "serving"
  BY DEF Dispatch, TypeInv, TypeOK
<1>2. Head(port) \in Item /\ port' \in Seq(Item)
  BY <1>1, HeadTailProperties
<1>3. Handled
  <2>1. CASE Head(port).type = "SP_REQUEST" /\ HandleRequest(Head(port).of)
    BY <1>2, <2>1, <1>1, Items, Requesting
  <2>2. CASE Head(port).type = "SP_CANCEL" /\ HandleCancel(Head(port).of)
    BY <1>2, <2>2, <1>1, Items, Cancelling
  <2>3. CASE Head(port).type = "message" /\ HandleMessage(Head(port).of)
    BY <1>2, <2>3, <1>1, Items, Delivering
  <2> QED
    BY <2>1, <2>2, <2>3 DEF Dispatch
<1>4. queue' \in Seq(Users \cup Letters)
  <2>1. queue' \in Seq(Users) \/ queue' \in Seq(Messages) \/ queue' \in Seq(Letters)
    BY <1>3 DEF Handled, Counted, Queued
  <2>2. Messages \subseteq Users \cup Letters /\ Users \subseteq Users \cup Letters /\ Letters \subseteq Users \cup Letters
    BY DEF Letters
  <2> QED
    BY <2>1, <2>2, Wider
<1>5. program' \in Programs
  BY <1>1 DEF TypeInv, TypeOK
<1> QED
  BY <1>2, <1>3, <1>4, <1>5 DEF Handled, TypeInv, TypeOK

\* The invariant is inductive: only the dispatcher changes what it counts.
LEMMA Preserved == TypeInv /\ [Next]_vars => TypeInv'
<1> SUFFICES ASSUME TypeInv, [Next]_vars PROVE TypeInv'
  OBVIOUS
<1>t. /\ port \in Seq(Item) /\ order \in Seq(Messages) /\ line \in Seq(Users)
      /\ user \in [Users -> {"idle", "asking", "polling", "waiting", "ready", "dead"}]
      /\ blind \in [Users -> Seq(Messages \cup {TimedOut})]
  BY DEF TypeInv, TypeOK
<1>1. ASSUME NEW u \in Users, NEW next \in {"asking", "polling"}, Ask(u, next)
      PROVE  TypeInv'
  <2>1. Append(port, Request(u)) \in Seq(Item) /\ Append(line, u) \in Seq(Users)
    BY <1>t, Sent, AppendProperties
  <2> QED
    BY <1>1, <1>t, <2>1, Outside DEF Ask
<1>2. ASSUME NEW u \in Users, Wait(u) PROVE TypeInv'
  BY <1>2, <1>t, Outside DEF Wait
<1>3. ASSUME NEW u \in Users, Take(u) PROVE TypeInv'
  <2>1. blind[u] \in Seq(Messages \cup {TimedOut}) /\ blind[u] # <<>>
    BY <1>3, <1>t DEF Take
  <2>2. Tail(blind[u]) \in Seq(Messages \cup {TimedOut})
    BY <2>1, HeadTailProperties
  <2> QED
    BY <1>3, <1>t, <2>2, Outside DEF Take
<1>4. ASSUME NEW u \in Users, TimeOut(u) PROVE TypeInv'
  <2>1. Append(blind[u], TimedOut) \in Seq(Messages \cup {TimedOut})
    BY <1>t, AppendProperties
  <2> QED
    BY <1>4, <1>t, <2>1, Outside DEF TimeOut
<1>5. ASSUME NEW u \in Users, GiveUp(u) PROVE TypeInv'
  <2>1. port' \in Seq(Item)
    BY <1>5, <1>t, Sent, AppendProperties DEF GiveUp, Cancels
  <2>2. line' \in Seq(Users)
    BY <1>5, <1>t, WithoutType DEF GiveUp
  <2>3. GivingUp(u) => Tail(blind[u]) \in Seq(Messages \cup {TimedOut})
    BY <1>t, HeadTailProperties DEF GivingUp
  <2>4. /\ user' \in [Users -> {"idle", "asking", "polling", "waiting", "ready", "dead"}]
        /\ blind' \in [Users -> Seq(Messages \cup {TimedOut})]
    BY <1>5, <1>t, <2>3 DEF GiveUp
  <2> QED
    BY <1>5, <1>t, <2>1, <2>2, <2>4, Outside DEF GiveUp
<1>6. ASSUME NEW u \in Users, Kill(u) PROVE TypeInv'
  <2>1. line' \in Seq(Users)
    BY <1>6, <1>t, WithoutType DEF Kill
  <2>2. <<>> \in Seq(Messages \cup {TimedOut})
    BY EmptySeq
  <2> QED
    BY <1>6, <1>t, <2>1, <2>2, Outside DEF Kill
<1>7. ASSUME NEW m \in Messages, Send(m) PROVE TypeInv'
  <2>1. Append(port, Message(m)) \in Seq(Item) /\ Append(order, m) \in Seq(Messages)
    BY <1>t, Sent, AppendProperties
  <2> QED
    BY <1>7, <1>t, <2>1, Outside DEF Send
<1>8. CASE UNCHANGED vars
  BY <1>8, <1>t, Outside DEF vars
<1> QED
  BY <1>1, <1>2, <1>3, <1>4, <1>5, <1>6, <1>7, <1>8, Dispatching DEF Next

LEMMA Inductive == Spec => []TypeInv
  BY Starts, Preserved, PTL DEF Spec

\* Every variable has its type, for every program: the blind port of a user
\* never holds a request, and the shared port and the queue port only what the
\* dispatcher expects there.
THEOREM TypeCorrect == Spec => []TypeOK
<1>1. TypeInv => TypeOK
  BY DEF TypeInv
<1> QED
  BY <1>1, Inductive, PTL

\* Whatever users do, killing and giving up included, the counter of the
\* dispatcher is what its queue port holds until it drops a message.
THEOREM CountExact == Spec => []CountAgrees
<1>1. TypeInv => CountAgrees
  <2> SUFFICES ASSUME TypeInv PROVE CountAgrees
    OBVIOUS
  <2>1. queue \in Seq(Queued) => queue \in Seq(Letters)
    <3>1. Queued \subseteq Letters
      BY DEF Queued, Letters
    <3> QED BY <3>1, Wider
  <2> QED
    BY <2>1 DEF TypeInv, Counted, CountAgrees
<1> QED
  BY <1>1, Inductive, PTL

\* Before a message was dropped the dispatcher finds one when it is owed one.
LEMMA Waits ==
  ASSUME TypeInv, dispatcher = "serving", dropped = {}, NEW u \in Users, HandleRequest(u)
  PROVE  dispatcher' = dispatcher
<1>1. state \in Int
  BY DEF TypeInv, TypeOK
<1>2. CASE ~NobodyIsOwed /\ queue = <<>>
  <2>1. state < 0
    BY <1>1, <1>2 DEF NobodyIsOwed
  <2>2. Len(queue) + state = 0
    BY <2>1, QueueHolds
  <2> QED
    BY <1>1, <1>2, <2>1, <2>2, EmptySeq
<1> QED
  BY <1>2 DEF HandleRequest

-----------------------------------------------------------------------------
\* x is in the sequence s at most once.
Once(s, x) == \A i, j \in DOMAIN s : s[i] = x /\ s[j] = x => i = j

LEMMA Appended ==
  ASSUME NEW S, NEW s \in Seq(S), NEW e \in S
  PROVE  /\ Range(Append(s, e)) = Range(s) \cup {e}
         /\ \A x : Once(s, x) /\ (x = e => x \notin Range(s)) => Once(Append(s, e), x)
<1>1. /\ Len(s) \in Nat /\ DOMAIN s = 1..Len(s)
      /\ DOMAIN Append(s, e) = DOMAIN s \cup {Len(s) + 1} /\ Len(s) + 1 \notin DOMAIN s
      /\ \A i \in DOMAIN s : Append(s, e)[i] = s[i]
      /\ Append(s, e)[Len(s) + 1] = e
  BY AppendProperties, LenProperties
<1>2. Range(Append(s, e)) = Range(s) \cup {e}
  BY <1>1 DEF Range
<1>3. ASSUME NEW x, Once(s, x), x = e => x \notin Range(s)
      PROVE  Once(Append(s, e), x)
  BY <1>1, <1>3 DEF Once, Range
<1> QED BY <1>2, <1>3

LEMMA Taken ==
  ASSUME NEW S, NEW s \in Seq(S), s # <<>>
  PROVE  /\ Range(s) = Range(Tail(s)) \cup {Head(s)}
         /\ Once(s, Head(s)) => Head(s) \notin Range(Tail(s))
         /\ \A x : Once(s, x) => Once(Tail(s), x)
<1>1. /\ Len(s) \in Nat \ {0} /\ DOMAIN s = 1..Len(s) /\ Head(s) = s[1]
      /\ Len(Tail(s)) = Len(s) - 1 /\ DOMAIN Tail(s) = 1..(Len(s) - 1)
      /\ \A i \in 1..Len(Tail(s)) : Tail(s)[i] = s[i + 1]
  BY HeadTailProperties, LenProperties, EmptySeq
<1>2. /\ 1 \in DOMAIN s
      /\ \A i \in DOMAIN Tail(s) : i + 1 \in DOMAIN s /\ i + 1 # 1 /\ Tail(s)[i] = s[i + 1]
      /\ \A i \in DOMAIN s : i # 1 => i - 1 \in DOMAIN Tail(s) /\ Tail(s)[i - 1] = s[i]
  BY <1>1
<1>3. Range(s) = Range(Tail(s)) \cup {Head(s)}
  <2>1. Range(Tail(s)) \subseteq Range(s) /\ Head(s) \in Range(s)
    BY <1>1, <1>2 DEF Range
  <2>2. ASSUME NEW x \in Range(s), x # Head(s) PROVE x \in Range(Tail(s))
    <3>1. PICK i \in DOMAIN s : s[i] = x
      BY DEF Range
    <3>2. i - 1 \in DOMAIN Tail(s) /\ Tail(s)[i - 1] = x
      BY <1>1, <1>2, <2>2, <3>1
    <3> QED BY <3>2 DEF Range
  <2> QED BY <2>1, <2>2
<1>4. ASSUME Once(s, Head(s)) PROVE Head(s) \notin Range(Tail(s))
  BY <1>1, <1>2, <1>4 DEF Once, Range
<1>5. ASSUME NEW x, Once(s, x) PROVE Once(Tail(s), x)
  BY <1>1, <1>2, <1>5 DEF Once
<1> QED BY <1>3, <1>4, <1>5

\* What is in the part of a sequence behind its i-th element.
LEMMA InRest ==
  ASSUME NEW S, NEW s \in Seq(S), NEW i \in 1..Len(s)
  PROVE  /\ Range(SubSeq(s, i + 1, Len(s))) = {s[j] : j \in (i + 1)..Len(s)}
         /\ \A x : Once(s, x) => Once(SubSeq(s, i + 1, Len(s)), x)
<1> DEFINE r == SubSeq(s, i + 1, Len(s))
<1>1. Len(s) \in Nat /\ i \in Nat /\ i >= 1 /\ i <= Len(s) /\ DOMAIN s = 1..Len(s)
  BY LenProperties
<1>2. r \in Seq(S) /\ Len(r) = Len(s) - i
  BY Behind
<1>3. \A j \in (i + 1)..Len(s) : s[j] \in S
  BY <1>1, ElementOfSeq
<1>4. \A j \in 1..(Len(s) - (i + 1) + 1) : r[j] = s[(i + 1) + j - 1]
  BY <1>1, <1>3, SubSeqProperties
<1>5. DOMAIN r = 1..(Len(s) - i)
  BY <1>2, LenProperties
<1> HIDE DEF r
<1>6. /\ \A j \in DOMAIN r : i + j \in (i + 1)..Len(s) /\ r[j] = s[i + j]
      /\ \A j \in (i + 1)..Len(s) : j - i \in DOMAIN r /\ r[j - i] = s[j] /\ j \in DOMAIN s
  BY <1>1, <1>4, <1>5
<1>7. Range(r) = {s[j] : j \in (i + 1)..Len(s)}
  BY <1>6 DEF Range
<1>8. ASSUME NEW x, Once(s, x) PROVE Once(r, x)
  <2>1. SUFFICES ASSUME NEW j \in DOMAIN r, NEW l \in DOMAIN r, r[j] = x, r[l] = x
                 PROVE  j = l
    BY DEF Once
  <2>2. i + j = i + l
    BY <1>6, <1>8, <2>1 DEF Once
  <2> QED BY <1>1, <1>5, <2>2
<1> QED BY <1>7, <1>8 DEF r

LEMMA InFront ==
  ASSUME NEW S, NEW s \in Seq(S), NEW i \in 1..Len(s)
  PROVE  LET r == SubSeq(s, 1, i - 1)
         IN DOMAIN r = 1..(i - 1) /\ \A j \in 1..(i - 1) : r[j] = s[j] /\ j \in DOMAIN s
<1> DEFINE r == SubSeq(s, 1, i - 1)
<1>1. Len(s) \in Nat /\ i \in Nat /\ i >= 1 /\ i <= Len(s) /\ DOMAIN s = 1..Len(s)
  BY LenProperties
<1>2. r \in Seq(S) /\ Len(r) = i - 1
  BY Before
<1>3. \A j \in 1..(i - 1) : s[j] \in S
  BY <1>1, ElementOfSeq
<1>4. \A j \in 1..((i - 1) - 1 + 1) : r[j] = s[1 + j - 1]
  BY <1>1, <1>3, SubSeqProperties
<1>5. DOMAIN r = 1..(i - 1)
  BY <1>2, LenProperties
<1> HIDE DEF r
<1>6. \A j \in 1..(i - 1) : r[j] = s[j] /\ j \in DOMAIN s
  BY <1>1, <1>4
<1> QED BY <1>5, <1>6 DEF r

\* A sequence without its i-th element, put together in order or turned round.
LEMMA Joined ==
  ASSUME NEW S, NEW s \in Seq(S), NEW i \in 1..Len(s)
  PROVE  \A r \in {SubSeq(s, 1, i - 1) \o SubSeq(s, i + 1, Len(s)), SubSeq(s, i + 1, Len(s)) \o SubSeq(s, 1, i - 1)} :
           /\ Range(r) = {s[j] : j \in DOMAIN s \ {i}}
           /\ \A x : Once(s, x) => Once(r, x)
<1>l. PICK l : l = Len(s)
  OBVIOUS
<1>n. PICK n : n = l - i
  OBVIOUS
<1>a. PICK a : a = SubSeq(s, 1, i - 1)
  OBVIOUS
<1>b. PICK b : b = SubSeq(s, i + 1, Len(s))
  OBVIOUS
<1>1. l \in Nat /\ i \in Nat /\ i >= 1 /\ i <= l /\ DOMAIN s = 1..l
  BY <1>l, LenProperties
<1>2. a \in Seq(S) /\ Len(a) = i - 1 /\ b \in Seq(S) /\ Len(b) = n
  BY <1>a, <1>b, <1>l, <1>n, Before, Behind
<1>3. \A j \in 1..(i - 1) : a[j] = s[j]
  BY <1>a, InFront
<1>4. \A j \in 1..n : b[j] = s[i + j]
  <2>1. \A j \in (i + 1)..l : s[j] \in S
    BY <1>1, <1>l, ElementOfSeq
  <2>2. \A j \in 1..(l - (i + 1) + 1) : b[j] = s[(i + 1) + j - 1]
    BY <1>1, <1>b, <1>l, <2>1, SubSeqProperties
  <2>3. l - (i + 1) + 1 = n /\ n \in Nat
    BY <1>1, <1>n
  <2>4. ASSUME NEW j \in 1..n PROVE b[j] = s[i + j]
    <3>1. (i + 1) + j - 1 = i + j
      BY <1>1, <2>3
    <3> QED BY <2>2, <2>3, <3>1
  <2> QED BY <2>4
<1>n1. n \in Nat /\ n = l - i
  BY <1>1, <1>n
\* What matters is that the positions of s but i and those of r correspond.
<1>5. ASSUME NEW r, NEW f, NEW g,
             \A j \in DOMAIN r : f[j] \in DOMAIN s \ {i} /\ r[j] = s[f[j]] /\ g[f[j]] = j,
             \A j \in DOMAIN s \ {i} : g[j] \in DOMAIN r /\ r[g[j]] = s[j]
      PROVE  /\ Range(r) = {s[j] : j \in DOMAIN s \ {i}}
             /\ \A x : Once(s, x) => Once(r, x)
  <2>1. Range(r) \subseteq {s[j] : j \in DOMAIN s \ {i}}
    BY <1>5 DEF Range
  <2>2. {s[j] : j \in DOMAIN s \ {i}} \subseteq Range(r)
    <3>1. ASSUME NEW j \in DOMAIN s \ {i} PROVE s[j] \in Range(r)
      BY <1>5, <3>1 DEF Range
    <3> QED BY <3>1
  <2>3. ASSUME NEW x, Once(s, x), NEW j \in DOMAIN r, NEW m \in DOMAIN r, r[j] = x, r[m] = x
        PROVE  j = m
    <3>1. f[j] = f[m]
      BY <1>5, <2>3 DEF Once
    <3> QED BY <1>5, <3>1
  <2> QED BY <2>1, <2>2, <2>3 DEF Once
<1>6. ASSUME NEW r, r = a \o b
      PROVE  /\ Range(r) = {s[j] : j \in DOMAIN s \ {i}}
             /\ \A x : Once(s, x) => Once(r, x)
  <2>1. /\ r \in Seq(S) /\ Len(r) = Len(a) + Len(b)
        /\ \A j \in 1..(Len(a) + Len(b)) : r[j] = IF j <= Len(a) THEN a[j] ELSE b[j - Len(a)]
    BY <1>2, <1>6, ConcatProperties
  <2>2. DOMAIN r = 1..(l - 1)
    BY <1>1, <1>2, <1>n1, <2>1, LenProperties
  <2>3. \A j \in 1..(l - 1) : r[j] = IF j <= i - 1 THEN a[j] ELSE b[j - (i - 1)]
    <3>1. Len(a) + Len(b) = l - 1
      BY <1>1, <1>2, <1>n1
    <3> QED BY <1>2, <2>1, <3>1
  <2>4. \A j \in 1..(l - 1) : r[j] = IF j < i THEN s[j] ELSE s[j + 1]
    <3>1. ASSUME NEW j \in 1..(l - 1), j < i PROVE r[j] = s[j]
      BY <1>1, <1>3, <2>3, <3>1
    <3>2. ASSUME NEW j \in 1..(l - 1), ~(j < i) PROVE r[j] = s[j + 1]
      <4>1. j - (i - 1) \in 1..n /\ i + (j - (i - 1)) = j + 1 /\ ~(j <= i - 1)
        BY <1>1, <1>n1, <3>2
      <4> QED BY <1>4, <2>3, <4>1
    <3> QED BY <3>1, <3>2
  <2> DEFINE f == [j \in 1..(l - 1) |-> IF j < i THEN j ELSE j + 1]
             g == [j \in 1..l |-> IF j < i THEN j ELSE j - 1]
  <2>5. ASSUME NEW j \in DOMAIN r
        PROVE  f[j] \in DOMAIN s \ {i} /\ r[j] = s[f[j]] /\ g[f[j]] = j
    <3>1. CASE j < i
      BY <1>1, <2>2, <2>4, <3>1
    <3>2. CASE ~(j < i)
      <4>1. f[j] = j + 1 /\ j + 1 \in 1..l /\ j + 1 # i /\ ~(j + 1 < i)
        BY <1>1, <2>2, <3>2
      <4>2. g[j + 1] = j
        BY <1>1, <2>2, <4>1
      <4> QED BY <1>1, <2>2, <2>4, <3>2, <4>1, <4>2
    <3> QED BY <3>1, <3>2
  <2>6. \A j \in DOMAIN s \ {i} : g[j] \in DOMAIN r /\ r[g[j]] = s[j]
    BY <1>1, <2>2, <2>4
  <2> HIDE DEF f, g
  <2> QED BY <1>5, <2>5, <2>6
<1>7. ASSUME NEW r, r = b \o a
      PROVE  /\ Range(r) = {s[j] : j \in DOMAIN s \ {i}}
             /\ \A x : Once(s, x) => Once(r, x)
  <2>1. /\ r \in Seq(S) /\ Len(r) = Len(b) + Len(a)
        /\ \A j \in 1..(Len(b) + Len(a)) : r[j] = IF j <= Len(b) THEN b[j] ELSE a[j - Len(b)]
    BY <1>2, <1>7, ConcatProperties
  <2>2. DOMAIN r = 1..(l - 1)
    BY <1>1, <1>2, <1>n1, <2>1, LenProperties
  <2>3. \A j \in 1..(l - 1) : r[j] = IF j <= n THEN b[j] ELSE a[j - n]
    BY <1>1, <1>2, <1>n1, <2>1
  <2>4. \A j \in 1..(l - 1) : r[j] = IF j <= n THEN s[i + j] ELSE s[j - n]
    <3>1. ASSUME NEW j \in 1..(l - 1), j <= n PROVE r[j] = s[i + j]
      BY <1>1, <1>4, <1>n1, <2>3, <3>1
    <3>2. ASSUME NEW j \in 1..(l - 1), ~(j <= n) PROVE r[j] = s[j - n]
      <4>1. j - n \in 1..(i - 1)
        BY <1>1, <1>n1, <3>2
      <4> QED BY <1>3, <2>3, <3>2, <4>1
    <3> QED BY <3>1, <3>2
  <2> DEFINE f == [j \in 1..(l - 1) |-> IF j <= n THEN i + j ELSE j - n]
             g == [j \in 1..l |-> IF j < i THEN j + n ELSE j - i]
  <2>5. \A j \in DOMAIN r : f[j] \in DOMAIN s \ {i} /\ r[j] = s[f[j]] /\ g[f[j]] = j
    BY <1>1, <1>n1, <2>2, <2>4
  <2>6. ASSUME NEW j \in DOMAIN s \ {i}
        PROVE  g[j] \in DOMAIN r /\ r[g[j]] = s[j]
    <3>1. CASE j < i
      <4>1. g[j] = j + n /\ j + n \in 1..(l - 1) /\ ~(j + n <= n) /\ (j + n) - n = j
        BY <1>1, <1>n1, <3>1
      <4> QED BY <2>2, <2>4, <4>1
    <3>2. CASE ~(j < i)
      <4>1. g[j] = j - i /\ j - i \in 1..(l - 1) /\ j - i <= n /\ i + (j - i) = j
        BY <1>1, <1>n1, <3>2
      <4> QED BY <2>2, <2>4, <4>1
    <3> QED BY <3>1, <3>2
  <2> HIDE DEF f, g
  <2> QED BY <1>5, <2>5, <2>6
<1> QED BY <1>6, <1>7, <1>a, <1>b

\* Without leaves out the one element, which was in the sequence once.
LEMMA LeftOut ==
  ASSUME NEW S, NEW s \in Seq(S), NEW x, Once(s, x)
  PROVE  /\ Range(Without(s, x)) = Range(s) \ {x}
         /\ \A y : Once(s, y) => Once(Without(s, x), y)
<1>1. CASE x \in Range(s)
  <2>1. PICK i : i = CHOOSE j \in DOMAIN s : s[j] = x
    OBVIOUS
  <2>2. i \in DOMAIN s /\ s[i] = x
    BY <1>1, <2>1 DEF Range
  <2>3. i \in 1..Len(s)
    BY <2>2, LenProperties
  <2>4. Without(s, x) = SubSeq(s, 1, i - 1) \o SubSeq(s, i + 1, Len(s))
    BY <1>1, <2>1 DEF Without
  <2>5. /\ Range(Without(s, x)) = {s[j] : j \in DOMAIN s \ {i}}
        /\ \A y : Once(s, y) => Once(Without(s, x), y)
    BY <2>3, <2>4, Joined
  <2>6. {s[j] : j \in DOMAIN s \ {i}} = Range(s) \ {x}
    BY <2>2 DEF Once, Range
  <2> QED BY <2>5, <2>6
<1>2. CASE x \notin Range(s)
  BY <1>2 DEF Without
<1> QED BY <1>1, <1>2

-----------------------------------------------------------------------------
\* Message m is on its way, in one place, or given.
KeptAt(m) ==
  /\ Once(port, Message(m)) /\ Once(queue, m) /\ Once(order, m)
  /\ m \in Range(order) <=> m \in dropped \/ Message(m) \in Range(port) \/ m \in Range(queue)
  /\ m \in Range(queue) => Message(m) \notin Range(port)
  /\ m \in dropped => Message(m) \notin Range(port) /\ m \notin Range(queue)
Kept == dispatcher # "spins" => \A m \in Messages : KeptAt(m)

\* Neither requests nor messages have been emptied while the dispatcher serves.
LEMMA QueueType ==
  ASSUME TypeInv, dispatcher = "serving"
  PROVE  queue \in Seq(Users \cup Messages)
<1>1. state \in Int
  BY DEF TypeInv, TypeOK
<1>2. /\ state > 0 => queue \in Seq(Users)
      /\ state = 0 => queue = <<>>
      /\ state < 0 => queue \in Seq(Messages)
  BY QueueHolds
<1>3. <<>> \in Seq(Users)
  BY EmptySeq
<1>4. state > 0 \/ state = 0 \/ state < 0
  BY <1>1
<1>5. queue \in Seq(Users) \/ queue \in Seq(Messages)
  BY <1>2, <1>3, <1>4, Zenon
<1> QED BY <1>5, Wider

LEMMA Names ==
  /\ \A u, v \in Users : /\ Request(u) = Request(v) => u = v
                         /\ Cancel(u) = Cancel(v) => u = v
                         /\ Request(u) # Cancel(v)
  /\ \A m, n \in Messages : Message(m) = Message(n) => m = n
  /\ \A u \in Users, m \in Messages : Request(u) # Message(m) /\ Cancel(u) # Message(m)
<1>1. \A u, v \in Users : /\ Request(u) = Request(v) => u = v
                          /\ Cancel(u) = Cancel(v) => u = v
  BY DEF Request, Cancel
<1>2. \A u \in Users : Request(u).type = "SP_REQUEST" /\ Cancel(u).type = "SP_CANCEL"
  BY DEF Request, Cancel
<1>3. \A m \in Messages : Message(m).type = "message" /\ Message(m).of = m
  BY DEF Message
<1> QED BY <1>1, <1>2, <1>3

\* The item the dispatcher takes.
LEMMA Item1 ==
  ASSUME TypeInv, Dispatch
  PROVE  LET x == Head(port) IN
         /\ port \in Seq(Item) /\ port # <<>> /\ port' = Tail(port) /\ dispatcher = "serving" /\ program' = program
         /\ Range(port) = Range(port') \cup {x}
         /\ Once(port, x) => x \notin Range(port')
         /\ \A y : Once(port, y) => Once(port', y)
         /\ \/ x.of \in Users /\ x = Request(x.of) /\ HandleRequest(x.of)
            \/ x.of \in Users /\ x = Cancel(x.of) /\ HandleCancel(x.of)
            \/ x.of \in Messages /\ x = Message(x.of) /\ HandleMessage(x.of)
<1>1. port \in Seq(Item) /\ port # <<>> /\ port' = Tail(port) /\ dispatcher = "serving" /\ program' = program
  BY DEF Dispatch, TypeInv, TypeOK
<1>2. /\ Range(port) = Range(port') \cup {Head(port)}
      /\ Once(port, Head(port)) => Head(port) \notin Range(port')
      /\ \A y : Once(port, y) => Once(port', y)
  BY <1>1, Taken
<1>x. PICK x : x = Head(port)
  OBVIOUS
<1>3. x \in Item
  BY <1>1, <1>x, HeadTailProperties
<1>4. /\ x.type = "SP_REQUEST" => x.of \in Users /\ x = Request(x.of)
      /\ x.type = "SP_CANCEL" => x.of \in Users /\ x = Cancel(x.of)
      /\ x.type = "message" => x.of \in Messages /\ x = Message(x.of)
  BY <1>3 DEF Item, Request, Cancel, Message
<1>5. \/ x.type = "SP_REQUEST" /\ HandleRequest(x.of)
      \/ x.type = "SP_CANCEL" /\ HandleCancel(x.of)
      \/ x.type = "message" /\ HandleMessage(x.of)
  BY <1>x DEF Dispatch
<1> QED BY <1>1, <1>2, <1>4, <1>5, <1>x

\* A queue of users holds no messages.
LEMMA OnlyUsers ==
  ASSUME NEW q \in Seq(Users), NEW m \in Messages
  PROVE  m \notin Range(q) /\ Once(q, m)
<1>1. \A i \in DOMAIN q : q[i] # m
  BY LenProperties, ElementOfSeq, Alphabet
<1> QED BY <1>1 DEF Range, Once

LEMMA OnlyMessages ==
  ASSUME NEW q \in Seq(Messages), NEW u \in Users
  PROVE  u \notin Range(q) /\ Once(q, u)
<1>1. \A i \in DOMAIN q : q[i] # u
  BY LenProperties, ElementOfSeq, Alphabet
<1> QED BY <1>1 DEF Range, Once

\* What is given to a user is what is left out of the order.
LEMMA Given ==
  ASSUME TypeInv, Kept, dispatcher = "serving", NEW m \in Messages, NEW u, Give(m, u)
  PROVE  Range(order') = Range(order) \ {m} /\ \A n \in Messages : Once(order', n)
<1>1. order \in Seq(Messages) /\ \A n \in Messages : Once(order, n)
  BY DEF TypeInv, TypeOK, Kept, KeptAt
<1> QED BY <1>1, LeftOut DEF Give

LEMMA KeptDispatching == TypeInv /\ Kept /\ Dispatch => Kept'
<1> SUFFICES ASSUME TypeInv, Kept, Dispatch
             PROVE  Kept'
  OBVIOUS
<1>x. PICK x : x = Head(port)
  OBVIOUS
<1>1. /\ dispatcher = "serving" /\ Range(port) = Range(port') \cup {x} /\ (Once(port, x) => x \notin Range(port'))
      /\ \A y : Once(port, y) => Once(port', y)
      /\ \/ x.of \in Users /\ x = Request(x.of) /\ HandleRequest(x.of)
         \/ x.of \in Users /\ x = Cancel(x.of) /\ HandleCancel(x.of)
         \/ x.of \in Messages /\ x = Message(x.of) /\ HandleMessage(x.of)
  BY <1>x, Item1
<1>t. /\ state \in Int /\ queue \in Seq(Users \cup Messages) /\ order \in Seq(Messages)
      /\ state > 0 => queue \in Seq(Users)
      /\ state = 0 => queue = <<>>
      /\ state < 0 => queue \in Seq(Messages)
  BY <1>1, QueueHolds, QueueType DEF TypeInv, TypeOK
<1>k. \A m \in Messages : KeptAt(m)
  BY <1>1 DEF Kept
<1>2. ASSUME NEW u \in Users, x = Request(u), HandleRequest(u)
      PROVE  Kept'
  <2>1. \A m \in Messages : /\ Message(m) \in Range(port') <=> Message(m) \in Range(port)
                            /\ Once(port', Message(m))
    BY <1>1, <1>2, <1>k, Names DEF KeptAt
  <2>s. dropped' = dropped
    BY <1>2 DEF HandleRequest, Stuck
  <2>2. CASE NobodyIsOwed /\ queue' = Append(queue, u) /\ GiveNothing
    <3>1. \A m \in Messages : /\ m \in Range(queue') <=> m \in Range(queue)
                              /\ Once(queue, m) => Once(queue', m)
      BY <1>t, <2>2, Appended, Alphabet
    <3> QED BY <1>k, <2>1, <2>2, <2>s, <3>1 DEF Kept, KeptAt, GiveNothing
  <2>3. CASE Stuck
    BY <1>k, <2>1, <2>3, <2>s DEF Kept, KeptAt, GiveNothing, Stuck
  <2>4. CASE ~NobodyIsOwed /\ queue # <<>> /\ Give(Head(queue), u) /\ queue' = Tail(queue)
    <3>1. queue \in Seq(Messages)
      BY <1>t, <2>4 DEF NobodyIsOwed
    <3>2. Head(queue) \in Messages
      BY <2>4, <3>1, HeadTailProperties
    <3>3. Once(queue, Head(queue))
      BY <1>k, <3>2 DEF KeptAt
    <3>4. /\ Range(queue) = Range(queue') \cup {Head(queue)} /\ Head(queue) \notin Range(queue')
          /\ \A m : Once(queue, m) => Once(queue', m)
      BY <2>4, <3>1, <3>3, Taken
    <3>5. Range(order') = Range(order) \ {Head(queue)} /\ \A m \in Messages : Once(order', m)
      BY <1>1, <2>4, <3>2, Given
    <3>6. ASSUME NEW m \in Messages PROVE KeptAt(m)'
      BY <1>k, <2>1, <2>s, <3>4, <3>5 DEF KeptAt
    <3> QED BY <3>6 DEF Kept
  <2>5. CASE ~NobodyIsOwed /\ queue # <<>> /\ Requeued /\ GiveNothing
    <3>1. queue \in Seq(Messages)
      BY <1>t, <2>5 DEF NobodyIsOwed
    <3>2. Head(queue) \in Messages /\ Tail(queue) \in Seq(Messages)
      BY <2>5, <3>1, HeadTailProperties
    <3>3. Once(queue, Head(queue))
      BY <1>k, <3>2 DEF KeptAt
    <3>4. /\ Range(queue) = Range(Tail(queue)) \cup {Head(queue)} /\ Head(queue) \notin Range(Tail(queue))
          /\ \A m : Once(queue, m) => Once(Tail(queue), m)
      BY <2>5, <3>1, <3>3, Taken
    <3>5. /\ Range(queue') = Range(queue)
          /\ \A m : Once(queue, m) => Once(queue', m)
      <4>1. queue' = Append(Tail(queue), Head(queue))
        BY <2>5 DEF Requeued
      <4>2. /\ Range(queue') = Range(Tail(queue)) \cup {Head(queue)}
            /\ \A m : Once(Tail(queue), m) /\ (m = Head(queue) => m \notin Range(Tail(queue))) => Once(queue', m)
        BY <3>2, <4>1, Appended
      <4> QED BY <3>4, <4>2
    <3> QED BY <1>k, <2>1, <2>5, <2>s, <3>5 DEF Kept, KeptAt, GiveNothing
  <2> QED BY <1>2, <2>2, <2>3, <2>4, <2>5 DEF HandleRequest
<1>3. ASSUME NEW u \in Users, x = Cancel(u), HandleCancel(u)
      PROVE  Kept'
  <2>1. \A m \in Messages : /\ Message(m) \in Range(port') <=> Message(m) \in Range(port)
                            /\ Once(port', Message(m))
    BY <1>1, <1>3, <1>k, Names DEF KeptAt
  <2>s. dropped' = dropped /\ GiveNothing
    BY <1>3 DEF HandleCancel
  <2>2. CASE u \in Range(queue)
    <3>1. PICK i \in 1..Len(queue) :
            /\ queue[i] = u
            /\ queue' = SubSeq(queue, i + 1, Len(queue)) \o SubSeq(queue, 1, i - 1)
      BY <1>1, <1>3, <2>2, CancelledThere
    <3>2. i \in 1..Len(queue)
      BY <3>1
    <3>3. /\ Range(queue') = {queue[j] : j \in DOMAIN queue \ {i}}
          /\ \A m : Once(queue, m) => Once(queue', m)
      BY <1>t, <3>1, <3>2, Joined
    <3>4. \A m \in Messages : m \in Range(queue') <=> m \in Range(queue)
      BY <1>t, <3>1, <3>3, LenProperties, Alphabet DEF Range
    <3> QED BY <1>k, <2>1, <2>s, <3>3, <3>4 DEF Kept, KeptAt, GiveNothing
  <2>3. CASE u \notin Range(queue)
    <3>1. CASE queue # <<>>
      BY <1>3, <2>3, <3>1 DEF HandleCancel, Kept
    <3>2. CASE queue = <<>>
      <4>1. queue' = queue
        BY <1>3, <2>3, <3>2, EmptySeq, Turned DEF HandleCancel
      <4> QED BY <1>k, <2>1, <2>s, <4>1 DEF Kept, KeptAt, GiveNothing
    <3> QED BY <3>1, <3>2
  <2> QED BY <2>2, <2>3
<1>4. ASSUME NEW n \in Messages, x = Message(n), HandleMessage(n)
      PROVE  Kept'
  <2>1. \A m \in Messages : /\ Message(m) \in Range(port') <=> Message(m) \in Range(port) /\ m # n
                            /\ Once(port', Message(m))
    BY <1>1, <1>4, <1>k, Names DEF KeptAt
  <2>n. Message(n) \in Range(port)
    BY <1>1, <1>4
  <2>2. CASE queue' = Append(queue, n) /\ GiveNothing /\ dropped' = dropped
    <3>1. n \notin Range(queue)
      BY <1>k, <2>n DEF KeptAt
    <3>2. /\ Range(queue') = Range(queue) \cup {n}
          /\ \A m \in Messages : Once(queue, m) => Once(queue', m)
      BY <1>t, <2>2, <3>1, Appended
    <3>3. ASSUME NEW m \in Messages PROVE KeptAt(m)'
      BY <1>k, <2>1, <2>2, <2>n, <3>2 DEF KeptAt, GiveNothing
    <3> QED BY <3>3 DEF Kept
  <2>3. ASSUME state > 0, NEW i \in FirstInLine, Give(n, queue[i]), dropped' = dropped,
               queue' = SubSeq(queue, i + 1, Len(queue))
        PROVE  Kept'
    <3>1. queue \in Seq(Users)
      BY <1>t, <2>3
    <3>2. i \in 1..Len(queue)
      BY <2>3, <3>1, LenProperties DEF FirstInLine, There
    <3>3. queue' \in Seq(Users)
      BY <2>3, <3>1, <3>2, Behind
    <3>4. Range(order') = Range(order) \ {n} /\ \A m \in Messages : Once(order', m)
      BY <1>1, <2>3, Given
    <3>5. ASSUME NEW m \in Messages PROVE KeptAt(m)'
      <4>1. m \notin Range(queue) /\ m \notin Range(queue') /\ Once(queue', m)
        BY <3>1, <3>3, OnlyUsers
      <4> QED BY <1>k, <2>1, <2>3, <2>n, <3>4, <4>1 DEF KeptAt
    <3> QED BY <3>5 DEF Kept
  <2>4. CASE /\ state > 0 /\ queue' = SubSeq(queue, state + 1, Len(queue))
             /\ dropped' = dropped \cup {n} /\ GiveNothing
    <3>1. queue \in Seq(Users) /\ Len(queue) = state
      BY <1>1, <2>4, QueueHolds
    <3>2. queue' = <<>>
      BY <1>t, <2>4, <3>1, SubSeqEmpty
    <3>3. queue' \in Seq(Users)
      BY <3>2, EmptySeq
    <3>5. ASSUME NEW m \in Messages PROVE KeptAt(m)'
      <4>1. m \notin Range(queue) /\ m \notin Range(queue') /\ Once(queue', m)
        BY <3>1, <3>3, OnlyUsers
      <4> QED BY <1>k, <2>1, <2>4, <2>n, <4>1 DEF KeptAt, GiveNothing
    <3> QED BY <3>5 DEF Kept
  <2> QED BY <1>4, <2>2, <2>3, <2>4 DEF HandleMessage
<1> QED BY <1>1, <1>2, <1>3, <1>4

LEMMA KeptPreserved == TypeInv /\ Kept /\ [Next]_vars => Kept'
<1> SUFFICES ASSUME TypeInv, Kept, [Next]_vars, dispatcher' # "spins"
             PROVE  Kept'
  BY DEF Kept
<1>d. dispatcher # "spins"
  BY DEF Next, vars, Dispatch, Send, Ask, Wait, Take, TimeOut, GiveUp, Kill
<1>t. port \in Seq(Item) /\ order \in Seq(Messages)
  BY DEF TypeInv, TypeOK
<1>k. \A m \in Messages : KeptAt(m)
  BY <1>d DEF Kept
\* A user puts no message on the port.
<1>u. ASSUME UNCHANGED <<queue, order, dropped>>,
             port' = port \/ \E u \in Users : port' \in {Append(port, Request(u)), Append(port, Cancel(u))}
      PROVE  Kept'
  <2>1. \A m \in Messages : /\ Message(m) \in Range(port') <=> Message(m) \in Range(port)
                            /\ Once(port', Message(m))
    <3>1. CASE port' = port
      BY <1>k, <3>1 DEF KeptAt
    <3>2. ASSUME NEW u \in Users, NEW y \in {Request(u), Cancel(u)}, port' = Append(port, y), NEW m \in Messages
          PROVE  /\ Message(m) \in Range(port') <=> Message(m) \in Range(port)
                 /\ Once(port', Message(m))
      <4>1. y \in Item /\ y # Message(m) /\ Once(port, Message(m))
        BY <1>k, <3>2, Sent, Names DEF KeptAt
      <4> QED BY <1>t, <3>2, <4>1, Appended
    <3> QED BY <1>u, <3>1, <3>2
  <2> QED BY <1>k, <1>u, <2>1 DEF Kept, KeptAt
<1>1. ASSUME NEW u \in Users, NEW next, Ask(u, next) PROVE Kept'
  BY <1>1, <1>u DEF Ask
<1>2. ASSUME NEW u \in Users, Wait(u) \/ Take(u) \/ TimeOut(u) \/ GiveUp(u) \/ Kill(u) PROVE Kept'
  BY <1>2, <1>u DEF Wait, Take, TimeOut, GiveUp, Cancels, Kill
<1>3. ASSUME NEW n \in Messages, Send(n) PROVE Kept'
  <2>1. n \notin Range(order) /\ port' = Append(port, Message(n)) /\ order' = Append(order, n)
        /\ UNCHANGED <<queue, dropped>>
    BY <1>3 DEF Send
  <2>2. n \notin dropped /\ Message(n) \notin Range(port) /\ n \notin Range(queue)
    BY <1>k, <2>1 DEF KeptAt
  <2>3. /\ Range(port') = Range(port) \cup {Message(n)} /\ Range(order') = Range(order) \cup {n}
        /\ \A x : Once(port, x) /\ (x = Message(n) => x \notin Range(port)) => Once(port', x)
        /\ \A x : Once(order, x) /\ (x = n => x \notin Range(order)) => Once(order', x)
    BY <1>t, <2>1, Sent, Appended
  <2>4. ASSUME NEW m \in Messages PROVE KeptAt(m)'
    <3>1. m # n => Message(m) # Message(n)
      BY Names
    <3> QED BY <1>k, <2>1, <2>2, <2>3, <3>1 DEF KeptAt
  <2> QED BY <2>4 DEF Kept
<1>4. CASE UNCHANGED vars
  BY <1>4, <1>u DEF vars
<1> QED BY <1>1, <1>2, <1>3, <1>4, KeptDispatching DEF Next

LEMMA KeptAlways == Spec => []Kept
<1>1. Init => Kept
  BY EmptySeq DEF Init, Kept, KeptAt, Range, Once
<1> QED BY <1>1, Inductive, KeptPreserved, PTL DEF Spec

\* Whatever the users do, and also when the dispatcher waits for ever, a message stays
\* in the shared port or the queue port, in one place and unspoilt, until it is given to
\* a user; the only one that is dropped is the one for which no user is left.  This ends
\* only when a give-up that races with its answer lets the dispatcher spin: it then
\* empties the messages of the queue port (a finding).
THEOREM NoMessageLost == Spec => [](dispatcher # "spins" => MessagesKept)
<1>1. ASSUME TypeInv, Kept, dispatcher # "spins" PROVE MessagesKept
  <2>1. \A m \in Range(order) : m \in Messages
    <3>1. order \in Seq(Messages)
      BY <1>1 DEF TypeInv, TypeOK
    <3>2. \A i \in DOMAIN order : order[i] \in Messages
      BY <3>1, LenProperties, ElementOfSeq
    <3> QED BY <3>2 DEF Range
  <2>2. dropped \subseteq Messages
    BY <1>1 DEF TypeInv, TypeOK
  <2> QED BY <1>1, <2>1, <2>2 DEF Kept, KeptAt, MessagesKept
<1> QED BY <1>1, Inductive, KeptAlways, PTL

-----------------------------------------------------------------------------
\* The programs in which a user that gives up finds its request where it was.
Calm == ~program.gives_up \/ ~program.races

\* Where the request of u is, or its cancellation, or its answer.
InPort(u) == Request(u) \in Range(port)
InQueue(u) == u \in Range(queue)
Cancelled(u) == Cancel(u) \in Range(port)
Answered(u) == blind[u] # <<>> /\ ~GivingUp(u)

Calling == {"asking", "polling", "waiting", "ready"}

\* A call has one request or one answer, besides a request that is to be cancelled;
\* a user gives up only when the port is empty.
CallOf(u) ==
  /\ Once(port, Request(u)) /\ Once(port, Cancel(u)) /\ Once(queue, u)
  /\ Len(blind[u]) <= 1
  /\ GivingUp(u) => user[u] = "ready" /\ program.gives_up /\ port = <<>>
  /\ user[u] = "polling" => program.gives_up
  /\ user[u] = "waiting" => blind[u] = <<>>
  /\ user[u] = "ready" => blind[u] # <<>>
  /\ user[u] = "idle" => blind[u] = <<>> /\ ~InPort(u) /\ (InQueue(u) <=> Cancelled(u))
  /\ user[u] \in Calling /\ Cancelled(u) => InPort(u) /\ InQueue(u) /\ ~Answered(u)
  /\ user[u] \in Calling /\ ~Cancelled(u) =>
       /\ InPort(u) \/ InQueue(u) \/ Answered(u)
       /\ ~(InPort(u) /\ InQueue(u))
       /\ Answered(u) => ~InPort(u) /\ ~InQueue(u)
  /\ user[u] = "dead" => blind[u] = <<>> /\ (Cancelled(u) \/ ~InPort(u) \/ ~InQueue(u))

\* A cancellation is the next item, and its request is found in the queue.
CancelFirst ==
  \A i \in DOMAIN port : \A u \in Users : port[i] = Cancel(u) => i = 1 /\ InQueue(u) /\ program.gives_up

Served == CancelFirst /\ \A u \in Users : CallOf(u)
Orderly == Calm => DispatcherServes /\ dispatcher # "spins" /\ (dispatcher = "serving" => Served)

\* While it looks at an item no user is giving up, and no other is cancelled.
LEMMA NoneCancelled ==
  ASSUME TypeInv, Served, Dispatch
  PROVE  /\ \A u \in Users : ~GivingUp(u) /\ ~Cancelled(u)' /\ (Cancelled(u) => Head(port) = Cancel(u))
         /\ CancelFirst'
<1>1. /\ port \in Seq(Item) /\ port # <<>> /\ port' = Tail(port)
      /\ Range(port) = Range(port') \cup {Head(port)}
  BY Item1
<1>2. /\ Len(port) \in Nat \ {0} /\ DOMAIN port = 1..Len(port)
      /\ DOMAIN port' = 1..(Len(port) - 1)
      /\ \A i \in 1..(Len(port) - 1) : port'[i] = port[i + 1]
  BY <1>1, HeadTailProperties, LenProperties, EmptySeq
<1>3. \A u \in Users : ~Cancelled(u)'
  <2>1. SUFFICES ASSUME NEW u \in Users, NEW i \in DOMAIN port', port'[i] = Cancel(u)
                 PROVE  FALSE
    BY DEF Cancelled, Range, Cancel
  <2>2. i + 1 \in DOMAIN port /\ port[i + 1] = Cancel(u) /\ i + 1 # 1
    BY <1>2, <2>1
  <2> QED BY <2>2 DEF Served, CancelFirst
<1>4. CancelFirst'
  <2>1. ASSUME NEW i \in DOMAIN port', NEW u \in Users, port'[i] = Cancel(u)
        PROVE  FALSE
    BY <1>3, <2>1 DEF Cancelled, Range, Cancel
  <2> QED BY <2>1 DEF CancelFirst, Cancel
<1>5. \A u \in Users : Cancelled(u) => Head(port) = Cancel(u)
  BY <1>1, <1>3 DEF Cancelled, Cancel
<1>6. \A u \in Users : ~GivingUp(u)
  BY <1>1 DEF Served, CallOf
<1> QED BY <1>3, <1>4, <1>5, <1>6

\* A user that is given an answer calls, and gets it.
LEMMA GivenTo ==
  ASSUME TypeInv, NEW u \in Users, CallOf(u), ~GivingUp(u), ~Cancelled(u), ~Cancelled(u)', Alive(u),
         InPort(u) \/ InQueue(u), ~InPort(u)', ~InQueue(u)',
         NEW m \in Messages, Give(m, u), program' = program,
         Once(port', Request(u)), Once(port', Cancel(u)), Once(queue', u)
  PROVE  CallOf(u)'
<1>t. /\ user \in [Users -> {"idle", "asking", "polling", "waiting", "ready", "dead"}]
      /\ blind \in [Users -> Seq(Messages \cup {TimedOut})]
  BY DEF TypeInv, TypeOK
<1>1. user[u] \in Calling /\ ~Answered(u)
  BY <1>t DEF CallOf, Calling, Alive
<1>2. blind[u] = <<>> /\ user[u] # "ready"
  BY <1>1 DEF Answered, CallOf
<1>3. blind'[u] = Append(<<>>, m) /\ user'[u] = (IF user[u] = "waiting" THEN "ready" ELSE user[u])
  BY <1>t, <1>2 DEF Give, Woken
<1>4. <<>> \in Seq(Messages)
  BY EmptySeq
<1>5. Len(blind'[u]) = 1 /\ blind'[u] \in Seq(Messages) /\ blind'[u] # <<>>
  BY <1>3, <1>4, AppendProperties, EmptySeq
<1>6. Head(blind'[u]) # TimedOut
  BY <1>5, HeadTailProperties, NamesAssumption
<1>7. ~GivingUp(u)' /\ Answered(u)'
  BY <1>5, <1>6 DEF GivingUp, Answered
<1> QED BY <1>1, <1>2, <1>3, <1>5, <1>7 DEF CallOf, Calling

\* A user that is given nothing while the dispatcher looks at an item.
LEMMA Passed ==
  ASSUME TypeInv, NEW u \in Users, CallOf(u), ~GivingUp(u), ~Cancelled(u)', program' = program,
         user'[u] = user[u], blind'[u] = blind[u],
         Once(port', Request(u)), Once(port', Cancel(u)), Once(queue', u),
         \/ ~Cancelled(u) /\ (InPort(u)' <=> InPort(u)) /\ (InQueue(u)' <=> InQueue(u))
         \/ ~Cancelled(u) /\ InPort(u) /\ ~InQueue(u) /\ ~InPort(u)' /\ InQueue(u)'
         \/ Cancelled(u) /\ InQueue(u) /\ ~InQueue(u)' /\ (InPort(u)' <=> InPort(u))
         \/ ~Alive(u) /\ ~Cancelled(u) /\ (InPort(u)' => InPort(u)) /\ (InQueue(u)' => InQueue(u))
  PROVE  CallOf(u)'
<1>1. ~GivingUp(u)' /\ (Answered(u)' <=> Answered(u))
  BY DEF GivingUp, Answered
<1> QED BY <1>1 DEF CallOf, Calling, Alive

\* A cancellation finds its request, so the dispatcher does not begin to spin.
LEMMA NeverSpins ==
  ASSUME TypeInv, Served, Dispatch
  PROVE  dispatcher' # "spins"
<1>x. PICK x : x = Head(port)
  OBVIOUS
<1>1. /\ dispatcher = "serving" /\ Range(port) = Range(port') \cup {x}
      /\ \/ x.of \in Users /\ x = Request(x.of) /\ HandleRequest(x.of)
         \/ x.of \in Users /\ x = Cancel(x.of) /\ HandleCancel(x.of)
         \/ x.of \in Messages /\ x = Message(x.of) /\ HandleMessage(x.of)
  BY <1>x, Item1
<1>2. CASE HandleRequest(x.of)
  BY <1>1, <1>2 DEF HandleRequest, Stuck
<1>3. CASE HandleMessage(x.of)
  BY <1>1, <1>3 DEF HandleMessage
<1>4. CASE x.of \in Users /\ x = Cancel(x.of) /\ HandleCancel(x.of)
  <2>1. PICK u \in Users : u = x.of
    BY <1>4
  <2>2. PICK i \in DOMAIN port : port[i] = Cancel(u)
    BY <1>1, <1>4, <2>1 DEF Range
  <2>3. u \in Range(queue)
    BY <2>1, <2>2 DEF Served, CancelFirst, InQueue
  <2> QED BY <1>1, <1>4, <2>1, <2>3 DEF HandleCancel
<1> QED BY <1>1, <1>2, <1>3, <1>4

LEMMA ServedDispatching ==
  ASSUME TypeInv, Served, Dispatch, DispatcherServes
  PROVE  DispatcherServes' /\ (dispatcher' = "serving" => Served')
<1>x. PICK x : x = Head(port)
  OBVIOUS
<1>1. /\ dispatcher = "serving" /\ program' = program /\ port \in Seq(Item)
      /\ Range(port) = Range(port') \cup {x} /\ (Once(port, x) => x \notin Range(port'))
      /\ \A y : Once(port, y) => Once(port', y)
      /\ \/ x.of \in Users /\ x = Request(x.of) /\ HandleRequest(x.of)
         \/ x.of \in Users /\ x = Cancel(x.of) /\ HandleCancel(x.of)
         \/ x.of \in Messages /\ x = Message(x.of) /\ HandleMessage(x.of)
  BY <1>x, Item1
<1>t. /\ state \in Int /\ queue \in Seq(Users \cup Messages)
      /\ state > 0 => queue \in Seq(Users) /\ Len(queue) = state
      /\ state = 0 => queue = <<>>
      /\ state < 0 => queue \in Seq(Messages)
      /\ user \in [Users -> {"idle", "asking", "polling", "waiting", "ready", "dead"}]
      /\ blind \in [Users -> Seq(Messages \cup {TimedOut})]
  BY <1>1, QueueHolds, QueueType DEF TypeInv, TypeOK
<1>c. /\ \A v \in Users : ~GivingUp(v) /\ ~Cancelled(v)' /\ (Cancelled(v) => x = Cancel(v))
      /\ CancelFirst'
  BY <1>x, NoneCancelled
<1>k. \A v \in Users : /\ CallOf(v) /\ Once(port', Request(v)) /\ Once(port', Cancel(v)) /\ Once(queue, v)
  BY <1>1 DEF Served, CallOf
<1>2. ASSUME NEW u \in Users, x = Request(u), HandleRequest(u)
      PROVE  DispatcherServes' /\ (dispatcher' = "serving" => Served')
  <2>1. /\ \A v \in Users : v # u => (InPort(v)' <=> InPort(v))
        /\ InPort(u) /\ ~InPort(u)' /\ \A v \in Users : ~Cancelled(v)
    BY <1>1, <1>2, <1>c, <1>k, Names DEF InPort, Request, CallOf
  <2>2. ~InQueue(u)
    BY <1>k, <1>t, <2>1 DEF CallOf, Calling
  <2>3. DispatcherServes'
    <3>1. dropped' = dropped
      BY <1>2 DEF HandleRequest, Stuck
    <3> QED BY <1>1, <1>2, <3>1, Waits DEF DispatcherServes
  <2>4. SUFFICES ASSUME dispatcher' = "serving", NEW v \in Users
                 PROVE  CallOf(v)'
    BY <1>c, <2>3 DEF Served, CallOf, InPort, InQueue, Cancelled, Answered, GivingUp, Request, Cancel
  <2>5. CASE NobodyIsOwed /\ queue' = Append(queue, u) /\ GiveNothing
    <3>1. /\ Range(queue') = Range(queue) \cup {u}
          /\ \A w : Once(queue, w) /\ (w = u => w \notin Range(queue)) => Once(queue', w)
      BY <1>t, <2>5, Appended
    <3>2. Once(queue', v) /\ (InQueue(v)' <=> InQueue(v) \/ v = u)
      BY <1>k, <2>2, <3>1 DEF InQueue
    <3>3. user'[v] = user[v] /\ blind'[v] = blind[v]
      BY <2>5 DEF GiveNothing
    <3> QED BY <1>1, <1>c, <1>k, <2>1, <2>2, <3>2, <3>3, Passed
  <2>6. CASE ~NobodyIsOwed /\ Stuck
    BY <2>4, <2>6 DEF Stuck
  <2>7. CASE ~NobodyIsOwed /\ queue # <<>> /\ Alive(u) /\ Give(Head(queue), u) /\ queue' = Tail(queue)
    <3>1. queue \in Seq(Messages)
      BY <1>t, <2>7 DEF NobodyIsOwed
    <3>2. Head(queue) \in Messages /\ queue' \in Seq(Messages)
      BY <2>7, <3>1, HeadTailProperties
    <3>3. ~InQueue(v) /\ ~InQueue(v)' /\ Once(queue', v)
      BY <3>1, <3>2, OnlyMessages DEF InQueue
    <3>4. CASE v = u
      BY <1>1, <1>c, <1>k, <2>1, <2>7, <3>2, <3>3, <3>4, GivenTo
    <3>5. CASE v # u
      <4>1. user'[v] = user[v] /\ blind'[v] = blind[v]
        BY <1>t, <2>7, <3>5 DEF Give
      <4> QED BY <1>1, <1>c, <1>k, <2>1, <3>3, <3>5, <4>1, Passed
    <3> QED BY <3>4, <3>5
  <2>8. CASE ~NobodyIsOwed /\ queue # <<>> /\ ~Alive(u) /\ Requeued /\ GiveNothing
    <3>1. queue \in Seq(Messages)
      BY <1>t, <2>8 DEF NobodyIsOwed
    <3>2. Head(queue) \in Messages /\ Tail(queue) \in Seq(Messages)
      BY <2>8, <3>1, HeadTailProperties
    <3>3. queue' \in Seq(Messages)
      BY <2>8, <3>2, AppendProperties DEF Requeued
    <3>4. ~InQueue(v) /\ ~InQueue(v)' /\ Once(queue', v)
      BY <3>1, <3>3, OnlyMessages DEF InQueue
    <3>5. user'[v] = user[v] /\ blind'[v] = blind[v]
      BY <2>8 DEF GiveNothing
    <3>6. \/ v # u
          \/ ~Alive(v) /\ (InPort(v)' => InPort(v))
      BY <2>1, <2>8
    <3> QED BY <1>1, <1>c, <1>k, <2>1, <3>4, <3>5, <3>6, Passed
  <2> QED BY <1>2, <2>5, <2>6, <2>7, <2>8 DEF HandleRequest
<1>3. ASSUME NEW u \in Users, x = Cancel(u), HandleCancel(u)
      PROVE  DispatcherServes' /\ (dispatcher' = "serving" => Served')
  <2>1. /\ \A v \in Users : (InPort(v)' <=> InPort(v)) /\ (v # u => ~Cancelled(v))
        /\ Cancelled(u)
    BY <1>1, <1>3, <1>c, Names DEF InPort, Request, Cancelled, Cancel
  <2>2. InQueue(u)
    <3>1. PICK i \in DOMAIN port : port[i] = Cancel(u)
      BY <2>1 DEF Cancelled, Range
    <3> QED BY <3>1 DEF Served, CancelFirst
  <2>0. u \in Range(queue)
    BY <2>2 DEF InQueue
  <2>3. PICK i \in 1..Len(queue) :
          /\ queue[i] = u
          /\ queue' = SubSeq(queue, i + 1, Len(queue)) \o SubSeq(queue, 1, i - 1)
    BY <1>1, <1>3, <2>0, CancelledThere
  <2>4. GiveNothing /\ UNCHANGED <<dispatcher, dropped>>
    BY <1>1, <1>3, <2>0, CancelledThere
  <2>5. i \in 1..Len(queue) /\ i \in DOMAIN queue
    BY <1>t, <2>3, LenProperties
  <2>6. /\ Range(queue') = {queue[j] : j \in DOMAIN queue \ {i}}
        /\ \A w : Once(queue, w) => Once(queue', w)
    BY <1>t, <2>3, <2>5, Joined
  <2>7. Range(queue') = Range(queue) \ {u}
    <3>1. \A j \in DOMAIN queue : queue[j] = u => j = i
      BY <1>k, <2>3, <2>5 DEF Once
    <3>2. {queue[j] : j \in DOMAIN queue \ {i}} = Range(queue) \ {u}
      BY <2>3, <2>5, <3>1 DEF Range
    <3> QED BY <2>6, <3>2
  <2>8. ASSUME NEW v \in Users PROVE CallOf(v)'
    <3>1. user'[v] = user[v] /\ blind'[v] = blind[v]
      BY <2>4 DEF GiveNothing
    <3>2. Once(queue', v) /\ (InQueue(v)' <=> InQueue(v) /\ v # u)
      BY <1>k, <2>6, <2>7 DEF InQueue
    <3> QED BY <1>1, <1>c, <1>k, <2>1, <2>2, <3>1, <3>2, Passed
  <2> QED BY <1>1, <1>c, <2>4, <2>8 DEF Served, DispatcherServes
<1>4. ASSUME NEW n \in Messages, x = Message(n), HandleMessage(n)
      PROVE  DispatcherServes' /\ (dispatcher' = "serving" => Served')
  <2>1. \A v \in Users : (InPort(v)' <=> InPort(v)) /\ ~Cancelled(v)
    BY <1>1, <1>4, <1>c, Names DEF InPort, Request
  <2>2. CASE state <= 0 /\ queue' = Append(queue, n) /\ GiveNothing /\ UNCHANGED <<dispatcher, dropped>>
    <3>1. /\ Range(queue') = Range(queue) \cup {n}
          /\ \A w : Once(queue, w) /\ (w = n => w \notin Range(queue)) => Once(queue', w)
      <4>1. queue' = Append(queue, n)
        BY <2>2
      <4>2. queue \in Seq(Users \cup Messages) /\ n \in Users \cup Messages
        BY <1>t
      <4> QED BY <4>1, <4>2, Appended
    <3>2. ASSUME NEW v \in Users PROVE CallOf(v)'
      <4>1. v # n /\ user'[v] = user[v] /\ blind'[v] = blind[v]
        BY <2>2, Alphabet DEF GiveNothing
      <4>2. Once(queue', v) /\ (InQueue(v)' <=> InQueue(v))
        BY <1>k, <3>1, <4>1 DEF InQueue
      <4> QED BY <1>1, <1>c, <1>k, <2>1, <4>1, <4>2, Passed
    <3> QED BY <1>1, <1>c, <2>2, <3>2 DEF Served, DispatcherServes
  <2>3. ASSUME state > 0, NEW i \in FirstInLine, Give(n, queue[i]), UNCHANGED <<dispatcher, dropped>>,
               queue' = SubSeq(queue, i + 1, Len(queue))
        PROVE  DispatcherServes' /\ (dispatcher' = "serving" => Served')
    <3>1. queue \in Seq(Users) /\ Len(queue) = state
      BY <1>t, <2>3
    <3>2. i \in 1..Len(queue) /\ DOMAIN queue = 1..Len(queue)
      BY <2>3, <3>1, LenProperties DEF FirstInLine, There
    <3>3. PICK w \in Users : w = queue[i]
      BY <3>1, <3>2, ElementOfSeq
    <3>4. Alive(w) /\ InQueue(w)
      BY <2>3, <3>2, <3>3 DEF FirstInLine, There, InQueue, Range
    <3>5. /\ Range(queue') = {queue[j] : j \in (i + 1)..Len(queue)}
          /\ \A v : Once(queue, v) => Once(queue', v)
      BY <2>3, <3>1, <3>2, InRest
    <3>6. ~InQueue(w)'
      <4>1. SUFFICES ASSUME NEW j \in (i + 1)..Len(queue), queue[j] = w
                     PROVE  FALSE
        BY <3>5 DEF InQueue
      <4>2. j \in DOMAIN queue /\ j # i
        BY <3>2, <4>1
      <4> QED BY <1>k, <3>2, <3>3, <4>1, <4>2 DEF Once
    <3>7. \A v \in Users : InQueue(v)' => InQueue(v)
      <4>1. \A j \in (i + 1)..Len(queue) : j \in DOMAIN queue
        BY <3>2
      <4> QED BY <3>5, <4>1 DEF InQueue, Range
    <3>8. ASSUME NEW v \in Users, v # w, Alive(v), InQueue(v) PROVE InQueue(v)'
      <4>1. PICK j \in DOMAIN queue : queue[j] = v
        BY <3>8 DEF InQueue, Range
      <4>2. j \in There
        BY <3>1, <3>2, <3>8, <4>1 DEF There
      <4>3. i <= j /\ i # j
        BY <2>3, <3>3, <3>8, <4>1, <4>2 DEF FirstInLine
      <4>4. j \in (i + 1)..Len(queue)
        BY <3>2, <4>3
      <4> QED BY <3>5, <4>1, <4>4 DEF InQueue
    <3>9. ASSUME NEW v \in Users PROVE CallOf(v)'
      <4>1. Once(queue', v)
        BY <1>k, <3>5
      <4>2. CASE v = w
        <5>1. ~InPort(w)
          BY <1>k, <1>t, <2>1, <3>4 DEF CallOf, Calling, Alive
        <5> QED BY <1>1, <1>c, <1>k, <2>1, <2>3, <3>3, <3>4, <3>6, <4>1, <4>2, <5>1, GivenTo
      <4>3. CASE v # w
        <5>1. user'[v] = user[v] /\ blind'[v] = blind[v]
          BY <1>t, <2>3, <3>3, <4>3 DEF Give
        <5>2. \/ InQueue(v)' <=> InQueue(v)
              \/ ~Alive(v) /\ (InQueue(v)' => InQueue(v))
          BY <3>7, <3>8, <4>3
        <5> QED BY <1>1, <1>c, <1>k, <2>1, <4>1, <5>1, <5>2, Passed
      <4> QED BY <4>2, <4>3
    <3> QED BY <1>1, <1>c, <2>3, <3>9 DEF Served, DispatcherServes
  <2>4. CASE /\ state > 0 /\ There = {} /\ queue' = SubSeq(queue, state + 1, Len(queue))
             /\ dropped' = dropped \cup {n} /\ GiveNothing
    <3>1. queue \in Seq(Users) /\ Len(queue) = state /\ DOMAIN queue = 1..Len(queue)
      BY <1>t, <2>4, LenProperties
    <3>2. queue' = <<>>
      BY <1>t, <2>4, <3>1, SubSeqEmpty
    <3>3. ASSUME NEW v \in Users PROVE CallOf(v)'
      <4>1. ~InQueue(v)' /\ Once(queue', v)
        BY <3>2, EmptySeq DEF InQueue, Range, Once
      <4>2. InQueue(v) => ~Alive(v)
        BY <2>4, <3>1 DEF InQueue, Range, There
      <4>3. user'[v] = user[v] /\ blind'[v] = blind[v]
        BY <2>4 DEF GiveNothing
      <4> QED BY <1>1, <1>c, <1>k, <2>1, <4>1, <4>2, <4>3, Passed
    <3>4. DispatcherServes'
      BY <2>4 DEF DispatcherServes
    <3> QED BY <1>c, <3>3, <3>4 DEF Served
  <2> QED BY <1>4, <2>2, <2>3, <2>4 DEF HandleMessage
<1> QED BY <1>1, <1>2, <1>3, <1>4

LEMMA OnlyOne ==
  ASSUME NEW S, NEW s \in Seq(S), s # <<>>, Len(s) <= 1
  PROVE  Tail(s) = <<>> /\ Len(Tail(s)) = 0
<1>1. PICK t : t = Tail(s)
  OBVIOUS
<1>2. t \in Seq(S) /\ Len(t) = Len(s) - 1 /\ Len(s) \in Nat \ {0}
  BY <1>1, HeadTailProperties, EmptySeq
<1>3. Len(t) = 0
  BY <1>2
<1> QED BY <1>1, <1>2, <1>3, EmptySeq

\* What a step of u leaves alone.
LEMMA Apart ==
  ASSUME TypeInv, NEW v \in Users, CallOf(v), UNCHANGED <<program, queue>>,
         user'[v] = user[v], blind'[v] = blind[v],
         InPort(v)' <=> InPort(v), Cancelled(v)' <=> Cancelled(v),
         Once(port', Request(v)), Once(port', Cancel(v)),
         port' = port \/ ~GivingUp(v)
  PROVE  CallOf(v)'
<1>1. (GivingUp(v)' <=> GivingUp(v)) /\ (Answered(v)' <=> Answered(v)) /\ (InQueue(v)' <=> InQueue(v))
  BY DEF GivingUp, Answered, InQueue
<1>2. Once(queue', v)
  BY DEF CallOf
<1> QED BY <1>1, <1>2 DEF CallOf

\* What an item put on the port changes there.
LEMMA PutThere ==
  ASSUME TypeInv, CancelFirst, NEW e \in Item, port' = Append(port, e), UNCHANGED <<program, queue>>
  PROVE  /\ \A v \in Users : /\ InPort(v)' <=> InPort(v) \/ e = Request(v)
                             /\ Cancelled(v)' <=> Cancelled(v) \/ e = Cancel(v)
         /\ \A v \in Users : Once(port, Request(v)) /\ (e = Request(v) => ~InPort(v)) => Once(port', Request(v))
         /\ \A v \in Users : Once(port, Cancel(v)) /\ (e = Cancel(v) => ~Cancelled(v)) => Once(port', Cancel(v))
         /\ (\A u \in Users : e = Cancel(u) => port = <<>> /\ InQueue(u) /\ program.gives_up) => CancelFirst'
<1>t. port \in Seq(Item)
  BY DEF TypeInv, TypeOK
<1>1. /\ Range(port') = Range(port) \cup {e}
      /\ \A x : Once(port, x) /\ (x = e => x \notin Range(port)) => Once(port', x)
  BY <1>t, Appended
<1>2. /\ DOMAIN port' = DOMAIN port \cup {Len(port) + 1}
      /\ \A i \in DOMAIN port : port'[i] = port[i]
      /\ port'[Len(port) + 1] = e
      /\ port = <<>> => Len(port) = 0
  BY <1>t, AppendProperties, LenProperties
<1>3. \A v \in Users : /\ InPort(v)' <=> InPort(v) \/ e = Request(v)
                       /\ Cancelled(v)' <=> Cancelled(v) \/ e = Cancel(v)
  BY <1>1 DEF InPort, Cancelled, Request, Cancel
<1>4. ASSUME \A u \in Users : e = Cancel(u) => port = <<>> /\ InQueue(u) /\ program.gives_up
      PROVE  CancelFirst'
  <2>1. ASSUME NEW i \in DOMAIN port', NEW u \in Users, port'[i] = Cancel(u)
        PROVE  i = 1 /\ InQueue(u) /\ program.gives_up
    <3>1. CASE i \in DOMAIN port
      BY <1>2, <2>1, <3>1 DEF CancelFirst
    <3>2. CASE i = Len(port) + 1
      BY <1>2, <1>4, <2>1, <3>2
    <3> QED BY <1>2, <3>1, <3>2
  <2> QED BY <2>1 DEF CancelFirst, InQueue, Cancel
<1> QED BY <1>1, <1>3, <1>4 DEF InPort, Cancelled

LEMMA ServedPreserved ==
  ASSUME TypeInv, Calm, Served, Next, dispatcher = "serving", ~Dispatch
  PROVE  Served'
<1>t. /\ port \in Seq(Item) /\ DOMAIN port = 1..Len(port) /\ Len(port) \in Nat
      /\ user \in [Users -> {"idle", "asking", "polling", "waiting", "ready", "dead"}]
      /\ blind \in [Users -> Seq(Messages \cup {TimedOut})]
  BY LenProperties DEF TypeInv, TypeOK
<1>k. CancelFirst /\ \A v \in Users : CallOf(v)
  BY DEF Served
<1>e. port = <<>> => \A v \in Users : ~InPort(v) /\ ~Cancelled(v)
  BY EmptySeq DEF InPort, Cancelled, Range
\* Nobody comes between a time-out and its cancellation.
<1>r. ASSUME NEW v \in Users, GivingUp(v) PROVE program.gives_up /\ ~program.races /\ user[v] = "ready"
  BY <1>k, <1>r DEF CallOf, Calm
<1>s. ASSUME UNCHANGED <<program, queue, port>>, NEW u \in Users,
             \A v \in Users \ {u} : user'[v] = user[v] /\ blind'[v] = blind[v],
             CallOf(u)'
      PROVE  Served'
  <2>1. CancelFirst'
    BY <1>k, <1>s DEF CancelFirst, InQueue, Cancel
  <2>2. ASSUME NEW v \in Users, v # u PROVE CallOf(v)'
    <3>1. /\ (InPort(v)' <=> InPort(v)) /\ (Cancelled(v)' <=> Cancelled(v))
          /\ Once(port', Request(v)) /\ Once(port', Cancel(v))
      BY <1>k, <1>s DEF InPort, Cancelled, Request, Cancel, CallOf
    <3> QED BY <1>k, <1>s, <2>2, <3>1, Apart
  <2> QED BY <1>s, <2>1, <2>2 DEF Served, CallOf, InPort, InQueue, Cancelled, Answered, GivingUp, Request, Cancel
<1>1. ASSUME NEW u \in Users, NEW next \in {"asking", "polling"}, Ask(u, next), next = "polling" => program.gives_up
      PROVE  Served'
  <2>1. /\ user[u] = "idle" /\ MayRun(u) /\ port' = Append(port, Request(u))
        /\ user' = [user EXCEPT ![u] = next] /\ UNCHANGED <<program, queue, blind>>
    BY <1>1 DEF Ask
  <2>2. \A v \in Users : ~GivingUp(v)
    BY <1>r, <2>1 DEF MayRun
  <2>3. blind[u] = <<>> /\ ~InPort(u) /\ (InQueue(u) <=> Cancelled(u))
    BY <1>k, <2>1 DEF CallOf
  <2>4. /\ \A v \in Users : /\ InPort(v)' <=> InPort(v) \/ v = u
                            /\ Cancelled(v)' <=> Cancelled(v)
                            /\ Once(port', Request(v)) /\ Once(port', Cancel(v))
        /\ CancelFirst'
    <3>1. Request(u) \in Item /\ \A v \in Users : Request(u) # Cancel(v) /\ (Request(u) = Request(v) <=> u = v)
      BY Sent, Names
    <3>2. \A v \in Users : Once(port, Request(v)) /\ Once(port, Cancel(v))
      BY <1>k DEF CallOf
    <3> QED BY <1>k, <2>1, <2>3, <3>1, <3>2, PutThere
  <2>5. ASSUME NEW v \in Users PROVE CallOf(v)'
    <3>1. CASE v # u
      BY <1>k, <1>t, <2>1, <2>2, <2>4, <3>1, Apart
    <3>2. CASE v = u
      <4>1. user'[u] = next /\ blind'[u] = blind[u]
        BY <1>t, <2>1
      <4>2. ~GivingUp(u)' /\ ~Answered(u)' /\ (InQueue(u)' <=> InQueue(u)) /\ Once(queue', u)
        BY <1>k, <2>1, <2>3 DEF GivingUp, Answered, InQueue, CallOf
      <4>3. Len(blind'[u]) <= 1
        BY <1>k, <4>1 DEF CallOf
      <4> QED BY <1>1, <2>1, <2>3, <2>4, <3>2, <4>1, <4>2, <4>3 DEF CallOf, Calling
    <3> QED BY <3>1, <3>2
  <2> QED BY <2>4, <2>5 DEF Served
<1>2. ASSUME NEW u \in Users, Wait(u) PROVE Served'
  <2>1. /\ user[u] = "asking" /\ blind[u] = <<>> /\ user' = [user EXCEPT ![u] = "waiting"]
        /\ UNCHANGED <<program, port, queue, blind>>
    BY <1>2 DEF Wait
  <2>2. user'[u] = "waiting" /\ \A v \in Users \ {u} : user'[v] = user[v] /\ blind'[v] = blind[v]
    BY <1>t, <2>1
  <2>3. CallOf(u)'
    <3>1. /\ (InPort(u)' <=> InPort(u)) /\ (Cancelled(u)' <=> Cancelled(u)) /\ (InQueue(u)' <=> InQueue(u))
          /\ ~GivingUp(u)' /\ ~Answered(u)' /\ ~Answered(u)
          /\ Once(port', Request(u)) /\ Once(port', Cancel(u)) /\ Once(queue', u)
      BY <1>k, <2>1 DEF InPort, Cancelled, InQueue, Request, Cancel, GivingUp, Answered, CallOf
    <3> QED BY <1>k, <2>1, <2>2, <3>1 DEF CallOf, Calling
  <2> QED BY <1>s, <2>1, <2>2, <2>3
<1>3. ASSUME NEW u \in Users, Take(u) PROVE Served'
  <2>1. /\ user[u] \in {"asking", "polling", "ready"} /\ Answered(u) /\ blind[u] # <<>>
        /\ user' = [user EXCEPT ![u] = "idle"] /\ blind' = [blind EXCEPT ![u] = Tail(@)]
        /\ UNCHANGED <<program, port, queue>>
    BY <1>3 DEF Take, Answered
  <2>2. user'[u] = "idle" /\ blind'[u] = Tail(blind[u]) /\ \A v \in Users \ {u} : user'[v] = user[v] /\ blind'[v] = blind[v]
    BY <1>t, <2>1
  <2>3. ~Cancelled(u) /\ ~InPort(u) /\ ~InQueue(u)
    BY <1>k, <2>1 DEF CallOf, Calling
  <2>4. blind'[u] = <<>> /\ Len(blind'[u]) = 0
    <3>1. Len(blind[u]) <= 1
      BY <1>k DEF CallOf
    <3> QED BY <1>t, <2>1, <2>2, <3>1, OnlyOne
  <2>5. CallOf(u)'
    <3>1. /\ (InPort(u)' <=> InPort(u)) /\ (Cancelled(u)' <=> Cancelled(u)) /\ (InQueue(u)' <=> InQueue(u))
          /\ ~GivingUp(u)'
          /\ Once(port', Request(u)) /\ Once(port', Cancel(u)) /\ Once(queue', u)
      BY <1>k, <2>1, <2>4 DEF InPort, Cancelled, InQueue, Request, Cancel, GivingUp, CallOf
    <3>2. user'[u] = "idle" /\ Len(blind'[u]) <= 1
      <4>1. user'[u] = "idle"
        BY <1>t, <2>1
      <4> QED BY <2>4, <4>1
    <3> QED BY <2>3, <2>4, <3>1, <3>2 DEF CallOf, Calling
  <2> QED BY <1>s, <2>1, <2>2, <2>5
<1>4. ASSUME NEW u \in Users, TimeOut(u) PROVE Served'
  <2>1. /\ program.gives_up /\ user[u] = "waiting" /\ port = <<>>
        /\ user' = [user EXCEPT ![u] = "ready"] /\ blind' = [blind EXCEPT ![u] = Append(@, TimedOut)]
        /\ UNCHANGED <<program, port, queue>>
    BY <1>4 DEF TimeOut, Calm
  <2>2. /\ user'[u] = "ready" /\ blind'[u] = Append(blind[u], TimedOut) /\ blind[u] = <<>>
        /\ \A v \in Users \ {u} : user'[v] = user[v] /\ blind'[v] = blind[v]
    BY <1>k, <1>t, <2>1 DEF CallOf
  <2>3. Len(blind'[u]) = 1 /\ blind'[u] # <<>> /\ Head(blind'[u]) = TimedOut
    BY <2>2
  <2>4. ~Cancelled(u) /\ ~InPort(u) /\ InQueue(u)
    BY <1>e, <1>k, <2>1, <2>2 DEF CallOf, Calling, Answered
  <2>5. CallOf(u)'
    <3>1. /\ (InPort(u)' <=> InPort(u)) /\ (Cancelled(u)' <=> Cancelled(u)) /\ (InQueue(u)' <=> InQueue(u))
          /\ GivingUp(u)' /\ ~Answered(u)'
          /\ Once(port', Request(u)) /\ Once(port', Cancel(u)) /\ Once(queue', u)
      BY <1>k, <2>1, <2>3 DEF InPort, Cancelled, InQueue, Request, Cancel, GivingUp, Answered, CallOf
    <3> QED BY <2>1, <2>2, <2>3, <2>4, <3>1 DEF CallOf, Calling
  <2> QED BY <1>s, <2>1, <2>2, <2>5
<1>5. ASSUME NEW u \in Users, GiveUp(u) PROVE Served'
  <2>1. /\ MayRun(u) /\ port' = Append(port, Cancel(u)) /\ user' = [user EXCEPT ![u] = "idle"]
        /\ blind' = [blind EXCEPT ![u] = IF GivingUp(u) THEN Tail(@) ELSE @] /\ UNCHANGED <<program, queue>>
        /\ \/ user[u] = "ready" /\ GivingUp(u)
           \/ user[u] = "polling" /\ blind[u] = <<>> /\ (program.races \/ port = <<>>)
    BY <1>5 DEF GiveUp, Cancels
  <2>2. program.gives_up /\ ~program.races /\ port = <<>> /\ ~Answered(u) /\ Len(blind[u]) <= 1
    BY <1>k, <2>1 DEF CallOf, Calm, Answered
  <2>3. \A v \in Users \ {u} : ~GivingUp(v)
    BY <2>1, <2>2 DEF MayRun
  <2>4. ~Cancelled(u) /\ ~InPort(u) /\ InQueue(u)
    BY <1>e, <1>k, <2>1, <2>2 DEF CallOf, Calling
  <2>5. user'[u] = "idle" /\ blind'[u] = <<>> /\ Len(blind'[u]) = 0 /\ \A v \in Users \ {u} : user'[v] = user[v] /\ blind'[v] = blind[v]
    <3>1. CASE ~GivingUp(u)
      BY <1>t, <2>1, <3>1, EmptySeq
    <3>2. CASE GivingUp(u)
      <4>1. blind[u] # <<>> /\ blind'[u] = Tail(blind[u])
        BY <1>t, <2>1, <3>2 DEF GivingUp
      <4>2. Tail(blind[u]) = <<>> /\ Len(Tail(blind[u])) = 0
        BY <1>t, <2>2, <4>1, OnlyOne
      <4> QED BY <1>t, <2>1, <4>1, <4>2
    <3> QED BY <3>1, <3>2
  <2>6. /\ \A v \in Users : /\ InPort(v)' <=> InPort(v)
                            /\ Cancelled(v)' <=> Cancelled(v) \/ v = u
                            /\ Once(port', Request(v)) /\ Once(port', Cancel(v))
        /\ CancelFirst'
    <3>1. Cancel(u) \in Item /\ \A v \in Users : Cancel(u) # Request(v) /\ (Cancel(u) = Cancel(v) <=> u = v)
      BY Sent, Names
    <3>2. \A v \in Users : Once(port, Request(v)) /\ Once(port, Cancel(v))
      BY <1>k DEF CallOf
    <3>3. \A v \in Users : Cancel(u) = Cancel(v) => port = <<>> /\ InQueue(v) /\ program.gives_up
      BY <2>2, <2>4, <3>1
    <3> QED BY <1>k, <2>1, <2>4, <3>1, <3>2, <3>3, PutThere
  <2>7. ASSUME NEW v \in Users PROVE CallOf(v)'
    <3>1. CASE v # u
      BY <1>k, <2>1, <2>3, <2>5, <2>6, <3>1, Apart
    <3>2. CASE v = u
      <4>1. ~GivingUp(u)' /\ (InQueue(u)' <=> InQueue(u)) /\ Once(queue', u)
        BY <1>k, <2>1, <2>5 DEF GivingUp, InQueue, CallOf
      <4> QED BY <2>4, <2>5, <2>6, <3>2, <4>1 DEF CallOf, Calling
    <3> QED BY <3>1, <3>2
  <2> QED BY <2>6, <2>7 DEF Served
<1>6. ASSUME NEW u \in Users, Kill(u) PROVE Served'
  <2>1. /\ Alive(u) /\ user' = [user EXCEPT ![u] = "dead"] /\ blind' = [blind EXCEPT ![u] = <<>>]
        /\ UNCHANGED <<program, port, queue>>
    BY <1>6 DEF Kill
  <2>2. user'[u] = "dead" /\ blind'[u] = <<>> /\ \A v \in Users \ {u} : user'[v] = user[v] /\ blind'[v] = blind[v]
    BY <1>t, <2>1
  <2>3. Len(blind'[u]) = 0
    BY <2>2, EmptySeq
  <2>4. CallOf(u)'
    <3>1. /\ (InPort(u)' <=> InPort(u)) /\ (Cancelled(u)' <=> Cancelled(u)) /\ (InQueue(u)' <=> InQueue(u))
          /\ ~GivingUp(u)'
          /\ Once(port', Request(u)) /\ Once(port', Cancel(u)) /\ Once(queue', u)
      BY <1>k, <2>1, <2>2 DEF InPort, Cancelled, InQueue, Request, Cancel, GivingUp, CallOf
    <3>2. Cancelled(u) \/ ~InPort(u) \/ ~InQueue(u)
      BY <1>k, <1>t DEF CallOf, Calling
    <3> QED BY <2>2, <2>3, <3>1, <3>2 DEF CallOf, Calling
  <2> QED BY <1>s, <2>1, <2>2, <2>4
<1>7. ASSUME NEW n \in Messages, Send(n) PROVE Served'
  <2>1. /\ port' = Append(port, Message(n)) /\ UNCHANGED <<program, queue, user, blind>>
        /\ program.races \/ \A v \in Users : ~GivingUp(v)
    BY <1>7 DEF Send
  <2>2. \A v \in Users : ~GivingUp(v)
    BY <1>r, <2>1
  <2>3. /\ \A v \in Users : /\ InPort(v)' <=> InPort(v)
                            /\ Cancelled(v)' <=> Cancelled(v)
                            /\ Once(port', Request(v)) /\ Once(port', Cancel(v))
        /\ CancelFirst'
    <3>1. Message(n) \in Item /\ \A v \in Users : Message(n) # Request(v) /\ Message(n) # Cancel(v)
      BY Sent, Names
    <3>2. \A v \in Users : Once(port, Request(v)) /\ Once(port, Cancel(v))
      BY <1>k DEF CallOf
    <3> QED BY <1>k, <2>1, <3>1, <3>2, PutThere
  <2>4. ASSUME NEW v \in Users PROVE CallOf(v)'
    BY <1>k, <2>1, <2>2, <2>3, Apart
  <2> QED BY <2>3, <2>4 DEF Served
<1> QED BY <1>1, <1>2, <1>3, <1>4, <1>5, <1>6, <1>7 DEF Next

\* A program stays what it is, and so does a dispatcher that is stuck.
LEMMA Lasting ==
  ASSUME [Next]_vars
  PROVE  /\ program' = program
         /\ dispatcher # "serving" => UNCHANGED <<dispatcher, dropped>>
         /\ ~Dispatch => UNCHANGED <<dispatcher, dropped>>
<1>1. ASSUME NEW u \in Users, NEW next, Ask(u, next) PROVE UNCHANGED <<program, dispatcher, dropped>>
  BY <1>1 DEF Ask
<1>2. ASSUME NEW u \in Users, Wait(u) \/ Take(u) \/ TimeOut(u) \/ GiveUp(u) \/ Kill(u)
      PROVE  UNCHANGED <<program, dispatcher, dropped>>
  BY <1>2 DEF Wait, Take, TimeOut, GiveUp, Kill
<1>3. ASSUME NEW m \in Messages, Send(m) PROVE UNCHANGED <<program, dispatcher, dropped>>
  BY <1>3 DEF Send
<1>4. Dispatch => program' = program /\ dispatcher = "serving"
  BY DEF Dispatch
<1> QED BY <1>1, <1>2, <1>3, <1>4 DEF Next, vars

LEMMA OrderlyPreserved == TypeInv /\ Orderly /\ [Next]_vars => Orderly'
<1> SUFFICES ASSUME TypeInv, Orderly, [Next]_vars
             PROVE  Orderly'
  OBVIOUS
<1>1. /\ program' = program
      /\ dispatcher # "serving" => UNCHANGED <<dispatcher, dropped>>
      /\ ~Dispatch => UNCHANGED <<dispatcher, dropped>>
  BY Lasting
<1>2. SUFFICES ASSUME Calm, DispatcherServes, dispatcher # "spins", dispatcher = "serving" => Served
               PROVE  DispatcherServes' /\ dispatcher' # "spins" /\ (dispatcher' = "serving" => Served')
  BY <1>1 DEF Orderly, Calm
<1>3. CASE Dispatch
  <2>1. dispatcher = "serving"
    BY <1>3 DEF Dispatch
  <2> QED BY <1>2, <1>3, <2>1, ServedDispatching, NeverSpins
<1>4. CASE ~Dispatch
  <2>1. DispatcherServes'
    BY <1>1, <1>2, <1>4 DEF DispatcherServes
  <2>2. ASSUME dispatcher' = "serving" PROVE Served'
    <3>1. dispatcher = "serving" /\ Served
      BY <1>1, <1>2, <1>4, <2>2
    <3>2. CASE Next
      BY <1>2, <1>4, <3>1, <3>2, ServedPreserved
    <3>3. CASE UNCHANGED vars
      BY <3>1, <3>3 DEF vars, Served, CancelFirst, CallOf, InPort, InQueue, Cancelled, Answered, GivingUp, Request, Cancel
    <3> QED BY <3>2, <3>3
  <2> QED BY <1>1, <1>2, <1>4, <2>1, <2>2
<1> QED BY <1>3, <1>4

LEMMA OrderlyAlways == Spec => []Orderly
<1>1. ASSUME Init PROVE Orderly
  <2>1. DispatcherServes /\ CancelFirst /\ dispatcher # "spins"
    BY <1>1, EmptySeq DEF Init, DispatcherServes, CancelFirst
  <2>2. ASSUME NEW u \in Users PROVE CallOf(u)
    BY <1>1, EmptySeq DEF Init, CallOf, Calling, Once, InPort, InQueue, Cancelled, Answered, GivingUp, Range
  <2> QED BY <2>1, <2>2 DEF Orderly, Served
<1> QED BY <1>1, Inductive, OrderlyPreserved, PTL DEF Spec

\* The number of positions that hold x.
LEMMA Counts ==
  ASSUME NEW S, NEW s \in Seq(S), NEW x, Once(s, x)
  PROVE  Cardinality({i \in DOMAIN s : s[i] = x}) = IF x \in Range(s) THEN 1 ELSE 0
<1> DEFINE P == {i \in DOMAIN s : s[i] = x}
<1>1. CASE x \in Range(s)
  <2>1. PICK i \in DOMAIN s : s[i] = x
    BY <1>1 DEF Range
  <2>2. P = {i}
    BY <2>1 DEF Once
  <2> QED BY <1>1, <2>2, FS_Singleton
<1>2. CASE x \notin Range(s)
  <2>1. P = {}
    BY <1>2 DEF Range
  <2> QED BY <1>2, <2>1, FS_EmptySet
<1> QED BY <1>1, <1>2

LEMMA CountsAnswers ==
  ASSUME TypeInv, NEW u \in Users, Len(blind[u]) <= 1
  PROVE  Answers(u) = IF Answered(u) THEN 1 ELSE 0
<1> DEFINE P == {i \in DOMAIN blind[u] : blind[u][i] \in Messages}
<1>1. /\ blind[u] \in Seq(Messages \cup {TimedOut}) /\ DOMAIN blind[u] = 1..Len(blind[u]) /\ Len(blind[u]) \in Nat
      /\ blind[u] # <<>> => Len(blind[u]) # 0
      /\ Len(blind[u]) = 0 => blind[u] = <<>>
  BY LenProperties, EmptySeq DEF TypeInv, TypeOK
<1>2. CASE blind[u] = <<>>
  <2>1. P = {}
    BY <1>1, <1>2
  <2> QED BY <1>2, <2>1, FS_EmptySet DEF Answers, Answered
<1>3. CASE blind[u] # <<>>
  <2>1. DOMAIN blind[u] = {1} /\ blind[u][1] = Head(blind[u]) /\ Head(blind[u]) \in Messages \cup {TimedOut}
    BY <1>1, <1>3, HeadTailProperties
  <2>2. CASE GivingUp(u)
    <3>1. P = {}
      BY <2>1, <2>2, NamesAssumption DEF GivingUp
    <3> QED BY <2>2, <3>1, FS_EmptySet DEF Answers, Answered
  <2>3. CASE ~GivingUp(u)
    <3>1. P = {1}
      BY <1>3, <2>1, <2>3 DEF GivingUp
    <3> QED BY <1>3, <2>3, <3>1, FS_Singleton DEF Answers, Answered
  <2> QED BY <2>2, <2>3
<1> QED BY <1>2, <1>3

\* Whether users wait for ever, are killed at any moment or give up (but for give-ups
\* that race with an answer), a call to ps_receive_shared has exactly one request or
\* one answer under way and leaves nothing behind but what its cancellation finds;
\* and the dispatcher is never stuck before it drops a message.
THEOREM EveryCallAnswered == Spec => [](Calm => OneAnswerPerRequest /\ DispatcherServes)
<1>1. ASSUME TypeInv, Orderly, Calm
      PROVE  OneAnswerPerRequest /\ DispatcherServes
  <2>1. SUFFICES ASSUME dispatcher = "serving", NEW u \in Users
                 PROVE  /\ user[u] = "idle" =>
                             /\ blind[u] = <<>>
                             /\ Asking(u) = Cardinality({i \in DOMAIN port : port[i] = Cancel(u)})
                        /\ user[u] \in Calling =>
                             Asking(u) + Answers(u) = 1 + Cardinality({i \in DOMAIN port : port[i] = Cancel(u)})
    BY <1>1 DEF Orderly, OneAnswerPerRequest, Calling
  <2>2. CallOf(u)
    BY <1>1, <2>1 DEF Orderly, Served
  <2>3. port \in Seq(Item) /\ queue \in Seq(Users \cup Messages)
    BY <1>1, <2>1, QueueType DEF TypeInv, TypeOK
  <2>4. Once(port, Request(u)) /\ Once(port, Cancel(u)) /\ Once(queue, u)
    BY <2>2 DEF CallOf
  <2>5. /\ Cardinality({i \in DOMAIN port : port[i] = Request(u)}) = IF InPort(u) THEN 1 ELSE 0
        /\ Cardinality({i \in DOMAIN port : port[i] = Cancel(u)}) = IF Cancelled(u) THEN 1 ELSE 0
        /\ Cardinality({i \in DOMAIN queue : queue[i] = u}) = IF InQueue(u) THEN 1 ELSE 0
    BY <2>3, <2>4, Counts DEF InPort, Cancelled, InQueue
  <2>6. Answers(u) = IF Answered(u) THEN 1 ELSE 0
    BY <1>1, <2>2, CountsAnswers DEF CallOf
  <2>7. Asking(u) = (IF InPort(u) THEN 1 ELSE 0) + (IF InQueue(u) THEN 1 ELSE 0)
    BY <2>5 DEF Asking
  <2> QED BY <2>2, <2>5, <2>6, <2>7 DEF CallOf
<1> QED BY <1>1, Inductive, OrderlyAlways, PTL

\* So nothing is lost between the users and the dispatcher.
THEOREM NothingIsLost == Spec => [](Calm => NothingLost)
<1>1. Orderly => (Calm => dispatcher # "spins")
  BY DEF Orderly
<1>2. /\ Calm => OneAnswerPerRequest /\ DispatcherServes
      /\ Calm => dispatcher # "spins"
      /\ dispatcher # "spins" => MessagesKept
      => (Calm => NothingLost)
  BY DEF NothingLost
<1> QED BY <1>1, <1>2, OrderlyAlways, EveryCallAnswered, NoMessageLost, PTL

\* Without giving up the dispatcher never gets stuck, killed users or not: it
\* finds a message in its queue port whenever its counter says there is one.
THEOREM PatientServed == Spec => [](~program.gives_up => DispatcherServes)
<1>1. ~program.gives_up => Calm
  BY DEF Calm
<1> QED BY <1>1, EveryCallAnswered, PTL

-----------------------------------------------------------------------------
\* The order in which things are given.  What waits, in the queue q or, marked by f,
\* in the port p, is ahead of what comes after it there; the queue is ahead of the port.
Ahead(f, q, p, x, y) ==
  \/ x \in Range(q) /\ f[y] \in Range(p)
  \/ \E i, j \in DOMAIN q : i < j /\ q[i] = x /\ q[j] = y
  \/ \E i, j \in DOMAIN p : i < j /\ p[i] = f[x] /\ p[j] = f[y]

\* The history o lists what waits in this order.
Ordered(o, f, q, p) == \A i, j \in DOMAIN o : i < j => Ahead(f, q, p, o[i], o[j])

\* What nothing is ahead of is the first of the history.
LEMMA First ==
  ASSUME NEW S, NEW o \in Seq(S), NEW f, NEW q, NEW p, Ordered(o, f, q, p),
         NEW x \in Range(o), Once(o, x), \A y \in Range(o) : ~Ahead(f, q, p, y, x)
  PROVE  Without(o, x) = Tail(o) /\ o # <<>> /\ Head(o) = x
<1>1. PICK i : i = CHOOSE j \in DOMAIN o : o[j] = x
  OBVIOUS
<1>2. i \in DOMAIN o /\ o[i] = x
  BY <1>1 DEF Range
<1>3. DOMAIN o = 1..Len(o) /\ Len(o) \in Nat
  BY LenProperties
<1>4. i = 1
  <2>1. 1 \in DOMAIN o /\ o[1] \in Range(o)
    BY <1>2, <1>3 DEF Range
  <2>2. ASSUME 1 < i PROVE FALSE
    BY <1>2, <2>1, <2>2 DEF Ordered
  <2> QED BY <1>2, <1>3, <2>2
<1>5. Without(o, x) = SubSeq(o, 1, i - 1) \o SubSeq(o, i + 1, Len(o))
  BY <1>1 DEF Without
<1>6. SubSeq(o, 1, i - 1) = <<>>
  BY <1>4, SubSeqEmpty
<1>7. o # <<>>
  BY <1>2, <1>3, EmptySeq
<1>8. SubSeq(o, i + 1, Len(o)) = Tail(o) /\ Tail(o) \in Seq(S) /\ Head(o) = o[1]
  BY <1>4, <1>7, TailIsSubSeq, HeadTailProperties
<1> QED BY <1>2, <1>4, <1>5, <1>6, <1>7, <1>8, ConcatEmptySeq

\* A step that keeps what is ahead of what keeps the order, also when the first goes.
LEMMA StaysOrdered ==
  ASSUME NEW S, NEW o \in Seq(S), NEW f, NEW q, NEW p, Ordered(o, f, q, p), NEW t, NEW r,
         NEW o2, o2 = o \/ (o # <<>> /\ o2 = Tail(o)),
         \A x, y \in Range(o2) : Ahead(f, q, p, x, y) => Ahead(f, t, r, x, y)
  PROVE  Ordered(o2, f, t, r)
<1>1. CASE o2 = o
  BY <1>1 DEF Ordered, Range
<1>2. CASE o # <<>> /\ o2 = Tail(o)
  <2>1. /\ DOMAIN o = 1..Len(o) /\ Len(o) \in Nat /\ DOMAIN o2 = 1..(Len(o) - 1)
        /\ \A i \in 1..(Len(o) - 1) : o2[i] = o[i + 1]
    BY <1>2, LenProperties, HeadTailProperties
  <2>2. SUFFICES ASSUME NEW i \in DOMAIN o2, NEW j \in DOMAIN o2, i < j
                 PROVE  Ahead(f, t, r, o2[i], o2[j])
    BY DEF Ordered
  <2>3. i + 1 \in DOMAIN o /\ j + 1 \in DOMAIN o /\ i + 1 < j + 1 /\ o2[i] = o[i + 1] /\ o2[j] = o[j + 1]
    BY <2>1, <2>2
  <2>4. Ahead(f, q, p, o2[i], o2[j])
    BY <2>3 DEF Ordered
  <2> QED BY <2>4 DEF Range
<1> QED BY <1>1, <1>2

LEMMA JoinsTheLine ==
  ASSUME NEW S, NEW o \in Seq(S), NEW f, NEW t, NEW r, Ordered(o, f, t, r), NEW x \in S,
         \A y \in Range(o) : Ahead(f, t, r, y, x)
  PROVE  Ordered(Append(o, x), f, t, r)
<1>1. /\ DOMAIN Append(o, x) = DOMAIN o \cup {Len(o) + 1} /\ DOMAIN o = 1..Len(o) /\ Len(o) \in Nat
      /\ \A i \in DOMAIN o : Append(o, x)[i] = o[i]
      /\ Append(o, x)[Len(o) + 1] = x
  BY AppendProperties, LenProperties
<1>2. SUFFICES ASSUME NEW i \in DOMAIN Append(o, x), NEW j \in DOMAIN Append(o, x), i < j
               PROVE  Ahead(f, t, r, Append(o, x)[i], Append(o, x)[j])
  BY DEF Ordered
<1>3. i \in DOMAIN o
  BY <1>1, <1>2
<1>4. CASE j \in DOMAIN o
  BY <1>1, <1>2, <1>3, <1>4 DEF Ordered
<1>5. CASE j = Len(o) + 1
  BY <1>1, <1>3, <1>5 DEF Range
<1> QED BY <1>1, <1>4, <1>5

\* An item put on the port is behind everything.
LEMMA BehindAll ==
  ASSUME NEW S, NEW p \in Seq(S), NEW e \in S, NEW f, NEW q
  PROVE  /\ \A x, y : Ahead(f, q, p, x, y) => Ahead(f, q, Append(p, e), x, y)
         /\ \A x, y : (x \in Range(q) \/ f[x] \in Range(p)) /\ f[y] = e => Ahead(f, q, Append(p, e), x, y)
<1>1. /\ DOMAIN Append(p, e) = DOMAIN p \cup {Len(p) + 1} /\ DOMAIN p = 1..Len(p) /\ Len(p) \in Nat
      /\ \A i \in DOMAIN p : Append(p, e)[i] = p[i]
      /\ Append(p, e)[Len(p) + 1] = e
      /\ Range(Append(p, e)) = Range(p) \cup {e}
  BY AppendProperties, LenProperties, Appended
<1>2. PICK r : r = Append(p, e)
  OBVIOUS
<1>3. ASSUME NEW x, NEW y, Ahead(f, q, p, x, y) PROVE Ahead(f, q, r, x, y)
  BY <1>1, <1>2, <1>3 DEF Ahead
<1>4. ASSUME NEW x, NEW y, x \in Range(q) \/ f[x] \in Range(p), f[y] = e PROVE Ahead(f, q, r, x, y)
  <2>1. CASE x \in Range(q)
    BY <1>1, <1>2, <1>4, <2>1 DEF Ahead
  <2>2. CASE f[x] \in Range(p)
    <3>1. PICK i \in DOMAIN p : p[i] = f[x]
      BY <2>2 DEF Range
    <3>2. i \in DOMAIN r /\ Len(p) + 1 \in DOMAIN r /\ i < Len(p) + 1 /\ r[i] = f[x] /\ r[Len(p) + 1] = f[y]
      BY <1>1, <1>2, <1>4, <3>1
    <3> QED BY <3>2 DEF Ahead
  <2> QED BY <1>4, <2>1, <2>2
<1> QED BY <1>2, <1>3, <1>4

\* The first item of the port is taken: one of no interest here, or one that goes
\* to the queue.
LEMMA PortMoves ==
  ASSUME NEW S, NEW p \in Seq(S), p # <<>>, NEW f, NEW q, NEW x, NEW y
  PROVE  /\ Ahead(f, q, p, x, y) /\ Head(p) \notin {f[x], f[y]} => Ahead(f, q, Tail(p), x, y)
         /\ Ahead(f, q, p, x, y) /\ x \notin Range(q) /\ Head(p) \notin {f[x], f[y]} =>
              \A t : Ahead(f, t, Tail(p), x, y)
<1>1. /\ Len(p) \in Nat \ {0} /\ DOMAIN p = 1..Len(p) /\ Head(p) = p[1]
      /\ DOMAIN Tail(p) = 1..(Len(p) - 1)
      /\ \A i \in 1..(Len(p) - 1) : Tail(p)[i] = p[i + 1]
      /\ Range(p) = Range(Tail(p)) \cup {Head(p)}
  BY HeadTailProperties, LenProperties, EmptySeq, Taken
<1>2. PICK r : r = Tail(p)
  OBVIOUS
<1>3. ASSUME Head(p) \notin {f[x], f[y]}, NEW i \in DOMAIN p, NEW j \in DOMAIN p, i < j, p[i] = f[x], p[j] = f[y]
      PROVE  \A t : Ahead(f, t, r, x, y)
  <2>1. /\ i - 1 \in DOMAIN r /\ j - 1 \in DOMAIN r /\ i - 1 < j - 1
        /\ r[i - 1] = p[i] /\ r[j - 1] = p[j]
    BY <1>1, <1>2, <1>3
  <2> QED BY <1>3, <2>1 DEF Ahead
<1>4. ASSUME Ahead(f, q, p, x, y), Head(p) \notin {f[x], f[y]}
      PROVE  /\ Ahead(f, q, r, x, y)
             /\ x \notin Range(q) => \A t : Ahead(f, t, r, x, y)
  <2>1. CASE x \in Range(q) /\ f[y] \in Range(p)
    BY <1>1, <1>2, <1>4, <2>1 DEF Ahead
  <2>2. CASE \E i, j \in DOMAIN q : i < j /\ q[i] = x /\ q[j] = y
    BY <2>2 DEF Ahead, Range
  <2>3. CASE \E i, j \in DOMAIN p : i < j /\ p[i] = f[x] /\ p[j] = f[y]
    BY <1>3, <1>4, <2>3
  <2> QED BY <1>4, <2>1, <2>2, <2>3 DEF Ahead
<1> QED BY <1>2, <1>4

LEMMA QueueGrows ==
  ASSUME NEW S, NEW q \in Seq(S), NEW e \in S, NEW f, NEW r, NEW x, NEW y, Ahead(f, q, r, x, y)
  PROVE  Ahead(f, Append(q, e), r, x, y)
<1>1. /\ DOMAIN Append(q, e) = DOMAIN q \cup {Len(q) + 1}
      /\ \A i \in DOMAIN q : Append(q, e)[i] = q[i]
      /\ Range(Append(q, e)) = Range(q) \cup {e}
  BY AppendProperties, LenProperties, Appended
<1>2. PICK t : t = Append(q, e)
  OBVIOUS
<1>3. Ahead(f, t, r, x, y)
  BY <1>1, <1>2 DEF Ahead
<1> QED BY <1>2, <1>3

LEMMA QueueTurnsUp ==
  ASSUME NEW S, NEW q \in Seq(S), q # <<>>, NEW f, NEW r, NEW x, NEW y, Ahead(f, q, r, x, y), Head(q) \notin {x, y}
  PROVE  Ahead(f, Tail(q), r, x, y)
<1>1. /\ Len(q) \in Nat \ {0} /\ DOMAIN q = 1..Len(q) /\ Head(q) = q[1]
      /\ DOMAIN Tail(q) = 1..(Len(q) - 1)
      /\ \A i \in 1..(Len(q) - 1) : Tail(q)[i] = q[i + 1]
      /\ Range(q) = Range(Tail(q)) \cup {Head(q)}
  BY HeadTailProperties, LenProperties, EmptySeq, Taken
<1>2. PICK t : t = Tail(q)
  OBVIOUS
<1>3. CASE \E i, j \in DOMAIN q : i < j /\ q[i] = x /\ q[j] = y
  <2>1. PICK i \in DOMAIN q, j \in DOMAIN q : i < j /\ q[i] = x /\ q[j] = y
    BY <1>3
  <2>2. /\ i - 1 \in DOMAIN t /\ j - 1 \in DOMAIN t /\ i - 1 < j - 1
        /\ t[i - 1] = q[i] /\ t[j - 1] = q[j]
    BY <1>1, <1>2, <2>1
  <2> QED BY <1>2, <2>1, <2>2 DEF Ahead
<1>4. CASE ~\E i, j \in DOMAIN q : i < j /\ q[i] = x /\ q[j] = y
  BY <1>1, <1>2, <1>4 DEF Ahead
<1> QED BY <1>3, <1>4

\* The first item of the port goes to the end of the queue.
LEMMA Handed ==
  ASSUME NEW S, NEW q \in Seq(S), NEW T, NEW p \in Seq(T), p # <<>>, NEW f,
         NEW e \in S, Head(p) = f[e], NEW x, NEW y, Ahead(f, q, p, x, y),
         x # e => f[x] # f[e], y # e => f[y] # f[e], f[e] \notin Range(Tail(p))
  PROVE  Ahead(f, Append(q, e), Tail(p), x, y)
<1>1. /\ DOMAIN Append(q, e) = DOMAIN q \cup {Len(q) + 1} /\ DOMAIN q = 1..Len(q) /\ Len(q) \in Nat
      /\ \A i \in DOMAIN q : Append(q, e)[i] = q[i]
      /\ Append(q, e)[Len(q) + 1] = e
      /\ Range(Append(q, e)) = Range(q) \cup {e}
  BY AppendProperties, LenProperties, Appended
<1>2. /\ Len(p) \in Nat \ {0} /\ DOMAIN p = 1..Len(p) /\ Head(p) = p[1]
      /\ DOMAIN Tail(p) = 1..(Len(p) - 1)
      /\ \A i \in 1..(Len(p) - 1) : Tail(p)[i] = p[i + 1]
      /\ Range(p) = Range(Tail(p)) \cup {Head(p)}
  BY HeadTailProperties, LenProperties, EmptySeq, Taken
<1>3. PICK t : t = Append(q, e)
  OBVIOUS
<1>4. PICK r : r = Tail(p)
  OBVIOUS
<1>5. CASE Head(p) \notin {f[x], f[y]}
  BY <1>5, PortMoves, QueueGrows
<1>6. CASE x = e
  <2>2. ASSUME f[y] \in Range(r) PROVE Ahead(f, t, r, x, y)
    BY <1>1, <1>3, <1>6, <2>2 DEF Ahead
  <2>3. CASE \E i, j \in DOMAIN q : i < j /\ q[i] = x /\ q[j] = y
    BY <1>1, <1>3, <2>3 DEF Ahead
  <2>4. CASE \E i, j \in DOMAIN p : i < j /\ p[i] = f[x] /\ p[j] = f[y]
    <3>1. PICK i \in DOMAIN p, j \in DOMAIN p : i < j /\ p[i] = f[x] /\ p[j] = f[y]
      BY <2>4
    <3>2. j - 1 \in DOMAIN r /\ r[j - 1] = f[y]
      BY <1>2, <1>4, <3>1
    <3> QED BY <1>3, <1>4, <2>2, <3>2 DEF Range
  <2>5. CASE x \in Range(q) /\ f[y] \in Range(p)
    <3>1. CASE y = e
      <4>1. PICK i \in DOMAIN q : q[i] = x
        BY <2>5 DEF Range
      <4>2. i \in DOMAIN t /\ Len(q) + 1 \in DOMAIN t /\ i < Len(q) + 1 /\ t[i] = x /\ t[Len(q) + 1] = y
        BY <1>1, <1>3, <3>1, <4>1
      <4> QED BY <1>3, <4>2 DEF Ahead
    <3>2. CASE y # e
      BY <1>2, <1>3, <1>4, <2>2, <2>5, <3>2
    <3> QED BY <3>1, <3>2
  <2> QED BY <1>3, <1>4, <2>3, <2>4, <2>5 DEF Ahead
<1>7. CASE x # e /\ y = e
  <2>1. CASE x \in Range(q)
    <3>1. PICK i \in DOMAIN q : q[i] = x
      BY <2>1 DEF Range
    <3>2. i \in DOMAIN t /\ Len(q) + 1 \in DOMAIN t /\ i < Len(q) + 1 /\ t[i] = x /\ t[Len(q) + 1] = y
      BY <1>1, <1>3, <1>7, <3>1
    <3> QED BY <1>3, <3>2 DEF Ahead
  <2>2. CASE \E i, j \in DOMAIN p : i < j /\ p[i] = f[x] /\ p[j] = f[y]
    <3>1. PICK i \in DOMAIN p, j \in DOMAIN p : i < j /\ p[i] = f[x] /\ p[j] = f[y]
      BY <2>2
    <3>2. j - 1 \in DOMAIN r /\ r[j - 1] = f[e]
      BY <1>2, <1>4, <1>7, <3>1
    <3> QED BY <1>4, <3>2 DEF Range
  <2> QED BY <2>1, <2>2 DEF Ahead, Range
<1> QED BY <1>5, <1>6, <1>7

\* Nothing is ahead of the head of the queue, nor of the head of the port where the
\* queue holds none of its kind.
LEMMA QueueFirst ==
  ASSUME NEW S, NEW q \in Seq(S), q # <<>>, Once(q, Head(q)), NEW T, NEW p \in Seq(T), NEW f, f[Head(q)] \notin Range(p)
  PROVE  \A y : ~Ahead(f, q, p, y, Head(q))
<1>1. Len(q) \in Nat \ {0} /\ DOMAIN q = 1..Len(q) /\ Head(q) = q[1]
  BY HeadTailProperties, LenProperties, EmptySeq
<1>2. \A j \in DOMAIN q : q[j] = Head(q) => j = 1
  BY <1>1 DEF Once
<1> QED BY <1>1, <1>2 DEF Ahead, Range

LEMMA PortFirst ==
  ASSUME NEW T, NEW p \in Seq(T), p # <<>>, Once(p, Head(p)), NEW q, NEW f, NEW x, f[x] = Head(p), x \notin Range(q)
  PROVE  \A y : y \notin Range(q) => ~Ahead(f, q, p, y, x)
<1>1. Len(p) \in Nat \ {0} /\ DOMAIN p = 1..Len(p) /\ Head(p) = p[1]
  BY HeadTailProperties, LenProperties, EmptySeq
<1>2. \A j \in DOMAIN p : p[j] = Head(p) => j = 1
  BY <1>1 DEF Once
<1> QED BY <1>1, <1>2 DEF Ahead, Range

\* What the dispatcher does with an item while nobody is killed: it puts it at the end
\* of the queue, or gives the head of the queue to it, or it to the head of the queue.
LEMMA Turn ==
  ASSUME TypeInv, Dispatch, dropped = {}, \A u \in Users : Alive(u)
  PROVE  LET x == Head(port) IN
         /\ dropped' = {}
         /\ \/ /\ x.of \in Users /\ x = Request(x.of) /\ queue \in Seq(Users)
               /\ queue' = Append(queue, x.of) /\ GiveNothing
            \/ /\ x.of \in Users /\ x = Request(x.of) /\ queue \in Seq(Messages) /\ queue # <<>>
               /\ queue' = Tail(queue) /\ Give(Head(queue), x.of)
            \/ /\ x.of \in Users /\ x = Cancel(x.of) /\ GiveNothing
               /\ queue \in Seq(Users) \/ queue' = queue \/ dispatcher' = "spins"
            \/ /\ x.of \in Messages /\ x = Message(x.of) /\ queue \in Seq(Messages)
               /\ queue' = Append(queue, x.of) /\ GiveNothing
            \/ /\ x.of \in Messages /\ x = Message(x.of) /\ queue \in Seq(Users) /\ queue # <<>>
               /\ queue' = Tail(queue) /\ Give(x.of, Head(queue))
<1>x. PICK x : x = Head(port)
  OBVIOUS
<1>1. /\ dispatcher = "serving"
      /\ \/ x.of \in Users /\ x = Request(x.of) /\ HandleRequest(x.of)
         \/ x.of \in Users /\ x = Cancel(x.of) /\ HandleCancel(x.of)
         \/ x.of \in Messages /\ x = Message(x.of) /\ HandleMessage(x.of)
  BY <1>x, Item1
<1>2. /\ state \in Int /\ queue \in Seq(Users \cup Messages)
      /\ state >= 0 => queue \in Seq(Users) /\ Len(queue) = state
      /\ state <= 0 => queue \in Seq(Messages) /\ Len(queue) + state = 0
  <2>1. /\ state > 0 => queue \in Seq(Users) /\ Len(queue) = state
        /\ state = 0 => queue = <<>>
        /\ state < 0 => queue \in Seq(Messages) /\ Len(queue) + state = 0
    BY <1>1, QueueHolds
  <2>2. state = 0 => queue \in Seq(Users) /\ queue \in Seq(Messages) /\ Len(queue) = 0
    BY <2>1, EmptySeq
  <2>3. state \in Int /\ queue \in Seq(Users \cup Messages)
    BY <1>1, QueueType DEF TypeInv, TypeOK
  <2> QED BY <2>1, <2>2, <2>3
<1>3. ASSUME NEW u \in Users, x = Request(u), x.of = u, HandleRequest(u)
      PROVE  /\ dropped' = {}
             /\ \/ queue \in Seq(Users) /\ queue' = Append(queue, u) /\ GiveNothing
                \/ /\ queue \in Seq(Messages) /\ queue # <<>>
                   /\ queue' = Tail(queue) /\ Give(Head(queue), u)
  <2>1. CASE NobodyIsOwed
    BY <1>2, <1>3, <2>1 DEF HandleRequest, NobodyIsOwed
  <2>2. CASE ~NobodyIsOwed
    <3>1. queue \in Seq(Messages) /\ queue # <<>>
      BY <1>2, <2>2, EmptySeq DEF NobodyIsOwed
    <3> QED BY <1>3, <2>2, <3>1 DEF HandleRequest
  <2> QED BY <2>1, <2>2
<1>4. ASSUME NEW u \in Users, x = Cancel(u), x.of = u, HandleCancel(u)
      PROVE  dropped' = {} /\ GiveNothing /\ (queue \in Seq(Users) \/ queue' = queue \/ dispatcher' = "spins")
  <2>1. dropped' = {} /\ GiveNothing
    BY <1>4 DEF HandleCancel
  <2>2. CASE queue \in Seq(Messages) /\ queue # <<>>
    <3>1. u \notin Range(queue)
      BY <2>2, OnlyMessages
    <3> QED BY <1>4, <2>1, <2>2, <3>1 DEF HandleCancel
  <2>3. CASE queue = <<>>
    BY <2>1, <2>3, EmptySeq
  <2> QED BY <1>2, <2>1, <2>2, <2>3
<1>5. ASSUME NEW m \in Messages, x = Message(m), x.of = m, HandleMessage(m)
      PROVE  /\ dropped' = {}
             /\ \/ queue \in Seq(Messages) /\ queue' = Append(queue, m) /\ GiveNothing
                \/ /\ queue \in Seq(Users) /\ queue # <<>>
                   /\ queue' = Tail(queue) /\ Give(m, Head(queue))
  <2>1. CASE state <= 0
    BY <1>2, <1>5, <2>1 DEF HandleMessage
  <2>2. CASE state > 0
    <3>1. queue \in Seq(Users) /\ Len(queue) = state /\ queue # <<>> /\ DOMAIN queue = 1..state
      BY <1>2, <2>2, EmptySeq, LenProperties
    <3>2. There = DOMAIN queue
      <4>1. \A i \in DOMAIN queue : queue[i] \in Users
        BY <3>1, ElementOfSeq
      <4> QED BY <3>1, <4>1 DEF There
    <3>3. There = 1..state /\ 1 \in There /\ \A i \in There : i \in Int /\ 1 <= i
      BY <1>2, <2>2, <3>1, <3>2
    <3>4. FirstInLine = {1} /\ There # {}
      BY <3>3 DEF FirstInLine
    <3>5. Give(m, queue[1]) /\ queue' = SubSeq(queue, 1 + 1, Len(queue)) /\ dropped' = dropped
      BY <1>2, <1>5, <2>2, <3>4 DEF HandleMessage
    <3>6. queue[1] = Head(queue) /\ SubSeq(queue, 1 + 1, Len(queue)) = Tail(queue)
      BY <3>1, HeadTailProperties, TailIsSubSeq
    <3> QED BY <3>1, <3>5, <3>6
  <2> QED BY <1>2, <2>1, <2>2
<1>a. CASE x.of \in Users /\ x = Request(x.of) /\ HandleRequest(x.of)
  BY <1>3, <1>a, <1>x
<1>b. CASE x.of \in Users /\ x = Cancel(x.of) /\ HandleCancel(x.of)
  BY <1>4, <1>b, <1>x
<1>c. CASE x.of \in Messages /\ x = Message(x.of) /\ HandleMessage(x.of)
  BY <1>5, <1>c, <1>x
<1> QED BY <1>1, <1>a, <1>b, <1>c

MessageOf == [m \in Messages |-> Message(m)]
RequestOf == [u \in Users |-> Request(u)]

LEMMA MessagesInTurn ==
  ASSUME TypeInv, Kept, Dispatch, dropped = {}, \A u \in Users : Alive(u), Ordered(order, MessageOf, queue, port)
  PROVE  /\ dispatcher' # "spins" => Ordered(order', MessageOf, queue', port')
         /\ GiveNothing \/ order' = Tail(order)
<1>x. PICK x : x = Head(port)
  OBVIOUS
<1>1. /\ dispatcher = "serving" /\ port \in Seq(Item) /\ port # <<>> /\ port' = Tail(port)
      /\ Once(port, x) => x \notin Range(port')
      /\ Range(port) = Range(port') \cup {x}
  BY <1>x, Item1
<1>t. /\ order \in Seq(Messages) /\ queue \in Seq(Users \cup Messages)
      /\ \A y \in Range(order) : y \in Messages
  <2>1. order \in Seq(Messages) /\ queue \in Seq(Users \cup Messages)
    BY <1>1, QueueType DEF TypeInv, TypeOK
  <2>2. \A i \in DOMAIN order : order[i] \in Messages
    BY <2>1, LenProperties, ElementOfSeq
  <2> QED BY <2>1, <2>2 DEF Range
<1>f. \A m \in Messages : MessageOf[m] = Message(m)
  BY DEF MessageOf
<1>k. \A m \in Messages : KeptAt(m)
  BY <1>1 DEF Kept
<1>g. ASSUME NEW m \in Messages, NEW u, Give(m, u), m \in Range(order),
             \A y \in Range(order) : ~Ahead(MessageOf, queue, port, y, m)
      PROVE  order' = Tail(order) /\ order # <<>> /\ Range(order') = Range(order) \ {m}
  <2>1. Without(order, m) = Tail(order) /\ order # <<>>
    BY <1>g, <1>k, <1>t, First DEF KeptAt
  <2>2. order' = Without(order, m)
    BY <1>g DEF Give
  <2> QED BY <1>1, <1>g, <2>1, <2>2, Given
<1>s. ASSUME order' = order \/ (order # <<>> /\ order' = Tail(order)),
             \A y, z \in Range(order') : Ahead(MessageOf, queue, port, y, z) => Ahead(MessageOf, queue', port', y, z)
      PROVE  Ordered(order', MessageOf, queue', port')
  BY <1>s, <1>t, StaysOrdered
<1>2. ASSUME NEW u \in Users, x = Request(u), queue' = Append(queue, u), GiveNothing
      PROVE  Ordered(order', MessageOf, queue', port')
  <2>1. order' = order
    BY <1>2 DEF GiveNothing
  <2>2. ASSUME NEW y \in Range(order), NEW z \in Range(order), Ahead(MessageOf, queue, port, y, z)
        PROVE  Ahead(MessageOf, queue', port', y, z)
    <3>1. Head(port) \notin {MessageOf[y], MessageOf[z]}
      BY <1>2, <1>f, <1>t, <1>x, Names
    <3>2. Ahead(MessageOf, queue, port', y, z)
      BY <1>1, <2>2, <3>1, PortMoves
    <3> QED BY <1>2, <1>t, <3>2, QueueGrows
  <2> QED BY <1>s, <2>1, <2>2
<1>3. ASSUME NEW u \in Users, x = Request(u), queue \in Seq(Messages), queue # <<>>, queue' = Tail(queue),
             Give(Head(queue), u)
      PROVE  Ordered(order', MessageOf, queue', port') /\ order' = Tail(order)
  <2>m. PICK m : m = Head(queue)
    OBVIOUS
  <2>1. m \in Messages /\ m \in Range(queue)
    BY <1>3, <2>m, HeadTailProperties, Taken
  <2>2. Once(queue, m) /\ MessageOf[m] \notin Range(port) /\ m \in Range(order)
    BY <1>f, <1>k, <2>1 DEF KeptAt
  <2>3. \A y : ~Ahead(MessageOf, queue, port, y, m)
    BY <1>1, <1>3, <2>2, <2>m, QueueFirst
  <2>4. order' = Tail(order) /\ order # <<>> /\ Range(order') = Range(order) \ {m}
    BY <1>3, <1>g, <2>1, <2>2, <2>3, <2>m
  <2>5. ASSUME NEW y \in Range(order'), NEW z \in Range(order'), Ahead(MessageOf, queue, port, y, z)
        PROVE  Ahead(MessageOf, queue', port', y, z)
    <3>1. /\ Head(port) \notin {MessageOf[y], MessageOf[z]} /\ Head(queue) \notin {y, z}
      BY <1>3, <1>f, <1>t, <1>x, <2>4, <2>m, Names
    <3>2. Ahead(MessageOf, queue, port', y, z)
      BY <1>1, <2>5, <3>1, PortMoves
    <3> QED BY <1>3, <3>1, <3>2, QueueTurnsUp
  <2> QED BY <1>s, <2>4, <2>5
<1>4. ASSUME NEW u \in Users, x = Cancel(u), queue \in Seq(Users) \/ queue' = queue, GiveNothing
      PROVE  Ordered(order', MessageOf, queue', port')
  <2>1. order' = order
    BY <1>4 DEF GiveNothing
  <2>2. ASSUME NEW y \in Range(order), NEW z \in Range(order), Ahead(MessageOf, queue, port, y, z)
        PROVE  Ahead(MessageOf, queue', port', y, z)
    <3>1. Head(port) \notin {MessageOf[y], MessageOf[z]}
      BY <1>4, <1>f, <1>t, <1>x, Names
    <3>2. CASE queue' = queue
      BY <1>1, <2>2, <3>1, <3>2, PortMoves
    <3>3. CASE queue \in Seq(Users)
      <4>1. y \notin Range(queue)
        BY <1>t, <3>3, OnlyUsers
      <4> QED BY <1>1, <2>2, <3>1, <4>1, PortMoves
    <3> QED BY <1>4, <3>2, <3>3
  <2> QED BY <1>s, <2>1, <2>2
<1>5. ASSUME NEW m \in Messages, x = Message(m), queue' = Append(queue, m), GiveNothing
      PROVE  Ordered(order', MessageOf, queue', port')
  <2>1. order' = order
    BY <1>5 DEF GiveNothing
  <2>2. Head(port) = MessageOf[m] /\ MessageOf[m] \notin Range(Tail(port)) /\ m \in Users \cup Messages
    BY <1>1, <1>5, <1>f, <1>k, <1>x DEF KeptAt
  <2>3. ASSUME NEW y \in Range(order), NEW z \in Range(order), Ahead(MessageOf, queue, port, y, z)
        PROVE  Ahead(MessageOf, queue', port', y, z)
    <3>1. (y # m => MessageOf[y] # MessageOf[m]) /\ (z # m => MessageOf[z] # MessageOf[m])
      BY <1>f, <1>t, Names
    <3>2. Ahead(MessageOf, Append(queue, m), Tail(port), y, z)
      BY <1>1, <1>t, <2>2, <2>3, <3>1, Handed
    <3> QED BY <1>1, <1>5, <3>2
  <2> QED BY <1>s, <2>1, <2>3
<1>6. ASSUME NEW m \in Messages, x = Message(m), queue \in Seq(Users), queue # <<>>, queue' = Tail(queue),
             NEW u, Give(m, u)
      PROVE  Ordered(order', MessageOf, queue', port') /\ order' = Tail(order)
  <2>1. Once(port, Message(m)) /\ Message(m) \in Range(port) /\ m \in Range(order)
    BY <1>1, <1>6, <1>k DEF KeptAt
  <2>2. \A y \in Messages : y \notin Range(queue)
    BY <1>6, OnlyUsers
  <2>3. MessageOf[m] = Head(port) /\ Once(port, Head(port))
    BY <1>6, <1>f, <1>x, <2>1
  <2>4. \A y \in Range(order) : ~Ahead(MessageOf, queue, port, y, m)
    BY <1>1, <1>t, <2>2, <2>3, PortFirst
  <2>5. order' = Tail(order) /\ order # <<>> /\ Range(order') = Range(order) \ {m}
    BY <1>6, <1>g, <2>1, <2>4
  <2>6. ASSUME NEW y \in Range(order'), NEW z \in Range(order'), Ahead(MessageOf, queue, port, y, z)
        PROVE  Ahead(MessageOf, queue', port', y, z)
    <3>1. y \in Messages /\ z \in Messages /\ y # m /\ z # m
      BY <1>t, <2>5
    <3>2. Head(port) \notin {MessageOf[y], MessageOf[z]}
      <4>1. Message(m) # Message(y) /\ Message(m) # Message(z)
        BY <3>1, Names
      <4> QED BY <1>6, <1>f, <1>x, <3>1, <4>1
    <3>3. y \notin Range(queue)
      BY <2>2, <3>1
    <3> QED BY <1>1, <2>6, <3>2, <3>3, PortMoves
  <2> QED BY <1>s, <2>5, <2>6
<1>7. \/ x.of \in Users /\ x = Request(x.of) /\ queue' = Append(queue, x.of) /\ GiveNothing
      \/ /\ x.of \in Users /\ x = Request(x.of) /\ queue \in Seq(Messages) /\ queue # <<>>
         /\ queue' = Tail(queue) /\ Give(Head(queue), x.of)
      \/ /\ x.of \in Users /\ x = Cancel(x.of) /\ GiveNothing
         /\ queue \in Seq(Users) \/ queue' = queue \/ dispatcher' = "spins"
      \/ x.of \in Messages /\ x = Message(x.of) /\ queue' = Append(queue, x.of) /\ GiveNothing
      \/ /\ x.of \in Messages /\ x = Message(x.of) /\ queue \in Seq(Users) /\ queue # <<>>
         /\ queue' = Tail(queue) /\ Give(x.of, Head(queue))
  BY <1>x, Turn
<1> QED BY <1>2, <1>3, <1>4, <1>5, <1>6, <1>7

\* Who stands in the line has a request under way.
LineAt(u) == Once(line, u) /\ (u \in Range(line) <=> InPort(u) \/ InQueue(u))

LEMMA LineInTurn ==
  ASSUME TypeInv, Served, ~program.gives_up, Dispatch, dropped = {}, \A u \in Users : Alive(u),
         \A u \in Users : LineAt(u), Ordered(line, RequestOf, queue, port)
  PROVE  /\ Ordered(line', RequestOf, queue', port')
         /\ \A u \in Users : LineAt(u)'
         /\ GiveNothing \/ line' = Tail(line)
<1>x. PICK x : x = Head(port)
  OBVIOUS
<1>1. /\ dispatcher = "serving" /\ port \in Seq(Item) /\ port # <<>> /\ port' = Tail(port)
      /\ Once(port, x) => x \notin Range(port')
      /\ Range(port) = Range(port') \cup {x}
  BY <1>x, Item1
<1>t. /\ line \in Seq(Users) /\ queue \in Seq(Users \cup Messages)
      /\ \A y \in Range(line) : y \in Users
  <2>1. line \in Seq(Users) /\ queue \in Seq(Users \cup Messages)
    BY <1>1, QueueType DEF TypeInv, TypeOK
  <2>2. \A i \in DOMAIN line : line[i] \in Users
    BY <2>1, LenProperties, ElementOfSeq
  <2> QED BY <2>1, <2>2 DEF Range
<1>f. \A u \in Users : RequestOf[u] = Request(u)
  BY DEF RequestOf
<1>k. \A u \in Users : /\ ~Cancelled(u)
                       /\ Once(port, Request(u)) /\ Once(queue, u)
                       /\ ~(InPort(u) /\ InQueue(u))
  <2>1. ASSUME NEW u \in Users PROVE ~Cancelled(u)
    BY DEF Cancelled, Served, CancelFirst, Range
  <2>2. \A u \in Users : CallOf(u) /\ user[u] \in {"idle"} \cup Calling
    BY DEF Served, Alive, TypeInv, TypeOK, Calling
  <2> QED BY <2>1, <2>2 DEF CallOf
<1>p. \A u \in Users : /\ InPort(u)' <=> InPort(u) /\ x # Request(u)
                       /\ x = Request(u) => InPort(u)
  BY <1>1, <1>k DEF InPort, Request
<1>l. \A u \in Users : Once(line, u) /\ (u \in Range(line) <=> InPort(u) \/ InQueue(u))
  BY DEF LineAt
<1>g. ASSUME NEW m, NEW u \in Users, Give(m, u), u \in Range(line),
             \A y \in Range(line) : ~Ahead(RequestOf, queue, port, y, u)
      PROVE  /\ line' = Tail(line) /\ line # <<>> /\ Range(line') = Range(line) \ {u}
             /\ \A v \in Users : Once(line', v)
  <2>1. Without(line, u) = Tail(line) /\ line # <<>>
    BY <1>g, <1>l, <1>t, First
  <2>2. line' = Without(line, u)
    BY <1>g DEF Give
  <2>3. Range(line') = Range(line) \ {u} /\ \A v \in Users : Once(line', v)
    BY <1>l, <1>t, <2>2, LeftOut
  <2> QED BY <2>1, <2>2, <2>3
<1>s. ASSUME line' = line \/ (line # <<>> /\ line' = Tail(line)),
             \A y, z \in Range(line') : Ahead(RequestOf, queue, port, y, z) => Ahead(RequestOf, queue', port', y, z)
      PROVE  Ordered(line', RequestOf, queue', port')
  BY <1>s, <1>t, StaysOrdered
<1>2. ASSUME NEW u \in Users, x = Request(u), queue' = Append(queue, u), GiveNothing
      PROVE  Ordered(line', RequestOf, queue', port') /\ \A v \in Users : LineAt(v)'
  <2>1. line' = line
    BY <1>2 DEF GiveNothing
  <2>2. Head(port) = RequestOf[u] /\ RequestOf[u] \notin Range(Tail(port)) /\ u \in Users \cup Messages
    BY <1>1, <1>2, <1>f, <1>k, <1>x
  <2>3. ASSUME NEW y \in Range(line), NEW z \in Range(line), Ahead(RequestOf, queue, port, y, z)
        PROVE  Ahead(RequestOf, queue', port', y, z)
    <3>1. (y # u => RequestOf[y] # RequestOf[u]) /\ (z # u => RequestOf[z] # RequestOf[u])
      BY <1>f, <1>t, Names
    <3>2. Ahead(RequestOf, Append(queue, u), Tail(port), y, z)
      BY <1>1, <1>t, <2>2, <2>3, <3>1, Handed
    <3> QED BY <1>1, <1>2, <3>2
  <2>4. Range(queue') = Range(queue) \cup {u}
    BY <1>2, <1>t, <2>2, Appended
  <2>5. ASSUME NEW v \in Users PROVE LineAt(v)'
    <3>1. InQueue(v)' <=> InQueue(v) \/ v = u
      BY <2>4 DEF InQueue
    <3>2. x = Request(v) <=> v = u
      BY <1>2, Names
    <3> QED BY <1>l, <1>p, <2>1, <3>1, <3>2 DEF LineAt
  <2> QED BY <1>s, <2>1, <2>3, <2>5
<1>3. ASSUME NEW u \in Users, x = Request(u), queue \in Seq(Messages), queue # <<>>, queue' = Tail(queue),
             NEW m, Give(m, u)
      PROVE  Ordered(line', RequestOf, queue', port') /\ line' = Tail(line) /\ \A v \in Users : LineAt(v)'
  <2>1. Once(port, Request(u)) /\ u \in Range(line)
    BY <1>3, <1>k, <1>l, <1>p
  <2>2. queue' \in Seq(Messages) /\ \A y \in Users : y \notin Range(queue) /\ y \notin Range(queue')
    <3>1. queue' \in Seq(Messages)
      BY <1>3, HeadTailProperties
    <3> QED BY <1>3, <3>1, OnlyMessages
  <2>3. RequestOf[u] = Head(port) /\ Once(port, Head(port))
    BY <1>3, <1>f, <1>x, <2>1
  <2>4. \A y \in Range(line) : ~Ahead(RequestOf, queue, port, y, u)
    BY <1>1, <1>t, <2>2, <2>3, PortFirst
  <2>5. /\ line' = Tail(line) /\ line # <<>> /\ Range(line') = Range(line) \ {u}
        /\ \A v \in Users : Once(line', v)
    BY <1>3, <1>g, <2>1, <2>4
  <2>6. ASSUME NEW y \in Range(line'), NEW z \in Range(line'), Ahead(RequestOf, queue, port, y, z)
        PROVE  Ahead(RequestOf, queue', port', y, z)
    <3>1. y \in Users /\ z \in Users /\ y # u /\ z # u
      BY <1>t, <2>5
    <3>2. Head(port) \notin {RequestOf[y], RequestOf[z]}
      <4>1. Request(u) # Request(y) /\ Request(u) # Request(z)
        BY <3>1, Names
      <4> QED BY <1>3, <1>f, <1>x, <3>1, <4>1
    <3>3. y \notin Range(queue)
      BY <2>2, <3>1
    <3> QED BY <1>1, <2>6, <3>2, <3>3, PortMoves
  <2>7. ASSUME NEW v \in Users PROVE LineAt(v)'
    <3>1. ~InQueue(v) /\ ~InQueue(v)'
      BY <2>2 DEF InQueue
    <3>2. x = Request(v) <=> v = u
      BY <1>3, Names
    <3> QED BY <1>l, <1>p, <2>5, <3>1, <3>2 DEF LineAt
  <2> QED BY <1>s, <2>5, <2>6, <2>7
<1>4. ASSUME NEW u \in Users, x = Cancel(u)
      PROVE  FALSE
  BY <1>1, <1>4, <1>k DEF Cancelled
<1>5. ASSUME NEW m \in Messages, x = Message(m), queue' = Append(queue, m), GiveNothing
      PROVE  Ordered(line', RequestOf, queue', port') /\ \A v \in Users : LineAt(v)'
  <2>1. line' = line
    BY <1>5 DEF GiveNothing
  <2>2. ASSUME NEW y \in Range(line), NEW z \in Range(line), Ahead(RequestOf, queue, port, y, z)
        PROVE  Ahead(RequestOf, queue', port', y, z)
    <3>1. Head(port) \notin {RequestOf[y], RequestOf[z]}
      <4>1. y \in Users /\ z \in Users
        BY <1>t
      <4>2. Message(m) # Request(y) /\ Message(m) # Request(z)
        BY <4>1, Names
      <4> QED BY <1>5, <1>f, <1>x, <4>1, <4>2
    <3>2. Ahead(RequestOf, queue, port', y, z)
      BY <1>1, <2>2, <3>1, PortMoves
    <3> QED BY <1>5, <1>t, <3>2, QueueGrows
  <2>3. Range(queue') = Range(queue) \cup {m}
    BY <1>5, <1>t, Appended
  <2>4. ASSUME NEW v \in Users PROVE LineAt(v)'
    <3>1. InQueue(v)' <=> InQueue(v)
      BY <2>3, Alphabet DEF InQueue
    <3>2. x # Request(v)
      BY <1>5, Names
    <3> QED BY <1>l, <1>p, <2>1, <3>1, <3>2 DEF LineAt
  <2> QED BY <1>s, <2>1, <2>2, <2>4
<1>6. ASSUME NEW m \in Messages, x = Message(m), queue \in Seq(Users), queue # <<>>, queue' = Tail(queue),
             Give(m, Head(queue))
      PROVE  Ordered(line', RequestOf, queue', port') /\ line' = Tail(line) /\ \A v \in Users : LineAt(v)'
  <2>u. PICK u : u = Head(queue)
    OBVIOUS
  <2>1. u \in Users /\ InQueue(u)
    BY <1>6, <2>u, HeadTailProperties, Taken DEF InQueue
  <2>2. Once(queue, u) /\ RequestOf[u] \notin Range(port) /\ u \in Range(line)
    BY <1>f, <1>k, <1>l, <2>1 DEF InPort
  <2>3. \A y : ~Ahead(RequestOf, queue, port, y, u)
    BY <1>1, <1>6, <2>2, <2>u, QueueFirst
  <2>4. /\ line' = Tail(line) /\ line # <<>> /\ Range(line') = Range(line) \ {u}
        /\ \A v \in Users : Once(line', v)
    BY <1>6, <1>g, <2>1, <2>2, <2>3, <2>u
  <2>5. ASSUME NEW y \in Range(line'), NEW z \in Range(line'), Ahead(RequestOf, queue, port, y, z)
        PROVE  Ahead(RequestOf, queue', port', y, z)
    <3>1. y \in Users /\ z \in Users /\ Head(queue) \notin {y, z}
      BY <1>t, <2>4, <2>u
    <3>2. Head(port) \notin {RequestOf[y], RequestOf[z]}
      <4>1. Message(m) # Request(y) /\ Message(m) # Request(z)
        BY <3>1, Names
      <4> QED BY <1>6, <1>f, <1>x, <3>1, <4>1
    <3>3. Ahead(RequestOf, queue, port', y, z)
      BY <1>1, <2>5, <3>2, PortMoves
    <3> QED BY <1>6, <3>1, <3>3, QueueTurnsUp
  <2>6. Range(queue) = Range(queue') \cup {u} /\ u \notin Range(queue')
    BY <1>6, <2>2, <2>u, Taken
  <2>7. ASSUME NEW v \in Users PROVE LineAt(v)'
    <3>1. InQueue(v)' <=> InQueue(v) /\ v # u
      BY <2>6 DEF InQueue
    <3>2. x # Request(v) /\ (v = u => ~InPort(v))
      BY <1>6, <1>k, <2>1, Names
    <3> QED BY <1>l, <1>p, <2>4, <3>1, <3>2 DEF LineAt
  <2> QED BY <1>s, <2>4, <2>5, <2>7
<1>7. \/ x.of \in Users /\ x = Request(x.of) /\ queue' = Append(queue, x.of) /\ GiveNothing
      \/ /\ x.of \in Users /\ x = Request(x.of) /\ queue \in Seq(Messages) /\ queue # <<>>
         /\ queue' = Tail(queue) /\ Give(Head(queue), x.of)
      \/ x.of \in Users /\ x = Cancel(x.of)
      \/ x.of \in Messages /\ x = Message(x.of) /\ queue' = Append(queue, x.of) /\ GiveNothing
      \/ /\ x.of \in Messages /\ x = Message(x.of) /\ queue \in Seq(Users) /\ queue # <<>>
         /\ queue' = Tail(queue) /\ Give(x.of, Head(queue))
  BY <1>x, Turn
<1> QED BY <1>2, <1>3, <1>4, <1>5, <1>6, <1>7

\* While nobody is killed, what waits is listed in the order it came, unless it has
\* been emptied; of the users this holds when they do not give up.
Standing ==
  ~program.kills /\ dispatcher # "spins" =>
    /\ dropped = {} /\ \A u \in Users : Alive(u)
    /\ Ordered(order, MessageOf, queue, port)
    /\ ~program.gives_up => /\ \A u \in Users : LineAt(u)
                            /\ Ordered(line, RequestOf, queue, port)

\* Who is alive stays so without a kill, and the program with it.
LEMMA AllAlive ==
  ASSUME TypeInv, [Next]_vars, ~program.kills, \A u \in Users : Alive(u)
  PROVE  \A u \in Users : Alive(u)'
<1>t. user \in [Users -> {"idle", "asking", "polling", "waiting", "ready", "dead"}]
  BY DEF TypeInv, TypeOK
<1>1. ASSUME NEW v \in Users, NEW next \in {"asking", "polling"}, Ask(v, next) PROVE \A u \in Users : Alive(u)'
  BY <1>1, <1>t DEF Ask, Alive
<1>2. ASSUME NEW v \in Users, Wait(v) \/ Take(v) \/ TimeOut(v) \/ GiveUp(v) PROVE \A u \in Users : Alive(u)'
  BY <1>2, <1>t DEF Wait, Take, TimeOut, GiveUp, Alive
<1>3. ASSUME NEW v \in Users, Kill(v) PROVE FALSE
  BY <1>3 DEF Kill
<1>4. ASSUME NEW m \in Messages, Send(m) PROVE \A u \in Users : Alive(u)'
  BY <1>4 DEF Send, Alive
<1>5. CASE Dispatch
  <2>1. GiveNothing \/ \E m, v : Give(m, v)
    <3>1. PICK x : x = Head(port)
      OBVIOUS
    <3>2. HandleRequest(x.of) \/ HandleCancel(x.of) \/ HandleMessage(x.of)
      BY <1>5, <3>1 DEF Dispatch
    <3> QED BY <3>2 DEF HandleRequest, HandleCancel, HandleMessage, Stuck
  <2>2. CASE GiveNothing
    BY <2>2 DEF GiveNothing, Alive
  <2>3. ASSUME NEW m, NEW v, Give(m, v) PROVE \A u \in Users : Alive(u)'
    BY <2>3, <1>t DEF Give, Woken, Alive
  <2> QED BY <2>1, <2>2, <2>3
<1>6. CASE UNCHANGED vars
  BY <1>6 DEF vars, Alive
<1> QED BY <1>1, <1>2, <1>3, <1>4, <1>5, <1>6 DEF Next

\* What waits in the queue or the port stays in the order of the history when items
\* are put on the port; and so does what is put on the port and on the history.
LEMMA PortGrows ==
  ASSUME TypeInv, NEW S, NEW o \in Seq(S), NEW f, Ordered(o, f, queue, port), queue' = queue,
         NEW e \in Item, port' = Append(port, e)
  PROVE  /\ Ordered(o, f, queue', port')
         /\ \A x \in S : f[x] = e /\ (\A y \in Range(o) : y \in Range(queue) \/ f[y] \in Range(port)) =>
              Ordered(Append(o, x), f, queue', port')
<1>1. port \in Seq(Item)
  BY DEF TypeInv, TypeOK
<1>2. PICK r : r = Append(port, e)
  OBVIOUS
<1>3. /\ \A x, y : Ahead(f, queue, port, x, y) => Ahead(f, queue, r, x, y)
      /\ \A x, y : (x \in Range(queue) \/ f[x] \in Range(port)) /\ f[y] = e => Ahead(f, queue, r, x, y)
  BY <1>1, <1>2, BehindAll
<1>4. Ordered(o, f, queue, r)
  BY <1>3, StaysOrdered
<1>5. ASSUME NEW x \in S, f[x] = e, \A y \in Range(o) : y \in Range(queue) \/ f[y] \in Range(port)
      PROVE  Ordered(Append(o, x), f, queue, r)
  <2>1. \A y \in Range(o) : Ahead(f, queue, r, y, x)
    BY <1>3, <1>5
  <2> QED BY <1>4, <2>1, JoinsTheLine
<1> QED BY <1>2, <1>4, <1>5

LEMMA StandingPreserved ==
  ASSUME TypeInv, Kept, Orderly, Standing, [Next]_vars
  PROVE  /\ Standing'
         /\ Dispatch /\ ~program.kills =>
              GiveNothing \/ (order' = Tail(order) /\ (~program.gives_up => line' = Tail(line)))
<1>0. /\ program' = program /\ (~Dispatch => UNCHANGED dropped)
      /\ dispatcher = "spins" => dispatcher' = "spins" /\ ~Dispatch
  BY Lasting DEF Dispatch
<1> SUFFICES ASSUME ~program.kills, dispatcher # "spins"
             PROVE  /\ dropped' = {} /\ \A u \in Users : Alive(u)'
                    /\ dispatcher' # "spins" => Ordered(order', MessageOf, queue', port')
                    /\ ~program.gives_up => /\ \A u \in Users : LineAt(u)'
                                            /\ Ordered(line', RequestOf, queue', port')
                    /\ Dispatch => GiveNothing \/ (order' = Tail(order) /\ (~program.gives_up => line' = Tail(line)))
  BY <1>0 DEF Standing, MessageOf, RequestOf
<1>1. /\ dropped = {} /\ \A u \in Users : Alive(u)
      /\ Ordered(order, MessageOf, queue, port)
      /\ ~program.gives_up => (\A u \in Users : LineAt(u)) /\ Ordered(line, RequestOf, queue, port)
  BY DEF Standing
<1>2. ~program.gives_up => Served
  BY <1>1 DEF Orderly, Calm, DispatcherServes
<1>3. \A u \in Users : Alive(u)'
  BY <1>1, AllAlive
<1>t. order \in Seq(Messages) /\ line \in Seq(Users) /\ port \in Seq(Item)
  BY DEF TypeInv, TypeOK
<1>f. (\A m \in Messages : MessageOf[m] = Message(m)) /\ (\A u \in Users : RequestOf[u] = Request(u))
  BY DEF MessageOf, RequestOf
\* Actions that leave the order, or the line, alone.
<1>m. ASSUME order' = order, queue' = queue, port' = port \/ \E e \in Item : port' = Append(port, e)
      PROVE  Ordered(order', MessageOf, queue', port')
  BY <1>m, <1>1, <1>t, PortGrows
<1>l. ASSUME ~program.gives_up, line' = line, queue' = queue,
             port' = port \/ \E e \in Item : port' = Append(port, e) /\ \A u \in Users : e # Request(u)
      PROVE  (\A u \in Users : LineAt(u)') /\ Ordered(line', RequestOf, queue', port')
  <2>1. Ordered(line', RequestOf, queue', port')
    BY <1>l, <1>1, <1>t, PortGrows
  <2>2. \A u \in Users : Request(u) \in Range(port') <=> Request(u) \in Range(port)
    <3>1. ASSUME NEW e \in Item, port' = Append(port, e), \A u \in Users : e # Request(u)
          PROVE  \A u \in Users : Request(u) \in Range(port') <=> Request(u) \in Range(port)
      <4>1. Range(port') = Range(port) \cup {e}
        BY <1>t, <3>1, Appended
      <4> QED BY <3>1, <4>1
    <3> QED BY <1>l, <3>1
  <2>3. ASSUME NEW u \in Users PROVE LineAt(u)'
    <3>1. InPort(u)' <=> InPort(u)
      BY <2>2 DEF InPort, Request
    <3> QED BY <1>l, <1>1, <3>1 DEF LineAt, InQueue
  <2> QED BY <2>1, <2>3
<1>4. CASE Dispatch
  <2>1. dropped' = {}
    BY <1>1, <1>4, Turn
  <2>2. /\ dispatcher' # "spins" => Ordered(order', MessageOf, queue', port')
        /\ GiveNothing \/ order' = Tail(order)
    BY <1>1, <1>4, MessagesInTurn
  <2>3. ~program.gives_up => /\ \A u \in Users : LineAt(u)'
                             /\ Ordered(line', RequestOf, queue', port')
                             /\ GiveNothing \/ line' = Tail(line)
    BY <1>1, <1>2, <1>4, LineInTurn
  <2> QED BY <1>3, <2>1, <2>2, <2>3
<1>5. ASSUME ~Dispatch, Ordered(order', MessageOf, queue', port'),
             ~program.gives_up => (\A u \in Users : LineAt(u)') /\ Ordered(line', RequestOf, queue', port')
      PROVE  /\ dropped' = {} /\ \A u \in Users : Alive(u)'
             /\ dispatcher' # "spins" => Ordered(order', MessageOf, queue', port')
             /\ ~program.gives_up => /\ \A u \in Users : LineAt(u)'
                                     /\ Ordered(line', RequestOf, queue', port')
             /\ Dispatch => GiveNothing \/ (order' = Tail(order) /\ (~program.gives_up => line' = Tail(line)))
  BY <1>0, <1>1, <1>3, <1>5
<1>6. ASSUME ~Dispatch, NEW u \in Users, NEW next, Ask(u, next)
      PROVE  /\ Ordered(order', MessageOf, queue', port')
             /\ ~program.gives_up => (\A v \in Users : LineAt(v)') /\ Ordered(line', RequestOf, queue', port')
  <2>1. /\ port' = Append(port, Request(u)) /\ line' = Append(line, u) /\ UNCHANGED <<queue, order>>
        /\ user[u] = "idle" /\ Request(u) \in Item
    BY <1>6, Sent DEF Ask
  <2>2. Ordered(order', MessageOf, queue', port')
    BY <1>m, <2>1
  <2>3. ASSUME ~program.gives_up
        PROVE (\A v \in Users : LineAt(v)') /\ Ordered(line', RequestOf, queue', port')
    <3>1. ~Cancelled(u)
      BY <1>2, <2>3 DEF Cancelled, Served, CancelFirst, Range
    <3>2. ~InPort(u) /\ ~InQueue(u)
      BY <1>2, <2>1, <2>3, <3>1 DEF Served, CallOf
    <3>3. /\ Range(line') = Range(line) \cup {u} /\ Range(port') = Range(port) \cup {Request(u)}
          /\ \A v \in Users : Once(line, v) /\ (v = u => v \notin Range(line)) => Once(line', v)
      BY <1>t, <2>1, Appended
    <3>4. ASSUME NEW v \in Users PROVE LineAt(v)'
      <4>1. InPort(v)' <=> InPort(v) \/ v = u
        BY <3>3, Names DEF InPort, Request
      <4> QED BY <1>1, <2>1, <2>3, <3>2, <3>3, <4>1 DEF LineAt, InQueue
    <3>5. \A y \in Range(line) : y \in Users
      <4>1. \A i \in DOMAIN line : line[i] \in Users
        BY <1>t, LenProperties, ElementOfSeq
      <4> QED BY <4>1 DEF Range
    <3>6. \A y \in Range(line) : y \in Range(queue) \/ RequestOf[y] \in Range(port)
      BY <1>1, <1>f, <2>3, <3>5 DEF LineAt, InPort, InQueue
    <3>7. Ordered(Append(line, u), RequestOf, queue', port')
      BY <1>1, <1>f, <1>t, <2>1, <2>3, <3>6, PortGrows
    <3> QED BY <2>1, <3>4, <3>7
  <2> QED BY <2>2, <2>3
<1>7. ASSUME ~Dispatch, NEW u \in Users, Wait(u) \/ Take(u) \/ TimeOut(u)
      PROVE  /\ Ordered(order', MessageOf, queue', port')
             /\ ~program.gives_up => (\A v \in Users : LineAt(v)') /\ Ordered(line', RequestOf, queue', port')
  BY <1>7, <1>l, <1>m DEF Wait, Take, TimeOut
<1>8. ASSUME ~Dispatch, NEW u \in Users, GiveUp(u)
      PROVE  /\ Ordered(order', MessageOf, queue', port')
             /\ ~program.gives_up => (\A v \in Users : LineAt(v)') /\ Ordered(line', RequestOf, queue', port')
  <2>1. port' = Append(port, Cancel(u)) /\ UNCHANGED <<queue, order>> /\ Cancel(u) \in Item
    BY <1>8, Sent DEF GiveUp, Cancels
  <2>2. program.gives_up
    BY <1>2, <1>8 DEF GiveUp, Served, CallOf
  <2> QED BY <1>m, <2>1, <2>2
<1>9. ASSUME NEW u \in Users, Kill(u) PROVE FALSE
  BY <1>9 DEF Kill
<1>10. ASSUME ~Dispatch, NEW m \in Messages, Send(m)
       PROVE  /\ Ordered(order', MessageOf, queue', port')
              /\ ~program.gives_up => (\A v \in Users : LineAt(v)') /\ Ordered(line', RequestOf, queue', port')
  <2>1. /\ port' = Append(port, Message(m)) /\ order' = Append(order, m) /\ UNCHANGED <<queue, line>>
        /\ Message(m) \in Item /\ \A u \in Users : Message(m) # Request(u)
    BY <1>10, Sent, Names DEF Send
  <2>2. \A y \in Range(order) : y \in Messages
    <3>1. \A i \in DOMAIN order : order[i] \in Messages
      BY <1>t, LenProperties, ElementOfSeq
    <3> QED BY <3>1 DEF Range
  <2>3. \A y \in Range(order) : y \in Range(queue) \/ MessageOf[y] \in Range(port)
    BY <1>1, <1>f, <2>2 DEF Kept, KeptAt
  <2>4. Ordered(Append(order, m), MessageOf, queue', port')
    BY <1>1, <1>f, <1>t, <2>1, <2>3, PortGrows
  <2> QED BY <1>l, <2>1, <2>4
<1>11. CASE UNCHANGED vars
  BY <1>11, <1>l, <1>m, <1>0, <1>1, <1>3 DEF vars, GiveNothing
<1>12. CASE ~Dispatch /\ Next
  BY <1>5, <1>6, <1>7, <1>8, <1>9, <1>10, <1>12 DEF Next
<1> QED BY <1>4, <1>11, <1>12

HowMany(s, M) == Cardinality({i \in DOMAIN s : s[i] \in M})

\* A user has no more answers for taking what is at its port, being timed out or killed.
LEMMA Fewer ==
  ASSUME NEW S, NEW s \in Seq(S), NEW M
  PROVE  /\ HowMany(s, M) \in Nat
         /\ s # <<>> => HowMany(Tail(s), M) <= HowMany(s, M)
         /\ \A x \in S \ M : HowMany(Append(s, x), M) = HowMany(s, M)
<1>c. PICK c : c = HowMany(s, M)
  OBVIOUS
<1> DEFINE P == {i \in DOMAIN s : s[i] \in M}
<1>1. DOMAIN s = 1..Len(s) /\ Len(s) \in Nat
  BY LenProperties
<1>2. IsFiniteSet(DOMAIN s) /\ P \in SUBSET DOMAIN s
  BY <1>1, FS_Interval
<1> HIDE DEF P
<1>3. IsFiniteSet(P)
  BY <1>2, FS_Subset
<1>4. c = Cardinality(P) /\ c \in Nat
  BY <1>3, <1>c, FS_CardinalityType DEF P, HowMany
<1>5. ASSUME s # <<>>
      PROVE  HowMany(Tail(s), M) <= c
  <2>t. PICK t : t = Tail(s)
    OBVIOUS
  <2>1. /\ Len(s) \in Nat \ {0} /\ DOMAIN t = 1..(Len(s) - 1)
        /\ \A i \in 1..(Len(s) - 1) : t[i] = s[i + 1]
    BY <1>5, <2>t, HeadTailProperties, LenProperties, EmptySeq
  <2> DEFINE Q == {i \in DOMAIN t : t[i] \in M}
             next == [i \in Q |-> i + 1]
  <2>2. \A i \in Q : i \in Int /\ i + 1 \in P
    BY <1>1, <2>1 DEF P
  <2>3. next \in [Q -> P]
    BY <2>2
  <2>4. IsInjective(next)
    BY <2>2 DEF IsInjective
  <2>5. next \in Injection(Q, P)
    BY <2>3, <2>4 DEF Injection
  <2> HIDE DEF next, Q
  <2>6. Cardinality(Q) <= Cardinality(P)
    BY <1>3, <2>5, FS_Injection
  <2> QED BY <1>4, <2>6, <2>t DEF Q, HowMany
<1>6. ASSUME NEW x \in S \ M
      PROVE  HowMany(Append(s, x), M) = c
  <2>1. /\ DOMAIN Append(s, x) = DOMAIN s \cup {Len(s) + 1}
        /\ \A i \in DOMAIN s : Append(s, x)[i] = s[i]
        /\ Append(s, x)[Len(s) + 1] = x
    BY <1>1, AppendProperties, LenProperties
  <2>2. {i \in DOMAIN Append(s, x) : Append(s, x)[i] \in M} = P
    BY <2>1 DEF P
  <2> QED BY <1>4, <2>2 DEF HowMany
<1> QED BY <1>c, <1>4, <1>5, <1>6

LEMMA NoMore ==
  ASSUME TypeInv, [Next]_vars, Dispatch => GiveNothing, NEW u \in Users
  PROVE  ~(Answers(u)' > Answers(u))
<1>t. /\ blind \in [Users -> Seq(Messages \cup {TimedOut})] /\ blind[u] \in Seq(Messages \cup {TimedOut})
      /\ TimedOut \in (Messages \cup {TimedOut}) \ Messages
  BY NamesAssumption DEF TypeInv, TypeOK
<1>1. \/ blind'[u] = blind[u]
      \/ blind[u] # <<>> /\ blind'[u] = Tail(blind[u])
      \/ blind'[u] = Append(blind[u], TimedOut)
      \/ blind'[u] = <<>>
  <2>1. ASSUME NEW v \in Users, Wait(v) \/ Take(v) \/ TimeOut(v) \/ GiveUp(v) \/ Kill(v) \/ \E next : Ask(v, next)
        PROVE  \/ blind'[u] = blind[u]
               \/ blind[u] # <<>> /\ blind'[u] = Tail(blind[u])
               \/ blind'[u] = Append(blind[u], TimedOut)
               \/ blind'[u] = <<>>
    <3>1. CASE Wait(v) \/ \E next : Ask(v, next)
      BY <3>1 DEF Wait, Ask
    <3>2. CASE Take(v)
      BY <1>t, <3>2 DEF Take
    <3>3. CASE TimeOut(v)
      BY <1>t, <3>3 DEF TimeOut
    <3>4. CASE GiveUp(v)
      BY <1>t, <3>4 DEF GiveUp, GivingUp
    <3>5. CASE Kill(v)
      BY <1>t, <3>5 DEF Kill
    <3> QED BY <2>1, <3>1, <3>2, <3>3, <3>4, <3>5
  <2>2. ASSUME NEW m \in Messages, Send(m) PROVE blind' = blind
    BY <2>2 DEF Send
  <2>3. Dispatch => blind' = blind
    BY DEF GiveNothing
  <2>4. UNCHANGED vars => blind' = blind
    BY DEF vars
  <2> QED BY <2>1, <2>2, <2>3, <2>4 DEF Next
<1>2. PICK s, t : s = blind[u] /\ t = blind'[u]
  OBVIOUS
<1>3. Answers(u) = HowMany(s, Messages) /\ Answers(u)' = HowMany(t, Messages)
  BY <1>2 DEF Answers, HowMany
<1>4. Answers(u) \in Nat
  BY <1>2, <1>3, <1>t, Fewer
<1>5. CASE t = s
  BY <1>3, <1>4, <1>5
<1>6. CASE s # <<>> /\ t = Tail(s)
  <2>1. HowMany(t, Messages) <= HowMany(s, Messages)
    BY <1>2, <1>6, <1>t, Fewer
  <2>2. Tail(s) \in Seq(Messages \cup {TimedOut})
    BY <1>2, <1>6, <1>t, HeadTailProperties
  <2>3. Answers(u)' \in Nat
    BY <1>3, <1>6, <2>2, Fewer
  <2> QED BY <1>3, <1>4, <2>1, <2>3
<1>7. CASE t = Append(s, TimedOut)
  <2>1. HowMany(t, Messages) = HowMany(s, Messages)
    BY <1>2, <1>7, <1>t, Fewer
  <2> QED BY <1>3, <1>4, <2>1
<1>8. CASE t = <<>>
  <2>1. {i \in DOMAIN t : t[i] \in Messages} = {}
    BY <1>8, EmptySeq
  <2>2. Answers(u)' = 0
    BY <1>3, <2>1, FS_EmptySet DEF HowMany
  <2> QED BY <1>4, <2>2
<1> QED BY <1>1, <1>2, <1>5, <1>6, <1>7, <1>8

\* Unless somebody is killed, whoever gives up and whenever, the messages are given
\* in the order they were sent; and if nobody gives up either, to the users in the
\* order they asked.
THEOREM ServedInTurn == Spec => FirstComeFirstServed
<1>1. ASSUME Init PROVE Standing
  <2>1. Ordered(<<>>, MessageOf, queue, port) /\ Ordered(<<>>, RequestOf, queue, port)
    BY EmptySeq DEF Ordered
  <2>2. \A u \in Users : LineAt(u)
    BY <1>1, EmptySeq DEF Init, LineAt, Once, Range, InPort, InQueue
  <2>3. dropped = {} /\ order = <<>> /\ line = <<>> /\ \A u \in Users : Alive(u)
    BY <1>1 DEF Init, Alive
  <2> QED BY <2>1, <2>2, <2>3 DEF Standing
<1>2. TypeInv /\ Kept /\ Orderly /\ Standing /\ [Next]_vars => Standing'
  BY StandingPreserved
<1>3. ASSUME TypeInv, Kept, Orderly, Standing, [Next]_vars
      PROVE  [\A u \in Users : Answers(u)' > Answers(u) =>
                 /\ ~program.kills => order' = Tail(order)
                 /\ ~program.kills /\ ~program.gives_up => line' = Tail(line)]_vars
  <2>1. SUFFICES ASSUME NEW u \in Users, Answers(u)' > Answers(u), ~program.kills
                 PROVE  order' = Tail(order) /\ (~program.gives_up => line' = Tail(line))
    OBVIOUS
  <2>2. Dispatch /\ ~GiveNothing
    BY <1>3, <2>1, NoMore
  <2> QED BY <1>3, <2>1, <2>2, StandingPreserved
<1>4. Spec => []Standing
  BY <1>1, <1>2, Inductive, KeptAlways, OrderlyAlways, PTL DEF Spec
<1> QED BY <1>3, <1>4, Inductive, KeptAlways, OrderlyAlways, PTL DEF Spec, FirstComeFirstServed
=============================================================================
