----------------------------- MODULE SharedPort -----------------------------
(***************************************************************************)
(* Shared ports of parasol (para_library.c): a port that any task may      *)
(* receive from, kept by a task of its own, the dispatcher.                *)
(*                                                                         *)
(* Users do not receive from the shared port but send a request there and  *)
(* wait at their own blind port; after a time-out they send a cancellation *)
(* after it.  The dispatcher takes requests, cancellations and messages in *)
(* the order they come, and sends itself what cannot be matched yet: its   *)
(* queue port holds either requests or messages, and state counts them.    *)
(*                                                                         *)
(* Each action is what a task does from one scheduling point to the next;  *)
(* between them any task may run, which stands for cpus that are busy with *)
(* other work.  Programs say what the users do: whether they give up,      *)
(* whether they are killed, and whether a time-out can fall between two    *)
(* steps of others (races) or finds the dispatcher waiting and the cpu of  *)
(* its user idle.                                                          *)
(*                                                                         *)
(* A definition marked "slip" is what the definition after it becomes      *)
(* under a plausible programming error.                                    *)
(***************************************************************************)
EXTENDS Integers, Sequences, FiniteSets, Functions

CONSTANTS Users,        \* tasks that receive from the shared port
          Messages,     \* bound: messages under way at the same time
          Programs      \* what the users of a run may do

ASSUME PortAssumption ==
  /\ IsFiniteSet(Users) /\ IsFiniteSet(Messages) /\ Users \cap Messages = {}
  /\ Programs \subseteq [gives_up : BOOLEAN, kills : BOOLEAN, races : BOOLEAN]

TimedOut == "ACK_TIMEOUT"
Empty == "empty"        \* a message that has lost its type and its text
ASSUME NamesAssumption == TimedOut \notin Messages /\ Empty \notin Users \cup Messages

Letters == Messages \cup {Empty}

VARIABLES
  program,      \* what the users of this run do
  port,         \* the shared port: requests, cancellations and messages
  queue,        \* the dispatcher's queue port: reply ports, messages or empty ones
  state,        \* requests less messages in the queue port
  dispatcher,   \* serving, or in the queue port: waiting or spinning for ever
  user,         \* state of each user
  blind,        \* messages at the blind port of each user
  order,        \* history: messages sent and not yet given to a user
  line,         \* history: users that asked and were not yet given one
  dropped       \* history: messages the dispatcher has given to nobody

vars == <<program, port, queue, state, dispatcher, user, blind, order, line, dropped>>

Item == [type : {"SP_REQUEST", "SP_CANCEL"}, of : Users] \cup [type : {"message"}, of : Messages]
Request(u) == [type |-> "SP_REQUEST", of |-> u]
Cancel(u) == [type |-> "SP_CANCEL", of |-> u]
Message(m) == [type |-> "message", of |-> m]

\* s without x, which is in it at most once.
Without(s, x) ==
  IF x \in Range(s)
  THEN LET i == CHOOSE i \in DOMAIN s : s[i] = x
       IN SubSeq(s, 1, i - 1) \o SubSeq(s, i + 1, Len(s))
  ELSE s

Alive(u) == user[u] # "dead"

\* The ports hold what their owners take from them, never one for another.
TypeOK ==
  /\ program \in Programs
  /\ port \in Seq(Item) /\ queue \in Seq(Users \cup Letters) /\ state \in Int
  /\ dispatcher \in {"serving", "waits", "spins"}
  /\ user \in [Users -> {"idle", "asking", "polling", "waiting", "ready", "dead"}]
  /\ blind \in [Users -> Seq(Messages \cup {TimedOut})]
  /\ order \in Seq(Messages) /\ line \in Seq(Users) /\ dropped \subseteq Messages

Init ==
  /\ program \in Programs
  /\ port = <<>> /\ queue = <<>> /\ state = 0 /\ dispatcher = "serving"
  /\ user = [u \in Users |-> "idle"] /\ blind = [u \in Users |-> <<>>]
  /\ order = <<>> /\ line = <<>> /\ dropped = {}

\* A user whose time-out is over and who has not yet given up its request.
GivingUp(u) == blind[u] # <<>> /\ Head(blind[u]) = TimedOut

\* Whoever runs may do so now: the dispatcher has not taken its cpu for good,
\* and without races nobody comes between a time-out and its cancellation.
MayRun(t) ==
  /\ dispatcher # "spins"
  /\ program.races \/ \A u \in Users : GivingUp(u) => t = u

-----------------------------------------------------------------------------
\* Users: ps_receive_shared.

\* port_send of SP_REQUEST; with IMMEDIATE the user then sleeps for no time.
Ask(u, next) ==
  /\ user[u] = "idle" /\ MayRun(u)
  /\ user' = [user EXCEPT ![u] = next]
  /\ port' = Append(port, Request(u))
  /\ line' = Append(line, u)
  /\ UNCHANGED <<program, queue, state, dispatcher, blind, order, dropped>>

\* ps_receive at the blind port blocks.
Wait(u) ==
  /\ user[u] = "asking" /\ blind[u] = <<>> /\ MayRun(u)
  /\ user' = [user EXCEPT ![u] = "waiting"]
  /\ UNCHANGED <<program, port, queue, state, dispatcher, blind, order, line, dropped>>

\* The message at the head of the blind port ends the call.
Take(u) ==
  /\ user[u] \in {"asking", "polling", "ready"} /\ MayRun(u)
  /\ blind[u] # <<>> /\ ~GivingUp(u)
  /\ user' = [user EXCEPT ![u] = "idle"]
  /\ blind' = [blind EXCEPT ![u] = Tail(@)]
  /\ UNCHANGED <<program, port, queue, state, dispatcher, order, line, dropped>>

\* end_receive_handler; without races when nothing is on its way to the user.
TimeOut(u) ==
  /\ program.gives_up /\ user[u] = "waiting" /\ dispatcher # "spins"
  /\ program.races \/ (port = <<>> /\ \A v \in Users : ~GivingUp(v))
  /\ user' = [user EXCEPT ![u] = "ready"]
  /\ blind' = [blind EXCEPT ![u] = Append(@, TimedOut)]
  /\ UNCHANGED <<program, port, queue, state, dispatcher, order, line, dropped>>

Cancels(u) == port' = Append(port, Cancel(u))

\* The call returns ACK_TIMEOUT, after the wait or at once (IMMEDIATE).
GiveUp(u) ==
  /\ MayRun(u)
  /\ \/ user[u] = "ready" /\ GivingUp(u)
     \/ /\ user[u] = "polling" /\ blind[u] = <<>>
        /\ program.races \/ port = <<>>
  /\ user' = [user EXCEPT ![u] = "idle"]
  /\ blind' = [blind EXCEPT ![u] = IF GivingUp(u) THEN Tail(@) ELSE @]
  /\ Cancels(u)
  /\ line' = Without(line, u)
  /\ UNCHANGED <<program, queue, state, dispatcher, order, dropped>>

\* ps_kill releases the blind port with its messages; its requests stay.
\* Somebody who can kill is left.
Kill(u) ==
  /\ program.kills /\ Alive(u) /\ dispatcher # "spins"
  /\ \E v \in Users \ {u} : Alive(v)
  /\ user' = [user EXCEPT ![u] = "dead"]
  /\ blind' = [blind EXCEPT ![u] = <<>>]
  /\ line' = Without(line, u)
  /\ UNCHANGED <<program, port, queue, state, dispatcher, order, dropped>>

\* Another task sends m to the shared port.
Send(m) ==
  /\ m \notin Range(order) \cup UNION {Range(blind[u]) : u \in Users}
  /\ dispatcher # "spins" /\ (program.races \/ \A u \in Users : ~GivingUp(u))
  /\ port' = Append(port, Message(m))
  /\ order' = Append(order, m)
  /\ UNCHANGED <<program, queue, state, dispatcher, user, blind, line, dropped>>

-----------------------------------------------------------------------------
\* The dispatcher takes the next item of the shared port and is done with it
\* when it takes another; x is that item's user or message.

Woken(u) == IF user[u] = "waiting" THEN "ready" ELSE user[u]

\* port_send of m to the blind port of u, which wakes u if it waits there.
Give(m, u) ==
  /\ blind' = [blind EXCEPT ![u] = Append(@, m)]
  /\ user' = [user EXCEPT ![u] = Woken(u)]
  /\ order' = Without(order, m)
  /\ line' = Without(line, u)

GiveNothing == UNCHANGED <<blind, user, order, line>>

\* The dispatcher receives from an empty queue port: only it sends there.
Stuck ==
  dispatcher' = "waits" /\ GiveNothing /\ UNCHANGED <<queue, dropped>>

CountsLater == state > 0                \* slip
NobodyIsOwed == state + 1 > 0

Discarded == queue' = Tail(queue)       \* slip
Requeued == queue' = Append(Tail(queue), Head(queue))

\* SP_REQUEST: queue the request, or answer it with the oldest message.
HandleRequest(u) ==
  \/ /\ NobodyIsOwed
     /\ queue' = Append(queue, u) /\ state' = state + 1
     /\ GiveNothing /\ UNCHANGED <<dispatcher, dropped>>
  \/ /\ ~NobodyIsOwed /\ queue = <<>>
     /\ Stuck /\ state' = state + 1
  \/ /\ ~NobodyIsOwed /\ queue # <<>> /\ Alive(u)
     /\ Give(Head(queue), u) /\ queue' = Tail(queue) /\ state' = state + 1
     /\ UNCHANGED <<dispatcher, dropped>>
  \/ /\ ~NobodyIsOwed /\ queue # <<>> /\ ~Alive(u)
     /\ Requeued
     /\ GiveNothing /\ UNCHANGED <<state, dispatcher, dropped>>

TwoLess == state' = state - 2           \* slip
OneLess == state' = state - 1

\* What the cancellation does not look for is sent on with its reply port only:
\* a request is nothing else, a message loses its type and its text.
Emptied(items) == [i \in DOMAIN items |-> IF items[i] \in Messages THEN Empty ELSE items[i]]

\* SP_CANCEL: look through the queue, sending on to its end what is not it.  If it
\* is not there, the dispatcher turns the queue round for ever.
HandleCancel(u) ==
  /\ IF u \in Range(queue)
     THEN /\ \E i \in DOMAIN queue :
               /\ queue[i] = u /\ \A j \in 1..(i - 1) : queue[j] # u
               /\ queue' = SubSeq(queue, i + 1, Len(queue)) \o Emptied(SubSeq(queue, 1, i - 1))
          /\ OneLess /\ UNCHANGED dispatcher
     ELSE /\ queue' = Emptied(queue)
          /\ dispatcher' = IF queue = <<>> THEN "waits" ELSE "spins"
          /\ UNCHANGED state
  /\ GiveNothing /\ UNCHANGED dropped

There == {i \in DOMAIN queue : i <= state /\ Alive(queue[i])}
LastInLine == {i \in There : \A j \in There : j <= i}           \* slip
FirstInLine == {i \in There : \A j \in There : i <= j}

CountsOne(i) == state' = state - 1      \* slip
CountsAll(i) == state' = state - i

\* A message: queue it, or give it to the first requester that is there still.
HandleMessage(m) ==
  \/ /\ state <= 0
     /\ queue' = Append(queue, m) /\ state' = state - 1
     /\ GiveNothing /\ UNCHANGED <<dispatcher, dropped>>
  \/ /\ state > 0
     /\ \E i \in FirstInLine :
          /\ Give(m, queue[i])
          /\ queue' = SubSeq(queue, i + 1, Len(queue)) /\ CountsAll(i)
     /\ UNCHANGED <<dispatcher, dropped>>
  \/ /\ state > 0 /\ There = {}
     /\ queue' = SubSeq(queue, state + 1, Len(queue)) /\ state' = -1
     /\ dispatcher' = IF state > Len(queue) THEN "waits" ELSE dispatcher
     /\ dropped' = dropped \cup {m}
     /\ GiveNothing

Dispatch ==
  /\ dispatcher = "serving" /\ port # <<>>
  /\ program.races \/ \A u \in Users : ~GivingUp(u)
  /\ LET x == Head(port).of IN
       \/ Head(port).type = "SP_REQUEST" /\ HandleRequest(x)
       \/ Head(port).type = "SP_CANCEL" /\ HandleCancel(x)
       \/ Head(port).type = "message" /\ HandleMessage(x)
  /\ port' = Tail(port) /\ UNCHANGED program

Next ==
  \/ Dispatch
  \/ \E m \in Messages : Send(m)
  \/ \E u \in Users : \/ Ask(u, "asking")
                      \/ program.gives_up /\ Ask(u, "polling")
                      \/ Wait(u) \/ Take(u) \/ TimeOut(u) \/ GiveUp(u) \/ Kill(u)

Spec == Init /\ [][Next]_vars

-----------------------------------------------------------------------------
Asking(u) == Cardinality({i \in DOMAIN port : port[i] = Request(u)})
             + Cardinality({i \in DOMAIN queue : queue[i] = u})
Answers(u) == Cardinality({i \in DOMAIN blind[u] : blind[u][i] \in Messages})

\* The dispatcher's counter is what its queue port holds, requests counted
\* upwards and messages downwards, and the queue port never holds both: nobody
\* waits beside a message.
CountAgrees ==
  dropped = {} =>
    \/ queue \in Seq(Users) /\ Len(queue) = state
    \/ queue \in Seq(Letters) /\ Len(queue) + state = 0

\* The dispatcher never receives from an empty queue port, and finds every
\* request it is to cancel, unless it has dropped a message.
DispatcherServes == dropped = {} => dispatcher = "serving"

\* A call to ps_receive_shared has one request or one answer under way, and
\* none is left once it has returned but what its cancellation will remove:
\* no user is given a message it did not ask for.
OneAnswerPerRequest ==
  dispatcher = "serving" =>
    \A u \in Users :
      /\ user[u] = "idle" =>
           /\ blind[u] = <<>>
           /\ Asking(u) = Cardinality({i \in DOMAIN port : port[i] = Cancel(u)})
      /\ user[u] \in {"asking", "polling", "waiting", "ready"} =>
           Asking(u) + Answers(u) = 1 + Cardinality({i \in DOMAIN port : port[i] = Cancel(u)})

\* A message sent to the shared port stays there or in the queue port, with its
\* type and text, until it is given to a user; only one that nobody is left to
\* take is dropped.
MessagesKept ==
  Range(order) = dropped \cup {m \in Messages : Message(m) \in Range(port) \/ m \in Range(queue)}

\* Neither calls nor messages are lost or doubled between users and dispatcher.
NothingLost == OneAnswerPerRequest /\ MessagesKept

\* The message given is the oldest, and the user it is given to has asked
\* before the others.  A cancellation turns the queue of requests, and a
\* message that a killed user could not be given goes behind the others.
FirstComeFirstServed ==
  [][\A u \in Users : Answers(u)' > Answers(u) =>
       /\ ~program.kills => order' = Tail(order)
       /\ ~program.kills /\ ~program.gives_up => line' = Tail(line)]_vars

\* Users ask again and again, and every task that can run is given a cpu.
FairSpec ==
  /\ Spec /\ WF_vars(Dispatch)
  /\ \A u \in Users : /\ WF_vars(Ask(u, "asking") \/ (program.gives_up /\ Ask(u, "polling")))
                       /\ SF_vars(Wait(u) \/ Take(u) \/ GiveUp(u))

\* Every message is taken by a user, also if users give up now and then.
MessagesTaken ==
  \A m \in Messages :
    (Message(m) \in Range(port) /\ ~program.kills)
      ~> (m \notin Range(order) \cup UNION {Range(blind[u]) : u \in Users})

\* Messages are given out in order, and to the last.
ServedInOrder == FirstComeFirstServed /\ MessagesTaken
=============================================================================
