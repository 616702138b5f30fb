------------------------------ MODULE Servers ------------------------------
(***************************************************************************)
(* How the simulator (lqsim) serves requests: clients and servers that     *)
(* make rendezvous and send-no-reply requests, tasks with one server,      *)
(* multi-servers with a dispatcher and workers, replies and forwarding,    *)
(* second phases, the pool of asynchronous messages, and tasks that join   *)
(* requests of several entries (lqsim/instance.cc, target.cc, task.cc).    *)
(*                                                                         *)
(* A step of an instance runs to its next receive or computation; between  *)
(* two of its steps every other instance may go on, for a computation      *)
(* takes any time.  Ports are first in first out here (see Ports).         *)
(*                                                                         *)
(* A definition marked "slip" is what the definition after it becomes      *)
(* under a plausible programming error.                                    *)
(***************************************************************************)
EXTENDS Integers, FiniteSets, SequencesExt

CONSTANTS Clients,      \* reference tasks, one customer each
          Tasks,        \* the tasks that serve
          Multi,        \* those with a dispatcher and workers
          Limit,        \* Limit[t]: how many requests t serves at a time
          Entries, TaskOf,
          Priority,     \* Priority[e]: priority of the requests to entry e
          Calls,        \* Calls[e][p]: the requests that e makes in phase p
          Forwards,     \* Forwards[e]: where a request to e may be forwarded, None: replied
          Joins,        \* Joins[e]: the entries whose requests are joined with those of e
          Pool,         \* asynchronous messages of a task
          Worlds        \* what the clients ask, and which queues are by priority

None == "none"
Modes == {"sync", "async"}
Phases == {1, 2}
Call == [to : Entries, mode : Modes]

ASSUME ServersAssumption ==
  /\ IsFiniteSet(Clients) /\ IsFiniteSet(Tasks)
  /\ Multi \subseteq Tasks /\ Limit \in [Tasks -> Nat \ {0}] /\ \A t \in Tasks \ Multi : Limit[t] = 1
  /\ TaskOf \in [Entries -> Tasks] /\ Priority \in [Entries -> Nat]
  /\ \A e \in Entries, p \in Phases : Calls[e][p] \in Seq(Call)
  /\ Forwards \in [Entries -> (SUBSET (Entries \cup {None})) \ {{}}]
  /\ Joins \in [Entries -> SUBSET Entries]
  /\ \A e \in Entries : Joins[e] # {} => e \in Joins[e] /\ TaskOf[e] \notin Multi
  /\ \A e \in Entries : \A f \in Joins[e] : TaskOf[f] = TaskOf[e] /\ Joins[f] = Joins[e]
  /\ Clients \cap Tasks = {} /\ None \notin Clients \cup Tasks \cup Entries
  /\ Pool \in Nat
  /\ \A w \in Worlds : w.asks \in [Clients -> SUBSET Call] /\ w.hol \subseteq Tasks

VARIABLES world,        \* what the clients do
          k             \* the state of the simulation
vars == <<world, k>>

\* Instances: clients, the only server or the dispatcher of a task, and its workers.
Main(t) == <<t, 0>>
Mains == {Main(t) : t \in Tasks}
Customers == {<<c, 0>> : c \in Clients}
Workers == UNION {{<<t, n>> : n \in 1..Limit[t]} : t \in Multi}
Servers == {Main(t) : t \in Tasks \ Multi} \cup Workers
Instances == Customers \cup Mains \cup Workers
NoOne == <<None, 0>>
EntriesOf(i) == {e \in Entries : TaskOf[e] = i[1]}

\* A request: who waits for the reply, or which message of the pool (slot) it is.
Request(i, e, pri, slot) == [from |-> i, entry |-> e, pri |-> pri, slot |-> slot]
Requests == [from : Instances \cup {NoOne}, entry : Entries, pri : Nat, slot : 0..Pool]
Nothing == Request(NoOne, None, 0, 0)

\* The state is a record of, for every task t,
\*   port[t]     its requests                    pending[t]  those put aside for a join
\*   hand[t]     the dispatcher's request        count[t]    its workers
\*   idle[t]     notes of idle workers           free[t]     its free messages
\*   joined[t]   entries with an open join       done[t]     entries that have come to it
\* and for every instance i
\*   at[i]       "none" before it starts         inbox[i]    requests given to worker i
\*   job[i]      the entry, phase and call it is at
\*   held[i]     for every entry of its task, the request server i has to answer
NoJob == [entry |-> None, phase |-> 1, step |-> 1]

Init ==
  /\ world \in Worlds
  /\ k = [port |-> [t \in Tasks |-> <<>>], pending |-> [t \in Tasks |-> <<>>],
          hand |-> [t \in Tasks |-> Nothing], count |-> [t \in Tasks |-> 0], idle |-> [t \in Tasks |-> <<>>],
          joined |-> [t \in Tasks |-> {}], done |-> [t \in Tasks |-> {}],
          free |-> [t \in Tasks |-> [n \in 1..Pool |-> n]],
          at |-> [i \in Instances |-> IF i \in Workers THEN "none" ELSE "idle"],
          job |-> [i \in Instances |-> NoJob], inbox |-> [i \in Instances |-> <<>>],
          held |-> [i \in Servers |-> [e \in EntriesOf(i) |-> Nothing]]]

-----------------------------------------------------------------------------
\* Sending, replying and forwarding.

Put(s, r) == [s EXCEPT !.port[TaskOf[r.entry]] = Append(@, r)]

SendSync(s, i, e) == Put([s EXCEPT !.at[i] = "calling"], Request(i, e, Priority[e], 0))

\* An asynchronous request is lost when the task has no free message.
SendAsync(s, e) ==
  LET t == TaskOf[e]
  IN IF s.free[t] = <<>> THEN s
     ELSE Put([s EXCEPT !.free[t] = Tail(@)], Request(NoOne, e, Priority[e], Head(s.free[t])))

Send(s, i, call) == IF call.mode = "sync" THEN SendSync(s, i, call.to) ELSE SendAsync(s, call.to)

FreeMessage(s, r) == [s EXCEPT !.free[TaskOf[r.entry]] = Append(@, r.slot)]

GoesOn(i) == IF i \in Customers THEN "idle" ELSE "serving"
Resume(s, i) == [s EXCEPT !.at[i] = GoesOn(i)]

\* do_forwarding: free an asynchronous message, or reply, or forward it.
Answer(s, i, e, to) ==
  LET r == s.held[i][e]
      t == [s EXCEPT !.held[i][e] = Nothing]
  IN IF r = Nothing THEN s                          \* reported as an error
     ELSE IF r.slot > 0 THEN FreeMessage(t, r)
     ELSE IF to = None THEN Resume(t, r.from)
     ELSE Put(t, [r EXCEPT !.entry = to, !.pri = 0])

-----------------------------------------------------------------------------
\* The requests that a task accepts.

HighestFirst(q) == CHOOSE n \in DOMAIN q : \A j \in DOMAIN q : q[j].pri < q[n].pri \/ (q[j].pri = q[n].pri /\ n <= j)
Next1(q, t) == IF t \in world.hol THEN HighestFirst(q) ELSE 1

\* The pending requests whose entry is available again.
Available(t) == {n \in DOMAIN k.pending[t] : k.pending[t][n].entry \notin k.joined[t]}

Serve(s, i, r) ==
  [s EXCEPT !.at[i] = "serving", !.held[i][r.entry] = r, !.job[i] = [entry |-> r.entry, phase |-> 1, step |-> 1]]

Accept(s, t, r) ==
  IF t \in Multi THEN [s EXCEPT !.hand[t] = r, !.at[Main(t)] = "assigning"] ELSE Serve(s, Main(t), r)

Forget(s, t, r) == s              \* slip
\* A request to an entry with an open join is put aside.
PutAside(s, t, r) == [s EXCEPT !.pending[t] = Append(@, r)]

TakePendingLast(t) ==             \* slip
  /\ k.at[Main(t)] = "idle" /\ Available(t) # {} /\ k.port[t] = <<>>
  /\ LET n == CHOOSE n \in Available(t) : \A j \in Available(t) : n <= j
     IN k' = Accept([k EXCEPT !.pending[t] = RemoveAt(@, n)], t, k.pending[t][n])
TakePending(t) ==
  /\ k.at[Main(t)] = "idle" /\ Available(t) # {}
  /\ LET n == CHOOSE n \in Available(t) : \A j \in Available(t) : n <= j
     IN k' = Accept([k EXCEPT !.pending[t] = RemoveAt(@, n)], t, k.pending[t][n])

Receive(t) ==
  /\ k.at[Main(t)] = "idle" /\ Available(t) = {} /\ k.port[t] # <<>>
  /\ LET n == Next1(k.port[t], t)
         r == k.port[t][n]
         s == [k EXCEPT !.port[t] = RemoveAt(@, n)]
     IN k' = IF r.entry \in k.joined[t] THEN PutAside(s, t, r) ELSE Accept(s, t, r)

-----------------------------------------------------------------------------
\* Dispatchers and workers.

\* The dispatcher gives its request to the worker whose note is the oldest.
Assign(t) ==
  /\ k.at[Main(t)] \in {"assigning", "growing"} /\ k.idle[t] # <<>>
  /\ k' = [k EXCEPT !.idle[t] = Tail(@), !.at[Main(t)] = "idle", !.hand[t] = Nothing,
                    !.inbox[Head(k.idle[t])] = Append(@, k.hand[t])]

CanGrowAnyTime(t) ==              \* slip
  k.at[Main(t)] = "assigning" /\ k.count[t] < Limit[t]
CanGrow(t) == k.at[Main(t)] = "assigning" /\ k.count[t] < Limit[t] /\ k.idle[t] = <<>>

\* Without an idle worker it makes one, if there are too few, and waits for it or another.
Grow(t) ==
  /\ CanGrow(t)
  /\ k' = [k EXCEPT !.count[t] = @ + 1, !.at[<<t, k.count[t] + 1>>] = "starting", !.at[Main(t)] = "growing"]

Announce(s, i) ==
  IF i \in Workers THEN [s EXCEPT !.at[i] = "idle", !.idle[i[1]] = Append(@, i)] ELSE [s EXCEPT !.at[i] = "idle"]

Start(i) == k.at[i] = "starting" /\ k' = Announce(k, i)

TakeWork(i) ==
  /\ k.at[i] = "idle" /\ k.inbox[i] # <<>>
  /\ k' = Serve([k EXCEPT !.inbox[i] = Tail(@)], i, Head(k.inbox[i]))

-----------------------------------------------------------------------------
\* The server cycle.

Todo(i) == Calls[k.job[i].entry][k.job[i].phase]
Busy(i) == k.at[i] = "serving"
AtCall(i) == Busy(i) /\ k.job[i].step <= Len(Todo(i))
AtEnd(i, phase) == Busy(i) /\ k.job[i].phase = phase /\ k.job[i].step > Len(Todo(i))

MakeCall(i) ==
  /\ AtCall(i)
  /\ k' = Send([k EXCEPT !.job[i].step = @ + 1], i, Todo(i)[k.job[i].step])

\* The cycle ends: a message still held is freed if it is asynchronous.  The code
\* leaves the entry's pointer to it, which nothing reads before the next request to
\* the entry sets it: an entry of asynchronous requests takes no others (the loader,
\* entry.cc:313), so that no activity that answers a rendezvous looks there.
Finish(s, i) ==
  LET e == s.job[i].entry
      r == s.held[i][e]
      t == IF r.slot > 0 THEN FreeMessage([s EXCEPT !.held[i][e] = Nothing], r) ELSE s
  IN Announce([t EXCEPT !.job[i] = NoJob], i)

SecondPhase(s, i) == [s EXCEPT !.job[i].phase = 2, !.job[i].step = 1]

\* A phase replies at its end.
Reply(i) ==
  LET e == k.job[i].entry
  IN /\ AtEnd(i, 1) /\ Joins[e] = {}
     /\ \E to \in Forwards[e] : k' = SecondPhase(Answer(k, i, e, to), i)

AllDone(t, e) == Joins[e] \subseteq k.done[t] \cup {e}

\* all_activities_done says no: the entry is busy until the join is complete.
AwaitJoin(i) ==
  LET e == k.job[i].entry
      t == i[1]
  IN /\ AtEnd(i, 1) /\ Joins[e] # {} /\ ~AllDone(t, e)
     /\ k' = Finish([k EXCEPT !.done[t] = @ \cup {e}, !.joined[t] = @ \cup {e}], i)

OpensOne(s, t, e) == [s EXCEPT !.done[t] = @ \ Joins[e], !.joined[t] = @ \ {e}]       \* slip
Opens(s, t, e) == [s EXCEPT !.done[t] = @ \ Joins[e], !.joined[t] = @ \ Joins[e]]

\* The rendezvous held for the entries F are answered, in an order that does not matter.
AnswerAll(s, i, F) ==
  LET callers == {s.held[i][f].from : f \in F}
  IN [s EXCEPT !.held[i] = [f \in EntriesOf(i) |-> IF f \in F THEN Nothing ELSE @[f]],
               !.at = [j \in Instances |-> IF j \in callers THEN GoesOn(j) ELSE @[j]]]

\* Otherwise the entries are opened and every joined rendezvous is answered.
CompleteJoin(i) ==
  LET e == k.job[i].entry
      t == i[1]
  IN /\ AtEnd(i, 1) /\ Joins[e] # {} /\ AllDone(t, e)
     /\ k' = SecondPhase(AnswerAll(Opens(k, t, e), i, {f \in Joins[e] : k.held[i][f].slot = 0}), i)

EndCycle(i) == AtEnd(i, 2) /\ k' = Finish(k, i)

-----------------------------------------------------------------------------
\* A client asks again when it has no reply to wait for.
Ask(i) ==
  /\ k.at[i] = "idle"
  /\ \E call \in world.asks[i[1]] : k' = Send(k, i, call)

Cycle(i) == TakeWork(i) \/ MakeCall(i) \/ Reply(i) \/ AwaitJoin(i) \/ CompleteJoin(i) \/ EndCycle(i)
Main1(t) == TakePending(t) \/ Receive(t) \/ Assign(t) \/ Grow(t)

Next ==
  /\ \/ \E i \in Customers : Ask(i)
     \/ \E t \in Tasks : Main1(t)
     \/ \E i \in Workers : Start(i)
     \/ \E i \in Servers : Cycle(i)
  /\ UNCHANGED world

\* Reference tasks cycle for ever, and an instance that can go on does.
Spec == Init /\ [][Next]_vars
FairSpec ==
  /\ Spec
  /\ \A i \in Customers : WF_vars(Ask(i) /\ UNCHANGED world)
  /\ \A t \in Tasks : WF_vars(Main1(t) /\ UNCHANGED world)
  /\ \A i \in Workers : WF_vars(Start(i) /\ UNCHANGED world)
  /\ \A i \in Servers : WF_vars(Cycle(i) /\ UNCHANGED world)

-----------------------------------------------------------------------------
States == {"none", "idle", "starting", "serving", "calling", "assigning", "growing"}
Maybe == Requests \cup {Nothing}

TypeOK ==
  /\ world \in Worlds
  /\ k.port \in [Tasks -> Seq(Requests)] /\ k.pending \in [Tasks -> Seq(Requests)] /\ k.hand \in [Tasks -> Maybe]
  /\ \A t \in Tasks : k.count[t] \in 0..Limit[t] /\ k.idle[t] \in Seq(Workers) /\ k.free[t] \in Seq(1..Pool)
  /\ k.joined \in [Tasks -> SUBSET Entries] /\ k.done \in [Tasks -> SUBSET Entries]
  /\ k.at \in [Instances -> States] /\ k.inbox \in [Instances -> Seq(Requests)]
  /\ k.job \in [Instances -> [entry : Entries \cup {None}, phase : Phases, step : Nat]]
  /\ \A i \in Servers : k.held[i] \in [EntriesOf(i) -> Maybe]

\* The places where task t has a request, with the request.
Places(t) ==
  {<<<<"port", t, n>>, k.port[t][n]>> : n \in DOMAIN k.port[t]}
  \cup {<<<<"pending", t, n>>, k.pending[t][n]>> : n \in DOMAIN k.pending[t]}
  \cup {<<<<"free", t, n>>, Request(NoOne, None, 0, k.free[t][n])>> : n \in DOMAIN k.free[t]}
  \cup {p \in {<<<<"hand", t, 1>>, k.hand[t]>>} : p[2] # Nothing}
  \cup (UNION {{<<<<"inbox", i, n>>, k.inbox[i][n]>> : n \in DOMAIN k.inbox[i]} : i \in {j \in Workers : j[1] = t}})
  \cup (UNION {{p \in {<<<<"held", i, e>>, k.held[i][e]>> : e \in EntriesOf(i)} : p[2] # Nothing} : i \in {j \in Servers : j[1] = t}})

\* The dispatcher and the workers agree: notes are of different idle workers with
\* nothing to do, the dispatcher's request is the only one on its way, and the
\* workers that exist are the first count of them (instance.cc:455-505, 645-675).
DispatchAgrees ==
  \A t \in Multi :
    /\ IsInjective(k.idle[t])
    /\ \A i \in Range(k.idle[t]) : i[1] = t /\ k.at[i] = "idle" /\ k.inbox[i] = <<>>
    /\ \A i \in Workers : i[1] = t =>
         /\ Len(k.inbox[i]) <= 1
         /\ (k.at[i] = "none") = (i[2] > k.count[t])
         /\ (k.at[i] = "idle" /\ k.inbox[i] = <<>>) => i \in Range(k.idle[t])
    /\ (k.hand[t] = Nothing) = (k.at[Main(t)] = "idle")
    /\ k.at[Main(t)] = "growing" => k.idle[t] # <<>> \/ \E i \in Workers : i[1] = t /\ k.at[i] = "starting"

\* Open joins: an entry is busy when it has come to its join, which lacks another
\* entry; its rendezvous is held, and nothing else is held between two cycles
\* (instance.cc:1142-1189, 1574-1590).
JoinsAgree ==
  \A t \in Tasks \ Multi :
    /\ k.joined[t] = k.done[t]
    /\ \A e \in k.joined[t] : ~(Joins[e] \subseteq k.joined[t])
    /\ k.at[Main(t)] = "idle" => \A e \in EntriesOf(Main(t)) : k.held[Main(t)][e] # Nothing => e \in k.joined[t]
    /\ k.at[Main(t)] # "idle" => k.job[Main(t)].entry \notin k.joined[t]

\* A rendezvous is in exactly one place until its caller has the reply, wherever it
\* is forwarded, put aside, handed over or joined, and no caller that goes on has
\* left one behind; and every message of a pool is free or in exactly one place:
\* none leaks and none is freed twice (instance.cc:1258-1310, task.cc:322-343).
NothingLost ==
  LET places == [t \in Tasks |-> Places(t)]
      callers == UNION {{<<t, p>> : p \in {q \in places[t] : q[2].from # NoOne}} : t \in Tasks}
  IN /\ {c[2][2].from : c \in callers} = {i \in Instances : k.at[i] = "calling"}
     /\ Cardinality(callers) = Cardinality({i \in Instances : k.at[i] = "calling"})
     /\ \A t \in Tasks :
          LET slots == {p \in places[t] : p[2].slot > 0}
          IN {p[2].slot : p \in slots} = 1..Pool /\ Cardinality(slots) = Pool

\* Dispatchers, workers and joins agree, and no request or message is lost between
\* them.
Consistent == TypeOK /\ DispatchAgrees /\ JoinsAgree /\ NothingLost

\* A multi-server makes a worker only when each of its workers is serving a request,
\* has been given one, or has not come up yet (instance.cc:484-499).
GrowsWhenBusy ==
  [][\A t \in Multi : k.count'[t] > k.count[t] =>
       \A i \in Workers : i[1] = t /\ i[2] <= k.count[t] => k.at[i] \in {"starting", "serving", "calling"} \/ k.inbox[i] # <<>>]_vars

\* What a task promises to its callers, in module Stations.
WaitingAt(t) ==
  (IF k.hand[t] = Nothing THEN <<>> ELSE <<k.hand[t]>>) \o k.pending[t] \o k.port[t]
BusyAt(t) == Cardinality({i \in Servers : i[1] = t /\ (k.at[i] \in {"serving", "calling"} \/ k.inbox[i] # <<>>)})
InOrder == Tasks \ UNION {w.hol : w \in Worlds}
Abstract == INSTANCE Stations WITH Tasks <- InOrder, waiting <- [t \in InOrder |-> WaitingAt(t)],
  busy <- [t \in InOrder |-> BusyAt(t)], closed <- [t \in InOrder |-> k.joined[t]]
\* Every task that does not serve by priority is a station: requests start in the
\* order in which they came, but for those of busy entries, at most Limit at a time,
\* and one that can start is not kept waiting (instance.cc:455-505, 1142-1189).
StationsServe == Abstract!Spec

\* A client that waits for a reply gets it, unless a task it depends on serves by
\* priority (instance.cc:1258-1310).
Answered ==
  \A i \in Customers : (k.at[i] = "calling" /\ world.hol = {}) ~> (k.at[i] # "calling")

\* A task with priorities serves a request of the highest entry priority of those
\* waiting (instance.cc:1169, 455-505; target.cc:73).
HighestServed ==
  [][\A t \in world.hol : \A r \in Range(WaitingAt(t)) \ Range(WaitingAt(t)') :
       \A q \in Range(WaitingAt(t)') : Priority[q.entry] <= Priority[r.entry]]_vars
=============================================================================
