# Verification of the layered queueing simulator

The repository holds the layered queueing toolset: an analytic solver (`lqns`),
a simulator (`lqsim`), the simulation kernel it runs on (`parasol`), and the
libraries and converters around them. The solver and the converters are
sequential programs over real numbers or text. What is concurrent, and what
this project models, is the simulator: `lqsim` builds a system of parasol tasks
out of a model file, and parasol runs these tasks as coroutines on simulated
processors. Tasks that exchange messages, count each other, lock and unlock and
are preempted in between can go wrong in orders that no regression model meets.

## 1. Inventory

| component | state | operations | interaction | hard behaviour | correct when |
|---|---|---|---|---|---|
| parasol scheduler (`para_library.c`) | task table, per node a ready queue and cpus, event calendar, the hot task | calls of a task (compute, hold, sync, sleep, receive), calls about a task (suspend, resume, kill, create, adjust priority, awaken, send), event handlers | every call of every other component ends in `find_host`, `find_ready` or `find_priority`; shared state is the tables | preemption inside a call, several events of one task, quantum against sync, suspension in any state | one task per cpu and one cpu per task, queue = ready tasks in order, no cpu idles, no handler aborts, no computation is shortened, nobody is forgotten |
| parasol spin locks | owner, spinners and link of each lock; first lock and awaited lock of each task | `ps_lock`, `ps_unlock`, `release_locks` (from `ps_suspend`, `ps_kill`) | the scheduler preempts spinners (`dq_lock`) | hand-over to a spinner while it is preempted, suspension of owners, nested locks | owners, lists and queues agree, a lock given is kept, stopped tasks own none |
| parasol shared ports | the port, the dispatcher's queue port and its counter `state`, the users' blind ports | request, cancellation, message; take, give up | a dispatcher task matches requests with messages; it sends itself what must wait | time-out against answer, cancellation after the answer, killed users with requests under way | one answer per request, messages kept and given in order, the dispatcher never blocks in its own queue |
| parasol ports, port sets, buses and links | queue of messages and owner of each port, members of each set, messages on each medium | send, resend, broadcast, receive with time-out and discipline, pass, release, join and leave a set, transmit | wakes receivers through `find_host`; a surrogate task forwards the messages of each member of a set | time-out against message, a port that changes hands or leaves its set while its owner is blocked on it | no message lost or doubled, order kept, no receiver forgotten, members of a set owned by its surrogates |
| parasol semaphores | count and queue of waiters | wait, signal, reset | suspend and resume of the scheduler | a resumed task that preempts the reset, killed or resumed waiters | count and queue agree, one holder of a lock, every waiter served |
| parasol CFS | per cpu a red-black tree of groups and one of tasks for each group, current entities, loads | arrive, leave, update, preempt, cap | replaces the ready queue of `find_host`, `find_ready`, `find_priority` | nodes that move inside a tree, groups that come and go with their tasks | trees are sorted lists, groups follow their tasks, the current entity is what runs |
| parasol tables, calendar, statistics | tables, lists | internal | used by all of the above | growth moves a table | data structures are what they say |
| lqsim read-write lock | reader and writer counters, two internal queues, token states | the four lock and unlock requests | six kinds of task exchange messages over nine kinds of port | admission long before service, order of messages on shared ports | mutual exclusion, every unlock finds its token, no client stranded |
| lqsim fork-join | idle and active threads, two ports, local join counter | spawn, reap, wait with quorum, flush | a shared port hands branches to threads; completions come back | threads of an earlier quorum still running, completions in any order | the join follows its own quorum, every fork joins, a cycle leaves nothing behind |
| lqsim semaphore task | tokens, notes at two dispatchers | wait, signal | message passing between the dispatchers and the tokens | a signal that overtakes the note of its token | tokens are conserved, every signal that ends a wait is heard |
| lqsim multi-server and workers | dispatcher's request, notes of idle workers, number of workers | receive, assign, grow, serve | message passing | a worker that becomes idle while one is made | no request lost, no worker too many, first come first served |
| lqsim synchronization join | join lists of entries, pending messages | receive, put aside, take up again, join | two entries of one task | a request for a closed entry | every deferred request is served, in order |
| lqsim rendezvous and forwarding | free list of messages, held messages | call, send, forward, reply, second phase | all of the above | messages freed at the reply, at the end, at a join or by whom they were forwarded to | one reply per rendezvous, no message of the pool leaks |
| lqsim model, entries, activities, processors, results | built at start, then read | random choice of calls and branches | parameters of the above | numerical | not modelled |
| lqns, libmva, qnsolver, lqiolib, lqx, petrisrvn, lqn2ps, lqn2csv, lqngen, srvndiff | numerical or text, one thread | | files | | not modelled |

`PROJECT.json` lists each component with its status, and under `hazards` what can
go wrong in this code, each with its line and the properties that would show it.

## 2. Modules

| module | what it models |
|---|---|
| `RWLock` | the read-write lock task of lqsim: `RWLock_Server`, `Semaphore`, `Signal`, `Token`, `Writer_Token` and their clients |
| `ReadWriteLock` | what a read-write lock promises to its clients; `RWLock` refines it |
| `ForkJoin` | the fork, the threads, the join with a quorum and the flush of one lqsim task |
| `Scheduler` | one parasol node: tasks, cpus, ready queue, events, under FIFO, HOL and PR |
| `SpinLocks` | parasol's spin locks over an abstract processor |
| `SharedPort` | a shared port of parasol, its dispatcher and the tasks that receive from it |
| `Ports` | parasol ports, receives in every discipline with time-outs, port sets and their surrogates, buses and links |
| `Semaphores` | parasol semaphores, composed with `Scheduler` (it EXTENDS it and joins its steps with the scheduler's) |
| `RunQueue`, `FairScheduler` | the red-black tree of the completely fair scheduler, and the queues of groups and tasks built of such trees |
| `Servers` | rendezvous, multi-servers, joins, forwarding and the pool of messages of lqsim |
| `Stations` | what a task of lqsim promises to its callers: a first-come-first-served station; `Servers` refines it |
| `SemaphoreTask` | the semaphore task of lqsim |
| `RWLockMC`, `ForkJoinMC`, `SchedulerMC`, `SpinLocksMC`, `SharedPortMC`, `PortsMC`, `SemaphoresMC`, `FairSchedulerMC`, `ServersMC`, `SemaphoreTaskMC` | finite instances |
| `RWLockProofs`, `ForkJoinProofs`, `SchedulerProofs`, `SpinLocksProofs`, `SharedPortProofs`, `SemaphoreTaskProofs`, `ServersProofs`, `PortsProofs` | theorems (those about `Semaphores` are in `SchedulerProofs`) |

The modules meet where the code does. `Semaphores` runs on the model of the scheduler
itself. `ForkJoin` has the shared port of its threads as a queue of branches and a line of
requests, which is what `SharedPort` shows it to be for users without time-outs. `Servers`,
`SemaphoreTask` and `RWLock` take ports as queues, as `Ports` shows them to be under FIFO.
`Ports`, `Servers` and `SemaphoreTask` let every task go on at any moment, which covers all
the orders a scheduler of any discipline could choose. Modules whose instances differ in
what their tasks do have a constant set of `Worlds`, `Nodes` or `Programs`, and `Init`
chooses one: a single run checks them all.

Definitions marked *slip* are what the next definition becomes under a plausible
error, such as a dropped guard. No formula uses them; they serve to check that
each property notices the error (`mutants` in `PROJECT.json`).

### RWLock

The server's locals are `readers`, `activeReaders` and `writers`. `port[p]` is the
queue of each parasol port: of the server, of the internal queues of readers and
writers, of the dispatchers and of each token. A message is represented by the
client that sent it. That loses nothing: a client is blocked in its rendezvous
from the request to the reply, so it has at most one message, and the entry
called is the state of the client (`pc`). `workerPort`, `signalPort` and
`signalPort2` are the ports by which tokens announce themselves.

Each branch of `RWLock_Server::run` is one action (`ServeRLock`, `ServeRUnlock`,
`ServeWLock`, `ServeWUnlock`): the task runs without interruption from one blocking
receive to the next, and its receives on internal queues do not block. Their
results are unchecked in the code; the variable `undefined` records a receive
from an empty queue whose result is used, and `noWait` an unlock that is dropped.
`server_cycle` is two steps, the reply and the end of the cycle, because a second
phase goes on after the reply while the client is free to call again.

Clients follow the protocol (an unlock of the kind that was locked, by a client
that holds the lock), as a valid model's do. `Token_r` (tokens initially taken)
does not occur in read-write locks.

### ForkJoin

`parent` is the scheduling state of the forking task: while it is `hot` nobody
else moves, which is how coroutines of one processor behave. `spawn_activities` is
`Fork`, `Reap`, `ReuseThread`, `CreateThread` and `ThreadCreated`; `wait_for_threads`
is `JoinReceive`; `flush_threads` is `FlushReceive`; `thread_wait` is in all of them.
`startPort` with `requests` is the shared port and its dispatcher (without time-outs,
as no thread uses one), `threadPort` the port of completions. The processor is
FIFO; its other users and all calls of the branches appear as delays of any length.
`finished`, the flag `current` of a message and `passes` are history: they tell the
branches of this pass of the fork from those of an earlier one, which the code cannot,
and whether the cycle has passed the fork before.

### Scheduler

The kernel state is one record `k`, because the code's routines call each other
and change all of it: `run` (run_task of each cpu), `hp`, `st`, `pri`, `rtrq` (the
ready queue), the events `tep`, `qep` and `rtoep` of each task, `rct` (time left is
only told from none), `qx`, `nmess`, `htp` (the hot task) and `abort`. `Ready`,
`FindHost`, `FindReady`, `FindPriority`, `SuspendTask`, `KillTask` and `PortSend` map
states to states as the C functions of those names do. A context switch in the
middle of a C function is the change of `htp`; the caller's remaining statements
after the switch are those of `ReceiveAgain`, the only loop that goes on working.
`quanta` counts the END_QUANTUM events of a task in the calendar, of which the
task only knows the last.

Time is abstract. Events are taken in any order, except that END_BLOCK events, due
at once, come first. Every order of arrival times is thus covered, and more:
a property that holds is independent of durations. The task `Outside` stands for
the tasks of other nodes, which call into this one.

A node's discipline, quantum, cpus, priorities, host-bound tasks and the calls that
occur on it are the constant record `Nodes`, and `Init` chooses one of them: one run
checks all of them.

### SpinLocks

`owner`, `queue`, `count` and `next` are the fields of a lock, `lockList` and
`spinLock` those of a task. A queue is a set, because `ps_choice` picks any of its
members, with its `count` kept separately as the code does. `ps_lock` is `Lock`
and, after the task was off its cpu, `LockAgain`, each a round of its loop.
`release_locks` is a loop of steps (`ReleaseOne`, `ReleaseEnd`) during which nobody
else moves (`Quiet` is false), because it follows links that it changes itself.
`has` is history. `Programs` says how tasks use locks; `Init` chooses one.

### SharedPort

`port` is the shared port, `queue` and `state` are the dispatcher's queue port and counter,
`blind[u]` is the blind port of a user. A request is represented by the user that made it,
since the code knows it by the user's blind port. `ps_receive_shared` is `Ask` (the
SP_REQUEST), `Wait` (the receive that blocks), `Take`, and `GiveUp` (the SP_CANCEL); with
IMMEDIATE the user is `polling` in between. `TimeOut` is `end_receive_handler`. A round of
`shared_port_dispatcher` is `Dispatch`: it receives from its own queue port only what is
there, or blocks (`dispatcher` is `waits`) or turns the queue round for ever (`spins`). Both
are final, because only the dispatcher sends to the queue port. A cancellation sends what it
does not look for on to the end of the queue port, with its reply port alone: that is all
of a request, but a message loses its type and its text (`Emptied`). The model empties and turns the
queue in one step, since a dispatcher that spins lets nobody else run. `Kill` releases the blind
port with its messages but leaves the requests that name it, so that the dispatcher's
`port_send` to it fails.

`order`, `line` and `dropped` are history: the messages not yet given out, the users that
have asked and were not yet given one, in order, and the messages that were dropped.
`Programs` says what the users of a run may do; without `races` a user gives up only
when the port is empty and nobody comes between its time-out and its cancellation.

### Ports

The record `k` has the tables of tasks and ports. Each system call is an action: `SendPriority`,
`Resend` (also `port_send`, which leaves the priority that the message's storage had before),
`Broadcast`, `Transmit`, `Receive` with a discipline and a mode, `Pass`, `Allocate`, `Release`,
`JoinPortSet`, `LeavePortSet`. A call ends where the task blocks or returns; the rest of a receive,
once a message or time-out has woken the task, is `Look`, and so anything may happen to the port in
between. `TimeOut` is `end_receive_handler`: a time-out is a message in the port, as in the code.
A broadcast, a pass or a member that leaves its set sends several messages; so `Deliver` takes a sequence
of them, and `Part` is what a leaving member takes out of its set's queue. `Above` are the tasks whose
sons a task is among, which `ancestor` finds by a loop. `Forward` is the loop of a surrogate and `EndTransmission` is `end_trans_handler`. `abort` records
the two places where a handler would use a task that is not what it expects. A killed surrogate frees
the ports it owns. `received` and `lost` are history.

### Semaphores

`WaitSemaphore`, `SignalSemaphore` and `ResetSemaphore` change `sem` and call `SuspendTask` and `FindHost` of
`Scheduler` on the same `k`. A reset resumes the waiters in a loop that a resumed task may interrupt;
so each resumption is a step (`ResetNext`) and the queue is emptied in the last one (`ResetEnd`).
`Elsewhere` is every other step of the scheduler, except calls that would disturb a waiter, which a
semaphore does not notice. `holders` is history.

### RunQueue and FairScheduler

`RunQueue` is the tree with its pointers, colours and the pointer to the leftmost node: `InsertNode` and
`DeleteNode` are `insert_rb_node` and `delete_rb_node` with their repair loops as recursive operators, the
mirrored halves written once. `FairScheduler` has a tree of groups for each cpu and a tree of tasks
for each group on it, and the calls that move entities between them: `EnqueueTask`, `DqTask`, `FairTask`,
`Updates`, `FindReady`, `FindHost`, `FindPriority`, `CapHandler`. Accounts are sums of real numbers in the
code, so a key is any value. `order` is history: the list a queue should be.

### Servers and Stations

An instance of lqsim is a client, the only server or the dispatcher of a task (`<<t, 0>>`), or a worker
(`<<t, n>>`). A step of an instance goes to its next receive, reply or computation. `TakePending` and `Receive`
are `wait_for_message` with its list of pending messages; `Assign` and `Grow` are `Multiserver::run`;
`TakeWork` is `Worker::run`; `MakeCall`, `Reply`, `EndCycle` are `server_cycle`, and `AwaitJoin` and `CompleteJoin`
are `all_activities_done`; `AnswerAll` is the loop that replies to every joined rendezvous. `Answer` is `do_forwarding`: it frees, replies to or forwards the request held.
`Send` takes a message of the pool for a send-no-reply request and drops the request when there is none.
The refinement maps `waiting` to the dispatcher's request, those pending and those in the port, in this order,
`busy` to the workers that have a request and `closed` to the entries with an open join. `Stations` lets a
request start only if those before it are for closed entries, and obliges one that can start to do so.

### SemaphoreTask

`Accept` and `Give` are the dispatcher of the wait entry (`Semaphore::run`), `Hear` and `Match` that of the
signal entry (`Signal::run`), and the steps of a token are one loop of `Token::run` or `Token_r::run`, which differ in when they send
their notes (`BeforeWait`, `AfterWait`, `BeforeSignal`, `AfterSignal`). `deaf` is history: clients whose signal found no
token although it ended a wait of theirs.

## 3. Runs

| run | instance | what it shows |
|---|---|---|
| `rwlock` | 3 clients, 2 tokens; FairSpec | `MutualExclusion`; `Consistent`: bounded readers, no lost unlock, no use of an empty queue, nobody stranded, reset at rest, replies of the right kind; `ClientsServed`: writers and unlocks are served; `ImplementsReadWriteLock` |
| `forkjoin` | 1 of 2 branches, 3 threads, repeated forks in a cycle; FairSpec | `Consistent`: the counters are the outstanding messages, each branch has a thread, a cycle leaves nothing behind; the first join of a cycle follows its quorum (`JoinFollowsQuorum`), what a join waits for can still come (`JoinIsReachable`), and every fork joins and every flush ends (`CyclesComplete`) |
| `forkjoin_lost` | full join of 3 branches | violation: the reap loop takes a completion the join waits for |
| `scheduler` | 3 tasks; six kinds of node (below) | `Consistent`: cpus, queue and task states agree; `CpusWellUsed`: no cpu idles beside a ready task, the highest priority runs; `NoAbort`, `NoneForgotten`, `PreemptionKeepsTime` |
| `spinlocks` | 3 tasks, 2 locks; three programs | owners, lists and queues agree, stopped tasks own nothing (`NoLockLeaked`), nobody spins in vain, locks are kept |
| `sharedport` | 3 users, 2 messages; users that wait, that give up at quiet moments, or that are killed at any time; FairSpec | counter and queue agree, the dispatcher never blocks, one answer per request and no message lost (`NothingLost`), given to the first in line and taken (`ServedInOrder`) |
| `ports` | 3 tasks, 5 ports, 1 surrogate, 3 messages; eight worlds; FairSpec | owners and members agree, no receiver sleeps beside a message or on a port it lost, every message arrives once, in order and in time, a receive with a time-out returns |
| `servers` | 3 clients, multi-servers with 2 and with 3 workers, 12 entries of 4 tasks, pool of 2; six worlds; FairSpec | dispatchers, workers and joins agree and no request or message is lost or doubled (`Consistent`), a worker is made only when no other is free (`GrowsWhenBusy`), every task refines its station, every rendezvous is answered |
| `semaphoretask` | 3 clients, 2 tokens; six worlds; FairSpec | every token is accounted for, every signal is heard, every call returns |
| `semaphoretask_taken` | the same with tokens that start taken and a second phase | violation: a signal finds no token |
| `semaphores` | 3 tasks on one cpu: a lock under FIFO and HOL with a quantum; signals and resets from outside; SemFairSpec | count, queue and scheduler agree, one holder, every waiter is served, round robin |
| `fair` | 6 tasks in one queue, which are suspended and updated; 3 tasks in 2 groups on one and on two cpus, one group capped | queues, groups, current entities and loads agree; every tree is red-black and the sorted list it should be |

More counterexamples and a passing run are kept as configurations, for example
`tlc -config ForkJoinStale.cfg ForkJoinMC`:

| configuration | module | property | shows |
|---|---|---|---|
| `ForkJoinStale.cfg` | `ForkJoinMC` | `EveryJoinFollowsQuorum` | a completion of an earlier pass is counted |
| `SchedulerTimeout.cfg` | `SchedulerMC` | `NoAbort` | the time-out of a suspended receiver aborts the simulation |
| `SchedulerSuspend.cfg` | `SchedulerMC` | `ComputesFully` | the rest of a suspended computation is lost |
| `SchedulerSync.cfg` | `SchedulerMC` | `WakersExist` | a task stays in sync with no event of its own |
| `SchedulerSon.cfg` | `SchedulerMC` | `PreemptionKeepsTime` | a son whose priority is raised above its hot parent's loses the rest of its computation |
| `SchedulerQuantum.cfg` | `SchedulerMC` | `NoAbort` | the quantum event of a task taken off its cpu by a change of priority aborts the simulation |
| `SpinLocksNested.cfg` | `SpinLocksMC` | `StoppedOwnNothing` | `release_locks` leaves a lock with a stopped task |
| `SharedPortRace.cfg` | `SharedPortMC` | `DispatcherServes` | a cancellation after the answer makes the dispatcher wait for ever |
| `SharedPortEmptied.cfg` | `SharedPortMC` | `MessagesKept` | a cancellation after the answer empties the messages that are queued |
| `PortsOrder.cfg` | `PortsMC` | `OldestFirst` | a member that leaves its port set has its messages in another order |
| `PortsTimeOut.cfg` | `PortsMC` | `NeverTimesOut` | a receive without a time-out returns the time-out of an earlier one |
| `ServersPriority.cfg` | `ServersMC` | `HighestServed` | the request in a dispatcher's hand is served before one of higher priority that came later |
| `SemaphoresReset.cfg` | `SemaphoresMC` | `NoAbort` | a waiter that preempts the reset waits again, is wiped from the queue, and the next signal follows a null pointer |
| `FairSchedulerLoad.cfg` | `FairSchedulerMC` | `IdleCpuServes` | the load of a cpu drifts upwards, and a task is queued behind another while a cpu idles |
| `SchedulerLive.cfg` | `SchedulerMC` | `RoundRobin` | passes: FIFO, HOL and PR with a quantum give each ready task a cpu |

The six kinds of node in `scheduler` are: two FIFO cpus with quantum, messages and
time-outs; one HOL cpu with quantum, priority changes and suspensions; two HOL cpus
with sync and quantum; two PR cpus with three priorities, sync and messages; one PR
cpu with hold, sync and sleep; two FIFO cpus one of whose tasks is bound. Calls are
divided among nodes so that those that lead to a known defect do not occur together:
a timed receive with a suspension, for `NoAbort`; a PR node with quantum and
priority changes. Two properties name their exclusions themselves: `NoneForgotten`
(`WakersExist` but for nodes with sync and a quantum) and `PreemptionKeepsTime`
(`ComputesFully` but for nodes with suspension), and `SchedulerSuspend.cfg`
checks the unrestricted `ComputesFully` on what is excluded. The same holds of the other
modules: `MessagesDelivered` speaks of the order of messages where none leaves its set or
goes over a bus or link, and of stale time-outs where receives are FIFO and ports stay with their
owners, because `OldestFirst` and `NeverTimesOut`, its unrestricted parts, are violated; `MembersServed` excepts the
release of a member under its surrogate; the resets of `semaphores` come from outside; the worlds of
`semaphoretask` leave out the one of `semaphoretask_taken`.

The eight worlds of `ports` are: broadcasts and time-outs of every mode; every discipline with two priorities
and stale priorities; ports that are passed between father and sons while their owner waits; a bus with random
order and a link; transmission to a port that is passed on; a port set whose members are released; one
whose members leave; and one whose members are passed on or released under their surrogates. The six
of `servers` are: a multi-server with three callers that calls another task and sends to it in its
second phase; a join of two entries with a third request; a join of rendezvous with asynchronous
requests, which are put aside in their turn; requests that are forwarded to a joining
task; asynchronous and forwarded requests to a multi-server with a pool that runs out; and three callers of a
multi-server that may have three workers. Every entry takes requests of one mode, as the loader has it
(`Entry::test_and_set_recv`, `src/lqsim/entry.cc:313`; the assumption `OneMode` of `ServersMC` says so of the worlds).
That is why `Finish` may clear the pointer to an asynchronous message that it frees, where the code keeps it:
nothing looks at it before the entry's next request overwrites it.

**Bounds.** Three clients are the fewest with which a writer waits behind a reader
and before another reader; two tokens the fewest with which an unlock may go to
another client's token. Three tasks on two cpus have one task ready and two to
choose from for preemption; three priorities order all of them. Two locks are the
fewest to nest. Three users of a shared port are the fewest of which one is overtaken by
another behind it while a third is served; with two messages one can overtake the other.
A message is sent again once it was taken, so that users and messages go round any number
of times. `Threads` bounds the pool: `Fork` is disabled when all threads would
not suffice for it (the code would create more). `MaxMessages` bounds the messages
in a port to one: the scheduler only tests for zero. Three messages (`MaxSent`) are the fewest of which one
is in the set, one with the surrogate and one in transmission; with one surrogate a member can join,
leave and join again. With three clients a multi-server with two workers has one request waiting while
both are busy, and a worker that becomes idle while another is made; with three workers the dispatcher can make
one while another has not come up yet, so that it ends with more workers than were ever needed at once, which is
why `GrowsWhenBusy` allows workers that are starting; two messages are the smallest pool that is empty
after more than one send. Three clients and two tokens leave one wait in line. `MaxCount` of a semaphore is one
in the run, two in the counterexample. Six tasks in one queue reach every case of the repair
after an insertion or a deletion; `maxLoad` bounds the load of a cpu, which the code lets grow without
bound; keys are 0 and 1, so that equal keys occur.

**Deadlock** is checked except in `scheduler`, `semaphores` and `fair`, where all tasks may be asleep
or waiting for calls that the node's list of calls does not contain, in `ports`, where the bound on
messages is reached, and in `sharedport`, where the dispatcher blocks for good once a dropped message
(findings, below) has left its counter wrong.

**Fairness.** parasol dispatches every runnable task and takes every event, so in
`RWLock` every task of the lock that can run does, and a client that holds the lock
releases it (its calls return, as the critical section's do). Readers get no promise:
the lock prefers writers by design. In `ForkJoin` only the steps that continue a fork,
join or flush are fair, not the task's choice to call, compute or fork again; the
processor and the branches are strongly fair, because their steps are disabled
whenever the task itself is hot. In `SchedulerLive.cfg` and `semaphores` the computations and quanta end,
the tasks outside do not run for ever, and a task that holds a semaphore signals it some time; strong fairness,
because the steps of a task are disabled while another has the cpu. In `sharedport` users ask again and again, as
servers do, and the dispatcher and every user that can go on do so; strong fairness for a
user's steps, because a cancellation of another one disables them without races.
Nobody is obliged to send, to give up or to die. In `ports` what has begun ends (a woken task
looks at its port, a surrogate forwards, a time-out or transmission falls due), but nobody is obliged to
call anything. In `servers` and `semaphoretask` the reference tasks cycle for ever, as those of a model do, and every instance
that can take a step takes one; all of this is weak fairness, because no other instance disables such a step.

## 4. Findings

The first two are runs with an expected violation, quoting the comment they contradict; the others are the
configurations of section 3.

1. `spawn_activities` reaps any finished thread before it starts each branch
   (`instance.cc:1717`). If a branch started earlier in the same fork has finished, its
   completion is discarded and `wait_for_threads` never returns (run `forkjoin_lost`).
2. A token that starts taken (`Token_r`, `instance.cc:810`) sends its note for the signal only when the whole
   cycle of the wait is over. With a second phase its client may signal before, and the signal is reported
   and dropped (run `semaphoretask_taken`).
3. `wait_for_threads` (`instance.cc:1860`) recognises a completion by its activity only.
   When a loop passes a quorum fork again, the late completion of the last pass counts (`ForkJoinStale.cfg`).
4. `ps_suspend` of a task in a timed receive leaves its time-out (`para_library.c:1290`);
   `end_receive_handler` then aborts (`SchedulerTimeout.cfg`).
5. `ps_suspend` of a computing task drops the rest of its computation
   (`para_library.c:1272`, `SchedulerSuspend.cfg`).
6. `release_locks` reads `lp->next` after it has linked the lock into its new owner's list
   (`para_library.c:7313`, `SpinLocksNested.cfg`).
7. A user that gives up when its request has just been answered sends a cancellation for a
   request that is no longer in the dispatcher's queue (`para_library.c:4413`): the dispatcher
   looks for it in an empty queue and blocks (`SharedPortRace.cfg`), or finds messages there and turns
   them round for ever, each sent on without its type and text (`para_library.c:4418`, `SharedPortEmptied.cfg`).
8. `ps_reset_semaphore` empties the queue after it has resumed the waiters (`para_library.c:2587-2594`). A waiter that
   preempts it and waits again is removed without being resumed, and the next signal takes a
   waiter from an empty queue (`SemaphoresReset.cfg`).
9. A dispatcher of a multi-server takes its next request off the port before it has a worker for it
   (`instance.cc:455-505`), so that a request of higher entry priority which comes while it
   waits is served later (`ServersPriority.cfg`; compare the manual, `src/doc/userman/model.tex:238-241`).
10. `enqueue_cfs_task` counts a preempted task again (`para_library.c:8351`), and `cap_handler` (8643) does not take the
   tasks it puts to sleep off the load: the loads drift apart from the queues and
   `find_min_load_host` passes over an idle cpu (`FairSchedulerLoad.cfg`).

Met while modelling and not the subject of a run:

* a quantum that ends during a sync makes END_SYNC give the task a new quantum instead of
  making it run (`para_library.c:5166`); it then stays in sync with no event of its own
  (`SchedulerSync.cfg`);
* a message whose last possible receiver was killed is dropped, and the counter stays as if it
  were queued, so that a later request blocks the dispatcher (`para_library.c:4434`);
* looking for a cancelled request, the dispatcher puts the older requests behind the younger
  ones (`para_library.c:4418`), and a message that could not be given to a killed user goes
  behind younger messages (`para_library.c:4403`);
* a hot task that raises a preempted ready son above itself under PR makes it hot and
  forgets the rest of its computation (`para_library.c:4992`, `SchedulerSon.cfg`);
* `find_priority` leaves the quantum event of the task it takes off its cpu, which aborts
  under PR with a quantum (`para_library.c:5117`, `SchedulerQuantum.cfg`);
* a task bound to a cpu under PR preempts another although that one could be moved to an
  idle cpu, and leaves it on the ready queue (`para_library.c:4954`);
* the test of a bound task's preemption names TASK_FREE where the other branch names
  TASK_SYNC_FREE (`para_library.c:4958`);
* `qx` stays set when a task is suspended in a sync after its quantum (`para_library.c:4586`);
* `flush_threads` passes no end time, so the statistics of threads after a quorum are never
  recorded (`instance.cc:1765`);
* `port_send`, `ps_resend` and the bus and link calls do not set the priority of a message,
  which a receive by priority reads (`para_library.c:7206`);
* `end_trans_handler` uses the owner of the port it delivers to, also when the port was released while
  the message was in transmission (`para_library.c:4726`);
* a message that comes through a port set is out of order after its member has left the set: the messages already
  forwarded go behind those not yet forwarded (`para_library.c:1750`, `PortsOrder.cfg`);
* a receive that is not FIFO may leave a time-out in its port, and a later receive without a time-out
  then returns one (`para_library.c:4609`, `PortsTimeOut.cfg`);
* a waiter of a semaphore that is killed or resumed by another task stays in its queue (`para_library.c:2639`);
* a forwarded request is sent without a priority (`instance.cc:1304`);
* `stop` of the read-write lock task kills its signal task twice (`task.cc:1221`).

## 5. Proofs

All theorems hold for every value of the constants under the named assumptions of the
modules (finite sets of clients, tokens, tasks and locks; names that differ).

`RWLockProofs`:

* `TypeCorrectness`: `Spec => []TypeOK`, including that each port holds only requests of
  the kind its task serves.
* `Exclusion`: `Spec => []MutualExclusion`.
* `BooksAgree`: `Spec => []Consistent`: counters, ports and tokens agree exactly.
* `Refinement`: `Spec => ImplementsReadWriteLock`: the server with its tokens, dispatchers and nine
  kinds of port implements the read-write lock of `ReadWriteLock`.

Mutual exclusion is not inductive: it depends on the server's counters, on where
messages are, and on tokens that serve requests long after admission. The invariant
`IInv` has two parts. `TypeInv` adds to the types that each client has at most one
message, on a port that fits its state (`Tidy`, `Accepted`). `Counted` says which
clients the counters stand for: a reader is active from the moment the server forwards
its request to the moment the server receives its unlock, wherever its messages are in
between, and so is a writer (`ActiveReaders`, `ActiveWriters`); there are no more active
readers than `activeReaders`, an active writer is one of `writers` besides those queued,
it is the only one, and then no reader is active. Lemmas state what `Put` and `Drop` do to
the place of each client's message, and one lemma for each action shows that it
preserves `IInv` (theorem `Counting`).

`Consistent` and the refinement need more: that the counters are exact, not only bounds, and that a token
which is about to reply holds a request of a client that still waits. `Agreed` adds to `IInv` how many and
which messages each token has in each of its states and whether it is announced at `workerPort` or
`signalPort` (`TokensFit`, `WriterFits`), the counters as sizes of sets of clients (`Exact`), that
the signals owed are those under way, each once (`Signalled`), that a client's request is on
some port (`Carried`), and that each token that replies has somebody to reply to. Again each
action has its lemma (theorem `Agreement`). The refinement mapping gives a client the abstract lock when its
token replies, not when the server admits it: the steps that map to `GrantRead` and `GrantWrite` are
the replies of the tokens, and exclusion of the abstract lock is what `IInv` says of the active clients;
every other step stutters or is the request or release of the client that takes it.

`ForkJoinProofs`:

* `Bookkeeping`: `Spec => []Consistent`, for every number of branches and threads and every quorum.

`active_threads` and `idle_threads` are changed by the task, while threads change state, and messages move, behind
its back. The invariant says how many threads are in which states: `Counted` ties the counters to
the threads that will still report and to the branches and messages in the two ports, `InLine` says that
the requests for branches are the waiting threads, each once, so that a delivery always wakes one, and `Quiet`
that a task between cycles has no active thread. The lemma `Moves` says what a change of state of
one thread does to the sizes of these sets; one lemma for each action that moves a message shows that it
preserves `IInv`. That the join is reachable is not a consequence: it is false (finding 1).

`SchedulerProofs`:

* `CpusAndQueueAgree`: `Spec => [](SyncsKeepCpus => CpusAgree /\ QueueIsReady)`.
* `KernelConsistent`: `Spec => [](SyncsKeepCpus /\ QuantaEnd => Consistent)`.
* `CpusGoToTheRightTasks`: `Spec => [](Exchangeable => CpusWellUsed)`.
* `NoStaleEvent`: `Spec => [](SyncsKeepCpus /\ EventsMatch => NoAbort)`.
* `EveryTaskHasItsWaker`: `Spec => [](SyncsKeepCpus => NoneForgotten)`.
* `NoTimeIsLost`: `Spec => [](SyncsKeepCpus /\ NoRaises => PreemptionKeepsTime)`.

They hold for any number of tasks, cpus and priorities and of a node of any discipline and set of calls that meets
the condition; every node of run `scheduler` meets them all. The conditions leave out no more than where
the property is false in the code or would take another argument:

| condition | leaves out | why |
|---|---|---|
| `SyncsKeepCpus` | PR nodes with bound tasks, syncs and kills | TASK_FREE is tested where TASK_SYNC_FREE is meant (`para_library.c:4958`): a killed task that still syncs loses its cpu |
| `QuantaEnd` | quanta together with syncs or changes of priority under PR, or with syncs that are suspended | a task leaves its cpu with its quantum event or `qx` left (`SchedulerQuantum.cfg`, `para_library.c:4586`) |
| `Exchangeable` | bound tasks under PR or with a quantum | a bound task is not moved to the cpu that is free (`para_library.c:4954`) |
| `NoRaises` | tasks that raise their sons under PR | the son forgets its computation (`SchedulerSon.cfg`) |
| `EventsMatch` | besides those of `QuantaEnd`, quanta with holds, and timed receives that are suspended | the handler finds a task in another state (`SchedulerTimeout.cfg`) |

`NoneForgotten` and `PreemptionKeepsTime` themselves exclude syncs with quanta (`SchedulerSync.cfg`) and
suspended computations (`SchedulerSuspend.cfg`).

The C functions call each other in the middle of their changes: `find_priority` calls `find_host`, `ps_kill` calls
`find_ready`, a handler calls both. So the invariant is not only stated of the variable `k` but of any state `s`
of the kernel. `FineFor(s, T, H)` says that all is well with the tasks `T` and the cpus `H`: each task
has the cpu, the place in the ready queue and the events that its state calls for (`Placed`),
the messages (`MessagesOf`), quantum events (`QuantaOf`) and time (`TimeOf`) as well, the queue is sorted
and no cpu of `H` is badly used. A function that is called with one task taken from its place, or with
one cpu just given up, starts from `FineFor` of all but that task (which is `Moving`) or that
cpu; `FindHostKeeps`, `FindReadyKeeps` and `FindPriorityKeeps` say that each of the three ends with all tasks and
cpus fine. One lemma per call and per event builds on these (`StepKeeps`), and
`IInv` is that of the kernel between steps. TLC checked it as an invariant before it was proved: on the nodes of the run and, with two tasks, on nodes
with many more combinations of discipline, quantum, cpus and calls.

`SpinLocksProofs`:

* `TypeCorrect`: `Spec => []TypeOK`; no count becomes negative, so no task leaves a queue twice.
* `QueuesExact`: `Spec => []QueuesAgree`.
* `NobodyLeftSpinning`: `Spec => []NobodySpinsInVain`.
* `LocksKept`: `Spec => [](Careful => LocksAreKept)`.
* `NothingLeaked`: `Spec => [](Careful => NoLockLeaked)`, the list of every task holds exactly the locks it owns, and
  a stopped task owns none. `Careful` programs stop no tasks or nest no locks: the others have the leak of finding 6.

The first three hold for every program, also for those on which `release_locks` leaks
locks. In the middle of `release_locks` the task it serves is no longer spinning but still
in a queue; so the invariant ties queues and counts to `spinLock` at all times (`Waits`),
`spinLock` to the state of every task but that one (`Spinning`), and queues to owners
(`WaitedForIsOwned`). `Held(t)`, what links lead to from the first lock of a task, is the least set closed under
them, so it can be reasoned about without recursion. If nobody is stopped, `Nested` says that the locks a task owns
form a list (`IsList`): it starts at `lockList[t]`, the fields `next` stay among them and go down a rank that
each step chooses anew, and no smaller set is closed, so that it reaches all of them (`ListHeld`).
`ListGrows` and `ListShrinks` are the two ways `ps_lock` and `ps_unlock` change it, at its head and anywhere. If locks
do not nest, `Single` says that a task's first lock is its only one and no lock has a link, that it waits for
none but that one, and where `release_locks` stands, so anybody may be stopped at any time.

`SharedPortProofs`:

* `TypeCorrect`: `Spec => []TypeOK`; blind ports hold only messages and time-outs, never a request.
* `CountExact`: `Spec => []CountAgrees`, for every program, also those with races and kills.
* `NoMessageLost`: `Spec => [](dispatcher # "spins" => MessagesKept)`, for every program and also once the dispatcher
  waits for ever. When it spins it has emptied the messages of the queue port (finding 7), so it is false from there.
* `EveryCallAnswered`: `Spec => [](Calm => OneAnswerPerRequest /\ DispatcherServes)`, where `Calm` excludes only
  give-ups that race with an answer; with them it is false (finding 7). `PatientServed` is the part
  of it for users that never give up.
* `NothingIsLost`: `Spec => [](Calm => NothingLost)`; in `Calm` programs the dispatcher never spins (`NeverSpins`).
* `ServedInTurn`: `Spec => FirstComeFirstServed`, the safety half of `ServedInOrder`.

The dispatcher sends requests and messages to the same port and tells them apart by its
counter only, so types and counter need each other: `TypeInv` says that the queue port holds
`state` requests or `-state` messages, emptied ones if the dispatcher spins (`Queued`), and one message less once
one was dropped (`Counted`).
One lemma for each branch of the dispatcher shows that it is preserved, from facts about the
parts of a sequence before and behind an element.

`Kept` adds that each message is in one place, once, until the dispatcher spins. `Served` says where the request, the cancellation and the
answer of each call are (`CallOf`), and that a cancellation is the next item of the port and its request is in the
queue (`CancelFirst`): a user that gives up without a race finds the port empty, so nothing comes between
its cancellation and the request it cancels. It is needed because a cancellation may still be under way when
its user asks again, and then two requests of the user exist. TLC checked both on the run first.

For the order, `Ahead` defines what is before what in queue and port together, and `Standing` says that the histories
`order` and `line` list what waits in this order. One lemma for each way an item can move (put on the
port, taken from it, put at the end of the queue, taken from its head) shows that nothing overtakes;
what is given has nothing ahead of it and is thus the head of its history (`First`).

`SemaphoreTaskProofs`:

* `TokensAccountedFor`: `Spec => []Consistent`, for any number of clients and tokens, started free or taken, with or
  without second phase, called by rendezvous or without.
* `NoSignalLost`: `Spec => [](world.full \/ ~world.second => SignalsHeard)`; in the other worlds a signal
  may be lost (finding 2).

The invariant follows the code's notes: a token that expects a request has either its note in the port of the
dispatcher concerned or the request itself, never both (`Posted`). A client that waits is in one of the
places waits, hand, or token (`WaitersAgree`), and so is one that signals. `Balance` compares the signals
under way with those sent; then the tokens taken are those of clients that are inside, and a
dispatcher that hears a signal finds a note for it.

`ServersProofs`:

* `AlwaysConsistent`: `Spec => []Consistent`, of which `TypeCorrect` (`TypeOK`), `EveryoneAgrees` (`DispatchAgrees` and
  `JoinsAgree`) and `NoRequestLost` (`NothingLost`) are the parts.
* `MadeWhenBusy`: `Spec => GrowsWhenBusy`.
* `InOrderServed`: `Spec => Abstract!Safe`, which is `StationsServe` without fairness: under the refinement mapping every task
  that does not serve by priority is a station of `Stations`.

They hold for any number of clients, tasks, workers and messages, any entries, priorities, calls in both phases,
forwards and joins (a task that joins has one server, which the assumption says), and anything the clients ask.
A step of an instance goes through several states (it advances, sends, and counts), so the invariant is said of any
state `s` of the simulation: `Good(s)` is `Typed(s)`, `Agree(s)` and `Placed(s)`. `Typed` says also that
requests are where they are addressed to. `Agree` says of each kind of instance what it can be doing (`StateOf`), that a
server holds the request it works on and the rendezvous of open joins and nothing else (`Holds`), and that
notes, inboxes and hands agree (`WorkerOf`, `DispatcherOf`); `Holds` is needed because a second phase may still
hold a message but never a rendezvous, which is what lets `Finish` forget what it does not free.

For `NothingLost` the invariant names the things that can be lost: a rendezvous for each caller and the messages of each
pool (`Things`). A message always exists, a rendezvous while its caller waits; and `Placed` says that what exists is
at one site only, and once there, where a site is a port, a list of pending messages, a pool, a dispatcher's hand,
a worker's inbox, or what a server holds for an entry. Every operation then moves a thing (`Moved`), makes one
(`Sent`) or ends some (`Ended`), and one lemma for each action says so. That cardinalities
agree follows from bijections between places and things (`PlaceThings`), not by counting. The proof showed two faults of the model, since
corrected: `GrowsWhenBusy` was false with three workers (see the bounds), and `NothingLost` took
a request held by a worker and the same in its inbox for one.

For `InOrderServed` each action has a lemma that says what it does to one station (`Moves`): the station sees nothing of it,
a request arrives, begins or ends, or entries open; and that all other stations stay as they are.
`StationStep` turns `Moves` into a step of `Stations` or a stutter. That `busy` is below the limit when a dispatcher hands a
request over is the pigeonhole: it goes to a worker of the task that is not engaged, of which there are
`Limit`. Besides `IInv` this needs that a multi-server puts nothing aside (`NoneAside`), as its entries join nothing.

`SchedulerProofs`, second part (semaphores):

* `WaitersAreCounted`: `SemSpec => [](SyncsKeepCpus /\ ResetsUndisturbed => SemTypeOK /\ CountsWaiters /\ OneHolder)`.
* `SemaphoreConsistent`: `SemSpec => [](SyncsKeepCpus /\ EventsMatch /\ ResetsUndisturbed => SemConsistent)`.

They hold for any number of tasks and cpus and every use of the semaphore. `ResetsUndisturbed` excludes resets by tasks of
a PR node, where a resumed waiter may preempt the task in the middle of its reset (`SemaphoresReset.cfg`); resets from
another node are covered under every discipline. Every node of run `semaphores` meets the conditions.

A call gives cpus to other tasks before it has finished, so the invariant relates any state `s` of the kernel to any state `m`
of the semaphore. `InLine(s, m)` says that the waiters a reset has not come to are suspended, and that whoever resets is
the hot task (`Outside` when no task is), so nothing else happens to the semaphore meanwhile. What has to be shown of the scheduler is that giving out cpus
wakes no suspended task (`FindHostWakesNone`, `FindReadyWakesNone`), that the hot task stays hot while it resumes others
(`ResumedWell`), and that no other step of the scheduler disturbs the line. That cpus and ready queue agree throughout is
`StepKeeps` of the first part. TLC checked `InLine` first on the nodes of the run and others, with PR and two cpus among them.

`PortsProofs`:

* `TablesConsistent`: `Spec => []Consistent`.
* `ReceiversWoken`: `Spec => []NoLostWakeup`.
* `Delivery`: `Spec => []MessagesDelivered`.

They hold for any number of tasks, ports, surrogates and messages, any family of tasks, and any choice of calls, disciplines,
modes and priorities for each task; all three follow from one inductive invariant (`Invariance`). The conditions inside
`MessagesDelivered` (order only while no member leaves its set and nothing goes over a bus or link, and so on) are those of
the code, and the other runs of the module show that it breaks without them.

A call goes through several states before it ends: passing a set to another task passes each of its members, a kill of
a surrogate releases what it owns, and a task may be woken in between. So every part of the invariant is a predicate of
any state `s` of the kernel:

* `Tables(s)` says of each port who may own it (`OwnerOf`), of each task that it keeps its standard port (`KeepsStd`), of each
  live surrogate that its port is a member of the set it forwards to (`ServesSet`), and of each blocked task that it waits on an
  empty port of its own, and has a time-out due only if it asked for one (`WaitsWell`). `TablesBut` leaves out the surrogates of a
  set that is being released, not killed yet, and the task that still waits on a port it has passed on, not woken yet;
* `Members(s)` is the converse of `ServesSet`: each member's owner is its surrogate, unless a member is released under it;
* `Mail(s)` says that each message is in exactly one place (`Parts`: queued on a port, on a medium, received or lost), that a
  port which is no set holds only what was sent to it (`OwnMail`), that what is in transmission still has its port unless ports are
  released (`Safe`), that under FIFO a time-out is the first message of the port and its task, which asked for it, is about to
  look at it (`StaleFree`), and that the messages of each port are in order, those its set has before those not yet
  forwarded (`Ordered`).

`OwnMail` is what the order rests on: a surrogate marks what it forwards as its port's and puts it behind
what the set holds, which overtakes nothing as all of it was sent to that port. One lemma for each call says what it does to the tables, one to the members, and one
to the mail; `Settles` collects what passing and releasing leave alone. The proof showed that `Punctual` had
been too strong, on worlds that are not among those of the run, and TLC found the counterexamples there: a
transmission whose port was released meanwhile aborts (`para_library.c:4739`), and a member that is released under its surrogate and
allocated again brings a stale time-out to whoever receives next. It now states both conditions.

Only model-checked: liveness (out of the prover's reach), with it the fairness of
`StationsServe`; `JoinIsReachable` and `JoinFollowsQuorum` of `ForkJoin`, which hold of the passes of the run only (findings 1 and 3);
the liveness half of `ServedInOrder` of `SharedPort`; `HighestServed` of `Servers`, which is false (section 4); the trees of `FairScheduler` (`RunQueue` is recursive).

## 6. Not modelled

* Time is replaced by order everywhere, so statistics, response times and utilisations
  are outside: a run of the simulator that is correct here may still report wrong numbers.
* The scheduler's RAND and LIFO disciplines, migration between nodes, suicide of
  tasks, `ps_kill` of a task with sons.
* Nested forks in `ForkJoin`, and the replies of a quorum that are delayed until its threads have ended.
* Clients of a read-write lock that unlock what they have not locked.
* The release of a shared port, and that the port table may give the number of a released
  blind port to a new one while a request still names it.
* `ps_localcast` and `ps_multicast`, which broadcast to fewer tasks, and what becomes of messages to ports of killed tasks.
* Waiters of a semaphore that are killed or resumed by others (finding above).
* The accounts of the completely fair scheduler, from which its keys are computed, and tasks killed while
  they run under it.
* Open arrivals, and links between the processors of lqsim tasks, in `Servers`; the statistics of joins.
* The components with status `not_modelled`, with their reasons in `PROJECT.json`.

By lines most of the repository is not modelled and is not meant to be: of some 204 thousand lines, `lqns`, `libmva` and
`qnsolver` iterate over real numbers, `lqiolib`, `lqx`, `lqn2ps`, `lqn2csv`, `petrisrvn` and `srvndiff`
read, convert and write text, and each runs in a single thread without state that outlives
a call. A state machine of them would have one behaviour for each input. The parts where order, concurrency and
time-outs matter are `para_library.c` and `instance.cc`, and the modules cover the components in them.

## 7. Plan

Done: read-write lock, fork-join, scheduler, spin locks, shared ports, ports and port sets, semaphores, completely
fair scheduler, servers, semaphore task. Next, in this order:

1. *Abstract specification* of a shared port (a queue of messages and a line of askers), which
   `SharedPort` implements where nobody gives up, and of the fork and join, for `ForkJoin`.
2. *Delayed replies* of quorums in `Servers`, and its composition with `ForkJoin`.
3. *Kills*: tasks killed with sons, while they run under CFS, and in the queue of a semaphore.
