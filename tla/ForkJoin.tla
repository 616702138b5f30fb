------------------------------ MODULE ForkJoin ------------------------------
(***************************************************************************)
(* AND-forks of an lqsim task and the threads that run their branches      *)
(* (lqsim/instance.cc).                                                    *)
(*                                                                         *)
(* A forking task keeps a pool of threads.  It starts a branch by sending  *)
(* its activity to start_port, a shared port that any waiting thread may   *)
(* be given the message of; a thread reports back on thread_port, first    *)
(* with a null message when it is created and then with the activity it    *)
(* has run.  The task counts active and idle threads by the messages it    *)
(* takes off thread_port, and joins when it has taken as many of them as   *)
(* the fork has branches (or as the quorum asks for).                      *)
(*                                                                         *)
(* Task and threads share one processor with FIFO scheduling; its other    *)
(* users delay a dispatch for as long as they like.  The task runs without *)
(* interruption from one blocking call to the next: in a state with        *)
(* parent = "hot" only the task itself takes steps.                        *)
(*                                                                         *)
(* A definition marked "slip" is what the definition after it becomes      *)
(* under a plausible programming error.                                    *)
(***************************************************************************)
EXTENDS Integers, Sequences, FiniteSets

CONSTANTS Branches,     \* activities of the fork list
          Quorum,       \* branches the join waits for, K of N
          Threads       \* bound: threads the task may create

ASSUME ForkAssumption == /\ IsFiniteSet(Branches) /\ IsFiniteSet(Threads)
                         /\ Quorum \in 1..Cardinality(Branches)

Task == "task"          \* the forking task on the ready queue
Null == "null"          \* the activity a thread announces itself with
ASSUME NamesAssumption == Task \notin Threads /\ Null \notin Branches

VARIABLES
  pc,           \* where the task is in its cycle
  parent,       \* hot, away (computing or in a rendezvous), receiving
                \* (blocked on thread_port), or on the ready queue
  todo,         \* branches spawn_activities has yet to start
  count,        \* local of wait_for_threads
  idle, active, \* idle_threads, active_threads
  thread,       \* state of each thread
  job,          \* the branch each thread runs
  startPort,    \* branches sent to start_port and not yet given to a thread
  requests,     \* threads that wait for a message of start_port
  threadPort,   \* messages queued on thread_port
  ready,        \* ready-to-run queue of the processor
  finished,     \* history: branches of the current fork that have completed
  passes        \* history: has this cycle passed the fork "never", "once"
                \* or "again"

counters == <<count, idle, active>>
ports == <<startPort, requests, threadPort>>
vars == <<pc, parent, todo, counters, thread, job, ports, ready, finished, passes>>

\* A message about a branch; current: it belongs to the latest fork.
Jobs == [ap : Branches \cup {Null}, current : BOOLEAN]
Announcement == [ap |-> Null, current |-> FALSE]

N == Cardinality(Branches)                      \* fork_list->get_visits()
Created == {t \in Threads : thread[t] # "none"}
Hot == parent = "hot"

\* Counters never go negative, and the ports hold activities and thread messages.
TypeOK ==
  /\ pc \in {"cycle", "spawn", "create", "join", "joined", "flush", "idle"}
  /\ parent \in {"hot", "away", "receiving", "ready"}
  /\ todo \subseteq Branches /\ finished \subseteq Branches
  /\ count \in 0..N /\ idle \in 0..Cardinality(Threads) /\ active \in 0..Cardinality(Threads)
  /\ thread \in [Threads -> {"none", "created", "waiting", "ready", "running", "away"}]
  /\ job \in [Threads -> Jobs]
  /\ startPort \in Seq(Jobs) /\ threadPort \in Seq(Jobs)
  /\ requests \in Seq(Threads) /\ ready \in Seq(Threads \cup {Task})
  /\ passes \in {"never", "once", "again"}

Init ==
  /\ pc = "idle" /\ parent = "hot"
  /\ todo = {} /\ count = 0 /\ idle = 0 /\ active = 0
  /\ thread = [t \in Threads |-> "none"]
  /\ job = [t \in Threads |-> Announcement]
  /\ startPort = <<>> /\ requests = <<>> /\ threadPort = <<>> /\ ready = <<>>
  /\ finished = {} /\ passes = "never"

-----------------------------------------------------------------------------
\* thread_wait: take the oldest message off thread_port and count its sender.

ThreadIsIdle == idle' = idle + 1 /\ active' = active - 1

ThreadWait ==
  /\ threadPort # <<>>
  /\ threadPort' = Tail(threadPort)
  /\ ThreadIsIdle

Polls == UNCHANGED parent           \* slip
Receives == parent' = "receiving"

\* ps_receive on an empty thread_port: the task blocks.
Block ==
  /\ threadPort = <<>>
  /\ Receives
  /\ UNCHANGED <<pc, todo, counters, thread, job, ports, ready, finished, passes>>

-----------------------------------------------------------------------------
\* The forking task.  Actions of a hot task; Waiting steps receive or block.

\* execute_activity, or no request yet: other tasks run meanwhile.
Execute ==
  /\ pc \in {"cycle", "idle"} /\ parent' = "away"
  /\ UNCHANGED <<pc, todo, counters, thread, job, ports, ready, finished, passes>>

StartCycle ==
  /\ pc = "idle" /\ pc' = "cycle" /\ passes' = "never"
  /\ UNCHANGED <<parent, todo, counters, thread, job, ports, ready, finished>>

\* server_cycle ends: flush_threads.
EndCycle ==
  /\ pc = "cycle" /\ pc' = "flush"
  /\ UNCHANGED <<parent, todo, counters, thread, job, ports, ready, finished, passes>>

Outdated(j) == [j EXCEPT !.current = FALSE]

\* next_activity meets the AND-fork: spawn_activities, in shuffled order.
\* Threads of earlier quorums may still be running (within the bound).
Fork ==
  /\ pc = "cycle"
  /\ active + N <= Cardinality(Threads)
  /\ pc' = "spawn" /\ todo' = Branches /\ finished' = {}
  /\ passes' = IF passes = "never" THEN "once" ELSE "again"
  /\ job' = [t \in Threads |-> Outdated(job[t])]
  /\ startPort' = [i \in DOMAIN startPort |-> Outdated(startPort[i])]
  /\ threadPort' = [i \in DOMAIN threadPort |-> Outdated(threadPort[i])]
  /\ UNCHANGED <<parent, counters, thread, requests, ready>>

\* Reap any pending threads.
Reap ==
  /\ pc = "spawn" /\ todo # {} /\ ThreadWait
  /\ UNCHANGED <<pc, parent, todo, count, thread, job, startPort, requests, ready, finished, passes>>

\* ps_send of the activity to start_port.
StartBranch(b) ==
  /\ startPort' = Append(startPort, [ap |-> b, current |-> TRUE])
  /\ todo' = todo \ {b}

SomeIdle == idle > 0

ReuseThread ==
  /\ pc = "spawn" /\ threadPort = <<>> /\ SomeIdle
  /\ \E b \in todo : StartBranch(b)
  /\ active' = active + 1 /\ idle' = idle - 1
  /\ UNCHANGED <<pc, parent, count, thread, job, requests, threadPort, ready, finished, passes>>

\* No worker available: new Thread, ps_resume, and wait for its message.
CreateThread ==
  /\ pc = "spawn" /\ threadPort = <<>> /\ ~SomeIdle /\ todo # {}
  /\ \E t \in Threads \ Created :
       /\ thread' = [thread EXCEPT ![t] = "created"]
       /\ ready' = Append(ready, t)
  /\ active' = active + 1 /\ pc' = "create"
  /\ UNCHANGED <<parent, todo, count, idle, job, ports, finished, passes>>

\* thread_wait takes the message for the new thread's (one more idle, one less
\* active), which is then counted as active and sent the branch.
ThreadCreated ==
  /\ pc = "create" /\ threadPort # <<>>
  /\ threadPort' = Tail(threadPort)
  /\ \E b \in todo : StartBranch(b)
  /\ pc' = "spawn"
  /\ UNCHANGED <<parent, counters, thread, job, requests, ready, finished, passes>>

VisitsTwice == 2 * N                \* slip
Visits == N

WaitForThreads ==
  /\ pc = "spawn" /\ todo = {}
  /\ pc' = "join" /\ count' = Visits
  /\ UNCHANGED <<parent, todo, idle, active, thread, job, ports, ready, finished, passes>>

JoinTooEarly == count <= N - Quorum + 1         \* slip
QuorumReached == count <= N - Quorum

\* Only acknowledge active threads: the activity is one of the fork list.
IsBranch(j) == j.ap \in Branches

JoinReceive ==
  /\ pc = "join" /\ ~QuorumReached /\ ThreadWait
  /\ count' = IF IsBranch(Head(threadPort)) THEN count - 1 ELSE count
  /\ UNCHANGED <<pc, parent, todo, thread, job, startPort, requests, ready, finished, passes>>

Join ==
  /\ pc = "join" /\ QuorumReached
  /\ pc' = "joined"
  /\ UNCHANGED <<parent, todo, counters, thread, job, ports, ready, finished, passes>>

\* The activities after the join follow.
Continue ==
  /\ pc = "joined" /\ pc' = "cycle"
  /\ UNCHANGED <<parent, todo, counters, thread, job, ports, ready, finished, passes>>

FlushReceive ==
  /\ pc = "flush" /\ active > 0 /\ ThreadWait
  /\ UNCHANGED <<pc, parent, todo, count, thread, job, startPort, requests, ready, finished, passes>>

FlushedEarly == idle > 0            \* slip
Flushed == active = 0

FlushDone ==
  /\ pc = "flush" /\ Flushed
  /\ pc' = "idle"
  /\ UNCHANGED <<parent, todo, counters, thread, job, ports, ready, finished, passes>>

Blocks ==
  \/ pc = "create"
  \/ pc = "join" /\ ~QuorumReached
  \/ pc = "flush" /\ ~Flushed

ParentStep ==
  /\ Hot
  /\ \/ Execute \/ StartCycle \/ EndCycle \/ Fork \/ Continue
     \/ Reap \/ ReuseThread \/ CreateThread \/ ThreadCreated
     \/ WaitForThreads \/ JoinReceive \/ Join
     \/ FlushReceive \/ FlushDone
     \/ Blocks /\ Block

-----------------------------------------------------------------------------
\* Every other task: none of them runs while the task is hot.

TaskReturns ==
  /\ parent = "away"
  /\ parent' = "ready" /\ ready' = Append(ready, Task)
  /\ UNCHANGED <<pc, todo, counters, thread, job, ports, finished, passes>>

\* The processor gives the task at the head of the ready queue a cpu.
Dispatched(who) == ready # <<>> /\ Head(ready) = who

TaskRuns ==
  /\ Dispatched(Task)
  /\ parent' = "hot" /\ ready' = Tail(ready)
  /\ UNCHANGED <<pc, todo, counters, thread, job, ports, finished, passes>>

\* Thread t sends j to thread_port, which readies a receiving task, and asks
\* start_port for its next branch; q is the ready queue without t.
ReportAndWait(t, j, q) ==
  /\ threadPort' = Append(threadPort, j)
  /\ requests' = Append(requests, t)
  /\ thread' = [thread EXCEPT ![t] = "waiting"]
  /\ IF parent = "receiving" THEN parent' = "ready" /\ ready' = Append(q, Task)
                             ELSE ready' = q /\ UNCHANGED parent

ThreadStarts(t) ==
  /\ Dispatched(t) /\ thread[t] = "created"
  /\ ReportAndWait(t, Announcement, Tail(ready))
  /\ UNCHANGED <<pc, todo, counters, job, startPort, finished, passes>>

ThreadRuns(t) ==
  /\ Dispatched(t) /\ thread[t] = "ready"
  /\ thread' = [thread EXCEPT ![t] = "running"] /\ ready' = Tail(ready)
  /\ UNCHANGED <<pc, parent, todo, counters, job, ports, finished, passes>>

\* The branch makes a rendezvous or sleeps, and comes back for the processor.
ThreadCalls(t) ==
  /\ thread[t] = "running"
  /\ thread' = [thread EXCEPT ![t] = "away"]
  /\ UNCHANGED <<pc, parent, todo, counters, job, ports, ready, finished, passes>>

ThreadReturns(t) ==
  /\ thread[t] = "away"
  /\ thread' = [thread EXCEPT ![t] = "ready"] /\ ready' = Append(ready, t)
  /\ UNCHANGED <<pc, parent, todo, counters, job, ports, finished, passes>>

\* run_activities reaches the join; the loop of Thread::run reports it.
ThreadEnds(t) ==
  /\ thread[t] = "running"
  /\ ReportAndWait(t, job[t], ready)
  /\ finished' = IF job[t].current THEN finished \cup {job[t].ap} ELSE finished
  /\ UNCHANGED <<pc, todo, counters, job, startPort, passes>>

\* The dispatcher of start_port gives the oldest branch to the thread that
\* has asked first.
Deliver ==
  /\ startPort # <<>> /\ requests # <<>>
  /\ LET t == Head(requests) IN
       /\ job' = [job EXCEPT ![t] = Head(startPort)]
       /\ thread' = [thread EXCEPT ![t] = "ready"]
       /\ ready' = Append(ready, t)
  /\ startPort' = Tail(startPort) /\ requests' = Tail(requests)
  /\ UNCHANGED <<pc, parent, todo, counters, threadPort, finished, passes>>

OtherStep ==
  /\ ~Hot
  /\ \/ TaskReturns \/ TaskRuns \/ Deliver
     \/ \E t \in Threads : \/ ThreadStarts(t) \/ ThreadRuns(t) \/ ThreadCalls(t)
                            \/ ThreadReturns(t) \/ ThreadEnds(t)

Next == ParentStep \/ OtherStep

Spec == Init /\ [][Next]_vars

-----------------------------------------------------------------------------
\* What the counters and ports stand for.

\* Threads whose next message on thread_port is still to be taken off.
Reporting == {t \in Threads : thread[t] \in {"created", "ready", "running", "away"}}
Outstanding == Cardinality(Reporting) + Len(startPort) + Len(threadPort)

\* active_threads counts exactly the messages thread_port has yet to give, so
\* flush_threads neither returns early nor waits for a message nobody sends.
ActiveIsOutstanding == active = Outstanding /\ idle = Cardinality(Created) - active

\* Every branch that was started has a thread waiting to be given it: nothing
\* stays on start_port because idle_threads promised a thread too many.
BranchesHaveThreads == Len(startPort) <= Len(requests)

\* When the cycle is over no branch is left running or reported: the next
\* cycle starts with every thread waiting for work.
CycleLeavesNothing ==
  pc = "idle" => /\ threadPort = <<>> /\ startPort = <<>>
                 /\ \A t \in Created : thread[t] = "waiting"

\* The join goes on only after a quorum of the branches of this fork ran: so
\* it is for the first fork of a cycle, whatever earlier cycles left running.
EveryJoinFollowsQuorum == pc = "joined" => Cardinality(finished) >= Quorum
JoinFollowsQuorum == passes = "once" => EveryJoinFollowsQuorum

\* Messages about branches that the joining task can still receive.
Reports ==
  Cardinality({t \in Reporting : thread[t] # "created"}) + Len(startPort)
    + Len(SelectSeq(threadPort, IsBranch))

\* A task that waits in wait_for_threads waits for messages that will come.
JoinIsReachable == pc = "join" => Reports >= count - (N - Quorum)

\* The bookkeeping of threads is exact: active_threads counts the messages
\* still to come, every started branch has a thread to run it, and the flush
\* at the end of a cycle leaves nothing behind for the next.
Consistent ==
  TypeOK /\ ActiveIsOutstanding /\ BranchesHaveThreads /\ CycleLeavesNothing

\* All but the task's own choice to call, compute or repeat is scheduled; the
\* ready queue is first in first out, so that each of its members has its turn.
Dispatch == TaskRuns \/ \E t \in Threads : ThreadStarts(t) \/ ThreadRuns(t)

FairSpec ==
  /\ Spec
  /\ WF_vars(Hot /\ pc \notin {"cycle", "idle"} /\ ParentStep)
  /\ WF_vars(TaskReturns /\ ~Hot)
  /\ SF_vars(Dispatch /\ ~Hot) /\ SF_vars(Deliver /\ ~Hot)
  /\ \A t \in Threads : SF_vars(~Hot /\ ThreadReturns(t)) /\ SF_vars(~Hot /\ ThreadEnds(t))

\* Every fork is joined and every flush ends: no branch is lost on its way.
ForksJoin == (pc = "spawn") ~> (pc = "joined")
FlushEnds == (pc = "flush") ~> (pc = "idle")

\* Every fork is joined and every cycle comes to its end.
CyclesComplete == ForksJoin /\ FlushEnds
=============================================================================
