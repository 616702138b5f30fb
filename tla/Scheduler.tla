----------------------------- MODULE Scheduler -----------------------------
(***************************************************************************)
(* The processor scheduler of the parasol kernel (parasol/src/             *)
(* para_library.c): the tasks of one node, its cpus, its ready-to-run      *)
(* queue and the events of the calendar that concern them.                 *)
(*                                                                         *)
(* Parasol runs one task at a time, the hot one, until it makes a system   *)
(* call that blocks it or is preempted; then the driver takes the next     *)
(* event off the calendar.  Every system call of the hot task and every    *)
(* event is one action.  find_host, find_ready and find_priority hand      *)
(* cpus from task to task in the middle of system calls, so they are       *)
(* functions from one state of the kernel to the next.                     *)
(*                                                                         *)
(* Time is abstract: a timed event may happen whenever no task is hot or   *)
(* has an END_BLOCK event, which is due at once.  Two events never tie.    *)
(*                                                                         *)
(* A definition marked "slip" is what the definition after it becomes      *)
(* under a plausible programming error.                                    *)
(***************************************************************************)
EXTENDS Integers, FiniteSets, SequencesExt

CONSTANTS Tasks,        \* tasks of the node
          Nodes,        \* nodes there may be, and what their tasks may do
          Parent,       \* Parent[t]: the task that created t, or Outside
          MaxMessages   \* bound: messages queued on a task's port

AnyHost == 0            \* ANY_HOST
None == "none"
Driver == "driver"      \* no task is hot
Outside == "outside"    \* a task of another node is hot

States == {"free", "suspended", "ready", "hot", "computing", "blocked",
           "sleeping", "receiving", "sync", "syncSuspend", "syncFree"}
SystemCalls == {"compute", "hold", "sync", "sleep", "receive", "timed", "send", "suspend",
                "resume", "awaken", "priority", "kill", "create"}

\* Bound is the cpu each task is created for, or AnyHost.
NodeAssumption(n) ==
  /\ n.ncpu \in Nat \ {0} /\ n.discipline \in {"FIFO", "HOL", "PR"} /\ n.quantum \in BOOLEAN
  /\ n.priorities \subseteq Nat /\ n.bound \in [Tasks -> (1..n.ncpu) \cup {AnyHost}]
  /\ n.calls \subseteq SystemCalls

ASSUME NodesAssumption ==
  /\ \A n \in Nodes : NodeAssumption(n)
  /\ Parent \in [Tasks -> Tasks \cup {Outside}]
  /\ \A t \in Tasks : Parent[t] \in Tasks => Parent[Parent[t]] = Outside
  /\ {Driver, Outside, None} \cap Tasks = {} /\ MaxMessages \in Nat

VARIABLES node,         \* the node, as ps_build_node made it
          k             \* the state of the kernel
vars == <<node, k>>

NCPU == node.ncpu
Discipline == node.discipline
Quantum == node.quantum
Priorities == node.priorities
Bound == node.bound
Calls == node.calls
Hosts == 1..NCPU

\* The kernel's state is a record of
\*   htp     the hot task                  run[h]  run_task of cpu h
\*   rtrq    the ready-to-run queue        abort   the reason of a ps_abort
\* and for every task t
\*   st[t]   its state                     pri[t]  its priority
\*   hp[t]   its host cpu                  rct[t]  has it remaining cpu time?
\*   tep[t]  the event it waits for        rtoep[t]  is a receive time-out due?
\*   qep[t]  has it a quantum event?       quanta[t] END_QUANTUM events due
\*   qx[t]   quantum over during a sync?   nmess[t]  messages on its port
\*   inReceive[t]  is it in the loop of port_receive?
\*   owed[t] history: cpu time of the current ps_compute not received yet?

Events == {None, "END_COMPUTE", "END_BLOCK", "END_HOLD", "END_SLEEP", "END_SYNC"}

\* The kernel's tables hold indices of tasks and cpus, or the null ones, and a
\* task never has more than two quantum events.
TypeOK ==
  /\ node \in Nodes /\ k.htp \in Tasks \cup {Driver, Outside} /\ k.run \in [Hosts -> Tasks \cup {None}]
  /\ k.rtrq \in Seq(Tasks) /\ k.abort \in {None, "event", "quantum", "receive", "queue"}
  /\ k.st \in [Tasks -> States] /\ k.pri \in [Tasks -> Priorities]
  /\ k.hp \in [Tasks -> Hosts \cup {AnyHost}] /\ k.tep \in [Tasks -> Events]
  /\ \A f \in {k.rct, k.rtoep, k.qep, k.qx, k.inReceive, k.owed} : f \in [Tasks -> BOOLEAN]
  /\ k.quanta \in [Tasks -> 0..2] /\ k.nmess \in [Tasks -> 0..MaxMessages+1]

\* ps_create2 has made every task.
Init ==
  /\ node \in Nodes
  /\ \E p \in [Tasks -> Priorities] :
       k = [htp |-> Outside, run |-> [h \in Hosts |-> None], rtrq |-> <<>>, abort |-> None,
            st |-> [t \in Tasks |-> "suspended"], pri |-> p,
            hp |-> [t \in Tasks |-> AnyHost], tep |-> [t \in Tasks |-> None],
            rct |-> [t \in Tasks |-> FALSE], rtoep |-> [t \in Tasks |-> FALSE],
            qep |-> [t \in Tasks |-> FALSE], quanta |-> [t \in Tasks |-> 0],
            qx |-> [t \in Tasks |-> FALSE], nmess |-> [t \in Tasks |-> 0],
            inReceive |-> [t \in Tasks |-> FALSE], owed |-> [t \in Tasks |-> FALSE]]

-----------------------------------------------------------------------------
\* Queues and cpus.

MayRunOn(t, h) == Bound[t] \in {AnyHost, h}

\* ready: t goes behind the tasks Ahead of it; qx is qxflag.
Ahead(s, t, u, qx) ==
  CASE Discipline = "FIFO" -> TRUE
    [] Discipline = "HOL" \/ qx -> s.pri[u] >= s.pri[t]
    [] OTHER -> s.pri[u] > s.pri[t]

Ready(s, t, qx) ==
  LET q == s.rtrq
      i == CHOOSE i \in 1..Len(q)+1 : /\ \A j \in 1..i-1 : Ahead(s, t, q[j], qx)
                                      /\ i = Len(q) + 1 \/ ~Ahead(s, t, q[i], qx)
  IN [s EXCEPT !.rtrq = InsertAt(q, i, t), !.st[t] = "ready", !.hp[t] = AnyHost]

Dequeue(s, t) ==
  LET i == CHOOSE i \in DOMAIN s.rtrq : s.rtrq[i] = t
  IN [s EXCEPT !.rtrq = RemoveAt(@, i)]

RemoveQuantum(s, t) ==
  [s EXCEPT !.qep[t] = FALSE, !.quanta[t] = IF s.qep[t] THEN @ - 1 ELSE @]

AddQuantum(s, t) ==
  IF Quantum THEN [s EXCEPT !.qep[t] = TRUE, !.quanta[t] = @ + 1] ELSE s

\* A task that has left the hot state gives way to the driver.
Cooled(s) ==
  IF s.htp \in Tasks /\ s.st[s.htp] # "hot" THEN [s EXCEPT !.htp = Driver] ELSE s

\* Task t gets cpu h, to go on computing or to run at the next opportunity.
Start(s, t, h) ==
  LET a == AddQuantum([s EXCEPT !.run[h] = t, !.hp[t] = h], t)
  IN CASE s.rct[t] -> [a EXCEPT !.st[t] = "computing", !.tep[t] = "END_COMPUTE", !.rct[t] = FALSE]
       [] ~s.rct[t] /\ s.htp = Driver -> [a EXCEPT !.st[t] = "hot", !.htp = t]
       [] OTHER -> [a EXCEPT !.st[t] = "blocked", !.tep[t] = "END_BLOCK"]

-----------------------------------------------------------------------------
\* find_host.

FirstIdle(s, t) == {h \in {1} : s.run[h] = None /\ MayRunOn(t, h)}      \* slip
IdleFor(s, t) == {h \in Hosts : s.run[h] = None /\ MayRunOn(t, h)}

\* A syncing task keeps its cpu (but one killed meanwhile may lose it to a task
\* bound to that cpu: the code tests TASK_FREE for TASK_SYNC_FREE there).
KeepsCpu(s, u, t) ==
  s.st[u] \in {"sync", "syncSuspend"} \cup (IF Bound[t] = AnyHost THEN {"syncFree"} ELSE {"free"})

Preemptable(s, t) == {h \in Hosts : /\ MayRunOn(t, h) /\ s.pri[s.run[h]] < s.pri[t]
                                    /\ ~KeepsCpu(s, s.run[h], t)}

\* The first of the cpus whose task has the lowest priority.
Victim(s, t) ==
  CHOOSE h \in Preemptable(s, t) :
    \A g \in Preemptable(s, t) : \/ s.pri[s.run[h]] < s.pri[s.run[g]]
                                 \/ s.pri[s.run[h]] = s.pri[s.run[g]] /\ h <= g

Preempt(s, t, h) ==
  LET p == s.run[h]
      a == [RemoveQuantum(s, p) EXCEPT !.tep[p] = None]
  IN CASE s.st[p] = "hot" ->
            [Ready(a, p, FALSE) EXCEPT !.htp = t, !.run[h] = t, !.hp[t] = h, !.st[t] = "hot"]
       [] s.st[p] = "computing" -> Start(Ready([a EXCEPT !.rct[p] = TRUE], p, FALSE), t, h)
       [] s.st[p] = "blocked" -> Start(Ready(a, p, FALSE), t, h)
       [] OTHER -> Start(RemoveQuantum(s, p), t, h)

FindHost(s, t) ==
  IF IdleFor(s, t) # {} THEN Start(s, t, CHOOSE h \in IdleFor(s, t) : \A g \in IdleFor(s, t) : h <= g)
  ELSE IF Discipline = "PR" /\ Preemptable(s, t) # {} THEN Preempt(s, t, Victim(s, t))
  ELSE Ready(s, t, TRUE)

Fitting(s, h) == {i \in DOMAIN s.rtrq : MayRunOn(s.rtrq[i], h)}

\* find_ready: cpu h is free for the first ready task that may run on it.
FindReady(s, h) ==
  LET c == Cooled(s)
      fit == Fitting(c, h)
      i == CHOOSE i \in fit : \A j \in fit : i <= j
  IN IF fit = {} THEN [c EXCEPT !.run[h] = None]
                 ELSE Start([c EXCEPT !.rtrq = RemoveAt(@, i)], c.rtrq[i], h)

Forgets(s, t) == FALSE        \* slip
LeftOver(s, t) == s.tep[t] \in {"END_COMPUTE", "END_HOLD"}

\* find_priority: the task of cpu h gives way to the first ready task of a
\* priority above p (a remaining quantum event of the former stays).
FindPriority(s, h, p, qx) ==
  LET t == s.run[h]
      fit == {i \in Fitting(s, h) : \A j \in 1..i : s.pri[s.rtrq[j]] > p}
      i == CHOOSE i \in fit : \A j \in fit : i <= j
      a == [s EXCEPT !.rtrq = RemoveAt(@, i), !.tep[t] = None,
                     !.rct[t] = @ \/ LeftOver(s, t)]
  IN CASE fit # {} -> Start(Cooled(Ready(a, t, qx)), s.rtrq[i], h)
       [] fit = {} /\ s.htp # Driver -> s
       [] fit = {} /\ s.htp = Driver ->
            IF Quantum /\ ~s.qep[t] THEN AddQuantum(s, t)
                                    ELSE [s EXCEPT !.htp = t, !.st[t] = "hot"]

-----------------------------------------------------------------------------
\* System calls of a hot task about itself.

me == k.htp
Running == k.abort = None
Call(name) == Running /\ name \in Calls /\ me # Driver /\ (me \in Tasks => ~k.inReceive[me])
OwnCall(name) == Call(name) /\ me \in Tasks

\* ancestor: the task outside that made the node's first tasks, or the parent.
Ancestor(u) == me \in {Outside, Parent[u]}

Compute ==
  /\ OwnCall("compute")
  /\ k' = Cooled([k EXCEPT !.st[me] = "computing", !.tep[me] = "END_COMPUTE", !.owed[me] = TRUE])

Hold ==
  /\ OwnCall("hold")
  /\ k' = Cooled([k EXCEPT !.st[me] = "blocked", !.tep[me] = "END_HOLD"])

Sync ==
  /\ OwnCall("sync")
  /\ k' = Cooled([k EXCEPT !.st[me] = "sync", !.tep[me] = "END_SYNC"])

QuantumWhileAway(s, t) == s       \* slip
QuantumStops(s, t) == RemoveQuantum(s, t)

Sleep ==
  /\ OwnCall("sleep")
  /\ k' = FindReady([QuantumStops(k, me) EXCEPT !.st[me] = "sleeping", !.tep[me] = "END_SLEEP",
                                                !.hp[me] = AnyHost], k.hp[me])

\* port_receive with an empty port: wait, and look again when made to run.
WaitForMessage(s, t) ==
  FindReady([QuantumStops(s, t) EXCEPT !.st[t] = "receiving", !.inReceive[t] = TRUE], s.hp[t])

TakeMessage(s, t) ==
  [s EXCEPT !.nmess[t] = @ - 1, !.rtoep[t] = FALSE, !.inReceive[t] = FALSE]

Receive(name) ==
  /\ OwnCall(name)
  /\ k' = IF k.nmess[me] > 0 THEN TakeMessage(k, me)
          ELSE WaitForMessage([k EXCEPT !.rtoep[me] = name = "timed"], me)

WaitsAgain(s, t) == WaitForMessage(s, t)     \* slip
LooksAgain(s, t) == IF s.nmess[t] > 0 THEN TakeMessage(s, t) ELSE WaitForMessage(s, t)

ReceiveAgain ==
  /\ Running /\ me \in Tasks /\ k.inReceive[me]
  /\ k' = LooksAgain(k, me)

-----------------------------------------------------------------------------
\* System calls about another task, or about the caller.

\* port_send: a message wakes its receiver and cancels the time-out.
PortSend(s, u) ==
  LET a == [s EXCEPT !.nmess[u] = @ + 1]
  IN IF s.st[u] = "receiving" THEN FindHost([a EXCEPT !.rtoep[u] = FALSE], u) ELSE a

Send(u) ==
  /\ Call("send") /\ k.st[u] # "free" /\ k.nmess[u] < MaxMessages
  /\ k' = PortSend(k, u)

\* A suspended task leaves the queue, event or cpu it had.
SuspendTask(s, u) ==
  LET old == s.st[u]
      a == [RemoveQuantum(s, u) EXCEPT !.st[u] = "suspended", !.hp[u] = AnyHost]
  IN CASE old = "sync" -> [s EXCEPT !.st[u] = "syncSuspend"]
       [] old = "ready" -> Dequeue(a, u)
       [] old \in {"blocked", "computing"} -> FindReady([a EXCEPT !.tep[u] = None], s.hp[u])
       [] old = "hot" -> FindReady(a, s.hp[u])
       [] old \in {"receiving", "sleeping"} -> [a EXCEPT !.tep[u] = None]
       [] old = "suspended" -> a
       [] OTHER -> s

Suspend(u) == Call("suspend") /\ k' = SuspendTask(k, u)

Resume(u) ==
  /\ Call("resume")
  /\ \/ k.st[u] = "suspended" /\ k' = FindHost(k, u)
     \/ k.st[u] = "syncSuspend" /\ k' = [k EXCEPT !.st[u] = "sync"]

CancelEvent(s, u) == [s EXCEPT !.tep[u] = None]

Awaken(u) ==
  /\ Call("awaken") /\ k.st[u] = "sleeping"
  /\ k' = FindHost(CancelEvent(k, u), u)

Requeue(s, u) == IF Discipline = "FIFO" THEN s ELSE FindHost(Dequeue(s, u), u)

\* adjust_priority may give the cpu to another task at once.
Adjusted(s, u, p) ==
  LET a == [s EXCEPT !.pri[u] = p]
  IN CASE s.st[u] = "ready" -> Requeue(a, u)
       [] s.st[u] \in {"hot", "blocked", "computing"} /\ Discipline = "PR" ->
            FindPriority(a, s.hp[u], p, FALSE)
       [] OTHER -> a

AdjustPriority(u, p) ==
  /\ Call("priority") /\ k.st[u] # "free" /\ k.pri[u] # p /\ (Ancestor(u) \/ u = me)
  /\ k' = Adjusted(k, u, p)

NotDequeued(s, u) == s          \* slip
LeavesQueue(s, u) == Dequeue(s, u)

\* ps_kill of another task; one that syncs is killed when its sync ends.
KillTask(s, u) ==
  LET old == s.st[u]
      a == [RemoveQuantum(s, u) EXCEPT
              !.st[u] = "free", !.tep[u] = None, !.rtoep[u] = FALSE,
              !.nmess[u] = 0, !.inReceive[u] = FALSE, !.owed[u] = FALSE]
  IN CASE old \in {"sync", "syncSuspend"} -> [s EXCEPT !.st[u] = "syncFree"]
       [] old = "ready" -> LeavesQueue(a, u)
       [] old \in {"blocked", "computing"} -> FindReady(a, s.hp[u])
       [] old \in {"sleeping", "receiving", "suspended"} -> a
       [] OTHER -> s

\* Only tasks without sons are killed.
Kill(u) ==
  /\ Call("kill") /\ Ancestor(u) /\ k.st[u] # "free" /\ \A t \in Tasks : Parent[t] # u
  /\ k' = KillTask(k, u)

\* get_table_entry: a task is created in the entry of a dead one.
FreeEntry(u) == k.st[u] = "free"

Create(u, p) ==
  /\ Call("create") /\ FreeEntry(u) /\ me = Parent[u]
  /\ k' = [k EXCEPT !.st[u] = "suspended", !.pri[u] = p, !.hp[u] = AnyHost, !.rct[u] = FALSE, !.qx[u] = FALSE]

\* A task of another node runs, and blocks.
OutsideRuns == Running /\ me = Driver /\ k' = [k EXCEPT !.htp = Outside]
OutsideBlocks == Running /\ me = Outside /\ k' = [k EXCEPT !.htp = Driver]

-----------------------------------------------------------------------------
\* Events.  END_BLOCK events are due now: sched and the driver take them first.

Pending(t, e) == Running /\ me = Driver /\ k.tep[t] = e
Timed == \A t \in Tasks : k.tep[t] # "END_BLOCK"

Abort(why) == k' = [k EXCEPT !.abort = why]
Unless(bad, why, s) == IF bad THEN Abort(why) ELSE k' = s

MadeHot(s, t) == [s EXCEPT !.htp = t, !.st[t] = "hot", !.tep[t] = None]

EndBlock(t) ==
  /\ Pending(t, "END_BLOCK") \/ (Pending(t, "END_HOLD") /\ Timed)
  /\ Unless(k.st[t] # "blocked", "event", MadeHot(k, t))

EndCompute(t) ==
  /\ Pending(t, "END_COMPUTE") /\ Timed
  /\ Unless(k.st[t] # "computing", "event", [MadeHot(k, t) EXCEPT !.owed[t] = FALSE])

EndSleep(t) ==
  /\ Pending(t, "END_SLEEP") /\ Timed
  /\ Unless(k.st[t] # "sleeping", "event", FindHost([k EXCEPT !.tep[t] = None], t))

EndReceive(t) ==
  /\ Running /\ me = Driver /\ Timed /\ k.rtoep[t]
  /\ Unless(k.st[t] # "receiving", "receive", PortSend([k EXCEPT !.rtoep[t] = FALSE], t))

EndSync(t) ==
  /\ Pending(t, "END_SYNC") /\ Timed
  /\ LET h == k.hp[t]
         a == [k EXCEPT !.tep[t] = None]
     IN CASE k.st[t] = "syncSuspend" ->
               k' = FindReady([RemoveQuantum(a, t) EXCEPT !.st[t] = "suspended", !.hp[t] = AnyHost], h)
          [] k.st[t] = "syncFree" -> k' = KillTask([a EXCEPT !.st[t] = "computing"], t)
          [] k.st[t] = "sync" /\ k.qx[t] ->
               k' = FindPriority([a EXCEPT !.qx[t] = FALSE], h, k.pri[t] - 1, TRUE)
          [] k.st[t] = "sync" /\ ~k.qx[t] /\ Discipline = "PR" -> k' = FindPriority(a, h, k.pri[t], FALSE)
          [] k.st[t] = "sync" /\ ~k.qx[t] /\ Discipline # "PR" -> k' = MadeHot(a, t)
          [] OTHER -> Abort("event")

GivesWayToHigher(t) == k.pri[t]       \* slip
\* At the end of its quantum a task gives way to its equals, or to anyone.
GivesWayTo(t) == IF Discipline = "FIFO" THEN -1 ELSE k.pri[t] - 1

EndQuantum(t) ==
  /\ Running /\ me = Driver /\ Timed /\ k.quanta[t] > 0
  /\ LET a == [k EXCEPT !.qep[t] = FALSE, !.quanta[t] = @ - 1]
     IN CASE k.st[t] = "computing" -> k' = FindPriority(a, k.hp[t], GivesWayTo(t), Discipline # "FIFO")
          [] k.st[t] \in {"sync", "syncSuspend", "syncFree"} -> k' = [a EXCEPT !.qx[t] = TRUE]
          [] OTHER -> Abort("quantum")

Event(t) == EndBlock(t) \/ EndCompute(t) \/ EndSleep(t) \/ EndReceive(t) \/ EndSync(t) \/ EndQuantum(t)

Next ==
  /\ UNCHANGED node
  /\ \/ Compute \/ Hold \/ Sync \/ Sleep \/ Receive("receive") \/ Receive("timed") \/ ReceiveAgain
     \/ OutsideRuns \/ OutsideBlocks
     \/ \E t \in Tasks :
          \/ Send(t) \/ Suspend(t) \/ Resume(t) \/ Awaken(t) \/ Kill(t) \/ Event(t)
          \/ \E p \in Priorities : AdjustPriority(t, p) \/ Create(t, p)

Spec == Init /\ [][Next]_vars

-----------------------------------------------------------------------------
OnCpu == {"hot", "computing", "blocked", "sync", "syncSuspend", "syncFree"}
Uninterruptible == {"sync", "syncSuspend", "syncFree"}

\* Every cpu is run by the one task that believes to have it, and the hot task
\* of the simulation is in the hot state: no cpu is shared, lost or leaked.
CpusAgree ==
  /\ \A t \in Tasks : /\ (k.st[t] \in OnCpu) = (\E h \in Hosts : k.run[h] = t)
                      /\ k.st[t] \in OnCpu => k.run[k.hp[t]] = t
                      /\ (k.st[t] = "hot") = (k.htp = t)

\* The ready queue holds exactly the ready tasks, each once, and unless it is
\* FIFO in the order of their priorities.
QueueIsReady ==
  /\ Range(k.rtrq) = {t \in Tasks : k.st[t] = "ready"}
  /\ IsInjective(k.rtrq)
  /\ Discipline # "FIFO" => \A i, j \in DOMAIN k.rtrq : i < j => k.pri[k.rtrq[i]] >= k.pri[k.rtrq[j]]

\* The tables of the kernel agree: cpus with task states, the ready queue with
\* the ready tasks.
Consistent == TypeOK /\ CpusAgree /\ QueueIsReady

\* No cpu idles while a task that may run on it is ready.
WorkConserving ==
  \A h \in Hosts : k.run[h] = None => \A t \in Tasks : k.st[t] = "ready" => ~MayRunOn(t, h)

\* Under preemptive scheduling no interruptible task keeps a cpu from a ready
\* task of higher priority.
HighestRuns ==
  Discipline = "PR" =>
    \A h \in Hosts, t \in Tasks :
      k.st[t] = "ready" /\ MayRunOn(t, h) /\ k.run[h] # None /\ k.st[k.run[h]] \notin Uninterruptible
        => k.pri[t] <= k.pri[k.run[h]]

\* The cpus are given to the right tasks: none idles beside a task that may
\* run on it, and none is kept from a task of higher priority.
CpusWellUsed == WorkConserving /\ HighestRuns

\* Every pending event finds its task in the state its handler expects, so that
\* no handler aborts the simulation.
NoAbort == Running

\* A task that has given up its cpu, or keeps it without computing, has an
\* event, a message or a call of another task to wait for: none is forgotten.
WakersExist ==
  \A t \in Tasks :
    /\ k.st[t] \in {"computing", "blocked", "sleeping", "sync", "syncSuspend", "syncFree"} => k.tep[t] # None
    /\ k.st[t] = "receiving" => k.nmess[t] = 0

\* The same of the nodes on which no sync can outlast a quantum.
NoneForgotten == ~(Quantum /\ "sync" \in Calls) => WakersExist

\* ps_compute returns only when the task has had the cpu time it asked for.
ComputesFully == \A t \in Tasks : k.st[t] = "hot" => ~k.owed[t]

\* However often a computation is preempted or its quantum ends, the task goes
\* on only when it has had all of its time (unless it may be suspended).
PreemptionKeepsTime == "suspend" \notin Calls => ComputesFully

\* The events are taken in the order of time: a task that computes is
\* interrupted by its quantum or ends; the tasks outside do not run for ever.
FairSpec ==
  /\ Spec
  /\ WF_vars(OutsideBlocks /\ UNCHANGED node) /\ WF_vars(Compute /\ UNCHANGED node)
  /\ \A t \in Tasks : /\ SF_vars(EndBlock(t) /\ UNCHANGED node)
                      /\ SF_vars(EndCompute(t) /\ UNCHANGED node)
                      /\ SF_vars(EndQuantum(t) /\ UNCHANGED node)

\* Round robin: with a quantum every ready task gets a cpu again.
RoundRobin == \A t \in Tasks : (Quantum /\ k.st[t] = "ready") ~> k.st[t] # "ready"
=============================================================================
