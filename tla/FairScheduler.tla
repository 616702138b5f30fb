---------------------------- MODULE FairScheduler ----------------------------
(***************************************************************************)
(* The completely fair scheduler of the parasol kernel (parasol/src/       *)
(* para_library.c): the tasks of a node are in groups; every cpu has one   *)
(* run queue of groups and, for each group, one of its tasks.  A task that *)
(* runs stays in its queue, and changes its place there when its account   *)
(* is brought up to date.  The accounts are sums of real numbers, so the   *)
(* key of an insertion is any value, and so is the verdict of check_fair   *)
(* on two tasks of one group.                                              *)
(*                                                                         *)
(* Of the scheduling of the other disciplines (Scheduler) only what        *)
(* concerns the queues is here; tasks are not killed while they run.       *)
(***************************************************************************)
EXTENDS RunQueue

CONSTANTS Tasks,        \* tasks
          Nodes         \* nodes there may be, and what happens on them

\* Task t is in group member[t], and may only run on cpu bound[t], if not 0; its tasks
\* are those of start, in the order in which they arrive first; keys and groupKeys
\* are the keys of its tasks and groups, and maxLoad is a bound of a cpu's load.
Calls == {"arrive", "leave", "suspend", "update", "quantum"}
ASSUME FairAssumption ==
  \A n \in Nodes :
    /\ {n.ncpu, n.ngroup, n.maxLoad} \subseteq Nat \ {0} /\ n.capped \subseteq 1..n.ngroup
    /\ n.member \in [Tasks -> 1..n.ngroup] /\ n.bound \in [Tasks -> 0..n.ncpu]
    /\ n.start \in Seq(Tasks) /\ IsInjective(n.start) /\ n.keys \cup n.groupKeys \subseteq Keys
    /\ n.calls \subseteq Calls
    /\ Size >= n.ngroup /\ Size >= Cardinality(Tasks)

VARIABLES node,         \* the node, as ps_build_node and ps_build_group made it
          f             \* its cpus, tasks and queues, a record of
\*   queue[q]  a tree for every cpu, <<h, 0>>, and for every group on it, <<h, g>>
\*   curr[q]   the running entity, or None       at[e]    the node of an entity
\*   load[h]   tasks queued for cpu h            order[q] history: the fairest first
\*   run[h]    run_task of cpu h                 host[t]  cpu of a task, or 0
\*   st[t]     "away", "ready" or "running"   started  tasks of start that have come
vars == <<node, f>>

Hosts == 1..node.ncpu
Groups == 1..node.ngroup
Queues == Hosts \X (0..node.ngroup)
\* The entity of a group on a cpu is named like its queue.
GroupEntities == Hosts \X Groups
Entities == Tasks \cup GroupEntities
IsGroup(e) == e \in GroupEntities

Init ==
  /\ node \in Nodes
  /\ f = [queue |-> [q \in Queues |-> EmptyTree], curr |-> [q \in Queues |-> None],
          at |-> [e \in Entities |-> Nil], load |-> [h \in Hosts |-> 0],
          order |-> [q \in Queues |-> <<>>], run |-> [h \in Hosts |-> None],
          host |-> [t \in Tasks |-> 0], st |-> [t \in Tasks |-> "away"], started |-> 0]

-----------------------------------------------------------------------------
\* Queues of entities.

QueueOf(s, e) == IF IsGroup(e) THEN <<e[1], 0>> ELSE <<s.host[e], node.member[e]>>
\* si->parent of a task
ParentOf(s, t) == QueueOf(s, t)
OnQueue(s, e) == s.at[e] # Nil
NReady(s, q) == Cardinality(InUse(s.queue[q]))
\* rb_set_data moves an entity to another node.
Placed(t, e) == IF \E n \in RBNodes : t.si[n] = e THEN CHOOSE n \in RBNodes : t.si[n] = e ELSE Nil

\* The reference: behind the entities with the same key.
Reference(o, e, key) ==
  LET i == CHOOSE i \in 1..Len(o)+1 : /\ \A j \in 1..i-1 : o[j][2] <= key
                                      /\ i = Len(o) + 1 \/ o[i][2] > key
  IN InsertAt(o, i, <<e, key>>)

\* enque_cfs_si
EnqueSi(s, e, key) ==
  LET q == QueueOf(s, e)
      n == Unused(s.queue[q])
  IN IF OnQueue(s, e) THEN s
     ELSE [s EXCEPT !.queue[q] = InsertNode(@, n, key, e), !.at[e] = n, !.order[q] = Reference(@, e, key)]

KeepsNode(s, q, t) == s.at        \* slip
\* rb_set_data: the entity that moved knows its node.
Moved(s, q, t) == [e \in Entities |-> IF OnQueue(s, e) /\ QueueOf(s, e) = q THEN Placed(t, e) ELSE s.at[e]]

\* dq_cfs_si
WithTree(s, e, q, t) ==
  [s EXCEPT !.queue[q] = t, !.at = [Moved(s, q, t) EXCEPT ![e] = Nil],
            !.order[q] = SelectSeq(@, LAMBDA p : p[1] # e)]
DqSi(s, e) == WithTree(s, e, QueueOf(s, e), DeleteNode(s.queue[QueueOf(s, e)], s.at[e]))

\* enqueue_cfs_task: a group is queued with its first task.  The load counts the
\* task even when it is queued already, as a preempted task is.
EnqueueTask(s, t, kt, kg) ==
  LET a == IF OnQueue(s, t) THEN s ELSE EnqueSi(EnqueSi(s, t, kt), ParentOf(s, t), kg)
  IN [a EXCEPT !.load[s.host[t]] = @ + 1]

\* dq_cfs_task: the group leaves with its last task.
EmptyGroupLeaves(s, e) == IF NReady(s, e) > 0 THEN s ELSE DqSi(s, e)
DqTask(s, t) ==
  [EmptyGroupLeaves(DqSi(s, t), ParentOf(s, t)) EXCEPT
     !.load[s.host[t]] = @ - 1, !.st[t] = "away", !.host[t] = 0]

\* find_fair_task: the fairest task of the fairest group.
FairestOf(s, q) == IF s.queue[q].leftmost = Nil THEN None ELSE s.queue[q].si[s.queue[q].leftmost]
FairTask(s, h) ==
  IF FairestOf(s, <<h, 0>>) = None THEN None ELSE FairestOf(s, FairestOf(s, <<h, 0>>))

Requeue(s, e, key) == EnqueSi(DqSi(s, e), e, key)

\* update_run_task: the running task, its group and the groups queued on its cpu
\* get new keys, unless it has been brought up to date at this time.
Updates(s, t) ==
  LET h == s.host[t]
      others == SelectSeq([g \in Groups |-> <<h, g>>], LAMBDA e : OnQueue(s, e))
  IN {FoldLeft(LAMBDA a, e : Requeue(a, e, kg[e]),
               Requeue(Requeue(s, t, kt), ParentOf(s, t), kg[ParentOf(s, t)]), others)
        : kt \in node.keys, kg \in [Range(others) -> node.groupKeys]} \cup {s}

\* set_cfs_task_run and cooling_cfs_task
SetRun(s, t) ==
  [s EXCEPT !.curr[QueueOf(s, t)] = t, !.curr[<<s.host[t], 0>>] = ParentOf(s, t),
            !.run[s.host[t]] = t, !.st[t] = "running"]
KeepsGroupCurrent(s, t) == [s EXCEPT !.curr[QueueOf(s, t)] = None]      \* slip
Cooling(s, t) == [s EXCEPT !.curr[QueueOf(s, t)] = None, !.curr[<<s.host[t], 0>>] = None]

-----------------------------------------------------------------------------
\* find_min_load_host: the first of the cpus with the fewest tasks of the group and,
\* of these, the least load.
Better(s, t, h, i) ==
  LET a == NReady(s, <<h, node.member[t]>>)
      b == NReady(s, <<i, node.member[t]>>)
  IN \/ a < b
     \/ a = b /\ s.load[h] < s.load[i]
     \/ a = b /\ s.load[h] = s.load[i] /\ h <= i

MinLoadHost(s, t) == CHOOSE h \in Hosts : \A i \in Hosts : Better(s, t, h, i)

\* find_ready_cfs
FindReady(s, h) ==
  IF FairTask(s, h) = None THEN [s EXCEPT !.run[h] = None] ELSE SetRun(s, FairTask(s, h))

\* find_host_cfs: a task arrives; it is queued for a cpu, and runs if that is idle.
Arrived(s, t, kt, kg) ==
  LET h == IF node.bound[t] = 0 THEN MinLoadHost(s, t) ELSE node.bound[t]
      a == EnqueueTask([s EXCEPT !.host[t] = h, !.st[t] = "ready"], t, kt, kg)
  IN IF s.run[h] = None THEN SetRun(a, t) ELSE a

Started == f.started = Len(node.start)
Can(call) == Started /\ call \in node.calls

Start ==
  /\ ~Started
  /\ \E kt \in node.keys, kg \in node.groupKeys :
       f' = [Arrived(f, node.start[f.started + 1], kt, kg) EXCEPT !.started = @ + 1]

FindHost(t) ==
  /\ Can("arrive") /\ f.st[t] = "away" /\ \A h \in Hosts : f.load[h] < node.maxLoad
  /\ \E kt \in node.keys, kg \in node.groupKeys : f' = Arrived(f, t, kt, kg)

\* The running task sleeps, waits for a message or is suspended.
Leave(t) ==
  /\ Can("leave") /\ f.st[t] = "running"
  /\ \E s \in Updates(f, t) :
       f' = FindReady(DqTask(Cooling(s, t), t), f.host[t])

\* A ready task is suspended or killed.
LeaveReady(t) == Can("suspend") /\ f.st[t] = "ready" /\ f' = DqTask(f, t)

\* end_block, end_compute and end_sync bring the account up to date.
Update(t) == Can("update") /\ f.st[t] = "running" /\ f' \in Updates(f, t)

\* find_priority_cfs, at the end of a quantum: the running task gives way to the
\* fairest one, if that is of another group or fairer by more than a grain.
GivesWay(s, t) ==
  LET u == FairTask(s, s.host[t])
  IN SetRun(EnqueueTask(Cooling([s EXCEPT !.st[t] = "ready"], t), t, 0, 0), u)

FindPriority(t) ==
  /\ Can("quantum") /\ f.st[t] = "running" /\ f.load[f.host[t]] < node.maxLoad
  /\ \E s \in Updates(f, t) :
       LET u == FairTask(s, f.host[t])
       IN \/ u # t /\ f' = GivesWay(s, t)
          \/ (u = t \/ node.member[u] = node.member[t]) /\ f' = s

\* cap_handler: a group that has used up its share sleeps, all of it.
Asleep(s, q) ==
  FoldLeft(LAMBDA a, t : [DqSi(a, t) EXCEPT !.st[t] = "away", !.host[t] = 0], s,
           [i \in DOMAIN s.order[q] |-> s.order[q][i][1]])

CapHandler(t) ==
  /\ Can("quantum") /\ f.st[t] = "running" /\ node.member[t] \in node.capped
  /\ \E s \in Updates(f, t) :
       f' = FindReady(DqSi(Asleep(Cooling(s, t), QueueOf(s, t)), ParentOf(s, t)), f.host[t])

Next ==
  /\ UNCHANGED node
  /\ \/ Start
     \/ \E t \in Range(node.start) :
          FindHost(t) \/ Leave(t) \/ LeaveReady(t) \/ Update(t) \/ FindPriority(t) \/ CapHandler(t)

Spec == Init /\ [][Next]_vars

-----------------------------------------------------------------------------
TypeOK ==
  /\ node \in Nodes /\ f.st \in [Tasks -> {"away", "ready", "running"}] /\ f.host \in [Tasks -> {0} \cup Hosts]
  /\ f.run \in [Hosts -> Tasks \cup {None}] /\ f.curr \in [Queues -> Entities \cup {None}]
  /\ f.load \in [Hosts -> Nat] /\ f.at \in [Entities -> 0..Size]

\* The tasks queued are those that are ready or run, and a group is queued exactly
\* while one of its tasks is: find_fair_task never misses a ready task (8231-8250).
GroupsFollow ==
  /\ \A t \in Tasks : OnQueue(f, t) = (f.st[t] # "away")
  /\ \A e \in GroupEntities : OnQueue(f, e) = (NReady(f, e) > 0)

\* The current entities of the queues are the task that its cpu runs and its group,
\* and a cpu is idle only with empty queues.
CurrentRuns ==
  \A h \in Hosts :
    LET t == f.run[h]
    IN /\ t # None => /\ f.st[t] = "running" /\ f.host[t] = h
                      /\ f.curr[<<h, 0>>] = ParentOf(f, t) /\ f.curr[ParentOf(f, t)] = t
       /\ t = None => NReady(f, <<h, 0>>) = 0
       /\ \A g \in 0..node.ngroup :
            (t = None \/ g \notin {0, node.member[t]}) => f.curr[<<h, g>>] = None

\* A cpu has at least the load of the tasks that are queued for it (8341-8373).
LoadCovers ==
  \A h \in Hosts : f.load[h] >= Cardinality({t \in Tasks : OnQueue(f, t) /\ f.host[t] = h})

\* The bookkeeping of queues, groups, cpus and loads is one.
Consistent == TypeOK /\ GroupsFollow /\ CurrentRuns /\ LoadCovers

\* Insertions and deletions in any order, with equal keys, keep every queue a
\* red-black tree (7860-8150).
TreesAreBalanced == \A q \in Queues : Linked(f.queue[q]) /\ RedBlack(f.queue[q])

\* A queue is what a sorted list would be: read from left to right it gives its
\* entities by key and, for equal keys, by age; the first of them is the one that is
\* found, and every entity knows its node also after a deletion has moved it to
\* another (8140, 8222-8250).
QueuesKeepOrder ==
  \A q \in Queues :
    LET t == f.queue[q]
        nodes == InOrder(t, t.root)
    IN /\ f.order[q] = [i \in DOMAIN nodes |-> <<t.si[nodes[i]], t.key[nodes[i]]>>]
       /\ t.leftmost = IF nodes = <<>> THEN Nil ELSE nodes[1]
       /\ \A n \in InUse(t) : f.at[t.si[n]] = n

\* The queues are balanced trees in the right order.
QueuesAreSorted == TreesAreBalanced /\ QueuesKeepOrder

\* A task that may run anywhere is not queued behind another while a cpu idles.
IdleCpuServes ==
  [][\A t \in Tasks : f.st[t] = "away" /\ f'.st[t] # "away" /\ node.bound[t] = 0
                        /\ (\E h \in Hosts : f.run[h] = None) => f'.st[t] = "running"]_vars
=============================================================================
