----------------------------- MODULE SpinLocks -----------------------------
(***************************************************************************)
(* The spin locks of the parasol kernel (parasol/src/para_library.c):      *)
(* ps_lock, ps_unlock and release_locks, by which ps_suspend and ps_kill   *)
(* take the locks of a task away.                                          *)
(*                                                                         *)
(* A lock knows its owner and the tasks that spin on it.  A task knows the *)
(* first of its locks, which are linked through the field next of a lock.  *)
(* A spinning task keeps its cpu, but it may lose it like any other: it    *)
(* then leaves the queue of the lock, and tries again when it runs again.  *)
(*                                                                         *)
(* The processor scheduler is abstract here (module Scheduler has it): a   *)
(* task may be preempted, or get a cpu, at any time.  The kernel runs one  *)
(* task at a time, and nothing interrupts a system call: release_locks is  *)
(* a loop of steps during which nobody else moves.                         *)
(*                                                                         *)
(* A definition marked "slip" is what the definition after it becomes      *)
(* under a plausible programming error.                                    *)
(***************************************************************************)
EXTENDS Integers, FiniteSets

CONSTANTS Tasks, Locks,
          Programs      \* what the tasks may do: [held |-> locks a task may have or
                        \* wait for at a time, stopped |-> may tasks be suspended and
                        \* killed?, strangers |-> also by others than ancestors?]

NoTask == "no task"     \* NULL_TASK
NoLock == "no lock"     \* NULL_LOCK

ASSUME LockAssumption ==
  /\ NoTask \notin Tasks /\ NoLock \notin Locks /\ IsFiniteSet(Locks) /\ IsFiniteSet(Tasks)
  /\ Programs \subseteq [held : Nat, stopped : BOOLEAN, strangers : BOOLEAN]

VARIABLES
  program,      \* what the tasks may do
  owner,        \* owner[l]: the task that has locked l, or NoTask (UNLOCKED)
  queue,        \* queue[l]: the tasks spinning on l, in no order as ps_choice picks one
  count,        \* count[l]: how many there are
  next,         \* next[l]: the lock after l in the list of its owner
  lockList,     \* lockList[t]: the first lock of task t
  spinLock,     \* spinLock[t]: the lock t spins on
  st,           \* st[t]: running (TASK_HOT or TASK_COMPUTING), blocked
                \* (END_BLOCK is due), spinning, ready, suspended or free
  wants,        \* wants[t]: the lock of the ps_lock that t has not returned from
  releasing,    \* the loop of release_locks: its task and its next lock
  has           \* history: has[t], locks t got by ps_lock and has not lost since

locks == <<owner, queue, count, next, lockList, spinLock>>
vars == <<program, locks, st, wants, releasing, has>>

Idle == [task |-> NoTask, lock |-> NoLock]

\* The kernel's tables hold indices of tasks and locks, or the null ones, and the
\* count of a lock, which ps_choice takes for that of a queue, is never negative:
\* no task leaves a queue that it has already left.
TypeOK ==
  /\ program \in Programs
  /\ owner \in [Locks -> Tasks \cup {NoTask}] /\ queue \in [Locks -> SUBSET Tasks]
  /\ count \in [Locks -> Nat]
  /\ next \in [Locks -> Locks \cup {NoLock}] /\ lockList \in [Tasks -> Locks \cup {NoLock}]
  /\ spinLock \in [Tasks -> Locks \cup {NoLock}] /\ wants \in [Tasks -> Locks \cup {NoLock}]
  /\ st \in [Tasks -> {"running", "blocked", "spinning", "ready", "suspended", "free"}]
  /\ releasing \in [task : Tasks \cup {NoTask}, lock : Locks \cup {NoLock}]
  /\ has \in [Tasks -> SUBSET Locks]

Init ==
  /\ program \in Programs
  /\ owner = [l \in Locks |-> NoTask] /\ queue = [l \in Locks |-> {}]
  /\ count = [l \in Locks |-> 0]
  /\ next = [l \in Locks |-> NoLock] /\ lockList = [t \in Tasks |-> NoLock]
  /\ spinLock = [t \in Tasks |-> NoLock] /\ wants = [t \in Tasks |-> NoLock]
  /\ st = [t \in Tasks |-> "ready"] /\ releasing = Idle
  /\ has = [t \in Tasks |-> {}]

-----------------------------------------------------------------------------
\* The locks that the first one of a task and the links lead to: those in every set
\* with the first lock and, with any lock, the one that its field next names.
Closed(t, S) == lockList[t] \in S \cup {NoLock} /\ \A m \in S : next[m] \in S \cup {NoLock}
Held(t) == {l \in Locks : \A S \in SUBSET Locks : Closed(t, S) => l \in S}

StaysMarked(t) ==                                     \* slip
  /\ queue' = [l \in Locks |-> queue[l] \ (IF spinLock[t] = l THEN {t} ELSE {})]
  /\ count' = [l \in Locks |-> IF spinLock[t] = l THEN count[l] - 1 ELSE count[l]]
  /\ UNCHANGED spinLock

\* dq_lock, of a task that may be spinning.
DqLock(t) ==
  /\ queue' = [l \in Locks |-> queue[l] \ (IF spinLock[t] = l THEN {t} ELSE {})]
  /\ count' = [l \in Locks |-> IF spinLock[t] = l THEN count[l] - 1 ELSE count[l]]
  /\ spinLock' = [spinLock EXCEPT ![t] = NoLock]

StaysInQueue(t) == UNCHANGED <<queue, count, spinLock>>      \* slip
GivesUpSpinning(t) == DqLock(t)

\* A lock goes to one of the tasks spinning on it, chosen at random (ps_choice),
\* or is unlocked; heads are the lists of locks without it.
HandOver(l, heads) ==
  \/ /\ queue[l] = {}
     /\ owner' = [owner EXCEPT ![l] = NoTask] /\ lockList' = heads
     /\ UNCHANGED <<queue, count, spinLock, st>>
  \/ \E t \in queue[l] :
       /\ DqLock(t)
       /\ owner' = [owner EXCEPT ![l] = t] /\ lockList' = [heads EXCEPT ![t] = l]
       /\ st' = [st EXCEPT ![t] = "blocked"]

JustUnlock(l, heads) ==                               \* slip
  /\ owner' = [owner EXCEPT ![l] = NoTask] /\ lockList' = heads
  /\ UNCHANGED <<queue, count, spinLock, st>>
PassOn(l, heads) == HandOver(l, heads)

\* The field next of a lock that is handed over becomes its new owner's first
\* lock, and that of an unlocked one stays.
Relink(l, links) == next' = IF owner'[l] = NoTask THEN links ELSE [links EXCEPT ![l] = lockList[owner'[l]]]

-----------------------------------------------------------------------------
Quiet == releasing = Idle
Calls(t) == Quiet /\ st[t] = "running" /\ wants[t] = NoLock

\* One round of the loop in ps_lock.
AlreadyMine(t, l) == owner[l] = t

Spin(t, l) ==
  /\ owner[l] \notin {NoTask, t}
  /\ queue' = [queue EXCEPT ![l] = @ \cup {t}] /\ count' = [count EXCEPT ![l] = @ + 1]
  /\ spinLock' = [spinLock EXCEPT ![t] = l] /\ wants' = [wants EXCEPT ![t] = l]
  /\ st' = [st EXCEPT ![t] = "spinning"]
  /\ UNCHANGED <<owner, next, lockList, releasing, has>>

Return(t, l) == wants' = [wants EXCEPT ![t] = NoLock] /\ has' = [has EXCEPT ![t] = @ \cup {l}]

NobodyQueues(l) == queue[l] = {}     \* slip
MayTake(l) == owner[l] = NoTask

Acquire(t, l) ==
  /\ MayTake(l)
  /\ DqLock(t) /\ owner' = [owner EXCEPT ![l] = t]
  /\ next' = [next EXCEPT ![l] = lockList[t]] /\ lockList' = [lockList EXCEPT ![t] = l]
  /\ Return(t, l) /\ UNCHANGED <<st, releasing>>

Owns(t, l) == AlreadyMine(t, l) /\ Return(t, l) /\ UNCHANGED <<locks, st, releasing>>

TryLock(t, l) == Spin(t, l) \/ Acquire(t, l) \/ Owns(t, l)

Lock(t, l) == Calls(t) /\ Cardinality(Held(t) \cup {l}) <= program.held /\ TryLock(t, l)
LockAgain(t) == Quiet /\ st[t] = "running" /\ wants[t] # NoLock /\ TryLock(t, wants[t])

Before(t, l) == {m \in Held(t) : next[m] = l}

\* ps_unlock, by the owner or by the ancestor of all the tasks.
Unlock(l) ==
  LET t == owner[l]
      heads == [lockList EXCEPT ![t] = IF @ = l THEN next[l] ELSE @]
      links == [m \in Locks |-> IF m \in Before(t, l) THEN next[l] ELSE next[m]]
  IN /\ Quiet /\ t # NoTask
     /\ PassOn(l, heads) /\ Relink(l, links)
     /\ has' = [has EXCEPT ![t] = @ \ {l}]
     /\ UNCHANGED <<wants, releasing>>

\* The task loses the cpu it had (find_host, find_priority), and gets one.
Preempt(t) ==
  /\ Quiet /\ st[t] \in {"running", "blocked", "spinning"}
  /\ GivesUpSpinning(t) /\ st' = [st EXCEPT ![t] = "ready"]
  /\ UNCHANGED <<owner, next, lockList, wants, releasing, has>>

Run(t) ==
  /\ Quiet /\ st[t] \in {"ready", "blocked"} /\ st' = [st EXCEPT ![t] = "running"]
  /\ UNCHANGED <<locks, wants, releasing, has>>

\* release_locks begins with the first lock of the task.
ReleasesNothing(t) == releasing' = [task |-> t, lock |-> NoLock]       \* slip
Release(t) == releasing' = [task |-> t, lock |-> lockList[t]]

\* ps_suspend.  release_locks does nothing when its caller is no ancestor.
Suspend(t) ==
  /\ Quiet /\ program.stopped /\ st[t] \notin {"suspended", "free"}
  /\ st' = [st EXCEPT ![t] = "suspended"] /\ Release(t)
  /\ has' = [has EXCEPT ![t] = {}]
  /\ UNCHANGED <<locks, wants>>

SuspendByStranger(t) ==
  /\ Quiet /\ program.strangers /\ st[t] \notin {"suspended", "free"}
  /\ st' = [st EXCEPT ![t] = "suspended"] /\ GivesUpSpinning(t)
  /\ UNCHANGED <<owner, next, lockList, wants, releasing, has>>

Resume(t) ==
  /\ Quiet /\ st[t] = "suspended" /\ st' = [st EXCEPT ![t] = "ready"]
  /\ UNCHANGED <<locks, wants, releasing, has>>

\* ps_kill, and ps_create2 of a task in the entry of a dead one.
Kill(t) ==
  /\ Quiet /\ program.stopped /\ st[t] # "free"
  /\ st' = [st EXCEPT ![t] = "free"] /\ Release(t)
  /\ has' = [has EXCEPT ![t] = {}] /\ wants' = [wants EXCEPT ![t] = NoLock]
  /\ UNCHANGED locks

Create(t) ==
  /\ Quiet /\ st[t] = "free" /\ st' = [st EXCEPT ![t] = "suspended"]
  /\ lockList' = [lockList EXCEPT ![t] = NoLock] /\ spinLock' = [spinLock EXCEPT ![t] = NoLock]
  /\ UNCHANGED <<owner, queue, count, next, wants, releasing, has>>

\* The loop of release_locks goes on with the field next of the lock it has
\* released, which it may just have given a new value.
ReleaseOne ==
  LET l == releasing.lock
  IN /\ ~Quiet /\ l # NoLock
     /\ PassOn(l, lockList) /\ Relink(l, next)
     /\ releasing' = [releasing EXCEPT !.lock = next'[l]]
     /\ UNCHANGED <<wants, has>>

\* The end of release_locks; a spinning task leaves the queue.
ReleaseEnd ==
  LET t == releasing.task
  IN /\ ~Quiet /\ releasing.lock = NoLock
     /\ lockList' = [lockList EXCEPT ![t] = NoLock] /\ GivesUpSpinning(t)
     /\ releasing' = Idle
     /\ UNCHANGED <<owner, next, st, wants, has>>

Next ==
  /\ UNCHANGED program
  /\ \/ ReleaseOne \/ ReleaseEnd
     \/ \E l \in Locks : Unlock(l) \/ \E t \in Tasks : Lock(t, l)
     \/ \E t \in Tasks :
          \/ LockAgain(t) \/ Preempt(t) \/ Run(t) \/ Suspend(t) \/ SuspendByStranger(t)
          \/ Resume(t) \/ Kill(t) \/ Create(t)

Spec == Init /\ [][Next]_vars

-----------------------------------------------------------------------------
\* The list of every task holds exactly the locks that the task owns: none is
\* leaked, in two lists or in the list of another.
ListsAgree == Quiet => \A t \in Tasks, l \in Locks : l \in Held(t) <=> owner[l] = t

\* The queue of a lock is made of the tasks that spin on it, each once, and
\* ps_choice(count) chooses among all of them and no more.
QueuesAgree ==
  Quiet => \A l \in Locks :
    /\ queue[l] = {t \in Tasks : st[t] = "spinning" /\ spinLock[t] = l}
    /\ count[l] = Cardinality(queue[l])

\* No task spins on a lock that nobody has.
NobodySpinsInVain == Quiet => \A l \in Locks : queue[l] # {} => owner[l] # NoTask

\* A task that ps_lock has given a lock has it until it is unlocked or the task
\* is suspended; so at most one task has it.
LocksAreKept == Quiet => \A t \in Tasks : \A l \in has[t] : owner[l] = t

\* Tasks that are suspended (by an ancestor) or dead own no lock.
StoppedOwnNothing ==
  Quiet /\ ~program.strangers =>
    \A l \in Locks : owner[l] # NoTask => st[owner[l]] \notin {"suspended", "free"}

\* No lock is leaked: the lists of owned locks are exact, and what a task held
\* when it was suspended or killed has been passed on.
NoLockLeaked == ListsAgree /\ StoppedOwnNothing
=============================================================================
