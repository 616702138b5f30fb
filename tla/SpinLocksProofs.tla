-------------------------- MODULE SpinLocksProofs --------------------------
(***************************************************************************)
(* For every number of tasks and locks and whatever the tasks do: the      *)
(* tables of the spin locks stay well typed, the queues are exact and no   *)
(* task spins on a free lock.  Unless tasks with nested locks are stopped, *)
(* a lock once given is kept, the list of every task holds exactly its     *)
(* locks and a stopped task has none.                                      *)
(*                                                                         *)
(* The queues are exact only between system calls: in the middle of        *)
(* release_locks the task it serves is no longer TASK_SPINNING but still   *)
(* queued.  The invariant therefore ties the queues to spinLock at all     *)
(* times, and spinLock to the state of every task but that one.            *)
(*                                                                         *)
(* The lists are the locks that links lead to.  If nobody is stopped, they *)
(* are lists because the links of a task's locks go down a rank (Nested);  *)
(* if nothing nests, because there are no links (Single).                  *)
(***************************************************************************)
EXTENDS SpinLocks, FiniteSetTheorems, TLAPS

\* The queue of a lock and its count are those of the tasks whose spinLock it is.
Waits == \A l \in Locks : /\ queue[l] = {t \in Tasks : spinLock[t] = l}
                          /\ count[l] = Cardinality(queue[l])

\* Spinning tasks, and perhaps the one that release_locks serves, have a spinLock;
\* that one does not spin any more.
Spinning == \A t \in Tasks : /\ st[t] = "spinning" => spinLock[t] # NoLock
                             /\ spinLock[t] # NoLock => st[t] = "spinning" \/ releasing.task = t
                             /\ releasing.task = t => st[t] # "spinning"

\* A lock with waiting tasks is locked, even in the middle of release_locks.
WaitedForIsOwned == \A l \in Locks : queue[l] # {} => owner[l] # NoTask

IInv == TypeOK /\ Waits /\ Spinning /\ WaitedForIsOwned

-----------------------------------------------------------------------------
\* A task that leaves the queue it may be in disturbs no other.
LEMMA DqLockKeeps ==
  ASSUME TypeOK, Waits, NEW t \in Tasks, DqLock(t)
  PROVE  /\ queue' \in [Locks -> SUBSET Tasks] /\ count' \in [Locks -> Nat]
         /\ spinLock' \in [Tasks -> Locks \cup {NoLock}]
         /\ Waits'
         /\ spinLock'[t] = NoLock /\ \A u \in Tasks \ {t} : spinLock'[u] = spinLock[u]
         /\ \A l \in Locks : queue'[l] \subseteq queue[l]
<1>1. /\ queue \in [Locks -> SUBSET Tasks] /\ count \in [Locks -> Nat]
      /\ spinLock \in [Tasks -> Locks \cup {NoLock}]
  BY DEF TypeOK
<1>2. spinLock' = [spinLock EXCEPT ![t] = NoLock] BY DEF DqLock
<1>3. /\ spinLock' \in [Tasks -> Locks \cup {NoLock}]
      /\ spinLock'[t] = NoLock /\ \A u \in Tasks \ {t} : spinLock'[u] = spinLock[u]
  BY <1>1, <1>2
<1>4. \A l \in Locks : /\ queue'[l] = queue[l] \ (IF spinLock[t] = l THEN {t} ELSE {})
                       /\ count'[l] = IF spinLock[t] = l THEN count[l] - 1 ELSE count[l]
  BY DEF DqLock
<1>6. ASSUME NEW l \in Locks
      PROVE  /\ queue'[l] = {u \in Tasks : spinLock'[u] = l}
             /\ count'[l] = Cardinality(queue'[l])
  <2>1. queue[l] = {u \in Tasks : spinLock[u] = l} /\ count[l] = Cardinality(queue[l])
    BY DEF Waits
  <2>2. l # NoLock BY LockAssumption
  <2>3. IsFiniteSet(queue[l]) BY <1>1, LockAssumption, FS_Subset
  <2>4. CASE spinLock[t] = l
    <3>1. queue'[l] = queue[l] \ {t} /\ count'[l] = count[l] - 1 BY <1>4, <2>4
    <3>2. t \in queue[l] BY <2>1, <2>4
    <3>3. Cardinality(queue[l] \ {t}) = Cardinality(queue[l]) - 1
      BY <2>3, <3>2, FS_RemoveElement
    <3> QED BY <1>3, <2>1, <2>2, <3>1, <3>3
  <2>5. CASE spinLock[t] # l
    <3>1. queue'[l] = queue[l] /\ count'[l] = count[l] BY <1>4, <2>5
    <3> QED BY <1>3, <2>1, <2>2, <2>5, <3>1
  <2> QED BY <2>4, <2>5
<1>5. queue' \in [Locks -> SUBSET Tasks] /\ count' \in [Locks -> Nat]
  <2>1. queue' \in [Locks -> SUBSET Tasks] BY <1>1 DEF DqLock
  <2>2. ASSUME NEW l \in Locks PROVE count'[l] \in Nat
    <3>1. count'[l] = Cardinality(queue'[l]) BY <1>6
    <3>2. IsFiniteSet(queue'[l]) BY <2>1, LockAssumption, FS_Subset
    <3> QED BY <3>1, <3>2, FS_CardinalityType
  <2> QED BY <2>1, <2>2 DEF DqLock
<1>7. Waits' BY <1>6 DEF Waits
<1> QED BY <1>3, <1>4, <1>5, <1>7

\* A lock that is passed on is unlocked only when nobody waits for it, and the
\* task that gets it no longer waits.
LEMMA HandOverKeeps ==
  ASSUME TypeOK, Waits, WaitedForIsOwned,
         NEW l \in Locks, NEW heads \in [Tasks -> Locks \cup {NoLock}], HandOver(l, heads)
  PROVE  /\ owner' \in [Locks -> Tasks \cup {NoTask}] /\ lockList' \in [Tasks -> Locks \cup {NoLock}]
         /\ queue' \in [Locks -> SUBSET Tasks] /\ count' \in [Locks -> Nat]
         /\ spinLock' \in [Tasks -> Locks \cup {NoLock}]
         /\ st' \in [Tasks -> {"running", "blocked", "spinning", "ready", "suspended", "free"}]
         /\ Waits' /\ WaitedForIsOwned'
         /\ \A t \in Tasks : \/ spinLock'[t] = spinLock[t] /\ st'[t] = st[t]
                             \/ spinLock'[t] = NoLock /\ st'[t] = "blocked"
         /\ \A m \in Locks \ {l} : owner'[m] = owner[m]
<1>1. /\ owner \in [Locks -> Tasks \cup {NoTask}] /\ queue \in [Locks -> SUBSET Tasks]
      /\ count \in [Locks -> Nat] /\ spinLock \in [Tasks -> Locks \cup {NoLock}]
      /\ st \in [Tasks -> {"running", "blocked", "spinning", "ready", "suspended", "free"}]
  BY DEF TypeOK
<1>2. CASE /\ queue[l] = {} /\ owner' = [owner EXCEPT ![l] = NoTask] /\ lockList' = heads
           /\ UNCHANGED <<queue, count, spinLock, st>>
  <2>1. Waits' BY <1>2 DEF Waits
  <2>2. WaitedForIsOwned' BY <1>1, <1>2 DEF WaitedForIsOwned
  <2> QED BY <1>1, <1>2, <2>1, <2>2
<1>3. CASE \E t \in queue[l] : /\ DqLock(t)
                               /\ owner' = [owner EXCEPT ![l] = t] /\ lockList' = [heads EXCEPT ![t] = l]
                               /\ st' = [st EXCEPT ![t] = "blocked"]
  <2>1. PICK t \in queue[l] : /\ DqLock(t)
                              /\ owner' = [owner EXCEPT ![l] = t] /\ lockList' = [heads EXCEPT ![t] = l]
                              /\ st' = [st EXCEPT ![t] = "blocked"]
    BY <1>3
  <2>2. t \in Tasks /\ t # NoTask BY <1>1, LockAssumption
  <2>3. /\ queue' \in [Locks -> SUBSET Tasks] /\ count' \in [Locks -> Nat]
        /\ spinLock' \in [Tasks -> Locks \cup {NoLock}]
        /\ Waits'
        /\ spinLock'[t] = NoLock /\ \A u \in Tasks \ {t} : spinLock'[u] = spinLock[u]
        /\ \A m \in Locks : queue'[m] \subseteq queue[m]
    BY <2>1, <2>2, DqLockKeeps
  <2>4. owner' \in [Locks -> Tasks \cup {NoTask}] /\ lockList' \in [Tasks -> Locks \cup {NoLock}]
    BY <1>1, <2>1, <2>2
  <2>5. WaitedForIsOwned' BY <1>1, <2>1, <2>2, <2>3 DEF WaitedForIsOwned
  <2>6. /\ st' \in [Tasks -> {"running", "blocked", "spinning", "ready", "suspended", "free"}]
        /\ \A u \in Tasks : \/ spinLock'[u] = spinLock[u] /\ st'[u] = st[u]
                            \/ spinLock'[u] = NoLock /\ st'[u] = "blocked"
    BY <1>1, <2>1, <2>2, <2>3
  <2>7. \A m \in Locks \ {l} : owner'[m] = owner[m] BY <1>1, <2>1
  <2> QED BY <2>3, <2>4, <2>5, <2>6, <2>7
<1> QED BY <1>2, <1>3 DEF HandOver

\* The links stay links.
LEMMA RelinkKeeps ==
  ASSUME TypeOK, NEW l \in Locks, NEW links \in [Locks -> Locks \cup {NoLock}],
         owner' \in [Locks -> Tasks \cup {NoTask}], Relink(l, links)
  PROVE  next' \in [Locks -> Locks \cup {NoLock}]
<1>1. lockList \in [Tasks -> Locks \cup {NoLock}] BY DEF TypeOK
<1>2. CASE owner'[l] = NoTask BY <1>2 DEF Relink
<1>3. CASE owner'[l] # NoTask
  <2>1. owner'[l] \in Tasks BY <1>3
  <2>2. lockList[owner'[l]] \in Locks \cup {NoLock} BY <1>1, <2>1
  <2> QED BY <1>3, <2>2 DEF Relink
<1> QED BY <1>2, <1>3

-----------------------------------------------------------------------------
LEMMA InitInv == Init => IInv
<1> SUFFICES ASSUME Init PROVE IInv OBVIOUS
<1>1. TypeOK BY DEF Init, TypeOK, Idle
<1>2. Waits
  <2>1. \A l \in Locks : queue[l] = {} /\ count[l] = 0 BY DEF Init
  <2>2. \A t \in Tasks : spinLock[t] = NoLock BY DEF Init
  <2>3. \A l \in Locks : {t \in Tasks : spinLock[t] = l} = {} BY <2>2, LockAssumption
  <2>4. Cardinality({}) = 0 BY FS_EmptySet
  <2> QED BY <2>1, <2>3, <2>4 DEF Waits
<1>3. Spinning BY DEF Init, Spinning
<1>4. WaitedForIsOwned BY DEF Init, WaitedForIsOwned
<1> QED BY <1>1, <1>2, <1>3, <1>4 DEF IInv

\* When no release_locks is going on, exactly the spinning tasks have a spinLock.
LEMMA QuietSpinning ==
  ASSUME IInv, Quiet, NEW t \in Tasks
  PROVE  st[t] = "spinning" <=> spinLock[t] # NoLock
<1>1. releasing.task = NoTask BY DEF Quiet, Idle
<1>2. t # NoTask BY LockAssumption
<1> QED BY <1>1, <1>2 DEF IInv, Spinning

\* A task in ps_lock joins a queue, gets the lock or finds that it has it.
LEMMA TryLockKeeps ==
  ASSUME IInv, UNCHANGED program, Quiet, NEW t \in Tasks, NEW l \in Locks,
         st[t] = "running", TryLock(t, l)
  PROVE  IInv'
<1>1. TypeOK /\ Waits /\ Spinning /\ WaitedForIsOwned BY DEF IInv
<1>2. spinLock[t] = NoLock BY QuietSpinning
<1>3. l # NoLock /\ t # NoTask BY LockAssumption
<1>4. CASE Spin(t, l)
  <2> USE <1>4 DEF Spin
  <2>1. TypeOK' BY <1>1 DEF TypeOK
  <2>2. \A u \in Tasks : spinLock'[u] = IF u = t THEN l ELSE spinLock[u] BY <1>1 DEF TypeOK
  <2>3. \A m \in Locks : /\ queue'[m] = IF m = l THEN queue[m] \cup {t} ELSE queue[m]
                         /\ count'[m] = IF m = l THEN count[m] + 1 ELSE count[m]
    BY <1>1 DEF TypeOK
  <2>4. ASSUME NEW m \in Locks
        PROVE  queue'[m] = {u \in Tasks : spinLock'[u] = m} /\ count'[m] = Cardinality(queue'[m])
    <3>1. queue[m] = {u \in Tasks : spinLock[u] = m} /\ count[m] = Cardinality(queue[m])
      BY <1>1 DEF Waits
    <3>2. IsFiniteSet(queue[m]) BY <3>1, LockAssumption, FS_Subset
    <3>3. t \notin queue[m] BY <1>2, <3>1, LockAssumption
    <3>4. Cardinality(queue[m] \cup {t}) = Cardinality(queue[m]) + 1
      BY <3>2, <3>3, FS_AddElement
    <3>5. queue'[m] = {u \in Tasks : spinLock'[u] = m} BY <1>2, <2>2, <2>3, <3>1, LockAssumption
    <3> QED BY <2>3, <3>1, <3>4, <3>5
  <2>5. Waits' BY <2>4 DEF Waits
  <2>6. Spinning' BY <1>1, <1>3, <2>2 DEF Spinning, TypeOK, Quiet, Idle
  <2>7. WaitedForIsOwned' BY <1>1, <2>3 DEF WaitedForIsOwned
  <2> QED BY <2>1, <2>5, <2>6, <2>7 DEF IInv
<1>5. CASE Acquire(t, l)
  <2> USE <1>5 DEF Acquire, Return
  <2>1. /\ queue' \in [Locks -> SUBSET Tasks] /\ count' \in [Locks -> Nat]
        /\ spinLock' \in [Tasks -> Locks \cup {NoLock}]
        /\ Waits'
        /\ spinLock'[t] = NoLock /\ \A u \in Tasks \ {t} : spinLock'[u] = spinLock[u]
        /\ \A m \in Locks : queue'[m] \subseteq queue[m]
    BY <1>1, DqLockKeeps
  <2>2. TypeOK' BY <1>1, <2>1 DEF TypeOK
  <2>3. Spinning' BY <1>1, <1>2, <2>1 DEF Spinning
  <2>4. WaitedForIsOwned' BY <1>1, <1>3, <2>1 DEF WaitedForIsOwned, TypeOK
  <2> QED BY <2>1, <2>2, <2>3, <2>4 DEF IInv
<1>6. CASE Owns(t, l)
  <2> USE <1>6 DEF Owns, Return, locks
  <2>1. TypeOK' BY <1>1 DEF TypeOK
  <2>2. Waits' /\ Spinning' /\ WaitedForIsOwned' BY <1>1 DEF Waits, Spinning, WaitedForIsOwned
  <2> QED BY <2>1, <2>2 DEF IInv
<1> QED BY <1>4, <1>5, <1>6 DEF TryLock

\* A task that gives up spinning while its state changes.
LEMMA StopSpinningKeeps ==
  ASSUME IInv, UNCHANGED program, NEW t \in Tasks, DqLock(t),
         \A u \in Tasks \ {t} : st'[u] = st[u], st'[t] # "spinning",
         st' \in [Tasks -> {"running", "blocked", "spinning", "ready", "suspended", "free"}],
         UNCHANGED <<owner, next, lockList, wants, releasing, has>>
  PROVE  IInv'
<1>1. TypeOK /\ Waits /\ Spinning /\ WaitedForIsOwned BY DEF IInv
<1>2. /\ queue' \in [Locks -> SUBSET Tasks] /\ count' \in [Locks -> Nat]
      /\ spinLock' \in [Tasks -> Locks \cup {NoLock}]
      /\ Waits'
      /\ spinLock'[t] = NoLock /\ \A u \in Tasks \ {t} : spinLock'[u] = spinLock[u]
      /\ \A m \in Locks : queue'[m] \subseteq queue[m]
  BY <1>1, DqLockKeeps
<1>3. TypeOK' BY <1>1, <1>2 DEF TypeOK
<1>4. Spinning' BY <1>1, <1>2 DEF Spinning
<1>5. WaitedForIsOwned' BY <1>1, <1>2 DEF WaitedForIsOwned
<1> QED BY <1>2, <1>3, <1>4, <1>5 DEF IInv

\* Every step preserves the invariant.
LEMMA StepInv == IInv /\ [Next]_vars => IInv'
<1> SUFFICES ASSUME IInv, [Next]_vars PROVE IInv' OBVIOUS
<1>0. TypeOK /\ Waits /\ Spinning /\ WaitedForIsOwned BY DEF IInv
<1>1. CASE UNCHANGED vars
  <2>1. TypeOK' BY <1>0, <1>1 DEF vars, locks, TypeOK
  <2>2. Waits' /\ Spinning' /\ WaitedForIsOwned'
    BY <1>0, <1>1 DEF vars, locks, Waits, Spinning, WaitedForIsOwned
  <2> QED BY <2>1, <2>2 DEF IInv
<1>2. CASE UNCHANGED program /\ ReleaseOne
  <2> DEFINE l == releasing.lock
  <2>1. l \in Locks BY <1>0, <1>2 DEF ReleaseOne, TypeOK
  <2>2. /\ HandOver(l, lockList) /\ Relink(l, next) /\ UNCHANGED <<wants, has, program>>
        /\ releasing' = [releasing EXCEPT !.lock = next'[l]]
    BY <1>2 DEF ReleaseOne, PassOn
  <2>3. lockList \in [Tasks -> Locks \cup {NoLock}] /\ next \in [Locks -> Locks \cup {NoLock}]
        /\ releasing \in [task : Tasks \cup {NoTask}, lock : Locks \cup {NoLock}]
    BY <1>0 DEF TypeOK
  <2>4. /\ owner' \in [Locks -> Tasks \cup {NoTask}] /\ lockList' \in [Tasks -> Locks \cup {NoLock}]
        /\ queue' \in [Locks -> SUBSET Tasks] /\ count' \in [Locks -> Nat]
        /\ spinLock' \in [Tasks -> Locks \cup {NoLock}]
        /\ st' \in [Tasks -> {"running", "blocked", "spinning", "ready", "suspended", "free"}]
        /\ Waits' /\ WaitedForIsOwned'
        /\ \A t \in Tasks : \/ spinLock'[t] = spinLock[t] /\ st'[t] = st[t]
                            \/ spinLock'[t] = NoLock /\ st'[t] = "blocked"
    BY <1>0, <2>1, <2>2, <2>3, HandOverKeeps
  <2>5. next' \in [Locks -> Locks \cup {NoLock}] BY <1>0, <2>1, <2>2, <2>3, <2>4, RelinkKeeps
  <2>6. /\ releasing' \in [task : Tasks \cup {NoTask}, lock : Locks \cup {NoLock}]
        /\ releasing'.task = releasing.task
    BY <2>1, <2>2, <2>3, <2>5
  <2>7. TypeOK' BY <1>0, <2>2, <2>4, <2>5, <2>6 DEF TypeOK
  <2>8. Spinning' BY <1>0, <2>4, <2>6 DEF Spinning
  <2> QED BY <2>4, <2>7, <2>8 DEF IInv
<1>3. CASE UNCHANGED program /\ ReleaseEnd
  <2> DEFINE t == releasing.task
  <2>1. /\ ~Quiet /\ releasing.lock = NoLock
        /\ lockList' = [lockList EXCEPT ![t] = NoLock] /\ DqLock(t) /\ releasing' = Idle
        /\ UNCHANGED <<owner, next, st, wants, has, program>>
    BY <1>3 DEF ReleaseEnd, GivesUpSpinning
  <2>2. t \in Tasks BY <1>0, <2>1 DEF TypeOK, Quiet, Idle
  <2>3. /\ queue' \in [Locks -> SUBSET Tasks] /\ count' \in [Locks -> Nat]
        /\ spinLock' \in [Tasks -> Locks \cup {NoLock}]
        /\ Waits'
        /\ spinLock'[t] = NoLock /\ \A u \in Tasks \ {t} : spinLock'[u] = spinLock[u]
        /\ \A m \in Locks : queue'[m] \subseteq queue[m]
    BY <1>0, <2>1, <2>2, DqLockKeeps
  <2>4. TypeOK' BY <1>0, <2>1, <2>2, <2>3 DEF TypeOK, Idle
  <2>5. Spinning'
    <3>1. \A u \in Tasks : u # releasing'.task BY <2>1, LockAssumption DEF Idle
    <3> QED BY <1>0, <2>1, <2>2, <2>3, <3>1 DEF Spinning
  <2>6. WaitedForIsOwned' BY <1>0, <2>1, <2>3 DEF WaitedForIsOwned
  <2> QED BY <2>3, <2>4, <2>5, <2>6 DEF IInv
<1>4. ASSUME UNCHANGED program, NEW l \in Locks, Unlock(l) PROVE IInv'
  <2> DEFINE t == owner[l]
             heads == [lockList EXCEPT ![t] = IF @ = l THEN next[l] ELSE @]
             links == [m \in Locks |-> IF m \in Before(t, l) THEN next[l] ELSE next[m]]
  <2>1. /\ Quiet /\ t # NoTask /\ HandOver(l, heads) /\ Relink(l, links)
        /\ has' = [has EXCEPT ![t] = @ \ {l}]
        /\ UNCHANGED <<wants, releasing, program>>
    BY <1>4 DEF Unlock, PassOn
  <2>2. t \in Tasks BY <1>0, <2>1 DEF TypeOK
  <2>3. heads \in [Tasks -> Locks \cup {NoLock}] /\ links \in [Locks -> Locks \cup {NoLock}]
    BY <1>0 DEF TypeOK
  <2> HIDE DEF heads, links
  <2>4. /\ owner' \in [Locks -> Tasks \cup {NoTask}] /\ lockList' \in [Tasks -> Locks \cup {NoLock}]
        /\ queue' \in [Locks -> SUBSET Tasks] /\ count' \in [Locks -> Nat]
        /\ spinLock' \in [Tasks -> Locks \cup {NoLock}]
        /\ st' \in [Tasks -> {"running", "blocked", "spinning", "ready", "suspended", "free"}]
        /\ Waits' /\ WaitedForIsOwned'
        /\ \A u \in Tasks : \/ spinLock'[u] = spinLock[u] /\ st'[u] = st[u]
                            \/ spinLock'[u] = NoLock /\ st'[u] = "blocked"
    BY <1>0, <2>1, <2>3, HandOverKeeps
  <2>5. next' \in [Locks -> Locks \cup {NoLock}] BY <1>0, <2>1, <2>3, <2>4, RelinkKeeps
  <2>6. has' \in [Tasks -> SUBSET Locks] BY <1>0, <2>1, <2>2 DEF TypeOK
  <2>7. TypeOK' BY <1>0, <2>1, <2>4, <2>5, <2>6 DEF TypeOK
  <2>8. Spinning' BY <1>0, <2>1, <2>4 DEF Spinning
  <2> QED BY <2>4, <2>7, <2>8 DEF IInv
<1>5. ASSUME UNCHANGED program, NEW t \in Tasks, NEW l \in Locks, Lock(t, l) PROVE IInv'
  BY <1>5, TryLockKeeps DEF Lock, Calls
<1>6. ASSUME UNCHANGED program, NEW t \in Tasks, LockAgain(t) PROVE IInv'
  <2>1. wants[t] \in Locks BY <1>0, <1>6 DEF LockAgain, TypeOK
  <2> QED BY <1>6, <2>1, TryLockKeeps DEF LockAgain
<1>7. ASSUME UNCHANGED program, NEW t \in Tasks, Preempt(t) PROVE IInv'
  <2>1. /\ DqLock(t) /\ st' = [st EXCEPT ![t] = "ready"]
        /\ UNCHANGED <<owner, next, lockList, wants, releasing, has>>
    BY <1>7 DEF Preempt, GivesUpSpinning
  <2>2. /\ st' \in [Tasks -> {"running", "blocked", "spinning", "ready", "suspended", "free"}]
        /\ st'[t] # "spinning" /\ \A u \in Tasks \ {t} : st'[u] = st[u]
    BY <1>0, <2>1 DEF TypeOK
  <2> QED BY <1>7, <2>1, <2>2, StopSpinningKeeps
<1>8. ASSUME UNCHANGED program, NEW t \in Tasks, SuspendByStranger(t) PROVE IInv'
  <2>1. /\ DqLock(t) /\ st' = [st EXCEPT ![t] = "suspended"]
        /\ UNCHANGED <<owner, next, lockList, wants, releasing, has>>
    BY <1>8 DEF SuspendByStranger, GivesUpSpinning
  <2>2. /\ st' \in [Tasks -> {"running", "blocked", "spinning", "ready", "suspended", "free"}]
        /\ st'[t] # "spinning" /\ \A u \in Tasks \ {t} : st'[u] = st[u]
    BY <1>0, <2>1 DEF TypeOK
  <2> QED BY <1>8, <2>1, <2>2, StopSpinningKeeps
<1>9. ASSUME UNCHANGED program, NEW t \in Tasks, Run(t) \/ Resume(t) PROVE IInv'
  <2>1. /\ Quiet /\ st[t] # "spinning" /\ UNCHANGED <<locks, wants, releasing, has>>
        /\ \E s \in {"running", "ready"} : st' = [st EXCEPT ![t] = s]
    BY <1>9 DEF Run, Resume
  <2>2. spinLock[t] = NoLock BY <2>1, QuietSpinning
  <2>3. TypeOK' BY <1>0, <1>9, <2>1 DEF TypeOK, locks
  <2>4. Waits' /\ WaitedForIsOwned' BY <1>0, <2>1 DEF Waits, WaitedForIsOwned, locks
  <2>5. Spinning' BY <1>0, <2>1, <2>2 DEF Spinning, TypeOK, locks
  <2> QED BY <2>3, <2>4, <2>5 DEF IInv
<1>10. ASSUME UNCHANGED program, NEW t \in Tasks, Suspend(t) \/ Kill(t) PROVE IInv'
  <2>1. /\ Quiet /\ has' = [has EXCEPT ![t] = {}] /\ UNCHANGED locks
        /\ releasing' = [task |-> t, lock |-> lockList[t]]
        /\ \E s \in {"suspended", "free"} : st' = [st EXCEPT ![t] = s]
        /\ wants' = wants \/ wants' = [wants EXCEPT ![t] = NoLock]
    BY <1>10 DEF Suspend, Kill, Release
  <2>2. \A u \in Tasks : u # releasing.task BY <2>1, LockAssumption DEF Quiet, Idle
  <2>3. TypeOK'
    <3>1. /\ has' \in [Tasks -> SUBSET Locks] /\ wants' \in [Tasks -> Locks \cup {NoLock}]
          /\ st' \in [Tasks -> {"running", "blocked", "spinning", "ready", "suspended", "free"}]
      BY <1>0, <2>1 DEF TypeOK
    <3>2. releasing' \in [task : Tasks \cup {NoTask}, lock : Locks \cup {NoLock}]
      BY <1>0, <2>1 DEF TypeOK
    <3> QED BY <1>0, <1>10, <2>1, <3>1, <3>2 DEF TypeOK, locks
  <2>4. Waits' /\ WaitedForIsOwned' BY <1>0, <2>1 DEF Waits, WaitedForIsOwned, locks
  <2>5. Spinning'
    <3>1. st'[t] # "spinning" /\ \A u \in Tasks \ {t} : st'[u] = st[u] BY <1>0, <2>1 DEF TypeOK
    <3>2. releasing'.task = t /\ spinLock' = spinLock BY <2>1 DEF locks
    <3> QED BY <1>0, <2>2, <3>1, <3>2 DEF Spinning
  <2> QED BY <2>3, <2>4, <2>5 DEF IInv
<1>11. ASSUME UNCHANGED program, NEW t \in Tasks, Create(t) PROVE IInv'
  <2>1. /\ Quiet /\ st[t] = "free" /\ st' = [st EXCEPT ![t] = "suspended"]
        /\ lockList' = [lockList EXCEPT ![t] = NoLock] /\ spinLock' = [spinLock EXCEPT ![t] = NoLock]
        /\ UNCHANGED <<owner, queue, count, next, wants, releasing, has>>
    BY <1>11 DEF Create
  <2>2. spinLock[t] = NoLock BY <2>1, QuietSpinning
  <2>3. spinLock' = spinLock BY <1>0, <2>1, <2>2 DEF TypeOK
  <2>4. TypeOK' BY <1>0, <1>11, <2>1, <2>3 DEF TypeOK
  <2>5. Waits' /\ WaitedForIsOwned' BY <1>0, <2>1, <2>3 DEF Waits, WaitedForIsOwned
  <2>6. Spinning' BY <1>0, <2>1, <2>2, <2>3 DEF Spinning, TypeOK
  <2> QED BY <2>4, <2>5, <2>6 DEF IInv
<1> QED BY <1>1, <1>2, <1>3, <1>4, <1>5, <1>6, <1>7, <1>8, <1>9, <1>10, <1>11 DEF Next

LEMMA Invariance == Spec => []IInv
<1> QED BY InitInv, StepInv, PTL DEF Spec

\* The tables of tasks and locks hold indices of tasks and locks, whatever the
\* tasks do: ps_lock, ps_unlock and release_locks never follow a wild index.
THEOREM TypeCorrect == Spec => []TypeOK
<1>1. IInv => TypeOK BY DEF IInv
<1> QED BY <1>1, Invariance, PTL

\* The queue of a lock holds exactly the tasks that spin on it and its count is
\* their number, even when tasks are suspended and killed with nested locks.
THEOREM QueuesExact == Spec => []QueuesAgree
<1>1. IInv => QueuesAgree
  <2> SUFFICES ASSUME IInv, Quiet, NEW l \in Locks
               PROVE  /\ queue[l] = {t \in Tasks : st[t] = "spinning" /\ spinLock[t] = l}
                      /\ count[l] = Cardinality(queue[l])
    BY DEF QueuesAgree
  <2>1. l # NoLock BY LockAssumption
  <2>2. \A t \in Tasks : st[t] = "spinning" <=> spinLock[t] # NoLock BY QuietSpinning
  <2> QED BY <2>1, <2>2 DEF IInv, Waits
<1> QED BY <1>1, Invariance, PTL

\* A task spins only while some task has the lock: the last hand-over of a lock
\* never leaves a spinning task behind.
THEOREM NobodyLeftSpinning == Spec => []NobodySpinsInVain
<1>1. IInv => NobodySpinsInVain BY DEF IInv, WaitedForIsOwned, NobodySpinsInVain
<1> QED BY <1>1, Invariance, PTL

-----------------------------------------------------------------------------
\* Without suspensions by ancestors and kills release_locks never runs, and what
\* a task was given it owns.
Kept == ~program.stopped => Quiet /\ \A t \in Tasks : \A l \in has[t] : owner[l] = t

LEMMA KeptStep == IInv /\ Kept /\ [Next]_vars => Kept'
<1> SUFFICES ASSUME IInv, Kept, [Next]_vars, ~program'.stopped PROVE Kept' BY DEF Kept
<1>0. /\ owner \in [Locks -> Tasks \cup {NoTask}] /\ has \in [Tasks -> SUBSET Locks]
      /\ TypeOK /\ Waits /\ WaitedForIsOwned
  BY DEF IInv, TypeOK
<1>1. program' = program BY DEF Next, vars
<1>2. Quiet /\ \A t \in Tasks : \A l \in has[t] : owner[l] = t BY <1>1 DEF Kept
<1>3. ASSUME UNCHANGED <<owner, releasing, has>> PROVE Kept'
  BY <1>2, <1>3 DEF Kept, Quiet
<1>4. ASSUME NEW t \in Tasks, NEW l \in Locks, TryLock(t, l) PROVE Kept'
  <2>1. CASE Spin(t, l) BY <1>3, <2>1 DEF Spin
  <2>2. CASE Acquire(t, l)
    <3>1. /\ owner[l] = NoTask /\ owner' = [owner EXCEPT ![l] = t]
          /\ has' = [has EXCEPT ![t] = @ \cup {l}] /\ releasing' = releasing
      BY <2>2 DEF Acquire, MayTake, Return
    <3>2. \A u \in Tasks : l \notin has[u] BY <1>2, <3>1, LockAssumption
    <3> QED BY <1>0, <1>2, <3>1, <3>2 DEF Kept, Quiet
  <2>3. CASE Owns(t, l)
    <3>1. /\ owner[l] = t /\ owner' = owner
          /\ has' = [has EXCEPT ![t] = @ \cup {l}] /\ releasing' = releasing
      BY <2>3 DEF Owns, AlreadyMine, Return, locks
    <3> QED BY <1>0, <1>2, <3>1 DEF Kept, Quiet
  <2> QED BY <1>4, <2>1, <2>2, <2>3 DEF TryLock
<1>5. ASSUME NEW l \in Locks, Unlock(l) PROVE Kept'
  <2> DEFINE t == owner[l]
             heads == [lockList EXCEPT ![t] = IF @ = l THEN next[l] ELSE @]
  <2>1. /\ t # NoTask /\ HandOver(l, heads)
        /\ has' = [has EXCEPT ![t] = @ \ {l}] /\ releasing' = releasing
    BY <1>5 DEF Unlock, PassOn
  <2>2. heads \in [Tasks -> Locks \cup {NoLock}] BY <1>0 DEF TypeOK
  <2>3. \A m \in Locks \ {l} : owner'[m] = owner[m] BY <1>0, <2>1, <2>2, HandOverKeeps
  <2>4. t \in Tasks BY <1>0, <2>1
  <2>5. \A u \in Tasks : l \notin has'[u] BY <1>0, <1>2, <2>1, <2>4
  <2>6. \A u \in Tasks : has'[u] \subseteq has[u] BY <1>0, <2>1, <2>4
  <2> QED BY <1>0, <1>2, <2>1, <2>3, <2>5, <2>6 DEF Kept, Quiet
<1>6. CASE UNCHANGED vars BY <1>3, <1>6 DEF vars, locks
<1>7. CASE ReleaseOne \/ ReleaseEnd BY <1>2, <1>7 DEF ReleaseOne, ReleaseEnd
<1>8. ASSUME NEW t \in Tasks,
             Preempt(t) \/ Run(t) \/ SuspendByStranger(t) \/ Resume(t) \/ Create(t)
      PROVE  Kept'
  BY <1>3, <1>8 DEF Preempt, Run, SuspendByStranger, Resume, Create, locks
<1>9. ASSUME NEW t \in Tasks, Suspend(t) \/ Kill(t) PROVE Kept'
  BY <1>1, <1>9 DEF Suspend, Kill
<1>10. ASSUME NEW t \in Tasks, LockAgain(t) PROVE Kept'
  <2>1. wants[t] \in Locks BY <1>0, <1>10 DEF LockAgain, TypeOK
  <2> QED BY <1>4, <1>10, <2>1 DEF LockAgain
<1> QED BY <1>4, <1>5, <1>6, <1>7, <1>8, <1>9, <1>10 DEF Next, Lock

-----------------------------------------------------------------------------
\* Lists of locks.

OwnedBy(t) == {l \in Locks : owner[l] = t}

\* The links nx from lock h on lead through all of O and to nothing else, and end:
\* the rank of a lock is larger than that of the next.
IsList(O, nx, h, rank) ==
  /\ h \in O \cup {NoLock}
  /\ \A m \in O : nx[m] \in O \cup {NoLock} /\ (nx[m] # NoLock => rank[nx[m]] < rank[m])
  /\ \A S \in SUBSET O : h \in S \cup {NoLock} /\ (\A m \in S : nx[m] \in S \cup {NoLock}) => S = O

LEMMA ListSame ==
  ASSUME NEW O, NEW nx, NEW h, NEW rank, IsList(O, nx, h, rank),
         NEW ny, NEW rk, \A m \in O : ny[m] = nx[m] /\ rk[m] = rank[m], NoLock \notin O
  PROVE  IsList(O, ny, h, rk)
<1>1. \A m \in O : ny[m] \in O \cup {NoLock} /\ (ny[m] # NoLock => rk[ny[m]] < rk[m])
  BY DEF IsList
<1>2. ASSUME NEW S \in SUBSET O, h \in S \cup {NoLock}, \A m \in S : ny[m] \in S \cup {NoLock}
      PROVE  S = O
  <2>1. \A m \in S : nx[m] \in S \cup {NoLock}
    BY <1>2
  <2> QED BY <1>2, <2>1 DEF IsList
<1> QED BY <1>1, <1>2 DEF IsList

\* A lock put in front of a list.
LEMMA ListGrows ==
  ASSUME NEW O \in SUBSET Locks, NEW nx, NEW h, NEW rank, IsList(O, nx, h, rank),
         NEW l \in Locks \ O, NEW ny, ny[l] = h, \A m \in O : ny[m] = nx[m],
         NEW rk, \A m \in O : rk[m] = rank[m], h # NoLock => rk[h] < rk[l]
  PROVE  IsList(O \cup {l}, ny, l, rk)
<1>0. NoLock \notin Locks
  BY LockAssumption
<1>1. ASSUME NEW m \in O \cup {l}
      PROVE  ny[m] \in O \cup {l} \cup {NoLock} /\ (ny[m] # NoLock => rk[ny[m]] < rk[m])
  <2>1. CASE m = l
    BY <2>1 DEF IsList
  <2>2. CASE m \in O
    BY <2>2 DEF IsList
  <2> QED BY <2>1, <2>2
<1>2. ASSUME NEW S \in SUBSET (O \cup {l}), l \in S \cup {NoLock}, \A m \in S : ny[m] \in S \cup {NoLock}
      PROVE  S = O \cup {l}
  <2>1. l \in S /\ h \in S \cup {NoLock} /\ h \in O \cup {NoLock}
    BY <1>0, <1>2 DEF IsList
  <2>2. \A m \in S \cap O : nx[m] \in (S \cap O) \cup {NoLock}
    BY <1>2 DEF IsList
  <2>3. S \cap O = O
    BY <2>1, <2>2 DEF IsList
  <2> QED BY <2>1, <2>3
<1> QED BY <1>1, <1>2 DEF IsList

\* A lock taken out of a list.
LEMMA ListShrinks ==
  ASSUME NEW O \in SUBSET Locks, NEW nx, NEW h, NEW rank \in [Locks -> Nat], IsList(O, nx, h, rank),
         NEW l \in O, NEW ny, \A m \in O \ {l} : ny[m] = IF nx[m] = l THEN nx[l] ELSE nx[m],
         NEW g, g = IF h = l THEN nx[l] ELSE h
  PROVE  IsList(O \ {l}, ny, g, rank)
<1>0. NoLock \notin Locks /\ \A m \in O : rank[m] \in Nat
  BY LockAssumption
<1>1. nx[l] \in (O \ {l}) \cup {NoLock} /\ (nx[l] # NoLock => rank[nx[l]] < rank[l])
  BY <1>0 DEF IsList
<1>2. g \in (O \ {l}) \cup {NoLock}
  BY <1>1 DEF IsList
<1>3. ASSUME NEW m \in O \ {l}
      PROVE  ny[m] \in (O \ {l}) \cup {NoLock} /\ (ny[m] # NoLock => rank[ny[m]] < rank[m])
  <2>1. nx[m] \in O \cup {NoLock} /\ (nx[m] # NoLock => rank[nx[m]] < rank[m])
    BY DEF IsList
  <2>2. CASE nx[m] = l
    <3>1. ny[m] = nx[l] /\ rank[l] < rank[m] /\ rank[l] \in Nat /\ rank[m] \in Nat
      BY <1>0, <2>1, <2>2
    <3>2. nx[l] # NoLock => rank[nx[l]] \in Nat
      BY <1>0, <1>1
    <3> QED BY <1>1, <3>1, <3>2
  <2>3. CASE nx[m] # l
    BY <2>1, <2>3
  <2> QED BY <2>2, <2>3
<1>4. ASSUME NEW S \in SUBSET (O \ {l}), g \in S \cup {NoLock}, \A m \in S : ny[m] \in S \cup {NoLock}
      PROVE  S = O \ {l}
  <2>1. CASE h = l \/ \E m \in S : nx[m] = l
    <3>1. nx[l] \in S \cup {NoLock}
      BY <1>4, <2>1
    <3>a. PICK T \in SUBSET O : T = S \cup {l}
      OBVIOUS
    <3>2. \A m \in S : nx[m] \in T \cup {NoLock}
      BY <1>4, <3>a
    <3>3. h \in T \cup {NoLock} /\ \A m \in T : nx[m] \in T \cup {NoLock}
      BY <1>4, <3>1, <3>2, <3>a
    <3>4. T = O
      BY <3>3 DEF IsList
    <3> QED BY <3>4, <3>a
  <2>2. CASE ~(h = l \/ \E m \in S : nx[m] = l)
    <3>1. h \in S \cup {NoLock} /\ \A m \in S : nx[m] \in S \cup {NoLock}
      BY <1>4, <2>2
    <3>2. S = O
      BY <3>1 DEF IsList
    <3> QED BY <3>2
  <2> QED BY <2>1, <2>2
<1> QED BY <1>2, <1>3, <1>4 DEF IsList

\* What the list of a task holds.
LEMMA ListHeld ==
  ASSUME NEW t, NEW rank, IsList(OwnedBy(t), next, lockList[t], rank)
  PROVE  Held(t) = OwnedBy(t)
<1>0. OwnedBy(t) \in SUBSET Locks
  BY DEF OwnedBy
<1>1. Closed(t, OwnedBy(t))
  BY DEF IsList, Closed
<1>2. Held(t) \subseteq OwnedBy(t)
  BY <1>0, <1>1 DEF Held
<1>3. ASSUME NEW S \in SUBSET Locks, Closed(t, S)
      PROVE  OwnedBy(t) \subseteq S
  <2>1. lockList[t] \in (S \cap OwnedBy(t)) \cup {NoLock}
    BY <1>3 DEF Closed, IsList
  <2>2. \A m \in S \cap OwnedBy(t) : next[m] \in (S \cap OwnedBy(t)) \cup {NoLock}
    BY <1>3 DEF Closed, IsList
  <2>3. S \cap OwnedBy(t) = OwnedBy(t)
    BY <2>1, <2>2 DEF IsList
  <2> QED BY <2>3
<1>4. OwnedBy(t) \subseteq Held(t)
  BY <1>0, <1>3 DEF Held
<1> QED BY <1>2, <1>4

-----------------------------------------------------------------------------
\* Locks nest, and nobody is stopped by an ancestor: the locks of each task are a list.

Listed == \E rank \in [Locks -> Nat] : \A t \in Tasks : IsList(OwnedBy(t), next, lockList[t], rank)
ForOthers == \A t \in Tasks : spinLock[t] # NoLock => owner[spinLock[t]] # t
Alive == \A t \in Tasks : st[t] # "free" /\ (st[t] = "suspended" => program.strangers)
Nested == ~program.stopped => Listed /\ ForOthers /\ Alive

LEMMA NestedInit == Init => Nested
<1> SUFFICES ASSUME Init PROVE Listed /\ ForOthers /\ Alive
  BY DEF Nested
<1>1. ASSUME NEW t \in Tasks
      PROVE  IsList(OwnedBy(t), next, lockList[t], [l \in Locks |-> 0])
  <2>1. OwnedBy(t) = {} /\ lockList[t] = NoLock
    BY <1>1, LockAssumption DEF Init, OwnedBy
  <2> QED BY <2>1 DEF IsList
<1>2. Listed
  <2>1. [l \in Locks |-> 0] \in [Locks -> Nat]
    OBVIOUS
  <2> QED BY <1>1, <2>1 DEF Listed
<1> QED BY <1>2 DEF Init, ForOthers, Alive

\* A task takes a free lock, or one handed over to it: it is the first of its list.
\* Before, the tasks have lists of the locks O, with first locks hs and links nx.
Takes(t, l, O, nx, hs, rank) ==
  /\ \A u \in Tasks : O[u] \in SUBSET Locks /\ l \notin O[u] /\ IsList(O[u], nx, hs[u], rank)
  /\ \A u \in Tasks, m \in Locks : owner'[m] = u <=> m \in O[u] \/ (u = t /\ m = l)
  /\ \A u \in Tasks : lockList'[u] = IF u = t THEN l ELSE hs[u]
  /\ \A m \in Locks : next'[m] = IF m = l THEN hs[t] ELSE nx[m]

LEMMA ListedTakes ==
  ASSUME NEW rank \in [Locks -> Nat], NEW l \in Locks, NEW t \in Tasks,
         NEW O, NEW nx, NEW hs, Takes(t, l, O, nx, hs, rank)
  PROVE  Listed'
<1> DEFINE rk == [rank EXCEPT ![l] = IF hs[t] = NoLock THEN 0 ELSE rank[hs[t]] + 1]
<1> USE DEF Takes
<1>0. NoLock \notin Locks
  BY LockAssumption
<1>1. hs[t] # NoLock => hs[t] \in Locks /\ hs[t] # l /\ rank[hs[t]] \in Nat
  BY DEF IsList
<1>2. rk \in [Locks -> Nat] /\ \A m \in Locks : m # l => rk[m] = rank[m]
  BY <1>1
<1>3. hs[t] # NoLock => rk[hs[t]] < rk[l]
  BY <1>1, <1>2
<1> HIDE DEF rk
<1>4. ASSUME NEW u \in Tasks
      PROVE  IsList(OwnedBy(u)', next', lockList'[u], rk)
  <2>1. O[u] \in SUBSET Locks /\ l \notin O[u] /\ IsList(O[u], nx, hs[u], rank)
        /\ \A m \in O[u] : next'[m] = nx[m] /\ rk[m] = rank[m]
    BY <1>2
  <2>o. OwnedBy(u)' = IF u = t THEN O[u] \cup {l} ELSE O[u]
    BY <2>1 DEF OwnedBy
  <2>2. CASE u = t
    <3>1. IsList(O[u] \cup {l}, next', l, rk)
      BY <1>3, <2>1, <2>2, ListGrows
    <3> QED BY <2>2, <2>o, <3>1
  <2>3. CASE u # t
    <3>1. IsList(O[u], next', hs[u], rk)
      BY <1>0, <2>1, ListSame
    <3> QED BY <2>3, <2>o, <3>1
  <2> QED BY <2>2, <2>3
<1> QED BY <1>2, <1>4 DEF Listed

\* What handing over a lock does.
LEMMA HandedOver ==
  ASSUME TypeOK, Waits, NEW l \in Locks, NEW heads \in [Tasks -> Locks \cup {NoLock}], HandOver(l, heads)
  PROVE  \/ /\ owner' = [owner EXCEPT ![l] = NoTask] /\ lockList' = heads
            /\ UNCHANGED <<spinLock, st>>
         \/ \E u \in Tasks : /\ spinLock[u] = l /\ spinLock' = [spinLock EXCEPT ![u] = NoLock]
                             /\ owner' = [owner EXCEPT ![l] = u] /\ lockList' = [heads EXCEPT ![u] = l]
                             /\ st' = [st EXCEPT ![u] = "blocked"]
<1>1. CASE /\ queue[l] = {}
           /\ owner' = [owner EXCEPT ![l] = NoTask] /\ lockList' = heads
           /\ UNCHANGED <<queue, count, spinLock, st>>
  BY <1>1
<1>2. CASE \E u \in queue[l] : /\ DqLock(u)
                               /\ owner' = [owner EXCEPT ![l] = u] /\ lockList' = [heads EXCEPT ![u] = l]
                               /\ st' = [st EXCEPT ![u] = "blocked"]
  <2>1. PICK u \in queue[l] : /\ DqLock(u)
                              /\ owner' = [owner EXCEPT ![l] = u] /\ lockList' = [heads EXCEPT ![u] = l]
                              /\ st' = [st EXCEPT ![u] = "blocked"]
    BY <1>2
  <2>2. u \in Tasks /\ spinLock[u] = l
    BY DEF Waits
  <2>3. spinLock' = [spinLock EXCEPT ![u] = NoLock]
    BY <2>1 DEF DqLock
  <2> QED BY <2>1, <2>2, <2>3
<1> QED BY <1>1, <1>2 DEF HandOver

\* Unlocking takes a lock out of the list of its owner, wherever it is in the list, and
\* puts it in front of that of the task it goes to.
LEMMA ListedUnlocks ==
  ASSUME IInv, Listed, ForOthers, NEW l \in Locks, Unlock(l)
  PROVE  Listed' /\ ForOthers'
<1> DEFINE t == owner[l]
           heads == [lockList EXCEPT ![t] = IF @ = l THEN next[l] ELSE @]
           links == [m \in Locks |-> IF m \in Before(t, l) THEN next[l] ELSE next[m]]
<1>0. /\ TypeOK /\ Waits /\ NoLock \notin Locks /\ NoTask \notin Tasks
      /\ owner \in [Locks -> Tasks \cup {NoTask}] /\ lockList \in [Tasks -> Locks \cup {NoLock}]
      /\ next \in [Locks -> Locks \cup {NoLock}] /\ spinLock \in [Tasks -> Locks \cup {NoLock}]
  BY LockAssumption DEF IInv, TypeOK
<1>1. t \in Tasks /\ HandOver(l, heads) /\ Relink(l, links)
  BY <1>0 DEF Unlock, PassOn
<1>2. PICK rank \in [Locks -> Nat] : \A u \in Tasks : IsList(OwnedBy(u), next, lockList[u], rank)
  BY DEF Listed
<1>3. \A m \in Locks : links[m] = IF m \in OwnedBy(t) /\ next[m] = l THEN next[l] ELSE next[m]
  <2>1. Held(t) = OwnedBy(t)
    BY <1>1, <1>2, ListHeld
  <2> QED BY <2>1 DEF Before
<1>4. /\ heads \in [Tasks -> Locks \cup {NoLock}]
      /\ \A u \in Tasks : heads[u] = IF u = t /\ lockList[u] = l THEN next[l] ELSE lockList[u]
  BY <1>0
<1> DEFINE O == [u \in Tasks |-> OwnedBy(u) \ {l}]
<1>5. ASSUME NEW u \in Tasks
      PROVE  O[u] \in SUBSET Locks /\ l \notin O[u] /\ IsList(O[u], links, heads[u], rank)
  <2>0. O[u] = OwnedBy(u) \ {l} /\ OwnedBy(u) \in SUBSET Locks
    BY DEF OwnedBy
  <2>1. CASE u = t
    <3>1. l \in OwnedBy(u)
      BY <2>1 DEF OwnedBy
    <3>2. \A m \in OwnedBy(u) \ {l} : links[m] = IF next[m] = l THEN next[l] ELSE next[m]
      BY <1>3, <2>0, <2>1
    <3>3. heads[u] = IF lockList[u] = l THEN next[l] ELSE lockList[u]
      BY <1>4, <2>1
    <3> HIDE DEF O, heads, links, t
    <3>4. IsList(OwnedBy(u) \ {l}, links, heads[u], rank)
      BY <1>2, <2>0, <3>1, <3>2, <3>3, ListShrinks
    <3> QED BY <2>0, <3>4
  <2>2. CASE u # t
    <3>1. l \notin OwnedBy(u) /\ \A m \in OwnedBy(u) : m \notin OwnedBy(t)
      BY <2>2 DEF OwnedBy
    <3>2. O[u] = OwnedBy(u) /\ heads[u] = lockList[u] /\ NoLock \notin OwnedBy(u)
      BY <1>0, <1>4, <2>0, <2>2, <3>1
    <3>3. \A m \in OwnedBy(u) : links[m] = next[m]
      BY <1>3, <2>0, <3>1
    <3> HIDE DEF O, heads, links, t
    <3>4. IsList(OwnedBy(u), links, lockList[u], rank)
      BY <1>2, <3>2, <3>3, ListSame
    <3> QED BY <2>0, <3>1, <3>2, <3>4
  <2> QED BY <2>1, <2>2
<1>6. CASE owner' = [owner EXCEPT ![l] = NoTask] /\ lockList' = heads /\ UNCHANGED <<spinLock, st>>
  <2>1. owner'[l] = NoTask /\ next' = links
    BY <1>0, <1>1, <1>6 DEF Relink
  <2>2. \A u \in Tasks : OwnedBy(u)' = O[u] /\ lockList'[u] = heads[u]
    BY <1>0, <1>6 DEF OwnedBy
  <2> HIDE DEF O, heads, links, t
  <2>3. \A u \in Tasks : IsList(OwnedBy(u)', next', lockList'[u], rank)
    BY <1>5, <2>1, <2>2
  <2>4. Listed'
    BY <2>3 DEF Listed
  <2>5. ForOthers'
    BY <1>0, <1>6 DEF ForOthers
  <2> QED BY <2>4, <2>5
<1>7. ASSUME NEW v \in Tasks, spinLock[v] = l, spinLock' = [spinLock EXCEPT ![v] = NoLock],
             owner' = [owner EXCEPT ![l] = v], lockList' = [heads EXCEPT ![v] = l]
      PROVE  Listed' /\ ForOthers'
  <2>1. v # t
    BY <1>0, <1>7 DEF ForOthers
  <2>2. \A u \in Tasks, m \in Locks : owner'[m] = u <=> m \in O[u] \/ (u = v /\ m = l)
    BY <1>0, <1>7 DEF OwnedBy
  <2>3. \A u \in Tasks : lockList'[u] = IF u = v THEN l ELSE heads[u]
    BY <1>4, <1>7
  <2>4. owner'[l] = v /\ v # NoTask /\ lockList[v] = heads[v]
    BY <1>0, <1>4, <1>7, <2>1
  <2>5. \A m \in Locks : next'[m] = IF m = l THEN heads[v] ELSE links[m]
    BY <1>0, <1>1, <2>4 DEF Relink
  <2> HIDE DEF O, heads, links, t
  <2>a. Takes(v, l, O, links, heads, rank)
    BY <1>5, <2>2, <2>3, <2>5 DEF Takes
  <2>6. Listed'
    BY <1>2, <1>7, <2>a, ListedTakes
  <2>7. ForOthers'
    BY <1>0, <1>7 DEF ForOthers
  <2> QED BY <2>6, <2>7
<1> HIDE DEF heads, links, t, O
<1>8. \/ owner' = [owner EXCEPT ![l] = NoTask] /\ lockList' = heads /\ UNCHANGED <<spinLock, st>>
      \/ \E u \in Tasks : /\ spinLock[u] = l /\ spinLock' = [spinLock EXCEPT ![u] = NoLock]
                          /\ owner' = [owner EXCEPT ![l] = u] /\ lockList' = [heads EXCEPT ![u] = l]
                          /\ st' = [st EXCEPT ![u] = "blocked"]
  BY <1>0, <1>1, <1>4, HandedOver
<1> QED BY <1>6, <1>7, <1>8

LEMMA ListedLocks ==
  ASSUME IInv, Listed, ForOthers, NEW t \in Tasks, NEW l \in Locks, TryLock(t, l)
  PROVE  Listed' /\ ForOthers'
<1>0. /\ TypeOK /\ NoLock \notin Locks /\ NoTask \notin Tasks
      /\ owner \in [Locks -> Tasks \cup {NoTask}] /\ lockList \in [Tasks -> Locks \cup {NoLock}]
      /\ next \in [Locks -> Locks \cup {NoLock}] /\ spinLock \in [Tasks -> Locks \cup {NoLock}]
  BY LockAssumption DEF IInv, TypeOK
<1>1. CASE Spin(t, l)
  <2>1. owner[l] # t /\ spinLock' = [spinLock EXCEPT ![t] = l] /\ UNCHANGED <<owner, next, lockList>>
    BY <1>1 DEF Spin
  <2>2. Listed'
    BY <2>1 DEF Listed, OwnedBy
  <2> QED BY <1>0, <2>1, <2>2 DEF ForOthers
<1>2. CASE Owns(t, l)
  BY <1>2 DEF Owns, locks, Listed, OwnedBy, ForOthers
<1>3. CASE Acquire(t, l)
  <2>1. /\ owner[l] = NoTask /\ owner' = [owner EXCEPT ![l] = t]
        /\ next' = [next EXCEPT ![l] = lockList[t]] /\ lockList' = [lockList EXCEPT ![t] = l]
        /\ spinLock' = [spinLock EXCEPT ![t] = NoLock]
    BY <1>3 DEF Acquire, MayTake, DqLock
  <2>2. PICK rank \in [Locks -> Nat] : \A u \in Tasks : IsList(OwnedBy(u), next, lockList[u], rank)
    BY DEF Listed
  <2>3. PICK O : O = [u \in Tasks |-> OwnedBy(u)]
    OBVIOUS
  <2>4. \A u \in Tasks : O[u] \in SUBSET Locks /\ l \notin O[u] /\ IsList(O[u], next, lockList[u], rank)
    <3>1. \A u \in Tasks : l \notin OwnedBy(u) /\ OwnedBy(u) \in SUBSET Locks
      BY <1>0, <2>1 DEF OwnedBy
    <3> QED BY <2>2, <2>3, <3>1
  <2>5. \A u \in Tasks, m \in Locks : owner'[m] = u <=> m \in O[u] \/ (u = t /\ m = l)
    BY <1>0, <2>1, <2>3 DEF OwnedBy
  <2>6. \A u \in Tasks : lockList'[u] = IF u = t THEN l ELSE lockList[u]
    BY <1>0, <2>1
  <2>7. \A m \in Locks : next'[m] = IF m = l THEN lockList[t] ELSE next[m]
    BY <1>0, <2>1
  <2>a. Takes(t, l, O, next, lockList, rank)
    BY <2>4, <2>5, <2>6, <2>7 DEF Takes
  <2>8. Listed'
    BY <2>2, <2>a, ListedTakes
  <2>9. ForOthers'
    BY <1>0, <2>1 DEF ForOthers
  <2> QED BY <2>8, <2>9
<1> QED BY <1>1, <1>2, <1>3 DEF TryLock

\* The lists stay when no lock changes hands; a task may stop spinning.
LEMMA ListedRests ==
  ASSUME Listed, ForOthers, UNCHANGED <<owner, next, lockList>>,
         \A t \in Tasks : spinLock'[t] \in {spinLock[t], NoLock}
  PROVE  Listed' /\ ForOthers'
BY DEF Listed, OwnedBy, ForOthers

LEMMA NestedStep == IInv /\ Kept /\ Nested /\ [Next]_vars => Nested'
<1> SUFFICES ASSUME IInv, Kept, Nested, [Next]_vars, ~program'.stopped PROVE Listed' /\ ForOthers' /\ Alive'
  BY DEF Nested
<1>0. /\ TypeOK /\ Waits /\ program' = program /\ Listed /\ ForOthers /\ Alive /\ Quiet
      /\ st \in [Tasks -> {"running", "blocked", "spinning", "ready", "suspended", "free"}]
      /\ spinLock \in [Tasks -> Locks \cup {NoLock}]
  BY DEF IInv, TypeOK, Next, vars, Nested, Kept
<1>1. CASE UNCHANGED vars
  BY <1>0, <1>1, ListedRests DEF vars, locks, Alive
<1>2. CASE ReleaseOne \/ ReleaseEnd
  BY <1>0, <1>2 DEF ReleaseOne, ReleaseEnd
<1>3. ASSUME NEW l \in Locks, Unlock(l)
      PROVE  Listed' /\ ForOthers' /\ Alive'
  <2>1. Listed' /\ ForOthers'
    BY <1>0, <1>3, ListedUnlocks
  <2>2. \A t \in Tasks : st'[t] = st[t] \/ st'[t] = "blocked"
    <3>1. \/ st' = st
          \/ \E t \in queue[l] : st' = [st EXCEPT ![t] = "blocked"]
      BY <1>3 DEF Unlock, PassOn, HandOver
    <3> QED BY <1>0, <3>1
  <2> QED BY <1>0, <2>1, <2>2 DEF Alive
<1>4. ASSUME NEW t \in Tasks, NEW l \in Locks, TryLock(t, l)
      PROVE  Listed' /\ ForOthers' /\ Alive'
  <2>1. Listed' /\ ForOthers'
    BY <1>0, <1>4, ListedLocks
  <2>2. st' = st \/ st' = [st EXCEPT ![t] = "spinning"]
    BY <1>4 DEF TryLock, Spin, Acquire, Owns
  <2> QED BY <1>0, <2>1, <2>2 DEF Alive
<1>5. ASSUME NEW t \in Tasks, LockAgain(t)
      PROVE  Listed' /\ ForOthers' /\ Alive'
  <2>1. wants[t] \in Locks
    BY <1>0, <1>5 DEF LockAgain, TypeOK
  <2> QED BY <1>4, <1>5, <2>1 DEF LockAgain
<1>6. ASSUME NEW t \in Tasks, Preempt(t) \/ SuspendByStranger(t)
      PROVE  Listed' /\ ForOthers' /\ Alive'
  <2>1. /\ spinLock' = [spinLock EXCEPT ![t] = NoLock] /\ UNCHANGED <<owner, next, lockList>>
        /\ st' = [st EXCEPT ![t] = "ready"] \/ (program.strangers /\ st' = [st EXCEPT ![t] = "suspended"])
    BY <1>6 DEF Preempt, SuspendByStranger, GivesUpSpinning, DqLock
  <2>2. \A u \in Tasks : spinLock'[u] \in {spinLock[u], NoLock}
    BY <1>0, <2>1
  <2>3. Listed' /\ ForOthers'
    BY <1>0, <2>1, <2>2, ListedRests
  <2>4. Alive'
    BY <1>0, <2>1 DEF Alive
  <2> QED BY <2>3, <2>4
<1>7. ASSUME NEW t \in Tasks, Run(t) \/ Resume(t)
      PROVE  Listed' /\ ForOthers' /\ Alive'
  <2>1. /\ UNCHANGED <<owner, next, lockList, spinLock>>
        /\ \E x \in {"running", "ready"} : st' = [st EXCEPT ![t] = x]
    BY <1>7 DEF Run, Resume, locks
  <2>2. Alive'
    BY <1>0, <2>1 DEF Alive
  <2> QED BY <1>0, <2>1, <2>2, ListedRests
<1>8. ASSUME NEW t \in Tasks, Suspend(t) \/ Kill(t) \/ Create(t)
      PROVE  FALSE
  BY <1>0, <1>8 DEF Suspend, Kill, Create, Alive
<1> QED BY <1>1, <1>2, <1>3, <1>4, <1>5, <1>6, <1>7, <1>8 DEF Next, Lock

LEMMA NestedAgree == ASSUME IInv, Nested, ~program.stopped PROVE NoLockLeaked
<1>1. PICK rank \in [Locks -> Nat] : \A t \in Tasks : IsList(OwnedBy(t), next, lockList[t], rank)
  BY DEF Nested, Listed
<1>2. ListsAgree
  <2>1. \A t \in Tasks : Held(t) = OwnedBy(t)
    BY <1>1, ListHeld
  <2> QED BY <2>1 DEF ListsAgree, OwnedBy
<1>3. StoppedOwnNothing
  BY DEF IInv, TypeOK, Nested, Alive, StoppedOwnNothing
<1> QED BY <1>2, <1>3 DEF NoLockLeaked

-----------------------------------------------------------------------------
\* A task has or waits for one lock at a time, and anybody may be stopped.

\* Dead, or suspended by an ancestor.
Stopped(t) == st[t] = "free" \/ (st[t] = "suspended" /\ ~program.strangers)

\* While release_locks goes through them: the task it serves, its only lock first.
LockOf(t) ==
  /\ \A l \in Locks : owner[l] = t => lockList[t] = l
  /\ lockList[t] # NoLock => owner[lockList[t]] = t \/ releasing = [task |-> t, lock |-> NoLock]
  /\ wants[t] # NoLock => lockList[t] \in {NoLock, wants[t]}
  /\ spinLock[t] # NoLock => lockList[t] = NoLock /\ (wants[t] = spinLock[t] \/ releasing.task = t)
  /\ \A l \in has[t] : owner[l] = t
  /\ releasing.task = t => has[t] = {} /\ releasing.lock \in {NoLock, lockList[t]}
  /\ releasing = [task |-> t, lock |-> NoLock] => \A l \in Locks : owner[l] # t
  /\ Stopped(t) => lockList[t] = NoLock \/ releasing.task = t
Single == program.held <= 1 => /\ \A t \in Tasks : LockOf(t)
                               /\ \A l \in Locks : next[l] = NoLock
                               /\ releasing.task \in Tasks \/ Quiet

LEMMA SingleInit == Init => Single
<1> SUFFICES ASSUME Init PROVE Single OBVIOUS
<1>1. \A t \in Tasks : t # NoTask BY LockAssumption
<1> QED BY <1>1 DEF Init, Idle, Quiet, LockOf, Stopped, Single

\* What a task holds is its one lock.
LEMMA HeldOne ==
  ASSUME TypeOK, NEW t \in Tasks, \A l \in Locks : next[l] = NoLock
  PROVE  Held(t) = {lockList[t]} \ {NoLock}
<1>0. lockList[t] \in Locks \cup {NoLock} /\ NoLock \notin Locks
  BY LockAssumption DEF TypeOK
<1>1. PICK S \in SUBSET Locks : S = {lockList[t]} \ {NoLock}
  BY <1>0
<1>2. Closed(t, S)
  BY <1>0, <1>1 DEF Closed
<1>3. \A R \in SUBSET Locks : Closed(t, R) => S \subseteq R
  BY <1>1 DEF Closed
<1> QED BY <1>1, <1>2, <1>3 DEF Held

\* Another task's step, or one that leaves a task's locks alone.
LEMMA OthersRest ==
  ASSUME NEW t \in Tasks, LockOf(t), Quiet, releasing'.task # t, UNCHANGED program,
         \A l \in Locks : (owner'[l] = t) = (owner[l] = t),
         lockList'[t] = lockList[t], wants'[t] = wants[t], spinLock'[t] \in {spinLock[t], NoLock},
         has'[t] \subseteq has[t], has[t] \in SUBSET Locks, lockList[t] \in Locks \cup {NoLock},
         Stopped(t)' => Stopped(t)
  PROVE  LockOf(t)'
<1>1. releasing # [task |-> t, lock |-> NoLock] /\ releasing' # [task |-> t, lock |-> NoLock]
  <2>1. [task |-> t, lock |-> NoLock].task = t
    OBVIOUS
  <2>2. releasing.task # t
    BY LockAssumption DEF Quiet, Idle
  <2> QED BY <2>1, <2>2
<1>2. releasing.task # t
  BY LockAssumption DEF Quiet, Idle
<1> QED BY <1>1, <1>2 DEF LockOf

LEMMA SingleLocks ==
  ASSUME IInv, Single, program.held <= 1, UNCHANGED program, Quiet, NEW t \in Tasks, NEW l \in Locks,
         st[t] = "running", lockList[t] \in {NoLock, l}, wants[t] \in {NoLock, l}, TryLock(t, l)
  PROVE  Single'
<1>0. /\ owner \in [Locks -> Tasks \cup {NoTask}] /\ lockList \in [Tasks -> Locks \cup {NoLock}]
      /\ next \in [Locks -> Locks \cup {NoLock}] /\ spinLock \in [Tasks -> Locks \cup {NoLock}]
      /\ wants \in [Tasks -> Locks \cup {NoLock}] /\ has \in [Tasks -> SUBSET Locks]
      /\ st \in [Tasks -> {"running", "blocked", "spinning", "ready", "suspended", "free"}]
      /\ NoLock \notin Locks /\ NoTask \notin Tasks /\ \A u \in Tasks : LockOf(u)
      /\ \A m \in Locks : next[m] = NoLock
      /\ releasing = Idle /\ releasing' = Idle /\ \A u \in Tasks : releasing'.task # u
  BY LockAssumption DEF IInv, TypeOK, Single, Quiet, Idle, TryLock, Spin, Acquire, Owns
<1>1. lockList[t] # NoLock => owner[l] = t
  <2>1. releasing.task # t
    BY <1>0 DEF Idle
  <2> QED BY <1>0, <2>1 DEF LockOf
<1>2. ASSUME NEW u \in Tasks, u # t
      PROVE  LockOf(u)'
  <2>1. /\ wants'[u] = wants[u] /\ has'[u] = has[u] /\ lockList'[u] = lockList[u] /\ spinLock'[u] = spinLock[u]
        /\ Stopped(u)' = Stopped(u)
        /\ \A m \in Locks : (owner'[m] = u) = (owner[m] = u)
    BY <1>0, <1>2 DEF TryLock, Spin, Acquire, Owns, Return, MayTake, DqLock, locks, Stopped
  <2> QED BY <1>0, <2>1, OthersRest
<1>r. releasing'.task # t /\ releasing' # [task |-> t, lock |-> NoLock] /\ releasing.task # t /\ releasing # [task |-> t, lock |-> NoLock]
  <2>1. [task |-> t, lock |-> NoLock].task = t
    OBVIOUS
  <2> QED BY <1>0, <2>1
<1>3. LockOf(t)'
  <2>1. CASE Spin(t, l)
    <3>1. /\ lockList[t] = NoLock /\ spinLock'[t] = l /\ wants'[t] = l /\ st'[t] = "spinning"
          /\ UNCHANGED <<owner, next, lockList, releasing, has>>
      BY <1>0, <1>1, <2>1 DEF Spin
    <3> QED BY <1>0, <1>r, <3>1 DEF LockOf, Stopped
  <2>2. CASE Acquire(t, l)
    <3>1. /\ owner[l] = NoTask /\ owner' = [owner EXCEPT ![l] = t] /\ lockList'[t] = l /\ spinLock'[t] = NoLock /\ wants'[t] = NoLock
          /\ has'[t] = has[t] \cup {l} /\ st' = st
      BY <1>0, <2>2 DEF Acquire, MayTake, DqLock, Return
    <3>2. lockList[t] = NoLock
      BY <1>0, <1>1, <3>1
    <3>3. \A m \in Locks : owner[m] # t
      BY <1>0, <3>2 DEF LockOf
    <3>4. \A m \in Locks : owner'[m] = t <=> m = l
      BY <1>0, <3>1, <3>3
    <3>5. has'[t] = {l}
      BY <1>0, <3>1, <3>3 DEF LockOf
    <3> QED BY <1>0, <1>r, <3>1, <3>4, <3>5 DEF LockOf, Stopped
  <2>3. CASE Owns(t, l)
    <3>1. /\ owner[l] = t /\ UNCHANGED <<owner, lockList, spinLock, st>> /\ wants'[t] = NoLock /\ has'[t] = has[t] \cup {l}
      BY <1>0, <2>3 DEF Owns, AlreadyMine, Return, locks
    <3>2. spinLock[t] = NoLock
      BY <1>0, <3>1 DEF LockOf
    <3> QED BY <1>0, <1>r, <3>1, <3>2 DEF LockOf, Stopped
  <2> QED BY <2>1, <2>2, <2>3 DEF TryLock
<1>4. \A m \in Locks : next'[m] = NoLock
  <2>1. CASE Acquire(t, l)
    <3>1. owner[l] = NoTask /\ next' = [next EXCEPT ![l] = lockList[t]]
      BY <2>1 DEF Acquire, MayTake
    <3>2. lockList[t] = NoLock
      BY <1>0, <1>1, <3>1
    <3> QED BY <1>0, <3>1, <3>2
  <2>2. CASE next' = next
    BY <1>0, <2>2
  <2> QED BY <2>1, <2>2 DEF TryLock, Spin, Owns, locks
<1> QED BY <1>0, <1>2, <1>3, <1>4 DEF Single, Quiet

\* A lock goes from the task t, which has it as its only one, to another or to nobody.
LEMMA SingleHands ==
  ASSUME TypeOK, Waits, Single, program.held <= 1, UNCHANGED <<program, wants>>, NEW t \in Tasks, NEW l \in Locks, owner[l] = t,
         NEW heads \in [Tasks -> Locks \cup {NoLock}], \A u \in Tasks \ {t} : heads[u] = lockList[u],
         HandOver(l, heads), NEW links, \A m \in Locks : links[m] = NoLock, Relink(l, links),
         releasing.task \in {t, NoTask}, releasing'.task = releasing.task,
         \A u \in Tasks \ {t} : has'[u] = has[u]
  PROVE  /\ \A u \in Tasks \ {t} : LockOf(u)'
         /\ \A m \in Locks : next'[m] = NoLock
         /\ \A m \in Locks : owner'[m] # t
         /\ lockList'[t] = heads[t] /\ spinLock'[t] = NoLock /\ st'[t] = st[t]
<1>0. /\ owner \in [Locks -> Tasks \cup {NoTask}] /\ lockList \in [Tasks -> Locks \cup {NoLock}]
      /\ next \in [Locks -> Locks \cup {NoLock}] /\ spinLock \in [Tasks -> Locks \cup {NoLock}]
      /\ wants \in [Tasks -> Locks \cup {NoLock}] /\ has \in [Tasks -> SUBSET Locks]
      /\ st \in [Tasks -> {"running", "blocked", "spinning", "ready", "suspended", "free"}]
      /\ NoLock \notin Locks /\ NoTask \notin Tasks /\ \A u \in Tasks : LockOf(u)
  BY LockAssumption DEF TypeOK, Single
<1>1. lockList[t] = l /\ spinLock[t] = NoLock /\ \A m \in Locks : owner[m] = t => m = l
  BY <1>0 DEF LockOf
<1>2. ASSUME NEW u \in Tasks \ {t}
      PROVE  /\ releasing.task # u /\ releasing # [task |-> u, lock |-> NoLock]
             /\ releasing'.task # u /\ releasing' # [task |-> u, lock |-> NoLock]
  <2>1. [task |-> u, lock |-> NoLock].task = u
    OBVIOUS
  <2> QED BY <1>0, <2>1
<1>3. CASE owner' = [owner EXCEPT ![l] = NoTask] /\ lockList' = heads /\ UNCHANGED <<spinLock, st>>
  <2>1. ASSUME NEW u \in Tasks \ {t}
        PROVE  LockOf(u)'
    <3>1. \A m \in Locks : owner'[m] = u <=> owner[m] = u
      BY <1>0, <1>3
    <3>2. lockList'[u] = lockList[u] /\ wants'[u] = wants[u] /\ spinLock'[u] = spinLock[u] /\ has'[u] = has[u] /\ st'[u] = st[u]
      BY <1>3
    <3> QED BY <1>0, <1>2, <3>1, <3>2 DEF LockOf, Stopped
  <2>2. \A m \in Locks : next'[m] = NoLock
    BY <1>0, <1>3 DEF Relink
  <2> QED BY <1>0, <1>1, <1>3, <2>1, <2>2
<1>4. ASSUME NEW v \in Tasks, spinLock[v] = l, spinLock' = [spinLock EXCEPT ![v] = NoLock],
             owner' = [owner EXCEPT ![l] = v], lockList' = [heads EXCEPT ![v] = l], st' = [st EXCEPT ![v] = "blocked"]
      PROVE  /\ \A u \in Tasks \ {t} : LockOf(u)'
             /\ \A m \in Locks : next'[m] = NoLock
             /\ \A m \in Locks : owner'[m] # t
             /\ lockList'[t] = heads[t] /\ spinLock'[t] = NoLock /\ st'[t] = st[t]
  <2>1. v # t /\ lockList[v] = NoLock /\ wants[v] = l /\ \A m \in Locks : owner[m] # v
    <3>1. v # t
      BY <1>0, <1>1, <1>4
    <3> QED BY <1>0, <1>2, <1>4, <3>1 DEF LockOf
  <2>2. has[v] = {}
    BY <1>0, <2>1 DEF LockOf
  <2>3. LockOf(v)'
    <3>1. \A m \in Locks : owner'[m] = v <=> m = l
      BY <1>0, <1>4, <2>1
    <3>2. lockList'[v] = l /\ wants'[v] = l /\ spinLock'[v] = NoLock /\ has'[v] = {} /\ st'[v] = "blocked"
      BY <1>0, <1>4, <2>1, <2>2
    <3> QED BY <1>0, <1>2, <2>1, <3>1, <3>2 DEF LockOf, Stopped
  <2>4. ASSUME NEW u \in Tasks \ {t, v}
        PROVE  LockOf(u)'
    <3>1. \A m \in Locks : owner'[m] = u <=> owner[m] = u
      BY <1>0, <1>4
    <3>2. lockList'[u] = lockList[u] /\ wants'[u] = wants[u] /\ spinLock'[u] = spinLock[u] /\ has'[u] = has[u] /\ st'[u] = st[u]
      BY <1>0, <1>4
    <3> QED BY <1>0, <1>2, <3>1, <3>2 DEF LockOf, Stopped
  <2>5. \A m \in Locks : next'[m] = NoLock
    <3>1. owner'[l] = v /\ v # NoTask
      BY <1>0, <1>4
    <3> QED BY <1>0, <2>1, <3>1 DEF Relink
  <2> QED BY <1>0, <1>1, <1>4, <2>1, <2>3, <2>4, <2>5
<1>5. \/ owner' = [owner EXCEPT ![l] = NoTask] /\ lockList' = heads /\ UNCHANGED <<spinLock, st>>
      \/ \E u \in Tasks : /\ spinLock[u] = l /\ spinLock' = [spinLock EXCEPT ![u] = NoLock]
                          /\ owner' = [owner EXCEPT ![l] = u] /\ lockList' = [heads EXCEPT ![u] = l]
                          /\ st' = [st EXCEPT ![u] = "blocked"]
  BY HandedOver
<1> QED BY <1>3, <1>4, <1>5

LEMMA SingleStep == IInv /\ Single /\ [Next]_vars => Single'
<1> SUFFICES ASSUME IInv, Single, [Next]_vars, program'.held <= 1 PROVE Single' BY DEF Single
<1>0. /\ owner \in [Locks -> Tasks \cup {NoTask}] /\ lockList \in [Tasks -> Locks \cup {NoLock}]
      /\ next \in [Locks -> Locks \cup {NoLock}] /\ spinLock \in [Tasks -> Locks \cup {NoLock}]
      /\ wants \in [Tasks -> Locks \cup {NoLock}] /\ has \in [Tasks -> SUBSET Locks]
      /\ st \in [Tasks -> {"running", "blocked", "spinning", "ready", "suspended", "free"}]
      /\ releasing \in [task : Tasks \cup {NoTask}, lock : Locks \cup {NoLock}]
      /\ NoLock \notin Locks /\ NoTask \notin Tasks
      /\ TypeOK /\ Waits /\ program' = program /\ program.held <= 1 /\ program \in Programs
      /\ (\A u \in Tasks : LockOf(u)) /\ (\A m \in Locks : next[m] = NoLock)
      /\ releasing.task \in Tasks \/ Quiet
  BY LockAssumption DEF IInv, TypeOK, Next, vars, Single
<1>q. ASSUME Quiet, NEW t \in Tasks PROVE releasing.task # t
  BY <1>0, <1>q DEF Quiet, Idle
<1>r. \A t \in Tasks : releasing'.task # t => releasing' # [task |-> t, lock |-> NoLock]
  <2>1. \A t \in Tasks : [task |-> t, lock |-> NoLock].task = t
    OBVIOUS
  <2> QED BY <2>1
<1>1. CASE UNCHANGED vars
  BY <1>0, <1>1 DEF vars, locks, Single, Quiet, LockOf, Stopped
<1>2. CASE ReleaseOne
  <2>1. PICK t, l : t = releasing.task /\ l = releasing.lock
    OBVIOUS
  <2>2. /\ ~Quiet /\ l \in Locks /\ HandOver(l, lockList) /\ Relink(l, next) /\ UNCHANGED <<wants, has, program>>
        /\ releasing' = [releasing EXCEPT !.lock = next'[l]]
    BY <1>0, <1>2, <2>1 DEF ReleaseOne, PassOn
  <2>3. t \in Tasks
    BY <1>0, <2>1, <2>2
  <2>4. owner[l] = t /\ lockList[t] = l /\ has[t] = {}
    <3>1. l = lockList[t] /\ has[t] = {}
      BY <1>0, <2>1, <2>2, <2>3 DEF LockOf
    <3>2. releasing # [task |-> t, lock |-> NoLock]
      <4>1. [task |-> t, lock |-> NoLock].lock = NoLock
        OBVIOUS
      <4> QED BY <1>0, <2>1, <2>2, <4>1
    <3> QED BY <1>0, <2>2, <2>3, <3>1, <3>2 DEF LockOf
  <2>5. releasing'.task = t /\ releasing.task \in {t, NoTask}
    BY <1>0, <2>1, <2>2
  <2>6. /\ \A u \in Tasks \ {t} : LockOf(u)'
        /\ \A m \in Locks : next'[m] = NoLock
        /\ \A m \in Locks : owner'[m] # t
        /\ lockList'[t] = lockList[t] /\ spinLock'[t] = NoLock /\ st'[t] = st[t]
    BY <1>0, <2>1, <2>2, <2>3, <2>4, <2>5, SingleHands
  <2>7. releasing' = [task |-> t, lock |-> NoLock]
    BY <1>0, <2>1, <2>2, <2>6
  <2>8. LockOf(t)'
    <3>1. releasing'.task = t /\ releasing'.lock = NoLock
      BY <2>7
    <3>2. wants[t] # NoLock => lockList[t] \in {NoLock, wants[t]}
      BY <1>0, <2>3 DEF LockOf
    <3> QED BY <1>0, <2>2, <2>3, <2>4, <2>6, <2>7, <3>1, <3>2 DEF LockOf, Stopped
  <2> QED BY <2>3, <2>5, <2>6, <2>8 DEF Single
<1>3. CASE ReleaseEnd
  <2>1. PICK t : t = releasing.task
    OBVIOUS
  <2>2. /\ ~Quiet /\ releasing.lock = NoLock /\ lockList' = [lockList EXCEPT ![t] = NoLock]
        /\ spinLock' = [spinLock EXCEPT ![t] = NoLock]
        /\ releasing' = Idle /\ UNCHANGED <<owner, next, st, wants, has>>
    BY <1>3, <2>1 DEF ReleaseEnd, GivesUpSpinning, DqLock
  <2>3. t \in Tasks /\ releasing = [task |-> t, lock |-> NoLock]
    BY <1>0, <2>1, <2>2 DEF Quiet, Idle
  <2>4. has[t] = {} /\ \A l \in Locks : owner[l] # t
    BY <1>0, <2>1, <2>3 DEF LockOf
  <2>5. \A u \in Tasks : releasing'.task # u /\ releasing' # [task |-> u, lock |-> NoLock]
    BY <1>0, <1>r, <2>2 DEF Idle
  <2>6. LockOf(t)'
    BY <1>0, <2>2, <2>3, <2>4, <2>5 DEF LockOf, Stopped
  <2>7. ASSUME NEW u \in Tasks \ {t}
        PROVE  LockOf(u)'
    <3>1. releasing.task # u /\ releasing # [task |-> u, lock |-> NoLock]
      <4>1. [task |-> u, lock |-> NoLock].task = u
        OBVIOUS
      <4> QED BY <2>1, <4>1
    <3>2. lockList'[u] = lockList[u] /\ spinLock'[u] = spinLock[u]
      BY <1>0, <2>2
    <3> QED BY <1>0, <2>2, <2>5, <3>1, <3>2 DEF LockOf, Stopped
  <2> QED BY <1>0, <2>2, <2>6, <2>7 DEF Single, Quiet
<1>4. ASSUME NEW l \in Locks, Unlock(l)
      PROVE  Single'
  <2>0. PICK t : t = owner[l]
    OBVIOUS
  <2> DEFINE heads == [lockList EXCEPT ![t] = IF @ = l THEN next[l] ELSE @]
             links == [m \in Locks |-> IF m \in Before(t, l) THEN next[l] ELSE next[m]]
  <2>1. /\ Quiet /\ t # NoTask /\ HandOver(l, heads) /\ Relink(l, links)
        /\ has' = [has EXCEPT ![t] = @ \ {l}]
        /\ UNCHANGED <<wants, releasing, program>>
    BY <1>0, <1>4, <2>0 DEF Unlock, PassOn
  <2>2. t \in Tasks /\ lockList[t] = l
    BY <1>0, <2>0, <2>1 DEF LockOf
  <2>3. heads \in [Tasks -> Locks \cup {NoLock}] /\ heads[t] = NoLock /\ \A u \in Tasks \ {t} : heads[u] = lockList[u]
    BY <1>0, <2>2
  <2>4. \A m \in Locks : links[m] = NoLock
    BY <1>0
  <2>5. \A u \in Tasks : releasing.task # u /\ releasing'.task # u /\ releasing' # [task |-> u, lock |-> NoLock]
    BY <1>0, <1>q, <1>r, <2>1
  <2>6. releasing.task \in {t, NoTask} /\ releasing'.task = releasing.task /\ \A u \in Tasks \ {t} : has'[u] = has[u]
    BY <1>0, <2>1 DEF Quiet, Idle
  <2> HIDE DEF heads, links
  <2>7. /\ \A u \in Tasks \ {t} : LockOf(u)'
        /\ \A m \in Locks : next'[m] = NoLock
        /\ \A m \in Locks : owner'[m] # t
        /\ lockList'[t] = heads[t] /\ spinLock'[t] = NoLock /\ st'[t] = st[t]
    <3>1. TypeOK /\ Waits /\ program.held <= 1 /\ UNCHANGED <<program, wants>> /\ owner[l] = t
      BY <1>0, <2>0, <2>1
    <3>2. HandOver(l, heads) /\ Relink(l, links) /\ t \in Tasks
      BY <2>1, <2>2
    <3> QED BY <2>3, <2>4, <2>6, <3>1, <3>2, SingleHands
  <2>8. has'[t] = {}
    <3>1. \A m \in has[t] : m = l
      <4>1. \A m \in has[t] : m \in Locks /\ owner[m] = t
        BY <1>0, <2>2 DEF LockOf
      <4> QED BY <1>0, <2>2, <4>1 DEF LockOf
    <3> QED BY <1>0, <2>1, <2>2, <3>1
  <2>9. lockList'[t] = NoLock /\ releasing'.task # t /\ releasing' # [task |-> t, lock |-> NoLock]
    BY <2>2, <2>3, <2>5, <2>7
  <2>10. LockOf(t)'
    BY <1>0, <2>7, <2>8, <2>9 DEF LockOf, Stopped
  <2> QED BY <2>1, <2>7, <2>10 DEF Single, Quiet
<1>5. ASSUME NEW t \in Tasks, NEW l \in Locks, Lock(t, l)
      PROVE  Single'
  <2>1. Quiet /\ st[t] = "running" /\ wants[t] = NoLock /\ TryLock(t, l) /\ Cardinality(Held(t) \cup {l}) <= program.held
    BY <1>5 DEF Lock, Calls
  <2>2. lockList[t] \in {NoLock, l}
    <3>1. SUFFICES ASSUME lockList[t] \notin {NoLock, l} PROVE FALSE
      OBVIOUS
    <3>2. PICK m : m = lockList[t]
      OBVIOUS
    <3>3. Held(t) \cup {l} = {l} \cup {m} /\ m \notin {l}
      BY <1>0, <3>1, <3>2, HeldOne
    <3>4. IsFiniteSet({l}) /\ Cardinality({l}) = 1
      BY FS_Singleton
    <3>5. Cardinality({l} \cup {m}) = 2
      BY <3>3, <3>4, FS_AddElement
    <3>6. program.held \in Nat
      BY <1>0, LockAssumption
    <3>7. Cardinality(Held(t) \cup {l}) = 2
      BY <3>3, <3>5
    <3>8. program.held <= 1
      BY <1>0
    <3> QED BY <2>1, <3>6, <3>7, <3>8
  <2> QED BY <1>0, <2>1, <2>2, SingleLocks
<1>6. ASSUME NEW t \in Tasks, LockAgain(t)
      PROVE  Single'
  <2>1. Quiet /\ st[t] = "running" /\ wants[t] \in Locks /\ TryLock(t, wants[t])
    BY <1>0, <1>6 DEF LockAgain
  <2>2. lockList[t] \in {NoLock, wants[t]}
    BY <1>0, <2>1 DEF LockOf
  <2> QED BY <1>0, <2>1, <2>2, SingleLocks
<1>7. ASSUME Quiet, UNCHANGED <<owner, next, lockList, releasing, has>>, NEW t \in Tasks,
             \A u \in Tasks : spinLock'[u] \in {spinLock[u], NoLock},
             \A u \in Tasks : wants'[u] = wants[u],
             \A u \in Tasks \ {t} : st'[u] = st[u], Stopped(t)' => Stopped(t)
      PROVE  Single'
  <2>1. ASSUME NEW u \in Tasks
        PROVE  LockOf(u)'
    <3>1. Stopped(u)' => Stopped(u)
      BY <1>0, <1>7 DEF Stopped
    <3>2. releasing'.task # u
      BY <1>7, <1>q
    <3> QED BY <1>0, <1>7, <3>1, <3>2, OthersRest
  <2> QED BY <1>0, <1>7, <2>1 DEF Single, Quiet
<1>8. ASSUME NEW t \in Tasks, Preempt(t) \/ SuspendByStranger(t)
      PROVE  Single'
  <2>1. /\ Quiet /\ spinLock' = [spinLock EXCEPT ![t] = NoLock] /\ UNCHANGED <<owner, next, lockList, releasing, has, wants>>
        /\ st' = [st EXCEPT ![t] = "ready"] \/ (program.strangers /\ st' = [st EXCEPT ![t] = "suspended"])
    BY <1>8 DEF Preempt, SuspendByStranger, GivesUpSpinning, DqLock
  <2>2. /\ \A u \in Tasks : spinLock'[u] \in {spinLock[u], NoLock}
        /\ \A u \in Tasks \ {t} : st'[u] = st[u]
        /\ ~Stopped(t)'
    BY <1>0, <2>1 DEF Stopped
  <2> QED BY <1>7, <2>1, <2>2
<1>9. ASSUME NEW t \in Tasks, Run(t) \/ Resume(t)
      PROVE  Single'
  <2>1. /\ Quiet /\ UNCHANGED <<owner, next, lockList, releasing, has, wants, spinLock>>
        /\ \E x \in {"running", "ready"} : st' = [st EXCEPT ![t] = x]
    BY <1>9 DEF Run, Resume, locks
  <2>2. (\A u \in Tasks \ {t} : st'[u] = st[u]) /\ ~Stopped(t)'
    BY <1>0, <2>1 DEF Stopped
  <2> QED BY <1>7, <2>1, <2>2
<1>10. ASSUME NEW t \in Tasks, Suspend(t) \/ Kill(t)
      PROVE  Single'
  <2>1. /\ Quiet /\ has' = [has EXCEPT ![t] = {}] /\ UNCHANGED <<owner, next, lockList, spinLock>>
        /\ releasing' = [task |-> t, lock |-> lockList[t]]
        /\ \E x \in {"suspended", "free"} : st' = [st EXCEPT ![t] = x]
        /\ wants' = wants \/ wants' = [wants EXCEPT ![t] = NoLock]
    BY <1>10 DEF Suspend, Kill, Release, locks
  <2>2. releasing'.task = t /\ releasing'.lock = lockList[t]
    BY <2>1
  <2>3. ASSUME NEW u \in Tasks \ {t}
        PROVE  LockOf(u)'
    <3>1. Stopped(u)' = Stopped(u) /\ wants'[u] = wants[u] /\ has'[u] = has[u]
      BY <1>0, <2>1 DEF Stopped
    <3> QED BY <1>0, <2>1, <2>2, <3>1, OthersRest
  <2>4. LockOf(t)'
    <3>1. has'[t] = {} /\ wants'[t] \in {wants[t], NoLock}
      BY <1>0, <2>1
    <3>2. lockList[t] # NoLock => owner[lockList[t]] = t
      <4>1. releasing # [task |-> t, lock |-> NoLock]
        <5>1. [task |-> t, lock |-> NoLock].task = t
          OBVIOUS
        <5> QED BY <1>q, <2>1, <5>1
      <4> QED BY <1>0, <4>1 DEF LockOf
    <3>3. lockList[t] = NoLock => \A l \in Locks : owner[l] # t
      BY <1>0 DEF LockOf
    <3>4. releasing' = [task |-> t, lock |-> NoLock] => lockList[t] = NoLock
      BY <2>2
    <3> QED BY <1>0, <2>1, <2>2, <3>1, <3>2, <3>3, <3>4 DEF LockOf
  <2> QED BY <1>0, <2>1, <2>2, <2>3, <2>4 DEF Single
<1>11. ASSUME NEW t \in Tasks, Create(t)
      PROVE  Single'
  <2>1. /\ Quiet /\ st[t] = "free" /\ st' = [st EXCEPT ![t] = "suspended"]
        /\ lockList' = [lockList EXCEPT ![t] = NoLock] /\ spinLock' = [spinLock EXCEPT ![t] = NoLock]
        /\ UNCHANGED <<owner, next, wants, releasing, has>>
    BY <1>11 DEF Create
  <2>2. lockList[t] = NoLock /\ lockList' = lockList
    <3>1. lockList[t] = NoLock
      BY <1>0, <1>q, <2>1 DEF LockOf, Stopped
    <3> QED BY <1>0, <2>1, <3>1
  <2>3. \A u \in Tasks : spinLock'[u] \in {spinLock[u], NoLock}
    BY <1>0, <2>1
  <2>4. (\A u \in Tasks \ {t} : st'[u] = st[u]) /\ (Stopped(t)' => Stopped(t))
    BY <1>0, <2>1 DEF Stopped
  <2> QED BY <1>7, <2>1, <2>2, <2>3, <2>4
<1> QED BY <1>1, <1>2, <1>3, <1>4, <1>5, <1>6, <1>8, <1>9, <1>10, <1>11 DEF Next

LEMMA SingleAgree ==
  ASSUME IInv, Single, program.held <= 1
  PROVE  NoLockLeaked /\ LocksAreKept
<1>0. /\ TypeOK /\ NoLock \notin Locks /\ NoTask \notin Tasks /\ lockList \in [Tasks -> Locks \cup {NoLock}]
      /\ owner \in [Locks -> Tasks \cup {NoTask}] /\ has \in [Tasks -> SUBSET Locks]
      /\ (\A u \in Tasks : LockOf(u)) /\ \A m \in Locks : next[m] = NoLock
  BY LockAssumption DEF IInv, TypeOK, Single
<1>1. ASSUME Quiet, NEW t \in Tasks
      PROVE  releasing.task # t /\ releasing # [task |-> t, lock |-> NoLock]
  <2>1. releasing.task # t
    BY <1>0, <1>1 DEF Quiet, Idle
  <2>2. [task |-> t, lock |-> NoLock].task = t
    OBVIOUS
  <2> QED BY <2>1, <2>2
<1>2. ListsAgree
  <2> SUFFICES ASSUME Quiet, NEW t \in Tasks, NEW l \in Locks
               PROVE  l \in Held(t) <=> owner[l] = t
    BY DEF ListsAgree
  <2>1. Held(t) = {lockList[t]} \ {NoLock}
    BY <1>0, HeldOne
  <2> QED BY <1>0, <1>1, <2>1 DEF LockOf
<1>3. StoppedOwnNothing
  <2> SUFFICES ASSUME Quiet, ~program.strangers, NEW l \in Locks, owner[l] # NoTask, st[owner[l]] \in {"suspended", "free"}
               PROVE  FALSE
    BY DEF StoppedOwnNothing
  <2>1. PICK t \in Tasks : t = owner[l]
    BY <1>0
  <2>2. lockList[t] = l /\ Stopped(t)
    BY <1>0, <2>1 DEF LockOf, Stopped
  <2> QED BY <1>0, <1>1, <2>2 DEF LockOf
<1>4. LocksAreKept
  BY <1>0 DEF LockOf, LocksAreKept
<1> QED BY <1>2, <1>3, <1>4 DEF NoLockLeaked

-----------------------------------------------------------------------------
\* Programs that do not stop tasks with nested locks.
Careful == program.held <= 1 \/ ~program.stopped

LEMMA CarefulInvariance == Spec => [](IInv /\ Kept /\ Nested /\ Single)
<1>1. Init => Kept BY DEF Init, Kept, Quiet
<1> QED BY <1>1, Invariance, NestedInit, SingleInit, KeptStep, NestedStep, SingleStep, PTL DEF Spec

\* A lock that ps_lock has given to a task stays with it until ps_unlock, however
\* tasks are preempted, unless a task with nested locks is stopped: two tasks never are
\* in the critical section of a lock.
THEOREM LocksKept == Spec => [](Careful => LocksAreKept)
<1>1. IInv /\ Kept /\ Single => (Careful => LocksAreKept)
  BY SingleAgree DEF Kept, LocksAreKept, Careful
<1> QED BY <1>1, CarefulInvariance, PTL

\* The list of every task holds exactly the locks it owns, however locks nest and in
\* whatever order they are unlocked; and a stopped task has given up its locks, unless
\* a task with nested locks is stopped: release_locks then leaks them (a finding).
THEOREM NothingLeaked == Spec => [](Careful => NoLockLeaked)
<1>1. IInv /\ Nested /\ Single => (Careful => NoLockLeaked)
  BY SingleAgree, NestedAgree DEF Careful
<1> QED BY <1>1, CarefulInvariance, PTL
=============================================================================
