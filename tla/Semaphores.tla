----------------------------- MODULE Semaphores -----------------------------
(***************************************************************************)
(* Counting semaphores of the parasol kernel (parasol/src/para_library.c   *)
(* 2547-2775) on top of its scheduler: a wait suspends the caller and a    *)
(* signal or a reset resumes waiters, which may take the cpu at once, in   *)
(* the middle of the reset.  A semaphore does not notice when one of its   *)
(* waiters is resumed or killed otherwise, so nobody does that here.       *)
(***************************************************************************)
EXTENDS Scheduler

CONSTANTS MaxCount      \* bound: count of a semaphore

SemaphoreCalls == {"wait", "signal", "reset"}
\* node.sem: what the tasks and, last, those of other nodes do with the semaphore.
ASSUME SemaphoresAssumption ==
  /\ MaxCount \in Nat \ {0} /\ IsFiniteSet(Tasks)
  /\ \A n \in Nodes : n.sem \subseteq SemaphoreCalls /\ n.outside \subseteq {"signal", "reset"}

VARIABLES sem           \* a record of
\*   count    its count                   queue    waiting tasks, the oldest first
\*   by       who is resetting it         next     the place in the queue it has come to
\*   holders  history: tasks whose wait has ended and that have not signalled since
semVars == <<node, k, sem>>

SemInit ==
  /\ Init
  /\ sem = [count |-> 1, queue |-> <<>>, by |-> None, next |-> 0, holders |-> {}]

\* Tasks use the semaphore as a lock, unless others reset or signal it.
Lock == node.outside = {} /\ "reset" \notin node.sem

SemCall(name) ==
  /\ Running /\ sem.by # me
  /\ \/ me \in Tasks /\ name \in node.sem /\ ~k.inReceive[me]
     \/ me = Outside /\ name \in node.outside

\* ps_resume: only a suspended task is resumed.
Resumed(s, u) ==
  CASE s.st[u] = "suspended" -> FindHost(s, u)
    [] s.st[u] = "syncSuspend" -> [s EXCEPT !.st[u] = "sync"]
    [] OTHER -> s

BlocksLate == sem.count < 0       \* slip
Blocks == sem.count <= 0

WaitSemaphore ==
  /\ SemCall("wait") /\ me \in Tasks /\ (Lock => me \notin sem.holders)
  /\ IF Blocks
     THEN /\ sem' = [sem EXCEPT !.count = @ - 1, !.queue = Append(@, me)]
          /\ k' = SuspendTask(k, me)
     ELSE /\ sem' = [sem EXCEPT !.count = @ - 1, !.holders = @ \cup {me}]
          /\ UNCHANGED k

NewestWaiter(q) == Len(q)         \* slip
FirstWaiter(q) == 1               \* its place in the queue
Owed == sem.count < 0

\* The first waiter is resumed; with none in the queue a null pointer is followed.
SignalSemaphore ==
  /\ SemCall("signal") /\ sem.count < MaxCount /\ (Lock => me \in sem.holders)
  /\ LET s == [sem EXCEPT !.count = @ + 1, !.holders = @ \ {me}]
         i == FirstWaiter(sem.queue)
         t == sem.queue[i]
     IN CASE Owed /\ sem.queue # <<>> ->
               /\ sem' = [s EXCEPT !.queue = RemoveAt(@, i), !.holders = @ \cup {t}]
               /\ k' = Resumed(k, t)
          [] Owed /\ sem.queue = <<>> -> Abort("queue") /\ UNCHANGED sem
          [] OTHER -> sem' = s /\ UNCHANGED k

\* ps_reset_semaphore sets the count and resumes the waiters; a step of it for each,
\* for a resumed task of higher priority runs before the reset goes on.
ResetSemaphore(v) ==
  /\ SemCall("reset") /\ sem.by = None
  /\ sem' = IF sem.queue = <<>> THEN [sem EXCEPT !.count = v] ELSE [sem EXCEPT !.count = v, !.by = me, !.next = 1]
  /\ UNCHANGED k

ResetNext ==
  /\ Running /\ sem.by = me /\ sem.next <= Len(sem.queue)
  /\ sem' = [sem EXCEPT !.next = @ + 1, !.holders = @ \cup {sem.queue[sem.next]}]
  /\ k' = Resumed(k, sem.queue[sem.next])

ResetEnd ==
  /\ Running /\ sem.by = me /\ sem.next > Len(sem.queue)
  /\ sem' = [sem EXCEPT !.queue = <<>>, !.by = None, !.next = 0]
  /\ UNCHANGED k

\* Everything else that happens, when nobody disturbs a waiter.
Elsewhere ==
  /\ Next /\ sem.by # me /\ UNCHANGED sem
  /\ \A t \in Range(sem.queue) : k.st[t] = "suspended" => k'.st[t] = "suspended"

SemNext ==
  \/ Elsewhere
  \/ /\ UNCHANGED node
     /\ \/ WaitSemaphore \/ SignalSemaphore \/ ResetNext \/ ResetEnd
        \/ \E v \in 0..MaxCount : ResetSemaphore(v)

SemSpec == SemInit /\ [][SemNext]_semVars

Can(A) == A /\ UNCHANGED node
\* As in Scheduler!FairSpec; and a task that holds the semaphore signals it some time.
SemFairSpec ==
  /\ SemSpec
  /\ WF_semVars(OutsideBlocks /\ Elsewhere) /\ WF_semVars(Compute /\ Elsewhere)
  /\ WF_semVars(UNCHANGED node /\ (ResetNext \/ ResetEnd))
  /\ \A t \in Tasks :
       /\ SF_semVars(EndBlock(t) /\ Elsewhere)
       /\ SF_semVars(EndCompute(t) /\ Elsewhere)
       /\ SF_semVars(EndQuantum(t) /\ Elsewhere)
       /\ SF_semVars(me = t /\ SignalSemaphore /\ UNCHANGED node)

-----------------------------------------------------------------------------
SemTypeOK ==
  /\ sem.count \in Int /\ sem.queue \in Seq(Tasks) /\ sem.by \in Tasks \cup {Outside, None}
  /\ sem.next \in 0..Cardinality(Tasks)+1 /\ sem.holders \subseteq Tasks

\* The count is below zero by the number of waiters when it is below zero, and
\* otherwise nobody waits; the waiters are different suspended tasks (2600-2641,
\* 2713-2775).
CountsWaiters ==
  /\ sem.by = None => Len(sem.queue) = (IF sem.count < 0 THEN 0 - sem.count ELSE 0)
  /\ IsInjective(sem.queue)
  /\ \A i \in DOMAIN sem.queue : i >= sem.next => k.st[sem.queue[i]] = "suspended"

\* Used as a lock, a semaphore lets one task at a time through its wait, also when
\* the task that a signal resumes does not run yet (2625-2640).
OneHolder ==
  Lock => Cardinality(sem.holders) <= 1 /\ (sem.count <= 0 => sem.holders # {})

\* Every pointer that the calls of a semaphore follow leads to a waiter, a lock has
\* one holder, and the scheduler keeps its promises to the tasks that use semaphores.
SemConsistent ==
  SemTypeOK /\ CountsWaiters /\ OneHolder /\ CpusAgree /\ QueueIsReady /\ NoAbort

\* A waiter of a lock does not wait for ever: signals go to the waiters in turn (2625-2640).
WaitersServed == \A t \in Tasks : (Lock /\ t \in Range(sem.queue)) ~> t \notin Range(sem.queue)
=============================================================================
