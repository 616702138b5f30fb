------------------------------ MODULE Stations ------------------------------
(***************************************************************************)
(* What the tasks of a layered queueing model promise (lqsim): requests to *)
(* the entries of a task wait in one queue, at most Limit are served at a  *)
(* time, and they start in the order in which they came, except that those *)
(* to a closed entry are passed over.  A task closes an entry when a       *)
(* service ends, and opens it again later.                                 *)
(***************************************************************************)
EXTENDS Integers, SequencesExt

CONSTANTS Tasks, Limit  \* Limit[t]: requests that task t serves at a time
VARIABLES waiting,      \* requests to every task, the oldest first, each with its entry
          busy,         \* how many are served
          closed        \* entries that accept no request
vars == <<waiting, busy, closed>>

Init ==
  /\ waiting = [t \in Tasks |-> <<>>]
  /\ busy = [t \in Tasks |-> 0]
  /\ closed = [t \in Tasks |-> {}]

Arrive(t) ==
  /\ waiting' = [waiting EXCEPT ![t] = waiting'[t]]
  /\ waiting'[t] # waiting[t] /\ IsPrefix(waiting[t], waiting'[t])
  /\ UNCHANGED <<busy, closed>>

\* The request at position n can start.
First(t, n) ==
  /\ waiting[t][n].entry \notin closed[t]
  /\ \A j \in 1..n-1 : waiting[t][j].entry \in closed[t]

Begin(t) ==
  /\ busy[t] < Limit[t]
  /\ \E n \in DOMAIN waiting[t] : First(t, n) /\ waiting' = [waiting EXCEPT ![t] = RemoveAt(@, n)]
  /\ busy' = [busy EXCEPT ![t] = @ + 1]
  /\ UNCHANGED closed

End(t) ==
  /\ busy[t] > 0 /\ busy' = [busy EXCEPT ![t] = @ - 1]
  /\ closed' = [closed EXCEPT ![t] = closed'[t]] /\ closed[t] \subseteq closed'[t]
  /\ UNCHANGED waiting

Open(t) ==
  /\ closed' = [closed EXCEPT ![t] = closed'[t]] /\ closed'[t] \subseteq closed[t]
  /\ UNCHANGED <<waiting, busy>>

Next == \E t \in Tasks : Arrive(t) \/ Begin(t) \/ End(t) \/ Open(t)

Safe == Init /\ [][Next]_vars
\* A request that can start is not kept waiting.
Spec == Safe /\ \A t \in Tasks : WF_vars(Begin(t))
=============================================================================
