---------------------------- MODULE SchedulerMC ----------------------------
(***************************************************************************)
(* Finite instances of Scheduler.                                          *)
(***************************************************************************)
EXTENDS Scheduler, TLC

\* Tasks that may run on any cpu, or one of which may only run on the first.
Unbound == {[t \in Tasks |-> AnyHost]}
OneBound == {[t \in Tasks |-> IF t = u THEN 1 ELSE AnyHost] : u \in Tasks}

Node(ncpu, discipline, quantum, priorities, bounds, calls) ==
  {[ncpu |-> ncpu, discipline |-> discipline, quantum |-> quantum,
    priorities |-> priorities, bound |-> b, calls |-> calls] : b \in bounds}

AllNodes ==
  Node(2, "FIFO", TRUE, {1}, Unbound, {"compute", "sleep", "receive", "timed", "send", "resume",
                                       "awaken", "kill", "create"})
  \cup Node(1, "HOL", TRUE, {1, 2}, Unbound, {"compute", "resume", "priority", "suspend", "sleep",
                                             "kill", "create"})
  \cup Node(2, "HOL", TRUE, {1, 2}, Unbound, {"compute", "sync", "resume", "kill", "create"})
  \cup Node(2, "PR", FALSE, {1, 2, 3}, Unbound, {"compute", "sync", "receive", "send", "resume", "priority"})
  \cup Node(1, "PR", FALSE, {1, 2}, Unbound, {"compute", "hold", "sync", "sleep", "awaken", "resume",
                                             "priority", "kill", "create"})
  \cup Node(2, "FIFO", FALSE, {1}, OneBound, {"compute", "sync", "resume", "suspend", "kill", "create", "sleep"})

LiveNodes == Node(1, "FIFO", TRUE, {1}, Unbound, {"compute", "resume"})
             \cup Node(1, "HOL", TRUE, {1}, Unbound, {"compute", "resume"})
             \cup Node(2, "PR", TRUE, {1}, Unbound, {"compute", "resume"})

TimedNodes == Node(1, "FIFO", FALSE, {1}, Unbound, {"compute", "resume", "timed", "suspend", "send"})
SuspendNodes == Node(1, "FIFO", FALSE, {1}, Unbound, {"compute", "resume", "suspend"})

\* Tasks of which the first is the parent of the others.
First == CHOOSE t \in Tasks : TRUE
Family == [t \in Tasks |-> IF t = First THEN Outside ELSE First]
SonNodes == Node(1, "PR", FALSE, {1, 2}, Unbound, {"compute", "resume", "priority"})
QuantumNodes == Node(1, "PR", TRUE, {1, 2}, Unbound, {"compute", "resume", "priority"})
SyncNodes == Node(1, "HOL", TRUE, {1}, Unbound, {"compute", "resume", "sync"})

Orphans == [t \in Tasks |-> Outside]
Symmetry == Permutations(Tasks)
=============================================================================
