---------------------------- MODULE SemaphoresMC ----------------------------
(***************************************************************************)
(* Finite instances of Semaphores: a lock on nodes with round robin, and a *)
(* semaphore that is signalled or reset from another node.                 *)
(***************************************************************************)
EXTENDS Semaphores, TLC

SemNode(ncpu, discipline, quantum, priorities, calls, uses, outside) ==
  [ncpu |-> ncpu, discipline |-> discipline, quantum |-> quantum, priorities |-> priorities,
   bound |-> [t \in Tasks |-> AnyHost], calls |-> calls, sem |-> uses, outside |-> outside]

Works == {"compute", "resume"}
AllNodes ==
  { SemNode(1, "FIFO", TRUE, {1}, Works, {"wait", "signal"}, {}),
    SemNode(1, "HOL", TRUE, {1}, Works, {"wait", "signal"}, {}),
    SemNode(1, "FIFO", FALSE, {1}, Works, {"wait"}, {"signal", "reset"}) }

ResetNodes == {SemNode(1, "PR", FALSE, {1, 2}, Works, {"wait", "signal", "reset"}, {})}
Orphans == [t \in Tasks |-> Outside]
=============================================================================
