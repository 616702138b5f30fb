---------------------------- MODULE SpinLocksMC ----------------------------
(***************************************************************************)
(* Finite instances of SpinLocks.                                          *)
(***************************************************************************)
EXTENDS SpinLocks, TLC

Program(held, stopped, strangers) == [held |-> held, stopped |-> stopped, strangers |-> strangers]

\* One lock at a time and everything else, or several and nobody is stopped.
SafePrograms == {Program(1, TRUE, FALSE), Program(1, TRUE, TRUE), Program(2, FALSE, FALSE)}
NestingPrograms == {Program(2, TRUE, FALSE)}

Symmetry == Permutations(Tasks) \cup Permutations(Locks)
=============================================================================
