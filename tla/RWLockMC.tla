------------------------------ MODULE RWLockMC ------------------------------
(***************************************************************************)
(* Finite instances of RWLock.                                             *)
(***************************************************************************)
EXTENDS RWLock, TLC

Symmetry == Permutations(Clients) \cup Permutations(Tokens)
=============================================================================
