----------------------------- MODULE ForkJoinMC -----------------------------
(***************************************************************************)
(* Finite instances of ForkJoin.                                           *)
(***************************************************************************)
EXTENDS ForkJoin, TLC

Symmetry == Permutations(Branches) \cup Permutations(Threads)
=============================================================================
