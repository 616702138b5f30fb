--------------------------- MODULE FairSchedulerMC ---------------------------
(***************************************************************************)
(* Finite instances of FairScheduler.                                      *)
(***************************************************************************)
EXTENDS FairScheduler, TLC

CONSTANTS t1, t2, t3, t4, t5, t6

FairNode(ncpu, ngroup, capped, member, start, keys, calls) ==
  [ncpu |-> ncpu, ngroup |-> ngroup, capped |-> capped, member |-> member,
   bound |-> [t \in Tasks |-> 0], start |-> start, keys |-> keys, groupKeys |-> 0..ngroup-1, calls |-> calls, maxLoad |-> 3]

\* Six tasks in one queue, which are updated and suspended.
OneGroup == FairNode(1, 1, {}, [t \in Tasks |-> 1], <<t1, t2, t3, t4, t5, t6>>, {0, 1}, {"suspend", "update"})
\* Three tasks in two groups, one of which may be capped.
TwoGroups(ncpu, capped, calls) ==
  FairNode(ncpu, 2, capped, [t \in Tasks |-> IF t = t1 THEN 1 ELSE 2], <<t1, t2, t3>>, {0, 1}, calls)
AllNodes == {OneGroup, TwoGroups(1, {2}, Calls), TwoGroups(2, {2}, {"arrive", "leave", "quantum"})}
LoadNodes == {TwoGroups(2, {}, Calls)}
=============================================================================
