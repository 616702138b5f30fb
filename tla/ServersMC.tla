----------------------------- MODULE ServersMC -----------------------------
(***************************************************************************)
(* Finite instances of Servers: a multi-server m, a single server s, a task*)
(* j that joins the requests to its entries j1 and j2, and those to i1 and *)
(* i2, a multi-server n with three workers, and one, h, that serves by     *)
(* priority.                                                               *)
(*                                                                         *)
(* An entry takes requests of one mode only, as the loader wants it        *)
(* (Entry::test_and_set_recv, lqsim/entry.cc:313): send-no-reply for those *)
(* in AsyncEntries, rendezvous, direct or forwarded, for the others.       *)
(***************************************************************************)
EXTENDS Servers

Sync(e) == [to |-> e, mode |-> "sync"]
Async(e) == [to |-> e, mode |-> "async"]
AsyncEntries == Entries \cap {"m3", "s3", "i2"}

EntryTask == [e \in Entries |-> CASE e \in {"m1", "m2", "m3"} -> "m" [] e \in {"s1", "s2", "s3", "f1"} -> "s"
                                  [] e \in {"j1", "j2", "i1", "i2"} -> "j" [] e = "n1" -> "n" [] e \in {"h1", "h2"} -> "h"]
EntryPriority == [e \in Entries |-> IF e = "h2" THEN 1 ELSE 0]
EntryCalls == [e \in Entries |->
  CASE e = "m1" -> <<<<Sync("s1")>>, <<Async("s3")>>>>
    [] e = "j1" -> <<<<Sync("s2")>>, <<>>>>
    [] OTHER -> <<<<>>, <<>>>>]
EntryForwards == [e \in Entries |-> CASE e = "f1" -> {"j1"} [] e = "m2" -> {None, "s2"} [] OTHER -> {None}]
EntryJoins == [e \in Entries |-> CASE e \in {"j1", "j2"} -> {"j1", "j2"} [] e \in {"i1", "i2"} -> {"i1", "i2"} [] OTHER -> {}]
Limits == [t \in Tasks |-> CASE t \in {"m", "h"} -> 2 [] t = "n" -> 3 [] OTHER -> 1]

Asks(a, b, c, d) == [x \in Clients |-> CASE x = "a" -> a [] x = "b" -> b [] x = "c" -> c [] x = "d" -> d]
World(a, b, c, d, hol) == [asks |-> Asks(a, b, c, d), hol |-> hol]
AllWorlds ==
  { World({Sync("m1")}, {Sync("m1")}, {Sync("m1")}, {}, {}),
    World({Sync("j1")}, {Sync("j2")}, {Sync("j1")}, {}, {}),
    World({Sync("i1")}, {Sync("i1")}, {Async("i2")}, {}, {}),
    World({Sync("f1")}, {Sync("j2")}, {Sync("s1"), Sync("m2")}, {}, {}),
    World({Async("m3"), Sync("m2")}, {Sync("m2")}, {}, {}, {}),
    World({Sync("n1")}, {Sync("n1")}, {Sync("n1")}, {}, {}) }
PriorityWorld == {World({Sync("h1")}, {Sync("h1")}, {Sync("h1")}, {Sync("h2")}, {"h"})}

\* One mode for each entry: calls, what clients ask, and forwarding.
IsOneMode(calls) == \A call \in calls : (call.mode = "async") = (call.to \in AsyncEntries)
ASSUME OneMode ==
  /\ \A e \in Entries, p \in Phases : IsOneMode(Range(EntryCalls[e][p]))
  /\ \A w \in AllWorlds \cup PriorityWorld : \A c \in Clients : IsOneMode(w.asks[c])
  /\ \A e \in Entries : EntryForwards[e] \cap AsyncEntries = {}
=============================================================================
