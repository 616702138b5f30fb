---------------------------- MODULE ReadWriteLock ----------------------------
(***************************************************************************)
(* What a read-write lock promises to its clients: what they may observe   *)
(* of it, whatever tasks, counters and queues it is built from.  RWLock    *)
(* implements it.                                                          *)
(***************************************************************************)
EXTENDS Integers, FiniteSets

CONSTANTS Clients, Capacity

VARIABLE state

Reading == {c \in Clients : state[c] = "reading"}
Writing == {c \in Clients : state[c] = "writing"}

Init == state = [c \in Clients |-> "idle"]

Move(c, from, to) == state[c] = from /\ state' = [state EXCEPT ![c] = to]

AskRead(c) == Move(c, "idle", "wantRead")
AskWrite(c) == Move(c, "idle", "wantWrite")

GrantRead(c) ==
  /\ Writing = {} /\ Cardinality(Reading) < Capacity
  /\ Move(c, "wantRead", "reading")

GrantWrite(c) ==
  /\ Writing = {} /\ Reading = {}
  /\ Move(c, "wantWrite", "writing")

Leave(c) == Move(c, "reading", "leaving") \/ Move(c, "writing", "leaving")
Left(c) == Move(c, "leaving", "idle")

Next == \E c \in Clients :
  AskRead(c) \/ AskWrite(c) \/ GrantRead(c) \/ GrantWrite(c) \/ Leave(c) \/ Left(c)

Spec == Init /\ [][Next]_state
=============================================================================
