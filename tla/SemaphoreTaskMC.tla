-------------------------- MODULE SemaphoreTaskMC --------------------------
(***************************************************************************)
(* Finite instances of SemaphoreTask: with free tokens, the signals may be *)
(* synchronous or not, and the wait entry may have a second phase; with    *)
(* taken ones, as many clients as tokens signal first.                     *)
(***************************************************************************)
EXTENDS SemaphoreTask

First == CHOOSE c \in Clients : TRUE
Second == CHOOSE c \in Clients \ {First} : TRUE
World(full, second, async) ==
  [full |-> full, second |-> second, async |-> async, openers |-> IF full THEN {} ELSE {First, Second}]
AllWorlds == {World(TRUE, second, async) : second \in BOOLEAN, async \in BOOLEAN} \cup {World(FALSE, FALSE, FALSE), World(FALSE, FALSE, TRUE)}
TakenWorld == {World(FALSE, TRUE, FALSE)}
=============================================================================
