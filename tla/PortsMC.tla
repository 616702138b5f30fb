------------------------------ MODULE PortsMC ------------------------------
(***************************************************************************)
(* Finite instances of Ports: a main task with two sons.                   *)
(***************************************************************************)
EXTENDS Ports

\* What the main task and each of its sons may do, with which ports.
World(main, a, b, ports, disciplines, modes, priorities) ==
  [calls |-> [t \in Tasks |-> CASE t = "main" -> main [] t = "a" -> a [] t = "b" -> b],
   ports |-> ports, disciplines |-> disciplines, modes |-> modes, priorities |-> priorities,
   random |-> FALSE, from |-> [m \in Media |-> {"main", "a"}], to |-> [m \in Media |-> {"main", "b"}]]

FIFO == {"FIFO"}
Never == {"never"}
AllWorlds ==
  { World({"send", "receive"}, {"receive", "broadcast", "resend"}, {"receive"}, {"p1", "p2"}, FIFO, Modes, {0}),
    World({"receive"}, {"send"}, {"resend"}, {"p1"}, Disciplines, {"never", "timed"}, {0, 1}),
    World({"pass", "allocate", "release"}, {"send", "receive"}, {"receive", "pass"}, {"p4"}, FIFO, {"never", "timed"}, {0}),
    [World({"receive"}, {"transmit"}, {"receive", "transmit"}, {"p1", "p3"}, FIFO, Never, {0}) EXCEPT !.random = TRUE],
    World({"transmit", "pass", "allocate"}, {"receive"}, {"receive"}, {"p4"}, FIFO, Never, {0}),
    World({"receive", "allocate", "set", "release"}, {"send"}, {}, {"p4", "p5"}, FIFO, {"never", "timed"}, {0}),
    World({"receive", "allocate", "set", "leave"}, {"send"}, {}, {"p4", "p5"}, FIFO, Never, {0}),
    World({"allocate", "set", "releaseMember", "leave", "pass"}, {"send"}, {"pass"}, {"p4", "p5"}, FIFO, Never, {0}) }

Family == [t \in Tasks |-> IF t = "main" THEN None ELSE "main"]
StdPorts == [t \in Tasks |-> CASE t = "main" -> "p1" [] t = "a" -> "p2" [] t = "b" -> "p3"]
=============================================================================
