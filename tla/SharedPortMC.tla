---------------------------- MODULE SharedPortMC ----------------------------
(***************************************************************************)
(* Finite instances of SharedPort.                                         *)
(***************************************************************************)
EXTENDS SharedPort, TLC

Program(gives_up, kills, races) == [gives_up |-> gives_up, kills |-> kills, races |-> races]

\* Users that wait for ever, that give up at a quiet moment, that are killed.
Calm == {Program(FALSE, FALSE, TRUE), Program(TRUE, FALSE, FALSE), Program(FALSE, TRUE, TRUE)}
\* Users that give up while something else goes on.
Racing == {Program(TRUE, FALSE, TRUE)}
=============================================================================
