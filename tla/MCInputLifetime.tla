--------------------------- MODULE MCInputLifetime ---------------------------
(* The owner of a Cosync with a few tasks and a handle, for TLC. *)
EXTENDS InputLifetime, TLC

CONSTANTS A, B, C, H

ThreeTasks == {A, B, C}
TwoTasks == {A, B}

OneHandle == {H}
NoHandle == {}

Symmetric == Permutations(Task)
=============================================================================
