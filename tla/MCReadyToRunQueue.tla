-------------------------- MODULE MCReadyToRunQueue --------------------------
(* A queue of a few nodes with two or three producers, for TLC. *)
EXTENDS ReadyToRunQueue, TLC

CONSTANTS A, B, C, D, P, R, S

ThreeTasks == {A, B, C}
FourTasks == {A, B, C, D}
TwoProducers == {P, R}
ThreeProducers == {P, R, S}

SymmetricNodes == Permutations(Task) \union Permutations(Producer)
=============================================================================
