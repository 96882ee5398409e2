---------------------------- MODULE MCBlockingRun ----------------------------
(* A run_blocking with a few tasks and waking threads, for TLC. *)
EXTENDS BlockingRun

CONSTANTS A, B, X, Y

TwoTasks == {A, B}
TwoThreads == {X, Y, Self}
=============================================================================
