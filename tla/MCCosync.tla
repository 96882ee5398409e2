------------------------------ MODULE MCCosync ------------------------------
(* A Cosync with a few tasks, wakers and queue handles, for TLC. *)
EXTENDS Cosync

CONSTANTS A, B, X, H

TwoTasks == {A, B}
OneWaker == {X}
NoWaker == {}
HandleAndInput == {H, Input}
OnlyInput == {Input}
=============================================================================
