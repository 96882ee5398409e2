--------------------------- MODULE MCSerialCosync ---------------------------
(* A SerialCosync with a few tasks, a waker and two or three actors, for TLC. *)
EXTENDS SerialCosync

CONSTANTS A, B, C, X, H

TwoTasks == {A, B}
ThreeTasks == {A, B, C}
OneWaker == {X}
MineAndInput == {Mine, Input}
ThreeActors == {Mine, H, Input}
=============================================================================
