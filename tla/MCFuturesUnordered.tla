------------------------- MODULE MCFuturesUnordered -------------------------
(* A pool of a few tasks and a few outstanding wakers, for TLC. *)
EXTENDS FuturesUnordered

CONSTANTS A, B, X, Y

TwoTasks == {A, B}
OneWaker == {X}
TwoWakers == {X, Y}
=============================================================================
