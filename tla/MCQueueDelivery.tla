---------------------------- MODULE MCQueueDelivery ----------------------------
(***************************************************************************)
(* A backend and its replacement, which may run at the same time.          *)
(***************************************************************************)
EXTENDS QueueDelivery

CONSTANTS p1, p2, i1

Own == [p \in Pids |-> p]
=============================================================================
