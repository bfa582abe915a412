---------------------------- MODULE MCDeliveryLock ----------------------------
(***************************************************************************)
(* Three processes with one task each; one of them may end.                *)
(***************************************************************************)
EXTENDS DeliveryLock

CONSTANTS t1, t2, t3, p1, p2, p3

EachItsOwn == [t \in {t1, t2, t3} |-> IF t = t1 THEN p1 ELSE IF t = t2 THEN p2 ELSE p3]
=============================================================================
