---------------------------- MODULE MCStoreCutover ----------------------------
(* A tree of two sessions with all they can hold, one with a directory     *)
(* that is no session, and none.                                           *)
EXTENDS StoreCutover

Whole == <<{"envelope", "timeline", "pending"}, {"envelope", "timeline"}>>
Stray == <<{"timeline", "pending"}, {"envelope", "timeline"}>>
SomeTrees == {Whole, Stray, <<{}, {}>>}
=============================================================================
