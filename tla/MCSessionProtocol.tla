------------------------- MODULE MCSessionProtocol -------------------------
(***************************************************************************)
(* SessionProtocol on two addresses, two handles and a three-row table.    *)
(***************************************************************************)
EXTENDS SessionProtocol, TLC

Symmetry == Permutations(Sessions) \cup Permutations(Handles) \cup Permutations(Contents)
=============================================================================
