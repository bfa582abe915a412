---------------------------- MODULE MCSupervisor ----------------------------
(***************************************************************************)
(* Supervisor with edits and faults enough for a change during the reload  *)
(* of a change, a death during that reload, and a retry that fails.        *)
(***************************************************************************)
EXTENDS Supervisor
=============================================================================
