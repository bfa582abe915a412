----------------------------- MODULE MCLaunchQueue -----------------------------
(* Two sessions that can be launched compete for one slot.                  *)
EXTENDS LaunchQueue
=============================================================================
