---------------------------- MODULE MCWatchNotices ----------------------------
(***************************************************************************)
(* Two watchers, the parent and one that may subscribe or become the       *)
(* parent; the backend and one command run their series side by side.      *)
(***************************************************************************)
EXTENDS WatchNotices

CONSTANTS w1, w2, backend, cli
=============================================================================
