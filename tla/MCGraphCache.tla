---------------------------- MODULE MCGraphCache ----------------------------
(***************************************************************************)
(* GraphCache with one session, so that the rows of a splice and of a      *)
(* build are the same row and race for it, two versions of each input and  *)
(* one failed producer.                                                    *)
(***************************************************************************)
EXTENDS GraphCache
=============================================================================
