---------------------------- MODULE MCMatchmaker ----------------------------
(***************************************************************************)
(* Matchmaker on small instances: the room service alone.                  *)
(***************************************************************************)
EXTENDS Matchmaker
=============================================================================
