------------------------ MODULE MCMatchmakingClient ------------------------
(***************************************************************************)
(* The room service and its clients: two rooms that compete for the places *)
(* among the waiting rooms and for one endpoint; the clients of one of     *)
(* them are followed.                                                      *)
(***************************************************************************)
EXTENDS MatchmakingClient
=============================================================================
