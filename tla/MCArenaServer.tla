---------------------------- MODULE MCArenaServer ---------------------------
(***************************************************************************)
(* ArenaServer on small instances.  Which messages the coordinator turns   *)
(* away is checked with Settlement alone: here every reference is right.   *)
(***************************************************************************)
EXTENDS ArenaServer

MCRefs == {[match |-> MatchId, id |-> r, hash |-> r] : r \in Ids}
=============================================================================
