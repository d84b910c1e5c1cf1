----------------------------- MODULE MCDuelSim -----------------------------
(***************************************************************************)
(* A duel in which a blow may take more than the victim has left.          *)
(***************************************************************************)
EXTENDS DuelSim
=============================================================================
