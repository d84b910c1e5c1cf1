---------------------------- MODULE MCSettlement ----------------------------
(***************************************************************************)
(* Settlement on small instances.  A message names any reservation of      *)
(* RefIds correctly, or is wrong in its match, its reservation or its hash.*)
(***************************************************************************)
EXTENDS Settlement

CONSTANTS RefIds, OtherMatch

MCRightRefs == {[match |-> MatchId, id |-> r, hash |-> r] : r \in RefIds}

MCRefs ==
  MCRightRefs
    \cup {[match |-> OtherMatch, id |-> 0, hash |-> 0],
          [match |-> MatchId, id |-> 2 * PerPlayer, hash |-> 0],
          [match |-> MatchId, id |-> 0, hash |-> 1]}
=============================================================================
