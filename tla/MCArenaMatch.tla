---------------------------- MODULE MCArenaMatch ----------------------------
(***************************************************************************)
(* ArenaMatch on a small instance: one reservation for each seat, a        *)
(* headless client at seat A and a desktop client at seat B.               *)
(***************************************************************************)
EXTENDS ArenaMatch

MCHolds == Ids
MCRefs == {Ref(r) : r \in Ids}

\* A node with a usable channel that can send the cap, and one without.
Channel(usable, balance) == [usable |-> usable, balance |-> balance]
PayingChannels == <<Channel(TRUE, 0), Channel(FALSE, 2), Channel(TRUE, 1)>>
EmptyChannels == <<Channel(TRUE, 0), Channel(FALSE, 2)>>

MCChannelLists == {PayingChannels, EmptyChannels}
MCPayingLists == {PayingChannels}
=============================================================================
