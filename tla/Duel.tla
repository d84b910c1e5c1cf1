-------------------------------- MODULE Duel --------------------------------
(***************************************************************************)
(* What a match simulation promises the server, whichever one it runs: in  *)
(* a live tick each player deals at most one blow, A before B, nobody      *)
(* strikes in two ticks running, and who falls has lost and does not       *)
(* strike back.                                                            *)
(***************************************************************************)
EXTENDS Integers

CONSTANTS
  Health,         \* what a player starts with
  Blows           \* what a hit takes

ASSUME DuelAssumption == Health \in Nat \ {0} /\ Blows \subseteq Nat \ {0}

VARIABLES
  phase,
  health,
  struck          \* struck[s]: the blow of s in the last live tick, 0 for none

duelVars == <<phase, health, struck>>

Slots == {"A", "B"}
Opponent(s) == IF s = "A" THEN "B" ELSE "A"

Waiting == <<"Waiting", "">>
Live == <<"Live", "">>
PaymentPaused(payer) == <<"PaymentPaused", payer>>
Ended(winner) == <<"Ended", winner>>

Phases == {Waiting, Live} \cup {PaymentPaused(s) : s \in Slots}
          \cup {Ended(s) : s \in Slots}

NoBlows == [s \in Slots |-> 0]

DuelInit ==
  /\ phase = Waiting
  /\ health = [s \in Slots |-> Health]
  /\ struck = NoBlows

Reduced(h, blow) == IF blow >= h THEN 0 ELSE h - blow

Verdict(h) == IF h["B"] = 0 THEN Ended("A") ELSE IF h["A"] = 0 THEN Ended("B") ELSE Live

Strike(blows) ==
  /\ phase = Live
  /\ \A s \in Slots : struck[s] # 0 => blows[s] = 0
  /\ blows["B"] # 0 => Reduced(health["B"], blows["A"]) # 0
  /\ health' = [s \in Slots |-> Reduced(health[s], blows[Opponent(s)])]
  /\ phase' = Verdict(health')
  /\ struck' = blows

\* set_phase, as the server calls it: a match that is over, or paused, does
\* not go on.
SetPhase(p) ==
  /\ p = Live => phase = Waiting
  /\ p # Waiting
  /\ phase' = p
  /\ UNCHANGED <<health, struck>>

DuelNext ==
  \/ \E blows \in [Slots -> Blows \cup {0}] : Strike(blows)
  \/ \E p \in Phases : SetPhase(p)

DuelSpec == DuelInit /\ [][DuelNext]_duelVars
=============================================================================
