------------------------------ MODULE DuelSim ------------------------------
(***************************************************************************)
(* The two simulations, HarnessSim of src/sim.rs and OpenStrikeDuelSim of  *)
(* src/openstrike.rs: a live tick applies both inputs, A's first, then     *)
(* lets A and B fire.                                                      *)
(*                                                                         *)
(* Abstractions.  Positions decide whether a shot hits and what it takes,  *)
(* which is any blow here; InputStream follows them.  The weapon of        *)
(* OpenStrike (external) rests for its cooldown as that of the harness     *)
(* does, and may also refuse for want of rounds or while it is reloaded.   *)
(* A player is alive while he has health left.                             *)
(***************************************************************************)
EXTENDS Duel

CONSTANTS
  Cooldown,       \* SHOT_COOLDOWN_TICKS
  Harness,        \* HarnessSim, or OpenStrikeDuelSim
  SeqMax          \* input numbers are 0 .. SeqMax

ASSUME SimAssumption == /\ Cooldown \in Nat /\ Cooldown > 1
                        /\ Harness \in BOOLEAN
                        /\ SeqMax \in Nat

VARIABLES
  cool,           \* cool[s]: ticks until the weapon of s may fire
  last            \* last[s]: last_input_sequence

weaponVars == <<cool, last>>
simVars == <<duelVars, weaponVars>>

Frame == [seq : 0 .. SeqMax, fire : BOOLEAN]

SimInit ==
  /\ DuelInit
  /\ cool = [s \in Slots |-> 0]
  /\ last = [s \in Slots |-> 0]

\* saturating_sub, or the maximum with 0.
Left(h, blow) == IF blow >= h THEN 0 ELSE h - blow

-----------------------------------------------------------------------------
(* tick                                                                    *)

\* update_player, apply_input: a dead player's input and an old input are
\* ignored.
Applies(s, frame) == health[s] > 0 /\ frame.seq >= last[s]

\* The harness counts ticks from the last shot; the weapon of OpenStrike is
\* ticked with the input.
Rested(s, frame) ==
  IF (Harness \/ Applies(s, frame)) /\ cool[s] > 0 THEN cool[s] - 1 ELSE cool[s]

ApplyInputs(frames) ==
  last' = [s \in Slots |-> IF Applies(s, frames[s]) THEN frames[s].seq ELSE last[s]]

\* Mutant: a weapon needs no rest.
MayAlwaysFire(frames) == {s \in Slots : frames[s].fire /\ health[s] > 0}

\* fire: who holds the trigger, lives, and has rested.
MayFire(frames) ==
  {s \in Slots : frames[s].fire /\ health[s] > 0 /\ Rested(s, frames[s]) = 0}

\* A fires first, and B only if he and the match outlive it.  A shot that
\* misses is a blow of 0.
Fire(frames, shots, blows) ==
  /\ shots \subseteq MayFire(frames)
  /\ \A s \in Slots : blows[s] # 0 => s \in shots
  /\ "B" \in shots => Left(health["B"], blows["A"]) > 0
  /\ cool' = [s \in Slots |-> IF s \in shots THEN Cooldown ELSE Rested(s, frames[s])]
  /\ health' = [s \in Slots |-> Left(health[s], blows[Opponent(s)])]
  /\ phase' = Verdict(health')
  /\ struck' = blows

Tick(frames) ==
  /\ phase = Live
  /\ ApplyInputs(frames)
  /\ \E shots \in SUBSET Slots, blows \in [Slots -> Blows \cup {0}] :
       Fire(frames, shots, blows)

Down == {s \in Slots : health[s] = 0}

\* The server starts the match, pauses it when the payer is out of invoices,
\* possibly in the tick that kills, and ends it by forfeit.
StartMatch ==
  /\ phase = Waiting
  /\ phase' = Live
  /\ UNCHANGED <<health, struck, weaponVars>>

PauseMatch ==
  /\ phase \in {Live} \cup {PaymentPaused(s) : s \in Slots} \/ Down # {}
  /\ \E payer \in Slots :
       /\ struck[Opponent(payer)] # 0
       /\ phase' = PaymentPaused(payer)
  /\ UNCHANGED <<health, struck, weaponVars>>

ForfeitMatch ==
  /\ phase \notin {Ended(s) : s \in Slots} /\ Down = {}
  /\ \E winner \in Slots : phase' = Ended(winner)
  /\ UNCHANGED <<health, struck, weaponVars>>

SimNext ==
  \/ \E frames \in [Slots -> Frame] : Tick(frames)
  \/ StartMatch \/ PauseMatch \/ ForfeitMatch

SimSpec == SimInit /\ [][SimNext]_simVars

-----------------------------------------------------------------------------
(* Properties                                                              *)

\* The types of the simulation's state; a player who is down has no match
\* going on.
DuelTypeOK ==
  /\ phase \in Phases
  /\ health \in [Slots -> 0 .. Health]
  /\ struck \in [Slots -> Blows \cup {0}]
  /\ cool \in [Slots -> 0 .. Cooldown]
  /\ last \in [Slots -> 0 .. SeqMax]
  /\ phase = Live => \A s \in Slots : health[s] > 0

\* Both simulations, whatever the inputs, keep what Duel promises: nobody
\* strikes in two ticks running or after his fall, a hit on a player with less
\* health than it takes leaves him none, and a match that is over stays over.
ImplementsDuel == DuelSpec
=============================================================================
