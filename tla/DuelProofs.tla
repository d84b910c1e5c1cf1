----------------------------- MODULE DuelProofs -----------------------------
(***************************************************************************)
(* Both simulations keep their types and implement Duel, for every health, *)
(* cooldown and set of blows.                                              *)
(*                                                                         *)
(* The invariant adds to the types what the two facts need: nobody is down *)
(* before the match is live, and who struck in the last live tick has a    *)
(* weapon that has not rested at all since.                                *)
(***************************************************************************)
EXTENDS DuelSim, TLAPS

DInv ==
  /\ DuelTypeOK
  /\ phase = Waiting => \A s \in Slots : health[s] > 0
  /\ \A s \in Slots : struck[s] # 0 => cool[s] = Cooldown

\* The phases differ.
LEMMA PhasesDiffer ==
  /\ Waiting \in Phases /\ Live \in Phases /\ Waiting # Live
  /\ \A s \in Slots : /\ PaymentPaused(s) \in Phases \ {Waiting, Live}
                      /\ Ended(s) \in Phases \ {Waiting, Live}
<1>1. Waiting # Live
  BY DEF Waiting, Live
<1>2. \A s \in Slots : PaymentPaused(s) \notin {Waiting, Live}
  BY DEF Waiting, Live, PaymentPaused
<1>3. \A s \in Slots : Ended(s) \notin {Waiting, Live}
  BY DEF Waiting, Live, Ended
<1> QED
  BY <1>1, <1>2, <1>3 DEF Phases

\* What a blow leaves is at most what there was.
LEMMA LeftBounded ==
  ASSUME NEW h \in 0 .. Health, NEW b \in Blows \cup {0}
  PROVE  Left(h, b) \in 0 .. Health
BY DuelAssumption DEF Left

\* A resting weapon rests by one tick at a time.
LEMMA RestedBounded ==
  ASSUME DuelTypeOK, NEW s \in Slots, NEW f \in Frame
  PROVE  /\ Rested(s, f) \in 0 .. Cooldown
         /\ Rested(s, f) \in {cool[s], cool[s] - 1}
<1>1. cool[s] \in 0 .. Cooldown
  BY DEF DuelTypeOK
<1> QED
  BY <1>1, SimAssumption DEF Rested

\* The verdict on two healths is Live or the end of the match, and Live only
\* if nobody is down.
LEMMA VerdictRight ==
  ASSUME NEW h \in [Slots -> 0 .. Health]
  PROVE  /\ Verdict(h) \in Phases
         /\ Verdict(h) # Waiting
         /\ Verdict(h) = Live => \A s \in Slots : h[s] > 0
<1>1. "A" \in Slots /\ "B" \in Slots /\ h["A"] \in Nat /\ h["B"] \in Nat
  BY DuelAssumption DEF Slots
<1>2. CASE h["B"] = 0
  BY <1>1, <1>2, PhasesDiffer DEF Verdict
<1>3. CASE h["B"] # 0 /\ h["A"] = 0
  BY <1>1, <1>3, PhasesDiffer DEF Verdict
<1>4. CASE h["B"] # 0 /\ h["A"] # 0
  BY <1>1, <1>4, PhasesDiffer DEF Verdict, Slots
<1> QED
  BY <1>2, <1>3, <1>4

LEMMA DuelStarts == SimInit => DInv
BY DuelAssumption, SimAssumption, PhasesDiffer
   DEF SimInit, DuelInit, DInv, DuelTypeOK, NoBlows

\* A live tick keeps the invariant.
LEMMA TickKeeps ==
  ASSUME DInv, NEW frames \in [Slots -> Frame], Tick(frames)
  PROVE  DInv'
<1> USE DuelAssumption, SimAssumption
<1>1. PICK shots \in SUBSET Slots, blows \in [Slots -> Blows \cup {0}] :
        Fire(frames, shots, blows)
  BY DEF Tick
<1>2. ASSUME NEW s \in Slots
      PROVE  /\ frames[s] \in Frame /\ Opponent(s) \in Slots
             /\ health[s] \in 0 .. Health /\ blows[s] \in Blows \cup {0}
  BY DEF DInv, DuelTypeOK, Opponent, Slots
<1>3. health' \in [Slots -> 0 .. Health]
  BY <1>1, <1>2, LeftBounded DEF Fire
<1>4. struck' \in [Slots -> Blows \cup {0}]
  BY <1>1 DEF Fire
<1>5. cool' \in [Slots -> 0 .. Cooldown]
  BY <1>1, <1>2, RestedBounded DEF Fire, DInv
<1>6. last' \in [Slots -> 0 .. SeqMax]
  BY <1>2 DEF Tick, ApplyInputs, DInv, DuelTypeOK, Frame
<1>7. /\ phase' \in Phases /\ phase' # Waiting
      /\ phase' = Live => \A s \in Slots : health'[s] > 0
  BY <1>1, <1>3, VerdictRight DEF Fire
<1>8. \A s \in Slots : struck'[s] # 0 => cool'[s] = Cooldown
  BY <1>1 DEF Fire
<1> QED
  BY <1>3, <1>4, <1>5, <1>6, <1>7, <1>8 DEF DInv, DuelTypeOK

\* The server's changes of the phase keep it.
LEMMA PhaseKeeps ==
  ASSUME DInv, StartMatch \/ PauseMatch \/ ForfeitMatch
  PROVE  DInv'
<1>1. UNCHANGED <<health, struck, cool, last>>
  BY DEF StartMatch, PauseMatch, ForfeitMatch, weaponVars
<1>2. CASE StartMatch
  BY <1>1, <1>2, PhasesDiffer DEF StartMatch, DInv, DuelTypeOK
<1>3. CASE PauseMatch
  BY <1>1, <1>3, PhasesDiffer DEF PauseMatch, DInv, DuelTypeOK
<1>4. CASE ForfeitMatch
  BY <1>1, <1>4, PhasesDiffer DEF ForfeitMatch, DInv, DuelTypeOK
<1> QED
  BY <1>2, <1>3, <1>4

LEMMA DuelSteps == DInv /\ [SimNext]_simVars => DInv'
<1> SUFFICES ASSUME DInv, [SimNext]_simVars PROVE DInv'
  OBVIOUS
<1>1. CASE \E frames \in [Slots -> Frame] : Tick(frames)
  BY <1>1, TickKeeps
<1>2. CASE StartMatch \/ PauseMatch \/ ForfeitMatch
  BY <1>2, PhaseKeeps
<1>3. CASE UNCHANGED simVars
  BY <1>3 DEF simVars, duelVars, weaponVars, DInv, DuelTypeOK
<1> QED
  BY <1>1, <1>2, <1>3 DEF SimNext

\* The inductive invariant of the simulations.
THEOREM DuelInductive == SimSpec => []DInv
BY DuelStarts, DuelSteps, PTL DEF SimSpec

\* The simulation's state keeps its types, and while a match is live nobody is
\* down (tick, fire, set_phase).
THEOREM DuelTypeCorrect == SimSpec => []DuelTypeOK
<1>1. DInv => DuelTypeOK
  BY DEF DInv
<1> QED
  BY <1>1, DuelInductive, PTL

-----------------------------------------------------------------------------
(* Each step of a simulation is a step of Duel                             *)

\* Who struck in the last live tick cannot strike in this one.
LEMMA RestsAfterBlow ==
  ASSUME DInv, NEW frames \in [Slots -> Frame], NEW s \in MayFire(frames)
  PROVE  struck[s] = 0
<1>1. s \in Slots /\ Rested(s, frames[s]) = 0
  BY DEF MayFire
<1>2. cool[s] \in {0, 1}
  BY <1>1, RestedBounded, SimAssumption DEF DInv, DuelTypeOK
<1> QED
  BY <1>1, <1>2, SimAssumption DEF DInv

LEMMA TickStrikes ==
  ASSUME DInv, NEW frames \in [Slots -> Frame], Tick(frames)
  PROVE  \E blows \in [Slots -> Blows \cup {0}] : Strike(blows)
<1>1. PICK shots \in SUBSET Slots, blows \in [Slots -> Blows \cup {0}] :
        Fire(frames, shots, blows)
  BY DEF Tick
<1>2. phase = Live
  BY DEF Tick
<1>3. \A s \in Slots : struck[s] # 0 => blows[s] = 0
  BY <1>1, RestsAfterBlow DEF Fire
<1>4. blows["B"] # 0 => Reduced(health["B"], blows["A"]) # 0
  BY <1>1 DEF Fire, Reduced, Left, Slots
<1>5. /\ health' = [s \in Slots |-> Reduced(health[s], blows[Opponent(s)])]
      /\ phase' = Verdict(health') /\ struck' = blows
  BY <1>1 DEF Fire, Reduced, Left
<1> QED
  BY <1>2, <1>3, <1>4, <1>5 DEF Strike

LEMMA PhaseSets ==
  ASSUME StartMatch \/ PauseMatch \/ ForfeitMatch
  PROVE  \E p \in Phases : SetPhase(p)
<1>1. CASE StartMatch
  BY <1>1, PhasesDiffer DEF StartMatch, SetPhase
<1>2. CASE PauseMatch
  BY <1>2, PhasesDiffer DEF PauseMatch, SetPhase
<1>3. CASE ForfeitMatch
  BY <1>3, PhasesDiffer DEF ForfeitMatch, SetPhase
<1> QED
  BY <1>1, <1>2, <1>3

LEMMA StepImplements == DInv /\ [SimNext]_simVars => [DuelNext]_duelVars
<1> SUFFICES ASSUME DInv, [SimNext]_simVars PROVE [DuelNext]_duelVars
  OBVIOUS
<1>1. CASE \E frames \in [Slots -> Frame] : Tick(frames)
  BY <1>1, TickStrikes DEF DuelNext
<1>2. CASE StartMatch \/ PauseMatch \/ ForfeitMatch
  BY <1>2, PhaseSets DEF DuelNext
<1>3. CASE UNCHANGED simVars
  BY <1>3 DEF simVars
<1> QED
  BY <1>1, <1>2, <1>3 DEF SimNext

\* Both simulations implement the duel, whatever the inputs, the weapons and
\* the server's changes of the phase.
THEOREM DuelImplemented == SimSpec => ImplementsDuel
<1>1. SimInit => DuelInit
  BY DEF SimInit
<1> QED
  BY <1>1, StepImplements, DuelInductive, PTL DEF SimSpec, DuelSpec, ImplementsDuel
=============================================================================
