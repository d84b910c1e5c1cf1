-------------------------- MODULE SettlementProofs --------------------------
(***************************************************************************)
(* Theorems about the settlement coordinator, for any number of            *)
(* reservations, any price and bucket, and any messages and hits.          *)
(***************************************************************************)
EXTENDS Settlement, FiniteSetTheorems, TLAPS

-----------------------------------------------------------------------------
(* Counting reservations                                                   *)

\* The match has finitely many reservations, PerPlayer of them per payer.
LEMMA IdsFinite ==
  /\ IsFiniteSet(Ids)
  /\ \A p \in Slots : IsFiniteSet(IdsOf(p)) /\ Cardinality(IdsOf(p)) = PerPlayer
<1> USE SettlementAssumption
<1>1. IsFiniteSet(Ids)
  BY FS_Interval DEF Ids
<1>2. IdsOf("A") = 0 .. (PerPlayer - 1)
  BY DEF IdsOf, Ids, Payer
<1>3. IdsOf("B") = PerPlayer .. (2 * PerPlayer - 1)
  BY DEF IdsOf, Ids, Payer
<1>4. IsFiniteSet(IdsOf("A")) /\ Cardinality(IdsOf("A")) = PerPlayer
  BY <1>2, FS_Interval
<1>5. IsFiniteSet(IdsOf("B")) /\ Cardinality(IdsOf("B")) = PerPlayer
  <2>1. /\ IsFiniteSet(PerPlayer .. (2 * PerPlayer - 1))
        /\ Cardinality(PerPlayer .. (2 * PerPlayer - 1))
             = IF PerPlayer > 2 * PerPlayer - 1 THEN 0
               ELSE 2 * PerPlayer - 1 - PerPlayer + 1
    BY FS_Interval
  <2> QED
    BY <2>1, <1>3
<1> QED
  BY <1>1, <1>4, <1>5 DEF Slots

\* Any set of reservations is finite and has a size.
LEMMA IdSubset ==
  ASSUME NEW R \in SUBSET Ids
  PROVE  IsFiniteSet(R) /\ Cardinality(R) \in Nat
BY IdsFinite, FS_Subset, FS_CardinalityType

\* Adding reservations to disjoint ones adds up their numbers.
LEMMA DisjointCount ==
  ASSUME NEW S \in SUBSET Ids, NEW R \in SUBSET Ids, S \cap R = {}
  PROVE  Cardinality(S \cup R) = Cardinality(S) + Cardinality(R)
<1>1. /\ IsFiniteSet(S) /\ Cardinality(S) \in Nat
      /\ IsFiniteSet(R) /\ Cardinality(R) \in Nat
  BY IdSubset
<1>2. Cardinality(S \cup R)
        = Cardinality(S) + Cardinality(R) - Cardinality(S \cap R)
  BY <1>1, FS_Union
<1>3. Cardinality(S \cap R) = 0
  BY FS_EmptySet
<1> QED
  BY <1>1, <1>2, <1>3

\* The product of two naturals is one, and does not decrease with a factor.
LEMMA ProductNat ==
  ASSUME NEW a \in Nat, NEW x \in Nat
  PROVE  a * x \in Nat
OBVIOUS

\* A product does not decrease when a factor grows.
LEMMA ProductMonotone ==
  ASSUME NEW a \in Nat, NEW x \in Nat, NEW y \in Nat, x <= y
  PROVE  a * x <= a * y
OBVIOUS

\* Multiplication distributes over the reservations of two hits.
LEMMA ProductSum ==
  ASSUME NEW a \in Nat, NEW x \in Nat, NEW y \in Nat
  PROVE  a * (x + y) = a * x + a * y
OBVIOUS

-----------------------------------------------------------------------------
(* Type correctness                                                        *)

\* A hit leaves a 16-bit remainder and releases a set of the victim's held
\* reservations.
LEMMA DamageShape ==
  ASSUME TypeOK, NEW victim \in Slots, NEW damage \in Nat,
         NEW R \in SUBSET HeldBy(victim),
         Taken(victim, SaturatingAdd(remainder[victim], damage), R)
  PROVE  /\ R \subseteq IdsOf(victim) /\ IdsOf(victim) \subseteq Ids
         /\ Cardinality(R) \in Nat
         /\ Bucket * Cardinality(R) \in Nat
         /\ Amount * Cardinality(R) \in Nat
         /\ LeftAfter(SaturatingAdd(remainder[victim], damage), R)
              \in 0 .. U16Max
<1> DEFINE total == SaturatingAdd(remainder[victim], damage)
<1>1. R \subseteq IdsOf(victim) /\ IdsOf(victim) \subseteq Ids
  BY DEF HeldBy, IdsOf
<1>2. Cardinality(R) \in Nat
  BY <1>1, IdSubset
<1>3. Bucket * Cardinality(R) \in Nat /\ Amount * Cardinality(R) \in Nat
  BY <1>2, ProductNat, SettlementAssumption
<1>4. total \in 0 .. U16Max
  BY SettlementAssumption DEF SaturatingAdd, TypeOK
<1>5. LeftAfter(total, R) >= 0
  BY DEF Taken
<1>6. LeftAfter(total, R) \in 0 .. U16Max
  BY <1>3, <1>4, <1>5, SettlementAssumption DEF LeftAfter
<1> QED
  BY <1>1, <1>2, <1>3, <1>6

\* The coordinator new() builds is well typed.
LEMMA InitTypeOK == Init => TypeOK
BY SettlementAssumption DEF Init, TypeOK, Statuses, Slots

\* record_damage keeps the types of the fields it writes.
LEMMA RecordDamageTypeOK ==
  ASSUME TypeOK, NEW victim \in Slots, NEW damage \in Damages,
         RecordDamage(victim, damage)
  PROVE  TypeOK'
<1> DEFINE total == SaturatingAdd(remainder[victim], damage)
<1>1. PICK R \in SUBSET HeldBy(victim) :
         /\ Taken(victim, total, R)
         /\ remainder' = [remainder EXCEPT ![victim] = LeftAfter(total, R)]
         /\ nextSequence' = nextSequence + Cardinality(R)
         /\ releasedTotal' = [releasedTotal EXCEPT
                                ![victim] = @ + Amount * Cardinality(R)]
         /\ status' = [r \in Ids |-> IF r \in R THEN "Released" ELSE status[r]]
         /\ signed' = [r \in Ids |->
                         IF r \in R
                         THEN nextSequence + Cardinality({q \in R : q < r})
                         ELSE signed[r]]
         /\ handed' = IF CapReached(total, R) THEN handed ELSE handed \cup R
         /\ damageTaken' = [damageTaken EXCEPT ![victim] = @ + damage]
         /\ UNCHANGED <<invoice, payerFunded, payeeReceived, cancelAsked>>
  BY DEF RecordDamage
<1>2. damage \in Nat
  BY SettlementAssumption
<1>3. /\ R \subseteq Ids
      /\ Cardinality(R) \in Nat
      /\ Amount * Cardinality(R) \in Nat
      /\ LeftAfter(total, R) \in 0 .. U16Max
  BY <1>1, <1>2, DamageShape
<1>4. \A r \in R : Cardinality({q \in R : q < r}) \in Nat
  <2> SUFFICES ASSUME NEW r \in R
               PROVE  Cardinality({q \in R : q < r}) \in Nat
    OBVIOUS
  <2> {q \in R : q < r} \in SUBSET Ids
    BY <1>3
  <2> QED
    BY IdSubset
<1>5. status' \in [Ids -> Statuses]
  BY <1>1 DEF TypeOK, Statuses
<1>6. signed' \in [Ids -> Nat]
  BY <1>1, <1>4 DEF TypeOK
<1>7. remainder' \in [Slots -> 0 .. U16Max]
  BY <1>1, <1>3 DEF TypeOK
<1>8. releasedTotal' \in [Slots -> Nat] /\ damageTaken' \in [Slots -> Nat]
  BY <1>1, <1>2, <1>3 DEF TypeOK
<1>9. nextSequence' \in Nat \ {0}
  BY <1>1, <1>3 DEF TypeOK
<1> QED
  BY <1>1, <1>3, <1>5, <1>6, <1>7, <1>8, <1>9 DEF TypeOK

\* So does every message and every call of the game loop.
LEMMA StepTypeOK == TypeOK /\ [Next]_vars => TypeOK'
<1> SUFFICES ASSUME TypeOK, [Next]_vars
             PROVE  TypeOK'
  OBVIOUS
<1>1. ASSUME NEW sender \in Slots, NEW ref \in Refs, NEW inv \in Invoices,
             RegisterInvoiceOffer(sender, ref, inv)
      PROVE  TypeOK'
  BY <1>1 DEF RegisterInvoiceOffer, NewOffer, TypeOK, Statuses, vars,
              reservationVars, ledgerVars, historyVars
<1>2. ASSUME NEW sender \in Slots, NEW ref \in Refs, NEW stage \in Stages,
             Acknowledge(sender, ref, stage)
      PROVE  TypeOK'
  <2>1. CASE ~AckAccepted(sender, ref, stage)
    BY <1>2, <2>1 DEF Acknowledge, TypeOK, vars,
                      reservationVars, ledgerVars, historyVars
  <2>2. CASE AckAccepted(sender, ref, stage)
    <3>1. /\ ref.id \in Ids
          /\ UNCHANGED <<invoice, ledgerVars, historyVars>>
      BY <1>2, <2>2 DEF Acknowledge, AckAccepted, ValidReference
    <3>2. ASSUME NEW funded \in BOOLEAN, NEW received \in BOOLEAN,
                 RecordReadiness(ref.id, funded, received)
          PROVE  TypeOK'
      BY <3>1, <3>2 DEF RecordReadiness, TypeOK, Statuses,
                        ledgerVars, historyVars
    <3>3. CASE /\ stage \in {"Settled", "Cancelled"}
               /\ status' = [status EXCEPT ![ref.id] = stage]
               /\ UNCHANGED <<payerFunded, payeeReceived>>
      BY <3>1, <3>3 DEF TypeOK, Statuses, ledgerVars, historyVars
    <3>4. payerFunded[ref.id] \in BOOLEAN /\ payeeReceived[ref.id] \in BOOLEAN
      BY <3>1 DEF TypeOK
    <3> QED
      BY <1>2, <2>2, <3>2, <3>3, <3>4 DEF Acknowledge
  <2> QED
    BY <2>1, <2>2
<1>3. ASSUME NEW sender \in Slots, NEW ref \in Refs, NEW stage \in Stages,
             RecordFailure(sender, ref, stage)
      PROVE  TypeOK'
  BY <1>3 DEF RecordFailure, TypeOK, Statuses, vars,
              reservationVars, ledgerVars, historyVars
<1>4. ASSUME NEW victim \in Slots, NEW damage \in Damages,
             RecordDamage(victim, damage)
      PROVE  TypeOK'
  BY <1>4, RecordDamageTypeOK
<1>5. CASE CancelUnused
  BY <1>5 DEF CancelUnused, Unused, TypeOK, Statuses, ledgerVars
<1>6. CASE UNCHANGED vars
  BY <1>6 DEF TypeOK, vars, reservationVars, ledgerVars, historyVars
<1> QED
  BY <1>1, <1>2, <1>3, <1>4, <1>5, <1>6 DEF Next, PlayerMessage, Hit

\* The coordinator's fields keep their types whatever the players send.
THEOREM TypeCorrect == Spec => []TypeOK
BY InitTypeOK, StepTypeOK, PTL DEF Spec

-----------------------------------------------------------------------------
(* The status of a reservation and its history                             *)

\* new() builds reservations no one has reported on.
LEMMA InitSound == Init => \A r \in Ids : StatusSound(r)
BY DEF Init, StatusSound

\* An offer stores an invoice that no one has reported on yet.
LEMMA OfferSound ==
  ASSUME TypeOK, \A r \in Ids : StatusSound(r),
         NEW sender \in Slots, NEW ref \in Refs, NEW inv \in Invoices,
         RegisterInvoiceOffer(sender, ref, inv)
  PROVE  \A r \in Ids : StatusSound(r)'
<1> SUFFICES ASSUME NEW r \in Ids
             PROVE  StatusSound(r)'
  OBVIOUS
<1>0. StatusSound(r)
  OBVIOUS
<1>1. CASE UNCHANGED vars
  BY <1>0, <1>1 DEF StatusSound, vars, reservationVars, ledgerVars, historyVars
<1>2. CASE /\ NewOffer(sender, ref, inv)
           /\ RegisterInvoiceOffer(sender, ref, inv)
  <2>1. /\ ref.id \in Ids
        /\ status[ref.id] = "AwaitingInvoice"
        /\ inv # NoInvoice
    BY <1>2, SettlementAssumption DEF NewOffer, ValidReference
  <2>2. /\ invoice' = [invoice EXCEPT ![ref.id] = inv]
        /\ status' = [status EXCEPT ![ref.id] = "Offered"]
        /\ UNCHANGED <<payerFunded, payeeReceived, signed, cancelAsked>>
    BY <1>2 DEF RegisterInvoiceOffer, historyVars
  <2> QED
    BY <1>0, <2>1, <2>2 DEF StatusSound, TypeOK
<1> QED
  BY <1>1, <1>2 DEF RegisterInvoiceOffer

\* An acknowledgement only moves the reservation it names along its life cycle.
LEMMA AckSound ==
  ASSUME TypeOK, \A r \in Ids : StatusSound(r),
         NEW sender \in Slots, NEW ref \in Refs, NEW stage \in Stages,
         Acknowledge(sender, ref, stage)
  PROVE  \A r \in Ids : StatusSound(r)'
<1> SUFFICES ASSUME NEW r \in Ids
             PROVE  StatusSound(r)'
  OBVIOUS
<1>0. StatusSound(r)
  OBVIOUS
<1>1. CASE UNCHANGED vars
  BY <1>0, <1>1 DEF StatusSound, vars, reservationVars, ledgerVars, historyVars
<1>3. CASE /\ AckAccepted(sender, ref, stage)
           /\ Acknowledge(sender, ref, stage)
  <2>1. /\ ref.id \in Ids
        /\ stage \in {"Funded", "Received"} => invoice[ref.id] # NoInvoice
        /\ status[ref.id] \in Accepting(stage)
        /\ UNCHANGED <<invoice, signed, cancelAsked>>
    BY <1>3 DEF Acknowledge, AckAccepted, ValidReference, historyVars
  <2>2. CASE stage = "Funded"
    <3>1. /\ payerFunded' = [payerFunded EXCEPT ![ref.id] = TRUE]
          /\ payeeReceived'
               = [payeeReceived EXCEPT ![ref.id] = payeeReceived[ref.id]]
          /\ status' = [status EXCEPT ![ref.id] =
                          IF payeeReceived[ref.id] THEN "Held" ELSE @]
      BY <1>3, <2>2 DEF Acknowledge, RecordReadiness
    <3>2. status[ref.id] \in {"Offered", "Held"}
      BY <2>1, <2>2 DEF Accepting
    <3> QED
      BY <1>0, <2>1, <2>2, <3>1, <3>2 DEF StatusSound, TypeOK
  <2>3. CASE stage = "Received"
    <3>1. /\ payerFunded'
               = [payerFunded EXCEPT ![ref.id] = payerFunded[ref.id]]
          /\ payeeReceived' = [payeeReceived EXCEPT ![ref.id] = TRUE]
          /\ status' = [status EXCEPT ![ref.id] =
                          IF payerFunded[ref.id] THEN "Held" ELSE @]
      BY <1>3, <2>3 DEF Acknowledge, RecordReadiness
    <3>2. status[ref.id] \in {"AwaitingInvoice", "Offered", "Held"}
      BY <2>1, <2>3 DEF Accepting
    <3> QED
      BY <1>0, <2>1, <2>3, <3>1, <3>2 DEF StatusSound, TypeOK
  <2>4. CASE stage \in {"Settled", "Cancelled"}
    <3>1. /\ status' = [status EXCEPT ![ref.id] = stage]
          /\ UNCHANGED <<payerFunded, payeeReceived>>
      BY <1>3, <2>4 DEF Acknowledge
    <3>2. \/ stage = "Settled" /\ status[ref.id] \in {"Released", "Settled"}
          \/ stage = "Cancelled"
               /\ status[ref.id] \in {"CancelPending", "Cancelled"}
      BY <2>1, <2>4 DEF Accepting
    <3> QED
      BY <1>0, <2>1, <3>1, <3>2 DEF StatusSound, TypeOK
  <2> QED
    BY <2>2, <2>3, <2>4 DEF Stages
<1> QED
  BY <1>1, <1>3 DEF Acknowledge

\* A failure keeps what the reservation's history says, whatever its status was.
LEMMA FailureSound ==
  ASSUME TypeOK, \A r \in Ids : StatusSound(r),
         NEW sender \in Slots, NEW ref \in Refs, NEW stage \in Stages,
         RecordFailure(sender, ref, stage)
  PROVE  \A r \in Ids : StatusSound(r)'
<1> SUFFICES ASSUME NEW r \in Ids
             PROVE  StatusSound(r)'
  OBVIOUS
<1>0. StatusSound(r)
  OBVIOUS
<1>1. CASE UNCHANGED vars
  BY <1>0, <1>1 DEF StatusSound, vars, reservationVars, ledgerVars, historyVars
<1>4. CASE /\ FailureRecorded(sender, ref, stage)
           /\ RecordFailure(sender, ref, stage)
  <2>1. /\ ref.id \in Ids
        /\ status' = [status EXCEPT ![ref.id] = "Failed"]
        /\ UNCHANGED <<invoice, payerFunded, payeeReceived, signed, cancelAsked>>
    BY <1>4 DEF RecordFailure, FailureRecorded, ValidReference, historyVars
  <2> QED
    BY <1>0, <2>1 DEF StatusSound, TypeOK
<1> QED
  BY <1>1, <1>4 DEF RecordFailure

\* A hit signs for reservations that are held, and for no other.
LEMMA DamageSound ==
  ASSUME TypeOK, \A r \in Ids : StatusSound(r),
         NEW victim \in Slots, NEW damage \in Damages,
         RecordDamage(victim, damage)
  PROVE  \A r \in Ids : StatusSound(r)'
<1>1. PICK R \in SUBSET HeldBy(victim) :
         /\ status' = [r \in Ids |-> IF r \in R THEN "Released" ELSE status[r]]
         /\ signed' = [r \in Ids |->
                         IF r \in R
                         THEN nextSequence + Cardinality({q \in R : q < r})
                         ELSE signed[r]]
         /\ UNCHANGED <<invoice, payerFunded, payeeReceived, cancelAsked>>
  BY DEF RecordDamage
<1>2. \A r \in R : status[r] = "Held"
  BY DEF HeldBy
<1> SUFFICES ASSUME NEW r \in Ids
             PROVE  StatusSound(r)'
  OBVIOUS
<1>3. CASE r \in R
  BY <1>1, <1>2, <1>3 DEF StatusSound
<1>4. CASE r \notin R
  BY <1>1, <1>4 DEF StatusSound
<1> QED
  BY <1>3, <1>4

\* cancel_unused takes reservations nothing was signed for.
LEMMA CancelSound ==
  ASSUME TypeOK, \A r \in Ids : StatusSound(r), CancelUnused
  PROVE  \A r \in Ids : StatusSound(r)'
BY DEF CancelUnused, Unused, StatusSound

\* Every step keeps the status of every reservation in line with its history.
LEMMA StepSound ==
  TypeOK /\ (\A r \in Ids : StatusSound(r)) /\ [Next]_vars
    => \A r \in Ids : StatusSound(r)'
<1> SUFFICES ASSUME TypeOK, \A r \in Ids : StatusSound(r), [Next]_vars
             PROVE  \A r \in Ids : StatusSound(r)'
  OBVIOUS
<1>1. CASE PlayerMessage
  BY <1>1, OfferSound, AckSound, FailureSound DEF PlayerMessage
<1>2. CASE Hit
  BY <1>2, DamageSound DEF Hit
<1>3. CASE CancelUnused
  BY <1>3, CancelSound
<1>4. CASE UNCHANGED vars
  BY <1>4 DEF StatusSound, vars, reservationVars, ledgerVars, historyVars
<1> QED
  BY <1>1, <1>2, <1>3, <1>4 DEF Next

-----------------------------------------------------------------------------
(* The ledger                                                              *)

\* Numbering the reservations of a set in their order uses each number below
\* its size once: the sequence numbers of one hit have no gap and no repeat.
LEMMA RankRange ==
  ASSUME NEW R \in SUBSET Ids
  PROVE  {Cardinality({q \in R : q < r}) : r \in R} = 0 .. (Cardinality(R) - 1)
<1> DEFINE below(r) == {q \in R : q < r}
           T == 0 .. (Cardinality(R) - 1)
           f == [r \in R |-> Cardinality(below(r))]
<1>1. /\ IsFiniteSet(R) /\ Cardinality(R) \in Nat
      /\ \A r \in R : IsFiniteSet(below(r)) /\ Cardinality(below(r)) \in Nat
  <2>1. \A r \in R : below(r) \in SUBSET Ids
    OBVIOUS
  <2> QED
    BY <2>1, IdSubset
<1>2. \A r \in R : Cardinality(below(r)) < Cardinality(R)
  <2> SUFFICES ASSUME NEW r \in R
               PROVE  Cardinality(below(r)) < Cardinality(R)
    OBVIOUS
  <2>1. below(r) \in SUBSET R /\ below(r) # R
    BY SettlementAssumption DEF Ids
  <2>2. /\ Cardinality(below(r)) <= Cardinality(R)
        /\ Cardinality(R) # Cardinality(below(r))
    BY <1>1, <2>1, FS_Subset
  <2> QED
    BY <1>1, <2>2
<1>3. ASSUME NEW r \in R, NEW s \in R, r < s
      PROVE  Cardinality(below(r)) < Cardinality(below(s))
  <2>0. \A q \in R : q \in Int
    BY SettlementAssumption DEF Ids
  <2>1. /\ below(r) \in SUBSET below(s) /\ r \in below(s) /\ r \notin below(r)
    <3>1. ASSUME NEW q \in R, q < r
          PROVE  q < s
      BY <1>3, <2>0, <3>1
    <3>2. r \in below(s) /\ r \notin below(r)
      BY <1>3, <2>0
    <3> QED
      BY <3>1, <3>2
  <2>2. /\ Cardinality(below(r)) <= Cardinality(below(s))
        /\ Cardinality(below(s)) # Cardinality(below(r))
    BY <1>1, <2>1, FS_Subset
  <2> QED
    BY <1>1, <2>2
<1>4. f \in Injection(R, T)
  <2>1. f \in [R -> T]
    BY <1>1, <1>2
  <2>2. ASSUME NEW r \in R, NEW s \in R, f[r] = f[s]
        PROVE  r = s
    <3>1. r < s \/ s < r \/ r = s
      BY SettlementAssumption DEF Ids
    <3>2. f[r] = Cardinality(below(r)) /\ f[s] = Cardinality(below(s))
      OBVIOUS
    <3> QED
      BY <1>1, <1>3, <2>2, <3>1, <3>2
  <2> QED
    BY <2>1, <2>2 DEF Injection, IsInjective
<1>5. IsFiniteSet(T) /\ Cardinality(T) = Cardinality(R)
  <2>1. /\ IsFiniteSet(T)
        /\ Cardinality(T) = IF 0 > Cardinality(R) - 1 THEN 0
                            ELSE Cardinality(R) - 1 - 0 + 1
    BY <1>1, FS_Interval
  <2> QED
    BY <1>1, <2>1
<1>6. f \in Surjection(R, T)
  <2> HIDE DEF f, T
  <2> QED
    BY <1>4, <1>5, FS_Injection
<1>7. \A t \in T : \E r \in R : f[r] = t
  BY <1>6 DEF Surjection
<1>8. ASSUME NEW r \in R
      PROVE  Cardinality(below(r)) \in T
  <2>1. Cardinality(below(r)) \in Nat /\ Cardinality(R) \in Nat
    BY <1>1
  <2>2. Cardinality(below(r)) < Cardinality(R)
    BY <1>2
  <2> HIDE DEF below
  <2> QED
    BY <2>1, <2>2
<1>9. ASSUME NEW t \in T
      PROVE  \E r \in R : t = Cardinality(below(r))
  BY <1>7
<1> HIDE DEF T, f
<1>10. {Cardinality(below(r)) : r \in R} = T
  BY <1>8, <1>9
<1> QED
  BY <1>10 DEF T

\* A message and a cancellation leave the money where it was.
LEMMA LedgerKept ==
  ASSUME LedgerAgrees, DamageAccounted,
         UNCHANGED <<ledgerVars, signed, damageTaken>>
  PROVE  LedgerAgrees' /\ DamageAccounted'
BY DEF LedgerAgrees, DamageAccounted, SignedFor, AllSigned, ledgerVars

\* The reservations a hit signs for are new ones, the victim's own, and the
\* numbers on them follow those already used.
LEMMA DamageLedger ==
  ASSUME TypeOK, \A r \in Ids : StatusSound(r), LedgerAgrees, DamageAccounted,
         NEW victim \in Slots, NEW damage \in Damages,
         RecordDamage(victim, damage)
  PROVE  LedgerAgrees' /\ DamageAccounted'
<1> DEFINE total == SaturatingAdd(remainder[victim], damage)
<1>1. PICK R \in SUBSET HeldBy(victim) :
         /\ Taken(victim, total, R)
         /\ remainder' = [remainder EXCEPT ![victim] = LeftAfter(total, R)]
         /\ nextSequence' = nextSequence + Cardinality(R)
         /\ releasedTotal' = [releasedTotal EXCEPT
                                ![victim] = @ + Amount * Cardinality(R)]
         /\ signed' = [r \in Ids |->
                         IF r \in R
                         THEN nextSequence + Cardinality({q \in R : q < r})
                         ELSE signed[r]]
         /\ damageTaken' = [damageTaken EXCEPT ![victim] = @ + damage]
  BY DEF RecordDamage
<1>2. damage \in Nat
  BY SettlementAssumption
<1>3. /\ R \subseteq IdsOf(victim) /\ R \in SUBSET Ids
      /\ Cardinality(R) \in Nat
      /\ Bucket * Cardinality(R) \in Nat
      /\ Amount * Cardinality(R) \in Nat
  BY <1>1, <1>2, DamageShape
<1>4. \A r \in R : signed[r] = 0 /\ Cardinality({q \in R : q < r}) \in Nat
  <2> SUFFICES ASSUME NEW r \in R
               PROVE  signed[r] = 0 /\ Cardinality({q \in R : q < r}) \in Nat
    OBVIOUS
  <2>1. {q \in R : q < r} \in SUBSET Ids
    BY <1>3
  <2>2. status[r] = "Held" /\ StatusSound(r)
    BY <1>3 DEF HeldBy
  <2> QED
    BY <2>1, <2>2, IdSubset DEF StatusSound
<1>5. \A r \in Ids : signed'[r] # 0 <=> (r \in R \/ signed[r] # 0)
  BY <1>1, <1>3, <1>4 DEF TypeOK
<1>6. /\ SignedFor(victim)' = SignedFor(victim) \cup R
      /\ SignedFor(victim) \cap R = {}
      /\ \A p \in Slots : p # victim => SignedFor(p)' = SignedFor(p)
  BY <1>3, <1>4, <1>5 DEF SignedFor, IdsOf
<1>7. AllSigned' = AllSigned \cup R /\ AllSigned \cap R = {}
  BY <1>3, <1>4, <1>5 DEF AllSigned
<1>8. /\ AllSigned \in SUBSET Ids
      /\ \A p \in Slots : SignedFor(p) \in SUBSET Ids
                            /\ Cardinality(SignedFor(p)) \in Nat
  <2>1. \A p \in Slots : SignedFor(p) \in SUBSET Ids
    BY DEF SignedFor, IdsOf
  <2> QED
    BY <2>1, IdSubset DEF AllSigned
<1>9. /\ Cardinality(SignedFor(victim)')
           = Cardinality(SignedFor(victim)) + Cardinality(R)
      /\ Cardinality(AllSigned') = Cardinality(AllSigned) + Cardinality(R)
  BY <1>3, <1>6, <1>7, <1>8, DisjointCount
<1>10. \A p \in Slots :
         releasedTotal'[p] = Amount * Cardinality(SignedFor(p)')
  <2> SUFFICES ASSUME NEW p \in Slots
               PROVE  releasedTotal'[p] = Amount * Cardinality(SignedFor(p)')
    OBVIOUS
  <2>1. releasedTotal[p] = Amount * Cardinality(SignedFor(p))
    BY DEF LedgerAgrees
  <2>2. CASE p # victim
    BY <1>1, <1>6, <2>1, <2>2 DEF TypeOK
  <2>3. CASE p = victim
    <3>1. releasedTotal'[p] = releasedTotal[p] + Amount * Cardinality(R)
      BY <1>1, <2>3 DEF TypeOK
    <3>2. Amount * (Cardinality(SignedFor(p)) + Cardinality(R))
            = Amount * Cardinality(SignedFor(p)) + Amount * Cardinality(R)
      BY <1>3, <1>8, ProductSum, SettlementAssumption
    <3> QED
      BY <1>9, <2>1, <2>3, <3>1, <3>2
  <2> QED
    BY <2>2, <2>3
<1>11. Cardinality(AllSigned') = nextSequence' - 1
  BY <1>1, <1>3, <1>9 DEF LedgerAgrees, TypeOK
<1>12. {signed'[r] : r \in AllSigned'} = 1 .. (nextSequence' - 1)
  <2>1. {signed'[r] : r \in AllSigned'}
          = {signed[r] : r \in AllSigned} \cup {signed'[r] : r \in R}
    BY <1>1, <1>3, <1>7, <1>8
  <2>2. {signed[r] : r \in AllSigned} = 1 .. (nextSequence - 1)
    BY DEF LedgerAgrees
  <2>3. {signed'[r] : r \in R}
          = {nextSequence + Cardinality({q \in R : q < r}) : r \in R}
    BY <1>1, <1>3
  <2>4. {nextSequence + Cardinality({q \in R : q < r}) : r \in R}
          = nextSequence .. (nextSequence + Cardinality(R) - 1)
    <3>1. {nextSequence + Cardinality({q \in R : q < r}) : r \in R}
            = {nextSequence + k :
                 k \in {Cardinality({q \in R : q < r}) : r \in R}}
      OBVIOUS
    <3>2. {nextSequence + k : k \in 0 .. (Cardinality(R) - 1)}
            = nextSequence .. (nextSequence + Cardinality(R) - 1)
      <4>1. nextSequence \in Nat /\ Cardinality(R) \in Nat
        BY <1>3 DEF TypeOK
      <4>2. ASSUME NEW n \in nextSequence .. (nextSequence + Cardinality(R) - 1)
            PROVE  n \in {nextSequence + k : k \in 0 .. (Cardinality(R) - 1)}
        <5>1. /\ n - nextSequence \in 0 .. (Cardinality(R) - 1)
              /\ n = nextSequence + (n - nextSequence)
          BY <4>1
        <5> QED
          BY <5>1
      <4> QED
        BY <4>1, <4>2
    <3> QED
      BY <1>3, <3>1, <3>2, RankRange
  <2>5. ASSUME NEW n \in Nat \ {0}, NEW k \in Nat
        PROVE  1 .. (n - 1) \cup n .. (n + k - 1) = 1 .. (n + k - 1)
    OBVIOUS
  <2>6. nextSequence \in Nat \ {0}
    BY DEF TypeOK
  <2>7. 1 .. (nextSequence - 1)
          \cup nextSequence .. (nextSequence + Cardinality(R) - 1)
        = 1 .. (nextSequence + Cardinality(R) - 1)
    BY <1>3, <2>5, <2>6
  <2>8. nextSequence' = nextSequence + Cardinality(R)
    BY <1>1
  <2>9. nextSequence' - 1 = nextSequence + Cardinality(R) - 1
    BY <1>3, <2>6, <2>8
  <2>10. {signed'[r] : r \in AllSigned'}
           = 1 .. (nextSequence + Cardinality(R) - 1)
    BY <2>1, <2>2, <2>3, <2>4, <2>7, Zenon
  <2> QED
    BY <2>9, <2>10, Zenon
<1>13. LedgerAgrees'
  BY <1>10, <1>11, <1>12 DEF LedgerAgrees
<1>14. DamageAccounted'
  <2> SUFFICES ASSUME NEW p \in Slots
        PROVE  /\ remainder'[p] + Bucket * Cardinality(SignedFor(p)')
                    <= damageTaken'[p]
               /\ damageTaken'[p] <= U16Max
                    => remainder'[p] + Bucket * Cardinality(SignedFor(p)')
                         = damageTaken'[p]
    BY DEF DamageAccounted
  <2>1. /\ remainder[p] + Bucket * Cardinality(SignedFor(p)) <= damageTaken[p]
        /\ damageTaken[p] <= U16Max
             => remainder[p] + Bucket * Cardinality(SignedFor(p))
                  = damageTaken[p]
    BY DEF DamageAccounted
  <2>2. CASE p # victim
    BY <1>1, <1>6, <2>1, <2>2 DEF TypeOK
  <2>3. CASE p = victim
    <3>1. /\ remainder'[p] = total - Bucket * Cardinality(R)
          /\ damageTaken'[p] = damageTaken[p] + damage
      BY <1>1, <2>3 DEF TypeOK, LeftAfter
    <3>2. Bucket * Cardinality(SignedFor(p)')
            = Bucket * Cardinality(SignedFor(p)) + Bucket * Cardinality(R)
      BY <1>3, <1>8, <1>9, <2>3, ProductSum, SettlementAssumption
    <3>3. /\ Bucket * Cardinality(SignedFor(p)) \in Nat
          /\ remainder[p] \in 0 .. U16Max /\ damageTaken[p] \in Nat
          /\ U16Max \in Nat
      BY <1>8, ProductNat, SettlementAssumption DEF TypeOK
    <3>4. /\ total <= remainder[p] + damage /\ total \in Nat
          /\ remainder[p] + damage <= U16Max => total = remainder[p] + damage
      BY <1>2, <2>3, <3>3 DEF SaturatingAdd
    <3> HIDE DEF total
    <3> QED
      BY <1>2, <1>3, <2>1, <3>1, <3>2, <3>3, <3>4
  <2> QED
    BY <2>2, <2>3
<1> QED
  BY <1>13, <1>14

\* Every step keeps the totals in line with the signed releases.
LEMMA StepLedger ==
  IInv /\ [Next]_vars => LedgerAgrees' /\ DamageAccounted'
<1> SUFFICES ASSUME IInv, [Next]_vars
             PROVE  LedgerAgrees' /\ DamageAccounted'
  OBVIOUS
<1>1. CASE PlayerMessage
  <2>1. UNCHANGED <<ledgerVars, historyVars>>
    BY <1>1 DEF PlayerMessage, RegisterInvoiceOffer, Acknowledge,
                RecordFailure, vars
  <2> QED
    BY <2>1, LedgerKept DEF IInv, historyVars
<1>2. CASE Hit
  BY <1>2, DamageLedger DEF Hit, IInv
<1>3. CASE CancelUnused
  BY <1>3, LedgerKept DEF CancelUnused, IInv
<1>4. CASE UNCHANGED vars
  BY <1>4, LedgerKept DEF IInv, vars, historyVars
<1> QED
  BY <1>1, <1>2, <1>3, <1>4 DEF Next

\* The ledger new() builds is empty.
LEMMA InitLedger == Init => LedgerAgrees /\ DamageAccounted
<1> SUFFICES ASSUME Init
             PROVE  LedgerAgrees /\ DamageAccounted
  OBVIOUS
<1>1. AllSigned = {} /\ \A p \in Slots : SignedFor(p) = {}
  BY DEF Init, AllSigned, SignedFor, IdsOf
<1>2. Cardinality({}) = 0
  BY FS_EmptySet
<1>3. Amount * 0 = 0 /\ Bucket * 0 = 0
  BY SettlementAssumption
<1>4. LedgerAgrees
  <2>1. \A p \in Slots : releasedTotal[p] = Amount * Cardinality(SignedFor(p))
    BY <1>1, <1>2, <1>3 DEF Init
  <2>2. {signed[r] : r \in AllSigned} = 1 .. (nextSequence - 1)
    BY <1>1 DEF Init
  <2>3. Cardinality(AllSigned) = nextSequence - 1
    BY <1>1, <1>2 DEF Init
  <2> QED
    BY <2>1, <2>2, <2>3 DEF LedgerAgrees
<1>5. \A p \in Slots : /\ remainder[p] = 0 /\ damageTaken[p] = 0
                       /\ Bucket * Cardinality(SignedFor(p)) = 0
  BY <1>1, <1>2, <1>3 DEF Init
<1> QED
  BY <1>4, <1>5 DEF DamageAccounted

-----------------------------------------------------------------------------
(* The theorems                                                            *)

\* The inductive invariant: every behaviour keeps it.
THEOREM Inductive == Spec => []IInv
<1>1. Init => IInv
  BY InitTypeOK, InitSound, InitLedger DEF IInv
<1>2. IInv /\ [Next]_vars => IInv'
  BY StepTypeOK, StepSound, StepLedger DEF IInv
<1> QED
  BY <1>1, <1>2, PTL DEF Spec

\* The running totals are those of the signed releases, and sequence numbers
\* are used without a gap or a repeat (record_damage).
THEOREM LedgerCorrect == Spec => []LedgerAgrees
<1>1. IInv => LedgerAgrees
  BY DEF IInv
<1> QED
  BY <1>1, Inductive, PTL

\* No damage is invented, and none is lost below the 16-bit limit.
THEOREM DamageCorrect == Spec => []DamageAccounted
<1>1. IInv => DamageAccounted
  BY DEF IInv
<1> QED
  BY <1>1, Inductive, PTL

\* A ledger that is sound keeps the cap: the releases of a player are among his
\* PerPlayer reservations.
LEMMA CapKept == IInv => CapRespected
<1> SUFFICES ASSUME IInv, NEW p \in Slots
             PROVE  releasedTotal[p] <= Cap
  BY DEF CapRespected
<1>1. SignedFor(p) \in SUBSET IdsOf(p)
  BY DEF SignedFor
<1>2. Cardinality(SignedFor(p)) <= PerPlayer
  BY <1>1, IdsFinite, FS_Subset
<1>3. Cardinality(SignedFor(p)) \in Nat
  BY <1>1, IdSubset DEF IdsOf
<1>4. Amount * Cardinality(SignedFor(p)) <= Amount * PerPlayer
  BY <1>2, <1>3, ProductMonotone, SettlementAssumption
<1> QED
  BY <1>4 DEF IInv, LedgerAgrees, Cap

\* No player pays more than the cap of the match terms.
THEOREM CapCorrect == Spec => []CapRespected
BY CapKept, Inductive, PTL

\* A preimage is only signed away for an invoice both players reported held.
THEOREM FundedCorrect == Spec => []NoUnfundedRelease
<1>1. IInv => NoUnfundedRelease
  BY DEF IInv, StatusSound, NoUnfundedRelease, AllSigned
<1> QED
  BY <1>1, Inductive, PTL

\* No reservation is both paid and asked to be cancelled.
THEOREM CancelCorrect == Spec => []ReleaseExcludesCancel
<1>1. IInv => ReleaseExcludesCancel
  BY DEF IInv, StatusSound, ReleaseExcludesCancel, AllSigned
<1> QED
  BY <1>1, Inductive, PTL

\* record_damage signs for held reservations only, which have no release yet.
LEMMA DamageOnce ==
  ASSUME IInv, NEW victim \in Slots, NEW damage \in Damages,
         RecordDamage(victim, damage), NEW r \in Ids, signed[r] # 0
  PROVE  signed'[r] = signed[r]
<1>1. status[r] # "Held"
  BY DEF IInv, StatusSound
<1>2. PICK R \in SUBSET HeldBy(victim) :
        signed' = [q \in Ids |->
                     IF q \in R
                     THEN nextSequence + Cardinality({s \in R : s < q})
                     ELSE signed[q]]
  BY DEF RecordDamage
<1> QED
  BY <1>1, <1>2 DEF HeldBy

\* Once a release is signed for a reservation, no later step signs another.
THEOREM OnceCorrect == Spec => ReleasedOnce
<1>1. IInv /\ [Next]_vars
        => [\A r \in Ids : signed[r] # 0 => signed'[r] = signed[r]]_vars
  <2> SUFFICES ASSUME IInv, Next, NEW r \in Ids, signed[r] # 0
               PROVE  signed'[r] = signed[r]
    OBVIOUS
  <2>1. CASE PlayerMessage
    BY <2>1 DEF PlayerMessage, RegisterInvoiceOffer, Acknowledge,
                RecordFailure, vars, historyVars
  <2>2. CASE Hit
    BY <2>2, DamageOnce DEF Hit
  <2>3. CASE CancelUnused
    BY <2>3 DEF CancelUnused
  <2> QED
    BY <2>1, <2>2, <2>3 DEF Next
<1> QED
  BY <1>1, Inductive, PTL DEF Spec, ReleasedOnce

-----------------------------------------------------------------------------
(* The settlement coordinator implements HoldEscrow: every step of it is a *)
(* hold, a payment, a refund or a void of the abstract escrow, or leaves   *)
(* the escrow as it is.                                                    *)


\* All money starts open, and nothing is paid.
LEMMA InitEscrow == Init => Escrow!EscrowInit
BY DEF Init, Escrow!EscrowInit, EscrowOf

\* A step that leaves every reservation's escrow and the totals alone.
LEMMA EscrowStutter ==
  ASSUME \A r \in Ids : EscrowOf(r)' = EscrowOf(r),
         UNCHANGED releasedTotal
  PROVE  UNCHANGED Escrow!escrowVars
BY DEF Escrow!escrowVars

\* A message names one reservation: others keep their escrow.
LEMMA OtherKept ==
  ASSUME TypeOK, NEW id, NEW new,
         status' = [status EXCEPT ![id] = new],
         UNCHANGED historyVars,
         NEW r \in Ids, r # id
  PROVE  EscrowOf(r)' = EscrowOf(r)
BY DEF EscrowOf, TypeOK, historyVars

\* One reservation becomes held.
LEMMA HoldStep ==
  ASSUME NEW id \in Ids, EscrowOf(id) = "open", EscrowOf(id)' = "held",
         \A r \in Ids : r # id => EscrowOf(r)' = EscrowOf(r),
         UNCHANGED releasedTotal
  PROVE  Escrow!EscrowNext
BY DEF Escrow!EscrowNext, Escrow!Hold

\* One reservation becomes void.
LEMMA VoidStep ==
  ASSUME NEW id \in Ids, EscrowOf(id) \in {"open", "held"},
         EscrowOf(id)' = "void",
         \A r \in Ids : r # id => EscrowOf(r)' = EscrowOf(r),
         UNCHANGED releasedTotal
  PROVE  Escrow!EscrowNext
BY DEF Escrow!EscrowNext, Escrow!Void, Escrow!Undecided

\* An offer moves no money.
LEMMA OfferEscrow ==
  ASSUME IInv, NEW sender \in Slots, NEW ref \in Refs, NEW inv \in Invoices,
         RegisterInvoiceOffer(sender, ref, inv)
  PROVE  UNCHANGED Escrow!escrowVars
<1>1. CASE UNCHANGED vars
  BY <1>1, EscrowStutter
     DEF EscrowOf, vars, reservationVars, ledgerVars, historyVars
<1>2. CASE NewOffer(sender, ref, inv)
  <2>1. /\ ref.id \in Ids /\ status[ref.id] = "AwaitingInvoice"
        /\ status' = [status EXCEPT ![ref.id] = "Offered"]
        /\ UNCHANGED <<historyVars, releasedTotal>>
    BY <1>2 DEF RegisterInvoiceOffer, NewOffer, ValidReference, ledgerVars
  <2>2. EscrowOf(ref.id)' = EscrowOf(ref.id)
    BY <2>1 DEF EscrowOf, historyVars, IInv, TypeOK
  <2>3. \A r \in Ids : EscrowOf(r)' = EscrowOf(r)
    BY <2>1, <2>2, OtherKept DEF IInv
  <2> QED
    BY <2>1, <2>3, EscrowStutter
<1> QED
  BY <1>1, <1>2 DEF RegisterInvoiceOffer

\* The second of the two reports holds the money; other reports move none.
LEMMA AckEscrow ==
  ASSUME IInv, NEW sender \in Slots, NEW ref \in Refs, NEW stage \in Stages,
         Acknowledge(sender, ref, stage)
  PROVE  Escrow!EscrowNext \/ UNCHANGED Escrow!escrowVars
<1>1. CASE UNCHANGED vars
  BY <1>1, EscrowStutter
     DEF EscrowOf, vars, reservationVars, ledgerVars, historyVars
<1>2. CASE AckAccepted(sender, ref, stage)
  <2>1. /\ ref.id \in Ids
        /\ status[ref.id] \in Accepting(stage)
        /\ UNCHANGED <<historyVars, releasedTotal>>
        /\ stage \in {"Funded", "Received"} => invoice[ref.id] # NoInvoice
    BY <1>2 DEF Acknowledge, AckAccepted, ValidReference, ledgerVars,
                historyVars
  <2>2. TypeOK /\ StatusSound(ref.id)
    BY <2>1 DEF IInv
  <2>3. PICK new : /\ status' = [status EXCEPT ![ref.id] = new]
                   /\ stage \in {"Funded", "Received"}
                        => new \in {"Held", status[ref.id]}
                   /\ stage \in {"Settled", "Cancelled"} => new = stage
    BY <1>2 DEF Acknowledge, RecordReadiness, AckAccepted
  <2>4. status'[ref.id] = new
    BY <2>1, <2>2, <2>3 DEF TypeOK
  <2>5. \A r \in Ids : r # ref.id => EscrowOf(r)' = EscrowOf(r)
    BY <2>1, <2>2, <2>3, OtherKept
  <2>6. CASE EscrowOf(ref.id)' = EscrowOf(ref.id)
    BY <2>1, <2>5, <2>6, EscrowStutter
  <2>7. CASE EscrowOf(ref.id)' # EscrowOf(ref.id)
    <3>1. \/ status[ref.id] \in {"AwaitingInvoice", "Offered"} /\ new = "Held"
          \/ new = status[ref.id]
          \/ new \in {"Settled", "Cancelled"}
               /\ status[ref.id] \in {"Released", "Settled", "CancelPending",
                                      "Cancelled"}
      BY <2>1, <2>3 DEF Accepting, Stages
    <3>2. /\ signed'[ref.id] = signed[ref.id]
          /\ cancelAsked' = cancelAsked
      BY <2>1 DEF historyVars
    <3>3. /\ EscrowOf(ref.id) = "open"
          /\ EscrowOf(ref.id)' = "held"
      BY <2>2, <2>4, <2>7, <3>1, <3>2 DEF EscrowOf, StatusSound
    <3> QED
      BY <2>1, <2>5, <3>3, HoldStep
  <2> QED
    BY <2>6, <2>7
<1> QED
  BY <1>1, <1>2 DEF Acknowledge

\* A failure voids money that is neither paid nor refunded.
LEMMA FailureEscrow ==
  ASSUME IInv, NEW sender \in Slots, NEW ref \in Refs, NEW stage \in Stages,
         RecordFailure(sender, ref, stage)
  PROVE  Escrow!EscrowNext \/ UNCHANGED Escrow!escrowVars
<1>1. CASE UNCHANGED vars
  BY <1>1, EscrowStutter
     DEF EscrowOf, vars, reservationVars, ledgerVars, historyVars
<1>2. CASE FailureRecorded(sender, ref, stage)
  <2>1. /\ ref.id \in Ids
        /\ status' = [status EXCEPT ![ref.id] = "Failed"]
        /\ UNCHANGED <<historyVars, releasedTotal>>
    BY <1>2 DEF RecordFailure, FailureRecorded, ValidReference, ledgerVars,
                historyVars
  <2>2. TypeOK
    BY DEF IInv
  <2>3. status'[ref.id] = "Failed"
    BY <2>1, <2>2 DEF TypeOK
  <2>4. /\ signed'[ref.id] = signed[ref.id]
        /\ cancelAsked' = cancelAsked
    BY <2>1 DEF historyVars
  <2>5. \A r \in Ids : r # ref.id => EscrowOf(r)' = EscrowOf(r)
    BY <2>1, <2>2, OtherKept
  <2>6. \/ EscrowOf(ref.id)' = EscrowOf(ref.id)
        \/ /\ EscrowOf(ref.id) \in {"open", "held"}
           /\ EscrowOf(ref.id)' = "void"
    BY <2>3, <2>4 DEF EscrowOf
  <2> QED
    BY <2>1, <2>5, <2>6, EscrowStutter, VoidStep
<1> QED
  BY <1>1, <1>2 DEF RecordFailure

\* A hit pays with held reservations of the player hit.
LEMMA DamageEscrow ==
  ASSUME IInv, NEW victim \in Slots, NEW damage \in Damages,
         RecordDamage(victim, damage)
  PROVE  Escrow!EscrowNext \/ UNCHANGED Escrow!escrowVars
<1> DEFINE total == SaturatingAdd(remainder[victim], damage)
<1>1. PICK R \in SUBSET HeldBy(victim) :
         /\ Taken(victim, total, R)
         /\ releasedTotal' = [releasedTotal EXCEPT
                                ![victim] = @ + Amount * Cardinality(R)]
         /\ status' = [r \in Ids |-> IF r \in R THEN "Released" ELSE status[r]]
         /\ signed' = [r \in Ids |->
                         IF r \in R
                         THEN nextSequence + Cardinality({q \in R : q < r})
                         ELSE signed[r]]
         /\ UNCHANGED cancelAsked
  BY DEF RecordDamage
<1>2. TypeOK /\ \A r \in Ids : StatusSound(r)
  BY DEF IInv
<1>3. /\ R \in SUBSET Ids /\ Cardinality(R) \in Nat
      /\ \A r \in R : status[r] = "Held" /\ Payer(r) = victim
  <2>1. R \in SUBSET Ids
    BY DEF HeldBy, IdsOf
  <2> QED
    BY <2>1, IdSubset DEF HeldBy, IdsOf
<1>4. \A r \in R : EscrowOf(r) = "held" /\ EscrowOf(r)' = "paid"
  <2> SUFFICES ASSUME NEW r \in R
               PROVE  EscrowOf(r) = "held" /\ EscrowOf(r)' = "paid"
    OBVIOUS
  <2>1. r \in Ids /\ StatusSound(r) /\ status[r] = "Held"
    BY <1>2, <1>3
  <2>2. EscrowOf(r) = "held"
    BY <2>1 DEF EscrowOf, StatusSound
  <2>3. Cardinality({q \in R : q < r}) \in Nat
    <3>1. {q \in R : q < r} \in SUBSET Ids
      BY <1>3
    <3> QED
      BY <3>1, IdSubset
  <2>4. signed'[r] = nextSequence + Cardinality({q \in R : q < r})
    BY <1>1, <2>1
  <2>5. signed'[r] # 0
    <3>1. nextSequence \in Nat \ {0}
      BY <1>2 DEF TypeOK
    <3> QED
      BY <2>3, <2>4, <3>1
  <2> QED
    BY <2>2, <2>5 DEF EscrowOf
<1>5. \A r \in Ids \ R : EscrowOf(r)' = EscrowOf(r)
  BY <1>1 DEF EscrowOf
<1>6. CASE R = {}
  <2>1. Cardinality(R) = 0 /\ Amount * 0 = 0
    BY <1>6, FS_EmptySet, SettlementAssumption
  <2>2. releasedTotal' = releasedTotal
    BY <1>1, <1>2, <2>1 DEF TypeOK
  <2> QED
    BY <1>5, <1>6, <2>2, EscrowStutter
<1>7. CASE R # {}
  <2>1. Escrow!Pay(victim, R)
    <3>1. \A r \in R : /\ [q \in Ids |-> Payer(q)][r] = victim
                       /\ [q \in Ids |-> EscrowOf(q)][r] = "held"
      BY <1>3, <1>4
    <3>2. [r \in Ids |-> EscrowOf(r)']
            = [r \in Ids |-> IF r \in R THEN "paid"
                             ELSE [q \in Ids |-> EscrowOf(q)][r]]
      <4>1. ASSUME NEW r \in Ids
            PROVE  EscrowOf(r)' = IF r \in R THEN "paid"
                                  ELSE [q \in Ids |-> EscrowOf(q)][r]
        <5>1. [q \in Ids |-> EscrowOf(q)][r] = EscrowOf(r)
          OBVIOUS
        <5> QED
          BY <1>4, <1>5, <5>1
      <4> QED
        BY <4>1
    <3>3. Escrow!Cardinality(R) = Cardinality(R)
      BY DEF Escrow!Cardinality, Cardinality
    <3> QED
      BY <1>1, <1>7, <3>1, <3>2, <3>3 DEF Escrow!Pay
  <2>2. R \in SUBSET Ids /\ victim \in Slots
    BY <1>3
  <2> QED
    BY <2>1, <2>2 DEF Escrow!EscrowNext
<1> QED
  BY <1>6, <1>7

\* cancel_unused refunds money that is open or held.
LEMMA CancelEscrow ==
  ASSUME IInv, CancelUnused
  PROVE  Escrow!EscrowNext
<1>1. \A r \in Ids : StatusSound(r)
  BY DEF IInv
<1>2. \A r \in Unused : /\ r \in Ids
                        /\ EscrowOf(r) \in {"open", "held"}
                        /\ EscrowOf(r)' = "refunded"
  BY <1>1 DEF CancelUnused, Unused, StatusSound, EscrowOf
<1>3. \A r \in Ids \ Unused : EscrowOf(r)' = EscrowOf(r)
  BY DEF CancelUnused, EscrowOf
<1>4. Escrow!Refund(Unused)
  BY <1>2, <1>3 DEF Escrow!Refund, Escrow!Undecided, CancelUnused, ledgerVars
<1> QED
  BY <1>2, <1>4 DEF Escrow!EscrowNext

\* Every step of the coordinator is a step of the escrow, or none.
LEMMA StepEscrow ==
  IInv /\ [Next]_vars => [Escrow!EscrowNext]_(Escrow!escrowVars)
<1> SUFFICES ASSUME IInv, [Next]_vars
             PROVE  Escrow!EscrowNext \/ UNCHANGED Escrow!escrowVars
  OBVIOUS
<1>1. CASE PlayerMessage
  BY <1>1, OfferEscrow, AckEscrow, FailureEscrow DEF PlayerMessage
<1>2. CASE Hit
  BY <1>2, DamageEscrow DEF Hit
<1>3. CASE CancelUnused
  BY <1>3, CancelEscrow
<1>4. CASE UNCHANGED vars
  BY <1>4, EscrowStutter
     DEF EscrowOf, vars, reservationVars, ledgerVars, historyVars
<1> QED
  BY <1>1, <1>2, <1>3, <1>4 DEF Next

\* The coordinator keeps the promise of the abstract escrow: a reservation is
\* paid only after it was held, at most once, never after it was refunded, and
\* what a player has paid is the price of his paid reservations.
THEOREM EscrowImplemented == Spec => ImplementsEscrow
BY InitEscrow, StepEscrow, Inductive, PTL
   DEF Spec, ImplementsEscrow, Escrow!EscrowSpec
=============================================================================
