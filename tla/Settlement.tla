----------------------------- MODULE Settlement -----------------------------
(***************************************************************************)
(* The SettlementCoordinator of src/settlement.rs: the arena server's      *)
(* ledger of hold invoices for one match.                                  *)
(*                                                                         *)
(* Each seat pays for PerPlayer reservations, one per damage bucket.  The  *)
(* payee of a reservation offers an invoice, the payer reports it funded   *)
(* and the payee reports it received; then it is held.  Damage turns held  *)
(* reservations into released ones, the end of the match turns the rest    *)
(* into cancelled ones.  Messages come in any order, more than once, from  *)
(* either seat, and may name another match, an unknown reservation or a    *)
(* wrong hash: the coordinator has to be right whatever the players send.  *)
(*                                                                         *)
(* A payment hash is the digest of a random preimage, so it is modelled by *)
(* the reservation it belongs to.                                          *)
(***************************************************************************)
EXTENDS Integers, FiniteSets

CONSTANTS
  PerPlayer,      \* reservations per payer: match cap / amount per bucket
  Amount,         \* amount_per_damage_bucket
  Bucket,         \* damage_bucket
  U16Max,         \* where damage_remainder saturates
  MatchId,        \* the match of the coordinator's terms
  Refs,           \* the references (match, reservation, hash) messages carry
  Invoices,       \* the invoices payees offer
  Oversized,      \* those longer than MAX_INVOICE_BYTES
  NoInvoice,      \* reservation.invoice = None
  Damages,        \* the damage of one hit
  MaxDamage       \* bound: hits stop once a seat has taken this much

Slots == {"A", "B"}
Opponent(s) == IF s = "A" THEN "B" ELSE "A"

\* Reservations are numbered in the order new() pushes them: A's, then B's.
Ids == 0 .. (2 * PerPlayer - 1)
Payer(r) == IF r < PerPlayer THEN "A" ELSE "B"
Payee(r) == Opponent(Payer(r))
IdsOf(p) == {r \in Ids : Payer(r) = p}
Cap == Amount * PerPlayer

Statuses == {"AwaitingInvoice", "Offered", "Held", "Released", "Settled",
             "CancelPending", "Cancelled", "Failed"}
Stages == {"Funded", "Received", "Settled", "Cancelled"}

ASSUME SettlementAssumption ==
  /\ PerPlayer \in Nat \ {0}
  /\ Amount \in Nat \ {0}
  /\ Bucket \in Nat \ {0}
  /\ U16Max \in Nat
  /\ 2 * PerPlayer <= U16Max
  /\ Damages \subseteq Nat
  /\ MaxDamage \in Nat
  /\ NoInvoice \notin Invoices
  /\ Oversized \subseteq Invoices

VARIABLES
  status,         \* reservation.status
  invoice,        \* reservation.invoice
  payerFunded,    \* reservation.payer_funded
  payeeReceived,  \* reservation.payee_received
  remainder,      \* damage_remainder, by the seat that was hit
  nextSequence,   \* next_sequence
  releasedTotal,  \* released_total, by payer
  signed,         \* history: sequence signed for the reservation, 0 = none
  handed,         \* history: reservations whose release reached the caller
  cancelAsked,    \* history: reservations cancel_unused returned
  damageTaken     \* history: damage recorded against each seat

reservationVars == <<status, invoice, payerFunded, payeeReceived>>
ledgerVars == <<remainder, nextSequence, releasedTotal>>
historyVars == <<signed, handed, cancelAsked, damageTaken>>
vars == <<reservationVars, ledgerVars, historyVars>>

Init ==
  /\ status = [r \in Ids |-> "AwaitingInvoice"]
  /\ invoice = [r \in Ids |-> NoInvoice]
  /\ payerFunded = [r \in Ids |-> FALSE]
  /\ payeeReceived = [r \in Ids |-> FALSE]
  /\ remainder = [p \in Slots |-> 0]
  /\ nextSequence = 1
  /\ releasedTotal = [p \in Slots |-> 0]
  /\ signed = [r \in Ids |-> 0]
  /\ handed = {}
  /\ cancelAsked = {}
  /\ damageTaken = [p \in Slots |-> 0]

-----------------------------------------------------------------------------
(* Messages of the players                                                 *)

\* validate_reference: this match, a known reservation, and its own hash.
ValidReference(ref) ==
  /\ ref.match = MatchId
  /\ ref.id \in Ids
  /\ ref.hash = ref.id

\* A first offer is stored.  An offer that repeats the stored invoice is
\* accepted whatever the status, and changes nothing.
NewOffer(sender, ref, inv) ==
  /\ ValidReference(ref)
  /\ inv \notin Oversized
  /\ sender = Payee(ref.id)
  /\ invoice[ref.id] = NoInvoice
  /\ status[ref.id] = "AwaitingInvoice"

RepeatedOffer(sender, ref, inv) ==
  /\ ValidReference(ref)
  /\ inv \notin Oversized
  /\ sender = Payee(ref.id)
  /\ invoice[ref.id] = inv

OfferAccepted(sender, ref, inv) ==
  NewOffer(sender, ref, inv) \/ RepeatedOffer(sender, ref, inv)

RegisterInvoiceOffer(sender, ref, inv) ==
  \/ /\ NewOffer(sender, ref, inv)
     /\ invoice' = [invoice EXCEPT ![ref.id] = inv]
     /\ status' = [status EXCEPT ![ref.id] = "Offered"]
     /\ UNCHANGED <<payerFunded, payeeReceived, ledgerVars, historyVars>>
  \/ /\ ~NewOffer(sender, ref, inv)
     /\ UNCHANGED vars

\* Who may report which stage of a reservation.
StageOwner(r, stage) == IF stage = "Funded" THEN Payer(r) ELSE Payee(r)

\* Mutant: a failed reservation may still be reported funded.
AcceptingAfterFailure(stage) ==
  CASE stage = "Funded"    -> {"Offered", "Held", "Failed"}
    [] stage = "Received"  -> {"AwaitingInvoice", "Offered", "Held"}
    [] stage = "Settled"   -> {"Released", "Settled"}
    [] stage = "Cancelled" -> {"CancelPending", "Cancelled"}

\* The reservation states in which an acknowledgement is accepted.  A repeat
\* of Settled or Cancelled is accepted and changes nothing.
Accepting(stage) ==
  CASE stage = "Funded"    -> {"Offered", "Held"}
    [] stage = "Received"  -> {"AwaitingInvoice", "Offered", "Held"}
    [] stage = "Settled"   -> {"Released", "Settled"}
    [] stage = "Cancelled" -> {"CancelPending", "Cancelled"}

AckAccepted(sender, ref, stage) ==
  /\ ValidReference(ref)
  /\ sender = StageOwner(ref.id, stage)
  /\ stage \in {"Funded", "Received"} => invoice[ref.id] # NoInvoice
  /\ status[ref.id] \in Accepting(stage)

\* Mutant: one report is enough.
RecordEitherReport(r, funded, received) ==
  /\ payerFunded' = [payerFunded EXCEPT ![r] = funded]
  /\ payeeReceived' = [payeeReceived EXCEPT ![r] = received]
  /\ status' = [status EXCEPT ![r] = IF funded \/ received THEN "Held" ELSE @]

\* Funded and Received only become Held together.
RecordReadiness(r, funded, received) ==
  /\ payerFunded' = [payerFunded EXCEPT ![r] = funded]
  /\ payeeReceived' = [payeeReceived EXCEPT ![r] = received]
  /\ status' = [status EXCEPT ![r] = IF funded /\ received THEN "Held" ELSE @]

Acknowledge(sender, ref, stage) ==
  \/ /\ AckAccepted(sender, ref, stage)
     /\ \/ /\ stage = "Funded"
           /\ RecordReadiness(ref.id, TRUE, payeeReceived[ref.id])
        \/ /\ stage = "Received"
           /\ RecordReadiness(ref.id, payerFunded[ref.id], TRUE)
        \/ /\ stage \in {"Settled", "Cancelled"}
           /\ status' = [status EXCEPT ![ref.id] = stage]
           /\ UNCHANGED <<payerFunded, payeeReceived>>
     /\ UNCHANGED <<invoice, ledgerVars, historyVars>>
  \/ /\ ~AckAccepted(sender, ref, stage)
     /\ UNCHANGED vars

\* A failure to fund or to receive fails the reservation, whatever its status;
\* a failure to settle or to cancel is only logged.
FailureRecorded(sender, ref, stage) ==
  /\ ValidReference(ref)
  /\ sender = StageOwner(ref.id, stage)
  /\ stage \in {"Funded", "Received"}

RecordFailure(sender, ref, stage) ==
  \/ /\ FailureRecorded(sender, ref, stage)
     /\ status' = [status EXCEPT ![ref.id] = "Failed"]
     /\ UNCHANGED <<invoice, payerFunded, payeeReceived, ledgerVars, historyVars>>
  \/ /\ ~FailureRecorded(sender, ref, stage)
     /\ UNCHANGED vars

-----------------------------------------------------------------------------
(* Calls of the game loop                                                  *)

AllHeld == \A r \in Ids : status[r] = "Held"

\* Mutants: a release leaves its reservation available; the search for a held
\* reservation forgets whose it is.
HeldOrReleasedBy(p) == {r \in IdsOf(p) : status[r] \in {"Held", "Released"}}
HeldByAnyone(p) == {r \in Ids : status[r] = "Held"}

HeldBy(p) == {r \in IdsOf(p) : status[r] = "Held"}

\* Mutant: the sum is kept in a wider integer.
WideAdd(x, y) == x + y

\* u16::saturating_add
SaturatingAdd(x, y) == IF x + y > U16Max THEN U16Max ELSE x + y

\* Mutant: a release clears the remainder.
NothingLeftAfter(total, R) == IF R = {} THEN total ELSE 0

\* What is left of total once a bucket was taken for every reservation of R.
LeftAfter(total, R) == total - Bucket * Cardinality(R)

\* R are the reservations the loop of record_damage releases: it takes the
\* first held one for every full bucket, until less than a bucket is left or
\* nothing is held.
Taken(p, total, R) ==
  /\ R \subseteq HeldBy(p)
  /\ \A r \in R, q \in HeldBy(p) \ R : r < q
  /\ LeftAfter(total, R) >= 0
  /\ LeftAfter(total, R) < Bucket \/ R = HeldBy(p)

\* The loop stops for want of a held reservation: the call returns an error.
CapReached(total, R) == LeftAfter(total, R) >= Bucket

RecordDamage(victim, damage) ==
  LET total == SaturatingAdd(remainder[victim], damage) IN
  \E R \in SUBSET HeldBy(victim) :
    /\ Taken(victim, total, R)
    /\ remainder' = [remainder EXCEPT ![victim] = LeftAfter(total, R)]
    /\ nextSequence' = nextSequence + Cardinality(R)
    /\ releasedTotal' = [releasedTotal EXCEPT
                           ![victim] = @ + Amount * Cardinality(R)]
    /\ status' = [r \in Ids |-> IF r \in R THEN "Released" ELSE status[r]]
    /\ signed' = [r \in Ids |->
                    IF r \in R
                    THEN nextSequence + Cardinality({q \in R : q < r})
                    ELSE signed[r]]
    \* The error returns before the releases already made.
    /\ handed' = IF CapReached(total, R) THEN handed ELSE handed \cup R
    /\ damageTaken' = [damageTaken EXCEPT ![victim] = @ + damage]
    /\ UNCHANGED <<invoice, payerFunded, payeeReceived, cancelAsked>>

\* Mutants: a released reservation still counts as unused; an offered one, whose
\* payment may be under way, does not.
UnusedOrReleased == {r \in Ids : status[r] \in {"Offered", "Held", "Released"}}
UnusedHeld == {r \in Ids : status[r] = "Held"}

Unused == {r \in Ids : status[r] \in {"Offered", "Held"}}

CancelUnused ==
  /\ status' = [r \in Ids |-> IF r \in Unused THEN "CancelPending" ELSE status[r]]
  /\ cancelAsked' = cancelAsked \cup Unused
  /\ UNCHANGED <<invoice, payerFunded, payeeReceived, ledgerVars,
                 signed, handed, damageTaken>>

-----------------------------------------------------------------------------
PlayerMessage ==
  \E sender \in Slots, ref \in Refs :
    \/ \E inv \in Invoices : RegisterInvoiceOffer(sender, ref, inv)
    \/ \E stage \in Stages : Acknowledge(sender, ref, stage)
    \/ \E stage \in Stages : RecordFailure(sender, ref, stage)

Hit ==
  \E victim \in Slots, damage \in Damages :
    /\ damageTaken[victim] + damage <= MaxDamage
    /\ RecordDamage(victim, damage)

Next == PlayerMessage \/ Hit \/ CancelUnused

Spec == Init /\ [][Next]_vars

-----------------------------------------------------------------------------
(* Properties                                                              *)

\* The reservations player p has paid, or owes: a release was signed for them.
SignedFor(p) == {r \in IdsOf(p) : signed[r] # 0}
AllSigned == {r \in Ids : signed[r] # 0}

\* The types of the coordinator's fields.
TypeOK ==
  /\ status \in [Ids -> Statuses]
  /\ invoice \in [Ids -> Invoices \cup {NoInvoice}]
  /\ payerFunded \in [Ids -> BOOLEAN]
  /\ payeeReceived \in [Ids -> BOOLEAN]
  /\ remainder \in [Slots -> 0 .. U16Max]
  /\ nextSequence \in Nat \ {0}
  /\ releasedTotal \in [Slots -> Nat]
  /\ signed \in [Ids -> Nat]
  /\ handed \subseteq Ids
  /\ cancelAsked \subseteq Ids
  /\ damageTaken \in [Slots -> Nat]

\* No order of messages and hits makes a player pay more than the cap he
\* accepted with the match terms (record_damage, released_total).
CapRespected == \A p \in Slots : releasedTotal[p] <= Cap

\* The running totals are those of the signed releases: what a player has
\* released is the price of his own signed reservations, and the sequence
\* numbers on the releases are 1, 2, 3... without a gap or a repeat.
LedgerAgrees ==
  /\ \A p \in Slots : releasedTotal[p] = Amount * Cardinality(SignedFor(p))
  /\ {signed[r] : r \in AllSigned} = 1 .. (nextSequence - 1)
  /\ Cardinality(AllSigned) = nextSequence - 1

\* A preimage is only released for an invoice that was offered, that its payer
\* reported funded and that its payee reported received.
NoUnfundedRelease ==
  \A r \in AllSigned :
    payerFunded[r] /\ payeeReceived[r] /\ invoice[r] # NoInvoice

\* A reservation whose preimage was released is never in a batch of
\* cancellations, before or after the release.
ReleaseExcludesCancel == AllSigned \cap cancelAsked = {}

\* Every point of damage is either in a released bucket or in the remainder;
\* only saturation of the 16-bit remainder may lose some.
DamageAccounted ==
  \A p \in Slots :
    LET counted == remainder[p] + Bucket * Cardinality(SignedFor(p)) IN
      /\ counted <= damageTaken[p]
      /\ damageTaken[p] <= U16Max => counted = damageTaken[p]

\* What the status of a reservation says of the rest of its history.  This is
\* what makes the safety properties above inductive: a release needs a Held
\* reservation, and Held carries both reports and the invoice with it.
StatusSound(r) ==
  /\ status[r] \in {"Offered", "Held"} => invoice[r] # NoInvoice
  /\ status[r] = "Held" => payerFunded[r] /\ payeeReceived[r]
  /\ r \in cancelAsked => status[r] \in {"CancelPending", "Cancelled", "Failed"}
  /\ signed[r] # 0 => /\ status[r] \in {"Released", "Settled", "Failed"}
                      /\ payerFunded[r] /\ payeeReceived[r]
                      /\ invoice[r] # NoInvoice
                      /\ r \notin cancelAsked

IInv ==
  /\ TypeOK
  /\ \A r \in Ids : StatusSound(r)
  /\ LedgerAgrees
  /\ DamageAccounted

\* A reservation is released at most once: the sequence number signed for it
\* never changes again, whatever late or repeated message arrives.
ReleasedOnce ==
  [][\A r \in Ids : signed[r] # 0 => signed'[r] = signed[r]]_vars

\* What docs/architecture.md says of record_damage: every bucket consumes a
\* reservation and its preimage is sent to the payee, so that every release
\* signed is among those record_damage returned to its caller.
ReleasedIsHandedOver == AllSigned \subseteq handed

\* Where the money of reservation r stands, as HoldEscrow sees it.
EscrowOf(r) ==
  CASE signed[r] # 0         -> "paid"
    [] signed[r] = 0 /\ r \in cancelAsked -> "refunded"
    [] signed[r] = 0 /\ r \notin cancelAsked /\ status[r] = "Failed" -> "void"
    [] signed[r] = 0 /\ r \notin cancelAsked /\ status[r] = "Held" -> "held"
    [] OTHER                 -> "open"

Escrow == INSTANCE HoldEscrow WITH
  Reservations <- Ids,
  PayerOf <- [r \in Ids |-> Payer(r)],
  Price <- Amount,
  escrow <- [r \in Ids |-> EscrowOf(r)],
  paid <- releasedTotal

\* The coordinator keeps the promise of HoldEscrow.
ImplementsEscrow == Escrow!EscrowSpec
=============================================================================
