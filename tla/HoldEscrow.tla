----------------------------- MODULE HoldEscrow -----------------------------
(***************************************************************************)
(* What the arena promises about the money of one match, reservation by    *)
(* reservation, with none of the machinery that keeps the promise.         *)
(*                                                                         *)
(* A reservation starts open.  It may become held, once, and a held one    *)
(* may be paid, once.  One that is not paid may be refunded or voided,     *)
(* after which it is never paid.  What a player has paid is exactly the    *)
(* price of his paid reservations.  Settlement implements this module.     *)
(***************************************************************************)
EXTENDS Integers, FiniteSets

CONSTANTS
  Reservations,   \* the reservations of the match terms
  Slots,          \* the two seats
  PayerOf,        \* PayerOf[r]: the seat that pays reservation r
  Price           \* what one reservation is worth

VARIABLES
  escrow,         \* escrow[r]: where the money of reservation r stands
  paid            \* paid[p]: what seat p has paid so far

escrowVars == <<escrow, paid>>

EscrowStates == {"open", "held", "paid", "refunded", "void"}

Undecided(r) == escrow[r] \in {"open", "held"}

EscrowInit ==
  /\ escrow = [r \in Reservations |-> "open"]
  /\ paid = [p \in Slots |-> 0]

Hold(r) ==
  /\ escrow[r] = "open"
  /\ escrow' = [escrow EXCEPT ![r] = "held"]
  /\ UNCHANGED paid

\* One hit may cost several reservations of the player hit, and no one else's.
Pay(p, R) ==
  /\ R # {}
  /\ \A r \in R : PayerOf[r] = p /\ escrow[r] = "held"
  /\ escrow' = [r \in Reservations |-> IF r \in R THEN "paid" ELSE escrow[r]]
  /\ paid' = [paid EXCEPT ![p] = @ + Price * Cardinality(R)]

Refund(R) ==
  /\ \A r \in R : Undecided(r)
  /\ escrow' = [r \in Reservations |->
                  IF r \in R THEN "refunded" ELSE escrow[r]]
  /\ UNCHANGED paid

Void(r) ==
  /\ Undecided(r)
  /\ escrow' = [escrow EXCEPT ![r] = "void"]
  /\ UNCHANGED paid

EscrowNext ==
  \/ \E r \in Reservations : Hold(r) \/ Void(r)
  \/ \E R \in SUBSET Reservations :
       Refund(R) \/ \E p \in Slots : Pay(p, R)

EscrowSpec == EscrowInit /\ [][EscrowNext]_escrowVars
=============================================================================
