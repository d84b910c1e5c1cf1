---------------------------- MODULE FiberAdapter ----------------------------
(***************************************************************************)
(* The payment workers of the two clients and what they do to the Fiber    *)
(* nodes: FiberRpcClient of src/fiber.rs, as the spawned tasks of the      *)
(* clients call it.  The nodes are not part of the repository; they are    *)
(* modelled from the answers the adapter expects of them.                  *)
(*                                                                         *)
(* A hold is one reservation's invoice at the payee's node together with   *)
(* the payer's payment of it.  A worker makes one or more RPCs; any of     *)
(* them may be refused, or be carried out and its answer lost.  What goes  *)
(* wrong is counted in faults, so that an instance may bound it.           *)
(*                                                                         *)
(* Abstractions.  An invoice either matches its reservation in all the     *)
(* fields validate_invoice compares, or the worker fails before it pays.   *)
(* A poll that changes nothing is no step.  A worker that ended holds its  *)
(* result until the client takes it.                                       *)
(***************************************************************************)
EXTENDS Integers, SequencesExt

CONSTANTS
  Holds,          \* the reservations of the match
  FaultKinds,     \* what may go wrong
  MaxFaults,      \* bound: how often
  ChannelLists    \* what a node may answer to list_channels

\* balance is a u128.
ChannelRecords == [usable : BOOLEAN, balance : Nat]

ASSUME AdapterAssumption ==
  /\ ChannelLists \subseteq Seq(ChannelRecords)
  /\ FaultKinds \subseteq {"rpc", "payment", "expiry", "link", "crash", "late"}
  /\ MaxFaults \in Nat

VARIABLES
  hold,           \* the invoice and its payment at the nodes
  work,           \* work[op][r]: where a worker is
  faults          \* bounded: what went wrong so far

nodeVars == <<hold, work, faults>>

Ops == {"fund", "wait", "settle", "cancel"}
HoldStates ==
  {"none", "Open", "Inflight", "Received", "Paid", "Cancelled", "Expired"}
Busy == {"running", "committing", "polling"}
Ready == {"ok", "failed"}
WorkStates == {"none", "drained", "killed"} \cup Busy \cup Ready

AdapterInit ==
  /\ hold = [r \in Holds |-> "none"]
  /\ work = [op \in Ops |-> [r \in Holds |-> "none"]]
  /\ faults = 0

Works(op, r, from, to) ==
  /\ work[op][r] = from
  /\ work' = [work EXCEPT ![op][r] = to]

Becomes(r, new) == hold' = [hold EXCEPT ![r] = new]

Fault(kind) ==
  /\ kind \in FaultKinds /\ faults < MaxFaults
  /\ faults' = faults + 1

\* Mutant: a channel need not be usable.
GreaterOf(best, channel) == IF channel.balance > best THEN channel.balance ELSE best

\* A channel takes the place of the best so far when it is ready, enabled, may
\* send, and has the greater local balance.  -1 is none so far.
BetterOf(best, channel) ==
  IF channel.usable /\ channel.balance > best THEN channel.balance ELSE best

\* The outbound balance select_direct_channel answers, or -1 where it fails.
SelectDirectChannel(channels, required) ==
  LET best == FoldLeft(BetterOf, -1, channels) IN
  IF best < required THEN -1 ELSE best

-----------------------------------------------------------------------------
(* The nodes on their own                                                  *)

\* What invoice_status reads in an answer: the payee's node does not know of a
\* payment that has not arrived.
InvoiceStatus(r) == IF hold[r] = "Inflight" THEN "Open" ELSE hold[r]

PaymentArrives(r) ==
  /\ hold[r] = "Inflight"
  /\ Becomes(r, "Received")
  /\ UNCHANGED <<work, faults>>

PaymentFails(r) ==
  /\ hold[r] = "Inflight" /\ Fault("payment")
  /\ Becomes(r, "Open")
  /\ UNCHANGED work

\* The expiry of the invoice, or the timeout of the payment held for it.
HoldExpires(r) ==
  /\ InvoiceStatus(r) \in {"Open", "Received"} /\ Fault("expiry")
  /\ Becomes(r, "Expired")
  /\ UNCHANGED work

-----------------------------------------------------------------------------
(* create_hold_invoice, in a client's setup                                *)

CreateHoldInvoice(r) ==
  /\ hold[r] = "none"
  /\ Becomes(r, "Open")
  /\ UNCHANGED <<work, faults>>

-----------------------------------------------------------------------------
(* fund_hold_invoice                                                       *)

\* parse_invoice, validate_invoice and the dry run change nothing.
CheckInvoice(r) ==
  /\ Works("fund", r, "running", "committing")
  /\ UNCHANGED <<hold, faults>>

\* One of the three fails, or the payment is refused: no money moved.
FundRefused(r) ==
  /\ Works("fund", r, "running", "failed") \/ Works("fund", r, "committing", "failed")
  /\ Fault("rpc")
  /\ UNCHANGED hold

\* The payer's node starts the payment.  It does not know whether the invoice
\* can still be paid.
PaidInto(r) == IF hold[r] = "Open" THEN "Inflight" ELSE hold[r]

SendPayment(r) ==
  /\ Becomes(r, PaidInto(r))
  /\ \/ Works("fund", r, "committing", "ok") /\ UNCHANGED faults
     \/ Works("fund", r, "committing", "failed") /\ Fault("rpc")

-----------------------------------------------------------------------------
(* wait_invoice_received                                                   *)

\* Mutant: an open invoice will do.
OpenOrReceived(r) == InvoiceStatus(r) \in {"Open", "Received", "Paid"}

ReceivedSeen(r) == InvoiceStatus(r) \in {"Received", "Paid"}

GivenUp(r) == InvoiceStatus(r) \in {"Cancelled", "Expired"}

WaitInvoiceReceived(r) ==
  /\ \/ ReceivedSeen(r) /\ Works("wait", r, "running", "ok") /\ UNCHANGED faults
     \/ GivenUp(r) /\ Works("wait", r, "running", "failed") /\ UNCHANGED faults
     \* The deadline, or a poll that fails.  The deadline passes for certain,
     \* even when the bound on faults is reached.
     \/ /\ Works("wait", r, "running", "failed")
        /\ Fault("rpc") \/ (faults = MaxFaults /\ UNCHANGED faults)
  /\ UNCHANGED hold

-----------------------------------------------------------------------------
(* settle_hold_invoice, cancel_hold_invoice                                *)

\* settle_invoice, with the preimage.
SettleInvoice(r) ==
  \/ /\ hold[r] = "Received"
     /\ Becomes(r, "Paid")
     /\ \/ Works("settle", r, "running", "polling") /\ UNCHANGED faults
        \/ Works("settle", r, "running", "failed") /\ Fault("rpc")
  \/ /\ hold[r] # "Received"
     /\ Works("settle", r, "running", "failed")
     /\ UNCHANGED <<hold, faults>>
  \/ /\ Works("settle", r, "running", "failed") /\ Fault("rpc")
     /\ UNCHANGED hold

\* Then it polls until the invoice is Paid.
WaitPaid(r) ==
  /\ \/ Works("settle", r, "polling", "ok") /\ UNCHANGED faults
     \/ Works("settle", r, "polling", "failed") /\ Fault("rpc")
  /\ InvoiceStatus(r) = "Paid"
  /\ UNCHANGED hold

CancelHoldInvoice(r) ==
  \/ /\ InvoiceStatus(r) \in {"Open", "Received"}
     /\ Becomes(r, "Cancelled")
     /\ \/ Works("cancel", r, "running", "ok") /\ UNCHANGED faults
        \/ Works("cancel", r, "running", "failed") /\ Fault("rpc")
  \/ /\ InvoiceStatus(r) \notin {"Open", "Received"}
     /\ Works("cancel", r, "running", "failed")
     /\ UNCHANGED <<hold, faults>>
  \/ /\ Works("cancel", r, "running", "failed") /\ Fault("rpc")
     /\ UNCHANGED hold

-----------------------------------------------------------------------------
Node(r) == PaymentArrives(r) \/ PaymentFails(r) \/ HoldExpires(r)

Worker(r) ==
  \/ CheckInvoice(r) \/ FundRefused(r) \/ SendPayment(r)
  \/ WaitInvoiceReceived(r)
  \/ SettleInvoice(r) \/ WaitPaid(r)
  \/ CancelHoldInvoice(r)

AdapterTypeOK ==
  /\ hold \in [Holds -> HoldStates]
  /\ work \in [Ops -> [Holds -> WorkStates]]
  /\ faults \in 0 .. MaxFaults
=============================================================================
