---------------------------- MODULE ArenaServer ----------------------------
(***************************************************************************)
(* The main loop of src/bin/arena-server.rs, one match, composed with its  *)
(* SettlementCoordinator.                                                  *)
(*                                                                         *)
(* The loop is one thread.  Each turn drains the connection events, issues *)
(* the terms, forfeits, handles the messages, starts the match, runs the   *)
(* simulation and checks the exit timers, in this order; step says where   *)
(* the turn is.  The outside only shows in the drain, in the messages and  *)
(* in the clock.                                                           *)
(*                                                                         *)
(* Abstractions.  A client is its seat: the loop admits one client to a    *)
(* seat, and a rejected client leaves no trace.  The simulation may land a *)
(* hit of either player in every tick, for any of Damages; aim, cooldown   *)
(* and input are left out.  The variables of Settlement are those of the   *)
(* coordinator, at their initial values until the terms are issued.        *)
(***************************************************************************)
EXTENDS Settlement, Sequences

CONSTANTS
  Health,         \* what a duelist starts with
  ExitTimers,     \* the exit delays configured, out of Timers
  Nobody          \* no seat

\* --exit-if-no-clients-ms, --exit-when-empty-ms, --exit-after-match-ms
Timers == {"startup", "empty", "grace"}

ASSUME ArenaAssumption ==
  /\ Health \in Nat \ {0}
  /\ ExitTimers \subseteq Timers
  /\ Nobody \notin Slots

VARIABLES
  step,           \* where the turn of the loop is
  connected,      \* clients: the seats taken
  firstGone,      \* disconnected: the seat that left first in this drain
  issued,         \* settlement.is_some()
  accepted,       \* accepted
  started,        \* started
  ended,          \* ended; ended_at is set with it
  sim,            \* the simulation: phase and health
  events,         \* the events of the tick still to be handled
  sawClient,      \* saw_authenticated_client
  empty,          \* empty_since is set
  elapsed,        \* the delays that are over
  sent,           \* history: messages about reservations sent to a client
  repeated,       \* history: releases and cancellations sent again
  verdicts,       \* history: the winners broadcast with MatchEnded
  leaver          \* history: the first seat to leave a match with terms, not ended

sessionVars == <<connected, firstGone, accepted, sawClient>>
matchVars == <<issued, started, ended>>
clockVars == <<empty, elapsed>>
serverHistory == <<sent, repeated, verdicts, leaver>>
loopVars == <<step, sessionVars, matchVars, sim, events, clockVars, serverHistory>>
serverVars == <<vars, loopVars>>

Phase(kind, who) == [kind |-> kind, who |-> who]
Waiting == Phase("Waiting", Nobody)
Live == Phase("Live", Nobody)
PaymentPaused(payer) == Phase("PaymentPaused", payer)
Ended(winner) == Phase("Ended", winner)

ServerInit ==
  /\ Init
  /\ step = "drain"
  /\ connected = {} /\ firstGone = Nobody /\ accepted = {} /\ sawClient = FALSE
  /\ issued = FALSE /\ started = FALSE /\ ended = FALSE
  /\ sim = [phase |-> Waiting, health |-> [s \in Slots |-> Health]]
  /\ events = <<>>
  /\ empty = FALSE /\ elapsed = {}
  /\ sent = {} /\ repeated = {} /\ verdicts = <<>> /\ leaver = Nobody

Goto(from, to) == step = from /\ step' = to

\* Offers are forwarded to the payer; releases and cancellations go to the payee.
Recipient(kind, r) == IF kind = "offer" THEN Payer(r) ELSE Payee(r)

\* send_reliable_to_slot, for each reservation of R: the client of the seat
\* gets the message, or no one does.  That an offer is forwarded again, when
\* its payee repeats it, is not remembered.
Sending(kind, R) ==
  LET now == {<<kind, r>> : r \in {q \in R : Recipient(kind, q) \in connected}} IN
  /\ sent' = sent \cup now
  /\ repeated' = IF kind = "offer" THEN repeated ELSE repeated \cup (sent \cap now)

-----------------------------------------------------------------------------
(* handle_connections                                                      *)

\* A client is bound to a free seat; once there are terms it is turned away.
Connect(s) ==
  /\ step = "drain"
  /\ ~issued
  /\ s \notin connected
  /\ connected' = connected \cup {s}
  /\ UNCHANGED <<vars, step, firstGone, accepted, sawClient, matchVars, sim,
                 events, clockVars, serverHistory>>

Disconnect(s) ==
  /\ step = "drain"
  /\ s \in connected
  /\ connected' = connected \ {s}
  /\ accepted' = accepted \ {s}
  /\ firstGone' = IF firstGone = Nobody THEN s ELSE firstGone
  /\ leaver' = IF issued /\ ~ended /\ leaver = Nobody THEN s ELSE leaver
  /\ UNCHANGED <<vars, step, sawClient, matchVars, sim, events, clockVars,
                 sent, repeated, verdicts>>

\* Mutant: the server only counts as empty in the turn its last client left.
JustEmptied == sawClient /\ ~issued /\ connected = {} /\ firstGone # Nobody

Emptied == sawClient /\ ~issued /\ connected = {}

\* The end of the drain, and the timer of an empty server.
Drained ==
  /\ Goto("drain", "bind")
  /\ sawClient' = (sawClient \/ connected # {})
  /\ empty' = Emptied
  /\ elapsed' = IF empty' THEN elapsed ELSE elapsed \ {"empty"}
  /\ UNCHANGED <<vars, connected, firstGone, accepted, matchVars, sim, events,
                 serverHistory>>

-----------------------------------------------------------------------------
(* Terms, forfeit, messages, start                                         *)

IssueTerms ==
  /\ Goto("bind", "forfeit")
  /\ issued' = (issued \/ connected = Slots)
  /\ UNCHANGED <<vars, sessionVars, started, ended, sim, events, clockVars,
                 serverHistory>>

\* Mutant: when both have left, the first to leave wins.
FirstGoneWins(w) ==
  \/ w \in connected
  \/ connected = {} /\ w = firstGone

\* Some connected seat, in no particular order, or the opponent of the first
\* that left.
ForfeitWinner(w) ==
  \/ w \in connected
  \/ connected = {} /\ w = Opponent(firstGone)

\* The end of the match: the unused invoices are cancelled and the winner is
\* announced to all.
EndMatch(winner) ==
  /\ CancelUnused
  /\ Sending("cancel", Unused)
  /\ verdicts' = Append(verdicts, winner)
  /\ ended' = TRUE

\* Mutant: a forfeit does not look whether the match is over.
AnyDisconnect == issued /\ firstGone # Nobody

ForfeitDue == ~ended /\ firstGone # Nobody /\ issued

Forfeit ==
  /\ Goto("forfeit", "receive")
  /\ ForfeitDue
  /\ \E winner \in Slots :
       /\ ForfeitWinner(winner)
       /\ EndMatch(winner)
       /\ sim' = [sim EXCEPT !.phase = Ended(winner)]
  /\ firstGone' = Nobody
  /\ UNCHANGED <<connected, accepted, sawClient, issued, started, events,
                 clockVars, leaver>>

NoForfeit ==
  /\ Goto("forfeit", "receive")
  /\ ~ForfeitDue
  /\ firstGone' = Nobody
  /\ UNCHANGED <<vars, connected, accepted, sawClient, matchVars, sim, events,
                 clockVars, serverHistory>>

\* handle_client_messages reads the messages of seated clients only.
MayReceive(s) == step = "receive" /\ issued /\ s \in connected

AcceptTerms(s) ==
  /\ MayReceive(s)
  /\ accepted' = accepted \cup {s}
  /\ UNCHANGED <<vars, step, connected, firstGone, sawClient, matchVars, sim,
                 events, clockVars, serverHistory>>

\* An accepted offer is forwarded to the payer.
ReceiveOffer(s, ref, inv) ==
  /\ MayReceive(s)
  /\ RegisterInvoiceOffer(s, ref, inv)
  /\ \/ OfferAccepted(s, ref, inv) /\ Sending("offer", {ref.id})
     \/ ~OfferAccepted(s, ref, inv) /\ UNCHANGED <<sent, repeated>>
  /\ UNCHANGED <<step, sessionVars, matchVars, sim, events, clockVars,
                 verdicts, leaver>>

ReceiveReport(s, ref, stage) ==
  /\ MayReceive(s)
  /\ Acknowledge(s, ref, stage) \/ RecordFailure(s, ref, stage)
  /\ UNCHANGED loopVars

\* Mutant: both seats and both acceptances are enough.
AcceptedByBoth ==
  /\ ~started /\ ~ended
  /\ connected = Slots /\ accepted = Slots
  /\ issued

ReadyToStart ==
  /\ ~started /\ ~ended
  /\ connected = Slots /\ accepted = Slots
  /\ issued /\ AllHeld

StartMatch ==
  /\ Goto("receive", "tick")
  /\ ReadyToStart
  /\ started' = TRUE
  /\ sim' = [sim EXCEPT !.phase = Live]
  /\ UNCHANGED <<vars, sessionVars, issued, ended, events, clockVars,
                 serverHistory>>

NoStart ==
  /\ Goto("receive", "tick")
  /\ ~ReadyToStart
  /\ UNCHANGED <<vars, sessionVars, matchVars, sim, events, clockVars,
                 serverHistory>>

-----------------------------------------------------------------------------
(* The ticks                                                               *)

Damage(victim, amount) ==
  [kind |-> "Damage", victim |-> victim, amount |-> amount]
Death(victim) == [kind |-> "Death", victim |-> victim, amount |-> 0]

Event == {Damage(v, d) : v \in Slots, d \in Damages} \cup {Death(v) : v \in Slots}

\* Mutant: B still fires after A has killed him.
DeadManFires(blowA, blowB) == blowB

\* A fires first.  B does not fire when that ended the match.  A blow of 0 is
\* no hit.
ReturnBlow(blowA, blowB) == IF blowA >= sim.health["B"] THEN 0 ELSE blowB

EventsOf(victim, blow) ==
  IF blow = 0 THEN <<>>
  ELSE IF blow >= sim.health[victim] THEN <<Damage(victim, blow), Death(victim)>>
  ELSE <<Damage(victim, blow)>>

Tick(blowA, blowB) ==
  LET back == ReturnBlow(blowA, blowB)
      left == [s \in Slots |->
                 LET blow == IF s = "A" THEN back ELSE blowA IN
                 IF blow >= sim.health[s] THEN 0 ELSE sim.health[s] - blow]
  IN
  /\ step = "tick" /\ events = <<>>
  /\ started /\ ~ended /\ sim.phase = Live
  /\ events' = EventsOf("B", blowA) \o EventsOf("A", back)
  /\ sim' = [phase |-> IF left["B"] = 0 THEN Ended("A")
                       ELSE IF left["A"] = 0 THEN Ended("B")
                       ELSE Live,
             health |-> left]
  /\ UNCHANGED <<vars, step, sessionVars, matchVars, clockVars, serverHistory>>

\* Mutant: any damage left over pauses the match.
AnythingLeft(victim) == remainder'[victim] > 0

\* record_damage left a full bucket: it returned PaymentCapReached.
OutOfInvoices(victim) == remainder'[victim] >= Bucket

\* The releases record_damage returned: those it signed, but for its error.
Returned(victim) ==
  IF OutOfInvoices(victim) THEN {} ELSE {r \in Ids : signed'[r] # signed[r]}

\* The releases are sent to the payee.  On the error the match pauses.
HandleDamage ==
  /\ events # <<>> /\ Head(events).kind = "Damage"
  /\ LET victim == Head(events).victim IN
       /\ RecordDamage(victim, Head(events).amount)
       /\ Sending("release", Returned(victim))
       /\ sim' = IF OutOfInvoices(victim)
                 THEN [sim EXCEPT !.phase = PaymentPaused(victim)] ELSE sim
  /\ events' = Tail(events)
  /\ UNCHANGED <<step, sessionVars, matchVars, clockVars, verdicts, leaver>>

HandleDeath ==
  /\ events # <<>> /\ Head(events).kind = "Death"
  /\ EndMatch(Opponent(Head(events).victim))
  /\ events' = Tail(events)
  /\ UNCHANGED <<step, sessionVars, issued, started, sim, clockVars, leaver>>

Ticked ==
  /\ Goto("tick", "exit")
  /\ events = <<>>
  /\ UNCHANGED <<vars, sessionVars, matchVars, sim, events, clockVars,
                 serverHistory>>

-----------------------------------------------------------------------------
(* The exit timers                                                         *)

\* Mutant: the grace period never counts.
WithoutGrace(t) ==
  \/ t = "startup" /\ ~sawClient
  \/ t = "empty" /\ empty

Counting(t) ==
  \/ t = "startup" /\ ~sawClient
  \/ t = "empty" /\ empty
  \/ t = "grace" /\ ended

Elapse(t) ==
  /\ t \in ExitTimers \ elapsed
  /\ Counting(t)
  /\ step # "exited"
  /\ elapsed' = elapsed \cup {t}
  /\ UNCHANGED <<vars, step, sessionVars, matchVars, sim, events, empty,
                 serverHistory>>

Over == \E t \in elapsed : Counting(t)

Exit ==
  /\ step = "exit"
  /\ step' = IF Over THEN "exited" ELSE "drain"
  /\ UNCHANGED <<vars, sessionVars, matchVars, sim, events, clockVars,
                 serverHistory>>

-----------------------------------------------------------------------------
Turn ==
  \/ Drained \/ IssueTerms \/ Forfeit \/ NoForfeit \/ StartMatch \/ NoStart
  \/ HandleDamage \/ HandleDeath \/ Ticked \/ Exit

Client(s) ==
  \/ Connect(s) \/ Disconnect(s) \/ AcceptTerms(s)
  \/ \E ref \in Refs :
       \/ \E inv \in Invoices : ReceiveOffer(s, ref, inv)
       \/ \E stage \in Stages : ReceiveReport(s, ref, stage)

Fight == \E blowA, blowB \in Damages \cup {0} : Tick(blowA, blowB)

ServerNext ==
  Turn \/ Fight \/ (\E s \in Slots : Client(s)) \/ (\E t \in Timers : Elapse(t))

ServerSpec == ServerInit /\ [][ServerNext]_serverVars

\* The loop goes on and time passes.  Clients need not do anything.
ServerFairness ==
  /\ WF_serverVars(Turn)
  /\ \A t \in Timers : WF_serverVars(Elapse(t))

FairServerSpec == ServerSpec /\ ServerFairness

-----------------------------------------------------------------------------
(* Properties                                                              *)

Steps == {"drain", "bind", "forfeit", "receive", "tick", "exit", "exited"}

\* The types of the loop's state.  A tick yields at most three events: a death
\* ends it (MatchSimulation::tick).
ServerTypeOK ==
  /\ TypeOK
  /\ step \in Steps
  /\ connected \subseteq Slots /\ accepted \subseteq Slots
  /\ firstGone \in Slots \cup {Nobody} /\ leaver \in Slots \cup {Nobody}
  /\ issued \in BOOLEAN /\ started \in BOOLEAN /\ ended \in BOOLEAN
  /\ sawClient \in BOOLEAN /\ empty \in BOOLEAN
  /\ sim.phase \in {Waiting, Live} \cup {PaymentPaused(s) : s \in Slots}
                                  \cup {Ended(s) : s \in Slots}
  /\ sim.health \in [Slots -> 0 .. Health]
  /\ events \in Seq(Event) /\ Len(events) <= 3
  /\ elapsed \subseteq Timers
  /\ sent \subseteq {"offer", "release", "cancel"} \X Ids /\ repeated \subseteq sent

\* A match has one winner: whatever deaths, disconnects and pauses fall
\* together, MatchEnded is broadcast once and never taken back.
OneVerdict == Len(verdicts) = IF ended THEN 1 ELSE 0

\* Who falls loses, and at once: when the events of the tick are handled the
\* opponent has won, even if a hit of the same tick paused the match, and two
\* players never fall together (the event loop of main, MatchSimulation::tick).
FallenLoses ==
  \A s \in Slots :
    sim.health[s] = 0
      => verdicts = IF events = <<>> THEN <<Opponent(s)>> ELSE <<>>

\* Who leaves a match first does not win it by the other leaving too, even
\* when the loop only sees both disconnects in one drain (winner, line 249).
LeaverNeverWins ==
  [][step = "forfeit" /\ verdicts' # verdicts /\ leaver # Nobody
       => verdicts' = <<Opponent(leaver)>>]_serverVars

\* No payee is both sent the preimage of a reservation and told to cancel it.
NotBothWays ==
  \A r \in Ids : ~(<<"release", r>> \in sent /\ <<"cancel", r>> \in sent)

\* Once the match has started every reservation has been funded and received,
\* whatever is reported, failed or cancelled during play.
PlayIsEscrowed ==
  started => \A r \in Ids :
    /\ invoice[r] # NoInvoice /\ payerFunded[r] /\ payeeReceived[r]
    /\ status[r] \notin {"AwaitingInvoice", "Offered"}

\* The match only pauses for a player who has no held reservation left.
PauseMeansExhausted ==
  \A p \in Slots : sim.phase = PaymentPaused(p) => HeldBy(p) = {}

\* Every release signed for a payee who is still there was sent to him, unless
\* its payer ran out of reservations: then a full bucket of damage is left.
\* None was sent to him twice.
PaidUnlessExhausted ==
  \A r \in Ids :
    /\ signed[r] # 0 /\ Payee(r) \in connected /\ remainder[Payer(r)] < Bucket
         => <<"release", r>> \in sent
    /\ <<"release", r>> \notin repeated

\* A match that ended by a death or by a disconnect under the terms holds
\* nobody's money: no reservation is Held, or becomes Held by a report that
\* was still under way (cancel_unused, acknowledge).
NothingHeldAfterEnd ==
  ended /\ (leaver # Nobody \/ started) => \A r \in Ids : status[r] # "Held"

\* After such an end the money of a payee who is there comes back, but for a
\* failure: each funded invoice that no release was signed for was sent to him
\* to be cancelled, unless one of the two reported a failure of it.  However a
\* match ends, no invoice is sent twice to be cancelled (cancel_unused,
\* record_failure, send_reliable_to_slot).
CancelledUnlessFailed ==
  /\ ended /\ (leaver # Nobody \/ started) =>
       \A r \in Ids :
         payerFunded[r] /\ signed[r] = 0 /\ Payee(r) \in connected
           => <<"cancel", r>> \in sent \/ status[r] = "Failed"
  /\ \A r \in Ids : <<"cancel", r>> \notin repeated

\* With an exit delay after the match, a server whose match ended exits.
EndedServerExits == ended ~> step = "exited"

\* With its exit delays configured, a server that stays empty exits: nobody
\* came, or all left before the terms, or all left after them.
EmptyServerExits ==
  connected = {} ~> (connected # {} \/ step = "exited")

\* docs/public-matchmaking.md says that a disconnect after the terms exist
\* awards a forfeit: no match that never started ends while nobody has left it
\* under the terms.
ForfeitFollowsDeparture == ended /\ ~started => leaver # Nobody

\* README.md says that unused invoices are cancelled at match end: a payee who
\* is there is told to cancel every funded invoice that was not released.
UnusedAreCancelled ==
  ended /\ leaver # Nobody =>
    \A r \in Ids :
      payerFunded[r] /\ signed[r] = 0 /\ Payee(r) \in connected
        => <<"cancel", r>> \in sent
=============================================================================
