------------------------- MODULE ArenaServerProofs -------------------------
(***************************************************************************)
(* What the server keeps of its coordinator's promises, for every value of *)
(* the constants.  The lemmas of SettlementProofs carry the ledger through *)
(* each call the loop makes; ServerInv adds what the loop itself has to    *)
(* get right: the events it handles, the messages it sends, and the start. *)
(***************************************************************************)
EXTENDS ArenaServer, SettlementProofs, SequenceTheorems

\* A message about a reservation is only sent for what the coordinator did.
SentSound ==
  \A r \in Ids :
    /\ <<"release", r>> \in sent => signed[r] # 0
    /\ <<"cancel", r>> \in sent => r \in cancelAsked

\* No release and no cancellation is sent again.
SentOnce ==
  \A k \in {"release", "cancel"}, r \in Ids : <<k, r>> \notin repeated

ServerInv ==
  /\ IInv
  /\ events \in Seq(Event)
  /\ SentSound
  /\ SentOnce
  /\ PlayIsEscrowed

-----------------------------------------------------------------------------
(* The calls of the coordinator                                            *)

\* The coordinator as new() makes it is sound.
LEMMA InitIInv == Init => IInv
BY InitTypeOK, InitSound, InitLedger DEF IInv

\* A player's message keeps the coordinator's invariant, signs nothing, and
\* leaves a reservation that is past its preparation past it.
LEMMA MessageKeeps ==
  ASSUME IInv, NEW s \in Slots, NEW ref \in Refs,
         \/ \E inv \in Invoices : RegisterInvoiceOffer(s, ref, inv)
         \/ \E stage \in Stages : Acknowledge(s, ref, stage)
         \/ \E stage \in Stages : RecordFailure(s, ref, stage)
  PROVE  IInv' /\ UNCHANGED historyVars
<1>1. PlayerMessage
  BY DEF PlayerMessage
<1>2. [Next]_vars
  BY <1>1 DEF Next
<1>3. IInv'
  BY <1>2, StepTypeOK, StepSound, StepLedger DEF IInv
<1>4. UNCHANGED historyVars
  BY DEF RegisterInvoiceOffer, Acknowledge, RecordFailure, vars, historyVars
<1> QED
  BY <1>3, <1>4

\* What PlayIsEscrowed says of one reservation.
Escrowed(r) ==
  /\ invoice[r] # NoInvoice /\ payerFunded[r] /\ payeeReceived[r]
  /\ status[r] \notin {"AwaitingInvoice", "Offered"}

\* No late message takes a reservation back to its preparation.
LEMMA MessageEscrowed ==
  ASSUME IInv, NEW s \in Slots, NEW ref \in Refs, NEW r \in Ids, Escrowed(r),
         \/ \E inv \in Invoices : RegisterInvoiceOffer(s, ref, inv)
         \/ \E stage \in Stages : Acknowledge(s, ref, stage)
         \/ \E stage \in Stages : RecordFailure(s, ref, stage)
  PROVE  Escrowed(r)'
<1>0. TypeOK
  BY DEF IInv
<1>1. CASE \E inv \in Invoices : RegisterInvoiceOffer(s, ref, inv)
  BY <1>0, <1>1 DEF RegisterInvoiceOffer, NewOffer, Escrowed, TypeOK, vars,
                    reservationVars
<1>2. CASE \E stage \in Stages : Acknowledge(s, ref, stage)
  <2>1. PICK stage \in Stages : Acknowledge(s, ref, stage)
    BY <1>2
  <2>2. CASE ~AckAccepted(s, ref, stage)
    BY <2>1, <2>2 DEF Acknowledge, Escrowed, vars, reservationVars
  <2>3. CASE AckAccepted(s, ref, stage)
    <3>1. UNCHANGED invoice
      BY <2>1, <2>3 DEF Acknowledge
    <3>2. CASE stage = "Funded" \/ stage = "Received"
      <4>1. \/ RecordReadiness(ref.id, TRUE, payeeReceived[ref.id])
            \/ RecordReadiness(ref.id, payerFunded[ref.id], TRUE)
        BY <2>1, <2>3, <3>2 DEF Acknowledge
      <4>2. CASE r = ref.id
        <5>1. payerFunded[ref.id] = TRUE /\ payeeReceived[ref.id] = TRUE
          BY <1>0, <4>2 DEF Escrowed, TypeOK
        <5>2. RecordReadiness(ref.id, TRUE, TRUE)
          BY <4>1, <5>1
        <5> QED
          BY <1>0, <3>1, <4>2, <5>2 DEF RecordReadiness, Escrowed, TypeOK
      <4>3. CASE r # ref.id
        BY <1>0, <3>1, <4>1, <4>3 DEF RecordReadiness, Escrowed, TypeOK
      <4> QED
        BY <4>2, <4>3
    <3>3. CASE stage \in {"Settled", "Cancelled"}
      <4>1. /\ status' = [status EXCEPT ![ref.id] = stage]
            /\ UNCHANGED <<payerFunded, payeeReceived>>
        BY <2>1, <2>3, <3>3 DEF Acknowledge
      <4> QED
        BY <1>0, <3>1, <3>3, <4>1 DEF Escrowed, TypeOK
    <3> QED
      BY <3>2, <3>3 DEF Stages
  <2> QED
    BY <2>2, <2>3
<1>3. CASE \E stage \in Stages : RecordFailure(s, ref, stage)
  BY <1>0, <1>3 DEF RecordFailure, Escrowed, TypeOK, vars, reservationVars
<1> QED
  BY <1>1, <1>2, <1>3

\* record_damage signs once, and takes a reservation to Released or leaves it.
LEMMA DamageKeeps ==
  ASSUME IInv, NEW victim \in Slots, NEW amount \in Damages,
         RecordDamage(victim, amount)
  PROVE  /\ IInv'
         /\ \A r \in Ids : signed[r] # 0 => signed'[r] # 0
         /\ UNCHANGED cancelAsked
         /\ \A r \in Ids : Escrowed(r) => Escrowed(r)'
<1>0. TypeOK /\ (\A r \in Ids : StatusSound(r)) /\ LedgerAgrees /\ DamageAccounted
  BY DEF IInv
<1>1. IInv'
  BY <1>0, RecordDamageTypeOK, DamageSound, DamageLedger DEF IInv
<1>2. PICK R \in SUBSET HeldBy(victim) :
         /\ status' = [r \in Ids |-> IF r \in R THEN "Released" ELSE status[r]]
         /\ signed' = [r \in Ids |->
                         IF r \in R
                         THEN nextSequence + Cardinality({q \in R : q < r})
                         ELSE signed[r]]
         /\ UNCHANGED <<invoice, payerFunded, payeeReceived, cancelAsked>>
  BY DEF RecordDamage
<1>3. R \subseteq Ids
  BY DEF HeldBy, IdsOf
<1>4. \A r \in R : signed'[r] # 0
  <2> SUFFICES ASSUME NEW r \in R
               PROVE  signed'[r] # 0
    OBVIOUS
  <2>1. {q \in R : q < r} \in SUBSET Ids
    BY <1>3
  <2>2. Cardinality({q \in R : q < r}) \in Nat
    BY <2>1, IdSubset
  <2>3. nextSequence \in Nat \ {0}
    BY <1>0 DEF TypeOK
  <2>4. signed'[r] = nextSequence + Cardinality({q \in R : q < r})
    BY <1>2, <1>3
  <2> HIDE <1>2
  <2> QED
    BY <2>2, <2>3, <2>4
<1>5. \A r \in Ids : signed[r] # 0 => signed'[r] # 0
  BY <1>2, <1>4
<1>6. \A r \in Ids : Escrowed(r) => Escrowed(r)'
  BY <1>2 DEF Escrowed
<1> QED
  BY <1>1, <1>2, <1>5, <1>6

\* cancel_unused touches no release, and no reservation goes back.
LEMMA CancelKeeps ==
  ASSUME IInv, CancelUnused
  PROVE  /\ IInv'
         /\ UNCHANGED signed
         /\ cancelAsked' = cancelAsked \cup Unused
         /\ \A r \in Ids : Escrowed(r) => Escrowed(r)'
<1>1. [Next]_vars
  BY DEF Next
<1>2. IInv'
  BY <1>1, StepTypeOK, StepSound, StepLedger DEF IInv
<1> QED
  BY <1>2 DEF CancelUnused, Escrowed

\* Steps of the loop that do not call the coordinator.
LEMMA CoordinatorKept ==
  ASSUME IInv, UNCHANGED vars
  PROVE  IInv'
<1>1. [Next]_vars
  OBVIOUS
<1> QED
  BY <1>1, StepTypeOK, StepSound, StepLedger DEF IInv

-----------------------------------------------------------------------------
(* The loop                                                                *)

LEMMA InitServerInv == ServerInit => ServerInv
<1> SUFFICES ASSUME ServerInit
             PROVE  ServerInv
  OBVIOUS
<1>1. IInv
  BY InitIInv DEF ServerInit
<1>2. events \in Seq(Event)
  BY DEF ServerInit
<1> QED
  BY <1>1, <1>2 DEF ServerInit, Init, ServerInv, SentSound, SentOnce,
                    PlayIsEscrowed

\* A step that leaves the coordinator, the match and its events alone.
LEMMA LoopKeeps ==
  ASSUME ServerInv, UNCHANGED <<vars, started, events, sent, repeated>>
  PROVE  ServerInv'
<1>1. IInv'
  BY CoordinatorKept DEF ServerInv
<1> QED
  BY <1>1 DEF ServerInv, SentSound, SentOnce, PlayIsEscrowed, vars,
              reservationVars, historyVars

\* A message sent about reservations of R is about one of R.
LEMMA SentAbout ==
  ASSUME NEW kind, NEW R \in SUBSET Ids, Sending(kind, R)
  PROVE  \A k \in {"offer", "release", "cancel"}, r \in Ids :
           <<k, r>> \in sent' => <<k, r>> \in sent \/ (k = kind /\ r \in R)
BY DEF Sending

\* Messages about reservations of R that were not sent before.
LEMMA SendsOnce ==
  ASSUME SentOnce, NEW kind \in {"release", "cancel"}, NEW R \in SUBSET Ids,
         Sending(kind, R), \A r \in R : <<kind, r>> \notin sent
  PROVE  SentOnce'
BY DEF SentOnce, Sending

\* handle_client_messages: offers and reports.
LEMMA ReceiveInv ==
  ASSUME ServerInv, NEW s \in Slots, NEW ref \in Refs,
         \/ \E inv \in Invoices : ReceiveOffer(s, ref, inv)
         \/ \E stage \in Stages : ReceiveReport(s, ref, stage)
  PROVE  ServerInv'
<1>1. \/ \E inv \in Invoices : RegisterInvoiceOffer(s, ref, inv)
      \/ \E stage \in Stages : Acknowledge(s, ref, stage)
      \/ \E stage \in Stages : RecordFailure(s, ref, stage)
  BY DEF ReceiveOffer, ReceiveReport
<1>2. IInv' /\ UNCHANGED historyVars
  BY <1>1, MessageKeeps DEF ServerInv
<1>3. UNCHANGED <<started, events>>
  BY DEF ReceiveOffer, ReceiveReport, loopVars, matchVars
<1>4. \A k \in {"release", "cancel"}, r \in Ids :
        /\ <<k, r>> \in sent' => <<k, r>> \in sent
        /\ <<k, r>> \in repeated' => <<k, r>> \in repeated
  <2>1. CASE \E inv \in Invoices : ReceiveOffer(s, ref, inv)
    <3>1. PICK inv \in Invoices : ReceiveOffer(s, ref, inv)
      BY <2>1
    <3>2. CASE OfferAccepted(s, ref, inv) /\ Sending("offer", {ref.id})
      <4>1. {ref.id} \in SUBSET Ids
        BY <3>2 DEF OfferAccepted, NewOffer, RepeatedOffer, ValidReference
      <4> QED
        BY <3>2, <4>1, SentAbout DEF Sending
    <3>3. CASE UNCHANGED <<sent, repeated>>
      BY <3>3
    <3> QED
      BY <3>1, <3>2, <3>3 DEF ReceiveOffer
  <2>2. CASE \E stage \in Stages : ReceiveReport(s, ref, stage)
    BY <2>2 DEF ReceiveReport, loopVars, serverHistory
  <2> QED
    BY <2>1, <2>2
<1>5. SentSound' /\ SentOnce'
  BY <1>2, <1>4 DEF ServerInv, SentSound, SentOnce, historyVars
<1>6. PlayIsEscrowed'
  <2>1. \A r \in Ids : Escrowed(r) => Escrowed(r)'
    BY <1>1, MessageEscrowed DEF ServerInv
  <2> QED
    BY <1>3, <2>1 DEF ServerInv, PlayIsEscrowed, Escrowed
<1> QED
  BY <1>2, <1>3, <1>5, <1>6 DEF ServerInv

\* The end of the match, by a death or by a forfeit.
LEMMA EndInv ==
  ASSUME ServerInv, NEW winner, EndMatch(winner),
         UNCHANGED started, events' \in Seq(Event)
  PROVE  ServerInv'
<1>1. CancelUnused /\ Sending("cancel", Unused)
  BY DEF EndMatch
<1>2. /\ IInv'
      /\ UNCHANGED signed
      /\ cancelAsked' = cancelAsked \cup Unused
      /\ \A r \in Ids : Escrowed(r) => Escrowed(r)'
  BY <1>1, CancelKeeps DEF ServerInv
<1>3. Unused \in SUBSET Ids
  BY DEF Unused
<1>4. \A k \in {"release", "cancel"}, r \in Ids :
        <<k, r>> \in sent'
          => <<k, r>> \in sent \/ (k = "cancel" /\ r \in Unused)
  BY <1>1, <1>3, SentAbout
<1>5. SentSound'
  BY <1>2, <1>4 DEF ServerInv, SentSound
<1>6. SentOnce'
  <2>1. \A r \in Unused : <<"cancel", r>> \notin sent
    BY DEF ServerInv, IInv, StatusSound, SentSound, Unused
  <2> QED
    BY <1>1, <1>3, <2>1, SendsOnce DEF ServerInv
<1>7. PlayIsEscrowed'
  BY <1>2 DEF ServerInv, PlayIsEscrowed, Escrowed
<1> QED
  BY <1>2, <1>5, <1>6, <1>7 DEF ServerInv

\* A start finds every reservation Held, and Held carries both reports.
LEMMA StartInv ==
  ASSUME ServerInv, StartMatch
  PROVE  ServerInv'
<1>1. IInv' /\ UNCHANGED <<vars, events, sent, repeated>>
  BY CoordinatorKept DEF ServerInv, StartMatch, serverHistory
<1>2. \A r \in Ids : status[r] = "Held"
  BY DEF StartMatch, ReadyToStart, AllHeld
<1>3. \A r \in Ids : Escrowed(r)
  BY <1>2 DEF ServerInv, IInv, StatusSound, Escrowed
<1>4. PlayIsEscrowed'
  BY <1>1, <1>3 DEF PlayIsEscrowed, Escrowed, vars, reservationVars
<1> QED
  BY <1>1, <1>4 DEF ServerInv, SentSound, SentOnce, vars, historyVars

LEMMA EventsOfType ==
  ASSUME NEW victim \in Slots, NEW blow \in Damages \cup {0}
  PROVE  EventsOf(victim, blow) \in Seq(Event)
<1>1. CASE blow = 0
  BY <1>1 DEF EventsOf
<1>2. CASE blow # 0
  <2>1. Damage(victim, blow) \in Event /\ Death(victim) \in Event
    BY <1>2 DEF Event
  <2> HIDE DEF Event
  <2> QED
    BY <1>2, <2>1 DEF EventsOf
<1> QED
  BY <1>1, <1>2

\* A tick only makes events of the simulation.
LEMMA TickInv ==
  ASSUME ServerInv, NEW blowA \in Damages \cup {0},
         NEW blowB \in Damages \cup {0}, Tick(blowA, blowB)
  PROVE  ServerInv'
<1> DEFINE back == ReturnBlow(blowA, blowB)
<1>1. back \in Damages \cup {0}
  BY DEF ReturnBlow
<1>2. EventsOf("B", blowA) \in Seq(Event) /\ EventsOf("A", back) \in Seq(Event)
  BY <1>1, EventsOfType DEF Slots
<1>3. events' \in Seq(Event)
  BY <1>2 DEF Tick
<1>4. IInv' /\ UNCHANGED <<vars, started, sent, repeated>>
  BY CoordinatorKept DEF ServerInv, Tick, matchVars, serverHistory
<1> QED
  BY <1>3, <1>4 DEF ServerInv, SentSound, SentOnce, PlayIsEscrowed, vars,
                    reservationVars, historyVars

LEMMA FirstEvent ==
  ASSUME events \in Seq(Event), events # <<>>
  PROVE  /\ Head(events) \in Event
         /\ Tail(events) \in Seq(Event)
OBVIOUS

\* A hit: the releases that are sent are new ones.
LEMMA HandleDamageInv ==
  ASSUME ServerInv, HandleDamage
  PROVE  ServerInv'
<1>1. Head(events) \in Event /\ Tail(events) \in Seq(Event)
  BY FirstEvent DEF ServerInv, HandleDamage
<1>2. PICK v \in Slots, d \in Damages : Head(events) = Damage(v, d)
  BY <1>1 DEF HandleDamage, Event, Death, Damage
<1>3. RecordDamage(v, d) /\ Sending("release", Returned(v))
  BY <1>2 DEF HandleDamage, Damage
<1>4. /\ IInv'
      /\ \A r \in Ids : signed[r] # 0 => signed'[r] # 0
      /\ UNCHANGED cancelAsked
      /\ \A r \in Ids : Escrowed(r) => Escrowed(r)'
  BY <1>3, DamageKeeps DEF ServerInv
<1>5. /\ Returned(v) \in SUBSET Ids
      /\ \A r \in Returned(v) : signed[r] = 0 /\ signed'[r] # 0
  BY <1>3, DamageOnce DEF ServerInv, Returned
<1>6. \A k \in {"release", "cancel"}, r \in Ids :
        <<k, r>> \in sent'
          => <<k, r>> \in sent \/ (k = "release" /\ r \in Returned(v))
  BY <1>3, <1>5, SentAbout
<1>7. SentSound' /\ SentOnce'
  <2>1. SentSound'
    BY <1>4, <1>5, <1>6 DEF ServerInv, SentSound
  <2>2. \A r \in Returned(v) : <<"release", r>> \notin sent
    BY <1>5 DEF ServerInv, SentSound
  <2> QED
    BY <1>3, <1>5, <2>1, <2>2, SendsOnce DEF ServerInv
<1>8. PlayIsEscrowed'
  BY <1>4 DEF ServerInv, PlayIsEscrowed, Escrowed, HandleDamage, matchVars
<1>9. events' \in Seq(Event)
  BY <1>1 DEF HandleDamage
<1> QED
  BY <1>4, <1>7, <1>8, <1>9 DEF ServerInv

\* Every step of the server keeps the invariant.
LEMMA ServerInvStep == ServerInv /\ [ServerNext]_serverVars => ServerInv'
<1> SUFFICES ASSUME ServerInv, [ServerNext]_serverVars
             PROVE  ServerInv'
  OBVIOUS
<1>1. CASE Turn
  <2>1. CASE Drained \/ IssueTerms \/ NoForfeit \/ NoStart \/ Ticked \/ Exit
    <3>1. UNCHANGED <<vars, started, events, sent, repeated>>
      BY <2>1 DEF Drained, IssueTerms, NoForfeit, NoStart, Ticked, Exit,
                  matchVars, serverHistory
    <3> QED
      BY <3>1, LoopKeeps
  <2>2. CASE Forfeit
    <3>1. PICK winner \in Slots : EndMatch(winner)
      BY <2>2 DEF Forfeit
    <3>2. UNCHANGED <<started, events>>
      BY <2>2 DEF Forfeit
    <3> QED
      BY <3>1, <3>2, EndInv DEF ServerInv
  <2>3. CASE StartMatch
    BY <2>3, StartInv
  <2>4. CASE HandleDamage
    BY <2>4, HandleDamageInv
  <2>5. CASE HandleDeath
    <3>1. EndMatch(Opponent(Head(events).victim)) /\ UNCHANGED started
      BY <2>5 DEF HandleDeath
    <3>2. events' \in Seq(Event)
      BY <2>5, FirstEvent DEF HandleDeath, ServerInv
    <3> QED
      BY <3>1, <3>2, EndInv
  <2> QED
    BY <1>1, <2>1, <2>2, <2>3, <2>4, <2>5 DEF Turn
<1>2. CASE Fight
  BY <1>2, TickInv DEF Fight
<1>3. ASSUME NEW s \in Slots, Client(s)
      PROVE  ServerInv'
  <2>1. CASE Connect(s) \/ Disconnect(s) \/ AcceptTerms(s)
    <3>1. UNCHANGED <<vars, started, events, sent, repeated>>
      BY <2>1 DEF Connect, Disconnect, AcceptTerms, matchVars, serverHistory
    <3> QED
      BY <3>1, LoopKeeps
  <2>2. CASE \E ref \in Refs :
               \/ \E inv \in Invoices : ReceiveOffer(s, ref, inv)
               \/ \E stage \in Stages : ReceiveReport(s, ref, stage)
    BY <2>2, ReceiveInv
  <2> QED
    BY <1>3, <2>1, <2>2 DEF Client
<1>4. ASSUME NEW t \in Timers, Elapse(t)
      PROVE  ServerInv'
  <2>1. UNCHANGED <<vars, started, events, sent, repeated>>
    BY <1>4 DEF Elapse, matchVars, serverHistory
  <2> QED
    BY <2>1, LoopKeeps
<1>5. CASE UNCHANGED serverVars
  <2>1. UNCHANGED <<vars, started, events, sent, repeated>>
    BY <1>5 DEF serverVars, loopVars, matchVars, serverHistory
  <2> QED
    BY <2>1, LoopKeeps
<1> QED
  BY <1>1, <1>2, <1>3, <1>4, <1>5 DEF ServerNext

-----------------------------------------------------------------------------
(* One winner                                                              *)

\* A death is the last event of its tick.
DeathIsLast(seq) ==
  \A i \in 1 .. Len(seq) : seq[i].kind = "Death" => i = Len(seq)

\* Why there is one winner: events are handled in a match that goes on, and
\* the only event that ends it is the last one.
VerdictInv ==
  /\ verdicts \in Seq(Slots)
  /\ ended \in BOOLEAN
  /\ OneVerdict
  /\ events \in Seq(Event)
  /\ events # <<>> => step = "tick" /\ ~ended
  /\ DeathIsLast(events)

LEMMA InitVerdict == ServerInit => VerdictInv
<1> SUFFICES ASSUME ServerInit
             PROVE  VerdictInv
  OBVIOUS
<1>1. verdicts = <<>> /\ events = <<>> /\ ended = FALSE
  BY DEF ServerInit
<1>2. DeathIsLast(events) /\ OneVerdict
  BY <1>1 DEF DeathIsLast, OneVerdict
<1>3. verdicts \in Seq(Slots) /\ events \in Seq(Event)
  BY <1>1, EmptySeq
<1> QED
  BY <1>1, <1>2, <1>3 DEF VerdictInv

\* The end of a match that goes on makes its one verdict.
LEMMA EndVerdict ==
  ASSUME VerdictInv, ~ended, NEW winner \in Slots, EndMatch(winner)
  PROVE  verdicts' \in Seq(Slots) /\ ended' = TRUE /\ OneVerdict'
<1>1. verdicts' = Append(verdicts, winner) /\ ended' = TRUE
  BY DEF EndMatch
<1>2. verdicts \in Seq(Slots) /\ Len(verdicts) = 0
  BY DEF VerdictInv, OneVerdict
<1>3. Append(verdicts, winner) \in Seq(Slots)
  BY <1>2
<1>4. Len(Append(verdicts, winner)) = 1
  BY <1>2
<1> QED
  BY <1>1, <1>3, <1>4 DEF OneVerdict

\* The events of one tick: nothing follows a death, since a dead player does
\* not fire back.
LEMMA TickVerdict ==
  ASSUME VerdictInv, NEW blowA \in Damages \cup {0},
         NEW blowB \in Damages \cup {0}, Tick(blowA, blowB)
  PROVE  VerdictInv'
<1> DEFINE back == ReturnBlow(blowA, blowB)
           first == EventsOf("B", blowA)
           second == EventsOf("A", back)
<1>1. back \in Damages \cup {0}
  BY DEF ReturnBlow
<1>2. first \in Seq(Event) /\ second \in Seq(Event)
  BY <1>1, EventsOfType DEF Slots
<1>3. DeathIsLast(first) /\ DeathIsLast(second)
  BY DEF EventsOf, DeathIsLast, Damage, Death
<1>4. second # <<>> => \A i \in 1 .. Len(first) : first[i].kind # "Death"
  <2>1. CASE blowA >= sim.health["B"]
    <3>1. second = <<>>
      BY <2>1 DEF ReturnBlow, EventsOf
    <3> QED
      BY <3>1
  <2>2. CASE ~(blowA >= sim.health["B"])
    BY <2>2 DEF EventsOf, Damage
  <2> QED
    BY <2>1, <2>2
<1>5. events' = first \o second
  BY DEF Tick
<1> HIDE DEF first, second
<1>6. DeathIsLast(first \o second)
  <2>1. CASE second = <<>>
    <3>1. first \o second = first
      BY <1>2, <2>1
    <3> QED
      BY <1>3, <3>1
  <2>2. CASE second # <<>>
    <3> SUFFICES ASSUME NEW i \in 1 .. Len(first \o second),
                        (first \o second)[i].kind = "Death"
                 PROVE  i = Len(first \o second)
      BY DEF DeathIsLast
    <3>1. Len(first \o second) = Len(first) + Len(second)
      BY <1>2
    <3>2. CASE i <= Len(first)
      BY <1>2, <1>4, <2>2, <3>2
    <3>3. CASE i > Len(first)
      <4>1. (first \o second)[i] = second[i - Len(first)]
        BY <1>2, <3>1, <3>3
      <4>2. i - Len(first) \in 1 .. Len(second)
        BY <1>2, <3>1, <3>3
      <4>3. second[i - Len(first)].kind = "Death"
        BY <4>1
      <4>4. i - Len(first) = Len(second)
        BY <1>3, <4>2, <4>3 DEF DeathIsLast
      <4>5. Len(first) \in Nat /\ Len(second) \in Nat /\ i \in Nat
        BY <1>2, <3>1
      <4> QED
        BY <3>1, <4>4, <4>5
    <3> QED
      BY <1>2, <3>2, <3>3
  <2> QED
    BY <2>1, <2>2
<1>7. first \o second \in Seq(Event)
  BY <1>2
<1>8. UNCHANGED <<verdicts, ended>> /\ step' = "tick" /\ ~ended
  BY DEF Tick, serverHistory, matchVars
<1> QED
  BY <1>5, <1>6, <1>7, <1>8 DEF VerdictInv, OneVerdict

\* Handling an event leaves the rest of them in order.
LEMMA TailLast ==
  ASSUME VerdictInv, events # <<>>
  PROVE  DeathIsLast(Tail(events))
<1>1. events \in Seq(Event) /\ DeathIsLast(events)
  BY DEF VerdictInv
<1>2. /\ Len(events) \in Nat
      /\ Len(Tail(events)) = Len(events) - 1
      /\ \A j \in 1 .. Len(Tail(events)) : Tail(events)[j] = events[j + 1]
  BY <1>1, HeadTailProperties, EmptySeq
<1> SUFFICES ASSUME NEW i \in 1 .. Len(Tail(events)),
                    Tail(events)[i].kind = "Death"
             PROVE  i = Len(Tail(events))
  BY DEF DeathIsLast
<1>3. Tail(events)[i] = events[i + 1]
  BY <1>2
<1>4. i + 1 \in 1 .. Len(events)
  BY <1>2
<1>5. events[i + 1].kind = "Death"
  BY <1>3
<1>6. i + 1 = Len(events)
  BY <1>1, <1>4, <1>5 DEF DeathIsLast
<1>7. i \in Nat
  BY <1>2
<1> DEFINE left == Len(Tail(events))
           all == Len(events)
<1>8. all \in Nat /\ left = all - 1 /\ i + 1 = all
  BY <1>2, <1>6
<1> HIDE DEF left, all
<1>9. i = left
  BY <1>7, <1>8
<1> QED
  BY <1>9 DEF left

LEMMA DeathVerdict ==
  ASSUME VerdictInv, HandleDeath
  PROVE  VerdictInv'
<1>1. events \in Seq(Event) /\ events # <<>> /\ Head(events).kind = "Death"
  BY DEF VerdictInv, HandleDeath
<1>2. Len(events) = 1
  <2>1. Len(events) \in Nat /\ 1 \in 1 .. Len(events)
    BY <1>1
  <2>2. events[1].kind = "Death"
    BY <1>1
  <2> QED
    BY <2>1, <2>2 DEF VerdictInv, DeathIsLast
<1>3. Tail(events) = <<>>
  <2>1. Tail(events) \in Seq(Event) /\ Len(Tail(events)) = 0
    BY <1>1, <1>2
  <2> QED
    BY <2>1, EmptySeq
<1>4. Opponent(Head(events).victim) \in Slots
  BY DEF Opponent, Slots
<1>5. verdicts' \in Seq(Slots) /\ ended' = TRUE /\ OneVerdict'
  BY <1>1, <1>4, EndVerdict DEF HandleDeath, VerdictInv
<1> QED
  BY <1>3, <1>5 DEF HandleDeath, VerdictInv, DeathIsLast

LEMMA VerdictStep == VerdictInv /\ [ServerNext]_serverVars => VerdictInv'
<1> SUFFICES ASSUME VerdictInv, [ServerNext]_serverVars
             PROVE  VerdictInv'
  OBVIOUS
<1>0. ASSUME UNCHANGED <<verdicts, ended, events>>,
             UNCHANGED step \/ events = <<>>
      PROVE  VerdictInv'
  BY <1>0 DEF VerdictInv, OneVerdict, DeathIsLast
<1>1. CASE Turn
  <2>1. CASE Drained \/ IssueTerms \/ NoForfeit \/ StartMatch \/ NoStart
               \/ Ticked \/ Exit
    <3>1. UNCHANGED <<verdicts, ended, events>>
      BY <2>1 DEF Drained, IssueTerms, NoForfeit, StartMatch, NoStart, Ticked,
                  Exit, matchVars, serverHistory
    <3>2. events = <<>>
      BY <2>1 DEF Drained, IssueTerms, NoForfeit, StartMatch, NoStart, Ticked,
                  Exit, Goto, VerdictInv
    <3> QED
      BY <1>0, <3>1, <3>2
  <2>2. CASE Forfeit
    <3>1. events = <<>> /\ ~ended /\ UNCHANGED events
      BY <2>2 DEF Forfeit, ForfeitDue, Goto, VerdictInv
    <3>2. PICK winner \in Slots : EndMatch(winner)
      BY <2>2 DEF Forfeit
    <3> QED
      BY <3>1, <3>2, EndVerdict DEF VerdictInv
  <2>3. CASE HandleDamage
    <3>1. /\ events' = Tail(events) /\ events # <<>>
          /\ UNCHANGED <<step, verdicts, ended>>
      BY <2>3 DEF HandleDamage, matchVars
    <3>2. Tail(events) \in Seq(Event)
      BY <3>1, FirstEvent DEF VerdictInv
    <3> QED
      BY <3>1, <3>2, TailLast DEF VerdictInv, OneVerdict
  <2>4. CASE HandleDeath
    BY <2>4, DeathVerdict
  <2> QED
    BY <1>1, <2>1, <2>2, <2>3, <2>4 DEF Turn
<1>2. CASE Fight
  BY <1>2, TickVerdict DEF Fight
<1>3. ASSUME NEW s \in Slots, Client(s)
      PROVE  VerdictInv'
  <2>1. UNCHANGED <<verdicts, ended, events, step>>
    BY <1>3 DEF Client, Connect, Disconnect, AcceptTerms, ReceiveOffer,
                ReceiveReport, matchVars, serverHistory, loopVars
  <2> QED
    BY <1>0, <2>1
<1>4. ASSUME NEW t \in Timers, Elapse(t)
      PROVE  VerdictInv'
  BY <1>0, <1>4 DEF Elapse, matchVars, serverHistory
<1>5. CASE UNCHANGED serverVars
  BY <1>0, <1>5 DEF serverVars, loopVars, matchVars, serverHistory
<1> QED
  BY <1>1, <1>2, <1>3, <1>4, <1>5 DEF ServerNext

-----------------------------------------------------------------------------
(* Theorems                                                                *)

\* The server drives its coordinator so that the ledger stays sound, and adds
\* what the loop has to get right.
THEOREM ServerInductive == ServerSpec => []ServerInv
BY InitServerInv, ServerInvStep, PTL DEF ServerSpec

\* Whatever the two players do, no payee is sent both the preimage of a
\* reservation and the order to cancel it.
THEOREM NotBothWaysCorrect == ServerSpec => []NotBothWays
<1>1. ServerInv => NotBothWays
  BY DEF ServerInv, IInv, StatusSound, SentSound, NotBothWays
<1> QED
  BY <1>1, ServerInductive, PTL

\* A match that started keeps every reservation past its preparation, funded
\* and received, for as long as the server runs.
THEOREM PlayEscrowedCorrect == ServerSpec => []PlayIsEscrowed
<1>1. ServerInv => PlayIsEscrowed
  BY DEF ServerInv
<1> QED
  BY <1>1, ServerInductive, PTL

\* MatchEnded is broadcast once, with one winner, whatever deaths, disconnects
\* and pauses fall together.
THEOREM OneVerdictCorrect == ServerSpec => []OneVerdict
<1>1. VerdictInv => OneVerdict
  BY DEF VerdictInv
<1>2. ServerSpec => []VerdictInv
  BY InitVerdict, VerdictStep, PTL DEF ServerSpec
<1> QED
  BY <1>1, <1>2, PTL

-----------------------------------------------------------------------------
(* Types                                                                   *)

Phases == {Waiting, Live} \cup {PaymentPaused(s) : s \in Slots}
                          \cup {Ended(s) : s \in Slots}

Sims == [phase : Phases, health : [Slots -> 0 .. Health]]

\* The types of the loop, without those of the coordinator, which IInv has.
LoopTypes ==
  /\ step \in Steps
  /\ connected \subseteq Slots /\ accepted \subseteq Slots
  /\ firstGone \in Slots \cup {Nobody} /\ leaver \in Slots \cup {Nobody}
  /\ issued \in BOOLEAN /\ started \in BOOLEAN /\ ended \in BOOLEAN
  /\ sawClient \in BOOLEAN /\ empty \in BOOLEAN
  /\ sim \in Sims
  /\ Len(events) <= 3
  /\ elapsed \subseteq Timers
  /\ sent \subseteq {"offer", "release", "cancel"} \X Ids /\ repeated \subseteq sent

LEMMA InitLoopTypes == ServerInit => LoopTypes
<1> SUFFICES ASSUME ServerInit
             PROVE  LoopTypes
  OBVIOUS
<1>1. [s \in Slots |-> Health] \in [Slots -> 0 .. Health]
  BY ArenaAssumption
<1>2. sim \in Sims
  BY <1>1 DEF ServerInit, Sims, Phases
<1>3. Len(events) <= 3
  <2>1. Len(events) = 0
    BY DEF ServerInit
  <2> QED
    BY <2>1
<1>4. /\ step \in Steps /\ connected = {} /\ accepted = {} /\ elapsed = {}
      /\ sent = {} /\ repeated = {} /\ firstGone = Nobody /\ leaver = Nobody
      /\ issued = FALSE /\ started = FALSE /\ ended = FALSE
      /\ sawClient = FALSE /\ empty = FALSE
  BY DEF ServerInit, Steps
<1> QED
  BY <1>2, <1>3, <1>4 DEF LoopTypes

\* A phase set by the loop leaves the health of the duelists.
LEMMA PhaseType ==
  ASSUME sim \in Sims, NEW phase \in Phases, sim' = [sim EXCEPT !.phase = phase]
  PROVE  sim' \in Sims /\ sim'.phase = phase
BY DEF Sims

LEMMA SentType ==
  ASSUME LoopTypes, NEW kind \in {"offer", "release", "cancel"},
         NEW R \in SUBSET Ids, Sending(kind, R)
  PROVE  /\ sent' \subseteq {"offer", "release", "cancel"} \X Ids
         /\ repeated' \subseteq sent'
BY DEF LoopTypes, Sending

\* A tick makes at most three events: a death ends it.
LEMMA TickLength ==
  ASSUME NEW blowA \in Damages \cup {0}, NEW blowB \in Damages \cup {0}
  PROVE  Len(EventsOf("B", blowA) \o EventsOf("A", ReturnBlow(blowA, blowB))) <= 3
<1> DEFINE back == ReturnBlow(blowA, blowB)
           first == EventsOf("B", blowA)
           second == EventsOf("A", back)
<1>1. back \in Damages \cup {0}
  BY DEF ReturnBlow
<1>2. first \in Seq(Event) /\ second \in Seq(Event)
  BY <1>1, EventsOfType DEF Slots
<1>3. Len(first) <= 2 /\ Len(second) <= 2
  BY DEF EventsOf
<1>4. Len(first) <= 1 \/ Len(second) = 0
  <2>1. CASE blowA >= sim.health["B"]
    <3>1. second = <<>>
      BY <2>1 DEF ReturnBlow, EventsOf
    <3> QED
      BY <3>1
  <2>2. CASE ~(blowA >= sim.health["B"])
    BY <2>2 DEF EventsOf
  <2> QED
    BY <2>1, <2>2
<1> HIDE DEF first, second
<1>5. /\ Len(first \o second) = Len(first) + Len(second)
      /\ Len(first) \in Nat /\ Len(second) \in Nat
  BY <1>2
<1>6. Len(first \o second) <= 3
  BY <1>3, <1>4, <1>5
<1> QED
  BY <1>6 DEF first, second

\* The health a tick leaves.
LEMMA TickTypes ==
  ASSUME LoopTypes, NEW blowA \in Damages \cup {0},
         NEW blowB \in Damages \cup {0}, Tick(blowA, blowB)
  PROVE  LoopTypes'
<1> DEFINE back == ReturnBlow(blowA, blowB)
           left == [s \in Slots |->
                      LET blow == IF s = "A" THEN back ELSE blowA IN
                      IF blow >= sim.health[s] THEN 0 ELSE sim.health[s] - blow]
<1>1. Damages \cup {0} \subseteq Nat
  BY SettlementAssumption
<1>2. back \in Nat /\ blowA \in Nat
  BY <1>1 DEF ReturnBlow
<1>3. left \in [Slots -> 0 .. Health]
  <2> SUFFICES ASSUME NEW s \in Slots
               PROVE  left[s] \in 0 .. Health
    BY DEF left
  <2> DEFINE blow == IF s = "A" THEN back ELSE blowA
  <2>1. blow \in Nat
    BY <1>2
  <2>2. sim.health[s] \in 0 .. Health /\ Health \in Nat
    BY ArenaAssumption DEF LoopTypes, Sims
  <2>3. left[s] = IF blow >= sim.health[s] THEN 0 ELSE sim.health[s] - blow
    OBVIOUS
  <2> HIDE DEF left, blow
  <2> QED
    BY <2>1, <2>2, <2>3
<1>4. sim' = [phase |-> IF left["B"] = 0 THEN Ended("A")
                        ELSE IF left["A"] = 0 THEN Ended("B")
                        ELSE Live,
              health |-> left]
  BY DEF Tick
<1> HIDE DEF left
<1>5. sim' \in Sims
  BY <1>3, <1>4 DEF Sims, Phases, Slots
<1>6. Len(events') <= 3
  BY TickLength DEF Tick
<1> QED
  BY <1>5, <1>6 DEF LoopTypes, Tick, sessionVars, matchVars, clockVars,
                    serverHistory

LEMMA HandleDamageTypes ==
  ASSUME ServerInv, LoopTypes, HandleDamage
  PROVE  LoopTypes'
<1>1. Head(events) \in Event /\ events \in Seq(Event) /\ events # <<>>
  BY FirstEvent DEF ServerInv, HandleDamage
<1>2. Head(events).victim \in Slots
  BY <1>1 DEF Event, Damage, Death
<1>3. sim' \in Sims
  <2>1. PaymentPaused(Head(events).victim) \in Phases
    BY <1>2 DEF Phases
  <2> QED
    BY <2>1, PhaseType DEF HandleDamage, LoopTypes
<1>4. /\ sent' \subseteq {"offer", "release", "cancel"} \X Ids
      /\ repeated' \subseteq sent'
  BY SentType DEF HandleDamage, Returned
<1>5. Len(events') <= 3
  <2>1. Len(Tail(events)) = Len(events) - 1 /\ Len(events) \in Nat
    BY <1>1, HeadTailProperties, EmptySeq
  <2> DEFINE all == Len(events)
  <2>2. all \in Nat /\ all <= 3
    BY <2>1 DEF LoopTypes
  <2>3. Len(events') = all - 1
    BY <2>1 DEF HandleDamage
  <2> HIDE DEF all
  <2> QED
    BY <2>2, <2>3
<1> QED
  BY <1>3, <1>4, <1>5 DEF HandleDamage, LoopTypes, sessionVars, matchVars,
                          clockVars

LEMMA HandleDeathTypes ==
  ASSUME ServerInv, LoopTypes, HandleDeath
  PROVE  LoopTypes'
<1>1. events \in Seq(Event) /\ events # <<>>
  BY DEF ServerInv, HandleDeath
<1>2. /\ sent' \subseteq {"offer", "release", "cancel"} \X Ids
      /\ repeated' \subseteq sent'
  BY SentType DEF HandleDeath, EndMatch, Unused
<1>3. Len(events') <= 3
  <2>1. Len(Tail(events)) = Len(events) - 1 /\ Len(events) \in Nat
    BY <1>1, HeadTailProperties, EmptySeq
  <2> DEFINE all == Len(events)
  <2>2. all \in Nat /\ all <= 3
    BY <2>1 DEF LoopTypes
  <2>3. Len(events') = all - 1
    BY <2>1 DEF HandleDeath
  <2> HIDE DEF all
  <2> QED
    BY <2>2, <2>3
<1> QED
  BY <1>2, <1>3 DEF HandleDeath, EndMatch, LoopTypes, sessionVars, clockVars

LEMMA ForfeitTypes ==
  ASSUME LoopTypes, Forfeit
  PROVE  LoopTypes'
<1>1. PICK winner \in Slots :
        EndMatch(winner) /\ sim' = [sim EXCEPT !.phase = Ended(winner)]
  BY DEF Forfeit
<1>2. sim' \in Sims
  <2>1. Ended(winner) \in Phases
    BY DEF Phases
  <2> QED
    BY <1>1, <2>1, PhaseType DEF LoopTypes
<1>3. /\ sent' \subseteq {"offer", "release", "cancel"} \X Ids
      /\ repeated' \subseteq sent'
  BY <1>1, SentType DEF EndMatch, Unused
<1> QED
  BY <1>1, <1>2, <1>3 DEF Forfeit, EndMatch, Goto, Steps, LoopTypes, clockVars

LEMMA ClientTypes ==
  ASSUME LoopTypes, NEW s \in Slots, Client(s)
  PROVE  LoopTypes'
<1>1. CASE Connect(s) \/ AcceptTerms(s)
  BY <1>1 DEF Connect, AcceptTerms, MayReceive, LoopTypes, sessionVars,
              matchVars, clockVars, serverHistory
<1>2. CASE Disconnect(s)
  BY <1>2 DEF Disconnect, LoopTypes, matchVars, clockVars
<1>3. ASSUME NEW ref \in Refs, NEW inv \in Invoices, ReceiveOffer(s, ref, inv)
      PROVE  LoopTypes'
  <2>1. /\ sent' \subseteq {"offer", "release", "cancel"} \X Ids
        /\ repeated' \subseteq sent'
    <3>1. CASE OfferAccepted(s, ref, inv) /\ Sending("offer", {ref.id})
      <4>1. {ref.id} \in SUBSET Ids
        BY <3>1 DEF OfferAccepted, NewOffer, RepeatedOffer, ValidReference
      <4> QED
        BY <3>1, <4>1, SentType
    <3>2. CASE UNCHANGED <<sent, repeated>>
      BY <3>2 DEF LoopTypes
    <3> QED
      BY <1>3, <3>1, <3>2 DEF ReceiveOffer
  <2> QED
    BY <1>3, <2>1 DEF ReceiveOffer, LoopTypes, sessionVars, matchVars, clockVars
<1>4. ASSUME NEW ref \in Refs, NEW stage \in Stages,
             ReceiveReport(s, ref, stage)
      PROVE  LoopTypes'
  BY <1>4 DEF ReceiveReport, LoopTypes, loopVars, sessionVars, matchVars,
              clockVars, serverHistory
<1> QED
  BY <1>1, <1>2, <1>3, <1>4 DEF Client

LEMMA LoopTypesStep == ServerInv /\ LoopTypes /\ [ServerNext]_serverVars => LoopTypes'
<1> SUFFICES ASSUME ServerInv, LoopTypes, [ServerNext]_serverVars
             PROVE  LoopTypes'
  OBVIOUS
<1>1. CASE Turn
  <2>1. CASE Drained
    BY <2>1 DEF Drained, Emptied, Goto, Steps, LoopTypes, matchVars,
                serverHistory
  <2>2. CASE IssueTerms \/ NoForfeit \/ NoStart \/ Ticked
    BY <2>2 DEF IssueTerms, NoForfeit, NoStart, Ticked, Goto, Steps, LoopTypes,
                sessionVars, matchVars, clockVars, serverHistory
  <2>3. CASE Exit
    BY <2>3 DEF Exit, Steps, LoopTypes, sessionVars, matchVars, clockVars,
                serverHistory
  <2>4. CASE StartMatch
    <3>1. sim' \in Sims
      BY <2>4, PhaseType DEF StartMatch, LoopTypes, Phases
    <3> QED
      BY <2>4, <3>1 DEF StartMatch, Goto, Steps, LoopTypes, sessionVars,
                        clockVars, serverHistory
  <2> QED
    BY <1>1, <2>1, <2>2, <2>3, <2>4, ForfeitTypes, HandleDamageTypes,
       HandleDeathTypes DEF Turn
<1>2. CASE Fight
  BY <1>2, TickTypes DEF Fight
<1>3. CASE \E s \in Slots : Client(s)
  BY <1>3, ClientTypes
<1>4. CASE \E t \in Timers : Elapse(t)
  BY <1>4 DEF Elapse, LoopTypes, sessionVars, matchVars, serverHistory
<1>5. CASE UNCHANGED serverVars
  BY <1>5 DEF serverVars, loopVars, LoopTypes, sessionVars, matchVars,
              clockVars, serverHistory
<1> QED
  BY <1>1, <1>2, <1>3, <1>4, <1>5 DEF ServerNext

\* The loop's fields, the simulation, the events of a tick and the messages
\* sent keep their types.
THEOREM ServerTypeCorrect == ServerSpec => []ServerTypeOK
<1>1. ServerInv /\ LoopTypes => ServerTypeOK
  BY DEF ServerInv, IInv, LoopTypes, ServerTypeOK, Sims, Phases
<1>2. ServerSpec => []LoopTypes
  BY InitLoopTypes, LoopTypesStep, ServerInductive, PTL DEF ServerSpec
<1> QED
  BY <1>1, <1>2, ServerInductive, PTL

-----------------------------------------------------------------------------
(* A payer who has run out                                                 *)

\* What the loop knows during play: only a match that started, and so has its
\* terms, is hit, paid or paused; and a payer with a full bucket left over has
\* no held reservation to pay it with.
PlaySound ==
  /\ started => issued
  /\ events # <<>> => started
  /\ \A p \in Slots : sim.phase = PaymentPaused(p) => started
  /\ \A r \in Ids : signed[r] # 0 => started
  /\ \A p \in Slots : remainder[p] >= Bucket => started /\ HeldBy(p) = {}

\* What PaidUnlessExhausted says of what was sent; SentOnce has the rest.
ReleasesSent ==
  \A r \in Ids :
    signed[r] # 0 /\ Payee(r) \in connected /\ remainder[Payer(r)] < Bucket
      => <<"release", r>> \in sent

PlayInv == PlaySound /\ PauseMeansExhausted /\ ReleasesSent

LEMMA DifferentPhases ==
  /\ \A p \in Slots : Waiting # PaymentPaused(p) /\ Live # PaymentPaused(p)
  /\ \A p, w \in Slots : Ended(w) # PaymentPaused(p)
  /\ \A p, q \in Slots : PaymentPaused(p) = PaymentPaused(q) => p = q
BY DEF Waiting, Live, PaymentPaused, Ended, Phase

LEMMA InitPlay == ServerInit => PlayInv
<1> SUFFICES ASSUME ServerInit
             PROVE  PlayInv
  OBVIOUS
<1>1. \A p \in Slots : sim.phase # PaymentPaused(p)
  BY DifferentPhases DEF ServerInit
<1>2. \A r \in Ids : signed[r] = 0
  BY DEF ServerInit, Init
<1>3. \A p \in Slots : ~(remainder[p] >= Bucket)
  BY SettlementAssumption DEF ServerInit, Init
<1>4. started = FALSE /\ events = <<>>
  BY DEF ServerInit
<1> QED
  BY <1>1, <1>2, <1>3, <1>4 DEF PlayInv, PlaySound, PauseMeansExhausted,
                                ReleasesSent

\* No message makes a reservation of a started match Held.
LEMMA NoNewHeld ==
  ASSUME ServerInv, started, NEW s \in Slots, NEW ref \in Refs,
         \/ \E inv \in Invoices : RegisterInvoiceOffer(s, ref, inv)
         \/ \E stage \in Stages : Acknowledge(s, ref, stage)
         \/ \E stage \in Stages : RecordFailure(s, ref, stage)
  PROVE  \A r \in Ids : status'[r] = "Held" => status[r] = "Held"
<1> SUFFICES ASSUME NEW r \in Ids, status'[r] = "Held"
             PROVE  status[r] = "Held"
  OBVIOUS
<1>0. TypeOK /\ status[r] \notin {"AwaitingInvoice", "Offered"}
  BY DEF ServerInv, IInv, PlayIsEscrowed
<1>1. CASE \E inv \in Invoices : RegisterInvoiceOffer(s, ref, inv)
  BY <1>0, <1>1 DEF RegisterInvoiceOffer, vars, reservationVars, TypeOK
<1>2. CASE \E stage \in Stages : Acknowledge(s, ref, stage)
  <2>1. PICK stage \in Stages : Acknowledge(s, ref, stage)
    BY <1>2
  <2>2. CASE ~AckAccepted(s, ref, stage)
    BY <2>1, <2>2 DEF Acknowledge, vars, reservationVars
  <2>3. CASE AckAccepted(s, ref, stage) /\ r # ref.id
    BY <1>0, <2>1, <2>3 DEF Acknowledge, RecordReadiness, TypeOK
  <2>4. CASE AckAccepted(s, ref, stage) /\ r = ref.id
    <3>1. CASE stage = "Funded" \/ stage = "Received"
      BY <1>0, <2>4, <3>1 DEF AckAccepted, Accepting
    <3>2. CASE stage \in {"Settled", "Cancelled"}
      BY <1>0, <2>1, <2>4, <3>2 DEF Acknowledge, TypeOK
    <3> QED
      BY <3>1, <3>2 DEF Stages
  <2> QED
    BY <2>2, <2>3, <2>4
<1>3. CASE \E stage \in Stages : RecordFailure(s, ref, stage)
  BY <1>0, <1>3 DEF RecordFailure, vars, reservationVars, TypeOK
<1> QED
  BY <1>1, <1>2, <1>3

\* A step that signs nothing, holds nothing new once started and takes no
\* message back keeps what the loop knows during play.
LEMMA PlayKept ==
  ASSUME PlayInv,
         UNCHANGED <<signed, remainder>>,
         started => started',
         issued => issued',
         started => \A p \in Slots : HeldBy(p)' \subseteq HeldBy(p),
         issued => connected' \subseteq connected,
         events' # <<>> => started',
         \A p \in Slots : sim'.phase = PaymentPaused(p)
                            => sim.phase = PaymentPaused(p),
         started' => issued',
         sent \subseteq sent'
  PROVE  PlayInv'
<1>1. PlaySound'
  BY DEF PlayInv, PlaySound
<1>2. PauseMeansExhausted'
  BY DEF PlayInv, PlaySound, PauseMeansExhausted
<1>3. ReleasesSent'
  <2> SUFFICES ASSUME NEW r \in Ids, signed'[r] # 0, (Payee(r) \in connected)',
                      (remainder[Payer(r)] < Bucket)'
               PROVE  <<"release", r>> \in sent'
    BY DEF ReleasesSent
  <2>1. started /\ issued
    BY DEF PlayInv, PlaySound
  <2>2. Payee(r) \in connected
    BY <2>1
  <2> QED
    BY <2>2 DEF PlayInv, ReleasesSent
<1> QED
  BY <1>1, <1>2, <1>3 DEF PlayInv

\* What a hit does to a payer who runs out, or had run out before: a full
\* bucket stays, and nothing is Held.
LEMMA DamageRunsOut ==
  ASSUME TypeOK, NEW victim \in Slots, NEW amount \in Damages,
         RecordDamage(victim, amount),
         remainder[victim] >= Bucket => HeldBy(victim) = {}
  PROVE  /\ \A p \in Slots : p # victim => remainder'[p] = remainder[p]
         /\ \A p \in Slots : HeldBy(p)' \subseteq HeldBy(p)
         /\ remainder[victim] >= Bucket => remainder'[victim] >= Bucket
         /\ remainder'[victim] >= Bucket => HeldBy(victim)' = {}
         /\ \A r \in Ids : signed'[r] # 0 /\ signed[r] = 0
              => /\ Payer(r) = victim
                 /\ status[r] = "Held"
<1> DEFINE total == SaturatingAdd(remainder[victim], amount)
<1>1. PICK R \in SUBSET HeldBy(victim) :
         /\ Taken(victim, total, R)
         /\ remainder' = [remainder EXCEPT ![victim] = LeftAfter(total, R)]
         /\ status' = [r \in Ids |-> IF r \in R THEN "Released" ELSE status[r]]
         /\ signed' = [r \in Ids |->
                         IF r \in R
                         THEN nextSequence + Cardinality({q \in R : q < r})
                         ELSE signed[r]]
  BY DEF RecordDamage
<1>2. amount \in Nat
  BY SettlementAssumption
<1>3. R \subseteq IdsOf(victim) /\ LeftAfter(total, R) \in 0 .. U16Max
  BY <1>1, <1>2, DamageShape
<1>4. /\ remainder'[victim] = LeftAfter(total, R)
      /\ \A p \in Slots : p # victim => remainder'[p] = remainder[p]
  BY <1>1 DEF TypeOK
<1>5. \A p \in Slots : HeldBy(p)' \subseteq HeldBy(p)
  BY <1>1 DEF HeldBy, IdsOf
<1>6. remainder'[victim] >= Bucket => R = HeldBy(victim)
  BY <1>1, <1>3, <1>4, SettlementAssumption DEF Taken
<1>7. R = HeldBy(victim) => HeldBy(victim)' = {}
  BY <1>1 DEF HeldBy, IdsOf
<1>8. ASSUME remainder[victim] >= Bucket
      PROVE  remainder'[victim] >= Bucket
  <2>1. R = {}
    BY <1>8
  <2>2. Cardinality(R) = 0
    BY <2>1, FS_EmptySet
  <2>3. total \in Nat /\ total >= remainder[victim]
    BY <1>2, SettlementAssumption DEF SaturatingAdd, TypeOK
  <2>4. LeftAfter(total, R) = total
    BY <2>2, <2>3, SettlementAssumption DEF LeftAfter
  <2>5. remainder[victim] \in Nat
    BY DEF TypeOK
  <2> HIDE DEF total
  <2> QED
    BY <1>4, <1>8, <2>3, <2>4, <2>5, SettlementAssumption
<1>9. ASSUME NEW r \in Ids, signed'[r] # 0, signed[r] = 0
      PROVE  Payer(r) = victim /\ status[r] = "Held"
  <2>1. r \in R
    BY <1>1, <1>9
  <2> QED
    BY <1>1, <2>1 DEF HeldBy, IdsOf
<1> QED
  BY <1>4, <1>5, <1>6, <1>7, <1>8, <1>9

\* A hit: what it signs is sent, unless it exhausts its victim; and then the
\* match pauses.
LEMMA HandleDamagePlay ==
  ASSUME ServerInv, LoopTypes, PlayInv, HandleDamage
  PROVE  PlayInv'
<1>1. Head(events) \in Event /\ Tail(events) \in Seq(Event)
  BY FirstEvent DEF ServerInv, HandleDamage
<1>2. PICK v \in Slots, d \in Damages : Head(events) = Damage(v, d)
  BY <1>1 DEF HandleDamage, Event, Death, Damage
<1>3. RecordDamage(v, d) /\ Sending("release", Returned(v))
  BY <1>2 DEF HandleDamage, Damage
<1>4. started /\ issued /\ started' /\ issued' /\ UNCHANGED connected
  BY DEF HandleDamage, PlayInv, PlaySound, matchVars, sessionVars
<1>5. /\ \A p \in Slots : p # v => remainder'[p] = remainder[p]
      /\ \A p \in Slots : HeldBy(p)' \subseteq HeldBy(p)
      /\ remainder[v] >= Bucket => remainder'[v] >= Bucket
      /\ remainder'[v] >= Bucket => HeldBy(v)' = {}
      /\ \A r \in Ids : signed'[r] # 0 /\ signed[r] = 0
           => Payer(r) = v /\ status[r] = "Held"
  BY <1>3, DamageRunsOut DEF ServerInv, IInv, PlayInv, PlaySound
<1>6. /\ remainder[v] \in Nat /\ remainder'[v] \in Nat
      /\ \A p \in Slots : remainder[p] \in Nat /\ remainder'[p] \in Nat
  BY HandleDamageInv DEF ServerInv, IInv, TypeOK
<1>7. PlaySound'
  <2>1. \A p \in Slots : remainder'[p] >= Bucket => HeldBy(p)' = {}
    BY <1>5 DEF PlayInv, PlaySound
  <2> QED
    BY <1>4, <2>1 DEF PlaySound
<1>8. PauseMeansExhausted'
  <2> SUFFICES ASSUME NEW p \in Slots, sim'.phase = PaymentPaused(p)
               PROVE  HeldBy(p)' = {}
    BY DEF PauseMeansExhausted
  <2>1. CASE OutOfInvoices(v)
    <3>1. sim' = [sim EXCEPT !.phase = PaymentPaused(v)]
      BY <1>2, <2>1 DEF HandleDamage, Damage
    <3>2. PaymentPaused(v) \in Phases
      BY DEF Phases
    <3>3. sim'.phase = PaymentPaused(v)
      BY <3>1, <3>2, PhaseType DEF LoopTypes
    <3>4. p = v
      BY <3>3, DifferentPhases
    <3> QED
      BY <1>5, <2>1, <3>4 DEF OutOfInvoices
  <2>2. CASE ~OutOfInvoices(v)
    <3>1. sim' = sim
      BY <1>2, <2>2 DEF HandleDamage, Damage
    <3> QED
      BY <1>5, <3>1 DEF PlayInv, PauseMeansExhausted
  <2> QED
    BY <2>1, <2>2
<1>9. ReleasesSent'
  <2> SUFFICES ASSUME NEW r \in Ids, signed'[r] # 0, Payee(r) \in connected,
                      remainder'[Payer(r)] < Bucket
               PROVE  <<"release", r>> \in sent'
    BY <1>4 DEF ReleasesSent
  <2>0. Payer(r) \in Slots
    BY DEF Payer, Slots
  <2>1. CASE signed[r] # 0
    <3>1. remainder[Payer(r)] < Bucket
      <4>1. CASE Payer(r) = v
        BY <1>5, <1>6, <4>1, SettlementAssumption
      <4>2. CASE Payer(r) # v
        BY <1>5, <2>0, <4>2
      <4> QED
        BY <4>1, <4>2
    <3> QED
      BY <1>3, <2>1, <3>1 DEF PlayInv, ReleasesSent, Sending
  <2>2. CASE signed[r] = 0
    <3>1. r \in Returned(v)
      BY <1>5, <1>6, <2>2, SettlementAssumption DEF Returned, OutOfInvoices
    <3> QED
      BY <1>3, <3>1 DEF Sending, Recipient
  <2> QED
    BY <2>1, <2>2
<1> QED
  BY <1>7, <1>8, <1>9 DEF PlayInv

\* The end of a match leaves nothing Held, and takes no message back.
LEMMA EndPlay ==
  ASSUME PlayInv, NEW winner, EndMatch(winner),
         UNCHANGED <<started, issued, connected>>,
         events' # <<>> => events # <<>>,
         \A p \in Slots : sim'.phase = PaymentPaused(p)
                            => sim.phase = PaymentPaused(p)
  PROVE  PlayInv'
<1>1. CancelUnused /\ Sending("cancel", Unused)
  BY DEF EndMatch
<1>2. UNCHANGED <<signed, remainder>>
  BY <1>1 DEF CancelUnused, ledgerVars
<1>3. \A p \in Slots : HeldBy(p)' \subseteq HeldBy(p)
  BY <1>1 DEF CancelUnused, HeldBy, IdsOf
<1>4. sent \subseteq sent'
  BY <1>1 DEF Sending
<1>5. (started => issued) /\ (events # <<>> => started)
  BY DEF PlayInv, PlaySound
<1> QED
  BY <1>2, <1>3, <1>4, <1>5, PlayKept

\* A message of a player.
LEMMA ReceivePlay ==
  ASSUME ServerInv, PlayInv, NEW s \in Slots, NEW ref \in Refs,
         \/ \E inv \in Invoices : ReceiveOffer(s, ref, inv)
         \/ \E stage \in Stages : ReceiveReport(s, ref, stage)
  PROVE  PlayInv'
<1>1. \/ \E inv \in Invoices : RegisterInvoiceOffer(s, ref, inv)
      \/ \E stage \in Stages : Acknowledge(s, ref, stage)
      \/ \E stage \in Stages : RecordFailure(s, ref, stage)
  BY DEF ReceiveOffer, ReceiveReport
<1>2. UNCHANGED <<signed, remainder>>
  BY <1>1 DEF RegisterInvoiceOffer, Acknowledge, RecordFailure, vars,
              ledgerVars, historyVars
<1>3. started => \A p \in Slots : HeldBy(p)' \subseteq HeldBy(p)
  BY <1>1, NoNewHeld DEF HeldBy, IdsOf
<1>4. UNCHANGED <<started, issued, connected, events, sim>>
  BY DEF ReceiveOffer, ReceiveReport, loopVars, sessionVars, matchVars
<1>5. sent \subseteq sent'
  BY DEF ReceiveOffer, ReceiveReport, Sending, loopVars, serverHistory
<1>6. (started => issued) /\ (events # <<>> => started)
  BY DEF PlayInv, PlaySound
<1> QED
  BY <1>2, <1>3, <1>4, <1>5, <1>6, PlayKept

LEMMA TickPlay ==
  ASSUME PlayInv, NEW blowA \in Damages \cup {0}, NEW blowB \in Damages \cup {0},
         Tick(blowA, blowB)
  PROVE  PlayInv'
<1>1. sim'.phase \in {Live, Ended("A"), Ended("B")}
  BY DEF Tick
<1>2. \A p \in Slots : sim'.phase # PaymentPaused(p)
  BY <1>1, DifferentPhases DEF Slots
<1>3. /\ started /\ started'
      /\ UNCHANGED <<vars, issued, connected, sent>>
  BY DEF Tick, sessionVars, matchVars, serverHistory
<1>4. UNCHANGED <<signed, remainder, status>>
  BY <1>3 DEF vars, reservationVars, ledgerVars, historyVars
<1>5. \A p \in Slots : HeldBy(p)' \subseteq HeldBy(p)
  BY <1>4 DEF HeldBy
<1>6. started => issued
  BY DEF PlayInv, PlaySound
<1> QED
  BY <1>2, <1>3, <1>4, <1>5, <1>6, PlayKept

LEMMA PlayStep ==
  ServerInv /\ LoopTypes /\ PlayInv /\ [ServerNext]_serverVars => PlayInv'
<1> SUFFICES ASSUME ServerInv, LoopTypes, PlayInv, [ServerNext]_serverVars
             PROVE  PlayInv'
  OBVIOUS
<1>0. (started => issued) /\ (events # <<>> => started)
  BY DEF PlayInv, PlaySound
<1> DEFINE Quiet == UNCHANGED <<vars, started, events, sent, repeated>>
<1>1. ASSUME Quiet
      PROVE  /\ UNCHANGED <<signed, remainder>> /\ UNCHANGED <<started, events>>
             /\ \A p \in Slots : HeldBy(p)' \subseteq HeldBy(p)
             /\ sent \subseteq sent'
  BY <1>1 DEF vars, reservationVars, ledgerVars, historyVars, HeldBy
<1>2. ASSUME Quiet, UNCHANGED sim, issued => issued',
             issued => connected' \subseteq connected
      PROVE  PlayInv'
  <2>1. /\ UNCHANGED <<signed, remainder>> /\ UNCHANGED <<started, events>>
        /\ \A p \in Slots : HeldBy(p)' \subseteq HeldBy(p)
        /\ sent \subseteq sent'
    BY <1>1, <1>2
  <2> QED
    BY <1>0, <1>2, <2>1, PlayKept
<1>3. CASE Turn
  <2>1. CASE Drained \/ IssueTerms \/ NoForfeit \/ NoStart \/ Ticked \/ Exit
    <3>1. Quiet /\ UNCHANGED <<sim, connected>>
      BY <2>1 DEF Drained, IssueTerms, NoForfeit, NoStart, Ticked, Exit,
                  sessionVars, matchVars, serverHistory
    <3>2. issued => issued'
      <4>1. CASE IssueTerms
        BY <4>1, Zenon DEF IssueTerms
      <4>2. CASE Drained \/ NoForfeit \/ NoStart \/ Ticked \/ Exit
        <5>1. UNCHANGED issued
          BY <4>2 DEF Drained, NoForfeit, NoStart, Ticked, Exit, matchVars
        <5> QED
          BY <5>1
      <4> QED
        BY <2>1, <4>1, <4>2
    <3> QED
      BY <1>2, <3>1, <3>2
  <2>2. CASE Forfeit
    <3>1. PICK winner \in Slots :
            EndMatch(winner) /\ sim' = [sim EXCEPT !.phase = Ended(winner)]
      BY <2>2 DEF Forfeit
    <3>2. sim'.phase = Ended(winner)
      BY <3>1, PhaseType DEF LoopTypes, Phases
    <3>3. \A p \in Slots : sim'.phase # PaymentPaused(p)
      BY <3>2, DifferentPhases
    <3>4. UNCHANGED <<started, issued, connected, events>>
      BY <2>2 DEF Forfeit
    <3> QED
      BY <3>1, <3>3, <3>4, EndPlay
  <2>3. CASE StartMatch
    <3>1. /\ UNCHANGED <<vars, events, sent, connected, issued>>
          /\ started' /\ issued
      BY <2>3 DEF StartMatch, ReadyToStart, sessionVars, serverHistory
    <3>2. sim'.phase = Live
      BY <2>3, PhaseType DEF StartMatch, LoopTypes, Phases
    <3>3. \A p \in Slots : sim'.phase # PaymentPaused(p)
      BY <3>2, DifferentPhases
    <3>4. UNCHANGED <<signed, remainder>>
          /\ \A p \in Slots : HeldBy(p)' \subseteq HeldBy(p)
      BY <3>1 DEF vars, reservationVars, ledgerVars, historyVars, HeldBy
    <3> QED
      BY <3>1, <3>3, <3>4, PlayKept
  <2>4. CASE HandleDamage
    BY <2>4, HandleDamagePlay
  <2>5. CASE HandleDeath
    <3>1. /\ EndMatch(Opponent(Head(events).victim))
          /\ UNCHANGED <<started, issued, connected, sim>>
          /\ events # <<>>
      BY <2>5 DEF HandleDeath, sessionVars
    <3> QED
      BY <3>1, EndPlay
  <2> QED
    BY <1>3, <2>1, <2>2, <2>3, <2>4, <2>5 DEF Turn
<1>4. CASE Fight
  BY <1>4, TickPlay DEF Fight
<1>5. ASSUME NEW s \in Slots, Client(s)
      PROVE  PlayInv'
  <2>1. CASE Connect(s) \/ Disconnect(s) \/ AcceptTerms(s)
    <3>1. /\ Quiet /\ UNCHANGED <<sim, issued>>
          /\ issued => connected' \subseteq connected
      BY <2>1 DEF Connect, Disconnect, AcceptTerms, matchVars, serverHistory
    <3> QED
      BY <1>2, <3>1
  <2>2. CASE \E ref \in Refs :
               \/ \E inv \in Invoices : ReceiveOffer(s, ref, inv)
               \/ \E stage \in Stages : ReceiveReport(s, ref, stage)
    BY <2>2, ReceivePlay
  <2> QED
    BY <1>5, <2>1, <2>2 DEF Client
<1>6. ASSUME NEW t \in Timers, Elapse(t)
      PROVE  PlayInv'
  <2>1. Quiet /\ UNCHANGED <<sim, issued, connected>>
    BY <1>6 DEF Elapse, sessionVars, matchVars, serverHistory
  <2> QED
    BY <1>2, <2>1
<1>7. CASE UNCHANGED serverVars
  <2>1. Quiet /\ UNCHANGED <<sim, issued, connected>>
    BY <1>7 DEF serverVars, loopVars, sessionVars, matchVars, serverHistory
  <2> QED
    BY <1>2, <2>1
<1> QED
  BY <1>3, <1>4, <1>5, <1>6, <1>7 DEF ServerNext

\* What the loop knows during play holds in every state of the server.
THEOREM PlayInductive == ServerSpec => []PlayInv
<1>1. ServerSpec => []LoopTypes
  BY InitLoopTypes, LoopTypesStep, ServerInductive, PTL DEF ServerSpec
<1> QED
  BY <1>1, InitPlay, PlayStep, ServerInductive, PTL DEF ServerSpec

\* A match pauses for want of reservations only when its victim has none left,
\* whatever is reported, failed or left during play.
THEOREM PauseCorrect == ServerSpec => []PauseMeansExhausted
<1>1. PlayInv => PauseMeansExhausted
  BY DEF PlayInv
<1> QED
  BY <1>1, PlayInductive, PTL

\* A payee who is there is sent every release signed for him, unless his
\* opponent ran out of reservations, and none of them twice: a hit only signs
\* for what is Held, and what was signed once is never Held again.
THEOREM PaidCorrect == ServerSpec => []PaidUnlessExhausted
<1>1. ServerInv /\ PlayInv => PaidUnlessExhausted
  BY DEF ServerInv, SentOnce, PlayInv, ReleasesSent, PaidUnlessExhausted
<1> QED
  BY <1>1, PlayInductive, ServerInductive, PTL

-----------------------------------------------------------------------------
(* The end of a match: nothing is held afterwards, and who leaves first    *)
(* loses.                                                                  *)
(*                                                                         *)
(* cancel_unused only reaches what is Offered or Held at the end.  That    *)
(* nothing becomes Held later rests on the seats: the reports of a         *)
(* reservation come from both of them, one has left, and a match with      *)
(* terms admits nobody.                                                    *)


\* A reservation that awaits its invoice has none, and no report precedes it.
FreshUnreported ==
  \A r \in Ids : status[r] = "AwaitingInvoice"
    => invoice[r] = NoInvoice /\ ~payerFunded[r] /\ ~payeeReceived[r]

\* Who has left a match with terms does not come back.
LeaverGone ==
  leaver # Nobody => issued /\ leaver \in Slots /\ leaver \notin connected

\* After the end, what is still in its preparation lacks the leaver's report.
LeaverUnreported(r) ==
  status[r] \in {"AwaitingInvoice", "Offered"}
    => /\ ~started
       /\ Payer(r) = leaver => ~payerFunded[r]
       /\ Payee(r) = leaver => ~payeeReceived[r]

NothingCanBeHeld ==
  ended /\ (leaver # Nobody \/ started) =>
    \A r \in Ids : status[r] # "Held" /\ LeaverUnreported(r)

EndSound == FreshUnreported /\ LeaverGone /\ NothingCanBeHeld

LEMMA InitEnd == ServerInit => EndSound
<1> SUFFICES ASSUME ServerInit
             PROVE  EndSound
  OBVIOUS
<1>1. \A r \in Ids : /\ invoice[r] = NoInvoice
                      /\ ~payerFunded[r] /\ ~payeeReceived[r]
  BY DEF ServerInit, Init
<1>2. leaver = Nobody /\ ended = FALSE
  BY DEF ServerInit
<1> QED
  BY <1>1, <1>2 DEF EndSound, FreshUnreported, LeaverGone, NothingCanBeHeld

\* A step that leaves the reservations, the end and its leaver alone.
LEMMA EndKept ==
  ASSUME EndSound, UNCHANGED <<vars, started, ended, leaver>>,
         issued => issued' /\ connected' \subseteq connected
  PROVE  EndSound'
<1>1. UNCHANGED reservationVars
  BY DEF vars
<1>2. FreshUnreported' /\ NothingCanBeHeld'
  BY <1>1 DEF reservationVars, EndSound, FreshUnreported, NothingCanBeHeld, LeaverUnreported
<1>3. LeaverGone'
  BY DEF EndSound, LeaverGone
<1> QED
  BY <1>2, <1>3 DEF EndSound

\* The first to leave a match with terms that goes on.
LEMMA DisconnectEnd ==
  ASSUME EndSound, NEW s \in Slots, Disconnect(s)
  PROVE  EndSound'
<1>1. /\ UNCHANGED <<status, invoice, payerFunded, payeeReceived>>
      /\ UNCHANGED <<started, ended, issued>>
  BY DEF Disconnect, vars, reservationVars, matchVars
<1>2. connected' = connected \ {s}
  BY DEF Disconnect
<1>3. leaver' = IF issued /\ ~ended /\ leaver = Nobody THEN s ELSE leaver
  BY DEF Disconnect
<1>4. FreshUnreported'
  BY <1>1 DEF EndSound, FreshUnreported
<1>5. LeaverGone'
  BY <1>1, <1>2, <1>3 DEF EndSound, LeaverGone
<1>6. NothingCanBeHeld'
  <2>1. CASE ~ended
    BY <1>1, <2>1 DEF NothingCanBeHeld
  <2>2. CASE ended
    BY <1>1, <1>3, <2>2 DEF EndSound, NothingCanBeHeld, LeaverUnreported
  <2> QED
    BY <2>1, <2>2
<1> QED
  BY <1>4, <1>5, <1>6 DEF EndSound

\* The end: what was held or offered is cancelled, the rest has no report.
LEMMA EndMatchEnd ==
  ASSUME ServerInv, EndSound, NEW winner, EndMatch(winner),
         UNCHANGED <<started, issued, connected, leaver>>
  PROVE  EndSound'
<1>1. CancelUnused
  BY DEF EndMatch
<1>2. UNCHANGED <<invoice, payerFunded, payeeReceived>>
  BY <1>1 DEF CancelUnused
<1>3. \A r \in Ids : status'[r] = IF r \in Unused THEN "CancelPending"
                                  ELSE status[r]
  BY <1>1 DEF CancelUnused
<1>4. FreshUnreported'
  BY <1>2, <1>3 DEF EndSound, FreshUnreported
<1>5. LeaverGone'
  BY DEF EndSound, LeaverGone
<1>6. ASSUME NEW r \in Ids
      PROVE  status'[r] # "Held" /\ LeaverUnreported(r)'
  <2>1. status'[r] # "Held" /\ status'[r] # "Offered"
    BY <1>3 DEF Unused
  <2>2. status'[r] = "AwaitingInvoice" => status[r] = "AwaitingInvoice"
    BY <1>3
  <2>3. status[r] = "AwaitingInvoice"
          => ~started /\ ~payerFunded[r] /\ ~payeeReceived[r]
    BY DEF EndSound, FreshUnreported, ServerInv, PlayIsEscrowed
  <2> QED
    BY <1>2, <2>1, <2>2, <2>3 DEF LeaverUnreported
<1> QED
  BY <1>4, <1>5, <1>6 DEF EndSound, NothingCanBeHeld

\* A message of a seated player.
LEMMA ReceiveEnd ==
  ASSUME ServerInv, EndSound, NEW s \in Slots, NEW ref \in Refs,
         \/ \E inv \in Invoices : ReceiveOffer(s, ref, inv)
         \/ \E stage \in Stages : ReceiveReport(s, ref, stage)
  PROVE  EndSound'
<1>1. /\ s \in connected
      /\ UNCHANGED <<started, ended, issued, connected, leaver>>
  BY DEF ReceiveOffer, ReceiveReport, MayReceive, loopVars, sessionVars,
         matchVars, serverHistory
<1>2. LeaverGone'
  BY <1>1 DEF EndSound, LeaverGone
<1>3. TypeOK /\ \A r \in Ids : StatusSound(r)
  BY DEF ServerInv, IInv
<1>4. CASE \E inv \in Invoices : RegisterInvoiceOffer(s, ref, inv)
  <2>1. UNCHANGED <<payerFunded, payeeReceived>>
    BY <1>4 DEF RegisterInvoiceOffer, vars, reservationVars
  <2>2. \A r \in Ids :
          \/ status'[r] = status[r] /\ invoice'[r] = invoice[r]
          \/ status[r] = "AwaitingInvoice" /\ status'[r] = "Offered"
    BY <1>3, <1>4 DEF RegisterInvoiceOffer, NewOffer, TypeOK, vars,
                      reservationVars
  <2>3. FreshUnreported'
    BY <2>1, <2>2 DEF EndSound, FreshUnreported
  <2>4. NothingCanBeHeld'
    BY <1>1, <2>1, <2>2 DEF EndSound, NothingCanBeHeld, LeaverUnreported
  <2> QED
    BY <1>2, <2>3, <2>4 DEF EndSound
<1>5. CASE \E stage \in Stages : RecordFailure(s, ref, stage)
  <2>1. UNCHANGED <<invoice, payerFunded, payeeReceived>>
    BY <1>5 DEF RecordFailure, vars, reservationVars
  <2>2. \A r \in Ids : status'[r] = status[r] \/ status'[r] = "Failed"
    BY <1>3, <1>5 DEF RecordFailure, TypeOK, vars, reservationVars
  <2>3. FreshUnreported'
    BY <2>1, <2>2 DEF EndSound, FreshUnreported
  <2>4. NothingCanBeHeld'
    BY <1>1, <2>1, <2>2 DEF EndSound, NothingCanBeHeld, LeaverUnreported
  <2> QED
    BY <1>2, <2>3, <2>4 DEF EndSound
<1>6. ASSUME NEW stage \in Stages, Acknowledge(s, ref, stage)
      PROVE  EndSound'
  <2>1. CASE ~AckAccepted(s, ref, stage)
    <3>1. UNCHANGED vars
      BY <1>6, <2>1 DEF Acknowledge
    <3> QED
      BY <1>1, <3>1, EndKept
  <2>2. CASE AckAccepted(s, ref, stage) /\ stage \in {"Settled", "Cancelled"}
    <3>1. /\ UNCHANGED <<invoice, payerFunded, payeeReceived>>
          /\ status' = [status EXCEPT ![ref.id] = stage]
      BY <1>6, <2>2 DEF Acknowledge
    <3>2. \A r \in Ids : \/ status'[r] = status[r]
                         \/ status'[r] \in {"Settled", "Cancelled"}
      BY <1>3, <2>2, <3>1 DEF TypeOK
    <3>3. FreshUnreported'
      BY <3>1, <3>2 DEF EndSound, FreshUnreported
    <3>4. NothingCanBeHeld'
      BY <1>1, <3>1, <3>2 DEF EndSound, NothingCanBeHeld, LeaverUnreported
    <3> QED
      BY <1>2, <3>3, <3>4 DEF EndSound
  <2>3. CASE AckAccepted(s, ref, stage) /\ stage \in {"Funded", "Received"}
    <3> DEFINE q == ref.id
               funded == IF stage = "Funded" THEN TRUE ELSE payerFunded[q]
               received == IF stage = "Received" THEN TRUE ELSE payeeReceived[q]
    <3>1. /\ q \in Ids /\ invoice[q] # NoInvoice
          /\ status[q] \in {"AwaitingInvoice", "Offered", "Held"}
          /\ s = IF stage = "Funded" THEN Payer(q) ELSE Payee(q)
      BY <2>3 DEF AckAccepted, ValidReference, StageOwner, Accepting
    <3>2. RecordReadiness(q, funded, received)
      BY <1>6, <2>3 DEF Acknowledge
    <3>3. \A r \in Ids \ {q} :
            /\ status'[r] = status[r]
            /\ payerFunded'[r] = payerFunded[r]
            /\ payeeReceived'[r] = payeeReceived[r]
      BY <1>3, <3>2 DEF RecordReadiness, TypeOK
    <3>4. /\ payerFunded'[q] = funded
          /\ payeeReceived'[q] = received
          /\ status'[q] = IF funded /\ received THEN "Held" ELSE status[q]
      BY <1>3, <3>1, <3>2 DEF RecordReadiness, TypeOK
    <3>5. UNCHANGED invoice
      BY <1>6, <2>3 DEF Acknowledge
    <3>6. status[q] # "AwaitingInvoice"
      BY <3>1 DEF EndSound, FreshUnreported
    <3>7. FreshUnreported'
      BY <3>3, <3>4, <3>5, <3>6 DEF EndSound, FreshUnreported
    <3>8. ASSUME ended, leaver # Nobody \/ started
          PROVE  ~(funded /\ received) /\ LeaverUnreported(q)'
      <4>1. status[q] = "Offered" /\ LeaverUnreported(q)
        BY <3>1, <3>6, <3>8 DEF EndSound, NothingCanBeHeld
      <4>2. ~started /\ leaver \in Slots /\ s # leaver
        BY <1>1, <3>8, <4>1 DEF EndSound, LeaverGone, LeaverUnreported
      <4>3. CASE stage = "Funded"
        <5>1. Payer(q) # leaver /\ Payee(q) = leaver
          BY <3>1, <4>2, <4>3 DEF Payee, Payer, Opponent, Slots
        <5>2. ~payeeReceived[q] /\ ~received
          BY <4>1, <4>3, <5>1 DEF LeaverUnreported
        <5> QED
          BY <1>1, <3>4, <4>1, <4>2, <5>1, <5>2 DEF LeaverUnreported
      <4>4. CASE stage = "Received"
        <5>1. Payee(q) # leaver /\ Payer(q) = leaver
          BY <3>1, <4>2, <4>4 DEF Payee, Payer, Opponent, Slots
        <5>2. ~payerFunded[q] /\ ~funded
          BY <4>1, <4>4, <5>1 DEF LeaverUnreported
        <5> QED
          BY <1>1, <3>4, <4>1, <4>2, <5>1, <5>2 DEF LeaverUnreported
      <4> QED
        BY <2>3, <4>3, <4>4
    <3>9. NothingCanBeHeld'
      <4> SUFFICES ASSUME ended, leaver # Nobody \/ started, NEW r \in Ids
                   PROVE  status'[r] # "Held" /\ LeaverUnreported(r)'
        BY <1>1 DEF NothingCanBeHeld
      <4>1. status[r] # "Held" /\ LeaverUnreported(r)
        BY DEF EndSound, NothingCanBeHeld
      <4>2. CASE r = q
        BY <3>4, <3>8, <4>1, <4>2
      <4>3. CASE r # q
        BY <1>1, <3>3, <4>1, <4>3 DEF LeaverUnreported
      <4> QED
        BY <4>2, <4>3
    <3> QED
      BY <1>2, <3>7, <3>9 DEF EndSound
  <2> QED
    BY <2>1, <2>2, <2>3 DEF Stages
<1> QED
  BY <1>4, <1>5, <1>6 DEF ReceiveOffer, ReceiveReport

\* A hit only comes in a match that goes on.
LEMMA DamageEnd ==
  ASSUME ServerInv, VerdictInv, EndSound, HandleDamage
  PROVE  EndSound'
<1>1. Head(events) \in Event /\ Tail(events) \in Seq(Event)
  BY FirstEvent DEF ServerInv, HandleDamage
<1>2. PICK v \in Slots, d \in Damages : Head(events) = Damage(v, d)
  BY <1>1 DEF HandleDamage, Event, Death, Damage
<1>3. RecordDamage(v, d)
  BY <1>2 DEF HandleDamage, Damage
<1>4. PICK R \in SUBSET HeldBy(v) :
         /\ status' = [r \in Ids |-> IF r \in R THEN "Released" ELSE status[r]]
         /\ UNCHANGED <<invoice, payerFunded, payeeReceived>>
  BY <1>3 DEF RecordDamage
<1>5. FreshUnreported'
  BY <1>4 DEF EndSound, FreshUnreported
<1>6. ~ended /\ UNCHANGED <<ended, leaver, issued, connected>>
  BY DEF VerdictInv, HandleDamage, sessionVars, matchVars
<1> QED
  BY <1>5, <1>6 DEF EndSound, LeaverGone, NothingCanBeHeld

LEMMA EndStep ==
  ServerInv /\ VerdictInv /\ EndSound /\ [ServerNext]_serverVars => EndSound'
<1> SUFFICES ASSUME ServerInv, VerdictInv, EndSound, [ServerNext]_serverVars
             PROVE  EndSound'
  OBVIOUS
<1>1. CASE Turn
  <2>1. CASE Drained \/ NoForfeit \/ NoStart \/ Ticked \/ Exit
    <3>1. UNCHANGED <<vars, started, ended, leaver, issued, connected>>
      BY <2>1 DEF Drained, NoForfeit, NoStart, Ticked, Exit, sessionVars,
                  matchVars, serverHistory
    <3> QED
      BY <3>1, EndKept
  <2>2. CASE IssueTerms
    <3>1. UNCHANGED <<vars, started, ended, leaver, connected>>
      BY <2>2 DEF IssueTerms, sessionVars, serverHistory
    <3>2. issued => issued'
      BY <2>2, Zenon DEF IssueTerms
    <3> QED
      BY <3>1, <3>2, EndKept
  <2>3. CASE Forfeit
    BY <2>3, EndMatchEnd DEF Forfeit
  <2>4. CASE StartMatch
    <3>1. /\ UNCHANGED <<vars, ended, leaver, issued, connected>>
          /\ ~ended
      BY <2>4 DEF StartMatch, ReadyToStart, sessionVars, serverHistory
    <3>2. UNCHANGED reservationVars
      BY <3>1 DEF vars
    <3> QED
      BY <3>1, <3>2 DEF EndSound, FreshUnreported, LeaverGone,
                        NothingCanBeHeld, reservationVars
  <2>5. CASE HandleDamage
    BY <2>5, DamageEnd
  <2>6. CASE HandleDeath
    <3>1. /\ EndMatch(Opponent(Head(events).victim))
          /\ UNCHANGED <<started, issued, connected, leaver>>
      BY <2>6 DEF HandleDeath, sessionVars
    <3> QED
      BY <3>1, EndMatchEnd
  <2> QED
    BY <1>1, <2>1, <2>2, <2>3, <2>4, <2>5, <2>6 DEF Turn
<1>2. CASE Fight
  <2>1. UNCHANGED <<vars, started, ended, leaver, issued, connected>>
    BY <1>2 DEF Fight, Tick, sessionVars, matchVars, serverHistory
  <2> QED
    BY <2>1, EndKept
<1>3. ASSUME NEW s \in Slots, Client(s)
      PROVE  EndSound'
  <2>1. CASE Connect(s)
    <3>1. ~issued /\ UNCHANGED <<vars, started, ended, leaver>>
      BY <2>1 DEF Connect, matchVars, serverHistory
    <3> QED
      BY <3>1, EndKept
  <2>2. CASE Disconnect(s)
    BY <2>2, DisconnectEnd
  <2>3. CASE AcceptTerms(s)
    <3>1. UNCHANGED <<vars, started, ended, leaver, issued, connected>>
      BY <2>3 DEF AcceptTerms, matchVars, serverHistory
    <3> QED
      BY <3>1, EndKept
  <2>4. CASE \E ref \in Refs :
               \/ \E inv \in Invoices : ReceiveOffer(s, ref, inv)
               \/ \E stage \in Stages : ReceiveReport(s, ref, stage)
    BY <2>4, ReceiveEnd
  <2> QED
    BY <1>3, <2>1, <2>2, <2>3, <2>4 DEF Client
<1>4. ASSUME NEW t \in Timers, Elapse(t)
      PROVE  EndSound'
  <2>1. UNCHANGED <<vars, started, ended, leaver, issued, connected>>
    BY <1>4 DEF Elapse, sessionVars, matchVars, serverHistory
  <2> QED
    BY <2>1, EndKept
<1>5. CASE UNCHANGED serverVars
  <2>1. UNCHANGED <<vars, started, ended, leaver, issued, connected>>
    BY <1>5 DEF serverVars, loopVars, sessionVars, matchVars, serverHistory
  <2> QED
    BY <2>1, EndKept
<1> QED
  BY <1>1, <1>2, <1>3, <1>4, <1>5 DEF ServerNext

LEMMA VerdictAlways == ServerSpec => []VerdictInv
BY InitVerdict, VerdictStep, PTL DEF ServerSpec

LEMMA EndAlways == ServerSpec => []EndSound
BY InitEnd, EndStep, VerdictAlways, ServerInductive, PTL DEF ServerSpec

\* After a match that started, or that a player left under the terms, no
\* reservation is Held, nor becomes so by a report that was still under way.
THEOREM NothingHeldCorrect == ServerSpec => []NothingHeldAfterEnd
<1>1. EndSound => NothingHeldAfterEnd
  BY DEF EndSound, NothingCanBeHeld, NothingHeldAfterEnd
<1> QED
  BY <1>1, EndAlways, PTL

-----------------------------------------------------------------------------
(* Who leaves first loses                                                  *)

\* A disconnect is dealt with in the turn it is seen: firstGone is empty from
\* the forfeit to the next drain, and who leaves a match that goes on is the
\* first to leave in its turn.
LeaverSound ==
  /\ firstGone # Nobody => step \in {"drain", "bind", "forfeit"}
  /\ leaver # Nobody => leaver \in Slots /\ issued /\ leaver \notin connected
  /\ leaver # Nobody /\ ~ended => firstGone = leaver
  /\ step = "drain" /\ issued /\ ~ended /\ firstGone # Nobody
       => leaver = firstGone
  /\ connected \subseteq Slots

LEMMA InitLeaver == ServerInit => LeaverSound
BY DEF ServerInit, LeaverSound

LEMMA LeaverStep == LeaverSound /\ [ServerNext]_serverVars => LeaverSound'
<1> SUFFICES ASSUME LeaverSound, [ServerNext]_serverVars
             PROVE  LeaverSound'
  OBVIOUS
<1> USE DEF LeaverSound
<1>1. CASE Turn
  <2>1. CASE Drained
    BY <2>1 DEF Drained, Goto, matchVars, serverHistory
  <2>2. CASE IssueTerms
    <3>1. UNCHANGED <<firstGone, leaver, connected, ended>>
      BY <2>2 DEF IssueTerms, sessionVars, serverHistory
    <3>2. step = "bind" /\ step' = "forfeit"
      BY <2>2 DEF IssueTerms, Goto
    <3>3. issued => issued'
      BY <2>2, Zenon DEF IssueTerms
    <3> QED
      BY <3>1, <3>2, <3>3
  <2>3. CASE Forfeit
    BY <2>3 DEF Forfeit, EndMatch, Goto
  <2>4. CASE NoForfeit
    BY <2>4 DEF NoForfeit, ForfeitDue, Goto, matchVars, serverHistory
  <2>5. CASE StartMatch \/ NoStart \/ Ticked
    BY <2>5 DEF StartMatch, NoStart, Ticked, Goto, sessionVars, matchVars,
                serverHistory
  <2>6. CASE HandleDamage
    BY <2>6 DEF HandleDamage, sessionVars, matchVars
  <2>7. CASE HandleDeath
    BY <2>7 DEF HandleDeath, EndMatch, sessionVars
  <2>8. CASE Exit
    BY <2>8 DEF Exit, sessionVars, matchVars, serverHistory
  <2> QED
    BY <1>1, <2>1, <2>2, <2>3, <2>4, <2>5, <2>6, <2>7, <2>8 DEF Turn
<1>2. CASE Fight
  BY <1>2 DEF Fight, Tick, sessionVars, matchVars, serverHistory
<1>3. ASSUME NEW s \in Slots, Client(s)
      PROVE  LeaverSound'
  <2>1. CASE Connect(s)
    BY <2>1 DEF Connect, matchVars, serverHistory
  <2>2. CASE Disconnect(s)
    BY <2>2, ArenaAssumption DEF Disconnect, matchVars
  <2>3. CASE AcceptTerms(s)
    BY <2>3 DEF AcceptTerms, matchVars, serverHistory
  <2>4. CASE \E ref \in Refs :
               \/ \E inv \in Invoices : ReceiveOffer(s, ref, inv)
               \/ \E stage \in Stages : ReceiveReport(s, ref, stage)
    <3>1. UNCHANGED <<step, firstGone, leaver, connected, ended, issued>>
      BY <2>4 DEF ReceiveOffer, ReceiveReport, loopVars, sessionVars,
                  matchVars, serverHistory
    <3> QED
      BY <3>1
  <2> QED
    BY <1>3, <2>1, <2>2, <2>3, <2>4 DEF Client
<1>4. CASE \E t \in Timers : Elapse(t)
  BY <1>4 DEF Elapse, sessionVars, matchVars, serverHistory
<1>5. CASE UNCHANGED serverVars
  BY <1>5 DEF serverVars, loopVars, sessionVars, matchVars, serverHistory
<1> QED
  BY <1>1, <1>2, <1>3, <1>4, <1>5 DEF ServerNext

\* Who leaves a match under its terms first does not win it by the other
\* leaving too, even when the loop sees both disconnects in one drain.
THEOREM LeaverCorrect == ServerSpec => LeaverNeverWins
<1> DEFINE Right == step = "forfeit" /\ verdicts' # verdicts /\ leaver # Nobody
                      => verdicts' = <<Opponent(leaver)>>
<1>1. LeaverSound /\ VerdictInv /\ [ServerNext]_serverVars => [Right]_serverVars
  <2> SUFFICES ASSUME LeaverSound, VerdictInv, ServerNext, step = "forfeit",
                      verdicts' # verdicts, leaver # Nobody
               PROVE  verdicts' = <<Opponent(leaver)>>
    OBVIOUS
  <2>1. events = <<>>
    BY DEF VerdictInv
  <2>2. Forfeit
    <3>1. ~(\E s \in Slots : Client(s)) /\ ~(\E t \in Timers : Elapse(t)) /\ ~Fight
      BY DEF Client, Connect, Disconnect, AcceptTerms, ReceiveOffer,
             ReceiveReport, Elapse, Fight, Tick, MayReceive, serverHistory
    <3>2. Turn
      BY <3>1 DEF ServerNext
    <3> QED
      BY <2>1, <3>2 DEF Turn, Drained, IssueTerms, NoForfeit, StartMatch,
                        NoStart, HandleDamage, HandleDeath, Ticked, Exit,
                        Goto, serverHistory
  <2>3. ~ended /\ firstGone = leaver /\ leaver \in Slots /\ leaver \notin connected
    BY <2>2 DEF Forfeit, ForfeitDue, LeaverSound
  <2>4. PICK winner \in Slots : ForfeitWinner(winner) /\ EndMatch(winner)
    BY <2>2 DEF Forfeit
  <2>5. winner = Opponent(leaver)
    BY <2>3, <2>4 DEF ForfeitWinner, Opponent, Slots
  <2>6. verdicts = <<>>
    BY <2>3, EmptySeq DEF VerdictInv, OneVerdict
  <2> QED
    BY <2>4, <2>5, <2>6 DEF EndMatch
<1>2. ServerSpec => []LeaverSound
  BY InitLeaver, LeaverStep, PTL DEF ServerSpec
<1> QED
  BY <1>1, <1>2, VerdictAlways, PTL DEF ServerSpec, LeaverNeverWins

-----------------------------------------------------------------------------
(* Who falls loses                                                         *)

\* A player only falls in a match that is on, and his death is the event of
\* the tick that is handled last.
FallSound ==
  /\ ~started \/ sim.phase = Live => \A s \in Slots : sim.health[s] > 0
  /\ \A s \in Slots :
       sim.health[s] = 0 /\ events # <<>> => events[Len(events)] = Death(s)
  /\ FallenLoses

LEMMA InitFall == ServerInit => FallSound
BY ArenaAssumption DEF ServerInit, FallSound, FallenLoses

\* Steps that neither hurt a player, nor end the match, nor make it go on.
LEMMA FallKept ==
  ASSUME FallSound, UNCHANGED <<events, verdicts, started>>,
         sim'.health = sim.health,
         sim'.phase = sim.phase \/ sim'.phase # Live
  PROVE  FallSound'
BY DEF FallSound, FallenLoses

\* A fires first, and B only fires back when he still stands: one falls at
\* most, and that is the last thing that happens in the tick.
LEMMA TickFall ==
  ASSUME VerdictInv, LoopTypes, FallSound, NEW blowA \in Damages \cup {0},
         NEW blowB \in Damages \cup {0}, Tick(blowA, blowB)
  PROVE  FallSound'
<1> DEFINE back == ReturnBlow(blowA, blowB)
           first == EventsOf("B", blowA)
           second == EventsOf("A", back)
           left == [s \in Slots |->
                      LET blow == IF s = "A" THEN back ELSE blowA IN
                      IF blow >= sim.health[s] THEN 0 ELSE sim.health[s] - blow]
<1>1. /\ sim.health \in [Slots -> 0 .. Health]
      /\ \A s \in Slots : sim.health[s] > 0
      /\ started /\ UNCHANGED <<started, verdicts>>
  BY DEF Tick, LoopTypes, Sims, FallSound, matchVars, serverHistory
<1>2. verdicts = <<>>
  BY EmptySeq DEF Tick, VerdictInv, OneVerdict
<1>3. /\ events' = first \o second
      /\ sim'.health = left
      /\ sim'.phase = IF left["B"] = 0 THEN Ended("A")
                      ELSE IF left["A"] = 0 THEN Ended("B") ELSE Live
  BY DEF Tick
<1>4. back \in Damages \cup {0} /\ blowA \in Nat /\ back \in Nat
  <2>1. back \in Damages \cup {0}
    BY DEF ReturnBlow
  <2> HIDE DEF back
  <2> QED
    BY <2>1, SettlementAssumption
<1>5. first \in Seq(Event) /\ second \in Seq(Event)
  BY <1>4, EventsOfType DEF Slots
<1>6. left["B"] = 0 <=> blowA >= sim.health["B"]
  BY <1>1, <1>4 DEF Slots
<1>7. left["A"] = 0 <=> back >= sim.health["A"]
  BY <1>1, <1>4 DEF Slots
<1>8. CASE blowA >= sim.health["B"]
  <2>1. back = 0 /\ blowA # 0
    BY <1>1, <1>4, <1>8 DEF ReturnBlow, Slots
  <2>2. first = <<Damage("B", blowA), Death("B")>> /\ second = <<>>
    BY <1>8, <2>1 DEF EventsOf
  <2>3. left["A"] # 0 /\ left["B"] = 0
    BY <1>1, <1>6, <1>7, <1>8, <2>1 DEF Slots
  <2>4. events' = <<Damage("B", blowA), Death("B")>>
    <3>1. first \o second = first
      BY <1>5, <2>2
    <3> QED
      BY <1>3, <2>2, <3>1
  <2> HIDE DEF left
  <2>5. events' # <<>> /\ events'[Len(events')] = Death("B")
    BY <2>4
  <2> QED
    BY <1>1, <1>2, <1>3, <2>3, <2>5 DEF FallSound, FallenLoses, Slots, Live,
                                        Ended, Phase
<1>9. CASE ~(blowA >= sim.health["B"]) /\ back >= sim.health["A"]
  <2>1. back # 0
    BY <1>1, <1>9 DEF Slots
  <2>2. second = <<Damage("A", back), Death("A")>>
    BY <1>9, <2>1 DEF EventsOf
  <2>3. left["A"] = 0 /\ left["B"] # 0
    BY <1>6, <1>7, <1>9
  <2> HIDE DEF left, first
  <2>4. events' # <<>> /\ events'[Len(events')] = Death("A")
    <3>1. Len(second) = 2 /\ second[2] = Death("A")
      BY <2>2
    <3> HIDE DEF second
    <3>7. Len(first) \in Nat /\ Len(first \o second) = Len(first) + Len(second)
      BY <1>5
    <3>8. Len(second) = 2
      BY <3>1
    <3>2. Len(first) \in Nat /\ Len(first \o second) = Len(first) + 2
      BY <3>7, <3>8
    <3>4. Len(first) + 2 \in 1 .. Len(first \o second)
      BY <3>2
    <3>5. (first \o second)[Len(first) + 2] = second[Len(first) + 2 - Len(first)]
      BY <1>5, <3>2, <3>4, ConcatProperties
    <3>6. Len(first) + 2 - Len(first) = 2
      BY <3>2
    <3>3. first \o second # <<>>
      BY <3>2
    <3> QED
      BY <1>3, <3>1, <3>2, <3>3, <3>5, <3>6
  <2> QED
    BY <1>1, <1>2, <1>3, <2>3, <2>4 DEF FallSound, FallenLoses, Slots, Live,
                                        Ended, Phase
<1>10. CASE ~(blowA >= sim.health["B"]) /\ ~(back >= sim.health["A"])
  <2>1. \A s \in Slots : left[s] \in Nat /\ left[s] # 0
    BY <1>1, <1>4, <1>10 DEF Slots
  <2> HIDE DEF left
  <2> QED
    BY <1>3, <2>1 DEF FallSound, FallenLoses
<1> QED
  BY <1>8, <1>9, <1>10

\* A hit that pauses the match does not lose the death behind it.
LEMMA DamageFall ==
  ASSUME VerdictInv, LoopTypes, FallSound, HandleDamage
  PROVE  FallSound'
<1>1. /\ events' = Tail(events) /\ events # <<>>
      /\ Head(events).kind = "Damage"
      /\ UNCHANGED <<verdicts, started>>
  BY DEF HandleDamage, matchVars
<1>2. /\ sim'.health = sim.health
      /\ sim'.phase = sim.phase \/ sim'.phase # Live
  BY DEF HandleDamage, LoopTypes, Sims, PaymentPaused, Live, Phase
<1>3. events \in Seq(Event)
  BY DEF VerdictInv
<1>4. ASSUME NEW s \in Slots, sim.health[s] = 0
      PROVE  Tail(events) # <<>> /\ Tail(events)[Len(Tail(events))] = Death(s)
  <2>1. events[Len(events)] = Death(s)
    BY <1>1, <1>4 DEF FallSound
  <2>2. events[1].kind = "Damage"
    BY <1>1, <1>3
  <2>3. Len(events) # 1
    BY <2>1, <2>2 DEF Death
  <2>4. /\ Tail(events) \in Seq(Event) /\ Len(events) \in Nat
        /\ Len(Tail(events)) = Len(events) - 1
        /\ \A j \in 1 .. Len(Tail(events)) : Tail(events)[j] = events[j + 1]
    BY <1>1, <1>3, HeadTailProperties, EmptySeq
  <2>9. Len(events) # 0
    BY <1>1, <1>3
  <2> DEFINE all == Len(events)
             rest == Len(Tail(events))
  <2>5. all \in Nat /\ all > 1 /\ rest = all - 1
    BY <2>3, <2>4, <2>9
  <2> HIDE DEF all, rest
  <2>6. rest \in 1 .. rest /\ rest + 1 = all /\ rest # 0
    BY <2>5
  <2>7. Tail(events)[rest] = events[all]
    BY <2>4, <2>6 DEF rest
  <2>8. Tail(events) # <<>>
    BY <2>4, <2>6, EmptySeq DEF rest
  <2> QED
    BY <2>1, <2>7, <2>8 DEF all, rest
<1> QED
  BY <1>1, <1>2, <1>4 DEF FallSound, FallenLoses

\* The death that ends the match is that of the player who fell.
LEMMA DeathFall ==
  ASSUME VerdictInv, FallSound, HandleDeath
  PROVE  FallSound'
<1>1. /\ events \in Seq(Event) /\ events # <<>>
      /\ Head(events).kind = "Death" /\ events' = Tail(events)
      /\ verdicts' = Append(verdicts, Opponent(Head(events).victim))
      /\ UNCHANGED <<sim, started>>
  BY DEF VerdictInv, HandleDeath, EndMatch
<1>2. verdicts = <<>>
  BY <1>1, EmptySeq DEF VerdictInv, OneVerdict
<1>3. Len(events) = 1
  <2>1. Len(events) \in Nat /\ 1 \in 1 .. Len(events)
    BY <1>1
  <2>2. events[1].kind = "Death"
    BY <1>1
  <2> QED
    BY <2>1, <2>2 DEF VerdictInv, DeathIsLast
<1>4. Tail(events) = <<>>
  <2>1. Tail(events) \in Seq(Event) /\ Len(Tail(events)) = 0
    BY <1>1, <1>3
  <2> QED
    BY <2>1, EmptySeq
<1>5. ASSUME NEW s \in Slots, sim.health[s] = 0
      PROVE  verdicts' = <<Opponent(s)>>
  <2>1. Head(events) = Death(s)
    BY <1>1, <1>3, <1>5 DEF FallSound
  <2>2. Head(events).victim = s
    BY <2>1 DEF Death
  <2> QED
    BY <1>1, <1>2, <2>2
<1> QED
  BY <1>1, <1>4, <1>5 DEF FallSound, FallenLoses

LEMMA FallStep ==
  VerdictInv /\ LoopTypes /\ FallSound /\ [ServerNext]_serverVars => FallSound'
<1> SUFFICES ASSUME VerdictInv, LoopTypes, FallSound, [ServerNext]_serverVars
             PROVE  FallSound'
  OBVIOUS
<1>0. ASSUME UNCHANGED <<events, verdicts, started, sim>>
      PROVE  FallSound'
  BY <1>0, FallKept
<1>1. CASE Turn
  <2>1. CASE Drained \/ IssueTerms \/ NoForfeit \/ NoStart \/ Ticked \/ Exit
    BY <1>0, <2>1 DEF Drained, IssueTerms, NoForfeit, NoStart, Ticked, Exit,
                      matchVars, serverHistory
  <2>2. CASE Forfeit
    <3>1. events = <<>> /\ ~ended /\ UNCHANGED <<events, started>>
      BY <2>2 DEF Forfeit, ForfeitDue, Goto, VerdictInv
    <3>2. verdicts = <<>>
      BY <3>1, EmptySeq DEF VerdictInv, OneVerdict
    <3>3. \A s \in Slots : sim.health[s] # 0
      <4> SUFFICES ASSUME NEW s \in Slots, sim.health[s] = 0
                   PROVE  FALSE
        OBVIOUS
      <4>1. verdicts = <<Opponent(s)>>
        BY <3>1 DEF FallSound, FallenLoses
      <4> QED
        BY <3>2, <4>1
    <3>4. sim'.health = sim.health /\ sim'.phase # Live
      BY <2>2 DEF Forfeit, LoopTypes, Sims, Ended, Live, Phase
    <3> QED
      BY <3>1, <3>3, <3>4 DEF FallSound, FallenLoses
  <2>3. CASE StartMatch
    <3>1. /\ ~started /\ UNCHANGED <<events, verdicts>>
          /\ sim'.health = sim.health
      BY <2>3 DEF StartMatch, ReadyToStart, LoopTypes, Sims, serverHistory
    <3> QED
      BY <3>1 DEF FallSound, FallenLoses
  <2>4. CASE HandleDamage
    BY <2>4, DamageFall
  <2>5. CASE HandleDeath
    BY <2>5, DeathFall
  <2> QED
    BY <1>1, <2>1, <2>2, <2>3, <2>4, <2>5 DEF Turn
<1>2. CASE Fight
  BY <1>2, TickFall DEF Fight
<1>3. ASSUME NEW s \in Slots, Client(s)
      PROVE  FallSound'
  <2>1. UNCHANGED <<events, verdicts, started, sim>>
    BY <1>3 DEF Client, Connect, Disconnect, AcceptTerms, ReceiveOffer,
                ReceiveReport, matchVars, serverHistory, loopVars
  <2> QED
    BY <1>0, <2>1
<1>4. ASSUME NEW t \in Timers, Elapse(t)
      PROVE  FallSound'
  BY <1>0, <1>4 DEF Elapse, matchVars, serverHistory
<1>5. CASE UNCHANGED serverVars
  BY <1>0, <1>5 DEF serverVars, loopVars, matchVars, serverHistory
<1> QED
  BY <1>1, <1>2, <1>3, <1>4, <1>5 DEF ServerNext

LEMMA LoopTypesAlways == ServerSpec => []LoopTypes
BY InitLoopTypes, LoopTypesStep, ServerInductive, PTL DEF ServerSpec

\* A fall decides the match for the one who stands, whatever payment ran out
\* in the same tick.
THEOREM FallenCorrect == ServerSpec => []FallenLoses
<1>1. FallSound => FallenLoses
  BY DEF FallSound
<1>2. ServerSpec => []FallSound
  BY InitFall, FallStep, VerdictAlways, LoopTypesAlways, PTL DEF ServerSpec
<1> QED
  BY <1>1, <1>2, PTL

-----------------------------------------------------------------------------
(* The server keeps what its coordinator promises.  Settlement has the hits *)
(* bounded; those of a match are not, so that ServerSpec does not imply     *)
(* Spec, and the promises are proved of the calls the loop makes.           *)

\* A turn of the loop makes at most one call that changes the coordinator.
LEMMA LoopCalls ==
  ASSUME ServerInv, [ServerNext]_serverVars
  PROVE  \/ PlayerMessage
         \/ \E v \in Slots, d \in Damages : RecordDamage(v, d)
         \/ CancelUnused
         \/ UNCHANGED vars
<1>1. CASE Turn
  <2>1. CASE \/ Drained \/ IssueTerms \/ NoForfeit \/ StartMatch \/ NoStart
             \/ Ticked \/ Exit
    BY <2>1 DEF Drained, IssueTerms, NoForfeit, StartMatch, NoStart, Ticked, Exit
  <2>2. CASE Forfeit \/ HandleDeath
    BY <2>2 DEF Forfeit, HandleDeath, EndMatch
  <2>3. CASE HandleDamage
    <3>1. Head(events) \in Event
      BY <2>3, FirstEvent DEF ServerInv, HandleDamage
    <3>2. PICK v \in Slots, d \in Damages : Head(events) = Damage(v, d)
      BY <2>3, <3>1 DEF HandleDamage, Event, Death, Damage
    <3> QED
      BY <2>3, <3>2 DEF HandleDamage, Damage
  <2> QED
    BY <1>1, <2>1, <2>2, <2>3 DEF Turn
<1>2. CASE Fight
  BY <1>2 DEF Fight, Tick
<1>3. ASSUME NEW s \in Slots, Client(s)
      PROVE  PlayerMessage \/ UNCHANGED vars
  BY <1>3 DEF Client, Connect, Disconnect, AcceptTerms, ReceiveOffer,
              ReceiveReport, PlayerMessage
<1>4. CASE \E t \in Timers : Elapse(t)
  BY <1>4 DEF Elapse
<1>5. CASE UNCHANGED serverVars
  BY <1>5 DEF serverVars
<1> QED
  BY <1>1, <1>2, <1>3, <1>4, <1>5 DEF ServerNext

\* Whatever the players send and whenever they leave, the server moves the
\* money of a match as the abstract escrow does.
THEOREM ServerKeepsEscrow == ServerSpec => ImplementsEscrow
<1>1. ServerInit => Escrow!EscrowInit
  BY InitEscrow DEF ServerInit
<1>2. ServerInv /\ [ServerNext]_serverVars
        => [Escrow!EscrowNext]_(Escrow!escrowVars)
  <2> SUFFICES ASSUME ServerInv, [ServerNext]_serverVars
               PROVE  Escrow!EscrowNext \/ UNCHANGED Escrow!escrowVars
    OBVIOUS
  <2>0. IInv
    BY DEF ServerInv
  <2>1. CASE PlayerMessage
    BY <2>0, <2>1, OfferEscrow, AckEscrow, FailureEscrow DEF PlayerMessage
  <2>2. CASE \E v \in Slots, d \in Damages : RecordDamage(v, d)
    BY <2>0, <2>2, DamageEscrow
  <2>3. CASE CancelUnused
    BY <2>0, <2>3, CancelEscrow
  <2>4. CASE UNCHANGED vars
    BY <2>4, EscrowStutter
       DEF EscrowOf, vars, reservationVars, ledgerVars, historyVars
  <2> QED
    BY <2>1, <2>2, <2>3, <2>4, LoopCalls
<1> QED
  BY <1>1, <1>2, ServerInductive, PTL
     DEF ServerSpec, ImplementsEscrow, Escrow!EscrowSpec

\* No turn of the loop signs a second release for a reservation.
THEOREM ServerReleasesOnce == ServerSpec => ReleasedOnce
<1>1. ServerInv /\ [ServerNext]_serverVars
        => [\A r \in Ids : signed[r] # 0 => signed'[r] = signed[r]]_vars
  <2> SUFFICES ASSUME ServerInv, [ServerNext]_serverVars,
                      NEW r \in Ids, signed[r] # 0
               PROVE  signed'[r] = signed[r]
    OBVIOUS
  <2>0. IInv
    BY DEF ServerInv
  <2>1. CASE PlayerMessage
    BY <2>1 DEF PlayerMessage, RegisterInvoiceOffer, Acknowledge,
                RecordFailure, vars, historyVars
  <2>2. CASE \E v \in Slots, d \in Damages : RecordDamage(v, d)
    BY <2>0, <2>2, DamageOnce
  <2>3. CASE CancelUnused
    BY <2>3 DEF CancelUnused
  <2>4. CASE UNCHANGED vars
    BY <2>4 DEF vars, historyVars
  <2> QED
    BY <2>1, <2>2, <2>3, <2>4, LoopCalls
<1> QED
  BY <1>1, ServerInductive, PTL DEF ServerSpec, ReleasedOnce

\* The cap, the count of the damage, and what a release needs, hold of the
\* server for hits without a bound.
THEOREM ServerKeepsLedger ==
  ServerSpec => [](/\ CapRespected /\ DamageAccounted /\ LedgerAgrees
                   /\ NoUnfundedRelease /\ ReleaseExcludesCancel)
<1>1. ServerInv => /\ CapRespected /\ DamageAccounted /\ LedgerAgrees
                   /\ NoUnfundedRelease /\ ReleaseExcludesCancel
  BY CapKept DEF ServerInv, IInv, StatusSound, NoUnfundedRelease,
                 ReleaseExcludesCancel, AllSigned
<1> QED
  BY <1>1, ServerInductive, PTL

-----------------------------------------------------------------------------
(* What was not released is cancelled                                      *)

\* A reservation only leaves its preparation by a signature, a cancellation
\* that was asked for, or a failure, and a payee who is there was told.
CancelTold ==
  /\ \A r \in Ids :
       /\ status[r] \in {"Released", "Settled"} => signed[r] # 0
       /\ status[r] \in {"CancelPending", "Cancelled"} => r \in cancelAsked
       /\ r \in cancelAsked /\ Payee(r) \in connected => <<"cancel", r>> \in sent
  /\ started \/ events # <<>> \/ cancelAsked # {} => issued

LEMMA InitCancelTold == ServerInit => CancelTold
BY DEF ServerInit, Init, CancelTold

\* A step that leaves the reservations alone; who joins finds no terms.
LEMMA CancelToldKept ==
  ASSUME CancelTold, UNCHANGED <<vars, sent>>,
         connected' \subseteq connected \/ ~issued,
         issued => issued',
         started' => started \/ issued,
         events' # <<>> => events # <<>> \/ started
  PROVE  CancelTold'
BY DEF CancelTold, vars, reservationVars, historyVars

\* A report settles what was released and cancels what was asked for.
LEMMA ReceiveCancelTold ==
  ASSUME ServerInv, CancelTold, NEW s \in Slots, NEW ref \in Refs,
         \/ \E inv \in Invoices : ReceiveOffer(s, ref, inv)
         \/ \E stage \in Stages : ReceiveReport(s, ref, stage)
  PROVE  CancelTold'
<1>1. UNCHANGED <<connected, issued, started, events>> /\ sent \subseteq sent'
  BY DEF ReceiveOffer, ReceiveReport, loopVars, sessionVars, matchVars,
         serverHistory, Sending
<1>2. TypeOK
  BY DEF ServerInv, IInv
<1>3. \/ \E inv \in Invoices : RegisterInvoiceOffer(s, ref, inv)
      \/ \E stage \in Stages : Acknowledge(s, ref, stage)
      \/ \E stage \in Stages : RecordFailure(s, ref, stage)
  BY DEF ReceiveOffer, ReceiveReport
<1>4. UNCHANGED historyVars
  BY <1>3, MessageKeeps DEF ServerInv
<1>5. \A r \in Ids :
        \/ status'[r] = status[r]
        \/ status'[r] \in {"Offered", "Held", "Failed"}
        \/ status'[r] = "Settled" /\ status[r] = "Released"
        \/ status'[r] = "Cancelled" /\ status[r] = "CancelPending"
  <2>1. CASE \E inv \in Invoices : RegisterInvoiceOffer(s, ref, inv)
    BY <1>2, <2>1 DEF RegisterInvoiceOffer, TypeOK, vars, reservationVars
  <2>2. CASE \E stage \in Stages : Acknowledge(s, ref, stage)
    <3>1. PICK stage \in Stages : Acknowledge(s, ref, stage)
      BY <2>2
    <3>2. CASE ~AckAccepted(s, ref, stage)
      BY <3>1, <3>2 DEF Acknowledge, vars, reservationVars
    <3>3. CASE AckAccepted(s, ref, stage) /\ stage \in {"Funded", "Received"}
      BY <1>2, <3>1, <3>3 DEF Acknowledge, RecordReadiness, TypeOK
    <3>4. CASE AckAccepted(s, ref, stage) /\ stage \in {"Settled", "Cancelled"}
      BY <1>2, <3>1, <3>4 DEF Acknowledge, AckAccepted, Accepting, TypeOK
    <3> QED
      BY <3>2, <3>3, <3>4 DEF Stages
  <2>3. CASE \E stage \in Stages : RecordFailure(s, ref, stage)
    BY <1>2, <2>3 DEF RecordFailure, TypeOK, vars, reservationVars
  <2> QED
    BY <1>3, <2>1, <2>2, <2>3
<1> QED
  BY <1>1, <1>4, <1>5 DEF CancelTold, historyVars

\* The end tells every payee who is there.
LEMMA EndCancelTold ==
  ASSUME ServerInv, CancelTold, NEW winner, EndMatch(winner), issued,
         UNCHANGED <<connected, issued>>
  PROVE  CancelTold'
<1>1. /\ status' = [r \in Ids |-> IF r \in Unused THEN "CancelPending"
                                   ELSE status[r]]
      /\ cancelAsked' = cancelAsked \cup Unused /\ UNCHANGED signed
  BY DEF EndMatch, CancelUnused
<1>2. Unused \in SUBSET Ids
  BY DEF Unused
<1>3. /\ sent \subseteq sent'
      /\ \A r \in Unused : Payee(r) \in connected => <<"cancel", r>> \in sent'
  BY <1>2 DEF EndMatch, Sending, Recipient
<1> QED
  BY <1>1, <1>2, <1>3 DEF CancelTold

\* What a hit releases is signed.
LEMMA DamageCancelTold ==
  ASSUME ServerInv, CancelTold, HandleDamage
  PROVE  CancelTold'
<1>1. Head(events) \in Event
  BY FirstEvent DEF ServerInv, HandleDamage
<1>2. PICK v \in Slots, d \in Damages : Head(events) = Damage(v, d)
  BY <1>1 DEF HandleDamage, Event, Death, Damage
<1>3. RecordDamage(v, d)
  BY <1>2 DEF HandleDamage, Damage
<1>4. PICK R \in SUBSET HeldBy(v) :
         /\ status' = [r \in Ids |-> IF r \in R THEN "Released" ELSE status[r]]
         /\ signed' = [r \in Ids |->
                         IF r \in R
                         THEN nextSequence + Cardinality({q \in R : q < r})
                         ELSE signed[r]]
         /\ UNCHANGED cancelAsked
  BY <1>3 DEF RecordDamage
<1>5. \A r \in R : r \in Ids /\ signed'[r] # 0
  <2> SUFFICES ASSUME NEW r \in R
               PROVE  r \in Ids /\ signed'[r] # 0
    OBVIOUS
  <2>1. R \in SUBSET Ids
    BY DEF HeldBy, IdsOf
  <2>2. {q \in R : q < r} \in SUBSET Ids
    BY <2>1
  <2>3. Cardinality({q \in R : q < r}) \in Nat
    BY <2>2, IdSubset
  <2>4. nextSequence \in Nat \ {0}
    BY DEF ServerInv, IInv, TypeOK
  <2>5. signed'[r] = nextSequence + Cardinality({q \in R : q < r})
    BY <1>4, <2>1
  <2> HIDE <1>4
  <2> QED
    BY <2>1, <2>3, <2>4, <2>5
<1>6. /\ UNCHANGED <<connected, issued, started>> /\ sent \subseteq sent'
      /\ events # <<>>
  BY DEF HandleDamage, Sending, sessionVars, matchVars
<1> QED
  BY <1>4, <1>5, <1>6 DEF CancelTold

LEMMA CancelToldStep ==
  ServerInv /\ CancelTold /\ [ServerNext]_serverVars => CancelTold'
<1> SUFFICES ASSUME ServerInv, CancelTold, [ServerNext]_serverVars
             PROVE  CancelTold'
  OBVIOUS
<1>1. CASE Turn
  <2>1. CASE Drained \/ NoForfeit \/ NoStart \/ Ticked \/ Exit
    BY <2>1, CancelToldKept DEF Drained, NoForfeit, NoStart, Ticked, Exit,
                                matchVars, sessionVars, serverHistory
  <2>2. CASE IssueTerms
    <3>1. /\ UNCHANGED <<vars, sent, connected, started, events>>
          /\ issued => issued'
      BY <2>2, Zenon DEF IssueTerms, sessionVars, serverHistory
    <3> QED
      BY <3>1, CancelToldKept
  <2>3. CASE StartMatch
    BY <2>3, CancelToldKept DEF StartMatch, ReadyToStart, sessionVars,
                                serverHistory
  <2>4. CASE Forfeit
    BY <2>4, EndCancelTold DEF Forfeit, ForfeitDue
  <2>5. CASE HandleDeath
    BY <2>5, EndCancelTold DEF HandleDeath, sessionVars, CancelTold
  <2>6. CASE HandleDamage
    BY <2>6, DamageCancelTold
  <2> QED
    BY <1>1, <2>1, <2>2, <2>3, <2>4, <2>5, <2>6 DEF Turn
<1>2. CASE Fight
  BY <1>2, CancelToldKept DEF Fight, Tick, sessionVars, matchVars, serverHistory
<1>3. ASSUME NEW s \in Slots, Client(s)
      PROVE  CancelTold'
  <2>1. CASE Connect(s) \/ Disconnect(s) \/ AcceptTerms(s)
    BY <2>1, CancelToldKept DEF Connect, Disconnect, AcceptTerms, matchVars,
                                serverHistory
  <2>2. CASE \E ref \in Refs :
               \/ \E inv \in Invoices : ReceiveOffer(s, ref, inv)
               \/ \E stage \in Stages : ReceiveReport(s, ref, stage)
    BY <2>2, ReceiveCancelTold
  <2> QED
    BY <1>3, <2>1, <2>2 DEF Client
<1>4. CASE \E t \in Timers : Elapse(t)
  BY <1>4, CancelToldKept DEF Elapse, sessionVars, matchVars, serverHistory
<1>5. CASE UNCHANGED serverVars
  BY <1>5, CancelToldKept DEF serverVars, loopVars, sessionVars, matchVars,
                              serverHistory
<1> QED
  BY <1>1, <1>2, <1>3, <1>4, <1>5 DEF ServerNext

\* After a match that started, or that a player left under the terms, the only
\* funded invoice a payee who is there was not told to cancel, and that was
\* not released, is one whose funding or receipt was reported failed.  However
\* a match ends, nobody is told twice to cancel the same invoice.
THEOREM CancelledCorrect == ServerSpec => []CancelledUnlessFailed
<1>1. ServerInv /\ EndSound /\ CancelTold => CancelledUnlessFailed
  <2>0. ServerInv => \A r \in Ids : <<"cancel", r>> \notin repeated
    BY DEF ServerInv, SentOnce
  <2> SUFFICES ASSUME ServerInv, EndSound, CancelTold,
                      ended, leaver # Nobody \/ started, NEW r \in Ids,
                      payerFunded[r], signed[r] = 0, Payee(r) \in connected,
                      status[r] # "Failed"
               PROVE  <<"cancel", r>> \in sent
    BY <2>0 DEF CancelledUnlessFailed
  <2>1. status[r] \in Statuses
    BY DEF ServerInv, IInv, TypeOK
  <2>2. status[r] # "AwaitingInvoice"
    BY DEF EndSound, FreshUnreported
  <2>3. status[r] # "Held" /\ LeaverUnreported(r)
    BY DEF EndSound, NothingCanBeHeld
  <2>4. status[r] # "Offered"
    <3> SUFFICES ASSUME status[r] = "Offered"
                 PROVE  FALSE
      OBVIOUS
    <3>1. ~started /\ leaver \in Slots /\ leaver \notin connected
      BY <2>3 DEF LeaverUnreported, EndSound, LeaverGone
    <3>2. Payer(r) = leaver
      BY <3>1 DEF Payee, Payer, Opponent, Slots
    <3> QED
      BY <2>3, <3>2 DEF LeaverUnreported
  <2>5. status[r] \notin {"Released", "Settled"}
    BY DEF CancelTold
  <2>6. r \in cancelAsked
    BY <2>1, <2>2, <2>3, <2>4, <2>5 DEF Statuses, CancelTold
  <2> QED
    BY <2>6 DEF CancelTold
<1>2. ServerSpec => []CancelTold
  BY InitCancelTold, CancelToldStep, ServerInductive, PTL DEF ServerSpec
<1> QED
  BY <1>1, <1>2, EndAlways, ServerInductive, PTL
=============================================================================
