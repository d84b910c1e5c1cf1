---------------------------- MODULE MoneyProofs ----------------------------
(***************************************************************************)
(* Where the money of a match goes, end to end: server, channels, clients, *)
(* workers and nodes, for every value of the constants and every fault.    *)
(*                                                                         *)
(* The argument follows an order on its way.  A release on a channel was   *)
(* signed, a cancellation was asked for; hence so was what a worker is     *)
(* told to do, and what it made of the invoice.  In the other direction, a *)
(* report of receipt on a channel is about an invoice whose payment has    *)
(* arrived.  What was signed, asked for or has arrived stays so.           *)
(***************************************************************************)
EXTENDS ArenaMatch, ArenaServerProofs, FoldProofs

\* The payment has arrived at the payee's node, or can no longer.
Arrived(r) == hold[r] \in {"Received", "Paid", "Cancelled", "Expired"}

\* The messages that may be under way, in the light of the server's ledger
\* and of the nodes.
DownMessages ==
  {Plain("welcome"), Plain("ended")}
    \cup {Msg("offer", r) : r \in Ids}
    \cup {Msg("release", r) : r \in {q \in Ids : signed[q] # 0}}
    \cup {Msg("cancel", r) : r \in cancelAsked}

UpMessages ==
  {Plain("accept")}
    \cup {Msg("offer", r) : r \in Ids}
    \cup {Report("failure", r, stage) : r \in Ids, stage \in Stages}
    \cup {Report("ack", r, stage) : r \in Ids, stage \in Stages \ {"Received"}}
    \cup {Report("ack", r, "Received") : r \in {q \in Ids : Arrived(q)}}

ChannelsSound ==
  /\ down \in [Slots -> Seq(DownMessages)]
  /\ up \in [Slots -> Seq(UpMessages)]

NodeSound ==
  /\ hold \in [Ids -> HoldStates]
  /\ work \in [Ops -> [Ids -> WorkStates]]
  /\ \A r \in Ids :
       /\ work["wait"][r] = "ok" \/ payeeReceived[r] => Arrived(r)
       /\ work["settle"][r] # "none" \/ hold[r] = "Paid" => signed[r] # 0
       /\ work["cancel"][r] # "none" \/ hold[r] = "Cancelled" => r \in cancelAsked

MoneyInv ==
  /\ ServerInv
  /\ LoopTypes
  /\ NodeSound
  /\ ChannelsSound

-----------------------------------------------------------------------------
(* Channels                                                                *)

\* A set read as a sequence yields members of the set.
LEMMA SeqOfSet ==
  ASSUME NEW S, IsFiniteSet(S)
  PROVE  SetToSeq(S) \in [1 .. Cardinality(S) -> S] /\ Cardinality(S) \in Nat
<1>1. ExistsBijection(1 .. Cardinality(S), S) /\ Cardinality(S) \in Nat
  BY FS_CardinalityType
<1>2. \E f \in [1 .. Cardinality(S) -> S] : IsInjective(f)
  BY <1>1 DEF ExistsBijection, Bijection, Injection, IsInjective
<1> QED
  BY <1>1, <1>2 DEF SetToSeq

\* What may be under way still may be when the ledger and the nodes go on.
LEMMA MessagesGrow ==
  ASSUME \A r \in Ids : signed[r] # 0 => signed'[r] # 0,
         cancelAsked \subseteq cancelAsked',
         \A r \in Ids : Arrived(r) => Arrived(r)'
  PROVE  DownMessages \subseteq DownMessages' /\ UpMessages \subseteq UpMessages'
<1>1. DownMessages \subseteq DownMessages'
  BY DEF DownMessages
<1>2. UpMessages \subseteq UpMessages'
  BY DEF UpMessages
<1> QED
  BY <1>1, <1>2

LEMMA SaysSound ==
  ASSUME up \in [Slots -> Seq(UpMessages)], UpMessages \subseteq UpMessages',
         NEW s \in Slots, NEW messages \in Seq(UpMessages'), Says(s, messages)
  PROVE  up' \in [Slots -> Seq(UpMessages')]
<1>1. \A t \in Slots : up[t] \in Seq(UpMessages')
  BY SeqMonotonic
<1>2. up[s] \o messages \in Seq(UpMessages')
  BY <1>1, ConcatProperties
<1>3. up' = up \/ up' = [up EXCEPT ![s] = up[s] \o messages]
  BY DEF Says
<1> QED
  BY <1>1, <1>2, <1>3

LEMMA ReadsSound ==
  ASSUME ChannelsSound, NEW s \in Slots, NEW kind, Reads(s, kind)
  PROVE  /\ Head(down[s]) \in DownMessages
         /\ Head(down[s]).kind = kind
         /\ down' \in [Slots -> Seq(DownMessages)]
<1>1. down[s] \in Seq(DownMessages) /\ down[s] # <<>>
  BY DEF ChannelsSound, Reads
<1>2. Head(down[s]) \in DownMessages /\ Tail(down[s]) \in Seq(DownMessages)
  BY <1>1, HeadTailProperties
<1> QED
  BY <1>2 DEF ChannelsSound, Reads

-----------------------------------------------------------------------------
(* The server                                                              *)

\* What was signed stays signed, and what was asked for stays so.
LEMMA LedgerGrows ==
  ASSUME ServerInv, [ServerNext]_serverVars
  PROVE  /\ \A r \in Ids : signed[r] # 0 => signed'[r] # 0
         /\ cancelAsked \subseteq cancelAsked'
<1> DEFINE Grown == /\ \A r \in Ids : signed[r] # 0 => signed'[r] # 0
                    /\ cancelAsked \subseteq cancelAsked'
<1>1. ASSUME UNCHANGED historyVars
      PROVE  Grown
  BY <1>1 DEF historyVars
<1>2. ASSUME UNCHANGED vars
      PROVE  Grown
  BY <1>2 DEF vars, historyVars
<1>3. ASSUME CancelUnused
      PROVE  Grown
  BY <1>3 DEF CancelUnused
<1>4. ASSUME HandleDamage
      PROVE  Grown
  <2>1. Head(events) \in Event
    BY <1>4, FirstEvent DEF ServerInv, HandleDamage
  <2>2. PICK v \in Slots, d \in Damages : Head(events) = Damage(v, d)
    BY <1>4, <2>1 DEF HandleDamage, Event, Death, Damage
  <2>3. RecordDamage(v, d)
    BY <1>4, <2>2 DEF HandleDamage, Damage
  <2> QED
    BY <2>3, DamageKeeps DEF ServerInv
<1>5. CASE Turn
  <2>1. CASE \/ Drained \/ IssueTerms \/ NoForfeit \/ StartMatch \/ NoStart
             \/ Ticked \/ Exit
    <3>1. UNCHANGED vars
      BY <2>1 DEF Drained, IssueTerms, NoForfeit, StartMatch, NoStart, Ticked,
                  Exit
    <3> QED
      BY <1>2, <3>1
  <2>2. CASE Forfeit \/ HandleDeath
    BY <1>3, <2>2 DEF Forfeit, HandleDeath, EndMatch
  <2> QED
    BY <1>4, <1>5, <2>1, <2>2 DEF Turn
<1>6. CASE Fight
  BY <1>2, <1>6 DEF Fight, Tick
<1>7. ASSUME NEW s \in Slots, Client(s)
      PROVE  Grown
  <2>1. CASE Connect(s) \/ Disconnect(s) \/ AcceptTerms(s)
    BY <1>2, <2>1 DEF Connect, Disconnect, AcceptTerms
  <2>2. ASSUME NEW ref \in Refs,
               \/ \E inv \in Invoices : ReceiveOffer(s, ref, inv)
               \/ \E stage \in Stages : ReceiveReport(s, ref, stage)
        PROVE  Grown
    <3>1. \/ \E inv \in Invoices : RegisterInvoiceOffer(s, ref, inv)
          \/ \E stage \in Stages : Acknowledge(s, ref, stage)
          \/ \E stage \in Stages : RecordFailure(s, ref, stage)
      BY <2>2 DEF ReceiveOffer, ReceiveReport
    <3> QED
      BY <1>1, <3>1, MessageKeeps DEF ServerInv
  <2> QED
    BY <1>7, <2>1, <2>2 DEF Client
<1>8. CASE \E t \in Timers : Elapse(t)
  BY <1>2, <1>8 DEF Elapse
<1>9. CASE UNCHANGED serverVars
  BY <1>2, <1>9 DEF serverVars
<1> QED
  BY <1>5, <1>6, <1>7, <1>8, <1>9 DEF ServerNext

\* The loop itself takes nobody's word for a receipt.
LEMMA LoopReceives ==
  ASSUME Turn \/ Fight \/ \E t \in Timers : Elapse(t)
  PROVE  UNCHANGED payeeReceived
<1>1. CASE Turn
  <2>1. CASE HandleDamage
    BY <2>1 DEF HandleDamage, RecordDamage
  <2>2. CASE Forfeit \/ HandleDeath
    BY <2>2 DEF Forfeit, HandleDeath, EndMatch, CancelUnused
  <2> QED
    BY <1>1, <2>1, <2>2
       DEF Turn, Drained, IssueTerms, NoForfeit, StartMatch, NoStart, Ticked,
           Exit, vars, reservationVars
<1>2. CASE Fight \/ \E t \in Timers : Elapse(t)
  BY <1>2 DEF Fight, Tick, Elapse, vars, reservationVars
<1> QED
  BY <1>1, <1>2

\* What a step of the server tells a client is covered by its ledger.
LEMMA ToldSound ==
  ASSUME ServerInv', LoopTypes', NEW s \in Slots
  PROVE  Told(s) \in Seq(DownMessages')
<1> DEFINE N == {m \in sent' \ sent : Recipient(m[1], m[2]) = s}
           news == SetToSeq(N)
           D == DownMessages'
<1>1. N \subseteq {"offer", "release", "cancel"} \X Ids
  BY DEF LoopTypes
<1>2. IsFiniteSet(N)
  <2>1. IsFiniteSet({"offer", "release", "cancel"})
    <3>1. IsFiniteSet({"offer"}) /\ IsFiniteSet({"release"}) /\ IsFiniteSet({"cancel"})
      BY FS_Singleton
    <3>2. IsFiniteSet({"offer"} \cup {"release"})
      BY <3>1, FS_Union
    <3>3. IsFiniteSet(({"offer"} \cup {"release"}) \cup {"cancel"})
      BY <3>1, <3>2, FS_Union
    <3>4. {"offer", "release", "cancel"} = ({"offer"} \cup {"release"}) \cup {"cancel"}
      OBVIOUS
    <3> QED
      BY <3>3, <3>4
  <2>2. IsFiniteSet({"offer", "release", "cancel"} \X Ids)
    BY <2>1, IdsFinite, FS_Product
  <2> QED
    BY <1>1, <2>2, FS_Subset
<1>3. \A m \in N : Msg(m[1], m[2]) \in D
  <2> SUFFICES ASSUME NEW m \in N
               PROVE  Msg(m[1], m[2]) \in D
    OBVIOUS
  <2>1. PICK k \in {"offer", "release", "cancel"}, r \in Ids : m = <<k, r>>
    BY <1>1
  <2>2. <<k, r>> \in sent'
    BY <2>1
  <2>3. k = "release" => signed'[r] # 0
    BY <2>2 DEF ServerInv, SentSound
  <2>4. k = "cancel" => r \in cancelAsked'
    BY <2>2 DEF ServerInv, SentSound
  <2>5. Msg(k, r) \in D
    BY <2>3, <2>4 DEF DownMessages
  <2> QED
    BY <2>1, <2>5
<1>4. news \in [1 .. Cardinality(N) -> N] /\ Cardinality(N) \in Nat
  BY <1>2, SeqOfSet
<1> HIDE DEF N, news
<1>5. [i \in DOMAIN news |-> Msg(news[i][1], news[i][2])] \in Seq(D)
  <2> DEFINE n == Cardinality(N)
             F == [i \in DOMAIN news |-> Msg(news[i][1], news[i][2])]
  <2>1. F \in [1 .. n -> D]
    BY <1>3, <1>4
  <2>2. n \in Nat
    BY <1>4
  <2> HIDE DEF n, F, D
  <2>3. F \in Seq(D)
    BY <2>1, <2>2
  <2> QED
    BY <2>3 DEF F
<1>6. /\ (IF issued' /\ ~issued THEN <<Plain("welcome")>> ELSE <<>>) \in Seq(D)
      /\ (IF verdicts' # verdicts THEN <<Plain("ended")>> ELSE <<>>) \in Seq(D)
  <2>1. Plain("welcome") \in D /\ Plain("ended") \in D
    BY DEF DownMessages
  <2> HIDE DEF D
  <2> QED
    BY <2>1
<1> HIDE DEF D
<1>7. ((IF issued' /\ ~issued THEN <<Plain("welcome")>> ELSE <<>>)
         \o [i \in DOMAIN news |-> Msg(news[i][1], news[i][2])])
         \o (IF verdicts' # verdicts THEN <<Plain("ended")>> ELSE <<>>) \in Seq(D)
  BY <1>5, <1>6, ConcatProperties
<1> QED
  BY <1>7 DEF Told, news, N, D

LEMMA TellingSound ==
  ASSUME ChannelsSound, ServerInv', LoopTypes',
         DownMessages \subseteq DownMessages', Telling
  PROVE  down' \in [Slots -> Seq(DownMessages')]
<1>1. \A s \in Slots : down[s] \in Seq(DownMessages')
  BY SeqMonotonic DEF ChannelsSound
<1>2. \A s \in Slots : down[s] \o Told(s) \in Seq(DownMessages')
  BY <1>1, ToldSound, ConcatProperties
<1>3. <<>> \in Seq(DownMessages')
  BY EmptySeq
<1> QED
  BY <1>2, <1>3 DEF Telling

\* Nodes and workers as a step of the server sees them.
LEMMA NodesAside ==
  ASSUME ServerInv, NodeSound, [ServerNext]_serverVars, UNCHANGED <<hold, work>>,
         \A r \in Ids : payeeReceived'[r] => payeeReceived[r] \/ Arrived(r)
  PROVE  /\ NodeSound'
         /\ DownMessages \subseteq DownMessages'
         /\ UpMessages \subseteq UpMessages'
<1>1. /\ \A r \in Ids : signed[r] # 0 => signed'[r] # 0
      /\ cancelAsked \subseteq cancelAsked'
  BY LedgerGrows
<1>2. \A r \in Ids : Arrived(r) <=> Arrived(r)'
  BY DEF Arrived
<1>3. NodeSound'
  BY <1>1, <1>2 DEF NodeSound
<1> QED
  BY <1>1, <1>2, <1>3, MessagesGrow

\* The invariants of the server alone, through any step it takes.
LEMMA ServerAlone ==
  ASSUME ServerInv, LoopTypes, [ServerNext]_serverVars
  PROVE  ServerInv' /\ LoopTypes'
BY ServerInvStep, LoopTypesStep

LEMMA ServerStepMoney ==
  ASSUME MoneyInv, ServerStep
  PROVE  MoneyInv'
<1>1. Turn \/ Fight \/ \E t \in Timers : Elapse(t)
  BY DEF ServerStep
<1>2. [ServerNext]_serverVars
  BY <1>1 DEF ServerNext
<1>3. ServerInv' /\ LoopTypes'
  BY <1>2, ServerAlone DEF MoneyInv
<1>4. UNCHANGED <<hold, work, up>> /\ Telling
  BY DEF ServerStep, nodeVars
<1>5. UNCHANGED payeeReceived
  BY <1>1, LoopReceives
<1>6. /\ NodeSound'
      /\ DownMessages \subseteq DownMessages'
      /\ UpMessages \subseteq UpMessages'
  BY <1>2, <1>4, <1>5, NodesAside DEF MoneyInv
<1>7. down' \in [Slots -> Seq(DownMessages')]
  BY <1>3, <1>4, <1>6, TellingSound DEF MoneyInv
<1>8. up' \in [Slots -> Seq(UpMessages')]
  BY <1>4, <1>6, SeqMonotonic DEF MoneyInv, ChannelsSound
<1> QED
  BY <1>3, <1>6, <1>7, <1>8 DEF MoneyInv, ChannelsSound

\* The server handles a message as one of its clients: a receipt it is told of
\* is one.
LEMMA HandleServed ==
  ASSUME MoneyInv, NEW s \in Slots, HandleClientMessage(s)
  PROVE  /\ Client(s)
         /\ Head(up[s]) \in UpMessages /\ Tail(up[s]) \in Seq(UpMessages)
         /\ \A r \in Ids : payeeReceived'[r] => payeeReceived[r] \/ Arrived(r)
<1> DEFINE message == Head(up[s])
<1>1. up[s] \in Seq(UpMessages) /\ up[s] # <<>>
  BY DEF MoneyInv, ChannelsSound, HandleClientMessage
<1>2. message \in UpMessages /\ Tail(up[s]) \in Seq(UpMessages)
  BY <1>1, HeadTailProperties
<1>3. Handle(s, message) /\ UNCHANGED <<hold, work>> /\ Telling
  BY DEF HandleClientMessage, nodeVars
<1>4. message.kind \in {"offer", "ack", "failure"}
        => message.r \in Ids /\ Ref(message.r) \in Refs
  BY <1>2, MatchAssumption DEF UpMessages, Msg, Plain, Report, Ref
<1>5. message.kind \in {"ack", "failure"} => message.stage \in Stages
  BY <1>2 DEF UpMessages, Msg, Plain, Report, Stages
<1>6. message.kind = "ack" /\ message.stage = "Received" => Arrived(message.r)
  BY <1>2 DEF UpMessages, Msg, Plain, Report
<1> HIDE DEF message
<1>7. /\ Client(s)
      /\ \A r \in Ids : payeeReceived'[r] => payeeReceived[r] \/ Arrived(r)
  <2>1. CASE message.kind = "accept" /\ AcceptTerms(s)
    BY <2>1 DEF Client, AcceptTerms, vars, reservationVars
  <2>2. CASE /\ message.kind = "offer"
             /\ \E inv \in Invoices : ReceiveOffer(s, Ref(message.r), inv)
    <3>1. UNCHANGED payeeReceived
      BY <2>2 DEF ReceiveOffer, RegisterInvoiceOffer, vars, reservationVars
    <3>2. Client(s)
      BY <1>4, <2>2 DEF Client
    <3> QED
      BY <3>1, <3>2
  <2>3. CASE /\ message.kind = "ack" /\ MayReceive(s)
             /\ Acknowledge(s, Ref(message.r), message.stage)
             /\ UNCHANGED loopVars
    <3>1. ReceiveReport(s, Ref(message.r), message.stage)
      BY <2>3 DEF ReceiveReport
    <3>2. Client(s)
      BY <1>4, <1>5, <2>3, <3>1 DEF Client
    <3>3. Ref(message.r).id = message.r
      BY DEF Ref
    <3>4. CASE message.stage = "Received"
      BY <1>4, <1>6, <2>3, <3>2, <3>3, <3>4
         DEF Acknowledge, RecordReadiness, MoneyInv, ServerInv, IInv, TypeOK,
             vars, reservationVars
    <3>5. CASE message.stage # "Received"
      <4>1. \/ UNCHANGED payeeReceived
            \/ RecordReadiness(message.r, TRUE, payeeReceived[message.r])
        BY <2>3, <3>3, <3>5 DEF Acknowledge, vars, reservationVars
      <4>2. UNCHANGED payeeReceived
        BY <1>4, <2>3, <4>1
           DEF RecordReadiness, MoneyInv, ServerInv, IInv, TypeOK
      <4> QED
        BY <3>2, <4>2
    <3> QED
      BY <3>4, <3>5
  <2>4. CASE /\ message.kind = "failure" /\ MayReceive(s)
             /\ RecordFailure(s, Ref(message.r), message.stage)
             /\ UNCHANGED loopVars
    <3>1. ReceiveReport(s, Ref(message.r), message.stage)
      BY <2>4 DEF ReceiveReport
    <3>2. Client(s)
      BY <1>4, <1>5, <2>4, <3>1 DEF Client
    <3>3. UNCHANGED payeeReceived
      BY <2>4 DEF RecordFailure, vars, reservationVars
    <3> QED
      BY <3>2, <3>3
  <2> QED
    BY <1>3, <2>1, <2>2, <2>3, <2>4 DEF Handle
<1> QED
  BY <1>2, <1>7 DEF message

LEMMA HandleMoney ==
  ASSUME MoneyInv, NEW s \in Slots, HandleClientMessage(s)
  PROVE  MoneyInv'
<1>2. Tail(up[s]) \in Seq(UpMessages)
  BY HandleServed
<1>3. UNCHANGED <<hold, work>> /\ Telling
  BY DEF HandleClientMessage, nodeVars
<1>7. \A r \in Ids : payeeReceived'[r] => payeeReceived[r] \/ Arrived(r)
  BY HandleServed
<1>8. [ServerNext]_serverVars
  BY HandleServed DEF ServerNext
<1>9. ServerInv' /\ LoopTypes'
  BY <1>8, ServerAlone DEF MoneyInv
<1>10. /\ NodeSound'
       /\ DownMessages \subseteq DownMessages'
       /\ UpMessages \subseteq UpMessages'
  BY <1>3, <1>7, <1>8, NodesAside DEF MoneyInv
<1>11. down' \in [Slots -> Seq(DownMessages')]
  BY <1>3, <1>9, <1>10, TellingSound DEF MoneyInv
<1>12. up' \in [Slots -> Seq(UpMessages')]
  <2>1. up' = [up EXCEPT ![s] = Tail(up[s])]
    BY DEF HandleClientMessage
  <2>2. \A t \in Slots : up'[t] \in Seq(UpMessages)
    BY <1>2, <2>1 DEF MoneyInv, ChannelsSound
  <2>3. \A t \in Slots : up'[t] \in Seq(UpMessages')
    BY <1>10, <2>2, SeqMonotonic
  <2> QED
    BY <2>1, <2>3 DEF MoneyInv, ChannelsSound
<1> QED
  BY <1>9, <1>10, <1>11, <1>12 DEF MoneyInv, ChannelsSound

\* A client joins, or the server loses one with what was on the way.
LEMMA JoinMoney ==
  ASSUME MoneyInv, NEW s \in Slots, Join(s)
  PROVE  MoneyInv'
<1>1. [ServerNext]_serverVars /\ UNCHANGED vars
  BY DEF Join, Connect, ServerNext, Client
<1>2. UNCHANGED <<hold, work, down, up, payeeReceived>>
  BY <1>1 DEF Join, nodeVars, vars, reservationVars
<1>3. ServerInv' /\ LoopTypes'
  BY <1>1, ServerAlone DEF MoneyInv
<1>4. /\ NodeSound'
      /\ DownMessages \subseteq DownMessages'
      /\ UpMessages \subseteq UpMessages'
  BY <1>1, <1>2, NodesAside DEF MoneyInv
<1>5. ChannelsSound'
  BY <1>2, <1>4, SeqMonotonic DEF MoneyInv, ChannelsSound
<1> QED
  BY <1>3, <1>4, <1>5 DEF MoneyInv

LEMMA LostMoney ==
  ASSUME MoneyInv, NEW s \in Slots, Lost(s)
  PROVE  MoneyInv'
<1>1. [ServerNext]_serverVars /\ UNCHANGED vars
  BY DEF Lost, Disconnect, ServerNext, Client
<1>2. UNCHANGED <<hold, work, payeeReceived>>
  BY <1>1 DEF Lost, vars, reservationVars
<1>3. ServerInv' /\ LoopTypes'
  BY <1>1, ServerAlone DEF MoneyInv
<1>4. /\ NodeSound'
      /\ DownMessages \subseteq DownMessages'
      /\ UpMessages \subseteq UpMessages'
  BY <1>1, <1>2, NodesAside DEF MoneyInv
<1>5. ChannelsSound'
  <2>1. /\ \A t \in Slots : down[t] \in Seq(DownMessages')
        /\ \A t \in Slots : up[t] \in Seq(UpMessages')
    BY <1>4, SeqMonotonic DEF MoneyInv, ChannelsSound
  <2>2. <<>> \in Seq(DownMessages') /\ <<>> \in Seq(UpMessages')
    BY EmptySeq
  <2>3. down' = [down EXCEPT ![s] = <<>>] /\ up' = [up EXCEPT ![s] = <<>>]
    BY DEF Lost
  <2> QED
    BY <2>1, <2>2, <2>3 DEF MoneyInv, ChannelsSound
<1> QED
  BY <1>3, <1>4, <1>5 DEF MoneyInv

-----------------------------------------------------------------------------
(* The clients and the nodes                                               *)

\* A step that is none of the server's.
LEMMA ServerAside ==
  ASSUME MoneyInv, UNCHANGED serverVars,
         \A r \in Ids : Arrived(r) => Arrived(r)'
  PROVE  /\ ServerInv' /\ LoopTypes'
         /\ UNCHANGED <<signed, cancelAsked, payeeReceived>>
         /\ DownMessages \subseteq DownMessages'
         /\ UpMessages \subseteq UpMessages'
<1>1. ServerInv' /\ LoopTypes'
  BY ServerAlone DEF MoneyInv
<1>2. UNCHANGED <<signed, cancelAsked, payeeReceived>>
  BY DEF serverVars, vars, historyVars, reservationVars
<1>3. DownMessages \subseteq DownMessages' /\ UpMessages \subseteq UpMessages'
  BY <1>2, MessagesGrow
<1> QED
  BY <1>1, <1>2, <1>3

\* A worker that has started for a reason goes on for it.
LEMMA WorkSound ==
  ASSUME MoneyInv, UNCHANGED <<serverVars, hold>>,
         work' \in [Ops -> [Ids -> WorkStates]],
         \A r \in Ids :
           /\ work'["wait"][r] = "ok" => work["wait"][r] = "ok" \/ Arrived(r)
           /\ work'["settle"][r] # "none"
                => work["settle"][r] # "none" \/ signed[r] # 0
           /\ work'["cancel"][r] # "none"
                => work["cancel"][r] # "none" \/ r \in cancelAsked
  PROVE  /\ ServerInv' /\ LoopTypes' /\ NodeSound'
         /\ DownMessages \subseteq DownMessages'
         /\ UpMessages \subseteq UpMessages'
<1>1. \A r \in Ids : Arrived(r) <=> Arrived(r)'
  BY DEF Arrived
<1>2. /\ ServerInv' /\ LoopTypes'
      /\ UNCHANGED <<signed, cancelAsked, payeeReceived>>
      /\ DownMessages \subseteq DownMessages'
      /\ UpMessages \subseteq UpMessages'
  BY <1>1, ServerAside
<1>3. NodeSound'
  BY <1>1, <1>2 DEF NodeSound, MoneyInv
<1> QED
  BY <1>2, <1>3

\* With the channels as they are, or as a client that speaks or reads leaves
\* them.
LEMMA QuietChannels ==
  ASSUME ChannelsSound, UNCHANGED <<down, up>>,
         DownMessages \subseteq DownMessages', UpMessages \subseteq UpMessages'
  PROVE  ChannelsSound'
BY SeqMonotonic DEF ChannelsSound

LEMMA SpokenChannels ==
  ASSUME ChannelsSound, UNCHANGED down,
         DownMessages \subseteq DownMessages', UpMessages \subseteq UpMessages',
         NEW s \in Slots, NEW messages \in Seq(UpMessages'), Says(s, messages)
  PROVE  ChannelsSound'
<1>1. up' \in [Slots -> Seq(UpMessages')]
  BY SaysSound DEF ChannelsSound
<1>2. down' \in [Slots -> Seq(DownMessages')]
  BY SeqMonotonic DEF ChannelsSound
<1> QED
  BY <1>1, <1>2 DEF ChannelsSound

LEMMA ReadChannels ==
  ASSUME ChannelsSound,
         DownMessages \subseteq DownMessages', UpMessages \subseteq UpMessages',
         NEW s \in Slots, NEW kind, Reads(s, kind),
         NEW messages \in Seq(UpMessages'), Says(s, messages) \/ UNCHANGED up
  PROVE  ChannelsSound'
<1>1. down' \in [Slots -> Seq(DownMessages)]
  BY ReadsSound
<1>2. down' \in [Slots -> Seq(DownMessages')]
  BY <1>1, SeqMonotonic
<1>3. up' \in [Slots -> Seq(UpMessages')]
  <2>1. CASE Says(s, messages)
    BY <2>1, SaysSound DEF ChannelsSound
  <2>2. CASE UNCHANGED up
    BY <2>2, SeqMonotonic DEF ChannelsSound
  <2> QED
    BY <2>1, <2>2
<1> QED
  BY <1>2, <1>3 DEF ChannelsSound

LEMMA SpawnWork ==
  ASSUME work \in [Ops -> [Ids -> WorkStates]],
         NEW op \in Ops, NEW R, Spawn(op, R)
  PROVE  /\ work' \in [Ops -> [Ids -> WorkStates]]
         /\ \A o \in Ops, r \in Ids :
              work'[o][r] = IF o = op /\ r \in R THEN "running" ELSE work[o][r]
BY DEF Spawn, WorkStates, Busy

LEMMA KillingWork ==
  ASSUME work \in [Ops -> [Ids -> WorkStates]], NEW s, Killing(s)
  PROVE  /\ work' \in [Ops -> [Ids -> WorkStates]]
         /\ \A o \in Ops, r \in Ids :
              \/ work'[o][r] = work[o][r]
              \/ work[o][r] # "none" /\ work'[o][r] = "killed"
BY DEF Killing, WorkStates, Busy, Ready

LEMMA WorksMoves ==
  ASSUME work \in [Ops -> [Ids -> WorkStates]],
         NEW op \in Ops, NEW q \in Ids, NEW from, NEW to \in WorkStates,
         Works(op, q, from, to)
  PROVE  /\ work[op][q] = from
         /\ work' \in [Ops -> [Ids -> WorkStates]]
         /\ \A o \in Ops, r \in Ids :
              work'[o][r] = IF o = op /\ r = q THEN to ELSE work[o][r]
BY DEF Works

\* The messages a client sends: offers, acceptance, and reports that are true.
LEMMA OffersSound ==
  ASSUME NEW s \in Slots
  PROVE  Offers(s) \in Seq(UpMessages')
<1> DEFINE S == PaidTo(s)
           n == Cardinality(S)
<1>1. S \subseteq Ids /\ IsFiniteSet(S)
  BY IdsFinite, FS_Subset DEF PaidTo
<1>2. SetToSeq(S) \in [1 .. n -> S] /\ n \in Nat
  BY <1>1, SeqOfSet
<1>3. \A r \in Ids : Msg("offer", r) \in UpMessages'
  BY DEF UpMessages
<1> DEFINE F == [i \in 1 .. n |-> Msg("offer", SetToSeq(S)[i])]
<1> HIDE DEF S, n
<1>4. F \in [1 .. n -> UpMessages']
  BY <1>1, <1>2, <1>3
<1>5. F \in Seq(UpMessages')
  <2> HIDE DEF F
  <2> QED
    BY <1>2, <1>4
<1>6. Offers(s) = F
  BY DEF Offers, F, S, n
<1> QED
  BY <1>5, <1>6

LEMMA OneMessage ==
  ASSUME NEW message \in UpMessages'
  PROVE  <<message>> \in Seq(UpMessages')
<1> DEFINE U == UpMessages'
<1>1. message \in U
  OBVIOUS
<1> HIDE DEF U
<1>2. <<message>> \in Seq(U)
  BY <1>1
<1> QED
  BY <1>2 DEF U

LEMMA WelcomeMoney ==
  ASSUME MoneyInv, NEW s \in Slots, Welcome(s)
  PROVE  MoneyInv'
<1>1. UNCHANGED <<serverVars, hold, work>>
  BY DEF Welcome, nodeVars
<1>2. /\ ServerInv' /\ LoopTypes' /\ NodeSound'
      /\ DownMessages \subseteq DownMessages'
      /\ UpMessages \subseteq UpMessages'
  BY <1>1, WorkSound DEF MoneyInv, NodeSound
<1>3. Reads(s, "welcome")
  BY DEF Welcome
<1>4. <<Plain("accept")>> \in Seq(UpMessages')
  BY OneMessage DEF UpMessages
<1>5. Says(s, <<Plain("accept")>>) \/ UNCHANGED up
  BY DEF Welcome
<1>6. ChannelsSound'
  BY <1>2, <1>3, <1>4, <1>5, ReadChannels DEF MoneyInv
<1> QED
  BY <1>2, <1>6 DEF MoneyInv

\* A node changes what it has of an invoice, for a reason, and perhaps a worker
\* goes on.
LEMMA NodeMoves ==
  ASSUME MoneyInv, UNCHANGED <<serverVars, down, up>>, NEW q \in Ids,
         NEW new \in HoldStates,
         Becomes(q, new) \/ (new = hold[q] /\ UNCHANGED hold),
         Arrived(q) => new \in {"Received", "Paid", "Cancelled", "Expired"},
         new = "Paid" => hold[q] = "Paid" \/ signed[q] # 0,
         new = "Cancelled" => hold[q] = "Cancelled" \/ q \in cancelAsked,
         \/ UNCHANGED work
         \/ \E op \in Ops, from, to \in WorkStates :
              /\ Works(op, q, from, to) /\ from # "none"
              /\ op = "wait" /\ to = "ok" => Arrived(q)
  PROVE  MoneyInv'
<1>1. /\ hold' \in [Ids -> HoldStates]
      /\ hold'[q] = new
      /\ \A r \in Ids : r # q => hold'[r] = hold[r]
  BY DEF Becomes, MoneyInv, NodeSound
<1>2. \A r \in Ids : Arrived(r) => Arrived(r)'
  BY <1>1 DEF Arrived
<1>3. /\ ServerInv' /\ LoopTypes'
      /\ UNCHANGED <<signed, cancelAsked, payeeReceived>>
      /\ DownMessages \subseteq DownMessages'
      /\ UpMessages \subseteq UpMessages'
  BY <1>2, ServerAside
<1>4. /\ work' \in [Ops -> [Ids -> WorkStates]]
      /\ \A op \in Ops, r \in Ids :
           \/ work'[op][r] = work[op][r]
           \/ /\ work[op][r] # "none"
              /\ op = "wait" /\ work'[op][r] = "ok" => Arrived(r)
  <2>1. CASE UNCHANGED work
    BY <2>1 DEF MoneyInv, NodeSound
  <2>2. ASSUME NEW op \in Ops, NEW from \in WorkStates, NEW to \in WorkStates,
               Works(op, q, from, to), from # "none",
               op = "wait" /\ to = "ok" => Arrived(q)
        PROVE  /\ work' \in [Ops -> [Ids -> WorkStates]]
               /\ \A o \in Ops, r \in Ids :
                    \/ work'[o][r] = work[o][r]
                    \/ /\ work[o][r] # "none"
                       /\ o = "wait" /\ work'[o][r] = "ok" => Arrived(r)
    <3>1. /\ work[op][q] = from
          /\ work' \in [Ops -> [Ids -> WorkStates]]
          /\ \A o \in Ops, r \in Ids :
               work'[o][r] = IF o = op /\ r = q THEN to ELSE work[o][r]
      BY <2>2, WorksMoves DEF MoneyInv, NodeSound
    <3> QED
      BY <2>2, <3>1
  <2> QED
    BY <2>1, <2>2
<1>5. NodeSound'
  <2>1. "wait" \in Ops /\ "settle" \in Ops /\ "cancel" \in Ops
    BY DEF Ops
  <2> QED
    BY <1>1, <1>2, <1>3, <1>4, <2>1 DEF NodeSound, MoneyInv
<1>6. ChannelsSound'
  BY <1>3, QuietChannels DEF MoneyInv
<1> QED
  BY <1>3, <1>5, <1>6 DEF MoneyInv

LEMMA SetupStepMoney ==
  ASSUME MoneyInv, NEW s \in Slots, SetupStep(s)
  PROVE  MoneyInv'
<1>1. UNCHANGED <<serverVars, down, up>>
  BY DEF SetupStep
<1>2. CASE \E r \in PaidTo(s) : CreateHoldInvoice(r)
  <2>1. PICK r \in Ids : CreateHoldInvoice(r)
    BY <1>2 DEF PaidTo
  <2> QED
    BY <1>1, <2>1, NodeMoves DEF CreateHoldInvoice, HoldStates, Arrived
<1>3. CASE UNCHANGED <<hold, work>>
  <2>1. /\ ServerInv' /\ LoopTypes' /\ NodeSound'
        /\ DownMessages \subseteq DownMessages'
        /\ UpMessages \subseteq UpMessages'
    BY <1>1, <1>3, WorkSound DEF MoneyInv, NodeSound
  <2>2. ChannelsSound'
    BY <1>1, <2>1, QuietChannels DEF MoneyInv
  <2> QED
    BY <2>1, <2>2 DEF MoneyInv
<1> QED
  BY <1>2, <1>3 DEF SetupStep, nodeVars

\* A client that starts nothing and says nothing: at most its workers die.
LEMMA SilentMoney ==
  ASSUME MoneyInv, NEW s, UNCHANGED <<serverVars, hold, down, up>>,
         Killing(s) \/ UNCHANGED work
  PROVE  MoneyInv'
<1>1. /\ work' \in [Ops -> [Ids -> WorkStates]]
      /\ \A o \in Ops, r \in Ids :
           \/ work'[o][r] = work[o][r]
           \/ work[o][r] # "none" /\ work'[o][r] = "killed"
  BY KillingWork DEF MoneyInv, NodeSound
<1>2. "wait" \in Ops /\ "settle" \in Ops /\ "cancel" \in Ops
  BY DEF Ops
<1>3. /\ ServerInv' /\ LoopTypes' /\ NodeSound'
      /\ DownMessages \subseteq DownMessages'
      /\ UpMessages \subseteq UpMessages'
  BY <1>1, <1>2, WorkSound
<1>4. ChannelsSound'
  BY <1>3, QuietChannels DEF MoneyInv
<1> QED
  BY <1>3, <1>4 DEF MoneyInv

LEMMA SetupReadyMoney ==
  ASSUME MoneyInv, NEW s \in Slots, SetupReady(s)
  PROVE  MoneyInv'
<1>1. UNCHANGED <<serverVars, hold, down>> /\ Spawn("wait", PaidTo(s))
  BY DEF SetupReady
<1>2. /\ work' \in [Ops -> [Ids -> WorkStates]]
      /\ \A o \in Ops, r \in Ids :
           work'[o][r] = IF o = "wait" /\ r \in PaidTo(s) THEN "running" ELSE work[o][r]
  <2> HIDE DEF PaidTo
  <2> QED
    BY <1>1, SpawnWork DEF MoneyInv, NodeSound, Ops
<1>3. "wait" \in Ops /\ "settle" \in Ops /\ "cancel" \in Ops
  BY DEF Ops
<1>4. /\ ServerInv' /\ LoopTypes' /\ NodeSound'
      /\ DownMessages \subseteq DownMessages'
      /\ UpMessages \subseteq UpMessages'
  BY <1>1, <1>2, <1>3, WorkSound
<1>5. Offers(s) \in Seq(UpMessages')
  BY OffersSound
<1>6. Offers(s) \o <<Plain("accept")>> \in Seq(UpMessages')
  <2>1. <<Plain("accept")>> \in Seq(UpMessages')
    BY OneMessage DEF UpMessages
  <2> QED
    BY <1>5, <2>1, ConcatProperties
<1>7. ChannelsSound'
  <2>1. Says(s, Offers(s)) \/ Says(s, Offers(s) \o <<Plain("accept")>>)
    BY DEF SetupReady
  <2> QED
    BY <1>1, <1>4, <1>5, <1>6, <2>1, SpokenChannels DEF MoneyInv
<1> QED
  BY <1>4, <1>7 DEF MoneyInv

\* Each seat is paid some reservation, and one of them is the first.
LEMMA FirstPaid ==
  ASSUME NEW s \in Slots
  PROVE  (CHOOSE r \in PaidTo(s) : \A t \in PaidTo(s) : r <= t) \in PaidTo(s)
<1> DEFINE first == IF s = "B" THEN 0 ELSE PerPlayer
<1>1. first \in Ids
  BY SettlementAssumption DEF Ids
<1>2. first \in PaidTo(s) /\ \A t \in PaidTo(s) : first <= t
  BY <1>1, SettlementAssumption DEF PaidTo, Payee, Payer, Opponent, Slots, Ids
<1> HIDE DEF first, PaidTo
<1> QED
  BY <1>2

LEMMA FailureMessage ==
  ASSUME NEW r \in Ids, NEW stage \in Stages
  PROVE  <<Report("failure", r, stage)>> \in Seq(UpMessages')
<1>1. Report("failure", r, stage) \in UpMessages'
  BY DEF UpMessages
<1> QED
  BY <1>1, OneMessage

LEMMA SetupFailedMoney ==
  ASSUME MoneyInv, NEW s \in Slots, SetupFailed(s)
  PROVE  MoneyInv'
<1>1. UNCHANGED <<serverVars, hold, down>>
  BY DEF SetupFailed
<1>2. CASE s \in Desktop
  <2> DEFINE q == CHOOSE r \in PaidTo(s) : \A t \in PaidTo(s) : r <= t
  <2>1. q \in Ids
    BY FirstPaid DEF PaidTo
  <2>2. Says(s, <<Report("failure", q, "Received")>>) /\ UNCHANGED work
    BY <1>2 DEF SetupFailed
  <2> HIDE DEF q
  <2>3. /\ ServerInv' /\ LoopTypes' /\ NodeSound'
        /\ DownMessages \subseteq DownMessages'
        /\ UpMessages \subseteq UpMessages'
    BY <1>1, <2>2, WorkSound DEF MoneyInv, NodeSound
  <2>4. <<Report("failure", q, "Received")>> \in Seq(UpMessages')
    <3>1. "Received" \in Stages
      BY DEF Stages
    <3> QED
      BY <2>1, <3>1, FailureMessage
  <2>5. ChannelsSound'
    BY <1>1, <2>2, <2>3, <2>4, SpokenChannels DEF MoneyInv
  <2> QED
    BY <2>3, <2>5 DEF MoneyInv
<1>3. CASE s \notin Desktop
  BY <1>1, <1>3, SilentMoney DEF SetupFailed, Leave
<1> QED
  BY <1>2, <1>3

\* A worker is started on an order that was read, and nothing but a refusal is
\* said.
LEMMA StartMoney ==
  ASSUME MoneyInv, NEW s \in Slots, NEW kind, Reads(s, kind),
         UNCHANGED <<serverVars, hold, up>>,
         NEW op \in {"fund", "settle", "cancel"}, NEW q \in Ids, Spawn(op, {q}),
         op = "settle" => signed[q] # 0,
         op = "cancel" => q \in cancelAsked
  PROVE  MoneyInv'
<1>1. op \in Ops /\ "wait" \in Ops /\ "settle" \in Ops /\ "cancel" \in Ops
  BY DEF Ops
<1>2. /\ work' \in [Ops -> [Ids -> WorkStates]]
      /\ \A o \in Ops, r \in Ids :
           work'[o][r] = IF o = op /\ r \in {q} THEN "running" ELSE work[o][r]
  BY <1>1, SpawnWork DEF MoneyInv, NodeSound
<1>3. /\ ServerInv' /\ LoopTypes' /\ NodeSound'
      /\ DownMessages \subseteq DownMessages'
      /\ UpMessages \subseteq UpMessages'
  BY <1>1, <1>2, WorkSound
<1>4. <<>> \in Seq(UpMessages')
  BY EmptySeq
<1>5. ChannelsSound'
  BY <1>3, <1>4, ReadChannels DEF MoneyInv
<1> QED
  BY <1>3, <1>5 DEF MoneyInv

LEMMA ReadOfferMoney ==
  ASSUME MoneyInv, NEW s \in Slots, ReadOffer(s)
  PROVE  MoneyInv'
<1> DEFINE q == Head(down[s]).r
<1>1. Reads(s, "offer")
  BY DEF ReadOffer
<1>2. q \in Ids
  BY <1>1, ReadsSound DEF MoneyInv, DownMessages, Msg, Plain
<1> HIDE DEF q
<1>3. Spawn("fund", {q}) /\ UNCHANGED <<serverVars, hold, up>>
  BY DEF ReadOffer, Starts, q
<1> QED
  BY <1>1, <1>2, <1>3, StartMoney

LEMMA ReadCancelMoney ==
  ASSUME MoneyInv, NEW s \in Slots, ReadCancel(s)
  PROVE  MoneyInv'
<1> DEFINE q == Head(down[s]).r
<1>1. Reads(s, "cancel")
  BY DEF ReadCancel
<1>2. q \in cancelAsked
  BY <1>1, ReadsSound DEF MoneyInv, DownMessages, Msg, Plain
<1>3. cancelAsked \subseteq Ids
  BY DEF MoneyInv, ServerInv, IInv, TypeOK
<1> HIDE DEF q
<1>4. Spawn("cancel", {q}) /\ UNCHANGED <<serverVars, hold, up>>
  BY DEF ReadCancel, Starts, q
<1> QED
  BY <1>1, <1>2, <1>3, <1>4, StartMoney

LEMMA ReadReleaseMoney ==
  ASSUME MoneyInv, NEW s \in Slots, ReadRelease(s)
  PROVE  MoneyInv'
<1> DEFINE q == Head(down[s]).r
<1>1. Reads(s, "release")
  BY DEF ReadRelease
<1>2. q \in Ids /\ signed[q] # 0
  BY <1>1, ReadsSound DEF MoneyInv, DownMessages, Msg, Plain
<1> HIDE DEF q
<1>3. SettleRelease(s, q) \/ \E reason : RefuseRelease(s, q, reason)
  BY DEF ReadRelease, q
<1>4. CASE SettleRelease(s, q)
  <2>1. Spawn("settle", {q}) /\ UNCHANGED <<serverVars, hold, up>>
    BY <1>4 DEF SettleRelease, Starts
  <2> QED
    BY <1>1, <1>2, <2>1, StartMoney
<1>5. CASE \E reason : RefuseRelease(s, q, reason)
  <2>1. /\ UNCHANGED <<serverVars, hold, work>>
        /\ Says(s, <<Report("failure", q, "Settled")>>)
    BY <1>5 DEF RefuseRelease
  <2>2. /\ ServerInv' /\ LoopTypes' /\ NodeSound'
        /\ DownMessages \subseteq DownMessages'
        /\ UpMessages \subseteq UpMessages'
    BY <2>1, WorkSound DEF MoneyInv, NodeSound
  <2>3. <<Report("failure", q, "Settled")>> \in Seq(UpMessages')
    <3>1. "Settled" \in Stages
      BY DEF Stages
    <3> QED
      BY <1>2, <3>1, FailureMessage
  <2>4. ChannelsSound'
    BY <1>1, <2>1, <2>2, <2>3, ReadChannels DEF MoneyInv
  <2> QED
    BY <2>2, <2>4 DEF MoneyInv
<1> QED
  BY <1>3, <1>4, <1>5

LEMMA ReadEndedMoney ==
  ASSUME MoneyInv, NEW s \in Slots, ReadEnded(s)
  PROVE  MoneyInv'
<1>1. UNCHANGED <<serverVars, hold, work, up>> /\ Reads(s, "ended")
  BY DEF ReadEnded, nodeVars
<1>2. /\ ServerInv' /\ LoopTypes' /\ NodeSound'
      /\ DownMessages \subseteq DownMessages'
      /\ UpMessages \subseteq UpMessages'
  BY <1>1, WorkSound DEF MoneyInv, NodeSound
<1>3. <<>> \in Seq(UpMessages')
  BY EmptySeq
<1>4. ChannelsSound'
  BY <1>1, <1>2, <1>3, ReadChannels DEF MoneyInv
<1> QED
  BY <1>2, <1>4 DEF MoneyInv

\* A worker's result is reported as it was.
LEMMA DrainMoney ==
  ASSUME MoneyInv, NEW s \in Slots, NEW op \in Ops, NEW r \in Ids,
         DrainResult(s, op, r)
  PROVE  MoneyInv'
<1>1. PICK result \in Ready :
        /\ Works(op, r, result, "drained")
        /\ Says(s, <<Report(IF result = "ok" THEN "ack" ELSE "failure", r,
                            StageOf(op))>>)
  BY DEF DrainResult
<1>2. UNCHANGED <<serverVars, hold, down>>
  BY DEF DrainResult
<1>3. /\ work[op][r] = result
      /\ work' \in [Ops -> [Ids -> WorkStates]]
      /\ \A o \in Ops, q \in Ids :
           work'[o][q] = IF o = op /\ q = r THEN "drained" ELSE work[o][q]
  <2>1. "drained" \in WorkStates
    BY DEF WorkStates
  <2> QED
    BY <1>1, <2>1, WorksMoves DEF MoneyInv, NodeSound
<1>4. "wait" \in Ops /\ "settle" \in Ops /\ "cancel" \in Ops
  BY DEF Ops
<1>5. result # "none"
  BY DEF Ready
<1>6. /\ ServerInv' /\ LoopTypes' /\ NodeSound'
      /\ DownMessages \subseteq DownMessages'
      /\ UpMessages \subseteq UpMessages'
  BY <1>2, <1>3, <1>4, <1>5, WorkSound DEF MoneyInv, NodeSound
<1>7. Report(IF result = "ok" THEN "ack" ELSE "failure", r, StageOf(op))
        \in UpMessages
  <2>1. StageOf(op) \in Stages /\ (StageOf(op) = "Received" <=> op = "wait")
    BY DEF StageOf, Stages, Ops
  <2>2. result = "ok" /\ op = "wait" => Arrived(r)
    BY <1>3 DEF MoneyInv, NodeSound
  <2>3. CASE result # "ok"
    BY <2>1, <2>3 DEF UpMessages
  <2>4. CASE result = "ok" /\ op = "wait"
    BY <2>1, <2>2, <2>4 DEF UpMessages
  <2>5. CASE result = "ok" /\ op # "wait"
    BY <2>1, <2>5 DEF UpMessages
  <2> QED
    BY <2>3, <2>4, <2>5
<1>8. ChannelsSound'
  <2>1. <<Report(IF result = "ok" THEN "ack" ELSE "failure", r, StageOf(op))>>
          \in Seq(UpMessages')
    BY <1>6, <1>7, OneMessage
  <2> QED
    BY <1>1, <1>2, <1>6, <2>1, SpokenChannels DEF MoneyInv
<1> QED
  BY <1>6, <1>8 DEF MoneyInv

LEMMA ClientMoney ==
  ASSUME MoneyInv, NEW s \in Slots, ClientProgress(s)
  PROVE  MoneyInv'
<1>1. CASE Welcome(s) \/ SetupStep(s) \/ SetupReady(s) \/ SetupFailed(s)
  BY <1>1, WelcomeMoney, SetupStepMoney, SetupReadyMoney, SetupFailedMoney
<1>2. CASE ReadOffer(s) \/ ReadRelease(s) \/ ReadCancel(s) \/ ReadEnded(s)
  BY <1>2, ReadOfferMoney, ReadReleaseMoney, ReadCancelMoney, ReadEndedMoney
<1>3. CASE Linger(s)
  BY <1>3, SilentMoney DEF Linger, nodeVars
<1>4. CASE ExitClient(s)
  BY <1>4, SilentMoney DEF ExitClient, Leave
<1>5. CASE \E op \in Ops, r \in Ids : DrainResult(s, op, r)
  BY <1>5, DrainMoney
<1> QED
  BY <1>1, <1>2, <1>3, <1>4, <1>5 DEF ClientProgress

LEMMA ConnectionMoney ==
  ASSUME MoneyInv, NEW s \in Slots, ConnectionChange(s)
  PROVE  MoneyInv'
<1>1. CASE Join(s)
  BY <1>1, JoinMoney
<1>2. CASE NoticeGone(s) \/ LoseConnection(s)
  BY <1>2, LostMoney DEF NoticeGone, LoseConnection
<1>3. CASE NoticeDisconnect(s)
  <2>1. UNCHANGED <<serverVars, hold, down, up>>
    BY <1>3 DEF NoticeDisconnect
  <2>2. Killing(s) \/ UNCHANGED work
    BY <1>3 DEF NoticeDisconnect, Fails, Leave
  <2> QED
    BY <2>1, <2>2, SilentMoney
<1>4. CASE Crash(s)
  BY <1>4, SilentMoney DEF Crash, Leave
<1> QED
  BY <1>1, <1>2, <1>3, <1>4 DEF ConnectionChange

\* The nodes on their own: a payment arrives or fails, a hold runs out.
LEMMA NodeMoney ==
  ASSUME MoneyInv, NEW r \in Ids, Node(r), UNCHANGED <<serverVars, down, up>>
  PROVE  MoneyInv'
<1>1. CASE PaymentArrives(r)
  <2>1. "Received" \in HoldStates /\ ~Arrived(r)
    BY <1>1 DEF PaymentArrives, HoldStates, Arrived
  <2> QED
    BY <1>1, <2>1, NodeMoves DEF PaymentArrives
<1>2. CASE PaymentFails(r)
  <2>1. "Open" \in HoldStates /\ ~Arrived(r)
    BY <1>2 DEF PaymentFails, HoldStates, Arrived
  <2> QED
    BY <1>2, <2>1, NodeMoves DEF PaymentFails
<1>3. CASE HoldExpires(r)
  <2>1. "Expired" \in HoldStates
    BY DEF HoldStates
  <2> QED
    BY <1>3, <2>1, NodeMoves DEF HoldExpires
<1> QED
  BY <1>1, <1>2, <1>3 DEF Node

\* What a worker does to an invoice.
LEMMA WorkerMoney ==
  ASSUME MoneyInv, NEW r \in Ids, Worker(r), UNCHANGED <<serverVars, down, up>>
  PROVE  MoneyInv'
<1>1. /\ hold[r] \in HoldStates
      /\ "fund" \in Ops /\ "wait" \in Ops /\ "settle" \in Ops /\ "cancel" \in Ops
      /\ {"running", "committing", "polling", "ok", "failed"} \subseteq WorkStates
      /\ "settle" \in Ops /\ work["settle"][r] # "none" => signed[r] # 0
      /\ "cancel" \in Ops /\ work["cancel"][r] # "none" => r \in cancelAsked
  BY DEF MoneyInv, NodeSound, Ops, WorkStates, Busy, Ready
<1>2. ASSUME UNCHANGED hold, NEW op \in Ops, NEW from \in WorkStates,
             NEW to \in WorkStates, Works(op, r, from, to), from # "none",
             op = "wait" /\ to = "ok" => Arrived(r)
      PROVE  MoneyInv'
  BY <1>1, <1>2, NodeMoves DEF Arrived, HoldStates, MoneyInv, NodeSound
<1>3. CASE CheckInvoice(r) \/ FundRefused(r)
  BY <1>1, <1>2, <1>3 DEF CheckInvoice, FundRefused
<1>4. CASE SendPayment(r)
  <2>1. /\ PaidInto(r) \in HoldStates
        /\ Arrived(r) => PaidInto(r) = hold[r]
        /\ PaidInto(r) # hold[r] => PaidInto(r) = "Inflight"
    BY <1>1 DEF PaidInto, HoldStates, Arrived
  <2>2. Becomes(r, PaidInto(r))
    BY <1>4 DEF SendPayment
  <2>3. \E to \in WorkStates : Works("fund", r, "committing", to)
    BY <1>1, <1>4 DEF SendPayment
  <2> HIDE DEF PaidInto
  <2> QED
    BY <1>1, <2>1, <2>2, <2>3, NodeMoves DEF Arrived
<1>5. CASE WaitInvoiceReceived(r)
  <2>1. ReceivedSeen(r) => Arrived(r)
    BY DEF ReceivedSeen, InvoiceStatus, Arrived
  <2> QED
    BY <1>1, <1>2, <1>5, <2>1 DEF WaitInvoiceReceived
<1>6. CASE SettleInvoice(r)
  <2>1. CASE Becomes(r, "Paid")
    <3>1. "Paid" \in HoldStates
      BY DEF HoldStates
    <3>2. \E to \in WorkStates : Works("settle", r, "running", to)
      BY <1>1, <1>6 DEF SettleInvoice
    <3>3. signed[r] # 0
      BY <1>1, <3>2 DEF Works
    <3> QED
      BY <1>1, <2>1, <3>1, <3>2, <3>3, NodeMoves
  <2>2. CASE UNCHANGED hold
    BY <1>1, <1>2, <1>6, <2>2 DEF SettleInvoice
  <2> QED
    BY <1>6, <2>1, <2>2 DEF SettleInvoice
<1>7. CASE WaitPaid(r)
  BY <1>1, <1>2, <1>7 DEF WaitPaid
<1>8. CASE CancelHoldInvoice(r)
  <2>1. CASE Becomes(r, "Cancelled")
    <3>1. "Cancelled" \in HoldStates
      BY DEF HoldStates
    <3>2. \E to \in WorkStates : Works("cancel", r, "running", to)
      BY <1>1, <1>8 DEF CancelHoldInvoice
    <3>3. r \in cancelAsked
      BY <1>1, <3>2 DEF Works
    <3> QED
      BY <1>1, <2>1, <3>1, <3>2, <3>3, NodeMoves
  <2>2. CASE UNCHANGED hold
    BY <1>1, <1>2, <1>8, <2>2 DEF CancelHoldInvoice
  <2> QED
    BY <1>8, <2>1, <2>2 DEF CancelHoldInvoice
<1> QED
  BY <1>3, <1>4, <1>5, <1>6, <1>7, <1>8 DEF Worker

-----------------------------------------------------------------------------
(* The match                                                               *)

LEMMA InitMoney == MatchInit => MoneyInv
<1> SUFFICES ASSUME MatchInit
             PROVE  MoneyInv
  OBVIOUS
<1>1. ServerInv /\ LoopTypes
  BY InitServerInv, InitLoopTypes DEF MatchInit
<1>2. ChannelsSound
  <2>1. <<>> \in Seq(DownMessages) /\ <<>> \in Seq(UpMessages)
    BY EmptySeq
  <2> QED
    BY <2>1 DEF MatchInit, ChannelsSound
<1>3. NodeSound
  <2>1. /\ hold = [r \in Ids |-> "none"]
        /\ work = [op \in Ops |-> [r \in Ids |-> "none"]]
    BY MatchAssumption DEF MatchInit, AdapterInit
  <2>2. payeeReceived = [r \in Ids |-> FALSE]
    BY DEF MatchInit, ServerInit, Init
  <2> QED
    BY <2>1, <2>2 DEF NodeSound, HoldStates, WorkStates, Ops
<1> QED
  BY <1>1, <1>2, <1>3 DEF MoneyInv

LEMMA MatchStepMoney ==
  ASSUME MoneyInv, [MatchNext]_matchAllVars
  PROVE  MoneyInv'
<1>1. CASE ServerStep
  BY <1>1, ServerStepMoney
<1>2. CASE NodesAndWorkers
  BY <1>2, NodeMoney, WorkerMoney DEF NodesAndWorkers
<1>3. ASSUME NEW s \in Slots,
             HandleClientMessage(s) \/ ConnectionChange(s) \/ ClientProgress(s)
      PROVE  MoneyInv'
  BY <1>3, HandleMoney, ConnectionMoney, ClientMoney
<1>4. CASE UNCHANGED matchAllVars
  <2>1. UNCHANGED <<serverVars, hold, work, down, up>>
    BY <1>4 DEF matchAllVars, movingVars, nodeVars
  <2> QED
    BY <2>1, SilentMoney
<1> QED
  BY <1>1, <1>2, <1>3, <1>4 DEF MatchNext

\* In a match with its clients, channels and nodes, whatever fails, an order
\* and a report are on their way only when the server's ledger and the nodes
\* bear them out.
THEOREM MoneyInductive == MatchSpec => []MoneyInv
<1>1. MatchInit => MoneyInv
  BY InitMoney
<1>2. MoneyInv /\ [MatchNext]_matchAllVars => MoneyInv'
  BY MatchStepMoney
<1> QED
  BY <1>1, <1>2, PTL DEF MatchSpec

\* No fault and no order of the messages makes a node do what the ledger has
\* not decided: an invoice that is paid had its release signed, one that is
\* cancelled had its refund asked for and its release never signed
\* (settle_hold_invoice and cancel_hold_invoice, record_damage, EndMatch).
THEOREM MoneyCorrect == MatchSpec => []MoneyFollowsLedger
<1>1. MoneyInv => MoneyFollowsLedger
  <2> SUFFICES ASSUME MoneyInv, NEW r \in Ids
               PROVE  /\ hold[r] = "Paid" => EscrowOf(r) = "paid"
                      /\ hold[r] = "Cancelled" => EscrowOf(r) = "refunded"
    BY DEF MoneyFollowsLedger
  <2>1. CASE hold[r] = "Paid"
    BY <2>1 DEF MoneyInv, NodeSound, EscrowOf
  <2>2. CASE hold[r] = "Cancelled"
    <3>1. r \in cancelAsked
      BY <2>2 DEF MoneyInv, NodeSound
    <3>2. StatusSound(r)
      BY DEF MoneyInv, ServerInv, IInv
    <3>3. signed[r] = 0
      BY <3>1, <3>2 DEF StatusSound
    <3> QED
      BY <2>2, <3>1, <3>3 DEF EscrowOf
  <2> QED
    BY <2>1, <2>2
<1> QED
  BY <1>1, MoneyInductive, PTL

\* What the server calls Held has arrived at the payee's node, and no order to
\* settle or cancel it has reached the node (Acknowledge, record_readiness,
\* wait_invoice_received).
THEOREM HeldLockedCorrect == MatchSpec => []HeldIsLocked
<1>1. MoneyInv => HeldIsLocked
  <2> SUFFICES ASSUME MoneyInv, NEW r \in Ids, status[r] = "Held"
               PROVE  hold[r] \in {"Received", "Expired"}
    BY DEF HeldIsLocked
  <2>1. StatusSound(r)
    BY DEF MoneyInv, ServerInv, IInv
  <2>2. payeeReceived[r] /\ r \notin cancelAsked /\ signed[r] = 0
    BY <2>1 DEF StatusSound
  <2>3. Arrived(r) /\ hold[r] # "Paid" /\ hold[r] # "Cancelled"
    BY <2>2 DEF MoneyInv, NodeSound
  <2> QED
    BY <2>3 DEF Arrived
<1> QED
  BY <1>1, MoneyInductive, PTL

\* The match implements the server on its own: whatever the clients send over
\* the channels, the server takes a step of ArenaServer or none, so that each
\* theorem about ServerSpec is one about the match (MatchSpec, ServerSpec).
THEOREM MatchServed == MatchSpec => ServerSpec
<1>1. MatchInit => ServerInit
  BY DEF MatchInit
<1>2. MoneyInv /\ [MatchNext]_matchAllVars => [ServerNext]_serverVars
  <2> SUFFICES ASSUME MoneyInv, [MatchNext]_matchAllVars
               PROVE  [ServerNext]_serverVars
    OBVIOUS
  <2>1. CASE ServerStep
    BY <2>1 DEF ServerStep, ServerNext
  <2>2. CASE NodesAndWorkers
    BY <2>2 DEF NodesAndWorkers
  <2>3. ASSUME NEW s \in Slots, HandleClientMessage(s)
        PROVE  [ServerNext]_serverVars
    BY <2>3, HandleServed DEF ServerNext
  <2>4. ASSUME NEW s \in Slots, ConnectionChange(s)
        PROVE  [ServerNext]_serverVars
    <3>1. CASE Join(s)
      BY <3>1 DEF Join, ServerNext, Client
    <3>2. CASE NoticeGone(s) \/ LoseConnection(s)
      BY <3>2 DEF NoticeGone, LoseConnection, Lost, ServerNext, Client
    <3>3. CASE NoticeDisconnect(s) \/ Crash(s)
      BY <3>3 DEF NoticeDisconnect, Crash
    <3> QED
      BY <2>4, <3>1, <3>2, <3>3 DEF ConnectionChange
  <2>5. ASSUME NEW s \in Slots, ClientProgress(s)
        PROVE  UNCHANGED serverVars
    <3>1. CASE Welcome(s) \/ SetupStep(s) \/ SetupReady(s) \/ SetupFailed(s)
      BY <3>1 DEF Welcome, SetupStep, SetupReady, SetupFailed
    <3>2. CASE ReadOffer(s) \/ ReadRelease(s) \/ ReadCancel(s) \/ ReadEnded(s)
      BY <3>2 DEF ReadOffer, ReadRelease, ReadCancel, ReadEnded, Starts,
                  SettleRelease, RefuseRelease
    <3>3. CASE \/ Linger(s) \/ ExitClient(s)
               \/ \E op \in Ops, r \in Ids : DrainResult(s, op, r)
      BY <3>3 DEF Linger, ExitClient, DrainResult
    <3> QED
      BY <2>5, <3>1, <3>2, <3>3 DEF ClientProgress
  <2>6. CASE UNCHANGED matchAllVars
    BY <2>6 DEF matchAllVars, movingVars
  <2> QED
    BY <2>1, <2>2, <2>3, <2>4, <2>5, <2>6 DEF MatchNext
<1> QED
  BY <1>1, <1>2, MoneyInductive, PTL DEF MatchSpec, ServerSpec

\* The whole match moves the money as the abstract escrow does, with clients
\* that crash, channels that lose messages and nodes that fail.
THEOREM MatchKeepsEscrow == MatchSpec => ImplementsEscrow
BY MatchServed, ServerKeepsEscrow, PTL

\* A player's invoices are paid at the nodes for buckets of damage he took.
THEOREM PaidForCorrect == MatchSpec => []PaidForDamage
<1>1. MoneyInv => PaidForDamage
  <2> SUFFICES ASSUME MoneyInv, NEW p \in Slots
               PROVE  Bucket * Cardinality({r \in IdsOf(p) : hold[r] = "Paid"})
                        <= damageTaken[p]
    BY DEF PaidForDamage
  <2> DEFINE paidOf == {r \in IdsOf(p) : hold[r] = "Paid"}
  <2>1. IInv /\ TypeOK /\ DamageAccounted
    BY DEF MoneyInv, ServerInv, IInv
  <2>2. paidOf \in SUBSET SignedFor(p) /\ SignedFor(p) \in SUBSET Ids
    BY DEF SignedFor, IdsOf, MoneyInv, NodeSound
  <2>3. Cardinality(paidOf) <= Cardinality(SignedFor(p))
    BY <2>2, IdSubset, IdsFinite, FS_Subset
  <2>4. Cardinality(paidOf) \in Nat /\ Cardinality(SignedFor(p)) \in Nat
    BY <2>2, IdSubset
  <2>5. Bucket * Cardinality(paidOf) <= Bucket * Cardinality(SignedFor(p))
    BY <2>3, <2>4, ProductMonotone, SettlementAssumption
  <2>6. /\ remainder[p] \in Nat /\ damageTaken[p] \in Nat
        /\ Bucket * Cardinality(SignedFor(p)) \in Nat
        /\ Bucket * Cardinality(paidOf) \in Nat
    BY <2>1, <2>4, ProductNat, SettlementAssumption DEF TypeOK
  <2>7. remainder[p] + Bucket * Cardinality(SignedFor(p)) <= damageTaken[p]
    BY <2>1 DEF DamageAccounted
  <2> QED
    BY <2>5, <2>6, <2>7
<1> QED
  BY <1>1, MoneyInductive, PTL

-----------------------------------------------------------------------------
(* The choice of a channel                                                 *)

\* What the loop of select_direct_channel has found in the first k channels.
Best(c, k, best) ==
  /\ best \in Int /\ best >= -1
  /\ \A i \in 1 .. k : c[i].usable => c[i].balance <= best
  /\ best = -1 \/ \E i \in 1 .. k : c[i].usable /\ c[i].balance = best

LEMMA BestStep ==
  ASSUME NEW c \in Seq(ChannelRecords), NEW k \in 1 .. Len(c), NEW best, Best(c, k - 1, best)
  PROVE  Best(c, k, BetterOf(best, c[k]))
<1>1. c[k].balance \in Nat /\ best \in Int /\ best >= -1 /\ k \in Nat
  <2>1. c[k] \in ChannelRecords
    OBVIOUS
  <2> QED
    BY <2>1 DEF ChannelRecords, Best
<1>2. \A i \in 1 .. k : i = k \/ i \in 1 .. (k - 1)
  BY <1>1
<1>3. CASE c[k].usable /\ c[k].balance > best
  <2>1. BetterOf(best, c[k]) = c[k].balance
    BY <1>3 DEF BetterOf
  <2>2. ASSUME NEW i \in 1 .. k, c[i].usable
        PROVE  c[i].balance <= c[k].balance
    <3>1. CASE i \in 1 .. (k - 1)
      <4>1. c[i] \in ChannelRecords
        BY <1>1
      <4> QED
        BY <1>1, <1>3, <2>2, <3>1, <4>1 DEF Best, ChannelRecords
    <3> QED
      BY <1>1, <1>2, <3>1
  <2> QED
    BY <1>1, <1>3, <2>1, <2>2 DEF Best
<1>4. CASE ~(c[k].usable /\ c[k].balance > best)
  <2>1. BetterOf(best, c[k]) = best
    BY <1>4 DEF BetterOf
  <2>2. c[k].usable => c[k].balance <= best
    BY <1>1, <1>4
  <2> QED
    BY <1>1, <1>2, <2>1, <2>2 DEF Best
<1> QED
  BY <1>3, <1>4

LEMMA BestOfAll ==
  ASSUME NEW c \in Seq(ChannelRecords)
  PROVE  Best(c, Len(c), FoldLeft(BetterOf, -1, c))
<1> DEFINE n == Len(c)
           g == [x \in Int \X (1 .. n) |-> BetterOf(x[1], c[x[2]])]
           Equation(h) == h = [s \in SUBSET (DOMAIN c) |->
                                 IF s = {} THEN -1
                                 ELSE BetterOf(h[s \ {Max(s)}], c[Max(s)])]
           fold == CHOOSE h : Equation(h)
<1>1. n \in Nat /\ DOMAIN c = 1 .. n
  OBVIOUS
<1>2. \A best \in Int, k \in 1 .. n : BetterOf(best, c[k]) \in Int
  <2>1. ASSUME NEW best \in Int, NEW k \in 1 .. n
        PROVE  BetterOf(best, c[k]) \in Int
    <3>1. c[k] \in ChannelRecords
      BY <1>1
    <3> QED
      BY <3>1 DEF BetterOf, ChannelRecords
  <2> QED
    BY <2>1
<1>3. g \in [Int \X (1 .. n) -> Int]
  BY <1>2
<1>4. PICK h \in [SUBSET (1 .. n) -> Int] : FoldsOver(h, g, -1, n)
  <2>1. -1 \in Int
    OBVIOUS
  <2> HIDE DEF g, n
  <2> QED
    BY <1>1, <1>3, <2>1, FoldExists
<1>5. Equation(h)
  <2>1. ASSUME NEW s \in SUBSET (1 .. n)
        PROVE  h[s] = IF s = {} THEN -1 ELSE BetterOf(h[s \ {Max(s)}], c[Max(s)])
    <3>1. h[s] = IF s = {} THEN -1 ELSE g[<<h[s \ {Max(s)}], Max(s)>>]
      BY <1>4 DEF FoldsOver
    <3>2. CASE s # {}
      <4>1. Max(s) \in 1 .. n
        BY <1>1, <3>2, MaxOfIndices
      <4>2. h[s \ {Max(s)}] \in Int
        OBVIOUS
      <4> QED
        BY <3>1, <3>2, <4>1, <4>2
    <3> QED
      BY <3>1, <3>2
  <2> QED
    BY <1>1, <2>1
<1>6. Equation(fold)
  BY <1>5
<1>7. FoldLeft(BetterOf, -1, c) = fold[DOMAIN c]
  BY DEF FoldLeft, MapThenFoldSet
<1>8. /\ fold[1 .. 0] = -1
      /\ \A k \in 1 .. n : fold[1 .. k] = BetterOf(fold[1 .. (k - 1)], c[k])
  <2> HIDE DEF fold
  <2>1. ASSUME NEW s \in SUBSET (1 .. n)
        PROVE  fold[s] = IF s = {} THEN -1 ELSE BetterOf(fold[s \ {Max(s)}], c[Max(s)])
    BY <1>1, <1>6
  <2>2. 1 .. 0 = {} /\ 1 .. 0 \in SUBSET (1 .. n)
    OBVIOUS
  <2>3. ASSUME NEW k \in 1 .. n
        PROVE  fold[1 .. k] = BetterOf(fold[1 .. (k - 1)], c[k])
    <3>1. 1 .. k \in SUBSET (1 .. n) /\ 1 .. k # {}
      BY <1>1
    <3>2. Max(1 .. k) = k /\ (1 .. k) \ {k} = 1 .. (k - 1)
      BY <1>1, MaxOfInterval
    <3> QED
      BY <2>1, <3>1, <3>2
  <2> QED
    BY <2>1, <2>2, <2>3
<1> DEFINE Good == {k \in 0 .. n : Best(c, k, fold[1 .. k])}
<1> HIDE DEF fold
<1>9. 0 \in Good
  BY <1>1, <1>8 DEF Best
<1>10. ASSUME NEW k \in 0 .. (n - 1), k \in Good
       PROVE  k + 1 \in Good
  <2>1. k + 1 \in 1 .. n /\ (k + 1) - 1 = k
    BY <1>1
  <2>2. fold[1 .. (k + 1)] = BetterOf(fold[1 .. k], c[k + 1])
    BY <1>8, <2>1
  <2>3. Best(c, k, fold[1 .. k])
    BY <1>10
  <2> QED
    BY <2>1, <2>2, <2>3, BestStep
<1> HIDE DEF Good, n
<1>11. n \in Good
  <2>1. n \in Nat
    BY <1>1
  <2>2. 0 .. n \subseteq Good
    BY <1>9, <1>10, <2>1, UpTo
  <2> QED
    BY <2>1, <2>2
<1> QED
  BY <1>1, <1>7, <1>11 DEF Good, n

\* select_direct_channel finds a channel exactly when one is usable and can
\* send what is required.
THEOREM SelectFinds ==
  ASSUME NEW c \in Seq(ChannelRecords), NEW required \in Nat
  PROVE  SelectDirectChannel(c, required) # -1
           <=> \E i \in DOMAIN c : c[i].usable /\ c[i].balance >= required
<1> DEFINE best == FoldLeft(BetterOf, -1, c)
<1>1. Best(c, Len(c), best)
  BY BestOfAll
<1>2. \A i \in DOMAIN c : c[i].balance \in Nat
  <2>1. \A i \in DOMAIN c : c[i] \in ChannelRecords
    OBVIOUS
  <2> QED
    BY <2>1 DEF ChannelRecords
<1>3. SelectDirectChannel(c, required) = IF best < required THEN -1 ELSE best
  BY DEF SelectDirectChannel
<1> HIDE DEF best
<1> QED
  BY <1>1, <1>2, <1>3 DEF Best

-----------------------------------------------------------------------------
\* Whoever has made an invoice has passed the preflight.
Checked ==
  /\ channels \in [Slots -> Seq(ChannelRecords)]
  /\ \A r \in Ids : hold[r] # "none" => CanPayTheCap(Payee(r))

LEMMA InitChecked == MatchInit => Checked
<1> SUFFICES ASSUME MatchInit
             PROVE  Checked
  OBVIOUS
<1>1. hold = [r \in Ids |-> "none"]
  BY MatchAssumption DEF MatchInit, AdapterInit
<1>2. channels \in [Slots -> Seq(ChannelRecords)]
  BY AdapterAssumption DEF MatchInit
<1> QED
  BY <1>1, <1>2 DEF Checked

\* Only the preflight's own setup makes an invoice.
LEMMA InvoicesMade ==
  ASSUME MoneyInv, [MatchNext]_matchAllVars,
         NEW r \in Ids, hold[r] = "none", hold'[r] # "none"
  PROVE  CanPayTheCap(Payee(r))
<1>1. hold \in [Ids -> HoldStates]
  BY DEF MoneyInv, NodeSound
<1>2. CASE UNCHANGED hold
  BY <1>2
<1>3. CASE NodesAndWorkers
  <2>1. PICK q \in Ids : Node(q) \/ Worker(q)
    BY <1>3 DEF NodesAndWorkers
  <2>2. ASSUME NEW new, Becomes(q, new), q = r
        PROVE  FALSE
    <3>1. hold[q] = "none"
      BY <2>2
    <3>2. InvoiceStatus(q) = "none" /\ PaidInto(q) = "none"
      BY <3>1 DEF InvoiceStatus, PaidInto
    <3>3. hold'[q] # "none"
      BY <2>2
    <3> QED
      BY <2>1, <2>2, <3>1, <3>2, <3>3
      DEF Node, PaymentArrives, PaymentFails, HoldExpires, Worker, CheckInvoice, FundRefused,
          SendPayment, WaitInvoiceReceived, SettleInvoice, WaitPaid, CancelHoldInvoice, Becomes
  <2>3. ASSUME NEW new, Becomes(q, new), q # r
        PROVE  FALSE
    BY <1>1, <2>3 DEF Becomes
  <2>4. (\E new : Becomes(q, new)) \/ UNCHANGED hold
    BY <2>1
    DEF Node, PaymentArrives, PaymentFails, HoldExpires, Worker, CheckInvoice, FundRefused,
        SendPayment, WaitInvoiceReceived, SettleInvoice, WaitPaid, CancelHoldInvoice
  <2> QED
    BY <2>2, <2>3, <2>4
<1>4. ASSUME NEW s \in Slots, SetupStep(s)
      PROVE  CanPayTheCap(Payee(r))
  <2>1. CASE UNCHANGED hold
    BY <2>1
  <2>2. PICK q \in PaidTo(s) : CanPayTheCap(s) /\ CreateHoldInvoice(q)
    BY <1>4, <2>1 DEF SetupStep, nodeVars
  <2>3. q = r
    BY <1>1, <2>2 DEF CreateHoldInvoice, Becomes
  <2> QED
    BY <2>2, <2>3 DEF PaidTo
<1>5. ASSUME NEW s \in Slots, ClientProgress(s), ~SetupStep(s)
      PROVE  UNCHANGED hold
  BY <1>5 DEF ClientProgress, Welcome, SetupReady, SetupFailed, ReadOffer, ReadRelease, ReadCancel,
              ReadEnded, Linger, ExitClient, DrainResult, Starts, SettleRelease, RefuseRelease, nodeVars
<1>6. ASSUME NEW s \in Slots, HandleClientMessage(s) \/ ConnectionChange(s)
      PROVE  UNCHANGED hold
  BY <1>6 DEF HandleClientMessage, ConnectionChange, Join, NoticeGone, LoseConnection, Lost,
              NoticeDisconnect, Crash, nodeVars
<1>7. CASE ServerStep \/ UNCHANGED matchAllVars
  BY <1>7 DEF ServerStep, nodeVars, matchAllVars, movingVars
<1> QED
  BY <1>2, <1>3, <1>4, <1>5, <1>6, <1>7 DEF MatchNext

LEMMA CheckedStep ==
  ASSUME MoneyInv, Checked, [MatchNext]_matchAllVars
  PROVE  Checked'
<1>1. UNCHANGED channels
  BY DEF MatchNext, matchAllVars
<1>2. \A s \in Slots : CanPayTheCap(s)' = CanPayTheCap(s)
  BY <1>1 DEF CanPayTheCap
<1>3. ASSUME NEW r \in Ids, hold'[r] # "none"
      PROVE  CanPayTheCap(Payee(r))
  BY <1>3, InvoicesMade DEF Checked
<1>4. \A r \in Ids : Payee(r) \in Slots
  BY DEF Payee, Opponent, Slots
<1> QED
  BY <1>1, <1>2, <1>3, <1>4 DEF Checked

\* A match only starts when either player can pay its whole cap over one usable
\* channel, for every list of channels (select_direct_channel,
\* prepare_hold_invoices, the start of the match).
THEOREM PayableCorrect == MatchSpec => []MatchIsPayable
<1>1. MoneyInv /\ Checked => MatchIsPayable
  <2> SUFFICES ASSUME MoneyInv, Checked, started, NEW s \in Slots
               PROVE  \E i \in DOMAIN channels[s] :
                        channels[s][i].usable /\ channels[s][i].balance >= Cap
    BY DEF MatchIsPayable
  <2>1. PICK r \in Ids : Payee(r) = s
    <3>1. PerPlayer \in Nat \ {0}
      BY SettlementAssumption
    <3>2. 0 \in Ids /\ PerPlayer \in Ids
      BY <3>1 DEF Ids
    <3>3. Payee(0) = "B" /\ Payee(PerPlayer) = "A"
      BY <3>1 DEF Payee, Payer, Opponent
    <3> QED
      BY <3>2, <3>3 DEF Slots
  <2>2. payeeReceived[r]
    BY DEF MoneyInv, ServerInv, PlayIsEscrowed
  <2>3. hold[r] # "none"
    BY <2>2 DEF MoneyInv, NodeSound, Arrived
  <2>4. SelectDirectChannel(channels[s], Cap) # -1
    BY <2>1, <2>3 DEF Checked, CanPayTheCap
  <2>5. Cap \in Nat
    BY SettlementAssumption DEF Cap
  <2>6. channels[s] \in Seq(ChannelRecords)
    BY DEF Checked
  <2> QED
    BY <2>4, <2>5, <2>6, SelectFinds
<1>2. MatchInit => Checked
  BY InitChecked
<1>3. MoneyInv /\ Checked /\ [MatchNext]_matchAllVars => Checked'
  BY CheckedStep
<1> QED
  BY <1>1, <1>2, <1>3, MoneyInductive, PTL DEF MatchSpec
=============================================================================
