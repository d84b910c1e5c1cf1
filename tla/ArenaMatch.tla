----------------------------- MODULE ArenaMatch -----------------------------
(***************************************************************************)
(* One match end to end: the arena server of ArenaServer, a client at each *)
(* seat, the reliable ordered channels between them, and the payment       *)
(* workers and Fiber nodes of FiberAdapter.                                *)
(*                                                                         *)
(* The headless client is src/bin/arena-client.rs, the desktop client the  *)
(* payment half of src/bin/arena-desktop.rs; both hold a SettlementGuard   *)
(* (src/client.rs).  They differ in three ways: the headless client        *)
(* stands still until its invoices are created, leaves the process when    *)
(* anything fails, and lingers before it exits at the end of the match.    *)
(*                                                                         *)
(* Abstractions.  A seat is taken once, by one client.  MatchStarted,      *)
(* snapshots and input are left out.  A client and its workers only act    *)
(* while the server drains: the server reads its socket once a turn, at    *)
(* its start, and sends at its end, so what they do during the rest of a   *)
(* turn it cannot tell from their doing it at the next start.              *)
(***************************************************************************)
EXTENDS ArenaServer, FiberAdapter

CONSTANT Desktop        \* the seats that play with the desktop client

ASSUME MatchAssumption ==
  /\ Holds = Ids
  /\ Desktop \subseteq Slots
  /\ \A r \in Ids : [match |-> MatchId, id |-> r, hash |-> r] \in Refs

VARIABLES
  client,         \* where a client's process is
  channels,       \* what the node of a client answers to list_channels
  setup,          \* the creation of a client's invoices
  pending,        \* pending_operations
  endSeen,        \* match_end_received
  processed,      \* guard.processed
  guardTotal,     \* guard.released_total, for the opponent
  down, up,       \* the channels from and to the server, by seat
  refused         \* history: releases the guard refused, with the reason

clientVars == <<client, setup, pending, endSeen>>
guardVars == <<processed, guardTotal, refused>>
movingVars == <<serverVars, nodeVars, clientVars, guardVars, down, up>>
matchAllVars == <<movingVars, channels>>

ClientStates == {"off", "new", "joining", "playing", "cut", "leaving",
                 "finished", "gone"}
Alive(s) == client[s] \in {"new", "joining", "playing", "cut", "leaving"}

MatchInit ==
  /\ ServerInit /\ AdapterInit
  /\ client = [s \in Slots |-> "off"]
  /\ setup = [s \in Slots |-> "none"]
  /\ pending = [s \in Slots |-> 0]
  /\ endSeen = [s \in Slots |-> FALSE]
  /\ processed = [s \in Slots |-> {}]
  /\ guardTotal = [s \in Slots |-> 0]
  /\ down = [s \in Slots |-> <<>>] /\ up = [s \in Slots |-> <<>>]
  /\ refused = {}
  /\ channels \in [Slots -> ChannelLists]

Msg(kind, r) == [kind |-> kind, r |-> r]
Plain(kind) == Msg(kind, -1)
Report(kind, r, stage) == [kind |-> kind, r |-> r, stage |-> stage]

PaidTo(s) == {r \in Ids : Payee(r) = s}

\* A message into a connection that is gone goes nowhere.
Linked(s) == s \in connected /\ step # "exited" /\ client[s] # "cut"

Says(s, messages) ==
  up' = IF Linked(s) THEN [up EXCEPT ![s] = @ \o messages] ELSE up

Spawn(op, R) ==
  work' = [work EXCEPT ![op] = [r \in Ids |-> IF r \in R THEN "running" ELSE @[r]]]

ClientsMove == step \in {"drain", "exited"}

-----------------------------------------------------------------------------
(* The server's side of the channels                                       *)

\* The messages of a step, in the order the code sends them.
Told(s) ==
  LET news == SetToSeq({m \in sent' \ sent : Recipient(m[1], m[2]) = s}) IN
  (IF issued' /\ ~issued THEN <<Plain("welcome")>> ELSE <<>>)
    \o [i \in DOMAIN news |-> Msg(news[i][1], news[i][2])]
    \o (IF verdicts' # verdicts THEN <<Plain("ended")>> ELSE <<>>)

Telling ==
  down' = [s \in Slots |-> IF s \in connected THEN down[s] \o Told(s) ELSE <<>>]

\* handle_client_messages reads until nothing is left.
AllRead == step = "receive" => \A s \in connected : up[s] = <<>>

\* A turn in which the loop would do nothing is not taken.
NothingToDo ==
  /\ issued /\ firstGone = Nobody
  /\ \A s \in connected : up[s] = <<>>
  /\ ~ReadyToStart /\ ~Over
  /\ ended \/ sim.phase # Live

ServerStep ==
  /\ \/ Turn /\ ~(step = "drain" /\ NothingToDo)
     \/ Fight
     \/ \E t \in Timers : Elapse(t)
  /\ AllRead
  /\ Telling
  /\ UNCHANGED <<nodeVars, clientVars, guardVars, up>>

Ref(r) == [match |-> MatchId, id |-> r, hash |-> r]

Handle(s, message) ==
  \/ message.kind = "accept" /\ AcceptTerms(s)
  \/ message.kind = "offer" /\ \E inv \in Invoices : ReceiveOffer(s, Ref(message.r), inv)
  \/ /\ message.kind \in {"ack", "failure"}
     /\ MayReceive(s)
     /\ IF message.kind = "ack"
        THEN Acknowledge(s, Ref(message.r), message.stage)
        ELSE RecordFailure(s, Ref(message.r), message.stage)
     /\ UNCHANGED loopVars

HandleClientMessage(s) ==
  /\ step = "receive" /\ up[s] # <<>>
  /\ Handle(s, Head(up[s]))
  /\ up' = [up EXCEPT ![s] = Tail(@)]
  /\ Telling
  /\ UNCHANGED <<nodeVars, clientVars, guardVars>>

-----------------------------------------------------------------------------
(* Connections                                                             *)

\* The server loses a client that disconnected, exited or fell silent, with
\* what was still on the way.
Lost(s) ==
  /\ Disconnect(s)
  /\ down' = [down EXCEPT ![s] = <<>>] /\ up' = [up EXCEPT ![s] = <<>>]
  /\ UNCHANGED <<clientVars, guardVars, hold, work>>

Join(s) ==
  /\ Connect(s)
  /\ client[s] = "off"
  /\ client' = [client EXCEPT ![s] = "new"]
  /\ UNCHANGED <<nodeVars, setup, pending, endSeen, guardVars, down, up>>

NoticeGone(s) ==
  /\ client[s] \in {"cut", "finished", "gone"}
  /\ Lost(s)
  /\ UNCHANGED faults

LoseConnection(s) == Alive(s) /\ client[s] # "cut" /\ Fault("link") /\ Lost(s)

\* The workers of a process die with it.
Killing(s) ==
  work' = [op \in Ops |-> [r \in Ids |->
             IF (IF op = "fund" THEN Payer(r) ELSE Payee(r)) = s
                /\ work[op][r] \in Busy \cup Ready
             THEN "killed" ELSE work[op][r]]]

Leave(s, how) ==
  /\ client' = [client EXCEPT ![s] = how]
  /\ setup' = [setup EXCEPT ![s] = IF @ = "running" THEN "killed" ELSE @]
  /\ Killing(s)

\* The desktop client's fail() disconnects, once; its process and workers go on.
Fails(s) ==
  IF s \in Desktop
  THEN client' = [client EXCEPT ![s] = "cut"] /\ UNCHANGED <<setup, work>>
  ELSE Leave(s, "gone")

NoticeDisconnect(s) ==
  /\ ClientsMove /\ ~Linked(s)
  /\ client[s] \in {"new", "playing", "leaving"}
  /\ Fails(s)
  /\ UNCHANGED <<serverVars, hold, faults, pending, endSeen, guardVars, down, up>>

Crash(s) ==
  /\ ClientsMove /\ Alive(s) /\ Fault("crash")
  /\ Leave(s, "gone")
  /\ UNCHANGED <<serverVars, hold, pending, endSeen, guardVars, down, up>>

-----------------------------------------------------------------------------
(* Welcome and the creation of the invoices                                *)

Reads(s, kind) ==
  /\ step = "drain" /\ Linked(s)
  /\ down[s] # <<>> /\ Head(down[s]).kind = kind
  /\ down' = [down EXCEPT ![s] = Tail(@)]

\* prepare_hold_invoices.  The headless client waits for it; the desktop
\* client spawns it, and accepts the terms at once.
Welcome(s) ==
  /\ client[s] = "new"
  /\ Reads(s, "welcome")
  /\ setup' = [setup EXCEPT ![s] = "running"]
  /\ IF s \in Desktop
     THEN /\ client' = [client EXCEPT ![s] = "playing"]
          /\ pending' = [pending EXCEPT ![s] = @ + 1]
          /\ Says(s, <<Plain("accept")>>)
     ELSE /\ client' = [client EXCEPT ![s] = "joining"]
          /\ UNCHANGED <<pending, up>>
  /\ UNCHANGED <<serverVars, nodeVars, endSeen, guardVars>>

\* check_direct_channel: the client can pay the cap of the match over one of
\* its channels to the opponent.
CanPayTheCap(s) == SelectDirectChannel(channels[s], Cap) # -1

\* The channel preflight, then an invoice for each reservation paid to s.
SetupStep(s) ==
  /\ ClientsMove /\ setup[s] = "running"
  /\ \/ /\ CanPayTheCap(s)
        /\ \E r \in PaidTo(s) : CreateHoldInvoice(r)
        /\ UNCHANGED setup
     \/ /\ ~CanPayTheCap(s)
        /\ setup' = [setup EXCEPT ![s] = "failed"]
        /\ UNCHANGED nodeVars
     \/ /\ CanPayTheCap(s)
        /\ \A r \in PaidTo(s) : hold[r] # "none"
        /\ setup' = [setup EXCEPT ![s] = "ready"]
        /\ UNCHANGED nodeVars
     \/ /\ Fault("rpc")
        /\ setup' = [setup EXCEPT ![s] = "failed"]
        /\ UNCHANGED <<hold, work>>
  /\ UNCHANGED <<serverVars, client, pending, endSeen, guardVars, down, up>>

Offers(s) == [i \in 1 .. Cardinality(PaidTo(s)) |->
                Msg("offer", SetToSeq(PaidTo(s))[i])]

\* The offers go out, and a worker waits for each invoice.
SetupReady(s) ==
  /\ ClientsMove /\ setup[s] = "ready"
  /\ client[s] \in {"joining", "playing", "cut"}
  /\ setup' = [setup EXCEPT ![s] = "drained"]
  /\ Spawn("wait", PaidTo(s))
  /\ IF s \in Desktop
     THEN /\ pending' = [pending EXCEPT ![s] = @ - 1 + Cardinality(PaidTo(s))]
          /\ Says(s, Offers(s))
          /\ UNCHANGED client
     ELSE /\ pending' = [pending EXCEPT ![s] = @ + Cardinality(PaidTo(s))]
          /\ Says(s, Offers(s) \o <<Plain("accept")>>)
          /\ client' = [client EXCEPT ![s] = "playing"]
  /\ UNCHANGED <<serverVars, hold, faults, endSeen, guardVars, down>>

\* The desktop client reports its first reservation before it disconnects.
SetupFailed(s) ==
  /\ ClientsMove /\ setup[s] = "failed"
  /\ client[s] \in {"joining", "playing", "cut"}
  /\ IF s \in Desktop
     THEN /\ pending' = [pending EXCEPT ![s] = @ - 1]
          /\ Says(s, <<Report("failure", CHOOSE r \in PaidTo(s) :
                                \A q \in PaidTo(s) : r <= q, "Received")>>)
          /\ client' = [client EXCEPT ![s] = "cut"]
          /\ setup' = [setup EXCEPT ![s] = "drained"]
          /\ UNCHANGED work
     ELSE /\ Leave(s, "gone")
          /\ UNCHANGED <<pending, up>>
  /\ UNCHANGED <<serverVars, hold, faults, endSeen, guardVars, down>>

-----------------------------------------------------------------------------
(* The messages about reservations                                         *)

Talks(s) == client[s] \in {"playing", "leaving"}

\* Mutant: a worker is started and not counted.
StartsUncounted(s, op, r) ==
  /\ Spawn(op, {r})
  /\ UNCHANGED <<serverVars, hold, clientVars>>

\* The client at s starts to fund, settle or cancel r.
Starts(s, op, r) ==
  /\ Spawn(op, {r})
  /\ pending' = [pending EXCEPT ![s] = @ + 1]
  /\ UNCHANGED <<serverVars, hold, client, setup, endSeen>>

ReadOffer(s) ==
  /\ Talks(s)
  /\ Reads(s, "offer")
  /\ Starts(s, "fund", Head(down[s]).r)
  /\ UNCHANGED <<faults, guardVars, up>>

\* Mutant: the cap itself is out of reach.
ReachesCap(total) == total >= Cap

ExceedsCap(total) == total > Cap

\* validate_release, for a release of this server: it may come too late; it
\* must not be a repeat; its reservation counts as processed before the cap is
\* looked at.
Refusal(s, r) ==
  IF r \in processed[s] THEN "duplicate"
  ELSE IF ExceedsCap(guardTotal[s] + Amount) THEN "cap"
  ELSE "none"

RefuseRelease(s, r, reason) ==
  /\ refused' = refused \cup {<<r, reason>>}
  /\ Says(s, <<Report("failure", r, "Settled")>>)
  /\ UNCHANGED <<serverVars, hold, work, clientVars, guardTotal>>

\* Mutant: a release is settled and not counted.
SettleUncounted(s, r) ==
  /\ Starts(s, "settle", r)
  /\ UNCHANGED <<guardTotal, refused, up>>

SettleRelease(s, r) ==
  /\ guardTotal' = [guardTotal EXCEPT ![s] = @ + Amount]
  /\ Starts(s, "settle", r)
  /\ UNCHANGED <<refused, up>>

ReadRelease(s) ==
  /\ Talks(s)
  /\ Reads(s, "release")
  /\ LET r == Head(down[s]).r IN
       \/ /\ processed' = [processed EXCEPT ![s] = @ \cup {r}]
          /\ IF Refusal(s, r) = "none" THEN SettleRelease(s, r)
                                       ELSE RefuseRelease(s, r, Refusal(s, r))
          /\ UNCHANGED faults
       \/ /\ Fault("late")
          /\ RefuseRelease(s, r, "expired")
          /\ UNCHANGED processed

ReadCancel(s) ==
  /\ Talks(s)
  /\ Reads(s, "cancel")
  /\ Starts(s, "cancel", Head(down[s]).r)
  /\ UNCHANGED <<faults, guardVars, up>>

ReadEnded(s) ==
  /\ Talks(s)
  /\ Reads(s, "ended")
  /\ endSeen' = [endSeen EXCEPT ![s] = TRUE]
  /\ UNCHANGED <<serverVars, nodeVars, client, setup, pending, guardVars, up>>

-----------------------------------------------------------------------------
(* Results, and the exit                                                   *)

Doer(op, r) == IF op = "fund" THEN Payer(r) ELSE Payee(r)

StageOf(op) ==
  CASE op = "fund"   -> "Funded"  [] op = "wait"   -> "Received"
    [] op = "settle" -> "Settled" [] op = "cancel" -> "Cancelled"

\* Mutant: a failed worker stays pending.
LessIfDone(n, result) == IF result = "ok" /\ n > 0 THEN n - 1 ELSE n

LessOne(n, result) == IF n > 0 THEN n - 1 ELSE n

\* The client takes a worker's result and reports it.  A client that is cut
\* off may go on taking them.
DrainResult(s, op, r) ==
  /\ ClientsMove
  /\ Talks(s) \/ client[s] = "cut"
  /\ Doer(op, r) = s
  /\ \E result \in Ready :
       /\ Works(op, r, result, "drained")
       /\ pending' = [pending EXCEPT ![s] = LessOne(@, result)]
       /\ Says(s, <<Report(IF result = "ok" THEN "ack" ELSE "failure", r, StageOf(op))>>)
  /\ UNCHANGED <<serverVars, hold, faults, client, setup, endSeen, guardVars, down>>

\* Mutant: what is pending is not waited for.
EndIsEnough(s) == endSeen[s]

MayExit(s) == endSeen[s] /\ pending[s] = 0

\* The headless client lingers before it exits, the desktop client does not.
Linger(s) ==
  /\ ClientsMove /\ s \notin Desktop
  /\ client[s] = "playing" /\ MayExit(s)
  /\ client' = [client EXCEPT ![s] = "leaving"]
  /\ UNCHANGED <<serverVars, nodeVars, setup, pending, endSeen, guardVars, down, up>>

ExitClient(s) ==
  /\ ClientsMove
  /\ \/ client[s] = "leaving"
     \/ s \in Desktop /\ client[s] \in {"playing", "cut"} /\ MayExit(s)
  /\ Leave(s, "finished")
  /\ UNCHANGED <<serverVars, hold, faults, pending, endSeen, guardVars, down, up>>

-----------------------------------------------------------------------------
ClientProgress(s) ==
  \/ Welcome(s) \/ SetupStep(s) \/ SetupReady(s) \/ SetupFailed(s)
  \/ ReadOffer(s) \/ ReadRelease(s) \/ ReadCancel(s) \/ ReadEnded(s)
  \/ Linger(s) \/ ExitClient(s)
  \/ \E op \in Ops, r \in Ids : DrainResult(s, op, r)

NodesAndWorkers ==
  /\ ClientsMove
  /\ \E r \in Ids : Node(r) \/ Worker(r)
  /\ UNCHANGED <<serverVars, clientVars, guardVars, down, up>>

ConnectionChange(s) ==
  Join(s) \/ NoticeGone(s) \/ LoseConnection(s) \/ NoticeDisconnect(s) \/ Crash(s)

MatchNext ==
  /\ \/ ServerStep
     \/ NodesAndWorkers
     \/ \E s \in Slots :
          HandleClientMessage(s) \/ ConnectionChange(s) \/ ClientProgress(s)
  /\ UNCHANGED channels

MatchSpec == MatchInit /\ [][MatchNext]_matchAllVars

\* The loop of the server goes on, and so do the clients between its turns; an
\* RPC is answered and a payment arrives.  Strong fairness, because clients only
\* act during the drain of a turn; one condition for all of them, because each
\* has only finitely many steps to take.
Undisturbed ==
  /\ NodesAndWorkers \/ \E s \in Slots : ClientProgress(s) \/ NoticeDisconnect(s)
  /\ UNCHANGED faults

MatchFairness ==
  /\ WF_movingVars(ServerStep)
  /\ WF_movingVars(\E s \in Slots : HandleClientMessage(s))
  /\ SF_movingVars(Undisturbed)

FairMatchSpec == MatchSpec /\ MatchFairness

-----------------------------------------------------------------------------
(* Properties                                                              *)

\* The types of the clients' state.
MatchTypeOK ==
  /\ AdapterTypeOK
  /\ client \in [Slots -> ClientStates]
  /\ setup \in [Slots -> {"none", "running", "ready", "failed", "drained", "killed"}]
  /\ pending \in [Slots -> Nat]
  /\ endSeen \in [Slots -> BOOLEAN]
  /\ processed \in [Slots -> SUBSET Ids]
  /\ guardTotal \in [Slots -> Nat]

\* No match starts in which a player could not pay the cap over one usable
\* channel, also when the desktop client accepts the terms before it has looked
\* (select_direct_channel, prepare_hold_invoices, the start of the match).
MatchIsPayable ==
  started =>
    \A s \in Slots : \E i \in DOMAIN channels[s] :
      channels[s][i].usable /\ channels[s][i].balance >= Cap

\* What the server calls Held is held: the payment has arrived at the payee's
\* node, and can since only have timed out.
HeldIsLocked ==
  \A r \in Ids : status[r] = "Held" => hold[r] \in {"Received", "Expired"}

\* The nodes never do with the money what the ledger has not decided: an
\* invoice is only paid when its release was signed, and only cancelled when it
\* was asked for.
MoneyFollowsLedger ==
  \A r \in Ids :
    /\ hold[r] = "Paid" => EscrowOf(r) = "paid"
    /\ hold[r] = "Cancelled" => EscrowOf(r) = "refunded"

\* Nobody pays for what he did not suffer: a player's invoices are only paid,
\* at the nodes, for full buckets of damage that the server counted against
\* him, whatever fails on the way (record_damage, settle_hold_invoice).
PaidForDamage ==
  \A p \in Slots :
    Bucket * Cardinality({r \in IdsOf(p) : hold[r] = "Paid"}) <= damageTaken[p]

\* The books of a match agree: what a player was paid at his node his guard
\* has counted, what his guard has counted the server has released from the
\* opponent, and it was paid for damage that the opponent took
\* (record_damage, validate_release, settle_hold_invoice).
BooksAgree ==
  /\ PaidForDamage
  /\ \A s \in Slots :
       /\ Amount * Cardinality({r \in PaidTo(s) : hold[r] = "Paid"}) <= guardTotal[s]
       /\ guardTotal[s] <= releasedTotal[Opponent(s)]

\* A payee's guard refuses no release the server signed for him, but for one
\* that came after its deadline.
AcceptedUnlessLate == \A x \in refused : x[2] = "expired"

Running(s) ==
  {x \in Ops \X Ids : Doer(x[1], x[2]) = s /\ work[x[1]][x[2]] \in Busy \cup Ready}

\* pending_operations counts the workers whose result was not taken yet, with
\* the desktop client's setup.
PendingIsWork ==
  \A s \in Slots :
    Alive(s) => pending[s] = Cardinality(Running(s))
                  + IF s \in Desktop /\ setup[s] \in {"running", "ready", "failed"}
                    THEN 1 ELSE 0

\* A client that exits at the end of a match leaves nothing undone: each
\* release and each cancellation sent to it went through its worker, or was
\* refused.
ExitLeavesNothing ==
  \A s \in Slots : client[s] = "finished" =>
    \A r \in PaidTo(s) :
      /\ <<"release", r>> \in sent =>
           work["settle"][r] = "drained" \/ \E x \in refused : x[1] = r
      /\ <<"cancel", r>> \in sent => work["cancel"][r] = "drained"

\* A client that was told of the end of the match exits, unless its connection
\* is cut first (exit_on_end).
ClientExits ==
  \A s \in Slots : endSeen[s] /\ Alive(s) ~> ~Alive(s) \/ client[s] = "cut"

Playing(s) == Alive(s) /\ Linked(s)
Ordered(r) ==
  /\ {<<"release", r>>, <<"cancel", r>>} \cap sent # {}
  /\ Playing(Payee(r))
Unresolved(r) == InvoiceStatus(r) \in {"Open", "Received"}

\* An order of the server comes to the node: a hold whose release or
\* cancellation was sent is resolved while its payee plays on, unless the
\* release came too late or a worker failed.
OrdersAreCarriedOut ==
  \A r \in Ids :
    Ordered(r) /\ Unresolved(r)
      ~> \/ ~Unresolved(r)
         \/ ~Playing(Payee(r))
         \/ <<r, "expired">> \in refused
         \/ \E op \in {"settle", "cancel"} : work[op][r] \in {"failed", "drained"}
=============================================================================
