# Verification of openstrike-fiber-arena

TLA+ models of the arena's protocols, from the rooms of the matchmaker over the
server of a match to the clients' payments, the TLC runs that check them on
small instances, and TLAPS proofs of their main properties for every value of
the constants. Paths below are relative to the repository.

    tlc -config MCSettlement.cfg MCSettlement.tla           # one run
    tlapm SettlementProofs.tla                              # one set of proofs

`PROJECT.json` lists the runs, the mutants each property was tried against, the
source lines behind every definition, the hazards and the theorems.

## The system

Two players fight a duel on an authoritative server, and every bucket of damage
moves money over the Fiber network. Before play each payee makes *hold
invoices* for hashes the server chose; the payer funds them; during play the
server releases preimages; at the end the rest is cancelled.

| Component | State | Operations | Talks to |
| --- | --- | --- | --- |
| Settlement coordinator, `src/settlement.rs` | reservations (status, invoice, two reports), damage remainder, sequence, released totals | `register_invoice_offer`, `acknowledge`, `record_failure`, `record_damage`, `cancel_unused` | called by the server loop |
| Arena server, `src/bin/arena-server.rs` | clients, acceptances, phase flags, newest inputs, exit timers | one loop: drain connections, issue terms, forfeit, messages, start, ticks, exit | clients over Renet, coordinator, simulation |
| Simulations, `src/sim.rs`, `src/openstrike.rs` | positions, health, cooldown, last input, phase | `tick`, `set_phase` | called by the server loop |
| Matchmaker, `src/bin/arena-matchmaker.rs` | rooms, tickets, endpoint pool, child processes | create, join, poll, leave, reap, shutdown | HTTP clients, one `arena-server` per room |
| Matchmaking client, `src/matchmaking.rs` | the last ticket | create, join, `wait_until_ready`, leave | matchmaker |
| Clients, `src/bin/arena-client.rs`, `src/bin/arena-desktop.rs` | terms, `pending_operations`, `match_end_received`; the desktop client also its prediction | handlers for Welcome, offers, releases, cancellations, the end; worker results; exit | server, local Fiber node |
| Release guard, `src/client.rs` | processed reservations, released totals | `validate_release` | client handlers |
| Fiber adapter, `src/fiber.rs` | none | choose a channel; create, fund, wait for, settle, cancel an invoice | Fiber node (external) |
| Wire format, tokens, `src/protocol.rs`, `src/security.rs`, `src/net.rs` | none | encode, sanitise, sign, issue tokens | all |
| Map, rendering, tools | presentation only | | |

What is hard in it:

* the coordinator sees messages of two independent clients in any order, more
  than once, and calls of the game loop between them;
* the server loop drains everything that happened since the last turn at once,
  so that events which were far apart meet in one turn;
* a payment is made by a worker of its own, whose result reaches the client
  between any two messages, and whose RPC may be carried out although it fails;
* the end of a match meets releases, cancellations, workers and disconnects
  that are still under way, and the two clients leave in different ways;
* a join of the matchmaker gives up the lock while it spawns and waits, and its
  future can be dropped there; its client may have given up long before;
* inputs and snapshots are lost and overtake each other, and the client predicts
  meanwhile;
* timers, leases and exits race with all of it.

What makes each part correct: the coordinator never charges beyond the cap or
for an unfunded invoice, pays once, and never both pays and refunds; the server
starts only what is escrowed, gives one verdict, and leaves nothing locked; the
nodes never do with the money what the ledger has not decided; a client takes up
every order once, counts what it started, and leaves when it is done; the
matchmaker never sends two rooms to one server, and loses no endpoint, process
or waiting player; the server applies the newest input, and a client's
prediction is what the server will do.

## Modules

| Module | What it is |
| --- | --- |
| `HoldEscrow` | abstract: where the money of a reservation may go |
| `Settlement` | the coordinator; implements `HoldEscrow` |
| `ArenaServer` | the server loop, its timers and simulation; extends `Settlement` |
| `FiberAdapter` | payment workers and the Fiber nodes they talk to |
| `ArenaMatch` | one match: `ArenaServer`, two clients with their guards, channels, `FiberAdapter` |
| `Matchmaker` | rooms, endpoints, processes and join calls |
| `MatchmakingClient` | the players of a room, composed with `Matchmaker` |
| `Duel` | abstract: what a simulation promises the server |
| `DuelSim` | the two simulations; implements `Duel` |
| `InputStream` | inputs, snapshots and prediction of one player |
| `MC...` | small instances for TLC |
| `SettlementProofs`, `ArenaServerProofs`, `MoneyProofs`, `DeliveryProofs` | theorems about the coordinator, the server, and the match, each built on the one before |
| `MatchmakerProofs`, `DuelProofs`, `StreamProofs` | theorems about the room service and its players, the simulations, the input stream |
| `FoldProofs` | lemmas on least numbers, largest elements and folds over sequences |

### Settlement

One variable per field of a reservation, as a function of its id, and one per
field of the coordinator. `signed`, `handed`, `cancelAsked` and `damageTaken`
are history: the sequence number signed for a reservation, the releases that
reached the caller of `record_damage`, what `cancel_unused` returned, and the
damage recorded. One action per method; a call that returns an error, or that
repeats what was done, is a step that changes nothing. `RecordDamage` is the
whole method: `Taken` characterises the set of reservations the loop consumes
(the first held ones, one per full bucket), and `CapReached` is the `?` that
leaves the loop with an error.

Abstracted: a payment hash is named by its reservation, preimages and
signatures are not modelled, invoices are a small set of which some are too
long. `u16` saturation of the remainder is kept; the `u64` sequence and `u128`
totals do not overflow, since both are bounded by the number of reservations.

`EscrowOf` is the refinement mapping to `HoldEscrow`: a reservation is paid once
something was signed for it, refunded once its payee was told to cancel it,
void once it failed before either, held while `Held`, and open otherwise.

### ArenaServer

Extends `Settlement`: the coordinator's variables stay at their initial values
until the terms are issued. The loop is one thread, so a turn is cut into
steps, `step` being the program counter: `drain` (`handle_connections`, any
number of connects and disconnects), `bind` (terms), `forfeit`, `receive`
(`handle_client_messages`, any number of messages), `tick` (any number of
ticks, then one step per event the tick returned), `exit`. `firstGone` is the
local `disconnected` of the turn, of which the code uses only whether it is
empty and its first element.

A tick may land any blow of `Damages` for either player. The order of the two
shots, the silence of a dead player, the unclamped damage of
`OpenStrikeDuelSim::fire` and the phase that `fire` sets at a death are kept.
A timer is a delay that may elapse while its condition counts.

`sent`, `repeated`, `verdicts` and `leaver` are history: messages about
reservations put on the wire, the releases and cancellations among them that
were put there again, the winners broadcast, and the first player to leave a
match that had terms and no verdict. Offers may be forwarded again, since the
coordinator accepts an offer that repeats what it has; `repeated` leaves them
out.

### FiberAdapter

`hold[r]` is one reservation's invoice at the payee's node with the payer's
payment of it; `work[op][r]` is the worker that funds, waits for, settles or
cancels it. A worker is one action per RPC that changes anything: `CheckInvoice`
stands for parsing, validation and the dry run, `SendPayment` for the payment,
`SettleInvoice` and `WaitPaid` for the two halves of a settlement. Each may be
refused, and each that commits may lose its answer: the worker then fails and
the money has moved. `faults` counts what went wrong, up to `MaxFaults`. The node
itself is external, modelled from the states and answers the adapter handles.
`SelectDirectChannel` is the choice of a channel as the fold the code makes.

### ArenaMatch

The server's actions are those of `ArenaServer`; every step that says something
(`sent`, `issued`, `verdicts`) appends to the channels to the clients what it
said, in the code's order (`Told`). What was said is what `sent` has grown by,
which misses nothing: a payee repeats no offer in this module, and no release
or cancellation goes out twice (`PaidCorrect`, `CancelledCorrect`). A client's step reads the first message of
its channel, starts workers, and answers on its own channel; the server handles
the first message of it in `receive`, and leaves `receive` only when it has read
everything. A lost connection empties both channels.

The seats may be held by the headless client or, for `Desktop`, by the desktop
client. The differences are kept: the headless one stands still while its
invoices are created, ends with any error, and lingers after the end; the
desktop one goes on, spawns the creation as an operation that counts, survives
its connection, and exits at once when nothing is pending.

Reductions, none of which hides an order of events from the server:

* clients, workers and nodes act only while the server drains. The server reads
  its socket once a turn, so it cannot tell when in the turn they acted;
* a turn in which the loop would find nothing to do is not taken;
* results of workers are taken in any order, which includes that of the queue;
* each seat is taken by one client: there are no terms before both seats are
  taken, and nobody is let in afterwards;
* mock payments are left out: they skip the adapter, which only removes steps.

### Matchmaker and MatchmakingClient

A room is a record; `process[c]` is the `arena-server` spawned for room `c`;
`handler[c]` is where the `join_room` call on it is. Requests that hold the lock
are single actions and begin with the reap the code begins with, `refused` being
the children whose `try_wait` returns an error. The rest of a join is one action
per stretch between two awaits or locks; `ClientGone` drops it at its only
await. Time is reduced to whether a room's lease is over. Names, keys, tickets
and HTTP are abstracted; a request that is rejected only reaps, as `Cleanup`
does.

`MatchmakingClient` adds the two players of the rooms in `Followed`: seat A
creates, seat B joins with the code A was told, both poll until the ticket is
ready or failed or their deadline passes, and leave. A request may never arrive,
and an answer may be lost after the request was carried out. The other rooms
take requests as they come.

### Duel, DuelSim and InputStream

`Duel` is what `ArenaServer` assumes of its simulation: at most one blow per
player and live tick, A's first, none from the dead and none in two ticks
running, and no way back from a match that is over. `DuelSim` has what the code
has to ensure it: cooldown, sequence check, order of fire, saturating health.
`Harness` chooses between the two programs, which differ in when the cooldown
runs. A position only decides which blow lands, so any blow may.

`InputStream` follows one player's inputs from the desktop client to the
simulation, and the snapshots back, over channels that lose and reorder.
Positions are one coordinate, a movement one step within the arena, and the
other player may push. Input numbers wrap at `SeqMax`: from then on the server
turns new inputs away until their numbers have caught up, which
`NewestInputWins` states as "newest means of the highest number".

## Runs

| Run | Instance | Distinct states | Shows |
| --- | --- | --- | --- |
| `settlement` | 2 reservations per seat, messages about both of payer A, hits of 1 and 3 with buckets of 2, remainder saturating at 5, an invoice that is too long, references wrong in match, id and hash | 33 thousand | cap, ledger, escrow conditions, damage account; nothing is paid twice; `Settlement` implements `HoldEscrow` |
| `server` | 1 per seat, blows of 1 and 3 on health 3, all exit delays | 207 thousand | one verdict, started means escrowed, nothing held afterwards and what is left cancelled, who falls or leaves first loses, whoever pauses has run out, what is signed is sent, and no order twice; the process exits |
| `match_faults` | 1 per seat, headless against desktop, 1 fault of any kind | 1.4 million | money follows the ledger, the books of guard, node and server agree and no more is paid than damage was taken, held is locked, guards refuse nothing but late releases, pending counts workers, an exit leaves nothing undone, a started match is payable |
| `match_liveness` | the same, refused RPCs and late releases, fair | 77 thousand | orders that were sent reach the node; clients exit after the end |
| `matchmaking_client` | 2 rooms, 1 endpoint, 1 waiting room, one room followed | 36 thousand | endpoints, processes and readiness agree; endpoints, processes and waiting players come back |
| `duel` | the harness simulation, health 4, blows 1 and 3, cooldown 3 | 13 thousand | `DuelSim` implements `Duel` |
| `input_stream` | 3 positions, numbers up to 3, two packets each way | 3.9 million | the newest input wins; the prediction is the snapshot and the inputs it does not know |
| `settlement_handover` | 2 per seat, hits of 2 and 5 | | *violated*: releases lost with the error of the same call |
| `server_forfeit` | as `server` | | *violated*: a match forfeited by a disconnect from before it |
| `server_unused` | as `server` | | *violated*: a funded, failed reservation is not cancelled |
| `matchmaker_endpoint` | 2 rooms, 1 endpoint | | *violated*: two active rooms on one endpoint |
| `matchmaker_orphan` | 2 rooms, 1 endpoint | | *violated*: a process without a room |

### Bounds

* `MaxDamage` bounds the hits of a `Settlement` run; it lets the remainder
  saturate and every reservation be consumed. `ArenaServer` needs no such bound:
  health runs out.
* Two reservations per seat are the least with a hit that consumes several, and
  one that consumes some and then fails; `settlement` has them. Only those of
  payer A ever become `Held` there: messages about three or four reservations
  multiply beyond what a run can hold, and the books of the two payers are kept
  apart. The theorems about `Settlement` have any number of reservations, and
  messages about all of them. The runs of the
  server and the match have one per seat, because preparation multiplies with
  every reservation. Every safety property of theirs is also proved for any
  number.
* `match_faults` allows one fault, anywhere. The proofs of its properties allow
  any number, of any kinds.
* One endpoint and two rooms are the least where a room wants the endpoint that
  another gave up. That three rooms on two endpoints add nothing is proved, not
  checked. Room codes are used once, which bounds the rooms ever created.
* `DuelSim`: a health that one blow leaves above zero and two do not, and blows
  larger than what is left; a cooldown longer than the tick between two shots.
  The run has `Harness = TRUE`; that the OpenStrike simulation implements `Duel`
  as well is proved (`DuelImplemented`), not checked.
* `InputStream`: the channels hold two packets, the least that can overtake;
  `PendingMax` stops the client from sending. Numbers wrap within the run.

### Fairness

* `Matchmaker`: the cleanup task runs every second (weak fairness of a cleanup
  that finds work and to which the operating system refuses nothing), leases
  end, and the runtime resumes a join that can go on. Requests, exits of game
  servers, dropped connections and signals are never forced, so
  `EndpointReleased` and `ProcessStopped` do not rest on players leaving or
  servers exiting. `MatchmakingClient` adds that a polling loop goes on; no
  deadline has to pass, and nobody has to create or join.
* `ArenaServer`: the loop goes on, and a delay that keeps counting elapses.
  Clients need do nothing.
* `ArenaMatch`: the loop goes on and handles what it received. What clients,
  workers and nodes do without a fault (`Undisturbed`) is strongly fair, because
  the model lets them act only during the drain, which comes round again and
  again; one condition for all of them is enough, because each has only finitely
  many steps to take. It says that an RPC ends, which `src/fiber.rs` leaves to
  the node: it sets no timeout of its own.

`CHECK_DEADLOCK FALSE` is said where the process may stop: the matchmaker after
shutdown, a match whose server has exited or whose clients have nothing left to
do, a simulation after its end, a client that sees a match that is over.

## Proofs

All theorems hold for every value of the constants that satisfies the modules'
assumptions (positive amounts and buckets, at most 65535 reservations, damage a
natural number; at least one endpoint, finitely many codes; a cooldown of more
than one tick; any number of faults of any kinds; any lists of channels;
either kind of client at either seat). Every safety property that a passing run
checks is the conclusion of one of them. The type invariants of the server, the
match and the simulations, and `NotBothWays`, which `MoneyFollowsLedger` tests
in a whole match, are proved and not part of a run.

**Settlement.** The safety properties are not inductive: that a released
reservation was funded needs that `Held` implies both reports; that it is not
cancelled needs that a release excludes every status from which a cancellation
is made. `StatusSound` says for each status what it implies of the rest of the
reservation's history, and `IInv` joins it with the types, `LedgerAgrees` and
`DamageAccounted`. The hard step is `DamageLedger`: the sequence numbers a hit
signs are exactly the next `Cardinality(R)` numbers (`RankRange`: the ranks of a
finite set of numbers are an initial interval). `EscrowImplemented` shows that
every step maps to a step of `HoldEscrow` or to a stutter, under `IInv`: a
report to `Hold`, a failure to `Void`, a hit to `Pay`, a cancellation to
`Refund`.

**The server** (`ArenaServerProofs`). `ServerInv` carries `IInv` through every
call the loop makes and adds `SentSound` (a message was sent only for what the
coordinator did), `SentOnce` and `PlayIsEscrowed`. A hit signs only for what is
`Held` and a cancellation is made only of what is `Offered` or `Held`; once a
release or a cancellation has gone out, `SentSound` and `StatusSound` exclude
both statuses, and so none goes out again. `VerdictInv` proves that there is one
verdict: events are handled only in a match that goes on, and a death is the
last event of its tick because a dead player does not fire back. `PlaySound`
rests on one fact: after the start no message makes a reservation `Held`, so who
has run out stays so. From it follow `PauseCorrect` and `PaidCorrect`.
`EndSound` proves `NothingHeldCorrect`: the two reports that make a reservation
`Held` come from both seats, and after a departure one of them is gone and
cannot return.

* `FallenCorrect` needs `FallSound`, which says where the death of a fallen
  player is: the last of the events still to be handled, and the only one of
  its kind. The events before it, a pause among them, leave it there, and the
  match cannot end before it is read.
* `CancelledCorrect` needs `CancelTold`: a reservation leaves its preparation
  only by a signature, by a cancellation, which its payee was sent if he is
  there, or by a failure. `EndSound` has the rest: after the end a funded
  reservation of a payee who is there is neither `Held` nor still `Offered`. It
  is a theorem about funded reservations only: an offer that arrives after a
  forfeit is registered and never cancelled, but its payer has left and does
  not fund it.
* `ServerSpec` does not imply the specification of `Settlement`, which bounds
  the hits by `MaxDamage` for TLC: those of a match have no bound. `LoopCalls`
  lists the calls of the coordinator that one step of the loop may make, and
  from it `ServerKeepsEscrow`, `ServerReleasesOnce` and `ServerKeepsLedger`
  restore what `SettlementProofs` shows of `Settlement`.

**The match** (`MoneyProofs`). `MoneyInv` follows an order on its way: what is on
a channel, what a worker is doing and what a node has done are each borne out by
the ledger, and a report under way by the node. Reports are the point where it
closes: the server believes them, so `HeldLockedCorrect` needs that no client
reports what its node has not seen, whatever fails. `MatchServed` shows that
`MatchSpec` implies `ServerSpec`, so that every theorem about the server is one
about the match: with `ServerKeepsEscrow` it gives `MatchKeepsEscrow`.
`PaidForCorrect` counts: the payments at the nodes are among the releases signed
(`MoneyInv`), and the buckets of those are no more than the damage
(`DamageAccounted`).

`PayableCorrect` needs to know what `select_direct_channel` computes:
`SelectFinds` says that its fold over a list of any length finds a channel
exactly if a usable one has the balance. Induction over data is not at hand,
since the library's induction theorems take an operator; `FoldProofs` replaces
it by the least number at which something fails, and derives that the fold
exists and how it goes from one element to the next.

**The clients** (`DeliveryProofs`). `OnceInv` is an equality: the orders on the
channel to a client are those that were sent to it and that it has not taken up,
each of them once; it is what `sent` grows by at the server and shrinks by when
a client starts a worker. From it: `GuardInductive` (the guard's total is
the price of what it let through, hence it never reaches the cap:
`AcceptedCorrect`), `PendingCorrect` (`CountInv`: the counter is the number of
outstanding workers, because no worker is started twice), and `ExitCorrect`
(`ExitInv`: nothing but offers is sent after the verdict, so that the end is the
last thing a payee is told; with nothing pending, every order was then carried
through or refused). `BooksCorrect` adds `PaidBySettlement`, that a node pays
only what a settle worker was started for; every such worker is one the guard
has counted, and the damage is `PaidForCorrect`.

**Matchmaker.** `InStep` ties a room, its process and its join call together;
with the types and `TokensExclusive` it is inductive, and `OneOwner`,
`ReadyIsServed` and `ShutdownStopsAll` follow from it. `WaitingCorrect` counts
the waiting rooms against the limit. `RoomsServed` shows that the composition
with the players, fairness aside, only does what the service does by itself, so
that all of this holds of `RoomsSpec`, the specification that the run checks.

**The simulations and the input stream.** `DInv` says that a weapon that
struck in the last tick has its whole cooldown ahead, which is more than one
tick; `DuelImplemented` maps a tick to `Strike` and the loop's calls to
`SetPhase`. `StreamInv` says that until the numbers wrap every input on its way
is the one sent under its number; `NewestCorrect` follows for all bounds.
`PredictionCorrect` rests on `PredictInv`: the prediction is the position of
the snapshot applied last, moved by the pending inputs one after the other, and
until the numbers wrap the pending inputs are the end of what was sent. A new
input extends both by one; a snapshot drops the inputs it has seen from the
front and starts the replay again. That the fold goes from one input to the
next is the lemma of `FoldProofs`.

Only model-checked is liveness: `EndedServerExits`, `EmptyServerExits`,
`EndpointReleased`, `ProcessStopped`, `WaitEnds`, `GhostRoomExpires`,
`ClientExits`, `OrdersAreCarriedOut` (fairness and `ENABLED` are beyond the
prover). The five violated properties are false, and have their runs.

## Where the code and its documents disagree

1. `src/settlement.rs:336`. When a hit covers more buckets than its victim has
   held reservations, the releases already signed in that call are dropped with
   the error. A lethal blow of the OpenStrike simulation reports its full,
   unclamped damage, so that this can happen under the default terms.
2. `src/settlement.rs:370`. A reservation that was funded and then reported
   failed is skipped by `cancel_unused`.
3. `src/bin/arena-server.rs:245`. A disconnect from before the terms forfeits
   the match that is created in the same turn.
4. `src/bin/arena-matchmaker.rs:362`. `mark_ready` revives a room that was left
   during its start, whose endpoint may belong to another room by then.
5. `src/bin/arena-matchmaker.rs:598`. A dropped join call loses the only handle
   of the process it spawned.

Two passages of the documents are out of date, on cases that no property is
about: `docs/fiber-integration.md:138-139` says that there is no forfeit policy,
where the server does forfeit at a disconnect; and `docs/playing.md:38-39` says that the
server keeps running for a rematch, where a server whose match has terms admits
nobody again.

Three weaknesses are listed as hazards only, since no document speaks of them: a
pause for want of reservations never ends by itself, and overwrites the phase
that a death in the same tick had set (`src/bin/arena-server.rs:371`); a desktop
client whose connection was cut does not drain its results any more
(`src/bin/arena-desktop.rs:518`), so that it need not exit; and an RPC has no
timeout of its own (`src/fiber.rs:399`).

## Not modelled

* Cryptography, tokens and UDP transport (`src/security.rs`, `src/net.rs`): a
  token is the right to a seat, a signature that the server made verifies, and
  netcode delivers reliable messages in order and each once.
* Encoding and parsing (`src/protocol.rs`, most of `src/fiber.rs`): taken to be
  right. `sanitized` inputs are the inputs the models enumerate.
* Geometry, aiming, ammunition, the state hash, the map, rendering, asset
  generation: floating point without protocol state. What of it the protocol
  sees is that a shot may take any blow.
* Mock payments, command lines, the administration and probe tools, scripts.
* Bindings of names and keys to seats, in both servers: they are immutable once
  the terms exist.

What could follow: the matchmaker's `spawn_game` composed with `ArenaServer`, so
that a room's end and a match's end are one story; the desktop client's exit
when its connection is cut, once the code has one; and ammunition, which
would need the crate that defines the weapons.
