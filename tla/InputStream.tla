---------------------------- MODULE InputStream ----------------------------
(***************************************************************************)
(* The inputs of one player on their way to the simulation and the         *)
(* snapshots on their way back.  The desktop client numbers an input per   *)
(* frame, predicts what it does, and sends it on a channel that loses and  *)
(* reorders.  The server keeps the newest input it has seen and applies it *)
(* in every tick until a newer one arrives; its snapshots take the same    *)
(* kind of channel.  The client starts over from the snapshot it reads     *)
(* last and repeats the inputs that snapshot does not know.                *)
(*                                                                         *)
(* Abstractions.  A position is one coordinate, a movement a step either   *)
(* way within the arena, and the other player may push.  Firing is left to *)
(* DuelSim.  What MatchStarted and MatchEnded change in the client is left *)
(* out: it only sends less for it.                                         *)
(* Packets are not repeated: netcode drops a repeated packet.  Bounds: the *)
(* channels hold WireMax inputs and MailMax snapshots, the predictor       *)
(* PendingMax inputs.                                                      *)
(***************************************************************************)
EXTENDS Integers, FiniteSets, SequencesExt

CONSTANTS
  Far,            \* positions are 0 .. Far
  SeqMax,         \* input numbers are 0 .. SeqMax
  WireMax, MailMax, PendingMax

ASSUME StreamAssumption ==
  Far \in Nat /\ SeqMax \in Nat /\ WireMax \in Nat /\ MailMax \in Nat /\ PendingMax \in Nat

VARIABLES
  world,          \* the simulation: its phase and what it knows of the player
  latest,         \* latest_inputs of the player
  seq,            \* input_sequence
  pending,        \* the predictor's inputs
  predicted,      \* the predictor's position
  view,           \* the snapshot applied last
  wire, mail,     \* inputs and snapshots on their way
  arrived,        \* history: the highest number that arrived
  sent,           \* history: the inputs sent before the numbers wrapped
  wrapped,        \* history: the numbers have wrapped
  known           \* history: the highest number a snapshot has confirmed

clientVars == <<seq, pending, predicted, view>>
historyVars == <<arrived, sent, wrapped, known>>
streamVars == <<world, latest, clientVars, wire, mail, historyVars>>

Positions == 0 .. Far

StreamInit ==
  /\ world = [phase |-> "Waiting", alive |-> TRUE, last |-> 0, pos |-> 0]
  /\ latest = [seq |-> 0, move |-> 0]
  /\ seq = 0 /\ pending = <<>> /\ predicted = 0 /\ view = world
  /\ wire = {} /\ mail = {}
  /\ arrived = 0 /\ sent = <<>> /\ wrapped = FALSE /\ known = 0

Walked(p, f) == IF p + f.move \in Positions THEN p + f.move ELSE p
Pushed(p) == Positions \cap (p - 1) .. (p + 1)

Larger(m, n) == IF m > n THEN m ELSE n

-----------------------------------------------------------------------------
(* The server                                                              *)

\* Mutant: what arrives last is kept.
AnyInput(new, old) == TRUE

IsNewer(new, old) == new.seq >= old.seq

\* handle_client_messages
TakeInput(f) ==
  /\ f \in wire
  /\ wire' = wire \ {f}
  /\ latest' = IF IsNewer(f, latest) THEN f ELSE latest
  /\ arrived' = Larger(f.seq, arrived)
  /\ UNCHANGED <<world, clientVars, mail, sent, wrapped, known>>

\* update_player, apply_input, separate_players.  The player may fall.
Applied(w, f) ==
  IF w.alive /\ f.seq >= w.last THEN [w EXCEPT !.last = f.seq, !.pos = Walked(@, f)] ELSE w

ServerTick ==
  /\ world.phase = "Live"
  /\ \E p \in Pushed(Applied(world, latest).pos), falls \in BOOLEAN :
       world' = [Applied(world, latest) EXCEPT !.pos = p, !.alive = ~falls,
                                               !.phase = IF falls THEN "over" ELSE "Live"]
  /\ UNCHANGED <<latest, clientVars, wire, mail, historyVars>>

\* The match starts; it pauses or ends in another way.
SetPhase ==
  /\ world' = [world EXCEPT !.phase = IF @ = "Waiting" THEN "Live" ELSE "over"]
  /\ UNCHANGED <<latest, clientVars, wire, mail, historyVars>>

\* world_snapshot, once the match has started.
SendSnapshot ==
  /\ world.phase # "Waiting"
  /\ Cardinality(mail) < MailMax
  /\ mail' = mail \cup {world}
  /\ UNCHANGED <<world, latest, clientVars, wire, historyVars>>

-----------------------------------------------------------------------------
(* The client                                                              *)

\* predict_step
Predict(p, f, alive) == IF alive THEN Walked(p, f) ELSE p

Replayed(snapshot, inputs) ==
  FoldLeft(LAMBDA p, f : Predict(p, f, snapshot.alive), snapshot.pos, inputs)

\* update_network: one input per frame while the match it sees is live.
SendInput(move) ==
  LET number == (seq + 1) % (SeqMax + 1)
      f == [seq |-> number, move |-> move]
  IN
  /\ view.phase = "Live"
  /\ Cardinality(wire) < WireMax /\ Len(pending) < PendingMax
  /\ seq' = number
  /\ pending' = Append(pending, f)
  /\ predicted' = Predict(predicted, f, view.alive)
  /\ wire' = wire \cup {f}
  /\ wrapped' = (wrapped \/ number = 0)
  /\ sent' = IF wrapped' THEN <<>> ELSE Append(sent, f)
  /\ UNCHANGED <<world, latest, view, mail, arrived, known>>

\* Mutant: the input the snapshot has seen last is repeated too.
SeenLast(f, snapshot) == f.seq >= snapshot.last

\* The snapshot does not know of this input yet.
Unseen(f, snapshot) == f.seq > snapshot.last

\* retain visits the inputs in order and keeps what is unseen.
Kept(kept, f, snapshot) == IF Unseen(f, snapshot) THEN Append(kept, f) ELSE kept

Retained(snapshot, inputs) == FoldLeft(LAMBDA kept, f : Kept(kept, f, snapshot), <<>>, inputs)

\* apply_snapshot, reconcile
ApplySnapshot(snapshot) ==
  LET left == Retained(snapshot, pending) IN
  /\ snapshot \in mail
  /\ mail' = mail \ {snapshot}
  /\ view' = snapshot
  /\ pending' = left
  /\ predicted' = Replayed(snapshot, left)
  /\ known' = Larger(snapshot.last, known)
  /\ UNCHANGED <<world, latest, seq, wire, arrived, sent, wrapped>>

-----------------------------------------------------------------------------
(* The network                                                             *)

LoseInput == \E f \in wire : wire' = wire \ {f} /\ UNCHANGED mail
LoseSnapshot == \E m \in mail : mail' = mail \ {m} /\ UNCHANGED wire

Lose ==
  /\ LoseInput \/ LoseSnapshot
  /\ UNCHANGED <<world, latest, clientVars, historyVars>>

StreamNext ==
  \/ SetPhase \/ ServerTick \/ SendSnapshot \/ Lose
  \/ \E f \in wire : TakeInput(f)
  \/ \E move \in {-1, 1} : SendInput(move)
  \/ \E snapshot \in mail : ApplySnapshot(snapshot)

StreamSpec == StreamInit /\ [][StreamNext]_streamVars

-----------------------------------------------------------------------------
(* Properties                                                              *)

\* Whatever is lost or overtaken, what the server applies is the newest input
\* that ever arrived, and the simulation never turns it away: its own check
\* of the numbers agrees with that of the server (handle_client_messages,
\* update_player, apply_input).  Newest means of the highest number, also
\* after the numbers have wrapped.
NewestInputWins ==
  /\ latest.seq = arrived
  /\ ~wrapped /\ arrived > 0 => latest = sent[arrived]
  /\ world.last <= latest.seq

\* The prediction is the position of the snapshot applied last, moved by
\* exactly those inputs that no snapshot has confirmed, each once and in
\* order, whatever is lost or overtaken (push, reconcile).  After a snapshot
\* that was overtaken the inputs in between are missing.
PredictionReplays ==
  ~wrapped => predicted = Replayed(view, SubSeq(sent, known + 1, Len(sent)))
=============================================================================
