---------------------------- MODULE StreamProofs ----------------------------
(***************************************************************************)
(* The server applies the newest input that arrived, and the prediction    *)
(* repeats exactly the inputs no snapshot knows, for every bound on the    *)
(* channels and every range of input numbers.                              *)
(*                                                                         *)
(* The second rests on what the predictor's two folds do: one more input   *)
(* is one more step (ReplayedAppend), and what a snapshot leaves of inputs *)
(* numbered one after the other is their end (RetainedIsRest).             *)
(***************************************************************************)
EXTENDS InputStream, FoldProofs, SequenceTheorems

Frames == [seq : 0 .. SeqMax, move : {-1, 0, 1}]

\* Until the numbers wrap, an input on its way is the one sent under its number.
NumbersTell ==
  ~wrapped =>
    /\ seq = Len(sent)
    /\ \A f \in wire : f.seq \in 1 .. Len(sent) /\ sent[f.seq] = f
    /\ arrived <= Len(sent)

StreamInv ==
  /\ wire \subseteq Frames /\ latest \in Frames /\ sent \in Seq(Frames)
  /\ seq \in 0 .. SeqMax /\ arrived \in 0 .. SeqMax /\ wrapped \in BOOLEAN
  /\ DOMAIN world = {"phase", "alive", "last", "pos"} /\ world.last \in 0 .. SeqMax
  /\ NumbersTell
  /\ NewestInputWins

LEMMA InitStream == StreamInit => StreamInv
<1> SUFFICES ASSUME StreamInit
             PROVE  StreamInv
  OBVIOUS
<1>1. /\ latest \in Frames /\ seq = 0 /\ arrived = 0 /\ sent = <<>> /\ wire = {}
      /\ wrapped = FALSE /\ latest.seq = 0
      /\ DOMAIN world = {"phase", "alive", "last", "pos"} /\ world.last = 0
  BY StreamAssumption DEF StreamInit, Frames
<1>2. 0 \in 0 .. SeqMax /\ <<>> \in Seq(Frames) /\ Len(<<>>) = 0
  BY StreamAssumption
<1>3. NumbersTell /\ NewestInputWins
  BY <1>1, <1>2 DEF NumbersTell, NewestInputWins
<1>4. wrapped \in BOOLEAN
  BY <1>1
<1> QED
  BY <1>1, <1>2, <1>3, <1>4 DEF StreamInv

LEMMA StreamStep == StreamInv /\ [StreamNext]_streamVars => StreamInv'
<1> SUFFICES ASSUME StreamInv, [StreamNext]_streamVars
             PROVE  StreamInv'
  OBVIOUS
\* The channels and the simulation's inputs as they are.
<1>1. ASSUME UNCHANGED <<latest, seq, sent, arrived, wrapped>>, wire' \subseteq wire,
             DOMAIN world' = DOMAIN world,
             world'.last \in {world.last, latest.seq}
      PROVE  StreamInv'
  <2>1. world'.last \in 0 .. SeqMax /\ world'.last <= latest.seq
    BY <1>1 DEF StreamInv, Frames, NewestInputWins
  <2> QED
    BY <1>1, <2>1 DEF StreamInv, NumbersTell, NewestInputWins
<1>2. CASE ServerTick
  <2>1. PICK p \in Pushed(Applied(world, latest).pos), falls \in BOOLEAN :
          world' = [Applied(world, latest) EXCEPT !.pos = p, !.alive = ~falls,
                                        !.phase = IF falls THEN "over" ELSE "Live"]
    BY <1>2 DEF ServerTick
  <2>2. /\ DOMAIN Applied(world, latest) = DOMAIN world
        /\ Applied(world, latest).last \in {world.last, latest.seq}
    BY DEF Applied, StreamInv
  <2>3. /\ DOMAIN world' = DOMAIN world
        /\ world'.last = Applied(world, latest).last
    BY <2>1, <2>2 DEF StreamInv
  <2> QED
    BY <1>1, <1>2, <2>2, <2>3 DEF ServerTick, clientVars, historyVars
<1>3. CASE SetPhase
  <2>1. DOMAIN world' = DOMAIN world /\ world'.last = world.last
    BY <1>3 DEF SetPhase, StreamInv
  <2> QED
    BY <1>1, <1>3, <2>1 DEF SetPhase, clientVars, historyVars
<1>4. CASE SendSnapshot \/ (\E snapshot \in mail : ApplySnapshot(snapshot))
           \/ Lose \/ UNCHANGED streamVars
  BY <1>1, <1>4 DEF SendSnapshot, ApplySnapshot, Lose, LoseInput, LoseSnapshot,
                    streamVars, clientVars, historyVars
<1>5. ASSUME NEW f \in wire, TakeInput(f)
      PROVE  StreamInv'
  <2>1. /\ f \in Frames /\ f.seq \in 0 .. SeqMax /\ latest.seq = arrived
        /\ arrived \in 0 .. SeqMax /\ world.last <= latest.seq
    BY DEF StreamInv, Frames, NewestInputWins
  <2>2. /\ wire' \subseteq wire
        /\ latest' = IF f.seq >= latest.seq THEN f ELSE latest
        /\ arrived' = IF f.seq > arrived THEN f.seq ELSE arrived
        /\ UNCHANGED <<world, seq, sent, wrapped>>
    BY <1>5 DEF TakeInput, IsNewer, Larger, clientVars
  <2>3. /\ latest' \in Frames /\ arrived' \in 0 .. SeqMax /\ latest'.seq = arrived'
        /\ world'.last <= latest'.seq
    BY <2>1, <2>2, StreamAssumption DEF StreamInv
  <2>4. NumbersTell'
    BY <2>1, <2>2, StreamAssumption DEF StreamInv, NumbersTell
  <2>5. ~wrapped' /\ arrived' > 0 => latest' = sent'[arrived']
    <3>1. CASE f.seq >= latest.seq
      BY <2>1, <2>2, <3>1 DEF StreamInv, NumbersTell
    <3>2. CASE ~(f.seq >= latest.seq)
      BY <2>1, <2>2, <3>2 DEF StreamInv, NewestInputWins
    <3> QED
      BY <3>1, <3>2
  <2> QED
    BY <2>2, <2>3, <2>4, <2>5 DEF StreamInv, NewestInputWins
<1>6. ASSUME NEW move \in {-1, 1}, SendInput(move)
      PROVE  StreamInv'
  <2> DEFINE number == (seq + 1) % (SeqMax + 1)
             f == [seq |-> number, move |-> move]
  <2>1. /\ seq' = number /\ wire' = wire \cup {f}
        /\ wrapped' = (wrapped \/ number = 0)
        /\ sent' = IF wrapped' THEN <<>> ELSE Append(sent, f)
        /\ UNCHANGED <<world, latest, arrived>>
    BY <1>6 DEF SendInput
  <2>2. /\ seq \in 0 .. SeqMax /\ SeqMax \in Nat
        /\ number = IF seq = SeqMax THEN 0 ELSE seq + 1
    <3>1. seq \in 0 .. SeqMax /\ SeqMax \in Nat
      BY StreamAssumption DEF StreamInv
    <3>2. CASE seq = SeqMax
      BY <3>1, <3>2
    <3>3. CASE seq # SeqMax
      BY <3>1, <3>3
    <3> QED
      BY <3>1, <3>2, <3>3
  <2> HIDE DEF number
  <2>3. number \in 0 .. SeqMax /\ f \in Frames
    BY <2>2 DEF Frames
  <2>4. sent' \in Seq(Frames) /\ wire' \subseteq Frames /\ wrapped' \in BOOLEAN
    BY <2>1, <2>3 DEF StreamInv
  <2>5. ASSUME ~wrapped'
        PROVE  /\ ~wrapped /\ number = seq + 1 /\ seq = Len(sent)
               /\ Len(sent') = Len(sent) + 1 /\ sent'[number] = f
               /\ \A i \in 1 .. Len(sent) : sent'[i] = sent[i]
    <3>1. ~wrapped /\ number = seq + 1 /\ seq = Len(sent) /\ sent' = Append(sent, f)
      BY <2>1, <2>2, <2>5 DEF StreamInv, NumbersTell
    <3>2. sent \in Seq(Frames) /\ f \in Frames
      BY <2>3 DEF StreamInv
    <3> HIDE DEF f
    <3> QED
      BY <3>1, <3>2, AppendProperties
  <2>6. Len(sent) \in Nat
    BY LenProperties DEF StreamInv
  <2>7. NumbersTell'
    <3> SUFFICES ASSUME ~wrapped'
                 PROVE  /\ seq' = Len(sent') /\ arrived' <= Len(sent')
                        /\ \A g \in wire' : g.seq \in 1 .. Len(sent') /\ sent'[g.seq] = g
      BY DEF NumbersTell
    <3>1. seq' = Len(sent') /\ arrived' <= Len(sent')
      BY <2>1, <2>5, <2>6 DEF StreamInv, NumbersTell
    <3>2. ASSUME NEW g \in wire'
          PROVE  g.seq \in 1 .. Len(sent') /\ sent'[g.seq] = g
      <4>1. CASE g = f
        BY <2>5, <2>6, <4>1
      <4>2. CASE g \in wire
        <5>1. g.seq \in 1 .. Len(sent) /\ sent[g.seq] = g
          BY <2>5, <4>2 DEF StreamInv, NumbersTell
        <5> QED
          BY <2>5, <2>6, <5>1
      <4> QED
        BY <2>1, <4>1, <4>2
    <3> QED
      BY <3>1, <3>2
  <2>8. NewestInputWins'
    <3>1. ~wrapped' /\ arrived > 0 => arrived \in 1 .. Len(sent) /\ latest = sent[arrived]
      BY <2>5, <2>6 DEF StreamInv, NumbersTell, NewestInputWins
    <3> QED
      BY <2>1, <2>5, <3>1 DEF StreamInv, NewestInputWins
  <2> QED
    BY <2>1, <2>3, <2>4, <2>7, <2>8 DEF StreamInv
<1> QED
  BY <1>2, <1>3, <1>4, <1>5, <1>6 DEF StreamNext

\* Whatever inputs are lost or overtaken, and however many are under way, the
\* server applies the newest that arrived, and the simulation's own check of
\* the numbers never turns it away (handle_client_messages, update_player,
\* apply_input).
THEOREM NewestCorrect == StreamSpec => []NewestInputWins
<1>1. StreamInv => NewestInputWins
  BY DEF StreamInv
<1> QED
  BY <1>1, InitStream, StreamStep, PTL DEF StreamSpec

-----------------------------------------------------------------------------
(* Folds over the pending inputs                                           *)

Worlds == [phase : {"Waiting", "Live", "over"}, alive : BOOLEAN, last : 0 .. SeqMax, pos : Int]

\* h[k] is the fold of the first k inputs.
Replays(h, snapshot, inputs) ==
  /\ h[0] = snapshot.pos
  /\ \A k \in 1 .. Len(inputs) : h[k] = Predict(h[k - 1], inputs[k], snapshot.alive)

Retains(h, snapshot, inputs) ==
  /\ h[0] = <<>>
  /\ \A k \in 1 .. Len(inputs) : h[k] = Kept(h[k - 1], inputs[k], snapshot)

\* A predicted step keeps a position a position.
LEMMA PredictType ==
  ASSUME NEW p \in Int, NEW f \in Frames, NEW alive
  PROVE  Predict(p, f, alive) \in Int
  BY DEF Predict, Walked, Frames

\* The replay is a walk that takes one step per input.
LEMMA ReplayedSteps ==
  ASSUME NEW snapshot \in Worlds, NEW inputs \in Seq(Frames)
  PROVE  \E h : Replays(h, snapshot, inputs) /\ Replayed(snapshot, inputs) = h[Len(inputs)]
<1> DEFINE n == Len(inputs)
           base == snapshot.pos
           alive == snapshot.alive
           g == [x \in Int \X (1 .. n) |-> Predict(x[1], inputs[x[2]], alive)]
           Equation(h) == h = [s \in SUBSET (DOMAIN inputs) |->
                                 IF s = {} THEN base
                                 ELSE Predict(h[s \ {Max(s)}], inputs[Max(s)], alive)]
           fold == CHOOSE h : Equation(h)
<1>1. n \in Nat /\ DOMAIN inputs = 1 .. n /\ base \in Int
  BY DEF Worlds
<1>2. \A p \in Int, k \in 1 .. n : Predict(p, inputs[k], alive) \in Int
  <2>1. \A k \in 1 .. n : inputs[k] \in Frames
    BY <1>1
  <2> HIDE DEF alive
  <2> QED
    BY <2>1, PredictType
<1>3. g \in [Int \X (1 .. n) -> Int]
  BY <1>2
<1>4. PICK h \in [SUBSET (1 .. n) -> Int] : FoldsOver(h, g, base, n)
  <2> HIDE DEF g, n, base
  <2> QED
    BY <1>1, <1>3, FoldExists
<1>5. Equation(h)
  <2>1. ASSUME NEW s \in SUBSET (1 .. n)
        PROVE  h[s] = IF s = {} THEN base ELSE Predict(h[s \ {Max(s)}], inputs[Max(s)], alive)
    <3>1. h[s] = IF s = {} THEN base ELSE g[<<h[s \ {Max(s)}], Max(s)>>]
      BY <1>4 DEF FoldsOver
    <3>2. CASE s # {}
      <4>1. Max(s) \in 1 .. n
        BY <1>1, <3>2, MaxOfIndices
      <4>2. h[s \ {Max(s)}] \in Int
        OBVIOUS
      <4> QED
        BY <3>1, <3>2, <4>1, <4>2
    <3> QED
      BY <3>1, <3>2
  <2> QED
    BY <1>1, <2>1
<1>6. Equation(fold)
  BY <1>5
<1>7. Replayed(snapshot, inputs) = fold[DOMAIN inputs]
  BY DEF Replayed, FoldLeft, MapThenFoldSet
<1> DEFINE steps == [k \in 0 .. n |-> fold[1 .. k]]
<1> HIDE DEF fold
<1>8. \A s \in SUBSET (1 .. n) :
        fold[s] = IF s = {} THEN base ELSE Predict(fold[s \ {Max(s)}], inputs[Max(s)], alive)
  BY <1>1, <1>6
<1>9. /\ steps[0] = fold[{}] /\ steps[n] = fold[1 .. n]
      /\ \A k \in 1 .. n :
           /\ 1 .. k \in SUBSET (1 .. n) /\ 1 .. k # {}
           /\ (1 .. k) \ {Max(1 .. k)} = 1 .. (k - 1) /\ Max(1 .. k) = k
           /\ steps[k] = fold[1 .. k] /\ steps[k - 1] = fold[1 .. (k - 1)]
  <2>1. n \in Nat /\ \A k \in 0 .. n : steps[k] = fold[1 .. k]
    BY <1>1
  <2> HIDE DEF n, steps
  <2> QED
    BY <2>1, StepsOf
<1>10. Replays(steps, snapshot, inputs) /\ Replayed(snapshot, inputs) = steps[n]
  <2> HIDE DEF steps
  <2>1. steps[0] = base
    BY <1>8, <1>9
  <2>2. ASSUME NEW k \in 1 .. n
        PROVE  steps[k] = Predict(steps[k - 1], inputs[k], alive)
    <3>1. fold[1 .. k] = Predict(fold[(1 .. k) \ {Max(1 .. k)}], inputs[Max(1 .. k)], alive)
      BY <1>8, <1>9
    <3> QED
      BY <1>9, <3>1
  <2>3. Replayed(snapshot, inputs) = steps[n]
    BY <1>1, <1>7, <1>9
  <2> QED
    BY <2>1, <2>2, <2>3 DEF Replays
<1> QED
  BY <1>10
\* retain looks at one input after the other.
LEMMA RetainedSteps ==
  ASSUME NEW snapshot \in Worlds, NEW inputs \in Seq(Frames)
  PROVE  \E h : Retains(h, snapshot, inputs) /\ Retained(snapshot, inputs) = h[Len(inputs)]
<1> DEFINE n == Len(inputs)
           base == <<>>
           g == [x \in Seq(Frames) \X (1 .. n) |-> Kept(x[1], inputs[x[2]], snapshot)]
           Equation(h) == h = [s \in SUBSET (DOMAIN inputs) |->
                                 IF s = {} THEN base
                                 ELSE Kept(h[s \ {Max(s)}], inputs[Max(s)], snapshot)]
           fold == CHOOSE h : Equation(h)
<1>1. n \in Nat /\ DOMAIN inputs = 1 .. n /\ base \in Seq(Frames)
  OBVIOUS
<1>2. \A kept \in Seq(Frames), k \in 1 .. n : Kept(kept, inputs[k], snapshot) \in Seq(Frames)
  <2>1. \A k \in 1 .. n : inputs[k] \in Frames
    BY <1>1
  <2> QED
    BY <2>1 DEF Kept
<1>3. g \in [Seq(Frames) \X (1 .. n) -> Seq(Frames)]
  BY <1>2
<1>4. PICK h \in [SUBSET (1 .. n) -> Seq(Frames)] : FoldsOver(h, g, base, n)
  <2> HIDE DEF g, n, base
  <2> QED
    BY <1>1, <1>3, FoldExists
<1>5. Equation(h)
  <2>1. ASSUME NEW s \in SUBSET (1 .. n)
        PROVE  h[s] = IF s = {} THEN base ELSE Kept(h[s \ {Max(s)}], inputs[Max(s)], snapshot)
    <3>1. h[s] = IF s = {} THEN base ELSE g[<<h[s \ {Max(s)}], Max(s)>>]
      BY <1>4 DEF FoldsOver
    <3>2. CASE s # {}
      <4>1. Max(s) \in 1 .. n
        BY <1>1, <3>2, MaxOfIndices
      <4>2. h[s \ {Max(s)}] \in Seq(Frames)
        OBVIOUS
      <4> QED
        BY <3>1, <3>2, <4>1, <4>2
    <3> QED
      BY <3>1, <3>2
  <2> QED
    BY <1>1, <2>1
<1>6. Equation(fold)
  BY <1>5
<1>7. Retained(snapshot, inputs) = fold[DOMAIN inputs]
  BY DEF Retained, FoldLeft, MapThenFoldSet
<1> DEFINE steps == [k \in 0 .. n |-> fold[1 .. k]]
<1> HIDE DEF fold
<1>8. \A s \in SUBSET (1 .. n) :
        fold[s] = IF s = {} THEN base ELSE Kept(fold[s \ {Max(s)}], inputs[Max(s)], snapshot)
  BY <1>1, <1>6
<1>9. /\ steps[0] = fold[{}] /\ steps[n] = fold[1 .. n]
      /\ \A k \in 1 .. n :
           /\ 1 .. k \in SUBSET (1 .. n) /\ 1 .. k # {}
           /\ (1 .. k) \ {Max(1 .. k)} = 1 .. (k - 1) /\ Max(1 .. k) = k
           /\ steps[k] = fold[1 .. k] /\ steps[k - 1] = fold[1 .. (k - 1)]
  <2>1. n \in Nat /\ \A k \in 0 .. n : steps[k] = fold[1 .. k]
    BY <1>1
  <2> HIDE DEF n, steps
  <2> QED
    BY <2>1, StepsOf
<1>10. Retains(steps, snapshot, inputs) /\ Retained(snapshot, inputs) = steps[n]
  <2> HIDE DEF steps
  <2>1. steps[0] = base
    BY <1>8, <1>9
  <2>2. ASSUME NEW k \in 1 .. n
        PROVE  steps[k] = Kept(steps[k - 1], inputs[k], snapshot)
    <3>1. fold[1 .. k] = Kept(fold[(1 .. k) \ {Max(1 .. k)}], inputs[Max(1 .. k)], snapshot)
      BY <1>8, <1>9
    <3> QED
      BY <1>9, <3>1
  <2>3. Retained(snapshot, inputs) = steps[n]
    BY <1>1, <1>7, <1>9
  <2> QED
    BY <2>1, <2>2, <2>3 DEF Retains
<1> QED
  BY <1>10

\* One more input takes one more step.
LEMMA ReplayedAppend ==
  ASSUME NEW snapshot \in Worlds, NEW inputs \in Seq(Frames), NEW f \in Frames
  PROVE  Replayed(snapshot, Append(inputs, f))
           = Predict(Replayed(snapshot, inputs), f, snapshot.alive)
<1> DEFINE n == Len(inputs)
           longer == Append(inputs, f)
<1>1. PICK a : Replays(a, snapshot, inputs) /\ Replayed(snapshot, inputs) = a[n]
  BY ReplayedSteps
<1>2. /\ longer \in Seq(Frames) /\ Len(longer) = n + 1 /\ longer[n + 1] = f
      /\ n \in Nat /\ \A k \in 1 .. n : longer[k] = inputs[k]
  BY AppendProperties
<1> HIDE DEF longer, n
<1>3. PICK b : Replays(b, snapshot, longer) /\ Replayed(snapshot, longer) = b[n + 1]
  BY <1>2, ReplayedSteps
<1>4. /\ a[0] = snapshot.pos /\ b[0] = snapshot.pos
      /\ \A k \in 1 .. n : a[k] = Predict(a[k - 1], inputs[k], snapshot.alive)
      /\ \A k \in 1 .. n : b[k] = Predict(b[k - 1], longer[k], snapshot.alive)
      /\ b[n + 1] = Predict(b[n], f, snapshot.alive)
  <2>1. n + 1 \in 1 .. (n + 1) /\ (n + 1) - 1 = n
    BY <1>2
  <2> QED
    BY <1>1, <1>2, <1>3, <2>1 DEF Replays, n
<1>5. a[n] = b[n]
  <2> DEFINE Good == {k \in 0 .. n : a[k] = b[k]}
  <2>1. n \in Nat
    BY <1>2
  <2>2. 0 \in Good
    BY <1>4, <2>1
  <2>3. ASSUME NEW k \in 0 .. (n - 1), k \in Good
        PROVE  k + 1 \in Good
    <3>1. k + 1 \in 1 .. n /\ (k + 1) - 1 = k /\ a[k] = b[k]
      BY <2>1, <2>3
    <3> QED
      BY <1>2, <1>4, <3>1
  <2> HIDE DEF Good
  <2>4. 0 .. n \subseteq Good
    BY <2>1, <2>2, <2>3, UpTo
  <2> QED
    BY <2>1, <2>4 DEF Good
<1> QED
  BY <1>1, <1>3, <1>4, <1>5 DEF longer

\* What a snapshot leaves is a sequence of inputs.
LEMMA RetainedType ==
  ASSUME NEW snapshot \in Worlds, NEW inputs \in Seq(Frames)
  PROVE  Retained(snapshot, inputs) \in Seq(Frames)
<1> DEFINE n == Len(inputs)
<1>1. PICK a : Retains(a, snapshot, inputs) /\ Retained(snapshot, inputs) = a[n]
  BY RetainedSteps
<1> DEFINE Good == {k \in 0 .. n : a[k] \in Seq(Frames)}
<1>2. 0 \in Good /\ n \in Nat
  <2>1. a[0] = <<>> /\ n \in Nat
    BY <1>1 DEF Retains
  <2>2. a[0] \in Seq(Frames) /\ 0 \in 0 .. n
    BY <2>1
  <2> HIDE DEF n
  <2> QED
    BY <2>1, <2>2
<1>3. ASSUME NEW k \in 0 .. (n - 1), k \in Good
      PROVE  k + 1 \in Good
  <2>1. k + 1 \in 1 .. n /\ (k + 1) - 1 = k /\ a[k] \in Seq(Frames)
    BY <1>2, <1>3
  <2>2. a[k + 1] = Kept(a[k], inputs[k + 1], snapshot) /\ inputs[k + 1] \in Frames
    BY <1>1, <2>1 DEF Retains
  <2>3. a[k + 1] \in Seq(Frames)
    BY <2>1, <2>2 DEF Kept
  <2> QED
    BY <2>1, <2>3
<1> HIDE DEF Good, n
<1>4. 0 .. n \subseteq Good
  BY <1>2, <1>3, UpTo
<1> QED
  BY <1>1, <1>2, <1>4 DEF Good

\* Of inputs numbered one after the other, those a snapshot does not know are
\* the last.
LEMMA RetainedIsRest ==
  ASSUME NEW snapshot \in Worlds, NEW inputs \in Seq(Frames), NEW from \in Nat,
         \A k \in 1 .. Len(inputs) : inputs[k].seq = from + k
  PROVE  LET rest == Larger(snapshot.last, from) - from
             left == Retained(snapshot, inputs)
         IN  /\ left \in Seq(Frames)
             /\ Len(left) = Larger(Len(inputs), rest) - rest
             /\ \A k \in 1 .. Len(left) : left[k] = inputs[rest + k]
<1> DEFINE n == Len(inputs)
           rest == Larger(snapshot.last, from) - from
           Rest(left, k) == /\ left \in Seq(Frames)
                            /\ Len(left) = Larger(k, rest) - rest
                            /\ \A i \in 1 .. Len(left) : left[i] = inputs[rest + i]
<1>1. PICK a : Retains(a, snapshot, inputs) /\ Retained(snapshot, inputs) = a[n]
  BY RetainedSteps
<1>2. n \in Nat /\ rest \in Nat /\ snapshot.last \in Nat
      /\ \A k \in 1 .. n : from + k > snapshot.last <=> k > rest
  BY StreamAssumption DEF Worlds, Larger
<1> DEFINE Good == {k \in 0 .. n : Rest(a[k], k)}
<1>3. 0 \in Good
  <2>1. a[0] = <<>> /\ Len(<<>>) = 0 /\ <<>> \in Seq(Frames) /\ 0 \in 0 .. n
    BY <1>1, <1>2 DEF Retains
  <2>2. Larger(0, rest) = rest /\ rest - rest = 0
    BY <1>2 DEF Larger
  <2> HIDE DEF rest, n
  <2>3. Rest(a[0], 0)
    BY <2>1, <2>2
  <2> QED
    BY <2>1, <2>3
<1>4. ASSUME NEW k \in 0 .. (n - 1), k \in Good
      PROVE  k + 1 \in Good
  <2>1. k + 1 \in 1 .. n /\ (k + 1) - 1 = k /\ Rest(a[k], k) /\ k \in Nat
    BY <1>2, <1>4
  <2>2. a[k + 1] = Kept(a[k], inputs[k + 1], snapshot) /\ inputs[k + 1] \in Frames
        /\ inputs[k + 1].seq = from + (k + 1)
    BY <1>1, <2>1 DEF Retains
  <2>3. CASE k + 1 > rest
    <3>1. a[k + 1] = Append(a[k], inputs[k + 1])
      BY <1>2, <2>1, <2>2, <2>3 DEF Kept, Unseen
    <3> HIDE DEF rest, n
    <3>2. Larger(k, rest) = k /\ Larger(k + 1, rest) = k + 1
      BY <1>2, <2>1, <2>3 DEF Larger
    <3>3. Len(a[k]) = k - rest /\ a[k] \in Seq(Frames)
      BY <2>1, <3>2
    <3>4. /\ a[k + 1] \in Seq(Frames) /\ Len(a[k + 1]) = Len(a[k]) + 1
          /\ \A i \in 1 .. Len(a[k]) : a[k + 1][i] = a[k][i]
          /\ a[k + 1][Len(a[k]) + 1] = inputs[k + 1]
      BY <2>2, <3>1, <3>3, AppendProperties
    <3>5. Len(a[k + 1]) = Larger(k + 1, rest) - rest
      BY <1>2, <2>1, <3>2, <3>3, <3>4
    <3>6. ASSUME NEW i \in 1 .. Len(a[k + 1])
          PROVE  a[k + 1][i] = inputs[rest + i]
      <4>1. CASE i = Len(a[k]) + 1
        <5>1. rest + i = k + 1
          BY <1>2, <2>1, <3>3, <4>1
        <5> QED
          BY <3>4, <4>1, <5>1
      <4>2. CASE i # Len(a[k]) + 1
        <5>1. i \in 1 .. Len(a[k])
          BY <1>2, <2>1, <3>3, <3>4, <4>2
        <5> QED
          BY <2>1, <3>4, <5>1
      <4> QED
        BY <4>1, <4>2
    <3>7. Rest(a[k + 1], k + 1)
      BY <3>4, <3>5, <3>6
    <3> QED
      BY <2>1, <3>7
  <2>4. CASE ~(k + 1 > rest)
    <3>1. a[k + 1] = a[k]
      BY <1>2, <2>1, <2>2, <2>4 DEF Kept, Unseen
    <3>2. Larger(k + 1, rest) = Larger(k, rest)
      BY <1>2, <2>1, <2>4 DEF Larger
    <3> HIDE DEF rest
    <3>3. Rest(a[k + 1], k + 1)
      BY <2>1, <3>1, <3>2
    <3> QED
      BY <2>1, <3>3
  <2> QED
    BY <2>3, <2>4
<1> HIDE DEF Good, n
<1>5. n \in Good
  <2>1. n \in Nat
    BY <1>2
  <2>2. 0 .. n \subseteq Good
    BY <1>3, <1>4, <2>1, UpTo
  <2> QED
    BY <2>1, <2>2
<1> QED
  BY <1>1, <1>5 DEF Good, n

-----------------------------------------------------------------------------
(* The prediction                                                          *)

\* Until the numbers wrap, what is pending is the end of what was sent.
PendingIsSent ==
  ~wrapped =>
    /\ Len(pending) = Len(sent) - known
    /\ \A k \in 1 .. Len(pending) : pending[k] = sent[known + k]
    /\ \A i \in 1 .. Len(sent) : sent[i].seq = i

PredictInv ==
  /\ StreamInv
  /\ world \in Worlds /\ view \in Worlds /\ mail \subseteq Worlds
  /\ pending \in Seq(Frames) /\ known \in Nat
  /\ known <= world.last /\ \A m \in mail : m.last <= world.last
  /\ predicted = Replayed(view, pending)
  /\ PendingIsSent

\* Without inputs the replay stays where the snapshot is.
LEMMA ReplayedNothing ==
  ASSUME NEW snapshot \in Worlds
  PROVE  Replayed(snapshot, <<>>) = snapshot.pos
<1>1. <<>> \in Seq(Frames) /\ Len(<<>>) = 0
  OBVIOUS
<1>2. PICK h : Replays(h, snapshot, <<>>) /\ Replayed(snapshot, <<>>) = h[0]
  BY <1>1, ReplayedSteps
<1> QED
  BY <1>2 DEF Replays

LEMMA InitPredict == StreamInit => PredictInv
<1> SUFFICES ASSUME StreamInit
             PROVE  PredictInv
  OBVIOUS
<1>1. /\ world = [phase |-> "Waiting", alive |-> TRUE, last |-> 0, pos |-> 0]
      /\ view = world /\ pending = <<>> /\ predicted = 0 /\ known = 0 /\ mail = {} /\ sent = <<>>
  BY DEF StreamInit
<1>2. world \in Worlds /\ world.pos = 0 /\ world.last = 0 /\ <<>> \in Seq(Frames) /\ Len(<<>>) = 0
  BY <1>1, StreamAssumption DEF Worlds
<1>3. predicted = Replayed(view, pending)
  BY <1>1, <1>2, ReplayedNothing
<1>4. PendingIsSent
  BY <1>1, <1>2 DEF PendingIsSent
<1> QED
  BY <1>1, <1>2, <1>3, <1>4, InitStream DEF PredictInv

LEMMA PredictStep == PredictInv /\ [StreamNext]_streamVars => PredictInv'
<1> SUFFICES ASSUME PredictInv, [StreamNext]_streamVars
             PROVE  PredictInv'
  OBVIOUS
<1>0. StreamInv /\ StreamInv'
  BY StreamStep DEF PredictInv
<1>1. /\ world \in Worlds /\ world.last \in 0 .. SeqMax /\ world.pos \in Int
      /\ latest \in Frames /\ latest.seq \in 0 .. SeqMax /\ latest.move \in Int
      /\ SeqMax \in Nat
      /\ known \in Nat /\ pending \in Seq(Frames) /\ sent \in Seq(Frames)
  BY StreamAssumption DEF PredictInv, StreamInv, Worlds, Frames
\* The server's steps.
<1>2. ASSUME world' \in Worlds, world'.last >= world.last, mail' \subseteq mail \cup {world},
             UNCHANGED <<clientVars, sent, wrapped, known>>
      PROVE  PredictInv'
  <2>1. view \in Worlds /\ mail \subseteq Worlds /\ world'.last \in Int
        /\ known <= world.last /\ \A m \in mail : m.last <= world.last /\ m.last \in Int
    BY <1>2 DEF PredictInv, Worlds
  <2>2. known <= world'.last /\ \A m \in mail' : m.last <= world'.last
    BY <1>1, <1>2, <2>1
  <2>3. PendingIsSent' /\ (predicted = Replayed(view, pending))'
    BY <1>2 DEF PredictInv, PendingIsSent, clientVars
  <2> QED
    BY <1>0, <1>1, <1>2, <2>1, <2>2, <2>3 DEF PredictInv, clientVars
<1>3. CASE ServerTick
  <2> DEFINE w == Applied(world, latest)
  <2>1. w \in Worlds /\ w.last >= world.last /\ w.pos \in Int
    <3>1. Walked(world.pos, latest) \in Int
      BY <1>1 DEF Walked
    <3>2. CASE world.alive /\ latest.seq >= world.last
      <4> DEFINE pos == Walked(world.pos, latest)
      <4>1. w = [world EXCEPT !.last = latest.seq, !.pos = pos]
        BY <3>2 DEF Applied
      <4> HIDE DEF w, pos
      <4> QED
        BY <1>1, <3>1, <3>2, <4>1 DEF Worlds, pos
    <3>3. CASE ~(world.alive /\ latest.seq >= world.last)
      BY <1>1, <3>3 DEF Applied
    <3> QED
      BY <3>2, <3>3
  <2>2. PICK p \in Pushed(w.pos), falls \in BOOLEAN :
          world' = [w EXCEPT !.pos = p, !.alive = ~falls,
                             !.phase = IF falls THEN "over" ELSE "Live"]
    BY <1>3 DEF ServerTick
  <2>3. p \in Int
    BY <2>1 DEF Pushed, Positions
  <2> HIDE DEF w
  <2>4. world' \in Worlds /\ world'.last = w.last
    BY <2>1, <2>2, <2>3 DEF Worlds
  <2> QED
    BY <1>2, <1>3, <2>1, <2>4 DEF ServerTick, clientVars, historyVars
<1>4. CASE SetPhase
  <2>1. world' \in Worlds /\ world'.last = world.last
    BY <1>1, <1>4 DEF SetPhase, Worlds
  <2> QED
    BY <1>1, <1>2, <1>4, <2>1 DEF SetPhase, clientVars, historyVars
<1>5. CASE SendSnapshot \/ Lose \/ UNCHANGED streamVars \/ (\E f \in wire : TakeInput(f))
  BY <1>1, <1>2, <1>5 DEF SendSnapshot, Lose, LoseInput, LoseSnapshot, TakeInput,
                          streamVars, clientVars, historyVars
<1>6. ASSUME NEW move \in {-1, 1}, SendInput(move)
      PROVE  PredictInv'
  <2> DEFINE number == (seq + 1) % (SeqMax + 1)
             f == [seq |-> number, move |-> move]
  <2>1. /\ pending' = Append(pending, f) /\ predicted' = Predict(predicted, f, view.alive)
        /\ wrapped' = (wrapped \/ number = 0) /\ seq' = number
        /\ sent' = IF wrapped' THEN <<>> ELSE Append(sent, f)
        /\ UNCHANGED <<world, view, mail, known>>
    BY <1>6 DEF SendInput
  <2>2. number \in 0 .. SeqMax /\ f \in Frames /\ f.seq = number
    <3>1. seq \in 0 .. SeqMax
      BY <1>0 DEF StreamInv
    <3>2. number \in 0 .. SeqMax
      BY <1>1, <3>1
    <3> QED
      BY <3>2 DEF Frames
  <2> HIDE DEF number, f
  <2>3. predicted' = Replayed(view', pending') /\ pending' \in Seq(Frames)
    <3>1. view \in Worlds /\ predicted = Replayed(view, pending)
      BY DEF PredictInv
    <3> QED
      BY <1>1, <2>1, <2>2, <3>1, ReplayedAppend
  <2>4. PendingIsSent'
    <3> SUFFICES ASSUME ~wrapped'
                 PROVE  /\ Len(pending') = Len(sent') - known'
                        /\ \A k \in 1 .. Len(pending') : pending'[k] = sent'[known' + k]
                        /\ \A i \in 1 .. Len(sent') : sent'[i].seq = i
      BY DEF PendingIsSent
    <3>1. /\ sent' = Append(sent, f) /\ known' = known /\ seq' = Len(sent') /\ f.seq = seq'
      BY <1>0, <2>1, <2>2 DEF StreamInv, NumbersTell
    <3>2. /\ Len(pending) = Len(sent) - known /\ Len(pending) \in Nat /\ Len(sent) \in Nat
          /\ \A k \in 1 .. Len(pending) : pending[k] = sent[known + k]
          /\ \A i \in 1 .. Len(sent) : sent[i].seq = i
      BY <1>1, <2>1, LenProperties DEF PredictInv, PendingIsSent
    <3>3. /\ Len(sent') = Len(sent) + 1 /\ sent'[Len(sent) + 1] = f
          /\ \A i \in 1 .. Len(sent) : sent'[i] = sent[i]
      BY <1>1, <2>2, <3>1, AppendProperties
    <3>4. /\ Len(pending') = Len(pending) + 1 /\ pending'[Len(pending) + 1] = f
          /\ \A i \in 1 .. Len(pending) : pending'[i] = pending[i]
      BY <1>1, <2>1, <2>2, AppendProperties
    <3>5. ASSUME NEW k \in 1 .. Len(pending')
          PROVE  pending'[k] = sent'[known' + k]
      <4>1. CASE k = Len(pending) + 1
        <5>1. known + k = Len(sent) + 1
          BY <1>1, <3>2, <4>1
        <5> QED
          BY <3>1, <3>3, <3>4, <4>1, <5>1
      <4>2. CASE k # Len(pending) + 1
        <5>1. k \in 1 .. Len(pending) /\ known + k \in 1 .. Len(sent)
          BY <1>1, <3>2, <3>4, <4>2
        <5> QED
          BY <3>1, <3>2, <3>3, <3>4, <5>1
      <4> QED
        BY <4>1, <4>2
    <3>6. ASSUME NEW i \in 1 .. Len(sent')
          PROVE  sent'[i].seq = i
      <4>1. CASE i = Len(sent) + 1
        BY <3>1, <3>3, <4>1
      <4>2. CASE i # Len(sent) + 1
        <5>1. i \in 1 .. Len(sent)
          BY <3>2, <3>3, <4>2
        <5> QED
          BY <3>2, <3>3, <5>1
      <4> QED
        BY <4>1, <4>2
    <3>7. Len(pending') = Len(sent') - known'
      BY <1>1, <3>1, <3>2, <3>3, <3>4
    <3> QED
      BY <3>5, <3>6, <3>7
  <2> QED
    BY <1>0, <2>1, <2>3, <2>4 DEF PredictInv
<1>7. ASSUME NEW snapshot \in mail, ApplySnapshot(snapshot)
      PROVE  PredictInv'
  <2> DEFINE left == Retained(snapshot, pending)
             rest == Larger(snapshot.last, known) - known
  <2>1. /\ mail' \subseteq mail /\ view' = snapshot /\ pending' = left
        /\ predicted' = Replayed(snapshot, left) /\ known' = Larger(snapshot.last, known)
        /\ UNCHANGED <<world, sent, wrapped>>
    BY <1>7 DEF ApplySnapshot
  <2>2. snapshot \in Worlds /\ snapshot.last \in Nat /\ snapshot.last <= world.last
        /\ known <= world.last /\ \A m \in mail : m.last <= world.last /\ mail \subseteq Worlds
    BY <1>1 DEF PredictInv, Worlds
  <2>3. known' \in Nat /\ known' <= world.last /\ rest \in Nat /\ known' = known + rest
    BY <1>1, <2>1, <2>2 DEF Larger
  <2>4. left \in Seq(Frames)
    BY <1>1, <2>2, RetainedType
  <2> HIDE DEF rest
  <2>5. PendingIsSent'
    <3> SUFFICES ASSUME ~wrapped
                 PROVE  /\ Len(left) = Len(sent) - known'
                        /\ \A k \in 1 .. Len(left) : left[k] = sent[known' + k]
                        /\ \A i \in 1 .. Len(sent) : sent[i].seq = i
      BY <2>1 DEF PendingIsSent
    <3>1. /\ Len(pending) = Len(sent) - known /\ Len(pending) \in Nat /\ Len(sent) \in Nat
          /\ \A k \in 1 .. Len(pending) : pending[k] = sent[known + k]
          /\ \A i \in 1 .. Len(sent) : sent[i].seq = i
      BY <1>1, LenProperties DEF PredictInv, PendingIsSent
    <3>2. \A k \in 1 .. Len(pending) : pending[k].seq = known + k
      <4>1. \A k \in 1 .. Len(pending) : known + k \in 1 .. Len(sent)
        BY <1>1, <3>1
      <4> QED
        BY <3>1, <4>1
    <3>3. /\ Len(left) = Larger(Len(pending), rest) - rest
          /\ \A k \in 1 .. Len(left) : left[k] = pending[rest + k]
      BY <1>1, <2>2, <3>2, RetainedIsRest DEF rest
    <3>4. world.last <= Len(sent)
      BY <1>0, <1>1, <3>1 DEF StreamInv, NumbersTell, NewestInputWins
    <3> HIDE DEF left
    <3>5. rest <= Len(pending) /\ Len(left) = Len(pending) - rest /\ Len(left) \in Nat
      <4>1. rest <= Len(pending)
        BY <1>1, <2>3, <3>1, <3>4
      <4> QED
        BY <2>3, <3>1, <3>3, <4>1 DEF Larger
    <3>6. ASSUME NEW k \in 1 .. Len(left)
          PROVE  left[k] = sent[known' + k]
      <4>1. k \in Int /\ 1 <= k /\ k <= Len(pending) - rest
        BY <3>5
      <4>2. rest + k \in 1 .. Len(pending)
        BY <2>3, <3>1, <4>1
      <4>3. known + (rest + k) = known' + k
        BY <1>1, <2>3, <4>1
      <4> QED
        BY <3>1, <3>3, <4>2, <4>3
    <3>7. Len(left) = Len(sent) - known'
      BY <1>1, <2>3, <3>1, <3>5
    <3> QED
      BY <3>1, <3>6, <3>7
  <2> HIDE DEF left
  <2> QED
    BY <1>0, <1>1, <2>1, <2>2, <2>3, <2>4, <2>5 DEF PredictInv
<1> QED
  BY <1>3, <1>4, <1>5, <1>6, <1>7 DEF StreamNext

LEMMA PredictInvReplays == PredictInv => PredictionReplays
<1> SUFFICES ASSUME PredictInv, ~wrapped
             PROVE  predicted = Replayed(view, SubSeq(sent, known + 1, Len(sent)))
  BY DEF PredictionReplays
<1>1. /\ sent \in Seq(Frames) /\ pending \in Seq(Frames) /\ known \in Nat
      /\ Len(pending) = Len(sent) - known /\ Len(pending) \in Nat /\ Len(sent) \in Nat
      /\ \A k \in 1 .. Len(pending) : pending[k] = sent[known + k]
      /\ predicted = Replayed(view, pending)
  BY LenProperties DEF PredictInv, StreamInv, PendingIsSent
<1> DEFINE tail == SubSeq(sent, known + 1, Len(sent))
<1>2. /\ tail \in Seq(Frames) /\ Len(tail) = Len(pending)
      /\ \A k \in 1 .. Len(tail) : tail[k] = sent[known + k]
  <2>1. \A i \in (known + 1) .. Len(sent) : sent[i] \in Frames
    BY <1>1
  <2>2. known + 1 \in Int /\ Len(sent) \in Int
    BY <1>1
  <2>3. /\ tail \in Seq(Frames)
        /\ Len(tail) = IF known + 1 <= Len(sent) THEN Len(sent) - (known + 1) + 1 ELSE 0
        /\ \A k \in 1 .. Len(sent) - (known + 1) + 1 : tail[k] = sent[(known + 1) + k - 1]
    BY <2>1, <2>2, SubSeqProperties
  <2> HIDE DEF tail
  <2>4. Len(tail) = Len(pending) /\ Len(sent) - (known + 1) + 1 = Len(pending)
    BY <1>1, <2>3
  <2>5. ASSUME NEW k \in 1 .. Len(tail)
        PROVE  tail[k] = sent[known + k]
    <3>1. k \in 1 .. Len(sent) - (known + 1) + 1 /\ (known + 1) + k - 1 = known + k
      BY <1>1, <2>4
    <3> QED
      BY <2>3, <3>1
  <2> QED
    BY <2>3, <2>4, <2>5
<1>3. tail = pending
  <2> HIDE DEF tail
  <2> QED
    BY <1>1, <1>2, SeqEqual
<1> QED
  BY <1>1, <1>3

\* Whatever snapshots are lost or overtaken, the prediction is the position of
\* the snapshot applied last, moved by the inputs that no snapshot has
\* confirmed, each once and in order (push, reconcile).
THEOREM PredictionCorrect == StreamSpec => []PredictionReplays
<1> QED
  BY InitPredict, PredictStep, PredictInvReplays, PTL DEF StreamSpec
=============================================================================
