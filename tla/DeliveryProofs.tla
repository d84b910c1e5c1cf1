--------------------------- MODULE DeliveryProofs ---------------------------
(***************************************************************************)
(* Every order of the server is taken up once, and a client that leaves at *)
(* the end has done with all of them, for every value of the constants and *)
(* every fault.                                                            *)
(*                                                                         *)
(* Everything rests on one equality: the orders on the channel to a client *)
(* are the ones that were sent to it and that it has not taken up, each of *)
(* them once.                                                              *)
(***************************************************************************)
EXTENDS MoneyProofs

Orders == {"offer", "release", "cancel"}

\* The operation an order asks for.
OpOf(kind) ==
  CASE kind = "offer"   -> "fund" [] kind = "release" -> "settle"
    [] kind = "cancel"  -> "cancel"

Key(message) == <<message.kind, message.r>>

OrdersIn(q) ==
  {Key(q[i]) : i \in {j \in DOMAIN q : q[j].kind \in Orders}}

Once(q) ==
  \A i, j \in DOMAIN q :
    q[i].kind \in Orders /\ q[j].kind \in Orders /\ Key(q[i]) = Key(q[j])
      => i = j

\* A worker was started on the order, or the guard refused it.
TakenUp(kind, r) ==
  \/ work[OpOf(kind)][r] # "none"
  \/ kind = "release" /\ \E x \in refused : x[1] = r

Untaken(s) == {o \in sent : Recipient(o[1], o[2]) = s /\ ~TakenUp(o[1], o[2])}

OnceInv ==
  /\ \A s \in Slots :
       /\ Once(down[s])
       /\ OrdersIn(down[s]) = IF s \in connected THEN Untaken(s) ELSE {}
  /\ \A kind \in Orders, r \in Ids : TakenUp(kind, r) => <<kind, r>> \in sent
  /\ sent # {} => issued

-----------------------------------------------------------------------------
(* Sequences of messages                                                   *)

\* A set read as a sequence yields each member once.
LEMMA SeqOfSetOnce ==
  ASSUME NEW S, IsFiniteSet(S)
  PROVE  /\ SetToSeq(S) \in [1 .. Cardinality(S) -> S]
         /\ \A i, j \in 1 .. Cardinality(S) : SetToSeq(S)[i] = SetToSeq(S)[j] => i = j
         /\ \A x \in S : \E i \in 1 .. Cardinality(S) : SetToSeq(S)[i] = x
<1> DEFINE n == Cardinality(S)
           f == SetToSeq(S)
<1>1. ExistsBijection(1 .. n, S) /\ n \in Nat
  BY FS_CardinalityType
<1>2. \E g \in [1 .. n -> S] : IsInjective(g)
  BY <1>1 DEF ExistsBijection, Bijection, Injection, IsInjective
<1>3. f \in [1 .. n -> S] /\ IsInjective(f)
  BY <1>2 DEF SetToSeq
<1>4. \A i, j \in 1 .. n : f[i] = f[j] => i = j
  BY <1>3 DEF IsInjective
<1>5. f \in Surjection(1 .. n, S)
  <2>1. f \in Injection(1 .. n, S)
    BY <1>3 DEF Injection
  <2>2. Cardinality(1 .. n) = n
    BY <1>1, FS_Interval
  <2> HIDE DEF f, n
  <2> QED
    BY <2>1, <2>2, FS_Injection DEF n
<1> QED
  BY <1>3, <1>4, <1>5 DEF Surjection

LEMMA OrdersConcat ==
  ASSUME NEW D, NEW q \in Seq(D), NEW p \in Seq(D)
  PROVE  /\ OrdersIn(q \o p) = OrdersIn(q) \cup OrdersIn(p)
         /\ Once(q) /\ Once(p) /\ OrdersIn(q) \cap OrdersIn(p) = {} => Once(q \o p)
<1> DEFINE c == q \o p
<1>1. /\ Len(q) \in Nat /\ Len(p) \in Nat
      /\ DOMAIN q = 1 .. Len(q) /\ DOMAIN p = 1 .. Len(p)
      /\ DOMAIN c = 1 .. Len(q) + Len(p)
      /\ \A i \in 1 .. Len(q) + Len(p) :
           c[i] = IF i <= Len(q) THEN q[i] ELSE p[i - Len(q)]
  BY ConcatProperties, LenProperties
<1> HIDE DEF c
<1>2. \A i \in DOMAIN c : \/ i \in DOMAIN q /\ c[i] = q[i]
                          \/ i - Len(q) \in DOMAIN p /\ c[i] = p[i - Len(q)] /\ i > Len(q)
  BY <1>1
<1>3. \A i \in DOMAIN q : i \in DOMAIN c /\ c[i] = q[i]
  BY <1>1
<1>4. \A i \in DOMAIN p : i + Len(q) \in DOMAIN c /\ c[i + Len(q)] = p[i]
  BY <1>1
<1>5. OrdersIn(c) \subseteq OrdersIn(q) \cup OrdersIn(p)
  BY <1>2 DEF OrdersIn
<1>6. OrdersIn(q) \subseteq OrdersIn(c)
  BY <1>3 DEF OrdersIn
<1>7. OrdersIn(p) \subseteq OrdersIn(c)
  <2> SUFFICES ASSUME NEW i \in DOMAIN p, p[i].kind \in Orders
               PROVE  Key(p[i]) \in OrdersIn(c)
    BY DEF OrdersIn
  <2> QED
    BY <1>4 DEF OrdersIn
<1>8. ASSUME Once(q), Once(p), OrdersIn(q) \cap OrdersIn(p) = {}
      PROVE  Once(c)
  <2> SUFFICES ASSUME NEW i \in DOMAIN c, NEW j \in DOMAIN c,
                      c[i].kind \in Orders, c[j].kind \in Orders,
                      Key(c[i]) = Key(c[j])
               PROVE  i = j
    BY DEF Once
  <2>1. \A k \in DOMAIN q, l \in DOMAIN p :
          q[k].kind \in Orders /\ p[l].kind \in Orders => Key(q[k]) # Key(p[l])
    BY <1>8 DEF OrdersIn
  <2>2. CASE i \in DOMAIN q /\ j \in DOMAIN q
    BY <1>3, <1>8, <2>2 DEF Once
  <2>3. CASE i \notin DOMAIN q /\ j \notin DOMAIN q
    <3>1. i - Len(q) = j - Len(q)
      BY <1>2, <1>8, <2>3 DEF Once
    <3> QED
      BY <1>1, <3>1
  <2>4. CASE i \in DOMAIN q /\ j \notin DOMAIN q
    BY <1>2, <1>3, <2>1, <2>4
  <2>5. CASE i \notin DOMAIN q /\ j \in DOMAIN q
    BY <1>2, <1>3, <2>1, <2>5
  <2> QED
    BY <2>2, <2>3, <2>4, <2>5
<1> QED
  BY <1>5, <1>6, <1>7, <1>8 DEF c

\* The first message is an order, and then there is no other like it, or it is
\* none.
LEMMA OrdersTail ==
  ASSUME NEW D, NEW q \in Seq(D), q # <<>>, Once(q)
  PROVE  /\ Once(Tail(q))
         /\ Head(q).kind \in Orders
              => /\ Key(Head(q)) \in OrdersIn(q)
                 /\ OrdersIn(Tail(q)) = OrdersIn(q) \ {Key(Head(q))}
         /\ Head(q).kind \notin Orders => OrdersIn(Tail(q)) = OrdersIn(q)
<1> DEFINE t == Tail(q)
           h == Head(q)
<1>1. /\ Len(q) \in Nat /\ DOMAIN q = 1 .. Len(q) /\ Len(q) > 0
      /\ DOMAIN t = 1 .. Len(q) - 1
      /\ \A i \in DOMAIN t : t[i] = q[i + 1]
      /\ h = q[1]
  BY HeadTailProperties, LenProperties, EmptySeq
<1> HIDE DEF t, h
<1>2. \A i \in DOMAIN t : i + 1 \in DOMAIN q /\ t[i] = q[i + 1] /\ i + 1 # 1
  BY <1>1
<1>3. \A i \in DOMAIN q : i = 1 \/ (i - 1 \in DOMAIN t /\ t[i - 1] = q[i])
  BY <1>1
<1>4. 1 \in DOMAIN q
  BY <1>1
<1>5. Once(t)
  <2> SUFFICES ASSUME NEW i \in DOMAIN t, NEW j \in DOMAIN t,
                      t[i].kind \in Orders, t[j].kind \in Orders,
                      Key(t[i]) = Key(t[j])
               PROVE  i = j
    BY DEF Once
  <2>1. i + 1 = j + 1
    BY <1>2 DEF Once
  <2> QED
    BY <1>1, <2>1
<1>6. OrdersIn(t) \subseteq OrdersIn(q)
  <2> SUFFICES ASSUME NEW i \in DOMAIN t, t[i].kind \in Orders
               PROVE  Key(t[i]) \in OrdersIn(q)
    BY DEF OrdersIn
  <2> QED
    BY <1>2 DEF OrdersIn
<1>7. \A i \in DOMAIN q : q[i].kind \in Orders =>
        i = 1 \/ Key(q[i]) \in OrdersIn(t)
  <2> SUFFICES ASSUME NEW i \in DOMAIN q, q[i].kind \in Orders, i # 1
               PROVE  Key(q[i]) \in OrdersIn(t)
    OBVIOUS
  <2>1. i - 1 \in DOMAIN t /\ t[i - 1] = q[i]
    BY <1>3
  <2> QED
    BY <2>1 DEF OrdersIn
<1>8. ASSUME h.kind \in Orders
      PROVE  /\ Key(h) \in OrdersIn(q)
             /\ OrdersIn(t) = OrdersIn(q) \ {Key(h)}
  <2>1. Key(h) \in OrdersIn(q)
    BY <1>1, <1>4, <1>8 DEF OrdersIn
  <2>2. Key(h) \notin OrdersIn(t)
    BY <1>1, <1>2, <1>4, <1>8 DEF OrdersIn, Once
  <2>3. OrdersIn(q) \subseteq OrdersIn(t) \cup {Key(h)}
    BY <1>1, <1>7 DEF OrdersIn
  <2> QED
    BY <1>6, <2>1, <2>2, <2>3
<1>9. ASSUME h.kind \notin Orders
      PROVE  OrdersIn(q) \subseteq OrdersIn(t)
  BY <1>1, <1>7, <1>9 DEF OrdersIn
<1> QED
  BY <1>5, <1>6, <1>8, <1>9 DEF t, h

-----------------------------------------------------------------------------
(* What the server sends                                                   *)

\* The loop sends to seated clients only, under the terms, and after its
\* verdict nothing but offers.
SendsWell ==
  /\ sent \subseteq sent'
  /\ \A o \in sent' \ sent : /\ Recipient(o[1], o[2]) \in connected
                             /\ o[1] = "offer" \/ verdicts = <<>>
  /\ sent' # {} => issued'
  /\ verdicts' # verdicts => verdicts' # <<>>

LEMMA SendingWell ==
  ASSUME NEW kind, NEW R, Sending(kind, R)
  PROVE  /\ sent \subseteq sent'
         /\ \A o \in sent' \ sent : /\ Recipient(o[1], o[2]) \in connected
                                    /\ o[1] = kind
<1>1. ASSUME NEW o \in sent', o \notin sent
      PROVE  \E q \in R : Recipient(kind, q) \in connected /\ o = <<kind, q>>
  BY <1>1 DEF Sending
<1> QED
  BY <1>1 DEF Sending

LEMMA ServerSends ==
  ASSUME VerdictInv, PlaySound, sent # {} => issued, [ServerNext]_serverVars
  PROVE  SendsWell
<1>1. ASSUME UNCHANGED <<sent, verdicts>>, issued => issued'
      PROVE  SendsWell
  BY <1>1 DEF SendsWell
<1>2. verdicts \in Seq(Slots) /\ (verdicts # <<>> => ended)
  BY EmptySeq DEF VerdictInv, OneVerdict
<1>3. ASSUME NEW winner, EndMatch(winner), ~ended, issued, UNCHANGED issued
      PROVE  SendsWell
  <2>1. verdicts = <<>>
    BY <1>2, <1>3
  <2>2. verdicts' = Append(verdicts, winner)
    BY <1>3 DEF EndMatch
  <2>3. Sending("cancel", Unused)
    BY <1>3 DEF EndMatch
  <2>4. verdicts' # <<>>
    BY <2>1, <2>2
  <2> QED
    BY <1>3, <2>1, <2>3, <2>4, SendingWell DEF SendsWell
<1>4. CASE Turn
  <2>1. CASE \/ Drained \/ IssueTerms \/ NoForfeit \/ StartMatch \/ NoStart
             \/ Ticked \/ Exit
    BY <1>1, <2>1 DEF Drained, IssueTerms, NoForfeit, StartMatch, NoStart,
                      Ticked, Exit, serverHistory, matchVars
  <2>2. CASE Forfeit
    BY <1>3, <2>2 DEF Forfeit, ForfeitDue
  <2>3. CASE HandleDeath
    BY <1>3, <2>3 DEF HandleDeath, VerdictInv, PlaySound
  <2>4. CASE HandleDamage
    <3>1. /\ \E R : Sending("release", R)
          /\ UNCHANGED <<verdicts, issued>>
          /\ ~ended /\ issued
      BY <2>4 DEF HandleDamage, VerdictInv, PlaySound, matchVars
    <3>2. verdicts = <<>>
      BY <1>2, <3>1
    <3> QED
      BY <3>1, <3>2, SendingWell DEF SendsWell
  <2> QED
    BY <1>4, <2>1, <2>2, <2>3, <2>4 DEF Turn
<1>5. CASE Fight
  BY <1>1, <1>5 DEF Fight, Tick, serverHistory, matchVars
<1>6. ASSUME NEW s \in Slots, Client(s)
      PROVE  SendsWell
  <2>1. CASE Connect(s) \/ Disconnect(s) \/ AcceptTerms(s)
    BY <1>1, <2>1 DEF Connect, Disconnect, AcceptTerms, serverHistory, matchVars
  <2>2. ASSUME NEW ref \in Refs, NEW inv \in Invoices, ReceiveOffer(s, ref, inv)
        PROVE  SendsWell
    <3>1. UNCHANGED <<verdicts, issued>> /\ issued
      BY <2>2 DEF ReceiveOffer, MayReceive, matchVars
    <3>2. CASE UNCHANGED sent
      BY <1>1, <3>1, <3>2
    <3>3. CASE Sending("offer", {ref.id})
      BY <3>1, <3>3, SendingWell DEF SendsWell
    <3> QED
      BY <2>2, <3>2, <3>3 DEF ReceiveOffer
  <2>3. ASSUME NEW ref \in Refs, NEW stage \in Stages, ReceiveReport(s, ref, stage)
        PROVE  SendsWell
    BY <1>1, <2>3 DEF ReceiveReport, loopVars, serverHistory, matchVars
  <2> QED
    BY <1>6, <2>1, <2>2, <2>3 DEF Client
<1>7. CASE \E t \in Timers : Elapse(t)
  BY <1>1, <1>7 DEF Elapse, serverHistory, matchVars
<1>8. CASE UNCHANGED serverVars
  <2>1. UNCHANGED <<sent, verdicts, issued>>
    BY <1>8 DEF serverVars, loopVars, serverHistory, matchVars
  <2> QED
    BY <1>1, <2>1
<1> QED
  BY <1>4, <1>5, <1>6, <1>7, <1>8 DEF ServerNext

\* What a step tells a client: the orders it sent to it, each once, and then
\* perhaps the end of the match.
LEMMA ToldOnce ==
  ASSUME ServerInv', LoopTypes', NEW s \in Slots
  PROVE  /\ Once(Told(s))
         /\ OrdersIn(Told(s)) = {o \in sent' \ sent : Recipient(o[1], o[2]) = s}
         /\ \A i, j \in DOMAIN Told(s) :
              Told(s)[i].kind = "ended" =>
                /\ verdicts' # verdicts
                /\ i < j => Told(s)[j].kind \notin Orders
<1> DEFINE N == {m \in sent' \ sent : Recipient(m[1], m[2]) = s}
           news == SetToSeq(N)
           n == Cardinality(N)
           first == IF issued' /\ ~issued THEN <<Plain("welcome")>> ELSE <<>>
           mid == [i \in DOMAIN news |-> Msg(news[i][1], news[i][2])]
           last == IF verdicts' # verdicts THEN <<Plain("ended")>> ELSE <<>>
           D == {Plain("welcome"), Plain("ended")}
                  \cup {Msg(k, r) : k \in Orders, r \in Ids}
<1>1. N \subseteq Orders \X Ids
  BY DEF LoopTypes, Orders
<1>2. IsFiniteSet(N) /\ n \in Nat
  <2>1. IsFiniteSet(Orders)
    <3>1. IsFiniteSet({"offer"}) /\ IsFiniteSet({"release"}) /\ IsFiniteSet({"cancel"})
      BY FS_Singleton
    <3>2. IsFiniteSet({"offer"} \cup {"release"})
      BY <3>1, FS_Union
    <3>3. IsFiniteSet(({"offer"} \cup {"release"}) \cup {"cancel"})
      BY <3>1, <3>2, FS_Union
    <3>4. Orders = ({"offer"} \cup {"release"}) \cup {"cancel"}
      BY DEF Orders
    <3> QED
      BY <3>3, <3>4
  <2>2. IsFiniteSet(Orders \X Ids)
    BY <2>1, IdsFinite, FS_Product
  <2> QED
    BY <1>1, <2>2, FS_Subset, FS_CardinalityType
<1>3. /\ news \in [1 .. n -> N]
      /\ \A i, j \in 1 .. n : news[i] = news[j] => i = j
      /\ \A x \in N : \E i \in 1 .. n : news[i] = x
  BY <1>2, SeqOfSetOnce
<1>4. \A x \in N : x = <<x[1], x[2]>> /\ x[1] \in Orders /\ x[2] \in Ids
  BY <1>1
<1> HIDE DEF N, news, n
<1>5. /\ mid \in [1 .. n -> D]
      /\ \A i \in 1 .. n : /\ Key(mid[i]) = news[i]
                           /\ mid[i].kind \in Orders
  <2>1. ASSUME NEW i \in 1 .. n
        PROVE  /\ mid[i] = Msg(news[i][1], news[i][2])
               /\ mid[i] \in D
               /\ Key(mid[i]) = news[i]
               /\ mid[i].kind \in Orders
    <3>1. news[i] \in N /\ DOMAIN news = 1 .. n
      BY <1>3
    <3>2. mid[i] = Msg(news[i][1], news[i][2])
      BY <3>1
    <3>3. news[i] = <<news[i][1], news[i][2]>> /\ news[i][1] \in Orders /\ news[i][2] \in Ids
      BY <1>4, <3>1
    <3> HIDE DEF mid
    <3> QED
      BY <3>2, <3>3 DEF Msg, Key
  <2>2. DOMAIN mid = 1 .. n
    BY <1>3
  <2>3. mid = [i \in 1 .. n |-> mid[i]]
    BY <2>2
  <2> HIDE DEF mid, D
  <2> QED
    BY <2>1, <2>3
<1>6. /\ mid \in Seq(D)
      /\ Len(mid) = n /\ DOMAIN mid = 1 .. n
  <2> HIDE DEF mid, D
  <2> QED
    BY <1>2, <1>5
<1>7. Once(mid) /\ OrdersIn(mid) = N
  <2>1. Once(mid)
    <3> HIDE DEF mid
    <3> SUFFICES ASSUME NEW i \in 1 .. n, NEW j \in 1 .. n,
                        Key(mid[i]) = Key(mid[j])
                 PROVE  i = j
      BY <1>6 DEF Once
    <3>1. news[i] = news[j]
      BY <1>5
    <3> QED
      BY <1>3, <3>1
  <2>2. OrdersIn(mid) = N
    <3> HIDE DEF mid
    <3>1. OrdersIn(mid) \subseteq N
      <4> SUFFICES ASSUME NEW i \in DOMAIN mid
                   PROVE  Key(mid[i]) \in N
        BY DEF OrdersIn
      <4> QED
        BY <1>3, <1>5, <1>6
    <3>2. N \subseteq OrdersIn(mid)
      <4> SUFFICES ASSUME NEW x \in N
                   PROVE  x \in OrdersIn(mid)
        OBVIOUS
      <4>1. PICK i \in 1 .. n : news[i] = x
        BY <1>3
      <4>2. i \in DOMAIN mid /\ mid[i].kind \in Orders
        BY <1>5, <1>6
      <4>3. Key(mid[i]) \in OrdersIn(mid)
        BY <4>2 DEF OrdersIn
      <4>4. Key(mid[i]) = x
        BY <1>5, <4>1
      <4> QED
        BY <4>3, <4>4
    <3> QED
      BY <3>1, <3>2
  <2> QED
    BY <2>1, <2>2
<1>8. /\ first \in Seq(D) /\ OrdersIn(first) = {} /\ Once(first)
      /\ \A i \in DOMAIN first : first[i].kind = "welcome"
      /\ last \in Seq(D) /\ OrdersIn(last) = {} /\ Once(last) /\ Len(last) \in 0 .. 1
      /\ Len(last) = 1 => verdicts' # verdicts
      /\ \A i \in DOMAIN last : last[i].kind = "ended"
  <2>1. /\ DOMAIN <<>> = {} /\ <<>> \in Seq(D) /\ Len(<<>>) = 0
        /\ OrdersIn(<<>>) = {} /\ Once(<<>>)
    BY EmptySeq DEF OrdersIn, Once
  <2>2. ASSUME NEW kind \in {"welcome", "ended"}
        PROVE  /\ DOMAIN <<Plain(kind)>> = {1} /\ <<Plain(kind)>> \in Seq(D)
               /\ Len(<<Plain(kind)>>) = 1
               /\ <<Plain(kind)>>[1].kind = kind
               /\ OrdersIn(<<Plain(kind)>>) = {} /\ Once(<<Plain(kind)>>)
    <3> DEFINE m == Plain(kind)
    <3>1. m \in D /\ m.kind = kind /\ kind \notin Orders
      BY DEF Plain, Msg, Orders
    <3> HIDE DEF m, D
    <3>2. <<m>> \in Seq(D) /\ DOMAIN <<m>> = {1} /\ <<m>>[1] = m /\ Len(<<m>>) = 1
      BY <3>1
    <3>3. OrdersIn(<<m>>) = {} /\ Once(<<m>>)
      BY <3>1, <3>2 DEF OrdersIn, Once
    <3> QED
      BY <3>1, <3>2, <3>3 DEF m
  <2> HIDE DEF D
  <2>3. /\ first \in Seq(D) /\ OrdersIn(first) = {} /\ Once(first)
        /\ \A i \in DOMAIN first : first[i].kind = "welcome"
    <3>1. first = <<Plain("welcome")>> \/ first = <<>>
      OBVIOUS
    <3> HIDE DEF first
    <3> QED
      BY <2>1, <2>2, <3>1
  <2>4. /\ last \in Seq(D) /\ OrdersIn(last) = {} /\ Once(last) /\ Len(last) \in 0 .. 1
        /\ Len(last) = 1 => verdicts' # verdicts
        /\ \A i \in DOMAIN last : last[i].kind = "ended"
    <3>1. CASE verdicts' # verdicts
      <4>1. last = <<Plain("ended")>>
        BY <3>1
      <4> HIDE DEF last
      <4>2. "ended" \in {"welcome", "ended"}
        OBVIOUS
      <4>3. /\ DOMAIN last = {1} /\ last \in Seq(D) /\ Len(last) = 1
            /\ last[1].kind = "ended" /\ OrdersIn(last) = {} /\ Once(last)
        BY <2>2, <4>1, <4>2
      <4> QED
        BY <3>1, <4>3
    <3>2. CASE verdicts' = verdicts
      <4>1. last = <<>>
        BY <3>2
      <4> HIDE DEF last
      <4>2. Len(last) = 0
        BY <2>1, <4>1
      <4> QED
        BY <2>1, <4>1, <4>2
    <3> QED
      BY <3>1, <3>2
  <2> QED
    BY <2>3, <2>4
<1>9. Told(s) = (first \o mid) \o last
  BY DEF Told, news, N
<1> HIDE DEF first, mid, last, D
<1> DEFINE fm == first \o mid
<1>10. /\ fm \in Seq(D) /\ Once(fm) /\ OrdersIn(fm) = N
  <2>1. OrdersIn(first) \cap OrdersIn(mid) = {} /\ OrdersIn(first) \cup N = N
    BY <1>8
  <2>2. first \in Seq(D) /\ mid \in Seq(D)
    BY <1>6, <1>8
  <2>3. /\ OrdersIn(first \o mid) = OrdersIn(first) \cup OrdersIn(mid)
        /\ Once(first \o mid)
    <3>1. Once(first) /\ Once(mid) /\ OrdersIn(first) \cap OrdersIn(mid) = {}
      BY <1>7, <1>8, <2>1
    <3> QED
      BY <2>2, <3>1, OrdersConcat
  <2>4. first \o mid \in Seq(D)
    BY <2>2, ConcatProperties
  <2> QED
    BY <1>7, <2>1, <2>3, <2>4
<1>11. \A i \in DOMAIN fm : fm[i].kind # "ended"
  <2>1. \A i \in DOMAIN fm : \/ i \in DOMAIN first /\ fm[i] = first[i]
                             \/ i - Len(first) \in DOMAIN mid /\ fm[i] = mid[i - Len(first)]
    BY <1>6, <1>8, ConcatProperties, LenProperties
  <2>2. "ended" \notin Orders
    BY DEF Orders
  <2> HIDE DEF fm
  <2> QED
    BY <1>5, <1>6, <1>8, <2>1, <2>2
<1> HIDE DEF fm
<1>12. /\ Once(fm \o last) /\ OrdersIn(fm \o last) = N
  <2>1. OrdersIn(fm) \cap OrdersIn(last) = {} /\ N \cup OrdersIn(last) = N
    BY <1>8
  <2>2. /\ OrdersIn(fm \o last) = OrdersIn(fm) \cup OrdersIn(last)
        /\ Once(fm \o last)
    <3>1. /\ Once(fm) /\ Once(last) /\ OrdersIn(fm) \cap OrdersIn(last) = {}
          /\ fm \in Seq(D) /\ last \in Seq(D)
      BY <1>8, <1>10, <2>1
    <3> QED
      BY <3>1, OrdersConcat
  <2> QED
    BY <1>10, <2>1, <2>2
<1>13. \A i, j \in DOMAIN (fm \o last) :
         (fm \o last)[i].kind = "ended" =>
           verdicts' # verdicts /\ ~(i < j)
  <2> DEFINE c == fm \o last
  <2>1. /\ DOMAIN c = 1 .. Len(fm) + Len(last) /\ Len(fm) \in Nat
        /\ DOMAIN fm = 1 .. Len(fm) /\ DOMAIN last = 1 .. Len(last)
        /\ \A i \in 1 .. Len(fm) + Len(last) :
             c[i] = IF i <= Len(fm) THEN fm[i] ELSE last[i - Len(fm)]
    BY <1>8, <1>10, ConcatProperties, LenProperties
  <2> HIDE DEF c
  <2> SUFFICES ASSUME NEW i \in DOMAIN c, NEW j \in DOMAIN c, c[i].kind = "ended"
               PROVE  verdicts' # verdicts /\ ~(i < j)
    BY DEF c
  <2>2. ~(i <= Len(fm))
    BY <1>11, <2>1
  <2>3. Len(last) = 1 /\ i = Len(fm) + 1
    BY <1>8, <2>1, <2>2
  <2> QED
    BY <1>8, <2>1, <2>3
<1> QED
  BY <1>9, <1>12, <1>13 DEF fm, N

-----------------------------------------------------------------------------
(* The channel to a client                                                 *)

LEMMA InitOnce == MatchInit => OnceInv
<1> SUFFICES ASSUME MatchInit
             PROVE  OnceInv
  OBVIOUS
<1>1. OrdersIn(<<>>) = {} /\ Once(<<>>)
  BY DEF OrdersIn, Once
<1>2. sent = {} /\ connected = {} /\ refused = {} /\ down = [s \in Slots |-> <<>>]
  BY DEF MatchInit, ServerInit
<1>3. \A kind \in Orders, r \in Ids : ~TakenUp(kind, r)
  <2>1. work = [op \in Ops |-> [r \in Ids |-> "none"]]
    BY MatchAssumption DEF MatchInit, AdapterInit
  <2>2. \A kind \in Orders : OpOf(kind) \in Ops
    BY DEF Orders, OpOf, Ops
  <2> QED
    BY <1>2, <2>1, <2>2 DEF TakenUp
<1> QED
  BY <1>1, <1>2, <1>3 DEF OnceInv

\* The server speaks: what it sends joins what is under way.
LEMMA TellingOnce ==
  ASSUME OnceInv, LoopTypes, ServerInv', LoopTypes', ChannelsSound,
         DownMessages \subseteq DownMessages', Telling, SendsWell,
         UNCHANGED <<work, refused, connected>>
  PROVE  OnceInv'
<1>1. \A k \in Orders, r \in Ids : TakenUp(k, r)' <=> TakenUp(k, r)
  BY DEF TakenUp
<1>2. \A o \in sent' : o[1] \in Orders /\ o[2] \in Ids /\ o = <<o[1], o[2]>>
  BY DEF LoopTypes, Orders
<1>3. \A o \in sent' \ sent : ~TakenUp(o[1], o[2])
  BY <1>2 DEF OnceInv
<1>4. ASSUME NEW s \in Slots
      PROVE  /\ Once(down'[s])
             /\ OrdersIn(down'[s]) = IF s \in connected' THEN Untaken(s)' ELSE {}
  <2>1. CASE s \in connected
    <3> DEFINE N == {o \in sent' \ sent : Recipient(o[1], o[2]) = s}
    <3>1. down'[s] = down[s] \o Told(s)
      BY <2>1 DEF Telling
    <3>2. /\ down[s] \in Seq(DownMessages') /\ Told(s) \in Seq(DownMessages')
      BY ToldSound, SeqMonotonic DEF ChannelsSound
    <3>3. Once(down[s]) /\ OrdersIn(down[s]) = Untaken(s)
      BY <2>1 DEF OnceInv
    <3>4. Once(Told(s)) /\ OrdersIn(Told(s)) = N
      BY ToldOnce
    <3>5. OrdersIn(down[s]) \cap OrdersIn(Told(s)) = {}
      BY <3>3, <3>4 DEF Untaken
    <3>6. /\ Once(down[s] \o Told(s))
          /\ OrdersIn(down[s] \o Told(s)) = OrdersIn(down[s]) \cup OrdersIn(Told(s))
      <4> HIDE DEF N
      <4>1. Once(down[s]) /\ Once(Told(s))
        BY <3>3, <3>4
      <4> QED
        BY <3>2, <3>5, <4>1, OrdersConcat
    <3>7. Untaken(s)' = Untaken(s) \cup N
      <4>1. \A o : o \in Untaken(s)' <=>
              o \in sent' /\ Recipient(o[1], o[2]) = s /\ ~TakenUp(o[1], o[2])'
        BY DEF Untaken
      <4>2. \A o : o \in Untaken(s)' <=>
              o \in sent' /\ Recipient(o[1], o[2]) = s /\ ~TakenUp(o[1], o[2])
        BY <1>1, <1>2, <4>1
      <4>3. \A o : o \in Untaken(s) <=>
              o \in sent /\ Recipient(o[1], o[2]) = s /\ ~TakenUp(o[1], o[2])
        BY DEF Untaken
      <4>4. sent \subseteq sent'
        BY DEF SendsWell
      <4> QED
        BY <1>3, <4>2, <4>3, <4>4
    <3> QED
      BY <2>1, <3>1, <3>3, <3>4, <3>6, <3>7
  <2>2. CASE s \notin connected
    <3>1. down'[s] = <<>>
      BY <2>2 DEF Telling
    <3>2. Once(<<>>) /\ OrdersIn(<<>>) = {}
      BY DEF Once, OrdersIn
    <3> QED
      BY <2>2, <3>1, <3>2
  <2> QED
    BY <2>1, <2>2
<1>5. \A k \in Orders, r \in Ids : TakenUp(k, r)' => <<k, r>> \in sent'
  BY <1>1 DEF OnceInv, SendsWell
<1>6. (sent # {} => issued)'
  BY DEF SendsWell
<1> QED
  BY <1>4, <1>5, <1>6 DEF OnceInv

\* A step that neither sends, reads nor takes up an order.
LEMMA QuietOnce ==
  ASSUME OnceInv, LoopTypes, UNCHANGED <<sent, issued, connected>>,
         \A k \in Orders, r \in Ids : TakenUp(k, r)' <=> TakenUp(k, r),
         \A s \in Slots : Once(down[s])' /\ OrdersIn(down[s])' = OrdersIn(down[s])
  PROVE  OnceInv'
<1>1. \A o \in sent : o[1] \in Orders /\ o[2] \in Ids
  BY DEF LoopTypes, Orders
<1>2. \A s \in Slots : Untaken(s)' = Untaken(s)
  BY <1>1 DEF Untaken
<1> QED
  BY <1>2 DEF OnceInv

\* An order a client reads was sent to it, and it has not taken it up before.
LEMMA OrderRead ==
  ASSUME OnceInv, LoopTypes, ChannelsSound,
         NEW s \in Slots, NEW kind \in Orders, Reads(s, kind)
  PROVE  /\ Head(down[s]).r \in Ids
         /\ <<kind, Head(down[s]).r>> \in sent
         /\ Recipient(kind, Head(down[s]).r) = s
         /\ ~TakenUp(kind, Head(down[s]).r)
         /\ s \in connected
<1> DEFINE q == Head(down[s]).r
<1>1. /\ down[s] \in Seq(DownMessages) /\ down[s] # <<>>
      /\ Head(down[s]).kind = kind /\ Once(down[s])
      /\ s \in connected
      /\ OrdersIn(down[s]) = Untaken(s)
  BY DEF ChannelsSound, Reads, OnceInv, Linked
<1>2. Key(Head(down[s])) \in OrdersIn(down[s])
  BY <1>1, OrdersTail
<1>3. Key(Head(down[s])) = <<kind, q>>
  BY <1>1 DEF Key
<1> HIDE DEF q
<1>4. <<kind, q>> \in Untaken(s)
  BY <1>1, <1>2, <1>3
<1>5. PICK o \in sent :
        o = <<kind, q>> /\ Recipient(o[1], o[2]) = s /\ ~TakenUp(o[1], o[2])
  BY <1>4 DEF Untaken
<1>6. o[1] = kind /\ o[2] = q
  BY <1>5
<1>7. q \in Ids
  BY <1>5, <1>6 DEF LoopTypes
<1> QED
  BY <1>1, <1>5, <1>6, <1>7 DEF q

\* A client reads an order and takes it up.
LEMMA TakeOnce ==
  ASSUME OnceInv, LoopTypes, ChannelsSound, UNCHANGED <<sent, issued, connected>>,
         NEW s \in Slots, NEW kind \in Orders, Reads(s, kind),
         \A k \in Orders, r \in Ids :
           TakenUp(k, r)' <=> TakenUp(k, r) \/ (k = kind /\ r = Head(down[s]).r)
  PROVE  OnceInv'
<1> DEFINE q == Head(down[s]).r
<1>1. /\ down[s] \in Seq(DownMessages) /\ down[s] # <<>>
      /\ Head(down[s]).kind = kind /\ Once(down[s])
      /\ s \in connected
      /\ down' = [down EXCEPT ![s] = Tail(down[s])]
  BY DEF ChannelsSound, Reads, OnceInv, Linked
<1>2. /\ Once(Tail(down[s])) /\ Key(Head(down[s])) \in OrdersIn(down[s])
      /\ OrdersIn(Tail(down[s])) = OrdersIn(down[s]) \ {Key(Head(down[s]))}
  BY <1>1, OrdersTail
<1>3. Key(Head(down[s])) = <<kind, q>>
  BY <1>1 DEF Key
<1>4. \A t \in Slots : OrdersIn(down[t]) = IF t \in connected THEN Untaken(t) ELSE {}
  BY DEF OnceInv
<1> HIDE DEF q
<1>5. <<kind, q>> \in sent /\ Recipient(kind, q) = s
  BY OrderRead DEF q
<1>6. \A o \in sent : o[1] \in Orders /\ o[2] \in Ids /\ o = <<o[1], o[2]>>
  BY DEF LoopTypes, Orders
<1>7. \A t \in Slots : Untaken(t)' = Untaken(t) \ {<<kind, q>>}
  <2>1. \A o \in sent : TakenUp(o[1], o[2])' <=> TakenUp(o[1], o[2]) \/ o = <<kind, q>>
    BY <1>6 DEF q
  <2> QED
    BY <2>1 DEF Untaken
<1>8. \A t \in Slots \ {s} : <<kind, q>> \notin Untaken(t)
  BY <1>5 DEF Untaken
<1>9. ASSUME NEW t \in Slots
      PROVE  /\ Once(down'[t])
             /\ OrdersIn(down'[t]) = IF t \in connected' THEN Untaken(t)' ELSE {}
  <2>1. CASE t = s
    <3>1. down'[s] = Tail(down[s])
      BY <1>1 DEF ChannelsSound
    <3> QED
      BY <1>1, <1>2, <1>3, <1>4, <1>7, <2>1, <3>1
  <2>2. CASE t # s
    <3>1. down'[t] = down[t]
      BY <1>1, <2>2 DEF ChannelsSound
    <3>2. Untaken(t)' = Untaken(t)
      BY <1>7, <1>8, <2>2
    <3>3. Once(down[t])
      BY DEF OnceInv
    <3> QED
      BY <1>4, <3>1, <3>2, <3>3
  <2> QED
    BY <2>1, <2>2
<1>10. \A k \in Orders, r \in Ids : TakenUp(k, r)' => <<k, r>> \in sent'
  BY <1>5 DEF OnceInv, q
<1> QED
  BY <1>9, <1>10 DEF OnceInv

\* The messages that are no order leave the orders behind them as they are.
LEMMA PlainRead ==
  ASSUME OnceInv, ChannelsSound, NEW s \in Slots, NEW kind, kind \notin Orders,
         Reads(s, kind)
  PROVE  \A t \in Slots : Once(down[t])' /\ OrdersIn(down[t])' = OrdersIn(down[t])
<1>1. /\ down[s] \in Seq(DownMessages) /\ down[s] # <<>>
      /\ Head(down[s]).kind = kind /\ Once(down[s])
      /\ down' = [down EXCEPT ![s] = Tail(down[s])]
  BY DEF ChannelsSound, Reads, OnceInv
<1>2. Once(Tail(down[s])) /\ OrdersIn(Tail(down[s])) = OrdersIn(down[s])
  BY <1>1, OrdersTail
<1> SUFFICES ASSUME NEW t \in Slots
             PROVE  Once(down'[t]) /\ OrdersIn(down'[t]) = OrdersIn(down[t])
  OBVIOUS
<1>3. CASE t = s
  BY <1>1, <1>2, <1>3 DEF ChannelsSound
<1>4. CASE t # s
  <2>1. down'[t] = down[t]
    BY <1>1, <1>4 DEF ChannelsSound
  <2> QED
    BY <2>1 DEF OnceInv
<1> QED
  BY <1>3, <1>4

-----------------------------------------------------------------------------
(* Every step                                                              *)

\* A worker goes on, and does not end before its client has taken its result.
LEMMA WorkerGoes ==
  ASSUME NEW r, Worker(r)
  PROVE  \E op \in Ops, from \in Busy, to \in Busy \cup Ready : Works(op, r, from, to)
<1>1. /\ "fund" \in Ops /\ "wait" \in Ops /\ "settle" \in Ops /\ "cancel" \in Ops
      /\ "running" \in Busy /\ "committing" \in Busy /\ "polling" \in Busy
      /\ "ok" \in Ready /\ "failed" \in Ready
  BY DEF Ops, Busy, Ready
<1> QED
  BY <1>1 DEF Worker, CheckInvoice, FundRefused, SendPayment,
              WaitInvoiceReceived, SettleInvoice, WaitPaid, CancelHoldInvoice

LEMMA LoopStays ==
  ASSUME Turn \/ Fight \/ \E t \in Timers : Elapse(t)
  PROVE  UNCHANGED connected
<1>1. CASE Turn
  BY <1>1 DEF Turn, Drained, IssueTerms, Forfeit, NoForfeit, StartMatch, NoStart,
              HandleDamage, HandleDeath, Ticked, Exit, sessionVars
<1>2. CASE Fight \/ \E t \in Timers : Elapse(t)
  BY <1>2 DEF Fight, Tick, Elapse, sessionVars
<1> QED
  BY <1>1, <1>2

LEMMA HandleStays ==
  ASSUME NEW s, NEW message, Handle(s, message)
  PROVE  UNCHANGED connected
BY DEF Handle, AcceptTerms, ReceiveOffer, loopVars, sessionVars

\* What every match step of the server is: it speaks, and nothing else in the
\* match moves.
LEMMA ServerTells ==
  ASSUME MoneyInv, VerdictInv, PlaySound, OnceInv,
         ServerStep \/ \E s \in Slots : HandleClientMessage(s)
  PROVE  /\ ServerInv' /\ LoopTypes' /\ Telling /\ SendsWell
         /\ DownMessages \subseteq DownMessages'
         /\ UNCHANGED <<nodeVars, clientVars, guardVars, connected>>
<1>1. Telling /\ UNCHANGED <<nodeVars, clientVars, guardVars>>
  BY DEF ServerStep, HandleClientMessage
<1>2. [ServerNext]_serverVars
  BY HandleServed DEF ServerStep, ServerNext
<1>3. ServerInv' /\ LoopTypes'
  BY <1>2, ServerAlone DEF MoneyInv
<1>4. SendsWell
  BY <1>2, ServerSends DEF OnceInv
<1>5. DownMessages \subseteq DownMessages'
  <2>1. \A r \in Ids : Arrived(r) => Arrived(r)'
    BY <1>1 DEF Arrived, nodeVars
  <2> QED
    BY <1>2, <2>1, LedgerGrows, MessagesGrow DEF MoneyInv
<1>6. UNCHANGED connected
  BY LoopStays, HandleStays DEF ServerStep, HandleClientMessage
<1> QED
  BY <1>1, <1>3, <1>4, <1>5, <1>6

\* The steps of clients, nodes and workers leave the server alone.
LEMMA ServerUntouched ==
  ASSUME UNCHANGED serverVars
  PROVE  UNCHANGED <<sent, issued, connected, verdicts>>
BY DEF serverVars, loopVars, sessionVars, matchVars, serverHistory

\* A step of a client that takes nothing up.
LEMMA IdleOnce ==
  ASSUME MoneyInv, OnceInv, UNCHANGED <<serverVars, refused>>,
         \A op \in Ops \ {"wait"}, r \in Ids :
           work'[op][r] = "none" <=> work[op][r] = "none",
         \/ UNCHANGED down
         \/ \E s \in Slots, kind \in {"welcome", "ended"} : Reads(s, kind)
  PROVE  OnceInv'
<1>1. UNCHANGED <<sent, issued, connected>>
  BY ServerUntouched
<1>2. \A kind \in Orders : OpOf(kind) \in Ops \ {"wait"}
  BY DEF Orders, OpOf, Ops
<1>3. \A k \in Orders, r \in Ids : TakenUp(k, r)' <=> TakenUp(k, r)
  BY <1>2 DEF TakenUp
<1>4. \A s \in Slots : Once(down[s])' /\ OrdersIn(down[s])' = OrdersIn(down[s])
  <2>1. CASE UNCHANGED down
    BY <2>1 DEF OnceInv
  <2>2. ASSUME NEW s \in Slots, NEW kind \in {"welcome", "ended"}, Reads(s, kind)
        PROVE  \A t \in Slots : Once(down[t])' /\ OrdersIn(down[t])' = OrdersIn(down[t])
    BY <2>2, PlainRead DEF Orders, MoneyInv
  <2> QED
    BY <2>1, <2>2
<1> QED
  BY <1>1, <1>3, <1>4, QuietOnce DEF MoneyInv

LEMMA JoinOnce ==
  ASSUME MoneyInv, OnceInv, NEW s \in Slots, Join(s)
  PROVE  OnceInv'
<1>1. sent = {} /\ UNCHANGED <<sent, issued, work, refused, down>>
  BY DEF Join, Connect, OnceInv, serverHistory, matchVars, nodeVars, guardVars
<1>2. \A t \in Slots : Once(down[t]) /\ OrdersIn(down[t]) = {}
  BY <1>1 DEF OnceInv, Untaken
<1>3. \A k \in Orders, r \in Ids : TakenUp(k, r)' <=> TakenUp(k, r)
  BY <1>1 DEF TakenUp
<1>4. \A t \in Slots : Untaken(t)' = {}
  BY <1>1 DEF Untaken
<1> QED
  BY <1>1, <1>2, <1>3, <1>4 DEF OnceInv

LEMMA LostOnce ==
  ASSUME MoneyInv, OnceInv, NEW s \in Slots, Lost(s)
  PROVE  OnceInv'
<1>1. /\ UNCHANGED <<sent, issued, work, refused>> /\ connected' = connected \ {s}
      /\ down' = [down EXCEPT ![s] = <<>>]
  BY DEF Lost, Disconnect, matchVars, guardVars
<1>2. \A k \in Orders, r \in Ids : TakenUp(k, r)' <=> TakenUp(k, r)
  BY <1>1 DEF TakenUp
<1>3. \A o \in sent : o[1] \in Orders /\ o[2] \in Ids
  BY DEF MoneyInv, LoopTypes, Orders
<1>4. \A t \in Slots : Untaken(t)' = Untaken(t)
  BY <1>1, <1>2, <1>3 DEF Untaken
<1>5. Once(<<>>) /\ OrdersIn(<<>>) = {}
  BY DEF Once, OrdersIn
<1>6. ASSUME NEW t \in Slots
      PROVE  /\ Once(down'[t])
             /\ OrdersIn(down'[t]) = IF t \in connected' THEN Untaken(t)' ELSE {}
  <2>1. CASE t = s
    BY <1>1, <1>5, <2>1 DEF MoneyInv, ChannelsSound
  <2>2. CASE t # s
    <3>1. down'[t] = down[t] /\ (t \in connected' <=> t \in connected)
      BY <1>1, <2>2 DEF MoneyInv, ChannelsSound
    <3> QED
      BY <1>4, <3>1 DEF OnceInv
  <2> QED
    BY <2>1, <2>2
<1> QED
  BY <1>1, <1>2, <1>6 DEF OnceInv

LEMMA StartsOnce ==
  ASSUME MoneyInv, OnceInv, NEW s \in Slots, NEW kind \in Orders, Reads(s, kind),
         Starts(s, OpOf(kind), Head(down[s]).r), UNCHANGED refused
  PROVE  OnceInv'
<1> DEFINE q == Head(down[s]).r
<1>1. UNCHANGED <<sent, issued, connected>>
  BY ServerUntouched DEF Starts
<1>2. \A k \in Orders : OpOf(k) \in Ops /\ (OpOf(k) = OpOf(kind) <=> k = kind)
  BY DEF Orders, OpOf, Ops
<1> HIDE DEF q
<1>3. \A o \in Ops, r \in Ids :
        work'[o][r] = IF o = OpOf(kind) /\ r \in {q} THEN "running" ELSE work[o][r]
  BY <1>2, SpawnWork DEF Starts, MoneyInv, NodeSound, q
<1>4. \A k \in Orders, r \in Ids :
        TakenUp(k, r)' <=> TakenUp(k, r) \/ (k = kind /\ r = q)
  BY <1>2, <1>3 DEF TakenUp
<1> QED
  BY <1>1, <1>4, TakeOnce DEF MoneyInv, q

LEMMA RefusedOnce ==
  ASSUME MoneyInv, OnceInv, NEW s \in Slots, Reads(s, "release"), NEW reason,
         RefuseRelease(s, Head(down[s]).r, reason)
  PROVE  OnceInv'
<1> DEFINE q == Head(down[s]).r
<1>1. UNCHANGED <<sent, issued, connected, work>> /\ refused' = refused \cup {<<q, reason>>}
  BY ServerUntouched DEF RefuseRelease
<1> HIDE DEF q
<1>2. \A k \in Orders, r \in Ids :
        TakenUp(k, r)' <=> TakenUp(k, r) \/ (k = "release" /\ r = q)
  <2>1. \A r : (\E x \in refused' : x[1] = r) <=> (\E x \in refused : x[1] = r) \/ r = q
    <3>1. <<q, reason>>[1] = q /\ <<q, reason>> \in refused'
      BY <1>1
    <3>2. \A x \in refused' : x \in refused \/ x = <<q, reason>>
      BY <1>1
    <3>3. refused \subseteq refused'
      BY <1>1
    <3> QED
      BY <3>1, <3>2, <3>3
  <2> QED
    BY <1>1, <2>1 DEF TakenUp
<1>3. "release" \in Orders
  BY DEF Orders
<1> QED
  BY <1>1, <1>2, <1>3, TakeOnce DEF MoneyInv, q

LEMMA OnceStep ==
  ASSUME MoneyInv, VerdictInv, PlaySound, OnceInv, [MatchNext]_matchAllVars
  PROVE  OnceInv'
<1>1. CASE ServerStep \/ \E s \in Slots : HandleClientMessage(s)
  BY <1>1, ServerTells, TellingOnce DEF MoneyInv, nodeVars, guardVars
<1>2. CASE NodesAndWorkers
  <2>1. UNCHANGED <<serverVars, refused, down>>
    BY <1>2 DEF NodesAndWorkers, guardVars
  <2>2. PICK r \in Ids : Node(r) \/ Worker(r)
    BY <1>2 DEF NodesAndWorkers
  <2>3. CASE Node(r)
    <3>1. UNCHANGED work
      BY <2>3 DEF Node, PaymentArrives, PaymentFails, HoldExpires
    <3> QED
      BY <2>1, <3>1, IdleOnce
  <2>4. CASE Worker(r)
    <3>1. PICK op \in Ops, from \in Busy, to \in Busy \cup Ready : Works(op, r, from, to)
      BY <2>4, WorkerGoes
    <3>2. \A o \in Ops, q \in Ids : work'[o][q] = "none" <=> work[o][q] = "none"
      <4>1. from # "none" /\ to # "none" /\ to \in WorkStates
        BY DEF WorkStates, Busy, Ready
      <4>2. /\ work[op][r] = from
            /\ \A o \in Ops, q \in Ids :
                 work'[o][q] = IF o = op /\ q = r THEN to ELSE work[o][q]
        BY <3>1, <4>1, WorksMoves DEF MoneyInv, NodeSound
      <4> QED
        BY <4>1, <4>2
    <3> QED
      BY <2>1, <3>2, IdleOnce
  <2> QED
    BY <2>2, <2>3, <2>4
<1>3. ASSUME NEW s \in Slots, ConnectionChange(s)
      PROVE  OnceInv'
  <2>1. CASE Join(s)
    BY <2>1, JoinOnce
  <2>2. CASE NoticeGone(s) \/ LoseConnection(s)
    BY <2>2, LostOnce DEF NoticeGone, LoseConnection
  <2>3. CASE NoticeDisconnect(s) \/ Crash(s)
    <3>1. UNCHANGED <<serverVars, refused, down>>
      BY <2>3 DEF NoticeDisconnect, Crash, guardVars
    <3>2. Killing(s) \/ UNCHANGED work
      BY <2>3 DEF NoticeDisconnect, Crash, Fails, Leave
    <3>3. \A o \in Ops, r \in Ids : work'[o][r] = "none" <=> work[o][r] = "none"
      BY <3>2, KillingWork DEF MoneyInv, NodeSound
    <3> QED
      BY <3>1, <3>3, IdleOnce
  <2> QED
    BY <1>3, <2>1, <2>2, <2>3 DEF ConnectionChange
<1>4. ASSUME NEW s \in Slots, ClientProgress(s)
      PROVE  OnceInv'
  <2>1. CASE Welcome(s) \/ ReadEnded(s)
    <3>1. UNCHANGED <<serverVars, refused, work>>
      BY <2>1 DEF Welcome, ReadEnded, guardVars, nodeVars
    <3>2. \E kind \in {"welcome", "ended"} : Reads(s, kind)
      BY <2>1 DEF Welcome, ReadEnded
    <3> QED
      BY <3>1, <3>2, IdleOnce
  <2>2. CASE SetupStep(s) \/ Linger(s)
    <3>1. UNCHANGED <<serverVars, refused, down, work>>
      BY <2>2 DEF SetupStep, Linger, guardVars, nodeVars, CreateHoldInvoice
    <3> QED
      BY <3>1, IdleOnce
  <2>3. CASE SetupReady(s)
    <3>1. UNCHANGED <<serverVars, refused, down>> /\ Spawn("wait", PaidTo(s))
      BY <2>3 DEF SetupReady, guardVars
    <3>2. \A o \in Ops \ {"wait"}, r \in Ids : work'[o][r] = work[o][r]
      BY <3>1, SpawnWork DEF MoneyInv, NodeSound, Ops
    <3> QED
      BY <3>1, <3>2, IdleOnce
  <2>4. CASE SetupFailed(s) \/ ExitClient(s)
    <3>1. UNCHANGED <<serverVars, refused, down>>
      BY <2>4 DEF SetupFailed, ExitClient, guardVars
    <3>2. Killing(s) \/ UNCHANGED work
      BY <2>4 DEF SetupFailed, ExitClient, Leave
    <3>3. \A o \in Ops, r \in Ids : work'[o][r] = "none" <=> work[o][r] = "none"
      BY <3>2, KillingWork DEF MoneyInv, NodeSound
    <3> QED
      BY <3>1, <3>3, IdleOnce
  <2>5. CASE ReadOffer(s) \/ ReadCancel(s)
    <3>1. \E kind \in Orders :
            Reads(s, kind) /\ Starts(s, OpOf(kind), Head(down[s]).r)
      BY <2>5 DEF ReadOffer, ReadCancel, Orders, OpOf
    <3>2. UNCHANGED refused
      BY <2>5 DEF ReadOffer, ReadCancel, guardVars
    <3> QED
      BY <3>1, <3>2, StartsOnce
  <2>6. CASE ReadRelease(s)
    <3>1. Reads(s, "release")
      BY <2>6 DEF ReadRelease
    <3>2. CASE SettleRelease(s, Head(down[s]).r)
      <4>1. UNCHANGED refused /\ Starts(s, "settle", Head(down[s]).r)
        BY <3>2 DEF SettleRelease
      <4>2. "release" \in Orders /\ OpOf("release") = "settle"
        BY DEF Orders, OpOf
      <4> QED
        BY <3>1, <4>1, <4>2, StartsOnce
    <3>3. ASSUME NEW reason, RefuseRelease(s, Head(down[s]).r, reason)
          PROVE  OnceInv'
      BY <3>1, <3>3, RefusedOnce
    <3> QED
      BY <2>6, <3>2, <3>3 DEF ReadRelease
  <2>7. ASSUME NEW op \in Ops, NEW r \in Ids, DrainResult(s, op, r)
        PROVE  OnceInv'
    <3>1. UNCHANGED <<serverVars, refused, down>>
      BY <2>7 DEF DrainResult, guardVars
    <3>2. PICK result \in Ready : Works(op, r, result, "drained")
      BY <2>7 DEF DrainResult
    <3>3. \A o \in Ops, q \in Ids : work'[o][q] = "none" <=> work[o][q] = "none"
      BY <3>2, WorksMoves DEF MoneyInv, NodeSound, WorkStates, Ready
    <3> QED
      BY <3>1, <3>3, IdleOnce
  <2> QED
    BY <1>4, <2>1, <2>2, <2>3, <2>4, <2>5, <2>6, <2>7 DEF ClientProgress
<1>5. CASE UNCHANGED matchAllVars
  <2>1. UNCHANGED <<serverVars, refused, down, work>>
    BY <1>5 DEF matchAllVars, movingVars, guardVars, nodeVars
  <2> QED
    BY <2>1, IdleOnce
<1> QED
  BY <1>1, <1>2, <1>3, <1>4, <1>5 DEF MatchNext

-----------------------------------------------------------------------------
(* The clients                                                             *)

SetupStates == {"none", "running", "ready", "failed", "drained", "killed"}

\* The types of the clients, before anything is known of what they count.
SeatTypes ==
  /\ faults \in 0 .. MaxFaults
  /\ client \in [Slots -> ClientStates]
  /\ setup \in [Slots -> SetupStates]
  /\ pending \in [Slots -> Int]
  /\ endSeen \in [Slots -> BOOLEAN]
  /\ processed \in [Slots -> SUBSET Ids]
  /\ guardTotal \in [Slots -> Nat]

LEMMA PaidToFinite ==
  ASSUME NEW s
  PROVE  /\ PaidTo(s) \subseteq Ids /\ IsFiniteSet(PaidTo(s))
         /\ Cardinality(PaidTo(s)) \in Nat
<1>1. PaidTo(s) \subseteq Ids
  BY DEF PaidTo
<1>2. IsFiniteSet(PaidTo(s))
  BY <1>1, IdsFinite, FS_Subset
<1> QED
  BY <1>1, <1>2, FS_CardinalityType

LEMMA InitSeatTypes == MatchInit => SeatTypes
BY AdapterAssumption
   DEF MatchInit, AdapterInit, SeatTypes, ClientStates, SetupStates

LEMMA FaultType ==
  ASSUME faults \in 0 .. MaxFaults, UNCHANGED faults \/ \E kind : Fault(kind)
  PROVE  faults' \in 0 .. MaxFaults
BY AdapterAssumption DEF Fault

LEMMA LeaveTypes ==
  ASSUME SeatTypes, NEW s \in Slots, NEW how \in ClientStates, Leave(s, how)
  PROVE  /\ client' \in [Slots -> ClientStates] /\ setup' \in [Slots -> SetupStates]
         /\ client' = [client EXCEPT ![s] = how]
BY DEF SeatTypes, Leave, SetupStates

LEMMA SeatTypesStep ==
  ASSUME MoneyInv, OnceInv, SeatTypes, [MatchNext]_matchAllVars
  PROVE  SeatTypes'
<1> USE DEF SeatTypes, ClientStates, SetupStates
<1>1. CASE ServerStep \/ \E s \in Slots : HandleClientMessage(s)
  BY <1>1 DEF ServerStep, HandleClientMessage, nodeVars, clientVars, guardVars
<1>2. CASE NodesAndWorkers
  <2>1. UNCHANGED faults \/ \E kind : Fault(kind)
    BY <1>2 DEF NodesAndWorkers, Node, PaymentArrives, PaymentFails, HoldExpires,
                Worker, CheckInvoice, FundRefused, SendPayment,
                WaitInvoiceReceived, SettleInvoice, WaitPaid, CancelHoldInvoice
  <2> QED
    BY <1>2, <2>1, FaultType DEF NodesAndWorkers, clientVars, guardVars
<1>3. ASSUME NEW s \in Slots, ConnectionChange(s)
      PROVE  SeatTypes'
  <2>1. CASE Join(s)
    BY <2>1 DEF Join, nodeVars, guardVars
  <2>2. CASE NoticeGone(s)
    BY <2>2 DEF NoticeGone, Lost, clientVars, guardVars
  <2>3. CASE LoseConnection(s)
    BY <2>3, FaultType DEF LoseConnection, Lost, clientVars, guardVars
  <2>4. CASE NoticeDisconnect(s)
    <3>1. UNCHANGED <<faults, pending, endSeen, guardVars>> /\ Fails(s)
      BY <2>4 DEF NoticeDisconnect
    <3>2. client' \in [Slots -> ClientStates] /\ setup' \in [Slots -> SetupStates]
      BY <3>1, LeaveTypes DEF Fails
    <3> QED
      BY <3>1, <3>2 DEF guardVars
  <2>5. CASE Crash(s)
    <3>1. UNCHANGED <<pending, endSeen, guardVars>> /\ Leave(s, "gone")
      BY <2>5 DEF Crash
    <3>2. client' \in [Slots -> ClientStates] /\ setup' \in [Slots -> SetupStates]
      BY <3>1, LeaveTypes
    <3> QED
      BY <2>5, <3>1, <3>2, FaultType DEF guardVars, Crash
  <2> QED
    BY <1>3, <2>1, <2>2, <2>3, <2>4, <2>5 DEF ConnectionChange
<1>4. ASSUME NEW s \in Slots, ClientProgress(s)
      PROVE  SeatTypes'
  <2>1. CASE Welcome(s)
    BY <2>1 DEF Welcome, nodeVars, guardVars
  <2>2. CASE SetupStep(s)
    <3>1. UNCHANGED faults \/ \E kind : Fault(kind)
      BY <2>2 DEF SetupStep, CreateHoldInvoice, nodeVars
    <3>2. setup' \in [Slots -> SetupStates]
      BY <2>2 DEF SetupStep
    <3> QED
      BY <2>2, <3>1, <3>2, FaultType DEF SetupStep, guardVars
  <2>3. CASE SetupReady(s)
    BY <2>3, PaidToFinite DEF SetupReady, guardVars
  <2>4. CASE SetupFailed(s)
    <3>1. CASE s \in Desktop
      BY <2>4, <3>1 DEF SetupFailed, guardVars
    <3>2. CASE s \notin Desktop
      <4>1. Leave(s, "gone") /\ UNCHANGED <<faults, pending, endSeen, guardVars>>
        BY <2>4, <3>2 DEF SetupFailed
      <4>2. client' \in [Slots -> ClientStates] /\ setup' \in [Slots -> SetupStates]
        BY <4>1, LeaveTypes
      <4> QED
        BY <4>1, <4>2 DEF guardVars
    <3> QED
      BY <3>1, <3>2
  <2>5. CASE ReadOffer(s) \/ ReadCancel(s)
    BY <2>5 DEF ReadOffer, ReadCancel, Starts, guardVars
  <2>6. CASE ReadRelease(s)
    <3>1. Head(down[s]).r \in Ids
      BY <2>6, OrderRead DEF ReadRelease, MoneyInv, Orders
    <3> DEFINE q == Head(down[s]).r
    <3>2. UNCHANGED faults \/ \E kind : Fault(kind)
      BY <2>6 DEF ReadRelease
    <3>3. processed' = processed \/ processed' = [processed EXCEPT ![s] = @ \cup {q}]
      BY <2>6 DEF ReadRelease
    <3>4. SettleRelease(s, q) \/ \E reason : RefuseRelease(s, q, reason)
      BY <2>6 DEF ReadRelease
    <3> HIDE DEF q
    <3>5. CASE SettleRelease(s, q)
      <4>1. /\ guardTotal' = [guardTotal EXCEPT ![s] = @ + Amount]
            /\ pending' = [pending EXCEPT ![s] = @ + 1]
            /\ UNCHANGED <<client, setup, endSeen>>
        BY <3>5 DEF SettleRelease, Starts
      <4> QED
        BY <3>1, <3>2, <3>3, <4>1, FaultType, SettlementAssumption DEF q
    <3>6. CASE \E reason : RefuseRelease(s, q, reason)
      BY <3>1, <3>2, <3>3, <3>6, FaultType DEF RefuseRelease, clientVars, q
    <3> QED
      BY <3>4, <3>5, <3>6
  <2>7. CASE ReadEnded(s)
    BY <2>7 DEF ReadEnded, nodeVars, guardVars
  <2>8. CASE Linger(s)
    BY <2>8 DEF Linger, nodeVars, guardVars
  <2>9. CASE ExitClient(s)
    <3>1. UNCHANGED <<faults, pending, endSeen, guardVars>> /\ Leave(s, "finished")
      BY <2>9 DEF ExitClient
    <3>2. client' \in [Slots -> ClientStates] /\ setup' \in [Slots -> SetupStates]
      BY <3>1, LeaveTypes
    <3> QED
      BY <3>1, <3>2 DEF guardVars
  <2>10. ASSUME NEW op \in Ops, NEW r \in Ids, DrainResult(s, op, r)
         PROVE  SeatTypes'
    BY <2>10 DEF DrainResult, guardVars, LessOne
  <2> QED
    BY <1>4, <2>1, <2>2, <2>3, <2>4, <2>5, <2>6, <2>7, <2>8, <2>9, <2>10
       DEF ClientProgress
<1>5. CASE UNCHANGED matchAllVars
  BY <1>5 DEF matchAllVars, movingVars, clientVars, guardVars, nodeVars
<1> QED
  BY <1>1, <1>2, <1>3, <1>4, <1>5 DEF MatchNext

-----------------------------------------------------------------------------
(* The workers                                                             *)

\* The client s starts the worker an order asks for.
Begins(s, kind, r) ==
  /\ \/ kind = "offer" /\ ReadOffer(s)
     \/ kind = "release" /\ ReadRelease(s)
     \/ kind = "cancel" /\ ReadCancel(s)
  /\ kind \in Orders /\ Reads(s, kind) /\ r = Head(down[s]).r
  /\ Starts(s, OpOf(kind), r)

LEMMA OpsApart ==
  /\ \A kind \in Orders : OpOf(kind) \in Ops \ {"wait"}
  /\ \A j, k \in Orders : OpOf(j) = OpOf(k) => j = k
  /\ OpOf("offer") = "fund" /\ OpOf("release") = "settle" /\ OpOf("cancel") = "cancel"
  /\ \A op \in Ops \ {"wait"} : \E kind \in Orders : op = OpOf(kind)
BY DEF Orders, OpOf, Ops

LEMMA ReadBegins ==
  ASSUME NEW s \in Slots
  PROVE  /\ ReadOffer(s) => Begins(s, "offer", Head(down[s]).r)
         /\ ReadCancel(s) => Begins(s, "cancel", Head(down[s]).r)
         /\ ReadRelease(s) => \/ Begins(s, "release", Head(down[s]).r)
                              \/ UNCHANGED <<work, pending, client, setup>>
BY DEF ReadOffer, ReadCancel, ReadRelease, Begins, Orders, OpOf, SettleRelease,
       RefuseRelease, clientVars

\* Who can start a worker, take its result or kill it: its own client.
LEMMA WorkEffects ==
  ASSUME MoneyInv, OnceInv, SeatTypes, [MatchNext]_matchAllVars,
         NEW op \in Ops, NEW r \in Ids, work'[op][r] # work[op][r]
  PROVE  LET s == Doer(op, r) IN
         \/ work[op][r] \in Busy /\ work'[op][r] \in Busy \cup Ready
         \/ /\ work[op][r] \in Ready /\ work'[op][r] = "drained"
            /\ DrainResult(s, op, r)
         \/ /\ work[op][r] \in Busy \cup Ready /\ work'[op][r] = "killed"
            /\ client'[s] \in {"finished", "gone"}
         \/ /\ op = "wait" /\ work'[op][r] = "running"
            /\ SetupReady(s)
         \/ /\ work[op][r] = "none" /\ work'[op][r] = "running"
            /\ \E kind \in Orders : op = OpOf(kind) /\ Begins(s, kind, r)
<1> DEFINE Effect ==
      \/ work[op][r] \in Busy /\ work'[op][r] \in Busy \cup Ready
      \/ /\ work[op][r] \in Ready /\ work'[op][r] = "drained"
         /\ DrainResult(Doer(op, r), op, r)
      \/ /\ work[op][r] \in Busy \cup Ready /\ work'[op][r] = "killed"
         /\ client'[Doer(op, r)] \in {"finished", "gone"}
      \/ /\ op = "wait" /\ work'[op][r] = "running"
         /\ SetupReady(Doer(op, r))
      \/ /\ work[op][r] = "none" /\ work'[op][r] = "running"
         /\ \E kind \in Orders : op = OpOf(kind) /\ Begins(Doer(op, r), kind, r)
<1> SUFFICES Effect
  OBVIOUS
<1>1. CASE UNCHANGED work
  BY <1>1
<1>2. ASSUME NEW s \in Slots, NEW how \in {"finished", "gone"}, Leave(s, how)
      PROVE  Effect
  <2>1. /\ work[op][r] \in Busy \cup Ready /\ work'[op][r] = "killed"
        /\ (IF op = "fund" THEN Payer(r) ELSE Payee(r)) = s
    BY <1>2 DEF Leave, Killing, MoneyInv, NodeSound
  <2>2. Doer(op, r) = s
    BY <2>1 DEF Doer
  <2>3. client'[s] = how
    BY <1>2 DEF Leave, SeatTypes
  <2> QED
    BY <2>1, <2>2, <2>3
<1>3. ASSUME NEW s \in Slots, NEW kind, NEW q, Begins(s, kind, q)
      PROVE  Effect
  <2>1. Spawn(OpOf(kind), {q}) /\ kind \in Orders /\ OpOf(kind) \in Ops
    BY <1>3, OpsApart DEF Begins, Starts
  <2>2. op = OpOf(kind) /\ r = q /\ work'[op][r] = "running"
    BY <2>1, SpawnWork DEF MoneyInv, NodeSound
  <2>3. ~TakenUp(kind, q) /\ Recipient(kind, q) = s
    BY <1>3, OrderRead DEF Begins, MoneyInv
  <2>4. work[op][r] = "none"
    BY <2>2, <2>3 DEF TakenUp
  <2>5. Doer(op, r) = s
    BY <2>1, <2>2, <2>3 DEF Doer, Recipient, Orders, OpOf
  <2> QED
    BY <1>3, <2>1, <2>2, <2>4, <2>5
<1>4. ASSUME NEW s \in Slots, ClientProgress(s)
      PROVE  Effect
  <2>1. CASE Welcome(s) \/ SetupStep(s) \/ ReadEnded(s) \/ Linger(s)
    BY <1>1, <2>1 DEF Welcome, SetupStep, ReadEnded, Linger, nodeVars,
                      CreateHoldInvoice
  <2>2. CASE SetupReady(s)
    <3>1. op = "wait" /\ r \in PaidTo(s) /\ work'[op][r] = "running"
      BY <2>2, SpawnWork DEF SetupReady, MoneyInv, NodeSound, Ops
    <3>2. Doer(op, r) = s
      BY <3>1 DEF Doer, PaidTo
    <3> QED
      BY <2>2, <3>1, <3>2
  <2>3. CASE SetupFailed(s) \/ ExitClient(s)
    BY <1>1, <1>2, <2>3 DEF SetupFailed, ExitClient
  <2>4. CASE ReadOffer(s) \/ ReadCancel(s) \/ ReadRelease(s)
    BY <1>1, <1>3, <2>4, ReadBegins
  <2>5. ASSUME NEW o \in Ops, NEW q \in Ids, DrainResult(s, o, q)
        PROVE  Effect
    <3>1. PICK result \in Ready : Works(o, q, result, "drained")
      BY <2>5 DEF DrainResult
    <3>2. o = op /\ q = r /\ work[op][r] = result /\ work'[op][r] = "drained"
      BY <3>1, WorksMoves DEF MoneyInv, NodeSound, WorkStates
    <3>3. Doer(op, r) = s
      BY <2>5, <3>2 DEF DrainResult
    <3> QED
      BY <2>5, <3>1, <3>2, <3>3
  <2> QED
    BY <1>4, <2>1, <2>2, <2>3, <2>4, <2>5 DEF ClientProgress
<1>5. ASSUME NEW s \in Slots, ConnectionChange(s)
      PROVE  Effect
  BY <1>1, <1>2, <1>5
     DEF ConnectionChange, Join, NoticeGone, LoseConnection, Lost,
         NoticeDisconnect, Crash, Fails, nodeVars
<1>6. CASE NodesAndWorkers
  <2>1. PICK q \in Ids : Node(q) \/ Worker(q)
    BY <1>6 DEF NodesAndWorkers
  <2>2. CASE Node(q)
    BY <1>1, <2>2 DEF Node, PaymentArrives, PaymentFails, HoldExpires
  <2>3. CASE Worker(q)
    <3>1. PICK o \in Ops, from \in Busy, to \in Busy \cup Ready : Works(o, q, from, to)
      BY <2>3, WorkerGoes
    <3>2. to \in WorkStates
      BY DEF WorkStates
    <3>3. o = op /\ q = r /\ work[op][r] = from /\ work'[op][r] = to
      BY <3>1, <3>2, WorksMoves DEF MoneyInv, NodeSound
    <3> QED
      BY <3>1, <3>3
  <2> QED
    BY <2>1, <2>2, <2>3
<1>7. CASE \/ ServerStep \/ UNCHANGED matchAllVars
           \/ \E s \in Slots : HandleClientMessage(s)
  BY <1>1, <1>7 DEF ServerStep, HandleClientMessage, matchAllVars, movingVars,
                    nodeVars
<1> QED
  BY <1>4, <1>5, <1>6, <1>7 DEF MatchNext

-----------------------------------------------------------------------------
(* The guard                                                               *)

\* The guard has let through what was settled, and counts its price.
GuardInv ==
  /\ \A s \in Slots :
       /\ processed[s] = {r \in PaidTo(s) : work["settle"][r] # "none"}
       /\ guardTotal[s] = Amount * Cardinality(processed[s])
  /\ AcceptedUnlessLate

LEMMA InitGuard == MatchInit => GuardInv
<1> SUFFICES ASSUME MatchInit
             PROVE  GuardInv
  OBVIOUS
<1>1. /\ processed = [s \in Slots |-> {}] /\ guardTotal = [s \in Slots |-> 0]
      /\ refused = {}
      /\ work = [op \in Ops |-> [r \in Ids |-> "none"]]
  BY MatchAssumption DEF MatchInit, AdapterInit
<1>2. Cardinality({}) = 0 /\ Amount * 0 = 0
  BY FS_EmptySet, SettlementAssumption
<1>3. \A s \in Slots : {r \in PaidTo(s) : work["settle"][r] # "none"} = {}
  BY <1>1 DEF PaidTo, Ops
<1> QED
  BY <1>1, <1>2, <1>3 DEF GuardInv, AcceptedUnlessLate

\* Half of the reservations are paid to each seat.
LEMMA PaidToCount ==
  ASSUME NEW s \in Slots
  PROVE  Cardinality(PaidTo(s)) = PerPlayer
<1>1. PerPlayer \in Nat /\ 2 * PerPlayer \in Int
  BY SettlementAssumption
<1>2. CASE s = "A"
  <2>1. PaidTo(s) = PerPlayer .. (2 * PerPlayer - 1)
    BY <1>1, <1>2 DEF PaidTo, Ids, Payee, Payer, Opponent
  <2>2. Cardinality(PerPlayer .. (2 * PerPlayer - 1)) = PerPlayer
    BY <1>1, FS_Interval, SettlementAssumption
  <2> QED
    BY <2>1, <2>2
<1>3. CASE s = "B"
  <2>1. PaidTo(s) = 0 .. (PerPlayer - 1)
    BY <1>1, <1>3 DEF PaidTo, Ids, Payee, Payer, Opponent
  <2>2. Cardinality(0 .. (PerPlayer - 1)) = PerPlayer
    BY <1>1, FS_Interval, SettlementAssumption
  <2> QED
    BY <2>1, <2>2
<1> QED
  BY <1>2, <1>3 DEF Slots

\* A release the guard has not seen is within the cap.
LEMMA ReleaseAccepted ==
  ASSUME GuardInv, SeatTypes, NEW s \in Slots, NEW r \in PaidTo(s),
         work["settle"][r] = "none"
  PROVE  /\ Refusal(s, r) = "none"
         /\ Cardinality(processed[s] \cup {r}) = Cardinality(processed[s]) + 1
         /\ Cardinality(processed[s]) \in Nat
<1>1. r \notin processed[s] /\ processed[s] \cup {r} \subseteq PaidTo(s)
  BY DEF GuardInv
<1>2. IsFiniteSet(PaidTo(s)) /\ IsFiniteSet(processed[s])
  BY <1>1, PaidToFinite, FS_Subset
<1>3. /\ Cardinality(processed[s] \cup {r}) = Cardinality(processed[s]) + 1
      /\ Cardinality(processed[s]) \in Nat
  BY <1>1, <1>2, FS_AddElement, FS_CardinalityType
<1>4. Cardinality(processed[s] \cup {r}) <= PerPlayer
  BY <1>1, <1>2, PaidToCount, FS_Subset
<1> DEFINE c == Cardinality(processed[s])
<1>5. c \in Nat /\ c + 1 <= PerPlayer
  BY <1>3, <1>4
<1> HIDE DEF c
<1>6. Amount * c + Amount <= Amount * PerPlayer
  <2>1. PICK d \in Nat : PerPlayer = c + 1 + d
    <3>1. PerPlayer - (c + 1) \in Nat /\ PerPlayer = c + 1 + (PerPlayer - (c + 1))
      BY <1>5, SettlementAssumption
    <3> QED
      BY <3>1
  <2>2. Amount * PerPlayer = Amount * c + Amount + Amount * d /\ Amount * d \in Nat
        /\ Amount * c \in Nat
    BY <1>5, <2>1, SettlementAssumption
  <2> QED
    BY <1>5, <2>1, <2>2, SettlementAssumption
<1>7. guardTotal[s] = Amount * c
  BY DEF GuardInv, c
<1>8. ~(Amount * c + Amount > Amount * PerPlayer)
  <2>1. Amount * c \in Nat /\ Amount * PerPlayer \in Nat /\ Amount \in Nat
    BY <1>5, SettlementAssumption
  <2> QED
    BY <1>6, <2>1
<1>9. ~ExceedsCap(guardTotal[s] + Amount)
  BY <1>7, <1>8 DEF ExceedsCap, Cap
<1> QED
  BY <1>1, <1>3, <1>9 DEF Refusal

LEMMA GuardStep ==
  ASSUME MoneyInv, OnceInv, SeatTypes, GuardInv, [MatchNext]_matchAllVars
  PROVE  GuardInv'
<1>0. "settle" \in Ops
  BY DEF Ops
<1>1. ASSUME NEW s \in Slots, ReadRelease(s)
      PROVE  GuardInv'
  <2> DEFINE q == Head(down[s]).r
  <2>1. "release" \in Orders /\ Reads(s, "release")
    BY <1>1 DEF Orders, ReadRelease
  <2>2. /\ q \in Ids /\ Recipient("release", q) = s /\ ~TakenUp("release", q)
    BY <2>1, OrderRead DEF MoneyInv
  <2>3. q \in PaidTo(s) /\ work["settle"][q] = "none"
    BY <2>2, OpsApart DEF Recipient, PaidTo, TakenUp
  <2>4. \/ /\ processed' = [processed EXCEPT ![s] = @ \cup {q}]
           /\ IF Refusal(s, q) = "none" THEN SettleRelease(s, q)
                                        ELSE RefuseRelease(s, q, Refusal(s, q))
        \/ /\ RefuseRelease(s, q, "expired")
           /\ UNCHANGED processed
    BY <1>1 DEF ReadRelease
  <2> HIDE DEF q
  <2>5. CASE RefuseRelease(s, q, "expired") /\ UNCHANGED processed
    <3>1. /\ UNCHANGED <<processed, guardTotal, work>>
          /\ refused' = refused \cup {<<q, "expired">>}
      BY <2>5 DEF RefuseRelease
    <3>2. AcceptedUnlessLate'
      BY <3>1 DEF GuardInv, AcceptedUnlessLate
    <3> QED
      BY <3>1, <3>2 DEF GuardInv
  <2>6. CASE processed' = [processed EXCEPT ![s] = @ \cup {q}] /\ SettleRelease(s, q)
    <3>1. /\ guardTotal' = [guardTotal EXCEPT ![s] = @ + Amount]
          /\ UNCHANGED refused /\ Spawn("settle", {q})
      BY <2>6 DEF SettleRelease, Starts
    <3>2. \A r \in Ids :
            work'["settle"][r] = IF r \in {q} THEN "running" ELSE work["settle"][r]
      BY <1>0, <3>1, SpawnWork DEF MoneyInv, NodeSound
    <3>3. AcceptedUnlessLate'
      BY <3>1 DEF GuardInv, AcceptedUnlessLate
    <3>4. ASSUME NEW t \in Slots
          PROVE  /\ processed'[t] = {r \in PaidTo(t) : work'["settle"][r] # "none"}
                 /\ guardTotal'[t] = Amount * Cardinality(processed'[t])
      <4>1. CASE t = s
        <5>1. processed'[s] = processed[s] \cup {q}
          BY <2>6 DEF SeatTypes
        <5>2. guardTotal'[s] = guardTotal[s] + Amount
          BY <3>1 DEF SeatTypes
        <5>3. {r \in PaidTo(s) : work'["settle"][r] # "none"}
                = {r \in PaidTo(s) : work["settle"][r] # "none"} \cup {q}
          BY <2>3, <3>2 DEF PaidTo
        <5>4. /\ Cardinality(processed[s] \cup {q}) = Cardinality(processed[s]) + 1
              /\ Cardinality(processed[s]) \in Nat
          BY <2>3, ReleaseAccepted
        <5>5. guardTotal'[s] = Amount * Cardinality(processed[s]) + Amount
          BY <5>2 DEF GuardInv
        <5> DEFINE c == Cardinality(processed[s])
        <5>6. c \in Nat /\ Amount * (c + 1) = Amount * c + Amount
          BY <5>4, SettlementAssumption
        <5>7. guardTotal'[s] = Amount * Cardinality(processed'[s])
          BY <5>1, <5>4, <5>5, <5>6
        <5> QED
          BY <4>1, <5>1, <5>3, <5>7 DEF GuardInv
      <4>2. CASE t # s
        <5>1. processed'[t] = processed[t] /\ guardTotal'[t] = guardTotal[t]
          BY <2>6, <3>1, <4>2 DEF SeatTypes
        <5>2. q \notin PaidTo(t)
          BY <2>3, <4>2 DEF PaidTo
        <5>3. {r \in PaidTo(t) : work'["settle"][r] # "none"}
                = {r \in PaidTo(t) : work["settle"][r] # "none"}
          BY <3>2, <5>2 DEF PaidTo
        <5> QED
          BY <5>1, <5>3 DEF GuardInv
      <4> QED
        BY <4>1, <4>2
    <3> QED
      BY <3>3, <3>4 DEF GuardInv
  <2>7. Refusal(s, q) = "none"
    BY <2>3, ReleaseAccepted
  <2> QED
    BY <2>4, <2>5, <2>6, <2>7
<1>2. ASSUME \A s \in Slots : ~ReadRelease(s)
      PROVE  GuardInv'
  <2>1. UNCHANGED guardVars
    <3>1. ASSUME NEW s \in Slots, ClientProgress(s)
          PROVE  UNCHANGED guardVars
      BY <1>2, <3>1
         DEF ClientProgress, Welcome, SetupStep, SetupReady, SetupFailed,
             ReadOffer, ReadCancel, ReadEnded, Linger, ExitClient, DrainResult
    <3>2. ASSUME NEW s \in Slots, ConnectionChange(s)
          PROVE  UNCHANGED guardVars
      BY <3>2 DEF ConnectionChange, Join, NoticeGone, LoseConnection, Lost,
                  NoticeDisconnect, Crash
    <3>3. CASE \/ ServerStep \/ NodesAndWorkers \/ UNCHANGED matchAllVars
               \/ \E s \in Slots : HandleClientMessage(s)
      BY <3>3 DEF ServerStep, NodesAndWorkers, HandleClientMessage, matchAllVars,
                  movingVars
    <3> QED
      BY <3>1, <3>2, <3>3 DEF MatchNext
  <2>2. ASSUME NEW r \in Ids
        PROVE  work'["settle"][r] = "none" <=> work["settle"][r] = "none"
    <3>1. CASE work'["settle"][r] = work["settle"][r]
      BY <3>1
    <3>2. CASE work'["settle"][r] # work["settle"][r]
      <4>1. \A kind \in Orders, s \in Slots :
              ~("settle" = OpOf(kind) /\ Begins(s, kind, r))
        BY <1>2, OpsApart DEF Begins, Orders
      <4>2. Doer("settle", r) \in Slots
        BY DEF Doer, Payee, Payer, Opponent, Slots
      <4>3. /\ work["settle"][r] \in Busy \cup Ready
            /\ work'["settle"][r] \in Busy \cup Ready \cup {"drained", "killed"}
        BY <1>0, <3>2, <4>1, <4>2, WorkEffects
      <4> QED
        BY <4>3 DEF Busy, Ready
    <3> QED
      BY <3>1, <3>2
  <2>3. UNCHANGED <<processed, guardTotal, refused>>
    BY <2>1 DEF guardVars
  <2>4. \A s \in Slots : {r \in PaidTo(s) : work'["settle"][r] # "none"}
                           = {r \in PaidTo(s) : work["settle"][r] # "none"}
    BY <2>2 DEF PaidTo
  <2> QED
    BY <2>3, <2>4 DEF GuardInv, AcceptedUnlessLate
<1> QED
  BY <1>1, <1>2

-----------------------------------------------------------------------------
(* The match                                                               *)

\* What every state of the match has, before the channels are looked at.
GroundInv == MoneyInv /\ VerdictInv /\ PlaySound

LEMMA GroundAlways == MatchSpec => []GroundInv
<1>1. PlayInv => PlaySound
  BY DEF PlayInv
<1>2. GroundInv <=> MoneyInv /\ VerdictInv /\ PlaySound
  BY DEF GroundInv
<1> QED
  BY <1>1, <1>2, MatchServed, PlayInductive, VerdictAlways, MoneyInductive, PTL

\* Whatever fails, an order of the server is on its way to the client it is
\* for, once, until a worker was started on it or the guard refused it, or the
\* connection is gone: none is lost, repeated or made up on the way
\* (Telling, Starts, RefuseRelease, ReceiveOffer, record_damage, EndMatch).
THEOREM OnceInductive == MatchSpec => []OnceInv
<1>1. MatchInit => OnceInv
  BY InitOnce
<1>2. GroundInv /\ OnceInv /\ [MatchNext]_matchAllVars => OnceInv'
  BY OnceStep DEF GroundInv
<1> QED
  BY <1>1, <1>2, GroundAlways, PTL DEF MatchSpec

\* The clients' types, and their guards count the releases they let through.
HoldersInv == SeatTypes /\ GuardInv

\* A guard's list of processed reservations is the set of those a settlement
\* was started for, its total is their price, and it has refused nothing but
\* late releases (validate_release, at both clients).
THEOREM GuardInductive == MatchSpec => []HoldersInv
<1>1. MatchInit => HoldersInv
  BY InitSeatTypes, InitGuard DEF HoldersInv
<1>2. GroundInv /\ OnceInv /\ HoldersInv /\ [MatchNext]_matchAllVars => HoldersInv'
  BY SeatTypesStep, GuardStep DEF GroundInv, HoldersInv
<1> QED
  BY <1>1, <1>2, GroundAlways, OnceInductive, PTL DEF MatchSpec

\* The guard of a payee never takes a release of this server for a repeat or
\* for one beyond the cap, so what the server counts as paid can be settled
\* (Refusal: validate_release, src/client.rs).
THEOREM AcceptedCorrect == MatchSpec => []AcceptedUnlessLate
<1>1. HoldersInv => AcceptedUnlessLate
  BY DEF HoldersInv, GuardInv
<1> QED
  BY <1>1, GuardInductive, PTL

-----------------------------------------------------------------------------
(* The books of the match                                                  *)

\* An invoice is only paid by the worker that settles it.
PaidBySettlement ==
  \A r \in Ids : hold[r] = "Paid" => work["settle"][r] # "none"

LEMMA InitPaidBy == MatchInit => PaidBySettlement
BY MatchAssumption DEF MatchInit, AdapterInit, PaidBySettlement

\* What a worker or a node may make of an invoice.
LEMMA NewlyPaid ==
  ASSUME hold \in [Ids -> HoldStates], NEW q \in Ids, Node(q) \/ Worker(q),
         NEW r \in Ids, hold'[r] = "Paid"
  PROVE  hold[r] = "Paid" \/ work["settle"][r] # "none"
<1>1. CASE SettleInvoice(q)
  <2>1. work["settle"][q] = "running"
    BY <1>1 DEF SettleInvoice, Works
  <2>2. r = q \/ hold'[r] = hold[r]
    BY <1>1 DEF SettleInvoice, Becomes
  <2> QED
    BY <2>1, <2>2
<1>2. CASE Node(q)
  BY <1>2 DEF Node, PaymentArrives, PaymentFails, HoldExpires, Becomes
<1>3. CASE SendPayment(q)
  BY <1>3 DEF SendPayment, PaidInto, Becomes
<1>4. CASE CancelHoldInvoice(q)
  BY <1>4 DEF CancelHoldInvoice, Becomes
<1>5. CASE \/ CheckInvoice(q) \/ FundRefused(q) \/ WaitInvoiceReceived(q)
           \/ WaitPaid(q)
  BY <1>5 DEF CheckInvoice, FundRefused, WaitInvoiceReceived, WaitPaid
<1> QED
  BY <1>1, <1>2, <1>3, <1>4, <1>5 DEF Worker

\* Only a worker or a node pays: no message and no lost client does.
LEMMA PaidByStep ==
  ASSUME MoneyInv, OnceInv, SeatTypes, PaidBySettlement, [MatchNext]_matchAllVars
  PROVE  PaidBySettlement'
<1>0. hold \in [Ids -> HoldStates] /\ "settle" \in Ops
  BY DEF MoneyInv, NodeSound, Ops
<1>1. ASSUME NEW r \in Ids, hold'[r] = "Paid"
      PROVE  hold[r] = "Paid" \/ work["settle"][r] # "none"
  <2>1. CASE NodesAndWorkers
    BY <1>0, <1>1, <2>1, NewlyPaid DEF NodesAndWorkers
  <2>2. ASSUME NEW s \in Slots, SetupStep(s)
        PROVE  hold[r] = "Paid"
    BY <1>0, <1>1, <2>2 DEF SetupStep, CreateHoldInvoice, Becomes, nodeVars
  <2>3. ASSUME NEW s \in Slots, ClientProgress(s), ~SetupStep(s)
        PROVE  UNCHANGED hold
    BY <2>3 DEF ClientProgress, Welcome, SetupReady, SetupFailed, ReadOffer,
                ReadRelease, SettleRelease, RefuseRelease, Starts, ReadCancel,
                ReadEnded, Linger, ExitClient, DrainResult, nodeVars
  <2>4. ASSUME NEW s \in Slots, ConnectionChange(s)
        PROVE  UNCHANGED hold
    BY <2>4 DEF ConnectionChange, Join, NoticeGone, LoseConnection, Lost,
                NoticeDisconnect, Crash, nodeVars
  <2>5. CASE \/ ServerStep \/ UNCHANGED matchAllVars
             \/ \E s \in Slots : HandleClientMessage(s)
    BY <1>1, <2>5 DEF ServerStep, HandleClientMessage, matchAllVars, movingVars,
                      nodeVars
  <2> QED
    BY <1>1, <2>1, <2>2, <2>3, <2>4, <2>5 DEF MatchNext
<1>2. ASSUME NEW r \in Ids, work["settle"][r] # "none"
      PROVE  work'["settle"][r] # "none"
  <2>1. CASE work'["settle"][r] = work["settle"][r]
    BY <1>2, <2>1
  <2>2. CASE work'["settle"][r] # work["settle"][r]
    <3>1. work'["settle"][r] \in Busy \cup Ready \cup {"drained", "killed"}
      BY <1>0, <1>2, <2>2, WorkEffects
    <3> QED
      BY <3>1 DEF Busy, Ready
  <2> QED
    BY <2>1, <2>2
<1> QED
  BY <1>1, <1>2 DEF PaidBySettlement

\* What a player was paid at his node his guard has counted, what it has
\* counted the server has released from the opponent, and the nodes only paid
\* for damage, whatever fails.
THEOREM BooksCorrect == MatchSpec => []BooksAgree
<1>1. MoneyInv /\ GuardInv /\ PaidBySettlement /\ PaidForDamage => BooksAgree
  <2> SUFFICES ASSUME MoneyInv, GuardInv, PaidBySettlement, PaidForDamage,
                      NEW s \in Slots
               PROVE  /\ Amount * Cardinality({r \in PaidTo(s) : hold[r] = "Paid"})
                           <= guardTotal[s]
                      /\ guardTotal[s] <= releasedTotal[Opponent(s)]
    BY DEF BooksAgree
  <2> DEFINE paid == {r \in PaidTo(s) : hold[r] = "Paid"}
             owed == SignedFor(Opponent(s))
  <2>1. paid \subseteq processed[s]
    BY DEF PaidBySettlement, GuardInv, PaidTo
  <2>2. processed[s] \subseteq owed
    BY DEF GuardInv, MoneyInv, NodeSound, SignedFor, IdsOf, PaidTo, Payee,
           Payer, Opponent, Slots
  <2>3. owed \in SUBSET Ids
    BY DEF SignedFor, IdsOf
  <2> HIDE DEF paid, owed
  <2>4. IsFiniteSet(owed) /\ IsFiniteSet(processed[s])
    BY <2>2, <2>3, IdSubset, FS_Subset
  <2>5. /\ Cardinality(paid) <= Cardinality(processed[s])
        /\ Cardinality(processed[s]) <= Cardinality(owed)
    BY <2>1, <2>2, <2>4, FS_Subset
  <2>6. /\ Cardinality(paid) \in Nat /\ Cardinality(processed[s]) \in Nat
        /\ Cardinality(owed) \in Nat
    BY <2>1, <2>2, <2>3, IdSubset
  <2>7. /\ Amount * Cardinality(paid) <= Amount * Cardinality(processed[s])
        /\ Amount * Cardinality(processed[s]) <= Amount * Cardinality(owed)
    BY <2>5, <2>6, ProductMonotone, SettlementAssumption
  <2>8. guardTotal[s] = Amount * Cardinality(processed[s])
    BY DEF GuardInv
  <2>9. releasedTotal[Opponent(s)] = Amount * Cardinality(owed)
    BY DEF owed, MoneyInv, ServerInv, IInv, LedgerAgrees, Opponent, Slots
  <2> QED
    BY <2>7, <2>8, <2>9 DEF paid
<1>2. MatchInit => PaidBySettlement
  BY InitPaidBy
<1>3. GroundInv /\ OnceInv /\ HoldersInv /\ PaidBySettlement
        /\ [MatchNext]_matchAllVars => PaidBySettlement'
  BY PaidByStep DEF GroundInv, HoldersInv
<1>4. GroundInv => MoneyInv
  BY DEF GroundInv
<1>5. HoldersInv => GuardInv
  BY DEF HoldersInv
<1> QED
  BY <1>1, <1>2, <1>3, <1>4, <1>5, GroundAlways, OnceInductive, GuardInductive,
     PaidForCorrect, PTL DEF MatchSpec

-----------------------------------------------------------------------------
(* What a client counts                                                    *)

SetupShare(s) ==
  IF s \in Desktop /\ setup[s] \in {"running", "ready", "failed"} THEN 1 ELSE 0

\* A client counts its workers and its setup, from its start to its exit.  Its
\* workers wait for invoices only when the setup is done with.
Counted(s) ==
  /\ client[s] = "off" \/ Alive(s) =>
       pending[s] = Cardinality(Running(s)) + SetupShare(s)
  /\ client[s] \in {"off", "new"} => setup[s] = "none"
  /\ \A r \in PaidTo(s) : setup[s] # "drained" => work["wait"][r] = "none"
  /\ pending[s] \in Nat

CountInv == \A s \in Slots : Counted(s)

Outstanding == Busy \cup Ready

LEMMA RunningFinite ==
  ASSUME NEW s
  PROVE  IsFiniteSet(Running(s)) /\ Cardinality(Running(s)) \in Nat
<1>1. IsFiniteSet(Ops)
  <2>1. IsFiniteSet({"fund", "wait"}) /\ IsFiniteSet({"settle", "cancel"})
    <3>1. ASSUME NEW a, NEW b
          PROVE  IsFiniteSet({a, b})
      <4>1. IsFiniteSet({a}) /\ IsFiniteSet({b})
        BY FS_Singleton
      <4>2. IsFiniteSet({a} \cup {b})
        BY <4>1, FS_Union
      <4>3. {a, b} = {a} \cup {b}
        OBVIOUS
      <4> QED
        BY <4>2, <4>3
    <3> QED
      BY <3>1
  <2>2. Ops = {"fund", "wait"} \cup {"settle", "cancel"}
    BY DEF Ops
  <2> QED
    BY <2>1, <2>2, FS_Union
<1>2. IsFiniteSet(Ops \X Ids)
  BY <1>1, IdsFinite, FS_Product
<1>3. Running(s) \subseteq Ops \X Ids
  BY DEF Running
<1> QED
  BY <1>2, <1>3, FS_Subset, FS_CardinalityType

LEMMA RunningSame ==
  ASSUME NEW s,
         \A op \in Ops, r \in Ids : Doer(op, r) = s =>
           (work'[op][r] \in Outstanding <=> work[op][r] \in Outstanding)
  PROVE  Running(s)' = Running(s)
<1>1. \A op \in Ops, r \in Ids : Doer(op, r)' = Doer(op, r)
  BY DEF Doer, Payee, Payer, Opponent
<1> QED
  BY <1>1 DEF Running, Outstanding

LEMMA InitCount == MatchInit => CountInv
<1> SUFFICES ASSUME MatchInit, NEW s \in Slots
             PROVE  Counted(s)
  BY DEF CountInv
<1>1. /\ client[s] = "off" /\ setup[s] = "none" /\ pending[s] = 0
      /\ work = [op \in Ops |-> [r \in Ids |-> "none"]]
  BY MatchAssumption DEF MatchInit, AdapterInit
<1>2. Running(s) = {}
  BY <1>1 DEF Running, Busy, Ready
<1>3. Cardinality({}) = 0
  BY FS_EmptySet
<1>4. \A r \in PaidTo(s) : work["wait"][r] = "none"
  BY <1>1 DEF PaidTo, Ops
<1> QED
  BY <1>1, <1>2, <1>3, <1>4 DEF Counted, SetupShare

\* A client that counts nothing on and whose workers stay or move on.
LEMMA CountKept ==
  ASSUME NEW s \in Slots, Counted(s),
         client'[s] = "off" \/ Alive(s)' => client[s] = "off" \/ Alive(s),
         client'[s] \in {"off", "new"} => client[s] \in {"off", "new"},
         setup'[s] = setup[s], pending'[s] = pending[s],
         \A op \in Ops, r \in Ids : Doer(op, r) = s =>
           \/ work'[op][r] = work[op][r]
           \/ work'[op][r] \in Outstanding /\ work[op][r] \in Outstanding
  PROVE  Counted(s)'
<1>1. Running(s)' = Running(s)
  BY RunningSame
<1>2. SetupShare(s)' = SetupShare(s) /\ PaidTo(s)' = PaidTo(s)
  BY DEF SetupShare, PaidTo, Payee, Payer, Opponent
<1>3. \A r \in PaidTo(s) : work["wait"][r] = "none" => work'["wait"][r] = "none"
  BY DEF PaidTo, Doer, Ops, Outstanding, Busy, Ready
<1> QED
  BY <1>1, <1>2, <1>3 DEF Counted

\* A worker starts, and is counted.
LEMMA CountStarts ==
  ASSUME MoneyInv, OnceInv, SeatTypes, CountInv,
         NEW s \in Slots, NEW kind, NEW r, Begins(s, kind, r)
  PROVE  CountInv'
<1> DEFINE op == OpOf(kind)
<1>1. /\ Spawn(op, {r}) /\ kind \in Orders /\ op \in Ops \ {"wait"}
      /\ pending' = [pending EXCEPT ![s] = @ + 1] /\ UNCHANGED <<client, setup>>
  BY OpsApart DEF Begins, Starts
<1>2. /\ r \in Ids /\ ~TakenUp(kind, r) /\ Recipient(kind, r) = s
  BY OrderRead DEF Begins, MoneyInv
<1>3. \A o \in Ops, q \in Ids :
        work'[o][q] = IF o = op /\ q \in {r} THEN "running" ELSE work[o][q]
  BY <1>1, SpawnWork DEF MoneyInv, NodeSound
<1>4. Doer(op, r) = s /\ work[op][r] = "none"
  BY <1>1, <1>2 DEF Doer, Recipient, Orders, OpOf, TakenUp
<1> HIDE DEF op
<1>5. ASSUME NEW t \in Slots, t # s
      PROVE  Counted(t)'
  <2>1. /\ client'[t] = client[t] /\ setup'[t] = setup[t]
        /\ pending'[t] = pending[t] /\ Counted(t)
    BY <1>1, <1>5 DEF SeatTypes, CountInv
  <2>2. \A o \in Ops, q \in Ids : Doer(o, q) = t => work'[o][q] = work[o][q]
    BY <1>3, <1>4, <1>5
  <2>3. client'[t] = "off" \/ Alive(t)' => client[t] = "off" \/ Alive(t)
    BY <2>1 DEF Alive
  <2> QED
    BY <2>1, <2>2, <2>3, CountKept
<1>6. Counted(s)'
  <2>1. Running(s)' = Running(s) \cup {<<op, r>>}
    <3>1. \A o \in Ops, q \in Ids : Doer(o, q)' = Doer(o, q)
      BY DEF Doer, Payee, Payer, Opponent
    <3>2. \A x \in Ops \X Ids :
            /\ x[1] \in Ops /\ x[2] \in Ids
            /\ (x[1] = op /\ x[2] = r) <=> x = <<op, r>>
      BY <1>1, <1>2
    <3>3. "running" \in Busy \cup Ready
      BY DEF Busy
    <3> QED
      BY <1>1, <1>2, <1>3, <1>4, <3>1, <3>2, <3>3 DEF Running
  <2>2. <<op, r>> \notin Running(s)
    BY <1>4 DEF Running, Busy, Ready
  <2>3. Cardinality(Running(s)') = Cardinality(Running(s)) + 1
    BY <2>1, <2>2, RunningFinite, FS_AddElement
  <2>4. /\ pending'[s] = pending[s] + 1 /\ client'[s] = client[s]
        /\ setup'[s] = setup[s] /\ Counted(s)
    BY <1>1 DEF SeatTypes, CountInv
  <2>5. SetupShare(s)' = SetupShare(s) /\ SetupShare(s) \in Nat /\ Alive(s)' = Alive(s)
    BY <2>4 DEF SetupShare, Alive
  <2>6. \A q \in PaidTo(s) : work'["wait"][q] = work["wait"][q]
    BY <1>1, <1>3 DEF PaidTo, Ops
  <2>7. PaidTo(s)' = PaidTo(s)
    BY DEF PaidTo, Payee, Payer, Opponent
  <2> QED
    BY <2>3, <2>4, <2>5, <2>6, <2>7, RunningFinite DEF Counted
<1> QED
  BY <1>5, <1>6 DEF CountInv

\* A result is taken, and counted off.
LEMMA CountDrains ==
  ASSUME MoneyInv, SeatTypes, CountInv,
         NEW s \in Slots, NEW op \in Ops, NEW r \in Ids, DrainResult(s, op, r)
  PROVE  CountInv'
<1>1. PICK result \in Ready : /\ Works(op, r, result, "drained")
                              /\ pending' = [pending EXCEPT ![s] = LessOne(@, result)]
  BY DEF DrainResult
<1>2. /\ work[op][r] = result
      /\ \A o \in Ops, q \in Ids :
           work'[o][q] = IF o = op /\ q = r THEN "drained" ELSE work[o][q]
  BY <1>1, WorksMoves DEF MoneyInv, NodeSound, WorkStates
<1>3. Doer(op, r) = s /\ UNCHANGED <<client, setup>> /\ Alive(s)
  BY DEF DrainResult, Talks, Alive
<1>4. ASSUME NEW t \in Slots, t # s
      PROVE  Counted(t)'
  <2>1. /\ client'[t] = client[t] /\ setup'[t] = setup[t]
        /\ pending'[t] = pending[t] /\ Counted(t)
    BY <1>1, <1>3, <1>4 DEF SeatTypes, CountInv
  <2>2. \A o \in Ops, q \in Ids : Doer(o, q) = t => work'[o][q] = work[o][q]
    BY <1>2, <1>3, <1>4
  <2>3. client'[t] = "off" \/ Alive(t)' => client[t] = "off" \/ Alive(t)
    BY <2>1 DEF Alive
  <2> QED
    BY <2>1, <2>2, <2>3, CountKept
<1>5. Counted(s)'
  <2>1. Running(s)' = Running(s) \ {<<op, r>>}
    <3>1. \A o \in Ops, q \in Ids : Doer(o, q)' = Doer(o, q)
      BY DEF Doer, Payee, Payer, Opponent
    <3>2. \A x \in Ops \X Ids :
            /\ x[1] \in Ops /\ x[2] \in Ids
            /\ (x[1] = op /\ x[2] = r) <=> x = <<op, r>>
      OBVIOUS
    <3>3. "drained" \notin Busy \cup Ready
      BY DEF Busy, Ready
    <3> QED
      BY <1>2, <1>3, <3>1, <3>2, <3>3 DEF Running
  <2>2. <<op, r>> \in Running(s)
    BY <1>2, <1>3 DEF Running
  <2>3. /\ Cardinality(Running(s)') = Cardinality(Running(s)) - 1
        /\ Cardinality(Running(s)') \in Nat /\ Cardinality(Running(s)) \in Nat
    BY <2>1, <2>2, RunningFinite, FS_RemoveElement, FS_CardinalityType
  <2>4. /\ pending'[s] = LessOne(pending[s], result) /\ client'[s] = client[s]
        /\ setup'[s] = setup[s] /\ Counted(s)
    BY <1>1, <1>3 DEF SeatTypes, CountInv
  <2>5. SetupShare(s)' = SetupShare(s) /\ SetupShare(s) \in Nat /\ Alive(s)' = Alive(s)
    BY <2>4 DEF SetupShare, Alive
  <2>6. \A q \in PaidTo(s) : work["wait"][q] = "none" => work'["wait"][q] = "none"
    BY <1>2 DEF PaidTo, Ops, Ready
  <2>7. PaidTo(s)' = PaidTo(s)
    BY DEF PaidTo, Payee, Payer, Opponent
  <2>8. pending[s] = Cardinality(Running(s)) + SetupShare(s)
    BY <1>3, <2>4 DEF Counted
  <2>9. pending[s] > 0 /\ pending'[s] = pending[s] - 1
    BY <2>3, <2>4, <2>5, <2>8 DEF LessOne
  <2> QED
    BY <1>3, <2>3, <2>4, <2>5, <2>6, <2>7, <2>8, <2>9 DEF Counted
<1> QED
  BY <1>4, <1>5 DEF CountInv

\* A client that leaves counts nothing any more.
LEMMA CountLeaves ==
  ASSUME MoneyInv, SeatTypes, CountInv,
         NEW s \in Slots, NEW how \in {"finished", "gone"}, Leave(s, how),
         UNCHANGED pending
  PROVE  CountInv'
<1>1. /\ client' = [client EXCEPT ![s] = how]
      /\ setup' = [setup EXCEPT ![s] = IF @ = "running" THEN "killed" ELSE @]
      /\ Killing(s)
  BY DEF Leave
<1>2. ASSUME NEW t \in Slots, t # s
      PROVE  Counted(t)'
  <2>1. /\ client'[t] = client[t] /\ setup'[t] = setup[t]
        /\ pending'[t] = pending[t] /\ Counted(t)
    BY <1>1, <1>2 DEF SeatTypes, CountInv
  <2>2. \A o \in Ops, q \in Ids : Doer(o, q) = t => work'[o][q] = work[o][q]
    BY <1>1, <1>2 DEF Killing, Doer, MoneyInv, NodeSound
  <2>3. client'[t] = "off" \/ Alive(t)' => client[t] = "off" \/ Alive(t)
    BY <2>1 DEF Alive
  <2> QED
    BY <2>1, <2>2, <2>3, CountKept
<1>3. Counted(s)'
  <2>1. /\ client'[s] \in {"finished", "gone"} /\ pending'[s] = pending[s]
        /\ setup'[s] # "drained" => setup[s] # "drained"
    BY <1>1 DEF SeatTypes
  <2>2. \A r \in PaidTo(s) : work["wait"][r] = "none" => work'["wait"][r] = "none"
    BY <1>1 DEF Killing, PaidTo, Ops, Busy, Ready
  <2>3. PaidTo(s)' = PaidTo(s)
    BY DEF PaidTo, Payee, Payer, Opponent
  <2>4. ~Alive(s)'
    BY <2>1 DEF Alive
  <2> QED
    BY <2>1, <2>2, <2>3, <2>4 DEF Counted, CountInv
<1> QED
  BY <1>2, <1>3 DEF CountInv

\* Welcome and the creation of the invoices, on the way.
LEMMA CountSetup ==
  ASSUME MoneyInv, SeatTypes, CountInv,
         NEW s \in Slots, Welcome(s) \/ SetupStep(s)
  PROVE  CountInv'
<1>1. /\ UNCHANGED work
      /\ \A t \in Slots : t # s => /\ client'[t] = client[t] /\ setup'[t] = setup[t]
                                   /\ pending'[t] = pending[t]
  BY DEF Welcome, SetupStep, CreateHoldInvoice, nodeVars, SeatTypes
<1>2. ASSUME NEW t \in Slots
      PROVE  Running(t)' = Running(t) /\ PaidTo(t)' = PaidTo(t)
  BY <1>1, RunningSame DEF PaidTo, Payee, Payer, Opponent
<1>3. ASSUME NEW t \in Slots, t # s
      PROVE  Counted(t)'
  <2>1. Counted(t) /\ (client'[t] = "off" \/ Alive(t)' => client[t] = "off" \/ Alive(t))
    BY <1>1, <1>3 DEF CountInv, Alive
  <2> QED
    BY <1>1, <1>3, <2>1, CountKept
<1>4. CASE Welcome(s)
  <2>1. client[s] = "new" /\ setup[s] = "none" /\ Counted(s)
    BY <1>4 DEF Welcome, CountInv, Counted
  <2>2. /\ setup'[s] = "running" /\ client'[s] \in {"playing", "joining"}
        /\ pending'[s] = IF s \in Desktop THEN pending[s] + 1 ELSE pending[s]
    BY <1>4 DEF Welcome, SeatTypes
  <2>3. SetupShare(s) = 0 /\ SetupShare(s)' = IF s \in Desktop THEN 1 ELSE 0
    BY <2>1, <2>2 DEF SetupShare
  <2>4. pending[s] = Cardinality(Running(s))
    BY <2>1, <2>3, RunningFinite DEF Counted, Alive
  <2>5. Counted(s)'
    BY <1>1, <1>2, <2>1, <2>2, <2>3, <2>4, RunningFinite DEF Counted
  <2> QED
    BY <1>3, <2>5 DEF CountInv
<1>5. CASE SetupStep(s)
  <2>1. /\ setup[s] = "running" /\ setup'[s] \in {"running", "failed", "ready"}
        /\ UNCHANGED <<client, pending>> /\ Counted(s)
    BY <1>5 DEF SetupStep, CountInv, SeatTypes
  <2>2. SetupShare(s)' = SetupShare(s) /\ Alive(s)' = Alive(s)
    BY <2>1 DEF SetupShare, Alive
  <2>3. client[s] \notin {"off", "new"}
    BY <2>1 DEF Counted
  <2>4. Counted(s)'
    BY <1>1, <1>2, <2>1, <2>2, <2>3 DEF Counted
  <2> QED
    BY <1>3, <2>4 DEF CountInv
<1> QED
  BY <1>4, <1>5

\* The setup is done with: a worker waits for each invoice, or none does.
LEMMA CountReady ==
  ASSUME MoneyInv, SeatTypes, CountInv, NEW s \in Slots, SetupReady(s)
  PROVE  CountInv'
<1>1. /\ setup[s] = "ready" /\ setup' = [setup EXCEPT ![s] = "drained"]
      /\ Spawn("wait", PaidTo(s))
      /\ client[s] \in {"joining", "playing", "cut"}
      /\ client' = client \/ client' = [client EXCEPT ![s] = "playing"]
      /\ pending' = IF s \in Desktop
                    THEN [pending EXCEPT ![s] = @ - 1 + Cardinality(PaidTo(s))]
                    ELSE [pending EXCEPT ![s] = @ + Cardinality(PaidTo(s))]
  BY DEF SetupReady
<1>2. "wait" \in Ops /\ "running" \in Busy \cup Ready
  BY DEF Ops, Busy
<1>3. \A o \in Ops, q \in Ids :
        work'[o][q] = IF o = "wait" /\ q \in PaidTo(s) THEN "running" ELSE work[o][q]
  BY <1>1, <1>2, SpawnWork DEF MoneyInv, NodeSound
<1>4. ASSUME NEW t \in Slots, t # s
      PROVE  Counted(t)'
  <2>1. /\ client'[t] = client[t] /\ setup'[t] = setup[t]
        /\ pending'[t] = pending[t] /\ Counted(t)
    BY <1>1, <1>4 DEF SeatTypes, CountInv
  <2>2. \A o \in Ops, q \in Ids : Doer(o, q) = t => work'[o][q] = work[o][q]
    BY <1>3, <1>4 DEF Doer, PaidTo
  <2>3. client'[t] = "off" \/ Alive(t)' => client[t] = "off" \/ Alive(t)
    BY <2>1 DEF Alive
  <2> QED
    BY <2>1, <2>2, <2>3, CountKept
<1>5. Counted(s)'
  <2> DEFINE W == {"wait"} \X PaidTo(s)
  <2>1. Running(s)' = Running(s) \cup W
    <3>1. \A o \in Ops, q \in Ids : Doer(o, q)' = Doer(o, q)
      BY DEF Doer, Payee, Payer, Opponent
    <3>2. \A q \in PaidTo(s) : q \in Ids /\ Doer("wait", q) = s
      BY DEF PaidTo, Doer
    <3> QED
      BY <1>2, <1>3, <3>1, <3>2 DEF Running
  <2>2. Running(s) \cap W = {}
    <3>1. \A r \in PaidTo(s) : work["wait"][r] = "none"
      BY <1>1 DEF CountInv, Counted
    <3>2. "none" \notin Busy \cup Ready
      BY DEF Busy, Ready
    <3> QED
      BY <3>1, <3>2 DEF Running
  <2>3. IsFiniteSet(W) /\ Cardinality(W) = Cardinality(PaidTo(s))
    <3>1. IsFiniteSet({"wait"}) /\ Cardinality({"wait"}) = 1
      BY FS_Singleton
    <3>2. /\ IsFiniteSet({"wait"} \X PaidTo(s))
          /\ Cardinality({"wait"} \X PaidTo(s))
               = Cardinality({"wait"}) * Cardinality(PaidTo(s))
      BY <3>1, PaidToFinite, FS_Product
    <3> QED
      BY <3>1, <3>2, PaidToFinite
  <2>4. Cardinality(Running(s)') = Cardinality(Running(s)) + Cardinality(PaidTo(s))
    <3>1. Cardinality({}) = 0
      BY FS_EmptySet
    <3>2. Cardinality(Running(s) \cup W)
            = Cardinality(Running(s)) + Cardinality(W) - Cardinality(Running(s) \cap W)
      BY <2>3, RunningFinite, FS_Union
    <3>3. Cardinality(Running(s) \cap W) = 0
      BY <2>2, <3>1
    <3> DEFINE a == Cardinality(Running(s))
               b == Cardinality(PaidTo(s))
    <3>4. a \in Nat /\ b \in Nat /\ Cardinality(Running(s) \cup W) = a + b - 0
      BY <2>3, <3>2, <3>3, RunningFinite, PaidToFinite
    <3> HIDE DEF W, a, b
    <3>5. Cardinality(Running(s) \cup W) = a + b
      BY <3>4
    <3> QED
      BY <2>1, <3>5 DEF a, b
  <2>5. client'[s] \in {"joining", "playing", "cut"} /\ setup'[s] = "drained"
    BY <1>1 DEF SeatTypes
  <2>6. /\ SetupShare(s)' = 0 /\ SetupShare(s) = IF s \in Desktop THEN 1 ELSE 0
    BY <1>1, <2>5 DEF SetupShare
  <2>7. pending[s] = Cardinality(Running(s)) + SetupShare(s)
    BY <1>1 DEF CountInv, Counted, Alive
  <2>8. pending'[s] = Cardinality(Running(s)) + Cardinality(PaidTo(s))
    BY <1>1, <2>6, <2>7, RunningFinite, PaidToFinite DEF SeatTypes
  <2> HIDE DEF W
  <2>9. pending'[s] = Cardinality(Running(s)') + SetupShare(s)' /\ pending'[s] \in Nat
    BY <2>4, <2>6, <2>8, RunningFinite, PaidToFinite
  <2> QED
    BY <2>5, <2>9 DEF Counted
<1> QED
  BY <1>4, <1>5 DEF CountInv

LEMMA CountFailed ==
  ASSUME MoneyInv, SeatTypes, CountInv, NEW s \in Slots, SetupFailed(s)
  PROVE  CountInv'
<1>1. CASE s \notin Desktop
  BY <1>1, CountLeaves DEF SetupFailed
<1>2. CASE s \in Desktop
  <2>1. /\ setup[s] = "failed" /\ setup' = [setup EXCEPT ![s] = "drained"]
        /\ client[s] \in {"joining", "playing", "cut"}
        /\ client' = [client EXCEPT ![s] = "cut"]
        /\ pending' = [pending EXCEPT ![s] = @ - 1] /\ UNCHANGED work
    BY <1>2 DEF SetupFailed
  <2>2. ASSUME NEW t \in Slots
        PROVE  Running(t)' = Running(t)
    BY <2>1, RunningSame
  <2>3. ASSUME NEW t \in Slots, t # s
        PROVE  Counted(t)'
    <3>1. /\ client'[t] = client[t] /\ setup'[t] = setup[t]
          /\ pending'[t] = pending[t] /\ Counted(t)
      BY <2>1, <2>3 DEF SeatTypes, CountInv
    <3>2. client'[t] = "off" \/ Alive(t)' => client[t] = "off" \/ Alive(t)
      BY <3>1 DEF Alive
    <3> QED
      BY <2>1, <3>1, <3>2, CountKept
  <2>4. Counted(s)'
    <3>1. client'[s] = "cut" /\ setup'[s] = "drained" /\ pending'[s] = pending[s] - 1
      BY <2>1 DEF SeatTypes
    <3>2. SetupShare(s) = 1 /\ SetupShare(s)' = 0
      BY <1>2, <2>1, <3>1 DEF SetupShare
    <3>3. pending[s] = Cardinality(Running(s)) + 1
      BY <2>1, <3>2 DEF CountInv, Counted, Alive
    <3>4. pending'[s] = Cardinality(Running(s)') + SetupShare(s)' /\ pending'[s] \in Nat
      BY <2>2, <3>1, <3>2, <3>3, RunningFinite
    <3> QED
      BY <3>1, <3>4 DEF Counted
  <2> QED
    BY <2>3, <2>4 DEF CountInv
<1> QED
  BY <1>1, <1>2

\* No worker and no setup, and no client that starts or stops counting.
LEMMA CountQuiet ==
  ASSUME SeatTypes, CountInv, UNCHANGED <<work, setup, pending>>,
         \A t \in Slots :
           /\ client'[t] = "off" \/ Alive(t)' => client[t] = "off" \/ Alive(t)
           /\ client'[t] \in {"off", "new"} => client[t] \in {"off", "new"}
  PROVE  CountInv'
<1> SUFFICES ASSUME NEW t \in Slots
             PROVE  Counted(t)'
  BY DEF CountInv
<1> QED
  BY CountKept DEF CountInv

LEMMA CountStep ==
  ASSUME MoneyInv, OnceInv, SeatTypes, CountInv, [MatchNext]_matchAllVars
  PROVE  CountInv'
<1>1. CASE UNCHANGED <<work, client, setup, pending>>
  BY <1>1, CountQuiet DEF Alive
<1>2. CASE \/ ServerStep \/ UNCHANGED matchAllVars
           \/ \E s \in Slots : HandleClientMessage(s)
  BY <1>1, <1>2 DEF ServerStep, HandleClientMessage, matchAllVars, movingVars,
                    nodeVars, clientVars
<1>3. CASE NodesAndWorkers
  <2>1. UNCHANGED <<client, setup, pending>>
    BY <1>3 DEF NodesAndWorkers, clientVars
  <2>2. ASSUME NEW op \in Ops, NEW r \in Ids
        PROVE  \/ work'[op][r] = work[op][r]
               \/ work'[op][r] \in Outstanding /\ work[op][r] \in Outstanding
    <3>1. PICK q \in Ids : Node(q) \/ Worker(q)
      BY <1>3 DEF NodesAndWorkers
    <3>2. CASE Node(q)
      BY <3>2 DEF Node, PaymentArrives, PaymentFails, HoldExpires
    <3>3. CASE Worker(q)
      <4>1. PICK o \in Ops, from \in Busy, to \in Busy \cup Ready : Works(o, q, from, to)
        BY <3>3, WorkerGoes
      <4>2. to \in WorkStates
        BY DEF WorkStates
      <4> QED
        BY <4>1, <4>2, WorksMoves DEF MoneyInv, NodeSound, Outstanding
    <3> QED
      BY <3>1, <3>2, <3>3
  <2>3. ASSUME NEW t \in Slots
        PROVE  Counted(t)'
    <3>1. Counted(t) /\ Alive(t)' = Alive(t)
      BY <2>1 DEF CountInv, Alive
    <3> QED
      BY <2>1, <2>2, <3>1, CountKept
  <2> QED
    BY <2>3 DEF CountInv
<1>4. ASSUME NEW s \in Slots, ConnectionChange(s)
      PROVE  CountInv'
  <2>1. CASE Join(s)
    <3>1. /\ client[s] = "off" /\ client' = [client EXCEPT ![s] = "new"]
          /\ UNCHANGED <<work, setup, pending>>
      BY <2>1 DEF Join, nodeVars
    <3>2. \A t \in Slots : client'[t] = IF t = s THEN "new" ELSE client[t]
      BY <3>1 DEF SeatTypes
    <3> QED
      BY <3>1, <3>2, CountQuiet DEF Alive
  <2>2. CASE NoticeGone(s) \/ LoseConnection(s)
    BY <1>1, <2>2 DEF NoticeGone, LoseConnection, Lost, clientVars
  <2>3. CASE NoticeDisconnect(s)
    <3>1. UNCHANGED pending /\ Fails(s) /\ client[s] \in {"new", "playing", "leaving"}
      BY <2>3 DEF NoticeDisconnect
    <3>2. CASE s \in Desktop
      <4>1. /\ client' = [client EXCEPT ![s] = "cut"] /\ UNCHANGED <<work, setup>>
        BY <3>1, <3>2 DEF Fails
      <4>2. \A t \in Slots : client'[t] = IF t = s THEN "cut" ELSE client[t]
        BY <4>1 DEF SeatTypes
      <4> QED
        BY <3>1, <4>1, <4>2, CountQuiet DEF Alive
    <3>3. CASE s \notin Desktop
      BY <3>1, <3>3, CountLeaves DEF Fails
    <3> QED
      BY <3>2, <3>3
  <2>4. CASE Crash(s)
    BY <2>4, CountLeaves DEF Crash
  <2> QED
    BY <1>4, <2>1, <2>2, <2>3, <2>4 DEF ConnectionChange
<1>5. ASSUME NEW s \in Slots, ClientProgress(s)
      PROVE  CountInv'
  <2>1. CASE Welcome(s) \/ SetupStep(s)
    BY <2>1, CountSetup
  <2>2. CASE SetupReady(s) \/ SetupFailed(s)
    BY <2>2, CountReady, CountFailed
  <2>3. CASE ReadOffer(s) \/ ReadRelease(s) \/ ReadCancel(s)
    BY <1>1, <2>3, ReadBegins, CountStarts
  <2>4. CASE ReadEnded(s)
    BY <1>1, <2>4 DEF ReadEnded, nodeVars
  <2>5. CASE Linger(s)
    <3>1. /\ client[s] = "playing" /\ client' = [client EXCEPT ![s] = "leaving"]
          /\ UNCHANGED <<work, setup, pending>>
      BY <2>5 DEF Linger, nodeVars
    <3>2. \A t \in Slots : client'[t] = IF t = s THEN "leaving" ELSE client[t]
      BY <3>1 DEF SeatTypes
    <3> QED
      BY <3>1, <3>2, CountQuiet DEF Alive
  <2>6. CASE ExitClient(s)
    BY <2>6, CountLeaves DEF ExitClient
  <2>7. ASSUME NEW op \in Ops, NEW r \in Ids, DrainResult(s, op, r)
        PROVE  CountInv'
    BY <2>7, CountDrains
  <2> QED
    BY <1>5, <2>1, <2>2, <2>3, <2>4, <2>5, <2>6, <2>7 DEF ClientProgress
<1> QED
  BY <1>2, <1>3, <1>4, <1>5 DEF MatchNext

LEMMA CountAlways == MatchSpec => []CountInv
<1>1. MatchInit => CountInv
  BY InitCount
<1>2. GroundInv /\ OnceInv /\ HoldersInv /\ CountInv /\ [MatchNext]_matchAllVars
        => CountInv'
  BY CountStep DEF GroundInv, HoldersInv
<1> QED
  BY <1>1, <1>2, GroundAlways, OnceInductive, GuardInductive, PTL DEF MatchSpec

\* pending_operations is the number of the workers whose result was not taken,
\* and of the desktop client's setup, whatever fails: it neither lets a client
\* leave too early nor holds it for ever (spawn_payment_operation,
\* drain_payment_results, MayExit).
THEOREM PendingCorrect == MatchSpec => []PendingIsWork
<1>1. CountInv => PendingIsWork
  BY DEF CountInv, Counted, PendingIsWork, SetupShare
<1> QED
  BY <1>1, CountAlways, PTL

\* The types of the match: among them that pending_operations is never counted
\* below nothing (LessOne, SetupReady, SetupFailed), and that a guard's total
\* is the sum of what it let through.
THEOREM MatchTypeCorrect == MatchSpec => []MatchTypeOK
<1>1. MoneyInv /\ HoldersInv /\ CountInv => MatchTypeOK
  <2> SUFFICES ASSUME MoneyInv, HoldersInv, CountInv
               PROVE  MatchTypeOK
    OBVIOUS
  <2>1. AdapterTypeOK
    BY MatchAssumption DEF MoneyInv, NodeSound, HoldersInv, SeatTypes, AdapterTypeOK
  <2>2. pending \in [Slots -> Nat]
    BY DEF HoldersInv, SeatTypes, CountInv, Counted
  <2> QED
    BY <2>1, <2>2 DEF HoldersInv, SeatTypes, SetupStates, MatchTypeOK
<1> QED
  BY <1>1, MoneyInductive, GuardInductive, CountAlways, PTL

-----------------------------------------------------------------------------
(* The end of the match, at a client                                       *)

\* Nothing is ordered from a payee once he is told of the end.
EndLast(q) ==
  \A i, j \in DOMAIN q :
    q[i].kind = "ended" /\ i < j => q[j].kind \notin {"release", "cancel"}

Served(s) ==
  \A kind \in {"release", "cancel"}, r \in PaidTo(s) :
    <<kind, r>> \in sent => TakenUp(kind, r)

AtRest(s) ==
  \A op \in {"settle", "cancel"}, r \in PaidTo(s) : work[op][r] \in {"none", "drained"}

\* The end is told last, and a client that leaves on it has done with what was
\* ordered.
ExitInv ==
  /\ \A s \in Slots :
       /\ EndLast(down[s])
       /\ (\E i \in DOMAIN down[s] : down[s][i].kind = "ended") => verdicts # <<>>
       /\ endSeen[s] => verdicts # <<>> /\ Served(s)
       /\ client[s] \in {"leaving", "finished"} => endSeen[s] /\ AtRest(s)
  /\ \A op \in Ops, r \in Ids :
       work[op][r] = "killed" => client[Doer(op, r)] \in {"finished", "gone"}

LEMMA InitExit == MatchInit => ExitInv
<1> SUFFICES ASSUME MatchInit
             PROVE  ExitInv
  OBVIOUS
<1>1. /\ down = [s \in Slots |-> <<>>] /\ endSeen = [s \in Slots |-> FALSE]
      /\ client = [s \in Slots |-> "off"]
      /\ work = [op \in Ops |-> [r \in Ids |-> "none"]]
  BY MatchAssumption DEF MatchInit, AdapterInit
<1> QED
  BY <1>1 DEF ExitInv, EndLast

\* What the server says after its verdict are offers only.
LEMMA ToldLast ==
  ASSUME MoneyInv, ServerInv', LoopTypes', SendsWell, NEW s \in Slots,
         down[s] \in Seq(DownMessages'), EndLast(down[s]),
         (\E i \in DOMAIN down[s] : down[s][i].kind = "ended") => verdicts # <<>>
  PROVE  LET q == down[s] \o Told(s) IN
         /\ EndLast(q)
         /\ (\E i \in DOMAIN q : q[i].kind = "ended") => verdicts' # <<>>
<1> DEFINE p == down[s]
           t == Told(s)
           q == p \o t
<1>1. Told(s) \in Seq(DownMessages')
  BY ToldSound
<1>2. /\ Len(p) \in Nat /\ Len(t) \in Nat
      /\ DOMAIN p = 1 .. Len(p) /\ DOMAIN t = 1 .. Len(t)
      /\ DOMAIN q = 1 .. Len(p) + Len(t)
      /\ \A i \in 1 .. Len(p) + Len(t) :
           q[i] = IF i <= Len(p) THEN p[i] ELSE t[i - Len(p)]
  BY <1>1, ConcatProperties, LenProperties
<1>3. \A i, j \in DOMAIN t : t[i].kind = "ended" =>
        /\ verdicts' # verdicts
        /\ i < j => t[j].kind \notin Orders
  BY ToldOnce
<1>4. verdicts # <<>> => \A j \in DOMAIN t : t[j].kind \notin {"release", "cancel"}
  <2> SUFFICES ASSUME verdicts # <<>>, NEW j \in DOMAIN t,
                      t[j].kind \in {"release", "cancel"}
               PROVE  FALSE
    OBVIOUS
  <2>1. t[j].kind \in Orders
    BY DEF Orders
  <2>2. Key(t[j]) \in OrdersIn(t)
    BY <2>1 DEF OrdersIn
  <2>3. Key(t[j]) \in sent' \ sent
    BY <2>2, ToldOnce
  <2>4. Key(t[j])[1] = "offer"
    BY <2>3 DEF SendsWell
  <2> QED
    BY <2>4 DEF Key
<1>5. verdicts # <<>> => verdicts' # <<>>
  BY DEF SendsWell
<1>6. \A i \in DOMAIN p : p[i].kind = "ended" => verdicts # <<>>
  OBVIOUS
<1>7. \A i, j \in DOMAIN p :
        p[i].kind = "ended" /\ i < j => p[j].kind \notin {"release", "cancel"}
  BY DEF EndLast
<1> HIDE DEF p, t, q
<1>8. ASSUME NEW i \in DOMAIN q, q[i].kind = "ended"
      PROVE  /\ verdicts' # <<>>
             /\ \A j \in DOMAIN q : i < j => q[j].kind \notin {"release", "cancel"}
  <2>1. CASE i <= Len(p)
    <3>1. i \in DOMAIN p /\ p[i].kind = "ended"
      BY <1>2, <1>8, <2>1
    <3>2. verdicts # <<>>
      BY <1>6, <3>1
    <3>3. ASSUME NEW j \in DOMAIN q, i < j
          PROVE  q[j].kind \notin {"release", "cancel"}
      <4>1. CASE j <= Len(p)
        <5>1. j \in DOMAIN p /\ q[j] = p[j]
          BY <1>2, <3>3, <4>1
        <5> QED
          BY <1>7, <3>1, <3>3, <5>1
      <4>2. CASE ~(j <= Len(p))
        <5>1. j - Len(p) \in DOMAIN t /\ q[j] = t[j - Len(p)]
          BY <1>2, <3>3, <4>2
        <5> QED
          BY <1>4, <3>2, <5>1
      <4> QED
        BY <4>1, <4>2
    <3> QED
      BY <1>5, <3>2, <3>3
  <2>2. CASE ~(i <= Len(p))
    <3>1. i - Len(p) \in DOMAIN t /\ t[i - Len(p)].kind = "ended"
      BY <1>2, <1>8, <2>2
    <3>2. verdicts' # <<>>
      BY <1>3, <3>1 DEF SendsWell
    <3>3. ASSUME NEW j \in DOMAIN q, i < j
          PROVE  q[j].kind \notin {"release", "cancel"}
      <4>1. /\ j - Len(p) \in DOMAIN t /\ q[j] = t[j - Len(p)]
            /\ i - Len(p) < j - Len(p)
        BY <1>2, <2>2, <3>3
      <4> QED
        BY <1>3, <3>1, <4>1 DEF Orders
    <3> QED
      BY <3>2, <3>3
  <2> QED
    BY <2>1, <2>2
<1> QED
  BY <1>8 DEF EndLast, p, t, q

\* A channel loses its first message, or everything, when the server is silent.
LEMMA SilentChannels ==
  ASSUME MoneyInv, [MatchNext]_matchAllVars,
         ~(ServerStep \/ \E s \in Slots : HandleClientMessage(s))
  PROVE  /\ UNCHANGED <<sent, verdicts>>
         /\ \A s \in Slots : \/ down'[s] = down[s] \/ down'[s] = <<>>
                             \/ down[s] # <<>> /\ down'[s] = Tail(down[s])
<1>1. CASE NodesAndWorkers \/ UNCHANGED matchAllVars
  BY <1>1 DEF NodesAndWorkers, serverVars, loopVars, serverHistory, matchAllVars,
              movingVars
<1>2. ASSUME NEW s \in Slots, ConnectionChange(s)
      PROVE  /\ UNCHANGED <<sent, verdicts>>
             /\ UNCHANGED down \/ down' = [down EXCEPT ![s] = <<>>]
  BY <1>2 DEF ConnectionChange, Join, Connect, NoticeGone, LoseConnection, Lost,
              Disconnect, NoticeDisconnect, Crash, serverVars, loopVars, serverHistory
<1>3. ASSUME NEW s \in Slots, ClientProgress(s)
      PROVE  /\ UNCHANGED <<sent, verdicts>>
             /\ UNCHANGED down \/ \E kind : Reads(s, kind)
  <2>1. CASE \/ SetupStep(s) \/ SetupReady(s) \/ SetupFailed(s)
             \/ Linger(s) \/ ExitClient(s)
             \/ \E op \in Ops, r \in Ids : DrainResult(s, op, r)
    BY <2>1 DEF SetupStep, SetupReady, SetupFailed, Linger, ExitClient, DrainResult,
                serverVars, loopVars, serverHistory
  <2>2. CASE Welcome(s) \/ ReadOffer(s) \/ ReadCancel(s) \/ ReadEnded(s)
    BY <2>2 DEF Welcome, ReadOffer, ReadCancel, ReadEnded, Starts,
                serverVars, loopVars, serverHistory
  <2>3. CASE ReadRelease(s)
    BY <2>3 DEF ReadRelease, SettleRelease, RefuseRelease, Starts,
                serverVars, loopVars, serverHistory
  <2> QED
    BY <1>3, <2>1, <2>2, <2>3 DEF ClientProgress
<1>4. down \in [Slots -> Seq(DownMessages)]
  BY DEF MoneyInv, ChannelsSound
<1> QED
  BY <1>1, <1>2, <1>3, <1>4 DEF MatchNext, Reads

LEMMA EndLastTail ==
  ASSUME NEW D, NEW q \in Seq(D), q # <<>>, EndLast(q)
  PROVE  /\ EndLast(Tail(q))
         /\ (\E i \in DOMAIN Tail(q) : Tail(q)[i].kind = "ended")
              => \E i \in DOMAIN q : q[i].kind = "ended"
         /\ Head(q).kind = "ended" =>
              \A j \in DOMAIN q : q[j].kind \notin {"release", "cancel"}
<1> DEFINE t == Tail(q)
<1>1. /\ Len(q) \in Nat /\ Len(q) > 0 /\ DOMAIN q = 1 .. Len(q)
      /\ DOMAIN t = 1 .. Len(q) - 1
      /\ \A i \in 1 .. Len(q) - 1 : t[i] = q[i + 1]
      /\ Head(q) = q[1]
  BY HeadTailProperties, LenProperties, EmptySeq
<1>2. \A i, j \in DOMAIN q :
        q[i].kind = "ended" /\ i < j => q[j].kind \notin {"release", "cancel"}
  BY DEF EndLast
<1> HIDE DEF t
<1>3. \A i \in DOMAIN t : i + 1 \in DOMAIN q /\ t[i] = q[i + 1] /\ i \in Nat
  BY <1>1
<1>4. \A i, j \in DOMAIN t : i < j => i + 1 < j + 1
  BY <1>3
<1>5. EndLast(t)
  BY <1>2, <1>3, <1>4 DEF EndLast
<1>6. Head(q).kind = "ended" =>
        \A j \in DOMAIN q : q[j].kind \notin {"release", "cancel"}
  <2>1. 1 \in DOMAIN q /\ \A j \in DOMAIN q : j = 1 \/ 1 < j
    BY <1>1
  <2> QED
    BY <1>1, <1>2, <2>1
<1> QED
  BY <1>3, <1>5, <1>6 DEF t

\* The channels keep the end last.
LEMMA EndLastStep ==
  ASSUME MoneyInv, VerdictInv, PlaySound, OnceInv, ExitInv, [MatchNext]_matchAllVars
  PROVE  /\ \A s \in Slots :
              /\ EndLast(down'[s])
              /\ (\E i \in DOMAIN down'[s] : down'[s][i].kind = "ended")
                   => verdicts' # <<>>
         /\ verdicts # <<>> => verdicts' # <<>>
         /\ sent \subseteq sent'
         /\ verdicts # <<>> => \A o \in sent' \ sent : o[1] = "offer"
<1> DEFINE Good(q) ==
      EndLast(q) /\ ((\E i \in DOMAIN q : q[i].kind = "ended") => verdicts' # <<>>)
<1>0. Good(<<>>)
  BY DEF EndLast
<1>1. CASE ServerStep \/ \E s \in Slots : HandleClientMessage(s)
  <2>1. /\ ServerInv' /\ LoopTypes' /\ Telling /\ SendsWell
        /\ DownMessages \subseteq DownMessages'
    BY <1>1, ServerTells
  <2>2. ASSUME NEW s \in Slots
        PROVE  Good(down'[s])
    <3>1. CASE s \in connected
      <4>1. down'[s] = down[s] \o Told(s)
        BY <2>1, <3>1 DEF Telling
      <4>2. down[s] \in Seq(DownMessages')
        BY <2>1, SeqMonotonic DEF MoneyInv, ChannelsSound
      <4>3. /\ EndLast(down[s])
            /\ (\E i \in DOMAIN down[s] : down[s][i].kind = "ended") => verdicts # <<>>
        BY DEF ExitInv
      <4>4. Good(down[s] \o Told(s))
        BY <2>1, <4>2, <4>3, ToldLast
      <4> QED
        BY <4>1, <4>4
    <3>2. CASE s \notin connected
      <4>1. down'[s] = <<>>
        BY <2>1, <3>2 DEF Telling
      <4> QED
        BY <1>0, <4>1
    <3> QED
      BY <3>1, <3>2
  <2> QED
    BY <2>1, <2>2 DEF SendsWell
<1>2. CASE ~(ServerStep \/ \E s \in Slots : HandleClientMessage(s))
  <2>1. /\ UNCHANGED <<sent, verdicts>>
        /\ \A s \in Slots : \/ down'[s] = down[s] \/ down'[s] = <<>>
                            \/ down[s] # <<>> /\ down'[s] = Tail(down[s])
    BY <1>2, SilentChannels
  <2>2. ASSUME NEW s \in Slots
        PROVE  Good(down'[s])
    <3>1. Good(down[s]) /\ down[s] \in Seq(DownMessages)
      BY <2>1 DEF ExitInv, MoneyInv, ChannelsSound
    <3>2. down[s] # <<>> => Good(Tail(down[s]))
      <4> HIDE DEF Good
      <4>1. ASSUME down[s] # <<>>
            PROVE  Good(Tail(down[s]))
        BY <3>1, <4>1, EndLastTail DEF Good
      <4> QED
        BY <4>1
    <3> HIDE DEF Good
    <3> QED
      BY <1>0, <2>1, <3>1, <3>2
  <2> QED
    BY <2>1, <2>2
<1> QED
  BY <1>1, <1>2

\* Who can leave, and who can be told of the end.
LEMMA ClientEffects ==
  ASSUME MoneyInv, OnceInv, SeatTypes, [MatchNext]_matchAllVars, NEW s \in Slots
  PROVE  /\ client[s] \in {"finished", "gone"} => client'[s] = client[s]
         /\ client'[s] \in {"leaving", "finished"} =>
              \/ client[s] \in {"leaving", "finished"}
              \/ MayExit(s) /\ UNCHANGED endSeen /\ (UNCHANGED work \/ Killing(s))
                 /\ client[s] \in {"playing", "cut"}
         /\ endSeen'[s] = endSeen[s] \/ ReadEnded(s)
         /\ refused \subseteq refused'
<1> DEFINE Effect ==
         /\ client[s] \in {"finished", "gone"} => client'[s] = client[s]
         /\ client'[s] \in {"leaving", "finished"} =>
              \/ client[s] \in {"leaving", "finished"}
              \/ MayExit(s) /\ UNCHANGED endSeen /\ (UNCHANGED work \/ Killing(s))
                 /\ client[s] \in {"playing", "cut"}
         /\ endSeen'[s] = endSeen[s] \/ ReadEnded(s)
         /\ refused \subseteq refused'
<1> SUFFICES Effect
  OBVIOUS
<1>0. UNCHANGED <<client, endSeen, refused>> => Effect
  OBVIOUS
<1>1. CASE \/ ServerStep \/ UNCHANGED matchAllVars \/ NodesAndWorkers
           \/ \E t \in Slots : HandleClientMessage(t)
  BY <1>0, <1>1 DEF ServerStep, HandleClientMessage, matchAllVars, movingVars,
                    NodesAndWorkers, clientVars, guardVars
<1>2. ASSUME NEW t \in Slots, ConnectionChange(t)
      PROVE  Effect
  <2>1. CASE Join(t)
    BY <2>1 DEF Join, guardVars, SeatTypes
  <2>2. CASE NoticeGone(t) \/ LoseConnection(t)
    BY <1>0, <2>2 DEF NoticeGone, LoseConnection, Lost, clientVars, guardVars
  <2>3. CASE NoticeDisconnect(t) \/ Crash(t)
    <3>1. /\ client[t] \notin {"finished", "gone"} /\ UNCHANGED <<endSeen, refused>>
          /\ \/ client' = [client EXCEPT ![t] = "gone"]
             \/ client' = [client EXCEPT ![t] = "cut"]
      BY <2>3 DEF NoticeDisconnect, Crash, Fails, Leave, Alive, guardVars
    <3> QED
      BY <3>1 DEF SeatTypes
  <2> QED
    BY <1>2, <2>1, <2>2, <2>3 DEF ConnectionChange
<1>3. ASSUME NEW t \in Slots, ClientProgress(t)
      PROVE  Effect
  <2>1. CASE Welcome(t) \/ SetupStep(t) \/ SetupReady(t)
    <3>1. /\ UNCHANGED <<endSeen, refused>>
          /\ \/ UNCHANGED client
             \/ /\ client[t] \notin {"finished", "gone"}
                /\ \/ client' = [client EXCEPT ![t] = "playing"]
                   \/ client' = [client EXCEPT ![t] = "joining"]
      BY <2>1 DEF Welcome, SetupStep, SetupReady, guardVars
    <3> QED
      BY <3>1 DEF SeatTypes
  <2>2. CASE SetupFailed(t)
    <3>1. /\ client[t] \notin {"finished", "gone"} /\ UNCHANGED <<endSeen, refused>>
          /\ \/ client' = [client EXCEPT ![t] = "gone"]
             \/ client' = [client EXCEPT ![t] = "cut"]
      BY <2>2 DEF SetupFailed, Leave, guardVars
    <3> QED
      BY <3>1 DEF SeatTypes
  <2>3. CASE ReadOffer(t) \/ ReadCancel(t)
    BY <1>0, <2>3 DEF ReadOffer, ReadCancel, Starts, guardVars
  <2>4. CASE ReadRelease(t)
    <3>1. UNCHANGED <<client, endSeen>> /\ refused \subseteq refused'
      BY <2>4 DEF ReadRelease, SettleRelease, RefuseRelease, Starts, clientVars
    <3> QED
      BY <3>1
  <2>5. CASE ReadEnded(t)
    BY <2>5 DEF ReadEnded, guardVars, SeatTypes
  <2>6. CASE Linger(t) \/ ExitClient(t)
    <3>1. /\ UNCHANGED <<endSeen, refused>>
          /\ \/ client' = [client EXCEPT ![t] = "leaving"]
             \/ client' = [client EXCEPT ![t] = "finished"]
          /\ \/ client[t] = "leaving"
             \/ client[t] \in {"playing", "cut"} /\ MayExit(t)
          /\ UNCHANGED work \/ Killing(t)
      BY <2>6 DEF Linger, ExitClient, Leave, guardVars, nodeVars
    <3> QED
      BY <3>1 DEF SeatTypes
  <2>7. ASSUME NEW op \in Ops, NEW r \in Ids, DrainResult(t, op, r)
        PROVE  Effect
    BY <1>0, <2>7 DEF DrainResult, guardVars
  <2> QED
    BY <1>3, <2>1, <2>2, <2>3, <2>4, <2>5, <2>6, <2>7 DEF ClientProgress
<1> QED
  BY <1>1, <1>2, <1>3 DEF MatchNext

\* What was taken up stays so.
LEMMA TakenStays ==
  ASSUME MoneyInv, OnceInv, SeatTypes, [MatchNext]_matchAllVars,
         NEW kind \in Orders, NEW r \in Ids, TakenUp(kind, r)
  PROVE  TakenUp(kind, r)'
<1>1. refused \subseteq refused'
  BY ClientEffects DEF Slots
<1>2. OpOf(kind) \in Ops
  BY OpsApart
<1>3. work[OpOf(kind)][r] # "none" => work'[OpOf(kind)][r] # "none"
  BY <1>2, WorkEffects DEF Busy, Ready
<1> QED
  BY <1>1, <1>3 DEF TakenUp

LEMMA ServedStep ==
  ASSUME MoneyInv, VerdictInv, PlaySound, OnceInv, SeatTypes, ExitInv,
         [MatchNext]_matchAllVars, NEW s \in Slots, endSeen'[s]
  PROVE  verdicts' # <<>> /\ Served(s)'
<1>1. endSeen[s] \/ ReadEnded(s)
  BY ClientEffects
<1>2. verdicts # <<>> /\ Served(s)
  <2>1. CASE endSeen[s]
    BY <2>1 DEF ExitInv
  <2>2. CASE ReadEnded(s)
    <3>1. /\ down[s] # <<>> /\ Head(down[s]).kind = "ended" /\ s \in connected
          /\ down[s] \in Seq(DownMessages) /\ EndLast(down[s])
      BY <2>2 DEF ReadEnded, Reads, Linked, MoneyInv, ChannelsSound, ExitInv
    <3>2. \A j \in DOMAIN down[s] : down[s][j].kind \notin {"release", "cancel"}
      BY <3>1, EndLastTail
    <3>3. 1 \in DOMAIN down[s] /\ down[s][1].kind = "ended"
      BY <3>1, HeadTailProperties, LenProperties, EmptySeq
    <3>4. verdicts # <<>>
      BY <3>3 DEF ExitInv
    <3>5. ASSUME NEW kind \in {"release", "cancel"}, NEW r \in PaidTo(s),
                 <<kind, r>> \in sent, ~TakenUp(kind, r)
          PROVE  FALSE
      <4>1. Recipient(kind, r) = s
        BY DEF Recipient, PaidTo
      <4>2. <<kind, r>> \in OrdersIn(down[s])
        BY <3>1, <3>5, <4>1 DEF OnceInv, Untaken
      <4>3. PICK i \in DOMAIN down[s] : Key(down[s][i]) = <<kind, r>>
        BY <4>2 DEF OrdersIn
      <4>4. down[s][i].kind = kind
        BY <4>3 DEF Key
      <4> QED
        BY <3>2, <4>4
    <3> QED
      BY <3>4, <3>5 DEF Served
  <2> QED
    BY <1>1, <2>1, <2>2
<1>3. /\ verdicts' # <<>>
      /\ \A o \in sent' \ sent : o[1] = "offer"
  BY <1>2, EndLastStep
<1>4. ASSUME NEW kind \in {"release", "cancel"}, NEW r \in PaidTo(s)',
             <<kind, r>> \in sent'
      PROVE  TakenUp(kind, r)'
  <2>1. kind \in Orders /\ r \in PaidTo(s) /\ r \in Ids
    BY DEF Orders, PaidTo, Payee, Payer, Opponent
  <2>2. <<kind, r>> \in sent
    BY <1>3, <1>4
  <2>3. TakenUp(kind, r)
    BY <1>2, <2>1, <2>2 DEF Served
  <2> QED
    BY <2>1, <2>3, TakenStays
<1> QED
  BY <1>3, <1>4 DEF Served

LEMMA AtRestStep ==
  ASSUME MoneyInv, OnceInv, SeatTypes, CountInv, ExitInv,
         [MatchNext]_matchAllVars, NEW s \in Slots,
         client'[s] \in {"leaving", "finished"}
  PROVE  endSeen'[s] /\ AtRest(s)'
<1>1. endSeen[s] => endSeen'[s]
  BY ClientEffects DEF ReadEnded, SeatTypes
<1>2. ASSUME NEW op \in {"settle", "cancel"}, NEW r \in PaidTo(s)
      PROVE  /\ op \in Ops /\ r \in Ids /\ Doer(op, r) = s
             /\ \A kind \in Orders : op = OpOf(kind) => kind \in {"release", "cancel"}
  BY OpsApart DEF Ops, PaidTo, Doer, Orders
<1>3. PaidTo(s)' = PaidTo(s)
  BY DEF PaidTo, Payee, Payer, Opponent
<1>4. CASE client[s] \in {"leaving", "finished"}
  <2>1. endSeen[s] /\ AtRest(s) /\ Served(s)
    BY <1>4 DEF ExitInv
  <2>2. ASSUME NEW op \in {"settle", "cancel"}, NEW r \in PaidTo(s)
        PROVE  work'[op][r] \in {"none", "drained"}
    <3>1. work[op][r] \in {"none", "drained"}
      BY <2>1 DEF AtRest
    <3>2. ASSUME work'[op][r] # work[op][r]
          PROVE  FALSE
      <4>1. PICK kind \in Orders : op = OpOf(kind) /\ Begins(s, kind, r)
        <5>1. work[op][r] \notin Busy \cup Ready
          BY <3>1 DEF Busy, Ready
        <5>2. op # "wait"
          OBVIOUS
        <5> QED
          BY <1>2, <3>2, <5>1, <5>2, WorkEffects
      <4>2. <<kind, r>> \in sent /\ ~TakenUp(kind, r)
        BY <4>1, OrderRead DEF Begins, MoneyInv
      <4>3. kind \in {"release", "cancel"}
        BY <1>2, <4>1
      <4> QED
        BY <2>1, <4>2, <4>3 DEF Served
    <3> QED
      BY <3>1, <3>2
  <2> QED
    BY <1>1, <1>3, <2>1, <2>2 DEF AtRest
<1>5. CASE client[s] \notin {"leaving", "finished"}
  <2>1. /\ endSeen[s] /\ pending[s] = 0 /\ client[s] \in {"playing", "cut"}
        /\ UNCHANGED work \/ Killing(s)
    BY <1>5, ClientEffects DEF MayExit
  <2>2. Running(s) = {}
    <3>1. 0 = Cardinality(Running(s)) + SetupShare(s) /\ SetupShare(s) \in Nat
      BY <2>1 DEF CountInv, Counted, Alive, SetupShare
    <3>2. Cardinality(Running(s)) = 0
      BY <3>1, RunningFinite
    <3> QED
      BY <3>2, RunningFinite, FS_EmptySet
  <2>3. ASSUME NEW op \in {"settle", "cancel"}, NEW r \in PaidTo(s)
        PROVE  work'[op][r] \in {"none", "drained"}
    <3>1. <<op, r>> \in Ops \X Ids /\ Doer(op, r) = s
      BY <1>2
    <3>2. work[op][r] \notin Busy \cup Ready
      BY <2>2, <3>1 DEF Running
    <3>3. work[op][r] # "killed"
      BY <1>2, <2>1 DEF ExitInv
    <3>4. work[op][r] \in WorkStates
      BY <1>2 DEF MoneyInv, NodeSound
    <3>5. work'[op][r] = work[op][r]
      BY <1>2, <2>1, <3>2 DEF Killing
    <3> QED
      BY <3>2, <3>3, <3>4, <3>5 DEF WorkStates
  <2> QED
    BY <1>1, <1>3, <2>1, <2>3 DEF AtRest
<1> QED
  BY <1>4, <1>5

LEMMA ExitStep ==
  ASSUME MoneyInv, VerdictInv, PlaySound, OnceInv, SeatTypes, CountInv, ExitInv,
         [MatchNext]_matchAllVars
  PROVE  ExitInv'
<1>1. ASSUME NEW op \in Ops, NEW r \in Ids, work'[op][r] = "killed"
      PROVE  client'[Doer(op, r)] \in {"finished", "gone"}
  <2>1. Doer(op, r) \in Slots
    BY DEF Doer, Payee, Payer, Opponent, Slots
  <2>2. CASE work[op][r] = "killed"
    BY <2>1, <2>2, ClientEffects DEF ExitInv
  <2>3. CASE work[op][r] # "killed"
    BY <1>1, <2>3, WorkEffects DEF Busy, Ready
  <2> QED
    BY <2>2, <2>3
<1>2. \A op \in Ops, r \in Ids : Doer(op, r)' = Doer(op, r)
  BY DEF Doer, Payee, Payer, Opponent
<1> QED
  BY <1>1, <1>2, EndLastStep, ServedStep, AtRestStep DEF ExitInv

LEMMA ExitAlways == MatchSpec => []ExitInv
<1>1. MatchInit => ExitInv
  BY InitExit
<1>2. GroundInv /\ OnceInv /\ HoldersInv /\ CountInv /\ ExitInv
        /\ [MatchNext]_matchAllVars => ExitInv'
  BY ExitStep DEF GroundInv, HoldersInv
<1> QED
  BY <1>1, <1>2, GroundAlways, OnceInductive, GuardInductive, CountAlways, PTL
     DEF MatchSpec

\* A client that exits at the end of the match has done with every release and
\* every cancellation the server sent it, although results and orders reach it
\* in between and the two clients exit in different ways (MayExit, exit_on_end,
\* match_end_received; EndMatch, which sends the cancellations first).
THEOREM ExitCorrect == MatchSpec => []ExitLeavesNothing
<1>1. ExitInv => ExitLeavesNothing
  <2> SUFFICES ASSUME ExitInv, NEW s \in Slots, client[s] = "finished",
                      NEW r \in PaidTo(s)
               PROVE  /\ <<"release", r>> \in sent =>
                           work["settle"][r] = "drained" \/ \E x \in refused : x[1] = r
                      /\ <<"cancel", r>> \in sent => work["cancel"][r] = "drained"
    BY DEF ExitLeavesNothing
  <2>1. Served(s) /\ AtRest(s)
    BY DEF ExitInv
  <2>2. OpOf("release") = "settle" /\ OpOf("cancel") = "cancel"
    BY OpsApart
  <2> QED
    BY <2>1, <2>2 DEF Served, AtRest, TakenUp
<1> QED
  BY <1>1, ExitAlways, PTL
=============================================================================
