----------------------------- MODULE FoldProofs -----------------------------
(***************************************************************************)
(* Induction over data, as the models need it: what FoldLeft computes over *)
(* a sequence of any length.                                               *)
(*                                                                         *)
(* The theorems of the library that take an operator cannot be cited, so   *)
(* the argument goes through sets: a non-empty set of natural numbers has  *)
(* a least element, and what fails somewhere fails first at a least number.*)
(* A fold is a function on sets of indices that satisfies an equation.     *)
(* FoldExists says that there is one; StepsOf takes it from one element of *)
(* a sequence to the next.                                                 *)
(***************************************************************************)
EXTENDS Integers, SequencesExt, WellFoundedInduction, TLAPS

\* Every non-empty set of natural numbers has a least element.
LEMMA LeastNumber ==
  ASSUME NEW T, T \subseteq Nat, T # {}
  PROVE  \E m \in T : \A n \in T : m <= n
<1> DEFINE R == OpToRel(<, Nat)
<1>1. IsWellFoundedOn(R, Nat)
  BY NatLessThanWellFounded
<1>2. \A x, y \in Nat : <<y, x>> \in R <=> y < x
  BY DEF OpToRel
<1> HIDE DEF R
<1>3. PICK m \in T : \A y \in T : ~(<<y, m>> \in R)
  BY <1>1, WFMin
<1>4. ASSUME NEW n \in T
      PROVE  m <= n
  <2>1. m \in Nat /\ n \in Nat
    OBVIOUS
  <2>2. ~(n < m)
    BY <1>2, <1>3, <2>1
  <2> QED
    BY <2>1, <2>2
<1> QED
  BY <1>4

\* What holds of 0 and passes from each number to the next up to n holds of
\* all of them; Good is the set of those it holds of.
LEMMA UpTo ==
  ASSUME NEW n \in Nat, NEW Good, 0 \in Good,
         \A k \in 0 .. (n - 1) : k \in Good => k + 1 \in Good
  PROVE  0 .. n \subseteq Good
<1> DEFINE Bad == {k \in 0 .. n : k \notin Good}
<1> SUFFICES ASSUME Bad # {}
             PROVE  FALSE
  OBVIOUS
<1>1. PICK m \in Bad : \A k \in Bad : m <= k
  <2>1. Bad \subseteq Nat
    OBVIOUS
  <2> HIDE DEF Bad
  <2> QED
    BY <2>1, LeastNumber
<1>2. m - 1 \in 0 .. (n - 1) /\ m - 1 \notin Bad
  BY <1>1
<1>3. m - 1 \in Good
  BY <1>2
<1> QED
  BY <1>2, <1>3

\* A non-empty set of indices has a greatest one, and Max chooses it.
LEMMA MaxOfIndices ==
  ASSUME NEW n \in Nat, NEW s, s \subseteq 1 .. n, s # {}
  PROVE  Max(s) \in s /\ \A x \in s : x <= Max(s)
<1> DEFINE Above == {k \in Nat : \A x \in s : x <= k}
<1>1. PICK k \in Above : \A l \in Above : k <= l
  <2>1. n \in Above
    OBVIOUS
  <2> QED
    BY <2>1, LeastNumber
<1>2. k \in s
  <2> SUFFICES ASSUME k \notin s
               PROVE  FALSE
    OBVIOUS
  <2>1. PICK x \in s : TRUE
    OBVIOUS
  <2>2. k - 1 \in Above
    BY <2>1
  <2> QED
    BY <1>1, <2>2
<1>3. \E m \in s : \A x \in s : m >= x
  BY <1>1, <1>2
<1> QED
  BY <1>3 DEF Max

LEMMA WithoutMax ==
  ASSUME NEW n \in Nat, NEW s, s \subseteq 1 .. (n + 1), s # {}
  PROVE  Max(s) \in 1 .. (n + 1) /\ s \ {Max(s)} \subseteq 1 .. n
<1>1. n + 1 \in Nat
  OBVIOUS
<1>2. Max(s) \in s /\ \A x \in s : x <= Max(s)
  BY <1>1, MaxOfIndices
<1>3. Max(s) \in 1 .. (n + 1)
  BY <1>2
<1>4. ASSUME NEW x \in s \ {Max(s)}
      PROVE  x \in 1 .. n
  <2>1. x \in 1 .. (n + 1) /\ x <= Max(s) /\ x # Max(s)
    BY <1>2
  <2> HIDE DEF Max
  <2> QED
    BY <1>3, <2>1
<1> QED
  BY <1>3, <1>4

\* The greatest of the first n indices, and what is below it.
LEMMA MaxOfInterval ==
  ASSUME NEW n \in Nat \ {0}
  PROVE  Max(1 .. n) = n /\ (1 .. n) \ {n} = 1 .. (n - 1)
<1>1. n \in Nat /\ 1 .. n \subseteq 1 .. n /\ 1 .. n # {} /\ n \in 1 .. n
  OBVIOUS
<1>2. Max(1 .. n) \in 1 .. n /\ \A x \in 1 .. n : x <= Max(1 .. n)
  BY <1>1, MaxOfIndices
<1>3. n <= Max(1 .. n) /\ Max(1 .. n) <= n /\ Max(1 .. n) \in Nat
  BY <1>1, <1>2
<1>4. Max(1 .. n) = n
  BY <1>3
<1> QED
  BY <1>4

-----------------------------------------------------------------------------
(* Folds                                                                   *)

\* h[s] is the fold of g over the indices in s, in order, from base.
FoldsOver(h, g, base, n) ==
  \A s \in SUBSET (1 .. n) :
    h[s] = IF s = {} THEN base ELSE g[<<h[s \ {Max(s)}], Max(s)>>]

\* There is a fold, whatever is folded.
LEMMA FoldExists ==
  ASSUME NEW n \in Nat, NEW A, NEW base \in A, NEW g \in [A \X (1 .. n) -> A]
  PROVE  \E h \in [SUBSET (1 .. n) -> A] : FoldsOver(h, g, base, n)
<1> DEFINE Good == {k \in 0 .. n : \E h \in [SUBSET (1 .. k) -> A] : FoldsOver(h, g, base, k)}
<1>1. 0 \in Good
  <2> DEFINE h == [s \in SUBSET (1 .. 0) |-> base]
  <2>1. h \in [SUBSET (1 .. 0) -> A]
    OBVIOUS
  <2>2. 1 .. 0 = {}
    OBVIOUS
  <2>3. FoldsOver(h, g, base, 0)
    BY <2>2 DEF FoldsOver
  <2> QED
    BY <2>1, <2>3
<1>2. ASSUME NEW k \in 0 .. (n - 1), k \in Good
      PROVE  k + 1 \in Good
  <2>1. PICK h \in [SUBSET (1 .. k) -> A] : FoldsOver(h, g, base, k)
    BY <1>2
  <2> DEFINE new(s) == IF s = {} THEN base ELSE g[<<h[s \ {Max(s)}], Max(s)>>]
             f == [s \in SUBSET (1 .. (k + 1)) |-> new(s)]
  <2>2. ASSUME NEW s \in SUBSET (1 .. (k + 1)), s # {}
        PROVE  s \ {Max(s)} \in SUBSET (1 .. k) /\ Max(s) \in 1 .. n
    <3>1. k \in Nat /\ s \subseteq 1 .. (k + 1) /\ k + 1 <= n
      OBVIOUS
    <3>2. Max(s) \in 1 .. (k + 1) /\ s \ {Max(s)} \subseteq 1 .. k
      BY <2>2, <3>1, WithoutMax
    <3> QED
      BY <3>1, <3>2
  <2>3. f \in [SUBSET (1 .. (k + 1)) -> A]
    <3>1. ASSUME NEW s \in SUBSET (1 .. (k + 1))
          PROVE  new(s) \in A
      <4>1. CASE s = {}
        BY <4>1
      <4>2. CASE s # {}
        <5>1. h[s \ {Max(s)}] \in A /\ Max(s) \in 1 .. n
          BY <2>2, <4>2
        <5> QED
          BY <4>2, <5>1
      <4> QED
        BY <4>1, <4>2
    <3> HIDE DEF new
    <3> QED
      BY <3>1
  <2>4. \A t \in SUBSET (1 .. k) : f[t] = h[t]
    BY <2>1 DEF FoldsOver
  <2>5. FoldsOver(f, g, base, k + 1)
    <3> SUFFICES ASSUME NEW s \in SUBSET (1 .. (k + 1))
                 PROVE  f[s] = IF s = {} THEN base ELSE g[<<f[s \ {Max(s)}], Max(s)>>]
      BY DEF FoldsOver
    <3>1. CASE s = {}
      BY <3>1
    <3>2. CASE s # {}
      <4>1. f[s \ {Max(s)}] = h[s \ {Max(s)}]
        BY <2>2, <2>4, <3>2
      <4>2. f[s] = g[<<h[s \ {Max(s)}], Max(s)>>]
        BY <3>2
      <4> QED
        BY <3>2, <4>1, <4>2
    <3> QED
      BY <3>1, <3>2
  <2> HIDE DEF f
  <2> QED
    BY <2>3, <2>5
<1> HIDE DEF Good
<1>3. n \in Good
  BY <1>1, <1>2, UpTo
<1> QED
  BY <1>3 DEF Good

\* What has been folded after each of n indices.
LEMMA StepsOf ==
  ASSUME NEW n \in Nat, NEW fold, NEW h, \A k \in 0 .. n : h[k] = fold[1 .. k]
  PROVE  /\ h[0] = fold[{}] /\ h[n] = fold[1 .. n]
         /\ \A k \in 1 .. n :
              /\ 1 .. k \in SUBSET (1 .. n) /\ 1 .. k # {}
              /\ (1 .. k) \ {Max(1 .. k)} = 1 .. (k - 1) /\ Max(1 .. k) = k
              /\ h[k] = fold[1 .. k] /\ h[k - 1] = fold[1 .. (k - 1)]
<1>1. 1 .. 0 = {}
  OBVIOUS
<1>2. h[0] = fold[{}] /\ h[n] = fold[1 .. n]
  BY <1>1
<1>3. ASSUME NEW k \in 1 .. n
      PROVE  /\ 1 .. k \in SUBSET (1 .. n) /\ 1 .. k # {}
             /\ (1 .. k) \ {Max(1 .. k)} = 1 .. (k - 1) /\ Max(1 .. k) = k
             /\ h[k] = fold[1 .. k] /\ h[k - 1] = fold[1 .. (k - 1)]
  <2>1. k \in Nat \ {0}
    OBVIOUS
  <2>4. 1 .. k \in SUBSET (1 .. n) /\ k \in 1 .. k
    OBVIOUS
  <2>2. Max(1 .. k) = k /\ (1 .. k) \ {k} = 1 .. (k - 1)
    BY <2>1, MaxOfInterval
  <2>3. h[k] = fold[1 .. k] /\ h[k - 1] = fold[1 .. (k - 1)]
    OBVIOUS
  <2> QED
    BY <2>2, <2>3, <2>4
<1> QED
  BY <1>2, <1>3
=============================================================================
