--------------------------- MODULE WeightProofs ----------------------------
(***************************************************************************)
(* What the output arrays and rings of Bursts conserve.  Give every mbuf a *)
(* weight; then what is sent through a link weighs as much afterwards, in  *)
(* the array, in the ring and among the freed, as it did before.           *)
(*                                                                         *)
(* The loops of Bursts and Loops are recursive functions.  That a loop has *)
(* a value at every step, and what it computes, is shown by induction for  *)
(* the set of the steps up to which it does.                               *)
(***************************************************************************)
EXTENDS Bursts, WellFoundedInduction, FiniteSetTheorems, SequenceTheorems, TLAPS

-----------------------------------------------------------------------------
(* Induction over the natural numbers, for a set. *)
Less == {ss \in Nat \X Nat : ss[1] < ss[2]}

(* The order of the natural numbers is well founded. *)
LEMMA LessWF == IsWellFoundedOn(Less, Nat)
BY NatLessThanWellFounded DEF OpToRel, Less

(* A set of numbers with 0 and every successor has every number.  The      *)
(* library states induction for an operator; for a set the provers can use *)
(* it.                                                                     *)
LEMMA SetInduction ==
  ASSUME NEW S, 0 \in S, \A n \in Nat : n \in S => n + 1 \in S
  PROVE  \A n \in Nat : n \in S
<1> DEFINE T == Nat \ S
<1>2. ASSUME T # {} PROVE FALSE
  <2>0. T \subseteq Nat
    OBVIOUS
  <2>1. PICK x \in T : \A y \in T : ~ (<<y, x>> \in Less)
    <3> HIDE DEF T
    <3> QED BY <1>2, <2>0, LessWF, WFMin, Zenon
  <2>2. x \in Nat /\ x # 0 /\ x - 1 \in Nat /\ x - 1 < x /\ (x - 1) + 1 = x
    BY <2>1
  <2>3. x - 1 \in T
    BY <2>1, <2>2
  <2>4. <<x - 1, x>> \in Less
    BY <2>2 DEF Less
  <2> QED
    BY <2>1, <2>3, <2>4
<1> QED
  BY <1>2

(* The same up to a bound. *)
LEMMA UpTo ==
  ASSUME NEW n \in Nat, NEW S, 0 \in S, \A i \in 0 .. n - 1 : i \in S => i + 1 \in S
  PROVE  \A i \in 0 .. n : i \in S
<1> DEFINE T == {i \in Nat : i <= n => i \in S}
<1>1. 0 \in T
  OBVIOUS
<1>2. \A i \in Nat : i \in T => i + 1 \in T
  OBVIOUS
<1>3. \A i \in Nat : i \in T
  <2> HIDE DEF T
  <2> QED BY <1>1, <1>2, SetInduction
<1> QED
  BY <1>3

(* A loop over a sequence of n items that carries a value of A along, each *)
(* time by a step of its own.                                              *)
Looping(A, a, n, g) == a \in A /\ n \in Nat /\ g \in [1 .. n -> [A -> A]]
LoopRun(A, a, n, g, f) == f \in [0 .. n -> A] /\ f[0] = a /\ \A i \in 1 .. n : f[i] = g[i][f[i - 1]]

(* A loop runs to its end: there is a function of its intermediate values. *)
LEMMA LoopExists ==
  ASSUME NEW A, NEW a, NEW n, NEW g, Looping(A, a, n, g)
  PROVE  \E f : LoopRun(A, a, n, g, f)
<1> USE DEF Looping
<1> DEFINE Good(j, f) == f \in [0 .. j -> A] /\ f[0] = a /\ \A i \in 1 .. j : f[i] = g[i][f[i - 1]]
           S == {j \in Nat : \E f : Good(j, f)}
<1>1. 0 \in S
  <2> DEFINE f == [i \in 0 .. 0 |-> a]
  <2>1. Good(0, f)
    OBVIOUS
  <2> QED
    BY <2>1, Zenon
<1>2. ASSUME NEW j \in 0 .. n - 1, j \in S PROVE j + 1 \in S
  <2>1. PICK f : Good(j, f)
    BY <1>2
  <2> DEFINE h == [i \in 0 .. j + 1 |-> IF i <= j THEN f[i] ELSE g[i][f[j]]]
  <2>2. f[j] \in A /\ g[j + 1] \in [A -> A]
    BY <2>1
  <2>3. h \in [0 .. j + 1 -> A]
    BY <2>1, <2>2
  <2>4. h[0] = a
    BY <2>1
  <2>5. ASSUME NEW i \in 1 .. j + 1 PROVE h[i] = g[i][h[i - 1]]
    BY <2>1
  <2>6. Good(j + 1, h)
    BY <2>3, <2>4, <2>5, Zenon
  <2>7. j + 1 \in Nat
    OBVIOUS
  <2> HIDE DEF Good, h
  <2> QED
    BY <2>6, <2>7
<1>3. n \in S
  <2> HIDE DEF S
  <2>1. \A i \in 0 .. n : i \in S
    BY <1>1, <1>2, UpTo, Zenon
  <2> QED
    BY <2>1
<1> QED
  BY <1>3 DEF LoopRun

-----------------------------------------------------------------------------
(* The partial sums of SumSeq. *)
Sums(s, u) == u \in [0 .. Len(s) -> Nat] /\ u[0] = 0 /\ \A i \in 1 .. Len(s) : u[i] = u[i - 1] + s[i]

(* SumSeq returns the last of the partial sums of its loop. *)
LEMMA SumLoop ==
  ASSUME NEW s \in Seq(Nat)
  PROVE  \E u : Sums(s, u) /\ SumSeq(s) = u[Len(s)]
<1> DEFINE upTo[i \in 0 .. Len(s)] == IF i = 0 THEN 0 ELSE upTo[i - 1] + s[i]
           Eq(h) == h = [i \in 0 .. Len(s) |-> IF i = 0 THEN 0 ELSE h[i - 1] + s[i]]
           g == [i \in 1 .. Len(s) |-> [x \in Nat |-> x + s[i]]]
<1>1. SumSeq(s) = upTo[Len(s)]
  BY DEF SumSeq
<1>2. upTo = CHOOSE h : Eq(h)
  OBVIOUS
<1>3. g \in [1 .. Len(s) -> [Nat -> Nat]] /\ Len(s) \in Nat
  OBVIOUS
<1>4. PICK f : LoopRun(Nat, 0, Len(s), g, f)
  <2>1. Looping(Nat, 0, Len(s), g)
    BY <1>3, Zenon DEF Looping
  <2> HIDE DEF g
  <2> QED BY <2>1, LoopExists, Zenon
<1>5. Eq(f)
  <2>1. f = [i \in 0 .. Len(s) |-> f[i]]
    BY <1>4 DEF LoopRun
  <2>2. ASSUME NEW i \in 0 .. Len(s) PROVE f[i] = IF i = 0 THEN 0 ELSE f[i - 1] + s[i]
    <3>1. CASE i = 0
      BY <1>4, <3>1 DEF LoopRun
    <3>2. CASE i # 0
      <4>1. i \in 1 .. Len(s) /\ i - 1 \in 0 .. Len(s)
        BY <1>3, <3>2
      <4>2. f[i - 1] \in Nat /\ f[i] = g[i][f[i - 1]]
        BY <1>4, <4>1, Zenon DEF LoopRun
      <4>3. g[i] = [x \in Nat |-> x + s[i]]
        BY <4>1
      <4> HIDE DEF g
      <4> QED
        BY <3>2, <4>2, <4>3, Zenon
    <3> QED
      BY <3>1, <3>2
  <2> HIDE DEF g
  <2> QED
    BY <2>1, <2>2, Zenon
<1>6. Eq(upTo)
  <2> HIDE DEF upTo, Eq
  <2> QED BY <1>2, <1>5, Zenon
<1>7. upTo[0] = 0 /\ \A i \in 1 .. Len(s) : upTo[i] = upTo[i - 1] + s[i]
  <2> HIDE DEF upTo
  <2> QED BY <1>6, <1>3
<1>8. upTo \in [0 .. Len(s) -> Nat]
  <2> DEFINE S == {i \in 0 .. Len(s) : upTo[i] \in Nat}
  <2> HIDE DEF upTo
  <2>0. 0 \in S
    BY <1>3, <1>7
  <2>1. ASSUME NEW i \in 0 .. Len(s) - 1, i \in S PROVE i + 1 \in S
    <3>1. i + 1 \in 1 .. Len(s) /\ (i + 1) - 1 = i /\ upTo[i] \in Nat
      BY <1>3, <2>1
    <3>2. s[i + 1] \in Nat /\ upTo[i + 1] = upTo[i] + s[i + 1]
      BY <1>7, <3>1
    <3> QED
      BY <1>3, <3>1, <3>2
  <2>2. \A i \in 0 .. Len(s) : i \in S
    <3> HIDE DEF S
    <3> QED BY <1>3, <2>0, <2>1, UpTo, Zenon
  <2>3. upTo = [i \in 0 .. Len(s) |-> upTo[i]]
    BY <1>6
  <2> QED
    BY <2>2, <2>3
<1> HIDE DEF upTo
<1> QED
  BY <1>1, <1>7, <1>8, SMTT(30) DEF Sums

(* Numbers that follow the rule of the partial sums are the partial sums. *)
LEMMA SumIs ==
  ASSUME NEW s \in Seq(Nat), NEW u, Sums(s, u)
  PROVE  SumSeq(s) = u[Len(s)] /\ SumSeq(s) \in Nat
<1>1. PICK v : Sums(s, v) /\ SumSeq(s) = v[Len(s)]
  BY SumLoop
<1>2. Len(s) \in Nat
  OBVIOUS
<1> DEFINE S == {i \in 0 .. Len(s) : u[i] = v[i]}
<1>3. 0 \in S
  BY <1>1, <1>2 DEF Sums
<1>4. ASSUME NEW i \in 0 .. Len(s) - 1, i \in S PROVE i + 1 \in S
  <2>1. i + 1 \in 1 .. Len(s) /\ (i + 1) - 1 = i /\ i + 1 \in 0 .. Len(s)
    BY <1>2
  <2>2. u[i + 1] = u[(i + 1) - 1] + s[i + 1] /\ v[i + 1] = v[(i + 1) - 1] + s[i + 1]
    BY <1>1, <2>1, Zenon DEF Sums
  <2> QED
    BY <1>4, <2>1, <2>2
<1>5. \A i \in 0 .. Len(s) : i \in S
  <2> HIDE DEF S
  <2> QED BY <1>2, <1>3, <1>4, UpTo, Zenon
<1>6. Len(s) \in S
  <2> HIDE DEF S
  <2> QED BY <1>2, <1>5
<1> QED
  BY <1>1, <1>2, <1>6 DEF Sums

(* The sum of no numbers. *)
LEMMA SumEmpty == SumSeq(<<>>) = 0
<1>1. ASSUME NEW s \in Seq(Nat), Len(s) = 0 PROVE SumSeq(s) = 0
  <2> DEFINE u == [i \in 0 .. 0 |-> 0]
  <2>1. Sums(s, u) /\ u[Len(s)] = 0
    BY <1>1 DEF Sums
  <2> HIDE DEF u
  <2> QED
    BY <2>1, SumIs, Zenon
<1>2. <<>> \in Seq(Nat) /\ Len(<<>>) = 0
  OBVIOUS
<1> QED
  BY <1>1, <1>2, Zenon

(* Zero adds nothing. *)
LEMMA PlusZero ==
  ASSUME NEW x \in Nat
  PROVE  x + 0 = x /\ 0 + x = x /\ x + 0 + 0 = x /\ 0 \in Nat
  OBVIOUS

(* Sums may be regrouped. *)
LEMMA PlusAssoc ==
  ASSUME NEW x \in Nat, NEW y \in Nat, NEW z \in Nat
  PROVE  x + (y + z) = (x + y) + z
  OBVIOUS

(* The sum of one number. *)
LEMMA SumSingle ==
  ASSUME NEW x \in Nat
  PROVE  SumSeq(<<x>>) = x
<1> DEFINE u == [i \in 0 .. 1 |-> IF i = 0 THEN 0 ELSE x]
<1>1. <<x>> \in Seq(Nat) /\ u[Len(<<x>>)] = x
  OBVIOUS
<1>2. Sums(<<x>>, u)
  BY DEF Sums
<1> HIDE DEF u
<1> QED
  BY <1>1, <1>2, SumIs, Zenon

(* Sums of sequences one after the other, of sequences side by side, and   *)
(* of a sequence with at most one number that is not 0.                    *)
LEMMA SumConcat ==
  ASSUME NEW s \in Seq(Nat), NEW t \in Seq(Nat)
  PROVE  SumSeq(s \o t) = SumSeq(s) + SumSeq(t)
<1>1. PICK u : Sums(s, u) /\ SumSeq(s) = u[Len(s)]
  BY SumLoop
<1>2. PICK v : Sums(t, v) /\ SumSeq(t) = v[Len(t)]
  BY SumLoop
<1>3. Len(s) \in Nat /\ Len(t) \in Nat /\ s \o t \in Seq(Nat) /\ Len(s \o t) = Len(s) + Len(t)
  OBVIOUS
<1> DEFINE w == [i \in 0 .. Len(s \o t) |-> IF i <= Len(s) THEN u[i] ELSE u[Len(s)] + v[i - Len(s)]]
<1>4. w \in [0 .. Len(s \o t) -> Nat]
  <2> SUFFICES ASSUME NEW i \in 0 .. Len(s \o t)
               PROVE  (IF i <= Len(s) THEN u[i] ELSE u[Len(s)] + v[i - Len(s)]) \in Nat
    OBVIOUS
  <2>1. CASE i <= Len(s)
    <3>1. i \in 0 .. Len(s)
      BY <1>3, <2>1
    <3>2. u[i] \in Nat
      BY <1>1, <3>1, Zenon DEF Sums
    <3> QED
      BY <2>1, <3>2, Zenon
  <2>2. CASE i > Len(s)
    <3>1. i - Len(s) \in 0 .. Len(t) /\ Len(s) \in 0 .. Len(s)
      BY <1>3, <2>2
    <3>2. v[i - Len(s)] \in Nat /\ u[Len(s)] \in Nat
      BY <1>1, <1>2, <3>1, Zenon DEF Sums
    <3> QED
      BY <1>3, <2>2, <3>2, SMTT(30)
  <2> QED
    BY <1>3, <2>1, <2>2
<1>5. ASSUME NEW i \in 1 .. Len(s \o t) PROVE w[i] = w[i - 1] + (s \o t)[i]
  <2>1. CASE i <= Len(s)
    <3>1. (s \o t)[i] = s[i] /\ w[i] = u[i] /\ w[i - 1] = u[i - 1]
      BY <1>3, <2>1
    <3>2. u[i] = u[i - 1] + s[i]
      BY <1>1, <1>3, <2>1 DEF Sums
    <3> QED
      BY <3>1, <3>2
  <2>2. CASE i > Len(s)
    <3> DEFINE j == i - Len(s)
    <3>1. j \in 1 .. Len(t) /\ (s \o t)[i] = t[j]
      BY <1>3, <2>2
    <3>0. j \in 0 .. Len(t) /\ j - 1 \in 0 .. Len(t) /\ t[j] \in Nat
      BY <1>3, <3>1
    <3> HIDE DEF j
    <3>2. v[j] = v[j - 1] + t[j] /\ v[j] \in Nat /\ v[j - 1] \in Nat /\ v[0] = 0 /\ t[j] \in Nat
      BY <1>2, <3>0, <3>1, Zenon DEF Sums
    <3>3. u[Len(s)] \in Nat
      BY <1>1, <1>3 DEF Sums
    <3>6. u[Len(s)] + v[j] = (u[Len(s)] + v[j - 1]) + t[j]
      <4>1. u[Len(s)] + (v[j - 1] + t[j]) = (u[Len(s)] + v[j - 1]) + t[j]
        BY <3>2, <3>3, PlusAssoc
      <4> QED
        BY <3>2, <4>1, Zenon
    <3> USE DEF j
    <3>4. w[i] = u[Len(s)] + v[j]
      BY <1>3, <2>2
    <3>5. w[i - 1] = u[Len(s)] + v[j - 1]
      <4>1. CASE j = 1
        BY <1>3, <2>2, <3>2, <3>3, <4>1
      <4>2. CASE j # 1
        BY <1>3, <2>2, <3>1, <4>2
      <4> QED
        BY <4>1, <4>2
    <3> QED
      BY <3>1, <3>4, <3>5, <3>6, Zenon
  <2> QED
    BY <1>3, <2>1, <2>2
<1>6. w[0] = 0 /\ w[Len(s \o t)] = u[Len(s)] + v[Len(t)]
  <2>0. Len(s) \in 0 .. Len(s)
    BY <1>3
  <2>1. u[0] = 0 /\ v[0] = 0 /\ u[Len(s)] \in Nat
    BY <1>1, <1>2, <2>0, Zenon DEF Sums
  <2>2. w[0] = u[0]
    BY <1>3
  <2>3. CASE Len(t) = 0
    BY <1>3, <2>1, <2>3
  <2>4. CASE Len(t) > 0
    <3>1. Len(s \o t) \in 0 .. Len(s \o t) /\ ~(Len(s \o t) <= Len(s)) /\ Len(s \o t) - Len(s) = Len(t)
      BY <1>3, <2>4
    <3> QED
      BY <2>1, <2>2, <3>1
  <2> QED
    BY <1>3, <2>1, <2>2, <2>3, <2>4
<1>7. Sums(s \o t, w)
  <2> HIDE DEF w
  <2> QED BY <1>4, <1>5, <1>6, Zenon DEF Sums
<1> HIDE DEF w
<1> QED
  BY <1>1, <1>2, <1>3, <1>6, <1>7, SumIs, Zenon

Aside(s, t, r) == Len(s) = Len(r) /\ Len(t) = Len(r) /\ \A i \in 1 .. Len(r) : r[i] = s[i] + t[i]
(* The sum of sequences side by side. *)
LEMMA SumSides ==
  ASSUME NEW s \in Seq(Nat), NEW t \in Seq(Nat), NEW r \in Seq(Nat), Aside(s, t, r)
  PROVE  SumSeq(r) = SumSeq(s) + SumSeq(t)
<1>1. PICK u : Sums(s, u) /\ SumSeq(s) = u[Len(s)]
  BY SumLoop
<1>2. PICK v : Sums(t, v) /\ SumSeq(t) = v[Len(t)]
  BY SumLoop
<1>3. Len(r) \in Nat /\ Len(s) = Len(r) /\ Len(t) = Len(r)
  BY DEF Aside
<1> DEFINE w == [i \in 0 .. Len(r) |-> u[i] + v[i]]
<1>4. w \in [0 .. Len(r) -> Nat] /\ w[0] = 0 /\ w[Len(r)] = u[Len(s)] + v[Len(t)]
  BY <1>1, <1>2, <1>3 DEF Sums
<1>5. ASSUME NEW i \in 1 .. Len(r) PROVE w[i] = w[i - 1] + r[i]
  <2>1. u[i] = u[i - 1] + s[i] /\ v[i] = v[i - 1] + t[i] /\ r[i] = s[i] + t[i]
    BY <1>1, <1>2, <1>3 DEF Sums, Aside
  <2>2. i - 1 \in 0 .. Len(r) /\ i \in 0 .. Len(r) /\ s[i] \in Nat /\ t[i] \in Nat
    BY <1>3
  <2>3. u[i - 1] \in Nat /\ v[i - 1] \in Nat
    BY <1>1, <1>2, <1>3, <2>2, Zenon DEF Sums
  <2>4. w[i] = u[i] + v[i] /\ w[i - 1] = u[i - 1] + v[i - 1]
    BY <2>2
  <2>5. (u[i - 1] + s[i]) + (v[i - 1] + t[i]) = (u[i - 1] + v[i - 1]) + (s[i] + t[i])
    <3> DEFINE a == u[i - 1]
               b == s[i]
               c == v[i - 1]
               d == t[i]
    <3>1. a \in Nat /\ b \in Nat /\ c \in Nat /\ d \in Nat
      BY <2>2, <2>3, Zenon
    <3> HIDE DEF a, b, c, d
    <3>2. (a + b) + (c + d) = (a + c) + (b + d)
      BY <3>1
    <3> QED
      BY <3>2, Zenon DEF a, b, c, d
  <2> HIDE DEF w
  <2> QED
    BY <2>1, <2>4, <2>5, Zenon
<1>6. Sums(r, w)
  BY <1>4, <1>5, Zenon DEF Sums
<1> HIDE DEF w
<1> QED
  BY <1>1, <1>2, <1>4, <1>6, SumIs

(* The sum of a sequence with one number that is not 0, at a. *)
LEMMA SumOne ==
  ASSUME NEW s \in Seq(Nat), NEW a \in 1 .. Len(s), \A i \in 1 .. Len(s) : i # a => s[i] = 0
  PROVE  SumSeq(s) = s[a]
<1>1. Len(s) \in Nat /\ s[a] \in Nat
  OBVIOUS
<1> DEFINE w == [i \in 0 .. Len(s) |-> IF i < a THEN 0 ELSE s[a]]
<1>2. w \in [0 .. Len(s) -> Nat] /\ w[0] = 0 /\ w[Len(s)] = s[a]
  BY <1>1
<1>3. ASSUME NEW i \in 1 .. Len(s) PROVE w[i] = w[i - 1] + s[i]
  BY <1>1
<1>4. Sums(s, w)
  BY <1>2, <1>3 DEF Sums
<1> HIDE DEF w
<1> QED
  BY <1>2, <1>4, SumIs

(* The sum of zeros. *)
LEMMA SumZero ==
  ASSUME NEW s \in Seq(Nat), \A i \in 1 .. Len(s) : s[i] = 0
  PROVE  SumSeq(s) = 0
<1>1. Len(s) \in Nat
  OBVIOUS
<1> DEFINE w == [i \in 0 .. Len(s) |-> 0]
<1>2. Sums(s, w) /\ w[Len(s)] = 0
  BY <1>1 DEF Sums
<1> HIDE DEF w
<1> QED
  BY <1>2, SumIs

-----------------------------------------------------------------------------
(* The weight of a sequence whose elements have weights w. *)
Image(s, w) == [i \in 1 .. Len(s) |-> w[s[i]]]
Weight(s, w) == SumSeq(Image(s, w))

(* The weights of the elements of a sequence are a sequence of numbers. *)
LEMMA ImageOf ==
  ASSUME NEW X, NEW w \in [X -> Nat], NEW s \in Seq(X)
  PROVE  Image(s, w) \in Seq(Nat) /\ Len(Image(s, w)) = Len(s) /\ \A i \in 1 .. Len(s) : Image(s, w)[i] = w[s[i]]
BY DEF Image

(* A weight is a number. *)
LEMMA WeightNat ==
  ASSUME NEW X, NEW w \in [X -> Nat], NEW s \in Seq(X)
  PROVE  Weight(s, w) \in Nat
<1>1. Image(s, w) \in Seq(Nat)
  BY ImageOf
<1>2. PICK u : Sums(Image(s, w), u)
  BY <1>1, SumLoop
<1> QED
  BY <1>1, <1>2, SumIs DEF Weight

(* The empty sequence weighs nothing. *)
LEMMA WeightEmpty ==
  ASSUME NEW w
  PROVE  Weight(<<>>, w) = 0
<1>1. Image(<<>>, w) = <<>>
  BY DEF Image
<1> QED
  BY <1>1, SumEmpty, Zenon DEF Weight

(* Two sequences one after the other weigh what both do. *)
LEMMA WeightConcat ==
  ASSUME NEW X, NEW w \in [X -> Nat], NEW s \in Seq(X), NEW t \in Seq(X)
  PROVE  Weight(s \o t, w) = Weight(s, w) + Weight(t, w)
<1>1. s \o t \in Seq(X)
  OBVIOUS
<1>2. Image(s, w) \in Seq(Nat) /\ Image(t, w) \in Seq(Nat)
  BY ImageOf, SMTT(30)
<1>3. Image(s \o t, w) = Image(s, w) \o Image(t, w)
  BY DEF Image
<1> QED
  BY <1>2, <1>3, SumConcat, Zenon DEF Weight

(* An element appended adds its weight. *)
LEMMA WeightAppend ==
  ASSUME NEW X, NEW w \in [X -> Nat], NEW s \in Seq(X), NEW x \in X
  PROVE  Weight(Append(s, x), w) = Weight(s, w) + w[x]
<1>1. Append(s, x) = s \o <<x>> /\ <<x>> \in Seq(X) /\ w[x] \in Nat
  OBVIOUS
<1>2. Image(<<x>>, w) = <<w[x]>>
  BY DEF Image
<1>3. Weight(<<x>>, w) = w[x]
  BY <1>1, <1>2, SumSingle DEF Weight
<1>4. Weight(s \o <<x>>, w) = Weight(s, w) + Weight(<<x>>, w)
  BY <1>1, WeightConcat, Zenon
<1> QED
  BY <1>1, <1>3, <1>4

-----------------------------------------------------------------------------
(* The loop of Among. *)
Selects(s, S, X, f) ==
  /\ f \in [0 .. Len(s) -> Seq(X)] /\ f[0] = <<>>
  /\ \A i \in 1 .. Len(s) : f[i] = IF s[i] \in S THEN Append(f[i - 1], s[i]) ELSE f[i - 1]

(* Among returns the last value of its loop. *)
LEMMA AmongLoop ==
  ASSUME NEW X, NEW S, NEW s \in Seq(X)
  PROVE  \E f : Selects(s, S, X, f) /\ Among(s, S) = f[Len(s)]
<1> DEFINE upTo[i \in 0 .. Len(s)] ==
             IF i = 0 THEN <<>> ELSE IF s[i] \in S THEN Append(upTo[i - 1], s[i]) ELSE upTo[i - 1]
           Eq(h) == h = [i \in 0 .. Len(s) |->
             IF i = 0 THEN <<>> ELSE IF s[i] \in S THEN Append(h[i - 1], s[i]) ELSE h[i - 1]]
           g == [i \in 1 .. Len(s) |-> [x \in Seq(X) |-> IF s[i] \in S THEN Append(x, s[i]) ELSE x]]
<1>1. Among(s, S) = upTo[Len(s)]
  BY DEF Among
<1>2. upTo = CHOOSE h : Eq(h)
  OBVIOUS
<1>3. Len(s) \in Nat /\ \A i \in 1 .. Len(s) : s[i] \in X
  OBVIOUS
<1>4. PICK f : LoopRun(Seq(X), <<>>, Len(s), g, f)
  <2>1. ASSUME NEW i \in 1 .. Len(s) PROVE g[i] \in [Seq(X) -> Seq(X)]
    <3>1. ASSUME NEW x \in Seq(X) PROVE (IF s[i] \in S THEN Append(x, s[i]) ELSE x) \in Seq(X)
      BY <1>3
    <3>2. g[i] = [x \in Seq(X) |-> IF s[i] \in S THEN Append(x, s[i]) ELSE x]
      OBVIOUS
    <3> HIDE DEF g
    <3> QED
      BY <3>1, <3>2
  <2>2. <<>> \in Seq(X) /\ g \in [1 .. Len(s) -> [Seq(X) -> Seq(X)]]
    BY <2>1
  <2> HIDE DEF g
  <2>3. Looping(Seq(X), <<>>, Len(s), g)
    BY <1>3, <2>2, Zenon DEF Looping
  <2> QED
    BY <2>3, LoopExists, Zenon
<1>5. Eq(f)
  <2>1. f = [i \in 0 .. Len(s) |-> f[i]]
    BY <1>4, Zenon DEF LoopRun
  <2>2. ASSUME NEW i \in 0 .. Len(s)
        PROVE f[i] = IF i = 0 THEN <<>> ELSE IF s[i] \in S THEN Append(f[i - 1], s[i]) ELSE f[i - 1]
    <3>1. CASE i = 0
      BY <1>4, <3>1, Zenon DEF LoopRun
    <3>2. CASE i # 0
      <4>1. i \in 1 .. Len(s) /\ i - 1 \in 0 .. Len(s)
        BY <1>3, <3>2
      <4>2. f[i - 1] \in Seq(X) /\ f[i] = g[i][f[i - 1]]
        BY <1>4, <4>1, Zenon DEF LoopRun
      <4>3. g[i] = [x \in Seq(X) |-> IF s[i] \in S THEN Append(x, s[i]) ELSE x]
        BY <4>1
      <4> HIDE DEF g
      <4> QED
        BY <3>2, <4>2, <4>3, Zenon
    <3> QED
      BY <3>1, <3>2, Zenon
  <2> HIDE DEF g
  <2> QED
    BY <2>1, <2>2, Zenon
<1>6. Eq(upTo)
  <2> HIDE DEF upTo, Eq
  <2> QED BY <1>2, <1>5, Zenon
<1>7. /\ upTo[0] = <<>>
      /\ \A i \in 1 .. Len(s) : upTo[i] = IF s[i] \in S THEN Append(upTo[i - 1], s[i]) ELSE upTo[i - 1]
  <2> HIDE DEF upTo
  <2>1. ASSUME NEW i \in 0 .. Len(s)
        PROVE upTo[i] = IF i = 0 THEN <<>> ELSE IF s[i] \in S THEN Append(upTo[i - 1], s[i]) ELSE upTo[i - 1]
    BY <1>6, Zenon
  <2>2. 0 \in 0 .. Len(s) /\ \A i \in 1 .. Len(s) : i \in 0 .. Len(s) /\ i # 0
    BY <1>3
  <2> QED
    BY <2>1, <2>2, Zenon
<1>8. upTo \in [0 .. Len(s) -> Seq(X)]
  <2> DEFINE T == {i \in 0 .. Len(s) : upTo[i] \in Seq(X)}
  <2> HIDE DEF upTo
  <2>0. 0 \in T
    <3>1. 0 \in 0 .. Len(s) /\ <<>> \in Seq(X)
      BY <1>3
    <3> QED
      BY <1>7, <3>1, Zenon
  <2>1. ASSUME NEW i \in 0 .. Len(s) - 1, i \in T PROVE i + 1 \in T
    <3>1. i + 1 \in 1 .. Len(s) /\ (i + 1) - 1 = i /\ upTo[i] \in Seq(X) /\ i + 1 \in 0 .. Len(s)
      BY <1>3, <2>1
    <3>2. s[i + 1] \in X /\ upTo[i + 1] = IF s[i + 1] \in S THEN Append(upTo[(i + 1) - 1], s[i + 1]) ELSE upTo[(i + 1) - 1]
      BY <1>3, <1>7, <3>1, Zenon
    <3>3. Append(upTo[i], s[i + 1]) \in Seq(X)
      BY <3>1, <3>2
    <3> QED
      BY <3>1, <3>2, <3>3, Zenon
  <2>2. \A i \in 0 .. Len(s) : i \in T
    <3> HIDE DEF T
    <3> QED BY <1>3, <2>0, <2>1, UpTo, Zenon
  <2>3. upTo = [i \in 0 .. Len(s) |-> upTo[i]]
    BY <1>6, Zenon
  <2> QED
    BY <2>2, <2>3, Zenon
<1> HIDE DEF upTo
<1> QED
  BY <1>1, <1>7, <1>8, Zenon DEF Selects

-----------------------------------------------------------------------------
(* Links, and what one and all of their mbufs weigh. *)
Links(X) == [out : Seq(X), to : Seq(X), freed : Seq(X)]
LinkWeight(l, w) == Weight(l.out, w) + Weight(l.to, w) + Weight(l.freed, w)

(* The parts of a link, and that their weight is a number. *)
LEMMA LinkParts ==
  ASSUME NEW X, NEW w \in [X -> Nat], NEW l \in Links(X)
  PROVE  /\ l.out \in Seq(X) /\ l.to \in Seq(X) /\ l.freed \in Seq(X)
         /\ Weight(l.out, w) \in Nat /\ Weight(l.to, w) \in Nat /\ Weight(l.freed, w) \in Nat
         /\ LinkWeight(l, w) \in Nat
<1>1. l.out \in Seq(X) /\ l.to \in Seq(X) /\ l.freed \in Seq(X)
  BY DEF Links
<1>2. Weight(l.out, w) \in Nat /\ Weight(l.to, w) \in Nat /\ Weight(l.freed, w) \in Nat
  BY <1>1, WeightNat, Zenon
<1> QED
  BY <1>1, <1>2 DEF LinkWeight

(* EnqueueBulk moves the output array to the ring or frees it. *)
LEMMA EnqueueWeighs ==
  ASSUME NEW X, NEW w \in [X -> Nat], NEW l \in Links(X)
  PROVE  EnqueueBulk(l) \in Links(X) /\ LinkWeight(EnqueueBulk(l), w) = LinkWeight(l, w)
<1>1. l.out \in Seq(X) /\ l.to \in Seq(X) /\ l.freed \in Seq(X)
  BY DEF Links
<1>2. Weight(l.out, w) \in Nat /\ Weight(l.to, w) \in Nat /\ Weight(l.freed, w) \in Nat
  BY LinkParts, Zenon
<1>3. <<>> \in Seq(X) /\ l.to \o l.out \in Seq(X) /\ l.freed \o l.out \in Seq(X)
  BY <1>1
<1>4. /\ Weight(l.to \o l.out, w) = Weight(l.to, w) + Weight(l.out, w)
      /\ Weight(l.freed \o l.out, w) = Weight(l.freed, w) + Weight(l.out, w)
      /\ Weight(<<>>, w) = 0
  BY <1>1, WeightConcat, WeightEmpty, Zenon
<1> DEFINE a == Link(<<>>, l.to \o l.out, l.freed)
           b == Link(<<>>, l.to, l.freed \o l.out)
<1>5. EnqueueBulk(l) = a \/ EnqueueBulk(l) = b
  BY Zenon DEF EnqueueBulk
<1>6. a \in Links(X) /\ a.out = <<>> /\ a.to = l.to \o l.out /\ a.freed = l.freed
  BY <1>1, <1>3 DEF Link, Links
<1>7. b \in Links(X) /\ b.out = <<>> /\ b.to = l.to /\ b.freed = l.freed \o l.out
  BY <1>1, <1>3 DEF Link, Links
<1> HIDE DEF a, b
<1>8. LinkWeight(a, w) = LinkWeight(l, w)
  BY <1>2, <1>4, <1>6 DEF LinkWeight
<1>9. LinkWeight(b, w) = LinkWeight(l, w)
  BY <1>2, <1>4, <1>7 DEF LinkWeight
<1> QED
  BY <1>5, <1>6, <1>7, <1>8, <1>9, Zenon

(* SendOrBuffer adds an mbuf to the link, BurstFlush adds nothing. *)
LEMMA SendWeighs ==
  ASSUME NEW X, NEW w \in [X -> Nat], NEW l \in Links(X), NEW x \in X
  PROVE  SendOrBuffer(l, x) \in Links(X) /\ LinkWeight(SendOrBuffer(l, x), w) = LinkWeight(l, w) + w[x]
<1> DEFINE more == [l EXCEPT !.out = Append(@, x)]
<1>1. l.out \in Seq(X) /\ l.to \in Seq(X) /\ l.freed \in Seq(X) /\ Append(l.out, x) \in Seq(X) /\ w[x] \in Nat
  BY DEF Links
<1>2. more \in Links(X) /\ more.out = Append(l.out, x) /\ more.to = l.to /\ more.freed = l.freed
  BY <1>1, Zenon DEF Links
<1>3. SendOrBuffer(l, x) = more \/ SendOrBuffer(l, x) = EnqueueBulk(more)
  BY Zenon DEF SendOrBuffer
<1>4. Weight(l.out, w) \in Nat /\ Weight(l.to, w) \in Nat /\ Weight(l.freed, w) \in Nat
  BY LinkParts, Zenon
<1>5. Weight(Append(l.out, x), w) = Weight(l.out, w) + w[x]
  BY <1>1, WeightAppend, Zenon
<1> HIDE DEF more
<1>6. LinkWeight(more, w) = LinkWeight(l, w) + w[x]
  BY <1>1, <1>2, <1>4, <1>5 DEF LinkWeight
<1>7. EnqueueBulk(more) \in Links(X) /\ LinkWeight(EnqueueBulk(more), w) = LinkWeight(more, w)
  BY <1>2, EnqueueWeighs, Zenon
<1> QED
  BY <1>2, <1>3, <1>6, <1>7, Zenon

(* BurstFlush keeps the weight of the link. *)
LEMMA FlushWeighs ==
  ASSUME NEW X, NEW w \in [X -> Nat], NEW l \in Links(X)
  PROVE  BurstFlush(l) \in Links(X) /\ LinkWeight(BurstFlush(l), w) = LinkWeight(l, w)
<1>1. BurstFlush(l) = l \/ BurstFlush(l) = EnqueueBulk(l)
  BY Zenon DEF BurstFlush
<1> QED
  BY <1>1, EnqueueWeighs, Zenon

-----------------------------------------------------------------------------
(* The loop of SendEach, up to its step n. *)
SendSteps(l, ms, n, f) ==
  f = [i \in 0 .. n |-> f[i]] /\ f[0] = l /\ \A i \in 1 .. n : f[i] = SendOrBuffer(f[i - 1], ms[i])

(* The only element of a set. *)
LEMMA TheOnly ==
  ASSUME NEW x
  PROVE  The({x}) = x
BY DEF The

(* SendEach returns the last value of its loop. *)
LEMMA SendLoop ==
  ASSUME NEW l, NEW ms, Len(ms) \in Nat
  PROVE  \E f : SendSteps(l, ms, Len(ms), f) /\ SendEach(l, ms) = f[Len(ms)]
<1> DEFINE n == Len(ms)
           after[i \in 0 .. Len(ms)] ==
             IF i = 0 THEN l ELSE The({SendOrBuffer(x, ms[i]) : x \in {after[i - 1]}})
           Eq(h) == h = [i \in 0 .. Len(ms) |->
             IF i = 0 THEN l ELSE The({SendOrBuffer(x, ms[i]) : x \in {h[i - 1]}})]
           S == {j \in Nat : \E f : SendSteps(l, ms, j, f)}
<1>1. SendEach(l, ms) = after[Len(ms)]
  BY DEF SendEach
<1>2. after = CHOOSE h : Eq(h)
  OBVIOUS
<1>3. 0 \in S
  <2> DEFINE f == [i \in 0 .. 0 |-> l]
  <2>1. SendSteps(l, ms, 0, f)
    BY DEF SendSteps
  <2> HIDE DEF f
  <2> QED
    BY <2>1
<1>4. ASSUME NEW j \in 0 .. n - 1, j \in S PROVE j + 1 \in S
  <2>1. PICK f : SendSteps(l, ms, j, f)
    BY <1>4
  <2> DEFINE h == [i \in 0 .. j + 1 |-> IF i <= j THEN f[i] ELSE SendOrBuffer(f[j], ms[j + 1])]
  <2>2. h = [i \in 0 .. j + 1 |-> h[i]] /\ h[0] = l
    BY <2>1 DEF SendSteps
  <2>3. ASSUME NEW i \in 1 .. j + 1 PROVE h[i] = SendOrBuffer(h[i - 1], ms[i])
    <3>1. CASE i <= j
      <4>1. h[i] = f[i] /\ h[i - 1] = f[i - 1] /\ i \in 1 .. j
        BY <3>1
      <4> HIDE DEF h
      <4> QED
        BY <2>1, <4>1, Zenon DEF SendSteps
    <3>2. CASE i = j + 1
      <4>1. h[i] = SendOrBuffer(f[j], ms[j + 1]) /\ h[i - 1] = f[j]
        BY <3>2
      <4> HIDE DEF h
      <4> QED
        BY <3>2, <4>1, Zenon
    <3> QED
      BY <3>1, <3>2
  <2> HIDE DEF h
  <2>4. SendSteps(l, ms, j + 1, h)
    BY <2>2, <2>3, Zenon DEF SendSteps
  <2>5. j + 1 \in Nat
    OBVIOUS
  <2> QED
    BY <2>4, <2>5, Zenon
<1>5. PICK f : SendSteps(l, ms, n, f)
  <2> HIDE DEF S
  <2>1. \A i \in 0 .. n : i \in S
    BY <1>3, <1>4, UpTo, SMTT(30)
  <2>2. n \in S
    BY <2>1
  <2> QED
    BY <2>2, Zenon DEF S
<1>6. ASSUME NEW i, NEW h PROVE The({SendOrBuffer(x, ms[i]) : x \in {h[i - 1]}}) = SendOrBuffer(h[i - 1], ms[i])
  <2>1. {SendOrBuffer(x, ms[i]) : x \in {h[i - 1]}} = {SendOrBuffer(h[i - 1], ms[i])}
    OBVIOUS
  <2> QED
    BY <2>1, TheOnly, Zenon
<1>7. Eq(f)
  <2>1. f = [i \in 0 .. n |-> f[i]]
    BY <1>5, Zenon DEF SendSteps
  <2>2. ASSUME NEW i \in 0 .. n
        PROVE f[i] = IF i = 0 THEN l ELSE The({SendOrBuffer(x, ms[i]) : x \in {f[i - 1]}})
    <3>1. i = 0 \/ i \in 1 .. n
      OBVIOUS
    <3> QED
      BY <1>5, <1>6, <3>1, Zenon DEF SendSteps
  <2> QED
    BY <2>1, <2>2, Zenon
<1>8. Eq(after)
  <2> HIDE DEF after, Eq
  <2> QED BY <1>2, <1>7, Zenon
<1>9. SendSteps(l, ms, n, after)
  <2> HIDE DEF after
  <2>1. ASSUME NEW i \in 0 .. n
        PROVE after[i] = IF i = 0 THEN l ELSE The({SendOrBuffer(x, ms[i]) : x \in {after[i - 1]}})
    BY <1>8, Zenon
  <2>2. 0 \in 0 .. n /\ \A i \in 1 .. n : i \in 0 .. n /\ i # 0
    OBVIOUS
  <2>3. after = [i \in 0 .. n |-> after[i]]
    BY <1>8, Zenon
  <2> QED
    BY <1>6, <2>1, <2>2, <2>3, Zenon DEF SendSteps
<1> HIDE DEF after
<1> QED
  BY <1>1, <1>9, Zenon

(* What is sent through a link stays in it, or is freed. *)
LEMMA SendEachWeighs ==
  ASSUME NEW X, NEW w \in [X -> Nat], NEW l \in Links(X), NEW ms \in Seq(X)
  PROVE  SendEach(l, ms) \in Links(X) /\ LinkWeight(SendEach(l, ms), w) = LinkWeight(l, w) + Weight(ms, w)
<1>1. Len(ms) \in Nat /\ \A i \in 1 .. Len(ms) : ms[i] \in X /\ w[ms[i]] \in Nat
  OBVIOUS
<1>2. PICK f : SendSteps(l, ms, Len(ms), f) /\ SendEach(l, ms) = f[Len(ms)]
  BY <1>1, SendLoop, Zenon
<1>3. Image(ms, w) \in Seq(Nat) /\ Len(Image(ms, w)) = Len(ms) /\ \A i \in 1 .. Len(ms) : Image(ms, w)[i] = w[ms[i]]
  BY ImageOf
<1>4. PICK u : Sums(Image(ms, w), u) /\ Weight(ms, w) = u[Len(ms)]
  BY <1>3, SumLoop DEF Weight
<1>5. LinkWeight(l, w) \in Nat
  BY LinkParts, Zenon
<1> DEFINE T == {i \in 0 .. Len(ms) : f[i] \in Links(X) /\ LinkWeight(f[i], w) = LinkWeight(l, w) + u[i]}
<1>6. 0 \in T
  <2>1. f[0] = l /\ u[0] = 0 /\ 0 \in 0 .. Len(ms)
    BY <1>1, <1>2, <1>4 DEF SendSteps, Sums
  <2>2. LinkWeight(l, w) = LinkWeight(l, w) + 0
    BY <1>5
  <2> QED
    BY <2>1, <2>2, Zenon
<1>7. ASSUME NEW i \in 0 .. Len(ms) - 1, i \in T PROVE i + 1 \in T
  <2>1. i + 1 \in 1 .. Len(ms) /\ (i + 1) - 1 = i /\ i + 1 \in 0 .. Len(ms) /\ i \in 0 .. Len(ms)
    BY <1>1
  <2>2. f[i + 1] = SendOrBuffer(f[(i + 1) - 1], ms[i + 1]) /\ ms[i + 1] \in X
    BY <1>1, <1>2, <2>1, Zenon DEF SendSteps
  <2>3. u[i + 1] = u[(i + 1) - 1] + w[ms[i + 1]] /\ u[i] \in Nat /\ w[ms[i + 1]] \in Nat
    BY <1>1, <1>3, <1>4, <2>1, Zenon DEF Sums
  <2>4. f[i] \in Links(X) /\ LinkWeight(f[i], w) = LinkWeight(l, w) + u[i]
    BY <1>7, Zenon
  <2>5. f[i + 1] \in Links(X) /\ LinkWeight(f[i + 1], w) = LinkWeight(f[i], w) + w[ms[i + 1]]
    <3>1. /\ SendOrBuffer(f[i], ms[i + 1]) \in Links(X)
          /\ LinkWeight(SendOrBuffer(f[i], ms[i + 1]), w) = LinkWeight(f[i], w) + w[ms[i + 1]]
      <4> DEFINE a == f[i]
                 b == ms[i + 1]
      <4>1. a \in Links(X) /\ b \in X
        BY <2>2, <2>4, Zenon
      <4> HIDE DEF a, b
      <4>2. SendOrBuffer(a, b) \in Links(X) /\ LinkWeight(SendOrBuffer(a, b), w) = LinkWeight(a, w) + w[b]
        BY <4>1, SendWeighs, ZenonT(30)
      <4> QED
        BY <4>2, Zenon DEF a, b
    <3>2. f[i + 1] = SendOrBuffer(f[i], ms[i + 1])
      BY <2>1, <2>2, Zenon
    <3> QED
      BY <3>1, <3>2, Zenon
  <2>6. (LinkWeight(l, w) + u[i]) + w[ms[i + 1]] = LinkWeight(l, w) + (u[i] + w[ms[i + 1]])
    <3> DEFINE a == LinkWeight(l, w)
               b == u[i]
               c == w[ms[i + 1]]
    <3>1. a \in Nat /\ b \in Nat /\ c \in Nat
      BY <1>5, <2>3, Zenon
    <3> HIDE DEF a, b, c
    <3>2. (a + b) + c = a + (b + c)
      BY <3>1
    <3> QED
      BY <3>2, Zenon DEF a, b, c
  <2> QED
    BY <2>1, <2>3, <2>4, <2>5, <2>6, Zenon
<1>8. Len(ms) \in T
  <2> HIDE DEF T
  <2>1. \A i \in 0 .. Len(ms) : i \in T
    BY <1>1, <1>6, <1>7, UpTo, Zenon
  <2> QED
    BY <1>1, <2>1
<1> QED
  BY <1>2, <1>4, <1>8, Zenon

(* S and T part the elements of X. *)
Splits(X, S, T) == \A x \in X : x \in T <=> x \notin S
(* A sequence weighs what its elements in S and its others weigh. *)
LEMMA AmongWeighs ==
  ASSUME NEW X, NEW w \in [X -> Nat], NEW s \in Seq(X), NEW S, NEW T, Splits(X, S, T)
  PROVE  /\ Among(s, S) \in Seq(X) /\ Among(s, T) \in Seq(X)
         /\ Weight(s, w) = Weight(Among(s, S), w) + Weight(Among(s, T), w)
<1>1. Len(s) \in Nat /\ \A i \in 1 .. Len(s) : s[i] \in X /\ w[s[i]] \in Nat
  OBVIOUS
<1>2. PICK f : Selects(s, S, X, f) /\ Among(s, S) = f[Len(s)]
  BY AmongLoop, Zenon
<1>3. PICK h : Selects(s, T, X, h) /\ Among(s, T) = h[Len(s)]
  BY AmongLoop, Zenon
<1>4. Image(s, w) \in Seq(Nat) /\ Len(Image(s, w)) = Len(s) /\ \A i \in 1 .. Len(s) : Image(s, w)[i] = w[s[i]]
  BY ImageOf
<1>5. PICK u : Sums(Image(s, w), u) /\ Weight(s, w) = u[Len(s)]
  BY <1>4, SumLoop DEF Weight
<1> DEFINE R == {i \in 0 .. Len(s) : u[i] = Weight(f[i], w) + Weight(h[i], w)}
<1>6. 0 \in R
  <2>1. f[0] = <<>> /\ h[0] = <<>> /\ u[0] = 0 /\ 0 \in 0 .. Len(s)
    BY <1>1, <1>2, <1>3, <1>5 DEF Selects, Sums
  <2>2. Weight(f[0], w) = 0 /\ Weight(h[0], w) = 0
    BY <2>1, WeightEmpty, Zenon
  <2> QED
    BY <2>1, <2>2
<1>7. ASSUME NEW i \in 0 .. Len(s) - 1, i \in R PROVE i + 1 \in R
  <2>1. i + 1 \in 1 .. Len(s) /\ (i + 1) - 1 = i /\ i + 1 \in 0 .. Len(s) /\ i \in 0 .. Len(s)
    BY <1>1
  <2> DEFINE x == s[i + 1]
             a == f[i]
             b == h[i]
             c == u[i]
  <2>2. x \in X /\ w[x] \in Nat /\ (x \in T <=> x \notin S)
    BY <1>1, <2>1, Zenon DEF Splits
  <2>3. f[i + 1] = (IF x \in S THEN Append(a, x) ELSE a) /\ a \in Seq(X)
    BY <1>2, <2>1, Zenon DEF Selects
  <2>4. h[i + 1] = (IF x \in T THEN Append(b, x) ELSE b) /\ b \in Seq(X)
    BY <1>3, <2>1, Zenon DEF Selects
  <2>5. u[i + 1] = c + w[x] /\ c = Weight(a, w) + Weight(b, w)
    BY <1>4, <1>5, <1>7, <2>1, Zenon DEF Sums
  <2> HIDE DEF x, a, b, c
  <2>6. /\ Weight(a, w) \in Nat /\ Weight(b, w) \in Nat
        /\ Weight(Append(a, x), w) = Weight(a, w) + w[x] /\ Weight(Append(b, x), w) = Weight(b, w) + w[x]
    BY <2>2, <2>3, <2>4, WeightNat, WeightAppend, ZenonT(30)
  <2>7. c + w[x] = (IF x \in S THEN Weight(Append(a, x), w) + Weight(b, w) ELSE Weight(a, w) + Weight(Append(b, x), w))
    BY <2>2, <2>5, <2>6
  <2>8. u[i + 1] = Weight(f[i + 1], w) + Weight(h[i + 1], w)
    BY <2>2, <2>3, <2>4, <2>5, <2>7, Zenon
  <2> QED
    BY <2>1, <2>8, Zenon
<1>8. Len(s) \in R
  <2> HIDE DEF R
  <2>1. \A i \in 0 .. Len(s) : i \in R
    BY <1>1, <1>6, <1>7, UpTo, Zenon
  <2> QED
    BY <1>1, <2>1
<1>9. f[Len(s)] \in Seq(X) /\ h[Len(s)] \in Seq(X)
  <2>1. Len(s) \in 0 .. Len(s)
    BY <1>1
  <2> QED
    BY <1>2, <1>3, <2>1, Zenon DEF Selects
<1> QED
  BY <1>2, <1>3, <1>5, <1>8, <1>9, Zenon

(* What is taken from a ring and what is left of it are the ring. *)
LEMMA BurstRest ==
  ASSUME NEW X, NEW w \in [X -> Nat], NEW s \in Seq(X)
  PROVE  /\ Burst(s) \in Seq(X) /\ Rest(s) \in Seq(X)
         /\ Weight(s, w) = Weight(Burst(s), w) + Weight(Rest(s), w)
<1>1. Taken(s) \in 0 .. Len(s) /\ Len(s) \in Nat
  BY BurstAssumption DEF Taken
<1>2. Burst(s) \in Seq(X) /\ Rest(s) \in Seq(X)
  BY <1>1 DEF Burst, Rest
<1>3. s = Burst(s) \o Rest(s)
  <2> DEFINE n == Taken(s)
  <2>1. SubSeq(s, 1, Len(s)) = s
    BY SubSeqFull
  <2>2. 1 \in 1 .. Len(s) + 1 /\ n \in 1 - 1 .. Len(s) /\ Len(s) \in n .. Len(s)
    BY <1>1
  <2>3. SubSeq(s, 1, n) \o SubSeq(s, n + 1, Len(s)) = SubSeq(s, 1, Len(s))
    BY <2>2, ConcatAdjacentSubSeq, Zenon
  <2> QED
    BY <2>1, <2>3, Zenon DEF Burst, Rest
<1> DEFINE a == Burst(s)
           b == Rest(s)
<1>4. a \in Seq(X) /\ b \in Seq(X) /\ s = a \o b
  BY <1>2, <1>3, Zenon
<1> HIDE DEF a, b
<1>5. Weight(a \o b, w) = Weight(a, w) + Weight(b, w)
  BY <1>4, WeightConcat, Zenon
<1>6. Weight(s, w) = Weight(a, w) + Weight(b, w)
  BY <1>4, <1>5, Zenon
<1> QED
  BY <1>4, <1>6, Zenon DEF a, b

-----------------------------------------------------------------------------
(* The weight that counts how often m occurs. *)
One(X, m) == [x \in X |-> IF x = m THEN 1 ELSE 0]
Injective(s) == \A i, j \in 1 .. Len(s) : s[i] = s[j] => i = j
Occurs(s, m) == \E i \in 1 .. Len(s) : s[i] = m

(* One is a weight. *)
LEMMA OneWeight ==
  ASSUME NEW X, NEW m
  PROVE  One(X, m) \in [X -> Nat]
BY DEF One

(* The weights of the elements under One, each. *)
LEMMA CountImage ==
  ASSUME NEW X, NEW m, NEW s \in Seq(X)
  PROVE  /\ Image(s, One(X, m)) \in Seq(Nat) /\ Len(Image(s, One(X, m))) = Len(s)
         /\ \A i \in 1 .. Len(s) : Image(s, One(X, m))[i] = IF s[i] = m THEN 1 ELSE 0
<1>1. \A i \in 1 .. Len(s) : s[i] \in X
  OBVIOUS
<1>2. One(X, m) \in [X -> Nat] /\ \A x \in X : One(X, m)[x] = IF x = m THEN 1 ELSE 0
  BY DEF One
<1> HIDE DEF One
<1> QED
  BY <1>1, <1>2, ImageOf

(* What does not occur weighs nothing; what does, something. *)
LEMMA CountNone ==
  ASSUME NEW X, NEW m, NEW s \in Seq(X), ~ Occurs(s, m)
  PROVE  Weight(s, One(X, m)) = 0
<1> DEFINE r == Image(s, One(X, m))
<1>1. r \in Seq(Nat) /\ Len(r) = Len(s) /\ \A i \in 1 .. Len(s) : r[i] = IF s[i] = m THEN 1 ELSE 0
  BY CountImage, Zenon
<1>2. Weight(s, One(X, m)) = SumSeq(r)
  BY Zenon DEF Weight
<1> HIDE DEF r
<1>3. \A i \in 1 .. Len(r) : r[i] = 0
  BY <1>1, Zenon DEF Occurs
<1> QED
  BY <1>1, <1>2, <1>3, SumZero

(* The number at a, and the others. *)
LEMMA SumOut ==
  ASSUME NEW s \in Seq(Nat), NEW a \in 1 .. Len(s)
  PROVE  \E r \in Seq(Nat) : /\ Len(r) = Len(s) /\ r[a] = 0
                             /\ \A i \in 1 .. Len(s) : i # a => r[i] = s[i]
                             /\ SumSeq(r) \in Nat /\ SumSeq(s) = s[a] + SumSeq(r)
<1> DEFINE r == [i \in 1 .. Len(s) |-> IF i = a THEN 0 ELSE s[i]]
           t == [i \in 1 .. Len(s) |-> IF i = a THEN s[i] ELSE 0]
<1>1. Len(s) \in Nat /\ \A i \in 1 .. Len(s) : s[i] \in Nat
  OBVIOUS
<1>2. r \in Seq(Nat) /\ Len(r) = Len(s) /\ r[a] = 0 /\ \A i \in 1 .. Len(s) : i # a => r[i] = s[i]
  BY <1>1
<1>3. t \in Seq(Nat) /\ Len(t) = Len(s) /\ t[a] = s[a] /\ \A i \in 1 .. Len(t) : i # a => t[i] = 0
  BY <1>1
<1> HIDE DEF r, t
<1>4. SumSeq(t) = s[a]
  <2>1. a \in 1 .. Len(t)
    BY <1>3
  <2>2. SumSeq(t) = t[a]
    BY <1>3, <2>1, SumOne
  <2> QED
    BY <1>3, <2>2
<1>5. Aside(t, r, s)
  <2>1. ASSUME NEW i \in 1 .. Len(s) PROVE s[i] = t[i] + r[i]
    <3>1. CASE i = a
      BY <1>1, <1>2, <1>3, <3>1
    <3>2. CASE i # a
      <4>1. t[i] = 0 /\ r[i] = s[i] /\ s[i] \in Nat
        BY <1>1, <1>2, <1>3, <3>2, Zenon
      <4> QED
        BY <4>1
    <3> QED
      BY <3>1, <3>2, Zenon
  <2> QED
    BY <1>2, <1>3, <2>1, Zenon DEF Aside
<1>6. SumSeq(s) = SumSeq(t) + SumSeq(r)
  BY <1>2, <1>3, <1>5, SumSides, Zenon
<1>7. SumSeq(r) \in Nat
  <2>1. PICK u : Sums(r, u)
    BY <1>2, SumLoop, Zenon
  <2> QED
    BY <1>2, <2>1, SumIs, Zenon
<1> QED
  BY <1>2, <1>4, <1>6, <1>7, Zenon

(* What occurs weighs something. *)
LEMMA CountSome ==
  ASSUME NEW X, NEW m, NEW s \in Seq(X), Occurs(s, m)
  PROVE  Weight(s, One(X, m)) >= 1
<1> DEFINE r == Image(s, One(X, m))
<1>1. r \in Seq(Nat) /\ Len(r) = Len(s) /\ \A i \in 1 .. Len(s) : r[i] = IF s[i] = m THEN 1 ELSE 0
  BY CountImage, Zenon
<1>2. Weight(s, One(X, m)) = SumSeq(r)
  BY Zenon DEF Weight
<1>3. PICK a \in 1 .. Len(s) : s[a] = m
  BY Zenon DEF Occurs
<1> HIDE DEF r
<1>4. r[a] = 1 /\ a \in 1 .. Len(r)
  BY <1>1, <1>3, Zenon
<1>5. PICK q \in Seq(Nat) : SumSeq(q) \in Nat /\ SumSeq(r) = r[a] + SumSeq(q)
  BY <1>1, <1>4, SumOut, Zenon
<1> QED
  BY <1>2, <1>4, <1>5

(* In a sequence without repetition what occurs weighs 1. *)
LEMMA CountInjective ==
  ASSUME NEW X, NEW m, NEW s \in Seq(X), Injective(s), Occurs(s, m)
  PROVE  Weight(s, One(X, m)) = 1
<1> DEFINE r == Image(s, One(X, m))
<1>1. r \in Seq(Nat) /\ Len(r) = Len(s) /\ \A i \in 1 .. Len(s) : r[i] = IF s[i] = m THEN 1 ELSE 0
  BY CountImage, Zenon
<1>2. Weight(s, One(X, m)) = SumSeq(r)
  BY Zenon DEF Weight
<1>3. PICK a \in 1 .. Len(s) : s[a] = m
  BY Zenon DEF Occurs
<1> HIDE DEF r
<1>4. r[a] = 1 /\ a \in 1 .. Len(r) /\ \A i \in 1 .. Len(r) : i # a => r[i] = 0
  BY <1>1, <1>3, Zenon DEF Injective
<1> QED
  BY <1>1, <1>2, <1>4, SumOne

(* And what repeats weighs more. *)
AtMostOnce(s, X) == \A m \in X : Weight(s, One(X, m)) <= 1
(* A sequence in which nothing weighs more than 1 repeats nothing. *)
LEMMA CountTwice ==
  ASSUME NEW X, NEW s \in Seq(X), AtMostOnce(s, X)
  PROVE  Injective(s)
<1>0. ASSUME NEW m
      PROVE  /\ Image(s, One(X, m)) \in Seq(Nat) /\ Len(Image(s, One(X, m))) = Len(s)
             /\ \A i \in 1 .. Len(s) : Image(s, One(X, m))[i] = IF s[i] = m THEN 1 ELSE 0
  BY CountImage, Zenon
<1> SUFFICES ASSUME NEW m, NEW a \in 1 .. Len(s), NEW b \in 1 .. Len(s), s[a] = m, s[b] = m, a # b PROVE FALSE
  BY Zenon DEF Injective
<1> DEFINE r == Image(s, One(X, m))
<1>3. m \in X /\ s[b] = m /\ s[a] = m
  OBVIOUS
<1>1. r \in Seq(Nat) /\ Len(r) = Len(s) /\ \A i \in 1 .. Len(s) : r[i] = IF s[i] = m THEN 1 ELSE 0
  BY <1>0, Zenon
<1>2. Weight(s, One(X, m)) = SumSeq(r)
  BY Zenon DEF Weight
<1> HIDE DEF r
<1>4. r[a] = 1 /\ r[b] = 1 /\ a \in 1 .. Len(r)
  BY <1>1, <1>3, Zenon
<1>5. PICK q \in Seq(Nat) : /\ Len(q) = Len(r) /\ SumSeq(q) \in Nat /\ SumSeq(r) = r[a] + SumSeq(q)
                            /\ \A i \in 1 .. Len(r) : i # a => q[i] = r[i]
  BY <1>1, <1>4, SumOut, Zenon
<1>6. q[b] = 1 /\ b \in 1 .. Len(q)
  BY <1>1, <1>4, <1>5, Zenon
<1>7. PICK p \in Seq(Nat) : SumSeq(p) \in Nat /\ SumSeq(q) = q[b] + SumSeq(p)
  BY <1>6, SumOut, Zenon
<1>8. Weight(s, One(X, m)) <= 1
  BY <1>3, Zenon DEF AtMostOnce
<1> QED
  BY <1>2, <1>4, <1>5, <1>6, <1>7, <1>8

(* A prefix of a sequence without repetition repeats nothing. *)
LEMMA PrefixOnce ==
  ASSUME NEW X, NEW s \in Seq(X), AtMostOnce(s, X), NEW n \in 0 .. Len(s)
  PROVE  /\ SubSeq(s, 1, n) \in Seq(X) /\ Len(SubSeq(s, 1, n)) = n
         /\ AtMostOnce(SubSeq(s, 1, n), X)
<1> DEFINE a == SubSeq(s, 1, n)
           b == SubSeq(s, n + 1, Len(s))
<1>1. a \in Seq(X) /\ b \in Seq(X) /\ Len(a) = n
  OBVIOUS
<1>2. s = a \o b
  <2>1. SubSeq(s, 1, Len(s)) = s
    BY SubSeqFull
  <2>2. 1 \in 1 .. Len(s) + 1 /\ n \in 1 - 1 .. Len(s) /\ Len(s) \in n .. Len(s)
    OBVIOUS
  <2>3. SubSeq(s, 1, n) \o SubSeq(s, n + 1, Len(s)) = SubSeq(s, 1, Len(s))
    BY <2>2, ConcatAdjacentSubSeq, Zenon
  <2> QED
    BY <2>1, <2>3, Zenon
<1> HIDE DEF a, b
<1>3. ASSUME NEW m \in X PROVE Weight(a, One(X, m)) <= 1
  <2> DEFINE w == One(X, m)
  <2>1. w \in [X -> Nat]
    BY OneWeight, Zenon
  <2>2. Weight(s, w) <= 1
    BY Zenon DEF AtMostOnce
  <2> HIDE DEF w
  <2>3. Weight(a \o b, w) = Weight(a, w) + Weight(b, w) /\ Weight(a, w) \in Nat /\ Weight(b, w) \in Nat
    BY <1>1, <2>1, WeightConcat, WeightNat, Zenon
  <2>4. Weight(a \o b, w) <= 1
    BY <1>2, <2>2, Zenon
  <2>5. Weight(a, w) <= 1
    BY <2>3, <2>4
  <2> QED
    BY <2>5, Zenon DEF w
<1> QED
  BY <1>1, <1>3, Zenon DEF AtMostOnce, a

(* Nor do those of its elements that are in S. *)
LEMMA AmongOnce ==
  ASSUME NEW X, NEW s \in Seq(X), Injective(s), NEW S
  PROVE  Among(s, S) \in Seq(X) /\ AtMostOnce(Among(s, S), X)
<1> DEFINE T == X \ S
           a == Among(s, S)
           b == Among(s, T)
<1>1. Splits(X, S, T)
  BY DEF Splits
<1> HIDE DEF T
<1>2. ASSUME NEW w \in [X -> Nat]
      PROVE  a \in Seq(X) /\ b \in Seq(X) /\ Weight(s, w) = Weight(a, w) + Weight(b, w)
  BY <1>1, <1>2, AmongWeighs
<1> HIDE DEF a, b
<1>3. ASSUME NEW m \in X PROVE a \in Seq(X) /\ Weight(a, One(X, m)) <= 1
  <2> DEFINE w == One(X, m)
  <2>1. w \in [X -> Nat]
    BY OneWeight, Zenon
  <2>2. Weight(s, w) \in {0, 1}
    BY CountInjective, CountNone
  <2> HIDE DEF w
  <2>3. a \in Seq(X) /\ b \in Seq(X) /\ Weight(s, w) = Weight(a, w) + Weight(b, w)
    BY <1>2, <2>1, Zenon
  <2>4. Weight(a, w) \in Nat /\ Weight(b, w) \in Nat
    BY <2>1, <2>3, WeightNat, Zenon
  <2>5. Weight(a, w) <= 1
    BY <2>2, <2>3, <2>4
  <2> QED
    BY <2>3, <2>5, Zenon DEF w
<1>4. a \in Seq(X)
  BY AmongLoop, <1>2, OneWeight, Zenon
<1> QED
  BY <1>3, <1>4, Zenon DEF AtMostOnce, a

-----------------------------------------------------------------------------
(* What is sent through a link, flushed or not: a2 and b2 are the array    *)
(* and the ring after it, f what it frees.                                 *)
Sending(X, a, b, ms, a2, b2, f) ==
  /\ a \in Seq(X) /\ b \in Seq(X) /\ ms \in Seq(X)
  /\ \E l : /\ \/ l = SendEach(Link(a, b, <<>>), ms)
               \/ l = BurstFlush(SendEach(Link(a, b, <<>>), ms))
               \/ l = BurstFlush(Link(a, b, <<>>)) /\ ms = <<>>
            /\ a2 = l.out /\ b2 = l.to /\ f = l.freed
(* Arrays and ring, and what is freed, weigh what was in the link and what *)
(* was sent.                                                               *)
LEMMA SendsWeighs ==
  ASSUME NEW X, NEW a, NEW b, NEW ms, NEW a2, NEW b2, NEW f, Sending(X, a, b, ms, a2, b2, f), NEW w \in [X -> Nat]
  PROVE  /\ a2 \in Seq(X) /\ b2 \in Seq(X) /\ f \in Seq(X)
         /\ Weight(a2, w) \in Nat /\ Weight(b2, w) \in Nat /\ Weight(f, w) \in Nat
         /\ Weight(a2, w) + Weight(b2, w) + Weight(f, w) = Weight(a, w) + Weight(b, w) + Weight(ms, w)
<1> DEFINE k == Link(a, b, <<>>)
           n == SendEach(k, ms)
<1>0. PICK l : /\ l = n \/ l = BurstFlush(n) \/ (l = BurstFlush(k) /\ ms = <<>>)
               /\ a2 = l.out /\ b2 = l.to /\ f = l.freed
  BY Zenon DEF Sending
<1>9. a \in Seq(X) /\ b \in Seq(X) /\ ms \in Seq(X)
  BY Zenon DEF Sending
<1>1. k \in Links(X) /\ k.out = a /\ k.to = b /\ k.freed = <<>>
  BY <1>9 DEF Link, Links
<1> HIDE DEF k
<1>3. n \in Links(X) /\ LinkWeight(n, w) = LinkWeight(k, w) + Weight(ms, w)
  BY <1>1, <1>9, SendEachWeighs, Zenon
<1> HIDE DEF n
<1>6. Weight(a, w) \in Nat /\ Weight(b, w) \in Nat /\ Weight(ms, w) \in Nat /\ Weight(<<>>, w) = 0
  BY <1>9, WeightNat, WeightEmpty, Zenon
<1>7. LinkWeight(k, w) = Weight(a, w) + Weight(b, w)
  BY <1>1, <1>6 DEF LinkWeight
<1>4. l \in Links(X) /\ LinkWeight(l, w) = LinkWeight(k, w) + Weight(ms, w)
  <2>1. CASE l = n
    BY <1>3, <2>1, Zenon
  <2>2. CASE l = BurstFlush(n)
    <3>1. BurstFlush(n) \in Links(X) /\ LinkWeight(BurstFlush(n), w) = LinkWeight(n, w)
      BY <1>3, FlushWeighs, Zenon
    <3> QED
      BY <1>3, <2>2, <3>1, Zenon
  <2>3. CASE l = BurstFlush(k) /\ ms = <<>>
    <3>1. BurstFlush(k) \in Links(X) /\ LinkWeight(BurstFlush(k), w) = LinkWeight(k, w)
      BY <1>1, FlushWeighs, Zenon
    <3>2. Weight(ms, w) = 0 /\ LinkWeight(k, w) + 0 = LinkWeight(k, w)
      BY <1>6, <1>7, <2>3
    <3> QED
      BY <2>3, <3>1, <3>2, Zenon
  <2> QED
    BY <1>0, <2>1, <2>2, <2>3, Zenon
<1>5. /\ l.out \in Seq(X) /\ l.to \in Seq(X) /\ l.freed \in Seq(X)
      /\ Weight(l.out, w) \in Nat /\ Weight(l.to, w) \in Nat /\ Weight(l.freed, w) \in Nat
  BY <1>4, LinkParts, Zenon
<1>8. Weight(l.out, w) + Weight(l.to, w) + Weight(l.freed, w) = LinkWeight(l, w)
  BY Zenon DEF LinkWeight
<1>10. Weight(l.out, w) + Weight(l.to, w) + Weight(l.freed, w) = Weight(a, w) + Weight(b, w) + Weight(ms, w)
  BY <1>4, <1>7, <1>8, Zenon
<1> QED
  BY <1>0, <1>5, <1>10, Zenon
=============================================================================
