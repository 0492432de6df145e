------------------------- MODULE PacketOrderProofs -------------------------
(***************************************************************************)
(* A node's answers leave in the order its requests arrived, for every     *)
(* ring size, burst size and number of packets.  A node's pipe has five    *)
(* stages; a step puts a packet behind the last stage that holds           *)
(* something, puts an answer behind the stage before its request, drops    *)
(* from a stage, or takes a burst into the empty stage before: four moves, *)
(* each a lemma on five sequences, and every action is one or two of them. *)
(***************************************************************************)
EXTENDS PacketFlowProofs

(* Most steps need no arithmetic: Zenon is tried first, and SMT where it   *)
(* fails.                                                                  *)
USE Zenon, SMT

(* The stages of a node's pipe, the oldest packets first: what TX sent,    *)
(* TX's burst, the egress ring, the node's burst, the ingress ring.        *)
Stages(s, out, f, n) == << out[n], IF f = n THEN s[Local(TX)] ELSE <<>>,
                           s[Egress(n)], s[Local(n)], s[Ingress(n)] >>
Pipes == [1 .. 5 -> Seq(Nat)]

(* The received packet each of the packets in k answers. *)
Org(k) == [p \in 1 .. Len(k) |-> k[p].origin]

(* Along the stages st the packets answer requests in the order o. *)
InOrder(st, o) ==
  \A j, k \in 1 .. 5 : \A x \in 1 .. Len(st[j]), y \in 1 .. Len(st[k]) :
    j < k \/ (j = k /\ x < y) => o[st[j][x]] <= o[st[k][y]]

(* Every packet of the stages st has a number in o. *)
Numbered(st, o) == \A j \in 1 .. 5 : \A x \in 1 .. Len(st[j]) : o[st[j][x]] \in Nat

(* No packet of the stages answers a request after b. *)
AtMost(st, o, b) == \A j \in 1 .. 5 : \A x \in 1 .. Len(st[j]) : o[st[j][x]] <= b

(* Two pipes differ in stage k at most; nothing is in the stages after k. *)
SameElse(st, st2, k) == \A j \in 1 .. 5 : j # k => st2[j] = st[j]
NoneAfter(st, k) == \A j \in 1 .. 5 : j > k => st[j] = <<>>

(* The inductive invariant: nothing is routed to TIMER, so that an echo    *)
(* request of the timer is the last in its pipe; no packet answers one     *)
(* that is yet to come.                                                    *)
OrderInv ==
  /\ txFrom \in Works
  /\ sent \in [Works -> Seq(Nat)]
  /\ \A n \in Works : \A i \in 1 .. Len(sent[n]) : sent[n][i] \in 1 .. Len(pkt)
  /\ \A p \in 1 .. Len(pkt) : pkt[p].origin <= Len(pkt)
  /\ slot[Local(TIMER)] = <<>> /\ slot[Ingress(TIMER)] = <<>>
  /\ \A n \in Works : InOrder(Stages(slot, sent, txFrom, n), Org(pkt))

-----------------------------------------------------------------------------
(* What is put behind a sequence is at its last position. *)
LEMMA PutFacts ==
  ASSUME NEW q \in Seq(Nat), NEW p \in Nat
  PROVE  \A x \in 1 .. Len(Append(q, p)) : \/ x \in 1 .. Len(q) /\ Append(q, p)[x] = q[x]
                                           \/ x = Len(q) + 1 /\ Append(q, p)[x] = p
OBVIOUS

(* Moves along a pipe.  A packet that answers no earlier request than any  *)
(* other is put behind the last stage that holds something.                *)
LEMMA PutLast ==
  ASSUME NEW st \in Pipes, NEW st2 \in Pipes, NEW o, NEW k \in 1 .. 5, NEW p \in Nat,
         InOrder(st, o), Numbered(st, o), o[p] \in Nat,
         st2[k] = st[k] \/ st2[k] = Append(st[k], p),
         SameElse(st, st2, k), NoneAfter(st, k), AtMost(st, o, o[p])
  PROVE  InOrder(st2, o) /\ Numbered(st2, o)
<1> USE DEF SameElse, NoneAfter, AtMost
<1>1. \A j \in 1 .. 5 : \A x \in 1 .. Len(st2[j]) :
        \/ x \in 1 .. Len(st[j]) /\ st2[j][x] = st[j][x]
        \/ j = k /\ x = Len(st[k]) + 1 /\ st2[j][x] = p
  <2>1. k \in 1 .. 5 /\ st[k] \in Seq(Nat)
    BY Zenon DEF Pipes
  <2>2. \A x \in 1 .. Len(st2[k]) : \/ x \in 1 .. Len(st[k]) /\ st2[k][x] = st[k][x]
                                    \/ x = Len(st[k]) + 1 /\ st2[k][x] = p
    <3>1. CASE st2[k] = st[k]
      BY <3>1, Zenon
    <3>2. CASE st2[k] = Append(st[k], p)
      BY <2>1, <3>2, PutFacts, SMT
    <3> QED
      BY <3>1, <3>2, Zenon
  <2> QED
    BY <2>1, <2>2, Zenon
<1>2. Numbered(st2, o)
  BY <1>1, Zenon DEF Numbered
<1>3. InOrder(st2, o)
  <2>1. SUFFICES ASSUME NEW j \in 1 .. 5, NEW i \in 1 .. 5,
                        NEW x \in 1 .. Len(st2[j]), NEW y \in 1 .. Len(st2[i]),
                        j < i \/ (j = i /\ x < y)
                 PROVE  o[st2[j][x]] <= o[st2[i][y]]
    BY Zenon DEF InOrder
  <2>2. CASE x \in 1 .. Len(st[j]) /\ st2[j][x] = st[j][x]
    <3>1. CASE y \in 1 .. Len(st[i]) /\ st2[i][y] = st[i][y]
      BY <2>1, <2>2, <3>1, Zenon DEF InOrder
    <3>2. CASE i = k /\ st2[i][y] = p
      BY <2>2, <3>2, Zenon
    <3> QED
      BY <1>1, <3>1, <3>2, Zenon
  <2>3. CASE j = k /\ x = Len(st[k]) + 1 /\ st2[j][x] = p
    <3>1. CASE y \in 1 .. Len(st[i]) /\ st2[i][y] = st[i][y]
      <4>0. k \in 1 .. 5
        OBVIOUS
      <4>1. st[k] \in Seq(Nat)
        BY <4>0, Zenon DEF Pipes
      <4>2. ~(k < i)
        <5>1. SUFFICES ASSUME k < i PROVE FALSE
          OBVIOUS
        <5>2. st[i] = <<>>
          BY <5>1, Zenon
        <5> QED
          BY <3>1, <5>2
      <4>3. Len(st[k]) \in Nat
        BY <4>1
      <4>4. CASE i = k
        <5>1. y \in 1 .. Len(st[k])
          BY <3>1, <4>4, Zenon
        <5>2. Len(st[k]) + 1 < y
          BY <2>1, <2>3, <4>2, <4>4, Zenon
        <5> QED
          BY <4>3, <5>1, <5>2, SMT
      <4>5. CASE i # k
        BY <2>1, <2>3, <4>2, <4>5, Zenon
      <4> QED
        BY <4>4, <4>5, Zenon
    <3>2. CASE i = k /\ y = Len(st[k]) + 1
      BY <2>1, <2>3, <3>2, SMT DEF Pipes
    <3> QED
      BY <1>1, <3>1, <3>2, Zenon
  <2> QED
    BY <1>1, <2>2, <2>3, Zenon
<1> QED
  BY <1>2, <1>3

(* A packet that answers the same request as the head of a stage is put    *)
(* behind the stage before.                                                *)
LEMMA PutBefore ==
  ASSUME NEW st \in Pipes, NEW st2 \in Pipes, NEW o, NEW k \in 1 .. 4, NEW p \in Nat,
         InOrder(st, o), Numbered(st, o),
         st[k + 1] # <<>>, o[p] = o[Head(st[k + 1])],
         st2[k] = st[k] \/ st2[k] = Append(st[k], p),
         SameElse(st, st2, k)
  PROVE  InOrder(st2, o) /\ Numbered(st2, o)
<1> USE DEF SameElse
<1>1. \A j \in 1 .. 5 : \A x \in 1 .. Len(st2[j]) :
        \/ x \in 1 .. Len(st[j]) /\ st2[j][x] = st[j][x]
        \/ j = k /\ x = Len(st[k]) + 1 /\ st2[j][x] = p
  <2>1. k \in 1 .. 5 /\ st[k] \in Seq(Nat)
    BY SMT DEF Pipes
  <2>2. \A x \in 1 .. Len(st2[k]) : \/ x \in 1 .. Len(st[k]) /\ st2[k][x] = st[k][x]
                                    \/ x = Len(st[k]) + 1 /\ st2[k][x] = p
    <3>1. CASE st2[k] = st[k]
      BY <3>1, Zenon
    <3>2. CASE st2[k] = Append(st[k], p)
      BY <2>1, <3>2, PutFacts, SMT
    <3> QED
      BY <3>1, <3>2
  <2> QED
    BY <2>1, <2>2, Zenon
<1>2. k + 1 \in 1 .. 5 /\ 1 \in 1 .. Len(st[k + 1]) /\ o[p] = o[st[k + 1][1]]
  <2>1. k + 1 \in 1 .. 5
    BY SMT
  <2>2. st[k + 1] \in Seq(Nat)
    BY <2>1 DEF Pipes
  <2> QED
    BY <2>1, <2>2, SMT
<1>3. o[p] \in Nat
  BY <1>2 DEF Numbered
<1>4. Numbered(st2, o)
  BY <1>1, <1>3, Zenon DEF Numbered
<1>5. InOrder(st2, o)
  <2>1. SUFFICES ASSUME NEW j \in 1 .. 5, NEW i \in 1 .. 5,
                        NEW x \in 1 .. Len(st2[j]), NEW y \in 1 .. Len(st2[i]),
                        j < i \/ (j = i /\ x < y)
                 PROVE  o[st2[j][x]] <= o[st2[i][y]]
    BY Zenon DEF InOrder
  <2>2. CASE x \in 1 .. Len(st[j]) /\ st2[j][x] = st[j][x]
    <3>1. CASE y \in 1 .. Len(st[i]) /\ st2[i][y] = st[i][y]
      BY <2>1, <2>2, <3>1, Zenon DEF InOrder
    <3>2. CASE i = k /\ st2[i][y] = p
      <4>1. j < k + 1
        BY <2>1, <3>2, SMT
      <4> QED
        BY <1>2, <2>2, <3>2, <4>1, Zenon DEF InOrder
    <3> QED
      BY <1>1, <3>1, <3>2, Zenon
  <2>3. CASE j = k /\ x = Len(st[k]) + 1 /\ st2[j][x] = p
    <3>1. CASE y \in 1 .. Len(st[i]) /\ st2[i][y] = st[i][y]
      <4>0. k \in 1 .. 5
        BY SMT
      <4>1. st[k] \in Seq(Nat)
        BY <4>0, Zenon DEF Pipes
      <4>2. k < i
        BY <2>1, <2>3, <3>1, <4>1, SMT
      <4>3. i = k + 1 \/ k + 1 < i
        BY <4>2
      <4>4. CASE i = k + 1 /\ y = 1
        BY <1>2, <1>3, <2>3, <3>1, <4>4, SMT
      <4>5. CASE k + 1 < i \/ (k + 1 = i /\ 1 < y)
        BY <1>2, <2>3, <3>1, <4>5, Zenon DEF InOrder
      <4> QED
        BY <3>1, <4>3, <4>4, <4>5
    <3>2. CASE i = k /\ y = Len(st[k]) + 1
      BY <2>1, <2>3, <3>2, SMT DEF Pipes
    <3> QED
      BY <1>1, <3>1, <3>2, Zenon
  <2> QED
    BY <1>1, <2>2, <2>3, Zenon
<1> QED
  BY <1>4, <1>5

(* A stage loses its head, or all it holds. *)
LEMMA DropFrom ==
  ASSUME NEW st \in Pipes, NEW st2 \in Pipes, NEW o, NEW k \in 1 .. 5,
         InOrder(st, o), Numbered(st, o),
         st2[k] = <<>> \/ (st[k] # <<>> /\ st2[k] = Tail(st[k])),
         SameElse(st, st2, k)
  PROVE  InOrder(st2, o) /\ Numbered(st2, o)
<1> USE DEF SameElse
<1>1. \A j \in 1 .. 5 : \A x \in 1 .. Len(st2[j]) :
        \/ j # k /\ x \in 1 .. Len(st[j]) /\ st2[j][x] = st[j][x]
        \/ j = k /\ x + 1 \in 1 .. Len(st[j]) /\ st2[j][x] = st[j][x + 1]
  <2>1. st[k] \in Seq(Nat)
    BY DEF Pipes
  <2>2. \A x \in 1 .. Len(st2[k]) : x + 1 \in 1 .. Len(st[k]) /\ st2[k][x] = st[k][x + 1]
    <3>1. CASE st2[k] = <<>>
      BY <3>1
    <3>2. CASE st[k] # <<>> /\ st2[k] = Tail(st[k])
      BY <2>1, <3>2, TailFacts, SMT
    <3> QED
      BY <3>1, <3>2
  <2> QED
    BY <2>2
<1>2. Numbered(st2, o)
  BY <1>1, Zenon DEF Numbered
<1>3. InOrder(st2, o)
  <2>1. SUFFICES ASSUME NEW j \in 1 .. 5, NEW i \in 1 .. 5,
                        NEW x \in 1 .. Len(st2[j]), NEW y \in 1 .. Len(st2[i]),
                        j < i \/ (j = i /\ x < y)
                 PROVE  o[st2[j][x]] <= o[st2[i][y]]
    BY Zenon DEF InOrder
  <2>2. PICK v \in 1 .. Len(st[j]) : st2[j][x] = st[j][v] /\ (j # k => v = x) /\ (j = k => v = x + 1)
    BY <1>1, Zenon
  <2>3. PICK w \in 1 .. Len(st[i]) : st2[i][y] = st[i][w] /\ (i # k => w = y) /\ (i = k => w = y + 1)
    BY <1>1, Zenon
  <2>4. j < i \/ (j = i /\ v < w)
    BY <2>1, <2>2, <2>3
  <2> QED
    BY <2>2, <2>3, <2>4, ZenonT(30) DEF InOrder
<1> QED
  BY <1>2, <1>3

(* A burst is taken from a stage into the empty one before it. *)
LEMMA BurstAlong ==
  ASSUME NEW st \in Pipes, NEW st2 \in Pipes, NEW o, NEW k \in 1 .. 4,
         InOrder(st, o), Numbered(st, o),
         st[k] = <<>>, st2[k] = Taken(st[k + 1]), st2[k + 1] = Rest(st[k + 1]),
         \A j \in 1 .. 5 : j # k /\ j # k + 1 => st2[j] = st[j]
  PROVE  InOrder(st2, o) /\ Numbered(st2, o)
<1> DEFINE q == st[k + 1]
<1>1. k + 1 \in 1 .. 5 /\ q \in Seq(Nat)
  <2>1. k + 1 \in 1 .. 5
    BY SMT
  <2> QED
    BY <2>1 DEF Pipes
<1> HIDE DEF q
<1>2. PICK c \in 0 .. Len(q) :
        /\ Taken(q) \in Seq(Nat) /\ Len(Taken(q)) = c
        /\ \A i \in 1 .. c : Taken(q)[i] = q[i]
        /\ Rest(q) \in Seq(Nat) /\ Len(Rest(q)) = Len(q) - c
        /\ \A i \in 1 .. Len(q) - c : Rest(q)[i] = q[i + c]
  BY <1>1, BurstFacts, Zenon
<1>3. st2[k] = Taken(q) /\ st2[k + 1] = Rest(q) /\ st[k + 1] = q
  BY DEF q
<1>4. \A x \in 1 .. Len(st2[k]) : x \in 1 .. Len(q) /\ st2[k][x] = q[x] /\ x <= c
  BY <1>1, <1>2, <1>3
<1>5. \A x \in 1 .. Len(st2[k + 1]) : x + c \in 1 .. Len(q) /\ st2[k + 1][x] = q[x + c] /\ x + c > c
  <2>1. SUFFICES ASSUME NEW x \in 1 .. Len(q) - c
                 PROVE  x + c \in 1 .. Len(q) /\ Rest(q)[x] = q[x + c] /\ x + c > c
    BY <1>2, <1>3, ZenonT(30)
  <2>2. Len(q) \in Nat /\ c \in Nat
    BY <1>1
  <2>3. x + c \in 1 .. Len(q) /\ x + c > c
    BY <2>2
  <2>4. Rest(q)[x] = q[x + c]
    BY <1>2, Zenon
  <2> QED
    BY <2>3, <2>4, Zenon
<1>6. \A j \in 1 .. 5 : \A x \in 1 .. Len(st2[j]) :
        \/ j # k /\ j # k + 1 /\ x \in 1 .. Len(st[j]) /\ st2[j][x] = st[j][x]
        \/ j = k /\ x \in 1 .. Len(q) /\ st2[j][x] = q[x] /\ x <= c
        \/ j = k + 1 /\ x + c \in 1 .. Len(q) /\ st2[j][x] = q[x + c] /\ x + c > c
  BY <1>4, <1>5, Zenon
<1>7. \A x \in 1 .. Len(q) : o[q[x]] \in Nat
  BY <1>1, <1>3, Zenon DEF Numbered
<1>8. Numbered(st2, o)
  <2>1. SUFFICES ASSUME NEW j \in 1 .. 5, NEW x \in 1 .. Len(st2[j]) PROVE o[st2[j][x]] \in Nat
    BY Zenon DEF Numbered
  <2> QED
    BY <1>6, <1>7, Zenon DEF Numbered
<1>9. \A x, y \in 1 .. Len(q) : x <= y => o[q[x]] <= o[q[y]]
  <2>1. SUFFICES ASSUME NEW x \in 1 .. Len(q), NEW y \in 1 .. Len(q), x <= y
                 PROVE  o[q[x]] <= o[q[y]]
    OBVIOUS
  <2>2. CASE x = y
    BY <1>7, <2>2
  <2>3. CASE x < y
    BY <1>1, <1>3, <2>3, Zenon DEF InOrder
  <2> QED
    BY <1>1, <2>1, <2>2, <2>3, SMT
<1>10. InOrder(st2, o)
  <2>1. SUFFICES ASSUME NEW j \in 1 .. 5, NEW i \in 1 .. 5,
                        NEW x \in 1 .. Len(st2[j]), NEW y \in 1 .. Len(st2[i]),
                        j < i \/ (j = i /\ x < y)
                 PROVE  o[st2[j][x]] <= o[st2[i][y]]
    BY Zenon DEF InOrder
  <2>2. CASE j \in {k, k + 1} /\ i \in {k, k + 1}
    <3>1. PICK v \in 1 .. Len(q) : /\ st2[j][x] = q[v]
                                   /\ j = k => v = x /\ v <= c
                                   /\ j # k => v = x + c /\ v > c
      <4>1. CASE j = k
        BY <1>4, <4>1
      <4>2. CASE j = k + 1
        <5>1. k + 1 # k
          BY SMT
        <5>2. x + c \in 1 .. Len(q) /\ st2[j][x] = q[x + c] /\ x + c > c
          BY <1>5, <4>2, Zenon
        <5> QED
          BY <4>2, <5>1, <5>2, Zenon
      <4> QED
        BY <2>2, <4>1, <4>2
    <3>2. PICK w \in 1 .. Len(q) : /\ st2[i][y] = q[w]
                                   /\ i = k => w = y /\ w <= c
                                   /\ i # k => w = y + c /\ w > c
      <4>1. CASE i = k
        BY <1>4, <4>1
      <4>2. CASE i = k + 1
        <5>1. k + 1 # k
          BY SMT
        <5>2. y + c \in 1 .. Len(q) /\ st2[i][y] = q[y + c] /\ y + c > c
          BY <1>5, <4>2, Zenon
        <5> QED
          BY <4>2, <5>1, <5>2, Zenon
      <4> QED
        BY <2>2, <4>1, <4>2
    <3>3. v <= w
      <4>1. c \in Nat /\ Len(q) \in Nat /\ x \in Int /\ y \in Int
        BY <1>1
      <4>2. CASE j = i
        BY <2>1, <3>1, <3>2, <4>1, <4>2
      <4>3. CASE j # i
        BY <2>1, <2>2, <3>1, <3>2, <4>1, <4>3
      <4> QED
        BY <4>2, <4>3
    <3> QED
      BY <1>9, <3>1, <3>2, <3>3
  <2>3. CASE j \in {k, k + 1} /\ i \notin {k, k + 1}
    <3>1. PICK v \in 1 .. Len(q) : st2[j][x] = q[v]
      BY <1>6, <2>3, Zenon
    <3>2. y \in 1 .. Len(st[i]) /\ st2[i][y] = st[i][y]
      BY <1>6, <2>3, Zenon
    <3>3. j # i
      BY <2>3, Zenon
    <3>4. j < i
      BY <2>1, <3>3, Zenon
    <3>5. k + 1 < i
      BY <2>3, <3>4
    <3> QED
      BY <1>1, <1>3, <3>1, <3>2, <3>5, Zenon DEF InOrder
  <2>4. CASE j \notin {k, k + 1} /\ i \in {k, k + 1}
    <3>1. PICK w \in 1 .. Len(q) : st2[i][y] = q[w]
      BY <1>6, <2>4, Zenon
    <3>2. x \in 1 .. Len(st[j]) /\ st2[j][x] = st[j][x]
      BY <1>6, <2>4, Zenon
    <3>3. j # i
      BY <2>4, Zenon
    <3>4. j < i
      BY <2>1, <3>3, Zenon
    <3>5. j < k + 1
      BY <2>4, <3>4
    <3> QED
      BY <1>1, <1>3, <3>1, <3>2, <3>5, Zenon DEF InOrder
  <2>5. CASE j \notin {k, k + 1} /\ i \notin {k, k + 1}
    BY <1>6, <2>1, <2>5, Zenon DEF InOrder
  <2> QED
    BY <2>2, <2>3, <2>4, <2>5
<1> QED
  BY <1>8, <1>10

-----------------------------------------------------------------------------
(* The stages are five sequences. *)
LEMMA StageFacts ==
  ASSUME NEW s \in Held, NEW out \in [Works -> Seq(Nat)], NEW f, NEW n \in Works
  PROVE  LET st == Stages(s, out, f, n)
         IN  /\ st \in Pipes
             /\ st[1] = out[n]
             /\ st[2] = IF f = n THEN s[Local(TX)] ELSE <<>>
             /\ st[3] = s[Egress(n)] /\ st[4] = s[Local(n)] /\ st[5] = s[Ingress(n)]
<1>1. /\ out[n] \in Seq(Nat) /\ s[Local(TX)] \in Seq(Nat)
      /\ s[Egress(n)] \in Seq(Nat) /\ s[Local(n)] \in Seq(Nat) /\ s[Ingress(n)] \in Seq(Nat)
  BY PlacesOfTx, PlacesOfNode DEF Held
<1>2. (IF f = n THEN s[Local(TX)] ELSE <<>>) \in Seq(Nat)
  BY <1>1
<1> DEFINE b == IF f = n THEN s[Local(TX)] ELSE <<>>
<1> HIDE DEF b
<1>3. ASSUME NEW u \in Seq(Nat), NEW v \in Seq(Nat), NEW w \in Seq(Nat), NEW x \in Seq(Nat),
             NEW y \in Seq(Nat)
      PROVE  << u, v, w, x, y >> \in [1 .. 5 -> Seq(Nat)]
  BY SMT
<1> QED
  BY <1>1, <1>2, <1>3, Zenon DEF Stages, Pipes

(* The packets only become more, and each keeps the request it answers. *)
Grown(old, new) ==
  /\ Len(new) >= Len(old)
  /\ \A p \in 1 .. Len(old) : new[p].origin = old[p].origin
  /\ \A p \in 1 .. Len(new) : new[p].origin <= Len(new)

(* What is known of the packets allocated. *)
LEMMA PacketFacts ==
  ASSUME OwnInv
  PROVE  /\ pkt \in Seq([kind : PacketKinds, origin : Nat]) /\ Len(pkt) \in Nat
         /\ \A p \in 1 .. Len(pkt) :
              pkt[p] \in [kind : PacketKinds, origin : Nat] /\ pkt[p].origin \in Nat
<1>1. pkt \in Seq([kind : PacketKinds, origin : Nat])
  BY DEF OwnInv
<1>2. Len(pkt) \in Nat
  BY <1>1
<1>3. \A p \in 1 .. Len(pkt) : pkt[p] \in [kind : PacketKinds, origin : Nat]
  BY <1>1, ElementOfSeq, Zenon
<1> QED
  BY <1>1, <1>2, <1>3

(* ... and of the requests they answer. *)
LEMMA OriginFacts ==
  ASSUME OwnInv, OrderInv
  PROVE  /\ Len(pkt) \in Nat
         /\ \A p \in 1 .. Len(pkt) : pkt[p].origin \in Nat /\ pkt[p].origin <= Len(pkt)
BY PacketFacts DEF OrderInv

(* A step that leaves the packets alone. *)
LEMMA GrownByNone ==
  ASSUME OwnInv, OrderInv, UNCHANGED pkt
  PROVE  Grown(pkt, pkt')
BY OriginFacts DEF Grown

(* A packet appended to them answers itself or an earlier one. *)
LEMMA GrownByOne ==
  ASSUME OwnInv, OrderInv, NEW rec \in [kind : PacketKinds, origin : Nat],
         rec.origin <= Len(pkt) + 1
  PROVE  /\ Grown(pkt, Append(pkt, rec))
         /\ Len(pkt) + 1 \in 1 .. Len(Append(pkt, rec))
         /\ Org(Append(pkt, rec))[Len(pkt) + 1] = rec.origin
<1>1. pkt \in Seq([kind : PacketKinds, origin : Nat]) /\ Len(pkt) \in Nat
  BY PacketFacts
<1>2. /\ Len(Append(pkt, rec)) = Len(pkt) + 1
      /\ \A p \in 1 .. Len(pkt) : Append(pkt, rec)[p] = pkt[p]
      /\ Append(pkt, rec)[Len(pkt) + 1] = rec
  BY <1>1
<1>3. \A p \in 1 .. Len(pkt) : pkt[p].origin \in Nat /\ pkt[p].origin <= Len(pkt)
  BY OriginFacts
<1>4. \A p \in 1 .. Len(Append(pkt, rec)) : Append(pkt, rec)[p].origin <= Len(Append(pkt, rec))
  <2>1. SUFFICES ASSUME NEW p \in 1 .. Len(pkt) + 1
                 PROVE  Append(pkt, rec)[p].origin <= Len(pkt) + 1
    BY <1>2
  <2>2. CASE p \in 1 .. Len(pkt)
    BY <1>1, <1>2, <1>3, <2>2, SMT
  <2>3. CASE p = Len(pkt) + 1
    BY <1>2, <2>3
  <2> QED
    BY <1>1, <2>2, <2>3
<1>5. Grown(pkt, Append(pkt, rec))
  BY <1>1, <1>2, <1>4, SMT DEF Grown
<1>6. Len(pkt) + 1 \in 1 .. Len(Append(pkt, rec))
  BY <1>1, <1>2
<1>7. Org(Append(pkt, rec))[Len(pkt) + 1] = Append(pkt, rec)[Len(pkt) + 1].origin
  BY <1>6 DEF Org
<1> QED
  BY <1>2, <1>5, <1>6, <1>7

(* Before the step: every pipe is in the order of the packets after it,    *)
(* and answers no request that comes later.                                *)
LEMMA PipeBefore ==
  ASSUME OwnInv, OwnInv', OrderInv, Grown(pkt, pkt'), NEW n \in Works
  PROVE  LET st == Stages(slot, sent, txFrom, n)
         IN  /\ st \in Pipes
             /\ InOrder(st, Org(pkt')) /\ Numbered(st, Org(pkt'))
             /\ AtMost(st, Org(pkt'), Len(pkt))
<1> DEFINE st == Stages(slot, sent, txFrom, n)
           o == Org(pkt')
<1>0. slot \in Held /\ sent \in [Works -> Seq(Nat)]
  BY DEF OwnInv, OrderInv
<1>1. /\ st \in Pipes /\ st[1] = sent[n]
      /\ st[2] = IF txFrom = n THEN slot[Local(TX)] ELSE <<>>
      /\ st[3] = slot[Egress(n)] /\ st[4] = slot[Local(n)] /\ st[5] = slot[Ingress(n)]
  BY <1>0, StageFacts, SMT
<1>2. \A j \in 1 .. 5 : \A x \in 1 .. Len(st[j]) : st[j][x] \in 1 .. Len(pkt)
  <2>1. /\ Egress(n) \in Places /\ Local(n) \in Places /\ Ingress(n) \in Places
        /\ Local(TX) \in Places
    BY PlacesOfTx, PlacesOfNode
  <2> HIDE DEF st
  <2>2. \A x \in 1 .. Len(st[1]) : st[1][x] \in 1 .. Len(pkt)
    BY <1>1 DEF OrderInv
  <2>3. \A x \in 1 .. Len(st[2]) : st[2][x] \in 1 .. Len(pkt)
    <3>1. CASE st[2] = slot[Local(TX)]
      BY <2>1, <3>1 DEF OwnInv, Allocated
    <3>2. CASE st[2] = <<>>
      BY <3>2
    <3> QED
      BY <1>1, <3>1, <3>2
  <2>4. /\ \A x \in 1 .. Len(st[3]) : st[3][x] \in 1 .. Len(pkt)
        /\ \A x \in 1 .. Len(st[4]) : st[4][x] \in 1 .. Len(pkt)
        /\ \A x \in 1 .. Len(st[5]) : st[5][x] \in 1 .. Len(pkt)
    BY <1>1, <2>1 DEF OwnInv, Allocated
  <2> QED
    BY <2>2, <2>3, <2>4
<1>3. \A p \in 1 .. Len(pkt) : /\ o[p] = Org(pkt)[p] /\ o[p] \in Nat
                               /\ o[p] <= Len(pkt)
  <2>1. SUFFICES ASSUME NEW p \in 1 .. Len(pkt)
                 PROVE  o[p] = Org(pkt)[p] /\ o[p] \in Nat /\ o[p] <= Len(pkt)
    OBVIOUS
  <2>2. Len(pkt) \in Nat /\ Len(pkt') \in Nat /\ pkt[p].origin \in Nat
    <3>1. pkt[p] \in [kind : PacketKinds, origin : Nat]
      BY ElementOfSeq, Zenon DEF OwnInv
    <3> QED
      BY <3>1, SMT DEF OwnInv
  <2>3. p \in 1 .. Len(pkt')
    BY <2>2 DEF Grown
  <2>4. o[p] = pkt'[p].origin /\ Org(pkt)[p] = pkt[p].origin
    BY <2>3 DEF Org
  <2> QED
    BY <2>2, <2>4 DEF Grown, OrderInv
<1>4. InOrder(st, Org(pkt))
  BY DEF OrderInv
<1> HIDE DEF st, o
<1>5. Numbered(st, o) /\ AtMost(st, o, Len(pkt))
  BY <1>2, <1>3 DEF Numbered, AtMost
<1>6. InOrder(st, o)
  BY <1>2, <1>3, <1>4, Zenon DEF InOrder
<1> QED
  BY <1>1, <1>5, <1>6 DEF st, o

(* A step that changes the rings and the burst of one node only: its pipe  *)
(* is the one to look at.                                                  *)
LEMMA OneNode ==
  ASSUME OwnInv, OwnInv', OrderInv, Grown(pkt, pkt'), NEW n \in Works,
         UNCHANGED <<sent, txFrom>>,
         \A b \in Places : b \notin {Ingress(n), Egress(n), Local(n)} => slot'[b] = slot[b],
         n = TIMER => slot'[Local(n)] = <<>> /\ slot'[Ingress(n)] = <<>>,
         InOrder(Stages(slot', sent, txFrom, n), Org(pkt'))
  PROVE  OrderInv'
<1>1. ASSUME NEW m \in Works, m # n
      PROVE  InOrder(Stages(slot', sent, txFrom, m), Org(pkt'))
  <2>1. /\ Egress(m) \in Places /\ Local(m) \in Places /\ Ingress(m) \in Places
        /\ Local(TX) \in Places
    BY PlacesOfTx, PlacesOfNode
  <2>2. /\ Egress(m) \notin {Ingress(n), Egress(n), Local(n)}
        /\ Local(m) \notin {Ingress(n), Egress(n), Local(n)}
        /\ Ingress(m) \notin {Ingress(n), Egress(n), Local(n)}
        /\ Local(TX) \notin {Ingress(n), Egress(n), Local(n)}
    BY <1>1, SMT DEF Ingress, Egress, Local, Works, TX
  <2>3. Stages(slot', sent, txFrom, m) = Stages(slot, sent, txFrom, m)
    BY <2>1, <2>2 DEF Stages
  <2> QED
    BY <2>3, PipeBefore
<1>2. \A m \in Works : InOrder(Stages(slot', sent', txFrom', m), Org(pkt'))
  BY <1>1
<1>3. slot'[Local(TIMER)] = <<>> /\ slot'[Ingress(TIMER)] = <<>>
  <2>1. TIMER \in Nodes
    BY DEF TIMER, Nodes, COUNT
  <2>2. n # TIMER => /\ Local(TIMER) \notin {Ingress(n), Egress(n), Local(n)}
                     /\ Ingress(TIMER) \notin {Ingress(n), Egress(n), Local(n)}
    BY DEF Ingress, Egress, Local
  <2>3. CASE n # TIMER
    BY <2>1, <2>2, <2>3, PlacesOfNode DEF OrderInv
  <2> QED
    BY <2>3
<1>4. \A m \in Works : \A i \in 1 .. Len(sent[m]) : sent[m][i] \in 1 .. Len(pkt')
  <2>1. Len(pkt) \in Nat /\ Len(pkt') \in Nat
    BY DEF OwnInv
  <2> QED
    BY <2>1, SMT DEF OrderInv, Grown
<1> QED
  BY <1>2, <1>3, <1>4 DEF OrderInv, Grown

(* pgw_enq keeps the ring, or puts the packet behind it. *)
LEMMA EnqPuts ==
  ASSUME NEW q, NEW p
  PROVE  Enq(q, p) = q \/ Enq(q, p) = Append(q, p)
BY DEF Enq

-----------------------------------------------------------------------------
(* The rings and the burst of a node, and the burst of TX. *)
LEMMA WorkPlaces ==
  ASSUME NEW n \in Works
  PROVE  /\ Egress(n) \in Places /\ Local(n) \in Places /\ Ingress(n) \in Places
         /\ Local(TX) \in Places
         /\ Egress(n) # Local(n) /\ Ingress(n) # Local(n) /\ Ingress(n) # Egress(n)
         /\ Local(TX) # Egress(n) /\ Local(TX) # Ingress(n) /\ Local(TX) # Local(n)
<1>1. n # TX
  BY DEF Works, TX
<1>2. /\ Local(TX) # Egress(n) /\ Local(TX) # Ingress(n) /\ Local(TX) # Local(n)
  BY <1>1 DEF Local, Egress, Ingress
<1> QED
  BY <1>2, PlacesOfTx, PlacesOfNode

(* The pipe of a node before and after a step of that node. *)
LEMMA AroundNode ==
  ASSUME OwnInv, OwnInv', OrderInv, NEW n \in Works, slot'[Local(TX)] = slot[Local(TX)]
  PROVE  LET st == Stages(slot, sent, txFrom, n)
             st2 == Stages(slot', sent, txFrom, n)
         IN  /\ st \in Pipes /\ st2 \in Pipes
             /\ st2[1] = st[1] /\ st2[2] = st[2]
             /\ st[3] = slot[Egress(n)] /\ st[4] = slot[Local(n)] /\ st[5] = slot[Ingress(n)]
             /\ st2[3] = slot'[Egress(n)] /\ st2[4] = slot'[Local(n)] /\ st2[5] = slot'[Ingress(n)]
<1>1. slot \in Held /\ slot' \in Held /\ sent \in [Works -> Seq(Nat)]
  BY Zenon DEF OwnInv, OrderInv
<1>2. LET st == Stages(slot, sent, txFrom, n)
      IN  /\ st \in Pipes
          /\ st[1] = sent[n] /\ st[2] = IF txFrom = n THEN slot[Local(TX)] ELSE <<>>
          /\ st[3] = slot[Egress(n)] /\ st[4] = slot[Local(n)] /\ st[5] = slot[Ingress(n)]
  BY <1>1, StageFacts, SMT
<1>3. LET st == Stages(slot', sent, txFrom, n)
      IN  /\ st \in Pipes
          /\ st[1] = sent[n] /\ st[2] = IF txFrom = n THEN slot'[Local(TX)] ELSE <<>>
          /\ st[3] = slot'[Egress(n)] /\ st[4] = slot'[Local(n)] /\ st[5] = slot'[Ingress(n)]
  BY <1>1, StageFacts, SMT
<1> QED
  BY <1>2, <1>3

(* A packet that comes from outside: event_rx and event_timer. *)
LEMMA ArrivalOrder ==
  ASSUME OwnInv, OwnInv', OrderInv, NEW n \in Works, NEW a,
         \/ n = TIMER /\ a = Egress(n)
         \/ n # TIMER /\ a = Ingress(n),
         NEW kind \in PacketKinds,
         pkt' = Append(pkt, [kind |-> kind, origin |-> Len(pkt) + 1]),
         slot' = [slot EXCEPT ![a] = Enq(@, Len(pkt) + 1)],
         UNCHANGED <<sent, txFrom>>
  PROVE  OrderInv'
<1> DEFINE p == Len(pkt) + 1
           rec == [kind |-> kind, origin |-> p]
           k == IF n = TIMER THEN 3 ELSE 5
           st == Stages(slot, sent, txFrom, n)
           st2 == Stages(slot', sent, txFrom, n)
           o == Org(pkt')
<1>1. /\ Egress(n) \in Places /\ Local(n) \in Places /\ Ingress(n) \in Places
      /\ Local(TX) \in Places
      /\ Egress(n) # Local(n) /\ Ingress(n) # Local(n) /\ Ingress(n) # Egress(n)
      /\ Local(TX) # Egress(n) /\ Local(TX) # Ingress(n)
  BY WorkPlaces
<1>2. rec \in [kind : PacketKinds, origin : Nat] /\ rec.origin = p /\ p \in Nat
  BY DEF OwnInv
<1>3. Grown(pkt, pkt') /\ o[p] = p
  <2> HIDE DEF rec
  <2>1. pkt' = Append(pkt, rec) /\ rec.origin <= p
    BY <1>2 DEF rec
  <2> QED
    BY <1>2, <2>1, GrownByOne
<1>4. slot'[a] = Enq(slot[a], p) /\ \A b \in Places : b # a => slot'[b] = slot[b]
  BY <1>1 DEF OwnInv, Held
<1>5. /\ st \in Pipes /\ st2 \in Pipes
      /\ st2[1] = st[1] /\ st2[2] = st[2]
      /\ st[3] = slot[Egress(n)] /\ st[4] = slot[Local(n)] /\ st[5] = slot[Ingress(n)]
      /\ st2[3] = slot'[Egress(n)] /\ st2[4] = slot'[Local(n)] /\ st2[5] = slot'[Ingress(n)]
  BY <1>1, <1>4, AroundNode, Zenon
<1>6. /\ InOrder(st, o) /\ Numbered(st, o)
      /\ AtMost(st, o, Len(pkt))
  BY <1>3, PipeBefore
<1>0. \/ k = 3 /\ n = TIMER /\ a = Egress(n)
      \/ k = 5 /\ n # TIMER /\ a = Ingress(n)
  OBVIOUS
<1> HIDE DEF st, st2, o, k
<1>7. k \in 1 .. 5 /\ st2[k] = Enq(st[k], p) /\ SameElse(st, st2, k)
  <2>1. CASE k = 3
    BY <1>0, <1>1, <1>4, <1>5, <2>1, SMT DEF SameElse
  <2>2. CASE k = 5
    BY <1>0, <1>1, <1>4, <1>5, <2>2, SMT DEF SameElse
  <2> QED
    BY <1>0, <2>1, <2>2
<1>8. NoneAfter(st, k)
  BY <1>0, <1>5 DEF OrderInv, NoneAfter
<1>9. AtMost(st, o, o[p])
  <2>1. SUFFICES ASSUME NEW j \in 1 .. 5, NEW x \in 1 .. Len(st[j]) PROVE o[st[j][x]] <= o[p]
    BY DEF AtMost
  <2>2. o[st[j][x]] \in Nat /\ o[st[j][x]] <= Len(pkt) /\ Len(pkt) \in Nat
    BY <1>6, PacketFacts DEF Numbered, AtMost
  <2> QED
    BY <1>3, <2>2
<1>10. InOrder(st2, o)
  <2>1. st2[k] = st[k] \/ st2[k] = Append(st[k], p)
    BY <1>7, EnqPuts
  <2>2. p \in Nat /\ o[p] \in Nat
    BY <1>2, <1>3
  <2> HIDE DEF p
  <2> QED
    BY <1>5, <1>6, <1>7, <1>8, <1>9, <2>1, <2>2, PutLast, Zenon
<1>11. n = TIMER => slot'[Local(n)] = <<>> /\ slot'[Ingress(n)] = <<>>
  BY <1>1, <1>4 DEF OrderInv
<1>12. \A b \in Places : b \notin {Ingress(n), Egress(n), Local(n)} => slot'[b] = slot[b]
  BY <1>4
<1> QED
  BY <1>3, <1>10, <1>11, <1>12, OneNode, Zenon DEF st2, o

(* A handler that lets go of the head of its burst, or of the whole burst, *)
(* and sends nothing.                                                      *)
LEMMA DiscardOrder ==
  ASSUME OwnInv, OwnInv', OrderInv, Grown(pkt, pkt'), NEW n \in Works, slot[Local(n)] # <<>>,
         \/ slot' = [slot EXCEPT ![Local(n)] = Tail(@)]
         \/ slot' = [slot EXCEPT ![Local(n)] = <<>>],
         UNCHANGED <<sent, txFrom>>
  PROVE  OrderInv'
<1> DEFINE st == Stages(slot, sent, txFrom, n)
           st2 == Stages(slot', sent, txFrom, n)
           o == Org(pkt')
<1>1. /\ Egress(n) \in Places /\ Local(n) \in Places /\ Ingress(n) \in Places
      /\ Local(TX) \in Places
      /\ Egress(n) # Local(n) /\ Ingress(n) # Local(n) /\ Local(TX) # Local(n)
  BY WorkPlaces
<1>2. /\ slot'[Local(n)] = Tail(slot[Local(n)]) \/ slot'[Local(n)] = <<>>
      /\ \A b \in Places : b # Local(n) => slot'[b] = slot[b]
  BY <1>1 DEF OwnInv, Held
<1>3. /\ st \in Pipes /\ st2 \in Pipes
      /\ st2[1] = st[1] /\ st2[2] = st[2]
      /\ st[3] = slot[Egress(n)] /\ st[4] = slot[Local(n)] /\ st[5] = slot[Ingress(n)]
      /\ st2[3] = slot'[Egress(n)] /\ st2[4] = slot'[Local(n)] /\ st2[5] = slot'[Ingress(n)]
  BY <1>1, <1>2, AroundNode, Zenon
<1>4. InOrder(st, o) /\ Numbered(st, o)
  BY PipeBefore
<1> HIDE DEF st, st2, o
<1>5. InOrder(st2, o)
  <2>1. SameElse(st, st2, 4)
    BY <1>1, <1>2, <1>3, SMT DEF SameElse
  <2>2. 4 \in 1 .. 5 /\ (st2[4] = <<>> \/ (st[4] # <<>> /\ st2[4] = Tail(st[4])))
    BY <1>2, <1>3, SMT
  <2> QED
    BY <1>3, <1>4, <2>1, <2>2, DropFrom
<1>6. n # TIMER /\ \A b \in Places : b \notin {Ingress(n), Egress(n), Local(n)} => slot'[b] = slot[b]
  BY <1>2 DEF OrderInv
<1> QED
  BY <1>5, <1>6, OneNode DEF st2, o

(* Along a pipe: a packet answering the request at the head of the burst  *)
(* goes to the egress ring, and the request may go.                        *)
LEMMA ReplyAlong ==
  ASSUME NEW st \in Pipes, NEW st2 \in Pipes, NEW o, NEW p \in Nat,
         InOrder(st, o), Numbered(st, o),
         st[4] # <<>>, o[p] = o[Head(st[4])],
         st2[3] = st[3] \/ st2[3] = Append(st[3], p),
         st2[4] = st[4] \/ st2[4] = Tail(st[4]),
         st2[1] = st[1], st2[2] = st[2], st2[5] = st[5]
  PROVE  InOrder(st2, o)
<1> DEFINE mid == [st EXCEPT ![3] = st2[3]]
<1>1. mid \in Pipes /\ mid[3] = st2[3] /\ SameElse(st, mid, 3)
  BY SMTT(30) DEF Pipes, SameElse
<1> HIDE DEF mid
<1>2. InOrder(mid, o) /\ Numbered(mid, o)
  <2>1. /\ 3 \in 1 .. 4 /\ st[3 + 1] # <<>> /\ o[p] = o[Head(st[3 + 1])]
        /\ mid[3] = st[3] \/ mid[3] = Append(st[3], p)
    BY <1>1, SMT DEF SameElse
  <2> QED
    BY <1>1, <2>1, PutBefore, Zenon
<1>3. SameElse(mid, st2, 4)
  BY <1>1, SMT DEF SameElse
<1>4. CASE st2[4] = st[4]
  <2>1. \A j \in 1 .. 5 : st2[j] = mid[j]
    BY <1>1, <1>3, <1>4 DEF SameElse
  <2> QED
    BY <1>2, <2>1, Zenon DEF InOrder
<1>5. CASE st2[4] = Tail(st[4])
  <2>1. mid[4] # <<>> /\ 4 \in 1 .. 5 /\ st2[4] = Tail(mid[4])
    BY <1>1, <1>5, SMT DEF SameElse
  <2> QED
    BY <1>1, <1>2, <1>3, <2>1, DropFrom
<1> QED
  BY <1>4, <1>5

(* A handler that queues a packet answering the request at the head of its *)
(* burst, and lets go of that request or keeps it for a second packet.     *)
LEMMA ReplyOrder ==
  ASSUME OwnInv, OwnInv', OrderInv, Grown(pkt, pkt'), NEW n \in Works, slot[Local(n)] # <<>>,
         NEW p \in 1 .. Len(pkt'), pkt'[p].origin = pkt[Head(slot[Local(n)])].origin,
         \/ slot' = [slot EXCEPT ![Egress(n)] = Enq(@, p)]
         \/ slot' = [slot EXCEPT ![Egress(n)] = Enq(@, p), ![Local(n)] = Tail(@)],
         UNCHANGED <<sent, txFrom>>
  PROVE  OrderInv'
<1> DEFINE st == Stages(slot, sent, txFrom, n)
           st2 == Stages(slot', sent, txFrom, n)
           o == Org(pkt')
<1>1. /\ Egress(n) \in Places /\ Local(n) \in Places /\ Ingress(n) \in Places
      /\ Local(TX) \in Places
      /\ Egress(n) # Local(n) /\ Ingress(n) # Local(n) /\ Local(TX) # Local(n)
      /\ Ingress(n) # Egress(n) /\ Local(TX) # Egress(n)
  BY WorkPlaces
<1>2. /\ slot'[Egress(n)] = Enq(slot[Egress(n)], p)
      /\ slot'[Local(n)] = Tail(slot[Local(n)]) \/ slot'[Local(n)] = slot[Local(n)]
      /\ \A b \in Places : b # Local(n) /\ b # Egress(n) => slot'[b] = slot[b]
  BY <1>1 DEF OwnInv, Held
<1>3. /\ st \in Pipes /\ st2 \in Pipes
      /\ st2[1] = st[1] /\ st2[2] = st[2]
      /\ st[3] = slot[Egress(n)] /\ st[4] = slot[Local(n)] /\ st[5] = slot[Ingress(n)]
      /\ st2[3] = slot'[Egress(n)] /\ st2[4] = slot'[Local(n)] /\ st2[5] = slot'[Ingress(n)]
  BY <1>1, <1>2, AroundNode, Zenon
<1>4. InOrder(st, o) /\ Numbered(st, o)
  BY PipeBefore
<1>5. o[p] = o[Head(slot[Local(n)])]
  <2>1. Head(slot[Local(n)]) \in 1 .. Len(pkt)
    BY HeadPacket, PlacesOfTx
  <2> DEFINE r == Head(slot[Local(n)])
  <2> HIDE DEF r
  <2>2. r \in 1 .. Len(pkt) /\ pkt'[p].origin = pkt[r].origin
    BY <2>1 DEF r
  <2>3. r \in 1 .. Len(pkt') /\ pkt'[r].origin = pkt[r].origin
    <3>1. Len(pkt) \in Nat /\ Len(pkt') \in Nat
      BY SMT DEF OwnInv
    <3> QED
      BY <2>2, <3>1, SMT DEF Grown
  <2> QED
    BY <2>2, <2>3 DEF Org, r
<1>6. p \in Nat
  BY SMT DEF OwnInv
<1> HIDE DEF st, st2, o
<1>7. /\ st[4] # <<>> /\ o[p] = o[Head(st[4])]
      /\ st2[3] = st[3] \/ st2[3] = Append(st[3], p)
      /\ st2[4] = st[4] \/ st2[4] = Tail(st[4])
      /\ st2[5] = st[5]
  BY <1>1, <1>2, <1>3, <1>5, EnqPuts, SMT
<1>8. InOrder(st2, o)
  BY <1>3, <1>4, <1>6, <1>7, ReplyAlong, Zenon
<1>9. n # TIMER /\ \A b \in Places : b \notin {Ingress(n), Egress(n), Local(n)} => slot'[b] = slot[b]
  BY <1>2 DEF OrderInv
<1> QED
  BY <1>8, <1>9, OneNode DEF st2, o

(* A node takes a burst from its ingress ring. *)
LEMMA DeqOrder ==
  ASSUME OwnInv, OwnInv', OrderInv, NEW n \in Works, Deq(n)
  PROVE  OrderInv'
<1> DEFINE st == Stages(slot, sent, txFrom, n)
           st2 == Stages(slot', sent, txFrom, n)
           o == Org(pkt')
<1>1. /\ Egress(n) \in Places /\ Local(n) \in Places /\ Ingress(n) \in Places
      /\ Local(TX) \in Places
      /\ Egress(n) # Local(n) /\ Ingress(n) # Local(n) /\ Local(TX) # Local(n)
      /\ Ingress(n) # Egress(n) /\ Local(TX) # Ingress(n)
  BY WorkPlaces
<1>2. /\ slot[Local(n)] = <<>> /\ slot[Ingress(n)] # <<>>
      /\ slot'[Local(n)] = Taken(slot[Ingress(n)])
      /\ slot'[Ingress(n)] = Rest(slot[Ingress(n)])
      /\ \A b \in Places : b # Local(n) /\ b # Ingress(n) => slot'[b] = slot[b]
      /\ UNCHANGED <<pkt, sent, txFrom>>
  BY <1>1 DEF Deq, OwnInv, Held
<1>3. Grown(pkt, pkt')
  BY <1>2, GrownByNone
<1>4. /\ st \in Pipes /\ st2 \in Pipes
      /\ st2[1] = st[1] /\ st2[2] = st[2]
      /\ st[3] = slot[Egress(n)] /\ st[4] = slot[Local(n)] /\ st[5] = slot[Ingress(n)]
      /\ st2[3] = slot'[Egress(n)] /\ st2[4] = slot'[Local(n)] /\ st2[5] = slot'[Ingress(n)]
  BY <1>1, <1>2, AroundNode, Zenon
<1>5. InOrder(st, o) /\ Numbered(st, o)
  BY <1>3, PipeBefore
<1> HIDE DEF st, st2, o
<1>6. InOrder(st2, o)
  <2>1. /\ 4 \in 1 .. 4 /\ 4 + 1 = 5 /\ st[4] = <<>>
        /\ st2[4] = Taken(st[5]) /\ st2[5] = Rest(st[5])
        /\ \A j \in 1 .. 5 : j # 4 /\ j # 5 => st2[j] = st[j]
    BY <1>1, <1>2, <1>4, SMT
  <2> QED
    BY <1>4, <1>5, <2>1, BurstAlong, SMT
<1>7. n # TIMER /\ \A b \in Places : b \notin {Ingress(n), Egress(n), Local(n)} => slot'[b] = slot[b]
  BY <1>2 DEF OrderInv
<1> QED
  BY <1>2, <1>3, <1>6, <1>7, OneNode DEF st2, o

-----------------------------------------------------------------------------
(* The pipes of the other nodes do not change when TX turns to a ring. *)
LEMMA TxDeqOrder ==
  ASSUME OwnInv, OwnInv', OrderInv, TxDeq
  PROVE  OrderInv'
<1> DEFINE n == txAt
           st == Stages(slot, sent, txFrom, n)
           st2 == Stages(slot', sent, n, n)
           o == Org(pkt')
<1>0. n \in Works /\ slot \in Held /\ slot' \in Held /\ sent \in [Works -> Seq(Nat)]
  BY DEF OwnInv, OrderInv
<1>1. /\ Egress(n) \in Places /\ Local(n) \in Places /\ Ingress(n) \in Places
      /\ Local(TX) \in Places
      /\ Egress(n) # Local(n) /\ Ingress(n) # Local(n) /\ Ingress(n) # Egress(n)
      /\ Local(TX) # Egress(n) /\ Local(TX) # Ingress(n) /\ Local(TX) # Local(n)
  BY <1>0, WorkPlaces
<1>2. /\ slot[Local(TX)] = <<>>
      /\ slot'[Local(TX)] = Taken(slot[Egress(n)])
      /\ slot'[Egress(n)] = Rest(slot[Egress(n)])
      /\ \A b \in Places : b # Local(TX) /\ b # Egress(n) => slot'[b] = slot[b]
      /\ UNCHANGED <<pkt, sent>> /\ txFrom' = n
  BY <1>1 DEF TxDeq, OwnInv, Held
<1>3. Grown(pkt, pkt')
  BY <1>2, GrownByNone
<1>4. /\ st \in Pipes
      /\ st[1] = sent[n] /\ st[2] = IF txFrom = n THEN slot[Local(TX)] ELSE <<>>
      /\ st[3] = slot[Egress(n)] /\ st[4] = slot[Local(n)] /\ st[5] = slot[Ingress(n)]
  BY <1>0, StageFacts, SMT
<1>5. /\ st2 \in Pipes
      /\ st2[1] = sent[n] /\ st2[2] = IF n = n THEN slot'[Local(TX)] ELSE <<>>
      /\ st2[3] = slot'[Egress(n)] /\ st2[4] = slot'[Local(n)] /\ st2[5] = slot'[Ingress(n)]
  BY <1>0, StageFacts, SMT
<1>6. InOrder(st, o) /\ Numbered(st, o)
  BY <1>0, <1>3, PipeBefore
<1> HIDE DEF st, st2, o
<1>7. InOrder(st2, o)
  <2>1. /\ 2 \in 1 .. 4 /\ 2 + 1 = 3 /\ st[2] = <<>>
        /\ st2[2] = Taken(st[3]) /\ st2[3] = Rest(st[3])
        /\ \A j \in 1 .. 5 : j # 2 /\ j # 3 => st2[j] = st[j]
    BY <1>1, <1>2, <1>4, <1>5, SMT
  <2> QED
    BY <1>4, <1>5, <1>6, <2>1, BurstAlong, SMT
<1>8. ASSUME NEW m \in Works, m # n
      PROVE  InOrder(Stages(slot', sent, n, m), o)
  <2>1. /\ Egress(m) \in Places /\ Local(m) \in Places /\ Ingress(m) \in Places
        /\ Local(TX) # Egress(m) /\ Local(TX) # Ingress(m) /\ Local(TX) # Local(m)
    BY WorkPlaces
  <2>2. Egress(n) # Egress(m) /\ Egress(n) # Local(m) /\ Egress(n) # Ingress(m)
    BY <1>8 DEF Egress, Local, Ingress
  <2>3. Stages(slot', sent, n, m) = Stages(slot, sent, txFrom, m)
    BY <1>2, <1>8, <2>1, <2>2 DEF Stages
  <2> QED
    BY <1>3, <2>3, PipeBefore DEF o
<1>9. \A m \in Works : InOrder(Stages(slot', sent', txFrom', m), o)
  <2>1. SUFFICES ASSUME NEW m \in Works PROVE InOrder(Stages(slot', sent, n, m), o)
    BY <1>2
  <2> QED
    BY <1>7, <1>8 DEF st2
<1>10. slot'[Local(TIMER)] = <<>> /\ slot'[Ingress(TIMER)] = <<>>
  <2>1. TIMER \in Works
    BY DEF TIMER, Works, TX
  <2>2. /\ Local(TIMER) \in Places /\ Ingress(TIMER) \in Places
        /\ Local(TX) # Ingress(TIMER) /\ Local(TX) # Local(TIMER)
    BY <2>1, WorkPlaces
  <2>3. Egress(n) # Local(TIMER) /\ Egress(n) # Ingress(TIMER)
    BY DEF Egress, Local, Ingress
  <2> QED
    BY <1>2, <2>2, <2>3 DEF OrderInv
<1> QED
  BY <1>0, <1>2, <1>9, <1>10 DEF OrderInv, o

(* TX sends the head of its burst. *)
LEMMA TxSendOrder ==
  ASSUME OwnInv, OwnInv', OrderInv, TxSend
  PROVE  OrderInv'
<1> DEFINE n == txFrom
           r == Head(slot[Local(TX)])
           st == Stages(slot, sent, n, n)
           st2 == Stages(slot', sent', n, n)
           o == Org(pkt')
<1>0. n \in Works /\ slot \in Held /\ slot' \in Held /\ sent \in [Works -> Seq(Nat)] /\ TX \in Nodes
  BY SMT DEF OwnInv, OrderInv, TX, Nodes, COUNT
<1>1. /\ Egress(n) \in Places /\ Local(n) \in Places /\ Ingress(n) \in Places
      /\ Local(TX) \in Places
      /\ Local(TX) # Egress(n) /\ Local(TX) # Ingress(n) /\ Local(TX) # Local(n)
  BY <1>0, WorkPlaces
<1>2. /\ slot[Local(TX)] # <<>>
      /\ slot'[Local(TX)] = Tail(slot[Local(TX)])
      /\ \A b \in Places : b # Local(TX) => slot'[b] = slot[b]
      /\ sent' = [sent EXCEPT ![n] = Append(sent[n], r)]
      /\ UNCHANGED <<pkt, txFrom>>
  BY <1>1 DEF TxSend, OwnInv, Held
<1>3. r \in 1 .. Len(pkt) /\ r \in Nat
  <2>1. r \in 1 .. Len(pkt)
    BY <1>0, <1>2, HeadPacket
  <2> HIDE DEF r
  <2> QED
    BY <2>1
<1> HIDE DEF r
<1>4. /\ sent' \in [Works -> Seq(Nat)]
      /\ sent'[n] = Append(sent[n], r)
      /\ \A m \in Works : m # n => sent'[m] = sent[m]
  BY <1>0, <1>2, <1>3, SMT
<1>5. Grown(pkt, pkt')
  BY <1>2, GrownByNone
<1>6. /\ st \in Pipes
      /\ st[1] = sent[n] /\ st[2] = IF n = n THEN slot[Local(TX)] ELSE <<>>
      /\ st[3] = slot[Egress(n)] /\ st[4] = slot[Local(n)] /\ st[5] = slot[Ingress(n)]
  BY <1>0, StageFacts, SMT
<1>7. /\ st2 \in Pipes
      /\ st2[1] = sent'[n] /\ st2[2] = IF n = n THEN slot'[Local(TX)] ELSE <<>>
      /\ st2[3] = slot'[Egress(n)] /\ st2[4] = slot'[Local(n)] /\ st2[5] = slot'[Ingress(n)]
  BY <1>0, <1>4, StageFacts, SMTT(30)
<1>8. InOrder(st, o) /\ Numbered(st, o)
  BY <1>0, <1>5, PipeBefore
<1> HIDE DEF st, st2, o
<1>9. InOrder(st2, o)
  <2> DEFINE mid == [st EXCEPT ![1] = st2[1]]
  <2>1. mid \in Pipes /\ mid[1] = st2[1] /\ SameElse(st, mid, 1)
    BY <1>6, <1>7, SMT DEF Pipes, SameElse
  <2> HIDE DEF mid
  <2>2. /\ 1 \in 1 .. 4 /\ st[1 + 1] # <<>> /\ o[r] = o[Head(st[1 + 1])]
        /\ mid[1] = Append(st[1], r)
    BY <1>2, <1>4, <1>6, <1>7, <2>1, SMT DEF r
  <2>3. InOrder(mid, o) /\ Numbered(mid, o)
    BY <1>3, <1>6, <1>8, <2>1, <2>2, PutBefore, Zenon
  <2>4. /\ SameElse(mid, st2, 2) /\ mid[2] # <<>> /\ st2[2] = Tail(mid[2]) /\ 2 \in 1 .. 5
    BY <1>1, <1>2, <1>6, <1>7, <2>1, SMT DEF SameElse
  <2> QED
    BY <1>7, <2>1, <2>3, <2>4, DropFrom
<1>10. ASSUME NEW m \in Works, m # n
       PROVE  InOrder(Stages(slot', sent', n, m), o)
  <2>1. /\ Egress(m) \in Places /\ Local(m) \in Places /\ Ingress(m) \in Places
        /\ Local(TX) # Egress(m) /\ Local(TX) # Ingress(m) /\ Local(TX) # Local(m)
    BY WorkPlaces
  <2>2. Stages(slot', sent', n, m) = Stages(slot, sent, n, m)
    BY <1>2, <1>4, <1>10, <2>1 DEF Stages
  <2> QED
    BY <1>5, <2>2, PipeBefore DEF o
<1>11. \A m \in Works : InOrder(Stages(slot', sent', txFrom', m), o)
  <2>1. SUFFICES ASSUME NEW m \in Works PROVE InOrder(Stages(slot', sent', n, m), o)
    BY <1>2, Zenon
  <2> QED
    BY <1>9, <1>10 DEF st2
<1>12. slot'[Local(TIMER)] = <<>> /\ slot'[Ingress(TIMER)] = <<>>
  <2>1. TIMER \in Works
    BY DEF TIMER, Works, TX
  <2> QED
    BY <1>2, <2>1, WorkPlaces DEF OrderInv
<1>13. \A m \in Works : \A i \in 1 .. Len(sent'[m]) : sent'[m][i] \in 1 .. Len(pkt)
  <2>1. SUFFICES ASSUME NEW m \in Works, NEW i \in 1 .. Len(sent'[m])
                 PROVE  sent'[m][i] \in 1 .. Len(pkt)
    OBVIOUS
  <2>2. CASE m # n
    BY <1>4, <2>2 DEF OrderInv
  <2>3. CASE m = n
    <3>1. sent[n] \in Seq(Nat)
      BY <1>0
    <3>2. \/ i \in 1 .. Len(sent[n]) /\ sent'[n][i] = sent[n][i]
          \/ sent'[n][i] = r
      BY <1>3, <1>4, <2>3, <3>1, PutFacts
    <3> QED
      BY <1>0, <1>3, <2>3, <3>2 DEF OrderInv
  <2> QED
    BY <2>2, <2>3
<1> QED
  BY <1>0, <1>2, <1>4, <1>11, <1>12, <1>13, Zenon DEF OrderInv, o

(* At the start the pipes are empty. *)
LEMMA OrderInit == Init => OrderInv
<1> SUFFICES ASSUME Init PROVE OrderInv
  OBVIOUS
<1>1. \A n \in Works : \A j \in 1 .. 5 : Stages(slot, sent, txFrom, n)[j] = <<>>
  <2>1. SUFFICES ASSUME NEW n \in Works
                 PROVE  \A j \in 1 .. 5 : Stages(slot, sent, txFrom, n)[j] = <<>>
    OBVIOUS
  <2>2. /\ sent[n] = <<>> /\ slot[Local(TX)] = <<>>
        /\ slot[Egress(n)] = <<>> /\ slot[Local(n)] = <<>> /\ slot[Ingress(n)] = <<>>
    BY WorkPlaces DEF Init
  <2> QED
    BY <2>2 DEF Stages
<1>2. \A n \in Works : InOrder(Stages(slot, sent, txFrom, n), Org(pkt))
  BY <1>1 DEF InOrder
<1>3. slot[Local(TIMER)] = <<>> /\ slot[Ingress(TIMER)] = <<>> /\ TIMER \in Works /\ 0 \in Works
  <2>1. TIMER \in Works /\ 0 \in Works
    BY DEF TIMER, Works, TX
  <2> QED
    BY <2>1, WorkPlaces DEF Init
<1> QED
  BY <1>2, <1>3 DEF Init, OrderInv

(* Every step keeps the pipes in order. *)
LEMMA OrderStep == OwnInv /\ OwnInv' /\ OrderInv /\ [Next]_vars => OrderInv'
<1> SUFFICES ASSUME OwnInv, OwnInv', OrderInv, [Next]_vars PROVE OrderInv'
  OBVIOUS
<1>1. CASE UNCHANGED <<slot, pkt, sent, txFrom>>
  BY <1>1 DEF OrderInv
<1>2. CASE MainStep
  BY <1>1, <1>2 DEF MainStep, StartServer, CreateNode, AllStarted, HaltNext, JoinNext, memory
<1>3. CASE BeginStop
  BY <1>1, <1>3 DEF BeginStop, memory
<1>4. ASSUME NEW k \in Kinds, Receive(k) PROVE OrderInv'
  <2> DEFINE p == Len(pkt) + 1
             rec == [kind |-> k, origin |-> p]
  <2>1. /\ pkt' = Append(pkt, rec) /\ UNCHANGED <<sent, txFrom>>
        /\ k \in PacketKinds
    BY <1>4, KindsAssumption DEF Receive, PacketKinds
  <2>2. CASE UNCHANGED slot
    <3>1. rec \in [kind : PacketKinds, origin : Nat] /\ rec.origin <= Len(pkt) + 1
      BY <2>1 DEF OwnInv
    <3> HIDE DEF rec
    <3>2. Grown(pkt, pkt')
      BY <2>1, <3>1, GrownByOne
    <3>3. \A n \in Works : InOrder(Stages(slot, sent, txFrom, n), Org(pkt'))
      BY <3>2, PipeBefore
    <3>4. Len(pkt) \in Nat /\ Len(pkt') \in Nat
      BY DEF OwnInv
    <3>5. \A n \in Works : \A i \in 1 .. Len(sent[n]) : sent[n][i] \in 1 .. Len(pkt')
      BY <3>2, <3>4, SMT DEF OrderInv, Grown
    <3> QED
      BY <2>1, <2>2, <3>2, <3>3, <3>5 DEF OrderInv, Grown
  <2>3. ASSUME NEW n \in Route(k), slot' = [slot EXCEPT ![Ingress(n)] = Enq(@, p)]
        PROVE  OrderInv'
    <3>1. n \in Works /\ n # TIMER
      BY DEF Route, Works, TX, TIMER, GTPU_ECHO, GTPC_ECHO, GTPU_OTHER, GTPC_OTHER,
             CREATE_SESSION, CREATE_SESSION_EXT0, MODIFY_BEARER
    <3> QED
      BY <2>1, <2>3, <3>1, ArrivalOrder, Zenon
  <2> QED
    BY <1>4, <2>2, <2>3 DEF Receive
<1>5. CASE TimerEcho
  <2>1. TIMER \in Works /\ "timer" \in PacketKinds
    BY DEF TIMER, Works, TX, PacketKinds
  <2>2. /\ pkt' = Append(pkt, [kind |-> "timer", origin |-> Len(pkt) + 1])
        /\ slot' = [slot EXCEPT ![Egress(TIMER)] = Enq(@, Len(pkt) + 1)]
        /\ UNCHANGED <<sent, txFrom>>
    BY <1>5 DEF TimerEcho
  <2> QED
    BY <2>1, <2>2, ArrivalOrder, Zenon
<1>6. ASSUME NEW t \in Servers, ServerExit(t) PROVE OrderInv'
  BY <1>1, <1>6 DEF ServerExit, memory
<1>7. ASSUME NEW n \in Works, Deq(n) PROVE OrderInv'
  BY <1>7, DeqOrder
<1>8. ASSUME NEW n \in Works, Handle(n) PROVE OrderInv'
  <2> DEFINE r == Head(slot[Local(n)])
  <2>0. slot[Local(n)] # <<>>
    BY <1>8 DEF Handle, EchoDuplicate, EchoRespond, Consume, Answer, Handling
  <2>1. /\ r \in 1 .. Len(pkt) /\ pkt[r] \in [kind : PacketKinds, origin : Nat]
        /\ pkt[r].origin <= Len(pkt) + 1
    <3>1. r \in 1 .. Len(pkt) /\ pkt[r] \in [kind : PacketKinds, origin : Nat]
      BY <2>0, PlacesOfTx, HeadPacket
    <3> HIDE DEF r
    <3>2. pkt[r].origin \in Nat /\ pkt[r].origin <= Len(pkt) /\ Len(pkt) \in Nat
      BY <3>1, OriginFacts
    <3> QED
      BY <3>1, <3>2
  <2>2. CASE EchoDuplicate(n)
    <3>1. /\ pkt' = Append(pkt, pkt[r])
          /\ slot' = [slot EXCEPT ![Egress(n)] = Enq(@, Len(pkt) + 1)]
          /\ UNCHANGED <<sent, txFrom>>
      BY <2>2 DEF EchoDuplicate
    <3>2. Grown(pkt, pkt') /\ Len(pkt) + 1 \in 1 .. Len(pkt') /\ pkt'[Len(pkt) + 1].origin = pkt[r].origin
      <4> HIDE DEF r
      <4> QED
        BY <2>1, <3>1, GrownByOne, Zenon DEF Org
    <3> QED
      BY <2>0, <3>1, <3>2, ReplyOrder, Zenon
  <2>3. CASE EchoRespond(n)
    <3> DEFINE kd == IF n = GTPU_ECHO THEN "u_echo_res" ELSE "c_echo_res"
    <3>1. /\ pkt' = [pkt EXCEPT ![r].kind = kd]
          /\ slot' = [slot EXCEPT ![Egress(n)] = Enq(@, r), ![Local(n)] = Tail(@)]
          /\ UNCHANGED <<sent, txFrom>>
      BY <2>3, PlacesOfTx, PlacesOfNode, Zenon DEF EchoRespond
    <3> HIDE DEF kd
    <3>2. /\ Grown(pkt, pkt') /\ r \in 1 .. Len(pkt') /\ pkt'[r].origin = pkt[r].origin
      <4>1. pkt \in Seq([kind : PacketKinds, origin : Nat])
        BY DEF OwnInv
      <4>2. \A p \in 1 .. Len(pkt) : pkt[p] \in [kind : PacketKinds, origin : Nat]
        BY <4>1, ElementOfSeq, Zenon
      <4> HIDE DEF r
      <4>3. Len(pkt') = Len(pkt) /\ \A p \in 1 .. Len(pkt) : pkt'[p].origin = pkt[p].origin
        BY <2>1, <3>1, <4>1, <4>2, SMT
      <4>4. Len(pkt) \in Nat /\ \A p \in 1 .. Len(pkt) : pkt[p].origin <= Len(pkt)
        BY <4>1 DEF OrderInv
      <4>5. Grown(pkt, pkt')
        BY <4>3, <4>4 DEF Grown
      <4> QED
        BY <2>1, <4>3, <4>5
    <3> QED
      BY <2>0, <3>1, <3>2, ReplyOrder, Zenon
  <2>4. CASE Consume(n)
    <3>1. Grown(pkt, pkt')
      BY <2>4, GrownByNone DEF Consume
    <3> QED
      BY <2>0, <2>4, <3>1, DiscardOrder, Zenon DEF Consume
  <2>5. CASE Answer(n)
    <3> DEFINE rec == [pkt[r] EXCEPT !.kind = "answer"]
    <3>1. /\ pkt' = Append(pkt, rec)
          /\ slot' = [slot EXCEPT ![Egress(n)] = Enq(@, Len(pkt) + 1), ![Local(n)] = Tail(@)]
          /\ UNCHANGED <<sent, txFrom>>
      BY <2>5 DEF Answer
    <3>2. rec \in [kind : PacketKinds, origin : Nat] /\ rec.origin = pkt[r].origin
      BY <2>1 DEF PacketKinds
    <3>3. Grown(pkt, pkt') /\ Len(pkt) + 1 \in 1 .. Len(pkt') /\ pkt'[Len(pkt) + 1].origin = pkt[r].origin
      <4> HIDE DEF r, rec
      <4> QED
        BY <2>1, <3>1, <3>2, GrownByOne, Zenon DEF Org
    <3> QED
      BY <2>0, <3>1, <3>3, ReplyOrder, Zenon
  <2> QED
    BY <1>8, <2>2, <2>3, <2>4, <2>5 DEF Handle
<1>9. CASE UnknownTunnel \/ BreakBurst
  <2> DEFINE n == GTPU_OTHER
             r == Head(slot[Local(n)])
             rec == [pkt[r] EXCEPT !.kind = "answer"]
  <2>1. n \in Works /\ n \in Nodes /\ slot[Local(n)] # <<>>
    BY <1>9, SMT DEF UnknownTunnel, BreakBurst, Handling, GTPU_OTHER, Works, Nodes, COUNT, TX
  <2>2. /\ pkt' = Append(pkt, rec) /\ UNCHANGED <<sent, txFrom>>
        /\ \/ slot' = [slot EXCEPT ![Local(n)] = Tail(@)]
           \/ slot' = [slot EXCEPT ![Local(n)] = <<>>]
    BY <1>9 DEF UnknownTunnel, BreakBurst
  <2>3. r \in 1 .. Len(pkt) /\ pkt[r] \in [kind : PacketKinds, origin : Nat]
    BY <2>1, HeadPacket
  <2>4. /\ rec \in [kind : PacketKinds, origin : Nat]
        /\ rec.origin <= Len(pkt) + 1
    <3>1. rec \in [kind : PacketKinds, origin : Nat] /\ rec.origin = pkt[r].origin
      BY <2>3 DEF PacketKinds
    <3> HIDE DEF r, rec
    <3>2. pkt[r].origin \in Nat /\ pkt[r].origin <= Len(pkt) /\ Len(pkt) \in Nat
      BY <2>3, OriginFacts
    <3> QED
      BY <3>1, <3>2
  <2>5. Grown(pkt, pkt')
    <3> HIDE DEF rec
    <3> QED
      BY <2>2, <2>4, GrownByOne
  <2> HIDE DEF n
  <2> QED
    BY <2>1, <2>2, <2>5, DiscardOrder
<1>11. ASSUME NEW n \in Nodes, NodeExit(n) PROVE OrderInv'
  BY <1>1, <1>11 DEF NodeExit, memory
<1>12. CASE TxDeq
  BY <1>12, TxDeqOrder
<1>13. CASE TxSend
  BY <1>13, TxSendOrder
<1>14. CASE UNCHANGED vars
  BY <1>1, <1>14 DEF vars
<1> QED
  BY <1>2, <1>3, <1>4, <1>5, <1>6, <1>7, <1>8, <1>9, <1>11, <1>12, <1>13, <1>14 DEF Next

-----------------------------------------------------------------------------
(* In a sequence, and between two, the requests answered in order. *)
Rising(s, o) == \A i, j \in 1 .. Len(s) : i < j => o[s[i]] <= o[s[j]]
NotAbove(s, t, o) == \A i \in 1 .. Len(s), j \in 1 .. Len(t) : o[s[i]] <= o[t[j]]

(* Every element of the sequence is in S. *)
Within(s, S) == \A i \in 1 .. Len(s) : s[i] \in S

(* The positions of a concatenation. *)
LEMMA ConcatFacts ==
  ASSUME NEW s \in Seq(Nat), NEW t \in Seq(Nat)
  PROVE  /\ s \o t \in Seq(Nat)
         /\ \A i \in 1 .. Len(s \o t) :
              \/ i \in 1 .. Len(s) /\ (s \o t)[i] = s[i]
              \/ i > Len(s) /\ i - Len(s) \in 1 .. Len(t) /\ (s \o t)[i] = t[i - Len(s)]
OBVIOUS

(* Two rising sequences, the first not above the second, rise together. *)
LEMMA RisingConcat ==
  ASSUME NEW s \in Seq(Nat), NEW t \in Seq(Nat), NEW o,
         Rising(s, o), Rising(t, o), NotAbove(s, t, o)
  PROVE  Rising(s \o t, o)
<1> DEFINE q == s \o t
<1>1. \A i \in 1 .. Len(q) : \/ i \in 1 .. Len(s) /\ q[i] = s[i]
                             \/ i > Len(s) /\ i - Len(s) \in 1 .. Len(t) /\ q[i] = t[i - Len(s)]
  BY ConcatFacts
<1>2. Len(s) \in Nat /\ Len(q) \in Nat
  OBVIOUS
<1> HIDE DEF q
<1>3. SUFFICES ASSUME NEW i \in 1 .. Len(q), NEW j \in 1 .. Len(q), i < j PROVE o[q[i]] <= o[q[j]]
  BY Zenon DEF Rising, q
<1>4. CASE i \in 1 .. Len(s) /\ q[i] = s[i]
  <2>1. CASE j \in 1 .. Len(s) /\ q[j] = s[j]
    BY <1>3, <1>4, <2>1 DEF Rising
  <2>2. CASE j > Len(s) /\ j - Len(s) \in 1 .. Len(t) /\ q[j] = t[j - Len(s)]
    BY <1>4, <2>2, Zenon DEF NotAbove
  <2> QED
    BY <1>1, <2>1, <2>2, Zenon
<1>5. CASE i > Len(s) /\ i - Len(s) \in 1 .. Len(t) /\ q[i] = t[i - Len(s)]
  <2>1. j > Len(s) /\ j - Len(s) \in 1 .. Len(t) /\ q[j] = t[j - Len(s)] /\ i - Len(s) < j - Len(s)
    BY <1>1, <1>2, <1>3, <1>5
  <2> QED
    BY <1>5, <2>1, Zenon DEF Rising
<1> QED
  BY <1>1, <1>4, <1>5

(* Two sequences not above a third are not above it together. *)
LEMMA NotAboveConcat ==
  ASSUME NEW s \in Seq(Nat), NEW t \in Seq(Nat), NEW u \in Seq(Nat), NEW o,
         NotAbove(s, u, o), NotAbove(t, u, o)
  PROVE  NotAbove(s \o t, u, o)
<1> DEFINE q == s \o t
<1>1. \A i \in 1 .. Len(q) : \/ i \in 1 .. Len(s) /\ q[i] = s[i]
                             \/ i - Len(s) \in 1 .. Len(t) /\ q[i] = t[i - Len(s)]
  BY ConcatFacts
<1> HIDE DEF q
<1>2. NotAbove(q, u, o)
  BY <1>1, Zenon DEF NotAbove
<1> QED
  BY <1>2 DEF q

(* Two sequences within a set are within it together. *)
LEMMA WithinConcat ==
  ASSUME NEW s \in Seq(Nat), NEW t \in Seq(Nat), NEW S, Within(s, S), Within(t, S)
  PROVE  Within(s \o t, S)
BY ConcatFacts, ZenonT(30) DEF Within

(* AnswersLeaveInOrder: whatever the sizes of the rings and bursts and the *)
(* interleaving of the node with the servers and TX, the answers of a node *)
(* leave in the order in which its requests arrived.                       *)
THEOREM AnswersLeaveInOrder == Spec => []AnswersInOrder
<1>1. OwnInv /\ OrderInv => AnswersInOrder
  <2> SUFFICES ASSUME OwnInv, OrderInv, NEW n \in Works
               PROVE  LET q == Pipe(n) IN \A i, j \in 1 .. Len(q) : i < j => q[i] <= q[j]
    BY DEF AnswersInOrder
  <2> DEFINE st == Stages(slot, sent, txFrom, n)
             o == Org(pkt)
             a == sent[n]
             b == IF txFrom = n THEN slot[Local(TX)] ELSE <<>>
             c == slot[Egress(n)]
             d == slot[Local(n)]
             e == slot[Ingress(n)]
             all == a \o b \o c \o d \o e
  <2>1. st \in Pipes /\ st[1] = a /\ st[2] = b /\ st[3] = c /\ st[4] = d /\ st[5] = e
    <3>1. slot \in Held /\ sent \in [Works -> Seq(Nat)]
      BY Zenon DEF OwnInv, OrderInv
    <3> QED
      BY <3>1, StageFacts, SMT
  <2>2. InOrder(st, o)
    BY Zenon DEF OrderInv
  <2>3. Within(a, 1 .. Len(pkt))
    BY DEF OrderInv, Within
  <2>4. Within(c, 1 .. Len(pkt)) /\ Within(d, 1 .. Len(pkt)) /\ Within(e, 1 .. Len(pkt))
    BY WorkPlaces DEF OwnInv, Allocated, Within
  <2>5. Within(b, 1 .. Len(pkt))
    <3>1. Within(slot[Local(TX)], 1 .. Len(pkt)) /\ Within(<<>>, 1 .. Len(pkt))
      BY WorkPlaces DEF OwnInv, Allocated, Within
    <3> QED
      BY <3>1
  <2>6. Pipe(n) = Origins(all)
    BY DEF Pipe
  <2> HIDE DEF st, o, a, b, c, d, e
  <2>7. /\ a \in Seq(Nat) /\ b \in Seq(Nat) /\ c \in Seq(Nat) /\ d \in Seq(Nat) /\ e \in Seq(Nat)
    BY <2>1, SMT DEF Pipes
  <2>8. /\ Rising(a, o) /\ Rising(b, o) /\ Rising(c, o) /\ Rising(d, o) /\ Rising(e, o)
    BY <2>1, <2>2 DEF InOrder, Rising
  <2>9. /\ NotAbove(a, b, o)
        /\ NotAbove(a, c, o) /\ NotAbove(b, c, o)
        /\ NotAbove(a, d, o) /\ NotAbove(b, d, o) /\ NotAbove(c, d, o)
        /\ NotAbove(a, e, o) /\ NotAbove(b, e, o) /\ NotAbove(c, e, o) /\ NotAbove(d, e, o)
    <3>1. \A j, k \in 1 .. 5 : j < k => NotAbove(st[j], st[k], o)
      BY <2>2, Zenon DEF InOrder, NotAbove
    <3> QED
      BY <2>1, <3>1
  <2>10. /\ a \o b \in Seq(Nat) /\ a \o b \o c \in Seq(Nat) /\ a \o b \o c \o d \in Seq(Nat)
         /\ all \in Seq(Nat)
    BY <2>7
  <2>11. Rising(a \o b, o) /\ NotAbove(a \o b, c, o) /\ NotAbove(a \o b, d, o) /\ NotAbove(a \o b, e, o)
    BY <2>7, <2>8, <2>9, RisingConcat, NotAboveConcat
  <2>12. Within(a \o b, 1 .. Len(pkt))
    BY <2>3, <2>5, <2>7, WithinConcat
  <2>13. Rising(a \o b \o c, o) /\ NotAbove(a \o b \o c, d, o) /\ NotAbove(a \o b \o c, e, o)
    BY <2>7, <2>8, <2>9, <2>10, <2>11, RisingConcat, NotAboveConcat, Zenon
  <2>14. Within(a \o b \o c, 1 .. Len(pkt))
    BY <2>4, <2>7, <2>10, <2>12, WithinConcat, Zenon
  <2>15. Rising(a \o b \o c \o d, o) /\ NotAbove(a \o b \o c \o d, e, o)
    BY <2>7, <2>8, <2>9, <2>10, <2>13, RisingConcat, NotAboveConcat, Zenon
  <2>16. Within(a \o b \o c \o d, 1 .. Len(pkt))
    BY <2>4, <2>7, <2>10, <2>14, WithinConcat, Zenon
  <2>17. Rising(all, o) /\ Within(all, 1 .. Len(pkt))
    BY <2>4, <2>7, <2>8, <2>10, <2>15, <2>16, RisingConcat, WithinConcat, Zenon
  <2> HIDE DEF all
  <2>18. /\ DOMAIN Origins(all) = 1 .. Len(all) /\ Len(Origins(all)) = Len(all)
         /\ \A i \in 1 .. Len(all) : Origins(all)[i] = o[all[i]]
    <3>1. Len(all) \in Nat
      BY <2>10
    <3>2. \A i \in 1 .. Len(all) : pkt[all[i]].origin = o[all[i]]
      BY <2>17 DEF Within, Org, o
    <3> QED
      BY <3>1, <3>2, SMT DEF Origins
  <2> QED
    BY <2>6, <2>17, <2>18, SMT DEF Rising
<1> QED
  BY <1>1, OwnInit, OwnStep, OrderInit, OrderStep, PTL DEF Spec
=============================================================================
