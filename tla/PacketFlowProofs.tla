-------------------------- MODULE PacketFlowProofs --------------------------
(***************************************************************************)
(* Packets of the control plane have a single owner, for every ring size,  *)
(* burst size and number of packets: no interleaving of the server, node   *)
(* and TX threads makes two of them reach one packet, or one of them reach *)
(* a packet that was freed.  The places are moved between by four moves    *)
(* (put a packet no place holds, take the head, take a burst, forget all), *)
(* each a lemma, and every action is one or two of them.  Along the same   *)
(* moves: no packet disappears, and a joined thread left nothing behind.   *)
(***************************************************************************)
EXTENDS PacketFlow, TLAPS

(* Most steps need no arithmetic: Zenon is tried first, and SMT where it   *)
(* fails.                                                                  *)
USE Zenon, SMT

(* What the places hold, as a function of its own. *)
Held == [Places -> Seq(Nat)]

(* No packet is at two positions of the places. *)
Apart(s) ==
  \A a, b \in Places : \A i \in 1 .. Len(s[a]), j \in 1 .. Len(s[b]) :
    s[a][i] = s[b][j] => a = b /\ i = j

(* No place holds a packet of d. *)
Clear(s, d) == \A a \in Places : \A i \in 1 .. Len(s[a]) : s[a][i] \notin d

(* Every packet held was allocated. *)
Allocated(s) == \A a \in Places : \A i \in 1 .. Len(s[a]) : s[a][i] \in 1 .. Len(pkt)

(* The inductive invariant: SingleOwner, and that a new packet, numbered   *)
(* Len(pkt) + 1, is in no place, nor freed, nor lost.                      *)
OwnInv ==
  /\ slot \in Held
  /\ pkt \in Seq([kind : PacketKinds, origin : Nat])
  /\ Allocated(slot)
  /\ freed \subseteq 1 .. Len(pkt)
  /\ lost \subseteq 1 .. Len(pkt)
  /\ txAt \in Works
  /\ Apart(slot)
  /\ Clear(slot, freed)
  /\ Clear(slot, lost)
  /\ freed \cap lost = {}

-----------------------------------------------------------------------------
(* A ring or burst is in Places, and the three of a node differ. *)
LEMMA PlacesOfNode ==
  ASSUME NEW n \in Nodes
  PROVE  /\ Ingress(n) \in Places /\ Egress(n) \in Places /\ Local(n) \in Places
         /\ Ingress(n) # Local(n) /\ Egress(n) # Local(n) /\ Ingress(n) # Egress(n)
BY DEF Ingress, Egress, Local, Places

(* The burst of TX is no place of another node. *)
LEMMA PlacesOfTx ==
  ASSUME NEW n \in Works
  PROVE  n \in Nodes /\ TX \in Nodes /\ Egress(n) # Local(TX)
BY DEF Egress, Local, Works, Nodes, TX, COUNT

(* pgw_enq keeps the ring and puts the packet behind it, or drops it. *)
LEMMA EnqFacts ==
  ASSUME NEW q \in Seq(Nat), NEW p \in Nat
  PROVE  /\ Enq(q, p) \in Seq(Nat)
         /\ \A i \in 1 .. Len(Enq(q, p)) :
              \/ i \in 1 .. Len(q) /\ Enq(q, p)[i] = q[i]
              \/ i = Len(q) + 1 /\ Enq(q, p)[i] = p /\ Dropped(q, p) = {}
         /\ Dropped(q, p) \subseteq {p}
BY DEF Enq, Dropped

(* What is left of a burst is its positions from the second on. *)
LEMMA TailFacts ==
  ASSUME NEW q \in Seq(Nat), q # <<>>
  PROVE  /\ Tail(q) \in Seq(Nat)
         /\ 1 \in 1 .. Len(q) /\ Head(q) = q[1] /\ Head(q) \in Nat
         /\ \A i \in 1 .. Len(Tail(q)) : i + 1 \in 1 .. Len(q) /\ Tail(q)[i] = q[i + 1]
OBVIOUS

(* pgw_deq_burst splits the ring at one position. *)
LEMMA BurstFacts ==
  ASSUME NEW q \in Seq(Nat)
  PROVE  \E k \in 0 .. Len(q) :
           /\ Taken(q) \in Seq(Nat) /\ Len(Taken(q)) = k
           /\ \A i \in 1 .. k : Taken(q)[i] = q[i]
           /\ Rest(q) \in Seq(Nat) /\ Len(Rest(q)) = Len(q) - k
           /\ \A i \in 1 .. Len(q) - k : Rest(q)[i] = q[i + k]
<1> DEFINE k == IF Len(q) < Burst THEN Len(q) ELSE Burst
<1>1. k \in 0 .. Len(q)
  BY BurstAssumption
<1>2. Taken(q) = SubSeq(q, 1, k) /\ Rest(q) = SubSeq(q, k + 1, Len(q))
  BY DEF Taken, Rest
<1> HIDE DEF k
<1>3. /\ SubSeq(q, 1, k) \in Seq(Nat) /\ Len(SubSeq(q, 1, k)) = k
      /\ \A i \in 1 .. k : SubSeq(q, 1, k)[i] = q[i]
  BY <1>1
<1>4. /\ SubSeq(q, k + 1, Len(q)) \in Seq(Nat) /\ Len(SubSeq(q, k + 1, Len(q))) = Len(q) - k
      /\ \A i \in 1 .. Len(q) - k : SubSeq(q, k + 1, Len(q))[i] = q[i + k]
  <2>1. SubSeq(q, k + 1, Len(q)) \in Seq(Nat)
    BY <1>1
  <2>2. Len(SubSeq(q, k + 1, Len(q))) = Len(q) - k
    BY <1>1
  <2>3. ASSUME NEW i \in 1 .. Len(q) - k PROVE SubSeq(q, k + 1, Len(q))[i] = q[i + k]
    BY <1>1
  <2> QED
    BY <2>1, <2>2, <2>3, Zenon
<1> QED
  BY <1>1, <1>2, <1>3, <1>4, Zenon

-----------------------------------------------------------------------------
(* Places without a packet of two sets hold none of their union. *)
LEMMA ClearBoth ==
  ASSUME NEW s, NEW d, NEW e, Clear(s, d), Clear(s, e)
  PROVE  Clear(s, d \cup e)
BY DEF Clear

(* An element of a sequence is in the set it is over. *)
LEMMA ElementOfSeq ==
  ASSUME NEW S, NEW q \in Seq(S), NEW i \in 1 .. Len(q)
  PROVE  q[i] \in S
OBVIOUS

(* First move: a packet no place holds is put on a ring. *)
LEMMA PutFresh ==
  ASSUME NEW s \in Held, NEW a \in Places, NEW p \in Nat, Apart(s), Clear(s, {p})
  PROVE  LET t == [s EXCEPT ![a] = Enq(s[a], p)]
         IN  /\ t \in Held
             /\ Apart(t)
             /\ Clear(t, Dropped(s[a], p))
             /\ \A d : Clear(s, d) /\ p \notin d => Clear(t, d)
             /\ \A n : p \in 1 .. n /\ (\A b \in Places : \A i \in 1 .. Len(s[b]) : s[b][i] \in 1 .. n)
                  => \A b \in Places : \A i \in 1 .. Len(t[b]) : t[b][i] \in 1 .. n
<1> DEFINE t == [s EXCEPT ![a] = Enq(s[a], p)]
<1>1. s[a] \in Seq(Nat)
  BY DEF Held
<1>2. t \in Held /\ t[a] = Enq(s[a], p) /\ \A b \in Places : b # a => t[b] = s[b]
  BY <1>1, EnqFacts DEF Held
<1>3. \A b \in Places : \A i \in 1 .. Len(t[b]) :
        \/ i \in 1 .. Len(s[b]) /\ t[b][i] = s[b][i]
        \/ b = a /\ i = Len(s[a]) + 1 /\ t[b][i] = p /\ Dropped(s[a], p) = {}
  <2>1. \A i \in 1 .. Len(Enq(s[a], p)) :
          \/ i \in 1 .. Len(s[a]) /\ Enq(s[a], p)[i] = s[a][i]
          \/ i = Len(s[a]) + 1 /\ Enq(s[a], p)[i] = p /\ Dropped(s[a], p) = {}
    BY <1>1, EnqFacts
  <2> HIDE DEF t
  <2>2. ASSUME NEW b \in Places, b # a, NEW i \in 1 .. Len(t[b])
        PROVE  i \in 1 .. Len(s[b]) /\ t[b][i] = s[b][i]
    BY <1>2, <2>2
  <2>3. \A i \in 1 .. Len(t[a]) :
          \/ i \in 1 .. Len(s[a]) /\ t[a][i] = s[a][i]
          \/ i = Len(s[a]) + 1 /\ t[a][i] = p /\ Dropped(s[a], p) = {}
    BY <1>2, <2>1
  <2> QED
    BY <2>2, <2>3, Zenon
<1>4. \A b \in Places : \A i \in 1 .. Len(s[b]) : s[b][i] # p
  BY DEF Clear
<1> HIDE DEF t
<1>5. Apart(t)
  <2>1. SUFFICES ASSUME NEW b \in Places, NEW c \in Places,
                        NEW i \in 1 .. Len(t[b]), NEW j \in 1 .. Len(t[c]), t[b][i] = t[c][j]
                 PROVE  b = c /\ i = j
    BY DEF Apart
  <2>2. /\ \/ i \in 1 .. Len(s[b]) /\ t[b][i] = s[b][i]
           \/ b = a /\ i = Len(s[a]) + 1 /\ t[b][i] = p
        /\ \/ j \in 1 .. Len(s[c]) /\ t[c][j] = s[c][j]
           \/ c = a /\ j = Len(s[a]) + 1 /\ t[c][j] = p
    BY <1>3, Zenon
  <2>3. CASE i \in 1 .. Len(s[b]) /\ t[b][i] = s[b][i]
    BY <1>4, <2>1, <2>2, <2>3, SMT DEF Apart
  <2>4. CASE b = a /\ i = Len(s[a]) + 1 /\ t[b][i] = p
    BY <1>4, <2>1, <2>2, <2>4, Zenon
  <2> QED
    BY <2>2, <2>3, <2>4
<1>6. Clear(t, Dropped(s[a], p))
  BY <1>1, <1>3, <1>4, EnqFacts DEF Clear
<1>7. \A d : Clear(s, d) /\ p \notin d => Clear(t, d)
  BY <1>3 DEF Clear
<1>8. \A n : p \in 1 .. n /\ (\A b \in Places : \A i \in 1 .. Len(s[b]) : s[b][i] \in 1 .. n)
        => \A b \in Places : \A i \in 1 .. Len(t[b]) : t[b][i] \in 1 .. n
  BY <1>3, Zenon
<1> QED
  BY <1>2, <1>5, <1>6, <1>7, <1>8, Zenon DEF t

(* Second move: a thread is done with the head of its burst. *)
LEMMA TakeHead ==
  ASSUME NEW s \in Held, NEW a \in Places, s[a] # <<>>, Apart(s)
  PROVE  LET t == [s EXCEPT ![a] = Tail(s[a])]
         IN  /\ t \in Held
             /\ Apart(t)
             /\ Head(s[a]) \in Nat
             /\ Clear(t, {Head(s[a])})
             /\ \A d : Clear(s, d) => Clear(t, d) /\ Head(s[a]) \notin d
             /\ \A n : (\A b \in Places : \A i \in 1 .. Len(s[b]) : s[b][i] \in 1 .. n)
                  => /\ Head(s[a]) \in 1 .. n
                     /\ \A b \in Places : \A i \in 1 .. Len(t[b]) : t[b][i] \in 1 .. n
<1> DEFINE t == [s EXCEPT ![a] = Tail(s[a])]
<1>1. s[a] \in Seq(Nat)
  BY DEF Held
<1>2. t \in Held /\ t[a] = Tail(s[a]) /\ \A b \in Places : b # a => t[b] = s[b]
  BY <1>1, TailFacts DEF Held
<1>3. /\ 1 \in 1 .. Len(s[a]) /\ Head(s[a]) = s[a][1] /\ Head(s[a]) \in Nat
      /\ \A i \in 1 .. Len(t[a]) : i + 1 \in 1 .. Len(s[a]) /\ t[a][i] = s[a][i + 1]
  BY <1>1, <1>2, TailFacts, ZenonT(30)
<1> HIDE DEF t
<1>4. \A b \in Places : \A i \in 1 .. Len(t[b]) :
        \/ b = a /\ i + 1 \in 1 .. Len(s[b]) /\ t[b][i] = s[b][i + 1]
        \/ b # a /\ i \in 1 .. Len(s[b]) /\ t[b][i] = s[b][i]
  BY <1>2, <1>3, Zenon
<1>5. Apart(t)
  BY <1>4, SMT DEF Apart
<1>6. Clear(t, {Head(s[a])})
  <2>1. SUFFICES ASSUME NEW b \in Places, NEW i \in 1 .. Len(t[b]), t[b][i] = s[a][1]
                 PROVE  FALSE
    BY <1>3 DEF Clear
  <2>2. CASE b = a
    BY <1>3, <1>4, <2>1, <2>2, SMT DEF Apart
  <2>3. CASE b # a
    BY <1>3, <1>4, <2>1, <2>3, SMT DEF Apart
  <2> QED
    BY <2>2, <2>3
<1>7. \A d : Clear(s, d) => Clear(t, d) /\ Head(s[a]) \notin d
  BY <1>3, <1>4, ZenonT(30) DEF Clear
<1>8. \A n : (\A b \in Places : \A i \in 1 .. Len(s[b]) : s[b][i] \in 1 .. n)
        => /\ Head(s[a]) \in 1 .. n
           /\ \A b \in Places : \A i \in 1 .. Len(t[b]) : t[b][i] \in 1 .. n
  BY <1>3, <1>4, Zenon
<1> QED
  BY <1>2, <1>3, <1>5, <1>6, <1>7, <1>8, Zenon DEF t

(* Third move: a thread takes a burst from a ring into its empty pkts[]. *)
LEMMA TakeBurst ==
  ASSUME NEW s \in Held, NEW a \in Places, NEW c \in Places, a # c, s[c] = <<>>, Apart(s)
  PROVE  LET t == [s EXCEPT ![c] = Taken(s[a]), ![a] = Rest(s[a])]
         IN  /\ t \in Held
             /\ Apart(t)
             /\ \A d : Clear(s, d) => Clear(t, d)
             /\ \A n : (\A b \in Places : \A i \in 1 .. Len(s[b]) : s[b][i] \in 1 .. n)
                  => \A b \in Places : \A i \in 1 .. Len(t[b]) : t[b][i] \in 1 .. n
<1> DEFINE t == [s EXCEPT ![c] = Taken(s[a]), ![a] = Rest(s[a])]
<1>1. s[a] \in Seq(Nat)
  BY DEF Held
<1>2. PICK k \in 0 .. Len(s[a]) :
        /\ Taken(s[a]) \in Seq(Nat) /\ Len(Taken(s[a])) = k
        /\ \A i \in 1 .. k : Taken(s[a])[i] = s[a][i]
        /\ Rest(s[a]) \in Seq(Nat) /\ Len(Rest(s[a])) = Len(s[a]) - k
        /\ \A i \in 1 .. Len(s[a]) - k : Rest(s[a])[i] = s[a][i + k]
  BY <1>1, BurstFacts, Zenon
<1>3. /\ t \in Held
      /\ t[c] = Taken(s[a]) /\ t[a] = Rest(s[a])
      /\ \A b \in Places : b # a /\ b # c => t[b] = s[b]
  BY <1>2, Zenon DEF Held
<1> HIDE DEF t
<1>4. \A i \in 1 .. Len(t[c]) : i \in 1 .. Len(s[a]) /\ t[c][i] = s[a][i] /\ i <= k
  BY <1>1, <1>2, <1>3
<1>5. \A i \in 1 .. Len(t[a]) : i + k \in 1 .. Len(s[a]) /\ t[a][i] = s[a][i + k] /\ i + k > k
  BY <1>1, <1>2, <1>3
<1>6. \A b \in Places : b # a /\ b # c =>
        \A i \in 1 .. Len(t[b]) : i \in 1 .. Len(s[b]) /\ t[b][i] = s[b][i]
  BY <1>3
<1>7. Apart(t)
  <2>1. SUFFICES ASSUME NEW b \in Places, NEW e \in Places,
                        NEW i \in 1 .. Len(t[b]), NEW j \in 1 .. Len(t[e]), t[b][i] = t[e][j]
                 PROVE  b = e /\ i = j
    BY DEF Apart
  <2>2. CASE b = c /\ e = c
    BY <1>4, <2>1, <2>2, SMT DEF Apart
  <2>3. CASE b = c /\ e = a
    <3>1. i \in 1 .. Len(s[a]) /\ i <= k /\ j + k \in 1 .. Len(s[a]) /\ j + k > k /\ s[a][i] = s[a][j + k]
      BY <1>4, <1>5, <2>1, <2>3, Zenon
    <3>2. i = j + k
      BY <3>1, SMT DEF Apart
    <3> QED
      BY <1>2, <3>1, <3>2, SMT
  <2>4. CASE b = a /\ e = c
    <3>1. j \in 1 .. Len(s[a]) /\ j <= k /\ i + k \in 1 .. Len(s[a]) /\ i + k > k /\ s[a][i + k] = s[a][j]
      BY <1>4, <1>5, <2>1, <2>4, Zenon
    <3>2. i + k = j
      BY <3>1, SMT DEF Apart
    <3> QED
      BY <1>2, <3>1, <3>2, SMT
  <2>5. CASE b = a /\ e = a
    <3>1. i + k \in 1 .. Len(s[a]) /\ j + k \in 1 .. Len(s[a]) /\ s[a][i + k] = s[a][j + k]
      BY <1>5, <2>1, <2>5, Zenon
    <3>2. i + k = j + k
      BY <3>1, SMT DEF Apart
    <3>3. i \in Int /\ j \in Int /\ k \in Int
      BY <1>2
    <3> QED
      BY <2>5, <3>2, <3>3
  <2>6. CASE b \in {a, c} /\ e \notin {a, c}
    <3>1. \E m \in 1 .. Len(s[a]) : t[b][i] = s[a][m]
      BY <1>4, <1>5, <2>6, Zenon
    <3>2. j \in 1 .. Len(s[e]) /\ t[e][j] = s[e][j] /\ e # a
      BY <1>6, <2>6, Zenon
    <3> QED
      BY <2>1, <3>1, <3>2, ZenonT(30) DEF Apart
  <2>7. CASE b \notin {a, c} /\ e \in {a, c}
    <3>1. \E m \in 1 .. Len(s[a]) : t[e][j] = s[a][m]
      BY <1>4, <1>5, <2>7, Zenon
    <3>2. i \in 1 .. Len(s[b]) /\ t[b][i] = s[b][i] /\ b # a
      BY <1>6, <2>7, Zenon
    <3> QED
      BY <2>1, <3>1, <3>2, SMT DEF Apart
  <2>8. CASE b \notin {a, c} /\ e \notin {a, c}
    BY <1>6, <2>1, <2>8, SMT DEF Apart
  <2> QED
    BY <2>2, <2>3, <2>4, <2>5, <2>6, <2>7, <2>8
<1>8. \A b \in Places : \A i \in 1 .. Len(t[b]) :
        \E e \in Places : \E j \in 1 .. Len(s[e]) : t[b][i] = s[e][j]
  <2>1. SUFFICES ASSUME NEW b \in Places, NEW i \in 1 .. Len(t[b])
                 PROVE  \E e \in Places : \E j \in 1 .. Len(s[e]) : t[b][i] = s[e][j]
    OBVIOUS
  <2>2. CASE b = c
    BY <1>4, <2>2
  <2>3. CASE b = a
    BY <1>5, <2>3
  <2>4. CASE b # a /\ b # c
    BY <1>6, <2>4, Zenon
  <2> QED
    BY <2>2, <2>3, <2>4
<1>9. \A d : Clear(s, d) => Clear(t, d)
  <2>1. SUFFICES ASSUME NEW d, Clear(s, d), NEW b \in Places, NEW i \in 1 .. Len(t[b])
                 PROVE  t[b][i] \notin d
    BY Zenon DEF Clear
  <2>2. PICK e \in Places : \E j \in 1 .. Len(s[e]) : t[b][i] = s[e][j]
    BY <1>8, Zenon
  <2> QED
    BY <2>1, <2>2 DEF Clear
<1>10. \A n : (\A b \in Places : \A i \in 1 .. Len(s[b]) : s[b][i] \in 1 .. n)
         => \A b \in Places : \A i \in 1 .. Len(t[b]) : t[b][i] \in 1 .. n
  <2>1. SUFFICES ASSUME NEW n,
                        \A b \in Places : \A i \in 1 .. Len(s[b]) : s[b][i] \in 1 .. n,
                        NEW b \in Places, NEW i \in 1 .. Len(t[b])
                 PROVE  t[b][i] \in 1 .. n
    OBVIOUS
  <2>2. PICK e \in Places : \E j \in 1 .. Len(s[e]) : t[b][i] = s[e][j]
    BY <1>8
  <2> QED
    BY <2>1, <2>2
<1> QED
  BY <1>3, <1>7, <1>9, <1>10, Zenon DEF t

(* Fourth move: a thread leaves its burst loop and forgets what is left. *)
LEMMA ForgetBurst ==
  ASSUME NEW s \in Held, NEW a \in Places, Apart(s)
  PROVE  LET t == [s EXCEPT ![a] = <<>>]
         IN  /\ t \in Held
             /\ Apart(t)
             /\ Clear(t, Elems(s[a]))
             /\ \A d : Clear(s, d) => Clear(t, d) /\ Elems(s[a]) \cap d = {}
             /\ \A n : (\A b \in Places : \A i \in 1 .. Len(s[b]) : s[b][i] \in 1 .. n)
                  => /\ Elems(s[a]) \subseteq 1 .. n
                     /\ \A b \in Places : \A i \in 1 .. Len(t[b]) : t[b][i] \in 1 .. n
<1> DEFINE t == [s EXCEPT ![a] = <<>>]
<1>1. t \in Held /\ t[a] = <<>> /\ \A b \in Places : b # a => t[b] = s[b]
  BY SMT DEF Held
<1> HIDE DEF t
<1>2. \A b \in Places : \A i \in 1 .. Len(t[b]) :
        b # a /\ i \in 1 .. Len(s[b]) /\ t[b][i] = s[b][i]
  BY <1>1
<1>3. Apart(t)
  BY <1>2, SMT DEF Apart
<1>4. Clear(t, Elems(s[a]))
  BY <1>2, SMT DEF Apart, Clear, Elems
<1>5. \A d : Clear(s, d) => Clear(t, d) /\ Elems(s[a]) \cap d = {}
  BY <1>2 DEF Clear, Elems
<1>6. \A n : (\A b \in Places : \A i \in 1 .. Len(s[b]) : s[b][i] \in 1 .. n)
        => /\ Elems(s[a]) \subseteq 1 .. n
           /\ \A b \in Places : \A i \in 1 .. Len(t[b]) : t[b][i] \in 1 .. n
  BY <1>2 DEF Elems
<1> QED
  BY <1>1, <1>3, <1>4, <1>5, <1>6, Zenon DEF t

-----------------------------------------------------------------------------
(* Before any packet is allocated the invariant holds. *)
LEMMA OwnInit == Init => OwnInv
<1> SUFFICES ASSUME Init PROVE OwnInv
  OBVIOUS
<1>1. slot \in Held /\ \A a \in Places : slot[a] = <<>>
  BY DEF Init, Held
<1>2. Allocated(slot) /\ Apart(slot) /\ Clear(slot, freed) /\ Clear(slot, lost)
  BY <1>1 DEF Allocated, Apart, Clear
<1> QED
  BY <1>1, <1>2 DEF Init, OwnInv, Works, TX

(* A packet allocated now is numbered after all the others. *)
LEMMA NewPacket ==
  ASSUME OwnInv, NEW r \in [kind : PacketKinds, origin : Nat],
         pkt' = Append(pkt, r)
  PROVE  LET p == Len(pkt) + 1
         IN  /\ p \in Nat
             /\ pkt' \in Seq([kind : PacketKinds, origin : Nat])
             /\ Len(pkt') = p
             /\ Clear(slot, {p})
             /\ p \notin freed /\ p \notin lost
             /\ freed \subseteq 1 .. p /\ lost \subseteq 1 .. p
             /\ p \in 1 .. p
             /\ \A a \in Places : \A i \in 1 .. Len(slot[a]) : slot[a][i] \in 1 .. p
<1> DEFINE p == Len(pkt) + 1
<1>1. /\ p \in Nat /\ Len(pkt') = p
      /\ pkt' \in Seq([kind : PacketKinds, origin : Nat])
  BY SMT DEF OwnInv
<1>2. \A a \in Places : \A i \in 1 .. Len(slot[a]) : slot[a][i] \in 1 .. p /\ slot[a][i] # p
  BY <1>1 DEF OwnInv, Allocated
<1>3. Clear(slot, {p})
  BY <1>2 DEF Clear
<1>4. p \notin freed /\ p \notin lost /\ freed \subseteq 1 .. p /\ lost \subseteq 1 .. p
  BY <1>1, SMT DEF OwnInv
<1> QED
  BY <1>1, <1>2, <1>3, <1>4, SMT

(* The head of a burst is a packet, whose record a handler may copy. *)
LEMMA HeadPacket ==
  ASSUME OwnInv, NEW n \in Nodes, slot[Local(n)] # <<>>
  PROVE  LET r == Head(slot[Local(n)])
         IN  /\ r \in 1 .. Len(pkt)
             /\ pkt[r] \in [kind : PacketKinds, origin : Nat]
             /\ r \notin freed /\ r \notin lost
<1> DEFINE r == Head(slot[Local(n)])
<1>1. r \in 1 .. Len(pkt) /\ r \notin freed /\ r \notin lost
  BY PlacesOfNode, TakeHead, Zenon DEF OwnInv, Allocated
<1> HIDE DEF r
<1>2. pkt[r] \in [kind : PacketKinds, origin : Nat]
  BY <1>1, ElementOfSeq, Zenon DEF OwnInv
<1> QED
  BY <1>1, <1>2 DEF r

(* A new packet goes to a ring: event_rx, event_timer, the duplicate of an *)
(* echo request.                                                           *)
LEMMA EmitOwn ==
  ASSUME OwnInv, NEW a \in Places, NEW rec \in [kind : PacketKinds, origin : Nat],
         pkt' = Append(pkt, rec),
         slot' = [slot EXCEPT ![a] = Enq(slot[a], Len(pkt) + 1)],
         lost' = lost \cup Dropped(slot[a], Len(pkt) + 1),
         UNCHANGED <<freed, txAt>>
  PROVE  OwnInv'
<1> DEFINE p == Len(pkt) + 1
<1>1. /\ p \in Nat
      /\ pkt' \in Seq([kind : PacketKinds, origin : Nat])
      /\ Len(pkt') = p
      /\ Clear(slot, {p})
      /\ p \notin freed /\ p \notin lost
      /\ freed \subseteq 1 .. p /\ lost \subseteq 1 .. p
      /\ p \in 1 .. p
      /\ \A b \in Places : \A i \in 1 .. Len(slot[b]) : slot[b][i] \in 1 .. p
  BY NewPacket, Zenon
<1>2. slot[a] \in Seq(Nat)
  BY DEF OwnInv, Held
<1>3. /\ slot' \in Held
      /\ Apart(slot')
      /\ Clear(slot', Dropped(slot[a], p))
      /\ \A d : Clear(slot, d) /\ p \notin d => Clear(slot', d)
      /\ \A b \in Places : \A i \in 1 .. Len(slot'[b]) : slot'[b][i] \in 1 .. p
  BY <1>1, PutFresh, Zenon DEF OwnInv
<1>4. Dropped(slot[a], p) \subseteq {p}
  BY <1>1, <1>2, EnqFacts
<1>5. Clear(slot', freed) /\ Clear(slot', lost)
  BY <1>1, <1>3, Zenon DEF OwnInv
<1>6. Clear(slot', freed') /\ Clear(slot', lost')
  BY <1>3, <1>5, ClearBoth
<1> QED
  BY <1>1, <1>3, <1>4, <1>6 DEF OwnInv, Allocated

(* event_rx: the packet has a route, or it is freed at once. *)
LEMMA ReceiveOwn ==
  ASSUME OwnInv, NEW k \in Kinds, Receive(k)
  PROVE  OwnInv'
<1> DEFINE p == Len(pkt) + 1
           rec == [kind |-> k, origin |-> p]
<1>1. rec \in [kind : PacketKinds, origin : Nat]
  BY KindsAssumption DEF PacketKinds, OwnInv
<1>2. pkt' = Append(pkt, rec) /\ UNCHANGED txAt
  BY DEF Receive
<1> HIDE DEF rec
<1>3. CASE Route(k) = {} /\ freed' = freed \cup {p} /\ UNCHANGED <<slot, lost>>
  <2>1. /\ pkt' \in Seq([kind : PacketKinds, origin : Nat])
        /\ Len(pkt') = p
        /\ Clear(slot, {p})
        /\ p \notin lost
        /\ freed \subseteq 1 .. p /\ lost \subseteq 1 .. p
        /\ p \in 1 .. p
        /\ \A b \in Places : \A i \in 1 .. Len(slot[b]) : slot[b][i] \in 1 .. p
    BY <1>1, <1>2, NewPacket, Zenon
  <2>2. Clear(slot', freed')
    BY <1>3, <2>1, ClearBoth DEF OwnInv
  <2> QED
    BY <1>2, <1>3, <2>1, <2>2, Zenon DEF OwnInv, Allocated
<1>4. ASSUME NEW n \in Route(k),
             slot' = [slot EXCEPT ![Ingress(n)] = Enq(@, p)],
             lost' = lost \cup Dropped(slot[Ingress(n)], p),
             UNCHANGED freed
      PROVE  OwnInv'
  <2>1. n \in Nodes
    BY DEF Route, Nodes, COUNT, GTPU_ECHO, GTPC_ECHO, GTPU_OTHER, GTPC_OTHER,
           CREATE_SESSION, CREATE_SESSION_EXT0, MODIFY_BEARER
  <2> QED
    BY <1>1, <1>2, <1>4, <2>1, PlacesOfNode, EmitOwn, Zenon
<1> QED
  BY <1>3, <1>4 DEF Receive

(* event_timer. *)
LEMMA TimerOwn ==
  ASSUME OwnInv, TimerEcho
  PROVE  OwnInv'
<1> DEFINE rec == [kind |-> "timer", origin |-> Len(pkt) + 1]
<1>1. rec \in [kind : PacketKinds, origin : Nat]
  BY DEF PacketKinds, OwnInv
<1>2. Egress(TIMER) \in Places
  BY PlacesOfNode DEF TIMER, Nodes, COUNT
<1>3. /\ pkt' = Append(pkt, rec)
      /\ slot' = [slot EXCEPT ![Egress(TIMER)] = Enq(slot[Egress(TIMER)], Len(pkt) + 1)]
      /\ lost' = lost \cup Dropped(slot[Egress(TIMER)], Len(pkt) + 1)
      /\ UNCHANGED <<freed, txAt>>
  BY DEF TimerEcho
<1> QED
  BY <1>1, <1>2, <1>3, EmitOwn, Zenon

(* pgw_deq_burst of a node from its ingress ring, of TX from any egress. *)
LEMMA DeqOwn ==
  ASSUME OwnInv, NEW a \in Places, NEW c \in Places, a # c, slot[c] = <<>>,
         slot' = [slot EXCEPT ![c] = Taken(slot[a]), ![a] = Rest(slot[a])],
         UNCHANGED <<pkt, freed, lost>>, txAt' \in Works
  PROVE  OwnInv'
<1>1. /\ slot' \in Held
      /\ Apart(slot')
      /\ \A d : Clear(slot, d) => Clear(slot', d)
      /\ \A b \in Places : \A i \in 1 .. Len(slot'[b]) : slot'[b][i] \in 1 .. Len(pkt)
  BY TakeBurst, Zenon DEF OwnInv, Allocated
<1> QED
  BY <1>1, Zenon DEF OwnInv, Allocated

(* A packet at the head of a burst is freed. *)
LEMMA FreeOwn ==
  ASSUME OwnInv, NEW n \in Nodes, slot[Local(n)] # <<>>,
         slot' = [slot EXCEPT ![Local(n)] = Tail(slot[Local(n)])],
         freed' = freed \cup {Head(slot[Local(n)])},
         UNCHANGED <<pkt, lost, txAt>>
  PROVE  OwnInv'
<1> DEFINE r == Head(slot[Local(n)])
<1>1. /\ slot' \in Held
      /\ Apart(slot')
      /\ Clear(slot', {r})
      /\ \A d : Clear(slot, d) => Clear(slot', d) /\ r \notin d
      /\ r \in 1 .. Len(pkt)
      /\ \A b \in Places : \A i \in 1 .. Len(slot'[b]) : slot'[b][i] \in 1 .. Len(pkt)
  BY PlacesOfNode, TakeHead, Zenon DEF OwnInv, Allocated
<1>2. Clear(slot', freed')
  BY <1>1, ClearBoth, Zenon DEF OwnInv
<1> QED
  BY <1>1, <1>2, Zenon DEF OwnInv, Allocated

(* The echo handler: a duplicate of the request is queued ... *)
LEMMA EchoDuplicateOwn ==
  ASSUME OwnInv, NEW n \in Works, EchoDuplicate(n)
  PROVE  OwnInv'
<1>1. n \in Nodes /\ Egress(n) \in Places
  BY PlacesOfTx, PlacesOfNode
<1>2. slot[Local(n)] # <<>>
  BY DEF EchoDuplicate, Handling
<1>3. pkt[Head(slot[Local(n)])] \in [kind : PacketKinds, origin : Nat]
  BY <1>1, <1>2, HeadPacket
<1>4. /\ pkt' = Append(pkt, pkt[Head(slot[Local(n)])])
      /\ slot' = [slot EXCEPT ![Egress(n)] = Enq(slot[Egress(n)], Len(pkt) + 1)]
      /\ lost' = lost \cup Dropped(slot[Egress(n)], Len(pkt) + 1)
      /\ UNCHANGED <<freed, txAt>>
  BY DEF EchoDuplicate
<1> QED
  BY <1>1, <1>3, <1>4, EmitOwn, Zenon

(* ... then the request itself, as the response: it moves from the burst   *)
(* to the egress ring.                                                     *)
LEMMA EchoRespondOwn ==
  ASSUME OwnInv, NEW n \in Works, EchoRespond(n)
  PROVE  OwnInv'
<1> DEFINE r == Head(slot[Local(n)])
           mid == [slot EXCEPT ![Local(n)] = Tail(slot[Local(n)])]
<1>1. /\ n \in Nodes /\ Egress(n) \in Places /\ Local(n) \in Places
      /\ Egress(n) # Local(n) /\ slot[Local(n)] # <<>>
  BY PlacesOfTx, PlacesOfNode DEF EchoRespond, Handling
<1>2. r \in 1 .. Len(pkt) /\ r \notin freed /\ r \notin lost
      /\ pkt[r] \in [kind : PacketKinds, origin : Nat]
  BY <1>1, HeadPacket
<1>3. /\ mid \in Held
      /\ Apart(mid)
      /\ r \in Nat
      /\ Clear(mid, {r})
      /\ Clear(mid, freed) /\ Clear(mid, lost)
      /\ \A b \in Places : \A i \in 1 .. Len(mid[b]) : mid[b][i] \in 1 .. Len(pkt)
  BY <1>1, TakeHead, Zenon DEF OwnInv, Allocated
<1>4. /\ mid[Egress(n)] = slot[Egress(n)] /\ slot[Egress(n)] \in Seq(Nat)
      /\ slot' = [mid EXCEPT ![Egress(n)] = Enq(mid[Egress(n)], r)]
  BY <1>1 DEF EchoRespond, OwnInv, Held
<1>5. /\ lost' = lost \cup Dropped(slot[Egress(n)], r)
      /\ UNCHANGED <<freed, txAt>>
      /\ pkt' = [pkt EXCEPT ![r].kind = IF n = GTPU_ECHO THEN "u_echo_res" ELSE "c_echo_res"]
  BY DEF EchoRespond
<1> HIDE DEF r, mid
<1>6. pkt' \in Seq([kind : PacketKinds, origin : Nat]) /\ Len(pkt') = Len(pkt)
  <2>1. [pkt[r] EXCEPT !.kind = IF n = GTPU_ECHO THEN "u_echo_res" ELSE "c_echo_res"]
          \in [kind : PacketKinds, origin : Nat]
    BY <1>2 DEF PacketKinds, GtpuKinds, GtpcKinds
  <2> QED
    BY <1>2, <1>5, <2>1, SMT DEF OwnInv
<1>7. /\ slot' \in Held
      /\ Apart(slot')
      /\ Clear(slot', Dropped(slot[Egress(n)], r))
      /\ Clear(slot', freed) /\ Clear(slot', lost)
      /\ \A b \in Places : \A i \in 1 .. Len(slot'[b]) : slot'[b][i] \in 1 .. Len(pkt)
  BY <1>1, <1>2, <1>3, <1>4, PutFresh, Zenon
<1>8. Clear(slot', lost')
  BY <1>5, <1>7, ClearBoth
<1>9. Dropped(slot[Egress(n)], r) \subseteq {r}
  BY <1>3, <1>4, EnqFacts
<1> QED
  BY <1>2, <1>5, <1>6, <1>7, <1>8, <1>9 DEF OwnInv, Allocated

(* A session request or a solicitation: the answer is queued, then the     *)
(* request is freed.                                                       *)
LEMMA AnswerOwn ==
  ASSUME OwnInv, NEW n \in Works, Answer(n)
  PROVE  OwnInv'
<1> DEFINE p == Len(pkt) + 1
           r == Head(slot[Local(n)])
           mid == [slot EXCEPT ![Egress(n)] = Enq(slot[Egress(n)], p)]
<1>1. /\ n \in Nodes /\ Egress(n) \in Places /\ Local(n) \in Places
      /\ Egress(n) # Local(n) /\ slot[Local(n)] # <<>>
  BY PlacesOfTx, PlacesOfNode DEF Answer, Handling
<1>2. r \in 1 .. Len(pkt) /\ r \notin lost
      /\ [pkt[r] EXCEPT !.kind = "answer"] \in [kind : PacketKinds, origin : Nat]
  BY <1>1, HeadPacket DEF PacketKinds
<1>3. /\ p \in Nat
      /\ pkt' \in Seq([kind : PacketKinds, origin : Nat])
      /\ Len(pkt') = p
      /\ Clear(slot, {p})
      /\ p \notin freed /\ p \notin lost
      /\ freed \subseteq 1 .. p /\ lost \subseteq 1 .. p
      /\ p \in 1 .. p
      /\ \A b \in Places : \A i \in 1 .. Len(slot[b]) : slot[b][i] \in 1 .. p
  BY <1>2, NewPacket, Zenon DEF Answer
<1>4. /\ mid \in Held
      /\ Apart(mid)
      /\ Clear(mid, Dropped(slot[Egress(n)], p))
      /\ Clear(mid, freed) /\ Clear(mid, lost)
      /\ \A b \in Places : \A i \in 1 .. Len(mid[b]) : mid[b][i] \in 1 .. p
  BY <1>1, <1>3, PutFresh, Zenon DEF OwnInv
<1>5. /\ mid[Local(n)] = slot[Local(n)] /\ slot[Egress(n)] \in Seq(Nat)
      /\ slot' = [mid EXCEPT ![Local(n)] = Tail(mid[Local(n)])]
  BY <1>1, Zenon DEF Answer, OwnInv, Held
<1>6. /\ lost' = lost \cup Dropped(slot[Egress(n)], p)
      /\ freed' = freed \cup {r}
      /\ UNCHANGED txAt
  BY DEF Answer
<1>7. Dropped(slot[Egress(n)], p) \subseteq {p}
  BY <1>3, <1>5, EnqFacts, Zenon
<1>8. Head(mid[Local(n)]) = r /\ mid[Local(n)] # <<>>
  BY <1>1, <1>5
<1> HIDE DEF r, mid
<1>9. /\ slot' \in Held
      /\ Apart(slot')
      /\ Clear(slot', {r})
      /\ Clear(slot', freed) /\ Clear(slot', lost)
      /\ Clear(slot', Dropped(slot[Egress(n)], p)) /\ r \notin Dropped(slot[Egress(n)], p)
      /\ \A b \in Places : \A i \in 1 .. Len(slot'[b]) : slot'[b][i] \in 1 .. p
  BY <1>1, <1>4, <1>5, <1>8, TakeHead, ZenonT(30)
<1>10. Clear(slot', freed') /\ Clear(slot', lost')
  BY <1>6, <1>9, ClearBoth
<1>11. freed' \cap lost' = {}
  BY <1>2, <1>3, <1>6, <1>7, <1>9 DEF OwnInv
<1>12. freed' \subseteq 1 .. Len(pkt') /\ lost' \subseteq 1 .. Len(pkt')
  BY <1>2, <1>3, <1>6, <1>7, SMT
<1> QED
  BY <1>3, <1>6, <1>9, <1>10, <1>11, <1>12 DEF OwnInv, Allocated

(* A solicitation for an unknown tunnel: both packets are freed. *)
LEMMA UnknownTunnelOwn ==
  ASSUME OwnInv, UnknownTunnel
  PROVE  OwnInv'
<1> DEFINE n == GTPU_OTHER
           p == Len(pkt) + 1
           r == Head(slot[Local(n)])
<1>1. n \in Nodes /\ Local(n) \in Places /\ slot[Local(n)] # <<>>
  BY PlacesOfNode DEF UnknownTunnel, Handling, GTPU_OTHER, Nodes, COUNT
<1>2. r \in 1 .. Len(pkt) /\ r \notin lost
      /\ [pkt[r] EXCEPT !.kind = "answer"] \in [kind : PacketKinds, origin : Nat]
  BY <1>1, HeadPacket DEF PacketKinds
<1>3. /\ p \in Nat
      /\ pkt' \in Seq([kind : PacketKinds, origin : Nat])
      /\ Len(pkt') = p
      /\ Clear(slot, {p})
      /\ p \notin freed /\ p \notin lost
      /\ freed \subseteq 1 .. p /\ lost \subseteq 1 .. p
      /\ p \in 1 .. p
      /\ \A b \in Places : \A i \in 1 .. Len(slot[b]) : slot[b][i] \in 1 .. p
  BY <1>2, NewPacket, Zenon DEF UnknownTunnel
<1>4. /\ slot' = [slot EXCEPT ![Local(n)] = Tail(slot[Local(n)])]
      /\ freed' = freed \cup {p, r}
      /\ UNCHANGED <<lost, txAt>>
  BY DEF UnknownTunnel
<1>5. /\ slot' \in Held
      /\ Apart(slot')
      /\ Clear(slot', {r}) /\ Clear(slot', {p})
      /\ Clear(slot', freed) /\ Clear(slot', lost)
      /\ \A b \in Places : \A i \in 1 .. Len(slot'[b]) : slot'[b][i] \in 1 .. p
  BY <1>1, <1>3, <1>4, TakeHead, Zenon DEF OwnInv
<1>6. Clear(slot', (freed \cup {p}) \cup {r})
  BY <1>5, ClearBoth, Zenon
<1>7. freed' = (freed \cup {p}) \cup {r}
  BY <1>4
<1> HIDE DEF r
<1>8. freed' \cap lost' = {} /\ freed' \subseteq 1 .. Len(pkt') /\ lost' \subseteq 1 .. Len(pkt')
  <2>1. freed \cap lost = {} /\ r \in 1 .. p
    BY <1>2, <1>3, SMT DEF OwnInv
  <2> QED
    BY <1>2, <1>3, <1>4, <2>1, Zenon
<1> QED
  BY <1>3, <1>4, <1>5, <1>6, <1>7, <1>8, Zenon DEF OwnInv, Allocated

(* The break out of the burst: the rest of the burst is out of reach. *)
LEMMA BreakBurstOwn ==
  ASSUME OwnInv, BreakBurst
  PROVE  OwnInv'
<1> DEFINE n == GTPU_OTHER
           p == Len(pkt) + 1
           r == Head(slot[Local(n)])
           left == Elems(slot[Local(n)])
<1>1. n \in Nodes /\ Local(n) \in Places /\ slot[Local(n)] # <<>>
  BY PlacesOfNode DEF BreakBurst, Handling, GTPU_OTHER, Nodes, COUNT
<1>2. [pkt[r] EXCEPT !.kind = "answer"] \in [kind : PacketKinds, origin : Nat]
  BY <1>1, HeadPacket DEF PacketKinds
<1>3. /\ p \in Nat
      /\ pkt' \in Seq([kind : PacketKinds, origin : Nat])
      /\ Len(pkt') = p
      /\ Clear(slot, {p})
      /\ p \notin freed /\ p \notin lost
      /\ freed \subseteq 1 .. p /\ lost \subseteq 1 .. p
      /\ p \in 1 .. p
      /\ \A b \in Places : \A i \in 1 .. Len(slot[b]) : slot[b][i] \in 1 .. p
  BY <1>2, NewPacket, Zenon DEF BreakBurst
<1>4. /\ slot' = [slot EXCEPT ![Local(n)] = <<>>]
      /\ lost' = (lost \cup {p}) \cup left
      /\ UNCHANGED <<freed, txAt>>
  BY DEF BreakBurst
<1>5. /\ slot' \in Held
      /\ Apart(slot')
      /\ Clear(slot', left) /\ Clear(slot', {p})
      /\ Clear(slot', freed) /\ Clear(slot', lost)
      /\ left \cap freed = {} /\ left \subseteq 1 .. p
      /\ \A b \in Places : \A i \in 1 .. Len(slot'[b]) : slot'[b][i] \in 1 .. p
  BY <1>1, <1>3, <1>4, ForgetBurst, Zenon DEF OwnInv
<1>6. Clear(slot', lost')
  BY <1>4, <1>5, ClearBoth, Zenon
<1> HIDE DEF left
<1>7. freed' \cap lost' = {} /\ freed' \subseteq 1 .. Len(pkt') /\ lost' \subseteq 1 .. Len(pkt')
  BY <1>3, <1>4, <1>5, Zenon DEF OwnInv
<1> QED
  BY <1>3, <1>4, <1>5, <1>6, <1>7 DEF OwnInv, Allocated

-----------------------------------------------------------------------------
(* Every step keeps the invariant. *)
LEMMA OwnStep == OwnInv /\ [Next]_vars => OwnInv'
<1> SUFFICES ASSUME OwnInv, [Next]_vars PROVE OwnInv'
  OBVIOUS
<1>1. CASE UNCHANGED <<slot, pkt, freed, lost, txAt>>
  BY <1>1 DEF OwnInv, Allocated
<1>2. CASE MainStep
  BY <1>1, <1>2 DEF MainStep, StartServer, CreateNode, AllStarted, HaltNext, JoinNext, memory
<1>3. CASE BeginStop
  BY <1>1, <1>3 DEF BeginStop, memory
<1>4. ASSUME NEW k \in Kinds, Receive(k) PROVE OwnInv'
  BY <1>4, ReceiveOwn
<1>5. CASE TimerEcho
  BY <1>5, TimerOwn
<1>6. ASSUME NEW t \in Servers, ServerExit(t) PROVE OwnInv'
  BY <1>1, <1>6 DEF ServerExit, memory
<1>7. ASSUME NEW n \in Works, Deq(n) PROVE OwnInv'
  <2>1. Ingress(n) \in Places /\ Local(n) \in Places /\ Ingress(n) # Local(n)
    BY PlacesOfTx, PlacesOfNode
  <2> QED
    BY <1>7, <2>1, DeqOwn, Zenon DEF Deq, OwnInv
<1>8. ASSUME NEW n \in Works, Handle(n) PROVE OwnInv'
  <2>1. CASE Consume(n)
    BY <2>1, PlacesOfTx, FreeOwn, Zenon DEF Consume
  <2> QED
    BY <1>8, <2>1, EchoDuplicateOwn, EchoRespondOwn, AnswerOwn DEF Handle
<1>9. CASE UnknownTunnel
  BY <1>9, UnknownTunnelOwn
<1>10. CASE BreakBurst
  BY <1>10, BreakBurstOwn
<1>11. ASSUME NEW n \in Nodes, NodeExit(n) PROVE OwnInv'
  BY <1>1, <1>11 DEF NodeExit, memory
<1>12. CASE TxDeq
  <2>1. txAt \in Works /\ txAt' \in Works
    BY <1>12 DEF TxDeq, OwnInv, Works, TX
  <2>2. Egress(txAt) \in Places /\ Local(TX) \in Places /\ Egress(txAt) # Local(TX)
    BY <2>1, PlacesOfTx, PlacesOfNode
  <2> QED
    BY <1>12, <2>1, <2>2, DeqOwn, Zenon DEF TxDeq
<1>13. CASE TxSend
  BY <1>13, FreeOwn DEF TxSend, TX, Nodes, COUNT
<1>14. CASE UNCHANGED vars
  BY <1>1, <1>14 DEF vars
<1> QED
  BY <1>2, <1>3, <1>4, <1>5, <1>6, <1>7, <1>8, <1>9, <1>10, <1>11, <1>12, <1>13, <1>14 DEF Next

(* PacketsHaveOneOwner: whatever the sizes of the rings and bursts and     *)
(* however many packets arrive, a packet is in one ring, in one thread's   *)
(* burst, freed or lost, and in only one of them: pgw_free_packet is never *)
(* given a packet another thread can still reach.                          *)
THEOREM PacketsHaveOneOwner == Spec => []SingleOwner
<1>1. OwnInv => SingleOwner
  <2> SUFFICES ASSUME OwnInv PROVE SingleOwner
    OBVIOUS
  <2>1. \A a \in Places : DOMAIN slot[a] = 1 .. Len(slot[a])
    BY SMT DEF OwnInv, Held
  <2>2. \A a, b \in Places : \A i \in DOMAIN slot[a], j \in DOMAIN slot[b] :
          slot[a][i] = slot[b][j] => a = b /\ i = j
    <3>1. SUFFICES ASSUME NEW a \in Places, NEW b \in Places,
                          NEW i \in DOMAIN slot[a], NEW j \in DOMAIN slot[b],
                          slot[a][i] = slot[b][j]
                   PROVE  a = b /\ i = j
      BY Zenon
    <3>2. i \in 1 .. Len(slot[a]) /\ j \in 1 .. Len(slot[b])
      BY <2>1
    <3> QED
      BY <3>1, <3>2 DEF OwnInv, Apart
  <2>3. \A a \in Places : \A i \in DOMAIN slot[a] :
          slot[a][i] \notin freed /\ slot[a][i] \notin lost
    BY <2>1 DEF OwnInv, Clear
  <2>4. freed \cap lost = {}
    BY DEF OwnInv
  <2> QED
    BY <2>2, <2>3, <2>4, Zenon DEF SingleOwner
<1> QED
  BY <1>1, OwnInit, OwnStep, PTL DEF Spec

-----------------------------------------------------------------------------
(* Some place holds the packet. *)
Holds(s, p) == \E a \in Places : \E i \in 1 .. Len(s[a]) : s[a][i] = p

(* Every packet allocated is freed, lost or held. *)
AccInv == \A p \in 1 .. Len(pkt) : p \in freed \/ p \in lost \/ Holds(slot, p)

(* The four moves again, what the places hold after each: after a packet   *)
(* was put on a ring ...                                                   *)
LEMMA PutHolds ==
  ASSUME NEW s \in Held, NEW a \in Places, NEW p \in Nat
  PROVE  LET t == [s EXCEPT ![a] = Enq(s[a], p)]
         IN  /\ Holds(t, p) \/ p \in Dropped(s[a], p)
             /\ \A q : Holds(s, q) => Holds(t, q)
<1> DEFINE t == [s EXCEPT ![a] = Enq(s[a], p)]
<1>1. s[a] \in Seq(Nat)
  BY DEF Held
<1>2. t[a] = Enq(s[a], p) /\ \A b \in Places : b # a => t[b] = s[b]
  BY DEF Held
<1>3. \A i \in 1 .. Len(s[a]) : i \in 1 .. Len(t[a]) /\ t[a][i] = s[a][i]
  BY <1>1, <1>2, SMT DEF Enq
<1>4. \/ p \in Dropped(s[a], p)
      \/ Len(s[a]) + 1 \in 1 .. Len(t[a]) /\ t[a][Len(s[a]) + 1] = p
  <2>1. CASE Full(s[a])
    BY <2>1 DEF Dropped
  <2>2. CASE ~Full(s[a])
    <3>1. t[a] = Append(s[a], p)
      BY <1>2, <2>2 DEF Enq
    <3> QED
      BY <1>1, <3>1
  <2> QED
    BY <2>1, <2>2
<1> HIDE DEF t
<1>5. Holds(t, p) \/ p \in Dropped(s[a], p)
  BY <1>4 DEF Holds
<1>6. \A b \in Places : \A i \in 1 .. Len(s[b]) : i \in 1 .. Len(t[b]) /\ t[b][i] = s[b][i]
  BY <1>2, <1>3
<1> QED
  BY <1>5, <1>6 DEF Holds, t

(* ... after the head of a burst was taken ... *)
LEMMA HeadHolds ==
  ASSUME NEW s \in Held, NEW a \in Places, s[a] # <<>>
  PROVE  LET t == [s EXCEPT ![a] = Tail(s[a])]
         IN  \A q : Holds(s, q) => q = Head(s[a]) \/ Holds(t, q)
<1> DEFINE t == [s EXCEPT ![a] = Tail(s[a])]
<1>1. s[a] \in Seq(Nat)
  BY DEF Held
<1>2. t[a] = Tail(s[a]) /\ \A b \in Places : b # a => t[b] = s[b]
  BY DEF Held
<1>3. \A i \in 1 .. Len(s[a]) : \/ s[a][i] = Head(s[a])
                                \/ i - 1 \in 1 .. Len(t[a]) /\ t[a][i - 1] = s[a][i]
  <2>1. Head(s[a]) = s[a][1] /\ Len(Tail(s[a])) = Len(s[a]) - 1 /\ Len(s[a]) \in Nat
    BY <1>1
  <2>2. \A j \in 1 .. Len(s[a]) - 1 : Tail(s[a])[j] = s[a][j + 1]
    BY <1>1
  <2>3. ASSUME NEW i \in 1 .. Len(s[a]), i # 1
        PROVE  i - 1 \in 1 .. Len(s[a]) - 1 /\ (i - 1) + 1 = i
    BY <2>1, <2>3
  <2> QED
    BY <1>2, <2>1, <2>2, <2>3, Zenon
<1> HIDE DEF t
<1>4. ASSUME NEW b \in Places, NEW i \in 1 .. Len(s[b])
      PROVE  s[b][i] = Head(s[a]) \/ Holds(t, s[b][i])
  BY <1>2, <1>3, Zenon DEF Holds
<1>5. \A q : Holds(s, q) => q = Head(s[a]) \/ Holds(t, q)
  BY <1>4, SMT DEF Holds
<1> QED
  BY <1>5, Zenon DEF t

(* ... after a burst was taken ... *)
LEMMA BurstHolds ==
  ASSUME NEW s \in Held, NEW a \in Places, NEW c \in Places, a # c, s[c] = <<>>
  PROVE  LET t == [s EXCEPT ![c] = Taken(s[a]), ![a] = Rest(s[a])]
         IN  \A q : Holds(s, q) => Holds(t, q)
<1> DEFINE t == [s EXCEPT ![c] = Taken(s[a]), ![a] = Rest(s[a])]
<1>1. s[a] \in Seq(Nat)
  BY DEF Held
<1>2. t[c] = Taken(s[a]) /\ t[a] = Rest(s[a]) /\ \A b \in Places : b # a /\ b # c => t[b] = s[b]
  BY DEF Held
<1>3. PICK k \in 0 .. Len(s[a]) :
        /\ Taken(s[a]) \in Seq(Nat) /\ Len(Taken(s[a])) = k
        /\ \A i \in 1 .. k : Taken(s[a])[i] = s[a][i]
        /\ Rest(s[a]) \in Seq(Nat) /\ Len(Rest(s[a])) = Len(s[a]) - k
        /\ \A i \in 1 .. Len(s[a]) - k : Rest(s[a])[i] = s[a][i + k]
  BY <1>1, BurstFacts, Zenon
<1>4. \A i \in 1 .. Len(s[a]) : \/ i \in 1 .. Len(t[c]) /\ t[c][i] = s[a][i]
                                \/ i - k \in 1 .. Len(t[a]) /\ t[a][i - k] = s[a][i]
  <2> SUFFICES ASSUME NEW i \in 1 .. Len(s[a])
               PROVE  \/ i \in 1 .. Len(t[c]) /\ t[c][i] = s[a][i]
                      \/ i - k \in 1 .. Len(t[a]) /\ t[a][i - k] = s[a][i]
    BY Zenon
  <2>1. Len(s[a]) \in Nat /\ k \in Nat
    BY <1>1, <1>3
  <2>2. CASE i <= k
    BY <1>2, <1>3, <2>1, <2>2, SMT
  <2>3. CASE i > k
    <3>1. i - k \in 1 .. Len(s[a]) - k /\ (i - k) + k = i
      BY <2>1, <2>3
    <3> QED
      BY <1>2, <1>3, <3>1
  <2> QED
    BY <2>1, <2>2, <2>3
<1> HIDE DEF t
<1>5. ASSUME NEW b \in Places, NEW i \in 1 .. Len(s[b])
      PROVE  Holds(t, s[b][i])
  <2>1. b # c
    OBVIOUS
  <2>2. CASE b = a
    BY <1>4, <2>2 DEF Holds
  <2>3. CASE b # a
    BY <1>2, <2>1, <2>3 DEF Holds
  <2> QED
    BY <2>2, <2>3
<1>6. \A q : Holds(s, q) => Holds(t, q)
  <2> SUFFICES ASSUME NEW q, Holds(s, q) PROVE Holds(t, q)
    OBVIOUS
  <2>1. PICK b \in Places : \E i \in 1 .. Len(s[b]) : s[b][i] = q
    BY DEF Holds
  <2> QED
    BY <1>5, <2>1
<1> QED
  BY <1>6, Zenon DEF t

(* ... and after a burst was forgotten. *)
LEMMA ForgetHolds ==
  ASSUME NEW s \in Held, NEW a \in Places
  PROVE  LET t == [s EXCEPT ![a] = <<>>]
         IN  \A q : Holds(s, q) => q \in Elems(s[a]) \/ Holds(t, q)
BY DEF Held, Holds, Elems

(* A step that allocates nothing, and one that allocates one packet. *)
LEMMA AccSame ==
  ASSUME AccInv, UNCHANGED pkt, freed \subseteq freed', lost \subseteq lost',
         \A q : Holds(slot, q) => q \in freed' \/ q \in lost' \/ Holds(slot', q)
  PROVE  AccInv'
BY DEF AccInv

(* The new packet has to be somewhere, too. *)
LEMMA AccNew ==
  ASSUME OwnInv, AccInv, Len(pkt') = Len(pkt) + 1,
         freed \subseteq freed', lost \subseteq lost',
         \A q : Holds(slot, q) \/ q = Len(pkt) + 1
           => q \in freed' \/ q \in lost' \/ Holds(slot', q)
  PROVE  AccInv'
<1>1. Len(pkt) \in Nat
  BY DEF OwnInv
<1>2. \A p \in 1 .. Len(pkt') : p \in 1 .. Len(pkt) \/ p = Len(pkt) + 1
  BY <1>1
<1> QED
  BY <1>2 DEF AccInv

(* A new packet goes to a ring. *)
LEMMA EmitAcc ==
  ASSUME OwnInv, AccInv, NEW a \in Places, NEW rec,
         pkt' = Append(pkt, rec),
         slot' = [slot EXCEPT ![a] = Enq(slot[a], Len(pkt) + 1)],
         lost' = lost \cup Dropped(slot[a], Len(pkt) + 1),
         UNCHANGED freed
  PROVE  AccInv'
<1> DEFINE p == Len(pkt) + 1
<1>1. p \in Nat /\ Len(pkt') = p
  BY DEF OwnInv
<1>2. /\ Holds(slot', p) \/ p \in Dropped(slot[a], p)
      /\ \A q : Holds(slot, q) => Holds(slot', q)
  BY <1>1, PutHolds, Zenon DEF OwnInv
<1> QED
  BY <1>1, <1>2, AccNew, Zenon

(* The echo response: the request moves from the burst to the egress ring. *)
LEMMA EchoRespondAcc ==
  ASSUME OwnInv, AccInv, NEW n \in Works, EchoRespond(n)
  PROVE  AccInv'
<1> DEFINE r == Head(slot[Local(n)])
           mid == [slot EXCEPT ![Local(n)] = Tail(slot[Local(n)])]
<1>1. /\ n \in Nodes /\ Egress(n) \in Places /\ Local(n) \in Places
      /\ Egress(n) # Local(n) /\ slot[Local(n)] # <<>>
  BY PlacesOfTx, PlacesOfNode DEF EchoRespond, Handling
<1>2. mid \in Held /\ r \in Nat
  BY <1>1, TakeHead, Zenon DEF OwnInv
<1>3. \A q : Holds(slot, q) => q = r \/ Holds(mid, q)
  BY <1>1, HeadHolds, Zenon DEF OwnInv
<1>4. /\ mid[Egress(n)] = slot[Egress(n)]
      /\ slot' = [mid EXCEPT ![Egress(n)] = Enq(mid[Egress(n)], r)]
  BY <1>1 DEF EchoRespond, OwnInv, Held
<1>5. /\ lost' = lost \cup Dropped(slot[Egress(n)], r)
      /\ UNCHANGED freed
      /\ Len(pkt') = Len(pkt)
  BY DEF EchoRespond, OwnInv
<1> HIDE DEF r, mid
<1>6. /\ Holds(slot', r) \/ r \in Dropped(slot[Egress(n)], r)
      /\ \A q : Holds(mid, q) => Holds(slot', q)
  BY <1>1, <1>2, <1>4, PutHolds, Zenon
<1> QED
  BY <1>3, <1>5, <1>6 DEF AccInv

(* The answer is queued and the request freed. *)
LEMMA AnswerAcc ==
  ASSUME OwnInv, AccInv, NEW n \in Works, Answer(n)
  PROVE  AccInv'
<1> DEFINE p == Len(pkt) + 1
           r == Head(slot[Local(n)])
           mid == [slot EXCEPT ![Egress(n)] = Enq(slot[Egress(n)], p)]
<1>1. /\ n \in Nodes /\ Egress(n) \in Places /\ Local(n) \in Places
      /\ Egress(n) # Local(n) /\ slot[Local(n)] # <<>>
  BY PlacesOfTx, PlacesOfNode DEF Answer, Handling
<1>2. p \in Nat /\ Len(pkt') = p
  BY DEF Answer, OwnInv
<1>3. slot[Egress(n)] \in Seq(Nat)
  BY <1>1 DEF OwnInv, Held
<1>4. mid \in Held /\ mid[Local(n)] = slot[Local(n)]
  BY <1>1, <1>2, <1>3, EnqFacts, ZenonT(30) DEF OwnInv, Held
<1>5. /\ Holds(mid, p) \/ p \in Dropped(slot[Egress(n)], p)
      /\ \A q : Holds(slot, q) => Holds(mid, q)
  BY <1>1, <1>2, PutHolds, Zenon DEF OwnInv
<1>6. slot' = [mid EXCEPT ![Local(n)] = Tail(mid[Local(n)])]
  BY <1>1, Zenon DEF Answer, OwnInv, Held
<1>7. lost' = lost \cup Dropped(slot[Egress(n)], p) /\ freed' = freed \cup {r}
  BY DEF Answer
<1>8. mid[Local(n)] # <<>> /\ Head(mid[Local(n)]) = r
  BY <1>1, <1>4
<1> HIDE DEF mid, r
<1>9. \A q : Holds(mid, q) => q = r \/ Holds(slot', q)
  BY <1>1, <1>4, <1>6, <1>8, HeadHolds, Zenon
<1> QED
  BY <1>2, <1>5, <1>7, <1>9, AccNew

(* Every step accounts for the packets it touches. *)
LEMMA AccStep == OwnInv /\ AccInv /\ [Next]_vars => AccInv'
<1> SUFFICES ASSUME OwnInv, AccInv, [Next]_vars PROVE AccInv'
  OBVIOUS
<1>1. CASE UNCHANGED <<slot, pkt, freed, lost>>
  BY <1>1 DEF AccInv
<1>2. CASE MainStep
  BY <1>1, <1>2 DEF MainStep, StartServer, CreateNode, AllStarted, HaltNext, JoinNext, memory
<1>3. CASE BeginStop
  BY <1>1, <1>3 DEF BeginStop, memory
<1>4. ASSUME NEW k \in Kinds, Receive(k) PROVE AccInv'
  <2> DEFINE p == Len(pkt) + 1
  <2>1. CASE Route(k) = {} /\ freed' = freed \cup {p} /\ UNCHANGED <<slot, lost>>
    <3>1. Len(pkt') = p
      BY <1>4, SMT DEF Receive, OwnInv
    <3> QED
      BY <2>1, <3>1, AccNew
  <2>2. ASSUME NEW n \in Route(k),
               slot' = [slot EXCEPT ![Ingress(n)] = Enq(@, p)],
               lost' = lost \cup Dropped(slot[Ingress(n)], p),
               UNCHANGED freed
        PROVE  AccInv'
    <3>1. n \in Nodes
      BY DEF Route, Nodes, COUNT, GTPU_ECHO, GTPC_ECHO, GTPU_OTHER, GTPC_OTHER,
             CREATE_SESSION, CREATE_SESSION_EXT0, MODIFY_BEARER
    <3>2. pkt' = Append(pkt, [kind |-> k, origin |-> p])
      BY <1>4 DEF Receive
    <3> QED
      BY <2>2, <3>1, <3>2, PlacesOfNode, EmitAcc, Zenon
  <2> QED
    BY <1>4, <2>1, <2>2 DEF Receive
<1>5. CASE TimerEcho
  <2>1. Egress(TIMER) \in Places
    BY PlacesOfNode DEF TIMER, Nodes, COUNT
  <2> QED
    BY <1>5, <2>1, EmitAcc, Zenon DEF TimerEcho
<1>6. ASSUME NEW t \in Servers, ServerExit(t) PROVE AccInv'
  BY <1>1, <1>6 DEF ServerExit, memory
<1>7. ASSUME NEW n \in Works, Deq(n) PROVE AccInv'
  <2>1. Ingress(n) \in Places /\ Local(n) \in Places /\ Ingress(n) # Local(n)
    BY PlacesOfTx, PlacesOfNode
  <2>2. \A q : Holds(slot, q) => Holds(slot', q)
    BY <1>7, <2>1, BurstHolds, Zenon DEF Deq, OwnInv
  <2> QED
    BY <1>7, <2>2, AccSame, Zenon DEF Deq
<1>8. ASSUME NEW n \in Works, Handle(n) PROVE AccInv'
  <2>1. CASE Consume(n)
    <3>1. \A q : Holds(slot, q) => q = Head(slot[Local(n)]) \/ Holds(slot', q)
      BY <2>1, PlacesOfTx, PlacesOfNode, HeadHolds, Zenon DEF Consume, OwnInv
    <3> QED
      BY <2>1, <3>1, AccSame, Zenon DEF Consume
  <2>2. CASE EchoDuplicate(n)
    BY <2>2, PlacesOfTx, PlacesOfNode, EmitAcc, Zenon DEF EchoDuplicate
  <2> QED
    BY <1>8, <2>1, <2>2, EchoRespondAcc, AnswerAcc DEF Handle
<1>9. CASE UnknownTunnel
  <2>1. GTPU_OTHER \in Nodes /\ slot[Local(GTPU_OTHER)] # <<>>
    BY <1>9 DEF UnknownTunnel, Handling, GTPU_OTHER, Nodes, COUNT
  <2>2. \A q : Holds(slot, q) => q = Head(slot[Local(GTPU_OTHER)]) \/ Holds(slot', q)
    BY <1>9, <2>1, PlacesOfNode, HeadHolds, Zenon DEF UnknownTunnel, OwnInv
  <2>3. Len(pkt') = Len(pkt) + 1
    BY <1>9 DEF UnknownTunnel, OwnInv
  <2> QED
    BY <1>9, <2>2, <2>3, AccNew, Zenon DEF UnknownTunnel
<1>10. CASE BreakBurst
  <2>1. GTPU_OTHER \in Nodes
    BY DEF GTPU_OTHER, Nodes, COUNT
  <2>2. \A q : Holds(slot, q) => q \in Elems(slot[Local(GTPU_OTHER)]) \/ Holds(slot', q)
    BY <1>10, <2>1, PlacesOfNode, ForgetHolds, Zenon DEF BreakBurst, OwnInv
  <2>3. Len(pkt') = Len(pkt) + 1
    BY <1>10 DEF BreakBurst, OwnInv
  <2> QED
    BY <1>10, <2>2, <2>3, AccNew, Zenon DEF BreakBurst
<1>11. ASSUME NEW n \in Nodes, NodeExit(n) PROVE AccInv'
  BY <1>1, <1>11 DEF NodeExit, memory
<1>12. CASE TxDeq
  <2>1. Egress(txAt) \in Places /\ Local(TX) \in Places /\ Egress(txAt) # Local(TX)
    BY PlacesOfTx, PlacesOfNode DEF OwnInv
  <2>2. \A q : Holds(slot, q) => Holds(slot', q)
    BY <1>12, <2>1, BurstHolds, Zenon DEF TxDeq, OwnInv
  <2> QED
    BY <1>12, <2>2, AccSame, Zenon DEF TxDeq
<1>13. CASE TxSend
  <2>1. TX \in Nodes
    BY DEF TX, Nodes, COUNT
  <2>2. \A q : Holds(slot, q) => q = Head(slot[Local(TX)]) \/ Holds(slot', q)
    BY <1>13, <2>1, PlacesOfNode, HeadHolds, Zenon DEF TxSend, OwnInv
  <2> QED
    BY <1>13, <2>2, AccSame, Zenon DEF TxSend
<1>14. CASE UNCHANGED vars
  BY <1>1, <1>14 DEF vars
<1> QED
  BY <1>2, <1>3, <1>4, <1>5, <1>6, <1>7, <1>8, <1>9, <1>10, <1>11, <1>12, <1>13, <1>14 DEF Next

(* NoPacketDisappears: the difference between what pgw_alloc_packet handed *)
(* out and what pgw_free_packet took back is what the rings and bursts     *)
(* hold and the packets lost in the two places the model names: a full     *)
(* ring and the break of the router solicitation.                          *)
THEOREM NoPacketDisappears == Spec => []Accounted
<1>1. OwnInv /\ AccInv => Accounted
  <2> SUFFICES ASSUME OwnInv, AccInv PROVE Accounted
    OBVIOUS
  <2>1. \A p \in Packets : p \in freed \/ p \in lost \/ \E a \in Places : p \in Elems(slot[a])
    BY DEF Packets, AccInv, Holds, Elems
  <2>2. \A a \in Places : \A p \in Elems(slot[a]) : p \in Packets
    BY DEF OwnInv, Allocated, Elems, Packets
  <2>3. freed \subseteq Packets /\ lost \subseteq Packets
    BY DEF OwnInv, Packets
  <2> QED
    BY <2>1, <2>2, <2>3 DEF Accounted
<1>2. Init => AccInv
  BY SMT DEF Init, AccInv
<1> QED
  BY <1>1, <1>2, OwnInit, OwnStep, AccStep, PTL DEF Spec

-----------------------------------------------------------------------------
(* JoinedIsIdle.  The duplicate of an echo request is only outstanding in  *)
(* an echo thread whose burst still has that request at its head.          *)
EchoRequests == {"u_echo_req", "c_echo_req"}
IdleInv ==
  /\ dup \in [Nodes -> BOOLEAN]
  /\ \A n \in Nodes : dup[n] => /\ n \in {GTPU_ECHO, GTPC_ECHO}
                                /\ slot[Local(n)] # <<>>
                                /\ pkt[slot[Local(n)][1]].kind \in EchoRequests
  /\ \A n \in Nodes : n \in exited => slot[Local(n)] = <<>>

(* Rings and bursts are different places, and so are two threads' bursts. *)
LEMMA OtherPlaces ==
  ASSUME NEW n \in Nodes, NEW m \in Nodes
  PROVE  /\ Local(m) \in Places
         /\ Ingress(n) # Local(m) /\ Egress(n) # Local(m)
         /\ n # m => Local(n) # Local(m)
BY DEF Ingress, Egress, Local, Places

(* A step that leaves the outstanding duplicates, the requests they are    *)
(* of, and the bursts of the threads that returned.                        *)
LEMMA IdleKept ==
  ASSUME OwnInv, IdleInv, UNCHANGED <<dup, exited>>,
         \A p \in 1 .. Len(pkt) : pkt'[p] = pkt[p],
         \A n \in Nodes : dup[n] \/ n \in exited => slot'[Local(n)] = slot[Local(n)]
  PROVE  IdleInv'
<1>1. \A n \in Nodes : dup[n] => slot[Local(n)][1] \in 1 .. Len(pkt)
  <2>1. SUFFICES ASSUME NEW n \in Nodes, dup[n] PROVE slot[Local(n)][1] \in 1 .. Len(pkt)
    OBVIOUS
  <2>2. Local(n) \in Places /\ slot[Local(n)] # <<>> /\ slot[Local(n)] \in Seq(Nat)
    BY <2>1, OtherPlaces DEF IdleInv, OwnInv, Held
  <2>3. 1 \in 1 .. Len(slot[Local(n)])
    BY <2>2
  <2> QED
    BY <2>2, <2>3 DEF OwnInv, Allocated
<1>2. \A n \in Nodes : dup[n] => /\ n \in {GTPU_ECHO, GTPC_ECHO}
                                 /\ slot'[Local(n)] # <<>>
                                 /\ pkt'[slot'[Local(n)][1]].kind \in EchoRequests
  BY <1>1, ZenonT(30) DEF IdleInv
<1>3. \A n \in Nodes : n \in exited => slot'[Local(n)] = <<>>
  BY DEF IdleInv
<1> QED
  BY <1>2, <1>3 DEF IdleInv

(* A packet allocated is behind the others. *)
LEMMA OldPackets ==
  ASSUME OwnInv, NEW r, pkt' = Append(pkt, r)
  PROVE  \A p \in 1 .. Len(pkt) : pkt'[p] = pkt[p]
BY DEF OwnInv

(* A step of one thread n that has no duplicate outstanding and is running *)
(* changes no burst but its own.                                           *)
LEMMA IdleOther ==
  ASSUME OwnInv, IdleInv, NEW n \in Nodes, ~dup[n], n \notin exited,
         UNCHANGED <<dup, exited>>,
         \A p \in 1 .. Len(pkt) : pkt'[p] = pkt[p],
         \A m \in Nodes : m # n => slot'[Local(m)] = slot[Local(m)]
  PROVE  IdleInv'
BY IdleKept

(* The duplicate is queued: the request stays at the head. *)
LEMMA IdleEchoDuplicate ==
  ASSUME OwnInv, IdleInv, NEW n \in Works, EchoDuplicate(n)
  PROVE  IdleInv'
<1>1. n \in Nodes /\ n \in {GTPU_ECHO, GTPC_ECHO} /\ n \notin exited /\ slot[Local(n)] # <<>>
  BY PlacesOfTx DEF EchoDuplicate, Handling, Running
<1>2. /\ slot[Local(n)] \in Seq(Nat) /\ Head(slot[Local(n)]) = slot[Local(n)][1]
      /\ slot[Local(n)][1] \in 1 .. Len(pkt)
  <2>1. slot[Local(n)] \in Seq(Nat)
    BY <1>1, OtherPlaces DEF OwnInv, Held
  <2> QED
    BY <1>1, <2>1, HeadPacket, SMT
<1>3. pkt[slot[Local(n)][1]].kind \in EchoRequests
  BY <1>2 DEF EchoDuplicate, Handling, EchoRequests
<1>4. \A p \in 1 .. Len(pkt) : pkt'[p] = pkt[p]
  BY OldPackets DEF EchoDuplicate
<1>5. \A m \in Nodes : slot'[Local(m)] = slot[Local(m)]
  BY <1>1, OtherPlaces DEF EchoDuplicate, OwnInv, Held
<1>6. dup' = [dup EXCEPT ![n] = TRUE] /\ UNCHANGED exited
  BY DEF EchoDuplicate, control
<1>7. \A m \in Nodes : dup[m] => slot[Local(m)][1] \in 1 .. Len(pkt)
  <2>1. SUFFICES ASSUME NEW m \in Nodes, dup[m] PROVE slot[Local(m)][1] \in 1 .. Len(pkt)
    OBVIOUS
  <2>2. Local(m) \in Places /\ slot[Local(m)] # <<>> /\ slot[Local(m)] \in Seq(Nat)
    BY <2>1, OtherPlaces DEF IdleInv, OwnInv, Held
  <2>3. 1 \in 1 .. Len(slot[Local(m)])
    BY <2>2
  <2> QED
    BY <2>2, <2>3 DEF OwnInv, Allocated
<1>8. dup' \in [Nodes -> BOOLEAN]
  BY <1>6, Zenon DEF IdleInv
<1>9. \A m \in Nodes : dup'[m] => /\ m \in {GTPU_ECHO, GTPC_ECHO}
                                  /\ slot[Local(m)] # <<>>
                                  /\ pkt[slot[Local(m)][1]].kind \in EchoRequests
                                  /\ slot[Local(m)][1] \in 1 .. Len(pkt)
  <2>1. SUFFICES ASSUME NEW m \in Nodes, dup'[m]
                 PROVE  /\ m \in {GTPU_ECHO, GTPC_ECHO}
                        /\ slot[Local(m)] # <<>>
                        /\ pkt[slot[Local(m)][1]].kind \in EchoRequests
                        /\ slot[Local(m)][1] \in 1 .. Len(pkt)
    OBVIOUS
  <2>2. CASE m = n
    BY <1>1, <1>2, <1>3, <2>2
  <2>3. CASE m # n
    BY <1>6, <1>7, <2>1, <2>3 DEF IdleInv
  <2> QED
    BY <2>2, <2>3
<1> QED
  BY <1>4, <1>5, <1>6, <1>8, <1>9, SMT DEF IdleInv

(* The response is queued: no other thread has the request. *)
LEMMA IdleEchoRespond ==
  ASSUME OwnInv, IdleInv, NEW n \in Works, EchoRespond(n)
  PROVE  IdleInv'
<1> DEFINE r == Head(slot[Local(n)])
<1>1. n \in Nodes /\ n \notin exited /\ slot[Local(n)] # <<>>
  BY PlacesOfTx DEF EchoRespond, Handling, Running
<1>2. /\ slot[Local(n)] \in Seq(Nat) /\ r = slot[Local(n)][1]
      /\ 1 \in 1 .. Len(slot[Local(n)])
  BY <1>1, OtherPlaces, SMT DEF OwnInv, Held
<1>3. \A p \in 1 .. Len(pkt) : p # r => pkt'[p] = pkt[p]
  BY SMT DEF EchoRespond, OwnInv
<1>4. \A m \in Nodes : m # n => slot'[Local(m)] = slot[Local(m)]
  BY <1>1, OtherPlaces DEF EchoRespond, OwnInv, Held
<1>5. dup' = [dup EXCEPT ![n] = FALSE] /\ UNCHANGED exited
  BY DEF EchoRespond, control
<1>6. \A m \in Nodes : dup[m] /\ m # n =>
        slot[Local(m)][1] \in 1 .. Len(pkt) /\ slot[Local(m)][1] # r
  <2>1. SUFFICES ASSUME NEW m \in Nodes, dup[m], m # n
                 PROVE  slot[Local(m)][1] \in 1 .. Len(pkt) /\ slot[Local(m)][1] # r
    OBVIOUS
  <2>2. Local(m) \in Places /\ slot[Local(m)] # <<>> /\ slot[Local(m)] \in Seq(Nat)
    BY <2>1, OtherPlaces DEF IdleInv, OwnInv, Held
  <2>3. 1 \in 1 .. Len(slot[Local(m)])
    BY <2>2
  <2>4. Local(n) # Local(m) /\ Local(n) \in Places
    BY <1>1, <2>1, OtherPlaces
  <2> QED
    BY <1>2, <2>2, <2>3, <2>4, SMT DEF OwnInv, Allocated, Apart
<1> HIDE DEF r
<1>7. dup' \in [Nodes -> BOOLEAN] /\ \A m \in Nodes : dup'[m] => dup[m] /\ m # n
  BY <1>5, Zenon DEF IdleInv
<1>8. \A m \in Nodes : dup'[m] => /\ m \in {GTPU_ECHO, GTPC_ECHO}
                                  /\ slot'[Local(m)] # <<>>
                                  /\ pkt'[slot'[Local(m)][1]].kind \in EchoRequests
  BY <1>3, <1>4, <1>6, <1>7, ZenonT(30) DEF IdleInv
<1>9. \A m \in Nodes : m \in exited => slot'[Local(m)] = <<>>
  BY <1>1, <1>4 DEF IdleInv
<1> QED
  BY <1>5, <1>7, <1>8, <1>9 DEF IdleInv

(* The other handlers look at a packet that is no echo request. *)
LEMMA IdleHandle ==
  ASSUME OwnInv, IdleInv, NEW n \in Works, Handle(n)
  PROVE  IdleInv'
<1>1. n \in Nodes
  BY PlacesOfTx
<1>2. ASSUME slot[Local(n)] # <<>>, pkt[Head(slot[Local(n)])].kind \notin EchoRequests
      PROVE  ~dup[n]
  <2>1. slot[Local(n)] \in Seq(Nat)
    BY <1>1, OtherPlaces DEF OwnInv, Held
  <2>2. Head(slot[Local(n)]) = slot[Local(n)][1]
    BY <1>2, <2>1
  <2> QED
    BY <1>1, <1>2, <2>2 DEF IdleInv
<1>3. CASE Consume(n)
  <2>1. ~dup[n]
    BY <1>2, <1>3 DEF Consume, EchoRequests
  <2>2. \A m \in Nodes : m # n => slot'[Local(m)] = slot[Local(m)]
    BY <1>1, <1>3, OtherPlaces DEF Consume, OwnInv, Held
  <2> QED
    BY <1>1, <1>3, <2>1, <2>2, IdleOther DEF Consume, Running, control
<1>4. CASE Answer(n)
  <2>1. ~dup[n]
    BY <1>2, <1>4 DEF Answer, Handling, EchoRequests
  <2>2. \A m \in Nodes : m # n => slot'[Local(m)] = slot[Local(m)]
    BY <1>1, <1>4, OtherPlaces DEF Answer, OwnInv, Held
  <2>3. \A p \in 1 .. Len(pkt) : pkt'[p] = pkt[p]
    BY <1>4, OldPackets DEF Answer
  <2>4. n \notin exited /\ UNCHANGED <<dup, exited>>
    BY <1>4 DEF Answer, Handling, Running, control
  <2> QED
    BY <1>1, <2>1, <2>2, <2>3, <2>4, IdleOther
<1> QED
  BY <1>3, <1>4, IdleEchoDuplicate, IdleEchoRespond DEF Handle

(* At the start no thread has a burst. *)
LEMMA IdleInit == Init => IdleInv
<1> SUFFICES ASSUME Init PROVE IdleInv
  OBVIOUS
<1>1. \A n \in Nodes : slot[Local(n)] = <<>>
  BY OtherPlaces DEF Init
<1> QED
  BY <1>1 DEF Init, IdleInv

(* Every step keeps the bursts of the threads that returned empty. *)
LEMMA IdleStep == OwnInv /\ IdleInv /\ [Next]_vars => IdleInv'
<1> SUFFICES ASSUME OwnInv, IdleInv, [Next]_vars PROVE IdleInv'
  OBVIOUS
<1>1. CASE UNCHANGED <<slot, pkt, dup, exited>>
  BY <1>1 DEF IdleInv
<1>2. CASE MainStep
  BY <1>1, <1>2 DEF MainStep, StartServer, CreateNode, AllStarted, HaltNext, JoinNext, memory
<1>3. CASE BeginStop
  BY <1>1, <1>3 DEF BeginStop, memory
<1>4. ASSUME NEW k \in Kinds, Receive(k) PROVE IdleInv'
  <2>1. \A m \in Nodes : slot'[Local(m)] = slot[Local(m)]
    <3>1. CASE UNCHANGED slot
      BY <3>1
    <3>2. ASSUME NEW n \in Route(k), slot' = [slot EXCEPT ![Ingress(n)] = Enq(@, Len(pkt) + 1)]
          PROVE \A m \in Nodes : slot'[Local(m)] = slot[Local(m)]
      <4>1. n \in Nodes
        BY DEF Route, Nodes, COUNT, GTPU_ECHO, GTPC_ECHO, GTPU_OTHER, GTPC_OTHER,
               CREATE_SESSION, CREATE_SESSION_EXT0, MODIFY_BEARER
      <4> QED
        BY <3>2, <4>1, OtherPlaces DEF OwnInv, Held
    <3> QED
      BY <1>4, <3>1, <3>2 DEF Receive
  <2>2. \A p \in 1 .. Len(pkt) : pkt'[p] = pkt[p]
    BY <1>4, OldPackets, Zenon DEF Receive
  <2> QED
    BY <1>4, <2>1, <2>2, IdleKept DEF Receive, control
<1>5. CASE TimerEcho
  <2>1. TIMER \in Nodes
    BY DEF TIMER, Nodes, COUNT
  <2>2. \A m \in Nodes : slot'[Local(m)] = slot[Local(m)]
    BY <1>5, <2>1, OtherPlaces DEF TimerEcho, OwnInv, Held
  <2>3. \A p \in 1 .. Len(pkt) : pkt'[p] = pkt[p]
    BY <1>5, OldPackets, Zenon DEF TimerEcho
  <2> QED
    BY <1>5, <2>2, <2>3, IdleKept, Zenon DEF TimerEcho, control
<1>6. ASSUME NEW t \in Servers, ServerExit(t) PROVE IdleInv'
  <2>1. t \notin Nodes
    BY DEF Servers, GTPC, GTPU, Nodes, COUNT
  <2>2. UNCHANGED <<slot, pkt, dup>> /\ exited' = exited \cup {t}
    BY <1>6 DEF ServerExit, memory
  <2> QED
    BY <2>1, <2>2 DEF IdleInv
<1>7. ASSUME NEW n \in Works, Deq(n) PROVE IdleInv'
  <2>1. n \in Nodes /\ ~dup[n] /\ n \notin exited
    BY <1>7, PlacesOfTx DEF Deq, Running, IdleInv
  <2>2. \A m \in Nodes : m # n => slot'[Local(m)] = slot[Local(m)]
    BY <1>7, <2>1, OtherPlaces DEF Deq, OwnInv, Held
  <2> QED
    BY <1>7, <2>1, <2>2, IdleOther, Zenon DEF Deq, control
<1>8. ASSUME NEW n \in Works, Handle(n) PROVE IdleInv'
  BY <1>8, IdleHandle
<1>9. CASE UnknownTunnel
  <2>1. GTPU_OTHER \in Nodes /\ ~dup[GTPU_OTHER] /\ GTPU_OTHER \notin exited
    BY <1>9, SMT DEF UnknownTunnel, Handling, Running, IdleInv, GTPU_OTHER, GTPU_ECHO, GTPC_ECHO,
                Nodes, COUNT
  <2>2. \A m \in Nodes : m # GTPU_OTHER => slot'[Local(m)] = slot[Local(m)]
    BY <1>9, <2>1, OtherPlaces DEF UnknownTunnel, OwnInv, Held
  <2>3. \A p \in 1 .. Len(pkt) : pkt'[p] = pkt[p]
    BY <1>9, OldPackets DEF UnknownTunnel
  <2> QED
    BY <1>9, <2>1, <2>2, <2>3, IdleOther DEF UnknownTunnel, control
<1>10. CASE BreakBurst
  <2>1. GTPU_OTHER \in Nodes /\ ~dup[GTPU_OTHER] /\ GTPU_OTHER \notin exited
    BY <1>10, SMT DEF BreakBurst, Handling, Running, IdleInv, GTPU_OTHER, GTPU_ECHO, GTPC_ECHO,
                Nodes, COUNT
  <2>2. \A m \in Nodes : m # GTPU_OTHER => slot'[Local(m)] = slot[Local(m)]
    BY <1>10, <2>1, OtherPlaces DEF BreakBurst, OwnInv, Held
  <2>3. \A p \in 1 .. Len(pkt) : pkt'[p] = pkt[p]
    BY <1>10, OldPackets DEF BreakBurst
  <2> QED
    BY <1>10, <2>1, <2>2, <2>3, IdleOther DEF BreakBurst, control
<1>11. ASSUME NEW n \in Nodes, NodeExit(n) PROVE IdleInv'
  <2>1. UNCHANGED <<slot, pkt, dup>> /\ exited' = exited \cup {n} /\ slot[Local(n)] = <<>>
    BY <1>11 DEF NodeExit, memory
  <2> QED
    BY <2>1 DEF IdleInv
<1>12. CASE TxDeq \/ TxSend
  <2>1. TX \in Nodes /\ ~dup[TX] /\ TX \notin exited
    BY <1>12, SMT DEF TxDeq, TxSend, Running, IdleInv, TX, GTPU_ECHO, GTPC_ECHO, Nodes, COUNT
  <2>2. CASE TxDeq
    <3>1. Egress(txAt) \in Places /\ \A m \in Nodes : Egress(txAt) # Local(m)
      BY PlacesOfTx, PlacesOfNode, OtherPlaces DEF OwnInv
    <3>2. \A m \in Nodes : m # TX => slot'[Local(m)] = slot[Local(m)]
      BY <2>1, <2>2, <3>1, OtherPlaces DEF TxDeq, OwnInv, Held
    <3> QED
      BY <2>1, <2>2, <3>2, IdleOther, Zenon DEF TxDeq, control
  <2>3. CASE TxSend
    <3>1. \A m \in Nodes : m # TX => slot'[Local(m)] = slot[Local(m)]
      BY <2>1, <2>3, OtherPlaces DEF TxSend, OwnInv, Held
    <3> QED
      BY <2>1, <2>3, <3>1, IdleOther DEF TxSend, control
  <2> QED
    BY <1>12, <2>2, <2>3
<1>13. CASE UNCHANGED vars
  BY <1>1, <1>13 DEF vars
<1> QED
  BY <1>2, <1>3, <1>4, <1>5, <1>6, <1>7, <1>8, <1>9, <1>10, <1>11, <1>12, <1>13 DEF Next

(* JoinedThreadsAreIdle: pgw_stop never joins a node thread that still     *)
(* holds packets in pkts[] or owes an echo response: node_thread looks at  *)
(* its halt flag only between two bursts.                                  *)
THEOREM JoinedThreadsAreIdle == Spec => []JoinedIsIdle
<1>1. IdleInv => JoinedIsIdle
  BY DEF IdleInv, JoinedIsIdle
<1> QED
  BY <1>1, OwnInit, OwnStep, IdleInit, IdleStep, PTL DEF Spec
=============================================================================
