-------------------------- MODULE ChargingProofs ---------------------------
(***************************************************************************)
(* The counter and its sink keep the books of Ledger, and a tunnel group   *)
(* holds every mbuf once, for every ring, burst and batch size.            *)
(*                                                                         *)
(* Both follow from what a link conserves, for every weight of the mbufs   *)
(* (WeightProofs).  For the counter the weight of an mbuf is the bytes it  *)
(* holds of a subscriber, for the group it is 1 for one mbuf and 0 for the *)
(* others.                                                                 *)
(***************************************************************************)
EXTENDS Counting, TunnelPath, WeightProofs

-----------------------------------------------------------------------------
(* The loop of ModifyEach: each mbuf is sent or freed. *)
Carries(c, X) ==
  /\ c = [table |-> c.table, marks |-> c.marks, sent |-> c.sent, freed |-> c.freed]
  /\ c.sent \in Seq(X) /\ c.freed \in Seq(X)
CarryWeight(c, w) == Weight(c.sent, w) + Weight(c.freed, w)

(* What ModifyPacket makes of the mbufs carried. *)
Modified(c, m, d) ==
  /\ d = [table |-> d.table, marks |-> d.marks, sent |-> d.sent, freed |-> d.freed]
  /\ \/ d.sent = Append(c.sent, m) /\ d.freed = c.freed
     \/ d.freed = Append(c.freed, m) /\ d.sent = c.sent

(* ModifyPacket puts the mbuf among the sent or among the freed. *)
LEMMA ModifyOne ==
  ASSUME NEW X, NEW c, Carries(c, X), NEW m, NEW now
  PROVE  Modified(c, m, ModifyPacket(c, m, now))
<1> DEFINE t == c.table
           k == c.marks
           s == c.sent
           f == c.freed
<1>1. c = [table |-> t, marks |-> k, sent |-> s, freed |-> f]
  BY DEF Carries
<1> HIDE DEF t, k, s, f
<1>2. Modified(c, m, [c EXCEPT !.freed = Append(@, m)])
  BY <1>1, SMTT(30) DEF Modified
<1>3. Modified(c, m, Unmarked(c, m))
  <2> DEFINE mark == [NoUdat EXCEPT !.flag = "DC"]
  <2>1. Unmarked(c, m) = [c EXCEPT !.marks[m] = mark, !.sent = Append(@, m)]
    BY Zenon DEF Unmarked
  <2> HIDE DEF mark
  <2> QED
    BY <1>1, <2>1, Zenon DEF Modified
<1>4. ASSUME NEW key PROVE Modified(c, m, Charged(c, m, key, now))
  <2> DEFINE e == Refilled(c.table[key], now)
             mark == [flag |-> "PDU", mode |-> e.mode, color |-> Color(e, packet[m].size)]
             debited == Debited(e, packet[m].size)
  <2>1. Charged(c, m, key, now) =
          [c EXCEPT !.marks[m] = mark, !.table[key] = debited, !.sent = Append(@, m)]
    BY Zenon DEF Charged
  <2> HIDE DEF mark, debited
  <2> QED
    BY <1>1, <2>1, Zenon DEF Modified
<1> QED
  BY <1>2, <1>3, <1>4, Zenon DEF ModifyPacket, IngressPacket, EgressPacket

CarriesTo(X, w, c, m, d) == w \in [X -> Nat] /\ Carries(c, X) /\ m \in X /\ Modified(c, m, d)
(* So it adds the weight of the mbuf to what is carried. *)
LEMMA ModifyWeighs ==
  ASSUME NEW X, NEW w, NEW c, NEW m, NEW d, CarriesTo(X, w, c, m, d)
  PROVE  Carries(d, X) /\ CarryWeight(d, w) = CarryWeight(c, w) + w[m]
<1>0. w \in [X -> Nat] /\ Carries(c, X) /\ m \in X /\ Modified(c, m, d)
  BY Zenon DEF CarriesTo
<1>1. /\ c.sent \in Seq(X) /\ c.freed \in Seq(X)
      /\ Append(c.sent, m) \in Seq(X) /\ Append(c.freed, m) \in Seq(X) /\ w[m] \in Nat
  BY <1>0 DEF Carries
<1>2. /\ Weight(c.sent, w) \in Nat /\ Weight(c.freed, w) \in Nat
      /\ Weight(Append(c.sent, m), w) = Weight(c.sent, w) + w[m]
      /\ Weight(Append(c.freed, m), w) = Weight(c.freed, w) + w[m]
  BY <1>0, <1>1, WeightNat, WeightAppend, Zenon
<1>3. CASE d.sent = Append(c.sent, m) /\ d.freed = c.freed
  BY <1>0, <1>1, <1>2, <1>3 DEF Carries, Modified, CarryWeight
<1>4. CASE d.freed = Append(c.freed, m) /\ d.sent = c.sent
  BY <1>0, <1>1, <1>2, <1>4 DEF Carries, Modified, CarryWeight
<1> QED
  BY <1>0, <1>3, <1>4, Zenon DEF Modified

ModifySteps(c, ms, now, n, f) ==
  f = [i \in 0 .. n |-> f[i]] /\ f[0] = c /\ \A i \in 1 .. n : f[i] = ModifyPacket(f[i - 1], ms[i], now)

(* ModifyEach returns the last value of its loop. *)
LEMMA ModifyLoop ==
  ASSUME NEW c, NEW ms, NEW now, Len(ms) \in Nat
  PROVE  \E f : ModifySteps(c, ms, now, Len(ms), f) /\ ModifyEach(c, ms, now) = f[Len(ms)]
<1> DEFINE n == Len(ms)
           after[i \in 0 .. Len(ms)] ==
             IF i = 0 THEN c ELSE The({ModifyPacket(x, ms[i], now) : x \in {after[i - 1]}})
           Eq(h) == h = [i \in 0 .. Len(ms) |->
             IF i = 0 THEN c ELSE The({ModifyPacket(x, ms[i], now) : x \in {h[i - 1]}})]
           S == {j \in Nat : \E f : ModifySteps(c, ms, now, j, f)}
<1>1. ModifyEach(c, ms, now) = after[Len(ms)]
  BY DEF ModifyEach
<1>2. after = CHOOSE h : Eq(h)
  OBVIOUS
<1>3. 0 \in S
  <2> DEFINE f == [i \in 0 .. 0 |-> c]
  <2>1. ModifySteps(c, ms, now, 0, f)
    BY DEF ModifySteps
  <2> HIDE DEF f
  <2> QED
    BY <2>1
<1>4. ASSUME NEW j \in 0 .. n - 1, j \in S PROVE j + 1 \in S
  <2>1. PICK f : ModifySteps(c, ms, now, j, f)
    BY <1>4
  <2> DEFINE h == [i \in 0 .. j + 1 |-> IF i <= j THEN f[i] ELSE ModifyPacket(f[j], ms[j + 1], now)]
  <2>2. h = [i \in 0 .. j + 1 |-> h[i]] /\ h[0] = c
    BY <2>1 DEF ModifySteps
  <2>3. ASSUME NEW i \in 1 .. j + 1 PROVE h[i] = ModifyPacket(h[i - 1], ms[i], now)
    <3>1. CASE i <= j
      <4>1. h[i] = f[i] /\ h[i - 1] = f[i - 1] /\ i \in 1 .. j
        BY <3>1
      <4> HIDE DEF h
      <4> QED
        BY <2>1, <4>1, Zenon DEF ModifySteps
    <3>2. CASE i = j + 1
      <4>1. h[i] = ModifyPacket(f[j], ms[j + 1], now) /\ h[i - 1] = f[j]
        BY <3>2
      <4> HIDE DEF h
      <4> QED
        BY <3>2, <4>1, Zenon
    <3> QED
      BY <3>1, <3>2
  <2> HIDE DEF h
  <2>4. ModifySteps(c, ms, now, j + 1, h)
    BY <2>2, <2>3, Zenon DEF ModifySteps
  <2>5. j + 1 \in Nat
    OBVIOUS
  <2> QED
    BY <2>4, <2>5, Zenon
<1>5. PICK f : ModifySteps(c, ms, now, n, f)
  <2> HIDE DEF S
  <2>1. \A i \in 0 .. n : i \in S
    BY <1>3, <1>4, UpTo, SMTT(30)
  <2>2. n \in S
    BY <2>1
  <2> QED
    BY <2>2, Zenon DEF S
<1>6. ASSUME NEW i, NEW h PROVE The({ModifyPacket(x, ms[i], now) : x \in {h[i - 1]}}) = ModifyPacket(h[i - 1], ms[i], now)
  <2>1. {ModifyPacket(x, ms[i], now) : x \in {h[i - 1]}} = {ModifyPacket(h[i - 1], ms[i], now)}
    OBVIOUS
  <2> QED
    BY <2>1, TheOnly, Zenon
<1>7. Eq(f)
  <2>1. f = [i \in 0 .. n |-> f[i]]
    BY <1>5, Zenon DEF ModifySteps
  <2>2. ASSUME NEW i \in 0 .. n
        PROVE f[i] = IF i = 0 THEN c ELSE The({ModifyPacket(x, ms[i], now) : x \in {f[i - 1]}})
    <3>1. i = 0 \/ i \in 1 .. n
      OBVIOUS
    <3> QED
      BY <1>5, <1>6, <3>1, Zenon DEF ModifySteps
  <2> QED
    BY <2>1, <2>2, Zenon
<1>8. Eq(after)
  <2> HIDE DEF after, Eq
  <2> QED BY <1>2, <1>7, Zenon
<1>9. ModifySteps(c, ms, now, n, after)
  <2> HIDE DEF after
  <2>1. ASSUME NEW i \in 0 .. n
        PROVE after[i] = IF i = 0 THEN c ELSE The({ModifyPacket(x, ms[i], now) : x \in {after[i - 1]}})
    BY <1>8, Zenon
  <2>2. 0 \in 0 .. n /\ \A i \in 1 .. n : i \in 0 .. n /\ i # 0
    OBVIOUS
  <2>3. after = [i \in 0 .. n |-> after[i]]
    BY <1>8, Zenon
  <2> QED
    BY <1>6, <2>1, <2>2, <2>3, Zenon DEF ModifySteps
<1> HIDE DEF after
<1> QED
  BY <1>1, <1>9, Zenon

(* ModifyEach carries each mbuf of its burst, sent or freed. *)
LEMMA ModifyEachWeighs ==
  ASSUME NEW X, NEW w \in [X -> Nat], NEW c, Carries(c, X), NEW ms \in Seq(X), NEW now
  PROVE  /\ Carries(ModifyEach(c, ms, now), X)
         /\ CarryWeight(ModifyEach(c, ms, now), w) = CarryWeight(c, w) + Weight(ms, w)
<1>1. Len(ms) \in Nat /\ \A i \in 1 .. Len(ms) : ms[i] \in X /\ w[ms[i]] \in Nat
  OBVIOUS
<1>2. PICK f : ModifySteps(c, ms, now, Len(ms), f) /\ ModifyEach(c, ms, now) = f[Len(ms)]
  BY <1>1, ModifyLoop, Zenon
<1>3. Image(ms, w) \in Seq(Nat) /\ Len(Image(ms, w)) = Len(ms) /\ \A i \in 1 .. Len(ms) : Image(ms, w)[i] = w[ms[i]]
  BY ImageOf
<1>4. PICK u : Sums(Image(ms, w), u) /\ Weight(ms, w) = u[Len(ms)]
  BY <1>3, SumLoop DEF Weight
<1>5. CarryWeight(c, w) \in Nat
  <2>1. Weight(c.sent, w) \in Nat /\ Weight(c.freed, w) \in Nat
    BY WeightNat, Zenon DEF Carries
  <2> QED
    BY <2>1 DEF CarryWeight
<1> DEFINE T == {i \in 0 .. Len(ms) : Carries(f[i], X) /\ CarryWeight(f[i], w) = CarryWeight(c, w) + u[i]}
<1>6. 0 \in T
  <2>1. f[0] = c /\ u[0] = 0 /\ 0 \in 0 .. Len(ms)
    BY <1>1, <1>2, <1>4 DEF ModifySteps, Sums
  <2>2. CarryWeight(c, w) = CarryWeight(c, w) + 0
    BY <1>5
  <2> QED
    BY <2>1, <2>2, Zenon
<1>7. ASSUME NEW i \in 0 .. Len(ms) - 1, i \in T PROVE i + 1 \in T
  <2>1. i + 1 \in 1 .. Len(ms) /\ (i + 1) - 1 = i /\ i + 1 \in 0 .. Len(ms) /\ i \in 0 .. Len(ms)
    BY <1>1
  <2> DEFINE a == f[i]
             m == ms[i + 1]
             d == f[i + 1]
             b == u[i]
  <2>2. d = ModifyPacket(a, m, now) /\ m \in X
    BY <1>1, <1>2, <2>1, Zenon DEF ModifySteps
  <2>3. u[i + 1] = b + w[m] /\ b \in Nat /\ w[m] \in Nat
    BY <1>1, <1>3, <1>4, <2>1, Zenon DEF Sums
  <2>4. Carries(a, X) /\ CarryWeight(a, w) = CarryWeight(c, w) + b
    BY <1>7, Zenon
  <2> HIDE DEF a, m, d, b
  <2>5. Modified(a, m, d)
    BY <2>2, <2>4, ModifyOne, Zenon
  <2>6. Carries(d, X) /\ CarryWeight(d, w) = CarryWeight(a, w) + w[m]
    <3>1. CarriesTo(X, w, a, m, d)
      BY <2>2, <2>4, <2>5, Zenon DEF CarriesTo
    <3> QED
      BY <3>1, ModifyWeighs
  <2>7. CarryWeight(d, w) = CarryWeight(c, w) + (b + w[m])
    BY <1>5, <2>3, <2>4, <2>6
  <2>8. Carries(f[i + 1], X) /\ CarryWeight(f[i + 1], w) = CarryWeight(c, w) + u[i + 1]
    BY <2>3, <2>6, <2>7, Zenon DEF d
  <2> QED
    BY <2>1, <2>8, Zenon
<1>8. Len(ms) \in T
  <2> HIDE DEF T
  <2>1. \A i \in 0 .. Len(ms) : i \in T
    BY <1>1, <1>6, <1>7, UpTo, Zenon
  <2> QED
    BY <1>1, <2>1
<1> QED
  BY <1>2, <1>4, <1>8, Zenon

-----------------------------------------------------------------------------
(* A mbuf of the group is on its way at most once, and in the pool when it *)
(* is not.                                                                 *)
InPool(p, m) == IF m \in p THEN 1 ELSE 0
OnWay(w) ==
  Weight(got, w) + Weight(from, w) + Weight(out, w) + Weight(mid, w) + Weight(passing, w) + Weight(tx, w) + Weight(nic, w)

WayType ==
  /\ got \in Seq(Mbufs) /\ from \in Seq(Mbufs) /\ out \in Seq(Mbufs) /\ mid \in Seq(Mbufs)
  /\ passing \in Seq(Mbufs) /\ tx \in Seq(Mbufs) /\ nic \in Seq(Mbufs) /\ pool \subseteq Mbufs
Held == \A m \in Mbufs : OnWay(One(Mbufs, m)) + InPool(pool, m) = 1
HeldInv == WayType /\ Held

(* The weight of what is on the way is a number. *)
LEMMA WayNats ==
  ASSUME WayType, NEW w \in [Mbufs -> Nat]
  PROVE  /\ Weight(got, w) \in Nat /\ Weight(from, w) \in Nat /\ Weight(out, w) \in Nat /\ Weight(mid, w) \in Nat
         /\ Weight(passing, w) \in Nat /\ Weight(tx, w) \in Nat /\ Weight(nic, w) \in Nat
BY WeightNat, Zenon DEF WayType

(* What Freed returns to the pool. *)
LEMMA FreedHeld ==
  ASSUME NEW p \in SUBSET Mbufs, NEW f \in Seq(Mbufs), NEW m \in Mbufs, NEW a \in Nat,
         a + Weight(f, One(Mbufs, m)) + InPool(p, m) = 1
  PROVE  a + InPool(Freed(p, f), m) = 1
<1>1. m \in Freed(p, f) <=> m \in p \/ Occurs(f, m)
  BY DEF Freed, Occurs
<1>2. Weight(f, One(Mbufs, m)) \in Nat
  BY OneWeight, WeightNat, Zenon
<1>3. CASE Occurs(f, m)
  <2>1. Weight(f, One(Mbufs, m)) >= 1
    BY <1>3, CountSome, Zenon
  <2> QED
    BY <1>1, <1>2, <1>3, <2>1 DEF InPool
<1>4. CASE ~ Occurs(f, m)
  <2>1. Weight(f, One(Mbufs, m)) = 0
    BY <1>4, CountNone, Zenon
  <2> QED
    BY <1>1, <1>4, <2>1 DEF InPool
<1> QED
  BY <1>3, <1>4

(* Freed returns mbufs. *)
LEMMA FreedType ==
  ASSUME NEW p \in SUBSET Mbufs, NEW f \in Seq(Mbufs)
  PROVE  Freed(p, f) \subseteq Mbufs
BY DEF Freed

-----------------------------------------------------------------------------
(* HeldInv after a step. *)
HeldNow(m, g, f, o, d, s, t, n, p) ==
  Weight(g, One(Mbufs, m)) + Weight(f, One(Mbufs, m)) + Weight(o, One(Mbufs, m)) + Weight(d, One(Mbufs, m))
    + Weight(s, One(Mbufs, m)) + Weight(t, One(Mbufs, m)) + Weight(n, One(Mbufs, m)) + InPool(p, m) = 1

(* HeldNow of every mbuf is HeldInv after the step. *)
LEMMA HeldNext ==
  ASSUME WayType', \A m \in Mbufs : HeldNow(m, got', from', out', mid', passing', tx', nic', pool')
  PROVE  HeldInv'
BY Zenon DEF HeldInv, Held, OnWay, HeldNow, One

(* The sequences and the pool say all of HeldInv. *)
LEMMA HeldStutter ==
  ASSUME HeldInv, UNCHANGED pathVars
  PROVE  HeldInv'
<1>1. /\ got' = got /\ from' = from /\ out' = out /\ mid' = mid /\ passing' = passing
      /\ tx' = tx /\ nic' = nic /\ pool' = pool
  BY DEF pathVars
<1> QED
  BY <1>1, Zenon DEF HeldInv, WayType, Held, OnWay, One

(* CoreRx takes mbufs from the pool, and frees what its link does not      *)
(* take.                                                                   *)
LEMMA HeldRx ==
  ASSUME HeldInv, RxCycle
  PROVE  HeldInv'
<1>1. WayType /\ Held
  BY Zenon DEF HeldInv
<1>2. PICK ms \in {<<>>} \cup {<<m>> : m \in pool} : \E l \in {Sends(Link(got, from, <<>>), ms)} :
        got' = l.out /\ from' = l.to /\ pool' = Freed({m \in pool : ms # <<m>>}, l.freed)
  BY Zenon DEF RxCycle
<1>3. PICK l : /\ l = Sends(Link(got, from, <<>>), ms)
               /\ got' = l.out /\ from' = l.to /\ pool' = Freed({m \in pool : ms # <<m>>}, l.freed)
  BY <1>2, Zenon
<1>4. out' = out /\ mid' = mid /\ passing' = passing /\ tx' = tx /\ nic' = nic
  BY DEF RxCycle
<1>5. ms \in Seq(Mbufs) /\ Len(ms) \in {0, 1} /\ (Len(ms) = 1 => ms = <<ms[1]>> /\ ms[1] \in pool)
  <2>1. CASE ms = <<>>
    BY <2>1
  <2>2. CASE ms \in {<<m>> : m \in pool}
    <3>1. PICK m \in pool : ms = <<m>>
      BY <2>2, Zenon
    <3>2. m \in Mbufs
      BY <1>1, Zenon DEF WayType
    <3> QED
      BY <3>1, <3>2
  <2> QED
    BY <1>2, <2>1, <2>2, Zenon
<1> DEFINE p == {m \in pool : ms # <<m>>}
<1>6. p \in SUBSET Mbufs /\ got \in Seq(Mbufs) /\ from \in Seq(Mbufs)
  BY <1>1 DEF WayType
<1>7. ASSUME NEW m \in Mbufs PROVE InPool(p, m) + Weight(ms, One(Mbufs, m)) = InPool(pool, m)
  <2>1. CASE Occurs(ms, m)
    <3>1. Len(ms) = 1 /\ ms = <<m>> /\ m \in pool
      BY <1>5, <2>1 DEF Occurs
    <3>2. Injective(ms)
      BY <1>5, <3>1 DEF Injective
    <3>3. Weight(ms, One(Mbufs, m)) = 1
      BY <1>5, <2>1, <3>2, CountInjective, Zenon
    <3>4. m \notin p
      BY <3>1
    <3> QED
      BY <3>1, <3>3, <3>4 DEF InPool
  <2>2. CASE ~ Occurs(ms, m)
    <3>1. Weight(ms, One(Mbufs, m)) = 0
      BY <1>5, <2>2, CountNone, Zenon
    <3>2. ms # <<m>>
      BY <2>2 DEF Occurs
    <3>3. m \in p <=> m \in pool
      BY <3>2
    <3> HIDE DEF p
    <3> QED
      BY <3>1, <3>3 DEF InPool
  <2> QED
    BY <2>1, <2>2, Zenon
<1> HIDE DEF p
<1> DEFINE f == l.freed
<1>8. Sending(Mbufs, got, from, ms, got', from', f) /\ pool' = Freed(p, f)
  BY <1>3, <1>5, <1>6, Zenon DEF Sending, Sends, Flushed, p
<1> HIDE DEF f
<1>9. got' \in Seq(Mbufs) /\ from' \in Seq(Mbufs) /\ f \in Seq(Mbufs)
  <2>1. One(Mbufs, 0) \in [Mbufs -> Nat]
    BY OneWeight, Zenon
  <2> QED
    BY <1>8, <2>1, SendsWeighs
<1>10. WayType'
  <2>1. Freed(p, f) \subseteq Mbufs
    BY <1>6, <1>9, FreedType, Zenon
  <2> QED
    BY <1>1, <1>4, <1>8, <1>9, <2>1, Zenon DEF WayType
<1>11. ASSUME NEW m \in Mbufs PROVE HeldNow(m, got', from', out', mid', passing', tx', nic', pool')
  <2> DEFINE w == One(Mbufs, m)
  <2>1. w \in [Mbufs -> Nat]
    BY OneWeight, Zenon
  <2>4. OnWay(w) + InPool(pool, m) = 1 /\ InPool(p, m) + Weight(ms, w) = InPool(pool, m)
    BY <1>1, <1>7, Zenon DEF Held
  <2> HIDE DEF w
  <2>2. /\ Weight(got', w) \in Nat /\ Weight(from', w) \in Nat /\ Weight(f, w) \in Nat
        /\ Weight(got', w) + Weight(from', w) + Weight(f, w) = Weight(got, w) + Weight(from, w) + Weight(ms, w)
    BY <1>8, <2>1, SendsWeighs
  <2>3. /\ Weight(got, w) \in Nat /\ Weight(from, w) \in Nat /\ Weight(out, w) \in Nat /\ Weight(mid, w) \in Nat
        /\ Weight(passing, w) \in Nat /\ Weight(tx, w) \in Nat /\ Weight(nic, w) \in Nat /\ Weight(ms, w) \in Nat
    BY <1>1, <1>5, <2>1, WayNats, WeightNat, Zenon
  <2>5. InPool(p, m) \in Nat
    BY DEF InPool
  <2> DEFINE a == Weight(got', w) + Weight(from', w) + Weight(out, w) + Weight(mid, w) + Weight(passing, w)
                    + Weight(tx, w) + Weight(nic, w)
  <2>6. a \in Nat /\ a + Weight(f, w) + InPool(p, m) = 1
    <3> DEFINE g == Weight(got, w)
               h == Weight(from, w)
               o == Weight(out, w)
               d == Weight(mid, w)
               b == Weight(passing, w)
               t == Weight(tx, w)
               n == Weight(nic, w)
               x == Weight(ms, w)
               g2 == Weight(got', w)
               h2 == Weight(from', w)
               y == Weight(f, w)
               i == InPool(pool, m)
               j == InPool(p, m)
    <3>1. /\ g \in Nat /\ h \in Nat /\ o \in Nat /\ d \in Nat /\ b \in Nat /\ t \in Nat /\ n \in Nat
          /\ x \in Nat /\ g2 \in Nat /\ h2 \in Nat /\ y \in Nat /\ j \in Nat
      BY <2>2, <2>3, <2>5, Zenon
    <3>2. g2 + h2 + y = g + h + x /\ g + h + o + d + b + t + n + i = 1 /\ j + x = i
      BY <2>2, <2>4, Zenon DEF OnWay
    <3> HIDE DEF g, h, o, d, b, t, n, x, g2, h2, y, i, j
    <3>3. /\ g2 + h2 + o + d + b + t + n \in Nat
          /\ (g2 + h2 + o + d + b + t + n) + y + j = 1
      BY <3>1, <3>2
    <3> QED
      BY <3>3, Zenon DEF g, h, o, d, b, t, n, x, g2, h2, y, i, j
  <2>7. a + InPool(Freed(p, f), m) = 1
    <3> HIDE DEF a
    <3> QED BY <1>6, <1>9, <2>6, FreedHeld, Zenon DEF w
  <2> QED
    BY <1>4, <1>8, <2>7, Zenon DEF HeldNow, w
<1> QED
  BY <1>10, <1>11, HeldNext, Zenon

(* The worker's cycle: each mbuf of its burst is sent on or returns to the *)
(* pool.                                                                   *)
LEMMA HeldWorker ==
  ASSUME HeldInv, WorkerCycle
  PROVE  HeldInv'
<1>1. WayType /\ Held
  BY Zenon DEF HeldInv
<1> DEFINE c0 == [table |-> table, marks |-> packet, sent |-> <<>>, freed |-> <<>>]
<1>2. PICK now, c, l : /\ c = ModifyEach(c0, Burst(from), now) /\ l = Sends(Link(out, mid, <<>>), c.sent)
                       /\ out' = l.out /\ mid' = l.to /\ pool' = Freed(pool, c.freed \o l.freed)
  BY Zenon DEF WorkerCycle
<1>4. from' = Rest(from) /\ got' = got /\ passing' = passing /\ tx' = tx /\ nic' = nic
  BY DEF WorkerCycle
<1>3. out \in Seq(Mbufs) /\ mid \in Seq(Mbufs) /\ from \in Seq(Mbufs) /\ pool \in SUBSET Mbufs
  BY <1>1 DEF WayType
<1>5. Carries(c0, Mbufs) /\ c0.sent = <<>> /\ c0.freed = <<>>
  BY DEF Carries
<1> HIDE DEF c0
<1>6. ASSUME NEW w \in [Mbufs -> Nat]
      PROVE  /\ Burst(from) \in Seq(Mbufs) /\ Rest(from) \in Seq(Mbufs) /\ c.sent \in Seq(Mbufs) /\ c.freed \in Seq(Mbufs)
             /\ Weight(Burst(from), w) \in Nat /\ Weight(Rest(from), w) \in Nat
             /\ Weight(c.sent, w) \in Nat /\ Weight(c.freed, w) \in Nat
             /\ Weight(c.sent, w) + Weight(c.freed, w) = Weight(Burst(from), w)
             /\ Weight(from, w) = Weight(Burst(from), w) + Weight(Rest(from), w)
  <2>1. /\ Burst(from) \in Seq(Mbufs) /\ Rest(from) \in Seq(Mbufs)
        /\ Weight(from, w) = Weight(Burst(from), w) + Weight(Rest(from), w)
    BY <1>3, BurstRest, Zenon
  <2>2. Carries(c, Mbufs) /\ CarryWeight(c, w) = CarryWeight(c0, w) + Weight(Burst(from), w)
    BY <1>2, <1>5, <2>1, ModifyEachWeighs, ZenonT(30)
  <2>3. c.sent \in Seq(Mbufs) /\ c.freed \in Seq(Mbufs)
    BY <2>2, Zenon DEF Carries
  <2>4. /\ Weight(Burst(from), w) \in Nat /\ Weight(Rest(from), w) \in Nat
        /\ Weight(c.sent, w) \in Nat /\ Weight(c.freed, w) \in Nat
        /\ Weight(c0.sent, w) = 0 /\ Weight(c0.freed, w) = 0
    BY <1>5, <2>1, <2>3, WeightNat, WeightEmpty, Zenon
  <2>5. CarryWeight(c0, w) + Weight(Burst(from), w) = Weight(Burst(from), w)
    BY <2>4 DEF CarryWeight
  <2>6. Weight(c.sent, w) + Weight(c.freed, w) = Weight(Burst(from), w)
    BY <2>2, <2>5, Zenon DEF CarryWeight
  <2> QED
    BY <2>1, <2>3, <2>4, <2>6, Zenon
<1> DEFINE f == c.freed \o l.freed
           z == One(Mbufs, 0)
<1>7. z \in [Mbufs -> Nat]
  BY OneWeight, Zenon
<1>12. c.sent \in Seq(Mbufs) /\ c.freed \in Seq(Mbufs) /\ Rest(from) \in Seq(Mbufs)
  BY <1>6, <1>7, Zenon
<1>8. Sending(Mbufs, out, mid, c.sent, out', mid', l.freed) /\ pool' = Freed(pool, f)
  BY <1>2, <1>3, <1>12, Zenon DEF Sending, Sends, Flushed
<1>9. out' \in Seq(Mbufs) /\ mid' \in Seq(Mbufs) /\ l.freed \in Seq(Mbufs) /\ f \in Seq(Mbufs)
  <2>1. out' \in Seq(Mbufs) /\ mid' \in Seq(Mbufs) /\ l.freed \in Seq(Mbufs)
    BY <1>7, <1>8, SendsWeighs
  <2> QED
    BY <1>12, <2>1
<1>13. ASSUME NEW w \in [Mbufs -> Nat] PROVE Weight(f, w) = Weight(c.freed, w) + Weight(l.freed, w)
  BY <1>9, <1>12, WeightConcat, Zenon
<1> HIDE DEF f
<1>10. WayType'
  <2>1. Freed(pool, f) \subseteq Mbufs
    BY <1>3, <1>9, FreedType, Zenon
  <2> QED
    BY <1>1, <1>4, <1>8, <1>9, <1>12, <2>1, Zenon DEF WayType
<1>11. ASSUME NEW m \in Mbufs PROVE HeldNow(m, got', from', out', mid', passing', tx', nic', pool')
  <2> DEFINE w == One(Mbufs, m)
  <2>1. w \in [Mbufs -> Nat]
    BY OneWeight, Zenon
  <2>4. OnWay(w) + InPool(pool, m) = 1
    BY <1>1, Zenon DEF Held
  <2>5. InPool(pool, m) \in Nat
    BY DEF InPool
  <2> HIDE DEF w
  <2>2. /\ Weight(out', w) \in Nat /\ Weight(mid', w) \in Nat /\ Weight(l.freed, w) \in Nat
        /\ Weight(out', w) + Weight(mid', w) + Weight(l.freed, w) = Weight(out, w) + Weight(mid, w) + Weight(c.sent, w)
    BY <1>8, <2>1, SendsWeighs
  <2>8. /\ Weight(Burst(from), w) \in Nat /\ Weight(Rest(from), w) \in Nat
        /\ Weight(c.sent, w) \in Nat /\ Weight(c.freed, w) \in Nat
        /\ Weight(c.sent, w) + Weight(c.freed, w) = Weight(Burst(from), w)
        /\ Weight(from, w) = Weight(Burst(from), w) + Weight(Rest(from), w)
        /\ Weight(f, w) = Weight(c.freed, w) + Weight(l.freed, w)
    BY <1>6, <1>13, <2>1, Zenon
  <2>3. /\ Weight(got, w) \in Nat /\ Weight(from, w) \in Nat /\ Weight(out, w) \in Nat /\ Weight(mid, w) \in Nat
        /\ Weight(passing, w) \in Nat /\ Weight(tx, w) \in Nat /\ Weight(nic, w) \in Nat
    BY <1>1, <2>1, WayNats, Zenon
  <2> DEFINE a == Weight(got, w) + Weight(from', w) + Weight(out', w) + Weight(mid', w) + Weight(passing, w)
                    + Weight(tx, w) + Weight(nic, w)
  <2>6. a \in Nat /\ a + Weight(f, w) + InPool(pool, m) = 1
    <3> DEFINE g == Weight(got, w)
               h == Weight(from, w)
               o == Weight(out, w)
               d == Weight(mid, w)
               b == Weight(passing, w)
               t == Weight(tx, w)
               n == Weight(nic, w)
               r == Weight(Burst(from), w)
               h2 == Weight(Rest(from), w)
               x == Weight(c.sent, w)
               q == Weight(c.freed, w)
               o2 == Weight(out', w)
               d2 == Weight(mid', w)
               v == Weight(l.freed, w)
               y == Weight(f, w)
               i == InPool(pool, m)
    <3>1. /\ g \in Nat /\ h \in Nat /\ o \in Nat /\ d \in Nat /\ b \in Nat /\ t \in Nat /\ n \in Nat
          /\ r \in Nat /\ h2 \in Nat /\ x \in Nat /\ q \in Nat /\ o2 \in Nat /\ d2 \in Nat /\ v \in Nat /\ i \in Nat
      BY <2>2, <2>3, <2>5, <2>8, Zenon
    <3>2. /\ o2 + d2 + v = o + d + x /\ x + q = r /\ h = r + h2 /\ y = q + v
          /\ g + h + o + d + b + t + n + i = 1
      BY <2>2, <2>4, <2>8, Zenon DEF OnWay
    <3> HIDE DEF g, h, o, d, b, t, n, r, h2, x, q, o2, d2, v, y, i
    <3>3. /\ g + h2 + o2 + d2 + b + t + n \in Nat
          /\ (g + h2 + o2 + d2 + b + t + n) + y + i = 1
      BY <3>1, <3>2
    <3> QED
      BY <1>4, <3>3, Zenon DEF g, h, o, d, b, t, n, r, h2, x, q, o2, d2, v, y, i
  <2>7. a + InPool(Freed(pool, f), m) = 1
    <3> HIDE DEF a
    <3>1. pool \in SUBSET Mbufs
      BY <1>1, Zenon DEF WayType
    <3> QED BY <1>9, <2>6, <3>1, FreedHeld, Zenon DEF w
  <2> QED
    BY <1>4, <1>8, <2>7, Zenon DEF HeldNow, w
<1> QED
  BY <1>10, <1>11, HeldNext, Zenon

(* The second stage's cycle: the burst is sent on, except for what the     *)
(* policer drops.                                                          *)
LEMMA HeldPass ==
  ASSUME HeldInv, PassCycle
  PROVE  HeldInv'
<1>1. WayType /\ Held
  BY Zenon DEF HeldInv
<1> DEFINE over == {m \in Range(Burst(mid)) : Over(packet[m])}
           kept == Among(Burst(mid), Mbufs \ over)
           drop == Among(Burst(mid), over)
<1>2. PICK l : /\ l = Sends(Link(passing, tx, <<>>), kept)
               /\ passing' = l.out /\ tx' = l.to /\ pool' = Freed(pool, drop \o l.freed)
  BY ZenonT(30) DEF PassCycle
<1>4. mid' = Rest(mid) /\ got' = got /\ from' = from /\ out' = out /\ nic' = nic
  BY DEF PassCycle
<1>3. passing \in Seq(Mbufs) /\ tx \in Seq(Mbufs) /\ mid \in Seq(Mbufs) /\ pool \in SUBSET Mbufs
  BY <1>1 DEF WayType
<1> HIDE DEF over
<1>6. ASSUME NEW w \in [Mbufs -> Nat]
      PROVE  /\ Burst(mid) \in Seq(Mbufs) /\ Rest(mid) \in Seq(Mbufs) /\ kept \in Seq(Mbufs) /\ drop \in Seq(Mbufs)
             /\ Weight(Burst(mid), w) \in Nat /\ Weight(Rest(mid), w) \in Nat
             /\ Weight(kept, w) \in Nat /\ Weight(drop, w) \in Nat
             /\ Weight(Burst(mid), w) = Weight(kept, w) + Weight(drop, w)
             /\ Weight(mid, w) = Weight(Burst(mid), w) + Weight(Rest(mid), w)
  <2>1. /\ Burst(mid) \in Seq(Mbufs) /\ Rest(mid) \in Seq(Mbufs)
        /\ Weight(mid, w) = Weight(Burst(mid), w) + Weight(Rest(mid), w)
    BY <1>3, BurstRest, Zenon
  <2>2. Splits(Mbufs, Mbufs \ over, over)
    BY DEF Splits
  <2>3. /\ kept \in Seq(Mbufs) /\ drop \in Seq(Mbufs)
        /\ Weight(Burst(mid), w) = Weight(kept, w) + Weight(drop, w)
    <3> DEFINE k == Burst(mid)
               S == Mbufs \ over
    <3>1. k \in Seq(Mbufs) /\ Splits(Mbufs, S, over)
      BY <2>1, <2>2, Zenon
    <3> HIDE DEF k, S
    <3>2. /\ Among(k, S) \in Seq(Mbufs) /\ Among(k, over) \in Seq(Mbufs)
          /\ Weight(k, w) = Weight(Among(k, S), w) + Weight(Among(k, over), w)
      BY <3>1, AmongWeighs
    <3> QED
      BY <3>2, Zenon DEF k, S
  <2>4. /\ Weight(Burst(mid), w) \in Nat /\ Weight(Rest(mid), w) \in Nat
        /\ Weight(kept, w) \in Nat /\ Weight(drop, w) \in Nat
    BY <2>1, <2>3, WeightNat, Zenon
  <2> QED
    BY <2>1, <2>3, <2>4, Zenon
<1> HIDE DEF kept, drop
<1> DEFINE f == drop \o l.freed
           z == One(Mbufs, 0)
<1>7. z \in [Mbufs -> Nat]
  BY OneWeight, Zenon
<1>12. kept \in Seq(Mbufs) /\ drop \in Seq(Mbufs) /\ Rest(mid) \in Seq(Mbufs)
  BY <1>6, <1>7, Zenon
<1>8. Sending(Mbufs, passing, tx, kept, passing', tx', l.freed) /\ pool' = Freed(pool, f)
  BY <1>2, <1>3, <1>12, Zenon DEF Sending, Sends, Flushed
<1>9. passing' \in Seq(Mbufs) /\ tx' \in Seq(Mbufs) /\ l.freed \in Seq(Mbufs) /\ f \in Seq(Mbufs)
  <2>1. passing' \in Seq(Mbufs) /\ tx' \in Seq(Mbufs) /\ l.freed \in Seq(Mbufs)
    BY <1>7, <1>8, SendsWeighs
  <2> QED
    BY <1>12, <2>1
<1>13. ASSUME NEW w \in [Mbufs -> Nat] PROVE Weight(f, w) = Weight(drop, w) + Weight(l.freed, w)
  BY <1>9, <1>12, WeightConcat, Zenon
<1> HIDE DEF f
<1>10. WayType'
  <2>1. Freed(pool, f) \subseteq Mbufs
    BY <1>3, <1>9, FreedType, Zenon
  <2> QED
    BY <1>1, <1>4, <1>8, <1>9, <1>12, <2>1, Zenon DEF WayType
<1>11. ASSUME NEW m \in Mbufs PROVE HeldNow(m, got', from', out', mid', passing', tx', nic', pool')
  <2> DEFINE w == One(Mbufs, m)
  <2>1. w \in [Mbufs -> Nat]
    BY OneWeight, Zenon
  <2>4. OnWay(w) + InPool(pool, m) = 1
    BY <1>1, Zenon DEF Held
  <2>5. InPool(pool, m) \in Nat
    BY DEF InPool
  <2> HIDE DEF w
  <2>2. /\ Weight(passing', w) \in Nat /\ Weight(tx', w) \in Nat /\ Weight(l.freed, w) \in Nat
        /\ Weight(passing', w) + Weight(tx', w) + Weight(l.freed, w) = Weight(passing, w) + Weight(tx, w) + Weight(kept, w)
    BY <1>8, <2>1, SendsWeighs
  <2>8. /\ Weight(Burst(mid), w) \in Nat /\ Weight(Rest(mid), w) \in Nat
        /\ Weight(kept, w) \in Nat /\ Weight(drop, w) \in Nat
        /\ Weight(Burst(mid), w) = Weight(kept, w) + Weight(drop, w)
        /\ Weight(mid, w) = Weight(Burst(mid), w) + Weight(Rest(mid), w)
        /\ Weight(f, w) = Weight(drop, w) + Weight(l.freed, w)
    BY <1>6, <1>13, <2>1, Zenon
  <2>3. /\ Weight(got, w) \in Nat /\ Weight(from, w) \in Nat /\ Weight(out, w) \in Nat /\ Weight(mid, w) \in Nat
        /\ Weight(passing, w) \in Nat /\ Weight(tx, w) \in Nat /\ Weight(nic, w) \in Nat
    BY <1>1, <2>1, WayNats, Zenon
  <2> DEFINE a == Weight(got, w) + Weight(from, w) + Weight(out, w) + Weight(mid', w) + Weight(passing', w)
                    + Weight(tx', w) + Weight(nic, w)
  <2>6. a \in Nat /\ a + Weight(f, w) + InPool(pool, m) = 1
    <3> DEFINE g == Weight(got, w)
               h == Weight(from, w)
               o == Weight(out, w)
               d == Weight(mid, w)
               b == Weight(passing, w)
               t == Weight(tx, w)
               n == Weight(nic, w)
               r == Weight(Burst(mid), w)
               d2 == Weight(Rest(mid), w)
               x == Weight(kept, w)
               q == Weight(drop, w)
               b2 == Weight(passing', w)
               t2 == Weight(tx', w)
               v == Weight(l.freed, w)
               y == Weight(f, w)
               i == InPool(pool, m)
    <3>1. /\ g \in Nat /\ h \in Nat /\ o \in Nat /\ d \in Nat /\ b \in Nat /\ t \in Nat /\ n \in Nat
          /\ r \in Nat /\ d2 \in Nat /\ x \in Nat /\ q \in Nat /\ b2 \in Nat /\ t2 \in Nat /\ v \in Nat /\ i \in Nat
      BY <2>2, <2>3, <2>5, <2>8, Zenon
    <3>2. /\ b2 + t2 + v = b + t + x /\ r = x + q /\ d = r + d2 /\ y = q + v
          /\ g + h + o + d + b + t + n + i = 1
      BY <2>2, <2>4, <2>8, Zenon DEF OnWay
    <3> HIDE DEF g, h, o, d, b, t, n, r, d2, x, q, b2, t2, v, y, i
    <3>3. /\ g + h + o + d2 + b2 + t2 + n \in Nat
          /\ (g + h + o + d2 + b2 + t2 + n) + y + i = 1
      BY <3>1, <3>2
    <3> QED
      BY <1>4, <3>3, Zenon DEF g, h, o, d, b, t, n, r, d2, x, q, b2, t2, v, y, i
  <2>7. a + InPool(Freed(pool, f), m) = 1
    <3> HIDE DEF a
    <3>1. pool \in SUBSET Mbufs
      BY <1>1, Zenon DEF WayType
    <3> QED BY <1>9, <2>6, <3>1, FreedHeld, Zenon DEF w
  <2> QED
    BY <1>4, <1>8, <2>7, Zenon DEF HeldNow, w
<1> QED
  BY <1>10, <1>11, HeldNext, Zenon

(* CoreTx: what it sends returns to the pool. *)
LEMMA HeldTx ==
  ASSUME HeldInv, TxCycle
  PROVE  HeldInv'
<1>1. WayType /\ Held
  BY Zenon DEF HeldInv
<1> DEFINE more == nic \o Burst(tx)
<1>2. \/ nic' = <<>> /\ pool' = Freed(pool, more)
      \/ nic' = more /\ pool' = pool
  BY Zenon DEF TxCycle
<1>4. tx' = Rest(tx) /\ got' = got /\ from' = from /\ out' = out /\ mid' = mid /\ passing' = passing
  BY DEF TxCycle
<1>3. nic \in Seq(Mbufs) /\ tx \in Seq(Mbufs) /\ pool \in SUBSET Mbufs
  BY <1>1 DEF WayType
<1>6. ASSUME NEW w \in [Mbufs -> Nat]
      PROVE  /\ Burst(tx) \in Seq(Mbufs) /\ Rest(tx) \in Seq(Mbufs)
             /\ Weight(Burst(tx), w) \in Nat /\ Weight(Rest(tx), w) \in Nat
             /\ Weight(tx, w) = Weight(Burst(tx), w) + Weight(Rest(tx), w)
             /\ Weight(more, w) = Weight(nic, w) + Weight(Burst(tx), w)
  <2>1. /\ Burst(tx) \in Seq(Mbufs) /\ Rest(tx) \in Seq(Mbufs)
        /\ Weight(tx, w) = Weight(Burst(tx), w) + Weight(Rest(tx), w)
    BY <1>3, BurstRest, Zenon
  <2>4. /\ Weight(Burst(tx), w) \in Nat /\ Weight(Rest(tx), w) \in Nat
        /\ Weight(more, w) = Weight(nic, w) + Weight(Burst(tx), w)
    BY <1>3, <2>1, WeightNat, WeightConcat, Zenon
  <2> QED
    BY <2>1, <2>4, Zenon
<1> DEFINE z == One(Mbufs, 0)
<1>7. z \in [Mbufs -> Nat]
  BY OneWeight, Zenon
<1>12. Burst(tx) \in Seq(Mbufs) /\ Rest(tx) \in Seq(Mbufs)
  BY <1>6, <1>7, Zenon
<1>14. more \in Seq(Mbufs) /\ <<>> \in Seq(Mbufs)
  BY <1>3, <1>12
<1> HIDE DEF more
<1>8. PICK f : pool' = Freed(pool, f) /\ ((nic' = <<>> /\ f = more) \/ (nic' = more /\ f = <<>>))
  <2>1. Freed(pool, <<>>) = pool
    BY DEF Freed
  <2>2. CASE nic' = <<>> /\ pool' = Freed(pool, more)
    BY <2>2, Zenon
  <2>3. CASE nic' = more /\ pool' = pool
    BY <2>1, <2>3, Zenon
  <2> QED
    BY <1>2, <2>2, <2>3, Zenon
<1>9. nic' \in Seq(Mbufs) /\ f \in Seq(Mbufs)
  BY <1>8, <1>14, Zenon
<1>10. WayType'
  <2>1. Freed(pool, f) \subseteq Mbufs
    BY <1>3, <1>9, FreedType, Zenon
  <2> QED
    BY <1>1, <1>4, <1>8, <1>9, <1>12, <2>1, Zenon DEF WayType
<1>11. ASSUME NEW m \in Mbufs PROVE HeldNow(m, got', from', out', mid', passing', tx', nic', pool')
  <2> DEFINE w == One(Mbufs, m)
  <2>1. w \in [Mbufs -> Nat]
    BY OneWeight, Zenon
  <2>4. OnWay(w) + InPool(pool, m) = 1
    BY <1>1, Zenon DEF Held
  <2>5. InPool(pool, m) \in Nat
    BY DEF InPool
  <2> HIDE DEF w
  <2>2. Weight(nic', w) + Weight(f, w) = Weight(more, w) /\ Weight(nic', w) \in Nat /\ Weight(f, w) \in Nat
    <3>1. Weight(<<>>, w) = 0 /\ Weight(more, w) \in Nat
      BY <1>14, <2>1, WeightEmpty, WeightNat, Zenon
    <3>2. CASE nic' = <<>> /\ f = more
      BY <3>1, <3>2
    <3>3. CASE nic' = more /\ f = <<>>
      BY <3>1, <3>3
    <3> QED
      BY <1>8, <3>2, <3>3, Zenon
  <2>8. /\ Weight(Burst(tx), w) \in Nat /\ Weight(Rest(tx), w) \in Nat
        /\ Weight(tx, w) = Weight(Burst(tx), w) + Weight(Rest(tx), w)
        /\ Weight(more, w) = Weight(nic, w) + Weight(Burst(tx), w)
    BY <1>6, <2>1, Zenon
  <2>3. /\ Weight(got, w) \in Nat /\ Weight(from, w) \in Nat /\ Weight(out, w) \in Nat /\ Weight(mid, w) \in Nat
        /\ Weight(passing, w) \in Nat /\ Weight(tx, w) \in Nat /\ Weight(nic, w) \in Nat
    BY <1>1, <2>1, WayNats, Zenon
  <2> DEFINE a == Weight(got, w) + Weight(from, w) + Weight(out, w) + Weight(mid, w) + Weight(passing, w)
                    + Weight(tx', w) + Weight(nic', w)
  <2>6. a \in Nat /\ a + Weight(f, w) + InPool(pool, m) = 1
    <3> DEFINE g == Weight(got, w)
               h == Weight(from, w)
               o == Weight(out, w)
               d == Weight(mid, w)
               b == Weight(passing, w)
               t == Weight(tx, w)
               n == Weight(nic, w)
               r == Weight(Burst(tx), w)
               t2 == Weight(Rest(tx), w)
               n2 == Weight(nic', w)
               x == Weight(more, w)
               y == Weight(f, w)
               i == InPool(pool, m)
    <3>1. /\ g \in Nat /\ h \in Nat /\ o \in Nat /\ d \in Nat /\ b \in Nat /\ t \in Nat /\ n \in Nat
          /\ r \in Nat /\ t2 \in Nat /\ n2 \in Nat /\ y \in Nat /\ i \in Nat
      BY <2>2, <2>3, <2>5, <2>8, Zenon
    <3>2. /\ n2 + y = x /\ t = r + t2 /\ x = n + r
          /\ g + h + o + d + b + t + n + i = 1
      BY <2>2, <2>4, <2>8, Zenon DEF OnWay
    <3> HIDE DEF g, h, o, d, b, t, n, r, t2, n2, x, y, i
    <3>3. /\ g + h + o + d + b + t2 + n2 \in Nat
          /\ (g + h + o + d + b + t2 + n2) + y + i = 1
      BY <3>1, <3>2
    <3> QED
      BY <1>4, <3>3, Zenon DEF g, h, o, d, b, t, n, r, t2, n2, x, y, i
  <2>7. a + InPool(Freed(pool, f), m) = 1
    <3> HIDE DEF a
    <3>1. pool \in SUBSET Mbufs
      BY <1>1, Zenon DEF WayType
    <3> QED BY <1>9, <2>6, <3>1, FreedHeld, Zenon DEF w
  <2> QED
    BY <1>4, <1>8, <2>7, Zenon DEF HeldNow, w
<1> QED
  BY <1>10, <1>11, HeldNext, Zenon

-----------------------------------------------------------------------------
(* All mbufs are in the pool. *)
LEMMA HeldInit ==
  ASSUME TunnelInit
  PROVE  HeldInv
<1>1. /\ got = <<>> /\ from = <<>> /\ out = <<>> /\ mid = <<>> /\ passing = <<>> /\ tx = <<>> /\ nic = <<>>
      /\ pool = Mbufs
  BY DEF TunnelInit
<1>2. WayType
  <2>1. <<>> \in Seq(Mbufs) /\ Mbufs \subseteq Mbufs
    OBVIOUS
  <2> QED
    BY <1>1, <2>1, Zenon DEF WayType
<1>3. ASSUME NEW m \in Mbufs PROVE OnWay(One(Mbufs, m)) + InPool(pool, m) = 1
  <2>1. Weight(<<>>, One(Mbufs, m)) = 0
    BY WeightEmpty, Zenon
  <2>2. OnWay(One(Mbufs, m)) = 0
    BY <1>1, <2>1 DEF OnWay
  <2>3. InPool(pool, m) = 1
    BY <1>1 DEF InPool
  <2> QED
    BY <2>2, <2>3
<1> QED
  BY <1>2, <1>3, Zenon DEF HeldInv, Held

(* HeldInv is inductive: one case per action. *)
LEMMA HeldStep ==
  ASSUME HeldInv, [TunnelNext]_tunnelVars
  PROVE  HeldInv'
<1>1. CASE UNCHANGED pathVars
  BY <1>1, HeldStutter, Zenon
<1>2. CASE GroupCycle
  BY <1>2, HeldRx, HeldWorker, HeldPass, HeldTx, Zenon DEF GroupCycle
<1>3. CASE BeforeCycle \/ VirtualCycle \/ FetchFails
  BY <1>1, <1>3, Zenon DEF BeforeCycle, VirtualCycle, FetchFails, Connect, Throws
<1>4. ASSUME NEW s \in Sessions, Insert(s) \/ Update(s) \/ Delete(s) \/ LogGy(s)
      PROVE  HeldInv'
  <2>1. UNCHANGED pathVars
    BY <1>4, Zenon DEF Insert, Update, Delete, LogGy, Logged
  <2> QED
    BY <1>1, <2>1, Zenon
<1>5. CASE UNCHANGED tunnelVars
  <2>1. UNCHANGED pathVars
    BY <1>5 DEF tunnelVars
  <2> QED
    BY <1>1, <2>1, Zenon
<1> QED
  BY <1>2, <1>3, <1>4, <1>5, Zenon DEF TunnelNext

(* What HeldInv says of the group. *)
LEMMA HeldIs ==
  ASSUME HeldInv
  PROVE  HeldOnce
<1> DEFINE way == got \o from \o out \o mid \o passing \o tx \o nic
<1>1. WayType /\ Held
  BY Zenon DEF HeldInv
<1>2. way \in Seq(Mbufs)
  BY <1>1 DEF WayType
<1>3. ASSUME NEW w \in [Mbufs -> Nat] PROVE Weight(way, w) = OnWay(w)
  <2> DEFINE a == got \o from
             b == a \o out
             c == b \o mid
             d == c \o passing
             e == d \o tx
  <2>1. /\ got \in Seq(Mbufs) /\ from \in Seq(Mbufs) /\ out \in Seq(Mbufs) /\ mid \in Seq(Mbufs)
        /\ passing \in Seq(Mbufs) /\ tx \in Seq(Mbufs) /\ nic \in Seq(Mbufs)
    BY <1>1, Zenon DEF WayType
  <2>2. a \in Seq(Mbufs) /\ b \in Seq(Mbufs) /\ c \in Seq(Mbufs) /\ d \in Seq(Mbufs) /\ e \in Seq(Mbufs)
    BY <2>1
  <2>3. Weight(a, w) = Weight(got, w) + Weight(from, w)
    BY <2>1, WeightConcat, Zenon
  <2> HIDE DEF a
  <2>4. Weight(b, w) = Weight(a, w) + Weight(out, w)
    BY <2>1, <2>2, WeightConcat, Zenon
  <2> HIDE DEF b
  <2>5. Weight(c, w) = Weight(b, w) + Weight(mid, w)
    BY <2>1, <2>2, WeightConcat, Zenon
  <2> HIDE DEF c
  <2>6. Weight(d, w) = Weight(c, w) + Weight(passing, w)
    BY <2>1, <2>2, WeightConcat, Zenon
  <2> HIDE DEF d
  <2>7. Weight(e, w) = Weight(d, w) + Weight(tx, w)
    BY <2>1, <2>2, WeightConcat, Zenon
  <2> HIDE DEF e
  <2>8. Weight(e \o nic, w) = Weight(e, w) + Weight(nic, w)
    BY <2>1, <2>2, WeightConcat, Zenon
  <2>9. way = e \o nic
    BY Zenon DEF a, b, c, d, e
  <2> QED
    BY <2>3, <2>4, <2>5, <2>6, <2>7, <2>8, <2>9, Zenon DEF OnWay
<1>4. HeldOnce = /\ \A i, j \in 1 .. Len(way) : way[i] = way[j] => i = j
                 /\ \A i \in 1 .. Len(way) : way[i] \notin pool
                 /\ {way[i] : i \in 1 .. Len(way)} \cup pool = Mbufs
  BY Zenon DEF HeldOnce
<1> HIDE DEF way
<1>5. ASSUME NEW m \in Mbufs
      PROVE  /\ Weight(way, One(Mbufs, m)) <= 1
             /\ Occurs(way, m) => m \notin pool
             /\ ~ Occurs(way, m) => m \in pool
  <2> DEFINE n == Weight(way, One(Mbufs, m))
  <2>1. n \in Nat
    BY <1>2, OneWeight, WeightNat, Zenon
  <2>2. n + InPool(pool, m) = 1
    BY <1>1, <1>3, OneWeight, Zenon DEF Held
  <2>3. Occurs(way, m) => n >= 1
    BY <1>2, CountSome, Zenon
  <2>4. ~ Occurs(way, m) => n = 0
    BY <1>2, CountNone, Zenon
  <2> HIDE DEF n
  <2>5. n <= 1 /\ (Occurs(way, m) => m \notin pool) /\ (~ Occurs(way, m) => m \in pool)
    BY <2>1, <2>2, <2>3, <2>4 DEF InPool
  <2> QED
    BY <2>5, Zenon DEF n
<1>6. Injective(way)
  <2>1. AtMostOnce(way, Mbufs)
    BY <1>5, Zenon DEF AtMostOnce
  <2> QED
    BY <1>2, <2>1, CountTwice, Zenon
<1>7. pool \subseteq Mbufs /\ \A i \in 1 .. Len(way) : way[i] \in Mbufs
  BY <1>1, <1>2 DEF WayType
<1>8. \A i \in 1 .. Len(way) : way[i] \notin pool
  BY <1>5, <1>7, Zenon DEF Occurs
<1>9. {way[i] : i \in 1 .. Len(way)} \cup pool = Mbufs
  BY <1>5, <1>7, Zenon DEF Occurs
<1> QED
  BY <1>4, <1>6, <1>8, <1>9, Zenon DEF Injective

(* A group of cores holds every mbuf once, in the pool or at one place on  *)
(* the way from CoreRx to CoreTx, whatever the bursts and the rings hold,  *)
(* the policer drops and the sessions are.                                 *)
THEOREM TunnelHeldOnce == TunnelSpec => []HeldOnce
<1>1. TunnelInit => HeldInv
  BY HeldInit
<1>2. HeldInv /\ [TunnelNext]_tunnelVars => HeldInv'
  BY HeldStep
<1>3. HeldInv => HeldOnce
  BY HeldIs
<1> QED
  BY <1>1, <1>2, <1>3, PTL DEF TunnelSpec

-----------------------------------------------------------------------------
(* The counter's maps and mbufs, and the bytes of a subscriber in them. *)
Entries == [used : Nat, old : BOOLEAN]
MapOK(m) ==
  /\ m = [k \in DOMAIN m |-> m[k]] /\ DOMAIN m \subseteq Keys /\ IsFiniteSet(DOMAIN m)
  /\ \A k \in DOMAIN m : m[k] \in Entries
MapBytes(m, k) == IF k \in DOMAIN m THEN m[k].used ELSE 0
Mbuf == UNION {[D -> Nat] : D \in SUBSET Keys}
Of(k) == [x \in Mbuf |-> In(x, k)]

(* The bytes of a subscriber in an mbuf are a weight. *)
LEMMA OfWeight ==
  ASSUME NEW k
  PROVE  Of(k) \in [Mbuf -> Nat] /\ \A x \in Mbuf : Of(k)[x] = In(x, k)
<1>1. ASSUME NEW x \in Mbuf PROVE In(x, k) \in Nat
  <2>1. PICK D \in SUBSET Keys : x \in [D -> Nat]
    BY DEF Mbuf
  <2> QED
    BY <2>1 DEF In
<1> QED
  BY <1>1 DEF Of

(* BytesIn adds up that weight. *)
LEMMA BytesWeigh ==
  ASSUME NEW s \in Seq(Mbuf), NEW k \in Keys
  PROVE  BytesIn(s)[k] = Weight(s, Of(k)) /\ Weight(s, Of(k)) \in Nat
<1>1. Of(k) \in [Mbuf -> Nat] /\ \A x \in Mbuf : Of(k)[x] = In(x, k)
  BY OfWeight, Zenon
<1>2. \A i \in 1 .. Len(s) : s[i] \in Mbuf
  BY ElementOfSeq
<1>3. Image(s, Of(k)) = [i \in 1 .. Len(s) |-> In(s[i], k)]
  BY <1>1, <1>2, Zenon DEF Image
<1>4. BytesIn(s)[k] = SumSeq([i \in 1 .. Len(s) |-> In(s[i], k)])
  BY Zenon DEF BytesIn
<1>5. Weight(s, Of(k)) \in Nat
  BY <1>1, WeightNat, Zenon
<1> QED
  BY <1>3, <1>4, <1>5, Zenon DEF Weight

(* What one packet counts. *)
EachOne(pkt) == [k \in {pkt.key} |-> IF pkt.pdu THEN pkt.used ELSE 0]

(* What a packet counts is an mbuf of one key. *)
LEMMA EachIsMbuf ==
  ASSUME NEW pkt \in Packets
  PROVE  EachOne(pkt) \in Mbuf
<1>1. pkt.key \in Keys /\ pkt.used \in Nat
  BY KeyAssumption, Zenon DEF Packets
<1>2. EachOne(pkt) \in [{pkt.key} -> Nat] /\ {pkt.key} \in SUBSET Keys
  BY <1>1 DEF EachOne
<1> QED
  BY <1>2, Zenon DEF Mbuf

(* CountInto adds the bytes of the packet to its key, and to no other. *)
LEMMA CountOne ==
  ASSUME NEW m, MapOK(m), NEW pkt \in Packets
  PROVE  /\ MapOK(CountInto(m, pkt))
         /\ \A k \in Keys : MapBytes(CountInto(m, pkt), k) = MapBytes(m, k) + In(EachOne(pkt), k)
<1> DEFINE a == pkt.key
           n == pkt.used
<1>1. a \in Keys /\ n \in Nat /\ pkt.pdu \in BOOLEAN
  BY KeyAssumption, Zenon DEF Packets
<1>2. /\ m = [k \in DOMAIN m |-> m[k]] /\ DOMAIN m \subseteq Keys /\ IsFiniteSet(DOMAIN m)
      /\ \A k \in DOMAIN m : m[k] \in Entries /\ m[k].used \in Nat
  BY DEF MapOK, Entries
<1>3. ASSUME NEW k \in Keys PROVE MapBytes(m, k) \in Nat
  BY <1>2 DEF MapBytes
<1>4. ASSUME NEW k PROVE In(EachOne(pkt), k) = IF k = a /\ pkt.pdu THEN n ELSE 0
  BY DEF In, EachOne
<1> HIDE DEF a, n
<1>5. CASE ~ pkt.pdu
  <2>1. CountInto(m, pkt) = m
    BY <1>5, Zenon DEF CountInto
  <2>2. ASSUME NEW k \in Keys PROVE MapBytes(m, k) = MapBytes(m, k) + In(EachOne(pkt), k)
    BY <1>3, <1>4, <1>5
  <2> QED
    BY <2>1, <2>2, Zenon
<1>6. CASE pkt.pdu /\ a \in DOMAIN m
  <2> DEFINE c == [m EXCEPT ![a].used = @ + n]
  <2>1. CountInto(m, pkt) = c
    BY <1>6, Zenon DEF CountInto, a, n
  <2>2. /\ DOMAIN c = DOMAIN m /\ c = [k \in DOMAIN m |-> c[k]]
        /\ c[a] \in Entries /\ c[a].used = m[a].used + n
        /\ \A k \in DOMAIN m : k # a => c[k] = m[k]
    BY <1>1, <1>2, <1>6 DEF Entries
  <2> HIDE DEF c
  <2>3. MapOK(c)
    BY <1>2, <2>2, Zenon DEF MapOK
  <2>4. ASSUME NEW k \in Keys PROVE MapBytes(c, k) = MapBytes(m, k) + In(EachOne(pkt), k)
    <3>1. CASE k = a
      BY <1>4, <1>6, <2>2, <3>1 DEF MapBytes
    <3>2. CASE k # a
      <4>1. MapBytes(c, k) = MapBytes(m, k) /\ In(EachOne(pkt), k) = 0
        BY <1>4, <2>2, <3>2, Zenon DEF MapBytes
      <4> QED
        BY <1>3, <4>1
    <3> QED
      BY <3>1, <3>2, Zenon
  <2> QED
    BY <2>1, <2>3, <2>4, Zenon
<1>7. CASE pkt.pdu /\ a \notin DOMAIN m
  <2> DEFINE c == [k \in DOMAIN m \cup {a} |-> IF k = a THEN [used |-> n, old |-> FALSE] ELSE m[k]]
  <2>1. CountInto(m, pkt) = c
    BY <1>7, Zenon DEF CountInto, a, n
  <2>2. /\ DOMAIN c = DOMAIN m \cup {a} /\ c = [k \in DOMAIN c |-> c[k]]
        /\ c[a] = [used |-> n, old |-> FALSE]
        /\ \A k \in DOMAIN m : c[k] = m[k]
    BY <1>7
  <2>0. c[a] \in Entries /\ c[a].used = n
    BY <1>1, <2>2 DEF Entries
  <2> HIDE DEF c
  <2>3. IsFiniteSet(DOMAIN c)
    <3>1. IsFiniteSet(DOMAIN m \cup {a})
      BY <1>2, FS_AddElement
    <3> QED
      BY <2>2, <3>1, Zenon
  <2>4. MapOK(c)
    <3>1. DOMAIN c \subseteq Keys
      BY <1>1, <1>2, <2>2, Zenon
    <3>2. \A k \in DOMAIN c : c[k] \in Entries
      BY <1>2, <2>0, <2>2, Zenon
    <3> QED
      BY <2>2, <2>3, <3>1, <3>2, Zenon DEF MapOK
  <2>5. ASSUME NEW k \in Keys PROVE MapBytes(c, k) = MapBytes(m, k) + In(EachOne(pkt), k)
    <3>1. CASE k = a
      <4>1. MapBytes(c, k) = n /\ MapBytes(m, k) = 0 /\ In(EachOne(pkt), k) = n
        BY <1>4, <1>7, <2>0, <2>2, <3>1, Zenon DEF MapBytes
      <4> QED
        BY <1>1, <4>1
    <3>2. CASE k # a
      <4>1. MapBytes(c, k) = MapBytes(m, k) /\ In(EachOne(pkt), k) = 0
        BY <1>4, <2>2, <3>2, Zenon DEF MapBytes
      <4> QED
        BY <1>3, <4>1
    <3> QED
      BY <3>1, <3>2, Zenon
  <2> QED
    BY <2>1, <2>4, <2>5, Zenon
<1> QED
  BY <1>1, <1>5, <1>6, <1>7, Zenon

(* The loop of CountEach. *)
CountSteps(m, burst, n, f) ==
  f = [i \in 0 .. n |-> f[i]] /\ f[0] = m /\ \A i \in 1 .. n : f[i] = CountInto(f[i - 1], burst[i])

(* CountEach returns the last value of its loop. *)
LEMMA CountLoop ==
  ASSUME NEW m, NEW burst, Len(burst) \in Nat
  PROVE  \E f : CountSteps(m, burst, Len(burst), f) /\ CountEach(m, burst) = f[Len(burst)]
<1> DEFINE n == Len(burst)
           after[i \in 0 .. Len(burst)] ==
             IF i = 0 THEN m ELSE The({CountInto(x, burst[i]) : x \in {after[i - 1]}})
           Eq(h) == h = [i \in 0 .. Len(burst) |->
             IF i = 0 THEN m ELSE The({CountInto(x, burst[i]) : x \in {h[i - 1]}})]
           S == {j \in Nat : \E f : CountSteps(m, burst, j, f)}
<1>1. CountEach(m, burst) = after[Len(burst)]
  BY DEF CountEach
<1>2. after = CHOOSE h : Eq(h)
  OBVIOUS
<1>3. 0 \in S
  <2> DEFINE f == [i \in 0 .. 0 |-> m]
  <2>1. CountSteps(m, burst, 0, f)
    BY DEF CountSteps
  <2> HIDE DEF f
  <2> QED
    BY <2>1
<1>4. ASSUME NEW j \in 0 .. n - 1, j \in S PROVE j + 1 \in S
  <2>1. PICK f : CountSteps(m, burst, j, f)
    BY <1>4
  <2> DEFINE h == [i \in 0 .. j + 1 |-> IF i <= j THEN f[i] ELSE CountInto(f[j], burst[j + 1])]
  <2>2. h = [i \in 0 .. j + 1 |-> h[i]] /\ h[0] = m
    BY <2>1 DEF CountSteps
  <2>3. ASSUME NEW i \in 1 .. j + 1 PROVE h[i] = CountInto(h[i - 1], burst[i])
    <3>1. CASE i <= j
      <4>1. h[i] = f[i] /\ h[i - 1] = f[i - 1] /\ i \in 1 .. j
        BY <3>1
      <4> HIDE DEF h
      <4> QED
        BY <2>1, <4>1, Zenon DEF CountSteps
    <3>2. CASE i = j + 1
      <4>1. h[i] = CountInto(f[j], burst[j + 1]) /\ h[i - 1] = f[j]
        BY <3>2
      <4> HIDE DEF h
      <4> QED
        BY <3>2, <4>1, Zenon
    <3> QED
      BY <3>1, <3>2
  <2> HIDE DEF h
  <2>4. CountSteps(m, burst, j + 1, h)
    BY <2>2, <2>3, Zenon DEF CountSteps
  <2>5. j + 1 \in Nat
    OBVIOUS
  <2> QED
    BY <2>4, <2>5, Zenon
<1>5. PICK f : CountSteps(m, burst, n, f)
  <2> HIDE DEF S
  <2>1. \A i \in 0 .. n : i \in S
    BY <1>3, <1>4, UpTo, SMTT(30)
  <2>2. n \in S
    BY <2>1
  <2> QED
    BY <2>2, Zenon DEF S
<1>6. ASSUME NEW i, NEW h PROVE The({CountInto(x, burst[i]) : x \in {h[i - 1]}}) = CountInto(h[i - 1], burst[i])
  <2>1. {CountInto(x, burst[i]) : x \in {h[i - 1]}} = {CountInto(h[i - 1], burst[i])}
    OBVIOUS
  <2> QED
    BY <2>1, TheOnly, Zenon
<1>7. Eq(f)
  <2>1. f = [i \in 0 .. n |-> f[i]]
    BY <1>5, Zenon DEF CountSteps
  <2>2. ASSUME NEW i \in 0 .. n
        PROVE f[i] = IF i = 0 THEN m ELSE The({CountInto(x, burst[i]) : x \in {f[i - 1]}})
    <3>1. i = 0 \/ i \in 1 .. n
      OBVIOUS
    <3> QED
      BY <1>5, <1>6, <3>1, Zenon DEF CountSteps
  <2> QED
    BY <2>1, <2>2, Zenon
<1>8. Eq(after)
  <2> HIDE DEF after, Eq
  <2> QED BY <1>2, <1>7, Zenon
<1>9. CountSteps(m, burst, n, after)
  <2> HIDE DEF after
  <2>1. ASSUME NEW i \in 0 .. n
        PROVE after[i] = IF i = 0 THEN m ELSE The({CountInto(x, burst[i]) : x \in {after[i - 1]}})
    BY <1>8, Zenon
  <2>2. 0 \in 0 .. n /\ \A i \in 1 .. n : i \in 0 .. n /\ i # 0
    OBVIOUS
  <2>3. after = [i \in 0 .. n |-> after[i]]
    BY <1>8, Zenon
  <2> QED
    BY <1>6, <2>1, <2>2, <2>3, Zenon DEF CountSteps
<1> HIDE DEF after
<1> QED
  BY <1>1, <1>9, Zenon

(* What a burst counts, it adds to the maps. *)
LEMMA CountEachWeighs ==
  ASSUME NEW m, MapOK(m), NEW burst \in Seq(Packets)
  PROVE  /\ MapOK(CountEach(m, burst)) /\ Each(burst) \in Seq(Mbuf)
         /\ \A k \in Keys : MapBytes(CountEach(m, burst), k) = MapBytes(m, k) + Weight(Each(burst), Of(k))
<1>1. Len(burst) \in Nat /\ \A i \in 1 .. Len(burst) : burst[i] \in Packets
  BY ElementOfSeq
<1>2. PICK f : CountSteps(m, burst, Len(burst), f) /\ CountEach(m, burst) = f[Len(burst)]
  BY <1>1, CountLoop, Zenon
<1> DEFINE e == Each(burst)
<1>3. e = [i \in 1 .. Len(burst) |-> EachOne(burst[i])]
  BY Zenon DEF Each, EachOne
<1>4. \A i \in 1 .. Len(burst) : EachOne(burst[i]) \in Mbuf
  BY <1>1, EachIsMbuf, Zenon
<1> HIDE DEF e
<1>5. e \in Seq(Mbuf) /\ Len(e) = Len(burst) /\ \A i \in 1 .. Len(burst) : e[i] = EachOne(burst[i])
  BY <1>1, <1>3, <1>4
<1>6. ASSUME NEW i \in 1 .. Len(burst), MapOK(f[i - 1])
      PROVE  MapOK(f[i]) /\ \A k \in Keys : MapBytes(f[i], k) = MapBytes(f[i - 1], k) + In(e[i], k)
  <2>1. f[i] = CountInto(f[i - 1], burst[i]) /\ burst[i] \in Packets /\ e[i] = EachOne(burst[i])
    BY <1>1, <1>2, <1>5, Zenon DEF CountSteps
  <2> DEFINE a == f[i - 1]
             b == burst[i]
  <2>2. MapOK(a) /\ b \in Packets
    BY <1>6, <2>1, Zenon
  <2> HIDE DEF a, b
  <2>3. MapOK(CountInto(a, b)) /\ \A k \in Keys : MapBytes(CountInto(a, b), k) = MapBytes(a, k) + In(EachOne(b), k)
    BY <2>2, CountOne, Zenon
  <2> QED
    BY <2>1, <2>3, Zenon DEF a, b
<1> DEFINE S == {i \in 0 .. Len(burst) : MapOK(f[i])}
<1>7. \A i \in 0 .. Len(burst) : i \in S
  <2>1. 0 \in S
    <3>1. f[0] = m /\ 0 \in 0 .. Len(burst)
      BY <1>1, <1>2 DEF CountSteps
    <3> QED
      BY <3>1, Zenon
  <2>2. ASSUME NEW i \in 0 .. Len(burst) - 1, i \in S PROVE i + 1 \in S
    <3>1. i + 1 \in 1 .. Len(burst) /\ (i + 1) - 1 = i /\ i + 1 \in 0 .. Len(burst)
      BY <1>1
    <3> QED
      BY <1>6, <2>2, <3>1, Zenon
  <2> HIDE DEF S
  <2> QED
    BY <1>1, <2>1, <2>2, UpTo, Zenon
<1>8. \A i \in 0 .. Len(burst) : MapOK(f[i])
  BY <1>7, Zenon
<1>9. ASSUME NEW k \in Keys PROVE MapBytes(f[Len(burst)], k) = MapBytes(m, k) + Weight(e, Of(k))
  <2>1. Of(k) \in [Mbuf -> Nat] /\ \A x \in Mbuf : Of(k)[x] = In(x, k)
    BY OfWeight, Zenon
  <2> DEFINE w == Of(k)
  <2>2. w \in [Mbuf -> Nat] /\ \A i \in 1 .. Len(burst) : w[e[i]] = In(e[i], k) /\ w[e[i]] \in Nat
    <3>1. \A i \in 1 .. Len(burst) : e[i] \in Mbuf
      BY <1>4, <1>5, Zenon
    <3> QED
      BY <2>1, <3>1
  <2> HIDE DEF w
  <2>3. Image(e, w) \in Seq(Nat) /\ Len(Image(e, w)) = Len(e) /\ \A i \in 1 .. Len(e) : Image(e, w)[i] = w[e[i]]
    BY <1>5, <2>2, ImageOf, SMTT(30)
  <2>4. PICK u : Sums(Image(e, w), u) /\ Weight(e, w) = u[Len(e)]
    BY <2>3, SumLoop DEF Weight
  <2>5. MapBytes(m, k) \in Nat
    BY DEF MapOK, MapBytes, Entries
  <2> DEFINE T == {i \in 0 .. Len(burst) : MapBytes(f[i], k) = MapBytes(m, k) + u[i]}
  <2>6. 0 \in T
    <3>1. f[0] = m /\ u[0] = 0 /\ 0 \in 0 .. Len(burst)
      BY <1>1, <1>2, <2>4 DEF CountSteps, Sums
    <3>2. MapBytes(m, k) = MapBytes(m, k) + 0
      BY <2>5
    <3> QED
      BY <3>1, <3>2, Zenon
  <2>7. ASSUME NEW i \in 0 .. Len(burst) - 1, i \in T PROVE i + 1 \in T
    <3>1. i + 1 \in 1 .. Len(burst) /\ (i + 1) - 1 = i /\ i + 1 \in 0 .. Len(burst) /\ i \in 0 .. Len(burst)
      BY <1>1
    <3> DEFINE a == MapBytes(m, k)
               b == u[i]
               c == w[e[i + 1]]
    <3>2. u[i + 1] = b + c /\ b \in Nat /\ c \in Nat /\ a \in Nat
      BY <1>5, <2>2, <2>3, <2>4, <2>5, <3>1, Zenon DEF Sums
    <3>3. MapBytes(f[i], k) = a + b
      BY <2>7, Zenon
    <3>4. MapBytes(f[i + 1], k) = MapBytes(f[i], k) + c
      BY <1>6, <1>8, <2>2, <3>1, Zenon
    <3> HIDE DEF a, b, c
    <3>5. (a + b) + c = a + (b + c)
      BY <3>2
    <3>6. MapBytes(f[i + 1], k) = a + u[i + 1]
      BY <3>2, <3>3, <3>4, <3>5, Zenon
    <3> QED
      BY <3>1, <3>6, Zenon DEF a
  <2>8. Len(burst) \in T
    <3> HIDE DEF T
    <3>1. \A i \in 0 .. Len(burst) : i \in T
      BY <1>1, <2>6, <2>7, UpTo, Zenon
    <3> QED
      BY <1>1, <3>1
  <2> QED
    BY <1>5, <2>4, <2>8, Zenon DEF w
<1>10. Len(burst) \in 0 .. Len(burst)
  BY <1>1
<1> QED
  BY <1>2, <1>5, <1>8, <1>9, <1>10, Zenon DEF e

-----------------------------------------------------------------------------
(* Packed: entry j of those sent is in mbuf (j - 1) \div B + 1. *)
LEMMA DivBounds ==
  ASSUME NEW a \in Nat, NEW b \in Nat \ {0}
  PROVE  a \div b \in Nat /\ (a \div b) * b <= a /\ a < (a \div b) * b + b
OBVIOUS
(* Every entry sent has its mbuf: the number of mbufs is rounded up. *)
LEMMA DivUp ==
  ASSUME NEW a \in Nat, NEW b \in Nat \ {0}, NEW j \in 1 .. a
  PROVE  (j - 1) \div b + 1 \in 1 .. ((a + b - 1) \div b)
<1> DEFINE q == (j - 1) \div b
           r == (a + b - 1) \div b
<1>1. q \in Nat /\ q * b <= j - 1 /\ j - 1 < q * b + b
  BY DivBounds
<1>2. r \in Nat /\ r * b <= a + b - 1 /\ a + b - 1 < r * b + b
  BY DivBounds
<1> HIDE DEF q, r
<1>3. ASSUME q >= r PROVE FALSE
  <2>1. q * b >= r * b
    BY <1>1, <1>2, <1>3
  <2> QED
    BY <1>1, <1>2, <2>1
<1>4. q + 1 \in 1 .. r
  BY <1>1, <1>2, <1>3
<1> QED
  BY <1>4 DEF q, r

(* Packed puts each entry sent in one mbuf, with its bytes. *)
LEMMA PackedWeighs ==
  ASSUME NEW m, MapOK(m), NEW sent \in Seq(DOMAIN m), Injective(sent)
  PROVE  /\ Packed(m, sent) \in Seq(Mbuf)
         /\ \A k \in Keys : Weight(Packed(m, sent), Of(k)) = IF Occurs(sent, k) THEN m[k].used ELSE 0
<1> DEFINE B == TRANSFER_RING_BURST
           L == Len(sent)
           N == (L + B - 1) \div B
           At(i) == {sent[j] : j \in {j \in 1 .. L : (j - 1) \div B = i - 1}}
           P == Packed(m, sent)
<1>1. B \in Nat \ {0} /\ L \in Nat
  BY SizeAssumption
<1>2. \A j \in 1 .. L : sent[j] \in DOMAIN m
  BY ElementOfSeq
<1>3. DOMAIN m \subseteq Keys /\ \A k \in DOMAIN m : m[k].used \in Nat
  BY DEF MapOK, Entries
<1>4. P = [i \in 1 .. N |-> [k \in At(i) |-> m[k].used]]
  BY Zenon DEF Packed
<1>5. N \in Nat
  BY <1>1, DivBounds
<1>6. \A j \in 1 .. L : (j - 1) \div B + 1 \in 1 .. N
  BY <1>1, DivUp
<1>7. ASSUME NEW i PROVE At(i) \subseteq DOMAIN m
  BY <1>2
<1>8. ASSUME NEW i, NEW k PROVE k \in At(i) <=> \E j \in 1 .. L : (j - 1) \div B = i - 1 /\ sent[j] = k
  OBVIOUS
<1>9. ASSUME NEW j \in 1 .. L PROVE (j - 1) \div B \in Int
  <2>1. j - 1 \in Nat
    BY <1>1
  <2> QED
    BY <1>1, <2>1, DivBounds
<1> HIDE DEF P, At, N
<1>10. ASSUME NEW i \in 1 .. N PROVE P[i] = [k \in At(i) |-> m[k].used] /\ P[i] \in Mbuf
  <2>1. P[i] = [k \in At(i) |-> m[k].used]
    BY <1>4, Zenon
  <2>2. At(i) \in SUBSET Keys /\ [k \in At(i) |-> m[k].used] \in [At(i) -> Nat]
    BY <1>3, <1>7
  <2> QED
    BY <2>1, <2>2, Zenon DEF Mbuf
<1>11. P \in Seq(Mbuf) /\ Len(P) = N
  BY <1>4, <1>5, <1>10
<1>12. ASSUME NEW k \in Keys PROVE Weight(P, Of(k)) = IF Occurs(sent, k) THEN m[k].used ELSE 0
  <2> DEFINE r == Image(P, Of(k))
  <2>1. Of(k) \in [Mbuf -> Nat] /\ \A x \in Mbuf : Of(k)[x] = In(x, k)
    BY OfWeight, Zenon
  <2>2. r \in Seq(Nat) /\ Len(r) = N /\ \A i \in 1 .. N : r[i] = Of(k)[P[i]]
    <3>1. Image(P, Of(k)) \in Seq(Nat) /\ Len(Image(P, Of(k))) = Len(P) /\ \A i \in 1 .. Len(P) : Image(P, Of(k))[i] = Of(k)[P[i]]
      BY <1>11, <2>1, ImageOf
    <3> QED
      BY <1>11, <3>1, Zenon
  <2> HIDE DEF r
  <2>3. ASSUME NEW i \in 1 .. N PROVE r[i] = IF k \in At(i) THEN m[k].used ELSE 0
    <3>1. r[i] = In(P[i], k)
      BY <1>10, <2>1, <2>2, Zenon
    <3>2. In([q \in At(i) |-> m[q].used], k) = IF k \in At(i) THEN m[k].used ELSE 0
      BY DEF In
    <3> QED
      BY <1>10, <3>1, <3>2, Zenon
  <2>4. CASE Occurs(sent, k)
    <3>1. PICK j \in 1 .. L : sent[j] = k
      BY <2>4, Zenon DEF Occurs
    <3> DEFINE a == (j - 1) \div B + 1
    <3>2. a \in 1 .. N /\ (j - 1) \div B = a - 1
      BY <1>6, <1>9
    <3>3. ASSUME NEW i \in 1 .. N PROVE k \in At(i) <=> i = a
      <4>1. k \in At(i) <=> (j - 1) \div B = i - 1
        <5>1. ASSUME k \in At(i) PROVE (j - 1) \div B = i - 1
          <6>1. PICK j2 \in 1 .. L : (j2 - 1) \div B = i - 1 /\ sent[j2] = k
            BY <1>8, <5>1, Zenon
          <6>2. j2 = j
            BY <3>1, <6>1, Zenon DEF Injective
          <6> QED
            BY <6>1, <6>2, Zenon
        <5>2. ASSUME (j - 1) \div B = i - 1 PROVE k \in At(i)
          BY <1>8, <3>1, <5>2, Zenon
        <5> QED
          BY <5>1, <5>2, Zenon
      <4> QED
        BY <1>5, <1>9, <3>2, <4>1, SMTT(30)
    <3> HIDE DEF a
    <3>4. a \in 1 .. Len(r) /\ (\A i \in 1 .. Len(r) : i # a => r[i] = 0) /\ r[a] = m[k].used
      BY <2>2, <2>3, <3>2, <3>3, Zenon
    <3>5. SumSeq(r) = m[k].used
      BY <2>2, <3>4, SumOne, SMTT(30)
    <3> QED
      BY <2>4, <3>5, Zenon DEF Weight, r
  <2>5. CASE ~ Occurs(sent, k)
    <3>1. \A i \in 1 .. Len(r) : r[i] = 0
      BY <1>8, <2>2, <2>3, <2>5, ZenonT(30) DEF Occurs
    <3>2. SumSeq(r) = 0
      BY <2>2, <3>1, SumZero, SMTT(30)
    <3> QED
      BY <2>5, <3>2, Zenon DEF Weight, r
  <2> QED
    BY <2>4, <2>5, Zenon
<1> QED
  BY <1>11, <1>12, Zenon DEF P

-----------------------------------------------------------------------------
(* What ForwardTransfer sends: some entries of the maps, each once. *)
LEMMA LeastIs ==
  ASSUME NEW a \in Nat, NEW b \in Nat, NEW c \in Nat
  PROVE  Least({a, b, c}) \in Nat /\ Least({a, b, c}) <= a /\ Least({a, b, c}) <= b /\ Least({a, b, c}) <= c
<1> DEFINE S == {a, b, c}
<1>1. \E x \in S : \A y \in S : x <= y
  <2>1. CASE a <= b /\ a <= c
    BY <2>1
  <2>2. CASE b <= a /\ b <= c
    BY <2>2
  <2>3. CASE c <= a /\ c <= b
    BY <2>3
  <2> QED
    BY <2>1, <2>2, <2>3
<1>2. Least(S) \in S /\ \A y \in S : Least(S) <= y
  <2> HIDE DEF S
  <2> QED BY <1>1, Zenon DEF Least
<1> QED
  BY <1>2

(* What ForwardTransfer sends are keys of the map, each once; and all of   *)
(* it is erased, as DCOUNTER_LIMIT is reached before the limit on the      *)
(* mbufs.                                                                  *)
LEMMA SentIs ==
  ASSUME NEW m, MapOK(m), NEW order \in Visits(m), NEW sent, sent = Sent(m, order)
  PROVE  sent \in Seq(DOMAIN m) /\ Injective(sent) /\ Erased(sent) = sent
<1> DEFINE D == DOMAIN m
           due == Among(order, {k \in DOMAIN m : Due(m, k)})
           n == Least({Len(due), DCOUNTER_LIMIT, TRANSFER_RING_BURST * TRANSFER_RING_SZ})
<1>1. order \in Seq(D) /\ Injective(order)
  <2>1. IsFiniteSet(D) /\ Cardinality(D) \in Nat
    BY FS_CardinalityType DEF MapOK
  <2>2. order \in [1 .. Cardinality(D) -> D] /\ \A i, j \in 1 .. Cardinality(D) : i # j => order[i] # order[j]
    BY Zenon DEF Visits, Bijection, Injection, IsInjective
  <2> HIDE DEF D
  <2> QED
    BY <2>1, <2>2 DEF Injective
<1>2. sent = SubSeq(due, 1, n)
  BY Zenon DEF Sent
<1> HIDE DEF D
<1>3. due \in Seq(D) /\ AtMostOnce(due, D)
  BY <1>1, AmongOnce, Zenon
<1> HIDE DEF due
<1>4. /\ Len(due) \in Nat /\ DCOUNTER_LIMIT \in Nat /\ TRANSFER_RING_BURST * TRANSFER_RING_SZ \in Nat
      /\ DCOUNTER_LIMIT < TRANSFER_RING_BURST * TRANSFER_RING_SZ
  BY <1>3, SizeAssumption, LimitAssumption
<1>5. n \in Nat /\ n <= Len(due) /\ n <= DCOUNTER_LIMIT
  BY <1>4, LeastIs, Zenon
<1> HIDE DEF n
<1>6. n \in 0 .. Len(due) /\ n # TRANSFER_RING_BURST * TRANSFER_RING_SZ
  BY <1>4, <1>5
<1>7. sent \in Seq(D) /\ Len(sent) = n /\ AtMostOnce(sent, D)
  BY <1>2, <1>3, <1>6, PrefixOnce, Zenon
<1>8. Injective(sent)
  BY <1>7, CountTwice, Zenon
<1>9. Erased(sent) = sent
  BY <1>6, <1>7, Zenon DEF Erased
<1> QED
  BY <1>7, <1>8, <1>9, Zenon DEF D

-----------------------------------------------------------------------------
(* The books. *)
CountInv ==
  /\ MapOK(maps)
  /\ output \in Seq(Mbuf) /\ ring \in Seq(Mbuf) /\ output2 \in Seq(Mbuf) /\ ringInt \in Seq(Mbuf)
  /\ counted \in [Keys -> Nat] /\ stored \in [Keys -> Nat] /\ lost \in [Keys -> Nat]

Open(m, o, r, p, q) == Sum([k \in Keys |-> MapBytes(m, k)], BytesIn(o \o r \o p \o q))
OpenSum(m, o, r, p, q, k) ==
  MapBytes(m, k) + (Weight(o, Of(k)) + Weight(r, Of(k)) + Weight(p, Of(k)) + Weight(q, Of(k)))
Opens(m, o, r, p, q) ==
  MapOK(m) /\ o \in Seq(Mbuf) /\ r \in Seq(Mbuf) /\ p \in Seq(Mbuf) /\ q \in Seq(Mbuf)

(* The bytes of a key in the maps are a number. *)
LEMMA MapNat ==
  ASSUME NEW m, MapOK(m), NEW k \in Keys
  PROVE  MapBytes(m, k) \in Nat
BY DEF MapOK, MapBytes, Entries

(* What is open, as a sum of weights. *)
LEMMA OpenIs ==
  ASSUME NEW m, NEW o, NEW r, NEW p, NEW q, Opens(m, o, r, p, q), NEW k \in Keys
  PROVE  /\ Open(m, o, r, p, q)[k] = OpenSum(m, o, r, p, q, k)
         /\ MapBytes(m, k) \in Nat /\ Weight(o, Of(k)) \in Nat /\ Weight(r, Of(k)) \in Nat
         /\ Weight(p, Of(k)) \in Nat /\ Weight(q, Of(k)) \in Nat
<1>1. MapOK(m) /\ o \in Seq(Mbuf) /\ r \in Seq(Mbuf) /\ p \in Seq(Mbuf) /\ q \in Seq(Mbuf)
  BY Zenon DEF Opens
<1> DEFINE w == Of(k)
           a == o \o r
           b == a \o p
<1>2. w \in [Mbuf -> Nat]
  BY OfWeight, Zenon
<1>3. a \in Seq(Mbuf) /\ b \in Seq(Mbuf) /\ b \o q \in Seq(Mbuf)
  BY <1>1
<1>4. BytesIn(b \o q)[k] = Weight(b \o q, w)
  BY <1>3, BytesWeigh, Zenon
<1>5. Open(m, o, r, p, q)[k] = MapBytes(m, k) + BytesIn(b \o q)[k]
  BY Zenon DEF Open, Sum
<1> HIDE DEF w
<1>6. Weight(a, w) = Weight(o, w) + Weight(r, w)
  BY <1>1, <1>2, WeightConcat, Zenon
<1> HIDE DEF a
<1>7. Weight(b, w) = Weight(a, w) + Weight(p, w)
  BY <1>1, <1>2, <1>3, WeightConcat, Zenon
<1> HIDE DEF b
<1>8. Weight(b \o q, w) = Weight(b, w) + Weight(q, w)
  BY <1>1, <1>2, <1>3, WeightConcat, Zenon
<1>9. MapBytes(m, k) \in Nat
  BY <1>1, MapNat, Zenon
<1>10. Weight(o, w) \in Nat /\ Weight(r, w) \in Nat /\ Weight(p, w) \in Nat /\ Weight(q, w) \in Nat
  BY <1>1, <1>2, WeightNat, Zenon
<1> QED
  BY <1>4, <1>5, <1>6, <1>7, <1>8, <1>9, <1>10, Zenon DEF OpenSum, w

(* OnTheWay is what is open, before a step and after it. *)
LEMMA OpenNow ==
  /\ OnTheWay = Open(maps, output, ring, output2, ringInt)
  /\ OnTheWay' = Open(maps', output', ring', output2', ringInt')
<1>1. OnTheWay = Open(maps, output, ring, output2, ringInt)
  BY Zenon DEF OnTheWay, Open, InMaps, MapBytes
<1>2. OnTheWay' = Open(maps', output', ring', output2', ringInt')
  BY Zenon DEF OnTheWay, Open, InMaps, MapBytes, Sum, BytesIn, In, SumSeq
<1> QED
  BY <1>1, <1>2, Zenon

(* c counted, s stored and z given up in a step, for the subscriber k. *)
Moves(k, c, s, z) ==
  /\ c \in Nat /\ s \in Nat /\ z \in Nat
  /\ counted'[k] = counted[k] + c /\ stored'[k] = stored[k] + s /\ lost'[k] = lost[k] + z
  /\ OpenSum(maps', output', ring', output2', ringInt', k) + s + z
       = OpenSum(maps, output, ring, output2, ringInt, k) + c

(* A step that moves bytes so is a step of Ledger. *)
LEMMA BooksStep ==
  ASSUME CountInv, CountInv', \A k \in Keys : \E c, s, z : Moves(k, c, s, z),
         stored' = stored \/ counted' = counted
  PROVE  Books!Charge \/ Books!Settle
<1>1. Opens(maps, output, ring, output2, ringInt) /\ Opens(maps', output', ring', output2', ringInt')
  BY Zenon DEF CountInv, Opens, MapOK
<1>2. ASSUME NEW k \in Keys
      PROVE  /\ counted[k] <= counted'[k] /\ stored[k] <= stored'[k] /\ lost[k] <= lost'[k]
             /\ OnTheWay'[k] >= 0
             /\ OnTheWay'[k] - OnTheWay[k] =
                  (counted'[k] - counted[k]) - (stored'[k] - stored[k]) - (lost'[k] - lost[k])
  <2> DEFINE a == OpenSum(maps, output, ring, output2, ringInt, k)
             b == OpenSum(maps', output', ring', output2', ringInt', k)
             e == counted[k]
             f == stored[k]
             g == lost[k]
  <2>1. PICK c, s, z : Moves(k, c, s, z)
    BY Zenon
  <2>2. OnTheWay[k] = a /\ OnTheWay'[k] = b
    BY <1>1, OpenNow, OpenIs, SMTT(30)
  <2>3. a \in Nat
    BY <1>1, OpenIs, SMTT(30) DEF OpenSum
  <2>4. b \in Nat
    BY <1>1, OpenIs DEF OpenSum
  <2>5. e \in Nat /\ f \in Nat /\ g \in Nat
    BY DEF CountInv
  <2>6. /\ c \in Nat /\ s \in Nat /\ z \in Nat /\ counted'[k] = e + c /\ stored'[k] = f + s /\ lost'[k] = g + z
        /\ b + s + z = a + c
    BY <2>1, Zenon DEF Moves
  <2> HIDE DEF a, b, e, f, g
  <2>7. /\ e <= e + c /\ f <= f + s /\ g <= g + z /\ b >= 0
        /\ b - a = ((e + c) - e) - ((f + s) - f) - ((g + z) - g)
    BY <2>3, <2>4, <2>5, <2>6, SMTT(30)
  <2> QED
    BY <2>2, <2>6, <2>7, Zenon DEF e, f, g
<1>3. Books!Balanced /\ Books!Grows(counted, counted') /\ Books!Grows(stored, stored') /\ Books!Grows(lost, lost')
  BY <1>2, Zenon DEF Books!Balanced, Books!Grows
<1> QED
  BY <1>3, Zenon DEF Books!Charge, Books!Settle

(* What is added to an account. *)
LEMMA SumMore ==
  ASSUME NEW g \in [Keys -> Nat], NEW s \in Seq(Mbuf)
  PROVE  /\ Sum(g, BytesIn(s)) \in [Keys -> Nat]
         /\ \A k \in Keys : Sum(g, BytesIn(s))[k] = g[k] + Weight(s, Of(k)) /\ Weight(s, Of(k)) \in Nat
<1>1. ASSUME NEW k \in Keys PROVE BytesIn(s)[k] = Weight(s, Of(k)) /\ Weight(s, Of(k)) \in Nat
  BY BytesWeigh, Zenon
<1>2. Sum(g, BytesIn(s)) = [k \in Keys |-> g[k] + BytesIn(s)[k]]
  BY Zenon DEF Sum
<1>3. ASSUME NEW k \in Keys PROVE g[k] + BytesIn(s)[k] \in Nat
  BY <1>1
<1> QED
  BY <1>1, <1>2, <1>3, Zenon

(* Nothing moves. *)
LEMMA BooksIdle ==
  ASSUME CountInv, UNCHANGED <<output, ring, output2, ringInt, counted, stored, lost>>, MapOK(maps'),
         \A k \in Keys : MapBytes(maps', k) = MapBytes(maps, k)
  PROVE  CountInv' /\ (Books!Charge \/ Books!Settle)
<1>1. /\ output' = output /\ ring' = ring /\ output2' = output2 /\ ringInt' = ringInt
      /\ counted' = counted /\ stored' = stored /\ lost' = lost
  OBVIOUS
<1>2. CountInv'
  BY <1>1, Zenon DEF CountInv, MapOK
<1>3. ASSUME NEW k \in Keys PROVE Moves(k, 0, 0, 0)
  <2>1. Opens(maps, output, ring, output2, ringInt)
    BY Zenon DEF CountInv, Opens
  <2>2. OpenSum(maps, output, ring, output2, ringInt, k) \in Nat
    BY <2>1, OpenIs DEF OpenSum
  <2>3. OpenSum(maps', output', ring', output2', ringInt', k) = OpenSum(maps, output, ring, output2, ringInt, k)
    BY <1>1, Zenon DEF OpenSum
  <2>4. counted[k] \in Nat /\ stored[k] \in Nat /\ lost[k] \in Nat
    BY DEF CountInv
  <2> QED
    BY <1>1, <2>2, <2>3, <2>4, PlusZero, Zenon DEF Moves
<1>4. \A k \in Keys : \E c, s, z : Moves(k, c, s, z)
  BY <1>3, Zenon
<1> QED
  BY <1>1, <1>2, <1>4, BooksStep, ZenonT(30)

(* Age leaves every sum as it is. *)
LEMMA BooksAge ==
  ASSUME CountInv, Age
  PROVE  CountInv' /\ (Books!Charge \/ Books!Settle)
<1>1. /\ UNCHANGED <<output, ring, output2, ringInt, counted, stored, lost>>
      /\ maps' = [k \in DOMAIN maps |-> [maps[k] EXCEPT !.old = TRUE]]
  BY DEF Age
<1>2. DOMAIN maps \subseteq Keys /\ IsFiniteSet(DOMAIN maps) /\ \A k \in DOMAIN maps : maps[k] \in Entries
  BY DEF CountInv, MapOK
<1>3. DOMAIN maps' = DOMAIN maps /\ maps' = [k \in DOMAIN maps' |-> maps'[k]]
  BY <1>1
<1>4. ASSUME NEW k \in DOMAIN maps PROVE maps'[k] \in Entries /\ maps'[k].used = maps[k].used
  BY <1>1, <1>2, Zenon DEF Entries
<1>5. MapOK(maps')
  BY <1>2, <1>3, <1>4, Zenon DEF MapOK
<1>6. \A k \in Keys : MapBytes(maps', k) = MapBytes(maps, k)
  BY <1>3, <1>4, Zenon DEF MapBytes
<1> QED
  BY <1>1, <1>5, <1>6, BooksIdle, Zenon

(* The second core takes its burst from the ring, or flushes. *)
LEMMA BooksPass ==
  ASSUME CountInv, UNCHANGED <<maps, output, counted, stored>>, NEW ms, NEW f,
         Sending(Mbuf, output2, ringInt, ms, output2', ringInt', f), lost' = Sum(lost, BytesIn(f)),
         ring' \in Seq(Mbuf), \A w \in [Mbuf -> Nat] : Weight(ring, w) = Weight(ms, w) + Weight(ring', w)
  PROVE  CountInv' /\ (Books!Charge \/ Books!Settle)
<1>1. maps' = maps /\ output' = output /\ counted' = counted /\ stored' = stored
  OBVIOUS
<1>2. ASSUME NEW w \in [Mbuf -> Nat]
      PROVE  /\ output2' \in Seq(Mbuf) /\ ringInt' \in Seq(Mbuf) /\ f \in Seq(Mbuf) /\ ms \in Seq(Mbuf)
             /\ Weight(output2', w) \in Nat /\ Weight(ringInt', w) \in Nat /\ Weight(f, w) \in Nat
             /\ Weight(output2', w) + Weight(ringInt', w) + Weight(f, w)
                  = Weight(output2, w) + Weight(ringInt, w) + Weight(ms, w)
  <2>1. ms \in Seq(Mbuf)
    BY Zenon DEF Sending
  <2> QED
    BY <2>1, SendsWeighs
<1>3. output2' \in Seq(Mbuf) /\ ringInt' \in Seq(Mbuf) /\ f \in Seq(Mbuf) /\ ms \in Seq(Mbuf)
  BY <1>2, OfWeight, Zenon
<1>4. lost \in [Keys -> Nat] /\ lost' \in [Keys -> Nat]
  <2>1. lost \in [Keys -> Nat]
    BY Zenon DEF CountInv
  <2> QED
    BY <1>3, <2>1, SumMore, Zenon
<1>5. CountInv'
  BY <1>1, <1>3, <1>4, Zenon DEF CountInv, MapOK
<1>6. ASSUME NEW k \in Keys PROVE Moves(k, 0, 0, Weight(f, Of(k)))
  <2>1. Of(k) \in [Mbuf -> Nat]
    BY OfWeight, Zenon
  <2>2. lost'[k] = lost[k] + Weight(f, Of(k))
    BY <1>3, <1>4, SumMore, Zenon
  <2>3. Opens(maps, output, ring, output2, ringInt)
    BY Zenon DEF CountInv, Opens
  <2> DEFINE w == Of(k)
             m == MapBytes(maps, k)
             o == Weight(output, w)
             r == Weight(ring, w)
             p == Weight(output2, w)
             q == Weight(ringInt, w)
             r2 == Weight(ring', w)
             p2 == Weight(output2', w)
             q2 == Weight(ringInt', w)
             x == Weight(ms, w)
             y == Weight(f, w)
  <2>4. m \in Nat /\ o \in Nat /\ r \in Nat /\ p \in Nat /\ q \in Nat
    BY <2>3, OpenIs
  <2>5. r2 \in Nat /\ x \in Nat /\ r = x + r2
    BY <1>3, <2>1, WeightNat, Zenon
  <2>6. p2 \in Nat /\ q2 \in Nat /\ y \in Nat /\ p2 + q2 + y = p + q + x
    BY <1>2, <2>1, ZenonT(30)
  <2>7. counted[k] \in Nat /\ stored[k] \in Nat /\ lost[k] \in Nat
    BY DEF CountInv
  <2> HIDE DEF w, m, o, r, p, q, r2, p2, q2, x, y
  <2>8. (m + (o + r2 + p2 + q2)) + 0 + y = (m + (o + r + p + q)) + 0
    BY <2>4, <2>5, <2>6
  <2>9. counted[k] + 0 = counted[k] /\ stored[k] + 0 = stored[k]
    BY <2>7, PlusZero, Zenon
  <2>10. 0 \in Nat
    OBVIOUS
  <2> QED
    BY <1>1, <2>2, <2>6, <2>8, <2>9, <2>10, Zenon DEF Moves, OpenSum, w, m, o, r, p, q, r2, p2, q2, x, y
<1>7. \A k \in Keys : \E c, s, z : Moves(k, c, s, z)
  BY <1>6, Zenon
<1> QED
  BY <1>1, <1>5, <1>7, BooksStep, Zenon

(* The cycle of the second core. *)
LEMMA BooksLog ==
  ASSUME CountInv, LogCycle
  PROVE  CountInv' /\ (Books!Charge \/ Books!Settle)
<1> DEFINE l == SendEach(Link(output2, ringInt, <<>>), Burst(ring))
           f == l.freed
<1>1. /\ UNCHANGED <<maps, output, counted, stored>> /\ ring' = Rest(ring)
      /\ output2' = l.out /\ ringInt' = l.to /\ lost' = Sum(lost, BytesIn(f))
  BY Zenon DEF LogCycle
<1>2. output2 \in Seq(Mbuf) /\ ringInt \in Seq(Mbuf) /\ ring \in Seq(Mbuf)
  BY Zenon DEF CountInv
<1>3. ASSUME NEW w \in [Mbuf -> Nat]
      PROVE  /\ Burst(ring) \in Seq(Mbuf) /\ Rest(ring) \in Seq(Mbuf)
             /\ Weight(ring, w) = Weight(Burst(ring), w) + Weight(Rest(ring), w)
  BY <1>2, BurstRest, Zenon
<1>4. Burst(ring) \in Seq(Mbuf) /\ Rest(ring) \in Seq(Mbuf)
  BY <1>3, OfWeight, Zenon
<1>5. Sending(Mbuf, output2, ringInt, Burst(ring), output2', ringInt', f)
  BY <1>1, <1>2, <1>4, Zenon DEF Sending
<1>6. ring' \in Seq(Mbuf) /\ \A w \in [Mbuf -> Nat] : Weight(ring, w) = Weight(Burst(ring), w) + Weight(ring', w)
  BY <1>1, <1>3, <1>4, ZenonT(30)
<1> HIDE DEF f
<1> QED
  BY <1>1, <1>5, <1>6, BooksPass, SMTT(30)

(* Its flush. *)
LEMMA BooksLogFlush ==
  ASSUME CountInv, LogFlush
  PROVE  CountInv' /\ (Books!Charge \/ Books!Settle)
<1> DEFINE l == BurstFlush(Link(output2, ringInt, <<>>))
           f == l.freed
<1>1. /\ UNCHANGED <<maps, output, counted, stored>> /\ ring' = ring
      /\ output2' = l.out /\ ringInt' = l.to /\ lost' = Sum(lost, BytesIn(f))
  BY Zenon DEF LogFlush
<1>2. output2 \in Seq(Mbuf) /\ ringInt \in Seq(Mbuf) /\ ring \in Seq(Mbuf)
  BY Zenon DEF CountInv
<1>3. <<>> \in Seq(Mbuf)
  OBVIOUS
<1>5. Sending(Mbuf, output2, ringInt, <<>>, output2', ringInt', f)
  BY <1>1, <1>2, <1>3, ZenonT(30) DEF Sending
<1>6. ASSUME NEW w \in [Mbuf -> Nat] PROVE Weight(ring, w) = Weight(<<>>, w) + Weight(ring, w)
  <2>1. Weight(<<>>, w) = 0 /\ Weight(ring, w) \in Nat
    BY <1>2, WeightEmpty, WeightNat, Zenon
  <2> QED
    BY <2>1
<1>7. ring' \in Seq(Mbuf) /\ \A w \in [Mbuf -> Nat] : Weight(ring, w) = Weight(<<>>, w) + Weight(ring', w)
  BY <1>1, <1>2, <1>6, Zenon
<1> HIDE DEF f
<1> QED
  BY <1>1, <1>5, <1>7, BooksPass, SMTT(30)

(* The virtual core takes its burst, stores a part of it and loses the     *)
(* rest.                                                                   *)
Settles(a, b) ==
  /\ UNCHANGED <<maps, output, ring, output2, counted>> /\ ringInt' = Rest(ringInt)
  /\ stored' \in [Keys -> Nat] /\ lost' \in [Keys -> Nat]
  /\ \A k \in Keys : /\ a[k] \in Nat /\ b[k] \in Nat /\ a[k] + b[k] = Weight(Burst(ringInt), Of(k))
                     /\ stored'[k] = stored[k] + a[k] /\ lost'[k] = lost[k] + b[k]

(* Such a step settles what it takes. *)
LEMMA BooksSettle ==
  ASSUME CountInv, NEW a, NEW b, Settles(a, b)
  PROVE  CountInv' /\ (Books!Charge \/ Books!Settle)
<1>1. /\ maps' = maps /\ output' = output /\ ring' = ring /\ output2' = output2 /\ counted' = counted
      /\ ringInt' = Rest(ringInt) /\ stored' \in [Keys -> Nat] /\ lost' \in [Keys -> Nat]
  BY DEF Settles
<1>2. ringInt \in Seq(Mbuf)
  BY Zenon DEF CountInv
<1>3. ASSUME NEW w \in [Mbuf -> Nat]
      PROVE  /\ Burst(ringInt) \in Seq(Mbuf) /\ Rest(ringInt) \in Seq(Mbuf)
             /\ Weight(ringInt, w) = Weight(Burst(ringInt), w) + Weight(Rest(ringInt), w)
  BY <1>2, BurstRest, Zenon
<1>4. ringInt' \in Seq(Mbuf)
  BY <1>1, <1>3, OfWeight, Zenon
<1>5. CountInv'
  BY <1>1, <1>4, Zenon DEF CountInv, MapOK
<1>6. ASSUME NEW k \in Keys PROVE Moves(k, 0, a[k], b[k])
  <2>1. Of(k) \in [Mbuf -> Nat]
    BY OfWeight, Zenon
  <2>2. Opens(maps, output, ring, output2, ringInt)
    BY Zenon DEF CountInv, Opens
  <2> DEFINE w == Of(k)
             m == MapBytes(maps, k)
             o == Weight(output, w)
             r == Weight(ring, w)
             p == Weight(output2, w)
             q == Weight(ringInt, w)
             q2 == Weight(ringInt', w)
             x == Weight(Burst(ringInt), w)
             y == a[k]
             z == b[k]
  <2>3. m \in Nat /\ o \in Nat /\ r \in Nat /\ p \in Nat /\ q \in Nat
    BY <2>2, OpenIs
  <2>4. y \in Nat /\ z \in Nat /\ y + z = x /\ stored'[k] = stored[k] + y /\ lost'[k] = lost[k] + z
    BY Zenon DEF Settles
  <2>5. q2 \in Nat
    BY <1>4, <2>1, WeightNat, Zenon
  <2>6. q = x + q2
    BY <1>1, <1>3, <2>1, ZenonT(30)
  <2>7. counted[k] \in Nat
    BY DEF CountInv
  <2> HIDE DEF w, m, o, r, p, q, q2, x, y, z
  <2>8. (m + (o + r + p + q2)) + y + z = (m + (o + r + p + q)) + 0
    BY <2>3, <2>4, <2>5, <2>6, SMTT(30)
  <2>9. counted[k] + 0 = counted[k] /\ 0 \in Nat
    BY <2>7
  <2> QED
    BY <1>1, <2>4, <2>8, <2>9, Zenon DEF Moves, OpenSum, w, m, o, r, p, q, q2, x, y, z
<1>7. \A k \in Keys : \E c, s, z : Moves(k, c, s, z)
  BY <1>6, Zenon
<1> QED
  BY <1>1, <1>5, <1>7, BooksStep, Zenon

(* The INSERT of the log worker stores the whole burst or loses it. *)
LEMMA BooksLogVirtual ==
  ASSUME CountInv, LogVirtualCycle
  PROVE  CountInv' /\ (Books!Charge \/ Books!Settle)
<1> DEFINE s == Burst(ringInt)
           none == [k \in Keys |-> 0]
           all == [k \in Keys |-> Weight(s, Of(k))]
<1>1. /\ UNCHANGED <<maps, output, ring, output2, counted>> /\ ringInt' = Rest(ringInt)
      /\ \/ stored' = Sum(stored, BytesIn(s)) /\ lost' = lost
         \/ lost' = Sum(lost, BytesIn(s)) /\ stored' = stored
  BY Zenon DEF LogVirtualCycle
<1>2. ringInt \in Seq(Mbuf) /\ stored \in [Keys -> Nat] /\ lost \in [Keys -> Nat]
  BY Zenon DEF CountInv
<1>3. s \in Seq(Mbuf)
  BY <1>2, BurstRest, OfWeight, ZenonT(30)
<1>4. ASSUME NEW g \in [Keys -> Nat]
      PROVE  /\ Sum(g, BytesIn(s)) \in [Keys -> Nat]
             /\ \A k \in Keys : Sum(g, BytesIn(s))[k] = g[k] + Weight(s, Of(k)) /\ Weight(s, Of(k)) \in Nat
  BY <1>3, SumMore, Zenon
<1>5. \A k \in Keys : stored[k] \in Nat /\ lost[k] \in Nat /\ none[k] = 0 /\ all[k] = Weight(s, Of(k)) /\ all[k] \in Nat
  BY <1>2, <1>4, Zenon
<1>6. \A k \in Keys : stored[k] + 0 = stored[k] /\ lost[k] + 0 = lost[k] /\ all[k] + 0 = all[k] /\ 0 + all[k] = all[k]
  BY <1>5, PlusZero, Zenon
<1>7. 0 \in Nat
  OBVIOUS
<1> HIDE DEF none, all
<1>8. CASE stored' = Sum(stored, BytesIn(s)) /\ lost' = lost
  <2>1. Settles(all, none)
    BY <1>1, <1>2, <1>4, <1>5, <1>6, <1>7, <1>8, Zenon DEF Settles
  <2> QED
    BY <2>1, BooksSettle, Zenon
<1>9. CASE lost' = Sum(lost, BytesIn(s)) /\ stored' = stored
  <2>1. Settles(none, all)
    BY <1>1, <1>2, <1>4, <1>5, <1>6, <1>7, <1>9, Zenon DEF Settles
  <2> QED
    BY <2>1, BooksSettle, ZenonT(30)
<1> QED
  BY <1>1, <1>8, <1>9, Zenon

(* The transfer worker stores some mbufs of the burst and loses the        *)
(* others.                                                                 *)
LEMMA BooksTransfer ==
  ASSUME CountInv, TransferVirtualCycle
  PROVE  CountInv' /\ (Books!Charge \/ Books!Settle)
<1> DEFINE s == Burst(ringInt)
           n == Len(s)
           Only(kept) == [i \in 1 .. Len(s) |-> IF i \in kept THEN s[i] ELSE <<>>]
<1>1. PICK sent : /\ stored' = Sum(stored, BytesIn(Only(sent))) /\ lost' = Sum(lost, BytesIn(Only(1 .. n \ sent)))
                  /\ UNCHANGED <<maps, output, ring, output2, counted>> /\ ringInt' = Rest(ringInt)
  BY Zenon DEF TransferVirtualCycle
<1>2. ringInt \in Seq(Mbuf) /\ stored \in [Keys -> Nat] /\ lost \in [Keys -> Nat]
  BY Zenon DEF CountInv
<1>3. s \in Seq(Mbuf) /\ n \in Nat /\ \A i \in 1 .. n : s[i] \in Mbuf
  <2>1. s \in Seq(Mbuf)
    BY <1>2, BurstRest, OfWeight, Zenon
  <2> HIDE DEF s
  <2> QED
    BY <2>1, ElementOfSeq, SMTT(30)
<1>4. <<>> \in Mbuf /\ \A k : In(<<>>, k) = 0
  <2>1. DOMAIN <<>> = {}
    OBVIOUS
  <2>2. <<>> \in [{} -> Nat] /\ {} \in SUBSET Keys
    OBVIOUS
  <2> QED
    BY <2>1, <2>2, Zenon DEF Mbuf, In
<1> HIDE DEF s
<1>5. ASSUME NEW kept
      PROVE  /\ Only(kept) \in Seq(Mbuf) /\ Len(Only(kept)) = n
             /\ \A i \in 1 .. n : Only(kept)[i] = IF i \in kept THEN s[i] ELSE <<>>
  <2>1. \A i \in 1 .. n : (IF i \in kept THEN s[i] ELSE <<>>) \in Mbuf
    BY <1>3, <1>4, Zenon
  <2> QED
    BY <1>3, <2>1
<1> DEFINE u == Only(sent)
           v == Only(1 .. n \ sent)
           a == [k \in Keys |-> Weight(u, Of(k))]
           b == [k \in Keys |-> Weight(v, Of(k))]
<1>6. /\ u \in Seq(Mbuf) /\ Len(u) = n /\ v \in Seq(Mbuf) /\ Len(v) = n
      /\ \A i \in 1 .. n : (u[i] = s[i] /\ v[i] = <<>>) \/ (u[i] = <<>> /\ v[i] = s[i])
  BY <1>5, Zenon
<1>7. stored' = Sum(stored, BytesIn(u)) /\ lost' = Sum(lost, BytesIn(v))
  BY <1>1, Zenon
<1> HIDE DEF u, v, n
<1>8. ASSUME NEW k \in Keys PROVE Weight(s, Of(k)) = Weight(u, Of(k)) + Weight(v, Of(k))
  <2> DEFINE w == Of(k)
             x == Image(u, w)
             y == Image(v, w)
             z == Image(s, w)
  <2>1. w \in [Mbuf -> Nat] /\ w[<<>>] = 0 /\ \A i \in 1 .. n : w[s[i]] \in Nat
    <3>1. w \in [Mbuf -> Nat] /\ \A m \in Mbuf : w[m] = In(m, k)
      BY OfWeight, Zenon
    <3> HIDE DEF w
    <3>2. w[<<>>] = 0
      BY <1>4, <3>1, ZenonT(30)
    <3>3. ASSUME NEW i \in 1 .. n PROVE w[s[i]] \in Nat
      BY <1>3, <3>1
    <3> QED
      BY <3>1, <3>2, <3>3, Zenon
  <2> HIDE DEF w
  <2>2. Len(s) = n
    BY Zenon DEF n
  <2>3. x \in Seq(Nat) /\ Len(x) = n /\ \A i \in 1 .. n : x[i] = w[u[i]]
    BY <1>6, <2>1, ImageOf, SMTT(30)
  <2>4. y \in Seq(Nat) /\ Len(y) = n /\ \A i \in 1 .. n : y[i] = w[v[i]]
    BY <1>6, <2>1, ImageOf, SMTT(30)
  <2>5. z \in Seq(Nat) /\ Len(z) = n /\ \A i \in 1 .. n : z[i] = w[s[i]]
    <3>1. s \in Seq(Mbuf) /\ w \in [Mbuf -> Nat]
      BY <1>3, <2>1, Zenon
    <3>2. /\ Image(s, w) \in Seq(Nat) /\ Len(Image(s, w)) = Len(s)
          /\ \A i \in 1 .. Len(s) : Image(s, w)[i] = w[s[i]]
      BY <3>1, ImageOf, SMTT(30)
    <3> QED
      BY <2>2, <3>2, Zenon
  <2> HIDE DEF x, y, z
  <2>6. ASSUME NEW i \in 1 .. n PROVE z[i] = x[i] + y[i]
    <3>1. z[i] \in Nat /\ z[i] = w[s[i]]
      BY <2>1, <2>5, Zenon
    <3>2. (x[i] = z[i] /\ y[i] = 0) \/ (x[i] = 0 /\ y[i] = z[i])
      BY <1>6, <2>1, <2>3, <2>4, <3>1, Zenon
    <3> QED
      BY <3>1, <3>2
  <2>7. Aside(x, y, z)
    BY <2>3, <2>4, <2>5, <2>6, Zenon DEF Aside
  <2>8. SumSeq(z) = SumSeq(x) + SumSeq(y)
    BY <2>3, <2>4, <2>5, <2>7, SumSides, Zenon
  <2> QED
    BY <2>8, Zenon DEF Weight, x, y, z, w
<1>9. ASSUME NEW g \in [Keys -> Nat], NEW t \in Seq(Mbuf)
      PROVE  /\ Sum(g, BytesIn(t)) \in [Keys -> Nat]
             /\ \A k \in Keys : Sum(g, BytesIn(t))[k] = g[k] + Weight(t, Of(k)) /\ Weight(t, Of(k)) \in Nat
  BY SumMore, Zenon
<1>10. \A k \in Keys : /\ a[k] = Weight(u, Of(k)) /\ b[k] = Weight(v, Of(k))
                       /\ stored'[k] = stored[k] + a[k] /\ lost'[k] = lost[k] + b[k] /\ a[k] \in Nat /\ b[k] \in Nat
  <2>1. \A k \in Keys : a[k] = Weight(u, Of(k)) /\ b[k] = Weight(v, Of(k))
    OBVIOUS
  <2>2. \A k \in Keys : stored'[k] = stored[k] + Weight(u, Of(k)) /\ Weight(u, Of(k)) \in Nat
    BY <1>2, <1>6, <1>7, <1>9, Zenon
  <2>3. \A k \in Keys : lost'[k] = lost[k] + Weight(v, Of(k)) /\ Weight(v, Of(k)) \in Nat
    BY <1>2, <1>6, <1>7, <1>9, Zenon
  <2> HIDE DEF a, b
  <2> QED
    BY <2>1, <2>2, <2>3, Zenon
<1>11. stored' \in [Keys -> Nat] /\ lost' \in [Keys -> Nat]
  BY <1>2, <1>6, <1>7, <1>9, Zenon
<1> HIDE DEF a, b
<1>12. Settles(a, b)
  BY <1>1, <1>8, <1>10, <1>11, Zenon DEF Settles, s
<1> QED
  BY <1>12, BooksSettle, Zenon

-----------------------------------------------------------------------------
(* ForwardTransfer: what it sends it erases. *)
LEMMA ForwardMoves ==
  ASSUME NEW m, MapOK(m), NEW sent \in Seq(DOMAIN m), Injective(sent), NEW n,
         n = [k \in DOMAIN m \ Range(sent) |-> m[k]]
  PROVE  /\ MapOK(n) /\ Packed(m, sent) \in Seq(Mbuf)
         /\ \A k \in Keys : MapBytes(m, k) = MapBytes(n, k) + Weight(Packed(m, sent), Of(k))
<1>1. /\ DOMAIN m \subseteq Keys /\ IsFiniteSet(DOMAIN m)
      /\ \A k \in DOMAIN m : m[k] \in Entries /\ m[k].used \in Nat
  BY DEF MapOK, Entries
<1>2. /\ Packed(m, sent) \in Seq(Mbuf)
      /\ \A k \in Keys : Weight(Packed(m, sent), Of(k)) = IF Occurs(sent, k) THEN m[k].used ELSE 0
  BY PackedWeighs, Zenon
<1>3. \A k : k \in Range(sent) <=> Occurs(sent, k)
  BY DEF Range, Occurs
<1>4. \A k : Occurs(sent, k) => k \in DOMAIN m
  <2>1. \A i \in 1 .. Len(sent) : sent[i] \in DOMAIN m
    BY ElementOfSeq
  <2> QED
    BY <2>1, Zenon DEF Occurs
<1>5. /\ DOMAIN n = DOMAIN m \ Range(sent) /\ n = [k \in DOMAIN n |-> n[k]]
      /\ \A k \in DOMAIN n : n[k] = m[k]
  OBVIOUS
<1>6. IsFiniteSet(DOMAIN n)
  <2>1. DOMAIN n \subseteq DOMAIN m
    BY <1>5, Zenon
  <2> QED
    BY <1>1, <2>1, FS_Subset, Zenon
<1>7. MapOK(n)
  BY <1>1, <1>5, <1>6, Zenon DEF MapOK
<1>8. ASSUME NEW k \in Keys PROVE MapBytes(m, k) = MapBytes(n, k) + Weight(Packed(m, sent), Of(k))
  <2>1. CASE Occurs(sent, k)
    <3>1. k \in DOMAIN m /\ k \notin DOMAIN n
      BY <1>3, <1>4, <1>5, <2>1, Zenon
    <3>2. MapBytes(m, k) = m[k].used /\ MapBytes(n, k) = 0 /\ Weight(Packed(m, sent), Of(k)) = m[k].used
      BY <1>2, <2>1, <3>1, Zenon DEF MapBytes
    <3>3. m[k].used \in Nat
      BY <1>1, <3>1, Zenon
    <3> QED
      BY <3>2, <3>3
  <2>2. CASE ~ Occurs(sent, k)
    <3>1. k \in DOMAIN m <=> k \in DOMAIN n
      BY <1>3, <1>5, <2>2, Zenon
    <3>2. MapBytes(m, k) = MapBytes(n, k) /\ Weight(Packed(m, sent), Of(k)) = 0
      BY <1>2, <1>5, <2>2, <3>1, Zenon DEF MapBytes
    <3>3. MapBytes(n, k) \in Nat
      BY <1>7, MapNat, Zenon
    <3> QED
      BY <3>2, <3>3
  <2> QED
    BY <2>1, <2>2, ZenonT(30)
<1> QED
  BY <1>2, <1>7, <1>8, ZenonT(30)

(* A cycle of the counter: the maps become m, packed in ms is what it      *)
(* takes from them to send, and f what it frees.                           *)
Cycle(e, m, ms, f) ==
  /\ UNCHANGED <<output2, ringInt, stored>> /\ e \in Seq(Mbuf) /\ counted' = Sum(counted, BytesIn(e))
  /\ MapOK(m) /\ MapOK(maps')
  /\ \A k \in Keys : /\ MapBytes(m, k) = MapBytes(maps, k) + Weight(e, Of(k))
                     /\ MapBytes(m, k) = MapBytes(maps', k) + Weight(ms, Of(k))
  /\ output' \in Seq(Mbuf) /\ ring' \in Seq(Mbuf) /\ f \in Seq(Mbuf) /\ ms \in Seq(Mbuf)
  /\ \A k \in Keys : Weight(output', Of(k)) + Weight(ring', Of(k)) + Weight(f, Of(k))
                       = Weight(output, Of(k)) + Weight(ring, Of(k)) + Weight(ms, Of(k))
  /\ lost' = Sum(lost, BytesIn(f))

(* Such a cycle is a step of Ledger. *)
LEMMA BooksCycle ==
  ASSUME CountInv, NEW e, NEW m, NEW ms, NEW f, Cycle(e, m, ms, f)
  PROVE  CountInv' /\ (Books!Charge \/ Books!Settle)
<1>1. /\ output2' = output2 /\ ringInt' = ringInt /\ stored' = stored
      /\ counted' = Sum(counted, BytesIn(e)) /\ lost' = Sum(lost, BytesIn(f))
  BY DEF Cycle
<1>2. /\ e \in Seq(Mbuf) /\ f \in Seq(Mbuf) /\ ms \in Seq(Mbuf) /\ output' \in Seq(Mbuf) /\ ring' \in Seq(Mbuf)
      /\ MapOK(m) /\ MapOK(maps')
  BY Zenon DEF Cycle
<1>3. counted \in [Keys -> Nat] /\ stored \in [Keys -> Nat] /\ lost \in [Keys -> Nat]
  BY Zenon DEF CountInv
<1>4. /\ counted' \in [Keys -> Nat]
      /\ \A k \in Keys : counted'[k] = counted[k] + Weight(e, Of(k)) /\ Weight(e, Of(k)) \in Nat
  BY <1>1, <1>2, <1>3, SumMore, Zenon
<1>5. /\ lost' \in [Keys -> Nat]
      /\ \A k \in Keys : lost'[k] = lost[k] + Weight(f, Of(k)) /\ Weight(f, Of(k)) \in Nat
  BY <1>1, <1>2, <1>3, SumMore, Zenon
<1>6. CountInv'
  BY <1>1, <1>2, <1>3, <1>4, <1>5, Zenon DEF CountInv, MapOK
<1>7. ASSUME NEW k \in Keys PROVE Moves(k, Weight(e, Of(k)), 0, Weight(f, Of(k)))
  <2>1. Opens(maps, output, ring, output2, ringInt) /\ Opens(maps', output', ring', output2, ringInt)
    BY <1>2, ZenonT(30) DEF CountInv, Opens
  <2> DEFINE w == Of(k)
             a == MapBytes(maps, k)
             b == MapBytes(m, k)
             c == MapBytes(maps', k)
             o == Weight(output, w)
             r == Weight(ring, w)
             p == Weight(output2, w)
             q == Weight(ringInt, w)
             o2 == Weight(output', w)
             r2 == Weight(ring', w)
             x == Weight(ms, w)
             y == Weight(f, w)
             z == Weight(e, w)
  <2>2. a \in Nat /\ o \in Nat /\ r \in Nat /\ p \in Nat /\ q \in Nat
    BY <2>1, OpenIs, SMTT(30)
  <2>3. c \in Nat /\ o2 \in Nat /\ r2 \in Nat
    BY <2>1, OpenIs
  <2>4. y \in Nat /\ z \in Nat /\ x \in Nat
    <3>1. x \in Nat
      BY <1>2, OfWeight, WeightNat, Zenon
    <3> QED
      BY <1>4, <1>5, <3>1, Zenon
  <2>5. b = a + z /\ b = c + x /\ o2 + r2 + y = o + r + x
    BY Zenon DEF Cycle
  <2>6. stored[k] \in Nat
    BY <1>3
  <2> HIDE DEF w, a, b, c, o, r, p, q, o2, r2, x, y, z
  <2>7. (c + (o2 + r2 + p + q)) + 0 + y = (a + (o + r + p + q)) + z
    BY <2>2, <2>3, <2>4, <2>5, SMTT(30)
  <2>8. stored[k] + 0 = stored[k] /\ 0 \in Nat
    BY <2>6
  <2> QED
    BY <1>1, <1>4, <1>5, <2>7, <2>8, Zenon DEF Moves, OpenSum, w, a, b, c, o, r, p, q, o2, r2, x, y, z
<1>8. \A k \in Keys : \E c, s, z : Moves(k, c, s, z)
  BY <1>7, Zenon
<1> QED
  BY <1>1, <1>6, <1>8, BooksStep, Zenon

(* A cycle of the counter that calls ForwardTransfer. *)
LEMMA BooksForward ==
  ASSUME CountInv, NEW burst \in Seq(Packets), CounterCycle(burst, TRUE)
  PROVE  CountInv' /\ (Books!Charge \/ Books!Settle)
<1> DEFINE e == Each(burst)
           m == CountEach(maps, burst)
<1>0. MapOK(maps) /\ output \in Seq(Mbuf) /\ ring \in Seq(Mbuf)
  BY Zenon DEF CountInv
<1>1. /\ UNCHANGED <<output2, ringInt, stored>> /\ counted' = Sum(counted, BytesIn(e))
      /\ ForwardTransfer(m)
  BY Zenon DEF CounterCycle
<1>2. /\ MapOK(m) /\ e \in Seq(Mbuf)
      /\ \A k \in Keys : MapBytes(m, k) = MapBytes(maps, k) + Weight(e, Of(k))
  BY <1>0, CountEachWeighs, Zenon
<1> HIDE DEF e, m
<1>3. PICK order \in Visits(m) : \E sent \in {Sent(m, order)} :
        \E after \in {BurstFlush(SendEach(Link(output, ring, <<>>), Packed(m, sent)))} :
           /\ maps' = [k \in DOMAIN m \ Range(Erased(sent)) |-> m[k]]
           /\ output' = after.out /\ ring' = after.to /\ lost' = Sum(lost, BytesIn(after.freed))
  BY <1>1, Zenon DEF ForwardTransfer
<1>4. PICK sent, after : /\ sent = Sent(m, order)
                         /\ after = BurstFlush(SendEach(Link(output, ring, <<>>), Packed(m, sent)))
                         /\ maps' = [k \in DOMAIN m \ Range(Erased(sent)) |-> m[k]]
                         /\ output' = after.out /\ ring' = after.to /\ lost' = Sum(lost, BytesIn(after.freed))
  BY <1>3, ZenonT(30)
<1>5. sent \in Seq(DOMAIN m) /\ Injective(sent) /\ Erased(sent) = sent
  BY <1>2, <1>4, SentIs, SMTT(30)
<1> DEFINE ms == Packed(m, sent)
           f == after.freed
<1>6. maps' = [k \in DOMAIN m \ Range(sent) |-> m[k]]
  BY <1>4, <1>5, Zenon
<1>7. /\ MapOK(maps') /\ ms \in Seq(Mbuf)
      /\ \A k \in Keys : MapBytes(m, k) = MapBytes(maps', k) + Weight(ms, Of(k))
  BY <1>2, <1>5, <1>6, ForwardMoves, Zenon
<1>8. Sending(Mbuf, output, ring, ms, output', ring', f)
  BY <1>0, <1>4, <1>7, Zenon DEF Sending
<1>9. lost' = Sum(lost, BytesIn(f))
  BY <1>4, ZenonT(30)
<1> HIDE DEF ms, f
<1>10. ASSUME NEW w \in [Mbuf -> Nat]
       PROVE  /\ output' \in Seq(Mbuf) /\ ring' \in Seq(Mbuf) /\ f \in Seq(Mbuf)
              /\ Weight(output', w) + Weight(ring', w) + Weight(f, w) = Weight(output, w) + Weight(ring, w) + Weight(ms, w)
  BY <1>8, SendsWeighs
<1>11. Of(0) \in [Mbuf -> Nat] /\ \A k \in Keys : Of(k) \in [Mbuf -> Nat]
  BY OfWeight, Zenon
<1>12. Cycle(e, m, ms, f)
  BY <1>1, <1>2, <1>7, <1>9, <1>10, <1>11, Zenon DEF Cycle
<1> QED
  BY <1>12, BooksCycle

(* A cycle of the counter that only counts. *)
LEMMA BooksCount ==
  ASSUME CountInv, NEW burst \in Seq(Packets), CounterCycle(burst, FALSE)
  PROVE  CountInv' /\ (Books!Charge \/ Books!Settle)
<1> DEFINE e == Each(burst)
           m == CountEach(maps, burst)
<1>0. MapOK(maps) /\ output \in Seq(Mbuf) /\ ring \in Seq(Mbuf) /\ lost \in [Keys -> Nat]
  BY Zenon DEF CountInv
<1>1. /\ UNCHANGED <<output2, ringInt, stored>> /\ counted' = Sum(counted, BytesIn(e))
      /\ maps' = m /\ UNCHANGED <<output, ring, lost>>
  BY Zenon DEF CounterCycle
<1>2. /\ MapOK(m) /\ e \in Seq(Mbuf)
      /\ \A k \in Keys : MapBytes(m, k) = MapBytes(maps, k) + Weight(e, Of(k))
  BY <1>0, CountEachWeighs, Zenon
<1> HIDE DEF e, m
<1>3. <<>> \in Seq(Mbuf) /\ \A k : Weight(<<>>, Of(k)) = 0
  <2>1. <<>> \in Seq(Mbuf)
    OBVIOUS
  <2> QED
    BY <2>1, WeightEmpty, Zenon
<1>4. lost = Sum(lost, BytesIn(<<>>))
  <2> DEFINE g == Sum(lost, BytesIn(<<>>))
  <2>1. g \in [Keys -> Nat] /\ \A k \in Keys : g[k] = lost[k] + Weight(<<>>, Of(k))
    BY <1>0, <1>3, SumMore, Zenon
  <2> HIDE DEF g
  <2>2. \A k \in Keys : g[k] = lost[k]
    BY <1>0, <1>3, <2>1, SMTT(30)
  <2>3. g = lost
    BY <1>0, <2>1, <2>2, SMTT(30)
  <2> QED
    BY <2>3, Zenon DEF g
<1>5. /\ output' = output /\ ring' = ring /\ lost' = lost
  BY <1>1
<1>6. ASSUME NEW k \in Keys
      PROVE  /\ MapBytes(m, k) = MapBytes(maps', k) + Weight(<<>>, Of(k))
             /\ Weight(output', Of(k)) + Weight(ring', Of(k)) + Weight(<<>>, Of(k))
                  = Weight(output, Of(k)) + Weight(ring, Of(k)) + Weight(<<>>, Of(k))
  <2>1. MapBytes(m, k) \in Nat
    BY <1>2, MapNat, Zenon
  <2>2. MapBytes(m, k) = MapBytes(m, k) + 0
    BY <2>1
  <2> QED
    BY <1>1, <1>3, <1>5, <2>2, Zenon
<1>7. Cycle(e, m, <<>>, <<>>)
  BY <1>0, <1>1, <1>2, <1>3, <1>4, <1>5, <1>6, Zenon DEF Cycle
<1> QED
  BY <1>7, BooksCycle

(* Nothing is counted, and nothing is open. *)
LEMMA BooksInit ==
  ASSUME CountingInit
  PROVE  CountInv /\ Books!LedgerInit
<1>1. /\ maps = <<>> /\ output = <<>> /\ ring = <<>> /\ output2 = <<>> /\ ringInt = <<>>
      /\ counted = NoBytes /\ stored = NoBytes /\ lost = NoBytes
  BY DEF CountingInit
<1>2. NoBytes \in [Keys -> Nat] /\ \A k \in Keys : NoBytes[k] = 0
  BY DEF NoBytes
<1>3. DOMAIN <<>> = {} /\ <<>> \in Seq(Mbuf) /\ <<>> = [k \in {} |-> <<>>[k]]
  OBVIOUS
<1>4. MapOK(maps)
  <2>1. IsFiniteSet({})
    BY FS_EmptySet, Zenon
  <2> QED
    BY <1>1, <1>3, <2>1, Zenon DEF MapOK
<1>5. CountInv
  BY <1>1, <1>2, <1>3, <1>4, Zenon DEF CountInv
<1>6. ASSUME NEW k \in Keys PROVE OnTheWay[k] = 0
  <2>1. Opens(maps, output, ring, output2, ringInt)
    BY <1>5, ZenonT(30) DEF CountInv, Opens
  <2>2. OnTheWay[k] = OpenSum(maps, output, ring, output2, ringInt, k)
    BY <2>1, OpenNow, OpenIs, SMTT(30)
  <2>3. MapBytes(maps, k) = 0
    BY <1>1, <1>3, Zenon DEF MapBytes
  <2>4. Weight(<<>>, Of(k)) = 0
    BY WeightEmpty, Zenon
  <2> QED
    BY <1>1, <2>2, <2>3, <2>4, SMTT(30) DEF OpenSum
<1>7. OnTheWay = [k \in Keys |-> OnTheWay[k]]
  BY Zenon DEF OnTheWay, Sum
<1>8. OnTheWay = [k \in Keys |-> 0]
  BY <1>6, <1>7, Zenon
<1> QED
  BY <1>1, <1>5, <1>8, Zenon DEF Books!LedgerInit, Books!Zero, NoBytes

(* CountInv is inductive, and every step is one of Ledger: one case per    *)
(* action.                                                                 *)
LEMMA BooksNext ==
  ASSUME CountInv, [CountingNext]_countingVars
  PROVE  CountInv' /\ [Books!Charge \/ Books!Settle]_(Books!ledgerVars)
<1>1. CASE Receive
  <2>1. PICK n \in 1 .. MaxBurst : \E burst \in [1 .. n -> Packets], flush \in BOOLEAN : CounterCycle(burst, flush)
    BY <1>1, Zenon DEF Receive
  <2>2. PICK burst \in [1 .. n -> Packets], flush \in BOOLEAN : CounterCycle(burst, flush)
    BY <2>1, Zenon
  <2>3. burst \in Seq(Packets)
    BY SizeAssumption
  <2>4. CASE flush = TRUE
    BY <2>2, <2>3, <2>4, BooksForward, Zenon
  <2>5. CASE flush = FALSE
    BY <2>2, <2>3, <2>5, BooksCount, ZenonT(30)
  <2> QED
    BY <2>4, <2>5, Zenon
<1>2. CASE Flush
  <2>1. <<>> \in Seq(Packets)
    OBVIOUS
  <2> QED
    BY <1>2, <2>1, BooksForward, ZenonT(30) DEF Flush
<1>3. CASE Age
  BY <1>3, BooksAge, Zenon
<1>4. CASE LogCycle
  BY <1>4, BooksLog, Zenon
<1>5. CASE LogFlush
  BY <1>5, BooksLogFlush, Zenon
<1>6. CASE LogVirtualCycle
  BY <1>6, BooksLogVirtual, Zenon
<1>7. CASE TransferVirtualCycle
  BY <1>7, BooksTransfer, Zenon
<1>8. CASE UNCHANGED countingVars
  <2>1. UNCHANGED <<maps, output, ring, output2, ringInt, counted, stored, lost>>
    BY <1>8 DEF countingVars
  <2>2. maps' = maps /\ MapOK(maps)
    BY <2>1, Zenon DEF CountInv
  <2>3. MapOK(maps') /\ \A k \in Keys : MapBytes(maps', k) = MapBytes(maps, k)
    BY <2>2, Zenon
  <2>4. UNCHANGED <<output, ring, output2, ringInt, counted, stored, lost>>
    BY <2>1
  <2> QED
    BY <2>3, <2>4, BooksIdle, Zenon
<1> QED
  BY <1>1, <1>2, <1>3, <1>4, <1>5, <1>6, <1>7, <1>8, Zenon DEF CountingNext

(* The counter, the core behind it and its virtual core keep the books of  *)
(* Ledger: every byte that Counting adds is open until it is stored or     *)
(* given up, once, for every size of burst, ring, mbuf and batch.          *)
THEOREM CountingKeepsBooks == CountingSpec => KeepsBooks
<1>1. CountingInit => CountInv /\ Books!LedgerInit
  BY BooksInit
<1>2. CountInv /\ [CountingNext]_countingVars => CountInv' /\ [Books!Charge \/ Books!Settle]_(Books!ledgerVars)
  BY BooksNext
<1> QED
  BY <1>1, <1>2, PTL DEF CountingSpec, KeepsBooks, Books!LedgerSpec
=============================================================================
