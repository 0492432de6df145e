--------------------------- MODULE DataPathProofs ----------------------------
(***************************************************************************)
(* For any pool, ring size and configurations: an mbuf has one owner, none *)
(* is lost, no packet overtakes another on the way through the cores, and  *)
(* no core writes past its output array.                                   *)
(*                                                                         *)
(* A step of a core moves a block of mbufs from the front of one place to  *)
(* the end of another, frees or loses a block, or takes mbufs of the pool. *)
(* What each of these moves does to the owners and to the order is proved  *)
(* once, for any contents h of the places and any pool pl; a step is then  *)
(* a short sequence of moves.                                              *)
(***************************************************************************)
EXTENDS DataPath, SequenceTheorems, FiniteSetTheorems, TLAPS

(* Contents of the places, and what the properties say of them. *)
Contents(h) == \A p \in 1 .. 11 : h[p] \in Seq(Mbufs)
Own(h, pl) ==
  /\ pl \subseteq Mbufs
  /\ \A p \in 1 .. 11 : /\ IsInjective(h[p])
                        /\ Range(h[p]) \cap pl = {}
                        /\ \A q \in 1 .. 11 \ {p} : Range(h[p]) \cap Range(h[q]) = {}
All(h, pl) == Mbufs = pl \cup UNION {Range(h[p]) : p \in 1 .. 11}

(* On the way of a forwarded packet, and the order there. *)
On(h, a) == \E p \in 1 .. 7 : a \in Range(h[p])
Bef(h, a, b) == \/ \E p \in 1 .. 7 : Before(a, b, h[p])
                \/ \E p, q \in 1 .. 7 : p < q /\ a \in Range(h[p]) /\ b \in Range(h[q])
Kept(h, h2) == \A a, b : Bef(h, a, b) /\ On(h2, a) /\ On(h2, b) => Bef(h2, a, b)
NoNew(h, h2) == \A a : On(h2, a) => On(h, a)

SameBut(h, h2, S) == \A p \in 1 .. 11 : p \notin S => h2[p] = h[p]

-----------------------------------------------------------------------------
(* Two sequences one after the other. *)
LEMMA JoinRange ==
  ASSUME NEW s \in Seq(Mbufs), NEW t \in Seq(Mbufs)
  PROVE  s \o t \in Seq(Mbufs) /\ Range(s \o t) = Range(s) \cup Range(t)
  BY ConcatProperties, RangeConcatenation, ZenonT(30)

(* What the range of a sequence is. *)
LEMMA InRange ==
  ASSUME NEW s \in Seq(Mbufs)
  PROVE  \A m : m \in Range(s) <=> \E i \in 1 .. Len(s) : s[i] = m
  BY DEF Range

(* Where the elements of a concatenation are. *)
LEMMA JoinElements ==
  ASSUME NEW s \in Seq(Mbufs), NEW t \in Seq(Mbufs)
  PROVE  /\ \A i \in 1 .. Len(s) : i \in 1 .. Len(s \o t) /\ (s \o t)[i] = s[i]
         /\ \A i \in 1 .. Len(t) : Len(s) + i \in 1 .. Len(s \o t) /\ (s \o t)[Len(s) + i] = t[i]
         /\ \A i \in 1 .. Len(s \o t) :
              \/ i \in 1 .. Len(s) /\ (s \o t)[i] = s[i]
              \/ i - Len(s) \in 1 .. Len(t) /\ i > Len(s) /\ (s \o t)[i] = t[i - Len(s)]
  OBVIOUS

(* The concatenation holds each mbuf once when its parts do and share none. *)
LEMMA JoinInjective ==
  ASSUME NEW s \in Seq(Mbufs), NEW t \in Seq(Mbufs)
  PROVE  IsInjective(s \o t) <=> IsInjective(s) /\ IsInjective(t) /\ Range(s) \cap Range(t) = {}
<1> DEFINE u == s \o t
<1>0. Len(s) \in Nat /\ Len(t) \in Nat /\ DOMAIN s = 1 .. Len(s) /\ DOMAIN t = 1 .. Len(t)
      /\ DOMAIN u = 1 .. Len(u) /\ u \in Seq(Mbufs)
  OBVIOUS
<1>1. /\ \A i \in 1 .. Len(s) : i \in 1 .. Len(u) /\ u[i] = s[i]
      /\ \A i \in 1 .. Len(t) : Len(s) + i \in 1 .. Len(u) /\ u[Len(s) + i] = t[i]
      /\ \A i \in 1 .. Len(u) :
           \/ i \in 1 .. Len(s) /\ u[i] = s[i]
           \/ i - Len(s) \in 1 .. Len(t) /\ i > Len(s) /\ u[i] = t[i - Len(s)]
  BY JoinElements, Zenon
<1>2. \A m : m \in Range(s) <=> \E i \in 1 .. Len(s) : s[i] = m
  BY InRange, Zenon
<1>3. \A m : m \in Range(t) <=> \E i \in 1 .. Len(t) : t[i] = m
  BY InRange, Zenon
<1> HIDE DEF u
<1>4. ASSUME IsInjective(u) PROVE IsInjective(s)
  BY <1>0, <1>1, <1>4, Zenon DEF IsInjective
<1>5. ASSUME IsInjective(u) PROVE IsInjective(t)
  <2>1. SUFFICES ASSUME NEW i \in 1 .. Len(t), NEW j \in 1 .. Len(t), t[i] = t[j] PROVE i = j
    BY <1>0, Zenon DEF IsInjective
  <2>2. Len(s) + i = Len(s) + j
    BY <1>0, <1>1, <1>5, <2>1, Zenon DEF IsInjective
  <2> QED
    BY <1>0, <2>2
<1>6. ASSUME IsInjective(u) PROVE Range(s) \cap Range(t) = {}
  <2>1. SUFFICES ASSUME NEW i \in 1 .. Len(s), NEW j \in 1 .. Len(t), s[i] = t[j] PROVE FALSE
    BY <1>2, <1>3, ZenonT(30)
  <2>2. i = Len(s) + j
    BY <1>0, <1>1, <1>6, <2>1, Zenon DEF IsInjective
  <2> QED
    BY <1>0, <2>2
<1>7. ASSUME IsInjective(s), IsInjective(t), Range(s) \cap Range(t) = {} PROVE IsInjective(u)
  <2>1. SUFFICES ASSUME NEW i \in 1 .. Len(u), NEW j \in 1 .. Len(u), u[i] = u[j] PROVE i = j
    BY <1>0, Zenon DEF IsInjective
  <2>2. CASE i \in 1 .. Len(s) /\ u[i] = s[i] /\ j \in 1 .. Len(s) /\ u[j] = s[j]
    BY <1>0, <1>7, <2>1, <2>2, Zenon DEF IsInjective
  <2>3. CASE /\ i - Len(s) \in 1 .. Len(t) /\ u[i] = t[i - Len(s)]
             /\ j - Len(s) \in 1 .. Len(t) /\ u[j] = t[j - Len(s)]
    <3>1. i - Len(s) = j - Len(s)
      BY <1>0, <1>7, <2>1, <2>3, Zenon DEF IsInjective
    <3> QED
      BY <1>0, <3>1
  <2>4. CASE i \in 1 .. Len(s) /\ u[i] = s[i] /\ j - Len(s) \in 1 .. Len(t) /\ u[j] = t[j - Len(s)]
    BY <1>2, <1>3, <1>7, <2>1, <2>4, Zenon
  <2>5. CASE j \in 1 .. Len(s) /\ u[j] = s[j] /\ i - Len(s) \in 1 .. Len(t) /\ u[i] = t[i - Len(s)]
    BY <1>2, <1>3, <1>7, <2>1, <2>5, Zenon
  <2> QED
    BY <1>1, <2>2, <2>3, <2>4, <2>5, Zenon
<1> QED
  BY <1>4, <1>5, <1>6, <1>7 DEF u

(* The order in a concatenation. *)
LEMMA JoinBefore ==
  ASSUME NEW s \in Seq(Mbufs), NEW t \in Seq(Mbufs), NEW a, NEW b
  PROVE  Before(a, b, s \o t) <=> \/ Before(a, b, s) \/ Before(a, b, t)
                                  \/ a \in Range(s) /\ b \in Range(t)
<1> DEFINE u == s \o t
<1>0. Len(s) \in Nat /\ Len(t) \in Nat /\ Len(u) \in Nat
  OBVIOUS
<1>1. /\ \A i \in 1 .. Len(s) : i \in 1 .. Len(u) /\ u[i] = s[i]
      /\ \A i \in 1 .. Len(t) : Len(s) + i \in 1 .. Len(u) /\ u[Len(s) + i] = t[i]
      /\ \A i \in 1 .. Len(u) :
           \/ i \in 1 .. Len(s) /\ u[i] = s[i]
           \/ i - Len(s) \in 1 .. Len(t) /\ i > Len(s) /\ u[i] = t[i - Len(s)]
  BY JoinElements, Zenon
<1>2. \A m : m \in Range(s) <=> \E i \in 1 .. Len(s) : s[i] = m
  BY InRange, Zenon
<1>3. \A m : m \in Range(t) <=> \E i \in 1 .. Len(t) : t[i] = m
  BY InRange, Zenon
<1> HIDE DEF u
<1>4. ASSUME Before(a, b, s) PROVE Before(a, b, u)
  BY <1>1, <1>4, Zenon DEF Before
<1>5. ASSUME Before(a, b, t) PROVE Before(a, b, u)
  <2>1. PICK i \in 1 .. Len(t), j \in 1 .. Len(t) : i < j /\ t[i] = a /\ t[j] = b
    BY <1>5, Zenon DEF Before
  <2>2. Len(s) + i < Len(s) + j
    BY <1>0, <2>1
  <2> QED
    BY <1>1, <2>1, <2>2, Zenon DEF Before
<1>6. ASSUME a \in Range(s), b \in Range(t) PROVE Before(a, b, u)
  <2>1. PICK i \in 1 .. Len(s) : s[i] = a
    BY <1>2, <1>6, Zenon
  <2>2. PICK j \in 1 .. Len(t) : t[j] = b
    BY <1>3, <1>6, Zenon
  <2>3. i < Len(s) + j
    BY <1>0
  <2> QED
    BY <1>1, <2>1, <2>2, <2>3, Zenon DEF Before
<1>7. ASSUME Before(a, b, u)
      PROVE  Before(a, b, s) \/ Before(a, b, t) \/ (a \in Range(s) /\ b \in Range(t))
  <2>1. PICK i \in 1 .. Len(u), j \in 1 .. Len(u) : i < j /\ u[i] = a /\ u[j] = b
    BY <1>7, Zenon DEF Before
  <2>2. CASE i \in 1 .. Len(s) /\ u[i] = s[i] /\ j \in 1 .. Len(s) /\ u[j] = s[j]
    BY <2>1, <2>2, Zenon DEF Before
  <2>3. CASE /\ i - Len(s) \in 1 .. Len(t) /\ u[i] = t[i - Len(s)]
             /\ j - Len(s) \in 1 .. Len(t) /\ u[j] = t[j - Len(s)]
    <3>1. i - Len(s) < j - Len(s)
      BY <1>0, <2>1
    <3> QED
      BY <2>1, <2>3, <3>1, Zenon DEF Before
  <2>4. CASE i \in 1 .. Len(s) /\ u[i] = s[i] /\ j - Len(s) \in 1 .. Len(t) /\ u[j] = t[j - Len(s)]
    BY <1>2, <1>3, <2>1, <2>4, Zenon
  <2>5. CASE j \in 1 .. Len(s) /\ i > Len(s)
    BY <1>0, <2>1, <2>5
  <2> QED
    BY <1>1, <2>2, <2>3, <2>4, <2>5, Zenon
<1> QED
  BY <1>4, <1>5, <1>6, <1>7 DEF u
-----------------------------------------------------------------------------
(* A block a from the front of place p goes to the end of place q. *)
Moved(h, h2, p, q, a, b) ==
  /\ h[p] = a \o b
  /\ h2[q] = h[q] \o a
  /\ h2[p] = b
  /\ SameBut(h, h2, {p, q})

(* A move changes no owner but of the block. *)
LEMMA MoveOwn ==
  ASSUME NEW h, NEW h2, NEW pl, Contents(h), Own(h, pl),
         NEW p \in 1 .. 11, NEW q \in 1 .. 11, p # q,
         NEW a \in Seq(Mbufs), NEW b \in Seq(Mbufs), Moved(h, h2, p, q, a, b)
  PROVE  Contents(h2) /\ Own(h2, pl) /\ (All(h, pl) => All(h2, pl))
<1>1. /\ h[p] \in Seq(Mbufs) /\ h[q] \in Seq(Mbufs)
      /\ h[p] = a \o b /\ h2[q] = h[q] \o a /\ h2[p] = b
      /\ \A k \in 1 .. 11 : k # p /\ k # q => h2[k] = h[k]
  BY Zenon DEF Contents, Moved, SameBut
<1>2. Range(h[p]) = Range(a) \cup Range(b)
  BY <1>1, JoinRange, Zenon
<1>3. h2[q] \in Seq(Mbufs) /\ Range(h2[q]) = Range(h[q]) \cup Range(a)
  BY <1>1, JoinRange, ZenonT(30)
<1>4. IsInjective(a) /\ IsInjective(b) /\ Range(a) \cap Range(b) = {}
  <2>1. IsInjective(h[p])
    BY Zenon DEF Own
  <2>2. IsInjective(a \o b)
    BY <1>1, <2>1
  <2> QED
    BY <2>2, JoinInjective, Zenon
<1>5. /\ IsInjective(h[q])
      /\ Range(h[p]) \cap pl = {} /\ Range(h[q]) \cap pl = {} /\ Range(h[p]) \cap Range(h[q]) = {}
  BY Zenon DEF Own
<1>6. Range(h[q]) \cap Range(a) = {}
  BY <1>2, <1>5, Zenon
<1>7. IsInjective(h2[q])
  BY <1>1, <1>4, <1>5, <1>6, JoinInjective
<1>8. Contents(h2)
  BY <1>1, <1>3, Zenon DEF Contents
<1>9. \A k \in 1 .. 11 : IsInjective(h2[k])
  BY <1>1, <1>4, <1>7, Zenon DEF Own
<1>10. \A k \in 1 .. 11 : \A m : m \in Range(h2[k]) =>
         /\ k # p /\ k # q => m \in Range(h[k])
         /\ k = p => m \in Range(b) /\ m \in Range(h[p])
         /\ k = q => m \in Range(h[q]) \/ (m \in Range(a) /\ m \in Range(h[p]))
  BY <1>1, <1>2, <1>3, Zenon
<1>11. \A k \in 1 .. 11 : \A m : m \in Range(h2[k]) => m \notin pl
  BY <1>10, Zenon DEF Own
<1>12. ASSUME NEW k \in 1 .. 11, NEW l \in 1 .. 11, k # l, NEW m, m \in Range(h2[k]), m \in Range(h2[l])
       PROVE  FALSE
  <2>0. \A x, y \in 1 .. 11 : x # y => ~(m \in Range(h[x]) /\ m \in Range(h[y]))
    BY Zenon DEF Own
  <2>1. CASE k # p /\ k # q /\ l # p /\ l # q
    BY <1>10, <1>12, <2>0, <2>1, Zenon
  <2>2. CASE k = p
    BY <1>4, <1>10, <1>12, <2>0, <2>2, Zenon
  <2>3. CASE l = p
    BY <1>4, <1>10, <1>12, <2>0, <2>3, Zenon
  <2>4. CASE k = q /\ l # p
    BY <1>10, <1>12, <2>0, <2>4, Zenon
  <2>5. CASE l = q /\ k # p
    BY <1>10, <1>12, <2>0, <2>5, Zenon
  <2> QED
    BY <2>1, <2>2, <2>3, <2>4, <2>5, Zenon
<1>13. Own(h2, pl)
  BY <1>9, <1>11, <1>12, Zenon DEF Own
<1>14. \A m : (\E k \in 1 .. 11 : m \in Range(h2[k])) <=> (\E k \in 1 .. 11 : m \in Range(h[k]))
  BY <1>1, <1>2, <1>3, Zenon
<1>15. UNION {Range(h2[k]) : k \in 1 .. 11} = UNION {Range(h[k]) : k \in 1 .. 11}
  BY <1>14, Zenon
<1> QED
  BY <1>8, <1>13, <1>15, Zenon DEF All

(* A block a from the front of place p is freed, or some of it. *)
LEMMA FreeOwn ==
  ASSUME NEW h, NEW h2, NEW pl, NEW pl2, Contents(h), Own(h, pl), NEW p \in 1 .. 11,
         NEW a \in Seq(Mbufs), NEW b \in Seq(Mbufs), h[p] = a \o b, h2[p] = b,
         SameBut(h, h2, {p}), pl \subseteq pl2, pl2 \subseteq pl \cup Range(a)
  PROVE  /\ Contents(h2) /\ Own(h2, pl2)
         /\ All(h, pl) /\ pl2 = pl \cup Range(a) => All(h2, pl2)
<1>1. h[p] \in Seq(Mbufs) /\ \A k \in 1 .. 11 : k # p => h2[k] = h[k]
  BY Zenon DEF Contents, SameBut
<1>2. Range(h[p]) = Range(a) \cup Range(b)
  BY JoinRange, Zenon
<1>3. IsInjective(b) /\ Range(a) \cap Range(b) = {}
  <2>1. IsInjective(h[p])
    BY Zenon DEF Own
  <2>2. IsInjective(a \o b)
    BY <2>1
  <2> QED
    BY <2>2, JoinInjective, Zenon
<1>4. Contents(h2)
  BY <1>1, Zenon DEF Contents
<1>5. \A k \in 1 .. 11 : IsInjective(h2[k])
  BY <1>1, <1>3, Zenon DEF Own
<1>6. \A k \in 1 .. 11 : \A m : m \in Range(h2[k]) => m \in Range(h[k]) /\ (k = p => m \in Range(b))
  BY <1>1, <1>2, Zenon
<1>7. \A k \in 1 .. 11 : \A m : m \in Range(h2[k]) => m \notin pl2
  <2>1. SUFFICES ASSUME NEW k \in 1 .. 11, NEW m, m \in Range(h2[k]), m \in pl2 PROVE FALSE
    BY Zenon
  <2>2. m \in Range(h[k]) /\ m \notin pl
    BY <1>6, <2>1, Zenon DEF Own
  <2>3. m \in Range(a) /\ m \in Range(h[p])
    BY <1>2, <2>1, <2>2, Zenon
  <2>4. k = p
    BY <2>2, <2>3, Zenon DEF Own
  <2> QED
    BY <1>3, <1>6, <2>1, <2>3, <2>4, Zenon
<1>8. Own(h2, pl2)
  <2>1. Range(a) \subseteq Mbufs
    BY RangeOfSeq, Zenon
  <2>2. pl2 \subseteq Mbufs
    BY <2>1, Zenon DEF Own
  <2> QED
    BY <1>5, <1>6, <1>7, <2>2, Zenon DEF Own
<1>9. ASSUME pl2 = pl \cup Range(a)
      PROVE  pl2 \cup UNION {Range(h2[k]) : k \in 1 .. 11} = pl \cup UNION {Range(h[k]) : k \in 1 .. 11}
  <2>1. \A m : m \in pl2 \/ (\E k \in 1 .. 11 : m \in Range(h2[k]))
               <=> m \in pl \/ (\E k \in 1 .. 11 : m \in Range(h[k]))
    BY <1>1, <1>2, <1>9, Zenon
  <2> QED
    BY <2>1, Zenon
<1> QED
  BY <1>4, <1>8, <1>9, Zenon DEF All

(* The end of place p is lost. *)
LEMMA LoseOwn ==
  ASSUME NEW h, NEW h2, NEW pl, Contents(h), Own(h, pl), NEW p \in 1 .. 11,
         NEW a \in Seq(Mbufs), NEW b \in Seq(Mbufs), h[p] = a \o b, h2[p] = a, SameBut(h, h2, {p})
  PROVE  Contents(h2) /\ Own(h2, pl)
<1>1. h[p] \in Seq(Mbufs) /\ \A k \in 1 .. 11 : k # p => h2[k] = h[k]
  BY Zenon DEF Contents, SameBut
<1>2. Range(h[p]) = Range(a) \cup Range(b)
  BY JoinRange, Zenon
<1>3. IsInjective(a)
  <2>1. IsInjective(h[p])
    BY Zenon DEF Own
  <2>2. IsInjective(a \o b)
    BY <2>1
  <2> QED
    BY <2>2, JoinInjective, Zenon
<1>4. \A k \in 1 .. 11 : IsInjective(h2[k]) /\ \A m : m \in Range(h2[k]) => m \in Range(h[k])
  BY <1>1, <1>2, <1>3, Zenon DEF Own
<1> QED
  BY <1>1, <1>4, Zenon DEF Own, Contents

(* Mbufs of the pool go to the end of place q. *)
LEMMA TakeOwn ==
  ASSUME NEW h, NEW h2, NEW pl, Contents(h), Own(h, pl), NEW q \in 1 .. 11,
         NEW s \in Seq(Mbufs), IsInjective(s), Range(s) \subseteq pl,
         h2[q] = h[q] \o s, SameBut(h, h2, {q})
  PROVE  /\ Contents(h2) /\ Own(h2, pl \ Range(s))
         /\ All(h, pl) => All(h2, pl \ Range(s))
<1>1. h[q] \in Seq(Mbufs) /\ \A k \in 1 .. 11 : k # q => h2[k] = h[k]
  BY Zenon DEF Contents, SameBut
<1>2. h2[q] \in Seq(Mbufs) /\ Range(h2[q]) = Range(h[q]) \cup Range(s)
  BY <1>1, JoinRange, Zenon
<1>3. IsInjective(h[q]) /\ Range(h[q]) \cap pl = {}
  BY Zenon DEF Own
<1>4. Range(h[q]) \cap Range(s) = {}
  BY <1>3, Zenon
<1>5. IsInjective(h2[q])
  BY <1>1, <1>3, <1>4, JoinInjective
<1>6. Contents(h2)
  BY <1>1, <1>2, Zenon DEF Contents
<1>7. \A k \in 1 .. 11 : IsInjective(h2[k])
  BY <1>1, <1>5, Zenon DEF Own
<1>8. \A k \in 1 .. 11 : \A m : m \in Range(h2[k]) =>
        m \in Range(h[k]) \/ (k = q /\ m \in Range(s) /\ m \in pl)
  BY <1>1, <1>2, Zenon
<1>9. \A k \in 1 .. 11 : \A m : m \in Range(h2[k]) => m \notin pl \ Range(s)
  BY <1>8, Zenon DEF Own
<1>10. ASSUME NEW k \in 1 .. 11, NEW l \in 1 .. 11, k # l, NEW m, m \in Range(h2[k]), m \in Range(h2[l])
       PROVE  FALSE
  BY <1>8, <1>10, Zenon DEF Own
<1>11. Own(h2, pl \ Range(s))
  BY <1>7, <1>9, <1>10, Zenon DEF Own
<1>12. \A m : m \in pl \ Range(s) \/ (\E k \in 1 .. 11 : m \in Range(h2[k]))
              <=> m \in pl \/ (\E k \in 1 .. 11 : m \in Range(h[k]))
  BY <1>1, <1>2, Zenon
<1>13. (pl \ Range(s)) \cup UNION {Range(h2[k]) : k \in 1 .. 11}
          = pl \cup UNION {Range(h[k]) : k \in 1 .. 11}
  BY <1>12, Zenon
<1> QED
  BY <1>6, <1>11, <1>13, Zenon DEF All
-----------------------------------------------------------------------------
(* The same moves, and the order on the way of a forwarded packet.  Places *)
(* off the way may change in any manner.                                   *)
SameWay(h, h2, S) == \A k \in 1 .. 7 : k \notin S => h2[k] = h[k]

(* Places that are the same, seen on the way. *)
LEMMA SameOnWay ==
  ASSUME NEW h, NEW h2, NEW S, SameBut(h, h2, S)
  PROVE  SameWay(h, h2, S)
<1>1. \A k \in 1 .. 7 : k \in 1 .. 11
  OBVIOUS
<1> QED
  BY <1>1, Zenon DEF SameBut, SameWay

(* A block goes on to the next place of the way. *)
LEMMA MoveAlong ==
  ASSUME NEW h, NEW h2, Contents(h), NEW p \in 2 .. 7, NEW q \in 1 .. 6, q + 1 = p,
         NEW a \in Seq(Mbufs), NEW b \in Seq(Mbufs), Moved(h, h2, p, q, a, b)
  PROVE  Kept(h, h2) /\ NoNew(h, h2)
<1>0. /\ p \in 1 .. 11 /\ q \in 1 .. 11 /\ p \in 1 .. 7 /\ q \in 1 .. 7 /\ q < p /\ q # p
      /\ \A k \in 1 .. 7 : k \in 1 .. 11
  OBVIOUS
<1>1. /\ h[p] \in Seq(Mbufs) /\ h[q] \in Seq(Mbufs)
      /\ h[p] = a \o b /\ h2[q] = h[q] \o a /\ h2[p] = b
      /\ \A k \in 1 .. 11 : k # p /\ k # q => h2[k] = h[k]
  BY <1>0, Zenon DEF Contents, Moved, SameBut
<1>2. \A k \in 1 .. 7 : k # p /\ k # q => h2[k] = h[k]
  BY <1>0, <1>1, Zenon
<1>3. Range(h[p]) = Range(a) \cup Range(b)
  <2>1. Range(a \o b) = Range(a) \cup Range(b)
    BY JoinRange, Zenon
  <2> QED
    BY <1>1, <2>1
<1>4. Range(h2[q]) = Range(h[q]) \cup Range(a)
  BY <1>1, JoinRange, Zenon
<1>5. NoNew(h, h2)
  BY <1>0, <1>1, <1>2, <1>3, <1>4, Zenon DEF NoNew, On
<1>6. ASSUME NEW x, NEW y, Bef(h, x, y) PROVE Bef(h2, x, y)
  <2>1. Before(x, y, h[p]) => Before(x, y, a) \/ Before(x, y, b) \/ (x \in Range(a) /\ y \in Range(b))
    BY <1>1, JoinBefore
  <2>2. Before(x, y, h[q]) \/ Before(x, y, a) \/ (x \in Range(h[q]) /\ y \in Range(a))
          => Before(x, y, h2[q])
    BY <1>1, JoinBefore
  <2>3. ASSUME NEW k \in 1 .. 7, Before(x, y, h[k]) PROVE Bef(h2, x, y)
    <3>1. CASE k # p /\ k # q
      BY <1>2, <2>3, <3>1, Zenon DEF Bef
    <3>2. CASE k = q
      BY <1>0, <2>2, <2>3, <3>2, Zenon DEF Bef
    <3>3. CASE k = p
      BY <1>0, <1>1, <1>4, <2>1, <2>2, <2>3, <3>3, Zenon DEF Bef
    <3> QED
      BY <3>1, <3>2, <3>3, Zenon
  <2>4. ASSUME NEW k \in 1 .. 7, NEW l \in 1 .. 7, k < l, x \in Range(h[k]), y \in Range(h[l])
        PROVE  Bef(h2, x, y)
    <3>1. k # l /\ ~(k = p /\ l = q)
      BY <1>0, <2>4
    <3>2. CASE k = q /\ l = p
      BY <1>0, <1>1, <1>3, <1>4, <2>2, <2>4, <3>2, Zenon DEF Bef
    <3>3. CASE k = q /\ l # p /\ l # q
      BY <1>0, <1>2, <1>4, <2>4, <3>3, Zenon DEF Bef
    <3>4. CASE k = p /\ l # p /\ l # q
      <4>1. q < l
        BY <1>0, <2>4, <3>4
      <4> QED
        BY <1>0, <1>1, <1>2, <1>3, <1>4, <2>4, <3>4, <4>1, Zenon DEF Bef
    <3>5. CASE l = p /\ k # p /\ k # q
      <4>1. k < q
        BY <1>0, <2>4, <3>5
      <4> QED
        BY <1>0, <1>1, <1>2, <1>3, <1>4, <2>4, <3>5, <4>1, Zenon DEF Bef
    <3>6. CASE l = q /\ k # p /\ k # q
      BY <1>0, <1>2, <1>4, <2>4, <3>6, Zenon DEF Bef
    <3>7. CASE k # p /\ k # q /\ l # p /\ l # q
      BY <1>2, <2>4, <3>7, Zenon DEF Bef
    <3> QED
      BY <1>0, <3>1, <3>2, <3>3, <3>4, <3>5, <3>6, <3>7, Zenon
  <2> QED
    BY <1>6, <2>3, <2>4, Zenon DEF Bef
<1> QED
  BY <1>5, <1>6, Zenon DEF Kept

(* The front or the end of a place leaves the way: as nothing is in two    *)
(* places, none of what is left has gone.                                  *)
LEMMA LeaveWay ==
  ASSUME NEW h, NEW h2, NEW pl, Contents(h), Own(h, pl), NEW p \in 1 .. 7,
         NEW a \in Seq(Mbufs), NEW b \in Seq(Mbufs), h[p] = a \o b, h2[p] = a \/ h2[p] = b,
         SameWay(h, h2, {p})
  PROVE  Kept(h, h2) /\ NoNew(h, h2)
<1>0. p \in 1 .. 11 /\ \A k \in 1 .. 7 : k \in 1 .. 11
  OBVIOUS
<1>1. h[p] \in Seq(Mbufs) /\ \A k \in 1 .. 7 : k # p => h2[k] = h[k]
  BY <1>0, Zenon DEF Contents, SameWay
<1>2. Range(h[p]) = Range(a) \cup Range(b)
  BY JoinRange, Zenon
<1>3. Range(a) \cap Range(b) = {}
  <2>1. IsInjective(h[p])
    BY <1>0, Zenon DEF Own
  <2>2. IsInjective(a \o b)
    BY <2>1
  <2> QED
    BY <2>2, JoinInjective, Zenon
<1>4. \A k \in 1 .. 7 : \A m : m \in Range(h2[k]) => m \in Range(h[k])
  BY <1>1, <1>2, Zenon
<1>5. NoNew(h, h2)
  BY <1>4, Zenon DEF NoNew, On
<1>6. ASSUME NEW m, NEW k \in 1 .. 7, m \in Range(h[k]), On(h2, m) PROVE m \in Range(h2[k])
  <2>1. PICK l \in 1 .. 7 : m \in Range(h2[l])
    BY <1>6, Zenon DEF On
  <2>2. l = k
    BY <1>0, <1>4, <1>6, <2>1, Zenon DEF Own
  <2> QED
    BY <2>1, <2>2, Zenon
<1>7. ASSUME NEW x, NEW y, Bef(h, x, y), On(h2, x), On(h2, y) PROVE Bef(h2, x, y)
  <2>1. Before(x, y, h[p]) => Before(x, y, a) \/ Before(x, y, b) \/ (x \in Range(a) /\ y \in Range(b))
    BY <1>1, JoinBefore
  <2>2. Before(x, y, h[p]) => x \in Range(h[p]) /\ y \in Range(h[p])
    BY <1>1, InRange, Zenon DEF Before
  <2>3. ASSUME Before(x, y, h[p]) PROVE Before(x, y, h2[p])
    <3>1. x \in Range(h2[p]) /\ y \in Range(h2[p])
      BY <1>6, <1>7, <2>2, <2>3, Zenon
    <3>2. \A s : Before(x, y, s) /\ s \in Seq(Mbufs) => x \in Range(s)
      BY InRange, Zenon DEF Before
    <3> QED
      BY <1>3, <2>1, <2>3, <3>1, <3>2, Zenon
  <2>4. ASSUME NEW k \in 1 .. 7, Before(x, y, h[k]) PROVE Bef(h2, x, y)
    BY <1>1, <2>3, <2>4, Zenon DEF Bef
  <2>5. ASSUME NEW k \in 1 .. 7, NEW l \in 1 .. 7, k < l, x \in Range(h[k]), y \in Range(h[l])
        PROVE  Bef(h2, x, y)
    BY <1>6, <1>7, <2>5, Zenon DEF Bef
  <2> QED
    BY <1>7, <2>4, <2>5, Zenon DEF Bef
<1> QED
  BY <1>5, <1>7, Zenon DEF Kept

(* Mbufs come to the end of a place of the way. *)
LEMMA EnterWay ==
  ASSUME NEW h, NEW h2, Contents(h), NEW q \in 1 .. 7, NEW s \in Seq(Mbufs),
         h2[q] = h[q] \o s, SameWay(h, h2, {q})
  PROVE  Kept(h, h2)
<1>0. q \in 1 .. 11
  OBVIOUS
<1>1. h[q] \in Seq(Mbufs) /\ \A k \in 1 .. 7 : k # q => h2[k] = h[k]
  BY <1>0, Zenon DEF Contents, SameWay
<1>2. Range(h2[q]) = Range(h[q]) \cup Range(s)
  BY <1>1, JoinRange, Zenon
<1>3. ASSUME NEW x, NEW y, Bef(h, x, y) PROVE Bef(h2, x, y)
  <2>1. Before(x, y, h[q]) => Before(x, y, h2[q])
    BY <1>1, JoinBefore
  <2>2. \A k \in 1 .. 7 : Before(x, y, h[k]) => Before(x, y, h2[k])
    BY <1>1, <2>1, Zenon
  <2>3. \A k \in 1 .. 7 : \A m : m \in Range(h[k]) => m \in Range(h2[k])
    BY <1>1, <1>2, Zenon
  <2> QED
    BY <1>3, <2>2, <2>3, Zenon DEF Bef
<1> QED
  BY <1>3, Zenon DEF Kept

(* Nothing on the way changes. *)
LEMMA OffWay ==
  ASSUME NEW h, NEW h2, SameWay(h, h2, {})
  PROVE  Kept(h, h2) /\ NoNew(h, h2)
<1>1. \A k \in 1 .. 7 : h2[k] = h[k]
  BY Zenon DEF SameWay
<1> QED
  BY <1>1, Zenon DEF Kept, NoNew, On, Bef

(* Two moves, the second of which brings nothing new. *)
LEMMA KeptTwice ==
  ASSUME NEW h, NEW h1, NEW h2, Kept(h, h1), Kept(h1, h2), NoNew(h1, h2)
  PROVE  Kept(h, h2)
  BY Zenon DEF Kept, NoNew
-----------------------------------------------------------------------------
(* The first mbuf of a place, and the rest. *)
LEMMA HeadAndTail ==
  ASSUME NEW s \in Seq(Mbufs), s # <<>>
  PROVE  /\ Head(s) \in Mbufs /\ <<Head(s)>> \in Seq(Mbufs) /\ Tail(s) \in Seq(Mbufs)
         /\ s = <<Head(s)>> \o Tail(s)
<1>1. /\ Head(s) \in Mbufs /\ Tail(s) \in Seq(Mbufs) /\ Len(Tail(s)) = Len(s) - 1
      /\ \A i \in 1 .. Len(Tail(s)) : Tail(s)[i] = s[i + 1]
  BY HeadTailProperties
<1>2. <<Head(s)>> \in Seq(Mbufs) /\ Len(<<Head(s)>>) = 1 /\ <<Head(s)>>[1] = s[1]
  BY <1>1
<1>3. Len(s) \in Nat
  OBVIOUS
<1> DEFINE u == <<Head(s)>> \o Tail(s)
<1>4. /\ u \in Seq(Mbufs) /\ Len(u) = Len(s)
      /\ \A i \in 1 .. Len(s) : u[i] = IF i <= 1 THEN <<Head(s)>>[i] ELSE Tail(s)[i - 1]
  BY <1>1, <1>2, <1>3, ConcatProperties
<1> HIDE DEF u
<1>5. \A i \in 1 .. Len(s) : u[i] = s[i]
  <2>1. SUFFICES ASSUME NEW i \in 1 .. Len(s) PROVE u[i] = s[i]
    OBVIOUS
  <2>2. CASE i = 1
    BY <1>2, <1>4, <2>2
  <2>3. CASE i # 1
    <3>1. i - 1 \in 1 .. Len(Tail(s)) /\ (i - 1) + 1 = i /\ ~(i <= 1)
      BY <1>1, <1>3, <2>3
    <3> QED
      BY <1>1, <1>4, <3>1
  <2> QED
    BY <2>2, <2>3
<1>6. u = s
  BY <1>4, <1>5, SeqEqual
<1> QED
  BY <1>1, <1>2, <1>6 DEF u

(* A sequence cut after its first n elements. *)
LEMMA Cut ==
  ASSUME NEW s \in Seq(Mbufs), NEW n \in 0 .. Len(s)
  PROVE  /\ SubSeq(s, 1, n) \in Seq(Mbufs) /\ Len(SubSeq(s, 1, n)) = n
         /\ SubSeq(s, n + 1, Len(s)) \in Seq(Mbufs)
         /\ s = SubSeq(s, 1, n) \o SubSeq(s, n + 1, Len(s))
         /\ n = Len(s) => SubSeq(s, 1, n) = s
<1>1. Len(s) \in Nat /\ n \in Nat /\ n \in 1 - 1 .. Len(s) /\ Len(s) \in 0 .. Len(s)
  OBVIOUS
<1>2. \A i \in 1 .. Len(s) : s[i] \in Mbufs
  BY ElementOfSeq
<1>3. SubSeq(s, 1, n) \in Seq(Mbufs) /\ Len(SubSeq(s, 1, n)) = n
  BY <1>1, <1>2, SubSeqProperties
<1>4. SubSeq(s, n + 1, Len(s)) \in Seq(Mbufs)
  BY <1>1, <1>2, SubSeqProperties
<1>5. SubSeq(s, 1, Len(s)) = s
  BY SubSeqFull
<1>6. SubSeq(s, 1, n) \o SubSeq(s, n + 1, Len(s)) = SubSeq(s, 1, Len(s))
  <2>1. 1 \in 1 .. Len(s) + 1 /\ n \in 1 - 1 .. Len(s) /\ Len(s) \in n .. Len(s)
    BY <1>1
  <2> QED
    BY <2>1, ConcatAdjacentSubSeq, Zenon
<1> QED
  BY <1>3, <1>4, <1>5, <1>6, Zenon
-----------------------------------------------------------------------------
(* What an output buffer and its ring come to. *)

(* A buffer is enqueued to the next place of the way, or freed. *)
LEMMA FlushMoves ==
  ASSUME NEW h, NEW h2, NEW pl, NEW pl2, Contents(h), Own(h, pl),
         NEW q \in 2 .. 7, NEW r \in 1 .. 6, r + 1 = q, h2[q] = <<>>, SameBut(h, h2, {q, r}),
         \/ h2[r] = h[r] \o h[q] /\ pl2 = pl
         \/ h2[r] = h[r] /\ pl2 = pl \cup Range(h[q])
  PROVE  Contents(h2) /\ Own(h2, pl2) /\ Kept(h, h2) /\ NoNew(h, h2) /\ (All(h, pl) => All(h2, pl2))
<1>1. q \in 1 .. 11 /\ r \in 1 .. 11 /\ q # r /\ q \in 1 .. 7
  OBVIOUS
<1>2. h[q] \in Seq(Mbufs) /\ <<>> \in Seq(Mbufs)
  BY <1>1, EmptySeq, Zenon DEF Contents
<1>3. h[q] = h[q] \o <<>>
  BY <1>2, ConcatEmptySeq
<1>4. CASE h2[r] = h[r] \o h[q] /\ pl2 = pl
  <2>1. Moved(h, h2, q, r, h[q], <<>>)
    BY <1>3, <1>4, Zenon DEF Moved
  <2>2. Contents(h2) /\ Own(h2, pl2) /\ (All(h, pl) => All(h2, pl2))
    BY <1>1, <1>2, <1>4, <2>1, MoveOwn, Zenon
  <2>3. Kept(h, h2) /\ NoNew(h, h2)
    BY <1>2, <2>1, MoveAlong, Zenon
  <2> QED
    BY <2>2, <2>3
<1>5. CASE h2[r] = h[r] /\ pl2 = pl \cup Range(h[q])
  <2>1. SameBut(h, h2, {q})
    BY <1>5, Zenon DEF SameBut
  <2>2. SameWay(h, h2, {q})
    BY <2>1, SameOnWay, Zenon
  <2>3. pl \subseteq pl2 /\ pl2 \subseteq pl \cup Range(h[q])
    BY <1>5, Zenon
  <2>4. Contents(h2) /\ Own(h2, pl2) /\ (All(h, pl) => All(h2, pl2))
    BY <1>1, <1>2, <1>3, <1>5, <2>1, <2>3, FreeOwn, Zenon
  <2>5. Kept(h, h2) /\ NoNew(h, h2)
    BY <1>1, <1>2, <1>3, <2>2, LeaveWay, Zenon
  <2> QED
    BY <2>4, <2>5
<1> QED
  BY <1>4, <1>5, Zenon

(* The mbuf at the front of an input array is put in the output buffer,    *)
(* and the buffer, or its first n mbufs, may be enqueued or freed.         *)
Sent(h, h2, pl, pl2, p, q, r, m, rest, o, n) ==
  /\ p \in 3 .. 7 /\ q \in 2 .. 6 /\ r \in 1 .. 5 /\ q + 1 = p /\ r + 1 = q
  /\ m \in Mbufs /\ rest \in Seq(Mbufs) /\ h[p] = <<m>> \o rest /\ h2[p] = rest
  /\ SameBut(h, h2, {p, q, r})
  /\ o = Append(h[q], m) /\ n \in 0 .. Len(o)
  /\ \/ h2[q] = o /\ h2[r] = h[r] /\ pl2 = pl
     \/ h2[q] = <<>> /\ h2[r] = h[r] \o SubSeq(o, 1, n) /\ pl2 = pl
     \/ h2[q] = <<>> /\ h2[r] = h[r] /\ pl2 = pl \cup Range(SubSeq(o, 1, n))

(* Three moves at most. *)
LEMMA SendMoves ==
  ASSUME NEW h, NEW h2, NEW pl, NEW pl2, Contents(h), Own(h, pl),
         NEW p, NEW q, NEW r, NEW m, NEW rest, NEW o, NEW n,
         Sent(h, h2, pl, pl2, p, q, r, m, rest, o, n)
  PROVE  Contents(h2) /\ Own(h2, pl2) /\ Kept(h, h2) /\ (All(h, pl) /\ n = Len(o) => All(h2, pl2))
<1>0. /\ m \in Mbufs /\ rest \in Seq(Mbufs) /\ h[p] = <<m>> \o rest /\ h2[p] = rest
      /\ SameBut(h, h2, {p, q, r})
      /\ o = Append(h[q], m) /\ n \in 0 .. Len(o)
      /\ \/ h2[q] = o /\ h2[r] = h[r] /\ pl2 = pl
         \/ h2[q] = <<>> /\ h2[r] = h[r] \o SubSeq(o, 1, n) /\ pl2 = pl
         \/ h2[q] = <<>> /\ h2[r] = h[r] /\ pl2 = pl \cup Range(SubSeq(o, 1, n))
  BY Zenon DEF Sent
<1>1. /\ p \in 1 .. 11 /\ q \in 1 .. 11 /\ r \in 1 .. 11 /\ p # q /\ q # r /\ p # r
      /\ p \in 2 .. 7 /\ q \in 1 .. 6 /\ q \in 1 .. 7 /\ q \in 2 .. 7 /\ r \in 1 .. 6
      /\ q + 1 = p /\ r + 1 = q
  <2>1. p \in 3 .. 7 /\ q \in 2 .. 6 /\ r \in 1 .. 5 /\ q + 1 = p /\ r + 1 = q
    BY DEF Sent
  <2> QED
    BY <2>1
<1>2. h[q] \in Seq(Mbufs) /\ <<m>> \in Seq(Mbufs)
  <2>1. h[q] \in Seq(Mbufs)
    BY <1>1, Zenon DEF Contents
  <2> QED
    BY <1>0, <2>1
<1>3. o = h[q] \o <<m>> /\ o \in Seq(Mbufs)
  BY <1>0, <1>2, AppendIsConcat, AppendProperties, Zenon
<1> DEFINE h1 == [k \in 1 .. 11 |-> IF k = p THEN rest ELSE IF k = q THEN o ELSE h[k]]
           h3 == [k \in 1 .. 11 |-> IF k = p THEN rest ELSE IF k = q THEN SubSeq(o, 1, n) ELSE h[k]]
<1>4. h1[p] = rest /\ h1[q] = o /\ SameBut(h, h1, {p, q}) /\ h1[r] = h[r]
  BY <1>1, Zenon DEF SameBut
<1>5. h3[q] = SubSeq(o, 1, n) /\ h3[p] = rest /\ h3[r] = h[r] /\ SameBut(h1, h3, {q})
  BY <1>1, Zenon DEF SameBut
<1>6. SameBut(h3, h2, {q, r}) /\ SameBut(h1, h2, {q, r})
  BY <1>0, <1>1, Zenon DEF SameBut, h1, h3
<1> HIDE DEF h1, h3
<1>7. Moved(h, h1, p, q, <<m>>, rest)
  BY <1>0, <1>3, <1>4, Zenon DEF Moved
<1>8. Contents(h1) /\ Own(h1, pl) /\ (All(h, pl) => All(h1, pl))
  BY <1>0, <1>1, <1>2, <1>7, MoveOwn, ZenonT(30)
<1>9. Kept(h, h1) /\ NoNew(h, h1)
  BY <1>0, <1>1, <1>2, <1>7, MoveAlong, Zenon
<1>10. /\ SubSeq(o, 1, n) \in Seq(Mbufs) /\ SubSeq(o, n + 1, Len(o)) \in Seq(Mbufs)
       /\ o = SubSeq(o, 1, n) \o SubSeq(o, n + 1, Len(o))
       /\ n = Len(o) => SubSeq(o, 1, n) = o
  BY <1>0, <1>3, Cut, Zenon
<1>11. Contents(h3) /\ Own(h3, pl)
  BY <1>1, <1>4, <1>5, <1>8, <1>10, LoseOwn, Zenon
<1>12. SameWay(h1, h3, {q})
  BY <1>5, SameOnWay, Zenon
<1>13. Kept(h1, h3) /\ NoNew(h1, h3)
  BY <1>1, <1>4, <1>5, <1>8, <1>10, <1>12, LeaveWay, Zenon
<1>14. Kept(h, h3)
  BY <1>9, <1>13, KeptTwice, Zenon
<1>15. CASE h2[q] = o /\ h2[r] = h[r] /\ pl2 = pl
  <2>1. SameBut(h, h2, {p, q})
    BY <1>0, <1>15, Zenon DEF SameBut
  <2>2. Moved(h, h2, p, q, <<m>>, rest)
    BY <1>0, <1>3, <1>15, <2>1, Zenon DEF Moved
  <2>3. Contents(h2) /\ Own(h2, pl) /\ (All(h, pl) => All(h2, pl))
    BY <1>0, <1>1, <1>2, <2>2, MoveOwn, ZenonT(30)
  <2>4. Kept(h, h2)
    BY <1>0, <1>1, <1>2, <2>2, MoveAlong, Zenon
  <2> QED
    BY <1>15, <2>3, <2>4
<1>16. CASE h2[q] = <<>> /\ \/ h2[r] = h[r] \o SubSeq(o, 1, n) /\ pl2 = pl
                            \/ h2[r] = h[r] /\ pl2 = pl \cup Range(SubSeq(o, 1, n))
  <2>1. \/ h2[r] = h3[r] \o h3[q] /\ pl2 = pl
        \/ h2[r] = h3[r] /\ pl2 = pl \cup Range(h3[q])
    BY <1>5, <1>16, Zenon
  <2>2. Contents(h2) /\ Own(h2, pl2) /\ Kept(h3, h2) /\ NoNew(h3, h2) /\ (All(h3, pl) => All(h2, pl2))
    BY <1>1, <1>6, <1>11, <1>16, <2>1, FlushMoves, Zenon
  <2>3. Kept(h, h2)
    BY <1>14, <2>2, KeptTwice, Zenon
  <2>4. ASSUME All(h, pl), n = Len(o) PROVE All(h2, pl2)
    <3>1. SubSeq(o, 1, n) = o
      BY <1>10, <2>4
    <3>2. \/ h2[r] = h1[r] \o h1[q] /\ pl2 = pl
          \/ h2[r] = h1[r] /\ pl2 = pl \cup Range(h1[q])
      BY <1>4, <1>16, <3>1, Zenon
    <3>3. All(h1, pl) => All(h2, pl2)
      BY <1>1, <1>6, <1>8, <1>16, <3>2, FlushMoves, Zenon
    <3> QED
      BY <1>8, <2>4, <3>3
  <2> QED
    BY <2>2, <2>3, <2>4
<1> QED
  BY <1>0, <1>15, <1>16, Zenon
-----------------------------------------------------------------------------
(* The state: types, and a core at the top of its cycle has handled the    *)
(* burst before.                                                           *)
PathInv ==
  /\ cfg \in Configs
  /\ ring \in [Rings -> Seq(Mbufs)]
  /\ inp \in [{"rx", "wk"} -> Seq(Mbufs)]
  /\ out \in [CoresOut -> Seq(Mbufs)]
  /\ at \in [CoresOut -> {"top", "work", "diverted", "tap", "flush"}]
  /\ \A c \in {"rx", "wk"} : at[c] = "top" => inp[c] = <<>>

(* The places before and after a step. *)
LEMMA HoldNow ==
  /\ Hold[1] = out["tx"] /\ Hold[2] = ring["wk_tx"] /\ Hold[3] = out["wk"] /\ Hold[4] = inp["wk"]
  /\ Hold[5] = ring["rx_wk"] /\ Hold[6] = out["rx"] /\ Hold[7] = inp["rx"] /\ Hold[8] = ring["rx_tap"]
  /\ Hold[9] = ring["err"] /\ Hold[10] = ring["tap_tx"] /\ Hold[11] = ring["warm"]
  BY DEF Hold

(* The same after the step. *)
LEMMA HoldThen ==
  /\ Hold'[1] = out'["tx"] /\ Hold'[2] = ring'["wk_tx"] /\ Hold'[3] = out'["wk"]
  /\ Hold'[4] = inp'["wk"] /\ Hold'[5] = ring'["rx_wk"] /\ Hold'[6] = out'["rx"]
  /\ Hold'[7] = inp'["rx"] /\ Hold'[8] = ring'["rx_tap"] /\ Hold'[9] = ring'["err"]
  /\ Hold'[10] = ring'["tap_tx"] /\ Hold'[11] = ring'["warm"]
  BY DEF Hold

(* Places, one by one. *)
LEMMA OneOfEleven ==
  \A p \in 1 .. 11 : \/ p = 1 \/ p = 2 \/ p = 3 \/ p = 4 \/ p = 5 \/ p = 6 \/ p = 7 \/ p = 8
                     \/ p = 9 \/ p = 10 \/ p = 11
  OBVIOUS

(* Well typed arrays and rings are contents. *)
LEMMA ContentsNow == PathInv => Contents(Hold)
<1> SUFFICES ASSUME PathInv, NEW p \in 1 .. 11 PROVE Hold[p] \in Seq(Mbufs)
  BY Zenon DEF Contents
<1>1. /\ out["tx"] \in Seq(Mbufs) /\ out["wk"] \in Seq(Mbufs) /\ out["rx"] \in Seq(Mbufs)
      /\ inp["wk"] \in Seq(Mbufs) /\ inp["rx"] \in Seq(Mbufs)
      /\ \A r \in Rings : ring[r] \in Seq(Mbufs)
  BY DEF PathInv, CoresOut
<1>2. /\ ring["wk_tx"] \in Seq(Mbufs) /\ ring["rx_wk"] \in Seq(Mbufs) /\ ring["rx_tap"] \in Seq(Mbufs)
      /\ ring["err"] \in Seq(Mbufs) /\ ring["tap_tx"] \in Seq(Mbufs) /\ ring["warm"] \in Seq(Mbufs)
  BY <1>1 DEF Rings
<1> QED
  BY <1>1, <1>2, HoldNow, OneOfEleven, Zenon

(* And the other way round, after a step. *)
LEMMA TypesThen ==
  ASSUME Contents(Hold'), ring' = [r \in Rings |-> ring'[r]],
         inp' = [c \in {"rx", "wk"} |-> inp'[c]], out' = [c \in CoresOut |-> out'[c]]
  PROVE  /\ ring' \in [Rings -> Seq(Mbufs)]
         /\ inp' \in [{"rx", "wk"} -> Seq(Mbufs)]
         /\ out' \in [CoresOut -> Seq(Mbufs)]
<1>1. \A k \in {1, 2, 3, 4, 5, 6, 7, 8, 9, 10, 11} : k \in 1 .. 11
  OBVIOUS
<1>2. \A k \in {1, 2, 3, 4, 5, 6, 7, 8, 9, 10, 11} : Hold'[k] \in Seq(Mbufs)
  BY <1>1, Zenon DEF Contents
<1>3. \A r \in Rings : ring'[r] \in Seq(Mbufs)
  BY <1>2, HoldThen, Zenon DEF Rings
<1>4. \A c \in {"rx", "wk"} : inp'[c] \in Seq(Mbufs)
  BY <1>2, HoldThen, Zenon
<1>5. \A c \in CoresOut : out'[c] \in Seq(Mbufs)
  BY <1>2, HoldThen, Zenon DEF CoresOut
<1> QED
  BY <1>3, <1>4, <1>5, Zenon

(* The smaller of two numbers. *)
LEMMA MinOfTwo ==
  ASSUME NEW a \in Nat, NEW b \in Nat
  PROVE  Min({a, b}) \in Nat /\ Min({a, b}) <= a /\ Min({a, b}) <= b
<1>1. \E x \in {a, b} : \A y \in {a, b} : x =< y
  OBVIOUS
<1>2. Min({a, b}) \in {a, b} /\ \A y \in {a, b} : Min({a, b}) =< y
  BY <1>1 DEF Min
<1> QED
  BY <1>2

(* A burst and what it leaves are the ring. *)
LEMMA BurstParts ==
  ASSUME PathInv, NEW r \in Rings
  PROVE  /\ BurstOf(r) \in Seq(Mbufs) /\ RestOf(r) \in Seq(Mbufs)
         /\ ring[r] = BurstOf(r) \o RestOf(r)
<1>1. ring[r] \in Seq(Mbufs) /\ Len(ring[r]) \in Nat /\ cfg.fm \in Nat
  BY ConfigAssumption DEF PathInv
<1>2. Min({cfg.fm, Len(ring[r])}) \in 0 .. Len(ring[r])
  BY <1>1, MinOfTwo
<1> QED
  BY <1>1, <1>2, Cut, Zenon DEF BurstOf, RestOf
-----------------------------------------------------------------------------
(* What every step has to show.                                            *)
Good == Contents(Hold') /\ Own(Hold', pool') /\ Kept(Hold, Hold')
Whole == All(Hold, pool) => All(Hold', pool')

(* A packet is forwarded: p, q and r are the places of the input array,    *)
(* the output buffer and the ring of core c.                               *)
LEMMA SendStep ==
  ASSUME PathInv, Own(Hold, pool), NEW c \in {"rx", "wk"}, NEW rg \in Rings,
         NEW p \in 3 .. 7, NEW q \in 2 .. 6, NEW r \in 1 .. 5, q + 1 = p, r + 1 = q,
         inp[c] # <<>>, SendOrBuffer(c, rg, Head(inp[c])), inp' = [inp EXCEPT ![c] = Tail(@)],
         Hold[p] = inp[c], Hold'[p] = inp'[c], Hold[q] = out[c], Hold'[q] = out'[c],
         Hold[r] = ring[rg], Hold'[r] = ring'[rg], SameBut(Hold, Hold', {p, q, r})
  PROVE  Good /\ (Len(out[c]) < cfg.to => Whole)
<1> DEFINE m == Head(inp[c])
           o == Append(out[c], m)
<1>1. /\ inp[c] \in Seq(Mbufs) /\ out[c] \in Seq(Mbufs) /\ ring[rg] \in Seq(Mbufs)
      /\ cfg.to \in Nat \ {0} /\ Contents(Hold)
  BY ConfigAssumption, ContentsNow DEF PathInv, CoresOut
<1>2. m \in Mbufs /\ Tail(inp[c]) \in Seq(Mbufs) /\ inp[c] = <<m>> \o Tail(inp[c])
  BY <1>1, HeadAndTail, Zenon
<1>3. inp'[c] = Tail(inp[c])
  BY DEF PathInv
<1>4. o \in Seq(Mbufs) /\ Len(o) = Len(out[c]) + 1 /\ Len(o) \in Nat
  BY <1>1, <1>2, AppendProperties
<1>5. \/ Len(o) < cfg.to /\ out'[c] = o /\ ring'[rg] = ring[rg] /\ pool' = pool
      \/ /\ Len(o) >= cfg.to /\ out'[c] = <<>>
         /\ \/ ring'[rg] = ring[rg] \o SubSeq(o, 1, cfg.to) /\ pool' = pool
            \/ ring'[rg] = ring[rg] /\ pool' = pool \cup Range(SubSeq(o, 1, cfg.to))
  <2>1. out \in [CoresOut -> Seq(Mbufs)] /\ c \in CoresOut /\ ring \in [Rings -> Seq(Mbufs)]
    BY DEF PathInv, CoresOut
  <2>2. \/ Len(o) < cfg.to /\ out' = [out EXCEPT ![c] = o] /\ ring' = ring /\ pool' = pool
        \/ /\ ~(Len(o) < cfg.to) /\ out' = [out EXCEPT ![c] = <<>>]
           /\ \/ ring' = [ring EXCEPT ![rg] = @ \o SubSeq(o, 1, cfg.to)] /\ pool' = pool
              \/ ring' = ring /\ pool' = pool \cup Range(SubSeq(o, 1, cfg.to))
    BY Zenon DEF SendOrBuffer, Enqueue
  <2> HIDE DEF o, m
  <2>3. \A x : out' = [out EXCEPT ![c] = x] => out'[c] = x
    BY <2>1
  <2>4. \A x : ring' = [ring EXCEPT ![rg] = x] => ring'[rg] = x
    BY <2>1
  <2>5. ~(Len(o) < cfg.to) => Len(o) >= cfg.to
    BY <1>1, <1>4
  <2> QED
    BY <1>1, <1>4, <2>1, <2>3, <2>4, <2>5, <2>2, Zenon
<1> HIDE DEF o
<1>6. o = Append(Hold[q], m)
  BY DEF o
<1> HIDE DEF m
<1>7. Hold[p] = <<m>> \o Tail(inp[c]) /\ Hold'[p] = Tail(inp[c])
  BY <1>2, <1>3, Zenon
<1>8. CASE Len(o) < cfg.to /\ out'[c] = o /\ ring'[rg] = ring[rg] /\ pool' = pool
  <2>1. Len(o) \in 0 .. Len(o)
    BY <1>4
  <2>2. Hold'[q] = o /\ Hold'[r] = Hold[r] /\ pool' = pool
    BY <1>8, Zenon
  <2>3. Sent(Hold, Hold', pool, pool', p, q, r, m, Tail(inp[c]), o, Len(o))
    BY <1>2, <1>6, <1>7, <2>1, <2>2, Zenon DEF Sent
  <2>4. Contents(Hold')
    <3>1. \A h2, pl2, mm, oo, tt, nn :
            Sent(Hold, h2, pool, pl2, p, q, r, mm, tt, oo, nn) => Contents(h2)
      BY <1>1, SendMoves, Zenon
    <3> QED
      BY <2>3, <3>1, Zenon
  <2>5. Own(Hold', pool') /\ Kept(Hold, Hold')
    <3>1. \A h2, pl2, mm, oo, tt, nn :
            Sent(Hold, h2, pool, pl2, p, q, r, mm, tt, oo, nn) => Own(h2, pl2) /\ Kept(Hold, h2)
      BY <1>1, SendMoves, Zenon
    <3> QED
      BY <2>3, <3>1, Zenon
  <2>6. All(Hold, pool) => All(Hold', pool')
    <3>1. \A h2, pl2, mm, oo, tt, nn :
            /\ Sent(Hold, h2, pool, pl2, p, q, r, mm, tt, oo, nn)
            /\ nn = Len(oo) /\ All(Hold, pool)
            => All(h2, pl2)
      BY <1>1, SendMoves, Zenon
    <3> QED
      BY <2>3, <3>1, Zenon
  <2> QED
    BY <2>4, <2>5, <2>6, Zenon DEF Good, Whole
<1>9. CASE /\ Len(o) >= cfg.to /\ out'[c] = <<>>
           /\ \/ ring'[rg] = ring[rg] \o SubSeq(o, 1, cfg.to) /\ pool' = pool
              \/ ring'[rg] = ring[rg] /\ pool' = pool \cup Range(SubSeq(o, 1, cfg.to))
  <2>1. cfg.to \in 0 .. Len(o)
    BY <1>1, <1>4, <1>9
  <2>2. \/ Hold'[q] = <<>> /\ Hold'[r] = Hold[r] \o SubSeq(o, 1, cfg.to) /\ pool' = pool
        \/ Hold'[q] = <<>> /\ Hold'[r] = Hold[r] /\ pool' = pool \cup Range(SubSeq(o, 1, cfg.to))
    BY <1>9, Zenon
  <2>3. Sent(Hold, Hold', pool, pool', p, q, r, m, Tail(inp[c]), o, cfg.to)
    BY <1>2, <1>6, <1>7, <2>1, <2>2, Zenon DEF Sent
  <2>4. Contents(Hold')
    <3>1. \A h2, pl2, mm, oo, tt, nn :
            Sent(Hold, h2, pool, pl2, p, q, r, mm, tt, oo, nn) => Contents(h2)
      BY <1>1, SendMoves, Zenon
    <3> QED
      BY <2>3, <3>1, Zenon
  <2>5. Own(Hold', pool') /\ Kept(Hold, Hold')
    <3>1. \A h2, pl2, mm, oo, tt, nn :
            Sent(Hold, h2, pool, pl2, p, q, r, mm, tt, oo, nn) => Own(h2, pl2) /\ Kept(Hold, h2)
      BY <1>1, SendMoves, Zenon
    <3> QED
      BY <2>3, <3>1, Zenon
  <2>6. All(Hold, pool) /\ cfg.to = Len(o) => All(Hold', pool')
    <3>1. \A h2, pl2, mm, oo, tt, nn :
            /\ Sent(Hold, h2, pool, pl2, p, q, r, mm, tt, oo, nn)
            /\ nn = Len(oo) /\ All(Hold, pool)
            => All(h2, pl2)
      BY <1>1, SendMoves, Zenon
    <3> QED
      BY <2>3, <3>1, Zenon
  <2>7. Len(out[c]) < cfg.to => cfg.to = Len(o)
    BY <1>1, <1>4, <1>9
  <2> QED
    BY <2>4, <2>5, <2>6, <2>7, Zenon DEF Good, Whole
<1> QED
  BY <1>5, <1>8, <1>9, Zenon

(* The end of a cycle, which may flush the buffer at q to the ring at r.   *)
LEMMA FlushStep ==
  ASSUME PathInv, Own(Hold, pool), NEW c \in {"rx", "wk"}, NEW rg \in Rings,
         NEW q \in 2 .. 7, NEW r \in 1 .. 6, r + 1 = q, EndCycle(c, rg),
         Hold[q] = out[c], Hold'[q] = out'[c], Hold[r] = ring[rg], Hold'[r] = ring'[rg],
         SameBut(Hold, Hold', {q, r})
  PROVE  Good /\ Whole
<1>1. Contents(Hold) /\ q \in 1 .. 11 /\ r \in 1 .. 11
  BY ContentsNow
<1>2. \/ out' = out /\ ring' = ring /\ pool' = pool
      \/ /\ out' = [out EXCEPT ![c] = <<>>]
         /\ \/ ring' = [ring EXCEPT ![rg] = @ \o out[c]] /\ pool' = pool
            \/ ring' = ring /\ pool' = pool \cup Range(out[c])
  BY Zenon DEF EndCycle, BurstFlush, Enqueue
<1>3. CASE out' = out /\ ring' = ring /\ pool' = pool
  <2>1. \A k \in 1 .. 11 : Hold'[k] = Hold[k]
    BY <1>3, Zenon DEF SameBut
  <2>2. Contents(Hold') /\ Own(Hold', pool')
    BY <1>1, <1>3, <2>1, Zenon DEF Contents, Own
  <2>3. \A k \in 1 .. 7 : k \in 1 .. 11
    OBVIOUS
  <2>4. Kept(Hold, Hold')
    <3>1. SameWay(Hold, Hold', {})
      BY <2>1, <2>3, Zenon DEF SameWay
    <3> QED
      BY <3>1, OffWay, ZenonT(30)
  <2>5. \A m : (\E k \in 1 .. 11 : m \in Range(Hold'[k])) <=> (\E k \in 1 .. 11 : m \in Range(Hold[k]))
    BY <2>1, Zenon
  <2>6. UNION {Range(Hold'[k]) : k \in 1 .. 11} = UNION {Range(Hold[k]) : k \in 1 .. 11}
    BY <2>5, Zenon
  <2>7. Whole
    BY <1>3, <2>6, Zenon DEF All, Whole
  <2> QED
    BY <2>2, <2>4, <2>7 DEF Good
<1>4. CASE /\ out' = [out EXCEPT ![c] = <<>>]
           /\ \/ ring' = [ring EXCEPT ![rg] = @ \o out[c]] /\ pool' = pool
              \/ ring' = ring /\ pool' = pool \cup Range(out[c])
  <2>1. /\ out'[c] = <<>>
        /\ \/ ring'[rg] = ring[rg] \o out[c] /\ pool' = pool
           \/ ring'[rg] = ring[rg] /\ pool' = pool \cup Range(out[c])
    BY <1>4 DEF PathInv, CoresOut
  <2>2. /\ Hold'[q] = <<>>
        /\ \/ Hold'[r] = Hold[r] \o Hold[q] /\ pool' = pool
           \/ Hold'[r] = Hold[r] /\ pool' = pool \cup Range(Hold[q])
    BY <2>1, Zenon
  <2>3. /\ Contents(Hold') /\ Own(Hold', pool') /\ Kept(Hold, Hold')
        /\ All(Hold, pool) => All(Hold', pool')
    BY <1>1, <2>2, FlushMoves, Zenon
  <2> QED
    BY <2>3, Zenon DEF Good, Whole
<1> QED
  BY <1>2, <1>3, <1>4, Zenon
-----------------------------------------------------------------------------
(* What an assignment to one array, buffer or ring leaves alone. *)
LEMMA OutBut ==
  ASSUME PathInv, NEW c \in CoresOut, NEW x, out' = [out EXCEPT ![c] = x]
  PROVE  out'[c] = x /\ \A d \in CoresOut : d # c => out'[d] = out[d]
  BY DEF PathInv

(* The same for the rings. *)
LEMMA RingBut ==
  ASSUME PathInv, NEW r \in Rings, NEW x, ring' = [ring EXCEPT ![r] = x]
  PROVE  ring'[r] = x /\ \A s \in Rings : s # r => ring'[s] = ring[s]
  BY DEF PathInv

(* The same for the input arrays. *)
LEMMA InpBut ==
  ASSUME PathInv, NEW c \in {"rx", "wk"}, NEW x, inp' = [inp EXCEPT ![c] = x]
  PROVE  inp'[c] = x /\ \A d \in {"rx", "wk"} : d # c => inp'[d] = inp[d]
  BY DEF PathInv

(* What Enqueue and SendOrBuffer may change. *)
LEMMA SendFrame ==
  ASSUME PathInv, NEW c \in {"rx", "wk"}, NEW rg \in Rings, NEW m, SendOrBuffer(c, rg, m)
  PROVE  /\ \A d \in CoresOut : d # c => out'[d] = out[d]
         /\ \A s \in Rings : s # rg => ring'[s] = ring[s]
<1>1. c \in CoresOut
  BY DEF CoresOut
<1>2. \E x : out' = [out EXCEPT ![c] = x]
  BY Zenon DEF SendOrBuffer
<1>3. ring' = ring \/ \E x : ring' = [ring EXCEPT ![rg] = x]
  BY Zenon DEF SendOrBuffer, Enqueue
<1>4. \A d \in CoresOut : d # c => out'[d] = out[d]
  BY <1>1, <1>2, OutBut, Zenon
<1>5. \A s \in Rings : s # rg => ring'[s] = ring[s]
  BY <1>3, RingBut, Zenon
<1> QED
  BY <1>4, <1>5

(* What the end of a cycle may change. *)
LEMMA FlushFrame ==
  ASSUME PathInv, NEW c \in {"rx", "wk"}, NEW rg \in Rings, EndCycle(c, rg)
  PROVE  /\ \A d \in CoresOut : d # c => out'[d] = out[d]
         /\ \A s \in Rings : s # rg => ring'[s] = ring[s]
<1>1. c \in CoresOut
  BY DEF CoresOut
<1>2. out' = out \/ \E x : out' = [out EXCEPT ![c] = x]
  BY Zenon DEF EndCycle, BurstFlush
<1>3. ring' = ring \/ \E x : ring' = [ring EXCEPT ![rg] = x]
  BY Zenon DEF EndCycle, BurstFlush, Enqueue
<1>4. \A d \in CoresOut : d # c => out'[d] = out[d]
  BY <1>1, <1>2, OutBut, Zenon
<1>5. \A s \in Rings : s # rg => ring'[s] = ring[s]
  BY <1>3, RingBut, Zenon
<1> QED
  BY <1>4, <1>5

(* A place that keeps what it holds. *)
LEMMA SameHold ==
  ASSUME NEW S,
         1 \in S \/ out'["tx"] = out["tx"], 2 \in S \/ ring'["wk_tx"] = ring["wk_tx"],
         3 \in S \/ out'["wk"] = out["wk"], 4 \in S \/ inp'["wk"] = inp["wk"],
         5 \in S \/ ring'["rx_wk"] = ring["rx_wk"], 6 \in S \/ out'["rx"] = out["rx"],
         7 \in S \/ inp'["rx"] = inp["rx"], 8 \in S \/ ring'["rx_tap"] = ring["rx_tap"],
         9 \in S \/ ring'["err"] = ring["err"], 10 \in S \/ ring'["tap_tx"] = ring["tap_tx"],
         11 \in S \/ ring'["warm"] = ring["warm"]
  PROVE  SameBut(Hold, Hold', S)
<1>1. /\ 1 \in S \/ Hold'[1] = Hold[1]
      /\ 2 \in S \/ Hold'[2] = Hold[2]
      /\ 3 \in S \/ Hold'[3] = Hold[3]
      /\ 4 \in S \/ Hold'[4] = Hold[4]
  BY HoldNow, HoldThen
<1>2. /\ 5 \in S \/ Hold'[5] = Hold[5]
      /\ 6 \in S \/ Hold'[6] = Hold[6]
      /\ 7 \in S \/ Hold'[7] = Hold[7]
      /\ 8 \in S \/ Hold'[8] = Hold[8]
  BY HoldNow, HoldThen
<1>3. /\ 9 \in S \/ Hold'[9] = Hold[9]
      /\ 10 \in S \/ Hold'[10] = Hold[10]
      /\ 11 \in S \/ Hold'[11] = Hold[11]
  BY HoldNow, HoldThen
<1>4. ASSUME NEW p \in 1 .. 11, p \notin S PROVE Hold'[p] = Hold[p]
  BY <1>1, <1>2, <1>3, <1>4, OneOfEleven
<1> QED
  BY <1>4, Zenon DEF SameBut
-----------------------------------------------------------------------------
(* Buffers of the receiving core and of the worker are not full between    *)
(* two packets.                                                            *)
Filling == \A c \in {"rx", "wk"} : Len(out[c]) < cfg.to

(* A burst of the NIC. *)
LEMMA RxBurstKeeps ==
  ASSUME PathInv, Own(Hold, pool), RxBurst
  PROVE  Good /\ Whole
<1>1. PICK n \in 0 .. Min({cfg.fm, Cardinality(pool)}) : \E s \in [1 .. n -> pool] :
        IsInjective(s) /\ inp' = [inp EXCEPT !["rx"] = s] /\ pool' = pool \ Range(s)
  BY Zenon DEF RxBurst
<1>2. PICK s \in [1 .. n -> pool] :
        IsInjective(s) /\ inp' = [inp EXCEPT !["rx"] = s] /\ pool' = pool \ Range(s)
  BY <1>1, Zenon
<1>3. n \in Nat
  <2>1. pool \subseteq Mbufs
    BY Zenon DEF Own
  <2>2. Cardinality(pool) \in Nat
    BY <2>1, PoolAssumption, FS_Subset, FS_CardinalityType, Zenon
  <2>3. cfg.fm \in Nat
    BY ConfigAssumption DEF PathInv
  <2>4. Min({cfg.fm, Cardinality(pool)}) \in Nat
    BY <2>2, <2>3, MinOfTwo
  <2> QED
    BY <2>4
<1>4. s \in Seq(Mbufs) /\ Range(s) \subseteq pool
  <2>1. pool \subseteq Mbufs
    BY Zenon DEF Own
  <2>2. s \in [1 .. n -> Mbufs]
    BY <2>1
  <2>3. s \in Seq(Mbufs)
    BY <1>3, <2>2
  <2> QED
    BY <2>3, Zenon DEF Range
<1>5. inp["rx"] = <<>> /\ out' = out /\ ring' = ring
  BY Zenon DEF PathInv, RxBurst
<1>6. inp'["rx"] = s /\ inp'["wk"] = inp["wk"]
  BY <1>2, InpBut, Zenon
<1>7. SameBut(Hold, Hold', {7})
  BY <1>5, <1>6, SameHold
<1>8. Hold'[7] = Hold[7] \o s
  <2>1. <<>> \o s = s
    BY <1>4
  <2> QED
    BY <1>5, <1>6, <2>1, HoldNow, HoldThen
<1>9. Contents(Hold) /\ 7 \in 1 .. 11 /\ 7 \in 1 .. 7
  BY ContentsNow
<1>10. Contents(Hold') /\ Own(Hold', pool \ Range(s)) /\ (All(Hold, pool) => All(Hold', pool \ Range(s)))
  BY <1>2, <1>4, <1>7, <1>8, <1>9, TakeOwn, Zenon
<1>11. Kept(Hold, Hold')
  BY <1>4, <1>7, <1>8, <1>9, EnterWay, SameOnWay, Zenon
<1> QED
  BY <1>2, <1>10, <1>11 DEF Good, Whole

(* A block a goes from the front of place p to the end of place q. *)
Passes(h, h2, p, q, a, b) ==
  p \in 1 .. 11 /\ q \in 1 .. 11 /\ p # q /\ a \in Seq(Mbufs) /\ b \in Seq(Mbufs) /\ Moved(h, h2, p, q, a, b)

(* A block a at the front of place p is freed, or some of it is. *)
Frees(h, h2, pl, pl2, p, a, b) ==
  /\ p \in 1 .. 11 /\ a \in Seq(Mbufs) /\ b \in Seq(Mbufs) /\ h[p] = a \o b /\ h2[p] = b
  /\ SameBut(h, h2, {p}) /\ pl \subseteq pl2 /\ pl2 \subseteq pl \cup Range(a)

(* A block a at the front of place p leaves the way. *)
Leaves(h, h2, p, a, b) ==
  /\ p \in 1 .. 7 /\ a \in Seq(Mbufs) /\ b \in Seq(Mbufs) /\ h[p] = a \o b /\ h2[p] = b
  /\ SameWay(h, h2, {p})

(* A step that passes a block on. *)
LEMMA PassStep ==
  ASSUME NEW h, NEW h2, NEW pl, Contents(h), Own(h, pl), NEW p, NEW q, NEW a, NEW b, Passes(h, h2, p, q, a, b)
  PROVE  Contents(h2) /\ Own(h2, pl) /\ (All(h, pl) => All(h2, pl))
  BY MoveOwn, Zenon DEF Passes

(* A step that frees a block. *)
LEMMA FreeStep ==
  ASSUME NEW h, NEW h2, NEW pl, NEW pl2, Contents(h), Own(h, pl), NEW p, NEW a, NEW b,
         Frees(h, h2, pl, pl2, p, a, b)
  PROVE  /\ Contents(h2) /\ Own(h2, pl2)
         /\ All(h, pl) /\ pl2 = pl \cup Range(a) => All(h2, pl2)
  BY FreeOwn, Zenon DEF Frees

(* A step that takes a block off the way. *)
LEMMA LeaveStep ==
  ASSUME NEW h, NEW h2, NEW pl, Contents(h), Own(h, pl), NEW p, NEW a, NEW b, Leaves(h, h2, p, a, b)
  PROVE  Kept(h, h2) /\ NoNew(h, h2)
  BY LeaveWay, Zenon DEF Leaves

(* A single packet put in a ring or freed. *)
LEMMA EnqueueOne ==
  ASSUME PathInv, NEW rg \in Rings, NEW m, Enqueue(rg, <<m>>)
  PROVE  /\ \A s \in Rings : s # rg => ring'[s] = ring[s]
         /\ \/ ring'[rg] = ring[rg] \o <<m>> /\ pool' = pool
            \/ ring'[rg] = ring[rg] /\ pool' = pool \cup Range(<<m>>)
<1>1. \/ ring' = [ring EXCEPT ![rg] = ring[rg] \o <<m>>] /\ pool' = pool
      \/ ring' = ring /\ pool' = pool \cup Range(<<m>>)
  BY Zenon DEF Enqueue
<1> QED
  BY <1>1, RingBut, Zenon

(* A packet of the burst: to the worker, or to the tap core. *)
LEMMA RxPacketKeeps ==
  ASSUME PathInv, Own(Hold, pool), RxPacket
  PROVE  Good /\ (Filling => Whole)
<1>1. /\ inp["rx"] # <<>> /\ inp' = [inp EXCEPT !["rx"] = Tail(inp["rx"])]
      /\ \/ SendOrBuffer("rx", "rx_wk", Head(inp["rx"]))
         \/ Enqueue("rx_tap", <<Head(inp["rx"])>>) /\ out' = out
  BY Zenon DEF RxPacket
<1>2. inp'["rx"] = Tail(inp["rx"]) /\ inp'["wk"] = inp["wk"]
  BY <1>1, InpBut, Zenon
<1>3. /\ 7 \in 3 .. 7 /\ 6 \in 2 .. 6 /\ 5 \in 1 .. 5 /\ 6 + 1 = 7 /\ 5 + 1 = 6
      /\ 7 \in 1 .. 11 /\ 8 \in 1 .. 11 /\ 7 # 8 /\ 7 \in 1 .. 7
      /\ \A k \in 1 .. 7 : k # 8
  OBVIOUS
<1>4. CASE SendOrBuffer("rx", "rx_wk", Head(inp["rx"]))
  <2>1. /\ out'["wk"] = out["wk"] /\ out'["tx"] = out["tx"]
        /\ \A s \in Rings : s # "rx_wk" => ring'[s] = ring[s]
    BY <1>4, SendFrame DEF CoresOut, Rings
  <2>2. SameBut(Hold, Hold', {7, 6, 5})
    BY <1>2, <2>1, SameHold DEF Rings
  <2>3. Good /\ (Len(out["rx"]) < cfg.to => Whole)
    BY <1>1, <1>3, <1>4, <2>2, HoldNow, HoldThen, SendStep, ZenonT(30) DEF Rings
  <2> QED
    BY <2>3, Zenon DEF Filling
<1>5. CASE Enqueue("rx_tap", <<Head(inp["rx"])>>) /\ out' = out
  <2> DEFINE m == Head(inp["rx"])
             t == Tail(inp["rx"])
  <2>1. inp["rx"] \in Seq(Mbufs) /\ Contents(Hold)
    BY ContentsNow DEF PathInv
  <2>2. <<m>> \in Seq(Mbufs) /\ t \in Seq(Mbufs) /\ inp["rx"] = <<m>> \o t
    BY <1>1, <2>1, HeadAndTail, Zenon
  <2>3. /\ \A s \in Rings : s # "rx_tap" => ring'[s] = ring[s]
        /\ \/ ring'["rx_tap"] = ring["rx_tap"] \o <<m>> /\ pool' = pool
           \/ ring'["rx_tap"] = ring["rx_tap"] /\ pool' = pool \cup Range(<<m>>)
    BY <1>5, EnqueueOne DEF Rings
  <2> HIDE DEF m
  <2>4. Hold[7] = <<m>> \o t /\ Hold'[7] = t
    BY <1>2, <2>2, HoldNow, HoldThen
  <2>5. SameBut(Hold, Hold', {7, 8})
    BY <1>2, <1>5, <2>3, SameHold DEF Rings
  <2> HIDE DEF t
  <2>6. SameWay(Hold, Hold', {7})
    BY <2>5 DEF SameBut, SameWay
  <2>7. Kept(Hold, Hold')
    <3>1. Leaves(Hold, Hold', 7, <<m>>, t)
      BY <1>3, <2>2, <2>4, <2>6, Zenon DEF Leaves
    <3> QED
      BY <2>1, <3>1, LeaveStep, Zenon
  <2>8. CASE ring'["rx_tap"] = ring["rx_tap"] \o <<m>> /\ pool' = pool
    <3>1. Moved(Hold, Hold', 7, 8, <<m>>, t)
      BY <2>4, <2>5, <2>8, HoldNow, HoldThen DEF Moved
    <3>2. Contents(Hold') /\ Own(Hold', pool) /\ (All(Hold, pool) => All(Hold', pool))
      <4>1. Passes(Hold, Hold', 7, 8, <<m>>, t)
        BY <1>3, <2>2, <3>1, Zenon DEF Passes
      <4> QED
        BY <2>1, <4>1, PassStep, ZenonT(30)
    <3> QED
      BY <2>7, <2>8, <3>2 DEF Good, Whole
  <2>9. CASE ring'["rx_tap"] = ring["rx_tap"] /\ pool' = pool \cup Range(<<m>>)
    <3>1. Hold'[8] = Hold[8]
      BY <2>9, HoldNow, HoldThen
    <3>2. SameBut(Hold, Hold', {7})
      BY <2>5, <3>1, Zenon DEF SameBut
    <3>3. pool \subseteq pool' /\ pool' \subseteq pool \cup Range(<<m>>)
      BY <2>9, Zenon
    <3>4. Contents(Hold') /\ Own(Hold', pool') /\ (All(Hold, pool) => All(Hold', pool'))
      <4>1. Frees(Hold, Hold', pool, pool', 7, <<m>>, t)
        BY <1>3, <2>2, <2>4, <3>2, <3>3, ZenonT(30) DEF Frees
      <4> QED
        BY <2>1, <2>9, <4>1, FreeStep, Zenon
    <3> QED
      BY <2>7, <3>4 DEF Good, Whole
  <2> QED
    BY <2>3, <2>8, <2>9, Zenon
<1> QED
  BY <1>1, <1>4, <1>5, Zenon

(* The end of a cycle of the receiving core. *)
LEMMA RxEndKeeps ==
  ASSUME PathInv, Own(Hold, pool), RxEnd
  PROVE  Good /\ Whole
<1>1. EndCycle("rx", "rx_wk") /\ inp' = inp
  BY Zenon DEF RxEnd
<1>2. /\ out'["wk"] = out["wk"] /\ out'["tx"] = out["tx"]
      /\ \A s \in Rings : s # "rx_wk" => ring'[s] = ring[s]
  BY <1>1, FlushFrame DEF CoresOut, Rings
<1>3. SameBut(Hold, Hold', {6, 5})
  BY <1>1, <1>2, SameHold DEF Rings
<1>4. 6 \in 2 .. 7 /\ 5 \in 1 .. 6 /\ 5 + 1 = 6 /\ "rx_wk" \in Rings
  BY DEF Rings
<1> QED
  BY <1>1, <1>3, <1>4, HoldNow, HoldThen, FlushStep
-----------------------------------------------------------------------------
(* A block a goes from place p to the place before it on the way. *)
Advances(h, h2, p, q, a, b) ==
  p \in 2 .. 7 /\ q \in 1 .. 6 /\ q + 1 = p /\ a \in Seq(Mbufs) /\ b \in Seq(Mbufs) /\ Moved(h, h2, p, q, a, b)

(* A step that passes a block on along the way. *)
LEMMA AdvanceStep ==
  ASSUME NEW h, NEW h2, NEW pl, Contents(h), Own(h, pl), NEW p, NEW q, NEW a, NEW b, Advances(h, h2, p, q, a, b)
  PROVE  Contents(h2) /\ Own(h2, pl) /\ (All(h, pl) => All(h2, pl)) /\ Kept(h, h2) /\ NoNew(h, h2)
<1>1. p \in 2 .. 7 /\ q \in 1 .. 6 /\ q + 1 = p /\ a \in Seq(Mbufs) /\ b \in Seq(Mbufs) /\ Moved(h, h2, p, q, a, b)
  BY Zenon DEF Advances
<1>2. p \in 1 .. 11 /\ q \in 1 .. 11 /\ p # q
  BY <1>1
<1>3. Passes(h, h2, p, q, a, b)
  BY <1>1, <1>2, Zenon DEF Passes
<1>4. Contents(h2) /\ Own(h2, pl) /\ (All(h, pl) => All(h2, pl))
  BY <1>3, PassStep, Zenon
<1> QED
  BY <1>1, <1>4, MoveAlong, Zenon

(* A step that leaves every place and the pool alone. *)
LEMMA IdleStep ==
  ASSUME PathInv, Own(Hold, pool), ring' = ring, inp' = inp, out' = out, pool' = pool
  PROVE  Good /\ Whole
<1>1. SameBut(Hold, Hold', {}) /\ Contents(Hold)
  BY SameHold, ContentsNow
<1>2. \A k \in 1 .. 11 : Hold'[k] = Hold[k]
  BY <1>1, Zenon DEF SameBut
<1>3. Contents(Hold') /\ Own(Hold', pool')
  BY <1>1, <1>2, Zenon DEF Contents, Own
<1>4. Kept(Hold, Hold')
  BY <1>1, SameOnWay, OffWay, Zenon
<1>5. \A m : (\E k \in 1 .. 11 : m \in Range(Hold'[k])) <=> (\E k \in 1 .. 11 : m \in Range(Hold[k]))
  BY <1>2, Zenon
<1>6. UNION {Range(Hold'[k]) : k \in 1 .. 11} = UNION {Range(Hold[k]) : k \in 1 .. 11}
  BY <1>5, Zenon
<1>7. Whole
  BY <1>6, Zenon DEF All, Whole
<1> QED
  BY <1>3, <1>4, <1>7 DEF Good

(* A burst of the worker. *)
LEMMA WkBurstKeeps ==
  ASSUME PathInv, Own(Hold, pool), WkBurst
  PROVE  Good /\ Whole
<1> DEFINE a == BurstOf("rx_wk")
           b == RestOf("rx_wk")
<1>1. /\ inp["wk"] = <<>> /\ out' = out /\ pool' = pool
      /\ inp' = [inp EXCEPT !["wk"] = a] /\ ring' = [ring EXCEPT !["rx_wk"] = b]
  BY Zenon DEF PathInv, WkBurst
<1>2. a \in Seq(Mbufs) /\ b \in Seq(Mbufs) /\ ring["rx_wk"] = a \o b
  BY BurstParts, Zenon DEF Rings
<1> HIDE DEF a, b
<1>3. inp'["wk"] = a /\ inp'["rx"] = inp["rx"]
  BY <1>1, InpBut, Zenon
<1>4. ring'["rx_wk"] = b /\ \A s \in Rings : s # "rx_wk" => ring'[s] = ring[s]
  BY <1>1, RingBut, Zenon DEF Rings
<1>5. SameBut(Hold, Hold', {5, 4})
  BY <1>1, <1>3, <1>4, SameHold DEF Rings
<1>6. <<>> \o a = a
  BY <1>2
<1>7. Hold[5] = a \o b /\ Hold'[5] = b /\ Hold'[4] = Hold[4] \o a
  BY <1>1, <1>2, <1>3, <1>4, <1>6, HoldNow, HoldThen
<1>8. 5 \in 2 .. 7 /\ 4 \in 1 .. 6 /\ 4 + 1 = 5
  OBVIOUS
<1>9. Advances(Hold, Hold', 5, 4, a, b)
  BY <1>2, <1>5, <1>7, <1>8, Zenon DEF Advances, Moved
<1>10. Contents(Hold)
  BY ContentsNow, Zenon
<1>11. Contents(Hold') /\ Own(Hold', pool)
  BY <1>9, <1>10, AdvanceStep, Zenon
<1>12. All(Hold, pool) => All(Hold', pool)
  BY <1>9, <1>10, AdvanceStep, ZenonT(30)
<1>13. Kept(Hold, Hold')
  BY <1>9, <1>10, AdvanceStep, Zenon
<1> QED
  BY <1>1, <1>11, <1>12, <1>13, Zenon DEF Good, Whole

(* A packet of the worker: forwarded or freed. *)
LEMMA WkPacketKeeps ==
  ASSUME PathInv, Own(Hold, pool), WkPacket
  PROVE  Good /\ (Filling => Whole)
<1>1. /\ inp["wk"] # <<>> /\ inp' = [inp EXCEPT !["wk"] = Tail(inp["wk"])]
      /\ \/ SendOrBuffer("wk", "wk_tx", Head(inp["wk"]))
         \/ pool' = pool \cup {Head(inp["wk"])} /\ ring' = ring /\ out' = out
  BY Zenon DEF WkPacket
<1>2. inp'["wk"] = Tail(inp["wk"]) /\ inp'["rx"] = inp["rx"]
  BY <1>1, InpBut, Zenon
<1>3. /\ 4 \in 3 .. 7 /\ 3 \in 2 .. 6 /\ 2 \in 1 .. 5 /\ 3 + 1 = 4 /\ 2 + 1 = 3
      /\ 4 \in 1 .. 11 /\ 4 \in 1 .. 7
  OBVIOUS
<1>4. CASE SendOrBuffer("wk", "wk_tx", Head(inp["wk"]))
  <2>1. /\ out'["rx"] = out["rx"] /\ out'["tx"] = out["tx"]
        /\ \A s \in Rings : s # "wk_tx" => ring'[s] = ring[s]
    BY <1>4, SendFrame DEF CoresOut, Rings
  <2>2. SameBut(Hold, Hold', {4, 3, 2})
    BY <1>2, <2>1, SameHold, SMTT(30) DEF Rings
  <2>3. Good /\ (Len(out["wk"]) < cfg.to => Whole)
    BY <1>1, <1>3, <1>4, <2>2, HoldNow, HoldThen, SendStep DEF Rings
  <2> QED
    BY <2>3, Zenon DEF Filling
<1>5. CASE pool' = pool \cup {Head(inp["wk"])} /\ ring' = ring /\ out' = out
  <2> DEFINE m == Head(inp["wk"])
             t == Tail(inp["wk"])
  <2>1. inp["wk"] \in Seq(Mbufs) /\ Contents(Hold)
    BY ContentsNow DEF PathInv
  <2>2. <<m>> \in Seq(Mbufs) /\ t \in Seq(Mbufs) /\ inp["wk"] = <<m>> \o t
    BY <1>1, <2>1, HeadAndTail, Zenon
  <2>3. Hold[4] = <<m>> \o t /\ Hold'[4] = t
    BY <1>2, <2>2, HoldNow, HoldThen
  <2>4. SameBut(Hold, Hold', {4})
    BY <1>2, <1>5, SameHold
  <2>5. pool' = pool \cup {m}
    BY <1>5, Zenon
  <2> HIDE DEF m, t
  <2>6. pool' = pool \cup Range(<<m>>)
    <3>1. Range(<<m>>) = {m}
      BY DEF Range
    <3> QED
      BY <2>5, <3>1, Zenon
  <2>7. SameWay(Hold, Hold', {4})
    BY <2>4, SameOnWay, Zenon
  <2>8. Leaves(Hold, Hold', 4, <<m>>, t)
    BY <1>3, <2>2, <2>3, <2>7, Zenon DEF Leaves
  <2>9. Frees(Hold, Hold', pool, pool', 4, <<m>>, t)
    BY <1>3, <2>2, <2>3, <2>4, <2>6, Zenon DEF Frees
  <2>10. Kept(Hold, Hold')
    BY <2>1, <2>8, LeaveStep, Zenon
  <2>11. Contents(Hold') /\ Own(Hold', pool') /\ (All(Hold, pool) => All(Hold', pool'))
    BY <2>1, <2>6, <2>9, FreeStep, Zenon
  <2> QED
    BY <2>10, <2>11 DEF Good, Whole
<1> QED
  BY <1>1, <1>4, <1>5, Zenon
(* Warm-up packets are freed; one that is skipped is nowhere afterwards. *)
LEMMA WkWarmKeeps ==
  ASSUME PathInv, Own(Hold, pool), WkWarm
  PROVE  Good /\ ("invalid" \notin WarmItems => Whole)
<1> DEFINE a == BurstOf("warm")
           b == RestOf("warm")
<1>1. /\ out' = out /\ inp' = inp /\ ring' = [ring EXCEPT !["warm"] = b]
      /\ \E skip \in SUBSET Range(a) : /\ skip # {} => "invalid" \in WarmItems
                                       /\ pool' = pool \cup (Range(a) \ skip)
  BY Zenon DEF WkWarm
<1>2. a \in Seq(Mbufs) /\ b \in Seq(Mbufs) /\ ring["warm"] = a \o b
  BY BurstParts, Zenon DEF Rings
<1> HIDE DEF a, b
<1>3. ring'["warm"] = b /\ \A s \in Rings : s # "warm" => ring'[s] = ring[s]
  BY <1>1, RingBut, Zenon DEF Rings
<1>4. SameBut(Hold, Hold', {11}) /\ 11 \in 1 .. 11
  BY <1>1, <1>3, SameHold DEF Rings
<1>5. Hold[11] = a \o b /\ Hold'[11] = b
  BY <1>2, <1>3, HoldNow, HoldThen
<1>6. pool \subseteq pool' /\ pool' \subseteq pool \cup Range(a)
  BY <1>1, Zenon
<1>7. "invalid" \notin WarmItems => pool' = pool \cup Range(a)
  BY <1>1
<1>8. Frees(Hold, Hold', pool, pool', 11, a, b)
  BY <1>2, <1>4, <1>5, <1>6, Zenon DEF Frees
<1>9. Contents(Hold)
  BY ContentsNow, Zenon
<1>10. Contents(Hold') /\ Own(Hold', pool') /\ ("invalid" \notin WarmItems /\ All(Hold, pool) => All(Hold', pool'))
  BY <1>7, <1>8, <1>9, FreeStep, Zenon
<1>11. SameWay(Hold, Hold', {})
  BY <1>4 DEF SameBut, SameWay
<1>12. Kept(Hold, Hold')
  BY <1>11, OffWay, Zenon
<1> QED
  BY <1>10, <1>12, Zenon DEF Good, Whole

(* The end of a cycle of the worker. *)
LEMMA WkEndKeeps ==
  ASSUME PathInv, Own(Hold, pool), WkEnd
  PROVE  Good /\ Whole
<1>1. EndCycle("wk", "wk_tx") /\ inp' = inp
  BY Zenon DEF WkEnd
<1>2. /\ out'["rx"] = out["rx"] /\ out'["tx"] = out["tx"]
      /\ \A s \in Rings : s # "wk_tx" => ring'[s] = ring[s]
  BY <1>1, FlushFrame DEF CoresOut, Rings
<1>3. SameBut(Hold, Hold', {3, 2})
  BY <1>1, <1>2, SameHold DEF Rings
<1>4. 3 \in 2 .. 7 /\ 2 \in 1 .. 6 /\ 2 + 1 = 3 /\ "wk_tx" \in Rings
  BY DEF Rings
<1> QED
  BY <1>1, <1>3, <1>4, HoldNow, HoldThen, FlushStep

-----------------------------------------------------------------------------
(* A burst a of place p is put in the output buffer of the sending core,   *)
(* and the buffer may then be sent.                                        *)
Drains(h, h2, pl, pl2, p, a, b) ==
  /\ p = 2 \/ p = 10
  /\ a \in Seq(Mbufs) /\ b \in Seq(Mbufs) /\ h[p] = a \o b /\ h2[p] = b
  /\ SameBut(h, h2, {1, p})
  /\ \/ h2[1] = h[1] \o a /\ pl2 = pl
     \/ h2[1] = <<>> /\ pl2 = pl \cup Range(h[1] \o a)

(* Two moves at most. *)
LEMMA DrainStep ==
  ASSUME NEW h, NEW h2, NEW pl, NEW pl2, Contents(h), Own(h, pl), NEW p, NEW a, NEW b,
         Drains(h, h2, pl, pl2, p, a, b)
  PROVE  Contents(h2) /\ Own(h2, pl2) /\ Kept(h, h2) /\ (All(h, pl) => All(h2, pl2))
<1> DEFINE o == h[1] \o a
           h1 == [k \in 1 .. 11 |-> IF k = 1 THEN o ELSE IF k = p THEN b ELSE h[k]]
<1>1. /\ p = 2 \/ p = 10
      /\ a \in Seq(Mbufs) /\ b \in Seq(Mbufs) /\ h[p] = a \o b /\ h2[p] = b
      /\ SameBut(h, h2, {1, p})
      /\ \/ h2[1] = o /\ pl2 = pl
         \/ h2[1] = <<>> /\ pl2 = pl \cup Range(o)
  BY Zenon DEF Drains
<1>2. p \in 1 .. 11 /\ 1 \in 1 .. 11 /\ p # 1 /\ 1 \in 1 .. 7
  BY <1>1
<1>3. h1[1] = o /\ h1[p] = b /\ SameBut(h, h1, {p, 1}) /\ SameBut(h1, h2, {1})
  BY <1>1, <1>2, Zenon DEF SameBut
<1>4. h[1] \in Seq(Mbufs) /\ o \in Seq(Mbufs)
  BY <1>1, <1>2 DEF Contents
<1> HIDE DEF h1
<1>5. Moved(h, h1, p, 1, a, b)
  BY <1>1, <1>3, Zenon DEF Moved
<1>6. Passes(h, h1, p, 1, a, b)
  BY <1>1, <1>2, <1>5, Zenon DEF Passes
<1>7. Contents(h1) /\ Own(h1, pl) /\ (All(h, pl) => All(h1, pl))
  BY <1>6, PassStep, Zenon
<1>8. Kept(h, h1)
  <2>1. CASE p = 2
    <3>1. 2 \in 2 .. 7 /\ 1 \in 1 .. 6 /\ 1 + 1 = 2
      OBVIOUS
    <3>2. Advances(h, h1, p, 1, a, b)
      BY <1>1, <1>5, <2>1, <3>1, Zenon DEF Advances
    <3> QED
      BY <3>2, AdvanceStep, Zenon
  <2>2. CASE p = 10
    <3>1. SameWay(h, h1, {1})
      BY <1>3, <2>2 DEF SameBut, SameWay
    <3> QED
      BY <1>1, <1>2, <1>3, <3>1, EnterWay, ZenonT(30)
  <2> QED
    BY <1>1, <2>1, <2>2, Zenon
<1> HIDE DEF o
<1>9. CASE h2[1] = o /\ pl2 = pl
  <2>1. \A k \in 1 .. 11 : h2[k] = h1[k]
    BY <1>3, <1>9, Zenon DEF SameBut
  <2>2. SameBut(h, h2, {p, 1})
    BY <1>1, Zenon DEF SameBut
  <2>3. Contents(h2) /\ Own(h2, pl)
    BY <1>7, <2>1, Zenon DEF Contents, Own
  <2>4. Moved(h, h2, p, 1, a, b)
    BY <1>1, <1>9, <2>2 DEF Moved, o
  <2>5. Passes(h, h2, p, 1, a, b)
    BY <1>1, <1>2, <2>4, Zenon DEF Passes
  <2>6. All(h, pl) => All(h2, pl)
    BY <2>5, PassStep, Zenon
  <2>7. SameWay(h1, h2, {})
    BY <2>1 DEF SameWay
  <2>8. Kept(h, h2)
    BY <1>8, <2>7, OffWay, KeptTwice, Zenon
  <2> QED
    BY <1>9, <2>3, <2>6, <2>8
<1>10. CASE h2[1] = <<>> /\ pl2 = pl \cup Range(o)
  <2>1. <<>> \in Seq(Mbufs) /\ o = o \o <<>>
    BY <1>4
  <2>2. Frees(h1, h2, pl, pl2, 1, o, <<>>)
    BY <1>2, <1>3, <1>4, <1>10, <2>1, Zenon DEF Frees
  <2>3. Contents(h2) /\ Own(h2, pl2) /\ (All(h1, pl) => All(h2, pl2))
    BY <1>7, <1>10, <2>2, FreeStep, Zenon
  <2>4. SameWay(h1, h2, {1})
    BY <1>3, SameOnWay, Zenon
  <2>5. Leaves(h1, h2, 1, o, <<>>)
    BY <1>2, <1>3, <1>4, <1>10, <2>1, <2>4, Zenon DEF Leaves
  <2>6. Kept(h1, h2) /\ NoNew(h1, h2)
    BY <1>7, <2>5, LeaveStep, Zenon
  <2>7. Kept(h, h2)
    BY <1>8, <2>6, KeptTwice, Zenon
  <2> QED
    BY <1>7, <2>3, <2>7, Zenon
<1> QED
  BY <1>1, <1>9, <1>10, Zenon
(* A ring of the sending core: p is its place. *)
LEMMA TxRingKeeps ==
  ASSUME PathInv, Own(Hold, pool), NEW r \in {"wk_tx", "tap_tx"}, NEW from, NEW to, TxRing(r, from, to)
  PROVE  Good /\ Whole
<1> DEFINE a == BurstOf(r)
           b == RestOf(r)
           p == IF r = "wk_tx" THEN 2 ELSE 10
<1>1. /\ inp' = inp /\ ring' = [ring EXCEPT ![r] = b]
      /\ \/ out' = [out EXCEPT !["tx"] = out["tx"] \o a] /\ pool' = pool
         \/ out' = [out EXCEPT !["tx"] = <<>>] /\ pool' = pool \cup Range(out["tx"] \o a)
  BY Zenon DEF TxRing
<1>2. r \in Rings /\ "tx" \in CoresOut
  BY DEF Rings, CoresOut
<1>3. a \in Seq(Mbufs) /\ b \in Seq(Mbufs) /\ ring[r] = a \o b
  BY <1>2, BurstParts, Zenon
<1> HIDE DEF a, b
<1>4. ring'[r] = b /\ \A s \in Rings : s # r => ring'[s] = ring[s]
  BY <1>1, <1>2, RingBut, Zenon
<1>5. \A x : out' = [out EXCEPT !["tx"] = x] => out'["tx"] = x /\ \A d \in CoresOut : d # "tx" => out'[d] = out[d]
  BY <1>2, OutBut, Zenon
<1>6. /\ \A d \in CoresOut : d # "tx" => out'[d] = out[d]
      /\ \/ out'["tx"] = out["tx"] \o a /\ pool' = pool
         \/ out'["tx"] = <<>> /\ pool' = pool \cup Range(out["tx"] \o a)
  BY <1>1, <1>5, Zenon
<1>7. SameBut(Hold, Hold', {1, p})
  BY <1>1, <1>4, <1>6, SameHold DEF Rings, CoresOut
<1>8. Hold[p] = ring[r] /\ Hold'[p] = ring'[r] /\ Hold[1] = out["tx"] /\ Hold'[1] = out'["tx"]
  BY HoldNow, HoldThen
<1>9. p = 2 \/ p = 10
  OBVIOUS
<1> HIDE DEF p
<1>10. /\ Hold[p] = a \o b /\ Hold'[p] = b
       /\ \/ Hold'[1] = Hold[1] \o a /\ pool' = pool
          \/ Hold'[1] = <<>> /\ pool' = pool \cup Range(Hold[1] \o a)
  BY <1>3, <1>4, <1>6, <1>8, Zenon
<1>11. Drains(Hold, Hold', pool, pool', p, a, b)
  BY <1>3, <1>7, <1>9, <1>10, Zenon DEF Drains
<1>12. Contents(Hold)
  BY ContentsNow, Zenon
<1>13. Contents(Hold') /\ Own(Hold', pool') /\ Kept(Hold, Hold') /\ (All(Hold, pool) => All(Hold', pool'))
  BY <1>11, <1>12, DrainStep, Zenon
<1> QED
  BY <1>13, Zenon DEF Good, Whole

(* The flush of the sending core. *)
LEMMA TxEndKeeps ==
  ASSUME PathInv, Own(Hold, pool), TxEnd
  PROVE  Good /\ Whole
<1>1. /\ ring' = ring /\ inp' = inp
      /\ \/ out' = out /\ pool' = pool
         \/ out' = [out EXCEPT !["tx"] = <<>>] /\ pool' = pool \cup Range(out["tx"])
  BY Zenon DEF TxEnd
<1>2. CASE out' = out /\ pool' = pool
  BY <1>1, <1>2, IdleStep, Zenon
<1>3. CASE out' = [out EXCEPT !["tx"] = <<>>] /\ pool' = pool \cup Range(out["tx"])
  <2> DEFINE o == out["tx"]
  <2>1. out'["tx"] = <<>> /\ out'["rx"] = out["rx"] /\ out'["wk"] = out["wk"]
    BY <1>3, OutBut, Zenon DEF CoresOut
  <2>2. SameBut(Hold, Hold', {1}) /\ 1 \in 1 .. 11 /\ 1 \in 1 .. 7
    BY <1>1, <2>1, SameHold
  <2>3. Contents(Hold) /\ o \in Seq(Mbufs) /\ <<>> \in Seq(Mbufs)
    BY ContentsNow DEF PathInv, CoresOut
  <2>4. o = o \o <<>>
    BY <2>3
  <2>5. Hold[1] = o \o <<>> /\ Hold'[1] = <<>>
    BY <2>1, <2>4, HoldNow, HoldThen
  <2>6. pool' = pool \cup Range(o)
    BY <1>3, Zenon
  <2> HIDE DEF o
  <2>7. Frees(Hold, Hold', pool, pool', 1, o, <<>>)
    BY <2>2, <2>3, <2>5, <2>6, Zenon DEF Frees
  <2>8. SameWay(Hold, Hold', {1})
    BY <2>2, SameOnWay, Zenon
  <2>9. Leaves(Hold, Hold', 1, o, <<>>)
    BY <2>2, <2>3, <2>5, <2>8, Zenon DEF Leaves
  <2>10. Contents(Hold') /\ Own(Hold', pool') /\ (All(Hold, pool) => All(Hold', pool'))
    BY <2>3, <2>6, <2>7, FreeStep, Zenon
  <2>11. Kept(Hold, Hold')
    BY <2>3, <2>9, LeaveStep, Zenon
  <2> QED
    BY <2>10, <2>11, Zenon DEF Good, Whole
<1> QED
  BY <1>1, <1>2, <1>3, Zenon

-----------------------------------------------------------------------------
(* Packets for the tap. *)
LEMMA TapTxKeeps ==
  ASSUME PathInv, Own(Hold, pool), NEW r \in {"rx_tap", "err"}, TapTx(r)
  PROVE  Good /\ Whole
<1> DEFINE a == BurstOf(r)
           b == RestOf(r)
           p == IF r = "rx_tap" THEN 8 ELSE 9
<1>1. /\ inp' = inp /\ out' = out /\ ring' = [ring EXCEPT ![r] = b]
      /\ pool' = pool \cup Range(a)
  BY Zenon DEF TapTx
<1>2. r \in Rings
  BY DEF Rings
<1>3. a \in Seq(Mbufs) /\ b \in Seq(Mbufs) /\ ring[r] = a \o b
  BY <1>2, BurstParts, Zenon
<1> HIDE DEF a, b
<1>4. ring'[r] = b /\ \A s \in Rings : s # r => ring'[s] = ring[s]
  BY <1>1, <1>2, RingBut, Zenon
<1>5. SameBut(Hold, Hold', {p})
  BY <1>1, <1>4, SameHold DEF Rings
<1>6. Hold[p] = ring[r] /\ Hold'[p] = ring'[r]
  BY HoldNow, HoldThen
<1>7. p \in 1 .. 11 /\ \A k \in 1 .. 7 : k # p
  OBVIOUS
<1> HIDE DEF p
<1>8. SameWay(Hold, Hold', {})
  BY <1>5, <1>7 DEF SameBut, SameWay
<1>9. Hold[p] = a \o b /\ Hold'[p] = b
  BY <1>3, <1>4, <1>6, Zenon
<1>10. Frees(Hold, Hold', pool, pool', p, a, b)
  BY <1>1, <1>3, <1>5, <1>7, <1>9, Zenon DEF Frees
<1>11. Contents(Hold)
  BY ContentsNow, Zenon
<1>12. Contents(Hold') /\ Own(Hold', pool') /\ (All(Hold, pool) => All(Hold', pool'))
  BY <1>1, <1>10, <1>11, FreeStep, Zenon
<1>13. Kept(Hold, Hold')
  BY <1>8, OffWay, Zenon
<1> QED
  BY <1>12, <1>13, Zenon DEF Good, Whole
(* No packet, and one. *)
LEMMA AtMostOne ==
  ASSUME NEW S, NEW x, x = <<>> \/ \E m \in S : x = <<m>>
  PROVE  x \in Seq(S) /\ IsInjective(x) /\ Range(x) \subseteq S
<1>1. CASE x = <<>>
  <2>1. x \in Seq(S) /\ DOMAIN x = {}
    BY <1>1
  <2> QED
    BY <2>1 DEF IsInjective, Range
<1>2. CASE \E m \in S : x = <<m>>
  <2>1. PICK m \in S : x = <<m>>
    BY <1>2
  <2>2. x \in Seq(S) /\ DOMAIN x = {1} /\ x[1] = m
    BY <2>1
  <2> QED
    BY <2>2, Zenon DEF IsInjective, Range
<1> QED
  BY <1>1, <1>2

(* Packets x and y of the pool go to the two rings of a receiving tap core. *)
Feeds(h, h2, pl, x, y) ==
  /\ x \in Seq(Mbufs) /\ IsInjective(x) /\ Range(x) \subseteq pl /\ h2[10] = h[10] \o x
  /\ y \in Seq(Mbufs) /\ IsInjective(y) /\ Range(y) \subseteq pl \ Range(x) /\ h2[11] = h[11] \o y
  /\ SameBut(h, h2, {10, 11})

(* Both are taken. *)
LEMMA FeedStep ==
  ASSUME NEW h, NEW h2, NEW pl, Contents(h), Own(h, pl), NEW x, NEW y, Feeds(h, h2, pl, x, y)
  PROVE  /\ Contents(h2) /\ Own(h2, (pl \ Range(x)) \ Range(y))
         /\ All(h, pl) => All(h2, (pl \ Range(x)) \ Range(y))
<1> DEFINE h1 == [k \in 1 .. 11 |-> IF k = 10 THEN h[10] \o x ELSE h[k]]
<1>1. /\ x \in Seq(Mbufs) /\ IsInjective(x) /\ Range(x) \subseteq pl /\ h2[10] = h[10] \o x
      /\ y \in Seq(Mbufs) /\ IsInjective(y) /\ Range(y) \subseteq pl \ Range(x) /\ h2[11] = h[11] \o y
      /\ SameBut(h, h2, {10, 11})
  BY Zenon DEF Feeds
<1>2. 10 \in 1 .. 11 /\ 11 \in 1 .. 11 /\ 10 # 11
  OBVIOUS
<1>3. h1[10] = h[10] \o x /\ SameBut(h, h1, {10}) /\ h1[11] = h[11]
  BY <1>2, Zenon DEF SameBut
<1>4. SameBut(h1, h2, {11})
  BY <1>1, <1>3, Zenon DEF SameBut
<1> HIDE DEF h1
<1>5. Contents(h1) /\ Own(h1, pl \ Range(x)) /\ (All(h, pl) => All(h1, pl \ Range(x)))
  BY <1>1, <1>2, <1>3, TakeOwn, Zenon
<1>6. h2[11] = h1[11] \o y
  BY <1>1, <1>3, Zenon
<1>7. /\ Contents(h2) /\ Own(h2, (pl \ Range(x)) \ Range(y))
      /\ All(h1, pl \ Range(x)) => All(h2, (pl \ Range(x)) \ Range(y))
  BY <1>1, <1>2, <1>4, <1>5, <1>6, TakeOwn, Zenon
<1> QED
  BY <1>5, <1>7, Zenon

(* A packet read from the tap, and the copy for the worker. *)
LEMMA TapRxKeeps ==
  ASSUME PathInv, Own(Hold, pool), NEW copies \in {0, 1}, TapRx(copies)
  PROVE  Good /\ Whole
<1>1. inp' = inp /\ out' = out
  BY Zenon DEF TapRx
<1>2. CASE ring' = ring /\ pool' = pool
  BY <1>1, <1>2, IdleStep, Zenon
<1>3. ASSUME NEW s \in [1 .. 1 + copies -> pool], NEW sent \in BOOLEAN, NEW warm \in BOOLEAN,
             warm => copies = 1, IsInjective(s),
             ring' = [ring EXCEPT !["tap_tx"] = IF sent THEN Append(@, s[1]) ELSE @,
                                  !["warm"] = IF warm THEN Append(@, s[2]) ELSE @],
             pool' = pool \ ((IF sent THEN {s[1]} ELSE {}) \cup (IF warm THEN {s[2]} ELSE {}))
      PROVE  Good /\ Whole
  <2> DEFINE x == IF sent THEN <<s[1]>> ELSE <<>>
             y == IF warm THEN <<s[2]>> ELSE <<>>
             S == pool \ Range(x)
  <2>1. s[1] \in pool /\ (warm => s[2] \in pool /\ s[1] # s[2])
    BY <1>3 DEF IsInjective
  <2>2. Range(x) = IF sent THEN {s[1]} ELSE {}
    BY DEF Range
  <2>3. Range(y) = IF warm THEN {s[2]} ELSE {}
    BY DEF Range
  <2>4. x = <<>> \/ \E m \in pool : x = <<m>>
    BY <2>1
  <2>5. y = <<>> \/ \E m \in S : y = <<m>>
    BY <2>1, <2>2
  <2>6. pool' = (pool \ Range(x)) \ Range(y)
    BY <1>3, <2>2, <2>3
  <2>7. pool \subseteq Mbufs
    BY Zenon DEF Own
  <2>8. ring["tap_tx"] \in Seq(Mbufs) /\ ring["warm"] \in Seq(Mbufs)
    BY DEF PathInv, Rings
  <2>9. ring'["tap_tx"] = ring["tap_tx"] \o x
    <3>1. ring'["tap_tx"] = IF sent THEN Append(ring["tap_tx"], s[1]) ELSE ring["tap_tx"]
      BY <1>3 DEF PathInv, Rings
    <3>2. CASE sent
      <4>1. s[1] \in Mbufs
        BY <2>1, <2>7, <3>2
      <4>2. Append(ring["tap_tx"], s[1]) = ring["tap_tx"] \o <<s[1]>>
        BY <2>8, <4>1, AppendIsConcat
      <4> QED
        BY <3>1, <3>2, <4>2, Zenon
    <3>3. CASE ~sent
      <4>1. ring["tap_tx"] = ring["tap_tx"] \o <<>>
        BY <2>8
      <4> QED
        BY <3>1, <3>3, <4>1, Zenon
    <3> QED
      BY <3>2, <3>3, Zenon
  <2>10. ring'["warm"] = ring["warm"] \o y
    <3>1. ring'["warm"] = IF warm THEN Append(ring["warm"], s[2]) ELSE ring["warm"]
      BY <1>3 DEF PathInv, Rings
    <3>2. CASE warm
      <4>1. s[2] \in Mbufs
        BY <2>1, <2>7, <3>2
      <4>2. Append(ring["warm"], s[2]) = ring["warm"] \o <<s[2]>>
        BY <2>8, <4>1, AppendIsConcat
      <4> QED
        BY <3>1, <3>2, <4>2, Zenon
    <3>3. CASE ~warm
      <4>1. ring["warm"] = ring["warm"] \o <<>>
        BY <2>8
      <4> QED
        BY <3>1, <3>3, <4>1, Zenon
    <3> QED
      BY <3>2, <3>3, Zenon
  <2>11. \A g \in Rings : g # "tap_tx" /\ g # "warm" => ring'[g] = ring[g]
    BY <1>3 DEF PathInv, Rings
  <2> HIDE DEF x, y
  <2>12. x \in Seq(pool) /\ IsInjective(x) /\ Range(x) \subseteq pool
    BY <2>4, AtMostOne, Zenon
  <2>13. y \in Seq(S) /\ IsInjective(y) /\ Range(y) \subseteq S
    <3> HIDE DEF S
    <3> QED
      BY <2>5, AtMostOne, Zenon
  <2>14. x \in Seq(Mbufs) /\ y \in Seq(Mbufs)
    BY <2>7, <2>12, <2>13
  <2>15. SameBut(Hold, Hold', {10, 11})
    BY <1>1, <2>11, SameHold DEF Rings
  <2>16. Hold'[10] = Hold[10] \o x /\ Hold'[11] = Hold[11] \o y
    BY <2>9, <2>10, HoldNow, HoldThen
  <2>17. Feeds(Hold, Hold', pool, x, y)
    BY <2>12, <2>13, <2>14, <2>15, <2>16, Zenon DEF Feeds
  <2>18. Contents(Hold)
    BY ContentsNow, Zenon
  <2>19. Contents(Hold') /\ Own(Hold', pool') /\ (All(Hold, pool) => All(Hold', pool'))
    BY <2>6, <2>17, <2>18, FeedStep, Zenon
  <2>20. SameWay(Hold, Hold', {})
    BY <2>15 DEF SameBut, SameWay
  <2>21. Kept(Hold, Hold')
    BY <2>20, OffWay, Zenon
  <2> QED
    BY <2>19, <2>21, Zenon DEF Good, Whole
<1>4. CASE ~(Cardinality(pool) < 1 + copies)
  <2>1. PICK s \in [1 .. 1 + copies -> pool] :
          LET sent == Len(ring["tap_tx"]) < RingSize
              warm == copies = 1 /\ Len(ring["warm"]) < RingSize
          IN /\ IsInjective(s)
             /\ ring' = [ring EXCEPT !["tap_tx"] = IF sent THEN Append(@, s[1]) ELSE @,
                                     !["warm"] = IF warm THEN Append(@, s[2]) ELSE @]
             /\ pool' = pool \ ((IF sent THEN {s[1]} ELSE {}) \cup (IF warm THEN {s[2]} ELSE {}))
    BY <1>4, Zenon DEF TapRx
  <2> QED
    BY <1>3, <2>1, Zenon
<1> QED
  <2>1. (ring' = ring /\ pool' = pool) \/ ~(Cardinality(pool) < 1 + copies)
    BY Zenon DEF TapRx
  <2> QED
    BY <1>2, <1>4, <2>1, Zenon
-----------------------------------------------------------------------------
(* Every step moves, frees or takes blocks in these ways. *)
LEMMA StepKeeps ==
  ASSUME PathInv, Own(Hold, pool), [Next]_vars
  PROVE  Good /\ (Filling /\ "invalid" \notin WarmItems => Whole)
<1>1. CASE RxBurst
  BY <1>1, RxBurstKeeps, Zenon
<1>2. CASE RxPacket
  BY <1>2, RxPacketKeeps, Zenon
<1>3. CASE RxEnd
  BY <1>3, RxEndKeeps, Zenon
<1>4. CASE WkBurst
  BY <1>4, WkBurstKeeps, Zenon
<1>5. CASE WkPacket
  BY <1>5, WkPacketKeeps, Zenon
<1>6. CASE WkWarm
  BY <1>6, WkWarmKeeps, Zenon
<1>7. CASE WkEnd
  BY <1>7, WkEndKeeps, Zenon
<1>8. CASE TxWorker
  BY <1>8, TxRingKeeps, Zenon DEF TxWorker
<1>9. CASE TxTap
  BY <1>9, TxRingKeeps, Zenon DEF TxTap
<1>10. CASE TxEnd
  BY <1>10, TxEndKeeps, Zenon
<1>11. CASE TapTxAny
  BY <1>11, TapTxKeeps, Zenon DEF TapTxAny
<1>12. CASE TapRxAny
  BY <1>12, TapRxKeeps, Zenon DEF TapRxAny
<1>13. CASE SwapConfig
  <2>1. ring' = ring /\ inp' = inp /\ out' = out /\ pool' = pool
    BY <1>13, Zenon DEF SwapConfig
  <2> QED
    BY <2>1, IdleStep, Zenon
<1>14. CASE UNCHANGED vars
  <2>1. ring' = ring /\ inp' = inp /\ out' = out /\ pool' = pool
    BY <1>14 DEF vars
  <2> QED
    BY <2>1, IdleStep, Zenon
<1> QED
  BY <1>1, <1>2, <1>3, <1>4, <1>5, <1>6, <1>7, <1>8, <1>9, <1>10, <1>11, <1>12, <1>13, <1>14, Zenon
  DEF Next, Rx, Wk, Tx

(* What a step does to the form of the state. *)
Shape ==
  /\ cfg' \in Configs
  /\ ring' = [r \in Rings |-> ring'[r]]
  /\ inp' = [c \in {"rx", "wk"} |-> inp'[c]]
  /\ out' = [c \in CoresOut |-> out'[c]]
  /\ at' \in [CoresOut -> {"top", "work", "diverted", "tap", "flush"}]
  /\ \A c \in {"rx", "wk"} : at'[c] = "top" => inp'[c] = <<>>

(* Functions that are updated keep their domain. *)
LEMMA Domains ==
  ASSUME PathInv,
         ring' = ring \/ (\E r, x : ring' = [ring EXCEPT ![r] = x])
           \/ (\E r, s, x, y : ring' = [ring EXCEPT ![r] = x, ![s] = y]),
         inp' = inp \/ (\E c, x : inp' = [inp EXCEPT ![c] = x]),
         out' = out \/ (\E c, x : out' = [out EXCEPT ![c] = x])
  PROVE  /\ ring' = [r \in Rings |-> ring'[r]]
         /\ inp' = [c \in {"rx", "wk"} |-> inp'[c]]
         /\ out' = [c \in CoresOut |-> out'[c]]
<1>1. ring' = [r \in Rings |-> ring'[r]]
  BY DEF PathInv
<1>2. inp' = [c \in {"rx", "wk"} |-> inp'[c]]
  BY DEF PathInv
<1>3. out' = [c \in CoresOut |-> out'[c]]
  BY DEF PathInv
<1> QED
  BY <1>1, <1>2, <1>3, Zenon

(* A core that is not at the top of its cycle afterwards, or has no input. *)
LEMMA Steps ==
  ASSUME PathInv, NEW c \in CoresOut, NEW l \in {"top", "work", "diverted", "tap", "flush"}, Goto(c, l)
  PROVE  /\ at' \in [CoresOut -> {"top", "work", "diverted", "tap", "flush"}]
         /\ at'[c] = l /\ \A d \in CoresOut : d # c => at'[d] = at[d]
  BY DEF PathInv, Goto

(* The receiving core. *)
LEMMA RxShape ==
  ASSUME PathInv, Rx
  PROVE  Shape
<1>0. /\ {"rx", "wk"} \subseteq CoresOut /\ "rx" \in CoresOut /\ cfg \in Configs
      /\ at \in [CoresOut -> {"top", "work", "diverted", "tap", "flush"}]
      /\ \A c \in {"rx", "wk"} : at[c] = "top" => inp[c] = <<>>
  BY DEF PathInv, CoresOut
<1>1. CASE RxBurst
  <2>1. cfg' = cfg /\ ring' = ring /\ out' = out /\ (\E x : inp' = [inp EXCEPT !["rx"] = x]) /\ Goto("rx", "work")
    BY <1>1, Zenon DEF RxBurst
  <2>2. inp'["wk"] = inp["wk"]
    BY <2>1, InpBut
  <2>3. at'["rx"] = "work" /\ at'["wk"] = at["wk"] /\ at' \in [CoresOut -> {"top", "work", "diverted", "tap", "flush"}]
    BY <2>1, Steps DEF CoresOut
  <2>4. \A c \in {"rx", "wk"} : at'[c] = "top" => inp'[c] = <<>>
    BY <1>0, <2>2, <2>3
  <2>5. /\ ring' = [r \in Rings |-> ring'[r]]
        /\ inp' = [c \in {"rx", "wk"} |-> inp'[c]]
        /\ out' = [c \in CoresOut |-> out'[c]]
    BY <2>1, Domains, Zenon
  <2> QED
    BY <1>0, <2>1, <2>3, <2>4, <2>5 DEF Shape
<1>2. CASE RxPacket
  <2>1. /\ cfg' = cfg /\ (ring' = ring \/ \E r, x : ring' = [ring EXCEPT ![r] = x])
        /\ (out' = out \/ \E c, x : out' = [out EXCEPT ![c] = x])
        /\ inp' = [inp EXCEPT !["rx"] = Tail(@)] /\ at' = at /\ at["rx"] = "work"
    BY <1>2, Zenon DEF RxPacket, SendOrBuffer, Enqueue
  <2>2. inp'["wk"] = inp["wk"]
    BY <2>1, InpBut
  <2>3. \A c \in {"rx", "wk"} : at'[c] = "top" => inp'[c] = <<>>
    BY <1>0, <2>1, <2>2
  <2>4. \E c, x : inp' = [inp EXCEPT ![c] = x]
    BY <2>1, Zenon
  <2>5. /\ ring' = [r \in Rings |-> ring'[r]]
        /\ inp' = [c \in {"rx", "wk"} |-> inp'[c]]
        /\ out' = [c \in CoresOut |-> out'[c]]
    BY <2>1, <2>4, Domains, Zenon
  <2> QED
    BY <1>0, <2>1, <2>3, <2>5 DEF Shape
<1>3. CASE RxEnd
  <2>1. /\ cfg' = cfg /\ (ring' = ring \/ \E r, x : ring' = [ring EXCEPT ![r] = x])
        /\ (out' = out \/ \E c, x : out' = [out EXCEPT ![c] = x])
        /\ inp' = inp /\ inp["rx"] = <<>> /\ Goto("rx", "top")
    BY <1>3, Zenon DEF RxEnd, EndCycle, BurstFlush, Enqueue
  <2>2. at'["wk"] = at["wk"] /\ at' \in [CoresOut -> {"top", "work", "diverted", "tap", "flush"}]
    BY <2>1, Steps DEF CoresOut
  <2>3. \A c \in {"rx", "wk"} : at'[c] = "top" => inp'[c] = <<>>
    BY <1>0, <2>1, <2>2
  <2>4. /\ ring' = [r \in Rings |-> ring'[r]]
        /\ inp' = [c \in {"rx", "wk"} |-> inp'[c]]
        /\ out' = [c \in CoresOut |-> out'[c]]
    BY <2>1, Domains, Zenon
  <2> QED
    BY <1>0, <2>1, <2>2, <2>3, <2>4 DEF Shape
<1> QED
  BY <1>1, <1>2, <1>3, Zenon DEF Rx
(* The worker. *)
LEMMA WkShape ==
  ASSUME PathInv, Wk
  PROVE  Shape
<1>0. /\ {"rx", "wk"} \subseteq CoresOut /\ "wk" \in CoresOut /\ cfg \in Configs
      /\ at \in [CoresOut -> {"top", "work", "diverted", "tap", "flush"}]
      /\ \A c \in {"rx", "wk"} : at[c] = "top" => inp[c] = <<>>
  BY DEF PathInv, CoresOut
<1>1. CASE WkBurst
  <2>1. /\ cfg' = cfg /\ (\E r, x : ring' = [ring EXCEPT ![r] = x]) /\ out' = out
        /\ (\E x : inp' = [inp EXCEPT !["wk"] = x]) /\ Goto("wk", "work")
    BY <1>1, Zenon DEF WkBurst
  <2>2. inp'["rx"] = inp["rx"]
    BY <2>1, InpBut
  <2>3. at'["wk"] = "work" /\ at'["rx"] = at["rx"] /\ at' \in [CoresOut -> {"top", "work", "diverted", "tap", "flush"}]
    BY <2>1, Steps DEF CoresOut
  <2>4. \A c \in {"rx", "wk"} : at'[c] = "top" => inp'[c] = <<>>
    BY <1>0, <2>2, <2>3
  <2>5. /\ ring' = [r \in Rings |-> ring'[r]]
        /\ inp' = [c \in {"rx", "wk"} |-> inp'[c]]
        /\ out' = [c \in CoresOut |-> out'[c]]
    BY <2>1, Domains, Zenon
  <2> QED
    BY <1>0, <2>1, <2>3, <2>4, <2>5 DEF Shape
<1>2. CASE WkPacket
  <2>1. /\ cfg' = cfg /\ (ring' = ring \/ \E r, x : ring' = [ring EXCEPT ![r] = x])
        /\ (out' = out \/ \E c, x : out' = [out EXCEPT ![c] = x])
        /\ inp' = [inp EXCEPT !["wk"] = Tail(@)] /\ at' = at /\ at["wk"] = "work"
    BY <1>2, Zenon DEF WkPacket, SendOrBuffer, Enqueue
  <2>2. inp'["rx"] = inp["rx"]
    BY <2>1, InpBut
  <2>3. \A c \in {"rx", "wk"} : at'[c] = "top" => inp'[c] = <<>>
    BY <1>0, <2>1, <2>2
  <2>4. \E c, x : inp' = [inp EXCEPT ![c] = x]
    BY <2>1, Zenon
  <2>5. /\ ring' = [r \in Rings |-> ring'[r]]
        /\ inp' = [c \in {"rx", "wk"} |-> inp'[c]]
        /\ out' = [c \in CoresOut |-> out'[c]]
    BY <2>1, <2>4, Domains, Zenon
  <2> QED
    BY <1>0, <2>1, <2>3, <2>5 DEF Shape
<1>3. CASE WkWarm \/ WkEnd
  <2>1. /\ cfg' = cfg /\ (ring' = ring \/ \E r, x : ring' = [ring EXCEPT ![r] = x])
        /\ (out' = out \/ \E c, x : out' = [out EXCEPT ![c] = x])
        /\ inp' = inp /\ inp["wk"] = <<>> /\ (Goto("wk", "flush") \/ Goto("wk", "top"))
    BY <1>3, Zenon DEF WkWarm, WkEnd, EndCycle, BurstFlush, Enqueue
  <2>2. at'["rx"] = at["rx"] /\ at' \in [CoresOut -> {"top", "work", "diverted", "tap", "flush"}]
    BY <2>1, Steps DEF CoresOut
  <2>3. \A c \in {"rx", "wk"} : at'[c] = "top" => inp'[c] = <<>>
    BY <1>0, <2>1, <2>2
  <2>4. /\ ring' = [r \in Rings |-> ring'[r]]
        /\ inp' = [c \in {"rx", "wk"} |-> inp'[c]]
        /\ out' = [c \in CoresOut |-> out'[c]]
    BY <2>1, Domains, Zenon
  <2> QED
    BY <1>0, <2>1, <2>2, <2>3, <2>4 DEF Shape
<1> QED
  BY <1>1, <1>2, <1>3, Zenon DEF Wk

(* The other cores, and a reload. *)
LEMMA OtherShape ==
  ASSUME PathInv, Tx \/ TapTxAny \/ TapRxAny \/ SwapConfig \/ UNCHANGED vars
  PROVE  Shape
<1>0. /\ {"rx", "wk"} \subseteq CoresOut /\ "tx" \in CoresOut /\ cfg \in Configs
      /\ at \in [CoresOut -> {"top", "work", "diverted", "tap", "flush"}]
      /\ \A c \in {"rx", "wk"} : at[c] = "top" => inp[c] = <<>>
  BY DEF PathInv, CoresOut
<1>1. CASE Tx
  <2>1. /\ cfg' = cfg /\ inp' = inp
        /\ (ring' = ring \/ \E r, x : ring' = [ring EXCEPT ![r] = x])
        /\ (out' = out \/ \E c, x : out' = [out EXCEPT ![c] = x])
        /\ \E l \in {"top", "tap", "flush"} : Goto("tx", l)
    <3>1. CASE TxWorker \/ TxTap
      BY <3>1, Zenon DEF TxWorker, TxTap, TxRing
    <3>2. CASE TxEnd
      BY <3>2, Zenon DEF TxEnd
    <3> QED
      BY <1>1, <3>1, <3>2, Zenon DEF Tx
  <2>2. /\ at'["rx"] = at["rx"] /\ at'["wk"] = at["wk"]
        /\ at' \in [CoresOut -> {"top", "work", "diverted", "tap", "flush"}]
    BY <2>1, Steps DEF CoresOut
  <2>3. \A c \in {"rx", "wk"} : at'[c] = "top" => inp'[c] = <<>>
    BY <1>0, <2>1, <2>2
  <2>4. /\ ring' = [r \in Rings |-> ring'[r]]
        /\ inp' = [c \in {"rx", "wk"} |-> inp'[c]]
        /\ out' = [c \in CoresOut |-> out'[c]]
    BY <2>1, Domains, Zenon
  <2> QED
    BY <1>0, <2>1, <2>2, <2>3, <2>4 DEF Shape
<1>2. CASE TapTxAny \/ TapRxAny \/ SwapConfig \/ UNCHANGED vars
  <2>1. /\ cfg' \in Configs /\ inp' = inp /\ out' = out /\ at' = at
        /\ \/ ring' = ring
           \/ \E r, x : ring' = [ring EXCEPT ![r] = x]
           \/ \E r, s, x, y : ring' = [ring EXCEPT ![r] = x, ![s] = y]
    <3>1. CASE TapTxAny
      BY <1>0, <3>1, Zenon DEF TapTxAny, TapTx
    <3>2. CASE TapRxAny
      <4>1. cfg' = cfg /\ inp' = inp /\ out' = out /\ at' = at
        BY <3>2, Zenon DEF TapRxAny, TapRx
      <4>2. ring' = ring \/ \E r, s, x, y : ring' = [ring EXCEPT ![r] = x, ![s] = y]
        BY <3>2, Zenon DEF TapRxAny, TapRx
      <4> QED
        BY <1>0, <4>1, <4>2, Zenon
    <3>3. CASE SwapConfig
      BY <3>3, Zenon DEF SwapConfig
    <3>4. CASE UNCHANGED vars
      BY <1>0, <3>4 DEF vars
    <3> QED
      BY <1>2, <3>1, <3>2, <3>3, <3>4, Zenon
  <2>2. /\ ring' = [r \in Rings |-> ring'[r]]
        /\ inp' = [c \in {"rx", "wk"} |-> inp'[c]]
        /\ out' = [c \in CoresOut |-> out'[c]]
    BY <2>1, Domains, Zenon
  <2>3. \A c \in {"rx", "wk"} : at'[c] = "top" => inp'[c] = <<>>
    BY <1>0, <2>1, Zenon
  <2> QED
    BY <1>0, <2>1, <2>2, <2>3, Zenon DEF Shape
<1> QED
  BY <1>1, <1>2, Zenon

(* The form of the state is kept. *)
LEMMA TypeStep ==
  ASSUME PathInv, Own(Hold, pool), [Next]_vars
  PROVE  PathInv'
<1>1. Shape
  BY RxShape, WkShape, OtherShape, Zenon DEF Next
<1>2. Contents(Hold')
  BY StepKeeps, Zenon DEF Good
<1>3. /\ ring' \in [Rings -> Seq(Mbufs)]
      /\ inp' \in [{"rx", "wk"} -> Seq(Mbufs)]
      /\ out' \in [CoresOut -> Seq(Mbufs)]
  BY <1>1, <1>2, TypesThen, Zenon DEF Shape
<1> QED
  BY <1>1, <1>3, Zenon DEF Shape, PathInv
-----------------------------------------------------------------------------
(* The state the cores start from. *)
LEMMA InitHolds ==
  ASSUME Init
  PROVE  PathInv /\ Own(Hold, pool) /\ All(Hold, pool)
<1>1. PathInv
  <2>1. \A S : <<>> \in Seq(S)
    OBVIOUS
  <2> QED
    BY <2>1 DEF Init, PathInv
<1>2. /\ \A r \in Rings : ring[r] = <<>>
      /\ \A c \in {"rx", "wk"} : inp[c] = <<>>
      /\ \A c \in CoresOut : out[c] = <<>>
      /\ pool = Mbufs
  BY Zenon DEF Init
<1>3. /\ ring["rx_wk"] = <<>> /\ ring["wk_tx"] = <<>> /\ ring["rx_tap"] = <<>> /\ ring["err"] = <<>>
      /\ ring["tap_tx"] = <<>> /\ ring["warm"] = <<>> /\ inp["rx"] = <<>> /\ inp["wk"] = <<>>
      /\ out["rx"] = <<>> /\ out["wk"] = <<>> /\ out["tx"] = <<>>
  BY <1>2 DEF Rings, CoresOut
<1>4. \A p \in 1 .. 11 : Hold[p] = <<>>
  BY <1>3, HoldNow, OneOfEleven, Zenon
<1>5. IsInjective(<<>>) /\ Range(<<>>) = {}
  BY DEF IsInjective, Range
<1>6. Own(Hold, pool)
  BY <1>2, <1>4, <1>5, Zenon DEF Own
<1>7. UNION {Range(Hold[p]) : p \in 1 .. 11} \subseteq Mbufs
  BY <1>4, <1>5, Zenon
<1>8. All(Hold, pool)
  BY <1>2, <1>7, Zenon DEF All
<1> QED
  BY <1>1, <1>6, <1>8

(* OneOwner: at any time an mbuf is in the pool or in one place of one     *)
(* array, buffer or ring, for any number of mbufs, ring size and           *)
(* configurations and with every outcome of the workers but the diversion  *)
(* of unknown tunnels: no core touches or frees a packet of another one.   *)
THEOREM OneOwner == Spec => []SingleOwner
<1>1. Init => PathInv /\ Own(Hold, pool)
  BY InitHolds, Zenon
<1>2. ASSUME PathInv, Own(Hold, pool), [Next]_vars PROVE PathInv' /\ Own(Hold, pool)'
  <2>1. PathInv'
    BY <1>2, TypeStep, Zenon
  <2>2. Own(Hold', pool')
    BY <1>2, StepKeeps, Zenon DEF Good
  <2> QED
    BY <2>1, <2>2
<1>3. Own(Hold, pool) => SingleOwner
  BY Zenon DEF Own, SingleOwner
<1> QED
  BY <1>1, <1>2, <1>3, PTL DEF Spec

-----------------------------------------------------------------------------
(* The way up to place k. *)
OnTo(h, k, a) == \E p \in 1 .. k : a \in Range(h[p])
BefTo(h, k, a, b) == \/ \E p \in 1 .. k : Before(a, b, h[p])
                     \/ \E p, q \in 1 .. k : p < q /\ a \in Range(h[p]) /\ b \in Range(h[q])
Joined(h, k, s) ==
  /\ s \in Seq(Mbufs)
  /\ \A a : a \in Range(s) <=> OnTo(h, k, a)
  /\ \A a, b : Before(a, b, s) <=> BefTo(h, k, a, b)

(* One more place. *)
LEMMA JoinNext ==
  ASSUME NEW h, Contents(h), NEW k \in 1 .. 6, NEW n, n = k + 1, NEW s, Joined(h, k, s)
  PROVE  Joined(h, n, s \o h[n])
<1> DEFINE t == h[n]
<1>1. s \in Seq(Mbufs) /\ t \in Seq(Mbufs)
  <2>1. n \in 1 .. 11
    OBVIOUS
  <2> QED
    BY <2>1, Zenon DEF Joined, Contents
<1>2. \A p : p \in 1 .. n <=> p \in 1 .. k \/ p = n
  OBVIOUS
<1>3. /\ \A p \in 1 .. k : p < n /\ ~(n < p)
      /\ ~(n < n)
  OBVIOUS
<1>4. s \o t \in Seq(Mbufs) /\ Range(s \o t) = Range(s) \cup Range(t)
  BY <1>1, JoinRange, Zenon
<1>5. ASSUME NEW a PROVE a \in Range(s \o t) <=> OnTo(h, n, a)
  BY <1>2, <1>4, Zenon DEF Joined, OnTo
<1>6. ASSUME NEW a, NEW b PROVE Before(a, b, s \o t) <=> BefTo(h, n, a, b)
  <2>1. Before(a, b, s \o t) <=> \/ BefTo(h, k, a, b) \/ Before(a, b, t)
                                 \/ OnTo(h, k, a) /\ b \in Range(t)
    BY <1>1, JoinBefore, Zenon DEF Joined
  <2>2. BefTo(h, k, a, b) \/ Before(a, b, t) \/ (OnTo(h, k, a) /\ b \in Range(t)) => BefTo(h, n, a, b)
    BY <1>2, <1>3, Zenon DEF BefTo, OnTo
  <2>3. BefTo(h, n, a, b) => BefTo(h, k, a, b) \/ Before(a, b, t) \/ (OnTo(h, k, a) /\ b \in Range(t))
    BY <1>2, <1>3, Zenon DEF BefTo, OnTo
  <2> QED
    BY <2>1, <2>2, <2>3, Zenon
<1> QED
  BY <1>4, <1>5, <1>6, Zenon DEF Joined

(* The whole way. *)
Way(h) == h[1] \o h[2] \o h[3] \o h[4] \o h[5] \o h[6] \o h[7]

(* Its seven places in order. *)
LEMMA WayOrder ==
  ASSUME NEW h, Contents(h)
  PROVE  /\ \A a : a \in Range(Way(h)) <=> On(h, a)
         /\ \A a, b : Before(a, b, Way(h)) <=> Bef(h, a, b)
<1>1. \A p : p \in 1 .. 1 <=> p = 1
  OBVIOUS
<1>2. ~(1 < 1) /\ 1 \in 1 .. 11
  OBVIOUS
<1>3. Joined(h, 1, h[1])
  <2>1. h[1] \in Seq(Mbufs)
    BY <1>2, Zenon DEF Contents
  <2>2. ASSUME NEW a PROVE a \in Range(h[1]) <=> OnTo(h, 1, a)
    BY <1>1, Zenon DEF OnTo
  <2>3. ASSUME NEW a, NEW b PROVE Before(a, b, h[1]) => BefTo(h, 1, a, b)
    BY <1>1, Zenon DEF BefTo
  <2>4. ASSUME NEW a, NEW b, BefTo(h, 1, a, b) PROVE Before(a, b, h[1])
    <3>1. CASE \E p \in 1 .. 1 : Before(a, b, h[p])
      BY <1>1, <3>1, Zenon
    <3>2. ~ \E p, q \in 1 .. 1 : p < q
      OBVIOUS
    <3> QED
      BY <2>4, <3>1, <3>2, Zenon DEF BefTo
  <2> QED
    BY <2>1, <2>2, <2>3, <2>4, Zenon DEF Joined
<1>4. /\ 1 \in 1 .. 6 /\ 2 = 1 + 1 /\ 2 \in 1 .. 6 /\ 3 = 2 + 1 /\ 3 \in 1 .. 6 /\ 4 = 3 + 1
      /\ 4 \in 1 .. 6 /\ 5 = 4 + 1 /\ 5 \in 1 .. 6 /\ 6 = 5 + 1 /\ 6 \in 1 .. 6 /\ 7 = 6 + 1
  OBVIOUS
<1>5. Joined(h, 2, h[1] \o h[2])
  BY <1>3, <1>4, JoinNext
<1>6. Joined(h, 3, h[1] \o h[2] \o h[3])
  BY <1>4, <1>5, JoinNext
<1>7. Joined(h, 4, h[1] \o h[2] \o h[3] \o h[4])
  BY <1>4, <1>6, JoinNext
<1>8. Joined(h, 5, h[1] \o h[2] \o h[3] \o h[4] \o h[5])
  BY <1>4, <1>7, JoinNext
<1>9. Joined(h, 6, h[1] \o h[2] \o h[3] \o h[4] \o h[5] \o h[6])
  BY <1>4, <1>8, JoinNext
<1>10. Joined(h, 7, Way(h))
  BY <1>4, <1>9, JoinNext DEF Way
<1> QED
  BY <1>10, Zenon DEF Joined, OnTo, BefTo, On, Bef

(* NoOvertaking: between its arrival and its sending a packet is never     *)
(* overtaken by one that was behind it: bursts, output buffers, flushes    *)
(* and rings keep the order for any sizes of rings and bursts.             *)
THEOREM NoOvertaking == Spec => KeepsOrder
<1>1. Init => PathInv /\ Own(Hold, pool)
  BY InitHolds, Zenon
<1>2. ASSUME PathInv, Own(Hold, pool), [Next]_vars PROVE PathInv' /\ Own(Hold, pool)'
  <2>1. PathInv'
    BY <1>2, TypeStep, Zenon
  <2>2. Own(Hold', pool')
    BY <1>2, StepKeeps, Zenon DEF Good
  <2> QED
    BY <2>1, <2>2
<1>3. ASSUME PathInv, Own(Hold, pool), [Next]_vars
      PROVE  \A a, b \in Mbufs :
               Before(a, b, Path) /\ {a, b} \subseteq Range(Path') => Before(a, b, Path')
  <2>1. Contents(Hold)
    BY <1>3, ContentsNow, Zenon
  <2>2. Contents(Hold') /\ Kept(Hold, Hold')
    BY <1>3, StepKeeps, Zenon DEF Good
  <2>3. Path = Way(Hold) /\ Path' = Way(Hold')
    BY Zenon DEF Path, Way
  <2>4. \A a, b : Before(a, b, Path) => Bef(Hold, a, b)
    BY <2>1, <2>3, WayOrder, Zenon
  <2>5. \A a : a \in Range(Path') => On(Hold', a)
    BY <2>2, <2>3, WayOrder, Zenon
  <2>6. \A a, b : Bef(Hold', a, b) => Before(a, b, Path')
    BY <2>2, <2>3, WayOrder, Zenon
  <2>7. ASSUME NEW a \in Mbufs, NEW b \in Mbufs, Before(a, b, Path), {a, b} \subseteq Range(Path')
        PROVE  Before(a, b, Path')
    <3>1. Bef(Hold, a, b) /\ On(Hold', a) /\ On(Hold', b)
      BY <2>4, <2>5, <2>7, Zenon
    <3>2. Bef(Hold', a, b)
      BY <2>2, <3>1, Zenon DEF Kept
    <3> QED
      BY <2>6, <3>2, Zenon
  <2> QED
    BY <2>7, Zenon
<1> QED
  BY <1>1, <1>2, <1>3, PTL DEF Spec, KeepsOrder
-----------------------------------------------------------------------------
(* An output buffer after a step. *)
Emptied(c) == out'[c] = out[c] \/ out'[c] = <<>> \/ Len(out'[c]) < cfg.to

(* A buffer that is assigned. *)
LEMMA OutAssigned ==
  ASSUME PathInv, NEW c \in CoresOut, NEW x, out' = [out EXCEPT ![c] = x],
         x = out[c] \/ x = <<>> \/ Len(x) < cfg.to
  PROVE  \A d \in CoresOut : Emptied(d)
<1>1. out'[c] = x /\ \A d \in CoresOut : d # c => out'[d] = out[d]
  BY OutBut, Zenon
<1> QED
  BY <1>1, Zenon DEF Emptied

(* Every step leaves a buffer as it was, empty, or short of a burst. *)
LEMMA OutSteps ==
  ASSUME PathInv, [Next]_vars
  PROVE  \A d \in CoresOut : Emptied(d)
<1>0. "rx" \in CoresOut /\ "wk" \in CoresOut /\ "tx" \in CoresOut
  BY DEF CoresOut
<1>1. CASE out' = out
  BY <1>1, Zenon DEF Emptied
<1>2. ASSUME NEW c \in {"rx", "wk"}, NEW r, NEW m, SendOrBuffer(c, r, m)
      PROVE  \A d \in CoresOut : Emptied(d)
  <2>1. c \in CoresOut
    BY <1>0, Zenon
  <2>2. \E x : (x = <<>> \/ Len(x) < cfg.to) /\ out' = [out EXCEPT ![c] = x]
    BY <1>2, Zenon DEF SendOrBuffer
  <2> QED
    BY <2>1, <2>2, OutAssigned, Zenon
<1>3. ASSUME NEW c \in {"rx", "wk"}, NEW r, EndCycle(c, r)
      PROVE  \A d \in CoresOut : Emptied(d)
  <2>1. c \in CoresOut
    BY <1>0, Zenon
  <2>2. out' = out \/ out' = [out EXCEPT ![c] = <<>>]
    BY <1>3, Zenon DEF EndCycle, BurstFlush
  <2> QED
    BY <1>1, <2>1, <2>2, OutAssigned, Zenon
<1>4. ASSUME NEW r \in Rings, NEW from, NEW to, TxRing(r, from, to)
      PROVE  \A d \in CoresOut : Emptied(d)
  <2>1. \/ \E x : (x = <<>> \/ Len(x) < cfg.to) /\ out' = [out EXCEPT !["tx"] = x]
        \/ BurstOf(r) = <<>> /\ out' = [out EXCEPT !["tx"] = out["tx"] \o BurstOf(r)]
    BY <1>4, Zenon DEF TxRing
  <2>2. out["tx"] \in Seq(Mbufs)
    BY DEF PathInv, CoresOut
  <2>3. out["tx"] \o <<>> = out["tx"]
    BY <2>2
  <2> QED
    BY <1>0, <2>1, <2>3, OutAssigned, Zenon
<1>5. CASE Rx
  <2>1. CASE RxBurst
    BY <1>1, <2>1, Zenon DEF RxBurst
  <2>2. CASE RxPacket
    BY <1>1, <1>2, <2>2, Zenon DEF RxPacket
  <2>3. CASE RxEnd
    BY <1>3, <2>3, Zenon DEF RxEnd
  <2> QED
    BY <1>5, <2>1, <2>2, <2>3, Zenon DEF Rx
<1>6. CASE Wk
  <2>1. CASE WkBurst \/ WkWarm
    BY <1>1, <2>1, Zenon DEF WkBurst, WkWarm
  <2>2. CASE WkPacket
    BY <1>1, <1>2, <2>2, Zenon DEF WkPacket
  <2>3. CASE WkEnd
    BY <1>3, <2>3, Zenon DEF WkEnd
  <2> QED
    BY <1>6, <2>1, <2>2, <2>3, Zenon DEF Wk
<1>7. CASE Tx
  <2>1. CASE TxWorker
    BY <1>4, <2>1 DEF TxWorker, Rings
  <2>2. CASE TxTap
    BY <1>4, <2>2 DEF TxTap, Rings
  <2>3. CASE TxEnd
    <3>1. out' = out \/ out' = [out EXCEPT !["tx"] = <<>>]
      BY <2>3, Zenon DEF TxEnd
    <3> QED
      BY <1>0, <1>1, <3>1, OutAssigned, Zenon
  <2> QED
    BY <1>7, <2>1, <2>2, <2>3, Zenon DEF Tx
<1>8. CASE TapTxAny \/ TapRxAny \/ SwapConfig \/ UNCHANGED vars
  <2>1. out' = out
    BY <1>8 DEF TapTxAny, TapTx, TapRxAny, TapRx, SwapConfig, vars
  <2> QED
    BY <1>1, <2>1, Zenon
<1> QED
  BY <1>5, <1>6, <1>7, <1>8, Zenon DEF Next

(* Reloads may change how many packets are read at once and how long a     *)
(* buffer waits, not the number that makes it full.                        *)
SameBursts == \A g, k \in Configs : g.to = k.to

(* No buffer is full between two packets. *)
LEMMA FillStep ==
  ASSUME PathInv, Filling, SameBursts, [Next]_vars, PathInv'
  PROVE  Filling'
<1>1. cfg'.to = cfg.to /\ cfg.to \in Nat \ {0}
  BY ConfigAssumption DEF PathInv, SameBursts
<1>2. ASSUME NEW c \in {"rx", "wk"} PROVE Len(out'[c]) < cfg'.to
  <2>1. Emptied(c) /\ Len(out[c]) < cfg.to
    BY OutSteps DEF CoresOut, Filling
  <2>2. Len(<<>>) < cfg.to
    BY <1>1
  <2> QED
    BY <1>1, <2>1, <2>2, Zenon DEF Emptied
<1> QED
  BY <1>2, Zenon DEF Filling

(* NoMbufLost: every mbuf is in the pool or in a place from which a core   *)
(* takes it, full rings and freed bursts included, as long as reloads keep *)
(* burst_to_ (a buffer longer than the new burst_to_ is cut and the rest   *)
(* forgotten) and no warm-up packet has a zero field (it is skipped and    *)
(* not freed).                                                             *)
THEOREM NoMbufLost ==
  ASSUME SameBursts, "invalid" \notin WarmItems
  PROVE  Spec => []NothingLeaked
<1> DEFINE Inv == PathInv /\ Own(Hold, pool) /\ All(Hold, pool) /\ Filling
<1>1. Init => Inv
  <2>1. Init => Filling
    <3> SUFFICES ASSUME Init, NEW c \in {"rx", "wk"} PROVE Len(out[c]) < cfg.to
      BY Zenon DEF Filling
    <3>1. out[c] = <<>> /\ cfg.to \in Nat \ {0}
      BY ConfigAssumption DEF Init, CoresOut
    <3> QED
      BY <3>1
  <2> QED
    BY <2>1, InitHolds, Zenon
<1>2. ASSUME Inv, [Next]_vars PROVE Inv'
  <2>1. PathInv'
    BY <1>2, TypeStep, Zenon
  <2>2. Own(Hold', pool') /\ All(Hold', pool')
    BY <1>2, StepKeeps, Zenon DEF Good, Whole
  <2>3. Filling'
    BY <1>2, <2>1, FillStep, Zenon
  <2> QED
    BY <2>1, <2>2, <2>3
<1>3. Inv => NothingLeaked
  BY Zenon DEF All, NothingLeaked
<1> QED
  BY <1>1, <1>2, <1>3, PTL DEF Spec
-----------------------------------------------------------------------------
(* Rings are no longer than they are, and an output array has room for     *)
(* what the next step writes behind its packets before it looks at their   *)
(* number: one packet (SendOrBuffer), or a burst of the sending core.      *)
RoomFor == /\ \A r \in Rings : Len(ring[r]) <= RingSize
           /\ \A c \in {"rx", "wk"} : Len(out[c]) + 1 <= ArraySize
           /\ \A g \in Configs : Len(out["tx"]) + g.fm <= ArraySize

(* The bursts a reload can bring, and what they leave of an array. *)
BurstsFit == \A g, k \in Configs : g.to + k.fm <= ArraySize + 1
RoomInv == /\ \A r \in Rings : Len(ring[r]) <= RingSize
           /\ \A c \in CoresOut, g \in Configs : Len(out[c]) + g.fm <= ArraySize

(* A ring that is assigned. *)
LEMMA RingAssigned ==
  ASSUME PathInv, NEW r \in Rings, NEW x, ring' = [ring EXCEPT ![r] = x],
         Len(x) <= RingSize, \A s \in Rings : Len(ring[s]) <= RingSize
  PROVE  \A s \in Rings : Len(ring'[s]) <= RingSize
<1>1. ring'[r] = x /\ \A s \in Rings : s # r => ring'[s] = ring[s]
  BY RingBut, Zenon
<1> QED
  BY <1>1, Zenon

(* A bulk is enqueued where it fits. *)
LEMMA EnqueueFits ==
  ASSUME PathInv, RoomInv, NEW r \in Rings, NEW b \in Seq(Mbufs), Enqueue(r, b)
  PROVE  \A s \in Rings : Len(ring'[s]) <= RingSize
<1>1. ring[r] \in Seq(Mbufs)
  BY DEF PathInv
<1>2. CASE ring' = ring
  BY <1>2, Zenon DEF RoomInv
<1>3. CASE Len(ring[r]) + Len(b) <= RingSize /\ ring' = [ring EXCEPT ![r] = ring[r] \o b]
  <2>1. Len(ring[r] \o b) <= RingSize
    BY <1>1, <1>3
  <2> QED
    BY <1>3, <2>1, RingAssigned, Zenon DEF RoomInv
<1> QED
  BY <1>2, <1>3, Zenon DEF Enqueue

(* What a burst leaves is shorter. *)
LEMMA RestFits ==
  ASSUME PathInv, RoomInv, NEW r \in Rings, ring' = [ring EXCEPT ![r] = RestOf(r)]
  PROVE  \A s \in Rings : Len(ring'[s]) <= RingSize
<1>1. BurstOf(r) \in Seq(Mbufs) /\ RestOf(r) \in Seq(Mbufs) /\ ring[r] = BurstOf(r) \o RestOf(r)
  BY BurstParts, Zenon
<1>2. Len(ring[r]) = Len(BurstOf(r)) + Len(RestOf(r)) /\ Len(BurstOf(r)) \in Nat /\ Len(RestOf(r)) \in Nat
  BY <1>1
<1>3. Len(ring[r]) <= RingSize
  BY Zenon DEF RoomInv
<1>4. Len(RestOf(r)) <= RingSize
  BY <1>2, <1>3, PoolAssumption
<1> QED
  BY <1>4, RingAssigned, Zenon DEF RoomInv

(* A packet of a core that forwards it. *)
LEMMA SendFits ==
  ASSUME PathInv, RoomInv, NEW c \in {"rx", "wk"}, NEW r \in Rings, NEW m \in Mbufs, SendOrBuffer(c, r, m)
  PROVE  \A s \in Rings : Len(ring'[s]) <= RingSize
<1> DEFINE o == Append(out[c], m)
<1>1. out[c] \in Seq(Mbufs) /\ cfg.to \in Nat
  BY ConfigAssumption DEF PathInv, CoresOut
<1>2. o \in Seq(Mbufs) /\ Len(o) \in Nat
  BY <1>1
<1>3. CASE ring' = ring
  BY <1>3, Zenon DEF RoomInv
<1>4. CASE ~(Len(o) < cfg.to) /\ Enqueue(r, SubSeq(o, 1, cfg.to))
  <2> HIDE DEF o
  <2>1. cfg.to \in 0 .. Len(o)
    BY <1>1, <1>2, <1>4
  <2>2. SubSeq(o, 1, cfg.to) \in Seq(Mbufs)
    BY <1>2, <2>1, Cut, Zenon
  <2> QED
    BY <1>4, <2>2, EnqueueFits, Zenon
<1> QED
  BY <1>3, <1>4, Zenon DEF SendOrBuffer

(* The end of a cycle. *)
LEMMA FlushFits ==
  ASSUME PathInv, RoomInv, NEW c \in {"rx", "wk"}, NEW r \in Rings, EndCycle(c, r)
  PROVE  \A s \in Rings : Len(ring'[s]) <= RingSize
<1>1. out[c] \in Seq(Mbufs)
  BY DEF PathInv, CoresOut
<1>2. ring' = ring \/ Enqueue(r, out[c])
  BY Zenon DEF EndCycle, BurstFlush
<1> QED
  BY <1>1, <1>2, EnqueueFits, Zenon DEF RoomInv

(* Packets from the tap. *)
LEMMA TapRxFits ==
  ASSUME PathInv, RoomInv, NEW copies \in {0, 1}, TapRx(copies)
  PROVE  \A s \in Rings : Len(ring'[s]) <= RingSize
<1>1. CASE ring' = ring
  BY <1>1, Zenon DEF RoomInv
<1>2. ASSUME NEW u, NEW v,
             ring' = [ring EXCEPT !["tap_tx"] = IF Len(ring["tap_tx"]) < RingSize THEN Append(@, u) ELSE @,
                                  !["warm"] = IF copies = 1 /\ Len(ring["warm"]) < RingSize THEN Append(@, v) ELSE @]
      PROVE  \A s \in Rings : Len(ring'[s]) <= RingSize
  <2>1. \A s \in Rings : ring[s] \in Seq(Mbufs) /\ Len(ring[s]) <= RingSize /\ Len(ring[s]) \in Nat
    BY DEF PathInv, RoomInv
  <2>2. \A s \in Rings : \A x : Len(Append(ring[s], x)) = Len(ring[s]) + 1
    BY <2>1
  <2>3. /\ \/ ring'["tap_tx"] = ring["tap_tx"]
           \/ Len(ring["tap_tx"]) < RingSize /\ ring'["tap_tx"] = Append(ring["tap_tx"], u)
        /\ \/ ring'["warm"] = ring["warm"]
           \/ Len(ring["warm"]) < RingSize /\ ring'["warm"] = Append(ring["warm"], v)
        /\ \A s \in Rings : s # "tap_tx" /\ s # "warm" => ring'[s] = ring[s]
    BY <1>2 DEF PathInv, Rings
  <2>4. "tap_tx" \in Rings /\ "warm" \in Rings
    BY DEF Rings
  <2>5. Len(ring'["tap_tx"]) <= RingSize
    BY <2>1, <2>2, <2>3, <2>4, PoolAssumption
  <2>6. Len(ring'["warm"]) <= RingSize
    BY <2>1, <2>2, <2>3, <2>4, PoolAssumption
  <2> QED
    BY <2>1, <2>3, <2>5, <2>6, Zenon
<1>3. CASE ~(Cardinality(pool) < 1 + copies)
  BY <1>2, <1>3, Zenon DEF TapRx
<1> QED
  <2>1. ring' = ring \/ ~(Cardinality(pool) < 1 + copies)
    BY Zenon DEF TapRx
  <2> QED
    BY <1>1, <1>3, <2>1, Zenon
(* A step of the system. *)
LEMMA RoomStep ==
  ASSUME PathInv, PathInv', RoomInv, [Next]_vars, BurstsFit
  PROVE  RoomInv'
<1>1. /\ \A c \in {"rx", "wk"} : inp[c] # <<>> => Head(inp[c]) \in Mbufs
      /\ {"rx_wk", "wk_tx", "rx_tap", "err", "tap_tx", "warm"} \subseteq Rings
  BY HeadAndTail DEF PathInv, Rings
<1>2. \A s \in Rings : Len(ring'[s]) <= RingSize
  <2>1. CASE ring' = ring
    BY <2>1, Zenon DEF RoomInv
  <2>2. CASE Rx
    <3>1. CASE RxBurst
      BY <2>1, <3>1, Zenon DEF RxBurst
    <3>2. CASE RxPacket
      <4>1. Head(inp["rx"]) \in Mbufs
        BY <1>1, <3>2, Zenon DEF RxPacket
      <4>2. <<Head(inp["rx"])>> \in Seq(Mbufs)
        BY <4>1
      <4> QED
        BY <1>1, <3>2, <4>1, <4>2, SendFits, EnqueueFits, Zenon DEF RxPacket
    <3>3. CASE RxEnd
      BY <1>1, <3>3, FlushFits, Zenon DEF RxEnd
    <3> QED
      BY <2>2, <3>1, <3>2, <3>3, Zenon DEF Rx
  <2>3. CASE Wk
    <3>1. CASE WkBurst \/ WkWarm
      BY <1>1, <3>1, RestFits, Zenon DEF WkBurst, WkWarm
    <3>2. CASE WkPacket
      <4>1. Head(inp["wk"]) \in Mbufs
        BY <1>1, <3>2, Zenon DEF WkPacket
      <4> QED
        BY <1>1, <2>1, <3>2, <4>1, SendFits, Zenon DEF WkPacket
    <3>3. CASE WkEnd
      BY <1>1, <3>3, FlushFits, Zenon DEF WkEnd
    <3> QED
      BY <2>3, <3>1, <3>2, <3>3, Zenon DEF Wk
  <2>4. CASE Tx
    <3>1. CASE TxWorker
      BY <1>1, <3>1, RestFits, Zenon DEF TxWorker, TxRing
    <3>2. CASE TxTap
      BY <1>1, <3>2, RestFits, Zenon DEF TxTap, TxRing
    <3>3. CASE TxEnd
      BY <2>1, <3>3, Zenon DEF TxEnd
    <3> QED
      BY <2>4, <3>1, <3>2, <3>3, Zenon DEF Tx
  <2>5. CASE TapTxAny
    BY <1>1, <2>5, RestFits, Zenon DEF TapTxAny, TapTx
  <2>6. CASE TapRxAny
    BY <2>6, TapRxFits, ZenonT(30) DEF TapRxAny
  <2>7. CASE SwapConfig \/ UNCHANGED vars
    BY <2>1, <2>7 DEF SwapConfig, vars
  <2> QED
    BY <2>2, <2>3, <2>4, <2>5, <2>6, <2>7, Zenon DEF Next
<1>3. ASSUME NEW c \in CoresOut, NEW g \in Configs PROVE Len(out'[c]) + g.fm <= ArraySize
  <2>1. /\ Emptied(c) /\ Len(out[c]) + g.fm <= ArraySize /\ cfg.to + g.fm <= ArraySize + 1
        /\ cfg.to \in Nat \ {0} /\ g.fm \in Nat
    BY OutSteps, ConfigAssumption DEF RoomInv, PathInv, BurstsFit
  <2>2. Len(<<>>) + g.fm <= ArraySize
    BY <2>1, PoolAssumption
  <2>3. CASE Len(out'[c]) < cfg.to
    <3>1. Len(out'[c]) \in Nat
      BY DEF PathInv
    <3> QED
      BY <2>1, <2>3, <3>1, PoolAssumption, SMTT(30)
  <2> QED
    BY <2>1, <2>2, <2>3, ZenonT(30) DEF Emptied
<1> QED
  BY <1>2, <1>3, Zenon DEF RoomInv

(* NothingOverrun: if burst_to_ and burst_fm_ of any two configurations    *)
(* make at most one more than the length of the arrays, no output array is *)
(* written beyond its end and no ring holds more than its size, in any     *)
(* mixture of buffered packets, flushes and reloads that change the        *)
(* bursts.                                                                 *)
THEOREM NothingOverrun ==
  ASSUME BurstsFit
  PROVE  Spec => []RoomFor
<1> DEFINE Inv == PathInv /\ Own(Hold, pool) /\ RoomInv
<1>1. Init => Inv
  <2>1. Init => RoomInv
    <3> SUFFICES ASSUME Init PROVE RoomInv
      OBVIOUS
    <3>1. (\A r \in Rings : ring[r] = <<>>) /\ (\A c \in CoresOut : out[c] = <<>>) /\ cfg \in Configs
      BY Zenon DEF Init
    <3>2. ASSUME NEW g \in Configs PROVE Len(<<>>) + g.fm <= ArraySize
      <4>1. cfg.to + g.fm <= ArraySize + 1 /\ cfg.to \in Nat \ {0} /\ g.fm \in Nat
        BY <3>1, ConfigAssumption DEF BurstsFit
      <4> QED
        BY <4>1, PoolAssumption
    <3>3. Len(<<>>) <= RingSize
      BY PoolAssumption
    <3> QED
      BY <3>1, <3>2, <3>3, Zenon DEF RoomInv
  <2> QED
    BY <2>1, InitHolds, Zenon
<1>2. ASSUME Inv, [Next]_vars PROVE Inv'
  <2>1. PathInv'
    BY <1>2, TypeStep, Zenon
  <2>2. Own(Hold', pool')
    BY <1>2, StepKeeps, Zenon DEF Good
  <2>3. RoomInv'
    BY <1>2, <2>1, RoomStep, Zenon
  <2> QED
    BY <2>1, <2>2, <2>3
<1>3. Inv => RoomFor
  <2> SUFFICES ASSUME Inv PROVE RoomFor
    OBVIOUS
  <2>1. \A c \in CoresOut : Len(out[c]) \in Nat
    BY DEF PathInv
  <2>2. cfg \in Configs /\ cfg.fm \in Nat \ {0}
    BY ConfigAssumption DEF PathInv
  <2>3. \A c \in CoresOut : Len(out[c]) + cfg.fm <= ArraySize
    BY <2>2, Zenon DEF RoomInv
  <2>4. \A c \in CoresOut : Len(out[c]) + 1 <= ArraySize
    BY <2>1, <2>2, <2>3, PoolAssumption, SMTT(30)
  <2>5. "rx" \in CoresOut /\ "wk" \in CoresOut /\ "tx" \in CoresOut
    BY DEF CoresOut
  <2> QED
    BY <2>4, <2>5, Zenon DEF RoomInv, RoomFor
<1> QED
  BY <1>1, <1>2, <1>3, PTL DEF Spec
=============================================================================
