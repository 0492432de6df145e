---------------------------- MODULE RadiusProofs ----------------------------
(***************************************************************************)
(* That the RADIUS server answers an address as its datagrams were read,   *)
(* for any number of addresses and datagrams and any size of the bursts.   *)
(*                                                                         *)
(* The client of the address holds the identifier of the last well-formed  *)
(* datagram, which is what decides whether the next is answered.           *)
(***************************************************************************)
EXTENDS Radius, WeightProofs

(* What Among returns is made of the elements of the sequence. *)
LEMMA AmongSeq ==
  ASSUME NEW X, NEW S, NEW s \in Seq(X)
  PROVE  Among(s, S) \in Seq(X)
<1>1. PICK f : Selects(s, S, X, f) /\ Among(s, S) = f[Len(s)]
  BY AmongLoop, Zenon
<1>2. Len(s) \in 0 .. Len(s)
  OBVIOUS
<1> QED
  BY <1>1, <1>2, Zenon DEF Selects

(* Among of the empty sequence. *)
LEMMA AmongEmpty ==
  ASSUME NEW S
  PROVE  Among(<<>>, S) = <<>>
<1>1. <<>> \in Seq({}) /\ Len(<<>>) = 0
  OBVIOUS
<1>2. PICK f : Selects(<<>>, S, {}, f) /\ Among(<<>>, S) = f[Len(<<>>)]
  BY <1>1, AmongLoop, Zenon
<1> QED
  BY <1>1, <1>2, Zenon DEF Selects

(* One element more is selected or not. *)
LEMMA AmongAppend ==
  ASSUME NEW X, NEW S, NEW s \in Seq(X), NEW x \in X
  PROVE  /\ x \in S => Among(Append(s, x), S) = Append(Among(s, S), x)
         /\ x \notin S => Among(Append(s, x), S) = Among(s, S)
<1> DEFINE t == Append(s, x)
           n == Len(s)
<1>1. /\ t \in Seq(X) /\ n \in Nat /\ Len(t) = n + 1 /\ t[n + 1] = x
      /\ \A i \in 1 .. n : t[i] = s[i]
  OBVIOUS
<1>2. PICK f : Selects(s, S, X, f) /\ Among(s, S) = f[n]
  BY AmongLoop, Zenon
<1>3. PICK g : Selects(t, S, X, g) /\ Among(t, S) = g[Len(t)]
  BY <1>1, AmongLoop, Zenon
<1> HIDE DEF t
<1> DEFINE T == {i \in 0 .. n : f[i] = g[i]}
<1>4. 0 \in T
  <2>1. 0 \in 0 .. n
    BY <1>1
  <2> QED
    BY <1>2, <1>3, <2>1, Zenon DEF Selects
<1>5. ASSUME NEW i \in 0 .. n - 1, i \in T PROVE i + 1 \in T
  <2>1. i + 1 \in 1 .. n /\ i + 1 \in 1 .. Len(t) /\ (i + 1) - 1 = i /\ i + 1 \in 0 .. n
    BY <1>1
  <2>2. f[i + 1] = IF s[i + 1] \in S THEN Append(f[(i + 1) - 1], s[i + 1]) ELSE f[(i + 1) - 1]
    BY <1>2, <2>1, Zenon DEF Selects
  <2>3. g[i + 1] = IF t[i + 1] \in S THEN Append(g[(i + 1) - 1], t[i + 1]) ELSE g[(i + 1) - 1]
    BY <1>3, <2>1, Zenon DEF Selects
  <2>4. f[i + 1] = g[i + 1]
    BY <1>1, <1>5, <2>1, <2>2, <2>3, Zenon
  <2> QED
    BY <2>1, <2>4, Zenon
<1>6. f[n] = g[n]
  <2> HIDE DEF T
  <2>1. \A i \in 0 .. n : i \in T
    BY <1>1, <1>4, <1>5, UpTo, Zenon
  <2>2. n \in 0 .. n
    BY <1>1
  <2> QED
    BY <2>1, <2>2, Zenon DEF T
<1>7. n + 1 \in 1 .. Len(t) /\ (n + 1) - 1 = n
  BY <1>1
<1>8. g[n + 1] = IF t[n + 1] \in S THEN Append(g[(n + 1) - 1], t[n + 1]) ELSE g[(n + 1) - 1]
  BY <1>3, <1>7, Zenon DEF Selects
<1> QED
  BY <1>1, <1>2, <1>3, <1>6, <1>7, <1>8, Zenon DEF t

-----------------------------------------------------------------------------
Reply == [id : Identifiers, auth : Nat, code : {"ACCEPT", "REJECT", "ACCOUNTED"}]

(* The datagrams of good that follow none with the same identifier, and    *)
(* how far they come in the order of the answers.                          *)
Firsts(good) == {i \in 1 .. Len(good) : i = 1 \/ good[i - 1].id # good[i].id}
Rank(good, i) == Cardinality({j \in Firsts(good) : j <= i})
Fits(good, sent) ==
  /\ Len(sent) = Cardinality(Firsts(good))
  /\ \A i \in Firsts(good) :
       sent[Rank(good, i)].id = good[i].id /\ sent[Rank(good, i)].auth = good[i].auth

(* They are finitely many and each has a place among the answers. *)
LEMMA RankInRange ==
  ASSUME NEW good \in Seq(Datagrams), NEW i \in Firsts(good)
  PROVE  /\ IsFiniteSet(Firsts(good)) /\ Cardinality(Firsts(good)) \in Nat
         /\ Rank(good, i) \in 1 .. Cardinality(Firsts(good))
<1> DEFINE F == Firsts(good)
           R == {j \in F : j <= i}
<1>1. Len(good) \in Nat /\ F \subseteq 1 .. Len(good)
  BY DEF Firsts
<1>2. IsFiniteSet(1 .. Len(good))
  BY <1>1, FS_Interval, SMT
<1>3. IsFiniteSet(F)
  BY <1>1, <1>2, FS_Subset, Zenon
<1>4. R \subseteq F /\ i \in R
  BY <1>1
<1> HIDE DEF F, R
<1>5. IsFiniteSet(R) /\ Cardinality(R) <= Cardinality(F)
  BY <1>3, <1>4, FS_Subset, Zenon
<1>6. Cardinality(F) \in Nat /\ Cardinality(R) \in Nat
  BY <1>3, <1>5, FS_CardinalityType, Zenon
<1>7. Cardinality(R) # 0
  <2>1. R # {}
    BY <1>4, Zenon
  <2> QED
    BY <1>5, <2>1, FS_EmptySet, Zenon
<1>8. Cardinality(R) \in 1 .. Cardinality(F)
  BY <1>5, <1>6, <1>7, SMT
<1> QED
  BY <1>3, <1>6, <1>8, Zenon DEF F, R, Rank

(* One datagram more leaves the ranks of those before it. *)
LEMMA FirstsAppend ==
  ASSUME NEW good \in Seq(Datagrams), NEW d \in Datagrams
  PROVE  LET more == Append(good, d)
             new == good = <<>> \/ good[Len(good)].id # d.id
         IN /\ Firsts(more) = IF new THEN Firsts(good) \cup {Len(good) + 1} ELSE Firsts(good)
            /\ \A i \in Firsts(good) : Rank(more, i) = Rank(good, i) /\ more[i] = good[i]
<1> DEFINE more == Append(good, d)
           new == good = <<>> \/ good[Len(good)].id # d.id
           n == Len(good)
<1>1. n \in Nat /\ Len(more) = n + 1 /\ more[n + 1] = d /\ \A i \in 1 .. n : more[i] = good[i]
  OBVIOUS
<1>2. good = <<>> <=> n = 0
  OBVIOUS
<1> HIDE DEF more
<1>3. ASSUME NEW i \in 1 .. n PROVE i \in Firsts(more) <=> i \in Firsts(good)
  <2>1. i \in 1 .. Len(more) /\ more[i] = good[i] /\ (i # 1 => more[i - 1] = good[i - 1])
    BY <1>1
  <2> QED
    BY <2>1 DEF Firsts
<1>4. n + 1 \in Firsts(more) <=> new
  <2>1. n + 1 \in 1 .. Len(more) /\ (n + 1 = 1 <=> n = 0) /\ (n + 1) - 1 = n
    BY <1>1
  <2>2. n # 0 => more[n] = good[n]
    BY <1>1
  <2>3. n + 1 \in Firsts(more) <=> (n + 1 = 1 \/ more[(n + 1) - 1].id # more[n + 1].id)
    BY <2>1, Zenon DEF Firsts
  <2>4. n + 1 \in Firsts(more) <=> (n = 0 \/ more[n].id # d.id)
    BY <1>1, <2>1, <2>3, Zenon
  <2> QED
    BY <1>2, <2>2, <2>4, Zenon
<1>5. Firsts(more) \subseteq 1 .. n + 1 /\ Firsts(good) \subseteq 1 .. n
  BY <1>1 DEF Firsts
<1>6. Firsts(more) = IF new THEN Firsts(good) \cup {n + 1} ELSE Firsts(good)
  <2> HIDE DEF new, n
  <2>1. \A i : i \in 1 .. n + 1 <=> i \in 1 .. n \/ i = n + 1
    BY <1>1
  <2>2. ASSUME NEW i PROVE i \in Firsts(more) <=> (i \in Firsts(good) \/ (new /\ i = n + 1))
    <3>1. ~(n + 1 \in 1 .. n)
      BY <1>1
    <3> QED
      BY <1>3, <1>4, <1>5, <2>1, <3>1, Zenon
  <2>3. CASE new
    BY <2>2, <2>3, Zenon
  <2>4. CASE ~new
    BY <2>2, <2>4, Zenon
  <2> QED
    BY <2>3, <2>4, Zenon
<1>7. ASSUME NEW i \in Firsts(good) PROVE Rank(more, i) = Rank(good, i) /\ more[i] = good[i]
  <2>1. i \in 1 .. n /\ ~(n + 1 <= i)
    BY <1>1, <1>5
  <2>2. {j \in Firsts(more) : j <= i} = {j \in Firsts(good) : j <= i}
    <3> HIDE DEF new
    <3> QED BY <1>6, <2>1, Zenon
  <2> QED
    BY <1>1, <2>1, <2>2, Zenon DEF Rank
<1> QED
  BY <1>6, <1>7, Zenon DEF more

(* An answer for every datagram that does not repeat the identifier before *)
(* it, and none for one that does, keeps the answers fit.                  *)
LEMMA FitsAppend ==
  ASSUME NEW good \in Seq(Datagrams), NEW d \in Datagrams, NEW sent \in Seq(Reply), NEW r \in Reply,
         Fits(good, sent), r.id = d.id, r.auth = d.auth
  PROVE  IF good = <<>> \/ good[Len(good)].id # d.id
         THEN Fits(Append(good, d), Append(sent, r))
         ELSE Fits(Append(good, d), sent)
<1> DEFINE more == Append(good, d)
           new == good = <<>> \/ good[Len(good)].id # d.id
           n == Len(good)
           answers == Append(sent, r)
           k == Len(sent)
<1>1. /\ Firsts(more) = IF new THEN Firsts(good) \cup {n + 1} ELSE Firsts(good)
      /\ \A i \in Firsts(good) : Rank(more, i) = Rank(good, i) /\ more[i] = good[i]
  BY FirstsAppend, Zenon
<1>2. n \in Nat /\ Firsts(good) \subseteq 1 .. n /\ more[n + 1] = d /\ more \in Seq(Datagrams)
  BY DEF Firsts
<1>3. /\ k \in Nat /\ Len(answers) = k + 1 /\ answers[k + 1] = r
      /\ \A i \in 1 .. k : answers[i] = sent[i]
  OBVIOUS
<1>4. k = Cardinality(Firsts(good))
  BY DEF Fits
<1>5. \A i \in Firsts(good) : Rank(good, i) \in 1 .. k
  BY <1>4, RankInRange, Zenon
<1> HIDE DEF more, answers, n, k
<1>6. CASE ~new
  <2>1. Firsts(more) = Firsts(good)
    BY <1>1, <1>6, Zenon
  <2>2. Fits(more, sent)
    BY <1>1, <2>1, Zenon DEF Fits
  <2> QED
    BY <1>6, <2>2, Zenon DEF more
<1>7. CASE new
  <2>1. Firsts(more) = Firsts(good) \cup {n + 1}
    BY <1>1, <1>7, Zenon
  <2>2. n + 1 \notin Firsts(good) /\ IsFiniteSet(Firsts(good))
    <3>1. IsFiniteSet(1 .. n) /\ ~(n + 1 \in 1 .. n)
      BY <1>2, FS_Interval, SMT
    <3> QED
      BY <1>2, <3>1, FS_Subset, Zenon
  <2>3. Cardinality(Firsts(more)) = k + 1
    <3>1. Cardinality(Firsts(good) \cup {n + 1}) = Cardinality(Firsts(good)) + 1
      BY <2>2, FS_AddElement, Zenon
    <3> QED
      BY <1>4, <2>1, <3>1, Zenon
  <2>4. ASSUME NEW i \in Firsts(good)
        PROVE  answers[Rank(more, i)].id = more[i].id /\ answers[Rank(more, i)].auth = more[i].auth
    BY <1>1, <1>3, <1>5, Zenon DEF Fits
  <2>5. Rank(more, n + 1) = k + 1
    <3>1. \A j \in Firsts(more) : j <= n + 1
      BY <1>2, <2>1
    <3>2. {j \in Firsts(more) : j <= n + 1} = Firsts(more)
      BY <3>1, Zenon
    <3> QED
      BY <2>3, <3>2, Zenon DEF Rank
  <2>6. ASSUME NEW i \in Firsts(more)
        PROVE  answers[Rank(more, i)].id = more[i].id /\ answers[Rank(more, i)].auth = more[i].auth
    BY <1>2, <1>3, <2>1, <2>4, <2>5, Zenon
  <2>7. Fits(more, answers)
    BY <1>3, <2>3, <2>6, Zenon DEF Fits
  <2> QED
    BY <1>7, <2>7, Zenon DEF more, answers
<1> QED
  BY <1>6, <1>7, Zenon

-----------------------------------------------------------------------------
(* The clients and the answers of s agree with what was read, h: an address *)
(* has a client once it sent a well-formed datagram, the client holds the   *)
(* identifier of the last of those, and the answers fit them.               *)
Good(h, nas) == Among(h[nas], {d \in Datagrams : WellFormed(d)})
KnowsLast(ids, h, nas) ==
  /\ nas \in DOMAIN ids <=> Good(h, nas) # <<>>
  /\ nas \in DOMAIN ids => ids[nas].seq = Good(h, nas)[Len(Good(h, nas))].id
Answering(s, h) ==
  /\ DOMAIN s.ids \subseteq Nases /\ s.sent \in [Nases -> Seq(Reply)]
  /\ \A nas \in Nases : KnowsLast(s.ids, h, nas) /\ Fits(Good(h, nas), s.sent[nas])

(* What was read, after one datagram more. *)
With(h, d) == [h EXCEPT ![d.nas] = Append(@, d)]

(* A datagram changes what was well formed of its own address only. *)
LEMMA GoodWith ==
  ASSUME NEW h \in [Nases -> Seq(Datagrams)], NEW d \in Datagrams
  PROVE  /\ With(h, d) \in [Nases -> Seq(Datagrams)]
         /\ \A nas \in Nases : Good(h, nas) \in Seq(Datagrams)
         /\ \A nas \in Nases \ {d.nas} : Good(With(h, d), nas) = Good(h, nas)
         /\ Good(With(h, d), d.nas) =
              IF WellFormed(d) THEN Append(Good(h, d.nas), d) ELSE Good(h, d.nas)
<1>0. d.nas \in Nases
  BY DEF Datagrams
<1>1. /\ With(h, d) \in [Nases -> Seq(Datagrams)]
      /\ With(h, d)[d.nas] = Append(h[d.nas], d)
      /\ \A nas \in Nases \ {d.nas} : With(h, d)[nas] = h[nas]
  BY <1>0 DEF With
<1>2. \A nas \in Nases : Good(h, nas) \in Seq(Datagrams)
  <2>1. \A nas \in Nases : h[nas] \in Seq(Datagrams)
    OBVIOUS
  <2> QED
    BY <2>1, AmongSeq, Zenon DEF Good
<1>3. d \in {e \in Datagrams : WellFormed(e)} <=> WellFormed(d)
  BY Zenon
<1>4. h[d.nas] \in Seq(Datagrams)
  BY <1>0
<1> DEFINE W == {e \in Datagrams : WellFormed(e)}
<1>5. /\ d \in W => Among(Append(h[d.nas], d), W) = Append(Among(h[d.nas], W), d)
      /\ d \notin W => Among(Append(h[d.nas], d), W) = Among(h[d.nas], W)
  <2> HIDE DEF W
  <2> QED BY <1>4, AmongAppend, Zenon
<1> QED
  BY <1>1, <1>2, <1>3, <1>5, Zenon DEF Good

(* The code of an answer, and the answer. *)
LEMMA ResponseIs ==
  ASSUME NEW d \in Datagrams
  PROVE  LET r == Response([seq |-> d.id, auth |-> d.auth], Code(d))
         IN r \in Reply /\ r.id = d.id /\ r.auth = d.auth
<1>1. Code(d) \in {"ACCEPT", "REJECT", "ACCOUNTED"}
  BY DEF Code, ReqAccess, ReqAccount
<1>2. d.id \in Identifiers /\ d.auth \in Nat
  BY DEF Datagrams
<1> HIDE DEF Code
<1> QED
  BY <1>1, <1>2 DEF Response, Reply

(* RecvEvent keeps the clients and the answers in step with what was read. *)
LEMMA RecvOne ==
  ASSUME NEW h \in [Nases -> Seq(Datagrams)], NEW d \in Datagrams, NEW s, Answering(s, h)
  PROVE  Answering(RecvEvent(s, d), With(h, d))
<1> DEFINE g == With(h, d)
           r == Response([seq |-> d.id, auth |-> d.auth], Code(d))
           was == Good(h, d.nas)
<1>1. /\ \A nas \in Nases : Good(h, nas) \in Seq(Datagrams)
      /\ \A nas \in Nases \ {d.nas} : Good(g, nas) = Good(h, nas)
      /\ WellFormed(d) => Good(g, d.nas) = Append(was, d)
      /\ ~WellFormed(d) => Good(g, d.nas) = was
  BY GoodWith, Zenon
<1>2. d.nas \in Nases
  BY DEF Datagrams
<1>3. r \in Reply /\ r.id = d.id /\ r.auth = d.auth
  BY ResponseIs, Zenon
<1>4. /\ DOMAIN s.ids \subseteq Nases /\ s.sent \in [Nases -> Seq(Reply)]
      /\ \A nas \in Nases : KnowsLast(s.ids, h, nas) /\ Fits(Good(h, nas), s.sent[nas])
  BY DEF Answering
<1>5. was \in Seq(Datagrams) /\ s.sent[d.nas] \in Seq(Reply)
  BY <1>1, <1>2, <1>4, Zenon
<1>6. /\ Append(was, d) # <<>>
      /\ Append(was, d)[Len(Append(was, d))] = d
  BY <1>5
<1> HIDE DEF g, r, was
<1>7. /\ (was = <<>> \/ was[Len(was)].id # d.id) => Fits(Append(was, d), Append(s.sent[d.nas], r))
      /\ ~(was = <<>> \/ was[Len(was)].id # d.id) => Fits(Append(was, d), s.sent[d.nas])
  <2>1. Fits(was, s.sent[d.nas])
    BY <1>2, <1>4, Zenon DEF was
  <2>2. ASSUME NEW t \in Seq(Datagrams), NEW u \in Seq(Reply), Fits(t, u)
        PROVE  /\ (t = <<>> \/ t[Len(t)].id # d.id) => Fits(Append(t, d), Append(u, r))
               /\ ~(t = <<>> \/ t[Len(t)].id # d.id) => Fits(Append(t, d), u)
    BY <1>3, <2>2, FitsAppend, Zenon
  <2> QED
    BY <1>5, <2>1, <2>2, Zenon
<1>8. /\ d.nas \in DOMAIN s.ids <=> was # <<>>
      /\ d.nas \in DOMAIN s.ids => s.ids[d.nas].seq = was[Len(was)].id
  BY <1>2, <1>4, Zenon DEF KnowsLast, was
<1>9. Repeated(s.ids, d) <=> ~(was = <<>> \/ was[Len(was)].id # d.id)
  BY <1>8, Zenon DEF Repeated
<1>10. CASE ~WellFormed(d)
  <2>1. RecvEvent(s, d) = s
    BY <1>10, Zenon DEF RecvEvent, ValidateRadius
  <2>2. \A nas \in Nases : Good(g, nas) = Good(h, nas)
    BY <1>1, <1>10, Zenon DEF was
  <2> QED
    BY <1>4, <2>1, <2>2, Zenon DEF Answering, KnowsLast, g
<1>11. CASE WellFormed(d) /\ Repeated(s.ids, d)
  <2>1. RecvEvent(s, d) = s
    BY <1>11, Zenon DEF RecvEvent, ValidateRadius
  <2>2. Good(g, d.nas) = Append(was, d)
    BY <1>1, <1>11, Zenon
  <2>3. KnowsLast(s.ids, g, d.nas)
    BY <1>6, <1>11, <2>2, Zenon DEF KnowsLast, Repeated
  <2>4. Fits(Good(g, d.nas), s.sent[d.nas])
    BY <1>7, <1>9, <1>11, <2>2, Zenon
  <2>5. ASSUME NEW nas \in Nases, nas # d.nas
        PROVE  KnowsLast(s.ids, g, nas) /\ Fits(Good(g, nas), s.sent[nas])
    <3>1. Good(g, nas) = Good(h, nas)
      BY <1>1, <2>5, Zenon
    <3> QED
      BY <1>4, <3>1, Zenon DEF KnowsLast
  <2> QED
    BY <1>4, <2>1, <2>3, <2>4, <2>5, Zenon DEF Answering, g
<1>12. CASE WellFormed(d) /\ ~Repeated(s.ids, d)
  <2> DEFINE ids == Client(s.ids, d)
             sent == [s.sent EXCEPT ![d.nas] = Append(@, r)]
  <2>1. /\ DOMAIN ids = DOMAIN s.ids \cup {d.nas} /\ ids[d.nas] = [seq |-> d.id, auth |-> d.auth]
        /\ \A nas \in DOMAIN s.ids : nas # d.nas => ids[nas] = s.ids[nas]
    BY DEF Client
  <2>2. ids[d.nas].seq = d.id
    BY <2>1
  <2> HIDE DEF sent
  <2>3. /\ sent \in [Nases -> Seq(Reply)] /\ sent[d.nas] = Append(s.sent[d.nas], r)
        /\ \A nas \in Nases : nas # d.nas => sent[nas] = s.sent[nas]
    <3>1. sent = [s.sent EXCEPT ![d.nas] = Append(@, r)]
      BY Zenon DEF sent
    <3>2. s.sent \in [Nases -> Seq(Reply)] /\ d.nas \in Nases /\ r \in Reply
      BY <1>2, <1>3, <1>4, Zenon
    <3> QED
      BY <3>1, <3>2, SMTT(30)
  <2> HIDE DEF ids
  <2>4. RecvEvent(s, d) = [ids |-> ids, sent |-> sent]
    <3>1. Response(ids[d.nas], Code(d)) = r
      BY <2>1, Zenon DEF r
    <3>2. ValidateRadius(s.ids, d)
      BY <1>12, Zenon DEF ValidateRadius
    <3> QED
      BY <3>1, <3>2, Zenon DEF RecvEvent, ids, sent
  <2>5. RecvEvent(s, d).ids = ids /\ RecvEvent(s, d).sent = sent
    BY <2>4
  <2>6. Good(g, d.nas) = Append(was, d)
    BY <1>1, <1>12, Zenon
  <2>7. KnowsLast(ids, g, d.nas)
    BY <1>6, <2>1, <2>2, <2>6, Zenon DEF KnowsLast
  <2>8. Fits(Good(g, d.nas), sent[d.nas])
    BY <1>7, <1>9, <1>12, <2>3, <2>6, Zenon
  <2>9. ASSUME NEW nas \in Nases, nas # d.nas
        PROVE  KnowsLast(ids, g, nas) /\ Fits(Good(g, nas), sent[nas])
    <3>1. Good(g, nas) = Good(h, nas)
      BY <1>1, <2>9, Zenon
    <3>2. nas \in DOMAIN ids <=> nas \in DOMAIN s.ids
      BY <2>1, <2>9, Zenon
    <3> QED
      BY <1>4, <2>1, <2>3, <2>9, <3>1, <3>2, Zenon DEF KnowsLast
  <2>10. DOMAIN ids \subseteq Nases
    BY <1>2, <1>4, <2>1, Zenon
  <2> QED
    BY <2>3, <2>5, <2>7, <2>8, <2>9, <2>10, Zenon DEF Answering, g
<1> QED
  BY <1>10, <1>11, <1>12, Zenon

-----------------------------------------------------------------------------
(* The loop of RecvEach, up to its step n. *)
RecvSteps(s, burst, n, f) ==
  f = [i \in 0 .. n |-> f[i]] /\ f[0] = s /\ \A i \in 1 .. n : f[i] = RecvEvent(f[i - 1], burst[i])

(* RecvEach returns the last value of its loop. *)
LEMMA RecvLoop ==
  ASSUME NEW s, NEW burst, Len(burst) \in Nat
  PROVE  \E f : RecvSteps(s, burst, Len(burst), f) /\ RecvEach(s, burst) = f[Len(burst)]
<1> DEFINE n == Len(burst)
           after[i \in 0 .. Len(burst)] ==
             IF i = 0 THEN s ELSE The({RecvEvent(x, burst[i]) : x \in {after[i - 1]}})
           Eq(h) == h = [i \in 0 .. Len(burst) |->
             IF i = 0 THEN s ELSE The({RecvEvent(x, burst[i]) : x \in {h[i - 1]}})]
           S == {j \in Nat : \E f : RecvSteps(s, burst, j, f)}
<1>1. RecvEach(s, burst) = after[Len(burst)]
  BY DEF RecvEach
<1>2. after = CHOOSE h : Eq(h)
  OBVIOUS
<1>3. 0 \in S
  <2> DEFINE f == [i \in 0 .. 0 |-> s]
  <2>1. RecvSteps(s, burst, 0, f)
    BY DEF RecvSteps
  <2> HIDE DEF f
  <2> QED
    BY <2>1
<1>4. ASSUME NEW j \in 0 .. n - 1, j \in S PROVE j + 1 \in S
  <2>1. PICK f : RecvSteps(s, burst, j, f)
    BY <1>4
  <2> DEFINE h == [i \in 0 .. j + 1 |-> IF i <= j THEN f[i] ELSE RecvEvent(f[j], burst[j + 1])]
  <2>2. h = [i \in 0 .. j + 1 |-> h[i]] /\ h[0] = s
    BY <2>1 DEF RecvSteps
  <2>3. ASSUME NEW i \in 1 .. j + 1 PROVE h[i] = RecvEvent(h[i - 1], burst[i])
    <3>1. CASE i <= j
      <4>1. h[i] = f[i] /\ h[i - 1] = f[i - 1] /\ i \in 1 .. j
        BY <3>1
      <4> HIDE DEF h
      <4> QED
        BY <2>1, <4>1, Zenon DEF RecvSteps
    <3>2. CASE i = j + 1
      <4>1. h[i] = RecvEvent(f[j], burst[j + 1]) /\ h[i - 1] = f[j]
        BY <3>2
      <4> HIDE DEF h
      <4> QED
        BY <3>2, <4>1, Zenon
    <3> QED
      BY <3>1, <3>2
  <2> HIDE DEF h
  <2>4. RecvSteps(s, burst, j + 1, h)
    BY <2>2, <2>3, Zenon DEF RecvSteps
  <2>5. j + 1 \in Nat
    OBVIOUS
  <2> QED
    BY <2>4, <2>5, Zenon
<1>5. PICK f : RecvSteps(s, burst, n, f)
  <2> HIDE DEF S
  <2>1. \A i \in 0 .. n : i \in S
    BY <1>3, <1>4, UpTo, SMTT(30)
  <2>2. n \in S
    BY <2>1
  <2> QED
    BY <2>2, Zenon DEF S
<1>6. ASSUME NEW i, NEW h PROVE The({RecvEvent(x, burst[i]) : x \in {h[i - 1]}}) = RecvEvent(h[i - 1], burst[i])
  <2>1. {RecvEvent(x, burst[i]) : x \in {h[i - 1]}} = {RecvEvent(h[i - 1], burst[i])}
    OBVIOUS
  <2> QED
    BY <2>1, TheOnly, Zenon
<1>7. Eq(f)
  <2>1. f = [i \in 0 .. n |-> f[i]]
    BY <1>5, Zenon DEF RecvSteps
  <2>2. ASSUME NEW i \in 0 .. n
        PROVE f[i] = IF i = 0 THEN s ELSE The({RecvEvent(x, burst[i]) : x \in {f[i - 1]}})
    <3>1. i = 0 \/ i \in 1 .. n
      OBVIOUS
    <3> QED
      BY <1>5, <1>6, <3>1, Zenon DEF RecvSteps
  <2> QED
    BY <2>1, <2>2, Zenon
<1>8. Eq(after)
  <2> HIDE DEF after, Eq
  <2> QED BY <1>2, <1>7, Zenon
<1>9. RecvSteps(s, burst, n, after)
  <2> HIDE DEF after
  <2>1. ASSUME NEW i \in 0 .. n
        PROVE after[i] = IF i = 0 THEN s ELSE The({RecvEvent(x, burst[i]) : x \in {after[i - 1]}})
    BY <1>8, Zenon
  <2>2. 0 \in 0 .. n /\ \A i \in 1 .. n : i \in 0 .. n /\ i # 0
    OBVIOUS
  <2>3. after = [i \in 0 .. n |-> after[i]]
    BY <1>8, Zenon
  <2> QED
    BY <1>6, <2>1, <2>2, <2>3, Zenon DEF RecvSteps
<1> HIDE DEF after
<1> QED
  BY <1>1, <1>9, Zenon

(* What was read after i datagrams of the burst. *)
Readers(nas) == {d \in Datagrams : d.nas = nas}
ReadUpTo(h, burst, i) == [nas \in Nases |-> h[nas] \o Among(SubSeq(burst, 1, i), Readers(nas))]

(* Of a burst, the datagrams of an address are read in their order. *)
LEMMA ReadNext ==
  ASSUME NEW h \in [Nases -> Seq(Datagrams)], NEW burst \in Seq(Datagrams)
  PROVE  /\ ReadUpTo(h, burst, 0) = h
         /\ \A i \in 0 .. Len(burst) : ReadUpTo(h, burst, i) \in [Nases -> Seq(Datagrams)]
         /\ \A i \in 0 .. Len(burst) - 1 :
              ReadUpTo(h, burst, i + 1) = With(ReadUpTo(h, burst, i), burst[i + 1])
<1>1. ReadUpTo(h, burst, 0) = h
  <2>1. SubSeq(burst, 1, 0) = <<>>
    OBVIOUS
  <2>2. ASSUME NEW nas \in Nases PROVE h[nas] \o Among(SubSeq(burst, 1, 0), Readers(nas)) = h[nas]
    <3>1. Among(SubSeq(burst, 1, 0), Readers(nas)) = <<>>
      BY <2>1, AmongEmpty, Zenon
    <3>2. h[nas] \in Seq(Datagrams)
      OBVIOUS
    <3>3. h[nas] \o <<>> = h[nas]
      BY <3>2, ConcatEmptySeq, Zenon
    <3> QED
      BY <3>1, <3>3, Zenon
  <2>3. h = [nas \in Nases |-> h[nas]]
    OBVIOUS
  <2> QED
    BY <2>2, <2>3, Zenon DEF ReadUpTo
<1>2. ASSUME NEW i \in 0 .. Len(burst), NEW nas \in Nases
      PROVE  /\ h[nas] \in Seq(Datagrams) /\ SubSeq(burst, 1, i) \in Seq(Datagrams)
             /\ Among(SubSeq(burst, 1, i), Readers(nas)) \in Seq(Datagrams)
             /\ h[nas] \o Among(SubSeq(burst, 1, i), Readers(nas)) \in Seq(Datagrams)
  <2>1. h[nas] \in Seq(Datagrams) /\ SubSeq(burst, 1, i) \in Seq(Datagrams)
    OBVIOUS
  <2>2. Among(SubSeq(burst, 1, i), Readers(nas)) \in Seq(Datagrams)
    BY <2>1, AmongSeq, Zenon
  <2>3. h[nas] \o Among(SubSeq(burst, 1, i), Readers(nas)) \in Seq(Datagrams)
    BY <2>1, <2>2, ConcatProperties, Zenon
  <2> QED
    BY <2>1, <2>2, <2>3, Zenon
<1>3. \A i \in 0 .. Len(burst) : ReadUpTo(h, burst, i) \in [Nases -> Seq(Datagrams)]
  BY <1>2, Zenon DEF ReadUpTo
<1>4. ASSUME NEW i \in 0 .. Len(burst) - 1
      PROVE  ReadUpTo(h, burst, i + 1) = With(ReadUpTo(h, burst, i), burst[i + 1])
  <2> DEFINE d == burst[i + 1]
             t == SubSeq(burst, 1, i)
             was == ReadUpTo(h, burst, i)
  <2>1. /\ i \in 0 .. Len(burst) /\ i + 1 \in 0 .. Len(burst) /\ d \in Datagrams /\ d.nas \in Nases
        /\ t \in Seq(Datagrams) /\ SubSeq(burst, 1, i + 1) = Append(t, d)
    <3>1. i \in Nat /\ Len(burst) \in Nat /\ i \in 0 .. Len(burst) /\ i + 1 \in 1 .. Len(burst) /\ i + 1 \in 0 .. Len(burst)
      OBVIOUS
    <3>2. d \in Datagrams
      BY <3>1
    <3>3. d.nas \in Nases
      <4> HIDE DEF d
      <4> QED BY <3>2 DEF Datagrams
    <3>4. t \in Seq(Datagrams) /\ Len(t) = i /\ \A j \in 1 .. i : t[j] = burst[j]
      BY <3>1
    <3>5. SubSeq(burst, 1, i + 1) = Append(t, d)
      <4>1. /\ SubSeq(burst, 1, i + 1) \in Seq(Datagrams) /\ Len(SubSeq(burst, 1, i + 1)) = i + 1
            /\ \A j \in 1 .. i + 1 : SubSeq(burst, 1, i + 1)[j] = burst[j]
        BY <3>1
      <4> DEFINE v == SubSeq(burst, 1, i + 1)
      <4>2. Append(t, d) \in Seq(Datagrams) /\ Len(Append(t, d)) = i + 1 /\ Append(t, d)[i + 1] = d
            /\ \A j \in 1 .. i : Append(t, d)[j] = burst[j]
        <5> HIDE DEF t, d
        <5> QED BY <3>1, <3>2, <3>4
      <4>3. \A j \in 1 .. i + 1 : v[j] = Append(t, d)[j]
        <5>1. \A j \in 1 .. i + 1 : j \in 1 .. i \/ j = i + 1
          BY <3>1
        <5> QED
          BY <4>1, <4>2, <5>1, Zenon
      <4> HIDE DEF t, d, v
      <4> QED
        BY <3>1, <4>1, <4>2, <4>3, SeqEqual, Zenon DEF v
    <3> HIDE DEF t, d
    <3> QED
      BY <3>1, <3>2, <3>3, <3>4, <3>5, Zenon
  <2> HIDE DEF d, t
  <2>2. \A nas \in Nases : was[nas] = h[nas] \o Among(t, Readers(nas))
    BY Zenon DEF ReadUpTo, t
  <2>3. was \in [Nases -> Seq(Datagrams)]
    BY <1>3, <2>1, Zenon
  <2>4. With(was, d) = [nas \in Nases |-> IF nas = d.nas THEN Append(was[nas], d) ELSE was[nas]]
    <3> HIDE DEF was
    <3> QED BY <2>1, <2>3, Zenon DEF With
  <2>5. ASSUME NEW nas \in Nases
        PROVE  h[nas] \o Among(SubSeq(burst, 1, i + 1), Readers(nas)) =
                 IF nas = d.nas THEN Append(was[nas], d) ELSE was[nas]
    <3>1. d \in Readers(nas) <=> nas = d.nas
      BY <2>1, Zenon DEF Readers
    <3>2. /\ d \in Readers(nas) => Among(Append(t, d), Readers(nas)) = Append(Among(t, Readers(nas)), d)
          /\ d \notin Readers(nas) => Among(Append(t, d), Readers(nas)) = Among(t, Readers(nas))
      <4> DEFINE S == Readers(nas)
      <4> HIDE DEF S
      <4>1. /\ d \in S => Among(Append(t, d), S) = Append(Among(t, S), d)
            /\ d \notin S => Among(Append(t, d), S) = Among(t, S)
        <5>1. t \in Seq(Datagrams) /\ d \in Datagrams
          BY <2>1, Zenon
        <5> QED
          BY <5>1, AmongAppend, ZenonT(30)
      <4> QED
        BY <4>1, Zenon DEF S
    <3>3. h[nas] \in Seq(Datagrams) /\ Among(t, Readers(nas)) \in Seq(Datagrams)
      BY <1>2, <2>1, Zenon DEF t
    <3>4. h[nas] \o Append(Among(t, Readers(nas)), d) = Append(h[nas] \o Among(t, Readers(nas)), d)
      <4>1. ASSUME NEW u \in Seq(Datagrams), NEW v \in Seq(Datagrams) PROVE u \o Append(v, d) = Append(u \o v, d)
        BY <2>1
      <4> QED
        BY <3>3, <4>1, Zenon
    <3>5. CASE nas = d.nas
      BY <2>1, <2>2, <3>1, <3>2, <3>4, <3>5, Zenon
    <3>6. CASE nas # d.nas
      BY <2>1, <2>2, <3>1, <3>2, <3>6, Zenon
    <3> QED
      BY <3>5, <3>6, Zenon
  <2> HIDE DEF was
  <2>6. ReadUpTo(h, burst, i + 1) = With(was, d)
    BY <2>4, <2>5, Zenon DEF ReadUpTo
  <2> QED
    BY <2>6, Zenon DEF was, d
<1> QED
  BY <1>1, <1>3, <1>4, Zenon

(* A burst keeps the clients and the answers in step with what was read. *)
LEMMA RecvBurst ==
  ASSUME NEW h \in [Nases -> Seq(Datagrams)], NEW burst \in Seq(Datagrams), NEW s, Answering(s, h)
  PROVE  Answering(RecvEach(s, burst), ReadUpTo(h, burst, Len(burst)))
<1>1. Len(burst) \in Nat /\ \A i \in 1 .. Len(burst) : burst[i] \in Datagrams
  OBVIOUS
<1>2. PICK f : RecvSteps(s, burst, Len(burst), f) /\ RecvEach(s, burst) = f[Len(burst)]
  BY <1>1, RecvLoop, Zenon
<1>3. /\ ReadUpTo(h, burst, 0) = h
      /\ \A i \in 0 .. Len(burst) : ReadUpTo(h, burst, i) \in [Nases -> Seq(Datagrams)]
      /\ \A i \in 0 .. Len(burst) - 1 :
           ReadUpTo(h, burst, i + 1) = With(ReadUpTo(h, burst, i), burst[i + 1])
  BY ReadNext, Zenon
<1> DEFINE T == {i \in 0 .. Len(burst) : Answering(f[i], ReadUpTo(h, burst, i))}
<1>4. 0 \in T
  <2>1. 0 \in 0 .. Len(burst)
    BY <1>1
  <2> QED
    BY <1>2, <1>3, <2>1, Zenon DEF RecvSteps
<1>5. ASSUME NEW i \in 0 .. Len(burst) - 1, i \in T PROVE i + 1 \in T
  <2>1. i + 1 \in 1 .. Len(burst) /\ i \in 0 .. Len(burst) /\ i + 1 \in 0 .. Len(burst) /\ (i + 1) - 1 = i
    BY <1>1
  <2>2. f[i + 1] = RecvEvent(f[i], burst[i + 1])
    BY <1>2, <2>1, Zenon DEF RecvSteps
  <2>3. Answering(f[i], ReadUpTo(h, burst, i)) /\ ReadUpTo(h, burst, i) \in [Nases -> Seq(Datagrams)]
    BY <1>3, <1>5, <2>1, Zenon
  <2>4. Answering(RecvEvent(f[i], burst[i + 1]), With(ReadUpTo(h, burst, i), burst[i + 1]))
    BY <1>1, <2>1, <2>3, RecvOne, Zenon
  <2>5. Answering(f[i + 1], ReadUpTo(h, burst, i + 1))
    BY <1>3, <2>2, <2>4, Zenon
  <2> QED
    BY <2>1, <2>5, Zenon
<1>6. \A i \in 0 .. Len(burst) : i \in T
  <2> HIDE DEF T
  <2> QED BY <1>1, <1>4, <1>5, UpTo, Zenon
<1>7. Len(burst) \in 0 .. Len(burst)
  BY <1>1
<1> QED
  BY <1>2, <1>6, <1>7, Zenon

(* The inductive invariant of the RADIUS server. *)
RadiusInv ==
  /\ socket \in Seq(Datagrams) /\ read \in [Nases -> Seq(Datagrams)] /\ made \in Nat
  /\ Answering([ids |-> identifier, sent |-> replies], read)

(* It holds before the first datagram. *)
LEMMA RadiusStart == RadiusInit => RadiusInv
<1> SUFFICES ASSUME RadiusInit PROVE RadiusInv
  OBVIOUS
<1> DEFINE s == [ids |-> identifier, sent |-> replies]
<1>1. socket \in Seq(Datagrams) /\ read \in [Nases -> Seq(Datagrams)] /\ made \in Nat
  BY DEF RadiusInit
<1>2. DOMAIN s.ids = {} /\ s.sent \in [Nases -> Seq(Reply)] /\ \A nas \in Nases : s.sent[nas] = <<>> /\ read[nas] = <<>>
  BY DEF RadiusInit
<1>3. ASSUME NEW nas \in Nases PROVE Good(read, nas) = <<>>
  BY <1>2, AmongEmpty, Zenon DEF Good
<1>4. Firsts(<<>>) = {} /\ Len(<<>>) = 0
  BY DEF Firsts
<1>5. Cardinality({}) = 0
  BY FS_EmptySet, Zenon
<1>6. Fits(<<>>, <<>>)
  BY <1>4, <1>5, Zenon DEF Fits
<1> HIDE DEF s
<1>7. Answering(s, read)
  BY <1>2, <1>3, <1>6, Zenon DEF Answering, KnowsLast
<1> QED
  BY <1>1, <1>7, Zenon DEF RadiusInv, s

(* Every step keeps it. *)
LEMMA RadiusStep == RadiusInv /\ [RadiusNext]_radiusVars => RadiusInv'
<1> SUFFICES ASSUME RadiusInv, [RadiusNext]_radiusVars PROVE RadiusInv'
  OBVIOUS
<1>0. /\ socket \in Seq(Datagrams) /\ read \in [Nases -> Seq(Datagrams)] /\ made \in Nat
      /\ Answering([ids |-> identifier, sent |-> replies], read)
  BY DEF RadiusInv
<1>1. ASSUME NEW nas \in Nases, NEW id \in Identifiers, NEW kind \in RadiusKinds, NEW caller \in Callers,
             NasAsks(nas, id, kind, caller)
      PROVE  RadiusInv'
  <2> DEFINE d == [nas |-> nas, id |-> id, auth |-> made, kind |-> kind, caller |-> caller]
  <2>1. d \in Datagrams
    BY <1>0 DEF Datagrams
  <2>2. socket' = Append(socket, d) /\ made' = made + 1 /\ UNCHANGED <<identifier, replies, read>>
    BY <1>1, Zenon DEF NasAsks
  <2> HIDE DEF d
  <2>3. socket' \in Seq(Datagrams) /\ made' \in Nat
    BY <1>0, <2>1, <2>2
  <2>4. read' = read /\ identifier' = identifier /\ replies' = replies
    BY <2>2, Zenon
  <2> QED
    BY <1>0, <2>3, <2>4, Zenon DEF RadiusInv, Answering, KnowsLast, Good
<1>2. ASSUME Repeats PROVE RadiusInv'
  <2>1. PICK past \in {socket} \cup {read[nas] : nas \in Nases} : \E i \in 1 .. Len(past) : socket' = Append(socket, past[i])
    BY <1>2, Zenon DEF Repeats
  <2>2. past \in Seq(Datagrams)
    BY <1>0, <2>1
  <2>3. socket' \in Seq(Datagrams)
    <3>1. PICK i \in 1 .. Len(past) : socket' = Append(socket, past[i])
      BY <2>1, Zenon
    <3>2. past[i] \in Datagrams
      BY <2>2
    <3> QED
      BY <1>0, <3>1, <3>2
  <2>4. read' = read /\ identifier' = identifier /\ replies' = replies /\ made' = made
    BY <1>2, Zenon DEF Repeats
  <2> QED
    BY <1>0, <2>3, <2>4, Zenon DEF RadiusInv, Answering, KnowsLast, Good
<1>3. ASSUME RadiusOnRecv PROVE RadiusInv'
  <2> DEFINE some == IF Len(socket) < VLEN THEN Len(socket) ELSE VLEN
             burst == SubSeq(socket, 1, some)
             s == [ids |-> identifier, sent |-> replies]
             after == RecvEach(s, burst)
  <2>1. /\ identifier' = after.ids /\ replies' = after.sent /\ made' = made
        /\ read' = [nas \in Nases |-> read[nas] \o Among(burst, {d \in Datagrams : d.nas = nas})]
        /\ socket' = SubSeq(socket, some + 1, Len(socket))
    BY <1>3, Zenon DEF RadiusOnRecv
  <2>2. some \in 0 .. Len(socket) /\ Len(socket) \in Nat
    BY <1>0, RadiusAssumption
  <2> HIDE DEF some
  <2>3. burst \in Seq(Datagrams) /\ socket' \in Seq(Datagrams)
    BY <1>0, <2>1, <2>2
  <2>4. SubSeq(burst, 1, Len(burst)) = burst
    BY <2>3
  <2> HIDE DEF burst, s, after
  <2>5. read' = ReadUpTo(read, burst, Len(burst))
    BY <2>1, <2>4, Zenon DEF ReadUpTo, Readers
  <2>6. Answering(after, read')
    BY <1>0, <2>3, <2>5, RecvBurst, Zenon DEF after, s
  <2>7. read' \in [Nases -> Seq(Datagrams)]
    <3>1. Len(burst) \in 0 .. Len(burst)
      BY <2>3
    <3> QED
      BY <1>0, <2>3, <2>5, <3>1, ReadNext, Zenon
  <2>8. [ids |-> identifier', sent |-> replies'].ids = after.ids /\ [ids |-> identifier', sent |-> replies'].sent = after.sent
    BY <2>1
  <2>9. Answering([ids |-> identifier', sent |-> replies'], read')
    BY <2>6, <2>8, Zenon DEF Answering
  <2> QED
    BY <1>0, <2>1, <2>3, <2>7, <2>9, Zenon DEF RadiusInv, Answering, KnowsLast, Good
<1>4. ASSUME \/ \E ev \in RadiusRows : ContractChanges(ev)
             \/ RadiusBinLog
             \/ UNCHANGED radiusVars
      PROVE  RadiusInv'
  <2>1. socket' = socket /\ read' = read /\ identifier' = identifier /\ replies' = replies /\ made' = made
    BY <1>4, Zenon DEF ContractChanges, RadiusBinLog, radiusVars
  <2> QED
    BY <1>0, <2>1, Zenon DEF RadiusInv, Answering, KnowsLast, Good
<1> QED
  BY <1>1, <1>2, <1>3, <1>4, Zenon DEF RadiusNext

(* RecvEvent and Client: the answers the RADIUS server sends to an address *)
(* are those to its well-formed datagrams, in their order and with their   *)
(* identifiers and authenticators, for any number of addresses, datagrams, *)
(* repetitions and contracts, and any size of a burst.                     *)
THEOREM RadiusRepliesFit == RadiusSpec => []RepliesFit
<1>1. RadiusInv => RepliesFit
  <2> SUFFICES ASSUME RadiusInv, NEW nas \in Nases PROVE Fits(Good(read, nas), replies[nas])
    BY Zenon DEF RepliesFit, Fits, Firsts, Rank, Good
  <2>1. [ids |-> identifier, sent |-> replies].sent = replies
    OBVIOUS
  <2> QED
    BY <2>1, Zenon DEF RadiusInv, Answering
<1> QED
  BY <1>1, RadiusStart, RadiusStep, PTL DEF RadiusSpec
=============================================================================
