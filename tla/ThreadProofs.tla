---------------------------- MODULE ThreadProofs ----------------------------
(***************************************************************************)
(* The proofs about the threads that work on one shared thing: those of    *)
(* the Diameter server on its queues, those of the data plane on its       *)
(* status word, and the session handlers on the tunnel table.              *)
(***************************************************************************)
EXTENDS Diameter, AppStatus, TunnelSession, TLAPS

(* Most steps need no arithmetic: Zenon is tried first, and SMT where it   *)
(* fails.                                                                  *)
USE Zenon, SMT

(***************************************************************************)
(* That a request to the Diameter server meets one end, for any number of  *)
(* connections, queues and requests and any size of the batches.           *)
(*                                                                         *)
(* A request is followed by its number: through the inbox of its           *)
(* connection, a queue and the batch of the queue's thread, to its         *)
(* outcome.  It is at one position of these at most, and as long as it is  *)
(* at one it has no outcome.                                               *)
(***************************************************************************)

(* Where a request may wait, and what waits there. *)
Waits == ({"inbox"} \X Fds) \cup ({"fifo", "batch"} \X DiaQueues)
Line ==
  [w \in Waits |-> IF w[1] = "inbox" THEN inbox[w[2]]
                   ELSE IF w[1] = "fifo" THEN fifo[w[2]] ELSE batch[w[2]]]

Asked == [n : 1 .. MaxRequests, kind : DiaKinds, imsi : DiaSubscribers]
Copies ==
  [n : 1 .. MaxRequests, kind : DiaKinds \ {"invalid"}, imsi : DiaSubscribers, fd : Fds, conn : Nat]
Ends == {"answered", "stored", "refused", "shut", "unread"}
Lines == [Waits -> Seq(Asked \cup Copies)]

(* No request is at two positions. *)
Apart(s) ==
  \A v, w \in Waits : \A i \in 1 .. Len(s[v]), j \in 1 .. Len(s[w]) :
    s[v][i].n = s[w][j].n => v = w /\ i = j

(* No request that waits is one of d. *)
Clear(s, d) == \A w \in Waits : \A i \in 1 .. Len(s[w]) : s[w][i].n \notin d

(* The requests that have met their end, and the numbers not yet given. *)
Done == {n \in 1 .. MaxRequests : outcome[n] # <<>>}
Unused == {n \in 1 .. MaxRequests : n > requested}

ServerTypes ==
  /\ client \in [Fds -> [conn : Nat, counter : Nat, shut : BOOLEAN, left : BOOLEAN]]
  /\ inbox \in [Fds -> Seq(Asked)]
  /\ fifo \in [DiaQueues -> Seq(Copies)]
  /\ batch \in [DiaQueues -> Seq(Copies)]
  /\ outcome \in [1 .. MaxRequests -> Seq(Ends)]
  /\ requested \in 0 .. MaxRequests
  /\ connected \in Nat

(* The inductive invariant: EndsOnce, and that what waits is not done, nor *)
(* is a number that was not given.                                         *)
EndsInv ==
  /\ ServerTypes
  /\ Apart(Line)
  /\ Clear(Line, Done)
  /\ Clear(Line, Unused)
  /\ Done \cap Unused = {}
  /\ EndsOnce

-----------------------------------------------------------------------------
(* A place is a name and an index. *)
LEMMA WaitsAreNamed ==
  ASSUME NEW w \in Waits
  PROVE  /\ w = <<w[1], w[2]>>
         /\ \/ w[1] = "inbox" /\ w[2] \in Fds
            \/ w[1] \in {"fifo", "batch"} /\ w[2] \in DiaQueues
BY DEF Waits

(* What waits, place by place, before and after a step. *)
LEMMA LineAt ==
  /\ \A fd \in Fds : /\ <<"inbox", fd>> \in Waits
                     /\ Line[<<"inbox", fd>>] = inbox[fd] /\ Line'[<<"inbox", fd>>] = inbox'[fd]
  /\ \A q \in DiaQueues : /\ <<"fifo", q>> \in Waits /\ <<"batch", q>> \in Waits
                          /\ Line[<<"fifo", q>>] = fifo[q] /\ Line'[<<"fifo", q>>] = fifo'[q]
                          /\ Line[<<"batch", q>>] = batch[q] /\ Line'[<<"batch", q>>] = batch'[q]
BY DEF Line, Waits

(* The lines are sequences of requests. *)
LEMMA LineType == (ServerTypes => Line \in Lines) /\ (ServerTypes' => Line' \in Lines)
<1>1. ServerTypes => \A w \in Waits : Line[w] \in Seq(Asked \cup Copies)
  BY WaitsAreNamed, SMT DEF Line, ServerTypes
<1>2. ServerTypes' => \A w \in Waits : Line'[w] \in Seq(Asked \cup Copies)
  BY WaitsAreNamed, SMT DEF Line, ServerTypes
<1> QED
  BY <1>1, <1>2 DEF Line, Lines

(* What is left of a sequence is its positions from the second on. *)
LEMMA TailFacts ==
  ASSUME NEW S, NEW q \in Seq(S), q # <<>>
  PROVE  /\ Tail(q) \in Seq(S)
         /\ 1 \in 1 .. Len(q) /\ Head(q) = q[1] /\ Head(q) \in S
         /\ \A i \in 1 .. Len(Tail(q)) : i + 1 \in 1 .. Len(q) /\ Tail(q)[i] = q[i + 1]
OBVIOUS

(* A request joins a line: one that waits nowhere. *)
LEMMA Joins ==
  ASSUME NEW s \in Lines, NEW v \in Waits, NEW r \in Asked \cup Copies, Apart(s), Clear(s, {r.n}),
         NEW t \in Lines, t[v] = Append(s[v], r),
         \A w \in Waits : w # v => t[w] = s[w]
  PROVE  /\ Apart(t)
         /\ \A d : Clear(s, d) /\ r.n \notin d => Clear(t, d)
<1>1. s[v] \in Seq(Asked \cup Copies)
  BY DEF Lines
<1>2. /\ Append(s[v], r) \in Seq(Asked \cup Copies)
      /\ \A i \in 1 .. Len(Append(s[v], r)) :
           \/ i \in 1 .. Len(s[v]) /\ Append(s[v], r)[i] = s[v][i]
           \/ i = Len(s[v]) + 1 /\ Append(s[v], r)[i] = r
  BY <1>1
<1>4. \A w \in Waits : \A i \in 1 .. Len(t[w]) :
        \/ i \in 1 .. Len(s[w]) /\ t[w][i] = s[w][i]
        \/ w = v /\ i = Len(s[v]) + 1 /\ t[w][i] = r
  BY <1>2
<1>5. \A w \in Waits : \A i \in 1 .. Len(s[w]) : s[w][i].n # r.n
  BY DEF Clear
<1>6. Apart(t)
  <2>1. SUFFICES ASSUME NEW a \in Waits, NEW b \in Waits,
                        NEW i \in 1 .. Len(t[a]), NEW j \in 1 .. Len(t[b]), t[a][i].n = t[b][j].n
                 PROVE  a = b /\ i = j
    BY DEF Apart
  <2>2. \/ i \in 1 .. Len(s[a]) /\ t[a][i] = s[a][i]
        \/ a = v /\ i = Len(s[v]) + 1 /\ t[a][i] = r
    BY <1>4, Zenon
  <2>3. \/ j \in 1 .. Len(s[b]) /\ t[b][j] = s[b][j]
        \/ b = v /\ j = Len(s[v]) + 1 /\ t[b][j] = r
    BY <1>4, Zenon
  <2>4. CASE i \in 1 .. Len(s[a]) /\ t[a][i] = s[a][i] /\ j \in 1 .. Len(s[b]) /\ t[b][j] = s[b][j]
    <3>1. s[a][i].n = s[b][j].n
      BY <2>1, <2>4
    <3> QED
      BY <2>4, <3>1, SMT DEF Apart
  <2>5. CASE i \in 1 .. Len(s[a]) /\ t[a][i] = s[a][i] /\ t[b][j] = r
    BY <1>5, <2>1, <2>5, Zenon
  <2>6. CASE j \in 1 .. Len(s[b]) /\ t[b][j] = s[b][j] /\ t[a][i] = r
    BY <1>5, <2>1, <2>6, Zenon
  <2> QED
    BY <2>2, <2>3, <2>4, <2>5, <2>6, Zenon
<1>7. \A d : Clear(s, d) /\ r.n \notin d => Clear(t, d)
  BY <1>4 DEF Clear
<1> QED
  BY <1>6, <1>7

(* The first request of a line leaves it, and waits nowhere then. *)
LEMMA Leaving ==
  ASSUME NEW s \in Lines, NEW v \in Waits, s[v] # <<>>, Apart(s),
         NEW t \in Lines, t[v] = Tail(s[v]),
         \A w \in Waits : w # v => t[w] = s[w]
  PROVE  /\ Apart(t)
         /\ Head(s[v]) \in Asked \cup Copies
         /\ Clear(t, {Head(s[v]).n})
         /\ \A d : Clear(s, d) => Clear(t, d) /\ Head(s[v]).n \notin d
<1>1. s[v] \in Seq(Asked \cup Copies)
  BY DEF Lines
<1>2. /\ Tail(s[v]) \in Seq(Asked \cup Copies)
      /\ 1 \in 1 .. Len(s[v]) /\ Head(s[v]) = s[v][1] /\ Head(s[v]) \in Asked \cup Copies
      /\ \A i \in 1 .. Len(Tail(s[v])) : i + 1 \in 1 .. Len(s[v]) /\ Tail(s[v])[i] = s[v][i + 1]
  BY <1>1, TailFacts
<1>4. \A w \in Waits : \A i \in 1 .. Len(t[w]) :
        \/ w = v /\ i + 1 \in 1 .. Len(s[w]) /\ t[w][i] = s[w][i + 1]
        \/ w # v /\ i \in 1 .. Len(s[w]) /\ t[w][i] = s[w][i]
  BY <1>2, Zenon
<1>5. Apart(t)
  <2>1. SUFFICES ASSUME NEW a \in Waits, NEW b \in Waits,
                        NEW i \in 1 .. Len(t[a]), NEW j \in 1 .. Len(t[b]), t[a][i].n = t[b][j].n
                 PROVE  a = b /\ i = j
    BY DEF Apart
  <2>2. CASE a = v /\ b = v
    <3>1. /\ i + 1 \in 1 .. Len(s[v]) /\ j + 1 \in 1 .. Len(s[v])
          /\ s[v][i + 1].n = s[v][j + 1].n
      BY <1>4, <2>1, <2>2
    <3> QED
      BY <2>2, <3>1, SMT DEF Apart
  <2>3. CASE a = v /\ b # v
    <3>1. i + 1 \in 1 .. Len(s[a]) /\ j \in 1 .. Len(s[b]) /\ s[a][i + 1].n = s[b][j].n
      BY <1>4, <2>1, <2>3, Zenon
    <3> QED
      BY <2>3, <3>1 DEF Apart
  <2>4. CASE a # v /\ b = v
    <3>1. i \in 1 .. Len(s[a]) /\ j + 1 \in 1 .. Len(s[b]) /\ s[a][i].n = s[b][j + 1].n
      BY <1>4, <2>1, <2>4, Zenon
    <3> QED
      BY <2>4, <3>1 DEF Apart
  <2>5. CASE a # v /\ b # v
    <3>1. i \in 1 .. Len(s[a]) /\ j \in 1 .. Len(s[b]) /\ s[a][i].n = s[b][j].n
      BY <1>4, <2>1, <2>5
    <3> QED
      BY <3>1, SMT DEF Apart
  <2> QED
    BY <2>2, <2>3, <2>4, <2>5
<1>6. Clear(t, {Head(s[v]).n})
  <2>1. SUFFICES ASSUME NEW w \in Waits, NEW i \in 1 .. Len(t[w]), t[w][i].n = s[v][1].n
                 PROVE  FALSE
    BY <1>2 DEF Clear
  <2>2. CASE w = v
    BY <1>2, <1>4, <2>1, <2>2, SMT DEF Apart
  <2>3. CASE w # v
    BY <1>2, <1>4, <2>1, <2>3, SMT DEF Apart
  <2> QED
    BY <2>2, <2>3
<1>7. \A d : Clear(s, d) => Clear(t, d) /\ Head(s[v]).n \notin d
  BY <1>2, <1>4, Zenon DEF Clear
<1> QED
  BY <1>2, <1>5, <1>6, <1>7

(* The first request of a line leaves it and a copy joins another one. *)
LEMMA Moving ==
  ASSUME NEW s \in Lines, NEW v \in Waits, NEW u \in Waits, u # v, s[v] # <<>>, Apart(s),
         NEW r \in Asked \cup Copies, r.n = Head(s[v]).n,
         NEW t \in Lines, t[v] = Tail(s[v]), t[u] = Append(s[u], r),
         \A w \in Waits : w # u /\ w # v => t[w] = s[w]
  PROVE  /\ Apart(t)
         /\ \A d : Clear(s, d) => Clear(t, d)
<1> DEFINE m == [s EXCEPT ![v] = Tail(s[v])]
<1>1. m \in Lines /\ m[v] = Tail(s[v]) /\ \A w \in Waits : w # v => m[w] = s[w]
  BY TailFacts DEF Lines
<1> HIDE DEF m
<1>2. Apart(m) /\ Clear(m, {r.n}) /\ \A d : Clear(s, d) => Clear(m, d) /\ r.n \notin d
  <2>1. /\ Apart(m) /\ Clear(m, {Head(s[v]).n})
        /\ \A d : Clear(s, d) => Clear(m, d) /\ Head(s[v]).n \notin d
    BY <1>1, Leaving, Zenon
  <2> QED
    BY <2>1
<1>3. t[u] = Append(m[u], r) /\ \A w \in Waits : w # u => t[w] = m[w]
  BY <1>1
<1>4. Apart(t) /\ \A d : Clear(m, d) /\ r.n \notin d => Clear(t, d)
  BY <1>1, <1>2, <1>3, Joins
<1> QED
  BY <1>2, <1>4

(* A line is given up, and its requests wait nowhere then. *)
LEMMA GivenUp ==
  ASSUME NEW s \in Lines, NEW v \in Waits, Apart(s),
         NEW t \in Lines, t[v] = <<>>,
         \A w \in Waits : w # v => t[w] = s[w]
  PROVE  /\ Apart(t)
         /\ Clear(t, {s[v][i].n : i \in 1 .. Len(s[v])})
         /\ \A d : Clear(s, d) => Clear(t, d)
<1>2. \A w \in Waits : \A i \in 1 .. Len(t[w]) :
        w # v /\ i \in 1 .. Len(s[w]) /\ t[w][i] = s[w][i]
  OBVIOUS
<1>3. \A w \in Waits : \A i \in 1 .. Len(t[w]) : t[w][i].n = s[w][i].n
  BY <1>2
<1>4. Apart(t)
  BY <1>2, <1>3, SMT DEF Apart
<1>5. Clear(t, {s[v][i].n : i \in 1 .. Len(s[v])})
  BY <1>2, <1>3, SMT DEF Apart, Clear
<1>6. \A d : Clear(s, d) => Clear(t, d)
  BY <1>2, <1>3 DEF Clear
<1> QED
  BY <1>4, <1>5, <1>6

(* The first k requests of a line become the whole of an empty one. *)
LEMMA BatchTaken ==
  ASSUME NEW s \in Lines, NEW v \in Waits, NEW u \in Waits, u # v, s[u] = <<>>, Apart(s),
         NEW k \in 0 .. Len(s[v]),
         NEW t \in Lines, t[u] = SubSeq(s[v], 1, k), t[v] = SubSeq(s[v], k + 1, Len(s[v])),
         \A w \in Waits : w # u /\ w # v => t[w] = s[w]
  PROVE  /\ Apart(t)
         /\ \A d : Clear(s, d) => Clear(t, d)
<1>1. s[v] \in Seq(Asked \cup Copies)
  BY DEF Lines
<1>2. /\ SubSeq(s[v], 1, k) \in Seq(Asked \cup Copies) /\ Len(SubSeq(s[v], 1, k)) = k
      /\ \A i \in 1 .. k : SubSeq(s[v], 1, k)[i] = s[v][i]
  BY <1>1
<1>3. /\ SubSeq(s[v], k + 1, Len(s[v])) \in Seq(Asked \cup Copies)
      /\ Len(SubSeq(s[v], k + 1, Len(s[v]))) = Len(s[v]) - k
      /\ \A i \in 1 .. Len(s[v]) - k : SubSeq(s[v], k + 1, Len(s[v]))[i] = s[v][i + k]
  BY <1>1
<1>5. \A i \in 1 .. Len(t[u]) : i \in 1 .. Len(s[v]) /\ t[u][i] = s[v][i] /\ i <= k
  BY <1>1, <1>2
<1>6. \A i \in 1 .. Len(t[v]) : i + k \in 1 .. Len(s[v]) /\ t[v][i] = s[v][i + k] /\ i + k > k
  BY <1>1, <1>3
<1>7. \A w \in Waits : w # u /\ w # v =>
        \A i \in 1 .. Len(t[w]) : i \in 1 .. Len(s[w]) /\ t[w][i] = s[w][i]
  OBVIOUS
<1> DEFINE Place(w) == IF w = u THEN v ELSE w
           Pos(w, i) == IF w = v THEN i + k ELSE i
<1>8. ASSUME NEW w \in Waits, NEW i \in 1 .. Len(t[w])
      PROVE  /\ Place(w) \in Waits /\ Pos(w, i) \in 1 .. Len(s[Place(w)])
             /\ t[w][i].n = s[Place(w)][Pos(w, i)].n
             /\ w = u => Pos(w, i) <= k
             /\ w = v => Pos(w, i) > k
  BY <1>5, <1>6, <1>7, Zenon
<1>9. Apart(t)
  <2>1. SUFFICES ASSUME NEW a \in Waits, NEW b \in Waits,
                        NEW i \in 1 .. Len(t[a]), NEW j \in 1 .. Len(t[b]), t[a][i].n = t[b][j].n
                 PROVE  a = b /\ i = j
    BY DEF Apart
  <2>2. s[Place(a)][Pos(a, i)].n = s[Place(b)][Pos(b, j)].n
    BY <1>8, <2>1, Zenon
  <2> HIDE DEF Place, Pos
  <2>3. Place(a) = Place(b) /\ Pos(a, i) = Pos(b, j)
    <3> DEFINE pa == Place(a)
               pb == Place(b)
               ia == Pos(a, i)
               jb == Pos(b, j)
    <3>1. pa \in Waits /\ ia \in 1 .. Len(s[pa])
      BY <1>8
    <3>2. pb \in Waits /\ jb \in 1 .. Len(s[pb])
      BY <1>8
    <3>3. s[pa][ia].n = s[pb][jb].n
      BY <2>2
    <3> HIDE DEF pa, pb, ia, jb
    <3>4. pa = pb /\ ia = jb
      BY <3>1, <3>2, <3>3, SMT DEF Apart
    <3> QED
      BY <3>4 DEF pa, pb, ia, jb
  <2>4. ~(a = u /\ b = v) /\ ~(a = v /\ b = u)
    BY <1>8, <2>3, SMT DEF Pos
  <2> QED
    BY <2>3, <2>4 DEF Place, Pos
<1> HIDE DEF Place, Pos
<1>10. ASSUME NEW d, Clear(s, d), NEW w \in Waits, NEW i \in 1 .. Len(t[w])
       PROVE  t[w][i].n \notin d
  BY <1>8, <1>10, Zenon DEF Clear
<1> QED
  BY <1>9, <1>10 DEF Clear

-----------------------------------------------------------------------------
(* Requests that waited nowhere any more get their first outcome. *)
LEMMA FirstEnd ==
  ASSUME EndsInv, NEW D \in SUBSET (1 .. MaxRequests), D \cap Done = {}, D \cap Unused = {},
         outcome' \in [1 .. MaxRequests -> Seq(Ends)],
         \A n \in 1 .. MaxRequests \ D : outcome'[n] = outcome[n],
         \A n \in D : Len(outcome'[n]) <= 1,
         requested' = requested,
         Clear(Line', D), Clear(Line', Done), Clear(Line', Unused)
  PROVE  Clear(Line', Done') /\ Clear(Line', Unused') /\ Done' \cap Unused' = {} /\ EndsOnce'
<1>1. Unused' = Unused
  BY DEF Unused
<1>2. Done' \subseteq Done \cup D
  BY DEF Done
<1>3. Clear(Line', Done')
  BY <1>2 DEF Clear
<1>4. Done' \cap Unused' = {}
  BY <1>1, <1>2 DEF EndsInv
<1>5. EndsOnce'
  BY DEF EndsInv, EndsOnce, ServerTypes
<1> QED
  BY <1>1, <1>3, <1>4, <1>5

-----------------------------------------------------------------------------
(* Nothing waits and nothing is done in the beginning. *)
LEMMA EndsInit == DiaInit => EndsInv
<1> SUFFICES ASSUME DiaInit PROVE EndsInv
  OBVIOUS
<1>1. ServerTypes
  BY DiaAssumption DEF DiaInit, ServerTypes, NoClient
<1>2. \A w \in Waits : Line[w] = <<>>
  BY WaitsAreNamed DEF DiaInit, Line
<1>3. Apart(Line) /\ Clear(Line, Done) /\ Clear(Line, Unused)
  BY <1>2 DEF Apart, Clear
<1>4. Done = {}
  BY DEF DiaInit, Done
<1>5. EndsOnce
  BY DEF DiaInit, EndsOnce
<1> QED
  BY <1>1, <1>3, <1>4, <1>5 DEF EndsInv

(* Steps that move no request: accepting, the end of a peer, the binlog. *)
LEMMA OtherEnds ==
  ASSUME EndsInv, UNCHANGED <<inbox, fifo, batch, outcome, requested>>, ServerTypes'
  PROVE  EndsInv'
<1>1. Line' = Line /\ Done' = Done /\ Unused' = Unused
  BY DEF Line, Done, Unused
<1>2. EndsOnce'
  BY DEF EndsInv, EndsOnce
<1> QED
  BY <1>1, <1>2 DEF EndsInv

(* DiaAsks: the request gets a number that was not used. *)
LEMMA AskEnds ==
  ASSUME EndsInv, NEW fd \in Fds, NEW kind \in DiaKinds, NEW imsi \in DiaSubscribers,
         DiaAsks(fd, kind, imsi)
  PROVE  EndsInv'
<1> DEFINE r == [n |-> requested + 1, kind |-> kind, imsi |-> imsi]
           v == <<"inbox", fd>>
<1>1. requested + 1 \in Unused /\ r \in Asked /\ requested' \in 0 .. MaxRequests
  BY DiaAssumption, SMT DEF EndsInv, ServerTypes, DiaAsks, Unused, Asked
<1>2. inbox[fd] \in Seq(Asked) /\ Append(inbox[fd], r) \in Seq(Asked)
  BY <1>1, SMT DEF EndsInv, ServerTypes
<1>3. ServerTypes'
  BY <1>1, <1>2 DEF EndsInv, ServerTypes, DiaAsks, queued
<1>4. Line'[v] = Append(Line[v], r) /\ \A w \in Waits : w # v => Line'[w] = Line[w]
  <2>1. Line'[v] = Append(Line[v], r)
    BY LineAt, Zenon DEF DiaAsks, EndsInv, ServerTypes
  <2>2. ASSUME NEW w \in Waits, w # v
        PROVE  Line'[w] = Line[w]
    BY <2>2, WaitsAreNamed DEF Line, DiaAsks, queued, EndsInv, ServerTypes
  <2> QED
    BY <2>1, <2>2
<1>5. Clear(Line, {r.n}) /\ r.n \notin Done
  BY <1>1 DEF EndsInv, Clear
<1>6. Line \in Lines /\ Line' \in Lines /\ v \in Waits
  BY <1>3, LineType, LineAt DEF EndsInv
<1> HIDE DEF r, v
<1>7. Apart(Line') /\ \A d : Clear(Line, d) /\ r.n \notin d => Clear(Line', d)
  BY <1>1, <1>4, <1>5, <1>6, Joins DEF EndsInv
<1>8. Done' = Done /\ Unused' \subseteq Unused /\ r.n \notin Unused'
  BY <1>3, SMT DEF DiaAsks, Done, Unused, EndsInv, ServerTypes, r
<1>9. Clear(Line, Unused')
  BY <1>8 DEF EndsInv, Clear
<1>10. Clear(Line', Done') /\ Clear(Line', Unused')
  BY <1>5, <1>7, <1>8, <1>9 DEF EndsInv
<1>11. EndsOnce' /\ Done' \cap Unused' = {}
  BY <1>8 DEF DiaAsks, EndsInv, EndsOnce
<1> QED
  BY <1>3, <1>7, <1>10, <1>11 DEF EndsInv

(* What waits at every other place is what waited there, when a step       *)
(* changes the inbox of fd only, or the queue or the batch of q.           *)
LEMMA OtherLines ==
  ASSUME NEW A \in SUBSET Waits,
         \A fd \in Fds : <<"inbox", fd>> \notin A => inbox'[fd] = inbox[fd],
         \A q \in DiaQueues : /\ <<"fifo", q>> \notin A => fifo'[q] = fifo[q]
                              /\ <<"batch", q>> \notin A => batch'[q] = batch[q]
  PROVE  \A w \in Waits : w \notin A => Line'[w] = Line[w]
<1> SUFFICES ASSUME NEW w \in Waits, w \notin A PROVE Line'[w] = Line[w]
  OBVIOUS
<1>1. CASE w[1] = "inbox" /\ w[2] \in Fds
  BY <1>1, WaitsAreNamed, LineAt, SMT
<1>2. CASE w[1] = "fifo" /\ w[2] \in DiaQueues
  <2>1. w = <<"fifo", w[2]>>
    BY <1>2, WaitsAreNamed
  <2>2. fifo'[w[2]] = fifo[w[2]]
    BY <1>2, <2>1, Zenon
  <2>3. Line[<<"fifo", w[2]>>] = fifo[w[2]] /\ Line'[<<"fifo", w[2]>>] = fifo'[w[2]]
    BY <1>2, LineAt, Zenon
  <2> QED
    BY <2>1, <2>2, <2>3
<1>3. CASE w[1] = "batch" /\ w[2] \in DiaQueues
  <2>1. w = <<"batch", w[2]>>
    BY <1>3, WaitsAreNamed
  <2>2. batch'[w[2]] = batch[w[2]]
    BY <1>3, <2>1, Zenon
  <2>3. Line[<<"batch", w[2]>>] = batch[w[2]] /\ Line'[<<"batch", w[2]>>] = batch'[w[2]]
    BY <1>3, LineAt, Zenon
  <2> QED
    BY <2>1, <2>2, <2>3
<1> QED
  BY <1>1, <1>2, <1>3, WaitsAreNamed

(* Closes: what the connection had not read ends unread. *)
LEMMA CloseEnds ==
  ASSUME EndsInv, NEW fd \in Fds, Closes(fd), UNCHANGED <<batch, requested, connected>>
  PROVE  EndsInv'
<1> DEFINE v == <<"inbox", fd>>
           D == {inbox[fd][i].n : i \in 1 .. Len(inbox[fd])}
<1>1. \A i \in 1 .. Len(inbox[fd]) : inbox[fd][i].n \in 1 .. MaxRequests
  <2>1. inbox[fd] \in Seq(Asked)
    BY DEF EndsInv, ServerTypes
  <2>2. \A i \in 1 .. Len(inbox[fd]) : inbox[fd][i] \in Asked
    BY <2>1
  <2> QED
    BY <2>2 DEF Asked
<1>2. \A n \in 1 .. MaxRequests :
        /\ outcome[n] \in Seq(Ends)
        /\ n \in D => outcome'[n] = Append(outcome[n], "unread")
        /\ n \notin D => outcome'[n] = outcome[n]
  <2>1. ASSUME NEW n \in 1 .. MaxRequests
        PROVE  n \in D <=> \E i \in 1 .. Len(inbox[fd]) : inbox[fd][i].n = n
    OBVIOUS
  <2> HIDE DEF D
  <2> QED
    BY <2>1, Zenon DEF EndsInv, ServerTypes, Closes
<1>3. outcome' \in [1 .. MaxRequests -> Seq(Ends)]
  <2>1. \A n \in 1 .. MaxRequests : Append(outcome[n], "unread") \in Seq(Ends)
    BY <1>2, SMT DEF Ends
  <2> HIDE DEF D
  <2> QED
    BY <1>2, <2>1 DEF EndsInv, ServerTypes, Closes
<1>4. ServerTypes'
  BY <1>3, SMT DEF EndsInv, ServerTypes, Closes, NoClient
<1>5. Line \in Lines /\ Line' \in Lines /\ v \in Waits /\ Line[v] = inbox[fd] /\ Line'[v] = <<>>
  BY <1>4, LineType, LineAt DEF EndsInv, ServerTypes, Closes
<1>6. \A w \in Waits : w # v => Line'[w] = Line[w]
  <2>1. {v} \in SUBSET Waits
    BY <1>5
  <2>2. \A w \in Waits : w \notin {v} => Line'[w] = Line[w]
    BY <2>1, OtherLines, Zenon DEF Closes, EndsInv, ServerTypes
  <2> QED
    BY <2>2
<1>7. D = {Line[v][i].n : i \in 1 .. Len(Line[v])}
  BY <1>5
<1> HIDE DEF v
<1>8. Apart(Line') /\ Clear(Line', D) /\ \A d : Clear(Line, d) => Clear(Line', d)
  BY <1>5, <1>6, <1>7, GivenUp, Zenon DEF EndsInv
<1>9. D \in SUBSET (1 .. MaxRequests) /\ D \cap Done = {} /\ D \cap Unused = {}
  BY <1>1, <1>5, <1>7 DEF EndsInv, Clear
<1> HIDE DEF D
<1>10. ASSUME NEW n \in D
       PROVE  Len(outcome'[n]) <= 1
  <2>1. n \in 1 .. MaxRequests /\ outcome[n] = <<>>
    BY <1>9 DEF Done
  <2>2. outcome'[n] = Append(<<>>, "unread")
    BY <1>2, <2>1
  <2> QED
    BY <2>2
<1>11. Clear(Line', Done') /\ Clear(Line', Unused') /\ Done' \cap Unused' = {} /\ EndsOnce'
  BY <1>2, <1>3, <1>8, <1>9, <1>10, FirstEnd DEF EndsInv
<1> QED
  BY <1>4, <1>8, <1>11 DEF EndsInv

(* DiaOnRecv: the connection is closed, or its first request is queued. *)
LEMMA RecvEnds ==
  ASSUME EndsInv, NEW fd \in Fds, DiaOnRecv(fd)
  PROVE  EndsInv'
<1>1. UNCHANGED <<batch, requested, connected>>
  BY DEF DiaOnRecv
<1>2. CASE inbox[fd] = <<>> \/ ~ValidateDiameter(Head(inbox[fd]))
  BY <1>1, <1>2, CloseEnds DEF DiaOnRecv
<1>3. CASE inbox[fd] # <<>> /\ ValidateDiameter(Head(inbox[fd]))
  <2> DEFINE req == Head(inbox[fd])
             cli == client[fd]
             r == Copied(req, fd, cli.conn)
             v == <<"inbox", fd>>
  <2>1. PICK q \in QueueIds(cli, req) :
          /\ fifo' = [fifo EXCEPT ![q] = Append(@, r)]
          /\ client' = [client EXCEPT ![fd].counter = IF q = QueueForDb THEN @ ELSE (@ + 1) % RoundRobin]
    BY <1>3 DEF DiaOnRecv
  <2>2. inbox' = [inbox EXCEPT ![fd] = Tail(@)] /\ UNCHANGED outcome
    BY <1>3 DEF DiaOnRecv
  <2> DEFINE u == <<"fifo", q>>
  <2>3. /\ inbox[fd] \in Seq(Asked) /\ req \in Asked /\ Tail(inbox[fd]) \in Seq(Asked)
        /\ cli \in [conn : Nat, counter : Nat, shut : BOOLEAN, left : BOOLEAN]
    BY <1>3, TailFacts DEF EndsInv, ServerTypes
  <2>4. r \in Copies /\ r.n = req.n
    BY <1>3, <2>3 DEF Copied, Copies, Asked, ValidateDiameter
  <2>5. q \in DiaQueues
    <3>1. cli.counter % RoundRobin \in 0 .. RoundRobin
      BY <2>3, DiaAssumption, SMT
    <3> QED
      BY <3>1, DiaAssumption DEF QueueIds, DiaQueues, QueueForDb
  <2>6. ServerTypes'
    <3>1. Append(fifo[q], r) \in Seq(Copies)
      BY <2>4, <2>5, SMT DEF EndsInv, ServerTypes
    <3>2. fifo' \in [DiaQueues -> Seq(Copies)] /\ inbox' \in [Fds -> Seq(Asked)]
      BY <2>1, <2>2, <2>3, <3>1, Zenon DEF EndsInv, ServerTypes
    <3>3. (IF q = QueueForDb THEN cli.counter ELSE (cli.counter + 1) % RoundRobin) \in Nat
      BY <2>3, DiaAssumption, SMT
    <3>4. client' \in [Fds -> [conn : Nat, counter : Nat, shut : BOOLEAN, left : BOOLEAN]]
      BY <2>1, <3>3, Zenon DEF EndsInv, ServerTypes
    <3> QED
      BY <1>1, <2>2, <3>2, <3>4 DEF EndsInv, ServerTypes
  <2>7. /\ Line \in Lines /\ Line' \in Lines /\ v \in Waits /\ u \in Waits /\ u # v
        /\ Line[v] = inbox[fd] /\ Line'[v] = Tail(inbox[fd])
        /\ Line[u] = fifo[q] /\ Line'[u] = Append(fifo[q], r)
    BY <2>1, <2>2, <2>5, <2>6, LineType, LineAt, Zenon DEF EndsInv, ServerTypes
  <2>8. \A w \in Waits : w # u /\ w # v => Line'[w] = Line[w]
    <3>1. {u, v} \in SUBSET Waits
      BY <2>7
    <3>2. \A w \in Waits : w \notin {u, v} => Line'[w] = Line[w]
      BY <1>1, <2>1, <2>2, <3>1, OtherLines, Zenon DEF EndsInv, ServerTypes
    <3> QED
      BY <3>2
  <2> HIDE DEF u, v, r
  <2>9. Apart(Line') /\ \A d : Clear(Line, d) => Clear(Line', d)
    BY <1>3, <2>4, <2>7, <2>8, Moving, SMT DEF EndsInv
  <2>10. Done' = Done /\ Unused' = Unused /\ EndsOnce'
    BY <1>1, <2>2, Zenon DEF Done, Unused, EndsInv, EndsOnce
  <2> QED
    BY <2>6, <2>9, <2>10 DEF EndsInv
<1> QED
  BY <1>2, <1>3

(* Dequeue: the batch was empty. *)
LEMMA DequeueEnds ==
  ASSUME EndsInv, NEW q \in DiaQueues, Dequeue(q)
  PROVE  EndsInv'
<1> DEFINE v == <<"fifo", q>>
           u == <<"batch", q>>
           k == IF Len(fifo[q]) < BatchSize THEN Len(fifo[q]) ELSE BatchSize
<1>1. fifo[q] \in Seq(Copies) /\ k \in 0 .. Len(fifo[q]) /\ (IF k < BatchSize THEN k ELSE BatchSize) = k
  BY DiaAssumption, SMT DEF EndsInv, ServerTypes
<1>2. /\ batch[q] = <<>>
      /\ batch' = [batch EXCEPT ![q] = SubSeq(fifo[q], 1, k)]
      /\ fifo' = [fifo EXCEPT ![q] = SubSeq(fifo[q], k + 1, Len(fifo[q]))]
      /\ UNCHANGED <<client, inbox, connected, requested, outcome>>
  BY <1>1, Zenon DEF Dequeue, Takes, io
<1> HIDE DEF k
<1>3. SubSeq(fifo[q], 1, k) \in Seq(Copies) /\ SubSeq(fifo[q], k + 1, Len(fifo[q])) \in Seq(Copies)
  BY <1>1
<1>4. ServerTypes'
  BY <1>2, <1>3 DEF EndsInv, ServerTypes
<1>5. /\ Line \in Lines /\ Line' \in Lines /\ v \in Waits /\ u \in Waits /\ u # v
      /\ Line[v] = fifo[q] /\ Line'[v] = SubSeq(fifo[q], k + 1, Len(fifo[q]))
      /\ Line[u] = <<>> /\ Line'[u] = SubSeq(fifo[q], 1, k)
  BY <1>2, <1>4, LineType, LineAt, Zenon DEF EndsInv, ServerTypes
<1>6. \A w \in Waits : w # u /\ w # v => Line'[w] = Line[w]
  <2>1. {u, v} \in SUBSET Waits
    BY <1>5
  <2>2. \A w \in Waits : w \notin {u, v} => Line'[w] = Line[w]
    BY <1>2, <2>1, OtherLines, Zenon DEF EndsInv, ServerTypes
  <2> QED
    BY <2>2
<1> HIDE DEF u, v
<1>7. Apart(Line') /\ \A d : Clear(Line, d) => Clear(Line', d)
  <2>1. /\ k \in 0 .. Len(Line[v]) /\ Line'[u] = SubSeq(Line[v], 1, k)
        /\ Line'[v] = SubSeq(Line[v], k + 1, Len(Line[v]))
    BY <1>1, <1>5
  <2>2. /\ Line \in Lines /\ Line' \in Lines /\ v \in Waits /\ u \in Waits /\ u # v
        /\ Line[u] = <<>> /\ Apart(Line)
    BY <1>5 DEF EndsInv
  <2> QED
    BY <1>6, <2>1, <2>2, BatchTaken
<1>8. Done' = Done /\ Unused' = Unused /\ EndsOnce'
  BY <1>2 DEF Done, Unused, EndsInv, EndsOnce
<1> QED
  BY <1>4, <1>7, <1>8 DEF EndsInv

(* Adding one element. *)
LEMMA OneMore ==
  ASSUME NEW S, NEW q \in Seq(S), NEW e \in S
  PROVE  q \o [i \in 1 .. 1 |-> e] = Append(q, e)
<1>1. [i \in 1 .. 1 |-> e] = <<e>>
  OBVIOUS
<1>2. q \o <<e>> = Append(q, e)
  OBVIOUS
<1> QED
  BY <1>1, <1>2

(* A handler and ReqGx between them send one answer. *)
LEMMA OneAnswer ==
  ASSUME NEW req \in Copies, req.kind \notin {"counter", "incomplete", "gy"}
  PROVE  Processed(req).sends = 1
<1>1. req.kind \in Gx \cup {"dw", "ce"}
  BY DiaKindAssumption, Zenon DEF Copies, Gx
<1>2. CASE req.kind \in Gx
  BY <1>2 DEF Processed, ReqGx, Gx, Handled, ReqGxInitial, ReqGxUpdate, ReqGxTerminate, ReqGxEvent
<1>3. CASE req.kind \in {"dw", "ce"}
  BY <1>3 DEF Processed, Gx, ReqDw, ReqCe, Handled
<1> QED
  BY <1>1, <1>2, <1>3

(* Handle: the request leaves its batch for one outcome. *)
LEMMA HandleEnds ==
  ASSUME EndsInv, NEW q \in DiaQueues, Handle(q)
  PROVE  EndsInv'
<1> DEFINE req == Head(batch[q])
           v == <<"batch", q>>
           n == req.n
<1>1. /\ batch[q] # <<>> /\ batch' = [batch EXCEPT ![q] = Tail(@)]
      /\ UNCHANGED <<inbox, connected, requested, fifo>>
  BY DEF Handle
<1>2. /\ batch[q] \in Seq(Copies) /\ req \in Copies /\ Tail(batch[q]) \in Seq(Copies)
  BY <1>1, TailFacts DEF EndsInv, ServerTypes
<1>3. n \in 1 .. MaxRequests /\ req.fd \in Fds
  BY <1>2 DEF Copies
<1>4. client' \in [Fds -> [conn : Nat, counter : Nat, shut : BOOLEAN, left : BOOLEAN]]
  <2>1. CASE req.kind \in {"incomplete", "gy"}
    <3> DEFINE shut == Open(req.fd)
    <3>1. client' = [client EXCEPT ![req.fd].shut = shut]
      BY <2>1 DEF Handle, ShutsDown
    <3>2. shut \in BOOLEAN
      BY DEF Open
    <3> HIDE DEF shut
    <3> QED
      BY <1>3, <3>1, <3>2, Zenon DEF EndsInv, ServerTypes
  <2>2. CASE req.kind \notin {"incomplete", "gy"}
    BY <2>2, Zenon DEF Handle, ReqAny, Responds, EndsInv, ServerTypes
  <2> QED
    BY <2>1, <2>2
<1>5. \E how \in Ends : outcome' = [outcome EXCEPT ![n] = Append(@, how)]
  <2>1. CASE req.kind = "counter"
    BY <2>1, Zenon DEF Handle, ReqAny, Ended, Ends
  <2>2. CASE req.kind \in {"incomplete", "gy"}
    BY <2>2, Zenon DEF Handle, ShutsDown, Ended, Ends
  <2>3. CASE req.kind \notin {"counter", "incomplete", "gy"}
    <3>1. outcome' = [outcome EXCEPT ![n] = @ \o [i \in 1 .. Processed(req).sends |-> "answered"]]
      BY <2>3, Zenon DEF Handle, Responds
    <3>2. Processed(req).sends = 1
      BY <1>2, <2>3, OneAnswer
    <3>3. outcome[n] \in Seq(Ends)
      BY <1>3 DEF EndsInv, ServerTypes
    <3>4. outcome[n] \o [i \in 1 .. 1 |-> "answered"] = Append(outcome[n], "answered")
      BY <3>3, OneMore, Zenon DEF Ends
    <3> QED
      BY <3>1, <3>2, <3>4, Zenon DEF Ends
  <2> QED
    BY <2>1, <2>2, <2>3
<1>6. PICK how \in Ends : outcome' = [outcome EXCEPT ![n] = Append(@, how)]
  BY <1>5, Zenon
<1>7. outcome' \in [1 .. MaxRequests -> Seq(Ends)]
  BY <1>3, <1>6, SMT DEF EndsInv, ServerTypes
<1>8. ServerTypes'
  BY <1>1, <1>2, <1>4, <1>7 DEF EndsInv, ServerTypes
<1>9. /\ Line \in Lines /\ Line' \in Lines /\ v \in Waits
      /\ Line[v] = batch[q] /\ Line'[v] = Tail(batch[q])
  BY <1>1, <1>8, LineType, LineAt, Zenon DEF EndsInv, ServerTypes
<1>10. \A w \in Waits : w # v => Line'[w] = Line[w]
  <2>1. {v} \in SUBSET Waits
    BY <1>9
  <2>2. \A w \in Waits : w \notin {v} => Line'[w] = Line[w]
    BY <1>1, <2>1, OtherLines, Zenon DEF EndsInv, ServerTypes
  <2> QED
    BY <2>2
<1> HIDE DEF v
<1>11. /\ Apart(Line') /\ Clear(Line', {n})
       /\ \A d : Clear(Line, d) => Clear(Line', d) /\ n \notin d
  <2>1. /\ Line \in Lines /\ Line' \in Lines /\ v \in Waits
        /\ Line[v] # <<>> /\ Line'[v] = Tail(Line[v]) /\ Apart(Line)
    BY <1>1, <1>9 DEF EndsInv
  <2>2. /\ Apart(Line') /\ Clear(Line', {Head(Line[v]).n})
        /\ \A d : Clear(Line, d) => Clear(Line', d) /\ Head(Line[v]).n \notin d
    BY <1>10, <2>1, Leaving, Zenon
  <2>3. Head(Line[v]).n = n
    BY <1>9
  <2> QED
    BY <2>2, <2>3
<1> HIDE DEF n, req
<1>12. n \notin Done /\ n \notin Unused /\ Clear(Line', Done) /\ Clear(Line', Unused)
  BY <1>11 DEF EndsInv
<1>13. \A m \in 1 .. MaxRequests \ {n} : outcome'[m] = outcome[m]
  BY <1>3, <1>6 DEF EndsInv, ServerTypes
<1>14. Len(outcome'[n]) <= 1
  <2>1. outcome[n] = <<>>
    BY <1>3, <1>12 DEF Done
  <2>2. outcome'[n] = Append(<<>>, how)
    BY <1>3, <1>6, <2>1 DEF EndsInv, ServerTypes
  <2> QED
    BY <2>2
<1>15. /\ Clear(Line', Done') /\ Clear(Line', Unused') /\ Done' \cap Unused' = {}
       /\ EndsOnce'
  <2>1. {n} \in SUBSET (1 .. MaxRequests) /\ {n} \cap Done = {} /\ {n} \cap Unused = {}
    BY <1>3, <1>12
  <2>2. \A m \in {n} : Len(outcome'[m]) <= 1
    BY <1>14
  <2>3. requested' = requested
    BY <1>1
  <2> QED
    BY <1>7, <1>11, <1>12, <1>13, <2>1, <2>2, <2>3, FirstEnd
<1> QED
  BY <1>8, <1>11, <1>15 DEF EndsInv

(* Every step of the server. *)
LEMMA EndsStep == ASSUME EndsInv, [DiaNext]_diaVars PROVE EndsInv'
<1> USE DEF io, queued, contracts
<1>1. ASSUME NEW fd \in Fds, DiaLeaves(fd)
      PROVE  EndsInv'
  <2>1. ServerTypes'
    BY <1>1, Zenon DEF EndsInv, ServerTypes, DiaLeaves
  <2> QED
    BY <1>1, <2>1, OtherEnds DEF DiaLeaves
<1>2. ASSUME NEW ev \in DiaRows, RowChanges(ev)
      PROVE  EndsInv'
  <2>1. ServerTypes'
    BY <1>2 DEF EndsInv, ServerTypes, RowChanges
  <2> QED
    BY <1>2, <2>1, OtherEnds DEF RowChanges
<1>3. CASE OnAccept
  <2>1. ServerTypes'
    <3> DEFINE new == [NoClient EXCEPT !.conn = connected + 1]
    <3>1. new \in [conn : Nat, counter : Nat, shut : BOOLEAN, left : BOOLEAN] /\ connected + 1 \in Nat
      <4>1. connected + 1 \in Nat
        BY SMT DEF EndsInv, ServerTypes
      <4>2. NoClient \in [conn : Nat, counter : Nat, shut : BOOLEAN, left : BOOLEAN]
        BY DEF NoClient
      <4> QED
        BY <4>1, <4>2
    <3>2. PICK fd \in Fds : client' = [client EXCEPT ![fd] = new]
      BY <1>3, Zenon DEF OnAccept
    <3> HIDE DEF new
    <3> QED
      BY <1>3, <3>1, <3>2, Zenon DEF EndsInv, ServerTypes, OnAccept
  <2> QED
    BY <1>3, <2>1, OtherEnds DEF OnAccept
<1>4. CASE DiaBinLog
  <2>1. ServerTypes'
    BY <1>4 DEF EndsInv, ServerTypes, DiaBinLog
  <2> QED
    BY <1>4, <2>1, OtherEnds DEF DiaBinLog
<1>5. CASE UNCHANGED diaVars
  <2>1. ServerTypes'
    BY <1>5 DEF EndsInv, ServerTypes, diaVars
  <2> QED
    BY <1>5, <2>1, OtherEnds DEF diaVars
<1> QED
  BY <1>1, <1>2, <1>3, <1>4, <1>5, AskEnds, RecvEnds, DequeueEnds, HandleEnds DEF DiaNext

(* A request to the Diameter server is answered once, stored or refused by *)
(* the database, or lost with its connection, and meets one of these ends  *)
(* only, whatever the connections, the queues and the batches.             *)
THEOREM RequestsEndOnce == DiaSpec => []EndsOnce
<1>1. EndsInv => EndsOnce
  BY DEF EndsInv
<1> QED
  BY <1>1, EndsInit, EndsStep, PTL DEF DiaSpec

-----------------------------------------------------------------------------
(***************************************************************************)
(* That a reload swaps the configuration while no core cycles, and that    *)
(* all cores which cycle have the same one, for any number of cores,       *)
(* virtual cores and signals, provided that the changer's sleep outlasts   *)
(* that of a core thread (Prompt).                                         *)
(*                                                                         *)
(* The danger is an acknowledgement that belongs to an earlier reload.     *)
(* The invariant follows a core from reading CFGACK to acknowledging: such *)
(* a core is pending, none is when the acknowledgements are cleared, and   *)
(* so those the changer counts are of this reload.                         *)
(***************************************************************************)
Pending(c) == pc[c] \in {"sleep", "ack"} /\ seen[c] = "CFGACK"
Same == \A c, d \in Cores : conf[c] = conf[d]

(* What the changer has left to do is the end of the plan for its status.  *)
PlanInv ==
  \/ todo = <<>>
  \/ status = "DC" /\ todo = <<"INIT">>
  \/ status = "INIT" /\ todo = <<"PREPARE">>
  \/ status = "PREPARE" /\ todo \in {<<"reset_ack", "BUSYLOOP">>, <<"BUSYLOOP">>}
  \/ status = "BUSYLOOP" /\ todo = <<"CFGLOAD">>
  \/ status = "CFGLOAD" /\ todo \in {<<"load", "reset_signal", "reset_ack", "CFGACK">>,
                                     <<"reset_signal", "reset_ack", "CFGACK">>,
                                     <<"reset_ack", "CFGACK">>, <<"CFGACK">>}
  \/ status = "CFGACK" /\ todo = <<"CFGSWAP">>
  \/ status = "CFGSWAP" /\ todo \in {<<"swap", "PREPARE">>, <<"PREPARE">>}

(* A handler in its critical section holds the lock, and so does a changer *)
(* that is about to write.                                                 *)
LockInv ==
  /\ \A t \in AppThreads : handler[t] = "in" => lock = t
  /\ lock = Changer /\ handler[Changer] # "in" => todo # <<>> /\ Head(todo) \notin {"load", "swap"}
  /\ pc[Changer] \in {"loop", "sleep", "done"}
  /\ pc[Changer] = "sleep" => todo = <<>>

PendingInv ==
  /\ \A c \in Cores : pc[c] = "ack" => seen[c] = "CFGACK"
  /\ status \notin {"CFGACK", "CFGSWAP"} => \A c \in Cores : ~Pending(c)
  /\ status = "CFGSWAP" /\ todo # <<>> => \A c \in Cores : ~Pending(c)
  /\ status = "CFGSWAP" /\ pc[Changer] = "sleep" => \A c \in Cores : Pending(c) => c \in late

AckInv ==
  /\ status = "CFGLOAD" /\ todo = <<"CFGACK">> => ack = {}
  /\ status = "CFGACK" => \A c \in ack : pc[c] # "cycle"
  /\ status = "CFGACK" /\ todo # <<>> => ack = Cores
  /\ status = "CFGSWAP" => \A c \in Cores : pc[c] # "cycle"

ConfInv == status # "CFGSWAP" \/ todo = <<"PREPARE">> => Same

AppInv == AppTypeOK /\ PlanInv /\ LockInv /\ PendingInv /\ AckInv /\ ConfInv

-----------------------------------------------------------------------------
(* What the changer does next, and what is left then.                      *)
LEMMA PlanSteps ==
  ASSUME PlanInv, todo # <<>>
  PROVE  \/ status = "DC" /\ Head(todo) = "INIT" /\ Tail(todo) = <<>>
         \/ status = "INIT" /\ Head(todo) = "PREPARE" /\ Tail(todo) = <<>>
         \/ status = "PREPARE" /\ Head(todo) = "reset_ack" /\ Tail(todo) = <<"BUSYLOOP">>
         \/ status = "PREPARE" /\ Head(todo) = "BUSYLOOP" /\ Tail(todo) = <<>>
         \/ status = "BUSYLOOP" /\ Head(todo) = "CFGLOAD" /\ Tail(todo) = <<>>
         \/ /\ status = "CFGLOAD" /\ Head(todo) = "load"
            /\ Tail(todo) = <<"reset_signal", "reset_ack", "CFGACK">>
         \/ /\ status = "CFGLOAD" /\ Head(todo) = "reset_signal"
            /\ Tail(todo) = <<"reset_ack", "CFGACK">>
         \/ status = "CFGLOAD" /\ Head(todo) = "reset_ack" /\ Tail(todo) = <<"CFGACK">>
         \/ /\ status = "CFGLOAD" /\ Head(todo) = "CFGACK" /\ Tail(todo) = <<>>
            /\ todo = <<"CFGACK">>
         \/ status = "CFGACK" /\ Head(todo) = "CFGSWAP" /\ Tail(todo) = <<>>
         \/ status = "CFGSWAP" /\ Head(todo) = "swap" /\ Tail(todo) = <<"PREPARE">>
         \/ /\ status = "CFGSWAP" /\ Head(todo) = "PREPARE" /\ Tail(todo) = <<>>
            /\ todo = <<"PREPARE">>
<1>1. CASE status = "DC" /\ todo = <<"INIT">>
  BY <1>1
<1>2. CASE status = "INIT" /\ todo = <<"PREPARE">>
  BY <1>2
<1>3. CASE status = "PREPARE" /\ todo = <<"reset_ack", "BUSYLOOP">>
  BY <1>3
<1>4. CASE status = "PREPARE" /\ todo = <<"BUSYLOOP">>
  BY <1>4
<1>5. CASE status = "BUSYLOOP" /\ todo = <<"CFGLOAD">>
  BY <1>5
<1>6. CASE status = "CFGLOAD" /\ todo = <<"load", "reset_signal", "reset_ack", "CFGACK">>
  BY <1>6
<1>7. CASE status = "CFGLOAD" /\ todo = <<"reset_signal", "reset_ack", "CFGACK">>
  BY <1>7
<1>8. CASE status = "CFGLOAD" /\ todo = <<"reset_ack", "CFGACK">>
  BY <1>8
<1>9. CASE status = "CFGLOAD" /\ todo = <<"CFGACK">>
  BY <1>9
<1>10. CASE status = "CFGACK" /\ todo = <<"CFGSWAP">>
  BY <1>10
<1>11. CASE status = "CFGSWAP" /\ todo = <<"swap", "PREPARE">>
  BY <1>11
<1>12. CASE status = "CFGSWAP" /\ todo = <<"PREPARE">>
  BY <1>12
<1> QED
  BY <1>1, <1>2, <1>3, <1>4, <1>5, <1>6, <1>7, <1>8, <1>9, <1>10, <1>11, <1>12 DEF PlanInv

(* A plan that goes on is not one that is about to end.                    *)
LEMMA PlansDiffer ==
  /\ <<"load", "reset_signal", "reset_ack", "CFGACK">> # <<"CFGACK">>
  /\ <<"reset_signal", "reset_ack", "CFGACK">> # <<"CFGACK">>
  /\ <<"reset_ack", "CFGACK">> # <<"CFGACK">>
  /\ <<"swap", "PREPARE">> # <<"PREPARE">>
  /\ \A x : <<x>> # <<>>
  OBVIOUS

-----------------------------------------------------------------------------
(* The boot state satisfies the invariant. *)
LEMMA AppInvInit == AppInit => AppInv
<1> SUFFICES ASSUME AppInit PROVE AppInv
  OBVIOUS
<1>1. AppTypeOK
  <2>1. pc \in [AppThreads -> {"before", "prepare", "loop", "cycle", "sleep", "ack", "done"}]
    BY DEF AppInit
  <2>2. handler \in [AppThreads -> {"none", "want", "in"}]
    BY DEF AppInit
  <2>3. seen \in [Cores -> Status] /\ status \in Status /\ todo \in Seq(ChangerOps)
    BY DEF AppInit, Status
  <2>4. file \in 0 .. MaxSignal /\ tmp \in 0 .. MaxSignal /\ conf \in [Cores -> 0 .. MaxSignal]
    BY SignalAssumption DEF AppInit
  <2>5. /\ sig \in BOOLEAN /\ quit \in BOOLEAN /\ lock \in AppThreads \cup {Nobody}
        /\ prepared \subseteq Cores /\ ack \subseteq Cores /\ late \subseteq Cores
    BY Zenon DEF AppInit
  <2> QED
    BY <2>1, <2>2, <2>3, <2>4, <2>5 DEF AppTypeOK
<1>2. \A c \in Cores : pc[c] = "before"
  BY Zenon DEF AppInit, AppThreads
<1>3. pc[Changer] = "loop" /\ \A t \in AppThreads : handler[t] = "none"
  BY ThreadAssumption DEF AppInit, AppThreads
<1>4. lock # Changer
  BY ThreadAssumption DEF AppInit, AppThreads
<1> QED
  BY <1>1, <1>2, <1>3, <1>4, Zenon
  DEF AppInit, AppInv, PlanInv, LockInv, PendingInv, Pending, AckInv, ConfInv, Same

(* A core thread moves: the changer's part of the invariant is untouched.  *)
LEMMA CoreInv == ASSUME AppInv, NEW c \in Cores, CoreStep(c) PROVE AppInv'
<1> USE DEF AppInv
<1>1. c \in AppThreads /\ c # Changer /\ Changer \in AppThreads /\ c # Nobody /\ Nobody # Changer
  BY ThreadAssumption DEF AppThreads
<1>2. UNCHANGED <<status, sig, todo, file, tmp, conf, handler, quit>>
  BY DEF CoreStep, BeforeCycle, SetPrepare, LoopTop, CycleEnd, Wake, SetAck
<1>3. PlanInv' /\ ConfInv'
  BY <1>2 DEF PlanInv, ConfInv, Same
<1>4. /\ pc' = [pc EXCEPT ![c] = pc'[c]]
      /\ pc'[c] \in {"prepare", "loop", "cycle", "sleep", "ack", "done"}
      /\ pc'[Changer] = pc[Changer]
      /\ \A d \in Cores \ {c} : pc'[d] = pc[d]
  BY <1>1 DEF AppTypeOK, AppThreads, AppGoto, CoreStep, BeforeCycle, SetPrepare, LoopTop, CycleEnd, Wake, SetAck
<1>5. AppTypeOK'
  BY <1>1, <1>2, <1>4, ZenonT(30)
  DEF AppTypeOK, CoreStep, BeforeCycle, SetPrepare, LoopTop, CycleEnd, Wake, SetAck
<1>6. LockInv'
  <2>1. lock' = lock \/ (lock = c /\ lock' = Nobody /\ handler[c] = "none")
    BY DEF CoreStep, BeforeCycle, SetPrepare, LoopTop, CycleEnd, Wake, SetAck, Runs
  <2> QED
    BY <1>1, <1>2, <1>4, <2>1 DEF LockInv
<1>7. PendingInv'
  <2>1. CASE BeforeCycle(c) \/ SetPrepare(c) \/ CycleEnd(c)
    <3>1. UNCHANGED <<seen, late>> /\ pc'[c] \in {"prepare", "loop"}
      BY <1>1, <2>1 DEF BeforeCycle, SetPrepare, CycleEnd, AppGoto, AppTypeOK
    <3> QED
      BY <1>2, <1>4, <3>1 DEF PendingInv, Pending
  <2>2. CASE LoopTop(c)
    <3>1. pc'[c] \in {"done", "cycle"} \/ (pc'[c] = "sleep" /\ seen'[c] = status)
      BY <1>1, <2>2 DEF LoopTop, AppGoto, AppTypeOK
    <3>2. late' = late /\ \A d \in Cores \ {c} : seen'[d] = seen[d]
      BY <2>2 DEF LoopTop, AppTypeOK
    <3> QED
      BY <1>2, <1>4, <3>1, <3>2 DEF PendingInv, Pending
  <2>3. CASE Wake(c)
    <3>1. seen' = seen /\ pc[c] = "sleep" /\ \A d \in Cores \ {c} : d \in late => d \in late'
      BY <2>3 DEF Wake
    <3>2. \/ pc'[c] = "loop"
          \/ pc'[c] = "ack" /\ seen[c] = "CFGACK" /\ late' = late
      BY <1>1, <2>3 DEF Wake, AppGoto, AppTypeOK
    <3> QED
      BY <1>2, <1>4, <3>1, <3>2 DEF PendingInv, Pending
  <2>4. CASE SetAck(c)
    <3>1. seen' = seen /\ \A d \in Cores \ {c} : d \in late => d \in late'
      BY <2>4 DEF SetAck
    <3>2. pc'[c] = "loop"
      BY <1>1, <2>4 DEF SetAck, AppGoto, AppTypeOK
    <3> QED
      BY <1>2, <1>4, <3>1, <3>2 DEF PendingInv, Pending
  <2> QED
    BY <2>1, <2>2, <2>3, <2>4 DEF CoreStep
<1>8. AckInv'
  <2>1. status \in {"CFGACK", "CFGSWAP"} => pc'[c] # "cycle"
    BY <1>1 DEF AppGoto, AppTypeOK, CoreStep, BeforeCycle, SetPrepare, LoopTop, CycleEnd, Wake, SetAck, Cycles
  <2>2. CASE SetAck(c)
    <3>1. ack' = ack \cup {c} /\ ack \subseteq Cores
      BY <2>2 DEF SetAck, AppTypeOK
    <3>2. Pending(c)
      BY <2>2 DEF SetAck, PendingInv, Pending
    <3>3. status \in {"CFGACK", "CFGSWAP"}
      BY <3>2 DEF PendingInv
    <3> QED
      BY <1>2, <1>4, <2>1, <3>1, <3>3 DEF AckInv
  <2>3. CASE ack' = ack
    BY <1>2, <1>4, <2>1, <2>3 DEF AckInv, AppTypeOK
  <2> QED
    BY <2>2, <2>3 DEF CoreStep, BeforeCycle, SetPrepare, LoopTop, CycleEnd, Wake
<1> QED
  BY <1>3, <1>5, <1>6, <1>7, <1>8

(* Virtual cores, signals and whoever takes the lock change nothing that   *)
(* the reload depends on.                                                  *)
LEMMA OtherInv ==
  ASSUME AppInv,
         \/ \E v \in VCores : VirtualStep(v)
         \/ \E t \in AppThreads : Acquire(t) \/ Reload(t) \/ HandlerLock(t) \/ SetSignal(t)
         \/ Interrupt
  PROVE  AppInv'
<1> USE DEF AppInv
<1>1. Changer \in AppThreads /\ Nobody \notin AppThreads /\ Cores \subseteq AppThreads
  BY ThreadAssumption DEF AppThreads
<1>2. UNCHANGED <<status, ack, seen, todo, late, conf, prepared, tmp>>
  BY DEF VirtualStep, VirtualTop, VirtualEnd, Acquire, Reload, HandlerLock, SetSignal, Interrupt
<1>3. pc'[Changer] = pc[Changer] /\ \A c \in Cores : pc'[c] = pc[c]
  BY <1>1, ThreadAssumption, ZenonT(30)
  DEF VirtualStep, VirtualTop, VirtualEnd, AppGoto, Acquire, Reload, HandlerLock, SetSignal, Interrupt, AppTypeOK
<1>4. PlanInv' /\ ConfInv' /\ PendingInv' /\ AckInv'
  BY <1>2, <1>3 DEF PlanInv, ConfInv, Same, PendingInv, Pending, AckInv, AppTypeOK
<1>5. AppTypeOK' /\ LockInv'
  <2>1. CASE \E v \in VCores : VirtualStep(v)
    <3>1. PICK v \in VCores : VirtualStep(v)
      BY <2>1
    <3>2. v \in AppThreads
      BY DEF AppThreads
    <3>3. AppTypeOK'
      BY <3>1, <3>2 DEF VirtualStep, VirtualTop, VirtualEnd, AppGoto, AppTypeOK
    <3> QED
      BY <1>2, <1>3, <3>1, <3>3 DEF VirtualStep, VirtualTop, VirtualEnd, LockInv
  <2>2. ASSUME NEW t \in AppThreads, Acquire(t) PROVE AppTypeOK' /\ LockInv'
    <3>1. AppTypeOK'
      BY <2>2 DEF Acquire, AppTypeOK
    <3>2. t = Changer => todo # <<>> /\ Head(todo) \notin {"load", "swap"}
      BY <2>2 DEF Acquire, LockInv
    <3> QED
      BY <1>1, <1>2, <1>3, <2>2, <3>1, <3>2 DEF Acquire, LockInv
  <2>3. ASSUME NEW t \in AppThreads, Reload(t) PROVE AppTypeOK' /\ LockInv'
    <3>1. AppTypeOK'
      BY <2>3, SignalAssumption, SMT DEF Reload, AppTypeOK
    <3>2. \A u \in AppThreads : handler'[u] # "in"
      BY <2>3 DEF Reload, Runs, AppTypeOK
    <3>3. \A u \in AppThreads : handler[u] = "none"
      BY <2>3 DEF Reload, Runs
    <3> QED
      BY <1>1, <1>2, <1>3, <2>3, <3>1, <3>2, <3>3 DEF Reload, LockInv
  <2>4. ASSUME NEW t \in AppThreads, HandlerLock(t) PROVE AppTypeOK' /\ LockInv'
    <3>1. AppTypeOK'
      BY <2>4 DEF HandlerLock, AppTypeOK
    <3>2. handler'[t] = "in" /\ \A u \in AppThreads \ {t} : handler'[u] = handler[u] /\ handler[u] # "in"
      BY <1>1, <2>4 DEF HandlerLock, AppTypeOK, LockInv
    <3> QED
      BY <1>1, <1>2, <1>3, <2>4, <3>1, <3>2 DEF HandlerLock, LockInv
  <2>5. ASSUME NEW t \in AppThreads, SetSignal(t) PROVE AppTypeOK' /\ LockInv'
    <3>1. AppTypeOK'
      BY <2>5 DEF SetSignal, AppTypeOK
    <3>2. \A u \in AppThreads : handler'[u] # "in"
      BY <1>1, <2>5 DEF SetSignal, AppTypeOK, LockInv
    <3> QED
      BY <1>1, <1>2, <1>3, <2>5, <3>1, <3>2 DEF SetSignal, LockInv
  <2>6. CASE Interrupt
    BY <1>2, <2>6 DEF Interrupt, AppTypeOK, LockInv
  <2> QED
    BY <2>1, <2>2, <2>3, <2>4, <2>5, <2>6
<1> QED
  BY <1>4, <1>5

-----------------------------------------------------------------------------
(* The changer falls asleep or starts a round: with Prompt no core that    *)
(* read CFGACK is left when it plans the swap.                             *)
LEMMA RoundInv == ASSUME AppInv, Prompt, Sleep \/ Round PROVE AppInv'
<1> USE DEF AppInv
<1>1. Changer \in AppThreads /\ Nobody \notin AppThreads /\ Changer \notin Cores /\ Cores \subseteq AppThreads
  BY ThreadAssumption DEF AppThreads
<1>2. UNCHANGED <<status, sig, prepared, ack, lock, seen, file, tmp, conf, handler, quit>>
  BY DEF Sleep, Round
<1>3. \A c \in Cores : pc'[c] = pc[c]
  BY <1>1 DEF Sleep, Round, AppGoto, AppTypeOK
<1>4. \A c \in Cores : Pending(c)' <=> Pending(c)
  BY <1>2, <1>3 DEF Pending
<1>5. CASE Sleep
  <2>1. AppTypeOK'
    BY <1>1, <1>5 DEF Sleep, AppGoto, AppTypeOK
  <2>2. todo = <<>> /\ todo' = <<>>
    BY <1>5 DEF Sleep
  <2>3. pc'[Changer] = "sleep" => \A c \in Cores : Pending(c) => c \in late'
    BY <1>1, <1>5 DEF Sleep, AppGoto, AppTypeOK, Pending
  <2>4. pc'[Changer] \in {"sleep", "done"}
    BY <1>1, <1>5 DEF Sleep, AppGoto, AppTypeOK
  <2> QED
    BY <1>2, <1>3, <1>4, <2>1, <2>2, <2>3, <2>4 DEF PlanInv, LockInv, PendingInv, AckInv, ConfInv, Same, AppTypeOK
<1>6. CASE Round
  <2>1. todo = <<>> /\ todo' = Plan /\ late = {} /\ late' = late /\ pc[Changer] = "sleep"
    BY <1>6 DEF Round, LockInv
  <2>2. pc'[Changer] = "loop"
    BY <1>1, <1>6 DEF Round, AppGoto, AppTypeOK
  <2>3. lock # Changer \/ handler[Changer] = "in"
    BY <2>1 DEF LockInv
  <2>4. PlanInv'
    BY <1>2, <2>1 DEF PlanInv, Plan
  <2>5. Plan \in Seq(ChangerOps)
    <3>1. /\ <<>> \in Seq(ChangerOps) /\ <<"INIT">> \in Seq(ChangerOps) /\ <<"PREPARE">> \in Seq(ChangerOps)
          /\ <<"reset_ack", "BUSYLOOP">> \in Seq(ChangerOps) /\ <<"CFGLOAD">> \in Seq(ChangerOps)
          /\ <<"load", "reset_signal", "reset_ack", "CFGACK">> \in Seq(ChangerOps)
          /\ <<"CFGSWAP">> \in Seq(ChangerOps) /\ <<"swap", "PREPARE">> \in Seq(ChangerOps)
      BY DEF ChangerOps, Status
    <3> QED
      BY <3>1 DEF Plan
  <2>6. AppTypeOK'
    BY <1>1, <1>2, <1>6, <2>5 DEF Round, AppGoto, AppTypeOK
  <2>7. LockInv'
    BY <1>2, <2>2, <2>3 DEF LockInv
  <2>8. PendingInv'
    BY <1>2, <1>3, <1>4, <2>1, <2>2 DEF PendingInv
  <2>9. AckInv'
    <3>1. status = "CFGLOAD" => Plan # <<"CFGACK">>
      BY PlansDiffer DEF Plan
    <3>2. status = "CFGACK" /\ Plan # <<>> => ack = Cores
      BY DEF Plan
    <3> QED
      BY <1>2, <1>3, <2>1, <3>1, <3>2 DEF AckInv, AppTypeOK
  <2>10. ConfInv'
    <3>1. status = "CFGSWAP" => Plan # <<"PREPARE">>
      BY PlansDiffer DEF Plan
    <3> QED
      BY <1>2, <2>1, <3>1 DEF ConfInv, Same
  <2> QED
    BY <2>4, <2>6, <2>7, <2>8, <2>9, <2>10
<1> QED
  BY <1>5, <1>6

(* The changer loads the file or copies it into the worker objects.        *)
LEMMA ConfigInv == ASSUME AppInv, LoadConfig \/ SwapConfig PROVE AppInv'
<1> USE DEF AppInv
<1>1. /\ Changer \in AppThreads
      /\ todo # <<>> /\ Head(todo) \in {"load", "swap"}
      /\ lock # Changer /\ pc[Changer] # "sleep"
  BY ThreadAssumption DEF LoadConfig, SwapConfig, LockInv, Runs, AppThreads
<1>2. UNCHANGED <<status, sig, prepared, ack, lock, pc, seen, late, file, handler, quit>>
  BY DEF LoadConfig, SwapConfig
<1>3. todo' \in Seq(ChangerOps)
  <2>1. todo \in Seq(ChangerOps) /\ Tail(todo) \in Seq(ChangerOps)
    BY <1>1, SMT DEF AppTypeOK
  <2>2. todo' \in {todo, Tail(todo)}
    BY DEF LoadConfig, SwapConfig
  <2> QED
    BY <2>1, <2>2
<1>4. LockInv'
  BY <1>1, <1>2 DEF LockInv
<1>5. CASE LoadConfig
  <2>1. status = "CFGLOAD" /\ todo' = <<"reset_signal", "reset_ack", "CFGACK">>
    BY <1>1, <1>5, PlanSteps DEF LoadConfig
  <2>2. AppTypeOK'
    BY <1>2, <1>3, <1>5 DEF LoadConfig, AppTypeOK
  <2>3. PlanInv' /\ PendingInv'
    BY <1>2, <2>1 DEF PlanInv, PendingInv, Pending
  <2>4. AckInv' /\ ConfInv'
    BY <1>2, <1>5, <2>1, PlansDiffer, Zenon DEF LoadConfig, AckInv, ConfInv, Same
  <2> QED
    BY <1>4, <2>2, <2>3, <2>4
<1>6. CASE SwapConfig /\ todo' = todo
  <2>1. status = "CFGSWAP" /\ todo # <<"PREPARE">>
    <3>1. status = "CFGSWAP" /\ Head(todo) = "swap"
      BY <1>1, <1>6, PlanSteps DEF SwapConfig
    <3>2. Head(<<"PREPARE">>) = "PREPARE"
      OBVIOUS
    <3> QED
      BY <3>1, <3>2
  <2>2. AppTypeOK'
    BY <1>2, <1>3, <1>6 DEF SwapConfig, AppTypeOK
  <2>3. PlanInv' /\ PendingInv' /\ AckInv' /\ ConfInv'
    BY <1>2, <1>6, <2>1 DEF PlanInv, PendingInv, Pending, AckInv, ConfInv
  <2> QED
    BY <1>4, <2>2, <2>3
<1>7. CASE SwapConfig /\ todo' = Tail(todo) /\ (\A c \in Cores : conf[c] = tmp) /\ conf' = conf
  <2>1. status = "CFGSWAP" /\ todo' = <<"PREPARE">>
    BY <1>1, <1>7, PlanSteps DEF SwapConfig
  <2>2. AppTypeOK'
    BY <1>2, <1>3, <1>7 DEF SwapConfig, AppTypeOK
  <2>3. PlanInv' /\ PendingInv' /\ AckInv'
    BY <1>1, <1>2, <2>1 DEF PlanInv, PendingInv, Pending, AckInv
  <2>4. ConfInv'
    BY <1>7 DEF ConfInv, Same
  <2> QED
    BY <1>4, <2>2, <2>3, <2>4
<1> QED
  BY <1>5, <1>6, <1>7 DEF SwapConfig

(* The changer writes the status or clears the acknowledgements.           *)
LEMMA WriteInv == ASSUME AppInv, Write PROVE AppInv'
<1> USE DEF AppInv
<1>1. /\ Changer \in AppThreads /\ Nobody \notin AppThreads
      /\ todo # <<>> /\ Head(todo) \notin {"load", "swap"}
      /\ pc[Changer] # "sleep" /\ \A t \in AppThreads : handler[t] # "in"
  BY ThreadAssumption DEF Write, LockInv, Runs, AppThreads
<1>2. UNCHANGED <<prepared, pc, seen, late, file, tmp, conf, handler, quit>>
  BY DEF Write
<1>3. LockInv'
  BY <1>1, <1>2 DEF Write, LockInv
<1>4. AppTypeOK'
  <2>1. Tail(todo) \in Seq(ChangerOps)
    BY <1>1, SMT DEF AppTypeOK
  <2> QED
    BY <1>2, <2>1 DEF Write, AppTypeOK
<1>5. \A c \in Cores : Pending(c)' <=> Pending(c)
  BY <1>2 DEF Pending
<1>6. todo' = Tail(todo)
  BY DEF Write
<1>7. PlanInv' /\ PendingInv' /\ AckInv' /\ ConfInv'
  <2>1. CASE status \in {"DC", "INIT", "BUSYLOOP"}
    <3>1. status' \in {"INIT", "PREPARE", "CFGLOAD"} /\ todo' = <<>>
      BY <1>1, <1>6, <2>1, PlanSteps DEF Write, Status
    <3> QED
      BY <1>2, <1>5, <2>1, <3>1, PlansDiffer DEF PlanInv, PendingInv, AckInv, ConfInv, Same
  <2>2. CASE status = "PREPARE"
    <3>1. \/ status' = "BUSYLOOP" /\ todo' = <<>>
          \/ status' = "PREPARE" /\ todo' = <<"BUSYLOOP">>
      BY <1>1, <1>6, <2>2, PlanSteps DEF Write, Status
    <3> QED
      BY <1>2, <1>5, <2>2, <3>1 DEF PlanInv, PendingInv, AckInv, ConfInv, Same
  <2>3. CASE status = "CFGLOAD"
    <3>1. \/ status' = "CFGLOAD" /\ todo' = <<"reset_ack", "CFGACK">>
          \/ status' = "CFGLOAD" /\ todo' = <<"CFGACK">> /\ ack' = {}
          \/ status' = "CFGACK" /\ todo' = <<>> /\ todo = <<"CFGACK">> /\ ack' = ack
      BY <1>1, <1>6, <2>3, PlanSteps DEF Write, Status
    <3> QED
      BY <1>2, <1>5, <2>3, <3>1, PlansDiffer DEF PlanInv, PendingInv, AckInv, ConfInv, Same
  <2>4. CASE status = "CFGACK"
    <3>1. status' = "CFGSWAP" /\ todo' = <<>> /\ ack' = ack /\ ack = Cores
      BY <1>1, <1>6, <2>4, PlanSteps DEF Write, Status, AckInv
    <3> QED
      BY <1>1, <1>2, <1>5, <2>4, <3>1, PlansDiffer DEF PlanInv, PendingInv, AckInv, ConfInv
  <2>5. CASE status = "CFGSWAP"
    <3>1. status' = "PREPARE" /\ todo' = <<>> /\ todo = <<"PREPARE">>
      BY <1>1, <1>6, <2>5, PlanSteps DEF Write, Status
    <3> QED
      BY <1>1, <1>2, <1>5, <2>5, <3>1 DEF PlanInv, PendingInv, AckInv, ConfInv, Same
  <2> QED
    BY <2>1, <2>2, <2>3, <2>4, <2>5 DEF AppTypeOK, Status
<1> QED
  BY <1>3, <1>4, <1>7

-----------------------------------------------------------------------------
(* Every step of a core thread or of the changer keeps the invariant. *)
LEMMA AppInvStep == Prompt /\ AppInv /\ [AppNext]_appVars => AppInv'
<1> SUFFICES ASSUME Prompt, AppInv, [AppNext]_appVars PROVE AppInv'
  OBVIOUS
<1>1. CASE UNCHANGED appVars
  BY <1>1, SMT DEF appVars, AppInv, AppTypeOK, PlanInv, LockInv, PendingInv, Pending, AckInv, ConfInv, Same
<1> QED
  BY <1>1, CoreInv, OtherInv, RoundInv, ConfigInv, WriteInv DEF AppNext, ChangerStep

(* While SwapConfig writes the worker objects no core cycles, for any      *)
(* number of cores, virtual cores and signals, if the changer's sleep      *)
(* outlasts that of a core (App::Dispatch).                                *)
THEOREM SwapsAlone == ASSUME Prompt PROVE AppSpec => []SwapAlone
<1>1. AppInv /\ [AppNext]_appVars => AppInv'
  BY AppInvStep
<1>2. AppInv => SwapAlone
  BY PlanSteps, Zenon DEF AppInv, AckInv, SwapAlone
<1> QED
  BY AppInvInit, <1>1, <1>2, PTL DEF AppSpec

(* Core threads that cycle at the same time have the same configuration    *)
(* (App::Dispatch, SwapConfig).                                            *)
THEOREM CoresShareConf == ASSUME Prompt PROVE AppSpec => []OneConf
<1>1. AppInv /\ [AppNext]_appVars => AppInv'
  BY AppInvStep
<1>2. AppInv => OneConf
  BY DEF AppInv, AckInv, ConfInv, Same, OneConf
<1> QED
  BY AppInvInit, <1>1, <1>2, PTL DEF AppSpec

-----------------------------------------------------------------------------
(***************************************************************************)
(* For every set of contracts, requests and bearers, and any number of     *)
(* interleaved handlers: the types hold and PGW TEIDs stay unique.         *)
(*                                                                         *)
(* TeidUnique alone is not inductive: a handler writes a TEID built from   *)
(* the copy of a row it made some statements ago.  The invariant LowKept   *)
(* says that every such copy has the low digits of its contract, which no  *)
(* handler replaces and which differ between contracts.  Then a denied     *)
(* request changed no session, and last the endpoints and the TEID prefix  *)
(* of a row are of one request.                                            *)
(***************************************************************************)

(* One row and one thread of TypeOK /\ LowKept. *)
RowOK(i, r) == r \in Row /\ r.teid[2] = Low[i]
ThreadOK(x) ==
  /\ x \in Thread
  /\ x.rec.imsi \in Imsis => x.rec.teid[2] = Low[x.rec.imsi]
  /\ x.pc \in {"update", "ebi"} => x.rec.imsi \in Imsis

TableInv == tunnel \in [Imsis -> Row] /\ \A i \in Imsis : RowOK(i, tunnel[i])
ThreadInv == th \in [Threads -> Thread] /\ \A t \in Threads : ThreadOK(th[t])
Inv == TableInv /\ ThreadInv /\ taken \in 0 .. MaxReq

(* Inv is the conjunction of the two invariants that TLC checks. *)
LEMMA InvSplit == Inv <=> TypeOK /\ LowKept
  BY DEF Inv, TableInv, ThreadInv, RowOK, ThreadOK, TypeOK, LowKept

(* A thread that gets a good state, and a row that gets a good value, keep *)
(* the invariant.                                                          *)
LEMMA ThreadUpdate ==
  ASSUME ThreadInv, NEW t \in Threads, NEW x, ThreadOK(x), th' = [th EXCEPT ![t] = x]
  PROVE  ThreadInv'
  BY DEF ThreadInv, ThreadOK

(* Rows that all get good values keep the invariant. *)
LEMMA TableUpdate ==
  ASSUME TableInv, NEW f, tunnel' = [i \in Imsis |-> f[i]], \A i \in Imsis : RowOK(i, f[i])
  PROVE  TableInv'
  BY DEF TableInv, RowOK

(* A response leaves the thread idle and its copy of the row alone. *)
LEMMA ResponseOK ==
  ASSUME ThreadInv, NEW t \in Threads, NEW cause \in {"accepted", "denied", "silent"},
         NEW hdr \in Eps \cup {NoEp}, NEW touched \in BOOLEAN, Respond(t, cause, hdr, touched)
  PROVE  ThreadInv'
<1> DEFINE x == [th[t] EXCEPT !.pc = "idle", !.cause = cause, !.hdr = hdr, !.touched = touched]
<1>1. ThreadOK(th[t]) /\ th[t] \in Thread
  BY DEF ThreadInv
<1>2. ThreadOK(x)
  BY <1>1, Zenon DEF ThreadOK, Thread
<1>3. th' = [th EXCEPT ![t] = x]
  BY Zenon DEF Respond
<1> QED
  BY <1>2, <1>3, ThreadUpdate, Zenon

(* The TEID of a response header is an endpoint or absent. *)
LEMMA HeaderTeidType ==
  ASSUME ThreadInv, NEW t \in Threads, NEW cause
  PROVE  HeaderTeid(t, cause) \in Eps \cup {NoEp}
  BY DEF ThreadInv, ThreadOK, Thread, Request, Record, HeaderTeid

(* A denial keeps the threads good. *)
LEMMA DenyOK == ASSUME ThreadInv, NEW t \in Threads, Deny(t) PROVE ThreadInv'
<1>1. th[t].touched \in BOOLEAN
  BY DEF ThreadInv, Thread
<1> QED
  BY <1>1, ResponseOK, HeaderTeidType DEF Deny

(* An acceptance keeps the threads good. *)
LEMMA AcceptOK == ASSUME ThreadInv, NEW t \in Threads, Accept(t) PROVE ThreadInv'
  BY ResponseOK, HeaderTeidType, Zenon DEF Accept

(* Going on to the next statement keeps the threads good. *)
LEMMA GotoOK ==
  ASSUME ThreadInv, NEW t \in Threads, NEW at \in {"idle", "begin", "imsi", "msisdn"}, Goto(t, at)
  PROVE  ThreadInv'
<1> DEFINE x == [th[t] EXCEPT !.pc = at]
<1>1. ThreadOK(th[t]) /\ th[t] \in Thread
  BY DEF ThreadInv
<1>2. ThreadOK(x)
  BY <1>1 DEF ThreadOK, Thread
<1>3. th' = [th EXCEPT ![t] = x]
  BY DEF Goto
<1> QED
  BY <1>2, <1>3, ThreadUpdate, Zenon

(* A copy of a good row has the low digits of its contract. *)
LEMMA CopyOK == ASSUME TableInv, NEW i \in Imsis
                PROVE  Copy(i) \in Record /\ Copy(i).imsi = i /\ Copy(i).teid[2] = Low[i]
  BY DEF TableInv, RowOK, Row, Copy, Record

(* A SELECT keeps the threads good: its copy comes from the table. *)
LEMMA LookupOK ==
  ASSUME Inv, NEW t \in Threads, NEW rows \in SUBSET Imsis, Lookup(t, rows, "update")
  PROVE  Inv'
<1> USE DEF Inv
<1>1. TableInv' /\ (taken \in 0 .. MaxReq)'
  BY DEF Lookup, TableInv, RowOK
<1>2. CASE Deny(t)
  BY <1>1, <1>2, DenyOK
<1>3. ASSUME NEW i \in rows, th' = [th EXCEPT ![t].pc = "update", ![t].rec = Copy(i)]
      PROVE  ThreadInv'
  <2> DEFINE x == [th[t] EXCEPT !.pc = "update", !.rec = Copy(i)]
  <2>1. ThreadOK(th[t]) /\ th[t] \in Thread
    BY DEF ThreadInv
  <2>2. Copy(i) \in Record /\ Copy(i).imsi = i /\ Copy(i).teid[2] = Low[i]
    BY CopyOK
  <2>3. ThreadOK(x)
    BY <2>1, <2>2, Zenon DEF ThreadOK, Thread
  <2>4. th' = [th EXCEPT ![t] = x]
    BY <1>3, Zenon
  <2> QED
    BY <2>3, <2>4, ThreadUpdate, Zenon
<1> QED
  BY <1>1, <1>2, <1>3 DEF Lookup

(* A failed UPDATE is a denial that leaves the table alone. *)
LEMMA FailedOK == ASSUME Inv, NEW t \in Threads, Failed(t) PROVE Inv'
<1>1. TableInv' /\ (taken \in 0 .. MaxReq)'
  BY DEF Inv, Failed, TableInv, RowOK
<1> QED
  BY <1>1, DenyOK DEF Inv, Failed

(* The UPDATE statements: the row of one IMSI, with values that are in the *)
(* columns' ranges and the low digits of the row; or some rows ended.      *)
LEMMA RowWrite ==
  ASSUME TableInv, NEW j \in Imsis, NEW r, RowOK(j, r), tunnel' = [tunnel EXCEPT ![j] = r]
  PROVE  TableInv'
  BY DEF TableInv, RowOK

(* Ending sessions touches no TEID. *)
LEMMA DeactivateOK ==
  ASSUME TableInv, NEW rows \in SUBSET Imsis, Deactivate(rows)
  PROVE  TableInv'
<1> DEFINE f == [i \in Imsis |-> IF i \in rows THEN [tunnel[i] EXCEPT !.active = 0] ELSE tunnel[i]]
<1>1. ASSUME NEW i \in Imsis PROVE RowOK(i, f[i])
  BY DEF TableInv, RowOK, Row
<1>2. tunnel' = [i \in Imsis |-> f[i]]
  BY DEF Deactivate
<1> QED
  BY <1>1, <1>2, TableUpdate, Zenon

(* What a thread between its lookup and its last statement holds. *)
LEMMA HeldRecord ==
  ASSUME Inv, NEW t \in Threads, th[t].pc \in {"update", "ebi"}
  PROVE  /\ th[t].rec.imsi \in Imsis
         /\ th[t].rec \in Record
         /\ th[t].rec.teid \in Teids
         /\ th[t].rec.teid[2] = Low[th[t].rec.imsi]
         /\ th[t].req \in Request
         /\ RowOK(th[t].rec.imsi, tunnel[th[t].rec.imsi])
         /\ tunnel[th[t].rec.imsi] \in Row
  BY DEF Inv, ThreadInv, ThreadOK, Thread, Record, TableInv

(* The TEID that is written has the low digits of the contract. *)
LEMMA NewTeidOK ==
  ASSUME Inv, NEW t \in Threads, th[t].pc \in {"update", "ebi"}
  PROVE  NewTeid(t) \in Teids /\ NewTeid(t)[2] = Low[th[t].rec.imsi]
<1>1. th[t].req \in Request
  BY HeldRecord
<1>2. th[t].req.ebi \in Ebis \cup {0}
  BY <1>1 DEF Request
<1>3. Ebis \cup {0} \subseteq Nat
  BY EbiAssumption, SMT
<1>4. th[t].req.ebi \in Nat
  BY <1>2, <1>3
<1> QED
  BY <1>4, HeldRecord DEF NewTeid, Teids

-----------------------------------------------------------------------------
(* The provisioned table satisfies the invariant. *)
LEMMA InitInv == Init => Inv
<1> SUFFICES ASSUME Init PROVE Inv
  OBVIOUS
<1> DEFINE r0 == CHOOSE r \in Requests : TRUE
<1>1. r0 \in Request
  BY RequestsAssumption
<1>2. NoRecord \in Record /\ NoRecord.imsi \notin Imsis
  BY AbsentAssumption DEF NoRecord, Record, Teids
<1>3. ThreadInv
  <2> DEFINE x == [pc |-> "idle", req |-> r0, rec |-> NoRecord, touched |-> FALSE,
                   cause |-> "none", hdr |-> NoEp]
  <2>1. ThreadOK(x)
    BY <1>1, <1>2 DEF ThreadOK, Thread
  <2>2. th = [t \in Threads |-> x]
    BY DEF Init
  <2> HIDE DEF x
  <2> QED
    BY <2>1, <2>2 DEF ThreadInv, ThreadOK
<1>4. TableInv
  BY LowAssumption, SMT DEF Init, TableInv, RowOK, Row, Teids
<1>5. taken \in 0 .. MaxReq
  BY MaxReqAssumption DEF Init
<1> QED
  BY <1>3, <1>4, <1>5 DEF Inv

(* A request taken replaces the copy of the row by none. *)
LEMMA TakeInv ==
  ASSUME Inv, NEW t \in Threads, NEW r \in Requests, Take(t, r)
  PROVE  Inv'
<1> DEFINE x == [pc |-> "begin", req |-> r, rec |-> NoRecord,
                 touched |-> FALSE, cause |-> "none", hdr |-> NoEp]
<1>1. NoRecord \in Record /\ NoRecord.imsi \notin Imsis
  BY AbsentAssumption DEF NoRecord, Record, Teids
<1>2. ThreadOK(x)
  BY <1>1, RequestsAssumption DEF ThreadOK, Thread
<1>3. th' = [th EXCEPT ![t] = x]
  BY DEF Take
<1>4. ThreadInv'
  BY <1>2, <1>3, ThreadUpdate, Zenon DEF Inv
<1>5. TableInv'
  BY DEF Take, Inv, TableInv, RowOK
<1>6. (taken \in 0 .. MaxReq)'
  BY MaxReqAssumption DEF Take, Inv
<1> QED
  BY <1>4, <1>5, <1>6 DEF Inv

(* Statements that write the session of the row that was looked up. *)
LEMMA CreateUpdateInv == ASSUME Inv, NEW t \in Threads, CreateUpdate(t) PROVE Inv'
<1> DEFINE i == th[t].rec.imsi
           r == [tunnel[i] EXCEPT !.active = 1, !.ebi = th[t].req.ebi, !.ep = th[t].req.ep,
                                  !.teid = NewTeid(t)]
<1>1. CASE Failed(t)
  BY <1>1, FailedOK
<1>2. CASE tunnel' = [tunnel EXCEPT ![i] = r] /\ taken' = taken
           /\ (Accept(t) \/ Respond(t, "silent", NoEp, TRUE))
  <2>1. th[t].pc = "update"
    BY DEF CreateUpdate, At
  <2>2. RowOK(i, r)
    BY <2>1, HeldRecord, NewTeidOK, ZenonT(30) DEF RowOK, Row, Request
  <2>3. TableInv'
    BY <1>2, <2>1, <2>2, HeldRecord, RowWrite, Zenon DEF Inv
  <2>4. ThreadInv'
    BY <1>2, AcceptOK, ResponseOK, Zenon DEF Inv
  <2> QED
    BY <1>2, <2>3, <2>4 DEF Inv
<1> QED
  BY <1>1, <1>2, Zenon DEF CreateUpdate

(* What Modify does after its first statement keeps the threads good. *)
LEMMA AfterModifyOK ==
  ASSUME Inv, NEW t \in Threads, th[t].pc = "update", NEW ep \in Eps \cup {NoEp},
         NEW touched \in BOOLEAN, AfterModify(t, ep, touched)
  PROVE  ThreadInv'
<1> DEFINE a == [th[t] EXCEPT !.pc = "idle", !.cause = "accepted", !.hdr = ep,
                              !.rec.ep = ep, !.touched = touched]
           b == [th[t] EXCEPT !.pc = "ebi", !.rec.ep = ep, !.touched = touched]
           x == IF th[t].req.ebi = 0 THEN a ELSE b
           rec == [th[t].rec EXCEPT !.ep = ep]
<1>1. ThreadOK(th[t]) /\ th[t] \in Thread
  BY DEF Inv, ThreadInv
<1>2. th[t].rec.imsi \in Imsis /\ th[t].rec \in Record /\ th[t].rec.teid[2] = Low[th[t].rec.imsi]
  BY HeldRecord
<1>3. rec \in Record /\ rec.imsi = th[t].rec.imsi /\ rec.teid = th[t].rec.teid
  BY <1>2 DEF Record
<1>4. a = [th[t] EXCEPT !.pc = "idle", !.cause = "accepted", !.hdr = ep, !.rec = rec, !.touched = touched]
      /\ b = [th[t] EXCEPT !.pc = "ebi", !.rec = rec, !.touched = touched]
  BY <1>1 DEF Thread
<1>5. ThreadOK(a) /\ ThreadOK(b)
  <2> HIDE DEF rec
  <2>1. a \in Thread /\ a.pc = "idle" /\ a.rec = rec
    BY <1>1, <1>3, <1>4, ZenonT(30) DEF Thread
  <2>2. b \in Thread /\ b.pc = "ebi" /\ b.rec = rec
    BY <1>1, <1>3, <1>4 DEF Thread
  <2> HIDE DEF a, b
  <2> QED
    BY <1>2, <1>3, <2>1, <2>2 DEF ThreadOK
<1>6. th' = [th EXCEPT ![t] = x]
  BY DEF AfterModify
<1> HIDE DEF a, b
<1> QED
  BY <1>5, <1>6, ThreadUpdate, Zenon DEF Inv

(* Modify, endpoint or RAT statement. *)
LEMMA ModifyUpdateInv == ASSUME Inv, NEW t \in Threads, ModifyUpdate(t) PROVE Inv'
<1> DEFINE i == th[t].rec.imsi
           r == [tunnel[i] EXCEPT !.active = 1, !.ep = th[t].req.ep, !.teid = NewTeid(t)]
           on == [tunnel[i] EXCEPT !.active = 1]
<1>1. th[t].pc = "update"
  BY DEF ModifyUpdate, At
<1>2. th[t].req.ep \in Eps \cup {NoEp} /\ th[t].rec.ep \in Eps \cup {NoEp} /\ i \in Imsis
  BY <1>1, HeldRecord DEF Request, Record
<1>3. CASE tunnel' = [tunnel EXCEPT ![i] = r] /\ taken' = taken /\ AfterModify(t, th[t].req.ep, TRUE)
  <2>1. RowOK(i, r)
    BY <1>1, <1>2, HeldRecord, NewTeidOK, Zenon DEF RowOK, Row
  <2>2. TableInv'
    BY <1>2, <1>3, <2>1, RowWrite, Zenon DEF Inv
  <2> QED
    BY <1>1, <1>2, <1>3, <2>2, AfterModifyOK, Zenon DEF Inv
<1>4. CASE tunnel' = [tunnel EXCEPT ![i].active = 1] /\ taken' = taken /\ AfterModify(t, th[t].rec.ep, TRUE)
  <2>1. RowOK(i, on)
    BY <1>1, HeldRecord, Zenon DEF RowOK, Row
  <2>2. TableInv'
    BY <1>2, <1>4, <2>1, RowWrite, Zenon DEF Inv
  <2> QED
    BY <1>1, <1>2, <1>4, <2>2, AfterModifyOK, Zenon DEF Inv
<1>5. CASE UNCHANGED <<tunnel, taken>> /\ AfterModify(t, th[t].rec.ep, FALSE)
  <2>1. TableInv'
    BY <1>5 DEF Inv, TableInv, RowOK
  <2> QED
    BY <1>1, <1>2, <1>5, <2>1, AfterModifyOK, Zenon DEF Inv
<1>6. CASE Failed(t)
  BY <1>6, FailedOK
<1> QED
  BY <1>3, <1>4, <1>5, <1>6, Zenon DEF ModifyUpdate

(* Modify, bearer id statement. *)
LEMMA ModifyEbiInv == ASSUME Inv, NEW t \in Threads, ModifyEbi(t) PROVE Inv'
<1> DEFINE i == th[t].rec.imsi
           r == [tunnel[i] EXCEPT !.ebi = th[t].req.ebi]
<1>1. th[t].pc = "ebi"
  BY DEF ModifyEbi, At
<1>2. CASE tunnel' = [tunnel EXCEPT ![i].ebi = th[t].req.ebi] /\ Accept(t) /\ taken' = taken
  <2>1. RowOK(i, r)
    BY <1>1, HeldRecord, Zenon DEF RowOK, Row, Request
  <2>2. TableInv'
    BY <1>1, <1>2, <2>1, HeldRecord, RowWrite, Zenon DEF Inv
  <2> QED
    BY <1>2, <2>2, AcceptOK DEF Inv
<1>3. CASE Failed(t)
  BY <1>3, FailedOK
<1> QED
  BY <1>2, <1>3 DEF ModifyEbi

(* Create, address and telephone number statement. *)
LEMMA CreateMsisdnInv == ASSUME Inv, NEW t \in Threads, CreateMsisdn(t) PROVE Inv'
<1> DEFINE f == [i \in Imsis |-> IF i = th[t].req.imsi
                                 THEN [tunnel[i] EXCEPT !.msisdn = th[t].req.msisdn]
                                 ELSE tunnel[i]]
<1>1. CASE tunnel' = f /\ Goto(t, "imsi") /\ taken' = taken
  <2>1. th[t].req.msisdn \in Msisdns
    BY DEF Inv, ThreadInv, Thread, Request
  <2>2. ASSUME NEW i \in Imsis PROVE RowOK(i, f[i])
    BY <2>1 DEF Inv, TableInv, RowOK, Row
  <2>3. TableInv'
    BY <1>1, <2>2, TableUpdate, Zenon DEF Inv
  <2> QED
    BY <1>1, <2>3, GotoOK DEF Inv
<1>2. CASE Failed(t)
  BY <1>2, FailedOK
<1> QED
  BY <1>1, <1>2 DEF CreateMsisdn

(* Resume. *)
LEMMA ResumeUpdateInv == ASSUME Inv, NEW t \in Threads, ResumeUpdate(t) PROVE Inv'
<1> DEFINE f == [i \in Imsis |-> IF i = th[t].req.imsi
                                 THEN [tunnel[i] EXCEPT !.active = 1] ELSE tunnel[i]]
<1>1. CASE tunnel' = f /\ Accept(t) /\ taken' = taken
  <2>1. ASSUME NEW i \in Imsis PROVE RowOK(i, f[i])
    BY DEF Inv, TableInv, RowOK, Row
  <2>2. TableInv'
    BY <1>1, <2>1, TableUpdate, Zenon DEF Inv
  <2> QED
    BY <1>1, <2>2, AcceptOK DEF Inv
<1>2. CASE Failed(t)
  BY <1>2, FailedOK
<1> QED
  BY <1>1, <1>2 DEF ResumeUpdate

(* Delete, Suspend and the v1 Delete end some rows. *)
LEMMA EndInv ==
  ASSUME Inv, NEW t \in Threads, DeleteUpdate(t) \/ SuspendUpdate(t) \/ PdpDeleteUpdate(t)
  PROVE  Inv'
<1>1. CASE Failed(t)
  BY <1>1, FailedOK
<1>2. ASSUME NEW rows \in SUBSET Imsis, Deactivate(rows), Accept(t), taken' = taken
      PROVE  Inv'
  BY <1>2, DeactivateOK, AcceptOK DEF Inv
<1>3. CASE DeleteUpdate(t)
  BY <1>1, <1>2, <1>3 DEF DeleteUpdate
<1>4. CASE SuspendUpdate(t)
  BY <1>1, <1>2, <1>4 DEF SuspendUpdate
<1>5. CASE PdpDeleteUpdate(t)
  BY <1>1, <1>2, <1>5 DEF PdpDeleteUpdate
<1> QED
  BY <1>3, <1>4, <1>5

(* GTPv1 Create PDP Context. *)
LEMMA PdpCreateUpdateInv == ASSUME Inv, NEW t \in Threads, PdpCreateUpdate(t) PROVE Inv'
<1> DEFINE i == th[t].rec.imsi
           r == [tunnel[i] EXCEPT !.active = 1, !.ebi = 0, !.ep = th[t].req.ep, !.teid = th[t].rec.teid]
<1>1. th[t].pc = "update"
  BY DEF PdpCreateUpdate, At
<1>2. CASE tunnel' = [tunnel EXCEPT ![i] = r] /\ Accept(t) /\ taken' = taken
  <2>1. RowOK(i, r)
    BY <1>1, HeldRecord, ZenonT(30) DEF RowOK, Row, Request
  <2>2. TableInv'
    BY <1>1, <1>2, <2>1, HeldRecord, RowWrite, Zenon DEF Inv
  <2> QED
    BY <1>2, <2>2, AcceptOK DEF Inv
<1>3. CASE Failed(t)
  BY <1>3, FailedOK
<1> QED
  BY <1>2, <1>3 DEF PdpCreateUpdate

(* GTPv1 Update PDP Context. *)
LEMMA PdpUpdateInv == ASSUME Inv, NEW t \in Threads, PdpUpdate(t) PROVE Inv'
<1> DEFINE i == th[t].rec.imsi
           r == [tunnel[i] EXCEPT !.active = 1, !.ep = th[t].req.ep]
<1>1. th[t].pc = "update"
  BY DEF PdpUpdate, At
<1>2. th[t].req.ep \in Eps \cup {NoEp} /\ th[t].rec.ep \in Eps \cup {NoEp} /\ i \in Imsis
  BY <1>1, HeldRecord DEF Request, Record
<1>3. CASE tunnel' = [tunnel EXCEPT ![i] = r] /\ taken' = taken
           /\ Respond(t, "accepted", th[t].req.ep, TRUE)
  <2>1. RowOK(i, r)
    BY <1>1, <1>2, HeldRecord, Zenon DEF RowOK, Row
  <2>2. TableInv'
    BY <1>2, <1>3, <2>1, RowWrite, Zenon DEF Inv
  <2> QED
    BY <1>2, <1>3, <2>2, ResponseOK, Zenon DEF Inv
<1>4. CASE UNCHANGED <<tunnel, taken>> /\ Respond(t, "accepted", th[t].rec.ep, FALSE)
  <2>1. TableInv'
    BY <1>4 DEF Inv, TableInv, RowOK
  <2> QED
    BY <1>2, <1>4, <2>1, ResponseOK, Zenon DEF Inv
<1>5. CASE Failed(t)
  BY <1>5, FailedOK
<1> QED
  BY <1>3, <1>4, <1>5, Zenon DEF PdpUpdate

(* The statements that only read, and the requests refused at once. *)
LEMMA ReadInv ==
  ASSUME Inv, NEW t \in Threads,
         \/ Unparsable(t) \/ Malformed(t) \/ CreateByImsi(t) \/ CreateByMsisdn(t)
         \/ ModifyLookup(t) \/ OtherLookup(t) \/ PdpCreateLookup(t) \/ PdpDeleteLookup(t)
  PROVE  Inv'
<1>1. ASSUME NEW rows \in SUBSET Imsis, Lookup(t, rows, "update")
      PROVE  Inv'
  BY <1>1, LookupOK
<1>2. ASSUME UNCHANGED <<tunnel, taken>>, ThreadInv'
      PROVE  Inv'
  BY <1>2 DEF Inv, TableInv, RowOK
<1>3. CASE Unparsable(t)
  BY <1>2, <1>3, ResponseOK, Zenon DEF Unparsable, Inv
<1>4. CASE Malformed(t)
  BY <1>2, <1>4, DenyOK DEF Malformed, Inv
<1>5. CASE CreateByImsi(t)
  <2>1. CASE th[t].req.imsi \in Imsis /\ Lookup(t, {th[t].req.imsi}, "update")
    BY <1>1, <2>1
  <2>2. CASE Goto(t, "msisdn") /\ UNCHANGED <<tunnel, taken>>
    BY <1>2, <2>2, GotoOK DEF Inv
  <2> QED
    BY <1>5, <2>1, <2>2 DEF CreateByImsi
<1>6. CASE CreateByMsisdn(t)
  BY <1>1, <1>6 DEF CreateByMsisdn
<1>7. CASE ModifyLookup(t)
  BY <1>1, <1>7 DEF ModifyLookup
<1>8. CASE OtherLookup(t)
  BY <1>1, <1>8 DEF OtherLookup
<1>9. CASE PdpCreateLookup(t)
  BY <1>1, <1>9 DEF PdpCreateLookup
<1>10. CASE PdpDeleteLookup(t)
  BY <1>1, <1>10 DEF PdpDeleteLookup
<1> QED
  BY <1>3, <1>4, <1>5, <1>6, <1>7, <1>8, <1>9, <1>10

-----------------------------------------------------------------------------
(* Every step of every handler keeps the invariant. *)
LEMMA NextInv == Inv /\ [Next]_vars => Inv'
<1> SUFFICES ASSUME Inv, [Next]_vars PROVE Inv'
  OBVIOUS
<1>1. CASE UNCHANGED vars
  BY <1>1 DEF vars, Inv, TableInv, ThreadInv, RowOK, ThreadOK
<1>2. ASSUME NEW t \in Threads, NEW r \in Requests, Take(t, r)
      PROVE  Inv'
  BY <1>2, TakeInv
<1>3. ASSUME NEW t \in Threads, Step(t)
      PROVE  Inv'
  BY <1>3, ReadInv, CreateMsisdnInv, CreateUpdateInv, ModifyUpdateInv, ModifyEbiInv, EndInv,
     ResumeUpdateInv, PdpCreateUpdateInv, PdpUpdateInv DEF Step
<1> QED
  BY <1>1, <1>2, <1>3 DEF Next

(* The invariant holds in every reachable state. *)
LEMMA SpecInv == Spec => []Inv
  BY InitInv, NextInv, PTL DEF Spec

(* Whatever the requests and their interleaving, the session handlers keep *)
(* the table and their own state within their types.                       *)
THEOREM SessionTypes == Spec => []TypeOK
<1>1. Inv => TypeOK
  BY InvSplit
<1> QED
  BY <1>1, SpecInv, PTL

(* The low digits of every PGW TEID, in the table and in every copy that a *)
(* handler will write back, are those the contract was provisioned with.   *)
THEOREM LowDigitsKept == Spec => []LowKept
<1>1. Inv => LowKept
  BY InvSplit
<1> QED
  BY <1>1, SpecInv, PTL

(* No interleaving of Create, Modify and v1 Create gives two contracts the *)
(* same PGW TEID, for any number of contracts: the SELECTs by pgw_teid     *)
(* find at most one row.                                                   *)
THEOREM PgwTeidUnique == Spec => []TeidUnique
<1>1. LowKept => TeidUnique
  BY LowAssumption, SMT DEF LowKept, TeidUnique
<1> QED
  BY <1>1, LowDigitsKept, PTL

-----------------------------------------------------------------------------
(* A denial that changed nothing, strengthened: a handler other than       *)
(* Modify's has not written a session column while it is still at work.    *)
Untouched(x) ==
  (x.pc # "idle" \/ x.cause = "denied") /\ x.req.op # "modify" => ~x.touched
UntouchedInv == \A t \in Threads : Untouched(th[t])

(* One thread moves to a state with the invariant, the others stay. *)
LEMMA UntouchedUpdate ==
  ASSUME Inv, UntouchedInv, NEW t \in Threads, NEW x, Untouched(x), th' = [th EXCEPT ![t] = x]
  PROVE  UntouchedInv'
  BY DEF UntouchedInv, Untouched, Inv, ThreadInv

(* A response: denied ones keep what the thread knows of its statements. *)
LEMMA RespondUntouched ==
  ASSUME Inv, UntouchedInv, NEW t \in Threads, NEW c, NEW h, NEW b,
         Respond(t, c, h, b), c = "denied" => th[t].pc # "idle" /\ b = th[t].touched
  PROVE  UntouchedInv'
<1> DEFINE x == [th[t] EXCEPT !.pc = "idle", !.cause = c, !.hdr = h, !.touched = b]
<1>1. th[t] \in Thread /\ Untouched(th[t])
  BY DEF Inv, ThreadInv, UntouchedInv
<1>2. Untouched(x)
  BY <1>1 DEF Untouched, Thread
<1>3. th' = [th EXCEPT ![t] = x]
  BY Zenon DEF Respond
<1> QED
  BY <1>2, <1>3, UntouchedUpdate, Zenon

(* A handler still at work denies, goes on to another statement, or looks  *)
(* a row up.                                                               *)
LEMMA DenyUntouched ==
  ASSUME Inv, UntouchedInv, NEW t \in Threads, th[t].pc # "idle", Deny(t)
  PROVE  UntouchedInv'
  BY RespondUntouched DEF Deny

(* A lookup writes nothing. *)
LEMMA LookupUntouched ==
  ASSUME Inv, UntouchedInv, NEW t \in Threads, th[t].pc # "idle",
         NEW rows, NEW at, Lookup(t, rows, at)
  PROVE  UntouchedInv'
<1>1. th[t] \in Thread /\ Untouched(th[t])
  BY DEF Inv, ThreadInv, UntouchedInv
<1>2. ASSUME NEW i \in rows, th' = [th EXCEPT ![t].pc = at, ![t].rec = Copy(i)]
      PROVE  UntouchedInv'
  <2> DEFINE x == [th[t] EXCEPT !.pc = at, !.rec = Copy(i)]
  <2>1. Untouched(x) /\ th' = [th EXCEPT ![t] = x]
    BY <1>1, <1>2, Zenon DEF Untouched, Thread
  <2> QED
    BY <2>1, UntouchedUpdate, Zenon
<1> QED
  BY <1>2, DenyUntouched DEF Lookup

(* Going on to the next statement writes nothing. *)
LEMMA GotoUntouched ==
  ASSUME Inv, UntouchedInv, NEW t \in Threads, th[t].pc # "idle", NEW at, Goto(t, at)
  PROVE  UntouchedInv'
<1> DEFINE x == [th[t] EXCEPT !.pc = at]
<1>1. th[t] \in Thread /\ Untouched(th[t])
  BY DEF Inv, ThreadInv, UntouchedInv
<1>2. Untouched(x) /\ th' = [th EXCEPT ![t] = x]
  BY <1>1 DEF Untouched, Thread, Goto
<1> QED
  BY <1>2, UntouchedUpdate, Zenon

(* Modify alone writes a first statement and goes on: it is left out. *)
LEMMA AfterModifyUntouched ==
  ASSUME Inv, UntouchedInv, NEW t \in Threads, th[t].req.op = "modify",
         NEW ep, NEW b, AfterModify(t, ep, b)
  PROVE  UntouchedInv'
<1> DEFINE x == IF th[t].req.ebi = 0
                THEN [th[t] EXCEPT !.pc = "idle", !.cause = "accepted", !.hdr = ep,
                                   !.rec.ep = ep, !.touched = b]
                ELSE [th[t] EXCEPT !.pc = "ebi", !.rec.ep = ep, !.touched = b]
<1>1. th[t] \in Thread
  BY DEF Inv, ThreadInv
<1>2. x.req = th[t].req
  BY <1>1 DEF Thread
<1>3. Untouched(x)
  BY <1>2 DEF Untouched
<1>4. th' = [th EXCEPT ![t] = x]
  BY DEF AfterModify
<1> QED
  BY <1>3, <1>4, UntouchedUpdate, Zenon

(* Every step of every handler keeps the strengthened invariant. *)
LEMMA UntouchedStep == Inv /\ UntouchedInv /\ [Next]_vars => UntouchedInv'
<1> SUFFICES ASSUME Inv, UntouchedInv, [Next]_vars PROVE UntouchedInv'
  OBVIOUS
<1>1. CASE UNCHANGED vars
  BY <1>1 DEF vars, UntouchedInv, Untouched
<1>2. ASSUME NEW t \in Threads, NEW r \in Requests, Take(t, r)
      PROVE  UntouchedInv'
  <2> DEFINE x == [pc |-> "begin", req |-> r, rec |-> NoRecord,
                   touched |-> FALSE, cause |-> "none", hdr |-> NoEp]
  <2>1. Untouched(x) /\ th' = [th EXCEPT ![t] = x]
    BY <1>2 DEF Take, Untouched
  <2> QED
    BY <2>1, UntouchedUpdate, Zenon
<1>3. ASSUME NEW t \in Threads, Step(t)
      PROVE  UntouchedInv'
  <2>1. CASE Unparsable(t)
    BY <2>1, RespondUntouched, Zenon DEF Unparsable
  <2>2. CASE Malformed(t)
    BY <2>2, DenyUntouched DEF Malformed, At
  <2>3. CASE CreateMsisdn(t)
    BY <2>3, DenyUntouched, GotoUntouched DEF CreateMsisdn, At, Failed
  <2>4. CASE CreateByImsi(t)
    BY <2>4, LookupUntouched, GotoUntouched DEF CreateByImsi, At
  <2>5. CASE CreateByMsisdn(t)
    BY <2>5, LookupUntouched DEF CreateByMsisdn, At
  <2>6. CASE CreateUpdate(t)
    BY <2>6, RespondUntouched, DenyUntouched, Zenon DEF CreateUpdate, At, Accept, Failed
  <2>7. CASE ModifyLookup(t) \/ OtherLookup(t) \/ PdpCreateLookup(t) \/ PdpDeleteLookup(t)
    BY <2>7, LookupUntouched DEF ModifyLookup, OtherLookup, PdpCreateLookup, PdpDeleteLookup, At
  <2>8. CASE ModifyUpdate(t)
    BY <2>8, AfterModifyUntouched, DenyUntouched, Zenon DEF ModifyUpdate, At, Failed
  <2>9. CASE ModifyEbi(t)
    BY <2>9, RespondUntouched, DenyUntouched, Zenon DEF ModifyEbi, At, Accept, Failed
  <2>10. CASE DeleteUpdate(t) \/ SuspendUpdate(t) \/ ResumeUpdate(t) \/ PdpDeleteUpdate(t)
    BY <2>10, RespondUntouched, DenyUntouched, Zenon
       DEF DeleteUpdate, SuspendUpdate, ResumeUpdate, PdpDeleteUpdate, At, Accept, Failed
  <2>11. CASE PdpCreateUpdate(t)
    BY <2>11, RespondUntouched, DenyUntouched, Zenon DEF PdpCreateUpdate, At, Accept, Failed
  <2>12. CASE PdpUpdate(t)
    BY <2>12, RespondUntouched, DenyUntouched, Zenon DEF PdpUpdate, At, Failed
  <2> QED
    BY <1>3, <2>1, <2>2, <2>3, <2>4, <2>5, <2>6, <2>7, <2>8, <2>9, <2>10, <2>11, <2>12 DEF Step
<1> QED
  BY <1>1, <1>2, <1>3 DEF Next

(* A denied Create, Delete, Suspend, Resume or PDP context request changed *)
(* no session column, whichever of its statements failed or found no row,  *)
(* for any number of contracts, requests and interleaved handlers.         *)
THEOREM DenialsChangeNothing == Spec => []DeniedChangedNothing
<1>1. Init => UntouchedInv
  BY SMT DEF Init, UntouchedInv, Untouched
<1>2. UntouchedInv => DeniedChangedNothing
  BY DEF UntouchedInv, Untouched, DeniedChangedNothing
<1> QED
  BY <1>1, <1>2, SpecInv, UntouchedStep, PTL DEF Spec
-----------------------------------------------------------------------------
(* Endpoints and prefix of one request.  A GTPv1 request writes endpoints  *)
(* and leaves the prefix: those of the two versions are assumed to differ. *)
VersionsApart ==
  \A r \in V2Requests, q \in Requests \ V2Requests : r.ep = q.ep => r.ep = NoEp

Paired(row) == row.ep \in {r.ep : r \in V2Requests} \ {NoEp} =>
                 \E r \in V2Requests : r.ep = row.ep /\ r.ebi = row.teid[1]

(* Every thread works for a request that was sent. *)
RequestedInv == \A t \in Threads : th[t].req \in Requests
PairedInv == \A i \in Imsis : Paired(tunnel[i])

(* One thread moves, with a request that was sent. *)
LEMMA RequestedUpdate ==
  ASSUME Inv, RequestedInv, NEW t \in Threads, NEW x, x.req \in Requests, th' = [th EXCEPT ![t] = x]
  PROVE  RequestedInv'
  BY DEF RequestedInv, Inv, ThreadInv

(* The steps of a handler leave its request alone.                         *)
LEMMA RequestKept ==
  ASSUME Inv, RequestedInv, NEW t \in Threads,
         \/ \E c, h, b : Respond(t, c, h, b)
         \/ \E at : Goto(t, at)
         \/ \E at, i : th' = [th EXCEPT ![t].pc = at, ![t].rec = Copy(i)]
         \/ \E ep, b : AfterModify(t, ep, b)
  PROVE  RequestedInv'
<1>1. th[t] \in Thread /\ th[t].req \in Requests
  BY DEF Inv, ThreadInv, RequestedInv
<1>2. ASSUME NEW c, NEW h, NEW b, Respond(t, c, h, b) PROVE RequestedInv'
  <2> DEFINE x == [th[t] EXCEPT !.pc = "idle", !.cause = c, !.hdr = h, !.touched = b]
  <2>1. x.req \in Requests /\ th' = [th EXCEPT ![t] = x]
    BY <1>1, <1>2, Zenon DEF Respond, Thread
  <2> QED
    BY <2>1, RequestedUpdate, Zenon
<1>3. ASSUME NEW at, Goto(t, at) PROVE RequestedInv'
  <2> DEFINE x == [th[t] EXCEPT !.pc = at]
  <2>1. x.req \in Requests /\ th' = [th EXCEPT ![t] = x]
    BY <1>1, <1>3 DEF Goto, Thread
  <2> QED
    BY <2>1, RequestedUpdate, Zenon
<1>4. ASSUME NEW at, NEW i, th' = [th EXCEPT ![t].pc = at, ![t].rec = Copy(i)] PROVE RequestedInv'
  <2> DEFINE x == [th[t] EXCEPT !.pc = at, !.rec = Copy(i)]
  <2>1. x.req \in Requests /\ th' = [th EXCEPT ![t] = x]
    BY <1>1, <1>4, Zenon DEF Thread
  <2> QED
    BY <2>1, RequestedUpdate, Zenon
<1>5. ASSUME NEW ep, NEW b, AfterModify(t, ep, b) PROVE RequestedInv'
  <2> DEFINE x == IF th[t].req.ebi = 0
                  THEN [th[t] EXCEPT !.pc = "idle", !.cause = "accepted", !.hdr = ep,
                                     !.rec.ep = ep, !.touched = b]
                  ELSE [th[t] EXCEPT !.pc = "ebi", !.rec.ep = ep, !.touched = b]
  <2>1. x.req = th[t].req
    BY <1>1 DEF Thread
  <2>2. th' = [th EXCEPT ![t] = x]
    BY <1>5, Zenon DEF AfterModify
  <2> QED
    BY <1>1, <2>1, <2>2, RequestedUpdate, Zenon
<1> QED
  BY <1>2, <1>3, <1>4, <1>5, Zenon

(* Every step keeps the requests. *)
LEMMA RequestedStep == Inv /\ RequestedInv /\ [Next]_vars => RequestedInv'
<1> SUFFICES ASSUME Inv, RequestedInv, [Next]_vars PROVE RequestedInv'
  OBVIOUS
<1>1. CASE UNCHANGED vars
  BY <1>1 DEF vars, RequestedInv
<1>2. ASSUME NEW t \in Threads, NEW r \in Requests, Take(t, r)
      PROVE  RequestedInv'
  <2> DEFINE x == [pc |-> "begin", req |-> r, rec |-> NoRecord,
                   touched |-> FALSE, cause |-> "none", hdr |-> NoEp]
  <2>1. x.req \in Requests /\ th' = [th EXCEPT ![t] = x]
    BY <1>2 DEF Take
  <2> QED
    BY <2>1, RequestedUpdate, Zenon
<1>3. ASSUME NEW t \in Threads, Step(t)
      PROVE  RequestedInv'
  <2>1. ASSUME NEW rows, NEW at, Lookup(t, rows, at) PROVE RequestedInv'
    BY <2>1, RequestKept, Zenon DEF Lookup, Deny
  <2>2. ASSUME Failed(t) PROVE RequestedInv'
    BY <2>2, RequestKept, Zenon DEF Failed, Deny
  <2>3. CASE Unparsable(t) \/ Malformed(t)
    BY <2>3, RequestKept, Zenon DEF Unparsable, Malformed, Deny
  <2>4. CASE CreateMsisdn(t)
    BY <2>2, <2>4, RequestKept, Zenon DEF CreateMsisdn
  <2>5. CASE CreateByImsi(t)
    BY <2>1, <2>5, RequestKept, Zenon DEF CreateByImsi
  <2>6. CASE CreateByMsisdn(t) \/ ModifyLookup(t) \/ OtherLookup(t) \/ PdpCreateLookup(t)
             \/ PdpDeleteLookup(t)
    BY <2>1, <2>6, Zenon
       DEF CreateByMsisdn, ModifyLookup, OtherLookup, PdpCreateLookup, PdpDeleteLookup
  <2>7. CASE CreateUpdate(t) \/ ModifyEbi(t)
    BY <2>2, <2>7, RequestKept, Zenon DEF CreateUpdate, ModifyEbi, Accept
  <2>8. CASE ModifyUpdate(t)
    BY <2>2, <2>8, RequestKept, Zenon DEF ModifyUpdate
  <2>9. CASE DeleteUpdate(t) \/ SuspendUpdate(t) \/ ResumeUpdate(t) \/ PdpDeleteUpdate(t)
    BY <2>2, <2>9, RequestKept, Zenon
       DEF DeleteUpdate, SuspendUpdate, ResumeUpdate, PdpDeleteUpdate, Accept
  <2>10. CASE PdpCreateUpdate(t) \/ PdpUpdate(t)
    BY <2>2, <2>10, RequestKept, Zenon DEF PdpCreateUpdate, PdpUpdate, Accept
  <2> QED
    BY <1>3, <2>3, <2>4, <2>5, <2>6, <2>7, <2>8, <2>9, <2>10, Zenon DEF Step
<1> QED
  BY <1>1, <1>2, <1>3 DEF Next

(* A table whose rows keep endpoints and TEID. *)
LEMMA PairedSame ==
  ASSUME PairedInv, \A i \in Imsis : tunnel'[i].ep = tunnel[i].ep /\ tunnel'[i].teid = tunnel[i].teid
  PROVE  PairedInv'
  BY Zenon DEF PairedInv, Paired

(* One row is written with a pair.                                         *)
LEMMA PairedWrite ==
  ASSUME Inv, PairedInv, NEW j \in Imsis, NEW r, Paired(r), tunnel' = [tunnel EXCEPT ![j] = r]
  PROVE  PairedInv'
  BY DEF PairedInv, Paired, Inv, TableInv

(* A Create or Modify writes a pair.                                       *)
LEMMA PairOfRequest ==
  ASSUME NEW q \in V2Requests, NEW row, row.ep = q.ep, row.teid[1] = q.ebi
  PROVE  Paired(row)
  BY DEF Paired

(* The row of a GTPv1 request is not one of the pairs.                     *)
LEMMA OldVersion ==
  ASSUME VersionsApart, NEW q \in Requests \ V2Requests, NEW row, row.ep = q.ep
  PROVE  Paired(row)
  BY DEF Paired, VersionsApart
(* The statements that write endpoints.                                    *)
LEMMA PairedCreate ==
  ASSUME Inv, RequestedInv, PairedInv, NEW t \in Threads, CreateUpdate(t)
  PROVE  PairedInv'
<1> DEFINE i == th[t].rec.imsi
           r == [tunnel[i] EXCEPT !.active = 1, !.ebi = th[t].req.ebi, !.ep = th[t].req.ep,
                                  !.teid = NewTeid(t)]
<1>1. CASE tunnel' = tunnel
  BY <1>1, PairedSame
<1>2. CASE tunnel' = [tunnel EXCEPT ![i] = r]
  <2>1. th[t].pc = "update" /\ th[t].req.op = "create"
    BY DEF CreateUpdate, At
  <2>2. i \in Imsis /\ tunnel[i] \in Row
    BY <2>1, HeldRecord
  <2>3. th[t].req \in V2Requests
    BY <2>1 DEF RequestedInv, V2Requests
  <2>4. r.ep = th[t].req.ep /\ r.teid[1] = th[t].req.ebi
    BY <2>2 DEF Row, NewTeid
  <2>5. Paired(r)
    BY <2>3, <2>4, PairOfRequest, Zenon
  <2> HIDE DEF r, i
  <2> QED
    BY <1>2, <2>2, <2>5, PairedWrite, Zenon
<1> QED
  BY <1>1, <1>2, Zenon DEF CreateUpdate, Failed

(* Modify writes both, or neither.                                         *)
LEMMA PairedModify ==
  ASSUME Inv, RequestedInv, PairedInv, NEW t \in Threads, ModifyUpdate(t)
  PROVE  PairedInv'
<1> DEFINE i == th[t].rec.imsi
           r == [tunnel[i] EXCEPT !.active = 1, !.ep = th[t].req.ep, !.teid = NewTeid(t)]
<1>0. th[t].pc = "update" /\ th[t].req.op = "modify"
  BY DEF ModifyUpdate, At
<1>1. i \in Imsis /\ tunnel[i] \in Row
  BY <1>0, HeldRecord
<1>2. CASE tunnel' = tunnel
  BY <1>2, PairedSame
<1>3. CASE tunnel' = [tunnel EXCEPT ![i] = r]
  <2>1. th[t].req \in V2Requests
    BY <1>0 DEF RequestedInv, V2Requests
  <2>2. r.ep = th[t].req.ep /\ r.teid[1] = th[t].req.ebi
    BY <1>1 DEF Row, NewTeid
  <2>3. Paired(r)
    BY <2>1, <2>2, PairOfRequest, Zenon
  <2> HIDE DEF r, i
  <2> QED
    BY <1>1, <1>3, <2>3, PairedWrite, Zenon
<1>4. CASE tunnel' = [tunnel EXCEPT ![i].active = 1]
  <2>1. \A j \in Imsis : tunnel'[j].ep = tunnel[j].ep /\ tunnel'[j].teid = tunnel[j].teid
    BY <1>1, <1>4 DEF Inv, TableInv, Row
  <2> QED
    BY <2>1, PairedSame
<1> QED
  BY <1>2, <1>3, <1>4, Zenon DEF ModifyUpdate, Failed

(* The GTPv1 statements write endpoints of the other kind.                 *)
LEMMA PairedPdp ==
  ASSUME VersionsApart, Inv, RequestedInv, PairedInv, NEW t \in Threads,
         PdpCreateUpdate(t) \/ PdpUpdate(t)
  PROVE  PairedInv'
<1> DEFINE i == th[t].rec.imsi
           r == [tunnel[i] EXCEPT !.active = 1, !.ebi = 0, !.ep = th[t].req.ep,
                                  !.teid = th[t].rec.teid]
           s == [tunnel[i] EXCEPT !.active = 1, !.ep = th[t].req.ep]
<1>0. th[t].pc = "update" /\ th[t].req.op \in {"pdp_create", "pdp_update"}
  BY Zenon DEF PdpCreateUpdate, PdpUpdate, At
<1>1. i \in Imsis /\ tunnel[i] \in Row
  BY <1>0, HeldRecord
<1>2. th[t].req \in Requests \ V2Requests
  BY <1>0 DEF RequestedInv, V2Requests
<1>3. r.ep = th[t].req.ep /\ s.ep = th[t].req.ep
  BY <1>1 DEF Row
<1>4. Paired(r) /\ Paired(s)
  BY <1>2, <1>3, OldVersion, Zenon
<1>5. CASE tunnel' = tunnel
  BY <1>5, PairedSame
<1>6. tunnel' = tunnel \/ tunnel' = [tunnel EXCEPT ![i] = r] \/ tunnel' = [tunnel EXCEPT ![i] = s]
  BY Zenon DEF PdpCreateUpdate, PdpUpdate, Failed
<1> HIDE DEF r, s, i
<1> QED
  BY <1>1, <1>4, <1>5, <1>6, PairedWrite

(* Every step keeps the pairs.                                             *)
LEMMA PairedStep == VersionsApart /\ Inv /\ RequestedInv /\ PairedInv /\ [Next]_vars => PairedInv'
<1> SUFFICES ASSUME VersionsApart, Inv, RequestedInv, PairedInv, [Next]_vars PROVE PairedInv'
  OBVIOUS
<1>0. \A i \in Imsis : tunnel[i] \in Row
  BY DEF Inv, TableInv
<1>1. CASE tunnel' = tunnel
  BY <1>1, PairedSame
<1>2. ASSUME NEW t \in Threads, Step(t) PROVE PairedInv'
  <2>1. CASE CreateMsisdn(t)
    <3>1. \A j \in Imsis : tunnel'[j].ep = tunnel[j].ep /\ tunnel'[j].teid = tunnel[j].teid
      BY <1>0, <2>1, ZenonT(30) DEF CreateMsisdn, Failed, Row
    <3> QED
      BY <3>1, PairedSame
  <2>2. CASE ModifyEbi(t)
    <3>1. \A j \in Imsis : tunnel'[j].ep = tunnel[j].ep /\ tunnel'[j].teid = tunnel[j].teid
      BY <1>0, <2>2, SMT DEF ModifyEbi, Failed, Row, Inv, TableInv
    <3> QED
      BY <3>1, PairedSame
  <2>3. CASE DeleteUpdate(t) \/ SuspendUpdate(t) \/ PdpDeleteUpdate(t)
    <3>1. CASE \E rows : Deactivate(rows)
      <4>1. \A j \in Imsis : tunnel'[j].ep = tunnel[j].ep /\ tunnel'[j].teid = tunnel[j].teid
        BY <1>0, <3>1 DEF Deactivate, Row
      <4> QED
        BY <4>1, PairedSame
    <3> QED
      BY <1>1, <2>3, <3>1, Zenon DEF DeleteUpdate, SuspendUpdate, PdpDeleteUpdate, Failed
  <2>4. CASE ResumeUpdate(t)
    <3>1. \A j \in Imsis : tunnel'[j].ep = tunnel[j].ep /\ tunnel'[j].teid = tunnel[j].teid
      BY <1>0, <2>4, SMT DEF ResumeUpdate, Failed, Row
    <3> QED
      BY <3>1, PairedSame
  <2>5. CASE CreateUpdate(t)
    BY <2>5, PairedCreate
  <2>6. CASE ModifyUpdate(t)
    BY <2>6, PairedModify
  <2>7. CASE PdpCreateUpdate(t) \/ PdpUpdate(t)
    BY <2>7, PairedPdp
  <2>8. CASE \/ Unparsable(t) \/ Malformed(t) \/ CreateByImsi(t) \/ CreateByMsisdn(t)
             \/ ModifyLookup(t) \/ OtherLookup(t) \/ PdpCreateLookup(t) \/ PdpDeleteLookup(t)
    BY <1>1, <2>8, Zenon
       DEF Unparsable, Malformed, CreateByImsi, CreateByMsisdn, ModifyLookup, OtherLookup,
           PdpCreateLookup, PdpDeleteLookup, Lookup
  <2> QED
    BY <1>2, <2>1, <2>2, <2>3, <2>4, <2>5, <2>6, <2>7, <2>8, Zenon DEF Step
<1>3. ASSUME NEW t \in Threads, NEW r \in Requests, Take(t, r) PROVE PairedInv'
  BY <1>1, <1>3, Zenon DEF Take
<1> QED
  BY <1>1, <1>2, <1>3 DEF Next, vars

(* The SGW endpoints of a row and the prefix of its PGW TEID are always of *)
(* one Create or Modify, however these interleave on copies of the row     *)
(* that are out of date, for any contracts, bearers and requests (the      *)
(* UPDATE of event_gtpc_create_session_request and modify_bearer_request   *)
(* writes both columns).                                                   *)
THEOREM EndpointsStayPaired == ASSUME VersionsApart PROVE Spec => []EndpointsPaired
<1>1. Init => RequestedInv
  BY RequestsAssumption, SMT DEF Init, RequestedInv
<1>2. Init => PairedInv
  BY SMT DEF Init, PairedInv, Paired
<1>3. PairedInv => EndpointsPaired
  BY DEF PairedInv, Paired, EndpointsPaired
<1>4. Inv /\ RequestedInv /\ PairedInv /\ [Next]_vars => PairedInv'
  BY PairedStep
<1> QED
  BY <1>1, <1>2, <1>3, <1>4, SpecInv, RequestedStep, PTL DEF Spec
=============================================================================
