---------------------------- MODULE PeersProofs -----------------------------
(***************************************************************************)
(* The proofs about the parts that deal with peers and share no state: the *)
(* SGWs that restart, the life monitoring, the proxy and the BFD manager.  *)
(***************************************************************************)
EXTENDS SgwRestart, Keepalive, Proxy, Bfd, SequenceTheorems, TLAPS

(* Most steps need no arithmetic: Zenon is tried first, and SMT where it   *)
(* fails.                                                                  *)
USE Zenon, SMT

(***************************************************************************)
(* That an echo ends only sessions from before the last restart of their   *)
(* SGW, for any SGWs, contracts and burst size.                            *)
(*                                                                         *)
(* Two assumptions of the code are needed: every message carries a         *)
(* Recovery element, and the counter does not wrap.  Then the counter of   *)
(* an echo, however late, is at most the number of restarts of its sender, *)
(* and that of a row is the incarnation that asked for the session.        *)
(***************************************************************************)
Regular == RecoveryAlways /\ MaxRestart < Wrap

(* Echoes that their sender can have sent by now. *)
Announced == {e \in [from : Sgws, rc : Counters] : e.rc <= restarts[e.from]}
Asked == {c \in [imsi : Imsis, from : Sgws, rc : Counters, born : Nat] : c.rc = c.born}
SessionRow == {r \in [sgw : Sgws, rc : Counters, active : {0, 1}, born : Nat] : r.rc = r.born}

RestartInv ==
  /\ restarts \in [Sgws -> 0 .. MaxRestart]
  /\ ring \in Seq(Announced)
  /\ burst \in Seq(Announced)
  /\ creates \subseteq Asked
  /\ row \in [Imsis -> SessionRow]

-----------------------------------------------------------------------------
(* Without a wrap the counter is the number of restarts.                   *)
LEMMA CountIsRestarts ==
  ASSUME Regular, restarts \in [Sgws -> 0 .. MaxRestart], NEW s \in Sgws
  PROVE  /\ Recovery(s) = {restarts[s]}
         /\ restarts[s] \in Counters /\ restarts[s] # None
<1>1. restarts[s] \in Nat /\ restarts[s] < Wrap /\ Wrap \in Nat \ {0}
  BY WrapAssumption, BoundAssumption, SMT DEF Regular
<1>2. restarts[s] % Wrap = restarts[s]
  BY <1>1
<1>3. restarts[s] \in Counters
  BY <1>1 DEF Counters
<1> QED
  BY <1>2, <1>3, WrapAssumption DEF Recovery, Count, Regular

(* Echoes on their way stay announced when an SGW restarts.                *)
LEMMA AnnouncedGrows ==
  ASSUME restarts \in [Sgws -> 0 .. MaxRestart], restarts' \in [Sgws -> 0 .. MaxRestart],
         \A s \in Sgws : restarts[s] <= restarts'[s], NEW q \in Seq(Announced)
  PROVE  q \in Seq(Announced')
<1>1. \A e \in Announced : e \in Announced'
  <2> SUFFICES ASSUME NEW e \in Announced PROVE e \in Announced'
    OBVIOUS
  <2>1. e.from \in Sgws /\ e.rc \in Counters /\ e.rc <= restarts[e.from]
    BY DEF Announced
  <2>2. e.rc <= restarts'[e.from]
    BY <2>1, WrapAssumption, BoundAssumption DEF Counters
  <2> QED
    BY <2>2 DEF Announced
<1> QED
  BY <1>1

(* The provisioned tables satisfy the invariant. *)
LEMMA RestartInvInit == RestartInit => RestartInv
<1> SUFFICES ASSUME RestartInit PROVE RestartInv
  OBVIOUS
<1>1. 0 \in Counters /\ 0 \in 0 .. MaxRestart
  BY WrapAssumption, BoundAssumption DEF Counters
<1>2. row \in [Imsis -> SessionRow]
  BY <1>1, SMT DEF RestartInit, SessionRow
<1> QED
  BY <1>1, <1>2 DEF RestartInit, RestartInv

(* The packet that event_gtpc_echo_req works on.                           *)
LEMMA EchoStep ==
  ASSUME RestartInv, EchoRequest
  PROVE  /\ Head(burst) \in Announced
         /\ counter' = Head(burst).rc
         /\ counter' # None
         /\ Observer(Head(burst).from, Head(burst).rc)
<1>1. Head(burst) \in Announced
  BY SMT DEF RestartInv, EchoRequest
<1>2. Head(burst).rc # None
  BY <1>1, WrapAssumption DEF Announced
<1> QED
  BY <1>1, <1>2 DEF EchoRequest, Heard

(* Ending the sessions below a counter keeps the types of the rows. *)
LEMMA EndBelowType ==
  ASSUME row \in [Imsis -> SessionRow], NEW s, NEW rc, EndBelow(s, rc)
  PROVE  row' \in [Imsis -> SessionRow]
<1>1. \A i \in Imsis : [row[i] EXCEPT !.active = 0] \in SessionRow
  BY DEF SessionRow
<1> QED
  BY <1>1 DEF EndBelow

(* Every step of the SGW, the PGW and the message in flight keeps the invariant. *)
LEMMA RestartInvStep == Regular /\ RestartInv /\ [RestartNext]_restartVars => RestartInv'
<1> SUFFICES ASSUME Regular, RestartInv, [RestartNext]_restartVars PROVE RestartInv'
  OBVIOUS
<1> USE DEF RestartInv
<1>1. ASSUME NEW s \in Sgws, Restart(s) PROVE RestartInv'
  <2>1. restarts' \in [Sgws -> 0 .. MaxRestart] /\ \A x \in Sgws : restarts[x] <= restarts'[x]
    BY <1>1, BoundAssumption DEF Restart
  <2> QED
    BY <1>1, <2>1, AnnouncedGrows DEF Restart, Asked, SessionRow
<1>2. ASSUME NEW s \in Sgws, SendEcho(s) PROVE RestartInv'
  <2>1. ring' = Append(ring, [from |-> s, rc |-> restarts[s]])
    BY <1>2, CountIsRestarts DEF SendEcho
  <2>2. [from |-> s, rc |-> restarts[s]] \in Announced
    BY CountIsRestarts, BoundAssumption, SMT DEF Announced
  <2>3. ring' \in Seq(Announced)
    BY <2>1, <2>2
  <2>4. Announced' = Announced
    BY <1>2 DEF SendEcho, Announced
  <2> QED
    BY <1>2, <2>3, <2>4 DEF SendEcho, Asked, SessionRow
<1>3. ASSUME NEW s \in Sgws, NEW i \in Imsis, SendCreate(s, i) PROVE RestartInv'
  <2>1. creates' = creates \cup {[imsi |-> i, from |-> s, rc |-> restarts[s], born |-> restarts[s]]}
    BY <1>3, CountIsRestarts DEF SendCreate
  <2>2. restarts[s] \in Counters /\ restarts[s] \in Nat
    BY CountIsRestarts, BoundAssumption, SMT
  <2>3. [imsi |-> i, from |-> s, rc |-> restarts[s], born |-> restarts[s]] \in Asked
    BY <2>2 DEF Asked
  <2>4. Announced' = Announced
    BY <1>3 DEF SendCreate, Announced
  <2> QED
    BY <1>3, <2>1, <2>3, <2>4 DEF SendCreate
<1>4. ASSUME NEW c \in creates, StoreSession(c) PROVE RestartInv'
  <2>1. c \in Asked /\ c.imsi \in Imsis /\ c.rc # None
    BY WrapAssumption DEF Asked
  <2> DEFINE r == [sgw |-> c.from, rc |-> c.rc, active |-> 1, born |-> c.born]
  <2>2. row' = [row EXCEPT ![c.imsi] = r]
    BY <1>4, <2>1 DEF StoreSession
  <2>3. r \in SessionRow
    BY <2>1 DEF Asked, SessionRow
  <2>4. row' \in [Imsis -> SessionRow]
    BY <2>1, <2>2, <2>3
  <2>5. Announced' = Announced
    BY <1>4 DEF StoreSession, Announced
  <2> QED
    BY <1>4, <2>4, <2>5 DEF StoreSession
<1>5. CASE EchoDeq
  <2> DEFINE n == IF Len(ring) < Burst THEN Len(ring) ELSE Burst
  <2>1. n \in Nat /\ n <= Len(ring) /\ Len(ring) \in Nat
    BY BurstAssumption, SMT
  <2>2. SubSeq(ring, 1, n) \in Seq(Announced) /\ SubSeq(ring, n + 1, Len(ring)) \in Seq(Announced)
    BY <2>1
  <2>3. ring' \in Seq(Announced) /\ burst' \in Seq(Announced)
    BY <1>5, <2>2 DEF EchoDeq
  <2>4. Announced' = Announced
    BY <1>5 DEF EchoDeq, Announced
  <2> QED
    BY <1>5, <2>3, <2>4 DEF EchoDeq
<1>6. CASE EchoRequest
  <2>1. burst' \in Seq(Announced)
    BY <1>6 DEF EchoRequest
  <2>2. row' \in [Imsis -> SessionRow]
    BY <1>6, EchoStep, EndBelowType DEF Observer, EndSessions
  <2>3. Announced' = Announced
    BY <1>6 DEF EchoRequest, Announced
  <2> QED
    BY <1>6, <2>1, <2>2, <2>3 DEF EchoRequest
<1>7. CASE UNCHANGED restartVars
  <2>1. Announced' = Announced
    BY <1>7 DEF restartVars, Announced
  <2> QED
    BY <1>7, <2>1 DEF restartVars
<1> QED
  BY <1>1, <1>2, <1>3, <1>4, <1>5, <1>6, <1>7 DEF RestartNext

-----------------------------------------------------------------------------
(* What one echo may end.                                                  *)
LEMMA FreshStep ==
  ASSUME RestartInv, RestartNext, NEW i \in Imsis,
         row[i].active = 1, row'[i].active = 0
  PROVE  row[i].born < restarts[row[i].sgw]
<1>1. CASE EchoRequest
  <2> DEFINE e == Head(burst)
  <2>1. e \in Announced /\ Observer(e.from, e.rc)
    BY <1>1, EchoStep
  <2>2. EndBelow(e.from, e.rc)
    BY <2>1 DEF Observer, EndSessions
  <2>3. row[i].sgw = e.from /\ row[i].rc < e.rc
    BY <2>2 DEF EndBelow
  <2>4. row[i].born = row[i].rc /\ row[i].rc \in Counters
    BY DEF RestartInv, SessionRow
  <2>5. e.rc \in Counters /\ e.from \in Sgws /\ e.rc <= restarts[e.from]
    BY <2>1 DEF Announced
  <2> QED
    BY <2>3, <2>4, <2>5, WrapAssumption, BoundAssumption, SMT DEF RestartInv, Counters
<1>2. ASSUME NEW c \in creates, StoreSession(c) PROVE FALSE
  <2>1. c.imsi \in Imsis
    BY DEF RestartInv, Asked
  <2> QED
    BY <1>2, <2>1, SMT DEF StoreSession, RestartInv
<1>3. CASE UNCHANGED row
  BY <1>3
<1> QED
  BY <1>1, <1>2, <1>3 DEF RestartNext, Restart, SendEcho, SendCreate, EchoDeq

(* While every message carries a Recovery element and no counter has       *)
(* wrapped, an echo never ends a session that its SGW knows, however late  *)
(* it is handled and whatever else is in its burst (event_gtpc_echo_req,   *)
(* _observer_sgw_peers).                                                   *)
THEOREM FreshSessionsSurvive == ASSUME Regular PROVE RestartSpec => FreshSurvives
<1> DEFINE KeptFresh == burst # <<>> /\ burst' = Tail(burst) =>
             \A i \in Imsis : row[i].active = 1 /\ row'[i].active = 0
                                => row[i].born < restarts[row[i].sgw]
<1>1. RestartInv /\ [RestartNext]_restartVars => RestartInv'
  BY RestartInvStep
<1>2. RestartInv /\ [RestartNext]_restartVars => [KeptFresh]_restartVars
  BY FreshStep
<1> QED
  BY RestartInvInit, <1>1, <1>2, PTL DEF RestartSpec, FreshSurvives

-----------------------------------------------------------------------------
(***************************************************************************)
(* That a row is shown as alive only after its peer has answered, for any  *)
(* rows.  Three threads write the status; it has to be followed from the   *)
(* peer's answer over the ring of the echo node to the row.                *)
(***************************************************************************)
(* An Echo Response on the ring is of a peer that has answered. *)
AnsweredInv == KeepaliveTypeOK /\ ingress \subseteq answered /\ OkMeansAnswered

(* Both status statements give known values.                               *)
LEMMA MarkType ==
  ASSUME stat \in [Rows -> Stats], age \in [Rows -> 0 .. Due],
         NEW rows, NEW s \in Stats, Mark(rows, s)
  PROVE  stat' \in [Rows -> Stats] /\ age' \in [Rows -> 0 .. Due]
  BY DueAssumption, SMT DEF Mark

(* Only the mark OK needs an answer.                                       *)
LEMMA MarkKeeps ==
  ASSUME stat \in [Rows -> Stats], OkMeansAnswered, NEW rows, NEW s \in Stats, Mark(rows, s),
         s = "OK" => rows \subseteq answered, answered \subseteq answered'
  PROVE  OkMeansAnswered'
  BY DEF Mark, OkMeansAnswered

(* The provisioned rows satisfy the invariant. *)
LEMMA AnsweredInit == KeepaliveInit => AnsweredInv
  BY DueAssumption, SMT
  DEF KeepaliveInit, AnsweredInv, KeepaliveTypeOK, OkMeansAnswered, Stats

(* Every step of the PGWs, the peers and the network keeps the invariant. *)
LEMMA AnsweredStep == AnsweredInv /\ [KeepaliveNext]_keepaliveVars => AnsweredInv'
<1> SUFFICES ASSUME AnsweredInv, [KeepaliveNext]_keepaliveVars PROVE AnsweredInv'
  OBVIOUS
<1> USE DEF AnsweredInv, KeepaliveTypeOK
<1>1. CASE Second
  <2>1. age' \in [Rows -> 0 .. Due]
    BY <1>1, DueAssumption, SMT DEF Second
  <2> QED
    BY <1>1, <2>1 DEF Second, OkMeansAnswered
<1>2. CASE TimerSelect
  BY <1>2 DEF TimerSelect, OkMeansAnswered
<1>3. ASSUME NEW r \in Rows, TimerWait(r) PROVE AnsweredInv'
  <2>1. Mark({r}, "WAIT") /\ "WAIT" \in Stats
    BY <1>3 DEF TimerWait, Stats
  <2> QED
    BY <1>3, <2>1, MarkType, MarkKeeps DEF TimerWait
<1>4. CASE TimerEnd
  BY <1>4 DEF TimerEnd, OkMeansAnswered
<1>5. ASSUME NEW r \in Rows, TxSend(r) PROVE AnsweredInv'
  <2>1. CASE Mark(BadSrc, "ERR") /\ UNCHANGED net
    <3>1. "ERR" \in Stats
      BY DEF Stats
    <3> QED
      BY <1>5, <2>1, <3>1, MarkType, MarkKeeps DEF TxSend
  <2>2. CASE UNCHANGED <<stat, age>>
    BY <1>5, <2>2 DEF TxSend, OkMeansAnswered
  <2> QED
    BY <1>5, <2>1, <2>2 DEF TxSend
<1>6. ASSUME NEW r \in Rows, PeerAnswer(r) PROVE AnsweredInv'
  BY <1>6 DEF PeerAnswer, OkMeansAnswered
<1>7. ASSUME NEW r \in Rows, EchoResponse(r) PROVE AnsweredInv'
  <2>1. Mark({r}, "OK") /\ "OK" \in Stats /\ {r} \subseteq answered
    BY <1>7 DEF EchoResponse, Stats
  <2> QED
    BY <1>7, <2>1, MarkType, MarkKeeps DEF EchoResponse
<1>8. CASE UNCHANGED keepaliveVars
  BY <1>8 DEF keepaliveVars, OkMeansAnswered
<1> QED
  BY <1>1, <1>2, <1>3, <1>4, <1>5, <1>6, <1>7, <1>8 DEF KeepaliveNext, Timer

(* A peer that has never answered is never shown as alive, however the     *)
(* timer, the TX node and the echo nodes interleave (event_timer,          *)
(* event_tx, event_gtpc_echo_req).                                         *)
THEOREM OkRowsAnswered == KeepaliveSpec => []OkMeansAnswered
<1>1. AnsweredInv => OkMeansAnswered
  BY DEF AnsweredInv
<1> QED
  BY AnsweredInit, AnsweredStep, <1>1, PTL DEF KeepaliveSpec

-----------------------------------------------------------------------------
(***************************************************************************)
(* That the proxy sends an answer to the SGW that asked, for any SGWs,     *)
(* subscribers, sequence numbers and routing tables.                       *)
(*                                                                         *)
(* The proxy keeps the first sender of a key for ever.  This does no harm  *)
(* because every session, request and answer holds a TEID of the SGW it    *)
(* names, and SGWs do not share TEIDs.  A request without a TEID, for      *)
(* which the proxy keeps what its stack held, is excluded.                 *)
(***************************************************************************)
OwnRequests == {r \in Requests : Own(r)}
Datagrams == OwnRequests \cup Others
Replies == [kind : {"create"}, req : OwnRequests] \cup [kind : Kinds]
Returned == {d \in [to : Senders, req : OwnRequests] : d.to = d.req.sgw}

ProxyInv ==
  /\ extq \in Seq(Datagrams)
  /\ intq \in Seq(Replies)
  /\ atPgw \subseteq OwnRequests
  /\ \A k \in DOMAIN session : session[k] \in Senders /\ k[2] \in TeidsOf[session[k]]
  /\ delivered \subseteq Returned

-----------------------------------------------------------------------------
(* What is left of a queue are datagrams of the queue.                     *)
LEMMA LeftType ==
  ASSUME NEW S, NEW q \in Seq(S), q # <<>>, NEW kind
  PROVE  Left(q, kind) \in Seq(S)
<1>1. Tail(q) \in Seq(S)
  OBVIOUS
<1>2. ASSUME Tail(q) = <<>> PROVE ~(Len(q) > 1)
  <2>1. Len(Tail(q)) = 0
    BY <1>2, EmptySeq, Zenon
  <2>2. Len(Tail(q)) = Len(q) - 1 /\ Len(q) \in Nat
    BY HeadTailProperties, LenProperties
  <2> QED
    BY <2>1, <2>2
<1>3. Tail(IF Len(q) > 1 THEN Tail(q) ELSE q) \in Seq(S)
  BY <1>1, <1>2
<1> QED
  BY <1>1, <1>3 DEF Left

(* What is parsed from a datagram is a request of its sender.              *)
LEMMA ParsedIsOwn ==
  ASSUME "noteid" \notin Kinds, NEW d \in Datagrams, NEW r \in ParseImsi(d)
  PROVE  r \in OwnRequests
<1>1. CASE d \in OwnRequests
  <2>1. d.kind = "create"
    BY <1>1 DEF OwnRequests, Requests
  <2> QED
    BY <1>1, <2>1 DEF ParseImsi
<1>2. CASE d \in Others
  <2>1. d.kind \notin {"create", "noteid"}
    BY <1>2, KindAssumption DEF Others
  <2> QED
    BY <2>1 DEF ParseImsi, SentBy, OwnRequests
<1> QED
  BY <1>1, <1>2 DEF Datagrams

(* A session is kept under a TEID of the SGW it names.                     *)
LEMMA SessionOwn ==
  ASSUME ProxyInv, NEW r \in OwnRequests, session' = SetSession(r)
  PROVE  \A k \in DOMAIN session' : session'[k] \in Senders /\ k[2] \in TeidsOf[session'[k]]
<1>1. r.sgw \in Senders /\ SessionKey(r)[2] \in TeidsOf[r.sgw]
  BY DEF OwnRequests, Requests, Own, SessionKey
<1> QED
  BY <1>1 DEF ProxyInv, SetSession, RouteSession

(* The session that an answer finds is one of the SGW that asked.          *)
LEMMA DeliveredIsReturned ==
  ASSUME ProxyInv, NEW r \in Replies, Delivers(r)
  PROVE  delivered' \subseteq Returned
<1>1. CASE r.kind = "create" /\ SessionKey(r.req) \in DOMAIN session
  <2> DEFINE k == SessionKey(r.req)
             d == [to |-> session[k], req |-> r.req]
  <2>1. r.req \in OwnRequests
    BY <1>1, KindAssumption DEF Replies
  <2>2. k[2] \in TeidsOf[r.req.sgw] /\ r.req.sgw \in Senders
    BY <2>1 DEF OwnRequests, Requests, Own, SessionKey
  <2>3. session[k] \in Senders /\ k[2] \in TeidsOf[session[k]]
    BY <1>1 DEF ProxyInv
  <2>4. session[k] = r.req.sgw
    BY <2>2, <2>3, TeidsApart
  <2>5. d \in Returned
    BY <2>1, <2>3, <2>4 DEF Returned
  <2> QED
    BY <1>1, <2>5 DEF Delivers, ProxyInv
<1> QED
  BY <1>1 DEF Delivers, ProxyInv

-----------------------------------------------------------------------------
(* The freshly started proxy satisfies the invariant. *)
LEMMA ProxyInvInit == ProxyInit => ProxyInv
  BY DEF ProxyInit, ProxyInv

(* The datagrams that arrive are well formed.                              *)
LEMMA WorldStep == ProxyInv /\ World => ProxyInv'
<1> SUFFICES ASSUME ProxyInv, World PROVE ProxyInv'
  OBVIOUS
<1> USE DEF ProxyInv
<1>1. CASE SgwSends
  <2>1. PICK d \in OwnRequests \cup Others : extq' = Append(extq, d)
    BY <1>1 DEF SgwSends, OwnRequests
  <2>2. extq' \in Seq(Datagrams)
    BY <2>1 DEF Datagrams
  <2> QED
    BY <1>1, <2>2 DEF SgwSends, Counted
<1>2. CASE StatsAsked
  BY <1>2 DEF StatsAsked, Counted
<1>3. CASE PgwSends
  <2>1. PICK k \in Kinds : intq' = Append(intq, [kind |-> k])
    BY <1>3 DEF PgwSends
  <2>2. intq' \in Seq(Replies)
    BY <2>1 DEF Replies
  <2> QED
    BY <1>3, <2>2 DEF PgwSends, Counted
<1>4. CASE PgwAnswers
  <2>1. PICK r \in atPgw : /\ intq' \in {intq, Append(intq, [kind |-> "create", req |-> r])}
                           /\ atPgw' = atPgw \ {r}
    BY <1>4, Zenon DEF PgwAnswers
  <2>2. [kind |-> "create", req |-> r] \in Replies
    BY <2>1, Zenon DEF Replies
  <2>3. intq' \in Seq(Replies)
    BY <2>1, <2>2
  <2> QED
    BY <1>4, <2>1, <2>3 DEF PgwAnswers
<1>5. CASE TableChanges
  BY <1>5 DEF TableChanges, queues
<1>6. CASE Signal
  BY <1>6 DEF Signal, queues
<1> QED
  BY <1>1, <1>2, <1>3, <1>4, <1>5, <1>6 DEF World

(* One turn of the receive loop keeps the invariant. *)
LEMMA LoopStep == "noteid" \notin Kinds /\ ProxyInv /\ Loop => ProxyInv'
<1> SUFFICES ASSUME "noteid" \notin Kinds, ProxyInv, Loop PROVE ProxyInv'
  OBVIOUS
<1> USE DEF ProxyInv
<1>1. CASE OnRecieveExt /\ extq # <<>>
  <2> DEFINE d == Head(extq)
  <2>1. d \in Datagrams
    BY <1>1
  <2>2. extq' = Left(extq, d.kind)
    BY <1>1, Zenon DEF OnRecieveExt
  <2>3. extq' \in Seq(Datagrams)
    BY <1>1, <2>2, LeftType, Zenon
  <2>4. \/ UNCHANGED <<session, atPgw>>
        \/ \E r \in ParseImsi(d) : Forwarded(r, IF d.kind = "noteid" THEN {} ELSE {r})
    BY <1>1, Zenon DEF OnRecieveExt
  <2>5. ASSUME NEW r \in ParseImsi(d), Forwarded(r, IF d.kind = "noteid" THEN {} ELSE {r})
        PROVE  /\ atPgw' \subseteq OwnRequests
               /\ \A k \in DOMAIN session' : session'[k] \in Senders /\ k[2] \in TeidsOf[session'[k]]
    <3>1. r \in OwnRequests
      BY <2>1, <2>5, ParsedIsOwn
    <3>2. atPgw' \subseteq OwnRequests
      BY <2>5, <3>1 DEF Forwarded
    <3> QED
      BY <2>5, <3>1, <3>2, SessionOwn DEF Forwarded
  <2> QED
    BY <1>1, <2>3, <2>4, <2>5, Zenon DEF OnRecieveExt
<1>2. CASE OnRecieveExt /\ extq = <<>>
  BY <1>2, Zenon DEF OnRecieveExt
<1>3. CASE OnRecieveInt /\ intq # <<>>
  <2>1. intq' = Left(intq, Head(intq).kind) /\ Delivers(Head(intq))
    BY <1>3 DEF OnRecieveInt
  <2>2. intq' \in Seq(Replies) /\ Head(intq) \in Replies
    BY <1>3, <2>1, LeftType
  <2>3. delivered' \subseteq Returned
    BY <2>1, <2>2, DeliveredIsReturned
  <2> QED
    BY <1>3, <2>2, <2>3 DEF OnRecieveInt
<1>4. CASE OnRecieveInt /\ intq = <<>>
  BY <1>4, Zenon DEF OnRecieveInt
<1>5. CASE OnRecieveStats
  BY <1>5 DEF OnRecieveStats
<1>6. CASE OnTimeOut
  BY <1>6 DEF OnTimeOut, queues
<1>7. CASE ReloadDone
  BY <1>7 DEF ReloadDone, queues
<1> QED
  BY <1>1, <1>2, <1>3, <1>4, <1>5, <1>6, <1>7 DEF Loop

-----------------------------------------------------------------------------
(* Every answer the proxy hands on goes to the SGW whose request it        *)
(* answers, although sessions are never removed or replaced (SetSession,   *)
(* FindSessionBySeqnoTeid), provided that every request carries a TEID.    *)
THEOREM AnswersReturn == ASSUME "noteid" \notin Kinds PROVE ProxySpec => []AnswerReturns
<1>1. ProxyInv /\ [ProxyNext]_proxyVars => ProxyInv'
  <2> SUFFICES ASSUME ProxyInv, UNCHANGED proxyVars PROVE ProxyInv'
    BY WorldStep, LoopStep DEF ProxyNext
  <2> QED
    BY DEF proxyVars, queues, ProxyInv
<1>2. ProxyInv => AnswerReturns
  BY DEF ProxyInv, Returned, AnswerReturns
<1> QED
  BY ProxyInvInit, <1>1, <1>2, PTL DEF ProxySpec

-----------------------------------------------------------------------------
(***************************************************************************)
(* That a session comes up only with a peer that has heard the manager,    *)
(* for any number of restarts of either side.                              *)
(*                                                                         *)
(* The claim is about a step; it needs to know what a packet says of its   *)
(* sender, at whatever time it arrives.                                    *)
(***************************************************************************)
Hears(state) == state \in {"Init", "Up"}

(* The peer that is in Init or Up has heard the manager, and so has the    *)
(* one that says so in the packet on the wire, even if it has restarted.   *)
HearsInv ==
  /\ Hears(peer.state) => peer.boot \in heard
  /\ toManager # NoPacket => (Hears(toManager.state) => toManager.my \in heard)

BfdInv == BfdTypeOK /\ HearsInv

-----------------------------------------------------------------------------
(* The manager comes up only on a packet with state Init or Up.            *)
LEMMA UpNeedsHearing ==
  ASSUME NEW s, NEW r, s # "Up", NextState(s, r) = "Up"
  PROVE  Hears(r)
  BY DEF NextState, Hears

(* A session that bfd_manager creates is well formed. *)
LEMMA NewSessionType == NewSession \in Session
  BY BootsAssumption DEF NewSession, Session, BfdStates, Discriminators

(* A packet of the manager is well formed.                                 *)
LEMMA TransmitType ==
  ASSUME toPeer \in Packet \cup {NoPacket}, NEW s \in Session, TransmitUnsafe(s)
  PROVE  toPeer' \in Packet \cup {NoPacket}
<1> DEFINE state == IF s.local # 0 THEN s.state ELSE "Down"
<1>1. state \in BfdStates
  BY DEF Session, BfdStates
<1>2. [state |-> state, my |-> s.local, your |-> s.remote, minRx |-> 1,
       poll |-> FALSE, final |-> s.pollbitOn] \in Packet
  BY <1>1 DEF Session, Packet
<1> QED
  BY <1>2 DEF TransmitUnsafe

(* A session updated from a well formed packet is well formed. *)
LEMMA UpdateType ==
  ASSUME NEW s \in Session, NEW m \in Packet
  PROVE  Update(s, m) \in Session
<1>1. NextState(s.state, m.state) \in BfdStates \ {"Admin"}
  BY DEF NextState, BfdStates
<1>2. 1 \in Discriminators /\ 0 \in Discriminators
  BY BootsAssumption DEF Discriminators
<1> QED
  BY <1>1, <1>2 DEF Update, Session, Packet

(* on_bfd_recieve keeps the session and the packet to the peer well formed. *)
LEMMA ReceiveType ==
  ASSUME BfdTypeOK, NEW m \in Packet, OnBfdReceive(m)
  PROVE  /\ sess' \in Session
         /\ toPeer' \in Packet \cup {NoPacket}
<1>1. CASE /\ sess' = [NewSession EXCEPT !.remote = m.my, !.local = m.your]
           /\ TransmitUnsafe(sess')
  <2>1. sess' \in Session
    BY <1>1, NewSessionType, Zenon DEF Session, Packet
  <2> QED
    BY <1>1, <2>1, TransmitType DEF BfdTypeOK
<1>2. CASE /\ sess' = Update(IF sess = NoSession THEN NewSession ELSE sess, m)
           /\ IF m.poll THEN TransmitUnsafe(sess') ELSE UNCHANGED toPeer
  <2>1. sess' \in Session
    BY <1>2, NewSessionType, UpdateType DEF BfdTypeOK
  <2> QED
    BY <1>2, <2>1, TransmitType DEF BfdTypeOK
<1> QED
  BY <1>1, <1>2 DEF OnBfdReceive

-----------------------------------------------------------------------------
(* Before any packet the invariant holds. *)
LEMMA BfdInvInit == BfdInit => BfdInv
  BY BootsAssumption DEF BfdInit, BfdInv, BfdTypeOK, HearsInv, Hears, BfdStates, Discriminators

(* Every step of the manager, the peer or the wires keeps the invariant. *)
LEMMA BfdInvStep == BfdInv /\ [BfdNext]_bfdVars => BfdInv'
<1> SUFFICES ASSUME BfdInv, [BfdNext]_bfdVars PROVE BfdInv'
  OBVIOUS
<1> USE DEF BfdInv
<1>1. CASE ToManagerArrives
  <2>1. toManager \in Packet /\ OnBfdReceive(toManager)
    BY <1>1 DEF ToManagerArrives, BfdTypeOK
  <2>2. BfdTypeOK'
    BY <1>1, <2>1, ReceiveType DEF ToManagerArrives, BfdTypeOK
  <2>3. HearsInv'
    BY <1>1 DEF ToManagerArrives, HearsInv
  <2> QED
    BY <2>2, <2>3
<1>2. CASE BfdThread
  <2>1. toPeer' \in Packet \cup {NoPacket}
    BY <1>2, TransmitType DEF BfdThread, BfdTypeOK
  <2> QED
    BY <1>2, <2>1 DEF BfdThread, BfdTypeOK, HearsInv
<1>3. CASE DetectTimePasses
  <2>1. sess' \in Session
    BY <1>3, Zenon DEF DetectTimePasses, BfdTypeOK, Session
  <2> QED
    BY <1>3, <2>1 DEF DetectTimePasses, BfdTypeOK, HearsInv
<1>4. CASE RestartManager
  BY <1>4, BootsAssumption, SMT DEF RestartManager, BfdTypeOK, HearsInv
<1>5. CASE PeerReceives
  <2>1. PeerState(peer.state, toPeer.state) \in BfdStates
    BY <1>5 DEF PeerReceives, PeerState, BfdTypeOK, BfdStates
  <2>2. toPeer \in Packet
    BY <1>5 DEF PeerReceives, BfdTypeOK
  <2>3. BfdTypeOK'
    BY <1>5, <2>1, <2>2, Zenon DEF PeerReceives, BfdTypeOK, Packet
  <2>4. peer'.boot \in heard'
    BY <1>5 DEF PeerReceives, BfdTypeOK
  <2>5. HearsInv'
    BY <1>5, <2>4 DEF PeerReceives, HearsInv
  <2> QED
    BY <2>3, <2>5
<1>6. CASE PeerSends
  <2>1. PICK poll \in BOOLEAN, rx \in {0, 1} :
          toManager' = [state |-> peer.state, my |-> peer.boot, your |-> peer.remote,
                        minRx |-> rx, poll |-> poll, final |-> FALSE]
    BY <1>6, Zenon DEF PeerSends
  <2>2. toManager' \in Packet
    BY <2>1, SMT DEF BfdTypeOK, Packet, Discriminators
  <2> QED
    BY <1>6, <2>1, <2>2, Zenon DEF PeerSends, BfdTypeOK, HearsInv
<1>7. CASE PeerFalls
  <2>1. PICK s \in {"Down", "Admin"} : peer' = [peer EXCEPT !.state = s, !.remote = 0]
    BY <1>7, Zenon DEF PeerFalls
  <2>2. 0 \in Discriminators /\ s \in BfdStates /\ ~Hears(s)
    BY BootsAssumption DEF Discriminators, BfdStates, Hears
  <2>3. peer'.state = s /\ peer' \in [state : BfdStates, boot : 1 .. MaxBoots, remote : Discriminators]
    BY <2>1, <2>2, Zenon DEF BfdTypeOK
  <2> QED
    BY <1>7, <2>2, <2>3 DEF PeerFalls, BfdTypeOK, HearsInv
<1>8. CASE RestartPeer
  BY <1>8, BootsAssumption, SMT DEF RestartPeer, BfdTypeOK, HearsInv, Hears, BfdStates, Discriminators
<1>9. CASE UNCHANGED bfdVars
  BY <1>9 DEF bfdVars, BfdTypeOK, HearsInv
<1> QED
  BY <1>1, <1>2, <1>3, <1>4, <1>5, <1>6, <1>7, <1>8, <1>9 DEF BfdNext

(* A step that takes the session to Up handles a packet of a peer that has *)
(* heard the manager.                                                      *)
LEMMA UpStep ==
  BfdInv /\ [BfdNext]_bfdVars
    => [IsUp(sess)' /\ ~IsUp(sess) => toManager.my \in heard]_bfdVars
<1> SUFFICES ASSUME BfdInv, BfdNext, IsUp(sess'), ~IsUp(sess)
             PROVE  toManager.my \in heard
  BY DEF bfdVars, IsUp
<1>1. CASE ToManagerArrives
  <2> DEFINE s == IF sess = NoSession THEN NewSession ELSE sess
  <2>1. s \in Session /\ s.state # "Up"
    BY NewSessionType, Zenon DEF BfdInv, BfdTypeOK, IsUp, NewSession
  <2>2. sess' = Update(s, toManager)
    BY <1>1, NewSessionType, Zenon DEF ToManagerArrives, OnBfdReceive, IsUp, NewSession
  <2>3. NextState(s.state, toManager.state) = "Up"
    BY <2>2, Zenon DEF Update, IsUp
  <2>4. Hears(toManager.state)
    BY <2>1, <2>3, UpNeedsHearing
  <2> QED
    BY <1>1, <2>4 DEF BfdInv, HearsInv, ToManagerArrives
<1>2. CASE DetectTimePasses
  BY <1>2 DEF DetectTimePasses, BfdInv, BfdTypeOK, Session, IsUp
<1>3. CASE sess' \in {sess, NoSession}
  BY <1>3 DEF IsUp
<1> QED
  BY <1>1, <1>2, <1>3
  DEF BfdNext, BfdThread, RestartManager, PeerReceives, PeerSends, PeerFalls, RestartPeer

-----------------------------------------------------------------------------
(* The sessions, packets and the peer keep the fields of the code, for any *)
(* number of restarts (on_bfd_recieve, on_bfd_thread).                     *)
THEOREM BfdTypes == BfdSpec => []BfdTypeOK
<1>1. BfdInv => BfdTypeOK
  BY DEF BfdInv
<1> QED
  BY BfdInvInit, BfdInvStep, <1>1, PTL DEF BfdSpec

(* The three-way handshake of on_bfd_recieve: whatever is lost, delayed or *)
(* repeated, a session comes up only with a peer that has heard this side. *)
THEOREM Handshake == BfdSpec => UpIsMutual
  BY BfdInvInit, BfdInvStep, UpStep, PTL DEF BfdSpec, UpIsMutual
=============================================================================
