------------------------------- MODULE Proxy --------------------------------
(***************************************************************************)
(* The proxy in front of the PGWs (ctrlplane/src/proxy): it forwards a     *)
(* Create Session Request to a PGW of the subscriber's group, remembers    *)
(* which SGW sent it under the request's sequence number and TEID, and     *)
(* sends the PGW's answer there.  One thread turns to three libevent bases *)
(* in order (outside, inside, statistics); each time it handles at most    *)
(* one datagram of the base's socket and its timer.  SIGUSR2 asks for the  *)
(* routes to be read again.                                                *)
(***************************************************************************)
EXTENDS Integers, Sequences, FiniteSets

CONSTANTS Senders, TeidsOf,      \* SGWs, and the TEIDs each of them hands out
          Subscribers, Seqs,
          Groups, GroupOf,    \* subscribers: the group of an IMSI, or NoGroup
          Tables,             \* contents the table proxy can have: group -> routes
          Kinds,              \* datagrams other than Create Session that arrive
          NoGroup, Self,         \* no group; the proxy's own inside address
          Ticks, SessionTicks,\* timer calls between two reloads, two expiries
          MaxSent, MaxChanges \* bounds: datagrams that arrive, changes of the table

(* SGWs do not share TEIDs. *)
ASSUME TeidsApart == \A a, b \in Senders : a # b => TeidsOf[a] \cap TeidsOf[b] = {}
ASSUME KindAssumption == "create" \notin Kinds
ASSUME TickAssumption == {Ticks, SessionTicks, MaxSent, MaxChanges} \subseteq Nat

VARIABLES
  extq, intq, stsq,   \* datagrams waiting at the three sockets
  turn, at, idle,     \* the base the thread is at, its step, no datagram there
  counts, countsSession,
  reload,             \* reload_ # 0
  table, grouproutes,       \* table proxy in the database; grouproutes_
  session,            \* session_: <<seqno, teid>> -> SGW
  atPgw,              \* requests forwarded, on their way to or at a PGW
  delivered,          \* answers handed to SGWs
  stats,              \* addresses in stats_
  alive, sent, changes
queues == <<extq, intq, stsq>>
timers == <<counts, countsSession>>
bounds == <<sent, changes>>
thread == <<turn, at, idle>>
proxyVars == <<queues, thread, timers, reload, table, grouproutes, session, atPgw,
               delivered, stats, alive, bounds>>

NoRoutes == [g \in Groups |-> <<>>]
Teids == UNION {TeidsOf[s] : s \in Senders}
Requests == [kind : {"create"}, sgw : Senders, imsi : Subscribers, teid : Teids, seq : Seqs]
Peeked == {"short", "header", "length"}    \* refused before the sender is known
SentBy(s) == {r \in Requests : r.sgw = s}
Own(req) == req.teid \in TeidsOf[req.sgw]
(* Mutant: sessions are told apart by the sequence number alone. *)
KeyBySeq(req) == <<req.seq, req.seq>>
SessionKey(req) == <<req.seq, req.teid>>
Others == [kind : Kinds, sgw : Senders]
Answers == [kind : {"create"}, req : Requests] \cup [kind : Kinds]

ProxyInit ==
  /\ extq = <<>> /\ intq = <<>> /\ stsq = <<>>
  /\ turn = 1 /\ at = "read" /\ idle = FALSE
  /\ counts = 0 /\ countsSession = 0 /\ reload = FALSE
  /\ table \in Tables /\ grouproutes \in {table, NoRoutes}
  /\ session = <<>> /\ atPgw = {} /\ delivered = {}
  /\ stats = {} /\ alive = TRUE /\ sent = 0 /\ changes = 0

-----------------------------------------------------------------------------
(* The world: SGWs, PGWs and the operator. *)
Counted ==
  /\ alive /\ sent < MaxSent /\ sent' = sent + 1
  /\ UNCHANGED <<thread, timers, reload, table, grouproutes, session, delivered, stats, alive, changes>>
SgwSends ==
  /\ Counted
  /\ \E d \in {r \in Requests : Own(r)} \cup Others : extq' = Append(extq, d)
  /\ UNCHANGED <<intq, stsq, atPgw>>
StatsAsked ==
  /\ Counted
  /\ \E k \in Kinds \cup {"query"} : stsq' = Append(stsq, k)
  /\ UNCHANGED <<extq, intq, atPgw>>
PgwSends ==
  /\ Counted
  /\ \E k \in Kinds : intq' = Append(intq, [kind |-> k])
  /\ UNCHANGED <<extq, stsq, atPgw>>

(* A PGW answers a request, or the request or its answer is lost. *)
PgwAnswers ==
  /\ alive
  /\ \E r \in atPgw : \E q \in {intq, Append(intq, [kind |-> "create", req |-> r])} :
       atPgw' = atPgw \ {r} /\ intq' = q
  /\ UNCHANGED <<extq, stsq, thread, timers, reload, table, grouproutes, session, delivered,
                 stats, alive, bounds>>

TableChanges ==
  /\ changes < MaxChanges /\ changes' = changes + 1
  /\ table' \in Tables \ {table}
  /\ UNCHANGED <<queues, thread, timers, reload, grouproutes, session, atPgw, delivered, stats, alive, sent>>

(* Proxy::Signal *)
Signal ==
  /\ alive /\ reload' = TRUE
  /\ UNCHANGED <<queues, thread, timers, table, grouproutes, session, atPgw, delivered, stats, alive, bounds>>

-----------------------------------------------------------------------------
(* The thread is at base b and has read its socket. *)
Reading(b, q) ==
  /\ alive /\ turn = b /\ at = "read"
  /\ at' = "timer" /\ idle' = (q = <<>>)
  /\ UNCHANGED <<turn, timers, reload, table, grouproutes, sent, changes>>

(* Mutant: a datagram of the wrong length is not read either. *)
LeftPeeked(q, kind) == IF kind \in Peeked THEN q ELSE Tail(q)
(* What the first reads leave of a queue.  A datagram that is refused by   *)
(* its header was only peeked at; one of the wrong length is read, and the *)
(* next one with it.                                                       *)
Left(q, kind) ==
  CASE kind \in {"short", "header"} -> q
    [] kind = "length" -> Tail(IF Len(q) > 1 THEN Tail(q) ELSE q)
    [] OTHER -> Tail(q)
(* The log of an error reads through rh, which is not set yet. *)
Survives(kind) == alive' \in IF kind = "short" THEN BOOLEAN ELSE {TRUE}

(* Routes::FindGroupByImsi, whose query may fail as well, and              *)
(* FindInternlRouteByGroupFromCache.                                       *)
FindGroupByImsi(imsi) == GroupOf[imsi] # NoGroup
FindInternlRoute(gid) == grouproutes[gid] # <<>>

(* _ParseImsi.  The fields of parse_state that the message does not carry, *)
(* and their flags, are what the stack held: an IMSI, or the TEID of a     *)
(* session the PGW will not answer under.                                  *)
ParseImsi(d) ==
  CASE d.kind = "create" -> {d}
    [] d.kind = "noimsi" -> {r \in SentBy(d.sgw) : Own(r)}
    [] d.kind = "noteid" -> SentBy(d.sgw)
    [] OTHER -> {}

(* What is remembered of a request: of a RouteSession only Host() is read. *)
RouteSession(req) == req.sgw
(* Routes::SetSession *)
SetSession(req) ==
  IF SessionKey(req) \in DOMAIN session THEN session
  ELSE [k \in DOMAIN session \cup {SessionKey(req)} |->
          IF k \in DOMAIN session THEN session[k] ELSE RouteSession(req)]

(* The session is kept, then the request sent; pgw_send_sock may fail. *)
Forwarded(req, known) ==
  /\ FindGroupByImsi(req.imsi) /\ FindInternlRoute(GroupOf[req.imsi])
  /\ session' = SetSession(req)
  /\ atPgw' \in {atPgw, atPgw \cup known}

(* Proxy::OnRecieveExt; sgw_routes_, which it fills, is never read. *)
OnRecieveExt ==
  /\ Reading(1, extq)
  /\ IF extq = <<>> THEN UNCHANGED <<extq, session, atPgw, stats, alive>>
     ELSE LET d == Head(extq)
              from == IF d.kind = "length" /\ Len(extq) > 1 THEN extq[2].sgw ELSE d.sgw
          IN /\ extq' = Left(extq, d.kind)
             /\ stats' = stats \cup {from}
             /\ Survives(d.kind)
             /\ \/ UNCHANGED <<session, atPgw>>
                \/ \E r \in ParseImsi(d) : Forwarded(r, IF d.kind = "noteid" THEN {} ELSE {r})
  /\ UNCHANGED <<intq, stsq, delivered>>

(* Routes::FindSessionBySeqnoTeid, and the answer handed on. *)
Delivers(r) ==
  IF r.kind = "create" /\ SessionKey(r.req) \in DOMAIN session
  THEN delivered' \in {delivered, delivered \cup {[to |-> session[SessionKey(r.req)], req |-> r.req]}}
  ELSE UNCHANGED delivered

(* Proxy::OnRecieveInt.  An error before getsockname counts against an     *)
(* address that is not set.                                                *)
OnRecieveInt ==
  /\ Reading(2, intq)
  /\ IF intq = <<>> THEN UNCHANGED <<intq, delivered, stats, alive>>
     ELSE LET r == Head(intq)
          IN /\ intq' = Left(intq, r.kind)
             /\ Survives(r.kind)
             /\ \E a \in IF r.kind \in Peeked THEN Senders \cup {Self} ELSE {Self} :
                  stats' = stats \cup {a}
             /\ Delivers(r)
  /\ UNCHANGED <<extq, stsq, session, atPgw>>

(* Proxy::OnRecieveStats *)
OnRecieveStats ==
  /\ Reading(3, stsq)
  /\ stsq' = IF stsq = <<>> THEN stsq ELSE Left(stsq, Head(stsq))
  /\ UNCHANGED <<extq, intq, session, atPgw, delivered, stats, alive>>

(* Routes::Cache: the routes are cleared, then read. *)
Cached == grouproutes' \in {table, NoRoutes}
(* Routes::StatExpire(0): entries older than this second go. *)
Expired == stats' \in SUBSET stats
NextTurn == turn' = (turn % 3) + 1

(* Mutant: the counter of the reloads is not advanced. *)
TimesOutStill ==
  /\ countsSession' = IF countsSession > SessionTicks THEN 0 ELSE countsSession + 1
  /\ NextTurn /\ at' = "read" /\ UNCHANGED <<counts, grouproutes, stats>>
(* Proxy::OnTimeOut, when the base's timer has run out. *)
TimesOut ==
  /\ counts' = IF counts > Ticks THEN 0 ELSE counts + 1
  /\ countsSession' = IF countsSession > SessionTicks THEN 0 ELSE countsSession + 1
  /\ IF countsSession > SessionTicks THEN Expired ELSE UNCHANGED stats
  /\ IF counts > Ticks /\ reload
     THEN Cached /\ at' = "cached" /\ UNCHANGED turn
     ELSE NextTurn /\ at' = "read" /\ UNCHANGED grouproutes
OnTimeOut ==
  /\ alive /\ at = "timer"
  /\ \/ TimesOut
     \/ ~idle /\ NextTurn /\ at' = "read" /\ UNCHANGED <<timers, grouproutes, stats>>
  /\ UNCHANGED <<queues, idle, reload, table, session, atPgw, delivered, alive, bounds>>
(* The end of OnTimeOut after a reload. *)
ReloadDone ==
  /\ alive /\ at = "cached"
  /\ reload' = FALSE /\ at' = "read" /\ NextTurn
  /\ UNCHANGED <<queues, idle, timers, table, grouproutes, session, atPgw, delivered, stats, alive, bounds>>

Loop == OnRecieveExt \/ OnRecieveInt \/ OnRecieveStats \/ OnTimeOut \/ ReloadDone
World == SgwSends \/ StatsAsked \/ PgwSends \/ PgwAnswers \/ TableChanges \/ Signal
ProxyNext == Loop \/ World
ProxySpec == ProxyInit /\ [][ProxyNext]_proxyVars
ProxyFairSpec == ProxySpec /\ WF_proxyVars(Loop)

-----------------------------------------------------------------------------
ProxyTypeOK ==
  /\ extq \in Seq({r \in Requests : Own(r)} \cup Others) /\ intq \in Seq(Answers)
  /\ turn \in 1..3 /\ at \in {"read", "timer", "cached"}
  /\ \A k \in DOMAIN session : session[k] \in Senders
  /\ atPgw \subseteq Requests

(* An answer goes back to the SGW whose request it answers, although the   *)
(* proxy keeps nothing but the first sender of each sequence number and    *)
(* TEID (SetSession, FindSessionBySeqnoTeid), and keeps it for ever.       *)
AnswerReturns == \A d \in delivered : d.to = d.req.sgw

(* What arrives outside is read, whatever arrives inside and at the        *)
(* statistics socket: the turns and the timers keep the thread going.      *)
Served == extq # <<>> ~> extq = <<>>

(* A reload that is asked for while no reload is under way brings the      *)
(* routes of the table, or none if the query fails.                        *)
Refreshed == reload /\ at # "cached" ~> grouproutes \in {table, NoRoutes}
=============================================================================
