-------------------------------- MODULE SgwSim --------------------------------
(***************************************************************************)
(* The SGW simulator against the control plane.                            *)
(*                                                                         *)
(* Simulator threads send requests built with the packet library of the    *)
(* tools (T); the handlers of the control plane parse them with its own    *)
(* codec (P), and answer; receiver threads of the simulator read the       *)
(* answers with the library again and count them.  A person at the menu    *)
(* changes the sending level and quits; an observer thread adds the        *)
(* counters up.  The network loses and reorders datagrams.                 *)
(*                                                                         *)
(* A datagram in flight carries, beside its octets, who sent it and for    *)
(* which subscriber (from); the program never reads that.                  *)
(***************************************************************************)
EXTENDS Integers, Sequences, FiniteSets, FiniteSetsExt, Functions, TLC

CONSTANTS
    Num,        \* tnum: subscribers (the code: n * 10000)
    ThreadCnt,  \* THRED_CNT: bulk threads of a kind
    LevelMax,   \* LEVEL_MAX
    Flush,      \* sends a bulk thread makes before it publishes its count
    MaxSend,    \* bound: datagrams a thread sends
    MaxFlight,  \* bound: requests, and answers, in flight; any more are lost
    Scenarios,  \* [busy: the senders that run, the others sleep; quit: the start
                \* prompt is not answered 0; keys: what is typed at the menu, a
                \* sequence of numbers, -1 for any other text]
    Tunnels,    \* rows of the tunnel table a lookup may return
    Asks        \* <<PDN type or 0, PCO options>>: what another SGW asks for

P == INSTANCE Gtpc
T == INSTANCE GtpcTools

ASSUME SimAssumption ==
    /\ ThreadCnt \in Nat \ {0} /\ Num \in Nat /\ Num % ThreadCnt = 0
    /\ {LevelMax, Flush, MaxSend, MaxFlight} \subseteq Nat

limit == Num \div ThreadCnt
Bulk == {"create", "gtpu"} \X (0..(ThreadCnt - 1))
Single == {"delete", "modify", "bearer", "resume", "suspend", "echo", "echou"} \X {0}
Receivers == {<<"recv", 0>>, <<"urecv", 0>>}
Threads == Bulk \cup Single \cup Receivers
Kinds == {t[1] : t \in Single}

\* ThreadPrm: the first subscriber of a thread, and how many it has.
offset_(t) == IF t \in Bulk THEN t[2] * limit + 1 ELSE IF t[1] \in {"echo", "echou"} THEN 0 ELSE 1
limit_(t) == IF t \in Bulk THEN limit ELSE IF t[1] \in {"echo", "echou"} THEN 0 ELSE Num

VARIABLES
    pc,      \* thread -> "loop" | "send" | "wait" | "done"
    cur,     \* thread -> current_
    left,    \* bulk thread -> sends left of the batch
    run,     \* thread -> [pkts, loops] counted and not yet published
    pub,     \* thread -> pkts_ (bulk, receivers) or pkts_per_type_
    calc,    \* kind -> pkts_calc_ of the receivers
    checked, \* answers the receiver found wanting
    level,   \* level_by_type of the two bulk kinds
    batch,   \* bulk kind -> batch_
    keys,    \* what is still to be typed
    stuck,   \* the next characters of the terminal are not a number
    abort,   \* Module::ABORT
    main,    \* main(): "menu", "join", "end"
    total,   \* thread -> datagrams sent
    asked,   \* requests of another SGW
    net,     \* requests in flight
    back     \* answers in flight

vars == <<pc, cur, left, run, pub, calc, checked, level, batch, keys, stuck, abort, main,
          total, asked, net, back>>
sending == <<pc, cur, left, run, pub, total, asked>>
counting == <<calc, checked>>
menu == <<level, batch, keys, stuck, abort, main>>

-----------------------------------------------------------------------------
\* IMSI_BASE + n and MSISDN_BASE + n, in decimal digits.
Digits4(n) == <<(n \div 1000) % 10, (n \div 100) % 10, (n \div 10) % 10, n % 10>>
ImsiOf(n) == <<3, 1, 0, 1, 4, 9, 0, 1, 0, 0, 0>> \o Digits4(2000 + n)
MsisdnOf(n) == <<8, 1, 9, 0, 1, 0, 0, 0>> \o Digits4(5000 + n)

\* One of fourteen bit rates, 2K to 16M, four octets of the host.
bitrates(n) == T!Mem(2 ^ (11 + (n % 14)))

CreateRequest(n) ==
    T!Datagram(T!Msg.create_req,
      <<T!Imsi(ImsiOf(n)), T!Msisdn(MsisdnOf(n)), T!Rat(T!Code.utran),
        T!Fteid(0, T!Code.sgw_c, T!Mem(n)), T!Apn(<<4, 7, 3>>),
        T!BearerContext(<<T!Ebi(0, (n + 1) % 16), T!Fteid(0, T!Code.sgw_u, T!Mem(n + 1)),
                          T!Bqos(0, 14, <<0>> \o T!htonl(bitrates(n)))>>),
        T!Ambr(bitrates(n), bitrates(n))>>,
      \* the second call of ref() clears the tunnel id just written
      P!ZERO, n)

DeleteSessionRequest(n) ==
    T!Datagram(T!Msg.delete_req, <<T!Ebi(0, (n + 1) % 16)>>, T!htonl(T!Mem(n)), n)

ModifyBearerRequest(n) ==
    T!Datagram(T!Msg.modify_req,
      <<T!ServingNetwork(<<<<4, 4>>, <<0, 0>>, <<1, 0>>>>), T!Rat(T!Code.utran),
        T!Fteid(1, T!Code.pgw_c, T!htonl(T!Mem(n + 1))),
        T!BearerContext(<<T!EbiOctet(0, 1), T!Fteid(2, T!Code.pgw_u, T!htonl(T!Mem(n + 2)))>>),
        T!Recovery(1)>>,
      T!htonl(T!Mem(n)), n)

DeleteBearerRequest(n) ==
    T!Datagram(T!Msg.bearer_req, <<T!EbiOctet(0, 1), T!Pco(<<<<13, 4>>>>, 8)>>,
               T!htonl(T!Mem(n)), n)

ResumeNotification(n) ==
    T!Datagram(T!Msg.resume, <<T!Imsi(ImsiOf(n))>>, T!htonl(T!Mem(n)), n)

SuspendNotification == T!Datagram(T!Msg.suspend, <<>>, P!ZERO, 0)

\* The echoes and the user data are laid out by hand, without the library.
EchoC(n) == [type |-> T!Msg.echo_req, version |-> 2, piggy |-> 0, length |-> 4,
             teid |-> P!ZERO, seqno |-> n, items |-> <<>>, len |-> 8]

GtpuEcho == [type |-> 1, version |-> 1, piggy |-> 0, length |-> 4,
                teid |-> T!Mem(3), seqno |-> 0, items |-> <<>>, len |-> 12]

\* An echo request of the handset, inside ICMP, IP and GTP-U headers of 28, 20
\* and 8 + 4 octets; the filling is an IMIX of 7 : 4 : 1.
GtpuData(n) ==
    LET fill == CASE n % 12 = 2 -> 1400 [] n % 12 \in {1, 3, 5, 7} -> 570 [] OTHER -> 0
    IN  [type |-> 255, version |-> 1, piggy |-> 0, length |-> 28 + 20 + 4 + fill,
         teid |-> T!htonl(T!Mem(n)), seqno |-> n, items |-> <<>>, len |-> 28 + 20 + 8 + 4 + fill]

\* A Create Session Request of an SGW that asks for a PDN type and options.
OtherRequest(ask) ==
    LET d == CreateRequest(1)
        pdn == IF ask[1] = 0 THEN <<>> ELSE <<P!Item(P!Ie.pdn_type, 0, 1, <<ask[1]>>)>>
        pco == IF ask[2] = <<>> THEN <<>>
               ELSE <<P!Item(P!Ie.pco, 0, P!PcoLen(ask[2]) + 1, ask[2])>>
        more == P!SumSize(pdn \o pco)
    IN  [d EXCEPT !.items = @ \o pdn \o pco, !.len = @ + more, !.length = @ + more]

Request(x) ==
    CASE x[1] = "create"  -> CreateRequest(x[2])
      [] x[1] = "other"   -> OtherRequest(x[2])
      [] x[1] = "delete"  -> DeleteSessionRequest(x[2])
      [] x[1] = "modify"  -> ModifyBearerRequest(x[2])
      [] x[1] = "bearer"  -> DeleteBearerRequest(x[2])
      [] x[1] = "resume"  -> ResumeNotification(x[2])
      [] x[1] = "suspend" -> SuspendNotification
      [] x[1] = "echo"    -> EchoC(x[2])
      [] x[1] = "echou"   -> GtpuEcho
      [] x[1] = "gtpu"    -> GtpuData(x[2])

\* All requests there are: who sends it, and for which subscriber.
Requests == ({t[1] : t \in Bulk \cup Single} \X (0..(Num + MaxSend))) \cup ({"other"} \X Asks)

\* The row a handler works on; a new bearer writes its id into the tunnel id.
Row(kind, cs, tunnel) ==
    IF kind \in {"create", "other"}
    THEN [tunnel EXCEPT !.pgw_teid[4] = (@ % 16) + 16 * P!BearerEbi(cs)] ELSE tunnel

ReplyPacket(kind, cs, served, row) ==
    CASE kind \in {"create", "other"} ->
           IF served THEN P!create_session_accept(cs, row) ELSE P!create_session_denied
      [] kind = "modify" ->
           IF served THEN P!modify_bearer_accept(cs, row) ELSE P!modify_bearer_denied
      [] kind = "delete" ->
           IF served THEN P!delete_session_accept(cs) ELSE P!delete_session_denied
      [] kind = "bearer" ->
           IF served THEN P!delete_bearer_accept(cs, row) ELSE P!delete_bearer_denied(cs, row)
      [] kind = "resume" -> IF served THEN P!resume_accept ELSE P!resume_denied
      [] kind = "suspend" -> IF served THEN P!suspend_accept ELSE P!suspend_denied

\* The tunnel id of the answer's header: the one of the request's F-TEID for a
\* new session, the one of the row otherwise.
ReplyTeid(kind, cs, row) ==
    IF kind \notin {"create", "other"} THEN row.sgw_c_teid
    ELSE IF "FTEID_C" \in cs.flag THEN P!TeidOf(cs.val["FTEID_C"]) ELSE P!ZERO

\* What on_hook_gtpc finds in an answer it does not count by its type alone.
Finding(d) ==
    LET got == T!attach(d)
        fteid == T!find(got.items, T!Ie.f_teid)
        bctx == T!find(got.items, T!Ie.bearer_ctx)
        fteidu == IF bctx = <<>> THEN <<>> ELSE T!find(bctx[1].v, T!Ie.f_teid)
    IN  IF ~got.ok THEN "unread"
        ELSE IF fteid = <<>> \/ fteidu = <<>> THEN "wanting"
        ELSE IF T!teid(fteid[1]) # T!teid(fteidu[1]) THEN "differ" ELSE "same"

\* An answer, with the row it is about and what the simulator finds in it.
Sent(packet, d, row) == [err |-> packet.err, datagram |-> d, row |-> row, found |-> Finding(d)]
Converted(packet, teid, seqno, row) ==
    Sent(packet, P!gtpc_convert_to_packet(packet, teid, seqno), row)
Reply(kind, d, cs, served, row) ==
    Converted(ReplyPacket(kind, cs, served, row), ReplyTeid(kind, cs, row), d.seqno, row)

\* A request, what the control plane reads in it, and the answers to it: served
\* or not, from a row.
Table(f) == f @@ <<>>   \* f, spelled out once
Exchange(kind, d, cs, taken) ==
    [datagram |-> d, parsed |-> cs, taken |-> taken,
     reply |-> IF ~taken \/ kind \in {"echo", "echou", "gtpu"} THEN <<>>
               ELSE Table([a \in BOOLEAN \X Tunnels |->
                              Reply(kind, d, cs, a[1], Row(kind, cs, a[2]))])]
Read(kind, d) ==
    Exchange(kind, d, P!gtpc_iterate_item(d.items), P!gtpc_alloc_packet_from_payload(d) = "ok")
Message == Table([x \in Requests |-> Read(x[1], Request(x))])

-----------------------------------------------------------------------------
Init ==
    /\ \E s \in Scenarios :
         /\ pc = [t \in Threads |-> IF t \in s.busy \cup Receivers THEN "loop" ELSE "asleep"]
         /\ keys = s.keys
         \* a prompt not answered 0 counts ABORT up, and the threads are started all the same
         /\ abort = s.quit
         /\ main = IF s.quit THEN "join" ELSE "menu"
    /\ cur = [t \in Threads |-> IF t \in Receivers THEN 0 ELSE offset_(t)]
    /\ left = [t \in Bulk |-> 0]
    /\ run = [t \in Bulk \cup Receivers |-> [pkts |-> 0, loops |-> 0]]
    /\ pub = [t \in Threads |-> 0]
    /\ calc = [k \in Kinds |-> 0]
    /\ checked = 0
    /\ level = [k \in {"create", "gtpu"} |-> 0]
    /\ batch = [k \in {"create", "gtpu"} |-> 0]
    /\ stuck = FALSE
    /\ asked = 0
    /\ total = [t \in Threads |-> 0]
    /\ net = <<>> /\ back = <<>>

\* The next subscriber of a thread: a ring over its own range.
NextSubscriber(t) ==
    IF t[1] \in {"echo", "echou"} THEN IF cur[t] > 65535 THEN 0 ELSE cur[t] + 1
    ELSE IF t[1] = "suspend" THEN cur[t]
    ELSE IF cur[t] >= offset_(t) + limit_(t) - 1 THEN offset_(t) ELSE cur[t] + 1

Transmit(t) ==
    /\ LET n == NextSubscriber(t)
       IN  /\ cur' = [cur EXCEPT ![t] = n]
           /\ net' = IF Len(net) >= MaxFlight THEN net
                     ELSE Append(net, <<t[1], n>>)
    /\ total' = [total EXCEPT ![t] = @ + 1]

\* GtpcSendCreateSession and GtpuSend: a batch, then the delay, after which
\* the count is published now and then.
BulkSend(t) ==
    /\ pc[t] = "send" \/ (pc[t] = "loop" /\ ~abort /\ total[t] < MaxSend)
    /\ Transmit(t)
    /\ LET todo == IF pc[t] = "send" THEN left[t] ELSE IF batch[t[1]] > 1 THEN batch[t[1]] ELSE 1
       IN  /\ left' = [left EXCEPT ![t] = todo - 1]
           /\ pc' = [pc EXCEPT ![t] = IF todo > 1 THEN "send" ELSE "wait"]
    /\ run' = [run EXCEPT ![t].pkts = @ + 1]
    /\ UNCHANGED <<pub, asked, counting, menu, back>>

\* Counts are added up in the thread and published now and then.
Publish(t, pkts) ==
    IF run[t].loops > Flush
    THEN /\ pub' = [pub EXCEPT ![t] = @ + pkts]
         /\ run' = [run EXCEPT ![t] = [pkts |-> 0, loops |-> 0]]
    ELSE /\ run' = [run EXCEPT ![t] = [pkts |-> pkts, loops |-> @.loops + 1]]
         /\ UNCHANGED pub

Count(t) == Publish(t, run[t].pkts + 1)

DelayNext(t) ==
    /\ pc[t] = "wait"
    /\ pc' = [pc EXCEPT ![t] = "loop"]
    /\ Publish(t, run[t].pkts)
    /\ UNCHANGED <<cur, left, total, asked, counting, menu, net, back>>

\* The single senders: one datagram, counted after it has left, then a sleep.
SingleSend(t) ==
    /\ pc[t] = "loop" /\ ~abort /\ total[t] < MaxSend
    /\ Transmit(t)
    /\ pc' = [pc EXCEPT ![t] = "wait"]
    /\ UNCHANGED <<left, run, pub, asked, counting, menu, back>>

AddPacketPerType(t) ==
    /\ pc[t] = "wait"
    /\ pc' = [pc EXCEPT ![t] = "loop"]
    /\ pub' = [pub EXCEPT ![t] = @ + 1]
    /\ UNCHANGED <<cur, left, run, total, asked, counting, menu, net, back>>

Exit(t) ==
    /\ pc[t] = "loop" /\ abort
    /\ pc' = [pc EXCEPT ![t] = "done"]
    /\ UNCHANGED <<cur, left, run, pub, total, asked, counting, menu, net, back>>

OtherSgw ==
    \* bound: one request, and no other sender beside it
    /\ asked = 0 /\ \A t \in Bulk \cup Single : pc[t] = "asleep"
    /\ asked' = 1
    /\ \E ask \in Asks : net' = Append(net, <<"other", ask>>)
    /\ UNCHANGED <<pc, cur, left, run, pub, total, counting, menu, back>>

-----------------------------------------------------------------------------
\* The control plane.  served: the row was found and every statement of the
\* handler succeeded (the handlers' work on the table is in TunnelSession).

Without(s, k) == SubSeq(s, 1, k - 1) \o SubSeq(s, k + 1, Len(s))

Answer(k, m, served) ==
    /\ net' = Without(net, k)
    /\ \E tunnel \in Tunnels :
         back' = IF m.reply[<<served, tunnel>>].err \/ Len(back) >= MaxFlight THEN back
                 ELSE Append(back, <<net[k], served, tunnel>>)
    /\ UNCHANGED <<sending, counting, menu>>

Arrived(m, type) == m.taken /\ m.datagram.version = 2 /\ m.datagram.type = type

PgwCreateSession(k, m) ==
    /\ Arrived(m, P!Msg.create_req)
    /\ \E served \in BOOLEAN :
         /\ served => P!INCLUDED_ALL \subseteq m.parsed.flag
         /\ Answer(k, m, served)

PgwModifyBearer(k, m) ==
    /\ Arrived(m, P!Msg.modify_req)
    /\ \E served \in BOOLEAN : Answer(k, m, served)

PgwDeleteSession(k, m) ==
    /\ Arrived(m, P!Msg.delete_req)
    /\ \E served \in BOOLEAN : Answer(k, m, served)

PgwDeleteBearer(k, m) ==
    /\ Arrived(m, P!Msg.bearer_req)
    /\ \E served \in BOOLEAN : Answer(k, m, served)

PgwResume(k, m) ==
    /\ Arrived(m, P!Msg.resume)
    /\ \E served \in BOOLEAN :
         /\ served => "IMSI" \in m.parsed.flag
         /\ Answer(k, m, served)

PgwSuspend(k, m) ==
    /\ Arrived(m, P!Msg.suspend)
    /\ \E served \in BOOLEAN : Answer(k, m, served)

\* An echo goes back twice: the request itself, and as a response.
PgwEcho(k, m) ==
    /\ m.datagram.type = P!Msg.echo_req
    /\ m.datagram.version = 2 => P!gtpc_validate_header(m.datagram)
    /\ net' = Without(net, k)
    /\ back' = back \o <<<<net[k], FALSE>>, <<net[k], TRUE>>>>
    /\ UNCHANGED <<sending, counting, menu>>

\* A datagram no handler takes: lost, or user data for the data plane.
Gone(k) ==
    /\ net' = Without(net, k)
    /\ UNCHANGED <<sending, counting, menu, back>>

-----------------------------------------------------------------------------
\* The receivers of the simulator.

Counted ==
    (T!Msg.echo_res :> "echo") @@ (T!Msg.delete_res :> "delete") @@
    (T!Msg.bearer_res :> "bearer") @@ (T!Msg.modify_res :> "modify") @@
    (T!Msg.resume_ack :> "resume") @@ (T!Msg.suspend_ack :> "suspend")

\* What comes back of request m; an echo is a pair.
TypeOf(b, m) ==
    IF Len(b) = 2 THEN IF b[2] THEN P!Msg.echo_res ELSE P!Msg.echo_req
    ELSE m.reply[Tail(b)].datagram.type

RecvC(k, m) ==
    LET b == back[k]
        found == IF Len(b) = 2 THEN "unread" ELSE m.reply[Tail(b)].found
        t == <<"recv", 0>>
    IN  /\ m.datagram.version = 2 /\ pc[t] = "loop"
        /\ back' = Without(back, k)
        /\ IF TypeOf(b, m) \in DOMAIN Counted
           THEN /\ calc' = [calc EXCEPT ![Counted[TypeOf(b, m)]] = @ + 1]
                /\ UNCHANGED <<checked, pub, run>>
           ELSE /\ checked' = checked + IF found \in {"wanting", "differ"} THEN 1 ELSE 0
                /\ IF found \in {"same", "differ"} THEN Count(t) ELSE UNCHANGED <<pub, run>>
                /\ UNCHANGED calc
        /\ UNCHANGED <<pc, cur, left, total, asked, menu, net>>

RecvU(k, m) ==
    LET t == <<"urecv", 0>>
    IN  /\ m.datagram.version = 1 /\ pc[t] = "loop"
        /\ back' = Without(back, k)
        /\ calc' = [calc EXCEPT !["echou"] = @ + IF back[k][2] THEN 1 ELSE 0]
        /\ Count(t)
        /\ UNCHANGED <<pc, cur, left, total, asked, checked, menu, net>>

-----------------------------------------------------------------------------
\* The menu.  Input reads a decimal number: what is not one stays in the
\* stream and reads as 0 from then on.
Input(key) == IF stuck \/ key < 0 THEN 0 ELSE key

SetLevel(kind, lvl) ==
    /\ level' = [level EXCEPT ![kind] = lvl]
    /\ batch' = [batch EXCEPT ![kind] = CASE lvl = LevelMax - 3 -> 2 [] lvl = LevelMax - 2 -> 4
                                          [] OTHER -> 0]
    /\ UNCHANGED <<abort, main>>

\* main() deletes the threads; the destructor counts ABORT up and joins.
Leave == main' = "join" /\ abort' = TRUE

PrintMenu ==
    LET k == Input(Head(keys))
        up(kind) == Min({level[kind] + 1, LevelMax})
        down(kind) == Max({level[kind] - 1, 0})
    IN  /\ main = "menu" /\ ~abort /\ keys # <<>>
        /\ keys' = Tail(keys)
        /\ stuck' = (stuck \/ Head(keys) < 0)
        /\ CASE k = 8   -> SetLevel("create", up("create"))
             [] k = 122 -> SetLevel("create", 0)
             [] k = 2   -> SetLevel("create", down("create"))
             [] k = 6   -> SetLevel("gtpu", up("gtpu"))
             [] k = 4   -> SetLevel("gtpu", down("gtpu"))
             [] k = 113 -> Leave /\ UNCHANGED <<level, batch>>
             [] OTHER   -> UNCHANGED <<level, batch, abort, main>>
        /\ UNCHANGED <<sending, counting, net, back>>

JoinAll ==
    /\ main = "join" /\ \A t \in Threads : pc[t] \in {"done", "asleep"}
    /\ main' = "end"
    /\ UNCHANGED <<sending, counting, level, batch, keys, stuck, abort, net, back>>

-----------------------------------------------------------------------------
ThreadStep ==
    \/ \E t \in Bulk : BulkSend(t) \/ DelayNext(t)
    \/ \E t \in Single : SingleSend(t) \/ AddPacketPerType(t)
    \/ \E t \in Threads : Exit(t)

Pgw ==
    \E k \in DOMAIN net : \E m \in {Message[net[k]]} :
        \/ PgwCreateSession(k, m) \/ PgwModifyBearer(k, m) \/ PgwDeleteSession(k, m)
        \/ PgwDeleteBearer(k, m) \/ PgwResume(k, m) \/ PgwSuspend(k, m) \/ PgwEcho(k, m)
        \/ Gone(k)

Recv ==
    \E k \in DOMAIN back : \E m \in {Message[back[k][1]]} : RecvC(k, m) \/ RecvU(k, m)

Next ==
    \/ ThreadStep \/ JoinAll \/ OtherSgw \/ Pgw \/ Recv \/ PrintMenu

Spec == Init /\ [][Next]_vars

-----------------------------------------------------------------------------
\* Safety of the two codecs against each other.

ReadAsMeant(x, m) ==
    LET d == m.datagram
        kind == x[1]
        n == IF kind = "other" THEN 1 ELSE x[2]
        cs == m.parsed
        wire(v) == T!htonl(T!Mem(v))
    IN  /\ kind \in {"gtpu", "echou"} => d.version = 1 /\ d.length + 8 = d.len
        /\ kind \notin {"gtpu", "echou", "echo"} => m.taken /\ ~cs.err
        /\ kind \in {"create", "other"} =>
              /\ P!INCLUDED_ALL \subseteq cs.flag
              /\ P!gtpc_digits_get(cs.val["IMSI"].v) = ImsiOf(n)
              /\ P!gtpc_digits_get(cs.val["MSISDN"].v) = MsisdnOf(n)
              /\ P!TeidOf(cs.val["FTEID_C"]) = wire(n)
              /\ P!TeidOf(cs.val["FTEID_U"]) = wire(n + 1)
              /\ P!BearerEbi(cs) = (n + 1) % 16
        /\ kind \in {"delete", "modify", "bearer", "resume"} => d.teid = wire(n)
        /\ kind = "delete" => "EBI" \in cs.flag /\ cs.val["EBI"].v[1] % 16 = (n + 1) % 16
        /\ kind = "modify" => {"FTEID_C", "FTEID_U", "EBI_B"} \subseteq cs.flag
        /\ kind = "resume" => P!gtpc_digits_get(cs.val["IMSI"].v) = ImsiOf(n)

MeantRequests == {x \in Requests : ReadAsMeant(x, Message[x])}

\* The control plane reads of every request what the simulator put into it:
\* the message is taken, the elements its handler insists on are there, and
\* the subscriber's numbers, tunnel ids and bearer id come out as they went in.
Understood == \A k \in DOMAIN net : net[k] \in MeantRequests

Creates == {x \in Requests : x[1] \in {"create", "other"}} \X BOOLEAN \X Tunnels

AnswerAsMeant(a, r) ==
    LET n == IF a[1][1] = "other" THEN 1 ELSE a[1][2]
        fteid == T!find(T!attach(r.datagram).items, T!Ie.f_teid)
    IN  /\ r.found = IF a[2] THEN "same" ELSE "wanting"
        /\ a[2] => T!teid(fteid[1]) = r.row.pgw_teid
        /\ r.datagram.seqno = n /\ r.datagram.teid = T!htonl(T!Mem(n))

MeantAnswers ==
    {a \in Creates : \E m \in {Message[a[1]]} : m.taken /\ AnswerAsMeant(a, m.reply[Tail(a)])}

\* The simulator's library reads every answer to a Create Session Request:
\* an accepted one with the same tunnel id for control and for data, the one
\* of the row, a refused one without; and it comes with the sequence number
\* and the tunnel id the request was sent with.
AnswerRead == \A k \in DOMAIN back : back[k] \in Creates => back[k] \in MeantAnswers

OptionsAsAsked(flag, items) ==
    LET pco == SelectSeq(items, LAMBDA i : i.type = P!Ie.pco)
        ids == {o[1] : o \in UNION {Range(i.v) : i \in Range(pco)}}
        asks == {P!PCO_IDS[h] : h \in flag \cap DOMAIN P!PCO_IDS}
    IN  /\ ids \subseteq asks \cup {P!Code.ipcp}
        /\ "PCO_DNS_IPV4" \in flag => P!Code.dns \in ids

AskedAnswers ==
    {a \in Creates : a[2] => \E m \in {Message[a[1]]} :
        m.taken /\ OptionsAsAsked(m.parsed.flag, m.reply[Tail(a)].datagram.items)}

\* The protocol configuration options of an answer are among those the
\* request asked for, and name servers that were asked for are answered.
PcoAnswered == \A k \in DOMAIN back : back[k] \in Creates => back[k] \in AskedAnswers

=============================================================================
