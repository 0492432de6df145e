----------------------------- MODULE PacketFlow -----------------------------
(***************************************************************************)
(* How a packet moves through the control plane process (src/ctrlplane).   *)
(*                                                                         *)
(* Two UDP server threads (GTP-C, GTP-U) receive packets and put them on   *)
(* the ingress ring of the node that handles their type.  Every node is a  *)
(* thread that takes a burst from its ingress ring, handles the packets    *)
(* one by one and puts its answers on its own egress ring.  The TX node    *)
(* visits the egress rings of all the other nodes in turn, sends and frees *)
(* what it finds.  The 1 second timer of the GTP-C thread puts echo        *)
(* requests on the egress ring of the TIMER node.  The main thread creates *)
(* the threads in order and stops them in order.                           *)
(*                                                                         *)
(* A packet is a number, the value of pgw_memory_alloc_count once it is    *)
(* allocated.  Its payload is abstracted to the kind that decides where it *)
(* goes and which branch of the handler it takes.                          *)
(***************************************************************************)
EXTENDS Integers, Sequences, FiniteSets

CONSTANTS RingMax,    \* RING_SIZE_MAX, capacity of a ring
          Burst,      \* BURST_SIZE, packets taken by one pgw_deq_burst
          Kinds,      \* the kinds of datagram the network may deliver
          Signals,    \* whether a termination signal may arrive
          MaxInput    \* bound on the packets received or made by the timer

ASSUME RingAssumption == RingMax \in Nat \ {0}
ASSUME BurstAssumption == Burst \in Nat \ {0}
ASSUME SignalsAssumption == Signals \in BOOLEAN
ASSUME MaxInputAssumption == MaxInput \in Nat

(* Node indices, pgw.h. *)
GTPU_ECHO == 0
GTPC_ECHO == 1
TIMER == 2
CREATE_SESSION == 3
CREATE_SESSION_EXT0 == 4
MODIFY_BEARER == 5
GTPC_OTHER == 6
GTPU_OTHER == 7
TX == 8
COUNT == 9

Nodes == 0 .. COUNT - 1
Works == 0 .. TX - 1                 \* the nodes whose egress TX visits
Sessions == CREATE_SESSION .. GTPC_OTHER

(* The two server threads, numbered after the nodes. *)
GTPC == COUNT
GTPU == COUNT + 1
Servers == {GTPC, GTPU}

(* Datagram kinds.  Error Indication and the rejected one fail the header  *)
(* validation of the receive callback; the two unrouted ones match no      *)
(* branch of event_rx.                                                     *)
GtpuKinds == {"u_echo_req", "u_echo_res", "u_rs", "u_data", "u_err_ind"}
GtpcKinds == {"c_echo_req", "c_echo_res", "c_create0", "c_create1", "c_modify",
              "c_other", "c_v1", "c_unrouted", "c_v1_unrouted", "c_rejected"}

ASSUME KindsAssumption == Kinds \subseteq GtpuKinds \cup GtpcKinds

(* Where a live packet can be: in a ring of a node, or in the local array  *)
(* pkts[] of the node thread that dequeued it.                             *)
Ingress(n) == <<n, "ingress">>
Egress(n) == <<n, "egress">>
Local(n) == <<n, "pkts">>
Places == Nodes \X {"ingress", "egress", "pkts"}

VARIABLES
  slot,     \* [Places -> Seq(packet)]: rings and pkts[] arrays, head first
  pkt,      \* every packet allocated so far, in order: its kind, and the
            \* received packet it answers (itself if received)
  freed,    \* packets given to pgw_free_packet
  lost,     \* packets no code can reach any more and that were never freed
  dup,      \* [Nodes -> BOOLEAN]: the echo handler has sent its duplicate
  txAt,     \* index of the egress ring the TX loop visits next
  txFrom,   \* node whose burst TX holds
  sent,     \* [Works -> Seq(packet)]: what TX has sent, per ring
  created,  \* number of nodes created by node_start_paralell
  up,       \* server threads started
  on,       \* flags & ON
  stopq,    \* threads pgw_stop has still to halt and join, in order
  halt,     \* threads whose halt flag is set
  exited    \* threads that returned

memory == <<slot, pkt, freed, lost>>
control == <<created, up, on, stopq, halt, exited>>
vars == <<slot, pkt, freed, lost, dup, txAt, txFrom, sent,
          created, up, on, stopq, halt, exited>>

-----------------------------------------------------------------------------
(* The receiving node of a kind (event_rx), or none of them. *)
Route(k) ==
  CASE k \in {"u_echo_req", "u_echo_res"} -> {GTPU_ECHO}
    [] k \in {"u_rs", "u_data", "u_err_ind"} -> {GTPU_OTHER}
    [] k \in {"c_echo_req", "c_echo_res"} -> {GTPC_ECHO}
    [] k = "c_create0" -> {CREATE_SESSION}
    [] k = "c_create1" -> {CREATE_SESSION_EXT0}
    [] k = "c_modify" -> {MODIFY_BEARER}
    [] k \in {"c_other", "c_v1"} -> {GTPC_OTHER}
    [] OTHER -> {}

(* gtpu_validate_header and gtpc_validate_header, called before event_rx:   *)
(* a datagram they turn down is dropped and changes nothing.               *)
Validated(k) == k \notin {"u_err_ind", "c_rejected"}

ServerOf(k) == IF k \in GtpuKinds THEN GTPU ELSE GTPC

Full(q) == Len(q) >= RingMax

(* Mutant: the packet is inserted at the head. *)
EnqHead(q, p) == IF Full(q) THEN q ELSE <<p>> \o q

(* pgw_enq: a full ring counts a drop and keeps nothing, yet the caller is *)
(* told OK and forgets the packet.                                         *)
Enq(q, p) == IF Full(q) THEN q ELSE Append(q, p)
Dropped(q, p) == IF Full(q) THEN {p} ELSE {}

(* pgw_deq_burst: what is taken from the head and what is left. *)
Taken(q) == SubSeq(q, 1, IF Len(q) < Burst THEN Len(q) ELSE Burst)
Rest(q) == SubSeq(q, (IF Len(q) < Burst THEN Len(q) ELSE Burst) + 1, Len(q))

Elems(s) == {s[i] : i \in 1 .. Len(s)}

(* Packets that came from outside, bounded by MaxInput. *)
Inputs == Cardinality({p \in 1 .. Len(pkt) : pkt[p].origin = p})

-----------------------------------------------------------------------------
Init ==
  /\ slot = [pl \in Places |-> <<>>]
  /\ pkt = <<>>
  /\ freed = {}
  /\ lost = {}
  /\ dup = [n \in Nodes |-> FALSE]
  /\ txAt = 0
  /\ txFrom = 0
  /\ sent = [n \in Works |-> <<>>]
  /\ created = 0
  /\ up = {}
  /\ on = FALSE
  /\ stopq = <<>>
  /\ halt = {}
  /\ exited = {}

-----------------------------------------------------------------------------
(* Main thread: pgw_start, then pgw_stop after a signal. *)

(* __start_udp_server, GTP-C first. *)
StartServer(s) ==
  /\ s \notin up
  /\ s = GTPU => GTPC \in up
  /\ up' = up \cup {s}
  /\ UNCHANGED <<memory, dup, txAt, txFrom, sent, created, on, stopq, halt, exited>>

(* One turn of the loop of node_start_paralell. *)
CreateNode ==
  /\ up = Servers
  /\ created < COUNT
  /\ created' = created + 1
  /\ UNCHANGED <<memory, dup, txAt, txFrom, sent, up, on, stopq, halt, exited>>

(* The end of node_start_paralell: flags |= ON. *)
AllStarted ==
  /\ created = COUNT
  /\ ~on
  /\ on' = TRUE
  /\ UNCHANGED <<memory, dup, txAt, txFrom, sent, created, up, stopq, halt, exited>>

(* Mutant: the last node of the list is forgotten. *)
StopOrderShort == <<GTPC, GTPU>> \o [i \in 1 .. COUNT - 1 |-> COUNT - i]

(* The order of pgw_stop: both servers, then the node list, which          *)
(* node_start_paralell built by pushing every new node at its front.       *)
StopOrder == <<GTPC, GTPU>> \o [i \in 1 .. COUNT |-> COUNT - i]

(* cleanTasks set __halt_process; main calls pgw_stop. *)
BeginStop ==
  /\ Signals
  /\ on
  /\ halt = {}
  /\ stopq = <<>>
  /\ stopq' = StopOrder
  /\ UNCHANGED <<memory, dup, txAt, txFrom, sent, created, up, on, halt, exited>>

HaltNext ==
  /\ stopq # <<>>
  /\ Head(stopq) \notin halt
  /\ halt' = halt \cup {Head(stopq)}
  /\ UNCHANGED <<memory, dup, txAt, txFrom, sent, created, up, on, stopq, exited>>

(* pthread_join returns once the thread has. *)
JoinNext ==
  /\ stopq # <<>>
  /\ Head(stopq) \in exited
  /\ stopq' = Tail(stopq)
  /\ UNCHANGED <<memory, dup, txAt, txFrom, sent, created, up, on, halt, exited>>

-----------------------------------------------------------------------------
(* Server threads. *)

Serving(s) == s \in up /\ s \notin exited

(* event_rx returns at once until node_start_paralell has set flags & ON.  *)
Ready == on

(* __on_receive and event_rx: validate, and once all threads are started   *)
(* allocate a packet and queue it; a packet with no route is freed.        *)
Receive(k) ==
  LET p == Len(pkt) + 1
  IN  /\ Serving(ServerOf(k))
      /\ Validated(k)
      /\ Ready
      /\ Inputs < MaxInput
      /\ pkt' = Append(pkt, [kind |-> k, origin |-> p])
      /\ \/ /\ Route(k) = {}
            /\ freed' = freed \cup {p}
            /\ UNCHANGED <<slot, lost>>
         \/ \E n \in Route(k) :
              /\ slot' = [slot EXCEPT ![Ingress(n)] = Enq(@, p)]
              /\ lost' = lost \cup Dropped(slot[Ingress(n)], p)
              /\ UNCHANGED freed
      /\ UNCHANGED <<dup, txAt, txFrom, sent, control>>

(* event_timer and on_rec, for one keepalive record: gated by the TIMER    *)
(* node's existence and not by the ON flag.                                *)
TimerEcho ==
  LET p == Len(pkt) + 1
  IN  /\ Serving(GTPC)
      /\ created > TIMER
      /\ Inputs < MaxInput
      /\ pkt' = Append(pkt, [kind |-> "timer", origin |-> p])
      /\ slot' = [slot EXCEPT ![Egress(TIMER)] = Enq(@, p)]
      /\ lost' = lost \cup Dropped(slot[Egress(TIMER)], p)
      /\ UNCHANGED <<freed, dup, txAt, txFrom, sent, control>>

(* The event loop ends when halt is seen between two callbacks. *)
ServerExit(s) ==
  /\ Serving(s)
  /\ s \in halt
  /\ exited' = exited \cup {s}
  /\ UNCHANGED <<memory, dup, txAt, txFrom, sent, created, up, on, stopq, halt>>

-----------------------------------------------------------------------------
(* Node threads. *)

Running(n) == n < created /\ n \notin exited

(* The handler's pgw_deq_burst; an empty ring is a turn with nothing done. *)
Deq(n) ==
  /\ Running(n)
  /\ n \in Works
  /\ slot[Local(n)] = <<>>
  /\ n \notin halt
  /\ slot[Ingress(n)] # <<>>
  /\ slot' = [slot EXCEPT ![Local(n)] = Taken(slot[Ingress(n)]),
                          ![Ingress(n)] = Rest(slot[Ingress(n)])]
  /\ UNCHANGED <<pkt, freed, lost, dup, txAt, txFrom, sent, control>>

(* Thread n is in its burst loop at a packet of one of the kinds ks. *)
Handling(n, ks) ==
  /\ Running(n)
  /\ slot[Local(n)] # <<>>
  /\ pkt[Head(slot[Local(n)])].kind \in ks

(* Echo request, first half: a duplicate of the request, type unchanged    *)
(* and addresses swapped, is queued.                                       *)
EchoDuplicate(n) ==
  LET p == Len(pkt) + 1
      r == Head(slot[Local(n)])
  IN  /\ n \in {GTPU_ECHO, GTPC_ECHO}
      /\ Handling(n, {"u_echo_req", "c_echo_req"})
      /\ ~dup[n]
      /\ pkt' = Append(pkt, pkt[r])
      /\ slot' = [slot EXCEPT ![Egress(n)] = Enq(@, p)]
      /\ lost' = lost \cup Dropped(slot[Egress(n)], p)
      /\ dup' = [dup EXCEPT ![n] = TRUE]
      /\ UNCHANGED <<freed, txAt, txFrom, sent, control>>

(* Mutant: the request that became the response is freed as well. *)
EchoRespondFrees(n) ==
  LET r == Head(slot[Local(n)])
  IN  /\ n \in {GTPU_ECHO, GTPC_ECHO}
      /\ Handling(n, {"u_echo_req", "c_echo_req"})
      /\ dup[n]
      /\ slot' = [slot EXCEPT ![Local(n)] = Tail(@), ![Egress(n)] = Enq(@, r)]
      /\ lost' = lost \cup Dropped(slot[Egress(n)], r)
      /\ dup' = [dup EXCEPT ![n] = FALSE]
      /\ freed' = freed \cup {r}
      /\ UNCHANGED <<pkt, txAt, txFrom, sent, control>>

(* Second half: the request itself becomes the response and is queued. *)
EchoRespond(n) ==
  LET r == Head(slot[Local(n)])
  IN  /\ n \in {GTPU_ECHO, GTPC_ECHO}
      /\ Handling(n, {"u_echo_req", "c_echo_req"})
      /\ dup[n]
      /\ pkt' = [pkt EXCEPT ![r].kind = IF n = GTPU_ECHO THEN "u_echo_res" ELSE "c_echo_res"]
      /\ slot' = [slot EXCEPT ![Local(n)] = Tail(@), ![Egress(n)] = Enq(@, r)]
      /\ lost' = lost \cup Dropped(slot[Egress(n)], r)
      /\ dup' = [dup EXCEPT ![n] = FALSE]
      /\ UNCHANGED <<freed, txAt, txFrom, sent, control>>

(* Mutant: the packet is not freed. *)
ConsumeKeeps(n) ==
  /\ n \in Works
  /\ Running(n)
  /\ slot[Local(n)] # <<>>
  /\ pkt[Head(slot[Local(n)])].kind \notin {"u_echo_req", "c_echo_req", "u_rs"}
  /\ slot' = [slot EXCEPT ![Local(n)] = Tail(@)]
  /\ UNCHANGED <<pkt, freed, lost, dup, txAt, txFrom, sent, control>>

(* Nothing is sent for the packet and it is freed: an echo response, a     *)
(* G-PDU that is no router solicitation, a request that cannot be parsed.  *)
Consume(n) ==
  LET r == Head(slot[Local(n)])
  IN  /\ n \in Works
      /\ Running(n)
      /\ slot[Local(n)] # <<>>
      /\ pkt[r].kind \notin {"u_echo_req", "c_echo_req", "u_rs"}
      /\ slot' = [slot EXCEPT ![Local(n)] = Tail(@)]
      /\ freed' = freed \cup {r}
      /\ UNCHANGED <<pkt, lost, dup, txAt, txFrom, sent, control>>

(* A session request: _accept or _denied queues one new packet, then the   *)
(* request is freed.  A router solicitation for a known tunnel: the router *)
(* advertisement is queued, then the solicitation is freed.                *)
Answer(n) ==
  LET p == Len(pkt) + 1
      r == Head(slot[Local(n)])
  IN  /\ \/ n \in Sessions /\ Handling(n, {"c_create0", "c_create1", "c_modify", "c_other", "c_v1"})
         \/ n = GTPU_OTHER /\ Handling(n, {"u_rs"})
      /\ pkt' = Append(pkt, [pkt[r] EXCEPT !.kind = "answer"])
      /\ slot' = [slot EXCEPT ![Egress(n)] = Enq(@, p), ![Local(n)] = Tail(@)]
      /\ lost' = lost \cup Dropped(slot[Egress(n)], p)
      /\ freed' = freed \cup {r}
      /\ UNCHANGED <<dup, txAt, txFrom, sent, control>>

(* A router solicitation for an unknown tunnel: the advertisement that was *)
(* allocated before the lookup is freed, then the solicitation.            *)
UnknownTunnel ==
  LET n == GTPU_OTHER
      p == Len(pkt) + 1
      r == Head(slot[Local(n)])
  IN  /\ Handling(n, {"u_rs"})
      /\ pkt' = Append(pkt, [pkt[r] EXCEPT !.kind = "answer"])
      /\ slot' = [slot EXCEPT ![Local(n)] = Tail(@)]
      /\ freed' = freed \cup {p, r}
      /\ UNCHANGED <<lost, dup, txAt, txFrom, sent, control>>

(* A router solicitation for a tunnel whose UE address has a non-zero high *)
(* octet: "break" leaves the burst loop, so neither the advertisement nor  *)
(* any packet left in the burst is ever freed.                             *)
BreakBurst ==
  LET n == GTPU_OTHER
      p == Len(pkt) + 1
      r == Head(slot[Local(n)])
  IN  /\ Handling(n, {"u_rs"})
      /\ pkt' = Append(pkt, [pkt[r] EXCEPT !.kind = "answer"])
      /\ slot' = [slot EXCEPT ![Local(n)] = <<>>]
      /\ lost' = lost \cup {p} \cup Elems(slot[Local(n)])
      /\ UNCHANGED <<freed, dup, txAt, txFrom, sent, control>>

(* Mutant: the halt flag is also looked at inside the burst loop. *)
NodeExitMidBurst(n) ==
  /\ Running(n)
  /\ n \in halt
  /\ exited' = exited \cup {n}
  /\ UNCHANGED <<memory, dup, txAt, txFrom, sent, created, up, on, stopq, halt>>

(* node_thread leaves its loop when halt is seen between two EVENT_ENTRY.  *)
NodeExit(n) ==
  /\ Running(n)
  /\ n \in halt
  /\ slot[Local(n)] = <<>>
  /\ n = TX => txAt = 0
  /\ exited' = exited \cup {n}
  /\ UNCHANGED <<memory, dup, txAt, txFrom, sent, created, up, on, stopq, halt>>

-----------------------------------------------------------------------------
(* The TX thread: event_tx. *)

(* Mutant: the table of rings lacks the one of GTPC_ECHO.                 *)
TxDeqSkip ==
  /\ Running(TX)
  /\ slot[Local(TX)] = <<>>
  /\ txAt = 0 => TX \notin halt
  /\ txFrom' = txAt
  /\ txAt' = IF txAt = TIMER THEN CREATE_SESSION_EXT0 ELSE (txAt + 1) % TX
  /\ slot' = [slot EXCEPT ![Local(TX)] = Taken(slot[Egress(txAt)]),
                          ![Egress(txAt)] = Rest(slot[Egress(txAt)])]
  /\ UNCHANGED <<pkt, freed, lost, dup, sent, control>>

TxDeq ==
  /\ Running(TX)
  /\ slot[Local(TX)] = <<>>
  /\ txAt = 0 => TX \notin halt
  /\ txFrom' = txAt
  /\ txAt' = (txAt + 1) % TX
  /\ slot' = [slot EXCEPT ![Local(TX)] = Taken(slot[Egress(txAt)]),
                          ![Egress(txAt)] = Rest(slot[Egress(txAt)])]
  /\ UNCHANGED <<pkt, freed, lost, dup, sent, control>>

(* pgw_send or pgw_send_sock; whatever it returns the packet is freed. *)
TxSend ==
  LET r == Head(slot[Local(TX)])
  IN  /\ Running(TX)
      /\ slot[Local(TX)] # <<>>
      /\ slot' = [slot EXCEPT ![Local(TX)] = Tail(@)]
      /\ sent' = [sent EXCEPT ![txFrom] = Append(@, r)]
      /\ freed' = freed \cup {r}
      /\ UNCHANGED <<pkt, lost, dup, txAt, txFrom, control>>

-----------------------------------------------------------------------------
MainStep ==
  \/ \E s \in Servers : StartServer(s)
  \/ CreateNode
  \/ AllStarted
  \/ HaltNext
  \/ JoinNext

Handle(n) ==
  \/ EchoDuplicate(n)
  \/ EchoRespond(n)
  \/ Consume(n)
  \/ Answer(n)

Next ==
  \/ MainStep
  \/ BeginStop
  \/ \E k \in Kinds : Receive(k)
  \/ TimerEcho
  \/ \E s \in Servers : ServerExit(s)
  \/ \E n \in Works : Deq(n)
  \/ \E n \in Works : Handle(n)
  \/ UnknownTunnel
  \/ BreakBurst
  \/ \E n \in Nodes : NodeExit(n)
  \/ TxDeq
  \/ TxSend

Spec == Init /\ [][Next]_vars

(* Every thread that can take a step takes one in the end: the main thread *)
(* (but not the signal), the event loops once halted, the node loops.      *)
Fairness ==
  /\ WF_vars(MainStep)
  /\ \A s \in Servers : WF_vars(ServerExit(s))
  /\ \A n \in Works : WF_vars(Deq(n) \/ Handle(n) \/ NodeExit(n)
                              \/ (n = GTPU_OTHER /\ (UnknownTunnel \/ BreakBurst)))
  /\ WF_vars(TxDeq \/ TxSend \/ NodeExit(TX))

FairSpec == Spec /\ Fairness

-----------------------------------------------------------------------------
Packets == 1 .. Len(pkt)
PacketKinds == GtpuKinds \cup GtpcKinds \cup {"timer", "answer"}
Threads == Nodes \cup Servers

(* TypeOK: the rings and bursts hold packets that were allocated, and the  *)
(* indices of the TX loop stay within the table of rings.                  *)
TypeOK ==
  /\ slot \in [Places -> Seq(Packets)]
  /\ \A n \in Nodes : /\ Len(slot[Ingress(n)]) <= RingMax
                      /\ Len(slot[Egress(n)]) <= RingMax
                      /\ Len(slot[Local(n)]) <= Burst
  /\ pkt \in Seq([kind : PacketKinds, origin : Nat])
  /\ freed \subseteq Packets
  /\ lost \subseteq Packets
  /\ dup \in [Nodes -> BOOLEAN]
  /\ txAt \in Works
  /\ txFrom \in Works
  /\ sent \in [Works -> Seq(Packets)]
  /\ created \in 0 .. COUNT
  /\ up \subseteq Servers
  /\ on \in BOOLEAN
  /\ stopq \in Seq(Threads)
  /\ halt \subseteq Threads
  /\ exited \subseteq Threads

(* SingleOwner: a packet is in one place only: one position of one ring or *)
(* of one thread's burst, or freed, or lost.  No thread can reach a packet *)
(* that was freed (use after free, double free), and no two threads can    *)
(* reach the same packet (pgw_enq, pgw_deq_burst, pgw_free_packet).        *)
SingleOwner ==
  /\ \A a, b \in Places : \A i \in DOMAIN slot[a], j \in DOMAIN slot[b] :
       slot[a][i] = slot[b][j] => a = b /\ i = j
  /\ \A a \in Places : \A i \in DOMAIN slot[a] :
       slot[a][i] \notin freed /\ slot[a][i] \notin lost
  /\ freed \cap lost = {}

(* Accounted: the counters of pgw_alloc_packet and pgw_free_packet differ  *)
(* by the packets in flight and the lost ones; nothing else disappears.    *)
Accounted ==
  Packets = freed \cup lost \cup UNION {Elems(slot[a]) : a \in Places}

(* AnswersInOrder: along a node's pipe (sent, in TX's burst, egress ring,  *)
(* the thread's burst, ingress ring) the requests never overtake: a node's *)
(* answers leave in the order its requests arrived, whatever the           *)
(* interleaving with TX, and an echo's duplicate leaves before its answer. *)
Origins(s) == [i \in 1 .. Len(s) |-> pkt[s[i]].origin]
Pipe(n) == Origins(sent[n] \o (IF txFrom = n THEN slot[Local(TX)] ELSE <<>>)
                   \o slot[Egress(n)] \o slot[Local(n)] \o slot[Ingress(n)])
AnswersInOrder ==
  \A n \in Works : LET q == Pipe(n)
                   IN  \A i, j \in 1 .. Len(q) : i < j => q[i] <= q[j]

(* JoinedIsIdle: a node thread that pgw_stop has joined left nothing in    *)
(* its burst and no half answered echo.                                    *)
JoinedIsIdle ==
  \A n \in Nodes : n \in exited => slot[Local(n)] = <<>> /\ ~dup[n]

(* Drained: while no stop was asked for, every packet received is handled, *)
(* and every answer is sent, in the end: when the arrivals pause, all that *)
(* was allocated is freed or was dropped by a full ring.                   *)
Drained == []<>(Packets = freed \cup lost \/ stopq # <<>> \/ exited # {})

(* StopEnds: pgw_stop joins every thread: the order in which it halts them *)
(* leaves nobody waiting for somebody who has left.                        *)
StopEnds == (stopq # <<>>) ~> (exited = Threads /\ stopq = <<>>)
=============================================================================
