--------------------------- MODULE Architectures ----------------------------
(* The set-up calls of the compiled-in architectures (dataplane/src/arch):  *)
(* which core objects are placed, how they are connected, which NIC ports   *)
(* they bind.  The number of an architecture is the ARCH macro that selects *)
(* it (App::GetInstance, AppV2::AppV2).                                     *)
EXTENDS Integers, Sequences

(* A core object: its class, its lcore, the NIC port and queue it serves    *)
(* and the lcore of its virtual cycle; None where the class has none.       *)
None == -1
Core(class, lcore, port, queue, vcore) ==
  [class |-> class, lcore |-> lcore, port |-> port, queue |-> queue, vcore |-> vcore]
Rx(port, queue, lcore) == Core("CoreRx", lcore, port, queue, None)
RxDistributor(port, queue, lcore) == Core("CoreRxDistributor", lcore, port, queue, None)
Tx(port, lcore) == Core("CoreTx", lcore, port, 0, None)
Plain(class, lcore) == Core(class, lcore, None, None, None)
Virtual(class, lcore, vcore) == Core(class, lcore, None, None, vcore)

(* GetType() of each class. *)
TypeOf ==
  [CoreRx |-> "RX", CoreRxDistributor |-> "RX", CoreTx |-> "TX",
   CoreTapRx |-> "TAPRX", CoreTapTx |-> "TAPTX",
   CoreEncapWorker |-> "WORKER", CoreGretermWorker |-> "WORKER", CoreCounterWorker |-> "WORKER",
   CoreCounterIngressWorker |-> "COUNTER", CoreCounterEgressWorker |-> "COUNTER",
   CoreCounterLogWorker |-> "WORKER_TRANSFER", CoreTransferWorker |-> "WORKER_TRANSFER",
   CorePgwIngressWorker |-> "PGW_INGRESS", CorePgwEgressWorker |-> "PGW_EGRESS",
   CorePgwIngressDistributorWorker |-> "PGW_INGRESS",
   CorePgwEgressDistributorWorker |-> "PGW_EGRESS",
   CorePgwIngressTunnelWorker |-> "PGW_INGRESS", CorePgwEgressTunnelWorker |-> "PGW_EGRESS"]

(* One call of the set-up code; BindNic names the cores of its rx queues.   *)
Add(core) == [op |-> "Add", core |-> core]
AddCores(lcore, cores) == [op |-> "AddCores", lcore |-> lcore, cores |-> cores]
Connect(link) == [op |-> "Connect", fm |-> link[1], to |-> link[2]]
Commit == [op |-> "Commit"]
BindNic(cores) == [op |-> "BindNic", cores |-> cores]

Each(Call(_), args) == [i \in 1..Len(args) |-> Call(args[i])]
(* The shape every version 1 architecture has: place, connect, commit, bind. *)
SetUp(cores, links, nics) ==
  Each(Add, cores) \o Each(Connect, links) \o <<Commit>> \o Each(BindNic, nics)

(* All cores of `tos' fed by `fm', and all cores of `fms' feeding `to'.     *)
FanOut(fm, tos) == [i \in 1..Len(tos) |-> <<fm, tos[i]>>]
FanIn(fms, to) == [i \in 1..Len(fms) |-> <<fms[i], to>>]
Workers(class, lcores) == [i \in 1..Len(lcores) |-> Plain(class, lcores[i])]

-----------------------------------------------------------------------------
encap_vbox_4 ==
  SetUp(<<Rx(0, 0, 0)>> \o Workers("CoreEncapWorker", <<1, 2>>) \o <<Tx(1, 3)>>,
        FanOut(0, <<1, 2>>) \o FanIn(<<1, 2>>, 3),
        << <<0>>, <<3>> >>)

encap_a05533 ==
  SetUp(<<Rx(0, 0, 14)>> \o Workers("CoreEncapWorker", <<15, 16, 17, 18>>)
          \o <<Tx(1, 19), Rx(1, 0, 20), Plain("CoreEncapWorker", 21), Tx(0, 22)>>,
        FanOut(14, <<15, 16, 17, 18>>) \o FanIn(<<15, 16, 17, 18>>, 19)
          \o << <<20, 21>>, <<21, 22>> >>,
        << <<14>>, <<19>> >>)

(* Two receive queues of one port, two counters, two senders over TCP. *)
count_a05533 ==
  SetUp(<<Rx(0, 0, 14), Rx(0, 1, 15)>> \o Workers("CoreCounterWorker", <<16, 17>>)
          \o <<Virtual("CoreTransferWorker", 18, 42), Virtual("CoreTransferWorker", 19, 43)>>,
        << <<14, 16>>, <<15, 17>>, <<16, 18>>, <<17, 19>> >>,
        << <<14, 15>> >>)

pgw_ingress_a05533 ==
  SetUp(<<Rx(0, 0, 14)>> \o [i \in 1..4 |-> Virtual("CorePgwIngressWorker", 14 + i, 10)]
          \o <<Tx(1, 19)>>,
        FanOut(14, <<15, 16, 17, 18>>) \o FanIn(<<15, 16, 17, 18>>, 19),
        << <<14>>, <<19>> >>)

pgw_egress_a05533 ==
  SetUp(<<Rx(0, 0, 14)>> \o [i \in 1..4 |-> Virtual("CorePgwEgressWorker", 14 + i, 10)]
          \o <<Tx(1, 19)>>,
        FanOut(14, <<15, 16, 17, 18>>) \o FanIn(<<15, 16, 17, 18>>, 19),
        << <<14>>, <<19>> >>)

(* One port of a PGW with a tap device: receiver, tap reader, tap writer,   *)
(* ingress and egress worker with their virtual cores, sender.              *)
PortCores(port, rx, tap_rx, tap_tx, ingress, ingress_v, egress, egress_v, tx) ==
  <<RxDistributor(port, 0, rx), Plain("CoreTapRx", tap_rx), Plain("CoreTapTx", tap_tx),
    Virtual("CorePgwIngressDistributorWorker", ingress, ingress_v),
    Virtual("CorePgwEgressDistributorWorker", egress, egress_v), Tx(port, tx)>>
PortLinks(rx, tap_rx, tap_tx, ingress, egress, tx) ==
  << <<rx, tap_tx>>, <<rx, ingress>>, <<rx, egress>>, <<ingress, tx>>, <<ingress, tap_tx>>,
     <<tap_rx, ingress>>, <<tap_rx, tx>>, <<tap_rx, egress>>, <<egress, tx>>, <<egress, tap_tx>> >>

pgw_ingress_distributor_a05536_1port ==
  SetUp(PortCores(0, 14, 19, 18, 16, 20, 17, 21, 15), PortLinks(14, 19, 18, 16, 17, 15),
        << <<14>> >>)

pgw_a05404_1port ==
  SetUp(PortCores(0, 1, 11, 9, 5, 13, 7, 15, 3), PortLinks(1, 11, 9, 5, 7, 3),
        << <<1>> >>)

pgw_a05404_2port ==
  Each(Add, PortCores(0, 1, 11, 9, 5, 13, 7, 15, 3)) \o Each(Connect, PortLinks(1, 11, 9, 5, 7, 3))
    \o SetUp(PortCores(1, 25, 35, 33, 29, 37, 31, 39, 27), PortLinks(25, 35, 33, 29, 31, 27),
             << <<1>>, <<25>> >>)

(* Each tap reader warms the workers of both ports up. *)
pgw_a05404_2port_x_warmup ==
  Each(Add, PortCores(0, 1, 11, 9, 5, 13, 7, 15, 3)) \o Each(Connect, PortLinks(1, 11, 9, 5, 7, 3))
    \o SetUp(PortCores(1, 25, 35, 33, 29, 37, 31, 39, 27),
             PortLinks(25, 35, 33, 29, 31, 27)
               \o << <<11, 29>>, <<11, 31>>, <<35, 5>>, <<35, 7>> >>,
             << <<1>>, <<25>> >>)

tunnel_a05406 ==
  SetUp(<<Rx(1, 0, 1)>> \o Workers("CoreEncapWorker", <<3, 5, 7, 9>>) \o <<Tx(0, 11), Rx(0, 0, 25)>>
          \o Workers("CoreGretermWorker", <<27, 29, 31, 33>>) \o <<Tx(1, 35)>>,
        FanOut(1, <<3, 5, 7, 9>>) \o FanIn(<<3, 5, 7, 9>>, 11)
          \o FanOut(25, <<27, 29, 31, 33>>) \o FanIn(<<27, 29, 31, 33>>, 35),
        << <<1>>, <<25>> >>)

-----------------------------------------------------------------------------
(* Counting of mirrored traffic into the database. *)
Log(lcore, vcore) == Virtual("CoreCounterLogWorker", lcore, vcore)

count_a05534_direct_db ==
  SetUp(<<Rx(0, 0, 14), Rx(0, 1, 15)>> \o Workers("CoreCounterWorker", <<16, 17>>)
          \o <<Log(18, 20), Log(19, 21)>>,
        << <<14, 16>>, <<15, 17>>, <<16, 18>>, <<17, 19>> >>,
        << <<14, 15>> >>)

count_a05411_direct_db ==
  SetUp(<<Rx(0, 0, 25), Rx(0, 1, 33)>> \o Workers("CoreCounterWorker", <<27, 35>>)
          \o <<Log(29, 31), Log(37, 39), Rx(1, 0, 1), Rx(1, 1, 9)>>
          \o Workers("CoreCounterWorker", <<3, 11>>) \o <<Log(5, 7), Log(13, 15)>>,
        << <<25, 27>>, <<33, 35>>, <<27, 29>>, <<35, 37>>,
           <<1, 3>>, <<9, 11>>, <<3, 5>>, <<11, 13>> >>,
        << <<25, 33>>, <<1, 9>> >>)

MultiCores(port, o) ==
  <<Rx(port, 0, 1 + o)>> \o [i \in 1..6 |-> Plain("CoreCounterWorker", 2 * i + 1 + o)]
    \o [i \in 1..6 |-> Log(4 * i + 11 + o, 4 * i + 13 + o)]
MultiLinks(o) ==
  [i \in 1..6 |-> <<1 + o, 2 * i + 1 + o>>] \o [i \in 1..6 |-> <<2 * i + 1 + o, 4 * i + 11 + o>>]
count_a05411_multi_worker ==
  SetUp(MultiCores(0, 0) \o MultiCores(1, 1), MultiLinks(0) \o MultiLinks(1), << <<1>>, <<2>> >>)

-----------------------------------------------------------------------------
(* Version 2: two groups of five objects, each group on one lcore.  A group *)
(* with base lcore b receives on one port and sends on another; w and l are *)
(* the lcores of the virtual cycles of its tunnel worker and of its logger. *)
TunnelCores(dir, counter, rx_port, tx_port, b, w, l) ==
  <<Rx(rx_port, 0, b), Virtual(dir, b + 1, w), Plain(counter, b + 2), Tx(tx_port, b + 3), Log(b + 4, l)>>
IngressCores(rx, tx, b, w, l) ==
  TunnelCores("CorePgwIngressTunnelWorker", "CoreCounterIngressWorker", rx, tx, b, w, l)
EgressCores(rx, tx, b, w, l) ==
  TunnelCores("CorePgwEgressTunnelWorker", "CoreCounterEgressWorker", rx, tx, b, w, l)
TunnelLinks(b) == << <<b, b + 1>>, <<b + 1, b + 2>>, <<b + 2, b + 3>>, <<b + 2, b + 4>> >>
Tunnel(g1, ingress, g2, egress, b) ==
  <<AddCores(g1, ingress), AddCores(g2, egress)>>
    \o Each(Connect, TunnelLinks(b) \o TunnelLinks(b + 5)) \o <<Commit, BindNic(<<b>>), BindNic(<<b + 5>>)>>

pgw_a05532_1gx_tunnel ==
  Tunnel(4, IngressCores(0, 1, 1, 48, 49), 6, EgressCores(1, 0, 6, 50, 51), 1)
pgw_a05832_tunnel_00_01 ==
  Tunnel(8, IngressCores(0, 1, 1, 28, 60), 10, EgressCores(1, 0, 6, 30, 62), 1)
pgw_a05832_tunnel_02_03 ==
  Tunnel(12, IngressCores(3, 2, 11, 28, 60), 14, EgressCores(2, 3, 16, 30, 62), 11)
pgw_a05832_tunnel_04_05 ==
  Tunnel(9, IngressCores(4, 5, 21, 29, 61), 11, EgressCores(5, 4, 26, 31, 63), 21)
pgw_a05832_tunnel_06_07 ==
  Tunnel(13, IngressCores(6, 7, 31, 29, 61), 15, EgressCores(7, 6, 36, 31, 63), 31)
pgw_a05832_tunnel_08_09 ==
  Tunnel(17, IngressCores(8, 9, 41, 29, 61), 19, EgressCores(9, 8, 46, 31, 63), 41)
pgw_a05832_tunnel_10_11 ==
  Tunnel(21, IngressCores(10, 11, 51, 29, 61), 23, EgressCores(10, 10, 56, 31, 63), 51)

-----------------------------------------------------------------------------
(* ARCH == 0 .. 14: the files included by App::GetInstance. *)
ArchsV1 == 0..4 \cup 6..10 \cup 12..14
CallsV1(arch) ==
  CASE arch = 0 -> encap_vbox_4
    [] arch = 1 -> encap_a05533
    [] arch = 2 -> count_a05533
    [] arch = 3 -> pgw_ingress_a05533
    [] arch = 4 -> pgw_egress_a05533
    [] arch = 6 -> pgw_ingress_distributor_a05536_1port
    [] arch = 7 -> pgw_a05404_1port
    [] arch = 8 -> pgw_a05404_2port
    [] arch = 9 -> tunnel_a05406
    [] arch = 10 -> pgw_a05404_2port_x_warmup
    [] arch = 12 -> count_a05534_direct_db
    [] arch = 13 -> count_a05411_direct_db
    [] arch = 14 -> count_a05411_multi_worker

(* ARCH == 15 .. 21: the files included by the constructor of AppV2. *)
ArchsV2 == 15..21
CallsV2(arch) ==
  CASE arch = 15 -> pgw_a05532_1gx_tunnel
    [] arch = 16 -> pgw_a05832_tunnel_00_01
    [] arch = 17 -> pgw_a05832_tunnel_02_03
    [] arch = 18 -> pgw_a05832_tunnel_04_05
    [] arch = 19 -> pgw_a05832_tunnel_06_07
    [] arch = 20 -> pgw_a05832_tunnel_08_09
    [] arch = 21 -> pgw_a05832_tunnel_10_11
=============================================================================
