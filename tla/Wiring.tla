------------------------------- MODULE Wiring -------------------------------
(* The set-up of the data plane (dataplane/src/app/app.cc, app_v2.cc): one  *)
(* thread runs the calls of the compiled-in architecture, which place the   *)
(* core objects, join them by software rings and start the NIC ports; then  *)
(* the core threads are launched.  rte_panic and rte_exit end the process.  *)
EXTENDS Architectures, SequencesExt

CONSTANTS Archs,              \* the architectures of the build
          TAPDUPLICTE_MAX     \* rings a tap core keeps per direction

ASSUME ArchAssumption == Archs \subseteq ArchsV1 \cup ArchsV2
ASSUME TapAssumption == TAPDUPLICTE_MAX \in Nat

Primary == "primary"
Secondary == "secondary"

VARIABLES
  arch,     \* ARCH
  proc,     \* rte_eal_process_type()
  calls,    \* the set-up calls still to be made
  cores,    \* cores_: lcore -> core object
  groups,   \* keys of vcores_map_: lcores that run a group (version 2)
  vcores,   \* vcores_: lcore -> lcore of the object whose VirtualCycle it runs
  slots,    \* lcore -> ORDER -> rings the object holds there
  rings,    \* names of the rings created
  stat,     \* stat_
  rxqs,     \* <<port, queue>> of the receive queues set up
  started,  \* NIC ports started
  state     \* "setup", "panic", "linkdown", "running"
wiringVars == <<arch, proc, calls, cores, groups, vcores, slots, rings, stat, rxqs, started, state>>

WiringInit ==
  /\ arch \in Archs
  /\ proc \in {Primary} \cup (IF arch \in ArchsV2 THEN {Secondary} ELSE {})
  /\ calls = IF arch \in ArchsV2 THEN CallsV2(arch) ELSE CallsV1(arch)
  /\ cores = <<>> /\ groups = {} /\ vcores = <<>>
  /\ slots = <<>> /\ rings = {}
  /\ stat = 0 /\ rxqs = {} /\ started = {}
  /\ state = "setup"

(* The call being made. *)
Call == Head(calls)
Calling(op) == state = "setup" /\ calls # <<>> /\ Call.op = op
Returns == calls' = Tail(calls) /\ state' = state
(* rte_panic and rte_exit end the process. *)
Dies(how) ==
  /\ state' = how
  /\ UNCHANGED <<calls, cores, groups, vcores, slots, rings, stat, rxqs, started>>

-----------------------------------------------------------------------------
(* SetRingAddr of the classes: the orders an object accepts and how it      *)
(* keeps the ring.  "one": a pointer, overwritten; "list": a vector;        *)
(* "few": an array that silently keeps the first TAPDUPLICTE_MAX.           *)
CoreRxSlots == [TO |-> "list"]
CoreRxDistributorSlots == [TO |-> "list", EXTEND |-> "one"]
(* Mutant: the sending core reads from one ring only. *)
CoreTxSlotsOne == [FROM |-> "one"]
CoreTxSlots == [FROM |-> "list"]
CoreTapRxSlots == [TO |-> "one", TO_00 |-> "few", TO_01 |-> "few", FROM |-> "one"]
CoreTapTxSlots == [TO |-> "one", FROM_00 |-> "few", TO_00 |-> "few"]
CoreEncapWorkerSlots == [FROM |-> "one", TO |-> "one"]
CoreGretermWorkerSlots == [FROM |-> "one", TO |-> "one"]
(* Mutant: the ring to the extension is not taken up. *)
CoreCounterWorkerSlotsOwn == [FROM |-> "one", TO |-> "one"]
CoreCounterWorkerSlots == [FROM |-> "one", TO |-> "one", EXTEND |-> "one"]
CoreCounterLogWorkerSlots == [FROM |-> "one", TO |-> "one"]
CoreTransferWorkerSlots == [FROM |-> "one", TO |-> "one"]
CorePgwBaseWorkerSlots == [FROM |-> "one", TO |-> "one", EXTEND |-> "one", FROM_00 |-> "one"]

Slots(class) ==
  CASE class = "CoreRx" -> CoreRxSlots
    [] class = "CoreRxDistributor" -> CoreRxDistributorSlots
    [] class = "CoreTx" -> CoreTxSlots
    [] class = "CoreTapRx" -> CoreTapRxSlots
    [] class = "CoreTapTx" -> CoreTapTxSlots
    [] class = "CoreEncapWorker" -> CoreEncapWorkerSlots
    [] class = "CoreGretermWorker" -> CoreGretermWorkerSlots
    [] class \in {"CoreCounterWorker", "CoreCounterIngressWorker", "CoreCounterEgressWorker"} -> CoreCounterWorkerSlots
    [] class = "CoreCounterLogWorker" -> CoreCounterLogWorkerSlots
    [] class = "CoreTransferWorker" -> CoreTransferWorkerSlots
    [] OTHER -> CorePgwBaseWorkerSlots

Kept(kind, held, ring) ==
  CASE kind = "one" -> <<ring>>
    [] kind = "list" -> Append(held, ring)
    [] kind = "few" -> IF Len(held) < TAPDUPLICTE_MAX THEN Append(held, ring) ELSE held

Accepts(lcore, order) == order \in DOMAIN Slots(cores[lcore].class)
SetRingAddr(s, lcore, order, ring) ==
  [s EXCEPT ![lcore][order] = Kept(Slots(cores[lcore].class)[order], @, ring)]

-----------------------------------------------------------------------------
(* App::Find without ext *)
Find(lcore) == lcore \in DOMAIN cores
Type(lcore) == TypeOf[cores[lcore].class]
(* Mutant: only transfer workers may have a virtual core. *)
VirtualTypesTransfer == {"WORKER_TRANSFER"}
VirtualTypes == {"WORKER_TRANSFER", "PGW_EGRESS", "PGW_INGRESS"}

(* Entering objects with different lcores into cores_, and into vcores_     *)
(* those that need a second lcore.                                          *)
Placed(new) == [l \in {c.lcore : c \in new} |-> CHOOSE c \in new : c.lcore = l]
Register(new) ==
  /\ cores' = Placed(new) @@ cores
  /\ slots' = [l \in DOMAIN Placed(new) |-> [o \in DOMAIN Slots(Placed(new)[l].class) |-> <<>>]] @@ slots
  /\ vcores' = LET two == {c \in new : TypeOf[c.class] \in VirtualTypes}
               IN [v \in {c.vcore : c \in two} |-> (CHOOSE c \in two : c.vcore = v).lcore] @@ vcores

AppAdd ==
  /\ Calling("Add")
  /\ IF stat # 0 \/ Find(Call.core.lcore) \/ Call.core.lcore = 0
     THEN Dies("panic")
     ELSE /\ Register({Call.core})
          /\ Returns
          /\ UNCHANGED <<groups, rings, stat, rxqs, started>>
  /\ UNCHANGED <<arch, proc>>

AppAddCores ==
  /\ Calling("AddCores")
  /\ Register(ToSet(Call.cores))
  /\ groups' = groups \cup {Call.lcore}
  /\ Returns
  /\ UNCHANGED <<arch, proc, rings, stat, rxqs, started>>

(* App::Connect: which order the two ends of a link give its ring. *)
Orders ==
  LET forward == <<"TO", "FROM">>
      spill == <<"EXTEND", "FROM_00">>
  IN [RX |-> [WORKER |-> forward, PGW_INGRESS |-> forward, PGW_EGRESS |-> forward, TAPTX |-> spill],
      WORKER |-> [TX |-> forward, WORKER_TRANSFER |-> forward],
      PGW_INGRESS |-> [TAPTX |-> spill, TX |-> forward, COUNTER |-> forward],
      PGW_EGRESS |-> [TAPTX |-> spill, TX |-> forward, COUNTER |-> forward],
      TAPRX |-> [PGW_INGRESS |-> <<"TO_00", "FROM_00">>, PGW_EGRESS |-> <<"TO_01", "FROM_00">>, TX |-> forward],
      COUNTER |-> [WORKER_TRANSFER |-> forward, TX |-> <<"EXTEND", "FROM">>]]

(* The ring between two cores, and the one between the two lcores of a      *)
(* transfer worker; a name can be created once.                             *)
Ring(fm, to) == <<"ring", fm, to>>
Internal(fm, to) == <<"int", fm, to>>
NewRings(fm, to) == {Ring(fm, to)} \cup IF Type(to) = "WORKER_TRANSFER" THEN {Internal(fm, to)} ELSE {}
Joined(s, fm, to, orders) ==
  LET there == SetRingAddr(SetRingAddr(s, fm, orders[1], Ring(fm, to)), to, orders[2], Ring(fm, to))
  IN IF Type(to) = "WORKER_TRANSFER" THEN SetRingAddr(there, to, "TO", Internal(fm, to)) ELSE there

Connectable(fm, to) ==
  /\ stat = 0
  /\ Find(fm) /\ Find(to)
  /\ Type(fm) \in DOMAIN Orders /\ Type(to) \in DOMAIN Orders[Type(fm)]
  /\ NewRings(fm, to) \cap rings = {}
  /\ Accepts(fm, Orders[Type(fm)][Type(to)][1]) /\ Accepts(to, Orders[Type(fm)][Type(to)][2])

AppConnect ==
  /\ Calling("Connect")
  /\ IF Connectable(Call.fm, Call.to)
     THEN /\ slots' = Joined(slots, Call.fm, Call.to, Orders[Type(Call.fm)][Type(Call.to)])
          /\ rings' = rings \cup NewRings(Call.fm, Call.to)
          /\ Returns
          /\ UNCHANGED <<cores, groups, vcores, stat, rxqs, started>>
     ELSE Dies("panic")
  /\ UNCHANGED <<arch, proc>>

AppCommit ==
  /\ Calling("Commit")
  /\ stat' = stat + 1
  /\ Returns
  /\ UNCHANGED <<arch, proc, cores, groups, vcores, slots, rings, rxqs, started>>

(* WaitLinkup: the link comes up, or the process gives up after 300 s. *)
LinkUp(port) == started' = started \cup {port} /\ Returns
LinkDown == Dies("linkdown")

(* The receive queues of the port are those of the cores of the call; its   *)
(* rte_eth_dev_configure fails once the port is started, and setting up a   *)
(* queue fails that was not configured.                                     *)
Queue(lcore) == <<cores[lcore].port, cores[lcore].queue>>
Queues(bound) == {Queue(bound[i]) : i \in 1..Len(bound)}
BindsNic(bound) ==
  /\ stat # 0
  /\ \A i \in 1..Len(bound) : Find(bound[i]) /\ cores[bound[i]].queue < Len(bound)
  /\ Type(bound[1]) \in {"RX", "TX"}
  /\ cores[bound[1]].port \notin started
AppBindNic ==
  LET bound == Call.cores
      link == cores[bound[Len(bound)]].port
  IN /\ Calling("BindNic")
     /\ IF proc = Secondary \/ BindsNic(bound)
        THEN \/ /\ rxqs' = rxqs \cup IF proc = Secondary THEN {} ELSE Queues(bound)
                /\ LinkUp(link)
                /\ UNCHANGED <<cores, groups, vcores, slots, rings, stat>>
             \/ LinkDown
        ELSE Dies("panic")
     /\ UNCHANGED <<arch, proc>>

(* Run: the threads start, each calls BeforeCycle of its objects; the one   *)
(* of a tap reader insists on two rings towards egress workers.             *)
BeforeCycles == \A l \in DOMAIN cores : cores[l].class = "CoreTapRx" => Len(slots[l]["TO_01"]) = TAPDUPLICTE_MAX
AppRun ==
  /\ state = "setup" /\ calls = <<>>
  /\ state' = IF BeforeCycles THEN "running" ELSE "panic"
  /\ UNCHANGED <<arch, proc, calls, cores, groups, vcores, slots, rings, stat, rxqs, started>>

WiringNext == AppAdd \/ AppAddCores \/ AppConnect \/ AppCommit \/ AppBindNic \/ AppRun
WiringSpec == WiringInit /\ [][WiringNext]_wiringVars

-----------------------------------------------------------------------------
(* Dispatch and DispatchV2: an lcore that has no object (version 1) or no   *)
(* group (version 2) of its own runs the VirtualCycle of its vcores_ entry. *)
RunsVirtual(l) ==
  \E v \in DOMAIN vcores : vcores[v] = l /\ v \notin IF arch \in ArchsV2 THEN groups ELSE DOMAIN cores

Held(l, orders) == UNION {ToSet(slots[l][o]) : o \in orders \cap DOMAIN slots[l]}
FilledBy(l) == Held(l, {"TO", "TO_00", "TO_01", "EXTEND"})
DrainedBy(l) ==
  Held(l, {"FROM", "FROM_00"})
    \cup IF Type(l) = "WORKER_TRANSFER" /\ RunsVirtual(l) THEN Held(l, {"TO"}) ELSE {}

(* No rte_panic or rte_exit in the set-up of an architecture of the build:  *)
(* every call of App::Add, Connect, Commit, BindNic and every BeforeCycle   *)
(* is legal in the state the calls before it left.                          *)
Starts == state # "panic"

(* Once the threads run, the rings that some object enqueues to are the     *)
(* rings that some object dequeues from: Connect joined both ends, and no   *)
(* later Connect made an object forget its ring.                            *)
RingsJoined ==
  state = "running" => UNION {FilledBy(l) : l \in DOMAIN cores} = UNION {DrainedBy(l) : l \in DOMAIN cores}

(* Once the threads run, every object that was given an lcore for its       *)
(* VirtualCycle has one that runs it.                                       *)
VirtualOwned ==
  state = "running" => \A l \in DOMAIN cores : cores[l].vcore # None => RunsVirtual(l)
=============================================================================
