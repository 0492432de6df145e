---------------------------- MODULE TunnelPath ------------------------------
(***************************************************************************)
(* One direction of a tunnel architecture (ARCH 15 .. 21).  A group of     *)
(* cores runs in one thread, each core's Cycle in its turn (AppV2::        *)
(* DispatchV2): Rx, tunnel worker, counter, Tx.  The worker looks a packet *)
(* up in its table of sessions, polices it and (de)capsulates it; the      *)
(* counter charges it and passes it on.  A virtual core reads the          *)
(* database's binlog, one event a cycle, and is to keep that table.        *)
(*                                                                         *)
(* rows is the database's table of sessions, binlog what it has written    *)
(* and the virtual core has not read.                                      *)
(***************************************************************************)
EXTENDS FiniteSets, Functions, TLC, Bursts

CONSTANTS Mbufs,          \* the pool
          Sessions,       \* a session's ue_teid and ue_ipv4, ipv4 alike
          Qos,            \* a session's qos column: the policer's mode
          Sizes,          \* packet sizes
          Times,          \* what time() may answer
          Policer,        \* [cir, cbs, eir, ebs] of the configuration
          FlushDelay,     \* flush_delay_, in turns of the group
          MaxWritten      \* bound: statements the database runs

ASSUME TunnelAssumption ==
  /\ \A k \in {"cir", "cbs", "eir", "ebs"} : Policer[k] \in Nat
  /\ FlushDelay \in Nat /\ MaxWritten \in Nat

VARIABLES side, turn, cnt, got, from, out, mid, passing, tx, nic, pool, packet,
          running, feed, binlog, mapped, table, rows, written
pathVars == <<turn, cnt, got, from, out, mid, passing, tx, nic, pool, packet>>
feedVars == <<feed, mapped>>
dbVars == <<rows, binlog, written>>
tunnelVars == <<side, running, pathVars, feedVars, table, dbVars>>

FORMAT_DESCRIPTION_EVENT == 15
TABLE_MAP_EVENT == 19
WRITE_ROWS_EVENT == 30
UPDATE_ROWS_EVENT == 31
DELETE_ROWS_EVENT == 32

Turns == <<"CoreRx", "CorePgwTunnelWorker", "CoreCounterWorker", "CoreTx">>
NoPacket == [kind |-> "none"]
NoUdat == [flag |-> "none", mode |-> "LTE", color |-> "GREEN"]

TunnelInit ==
  /\ side \in {"ingress", "egress"}
  /\ turn = 1 /\ cnt = [t \in 1..Len(Turns) |-> 0]
  /\ got = <<>> /\ from = <<>> /\ out = <<>> /\ mid = <<>> /\ passing = <<>> /\ tx = <<>> /\ nic = <<>>
  /\ pool = Mbufs /\ packet = [m \in Mbufs |-> NoPacket]
  /\ running = TRUE /\ feed = "new" /\ mapped = "none" /\ table = <<>>
  /\ rows \in [Sessions -> {"none", "active", "inactive"}] /\ written = 0
  /\ binlog = <<[type |-> FORMAT_DESCRIPTION_EVENT]>>

-----------------------------------------------------------------------------
(* The database: a statement writes the table's map and the changed row.  *)
Logged(name, type, s, active) ==
  /\ written < MaxWritten /\ written' = written + 1
  /\ binlog' = binlog \o <<[type |-> TABLE_MAP_EVENT, name |-> name],
                          [type |-> type, s |-> s, active |-> active]>>
  /\ UNCHANGED <<side, running, pathVars, feedVars, table>>
Insert(s) ==
  /\ rows[s] = "none" /\ rows' = [rows EXCEPT ![s] = "active"]
  /\ Logged("tunnel", WRITE_ROWS_EVENT, s, TRUE)
Update(s) ==
  /\ rows[s] # "none"
  /\ rows' = [rows EXCEPT ![s] = IF @ = "active" THEN "inactive" ELSE "active"]
  /\ Logged("tunnel", UPDATE_ROWS_EVENT, s, rows'[s] = "active")
Delete(s) ==
  /\ rows[s] # "none" /\ rows' = [rows EXCEPT ![s] = "none"]
  /\ Logged("tunnel", DELETE_ROWS_EVENT, s, rows[s] = "active")
LogGy(s) == UNCHANGED rows /\ Logged("log_gy", WRITE_ROWS_EVENT, s, FALSE)

-----------------------------------------------------------------------------
(* A thrown runtime_error is caught nowhere: the process ends. *)
Throws == running' = FALSE /\ UNCHANGED <<side, pathVars, feedVars, table, dbVars>>

(* EventImpl::Connect: any of its steps may fail, and then it throws. *)
Connect ==
  \/ feed' = "open" /\ UNCHANGED <<side, running, pathVars, mapped, table, dbVars>>
  \/ Throws
BeforeCycle == running /\ feed = "new" /\ Connect

(* ParseEvent::Parse hands each column to OnNotify.  The tunnel table's    *)
(* columns fill the record; another table is too short to fill it.  evt is *)
(* not among what is filled.                                               *)
NoRecord == [evt |-> 0, filled |-> FALSE]
OnNotify(rec, ev) == [evt |-> rec.evt, filled |-> TRUE, s |-> ev.s, active |-> ev.active]
Parse(rec, ev) == IF mapped = "tunnel" THEN OnNotify(rec, ev) ELSE rec

(* The record EventImpl::Read leaves for the event, and the table's map it *)
(* keeps for the next.                                                     *)
ReadRecord(ev) ==
  IF ev.type \in {FORMAT_DESCRIPTION_EVENT, TABLE_MAP_EVENT} \/ mapped = "none" THEN NoRecord
  ELSE Parse(NoRecord, ev)
ReadMap(ev) == IF ev.type = TABLE_MAP_EVENT THEN ev.name ELSE mapped

Entry(rec) == [commit |-> 0, excess |-> 0, epoch |-> 0, mode |-> Qos[rec.s]]
Erase(s) == [k \in DOMAIN table \ {s} |-> table[k]]
Store(rec) ==
  CASE ~rec.filled -> table
    [] rec.evt = WRITE_ROWS_EVENT \/ (rec.evt = UPDATE_ROWS_EVENT /\ rec.active) ->
         (rec.s :> Entry(rec)) @@ table
    [] rec.evt = DELETE_ROWS_EVENT \/ (rec.evt = UPDATE_ROWS_EVENT /\ ~rec.active) -> Erase(rec.s)
    [] OTHER -> table

(* CorePgwBaseWorker::VirtualCycle; a fetch that fails throws. *)
VirtualCycle ==
  /\ running /\ feed = "open" /\ binlog # <<>>
  /\ UNCHANGED <<side, running, pathVars, feed, rows, written>>
  /\ table' = Store(ReadRecord(Head(binlog)))
  /\ mapped' = ReadMap(Head(binlog))
  /\ binlog' = Tail(binlog)
FetchFails == running /\ feed = "open" /\ Throws

-----------------------------------------------------------------------------
(* is_pdu, is_user, and what ModifyPacket reads of a packet. *)
Kinds == IF side = "ingress" THEN {"pass", "ipv4", "ipv6", "other"} ELSE {"pass", "user"}
Arrivals == [kind : Kinds, key : Sessions, addr : Sessions, size : Sizes]
Carried(f) == [m \in Mbufs |-> IF m \in pool' THEN NoPacket ELSE f[m]]
Freed(s, f) == s \cup {f[i] : i \in 1..Len(f)}

(* The group's thread: a core's Cycle, then the next core's.  A core       *)
(* flushes when its count has reached flush_delay_.                        *)
Flushes == cnt[turn] >= FlushDelay
Cycles(core) ==
  /\ running /\ feed = "open" /\ Turns[turn] = core
  /\ turn' = (turn % Len(Turns)) + 1
  /\ cnt' = [cnt EXCEPT ![turn] = (IF Flushes THEN 0 ELSE @) + 1]
  /\ UNCHANGED <<side, running, feedVars, dbVars>>
(* Mutant: what is buffered is not flushed. *)
FlushedNever(l) == l
Flushed(l) == IF Flushes THEN BurstFlush(l) ELSE l
Sends(l, ms) == Flushed(SendEach(l, ms))

(* CoreRx::Cycle *)
RxCycle ==
  /\ Cycles("CoreRx")
  /\ \E ms \in {<<>>} \cup {<<m>> : m \in pool} :
       \E p \in IF ms = <<>> THEN {NoPacket} ELSE Arrivals :
         \E l \in {Sends(Link(got, from, <<>>), ms)} :
            /\ got' = l.out /\ from' = l.to
            /\ pool' = Freed({m \in pool : ms # <<m>>}, l.freed)
            /\ packet' = Carried([m \in Mbufs |-> IF ms = <<m>> THEN p ELSE packet[m]])
  /\ UNCHANGED <<out, mid, passing, tx, nic, table>>

(* The callback under the table's lock: refill the session's tokens for    *)
(* the seconds gone by, then take the packet's size from them.             *)
Lesser(a, b) == IF a < b THEN a ELSE b
Refilled(e, now) ==
  LET dt == now - e.epoch
  IN IF dt = 0 THEN e
     ELSE [e EXCEPT !.commit = Lesser(Policer.cbs, @ + Policer.cir * dt),
                    !.excess = Lesser(Policer.ebs, @ + Policer.eir * dt), !.epoch = now]
Color(e, size) ==
  IF size <= e.commit THEN "GREEN" ELSE IF size <= e.excess THEN "YELLOW" ELSE "RED"
Debited(e, size) ==
  CASE Color(e, size) = "GREEN" -> [e EXCEPT !.commit = @ - size]
    [] Color(e, size) = "YELLOW" -> [e EXCEPT !.excess = @ - size]
    [] OTHER -> e

(* CorePgwIngressTunnelWorker and CorePgwEgressTunnelWorker::ModifyPacket:  *)
(* a packet of no session goes on uncharged: there is no ring for errors.  *)
(* What the mbuf is marked with (its udata64) replaces the packet.  c      *)
(* carries the table, the marks, and what is left to send.                 *)
Unmarked(c, m) == [c EXCEPT !.marks[m] = [NoUdat EXCEPT !.flag = "DC"], !.sent = Append(@, m)]
Charged(c, m, key, now) ==
  LET e == Refilled(c.table[key], now)
      size == packet[m].size
  IN [c EXCEPT !.marks[m] = [flag |-> "PDU", mode |-> e.mode, color |-> Color(e, size)],
               !.table[key] = Debited(e, size), !.sent = Append(@, m)]
(* CorePgwBaseWorker::Find *)
Found(t, key) == key \in DOMAIN t
IngressPacket(c, m, now) ==
  LET p == packet[m]
  IN CASE p.kind = "other" -> [c EXCEPT !.freed = Append(@, m)]
       [] p.kind # "pass" /\ p.addr = p.key /\ Found(c.table, p.key) -> Charged(c, m, p.key, now)
       [] OTHER -> Unmarked(c, m)
EgressPacket(c, m, now) ==
  IF packet[m].kind = "user" /\ Found(c.table, packet[m].addr)
  THEN Charged(c, m, packet[m].addr, now) ELSE Unmarked(c, m)
(* Mutant: an mbuf of another kind is neither sent nor freed. *)
ModifyPacketKeeps(c, m, now) == IF packet[m].kind = "other" THEN c ELSE Unmarked(c, m)
ModifyPacket(c, m, now) ==
  IF side = "ingress" THEN IngressPacket(c, m, now) ELSE EgressPacket(c, m, now)

ModifyEach(c, ms, now) ==
  LET after[i \in 0..Len(ms)] ==
        IF i = 0 THEN c ELSE The({ModifyPacket(x, ms[i], now) : x \in {after[i - 1]}})
  IN after[Len(ms)]

(* CorePgwBaseWorker::Cycle; no warm-up ring is connected. *)
WorkerCycle ==
  /\ Cycles("CorePgwTunnelWorker")
  /\ \E now \in Times :
       \E c \in {ModifyEach([table |-> table, marks |-> packet, sent |-> <<>>, freed |-> <<>>], Burst(from), now)} :
         \E l \in {Sends(Link(out, mid, <<>>), c.sent)} :
            /\ out' = l.out /\ mid' = l.to /\ pool' = Freed(pool, c.freed \o l.freed)
            /\ table' = c.table /\ packet' = Carried(c.marks)
  /\ from' = Rest(from)
  /\ UNCHANGED <<got, passing, tx, nic>>

(* CoreCounterIngressWorker and CoreCounterEgressWorker::Cycle: drop what  *)
(* is over the policer's rate, pass on the rest.  What they count of it is *)
(* module Counting's.                                                      *)
Over(u) == (u.mode = "LOW" /\ u.color # "GREEN") \/ (u.mode = "3G" /\ u.color = "RED")
PassCycle ==
  /\ Cycles("CoreCounterWorker")
  /\ LET over == {m \in Range(Burst(mid)) : Over(packet[m])}
     IN \E l \in {Sends(Link(passing, tx, <<>>), Among(Burst(mid), Mbufs \ over))} :
          /\ passing' = l.out /\ tx' = l.to
          /\ pool' = Freed(pool, Among(Burst(mid), over) \o l.freed)
          /\ packet' = Carried(packet)
  /\ mid' = Rest(mid)
  /\ UNCHANGED <<got, from, out, nic, table>>

(* CoreTx::Cycle: what the NIC does not take is freed; what it takes comes *)
(* back when it is sent.                                                   *)
TxCycle ==
  /\ Cycles("CoreTx")
  /\ LET more == nic \o Burst(tx)
     IN IF Len(more) >= BurstTo \/ Flushes
        THEN nic' = <<>> /\ pool' = Freed(pool, more)
        ELSE nic' = more /\ UNCHANGED pool
  /\ tx' = Rest(tx) /\ packet' = Carried(packet)
  /\ UNCHANGED <<got, from, out, mid, passing, table>>

GroupCycle == RxCycle \/ WorkerCycle \/ PassCycle \/ TxCycle

TunnelNext ==
  \/ \E s \in Sessions : Insert(s) \/ Update(s) \/ Delete(s) \/ LogGy(s)
  \/ BeforeCycle \/ VirtualCycle \/ FetchFails
  \/ GroupCycle

TunnelSpec == TunnelInit /\ [][TunnelNext]_tunnelVars
(* Threads that do not stop: the group's and the virtual core's. *)
TunnelFairness == WF_tunnelVars(BeforeCycle) /\ WF_tunnelVars(VirtualCycle) /\ WF_tunnelVars(GroupCycle)
TunnelFairSpec == TunnelSpec /\ TunnelFairness

-----------------------------------------------------------------------------
(* Every mbuf is held once: by the pool, or at one place on its way        *)
(* through the group.  A mbuf that a full ring refused, that the policer   *)
(* or the worker dropped, or that the NIC took is back in the pool.        *)
HeldOnce ==
  LET way == got \o from \o out \o mid \o passing \o tx \o nic
  IN /\ \A i, j \in 1..Len(way) : way[i] = way[j] => i = j
     /\ \A i \in 1..Len(way) : way[i] \notin pool
     /\ {way[i] : i \in 1..Len(way)} \cup pool = Mbufs

(* A packet that has arrived leaves the group: no buffer or ring keeps it  *)
(* for want of more traffic, since each core flushes by count.             *)
Leaves == \A m \in Mbufs : (m \notin pool) ~> (m \in pool \/ ~running)

(* "build link information from binlog event, save it into shared area of  *)
(* main thread context" (core_pgw_base_worker.cc): a session inserted while *)
(* the worker runs, and active from then on, comes to be in its table.     *)
Fed == \A s \in Sessions : rows[s] = "none" /\ []running /\ <>[](rows[s] = "active") => <>(s \in DOMAIN table)
=============================================================================
