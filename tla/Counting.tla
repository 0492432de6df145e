------------------------------ MODULE Counting ------------------------------
(* Accounting of mirrored traffic in the data plane: a counter core sums up *)
(* the bytes of each subscriber in COUNT_MAP_SZ maps and forwards the large *)
(* and the old sums in mbufs over a ring (core_counter_worker.cc); a second *)
(* core passes the mbufs on to its virtual core, which inserts them into    *)
(* the database (core_counter_log_worker.cc) or sends them over TCP         *)
(* (core_transfer_worker.cc).  An mbuf is a function from keys to bytes.    *)
EXTENDS FiniteSetsExt, Functions, Bursts

CONSTANTS Keys,                 \* subscribers: inner addresses, as numbers
          Lengths,              \* GTP-U lengths of the packets
          MaxCounted,           \* bound: bytes counted in all
          MaxBurst,             \* burst_fm_ of the counter
          COUNT_MAP_SZ, TRANSFER_RING_BURST, TRANSFER_RING_SZ,
          DCOUNTER_LIMIT, THRESHOLD_TRANSFER

ASSUME KeyAssumption == Keys \subseteq Nat /\ Lengths \subseteq Nat
ASSUME SizeAssumption ==
  {MaxBurst, COUNT_MAP_SZ, TRANSFER_RING_BURST, TRANSFER_RING_SZ, DCOUNTER_LIMIT} \subseteq Nat \ {0}
(* 64 * 1024 > 10000: the limit on the entries of one call is reached       *)
(* before the limit on its mbufs.                                           *)
ASSUME LimitAssumption == DCOUNTER_LIMIT < TRANSFER_RING_BURST * TRANSFER_RING_SZ

VARIABLES
  sink,     \* "log": CoreCounterLogWorker, "transfer": CoreTransferWorker
  maps,     \* map_: key -> bytes and whether the entry is older than 60 s
  cur,      \* cur_
  output,   \* output_ of the counter
  ring,     \* ring between the two cores
  output2,  \* output_ of the second core
  ringInt,  \* ring between the two lcores of the second core
  counted, stored, lost,   \* bytes per key: counted, settled, given up
  alive     \* the process has not called rte_exit
countingVars == <<sink, maps, cur, output, ring, output2, ringInt, counted, stored, lost, alive>>

NoBytes == [k \in Keys |-> 0]

CountingInit ==
  /\ sink \in {"log", "transfer"}
  /\ maps = <<>> /\ cur = 0
  /\ output = <<>> /\ ring = <<>> /\ output2 = <<>> /\ ringInt = <<>>
  /\ counted = NoBytes /\ stored = NoBytes /\ lost = NoBytes
  /\ alive = TRUE

(* Bytes of a key in an mbuf, in a sequence of mbufs. *)
In(mbuf, k) == IF k \in DOMAIN mbuf THEN mbuf[k] ELSE 0
BytesIn(mbufs) == [k \in Keys |-> SumSeq([i \in 1..Len(mbufs) |-> In(mbufs[i], k)])]
Sum(f, g) == [k \in Keys |-> f[k] + g[k]]

-----------------------------------------------------------------------------
(* CoreCounterWorker::Counting, for each of a burst; only G-PDUs count. *)
CountInto(m, pkt) ==
  IF ~pkt.pdu THEN m
  ELSE IF pkt.key \in DOMAIN m THEN [m EXCEPT ![pkt.key].used = @ + pkt.used]
  ELSE [k \in DOMAIN m \cup {pkt.key} |->
          IF k = pkt.key THEN [used |-> pkt.used, old |-> FALSE] ELSE m[k]]
CountEach(m, burst) ==
  LET after[i \in 0..Len(burst)] ==
        IF i = 0 THEN m ELSE The({CountInto(x, burst[i]) : x \in {after[i - 1]}})
  IN after[Len(burst)]

(* The entries in the order ForwardTransfer visits them: map by map from    *)
(* cur_ on, in any order within a map.                                      *)
Place(k) == ((k % COUNT_MAP_SZ) - cur + COUNT_MAP_SZ) % COUNT_MAP_SZ
Visits(m) ==
  {order \in Bijection(1..Cardinality(DOMAIN m), DOMAIN m) :
     \A i, j \in 1..Len(order) : i < j => Place(order[i]) <= Place(order[j])}
(* Mutant: an old entry is not due. *)
DueByBytes(m, k) == m[k].used > THRESHOLD_TRANSFER
Due(m, k) == m[k].used > THRESHOLD_TRANSFER \/ m[k].old

(* The entries packed into mbufs of TRANSFER_RING_BURST. *)
Packed(m, sent) ==
  LET Part(i) == {j \in 1..Len(sent) : (j - 1) \div TRANSFER_RING_BURST = i - 1}
  IN [i \in 1..((Len(sent) + TRANSFER_RING_BURST - 1) \div TRANSFER_RING_BURST) |->
        [k \in {sent[j] : j \in Part(i)} |-> m[k].used]]

(* The entries of one call: it stops at DCOUNTER_LIMIT entries, and at      *)
(* TRANSFER_RING_SZ mbufs, before the last one is erased.                   *)
Least(S) == CHOOSE x \in S : \A y \in S : x <= y
Sent(m, order) ==
  LET due == Among(order, {k \in DOMAIN m : Due(m, k)})
  IN SubSeq(due, 1, Least({Len(due), DCOUNTER_LIMIT, TRANSFER_RING_BURST * TRANSFER_RING_SZ}))
(* Mutant: entries that were sent stay in the maps. *)
ErasedNone(sent) == <<>>
Erased(sent) == IF Len(sent) = TRANSFER_RING_BURST * TRANSFER_RING_SZ THEN SubSeq(sent, 1, Len(sent) - 1) ELSE sent

(* map_tail counts the maps up to the last entry passed without a break; it *)
(* is uninitialized when there is none.                                     *)
Stops(sent) == Len(sent) \in {DCOUNTER_LIMIT, TRANSFER_RING_BURST * TRANSFER_RING_SZ}
Passed(order, sent) ==
  IF Stops(sent)
  THEN {i \in 1..Len(order) : i < CHOOSE j \in 1..Len(order) : order[j] = sent[Len(sent)]}
  ELSE 1..Len(order)
Tails(order, sent) ==
  IF Passed(order, sent) = {} THEN 0..COUNT_MAP_SZ
  ELSE {Place(order[Cardinality(Passed(order, sent))]) + 1}

(* ForwardTransfer on the maps m *)
ForwardTransfer(m) ==
  \E order \in Visits(m) : \E sent \in {Sent(m, order)} :
    \E after \in {BurstFlush(SendEach(Link(output, ring, <<>>), Packed(m, sent)))} :
       /\ maps' = [k \in DOMAIN m \ Range(Erased(sent)) |-> m[k]]
       /\ \E tail \in Tails(order, sent) :
            cur' = IF tail = COUNT_MAP_SZ THEN 0 ELSE (cur + tail) % COUNT_MAP_SZ
       /\ output' = after.out
       /\ ring' = after.to
       /\ lost' = Sum(lost, BytesIn(after.freed))

(* CoreCounterWorker::Cycle on a burst of packets, one in flush_delay_ when *)
(* flush holds.                                                             *)
Packets == [key : Keys, used : Lengths, pdu : BOOLEAN]
Each(burst) ==
  [i \in 1..Len(burst) |-> [k \in {burst[i].key} |-> IF burst[i].pdu THEN burst[i].used ELSE 0]]
Total(bytes) == MapThenSumSet(LAMBDA k : bytes[k], Keys)
CounterCycle(burst, flush) ==
  /\ alive
  /\ UNCHANGED <<sink, output2, ringInt, stored, alive>>
  /\ counted' = Sum(counted, BytesIn(Each(burst)))
  /\ \E m \in {CountEach(maps, burst)} :
       IF flush THEN ForwardTransfer(m)
       ELSE maps' = m /\ UNCHANGED <<cur, output, ring, lost>>
Receive ==
  \E n \in 1..MaxBurst : \E burst \in [1..n -> Packets], flush \in BOOLEAN :
    /\ Total(counted) + Total(BytesIn(Each(burst))) <= MaxCounted
    /\ CounterCycle(burst, flush)
Flush == CounterCycle(<<>>, TRUE)

(* A minute passes: every entry is older than 60 s. *)
Age ==
  /\ alive
  /\ UNCHANGED <<sink, cur, output, ring, output2, ringInt, counted, stored, lost, alive>>
  /\ \E k \in DOMAIN maps : ~maps[k].old
  /\ maps' = [k \in DOMAIN maps |-> [maps[k] EXCEPT !.old = TRUE]]

-----------------------------------------------------------------------------
(* Cycle of the second core *)
LogCycle ==
  LET after == SendEach(Link(output2, ringInt, <<>>), Burst(ring))
  IN /\ alive /\ ring # <<>>
     /\ UNCHANGED <<sink, maps, cur, output, counted, stored, alive>>
     /\ ring' = Rest(ring)
     /\ output2' = after.out /\ ringInt' = after.to
     /\ lost' = Sum(lost, BytesIn(after.freed))

(* Its cycle number 512M, which the log worker uses to flush. *)
LogFlush ==
  LET after == BurstFlush(Link(output2, ringInt, <<>>))
  IN /\ alive /\ sink = "log"
     /\ UNCHANGED <<sink, maps, cur, output, ring, counted, stored, alive>>
     /\ output2' = after.out /\ ringInt' = after.to
     /\ lost' = Sum(lost, BytesIn(after.freed))

(* CoreCounterLogWorker::VirtualCycle: one INSERT for the burst, whose      *)
(* mbufs are already free; sums of zero bytes are left out, and a statement *)
(* without a row fails.                                                     *)
LogVirtualCycle ==
  LET bytes == BytesIn(Burst(ringInt))
  IN /\ alive /\ sink = "log" /\ ringInt # <<>>
     /\ UNCHANGED <<sink, maps, cur, output, ring, output2, counted, alive>>
     /\ ringInt' = Rest(ringInt)
     /\ \/ bytes # NoBytes /\ stored' = Sum(stored, bytes) /\ lost' = lost
        \/ lost' = Sum(lost, bytes) /\ stored' = stored

(* CoreTransferWorker::VirtualCycle and Send: each mbuf is sent, or given   *)
(* up after ten tries; an error of the socket ends the process.             *)
TransferVirtualCycle ==
  LET all == Burst(ringInt)
      Only(kept) == [i \in 1..Len(all) |-> IF i \in kept THEN all[i] ELSE <<>>]
  IN /\ alive /\ sink = "transfer" /\ ringInt # <<>>
     /\ UNCHANGED <<sink, maps, cur, output, ring, output2, counted>>
     /\ \E n \in 0..Len(all) : \E sent \in SUBSET (1..n) :
          /\ stored' = Sum(stored, BytesIn(Only(sent)))
          /\ lost' = Sum(lost, BytesIn(Only(1..Len(all) \ sent)))
          /\ alive' = (n = Len(all))
     /\ ringInt' = Rest(ringInt)

CountingNext ==
  \/ Receive \/ Flush \/ Age
  \/ LogCycle \/ LogFlush \/ LogVirtualCycle
  \/ TransferVirtualCycle
CountingSpec == CountingInit /\ [][CountingNext]_countingVars

(* The core threads never stop cycling, each cycle number comes round, and  *)
(* time passes.                                                             *)
CountingFairness ==
  /\ WF_countingVars(Flush) /\ WF_countingVars(Age)
  /\ WF_countingVars(LogCycle) /\ WF_countingVars(LogFlush) /\ WF_countingVars(LogVirtualCycle)
  /\ WF_countingVars(TransferVirtualCycle)
CountingFairSpec == CountingSpec /\ CountingFairness

-----------------------------------------------------------------------------
InMaps == [k \in Keys |-> IF k \in DOMAIN maps THEN maps[k].used ELSE 0]
OnTheWay == Sum(InMaps, BytesIn(output \o ring \o output2 \o ringInt))

(* The pipeline keeps the books of Ledger: a byte that Counting adds is in  *)
(* exactly one place, map, mbuf, database or loss, and what ForwardTransfer *)
(* sends it erases, so that no byte is stored twice or vanishes unreported. *)
Books == INSTANCE Ledger WITH open <- OnTheWay
KeepsBooks == Books!LedgerSpec

(* With the database as the sink, everything counted is at last stored or   *)
(* given up: ForwardTransfer takes old entries however few bytes they have, *)
(* and the partial bursts of both cores are flushed.                        *)
Settled == sink = "log" => \A k \in Keys : counted[k] > 0 ~> OnTheWay[k] = 0
=============================================================================
