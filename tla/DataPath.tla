------------------------------ MODULE DataPath ------------------------------
(***************************************************************************)
(* The packet path of the data plane: a receiving core, a worker, a        *)
(* sending core and the two tap cores pass mbufs through single producer   *)
(* single consumer rings.  A core reads a burst, decides on each packet,   *)
(* collects what it forwards in an output buffer and enqueues the buffer   *)
(* in bulk when it holds burst_to_ packets or when the flush delay is      *)
(* over.  A bulk that does not fit is freed.                               *)
(*                                                                         *)
(* An mbuf is owned by the place that holds it: the pool, the input array  *)
(* of a core, an output buffer or a ring.  What is in a packet is left     *)
(* out: the outcome of a worker for a packet is any of the outcomes the    *)
(* worker's code has.  A core takes one step for each packet.              *)
(***************************************************************************)
EXTENDS Integers, Sequences, Functions, FiniteSetsExt

CONSTANTS Mbufs,      \* mbufs of the pool
          RingSize,   \* packets a ring can hold
          ArraySize,  \* length of an output array (DEFAULT_MBUF_ARRAY_SIZE)
          Kinds,      \* worker classes
          Configs,    \* configurations: burst_fm_, burst_to_, flush_delay_
          WarmItems   \* what a warm-up packet may carry: "valid", "invalid"

Rings == {"rx_wk", "wk_tx", "rx_tap", "err", "tap_tx", "warm"}
CoresOut == {"rx", "wk", "tx"}

ASSUME PoolAssumption == IsFiniteSet(Mbufs) /\ RingSize \in Nat /\ ArraySize \in Nat
ASSUME KindAssumption == Kinds \subseteq {"encap", "pgw", "ingress_dist", "egress_dist"}
ASSUME ConfigAssumption ==
  \A g \in Configs : g.fm \in Nat \ {0} /\ g.to \in Nat \ {0} /\ g.flush \in Nat \ {0}

(* Cycle counts above every flush delay behave alike. *)
CntMax == Max({g.flush : g \in Configs}) + 1

VARIABLES
  kind,    \* class of the worker of this architecture
  cfg,     \* configuration in the worker objects
  pool,    \* free mbufs
  ring,    \* contents of the rings
  inp,     \* input arrays: what is left of the burst
  out,     \* output buffers
  cnt,     \* cycle counters
  at,      \* step of the cycle a core is in
  alive    \* FALSE after rte_exit
vars == <<kind, cfg, pool, ring, inp, out, cnt, at, alive>>

Init ==
  /\ kind \in Kinds
  /\ cfg \in Configs
  /\ pool = Mbufs
  /\ ring = [r \in Rings |-> <<>>]
  /\ inp = [c \in {"rx", "wk"} |-> <<>>]
  /\ out = [c \in CoresOut |-> <<>>]
  /\ cnt = [c \in CoresOut |-> 0]
  /\ at = [c \in CoresOut |-> "top"]
  /\ alive = TRUE

(* Architectures with distributor workers have the tap cores. *)
Tap == kind \in {"ingress_dist", "egress_dist"}

Goto(c, l) == at' = [at EXCEPT ![c] = l]

-----------------------------------------------------------------------------
(* Rings and buffers. *)

(* Mutant: a bulk that does not fit is left alone. *)
EnqueueForgets(r, b) ==
  /\ ring' = IF Len(ring[r]) + Len(b) <= RingSize THEN [ring EXCEPT ![r] = @ \o b] ELSE ring
  /\ UNCHANGED pool

(* rte_ring_sp_enqueue_bulk takes all or nothing; without room the caller  *)
(* frees the packets.                                                      *)
Enqueue(r, b) ==
  IF Len(ring[r]) + Len(b) <= RingSize
  THEN ring' = [ring EXCEPT ![r] = @ \o b] /\ UNCHANGED pool
  ELSE pool' = pool \cup Range(b) /\ UNCHANGED ring

(* Mutant: a single packet overtakes the buffer when the ring is empty. *)
SendOrBufferDirect(c, r, m) ==
  IF ring[r] = <<>>
  THEN Enqueue(r, <<m>>) /\ UNCHANGED out
  ELSE LET o == Append(out[c], m)
       IN IF Len(o) < cfg.to
          THEN out' = [out EXCEPT ![c] = o] /\ UNCHANGED <<pool, ring>>
          ELSE out' = [out EXCEPT ![c] = <<>>] /\ Enqueue(r, SubSeq(o, 1, cfg.to))

(* The buffer is enqueued once it holds burst_to_ packets: that many of    *)
(* them, and the buffer is empty afterwards.                               *)
SendOrBuffer(c, r, m) ==
  LET o == Append(out[c], m)
  IN IF Len(o) < cfg.to
     THEN out' = [out EXCEPT ![c] = o] /\ UNCHANGED <<pool, ring>>
     ELSE out' = [out EXCEPT ![c] = <<>>] /\ Enqueue(r, SubSeq(o, 1, cfg.to))

BurstFlush(c, r) ==
  IF out[c] # <<>>
  THEN out' = [out EXCEPT ![c] = <<>>] /\ Enqueue(r, out[c])
  ELSE UNCHANGED <<out, pool, ring>>

(* The flush test of CoreRxDistributor and of the encapsulating and the    *)
(* GRE workers is an equality, the one of the other cores is not.          *)
Due(c) ==
  IF (c = "rx" /\ Tap) \/ (c = "wk" /\ kind = "encap")
  THEN cnt[c] = cfg.flush
  ELSE cnt[c] >= cfg.flush

(* Dispatch adds one to the counter after the cycle, reset or not. *)
CntAfter(c) == cnt' = [cnt EXCEPT ![c] = IF Due(c) THEN 1 ELSE Min({@ + 1, CntMax})]

(* Mutant: only a full burst is flushed. *)
EndCycleFull(c, r) ==
  /\ CntAfter(c)
  /\ IF Due(c) /\ Len(out[c]) >= cfg.to THEN BurstFlush(c, r) ELSE UNCHANGED <<out, pool, ring>>
  /\ Goto(c, "top")

EndCycle(c, r) ==
  /\ CntAfter(c)
  /\ IF Due(c) THEN BurstFlush(c, r) ELSE UNCHANGED <<out, pool, ring>>
  /\ Goto(c, "top")

(* rte_ring_sc_dequeue_burst: as many as there are, at most burst_fm_. *)
BurstOf(r) == SubSeq(ring[r], 1, Min({cfg.fm, Len(ring[r])}))
RestOf(r) == SubSeq(ring[r], Min({cfg.fm, Len(ring[r])}) + 1, Len(ring[r]))

-----------------------------------------------------------------------------
(* Receiving core: CoreRx, or CoreRxDistributor where there is a tap. *)

(* The NIC fills mbufs of the pool. *)
RxBurst ==
  /\ at["rx"] = "top"
  /\ \E n \in 0 .. Min({cfg.fm, Cardinality(pool)}) : \E s \in [1 .. n -> pool] :
       /\ IsInjective(s)
       /\ inp' = [inp EXCEPT !["rx"] = s]
       /\ pool' = pool \ Range(s)
  /\ Goto("rx", "work")
  /\ UNCHANGED <<kind, cfg, ring, out, cnt, alive>>

RxPacket ==
  /\ at["rx"] = "work" /\ inp["rx"] # <<>>
  /\ \/ SendOrBuffer("rx", "rx_wk", Head(inp["rx"]))
     \/ Tap /\ Enqueue("rx_tap", <<Head(inp["rx"])>>) /\ UNCHANGED out
  /\ inp' = [inp EXCEPT !["rx"] = Tail(@)]
  /\ UNCHANGED <<kind, cfg, cnt, at, alive>>

RxEnd ==
  /\ at["rx"] = "work" /\ inp["rx"] = <<>>
  /\ EndCycle("rx", "rx_wk")
  /\ UNCHANGED <<kind, cfg, inp, alive>>

-----------------------------------------------------------------------------
(* Worker. *)

WkBurst ==
  /\ at["wk"] = "top"
  /\ inp' = [inp EXCEPT !["wk"] = BurstOf("rx_wk")]
  /\ ring' = [ring EXCEPT !["rx_wk"] = RestOf("rx_wk")]
  /\ Goto("wk", "work")
  /\ UNCHANGED <<kind, cfg, pool, out, cnt, alive>>

(* What ModifyPacket of the worker may come to. *)
Encap == {"forward", "free"}
Pgw == {"forward", "free"}
IngressDist == {"forward", "free", "divert"}
EgressDist == {"forward", "free"}
ModifyPacket ==
  CASE kind = "encap"        -> Encap
    [] kind = "pgw"          -> Pgw
    [] kind = "ingress_dist" -> IngressDist
    [] kind = "egress_dist"  -> EgressDist

(* Mutant: a packet that cannot be handled is freed and forwarded. *)
WkPacketBoth ==
  /\ at["wk"] = "work" /\ inp["wk"] # <<>>
  /\ LET m == Head(inp["wk"])
         o == Append(out["wk"], m)
     IN \/ SendOrBuffer("wk", "wk_tx", m)
        \/ /\ Len(o) < cfg.to
           /\ out' = [out EXCEPT !["wk"] = o]
           /\ pool' = pool \cup {m} /\ UNCHANGED ring
  /\ inp' = [inp EXCEPT !["wk"] = Tail(@)]
  /\ UNCHANGED <<kind, cfg, cnt, at, alive>>

WkPacket ==
  /\ at["wk"] = "work" /\ inp["wk"] # <<>>
  /\ LET m == Head(inp["wk"])
     IN \/ "forward" \in ModifyPacket /\ SendOrBuffer("wk", "wk_tx", m)
        \/ "free" \in ModifyPacket /\ pool' = pool \cup {m} /\ UNCHANGED <<ring, out>>
  /\ inp' = [inp EXCEPT !["wk"] = Tail(@)]
  /\ UNCHANGED <<kind, cfg, cnt, at, alive>>

(* The ingress distributor enqueues a packet of an unknown tunnel to the   *)
(* tap core.  Its ModifyPacket then reports a packet to forward, unless    *)
(* the ring was full and the packet was freed.                             *)
WkDivert ==
  /\ at["wk"] = "work" /\ inp["wk"] # <<>> /\ "divert" \in ModifyPacket
  /\ Enqueue("err", <<Head(inp["wk"])>>)
  /\ IF Len(ring["err"]) < RingSize
     THEN Goto("wk", "diverted") /\ UNCHANGED inp
     ELSE inp' = [inp EXCEPT !["wk"] = Tail(@)] /\ UNCHANGED at
  /\ UNCHANGED <<kind, cfg, out, cnt, alive>>

WkForwardDiverted ==
  /\ at["wk"] = "diverted"
  /\ SendOrBuffer("wk", "wk_tx", Head(inp["wk"]))
  /\ inp' = [inp EXCEPT !["wk"] = Tail(@)]
  /\ Goto("wk", "work")
  /\ UNCHANGED <<kind, cfg, cnt, alive>>

(* Every so many cycles the warm-up ring is read: an item with a zero      *)
(* field is skipped, the others are stored in the table and freed.         *)
WkWarm ==
  /\ Tap /\ at["wk"] = "work" /\ inp["wk"] = <<>>
  /\ \E skip \in SUBSET Range(BurstOf("warm")) :
       /\ skip # {} => "invalid" \in WarmItems
       /\ skip # Range(BurstOf("warm")) => "valid" \in WarmItems
       /\ pool' = pool \cup (Range(BurstOf("warm")) \ skip)
  /\ ring' = [ring EXCEPT !["warm"] = RestOf("warm")]
  /\ Goto("wk", "flush")
  /\ UNCHANGED <<kind, cfg, inp, out, cnt, alive>>

WkEnd ==
  /\ at["wk"] \in {"work", "flush"} /\ inp["wk"] = <<>>
  /\ EndCycle("wk", "wk_tx")
  /\ UNCHANGED <<kind, cfg, inp, alive>>

-----------------------------------------------------------------------------
(* Sending core: its rings in turn, then the flush.  An mbuf the NIC took  *)
(* comes back to the pool as one it did not take does.                     *)

TxRing(r, from, to) ==
  /\ at["tx"] = from
  /\ LET o == out["tx"] \o BurstOf(r)
     IN IF Len(o) < cfg.to \/ BurstOf(r) = <<>>
        THEN out' = [out EXCEPT !["tx"] = o] /\ UNCHANGED pool
        ELSE out' = [out EXCEPT !["tx"] = <<>>] /\ pool' = pool \cup Range(o)
  /\ ring' = [ring EXCEPT ![r] = RestOf(r)]
  /\ Goto("tx", to)
  /\ UNCHANGED <<kind, cfg, inp, cnt, alive>>

TxWorker == TxRing("wk_tx", "top", IF Tap THEN "tap" ELSE "flush")
TxTap == TxRing("tap_tx", "tap", "flush")

TxEnd ==
  /\ at["tx"] = "flush"
  /\ CntAfter("tx")
  /\ IF Due("tx")
     THEN out' = [out EXCEPT !["tx"] = <<>>] /\ pool' = pool \cup Range(out["tx"])
     ELSE UNCHANGED <<out, pool>>
  /\ Goto("tx", "top")
  /\ UNCHANGED <<kind, cfg, ring, inp, alive>>

-----------------------------------------------------------------------------
(* Tap cores. *)

(* Written to the tap or dropped over the rate limit: freed either way. *)
TapTx(r) ==
  /\ Tap /\ ring[r] # <<>>
  /\ pool' = pool \cup Range(BurstOf(r))
  /\ ring' = [ring EXCEPT ![r] = RestOf(r)]
  /\ UNCHANGED <<kind, cfg, inp, out, cnt, at, alive>>

(* A packet read from the tap goes to the sending core; the response of a  *)
(* session request is copied to the worker's warm-up ring as well.  There  *)
(* is no going on without an mbuf.                                         *)
TapRx(copies) ==
  /\ Tap
  /\ IF Cardinality(pool) < 1 + copies
     THEN alive' = FALSE /\ UNCHANGED <<ring, pool>>
     ELSE \E s \in [1 .. 1 + copies -> pool] :
            LET sent == Len(ring["tap_tx"]) < RingSize
                warm == copies = 1 /\ Len(ring["warm"]) < RingSize
            IN /\ IsInjective(s)
               /\ ring' = [ring EXCEPT !["tap_tx"] = IF sent THEN Append(@, s[1]) ELSE @,
                                       !["warm"] = IF warm THEN Append(@, s[2]) ELSE @]
               /\ pool' = pool \ ((IF sent THEN {s[1]} ELSE {}) \cup (IF warm THEN {s[2]} ELSE {}))
               /\ UNCHANGED alive
  /\ UNCHANGED <<kind, cfg, inp, out, cnt, at>>

-----------------------------------------------------------------------------
(* SwapConfig runs while no core is in a cycle (AppStatus, SwapAlone). *)
SwapConfig ==
  /\ \A c \in CoresOut : at[c] = "top"
  /\ \E g \in Configs : g # cfg /\ cfg' = g
  /\ UNCHANGED <<kind, pool, ring, inp, out, cnt, at, alive>>

Rx == RxBurst \/ RxPacket \/ RxEnd
Wk == WkBurst \/ WkPacket \/ WkWarm \/ WkEnd
Tx == TxWorker \/ TxTap \/ TxEnd
TapTxAny == \E r \in {"rx_tap", "err"} : TapTx(r)
TapRxAny == \E copies \in {0, 1} : TapRx(copies)

Next == alive /\ (Rx \/ Wk \/ Tx \/ TapTxAny \/ TapRxAny \/ SwapConfig)

Spec == Init /\ [][Next]_vars

(* With packets of unknown tunnels at the ingress distributor. *)
NextUnknown == Next \/ (alive /\ (WkDivert \/ WkForwardDiverted))

SpecUnknown == Init /\ [][NextUnknown]_vars

(* Each core has its lcore and cycles for ever; the warm-up ring is read   *)
(* after a bounded number of cycles.                                       *)
Fairness ==
  /\ WF_vars(alive /\ Rx)
  /\ WF_vars(alive /\ Wk)
  /\ SF_vars(alive /\ WkWarm)
  /\ WF_vars(alive /\ Tx)
  /\ \A r \in {"rx_tap", "err"} : WF_vars(alive /\ TapTx(r))

FairSpec == Spec /\ Fairness

-----------------------------------------------------------------------------
(* TypeOK: rings hold at most RingSize mbufs and no output array is        *)
(* overrun, whatever burst size a reload brings.                           *)
TypeOK ==
  /\ kind \in Kinds
  /\ cfg \in Configs
  /\ pool \subseteq Mbufs
  /\ \A r \in Rings : ring[r] \in Seq(Mbufs) /\ Len(ring[r]) <= RingSize
  /\ \A c \in {"rx", "wk"} : inp[c] \in Seq(Mbufs)
  /\ \A c \in CoresOut : out[c] \in Seq(Mbufs) /\ Len(out[c]) <= ArraySize
  /\ cnt \in [CoresOut -> 0 .. CntMax]
  /\ at \in [CoresOut -> {"top", "work", "diverted", "tap", "flush"}]
  /\ alive \in BOOLEAN

(* The places that hold mbufs in order: first those on the way of a        *)
(* forwarded packet, last place first, then the rings of the tap cores.    *)
Hold == <<out["tx"], ring["wk_tx"], out["wk"], inp["wk"], ring["rx_wk"], out["rx"], inp["rx"],
          ring["rx_tap"], ring["err"], ring["tap_tx"], ring["warm"]>>

(* SingleOwner: an mbuf is in one place at most, so nobody works on, sends *)
(* or frees a packet that another core has.                                *)
SingleOwner ==
  LET h == Hold
  IN \A p \in 1 .. 11 : /\ IsInjective(h[p])
                        /\ Range(h[p]) \cap pool = {}
                        /\ \A q \in 1 .. 11 \ {p} : Range(h[p]) \cap Range(h[q]) = {}

(* NothingLeaked: every mbuf is somewhere: in the pool, or in a place from *)
(* which a core will take it.                                              *)
NothingLeaked ==
  LET h == Hold
  IN Mbufs = pool \cup UNION {Range(h[p]) : p \in 1 .. 11}

Path == Hold[1] \o Hold[2] \o Hold[3] \o Hold[4] \o Hold[5] \o Hold[6] \o Hold[7]
Before(a, b, s) == \E i, j \in 1 .. Len(s) : i < j /\ s[i] = a /\ s[j] = b

(* KeepsOrder: no step of a core lets a packet overtake another one on the *)
(* way through buffers, bursts and rings.                                  *)
KeepsOrder ==
  [][\A a, b \in Mbufs :
       Before(a, b, Path) /\ {a, b} \subseteq Range(Path') => Before(a, b, Path')]_vars

(* Delivered: an mbuf that was handed out comes back to the pool: no       *)
(* packet stays for ever in a burst buffer that does not fill.             *)
Delivered == \A m \in Mbufs : (m \notin pool) ~> (m \in pool \/ ~alive)
=============================================================================
