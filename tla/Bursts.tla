------------------------------- MODULE Bursts -------------------------------
(* How core objects pass mbufs on (cores.cc): an object gathers mbufs in    *)
(* its output_ array and enqueues them to the ring together, all or none;   *)
(* those that do not fit are freed.                                         *)
EXTENDS Loops

CONSTANTS BurstTo,      \* burst_to_ and burst_fm_
          RingSize      \* mbufs a ring holds

ASSUME BurstAssumption == BurstTo \in Nat \ {0} /\ RingSize \in Nat \ {0}

(* An output array, the ring it feeds, and the mbufs freed on the way. *)
Link(out, to, freed) == [out |-> out, to |-> to, freed |-> freed]
EnqueueBulk(l) ==
  IF Len(l.to) + Len(l.out) <= RingSize
  THEN Link(<<>>, l.to \o l.out, l.freed)
  ELSE Link(<<>>, l.to, l.freed \o l.out)
SendOrBuffer(l, mbuf) ==
  LET more == [l EXCEPT !.out = Append(@, mbuf)]
  IN IF Len(more.out) < BurstTo THEN more ELSE EnqueueBulk(more)
SendEach(l, mbufs) ==
  LET after[i \in 0..Len(mbufs)] ==
        IF i = 0 THEN l ELSE The({SendOrBuffer(x, mbufs[i]) : x \in {after[i - 1]}})
  IN after[Len(mbufs)]
BurstFlush(l) == IF l.out = <<>> THEN l ELSE EnqueueBulk(l)

(* What one rte_ring_sc_dequeue_burst takes from a ring, and leaves. *)
Taken(seq) == IF Len(seq) < BurstTo THEN Len(seq) ELSE BurstTo
Burst(seq) == SubSeq(seq, 1, Taken(seq))
Rest(seq) == SubSeq(seq, Taken(seq) + 1, Len(seq))
=============================================================================
