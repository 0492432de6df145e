----------------------------- MODULE MCDataPath -----------------------------
(* Two mbufs, bursts of one or two.  The rings of DataPath.cfg hold one    *)
(* mbuf: a bulk of two never fits, one packet meets room or a full ring.   *)
EXTENDS DataPath

Steady == {[fm |-> f, to |-> 2, flush |-> 2] : f \in {1, 2}}
=============================================================================
