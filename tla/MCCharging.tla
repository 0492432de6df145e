----------------------------- MODULE MCCharging -----------------------------
(* Three parts that share no state, checked one at a time: the counter and  *)
(* its sink, a tunnel group with its feed, and the Diameter server, which   *)
(* takes the counts of the transfer worker among its requests.              *)
EXTENDS Counting, TunnelPath, Diameter

VARIABLE moves      \* the part this behaviour is about
allVars == <<moves, countingVars, tunnelVars, diaVars>>

MCQos == [s \in Sessions |-> "LOW"]
MCPolicer == [cir |-> 2, cbs |-> 2, eir |-> 1, ebs |-> 1]
MCDiaRows == {[type |-> WRITE_ROWS, key |-> <<1, 0>>, active |-> TRUE]}

MCInit == moves \in {"counting", "tunnel", "diameter"} /\ CountingInit /\ TunnelInit /\ DiaInit
          /\ (moves # "counting" => sink = "log")
          /\ (moves # "tunnel" => side = "ingress" /\ \A s \in Sessions : rows[s] = "none")
CountingMoves == moves = "counting" /\ CountingNext /\ UNCHANGED <<moves, tunnelVars, diaVars>>
TunnelMoves == moves = "tunnel" /\ TunnelNext /\ UNCHANGED <<moves, countingVars, diaVars>>
DiameterMoves == moves = "diameter" /\ DiaNext /\ UNCHANGED <<moves, countingVars, tunnelVars>>
MCNext == CountingMoves \/ TunnelMoves \/ DiameterMoves
(* CountingFairness, TunnelFairness and the fairness of DiaFairSpec, of the *)
(* part that moves.                                                         *)
Counts(A) == moves = "counting" /\ A
Tunnels(A) == moves = "tunnel" /\ A
Serves(A) == moves = "diameter" /\ A
MCSpec ==
  /\ MCInit /\ [][MCNext]_allVars
  /\ WF_countingVars(Counts(Flush)) /\ WF_countingVars(Counts(Age))
  /\ WF_countingVars(Counts(LogCycle)) /\ WF_countingVars(Counts(LogFlush))
  /\ WF_countingVars(Counts(LogVirtualCycle)) /\ WF_countingVars(Counts(TransferVirtualCycle))
  /\ WF_tunnelVars(Tunnels(BeforeCycle)) /\ WF_tunnelVars(Tunnels(VirtualCycle))
  /\ WF_tunnelVars(Tunnels(GroupCycle))
  /\ \A fd \in Fds : WF_diaVars(Serves(DiaOnRecv(fd)))
  /\ \A q \in DiaQueues : WF_diaVars(Serves(Dequeue(q))) /\ WF_diaVars(Serves(Handle(q)))
=============================================================================
