---------------------------- MODULE MCTunnelPath ----------------------------
EXTENDS TunnelPath
MCQos == [s \in Sessions |-> "LOW"]
MCPolicer == [cir |-> 2, cbs |-> 2, eir |-> 1, ebs |-> 1]
=============================================================================
