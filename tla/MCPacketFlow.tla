---------------------------- MODULE MCPacketFlow ----------------------------
(* Model checking instances of PacketFlow. *)
EXTENDS PacketFlow
=============================================================================
