---------------------------- MODULE MCPacketServer ----------------------------
(* Instances of PacketServer for TLC. *)
EXTENDS PacketServer, TLC
AnyUpdate == [maximumMessages : {1, 9}, waitForMessage : BOOLEAN]
NoUpdate == {}
Symmetry == Permutations(Connections)
==============================================================================
