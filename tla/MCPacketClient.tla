---------------------------- MODULE MCPacketClient ----------------------------
(* The instance TLC checks: nothing has to be defined, the bounds are numbers. *)
EXTENDS PacketClient
==============================================================================
