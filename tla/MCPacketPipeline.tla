-------------------------- MODULE MCPacketPipeline --------------------------
(* Constants for model checking PacketPipeline: six packets of three ships; *)
(* two base stations both hear the first message, and the message filter    *)
(* drops the fourth packet.                                                 *)
EXTENDS PacketPipeline

CONSTANTS k1, k2, k3, null, a, b

MCKeyOf == <<k1, k1, k2, null, k3, k1>>
MCSourceOf == <<a, b, a, a, b, b>>
=============================================================================
