--------------------------- MODULE MCPacketWriter ---------------------------
(* Bytes 0..7, packets with one or two bytes of length, and a buffer that   *)
(* grows when more than three bytes of body are written.                    *)
EXTENDS PacketWriter

MCArrays == {<<5>>, <<3, 0>>}
MCStrings == {<<>>, <<3>>}
=============================================================================
