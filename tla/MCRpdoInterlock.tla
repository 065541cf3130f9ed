--------------------------- MODULE MCRpdoInterlock ---------------------------
(***************************************************************************)
(* RpdoInterlock with the three RPDOs of the PDU: commands (interlocked)   *)
(* and two streams of substitutes (not interlocked).                       *)
(***************************************************************************)
EXTENDS RpdoInterlock

CONSTANTS rpdo1, rpdo2, rpdo3

MCRpdo == {rpdo1, rpdo2, rpdo3}
MCInterlocked == {rpdo1}
=============================================================================
