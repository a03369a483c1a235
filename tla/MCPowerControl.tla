--------------------------- MODULE MCPowerControl --------------------------
(***************************************************************************)
(* PowerControl for TLC, with voltages beyond the ends of the curve (a     *)
(* sensor that does not answer reads as 0) and on both sides of each       *)
(* threshold.                                                              *)
(***************************************************************************)
EXTENDS PowerControl

MCReadings == {0, 1166, 1168, 1173, 1175, 1180, 1182, 1194, 1195, 1300}
=============================================================================
