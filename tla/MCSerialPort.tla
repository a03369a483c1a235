---------------------------- MODULE MCSerialPort ---------------------------
(***************************************************************************)
(* SerialPort for TLC: the start byte is too large for a length, the end   *)
(* byte is a possible one; a timestamp and a packet contain the start      *)
(* byte.                                                                   *)
(***************************************************************************)
EXTENDS SerialPort

MCStamps == {0, Start}
MCPayloads == {<<Other>>, <<Start, Start>>}
=============================================================================
