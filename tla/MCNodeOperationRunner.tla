----------------------- MODULE MCNodeOperationRunner ------------------------
(***************************************************************************)
(* Instances of NodeOperationRunner for TLC.  The ports come in the order  *)
(* of dependencies.hpp, the Pi is at the serial port.                      *)
(***************************************************************************)
EXTENDS NodeOperationRunner

CONSTANTS serial, sbd, gsm

MCTwoPorts == <<serial, gsm>>
MCThreePorts == <<serial, sbd, gsm>>
MCRequests == Kind \ {"answer"}
=============================================================================
