------------------------------ MODULE MCRouter -----------------------------
(***************************************************************************)
(* Router for TLC: what comes through each port.  From the satellites, a   *)
(* small message that does not decode and a larger one that this node has  *)
(* to relay; from the broker, one to relay and one that is too large for   *)
(* the queue; from the Pi, one for this node.                              *)
(***************************************************************************)
EXTENDS Router

CONSTANTS i1, i2, g1, g2, s1

MCInbound ==
  [p \in Port |-> CASE p = Serial -> <<s1>> [] p = Iridium -> <<i1, i2>> [] p = Gsm -> <<g1, g2>>]
MCSize == [m \in Message |-> IF m = i2 THEN 2 ELSE IF m = g2 THEN 3 ELSE 1]
MCForeign == {i2, g1}
MCBroken == {i1}
=============================================================================
