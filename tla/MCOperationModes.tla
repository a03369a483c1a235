--------------------------- MODULE MCOperationModes -------------------------
(***************************************************************************)
(* Instances of OperationModes for TLC: three modes and two ports.         *)
(***************************************************************************)
EXTENDS OperationModes

CONSTANTS launching, working, recovering, sbd, gsm

MCModes == {launching, working, recovering}
MCPorts == {sbd, gsm}

Entry(target, duration) == [target |-> target, duration |-> duration]

Every(n) == [p \in MCPorts |-> [i \in MCModes |-> n]]

\* The modes of the README, one after the other.
Cruise ==
  [active |-> launching,
   modes |-> [i \in MCModes |->
                CASE i = launching -> Entry(working, 2)
                  [] i = working -> Entry(recovering, 3)
                  [] i = recovering -> Entry(working, 1)],
   period |-> [p \in MCPorts |->
                 [i \in MCModes |-> IF p = sbd /\ i = recovering THEN 1 ELSE 2]]]

\* One mode only, in which one of the ports reports.
Plain ==
  [active |-> working,
   modes |-> [i \in MCModes |-> IF i = working THEN Entry(working, 0) ELSE NoMode],
   period |-> [Every(1) EXCEPT ![gsm] = [i \in MCModes |-> NoEntry]]]

Pair ==
  [active |-> recovering,
   modes |-> [i \in MCModes |->
                CASE i = launching -> NoMode
                  [] i = working -> Entry(recovering, 0)
                  [] i = recovering -> Entry(working, 2)],
   period |-> Every(2)]

MCCruise == {Cruise}
MCAll == {Cruise, Plain, Pair}

\* The hypothesis of AlwaysOperating.
ASSUME StartableHere == Startable
=============================================================================
