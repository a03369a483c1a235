-------------------------- MODULE MCNodeConfiguration -----------------------
(***************************************************************************)
(* Instances of NodeConfiguration for TLC: the address of the node, its    *)
(* operation modes, and the reports by satellite and by GSM, which the     *)
(* default configuration does not have.                                    *)
(***************************************************************************)
EXTENDS NodeConfiguration

CONSTANTS address, modes, sbd, gsm

MCKey == {address, modes, sbd, gsm}
MCKeyOrder == <<address, modes, sbd, gsm>>

MCDefault == [k \in MCKey |-> IF k = gsm THEN Absent ELSE 0]
MCOwn == [k \in MCKey |-> IF k = gsm THEN Absent ELSE 1]
MCStored == {NoConfig, MCOwn}

Put(k, v) == [key |-> k, value |-> v]

MCSettings == {<<Put(modes, v), Put(sbd, w)>> : v, w \in Value}

\* Commands that stop at an entry: before they have set a module, or after.
MCStopping ==
  {<<Put("pi", 0), Put(modes, 2)>>, <<Put("pi", 0), Put("pi", 0)>>,
   <<Put("invalid", 0), Put(sbd, 2)>>, <<Put(modes, 2), Put("invalid", 0)>>,
   <<Put(sbd, 2), Put("pi", 0)>>}

\* All of these, and one for the module that the node does not have.
MCCommands == MCSettings \cup MCStopping \cup {<<Put(gsm, 1)>>}
=============================================================================
