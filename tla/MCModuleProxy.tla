--------------------------- MODULE MCModuleProxy ----------------------------
(***************************************************************************)
(* Instances of ModuleProxy for TLC: two modules for the first code, of  *)
(* one size or of different sizes, and one for the second code.            *)
(***************************************************************************)
EXTENDS ModuleProxy

CONSTANTS ambient1, ambient2, storage1

MCPacket == {ambient1, ambient2, storage1}
MCOneCode == {ambient1, ambient2}
MCSameSize == [m \in Packet |-> 3]
MCFrameSize == [m \in Packet |-> IF m = ambient2 THEN 4 ELSE 3]
MCCodeOf == [m \in Packet |-> IF m = storage1 THEN 2 ELSE 1]
=============================================================================
