--------------------------- MODULE MCPacketQueue ----------------------------
(***************************************************************************)
(* Instances of PacketQueue for TLC.  A frame of three cells has one cell  *)
(* of payload; that of four cells, torn after its header, ends at the      *)
(* footer of a frame of three appended behind it.  The payload big fits no *)
(* caller's buffer but the largest, the payload huge not even the frame    *)
(* buffer.                                                                 *)
(***************************************************************************)
EXTENDS PacketQueue

CONSTANTS small, big, huge

MCPacket == {small, big, huge}
MCFrameSize == [m \in Packet |-> IF m = small THEN 3 ELSE IF m = big THEN 4 ELSE 6]
MCRooms == {1, 2}
MCPortLists == {[p \in Port |-> p]}

\* The first port has room for a frame of each size, the second for one frame.
MCFile == [p \in Port |-> IF p = 1 THEN 7 ELSE 3]
MCNoFaults == [p \in Port |-> {}]

\* Two frames behind each other after a failure, on either port.
MCFaultyFile == [p \in Port |-> 6]

\* A port meets one kind of fault: after both the length of its file means nothing.
MCFaults == [p \in Port |-> IF p = 1 THEN {"short_write"} ELSE {"create_fails"}]
=============================================================================
