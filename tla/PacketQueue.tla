---------------------------- MODULE PacketQueue -----------------------------
(***************************************************************************)
(* The packet queue of the node (src/lib/Router/PacketQueue): one          *)
(* append-only file per port on the SD card and, in RAM, three offsets     *)
(* into each file.  Every received payload is wrapped in a BinaryFrame and *)
(* appended; the router peeks the frame at readOffset_ and later skips to  *)
(* nextReadOffset_.                                                        *)
(*                                                                         *)
(* A file is a sequence of the cells of BinaryFrame.tla, and offsets count *)
(* cells.  The board may be reset at any moment, also in the middle of an  *)
(* append, and an append may come out short while the board stays up.      *)
(***************************************************************************)
EXTENDS BinaryFrame, FiniteSets

CONSTANTS
  MaxPort,    \* MAX_PORT: the ports are 1 .. MaxPort
  Rooms,      \* the output buffer sizes the callers pass
  PortLists,  \* the port lists the ...FromPorts calls are given
  Faults,     \* per port, the storage faults its file meets without a reset
  MaxFile     \* bound, per port: nothing is written or read beyond this

Fault == {"short_write", "create_fails"}

ASSUME QueueAssumption ==
  /\ MaxPort \in Nat \ {0}
  /\ Rooms \subseteq Nat
  /\ PortLists \subseteq Seq(1 .. MaxPort)
  /\ Faults \in [1 .. MaxPort -> SUBSET Fault]
  /\ MaxFile \in [1 .. MaxPort -> Nat]

VARIABLES
  file,            \* the cells of each port's file
  present,         \* whether the file exists
  writeOffset,     \* writeOffset_
  readOffset,      \* readOffset_
  nextReadOffset,  \* nextReadOffset_
  up,              \* begin() has returned true since the last reset
  result           \* the last call, whether it succeeded, what it returned

vars == <<file, present, writeOffset, readOffset, nextReadOffset, up, result>>

Port == 1 .. MaxPort

Return(op, p, ok, m) == result' = [op |-> op, port |-> p, ok |-> ok, pkt |-> m]

-----------------------------------------------------------------------------
\* The frame at the read offset of port p.
HeadFrame(p) == Unwrap(ReadRegion(file[p], readOffset[p]))

IsPortEmpty(p) == ~present[p] \/ writeOffset[p] = readOffset[p]

-----------------------------------------------------------------------------
Init ==
  /\ file = [p \in Port |-> <<>>]
  /\ present = [p \in Port |-> FALSE]
  /\ writeOffset = [p \in Port |-> 0]
  /\ readOffset = [p \in Port |-> 0]
  /\ nextReadOffset = [p \in Port |-> 0]
  /\ up = FALSE
  /\ result = [op |-> "reset", port |-> 0, ok |-> TRUE, pkt |-> NoPacket]

\* Mutant of Begin: unread packets are kept, reading starts at the file's start.
BeginFromStart ==
  /\ ~up
  /\ present' = [p \in Port |-> TRUE]
  /\ writeOffset' = [p \in Port |-> Len(file[p])]
  /\ readOffset' = [p \in Port |-> 0]
  /\ nextReadOffset' = [p \in Port |-> 0]
  /\ up' = TRUE
  /\ Return("begin", 0, TRUE, NoPacket)
  /\ UNCHANGED file

\* begin() runs through the ports in order.  The queue file of port last + 1
\* is missing and cannot be created when last < MaxPort: setup() then resets
\* the board again.
Begin ==
  /\ ~up
  /\ \E last \in 0 .. MaxPort :
       LET Started(off) == [p \in Port |-> IF p <= last THEN Len(file[p]) ELSE off[p]]
       IN /\ last < MaxPort => ~present[last + 1]
          /\ present' = [p \in Port |-> present[p] \/ p <= last]
          /\ writeOffset' = Started(writeOffset)
          /\ readOffset' = Started(readOffset)
          /\ nextReadOffset' = Started(nextReadOffset)
          /\ up' = (last = MaxPort)
          /\ Return("begin", 0, last = MaxPort, NoPacket)
  /\ UNCHANGED file

PopOp == {"pop", "popAny"}

\* Cells appended by a write that stops after k of them.
Grow(p, m, k) == [file EXCEPT ![p] = @ \o SubSeq(Frame(m), 1, k)]

HasRoom(p, m) ==
  /\ Len(file[p]) + FrameSize[m] <= MaxFile[p]
  /\ writeOffset[p] + FrameSize[m] <= MaxFile[p]

PushAccepted(p, m) ==
  /\ up
  /\ FrameSize[m] <= BufferSize
  /\ HasRoom(p, m)
  /\ file' = Grow(p, m, FrameSize[m])
  /\ present' = [present EXCEPT ![p] = TRUE]
  /\ writeOffset' = [writeOffset EXCEPT ![p] = @ + FrameSize[m]]
  /\ Return("push", p, TRUE, NoPacket)
  /\ UNCHANGED <<readOffset, nextReadOffset, up>>

\* The payload is too long for the frame buffer, or the file did not open.
PushRefused(p, m) ==
  /\ up
  /\ Return("push", p, FALSE, NoPacket)
  /\ UNCHANGED <<file, present, writeOffset, readOffset, nextReadOffset, up>>

\* Mutant of PushShort: the failed push takes over the new length of the file.
PushShortResync(p, m) ==
  /\ up
  /\ "short_write" \in Faults[p]
  /\ FrameSize[m] <= BufferSize
  /\ HasRoom(p, m)
  /\ \E k \in 1 .. FrameSize[m] - 1 : file' = Grow(p, m, k)
  /\ present' = [present EXCEPT ![p] = TRUE]
  /\ writeOffset' = [writeOffset EXCEPT ![p] = Len(file'[p])]
  /\ Return("push", p, FALSE, NoPacket)
  /\ UNCHANGED <<readOffset, nextReadOffset, up>>

\* The append is reported as failed but has left its first k cells in the file.
PushShort(p, m) ==
  /\ up
  /\ "short_write" \in Faults[p]
  /\ FrameSize[m] <= BufferSize
  /\ HasRoom(p, m)
  /\ \E k \in 1 .. FrameSize[m] - 1 : file' = Grow(p, m, k)
  /\ present' = [present EXCEPT ![p] = TRUE]
  /\ Return("push", p, FALSE, NoPacket)
  /\ UNCHANGED <<writeOffset, readOffset, nextReadOffset, up>>

\* Bound: after half a clear, reads beyond the end would go on for ever.
InBounds(p) == readOffset[p] <= MaxFile[p]

\* The frame at the read offset is whole and fits the room of the caller.
Readable(p, room) ==
  HeadFrame(p).size # 0 /\ HeadFrame(p).size - Overhead <= room

\* Mutant of NextFrame: a pop does not remember where the read ended.
NextFrameNotNoted(op, p, room) ==
  /\ InBounds(p)
  /\ readOffset' = IF op \in PopOp /\ Readable(p, room)
                   THEN [readOffset EXCEPT ![p] = @ + HeadFrame(p).size]
                   ELSE readOffset
  /\ IF Readable(p, room)
     THEN Return(op, p, TRUE, HeadFrame(p).pkt)
     ELSE Return(op, p, FALSE, NoPacket)
  /\ UNCHANGED <<writeOffset, nextReadOffset>>

\* Mutant of NextFrame: the end of the frame is noted before the room is checked.
NextFrameEarly(op, p, room) ==
  /\ InBounds(p)
  /\ nextReadOffset' = [nextReadOffset EXCEPT ![p] = readOffset[p] + HeadFrame(p).size]
  /\ readOffset' = IF op \in PopOp /\ Readable(p, room)
                   THEN [readOffset EXCEPT ![p] = @ + HeadFrame(p).size]
                   ELSE readOffset
  /\ IF Readable(p, room)
     THEN Return(op, p, TRUE, HeadFrame(p).pkt)
     ELSE Return(op, p, FALSE, NoPacket)
  /\ UNCHANGED writeOffset

\* _next(): only a successful read moves an offset.
NextFrame(op, p, room) ==
  /\ InBounds(p)
  /\ \/ /\ ~Readable(p, room)
        /\ Return(op, p, FALSE, NoPacket)
        /\ UNCHANGED <<writeOffset, readOffset, nextReadOffset>>
     \/ /\ Readable(p, room)
        /\ nextReadOffset' =
             [nextReadOffset EXCEPT ![p] = readOffset[p] + HeadFrame(p).size]
        /\ readOffset' = IF op \in PopOp
                         THEN [readOffset EXCEPT ![p] = @ + HeadFrame(p).size]
                         ELSE readOffset
        /\ UNCHANGED writeOffset
        /\ Return(op, p, TRUE, HeadFrame(p).pkt)

PeekNext(p, room) == up /\ NextFrame("peek", p, room) /\ UNCHANGED <<file, present, up>>

PopNext(p, room) == up /\ NextFrame("pop", p, room) /\ UNCHANGED <<file, present, up>>

\* peekAnyFromPorts and popAnyFromPorts: the first port of the list that is
\* not empty, whether or not its head can be read.
AnyFromPorts(op, ports, room) ==
  /\ up
  /\ \/ \E i \in DOMAIN ports :
          /\ \A j \in 1 .. i - 1 : IsPortEmpty(ports[j])
          /\ ~IsPortEmpty(ports[i])
          /\ NextFrame(op, ports[i], room)
     \/ /\ \A j \in DOMAIN ports : IsPortEmpty(ports[j])
        /\ Return(op, 0, FALSE, NoPacket)
        /\ UNCHANGED <<writeOffset, readOffset, nextReadOffset>>
  /\ UNCHANGED <<file, present, up>>

Skippable(p) == readOffset[p] # writeOffset[p] /\ nextReadOffset[p] # readOffset[p]

\* Mutant of SkipToNextPacket: the skip moves back by the size of the frame.
SkipBack(p) ==
  /\ up
  /\ readOffset' = IF Skippable(p)
                   THEN [readOffset EXCEPT ![p] = @ - (nextReadOffset[p] - @)]
                   ELSE readOffset
  /\ Return("skip", p, Skippable(p), NoPacket)
  /\ UNCHANGED <<file, present, writeOffset, nextReadOffset, up>>

\* skipToNextPacket(): to where the last read ended, but not past the end.
SkipToNextPacket(p) ==
  /\ up
  /\ readOffset' = IF Skippable(p)
                   THEN [readOffset EXCEPT ![p] = IF nextReadOffset[p] > writeOffset[p]
                                                  THEN writeOffset[p]
                                                  ELSE nextReadOffset[p]]
                   ELSE readOffset
  /\ Return("skip", p, Skippable(p), NoPacket)
  /\ UNCHANGED <<file, present, writeOffset, nextReadOffset, up>>

ClearDone(p) ==
  /\ up
  /\ file' = [file EXCEPT ![p] = <<>>]
  /\ present' = [present EXCEPT ![p] = TRUE]
  /\ writeOffset' = [writeOffset EXCEPT ![p] = 0]
  /\ readOffset' = [readOffset EXCEPT ![p] = 0]
  /\ nextReadOffset' = [nextReadOffset EXCEPT ![p] = 0]
  /\ Return("clear", p, TRUE, NoPacket)
  /\ UNCHANGED up

\* The file exists and cannot be deleted.
ClearRefused(p) ==
  /\ up
  /\ present[p]
  /\ Return("clear", p, FALSE, NoPacket)
  /\ UNCHANGED <<file, present, writeOffset, readOffset, nextReadOffset, up>>

\* Mutant of ClearHalf: the write offset follows the deleted file, alone.
ClearHalfMarked(p) ==
  /\ up
  /\ "create_fails" \in Faults[p]
  /\ file' = [file EXCEPT ![p] = <<>>]
  /\ present' = [present EXCEPT ![p] = FALSE]
  /\ writeOffset' = [writeOffset EXCEPT ![p] = 0]
  /\ Return("clear", p, FALSE, NoPacket)
  /\ UNCHANGED <<readOffset, nextReadOffset, up>>

\* The file is deleted and cannot be created again: the offsets stay.
ClearHalf(p) ==
  /\ up
  /\ "create_fails" \in Faults[p]
  /\ file' = [file EXCEPT ![p] = <<>>]
  /\ present' = [present EXCEPT ![p] = FALSE]
  /\ Return("clear", p, FALSE, NoPacket)
  /\ UNCHANGED <<writeOffset, readOffset, nextReadOffset, up>>

\* The board resets between two calls, within an append, or between the
\* deletion and the creation of a file that is cleared.  The offsets are not
\* read again before Begin has overwritten them.
Reset ==
  /\ up
  /\ up' = FALSE
  /\ \/ UNCHANGED <<file, present>>
     \/ \E p \in Port, m \in Packet :
          /\ FrameSize[m] <= BufferSize
          /\ HasRoom(p, m)
          /\ \E k \in 1 .. FrameSize[m] : file' = Grow(p, m, k)
          /\ present' = [present EXCEPT ![p] = TRUE]
     \/ \E p \in Port :
          /\ file' = [file EXCEPT ![p] = <<>>]
          /\ present' = [present EXCEPT ![p] = FALSE]
  /\ Return("reset", 0, TRUE, NoPacket)
  /\ UNCHANGED <<writeOffset, readOffset, nextReadOffset>>

Next ==
  \/ Begin
  \/ Reset
  \/ \E p \in Port :
       \/ \E m \in Packet : PushAccepted(p, m) \/ PushRefused(p, m) \/ PushShort(p, m)
       \/ \E room \in Rooms : PeekNext(p, room) \/ PopNext(p, room)
       \/ SkipToNextPacket(p)
       \/ ClearDone(p) \/ ClearRefused(p) \/ ClearHalf(p)
  \/ \E ports \in PortLists, room \in Rooms, op \in {"peekAny", "popAny"} :
       AnyFromPorts(op, ports, room)

Spec == Init /\ [][Next]_vars

-----------------------------------------------------------------------------
Op == {"reset", "begin", "push", "peek", "pop", "peekAny", "popAny", "skip", "clear"}

Result == [op : Op, port : 0 .. MaxPort, ok : BOOLEAN,
           pkt : Packet \cup {NoPacket, Garbled}]

\* The types of the state.
TypeOK ==
  /\ file \in [Port -> Seq(Cell)]
  /\ present \in [Port -> BOOLEAN]
  /\ writeOffset \in [Port -> Nat]
  /\ readOffset \in [Port -> Nat]
  /\ nextReadOffset \in [Port -> Nat]
  /\ up \in BOOLEAN
  /\ result \in Result

\* While the board is up and no append came out short, the three offsets of
\* a port stay in order and the write offset is the end of the file: push,
\* _next, skipToNextPacket and clear never lose the frame boundary that
\* begin() found, in whatever order they are called, so that the clamp of
\* skipToNextPacket is never needed.
OffsetsOrdered ==
  up => \A p \in Port :
          /\ readOffset[p] <= nextReadOffset[p]
          /\ nextReadOffset[p] <= writeOffset[p]
          /\ writeOffset[p] = Len(file[p])

\* A port that is not empty has a complete frame at its read offset: the
\* router, which skips only what it has peeked, can always get past it.
HeadReadable ==
  up => \A p \in Port : ~IsPortEmpty(p) => HeadFrame(p).pkt \in Packet

\* A fault of the storage that the board survives cannot hide: as long as the
\* write offset of a port is the end of its file, its offsets are in order
\* and its head is a whole frame, whatever appends came out short before the
\* last begin() or on other ports.
DamageVisible ==
  up => \A p \in Port :
          writeOffset[p] = Len(file[p]) =>
            /\ readOffset[p] <= nextReadOffset[p]
            /\ nextReadOffset[p] <= writeOffset[p]
            /\ ~IsPortEmpty(p) => HeadFrame(p).pkt \in Packet

\* The payloads between the read and the write offset of a port.
Contents(p) ==
  LET parse[o \in Nat] ==
        LET frame == Unwrap(ReadRegion(file[p], o))
        IN IF o >= writeOffset[p] \/ frame.size = 0
           THEN <<>>
           ELSE <<frame.pkt>> \o parse[o + frame.size]
  IN parse[readOffset[p]]

Fifo == INSTANCE PacketFifo WITH
          queue  <- [p \in Port |-> IF up THEN Contents(p) ELSE <<>>],
          peeked <- [p \in Port |-> up /\ nextReadOffset[p] # readOffset[p]]

\* The files and offsets behave as one first-in first-out queue per port:
\* what is peeked and popped is what was pushed, in that order, a skip drops
\* exactly the packet that was peeked, a reset in the middle of an append
\* does no more than empty the queues.
FifoSpec == Fifo!Spec
=============================================================================
