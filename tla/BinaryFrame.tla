---------------------------- MODULE BinaryFrame -----------------------------
(***************************************************************************)
(* The record format of the files on the SD card                           *)
(* (src/lib/shared/BinaryFrame), which the packet queue and the module     *)
(* cache append to and read back from an offset.                           *)
(*                                                                         *)
(* A file is the sequence of its cells.  The cell <<m, k>> is the k-th     *)
(* piece of the frame of payload m: the first one is the header (start     *)
(* byte and length), the last one the footer (end byte).                   *)
(***************************************************************************)
EXTENDS Naturals, Sequences

CONSTANTS
  Packet,      \* the payloads
  FrameSize,   \* BinaryFrame::requiredSize of each payload, in cells
  Overhead,    \* header and footer of a frame, in cells
  BufferSize,  \* SharedMemory::tmpBufferSize(), in cells
  NoPacket,    \* returned when there is no payload
  Garbled      \* a payload made of pieces of different frames

ASSUME FrameAssumption ==
  /\ Overhead \in Nat \ {0}
  /\ FrameSize \in [Packet -> Nat]
  /\ \A m \in Packet : FrameSize[m] > Overhead
  /\ BufferSize \in Nat
  /\ NoPacket \notin Packet /\ Garbled \notin Packet /\ NoPacket # Garbled

Cell == Packet \X Nat

\* The frame BinaryFrame::wrapInPlace builds around payload m.
Frame(m) == [k \in 1 .. FrameSize[m] |-> <<m, k>>]

\* At most BufferSize cells of f from offset o.  The storage ignores a seek
\* that fails: reading beyond the end of the file reads its beginning.
ReadRegion(f, o) ==
  LET start == IF o <= Len(f) THEN o ELSE 0
      stop  == IF Len(f) - start > BufferSize THEN start + BufferSize ELSE Len(f)
  IN SubSeq(f, start + 1, stop)

NoFrame == [size |-> 0, pkt |-> NoPacket]

\* BinaryFrame::unwrap looks at the start byte, the length and the end byte;
\* nothing covers what lies between them.
Unwrap(bytes) ==
  IF Len(bytes) < Overhead \/ bytes = <<>> THEN NoFrame
  ELSE LET m == bytes[1][1]
           n == FrameSize[m]
       IN IF bytes[1][2] # 1 \/ Len(bytes) < n THEN NoFrame
          ELSE IF bytes[n][2] # FrameSize[bytes[n][1]] THEN NoFrame
          ELSE [size |-> n,
                pkt  |-> IF SubSeq(bytes, 1, n) = Frame(m) THEN m ELSE Garbled]
=============================================================================
