----------------------------- MODULE SerialPort ----------------------------
(***************************************************************************)
(* SerialPort::sync(): how the frames that the Rock Pi writes are found    *)
(* again in the bytes that reach the board.                                *)
(*                                                                         *)
(* The Pi writes at any time; the UART keeps the bytes in a ring and drops *)
(* what comes when the ring is full, for sync() is called every 15 s only. *)
(* The bytes of the frame that is being read are collected in the buffer   *)
(* that all parts of the firmware share, and the count of them is a static *)
(* variable, which outlives the call.                                      *)
(*                                                                         *)
(* Bytes are small numbers, and the header is shortened from 7 bytes to 3: *)
(* the start byte, one byte of the timestamp and one of the length, so     *)
(* that a byte may be taken for any of them.                               *)
(***************************************************************************)
EXTENDS Naturals, Sequences, SequencesExt

CONSTANTS
  Start, End,   \* START_BYTE and END_BYTE
  Other,        \* a byte that is neither
  Stamps,       \* the timestamps that the Pi may give
  Payloads,     \* the packets that the Pi may send
  BufferSize,   \* of the shared buffer
  RingSize,     \* of the UART
  MaxFrames     \* bound: frames that the Pi writes

HeaderSize == 3
FooterSize == 1

RequiredSize(n) == HeaderSize + n + FooterSize

ASSUME SerialAssumption ==
  /\ {Start, End, Other} \cup Stamps \subseteq Nat /\ Start \notin {End, Other}
  /\ Payloads \subseteq Seq(Nat) \ {<<>>}
  /\ {BufferSize, RingSize, MaxFrames} \subseteq Nat
  /\ \A p \in Payloads : RequiredSize(Len(p)) <= BufferSize

VARIABLES
  wire,    \* bytes that the Pi has yet to put on the line
  ring,    \* bytes that the UART keeps
  rx,      \* the first rxBufferReceivedBytes bytes of the shared buffer
  left,    \* bytesLeftToRead
  stage,   \* where sync() is; "out": it is not running
  frames,  \* the number of frames written
  sent,    \* history since the line was last clean: packets written,
  handed,  \* and given to the queue
  hurt     \* history: bytes were lost or came late since the line was clean

serialVars == <<wire, ring, rx, left, stage, frames, sent, handed, hurt>>

InitSerial ==
  /\ wire = <<>> /\ ring = <<>> /\ rx = <<>> /\ left = 0 /\ stage = "out"
  /\ frames = 0 /\ sent = <<>> /\ handed = <<>> /\ hurt = FALSE

Least(m, n) == IF m < n THEN m ELSE n
Take(s, n) == SubSeq(s, 1, Least(n, Len(s)))
Drop(s, n) == SubSeq(s, n + 1, Len(s))

-----------------------------------------------------------------------------
(* BinaryFrame *)

\* wrapInPlace(): the frame of a payload.
Wrap(p, ts) == <<Start, ts, Len(p)>> \o p \o <<End>>

\* The length that parseHeader() finds. It looks at the beginning of the
\* buffer, and not at the start byte.
HeaderLength(b) == b[HeaderSize]

\* unwrap(): is there a frame at the beginning of the buffer?
Unwraps(b) ==
  /\ Len(b) >= HeaderSize + FooterSize
  /\ b[1] = Start
  /\ Len(b) >= RequiredSize(HeaderLength(b))
  /\ b[RequiredSize(HeaderLength(b))] = End

Unwrap(b) == SubSeq(b, HeaderSize + 1, HeaderSize + HeaderLength(b))

-----------------------------------------------------------------------------
(* The Pi and the line. *)

\* The Pi writes the next frame when it has put the last one on the line.
PiWrites ==
  /\ frames < MaxFrames /\ wire = <<>>
  /\ \E p \in Payloads, ts \in Stamps :
       /\ wire' = Wrap(p, ts)
       /\ sent' = Append(sent, p)
  /\ frames' = frames + 1
  /\ UNCHANGED <<ring, rx, left, stage, handed, hurt>>

\* Some bytes arrive. What the ring has no room for is lost.
Arrive ==
  /\ wire # <<>>
  /\ \E n \in 1 .. Len(wire) :
       /\ ring' = Take(ring \o Take(wire, n), RingSize)
       /\ wire' = Drop(wire, n)
       /\ hurt' = (hurt \/ Len(ring) + n > RingSize)
  /\ UNCHANGED <<rx, left, stage, frames, sent, handed>>

-----------------------------------------------------------------------------
(* sync() *)

\* Mutant of ReadBytes: without setTimeout(), what has come must do.
ReadBytesNoTimeout(n) ==
  /\ rx' = rx \o Take(ring, n)
  /\ ring' = Drop(ring, n)
  /\ UNCHANGED hurt

\* readBytes(n): n bytes, or what has come when the time-out ends. It ends
\* early when the Pi is not writing, or when it stalls in a frame.
ReadBytes(n) ==
  /\ rx' = rx \o Take(ring, n)
  /\ ring' = Drop(ring, n)
  /\ hurt' = (hurt \/ (Len(ring) < n /\ wire # <<>>))

\* The call begins. Since the last one the buffer may have been used for
\* something else, which leaves the count of received bytes as it is.
SyncBegins ==
  /\ stage = "out" /\ stage' = "scan"
  /\ \E b \in {Start, End, Other} : rx' \in {rx, [i \in DOMAIN rx |-> b]}
  /\ UNCHANGED <<wire, ring, left, frames, sent, handed, hurt>>

\* There is nothing more to read. If no byte is under way either, and none
\* is kept for the next call, the line is clean.
SyncEnds ==
  /\ stage = "scan" /\ ring = <<>>
  /\ stage' = "out"
  /\ IF wire = <<>> /\ rx = <<>>
       THEN sent' = <<>> /\ handed' = <<>> /\ hurt' = FALSE
       ELSE UNCHANGED <<sent, handed, hurt>>
  /\ UNCHANGED <<wire, ring, rx, left, frames>>

\* The next byte does not start a frame.
Discard ==
  /\ stage = "scan" /\ ring # <<>> /\ Head(ring) # Start
  /\ ring' = Tail(ring)
  /\ rx' = <<>>
  /\ UNCHANGED <<wire, left, stage, frames, sent, handed, hurt>>

\* Mutant of NoRoomForHeader: the loop goes on with a full buffer.
NoRoomLoops ==
  /\ stage = "scan" /\ ring # <<>> /\ Head(ring) = Start
  /\ HeaderSize > BufferSize - Len(rx)
  /\ UNCHANGED serialVars

\* No room for a header is left: the call ends with the byte unread.
NoRoomForHeader ==
  /\ stage = "scan" /\ ring # <<>> /\ Head(ring) = Start
  /\ HeaderSize > BufferSize - Len(rx)
  /\ rx' = <<>>
  /\ stage' = "out"
  /\ UNCHANGED <<wire, ring, left, frames, sent, handed, hurt>>

\* Mutant of Fits: the kept bytes are forgotten.
FitsAlone(b) == RequiredSize(HeaderLength(b)) <= BufferSize

\* Mutant of Fits: a frame that fills the buffer is turned away.
FitsStrictly(b) ==
  LET size == RequiredSize(HeaderLength(b))
  IN size < BufferSize /\ size - HeaderSize < BufferSize - Len(b)

\* The frame whose header has been read, after the bytes kept from an earlier
\* call, has room in the buffer.
Fits(b) ==
  LET size == RequiredSize(HeaderLength(b))
  IN size <= BufferSize /\ size - HeaderSize <= BufferSize - Len(b)

\* A header is read. An incomplete one stays in the buffer; one whose frame
\* would not fit is dropped.
ReadHeader ==
  /\ stage = "scan" /\ ring # <<>> /\ Head(ring) = Start
  /\ HeaderSize <= BufferSize - Len(rx)
  /\ LET whole == Len(ring) >= HeaderSize
         got == rx \o Take(ring, HeaderSize)
         size == RequiredSize(HeaderLength(got))
     IN \/ /\ ~whole
           /\ ReadBytes(HeaderSize)
           /\ UNCHANGED <<left, stage>>
        \/ /\ whole /\ Fits(got)
           /\ ReadBytes(HeaderSize)
           /\ left' = size - HeaderSize
           /\ stage' = "payload"
        \/ /\ whole /\ ~Fits(got)
           /\ rx' = <<>>
           /\ ring' = Drop(ring, HeaderSize)
           /\ UNCHANGED <<left, stage, hurt>>
  /\ UNCHANGED <<wire, frames, sent, handed>>

\* The rest of the frame is read. A read that brings less than what is then
\* missing is followed by a wait; any other one is taken for the end of the
\* frame. The packet of a frame goes to the queue, which may refuse it.
ReadPayload ==
  /\ stage = "payload"
  /\ ReadBytes(left)
  /\ LET got == Len(rx') - Len(rx)
         missing == left - got
     IN \/ /\ got = 0 \/ got < missing
           /\ left' = missing
           /\ stage' = "wait"
           /\ UNCHANGED handed
        \/ /\ got > 0 /\ got >= missing
           /\ Unwraps(rx')
           /\ handed' = Append(handed, Unwrap(rx'))
           /\ left' = missing
           /\ stage' = IF missing > 0 THEN "payload" ELSE "done"
        \/ /\ got > 0 /\ got >= missing
           /\ ~Unwraps(rx')
           /\ left' = missing
           /\ stage' = "done"
           /\ UNCHANGED handed
  /\ UNCHANGED <<wire, frames, sent>>

\* After the wait of 100 ms the frame is read on if anything has come.
Waited ==
  /\ stage = "wait"
  /\ stage' = IF ring # <<>> THEN "payload" ELSE "done"
  /\ UNCHANGED <<wire, ring, rx, left, frames, sent, handed, hurt>>

\* The frame has been dealt with: the buffer is cleared.
FrameDone ==
  /\ stage = "done"
  /\ rx' = <<>> /\ left' = 0
  /\ stage' = "scan"
  /\ UNCHANGED <<wire, ring, frames, sent, handed, hurt>>

Sync ==
  \/ SyncBegins \/ SyncEnds \/ Discard \/ NoRoomForHeader
  \/ ReadHeader \/ ReadPayload \/ Waited \/ FrameDone

NextSerial == PiWrites \/ Arrive \/ Sync

\* Bytes that are written arrive, and a call that has begun goes on.
FairnessSerial ==
  /\ WF_serialVars(Arrive)
  /\ WF_serialVars(stage # "out" /\ Sync)

SpecSerial == InitSerial /\ [][NextSerial]_serialVars /\ FairnessSerial

-----------------------------------------------------------------------------
TypeOKSerial ==
  /\ wire \in Seq(Nat) /\ ring \in Seq(Nat) /\ Len(ring) <= RingSize
  /\ rx \in Seq(Nat) /\ Len(rx) <= BufferSize
  /\ left \in 0 .. BufferSize
  /\ stage \in {"out", "scan", "payload", "wait", "done"}
  /\ frames \in 0 .. MaxFrames
  /\ sent \in Seq(Payloads) /\ handed \in Seq(Seq(Nat))
  /\ hurt \in BOOLEAN

\* While no byte is lost or late, the queue is given what the Pi wrote, in
\* its order, nothing twice and nothing invented, and all of it when nothing
\* is left to read. The line heals: this is so again from the moment that a
\* call has ended with nothing left to read or kept, until new damage is done.
Exact ==
  ~hurt =>
    /\ IsPrefix(handed, sent)
    /\ stage \in {"out", "scan"} /\ ring = <<>> /\ wire = <<>> => handed = sent

\* A call of sync() ends, whatever the line brings.
SyncReturns == stage # "out" ~> stage = "out"
=============================================================================
