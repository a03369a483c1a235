------------------------- MODULE PacketQueueProofs --------------------------
(***************************************************************************)
(* Proofs about PacketQueue for any number of ports, any payloads and any  *)
(* length of the files: the types, the order of the three offsets, the     *)
(* frame at the head of a port, and that the files and their offsets       *)
(* implement PacketFifo.                                                   *)
(***************************************************************************)
EXTENDS PacketQueue, SequenceTheorems, WellFoundedInduction, TLAPS

-----------------------------------------------------------------------------
(* Frames *)

\* A read of a region returns cells, and no more of them than the file holds
\* from the offset on.
LEMMA ReadRegionBounds ==
  ASSUME NEW f \in Seq(Cell), NEW o \in Nat
  PROVE  /\ ReadRegion(f, o) \in Seq(Cell)
         /\ o <= Len(f) => Len(ReadRegion(f, o)) <= Len(f) - o
  BY FrameAssumption DEF ReadRegion

\* What unwrap accepts is a frame that lies within the bytes it was given.
LEMMA UnwrapBounds ==
  ASSUME NEW bytes \in Seq(Cell)
  PROVE  /\ Unwrap(bytes).size \in Nat
         /\ Unwrap(bytes).size <= Len(bytes)
         /\ Unwrap(bytes).pkt \in Packet \cup {NoPacket, Garbled}
<1>1. CASE Len(bytes) < Overhead \/ bytes = <<>>
  BY <1>1 DEF Unwrap, NoFrame
<1>2. CASE ~(Len(bytes) < Overhead \/ bytes = <<>>)
  <2>1. bytes[1] \in Packet \X Nat
    BY <1>2 DEF Cell
  <2>2. bytes[1][1] \in Packet /\ FrameSize[bytes[1][1]] \in Nat
    BY <2>1, FrameAssumption
  <2> QED
    BY <1>2, <2>2 DEF Unwrap, NoFrame
<1> QED
  BY <1>1, <1>2

\* A frame is a sequence of as many cells as its payload needs, and so is
\* every beginning of it.
LEMMA FrameType ==
  ASSUME NEW m \in Packet, NEW k \in 0 .. FrameSize[m]
  PROVE  /\ Frame(m) \in Seq(Cell)
         /\ SubSeq(Frame(m), 1, k) \in Seq(Cell)
         /\ Len(SubSeq(Frame(m), 1, k)) = k
<1>1. FrameSize[m] \in Nat
  BY FrameAssumption
<1>2. Frame(m) \in Seq(Cell) /\ Len(Frame(m)) = FrameSize[m]
  BY <1>1 DEF Frame, Cell
<1> QED
  BY <1>1, <1>2

\* A frame that lies within the file and fits the buffer is read as what it is.
LEMMA FrameRead ==
  ASSUME NEW f \in Seq(Cell), NEW o \in Nat, NEW m \in Packet,
         FrameSize[m] <= BufferSize, o + FrameSize[m] <= Len(f),
         \A k \in 1 .. FrameSize[m] : f[o + k] = <<m, k>>
  PROVE  Unwrap(ReadRegion(f, o)) = [size |-> FrameSize[m], pkt |-> m]
<1> DEFINE n == FrameSize[m]
           stop == IF Len(f) - o > BufferSize THEN o + BufferSize ELSE Len(f)
           bytes == SubSeq(f, o + 1, stop)
<1>1. /\ n \in Nat /\ n > Overhead /\ Overhead \in Nat \ {0} /\ BufferSize \in Nat
      /\ Len(f) \in Nat
  BY FrameAssumption
<1>2. stop \in Nat /\ o + n <= stop /\ stop <= Len(f)
  BY <1>1
<1>3. ReadRegion(f, o) = bytes
  <2>1. o <= Len(f)
    BY <1>1
  <2> QED
    BY <2>1, Zenon DEF ReadRegion
<1> HIDE DEF stop
<1>4. /\ Len(bytes) = stop - o /\ bytes \in Seq(Cell)
      /\ \A k \in 1 .. n : bytes[k] = f[o + k]
  <2>1. o + 1 \in 1 .. Len(f) + 1 /\ stop \in o + 1 - 1 .. Len(f)
    BY <1>1, <1>2
  <2>2. /\ bytes \in Seq(Cell) /\ Len(bytes) = stop - (o + 1) + 1
        /\ \A k \in 1 .. stop - (o + 1) + 1 : bytes[k] = f[o + 1 + k - 1]
    BY <2>1, SubSeqProperties
  <2> HIDE DEF bytes
  <2> QED
    BY <1>1, <1>2, <2>2
<1>5. Len(bytes) >= n /\ \A k \in 1 .. n : bytes[k] = <<m, k>>
  BY <1>1, <1>2, <1>4
<1> HIDE DEF bytes
<1>6. SubSeq(bytes, 1, n) = Frame(m)
  <2>1. SubSeq(bytes, 1, n) = [k \in 1 .. n |-> bytes[k]]
    BY <1>1, <1>4, <1>5
  <2> QED
    BY <1>5, <2>1 DEF Frame
<1>7. bytes[1] = <<m, 1>> /\ bytes[n] = <<m, n>> /\ bytes # <<>> /\ ~(Len(bytes) < Overhead)
  BY <1>1, <1>4, <1>5
<1> QED
  BY <1>1, <1>3, <1>4, <1>5, <1>6, <1>7 DEF Unwrap

\* Nothing is read at the end of a file.
LEMMA EndRead ==
  ASSUME NEW f \in Seq(Cell)
  PROVE  Unwrap(ReadRegion(f, Len(f))) = NoFrame
<1>1. ReadRegion(f, Len(f)) = <<>>
  BY FrameAssumption DEF ReadRegion
<1> QED
  BY <1>1 DEF Unwrap

\* All the cells of a frame.
LEMMA WholeFrame ==
  ASSUME NEW m \in Packet
  PROVE  /\ SubSeq(Frame(m), 1, FrameSize[m]) = Frame(m)
         /\ Frame(m) \in Seq(Cell) /\ Len(Frame(m)) = FrameSize[m]
         /\ \A k \in 1 .. FrameSize[m] : Frame(m)[k] = <<m, k>>
<1>1. FrameSize[m] \in Nat
  BY FrameAssumption
<1>2. Frame(m) \in Seq(Cell) /\ Len(Frame(m)) = FrameSize[m]
      /\ \A k \in 1 .. FrameSize[m] : Frame(m)[k] = <<m, k>>
  <2>1. Frame(m) \in Seq(Cell) /\ Len(Frame(m)) = FrameSize[m]
    <3>1. FrameSize[m] \in 0 .. FrameSize[m]
      BY <1>1
    <3>2. Frame(m) \in Seq(Cell)
      BY <3>1, FrameType
    <3> QED
      BY <1>1, <3>2 DEF Frame
  <2>2. \A k \in 1 .. FrameSize[m] : Frame(m)[k] = <<m, k>>
    BY DEF Frame
  <2> QED
    BY <2>1, <2>2
<1>3. SubSeq(Frame(m), 1, FrameSize[m]) = Frame(m)
  BY <1>1, <1>2
<1> QED
  BY <1>2, <1>3

\* A file that grows by the cells c holds them at its end, the rest as before.
LEMMA CellsAppended ==
  ASSUME NEW f \in Seq(Cell), NEW c \in Seq(Cell)
  PROVE  /\ f \o c \in Seq(Cell) /\ Len(f \o c) = Len(f) + Len(c)
         /\ \A k \in 1 .. Len(f) : (f \o c)[k] = f[k]
         /\ \A k \in 1 .. Len(c) : (f \o c)[Len(f) + k] = c[k]
  OBVIOUS

-----------------------------------------------------------------------------
(* Types *)

\* The file of a port grows by the cells that were written and by no others.
LEMMA GrowType ==
  ASSUME TypeOK, NEW p \in Port, NEW m \in Packet, NEW k \in 0 .. FrameSize[m]
  PROVE  /\ Grow(p, m, k) \in [Port -> Seq(Cell)]
         /\ Len(Grow(p, m, k)[p]) = Len(file[p]) + k
         /\ \A q \in Port : q # p => Grow(p, m, k)[q] = file[q]
<1> DEFINE piece == SubSeq(Frame(m), 1, k)
<1>1. piece \in Seq(Cell) /\ Len(piece) = k
  BY FrameType
<1>2. file \in [Port -> Seq(Cell)] /\ file[p] \in Seq(Cell)
  BY DEF TypeOK
<1> HIDE DEF piece
<1>3. file[p] \o piece \in Seq(Cell) /\ Len(file[p] \o piece) = Len(file[p]) + k
  BY <1>1, <1>2, ConcatProperties
<1>4. Grow(p, m, k) = [file EXCEPT ![p] = @ \o piece]
  BY DEF Grow, piece
<1> QED
  BY <1>2, <1>3, <1>4

\* A call leaves a well-formed result behind.
LEMMA ReturnType ==
  ASSUME NEW op \in Op, NEW p \in 0 .. MaxPort, NEW ok \in BOOLEAN,
         NEW m \in Packet \cup {NoPacket, Garbled}, Return(op, p, ok, m)
  PROVE  result' \in Result
  BY DEF Return, Result

\* The port lists that callers pass name ports.
LEMMA PortListType ==
  ASSUME NEW ports \in PortLists
  PROVE  \A i \in DOMAIN ports : ports[i] \in Port
<1>1. ports \in Seq(1 .. MaxPort)
  BY QueueAssumption
<1>2. \A i \in 1 .. Len(ports) : ports[i] \in 1 .. MaxPort
  BY <1>1, ElementOfSeq
<1>3. DOMAIN ports = 1 .. Len(ports)
  BY <1>1
<1> QED
  BY <1>2, <1>3 DEF Port

ReadOp == {"peek", "pop", "peekAny", "popAny"}

\* What any read of a port may do to the state: it returns a payload or
\* nothing, and the offsets it sets stay natural numbers.
LEMMA NextFrameType ==
  ASSUME TypeOK, NEW p \in Port, NEW room, NEW op \in ReadOp,
         NextFrame(op, p, room)
  PROVE  /\ writeOffset' = writeOffset
         /\ readOffset' \in [Port -> Nat]
         /\ nextReadOffset' \in [Port -> Nat]
         /\ result' \in Result
<1>1. ReadRegion(file[p], readOffset[p]) \in Seq(Cell)
  BY ReadRegionBounds DEF TypeOK
<1>2. /\ HeadFrame(p).size \in Nat
      /\ HeadFrame(p).pkt \in Packet \cup {NoPacket, Garbled}
  BY <1>1, UnwrapBounds DEF HeadFrame
<1>3. result' \in Result
  <2>1. op \in Op /\ p \in 0 .. MaxPort
    BY QueueAssumption DEF Op, ReadOp, Port
  <2> QED
    BY <1>2, <2>1, ReturnType DEF NextFrame
<1>4. CASE ~Readable(p, room)
  BY <1>3, <1>4 DEF NextFrame, TypeOK
<1>5. CASE Readable(p, room)
  <2> DEFINE end == readOffset[p] + HeadFrame(p).size
  <2>0. readOffset[p] \in Nat
    BY DEF TypeOK
  <2>1. end \in Nat
    BY <1>2, <2>0
  <2>2. /\ writeOffset' = writeOffset
        /\ nextReadOffset' = [nextReadOffset EXCEPT ![p] = end]
        /\ readOffset' \in {readOffset, [readOffset EXCEPT ![p] = end]}
    BY <1>5 DEF NextFrame
  <2> HIDE DEF end
  <2> QED
    BY <1>3, <2>1, <2>2 DEF TypeOK
<1> QED
  BY <1>4, <1>5

LEMMA InitType == Init => TypeOK
<1> SUFFICES ASSUME Init PROVE TypeOK
  OBVIOUS
<1>1. <<>> \in Seq(Cell)
  OBVIOUS
<1>2. file \in [Port -> Seq(Cell)]
  BY <1>1 DEF Init
<1>3. result \in Result
  BY QueueAssumption DEF Init, Result, Op
<1> QED
  BY <1>2, <1>3 DEF Init, TypeOK

LEMMA NextType ==
  ASSUME TypeOK, [Next]_vars
  PROVE  TypeOK'
<1> USE DEF Return, Op, Result
<1>1. CASE Begin
  <2>1. \A p \in Port : Len(file[p]) \in Nat
    BY DEF TypeOK
  <2> QED
    BY <1>1, <2>1, QueueAssumption DEF Begin, TypeOK
<1>2. CASE Reset
  <2>1. result' \in Result
    BY <1>2, QueueAssumption DEF Reset
  <2>2. file' \in [Port -> Seq(Cell)] /\ present' \in [Port -> BOOLEAN]
    <3>1. CASE UNCHANGED <<file, present>>
      BY <3>1 DEF TypeOK
    <3>2. ASSUME NEW p \in Port, NEW m \in Packet,
                 NEW k \in 1 .. FrameSize[m], file' = Grow(p, m, k),
                 present' = [present EXCEPT ![p] = TRUE]
          PROVE  file' \in [Port -> Seq(Cell)] /\ present' \in [Port -> BOOLEAN]
      <4>1. k \in 0 .. FrameSize[m]
        BY FrameAssumption
      <4> QED
        BY <3>2, <4>1, GrowType DEF TypeOK
    <3>3. ASSUME NEW p \in Port, file' = [file EXCEPT ![p] = <<>>],
                 present' = [present EXCEPT ![p] = FALSE]
          PROVE  file' \in [Port -> Seq(Cell)] /\ present' \in [Port -> BOOLEAN]
      BY <3>3 DEF TypeOK
    <3> QED
      BY <1>2, <3>1, <3>2, <3>3 DEF Reset
  <2> QED
    BY <1>2, <2>1, <2>2 DEF Reset, TypeOK
<1>3. ASSUME NEW p \in Port, NEW m \in Packet, PushAccepted(p, m)
      PROVE  TypeOK'
  <2>1. FrameSize[m] \in 0 .. FrameSize[m] /\ FrameSize[m] \in Nat
    BY FrameAssumption
  <2>2. file' \in [Port -> Seq(Cell)]
    BY <1>3, <2>1, GrowType DEF PushAccepted
  <2> QED
    BY <1>3, <2>1, <2>2 DEF PushAccepted, TypeOK, Port
<1>4. ASSUME NEW p \in Port, NEW m \in Packet, PushRefused(p, m)
      PROVE  TypeOK'
  BY <1>4 DEF PushRefused, TypeOK, Port
<1>5. ASSUME NEW p \in Port, NEW m \in Packet, PushShort(p, m)
      PROVE  TypeOK'
  <2>1. PICK k \in 1 .. FrameSize[m] - 1 : file' = Grow(p, m, k)
    BY <1>5 DEF PushShort
  <2>2. k \in 0 .. FrameSize[m]
    BY FrameAssumption
  <2>3. file' \in [Port -> Seq(Cell)]
    BY <2>1, <2>2, GrowType
  <2> QED
    BY <1>5, <2>3 DEF PushShort, TypeOK, Port
<1>6. ASSUME NEW p \in Port, NEW room \in Rooms, PeekNext(p, room) \/ PopNext(p, room)
      PROVE  TypeOK'
  BY <1>6, NextFrameType DEF PeekNext, PopNext, TypeOK, ReadOp
<1>7. ASSUME NEW p \in Port, SkipToNextPacket(p)
      PROVE  TypeOK'
  <2>1. readOffset' \in [Port -> Nat]
    BY <1>7 DEF SkipToNextPacket, TypeOK
  <2>2. result' \in Result
    BY <1>7 DEF SkipToNextPacket, Skippable, Port
  <2> QED
    BY <1>7, <2>1, <2>2 DEF SkipToNextPacket, TypeOK
<1>8. ASSUME NEW p \in Port, ClearDone(p) \/ ClearRefused(p) \/ ClearHalf(p)
      PROVE  TypeOK'
  <2>1. file' \in [Port -> Seq(Cell)]
    <3>1. file \in [Port -> Seq(Cell)] /\ <<>> \in Seq(Cell)
      BY DEF TypeOK
    <3>2. [file EXCEPT ![p] = <<>>] \in [Port -> Seq(Cell)]
      BY <3>1
    <3> QED
      BY <1>8, <3>1, <3>2 DEF ClearDone, ClearRefused, ClearHalf
  <2>2. p \in 0 .. MaxPort /\ "clear" \in Op
    BY QueueAssumption DEF Port
  <2>3. CASE ClearDone(p)
    <3>1. result' \in Result
      BY <2>2, <2>3 DEF ClearDone
    <3> QED
      BY <2>1, <2>3, <3>1 DEF ClearDone, TypeOK
  <2>4. CASE ClearRefused(p)
    <3>1. result' \in Result
      BY <2>2, <2>4 DEF ClearRefused
    <3> QED
      BY <2>4, <3>1 DEF ClearRefused, TypeOK
  <2>5. CASE ClearHalf(p)
    <3>1. result' \in Result
      BY <2>2, <2>5 DEF ClearHalf
    <3> QED
      BY <2>1, <2>5, <3>1 DEF ClearHalf, TypeOK
  <2> QED
    BY <1>8, <2>3, <2>4, <2>5
<1>9. ASSUME NEW ports \in PortLists, NEW room \in Rooms, NEW op \in {"peekAny", "popAny"},
             AnyFromPorts(op, ports, room)
      PROVE  TypeOK'
  <2>1. \A i \in DOMAIN ports : ports[i] \in Port
    BY PortListType
  <2>2. CASE \E i \in DOMAIN ports : NextFrame(op, ports[i], room)
    <3>1. PICK i \in DOMAIN ports : NextFrame(op, ports[i], room)
      BY <2>2
    <3>2. ports[i] \in Port /\ op \in ReadOp
      BY <2>1, <3>1 DEF ReadOp
    <3>3. /\ writeOffset' = writeOffset
          /\ readOffset' \in [Port -> Nat]
          /\ nextReadOffset' \in [Port -> Nat]
          /\ result' \in Result
      BY <3>1, <3>2, NextFrameType
    <3>4. UNCHANGED <<file, present, up>>
      BY <1>9 DEF AnyFromPorts
    <3> QED
      BY <3>3, <3>4 DEF TypeOK
  <2>3. CASE /\ Return(op, 0, FALSE, NoPacket)
             /\ UNCHANGED <<writeOffset, readOffset, nextReadOffset>>
    BY <1>9, <2>3, QueueAssumption DEF AnyFromPorts, TypeOK
  <2> QED
    BY <1>9, <2>2, <2>3 DEF AnyFromPorts
<1>10. CASE UNCHANGED vars
  BY <1>10 DEF vars, TypeOK
<1> QED
  BY <1>1, <1>2, <1>3, <1>4, <1>5, <1>6, <1>7, <1>8, <1>9, <1>10 DEF Next

\* The state of the queue keeps its types, whatever faults the storage has
\* and whenever the board is reset.
THEOREM TypeCorrect == Spec => []TypeOK
  BY InitType, NextType, PTL DEF Spec

-----------------------------------------------------------------------------
(* Offsets and frames *)

\* Whole frames follow one another from each of the cells B up to the end e.
Frames(f, B, e) ==
  /\ e \in B
  /\ \A o \in B \ {e} : \E m \in Packet :
       /\ FrameSize[m] <= BufferSize /\ o + FrameSize[m] \in B
       /\ \A k \in 1 .. FrameSize[m] : f[o + k] = <<m, k>>

Framed(p) ==
  /\ readOffset[p] <= nextReadOffset[p]
  /\ \E B \in SUBSET (0 .. writeOffset[p]) :
       readOffset[p] \in B /\ nextReadOffset[p] \in B /\ Frames(file[p], B, writeOffset[p])

\* The inductive invariant.  A short append leaves the file longer than the
\* write offset for good, and half a clear leaves it shorter, so that where
\* the two are equal what lies between the offsets can be trusted.
Marked(p) ==
  /\ writeOffset[p] = Len(file[p]) => Framed(p)
  /\ "short_write" \notin Faults[p] => Len(file[p]) <= writeOffset[p]
  /\ "create_fails" \notin Faults[p] => writeOffset[p] <= Len(file[p])

MarksInv == up => \A p \in Port : Marked(p)

\* A port meets one kind of fault at most.
Tellable(p) == "short_write" \notin Faults[p] \/ "create_fails" \notin Faults[p]

OneFault == \A p \in Port : Tellable(p)

\* The card does what it is asked. Resets remain.
Faultless == \A p \in Port : Faults[p] = {}

LEMMA MarkedStays ==
  ASSUME NEW p, Marked(p),
         UNCHANGED <<file[p], writeOffset[p], readOffset[p], nextReadOffset[p]>>
  PROVE  Marked(p)'
  BY DEF Marked, Framed

\* A step takes all offsets to the end of the file.
LEMMA AtTheEnd ==
  ASSUME NEW p, writeOffset'[p] \in Nat, writeOffset'[p] = Len(file'[p]),
         readOffset'[p] = writeOffset'[p], nextReadOffset'[p] = writeOffset'[p]
  PROVE  Marked(p)'
<1>1. Frames(file'[p], {writeOffset'[p]}, writeOffset'[p])
  BY DEF Frames
<1>2. Framed(p)'
  <2>1. {writeOffset'[p]} \in SUBSET (0 .. writeOffset'[p])
    OBVIOUS
  <2> QED
    BY <1>1, <2>1 DEF Framed
<1> QED
  BY <1>2 DEF Marked

\* The head of a port whose frames are whole.
LEMMA HeadRead ==
  ASSUME TypeOK, NEW p \in Port, writeOffset[p] = Len(file[p]),
         NEW B \in SUBSET (0 .. writeOffset[p]), readOffset[p] \in B,
         Frames(file[p], B, writeOffset[p])
  PROVE  IF readOffset[p] = writeOffset[p] THEN HeadFrame(p) = NoFrame
         ELSE /\ HeadFrame(p).pkt \in Packet /\ HeadFrame(p).size \in Nat
              /\ readOffset[p] + HeadFrame(p).size \in B
<1>1. file[p] \in Seq(Cell) /\ readOffset[p] \in Nat
  BY DEF TypeOK
<1>2. CASE readOffset[p] = writeOffset[p]
  BY <1>1, <1>2, EndRead DEF HeadFrame
<1>3. CASE readOffset[p] # writeOffset[p]
  <2>1. PICK m \in Packet :
          /\ FrameSize[m] <= BufferSize /\ readOffset[p] + FrameSize[m] \in B
          /\ \A k \in 1 .. FrameSize[m] : file[p][readOffset[p] + k] = <<m, k>>
    BY <1>3 DEF Frames
  <2>2. readOffset[p] + FrameSize[m] <= Len(file[p])
    <3>1. readOffset[p] + FrameSize[m] \in 0 .. writeOffset[p] /\ writeOffset[p] \in Nat
      BY <2>1 DEF TypeOK
    <3> QED
      BY <3>1
  <2>3. HeadFrame(p) = [size |-> FrameSize[m], pkt |-> m]
    BY <1>1, <2>1, <2>2, FrameRead DEF HeadFrame
  <2> QED
    BY <1>3, <2>1, <2>3, FrameAssumption
<1> QED
  BY <1>2, <1>3

\* A read moves the offsets of its port to the end of a frame.
LEMMA NextFrameMarks ==
  ASSUME TypeOK, NEW p \in Port, NEW room, NEW op \in ReadOp, NextFrame(op, p, room), file' = file,
         NEW q \in Port, Marked(q)
  PROVE  Marked(q)'
<1>0. Marked(q) /\ (q = p => Marked(p))
  OBVIOUS
<1>1. CASE q # p \/ ~Readable(p, room)
  <2>1. UNCHANGED <<file[q], writeOffset[q], readOffset[q], nextReadOffset[q]>>
    BY <1>1 DEF NextFrame, TypeOK
  <2> QED
    BY <1>0, <2>1, MarkedStays
<1>2. CASE q = p /\ Readable(p, room)
  <2> DEFINE end == readOffset[p] + HeadFrame(p).size
  <2>1. /\ writeOffset' = writeOffset /\ nextReadOffset'[p] = end
        /\ readOffset'[p] \in {readOffset[p], end}
    <3>1. /\ writeOffset' = writeOffset
          /\ nextReadOffset' = [nextReadOffset EXCEPT ![p] = end]
          /\ readOffset' \in {readOffset, [readOffset EXCEPT ![p] = end]}
      BY <1>2 DEF NextFrame
    <3> HIDE DEF end
    <3> QED
      BY <3>1 DEF TypeOK
  <2>2. CASE writeOffset[p] = Len(file[p])
    <3>1. PICK B \in SUBSET (0 .. writeOffset[p]) :
            readOffset[p] \in B /\ Frames(file[p], B, writeOffset[p])
      BY <1>0, <1>2, <2>2 DEF Marked, Framed
    <3>2. HeadFrame(p).size # 0
      BY <1>2 DEF Readable
    <3>3. end \in B /\ HeadFrame(p).size \in Nat
      BY <2>2, <3>1, <3>2, HeadRead DEF NoFrame
    <3>4. readOffset[p] <= end /\ readOffset[p] \in Nat /\ end \in Nat
      BY <3>1, <3>3 DEF TypeOK
    <3> HIDE DEF end
    <3>5. readOffset'[p] \in B /\ nextReadOffset'[p] \in B /\ readOffset'[p] <= nextReadOffset'[p]
      BY <2>1, <3>1, <3>3, <3>4
    <3>6. Framed(p)'
      BY <2>1, <3>1, <3>5 DEF Framed
    <3> QED
      BY <1>0, <1>2, <2>1, <3>6 DEF Marked
  <2>3. CASE writeOffset[p] # Len(file[p])
    BY <1>0, <1>2, <2>1, <2>3 DEF Marked
  <2> QED
    BY <2>2, <2>3
<1> QED
  BY <1>1, <1>2

\* The file after a push: what it held, and the frame behind it.
LEMMA PushGrows ==
  ASSUME TypeOK, NEW p \in Port, NEW m \in Packet, PushAccepted(p, m)
  PROVE  /\ file'[p] \in Seq(Cell) /\ Len(file'[p]) = Len(file[p]) + FrameSize[m]
         /\ \A k \in 1 .. Len(file[p]) : file'[p][k] = file[p][k]
         /\ \A k \in 1 .. FrameSize[m] : file'[p][Len(file[p]) + k] = <<m, k>>
<1> DEFINE f == file[p]
           c == Frame(m)
<1>1. f \in Seq(Cell)
  BY DEF TypeOK
<1>2. /\ c \in Seq(Cell) /\ Len(c) = FrameSize[m]
      /\ \A k \in 1 .. FrameSize[m] : c[k] = <<m, k>>
  BY WholeFrame
<1>3. file'[p] = f \o SubSeq(Frame(m), 1, FrameSize[m])
  BY DEF TypeOK, PushAccepted, Grow
<1>4. file'[p] = f \o c
  BY <1>3, WholeFrame
<1> HIDE DEF f, c
<1> DEFINE g == f \o c
<1>5. /\ g \in Seq(Cell) /\ Len(g) = Len(f) + Len(c)
      /\ \A k \in 1 .. Len(f) : g[k] = f[k]
      /\ \A k \in 1 .. Len(c) : g[Len(f) + k] = c[k]
  BY <1>1, <1>2, CellsAppended
<1>6. file'[p] = g
  BY <1>4
<1> HIDE DEF g
<1> QED
  BY <1>2, <1>5, <1>6 DEF f

\* An append adds a frame behind those of its port.
LEMMA PushMarks ==
  ASSUME TypeOK, NEW p \in Port, NEW m \in Packet, PushAccepted(p, m), Marked(p)
  PROVE  Marked(p)'
<1> DEFINE w == writeOffset[p]
           n == FrameSize[m]
<1>0. /\ n \in Nat /\ n <= BufferSize /\ file[p] \in Seq(Cell) /\ Len(file[p]) \in Nat /\ w \in Nat
      /\ writeOffset'[p] = w + n /\ UNCHANGED <<readOffset, nextReadOffset>>
      /\ file'[p] = file[p] \o SubSeq(Frame(m), 1, n)
  BY FrameAssumption DEF TypeOK, PushAccepted, Grow
<1>1. /\ Len(file'[p]) = Len(file[p]) + n
      /\ \A k \in 1 .. Len(file[p]) : file'[p][k] = file[p][k]
      /\ \A k \in 1 .. n : file'[p][Len(file[p]) + k] = <<m, k>>
  BY PushGrows
<1>2. CASE w = Len(file[p])
  <2>1. PICK B \in SUBSET (0 .. w) :
          readOffset[p] \in B /\ nextReadOffset[p] \in B /\ Frames(file[p], B, w)
    BY <1>2 DEF Marked, Framed
  <2> DEFINE C == B \cup {w + n}
  <2>2. C \in SUBSET (0 .. w + n)
    <3>1. \A o \in B : o \in 0 .. w
      BY <2>1
    <3>2. \A o \in 0 .. w : o \in 0 .. w + n
      BY <1>0
    <3>3. w + n \in 0 .. w + n
      BY <1>0
    <3> QED
      BY <3>1, <3>2, <3>3
  <2>3. Frames(file'[p], C, w + n)
    <3> SUFFICES ASSUME NEW o \in C \ {w + n}
                 PROVE  \E x \in Packet :
                          /\ FrameSize[x] <= BufferSize /\ o + FrameSize[x] \in C
                          /\ \A k \in 1 .. FrameSize[x] : file'[p][o + k] = <<x, k>>
      BY DEF Frames
    <3>1. CASE o = w
      <4>1. \A k \in 1 .. n : file'[p][w + k] = <<m, k>>
        BY <1>1, <1>2
      <4> QED
        BY <1>0, <3>1, <4>1
    <3>2. CASE o # w
      <4>1. PICK x \in Packet :
              /\ FrameSize[x] <= BufferSize /\ o + FrameSize[x] \in B
              /\ \A k \in 1 .. FrameSize[x] : file[p][o + k] = <<x, k>>
        BY <2>1, <3>2 DEF Frames
      <4>2. o \in Nat /\ FrameSize[x] \in Nat /\ o + FrameSize[x] <= w
        BY <2>1, <3>2, <4>1, FrameAssumption
      <4>3. \A k \in 1 .. FrameSize[x] : o + k \in 1 .. Len(file[p])
        BY <1>2, <4>2
      <4> QED
        BY <1>1, <4>1, <4>3
    <3> QED
      BY <3>1, <3>2
  <2> HIDE DEF C
  <2>4. readOffset[p] \in C /\ nextReadOffset[p] \in C
    BY <2>1 DEF C
  <2>5. readOffset[p] <= nextReadOffset[p]
    BY <1>2 DEF Marked, Framed
  <2>6. Framed(p)'
    BY <1>0, <2>2, <2>3, <2>4, <2>5 DEF Framed
  <2> QED
    BY <1>0, <1>1, <2>6, <1>2 DEF Marked
<1>3. CASE w # Len(file[p])
  BY <1>0, <1>1, <1>3 DEF Marked
<1> QED
  BY <1>2, <1>3

\* An append that comes out short leaves the file longer for good.
LEMMA ShortMarks ==
  ASSUME TypeOK, NEW p \in Port, Tellable(p), NEW m \in Packet, PushShort(p, m), Marked(p)
  PROVE  Marked(p)'
<1>1. PICK k \in 1 .. FrameSize[m] - 1 : file' = Grow(p, m, k)
  BY DEF PushShort
<1>2. k \in 0 .. FrameSize[m] /\ k \in Nat \ {0}
  BY FrameAssumption
<1>3. Len(file'[p]) = Len(file[p]) + k
  BY <1>1, <1>2, GrowType
<1>4. Len(file[p]) \in Nat /\ writeOffset[p] \in Nat
  BY DEF TypeOK
<1>5. "short_write" \in Faults[p] /\ "create_fails" \notin Faults[p] /\ writeOffset' = writeOffset
  BY DEF PushShort, Tellable
<1> QED
  BY <1>2, <1>3, <1>4, <1>5 DEF Marked

\* Half a clear leaves the file shorter for good, unless there was nothing.
LEMMA ClearHalfMarks ==
  ASSUME TypeOK, NEW p \in Port, Tellable(p), ClearHalf(p), Marked(p)
  PROVE  Marked(p)'
<1>1. /\ "create_fails" \in Faults[p] /\ "short_write" \notin Faults[p]
      /\ Len(file[p]) <= writeOffset[p]
      /\ file'[p] = <<>> /\ UNCHANGED <<writeOffset, readOffset, nextReadOffset>>
  BY DEF ClearHalf, Tellable, Marked, TypeOK
<1>2. /\ Len(file'[p]) = 0 /\ Len(file[p]) \in Nat /\ writeOffset[p] \in Nat
      /\ readOffset[p] \in Nat /\ nextReadOffset[p] \in Nat
  BY <1>1 DEF TypeOK
<1>3. CASE writeOffset[p] = 0
  <2>1. writeOffset[p] = Len(file[p])
    BY <1>1, <1>2, <1>3
  <2>2. readOffset[p] \in 0 .. 0 /\ nextReadOffset[p] \in 0 .. 0
    BY <1>3, <2>1 DEF Marked, Framed
  <2>3. readOffset[p] = 0 /\ nextReadOffset[p] = 0
    BY <2>2
  <2> QED
    BY <1>1, <1>2, <1>3, <2>3, AtTheEnd
<1>4. CASE writeOffset[p] # 0
  BY <1>1, <1>2, <1>4 DEF Marked
<1> QED
  BY <1>3, <1>4

\* A step keeps the marks of a port, whatever befalls the others.
LEMMA NextMarked ==
  ASSUME TypeOK, NEW p \in Port, Tellable(p), up => Marked(p), [Next]_vars
  PROVE  up' => Marked(p)'
<1> SUFFICES ASSUME up' PROVE Marked(p)'
  OBVIOUS
<1>1. CASE Begin
  <2>1. p <= MaxPort /\ Len(file[p]) \in Nat
    BY QueueAssumption DEF Port, TypeOK
  <2>2. /\ writeOffset'[p] = Len(file'[p]) /\ readOffset'[p] = writeOffset'[p]
        /\ nextReadOffset'[p] = writeOffset'[p] /\ writeOffset'[p] \in Nat
    <3>1. PICK last \in 0 .. MaxPort :
            /\ up' = (last = MaxPort)
            /\ writeOffset' = [q \in Port |-> IF q <= last THEN Len(file[q]) ELSE writeOffset[q]]
            /\ readOffset' = [q \in Port |-> IF q <= last THEN Len(file[q]) ELSE readOffset[q]]
            /\ nextReadOffset' =
                 [q \in Port |-> IF q <= last THEN Len(file[q]) ELSE nextReadOffset[q]]
      BY <1>1 DEF Begin
    <3>2. p <= last /\ UNCHANGED file
      BY <1>1, <2>1, <3>1 DEF Begin
    <3> QED
      BY <2>1, <3>1, <3>2
  <2> QED
    BY <2>2, AtTheEnd
<1>2. CASE Reset
  BY <1>2 DEF Reset
<1>3. CASE up /\ UNCHANGED <<file[p], writeOffset[p], readOffset[p], nextReadOffset[p]>>
  BY <1>3, MarkedStays
<1>4. ASSUME NEW r \in Port, NEW m \in Packet,
             PushAccepted(r, m) \/ PushRefused(r, m) \/ PushShort(r, m)
      PROVE  Marked(p)'
  <2>1. up
    BY <1>4 DEF PushAccepted, PushRefused, PushShort
  <2>2. CASE r # p \/ PushRefused(r, m)
    <3>1. UNCHANGED <<file[p], writeOffset[p], readOffset[p], nextReadOffset[p]>>
      BY <1>4, <2>2 DEF PushAccepted, PushRefused, PushShort, Grow, TypeOK
    <3> QED
      BY <1>3, <2>1, <3>1
  <2>3. CASE r = p /\ ~PushRefused(r, m)
    BY <1>4, <2>1, <2>3, PushMarks, ShortMarks
  <2> QED
    BY <2>2, <2>3
<1>5. ASSUME NEW r \in Port, NEW room \in Rooms, PeekNext(r, room) \/ PopNext(r, room)
      PROVE  Marked(p)'
  BY <1>5, NextFrameMarks DEF PeekNext, PopNext, ReadOp
<1>6. ASSUME NEW r \in Port, SkipToNextPacket(r)
      PROVE  Marked(p)'
  <2>1. /\ up /\ UNCHANGED <<file, writeOffset, nextReadOffset>>
        /\ r # p => readOffset'[p] = readOffset[p]
        /\ r = p => readOffset'[p] = IF Skippable(p)
                                     THEN IF nextReadOffset[p] > writeOffset[p]
                                          THEN writeOffset[p] ELSE nextReadOffset[p]
                                     ELSE readOffset[p]
    BY <1>6 DEF SkipToNextPacket, TypeOK
  <2>2. Framed(p) /\ writeOffset[p] = Len(file[p]) => Framed(p)'
    <3> SUFFICES ASSUME Framed(p), writeOffset[p] = Len(file[p]) PROVE Framed(p)'
      OBVIOUS
    <3>1. PICK B \in SUBSET (0 .. writeOffset[p]) :
            readOffset[p] \in B /\ nextReadOffset[p] \in B /\ Frames(file[p], B, writeOffset[p])
      BY DEF Framed
    <3>2. readOffset'[p] \in {readOffset[p], nextReadOffset[p]}
      BY <2>1, <3>1 DEF TypeOK
    <3>3. readOffset'[p] <= nextReadOffset[p] /\ readOffset'[p] \in B
      BY <3>1, <3>2 DEF Framed, TypeOK
    <3> QED
      BY <2>1, <3>1, <3>3 DEF Framed
  <2> QED
    BY <2>1, <2>2 DEF Marked
<1>7. ASSUME NEW r \in Port, ClearDone(r) \/ ClearRefused(r) \/ ClearHalf(r)
      PROVE  Marked(p)'
  <2>1. up
    BY <1>7 DEF ClearDone, ClearRefused, ClearHalf
  <2>2. CASE r # p \/ ClearRefused(r)
    <3>1. UNCHANGED <<file[p], writeOffset[p], readOffset[p], nextReadOffset[p]>>
      BY <1>7, <2>2 DEF ClearDone, ClearRefused, ClearHalf, TypeOK
    <3> QED
      BY <1>3, <2>1, <3>1
  <2>3. CASE r = p /\ ClearDone(r)
    <3>1. /\ file'[p] = <<>> /\ writeOffset'[p] = 0
          /\ readOffset'[p] = 0 /\ nextReadOffset'[p] = 0
      BY <2>3 DEF ClearDone, TypeOK
    <3>2. Len(file'[p]) = 0
      BY <3>1
    <3> QED
      BY <3>1, <3>2, AtTheEnd
  <2>4. CASE r = p /\ ClearHalf(r)
    BY <2>1, <2>4, ClearHalfMarks
  <2> QED
    BY <1>7, <2>2, <2>3, <2>4
<1>8. ASSUME NEW ports \in PortLists, NEW room \in Rooms, NEW op \in {"peekAny", "popAny"},
             AnyFromPorts(op, ports, room)
      PROVE  Marked(p)'
  <2>1. up /\ \A i \in DOMAIN ports : ports[i] \in Port
    BY <1>8, PortListType DEF AnyFromPorts
  <2>2. CASE \E i \in DOMAIN ports : NextFrame(op, ports[i], room)
    BY <1>8, <2>1, <2>2, NextFrameMarks DEF AnyFromPorts, ReadOp
  <2>3. CASE UNCHANGED <<writeOffset, readOffset, nextReadOffset>>
    BY <1>3, <1>8, <2>1, <2>3 DEF AnyFromPorts
  <2> QED
    BY <1>8, <2>2, <2>3 DEF AnyFromPorts
<1>9. CASE UNCHANGED vars
  BY <1>3, <1>9 DEF vars
<1> QED
  BY <1>1, <1>2, <1>4, <1>5, <1>6, <1>7, <1>8, <1>9 DEF Next

LEMMA MarkHolds ==
  ASSUME NEW p \in Port, Tellable(p)
  PROVE  Spec => [](TypeOK /\ (up => Marked(p)))
<1>1. Init => (up => Marked(p))
  BY DEF Init
<1>2. TypeOK /\ (up => Marked(p)) /\ [Next]_vars => (up => Marked(p))'
  BY NextMarked
<1> QED
  BY <1>1, <1>2, TypeCorrect, PTL DEF Spec

LEMMA MarksHold == ASSUME OneFault PROVE Spec => [](TypeOK /\ MarksInv)
<1>1. Init => MarksInv
  BY DEF Init, MarksInv
<1>2. TypeOK /\ MarksInv /\ [Next]_vars => MarksInv'
  BY NextMarked DEF MarksInv, OneFault
<1> QED
  BY <1>1, <1>2, TypeCorrect, PTL DEF Spec

\* What equal marks say of a port.
LEMMA Trusted ==
  ASSUME TypeOK, NEW p \in Port, Marked(p), writeOffset[p] = Len(file[p])
  PROVE  /\ readOffset[p] <= nextReadOffset[p] /\ nextReadOffset[p] <= writeOffset[p]
         /\ ~IsPortEmpty(p) => HeadFrame(p).pkt \in Packet
<1>1. PICK B \in SUBSET (0 .. writeOffset[p]) :
        readOffset[p] \in B /\ nextReadOffset[p] \in B /\ Frames(file[p], B, writeOffset[p])
  BY DEF Marked, Framed
<1>2. readOffset[p] # writeOffset[p] => HeadFrame(p).pkt \in Packet
  BY <1>1, HeadRead
<1>3. readOffset[p] <= nextReadOffset[p]
  BY DEF Marked, Framed
<1>4. nextReadOffset[p] <= writeOffset[p]
  <2>1. nextReadOffset[p] \in 0 .. writeOffset[p]
    BY <1>1
  <2> QED
    BY <2>1
<1>5. ~IsPortEmpty(p) => readOffset[p] # writeOffset[p]
  BY DEF IsPortEmpty
<1> QED
  BY <1>2, <1>3, <1>4, <1>5

\* Short appends on some ports and half clears on others never hide: whatever
\* is called in whatever order and whenever the board is reset, a port whose
\* write offset is the end of its file has its offsets in order and a whole
\* frame at its head (PacketQueue.cpp).
THEOREM DamageAlwaysVisible ==
  ASSUME OneFault
  PROVE  Spec => []DamageVisible
<1>1. TypeOK /\ MarksInv => DamageVisible
  BY Trusted DEF MarksInv, DamageVisible
<1> QED
  BY <1>1, MarksHold, PTL

\* The faults of a port stay at it: a port whose file meets none has its
\* offsets in order and a whole frame at its head whenever the board is up,
\* whatever becomes of the files of the others, where an append may come out
\* short and a clear stop half-way (PacketQueue.cpp).
THEOREM FaultsStayAtTheirPort ==
  ASSUME NEW p \in Port, Faults[p] = {}
  PROVE  Spec => [](up => /\ readOffset[p] <= nextReadOffset[p]
                          /\ nextReadOffset[p] <= writeOffset[p]
                          /\ writeOffset[p] = Len(file[p])
                          /\ ~IsPortEmpty(p) => HeadFrame(p).pkt \in Packet)
<1>1. Tellable(p)
  BY DEF Tellable
<1>2. TypeOK /\ (up => Marked(p)) =>
        (up => /\ readOffset[p] <= nextReadOffset[p]
               /\ nextReadOffset[p] <= writeOffset[p]
               /\ writeOffset[p] = Len(file[p])
               /\ ~IsPortEmpty(p) => HeadFrame(p).pkt \in Packet)
  <2> SUFFICES ASSUME TypeOK, Marked(p)
               PROVE  /\ readOffset[p] <= nextReadOffset[p]
                      /\ nextReadOffset[p] <= writeOffset[p]
                      /\ writeOffset[p] = Len(file[p])
                      /\ ~IsPortEmpty(p) => HeadFrame(p).pkt \in Packet
    OBVIOUS
  <2>1. Len(file[p]) \in Nat /\ writeOffset[p] \in Nat
    BY DEF TypeOK
  <2>2. writeOffset[p] = Len(file[p])
    BY <2>1 DEF Marked
  <2> QED
    BY <2>2, Trusted
<1> QED
  BY <1>1, <1>2, MarkHolds, PTL

\* Without faults the offsets of every port are in order whenever the board
\* is up: skipToNextPacket never needs its clamp.
THEOREM OffsetsAlwaysOrdered ==
  ASSUME Faultless
  PROVE  Spec => []OffsetsOrdered
<1>1. OneFault
  BY DEF Faultless, OneFault, Tellable
<1>2. TypeOK /\ MarksInv => OffsetsOrdered
  <2> SUFFICES ASSUME TypeOK, MarksInv, up, NEW p \in Port
               PROVE  /\ readOffset[p] <= nextReadOffset[p]
                      /\ nextReadOffset[p] <= writeOffset[p]
                      /\ writeOffset[p] = Len(file[p])
    BY DEF OffsetsOrdered
  <2>1. writeOffset[p] = Len(file[p]) /\ Marked(p)
    BY DEF MarksInv, Marked, TypeOK, Faultless
  <2> QED
    BY <2>1, Trusted
<1> QED
  BY <1>1, <1>2, MarksHold, PTL

\* Without faults a port that is not empty has a whole frame at its head: the
\* router, which skips only what it has peeked, is never blocked by it,
\* wherever resets have torn the frames of earlier lives of the board.
THEOREM HeadAlwaysReadable ==
  ASSUME Faultless
  PROVE  Spec => []HeadReadable
<1>1. OneFault
  BY DEF Faultless, OneFault, Tellable
<1>2. DamageVisible /\ OffsetsOrdered => HeadReadable
  BY DEF DamageVisible, OffsetsOrdered, HeadReadable
<1> QED
  BY <1>1, <1>2, DamageAlwaysVisible, OffsetsAlwaysOrdered, PTL

-----------------------------------------------------------------------------
(* What the files hold *)

FrameOf(f, o) == Unwrap(ReadRegion(f, o))

\* The payloads of f from offset o on up to offset w, given those from the
\* following frames on.
From(f, w, parse, o) ==
  IF o >= w \/ FrameOf(f, o).size = 0 THEN <<>>
  ELSE <<FrameOf(f, o).pkt>> \o parse[o + FrameOf(f, o).size]

Parse(f, w) == CHOOSE parse : parse = [o \in Nat |-> From(f, w, parse, o)]

LEMMA ContentsIs ==
  ASSUME NEW p
  PROVE  /\ Contents(p) = Parse(file[p], writeOffset[p])[readOffset[p]]
         /\ Contents(p)' = Parse(file'[p], writeOffset'[p])[readOffset'[p]]
  BY Zenon DEF Contents, Parse, From, FrameOf

\* Induction over the natural numbers, for a set.
LEMMA Induct ==
  ASSUME NEW T \in SUBSET Nat, 0 \in T, \A n \in T : n + 1 \in T
  PROVE  T = Nat
<1> DEFINE R == OpToRel(<, Nat)
<1> SUFFICES ASSUME Nat \ T # {} PROVE FALSE
  OBVIOUS
<1>1. PICK x \in Nat \ T : \A y \in Nat \ T : ~ (<<y, x>> \in R)
  BY NatLessThanWellFounded, WFMin
<1>2. x \in Nat /\ x \notin T
  BY <1>1
<1>3. x # 0
  BY <1>2
<1>4. x - 1 \in Nat /\ x - 1 < x /\ (x - 1) + 1 = x
  BY <1>2, <1>3
<1>5. <<x - 1, x>> \in R
  BY <1>2, <1>4 DEF OpToRel
<1>6. x - 1 \in T
  BY <1>1, <1>4, <1>5
<1>7. (x - 1) + 1 \in T
  BY <1>6
<1> QED
  BY <1>2, <1>4, <1>7

Payload == Packet \cup {NoPacket, Garbled}

\* A frame that is found has a length and a payload.
LEMMA FrameOfType ==
  ASSUME NEW f \in Seq(Cell), NEW o \in Nat
  PROVE  FrameOf(f, o).size \in Nat /\ FrameOf(f, o).pkt \in Payload
<1>1. ReadRegion(f, o) \in Seq(Cell)
  BY ReadRegionBounds
<1> QED
  BY <1>1, UnwrapBounds DEF FrameOf, Payload

LEMMA FromType ==
  ASSUME NEW f \in Seq(Cell), NEW w \in Nat, NEW o \in Nat, NEW g,
         o < w /\ FrameOf(f, o).size # 0 => g[o + FrameOf(f, o).size] \in Seq(Payload)
  PROVE  From(f, w, g, o) \in Seq(Payload)
<1>1. FrameOf(f, o).size \in Nat /\ FrameOf(f, o).pkt \in Payload
  BY FrameOfType
<1>2. CASE o >= w \/ FrameOf(f, o).size = 0
  BY <1>2 DEF From
<1>3. CASE ~(o >= w \/ FrameOf(f, o).size = 0)
  <2>1. o < w /\ g[o + FrameOf(f, o).size] \in Seq(Payload)
    BY <1>3
  <2>2. <<FrameOf(f, o).pkt>> \in Seq(Payload)
    BY <1>1
  <2>3. <<FrameOf(f, o).pkt>> \o g[o + FrameOf(f, o).size] \in Seq(Payload)
    BY <2>1, <2>2, ConcatProperties
  <2> QED
    BY <1>3, <2>3 DEF From
<1> QED
  BY <1>2, <1>3

\* The recursive definition of Contents defines a function: what lies n cells
\* or less before the end is determined by what comes after it.
LEMMA ParseIs ==
  ASSUME NEW f \in Seq(Cell), NEW w \in Nat
  PROVE  /\ Parse(f, w) = [o \in Nat |-> From(f, w, Parse(f, w), o)]
         /\ \A o \in Nat : Parse(f, w)[o] \in Seq(Payload)
<1> DEFINE Agrees(n, g) == \A o \in Nat : o + n >= w => g[o] = From(f, w, g, o)
           T == {n \in Nat : \E g \in [Nat -> Seq(Payload)] : Agrees(n, g)}
<1>1. 0 \in T
  <2> DEFINE g == [o \in Nat |-> <<>>]
  <2>1. g \in [Nat -> Seq(Payload)]
    OBVIOUS
  <2>2. Agrees(0, g)
    BY DEF From
  <2> QED
    BY <2>1, <2>2
<1>2. ASSUME NEW n \in T PROVE n + 1 \in T
  <2>1. PICK g \in [Nat -> Seq(Payload)] : Agrees(n, g)
    BY <1>2
  <2> DEFINE h == [o \in Nat |-> IF o + n >= w THEN g[o] ELSE From(f, w, g, o)]
  <2>2. h \in [Nat -> Seq(Payload)]
    <3>1. \A o \in Nat : From(f, w, g, o) \in Seq(Payload)
      <4> TAKE o \in Nat
      <4>1. PICK k \in Nat : k = FrameOf(f, o).size
        BY FrameOfType
      <4>2. o + k \in Nat
        OBVIOUS
      <4>3. g[o + k] \in Seq(Payload)
        BY <2>1, <4>2
      <4> QED
        BY <4>1, <4>3, FromType
    <3> QED
      BY <3>1
  <2>3. Agrees(n + 1, h)
    <3> SUFFICES ASSUME NEW o \in Nat, o + (n + 1) >= w
                 PROVE  h[o] = From(f, w, h, o)
      OBVIOUS
    <3>1. n \in Nat /\ FrameOf(f, o).size \in Nat
      BY <1>2, FrameOfType
    <3>2. h[o] = From(f, w, g, o)
      BY <2>1
    <3>3. FrameOf(f, o).size # 0 =>
            h[o + FrameOf(f, o).size] = g[o + FrameOf(f, o).size]
      <4>1. PICK k \in Nat : k = FrameOf(f, o).size
        BY <3>1
      <4>2. k # 0 => o + k \in Nat /\ o + k + n >= w
        BY <3>1
      <4>3. k # 0 => h[o + k] = g[o + k]
        BY <4>2
      <4> QED
        BY <4>1, <4>3
    <3> HIDE DEF h
    <3> QED
      BY <3>2, <3>3 DEF From
  <2>4. n + 1 \in Nat
    BY <1>2
  <2> QED
    BY <2>2, <2>3, <2>4
<1>3. T = Nat
  <2>1. T \in SUBSET Nat
    OBVIOUS
  <2> HIDE DEF T
  <2> QED
    BY <1>1, <1>2, <2>1, Induct
<1>4. PICK g \in [Nat -> Seq(Payload)] : Agrees(w, g)
  BY <1>3
<1>5. g = [o \in Nat |-> From(f, w, g, o)]
  BY <1>4
<1>6. Parse(f, w) = [o \in Nat |-> From(f, w, Parse(f, w), o)]
  BY <1>5, Zenon DEF Parse
<1> DEFINE q == Parse(f, w)
           U == {n \in Nat : \A o \in Nat : o + n >= w => q[o] \in Seq(Payload)}
<1> HIDE DEF q
<1>7. \A o \in Nat : q[o] = From(f, w, q, o)
  BY <1>6 DEF q
<1>8. 0 \in U
  <2> SUFFICES ASSUME NEW o \in Nat, o >= w PROVE q[o] \in Seq(Payload)
    OBVIOUS
  <2>1. q[o] = <<>>
    BY <1>7 DEF From
  <2> QED
    BY <2>1
<1>9. ASSUME NEW n \in U PROVE n + 1 \in U
  <2> SUFFICES ASSUME NEW o \in Nat, o + (n + 1) >= w PROVE q[o] \in Seq(Payload)
    BY <1>9
  <2>1. FrameOf(f, o).size \in Nat /\ n \in Nat
    BY <1>9, FrameOfType
  <2>2. FrameOf(f, o).size # 0 => q[o + FrameOf(f, o).size] \in Seq(Payload)
    <3>1. PICK k \in Nat : k = FrameOf(f, o).size
      BY <2>1
    <3>2. k # 0 => o + k \in Nat /\ o + k + n >= w
      BY <2>1
    <3>3. k # 0 => q[o + k] \in Seq(Payload)
      BY <1>9, <3>2
    <3> QED
      BY <3>1, <3>3
  <2> QED
    BY <1>7, <2>2, FromType
<1>10. U = Nat
  <2>1. U \in SUBSET Nat
    OBVIOUS
  <2> HIDE DEF U
  <2> QED
    BY <1>8, <1>9, <2>1, Induct
<1>11. \A o \in Nat : q[o] \in Seq(Payload)
  <2> TAKE o \in Nat
  <2>1. w \in U
    BY <1>10
  <2> QED
    BY <2>1
<1> QED
  BY <1>6, <1>11 DEF q

\* What is read from the boundaries of the frames of a file.
LEMMA ParseFrames ==
  ASSUME NEW f \in Seq(Cell), NEW B \in SUBSET (0 .. Len(f)), Frames(f, B, Len(f))
  PROVE  /\ Parse(f, Len(f))[Len(f)] = <<>>
         /\ \A o \in B \ {Len(f)} : \E m \in Packet :
              /\ FrameSize[m] <= BufferSize /\ o + FrameSize[m] \in B
              /\ \A k \in 1 .. FrameSize[m] : f[o + k] = <<m, k>>
              /\ FrameOf(f, o) = [size |-> FrameSize[m], pkt |-> m]
              /\ Parse(f, Len(f))[o] = <<m>> \o Parse(f, Len(f))[o + FrameSize[m]]
<1> DEFINE w == Len(f)
           q == Parse(f, w)
<1>0. w \in Nat
  OBVIOUS
<1>1. \A o \in Nat : q[o] = From(f, w, q, o)
  <2>1. q = [o \in Nat |-> From(f, w, q, o)]
    BY <1>0, ParseIs
  <2> HIDE DEF q
  <2> QED
    BY <2>1
<1> HIDE DEF q
<1>2. q[w] = <<>>
  <2>1. q[w] = From(f, w, q, w)
    BY <1>0, <1>1
  <2> QED
    BY <1>0, <2>1 DEF From
<1>3. ASSUME NEW o \in B \ {w}
      PROVE  \E m \in Packet :
               /\ FrameSize[m] <= BufferSize /\ o + FrameSize[m] \in B
               /\ \A k \in 1 .. FrameSize[m] : f[o + k] = <<m, k>>
               /\ FrameOf(f, o) = [size |-> FrameSize[m], pkt |-> m]
               /\ q[o] = <<m>> \o q[o + FrameSize[m]]
  <2>1. PICK m \in Packet :
          /\ FrameSize[m] <= BufferSize /\ o + FrameSize[m] \in B
          /\ \A k \in 1 .. FrameSize[m] : f[o + k] = <<m, k>>
    BY <1>3 DEF Frames
  <2>2. o \in Nat /\ o < w /\ FrameSize[m] \in Nat \ {0} /\ o + FrameSize[m] <= w
    <3>1. FrameSize[m] \in Nat \ {0}
      BY FrameAssumption
    <3>2. o \in 0 .. w /\ o # w /\ o + FrameSize[m] \in 0 .. w
      BY <1>3, <2>1
    <3> QED
      BY <1>0, <3>1, <3>2
  <2>3. FrameOf(f, o) = [size |-> FrameSize[m], pkt |-> m]
    BY <2>1, <2>2, FrameRead DEF FrameOf
  <2>4. q[o] = <<m>> \o q[o + FrameSize[m]]
    <3>1. q[o] = From(f, w, q, o)
      BY <1>1, <2>2
    <3>2. ~(o >= w \/ FrameOf(f, o).size = 0)
      BY <1>0, <2>2, <2>3
    <3> QED
      BY <2>3, <3>1, <3>2 DEF From
  <2> QED
    BY <2>1, <2>3, <2>4
<1> QED
  BY <1>2, <1>3 DEF q

\* A frame appended to a file is read after all others.
LEMMA ParseAppended ==
  ASSUME NEW f \in Seq(Cell), NEW B \in SUBSET (0 .. Len(f)), Frames(f, B, Len(f)),
         NEW m \in Packet, FrameSize[m] <= BufferSize,
         NEW g \in Seq(Cell), Len(g) = Len(f) + FrameSize[m],
         \A k \in 1 .. Len(f) : g[k] = f[k],
         \A k \in 1 .. FrameSize[m] : g[Len(f) + k] = <<m, k>>
  PROVE  \A o \in B : Parse(g, Len(g))[o] = Append(Parse(f, Len(f))[o], m)
<1> DEFINE w == Len(f)
           v == Len(g)
           q == Parse(f, w)
           r == Parse(g, v)
           T == {n \in Nat : \A o \in B : o + n >= w => r[o] = Append(q[o], m)}
<1>0. /\ w \in Nat /\ v \in Nat /\ FrameSize[m] \in Nat \ {0} /\ v = w + FrameSize[m]
      /\ \A o \in B : o \in Nat /\ o <= w
  BY FrameAssumption
<1>1. /\ r = [o \in Nat |-> From(g, v, r, o)] /\ q = [o \in Nat |-> From(f, w, q, o)]
      /\ \A o \in Nat : q[o] \in Seq(Payload)
  BY <1>0, ParseIs
<1>2. /\ q[w] = <<>>
      /\ \A o \in B \ {w} : \E x \in Packet :
           /\ FrameSize[x] <= BufferSize /\ o + FrameSize[x] \in B
           /\ \A k \in 1 .. FrameSize[x] : f[o + k] = <<x, k>>
           /\ q[o] = <<x>> \o q[o + FrameSize[x]]
  BY ParseFrames
<1> HIDE DEF q, r
<1>3. ASSUME NEW o \in Nat, NEW x \in Packet, FrameSize[x] <= BufferSize, o + FrameSize[x] <= v,
             \A k \in 1 .. FrameSize[x] : g[o + k] = <<x, k>>
      PROVE  r[o] = <<x>> \o r[o + FrameSize[x]]
  <2>1. FrameSize[x] \in Nat \ {0}
    BY FrameAssumption
  <2>2. FrameOf(g, o) = [size |-> FrameSize[x], pkt |-> x]
    BY <1>3, FrameRead DEF FrameOf
  <2>3. r[o] = From(g, v, r, o)
    BY <1>1
  <2>4. ~(o >= v \/ FrameOf(g, o).size = 0)
    BY <1>0, <1>3, <2>1, <2>2
  <2> QED
    BY <2>2, <2>3, <2>4 DEF From
<1>4. r[w] = <<m>>
  <2>1. r[w] = <<m>> \o r[v]
    <3>1. w + FrameSize[m] <= v
      BY <1>0
    <3>2. r[w] = <<m>> \o r[w + FrameSize[m]]
      BY <1>0, <1>3, <3>1
    <3> QED
      BY <1>0, <3>2
  <2>2. r[v] = <<>>
    BY <1>0, <1>1 DEF From
  <2> QED
    BY <2>1, <2>2
<1>5. 0 \in T
  <2> SUFFICES ASSUME NEW o \in B, o >= w PROVE r[o] = Append(q[o], m)
    BY <1>0
  <2>1. o = w /\ Append(<<>>, m) = <<m>>
    BY <1>0
  <2> QED
    BY <1>2, <1>4, <2>1
<1>6. ASSUME NEW n \in T PROVE n + 1 \in T
  <2> SUFFICES ASSUME NEW o \in B, o + (n + 1) >= w PROVE r[o] = Append(q[o], m)
    BY <1>6
  <2>1. CASE o = w
    BY <1>2, <1>4, <2>1
  <2>2. CASE o # w
    <3>1. PICK x \in Packet :
            /\ FrameSize[x] <= BufferSize /\ o + FrameSize[x] \in B
            /\ \A k \in 1 .. FrameSize[x] : f[o + k] = <<x, k>>
            /\ q[o] = <<x>> \o q[o + FrameSize[x]]
      BY <1>2, <2>2
    <3>2. /\ o \in Nat /\ FrameSize[x] \in Nat \ {0} /\ n \in Nat
          /\ o + FrameSize[x] \in Nat /\ o + FrameSize[x] <= w
      BY <1>0, <1>6, <3>1, FrameAssumption
    <3>3. \A k \in 1 .. FrameSize[x] : o + k \in 1 .. w
      <4> DEFINE size == FrameSize[x]
      <4>1. size \in Nat /\ o \in Nat /\ w \in Nat /\ o + size <= w
        BY <1>0, <3>2
      <4> HIDE DEF size, w
      <4>2. \A k \in 1 .. size : o + k \in 1 .. w
        BY <4>1
      <4> QED
        BY <4>2 DEF size
    <3>4. \A k \in 1 .. FrameSize[x] : g[o + k] = <<x, k>>
      BY <3>1, <3>3
    <3>5. r[o] = <<x>> \o r[o + FrameSize[x]]
      <4>1. o + FrameSize[x] <= v
        BY <1>0, <3>2
      <4> QED
        BY <1>3, <3>1, <3>2, <3>4, <4>1
    <3>6. r[o + FrameSize[x]] = Append(q[o + FrameSize[x]], m)
      <4>1. (o + FrameSize[x]) + n >= w
        BY <1>0, <3>2
      <4> QED
        BY <1>6, <3>1, <4>1
    <3> DEFINE s == q[o + FrameSize[x]]
    <3>7. s \in Seq(Payload) /\ x \in Payload /\ m \in Payload
      BY <1>1, <3>2 DEF Payload
    <3> HIDE DEF s
    <3>8. <<x>> \o Append(s, m) = Append(<<x>> \o s, m)
      BY <3>7
    <3> QED
      BY <3>1, <3>5, <3>6, <3>8 DEF s
  <2> QED
    BY <2>1, <2>2
<1>7. T = Nat
  <2>1. T \in SUBSET Nat
    OBVIOUS
  <2> HIDE DEF T
  <2> QED
    BY <1>5, <1>6, <2>1, Induct
<1>8. w \in T
  BY <1>0, <1>7
<1> QED
  BY <1>0, <1>8 DEF q, r

-----------------------------------------------------------------------------
(* The refinement of PacketFifo *)

\* While the board is up every port has its file, ...
PresentInv == up => \A p \in Port : present[p]

\* ... and a peek has left the next read offset at the end of the head.
NextInv ==
  up => \A p \in Port : nextReadOffset[p] \in {readOffset[p], readOffset[p] + HeadFrame(p).size}

QueueInv == TypeOK /\ MarksInv /\ OffsetsOrdered /\ PresentInv /\ NextInv

\* The head of the file of a port is the head of its queue.
LEMMA HeadIs ==
  ASSUME TypeOK, MarksInv, OffsetsOrdered, up, NEW p \in Port
  PROVE  IF readOffset[p] = writeOffset[p]
         THEN Contents(p) = <<>> /\ HeadFrame(p).size = 0
         ELSE \E m \in Packet :
                /\ FrameSize[m] \in Nat \ {0} /\ readOffset[p] + FrameSize[m] <= writeOffset[p]
                /\ FrameSize[m] <= BufferSize
                /\ \A k \in 1 .. FrameSize[m] : file[p][readOffset[p] + k] = <<m, k>>
                /\ HeadFrame(p) = [size |-> FrameSize[m], pkt |-> m]
                /\ Contents(p) # <<>> /\ Head(Contents(p)) = m
                /\ Tail(Contents(p)) =
                     Parse(file[p], writeOffset[p])[readOffset[p] + FrameSize[m]]
<1>0. /\ file[p] \in Seq(Cell) /\ writeOffset[p] = Len(file[p]) /\ writeOffset[p] \in Nat
      /\ readOffset[p] \in Nat
  BY DEF TypeOK, OffsetsOrdered
<1>1. PICK B \in SUBSET (0 .. Len(file[p])) :
        readOffset[p] \in B /\ Frames(file[p], B, Len(file[p]))
  BY <1>0 DEF MarksInv, Marked, Framed
<1> DEFINE q == Parse(file[p], Len(file[p]))
<1>2. Contents(p) = q[readOffset[p]]
  BY <1>0, ContentsIs
<1>3. /\ q[Len(file[p])] = <<>>
      /\ \A o \in B \ {Len(file[p])} : \E m \in Packet :
           /\ FrameSize[m] <= BufferSize /\ o + FrameSize[m] \in B
           /\ \A k \in 1 .. FrameSize[m] : file[p][o + k] = <<m, k>>
           /\ FrameOf(file[p], o) = [size |-> FrameSize[m], pkt |-> m]
           /\ q[o] = <<m>> \o q[o + FrameSize[m]]
  BY <1>0, <1>1, ParseFrames
<1>4. \A o \in Nat : q[o] \in Seq(Payload)
  BY <1>0, ParseIs
<1> HIDE DEF q
<1>5. CASE readOffset[p] = writeOffset[p]
  <2>1. HeadFrame(p) = NoFrame
    BY <1>0, <1>5, EndRead DEF HeadFrame
  <2> QED
    BY <1>0, <1>2, <1>3, <1>5, <2>1 DEF NoFrame
<1>6. CASE readOffset[p] # writeOffset[p]
  <2>1. PICK m \in Packet :
          /\ FrameSize[m] <= BufferSize /\ readOffset[p] + FrameSize[m] \in B
          /\ \A k \in 1 .. FrameSize[m] : file[p][readOffset[p] + k] = <<m, k>>
          /\ FrameOf(file[p], readOffset[p]) = [size |-> FrameSize[m], pkt |-> m]
          /\ q[readOffset[p]] = <<m>> \o q[readOffset[p] + FrameSize[m]]
    BY <1>0, <1>1, <1>3, <1>6
  <2>2. FrameSize[m] \in Nat \ {0}
    BY FrameAssumption
  <2>3. readOffset[p] + FrameSize[m] \in 0 .. writeOffset[p]
    BY <1>0, <2>1
  <2> DEFINE s == q[readOffset[p] + FrameSize[m]]
  <2>4. s \in Seq(Payload) /\ m \in Payload
    BY <1>0, <1>4, <2>2 DEF Payload
  <2> HIDE DEF s
  <2>5. <<m>> \o s # <<>> /\ Head(<<m>> \o s) = m /\ Tail(<<m>> \o s) = s
    BY <2>4
  <2>6. /\ HeadFrame(p) = [size |-> FrameSize[m], pkt |-> m]
        /\ Contents(p) = <<m>> \o s
    BY <1>2, <2>1 DEF FrameOf, HeadFrame, s
  <2>7. readOffset[p] + FrameSize[m] <= writeOffset[p]
    BY <1>0, <2>2, <2>3
  <2> QED
    BY <1>0, <1>6, <2>1, <2>2, <2>5, <2>6, <2>7 DEF q, s
<1> QED
  BY <1>5, <1>6

\* A port that no step touches holds what it held.
LEMMA ContentsStay ==
  ASSUME NEW p, UNCHANGED <<file[p], writeOffset[p], readOffset[p]>>
  PROVE  Contents(p)' = Contents(p) /\ HeadFrame(p)' = HeadFrame(p)
  BY ContentsIs DEF HeadFrame

\* A push adds its packet behind all others, and leaves the head.
LEMMA ContentsPushed ==
  ASSUME QueueInv, NEW p \in Port, NEW m \in Packet, PushAccepted(p, m)
  PROVE  /\ Contents(p)' = Append(Contents(p), m)
         /\ readOffset[p] # writeOffset[p] => HeadFrame(p)' = HeadFrame(p)
<1> DEFINE n == FrameSize[m]
<1>0. /\ up /\ file[p] \in Seq(Cell) /\ writeOffset[p] = Len(file[p]) /\ writeOffset[p] \in Nat
      /\ readOffset[p] \in Nat /\ n \in Nat /\ n <= BufferSize
  BY FrameAssumption DEF PushAccepted, QueueInv, TypeOK, OffsetsOrdered
<1>1. PICK B \in SUBSET (0 .. Len(file[p])) :
        readOffset[p] \in B /\ Frames(file[p], B, Len(file[p]))
  BY <1>0 DEF MarksInv, Marked, Framed, QueueInv
<1>2. /\ file'[p] = file[p] \o SubSeq(Frame(m), 1, n)
      /\ writeOffset'[p] = writeOffset[p] + n /\ readOffset'[p] = readOffset[p]
  BY DEF PushAccepted, QueueInv, TypeOK, Grow
<1>3. /\ file'[p] \in Seq(Cell) /\ Len(file'[p]) = Len(file[p]) + n
      /\ \A k \in 1 .. Len(file[p]) : file'[p][k] = file[p][k]
      /\ \A k \in 1 .. n : file'[p][Len(file[p]) + k] = <<m, k>>
  <2>1. TypeOK
    BY DEF QueueInv
  <2> QED
    BY <2>1, PushGrows
<1>4. Contents(p)' = Append(Contents(p), m)
  <2>1. Parse(file'[p], Len(file'[p]))[readOffset[p]]
        = Append(Parse(file[p], Len(file[p]))[readOffset[p]], m)
    BY <1>0, <1>1, <1>3, ParseAppended
  <2>2. writeOffset'[p] = Len(file'[p])
    BY <1>0, <1>2, <1>3
  <2> QED
    BY <1>0, <1>2, <2>1, <2>2, ContentsIs
<1>5. ASSUME readOffset[p] # writeOffset[p]
      PROVE  HeadFrame(p)' = HeadFrame(p)
  <2>1. PICK x \in Packet :
          /\ FrameSize[x] \in Nat \ {0} /\ readOffset[p] + FrameSize[x] <= writeOffset[p]
          /\ FrameSize[x] <= BufferSize
          /\ \A k \in 1 .. FrameSize[x] : file[p][readOffset[p] + k] = <<x, k>>
          /\ HeadFrame(p) = [size |-> FrameSize[x], pkt |-> x]
    BY <1>0, <1>5, HeadIs DEF QueueInv
  <2>2. \A k \in 1 .. FrameSize[x] : readOffset[p] + k \in 1 .. Len(file[p])
    BY <1>0, <2>1
  <2>3. \A k \in 1 .. FrameSize[x] : file'[p][readOffset[p] + k] = <<x, k>>
    BY <1>3, <2>1, <2>2
  <2>4. readOffset[p] + FrameSize[x] <= Len(file'[p])
    BY <1>0, <1>3, <2>1
  <2>5. Unwrap(ReadRegion(file'[p], readOffset[p])) = [size |-> FrameSize[x], pkt |-> x]
    BY <1>0, <1>3, <2>1, <2>3, <2>4, FrameRead
  <2> QED
    BY <1>2, <2>1, <2>5 DEF HeadFrame
<1> QED
  BY <1>4, <1>5

\* What a read does to its port, and what it returns.
LEMMA NextFrameIs ==
  ASSUME QueueInv, up, NEW p \in Port, NEW room \in Rooms, NEW op \in ReadOp,
         NextFrame(op, p, room), file' = file
  PROVE  \/ /\ Contents(p) # <<>> => ~Fifo!Fits(Head(Contents(p)), room)
            /\ Return(op, p, FALSE, NoPacket)
            /\ UNCHANGED <<writeOffset, readOffset, nextReadOffset>>
         \/ /\ Contents(p) # <<>> /\ Fifo!Fits(Head(Contents(p)), room)
            /\ Return(op, p, TRUE, Head(Contents(p)))
            /\ UNCHANGED <<file, writeOffset>>
            /\ \A q \in Port : q # p => UNCHANGED <<readOffset[q], nextReadOffset[q]>>
            /\ nextReadOffset'[p] = readOffset[p] + HeadFrame(p).size
            /\ IF op \in PopOp
               THEN /\ readOffset'[p] = nextReadOffset'[p]
                    /\ Contents(p)' = Tail(Contents(p))
               ELSE /\ readOffset'[p] = readOffset[p] /\ readOffset'[p] # nextReadOffset'[p]
                    /\ Contents(p)' = Contents(p)
<1>0. /\ readOffset \in [Port -> Nat] /\ nextReadOffset \in [Port -> Nat]
      /\ TypeOK /\ MarksInv /\ OffsetsOrdered
  BY DEF QueueInv, TypeOK
<1>1. CASE readOffset[p] = writeOffset[p]
  <2>1. Contents(p) = <<>> /\ ~Readable(p, room)
    BY <1>0, <1>1, HeadIs DEF Readable
  <2> QED
    BY <2>1 DEF NextFrame
<1>2. CASE readOffset[p] # writeOffset[p]
  <2>1. PICK m \in Packet :
          /\ FrameSize[m] \in Nat \ {0}
          /\ HeadFrame(p) = [size |-> FrameSize[m], pkt |-> m]
          /\ Contents(p) # <<>> /\ Head(Contents(p)) = m
          /\ Tail(Contents(p)) = Parse(file[p], writeOffset[p])[readOffset[p] + FrameSize[m]]
    BY <1>0, <1>2, HeadIs
  <2>2. Readable(p, room) <=> Fifo!Fits(Head(Contents(p)), room)
    BY <2>1 DEF Readable, Fifo!Fits
  <2>3. CASE ~Readable(p, room)
    BY <2>2, <2>3 DEF NextFrame
  <2>4. CASE Readable(p, room)
    <3> DEFINE end == readOffset[p] + HeadFrame(p).size
    <3>0. HeadFrame(p).size = FrameSize[m] /\ HeadFrame(p).pkt = Head(Contents(p))
      BY <2>1
    <3>1. /\ nextReadOffset' = [nextReadOffset EXCEPT ![p] = end]
          /\ readOffset' = IF op \in PopOp THEN [readOffset EXCEPT ![p] = end] ELSE readOffset
          /\ writeOffset' = writeOffset
          /\ Return(op, p, TRUE, Head(Contents(p)))
      BY <2>4, <3>0 DEF NextFrame
    <3>2. end \in Nat /\ end # readOffset[p]
      BY <1>0, <2>1, <3>0
    <3>3. Tail(Contents(p)) = Parse(file[p], writeOffset[p])[end] /\ end = readOffset[p] + HeadFrame(p).size
      BY <2>1, <3>0
    <3> HIDE DEF end
    <3>4. /\ nextReadOffset'[p] = end
          /\ \A q \in Port : q # p => UNCHANGED <<readOffset[q], nextReadOffset[q]>>
          /\ readOffset'[p] = IF op \in PopOp THEN end ELSE readOffset[p]
      BY <1>0, <3>1
    <3>5. CASE op \in PopOp
      <4>1. Contents(p)' = Tail(Contents(p))
        BY <3>1, <3>3, <3>4, <3>5, ContentsIs
      <4> QED
        BY <2>1, <2>2, <2>4, <3>1, <3>3, <3>4, <3>5, <4>1
    <3>6. CASE op \notin PopOp
      <4>1. Contents(p)' = Contents(p)
        BY <3>1, <3>4, <3>6, ContentsStay
      <4> QED
        BY <2>1, <2>2, <2>4, <3>1, <3>2, <3>3, <3>4, <3>6, <4>1
    <3> QED
      BY <3>5, <3>6
  <2> QED
    BY <2>3, <2>4
<1> QED
  BY <1>1, <1>2

\* A step that changes the offsets of one port at most and keeps what NextInv
\* says of it.
LEMMA NextInvStays ==
  ASSUME NextInv, up, up', NEW p \in Port,
         nextReadOffset'[p] \in {readOffset'[p], readOffset'[p] + HeadFrame(p).size'},
         \A q \in Port : q # p => UNCHANGED <<file[q], readOffset[q], nextReadOffset[q]>>
  PROVE  NextInv'
  BY DEF NextInv, HeadFrame

LEMMA NextQueue ==
  ASSUME Faultless, QueueInv, [Next]_vars
  PROVE  PresentInv' /\ NextInv'
<1>0. /\ TypeOK /\ MarksInv /\ OffsetsOrdered /\ PresentInv /\ NextInv
      /\ present \in [Port -> BOOLEAN] /\ readOffset \in [Port -> Nat]
      /\ nextReadOffset \in [Port -> Nat] /\ writeOffset \in [Port -> Nat]
  BY DEF QueueInv, TypeOK
<1>1. CASE Begin
  <2>1. \A p \in Port : p <= MaxPort
    BY QueueAssumption DEF Port
  <2>2. up' => \A p \in Port : present'[p] /\ nextReadOffset'[p] = readOffset'[p]
    <3>1. PICK last \in 0 .. MaxPort :
            /\ up' = (last = MaxPort)
            /\ present' = [p \in Port |-> present[p] \/ p <= last]
            /\ readOffset' = [q \in Port |-> IF q <= last THEN Len(file[q]) ELSE readOffset[q]]
            /\ nextReadOffset' =
                 [q \in Port |-> IF q <= last THEN Len(file[q]) ELSE nextReadOffset[q]]
      BY <1>1, Zenon DEF Begin
    <3>2. up' => \A p \in Port : p <= last
      BY <2>1, <3>1
    <3> QED
      BY <3>1, <3>2
  <2> QED
    BY <2>2 DEF PresentInv, NextInv
<1>2. CASE Reset
  BY <1>2 DEF Reset, PresentInv, NextInv
<1>3. ASSUME NEW p \in Port, NEW m \in Packet, PushAccepted(p, m)
      PROVE  PresentInv' /\ NextInv'
  <2>1. /\ up /\ up' = up /\ UNCHANGED <<readOffset, nextReadOffset>>
        /\ present' = [present EXCEPT ![p] = TRUE]
        /\ \A q \in Port : q # p => file'[q] = file[q]
    BY <1>0, <1>3 DEF PushAccepted, Grow, TypeOK
  <2>2. nextReadOffset'[p] \in {readOffset'[p], readOffset'[p] + HeadFrame(p).size'}
    <3>1. CASE readOffset[p] = writeOffset[p]
      <4>1. HeadFrame(p).size = 0
        BY <1>0, <2>1, <3>1, HeadIs
      <4>2. nextReadOffset[p] \in {readOffset[p], readOffset[p] + 0}
        BY <1>0, <2>1, <4>1 DEF NextInv
      <4>3. nextReadOffset[p] = readOffset[p]
        BY <1>0, <4>2
      <4> QED
        BY <2>1, <4>3
    <3>2. CASE readOffset[p] # writeOffset[p]
      BY <1>0, <1>3, <2>1, <3>2, ContentsPushed DEF NextInv
    <3> QED
      BY <3>1, <3>2
  <2>3. PresentInv'
    BY <1>0, <2>1 DEF PresentInv
  <2> QED
    BY <1>0, <2>1, <2>2, <2>3, NextInvStays
<1>4. CASE UNCHANGED <<file, present, readOffset, nextReadOffset, up>>
  BY <1>0, <1>4 DEF PresentInv, NextInv, HeadFrame
<1>5. ASSUME NEW p \in Port, NEW room \in Rooms, NEW op \in ReadOp, up,
             NextFrame(op, p, room), UNCHANGED <<file, present, up>>
      PROVE  PresentInv' /\ NextInv'
  <2>1. PresentInv'
    BY <1>0, <1>5 DEF PresentInv
  <2>2. CASE UNCHANGED <<writeOffset, readOffset, nextReadOffset>>
    BY <1>4, <1>5, <2>2
  <2>3. CASE /\ \A q \in Port : q # p => UNCHANGED <<readOffset[q], nextReadOffset[q]>>
             /\ nextReadOffset'[p] = readOffset[p] + HeadFrame(p).size
             /\ readOffset'[p] \in {readOffset[p], nextReadOffset'[p]}
    <3>1. readOffset'[p] = readOffset[p] => HeadFrame(p)' = HeadFrame(p)
      BY <1>5 DEF HeadFrame
    <3>2. nextReadOffset'[p] \in {readOffset'[p], readOffset'[p] + HeadFrame(p).size'}
      BY <2>3, <3>1
    <3> QED
      BY <1>0, <1>5, <2>1, <2>3, <3>2, NextInvStays
  <2> QED
    BY <1>5, <2>2, <2>3, NextFrameIs
<1>6. ASSUME NEW p \in Port, SkipToNextPacket(p)
      PROVE  PresentInv' /\ NextInv'
  <2>1. /\ up /\ UNCHANGED <<file, present, nextReadOffset, up>>
        /\ \A q \in Port : q # p => readOffset'[q] = readOffset[q]
        /\ readOffset'[p] \in {readOffset[p], nextReadOffset[p]}
    BY <1>0, <1>6 DEF SkipToNextPacket, OffsetsOrdered
  <2>2. nextReadOffset'[p] \in {readOffset'[p], readOffset'[p] + HeadFrame(p).size'}
    <3>1. CASE readOffset'[p] = readOffset[p]
      BY <1>0, <2>1, <3>1 DEF NextInv, HeadFrame
    <3>2. CASE readOffset'[p] = nextReadOffset[p]
      BY <2>1, <3>2
    <3> QED
      BY <2>1, <3>1, <3>2
  <2>3. PresentInv'
    BY <1>0, <2>1 DEF PresentInv
  <2> QED
    BY <1>0, <2>1, <2>2, <2>3, NextInvStays
<1>7. ASSUME NEW p \in Port, ClearDone(p)
      PROVE  PresentInv' /\ NextInv'
  <2>1. /\ up /\ up' = up /\ present' = [present EXCEPT ![p] = TRUE]
        /\ nextReadOffset'[p] = readOffset'[p]
        /\ \A q \in Port : q # p => UNCHANGED <<file[q], readOffset[q], nextReadOffset[q]>>
    BY <1>0, <1>7 DEF ClearDone, TypeOK
  <2>2. PresentInv'
    BY <1>0, <2>1 DEF PresentInv
  <2> QED
    BY <1>0, <2>1, <2>2, NextInvStays
<1>8. ASSUME NEW p \in Port, NEW m \in Packet, PushShort(p, m)
      PROVE  FALSE
  BY <1>8 DEF Faultless, PushShort
<1>9. ASSUME NEW p \in Port, ClearHalf(p)
      PROVE  FALSE
  BY <1>9 DEF Faultless, ClearHalf
<1>10. ASSUME NEW ports \in PortLists, NEW room \in Rooms, NEW op \in {"peekAny", "popAny"},
             AnyFromPorts(op, ports, room)
      PROVE  PresentInv' /\ NextInv'
  <2>1. \A i \in DOMAIN ports : ports[i] \in Port
    BY PortListType
  <2>2. CASE \E i \in DOMAIN ports : NextFrame(op, ports[i], room)
    BY <1>5, <1>10, <2>1, <2>2 DEF AnyFromPorts, ReadOp
  <2>3. CASE UNCHANGED <<writeOffset, readOffset, nextReadOffset>>
    BY <1>4, <1>10, <2>3 DEF AnyFromPorts
  <2> QED
    BY <1>10, <2>2, <2>3 DEF AnyFromPorts
<1>11. ASSUME NEW p \in Port, NEW room \in Rooms, PeekNext(p, room) \/ PopNext(p, room)
       PROVE  PresentInv' /\ NextInv'
  BY <1>5, <1>11 DEF PeekNext, PopNext, ReadOp
<1> QED
  BY <1>1, <1>2, <1>3, <1>4, <1>6, <1>7, <1>8, <1>9, <1>10, <1>11
     DEF Next, vars, PushRefused, ClearRefused

LEMMA QueueHolds == ASSUME Faultless PROVE Spec => []QueueInv
<1>1. OneFault
  BY DEF Faultless, OneFault, Tellable
<1>2. Init => PresentInv /\ NextInv
  BY DEF Init, PresentInv, NextInv
<1>3. QueueInv /\ [Next]_vars => PresentInv' /\ NextInv'
  BY NextQueue
<1>4. Spec => []OffsetsOrdered
  BY OffsetsAlwaysOrdered
<1> QED
  BY <1>1, <1>2, <1>3, <1>4, MarksHold, PTL DEF Spec, QueueInv

\* What the files and offsets stand for.
Queues == [p \in Port |-> IF up THEN Contents(p) ELSE <<>>]
Peeked == [p \in Port |-> up /\ nextReadOffset[p] # readOffset[p]]

\* A step that concerns one port at most.
LEMMA OnePort ==
  ASSUME up, up', NEW p \in Port,
         \A q \in Port : q # p => UNCHANGED <<file[q], writeOffset[q], readOffset[q], nextReadOffset[q]>>
  PROVE  /\ Queues' = [Queues EXCEPT ![p] = Contents(p)']
         /\ Peeked' = [Peeked EXCEPT ![p] = (nextReadOffset'[p] # readOffset'[p])]
<1>1. \A q \in Port : q # p => Contents(q)' = Contents(q)
  BY ContentsStay
<1>2. Queues' = [Queues EXCEPT ![p] = Contents(p)']
  BY <1>1 DEF Queues
<1>3. Peeked' = [Peeked EXCEPT ![p] = (nextReadOffset'[p] # readOffset'[p])]
  BY DEF Peeked
<1> QED
  BY <1>2, <1>3

\* A step that leaves the files and offsets alone.
LEMMA NoPort ==
  ASSUME UNCHANGED <<file, writeOffset, readOffset, nextReadOffset, up>>
  PROVE  Queues' = Queues /\ Peeked' = Peeked
<1>1. \A q \in Port : Contents(q)' = Contents(q)
  BY ContentsStay
<1> QED
  BY <1>1 DEF Queues, Peeked

\* The steps of PacketFifo in terms of the files.
LEMMA FifoPeek ==
  ASSUME NEW op, NEW p, NEW room, up, up' = up,
         Queues[p] # <<>>, Fifo!Fits(Head(Queues[p]), room),
         Queues' = Queues, Peeked' = [Peeked EXCEPT ![p] = TRUE],
         Return(op, p, TRUE, Head(Queues[p]))
  PROVE  Fifo!Peek(op, p, room)
  BY Zenon DEF Fifo!Peek, Fifo!Return, Fifo!Port, Return, Port, Queues, Peeked

LEMMA FifoPop ==
  ASSUME NEW op, NEW p, NEW room, up, up' = up,
         Queues[p] # <<>>, Fifo!Fits(Head(Queues[p]), room),
         Queues' = [Queues EXCEPT ![p] = Tail(@)], Peeked' = [Peeked EXCEPT ![p] = FALSE],
         Return(op, p, TRUE, Head(Queues[p]))
  PROVE  Fifo!Pop(op, p, room)
  BY Zenon DEF Fifo!Pop, Fifo!Return, Fifo!Port, Return, Port, Queues, Peeked

LEMMA FifoNothing ==
  ASSUME NEW op, NEW p, NEW room, up, up' = up,
         Queues[p] # <<>> => ~Fifo!Fits(Head(Queues[p]), room),
         UNCHANGED <<Queues, Peeked>>, Return(op, p, FALSE, NoPacket)
  PROVE  Fifo!Nothing(op, p, room)
  BY Zenon DEF Fifo!Nothing, Fifo!Return, Fifo!Port, Return, Port, Queues, Peeked

\* A read of a port is a read of its queue.
LEMMA ReadStep ==
  ASSUME QueueInv, up, NEW p \in Port, NEW room \in Rooms, NEW op \in ReadOp,
         NextFrame(op, p, room), UNCHANGED <<file, present, up>>
  PROVE  \/ Fifo!Nothing(op, p, room)
         \/ op \notin PopOp /\ Fifo!Peek(op, p, room)
         \/ op \in PopOp /\ Fifo!Pop(op, p, room)
<1>0. Queues[p] = Contents(p)
  BY DEF Queues
<1>1. CASE /\ Contents(p) # <<>> => ~Fifo!Fits(Head(Contents(p)), room)
           /\ Return(op, p, FALSE, NoPacket)
           /\ UNCHANGED <<writeOffset, readOffset, nextReadOffset>>
  BY <1>0, <1>1, NoPort, FifoNothing
<1>2. CASE /\ Contents(p) # <<>> /\ Fifo!Fits(Head(Contents(p)), room)
           /\ Return(op, p, TRUE, Head(Contents(p)))
           /\ UNCHANGED <<file, writeOffset>>
           /\ \A q \in Port : q # p => UNCHANGED <<readOffset[q], nextReadOffset[q]>>
           /\ IF op \in PopOp
              THEN /\ readOffset'[p] = nextReadOffset'[p]
                   /\ Contents(p)' = Tail(Contents(p))
              ELSE /\ readOffset'[p] # nextReadOffset'[p]
                   /\ Contents(p)' = Contents(p)
  <2>1. /\ Queues' = [Queues EXCEPT ![p] = Contents(p)']
        /\ Peeked' = [Peeked EXCEPT ![p] = (nextReadOffset'[p] # readOffset'[p])]
    BY <1>2, OnePort
  <2>2. CASE op \in PopOp
    <3>1. Queues' = [Queues EXCEPT ![p] = Tail(@)]
      BY <1>0, <1>2, <2>1, <2>2
    <3>2. Peeked' = [Peeked EXCEPT ![p] = FALSE]
      BY <1>2, <2>1, <2>2
    <3> QED
      BY <1>0, <1>2, <2>2, <3>1, <3>2, FifoPop
  <2>3. CASE op \notin PopOp
    <3>1. Queues' = Queues
      BY <1>0, <1>2, <2>1, <2>3 DEF Queues
    <3>2. Peeked' = [Peeked EXCEPT ![p] = TRUE]
      BY <1>2, <2>1, <2>3
    <3> QED
      BY <1>0, <1>2, <2>3, <3>1, <3>2, FifoPeek
  <2> QED
    BY <2>2, <2>3
<1> QED
  BY <1>1, <1>2, NextFrameIs

\* A call that serves the first port of a list that holds a packet.
LEMMA AnyStep ==
  ASSUME QueueInv, NEW ports \in PortLists, NEW room \in Rooms,
         NEW op \in {"peekAny", "popAny"}, AnyFromPorts(op, ports, room)
  PROVE  Fifo!Next
<1>0. up /\ UNCHANGED <<file, present, up>> /\ op \in ReadOp
  BY DEF AnyFromPorts, ReadOp
<1>1. \A i \in DOMAIN ports : ports[i] \in Port
  BY PortListType
<1>2. ASSUME NEW q \in Port
      PROVE  IsPortEmpty(q) <=> Queues[q] = <<>>
  <2>1. present[q] /\ TypeOK /\ MarksInv /\ OffsetsOrdered
    BY <1>0 DEF QueueInv, PresentInv
  <2>2. Queues[q] = Contents(q)
    BY <1>0 DEF Queues
  <2> QED
    BY <1>0, <2>1, <2>2, HeadIs DEF IsPortEmpty
<1>3. ASSUME NEW i \in DOMAIN ports, NextFrame(op, ports[i], room), ~IsPortEmpty(ports[i]),
             \A j \in 1 .. i - 1 : IsPortEmpty(ports[j])
      PROVE  Fifo!AnyFromPorts(ports, room)
  <2>1. Queues[ports[i]] # <<>>
    BY <1>1, <1>2, <1>3
  <2>2. \A j \in 1 .. i - 1 : Queues[ports[j]] = <<>>
    <3> TAKE j \in 1 .. i - 1
    <3>1. DOMAIN ports = 1 .. Len(ports) /\ Len(ports) \in Nat
      BY QueueAssumption
    <3>2. j \in DOMAIN ports
      BY <1>3, <3>1
    <3> QED
      BY <1>1, <1>2, <1>3, <3>2
  <2>3. \/ Fifo!Nothing(op, ports[i], room)
        \/ op \notin PopOp /\ Fifo!Peek(op, ports[i], room)
        \/ op \in PopOp /\ Fifo!Pop(op, ports[i], room)
    BY <1>0, <1>1, <1>3, ReadStep
  <2>4. \/ Fifo!Peek("peekAny", ports[i], room) \/ Fifo!Nothing("peekAny", ports[i], room)
        \/ Fifo!Pop("popAny", ports[i], room) \/ Fifo!Nothing("popAny", ports[i], room)
    BY <2>3 DEF PopOp
  <2> QED
    BY <2>1, <2>2, <2>4, Zenon DEF Fifo!AnyFromPorts, Queues, Port, Fifo!Port
<1>4. ASSUME \A j \in DOMAIN ports : IsPortEmpty(ports[j]), Return(op, 0, FALSE, NoPacket),
             UNCHANGED <<writeOffset, readOffset, nextReadOffset>>
      PROVE  Fifo!NoneFromPorts(ports)
  <2>1. \A j \in DOMAIN ports : Queues[ports[j]] = <<>>
    BY <1>1, <1>2, <1>4
  <2>2. UNCHANGED <<Queues, Peeked>>
    BY <1>0, <1>4, NoPort
  <2> QED
    BY <1>0, <1>4, <2>1, <2>2, Zenon
       DEF Fifo!NoneFromPorts, Fifo!Return, Return, Queues, Peeked, Port, Fifo!Port
<1>5. Fifo!AnyFromPorts(ports, room) \/ Fifo!NoneFromPorts(ports)
  BY <1>3, <1>4 DEF AnyFromPorts
<1> QED
  BY <1>5, Zenon DEF Fifo!Next

\* A skip takes a port past the packet that was peeked, and only then.
LEMMA SkipStep ==
  ASSUME QueueInv, NEW p \in Port, SkipToNextPacket(p)
  PROVE  Fifo!Skip(p) \/ Fifo!SkipRefused(p)
<1>0. /\ up /\ up' = up /\ UNCHANGED <<file, present, writeOffset, nextReadOffset>>
      /\ Return("skip", p, Skippable(p), NoPacket)
      /\ TypeOK /\ MarksInv /\ OffsetsOrdered /\ NextInv
      /\ readOffset \in [Port -> Nat] /\ nextReadOffset[p] \in Nat /\ writeOffset[p] \in Nat
      /\ nextReadOffset[p] <= writeOffset[p]
  BY DEF SkipToNextPacket, QueueInv, TypeOK, OffsetsOrdered
<1>1. Queues[p] = Contents(p) /\ (Peeked[p] <=> nextReadOffset[p] # readOffset[p])
  BY <1>0 DEF Queues, Peeked
<1>2. CASE nextReadOffset[p] = readOffset[p]
  <2>1. ~Skippable(p) /\ ~Peeked[p]
    BY <1>1, <1>2 DEF Skippable
  <2>2. UNCHANGED <<Queues, Peeked>>
    BY <1>0, <2>1, NoPort DEF SkipToNextPacket
  <2>3. Return("skip", p, FALSE, NoPacket)
    <3>1. Skippable(p) = FALSE
      BY <2>1
    <3> QED
      BY <1>0, <3>1
  <2>4. Fifo!SkipRefused(p)
    BY <1>0, <2>1, <2>2, <2>3, Zenon
       DEF Fifo!SkipRefused, Fifo!Return, Return, Queues, Peeked, Port, Fifo!Port
  <2> QED
    BY <2>4
<1>3. CASE nextReadOffset[p] # readOffset[p]
  <2>1. readOffset[p] # writeOffset[p]
    <3> SUFFICES ASSUME readOffset[p] = writeOffset[p] PROVE FALSE
      OBVIOUS
    <3>1. HeadFrame(p).size = 0
      BY <1>0, HeadIs
    <3>2. nextReadOffset[p] \in {readOffset[p], readOffset[p] + 0}
      BY <1>0, <3>1 DEF NextInv
    <3> QED
      BY <1>0, <1>3, <3>2
  <2>2. PICK m \in Packet :
          /\ HeadFrame(p) = [size |-> FrameSize[m], pkt |-> m]
          /\ Tail(Contents(p)) = Parse(file[p], writeOffset[p])[readOffset[p] + FrameSize[m]]
    BY <1>0, <2>1, HeadIs
  <2>3. nextReadOffset[p] = readOffset[p] + FrameSize[m]
    BY <1>0, <1>3, <2>2 DEF NextInv
  <2>4. Skippable(p) /\ Peeked[p]
    BY <1>1, <1>3, <2>1 DEF Skippable
  <2>5. /\ readOffset'[p] = nextReadOffset[p]
        /\ \A q \in Port : q # p => readOffset'[q] = readOffset[q]
    BY <1>0, <2>4 DEF SkipToNextPacket
  <2>6. Contents(p)' = Tail(Contents(p))
    BY <1>0, <2>2, <2>3, <2>5, ContentsIs
  <2>7. /\ Queues' = [Queues EXCEPT ![p] = Contents(p)']
        /\ Peeked' = [Peeked EXCEPT ![p] = (nextReadOffset'[p] # readOffset'[p])]
    BY <1>0, <2>5, OnePort
  <2>8. Queues' = [Queues EXCEPT ![p] = Tail(@)]
    BY <1>1, <2>6, <2>7
  <2>9. Peeked' = [Peeked EXCEPT ![p] = FALSE]
    BY <1>0, <2>5, <2>7
  <2>10. Return("skip", p, TRUE, NoPacket)
    <3>1. Skippable(p) = TRUE
      BY <2>4 DEF Skippable
    <3> QED
      BY <1>0, <3>1
  <2>11. Fifo!Skip(p)
    BY <1>0, <2>4, <2>8, <2>9, <2>10, Zenon
       DEF Fifo!Skip, Fifo!Return, Return, Queues, Peeked, Port, Fifo!Port
  <2> QED
    BY <2>11
<1> QED
  BY <1>2, <1>3

\* The files and offsets behave as one first-in first-out queue per port:
\* every step of PacketQueue is a step of PacketFifo or changes nothing that
\* PacketFifo speaks of (PacketQueue::push, _next, skipToNextPacket, clear,
\* peekAnyFromPorts, popAnyFromPorts, begin).
THEOREM ImplementsFifo ==
  ASSUME Faultless
  PROVE  Spec => FifoSpec
<1>1. Init => Fifo!Init
  BY Zenon DEF Init, Fifo!Init, Fifo!Port, Port
<1>2. QueueInv /\ QueueInv' /\ [Next]_vars => [Fifo!Next]_Fifo!fifoVars
  <2> SUFFICES ASSUME QueueInv, QueueInv', [Next]_vars
               PROVE  Fifo!Next \/ UNCHANGED <<up, Queues, Peeked, result>>
    BY Zenon DEF Fifo!fifoVars, Queues, Peeked
  <2>1. CASE Begin
    <3>1. /\ ~up /\ \E ok \in BOOLEAN : up' = ok /\ Return("begin", 0, ok, NoPacket)
      BY <2>1 DEF Begin
    <3>2. ASSUME up', NEW p \in Port
          PROVE  /\ readOffset'[p] = writeOffset'[p] /\ nextReadOffset'[p] = readOffset'[p]
                 /\ writeOffset'[p] = Len(file'[p]) /\ file'[p] \in Seq(Cell)
      <4>1. p <= MaxPort
        BY QueueAssumption DEF Port
      <4> QED
        BY <2>1, <3>2, <4>1 DEF Begin, QueueInv, TypeOK
    <3>3. \A p \in Port : up' => Contents(p)' = <<>>
      <4> SUFFICES ASSUME NEW p \in Port, up' PROVE Contents(p)' = <<>>
        OBVIOUS
      <4>1. Frames(file'[p], {Len(file'[p])}, Len(file'[p]))
        BY DEF Frames
      <4>2. {Len(file'[p])} \in SUBSET (0 .. Len(file'[p]))
        BY <3>2
      <4>3. Parse(file'[p], Len(file'[p]))[Len(file'[p])] = <<>>
        BY <3>2, <4>1, <4>2, ParseFrames
      <4> QED
        BY <3>2, <4>3, ContentsIs
    <3>4. Queues' = Queues
      BY <3>1, <3>3 DEF Queues
    <3>5. Peeked' = Peeked
      BY <3>1, <3>2 DEF Peeked
    <3>6. Fifo!Begin
      BY <3>1, <3>4, <3>5, Zenon
         DEF Fifo!Begin, Fifo!Return, Return, Queues, Peeked, Port, Fifo!Port
    <3> QED
      BY <3>6, Zenon DEF Fifo!Next
  <2>2. CASE Reset
    <3>1. up /\ up' = FALSE /\ Return("reset", 0, TRUE, NoPacket)
      BY <2>2 DEF Reset
    <3>2. Queues' = [p \in Port |-> <<>>] /\ Peeked' = [p \in Port |-> FALSE]
      BY <3>1 DEF Queues, Peeked
    <3>3. Fifo!Reset
      BY <3>1, <3>2, Zenon
         DEF Fifo!Reset, Fifo!Return, Return, Queues, Peeked, Port, Fifo!Port
    <3> QED
      BY <3>3, Zenon DEF Fifo!Next
  <2>3. ASSUME NEW p \in Port, NEW m \in Packet, PushAccepted(p, m) \/ PushRefused(p, m)
        PROVE  Fifo!Next
    <3>1. up /\ up' = up /\ Queues[p] = Contents(p)
      BY <2>3 DEF PushAccepted, PushRefused, Queues
    <3>2. CASE PushAccepted(p, m)
      <4>1. /\ UNCHANGED <<readOffset, nextReadOffset>>
            /\ \A q \in Port : q # p => UNCHANGED <<file[q], writeOffset[q]>>
        BY <3>2 DEF PushAccepted, Grow, QueueInv, TypeOK
      <4>2. /\ Queues' = [Queues EXCEPT ![p] = Contents(p)']
            /\ Peeked' = [Peeked EXCEPT ![p] = (nextReadOffset'[p] # readOffset'[p])]
        BY <3>1, <4>1, OnePort
      <4>3. Queues' = [Queues EXCEPT ![p] = Append(@, m)]
        BY <3>1, <3>2, <4>2, ContentsPushed
      <4>4. Peeked' = Peeked
        BY <3>1, <4>1, Zenon DEF Peeked
      <4>5. Return("push", p, TRUE, NoPacket)
        BY <3>2 DEF PushAccepted
      <4>6. Fifo!Push(p, m)
        BY <3>1, <4>3, <4>4, <4>5, Zenon
           DEF Fifo!Push, Fifo!Return, Return, Queues, Peeked, Port, Fifo!Port
      <4> QED
        BY <4>6, Zenon DEF Fifo!Next, Port, Fifo!Port
    <3>3. CASE PushRefused(p, m)
      <4>1. UNCHANGED <<Queues, Peeked>> /\ Return("push", p, FALSE, NoPacket)
        BY <3>3, NoPort DEF PushRefused
      <4>2. Fifo!Push(p, m)
        BY <3>1, <4>1, Zenon
           DEF Fifo!Push, Fifo!Return, Return, Queues, Peeked, Port, Fifo!Port
      <4> QED
        BY <4>2, Zenon DEF Fifo!Next, Port, Fifo!Port
    <3> QED
      BY <2>3, <3>2, <3>3
  <2>4. ASSUME NEW p \in Port, NEW room \in Rooms, PeekNext(p, room) \/ PopNext(p, room)
        PROVE  Fifo!Next
    <3>1. CASE PeekNext(p, room)
      <4>1. Fifo!Nothing("peek", p, room) \/ Fifo!Peek("peek", p, room)
        BY <3>1, ReadStep DEF PeekNext, ReadOp, PopOp
      <4> QED
        BY <4>1, Zenon DEF Fifo!Next, Port, Fifo!Port
    <3>2. CASE PopNext(p, room)
      <4>1. Fifo!Nothing("pop", p, room) \/ Fifo!Pop("pop", p, room)
        BY <3>2, ReadStep DEF PopNext, ReadOp, PopOp
      <4> QED
        BY <4>1, Zenon DEF Fifo!Next, Port, Fifo!Port
    <3> QED
      BY <2>4, <3>1, <3>2
  <2>5. ASSUME NEW p \in Port, SkipToNextPacket(p)
        PROVE  Fifo!Next
    <3>1. Fifo!Skip(p) \/ Fifo!SkipRefused(p)
      BY <2>5, SkipStep
    <3> QED
      BY <3>1, Zenon DEF Fifo!Next, Port, Fifo!Port
  <2>6. ASSUME NEW p \in Port, ClearDone(p) \/ ClearRefused(p)
        PROVE  Fifo!Next
    <3>1. CASE ClearDone(p)
      <4>1. /\ up /\ up' = up /\ file'[p] = <<>>
            /\ writeOffset'[p] = 0 /\ readOffset'[p] = 0 /\ nextReadOffset'[p] = 0
            /\ \A q \in Port : q # p => UNCHANGED <<file[q], writeOffset[q],
                                                   readOffset[q], nextReadOffset[q]>>
        BY <3>1 DEF ClearDone, QueueInv, TypeOK
      <4>2. Contents(p)' = <<>>
        <5>1. Frames(<<>>, {0}, 0) /\ {0} \in SUBSET (0 .. 0)
          BY DEF Frames
        <5>2. Parse(<<>>, 0)[0] = <<>>
          <6>1. <<>> \in Seq(Cell) /\ Len(<<>>) = 0
            OBVIOUS
          <6> QED
            BY <5>1, <6>1, ParseFrames
        <5> QED
          BY <4>1, <5>2, ContentsIs
      <4>3. /\ Queues' = [Queues EXCEPT ![p] = Contents(p)']
            /\ Peeked' = [Peeked EXCEPT ![p] = (nextReadOffset'[p] # readOffset'[p])]
        BY <4>1, OnePort
      <4>4. Queues' = [Queues EXCEPT ![p] = <<>>] /\ Peeked' = [Peeked EXCEPT ![p] = FALSE]
        BY <4>1, <4>2, <4>3
      <4>5. Return("clear", p, TRUE, NoPacket)
        BY <3>1 DEF ClearDone
      <4>6. Fifo!Clear(p)
        BY <4>1, <4>4, <4>5, Zenon
           DEF Fifo!Clear, Fifo!Return, Return, Queues, Peeked, Port, Fifo!Port
      <4> QED
        BY <4>6, Zenon DEF Fifo!Next, Port, Fifo!Port
    <3>2. CASE ClearRefused(p)
      <4>1. /\ up /\ up' = up /\ UNCHANGED <<Queues, Peeked>>
            /\ Return("clear", p, FALSE, NoPacket)
        BY <3>2, NoPort DEF ClearRefused
      <4>2. Fifo!Clear(p)
        BY <4>1, Zenon
           DEF Fifo!Clear, Fifo!Return, Return, Queues, Peeked, Port, Fifo!Port
      <4> QED
        BY <4>2, Zenon DEF Fifo!Next, Port, Fifo!Port
    <3> QED
      BY <2>6, <3>1, <3>2
  <2>7. ASSUME NEW p \in Port, NEW m \in Packet, PushShort(p, m)
        PROVE  FALSE
    BY <2>7 DEF Faultless, PushShort
  <2>8. ASSUME NEW p \in Port, ClearHalf(p)
        PROVE  FALSE
    BY <2>8 DEF Faultless, ClearHalf
  <2>9. CASE UNCHANGED vars
    BY <2>9, NoPort DEF vars
  <2> QED
    BY <2>1, <2>2, <2>3, <2>4, <2>5, <2>6, <2>7, <2>8, <2>9, AnyStep DEF Next
<1> QED
  BY <1>1, <1>2, QueueHolds, PTL DEF Spec, FifoSpec, Fifo!Spec

=============================================================================
