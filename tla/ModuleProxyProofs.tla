------------------------- MODULE ModuleProxyProofs -------------------------
(***************************************************************************)
(* Proofs about ModuleProxy for any number of codes, any payloads and any  *)
(* length of the files: the types, what the offsets say of the record that *)
(* was stored last, what is handed out as fresh, and that the files and    *)
(* offsets implement ModuleCache.                                          *)
(***************************************************************************)
EXTENDS ModuleProxy, SequenceTheorems, TLAPS

-----------------------------------------------------------------------------
(* Frames *)

\* A read of a region returns cells.
LEMMA RegionType ==
  ASSUME NEW f \in Seq(Cell), NEW o \in Nat
  PROVE  ReadRegion(f, o) \in Seq(Cell)
  BY FrameAssumption DEF ReadRegion

\* What unwrap accepts as a frame has a payload, or pieces of several.
LEMMA UnwrapType ==
  ASSUME NEW bytes \in Seq(Cell), Unwrap(bytes).size # 0
  PROVE  Unwrap(bytes).pkt \in Packet \cup {Garbled}
<1>1. ~(Len(bytes) < Overhead \/ bytes = <<>>)
  BY DEF Unwrap, NoFrame
<1>2. bytes[1] \in Packet \X Nat
  BY <1>1 DEF Cell
<1>3. bytes[1][1] \in Packet
  BY <1>2
<1> QED
  BY <1>1, <1>3 DEF Unwrap, NoFrame

\* A frame is a sequence of as many cells as its payload needs, and so is
\* every beginning of it.
LEMMA FrameType ==
  ASSUME NEW m \in Packet, NEW k \in 0 .. FrameSize[m]
  PROVE  /\ Frame(m) \in Seq(Cell)
         /\ SubSeq(Frame(m), 1, k) \in Seq(Cell)
         /\ Len(SubSeq(Frame(m), 1, k)) = k
<1>1. FrameSize[m] \in Nat
  BY FrameAssumption
<1>2. Frame(m) \in Seq(Cell) /\ Len(Frame(m)) = FrameSize[m]
  BY <1>1 DEF Frame, Cell
<1> QED
  BY <1>1, <1>2

\* A frame that lies within the file and fits the buffer is read as what it is.
LEMMA FrameRead ==
  ASSUME NEW f \in Seq(Cell), NEW o \in Nat, NEW m \in Packet,
         FrameSize[m] <= BufferSize, o + FrameSize[m] <= Len(f),
         \A k \in 1 .. FrameSize[m] : f[o + k] = <<m, k>>
  PROVE  Unwrap(ReadRegion(f, o)) = [size |-> FrameSize[m], pkt |-> m]
<1> DEFINE n == FrameSize[m]
           stop == IF Len(f) - o > BufferSize THEN o + BufferSize ELSE Len(f)
           bytes == SubSeq(f, o + 1, stop)
<1>1. /\ n \in Nat /\ n > Overhead /\ Overhead \in Nat \ {0} /\ BufferSize \in Nat
      /\ Len(f) \in Nat
  BY FrameAssumption
<1>2. stop \in Nat /\ o + n <= stop /\ stop <= Len(f)
  BY <1>1
<1>3. ReadRegion(f, o) = bytes
  <2>1. o <= Len(f)
    BY <1>1
  <2> QED
    BY <2>1, Zenon DEF ReadRegion
<1> HIDE DEF stop
<1>4. /\ Len(bytes) = stop - o /\ bytes \in Seq(Cell)
      /\ \A k \in 1 .. n : bytes[k] = f[o + k]
  <2>1. o + 1 \in 1 .. Len(f) + 1 /\ stop \in o + 1 - 1 .. Len(f)
    BY <1>1, <1>2
  <2>2. /\ bytes \in Seq(Cell) /\ Len(bytes) = stop - (o + 1) + 1
        /\ \A k \in 1 .. stop - (o + 1) + 1 : bytes[k] = f[o + 1 + k - 1]
    BY <2>1, SubSeqProperties
  <2> HIDE DEF bytes
  <2> QED
    BY <1>1, <1>2, <2>2
<1>5. Len(bytes) >= n /\ \A k \in 1 .. n : bytes[k] = <<m, k>>
  BY <1>1, <1>2, <1>4
<1> HIDE DEF bytes
<1>6. SubSeq(bytes, 1, n) = Frame(m)
  <2>1. SubSeq(bytes, 1, n) = [k \in 1 .. n |-> bytes[k]]
    BY <1>1, <1>4, <1>5
  <2> QED
    BY <1>5, <2>1 DEF Frame
<1>7. bytes[1] = <<m, 1>> /\ bytes[n] = <<m, n>> /\ bytes # <<>> /\ ~(Len(bytes) < Overhead)
  BY <1>1, <1>4, <1>5
<1> QED
  BY <1>1, <1>3, <1>4, <1>5, <1>6, <1>7 DEF Unwrap

\* A file that grows by a frame holds it at its end.
LEMMA FrameAppended ==
  ASSUME NEW f \in Seq(Cell), NEW m \in Packet,
         NEW g \in Seq(Cell), g = f \o SubSeq(Frame(m), 1, FrameSize[m])
  PROVE  /\ Len(g) = Len(f) + FrameSize[m]
         /\ \A k \in 1 .. FrameSize[m] : g[Len(f) + k] = <<m, k>>
<1>1. FrameSize[m] \in Nat
  BY FrameAssumption
<1>2. Frame(m) \in Seq(Cell) /\ Len(Frame(m)) = FrameSize[m]
      /\ \A k \in 1 .. FrameSize[m] : Frame(m)[k] = <<m, k>>
  <2>1. Frame(m) \in Seq(Cell) /\ Len(Frame(m)) = FrameSize[m]
    <3>1. FrameSize[m] \in 0 .. FrameSize[m]
      BY <1>1
    <3>2. Frame(m) \in Seq(Cell)
      BY <3>1, FrameType
    <3> QED
      BY <1>1, <3>2 DEF Frame
  <2>2. \A k \in 1 .. FrameSize[m] : Frame(m)[k] = <<m, k>>
    BY DEF Frame
  <2> QED
    BY <2>1, <2>2
<1>3. SubSeq(Frame(m), 1, FrameSize[m]) = Frame(m)
  BY <1>1, <1>2
<1>4. g = f \o Frame(m)
  BY <1>3
<1> QED
  BY <1>1, <1>2, <1>4

-----------------------------------------------------------------------------
(* Types *)

\* The file of a code grows by the cells that were written and by no others.
LEMMA GrowType ==
  ASSUME TypeOK, NEW m \in Packet, NEW k \in 0 .. FrameSize[m]
  PROVE  /\ CodeOf[m] \in Code
         /\ Grow(m, k) \in [Code -> Seq(Cell)]
         /\ Grow(m, k)[CodeOf[m]] = file[CodeOf[m]] \o SubSeq(Frame(m), 1, k)
         /\ Len(Grow(m, k)[CodeOf[m]]) = Len(file[CodeOf[m]]) + k
         /\ \A c \in Code : c # CodeOf[m] => Grow(m, k)[c] = file[c]
<1> DEFINE piece == SubSeq(Frame(m), 1, k)
           d == CodeOf[m]
<1>1. piece \in Seq(Cell) /\ Len(piece) = k
  BY FrameType
<1>2. d \in Code /\ file \in [Code -> Seq(Cell)] /\ file[d] \in Seq(Cell)
  BY ProxyAssumption DEF TypeOK
<1>3. Grow(m, k) = [file EXCEPT ![d] = @ \o piece]
  BY DEF Grow
<1> HIDE DEF piece, d
<1>4. file[d] \o piece \in Seq(Cell) /\ Len(file[d] \o piece) = Len(file[d]) + k
  BY <1>1, <1>2, ConcatProperties
<1>5. /\ Grow(m, k) \in [Code -> Seq(Cell)]
      /\ Grow(m, k)[d] = file[d] \o piece
      /\ \A c \in Code : c # d => Grow(m, k)[c] = file[c]
  BY <1>2, <1>3, <1>4
<1> QED
  BY <1>2, <1>4, <1>5 DEF piece, d

LoadedType == {NoModule} \cup [code : Code, pkt : Packet \cup {Garbled}]

ResultType == [op : Op, code : 0 .. MaxCode, ok : BOOLEAN, pkt : Packet \cup {NoPacket, Garbled}]

\* A call leaves a well-formed result behind.
LEMMA ReturnType ==
  ASSUME NEW op \in Op, NEW c \in 0 .. MaxCode, NEW ok \in BOOLEAN,
         NEW m \in Packet \cup {NoPacket, Garbled}, Return(op, c, ok, m)
  PROVE  result' \in ResultType
  BY DEF Return, ResultType

\* What a successful read leaves in RAM and returns.
LEMMA FoundType ==
  ASSUME TypeOK, NEW op \in Op, NEW c \in Code, Found(op, c)
  PROVE  optLoadedModule' \in LoadedType /\ readOffset' = readOffset /\ result' \in ResultType
<1>0. c \in 0 .. MaxCode /\ c # 0
  BY ProxyAssumption DEF Code
<1>1. CASE Loaded(c)
  <2>1. optLoadedModule \in [code : Code, pkt : Packet \cup {Garbled}]
    BY <1>0, <1>1 DEF Loaded, NoModule, TypeOK
  <2>2. optLoadedModule.pkt \in Packet \cup {NoPacket, Garbled}
    BY <2>1
  <2> QED
    BY <1>0, <1>1, <2>1, <2>2, ReturnType DEF Found, LoadedType
<1>2. CASE ~Loaded(c)
  <2>1. ReadRegion(file[c], readOffset[c]) \in Seq(Cell)
    BY RegionType DEF TypeOK
  <2>2. FrameAt(c).pkt \in Packet \cup {Garbled}
    BY <1>2, <2>1, UnwrapType DEF Found, FrameAt
  <2>3. optLoadedModule' \in [code : Code, pkt : Packet \cup {Garbled}]
    <3>1. optLoadedModule' = [code |-> c, pkt |-> FrameAt(c).pkt]
      BY <1>2 DEF Found
    <3> QED
      BY <2>2, <3>1
  <2>4. result' \in ResultType
    <3>1. Return(op, c, TRUE, FrameAt(c).pkt)
      BY <1>2 DEF Found
    <3> QED
      BY <1>0, <2>2, <3>1, ReturnType
  <2> QED
    BY <1>2, <2>3, <2>4 DEF Found, LoadedType
<1> QED
  BY <1>1, <1>2

LEMMA InitType == Init => TypeOK
<1> SUFFICES ASSUME Init PROVE TypeOK
  OBVIOUS
<1>1. <<>> \in Seq(Cell) /\ <<>> \in Seq(Packet)
  OBVIOUS
<1>2. /\ file \in [Code -> Seq(Cell)] /\ since \in [Code -> Seq(Packet)]
      /\ writeOffset \in [Code -> Nat] /\ readOffset \in [Code -> Nat]
  BY <1>1 DEF Init
<1>3. result \in [op : Op, code : 0 .. MaxCode, ok : BOOLEAN,
                 pkt : Packet \cup {NoPacket, Garbled}]
  BY ProxyAssumption DEF Init, Op
<1> QED
  BY <1>2, <1>3 DEF Init, TypeOK

\* An append, whole or not, keeps the types of the files.
LEMMA FileType ==
  ASSUME TypeOK, NEW m \in Packet, NEW k \in 1 .. FrameSize[m], file' = Grow(m, k)
  PROVE  file' \in [Code -> Seq(Cell)]
<1>1. k \in 0 .. FrameSize[m]
  BY FrameAssumption
<1> QED
  BY <1>1, GrowType

LEMMA NextType ==
  ASSUME TypeOK, [Next]_vars
  PROVE  TypeOK'
<1>0. 0 \in 0 .. MaxCode /\ \A c \in Code : c \in 0 .. MaxCode
  BY ProxyAssumption DEF Code
<1> DEFINE Rest == /\ file' \in [Code -> Seq(Cell)]
                   /\ writeOffset' \in [Code -> Nat] /\ readOffset' \in [Code -> Nat]
                   /\ optLoadedModule' \in LoadedType /\ up' \in BOOLEAN
                   /\ since' \in [Code -> Seq(Packet)]
<1>1. Rest /\ result' \in ResultType => TypeOK'
  BY DEF TypeOK, LoadedType, ResultType
<1>2. /\ file \in [Code -> Seq(Cell)] /\ writeOffset \in [Code -> Nat]
      /\ readOffset \in [Code -> Nat] /\ optLoadedModule \in LoadedType
      /\ up \in BOOLEAN /\ since \in [Code -> Seq(Packet)] /\ result \in ResultType
  BY DEF TypeOK, LoadedType, ResultType
<1> HIDE DEF Rest
<1>3. CASE Setup
  <2>1. PICK last \in 0 .. MaxCode :
          /\ writeOffset' = [c \in Code |-> IF c <= last THEN Len(file[c]) ELSE 0]
          /\ readOffset' = [c \in Code |-> IF c <= last THEN Len(file[c]) ELSE 0]
          /\ Return("begin", 0, last = MaxCode, NoPacket)
    BY <1>3 DEF Setup
  <2>2. \A c \in Code : Len(file[c]) \in Nat
    BY <1>2
  <2>3. writeOffset' \in [Code -> Nat] /\ readOffset' \in [Code -> Nat]
    BY <2>1, <2>2
  <2>4. since' \in [Code -> Seq(Packet)]
    BY <1>3 DEF Setup
  <2>5. result' \in ResultType
    BY <1>0, <2>1, ReturnType DEF Op
  <2> QED
    BY <1>1, <1>2, <1>3, <2>3, <2>4, <2>5 DEF Setup, Rest, LoadedType
<1>4. CASE Reset
  <2>1. file' \in [Code -> Seq(Cell)]
    BY <1>2, <1>4, FileType DEF Reset
  <2>2. result' \in ResultType
    BY <1>0, <1>4, ReturnType DEF Op, Reset
  <2> QED
    BY <1>1, <1>2, <1>4, <2>1, <2>2 DEF Reset, Rest
<1>5. ASSUME NEW m \in Packet, StoreModule(m)
      PROVE  TypeOK'
  <2>1. FrameSize[m] \in 1 .. FrameSize[m] /\ FrameSize[m] \in Nat /\ CodeOf[m] \in Code
    BY FrameAssumption, ProxyAssumption
  <2>2. file' \in [Code -> Seq(Cell)]
    BY <1>5, <2>1, FileType DEF StoreModule
  <2>3. writeOffset' \in [Code -> Nat] /\ readOffset' \in [Code -> Nat]
    BY <1>2, <1>5, <2>1 DEF StoreModule
  <2>4. since' \in [Code -> Seq(Packet)]
    BY <1>2, <1>5, <2>1 DEF StoreModule
  <2>5. result' \in ResultType
    BY <1>0, <1>5, <2>1, ReturnType DEF Op, StoreModule
  <2> QED
    BY <1>1, <1>2, <1>5, <2>2, <2>3, <2>4, <2>5 DEF StoreModule, Rest
<1>6. ASSUME NEW m \in Packet, StoreRefused(m) \/ StoreShort(m)
      PROVE  TypeOK'
  <2>1. CodeOf[m] \in Code /\ FrameSize[m] \in Nat
    BY FrameAssumption, ProxyAssumption
  <2>2. file' \in [Code -> Seq(Cell)]
    <3>1. CASE StoreRefused(m)
      BY <1>2, <3>1 DEF StoreRefused
    <3>2. CASE StoreShort(m)
      <4>1. PICK k \in 1 .. FrameSize[m] - 1 : file' = Grow(m, k)
        BY <3>2 DEF StoreShort
      <4>2. k \in 1 .. FrameSize[m]
        BY <2>1
      <4> QED
        BY <4>1, <4>2, FileType
    <3> QED
      BY <1>6, <3>1, <3>2
  <2>3. result' \in ResultType
    BY <1>0, <1>6, <2>1, ReturnType DEF Op, StoreRefused, StoreShort
  <2> QED
    BY <1>1, <1>2, <1>6, <2>2, <2>3 DEF StoreRefused, StoreShort, Rest
<1>7. ASSUME NEW c \in Code, NEW op \in Op, Found(op, c),
             UNCHANGED <<file, writeOffset, up, since>>
      PROVE  TypeOK'
  BY <1>1, <1>2, <1>7, FoundType DEF Rest
<1>8. ASSUME NEW codes \in SUBSET Code, Invalidated(codes), result' \in ResultType,
             UNCHANGED <<file, writeOffset, up>>
      PROVE  TypeOK'
  <2>1. readOffset' \in [Code -> Nat]
    BY <1>2, <1>8 DEF Invalidated
  <2>2. since' \in [Code -> Seq(Packet)]
    BY <1>2, <1>8 DEF Invalidated
  <2> QED
    BY <1>1, <1>2, <1>8, <2>1, <2>2 DEF Invalidated, Rest, LoadedType
<1>9. ASSUME NEW c \in Code, GetIfFresh(c)
      PROVE  TypeOK'
  <2>1. CASE Found("get", c)
    BY <1>7, <1>9, <2>1 DEF GetIfFresh, Op
  <2>2. CASE ~Found("get", c)
    <3>1. result' \in ResultType
      BY <1>0, <1>9, <2>2, ReturnType DEF GetIfFresh, Op
    <3>2. readOffset' \in [Code -> Nat]
      BY <1>2, <1>9, <2>2 DEF GetIfFresh
    <3>3. optLoadedModule' \in LoadedType
      BY <1>2, <1>9, <2>2 DEF GetIfFresh, LoadedType
    <3> QED
      BY <1>1, <1>2, <1>9, <3>1, <3>2, <3>3 DEF GetIfFresh, Rest
  <2> QED
    BY <2>1, <2>2
<1>10. ASSUME NEW c \in Code, GetIfFreshOrAskDevice(c)
       PROVE  TypeOK'
  <2>1. CASE Found("getOrAsk", c) /\ UNCHANGED since
    BY <1>7, <1>10, <2>1 DEF GetIfFreshOrAskDevice, Op
  <2>2. CASE Invalidated({c}) /\ Return("getOrAsk", c, FALSE, NoPacket)
    <3>1. result' \in ResultType
      BY <1>0, <2>2, ReturnType DEF Op
    <3> QED
      BY <1>8, <1>10, <2>2, <3>1 DEF GetIfFreshOrAskDevice
  <2> QED
    BY <1>10, <2>1, <2>2 DEF GetIfFreshOrAskDevice
<1>11. ASSUME NEW codes \in SUBSET Code, NEW sendOk \in BOOLEAN, AskDevice(codes, sendOk)
       PROVE  TypeOK'
  <2>1. result' \in ResultType
    BY <1>0, <1>11, ReturnType DEF AskDevice, Op
  <2> QED
    BY <1>8, <1>11, <2>1 DEF AskDevice
<1>12. CASE UNCHANGED vars
  BY <1>12 DEF vars, TypeOK
<1> QED
  BY <1>3, <1>4, <1>5, <1>6, <1>9, <1>10, <1>11, <1>12 DEF Next

\* The state of the cache keeps its types, whatever faults the storage has,
\* whether or not begin() is called, and whenever the board is reset.
THEOREM TypeCorrect == Spec => []TypeOK
  BY InitType, NextType, PTL DEF Spec

-----------------------------------------------------------------------------
(* The record that was stored last *)

Newest(c) == since[c][Len(since[c])]

\* The offsets of a code surround the frame of the module that was stored
\* last since the code was invalidated, and nothing when there is none.
Kept(c) ==
  IF since[c] = <<>> THEN readOffset[c] = writeOffset[c]
  ELSE /\ FrameSize[Newest(c)] <= BufferSize
       /\ readOffset[c] + FrameSize[Newest(c)] = writeOffset[c]
       /\ \A k \in 1 .. FrameSize[Newest(c)] : file[c][readOffset[c] + k] = <<Newest(c), k>>

\* A failed append and a begin() that was not called leave the file longer
\* than the write offset until the next reset.
Recorded(c) ==
  /\ writeOffset[c] <= Len(file[c])
  /\ writeOffset[c] = Len(file[c]) => Kept(c)

RecordsInv == up => \A c \in Code : Recorded(c)

\* What is read of a code whose write offset is the end of its file.
LEMMA KeptRead ==
  ASSUME TypeOK, NEW c \in Code, writeOffset[c] = Len(file[c]), Kept(c)
  PROVE  IF since[c] = <<>> THEN ~IsModuleFresh(c) /\ readOffset[c] = writeOffset[c]
         ELSE /\ IsModuleFresh(c) /\ readOffset[c] # writeOffset[c]
              /\ Newest(c) \in Packet /\ Len(since[c]) \in DOMAIN since[c]
              /\ FrameAt(c) = [size |-> FrameSize[Newest(c)], pkt |-> Newest(c)]
              /\ FrameAt(c).size # 0 /\ FrameAt(c).pkt = Newest(c)
<1>0. /\ file[c] \in Seq(Cell) /\ readOffset[c] \in Nat /\ writeOffset[c] \in Nat
      /\ since[c] \in Seq(Packet)
  BY DEF TypeOK
<1>1. CASE since[c] = <<>>
  BY <1>0, <1>1 DEF Kept, IsModuleFresh
<1>2. CASE since[c] # <<>>
  <2>1. Newest(c) \in Packet /\ Len(since[c]) \in DOMAIN since[c]
    BY <1>0, <1>2 DEF Newest
  <2>2. FrameSize[Newest(c)] \in Nat \ {0}
    BY <2>1, FrameAssumption
  <2>3. /\ FrameSize[Newest(c)] <= BufferSize
        /\ readOffset[c] + FrameSize[Newest(c)] = writeOffset[c]
        /\ \A k \in 1 .. FrameSize[Newest(c)] : file[c][readOffset[c] + k] = <<Newest(c), k>>
    BY <1>2 DEF Kept
  <2>4. readOffset[c] + FrameSize[Newest(c)] <= Len(file[c])
    BY <1>0, <2>3
  <2>5. FrameAt(c) = [size |-> FrameSize[Newest(c)], pkt |-> Newest(c)]
    BY <1>0, <2>1, <2>3, <2>4, FrameRead DEF FrameAt
  <2>6. readOffset[c] < writeOffset[c] /\ readOffset[c] # writeOffset[c]
    BY <1>0, <2>2, <2>3
  <2> QED
    BY <1>2, <2>1, <2>2, <2>5, <2>6 DEF IsModuleFresh
<1> QED
  BY <1>1, <1>2

LEMMA RecordedStays ==
  ASSUME NEW c, Recorded(c), UNCHANGED <<file[c], writeOffset[c], readOffset[c], since[c]>>
  PROVE  Recorded(c)'
  BY DEF Recorded, Kept, Newest

\* The code is emptied: nothing is fresh.
LEMMA RecordEmptied ==
  ASSUME NEW c, writeOffset'[c] <= Len(file'[c]), readOffset'[c] = writeOffset'[c],
         since'[c] = <<>>
  PROVE  Recorded(c)'
  BY DEF Recorded, Kept

\* An append puts the offsets around the new frame.
LEMMA RecordStored ==
  ASSUME TypeOK, NEW m \in Packet, StoreModule(m), Recorded(CodeOf[m])
  PROVE  Recorded(CodeOf[m])'
<1> DEFINE c == CodeOf[m]
           n == FrameSize[m]
<1>0. c \in Code /\ n \in Nat /\ n <= BufferSize /\ n \in 0 .. n
  BY FrameAssumption, ProxyAssumption DEF StoreModule
<1>1. file[c] \in Seq(Cell) /\ writeOffset[c] \in Nat /\ since[c] \in Seq(Packet)
  BY <1>0 DEF TypeOK
<1>2. file'[c] = file[c] \o SubSeq(Frame(m), 1, n) /\ file'[c] \in Seq(Cell)
  BY <1>0, GrowType DEF StoreModule
<1>3. /\ readOffset'[c] = writeOffset[c] /\ writeOffset'[c] = writeOffset[c] + n
      /\ since'[c] = Append(since[c], m)
  BY <1>0 DEF StoreModule, TypeOK
<1>4. since'[c] # <<>> /\ Newest(c)' = m
  BY <1>1, <1>3 DEF Newest
<1>5. /\ Len(file'[c]) = Len(file[c]) + n /\ Len(file[c]) \in Nat
      /\ \A k \in 1 .. n : file'[c][Len(file[c]) + k] = <<m, k>>
  <2> HIDE DEF c
  <2>1. /\ Len(file'[c]) = Len(file[c]) + n
        /\ \A k \in 1 .. n : file'[c][Len(file[c]) + k] = <<m, k>>
    BY <1>1, <1>2, FrameAppended
  <2>2. Len(file[c]) \in Nat
    BY <1>1
  <2> QED
    BY <2>1, <2>2
<1>6. writeOffset[c] = Len(file[c]) => Kept(c)'
  BY <1>0, <1>3, <1>4, <1>5 DEF Kept
<1>7. writeOffset[c] <= Len(file[c])
  BY DEF Recorded
<1> HIDE DEF c, n
<1>8. /\ writeOffset'[c] <= Len(file'[c])
      /\ writeOffset'[c] = Len(file'[c]) => writeOffset[c] = Len(file[c])
  BY <1>0, <1>1, <1>3, <1>5, <1>7
<1>9. Recorded(c)'
  BY <1>6, <1>8 DEF Recorded
<1> QED
  BY <1>9 DEF c

\* A read that finds nothing gives up what the offsets surround.
LEMMA RecordGivenUp ==
  ASSUME TypeOK, NEW c \in Code, Recorded(c), Missing(c),
         readOffset' = [readOffset EXCEPT ![c] = writeOffset[c]],
         UNCHANGED <<file, writeOffset, since>>
  PROVE  Recorded(c)'
<1>1. readOffset'[c] = writeOffset[c]
  BY DEF TypeOK
<1>2. CASE writeOffset[c] = Len(file[c])
  <2>1. since[c] = <<>>
    BY <1>2, KeptRead, FrameAssumption DEF Recorded, Missing
  <2> QED
    BY <1>1, <2>1 DEF Recorded, Kept
<1>3. CASE writeOffset[c] # Len(file[c])
  BY <1>3 DEF Recorded
<1> QED
  BY <1>2, <1>3

LEMMA NextRecords ==
  ASSUME TypeOK, RecordsInv, [Next]_vars
  PROVE  RecordsInv'
<1>0. \A c \in Code : up => Recorded(c)
  BY DEF RecordsInv
<1>1. CASE Setup
  <2> SUFFICES ASSUME NEW c \in Code PROVE Recorded(c)'
    BY DEF RecordsInv
  <2>1. PICK last \in 0 .. MaxCode :
          /\ writeOffset' = [d \in Code |-> IF d <= last THEN Len(file[d]) ELSE 0]
          /\ readOffset' = [d \in Code |-> IF d <= last THEN Len(file[d]) ELSE 0]
    BY <1>1 DEF Setup
  <2>2. Len(file[c]) \in Nat
    BY DEF TypeOK
  <2>3. since'[c] = <<>> /\ file' = file
    BY <1>1 DEF Setup
  <2>4. writeOffset'[c] <= Len(file'[c]) /\ readOffset'[c] = writeOffset'[c]
    BY <2>1, <2>2, <2>3
  <2> QED
    BY <2>3, <2>4, RecordEmptied
<1>2. CASE Reset
  BY <1>2 DEF Reset, RecordsInv
<1>3. ASSUME NEW c \in Code, up, Recorded(c)',
             \A d \in Code : d # c => UNCHANGED <<file[d], writeOffset[d], readOffset[d], since[d]>>
      PROVE  RecordsInv'
  BY <1>0, <1>3, RecordedStays DEF RecordsInv
<1>4. ASSUME NEW m \in Packet, StoreModule(m)
      PROVE  RecordsInv'
  <2>1. up /\ CodeOf[m] \in Code /\ FrameSize[m] \in 0 .. FrameSize[m]
    BY <1>4, FrameAssumption, ProxyAssumption DEF StoreModule
  <2>2. Recorded(CodeOf[m])'
    BY <1>0, <1>4, <2>1, RecordStored
  <2>3. \A d \in Code : d # CodeOf[m] =>
          UNCHANGED <<file[d], writeOffset[d], readOffset[d], since[d]>>
    BY <1>4, <2>1, GrowType DEF StoreModule, TypeOK
  <2> QED
    BY <1>3, <2>1, <2>2, <2>3
<1>5. ASSUME NEW m \in Packet, StoreRefused(m)
      PROVE  RecordsInv'
  BY <1>0, <1>5, RecordedStays DEF StoreRefused, RecordsInv
<1>6. ASSUME NEW m \in Packet, StoreShort(m)
      PROVE  RecordsInv'
  <2>1. PICK k \in 1 .. FrameSize[m] - 1 : file' = Grow(m, k)
    BY <1>6 DEF StoreShort
  <2>2. k \in 0 .. FrameSize[m] /\ k \in Nat \ {0} /\ up /\ CodeOf[m] \in Code
    BY <1>6, FrameAssumption, ProxyAssumption DEF StoreShort
  <2>3. /\ Len(file'[CodeOf[m]]) = Len(file[CodeOf[m]]) + k
        /\ \A d \in Code : d # CodeOf[m] => file'[d] = file[d]
    BY <2>1, <2>2, GrowType
  <2>4. UNCHANGED <<writeOffset, readOffset, since>>
    BY <1>6 DEF StoreShort
  <2>5. Len(file[CodeOf[m]]) \in Nat /\ writeOffset[CodeOf[m]] \in Nat
    BY <2>2 DEF TypeOK
  <2>6. Recorded(CodeOf[m])'
    BY <1>0, <2>2, <2>3, <2>4, <2>5 DEF Recorded
  <2> QED
    BY <1>3, <2>2, <2>3, <2>4, <2>6
<1>7. ASSUME NEW op, NEW c \in Code, Found(op, c), UNCHANGED <<file, writeOffset, up, since>>
      PROVE  RecordsInv'
  <2>1. readOffset' = readOffset
    BY <1>7 DEF Found
  <2> QED
    BY <1>0, <1>7, <2>1, RecordedStays DEF RecordsInv
<1>8. ASSUME NEW codes \in SUBSET Code, Invalidated(codes), up, UNCHANGED <<file, writeOffset>>
      PROVE  RecordsInv'
  <2> SUFFICES ASSUME NEW c \in Code PROVE Recorded(c)'
    BY DEF RecordsInv
  <2>1. CASE c \in codes
    <3>1. readOffset'[c] = writeOffset'[c] /\ since'[c] = <<>>
      BY <1>8, <2>1 DEF Invalidated
    <3>2. writeOffset'[c] <= Len(file'[c])
      BY <1>0, <1>8 DEF Recorded
    <3> QED
      BY <3>1, <3>2, RecordEmptied
  <2>2. CASE c \notin codes
    BY <1>0, <1>8, <2>2, RecordedStays DEF Invalidated
  <2> QED
    BY <2>1, <2>2
<1>9. ASSUME NEW c \in Code, GetIfFresh(c)
      PROVE  RecordsInv'
  <2>1. CASE Found("get", c)
    BY <1>7, <1>9, <2>1 DEF GetIfFresh
  <2>2. CASE ~Found("get", c)
    <3>1. /\ up /\ Missing(c) /\ readOffset' = [readOffset EXCEPT ![c] = writeOffset[c]]
          /\ UNCHANGED <<file, writeOffset, since>>
      BY <1>9, <2>2 DEF GetIfFresh
    <3>2. Recorded(c)'
      BY <1>0, <3>1, RecordGivenUp
    <3>3. \A d \in Code : d # c => readOffset'[d] = readOffset[d]
      BY <3>1 DEF TypeOK
    <3> QED
      BY <1>3, <3>1, <3>2, <3>3
  <2> QED
    BY <2>1, <2>2
<1>10. ASSUME NEW c \in Code, GetIfFreshOrAskDevice(c)
       PROVE  RecordsInv'
  BY <1>7, <1>8, <1>10 DEF GetIfFreshOrAskDevice
<1>11. ASSUME NEW codes \in SUBSET Code, NEW sendOk, AskDevice(codes, sendOk)
       PROVE  RecordsInv'
  BY <1>8, <1>11 DEF AskDevice
<1>12. CASE UNCHANGED vars
  BY <1>0, <1>12, RecordedStays DEF vars, RecordsInv
<1> QED
  BY <1>1, <1>2, <1>4, <1>5, <1>6, <1>9, <1>10, <1>11, <1>12 DEF Next

LEMMA RecordsHold == Spec => [](TypeOK /\ RecordsInv)
<1>1. Init => RecordsInv
  BY DEF Init, RecordsInv
<1>2. TypeOK /\ RecordsInv /\ [Next]_vars => RecordsInv'
  BY NextRecords
<1> QED
  BY <1>1, <1>2, TypeCorrect, PTL DEF Spec

\* A short append, a begin() that gives up or is not called, and any resets
\* leave a sign: a code whose write offset is the end of its file gives out
\* the module that was stored last since it was invalidated, or nothing
\* (ModuleProxy::storeModule, getIfFresh, invalidateModule).
THEOREM DamageAlwaysVisible == Spec => []DamageVisible
<1>1. TypeOK /\ RecordsInv => DamageVisible
  BY KeptRead DEF RecordsInv, Recorded, DamageVisible, Newest
<1> QED
  BY <1>1, RecordsHold, PTL

-----------------------------------------------------------------------------
(* What is handed out *)

Stored(c, m) == \E i \in DOMAIN since[c] : since[c][i] = m

\* Without faults every write offset is the end of its file, ...
Clean(c) == up => writeOffset[c] = Len(file[c])

CleanInv == up => \A c \in Code : writeOffset[c] = Len(file[c])

\* ... and what is kept in RAM or was just returned was stored since its code
\* was invalidated: every invalidation, of whatever code, clears the RAM.
Handed(c) ==
  up => /\ optLoadedModule # NoModule /\ optLoadedModule.code = c => Stored(c, optLoadedModule.pkt)
        /\ result.op \in {"get", "getOrAsk"} /\ result.ok /\ result.code = c => Stored(c, result.pkt)

HandedInv ==
  up => /\ optLoadedModule # NoModule => Stored(optLoadedModule.code, optLoadedModule.pkt)
        /\ result.op \in {"get", "getOrAsk"} /\ result.ok => Stored(result.code, result.pkt)

LEMMA NextClean ==
  ASSUME Faults = {}, TypeOK, CleanInv, [Next]_vars
  PROVE  CleanInv'
<1>0. \A c \in Code : up => writeOffset[c] = Len(file[c])
  BY DEF CleanInv
<1>1. CASE Setup
  <2>1. writeOffset' = [c \in Code |-> IF c <= MaxCode THEN Len(file[c]) ELSE 0]
    BY <1>1 DEF Setup
  <2>2. \A c \in Code : c <= MaxCode
    BY ProxyAssumption DEF Code
  <2>3. file' = file
    BY <1>1 DEF Setup
  <2> QED
    BY <2>1, <2>2, <2>3 DEF CleanInv
<1>2. CASE Reset
  BY <1>2 DEF Reset, CleanInv
<1>3. ASSUME NEW m \in Packet, StoreModule(m)
      PROVE  CleanInv'
  <2> SUFFICES ASSUME NEW c \in Code PROVE writeOffset'[c] = Len(file'[c])
    BY DEF CleanInv
  <2>1. FrameSize[m] \in 0 .. FrameSize[m] /\ CodeOf[m] \in Code
    BY FrameAssumption, ProxyAssumption
  <2>2. /\ Len(file'[CodeOf[m]]) = Len(file[CodeOf[m]]) + FrameSize[m]
        /\ c # CodeOf[m] => file'[c] = file[c]
    BY <1>3, <2>1, GrowType DEF StoreModule
  <2>3. /\ writeOffset'[CodeOf[m]] = writeOffset[CodeOf[m]] + FrameSize[m]
        /\ c # CodeOf[m] => writeOffset'[c] = writeOffset[c]
        /\ up
    BY <1>3, <2>1 DEF StoreModule, TypeOK
  <2> QED
    BY <1>0, <2>1, <2>2, <2>3
<1>4. ASSUME NEW m \in Packet, StoreRefused(m) \/ StoreShort(m)
      PROVE  CleanInv'
  BY <1>0, <1>4 DEF StoreRefused, StoreShort, CleanInv
<1>5. ASSUME NEW c \in Code, GetIfFresh(c) \/ GetIfFreshOrAskDevice(c)
      PROVE  CleanInv'
  BY <1>0, <1>5 DEF GetIfFresh, GetIfFreshOrAskDevice, CleanInv
<1>6. ASSUME NEW codes, NEW sendOk, AskDevice(codes, sendOk)
      PROVE  CleanInv'
  BY <1>0, <1>6 DEF AskDevice, CleanInv
<1>7. CASE UNCHANGED vars
  BY <1>0, <1>7 DEF vars, CleanInv
<1> QED
  BY <1>1, <1>2, <1>3, <1>4, <1>5, <1>6, <1>7 DEF Next

\* A read of a code finds what was stored, a read of another one finds its own.
LEMMA FoundStored ==
  ASSUME TypeOK, RecordsInv, up, NEW c, Handed(c), NEW op \in {"get", "getOrAsk"},
         NEW d \in Code, d = c => Clean(d), Found(op, d), UNCHANGED <<since, up>>
  PROVE  Handed(c)'
<1>1. CASE Loaded(d)
  <2>1. optLoadedModule # NoModule /\ optLoadedModule.code = d
    BY <1>1, ProxyAssumption DEF Loaded, NoModule, Code
  <2>2. d = c => Stored(c, optLoadedModule.pkt)
    BY <2>1 DEF Handed
  <2>3. /\ optLoadedModule' = optLoadedModule
        /\ result'.code = d /\ result'.pkt = optLoadedModule.pkt
    BY <1>1 DEF Found, Return
  <2> QED
    BY <2>1, <2>2, <2>3 DEF Handed, Stored
<1>2. CASE ~Loaded(d)
  <2>1. /\ optLoadedModule'.code = d /\ optLoadedModule'.pkt = FrameAt(d).pkt
        /\ result'.code = d /\ result'.pkt = FrameAt(d).pkt
        /\ readOffset[d] # writeOffset[d]
    BY <1>2 DEF Found, Return
  <2>2. d = c => Stored(c, FrameAt(c).pkt)
    <3> SUFFICES ASSUME d = c PROVE Stored(c, FrameAt(c).pkt)
      OBVIOUS
    <3>1. writeOffset[c] = Len(file[c]) /\ Kept(c) /\ c \in Code
      BY DEF Clean, RecordsInv, Recorded
    <3>2. FrameAt(c).pkt = Newest(c) /\ Len(since[c]) \in DOMAIN since[c]
      BY <2>1, <3>1, KeptRead
    <3> QED
      BY <3>2 DEF Stored, Newest
  <2> QED
    BY <2>1, <2>2 DEF Handed, Stored
<1> QED
  BY <1>1, <1>2

LEMMA NextHanded ==
  ASSUME TypeOK, RecordsInv, NEW c, c \in Code => Clean(c), Handed(c), [Next]_vars
  PROVE  Handed(c)'
<1>1. CASE Setup
  BY <1>1 DEF Setup, Handed, Return
<1>2. CASE Reset
  BY <1>2 DEF Reset, Handed
<1>3. ASSUME NEW m \in Packet, StoreModule(m) \/ StoreRefused(m) \/ StoreShort(m)
      PROVE  Handed(c)'
  <2>1. /\ up /\ optLoadedModule' = optLoadedModule
        /\ result'.op = "store"
    BY <1>3 DEF StoreModule, StoreRefused, StoreShort, Return
  <2>2. c \in Code => \A x : Stored(c, x) => Stored(c, x)'
    <3> SUFFICES ASSUME c \in Code, NEW i \in DOMAIN since[c]
                 PROVE  i \in DOMAIN since'[c] /\ since'[c][i] = since[c][i]
      BY DEF Stored
    <3>1. CASE since' = since
      BY <3>1
    <3>2. CASE StoreModule(m)
      <4>1. since[c] \in Seq(Packet)
        BY DEF TypeOK
      <4>2. since'[c] = since[c] \/ since'[c] = Append(since[c], m)
        BY <3>2 DEF StoreModule, TypeOK
      <4> QED
        BY <4>1, <4>2
    <3> QED
      BY <1>3, <3>1, <3>2 DEF StoreRefused, StoreShort
  <2>3. optLoadedModule # NoModule => optLoadedModule.code \in Code
    BY DEF TypeOK
  <2> QED
    BY <2>1, <2>2, <2>3 DEF Handed
<1>4. ASSUME NEW codes, Invalidated(codes), result'.ok = FALSE \/ result'.op = "ask"
      PROVE  Handed(c)'
  BY <1>4 DEF Invalidated, Handed
<1>5. ASSUME NEW d \in Code, GetIfFresh(d)
      PROVE  Handed(c)'
  <2>1. CASE Found("get", d)
    BY <1>5, <2>1, FoundStored DEF GetIfFresh
  <2>2. CASE ~Found("get", d)
    <3>1. /\ up /\ since' = since /\ result'.ok = FALSE
          /\ optLoadedModule' \in {NoModule, optLoadedModule}
      BY <1>5, <2>2 DEF GetIfFresh, Return
    <3> QED
      BY <3>1 DEF Handed, Stored
  <2> QED
    BY <2>1, <2>2
<1>6. ASSUME NEW d \in Code, GetIfFreshOrAskDevice(d)
      PROVE  Handed(c)'
  <2>1. CASE Found("getOrAsk", d) /\ UNCHANGED since
    BY <1>6, <2>1, FoundStored DEF GetIfFreshOrAskDevice
  <2>2. CASE Invalidated({d}) /\ Return("getOrAsk", d, FALSE, NoPacket)
    BY <1>4, <2>2 DEF Return
  <2> QED
    BY <1>6, <2>1, <2>2 DEF GetIfFreshOrAskDevice
<1>7. ASSUME NEW codes, NEW sendOk, AskDevice(codes, sendOk)
      PROVE  Handed(c)'
  BY <1>4, <1>7 DEF AskDevice, Return
<1>8. CASE UNCHANGED vars
  BY <1>8 DEF vars, Handed, Stored
<1> QED
  BY <1>1, <1>2, <1>3, <1>5, <1>6, <1>7, <1>8 DEF Next

LEMMA NextHandedAll ==
  ASSUME TypeOK, RecordsInv, CleanInv, HandedInv, [Next]_vars
  PROVE  HandedInv'
<1>1. ASSUME NEW c PROVE Handed(c)'
  <2>1. Handed(c) /\ (c \in Code => Clean(c))
    BY DEF HandedInv, Handed, CleanInv, Clean
  <2> QED
    BY <2>1, NextHanded
<1> QED
  BY <1>1 DEF Handed, HandedInv

LEMMA HandedHold ==
  ASSUME Faults = {}
  PROVE  Spec => [](TypeOK /\ RecordsInv /\ CleanInv /\ HandedInv)
<1>1. Init => CleanInv /\ HandedInv
  BY DEF Init, CleanInv, HandedInv
<1>2. TypeOK /\ RecordsInv /\ CleanInv /\ HandedInv /\ [Next]_vars => CleanInv' /\ HandedInv'
  BY NextClean, NextHandedAll
<1> QED
  BY <1>1, <1>2, RecordsHold, PTL DEF Spec

\* What the marks of a code say of it is enough: a code whose write offset is
\* the end of its file is served what was stored since it was invalidated, and
\* is served as soon as something was, whatever becomes of the files of other
\* codes and whether or not begin() is called.  So it is in the node as it is
\* built, which does not call begin(), from a card without files on until the
\* first reset (ModuleProxy::getIfFresh, storeModule, invalidateModule).
THEOREM CleanCodeIsServed ==
  ASSUME NEW c \in Code
  PROVE  Spec /\ []Clean(c) =>
           [](up => /\ result.op \in {"get", "getOrAsk"} /\ result.ok /\ result.code = c =>
                         Stored(c, result.pkt)
                    /\ since[c] # <<>> => ~Missing(c))
<1>1. Init => Handed(c)
  BY DEF Init, Handed
<1>2. TypeOK /\ RecordsInv /\ Clean(c) /\ Handed(c) /\ [Next]_vars => Handed(c)'
  BY NextHanded
<1>3. TypeOK /\ RecordsInv /\ Clean(c) /\ Handed(c) =>
        (up => /\ result.op \in {"get", "getOrAsk"} /\ result.ok /\ result.code = c =>
                    Stored(c, result.pkt)
               /\ since[c] # <<>> => ~Missing(c))
  <2> SUFFICES ASSUME TypeOK, RecordsInv, Clean(c), Handed(c), up
               PROVE  since[c] # <<>> => ~Missing(c)
    BY DEF Handed
  <2>1. writeOffset[c] = Len(file[c]) /\ Kept(c)
    BY DEF Clean, RecordsInv, Recorded
  <2>2. since[c] # <<>> => /\ readOffset[c] # writeOffset[c]
                           /\ FrameAt(c).size # 0 /\ FrameAt(c).pkt \in Packet
    BY <2>1, KeptRead
  <2> QED
    BY <2>2, FrameAssumption DEF Missing
<1> HIDE DEF Clean, Handed
<1> QED
  BY <1>1, <1>2, <1>3, RecordsHold, PTL DEF Spec

\* Where begin() is called and the storage has no faults, what is handed out
\* as fresh was stored since its code was last invalidated, and a read of a
\* code for which something was stored since then succeeds, for any codes and
\* any order of stores, reads, invalidations and resets
\* (ModuleProxy::getIfFresh, getIfFreshOrRequestFromDevice, requestModule).
THEOREM AlwaysServedSinceInvalidation ==
  ASSUME Faults = {}
  PROVE  Spec => []ServedSinceInvalidation
<1>1. TypeOK /\ RecordsInv /\ CleanInv /\ HandedInv => ServedSinceInvalidation
  <2> SUFFICES ASSUME TypeOK, RecordsInv, CleanInv, HandedInv, up
               PROVE  /\ result.op \in {"get", "getOrAsk"} /\ result.ok =>
                           Stored(result.code, result.pkt)
                      /\ \A c \in Code : since[c] # <<>> => ~Missing(c)
    BY DEF ServedSinceInvalidation, Stored
  <2>1. \A c \in Code : since[c] # <<>> =>
          /\ readOffset[c] # writeOffset[c]
          /\ FrameAt(c).size # 0 /\ FrameAt(c).pkt \in Packet
    BY KeptRead DEF RecordsInv, Recorded, CleanInv
  <2> QED
    BY <2>1, FrameAssumption DEF HandedInv, Missing
<1> QED
  BY <1>1, HandedHold, PTL

-----------------------------------------------------------------------------
(* The refinement of ModuleCache *)

\* What the files and offsets stand for.
Fresh == [c \in Code |-> IF up /\ IsModuleFresh(c) THEN FrameAt(c).pkt ELSE NoPacket]
InRam == IF up THEN optLoadedModule ELSE NoModule

\* It is the module stored last since the code was invalidated.
FreshIs == Fresh = [c \in Code |-> IF up /\ since[c] # <<>> THEN Newest(c) ELSE NoPacket]

CacheInv == TypeOK /\ RecordsInv /\ CleanInv /\ HandedInv /\ FreshIs

LEMMA CacheHolds ==
  ASSUME Faults = {}
  PROVE  Spec => []CacheInv
<1>1. TypeOK /\ RecordsInv /\ CleanInv => FreshIs
  <2> SUFFICES ASSUME TypeOK, RecordsInv, CleanInv, NEW c \in Code
               PROVE  (IF up /\ IsModuleFresh(c) THEN FrameAt(c).pkt ELSE NoPacket)
                      = IF up /\ since[c] # <<>> THEN Newest(c) ELSE NoPacket
    BY DEF FreshIs, Fresh
  <2>1. CASE up
    <3>1. writeOffset[c] = Len(file[c]) /\ Kept(c)
      BY <2>1 DEF CleanInv, RecordsInv, Recorded
    <3> QED
      BY <2>1, <3>1, KeptRead
  <2>2. CASE ~up
    BY <2>2
  <2> QED
    BY <2>1, <2>2
<1> QED
  BY <1>1, HandedHold, PTL DEF CacheInv

\* The steps of ModuleCache in terms of the files.
LEMMA StoreStep ==
  ASSUME NEW m \in Packet, up, UNCHANGED <<InRam, up>>,
         \/ Fresh' = [Fresh EXCEPT ![CodeOf[m]] = m] /\ Return("store", CodeOf[m], TRUE, m)
         \/ Fresh' = Fresh /\ Return("store", CodeOf[m], FALSE, m)
  PROVE  Cache!Next
  BY Zenon DEF Cache!Next, Cache!Store, Cache!Return, Cache!Code, Cache!NoModule,
               Return, Code, NoModule, InRam, Fresh

LEMMA GetStep ==
  ASSUME NEW c \in Code, NEW op \in {"get", "getOrAsk"}, NEW x,
         up, x = (IF InRam.code = c THEN InRam.pkt ELSE Fresh[c]), x # NoPacket,
         InRam' = [code |-> c, pkt |-> x], Return(op, c, TRUE, x), UNCHANGED <<Fresh, up>>
  PROVE  Cache!Next
  BY Zenon DEF Cache!Next, Cache!Get, Cache!Read, Cache!Return, Cache!Code, Cache!NoModule,
               Return, Code, NoModule, InRam, Fresh

LEMMA MissStep ==
  ASSUME NEW c \in Code, up, (IF InRam.code = c THEN InRam.pkt ELSE Fresh[c]) = NoPacket,
         \/ Return("get", c, FALSE, NoPacket) /\ UNCHANGED <<Fresh, InRam>>
         \/ /\ Return("getOrAsk", c, FALSE, NoPacket)
            /\ Fresh' = [d \in Code |-> IF d \in {c} THEN NoPacket ELSE Fresh[d]]
            /\ InRam' = NoModule,
         up' = up
  PROVE  Cache!Next
  BY Zenon DEF Cache!Next, Cache!Miss, Cache!Read, Cache!Invalidated, Cache!Return,
               Cache!Code, Cache!NoModule, Return, Code, NoModule, InRam, Fresh

LEMMA AskStep ==
  ASSUME NEW codes \in SUBSET Code \ {{}}, NEW ok \in BOOLEAN, up, Return("ask", 0, ok, NoPacket),
         Fresh' = [d \in Code |-> IF d \in codes THEN NoPacket ELSE Fresh[d]],
         InRam' = NoModule, up' = up
  PROVE  Cache!Next
  BY Zenon DEF Cache!Next, Cache!AskDevice, Cache!Invalidated, Cache!Return,
               Cache!Code, Cache!NoModule, Return, Code, NoModule, InRam, Fresh

LEMMA RestartStep ==
  ASSUME Fresh' = [c \in Code |-> NoPacket], InRam' = NoModule,
         \/ ~up /\ up' = TRUE /\ Return("begin", 0, TRUE, NoPacket)
         \/ up /\ up' = FALSE /\ Return("reset", 0, TRUE, NoPacket)
  PROVE  Cache!Next
  BY Zenon DEF Cache!Next, Cache!Setup, Cache!Reset, Cache!Clear, Cache!Return,
               Cache!Code, Cache!NoModule, Return, Code, NoModule, InRam, Fresh

\* A read that succeeds is a read of ModuleCache.
LEMMA FoundStep ==
  ASSUME CacheInv, CacheInv', up, NEW c \in Code, NEW op \in {"get", "getOrAsk"},
         Found(op, c), UNCHANGED <<up, since>>
  PROVE  Cache!Next
<1>1. Fresh' = Fresh
  BY DEF CacheInv, FreshIs, Newest
<1>2. CASE Loaded(c)
  <2>1. optLoadedModule \in [code : Code, pkt : Packet \cup {Garbled}] /\ optLoadedModule.code = c
    <3>1. optLoadedModule.code = c /\ c # 0
      BY <1>2, ProxyAssumption DEF Loaded, Code
    <3>2. optLoadedModule # NoModule
      BY <3>1 DEF NoModule
    <3> QED
      BY <3>1, <3>2 DEF CacheInv, TypeOK
  <2>2. optLoadedModule = [code |-> c, pkt |-> optLoadedModule.pkt] /\ optLoadedModule.pkt # NoPacket
    BY <2>1, FrameAssumption
  <2>3. optLoadedModule' = optLoadedModule /\ Return(op, c, TRUE, optLoadedModule.pkt)
    BY <1>2 DEF Found
  <2> QED
    BY <1>1, <2>1, <2>2, <2>3, GetStep DEF InRam
<1>3. CASE ~Loaded(c)
  <2>1. /\ FrameAt(c).pkt = Newest(c) /\ Newest(c) \in Packet /\ since[c] # <<>>
    BY <1>3, KeptRead DEF Found, CacheInv, RecordsInv, Recorded, CleanInv
  <2>2. Fresh[c] = Newest(c)
    BY <2>1 DEF CacheInv, FreshIs
  <2>3. /\ optLoadedModule' = [code |-> c, pkt |-> Newest(c)]
        /\ Return(op, c, TRUE, Newest(c))
    BY <1>3, <2>1 DEF Found
  <2>4. InRam.code # c /\ Newest(c) # NoPacket
    BY <1>3, <2>1, FrameAssumption DEF InRam, Loaded
  <2> QED
    BY <1>1, <2>2, <2>3, <2>4, GetStep DEF InRam
<1> QED
  BY <1>2, <1>3

\* A read that fails: nothing was stored since the code was invalidated.
LEMMA NothingStored ==
  ASSUME CacheInv, up, NEW c \in Code, Missing(c)
  PROVE  /\ since[c] = <<>> /\ readOffset[c] = writeOffset[c]
         /\ Fresh[c] = NoPacket /\ InRam.code # c
<1>1. since[c] = <<>> /\ readOffset[c] = writeOffset[c]
  BY KeptRead, FrameAssumption DEF Missing, CacheInv, RecordsInv, Recorded, CleanInv
<1> QED
  BY <1>1 DEF CacheInv, FreshIs, Missing, Loaded, InRam

LEMMA InvalidatedStep ==
  ASSUME CacheInv, CacheInv', up, up', NEW codes \in SUBSET Code, Invalidated(codes)
  PROVE  /\ Fresh' = [d \in Code |-> IF d \in codes THEN NoPacket ELSE Fresh[d]]
         /\ InRam' = NoModule
<1>1. \A d \in Code : since'[d] = IF d \in codes THEN <<>> ELSE since[d]
  BY DEF Invalidated
<1>2. \A d \in Code : Newest(d)' = IF d \in codes THEN Newest(d)' ELSE Newest(d)
  BY <1>1 DEF Newest
<1>3. /\ Fresh = [d \in Code |-> IF since[d] # <<>> THEN Newest(d) ELSE NoPacket]
      /\ Fresh' = [d \in Code |-> IF since'[d] # <<>> THEN Newest(d)' ELSE NoPacket]
  BY DEF CacheInv, FreshIs
<1> QED
  BY <1>1, <1>2, <1>3 DEF Invalidated, InRam

\* The files and the offsets behave as one fresh module per code and one
\* module in RAM: every step of ModuleProxy is a step of ModuleCache or
\* changes nothing that ModuleCache speaks of.
THEOREM ImplementsCache ==
  ASSUME Faults = {}
  PROVE  Spec => CacheSpec
<1>1. Init => Cache!Init
  BY DEF Init, Cache!Init, Cache!Code, Cache!NoModule, Code, NoModule
<1>2. CacheInv /\ CacheInv' /\ [Next]_vars => [Cache!Next]_Cache!vars
  <2> SUFFICES ASSUME CacheInv, CacheInv', [Next]_vars
               PROVE  Cache!Next \/ UNCHANGED <<Fresh, InRam, result, up>>
    BY DEF Cache!vars, Cache!NoModule, Cache!Code, Fresh, InRam, NoModule, Code
  <2>0. /\ Fresh = [c \in Code |-> IF up /\ since[c] # <<>> THEN Newest(c) ELSE NoPacket]
        /\ Fresh' = [c \in Code |-> IF up' /\ since'[c] # <<>> THEN Newest(c)' ELSE NoPacket]
    BY DEF CacheInv, FreshIs
  <2>1. CASE Setup
    <3>1. /\ ~up /\ up' = TRUE /\ Return("begin", 0, TRUE, NoPacket)
          /\ optLoadedModule' = NoModule /\ \A c \in Code : since'[c] = <<>>
      BY <2>1 DEF Setup
    <3>2. Fresh' = [c \in Code |-> NoPacket]
      BY <2>0, <3>1
    <3> QED
      BY <3>1, <3>2, RestartStep DEF InRam
  <2>2. CASE Reset
    <3>1. up /\ up' = FALSE /\ Return("reset", 0, TRUE, NoPacket)
      BY <2>2 DEF Reset
    <3>2. Fresh' = [c \in Code |-> NoPacket]
      BY <2>0, <3>1
    <3> QED
      BY <3>1, <3>2, RestartStep DEF InRam
  <2>3. ASSUME NEW m \in Packet, StoreModule(m)
        PROVE  Cache!Next
    <3>1. up /\ UNCHANGED <<optLoadedModule, up>> /\ Return("store", CodeOf[m], TRUE, m)
      BY <2>3 DEF StoreModule
    <3>2. CodeOf[m] \in Code /\ since \in [Code -> Seq(Packet)]
      BY ProxyAssumption DEF CacheInv, TypeOK
    <3>3. /\ since'[CodeOf[m]] = Append(since[CodeOf[m]], m)
          /\ \A c \in Code : c # CodeOf[m] => since'[c] = since[c]
      BY <2>3, <3>2 DEF StoreModule
    <3>4. since'[CodeOf[m]] # <<>> /\ Newest(CodeOf[m])' = m
      <4>1. since[CodeOf[m]] \in Seq(Packet)
        BY <3>2
      <4> QED
        BY <3>3, <4>1 DEF Newest
    <3>5. \A c \in Code : c # CodeOf[m] => Newest(c)' = Newest(c)
      BY <3>3 DEF Newest
    <3>6. Fresh' = [Fresh EXCEPT ![CodeOf[m]] = m]
      BY <2>0, <3>1, <3>2, <3>3, <3>4, <3>5
    <3> QED
      BY <3>1, <3>6, StoreStep DEF InRam
  <2>4. ASSUME NEW m \in Packet, StoreRefused(m) \/ StoreShort(m)
        PROVE  Cache!Next
    <3>1. /\ up /\ UNCHANGED <<optLoadedModule, up, since>>
          /\ Return("store", CodeOf[m], FALSE, m)
      BY <2>4 DEF StoreRefused, StoreShort
    <3>2. Fresh' = Fresh
      BY <2>0, <3>1 DEF Newest
    <3> QED
      BY <3>1, <3>2, StoreStep DEF InRam
  <2>5. ASSUME NEW c \in Code, GetIfFresh(c)
        PROVE  Cache!Next
    <3>1. CASE Found("get", c)
      BY <2>5, <3>1, FoundStep DEF GetIfFresh
    <3>2. CASE ~Found("get", c)
      <4>1. /\ up /\ Missing(c) /\ UNCHANGED <<up, since>> /\ Return("get", c, FALSE, NoPacket)
            /\ readOffset[c] = writeOffset[c] => optLoadedModule' = optLoadedModule
        BY <2>5, <3>2 DEF GetIfFresh
      <4>2. readOffset[c] = writeOffset[c] /\ Fresh[c] = NoPacket /\ InRam.code # c
        BY <4>1, NothingStored
      <4>3. Fresh' = Fresh
        BY <2>0, <4>1 DEF Newest
      <4> QED
        BY <4>1, <4>2, <4>3, MissStep DEF InRam
    <3> QED
      BY <3>1, <3>2
  <2>6. ASSUME NEW c \in Code, GetIfFreshOrAskDevice(c)
        PROVE  Cache!Next
    <3>1. CASE Found("getOrAsk", c) /\ UNCHANGED since
      BY <2>6, <3>1, FoundStep DEF GetIfFreshOrAskDevice
    <3>2. CASE Missing(c) /\ Invalidated({c}) /\ Return("getOrAsk", c, FALSE, NoPacket)
      <4>1. up /\ up' = up
        BY <2>6 DEF GetIfFreshOrAskDevice
      <4>2. Fresh[c] = NoPacket /\ InRam.code # c
        BY <3>2, <4>1, NothingStored
      <4>3. /\ Fresh' = [d \in Code |-> IF d \in {c} THEN NoPacket ELSE Fresh[d]]
            /\ InRam' = NoModule
        BY <3>2, <4>1, InvalidatedStep
      <4> QED
        BY <3>2, <4>1, <4>2, <4>3, MissStep
    <3> QED
      BY <2>6, <3>1, <3>2 DEF GetIfFreshOrAskDevice
  <2>7. ASSUME NEW codes \in SUBSET Code \ {{}}, NEW sendOk \in BOOLEAN, AskDevice(codes, sendOk)
        PROVE  Cache!Next
    <3>1. up /\ up' = up /\ Invalidated(codes) /\ Return("ask", 0, sendOk, NoPacket)
      BY <2>7 DEF AskDevice
    <3>2. /\ Fresh' = [d \in Code |-> IF d \in codes THEN NoPacket ELSE Fresh[d]]
          /\ InRam' = NoModule
      BY <3>1, InvalidatedStep
    <3> QED
      BY <3>1, <3>2, AskStep
  <2>8. CASE UNCHANGED vars
    <3>1. UNCHANGED <<up, since, optLoadedModule, result>>
      BY <2>8 DEF vars
    <3>2. Fresh' = Fresh
      BY <2>0, <3>1 DEF Newest
    <3> QED
      BY <3>1, <3>2 DEF InRam
  <2> QED
    BY <2>1, <2>2, <2>3, <2>4, <2>5, <2>6, <2>7, <2>8 DEF Next
<1> QED
  BY <1>1, <1>2, CacheHolds, PTL DEF Spec, CacheSpec, Cache!Spec
=============================================================================
