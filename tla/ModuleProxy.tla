---------------------------- MODULE ModuleProxy -----------------------------
(***************************************************************************)
(* The module cache of the node (src/lib/core/ModuleProxy, the variant     *)
(* that is kept on the SD card).  What a device answers is appended, one   *)
(* BinaryFrame per module, to the file of the module's code; two offsets   *)
(* in RAM say which part of the file is fresh.  The module read last is    *)
(* kept in RAM, in optLoadedModule_.                                       *)
(*                                                                         *)
(* setup() constructs the proxy, so that every offset is 0, and does not   *)
(* call its begin(), which would move them to the ends of the files.       *)
(***************************************************************************)
EXTENDS BinaryFrame

CONSTANTS
  MaxCode,  \* the module codes are 1 .. MaxCode
  CodeOf,   \* which_module of each payload
  Faults,   \* storage faults that do not reset the board, and "no_begin"
  MaxFile   \* bound: no file grows beyond this, no offset moves beyond it

Code == 1 .. MaxCode

Fault == {"short_write", "create_fails", "no_begin"}

ASSUME ProxyAssumption ==
  /\ MaxCode \in Nat \ {0}
  /\ CodeOf \in [Packet -> Code]
  /\ Faults \subseteq Fault
  /\ MaxFile \in Nat

VARIABLES
  file,             \* the cells of each code's file
  writeOffset,      \* writeOffset_
  readOffset,       \* readOffset_
  optLoadedModule,  \* optLoadedModule_
  up,               \* setup() is done
  result,           \* the last call, whether it succeeded, what it returned or stored
  since             \* history: what was stored since the code was invalidated

vars == <<file, writeOffset, readOffset, optLoadedModule, up, result, since>>

NoModule == [code |-> 0, pkt |-> NoPacket]

Return(op, c, ok, m) == result' = [op |-> op, code |-> c, ok |-> ok, pkt |-> m]

Init ==
  /\ file = [c \in Code |-> <<>>]
  /\ writeOffset = [c \in Code |-> 0]
  /\ readOffset = [c \in Code |-> 0]
  /\ optLoadedModule = NoModule
  /\ up = FALSE
  /\ result = [op |-> "reset", code |-> 0, ok |-> TRUE, pkt |-> NoPacket]
  /\ since = [c \in Code |-> <<>>]

\* The constructor, then begin() where setup() calls it; prod_setup() does not.
\* begin() gives up when the card does not start (last = 0) or the file of code
\* last + 1 is missing and cannot be created: the offsets beyond stay 0.
Setup ==
  /\ ~up
  /\ \E last \in 0 .. MaxCode :
       LET Started == [c \in Code |-> IF c <= last THEN Len(file[c]) ELSE 0]
       IN /\ \/ last = MaxCode
             \/ last = 0 /\ "no_begin" \in Faults
             \/ /\ last < MaxCode /\ "create_fails" \in Faults
                /\ last = 0 \/ file[last + 1] = <<>>
          /\ writeOffset' = Started
          /\ readOffset' = Started
          /\ Return("begin", 0, last = MaxCode, NoPacket)
  /\ up' = TRUE
  /\ optLoadedModule' = NoModule
  /\ since' = [c \in Code |-> <<>>]
  /\ UNCHANGED file

-----------------------------------------------------------------------------
\* Cells appended by a write that stops after k of them.
Grow(m, k) == [file EXCEPT ![CodeOf[m]] = @ \o SubSeq(Frame(m), 1, k)]

HasRoom(m) ==
  LET c == CodeOf[m]
  IN Len(file[c]) + FrameSize[m] <= MaxFile /\ writeOffset[c] + FrameSize[m] <= MaxFile

\* Mutant of StoreModule: the read offset stays where it was.
StoreModuleKeepsOld(m) ==
  LET c == CodeOf[m]
  IN /\ up
     /\ FrameSize[m] <= BufferSize
     /\ HasRoom(m)
     /\ file' = Grow(m, FrameSize[m])
     /\ writeOffset' = [writeOffset EXCEPT ![c] = @ + FrameSize[m]]
     /\ since' = [since EXCEPT ![c] = Append(@, m)]
     /\ Return("store", c, TRUE, m)
     /\ UNCHANGED <<readOffset, optLoadedModule, up>>

\* Mutant of StoreModule: the write offset moves before the read offset.
StoreModuleSwapped(m) ==
  LET c == CodeOf[m]
  IN /\ up
     /\ FrameSize[m] <= BufferSize
     /\ HasRoom(m)
     /\ file' = Grow(m, FrameSize[m])
     /\ writeOffset' = [writeOffset EXCEPT ![c] = @ + FrameSize[m]]
     /\ readOffset' = [readOffset EXCEPT ![c] = writeOffset'[c]]
     /\ since' = [since EXCEPT ![c] = Append(@, m)]
     /\ Return("store", c, TRUE, m)
     /\ UNCHANGED <<optLoadedModule, up>>

\* storeModule(): the new record is the fresh one.  optLoadedModule_ keeps
\* what it holds.
StoreModule(m) ==
  LET c == CodeOf[m]
  IN /\ up
     /\ FrameSize[m] <= BufferSize
     /\ HasRoom(m)
     /\ file' = Grow(m, FrameSize[m])
     /\ readOffset' = [readOffset EXCEPT ![c] = writeOffset[c]]
     /\ writeOffset' = [writeOffset EXCEPT ![c] = @ + FrameSize[m]]
     /\ since' = [since EXCEPT ![c] = Append(@, m)]
     /\ Return("store", c, TRUE, m)
     /\ UNCHANGED <<optLoadedModule, up>>

\* The record is too large for the buffer, or the file does not open.
StoreRefused(m) ==
  /\ up
  /\ Return("store", CodeOf[m], FALSE, m)
  /\ UNCHANGED <<file, writeOffset, readOffset, optLoadedModule, up, since>>

\* Mutant of StoreShort: the failed store takes over the length of the file.
StoreShortResync(m) ==
  /\ up
  /\ "short_write" \in Faults
  /\ FrameSize[m] <= BufferSize
  /\ HasRoom(m)
  /\ \E k \in 1 .. FrameSize[m] - 1 : file' = Grow(m, k)
  /\ writeOffset' = [writeOffset EXCEPT ![CodeOf[m]] = Len(file'[CodeOf[m]])]
  /\ Return("store", CodeOf[m], FALSE, m)
  /\ UNCHANGED <<readOffset, optLoadedModule, up, since>>

\* The append fails after its first k cells, which stay in the file.
StoreShort(m) ==
  /\ up
  /\ "short_write" \in Faults
  /\ FrameSize[m] <= BufferSize
  /\ HasRoom(m)
  /\ \E k \in 1 .. FrameSize[m] - 1 : file' = Grow(m, k)
  /\ Return("store", CodeOf[m], FALSE, m)
  /\ UNCHANGED <<writeOffset, readOffset, optLoadedModule, up, since>>

-----------------------------------------------------------------------------
\* isModuleFresh() compares with <, getIfFresh() with =.
IsModuleFresh(c) == readOffset[c] < writeOffset[c]

FrameAt(c) == Unwrap(ReadRegion(file[c], readOffset[c]))

Loaded(c) == optLoadedModule.code = c

\* Mutant of Found: neither the offsets nor the frame are looked at.
FoundUnchecked(op, c) ==
  \/ /\ Loaded(c)
     /\ Return(op, c, TRUE, optLoadedModule.pkt)
     /\ UNCHANGED <<optLoadedModule, readOffset>>
  \/ /\ ~Loaded(c)
     /\ optLoadedModule' = [code |-> c, pkt |-> FrameAt(c).pkt]
     /\ Return(op, c, TRUE, FrameAt(c).pkt)
     /\ UNCHANGED readOffset

\* getIfFresh() finds the module in RAM, or reads it.  The pieces of a
\* garbled record may happen to decode.
Found(op, c) ==
  \/ /\ Loaded(c)
     /\ Return(op, c, TRUE, optLoadedModule.pkt)
     /\ UNCHANGED <<optLoadedModule, readOffset>>
  \/ /\ ~Loaded(c)
     /\ readOffset[c] # writeOffset[c]
     /\ FrameAt(c).size # 0
     /\ optLoadedModule' = [code |-> c, pkt |-> FrameAt(c).pkt]
     /\ Return(op, c, TRUE, FrameAt(c).pkt)
     /\ UNCHANGED readOffset

\* getIfFresh() has nothing to return.
Missing(c) ==
  /\ ~Loaded(c)
  /\ \/ readOffset[c] = writeOffset[c]
     \/ FrameAt(c).size = 0
     \/ FrameAt(c).pkt = Garbled

\* getIfFresh(): a record that cannot be read is given up; one that does not
\* decode has already replaced the module in RAM.
GetIfFresh(c) ==
  /\ up
  /\ \/ Found("get", c)
     \/ /\ Missing(c)
        /\ readOffset' = [readOffset EXCEPT ![c] = writeOffset[c]]
        /\ optLoadedModule' = IF readOffset[c] # writeOffset[c] /\ FrameAt(c).size # 0
                              THEN NoModule
                              ELSE optLoadedModule
        /\ Return("get", c, FALSE, NoPacket)
  /\ UNCHANGED <<file, writeOffset, up, since>>

\* Mutant of Invalidated: the module in RAM survives.
InvalidatedOnCard(codes) ==
  /\ readOffset' = [c \in Code |-> IF c \in codes THEN writeOffset[c] ELSE readOffset[c]]
  /\ since' = [c \in Code |-> IF c \in codes THEN <<>> ELSE since[c]]
  /\ UNCHANGED optLoadedModule

\* invalidateModule() for each of the codes: whatever its code, the module in
\* RAM goes too.
Invalidated(codes) ==
  /\ readOffset' = [c \in Code |-> IF c \in codes THEN writeOffset[c] ELSE readOffset[c]]
  /\ since' = [c \in Code |-> IF c \in codes THEN <<>> ELSE since[c]]
  /\ optLoadedModule' = NoModule

\* getIfFreshOrRequestFromDevice(), getIfFreshOrSetOnDevice(): when there is
\* nothing to return, a packet to the device goes out and the code is invalid.
GetIfFreshOrAskDevice(c) ==
  /\ up
  /\ \/ Found("getOrAsk", c) /\ UNCHANGED since
     \/ /\ Missing(c)
        /\ Invalidated({c})
        /\ Return("getOrAsk", c, FALSE, NoPacket)
  /\ UNCHANGED <<file, writeOffset, up>>

\* requestModule(), requestMultipleModules(), sendModule(): the codes are
\* invalidated before the packet is sent, whether or not it can be sent.
AskDevice(codes, sendOk) ==
  /\ up
  /\ Invalidated(codes)
  /\ Return("ask", 0, sendOk, NoPacket)
  /\ UNCHANGED <<file, writeOffset, up>>

\* The board resets, maybe in the middle of an append.
Reset ==
  /\ up
  /\ up' = FALSE
  /\ \/ UNCHANGED file
     \/ \E m \in Packet :
          /\ FrameSize[m] <= BufferSize
          /\ HasRoom(m)
          /\ \E k \in 1 .. FrameSize[m] : file' = Grow(m, k)
  /\ Return("reset", 0, TRUE, NoPacket)
  /\ UNCHANGED <<writeOffset, readOffset, optLoadedModule, since>>

Next ==
  \/ Setup
  \/ Reset
  \/ \E m \in Packet : StoreModule(m) \/ StoreRefused(m) \/ StoreShort(m)
  \/ \E c \in Code : GetIfFresh(c) \/ GetIfFreshOrAskDevice(c)
  \/ \E codes \in SUBSET Code \ {{}}, sendOk \in BOOLEAN : AskDevice(codes, sendOk)

Spec == Init /\ [][Next]_vars

-----------------------------------------------------------------------------
Op == {"reset", "begin", "store", "get", "getOrAsk", "ask"}

\* The types of the state.
TypeOK ==
  /\ file \in [Code -> Seq(Cell)]
  /\ writeOffset \in [Code -> Nat]
  /\ readOffset \in [Code -> Nat]
  /\ optLoadedModule \in {NoModule} \cup [code : Code, pkt : Packet \cup {Garbled}]
  /\ up \in BOOLEAN
  /\ result \in [op : Op, code : 0 .. MaxCode, ok : BOOLEAN,
                 pkt : Packet \cup {NoPacket, Garbled}]
  /\ since \in [Code -> Seq(Packet)]

\* What is handed out as fresh was stored after the code was last
\* invalidated, in the life of the board that asks: never an answer to an
\* earlier request, never a record of before a reset, however stores, reads
\* and invalidations of several codes are interleaved. And the node does not
\* wait in vain for a device that has answered: while something was stored
\* since a code was invalidated, a read of it succeeds.
ServedSinceInvalidation ==
  up =>
    /\ result.op \in {"get", "getOrAsk"} /\ result.ok =>
         \E i \in DOMAIN since[result.code] : since[result.code][i] = result.pkt
    /\ \A c \in Code : since[c] # <<>> => ~Missing(c)

\* Neither a storage fault nor a begin() that was not called can hide: as long
\* as the write offset of a code is the end of its file, the record at its
\* read offset is the one stored last.
DamageVisible ==
  up => \A c \in Code :
          writeOffset[c] = Len(file[c]) =>
            IF since[c] = <<>>
            THEN ~IsModuleFresh(c)
            ELSE IsModuleFresh(c) => FrameAt(c).pkt = since[c][Len(since[c])]

\* The files and offsets amount to one fresh module per code.
Cache == INSTANCE ModuleCache WITH
           fresh  <- [c \in Code |-> IF up /\ IsModuleFresh(c) THEN FrameAt(c).pkt
                                                               ELSE NoPacket],
           loaded <- IF up THEN optLoadedModule ELSE NoModule

CacheSpec == Cache!Spec
=============================================================================
