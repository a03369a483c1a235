----------------------------- MODULE PacketFifo -----------------------------
(***************************************************************************)
(* What the packet queue of the node promises its callers, the ports that  *)
(* push received packets and the router that peeks and skips them: one     *)
(* first-in first-out queue per port.  A restart of the board empties      *)
(* every queue, because PacketQueue::begin moves all offsets to the end of *)
(* the files.  PacketQueue.tla, the file with its three offsets, is shown  *)
(* to implement this specification.                                        *)
(***************************************************************************)
EXTENDS Naturals, Sequences

CONSTANTS
  MaxPort,    \* ports are numbered from 1 to MaxPort
  Packet,     \* the payloads that may be pushed
  FrameSize,  \* the length of the frame that holds each payload
  Overhead,   \* header and footer of a frame
  Rooms,      \* the sizes of the callers' output buffers
  PortLists,  \* the lists of ports the ...FromPorts calls are given
  NoPacket    \* what a call returns when it returns no payload

VARIABLES
  up,      \* the queue has been initialised since the last reset
  queue,   \* the packets each port still holds, oldest first
  peeked,  \* the head of the port has been peeked and not consumed since
  result   \* the last call, whether it succeeded and what it returned

fifoVars == <<up, queue, peeked, result>>

Port == 1 .. MaxPort

Return(op, p, ok, m) == result' = [op |-> op, port |-> p, ok |-> ok, pkt |-> m]

Fits(m, room) == FrameSize[m] - Overhead <= room

-----------------------------------------------------------------------------
Init ==
  /\ up = FALSE
  /\ queue = [p \in Port |-> <<>>]
  /\ peeked = [p \in Port |-> FALSE]
  /\ result = [op |-> "reset", port |-> 0, ok |-> TRUE, pkt |-> NoPacket]

\* A push that the storage cannot complete is refused and leaves no trace.
Push(p, m) ==
  /\ up
  /\ \/ /\ queue' = [queue EXCEPT ![p] = Append(@, m)]
        /\ Return("push", p, TRUE, NoPacket)
     \/ UNCHANGED queue /\ Return("push", p, FALSE, NoPacket)
  /\ UNCHANGED <<up, peeked>>

Peek(op, p, room) ==
  /\ up
  /\ queue[p] # <<>> /\ Fits(Head(queue[p]), room)
  /\ peeked' = [peeked EXCEPT ![p] = TRUE]
  /\ Return(op, p, TRUE, Head(queue[p]))
  /\ UNCHANGED <<up, queue>>

Pop(op, p, room) ==
  /\ up
  /\ queue[p] # <<>> /\ Fits(Head(queue[p]), room)
  /\ queue' = [queue EXCEPT ![p] = Tail(@)]
  /\ peeked' = [peeked EXCEPT ![p] = FALSE]
  /\ Return(op, p, TRUE, Head(queue[p]))
  /\ UNCHANGED up

\* Peek and pop answer nothing only when the port is empty or its head does
\* not fit the caller's buffer: a waiting packet is never unreadable.
Nothing(op, p, room) ==
  /\ up
  /\ queue[p] # <<>> => ~Fits(Head(queue[p]), room)
  /\ Return(op, p, FALSE, NoPacket)
  /\ UNCHANGED <<up, queue, peeked>>

\* The ...FromPorts calls serve the first port of the list that holds a packet.
AnyFromPorts(ports, room) ==
  \E i \in DOMAIN ports :
    /\ \A j \in 1 .. i - 1 : queue[ports[j]] = <<>>
    /\ queue[ports[i]] # <<>>
    /\ \/ Peek("peekAny", ports[i], room) \/ Nothing("peekAny", ports[i], room)
       \/ Pop("popAny", ports[i], room) \/ Nothing("popAny", ports[i], room)

NoneFromPorts(ports) ==
  /\ up
  /\ \A j \in DOMAIN ports : queue[ports[j]] = <<>>
  /\ \E op \in {"peekAny", "popAny"} : Return(op, 0, FALSE, NoPacket)
  /\ UNCHANGED <<up, queue, peeked>>

\* A packet can be skipped only after it has been peeked.
Skip(p) ==
  /\ up
  /\ peeked[p]
  /\ queue' = [queue EXCEPT ![p] = Tail(@)]
  /\ peeked' = [peeked EXCEPT ![p] = FALSE]
  /\ Return("skip", p, TRUE, NoPacket)
  /\ UNCHANGED up

SkipRefused(p) ==
  /\ up
  /\ ~peeked[p]
  /\ Return("skip", p, FALSE, NoPacket)
  /\ UNCHANGED <<up, queue, peeked>>

Clear(p) ==
  /\ up
  /\ \/ /\ queue' = [queue EXCEPT ![p] = <<>>]
        /\ peeked' = [peeked EXCEPT ![p] = FALSE]
        /\ Return("clear", p, TRUE, NoPacket)
     \/ UNCHANGED <<queue, peeked>> /\ Return("clear", p, FALSE, NoPacket)
  /\ UNCHANGED up

Begin ==
  /\ ~up
  /\ \E ok \in BOOLEAN : up' = ok /\ Return("begin", 0, ok, NoPacket)
  /\ UNCHANGED <<queue, peeked>>

Reset ==
  /\ up
  /\ up' = FALSE
  /\ queue' = [p \in Port |-> <<>>]
  /\ peeked' = [p \in Port |-> FALSE]
  /\ Return("reset", 0, TRUE, NoPacket)

Next ==
  \/ \E p \in Port :
       \/ \E m \in Packet : Push(p, m)
       \/ \E room \in Rooms :
            \/ Peek("peek", p, room) \/ Nothing("peek", p, room)
            \/ Pop("pop", p, room) \/ Nothing("pop", p, room)
       \/ Skip(p) \/ SkipRefused(p)
       \/ Clear(p)
  \/ \E ports \in PortLists :
       \/ \E room \in Rooms : AnyFromPorts(ports, room)
       \/ NoneFromPorts(ports)
  \/ Begin
  \/ Reset

Spec == Init /\ [][Next]_fifoVars
=============================================================================
