---------------------------- MODULE IridiumPort ----------------------------
(***************************************************************************)
(* IridiumPort: messages wait at the gateway of the satellites.  A session *)
(* of the modem sends at most one packet and fetches at most one message,  *)
(* and tells how many are waiting still.  hasRingAsserted() is the alert   *)
(* that something waits; it is not repeated.                               *)
(*                                                                         *)
(* rxBufferSize is passed to the modem's library by reference: it holds    *)
(* the room in the buffer before a session, and the size of the message    *)
(* after it.                                                               *)
(***************************************************************************)
EXTENDS Ports

VARIABLES
  gateway,  \* messages that wait, oldest first
  alert,    \* the ring alert is asserted
  known,    \* how many wait, as the last session has told
  room      \* rxBufferSize

iridiumVars == <<gateway, alert, known, room>>

TypeOKIridium ==
  /\ gateway \in Seq(Message)
  /\ alert \in BOOLEAN
  /\ known \in 0 .. Len(Inbound[Iridium])
  /\ room \in Nat

InitIridium == gateway = <<>> /\ alert = FALSE /\ known = 0 /\ room = 0

-----------------------------------------------------------------------------
(* The gateway and the modem. *)

\* A message arrives at the gateway, which rings the node, or fails to.
MessageArrives(m) ==
  /\ IsNext(Iridium, m)
  /\ gateway' = Append(gateway, m)
  /\ Becomes(m, "waiting")
  /\ alert' \in {TRUE, alert}
  /\ UNCHANGED <<at, call, out, intact, queue, faults, known, room>>

\* A session fetches nothing, or it fetches a message that has room, or one
\* that has not, which is lost with an error, or it fails.
FetchesNothing ==
  /\ gateway = <<>>
  /\ known' = 0
  /\ UNCHANGED <<gateway, alert, queue, fate, faults>>

Takes ==
  /\ gateway # <<>>
  /\ gateway' = Tail(gateway)
  /\ known' = Len(gateway) - 1
  /\ alert' = FALSE

Fetches(r) ==
  /\ Takes
  /\ Size[Head(gateway)] <= r
  /\ Store(Iridium, Head(gateway))

Overflows(r) ==
  /\ Takes
  /\ Size[Head(gateway)] > r
  /\ Becomes(Head(gateway), "overflow")
  /\ UNCHANGED <<queue, faults>>

SessionFails == Fault /\ UNCHANGED <<gateway, alert, known, queue, fate>>

Received == IF gateway = <<>> THEN 0 ELSE Size[Head(gateway)]

-----------------------------------------------------------------------------
(* The port. *)

\* Mutant of IridiumSync: the room is what the last session has left in it.
IridiumSyncStaleRoom ==
  /\ at = "iridium"
  /\ call' = "sync"
  /\ alert' = FALSE
  /\ at' = IF alert \/ known > 0 THEN "receive" ELSE "synced"
  /\ UNCHANGED <<out, intact, queue, fate, faults, gateway, known, room>>

\* sync(): an alert or a known message makes it receive. The alert is over
\* when it has been seen.
IridiumSync ==
  /\ at = "iridium"
  /\ call' = "sync"
  /\ alert' = FALSE
  /\ IF alert \/ known > 0
       THEN at' = "receive" /\ room' = Capacity
       ELSE at' = "synced" /\ UNCHANGED room
  /\ UNCHANGED <<out, intact, queue, fate, faults, gateway, known>>

\* A session is over: the loop of _receiveIncomingMessages() goes on, with
\* this much room, while messages are known to wait.
MoreOrReturn(r) ==
  IF known' > 0
    THEN at' = "receive" /\ room' = r /\ UNCHANGED intact
    ELSE Return /\ room' = 0

\* _receiveIncomingMessages(): one turn of its loop. A failed session ends it.
Receive ==
  /\ at = "receive"
  /\ \/ (FetchesNothing \/ Fetches(room)) /\ MoreOrReturn(Received)
     \/ (Overflows(room) \/ SessionFails) /\ Return /\ room' = 0
  /\ UNCHANGED <<call, out>>

\* send(): a session with the packet, and the loop if messages are waiting.
IridiumSend ==
  /\ at = "sbdSend"
  /\ \/ (FetchesNothing \/ Fetches(Capacity)) /\ MoreOrReturn(Capacity)
     \/ (Overflows(Capacity) \/ SessionFails) /\ Return /\ room' = 0
  /\ UNCHANGED <<call, out>>
=============================================================================
