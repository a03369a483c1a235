------------------------------- MODULE Ports -------------------------------
(***************************************************************************)
(* What the ports of a node share: one thread, which is at one place of    *)
(* the router or of a port; the queue of received packets, by its promise  *)
(* (PacketFifo); and one buffer (SharedMemory::tmpBuffer()), in which a    *)
(* packet is encoded before it is sent and into which the ports receive.   *)
(*                                                                         *)
(* A message is a packet on its way to this node, and comes once, through  *)
(* one port.  Those of a port come in a fixed order, and fate says what    *)
(* became of each: it is a history, and no action depends on it but those  *)
(* of the world outside.                                                   *)
(***************************************************************************)
EXTENDS Naturals, Sequences, SequencesExt

CONSTANTS
  Serial, Iridium, Gsm,  \* the ports of the production build
  Inbound,       \* the messages that come through each port, in order
  Size,          \* of each message
  Capacity,      \* of the shared buffer
  FrameCapacity, \* of the buffer of the queue, in payload
  Foreign,       \* messages for another node
  Broken,        \* messages that do not decode, or have no routing
  Reports,       \* packets of this node's own
  Nothing,       \* no packet
  MaxFaults      \* bound: lost connections, failed sessions and resets

Port == {Serial, Iridium, Gsm}
Message == UNION {ToSet(Inbound[p]) : p \in Port}

ASSUME PortsAssumption ==
  /\ Serial # Iridium /\ Iridium # Gsm /\ Gsm # Serial
  /\ Inbound \in [Port -> Seq(Message)]
  /\ \A p \in Port : IsInjective(Inbound[p])
  /\ \A p, q \in Port : p # q => ToSet(Inbound[p]) \cap ToSet(Inbound[q]) = {}
  /\ Size \in [Message -> Nat \ {0}]
  /\ Capacity \in Nat /\ FrameCapacity \in Nat /\ MaxFaults \in Nat
  /\ Foreign \cup Broken \subseteq Message /\ Foreign \cap Broken = {}

VARIABLES
  at,      \* where the thread is; "idle" between two runs
  call,    \* on whose behalf a port is sending or receiving
  out,     \* the packet that is being sent
  intact,  \* the shared buffer holds the encoding of out
  queue,   \* the received packets of each port, oldest first
  fate,    \* what has become of each message
  faults   \* the number of faults so far

shared == <<at, call, out, intact, queue, fate, faults>>

Fate == {"unsent", "waiting", "stored", "handled",
         "refused", "overflow", "expired", "unheard", "reset"}

Place == {"idle", "serial", "iridium", "gsm", "synced", "peek", "relay", "relayed", "runner",
          "answered", "reports", "reported", "serialSend", "sbdSend", "receive",
          "gsmSend", "dialling", "connecting", "polling", "publish", "ending"}

TypeOKShared ==
  /\ at \in Place /\ call \in {"none", "sync", "relay", "answer", "report"}
  /\ out \in Message \cup Reports \cup {Nothing}
  /\ intact \in BOOLEAN
  /\ queue \in [Port -> Seq(Message)]
  /\ fate \in [Message -> Fate]
  /\ faults \in 0 .. MaxFaults

InitShared ==
  /\ at = "idle" /\ call = "none" /\ out = Nothing /\ intact = FALSE
  /\ queue = [p \in Port |-> <<>>]
  /\ fate = [m \in Message |-> "unsent"]
  /\ faults = 0

\* The next message that the world sends through a port.
IsNext(p, m) ==
  /\ m \in ToSet(Inbound[p]) /\ fate[m] = "unsent"
  /\ \A i \in 1 .. Len(Inbound[p]) :
       fate[Inbound[p][i]] = "unsent" =>
         \A j \in 1 .. Len(Inbound[p]) : Inbound[p][j] = m => j <= i

Becomes(m, f) == fate' = [fate EXCEPT ![m] = f]

\* A fault that the bound admits.
Fault == faults < MaxFaults /\ faults' = faults + 1

\* PacketQueue::push() as the ports call it: they log a refusal and go on.
\* A frame that is too long is refused always, and the card may fail.
Store(p, m) ==
  \/ /\ Size[m] <= FrameCapacity
     /\ queue' = [queue EXCEPT ![p] = Append(@, m)]
     /\ Becomes(m, "stored")
     /\ UNCHANGED faults
  \/ /\ (Size[m] > FrameCapacity /\ UNCHANGED faults) \/ Fault
     /\ Becomes(m, "refused")
     /\ UNCHANGED queue

\* A port has finished what it was called for.
Return ==
  /\ at' = CASE call = "sync"   -> "synced"
             [] call = "relay"  -> "relayed"
             [] call = "answer" -> "answered"
             [] call = "report" -> "reported"
  /\ intact' = FALSE
=============================================================================
