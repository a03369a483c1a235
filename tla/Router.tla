------------------------------- MODULE Router ------------------------------
(***************************************************************************)
(* Router with the three ports of the production build: a run of the node  *)
(* syncs the ports one after the other, looks for a packet, relays and     *)
(* drops those for other nodes on the way, hands the first one for this    *)
(* node to the runner, and sends what the runner answers and reports.      *)
(*                                                                         *)
(* All of it uses the one shared buffer, and each send may receive.        *)
(***************************************************************************)
EXTENDS IridiumPort, GsmMqttPort

VARIABLES
  turn,    \* the index in ports_ of the port that is looked at
  hop,     \* the index in relayedPortTypes_
  offered  \* history: the ports that a message was relayed through

routerVars == <<turn, hop, offered>>
vars == <<shared, iridiumVars, gsmVars, routerVars>>

\* dependencies.hpp: the two lists that the router is built with.
Ports_ == <<Serial, Iridium, Gsm>>
RelayedPorts == <<Gsm, Iridium>>

TypeOK ==
  /\ TypeOKShared /\ TypeOKIridium /\ TypeOKGsm
  /\ turn \in 1 .. Len(Ports_) + 1
  /\ hop \in 1 .. Len(RelayedPorts) + 1
  /\ offered \in [Message -> SUBSET Port]

Init ==
  /\ InitShared /\ InitIridium /\ InitGsm
  /\ turn = 1 /\ hop = 1 /\ offered = [m \in Message |-> {}]

Go(place) == at' = place

-----------------------------------------------------------------------------
(* syncAllPorts(). A port that fails does not keep the others from it. *)

SyncOf(p) == CASE p = Serial -> "serial" [] p = Iridium -> "iridium" [] p = Gsm -> "gsm"

RunBegins ==
  /\ at = "idle"
  /\ turn' = 1 /\ Go(SyncOf(Ports_[1]))
  /\ UNCHANGED <<call, out, intact, queue, fate, faults, iridiumVars, gsmVars, hop, offered>>

\* SerialPort::sync(), by its promise: some of the packets that the Pi has
\* written are given to the queue.
SerialDelivers ==
  /\ at = "serial"
  /\ \E m \in Message : IsNext(Serial, m) /\ Store(Serial, m)
  /\ UNCHANGED <<at, call, out, intact, iridiumVars, gsmVars, routerVars>>

SerialSynced ==
  /\ at = "serial"
  /\ Go("synced")
  /\ UNCHANGED <<call, out, intact, queue, fate, faults, iridiumVars, gsmVars, routerVars>>

Synced ==
  /\ at = "synced"
  /\ call' = "none"
  /\ IF turn < Len(Ports_)
       THEN turn' = turn + 1 /\ Go(SyncOf(Ports_[turn + 1]))
       ELSE turn' = 1 /\ Go("peek")
  /\ UNCHANGED <<out, intact, queue, fate, faults, iridiumVars, gsmVars, hop, offered>>

-----------------------------------------------------------------------------
(* peekNextPacket() *)

\* Mutant of Skip: what else the port has received is dropped too.
SkipAll(p) ==
  /\ Becomes(Head(queue[p]), "handled")
  /\ queue' = [queue EXCEPT ![p] = <<>>]

\* skipToNextPacket(): the packet at the head leaves its queue.
Skip(p) ==
  /\ Becomes(Head(queue[p]), "handled")
  /\ queue' = [queue EXCEPT ![p] = Tail(@)]

\* No port has a packet for this node.
NoPacket ==
  /\ at = "peek" /\ turn > Len(Ports_)
  /\ turn' = 1 /\ Go("reports")
  /\ UNCHANGED <<call, out, intact, queue, fate, faults, iridiumVars, gsmVars, hop, offered>>

EmptyPort ==
  /\ at = "peek" /\ turn <= Len(Ports_) /\ queue[Ports_[turn]] = <<>>
  /\ turn' = turn + 1
  /\ UNCHANGED <<shared, iridiumVars, gsmVars, hop, offered>>

\* The shared buffer is read into, and the head of the port is decoded. What
\* does not decode is dropped, and the search goes on at the next port.
Peek ==
  /\ at = "peek" /\ turn <= Len(Ports_) /\ queue[Ports_[turn]] # <<>>
  /\ LET m == Head(queue[Ports_[turn]])
     IN \/ m \in Broken /\ Skip(Ports_[turn]) /\ turn' = turn + 1 /\ UNCHANGED at
        \/ m \in Foreign /\ Go("relay") /\ UNCHANGED <<queue, fate, turn>>
        \/ m \notin Broken \cup Foreign /\ Go("runner") /\ UNCHANGED <<queue, fate, turn>>
  /\ hop' = 1
  /\ UNCHANGED <<call, out, intact, faults, iridiumVars, gsmVars, offered>>

-----------------------------------------------------------------------------
(* sendToPort(): the packet is encoded into the shared buffer. *)

SendToPort(p, packet, whose) ==
  /\ out' = packet /\ intact' = TRUE /\ call' = whose
  /\ Go(CASE p = Gsm -> "gsmSend" [] p = Iridium -> "sbdSend" [] p = Serial -> "serialSend")

\* SerialPort::send() writes the frame to the line.
SerialSend ==
  /\ at = "serialSend"
  /\ Return
  /\ UNCHANGED <<call, out, queue, fate, faults, iridiumVars, gsmVars, routerVars>>

\* relayPacket(): every relayed port in turn, whatever becomes of it.
Relay ==
  /\ at = "relay" /\ hop <= Len(RelayedPorts)
  /\ LET m == Head(queue[Ports_[turn]])
     IN /\ SendToPort(RelayedPorts[hop], m, "relay")
        /\ offered' = [offered EXCEPT ![m] = @ \cup {RelayedPorts[hop]}]
  /\ UNCHANGED <<queue, fate, faults, iridiumVars, gsmVars, turn, hop>>

\* Mutant of Relayed: the first failure ends it.
RelayedUntilFailure ==
  /\ at = "relayed"
  /\ out' = Nothing /\ call' = "none"
  /\ hop' = (IF verdict THEN hop + 1 ELSE Len(RelayedPorts) + 1) /\ Go("relay")
  /\ Forget
  /\ UNCHANGED <<intact, queue, fate, faults, iridiumVars, netVars, turn, offered>>

Relayed ==
  /\ at = "relayed"
  /\ out' = Nothing /\ call' = "none"
  /\ hop' = hop + 1 /\ Go("relay")
  /\ Forget
  /\ UNCHANGED <<intact, queue, fate, faults, iridiumVars, netVars, turn, offered>>

\* Mutant of RelayEnds: it counts the port, and so does the loop.
RelayEndsTwice ==
  /\ at = "relay" /\ hop > Len(RelayedPorts)
  /\ Skip(Ports_[turn])
  /\ turn' = turn + 2 /\ hop' = 1 /\ Go("peek")
  /\ UNCHANGED <<call, out, intact, faults, iridiumVars, gsmVars, offered>>

\* The relayed packet is dropped, and the search goes on at the next port.
RelayEnds ==
  /\ at = "relay" /\ hop > Len(RelayedPorts)
  /\ Skip(Ports_[turn])
  /\ turn' = turn + 1 /\ hop' = 1 /\ Go("peek")
  /\ UNCHANGED <<call, out, intact, faults, iridiumVars, gsmVars, offered>>

-----------------------------------------------------------------------------
(* The runner, as far as it calls the router. *)

\* It may answer through the port that the packet came from.
Answer ==
  /\ at = "runner"
  /\ \E r \in Reports : SendToPort(Ports_[turn], r, "answer")
  /\ UNCHANGED <<queue, fate, faults, iridiumVars, gsmVars, routerVars>>

\* It then drops the packet, or keeps it for another attempt.
RunnerEnds ==
  /\ at \in {"runner", "answered"}
  /\ \/ Skip(Ports_[turn])
     \/ UNCHANGED <<queue, fate>>
  /\ out' = Nothing /\ call' = "none"
  /\ turn' = 1 /\ Go("reports")
  /\ Forget
  /\ UNCHANGED <<intact, faults, iridiumVars, netVars, hop, offered>>

\* A report is sent through a port with a network, or none is due.
Report(p) ==
  /\ at = "reports"
  /\ \E r \in Reports : SendToPort(p, r, "report")
  /\ UNCHANGED <<queue, fate, faults, iridiumVars, gsmVars, routerVars>>

RunEnds ==
  /\ at \in {"reports", "reported"}
  /\ out' = Nothing /\ call' = "none" /\ Go("idle")
  /\ Forget
  /\ UNCHANGED <<intact, queue, fate, faults, iridiumVars, netVars, routerVars>>

-----------------------------------------------------------------------------
\* A reset, and prod_setup(): unread packets are given up, the modems begin
\* anew, and the node subscribes again.
Restart ==
  /\ Fault
  /\ at' = "idle" /\ call' = "none" /\ out' = Nothing /\ intact' = FALSE
  /\ queue' = [p \in Port |-> <<>>]
  /\ fate' = [m \in Message |-> IF fate[m] = "stored" THEN "reset" ELSE fate[m]]
  /\ alert' = FALSE /\ known' = 0 /\ room' = 0
  /\ connected' = TRUE
  /\ subscribed' \in {TRUE, subscribed} /\ deaf' = ~subscribed'
  /\ Forget
  /\ turn' = 1 /\ hop' = 1
  /\ UNCHANGED <<gateway, inbox, offered>>

World ==
  \/ \E m \in Message : MessageArrives(m) /\ UNCHANGED <<gsmVars, routerVars>>
  \/ \E m \in Message : BackendPublishes(m) /\ UNCHANGED <<iridiumVars, routerVars>>
  \/ (LinkBreaks \/ SessionExpires) /\ UNCHANGED <<iridiumVars, routerVars>>
  \/ Restart

IridiumStep == (IridiumSync \/ Receive \/ IridiumSend) /\ UNCHANGED <<gsmVars, routerVars>>

GsmStep ==
  /\ GsmBegins \/ TryConnect \/ Connected \/ Polled \/ Publish \/ EndMessage
  /\ UNCHANGED <<iridiumVars, routerVars>>

Handler == MessageHandler /\ UNCHANGED <<iridiumVars, routerVars>>

RouterStep ==
  \/ RunBegins \/ SerialDelivers \/ SerialSynced \/ Synced
  \/ NoPacket \/ EmptyPort \/ Peek \/ SerialSend
  \/ Relay \/ Relayed \/ RelayEnds
  \/ Answer \/ RunnerEnds \/ RunEnds

Reporting == \E p \in {Gsm, Iridium} : Report(p)

Next == World \/ IridiumStep \/ GsmStep \/ Handler \/ RouterStep \/ Reporting

\* The thread goes on; now and then a report is due, the network lets the
\* node in, and the broker's messages arrive while it listens.
Fairness ==
  /\ WF_vars(RouterStep \/ IridiumStep \/ GsmStep)
  /\ SF_vars(Report(Iridium))
  /\ SF_vars(GsmStep /\ at = "dialling" /\ connected')
  /\ SF_vars(Handler)

Spec == Init /\ [][Next]_vars /\ Fairness

-----------------------------------------------------------------------------
\* No message disappears unnoticed: one that was accepted for the node waits
\* at the gateway or the broker until the queue has been given it, and one
\* that the queue took is in the queue until it was dealt with. Of those from
\* the satellites that the buffer has room for, only one that is larger than
\* its predecessor can be lost for its size.
Accounted ==
  /\ \A m \in Message :
       /\ fate[m] = "waiting" => m \in ToSet(gateway) \cup ToSet(inbox)
       /\ fate[m] = "stored" => \E p \in Port : m \in ToSet(queue[p])
  /\ \A i \in 1 .. Len(Inbound[Iridium]) :
       LET m == Inbound[Iridium][i]
       IN fate[m] = "overflow" =>
            \/ Size[m] > Capacity
            \/ i > 1 /\ Size[Inbound[Iridium][i - 1]] < Size[m]

\* A packet for another node is dropped only when it has been offered to every
\* relayed port, whatever failed on the way.
RelayedEverywhere ==
  \A m \in Foreign : fate[m] = "handled" => offered[m] = ToSet(RelayedPorts)

\* A publish carries the packet that was to be sent, unless it was preceded by
\* a new connection, in which received messages take its place in the buffer.
CarriesItsPacket == body = "other" => redialled

\* When send() reports a failure nothing was published, so that a retry is no
\* duplicate; when it reports success the broker has the packet, unless the
\* connection broke while it was published.
TrueVerdict ==
  at \in {"relayed", "answered", "reported"} =>
    IF verdict THEN reached \/ cut ELSE ~reached

\* The node hears the backend as long as its subscription was accepted and it
\* is never away for an hour.
Hears == connected /\ ~deaf => subscribed

\* What waits for the node at the satellites and at the broker is fetched.
Fetched ==
  /\ gateway # <<>> ~> gateway = <<>>
  /\ inbox # <<>> ~> inbox = <<>>
=============================================================================
