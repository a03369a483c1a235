---------------------------- MODULE RouterProofs ---------------------------
(***************************************************************************)
(* What is proved of the router and its ports: for every number of         *)
(* messages, of every size, in any order at the three ports, for every     *)
(* capacity of the buffers and any number of faults and resets; and, at    *)
(* the end, that the serial port keeps the promise by which it enters the  *)
(* router (SerialDelivers): bytes become the packets that were written.    *)
(***************************************************************************)
EXTENDS Router, SerialPort, SequenceTheorems, TLAPS

-----------------------------------------------------------------------------
(* Where the thread is, for whom a port works, and what the caller has to  *)
(* rely on when it is back.                                                *)

Sending == {"gsmSend", "sbdSend", "receive", "dialling", "connecting", "publish", "ending"}

PlaceInv ==
  /\ call = "none" => at \in {"idle", "serial", "iridium", "gsm", "synced",
                              "peek", "relay", "runner", "reports"}
  /\ call = "sync" => at \in {"synced", "receive", "dialling", "connecting", "polling"}
  /\ call = "relay" => at \in Sending \cup {"relayed"}
  /\ call = "answer" => at \in Sending \cup {"serialSend", "answered"}
  /\ call = "report" => at \in Sending \cup {"reported"}

\* What the histories of a send say, place by place.
SendInv ==
  /\ call \in {"none", "sync"} \/ at \in {"gsmSend", "sbdSend", "serialSend", "receive"}
       => verdict /\ reached /\ body = "none"
  /\ at = "gsmSend" => intact
  /\ at \in {"dialling", "connecting"} /\ call # "sync" => redialled /\ ~reached /\ body = "none"
  /\ at = "publish" => (intact \/ redialled) /\ ~reached /\ body = "none"
  /\ at = "ending" => ~reached /\ (connected \/ cut)
  /\ body = "other" => redialled
  /\ TrueVerdict

\* The packet that is relayed, or that the runner has, stays at the head of
\* its port until it is dropped; and it has been offered to the ports before.
HeadInv ==
  /\ at \in {"relay", "runner"} \/ call \in {"relay", "answer"} =>
       turn \in 1 .. Len(Ports_) /\ queue[Ports_[turn]] # <<>>
  /\ at = "relay" \/ call = "relay" =>
       LET m == Head(queue[Ports_[turn]])
       IN /\ m \in Foreign
          /\ call = "relay" => hop <= Len(RelayedPorts)
          /\ \A k \in 1 .. Len(RelayedPorts) :
               k < hop \/ (k = hop /\ call = "relay") => RelayedPorts[k] \in offered[m]
  /\ at = "runner" \/ call = "answer" => Head(queue[Ports_[turn]]) \notin Foreign
  /\ \A m \in Message : offered[m] \subseteq ToSet(RelayedPorts)

\* What waits at the gateway is the part of the messages that came from the
\* backend, from the one after the last that was taken. The room for a
\* session is that of the buffer or what the last message has left.
Came(n) == \A i \in 1 .. Len(Inbound[Iridium]) : fate[Inbound[Iridium][i]] = "unsent" <=> i > n

Waits(a, n) ==
  /\ Came(n)
  /\ Len(gateway) = n - a
  /\ \A k \in 1 .. n - a : gateway[k] = Inbound[Iridium][a + k]
  /\ at = "receive" => room = Capacity \/ (a > 0 /\ room = Size[Inbound[Iridium][a]])

GatewayInv ==
  \E n \in 0 .. Len(Inbound[Iridium]) : \E a \in 0 .. n : Waits(a, n)

HearsInv == ~deaf => subscribed

-----------------------------------------------------------------------------
(* The lists of ports, and sequences of messages. *)

LEMMA Lists ==
  /\ Serial # Iridium /\ Iridium # Gsm /\ Gsm # Serial
  /\ Len(Ports_) = 3 /\ Ports_[1] = Serial /\ Ports_[2] = Iridium /\ Ports_[3] = Gsm
  /\ \A i \in 1 .. 3 : Ports_[i] \in Port
  /\ Len(RelayedPorts) = 2 /\ RelayedPorts[1] = Gsm /\ RelayedPorts[2] = Iridium
  /\ ToSet(RelayedPorts) = {Gsm, Iridium}
<1>1. DOMAIN RelayedPorts = 1 .. 2
  BY DEF RelayedPorts
<1> QED
  BY <1>1, PortsAssumption DEF Ports_, Port, RelayedPorts, ToSet

LEMMA Members ==
  ASSUME NEW S, NEW s \in Seq(S)
  PROVE  \A x : x \in ToSet(s) <=> \E i \in 1 .. Len(s) : s[i] = x
<1>1. DOMAIN s = 1 .. Len(s)
  OBVIOUS
<1> QED
  BY <1>1 DEF ToSet

LEMMA Appended ==
  ASSUME NEW S, NEW s \in Seq(S), NEW e \in S
  PROVE  /\ Append(s, e) \in Seq(S) /\ Append(s, e) # <<>>
         /\ ToSet(Append(s, e)) = ToSet(s) \cup {e}
         /\ s # <<>> => Head(Append(s, e)) = Head(s)
<1>1. /\ Append(s, e) \in Seq(S) /\ Len(Append(s, e)) = Len(s) + 1
      /\ \A i \in 1 .. Len(s) : Append(s, e)[i] = s[i]
      /\ Append(s, e)[Len(s) + 1] = e
  OBVIOUS
<1>2. \A x : x \in ToSet(Append(s, e)) <=> x \in ToSet(s) \cup {e}
  <2>1. \A x : x \in ToSet(Append(s, e)) <=> \E i \in 1 .. Len(s) + 1 : Append(s, e)[i] = x
    <3> DEFINE t == Append(s, e)
    <3>1. t \in Seq(S) /\ Len(t) = Len(s) + 1
      BY <1>1
    <3> HIDE DEF t
    <3>2. \A x : x \in ToSet(t) <=> \E i \in 1 .. Len(s) + 1 : t[i] = x
      BY <3>1, Members
    <3> QED
      BY <3>2 DEF t
  <2>2. \A x : x \in ToSet(s) <=> \E i \in 1 .. Len(s) : s[i] = x
    BY Members
  <2>3. Len(s) \in Nat /\ \A i \in 1 .. Len(s) + 1 : i \in 1 .. Len(s) \/ i = Len(s) + 1
    OBVIOUS
  <2> QED
    BY <1>1, <2>1, <2>2, <2>3
<1> QED
  BY <1>1, <1>2

LEMMA MessageAppended ==
  ASSUME NEW s \in Seq(Message), NEW m \in Message
  PROVE  Append(s, m) \in Seq(Message) /\ ToSet(Append(s, m)) = ToSet(s) \cup {m}
  BY Appended

LEMMA Taken ==
  ASSUME NEW S, NEW s \in Seq(S), s # <<>>
  PROVE  /\ Head(s) \in S /\ Tail(s) \in Seq(S)
         /\ Head(s) \in ToSet(s) /\ ToSet(s) = {Head(s)} \cup ToSet(Tail(s))
<1>1. /\ Len(s) \in Nat \ {0} /\ Head(s) = s[1] /\ Head(s) \in S
      /\ Tail(s) \in Seq(S) /\ Len(Tail(s)) = Len(s) - 1
      /\ \A i \in 1 .. Len(s) - 1 : Tail(s)[i] = s[i + 1]
  OBVIOUS
<1>2. \A x : x \in ToSet(s) <=> \E i \in 1 .. Len(s) : s[i] = x
  BY Members
<1>3. \A x : x \in ToSet(Tail(s)) <=> \E i \in 1 .. Len(s) - 1 : s[i + 1] = x
  <2> DEFINE t == Tail(s)
  <2>1. t \in Seq(S) /\ Len(t) = Len(s) - 1 /\ \A i \in 1 .. Len(s) - 1 : t[i] = s[i + 1]
    BY <1>1
  <2> HIDE DEF t
  <2>2. \A x : x \in ToSet(t) <=> \E i \in 1 .. Len(s) - 1 : t[i] = x
    BY <2>1, Members
  <2>3. \A x : x \in ToSet(t) <=> \E i \in 1 .. Len(s) - 1 : s[i + 1] = x
    BY <2>1, <2>2
  <2> QED
    BY <2>3 DEF t
<1>4. \A x : x \in ToSet(s) <=> x \in {Head(s)} \cup ToSet(Tail(s))
  <2>1. \A i \in 1 .. Len(s) : i = 1 \/ (i - 1 \in 1 .. Len(s) - 1 /\ i = (i - 1) + 1)
    BY <1>1
  <2>2. 1 \in 1 .. Len(s) /\ \A i \in 1 .. Len(s) - 1 : i + 1 \in 1 .. Len(s)
    BY <1>1
  <2> QED
    BY <1>1, <1>2, <1>3, <2>1, <2>2
<1> QED
  BY <1>1, <1>4

-----------------------------------------------------------------------------
(* What the steps do to the place of the thread and the running send. *)

ControlType ==
  /\ call \in {"none", "sync", "relay", "answer", "report"}
  /\ turn \in 1 .. Len(Ports_) + 1 /\ hop \in 1 .. Len(RelayedPorts) + 1

ControlInv == ControlType /\ PlaceInv /\ SendInv

LEMMA InitControl == Init => ControlInv
  BY Lists
  DEF Init, InitShared, InitIridium, InitGsm, ControlInv, ControlType, PlaceInv, SendInv, TrueVerdict

\* The world outside moves nothing but the connection, which breaks.
LEMMA OutsideControl ==
  ASSUME ControlInv, UNCHANGED <<at, call, turn, hop, redialled, body, verdict, reached>>,
         \/ UNCHANGED <<intact, connected, cut>>
         \/ UNCHANGED <<connected, cut>> /\ at \in {"connecting", "polling", "ending"}
         \/ UNCHANGED intact /\ cut' = (cut \/ at = "ending")
  PROVE  ControlInv'
<1>1. ControlType' /\ PlaceInv'
  BY DEF ControlInv, ControlType, PlaceInv
<1>2. SendInv'
  BY DEF ControlInv, SendInv, TrueVerdict
<1> QED
  BY <1>1, <1>2 DEF ControlInv

LEMMA ReturnPlace ==
  ASSUME Return, call # "none", call \in {"none", "sync", "relay", "answer", "report"}
  PROVE  /\ call = "sync" => at' = "synced"
         /\ call = "relay" => at' = "relayed"
         /\ call = "answer" => at' = "answered"
         /\ call = "report" => at' = "reported"
  BY DEF Return

LEMMA IridiumControl == ControlInv /\ IridiumStep => ControlInv'
<1> SUFFICES ASSUME ControlInv, IridiumStep PROVE ControlInv'
  OBVIOUS
<1> USE DEF ControlInv, ControlType, PlaceInv, SendInv, TrueVerdict
<1>1. UNCHANGED <<gsmVars, routerVars>>
  BY DEF IridiumStep
<1>2. CASE IridiumSync
  BY <1>1, <1>2 DEF IridiumSync, gsmVars, netVars, sendHistory, routerVars, Sending
<1>3. CASE Receive \/ IridiumSend
  <2>1. at \in {"receive", "sbdSend"} /\ call' = call /\ (at' = "receive" \/ Return)
    BY <1>3 DEF Receive, IridiumSend, MoreOrReturn
  <2> QED
    BY <1>1, <2>1, ReturnPlace DEF gsmVars, netVars, sendHistory, routerVars, Sending
<1> QED
  BY <1>2, <1>3 DEF IridiumStep

LEMMA GsmControl == ControlInv /\ GsmStep => ControlInv'
<1> SUFFICES ASSUME ControlInv, GsmStep PROVE ControlInv'
  OBVIOUS
<1> USE DEF ControlInv, ControlType, PlaceInv, SendInv, TrueVerdict, Sending
<1>1. UNCHANGED routerVars
  BY DEF GsmStep
<1>2. CASE GsmBegins
  BY <1>1, <1>2 DEF GsmBegins, routerVars
<1>3. ASSUME Fails, call # "none", at \in {"dialling", "connecting", "publish"}, body # "other",
             UNCHANGED <<call, redialled, body, reached, cut, connected>>
      PROVE  ControlInv'
  <2>1. CASE call = "sync"
    BY <1>1, <1>3, <2>1, ReturnPlace DEF Fails, routerVars
  <2>2. CASE call # "sync"
    BY <1>1, <1>3, <2>2, ReturnPlace DEF Fails, routerVars
  <2> QED
    BY <2>1, <2>2
<1>4. CASE TryConnect
  <2>1. CASE Fails /\ UNCHANGED connected
    BY <1>3, <1>4, <2>1 DEF TryConnect
  <2>2. CASE at' = "connecting" /\ UNCHANGED <<intact, verdict>>
    BY <1>1, <1>4, <2>2 DEF TryConnect, routerVars
  <2> QED
    BY <1>4, <2>1, <2>2 DEF TryConnect
<1>5. CASE Connected
  <2>1. CASE connected
    BY <1>1, <1>5, <2>1 DEF Connected, routerVars
  <2>2. CASE ~connected
    BY <1>3, <1>5, <2>2 DEF Connected
  <2> QED
    BY <2>1, <2>2
<1>6. CASE Polled
  BY <1>1, <1>6, ReturnPlace DEF Polled, gsmVars, netVars, sendHistory, routerVars
<1>7. CASE Publish
  <2>1. CASE connected
    BY <1>1, <1>7, <2>1 DEF Publish, routerVars
  <2>2. CASE ~connected
    BY <1>3, <1>7, <2>2 DEF Publish
  <2> QED
    BY <2>1, <2>2
<1>8. CASE EndMessage
  BY <1>1, <1>8, ReturnPlace DEF EndMessage, routerVars
<1> QED
  BY <1>2, <1>4, <1>5, <1>6, <1>7, <1>8 DEF GsmStep

\* A packet is encoded for a port, and the port begins to send it.
LEMMA SendControl ==
  ASSUME ControlInv, call = "none", NEW p \in Port, NEW packet, NEW whose,
         SendToPort(p, packet, whose),
         UNCHANGED <<gsmVars, turn, hop>>,
         \/ whose \in {"relay", "report"} /\ p \in {Gsm, Iridium}
         \/ whose = "answer"
  PROVE  ControlInv'
<1>1. /\ at' \in {"gsmSend", "sbdSend", "serialSend"} /\ call' = whose /\ intact' = TRUE
      /\ p \in {Gsm, Iridium} => at' # "serialSend"
  BY Lists DEF SendToPort, Go, Port
<1>2. ControlType' /\ PlaceInv'
  BY <1>1 DEF ControlInv, ControlType, PlaceInv, Sending
<1>3. SendInv'
  BY <1>1 DEF ControlInv, ControlType, PlaceInv, Sending, SendInv, TrueVerdict, gsmVars, netVars, sendHistory
<1> QED
  BY <1>2, <1>3 DEF ControlInv

\* The caller goes on, for itself, to a place that is no send's.
LEMMA BackControl ==
  ASSUME ControlInv, call' = "none", turn' \in 1 .. 4, hop' \in 1 .. 3,
         at' \in {"idle", "serial", "iridium", "gsm", "peek", "relay", "runner", "reports"},
         Forget \/ (call \in {"none", "sync"} /\ UNCHANGED sendHistory)
  PROVE  ControlInv'
<1>1. ControlType' /\ PlaceInv'
  BY Lists DEF ControlType, PlaceInv
<1>2. SendInv'
  BY DEF ControlInv, SendInv, TrueVerdict, Forget, sendHistory
<1> QED
  BY <1>1, <1>2 DEF ControlInv

LEMMA RouterControl == ControlInv /\ HeadInv /\ RouterStep => ControlInv'
<1> SUFFICES ASSUME ControlInv, HeadInv, RouterStep PROVE ControlInv'
  OBVIOUS
<1>a. /\ call \in {"none", "sync", "relay", "answer", "report"}
      /\ turn \in 1 .. 4 /\ hop \in 1 .. 3
  BY Lists DEF ControlInv, ControlType
<1>b. \A i \in 1 .. 3 : SyncOf(Ports_[i]) \in {"serial", "iridium", "gsm"}
  BY Lists DEF SyncOf
<1>1. CASE RunBegins \/ NoPacket
  <2>1. /\ call = "none" /\ call' = "none" /\ turn' = 1 /\ hop' = hop
        /\ at' \in {"serial", "iridium", "gsm", "reports"} /\ UNCHANGED sendHistory
    BY <1>1, <1>a, <1>b, Lists
    DEF RunBegins, NoPacket, Go, ControlInv, PlaceInv, Sending, gsmVars
  <2> QED
    BY <1>a, <2>1, BackControl
<1>2. CASE SerialDelivers
  <2>1. UNCHANGED <<at, call, turn, hop, intact, gsmVars>>
    BY <1>2 DEF SerialDelivers, routerVars
  <2> QED
    BY <2>1, OutsideControl DEF gsmVars, netVars, sendHistory
<1>3. CASE SerialSynced
  BY <1>3
  DEF SerialSynced, Go, ControlInv, ControlType, PlaceInv, SendInv, TrueVerdict, Sending,
      routerVars, gsmVars, netVars, sendHistory
<1>4. CASE Synced
  <2>1. /\ call \in {"none", "sync"} /\ call' = "none" /\ turn' \in 1 .. 4 /\ hop' = hop
        /\ at' \in {"serial", "iridium", "gsm", "peek"} /\ UNCHANGED sendHistory
    BY <1>4, <1>a, <1>b, Lists DEF Synced, Go, ControlInv, PlaceInv, Sending, gsmVars
  <2> QED
    BY <1>a, <2>1, BackControl
<1>5. CASE EmptyPort \/ Peek
  <2>1. /\ call = "none" /\ call' = "none" /\ turn' \in 1 .. 4 /\ hop' \in {1, hop}
        /\ at' \in {"peek", "relay", "runner"} /\ UNCHANGED sendHistory
    BY <1>5, <1>a, Lists
    DEF EmptyPort, Peek, Go, ControlInv, PlaceInv, Sending, shared, gsmVars
  <2> QED
    BY <1>a, <2>1, BackControl
<1>6. CASE SerialSend
  BY <1>6, ReturnPlace
  DEF SerialSend, ControlInv, ControlType, PlaceInv, SendInv, TrueVerdict, Sending,
      routerVars, gsmVars, netVars, sendHistory
<1>7. CASE Relay
  <2>1. \E p \in {Gsm, Iridium} : \E packet : SendToPort(p, packet, "relay")
    BY <1>7, <1>a, Lists DEF Relay
  <2>2. call = "none" /\ UNCHANGED <<gsmVars, turn, hop>>
    BY <1>7, <1>a DEF Relay, ControlInv, PlaceInv, Sending
  <2> QED
    BY <2>1, <2>2, SendControl DEF Port
<1>8. CASE Relayed
  <2>1. call = "relay"
    BY <1>8, <1>a DEF Relayed, ControlInv, PlaceInv, Sending
  <2>2. hop <= 2
    BY <2>1, Lists DEF HeadInv
  <2> QED
    BY <1>8, <1>a, <2>2, BackControl DEF Relayed, Go
<1>9. CASE RelayEnds
  <2>1. call = "none" /\ turn \in 1 .. 3
    BY <1>9, <1>a, Lists DEF RelayEnds, ControlInv, PlaceInv, HeadInv, Sending
  <2> QED
    BY <1>9, <2>1, BackControl DEF RelayEnds, Go, gsmVars
<1>10. CASE Answer
  <2>1. PICK r \in Reports : SendToPort(Ports_[turn], r, "answer")
    BY <1>10 DEF Answer
  <2>2. call = "none" /\ Ports_[turn] \in Port /\ UNCHANGED <<gsmVars, turn, hop>>
    BY <1>10, <1>a, Lists DEF Answer, ControlInv, PlaceInv, HeadInv, Sending, routerVars
  <2> QED
    BY <2>1, <2>2, SendControl
<1>11. CASE RunnerEnds \/ RunEnds
  <2>1. Forget /\ call' = "none" /\ at' \in {"idle", "reports"} /\ turn' \in {1, turn} /\ hop' = hop
    BY <1>11 DEF RunnerEnds, RunEnds, Go, routerVars
  <2> QED
    BY <1>a, <2>1, BackControl
<1> QED
  BY <1>1, <1>2, <1>3, <1>4, <1>5, <1>6, <1>7, <1>8, <1>9, <1>10, <1>11 DEF RouterStep

LEMMA NextControl == ControlInv /\ HeadInv /\ [Next]_vars => ControlInv'
<1> SUFFICES ASSUME ControlInv, HeadInv, [Next]_vars PROVE ControlInv'
  OBVIOUS
<1>1. CASE World
  <2>1. CASE Restart
    BY <2>1, BackControl, Lists DEF Restart
  <2>2. CASE ~Restart
    <3>1. /\ UNCHANGED <<at, call, turn, hop, intact, redialled, body, verdict, reached>>
          /\ UNCHANGED <<connected, cut>> \/ cut' = (cut \/ at = "ending")
      BY <1>1, <2>2
      DEF World, MessageArrives, BackendPublishes, LinkBreaks, SessionExpires,
          gsmVars, netVars, sendHistory, routerVars
    <3> QED
      BY <3>1, OutsideControl
  <2> QED
    BY <2>1, <2>2
<1>2. CASE IridiumStep \/ GsmStep \/ RouterStep
  BY <1>2, IridiumControl, GsmControl, RouterControl
<1>3. CASE Handler
  <2>1. /\ UNCHANGED <<at, call, turn, hop, connected, sendHistory>>
        /\ at \in {"connecting", "polling", "ending"}
    BY <1>3 DEF Handler, MessageHandler, routerVars
  <2> QED
    BY <2>1, OutsideControl DEF sendHistory
<1>4. CASE Reporting
  <2>1. PICK p \in {Gsm, Iridium}, r \in Reports : Report(p) /\ SendToPort(p, r, "report")
    BY <1>4 DEF Reporting, Report
  <2>2. call = "none" /\ UNCHANGED <<gsmVars, turn, hop>>
    BY <2>1 DEF Report, ControlInv, ControlType, PlaceInv, Sending, routerVars
  <2> QED
    BY <2>1, <2>2, SendControl DEF Port
<1>5. CASE UNCHANGED vars
  BY <1>5, OutsideControl DEF vars, shared, gsmVars, netVars, sendHistory, routerVars
<1> QED
  BY <1>1, <1>2, <1>3, <1>4, <1>5 DEF Next

-----------------------------------------------------------------------------
(* Types. *)

LEMMA Coming ==
  /\ \A p \in Port : Inbound[p] \in Seq(Message)
  /\ \A p \in Port : \A m \in ToSet(Inbound[p]) : m \in Message
  /\ \A m : \A p \in Port : IsNext(p, m) => m \in Message
  /\ \A m \in Message : Size[m] \in Nat \ {0}
<1>1. \A p \in Port : Inbound[p] \in Seq(Message)
  BY PortsAssumption
<1> QED
  BY <1>1, PortsAssumption DEF Message, IsNext

LEMMA StoreType ==
  ASSUME TypeOKShared, NEW p \in Port, NEW m \in Message, Store(p, m)
  PROVE  /\ queue' \in [Port -> Seq(Message)]
         /\ fate' \in [Message -> Fate] /\ faults' \in 0 .. MaxFaults
         /\ \A q \in Port : /\ ToSet(queue[q]) \subseteq ToSet(queue'[q])
                             /\ ToSet(queue'[q]) \subseteq ToSet(queue[q]) \cup {m}
         /\ \A q \in Port : queue[q] # <<>> => queue'[q] # <<>> /\ Head(queue'[q]) = Head(queue[q])
         /\ \A x \in Message : x # m => fate'[x] = fate[x]
         /\ \/ fate'[m] = "stored" /\ m \in ToSet(queue'[p])
            \/ fate'[m] = "refused"
<1>0. queue \in [Port -> Seq(Message)] /\ fate \in [Message -> Fate] /\ faults \in 0 .. MaxFaults
      /\ MaxFaults \in Nat /\ {"stored", "refused"} \subseteq Fate
  BY PortsAssumption DEF TypeOKShared, Fate
<1>1. CASE queue' = [queue EXCEPT ![p] = Append(@, m)] /\ Becomes(m, "stored") /\ UNCHANGED faults
  <2>1. /\ Append(queue[p], m) \in Seq(Message) /\ Append(queue[p], m) # <<>>
        /\ ToSet(Append(queue[p], m)) = ToSet(queue[p]) \cup {m}
        /\ queue[p] # <<>> => Head(Append(queue[p], m)) = Head(queue[p])
    BY <1>0, Appended
  <2>2. \A q \in Port : queue'[q] = IF q = p THEN Append(queue[p], m) ELSE queue[q]
    BY <1>0, <1>1
  <2>3. queue' \in [Port -> Seq(Message)]
    BY <1>0, <1>1, <2>1
  <2> QED
    BY <1>0, <1>1, <2>1, <2>2, <2>3 DEF Becomes
<1>2. CASE UNCHANGED queue /\ Becomes(m, "refused") /\ (UNCHANGED faults \/ Fault)
  BY <1>0, <1>2 DEF Becomes, Fault
<1> QED
  BY <1>1, <1>2 DEF Store

LEMMA SkipType ==
  ASSUME TypeOKShared, NEW p \in Port, queue[p] # <<>>, Skip(p)
  PROVE  /\ queue' \in [Port -> Seq(Message)] /\ fate' \in [Message -> Fate]
         /\ Head(queue[p]) \in Message
         /\ Head(queue[p]) \in ToSet(queue[p])
         /\ \A q \in Port : /\ ToSet(queue'[q]) \subseteq ToSet(queue[q])
                             /\ ToSet(queue[q]) \subseteq ToSet(queue'[q]) \cup {Head(queue[p])}
         /\ \A x \in Message : fate'[x] = IF x = Head(queue[p]) THEN "handled" ELSE fate[x]
<1>0. queue \in [Port -> Seq(Message)] /\ fate \in [Message -> Fate] /\ "handled" \in Fate
  BY DEF TypeOKShared, Fate
<1>1. /\ Head(queue[p]) \in Message /\ Tail(queue[p]) \in Seq(Message)
      /\ Head(queue[p]) \in ToSet(queue[p])
      /\ ToSet(queue[p]) = {Head(queue[p])} \cup ToSet(Tail(queue[p]))
  BY <1>0, Taken
<1>2. \A q \in Port : queue'[q] = IF q = p THEN Tail(queue[p]) ELSE queue[q]
  BY <1>0 DEF Skip
<1>3. queue' \in [Port -> Seq(Message)]
  BY <1>0, <1>1 DEF Skip
<1>4. fate' = [fate EXCEPT ![Head(queue[p])] = "handled"]
  BY DEF Skip, Becomes
<1> QED
  BY <1>0, <1>1, <1>2, <1>3, <1>4

-----------------------------------------------------------------------------
(* What a step does to the messages: one is stored, dropped or marked, or   *)
(* the session at the broker ends, or the board is reset, or none is moved. *)

Held == ToSet(gateway) \cup ToSet(inbox)

Stores ==
  \E p \in Port, m \in Message :
    /\ Store(p, m)
    /\ m \in Held \/ m \in ToSet(Inbound[Serial])
    /\ Held' \subseteq Held /\ Held \subseteq Held' \cup {m}
    /\ UNCHANGED offered

Drops ==
  \E p \in Port :
    /\ queue[p] # <<>> /\ Skip(p)
    /\ Head(queue[p]) \in Foreign => ToSet(RelayedPorts) \subseteq offered[Head(queue[p])]
    /\ UNCHANGED <<faults, gateway, inbox, offered>>

\* The message that is fetched has no room in the buffer, or not in what its
\* predecessor has left of it.
TooLarge(m) ==
  /\ gateway # <<>> /\ m = Head(gateway)
  /\ Size[m] > Capacity \/ (at = "receive" /\ Size[m] > room)

Marks ==
  \E m \in Message, f \in {"waiting", "unheard", "overflow"} :
    /\ Becomes(m, f)
    /\ m \in Held \/ m \in ToSet(Inbound[Gsm]) \/ MessageArrives(m)
    /\ Held' \subseteq Held \cup {m}
    /\ Held \subseteq Held' \cup {m} /\ (f = "waiting" => m \in Held')
    /\ f = "overflow" => TooLarge(m)
    /\ UNCHANGED <<queue, faults, offered>>

Moves ==
  /\ UNCHANGED <<queue, fate, gateway, inbox>>
  /\ faults' = faults \/ Fault
  /\ \/ UNCHANGED offered
     \/ \E m \in Message, p \in {Gsm, Iridium} :
          offered' = [offered EXCEPT ![m] = @ \cup {p}]

LEMMA WorldMessages ==
  TypeOK /\ World =>
    Marks \/ (SessionExpires /\ UNCHANGED <<gateway, offered>>) \/ Restart \/ Moves
<1> SUFFICES ASSUME TypeOK, World, ~Restart
             PROVE  Marks \/ (SessionExpires /\ UNCHANGED <<gateway, offered>>) \/ Moves
  OBVIOUS
<1>1. ASSUME NEW m \in Message, MessageArrives(m), UNCHANGED <<gsmVars, routerVars>>
      PROVE  Marks
  <2>1. ToSet(gateway') = ToSet(gateway) \cup {m} /\ inbox' = inbox
    <3>1. gateway' = Append(gateway, m) /\ gateway \in Seq(Message) /\ UNCHANGED inbox
      BY <1>1 DEF MessageArrives, TypeOK, TypeOKIridium, gsmVars, netVars
    <3> QED
      BY <3>1, MessageAppended
  <2> QED
    BY <1>1, <2>1 DEF MessageArrives, Marks, Held, routerVars
<1>2. ASSUME NEW m \in Message, BackendPublishes(m), UNCHANGED <<iridiumVars, routerVars>>
      PROVE  Marks
  <2>1. UNCHANGED <<gateway, offered, queue, faults>>
    BY <1>2 DEF BackendPublishes, iridiumVars, routerVars
  <2>2. CASE subscribed
    <3>1. ToSet(inbox') = ToSet(inbox) \cup {m}
      <4>1. inbox' = Append(inbox, m) /\ inbox \in Seq(Message)
        BY <1>2, <2>2 DEF BackendPublishes, TypeOK, TypeOKGsm
      <4> QED
        BY <4>1, MessageAppended
    <3> QED
      BY <1>2, <2>1, <2>2, <3>1 DEF BackendPublishes, IsNext, Marks, Held
  <2>3. CASE ~subscribed
    BY <1>2, <2>1, <2>3 DEF BackendPublishes, IsNext, Marks, Held
  <2> QED
    BY <2>2, <2>3
<1>3. ASSUME LinkBreaks, UNCHANGED <<iridiumVars, routerVars>>
      PROVE  Moves
  BY <1>3 DEF LinkBreaks, Moves, iridiumVars, routerVars
<1>4. ASSUME SessionExpires, UNCHANGED <<iridiumVars, routerVars>>
      PROVE  SessionExpires /\ UNCHANGED <<gateway, offered>>
  BY <1>4 DEF iridiumVars, routerVars
<1> QED
  BY <1>1, <1>2, <1>3, <1>4 DEF World

LEMMA IridiumMessages == TypeOK /\ IridiumStep => Stores \/ Marks \/ Moves
<1> SUFFICES ASSUME TypeOK, IridiumStep PROVE Stores \/ Marks \/ Moves
  OBVIOUS
<1>0. UNCHANGED <<inbox, offered>> /\ gateway \in Seq(Message)
  BY DEF IridiumStep, gsmVars, netVars, routerVars, TypeOK, TypeOKIridium
<1>1. ASSUME Takes
      PROVE  /\ Head(gateway) \in Message /\ Head(gateway) \in Held
             /\ Held' \subseteq Held /\ Held \subseteq Held' \cup {Head(gateway)}
  BY <1>0, <1>1, Taken DEF Takes, Held
<1>2. ASSUME NEW r, Fetches(r) PROVE Stores
  BY <1>0, <1>1, <1>2 DEF Fetches, Stores, Port
<1>3. ASSUME NEW r, Overflows(r), r = Capacity \/ (at = "receive" /\ r = room) PROVE Marks
  <2>1. TooLarge(Head(gateway))
    BY <1>3 DEF Overflows, Takes, TooLarge
  <2> QED
    BY <1>0, <1>1, <1>3, <2>1 DEF Overflows, Marks
<1>4. ASSUME FetchesNothing \/ SessionFails PROVE Moves
  BY <1>0, <1>4 DEF FetchesNothing, SessionFails, Moves
<1>5. CASE IridiumSync
  BY <1>0, <1>5 DEF IridiumSync, Moves
<1>6. CASE Receive \/ IridiumSend
  BY <1>2, <1>3, <1>4, <1>6 DEF Receive, IridiumSend
<1> QED
  BY <1>5, <1>6 DEF IridiumStep

LEMMA RouterMessages == TypeOK /\ ControlInv /\ HeadInv /\ RouterStep => Stores \/ Drops \/ Moves
<1> SUFFICES ASSUME TypeOK, ControlInv, HeadInv, RouterStep PROVE Stores \/ Drops \/ Moves
  OBVIOUS
<1>1. CASE SerialDelivers
  <2>1. PICK m \in Message : IsNext(Serial, m) /\ Store(Serial, m)
    BY <1>1 DEF SerialDelivers
  <2> QED
    BY <1>1, <2>1 DEF SerialDelivers, IsNext, Stores, Port, Held, iridiumVars, gsmVars, netVars, routerVars
<1>2. CASE Peek
  <2>0. turn \in 1 .. 3 /\ Ports_[turn] \in Port
    BY <1>2, Lists DEF Peek, ControlInv, ControlType
  <2>1. CASE Skip(Ports_[turn]) /\ Head(queue[Ports_[turn]]) \in Broken
    <3>1. Head(queue[Ports_[turn]]) \notin Foreign
      BY <2>1, PortsAssumption
    <3> QED
      BY <1>2, <2>0, <2>1, <3>1 DEF Peek, Drops, iridiumVars, gsmVars, netVars
  <2>2. CASE UNCHANGED <<queue, fate>>
    BY <1>2, <2>2 DEF Peek, Moves, iridiumVars, gsmVars, netVars
  <2> QED
    BY <1>2, <2>1, <2>2 DEF Peek
<1>3. CASE Relay
  <2>1. /\ turn \in 1 .. 3 /\ Ports_[turn] \in Port /\ queue[Ports_[turn]] # <<>>
        /\ hop \in 1 .. 2 /\ RelayedPorts[hop] \in {Gsm, Iridium}
    BY <1>3, Lists DEF Relay, HeadInv, ControlInv, ControlType
  <2>2. Head(queue[Ports_[turn]]) \in Message
    BY <2>1 DEF TypeOK, TypeOKShared
  <2> QED
    BY <1>3, <2>1, <2>2 DEF Relay, Moves, iridiumVars, gsmVars, netVars
<1>4. CASE RelayEnds
  <2>1. /\ Ports_[turn] \in Port /\ queue[Ports_[turn]] # <<>> /\ hop > 2
        /\ \A k \in 1 .. 2 : RelayedPorts[k] \in offered[Head(queue[Ports_[turn]])]
    BY <1>4, Lists DEF RelayEnds, HeadInv, ControlInv, ControlType
  <2>2. ToSet(RelayedPorts) \subseteq offered[Head(queue[Ports_[turn]])]
    BY <2>1, Lists
  <2> QED
    BY <1>4, <2>1, <2>2 DEF RelayEnds, Drops, iridiumVars, gsmVars, netVars
<1>5. CASE RunnerEnds
  <2>1. /\ Ports_[turn] \in Port /\ queue[Ports_[turn]] # <<>>
        /\ Head(queue[Ports_[turn]]) \notin Foreign
    BY <1>5, Lists DEF RunnerEnds, HeadInv, ControlInv, ControlType, PlaceInv, Sending
  <2>2. CASE Skip(Ports_[turn])
    BY <1>5, <2>1, <2>2 DEF RunnerEnds, Drops, iridiumVars, netVars
  <2>3. CASE UNCHANGED <<queue, fate>>
    BY <1>5, <2>3 DEF RunnerEnds, Moves, iridiumVars, netVars
  <2> QED
    BY <1>5, <2>2, <2>3 DEF RunnerEnds
<1>6. CASE RunBegins \/ SerialSynced \/ Synced \/ NoPacket \/ EmptyPort
  BY <1>6
  DEF RunBegins, SerialSynced, Synced, NoPacket, EmptyPort, Moves,
      shared, iridiumVars, gsmVars, netVars, routerVars
<1>7. CASE SerialSend \/ Relayed \/ Answer \/ RunEnds
  BY <1>7 DEF SerialSend, Relayed, Answer, RunEnds, Moves, iridiumVars, gsmVars, netVars, routerVars
<1> QED
  BY <1>1, <1>2, <1>3, <1>4, <1>5, <1>6, <1>7 DEF RouterStep

LEMMA Messages ==
  ASSUME TypeOK, ControlInv, HeadInv, [Next]_vars
  PROVE  \/ Stores \/ Drops \/ Marks \/ Moves \/ Restart
         \/ SessionExpires /\ UNCHANGED <<gateway, offered>>
<1>1. CASE World
  BY <1>1, WorldMessages
<1>2. CASE IridiumStep
  BY <1>2, IridiumMessages
<1>3. CASE RouterStep
  BY <1>3, RouterMessages
<1>4. CASE GsmStep
  BY <1>4
  DEF GsmStep, GsmBegins, TryConnect, Connected, Polled, Publish, EndMessage, Moves,
      iridiumVars, routerVars, gsmVars, netVars
<1>5. CASE Handler
  <2>1. /\ Head(inbox) \in Message /\ Head(inbox) \in ToSet(inbox)
        /\ ToSet(inbox) = {Head(inbox)} \cup ToSet(inbox')
    BY <1>5, Taken DEF Handler, MessageHandler, TypeOK, TypeOKGsm
  <2> QED
    BY <1>5, <2>1 DEF Handler, MessageHandler, Stores, Held, Port, iridiumVars, routerVars
<1>6. CASE Reporting
  BY <1>6 DEF Reporting, Report, Moves, iridiumVars, gsmVars, netVars, routerVars
<1>7. CASE UNCHANGED vars
  BY <1>7 DEF vars, shared, Moves, iridiumVars, gsmVars, netVars, routerVars
<1> QED
  BY <1>1, <1>2, <1>3, <1>4, <1>5, <1>6, <1>7 DEF Next

-----------------------------------------------------------------------------
(* The packet at hand stays at the head of its port. *)

Grows ==
  \A p \in Port : queue[p] # <<>> => queue'[p] # <<>> /\ Head(queue'[p]) = Head(queue[p])

LEMMA StoresGrow == TypeOK /\ (Stores \/ Marks \/ Moves) => Grows
  BY StoreType DEF TypeOK, Stores, Marks, Moves, Grows

LEMMA HeadStays ==
  ASSUME HeadInv, Grows, UNCHANGED <<turn, hop, offered>>,
         call' = call \/ call' \notin {"relay", "answer"},
         at' \notin {"relay", "runner"}
  PROVE  HeadInv'
<1>1. CASE call' \in {"relay", "answer"}
  <2>1. turn \in 1 .. 3 /\ Ports_[turn] \in Port /\ queue[Ports_[turn]] # <<>>
    BY <1>1, Lists DEF HeadInv
  <2>2. queue'[Ports_[turn]] # <<>> /\ Head(queue'[Ports_[turn]]) = Head(queue[Ports_[turn]])
    BY <2>1 DEF Grows
  <2> QED
    BY <1>1, <2>1, <2>2 DEF HeadInv
<1>2. CASE call' \notin {"relay", "answer"}
  BY <1>2 DEF HeadInv
<1> QED
  BY <1>1, <1>2

LEMMA InitHead == Init => HeadInv
  BY DEF Init, InitShared, HeadInv

LEMMA RouterHead == TypeOK /\ ControlInv /\ HeadInv /\ RouterStep => HeadInv'
<1> SUFFICES ASSUME TypeOK, ControlInv, HeadInv, RouterStep PROVE HeadInv'
  OBVIOUS
<1>0. /\ call \in {"none", "sync", "relay", "answer", "report"}
      /\ turn \in 1 .. 4 /\ hop \in 1 .. 3
      /\ \A m \in Message : offered[m] \subseteq ToSet(RelayedPorts)
  BY Lists DEF ControlInv, ControlType, HeadInv
<1>1. CASE SerialDelivers \/ SerialSend
  <2>1. Grows
    <3>1. CASE SerialDelivers
      <4>1. PICK m \in Message : Store(Serial, m)
        BY <3>1 DEF SerialDelivers
      <4> QED
        BY <4>1, StoreType DEF Grows, TypeOK, Port
    <3>2. CASE SerialSend
      BY <3>2 DEF SerialSend, Grows
    <3> QED
      BY <1>1, <3>1, <3>2
  <2>2. /\ UNCHANGED <<turn, hop, offered, call>> /\ at' \notin {"relay", "runner"}
    BY <1>0, <1>1, ReturnPlace
    DEF SerialDelivers, SerialSend, routerVars, ControlInv, PlaceInv, Sending
  <2> QED
    BY <2>1, <2>2, HeadStays
<1>2. CASE Peek
  <2>1. /\ turn \in 1 .. 3 /\ queue[Ports_[turn]] # <<>> /\ call' = "none" /\ hop' = 1
        /\ UNCHANGED offered
    BY <1>0, <1>2, Lists DEF Peek, ControlInv, PlaceInv, Sending
  <2>2. CASE at' = "peek"
    BY <1>0, <2>1, <2>2 DEF HeadInv
  <2>3. CASE at' # "peek"
    <3>1. /\ UNCHANGED <<queue, turn>>
          /\ \/ at' = "relay" /\ Head(queue[Ports_[turn]]) \in Foreign
             \/ at' = "runner" /\ Head(queue[Ports_[turn]]) \notin Foreign
      BY <1>2, <2>3 DEF Peek, Go
    <3> QED
      BY <1>0, <2>1, <3>1, Lists DEF HeadInv
  <2> QED
    BY <2>2, <2>3
<1>3. CASE Relay
  <2> DEFINE m == Head(queue[Ports_[turn]])
  <2>1. /\ turn \in 1 .. 3 /\ queue[Ports_[turn]] # <<>> /\ Ports_[turn] \in Port
        /\ call = "none" /\ call' = "relay" /\ at' \notin {"relay", "runner"} /\ hop \in 1 .. 2
        /\ RelayedPorts[hop] \in {Gsm, Iridium}
        /\ m \in Foreign /\ UNCHANGED <<queue, turn, hop>>
        /\ offered' = [offered EXCEPT ![m] = @ \cup {RelayedPorts[hop]}]
    BY <1>0, <1>3, Lists
    DEF Relay, SendToPort, Go, HeadInv, ControlInv, PlaceInv, Sending
  <2>2. m \in Message /\ offered \in [Message -> SUBSET Port]
    BY <2>1, PortsAssumption DEF TypeOK
  <2>3. \A k \in 1 .. 2 : k < hop => RelayedPorts[k] \in offered[m]
    BY <1>3, <2>1, Lists DEF HeadInv, Relay
  <2>4. /\ \A x \in Message : offered'[x] \subseteq ToSet(RelayedPorts)
        /\ \A k \in 1 .. 2 : k < hop \/ k = hop => RelayedPorts[k] \in offered'[m]
    BY <1>0, <2>1, <2>2, <2>3, Lists
  <2> HIDE DEF m
  <2>5. Head(queue'[Ports_[turn']]) = m
    BY <2>1 DEF m
  <2> QED
    BY <2>1, <2>4, <2>5, Lists DEF HeadInv
<1>4. CASE Relayed
  <2>1. /\ call = "relay" /\ call' = "none" /\ hop' = hop + 1 /\ at' = "relay"
        /\ UNCHANGED <<queue, turn, offered>>
    BY <1>0, <1>4 DEF Relayed, Go, ControlInv, PlaceInv, Sending
  <2>2. \A k \in 1 .. 2 : k < hop' => k < hop \/ k = hop
    BY <1>0, <2>1
  <2> QED
    BY <1>0, <2>1, <2>2, Lists DEF HeadInv
<1>5. CASE Answer
  <2>1. /\ call' = "answer" /\ at = "runner" /\ at' \notin {"relay", "runner"}
        /\ UNCHANGED <<queue, turn, hop, offered>>
    BY <1>0, <1>5, Lists
    DEF Answer, SendToPort, Go, routerVars, HeadInv, Port
  <2> QED
    BY <2>1 DEF HeadInv
<1>6. CASE RunBegins \/ SerialSynced \/ Synced \/ NoPacket \/ EmptyPort \/ RelayEnds \/ RunnerEnds \/ RunEnds
  <2>1. at' \notin {"relay", "runner"} /\ call' \in {"none", "sync"} /\ UNCHANGED offered
    BY <1>0, <1>6, Lists
    DEF RunBegins, SerialSynced, Synced, NoPacket, EmptyPort, RelayEnds, RunnerEnds, RunEnds,
        Go, SyncOf, shared, routerVars, ControlInv, PlaceInv, Sending
  <2> QED
    BY <1>0, <2>1 DEF HeadInv
<1> QED
  BY <1>1, <1>2, <1>3, <1>4, <1>5, <1>6 DEF RouterStep

LEMMA NextHead == TypeOK /\ ControlInv /\ HeadInv /\ [Next]_vars => HeadInv'
<1> SUFFICES ASSUME TypeOK, ControlInv, HeadInv, [Next]_vars PROVE HeadInv'
  OBVIOUS
<1>0. call \in {"none", "sync", "relay", "answer", "report"}
  BY DEF ControlInv, ControlType
<1>1. CASE World
  <2>1. CASE Restart
    BY <2>1 DEF Restart, HeadInv
  <2>2. CASE ~Restart
    <3>1. UNCHANGED <<at, call, turn, hop, offered, queue>>
      BY <1>1, <2>2
      DEF World, MessageArrives, BackendPublishes, LinkBreaks, SessionExpires, routerVars
    <3> QED
      BY <3>1 DEF HeadInv
  <2> QED
    BY <2>1, <2>2
<1>2. CASE IridiumStep
  <2>1. Grows /\ UNCHANGED <<turn, hop, offered>>
    BY <1>2, IridiumMessages, StoresGrow DEF IridiumStep, routerVars
  <2>2. (call' = call \/ call' = "sync") /\ at' \notin {"relay", "runner"}
    <3>1. CASE IridiumSync
      BY <3>1 DEF IridiumSync
    <3>2. CASE Receive \/ IridiumSend
      <4>1. at \in {"receive", "sbdSend"} /\ call' = call /\ (at' = "receive" \/ Return)
        BY <3>2 DEF Receive, IridiumSend, MoreOrReturn
      <4> QED
        BY <1>0, <4>1, ReturnPlace DEF ControlInv, PlaceInv, Sending
    <3> QED
      BY <1>2, <3>1, <3>2 DEF IridiumStep
  <2> QED
    BY <2>1, <2>2, HeadStays
<1>3. CASE GsmStep
  <2>1. Grows /\ UNCHANGED <<turn, hop, offered>>
    BY <1>3
    DEF GsmStep, GsmBegins, TryConnect, Connected, Polled, Publish, EndMessage, routerVars, Grows
  <2>2. (call' = call \/ call' = "sync") /\ at' \notin {"relay", "runner"}
    BY <1>0, <1>3, ReturnPlace
    DEF GsmStep, GsmBegins, TryConnect, Connected, Polled, Publish, EndMessage, Fails,
        ControlInv, PlaceInv, Sending
  <2> QED
    BY <2>1, <2>2, HeadStays
<1>4. CASE RouterStep
  BY <1>4, RouterHead
<1>5. CASE Handler
  <2>1. Head(inbox) \in Message /\ Store(Gsm, Head(inbox))
    BY <1>5, Taken DEF Handler, MessageHandler, TypeOK, TypeOKGsm
  <2>2. Grows
    BY <2>1, StoreType DEF Grows, TypeOK, Port
  <2>3. UNCHANGED <<at, call, turn, hop, offered>> /\ at \notin {"relay", "runner"}
    BY <1>5 DEF Handler, MessageHandler, routerVars
  <2> QED
    BY <2>2, <2>3, HeadStays
<1>6. CASE Reporting
  <2>1. /\ call' = "report" /\ at' \notin {"relay", "runner"} /\ UNCHANGED <<turn, hop, offered, queue>>
    BY <1>6, Lists DEF Reporting, Report, SendToPort, Go, routerVars
  <2> QED
    BY <2>1, HeadStays DEF Grows
<1>7. CASE UNCHANGED vars
  BY <1>7 DEF vars, shared, routerVars, HeadInv
<1> QED
  BY <1>1, <1>2, <1>3, <1>4, <1>5, <1>6, <1>7 DEF Next

-----------------------------------------------------------------------------
(* What waits at the gateway. *)

\* What is held for the node, or in its queue, has been sent.
SentInv ==
  \A m \in Message : m \in Held \/ (\E p \in Port : m \in ToSet(queue[p])) => fate[m] # "unsent"

LEMMA InitSent == Init => SentInv
<1> SUFFICES ASSUME Init PROVE SentInv
  OBVIOUS
<1>1. ToSet(<<>>) = {}
  BY DEF ToSet
<1> QED
  BY <1>1 DEF Init, InitShared, InitIridium, InitGsm, SentInv, Held

LEMMA NextSent == TypeOK /\ ControlInv /\ HeadInv /\ SentInv /\ [Next]_vars => SentInv'
<1> SUFFICES ASSUME TypeOK, ControlInv, HeadInv, SentInv, [Next]_vars PROVE SentInv'
  OBVIOUS
<1>0. TypeOKShared /\ fate \in [Message -> Fate] /\ ToSet(<<>>) = {}
  BY DEF TypeOK, TypeOKShared, ToSet
<1>1. CASE Stores
  <2>1. PICK p \in Port, m \in Message : Store(p, m) /\ Held' \subseteq Held
    BY <1>1 DEF Stores
  <2>2. fate'[m] # "unsent" /\ \A x \in Message : x # m => fate'[x] = fate[x]
    BY <1>0, <2>1, StoreType
  <2>3. \A q \in Port : ToSet(queue'[q]) \subseteq ToSet(queue[q]) \cup {m}
    BY <1>0, <2>1, StoreType
  <2> QED
    BY <2>1, <2>2, <2>3 DEF SentInv
<1>2. CASE Drops
  <2>1. PICK p \in Port : queue[p] # <<>> /\ Skip(p) /\ UNCHANGED <<gateway, inbox>>
    BY <1>2 DEF Drops
  <2> QED
    BY <1>0, <2>1, SkipType DEF SentInv, Held
<1>3. CASE Marks
  BY <1>0, <1>3 DEF Marks, Becomes, SentInv
<1>4. CASE Moves
  BY <1>4 DEF Moves, SentInv, Held
<1>5. CASE Restart
  BY <1>0, <1>5 DEF Restart, SentInv, Held
<1>6. CASE SessionExpires /\ UNCHANGED <<gateway, offered>>
  BY <1>0, <1>6 DEF SessionExpires, SentInv, Held
<1> QED
  BY <1>1, <1>2, <1>3, <1>4, <1>5, <1>6, Messages

\* Only its arrival makes a message from the satellites one that was sent.
LEMMA UnsentStays ==
  ASSUME TypeOK, ControlInv, HeadInv, SentInv, [Next]_vars,
         ~\E m \in Message : MessageArrives(m)
  PROVE  \A x \in ToSet(Inbound[Iridium]) : fate'[x] = "unsent" <=> fate[x] = "unsent"
<1>0. /\ TypeOKShared /\ fate \in [Message -> Fate]
      /\ ToSet(Inbound[Iridium]) \subseteq Message
      /\ ToSet(Inbound[Iridium]) \cap ToSet(Inbound[Serial]) = {}
      /\ ToSet(Inbound[Iridium]) \cap ToSet(Inbound[Gsm]) = {}
  BY Coming, PortsAssumption DEF TypeOK, TypeOKShared, Port
<1>1. CASE Stores
  BY <1>0, <1>1, StoreType DEF Stores, SentInv
<1>2. CASE Drops
  <2>1. PICK p \in Port : queue[p] # <<>> /\ Skip(p)
    BY <1>2 DEF Drops
  <2> QED
    BY <1>0, <2>1, SkipType DEF SentInv
<1>3. CASE Marks
  BY <1>0, <1>3 DEF Marks, Becomes, SentInv
<1>4. CASE Moves
  BY <1>4 DEF Moves
<1>5. CASE Restart
  BY <1>0, <1>5 DEF Restart
<1>6. CASE SessionExpires /\ UNCHANGED <<gateway, offered>>
  BY <1>0, <1>6 DEF SessionExpires
<1> QED
  BY <1>1, <1>2, <1>3, <1>4, <1>5, <1>6, Messages

\* The message that arrives is the one after the last that came.
LEMMA Arrival ==
  ASSUME TypeOK, NEW n \in 0 .. Len(Inbound[Iridium]), Came(n),
         NEW m \in Message, MessageArrives(m)
  PROVE  n + 1 \in 1 .. Len(Inbound[Iridium]) /\ m = Inbound[Iridium][n + 1] /\ Came(n + 1)'
<1> DEFINE In == Inbound[Iridium]
<1>0. In \in Seq(Message) /\ IsInjective(In) /\ Len(In) \in Nat /\ DOMAIN In = 1 .. Len(In)
  BY PortsAssumption DEF Port
<1>1. m \in ToSet(In) /\ fate[m] = "unsent"
      /\ \A i \in 1 .. Len(In) : fate[In[i]] = "unsent" => \A j \in 1 .. Len(In) : In[j] = m => j <= i
  BY DEF MessageArrives, IsNext
<1>2. PICK j \in 1 .. Len(In) : In[j] = m
  BY <1>0, <1>1, Members
<1>3. j > n
  BY <1>1, <1>2 DEF Came
<1>4. n + 1 \in 1 .. Len(In) /\ fate[In[n + 1]] = "unsent"
  BY <1>0, <1>2, <1>3 DEF Came
<1>5. j = n + 1
  BY <1>1, <1>2, <1>3, <1>4
<1>6. \A i \in 1 .. Len(In) : fate'[In[i]] = IF i = n + 1 THEN "waiting" ELSE fate[In[i]]
  <2>1. \A i \in 1 .. Len(In) : In[i] = m <=> i = n + 1
    BY <1>0, <1>2, <1>5 DEF IsInjective
  <2>2. \A i \in 1 .. Len(In) : In[i] \in Message
    BY <1>0
  <2>3. fate' = [fate EXCEPT ![m] = "waiting"] /\ fate \in [Message -> Fate]
    BY DEF MessageArrives, Becomes, TypeOK, TypeOKShared
  <2> QED
    BY <2>1, <2>2, <2>3
<1>7. \A i \in 1 .. Len(In) : fate'[In[i]] = "unsent" <=> i > n + 1
  BY <1>6 DEF Came
<1> QED
  BY <1>2, <1>4, <1>5, <1>7 DEF Came

LEMMA CameStays ==
  ASSUME NEW n, Came(n),
         \A x \in ToSet(Inbound[Iridium]) : fate'[x] = "unsent" <=> fate[x] = "unsent"
  PROVE  Came(n)'
<1>1. Inbound[Iridium] \in Seq(Message)
  BY Coming DEF Port
<1>2. \A i \in 1 .. Len(Inbound[Iridium]) : Inbound[Iridium][i] \in ToSet(Inbound[Iridium])
  BY <1>1, Members
<1> QED
  BY <1>2 DEF Came

\* A session takes the oldest message, and leaves its size in room.
LEMMA SessionWaits ==
  ASSUME TypeOK, ControlInv,
         NEW n \in 0 .. Len(Inbound[Iridium]), NEW a \in 0 .. n, Waits(a, n), Came(n)',
         Receive \/ IridiumSend
  PROVE  GatewayInv'
<1>0. /\ gateway \in Seq(Message) /\ Len(gateway) = n - a
      /\ \A k \in 1 .. n - a : gateway[k] = Inbound[Iridium][a + k]
  BY DEF Waits, TypeOK, TypeOKIridium
<1>1. ASSUME Takes, at' = "receive" => room' = Capacity \/ room' = Received
      PROVE  GatewayInv'
  <2>1. /\ a + 1 \in 0 .. n /\ Head(gateway) = Inbound[Iridium][a + 1]
        /\ gateway' = Tail(gateway) /\ Len(gateway') = n - (a + 1)
        /\ \A k \in 1 .. n - (a + 1) : gateway'[k] = gateway[k + 1]
    BY <1>0, <1>1 DEF Takes
  <2>2. \A k \in 1 .. n - (a + 1) : gateway'[k] = Inbound[Iridium][(a + 1) + k]
    <3>1. \A k \in 1 .. n - (a + 1) : k + 1 \in 1 .. n - a /\ a + (k + 1) = (a + 1) + k
      OBVIOUS
    <3> QED
      BY <1>0, <2>1, <3>1
  <2>3. at' = "receive" => room' = Capacity \/ (a + 1 > 0 /\ room' = Size[Inbound[Iridium][a + 1]])
    BY <1>1, <2>1 DEF Takes, Received
  <2>4. Waits(a + 1, n)'
    BY <2>1, <2>2, <2>3 DEF Waits
  <2> QED
    BY <2>1, <2>4 DEF GatewayInv
<1>2. ASSUME UNCHANGED gateway, at' # "receive"
      PROVE  GatewayInv'
  <2>1. Waits(a, n)'
    BY <1>0, <1>2 DEF Waits
  <2> QED
    BY <2>1 DEF GatewayInv
<1>3. Return => at' # "receive"
  <2>1. call \in {"none", "sync", "relay", "answer", "report"} /\ call # "none"
    BY DEF ControlInv, ControlType, PlaceInv, Sending, Receive, IridiumSend
  <2> QED
    BY <2>1, ReturnPlace
<1>4. ASSUME NEW r, FetchesNothing, MoreOrReturn(r)
      PROVE  GatewayInv'
  BY <1>2, <1>3, <1>4 DEF FetchesNothing, MoreOrReturn
<1>5. ASSUME NEW s, NEW r \in {Capacity, Received}, Fetches(s), MoreOrReturn(r)
      PROVE  GatewayInv'
  BY <1>1, <1>3, <1>5 DEF Fetches, MoreOrReturn
<1>6. ASSUME NEW s, Overflows(s), Return
      PROVE  GatewayInv'
  BY <1>1, <1>3, <1>6 DEF Overflows
<1>7. ASSUME SessionFails, Return
      PROVE  GatewayInv'
  BY <1>2, <1>3, <1>7 DEF SessionFails
<1> QED
  BY <1>4, <1>5, <1>6, <1>7 DEF Receive, IridiumSend

LEMMA InitGateway == Init => GatewayInv
<1> SUFFICES ASSUME Init PROVE GatewayInv
  OBVIOUS
<1>1. /\ Inbound[Iridium] \in Seq(Message) /\ Len(Inbound[Iridium]) \in Nat
      /\ \A i \in 1 .. Len(Inbound[Iridium]) : Inbound[Iridium][i] \in Message
  BY Coming DEF Port
<1>2. Waits(0, 0)
  BY <1>1 DEF Init, InitShared, InitIridium, Waits, Came
<1> QED
  BY <1>1, <1>2 DEF GatewayInv

LEMMA NextGateway ==
  TypeOK /\ ControlInv /\ HeadInv /\ SentInv /\ GatewayInv /\ [Next]_vars => GatewayInv'
<1> SUFFICES ASSUME TypeOK, ControlInv, HeadInv, SentInv, GatewayInv, [Next]_vars PROVE GatewayInv'
  OBVIOUS
<1>0. PICK n \in 0 .. Len(Inbound[Iridium]) : \E a \in 0 .. n : Waits(a, n)
  BY DEF GatewayInv
<1>1. PICK a \in 0 .. n : Waits(a, n)
  BY <1>0
<1>2. CASE \E m \in Message : MessageArrives(m)
  <2>1. PICK m \in Message : MessageArrives(m)
    BY <1>2
  <2>2. n + 1 \in 1 .. Len(Inbound[Iridium]) /\ m = Inbound[Iridium][n + 1] /\ Came(n + 1)'
    BY <1>1, <2>1, Arrival DEF Waits
  <2>3. /\ gateway \in Seq(Message) /\ gateway' = Append(gateway, m) /\ UNCHANGED <<at, room>>
        /\ Len(gateway) = n - a
    BY <1>1, <2>1 DEF MessageArrives, TypeOK, TypeOKIridium, Waits
  <2>4. /\ Len(gateway') = (n + 1) - a
        /\ \A k \in 1 .. n - a : gateway'[k] = gateway[k]
        /\ gateway'[(n + 1) - a] = m
    BY <2>3
  <2>5. \A k \in 1 .. (n + 1) - a : gateway'[k] = Inbound[Iridium][a + k]
    <3>1. \A k \in 1 .. (n + 1) - a : k \in 1 .. n - a \/ (k = (n + 1) - a /\ a + k = n + 1)
      OBVIOUS
    <3> QED
      BY <1>1, <2>2, <2>4, <3>1 DEF Waits
  <2>6. Waits(a, n + 1)'
    BY <1>1, <2>2, <2>3, <2>4, <2>5 DEF Waits
  <2>7. n + 1 \in 0 .. Len(Inbound[Iridium]) /\ a \in 0 .. n + 1
    BY <2>2
  <2> QED
    BY <2>6, <2>7 DEF GatewayInv
<1>3. CASE ~\E m \in Message : MessageArrives(m)
  <2>1. Came(n)'
    BY <1>1, <1>3, UnsentStays, CameStays DEF Waits
  <2>2. ASSUME UNCHANGED gateway, at' = "receive" => room' = Capacity \/ (at = "receive" /\ UNCHANGED room)
        PROVE  GatewayInv'
    <3>1. Waits(a, n)'
      BY <1>1, <2>1, <2>2 DEF Waits
    <3> QED
      BY <3>1 DEF GatewayInv
  <2>3. CASE IridiumStep
    <3>1. CASE IridiumSync
      BY <2>2, <3>1 DEF IridiumSync
    <3>2. CASE Receive \/ IridiumSend
      BY <1>1, <2>1, <3>2, SessionWaits
    <3> QED
      BY <2>3, <3>1, <3>2 DEF IridiumStep
  <2>4. CASE World
    BY <1>3, <2>2, <2>4
    DEF World, BackendPublishes, LinkBreaks, SessionExpires, Restart, iridiumVars
  <2>5. CASE RouterStep
    <3>1. UNCHANGED <<gateway, room>>
      BY <2>5
      DEF RouterStep, RunBegins, SerialDelivers, SerialSynced, Synced, NoPacket, EmptyPort, Peek,
          SerialSend, Relay, Relayed, RelayEnds, Answer, RunnerEnds, RunEnds, iridiumVars
    <3>2. at' # "receive"
      <4>1. CASE SerialSend
        BY <4>1, ReturnPlace DEF SerialSend, ControlInv, ControlType, PlaceInv, Sending
      <4>2. CASE Relay \/ Answer
        BY <4>2, Lists DEF Relay, Answer, SendToPort, Go, HeadInv, Port, ControlInv, ControlType
      <4>3. CASE ~SerialSend /\ ~Relay /\ ~Answer
        BY <2>5, <4>3, Lists
        DEF RouterStep, RunBegins, SerialDelivers, SerialSynced, Synced, NoPacket, EmptyPort, Peek,
            Relayed, RelayEnds, RunnerEnds, RunEnds, Go, SyncOf, shared, ControlInv, ControlType
      <4> QED
        BY <4>1, <4>2, <4>3
    <3> QED
      BY <2>2, <3>1, <3>2
  <2>6. CASE GsmStep
    <3>1. UNCHANGED <<gateway, room>> /\ at \in {"gsm", "gsmSend", "dialling", "connecting", "polling", "publish", "ending"}
      BY <2>6
      DEF GsmStep, GsmBegins, TryConnect, Connected, Polled, Publish, EndMessage, iridiumVars
    <3>2. at' # "receive"
      BY <2>6, <3>1, ReturnPlace
      DEF GsmStep, GsmBegins, TryConnect, Connected, Polled, Publish, EndMessage, Fails,
          ControlInv, ControlType, PlaceInv, Sending
    <3> QED
      BY <2>2, <3>1, <3>2
  <2>7. CASE Handler
    BY <2>2, <2>7 DEF Handler, MessageHandler, iridiumVars
  <2>8. CASE Reporting
    BY <2>2, <2>8, Lists DEF Reporting, Report, SendToPort, Go, iridiumVars
  <2>9. CASE UNCHANGED vars
    BY <2>2, <2>9 DEF vars, shared, iridiumVars
  <2> QED
    BY <2>3, <2>4, <2>5, <2>6, <2>7, <2>8, <2>9 DEF Next
<1> QED
  BY <1>2, <1>3

-----------------------------------------------------------------------------
(* The types of the rest. *)

LEMMA QueueTypes ==
  ASSUME TypeOK, ControlInv, HeadInv, [Next]_vars
  PROVE  /\ queue' \in [Port -> Seq(Message)] /\ fate' \in [Message -> Fate]
         /\ faults' \in 0 .. MaxFaults /\ offered' \in [Message -> SUBSET Port]
<1>0. /\ TypeOKShared /\ queue \in [Port -> Seq(Message)] /\ fate \in [Message -> Fate]
      /\ faults \in 0 .. MaxFaults /\ offered \in [Message -> SUBSET Port] /\ MaxFaults \in Nat
  BY PortsAssumption DEF TypeOK, TypeOKShared
<1>1. CASE Stores
  BY <1>0, <1>1, StoreType DEF Stores
<1>2. CASE Drops
  BY <1>0, <1>2, SkipType DEF Drops
<1>3. CASE Marks
  BY <1>0, <1>3 DEF Marks, Becomes, Fate
<1>4. CASE Moves
  <2>1. UNCHANGED <<queue, fate>>
    BY <1>4 DEF Moves
  <2>2. faults' \in 0 .. MaxFaults
    <3>1. faults' = faults \/ (faults < MaxFaults /\ faults' = faults + 1)
      BY <1>4 DEF Moves, Fault
    <3> QED
      BY <1>0, <3>1
  <2>3. offered' \in [Message -> SUBSET Port]
    <3>1. CASE UNCHANGED offered
      BY <1>0, <3>1
    <3>2. CASE \E m \in Message, p \in {Gsm, Iridium} :
                 offered' = [offered EXCEPT ![m] = @ \cup {p}]
      BY <1>0, <3>2 DEF Port
    <3> QED
      BY <1>4, <3>1, <3>2 DEF Moves
  <2> QED
    BY <1>0, <2>1, <2>2, <2>3
<1>5. CASE Restart
  BY <1>0, <1>5 DEF Restart, Fault, Fate
<1>6. CASE SessionExpires /\ UNCHANGED <<gateway, offered>>
  BY <1>0, <1>6 DEF SessionExpires, Fate
<1> QED
  BY <1>1, <1>2, <1>3, <1>4, <1>5, <1>6, Messages

LEMMA BufferTypes ==
  ASSUME TypeOK, ControlInv, HeadInv, [Next]_vars
  PROVE  out' \in Message \cup Reports \cup {Nothing} /\ intact' \in BOOLEAN
<1>0. out \in Message \cup Reports \cup {Nothing} /\ intact \in BOOLEAN
  BY DEF TypeOK, TypeOKShared
<1>1. CASE World \/ IridiumStep \/ GsmStep \/ Handler
  <2>1. out' \in {out, Nothing}
    BY <1>1
    DEF World, MessageArrives, BackendPublishes, LinkBreaks, SessionExpires, Restart, Handler, MessageHandler,
        IridiumStep, IridiumSync, Receive, IridiumSend,
        GsmStep, GsmBegins, TryConnect, Connected, Polled, Publish, EndMessage
  <2>2. intact' = intact \/ intact' = FALSE
    BY <1>1
    DEF World, MessageArrives, BackendPublishes, LinkBreaks, SessionExpires, Restart, Handler, MessageHandler,
        IridiumStep, IridiumSync, Receive, IridiumSend, MoreOrReturn, Return,
        GsmStep, GsmBegins, TryConnect, Connected, Polled, Publish, EndMessage, Fails
  <2> QED
    BY <1>0, <2>1, <2>2
<1>2. CASE RouterStep
  <2>1. CASE Relay
    <3>1. /\ Ports_[turn] \in Port /\ queue[Ports_[turn]] # <<>>
      BY <2>1, Lists DEF Relay, HeadInv
    <3>2. Head(queue[Ports_[turn]]) \in Message
      BY <3>1 DEF TypeOK, TypeOKShared
    <3> QED
      BY <2>1, <3>2 DEF Relay, SendToPort
  <2>2. CASE Answer
    BY <2>2 DEF Answer, SendToPort
  <2>3. CASE ~Relay /\ ~Answer
    <3>1. out' \in {out, Nothing}
      BY <1>2, <2>3
      DEF RouterStep, RunBegins, SerialDelivers, SerialSynced, Synced, NoPacket, EmptyPort, Peek,
          SerialSend, Relayed, RelayEnds, RunnerEnds, RunEnds, shared
    <3>2. intact' = intact \/ intact' = FALSE
      BY <1>2, <2>3
      DEF RouterStep, RunBegins, SerialDelivers, SerialSynced, Synced, NoPacket, EmptyPort, Peek,
          SerialSend, Return, Relayed, RelayEnds, RunnerEnds, RunEnds, shared
    <3> QED
      BY <1>0, <3>1, <3>2
  <2> QED
    BY <2>1, <2>2, <2>3
<1>3. CASE Reporting
  BY <1>3 DEF Reporting, Report, SendToPort
<1>4. CASE UNCHANGED vars
  BY <1>0, <1>4 DEF vars, shared
<1> QED
  BY <1>1, <1>2, <1>3, <1>4 DEF Next

LEMMA IridiumTypes ==
  ASSUME TypeOK, GatewayInv, [Next]_vars
  PROVE  TypeOKIridium'
<1>0. /\ gateway \in Seq(Message) /\ alert \in BOOLEAN /\ known \in 0 .. Len(Inbound[Iridium])
      /\ room \in Nat /\ Capacity \in Nat /\ Len(Inbound[Iridium]) \in Nat
  BY Coming, PortsAssumption DEF TypeOK, TypeOKIridium, Port
<1>1. Len(gateway) <= Len(Inbound[Iridium])
  BY <1>0 DEF GatewayInv, Waits
<1>2. Received \in Nat
  BY <1>0, Coming DEF Received
<1>3. CASE IridiumStep
  <2>1. CASE IridiumSync
    BY <1>0, <2>1 DEF IridiumSync, TypeOKIridium
  <2>2. CASE Receive \/ IridiumSend
    <3>0. ASSUME NEW r \in Nat, MoreOrReturn(r)
          PROVE  room' \in Nat
      BY <3>0 DEF MoreOrReturn
    <3>1. room' \in Nat
      <4>1. CASE Receive
        BY <1>2, <3>0, <4>1 DEF Receive
      <4>2. CASE IridiumSend
        BY <1>0, <3>0, <4>2 DEF IridiumSend
      <4> QED
        BY <2>2, <4>1, <4>2
    <3>2. CASE Takes
      <4>1. gateway' \in Seq(Message) /\ Len(gateway) \in Nat \ {0}
        BY <1>0, <3>2 DEF Takes
      <4>2. known' \in 0 .. Len(Inbound[Iridium])
        BY <1>0, <1>1, <3>2, <4>1 DEF Takes
      <4>3. alert' \in BOOLEAN
        BY <3>2, Zenon DEF Takes
      <4> QED
        BY <3>1, <4>1, <4>2, <4>3, Zenon DEF TypeOKIridium
    <3>3. CASE FetchesNothing \/ SessionFails
      BY <1>0, <3>1, <3>3 DEF FetchesNothing, SessionFails, TypeOKIridium
    <3> QED
      BY <2>2, <3>2, <3>3 DEF Receive, IridiumSend, Fetches, Overflows
  <2> QED
    BY <1>3, <2>1, <2>2 DEF IridiumStep
<1>4. CASE World
  <2>1. ASSUME NEW m \in Message, MessageArrives(m)
        PROVE  TypeOKIridium'
    <3>1. gateway' \in Seq(Message) /\ UNCHANGED <<known, room>>
      BY <1>0, <2>1 DEF MessageArrives
    <3>2. alert' \in BOOLEAN
      BY <1>0, <2>1, Zenon DEF MessageArrives
    <3> QED
      BY <1>0, <3>1, <3>2 DEF TypeOKIridium
  <2>2. CASE UNCHANGED iridiumVars
    BY <1>0, <2>2 DEF iridiumVars, TypeOKIridium
  <2>3. CASE Restart
    <3>1. UNCHANGED gateway /\ alert' = FALSE /\ known' = 0 /\ room' = 0
      BY <2>3, Zenon DEF Restart
    <3>2. known' \in 0 .. Len(Inbound[Iridium]) /\ room' \in Nat
      BY <1>0, <3>1
    <3>3. alert' \in BOOLEAN /\ gateway' \in Seq(Message)
      BY <1>0, <3>1, Zenon
    <3> QED
      BY <3>2, <3>3, Zenon DEF TypeOKIridium
  <2> QED
    BY <1>4, <2>1, <2>2, <2>3 DEF World
<1>5. CASE ~IridiumStep /\ ~World
  <2>1. UNCHANGED iridiumVars
    BY <1>5
    DEF Next, GsmStep, Handler, Reporting, Report, RouterStep, RunBegins, SerialDelivers, SerialSynced,
        Synced, NoPacket, EmptyPort, Peek, SerialSend, Relay, Relayed, RelayEnds, Answer, RunnerEnds,
        RunEnds, vars
  <2> QED
    BY <1>0, <2>1 DEF iridiumVars, TypeOKIridium
<1> QED
  BY <1>3, <1>4, <1>5

LEMMA GsmTypes ==
  ASSUME TypeOK, ControlInv, [Next]_vars
  PROVE  TypeOKGsm'
<1> DEFINE
  Net == /\ connected \in BOOLEAN /\ subscribed \in BOOLEAN /\ deaf \in BOOLEAN
         /\ inbox \in Seq(Message)
  Sent == /\ redialled \in BOOLEAN /\ verdict \in BOOLEAN /\ reached \in BOOLEAN /\ cut \in BOOLEAN
          /\ body \in {"none", "own", "other"}
<1>0. Net /\ Sent
  BY DEF TypeOK, TypeOKGsm
<1>1. Net' /\ Sent' => TypeOKGsm'
  BY DEF TypeOKGsm
<1>2. UNCHANGED netVars => Net'
  BY <1>0 DEF netVars
<1>3. UNCHANGED sendHistory => Sent'
  BY <1>0 DEF sendHistory
<1>4. Forget => Sent'
  BY DEF Forget
<1>5. CASE World
  <2>1. CASE UNCHANGED gsmVars
    BY <1>1, <1>2, <1>3, <2>1 DEF gsmVars
  <2>2. ASSUME NEW m \in Message, BackendPublishes(m)
        PROVE  TypeOKGsm'
    <3>1. UNCHANGED sendHistory /\ Net'
      BY <1>0, <2>2 DEF BackendPublishes
    <3> QED
      BY <1>1, <1>3, <3>1
  <2>3. CASE LinkBreaks
    <3>1. Net' /\ cut' \in BOOLEAN /\ UNCHANGED <<redialled, body, verdict, reached>>
      BY <1>0, <2>3 DEF LinkBreaks
    <3> QED
      BY <1>0, <1>1, <3>1
  <2>4. CASE SessionExpires
    <3>1. /\ UNCHANGED <<connected, sendHistory>>
          /\ subscribed' = FALSE /\ deaf' = TRUE /\ inbox' = <<>>
      BY <2>4 DEF SessionExpires
    <3>2. inbox' \in Seq(Message)
      BY <3>1
    <3>3. UNCHANGED sendHistory /\ Net'
      BY <1>0, <3>1, <3>2, Zenon
    <3> QED
      BY <1>1, <1>3, <3>3
  <2>5. CASE Restart
    <3>1. Net'
      BY <1>0, <2>5 DEF Restart
    <3> QED
      BY <1>1, <1>4, <2>5, <3>1 DEF Restart
  <2> QED
    BY <1>5, <2>1, <2>2, <2>3, <2>4, <2>5 DEF World
<1>6. CASE GsmStep
  <2>1. Net'
    BY <1>0, <1>6 DEF GsmStep, GsmBegins, TryConnect, Connected, Polled, Publish, EndMessage, gsmVars, netVars
  <2>2. verdict' \in BOOLEAN
    <3>1. verdict' = verdict \/ verdict' = TRUE \/ verdict' = FALSE
      BY <1>6 DEF GsmStep, GsmBegins, TryConnect, Connected, Polled, Publish, EndMessage, Fails, gsmVars, sendHistory
    <3> QED
      BY <1>0, <3>1
  <2>3. redialled' \in BOOLEAN /\ cut' \in BOOLEAN
    BY <1>0, <1>6 DEF GsmStep, GsmBegins, TryConnect, Connected, Polled, Publish, EndMessage, gsmVars, sendHistory
  <2>4. reached' \in BOOLEAN
    BY <1>0, <1>6 DEF GsmStep, GsmBegins, TryConnect, Connected, Polled, Publish, EndMessage, gsmVars, sendHistory
  <2>5. body' \in {"none", "own", "other"}
    BY <1>0, <1>6 DEF GsmStep, GsmBegins, TryConnect, Connected, Polled, Publish, EndMessage, gsmVars, sendHistory
  <2> QED
    BY <1>1, <2>1, <2>2, <2>3, <2>4, <2>5
<1>7. CASE Handler
  <2>1. UNCHANGED sendHistory /\ Net'
    BY <1>0, <1>7 DEF Handler, MessageHandler
  <2> QED
    BY <1>1, <1>3, <2>1
<1>8. CASE ~World /\ ~GsmStep /\ ~Handler
  <2>1. UNCHANGED netVars /\ (Forget \/ UNCHANGED sendHistory)
    BY <1>8
    DEF Next, IridiumStep, Reporting, Report, RouterStep, RunBegins, SerialDelivers, SerialSynced,
        Synced, NoPacket, EmptyPort, Peek, SerialSend, Relay, Relayed, RelayEnds, Answer, RunnerEnds,
        RunEnds, vars, gsmVars
  <2> QED
    BY <1>1, <1>2, <1>3, <1>4, <2>1
<1> QED
  BY <1>5, <1>6, <1>7, <1>8

LEMMA NextType ==
  ASSUME TypeOK, ControlInv, ControlInv', HeadInv, GatewayInv, [Next]_vars
  PROVE  TypeOK'
<1>1. at' \in Place /\ call' \in {"none", "sync", "relay", "answer", "report"}
  <2>1. ControlType' /\ PlaceInv'
    BY DEF ControlInv
  <2>2. call' \in {"none", "sync", "relay", "answer", "report"}
    BY <2>1 DEF ControlType
  <2> QED
    BY <2>1, <2>2 DEF PlaceInv, Sending, Place
<1>2. TypeOKShared'
  BY <1>1, QueueTypes, BufferTypes DEF TypeOKShared
<1> QED
  BY <1>2, IridiumTypes, GsmTypes, QueueTypes DEF TypeOK, ControlInv, ControlType

LEMMA InitType == Init => TypeOK
<1> SUFFICES ASSUME Init PROVE TypeOK
  OBVIOUS
<1>1. TypeOKIridium
  <2>1. /\ gateway \in Seq(Message)
        /\ known \in 0 .. Len(Inbound[Iridium]) /\ room \in Nat
    BY Coming DEF Init, InitIridium, Port
  <2>2. alert \in BOOLEAN
    BY Zenon DEF Init, InitIridium
  <2> QED
    BY <2>1, <2>2 DEF TypeOKIridium
<1>2. TypeOKGsm
  <2>1. /\ connected \in BOOLEAN /\ subscribed \in BOOLEAN /\ redialled \in BOOLEAN
        /\ verdict \in BOOLEAN /\ reached \in BOOLEAN /\ cut \in BOOLEAN
    BY Zenon DEF Init, InitGsm, Subscribes, Announces
  <2>2. deaf \in BOOLEAN
    BY DEF Init, InitGsm, Subscribes
  <2>3. inbox \in Seq(Message) /\ body \in {"none", "own", "other"}
    BY DEF Init, InitGsm
  <2> QED
    BY <2>1, <2>2, <2>3 DEF TypeOKGsm
<1>3. TypeOKShared
  <2>1. intact \in BOOLEAN
    BY Zenon DEF Init, InitShared
  <2>2. /\ at \in Place /\ call = "none" /\ out = Nothing /\ faults \in 0 .. MaxFaults
    BY PortsAssumption DEF Init, InitShared, Place
  <2>3. queue \in [Port -> Seq(Message)] /\ fate \in [Message -> Fate]
    BY DEF Init, InitShared, Fate
  <2> QED
    BY <2>1, <2>2, <2>3 DEF TypeOKShared
<1>4. /\ turn \in 1 .. Len(Ports_) + 1 /\ hop \in 1 .. Len(RelayedPorts) + 1
      /\ offered \in [Message -> SUBSET Port]
  BY Lists DEF Init
<1> QED
  BY <1>1, <1>2, <1>3, <1>4 DEF TypeOK

-----------------------------------------------------------------------------
(* What becomes of the messages. *)

LEMMA InitHears == Init => HearsInv
  BY DEF Init, InitGsm, Subscribes, HearsInv

LEMMA NextHears == HearsInv /\ [Next]_vars => HearsInv'
<1> SUFFICES ASSUME HearsInv, [Next]_vars PROVE HearsInv'
  OBVIOUS
<1>1. CASE SessionExpires \/ Restart
  BY <1>1 DEF SessionExpires, Restart, HearsInv
<1>2. CASE ~SessionExpires /\ ~Restart
  <2>1. UNCHANGED <<subscribed, deaf>>
    BY <1>2
    DEF Next, World, MessageArrives, BackendPublishes, LinkBreaks, IridiumStep, GsmStep, GsmBegins,
        TryConnect, Connected, Polled, Publish, EndMessage, Handler, MessageHandler, Reporting, Report,
        RouterStep, RunBegins, SerialDelivers, SerialSynced, Synced, NoPacket, EmptyPort, Peek,
        SerialSend, Relay, Relayed, RelayEnds, Answer, RunnerEnds, RunEnds, vars, gsmVars, netVars
  <2> QED
    BY <2>1 DEF HearsInv
<1> QED
  BY <1>1, <1>2

LEMMA InitRelayed == Init => RelayedEverywhere
  BY PortsAssumption DEF Init, InitShared, RelayedEverywhere

LEMMA NextRelayed ==
  TypeOK /\ ControlInv /\ HeadInv /\ RelayedEverywhere /\ [Next]_vars => RelayedEverywhere'
<1> SUFFICES ASSUME TypeOK, ControlInv, HeadInv, RelayedEverywhere, [Next]_vars,
                    NEW m \in Foreign, fate'[m] = "handled"
             PROVE  offered'[m] = ToSet(RelayedPorts)
  BY DEF RelayedEverywhere
<1>0. /\ m \in Message /\ fate \in [Message -> Fate] /\ offered \in [Message -> SUBSET Port]
      /\ offered[m] \subseteq ToSet(RelayedPorts)
      /\ fate[m] = "handled" => offered[m] = ToSet(RelayedPorts)
  BY PortsAssumption DEF TypeOK, TypeOKShared, HeadInv, RelayedEverywhere
<1>1. CASE Stores
  BY <1>0, <1>1, StoreType DEF Stores, TypeOK
<1>2. CASE Drops
  BY <1>0, <1>2, SkipType DEF Drops, TypeOK
<1>3. CASE Marks
  BY <1>0, <1>3 DEF Marks, Becomes
<1>4. CASE Moves
  <2>1. fate[m] = "handled"
    BY <1>4 DEF Moves
  <2> QED
    BY <1>0, <1>4, <2>1, Lists DEF Moves
<1>5. CASE Restart
  BY <1>0, <1>5 DEF Restart
<1>6. CASE SessionExpires /\ UNCHANGED <<gateway, offered>>
  BY <1>0, <1>6 DEF SessionExpires
<1> QED
  BY <1>1, <1>2, <1>3, <1>4, <1>5, <1>6, Messages

\* What was accepted waits, and what was stored is in a queue.
Kept ==
  \A m \in Message :
    /\ fate[m] = "waiting" => m \in Held
    /\ fate[m] = "stored" => \E p \in Port : m \in ToSet(queue[p])

LEMMA InitKept == Init => Kept
  BY DEF Init, InitShared, Kept

LEMMA NextKept == TypeOK /\ ControlInv /\ HeadInv /\ Kept /\ [Next]_vars => Kept'
<1> SUFFICES ASSUME TypeOK, ControlInv, HeadInv, Kept, [Next]_vars, NEW m \in Message
             PROVE  /\ fate'[m] = "waiting" => m \in Held'
                    /\ fate'[m] = "stored" => \E p \in Port : m \in ToSet(queue'[p])
  BY DEF Kept
<1>0. /\ fate \in [Message -> Fate] /\ queue \in [Port -> Seq(Message)]
      /\ fate[m] = "waiting" => m \in Held
      /\ fate[m] = "stored" => \E p \in Port : m \in ToSet(queue[p])
  BY DEF TypeOK, TypeOKShared, Kept
<1>1. CASE Stores
  <2>1. PICK p \in Port, x \in Message :
          Store(p, x) /\ Held \subseteq Held' \cup {x}
    BY <1>1 DEF Stores
  <2>2. /\ \A q \in Port : ToSet(queue[q]) \subseteq ToSet(queue'[q])
        /\ x # m => fate'[m] = fate[m]
        /\ \/ fate'[x] = "stored" /\ x \in ToSet(queue'[p])
           \/ fate'[x] = "refused"
    BY <2>1, StoreType DEF TypeOK
  <2> QED
    BY <1>0, <2>1, <2>2
<1>2. CASE Drops
  <2>1. PICK p \in Port : queue[p] # <<>> /\ Skip(p) /\ UNCHANGED <<gateway, inbox>>
    BY <1>2 DEF Drops
  <2>2. /\ \A q \in Port : ToSet(queue[q]) \subseteq ToSet(queue'[q]) \cup {Head(queue[p])}
        /\ fate'[m] = IF m = Head(queue[p]) THEN "handled" ELSE fate[m]
    BY <2>1, SkipType DEF TypeOK
  <2> QED
    BY <1>0, <2>1, <2>2 DEF Held
<1>3. CASE Marks
  <2>1. PICK x \in Message, f \in {"waiting", "unheard", "overflow"} :
          /\ Becomes(x, f) /\ Held \subseteq Held' \cup {x} /\ (f = "waiting" => x \in Held')
          /\ UNCHANGED queue
    BY <1>3 DEF Marks
  <2> QED
    BY <1>0, <2>1 DEF Becomes
<1>4. CASE Moves
  BY <1>0, <1>4 DEF Moves, Held
<1>5. CASE Restart
  BY <1>0, <1>5 DEF Restart, Held
<1>6. CASE SessionExpires /\ UNCHANGED <<gateway, offered>>
  BY <1>0, <1>6 DEF SessionExpires, Held
<1> QED
  BY <1>1, <1>2, <1>3, <1>4, <1>5, <1>6, Messages

\* What was lost for its size.
SizeLoss ==
  \A i \in 1 .. Len(Inbound[Iridium]) :
    fate[Inbound[Iridium][i]] = "overflow" =>
      \/ Size[Inbound[Iridium][i]] > Capacity
      \/ i > 1 /\ Size[Inbound[Iridium][i - 1]] < Size[Inbound[Iridium][i]]

LEMMA InitSize == Init => SizeLoss
<1> SUFFICES ASSUME Init PROVE SizeLoss
  OBVIOUS
<1>1. \A i \in 1 .. Len(Inbound[Iridium]) : Inbound[Iridium][i] \in Message
  BY Coming DEF Port
<1> QED
  BY <1>1 DEF Init, InitShared, SizeLoss

\* Only a message that was too large when it was fetched is lost for its size.
LEMMA NewOverflow ==
  ASSUME TypeOK, ControlInv, HeadInv, [Next]_vars,
         NEW m \in Message, fate'[m] = "overflow", fate[m] # "overflow"
  PROVE  TooLarge(m)
<1>0. fate \in [Message -> Fate]
  BY DEF TypeOK, TypeOKShared
<1>1. CASE Stores
  BY <1>0, <1>1, StoreType DEF Stores, TypeOK
<1>2. CASE Drops
  BY <1>0, <1>2, SkipType DEF Drops, TypeOK
<1>3. CASE Marks
  BY <1>0, <1>3 DEF Marks, Becomes
<1>4. CASE Moves
  BY <1>4 DEF Moves
<1>5. CASE Restart
  BY <1>0, <1>5 DEF Restart
<1>6. CASE SessionExpires /\ UNCHANGED <<gateway, offered>>
  BY <1>0, <1>6 DEF SessionExpires
<1> QED
  BY <1>1, <1>2, <1>3, <1>4, <1>5, <1>6, Messages

LEMMA NextSize ==
  TypeOK /\ ControlInv /\ HeadInv /\ GatewayInv /\ SizeLoss /\ [Next]_vars => SizeLoss'
<1> SUFFICES ASSUME TypeOK, ControlInv, HeadInv, GatewayInv, SizeLoss, [Next]_vars,
                    NEW i \in 1 .. Len(Inbound[Iridium]),
                    fate'[Inbound[Iridium][i]] = "overflow",
                    fate[Inbound[Iridium][i]] # "overflow"
             PROVE  \/ Size[Inbound[Iridium][i]] > Capacity
                    \/ i > 1 /\ Size[Inbound[Iridium][i - 1]] < Size[Inbound[Iridium][i]]
  BY DEF SizeLoss
<1> DEFINE m == Inbound[Iridium][i]
<1>1. /\ Inbound[Iridium] \in Seq(Message) /\ m \in Message
      /\ IsInjective(Inbound[Iridium])
  BY Coming, PortsAssumption DEF Port
<1>2. TooLarge(m)
  <2>1. \A x \in Message : fate'[x] = "overflow" /\ fate[x] # "overflow" => TooLarge(x)
    BY NewOverflow
  <2> QED
    BY <1>1, <2>1
<1>0. PICK n \in 0 .. Len(Inbound[Iridium]) : \E a \in 0 .. n : Waits(a, n)
  BY DEF GatewayInv
<1>3. PICK a \in 0 .. n : Waits(a, n)
  BY <1>0
<1>4. a < n /\ m = Inbound[Iridium][a + 1]
  BY <1>1, <1>2, <1>3 DEF TooLarge, Waits, TypeOK, TypeOKIridium
<1>5. i = a + 1
  BY <1>1, <1>3, <1>4 DEF IsInjective
<1>6. CASE Size[m] > Capacity
  BY <1>6
<1>7. CASE at = "receive" /\ Size[m] > room /\ ~(Size[m] > Capacity)
  <2>1. a > 0 /\ room = Size[Inbound[Iridium][a]]
    BY <1>3, <1>7 DEF Waits
  <2>2. Size[Inbound[Iridium][i - 1]] \in Nat /\ Size[m] \in Nat
    BY <1>1, <1>5, <2>1, Coming
  <2> QED
    BY <1>5, <1>7, <2>1, <2>2
<1> QED
  BY <1>2, <1>6, <1>7 DEF TooLarge

-----------------------------------------------------------------------------
(* The theorems. *)

RouterInv ==
  /\ TypeOK /\ ControlInv /\ HeadInv /\ SentInv /\ GatewayInv
  /\ HearsInv /\ RelayedEverywhere /\ Kept /\ SizeLoss

LEMMA InitInv == Init => RouterInv
  BY InitType, InitControl, InitHead, InitSent, InitGateway, InitHears, InitRelayed, InitKept, InitSize
  DEF RouterInv

LEMMA NextInv == RouterInv /\ [Next]_vars => RouterInv'
<1> SUFFICES ASSUME RouterInv, [Next]_vars PROVE RouterInv'
  OBVIOUS
<1>1. /\ TypeOK /\ ControlInv /\ HeadInv /\ SentInv /\ GatewayInv
      /\ HearsInv /\ RelayedEverywhere /\ Kept /\ SizeLoss
  BY DEF RouterInv
<1>2. ControlInv' /\ HeadInv' /\ SentInv' /\ GatewayInv' /\ HearsInv'
  BY <1>1, NextControl, NextHead, NextSent, NextGateway, NextHears
<1>3. TypeOK'
  BY <1>1, <1>2, NextType
<1>4. RelayedEverywhere' /\ Kept' /\ SizeLoss'
  BY <1>1, NextRelayed, NextKept, NextSize
<1> QED
  BY <1>2, <1>3, <1>4 DEF RouterInv

LEMMA Always == Spec => []RouterInv
  BY InitInv, NextInv, PTL DEF Spec

\* The router, its ports and the one thread are always at a place and in a
\* state that the code knows; no index runs over the lists of ports
\* (Router.cpp, IridiumPort.cpp, GsmMQTTPort.cpp).
THEOREM TypeCorrect == Spec => []TypeOK
<1>1. RouterInv => TypeOK
  BY DEF RouterInv
<1> QED
  BY Always, <1>1, PTL

\* A packet for another node is offered to every relayed port before it is
\* dropped, although each send through a port may receive, and may change the
\* queue whose head it is (Router.cpp).
THEOREM RelaysToAll == Spec => []RelayedEverywhere
<1>1. RouterInv => RelayedEverywhere
  BY DEF RouterInv
<1> QED
  BY Always, <1>1, PTL

\* The packet that was encoded into the shared buffer is the one that is
\* published, but for a send that had to connect first
\* (GsmMQTTPort.cpp, send() and mqttMessageHandler()).
THEOREM PublishesItsPacket == Spec => []CarriesItsPacket
<1>1. RouterInv => CarriesItsPacket
  BY DEF RouterInv, ControlInv, SendInv, CarriesItsPacket
<1> QED
  BY Always, <1>1, PTL

\* send() answers false only for what was not published, and true for what
\* the broker has, or what a break of the connection hid from it.
THEOREM SendTellsTheTruth == Spec => []TrueVerdict
<1>1. RouterInv => TrueVerdict
  BY DEF RouterInv, ControlInv, SendInv
<1> QED
  BY Always, <1>1, PTL

\* A node whose subscription was accepted keeps it until its session expires,
\* however often it connects again, for it does so without a clean session.
THEOREM KeepsSubscription == Spec => []Hears
<1>1. RouterInv => Hears
  BY DEF RouterInv, HearsInv, Hears
<1> QED
  BY Always, <1>1, PTL

\* No message disappears unnoticed: an accepted one waits or was taken, a
\* stored one is in a queue until it was dealt with, and one that the
\* satellites deliver is lost for its size only behind a smaller one, whose
\* size the modem's library has left in rxBufferSize (IridiumPort.cpp).
THEOREM AccountsForAll == Spec => []Accounted
<1>1. RouterInv => Accounted
  BY DEF RouterInv, Kept, Held, SizeLoss, Accounted
<1> QED
  BY Always, <1>1, PTL

-----------------------------------------------------------------------------
(* The serial line. A frame that is read leaves the bytes of the others     *)
(* behind it, so that what is ahead is always the frames of what is owed.  *)

\* From m to n the bytes s hold the frame of the packet p.
FrameAt(s, m, n, p) ==
  /\ n = m + RequiredSize(Len(p))
  /\ s[m + 1] = Start /\ s[m + HeaderSize] = Len(p) /\ s[n] = End
  /\ \A k \in 1 .. Len(p) : s[m + HeaderSize + k] = p[k]

\* The bytes s are the frames of the packets ps, one after the other.
Carries(s, ps) ==
  \E b \in [0 .. Len(ps) -> 0 .. Len(s)] :
    /\ b[0] = 0 /\ b[Len(ps)] = Len(s)
    /\ \A i, j \in 0 .. Len(ps) : i <= j => b[i] <= b[j]
    /\ \A i \in 1 .. Len(ps) : FrameAt(s, b[i - 1], b[i], ps[i])

\* The bytes of the frames that have not been dealt with, and their packets.
Ahead == (IF stage = "payload" THEN rx ELSE <<>>) \o ring \o wire
Owed == Drop(sent, Len(handed))

\* A frame that is read has room in the buffer, whatever the line does.
RoomInv ==
  stage \in {"payload", "wait"} => Len(rx) >= HeaderSize /\ Len(rx) + left <= BufferSize

\* While nothing is lost or late, what is ahead is what is owed, and
\* sync() is at the beginning of a frame or between its header and the rest.
LineInv ==
  ~hurt =>
    /\ sent = handed \o Owed
    /\ Carries(Ahead, Owed)
    /\ stage # "wait"
    /\ stage \in {"out", "scan"} => rx = <<>>
    /\ stage = "payload" => /\ Len(rx) = HeaderSize /\ Owed # <<>>
                            /\ left = RequiredSize(Len(Owed[1])) - HeaderSize

SerialInv == TypeOKSerial /\ RoomInv /\ LineInv

LEMMA Bytes ==
  /\ Start \in Nat /\ End \in Nat /\ Stamps \subseteq Nat
  /\ BufferSize \in Nat /\ RingSize \in Nat /\ MaxFrames \in Nat
  /\ \A p \in Payloads : p \in Seq(Nat) /\ Len(p) \in Nat \ {0} /\ RequiredSize(Len(p)) <= BufferSize
<1>1. \A p \in Payloads : p \in Seq(Nat) /\ p # <<>> /\ RequiredSize(Len(p)) <= BufferSize
  BY SerialAssumption
<1>2. \A p \in Payloads : Len(p) \in Nat \ {0}
  BY <1>1, EmptySeq, LenProperties
<1> QED
  BY <1>1, <1>2, SerialAssumption

\* Where in its frame a byte of a packet lies.
LEMMA InFrame ==
  ASSUME NEW n \in Nat, NEW m \in Nat
  PROVE  /\ RequiredSize(n) \in Nat
         /\ 1 \in 1 .. RequiredSize(n) /\ HeaderSize \in 1 .. RequiredSize(n)
         /\ RequiredSize(n) \in 1 .. RequiredSize(n)
         /\ \A k \in 1 .. n : /\ HeaderSize + k \in 1 .. RequiredSize(n)
                              /\ m + (HeaderSize + k) = m + HeaderSize + k
  BY DEF RequiredSize, HeaderSize, FooterSize

\* The first bytes of a sequence, and the others.
LEMMA TakenBytes ==
  ASSUME NEW S, NEW s \in Seq(S), NEW n \in Nat
  PROVE  /\ Take(s, n) \in Seq(S) /\ Len(Take(s, n)) = Least(n, Len(s))
         /\ \A i \in 1 .. Least(n, Len(s)) : Take(s, n)[i] = s[i]
<1>1. Least(n, Len(s)) \in 0 .. Len(s)
  BY DEF Least
<1> QED
  BY <1>1, SubSeqProperties DEF Take

LEMMA DroppedBytes ==
  ASSUME NEW S, NEW s \in Seq(S), NEW n \in Nat
  PROVE  /\ Drop(s, n) \in Seq(S)
         /\ Len(Drop(s, n)) = IF n <= Len(s) THEN Len(s) - n ELSE 0
         /\ \A i \in 1 .. Len(s) - n : Drop(s, n)[i] = s[n + i]
  BY SubSeqProperties DEF Drop

LEMMA Cut ==
  ASSUME NEW S, NEW s \in Seq(S), NEW n \in Nat
  PROVE  Take(s, n) \o Drop(s, n) = s
<1> DEFINE a == Take(s, n)
           d == Drop(s, n)
           m == Least(n, Len(s))
<1>1. m \in Nat /\ m <= Len(s) /\ (m = n \/ (m = Len(s) /\ m <= n)) /\ Len(s) \in Nat
  BY DEF Least
<1>2. a \in Seq(S) /\ Len(a) = m /\ \A i \in 1 .. m : a[i] = s[i]
  BY TakenBytes
<1>3. d \in Seq(S) /\ Len(d) = Len(s) - m /\ \A i \in 1 .. Len(s) - m : d[i] = s[m + i]
  <2> HIDE DEF m, d
  <2>1. /\ d \in Seq(S) /\ Len(d) = IF n <= Len(s) THEN Len(s) - n ELSE 0
        /\ \A i \in 1 .. Len(s) - n : d[i] = s[n + i]
    BY DroppedBytes DEF d
  <2>2. CASE m = n
    BY <1>1, <2>1, <2>2
  <2>3. CASE m = Len(s) /\ m < n
    BY <1>1, <2>1, <2>3
  <2> QED
    BY <1>1, <2>2, <2>3
<1> HIDE DEF a, d, m
<1>4. /\ a \o d \in Seq(S) /\ Len(a \o d) = Len(s)
      /\ \A i \in 1 .. Len(s) : (a \o d)[i] = IF i <= m THEN a[i] ELSE d[i - m]
  <2>1. Len(a) + Len(d) = Len(s)
    BY <1>1, <1>2, <1>3
  <2> QED
    BY <1>2, <1>3, <2>1, ConcatProperties
<1>5. ASSUME NEW i \in 1 .. Len(s) PROVE (a \o d)[i] = s[i]
  <2>1. CASE i <= m
    BY <1>1, <1>2, <1>4, <2>1
  <2>2. CASE i > m
    <3> DEFINE j == i - m
    <3>1. j \in 1 .. Len(s) - m /\ m + j = i
      BY <1>1, <2>2
    <3>2. (a \o d)[i] = d[j]
      BY <1>1, <1>4, <2>2
    <3> HIDE DEF j
    <3>3. d[j] = s[m + j]
      BY <1>3, <3>1
    <3> QED
      BY <3>1, <3>2, <3>3
  <2>3. i <= m \/ i > m
    BY <1>1
  <2> QED
    BY <2>1, <2>2, <2>3
<1>6. a \o d = s
  BY <1>4, <1>5, SeqEqual
<1> QED
  BY <1>6 DEF a, d

LEMMA Wrapped ==
  ASSUME NEW p \in Payloads, NEW ts \in Stamps
  PROVE  /\ Wrap(p, ts) \in Seq(Nat)
         /\ Len(Wrap(p, ts)) = RequiredSize(Len(p))
         /\ Wrap(p, ts)[1] = Start /\ Wrap(p, ts)[HeaderSize] = Len(p)
         /\ \A k \in 1 .. Len(p) : Wrap(p, ts)[HeaderSize + k] = p[k]
         /\ Wrap(p, ts)[RequiredSize(Len(p))] = End
  BY Bytes DEF Wrap, RequiredSize, HeaderSize, FooterSize

LEMMA CarriesNone == Carries(<<>>, <<>>)
<1> DEFINE b == [i \in 0 .. 0 |-> 0]
<1>1. Len(<<>>) = 0 /\ 0 .. 0 = {0} /\ 1 .. 0 = {}
  OBVIOUS
<1>2. b \in [0 .. 0 -> 0 .. 0] /\ b[0] = 0
  OBVIOUS
<1> HIDE DEF b
<1>3. \A i, j \in 0 .. 0 : i <= j => b[i] <= b[j]
  BY <1>1, <1>2
<1> QED
  BY <1>1, <1>2, <1>3 DEF Carries

LEMMA CarriedLength ==
  ASSUME NEW s \in Seq(Nat), NEW ps \in Seq(Payloads), Carries(s, ps)
  PROVE  s = <<>> <=> ps = <<>>
<1>1. PICK b \in [0 .. Len(ps) -> 0 .. Len(s)] :
        /\ b[0] = 0 /\ b[Len(ps)] = Len(s)
        /\ \A i \in 1 .. Len(ps) : FrameAt(s, b[i - 1], b[i], ps[i])
  BY DEF Carries
<1>2. ASSUME ps # <<>> PROVE Len(s) > 0
  <2>1. Len(ps) >= 1 /\ ps[1] \in Payloads
    BY <1>2
  <2>2. b[1] \in 0 .. Len(s) /\ FrameAt(s, b[0], b[1], ps[1])
    BY <1>1, <2>1
  <2>3. b[1] = 0 + RequiredSize(Len(ps[1])) /\ Len(ps[1]) \in Nat
    BY <1>1, <2>1, <2>2, Bytes DEF FrameAt
  <2> QED
    BY <2>2, <2>3 DEF RequiredSize, HeaderSize, FooterSize
<1>3. ASSUME ps = <<>> PROVE Len(s) = 0
  BY <1>1, <1>3
<1> QED
  BY <1>2, <1>3

LEMMA CarriedFirst ==
  ASSUME NEW s \in Seq(Nat), NEW ps \in Seq(Payloads), Carries(s, ps), ps # <<>>
  PROVE  /\ ps[1] \in Payloads
         /\ RequiredSize(Len(ps[1])) <= Len(s)
         /\ FrameAt(s, 0, RequiredSize(Len(ps[1])), ps[1])
         /\ Carries(Drop(s, RequiredSize(Len(ps[1]))), Tail(ps))
<1>1. PICK b \in [0 .. Len(ps) -> 0 .. Len(s)] :
        /\ b[0] = 0 /\ b[Len(ps)] = Len(s)
        /\ \A i, j \in 0 .. Len(ps) : i <= j => b[i] <= b[j]
        /\ \A i \in 1 .. Len(ps) : FrameAt(s, b[i - 1], b[i], ps[i])
  BY DEF Carries
<1>2. Len(ps) \in Nat /\ Len(ps) >= 1 /\ ps[1] \in Payloads
  OBVIOUS
<1>3. FrameAt(s, 0, b[1], ps[1])
  BY <1>1, <1>2
<1>4. b[1] = RequiredSize(Len(ps[1])) /\ b[1] \in 0 .. Len(s)
  BY <1>1, <1>2, <1>3, Bytes DEF FrameAt, RequiredSize, HeaderSize, FooterSize
<1>41. \A i \in 0 .. Len(ps) : b[i] \in Nat /\ b[i] <= Len(s)
  <2>1. \A i \in 0 .. Len(ps) : b[i] \in 0 .. Len(s)
    OBVIOUS
  <2>2. \A n \in 0 .. Len(s) : n \in Nat /\ n <= Len(s)
    OBVIOUS
  <2> QED
    BY <2>1, <2>2
<1> DEFINE t == Drop(s, b[1])
           c == [i \in 0 .. Len(ps) - 1 |-> b[i + 1] - b[1]]
<1>5. t \in Seq(Nat) /\ Len(t) = Len(s) - b[1] /\ \A i \in 1 .. Len(t) : t[i] = s[b[1] + i]
  <2>1. b[1] \in Nat /\ b[1] <= Len(s) /\ Len(s) \in Nat
    BY <1>4
  <2> QED
    BY <2>1, DroppedBytes
<1>6. Tail(ps) \in Seq(Payloads) /\ Len(Tail(ps)) = Len(ps) - 1
      /\ \A i \in 1 .. Len(ps) - 1 : Tail(ps)[i] = ps[i + 1]
  BY <1>2
<1>7. c \in [0 .. Len(Tail(ps)) -> 0 .. Len(t)]
  <2> SUFFICES ASSUME NEW i \in 0 .. Len(ps) - 1
               PROVE  b[i + 1] - b[1] \in 0 .. Len(s) - b[1]
    BY <1>5, <1>6
  <2>1. i + 1 \in 0 .. Len(ps) /\ 1 \in 0 .. Len(ps) /\ 1 <= i + 1
    BY <1>2
  <2> QED
    BY <1>1, <2>1
<1>8. c[0] = 0 /\ c[Len(Tail(ps))] = Len(t)
  BY <1>1, <1>2, <1>4, <1>5, <1>6
<1>9. \A i, j \in 0 .. Len(Tail(ps)) : i <= j => c[i] <= c[j]
  <2> SUFFICES ASSUME NEW i \in 0 .. Len(ps) - 1, NEW j \in 0 .. Len(ps) - 1, i <= j
               PROVE  b[i + 1] - b[1] <= b[j + 1] - b[1]
    BY <1>6
  <2>1. i + 1 \in 0 .. Len(ps) /\ j + 1 \in 0 .. Len(ps) /\ i + 1 <= j + 1
    BY <1>2
  <2> QED
    BY <1>1, <1>41, <2>1
<1>10. ASSUME NEW i \in 1 .. Len(Tail(ps))
       PROVE  FrameAt(t, c[i - 1], c[i], Tail(ps)[i])
  <2>1. i + 1 \in 1 .. Len(ps) /\ i \in 0 .. Len(ps) /\ 1 <= i /\ 1 \in 0 .. Len(ps)
        /\ i - 1 \in 0 .. Len(ps) - 1 /\ i \in 0 .. Len(ps) - 1
    BY <1>2, <1>6, <1>10
  <2> DEFINE p == ps[i + 1]
  <2>2. p \in Payloads /\ Tail(ps)[i] = p /\ Len(p) \in Nat
    BY <1>6, <2>1, Bytes
  <2>3. FrameAt(s, b[i], b[i + 1], p)
    BY <1>1, <2>1
  <2>4. b[i] \in Nat /\ b[i + 1] \in Nat /\ b[1] <= b[i] /\ b[i + 1] <= Len(s)
    BY <1>1, <1>41, <2>1
  <2>5. c[i - 1] = b[i] - b[1] /\ c[i] = b[i + 1] - b[1]
    BY <2>1
  <2> HIDE DEF c, t, p
  <2>6. c[i] = c[i - 1] + RequiredSize(Len(p))
    <3>1. b[i + 1] = b[i] + RequiredSize(Len(p))
      BY <2>3 DEF FrameAt
    <3>2. RequiredSize(Len(p)) \in Nat
      BY <2>2, InFrame
    <3> DEFINE r == RequiredSize(Len(p))
               m == b[i]
               f == b[1]
    <3>3. r \in Nat /\ m \in Nat /\ f \in Int /\ (m + r) - f = (m - f) + r
      <4>1. r \in Nat /\ m \in Nat /\ f \in Int
        BY <1>4, <2>4, <3>2
      <4> HIDE DEF r, m, f
      <4> QED
        BY <4>1
    <3> QED
      BY <2>5, <3>1, <3>3
  <2>7. ASSUME NEW k \in 1 .. RequiredSize(Len(p))
        PROVE  t[c[i - 1] + k] = s[b[i] + k]
    <3>1. RequiredSize(Len(p)) \in Nat /\ b[i + 1] = b[i] + RequiredSize(Len(p)) /\ b[1] \in Nat
      BY <1>4, <2>2, <2>3 DEF FrameAt, RequiredSize, HeaderSize, FooterSize
    <3>2. c[i - 1] + k \in 1 .. Len(t) /\ b[1] + (c[i - 1] + k) = b[i] + k
      <4> DEFINE m == b[i]
                 o == b[1]
                 e == b[i + 1]
                 r == RequiredSize(Len(p))
                 f == c[i - 1]
      <4>1. m \in Nat /\ o \in Nat /\ r \in Nat /\ k \in 1 .. r /\ o <= m /\ e = m + r
            /\ e <= Len(s) /\ f = m - o /\ Len(t) = Len(s) - o /\ Len(s) \in Nat
        BY <1>5, <2>4, <2>5, <2>7, <3>1
      <4> HIDE DEF m, o, e, r, f
      <4>2. f + k \in 1 .. Len(t) /\ o + (f + k) = m + k
        BY <4>1
      <4> QED
        BY <4>2 DEF f, o, m
    <3> QED
      BY <1>5, <3>2
  <2>8. 1 \in 1 .. RequiredSize(Len(p)) /\ HeaderSize \in 1 .. RequiredSize(Len(p))
        /\ RequiredSize(Len(p)) \in 1 .. RequiredSize(Len(p))
    BY <2>2 DEF RequiredSize, HeaderSize, FooterSize
  <2>9. ASSUME NEW k \in 1 .. Len(p)
        PROVE  t[c[i - 1] + HeaderSize + k] = p[k]
    <3>1. HeaderSize + k \in 1 .. RequiredSize(Len(p))
          /\ c[i - 1] + (HeaderSize + k) = c[i - 1] + HeaderSize + k
          /\ b[i] + (HeaderSize + k) = b[i] + HeaderSize + k
      <4>1. b[i] \in Nat /\ c[i - 1] \in Nat
        BY <1>4, <2>4, <2>5
      <4> QED
        BY <2>2, <2>9, <4>1, InFrame
    <3>2. s[b[i] + HeaderSize + k] = p[k]
      BY <2>3, <2>9 DEF FrameAt
    <3> QED
      BY <2>7, <3>1, <3>2
  <2>10. t[c[i - 1] + 1] = Start /\ t[c[i - 1] + HeaderSize] = Len(p) /\ t[c[i]] = End
    BY <2>3, <2>6, <2>7, <2>8 DEF FrameAt
  <2> QED
    BY <2>2, <2>6, <2>9, <2>10 DEF FrameAt
<1> HIDE DEF c, t
<1>11. Carries(t, Tail(ps))
  BY <1>7, <1>8, <1>9, <1>10 DEF Carries
<1> QED
  BY <1>2, <1>3, <1>4, <1>11 DEF t

LEMMA CarriesMore ==
  ASSUME NEW s \in Seq(Nat), NEW ps \in Seq(Payloads), Carries(s, ps),
         NEW p \in Payloads, NEW ts \in Stamps
  PROVE  Carries(s \o Wrap(p, ts), Append(ps, p))
<1>1. PICK b \in [0 .. Len(ps) -> 0 .. Len(s)] :
        /\ b[0] = 0 /\ b[Len(ps)] = Len(s)
        /\ \A i, j \in 0 .. Len(ps) : i <= j => b[i] <= b[j]
        /\ \A i \in 1 .. Len(ps) : FrameAt(s, b[i - 1], b[i], ps[i])
  BY DEF Carries
<1> DEFINE w == Wrap(p, ts)
           t == s \o w
           qs == Append(ps, p)
           c == [i \in 0 .. Len(ps) + 1 |-> IF i <= Len(ps) THEN b[i] ELSE Len(t)]
<1>2. w \in Seq(Nat) /\ Len(w) = RequiredSize(Len(p)) /\ Len(p) \in Nat
  BY Wrapped, Bytes
<1>3. t \in Seq(Nat) /\ Len(t) = Len(s) + Len(w)
      /\ (\A i \in 1 .. Len(s) : t[i] = s[i]) /\ (\A i \in 1 .. Len(w) : t[Len(s) + i] = w[i])
  <2> HIDE DEF w
  <2>1. w \in Seq(Nat)
    BY <1>2
  <2> QED
    BY <2>1
<1>4. qs \in Seq(Payloads) /\ Len(qs) = Len(ps) + 1 /\ qs[Len(ps) + 1] = p
      /\ \A i \in 1 .. Len(ps) : qs[i] = ps[i]
  OBVIOUS
<1>5. Len(ps) \in Nat /\ Len(s) \in Nat /\ Len(w) \in Nat
  BY <1>2
<1> HIDE DEF w, t, qs
<1>6. c \in [0 .. Len(qs) -> 0 .. Len(t)]
  BY <1>1, <1>3, <1>4, <1>5
<1>7. c[0] = 0 /\ c[Len(qs)] = Len(t) /\ c[Len(ps)] = Len(s)
  BY <1>1, <1>4, <1>5
<1>8. \A i, j \in 0 .. Len(qs) : i <= j => c[i] <= c[j]
  <2> SUFFICES ASSUME NEW i \in 0 .. Len(ps) + 1, NEW j \in 0 .. Len(ps) + 1, i <= j
               PROVE  c[i] <= c[j]
    BY <1>4
  <2>1. CASE j <= Len(ps)
    BY <1>1, <1>5, <2>1
  <2>2. CASE j = Len(ps) + 1
    <3>1. c[j] = Len(t)
      BY <1>5, <2>2
    <3> HIDE DEF c
    <3>2. c[i] \in 0 .. Len(t)
      BY <1>4, <1>6
    <3>3. Len(t) \in Nat
      BY <1>3, <1>5
    <3> QED
      BY <3>1, <3>2, <3>3
  <2> QED
    BY <1>5, <2>1, <2>2
<1>9. ASSUME NEW i \in 1 .. Len(qs)
      PROVE  FrameAt(t, c[i - 1], c[i], qs[i])
  <2>1. CASE i <= Len(ps)
    <3>1. i \in 1 .. Len(ps) /\ c[i - 1] = b[i - 1] /\ c[i] = b[i] /\ qs[i] = ps[i]
      BY <1>4, <1>5, <1>9, <2>1
    <3>2. FrameAt(s, b[i - 1], b[i], ps[i]) /\ ps[i] \in Payloads
      BY <1>1, <3>1
    <3>3. b[i - 1] \in Nat /\ b[i] \in Nat /\ b[i] <= Len(s) /\ Len(ps[i]) \in Nat
      <4>1. i - 1 \in 0 .. Len(ps) /\ i \in 0 .. Len(ps)
        BY <1>5, <3>1
      <4>2. b[i - 1] \in 0 .. Len(s) /\ b[i] \in 0 .. Len(s)
        BY <4>1
      <4>3. \A n \in 0 .. Len(s) : n \in Nat /\ n <= Len(s)
        BY <1>5
      <4> QED
        BY <3>2, <4>2, <4>3, Bytes
    <3> HIDE DEF c
    <3>4. ASSUME NEW k \in 1 .. RequiredSize(Len(ps[i]))
          PROVE  t[b[i - 1] + k] = s[b[i - 1] + k]
      <4>1. b[i - 1] + k \in 1 .. Len(s)
        <5>1. RequiredSize(Len(ps[i])) \in Nat /\ b[i] = b[i - 1] + RequiredSize(Len(ps[i]))
          BY <3>2, <3>3 DEF FrameAt, RequiredSize, HeaderSize, FooterSize
        <5> DEFINE m == b[i - 1]
                   e == b[i]
                   r == RequiredSize(Len(ps[i]))
        <5>2. m \in Nat /\ r \in Nat /\ k \in 1 .. r /\ e = m + r /\ e <= Len(s)
          BY <3>3, <3>4, <5>1
        <5> HIDE DEF m, e, r
        <5>3. m + k \in 1 .. Len(s)
          BY <1>5, <5>2
        <5> QED
          BY <5>3 DEF m
      <4> QED
        BY <1>3, <4>1
    <3>5. 1 \in 1 .. RequiredSize(Len(ps[i])) /\ HeaderSize \in 1 .. RequiredSize(Len(ps[i]))
          /\ RequiredSize(Len(ps[i])) \in 1 .. RequiredSize(Len(ps[i]))
      BY <3>3 DEF RequiredSize, HeaderSize, FooterSize
    <3>6. ASSUME NEW k \in 1 .. Len(ps[i])
          PROVE  t[b[i - 1] + HeaderSize + k] = ps[i][k]
      <4>1. HeaderSize + k \in 1 .. RequiredSize(Len(ps[i]))
            /\ b[i - 1] + (HeaderSize + k) = b[i - 1] + HeaderSize + k
        BY <3>3, <3>6, InFrame
      <4>2. s[b[i - 1] + HeaderSize + k] = ps[i][k]
        BY <3>2, <3>6 DEF FrameAt
      <4> QED
        BY <3>4, <4>1, <4>2
    <3>7. t[b[i - 1] + 1] = Start /\ t[b[i - 1] + HeaderSize] = Len(ps[i]) /\ t[b[i]] = End
      <4>1. /\ s[b[i - 1] + 1] = Start /\ s[b[i - 1] + HeaderSize] = Len(ps[i])
            /\ s[b[i]] = End /\ b[i] = b[i - 1] + RequiredSize(Len(ps[i]))
        BY <3>2 DEF FrameAt
      <4>2. t[b[i - 1] + 1] = s[b[i - 1] + 1]
        BY <3>4, <3>5
      <4>3. t[b[i - 1] + HeaderSize] = s[b[i - 1] + HeaderSize]
        BY <3>4, <3>5
      <4>4. t[b[i - 1] + RequiredSize(Len(ps[i]))] = s[b[i - 1] + RequiredSize(Len(ps[i]))]
        BY <3>4, <3>5
      <4> QED
        BY <4>1, <4>2, <4>3, <4>4
    <3> QED
      BY <3>1, <3>2, <3>6, <3>7 DEF FrameAt
  <2>2. CASE i = Len(ps) + 1
    <3>1. c[i - 1] = Len(s) /\ c[i] = Len(s) + Len(w) /\ qs[i] = p
      BY <1>1, <1>3, <1>4, <1>5, <2>2
    <3> HIDE DEF c
    <3>2. ASSUME NEW k \in 1 .. Len(p)
          PROVE  t[Len(s) + HeaderSize + k] = p[k]
      <4>1. HeaderSize + k \in 1 .. Len(w) /\ Len(s) + (HeaderSize + k) = Len(s) + HeaderSize + k
        BY <1>2, <1>5, <3>2 DEF RequiredSize, HeaderSize, FooterSize
      <4>2. w[HeaderSize + k] = p[k]
        BY <3>2, Wrapped DEF w
      <4> QED
        BY <1>3, <4>1, <4>2
    <3>3. 1 \in 1 .. Len(w) /\ HeaderSize \in 1 .. Len(w) /\ Len(w) \in 1 .. Len(w)
      BY <1>2 DEF RequiredSize, HeaderSize, FooterSize
    <3>4. t[Len(s) + 1] = Start /\ t[Len(s) + HeaderSize] = Len(p) /\ t[Len(s) + Len(w)] = End
      <4>1. w[1] = Start /\ w[HeaderSize] = Len(p) /\ w[Len(w)] = End
        BY <1>2, Wrapped DEF w
      <4>2. t[Len(s) + 1] = w[1]
        BY <1>3, <3>3
      <4>3. t[Len(s) + HeaderSize] = w[HeaderSize]
        BY <1>3, <3>3
      <4>4. t[Len(s) + Len(w)] = w[Len(w)]
        BY <1>3, <3>3
      <4> QED
        BY <4>1, <4>2, <4>3, <4>4
    <3> QED
      BY <1>2, <3>1, <3>2, <3>4 DEF FrameAt
  <2> QED
    BY <1>4, <1>5, <1>9, <2>1, <2>2
<1> HIDE DEF c
<1> QED
  BY <1>6, <1>7, <1>8, <1>9 DEF Carries, t, qs, w

-----------------------------------------------------------------------------
(* What sync() keeps whatever the line does *)

LEMMA LeastIs ==
  ASSUME NEW m \in Nat, NEW n \in Nat
  PROVE  Least(m, n) = IF m <= n THEN m ELSE n
  BY DEF Least

LEMMA ReadTypes ==
  ASSUME TypeOKSerial, NEW n \in Nat, ReadBytes(n)
  PROVE  /\ rx' \in Seq(Nat) /\ Len(rx') = Len(rx) + Least(n, Len(ring))
         /\ \A i \in 1 .. Len(rx) : rx'[i] = rx[i]
         /\ \A i \in 1 .. Least(n, Len(ring)) : rx'[Len(rx) + i] = ring[i]
         /\ ring' \in Seq(Nat) /\ Len(ring') <= RingSize
         /\ hurt' \in BOOLEAN
<1>1. rx \in Seq(Nat) /\ ring \in Seq(Nat) /\ Len(ring) <= RingSize
  BY DEF TypeOKSerial
<1>2. RingSize \in Nat
  BY Bytes
<1> DEFINE a == Take(ring, n)
           d == Drop(ring, n)
<1>3. a \in Seq(Nat) /\ Len(a) = Least(n, Len(ring))
      /\ \A i \in 1 .. Least(n, Len(ring)) : a[i] = ring[i]
  BY <1>1, TakenBytes
<1>4. d \in Seq(Nat) /\ Len(d) <= RingSize
  <2>1. d \in Seq(Nat) /\ Len(d) = IF n <= Len(ring) THEN Len(ring) - n ELSE 0
    BY <1>1, DroppedBytes
  <2> HIDE DEF d
  <2> QED
    BY <1>1, <1>2, <2>1
<1>5. rx' = rx \o a /\ ring' = d /\ hurt' = (hurt \/ (Len(ring) < n /\ wire # <<>>))
  BY DEF ReadBytes
<1> HIDE DEF a, d
<1>6. rx' \in Seq(Nat) /\ Len(rx') = Len(rx) + Len(a)
      /\ (\A i \in 1 .. Len(rx) : rx'[i] = rx[i]) /\ (\A i \in 1 .. Len(a) : rx'[Len(rx) + i] = a[i])
  <2>1. a \in Seq(Nat)
    BY <1>3
  <2> QED
    BY <1>1, <1>5, <2>1
<1> QED
  BY <1>3, <1>4, <1>5, <1>6 DEF TypeOKSerial

LEMMA SerialTypes ==
  ASSUME TypeOKSerial, RoomInv, [NextSerial]_serialVars
  PROVE  TypeOKSerial' /\ RoomInv'
<1> USE Bytes
<1>1. ASSUME PiWrites PROVE TypeOKSerial' /\ RoomInv'
  <2>1. PICK p \in Payloads, ts \in Stamps : wire' = Wrap(p, ts) /\ sent' = Append(sent, p)
    BY <1>1 DEF PiWrites
  <2>2. wire' \in Seq(Nat) /\ sent' \in Seq(Payloads)
    BY <2>1, Wrapped DEF TypeOKSerial
  <2>3. frames' \in 0 .. MaxFrames
    BY <1>1 DEF PiWrites, TypeOKSerial
  <2> QED
    BY <1>1, <2>2, <2>3 DEF PiWrites, TypeOKSerial, RoomInv
<1>2. ASSUME Arrive PROVE TypeOKSerial' /\ RoomInv'
  <2>1. PICK n \in 1 .. Len(wire) :
          ring' = Take(ring \o Take(wire, n), RingSize) /\ wire' = Drop(wire, n)
          /\ hurt' = (hurt \/ Len(ring) + n > RingSize)
    BY <1>2 DEF Arrive
  <2>2. n \in Nat /\ wire \in Seq(Nat) /\ ring \in Seq(Nat)
    BY DEF TypeOKSerial
  <2>3. Take(wire, n) \in Seq(Nat) /\ wire' \in Seq(Nat)
    BY <2>1, <2>2, TakenBytes, DroppedBytes
  <2>4. ring \o Take(wire, n) \in Seq(Nat)
    BY <2>2, <2>3
  <2>5. ring' \in Seq(Nat) /\ Len(ring') = Least(RingSize, Len(ring \o Take(wire, n)))
    BY <2>1, <2>4, TakenBytes
  <2>6. Len(ring') <= RingSize
    BY <2>4, <2>5 DEF Least
  <2> QED
    BY <1>2, <2>1, <2>3, <2>5, <2>6 DEF Arrive, TypeOKSerial, RoomInv
<1>3. ASSUME SyncBegins PROVE TypeOKSerial' /\ RoomInv'
  <2>1. PICK c \in {Start, End, Other} : rx' \in {rx, [i \in DOMAIN rx |-> c]}
    BY <1>3 DEF SyncBegins
  <2>2. c \in Nat
    BY SerialAssumption
  <2>3. rx \in Seq(Nat) /\ Len(rx) <= BufferSize
    BY DEF TypeOKSerial
  <2>4. [i \in DOMAIN rx |-> c] \in Seq(Nat) /\ Len([i \in DOMAIN rx |-> c]) = Len(rx)
    BY <2>2, <2>3
  <2>5. rx' \in Seq(Nat) /\ Len(rx') <= BufferSize
    BY <2>1, <2>3, <2>4
  <2> QED
    BY <1>3, <2>5 DEF SyncBegins, TypeOKSerial, RoomInv
<1>4. ASSUME SyncEnds PROVE TypeOKSerial' /\ RoomInv'
  <2>1. sent' \in Seq(Payloads) /\ handed' \in Seq(Seq(Nat)) /\ hurt' \in BOOLEAN
    <3>1. CASE wire = <<>> /\ rx = <<>>
      <4>1. sent' = <<>> /\ handed' = <<>> /\ hurt' = FALSE
        BY <1>4, <3>1, Zenon DEF SyncEnds
      <4>2. sent' \in Seq(Payloads)
        BY <4>1, EmptySeq
      <4>3. handed' \in Seq(Seq(Nat))
        BY <4>1, EmptySeq
      <4> QED
        BY <4>1, <4>2, <4>3
    <3>2. CASE ~(wire = <<>> /\ rx = <<>>)
      BY <1>4, <3>2 DEF SyncEnds, TypeOKSerial
    <3> QED
      BY <3>1, <3>2
  <2> QED
    BY <1>4, <2>1 DEF SyncEnds, TypeOKSerial, RoomInv
<1>5. ASSUME Discard PROVE TypeOKSerial' /\ RoomInv'
  BY <1>5 DEF Discard, TypeOKSerial, RoomInv
<1>6. ASSUME NoRoomForHeader PROVE TypeOKSerial' /\ RoomInv'
  BY <1>6 DEF NoRoomForHeader, TypeOKSerial, RoomInv
<1>7. ASSUME ReadHeader PROVE TypeOKSerial' /\ RoomInv'
  <2> DEFINE got == rx \o Take(ring, HeaderSize)
  <2>1. /\ rx \in Seq(Nat) /\ ring \in Seq(Nat) /\ Len(ring) <= RingSize
        /\ HeaderSize <= BufferSize - Len(rx) /\ stage = "scan"
        /\ UNCHANGED <<wire, frames, sent, handed>>
    BY <1>7 DEF ReadHeader, TypeOKSerial
  <2>2. CASE ReadBytes(HeaderSize) /\ UNCHANGED <<left, stage>>
    <3>1. Least(HeaderSize, Len(ring)) <= HeaderSize
      BY <2>1 DEF Least, HeaderSize
    <3>2. rx' \in Seq(Nat) /\ Len(rx') <= BufferSize /\ ring' \in Seq(Nat)
          /\ Len(ring') <= RingSize /\ hurt' \in BOOLEAN
      BY <2>1, <2>2, <3>1, ReadTypes DEF HeaderSize, Least
    <3> QED
      BY <2>1, <2>2, <3>2 DEF TypeOKSerial, RoomInv
  <2>3. CASE /\ Len(ring) >= HeaderSize /\ Fits(got) /\ ReadBytes(HeaderSize)
             /\ left' = RequiredSize(HeaderLength(got)) - HeaderSize /\ stage' = "payload"
    <3>1. Least(HeaderSize, Len(ring)) = HeaderSize
      <4>1. Len(ring) >= HeaderSize /\ Len(ring) \in Nat
        BY <2>1, <2>3
      <4> QED
        BY <4>1, LeastIs DEF HeaderSize
    <3>2. rx' \in Seq(Nat) /\ Len(rx') = Len(rx) + HeaderSize /\ ring' \in Seq(Nat)
          /\ Len(ring') <= RingSize /\ hurt' \in BOOLEAN
      BY <2>1, <2>3, <3>1, ReadTypes DEF HeaderSize
    <3>3. got = rx'
      BY <2>3 DEF ReadBytes
    <3> HIDE DEF got
    <3>4. HeaderLength(got) \in Nat
      BY <2>1, <3>2, <3>3 DEF HeaderLength, HeaderSize
    <3>5. left' \in Nat /\ left' <= BufferSize - (Len(rx) + HeaderSize)
      <4> DEFINE r == RequiredSize(HeaderLength(got))
      <4>1. r \in Nat /\ r >= HeaderSize
        BY <3>4 DEF RequiredSize, HeaderSize, FooterSize
      <4>2. r - HeaderSize <= BufferSize - Len(got) /\ left' = r - HeaderSize
        BY <2>3 DEF Fits
      <4>3. Len(got) = Len(rx) + HeaderSize
        BY <3>2, <3>3
      <4> HIDE DEF r
      <4> QED
        BY <4>1, <4>2, <4>3 DEF HeaderSize
    <3>6. Len(rx') <= BufferSize /\ Len(rx') >= HeaderSize /\ left' \in 0 .. BufferSize
          /\ Len(rx') + left' <= BufferSize
      BY <2>1, <3>2, <3>5 DEF HeaderSize
    <3> QED
      BY <2>1, <2>3, <3>2, <3>6 DEF TypeOKSerial, RoomInv
  <2>4. CASE rx' = <<>> /\ ring' = Drop(ring, HeaderSize) /\ UNCHANGED <<left, stage, hurt>>
    <3>1. HeaderSize \in Nat
      BY DEF HeaderSize
    <3>2. ring' \in Seq(Nat)
          /\ Len(ring') = IF HeaderSize <= Len(ring) THEN Len(ring) - HeaderSize ELSE 0
      BY <2>1, <2>4, <3>1, DroppedBytes
    <3>3. Len(ring') <= RingSize
      BY <2>1, <3>1, <3>2
    <3> QED
      BY <2>1, <2>4, <3>2, <3>3 DEF TypeOKSerial, RoomInv
  <2> QED
    BY <1>7, <2>2, <2>3, <2>4 DEF ReadHeader
<1>8. ASSUME ReadPayload PROVE TypeOKSerial' /\ RoomInv'
  <2> DEFINE got == Len(rx') - Len(rx)
             missing == left - got
  <2>1. /\ rx \in Seq(Nat) /\ left \in Nat /\ left <= BufferSize
        /\ Len(rx) >= HeaderSize /\ Len(rx) + left <= BufferSize
        /\ ReadBytes(left) /\ UNCHANGED <<wire, frames, sent>>
    BY <1>8 DEF ReadPayload, TypeOKSerial, RoomInv
  <2>2. Least(left, Len(ring)) \in 0 .. left
    BY <2>1 DEF Least, TypeOKSerial
  <2>3. rx' \in Seq(Nat) /\ Len(rx') = Len(rx) + Least(left, Len(ring)) /\ ring' \in Seq(Nat)
        /\ Len(ring') <= RingSize /\ hurt' \in BOOLEAN
    BY <2>1, ReadTypes
  <2>4. got = Least(left, Len(ring)) /\ missing \in 0 .. left
    BY <2>1, <2>2, <2>3
  <2> HIDE DEF got, missing
  <2>5. left' = missing
    BY <1>8, Zenon DEF ReadPayload, got, missing
  <2>6. /\ left' \in 0 .. BufferSize /\ Len(rx') >= HeaderSize
        /\ Len(rx') <= BufferSize /\ Len(rx') + left' <= BufferSize
    <3> DEFINE l == Least(left, Len(ring))
    <3>1. l \in Nat /\ l <= left /\ missing = left - l /\ Len(rx') = Len(rx) + l
      BY <2>1, <2>2, <2>3, <2>4 DEF missing
    <3>2. BufferSize \in Nat /\ Len(rx) \in Nat
      BY <2>1
    <3> HIDE DEF l
    <3> QED
      BY <2>1, <2>5, <3>1, <3>2 DEF HeaderSize
  <2>7. stage' \in {"wait", "payload", "done"}
    BY <1>8, Zenon DEF ReadPayload
  <2>8. handed' \in Seq(Seq(Nat))
    <3>1. CASE handed' = handed
      BY <3>1 DEF TypeOKSerial
    <3>2. CASE Unwraps(rx') /\ handed' = Append(handed, Unwrap(rx'))
      <4>1. HeaderLength(rx') \in Nat
        BY <2>3, <3>2 DEF Unwraps, HeaderLength, HeaderSize, FooterSize
      <4>2. Unwrap(rx') \in Seq(Nat)
        <5> DEFINE h == HeaderLength(rx')
        <5>1. h \in Nat /\ HeaderSize + h <= Len(rx')
          BY <2>3, <3>2, <4>1 DEF Unwraps, RequiredSize, HeaderSize, FooterSize
        <5> HIDE DEF h
        <5>2. \A i \in HeaderSize + 1 .. HeaderSize + h : rx'[i] \in Nat
          BY <2>3, <5>1 DEF HeaderSize
        <5>3. HeaderSize + 1 \in Int /\ HeaderSize + h \in Int
          BY <5>1 DEF HeaderSize
        <5> QED
          BY <5>2, <5>3, SubSeqProperties DEF Unwrap, h
      <4> QED
        BY <3>2, <4>2 DEF TypeOKSerial
    <3> QED
      BY <1>8, <3>1, <3>2 DEF ReadPayload
  <2> QED
    BY <2>1, <2>3, <2>6, <2>7, <2>8 DEF TypeOKSerial, RoomInv
<1>9. ASSUME Waited PROVE TypeOKSerial' /\ RoomInv'
  BY <1>9 DEF Waited, TypeOKSerial, RoomInv
<1>10. ASSUME FrameDone PROVE TypeOKSerial' /\ RoomInv'
  BY <1>10 DEF FrameDone, TypeOKSerial, RoomInv
<1>11. ASSUME UNCHANGED serialVars PROVE TypeOKSerial' /\ RoomInv'
  BY <1>11, Zenon DEF serialVars, TypeOKSerial, RoomInv
<1> QED
  BY <1>1, <1>2, <1>3, <1>4, <1>5, <1>6, <1>7, <1>8, <1>9, <1>10, <1>11 DEF NextSerial, Sync

-----------------------------------------------------------------------------
(* What sync() keeps while nothing is lost or late *)

LEMMA PacketsAreBytes == Seq(Payloads) \subseteq Seq(Seq(Nat))
<1>1. Payloads \subseteq Seq(Nat)
  BY Bytes
<1> QED
  BY <1>1, SeqMonotonic

LEMMA LineTypes ==
  ASSUME TypeOKSerial
  PROVE  /\ wire \in Seq(Nat) /\ ring \in Seq(Nat) /\ rx \in Seq(Nat)
         /\ Ahead \in Seq(Nat) /\ Owed \in Seq(Payloads)
         /\ sent \in Seq(Payloads) /\ handed \in Seq(Seq(Nat))
         /\ stage # "payload" => Ahead = ring \o wire
<1>1. /\ wire \in Seq(Nat) /\ ring \in Seq(Nat) /\ rx \in Seq(Nat)
      /\ sent \in Seq(Payloads) /\ handed \in Seq(Seq(Nat))
  BY DEF TypeOKSerial
<1>2. rx \o ring \o wire \in Seq(Nat) /\ <<>> \o ring \o wire \in Seq(Nat)
  BY <1>1
<1>3. <<>> \o ring = ring
  BY <1>1, ConcatEmptySeq
<1>4. Len(handed) \in Nat
  BY <1>1
<1>5. Owed \in Seq(Payloads)
  BY <1>1, <1>4, DroppedBytes DEF Owed
<1> QED
  BY <1>1, <1>2, <1>3, <1>5 DEF Ahead

\* What is owed is found again behind what has been handed.
LEMMA Behind ==
  ASSUME NEW S, NEW h \in Seq(S), NEW q \in Seq(S)
  PROVE  Drop(h \o q, Len(h)) = q
<1> DEFINE s == h \o q
           m == Len(h)
           n == Len(q)
           d == Drop(s, m)
<1>1. m \in Nat /\ n \in Nat
  OBVIOUS
<1>2. s \in Seq(S) /\ Len(s) = m + n
      /\ \A i \in 1 .. m + n : s[i] = IF i <= m THEN h[i] ELSE q[i - m]
  BY ConcatProperties
<1> HIDE DEF s, m, n
<1>3. /\ d \in Seq(S)
      /\ Len(d) = IF m <= Len(s) THEN Len(s) - m ELSE 0
      /\ \A i \in 1 .. Len(s) - m : d[i] = s[m + i]
  <2>1. s \in Seq(S) /\ m \in Nat
    BY <1>1, <1>2
  <2> QED
    BY <2>1, DroppedBytes
<1> HIDE DEF d
<1>4. Len(s) - m = n /\ m <= Len(s) /\ Len(d) = n
  <2>1. Len(s) = m + n
    BY <1>2
  <2>2. Len(d) = IF m <= Len(s) THEN Len(s) - m ELSE 0
    BY <1>3
  <2> QED
    BY <1>1, <2>1, <2>2
<1>5. ASSUME NEW i \in 1 .. n PROVE d[i] = q[i]
  <2>1. m + i \in 1 .. m + n /\ ~(m + i <= m) /\ (m + i) - m = i
    BY <1>1
  <2>2. d[i] = s[m + i]
    BY <1>3, <1>4
  <2>3. s[m + i] = q[(m + i) - m]
    BY <1>2, <2>1
  <2> QED
    BY <2>1, <2>2, <2>3
<1>6. d = q
  BY <1>3, <1>4, <1>5, SeqEqual DEF n
<1> QED
  BY <1>6 DEF d, s, m

\* The first of the packets that are owed is handed.
LEMMA Handing ==
  ASSUME NEW S, NEW h \in Seq(S), NEW q \in Seq(S), q # <<>>
  PROVE  h \o q = Append(h, q[1]) \o Tail(q)
<1> DEFINE e == q[1]
           u == Tail(q)
           t == <<e>> \o u
<1>1. e \in S /\ <<e>> \in Seq(S) /\ Len(q) \in Nat /\ Len(q) >= 1
  OBVIOUS
<1>2. u \in Seq(S) /\ Len(u) = Len(q) - 1 /\ \A i \in 1 .. Len(u) : u[i] = q[i + 1]
  BY HeadTailProperties
<1> HIDE DEF u
<1>3. t \in Seq(S) /\ Len(t) = 1 + Len(u)
      /\ \A i \in 1 .. 1 + Len(u) : t[i] = IF i <= 1 THEN e ELSE u[i - 1]
  BY <1>1, <1>2
<1> HIDE DEF t
<1>4. ASSUME NEW i \in 1 .. Len(q) PROVE t[i] = q[i]
  <2>1. CASE i = 1
    BY <1>1, <1>2, <1>3, <2>1
  <2>2. CASE i > 1
    <3>1. i - 1 \in 1 .. Len(u) /\ (i - 1) + 1 = i
      BY <1>1, <1>2, <2>2
    <3> QED
      BY <1>1, <1>2, <1>3, <2>2, <3>1
  <2>3. i = 1 \/ i > 1
    BY <1>1
  <2> QED
    BY <2>1, <2>2, <2>3
<1>5. t = q
  BY <1>1, <1>2, <1>3, <1>4, SeqEqual
<1>6. Append(h, e) = h \o <<e>>
  BY <1>1, AppendIsConcat
<1>7. (h \o <<e>>) \o u = h \o (<<e>> \o u)
  BY <1>1, <1>2, ConcatAssociative
<1> QED
  BY <1>5, <1>6, <1>7 DEF t, u

\* Where something is ahead, it is a frame, and its packet is owed.
LEMMA FrameAhead ==
  ASSUME TypeOKSerial, LineInv, ~hurt, Ahead # <<>> \/ Owed # <<>>
  PROVE  /\ Owed # <<>> /\ Owed[1] \in Payloads
         /\ RequiredSize(Len(Owed[1])) <= Len(Ahead)
         /\ FrameAt(Ahead, 0, RequiredSize(Len(Owed[1])), Owed[1])
         /\ Carries(Drop(Ahead, RequiredSize(Len(Owed[1]))), Tail(Owed))
  BY LineTypes, CarriedLength, CarriedFirst DEF LineInv

LEMMA ScanAhead ==
  ASSUME TypeOKSerial, LineInv, ~hurt, stage = "scan", ring # <<>>
  PROVE  /\ rx = <<>> /\ Owed # <<>> /\ Owed[1] \in Payloads
         /\ Head(ring) = Start
         /\ RequiredSize(Len(Owed[1])) <= Len(ring) + Len(wire)
         /\ Len(ring) >= HeaderSize => ring[HeaderSize] = Len(Owed[1])
<1>1. ring \in Seq(Nat) /\ wire \in Seq(Nat) /\ Ahead = ring \o wire /\ Ahead # <<>>
  BY LineTypes
<1>2. /\ Owed # <<>> /\ Owed[1] \in Payloads
      /\ RequiredSize(Len(Owed[1])) <= Len(ring \o wire)
      /\ FrameAt(ring \o wire, 0, RequiredSize(Len(Owed[1])), Owed[1])
  BY <1>1, FrameAhead
<1>3. (ring \o wire)[1] = Start /\ (ring \o wire)[HeaderSize] = Len(Owed[1])
  <2>1. \A n \in Nat : 0 + n = n
    OBVIOUS
  <2>2. 1 \in Nat /\ HeaderSize \in Nat
    BY DEF HeaderSize
  <2> QED
    BY <1>2, <2>1, <2>2 DEF FrameAt
<1>4. (ring \o wire)[1] = ring[1] /\ Head(ring) = ring[1]
  BY <1>1
<1>5. Len(ring) >= HeaderSize => (ring \o wire)[HeaderSize] = ring[HeaderSize]
  BY <1>1 DEF HeaderSize
<1> QED
  BY <1>1, <1>2, <1>3, <1>4, <1>5 DEF LineInv

\* What has to be said of a step after which the line is unhurt.
LEMMA Tidy ==
  ASSUME NEW q \in Seq(Payloads), handed' \in Seq(Seq(Nat)), sent' = handed' \o q,
         Carries(Ahead', q), stage' # "wait", stage' \in {"out", "scan"} => rx' = <<>>,
         stage' = "payload" => /\ Len(rx') = HeaderSize /\ q # <<>>
                               /\ left' = RequiredSize(Len(q[1])) - HeaderSize
  PROVE  LineInv'
<1>1. q \in Seq(Seq(Nat))
  BY PacketsAreBytes
<1>2. Owed' = q
  BY <1>1, Behind DEF Owed
<1> QED
  BY <1>2 DEF LineInv

LEMMA PacketsRegrouped ==
  ASSUME NEW s \in Seq(Seq(Nat)), NEW t \in Seq(Seq(Nat)), NEW u \in Seq(Seq(Nat))
  PROVE  (s \o t) \o u = s \o (t \o u)
<1> DEFINE a == (s \o t) \o u
           b == s \o (t \o u)
<1>1. a \in Seq(Seq(Nat)) /\ b \in Seq(Seq(Nat)) /\ Len(a) = Len(b)
  OBVIOUS
<1>2. \A i \in 1 .. Len(a) : a[i] = b[i]
  OBVIOUS
<1> HIDE DEF a, b
<1>3. a = b
  BY <1>1, <1>2, SeqEqual
<1> QED
  BY <1>3 DEF a, b

LEMMA WritesLine ==
  ASSUME TypeOKSerial, TypeOKSerial', LineInv, PiWrites, ~hurt
  PROVE  LineInv'
<1>1. PICK p \in Payloads, ts \in Stamps : wire' = Wrap(p, ts) /\ sent' = Append(sent, p)
  BY DEF PiWrites
<1>2. /\ wire = <<>> /\ UNCHANGED <<ring, rx, left, stage, handed, hurt>>
  BY DEF PiWrites
<1>3. /\ sent = handed \o Owed /\ Carries(Ahead, Owed) /\ stage # "wait"
      /\ stage \in {"out", "scan"} => rx = <<>>
      /\ stage = "payload" => /\ Len(rx) = HeaderSize /\ Owed # <<>>
                              /\ left = RequiredSize(Len(Owed[1])) - HeaderSize
  BY DEF LineInv
<1> DEFINE x == IF stage = "payload" THEN rx ELSE <<>>
           q == Append(Owed, p)
<1>4. x \in Seq(Nat) /\ ring \in Seq(Nat) /\ Wrap(p, ts) \in Seq(Nat)
  BY LineTypes, Wrapped, EmptySeq
<1>5. Ahead = x \o ring
  BY <1>2, <1>4, ConcatEmptySeq DEF Ahead
<1>6. Ahead' = Ahead \o Wrap(p, ts)
  BY <1>1, <1>2, <1>5 DEF Ahead
<1>7. q \in Seq(Payloads) /\ q # <<>> /\ (Owed # <<>> => q[1] = Owed[1])
  <2>1. Owed \in Seq(Payloads)
    BY LineTypes
  <2>2. Len(q) = Len(Owed) + 1 /\ q \in Seq(Payloads) /\ \A i \in 1 .. Len(Owed) : q[i] = Owed[i]
    BY <2>1, AppendProperties
  <2> HIDE DEF q
  <2>3. Len(Owed) \in Nat /\ (Owed # <<>> => 1 \in 1 .. Len(Owed))
    BY <2>1
  <2> QED
    BY <2>2, <2>3
<1>8. Carries(Ahead', q)
  BY <1>3, <1>6, LineTypes, CarriesMore
<1>9. sent' = handed' \o q
  <2>1. handed \in Seq(Seq(Nat)) /\ Owed \in Seq(Seq(Nat)) /\ p \in Seq(Nat) /\ <<p>> \in Seq(Seq(Nat))
    BY LineTypes, PacketsAreBytes, Bytes
  <2>2. q = Owed \o <<p>> /\ sent' = sent \o <<p>>
    <3>1. handed \o Owed \in Seq(Seq(Nat))
      BY <2>1
    <3> QED
      BY <1>1, <1>3, <2>1, <3>1, AppendIsConcat
  <2>3. (handed \o Owed) \o <<p>> = handed \o (Owed \o <<p>>)
    BY <2>1, PacketsRegrouped
  <2> QED
    BY <1>2, <1>3, <2>2, <2>3
<1> HIDE DEF q
<1>10. stage' = "payload" => /\ Len(rx') = HeaderSize
                             /\ left' = RequiredSize(Len(q[1])) - HeaderSize
  BY <1>2, <1>3, <1>7
<1>11. handed' \in Seq(Seq(Nat)) /\ stage' # "wait" /\ (stage' \in {"out", "scan"} => rx' = <<>>)
  BY <1>2, <1>3 DEF TypeOKSerial
<1> QED
  BY <1>7, <1>8, <1>9, <1>10, <1>11, Tidy

\* A step that changes neither what is ahead nor what is owed.
LEMMA SameLine ==
  ASSUME TypeOKSerial, TypeOKSerial', LineInv, ~hurt, Ahead' = Ahead, UNCHANGED <<sent, handed>>,
         stage' # "wait", stage' \in {"out", "scan"} => rx' = <<>>,
         stage' = "payload" => /\ Len(rx') = HeaderSize /\ Owed # <<>>
                               /\ left' = RequiredSize(Len(Owed[1])) - HeaderSize
  PROVE  LineInv'
<1>1. Owed \in Seq(Payloads) /\ handed' \in Seq(Seq(Nat))
  BY LineTypes DEF TypeOKSerial
<1>2. sent' = handed' \o Owed /\ Carries(Ahead', Owed)
  BY DEF LineInv
<1> QED
  BY <1>1, <1>2, Tidy

LEMMA Regrouped ==
  ASSUME NEW s \in Seq(Nat), NEW t \in Seq(Nat), NEW u \in Seq(Nat)
  PROVE  (s \o t) \o u = s \o (t \o u)
<1> DEFINE a == (s \o t) \o u
           b == s \o (t \o u)
<1>1. a \in Seq(Nat) /\ b \in Seq(Nat) /\ Len(a) = Len(b)
  OBVIOUS
<1>2. \A i \in 1 .. Len(a) : a[i] = b[i]
  OBVIOUS
<1> HIDE DEF a, b
<1>3. a = b
  BY <1>1, <1>2, SeqEqual
<1> QED
  BY <1>3 DEF a, b

LEMMA ArrivesLine ==
  ASSUME TypeOKSerial, TypeOKSerial', LineInv, Arrive, ~hurt, ~hurt'
  PROVE  LineInv'
<1>1. PICK n \in 1 .. Len(wire) :
        /\ ring' = Take(ring \o Take(wire, n), RingSize) /\ wire' = Drop(wire, n)
        /\ hurt' = (hurt \/ Len(ring) + n > RingSize)
  BY DEF Arrive
<1>2. UNCHANGED <<rx, left, stage, frames, sent, handed>>
  BY DEF Arrive
<1>3. n \in Nat /\ n <= Len(wire) /\ ring \in Seq(Nat) /\ wire \in Seq(Nat) /\ rx \in Seq(Nat)
  BY LineTypes
<1> DEFINE a == Take(wire, n)
           d == Drop(wire, n)
<1>4. a \in Seq(Nat) /\ d \in Seq(Nat) /\ Len(a) = n /\ a \o d = wire
  <2>1. Least(n, Len(wire)) = n
    BY <1>3, LeastIs
  <2>2. a \in Seq(Nat) /\ Len(a) = n
    BY <1>3, <2>1, TakenBytes
  <2>3. d \in Seq(Nat)
    BY <1>3, DroppedBytes
  <2>4. a \o d = wire
    BY <1>3, Cut
  <2> QED
    BY <2>2, <2>3, <2>4
<1> HIDE DEF a, d
<1>5. ring \o a \in Seq(Nat) /\ Len(ring \o a) = Len(ring) + n
  BY <1>3, <1>4, ConcatProperties
<1>6. Len(ring \o a) <= RingSize /\ RingSize \in Nat
  <2>1. ~(Len(ring) + n > RingSize) /\ RingSize \in Nat
    BY <1>1, Bytes
  <2>2. Len(ring) + n \in Nat
    BY <1>3
  <2> QED
    BY <1>5, <2>1, <2>2
<1>7. Take(ring \o a, RingSize) = ring \o a
  <2> DEFINE s == ring \o a
  <2> HIDE DEF s
  <2>1. s \in Seq(Nat) /\ Len(s) \in Nat /\ Len(s) <= RingSize
    BY <1>5, <1>6 DEF s
  <2>2. Least(RingSize, Len(s)) = Len(s)
    BY <1>6, <2>1, LeastIs
  <2>3. Take(s, RingSize) = s
    BY <2>1, <2>2, SubSeqFull DEF Take
  <2> QED
    BY <2>3 DEF s
<1>8. ring' = ring \o a /\ wire' = d
  BY <1>1, <1>7 DEF a, d
<1> DEFINE x == IF stage = "payload" THEN rx ELSE <<>>
<1>9. x \in Seq(Nat)
  BY <1>3, EmptySeq
<1>10. Ahead = (x \o ring) \o wire /\ Ahead' = (x \o (ring \o a)) \o d
  BY <1>2, <1>8 DEF Ahead
<1> HIDE DEF x
<1>11. (x \o (ring \o a)) \o d = (x \o ring) \o (a \o d)
  <2>1. ring \in Seq(Nat) /\ a \in Seq(Nat) /\ d \in Seq(Nat) /\ x \in Seq(Nat)
    BY <1>3, <1>4, <1>9
  <2> QED
    <3>1. (x \o ring) \o a = x \o (ring \o a)
      BY <2>1, Regrouped
    <3>2. x \o ring \in Seq(Nat)
      BY <2>1, ConcatProperties
    <3>3. ((x \o ring) \o a) \o d = (x \o ring) \o (a \o d)
      BY <2>1, <3>2, Regrouped
    <3> QED
      BY <3>1, <3>3
<1>12. Ahead' = Ahead
  BY <1>4, <1>10, <1>11
<1> QED
  BY <1>2, <1>12, SameLine DEF LineInv

LEMMA HeaderLine ==
  ASSUME TypeOKSerial, TypeOKSerial', LineInv, ReadHeader, ~hurt, ~hurt'
  PROVE  LineInv'
<1> DEFINE got == rx \o Take(ring, HeaderSize)
<1>1. stage = "scan" /\ ring # <<>> /\ UNCHANGED <<wire, frames, sent, handed>>
  BY DEF ReadHeader
<1>2. /\ rx = <<>> /\ Owed # <<>> /\ Owed[1] \in Payloads
      /\ RequiredSize(Len(Owed[1])) <= Len(ring) + Len(wire)
      /\ Len(ring) >= HeaderSize => ring[HeaderSize] = Len(Owed[1])
  BY <1>1, ScanAhead
<1>3. ring \in Seq(Nat) /\ wire \in Seq(Nat) /\ Len(ring) \in Nat /\ HeaderSize \in Nat
  BY LineTypes DEF HeaderSize
<1>4. Len(Owed[1]) \in Nat /\ RequiredSize(Len(Owed[1])) \in Nat
      /\ RequiredSize(Len(Owed[1])) > HeaderSize
      /\ RequiredSize(Len(Owed[1])) <= BufferSize /\ BufferSize \in Nat
  BY <1>2, Bytes DEF RequiredSize, HeaderSize, FooterSize
<1>5. ASSUME Len(ring) < HeaderSize, ReadBytes(HeaderSize) PROVE FALSE
  <2>1. wire = <<>>
    BY <1>5 DEF ReadBytes
  <2>2. Len(wire) = 0
    BY <2>1
  <2> QED
    BY <1>2, <1>3, <1>4, <1>5, <2>2
<1>6. ASSUME Len(ring) >= HeaderSize
      PROVE  got = Take(ring, HeaderSize) /\ Len(got) = HeaderSize /\ HeaderLength(got) = Len(Owed[1])
  <2>1. /\ Take(ring, HeaderSize) \in Seq(Nat) /\ Len(Take(ring, HeaderSize)) = HeaderSize
        /\ Take(ring, HeaderSize)[HeaderSize] = ring[HeaderSize]
    <3>1. Least(HeaderSize, Len(ring)) = HeaderSize /\ HeaderSize \in 1 .. HeaderSize
      BY <1>3, <1>6, LeastIs DEF HeaderSize
    <3> QED
      BY <1>3, <3>1, TakenBytes
  <2>2. got = Take(ring, HeaderSize)
    BY <1>2, <2>1, ConcatEmptySeq
  <2> QED
    BY <1>2, <1>6, <2>1, <2>2 DEF HeaderLength
<1>7. ASSUME Len(ring) >= HeaderSize PROVE Fits(got)
  <2> HIDE DEF got
  <2>1. Len(got) = HeaderSize /\ HeaderLength(got) = Len(Owed[1])
    BY <1>6, <1>7
  <2>2. RequiredSize(Len(Owed[1])) - HeaderSize <= BufferSize - HeaderSize
    BY <1>3, <1>4
  <2> QED
    BY <1>4, <2>1, <2>2 DEF Fits
<1>8. CASE /\ Len(ring) >= HeaderSize /\ ReadBytes(HeaderSize) /\ stage' = "payload"
           /\ left' = RequiredSize(HeaderLength(got)) - HeaderSize
  <2>1. rx' = Take(ring, HeaderSize) /\ ring' = Drop(ring, HeaderSize)
    BY <1>6, <1>8 DEF ReadBytes
  <2>2. rx' \o ring' = ring
    BY <1>3, <2>1, Cut
  <2>3. Ahead' = ring \o wire /\ Ahead = ring \o wire
    BY <1>1, <1>8, <2>2, LineTypes DEF Ahead
  <2>4. Len(rx') = HeaderSize /\ left' = RequiredSize(Len(Owed[1])) - HeaderSize
    BY <1>6, <1>8, <2>1
  <2> QED
    BY <1>1, <1>2, <1>8, <2>3, <2>4, SameLine
<1> QED
  BY <1>3, <1>5, <1>7, <1>8 DEF ReadHeader

LEMMA PayloadLine ==
  ASSUME TypeOKSerial, TypeOKSerial', LineInv, ReadPayload, ~hurt, ~hurt'
  PROVE  LineInv'
<1> DEFINE p == Owed[1]
           r == RequiredSize(Len(p))
<1>1. stage = "payload" /\ ReadBytes(left) /\ UNCHANGED <<wire, frames, sent>>
  BY DEF ReadPayload
<1>2. Len(rx) = HeaderSize /\ Owed # <<>> /\ left = r - HeaderSize /\ sent = handed \o Owed
  BY <1>1 DEF LineInv
<1>3. /\ ring \in Seq(Nat) /\ wire \in Seq(Nat) /\ rx \in Seq(Nat) /\ left \in Nat
      /\ Owed \in Seq(Payloads) /\ handed \in Seq(Seq(Nat))
  BY LineTypes, Bytes DEF TypeOKSerial
<1>4. /\ p \in Payloads /\ r <= Len(Ahead) /\ FrameAt(Ahead, 0, r, p)
      /\ Carries(Drop(Ahead, r), Tail(Owed))
  BY <1>2, FrameAhead
<1>5. p \in Seq(Nat) /\ Len(p) \in Nat \ {0} /\ r \in Nat /\ r = Len(p) + 4
  BY <1>4, Bytes DEF RequiredSize, HeaderSize, FooterSize
<1> HIDE DEF p, r
<1>6. Ahead = (rx \o ring) \o wire
  BY <1>1 DEF Ahead
<1>7. Len(Ahead) = HeaderSize + Len(ring) + Len(wire)
  <2>1. rx \o ring \in Seq(Nat) /\ Len(rx \o ring) = HeaderSize + Len(ring)
    BY <1>2, <1>3, ConcatProperties
  <2> QED
    BY <1>3, <1>6, <2>1, ConcatProperties
<1>8. Len(ring) >= left
  <2>1. Len(ring) < left => wire = <<>>
    BY <1>1 DEF ReadBytes
  <2>2. wire = <<>> => Len(wire) = 0
    OBVIOUS
  <2>3. Len(ring) \in Nat /\ Len(wire) \in Nat /\ HeaderSize \in Nat
    BY <1>3 DEF HeaderSize
  <2> QED
    BY <1>2, <1>3, <1>4, <1>5, <1>7, <2>1, <2>2, <2>3
<1>9. Least(left, Len(ring)) = left
  BY <1>3, <1>8, LeastIs
<1>10. /\ rx' \in Seq(Nat) /\ Len(rx') = r /\ Len(rx') - Len(rx) = left /\ left > 0
  <2>1. rx' \in Seq(Nat) /\ Len(rx') = Len(rx) + left
    BY <1>1, <1>3, <1>9, ReadTypes
  <2> QED
    BY <1>2, <1>3, <1>5, <2>1 DEF HeaderSize
<1>11. Ahead = rx' \o (ring' \o wire) /\ ring' \in Seq(Nat)
  <2> DEFINE a == Take(ring, left)
             d == Drop(ring, left)
  <2>1. a \in Seq(Nat) /\ d \in Seq(Nat) /\ a \o d = ring /\ rx' = rx \o a /\ ring' = d
    BY <1>1, <1>3, TakenBytes, DroppedBytes, Cut DEF ReadBytes
  <2> HIDE DEF a, d
  <2>2. (rx \o a) \o d = rx \o (a \o d)
    <3>1. rx \in Seq(Nat) /\ a \in Seq(Nat) /\ d \in Seq(Nat)
      BY <1>3, <2>1
    <3> QED
      BY <3>1, Regrouped
  <2>3. Ahead = (rx' \o ring') \o wire
    BY <1>6, <2>1, <2>2
  <2>4. rx' \in Seq(Nat) /\ ring' \in Seq(Nat) /\ wire \in Seq(Nat)
    BY <1>3, <1>10, <2>1
  <2>5. (rx' \o ring') \o wire = rx' \o (ring' \o wire)
    BY <2>4, Regrouped
  <2> QED
    BY <2>3, <2>4, <2>5
<1>12. ring' \o wire \in Seq(Nat)
  BY <1>3, <1>11, ConcatProperties
<1>13. \A i \in 1 .. r : rx'[i] = Ahead[i]
  BY <1>5, <1>10, <1>11, <1>12, ConcatProperties
<1>14. /\ rx'[1] = Start /\ rx'[HeaderSize] = Len(p) /\ rx'[r] = End
       /\ \A k \in 1 .. Len(p) : rx'[HeaderSize + k] = p[k]
  <2>1. /\ Ahead[1] = Start /\ Ahead[HeaderSize] = Len(p) /\ Ahead[r] = End
        /\ \A k \in 1 .. Len(p) : Ahead[HeaderSize + k] = p[k]
    <3>1. 0 + 1 = 1 /\ 0 + HeaderSize = HeaderSize
      BY DEF HeaderSize
    <3> QED
      BY <1>4, <3>1 DEF FrameAt
  <2>2. 1 \in 1 .. r /\ HeaderSize \in 1 .. r /\ r \in 1 .. r
        /\ \A k \in 1 .. Len(p) : HeaderSize + k \in 1 .. r
    BY <1>5 DEF HeaderSize
  <2> QED
    BY <1>13, <2>1, <2>2
<1>15. Unwraps(rx') /\ HeaderLength(rx') = Len(p)
  BY <1>5, <1>10, <1>14 DEF Unwraps, HeaderLength, RequiredSize, HeaderSize, FooterSize
<1>16. Unwrap(rx') = p
  <2> DEFINE u == SubSeq(rx', HeaderSize + 1, HeaderSize + Len(p))
  <2>1. \A i \in HeaderSize + 1 .. HeaderSize + Len(p) : rx'[i] \in Nat
    BY <1>5, <1>10 DEF HeaderSize
  <2>2. /\ u \in Seq(Nat) /\ Len(u) = Len(p)
        /\ \A i \in 1 .. Len(p) : u[i] = rx'[HeaderSize + i]
    BY <1>5, <2>1, SubSeqProperties DEF HeaderSize
  <2> HIDE DEF u
  <2>3. u = p
    BY <1>5, <1>14, <2>2, SeqEqual
  <2> QED
    BY <1>15, <2>3 DEF Unwrap, u
<1>17. handed' = Append(handed, p) /\ stage' = "done"
  BY <1>3, <1>10, <1>15, <1>16 DEF ReadPayload
<1>18. Ahead' = ring' \o wire
  <2>1. <<>> \o ring' = ring'
    BY <1>11, ConcatEmptySeq
  <2> QED
    BY <1>1, <1>17, <2>1 DEF Ahead
<1>19. Drop(Ahead, r) = ring' \o wire
  BY <1>10, <1>11, <1>12, Behind
<1>20. sent' = handed' \o Tail(Owed) /\ Tail(Owed) \in Seq(Payloads)
  <2>1. Owed \in Seq(Seq(Nat))
    BY <1>3, PacketsAreBytes
  <2>2. handed \o Owed = Append(handed, p) \o Tail(Owed)
    BY <1>2, <1>3, <2>1, Handing DEF p
  <2> QED
    BY <1>1, <1>2, <1>3, <1>17, <2>2, HeadTailProperties
<1>21. handed' \in Seq(Seq(Nat))
  BY DEF TypeOKSerial
<1>22. Carries(Ahead', Tail(Owed))
  BY <1>4, <1>18, <1>19
<1> QED
  BY <1>17, <1>20, <1>21, <1>22, Tidy

LEMMA NextLine ==
  ASSUME TypeOKSerial, TypeOKSerial', LineInv, [NextSerial]_serialVars
  PROVE  LineInv'
<1> SUFFICES ASSUME ~hurt' PROVE LineInv'
  BY DEF LineInv
<1>1. ASSUME PiWrites PROVE LineInv'
  BY <1>1, WritesLine DEF PiWrites
<1>2. ASSUME Arrive PROVE LineInv'
  BY <1>2, ArrivesLine DEF Arrive, TypeOKSerial
<1>3. ASSUME SyncBegins PROVE LineInv'
  <2>1. /\ stage = "out" /\ stage' = "scan"
        /\ UNCHANGED <<wire, ring, left, frames, sent, handed, hurt>>
    BY <1>3 DEF SyncBegins
  <2>2. ~hurt /\ rx = <<>>
    BY <2>1 DEF LineInv
  <2>3. rx' = <<>>
    BY <1>3, <2>2 DEF SyncBegins
  <2>4. Ahead' = Ahead
    BY <2>1 DEF Ahead
  <2> QED
    BY <2>1, <2>2, <2>3, <2>4, SameLine
<1>4. ASSUME SyncEnds PROVE LineInv'
  <2>1. stage = "scan" /\ stage' = "out" /\ ring = <<>> /\ UNCHANGED <<wire, ring, rx, left, frames>>
    BY <1>4, Zenon DEF SyncEnds
  <2>2. CASE wire = <<>> /\ rx = <<>>
    <3>1. sent' = <<>> /\ handed' = <<>>
      BY <1>4, <2>2, Zenon DEF SyncEnds
    <3>2. Ahead' = <<>> /\ <<>> \in Seq(Payloads) /\ <<>> = <<>> \o <<>>
      BY <2>1, <2>2, EmptySeq, ConcatEmptySeq DEF Ahead
    <3> QED
      BY <2>1, <2>2, <3>1, <3>2, CarriesNone, Tidy DEF TypeOKSerial
  <2>3. CASE ~(wire = <<>> /\ rx = <<>>)
    <3>1. UNCHANGED <<sent, handed, hurt>>
      BY <1>4, <2>3, Zenon DEF SyncEnds
    <3>2. Ahead' = Ahead
      BY <2>1 DEF Ahead
    <3> QED
      BY <2>1, <3>1, <3>2, SameLine DEF LineInv
  <2> QED
    BY <2>2, <2>3
<1>5. ASSUME Discard PROVE LineInv'
  BY <1>5, ScanAhead DEF Discard
<1>6. ASSUME NoRoomForHeader PROVE LineInv'
  <2>1. stage = "scan" /\ ring # <<>> /\ HeaderSize > BufferSize - Len(rx) /\ ~hurt
    BY <1>6 DEF NoRoomForHeader
  <2>2. rx = <<>> /\ Owed[1] \in Payloads
    BY <2>1, ScanAhead
  <2>3. BufferSize \in Nat /\ Len(Owed[1]) \in Nat /\ RequiredSize(Len(Owed[1])) <= BufferSize
    BY <2>2, Bytes
  <2> QED
    BY <2>1, <2>2, <2>3 DEF RequiredSize, HeaderSize, FooterSize
<1>7. ASSUME ReadHeader PROVE LineInv'
  BY <1>7, HeaderLine DEF ReadHeader, ReadBytes, TypeOKSerial
<1>8. ASSUME ReadPayload PROVE LineInv'
  BY <1>8, PayloadLine DEF ReadPayload, ReadBytes, TypeOKSerial
<1>9. ASSUME Waited PROVE LineInv'
  BY <1>9 DEF Waited, LineInv
<1>10. ASSUME FrameDone PROVE LineInv'
  <2>1. /\ stage = "done" /\ stage' = "scan" /\ rx' = <<>>
        /\ UNCHANGED <<wire, ring, frames, sent, handed, hurt>>
    BY <1>10 DEF FrameDone
  <2>2. Ahead' = Ahead
    BY <2>1 DEF Ahead
  <2> QED
    BY <2>1, <2>2, SameLine
<1>11. ASSUME UNCHANGED serialVars PROVE LineInv'
  BY <1>11, Zenon DEF serialVars, LineInv, Ahead, Owed
<1> QED
  BY <1>1, <1>2, <1>3, <1>4, <1>5, <1>6, <1>7, <1>8, <1>9, <1>10, <1>11 DEF NextSerial, Sync

LEMMA SerialHolds == SpecSerial => []SerialInv
<1>1. InitSerial => SerialInv
  <2> SUFFICES ASSUME InitSerial PROVE SerialInv
    OBVIOUS
  <2>1. TypeOKSerial
    <3>1. /\ wire = <<>> /\ ring = <<>> /\ rx = <<>> /\ sent = <<>> /\ handed = <<>>
          /\ left = 0 /\ frames = 0 /\ stage = "out" /\ hurt = FALSE
      BY DEF InitSerial
    <3>2. <<>> \in Seq(Nat) /\ Len(<<>>) = 0
      BY EmptySeq
    <3>3. sent \in Seq(Payloads)
      BY <3>1, EmptySeq
    <3>4. handed \in Seq(Seq(Nat))
      BY <3>1, EmptySeq
    <3>5. RingSize \in Nat /\ BufferSize \in Nat /\ MaxFrames \in Nat
      BY Bytes
    <3>6. /\ wire \in Seq(Nat) /\ ring \in Seq(Nat) /\ Len(ring) <= RingSize
          /\ rx \in Seq(Nat) /\ Len(rx) <= BufferSize
      BY <3>1, <3>2, <3>5
    <3>7. /\ left \in 0 .. BufferSize /\ frames \in 0 .. MaxFrames /\ hurt \in BOOLEAN
          /\ stage \in {"out", "scan", "payload", "wait", "done"}
      <4>1. left = 0 /\ frames = 0
        BY <3>1
      <4>2. hurt = FALSE /\ stage = "out"
        BY <3>1
      <4>3. left \in 0 .. BufferSize /\ frames \in 0 .. MaxFrames
        BY <3>5, <4>1
      <4> QED
        BY <4>2, <4>3
    <3> QED
      BY <3>3, <3>4, <3>6, <3>7 DEF TypeOKSerial
  <2>2. RoomInv
    BY DEF InitSerial, RoomInv
  <2>3. Owed = <<>> /\ Ahead = <<>>
    BY DEF InitSerial, Owed, Ahead, Drop
  <2>4. LineInv
    BY <2>3, CarriesNone DEF InitSerial, LineInv
  <2> QED
    BY <2>1, <2>2, <2>4 DEF SerialInv
<1>2. SerialInv /\ [NextSerial]_serialVars => SerialInv'
  BY SerialTypes, NextLine DEF SerialInv
<1> QED
  BY <1>1, <1>2, PTL DEF SpecSerial

\* The bytes that sync() keeps fit in the shared buffer and the ring, and its
\* count of missing bytes never runs below zero, whatever bytes come,
\* whenever they come and however many are lost (SerialPort::sync).
THEOREM SerialTypeCorrect == SpecSerial => []TypeOKSerial
<1>1. SerialInv => TypeOKSerial
  BY DEF SerialInv
<1> QED
  BY <1>1, SerialHolds, PTL

\* sync() gives the queue what the Pi wrote, in its order and once, as long
\* as the line does no damage, and again when it has healed, whatever bytes
\* the packets and timestamps contain (SerialPort::sync, BinaryFrame).
THEOREM LineIsExact == SpecSerial => []Exact
<1>1. SerialInv => Exact
  <2> SUFFICES ASSUME SerialInv, ~hurt
               PROVE  /\ IsPrefix(handed, sent)
                      /\ stage \in {"out", "scan"} /\ ring = <<>> /\ wire = <<>> => handed = sent
    BY DEF Exact
  <2>1. handed \in Seq(Seq(Nat)) /\ Owed \in Seq(Seq(Nat)) /\ sent = handed \o Owed
    BY LineTypes, PacketsAreBytes DEF SerialInv, LineInv
  <2>2. IsPrefix(handed, sent)
    <3>1. Len(handed) \in Nat /\ Len(Owed) \in Nat /\ Len(sent) = Len(handed) + Len(Owed)
          /\ \A i \in 1 .. Len(handed) : sent[i] = handed[i]
      BY <2>1, ConcatProperties
    <3>2. sent \in Seq(Seq(Nat))
      BY <2>1, ConcatProperties
    <3>3. SubSeq(sent, 1, Len(handed)) = handed
      <4> DEFINE u == SubSeq(sent, 1, Len(handed))
      <4>1. \A i \in 1 .. Len(handed) : sent[i] \in Seq(Nat)
        BY <2>1, <3>1
      <4>2. u \in Seq(Seq(Nat)) /\ Len(u) = Len(handed) /\ \A i \in 1 .. Len(handed) : u[i] = sent[i]
        BY <3>1, <4>1, SubSeqProperties
      <4> HIDE DEF u
      <4>3. u = handed
        BY <2>1, <3>1, <4>2, SeqEqual
      <4> QED
        BY <4>3 DEF u
    <3> QED
      BY <2>1, <3>1, <3>3 DEF IsPrefix
  <2>3. ASSUME stage \in {"out", "scan"}, ring = <<>>, wire = <<>> PROVE handed = sent
    <3>1. Ahead = <<>>
      BY <2>3 DEF Ahead
    <3>2. Owed = <<>>
      BY <3>1, LineTypes, CarriedLength DEF SerialInv, LineInv
    <3> QED
      BY <2>1, <3>2, ConcatEmptySeq
  <2> QED
    BY <2>2, <2>3
<1> QED
  BY <1>1, SerialHolds, PTL

-----------------------------------------------------------------------------
(* A call of sync() cannot go on without reading: what there is to read,    *)
(* and where it is in the frame, make a measure that each of its steps      *)
(* lowers.                                                                  *)

Rank ==
  IF stage = "payload" THEN 3
  ELSE IF stage = "wait" THEN IF ring = <<>> THEN 2 ELSE 4
  ELSE IF stage = "done" THEN 1 ELSE 0

Work == 10 * Len(wire) + 5 * Len(ring) + Rank

\* A frame that is being read is not complete.
MissingInv == stage \in {"payload", "wait"} => left > 0

\* A step of the line, or one of sync() after which the call goes on.
GoesOn == Arrive \/ (Sync /\ stage # "out" /\ stage' # "out")

LEMMA Measures ==
  ASSUME TypeOKSerial, TypeOKSerial'
  PROVE  /\ Len(wire) \in Nat /\ Len(ring) \in Nat /\ Rank \in 0 .. 4
         /\ Len(wire') \in Nat /\ Len(ring') \in Nat /\ Rank' \in 0 .. 4
         /\ ring = <<>> <=> Len(ring) = 0
<1>1. wire \in Seq(Nat) /\ ring \in Seq(Nat) /\ wire' \in Seq(Nat) /\ ring' \in Seq(Nat)
  BY DEF TypeOKSerial
<1>2. Rank \in 0 .. 4 /\ Rank' \in 0 .. 4
  BY DEF Rank
<1> QED
  BY <1>1, <1>2, EmptySeq

\* What a read takes from the ring, and what it then counts as missing.
LEMMA ReadTakes ==
  ASSUME TypeOKSerial, NEW n \in Nat \ {0}, ReadBytes(n)
  PROVE  /\ Len(ring') \in Nat
         /\ Len(rx') - Len(rx) \in 0 .. n
         /\ ring = <<>> => ring' = <<>> /\ Len(rx') - Len(rx) = 0
         /\ ring # <<>> => Len(ring') < Len(ring) /\ Len(rx') - Len(rx) > 0
<1>1. Len(rx') = Len(rx) + Least(n, Len(ring)) /\ ring' \in Seq(Nat)
  BY ReadTypes
<1>2. ring \in Seq(Nat) /\ rx \in Seq(Nat)
  BY DEF TypeOKSerial
<1>3. Len(ring') = IF n <= Len(ring) THEN Len(ring) - n ELSE 0
  BY <1>2, DroppedBytes DEF ReadBytes
<1>4. /\ Len(ring) \in Nat /\ Len(rx) \in Nat /\ Len(ring') \in Nat
      /\ (ring = <<>> <=> Len(ring) = 0) /\ (ring' = <<>> <=> Len(ring') = 0)
  BY <1>1, <1>2, EmptySeq
<1>5. Least(n, Len(ring)) = IF n <= Len(ring) THEN n ELSE Len(ring)
  BY <1>4, LeastIs
<1> QED
  BY <1>1, <1>3, <1>4, <1>5

LEMMA HeaderTakes ==
  ASSUME TypeOKSerial, ReadHeader
  PROVE  /\ Len(ring') \in Nat /\ Len(ring') < Len(ring) /\ wire' = wire
         /\ stage = "scan" /\ stage' \in {"scan", "payload"}
         /\ stage' = "payload" => left' > 0
<1>1. ring \in Seq(Nat) /\ ring # <<>> /\ rx \in Seq(Nat) /\ stage = "scan" /\ wire' = wire
  BY DEF ReadHeader, TypeOKSerial
<1> DEFINE got == rx \o Take(ring, HeaderSize)
<1>2. \/ ReadBytes(HeaderSize) /\ stage' = stage
      \/ /\ Len(ring) >= HeaderSize /\ ReadBytes(HeaderSize)
         /\ left' = RequiredSize(HeaderLength(got)) - HeaderSize /\ stage' = "payload"
      \/ ring' = Drop(ring, HeaderSize) /\ stage' = stage
  BY Zenon DEF ReadHeader
<1>3. ring' = Drop(ring, HeaderSize)
  BY <1>2 DEF ReadBytes
<1>4. HeaderSize \in Nat
  BY DEF HeaderSize
<1>5. ring' \in Seq(Nat) /\ Len(ring') = IF HeaderSize <= Len(ring) THEN Len(ring) - HeaderSize ELSE 0
  BY <1>1, <1>3, <1>4, DroppedBytes
<1>6. Len(ring') \in Nat /\ Len(ring') < Len(ring)
  <2>1. Len(ring) \in Nat \ {0}
    BY <1>1, EmptySeq
  <2> QED
    BY <1>5, <2>1 DEF HeaderSize
<1>7. ASSUME stage' = "payload" PROVE left' > 0
  <2>1. Len(ring) >= HeaderSize /\ left' = RequiredSize(HeaderLength(got)) - HeaderSize
    BY <1>1, <1>2, <1>7
  <2>2. got \in Seq(Nat) /\ Len(got) >= HeaderSize
    <3> DEFINE a == Take(ring, HeaderSize)
    <3>1. a \in Seq(Nat) /\ Len(a) = Least(HeaderSize, Len(ring))
      BY <1>1, <1>4, TakenBytes
    <3>2. Len(ring) \in Nat
      BY <1>1
    <3>3. Len(a) = HeaderSize
      BY <1>4, <2>1, <3>1, <3>2, LeastIs
    <3> HIDE DEF a
    <3>4. rx \o a \in Seq(Nat) /\ Len(rx \o a) = Len(rx) + HeaderSize
      <4>1. rx \in Seq(Nat) /\ a \in Seq(Nat)
        BY <1>1, <3>1
      <4>2. rx \o a \in Seq(Nat) /\ Len(rx \o a) = Len(rx) + Len(a)
        BY <4>1, ConcatProperties, Zenon
      <4> QED
        BY <3>3, <4>2
    <3>5. Len(rx) \in Nat
      BY <1>1
    <3> QED
      BY <3>4, <3>5 DEF a, HeaderSize
  <2> HIDE DEF got
  <2>3. HeaderLength(got) \in Nat
    BY <2>2 DEF HeaderLength, HeaderSize
  <2> QED
    BY <2>1, <2>3 DEF RequiredSize, HeaderSize, FooterSize
<1> QED
  BY <1>1, <1>2, <1>6, <1>7

LEMMA PayloadTakes ==
  ASSUME TypeOKSerial, MissingInv, ReadPayload
  PROVE  /\ Len(ring') \in Nat /\ wire' = wire
         /\ stage = "payload" /\ stage' \in {"wait", "payload", "done"}
         /\ stage' \in {"wait", "payload"} => left' > 0
         /\ ring = <<>> => stage' = "wait" /\ ring' = <<>>
         /\ ring # <<>> => Len(ring') < Len(ring)
<1> DEFINE got == Len(rx') - Len(rx)
<1>1. stage = "payload" /\ wire' = wire /\ ReadBytes(left)
  BY DEF ReadPayload
<1>2. left \in Nat \ {0}
  BY <1>1 DEF MissingInv, TypeOKSerial
<1>3. /\ Len(ring') \in Nat /\ got \in 0 .. left
      /\ ring = <<>> => ring' = <<>> /\ got = 0
      /\ ring # <<>> => Len(ring') < Len(ring) /\ got > 0
  BY <1>1, <1>2, ReadTakes
<1>4. /\ left' = left - got
      /\ \/ (got = 0 \/ got < left - got) /\ stage' = "wait"
         \/ got > 0 /\ stage' = IF left - got > 0 THEN "payload" ELSE "done"
         \/ got > 0 /\ stage' = "done"
  BY Zenon DEF ReadPayload
<1> HIDE DEF got
<1>5. got \in Nat /\ left - got \in Nat
  BY <1>2, <1>3
<1>6. stage' \in {"wait", "payload", "done"}
  BY <1>4
<1>7. stage' \in {"wait", "payload"} => left' > 0
  BY <1>2, <1>4, <1>5
<1>8. ring = <<>> => stage' = "wait" /\ ring' = <<>>
  BY <1>3, <1>4
<1> QED
  BY <1>1, <1>3, <1>6, <1>7, <1>8

LEMMA NextMissing ==
  ASSUME TypeOKSerial, MissingInv, [NextSerial]_serialVars
  PROVE  MissingInv'
<1>1. CASE ReadHeader
  BY <1>1, HeaderTakes DEF MissingInv
<1>2. CASE ReadPayload
  BY <1>2, PayloadTakes DEF MissingInv
<1>3. CASE Waited
  BY <1>3 DEF Waited, MissingInv
<1>4. CASE PiWrites \/ Arrive \/ Discard
  BY <1>4 DEF PiWrites, Arrive, Discard, MissingInv
<1>5. CASE SyncBegins \/ SyncEnds \/ NoRoomForHeader \/ FrameDone
  BY <1>5 DEF SyncBegins, SyncEnds, NoRoomForHeader, FrameDone, MissingInv
<1>6. CASE UNCHANGED serialVars
  BY <1>6, Zenon DEF serialVars, MissingInv
<1> QED
  BY <1>1, <1>2, <1>3, <1>4, <1>5, <1>6 DEF NextSerial, Sync

\* Bytes that arrive are less work in the ring than on the wire.
LEMMA ArrivalWorks ==
  ASSUME TypeOKSerial, TypeOKSerial', Arrive
  PROVE  Work' < Work
<1>1. PICK n \in 1 .. Len(wire) :
        ring' = Take(ring \o Take(wire, n), RingSize) /\ wire' = Drop(wire, n)
  BY DEF Arrive
<1>2. wire \in Seq(Nat) /\ ring \in Seq(Nat) /\ n \in Nat \ {0} /\ n <= Len(wire)
      /\ RingSize \in Nat /\ stage' = stage
  BY <1>1, Bytes DEF TypeOKSerial, Arrive
<1> DEFINE a == Take(wire, n)
           b == ring \o a
<1>3. a \in Seq(Nat) /\ Len(a) = n
  <2>1. Len(wire) \in Nat
    BY <1>2
  <2> QED
    BY <1>2, <2>1, TakenBytes, LeastIs
<1>4. b \in Seq(Nat) /\ Len(b) = Len(ring) + n
  <2>1. ring \in Seq(Nat) /\ a \in Seq(Nat)
    BY <1>2, <1>3
  <2> HIDE DEF a
  <2>2. b \in Seq(Nat) /\ Len(b) = Len(ring) + Len(a)
    BY <2>1, ConcatProperties, Zenon
  <2> QED
    BY <1>3, <2>2
<1>5. ring' = Take(b, RingSize)
  BY <1>1
<1> HIDE DEF a, b
<1>6. Len(ring') <= Len(ring) + n
  <2>1. Len(ring') = Least(RingSize, Len(b))
    BY <1>2, <1>4, <1>5, TakenBytes
  <2>2. Len(b) \in Nat
    BY <1>4
  <2>3. Least(RingSize, Len(b)) <= Len(b)
    BY <1>2, <2>2, LeastIs
  <2> QED
    BY <1>4, <2>1, <2>3
<1>7. Len(wire') = Len(wire) - n
  BY <1>1, <1>2, DroppedBytes
<1>8. Rank' <= Rank + 2 /\ Rank \in Nat /\ Rank' \in Nat
  BY <1>2, Measures DEF Rank
<1>9. Len(wire) \in Nat /\ Len(ring) \in Nat /\ Len(ring') \in Nat
  BY Measures
<1> DEFINE r == Rank
           q == Rank'
<1> HIDE DEF r, q
<1>10. 10 * Len(wire') + 5 * Len(ring') + q < 10 * Len(wire) + 5 * Len(ring) + r
  BY <1>2, <1>6, <1>7, <1>8, <1>9 DEF r, q
<1> QED
  BY <1>10 DEF Work, r, q

\* Whatever is read is less work; without a byte, a frame is waited for and
\* then given up.
LEMMA SyncWorks ==
  ASSUME TypeOKSerial, TypeOKSerial', MissingInv, Sync, stage # "out", stage' # "out"
  PROVE  Work' < Work
<1> DEFINE w == Len(wire)
           r == Len(ring)
           s == Len(ring')
<1>1. /\ w \in Nat /\ r \in Nat /\ s \in Nat /\ Rank \in 0 .. 4 /\ Rank' \in 0 .. 4
      /\ ring = <<>> <=> r = 0
  BY Measures
<1>2. Work = 10 * w + 5 * r + Rank /\ Work' = 10 * Len(wire') + 5 * s + Rank'
  BY DEF Work
<1>3. /\ wire' = wire
      /\ \/ s < r /\ Rank' <= Rank + 4
         \/ s = r /\ Rank' < Rank
  <2>1. CASE Discard
    <3>1. ring \in Seq(Nat) /\ ring # <<>> /\ ring' = Tail(ring) /\ wire' = wire
      BY <2>1 DEF Discard, TypeOKSerial
    <3>2. s < r
      BY <3>1
    <3> QED
      BY <1>1, <3>1, <3>2
  <2>2. CASE ReadHeader
    BY <1>1, <2>2, HeaderTakes
  <2>3. CASE ReadPayload
    <3>1. CASE ring = <<>>
      BY <2>3, <3>1, PayloadTakes DEF Rank
    <3>2. CASE ring # <<>>
      BY <1>1, <2>3, <3>2, PayloadTakes
    <3> QED
      BY <3>1, <3>2
  <2>4. CASE Waited
    BY <2>4 DEF Waited, Rank
  <2>5. CASE FrameDone
    BY <2>5 DEF FrameDone, Rank
  <2>6. CASE SyncBegins \/ SyncEnds \/ NoRoomForHeader
    BY <2>6 DEF SyncBegins, SyncEnds, NoRoomForHeader
  <2> QED
    BY <2>1, <2>2, <2>3, <2>4, <2>5, <2>6 DEF Sync
<1> DEFINE k == Rank
           l == Rank'
<1>4. 10 * w + 5 * s + l < 10 * w + 5 * r + k
  <2>1. k \in 0 .. 4 /\ l \in 0 .. 4 /\ ((s < r /\ l <= k + 4) \/ (s = r /\ l < k))
    BY <1>1, <1>3
  <2> HIDE DEF w, r, s, k, l
  <2> QED
    BY <1>1, <2>1
<1> QED
  BY <1>2, <1>3, <1>4

\* sync() makes its way through the bytes: each step of the line, and each one
\* after which the call goes on, lowers the work that is left, a natural
\* number that only a new frame of the Pi raises.  A call ends because of
\* this, however the bytes come, and none of its loops turns without reading
\* (SerialPort::sync: the wait for bytes, the full buffer, the header that
\* does not fit).
THEOREM SyncMakesProgress ==
  SpecSerial => [][(GoesOn => Work' < Work) /\ Work \in Nat]_serialVars
<1>1. InitSerial => MissingInv
  BY DEF InitSerial, MissingInv
<1>2. SerialInv /\ MissingInv /\ [NextSerial]_serialVars => MissingInv'
  BY NextMissing DEF SerialInv
<1>3. SpecSerial => []MissingInv
  BY <1>1, <1>2, SerialHolds, PTL DEF SpecSerial
<1>4. SerialInv /\ SerialInv' /\ MissingInv => (GoesOn => Work' < Work)
  BY ArrivalWorks, SyncWorks DEF GoesOn, SerialInv
<1>5. SerialInv /\ SerialInv' => Work \in Nat
  <2> SUFFICES ASSUME TypeOKSerial, TypeOKSerial' PROVE Work \in Nat
    BY DEF SerialInv
  <2> DEFINE r == Rank
  <2>1. r \in Nat /\ Len(wire) \in Nat /\ Len(ring) \in Nat
    BY Measures
  <2> HIDE DEF r
  <2>2. 10 * Len(wire) + 5 * Len(ring) + r \in Nat
    BY <2>1
  <2> QED
    BY <2>2 DEF Work, r
<1>6. SerialInv /\ SerialInv' /\ MissingInv => [(GoesOn => Work' < Work) /\ Work \in Nat]_serialVars
  BY <1>4, <1>5
<1> QED
  BY <1>3, <1>6, SerialHolds, PTL
=============================================================================
