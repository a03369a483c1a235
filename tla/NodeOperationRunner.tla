------------------------ MODULE NodeOperationRunner -------------------------
(***************************************************************************)
(* The main task of the node (src/lib/core/NodeOperationRunner) with what  *)
(* one call of its run() reaches: the router that looks at the ports in    *)
(* order, the routines that answer a packet, the cache of the modules of   *)
(* the Raspberry Pi, and the Pi, which answers late or never.              *)
(*                                                                         *)
(* run() takes a step for the next incoming packet and a step for each     *)
(* report.  Ports are first-in first-out queues, as PacketFifo promises,   *)
(* and the cache behaves as ModuleCache promises, for one module.          *)
(*                                                                         *)
(* A packet id of 0 is replaced by the router with a number taken from the *)
(* position in the queue, which no later packet of the port has: AutoId.   *)
(***************************************************************************)
EXTENDS Naturals, Sequences

CONSTANTS
  PortOrder,       \* the ports, in the order the router looks at them
  DevicePort,      \* the port of the Raspberry Pi
  BackendPorts,    \* the ports on which requests arrive
  Requests,        \* the kinds of packet that arrive there
  Ids,             \* the packet ids that the senders of requests choose
  DeviceIds,       \* the packet ids that the Pi chooses
  Reports,         \* the number of ports that send status reports
  ReportGap,       \* calls of run() from one attempt to report to the next
  Faults,          \* what may fail
  DevicePrompt,    \* the Pi answers all requests before the next run()
  MaxRetries,      \* MAX_RETRIES
  MaxArrivals,     \* bound: requests that arrive
  MaxOutstanding,  \* bound: requests on their way to the Pi, others are lost
  MaxQueue,        \* bound: answers of the Pi in its queue, others are lost
  NoModule,        \* the module is not fresh
  AutoId

Port == {PortOrder[i] : i \in DOMAIN PortOrder}

\* get: a command that asks for the module.  set: a command that sets it.
\* own: a command for the node's own modules, or an error packet.  answer: a
\* response with the module.  unknown: a packet without a routine.
\* discard: a packet that cannot be decoded, or is for another node.
Kind == {"get", "set", "own", "answer", "unknown", "discard"}

Fault == {"send", "link", "store", "reset"}

ASSUME RunnerAssumption ==
  /\ PortOrder \in Seq(Port)
  /\ DevicePort \in Port /\ BackendPorts \subseteq Port
  /\ Requests \subseteq Kind \ {"answer"}
  /\ Ids \subseteq Nat /\ DeviceIds \subseteq Nat
  /\ Reports \in Nat /\ ReportGap \in Nat \ {0}
  /\ Faults \subseteq Fault
  /\ DevicePrompt \in BOOLEAN
  /\ {MaxRetries, MaxArrivals, MaxOutstanding, MaxQueue} \subseteq Nat \ {0}
  /\ NoModule \notin Nat /\ AutoId \notin Nat

VARIABLES
  phase,        \* run() is at: 0 the incoming packet, k the k-th report
  queue,        \* the packets of each port
  retry,        \* retryAttemptsLeft_
  updating,     \* _didRequestUpdatedModules of GetUpdatedNodeConfiguration
  reporting,    \* _didRequestUpdatedModules of StatusReporting
  fresh,        \* the module on the card: when it was answered
  loaded,       \* the module in RAM: when it was answered
  outstanding,  \* requests on their way to the Pi
  wait,         \* calls of run() since the k-th report was attempted
  clock,        \* history: requests that have arrived
  tries,        \* history: executions of the routine for the head of a port
  last          \* history: what became of the last packet that was handled

vars == <<phase, queue, retry, updating, reporting, fresh, loaded, outstanding,
          wait, clock, tries, last>>

cache == <<fresh, loaded>>

NoEntry == [id |-> 0, processing |-> 0, sending |-> 0]

NoOutcome == [what |-> "none", tries |-> 0, stale |-> FALSE]

Init ==
  /\ phase = 0
  /\ queue = [p \in Port |-> <<>>]
  /\ retry = [p \in Port |-> NoEntry]
  /\ updating = FALSE /\ reporting = FALSE
  /\ fresh = NoModule /\ loaded = NoModule
  /\ outstanding = 0
  /\ wait = [k \in 1 .. Reports |-> ReportGap]
  /\ clock = 0
  /\ tries = [p \in Port |-> 0]
  /\ last = NoOutcome

-----------------------------------------------------------------------------
\* The outside world.

\* A packet from the backend or another node reaches the queue of a port.
Receive(p, kind, id) ==
  /\ clock < MaxArrivals
  /\ clock' = clock + 1
  /\ queue' = [queue EXCEPT ![p] = Append(@, [kind |-> kind, id |-> id, at |-> clock'])]
  /\ UNCHANGED <<phase, retry, updating, reporting, cache, outstanding, wait, tries, last>>

\* The Pi answers a request, or the answer or the request is lost.
DeviceAnswers ==
  /\ outstanding > 0
  /\ outstanding' = outstanding - 1
  /\ \/ /\ Len(queue[DevicePort]) < MaxQueue
        /\ \E id \in DeviceIds :
             queue' = [queue EXCEPT ![DevicePort] =
                         Append(@, [kind |-> "answer", id |-> id, at |-> clock])]
     \/ /\ "link" \in Faults \/ Len(queue[DevicePort]) = MaxQueue
        /\ UNCHANGED queue
  /\ UNCHANGED <<phase, retry, updating, reporting, cache, wait, clock, tries, last>>

\* The board resets: the queues restart empty, the Pi goes on.
Reset ==
  /\ "reset" \in Faults
  /\ phase' = 0
  /\ queue' = [p \in Port |-> <<>>]
  /\ retry' = [p \in Port |-> NoEntry]
  /\ updating' = FALSE /\ reporting' = FALSE
  /\ fresh' = NoModule /\ loaded' = NoModule
  /\ wait' = [k \in 1 .. Reports |-> ReportGap]
  /\ tries' = [p \in Port |-> 0]
  /\ last' = NoOutcome
  /\ UNCHANGED <<outstanding, clock>>

-----------------------------------------------------------------------------
\* The module cache and the requests to the Pi.

Module == IF loaded # NoModule THEN loaded ELSE fresh

\* n packets are sent to the Pi; some of them may get lost.
Ask(n) ==
  \E sent \in IF "link" \in Faults THEN 0 .. n ELSE {n} :
    outstanding' = IF outstanding + sent > MaxOutstanding THEN MaxOutstanding
                                                          ELSE outstanding + sent

Invalidated == fresh' = NoModule /\ loaded' = NoModule

\* getModules() after requestUpdatedModules(), which asks and invalidates
\* unless the flag says that this was done: a module that is not fresh is
\* requested (again).
ModulesMissing(asked) ==
  /\ ~asked \/ Module = NoModule
  /\ Ask(IF asked THEN 1 ELSE 2)
  /\ Invalidated

ModulesFound(asked) ==
  /\ asked /\ Module # NoModule
  /\ loaded' = Module
  /\ UNCHANGED <<fresh, outstanding>>

-----------------------------------------------------------------------------
\* The router.

Discardable(p) == queue[p] # <<>> /\ Head(queue[p]).kind = "discard"

\* Corrupt packets and packets for other nodes are dropped as the router
\* comes by, one per port; the others stay until they are skipped.
Passed(p) == IF Discardable(p) THEN Tail(queue[p]) ELSE queue[p]

\* peekNextPacket() returns the head of the i-th port.
NextAt(i) ==
  /\ queue[PortOrder[i]] # <<>> /\ ~Discardable(PortOrder[i])
  /\ \A j \in 1 .. i - 1 : queue[PortOrder[j]] = <<>> \/ Discardable(PortOrder[j])

Before(i) == {PortOrder[j] : j \in 1 .. i - 1}

\* The queues when the i-th port keeps its head, and when the head is skipped.
Kept(i) == [p \in Port |-> IF p \in Before(i) THEN Passed(p) ELSE queue[p]]
Skipped(i) == [Kept(i) EXCEPT ![PortOrder[i]] = Tail(@)]

\* Mutant of IdOf: the router leaves the id as it is.
RawId(m) == m.id

\* peekNextPacket() replaces an id of 0.
IdOf(m) == IF m.id = 0 THEN AutoId ELSE m.id

\* An entry left behind by a packet with an id of the router's fits no other.
Outlived(entry) == IF entry.id = AutoId THEN NoEntry ELSE entry

-----------------------------------------------------------------------------
\* processNextIncomingPacket().

\* The packet leaves its port after its routine was executed n times.
Outcome(what, n, stale) == last' = [what |-> what, tries |-> n, stale |-> stale]

NoPacketNext ==
  /\ ~\E i \in DOMAIN PortOrder : NextAt(i)
  /\ queue' = [p \in Port |-> Passed(p)]
  /\ last' = NoOutcome
  /\ UNCHANGED <<retry, updating, cache, outstanding, tries>>

\* No routine for the packet: an error goes to the port, sent or not.
Refuse(i) ==
  /\ Head(queue[PortOrder[i]]).kind = "unknown"
  /\ queue' = Skipped(i)
  /\ Outcome("refused", 0, FALSE)
  /\ UNCHANGED <<retry, updating, cache, outstanding, tries>>

\* The retry entry belongs to another packet: it is made anew, no more.
Enter(i) ==
  LET p == PortOrder[i]
      m == Head(queue[p])
  IN /\ m.kind # "unknown"
     /\ retry[p].id # IdOf(m)
     /\ retry' = [retry EXCEPT ![p] = [id |-> IdOf(m), processing |-> MaxRetries,
                                       sending |-> MaxRetries]]
     /\ queue' = Kept(i)
     /\ last' = NoOutcome
     /\ UNCHANGED <<updating, cache, outstanding, tries>>

Entered(i) ==
  LET p == PortOrder[i]
  IN Head(queue[p]).kind # "unknown" /\ retry[p].id = IdOf(Head(queue[p]))

\* Mutant of HasAttempts: sending is tried for ever.
HasProcessingAttempts(i) == retry[PortOrder[i]].processing # 0

HasAttempts(i) ==
  LET entry == retry[PortOrder[i]] IN entry.processing # 0 /\ entry.sending # 0

\* Mutant of GiveUp: the entry is made anew, but the packet stays.
GiveUpKeeps(i) ==
  LET p == PortOrder[i]
  IN /\ Entered(i) /\ ~HasAttempts(i)
     /\ retry' = [retry EXCEPT ![p] = NoEntry]
     /\ queue' = Kept(i)
     /\ tries' = [tries EXCEPT ![p] = 0]
     /\ last' = NoOutcome
     /\ UNCHANGED <<updating, cache, outstanding>>

\* The attempts are used up: the packet is skipped without an answer.  The
\* routine keeps its state.
GiveUp(i) ==
  LET p == PortOrder[i]
  IN /\ Entered(i) /\ ~HasAttempts(i)
     /\ retry' = [retry EXCEPT ![p] = NoEntry]
     /\ queue' = Skipped(i)
     /\ tries' = [tries EXCEPT ![p] = 0]
     /\ Outcome("dropped", tries[p], FALSE)
     /\ UNCHANGED <<updating, cache, outstanding>>

\* The routine is not done: the packet stays.
Incomplete(i) ==
  LET p == PortOrder[i]
  IN /\ retry' = [retry EXCEPT ![p].processing = @ - 1]
     /\ queue' = Kept(i)
     /\ tries' = [tries EXCEPT ![p] = @ + 1]
     /\ last' = NoOutcome

\* The routine has no answer to send: the retry entry stays.
WithoutPacket(i) ==
  LET p == PortOrder[i]
  IN /\ retry' = [retry EXCEPT ![p] = Outlived(@)]
     /\ queue' = Skipped(i)
     /\ tries' = [tries EXCEPT ![p] = 0]
     /\ Outcome("stored", tries[p] + 1, FALSE)

\* The routine has an answer and the port sends it.
Answered(i, stale) ==
  LET p == PortOrder[i]
  IN /\ retry' = [retry EXCEPT ![p] = NoEntry]
     /\ queue' = Skipped(i)
     /\ tries' = [tries EXCEPT ![p] = 0]
     /\ Outcome("answered", tries[p] + 1, stale)

\* The routine has an answer and the port does not send it.
NotSent(i) ==
  LET p == PortOrder[i]
  IN /\ "send" \in Faults
     /\ retry' = [retry EXCEPT ![p].sending = @ - 1]
     /\ queue' = Kept(i)
     /\ tries' = [tries EXCEPT ![p] = @ + 1]
     /\ last' = NoOutcome

\* Mutant of ExecuteGet: the routine does not remember that it has asked.
ExecuteGetAsksAgain(i) ==
  LET m == Head(queue[PortOrder[i]])
  IN /\ m.kind = "get"
     /\ \/ ModulesMissing(updating) /\ Incomplete(i) /\ UNCHANGED updating
        \/ /\ ModulesFound(updating)
           /\ \/ Answered(i, Module < m.at) /\ updating' = FALSE
              \/ NotSent(i) /\ UNCHANGED updating

\* Mutant of ExecuteGet: the answer leaves the flag of the routine set.
ExecuteGetKeepsFlag(i) ==
  LET m == Head(queue[PortOrder[i]])
  IN /\ m.kind = "get"
     /\ \/ ModulesMissing(updating) /\ Incomplete(i) /\ updating' = TRUE
        \/ /\ ModulesFound(updating)
           /\ Answered(i, Module < m.at) \/ NotSent(i)
           /\ UNCHANGED updating

\* GetUpdatedNodeConfigurationRoutine.
ExecuteGet(i) ==
  LET m == Head(queue[PortOrder[i]])
  IN /\ m.kind = "get"
     /\ \/ ModulesMissing(updating) /\ Incomplete(i) /\ updating' = TRUE
        \/ /\ ModulesFound(updating)
           /\ \/ Answered(i, Module < m.at) /\ updating' = FALSE
              \/ NotSent(i) /\ UNCHANGED updating

\* SetNodeConfigurationRoutine for a module of the Pi: asked for, compared
\* and, where it differs, sent.
ExecuteSet(i) ==
  LET m == Head(queue[PortOrder[i]])
  IN /\ m.kind = "set"
     /\ \/ Module = NoModule /\ Ask(1) /\ Invalidated /\ Incomplete(i)
        \/ /\ Module # NoModule
           /\ \/ loaded' = Module /\ UNCHANGED <<fresh, outstanding>>
              \/ Ask(1) /\ Invalidated
           /\ Answered(i, FALSE) \/ NotSent(i)
     /\ UNCHANGED updating

\* SetNodeConfigurationRoutine for modules of the node, which may fail, and
\* LogAndRelayErrorPacketRoutine, which answers with the packet itself.
ExecuteOwn(i) ==
  LET m == Head(queue[PortOrder[i]])
  IN /\ m.kind = "own"
     /\ Answered(i, FALSE) \/ NotSent(i)
     /\ UNCHANGED <<updating, cache, outstanding>>

\* StoreNodeConfigurationRoutine: an answer only when it fails.
ExecuteStore(i) ==
  LET m == Head(queue[PortOrder[i]])
  IN /\ m.kind = "answer"
     /\ \/ fresh' = m.at /\ WithoutPacket(i)
        \/ /\ "store" \in Faults
           /\ Answered(i, FALSE) \/ NotSent(i)
           /\ UNCHANGED fresh
     /\ UNCHANGED <<updating, loaded, outstanding>>

Execute(i) ==
  /\ Entered(i) /\ HasAttempts(i)
  /\ ExecuteGet(i) \/ ExecuteSet(i) \/ ExecuteOwn(i) \/ ExecuteStore(i)

After(k) == IF k = Reports THEN 0 ELSE k + 1

ProcessNextIncomingPacket ==
  /\ phase = 0
  /\ DevicePrompt => outstanding = 0
  /\ phase' = After(0)
  /\ \/ NoPacketNext
     \/ \E i \in DOMAIN PortOrder :
          NextAt(i) /\ (Refuse(i) \/ Enter(i) \/ GiveUp(i) \/ Execute(i))
  /\ UNCHANGED <<reporting, wait, clock>>

-----------------------------------------------------------------------------
\* processReportingRoutines(): the k-th port reports if its minute has come.
NotDue(k) ==
  /\ wait' = [wait EXCEPT ![k] = IF @ < ReportGap THEN @ + 1 ELSE @]
  /\ UNCHANGED <<reporting, cache, outstanding>>

\* StatusReportingRoutine, whose state the ports share.
Report(k) ==
  /\ wait[k] = ReportGap
  /\ wait' = [wait EXCEPT ![k] = 1]
  /\ \/ ModulesMissing(reporting) /\ reporting' = TRUE
     \/ /\ ModulesFound(reporting)
        /\ \/ reporting' = FALSE
           \/ "send" \in Faults /\ UNCHANGED reporting

ProcessReportingRoutines ==
  /\ phase # 0
  /\ phase' = After(phase)
  /\ NotDue(phase) \/ Report(phase)
  /\ last' = NoOutcome
  /\ UNCHANGED <<queue, retry, updating, clock, tries>>

Next ==
  \/ \E p \in BackendPorts, kind \in Requests, id \in Ids : Receive(p, kind, id)
  \/ DeviceAnswers
  \/ Reset
  \/ ProcessNextIncomingPacket
  \/ ProcessReportingRoutines

\* The scheduler calls run() for ever; nothing makes the Pi answer.
Fairness ==
  WF_vars(ProcessNextIncomingPacket) /\ WF_vars(ProcessReportingRoutines)

Spec == Init /\ [][Next]_vars /\ Fairness

-----------------------------------------------------------------------------
Packet == [kind : Kind, id : Nat, at : 0 .. MaxArrivals]

\* The types of the state.
TypeOK ==
  /\ phase \in 0 .. Reports
  /\ queue \in [Port -> Seq(Packet)]
  /\ retry \in [Port -> [id : Nat \cup {AutoId}, processing : 0 .. MaxRetries,
                         sending : 0 .. MaxRetries]]
  /\ updating \in BOOLEAN /\ reporting \in BOOLEAN
  /\ fresh \in 0 .. MaxArrivals \cup {NoModule}
  /\ loaded \in 0 .. MaxArrivals \cup {NoModule}
  /\ outstanding \in 0 .. MaxOutstanding
  /\ wait \in [1 .. Reports -> 1 .. ReportGap]
  /\ clock \in 0 .. MaxArrivals
  /\ tries \in [Port -> Nat]

\* The header demands that packet ids be unique, yet senders choose them:
\* whatever ids arrive on whatever ports, no packet inherits the attempts of
\* another.  One that is dropped was executed at least MAX_RETRIES times,
\* and none is executed again after 2 * MAX_RETRIES - 1 attempts.  (Answers
\* of the Pi have to come with id 0: a stored answer leaves its entry behind,
\* so that the next one with the same id of its own would inherit it.)
OwnAttempts ==
  /\ last.what = "dropped" => last.tries >= MaxRetries
  /\ \A p \in Port :
       /\ tries[p] <= 2 * MaxRetries - 1
       /\ tries[p] # 0 =>
            /\ queue[p] # <<>>
            /\ retry[p].id = IdOf(Head(queue[p]))
            /\ retry[p].processing + retry[p].sending = 2 * MaxRetries - tries[p]

\* No request for the Pi is given up while the Pi answers in time and nothing
\* fails but the board, when requests come by one port, behind that of the Pi:
\* though each report makes the module invalid that the request waits for, and
\* the Pi's answers are stored before anything else.
\* (With requests at two ports it does not hold: they share the flag that says
\* that the Pi was asked, and the port that comes first resets it.)
PromptAnswered == last.what # "dropped"

\* GetUpdatedNodeConfigurationRoutine.cpp:41: "If invalidation wasn't
\* requested yet, do it now": a request is answered with what the Pi has
\* sent since the request arrived.  (A request that is given up leaves the
\* flag set for the next one: it holds as long as none is.)
AnswerIsNews == ~last.stale

\* Waiting for the Pi ends: every request that arrives leaves its queue,
\* even if the Pi never answers.
Waiting(n) == \E p \in Port : \E j \in DOMAIN queue[p] :
                queue[p][j].kind # "answer" /\ queue[p][j].at = n

RequestsEnd == \A n \in 1 .. MaxArrivals : Waiting(n) ~> ~Waiting(n)
=============================================================================
