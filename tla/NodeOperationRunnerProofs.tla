---------------------- MODULE NodeOperationRunnerProofs ---------------------
(***************************************************************************)
(* What is proved of the runner: for any ports in any order, any number of *)
(* requests with any ids, of reports and of retries, and for every fault   *)
(* that the theorem does not exclude.                                      *)
(***************************************************************************)
EXTENDS NodeOperationRunner, WellFoundedInduction, TLAPS

-----------------------------------------------------------------------------
(* What may be in the queues, and in what state a port is.                  *)

\* Only the Pi answers, at its port and with its ids.
At(p) == {m \in Packet : m.kind = "answer" => p = DevicePort /\ m.id \in DeviceIds}

Entry == [id : Nat \cup {AutoId}, processing : 0 .. MaxRetries, sending : 0 .. MaxRetries]

\* The entry of a port is that of its head, which was tried as often as it
\* lacks attempts; or there is no entry, and nothing was tried.
NotTried(p) == retry[p] = NoEntry /\ tries[p] = 0

Tried(p) ==
  /\ queue[p] # <<>> /\ retry[p].id = IdOf(Head(queue[p]))
  /\ Head(queue[p]).kind \notin {"unknown", "discard"}
  /\ retry[p].processing + retry[p].sending = 2 * MaxRetries - tries[p]
  /\ retry[p].processing + retry[p].sending >= 1

\* The ports where no entry outlives its packet.
Own(p) == p # DevicePort \/ DeviceIds \subseteq {0}

\* What may be in the queues.
QueueTypes == queue = [p \in Port |-> queue[p]] /\ \A p \in Port : queue[p] \in Seq(At(p))

AttemptsInv ==
  /\ QueueTypes
  /\ \A p \in Port : Own(p) => NotTried(p) \/ Tried(p)
  /\ last.what = "dropped" /\ Own(DevicePort) => last.tries >= MaxRetries

-----------------------------------------------------------------------------
(* The queues in a step of the router. *)

LEMMA Constants ==
  /\ MaxRetries \in Nat \ {0} /\ MaxArrivals \in Nat \ {0}
  /\ MaxOutstanding \in Nat \ {0} /\ MaxQueue \in Nat \ {0}
  /\ Reports \in Nat /\ ReportGap \in Nat \ {0}
  /\ NoModule \notin Nat /\ AutoId \notin Nat
  /\ \A i \in DOMAIN PortOrder : PortOrder[i] \in Port
  /\ DevicePort \in Port
  BY RunnerAssumption DEF Port

LEMMA Packets ==
  /\ \A p : At(p) \subseteq Packet
  /\ \A m \in Packet : /\ m.id \in Nat /\ m.kind \in Kind /\ m.at \in 0 .. MaxArrivals
                       /\ IdOf(m) \in Nat \cup {AutoId} /\ IdOf(m) # 0
  BY Constants DEF At, Packet, IdOf

\* A queue loses its head at most.
LEMMA PassedType ==
  ASSUME NEW S, NEW p \in Port, queue[p] \in Seq(S)
  PROVE  /\ Passed(p) \in Seq(S)
         /\ Passed(p) = queue[p] \/ (Discardable(p) /\ Passed(p) = Tail(queue[p]))
  BY DEF Passed, Discardable

\* The port whose head is next keeps it or loses it, and the ports before it
\* lose what is of no use.
LEMMA NextQueues ==
  ASSUME NEW i \in DOMAIN PortOrder, NextAt(i)
  PROVE  /\ PortOrder[i] \in Port /\ queue[PortOrder[i]] # <<>>
         /\ Kept(i)[PortOrder[i]] = queue[PortOrder[i]]
         /\ Skipped(i)[PortOrder[i]] = Tail(queue[PortOrder[i]])
         /\ \A q \in Port : Kept(i)[q] = queue[q] \/ (Discardable(q) /\ Kept(i)[q] = Tail(queue[q]))
         /\ \A q \in Port : q # PortOrder[i] => Skipped(i)[q] = Kept(i)[q]
         /\ Kept(i) = [q \in Port |-> Kept(i)[q]] /\ Skipped(i) = [q \in Port |-> Skipped(i)[q]]
<1>1. PortOrder[i] \in Port /\ queue[PortOrder[i]] # <<>> /\ ~Discardable(PortOrder[i])
  BY Constants DEF NextAt
<1>2. PortOrder[i] \notin Before(i)
  BY <1>1 DEF Before, NextAt
<1>3. /\ Kept(i)[PortOrder[i]] = queue[PortOrder[i]] /\ Kept(i) = [q \in Port |-> Kept(i)[q]]
      /\ \A q \in Port : Kept(i)[q] = queue[q] \/ (Discardable(q) /\ Kept(i)[q] = Tail(queue[q]))
  BY <1>1, <1>2 DEF Kept, Passed
<1>4. /\ Skipped(i)[PortOrder[i]] = Tail(queue[PortOrder[i]]) /\ Skipped(i) = [q \in Port |-> Skipped(i)[q]]
      /\ \A q \in Port : q # PortOrder[i] => Skipped(i)[q] = Kept(i)[q]
  BY <1>1, <1>3 DEF Skipped
<1> QED
  BY <1>1, <1>3, <1>4

\* What the routine of a packet may lead to.
LEMMA Executions ==
  ASSUME NEW i, Execute(i)
  PROVE  \/ Incomplete(i) \/ NotSent(i) \/ \E stale : Answered(i, stale)
         \/ WithoutPacket(i) /\ Head(queue[PortOrder[i]]).kind = "answer"
  BY DEF Execute, ExecuteGet, ExecuteSet, ExecuteOwn, ExecuteStore

\* A queue gets a packet.
LEMMA Appended ==
  ASSUME QueueTypes, NEW p \in Port, NEW m \in At(p), queue' = [queue EXCEPT ![p] = Append(@, m)]
  PROVE  QueueTypes'
<1>0. queue = [q \in Port |-> queue[q]] /\ \A q \in Port : queue[q] \in Seq(At(q))
  BY DEF QueueTypes
<1>1. queue' = [q \in Port |-> IF q = p THEN Append(queue[p], m) ELSE queue[q]]
  BY <1>0
<1>2. Append(queue[p], m) \in Seq(At(p))
  BY <1>0
<1>3. \A q \in Port : queue'[q] \in Seq(At(q))
  BY <1>0, <1>1, <1>2
<1>4. queue' = [q \in Port |-> queue'[q]]
  BY <1>1
<1> QED
  BY <1>3, <1>4 DEF QueueTypes

\* What a step does to the queues.
LEMMA StepQueues ==
  ASSUME NEW i \in DOMAIN PortOrder, NextAt(i), Refuse(i) \/ Enter(i) \/ GiveUp(i) \/ Execute(i)
  PROVE  queue' = Kept(i) \/ queue' = Skipped(i)
  BY Executions DEF Refuse, Enter, GiveUp, Incomplete, NotSent, Answered, WithoutPacket

LEMMA InitAttempts == Init => AttemptsInv
  BY DEF Init, AttemptsInv, QueueTypes, NotTried, NoOutcome

LEMMA NextQueueTypes ==
  QueueTypes /\ clock \in 0 .. MaxArrivals /\ [Next]_vars => QueueTypes'
<1> SUFFICES ASSUME QueueTypes, clock \in 0 .. MaxArrivals, [Next]_vars
             PROVE  QueueTypes'
  OBVIOUS
<1>0. queue = [p \in Port |-> queue[p]] /\ \A p \in Port : queue[p] \in Seq(At(p))
  BY DEF QueueTypes
<1>1. CASE UNCHANGED queue
  BY <1>0, <1>1 DEF QueueTypes
<1>2. ASSUME NEW p \in BackendPorts, NEW kind \in Requests, NEW id \in Ids, Receive(p, kind, id)
      PROVE  QueueTypes'
  <2> DEFINE m == [kind |-> kind, id |-> id, at |-> clock + 1]
  <2>1. m \in At(p)
    <3>1. kind \in Kind /\ kind # "answer" /\ id \in Nat /\ clock + 1 \in 0 .. MaxArrivals
      BY <1>2, Constants, RunnerAssumption DEF Receive
    <3> QED
      BY <3>1 DEF At, Packet
  <2>2. queue' = [queue EXCEPT ![p] = Append(@, m)]
    BY <1>2 DEF Receive
  <2> HIDE DEF m
  <2> QED
    BY <1>0, <2>1, <2>2, RunnerAssumption, Appended DEF QueueTypes
<1>3. CASE DeviceAnswers
  <2>1. CASE UNCHANGED queue
    BY <1>0, <2>1 DEF QueueTypes
  <2>2. ASSUME NEW id \in DeviceIds,
               queue' = [queue EXCEPT ![DevicePort] =
                           Append(@, [kind |-> "answer", id |-> id, at |-> clock])]
        PROVE  QueueTypes'
    <3> DEFINE m == [kind |-> "answer", id |-> id, at |-> clock]
    <3>1. m \in At(DevicePort)
      BY RunnerAssumption DEF At, Packet, Kind
    <3> HIDE DEF m
    <3>2. queue' = [queue EXCEPT ![DevicePort] = Append(@, m)]
      BY <2>2 DEF m
    <3> QED
      BY <1>0, <3>1, <3>2, Constants, Appended DEF QueueTypes
  <2> QED
    BY <1>3, <2>1, <2>2 DEF DeviceAnswers
<1>4. CASE Reset
  BY <1>4 DEF Reset, QueueTypes
<1>5. CASE NoPacketNext
  BY <1>0, <1>5, PassedType DEF NoPacketNext, QueueTypes
<1>6. ASSUME NEW i \in DOMAIN PortOrder, NextAt(i),
             Refuse(i) \/ Enter(i) \/ GiveUp(i) \/ Execute(i)
      PROVE  QueueTypes'
  <2>1. queue' = Kept(i) \/ queue' = Skipped(i)
    BY <1>6, StepQueues
  <2>2. queue' = [q \in Port |-> queue'[q]]
    BY <1>6, <2>1, NextQueues
  <2>3. \A q \in Port : queue'[q] = queue[q] \/ (queue[q] # <<>> /\ queue'[q] = Tail(queue[q]))
    BY <1>6, <2>1, NextQueues DEF Discardable
  <2>4. \A S : \A s \in Seq(S) : s # <<>> => Tail(s) \in Seq(S)
    OBVIOUS
  <2>5. \A q \in Port : queue'[q] \in Seq(At(q))
    BY <1>0, <2>3, <2>4, Zenon
  <2> QED
    BY <2>2, <2>5 DEF QueueTypes
<1> QED
  BY <1>1, <1>2, <1>3, <1>4, <1>5, <1>6
  DEF Next, ProcessNextIncomingPacket, ProcessReportingRoutines, vars

-----------------------------------------------------------------------------
(* The attempts. *)

\* A port whose queue, entry and attempts are as before, or that has lost a
\* packet without a routine, or to whose queue one was added.
LEMMA PortStays ==
  ASSUME NEW p, NEW S, queue[p] \in Seq(S), NotTried(p) \/ Tried(p),
         retry'[p] = retry[p], tries'[p] = tries[p],
         \/ queue'[p] = queue[p]
         \/ queue[p] # <<>> /\ Head(queue[p]).kind \in {"unknown", "discard"}
         \/ \E m \in S : queue'[p] = Append(queue[p], m)
  PROVE  NotTried(p)' \/ Tried(p)'
<1>1. CASE NotTried(p)
  BY <1>1 DEF NotTried
<1>2. CASE Tried(p)
  <2>1. CASE queue'[p] = queue[p]
    BY <1>2, <2>1 DEF Tried
  <2>2. ASSUME NEW m \in S, queue'[p] = Append(queue[p], m)
        PROVE  Tried(p)'
    <3>1. queue'[p] # <<>> /\ Head(queue'[p]) = Head(queue[p])
      BY <1>2, <2>2 DEF Tried
    <3> QED
      BY <1>2, <3>1 DEF Tried
  <2> QED
    BY <1>2, <2>1, <2>2 DEF Tried
<1> QED
  BY <1>1, <1>2

\* One step of the router leaves every port with attempts of its own, and
\* drops a packet only when its attempts are used up.
LEMMA StepAttempts ==
  ASSUME AttemptsInv, retry \in [Port -> Entry], tries \in [Port -> Nat],
         NEW i \in DOMAIN PortOrder, NextAt(i), Refuse(i) \/ Enter(i) \/ GiveUp(i) \/ Execute(i)
  PROVE  /\ \A p \in Port : Own(p) => NotTried(p)' \/ Tried(p)'
         /\ last'.what = "dropped" /\ Own(DevicePort) => last'.tries >= MaxRetries
<1> DEFINE p == PortOrder[i]
           m == Head(queue[p])
<1>0. /\ p \in Port /\ queue[p] # <<>> /\ queue[p] \in Seq(At(p)) /\ m \in Packet
      /\ m.kind = "answer" => p = DevicePort /\ m.id \in DeviceIds
      /\ IdOf(m) \in Nat \cup {AutoId} /\ IdOf(m) # 0
  <2>1. p \in Port /\ queue[p] # <<>> /\ queue[p] \in Seq(At(p))
    BY NextQueues DEF AttemptsInv, QueueTypes
  <2>2. \A S : \A s \in Seq(S) : s # <<>> => Head(s) \in S
    OBVIOUS
  <2>3. m \in At(p)
    BY <2>1, <2>2, Zenon
  <2> QED
    BY <2>1, <2>3, Packets DEF At
<1>1. /\ retry[p].processing \in 0 .. MaxRetries /\ retry[p].sending \in 0 .. MaxRetries
      /\ tries[p] \in Nat /\ MaxRetries \in Nat \ {0}
  BY <1>0, Constants DEF Entry
<1>2. m.kind # "discard"
  BY <1>0 DEF NextAt, Discardable
<1>3. \A q \in Port : Own(q) /\ q # p /\ retry'[q] = retry[q] /\ tries'[q] = tries[q] =>
                        NotTried(q)' \/ Tried(q)'
  <2> SUFFICES ASSUME NEW q \in Port, Own(q), q # p, retry'[q] = retry[q], tries'[q] = tries[q]
               PROVE  NotTried(q)' \/ Tried(q)'
    OBVIOUS
  <2>1. queue' = Kept(i) \/ queue' = Skipped(i)
    BY StepQueues
  <2>2. queue'[q] = queue[q] \/ Discardable(q)
    BY <2>1, NextQueues
  <2>3. queue[q] \in Seq(At(q)) /\ (NotTried(q) \/ Tried(q))
    BY DEF AttemptsInv, QueueTypes
  <2> QED
    BY <2>2, <2>3, PortStays DEF Discardable
<1>4. CASE Refuse(i)
  <2>1. UNCHANGED <<retry, tries>> /\ last'.what = "refused" /\ m.kind = "unknown"
    BY <1>4 DEF Refuse, Outcome
  <2>2. Own(p) => NotTried(p)'
    BY <1>0, <2>1 DEF AttemptsInv, NotTried, Tried
  <2> QED
    BY <1>3, <2>1, <2>2
<1>5. CASE Enter(i)
  <2>1. /\ m.kind # "unknown" /\ retry[p].id # IdOf(m)
        /\ retry' = [retry EXCEPT ![p] = [id |-> IdOf(m), processing |-> MaxRetries,
                                          sending |-> MaxRetries]]
        /\ queue'[p] = queue[p] /\ UNCHANGED tries /\ last'.what = "none"
    BY <1>5, NextQueues DEF Enter, NoOutcome
  <2>2. Own(p) => Tried(p)'
    <3> SUFFICES ASSUME Own(p) PROVE Tried(p)'
      OBVIOUS
    <3>1. tries[p] = 0
      BY <1>0, <2>1 DEF AttemptsInv, NotTried, Tried
    <3>2. retry'[p] = [id |-> IdOf(m), processing |-> MaxRetries, sending |-> MaxRetries]
      BY <1>0, <2>1
    <3> QED
      BY <1>0, <1>1, <1>2, <2>1, <3>1, <3>2 DEF Tried
  <2> QED
    BY <1>0, <1>3, <2>1, <2>2
<1>6. CASE GiveUp(i)
  <2>1. /\ retry[p].id = IdOf(m) /\ (retry[p].processing = 0 \/ retry[p].sending = 0)
        /\ retry' = [retry EXCEPT ![p] = NoEntry] /\ tries' = [tries EXCEPT ![p] = 0]
        /\ last' = [what |-> "dropped", tries |-> tries[p], stale |-> FALSE]
    BY <1>6 DEF GiveUp, Entered, HasAttempts, Outcome
  <2>2. NotTried(p)'
    BY <1>0, <2>1 DEF NotTried
  <2>3. Own(DevicePort) => tries[p] >= MaxRetries
    <3> SUFFICES ASSUME Own(DevicePort) PROVE tries[p] >= MaxRetries
      OBVIOUS
    <3>1. Tried(p)
      BY <1>0, <2>1 DEF AttemptsInv, Own, NotTried, NoEntry
    <3> QED
      BY <1>1, <2>1, <3>1 DEF Tried
  <2> QED
    BY <1>0, <1>3, <2>1, <2>2, <2>3
<1>7. CASE Execute(i)
  <2>0. /\ retry[p].id = IdOf(m) /\ retry[p].processing # 0 /\ retry[p].sending # 0
        /\ Own(p) => Tried(p)
    BY <1>0, <1>7 DEF Execute, Entered, HasAttempts, AttemptsInv, NotTried, NoEntry
  <2>1. CASE Incomplete(i) \/ NotSent(i)
    <3>1. /\ \/ retry' = [retry EXCEPT ![p].processing = @ - 1]
             \/ retry' = [retry EXCEPT ![p].sending = @ - 1]
          /\ tries' = [tries EXCEPT ![p] = @ + 1]
          /\ queue'[p] = queue[p] /\ last'.what = "none"
      BY <2>1, NextQueues DEF Incomplete, NotSent, NoOutcome
    <3>2. /\ retry'[p].id = retry[p].id /\ tries'[p] = tries[p] + 1
          /\ \/ /\ retry'[p].processing = retry[p].processing - 1
                /\ retry'[p].sending = retry[p].sending
             \/ /\ retry'[p].processing = retry[p].processing
                /\ retry'[p].sending = retry[p].sending - 1
      BY <1>0, <3>1 DEF Entry
    <3>3. Own(p) => Tried(p)'
      <4> SUFFICES ASSUME Tried(p) PROVE Tried(p)'
        BY <2>0
      <4>1. /\ retry'[p].processing + retry'[p].sending = 2 * MaxRetries - tries'[p]
            /\ retry'[p].processing + retry'[p].sending >= 1
        <5> DEFINE left == retry[p].processing + retry[p].sending
                   leftNow == retry'[p].processing + retry'[p].sending
        <5>1. left \in Nat /\ left >= 2 /\ leftNow = left - 1
          BY <1>1, <2>0, <3>2
        <5>2. left = 2 * MaxRetries - tries[p]
          BY DEF Tried
        <5>3. tries'[p] = tries[p] + 1
          BY <3>2
        <5> HIDE DEF left, leftNow
        <5>4. leftNow = 2 * MaxRetries - tries'[p] /\ leftNow >= 1
          BY <1>1, <5>1, <5>2, <5>3
        <5> QED
          BY <5>4 DEF leftNow
      <4> QED
        BY <3>1, <3>2, <4>1 DEF Tried
    <3> QED
      BY <1>0, <1>3, <3>1, <3>3
  <2>2. ASSUME NEW stale, Answered(i, stale)
        PROVE  /\ \A q \in Port : Own(q) => NotTried(q)' \/ Tried(q)'
               /\ last'.what # "dropped"
    <3>1. /\ retry' = [retry EXCEPT ![p] = NoEntry] /\ tries' = [tries EXCEPT ![p] = 0]
          /\ last'.what = "answered"
      BY <2>2 DEF Answered, Outcome
    <3>2. NotTried(p)'
      BY <1>0, <3>1 DEF NotTried
    <3> QED
      BY <1>0, <1>3, <3>1, <3>2
  <2>3. CASE WithoutPacket(i) /\ m.kind = "answer"
    <3>1. /\ retry' = [retry EXCEPT ![p] = Outlived(@)] /\ tries' = [tries EXCEPT ![p] = 0]
          /\ last'.what = "stored"
      BY <2>3 DEF WithoutPacket, Outcome
    <3>2. Own(p) => NotTried(p)'
      <4> SUFFICES ASSUME Own(p) PROVE NotTried(p)'
        OBVIOUS
      <4>1. m.id = 0
        BY <1>0, <2>3 DEF Own
      <4>2. retry[p].id = AutoId
        BY <2>0, <4>1 DEF IdOf
      <4> QED
        BY <1>0, <3>1, <4>2 DEF NotTried, Outlived
    <3> QED
      BY <1>0, <1>3, <3>1, <3>2
  <2> QED
    BY <1>7, <2>1, <2>2, <2>3, Executions
<1> QED
  BY <1>4, <1>5, <1>6, <1>7

LEMMA NextAttempts ==
  /\ AttemptsInv /\ clock \in 0 .. MaxArrivals
  /\ retry \in [Port -> Entry] /\ tries \in [Port -> Nat] /\ [Next]_vars
  => AttemptsInv'
<1> SUFFICES ASSUME AttemptsInv, clock \in 0 .. MaxArrivals,
                    retry \in [Port -> Entry], tries \in [Port -> Nat], [Next]_vars
             PROVE  AttemptsInv'
  OBVIOUS
<1>0. QueueTypes'
  BY NextQueueTypes DEF AttemptsInv
<1>1. ASSUME UNCHANGED <<retry, tries>>, last' = last \/ last' = NoOutcome,
             \A p \in Port : \/ queue'[p] = queue[p]
                             \/ Discardable(p)
                             \/ \E m : queue'[p] = Append(queue[p], m) /\ m \in At(p)
      PROVE  AttemptsInv'
  <2>1. \A p \in Port : Own(p) => NotTried(p)' \/ Tried(p)'
    BY <1>1, PortStays DEF AttemptsInv, QueueTypes, Discardable
  <2>2. last'.what = "dropped" /\ Own(DevicePort) => last'.tries >= MaxRetries
    BY <1>1 DEF AttemptsInv, NoOutcome
  <2> QED
    BY <1>0, <2>1, <2>2 DEF AttemptsInv, Own
<1>2. ASSUME NEW p \in BackendPorts, NEW kind \in Requests, NEW id \in Ids, Receive(p, kind, id)
      PROVE  AttemptsInv'
  <2> DEFINE m == [kind |-> kind, id |-> id, at |-> clock + 1]
  <2>1. queue' = [queue EXCEPT ![p] = Append(@, m)] /\ UNCHANGED <<retry, tries, last>>
    BY <1>2 DEF Receive
  <2>2. m \in At(p) /\ p \in Port
    <3>1. kind \in Kind /\ kind # "answer" /\ id \in Nat /\ clock + 1 \in 0 .. MaxArrivals
      BY <1>2, Constants, RunnerAssumption DEF Receive
    <3> QED
      BY <3>1, RunnerAssumption DEF At, Packet
  <2> HIDE DEF m
  <2>3. \A q \in Port : queue'[q] = queue[q] \/ (q = p /\ queue'[q] = Append(queue[q], m))
    BY <2>1
  <2> QED
    BY <1>1, <2>1, <2>2, <2>3
<1>3. CASE DeviceAnswers
  <2>1. UNCHANGED <<retry, tries, last>>
    BY <1>3 DEF DeviceAnswers
  <2>2. CASE UNCHANGED queue
    BY <1>1, <2>1, <2>2
  <2>3. ASSUME NEW id \in DeviceIds,
               queue' = [queue EXCEPT ![DevicePort] =
                           Append(@, [kind |-> "answer", id |-> id, at |-> clock])]
        PROVE  AttemptsInv'
    <3> DEFINE m == [kind |-> "answer", id |-> id, at |-> clock]
    <3>1. m \in At(DevicePort)
      BY RunnerAssumption DEF At, Packet, Kind
    <3> HIDE DEF m
    <3>2. \A q \in Port :
            queue'[q] = queue[q] \/ (q = DevicePort /\ queue'[q] = Append(queue[q], m))
      BY <2>3 DEF m
    <3> QED
      BY <1>1, <2>1, <3>1, <3>2
  <2> QED
    BY <1>3, <2>2, <2>3 DEF DeviceAnswers
<1>4. CASE Reset
  BY <1>0, <1>4 DEF Reset, AttemptsInv, NotTried, NoOutcome
<1>5. CASE NoPacketNext
  BY <1>1, <1>5 DEF NoPacketNext, Passed
<1>6. ASSUME NEW i \in DOMAIN PortOrder, NextAt(i),
             Refuse(i) \/ Enter(i) \/ GiveUp(i) \/ Execute(i)
      PROVE  AttemptsInv'
  <2>1. /\ \A p \in Port : Own(p) => NotTried(p)' \/ Tried(p)'
        /\ last'.what = "dropped" /\ Own(DevicePort) => last'.tries >= MaxRetries
    BY <1>6, StepAttempts
  <2> QED
    BY <1>0, <2>1 DEF AttemptsInv, Own
<1>7. CASE ProcessReportingRoutines
  BY <1>1, <1>7 DEF ProcessReportingRoutines
<1>8. CASE UNCHANGED vars
  BY <1>1, <1>8 DEF vars
<1> QED
  BY <1>2, <1>3, <1>4, <1>5, <1>6, <1>7, <1>8 DEF Next, ProcessNextIncomingPacket

-----------------------------------------------------------------------------
(* The types. *)

\* What is known of the Pi's module, and what it was asked for.
CacheType ==
  /\ fresh \in 0 .. MaxArrivals \cup {NoModule} /\ loaded \in 0 .. MaxArrivals \cup {NoModule}
  /\ outstanding \in 0 .. MaxOutstanding

LEMMA AskType ==
  ASSUME outstanding \in 0 .. MaxOutstanding, NEW n \in {1, 2}, Ask(n)
  PROVE  outstanding' \in 0 .. MaxOutstanding
<1>1. PICK sent \in 0 .. n :
        outstanding' = IF outstanding + sent > MaxOutstanding THEN MaxOutstanding
                                                              ELSE outstanding + sent
  BY DEF Ask
<1> QED
  BY <1>1, Constants

LEMMA ModulesType ==
  ASSUME CacheType, NEW asked, ModulesMissing(asked) \/ ModulesFound(asked)
  PROVE  CacheType'
<1>1. CASE ModulesMissing(asked)
  <2>1. Ask(1) \/ Ask(2)
    BY <1>1 DEF ModulesMissing
  <2> QED
    BY <1>1, <2>1, AskType DEF ModulesMissing, Invalidated, CacheType
<1>2. CASE ModulesFound(asked)
  BY <1>2 DEF ModulesFound, Module, CacheType
<1> QED
  BY <1>1, <1>2

LEMMA ExecuteType ==
  ASSUME CacheType, AttemptsInv, updating \in BOOLEAN,
         NEW i \in DOMAIN PortOrder, NextAt(i), Execute(i)
  PROVE  CacheType' /\ updating' \in BOOLEAN
<1>1. CASE ExecuteGet(i)
  <2>1. ModulesMissing(updating) \/ ModulesFound(updating)
    BY <1>1 DEF ExecuteGet
  <2>2. updating' = TRUE \/ updating' = FALSE \/ updating' = updating
    BY <1>1 DEF ExecuteGet
  <2> QED
    BY <2>1, <2>2, ModulesType
<1>2. CASE ExecuteSet(i)
  <2>1. \/ Ask(1) /\ Invalidated
        \/ loaded' = Module /\ UNCHANGED <<fresh, outstanding>>
    BY <1>2 DEF ExecuteSet
  <2>2. CacheType'
    BY <2>1, AskType DEF Invalidated, Module, CacheType
  <2> QED
    BY <1>2, <2>2 DEF ExecuteSet
<1>3. CASE ExecuteOwn(i)
  BY <1>3 DEF ExecuteOwn, cache, CacheType
<1>4. CASE ExecuteStore(i)
  <2>1. Head(queue[PortOrder[i]]) \in Packet
    <3>1. queue[PortOrder[i]] # <<>> /\ queue[PortOrder[i]] \in Seq(At(PortOrder[i]))
      BY NextQueues DEF AttemptsInv, QueueTypes
    <3>2. \A S : \A s \in Seq(S) : s # <<>> => Head(s) \in S
      OBVIOUS
    <3> QED
      BY <3>1, <3>2, Packets, Zenon
  <2>2. fresh' = Head(queue[PortOrder[i]]).at \/ UNCHANGED fresh
    BY <1>4 DEF ExecuteStore
  <2> QED
    BY <1>4, <2>1, <2>2, Packets DEF ExecuteStore, CacheType
<1> QED
  BY <1>1, <1>2, <1>3, <1>4 DEF Execute

LEMMA EntryType ==
  ASSUME retry \in [Port -> Entry], tries \in [Port -> Nat], AttemptsInv,
         NEW i \in DOMAIN PortOrder, NextAt(i), Refuse(i) \/ Enter(i) \/ GiveUp(i) \/ Execute(i)
  PROVE  retry' \in [Port -> Entry] /\ tries' \in [Port -> Nat]
<1> DEFINE p == PortOrder[i]
<1>0. /\ p \in Port /\ retry[p] \in Entry /\ tries[p] \in Nat /\ NoEntry \in Entry
  BY NextQueues, Constants DEF NoEntry, Entry
<1>1. CASE Refuse(i)
  BY <1>1 DEF Refuse
<1>2. CASE Enter(i)
  <2>1. IdOf(Head(queue[p])) \in Nat \cup {AutoId}
    <3>1. queue[p] # <<>> /\ queue[p] \in Seq(At(p))
      BY NextQueues DEF AttemptsInv, QueueTypes
    <3>2. \A S : \A s \in Seq(S) : s # <<>> => Head(s) \in S
      OBVIOUS
    <3> QED
      BY <3>1, <3>2, Packets, Zenon
  <2>2. [id |-> IdOf(Head(queue[p])), processing |-> MaxRetries, sending |-> MaxRetries] \in Entry
    BY <2>1, Constants DEF Entry
  <2> QED
    BY <1>0, <1>2, <2>2 DEF Enter
<1>3. CASE GiveUp(i)
  BY <1>0, <1>3 DEF GiveUp
<1>4. CASE Execute(i)
  <2>0. retry[p].processing \in 1 .. MaxRetries /\ retry[p].sending \in 1 .. MaxRetries
    BY <1>0, <1>4, Constants DEF Execute, HasAttempts, Entry
  <2>1. CASE Incomplete(i) \/ NotSent(i)
    <3>1. /\ [retry[p] EXCEPT !.processing = @ - 1] \in Entry
          /\ [retry[p] EXCEPT !.sending = @ - 1] \in Entry
      BY <1>0, <2>0, Constants DEF Entry
    <3>2. \/ retry' = [retry EXCEPT ![p] = [retry[p] EXCEPT !.processing = @ - 1]]
          \/ retry' = [retry EXCEPT ![p] = [retry[p] EXCEPT !.sending = @ - 1]]
      BY <2>1 DEF Incomplete, NotSent
    <3>3. tries' = [tries EXCEPT ![p] = @ + 1]
      BY <2>1 DEF Incomplete, NotSent
    <3> QED
      BY <1>0, <3>1, <3>2, <3>3
  <2>2. ASSUME NEW stale, Answered(i, stale)
        PROVE  retry' \in [Port -> Entry] /\ tries' \in [Port -> Nat]
    BY <1>0, <2>2 DEF Answered
  <2>3. CASE WithoutPacket(i)
    BY <1>0, <2>3 DEF WithoutPacket, Outlived
  <2> QED
    BY <1>4, <2>1, <2>2, <2>3, Executions
<1> QED
  BY <1>1, <1>2, <1>3, <1>4

\* All that the types say but for the queues.
RestType ==
  /\ phase \in 0 .. Reports /\ clock \in 0 .. MaxArrivals
  /\ retry \in [Port -> Entry] /\ tries \in [Port -> Nat]
  /\ updating \in BOOLEAN /\ reporting \in BOOLEAN /\ CacheType
  /\ wait \in [1 .. Reports -> 1 .. ReportGap]

LEMMA InitRest == Init => RestType
<1> SUFFICES ASSUME Init PROVE RestType
  OBVIOUS
<1>1. updating \in BOOLEAN /\ reporting \in BOOLEAN
  BY Zenon DEF Init
<1>2. NoEntry \in Entry
  BY Constants DEF NoEntry, Entry
<1>3. wait \in [1 .. Reports -> 1 .. ReportGap]
  BY Constants DEF Init
<1> QED
  BY <1>1, <1>2, <1>3, Constants DEF Init, RestType, CacheType

LEMMA NextRest == AttemptsInv /\ RestType /\ [Next]_vars => RestType'
<1> SUFFICES ASSUME AttemptsInv, RestType, [Next]_vars PROVE RestType'
  OBVIOUS
<1>0. /\ phase \in 0 .. Reports /\ clock \in 0 .. MaxArrivals /\ Reports \in Nat
      /\ retry \in [Port -> Entry] /\ tries \in [Port -> Nat]
      /\ updating \in BOOLEAN /\ reporting \in BOOLEAN /\ CacheType
      /\ wait \in [1 .. Reports -> 1 .. ReportGap]
  BY Constants DEF RestType
<1>1. CASE \E p \in BackendPorts, kind \in Requests, id \in Ids : Receive(p, kind, id)
  <2>1. /\ clock' \in 0 .. MaxArrivals
        /\ UNCHANGED <<phase, retry, updating, reporting, fresh, loaded, outstanding, wait, tries>>
    BY <1>0, <1>1, Constants DEF Receive, cache
  <2> QED
    BY <1>0, <2>1 DEF RestType, CacheType
<1>2. CASE DeviceAnswers
  <2>1. /\ outstanding > 0 /\ outstanding' = outstanding - 1
        /\ UNCHANGED <<phase, retry, updating, reporting, fresh, loaded, wait, clock, tries>>
    BY <1>2 DEF DeviceAnswers, cache
  <2> QED
    BY <1>0, <2>1, Constants DEF RestType, CacheType
<1>3. CASE Reset
  <2>1. /\ phase' = 0 /\ retry' = [p \in Port |-> NoEntry] /\ tries' = [p \in Port |-> 0]
        /\ updating' = FALSE /\ reporting' = FALSE /\ fresh' = NoModule /\ loaded' = NoModule
        /\ wait' = [k \in 1 .. Reports |-> ReportGap] /\ UNCHANGED <<outstanding, clock>>
    BY <1>3 DEF Reset
  <2>2. updating' \in BOOLEAN /\ reporting' \in BOOLEAN
    BY <2>1, Zenon
  <2>3. NoEntry \in Entry
    BY Constants DEF NoEntry, Entry
  <2>4. CacheType'
    BY <1>0, <2>1 DEF CacheType
  <2>5. retry' \in [Port -> Entry] /\ tries' \in [Port -> Nat]
        /\ wait' \in [1 .. Reports -> 1 .. ReportGap]
    BY <2>1, <2>3, Constants
  <2> QED
    BY <1>0, <2>1, <2>2, <2>4, <2>5 DEF RestType
<1>4. CASE ProcessNextIncomingPacket
  <2>0. phase' \in 0 .. Reports /\ UNCHANGED <<reporting, wait, clock>>
    BY <1>0, <1>4 DEF ProcessNextIncomingPacket, After
  <2>1. CASE NoPacketNext
    BY <1>0, <2>0, <2>1 DEF NoPacketNext, RestType, CacheType, cache
  <2>2. ASSUME NEW i \in DOMAIN PortOrder, NextAt(i), Execute(i)
        PROVE  RestType'
    BY <1>0, <2>0, <2>2, ExecuteType, EntryType DEF RestType
  <2>3. ASSUME NEW i \in DOMAIN PortOrder, NextAt(i), Refuse(i) \/ Enter(i) \/ GiveUp(i)
        PROVE  RestType'
    <3>1. UNCHANGED <<updating, fresh, loaded, outstanding>>
      BY <2>3 DEF Refuse, Enter, GiveUp, cache
    <3>2. retry' \in [Port -> Entry] /\ tries' \in [Port -> Nat]
      BY <1>0, <2>3, EntryType
    <3> QED
      BY <1>0, <2>0, <3>1, <3>2 DEF RestType, CacheType
  <2> QED
    BY <1>4, <2>1, <2>2, <2>3 DEF ProcessNextIncomingPacket
<1>5. CASE ProcessReportingRoutines
  <2>0. phase \in 1 .. Reports /\ phase' \in 0 .. Reports
    BY <1>0, <1>5 DEF ProcessReportingRoutines, After
  <2>1. UNCHANGED <<retry, updating, clock, tries>>
    BY <1>5 DEF ProcessReportingRoutines
  <2>2. CASE NotDue(phase)
    <3>1. wait' \in [1 .. Reports -> 1 .. ReportGap]
      <4>1. (IF wait[phase] < ReportGap THEN wait[phase] + 1 ELSE wait[phase]) \in 1 .. ReportGap
        BY <1>0, <2>0, Constants
      <4> QED
        BY <1>0, <2>2, <4>1 DEF NotDue
    <3> QED
      BY <1>0, <2>0, <2>1, <2>2, <3>1 DEF NotDue, cache, RestType, CacheType
  <2>3. CASE Report(phase)
    <3>1. wait' \in [1 .. Reports -> 1 .. ReportGap]
      <4>1. 1 \in 1 .. ReportGap
        BY Constants
      <4> QED
        BY <1>0, <2>3, <4>1 DEF Report
    <3>2. ModulesMissing(reporting) \/ ModulesFound(reporting)
      BY <2>3 DEF Report
    <3>3. reporting' = TRUE \/ reporting' = FALSE \/ reporting' = reporting
      BY <2>3 DEF Report
    <3>4. CacheType'
      BY <1>0, <3>2, ModulesType
    <3> QED
      BY <1>0, <2>0, <2>1, <3>1, <3>3, <3>4 DEF RestType
  <2> QED
    BY <1>5, <2>2, <2>3 DEF ProcessReportingRoutines
<1>6. CASE UNCHANGED vars
  BY <1>0, <1>6 DEF vars, RestType, CacheType
<1> QED
  BY <1>1, <1>2, <1>3, <1>4, <1>5, <1>6 DEF Next

LEMMA RunnerInvariant == Spec => [](AttemptsInv /\ RestType)
<1>1. AttemptsInv /\ RestType /\ [Next]_vars => (AttemptsInv /\ RestType)'
  BY NextAttempts, NextRest DEF RestType
<1> QED
  BY InitAttempts, InitRest, <1>1, PTL DEF Spec

\* Attempts never run below zero, and the numbers that the runner and the
\* cache keep stay in their ranges (NodeOperationRunner.cpp, ModuleProxy.cpp).
THEOREM TypeCorrect == Spec => []TypeOK
<1>1. AttemptsInv /\ RestType => TypeOK
  <2> SUFFICES ASSUME AttemptsInv, RestType PROVE TypeOK
    OBVIOUS
  <2>1. queue \in [Port -> Seq(Packet)]
    <3>1. queue = [p \in Port |-> queue[p]] /\ \A p \in Port : queue[p] \in Seq(At(p))
      BY DEF AttemptsInv, QueueTypes
    <3>2. \A p \in Port : queue[p] \in Seq(Packet)
      BY <3>1, Packets
    <3> QED
      BY <3>1, <3>2
  <2> QED
    BY <2>1 DEF RestType, CacheType, Entry, TypeOK
<1> QED
  BY RunnerInvariant, <1>1, PTL

\* The attempts of a port belong to its head: there are none without one, the
\* entry is the head's, and it lacks as many as the head was tried.
AttemptsOfHead(p) ==
  /\ tries[p] <= 2 * MaxRetries - 1
  /\ tries[p] # 0 =>
       /\ queue[p] # <<>>
       /\ retry[p].id = IdOf(Head(queue[p]))
       /\ retry[p].processing + retry[p].sending = 2 * MaxRetries - tries[p]

LEMMA OwnAttemptsOfHead ==
  ASSUME AttemptsInv, RestType, NEW p \in Port, Own(p)
  PROVE  AttemptsOfHead(p)
<1>0. /\ MaxRetries \in Nat \ {0} /\ tries[p] \in Nat
      /\ retry[p].processing \in Nat /\ retry[p].sending \in Nat
  BY Constants DEF RestType, Entry
<1>1. CASE NotTried(p)
  BY <1>0, <1>1 DEF NotTried, AttemptsOfHead
<1>2. CASE Tried(p)
  BY <1>0, <1>2 DEF Tried, AttemptsOfHead
<1> QED
  BY <1>1, <1>2 DEF AttemptsInv

\* Whatever ids the senders choose and however they arrive, no packet has the
\* attempts of another: one that is dropped was executed MAX_RETRIES times at
\* least, and none is executed more than 2 * MAX_RETRIES - 1 times, if the
\* answers of the Pi have the id 0 (NodeOperationRunner.cpp).
THEOREM AttemptsAreOwn ==
  ASSUME DeviceIds \subseteq {0}
  PROVE  Spec => []OwnAttempts
<1>1. AttemptsInv /\ RestType => OwnAttempts
  <2> SUFFICES ASSUME AttemptsInv, RestType PROVE OwnAttempts
    OBVIOUS
  <2>1. last.what = "dropped" => last.tries >= MaxRetries
    BY DEF AttemptsInv, Own
  <2>2. \A p \in Port : AttemptsOfHead(p)
    BY OwnAttemptsOfHead DEF Own
  <2> QED
    BY <2>1, <2>2 DEF OwnAttempts, AttemptsOfHead
<1> QED
  BY RunnerInvariant, <1>1, PTL

\* Whatever ids the Pi gives its answers, the packets of the other ports are
\* not touched by it: at such a port the attempts are those of the head, and a
\* packet is given up only after it was executed MAX_RETRIES times
\* (NodeOperationRunner.cpp).
THEOREM ForeignIdsStayAtTheirPort ==
  ASSUME NEW p \in Port \ {DevicePort}
  PROVE  Spec => /\ []AttemptsOfHead(p)
                 /\ [][\A i \in DOMAIN PortOrder :
                         PortOrder[i] = p /\ NextAt(i) /\ GiveUp(i) => tries[p] >= MaxRetries]_vars
<1> DEFINE Earned == \A i \in DOMAIN PortOrder :
                       PortOrder[i] = p /\ NextAt(i) /\ GiveUp(i) => tries[p] >= MaxRetries
<1>1. AttemptsInv /\ RestType => AttemptsOfHead(p)
  BY OwnAttemptsOfHead DEF Own
<1>2. AttemptsInv /\ RestType => Earned
  <2> SUFFICES ASSUME AttemptsInv, RestType,
                      NEW i \in DOMAIN PortOrder, PortOrder[i] = p,
                      NextAt(i), GiveUp(i)
               PROVE  tries[p] >= MaxRetries
    OBVIOUS
  <2>1. /\ retry[p].processing \in 0 .. MaxRetries /\ retry[p].sending \in 0 .. MaxRetries
        /\ tries[p] \in Nat /\ MaxRetries \in Nat \ {0}
    BY Constants DEF RestType, Entry
  <2>2. retry[p].processing = 0 \/ retry[p].sending = 0
    BY DEF GiveUp, HasAttempts
  <2>3. retry[p] # NoEntry
    <3>1. queue[p] # <<>> /\ queue[p] \in Seq(At(p))
      BY DEF NextAt, AttemptsInv, QueueTypes
    <3>2. Head(queue[p]) \in At(p)
      BY <3>1
    <3>3. retry[p].id = IdOf(Head(queue[p])) /\ IdOf(Head(queue[p])) # 0
      BY <3>2, Packets DEF GiveUp, Entered
    <3> QED
      BY <3>3 DEF NoEntry
  <2> QED
    BY <2>1, <2>2, <2>3 DEF AttemptsInv, Own, NotTried, Tried
<1> HIDE DEF Earned
<1>3. AttemptsInv /\ RestType => [Earned]_vars
  BY <1>2
<1> QED
  BY RunnerInvariant, <1>1, <1>3, PTL DEF Earned

-----------------------------------------------------------------------------
(* Requests at one port, which comes after that of the Pi.                  *)

OneBackend(b) ==
  /\ BackendPorts = {b} /\ b # DevicePort
  /\ \A i \in DOMAIN PortOrder : PortOrder[i] = b => DevicePort \in Before(i)

\* The Pi answers at its own port and nothing else does; and all that is in a
\* queue has arrived.
Held(p, now) == {m \in Packet : m.at <= now /\ (m.kind = "answer" <=> p = DevicePort)}

Content(b) == \A p \in Port : queue[p] \in Seq(Held(p, clock)) /\ (queue[p] = <<>> \/ p \in {b, DevicePort})

\* What is known or on its way is no older than the request that waits.
Since(b, n) == n = NoModule \/ n >= Head(queue[b]).at

Later(b) == {m \in Packet : m.at >= Head(queue[b]).at}

Waits(b) ==
  /\ queue[b] # <<>> /\ Head(queue[b]).kind = "get"
  /\ Since(b, fresh) /\ Since(b, loaded) /\ queue[DevicePort] \in Seq(Later(b))

\* The routine has asked for the request that is next at the backend's port.
NewsInv(b) == ~last.stale /\ (updating => Waits(b))

LEMMA Heads ==
  /\ \A S : \A s \in Seq(S) : s # <<>> => Head(s) \in S /\ Tail(s) \in Seq(S)
  /\ \A S : \A s \in Seq(S), m \in S : Append(s, m) \in Seq(S)
<1>1. \A S : \A s \in Seq(S) : s # <<>> => Head(s) \in S /\ Tail(s) \in Seq(S)
  OBVIOUS
<1>2. \A S : \A s \in Seq(S), m \in S : Append(s, m) \in Seq(S)
  OBVIOUS
<1> QED
  BY <1>1, <1>2, Zenon

LEMMA Wider == \A S, T : S \subseteq T => \A s \in Seq(S) : s \in Seq(T)
  OBVIOUS

\* A step adds to a queue at its end, removes its head, clears it or leaves it.
LEMMA QueueSteps ==
  ASSUME QueueTypes, clock \in 0 .. MaxArrivals, [Next]_vars, NEW p \in Port
  PROVE  /\ clock' \in clock .. MaxArrivals
         /\ \/ queue'[p] = queue[p] \/ queue'[p] = <<>>
            \/ queue[p] # <<>> /\ queue'[p] = Tail(queue[p])
            \/ \E m \in Packet :
                 /\ queue'[p] = Append(queue[p], m) /\ m.at = clock'
                 /\ \/ p \in BackendPorts /\ m.kind # "answer"
                    \/ p = DevicePort /\ m.kind = "answer"
<1>0. queue = [q \in Port |-> queue[q]] /\ MaxArrivals \in Nat
  BY Constants DEF QueueTypes
<1>1. CASE UNCHANGED <<queue, clock>>
  BY <1>1
<1>2. ASSUME NEW q \in BackendPorts, NEW kind \in Requests, NEW id \in Ids, Receive(q, kind, id)
      PROVE  /\ clock' \in clock .. MaxArrivals
             /\ \/ queue'[p] = queue[p]
                \/ \E m \in Packet :
                     /\ queue'[p] = Append(queue[p], m) /\ m.at = clock'
                     /\ p \in BackendPorts /\ m.kind # "answer"
  <2> DEFINE m == [kind |-> kind, id |-> id, at |-> clock']
  <2>1. clock' = clock + 1 /\ clock' \in clock .. MaxArrivals
    BY <1>0, <1>2 DEF Receive
  <2>2. m \in Packet /\ m.at = clock' /\ m.kind # "answer"
    BY <2>1, RunnerAssumption DEF Packet
  <2>3. queue' = [queue EXCEPT ![q] = Append(@, m)]
    BY <1>2 DEF Receive
  <2> HIDE DEF m
  <2> QED
    BY <1>0, <2>1, <2>2, <2>3
<1>3. ASSUME DeviceAnswers
      PROVE  /\ clock' = clock
             /\ \/ queue'[p] = queue[p]
                \/ \E m \in Packet :
                     /\ queue'[p] = Append(queue[p], m) /\ m.at = clock'
                     /\ p = DevicePort /\ m.kind = "answer"
  <2>1. CASE UNCHANGED queue
    BY <1>3, <2>1 DEF DeviceAnswers
  <2>2. ASSUME NEW id \in DeviceIds,
               queue' = [queue EXCEPT ![DevicePort] =
                           Append(@, [kind |-> "answer", id |-> id, at |-> clock])]
        PROVE  \/ queue'[p] = queue[p]
               \/ \E m \in Packet :
                     /\ queue'[p] = Append(queue[p], m) /\ m.at = clock
                     /\ p = DevicePort /\ m.kind = "answer"
    <3> DEFINE m == [kind |-> "answer", id |-> id, at |-> clock]
    <3>1. m \in Packet /\ m.at = clock /\ m.kind = "answer"
      BY RunnerAssumption DEF Packet, Kind
    <3>2. queue' = [queue EXCEPT ![DevicePort] = Append(@, m)]
      BY <2>2
    <3> HIDE DEF m
    <3> QED
      BY <1>0, <3>1, <3>2
  <2> QED
    BY <1>3, <2>1, <2>2 DEF DeviceAnswers
<1>4. CASE Reset
  BY <1>0, <1>4 DEF Reset
<1>5. ASSUME ProcessNextIncomingPacket
      PROVE  /\ clock' = clock
             /\ queue'[p] = queue[p] \/ (queue[p] # <<>> /\ queue'[p] = Tail(queue[p]))
  <2>1. CASE NoPacketNext
    BY <1>5, <2>1 DEF ProcessNextIncomingPacket, NoPacketNext, Passed, Discardable
  <2>2. ASSUME NEW i \in DOMAIN PortOrder, NextAt(i),
               Refuse(i) \/ Enter(i) \/ GiveUp(i) \/ Execute(i)
        PROVE  queue'[p] = queue[p] \/ (queue[p] # <<>> /\ queue'[p] = Tail(queue[p]))
    BY <2>2, StepQueues, NextQueues DEF Discardable
  <2> QED
    BY <1>5, <2>1, <2>2 DEF ProcessNextIncomingPacket
<1> QED
  BY <1>0, <1>1, <1>2, <1>3, <1>4, <1>5 DEF Next, ProcessReportingRoutines, vars

LEMMA InitNews == ASSUME NEW b PROVE Init => Content(b) /\ NewsInv(b)
<1> SUFFICES ASSUME Init PROVE Content(b) /\ NewsInv(b)
  OBVIOUS
<1>1. ~last.stale
  BY DEF Init, NoOutcome
<1>2. ~updating
  BY Zenon DEF Init
<1>3. Content(b)
  BY DEF Init, Content
<1> QED
  BY <1>1, <1>2, <1>3, Zenon DEF NewsInv

LEMMA NextContent ==
  ASSUME NEW b, OneBackend(b), Content(b), QueueTypes, clock \in 0 .. MaxArrivals, [Next]_vars
  PROVE  Content(b)'
<1> SUFFICES ASSUME NEW p \in Port
             PROVE  queue'[p] \in Seq(Held(p, clock')) /\ (queue'[p] = <<>> \/ p \in {b, DevicePort})
  BY DEF Content
<1>1. queue[p] \in Seq(Held(p, clock)) /\ (queue[p] = <<>> \/ p \in {b, DevicePort})
  BY DEF Content
<1>2. Held(p, clock) \subseteq Held(p, clock')
  <2>1. clock' \in clock .. MaxArrivals
    BY QueueSteps
  <2> QED
    BY <2>1, Constants DEF Held, Packet
<1>3. queue[p] \in Seq(Held(p, clock'))
  BY <1>1, <1>2, Wider
<1>4. CASE queue'[p] = queue[p] \/ queue'[p] = <<>>
  <2>1. \A S : <<>> \in Seq(S)
    OBVIOUS
  <2> QED
    BY <1>1, <1>3, <1>4, <2>1, Zenon
<1>5. CASE queue[p] # <<>> /\ queue'[p] = Tail(queue[p])
  BY <1>1, <1>3, <1>5
<1>6. ASSUME NEW m \in Packet, queue'[p] = Append(queue[p], m), m.at = clock',
             \/ p \in BackendPorts /\ m.kind # "answer"
             \/ p = DevicePort /\ m.kind = "answer"
      PROVE  queue'[p] \in Seq(Held(p, clock')) /\ p \in {b, DevicePort}
  <2>1. p \in {b, DevicePort} /\ (m.kind = "answer" <=> p = DevicePort)
    BY <1>6 DEF OneBackend
  <2>2. m \in Held(p, clock')
    BY <1>6, <2>1, Packets DEF Held
  <2> QED
    BY <1>3, <1>6, <2>1, <2>2
<1> QED
  BY <1>4, <1>5, <1>6, QueueSteps

\* What a step does to a request that waits.
LEMMA WaitsOn ==
  ASSUME NEW b, Waits(b),
         queue'[b] = queue[b] \/ \E m : queue'[b] = Append(queue[b], m) /\ m \in Packet,
         queue[b] \in Seq(Packet),
         \/ queue'[DevicePort] = queue[DevicePort]
         \/ queue[DevicePort] # <<>> /\ queue'[DevicePort] = Tail(queue[DevicePort])
         \/ \E m \in Later(b) : queue'[DevicePort] = Append(queue[DevicePort], m),
         Since(b, fresh'), Since(b, loaded')
  PROVE  Waits(b)'
<1>1. queue'[b] # <<>> /\ Head(queue'[b]) = Head(queue[b])
  BY DEF Waits
<1>2. Later(b)' = Later(b)
  BY <1>1 DEF Later
<1>3. queue'[DevicePort] \in Seq(Later(b))
  <2>1. queue[DevicePort] \in Seq(Later(b))
    BY DEF Waits
  <2> QED
    BY <2>1, Heads, Zenon
<1>4. Since(b, fresh)' /\ Since(b, loaded)'
  BY <1>1 DEF Since
<1> QED
  BY <1>1, <1>2, <1>3, <1>4 DEF Waits

\* A request waits for what the Pi sends from now on: one that is answered is
\* answered with that.
LEMMA NextNews ==
  ASSUME NEW b \in Port, OneBackend(b), QueueTypes, Content(b), RestType, NewsInv(b),
         [Next]_vars, last'.what # "dropped"
  PROVE  NewsInv(b)'
<1>0. /\ \A p \in Port : queue[p] \in Seq(Held(p, clock)) /\ queue[p] \in Seq(Packet)
      /\ DevicePort \in Port
      /\ fresh \in 0 .. MaxArrivals \cup {NoModule} /\ loaded \in 0 .. MaxArrivals \cup {NoModule}
      /\ NoModule \notin Nat /\ MaxArrivals \in Nat
  <2>1. \A p : Held(p, clock) \subseteq Packet
    BY DEF Held
  <2>2. \A p \in Port : queue[p] \in Seq(Held(p, clock))
    BY DEF Content
  <2>3. \A p \in Port : queue[p] \in Seq(Packet)
    BY <2>1, <2>2, Wider, Zenon
  <2> QED
    BY <2>2, <2>3, Constants DEF RestType, CacheType
<1>1. \A p \in Port : queue[p] # <<>> => Head(queue[p]) \in Held(p, clock)
  BY <1>0, Heads, Zenon
<1>2. updating => ~Discardable(b) /\ Head(queue[b]) \in Packet
  BY <1>1 DEF NewsInv, Waits, Discardable, Held
<1>3. queue[DevicePort] # <<>> => ~Discardable(DevicePort)
  BY <1>0, <1>1 DEF Discardable, Held
<1>4. updating => Since(b, Module)
  BY DEF NewsInv, Waits, Module
<1>5. Since(b, NoModule)
  BY DEF Since
<1>6. ASSUME updating' = updating, last' = last \/ ~last'.stale,
             queue'[b] = queue[b] \/ \E m : queue'[b] = Append(queue[b], m) /\ m \in Packet,
             \/ queue'[DevicePort] = queue[DevicePort]
             \/ queue[DevicePort] # <<>> /\ queue'[DevicePort] = Tail(queue[DevicePort])
             \/ \E m \in Packet : /\ queue'[DevicePort] = Append(queue[DevicePort], m)
                                  /\ m.at = clock',
             fresh' = fresh \/ fresh' = NoModule \/ (updating => Since(b, fresh')),
             loaded' = loaded \/ loaded' = NoModule \/ loaded' = Module
      PROVE  NewsInv(b)'
  <2>1. ~last'.stale
    BY <1>6 DEF NewsInv
  <2>2. ASSUME updating PROVE Waits(b)'
    <3>0. Waits(b) /\ queue[b] \in Seq(Packet)
      BY <1>0, <2>2 DEF NewsInv
    <3>1. \A m \in Packet : m.at = clock' => m \in Later(b)
      <4>1. Head(queue[b]).at <= clock /\ Head(queue[b]).at \in Nat
        BY <1>1, <3>0, Packets DEF Waits, Held
      <4>2. clock' \in clock .. MaxArrivals /\ clock \in Nat
        BY QueueSteps DEF RestType
      <4> QED
        BY <4>1, <4>2 DEF Later
    <3>2. Since(b, fresh') /\ Since(b, loaded')
      BY <1>4, <1>5, <1>6, <2>2, <3>0 DEF Waits
    <3>3. \/ queue'[DevicePort] = queue[DevicePort]
          \/ queue[DevicePort] # <<>> /\ queue'[DevicePort] = Tail(queue[DevicePort])
          \/ \E m \in Later(b) : queue'[DevicePort] = Append(queue[DevicePort], m)
      BY <1>6, <3>1
    <3> QED
      BY <1>6, <3>0, <3>2, <3>3, WaitsOn
  <2> QED
    BY <1>6, <2>1, <2>2, Zenon DEF NewsInv
<1>7. CASE \E p \in BackendPorts, kind \in Requests, id \in Ids : Receive(p, kind, id)
  <2>1. PICK kind \in Requests, id \in Ids : Receive(b, kind, id)
    BY <1>7 DEF OneBackend
  <2> DEFINE m == [kind |-> kind, id |-> id, at |-> clock']
  <2>2. queue' = [queue EXCEPT ![b] = Append(@, m)]
    BY <2>1 DEF Receive
  <2>3. m \in Packet
    <3>1. clock' = clock + 1 /\ clock < MaxArrivals /\ clock \in Nat
      BY <2>1 DEF Receive, RestType
    <3> QED
      BY <1>0, <3>1, RunnerAssumption DEF Packet
  <2>4. UNCHANGED <<updating, fresh, loaded, last>>
    BY <2>1 DEF Receive, cache
  <2> HIDE DEF m
  <2>5. queue'[b] = Append(queue[b], m) /\ queue'[DevicePort] = queue[DevicePort]
    BY <1>0, <2>2 DEF QueueTypes, OneBackend
  <2> QED
    BY <1>6, <2>3, <2>4, <2>5
<1>8. CASE DeviceAnswers
  <2>1. UNCHANGED <<updating, fresh, loaded, last, clock>>
    BY <1>8 DEF DeviceAnswers, cache
  <2>2. CASE UNCHANGED queue
    BY <1>6, <2>1, <2>2
  <2>3. ASSUME NEW id \in DeviceIds,
               queue' = [queue EXCEPT ![DevicePort] =
                           Append(@, [kind |-> "answer", id |-> id, at |-> clock])]
        PROVE  NewsInv(b)'
    <3> DEFINE m == [kind |-> "answer", id |-> id, at |-> clock]
    <3>1. m \in Packet /\ m.at = clock'
      BY <2>1, RunnerAssumption DEF Packet, Kind, RestType
    <3>2. queue' = [queue EXCEPT ![DevicePort] = Append(@, m)]
      BY <2>3
    <3> HIDE DEF m
    <3>3. queue'[DevicePort] = Append(queue[DevicePort], m) /\ queue'[b] = queue[b]
      BY <1>0, <3>2 DEF QueueTypes, OneBackend
    <3> QED
      BY <1>6, <2>1, <3>1, <3>3
  <2> QED
    BY <1>8, <2>2, <2>3 DEF DeviceAnswers
<1>9. CASE Reset
  <2>1. updating' = FALSE /\ ~last'.stale
    BY <1>9 DEF Reset, NoOutcome
  <2> QED
    BY <2>1, Zenon DEF NewsInv
<1>10. CASE NoPacketNext
  <2>1. queue'[b] = Passed(b) /\ queue'[DevicePort] = Passed(DevicePort)
    BY <1>0, <1>10 DEF NoPacketNext
  <2>2. UNCHANGED <<updating, fresh, loaded>> /\ ~last'.stale
    BY <1>10 DEF NoPacketNext, cache, NoOutcome
  <2>3. CASE ~updating
    BY <2>2, <2>3, Zenon DEF NewsInv
  <2>4. CASE updating
    <3>1. queue'[b] = queue[b] /\ queue'[DevicePort] = queue[DevicePort]
      BY <1>2, <1>3, <2>1, <2>4 DEF Passed, Discardable
    <3> QED
      BY <1>6, <2>2, <3>1
  <2> QED
    BY <2>3, <2>4
<1>11. ASSUME NEW i \in DOMAIN PortOrder, NextAt(i),
              Refuse(i) \/ Enter(i) \/ GiveUp(i) \/ Execute(i)
       PROVE  NewsInv(b)'
  <2> DEFINE p == PortOrder[i]
             m == Head(queue[p])
  <2>0. /\ p \in {b, DevicePort} /\ m \in Held(p, clock) /\ queue[p] # <<>>
        /\ m.kind = "answer" <=> p = DevicePort
    <3>1. p \in Port /\ queue[p] # <<>>
      BY <1>11, NextQueues
    <3> QED
      BY <1>1, <3>1 DEF Content, Held
  <2>1. /\ updating => Kept(i)[b] = queue[b]
        /\ updating /\ p # b => Skipped(i)[b] = queue[b]
        /\ Kept(i)[DevicePort] = queue[DevicePort]
        /\ \/ Skipped(i)[DevicePort] = queue[DevicePort]
           \/ /\ queue[DevicePort] # <<>>
              /\ Skipped(i)[DevicePort] = Tail(queue[DevicePort])
    <3>1. Discardable(DevicePort) => queue[DevicePort] # <<>>
      BY DEF Discardable
    <3> QED
      BY <1>0, <1>2, <1>3, <1>11, <3>1, NextQueues
  <2>2. ASSUME updating' = updating, queue' = Kept(i) \/ (queue' = Skipped(i) /\ p # b),
               ~last'.stale,
               fresh' = fresh \/ fresh' = NoModule \/ (updating => Since(b, fresh')),
               loaded' = loaded \/ loaded' = NoModule \/ loaded' = Module
        PROVE  NewsInv(b)'
    <3>1. CASE ~updating
      BY <2>2, <3>1, Zenon DEF NewsInv
    <3>2. CASE updating
      <4>1. queue'[b] = queue[b]
        BY <2>1, <2>2, <3>2
      <4>2. \/ queue'[DevicePort] = queue[DevicePort]
            \/ queue[DevicePort] # <<>> /\ queue'[DevicePort] = Tail(queue[DevicePort])
        BY <2>1, <2>2
      <4> QED
        BY <1>6, <2>2, <4>1, <4>2
    <3> QED
      BY <3>1, <3>2
  <2>3. ASSUME ~updating', ~last'.stale PROVE NewsInv(b)'
    BY <2>3 DEF NewsInv
  <2>4. CASE Refuse(i)
    <3>1. /\ m.kind = "unknown" /\ UNCHANGED <<updating, fresh, loaded>>
          /\ queue' = Skipped(i) /\ ~last'.stale
      BY <2>4 DEF Refuse, Outcome, cache
    <3>2. p # b \/ ~updating
      BY <3>1 DEF NewsInv, Waits
    <3> QED
      BY <2>2, <2>3, <3>1, <3>2
  <2>5. CASE Enter(i)
    <3>1. /\ UNCHANGED <<updating, fresh, loaded>> /\ queue' = Kept(i) /\ ~last'.stale
      BY <2>5 DEF Enter, NoOutcome, cache
    <3> QED
      BY <2>2, <3>1
  <2>6. CASE GiveUp(i)
    BY <2>6 DEF GiveUp, Outcome
  <2>7. CASE Execute(i) /\ ExecuteGet(i)
    <3>0. p = b /\ m.kind = "get"
      BY <2>0, <2>7 DEF ExecuteGet
    <3>1. CASE ModulesMissing(updating) /\ Incomplete(i) /\ updating' = TRUE
      <4>1. queue' = Kept(i) /\ ~last'.stale /\ fresh' = NoModule /\ loaded' = NoModule
        BY <3>1 DEF ModulesMissing, Invalidated, Incomplete, NoOutcome
      <4>2. queue'[b] = queue[b]
        BY <1>11, <3>0, <4>1, NextQueues
      <4>3. queue[DevicePort] = <<>>
        <5>1. DevicePort \in Before(i)
          BY <3>0 DEF OneBackend
        <5> QED
          BY <1>3, <1>11, <5>1 DEF Before, NextAt
      <4>4. queue'[DevicePort] = <<>>
        BY <2>1, <4>1, <4>3
      <4>5. \A S : <<>> \in Seq(S)
        OBVIOUS
      <4>6. queue'[DevicePort] \in Seq(Later(b)')
        BY <4>4, <4>5, Zenon
      <4>7. Waits(b)'
        BY <2>0, <3>0, <4>1, <4>2, <4>6 DEF Waits, Since
      <4> QED
        BY <4>1, <4>7 DEF NewsInv
    <3>2. CASE ModulesFound(updating) /\ Answered(i, Module < m.at) /\ updating' = FALSE
      <4>1. updating /\ Module # NoModule
        BY <3>2 DEF ModulesFound
      <4>2. Module >= m.at /\ Module \in Nat /\ m.at \in Nat
        <5>1. Module \in Nat
          BY <1>0, <4>1 DEF Module
        <5>2. m.at \in Nat
          BY <1>0, <2>0, Packets DEF Held
        <5> QED
          BY <1>4, <3>0, <4>1, <5>1, <5>2 DEF Since
      <4>3. last'.stale = (Module < m.at)
        BY <3>2 DEF Answered, Outcome
      <4>4. ~(Module < m.at)
        BY <4>2
      <4>5. ~last'.stale
        BY <4>3, <4>4, Zenon
      <4> QED
        BY <2>3, <3>2, <4>5
    <3>3. CASE ModulesFound(updating) /\ NotSent(i) /\ UNCHANGED updating
      <4>1. /\ queue' = Kept(i) /\ ~last'.stale /\ UNCHANGED <<updating, fresh>>
            /\ loaded' = Module
        BY <3>3 DEF ModulesFound, NotSent, NoOutcome
      <4> QED
        BY <2>2, <4>1
    <3> QED
      BY <2>7, <3>1, <3>2, <3>3 DEF ExecuteGet
  <2>8. CASE ExecuteSet(i) \/ ExecuteOwn(i)
    <3>1. ~updating /\ UNCHANGED updating
      BY <2>0, <2>8 DEF ExecuteSet, ExecuteOwn, NewsInv, Waits
    <3>2. ~last'.stale
      BY <2>8 DEF ExecuteSet, ExecuteOwn, Incomplete, Answered, NotSent, Outcome, NoOutcome
    <3> QED
      BY <2>3, <3>1, <3>2
  <2>9. CASE ExecuteStore(i)
    <3>1. m.kind = "answer" /\ p = DevicePort /\ p # b
      BY <2>0, <2>9 DEF ExecuteStore, OneBackend
    <3>2. UNCHANGED <<updating, loaded>> /\ (fresh' = m.at \/ fresh' = fresh)
      BY <2>9 DEF ExecuteStore
    <3>3. ~last'.stale /\ (queue' = Kept(i) \/ queue' = Skipped(i))
      BY <2>9 DEF ExecuteStore, WithoutPacket, Answered, NotSent, Outcome, NoOutcome
    <3>4. updating => Since(b, m.at)
      <4> SUFFICES ASSUME updating PROVE Since(b, m.at)
        OBVIOUS
      <4>1. queue[DevicePort] \in Seq(Later(b))
        BY DEF NewsInv, Waits
      <4>2. m \in Later(b)
        BY <2>0, <3>1, <4>1, Heads, Zenon
      <4> QED
        BY <4>2 DEF Later, Since
    <3> QED
      BY <2>2, <3>1, <3>2, <3>3, <3>4
  <2> QED
    BY <1>11, <2>4, <2>5, <2>6, <2>7, <2>8, <2>9 DEF Execute
<1>12. CASE ProcessReportingRoutines
  <2>1. UNCHANGED <<updating, queue>> /\ ~last'.stale
    BY <1>12 DEF ProcessReportingRoutines, NoOutcome
  <2>2. /\ fresh' = fresh \/ fresh' = NoModule
        /\ loaded' = loaded \/ loaded' = NoModule \/ loaded' = Module
    BY <1>12 DEF ProcessReportingRoutines, NotDue, Report, ModulesMissing, ModulesFound,
                 Invalidated, cache
  <2> QED
    BY <1>6, <2>1, <2>2
<1>13. CASE UNCHANGED vars
  BY <1>6, <1>13 DEF vars
<1> QED
  BY <1>7, <1>8, <1>9, <1>10, <1>11, <1>12, <1>13 DEF Next, ProcessNextIncomingPacket

\* While no packet is given up, a request for the node's configuration is
\* answered with what the Pi has sent since it arrived, whatever else fails,
\* however many reports invalidate what it waits for and however often the
\* board resets (GetUpdatedNodeConfigurationRoutine.cpp).
THEOREM AnswersAreNews ==
  ASSUME NEW b \in Port, OneBackend(b)
  PROVE  Spec /\ []PromptAnswered => []AnswerIsNews
<1> DEFINE Known == (AttemptsInv /\ RestType)
           News == Content(b) /\ NewsInv(b)
<1>1. Init => News
  BY InitNews
<1>2. Known /\ News /\ [Next]_vars /\ PromptAnswered' => News'
  <2> SUFFICES ASSUME Known, News, [Next]_vars, PromptAnswered' PROVE News'
    OBVIOUS
  <2>1. QueueTypes /\ clock \in 0 .. MaxArrivals
    BY DEF AttemptsInv, RestType
  <2> QED
    BY <2>1, NextContent, NextNews DEF PromptAnswered
<1>3. News => AnswerIsNews
  BY DEF NewsInv, AnswerIsNews
<1>4. Spec => []Known
  BY RunnerInvariant
<1> HIDE DEF Known, News
<1> QED
  BY <1>1, <1>2, <1>3, <1>4, PTL DEF Spec

-----------------------------------------------------------------------------
(* A Pi that answers before the next packet is handled, while nothing fails *)
(* but the board.                                                           *)

Prompt == DevicePrompt /\ Faults \subseteq {"reset"} /\ MaxRetries >= 2

\* Sending never failed, and only the backend's request was ever tried: once.
Spared(b, p) ==
  /\ tries[p] = 0 \/ (p = b /\ tries[p] = 1)
  /\ retry[p] = NoEntry \/ ( /\ retry[p].sending = MaxRetries
                             /\ retry[p].processing = MaxRetries - tries[p] )

Coming == Module # NoModule \/ outstanding > 0 \/ queue[DevicePort] # <<>>

\* What a request waits for is known or comes, and its routine remembers that
\* it has asked for it.
PromptInv(b) ==
  /\ last.what # "dropped"
  /\ \A p \in Port : Spared(b, p)
  /\ tries[b] = 1 => (Head(queue[b]).kind = "get" => updating) /\ Coming

\* What is asked for is on its way, unless it gets lost.
LEMMA Asked ==
  ASSUME "link" \notin Faults, outstanding \in 0 .. MaxOutstanding, NEW n \in {1, 2}, Ask(n)
  PROVE  outstanding' > 0
<1>1. outstanding' = IF outstanding + n > MaxOutstanding THEN MaxOutstanding ELSE outstanding + n
  BY DEF Ask
<1> QED
  BY <1>1, Constants

LEMMA NextPrompt ==
  ASSUME NEW b \in Port, OneBackend(b), Prompt, AttemptsInv, Content(b), RestType,
         PromptInv(b), [Next]_vars
  PROVE  PromptInv(b)'
<1>0. /\ "link" \notin Faults /\ "send" \notin Faults /\ "store" \notin Faults
      /\ MaxRetries \in Nat /\ MaxRetries >= 2 /\ DevicePort \in Port /\ b # DevicePort
      /\ outstanding \in 0 .. MaxOutstanding /\ NoModule \notin Nat
      /\ queue = [q \in Port |-> queue[q]] /\ updating \in BOOLEAN
  BY Constants DEF Prompt, OneBackend, RestType, CacheType, AttemptsInv, QueueTypes
<1>1. \A p \in Port : queue[p] # <<>> => Head(queue[p]) \in Held(p, clock)
  <2>1. \A p \in Port : queue[p] \in Seq(Held(p, clock))
    BY DEF Content
  <2> QED
    BY <2>1, Heads, Zenon
<1>2. \A p \in Port : Spared(b, p)
  BY DEF PromptInv
<1>3. tries[b] = 1 => /\ Tried(b) /\ queue[b] # <<>> /\ ~Discardable(b)
                      /\ (Head(queue[b]).kind = "get" => updating) /\ Coming
  BY DEF AttemptsInv, Own, OneBackend, NotTried, Tried, Discardable, PromptInv
<1>4. queue[DevicePort] # <<>> => ~Discardable(DevicePort)
  BY <1>0, <1>1 DEF Discardable, Held
<1>5. ASSUME UNCHANGED <<retry, tries>>, last' = last \/ last'.what # "dropped",
             tries[b] = 1 => /\ Head(queue'[b]) = Head(queue[b])
                             /\ updating' = updating /\ Coming'
      PROVE  PromptInv(b)'
  <2>1. last'.what # "dropped"
    BY <1>5 DEF PromptInv
  <2>2. \A p \in Port : Spared(b, p)'
    BY <1>2, <1>5 DEF Spared
  <2>3. tries'[b] = 1 => (Head(queue'[b]).kind = "get" => updating') /\ Coming'
    BY <1>3, <1>5
  <2> QED
    BY <2>1, <2>2, <2>3 DEF PromptInv
<1>6. CASE \E p \in BackendPorts, kind \in Requests, id \in Ids : Receive(p, kind, id)
  <2>1. PICK kind \in Requests, id \in Ids : Receive(b, kind, id)
    BY <1>6 DEF OneBackend
  <2> DEFINE m == [kind |-> kind, id |-> id, at |-> clock']
  <2>2. queue' = [queue EXCEPT ![b] = Append(@, m)]
    BY <2>1 DEF Receive
  <2>3. UNCHANGED <<retry, tries, updating, fresh, loaded, last, outstanding>>
    BY <2>1 DEF Receive, cache
  <2> HIDE DEF m
  <2>4. queue'[b] = Append(queue[b], m) /\ queue'[DevicePort] = queue[DevicePort]
    BY <1>0, <2>2
  <2>5. queue[b] \in Seq(Packet) /\ m \in Packet
    <3>1. queue[b] \in Seq(Held(b, clock)) /\ Held(b, clock) \subseteq Packet
      BY DEF Content, Held
    <3>2. clock' = clock + 1 /\ clock < MaxArrivals /\ clock \in Nat
      BY <2>1 DEF Receive, RestType
    <3>3. m \in Packet
      BY <3>2, Constants, RunnerAssumption DEF Packet, m
    <3> QED
      BY <3>1, <3>3, Wider
  <2>6. tries[b] = 1 => Head(queue'[b]) = Head(queue[b])
    BY <1>3, <2>4, <2>5
  <2>7. Coming => Coming'
    BY <2>3, <2>4 DEF Coming, Module
  <2> QED
    BY <1>3, <1>5, <2>3, <2>6, <2>7
<1>7. CASE DeviceAnswers
  <2>1. UNCHANGED <<retry, tries, updating, last>>
    BY <1>7 DEF DeviceAnswers
  <2>2. CASE UNCHANGED queue
    <3>1. Len(queue[DevicePort]) = MaxQueue \/ queue'[DevicePort] # queue[DevicePort]
      <4>1. CASE Len(queue[DevicePort]) = MaxQueue
        BY <4>1
      <4>2. ASSUME NEW id \in DeviceIds,
                   queue' = [queue EXCEPT ![DevicePort] =
                               Append(@, [kind |-> "answer", id |-> id, at |-> clock])]
            PROVE  queue'[DevicePort] # queue[DevicePort]
        <5> DEFINE m == [kind |-> "answer", id |-> id, at |-> clock]
        <5>1. queue' = [queue EXCEPT ![DevicePort] = Append(@, m)]
          BY <4>2
        <5>2. m \in Packet
          BY RunnerAssumption DEF Packet, Kind, RestType
        <5>3. queue[DevicePort] \in Seq(Packet)
          BY <1>0, Wider DEF Content, Held
        <5> HIDE DEF m
        <5> QED
          BY <1>0, <5>1, <5>2, <5>3
      <4> QED
        BY <1>0, <1>7, <4>1, <4>2 DEF DeviceAnswers
    <3>2. queue[DevicePort] # <<>>
      BY <2>2, <3>1, Constants
    <3> QED
      BY <1>5, <2>1, <2>2, <3>2 DEF Coming
  <2>3. ASSUME NEW id \in DeviceIds,
               queue' = [queue EXCEPT ![DevicePort] =
                           Append(@, [kind |-> "answer", id |-> id, at |-> clock])]
        PROVE  PromptInv(b)'
    <3> DEFINE m == [kind |-> "answer", id |-> id, at |-> clock]
    <3>1. queue' = [queue EXCEPT ![DevicePort] = Append(@, m)]
      BY <2>3
    <3> HIDE DEF m
    <3>2. queue'[DevicePort] = Append(queue[DevicePort], m) /\ queue'[b] = queue[b]
      BY <1>0, <3>1
    <3>3. queue'[DevicePort] # <<>>
      <4>1. queue[DevicePort] \in Seq(Packet)
        BY <1>0, Wider DEF Content, Held
      <4>2. m \in Packet
        BY RunnerAssumption DEF Packet, Kind, RestType, m
      <4> QED
        BY <3>2, <4>1, <4>2
    <3> QED
      BY <1>5, <2>1, <3>2, <3>3 DEF Coming
  <2> QED
    BY <1>7, <2>2, <2>3 DEF DeviceAnswers
<1>8. CASE Reset
  BY <1>8 DEF Reset, PromptInv, Spared, NoOutcome
<1>9. CASE NoPacketNext
  <2>1. queue'[b] = Passed(b) /\ queue'[DevicePort] = Passed(DevicePort)
    BY <1>0, <1>9 DEF NoPacketNext
  <2>2. /\ UNCHANGED <<retry, tries, updating, fresh, loaded, outstanding>>
        /\ last'.what # "dropped"
    BY <1>9 DEF NoPacketNext, cache, NoOutcome
  <2>3. tries[b] = 1 => queue'[b] = queue[b]
    BY <1>3, <2>1 DEF Passed
  <2>4. Coming => Coming'
    BY <1>4, <2>1, <2>2 DEF Coming, Module, Passed, Discardable
  <2> QED
    BY <1>3, <1>5, <2>2, <2>3, <2>4
<1>10. ASSUME NEW i \in DOMAIN PortOrder, NextAt(i), DevicePrompt => outstanding = 0,
              Refuse(i) \/ Enter(i) \/ GiveUp(i) \/ Execute(i)
       PROVE  PromptInv(b)'
  <2> DEFINE p == PortOrder[i]
             m == Head(queue[p])
  <2>0. /\ p \in {b, DevicePort} /\ p \in Port /\ m \in Held(p, clock) /\ queue[p] # <<>>
        /\ m.kind = "answer" <=> p = DevicePort
        /\ IdOf(m) # 0
    <3>1. p \in Port /\ queue[p] # <<>>
      BY <1>10, NextQueues
    <3> QED
      BY <1>1, <3>1, Packets DEF Content, Held
  <2>1. /\ Kept(i)[p] = queue[p] /\ (tries[b] = 1 => Kept(i)[b] = queue[b])
        /\ tries[b] = 1 /\ p # b => Skipped(i)[b] = queue[b]
        /\ Kept(i)[DevicePort] = queue[DevicePort]
    <3>1. Discardable(DevicePort) => queue[DevicePort] # <<>>
      BY DEF Discardable
    <3> QED
      BY <1>0, <1>3, <1>4, <1>10, <3>1, NextQueues
  <2>2. Entered(i) => /\ HasAttempts(i) /\ retry[p] # NoEntry
                      /\ retry[p].sending = MaxRetries
                      /\ retry[p].processing = MaxRetries - tries[p]
    <3> SUFFICES ASSUME Entered(i)
                 PROVE  /\ HasAttempts(i) /\ retry[p] # NoEntry
                        /\ retry[p].sending = MaxRetries
                        /\ retry[p].processing = MaxRetries - tries[p]
      OBVIOUS
    <3>1. retry[p] # NoEntry
      BY <2>0 DEF Entered, NoEntry
    <3>2. /\ retry[p].sending = MaxRetries /\ retry[p].processing = MaxRetries - tries[p]
          /\ tries[p] \in {0, 1}
      BY <1>2, <2>0, <3>1 DEF Spared
    <3> QED
      BY <1>0, <3>1, <3>2 DEF HasAttempts
  <2>3. p = b => queue[DevicePort] = <<>>
    <3> SUFFICES ASSUME p = b PROVE queue[DevicePort] = <<>>
      OBVIOUS
    <3>1. DevicePort \in Before(i)
      BY DEF OneBackend
    <3> QED
      BY <1>4, <1>10, <3>1 DEF Before, NextAt
  <2>4. p = b /\ tries[b] = 1 => Module # NoModule /\ (m.kind = "get" => updating)
    BY <1>0, <1>3, <1>10, <2>3 DEF Coming, Prompt
  <2>5. CASE Refuse(i)
    <3>1. /\ m.kind = "unknown" /\ UNCHANGED <<retry, tries>> /\ last'.what # "dropped"
      BY <2>5 DEF Refuse, Outcome
    <3>2. p = b /\ tries[b] # 1
      BY <1>3, <2>0, <3>1 DEF Tried
    <3> QED
      BY <1>5, <3>1, <3>2
  <2>6. CASE Enter(i)
    <3>1. /\ UNCHANGED <<tries, updating, fresh, loaded, outstanding>> /\ queue' = Kept(i)
          /\ last'.what # "dropped"
          /\ retry[p].id # IdOf(m)
          /\ retry' = [retry EXCEPT ![p] = [id |-> IdOf(m), processing |-> MaxRetries,
                                            sending |-> MaxRetries]]
      BY <2>6 DEF Enter, NoOutcome, cache
    <3>2. tries[p] = 0
      BY <1>0, <1>2, <1>3, <2>0, <3>1 DEF Tried, Spared
    <3>3. Spared(b, p)'
      <4>1. retry'[p].sending = MaxRetries /\ retry'[p].processing = MaxRetries
        BY <2>0, <3>1 DEF RestType
      <4> QED
        BY <1>0, <3>1, <3>2, <4>1 DEF Spared
    <3>4. \A q \in Port \ {p} : Spared(b, q)'
      BY <1>2, <3>1 DEF Spared
    <3>5. tries[b] = 1 => Head(queue'[b]) = Head(queue[b]) /\ Coming'
      BY <1>3, <2>1, <3>1 DEF Coming, Module
    <3> QED
      BY <1>3, <3>1, <3>3, <3>4, <3>5 DEF PromptInv
  <2>7. CASE GiveUp(i)
    BY <2>2, <2>7 DEF GiveUp
  <2>8. ASSUME p = b, Answered(i, FALSE) \/ \E stale : Answered(i, stale)
        PROVE  PromptInv(b)'
    <3>1. /\ retry' = [retry EXCEPT ![b] = NoEntry] /\ tries' = [tries EXCEPT ![b] = 0]
          /\ last'.what # "dropped"
      BY <2>8 DEF Answered, Outcome
    <3>2. Spared(b, b)' /\ tries'[b] = 0
      BY <2>0, <3>1 DEF Spared, RestType
    <3>3. \A q \in Port \ {b} : Spared(b, q)'
      BY <1>2, <3>1 DEF Spared
    <3> QED
      BY <3>1, <3>2, <3>3 DEF PromptInv
  <2>9. ASSUME p = b, Entered(i), Incomplete(i), tries[b] # 1, outstanding' > 0,
               m.kind = "get" => updating'
        PROVE  PromptInv(b)'
    <3>1. /\ retry' = [retry EXCEPT ![b].processing = @ - 1]
          /\ tries' = [tries EXCEPT ![b] = @ + 1]
          /\ queue'[b] = queue[b] /\ last'.what # "dropped"
      BY <2>1, <2>9 DEF Incomplete, NoOutcome
    <3>2. tries[b] = 0 /\ tries'[b] = 1
      BY <1>2, <2>9, <3>1 DEF Spared, RestType
    <3>3. Spared(b, b)'
      <4>1. retry'[b].sending = MaxRetries /\ retry'[b].processing = MaxRetries - 1
        <5>1. retry[b] \in Entry
          BY DEF RestType
        <5> QED
          BY <1>0, <2>2, <2>9, <3>1, <3>2, <5>1 DEF RestType, Entry
      <4> QED
        BY <3>2, <4>1 DEF Spared
    <3>4. \A q \in Port \ {b} : Spared(b, q)'
      BY <1>2, <3>1 DEF Spared
    <3> QED
      BY <2>9, <3>1, <3>3, <3>4 DEF PromptInv, Coming
  <2>10. CASE Execute(i) /\ ExecuteGet(i)
    <3>0. p = b /\ m.kind = "get" /\ Entered(i)
      BY <2>0, <2>10 DEF ExecuteGet, Execute
    <3>1. CASE ModulesMissing(updating) /\ Incomplete(i) /\ updating' = TRUE
      <4>1. tries[b] # 1
        BY <2>4, <3>0, <3>1 DEF ModulesMissing
      <4>2. outstanding' > 0
        BY <1>0, <3>1, Asked DEF ModulesMissing
      <4> QED
        BY <2>9, <3>0, <3>1, <4>1, <4>2
    <3>2. CASE Answered(i, Module < m.at)
      BY <2>8, <3>0, <3>2
    <3> QED
      BY <1>0, <2>10, <3>1, <3>2 DEF ExecuteGet, NotSent
  <2>11. CASE Execute(i) /\ ExecuteSet(i)
    <3>0. p = b /\ m.kind = "set" /\ Entered(i)
      BY <2>0, <2>11 DEF ExecuteSet, Execute
    <3>1. CASE Module = NoModule /\ Ask(1) /\ Incomplete(i)
      BY <1>0, <2>4, <2>9, <3>0, <3>1, Asked
    <3>2. CASE Answered(i, FALSE)
      BY <2>8, <3>0, <3>2
    <3> QED
      BY <1>0, <2>11, <3>1, <3>2 DEF ExecuteSet, NotSent
  <2>12. CASE ExecuteOwn(i)
    <3>1. p = b /\ Answered(i, FALSE)
      BY <1>0, <2>0, <2>12 DEF ExecuteOwn, NotSent
    <3> QED
      BY <2>8, <3>1
  <2>13. CASE ExecuteStore(i)
    <3>1. /\ p = DevicePort /\ fresh' = m.at /\ WithoutPacket(i)
          /\ UNCHANGED <<updating, loaded, outstanding>>
      BY <1>0, <2>0, <2>13 DEF ExecuteStore
    <3>2. /\ retry' = [retry EXCEPT ![p] = Outlived(@)] /\ tries' = [tries EXCEPT ![p] = 0]
          /\ queue' = Skipped(i) /\ last'.what # "dropped"
      BY <3>1 DEF WithoutPacket, Outcome
    <3>3. Spared(b, p)'
      <4>1. tries[p] = 0 /\ Spared(b, p)
        BY <1>0, <1>2, <3>1 DEF Spared
      <4>2. tries'[p] = 0 /\ (retry'[p] = retry[p] \/ retry'[p] = NoEntry)
        BY <2>0, <3>2 DEF Outlived, RestType
      <4> QED
        BY <4>1, <4>2 DEF Spared
    <3>4. \A q \in Port \ {p} : Spared(b, q)' /\ tries'[q] = tries[q]
      BY <1>2, <3>2 DEF Spared
    <3>5. Module' # NoModule
      <4>1. fresh' \in Nat
        BY <2>0, <3>1, Packets, Constants DEF Held
      <4> QED
        BY <1>0, <4>1 DEF Module
    <3>6. tries[b] = 1 => queue'[b] = queue[b]
      BY <1>0, <2>1, <3>1, <3>2
    <3> QED
      BY <1>0, <1>3, <3>1, <3>2, <3>3, <3>4, <3>5, <3>6 DEF PromptInv, Coming
  <2> QED
    BY <1>10, <2>5, <2>6, <2>7, <2>10, <2>11, <2>12, <2>13 DEF Execute
<1>11. CASE ProcessReportingRoutines
  <2>1. UNCHANGED <<queue, retry, updating, tries>> /\ last'.what # "dropped"
    BY <1>11 DEF ProcessReportingRoutines, NoOutcome
  <2>2. Coming => Coming'
    <3>1. CASE NotDue(phase)
      BY <2>1, <3>1 DEF NotDue, cache, Coming, Module
    <3>2. CASE ModulesMissing(reporting)
      BY <1>0, <3>2, Asked DEF ModulesMissing, Coming
    <3>3. CASE ModulesFound(reporting)
      <4>1. loaded' = Module /\ Module # NoModule
        BY <3>3 DEF ModulesFound
      <4> QED
        BY <4>1 DEF Coming, Module
    <3> QED
      BY <1>11, <3>1, <3>2, <3>3 DEF ProcessReportingRoutines, Report
  <2> QED
    BY <1>3, <1>5, <2>1, <2>2
<1>12. CASE UNCHANGED vars
  BY <1>3, <1>5, <1>12 DEF vars, Coming, Module
<1> QED
  BY <1>6, <1>7, <1>8, <1>9, <1>10, <1>11, <1>12 DEF Next, ProcessNextIncomingPacket

\* Two attempts are enough for every request, and it is answered with what the
\* Pi has sent since it arrived, when the Pi answers within a run and nothing
\* fails but the board: at one port, whatever the requests and however many
\* ports report as often as they like, each report making invalid what the
\* request waits for (NodeOperationRunner.cpp, StatusReportingRoutine.cpp).
THEOREM AlwaysAnswered ==
  ASSUME NEW b \in Port, OneBackend(b), Prompt
  PROVE  Spec => [](PromptAnswered /\ AnswerIsNews)
<1> DEFINE Known == (AttemptsInv /\ RestType)
           Answering == Content(b) /\ PromptInv(b)
<1>1. Init => Answering
  <2> SUFFICES ASSUME Init PROVE PromptInv(b)
    BY InitNews
  <2> QED
    BY DEF Init, PromptInv, Spared, NoOutcome
<1>2. Known /\ Answering /\ [Next]_vars => Answering'
  <2> SUFFICES ASSUME Known, Answering, [Next]_vars PROVE Answering'
    OBVIOUS
  <2>1. QueueTypes /\ clock \in 0 .. MaxArrivals
    BY DEF AttemptsInv, RestType
  <2> QED
    BY <2>1, NextContent, NextPrompt
<1>3. Answering => PromptAnswered
  BY DEF PromptInv, PromptAnswered
<1>4. Spec => []Known
  BY RunnerInvariant
<1>5. Spec /\ []PromptAnswered => []AnswerIsNews
  BY AnswersAreNews
<1> HIDE DEF Known, Answering
<1> QED
  BY <1>1, <1>2, <1>3, <1>4, <1>5, PTL DEF Spec

-----------------------------------------------------------------------------
(* What is left to do at a port. *)

\* The runs that the head of a port may still take.
Left(p) ==
  IF queue[p] = <<>> THEN 0
  ELSE IF retry[p].id = IdOf(Head(queue[p])) THEN retry[p].processing + retry[p].sending
  ELSE 2 * MaxRetries + 1

\* The runs that the packets of a port may still take.
Runs(p) == (2 * MaxRetries + 2) * Len(queue[p]) + Left(p)

\* A port that has packets loses a run or a packet when it is its turn, or
\* when its head is of no use, and no port gets more to do.
WorksOff ==
  /\ \A p \in Port : Runs(p)' <= Runs(p)
  /\ \A i \in DOMAIN PortOrder : NextAt(i) => Runs(PortOrder[i])' < Runs(PortOrder[i])
  /\ (\E p \in Port : queue[p] # <<>>) => \E p \in Port : Runs(p)' < Runs(p)

LEMMA LeftIs ==
  ASSUME NEW p \in Port, retry[p] \in Entry
  PROVE  Left(p) \in 0 .. 2 * MaxRetries + 1
<1>1. /\ MaxRetries \in Nat
      /\ retry[p].processing \in 0 .. MaxRetries /\ retry[p].sending \in 0 .. MaxRetries
  BY Constants DEF Entry
<1> QED
  BY <1>1 DEF Left

\* The loss of a packet outweighs all that its successor may need.
LEMMA Lighter ==
  ASSUME NEW r \in Nat, NEW m \in Nat, NEW n \in Nat, NEW k \in 0 .. 2 * r + 1, NEW l \in 0 .. 2 * r + 1,
         n < m \/ (n = m /\ l < k)
  PROVE  /\ (2 * r + 2) * n + l < (2 * r + 2) * m + k
         /\ (2 * r + 2) * n + l \in Nat /\ (2 * r + 2) * m + k \in Nat
<1> DEFINE c == 2 * r + 2
<1>1. c \in Nat /\ k < c /\ l < c
  OBVIOUS
<1> HIDE DEF c
<1>2. c * n \in Nat /\ c * m \in Nat
  BY <1>1
<1>3. CASE n < m
  <2>1. PICK d \in Nat : m = n + 1 + d
    <3>1. m - n - 1 \in Nat /\ m = n + 1 + (m - n - 1)
      BY <1>3
    <3> QED
      BY <3>1
  <2>2. c * m = c * n + c + c * d /\ c * d \in Nat
    BY <1>1, <2>1
  <2> QED
    BY <1>1, <1>2, <2>2 DEF c
<1>4. CASE n = m /\ l < k
  BY <1>1, <1>2, <1>4 DEF c
<1> QED
  BY <1>3, <1>4

LEMMA RunsAre ==
  ASSUME NEW p \in Port, retry[p] \in Entry, retry'[p] \in Entry,
         NEW S, queue[p] \in Seq(S), queue'[p] \in Seq(S)
  PROVE  Runs(p) \in Nat /\ Runs(p)' \in Nat
<1>1. Left(p) \in Nat /\ Left(p)' \in Nat
  BY Constants DEF Left, Entry
<1> DEFINE n == Len(queue[p])
           m == Len(queue'[p])
<1>2. n \in Nat /\ m \in Nat
  OBVIOUS
<1> HIDE DEF n, m
<1>3. (2 * MaxRetries + 2) * n \in Nat /\ (2 * MaxRetries + 2) * m \in Nat
  BY <1>2, Constants
<1> QED
  BY <1>1, <1>3 DEF Runs, n, m

LEMMA FewerRuns ==
  ASSUME NEW p \in Port, retry[p] \in Entry, retry'[p] \in Entry, NEW S, queue[p] \in Seq(S),
         \/ queue[p] # <<>> /\ queue'[p] = Tail(queue[p])
         \/ queue'[p] = queue[p] /\ Left(p)' < Left(p)
  PROVE  Runs(p)' < Runs(p)
<1>1. /\ Left(p) \in 0 .. 2 * MaxRetries + 1 /\ MaxRetries \in Nat
      /\ Left(p)' \in 0 .. 2 * MaxRetries + 1
  <2>1. Left(p)' \in 0 .. 2 * MaxRetries + 1
    <3>1. /\ MaxRetries \in Nat
          /\ retry'[p].processing \in 0 .. MaxRetries /\ retry'[p].sending \in 0 .. MaxRetries
      BY Constants DEF Entry
    <3> QED
      BY <3>1 DEF Left
  <2> QED
    BY <2>1, LeftIs, Constants
<1>2. Len(queue[p]) \in Nat /\ Len(queue'[p]) \in Nat
      /\ (Len(queue'[p]) < Len(queue[p])
          \/ (Len(queue'[p]) = Len(queue[p]) /\ Left(p)' < Left(p)))
  <2>1. CASE queue[p] # <<>> /\ queue'[p] = Tail(queue[p])
    BY <2>1
  <2>2. CASE queue'[p] = queue[p] /\ Left(p)' < Left(p)
    BY <2>2
  <2> QED
    BY <2>1, <2>2
<1> DEFINE k == Left(p)
           l == Left(p)'
           m == Len(queue[p])
           n == Len(queue'[p])
<1>3. (2 * MaxRetries + 2) * n + l < (2 * MaxRetries + 2) * m + k
  <2> HIDE DEF k, l, m, n
  <2> QED
    BY <1>1, <1>2, Lighter DEF k, l, m, n
<1> QED
  BY <1>3 DEF Runs

\* A port at which nothing is done has as much to do as before.
LEMMA NoMoreRuns ==
  ASSUME NEW p \in Port, retry[p] \in Entry, retry'[p] = retry[p], NEW S, queue[p] \in Seq(S),
         queue'[p] = queue[p] \/ (queue[p] # <<>> /\ queue'[p] = Tail(queue[p]))
  PROVE  Runs(p)' <= Runs(p)
<1>0. \A s \in Seq(S) : s # <<>> => Tail(s) \in Seq(S)
  OBVIOUS
<1>1. queue'[p] \in Seq(S)
  BY <1>0, Zenon
<1>2. Runs(p) \in Nat /\ Runs(p)' \in Nat
  BY <1>1, RunsAre
<1>3. CASE queue'[p] = queue[p]
  BY <1>2, <1>3 DEF Runs, Left
<1>4. CASE queue[p] # <<>> /\ queue'[p] = Tail(queue[p])
  <2>1. Runs(p)' < Runs(p)
    BY <1>4, FewerRuns
  <2> QED
    BY <1>2, <2>1
<1> QED
  BY <1>3, <1>4

\* The port whose turn it is.
LEMMA TurnWorks ==
  ASSUME AttemptsInv, retry \in [Port -> Entry],
         NEW i \in DOMAIN PortOrder, NextAt(i), Refuse(i) \/ Enter(i) \/ GiveUp(i) \/ Execute(i)
  PROVE  LET p == PortOrder[i]
         IN queue'[p] = Tail(queue[p]) \/ (queue'[p] = queue[p] /\ Left(p)' < Left(p))
<1> DEFINE p == PortOrder[i]
           m == Head(queue[p])
<1>0. p \in Port /\ queue[p] # <<>>
      /\ Kept(i)[p] = queue[p] /\ Skipped(i)[p] = Tail(queue[p])
  BY NextQueues
<1>1. /\ retry[p].processing \in 0 .. MaxRetries /\ retry[p].sending \in 0 .. MaxRetries
      /\ MaxRetries \in Nat \ {0}
  BY <1>0, Constants DEF Entry
<1>2. CASE Refuse(i) \/ GiveUp(i)
  BY <1>0, <1>2 DEF Refuse, GiveUp
<1>3. CASE Enter(i)
  <2>1. /\ retry[p].id # IdOf(m) /\ queue'[p] = queue[p]
        /\ retry'[p] = [id |-> IdOf(m), processing |-> MaxRetries, sending |-> MaxRetries]
    BY <1>0, <1>3 DEF Enter
  <2>2. Left(p) = 2 * MaxRetries + 1 /\ Left(p)' = MaxRetries + MaxRetries
    BY <1>0, <2>1 DEF Left
  <2> QED
    BY <1>1, <2>1, <2>2
<1>4. CASE Execute(i)
  <2>1. retry[p].id = IdOf(m)
    BY <1>4 DEF Execute, Entered
  <2>2. CASE Incomplete(i) \/ NotSent(i)
    <3>1. /\ \/ retry' = [retry EXCEPT ![p].processing = @ - 1]
             \/ retry' = [retry EXCEPT ![p].sending = @ - 1]
          /\ queue'[p] = queue[p]
      BY <1>0, <2>2 DEF Incomplete, NotSent
    <3>2. /\ retry'[p].id = retry[p].id
          /\ \/ /\ retry'[p].processing = retry[p].processing - 1
                /\ retry'[p].sending = retry[p].sending
             \/ /\ retry'[p].processing = retry[p].processing
                /\ retry'[p].sending = retry[p].sending - 1
      BY <1>0, <3>1 DEF Entry
    <3>3. Left(p) = retry[p].processing + retry[p].sending
          /\ Left(p)' = retry'[p].processing + retry'[p].sending
      BY <1>0, <2>1, <3>1, <3>2 DEF Left
    <3> QED
      BY <1>1, <3>1, <3>2, <3>3
  <2>3. CASE WithoutPacket(i) \/ \E stale : Answered(i, stale)
    BY <1>0, <2>3 DEF WithoutPacket, Answered
  <2> QED
    BY <1>4, <2>2, <2>3, Executions
<1> QED
  BY <1>2, <1>3, <1>4

\* An entry changes at the port whose turn it is, and nowhere else.
LEMMA EntriesStay ==
  ASSUME retry \in [Port -> Entry], NEW i \in DOMAIN PortOrder, NextAt(i),
         Refuse(i) \/ Enter(i) \/ GiveUp(i) \/ Execute(i)
  PROVE  \A q \in Port \ {PortOrder[i]} : retry'[q] = retry[q]
<1>1. retry' = retry \/ \E e : retry' = [retry EXCEPT ![PortOrder[i]] = e]
  <2>1. CASE Refuse(i)
    BY <2>1 DEF Refuse
  <2>2. CASE Enter(i) \/ GiveUp(i)
    BY <2>2 DEF Enter, GiveUp
  <2>3. CASE Execute(i)
    BY <2>3, Executions DEF Incomplete, NotSent, Answered, WithoutPacket
  <2> QED
    BY <2>1, <2>2, <2>3
<1> QED
  BY <1>1

\* Unless all heads are of no use, one of the ports is the next.
LEMMA SomeNext ==
  ASSUME NEW p \in Port, queue[p] # <<>>, ~Discardable(p)
  PROVE  \E i \in DOMAIN PortOrder : NextAt(i)
<1> DEFINE R == OpToRel(<, Nat)
           T == {i \in DOMAIN PortOrder : queue[PortOrder[i]] # <<>> /\ ~Discardable(PortOrder[i])}
<1>0. DOMAIN PortOrder = 1 .. Len(PortOrder) /\ Len(PortOrder) \in Nat
  BY RunnerAssumption
<1>1. T \subseteq Nat /\ T # {}
  <2>1. PICK i \in DOMAIN PortOrder : PortOrder[i] = p
    BY DEF Port
  <2>2. i \in T
    BY <2>1
  <2> QED
    BY <1>0, <2>2
<1>2. PICK i \in T : \A j \in T : ~ (<<j, i>> \in R)
  BY <1>1, NatLessThanWellFounded, WFMin
<1>3. \A j \in 1 .. i - 1 : j \in DOMAIN PortOrder /\ j \notin T
  <2> TAKE j \in 1 .. i - 1
  <2>1. i \in 1 .. Len(PortOrder)
    BY <1>0, <1>2
  <2>2. j \in DOMAIN PortOrder /\ j \in Nat /\ i \in Nat /\ j < i
    BY <1>0, <2>1
  <2>3. <<j, i>> \in R
    BY <2>2 DEF OpToRel
  <2> HIDE DEF R, T
  <2> QED
    BY <1>2, <2>2, <2>3
<1>4. NextAt(i)
  BY <1>2, <1>3 DEF NextAt
<1> QED
  BY <1>2, <1>4

\* The router finds one next packet.
LEMMA OneNext ==
  ASSUME NEW i \in DOMAIN PortOrder, NEW j \in DOMAIN PortOrder, NextAt(i), NextAt(j)
  PROVE  i = j
<1>1. i \in Nat \ {0} /\ j \in Nat \ {0}
  BY RunnerAssumption
<1>2. j \notin 1 .. i - 1 /\ i \notin 1 .. j - 1
  BY DEF NextAt
<1> QED
  BY <1>1, <1>2

LEMMA HandlingWorks ==
  ASSUME AttemptsInv, RestType, RestType', ProcessNextIncomingPacket
  PROVE  WorksOff
<1>0. /\ \A q \in Port : queue[q] \in Seq(At(q)) /\ retry[q] \in Entry /\ retry'[q] \in Entry
      /\ retry \in [Port -> Entry]
  BY DEF AttemptsInv, QueueTypes, RestType
<1>1. CASE NoPacketNext
  <2>1. \A q \in Port : /\ retry'[q] = retry[q]
                        /\ queue'[q] = IF Discardable(q) THEN Tail(queue[q]) ELSE queue[q]
    BY <1>1 DEF NoPacketNext, Passed
  <2>2. \A q \in Port : Discardable(q) => queue[q] # <<>>
    BY DEF Discardable
  <2>3. \A q \in Port : Runs(q)' <= Runs(q)
    BY <1>0, <2>1, <2>2, NoMoreRuns
  <2>4. \A q \in Port : Discardable(q) => Runs(q)' < Runs(q)
    BY <1>0, <2>1, <2>2, FewerRuns
  <2>5. ~\E i \in DOMAIN PortOrder : NextAt(i)
    BY <1>1 DEF NoPacketNext
  <2>6. \A q \in Port : queue[q] # <<>> => Discardable(q)
    BY <2>5, SomeNext
  <2> QED
    BY <2>3, <2>4, <2>5, <2>6 DEF WorksOff
<1>2. ASSUME NEW i \in DOMAIN PortOrder, NextAt(i), Refuse(i) \/ Enter(i) \/ GiveUp(i) \/ Execute(i)
      PROVE  WorksOff
  <2> DEFINE p == PortOrder[i]
  <2>1. p \in Port /\ queue[p] # <<>>
    BY <1>2, NextQueues
  <2>2. Runs(p)' < Runs(p)
    BY <1>0, <1>2, <2>1, TurnWorks, FewerRuns
  <2>3. \A q \in Port \ {p} : Runs(q)' <= Runs(q)
    <3> TAKE q \in Port \ {p}
    <3>1. queue' = Kept(i) \/ queue' = Skipped(i)
      BY <1>2, StepQueues
    <3>2. queue'[q] = queue[q] \/ (queue[q] # <<>> /\ queue'[q] = Tail(queue[q]))
      BY <1>2, <3>1, NextQueues DEF Discardable
    <3>3. retry'[q] = retry[q]
      BY <1>0, <1>2, EntriesStay
    <3> QED
      BY <1>0, <3>2, <3>3, NoMoreRuns
  <2>4. Runs(p)' <= Runs(p)
    <3>1. queue'[p] = Tail(queue[p]) \/ queue'[p] = queue[p]
      BY <1>0, <1>2, TurnWorks
    <3>2. queue[p] \in Seq(At(p)) /\ queue[p] # <<>>
      BY <1>0, <2>1
    <3>3. \A S : \A s \in Seq(S) : s # <<>> => Tail(s) \in Seq(S)
      OBVIOUS
    <3>4. queue'[p] \in Seq(At(p))
      BY <3>1, <3>2, <3>3, Zenon
    <3>5. Runs(p) \in Nat /\ Runs(p)' \in Nat
      BY <1>0, <2>1, <3>2, <3>4, RunsAre
    <3> QED
      BY <2>2, <3>5
  <2>5. \A j \in DOMAIN PortOrder : NextAt(j) => PortOrder[j] = p
    BY <1>2, OneNext
  <2> QED
    BY <2>1, <2>2, <2>3, <2>4, <2>5 DEF WorksOff
<1> QED
  BY <1>1, <1>2 DEF ProcessNextIncomingPacket

\* No packet stays for ever while the router comes by: each run lowers what
\* the port has left to do whose turn it is, by a packet or by an attempt of
\* its head, whatever fails and whether or not the Pi answers, no other port
\* gets more to do, and a run finds nothing to lower only when all queues are
\* empty (NodeOperationRunner.cpp, Router.cpp).
THEOREM RunsWorkOff ==
  Spec => [][ProcessNextIncomingPacket => WorksOff]_vars
<1>1. (AttemptsInv /\ RestType) /\ (AttemptsInv /\ RestType)' =>
        [ProcessNextIncomingPacket => WorksOff]_vars
  BY HandlingWorks
<1> QED
  BY RunnerInvariant, <1>1, PTL
=============================================================================
