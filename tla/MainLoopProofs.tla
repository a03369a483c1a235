--------------------------- MODULE MainLoopProofs --------------------------
(***************************************************************************)
(* What is proved of the set-up and the main loop: for every number of     *)
(* tasks and their intervals, every timeout of the watchdog, every width   *)
(* of millis() and any number of faults.                                   *)
(***************************************************************************)
EXTENDS MainLoop, FiniteSetTheorems, WellFoundedInduction, TLAPS

\* The distance of two times of a clock that wraps, and a tick later.
LEMMA Distance ==
  ASSUME NEW W \in Nat \ {0}, NEW c \in 0 .. W - 1, NEW l \in 0 .. W - 1
  PROVE  /\ (c - l) % W \in 0 .. W - 1
         /\ (c + 1) % W \in 0 .. W - 1
         /\ ((c - l) % W) + 1 < W => (((c + 1) % W) - l) % W = ((c - l) % W) + 1
<1>1. \A x \in 0 .. W - 1 : x % W = x
  OBVIOUS
<1>2. \A x \in -W .. -1 : x % W = x + W
  OBVIOUS
<1>3. W % W = 0
  OBVIOUS
<1>4. c - l \in 0 .. W - 1 \/ c - l \in -W .. -1
  OBVIOUS
<1>5. (c - l) % W = IF c >= l THEN c - l ELSE c - l + W
  BY <1>1, <1>2, <1>4
<1>6. (c + 1) % W = IF c + 1 = W THEN 0 ELSE c + 1
  BY <1>1, <1>3
<1>7. CASE c + 1 = W
  <2>1. ((c + 1) % W) - l = -l /\ -l \in -W .. 0
    BY <1>6, <1>7
  <2>2. CASE l = 0
    BY <1>5, <1>6, <1>7, <2>2
  <2>3. CASE l # 0
    <3>1. -l \in -W .. -1
      BY <2>3
    <3>2. (-l) % W = W - l
      BY <1>2, <3>1
    <3> QED
      BY <1>5, <1>6, <1>7, <2>1, <3>2
  <2> QED
    BY <2>2, <2>3
<1>8. CASE c + 1 # W
  <2>1. ((c + 1) % W) - l = c + 1 - l
    BY <1>6, <1>8
  <2>2. CASE c + 1 >= l
    <3>1. c + 1 - l \in 0 .. W
      BY <1>8, <2>2
    <3>2. ((c - l) % W) + 1 < W => c >= l /\ c + 1 - l \in 0 .. W - 1
      BY <1>5, <1>8, <2>2
    <3> QED
      BY <1>1, <1>5, <1>6, <2>1, <3>2, <1>8
  <2>3. CASE c + 1 < l
    <3>1. c + 1 - l \in -W .. -1
      BY <2>3
    <3> QED
      BY <1>2, <1>5, <1>6, <1>8, <2>1, <2>3, <3>1
  <2> QED
    BY <2>2, <2>3
<1> QED
  BY <1>7, <1>8

\* A run of the scheduler and the pause before it are short against millis().
LEMMA Bounds ==
  /\ Wrap \in Nat \ {0} /\ LoopInterval \in Nat /\ LoopInterval < Wrap
  /\ WatchdogTimeout \in Nat \ {0} /\ LoopInterval < WatchdogTimeout
  /\ ErrorTimeout \in Nat \ {0}
<1>1. /\ Wrap \in Nat /\ LoopInterval \in Nat /\ LoopInterval < WatchdogTimeout
      /\ WatchdogTimeout \in Nat \ {0} /\ ErrorTimeout \in Nat \ {0} /\ MaxBusy \in Nat
      /\ SleepingTask \in 1 .. Len(Interval) /\ Interval \in Seq(Nat)
  BY MainLoopAssumption, BootAssumption DEF Task
<1>2. Interval[SleepingTask] \in Nat
  BY <1>1
<1>3. Interval[SleepingTask] + LoopInterval + (MaxBusy + WatchdogTimeout) < Wrap
  BY <1>1, MainLoopAssumption DEF Task, Longest
<1> QED
  BY <1>1, <1>2, <1>3

-----------------------------------------------------------------------------
(* The stages of the set-up. *)

\* Where the node is when it is not in a stage of the set-up.
Places == {"reset", "idle", "tasks", "working", "blocked", "hung", "logging", "waiting",
           "asleep", "slept", "off"}

LEMMA StageNames ==
  /\ Len(Stages) = 18
  /\ Stages[1] = "storage" /\ Stages[18] = "watchdog"
  /\ \A i \in 1 .. 18 : Stages[i] \notin Places
  /\ \A i \in 1 .. 18 : Stages[i] \in Provisioning <=> i \in 6 .. 11
  BY DEF Stages, Places, Provisioning

\* The set-up goes on with a later stage.
LEMMA GoOnType ==
  ASSUME NEW i \in 1 .. 17, GoOnAfter(i)
  PROVE  stage' \in 1 .. 18 /\ at' = Stages[stage']
<1> DEFINE later == {j \in i + 1 .. Len(Stages) : provisions \/ Stages[j] \notin Provisioning}
           next == CHOOSE j \in later : \A k \in later : j <= k
           first == IF provisions \/ i + 1 \notin 6 .. 11 THEN i + 1 ELSE 12
<1>1. later = {j \in i + 1 .. 18 : provisions \/ j \notin 6 .. 11}
  BY StageNames
<1>2. first \in later /\ \A k \in later : first <= k
  BY <1>1
<1>3. next \in later
  <2> HIDE DEF later, first
  <2> QED
    BY <1>2
<1>4. stage' = next /\ at' = Stages[next]
  BY DEF GoOnAfter
<1>5. next \in 1 .. 18
  <2> HIDE DEF next
  <2> QED
    BY <1>1, <1>3
<1> QED
  BY <1>4, <1>5

-----------------------------------------------------------------------------
(* An error that is handled ends in a reset: the delay is longer than the   *)
(* timeout, and nothing feeds the watchdog meanwhile.                       *)

ReadyInv ==
  /\ stage \in 1 .. 18
  /\ at \notin Places => at = Stages[stage]
  /\ at = "reset" => /\ armed = ErrorTimeout /\ unfed \in Nat /\ delayed \in Nat
                     /\ unfed + delayed = ErrorTimeout + 1
  /\ at # "reset" => failed \cap Vital = {}

LEMMA InitReady == Init => ReadyInv
  BY StageNames DEF Init, InitBoot, ReadyInv, Places

\* A stage that is not the last one: the node is in it, and knows it.
LEMMA InStage ==
  ASSUME ReadyInv, at \notin Places, at # "watchdog"
  PROVE  /\ stage \in 1 .. 17 /\ failed \cap Vital = {}
         /\ GoOn => stage' \in 1 .. 18 /\ at' = Stages[stage'] /\ at' \notin Places
<1>1. stage \in 1 .. 18 /\ at = Stages[stage] /\ failed \cap Vital = {}
  BY DEF ReadyInv, Places
<1>2. stage \in 1 .. 17
  BY <1>1, StageNames
<1> QED
  BY <1>1, <1>2, GoOnType, StageNames DEF GoOn

LEMMA RestartReady == Restart => ReadyInv'
  BY StageNames DEF Restart, ReadyInv, Places

LEMMA HandleReady == HandleError /\ stage' \in 1 .. 18 => ReadyInv'
<1> SUFFICES ASSUME HandleError, stage' \in 1 .. 18 PROVE ReadyInv'
  OBVIOUS
<1>1. at' = "reset" /\ armed' = ErrorTimeout /\ unfed' = 0 /\ delayed' = ErrorTimeout + 1
  BY DEF HandleError
<1>2. ErrorTimeout \in Nat
  BY Bounds
<1> QED
  BY <1>1, <1>2 DEF ReadyInv, Places

\* A stage that fails hands its error over, if the node needs its part.
LEMMA StageReady ==
  ASSUME ReadyInv, NEW s, at = s, s \notin Places, s # "watchdog",
         Succeeds \/ TriesAgain \/ Fails(s)
  PROVE  ReadyInv'
<1>1. /\ stage \in 1 .. 17 /\ failed \cap Vital = {}
      /\ GoOn => stage' \in 1 .. 18 /\ at' = Stages[stage'] /\ at' \notin Places
  BY InStage
<1>2. CASE Succeeds
  BY <1>1, <1>2 DEF Succeeds, ReadyInv, Places
<1>3. CASE TriesAgain
  BY <1>1, <1>3 DEF TriesAgain, ReadyInv, Places
<1>4. CASE Fails(s) /\ s \in Vital
  BY <1>1, <1>4, HandleReady DEF Fails
<1>5. CASE Fails(s) /\ s \notin Vital
  <2>1. failed' = failed \cup {s} /\ GoOn
    BY <1>5 DEF Fails
  <2> QED
    BY <1>1, <1>5, <2>1 DEF ReadyInv, Places
<1> QED
  BY <1>2, <1>3, <1>4, <1>5

LEMMA ProvisionReady ==
  ASSUME ReadyInv, NEW s, s \in Provisioning, NEW items, Removes(s, items) \/ Loads(s, items)
  PROVE  ReadyInv'
<1>1. at = s /\ GoOn /\ failed' = failed
  BY DEF Removes, Loads
<1>2. s \notin Places /\ s # "watchdog"
  BY DEF Provisioning, Places
<1>3. /\ failed \cap Vital = {}
      /\ stage' \in 1 .. 18 /\ at' = Stages[stage'] /\ at' \notin Places
  BY <1>1, <1>2, InStage
<1> QED
  BY <1>1, <1>3 DEF ReadyInv, Places

LEMMA SetUpReady == ReadyInv /\ SetUpStep => ReadyInv'
<1> SUFFICES ASSUME ReadyInv, SetUpStep PROVE ReadyInv'
  OBVIOUS
<1>1. ASSUME NEW s \in {"storage", "gps", "fix", "queue", "iridium", "gauge", "runner"}, SetUp(s)
      PROVE  ReadyInv'
  <2>1. at = s /\ s \notin Places /\ s # "watchdog"
    BY <1>1 DEF SetUp, Places
  <2>2. Succeeds \/ Fails(s)
    BY <1>1 DEF SetUp
  <2> QED
    BY <2>1, <2>2, StageReady
<1>2. CASE Modem
  <2>1. at = "modem" /\ "modem" \notin Places /\ "modem" # "watchdog"
    BY <1>2 DEF Modem, Places
  <2>2. Succeeds \/ TriesAgain \/ Fails("modem")
    BY <1>2 DEF Modem
  <2> QED
    BY <2>1, <2>2, StageReady
<1>3. CASE Mqtt
  <2>1. at = "mqtt" /\ "mqtt" \notin Places /\ "mqtt" # "watchdog"
    BY <1>3 DEF Mqtt, Places
  <2>2. Succeeds \/ TriesAgain \/ Fails("mqtt")
    BY <1>3 DEF Mqtt
  <2> QED
    BY <2>1, <2>2, StageReady
<1>4. CASE ListCertificates \/ PrintTLSProfileStatus
  <2>1. at \in {"list", "profile"} /\ Succeeds
    BY <1>4 DEF ListCertificates, PrintTLSProfileStatus
  <2>2. at \notin Places /\ at # "watchdog"
    BY <2>1 DEF Places
  <2> QED
    BY <2>1, <2>2, StageReady
<1>5. CASE RemoveRoots \/ ImportRoots \/ RemoveKey \/ LoadKey \/ RemoveCert \/ LoadCert
  <2>1. \E s \in Provisioning : \E items : Removes(s, items) \/ Loads(s, items)
    BY <1>5
    DEF RemoveRoots, ImportRoots, RemoveKey, LoadKey, RemoveCert, LoadCert, Provisioning
  <2> QED
    BY <2>1, ProvisionReady
<1> QED
  BY <1>1, <1>2, <1>3, <1>4, <1>5 DEF SetUpStep

\* The delay is never over: the watchdog bites before.
LEMMA ResetReady == ReadyInv /\ PerformReset => ReadyInv' /\ at' = "reset"
<1> SUFFICES ASSUME ReadyInv, PerformReset PROVE ReadyInv' /\ at' = "reset"
  OBVIOUS
<1>1. /\ at = "reset" /\ unfed < armed /\ armed = ErrorTimeout /\ unfed \in Nat
      /\ delayed \in Nat /\ unfed + delayed = ErrorTimeout + 1 /\ ErrorTimeout \in Nat
  BY Bounds DEF PerformReset, ReadyInv
<1>2. delayed > 0
  BY <1>1
<1>3. /\ delayed' = delayed - 1 /\ unfed' = unfed + 1
      /\ UNCHANGED <<at, stage, armed, failed>>
  BY <1>2 DEF PerformReset
<1> QED
  BY <1>1, <1>2, <1>3 DEF ReadyInv, Places

\* In the loop, nothing but an error changes what has failed, and nothing
\* leads back into the set-up but a restart.
LEMMA LoopReady ==
  ASSUME ReadyInv, at \in Places \ {"reset"}, at' \in Places \ {"reset"},
         UNCHANGED <<stage, failed>>
  PROVE  ReadyInv'
  BY DEF ReadyInv, Places

LEMMA NextReady == ReadyInv /\ [Next]_vars => ReadyInv'
<1> SUFFICES ASSUME ReadyInv, [Next]_vars PROVE ReadyInv'
  OBVIOUS
<1>1. CASE SetUpStep \/ PerformReset
  BY <1>1, SetUpReady, ResetReady
<1>2. CASE EnableWatchdog
  BY <1>2 DEF EnableWatchdog, ReadyInv, Places
<1>3. CASE Bites \/ PowerFails
  BY <1>3, RestartReady DEF Bites, PowerFails
<1>4. CASE Idle \/ RunBegins \/ Executes \/ TaskEnds \/ RunEnds \/ Returns \/ Sleeps \/ Wakes
  <2>1. at \in Places \ {"reset"} /\ at' \in Places \ {"reset"} /\ UNCHANGED <<stage, failed>>
    BY <1>4
    DEF Idle, RunBegins, Executes, TaskEnds, RunEnds, Returns, Sleeps, Wakes, Goes, Places
  <2> QED
    BY <2>1, LoopReady
<1>5. CASE Blocks \/ Waits
  <2>1. at \in Places \ {"reset"} /\ at' \in Places \ {"reset"} /\ UNCHANGED <<stage, failed>>
    BY <1>5 DEF Blocks, Waits, Goes, Places
  <2> QED
    BY <2>1, LoopReady
<1>6. CASE Logs \/ AppendsLine
  <2>1. at \in Places \ {"reset"} /\ at' \in Places \ {"reset"} /\ UNCHANGED <<stage, failed>>
    BY <1>6 DEF Logs, AppendsLine, Places
  <2> QED
    BY <2>1, LoopReady
<1>7. CASE Skips
  BY <1>7 DEF Skips, bootVars, ReadyInv
<1>8. CASE TaskFails
  BY <1>8, HandleReady DEF TaskFails, ReadyInv
<1>9. CASE UNCHANGED vars
  BY <1>9 DEF vars, bootVars, ReadyInv
<1> QED
  BY <1>1, <1>2, <1>3, <1>4, <1>5, <1>6, <1>7, <1>8, <1>9 DEF Next, Thread

\* The loop is never entered with a part that the node needs and that could
\* not be set up: whatever the timeouts and however many parts fail
\* (prod_main.cpp:62-134, ErrorHandler.cpp:61-88).
THEOREM NeverUpUnready == Spec => []UpMeansReady
<1>1. ReadyInv => UpMeansReady
  BY DEF ReadyInv, UpMeansReady
<1> QED
  BY InitReady, NextReady, <1>1, PTL DEF Spec

-----------------------------------------------------------------------------
(* The watchdog is enabled wherever the loop may be but in a sleep, and it  *)
(* was fed after the last call that could block.                            *)

Guarded == {"idle", "tasks", "working", "blocked", "hung", "logging", "waiting", "slept"}

FedInv ==
  /\ {clock, loopTime, now} \subseteq 0 .. Wrap - 1
  /\ at \in Guarded => armed = WatchdogTimeout
  /\ at = "tasks" => unfed = 0
  /\ at = "idle" => unfed \in Nat /\ unfed <= LoopInterval /\ unfed <= (clock - loopTime) % Wrap

LEMMA InitFed == Init => FedInv
  BY Bounds DEF Init, InitBoot, Stages, FedInv, Guarded

\* A step of the set-up leads to a stage or to the reset, and the loop is
\* begun by EnableWatchdog only.
LEMMA SetUpSteps ==
  ReadyInv /\ SetUpStep => at \notin Places /\ (at' \notin Places \/ at' = "reset")
<1> SUFFICES ASSUME ReadyInv, SetUpStep
             PROVE  at \notin Places /\ (at' \notin Places \/ at' = "reset")
  OBVIOUS
<1>1. /\ at \notin Places /\ at # "watchdog"
      /\ GoOn \/ HandleError \/ at' = at
  <2>1. CASE \E s \in {"storage", "gps", "fix", "queue", "iridium", "gauge", "runner"} : SetUp(s)
    BY <2>1 DEF SetUp, Succeeds, Fails, Places
  <2>2. CASE Modem \/ Mqtt
    BY <2>2 DEF Modem, Mqtt, Succeeds, Fails, TriesAgain, Places
  <2>3. CASE RemoveRoots \/ ImportRoots \/ RemoveKey \/ LoadKey \/ RemoveCert \/ LoadCert
    BY <2>3
    DEF RemoveRoots, ImportRoots, RemoveKey, LoadKey, RemoveCert, LoadCert, Removes, Loads, Places
  <2>4. CASE ListCertificates \/ PrintTLSProfileStatus
    BY <2>4 DEF ListCertificates, PrintTLSProfileStatus, Succeeds, Places
  <2> QED
    BY <2>1, <2>2, <2>3, <2>4 DEF SetUpStep
<1> QED
  BY <1>1, InStage DEF HandleError

LEMMA SetUpPlace == ReadyInv /\ SetUpStep => at' \notin Guarded
  BY SetUpSteps DEF Guarded, Places

\* The pause between two runs is shorter than the timeout.
LEMMA IdleFed == FedInv /\ Idle => FedInv'
<1> SUFFICES ASSUME FedInv, Idle PROVE FedInv'
  OBVIOUS
<1> DEFINE d == (clock - loopTime) % Wrap
<1>1. /\ at = "idle" /\ at' = "idle" /\ armed' = armed /\ clock' = (clock + 1) % Wrap
      /\ unfed' = (IF armed > 0 THEN unfed + 1 ELSE 0) /\ UNCHANGED <<loopTime, now>>
      /\ ~LoopDue
  BY DEF Idle, Elapses, Goes
<1>2. /\ clock \in 0 .. Wrap - 1 /\ loopTime \in 0 .. Wrap - 1 /\ now \in 0 .. Wrap - 1
      /\ armed = WatchdogTimeout /\ unfed \in Nat /\ unfed <= d
  BY <1>1 DEF FedInv, Guarded
<1>3. d < LoopInterval
  <2>1. d \in 0 .. Wrap - 1
    BY <1>2, Bounds, Distance
  <2>2. ~(d >= LoopInterval)
    BY <1>1 DEF LoopDue
  <2> HIDE DEF d
  <2> QED
    BY <2>1, <2>2, Bounds
<1>4. d \in 0 .. Wrap - 1 /\ clock' \in 0 .. Wrap - 1 /\ d' = d + 1
  <2>1. d \in 0 .. Wrap - 1 /\ (clock + 1) % Wrap \in 0 .. Wrap - 1
    BY <1>2, Bounds, Distance
  <2>2. d + 1 < Wrap
    BY <1>3, <2>1, Bounds
  <2>3. (((clock + 1) % Wrap) - loopTime) % Wrap = d + 1
    BY <1>2, <2>2, Bounds, Distance
  <2> QED
    BY <1>1, <2>1, <2>3
<1>5. unfed' = unfed + 1
  BY <1>1, <1>2, Bounds
<1>6. unfed' \in Nat /\ unfed' <= LoopInterval /\ unfed' <= d'
  <2> HIDE DEF d
  <2> QED
    BY <1>2, <1>3, <1>4, <1>5, Bounds
<1> QED
  BY <1>1, <1>2, <1>4, <1>6 DEF FedInv, Guarded

LEMMA NextFed == ReadyInv /\ FedInv /\ [Next]_vars => FedInv'
<1> SUFFICES ASSUME ReadyInv, FedInv, [Next]_vars PROVE FedInv'
  OBVIOUS
<1>1. CASE (SetUpStep \/ PerformReset) /\ UNCHANGED <<loopVars, lines>>
  <2>1. at' \notin Guarded
    BY <1>1, SetUpPlace, ResetReady DEF Guarded
  <2> QED
    BY <1>1, <2>1 DEF loopVars, FedInv, Guarded
<1>2. CASE EnableWatchdog
  <2>1. /\ at' = "idle" /\ armed' = WatchdogTimeout /\ unfed' = 0
        /\ clock' \in SetupTimes /\ UNCHANGED <<loopTime, now>>
    BY <1>2 DEF EnableWatchdog
  <2>2. clock' \in 0 .. Wrap - 1 /\ loopTime' \in 0 .. Wrap - 1 /\ now' \in 0 .. Wrap - 1
    BY <2>1, MainLoopAssumption, Bounds DEF FedInv
  <2>3. (clock' - loopTime') % Wrap \in 0 .. Wrap - 1
    BY <2>2, Bounds, Distance
  <2>4. /\ unfed' \in Nat /\ unfed' <= LoopInterval
        /\ unfed' <= (clock' - loopTime') % Wrap
    BY <2>1, <2>3, Bounds
  <2>5. {clock, loopTime, now}' \subseteq 0 .. Wrap - 1
    BY <2>2
  <2> QED
    BY <2>1, <2>4, <2>5 DEF FedInv
<1>3. CASE Bites \/ PowerFails
  <2>1. at' = "storage" /\ clock' = 0 /\ loopTime' = 0 /\ now' = 0
    BY <1>3, StageNames DEF Bites, PowerFails, Restart, LoopStarts
  <2> QED
    BY <2>1, Bounds DEF FedInv, Guarded
<1>4. CASE Idle
  BY <1>4, IdleFed
<1>5. CASE RunBegins
  BY <1>5 DEF RunBegins, Goes, FedInv, Guarded
<1>6. CASE Executes \/ Skips \/ Returns
  BY <1>6 DEF Executes, Skips, Returns, Goes, loopVars, bootVars, FedInv, Guarded
<1>7. CASE TaskEnds
  BY <1>7 DEF TaskEnds, Goes, FedInv, Guarded
<1>8. CASE RunEnds
  <2>1. /\ at = "tasks" /\ at' = "idle" /\ unfed' = unfed /\ loopTime' = now
        /\ UNCHANGED <<armed, clock, now>>
    BY <1>8 DEF RunEnds, Goes
  <2>2. /\ unfed = 0 /\ armed = WatchdogTimeout
        /\ clock \in 0 .. Wrap - 1 /\ now \in 0 .. Wrap - 1
    BY <2>1 DEF FedInv, Guarded
  <2>3. (clock - now) % Wrap \in 0 .. Wrap - 1
    BY <2>2, Bounds, Distance
  <2> QED
    BY <2>1, <2>2, <2>3, Bounds DEF FedInv, Guarded
<1>9. CASE Blocks \/ Waits
  <2>1. /\ at \in Guarded /\ at' \in Guarded \ {"tasks", "idle"} /\ armed' = armed
        /\ clock' = (clock + 1) % Wrap /\ UNCHANGED <<loopTime, now>>
    BY <1>9 DEF Blocks, Waits, Elapses, Goes, Guarded
  <2>2. (clock + 1) % Wrap \in 0 .. Wrap - 1
    BY Bounds, Distance DEF FedInv
  <2> QED
    BY <2>1, <2>2 DEF FedInv
<1>10. CASE Logs \/ AppendsLine
  BY <1>10 DEF Logs, AppendsLine, loopVars, FedInv, Guarded
<1>11. CASE Sleeps \/ Wakes
  BY <1>11 DEF Sleeps, Wakes, Goes, loopVars, FedInv, Guarded
<1>12. CASE TaskFails
  BY <1>12 DEF TaskFails, HandleError, loopVars, FedInv, Guarded
<1>13. CASE UNCHANGED vars
  BY <1>13 DEF vars, bootVars, loopVars, FedInv, Guarded
<1> QED
  BY <1>1, <1>2, <1>3, <1>4, <1>5, <1>6, <1>7, <1>8, <1>9, <1>10, <1>11, <1>12, <1>13
  DEF Next, Thread

\* The watchdog does not bite between two runs, however long the calls of the
\* tasks before have blocked and whenever millis() starts again from 0
\* (TaskScheduler.cpp:10-27, prod_main.cpp:137-145).
THEOREM AlwaysFedWhenIdle == Spec => []IdleIsFed
<1>1. FedInv => IdleIsFed
  BY Bounds DEF FedInv, IdleIsFed, Guarded
<1> QED
  BY InitReady, NextReady, InitFed, NextFed, <1>1, PTL DEF Spec

-----------------------------------------------------------------------------
(* How old the last execution of a task is.                                 *)

LEMMA Apart ==
  ASSUME NEW W \in Nat \ {0}, NEW c \in 0 .. W - 1, NEW l \in 0 .. W - 1
  PROVE  (c - l) % W = IF c >= l THEN c - l ELSE (c - l) + W
<1>1. \A x \in 0 .. W - 1 : x % W = x
  OBVIOUS
<1>2. \A x \in -W .. -1 : x % W = x + W
  OBVIOUS
<1>3. c - l \in 0 .. W - 1 \/ c - l \in -W .. -1
  OBVIOUS
<1> QED
  BY <1>1, <1>2, <1>3

\* Two distances that are short enough add up.
LEMMA Additive ==
  ASSUME NEW W \in Nat \ {0}, NEW c \in 0 .. W - 1, NEW x \in 0 .. W - 1, NEW l \in 0 .. W - 1,
         ((c - x) % W) + ((x - l) % W) < W
  PROVE  (c - l) % W = ((c - x) % W) + ((x - l) % W)
<1>1. (c - x) % W = IF c >= x THEN c - x ELSE (c - x) + W
  BY Apart
<1>2. (x - l) % W = IF x >= l THEN x - l ELSE (x - l) + W
  BY Apart
<1>3. (c - l) % W = IF c >= l THEN c - l ELSE (c - l) + W
  BY Apart
<1> QED
  BY <1>1, <1>2, <1>3

\* The intervals are short against millis().
LEMMA Short ==
  /\ MaxBusy \in Nat /\ Longest \in Nat /\ MaxBusy <= Longest /\ LoopInterval <= Longest
  /\ Len(Interval) \in Nat /\ Task = 1 .. Len(Interval) /\ SleepingTask \in Task
  /\ \A t \in Task : /\ Interval[t] \in Nat
                     /\ Interval[t] + LoopInterval + Longest < Wrap
  /\ Longest < Wrap
<1>1. /\ MaxBusy \in Nat /\ Longest \in Nat /\ MaxBusy <= Longest /\ LoopInterval <= Longest
      /\ Len(Interval) \in Nat /\ Task = 1 .. Len(Interval) /\ SleepingTask \in Task
      /\ \A t \in Task : /\ Interval[t] \in Nat
                         /\ Interval[t] + LoopInterval + Longest < Wrap
  BY Bounds, MainLoopAssumption DEF Task, Longest
<1>2. Interval[SleepingTask] \in Nat /\ Interval[SleepingTask] + LoopInterval + Longest < Wrap
  BY <1>1
<1> QED
  BY <1>1, <1>2, Bounds

Running == {"tasks", "working", "blocked", "hung", "logging", "waiting", "asleep", "slept"}

\* From the run that executed it, or that found it not due, to the last one.
Since(t) == (loopTime - lastTime[t]) % Wrap
SoFar(t) == (now - lastTime[t]) % Wrap

\* Between two runs: none has been, or each task was executed by the last one
\* or was not due; and the pause is not longer than it may be.
Paced ==
  LET pause == (clock - loopTime) % Wrap
  IN /\ pause <= LoopInterval \/ pause <= busy
     /\ \A t \in Task : Since(t) <= Interval[t] /\ age[t] <= Since(t) + pause

\* In a run: the same holds of the tasks it has come by.
InRun ==
  /\ (clock - now) % Wrap = busy
  /\ \A t \in Task : age[t] <= SoFar(t) + busy
  /\ \A t \in 1 .. task - 1 : SoFar(t) <= Interval[t]
  /\ at # "tasks" => task \in Task

PaceType ==
  /\ {clock, loopTime, now} \subseteq 0 .. Wrap - 1
  /\ lastTime \in [Task -> 0 .. Wrap - 1]
  /\ age \in [Task -> 0 .. Wrap + Longest]
  /\ busy \in 0 .. Longest /\ task \in 1 .. Len(Interval) + 1

PaceInv ==
  /\ PaceType
  /\ at \notin Places => loopTime = 0 /\ \A t \in Task : age[t] = 0
  /\ at = "idle" => Paced \/ (loopTime = 0 /\ \A t \in Task : age[t] = 0)
  /\ at \in Running => InRun

LEMMA InitPace == Init => PaceInv
<1> SUFFICES ASSUME Init PROVE PaceInv
  OBVIOUS
<1>1. at = "storage" /\ at \notin Running
  BY StageNames DEF Init, InitBoot, Running
<1>2. PaceType /\ loopTime = 0 /\ \A t \in Task : age[t] = 0
  BY Bounds, Short DEF Init, PaceType
<1> QED
  BY <1>1, <1>2 DEF PaceInv

\* A tick of a run: a time later for all ages, and for none of the distances.
LEMMA RunTicks ==
  ASSUME PaceType, InRun, at \in Running, at # "tasks", at' \in Running, busy < Longest,
         clock' = (clock + 1) % Wrap, busy' = busy + 1,
         age' = [t \in Task |-> age[t] + 1],
         UNCHANGED <<loopTime, lastTime, now, task>>
  PROVE  PaceType' /\ InRun'
<1>0. /\ clock \in 0 .. Wrap - 1 /\ now \in 0 .. Wrap - 1 /\ loopTime \in 0 .. Wrap - 1
      /\ lastTime \in [Task -> 0 .. Wrap - 1] /\ age \in [Task -> 0 .. Wrap + Longest]
      /\ busy \in 0 .. Longest /\ task \in Task /\ Longest < Wrap
  BY Short, Bounds DEF PaceType, InRun
<1>1. clock' \in 0 .. Wrap - 1 /\ (clock' - now') % Wrap = busy'
  <2>1. (clock - now) % Wrap = busy /\ busy + 1 < Wrap
    BY <1>0, Short, Bounds DEF InRun
  <2>2. (clock + 1) % Wrap \in 0 .. Wrap - 1
    BY <1>0, Bounds, Distance
  <2>3. (((clock + 1) % Wrap) - now) % Wrap = busy + 1
    BY <1>0, <2>1, Bounds, Distance
  <2> QED
    BY <2>2, <2>3
<1>2. \A t \in Task : SoFar(t) \in 0 .. Wrap - 1 /\ SoFar(t)' = SoFar(t)
  <2> TAKE t \in Task
  <2>1. lastTime[t] \in 0 .. Wrap - 1
    BY <1>0
  <2>2. (now - lastTime[t]) % Wrap \in 0 .. Wrap - 1
    BY <1>0, <2>1, Bounds, Distance
  <2> QED
    BY <2>2 DEF SoFar
<1>3. \A t \in Task : age'[t] = age[t] + 1 /\ age'[t] <= SoFar(t) + busy'
  <2> TAKE t \in Task
  <2>1. SoFar(t) \in 0 .. Wrap - 1 /\ age[t] <= SoFar(t) + busy /\ age[t] \in Nat
    BY <1>0, <1>2, Bounds, Short DEF InRun
  <2> HIDE DEF SoFar
  <2> QED
    BY <1>0, <2>1, Short, Bounds
<1>4. age' \in [Task -> 0 .. Wrap + Longest]
  <2>1. \A t \in Task : age[t] + 1 \in 0 .. Wrap + Longest
    <3> TAKE t \in Task
    <3>1. SoFar(t) \in 0 .. Wrap - 1 /\ age[t] + 1 <= SoFar(t) + (busy + 1)
      BY <1>2, <1>3
    <3>2. age[t] \in 0 .. Wrap + Longest
      BY <1>0
    <3> HIDE DEF SoFar
    <3> QED
      BY <1>0, <3>1, <3>2, Bounds, Short
  <2> QED
    BY <2>1
<1>5. InRun'
  <2>1. \A t \in 1 .. task - 1 : SoFar(t)' <= Interval[t]
    <3>1. 1 .. task - 1 \subseteq Task
      BY <1>0, Short
    <3> QED
      BY <1>2, <3>1 DEF InRun
  <2>2. \A t \in Task : age'[t] <= SoFar(t)' + busy'
    BY <1>2, <1>3
  <2> QED
    BY <1>0, <1>1, <2>1, <2>2 DEF InRun
<1>6. PaceType'
  BY <1>0, <1>1, <1>4, Short DEF PaceType
<1> QED
  BY <1>5, <1>6

\* A tick of the pause.
LEMMA IdleTicks == PaceInv /\ Idle => PaceInv'
<1> SUFFICES ASSUME PaceInv, Idle PROVE PaceInv'
  OBVIOUS
<1> DEFINE d == (clock - loopTime) % Wrap
<1>0. /\ clock \in 0 .. Wrap - 1 /\ now \in 0 .. Wrap - 1 /\ loopTime \in 0 .. Wrap - 1
      /\ lastTime \in [Task -> 0 .. Wrap - 1] /\ age \in [Task -> 0 .. Wrap + Longest]
      /\ busy \in 0 .. Longest /\ task \in 1 .. Len(Interval) + 1
  BY DEF PaceInv, PaceType
<1>1. /\ at = "idle" /\ at' = "idle" /\ clock' = (clock + 1) % Wrap
      /\ age' = [t \in Task |-> age[t] + 1]
      /\ UNCHANGED <<loopTime, now, lastTime, task, busy>> /\ ~LoopDue
  BY DEF Idle, Elapses, Goes
<1>2. d \in 0 .. Wrap - 1 /\ d < LoopInterval /\ loopTime # 0
  <2>1. d \in 0 .. Wrap - 1
    BY <1>0, Bounds, Distance
  <2>2. ~(d >= LoopInterval) /\ loopTime # 0
    BY <1>1 DEF LoopDue
  <2> HIDE DEF d
  <2> QED
    BY <2>1, <2>2, Bounds
<1>3. clock' \in 0 .. Wrap - 1 /\ d' = d + 1
  <2>1. d + 1 < Wrap
    BY <1>2, Bounds
  <2>2. /\ (clock + 1) % Wrap \in 0 .. Wrap - 1
        /\ (((clock + 1) % Wrap) - loopTime) % Wrap = d + 1
    BY <1>0, <2>1, Bounds, Distance
  <2> QED
    BY <1>1, <2>2
<1>4. Paced
  BY <1>1, <1>2 DEF PaceInv
<1>5. \A t \in Task : /\ Since(t) \in 0 .. Wrap - 1 /\ Since(t)' = Since(t)
                      /\ Since(t) <= Interval[t] /\ age[t] <= Since(t) + d
                      /\ age'[t] = age[t] + 1
  BY <1>0, <1>1, <1>4, Bounds, Distance DEF Since, Paced
<1>6. Paced'
  <2>1. d' <= LoopInterval
    <3> HIDE DEF d
    <3> QED
      BY <1>2, <1>3, Bounds
  <2>2. \A t \in Task : Since(t)' <= Interval[t] /\ age'[t] <= Since(t)' + d'
    <3> TAKE t \in Task
    <3>1. /\ Since(t) \in 0 .. Wrap - 1 /\ age[t] \in 0 .. Wrap + Longest
          /\ age[t] <= Since(t) + d /\ d' = d + 1 /\ age'[t] = age[t] + 1
      BY <1>0, <1>3, <1>5
    <3>2. age[t] + 1 <= Since(t) + (d + 1)
      <4> HIDE DEF d, Since
      <4> QED
        BY <1>2, <3>1, Bounds, Short
    <3> QED
      BY <1>5, <3>1, <3>2
  <2> QED
    BY <2>1, <2>2 DEF Paced
<1>7. age' \in [Task -> 0 .. Wrap + Longest]
  <2>1. \A t \in Task : age[t] + 1 \in 0 .. Wrap + Longest
    <3> TAKE t \in Task
    <3>1. /\ Since(t) \in 0 .. Wrap - 1 /\ age[t] \in 0 .. Wrap + Longest
          /\ age[t] <= Since(t) + d
      BY <1>0, <1>5
    <3> HIDE DEF d, Since
    <3> QED
      BY <1>2, <3>1, Short, Bounds
  <2> QED
    BY <1>1, <2>1
<1> QED
  BY <1>0, <1>1, <1>3, <1>6, <1>7 DEF PaceInv, PaceType, Running, Places

\* A run begins: what was a distance to the last run is one to this run.
LEMMA RunBeginsPace == PaceInv /\ RunBegins => PaceInv'
<1> SUFFICES ASSUME PaceInv, RunBegins PROVE PaceInv'
  OBVIOUS
<1>0. /\ clock \in 0 .. Wrap - 1 /\ now \in 0 .. Wrap - 1 /\ loopTime \in 0 .. Wrap - 1
      /\ lastTime \in [Task -> 0 .. Wrap - 1] /\ age \in [Task -> 0 .. Wrap + Longest]
      /\ busy \in 0 .. Longest
  BY DEF PaceInv, PaceType
<1>1. /\ at = "idle" /\ at' = "tasks" /\ now' = clock /\ busy' = 0 /\ task' = 1
      /\ UNCHANGED <<clock, loopTime, lastTime, age>>
  BY DEF RunBegins, Goes
<1>2. \A t \in Task : /\ (clock - lastTime[t]) % Wrap \in 0 .. Wrap - 1
                      /\ age[t] <= (clock - lastTime[t]) % Wrap
  <2> TAKE t \in Task
  <2>0. lastTime[t] \in 0 .. Wrap - 1 /\ age[t] \in 0 .. Wrap + Longest
    BY <1>0
  <2>1. (clock - lastTime[t]) % Wrap \in 0 .. Wrap - 1
    BY <1>0, <2>0, Bounds, Distance
  <2>2. CASE age[t] = 0
    BY <2>1, <2>2
  <2>3. CASE Paced
    <3> DEFINE d == (clock - loopTime) % Wrap
               e == (loopTime - lastTime[t]) % Wrap
    <3>1. d \in 0 .. Wrap - 1 /\ e \in 0 .. Wrap - 1
      BY <1>0, <2>0, Bounds, Distance
    <3>2. (d <= LoopInterval \/ d <= busy) /\ e <= Interval[t] /\ age[t] <= e + d
      BY <2>3 DEF Paced, Since
    <3>3. d + e < Wrap
      <4> HIDE DEF d, e
      <4> QED
        BY <1>0, <3>1, <3>2, Short, Bounds
    <3>4. (clock - lastTime[t]) % Wrap = d + e
      <4>1. Wrap \in Nat \ {0}
        BY Bounds
      <4>2. \A c, x, l \in 0 .. Wrap - 1 :
              ((c - x) % Wrap) + ((x - l) % Wrap) < Wrap =>
                (c - l) % Wrap = ((c - x) % Wrap) + ((x - l) % Wrap)
        BY <4>1, Additive
      <4>3. ((clock - loopTime) % Wrap) + ((loopTime - lastTime[t]) % Wrap) < Wrap
        BY <3>3
      <4> QED
        BY <1>0, <2>0, <4>2, <4>3, Zenon
    <3> QED
      <4> HIDE DEF d, e
      <4> QED
        BY <2>0, <2>1, <3>1, <3>2, <3>4
  <2> QED
    BY <1>1, <2>2, <2>3 DEF PaceInv
<1>3. (clock' - now') % Wrap = busy'
  BY <1>0, <1>1, Bounds, Apart
<1>4. \A t \in Task : age'[t] <= SoFar(t)' + busy'
  <2> TAKE t \in Task
  <2>1. age'[t] = age[t] /\ SoFar(t)' = (clock - lastTime[t]) % Wrap
    BY <1>1 DEF SoFar
  <2> QED
    BY <1>1, <1>2, <2>1
<1>5. InRun'
  BY <1>1, <1>3, <1>4 DEF InRun
<1> QED
  BY <1>0, <1>1, <1>5, Short DEF PaceInv, PaceType, Places, Running

\* A task is over, or is not due: the next one is looked at.
LEMMA NextTaskPace ==
  ASSUME PaceType, InRun, at \in Running, task \in Task, at' = "tasks", task' = task + 1,
         UNCHANGED <<clock, loopTime, now, busy>>,
         \/ /\ lastTime' = [lastTime EXCEPT ![task] = now] /\ age' = [age EXCEPT ![task] = busy]
         \/ UNCHANGED <<lastTime, age>> /\ ~Due(task)
  PROVE  PaceType' /\ InRun'
<1>0. /\ clock \in 0 .. Wrap - 1 /\ now \in 0 .. Wrap - 1 /\ loopTime \in 0 .. Wrap - 1
      /\ lastTime \in [Task -> 0 .. Wrap - 1] /\ age \in [Task -> 0 .. Wrap + Longest]
      /\ busy \in 0 .. Longest
  BY DEF PaceType
<1>1. PaceType'
  <2>1. lastTime' \in [Task -> 0 .. Wrap - 1]
    BY <1>0
  <2>2. busy \in 0 .. Wrap + Longest
    BY <1>0, Short, Bounds
  <2>3. age' \in [Task -> 0 .. Wrap + Longest]
    BY <1>0, <2>2
  <2>4. task' \in 1 .. Len(Interval) + 1
    BY Short
  <2> QED
    BY <1>0, <2>1, <2>3, <2>4 DEF PaceType
<1>2. \A t \in Task : SoFar(t) \in 0 .. Wrap - 1
  <2> TAKE t \in Task
  <2>1. lastTime[t] \in 0 .. Wrap - 1
    BY <1>0
  <2>2. (now - lastTime[t]) % Wrap \in 0 .. Wrap - 1
    BY <1>0, <2>1, Bounds, Distance
  <2> QED
    BY <2>2 DEF SoFar
<1>3. \A t \in Task : t # task => SoFar(t)' = SoFar(t) /\ age'[t] = age[t]
  BY <1>0 DEF SoFar
<1>4. ASSUME NEW t \in Task, t = task
      PROVE  SoFar(t)' <= Interval[t] /\ age'[t] <= SoFar(t)' + busy
  <2>1. CASE lastTime' = [lastTime EXCEPT ![task] = now] /\ age' = [age EXCEPT ![task] = busy]
    <3>1. (now - now) % Wrap = 0
      BY <1>0, Bounds, Apart
    <3>2. lastTime'[t] = now /\ age'[t] = busy
      BY <1>0, <1>4, <2>1
    <3>3. SoFar(t)' = 0
      BY <3>1, <3>2 DEF SoFar
    <3>4. Interval[t] \in Nat /\ busy \in Nat
      BY <1>0, Short
    <3> QED
      BY <3>2, <3>3, <3>4
  <2>2. CASE UNCHANGED <<lastTime, age>> /\ ~Due(task)
    <3>1. SoFar(t)' = SoFar(t) /\ ~(SoFar(t) >= Interval[t])
      BY <1>4, <2>2 DEF SoFar, Due
    <3>2. SoFar(t) \in 0 .. Wrap - 1 /\ Interval[t] \in Nat
      BY <1>2, Short
    <3>3. age'[t] <= SoFar(t) + busy
      BY <2>2 DEF InRun
    <3>4. SoFar(t) <= Interval[t]
      <4> HIDE DEF SoFar
      <4> QED
        BY <3>1, <3>2, Bounds
    <3> QED
      BY <3>1, <3>3, <3>4
  <2> QED
    BY <2>1, <2>2
<1>5. \A t \in Task : age'[t] <= SoFar(t)' + busy'
  <2> TAKE t \in Task
  <2>1. CASE t = task
    BY <1>4, <2>1
  <2>2. CASE t # task
    <3>1. SoFar(t)' = SoFar(t) /\ age'[t] = age[t] /\ age[t] <= SoFar(t) + busy
      BY <1>3, <2>2 DEF InRun
    <3> QED
      BY <3>1
  <2> QED
    BY <2>1, <2>2
<1>6. \A t \in 1 .. task' - 1 : SoFar(t)' <= Interval[t]
  <2> TAKE t \in 1 .. task' - 1
  <2>1. t \in Task /\ (t = task \/ t \in 1 .. task - 1)
    BY Short
  <2>2. CASE t = task
    BY <1>4, <2>1, <2>2
  <2>3. CASE t # task
    <3>1. SoFar(t)' = SoFar(t) /\ SoFar(t) <= Interval[t]
      BY <1>3, <2>1, <2>3 DEF InRun
    <3> QED
      BY <3>1
  <2> QED
    BY <2>2, <2>3
<1>7. (clock' - now') % Wrap = busy'
  BY DEF InRun
<1> QED
  BY <1>1, <1>5, <1>6, <1>7 DEF InRun

\* The run is over: its tasks are as old as it is.
LEMMA RunEndsPace == PaceInv /\ RunEnds => PaceInv'
<1> SUFFICES ASSUME PaceInv, RunEnds PROVE PaceInv'
  OBVIOUS
<1>1. /\ at = "tasks" /\ at' = "idle" /\ loopTime' = now /\ task > Len(Interval)
      /\ UNCHANGED <<clock, lastTime, now, task, busy, age>>
  BY DEF RunEnds, Goes
<1>2. PaceType /\ InRun
  BY <1>1 DEF PaceInv, Running
<1>3. 1 .. task - 1 = Task
  <2>1. task \in 1 .. Len(Interval) + 1 /\ Len(Interval) \in Nat
    BY <1>2, Short DEF PaceType
  <2>2. task = Len(Interval) + 1
    BY <1>1, <2>1
  <2>3. task - 1 = Len(Interval)
    BY <2>1, <2>2
  <2> QED
    BY <2>3, Short
<1>4. (clock' - loopTime') % Wrap = busy'
  BY <1>1, <1>2 DEF InRun
<1>5. \A t \in Task : Since(t)' = SoFar(t) /\ age'[t] = age[t]
  BY <1>1 DEF Since, SoFar
<1>6. \A t \in Task : SoFar(t) <= Interval[t] /\ age[t] <= SoFar(t) + busy
  BY <1>2, <1>3 DEF InRun
<1>7. busy' <= busy'
  BY <1>1, <1>2, Short DEF PaceType
<1>8. \A t \in Task : Since(t)' <= Interval[t] /\ age'[t] <= Since(t)' + busy'
  BY <1>1, <1>5, <1>6
<1>9. Paced'
  BY <1>4, <1>7, <1>8 DEF Paced
<1> QED
  BY <1>1, <1>2, <1>9 DEF PaceInv, PaceType, Places, Running

\* Where time stands still, and the run does not go on.
LEMMA StillPace ==
  ASSUME PaceInv, UNCHANGED loopVars,
         \/ at' = at
         \/ at' \notin Running \cup {"idle"} /\ at' \in Places
         \/ at \in Running \ {"tasks"} /\ at' \in Running \ {"tasks"}
         \/ at = "tasks" /\ at' = "working" /\ task \in Task
         \/ at \notin Places /\ at' \notin Places
  PROVE  PaceInv'
<1>1. PaceType'
  BY DEF PaceInv, PaceType, loopVars
<1>2. InRun /\ (at' = at \/ task \in Task) => InRun'
  BY DEF InRun, SoFar, loopVars
<1>3. Paced => Paced'
  BY DEF Paced, Since, loopVars
<1>4. at \in Running \ {"tasks"} => task \in Task
  BY DEF PaceInv, InRun
<1>5. \A t \in Task : age'[t] = age[t]
  BY DEF loopVars
<1>6. loopTime' = loopTime
  BY DEF loopVars
<1> QED
  BY <1>1, <1>2, <1>3, <1>4, <1>5, <1>6 DEF PaceInv, Running, Places

LEMMA NextPace == ReadyInv /\ PaceInv /\ [Next]_vars => PaceInv'
<1> SUFFICES ASSUME ReadyInv, PaceInv, [Next]_vars PROVE PaceInv'
  OBVIOUS
<1>1. CASE (SetUpStep \/ PerformReset) /\ UNCHANGED <<loopVars, lines>>
  <2>1. CASE SetUpStep
    <3>1. at \notin Places /\ (at' \notin Places \/ at' = "reset")
      BY <2>1, SetUpSteps
    <3> QED
      BY <1>1, <3>1, StillPace DEF Places, Running
  <2>2. CASE PerformReset
    <3>1. at = "reset" /\ at' = "reset"
      BY <2>2, ResetReady DEF PerformReset
    <3> QED
      BY <1>1, <3>1, StillPace
  <2> QED
    BY <1>1, <2>1, <2>2
<1>2. CASE EnableWatchdog
  <2>1. /\ at = "watchdog" /\ at' = "idle" /\ clock' \in 0 .. Wrap - 1
        /\ UNCHANGED <<loopTime, lastTime, now, task, busy, age>>
    BY <1>2, MainLoopAssumption, Bounds DEF EnableWatchdog
  <2>2. loopTime = 0 /\ \A t \in Task : age[t] = 0
    BY <2>1 DEF PaceInv, Places
  <2>3. PaceType'
    BY <2>1 DEF PaceInv, PaceType
  <2> QED
    BY <2>1, <2>2, <2>3 DEF PaceInv, Places, Running
<1>3. CASE Bites \/ PowerFails
  <2>1. /\ at' = "storage" /\ clock' = 0 /\ loopTime' = 0 /\ now' = 0 /\ busy' = 0 /\ task' = 1
        /\ lastTime' = [t \in Task |-> 0] /\ age' = [t \in Task |-> 0]
    BY <1>3, StageNames DEF Bites, PowerFails, Restart, LoopStarts
  <2>2. PaceType'
    BY <2>1, Bounds, Short DEF PaceType
  <2>3. at' \notin Running /\ at' # "idle"
    BY <2>1 DEF Running
  <2>4. \A t \in Task : age'[t] = 0
    BY <2>1
  <2> QED
    BY <2>1, <2>2, <2>3, <2>4 DEF PaceInv
<1>4. CASE Idle
  BY <1>4, IdleTicks
<1>5. CASE RunBegins
  BY <1>5, RunBeginsPace
<1>6. CASE Executes
  BY <1>6, StillPace, Short DEF Executes, Goes, PaceInv, PaceType
<1>7. CASE TaskEnds \/ Skips
  <2>1. PaceType /\ InRun /\ at \in Running /\ task \in Task
    BY <1>7, Short DEF TaskEnds, Skips, PaceInv, InRun, Running, PaceType
  <2>2. /\ at' = "tasks" /\ task' = task + 1 /\ UNCHANGED <<clock, loopTime, now, busy>>
        /\ \/ /\ lastTime' = [lastTime EXCEPT ![task] = now]
              /\ age' = [age EXCEPT ![task] = busy]
           \/ UNCHANGED <<lastTime, age>> /\ ~Due(task)
    BY <1>7 DEF TaskEnds, Skips, Goes, bootVars
  <2>3. PaceType' /\ InRun'
    BY <2>1, <2>2, NextTaskPace
  <2> QED
    BY <2>2, <2>3 DEF PaceInv, Places
<1>8. CASE RunEnds
  BY <1>8, RunEndsPace
<1>9. CASE Blocks \/ Waits
  <2>1. /\ at \in Running \ {"tasks"} /\ at' \in Running \ {"tasks"}
        /\ clock' = (clock + 1) % Wrap /\ busy' = busy + 1
        /\ age' = [t \in Task |-> age[t] + 1]
        /\ UNCHANGED <<loopTime, lastTime, now, task>>
    BY <1>9 DEF Blocks, Waits, Elapses, Goes, Running
  <2>2. PaceType /\ InRun /\ busy < Longest
    BY <1>9, <2>1, Short DEF Blocks, Waits, PaceInv, PaceType
  <2>3. PaceType' /\ InRun'
    BY <2>1, <2>2, RunTicks
  <2> QED
    BY <2>1, <2>3 DEF PaceInv, Places, Running
<1>10. CASE Logs \/ AppendsLine
  <2>1. at \in Running \ {"tasks"} /\ at' \in Running \ {"tasks"} /\ UNCHANGED loopVars
    BY <1>10 DEF Logs, AppendsLine, Running
  <2> QED
    BY <2>1, StillPace
<1>11. CASE Sleeps \/ Wakes \/ Returns
  <2>1. /\ at \in Running \ {"tasks"} /\ UNCHANGED loopVars
        /\ at' \in Running \ {"tasks"} \/ at' = "off"
    BY <1>11 DEF Sleeps, Wakes, Returns, Goes, Running
  <2> QED
    BY <2>1, StillPace DEF Running, Places
<1>12. CASE TaskFails
  BY <1>12, StillPace DEF TaskFails, HandleError, Running, Places
<1>13. CASE UNCHANGED vars
  BY <1>13, StillPace DEF vars, bootVars
<1> QED
  BY <1>1, <1>2, <1>3, <1>4, <1>5, <1>6, <1>7, <1>8, <1>9, <1>10, <1>11, <1>12, <1>13
  DEF Next, Thread

\* A task that is due is executed: none is older between two runs than its
\* interval and the time that a run or the pause takes, for intervals that
\* are short against the width of millis(), and wherever that starts again
\* (TaskScheduler.cpp:10-27, prod_main.cpp:137-145).
THEOREM AlwaysPunctual == Spec => []Punctual
<1>1. PaceInv => Punctual
  <2> SUFFICES ASSUME PaceInv, at = "idle", NEW t \in Task
               PROVE  age[t] <= Interval[t] + (IF busy > LoopInterval THEN busy ELSE LoopInterval)
    BY DEF Punctual
  <2> DEFINE d == (clock - loopTime) % Wrap
             e == Since(t)
  <2>0. /\ clock \in 0 .. Wrap - 1 /\ loopTime \in 0 .. Wrap - 1 /\ lastTime[t] \in 0 .. Wrap - 1
        /\ age[t] \in 0 .. Wrap + Longest /\ busy \in 0 .. Longest
    BY DEF PaceInv, PaceType
  <2>1. d \in 0 .. Wrap - 1 /\ (loopTime - lastTime[t]) % Wrap \in 0 .. Wrap - 1
    BY <2>0, Bounds, Distance
  <2>2. \/ age[t] = 0
        \/ (d <= LoopInterval \/ d <= busy) /\ e <= Interval[t] /\ age[t] <= e + d
    BY DEF PaceInv, Paced
  <2>3. d \in Nat /\ e \in Nat
    BY <2>1, Bounds DEF Since
  <2>4. age[t] \in Nat /\ busy \in Nat /\ Interval[t] \in Nat /\ LoopInterval \in Nat
    BY <2>0, Short, Bounds
  <2> HIDE DEF d, e
  <2>5. CASE age[t] = 0
    BY <2>4, <2>5
  <2>6. CASE (d <= LoopInterval \/ d <= busy) /\ e <= Interval[t] /\ age[t] <= e + d
    <3>1. d <= (IF busy > LoopInterval THEN busy ELSE LoopInterval)
      BY <2>3, <2>4, <2>6
    <3> QED
      BY <2>3, <2>4, <2>6, <3>1
  <2> QED
    BY <2>2, <2>5, <2>6
<1> QED
  BY InitReady, NextReady, InitPace, NextPace, <1>1, PTL DEF Spec

-----------------------------------------------------------------------------
(* The calls of the logger that nest. *)

\* A set of numbers up to n has a greatest one.
LEMMA Greatest ==
  ASSUME NEW n \in Nat, NEW S \in SUBSET (0 .. n), S # {}
  PROVE  \E k \in S : \A j \in S : j <= k
<1> DEFINE R == OpToRel(<, Nat)
           T == {n - k : k \in S}
<1>1. T \subseteq Nat /\ T # {}
  <2>1. \A k \in S : n - k \in Nat
    OBVIOUS
  <2>2. PICK k \in S : TRUE
    OBVIOUS
  <2>3. n - k \in T
    BY <2>2
  <2> QED
    BY <2>1, <2>3
<1>2. PICK x \in T : \A y \in T : ~ (<<y, x>> \in R)
  BY <1>1, NatLessThanWellFounded, WFMin
<1>3. \A y \in T : x <= y
  <2> TAKE y \in T
  <2>1. x \in Nat /\ y \in Nat
    BY <1>1, <1>2
  <2>2. <<y, x>> \notin {ss \in Nat \X Nat : ss[1] < ss[2]}
    BY <1>2 DEF OpToRel
  <2>3. ~(y < x)
    <3> HIDE DEF T
    <3> QED
      BY <2>1, <2>2
  <2> QED
    BY <2>1, <2>3
<1>4. PICK k \in S : x = n - k
  BY <1>2
<1>5. \A j \in S : n - k <= n - j
  BY <1>3, <1>4
<1> QED
  BY <1>4, <1>5

LEMMA UnwoundType ==
  ASSUME NEW calls \in Seq(0 .. 2)
  PROVE  /\ Unwound(calls) \in Seq(0 .. 2) /\ Len(Unwound(calls)) <= Len(calls)
         /\ Unwound(calls) # <<>> => Unwound(calls)[Len(Unwound(calls))] # 0
         /\ \A i \in 1 .. Len(calls) :
              IF i <= Len(Unwound(calls)) THEN Unwound(calls)[i] = calls[i] ELSE calls[i] = 0
<1> DEFINE n == Len(calls)
           done == {i \in 1 .. n : \A j \in i .. n : calls[j] = 0}
           open == {i \in 0 .. n : i = 0 \/ calls[i] # 0}
<1>0. n \in Nat /\ \A i \in 1 .. n : calls[i] \in 0 .. 2
  OBVIOUS
<1>1. PICK k \in open : \A j \in open : j <= k
  <2>1. open \in SUBSET (0 .. n) /\ 0 \in open
    BY <1>0
  <2> HIDE DEF open
  <2> QED
    BY <1>0, <2>1, Greatest
<1>2. k \in 0 .. n /\ (k = 0 \/ calls[k] # 0)
  BY <1>1
<1>3. done = k + 1 .. n
  BY <1>0, <1>1, <1>2
<1>4. Cardinality(done) = n - k
  <2>1. k + 1 \in Int /\ n \in Int
    BY <1>0, <1>2
  <2>2. Cardinality(k + 1 .. n) = IF k + 1 > n THEN 0 ELSE (n - (k + 1)) + 1
    BY <2>1, FS_Interval
  <2> HIDE DEF done
  <2> QED
    BY <1>0, <1>2, <1>3, <2>2
<1>5. Unwound(calls) = SubSeq(calls, 1, k)
  <2>1. Unwound(calls) = SubSeq(calls, 1, n - Cardinality(done))
    BY DEF Unwound
  <2> HIDE DEF done, n
  <2>2. n - Cardinality(done) = k
    BY <1>0, <1>2, <1>4
  <2> QED
    BY <2>1, <2>2
<1>6. /\ SubSeq(calls, 1, k) \in Seq(0 .. 2) /\ Len(SubSeq(calls, 1, k)) = k
      /\ \A i \in 1 .. k : SubSeq(calls, 1, k)[i] = calls[i]
  BY <1>0, <1>2
<1>7. \A i \in 1 .. n : i <= k \/ calls[i] = 0
  BY <1>0, <1>1, <1>2
<1>8. \A i \in 1 .. n : i <= k => i \in 1 .. k
  BY <1>0, <1>2
<1> HIDE DEF n, open, done
<1>9. Len(Unwound(calls)) = k
  BY <1>5, <1>6
<1>10. \A i \in 1 .. n : IF i <= k THEN Unwound(calls)[i] = calls[i] ELSE calls[i] = 0
  BY <1>5, <1>6, <1>7, <1>8
<1>11. Unwound(calls) # <<>> => Unwound(calls)[k] # 0
  BY <1>0, <1>2, <1>5, <1>6
<1>12. Unwound(calls) \in Seq(0 .. 2) /\ k <= n
  BY <1>0, <1>2, <1>5, <1>6
<1> QED
  BY <1>9, <1>10, <1>11, <1>12 DEF n

\* A call that goes on has an append left.
LinesInv ==
  /\ lines \in Seq(0 .. 2) /\ Len(lines) <= StackLimit
  /\ at = "logging" => lines # <<>> /\ lines[Len(lines)] # 0

LEMMA InitLines == Init => LinesInv
  BY MainLoopAssumption, StageNames DEF Init, InitBoot, LinesInv

LEMMA AppendsLineLines == LinesInv /\ AppendsLine => LinesInv'
<1> SUFFICES ASSUME LinesInv, AppendsLine PROVE LinesInv'
  OBVIOUS
<1> DEFINE taken == [lines EXCEPT ![Len(lines)] = @ - 1]
<1>0. /\ StackLimit \in Nat \ {0} /\ lines \in Seq(0 .. 2) /\ Len(lines) <= StackLimit
      /\ lines # <<>> /\ lines[Len(lines)] # 0
  BY MainLoopAssumption DEF LinesInv, AppendsLine
<1>1. taken \in Seq(0 .. 2) /\ Len(taken) = Len(lines)
  BY <1>0
<1>2. CASE lines' = Unwound(taken) /\ at' = IF lines' = <<>> THEN "working" ELSE "logging"
  <2> HIDE DEF taken
  <2>1. /\ Unwound(taken) \in Seq(0 .. 2) /\ Len(Unwound(taken)) <= Len(taken)
        /\ Unwound(taken) # <<>> => Unwound(taken)[Len(Unwound(taken))] # 0
    BY <1>1, UnwoundType
  <2>2. lines' \in Seq(0 .. 2) /\ Len(lines') <= StackLimit
    BY <1>0, <1>1, <1>2, <2>1
  <2> QED
    BY <1>2, <2>1, <2>2 DEF LinesInv
<1>3. CASE Len(lines) < StackLimit /\ lines' = Append(taken, 2) /\ at' = "logging"
  <2> HIDE DEF taken
  <2>1. /\ Append(taken, 2) \in Seq(0 .. 2) /\ Len(Append(taken, 2)) = Len(taken) + 1
        /\ Append(taken, 2)[Len(taken) + 1] = 2
    BY <1>1
  <2> QED
    BY <1>0, <1>1, <1>3, <2>1 DEF LinesInv
<1>4. CASE lines' = <<>> /\ at' = "hung"
  BY <1>0, <1>4 DEF LinesInv
<1> QED
  BY <1>2, <1>3, <1>4 DEF AppendsLine

LEMMA NextLines == ReadyInv /\ LinesInv /\ [Next]_vars => LinesInv'
<1> SUFFICES ASSUME ReadyInv, LinesInv, [Next]_vars PROVE LinesInv'
  OBVIOUS
<1>1. CASE AppendsLine
  BY <1>1, AppendsLineLines
<1>2. CASE Logs
  BY <1>2, MainLoopAssumption DEF Logs, LinesInv
<1>3. CASE Bites \/ PowerFails
  <2>1. lines' = <<>> /\ at' = "storage"
    BY <1>3, StageNames DEF Bites, PowerFails, Restart, LoopStarts
  <2> QED
    BY <2>1, MainLoopAssumption DEF LinesInv
<1>4. CASE (SetUpStep \/ PerformReset) /\ UNCHANGED <<loopVars, lines>>
  <2>1. at' # "logging"
    BY <1>4, SetUpSteps, ResetReady DEF Places
  <2> QED
    BY <1>4, <2>1 DEF LinesInv
<1>5. CASE ~AppendsLine /\ ~Logs /\ ~Bites /\ ~PowerFails
           /\ ~((SetUpStep \/ PerformReset) /\ UNCHANGED <<loopVars, lines>>)
  <2>1. UNCHANGED lines /\ (at' = at \/ at' # "logging")
    BY <1>5
    DEF Next, Thread, EnableWatchdog, Idle, RunBegins, Executes, Skips, TaskEnds, RunEnds, Blocks,
        Waits, Returns, Sleeps, Wakes, TaskFails, HandleError, Goes, vars, bootVars
  <2> QED
    BY <2>1 DEF LinesInv
<1> QED
  BY <1>1, <1>2, <1>3, <1>4, <1>5

-----------------------------------------------------------------------------
(* The nest of calls of the logger comes to an end. *)

\* What the i-th call of the nest has left to append.
LeftAt(i) == IF i <= Len(lines) THEN lines[i] ELSE 0

\* One call has an append less, and those around it as many as before.
Unwinds ==
  \E n \in 1 .. StackLimit :
     /\ LeftAt(n)' < LeftAt(n)
     /\ \A i \in 1 .. n - 1 : LeftAt(i)' = LeftAt(i)

LEMMA AppendsLineUnwinds == LinesInv /\ AppendsLine /\ at' = "logging" => Unwinds
<1> SUFFICES ASSUME LinesInv, AppendsLine, at' = "logging" PROVE Unwinds
  OBVIOUS
<1> DEFINE taken == [lines EXCEPT ![Len(lines)] = @ - 1]
<1>0. /\ StackLimit \in Nat \ {0} /\ lines \in Seq(0 .. 2) /\ Len(lines) \in 1 .. StackLimit
      /\ lines[Len(lines)] \in 1 .. 2
  BY MainLoopAssumption DEF LinesInv, AppendsLine
<1>1. PICK n \in 1 .. StackLimit : n = Len(lines)
  BY <1>0
<1>2. /\ taken \in Seq(0 .. 2) /\ Len(taken) = n /\ taken[n] = lines[n] - 1
      /\ \A i \in 1 .. n - 1 : taken[i] = lines[i]
  BY <1>0, <1>1
<1>3. lines' = Unwound(taken) \/ lines' = Append(taken, 2)
  BY DEF AppendsLine
<1>4. \A i \in 1 .. n : LeftAt(i) = lines[i]
  BY <1>1 DEF LeftAt
<1> HIDE DEF taken
<1>5. \A i \in 1 .. n : LeftAt(i)' = taken[i]
  <2>1. CASE lines' = Unwound(taken)
    BY <1>2, <2>1, UnwoundType DEF LeftAt
  <2>2. CASE lines' = Append(taken, 2)
    <3>1. Len(lines') = n + 1 /\ \A i \in 1 .. n : lines'[i] = taken[i]
      BY <1>1, <1>2, <2>2
    <3> QED
      BY <1>1, <3>1 DEF LeftAt
  <2> QED
    BY <1>3, <2>1, <2>2
<1>6. LeftAt(n)' < LeftAt(n)
  BY <1>0, <1>1, <1>2, <1>4, <1>5
<1>7. \A i \in 1 .. n - 1 : LeftAt(i)' = LeftAt(i)
  <2> SUFFICES ASSUME NEW i \in 1 .. n - 1 PROVE LeftAt(i)' = LeftAt(i)
    OBVIOUS
  <2>1. i \in 1 .. n
    BY <1>1
  <2> QED
    BY <1>2, <1>4, <1>5, <2>1
<1> QED
  BY <1>6, <1>7 DEF Unwinds

\* A log whose file does not open logs that as an error, in the same file, so
\* that the calls nest.  On a stack of any depth the nest ends: every step after
\* which it goes on takes an append from a call and gives none to those around
\* it, so that what they have left goes down in lexicographic order
\* (Logger::logError, SDStorageManager::appendBytesToFile).
THEOREM NestOfLogsUnwinds ==
  Spec => [][at = "logging" /\ at' = "logging" => Unwinds]_vars
<1>1. Init => ReadyInv /\ LinesInv
  BY InitReady, InitLines
<1>2. ReadyInv /\ LinesInv /\ [Next]_vars => (ReadyInv /\ LinesInv)'
  BY NextReady, NextLines
<1>3. ReadyInv /\ LinesInv /\ [Next]_vars => [at = "logging" /\ at' = "logging" => Unwinds]_vars
  <2> SUFFICES ASSUME ReadyInv, LinesInv, Next, at = "logging", at' = "logging" PROVE Unwinds
    OBVIOUS
  <2>1. CASE AppendsLine
    BY <2>1, AppendsLineUnwinds
  <2>2. CASE Bites \/ PowerFails
    BY <2>2, StageNames DEF Bites, PowerFails, Restart, LoopStarts
  <2>3. CASE (SetUpStep \/ PerformReset) /\ UNCHANGED <<loopVars, lines>>
    BY <2>3, SetUpSteps, ResetReady DEF Places
  <2>4. CASE ~AppendsLine /\ ~Bites /\ ~PowerFails
             /\ ~((SetUpStep \/ PerformReset) /\ UNCHANGED <<loopVars, lines>>)
    BY <2>4
    DEF Next, Thread, EnableWatchdog, Idle, RunBegins, Executes, Skips, TaskEnds, RunEnds, Blocks,
        Waits, Returns, Sleeps, Wakes, TaskFails, Logs, HandleError, Goes
  <2> QED
    BY <2>1, <2>2, <2>3, <2>4
<1> QED
  BY <1>1, <1>2, <1>3, PTL DEF Spec

-----------------------------------------------------------------------------
(* The types. *)

LEMMA StageSet ==
  /\ Len(Stages) = 18
  /\ ToSet(Stages) = {"storage", "gps", "fix", "queue", "modem", "removeRoots", "importRoots",
                      "removeKey", "loadKey", "removeCert", "loadCert", "list", "profile",
                      "mqtt", "iridium", "gauge", "runner", "watchdog"}
  /\ \A i \in 1 .. 18 : Stages[i] \in ToSet(Stages)
<1>1. DOMAIN Stages = 1 .. 18
  BY DEF Stages
<1>2. ToSet(Stages) = {Stages[i] : i \in 1 .. 18}
  BY <1>1 DEF ToSet
<1> QED
  BY <1>2 DEF Stages

LEMMA TriesType ==
  /\ \A s : Tries(s) \in 0 .. ModemRetries + MqttRetries + 1
  /\ GoOn => \E s : tries' = Tries(s)
<1>1. \A s : Tries(s) \in 0 .. ModemRetries + MqttRetries + 1
  BY BootAssumption DEF Tries
<1>2. GoOn => \E s : tries' = Tries(s)
  BY Zenon DEF GoOn, GoOnAfter
<1> QED
  BY <1>1, <1>2

\* The types of the set-up but for the stage, by parts.
BootType ==
  /\ tries \in 0 .. ModemRetries + MqttRetries + 1
  /\ failed \subseteq ToSet(Stages)
  /\ armed \in {0, ErrorTimeout, WatchdogTimeout} /\ unfed \in 0 .. armed
  /\ delayed \in 0 .. ErrorTimeout + 1
  /\ creds \subseteq Credentials /\ provisions \in BOOLEAN
  /\ faults \in 0 .. MaxFaults

LEMMA InitBootType == Init => BootType
<1> SUFFICES ASSUME Init PROVE BootType
  OBVIOUS
<1>1. /\ tries = 0 /\ failed = {} /\ armed = 0 /\ unfed = 0 /\ delayed = 0 /\ faults = 0
      /\ provisions \in BOOLEAN
  BY Zenon DEF Init, InitBoot
<1>2. creds \subseteq Credentials
  BY DEF Init, InitBoot
<1> QED
  BY <1>1, <1>2, BootAssumption DEF BootType

LEMMA FaultType == BootType /\ (UNCHANGED faults \/ Fault) => faults' \in 0 .. MaxFaults
  BY BootAssumption DEF BootType, Fault

\* An error leaves the watchdog with its short timeout.
LEMMA HandleType ==
  HandleError => /\ armed' \in {0, ErrorTimeout, WatchdogTimeout} /\ unfed' \in 0 .. armed'
                 /\ delayed' \in 0 .. ErrorTimeout + 1
  BY Bounds DEF HandleError

LEMMA StageType ==
  ASSUME BootType, NEW s \in ToSet(Stages), Succeeds \/ TriesAgain \/ Fails(s),
         UNCHANGED faults \/ Fault
  PROVE  BootType'
<1>0. /\ tries \in 0 .. ModemRetries + MqttRetries + 1 /\ failed \subseteq ToSet(Stages)
      /\ creds \subseteq Credentials /\ provisions \in BOOLEAN
      /\ armed \in {0, ErrorTimeout, WatchdogTimeout} /\ unfed \in 0 .. armed
      /\ delayed \in 0 .. ErrorTimeout + 1
  BY DEF BootType
<1>1. tries' \in 0 .. ModemRetries + MqttRetries + 1
  <2>1. CASE tries' = tries
    BY <1>0, <2>1
  <2>2. CASE GoOn
    BY <2>2, TriesType
  <2>3. CASE tries > 0 /\ tries' = tries - 1
    BY <1>0, <2>3, BootAssumption
  <2> QED
    BY <2>1, <2>2, <2>3 DEF Succeeds, TriesAgain, Fails
<1>2. failed' \subseteq ToSet(Stages)
  BY <1>0 DEF Succeeds, TriesAgain, Fails
<1>3. /\ armed' \in {0, ErrorTimeout, WatchdogTimeout} /\ unfed' \in 0 .. armed'
      /\ delayed' \in 0 .. ErrorTimeout + 1
  <2>1. HandleError \/ UNCHANGED <<armed, unfed, delayed>>
    BY DEF Succeeds, TriesAgain, Fails
  <2> QED
    BY <1>0, <2>1, HandleType
<1>4. UNCHANGED <<creds, provisions>>
  BY DEF Succeeds, TriesAgain, Fails
<1> QED
  BY <1>0, <1>1, <1>2, <1>3, <1>4, FaultType DEF BootType

LEMMA ProvisionType ==
  ASSUME BootType, NEW s, NEW items \in SUBSET Credentials, Removes(s, items) \/ Loads(s, items)
  PROVE  BootType'
<1>1. /\ GoOn /\ (UNCHANGED faults \/ Fault)
      /\ UNCHANGED <<failed, armed, unfed, delayed, provisions>>
  BY DEF Removes, Loads
<1>2. creds' \subseteq Credentials
  BY DEF Removes, Loads, BootType
<1>3. tries' \in 0 .. ModemRetries + MqttRetries + 1
  BY <1>1, TriesType
<1> QED
  BY <1>1, <1>2, <1>3, FaultType DEF BootType

LEMMA SetUpType == BootType /\ SetUpStep => BootType'
<1> SUFFICES ASSUME BootType, SetUpStep PROVE BootType'
  OBVIOUS
<1>1. ASSUME NEW s \in {"storage", "gps", "fix", "queue", "iridium", "gauge", "runner"}, SetUp(s)
      PROVE  BootType'
  <2>1. s \in ToSet(Stages)
    BY StageSet
  <2>2. Succeeds \/ Fails(s)
    BY <1>1 DEF SetUp
  <2>3. UNCHANGED faults \/ Fault
    BY <1>1 DEF SetUp
  <2> QED
    BY <2>1, <2>2, <2>3, StageType
<1>2. CASE Modem \/ Mqtt
  <2>1. \E s \in {"modem", "mqtt"} : Succeeds \/ TriesAgain \/ Fails(s)
    BY <1>2 DEF Modem, Mqtt
  <2>2. UNCHANGED faults \/ Fault
    BY <1>2 DEF Modem, Mqtt
  <2> QED
    BY <2>1, <2>2, StageType, StageSet
<1>3. CASE ListCertificates \/ PrintTLSProfileStatus
  <2>1. Succeeds /\ UNCHANGED faults
    BY <1>3 DEF ListCertificates, PrintTLSProfileStatus
  <2> QED
    BY <2>1, StageType, StageSet
<1>4. CASE RemoveRoots \/ ImportRoots \/ RemoveKey \/ LoadKey \/ RemoveCert \/ LoadCert
  <2>1. Roots \in SUBSET Credentials /\ {Key} \in SUBSET Credentials /\ {Cert} \in SUBSET Credentials
    BY DEF Credentials
  <2>2. \E s : \E items \in SUBSET Credentials : Removes(s, items) \/ Loads(s, items)
    BY <1>4, <2>1 DEF RemoveRoots, ImportRoots, RemoveKey, LoadKey, RemoveCert, LoadCert
  <2> QED
    BY <2>2, ProvisionType
<1> QED
  BY <1>1, <1>2, <1>3, <1>4 DEF SetUpStep

LEMMA NextBootType == BootType /\ ReadyInv /\ FedInv /\ [Next]_vars => BootType'
<1> SUFFICES ASSUME BootType, ReadyInv, FedInv, [Next]_vars PROVE BootType'
  OBVIOUS
<1>0. /\ tries \in 0 .. ModemRetries + MqttRetries + 1 /\ failed \subseteq ToSet(Stages)
      /\ creds \subseteq Credentials /\ provisions \in BOOLEAN
      /\ armed \in {0, ErrorTimeout, WatchdogTimeout} /\ unfed \in 0 .. armed
      /\ delayed \in 0 .. ErrorTimeout + 1 /\ faults \in 0 .. MaxFaults
      /\ WatchdogTimeout \in Nat \ {0} /\ ErrorTimeout \in Nat \ {0} /\ armed \in Nat
  BY Bounds DEF BootType
<1>1. CASE SetUpStep
  BY <1>1, SetUpType
<1>2. CASE PerformReset
  <2>1. /\ unfed < armed /\ delayed > 0
    BY <1>0, <1>2 DEF PerformReset, ReadyInv
  <2>2. /\ delayed' = delayed - 1 /\ unfed' = unfed + 1
        /\ UNCHANGED <<tries, failed, armed, creds, provisions, faults>>
    BY <1>2, <2>1 DEF PerformReset
  <2> QED
    BY <1>0, <2>1, <2>2 DEF BootType
<1>3. CASE Bites \/ PowerFails
  <2>1. /\ tries' = 0 /\ failed' = {} /\ armed' = 0 /\ unfed' = 0 /\ delayed' = 0
        /\ UNCHANGED <<creds, provisions>> /\ (UNCHANGED faults \/ Fault)
    BY <1>3 DEF Bites, PowerFails, Restart
  <2> QED
    BY <1>0, <2>1, FaultType, BootAssumption DEF BootType
<1>4. CASE TaskFails
  <2>1. HandleError /\ Fault /\ UNCHANGED <<tries, failed, creds, provisions>>
    BY <1>4 DEF TaskFails
  <2> QED
    BY <1>0, <2>1, FaultType, HandleType DEF BootType
<1>5. ASSUME UNCHANGED <<tries, failed, delayed, creds, provisions>>, UNCHANGED faults \/ Fault,
             \/ UNCHANGED <<armed, unfed>>
             \/ armed' \in {0, armed, WatchdogTimeout} /\ unfed' = 0
             \/ armed' = armed /\ unfed < armed /\ unfed' = unfed + 1
      PROVE  BootType'
  <2>1. armed' \in {0, ErrorTimeout, WatchdogTimeout} /\ unfed' \in 0 .. armed'
    BY <1>0, <1>5
  <2>2. faults' \in 0 .. MaxFaults
    BY <1>5, FaultType
  <2> QED
    BY <1>0, <1>5, <2>1, <2>2 DEF BootType
<1>6. CASE Idle \/ Blocks
  <2>1. /\ UNCHANGED <<tries, failed, delayed, creds, provisions, faults, armed>>
        /\ armed > 0 => unfed < armed
        /\ unfed' = IF armed > 0 THEN unfed + 1 ELSE 0
    BY <1>6 DEF Idle, Blocks, Elapses, Goes
  <2> QED
    BY <1>0, <1>5, <2>1
<1>7. CASE EnableWatchdog \/ RunBegins \/ Executes \/ Skips \/ TaskEnds \/ RunEnds
  BY <1>5, <1>7
  DEF EnableWatchdog, RunBegins, Executes, Skips, TaskEnds, RunEnds, Goes, bootVars
<1>8. CASE Waits \/ Returns \/ Sleeps \/ Wakes
  BY <1>5, <1>8 DEF Waits, Returns, Sleeps, Wakes, Goes
<1>9. CASE Logs \/ AppendsLine
  BY <1>5, <1>9 DEF Logs, AppendsLine
<1>10. CASE UNCHANGED vars
  BY <1>5, <1>10 DEF vars, bootVars
<1> QED
  BY <1>1, <1>2, <1>3, <1>4, <1>6, <1>7, <1>8, <1>9, <1>10 DEF Next, Thread

\* A node that is not in the set-up is at one of the places of the loop, and
\* a place of the loop is named.
PlaceNamed == at \in ToSet(Stages) \cup Places

\* The node is at a place that the code knows, with its clocks below their
\* wraps, the watchdog unfed for no longer than its timeout, the calls of the
\* logger within the stack, and no task run later than a bound
\* (prod_main.cpp, TaskScheduler.cpp, ErrorHandler.cpp, Logger.cpp).
THEOREM TypeCorrect == Spec => []TypeOK
<1> DEFINE Inv == ReadyInv /\ FedInv /\ PaceInv /\ LinesInv /\ BootType /\ PlaceNamed
<1>1. Init => Inv
  <2>1. Init => PlaceNamed
    BY StageNames, StageSet DEF Init, InitBoot, PlaceNamed
  <2> QED
    BY <2>1, InitReady, InitFed, InitPace, InitLines, InitBootType
<1>2. Inv /\ [Next]_vars => Inv'
  <2>1. ASSUME Inv, [Next]_vars
        PROVE  Inv'
    <3>1. ReadyInv' /\ FedInv' /\ PaceInv' /\ LinesInv' /\ BootType'
      BY <2>1, NextReady, NextFed, NextPace, NextLines, NextBootType
    <3>2. at' \in ToSet(Stages) \cup Places
      BY <3>1, StageNames, StageSet DEF ReadyInv
    <3> QED
      BY <3>1, <3>2 DEF PlaceNamed
  <2> QED
    BY <2>1
<1>3. Inv => TypeOK
  <2> SUFFICES ASSUME Inv PROVE TypeOK
    OBVIOUS
  <2>1. TypeOKBoot
    BY StageNames DEF BootType, ReadyInv, TypeOKBoot
  <2>2. at \in ToSet(Stages) \cup {"reset", "idle", "tasks", "working", "blocked", "hung",
                                   "logging", "waiting", "asleep", "slept", "off"}
    BY DEF PlaceNamed, Places
  <2> QED
    BY <2>1, <2>2 DEF PaceInv, PaceType, LinesInv, TypeOK
<1> QED
  BY <1>1, <1>2, <1>3, PTL DEF Spec

=============================================================================
