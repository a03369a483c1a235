------------------------- MODULE PowerControlProofs ------------------------
(***************************************************************************)
(* What is proved of the power control: for every reading of the battery,  *)
(* every length of a sleep and every distance between two calls of the     *)
(* policy; and for every Pi that boots within the cooldown of the policy   *)
(* and halts within the grace period.                                      *)
(***************************************************************************)
EXTENDS PowerControl, FiniteSetTheorems, TLAPS

\* The state of charge is in one of the five bands.
LEMMA BandType == ASSUME NEW soc PROVE Band(soc) \in Level
<1> DEFINE S == {10, 15, 20, 30}
           T == {threshold \in S : soc > threshold}
<1>1. IsFiniteSet(S) /\ Cardinality(S) = 4
  <2>1. IsFiniteSet({10}) /\ Cardinality({10}) = 1
    BY FS_Singleton
  <2>2. IsFiniteSet({10} \cup {15}) /\ Cardinality({10} \cup {15}) = 2
    BY <2>1, FS_AddElement
  <2>3. /\ IsFiniteSet({10} \cup {15} \cup {20})
        /\ Cardinality({10} \cup {15} \cup {20}) = 3
    BY <2>2, FS_AddElement
  <2>4. /\ IsFiniteSet({10} \cup {15} \cup {20} \cup {30})
        /\ Cardinality({10} \cup {15} \cup {20} \cup {30}) = 4
    BY <2>3, FS_AddElement
  <2>5. {10} \cup {15} \cup {20} \cup {30} = S
    OBVIOUS
  <2> QED
    BY <2>4, <2>5
<1>2. T \in SUBSET S
  OBVIOUS
<1>3. IsFiniteSet(T) /\ Cardinality(T) <= 4
  BY <1>1, <1>2, FS_Subset
<1>4. Cardinality(T) \in Nat
  BY <1>3, FS_CardinalityType
<1> QED
  BY <1>3, <1>4 DEF Band, Level

\* The waits of the controller: each ends, and none is longer than its period.
WaitInv ==
  /\ board = "starting" => deadline = StartupTimeout
  /\ board = "signalling" => deadline = SignalPeriod
  /\ board = "grace" => deadline <= SignalPeriod + GracePeriod
  /\ board \in {"starting", "signalling", "grace"} => spent <= deadline

TypeInv == TypeOK /\ WaitInv

LEMMA InitTypeInv == Init => TypeInv
<1> SUFFICES ASSUME Init PROVE TypeInv
  OBVIOUS
<1>1. board = "idle" /\ gauge \in BOOLEAN /\ level \in Level
  BY DEF Init, Found, Level, Full
<1>2. spent \in 0 .. SignalPeriod + GracePeriod /\ deadline \in 0 .. SignalPeriod + GracePeriod
  BY DEF Init, SignalPeriod, GracePeriod
<1>3. cool \in 0 .. ActionCooldown
  BY DEF Init, ActionCooldown
<1>4. mosfet \in BOOLEAN /\ signal \in BOOLEAN /\ hardCut \in BOOLEAN
  BY DEF Init
<1>5. late \in BOOLEAN /\ steep \in BOOLEAN /\ pi \in Stage /\ age \in Nat
  BY DEF Init, Stage
<1> QED
  BY <1>1, <1>2, <1>3, <1>4, <1>5 DEF TypeInv, TypeOK, WaitInv

\* What follows an action is no wait of the controller.
LEMMA FinishType ==
  ASSUME NEW l, Finish(l)
  PROVE  board' \in {"idle", "asleep", "dead"} /\ deadline' \in {0, SleepTicks}
  BY DEF Finish

\* What the policy does with a reading.
LEMMA EnforceType == TypeInv /\ Enforce => TypeInv'
<1> SUFFICES ASSUME TypeInv, Enforce PROVE TypeInv'
  OBVIOUS
<1>1. PICK l \in Level :
        /\ level' = l
        /\ steep' = (steep \/ l < level - 1)
        /\ \/ Acts(l) /\ Startup(l) /\ CommandStartup(l) /\ cool' = 0
           \/ Acts(l) /\ Shutdown(l) /\ CommandShutdown(l) /\ cool' = 0
           \/ /\ ~Acts(l) /\ Finish(l)
              /\ UNCHANGED <<cool, mosfet, signal, piVars, history>>
  BY BandType DEF Enforce
<1>2. spent' = 0 /\ gauge' = gauge
  BY DEF Enforce
<1>3. /\ board' \in {"idle", "starting", "signalling", "asleep", "dead"}
      /\ board' = "starting" => deadline' = StartupTimeout
      /\ board' = "signalling" => deadline' = SignalPeriod
      /\ deadline' \in {0, SleepTicks, StartupTimeout, SignalPeriod}
  BY <1>1 DEF CommandStartup, CommandShutdown, Finish
<1>4. /\ mosfet' \in BOOLEAN /\ signal' \in BOOLEAN /\ hardCut' \in BOOLEAN
      /\ late' \in BOOLEAN /\ steep' \in BOOLEAN
  BY <1>1 DEF CommandStartup, CommandShutdown, TypeInv, TypeOK, piVars, history
<1>5. pi' \in Stage /\ age' \in Nat /\ cool' \in 0 .. ActionCooldown
  BY <1>1
  DEF CommandStartup, CommandShutdown, PiIs, Stage, ActionCooldown, TypeInv, TypeOK, piVars
<1> QED
  BY <1>1, <1>2, <1>3, <1>4, <1>5, PowerAssumption
  DEF TypeInv, TypeOK, WaitInv, StartupTimeout, SignalPeriod, GracePeriod

LEMMA NextTypeInv == TypeInv /\ [Next]_vars => TypeInv'
<1> SUFFICES ASSUME TypeInv, [Next]_vars PROVE TypeInv'
  OBVIOUS
<1> USE PowerAssumption DEF TypeInv, TypeOK, WaitInv, StartupTimeout, SignalPeriod, GracePeriod
<1>1. CASE Enforce
  BY <1>1, EnforceType
<1>2. CASE NoReading
  BY <1>2 DEF NoReading, piVars, history
<1>3. CASE StartupEnds
  BY <1>3, FinishType DEF StartupEnds, piVars, history
<1>4. CASE SignalTaken
  <2>1. board = "signalling" /\ board' = "grace" /\ deadline' = spent + 2 /\ spent' = spent
    BY <1>4 DEF SignalTaken
  <2>2. spent \in 0 .. 1
    BY <2>1
  <2>3. signal' \in BOOLEAN /\ UNCHANGED <<gauge, level, steep, cool, mosfet, piVars, history>>
    BY <1>4 DEF SignalTaken
  <2>4. deadline' \in 0 .. 3 /\ spent' <= deadline'
    BY <2>1, <2>2
  <2> QED
    BY <2>1, <2>3, <2>4 DEF piVars, history
<1>5. CASE SignalTimesOut
  BY <1>5, FinishType DEF SignalTimesOut, piVars
<1>6. CASE GraceEnds
  <2>1. board' \in {"idle", "asleep", "dead"} /\ deadline' \in {0, SleepTicks}
    BY <1>6, FinishType DEF GraceEnds
  <2>2. UNCHANGED <<gauge, level, steep, spent, cool, signal, late>>
    BY <1>6 DEF GraceEnds
  <2>3. mosfet' \in BOOLEAN /\ hardCut' \in BOOLEAN
    BY <1>6, Zenon DEF GraceEnds
  <2>4. pi' \in Stage /\ age' \in Nat
    BY <1>6 DEF GraceEnds, PiIs, Stage, piVars
  <2> QED
    BY <2>1, <2>2, <2>3, <2>4
<1>7. CASE Wake
  BY <1>7 DEF Wake, piVars, history
<1>8. CASE Reset
  <2>1. board' = "idle" /\ spent' = 0 /\ deadline' = 0 /\ cool' \in 0 .. ActionCooldown
    BY <1>8 DEF Reset, ActionCooldown
  <2>2. /\ gauge' \in BOOLEAN /\ mosfet' \in BOOLEAN
        /\ signal' \in BOOLEAN /\ late' \in BOOLEAN
    BY <1>8 DEF Reset, Found
  <2>3. pi' \in Stage /\ age' \in Nat
    BY <1>8 DEF Reset, PiIs, Stage
  <2>4. UNCHANGED <<level, steep, hardCut>>
    BY <1>8 DEF Reset
  <2> QED
    BY <2>1, <2>2, <2>3, <2>4
<1>9. CASE PiStep
  BY <1>9 DEF PiStep, PiIs, Stage, boardVars, history
<1>10. CASE Tick
  <2>1. /\ age' \in Nat /\ cool' \in 0 .. ActionCooldown
    BY <1>10 DEF Tick, ActionCooldown
  <2>2. UNCHANGED <<board, gauge, level, steep, mosfet, signal, pi, history>>
    BY <1>10 DEF Tick
  <2>3. CASE board \in {"asleep", "dead"}
    <3>1. /\ spent' = spent
          /\ deadline' = IF board = "asleep" THEN deadline - 1 ELSE deadline
          /\ board = "asleep" => deadline > 0
      BY <1>10, <2>3 DEF Tick, BoardMayStay
    <3>2. deadline' \in 0 .. SleepTicks \/ deadline' \in 0 .. SignalPeriod + GracePeriod
      BY <3>1
    <3> QED
      BY <2>1, <2>2, <2>3, <3>1, <3>2 DEF history
  <2>4. CASE board \notin {"asleep", "dead"}
    <3>1. /\ spent' = spent + 1 /\ deadline' = deadline
          /\ IF board = "idle" THEN spent < GapTicks ELSE spent < deadline
      BY <1>10, <2>4 DEF Tick, BoardMayStay
    <3>2. spent' \in 0 .. SignalPeriod + GracePeriod \/ spent' \in 0 .. GapTicks
      BY <2>4, <3>1
    <3>3. board \in {"starting", "signalling", "grace"} => spent' <= deadline'
      BY <3>1
    <3> QED
      BY <2>1, <2>2, <3>1, <3>2, <3>3 DEF history
  <2> QED
    BY <2>3, <2>4
<1>11. CASE UNCHANGED vars
  BY <1>11 DEF vars, boardVars, piVars, history
<1> QED
  BY <1>1, <1>2, <1>3, <1>4, <1>5, <1>6, <1>7, <1>8, <1>9, <1>10, <1>11 DEF Next, Board

\* The state has its types; in particular no wait of the controller outlasts
\* its timeout (PiController.cpp:29-89).
THEOREM TypeCorrect == Spec => []TypeOK
<1>1. TypeInv => TypeOK
  BY DEF TypeInv
<1> QED
  BY InitTypeInv, NextTypeInv, <1>1, PTL DEF Spec

-----------------------------------------------------------------------------
(* Between a shutdown signal and the end of the grace period the Pi is on   *)
(* its way down, and at no other time. A Pi that is on its way up has been  *)
(* so for no longer than its boot takes, and the cooldown began with it, so *)
(* that no rule acts.                                                       *)

Ending == {"signalling", "grace"}

CutInv ==
  ~late =>
    /\ signal => board = "signalling"
    /\ pi = "off" => board \notin Ending
    /\ pi = "booting" => board \notin Ending /\ cool <= age /\ age <= BootTicks
    /\ pi = "unstable" => board \notin Ending /\ cool <= BootTicks
    /\ pi = "up" => board # "grace"
    /\ pi = "stopping" => board = "signalling"
    /\ pi = "halting" => board \in Ending /\ age <= HaltTicks
    /\ pi = "halted" => board \in Ending
    /\ pi = "halting" /\ board = "grace" => spent + GracePeriod <= deadline + age

\* The MOSFET is on, and the battery has fallen by at most a band per call:
\* the cooldown since the Pi was started or seen is over before the battery
\* can be empty.
DarkInv ==
  /\ board = "starting" => level = Full
  /\ mosfet /\ ~late /\ ~steep =>
       /\ pi # "off"
       /\ \/ board \in Ending
          \/ board # "dead" /\ (cool >= ActionCooldown \/ cool + level >= ActionCooldown + spent)

\* The Pi boots within the cooldown, and halts within the grace period.
InTime == BootTicks < ActionCooldown /\ HaltTicks < GracePeriod

PowerInv == TypeInv /\ CutInv /\ DarkInv /\ NoHardCut

LEMMA InitPower == Init => PowerInv
<1> SUFFICES ASSUME Init PROVE PowerInv
  OBVIOUS
<1>1. TypeInv
  BY InitTypeInv
<1>2. CutInv
  BY DEF Init, CutInv, Ending
<1>3. DarkInv
  BY DEF Init, DarkInv
<1>4. NoHardCut
  BY DEF Init, NoHardCut
<1> QED
  BY <1>1, <1>2, <1>3, <1>4 DEF PowerInv

\* Where the policy is called, a Pi that was never late is without power, on
\* its way up, or up; and when a rule acts it is not on its way.
LEMMA EnforcePower == InTime /\ PowerInv /\ Enforce => CutInv' /\ DarkInv' /\ NoHardCut'
<1> SUFFICES ASSUME InTime, PowerInv, Enforce PROVE CutInv' /\ DarkInv' /\ NoHardCut'
  OBVIOUS
<1>1. PICK l \in Level :
        /\ level' = l
        /\ steep' = (steep \/ l < level - 1)
        /\ \/ Acts(l) /\ Startup(l) /\ CommandStartup(l) /\ cool' = 0
           \/ Acts(l) /\ Shutdown(l) /\ CommandShutdown(l) /\ cool' = 0
           \/ /\ ~Acts(l) /\ Finish(l)
              /\ UNCHANGED <<cool, mosfet, signal, piVars, history>>
  BY BandType DEF Enforce
<1>2. board = "idle" /\ spent >= 1 /\ spent' = 0
  BY DEF Enforce
<1>3. late' = late
  BY <1>1 DEF CommandStartup, CommandShutdown, history
<1>4. ~late => ~signal /\ pi \in {"off", "booting", "unstable", "up"}
  BY <1>2 DEF PowerInv, CutInv, TypeInv, TypeOK, Stage, Ending
<1>5. ~late /\ Acts(l) => pi \in {"off", "up"}
  BY <1>4, PowerAssumption DEF Acts, PowerInv, CutInv, InTime, TypeInv, TypeOK, ActionCooldown
<1>6. CASE Acts(l) /\ Startup(l) /\ CommandStartup(l) /\ cool' = 0
  <2>1. CutInv'
    BY <1>2, <1>3, <1>4, <1>5, <1>6, PowerAssumption
    DEF CutInv, CommandStartup, Finish, IsRockPiUp, PiIs, piVars, Ending, Startup, Sleeps, Full,
        Critical
  <2>2. DarkInv'
    BY <1>1, <1>2, <1>3, <1>4, <1>5, <1>6
    DEF DarkInv, CommandStartup, Finish, IsRockPiUp, PiIs, piVars, Startup, Sleeps, Full,
        Critical, ActionCooldown
  <2>3. NoHardCut'
    BY <1>4, <1>5, <1>6
    DEF PowerInv, NoHardCut, CommandStartup, IsRockPiUp, AtWork, history
  <2> QED
    BY <2>1, <2>2, <2>3
<1>7. CASE Acts(l) /\ Shutdown(l) /\ CommandShutdown(l) /\ cool' = 0
  <2>1. CutInv'
    BY <1>2, <1>3, <1>4, <1>5, <1>7
    DEF CutInv, CommandShutdown, Finish, IsRockPiUp, piVars, Ending
  <2>2. DarkInv'
    <3>1. board' # "starting"
      BY <1>7, FinishType DEF CommandShutdown
    <3>2. ASSUME mosfet', ~late', ~steep' PROVE pi' # "off" /\ board' \in Ending
      <4>1. mosfet /\ ~late /\ ~steep /\ pi' = pi
        BY <1>1, <1>3, <1>7, <3>2 DEF CommandShutdown, piVars
      <4>2. pi # "off"
        BY <4>1 DEF PowerInv, DarkInv
      <4>3. pi = "up"
        BY <1>5, <1>7, <4>1, <4>2
      <4>4. board' = "signalling"
        BY <1>7, <4>3 DEF CommandShutdown, IsRockPiUp
      <4> QED
        BY <4>1, <4>2, <4>4 DEF Ending
    <3> QED
      BY <3>1, <3>2 DEF DarkInv
  <2>3. NoHardCut'
    BY <1>7 DEF PowerInv, NoHardCut, CommandShutdown, history
  <2> QED
    BY <2>1, <2>2, <2>3
<1>8. CASE ~Acts(l) /\ Finish(l) /\ UNCHANGED <<cool, mosfet, signal, piVars, history>>
  <2>1. board' \in {"idle", "asleep", "dead"}
    BY <1>8, FinishType
  <2>2. CutInv'
    BY <1>2, <1>3, <1>4, <1>8, <2>1 DEF PowerInv, CutInv, piVars, Ending
  <2>3. DarkInv'
    <3> SUFFICES ASSUME mosfet', ~late', ~steep'
                 PROVE  /\ pi' # "off" /\ board' # "dead"
                        /\ cool' >= ActionCooldown \/ cool' + level' >= ActionCooldown + spent'
      BY <2>1 DEF DarkInv
    <3>1. mosfet /\ ~late /\ ~steep /\ l >= level - 1 /\ level \in Nat /\ l \in Nat
      BY <1>1, <1>3, <1>8 DEF PowerInv, TypeInv, TypeOK, Level
    <3>2. pi # "off" /\ (cool >= ActionCooldown \/ cool + level >= ActionCooldown + spent)
      BY <1>2, <3>1 DEF PowerInv, DarkInv, Ending
    <3>3. cool >= ActionCooldown \/ cool + l >= ActionCooldown
      BY <1>2, <3>1, <3>2, PowerAssumption
      DEF PowerInv, TypeInv, TypeOK, ActionCooldown, SignalPeriod, GracePeriod
    <3>4. l # Critical
      BY <1>8, <3>3 DEF Acts, Shutdown, Critical, ActionCooldown, PowerInv, TypeInv, TypeOK
    <3>5. board' # "dead"
      BY <1>8, <3>4 DEF Finish
    <3>6. cool' = cool /\ level' = l /\ spent' = 0 /\ pi' = pi
      BY <1>1, <1>2, <1>8 DEF piVars
    <3> QED
      BY <3>2, <3>3, <3>5, <3>6 DEF ActionCooldown
  <2>4. NoHardCut'
    BY <1>8 DEF PowerInv, NoHardCut, history
  <2> QED
    BY <2>2, <2>3, <2>4
<1> QED
  BY <1>1, <1>6, <1>7, <1>8

\* The waits of the controller end.
LEMMA BoardPower == InTime /\ PowerInv /\ Board => CutInv' /\ DarkInv' /\ NoHardCut'
<1> SUFFICES ASSUME InTime, PowerInv, Board PROVE CutInv' /\ DarkInv' /\ NoHardCut'
  OBVIOUS
<1>1. CASE StartupEnds
  <2>1. /\ board = "starting" /\ level = Full /\ Finish(Full)
        /\ UNCHANGED <<level, steep, spent, cool, mosfet, signal, pi, age, hardCut, late>>
    BY <1>1 DEF StartupEnds, PowerInv, DarkInv, piVars, history
  <2>2. board' = "idle"
    BY <2>1 DEF Finish, Full, Critical, Sleeps
  <2>3. CutInv'
    BY <2>1, <2>2 DEF PowerInv, CutInv, Ending
  <2>4. DarkInv'
    BY <2>1, <2>2 DEF PowerInv, DarkInv, Ending
  <2> QED
    BY <2>1, <2>3, <2>4 DEF PowerInv, NoHardCut
<1>2. CASE SignalTaken
  <2>1. /\ board = "signalling" /\ ~IsRockPiUp /\ board' = "grace" /\ ~signal'
        /\ deadline' = spent + GracePeriod
        /\ UNCHANGED <<level, steep, spent, cool, mosfet, pi, age, hardCut, late>>
    BY <1>2 DEF SignalTaken, piVars, history
  <2>2. ~late => pi \in {"halting", "halted"}
    BY <2>1 DEF PowerInv, CutInv, TypeInv, TypeOK, Stage, IsRockPiUp, Ending
  <2>3. spent \in Int /\ age \in Nat
    BY PowerAssumption DEF PowerInv, TypeInv, TypeOK, SignalPeriod, GracePeriod
  <2>4. CutInv'
    BY <2>1, <2>2, <2>3 DEF PowerInv, CutInv, Ending, GracePeriod
  <2>5. DarkInv'
    BY <2>1 DEF PowerInv, DarkInv, Ending
  <2> QED
    BY <2>1, <2>4, <2>5 DEF PowerInv, NoHardCut
<1>3. CASE SignalTimesOut
  <2>1. late' /\ hardCut' = hardCut /\ board' # "starting"
    BY <1>3, FinishType DEF SignalTimesOut
  <2> QED
    BY <2>1 DEF CutInv, DarkInv, PowerInv, NoHardCut
<1>4. CASE GraceEnds
  <2>1. board = "grace" /\ spent >= deadline /\ late' = late /\ signal' = signal
    BY <1>4 DEF GraceEnds
  <2>2. ~late => pi \in {"halting", "halted"}
    BY <2>1 DEF PowerInv, CutInv, TypeInv, TypeOK, Stage, Ending
  <2>3. ~late => pi # "halting"
    <3> SUFFICES ASSUME ~late, pi = "halting" PROVE FALSE
      OBVIOUS
    <3>1. spent + GracePeriod <= deadline + age /\ age <= HaltTicks
      BY <2>1 DEF PowerInv, CutInv
    <3>2. spent \in Int /\ deadline \in Int /\ age \in Nat
      BY PowerAssumption DEF PowerInv, TypeInv, TypeOK, SignalPeriod, GracePeriod
    <3> QED
      BY <2>1, <3>1, <3>2, PowerAssumption DEF InTime, GracePeriod
  <2>4. board' \in {"idle", "asleep", "dead"}
    BY <1>4, FinishType DEF GraceEnds
  <2>5. ~late => ~IsRockPiUp
    BY <2>2 DEF IsRockPiUp
  <2>6. ~late => ~mosfet' /\ pi' = "off" /\ ~signal'
    <3>1. ~late => ~mosfet' /\ pi' = "off"
      BY <1>4, <2>5 DEF GraceEnds, PiIs
    <3>2. ~late => ~signal
      BY <2>1 DEF PowerInv, CutInv
    <3> QED
      BY <2>1, <3>1, <3>2
  <2>7. ~hardCut'
    <3>1. ~(AtWork /\ ~late)
      BY <2>2, <2>3 DEF AtWork
    <3>2. ~hardCut
      BY DEF PowerInv, NoHardCut
    <3> QED
      BY <1>4, <3>1, <3>2, Zenon DEF GraceEnds
  <2> QED
    BY <2>1, <2>4, <2>6, <2>7 DEF CutInv, DarkInv, NoHardCut, Ending
<1>5. CASE Wake
  <2>1. /\ board = "asleep" /\ board' = "idle"
        /\ UNCHANGED <<level, steep, spent, cool, mosfet, signal, pi, age, hardCut, late>>
    BY <1>5 DEF Wake, piVars, history
  <2>2. CutInv' /\ NoHardCut'
    BY <2>1 DEF PowerInv, CutInv, NoHardCut, Ending
  <2>3. DarkInv'
    BY <2>1 DEF PowerInv, DarkInv, Ending
  <2> QED
    BY <2>2, <2>3
<1> QED
  BY <1>1, <1>2, <1>3, <1>4, <1>5 DEF Board

\* The Pi gets on, or time passes for it and for the board.
LEMMA PiPower == PowerInv /\ PiStep => CutInv' /\ DarkInv' /\ NoHardCut'
<1> SUFFICES ASSUME PowerInv, PiStep PROVE CutInv' /\ DarkInv' /\ NoHardCut'
  OBVIOUS
<1>1. /\ UNCHANGED <<board, level, spent, deadline, cool, steep, mosfet, signal, hardCut, late>>
      /\ pi' # "off" /\ pi' # "booting" /\ age' = 0
  BY DEF PiStep, PiIs, boardVars, history
<1>2. \/ pi = "booting" /\ pi' = "unstable"
      \/ pi = "unstable" /\ pi' = "up"
      \/ pi = "up" /\ signal /\ pi' = "stopping"
      \/ pi = "stopping" /\ pi' = "halting"
      \/ pi = "halting" /\ pi' = "halted"
  BY DEF PiStep, PiIs
<1>3. CutInv'
  <2> SUFFICES ASSUME ~late PROVE CutInv'
    BY <1>1 DEF CutInv
  <2>1. pi = "booting" => cool <= BootTicks
    BY PowerAssumption DEF PowerInv, CutInv, TypeInv, TypeOK, ActionCooldown
  <2>2. 0 <= HaltTicks
    BY PowerAssumption
  <2> QED
    BY <1>1, <1>2, <2>1, <2>2 DEF PowerInv, CutInv, Ending
<1>4. pi # "off"
  BY <1>2
<1>5. DarkInv' /\ NoHardCut'
  BY <1>1, <1>4 DEF PowerInv, DarkInv, NoHardCut
<1> QED
  BY <1>3, <1>5

LEMMA TickPower == PowerInv /\ Tick => CutInv' /\ DarkInv' /\ NoHardCut'
<1> SUFFICES ASSUME PowerInv, Tick PROVE CutInv' /\ DarkInv' /\ NoHardCut'
  OBVIOUS
<1>1. UNCHANGED <<board, level, steep, mosfet, signal, pi, hardCut, late>>
  BY DEF Tick, history
<1>2. /\ cool \in 0 .. ActionCooldown /\ spent \in Int /\ deadline \in Int
      /\ age \in Nat /\ level \in Int
  BY PowerAssumption DEF PowerInv, TypeInv, TypeOK, Level, SignalPeriod, GracePeriod
<1>3. \/ spent' = spent /\ cool' = cool /\ board \notin Ending
      \/ /\ spent' = spent + 1 /\ deadline' = deadline
         /\ cool' = IF cool < ActionCooldown THEN cool + 1 ELSE cool
  BY DEF Tick, Ending
<1>4. CutInv'
  <2> SUFFICES ASSUME ~late PROVE CutInv'
    BY <1>1 DEF CutInv
  <2>1. pi = "booting" => age' = age + 1 /\ age < BootTicks
    BY DEF Tick, PiMayStay, Limit
  <2>2. pi = "halting" => age' = age + 1 /\ age < HaltTicks
    BY DEF Tick, PiMayStay, Limit
  <2>3. pi # "unstable"
    BY DEF Tick, PiMayStay, PowerInv, CutInv, Ending
  <2>4. cool' \in Nat /\ cool' <= cool + 1
    BY <1>2, <1>3 DEF ActionCooldown
  <2>5. pi = "booting" => cool' <= age' /\ age' <= BootTicks
    BY <1>2, <2>1, <2>4, PowerAssumption DEF PowerInv, CutInv
  <2>6. pi = "halting" => age' <= HaltTicks
    BY <1>2, <2>2, PowerAssumption
  <2>7. pi = "halting" /\ board = "grace" => spent' + GracePeriod <= deadline' + age'
    BY <1>2, <1>3, <2>2 DEF PowerInv, CutInv, Ending, GracePeriod
  <2> QED
    BY <1>1, <2>3, <2>5, <2>6, <2>7 DEF PowerInv, CutInv
<1>5. DarkInv'
  <2>1. ASSUME cool >= ActionCooldown \/ cool + level >= ActionCooldown + spent
        PROVE  cool' >= ActionCooldown \/ cool' + level' >= ActionCooldown + spent'
    BY <1>1, <1>2, <1>3, <2>1 DEF ActionCooldown
  <2> QED
    BY <1>1, <2>1 DEF PowerInv, DarkInv
<1>6. NoHardCut'
  BY <1>1 DEF PowerInv, NoHardCut
<1> QED
  BY <1>4, <1>5, <1>6

LEMMA NextPower == InTime /\ PowerInv /\ [Next]_vars => PowerInv'
<1> SUFFICES ASSUME InTime, PowerInv, [Next]_vars PROVE PowerInv'
  OBVIOUS
<1>1. TypeInv'
  BY NextTypeInv DEF PowerInv
<1>2. CutInv' /\ DarkInv' /\ NoHardCut'
  <2>1. CASE NoReading
    <3>1. /\ board' = board /\ board = "idle" /\ spent' = 0 /\ spent >= 1
          /\ UNCHANGED <<level, steep, cool, mosfet, signal, pi, age, hardCut, late>>
      BY <2>1 DEF NoReading, piVars, history
    <3>2. cool \in Int /\ spent \in Int /\ level \in Int
      BY PowerAssumption
      DEF PowerInv, TypeInv, TypeOK, Level, ActionCooldown, SignalPeriod, GracePeriod
    <3>3. CutInv' /\ NoHardCut'
      BY <3>1 DEF PowerInv, CutInv, NoHardCut, Ending
    <3>4. DarkInv'
      BY <3>1, <3>2 DEF PowerInv, DarkInv, Ending, ActionCooldown
    <3> QED
      BY <3>3, <3>4
  <2>2. CASE Reset
    <3>1. /\ board' = "idle" /\ ~mosfet' /\ ~signal' /\ pi' = "off" /\ hardCut' = hardCut
      BY <2>2 DEF Reset, PiIs
    <3> QED
      BY <3>1 DEF PowerInv, CutInv, DarkInv, NoHardCut, Ending
  <2>3. CASE UNCHANGED vars
    BY <2>3 DEF vars, boardVars, piVars, history, PowerInv, CutInv, DarkInv, NoHardCut
  <2> QED
    BY <2>1, <2>2, <2>3, EnforcePower, BoardPower, PiPower, TickPower DEF Next
<1> QED
  BY <1>1, <1>2 DEF PowerInv

\* The policy never takes the power from a Pi at work: from one that boots
\* within the cooldown and halts within the grace period, however long it
\* takes to answer the shutdown signal, if it answers in time
\* (PiController.cpp:29-89, BatteryProtectionPolicy.cpp:25-75).
THEOREM NeverCutHard == ASSUME InTime PROVE Spec => []NoHardCut
<1>1. PowerInv => NoHardCut
  BY DEF PowerInv
<1> QED
  BY InitPower, NextPower, <1>1, PTL DEF Spec

\* A board that sleeps for ever leaves no Pi powered that could still answer:
\* a battery that falls by a band per call at most is not empty before the
\* cooldown is over, and then the Pi is switched off.
THEOREM DarkWhenItSleepsForEver == ASSUME InTime PROVE Spec => []DarkWhenDead
<1>1. PowerInv => DarkWhenDead
  BY DEF PowerInv, DarkInv, DarkWhenDead, Ending
<1> QED
  BY InitPower, NextPower, <1>1, PTL DEF Spec
=============================================================================
