---------------------------- MODULE PowerControl ---------------------------
(***************************************************************************)
(* BatteryProtectionPolicy::enforce() and the PiController it commands,    *)
(* with the daemon of the Rock Pi at the other end of their pins: the      *)
(* MOSFET powers the Pi, the shutdown pin asks it to halt, and the monitor *)
(* pin is the Pi's own switch of the hydrophone (TRACO), which is on while *)
(* its daemon is at work.                                                  *)
(*                                                                         *)
(* The waits of the controller block the board, and the Pi moves on        *)
(* meanwhile.  Time is counted in ticks of 30 s, the interval of the       *)
(* policy.  The clock of the board stands still while the board sleeps.    *)
(***************************************************************************)
EXTENDS Integers, FiniteSets

CONSTANTS
  BootTicks,    \* ticks that the Pi takes at most to boot,
  StopTicks,    \* from the shutdown signal to TRACO off, and
  HaltTicks,    \* from there until it has halted
  Readings,     \* what batteryVolts() may return, in hundredths of a volt
  SleepTicks,   \* bound: ticks of a sleep of 5 or 10 minutes
  GapTicks      \* bound: ticks from one call of the policy to the next

ASSUME PowerAssumption ==
  /\ BootTicks \in Nat /\ StopTicks \in Nat /\ HaltTicks \in Nat
  /\ Readings \subseteq Nat
  /\ SleepTicks \in Nat \ {0} /\ GapTicks \in Nat \ {0}

\* The bands of the state of charge between the thresholds of the rules: up
\* to 10, 15, 20 and 30 %, and above.
Level == 0 .. 4
Critical == 0
Full == 4

\* The state of charge goes by the voltage, between two ends and rounded down.
MinVolts == 1152
MaxVolts == 1290

VoltageSOC(v) ==
  CASE v < MinVolts -> 0
    [] v > MaxVolts -> 100
    [] OTHER -> ((v - MinVolts) * 100) \div (MaxVolts - MinVolts)

Band(soc) == Cardinality({threshold \in {10, 15, 20, 30} : soc > threshold})

ActionCooldown == 4     \* 120 s
StartupTimeout == 2
SignalPeriod == 1
GracePeriod == 2

VARIABLES
  board,     \* what the board does
  gauge,     \* the sensors of the battery and the panel were found at the start
  level,     \* the last reading of the battery
  spent,     \* ticks of its clock since the policy last began
  deadline,  \* the value of spent that ends a wait; the rest of a sleep
  cool,      \* ticks since lastActionTime, or since the start of the board
  mosfet,
  signal,    \* the shutdown pin
  pi,        \* the stage that the Pi is in
  age,       \* ticks that it has been in it
  hardCut,   \* history: the policy has taken the power from a Pi at work
             \* that is not late
  late,      \* history: since the start of the board, the Pi has failed to
             \* answer a shutdown signal in time
  steep      \* history: the battery has fallen by more than a band at once

boardVars == <<board, gauge, level, spent, deadline, cool, steep>>
piVars == <<pi, age>>
history == <<hardCut, late>>
vars == <<boardVars, mosfet, signal, piVars, history>>

Stage == {"off", "booting", "unstable", "up", "stopping", "halting", "halted"}

TypeOK ==
  /\ board \in {"idle", "starting", "signalling", "grace", "asleep", "dead"}
  /\ gauge \in BOOLEAN /\ level \in Level
  /\ spent \in 0 .. SignalPeriod + GracePeriod \/ spent \in 0 .. GapTicks
  /\ deadline \in 0 .. SleepTicks \/ deadline \in 0 .. SignalPeriod + GracePeriod
  /\ cool \in 0 .. ActionCooldown
  /\ mosfet \in BOOLEAN /\ signal \in BOOLEAN
  /\ hardCut \in BOOLEAN /\ late \in BOOLEAN /\ steep \in BOOLEAN
  /\ pi \in Stage
  /\ age \in Nat

\* What SolarXBatteryController::init() finds. setup() goes on without it.
Found == BOOLEAN

Init ==
  /\ board = "idle" /\ gauge \in Found /\ level = Full
  /\ spent = 0 /\ deadline = 0 /\ cool = 0
  /\ mosfet = FALSE /\ signal = FALSE
  /\ pi = "off" /\ age = 0
  /\ hardCut = FALSE /\ late = FALSE /\ steep = FALSE

-----------------------------------------------------------------------------
\* isRockPiUp()
IsRockPiUp == pi \in {"up", "stopping"}

\* The Pi has something to lose: it is neither without power nor halted.
AtWork == pi \notin {"off", "halted"}

PiIs(stage) == pi' = stage /\ age' = 0

\* The rules of the policy.
Startup(l) == l = Full
Shutdown(l) == l <= 1
Sleeps(l) == l \in {1, 2}

\* What follows an action in enforce(): a sleep, for ever if the battery is
\* critical, or the return to the loop.
Finish(l) ==
  /\ board' = CASE l = Critical -> "dead" [] Sleeps(l) -> "asleep" [] OTHER -> "idle"
  /\ deadline' = IF Sleeps(l) THEN SleepTicks ELSE 0

\* commandStartup() up to its wait.
CommandStartup(l) ==
  \/ /\ IsRockPiUp
     /\ mosfet' = TRUE
     /\ Finish(l)
     /\ UNCHANGED <<signal, piVars, history>>
  \/ /\ ~IsRockPiUp
     /\ mosfet' = TRUE
     /\ PiIs("booting")
     /\ hardCut' = (hardCut \/ (AtWork /\ ~late))
     /\ board' = "starting"
     /\ deadline' = StartupTimeout
     /\ UNCHANGED <<signal, late>>

\* commandShutdown() up to its first wait.
CommandShutdown(l) ==
  \/ /\ ~IsRockPiUp
     /\ Finish(l)
     /\ UNCHANGED <<mosfet, signal, piVars, history>>
  \/ /\ IsRockPiUp
     /\ signal' = TRUE
     /\ board' = "signalling"
     /\ deadline' = SignalPeriod
     /\ UNCHANGED <<mosfet, piVars, history>>

\* Does the rule for l act?  One cooldown for all of them.
Acts(l) == (Startup(l) \/ Shutdown(l)) /\ cool = ActionCooldown

Enforce ==
  /\ board = "idle"
  /\ spent >= 1
  /\ gauge
  /\ spent' = 0
  /\ UNCHANGED gauge
  /\ \E l \in {Band(VoltageSOC(v)) : v \in Readings} :
       /\ level' = l
       /\ steep' = (steep \/ l < level - 1)
       /\ \/ /\ Acts(l) /\ Startup(l)
             /\ CommandStartup(l)
             /\ cool' = 0
          \/ /\ Acts(l) /\ Shutdown(l)
             /\ CommandShutdown(l)
             /\ cool' = 0
          \/ /\ ~Acts(l)
             /\ Finish(l)
             /\ UNCHANGED <<cool, mosfet, signal, piVars, history>>

\* batteryCtrl.sync() fails as long as the sensors were not found: the policy
\* neither commands the Pi nor sleeps until the board starts anew.
NoReading ==
  /\ board = "idle"
  /\ spent >= 1
  /\ ~gauge
  /\ spent' = 0
  /\ UNCHANGED <<board, gauge, level, steep, deadline, cool, mosfet, signal, piVars, history>>

\* The end of commandStartup(), with or without the Pi.
StartupEnds ==
  /\ board = "starting"
  /\ IsRockPiUp \/ spent >= deadline
  /\ Finish(level)
  /\ UNCHANGED <<gauge, level, steep, spent, cool, mosfet, signal, piVars, history>>

\* Mutant of SignalTaken: the shutdown pin stays on.
SignalTakenStaysOn ==
  /\ board = "signalling"
  /\ ~IsRockPiUp
  /\ board' = "grace"
  /\ deadline' = spent + GracePeriod
  /\ UNCHANGED <<gauge, level, steep, spent, cool, mosfet, signal, piVars, history>>

\* Mutant of SignalTaken: the grace period begins again.
SignalTakenTwice ==
  /\ board = "signalling"
  /\ ~IsRockPiUp
  /\ signal' = FALSE
  /\ board' = "grace"
  /\ deadline' = spent + 2 * GracePeriod
  /\ UNCHANGED <<gauge, level, steep, spent, cool, mosfet, piVars, history>>

\* Mutant of SignalTaken: no grace period.
SignalTakenNoGrace ==
  /\ board = "signalling"
  /\ ~IsRockPiUp
  /\ signal' = FALSE
  /\ board' = "grace"
  /\ deadline' = spent
  /\ UNCHANGED <<gauge, level, steep, spent, cool, mosfet, piVars, history>>

\* The Pi has taken the signal: the grace period begins.
SignalTaken ==
  /\ board = "signalling"
  /\ ~IsRockPiUp
  /\ signal' = FALSE
  /\ board' = "grace"
  /\ deadline' = spent + GracePeriod
  /\ UNCHANGED <<gauge, level, steep, spent, cool, mosfet, piVars, history>>

\* It has not: commandShutdown() returns and leaves the signal on.
SignalTimesOut ==
  /\ board = "signalling"
  /\ IsRockPiUp /\ spent >= deadline
  /\ Finish(level)
  /\ late' = TRUE
  /\ UNCHANGED <<gauge, level, steep, spent, cool, mosfet, signal, piVars, hardCut>>

\* Mutant of GraceEnds: the power stays on.
GraceEndsPowered ==
  /\ board = "grace"
  /\ spent >= deadline
  /\ Finish(level)
  /\ UNCHANGED <<gauge, level, steep, spent, cool, signal, mosfet, piVars, history>>

\* The end of commandShutdown().
GraceEnds ==
  /\ board = "grace"
  /\ spent >= deadline
  /\ \/ /\ IsRockPiUp
        /\ UNCHANGED <<mosfet, piVars, hardCut>>
     \/ /\ ~IsRockPiUp
        /\ mosfet' = FALSE
        /\ PiIs("off")
        /\ hardCut' = (hardCut \/ (AtWork /\ ~late))
  /\ Finish(level)
  /\ UNCHANGED <<gauge, level, steep, spent, cool, signal, late>>

Wake ==
  /\ board = "asleep"
  /\ deadline = 0
  /\ board' = "idle"
  /\ UNCHANGED <<gauge, level, steep, spent, deadline, cool, mosfet, signal, piVars, history>>

\* The board resets while it does something else: its pins are low and the
\* MOSFET is switched off, whatever the Pi does. init() looks for the sensors.
Reset ==
  /\ board = "idle"
  /\ spent' = 0 /\ deadline' = 0 /\ cool' = 0
  /\ mosfet' = FALSE /\ signal' = FALSE
  /\ PiIs("off")
  /\ late' = FALSE
  /\ gauge' \in Found
  /\ UNCHANGED <<board, level, steep, hardCut>>

-----------------------------------------------------------------------------
\* The daemon starts when the Pi has booted, waits for a low shutdown pin and
\* switches TRACO on; when the pin goes high it stops the hydrophone, switches
\* TRACO off and halts the Pi.
PiStep ==
  /\ \/ pi = "booting" /\ PiIs("unstable")
     \/ pi = "unstable" /\ ~signal /\ PiIs("up")
     \/ pi = "up" /\ signal /\ PiIs("stopping")
     \/ pi = "stopping" /\ PiIs("halting")
     \/ pi = "halting" /\ PiIs("halted")
  /\ UNCHANGED <<boardVars, mosfet, signal, history>>

Limit ==
  [booting |-> BootTicks, stopping |-> StopTicks, halting |-> HaltTicks]

\* The Pi may stay in its stage for another tick.
PiMayStay ==
  /\ pi \in DOMAIN Limit => age < Limit[pi]
  /\ pi = "unstable" => signal
  /\ pi = "up" => ~signal

\* The board has nothing to do for another tick.
BoardMayStay ==
  CASE board = "idle" -> spent < GapTicks
    [] board = "starting" -> ~IsRockPiUp /\ spent < deadline
    [] board = "signalling" -> IsRockPiUp /\ spent < deadline
    [] board = "grace" -> spent < deadline
    [] board = "asleep" -> deadline > 0
    [] board = "dead" -> TRUE

Tick ==
  /\ PiMayStay /\ BoardMayStay
  /\ IF board \in {"asleep", "dead"}
     THEN /\ deadline' = IF board = "asleep" THEN deadline - 1 ELSE deadline
          /\ UNCHANGED <<spent, cool>>
     ELSE /\ spent' = spent + 1
          /\ cool' = IF cool < ActionCooldown THEN cool + 1 ELSE cool
          /\ UNCHANGED deadline
  /\ age' = IF pi \in DOMAIN Limit THEN age + 1 ELSE age
  /\ UNCHANGED <<board, gauge, level, steep, mosfet, signal, pi, history>>

Board == StartupEnds \/ SignalTaken \/ SignalTimesOut \/ GraceEnds \/ Wake

Next == Enforce \/ NoReading \/ Board \/ Reset \/ PiStep \/ Tick

\* The scheduler runs the policy again and again, the battery can be read
\* again and again, and the Pi gets on.
Fairness ==
  /\ SF_vars(Enforce) /\ WF_vars(Board) /\ WF_vars(PiStep) /\ WF_vars(Tick)

Spec == Init /\ [][Next]_vars /\ Fairness

-----------------------------------------------------------------------------
\* The policy never takes the power from a Pi at work, one that boots, waits
\* for its pins, measures or halts, whatever the battery does; unless the Pi
\* has been late to answer a signal since the board started.
NoHardCut == ~hardCut

\* A board that goes to sleep for ever has switched the Pi off before, unless
\* the battery fell faster than the cooldown allows or the Pi was late:
\* nothing is left powered that nobody will switch off.
DarkWhenDead == board = "dead" /\ ~steep /\ ~late => ~mosfet

\* PiController.hpp:20: "Power cycle MOSFET to start the Rock Pi".  When the
\* battery stays full and can be read, and the board stays up, the Pi comes up
\* to stay, whatever happened before; if it was never late to answer since the
\* board started.
ComesUp ==
  <>[](gauge /\ level = Full /\ ~late) /\ <>[][~Reset]_vars => <>[](pi = "up")
=============================================================================
