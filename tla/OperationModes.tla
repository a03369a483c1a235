---------------------------- MODULE OperationModes --------------------------
(***************************************************************************)
(* The operation mode of the node and its status reports: the parts of     *)
(* NodeOperationRunner::run() that depend on time.  A mode lasts for a     *)
(* number of runs and is followed by its target; each port reports when    *)
(* the minute of the clock EQUALS the minute noted for it.                 *)
(*                                                                         *)
(* Minutes are counted from the present one: ahead[p] is nextReportMinute  *)
(* less the current minute.  A minute that has passed never comes again,   *)
(* by however much it was missed: Missed.                                  *)
(***************************************************************************)
EXTENDS Integers

CONSTANTS
  Port,           \* the ports that report
  ModeId,
  Configs,        \* the configurations that the node may be given
  DefaultMode,    \* the mode of the default configuration
  NoMode,
  NoEntry,        \* a port has no reporting period for a mode
  RunsPerMinute,  \* calls of run() in a minute
  MaxJump,        \* bound: minutes by which the clock jumps
  MaxPeriod,      \* bound: reporting periods
  MaxDuration     \* bound: durations of modes

\* The mode that a mode is followed by may be missing: NoMode stands for a
\* mode without a transition.
Mode == [target : ModeId \cup {NoMode}, duration : 0 .. MaxDuration]

\* activeModeId, the modes by their ids, and the reporting periods.
Config == [active : ModeId,
           modes : [ModeId -> Mode \cup {NoMode}],
           period : [Port -> [ModeId -> 0 .. MaxPeriod \cup {NoEntry}]]]

ASSUME ModesAssumption ==
  /\ NoMode \notin ModeId /\ NoMode \notin Mode
  /\ NoEntry \notin Nat
  /\ DefaultMode \in ModeId
  /\ Configs \subseteq Config /\ Configs # {}
  /\ RunsPerMinute \in Nat \ {0}
  /\ MaxJump \in Nat /\ MaxPeriod \in Nat /\ MaxDuration \in Nat

\* makeDefault(): one mode, followed by itself, and no port with an entry for
\* it: the entries it has are for the mode 0, which does not exist.
MakeDefault ==
  [active |-> DefaultMode,
   modes |-> [i \in ModeId |-> IF i = DefaultMode THEN [target |-> i, duration |-> 0] ELSE NoMode],
   period |-> [p \in Port |-> [i \in ModeId |-> NoEntry]]]

Missed == -1

VARIABLES
  cfg,        \* the configuration that getNodeConfiguration() returns
  id,         \* cache.currentOperationMode: its id
  mode,       \* cache.currentOperationMode: a copy of its entry
  cycle,      \* cache.cycleCount
  ahead,      \* cache.nextReportMinute, less the current minute
  runs,       \* calls of run() in the current minute
  attempted,  \* history: the ports that were due in the last run
  disturbed   \* history: since the start the clock has jumped, or the node
              \* has gone by the default configuration

vars == <<cfg, id, mode, cycle, ahead, runs, attempted, disturbed>>

-----------------------------------------------------------------------------
\* init() copies the active mode.  All ports are due in the first minute; a
\* long setup ends after it.
Start(c) ==
  /\ id' = IF c.modes[c.active] = NoMode THEN NoMode ELSE c.active
  /\ mode' = c.modes[c.active]
  /\ cycle' = 0
  /\ \/ ahead' = [p \in Port |-> 0] /\ disturbed' = (c = MakeDefault)
     \/ ahead' = [p \in Port |-> Missed] /\ disturbed' = TRUE
  /\ runs' = 0
  /\ attempted' = {}

Init ==
  /\ cfg \in Configs \cup {MakeDefault}
  /\ id = IF cfg.modes[cfg.active] = NoMode THEN NoMode ELSE cfg.active
  /\ mode = cfg.modes[cfg.active]
  /\ cycle = 0
  /\ ahead \in {[p \in Port |-> 0], [p \in Port |-> Missed]}
  /\ disturbed = (cfg = MakeDefault \/ ahead = [p \in Port |-> Missed])
  /\ runs = 0
  /\ attempted = {}

\* The board resets, and reads its configuration from the file, unless that
\* fails. A start without an active mode resets it again.
Reset ==
  /\ \/ UNCHANGED cfg
     \/ cfg' = MakeDefault
     \/ cfg = MakeDefault /\ cfg' \in Configs
  /\ Start(cfg')

\* A read of the configuration fails. The node goes by the default one until
\* a command saves another or the board resets.
ReadFails ==
  /\ mode # NoMode
  /\ cfg' = MakeDefault /\ disturbed' = TRUE
  /\ UNCHANGED <<id, mode, cycle, ahead, runs, attempted>>

\* processNextIncomingPacket() may carry out a command that changes and saves
\* the modes and the reporting periods.
Configure == cfg' \in Configs \cup {cfg}

-----------------------------------------------------------------------------
Over == cycle >= mode.duration

\* tryTransitionOpMode() resets the board for a mode without a transition,
\* and at the end of a mode whose target the configuration does not have.
Broken ==
  \/ mode.target = NoMode
  \/ Over /\ cfg.modes[mode.target] = NoMode

\* Mutant of Breaks: the error is only logged.
BreaksOnlyLogged ==
  /\ mode # NoMode
  /\ Broken
  /\ id' = NoMode /\ mode' = NoMode
  /\ UNCHANGED <<cfg, cycle, ahead, runs, attempted, disturbed>>

Breaks ==
  /\ mode # NoMode
  /\ Broken
  /\ Reset

\* Mutant of Transition: the count of the cycles goes on.
TransitionKeepsCycle ==
  IF Over
  THEN /\ id' = mode.target /\ mode' = cfg.modes[mode.target]
       /\ cycle' = cycle + 1
  ELSE /\ UNCHANGED <<id, mode>>
       /\ cycle' = cycle + 1

\* tryTransitionOpMode() and the count of the cycles at the end of run().
Transition ==
  IF Over
  THEN /\ id' = mode.target /\ mode' = cfg.modes[mode.target]
       /\ cycle' = 1
  ELSE /\ UNCHANGED <<id, mode>>
       /\ cycle' = cycle + 1

\* tryReport() looks up the period of the mode that the run is in.
Period(p) == cfg'.period[p][id']

Due(p) == Period(p) # NoEntry /\ ahead[p] = 0

\* Mutant of NextMinute: a report that has to be sent again is due at once.
NextMinuteNow(p, ok) == IF ok THEN Period(p) ELSE 0

\* In how many minutes the port is due again.  A report that is incomplete
\* or was not sent is tried again in one minute.
NextMinute(p, ok) == IF ok THEN Period(p) ELSE 1

\* d minutes pass from one run to the next: more than one in a run that starts
\* the Pi or waits for a modem, and past every minute noted when the 32 bits
\* of the milliseconds wrap.
Elapsed(d) ==
  /\ d = 0 => runs < RunsPerMinute - 1
  /\ runs' = IF d = 0 THEN runs + 1 ELSE 0
  /\ disturbed' = (disturbed \/ d > 1)

Later(n, d) == IF n >= d THEN n - d ELSE Missed

\* processReportingRoutines(): the reports of the ports in ok are sent, or are
\* given up because the routine failed.
Report(ok, d) ==
  LET due == {p \in Port : Due(p)}
  IN /\ ok \subseteq due
     /\ attempted' = due
     /\ ahead' = [p \in Port |->
                    Later(IF p \in due THEN NextMinute(p, p \in ok) ELSE ahead[p], d)]

Run ==
  /\ mode # NoMode
  /\ ~Broken
  /\ Transition
  /\ Configure
  /\ \E ok \in SUBSET Port, d \in 0 .. MaxJump : Elapsed(d) /\ Report(ok, d)

Next == Run \/ Breaks \/ Reset \/ ReadFails

\* The scheduler calls run() for ever.
Spec == Init /\ [][Next]_vars /\ WF_vars(Run \/ Breaks)

-----------------------------------------------------------------------------
\* The types of the state.
TypeOK ==
  /\ cfg \in Configs \cup {MakeDefault}
  /\ id \in ModeId \cup {NoMode}
  /\ mode \in Mode \cup {NoMode}
  /\ cycle \in 0 .. MaxDuration + 1
  /\ ahead \in [Port -> Missed .. MaxPeriod + 1]
  /\ runs \in 0 .. RunsPerMinute - 1
  /\ attempted \subseteq Port
  /\ disturbed \in BOOLEAN

\* The active mode of every configuration exists.
Startable == \A c \in Configs : c.modes[c.active] # NoMode

\* However often the configuration changes under a node that works with a
\* copy of an old mode, the node is never left without a mode if the
\* configurations are Startable.
Operating == mode # NoMode /\ id # NoMode

\* No mode outlasts its duration: the count of the runs starts afresh with
\* every mode and a change of the configuration does not touch the copy that
\* it is compared with.  Only a mode that lasts for no run sees one, if it is
\* entered by a transition.
ModeLasts ==
  [][Run /\ Over => cycle = mode.duration \/ (mode.duration = 0 /\ cycle = 1)]_vars

\* The port has a period for every mode of every configuration.
Reports(p) == \A c \in Configs, i \in ModeId : c.period[p][i] # NoEntry

\* Every port that has its periods goes on reporting for ever, however many of
\* its reports are incomplete or not sent, however the modes and the
\* configurations follow each other and whenever the board is reset; only a
\* jump of the clock or the default configuration can silence it.
ReportsGoOn ==
  \A p \in Port : Reports(p) /\ <>[]~disturbed => []<>(p \in attempted)
=============================================================================
