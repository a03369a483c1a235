------------------------- MODULE OperationModesProofs ----------------------
(***************************************************************************)
(* What is proved of the operation modes for every set of ports, modes and *)
(* configurations.                                                         *)
(***************************************************************************)
EXTENDS OperationModes, TLAPS

\* What getNodeConfiguration() may return.
Returned == Configs \cup {MakeDefault}

\* The default configuration is one, and it has its active mode.
LEMMA DefaultType == MakeDefault \in Config /\ MakeDefault.modes[MakeDefault.active] # NoMode
<1>1. [target |-> DefaultMode, duration |-> 0] \in Mode
  BY ModesAssumption DEF Mode
<1>2. \A i \in ModeId :
        (IF i = DefaultMode THEN [target |-> i, duration |-> 0] ELSE NoMode) \in Mode \cup {NoMode}
  BY <1>1
<1> QED
  BY <1>1, <1>2, ModesAssumption DEF MakeDefault, Config

\* What a configuration holds: the id of the active mode, and an entry or none
\* for every id.
LEMMA EntryType ==
  ASSUME NEW c \in Returned
  PROVE  /\ c.active \in ModeId
         /\ \A i \in ModeId : c.modes[i] \in Mode \cup {NoMode}
<1>1. c \in Config
  BY ModesAssumption, DefaultType DEF Returned
<1> QED
  BY <1>1 DEF Config

\* The minute for a port stays within its bound, whether the port was due or
\* not and by however much the clock moves.
LEMMA MinuteType ==
  ASSUME NEW c \in Returned, NEW p \in Port, NEW i \in ModeId,
         NEW n \in Missed .. MaxPeriod + 1, NEW d \in 0 .. MaxJump, NEW ok \in BOOLEAN
  PROVE  /\ Later(n, d) \in Missed .. MaxPeriod + 1
         /\ c.period[p][i] # NoEntry =>
              Later(IF ok THEN c.period[p][i] ELSE 1, d) \in Missed .. MaxPeriod + 1
<1>1. MaxPeriod \in Nat /\ MaxJump \in Nat
  BY ModesAssumption
<1>2. c.period[p][i] \in 0 .. MaxPeriod \cup {NoEntry}
  BY ModesAssumption, DefaultType DEF Config, Returned
<1>3. \A x \in Missed .. MaxPeriod + 1 : Later(x, d) \in Missed .. MaxPeriod + 1
  BY <1>1 DEF Later, Missed
<1>4. 1 \in Missed .. MaxPeriod + 1 /\ 0 .. MaxPeriod \subseteq Missed .. MaxPeriod + 1
  BY <1>1 DEF Missed
<1> QED
  BY <1>2, <1>3, <1>4

\* A start from any configuration leaves the types of the state intact.
LEMMA StartType ==
  ASSUME TypeOK, Reset
  PROVE  TypeOK'
<1>1. cfg' \in Returned /\ Start(cfg')
  BY DEF Reset, Returned, TypeOK
<1>2. cfg'.modes[cfg'.active] \in Mode \cup {NoMode} /\ cfg'.active \in ModeId
  BY <1>1, EntryType
<1>3. MaxPeriod \in Nat /\ MaxDuration \in Nat /\ RunsPerMinute \in Nat \ {0}
  BY ModesAssumption
<1>4. ahead' \in [Port -> Missed .. MaxPeriod + 1]
  BY <1>1, <1>3 DEF Start, Missed
<1>5. id' \in ModeId \cup {NoMode} /\ mode' \in Mode \cup {NoMode}
  BY <1>1, <1>2 DEF Start
<1>6. cycle' \in 0 .. MaxDuration + 1
  BY <1>1, <1>3 DEF Start
<1>7. runs' \in 0 .. RunsPerMinute - 1
  BY <1>1, <1>3 DEF Start
<1>8. attempted' \subseteq Port /\ disturbed' \in BOOLEAN
  BY <1>1 DEF Start
<1> QED
  BY <1>1, <1>4, <1>5, <1>6, <1>7, <1>8 DEF TypeOK, Returned

\* A run that goes through keeps the node in a mode: the one it is in, or the
\* target, which the configuration has.
LEMMA RunMode ==
  ASSUME TypeOK, id # NoMode, Run
  PROVE  /\ id' \in ModeId
         /\ mode' \in Mode
         /\ cycle' \in 1 .. MaxDuration + 1
<1>1. mode \in Mode /\ mode # NoMode /\ id \in ModeId /\ ~Broken /\ Transition
  BY DEF Run, TypeOK
<1>2. MaxDuration \in Nat
  BY ModesAssumption
<1>3. mode.duration \in 0 .. MaxDuration /\ cycle \in 0 .. MaxDuration + 1
  BY <1>1 DEF Mode, TypeOK
<1>4. CASE Over
  <2>1. mode.target \in ModeId /\ cfg.modes[mode.target] # NoMode
    BY <1>1, <1>4 DEF Broken, Mode
  <2>2. cfg.modes[mode.target] \in Mode
    BY <2>1, EntryType DEF TypeOK, Returned
  <2>3. id' = mode.target /\ mode' = cfg.modes[mode.target] /\ cycle' = 1
    BY <1>1, <1>4 DEF Transition
  <2> QED
    BY <1>2, <2>1, <2>2, <2>3
<1>5. CASE ~Over
  <2>1. id' = id /\ mode' = mode /\ cycle' = cycle + 1
    BY <1>1, <1>5 DEF Transition
  <2>2. cycle < mode.duration
    BY <1>3, <1>5 DEF Over
  <2> QED
    BY <1>1, <1>2, <1>3, <2>1, <2>2
<1> QED
  BY <1>4, <1>5

LEMMA InitType == Init => TypeOK
<1> SUFFICES ASSUME Init PROVE TypeOK
  OBVIOUS
<1>1. cfg.modes[cfg.active] \in Mode \cup {NoMode} /\ cfg.active \in ModeId
  BY EntryType DEF Init, Returned
<1>2. MaxPeriod \in Nat /\ MaxDuration \in Nat /\ RunsPerMinute \in Nat \ {0}
  BY ModesAssumption
<1>3. ahead \in [Port -> Missed .. MaxPeriod + 1]
  BY <1>2 DEF Init, Missed
<1>4. id \in ModeId \cup {NoMode} /\ mode \in Mode \cup {NoMode}
  BY <1>1 DEF Init
<1>5. cycle \in 0 .. MaxDuration + 1 /\ runs \in 0 .. RunsPerMinute - 1
  BY <1>2 DEF Init
<1> QED
  BY <1>3, <1>4, <1>5 DEF Init, TypeOK

\* A run that goes through leaves the types of the state intact.
LEMMA RunType ==
  ASSUME TypeOK, id # NoMode, Run
  PROVE  TypeOK'
<1>1. id' \in ModeId /\ mode' \in Mode /\ cycle' \in 1 .. MaxDuration + 1
  BY RunMode
<1>2. cfg' \in Returned
  BY DEF Run, Configure, TypeOK, Returned
<1>3. PICK ok \in SUBSET Port, d \in 0 .. MaxJump : Elapsed(d) /\ Report(ok, d)
  BY DEF Run
<1>4. runs' \in 0 .. RunsPerMinute - 1 /\ disturbed' \in BOOLEAN
  BY <1>3, ModesAssumption DEF Elapsed, TypeOK
<1>5. attempted' \subseteq Port
  BY <1>3 DEF Report, TypeOK
<1>6. ahead' \in [Port -> Missed .. MaxPeriod + 1]
  <2> DEFINE due == {p \in Port : Due(p)}
             next(p) == Later(IF p \in due THEN NextMinute(p, p \in ok) ELSE ahead[p], d)
  <2>1. ahead' = [p \in Port |-> next(p)]
    BY <1>3 DEF Report
  <2>2. ASSUME NEW p \in Port
        PROVE  next(p) \in Missed .. MaxPeriod + 1
    <3>1. CASE p \in due
      <4>1. Period(p) = cfg'.period[p][id'] /\ Period(p) # NoEntry
        BY <3>1 DEF Due, Period
      <4>2. next(p) = Later(IF p \in ok THEN cfg'.period[p][id'] ELSE 1, d)
        BY <3>1 DEF NextMinute, Period
      <4>3. (p \in ok) \in BOOLEAN /\ ahead[p] \in Missed .. MaxPeriod + 1
        BY DEF TypeOK
      <4> QED
        BY <1>1, <1>2, <4>1, <4>2, <4>3, MinuteType
    <3>2. CASE p \notin due
      <4>1. next(p) = Later(ahead[p], d)
        BY <3>2
      <4>2. ahead[p] \in Missed .. MaxPeriod + 1
        BY DEF TypeOK
      <4> QED
        BY <1>1, <1>2, <4>1, <4>2, MinuteType
    <3> QED
      BY <3>1, <3>2
  <2> QED
    BY <2>1, <2>2
<1>7. cycle' \in 0 .. MaxDuration + 1
  BY <1>1, ModesAssumption
<1> QED
  BY <1>1, <1>2, <1>4, <1>5, <1>6, <1>7 DEF TypeOK, Returned

\* The inductive invariant: besides the types, the node is without a mode in
\* both of its fields or in neither.
IInv == TypeOK /\ (id = NoMode <=> mode = NoMode)

LEMMA NextIInv == IInv /\ [Next]_vars => IInv'
<1> SUFFICES ASSUME IInv, [Next]_vars PROVE IInv'
  OBVIOUS
<1>1. CASE Run
  <2>1. id # NoMode
    BY <1>1 DEF Run, IInv
  <2>2. TypeOK'
    BY <1>1, <2>1, RunType DEF IInv
  <2>3. id' # NoMode /\ mode' # NoMode
    BY <1>1, <2>1, RunMode, ModesAssumption DEF IInv
  <2> QED
    BY <2>2, <2>3 DEF IInv
<1>2. CASE Reset
  <2>1. TypeOK'
    BY <1>2, StartType DEF IInv
  <2>2. cfg' \in Returned
    BY <2>1 DEF TypeOK, Returned
  <2>3. cfg'.active \in ModeId
    BY <2>2, EntryType
  <2>4. id' = NoMode <=> mode' = NoMode
    BY <1>2, <2>3, ModesAssumption DEF Reset, Start
  <2> QED
    BY <2>1, <2>4 DEF IInv
<1>3. CASE ReadFails
  BY <1>3 DEF ReadFails, IInv, TypeOK
<1>4. CASE UNCHANGED vars
  BY <1>4 DEF vars, IInv, TypeOK
<1> QED
  BY <1>1, <1>2, <1>3, <1>4 DEF Next, Breaks

LEMMA InitIInv == Init => IInv
<1> SUFFICES ASSUME Init PROVE IInv
  OBVIOUS
<1>1. cfg.active \in ModeId
  BY EntryType DEF Init, Returned
<1>2. id = NoMode <=> mode = NoMode
  BY <1>1, ModesAssumption DEF Init
<1> QED
  BY <1>2, InitType DEF Init, IInv

\* The state keeps its types, for any configurations and however the clock
\* jumps: in particular no count of runs in a mode outgrows the longest mode
\* (NodeOperationRunner.cpp:156-178).
THEOREM TypeCorrect == Spec => []TypeOK
<1>1. IInv => TypeOK
  BY DEF IInv
<1> QED
  BY InitIInv, NextIInv, <1>1, PTL DEF Spec

-----------------------------------------------------------------------------
\* A node that is only ever given configurations whose active mode exists is
\* never left without a mode, however often it falls back to the default one
\* and whatever the targets of the modes are: the board is reset at the end of
\* a mode without a target and starts in the active one
\* (NodeOperationRunner.cpp:126-136, 158-176).
THEOREM AlwaysOperating == ASSUME Startable PROVE Spec => []Operating
<1>1. Init => Operating
  <2> SUFFICES ASSUME Init PROVE Operating
    OBVIOUS
  <2>1. cfg.modes[cfg.active] # NoMode /\ cfg.active \in ModeId
    BY EntryType, DefaultType DEF Startable, Init, Returned
  <2> QED
    BY <2>1, ModesAssumption DEF Init, Operating
<1>2. IInv /\ Operating /\ [Next]_vars => Operating'
  <2> SUFFICES ASSUME IInv, Operating, [Next]_vars PROVE Operating'
    OBVIOUS
  <2>1. CASE Run
    BY <2>1, RunMode, ModesAssumption DEF IInv, Operating
  <2>2. CASE Reset
    <3>1. cfg' \in Returned /\ Start(cfg')
      BY <2>2 DEF Reset, Returned, IInv, TypeOK
    <3>2. cfg'.modes[cfg'.active] # NoMode /\ cfg'.active \in ModeId
      BY <3>1, EntryType, DefaultType DEF Startable, Returned
    <3> QED
      BY <3>1, <3>2, ModesAssumption DEF Start, Operating
  <2>3. CASE ReadFails
    BY <2>3 DEF ReadFails, Operating
  <2>4. CASE UNCHANGED vars
    BY <2>4 DEF vars, Operating
  <2> QED
    BY <2>1, <2>2, <2>3, <2>4 DEF Next, Breaks
<1> QED
  BY InitIInv, NextIInv, <1>1, <1>2, PTL DEF Spec

-----------------------------------------------------------------------------
\* Between two runs the count of the cycles is at most the duration of the
\* mode, unless that is 0 and the mode was entered by a transition.
CountInv ==
  mode # NoMode => cycle <= mode.duration \/ (mode.duration = 0 /\ cycle = 1)

LEMMA NextCount == IInv /\ CountInv /\ [Next]_vars => CountInv'
<1> SUFFICES ASSUME IInv, CountInv, [Next]_vars, mode' # NoMode
             PROVE  cycle' <= mode'.duration \/ (mode'.duration = 0 /\ cycle' = 1)
  BY DEF CountInv
<1>1. mode' \in Mode
  BY NextIInv DEF IInv, TypeOK
<1>2. mode'.duration \in Nat
  BY <1>1, ModesAssumption DEF Mode
<1>3. CASE Run
  <2>1. mode \in Mode /\ Transition /\ cycle \in 0 .. MaxDuration + 1 /\ MaxDuration \in Nat
    BY <1>3, ModesAssumption DEF Run, IInv, TypeOK
  <2>2. mode.duration \in Nat /\ cycle \in Nat
    BY <2>1 DEF Mode
  <2>3. CASE Over
    BY <1>2, <2>1, <2>3 DEF Transition
  <2>4. CASE ~Over
    BY <2>1, <2>2, <2>4 DEF Transition, Over
  <2> QED
    BY <2>3, <2>4
<1>4. CASE Reset
  BY <1>2, <1>4 DEF Reset, Start
<1>5. CASE ReadFails \/ UNCHANGED vars
  BY <1>5 DEF ReadFails, vars, CountInv
<1> QED
  BY <1>3, <1>4, <1>5 DEF Next, Breaks

\* No mode outlasts its duration: a transition comes with the run in which the
\* count of the cycles reaches it, never later, whatever commands, failed
\* reads and resets come between (NodeOperationRunner.cpp:156-178).
THEOREM NoModeOutlasts == Spec => ModeLasts
<1>1. Init => CountInv
  <2> SUFFICES ASSUME Init, mode # NoMode PROVE cycle <= mode.duration
    BY DEF CountInv
  <2>1. mode \in Mode /\ cycle = 0
    BY InitType DEF Init, TypeOK
  <2> QED
    BY <2>1, ModesAssumption DEF Mode
<1>2. IInv /\ CountInv /\ [Next]_vars
        => [Run /\ Over => cycle = mode.duration \/ (mode.duration = 0 /\ cycle = 1)]_vars
  <2> SUFFICES ASSUME IInv, CountInv, Run, Over
               PROVE  cycle = mode.duration \/ (mode.duration = 0 /\ cycle = 1)
    OBVIOUS
  <2>1. mode \in Mode /\ mode # NoMode /\ cycle \in 0 .. MaxDuration + 1 /\ MaxDuration \in Nat
    BY ModesAssumption DEF Run, IInv, TypeOK
  <2>2. mode.duration \in Nat /\ cycle \in Nat
    BY <2>1 DEF Mode
  <2> QED
    BY <2>1, <2>2 DEF CountInv, Over
<1> QED
  BY InitIInv, NextIInv, NextCount, <1>1, <1>2, PTL DEF Spec, ModeLasts
=============================================================================
