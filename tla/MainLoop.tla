------------------------------ MODULE MainLoop -----------------------------
(***************************************************************************)
(* The life of the board: the set-up, then prod_loop(), which runs the     *)
(* TaskScheduler every LOOP_INTERVAL_MS.  A task works, waits (waitFor()   *)
(* feeds the watchdog), calls what blocks (a modem, the card; nothing      *)
(* feeds the watchdog), sleeps or handles an error.  A watchdog that is    *)
(* not fed for its timeout resets the board.                               *)
(*                                                                         *)
(* A line of the log is appended to a file on the card. When that file     *)
(* cannot be opened, appendBytesToFile() logs the error, which is a line   *)
(* of the log: the calls nest until an open succeeds or the stack is full. *)
(*                                                                         *)
(* Time is in ticks.  millis() is a number below Wrap (2^32 in the code),  *)
(* does not advance while the board sleeps, and starts at 0.               *)
(***************************************************************************)
EXTENDS Boot, FiniteSets

CONSTANTS
  Interval,      \* of each task, in the order of addTask()
  SleepingTask,  \* the task that may put the board to sleep, the battery's
  LoopInterval,  \* LOOP_INTERVAL_MS
  Wrap,          \* of millis()
  SetupTimes,    \* how long the set-up may take
  StackLimit,    \* the nested lines of the log that the stack has room for
  MaxBusy        \* bound: the time in a run after which no call or wait begins

Task == 1 .. Len(Interval)
Longest == MaxBusy + WatchdogTimeout

ASSUME MainLoopAssumption ==
  /\ Interval \in Seq(Nat) /\ SleepingTask \in Task
  /\ LoopInterval \in Nat /\ LoopInterval < WatchdogTimeout
  /\ MaxBusy \in Nat /\ Wrap \in Nat /\ StackLimit \in Nat \ {0}
  /\ \A t \in Task : Interval[t] + LoopInterval + Longest < Wrap
  /\ SetupTimes \subseteq 1 .. Wrap - 1

VARIABLES
  clock,     \* millis()
  loopTime,  \* lastTime of executeEvery()
  lastTime,  \* of each task
  now,       \* in TaskScheduler::run(), and in executeEvery()
  task,      \* the task that is looked at
  busy,      \* history: how long the last run of the scheduler has taken
  age,       \* history: how long ago the run began that last executed a task
  lines      \* the nested calls of Logger::do_log(): the appends each has left

loopVars == <<clock, loopTime, lastTime, now, task, busy, age>>
vars == <<bootVars, loopVars, lines>>

TypeOK ==
  /\ TypeOKBoot
  /\ at \in ToSet(Stages) \cup {"reset", "idle", "tasks", "working", "blocked", "hung",
                                "logging", "waiting", "asleep", "slept", "off"}
  /\ {clock, loopTime, now} \subseteq 0 .. Wrap - 1
  /\ lastTime \in [Task -> 0 .. Wrap - 1]
  /\ task \in 1 .. Len(Interval) + 1
  /\ busy \in 0 .. Longest /\ age \in [Task -> 0 .. Wrap + Longest]
  /\ lines \in Seq(0 .. 2) /\ Len(lines) <= StackLimit

LoopStarts ==
  /\ loopTime' = 0 /\ lastTime' = [t \in Task |-> 0] /\ now' = 0
  /\ task' = 1 /\ busy' = 0 /\ age' = [t \in Task |-> 0]
  /\ lines' = <<>>

Init ==
  /\ InitBoot
  /\ clock = 0 /\ loopTime = 0 /\ lastTime = [t \in Task |-> 0] /\ now = 0
  /\ task = 1 /\ busy = 0 /\ age = [t \in Task |-> 0]
  /\ lines = <<>>

-----------------------------------------------------------------------------
(* The board. *)

\* The watchdog is enabled last, after the tasks were added.
EnableWatchdog ==
  /\ at = "watchdog"
  /\ at' = "idle"
  /\ armed' = WatchdogTimeout /\ unfed' = 0
  /\ clock' \in SetupTimes
  /\ UNCHANGED <<stage, tries, failed, delayed, creds, provisions, faults,
                 loopTime, lastTime, now, task, busy, age, lines>>

\* The watchdog has not been fed in time.
Bites ==
  /\ armed > 0 /\ unfed >= armed
  /\ Restart /\ LoopStarts /\ clock' = 0
  /\ UNCHANGED faults

\* The power fails, and comes back.
PowerFails ==
  /\ Fault
  /\ Restart /\ LoopStarts /\ clock' = 0

\* A tick of the clock while the watchdog is not fed.
Elapses ==
  /\ armed > 0 => unfed < armed
  /\ clock' = (clock + 1) % Wrap
  /\ unfed' = IF armed > 0 THEN unfed + 1 ELSE 0
  /\ age' = [t \in Task |-> age[t] + 1]

Goes(place) ==
  /\ at' = place
  /\ UNCHANGED <<stage, tries, failed, delayed, creds, provisions, faults, lines>>

-----------------------------------------------------------------------------
(* prod_loop() and TaskScheduler::run() *)

\* executeEvery() calls the scheduler.
LoopDue == loopTime = 0 \/ (clock - loopTime) % Wrap >= LoopInterval

Idle ==
  /\ at = "idle" /\ ~LoopDue
  /\ Elapses /\ Goes("idle")
  /\ UNCHANGED <<armed, loopTime, lastTime, now, task, busy>>

RunBegins ==
  /\ at = "idle" /\ LoopDue
  /\ Goes("tasks")
  /\ now' = clock /\ unfed' = 0 /\ task' = 1 /\ busy' = 0
  /\ UNCHANGED <<armed, clock, loopTime, lastTime, age>>

\* Mutant of Due: the times are compared, and not their distance.
DueLater(t) == now >= lastTime[t] + Interval[t]

Due(t) == (now - lastTime[t]) % Wrap >= Interval[t]

Executes ==
  /\ at = "tasks" /\ task <= Len(Interval) /\ Due(task)
  /\ Goes("working")
  /\ UNCHANGED <<armed, unfed, loopVars>>

Skips ==
  /\ at = "tasks" /\ task <= Len(Interval) /\ ~Due(task)
  /\ task' = task + 1
  /\ UNCHANGED <<bootVars, clock, loopTime, lastTime, now, busy, age, lines>>

\* Mutant of TaskEnds: the watchdog is fed once per run.
TaskEndsUnfed ==
  /\ at \in {"working", "slept"}
  /\ Goes("tasks")
  /\ lastTime' = [lastTime EXCEPT ![task] = now]
  /\ age' = [age EXCEPT ![task] = busy]
  /\ task' = task + 1
  /\ UNCHANGED <<armed, unfed, clock, loopTime, now, busy>>

\* A task is over. Its time is that of the beginning of the run.
TaskEnds ==
  /\ at \in {"working", "slept"}
  /\ Goes("tasks")
  /\ lastTime' = [lastTime EXCEPT ![task] = now]
  /\ age' = [age EXCEPT ![task] = busy]
  /\ task' = task + 1 /\ unfed' = 0
  /\ UNCHANGED <<armed, clock, loopTime, now, busy>>

RunEnds ==
  /\ at = "tasks" /\ task > Len(Interval)
  /\ Goes("idle")
  /\ loopTime' = now
  /\ UNCHANGED <<armed, unfed, clock, lastTime, now, task, busy, age>>

-----------------------------------------------------------------------------
(* What a task does. *)

\* A call that blocks for a tick or more, or that hangs.
Blocks ==
  /\ \/ at = "working" /\ busy < MaxBusy /\ (Goes("blocked") \/ Goes("hung"))
     \/ at \in {"blocked", "hung"} /\ busy < Longest /\ Goes(at)
  /\ Elapses
  /\ busy' = busy + 1
  /\ UNCHANGED <<armed, loopTime, lastTime, now, task>>

\* waitFor() feeds the watchdog all the while.
Waits ==
  /\ at \in {"waiting", "working"} /\ busy < MaxBusy
  /\ clock' = (clock + 1) % Wrap /\ unfed' = 0
  /\ age' = [t \in Task |-> age[t] + 1]
  /\ Goes("waiting")
  /\ busy' = busy + 1
  /\ UNCHANGED <<armed, loopTime, lastTime, now, task>>

Returns ==
  /\ at \in {"blocked", "waiting"}
  /\ Goes("working")
  /\ UNCHANGED <<armed, unfed, loopVars>>

\* A task logs, and the file of the log does not open. A line and its end are
\* appended one by one, with waits that are too short to feed the watchdog.
\* (A log that goes well is one of the calls that block.)
Logs ==
  /\ at = "working" /\ busy < MaxBusy /\ Fault
  /\ at' = "logging" /\ lines' = <<2>>
  /\ UNCHANGED <<stage, tries, failed, armed, unfed, delayed, creds, provisions, loopVars>>

\* The calls of the logger that have no append left return, from the inside.
Unwound(calls) ==
  LET done == {i \in 1 .. Len(calls) : \A j \in i .. Len(calls) : calls[j] = 0}
  IN SubSeq(calls, 1, Len(calls) - Cardinality(done))

\* appendBytesToFile() of the innermost call, and the error that it logs when
\* the file does not open. A stack that is full is as good as a call that hangs.
AppendsLine ==
  LET taken == [lines EXCEPT ![Len(lines)] = @ - 1]
  IN /\ at = "logging"
     /\ \/ lines' = Unwound(taken) /\ at' = IF lines' = <<>> THEN "working" ELSE "logging"
        \/ Len(lines) < StackLimit /\ lines' = Append(taken, 2) /\ at' = "logging"
        \/ Len(lines) = StackLimit /\ lines' = <<>> /\ at' = "hung"
     /\ UNCHANGED <<stage, tries, failed, armed, unfed, delayed, creds, provisions, faults,
                    loopVars>>

\* A task handles an error.
TaskFails ==
  /\ at = "working"
  /\ Fault /\ HandleError
  /\ UNCHANGED <<stage, tries, failed, creds, provisions, loopVars, lines>>

\* sleepFor(), with the watchdog disabled; for ever if the battery is low.
Sleeps ==
  /\ at = "working" /\ task = SleepingTask
  /\ Goes("asleep") \/ Goes("off")
  /\ armed' = 0 /\ unfed' = 0
  /\ UNCHANGED loopVars

\* Mutant of Wakes: the watchdog stays disabled.
WakesUnguarded ==
  /\ at = "asleep"
  /\ Goes("slept")
  /\ UNCHANGED <<armed, unfed, loopVars>>

\* It is the last thing that the task does.
Wakes ==
  /\ at = "asleep"
  /\ Goes("slept")
  /\ armed' = WatchdogTimeout /\ unfed' = 0
  /\ UNCHANGED loopVars

-----------------------------------------------------------------------------
Thread ==
  \/ (SetUpStep \/ PerformReset) /\ UNCHANGED <<loopVars, lines>>
  \/ EnableWatchdog \/ Bites
  \/ Idle \/ RunBegins \/ Executes \/ Skips \/ TaskEnds \/ RunEnds
  \/ Blocks \/ Waits \/ Returns \/ Sleeps \/ Wakes
  \/ AppendsLine

Next == Thread \/ Logs \/ TaskFails \/ PowerFails

Spec == Init /\ [][Next]_vars /\ WF_vars(Thread)

-----------------------------------------------------------------------------
\* The main loop is never entered with a part that could not be set up and
\* that the node needs: the reset of the ErrorHandler comes before that.
UpMeansReady == at = "idle" => failed \cap Vital = {}

\* The watchdog does not bite between two runs, however long the last call of
\* the tasks before has blocked.
IdleIsFed == at = "idle" => unfed < armed

\* A task that is due is executed: none is older between two runs than its
\* interval and the time that a run or the pause takes, also when millis()
\* starts again from 0.
Punctual ==
  at = "idle" =>
    \A t \in Task :
      age[t] <= Interval[t] + (IF busy > LoopInterval THEN busy ELSE LoopInterval)

\* Whatever fails, blocks or is interrupted on the way, the node comes back to
\* its main loop, unless it sleeps for ever.
ComesBack == []<>(at \in {"idle", "off"})
=============================================================================
