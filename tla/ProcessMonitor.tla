--------------------------- MODULE ProcessMonitor ---------------------------
(***************************************************************************)
(* The monitor that runs beside an app's dev server in its container       *)
(* (container/process-monitor.ts) and the command that owns it             *)
(* (ProcessRunner and ProcessCommands.start in container/cli-tools.ts).    *)
(*                                                                         *)
(* The monitor is one JavaScript process: a handler runs from one await to *)
(* the next without interruption, so each action below is the part of a    *)
(* handler between two awaits.  Most awaits are appends to the log file,   *)
(* and each of them lets the child's exit, the restart timer, a health     *)
(* check or the shutdown come in between.                                  *)
(*                                                                         *)
(* Left out: the output buffers and log lines, the error store, and the    *)
(* events nobody acts on.  Time is left out too: whether a run was long,   *)
(* silent or past its startup grace is a choice.                           *)
(***************************************************************************)
EXTENDS Integers, FiniteSets

CONSTANTS
    MaxRestarts,  \* options.maxRestarts
    LongRuns,     \* bound: only the first LongRuns children may run for more
                  \* than STABILITY_THRESHOLD_MS
    Threshold,    \* PORT_FAILURE_THRESHOLD
    Checks        \* health checks that may be under way at once

ASSUME MonitorAssumption ==
    /\ MaxRestarts \in Nat
    /\ LongRuns \in Nat
    /\ Threshold \in Nat \ {0}

VARIABLES
    state,         \* the monitor's ProcessState
    child,         \* this.childProcess: the number of the last child, 0 before
    proc,          \* what has become of each child
    restartCount,
    stable,        \* the run that ended last was longer than the threshold
    timer,         \* restartTimer is armed
    callback,      \* its callback awaits the log before it calls start()
    start,         \* where start() waits
    runner,        \* the command: it launches, runs, shuts down, is gone
    stop,          \* where stop() waits, in its first or second call
    healthTimer,   \* healthCheckTimer is set
    bound,         \* portBindConfirmed
    failures,      \* portFailureCount, not counted past Threshold
    restarting,    \* healthRestartInProgress
    check,         \* each health check under way
    runs,          \* history: children since the last reset of restartCount
    asked          \* history: the last child when the shutdown was requested

vars == <<state, child, proc, restartCount, stable, timer, callback, start,
          runner, stop, healthTimer, bound, failures, restarting, check,
          runs, asked>>

health == <<healthTimer, bound, failures, restarting, check>>
history == <<runs, asked>>

Children == 1 .. LongRuns + MaxRestarts + 1

ProcessStates == {"stopped", "starting", "running", "stopping", "crashed"}

Live == {i \in Children : proc[i] \in {"alive", "term", "kill"}}

\* Where a health check and a call of stop() wait, and for whose exit.
CheckAt(step, overdue, target) ==
    [step |-> step, overdue |-> overdue, target |-> target]
StopAt(step, pass, target) == [step |-> step, pass |-> pass, target |-> target]

IdleCheck == CheckAt("idle", FALSE, 0)

TypeOK ==
    /\ state \in ProcessStates
    /\ child \in 0 .. LongRuns + MaxRestarts + 1
    /\ proc \in [Children -> {"unborn", "alive", "term", "kill", "gone"}]
    /\ restartCount \in 0 .. MaxRestarts
    /\ stable \in BOOLEAN
    /\ timer \in BOOLEAN
    /\ callback \in BOOLEAN
    /\ start \in {"idle", "log", "reset"}
    /\ runner \in {"new", "launching", "running", "stopping", "gone", "died"}
    /\ stop \in [step : {"idle", "log", "cancel", "kill", "said", "files"},
                 pass : 1 .. 2,
                 target : 0 .. LongRuns + MaxRestarts + 1]
    /\ healthTimer \in BOOLEAN
    /\ bound \in BOOLEAN
    /\ failures \in 0 .. Threshold
    /\ restarting \in BOOLEAN
    /\ check \in [Checks -> [step : {"idle", "probe", "clear", "log", "kill"},
                             overdue : BOOLEAN,
                             target : 0 .. LongRuns + MaxRestarts + 1]]
    /\ runs \in Nat
    /\ asked \in 0 .. LongRuns + MaxRestarts + 1

Init ==
    /\ state = "stopped"
    /\ child = 0
    /\ proc = [i \in Children |-> "unborn"]
    /\ restartCount = 0
    /\ stable = FALSE
    /\ timer = FALSE
    /\ callback = FALSE
    /\ start = "idle"
    /\ runner = "new"
    /\ stop = StopAt("idle", 1, 0)
    /\ healthTimer = FALSE
    /\ bound = FALSE
    /\ failures = 0
    /\ restarting = FALSE
    /\ check = [c \in Checks |-> IdleCheck]
    /\ runs = 0
    /\ asked = 0

-----------------------------------------------------------------------------
(* Helpers *)

Up == runner \notin {"gone", "died"}

\* childProcess is set and has neither an exit code nor a signal code
ChildRuns == child # 0 /\ proc[child] # "gone"

\* a signal to the child's process group; SIGTERM does not undo SIGKILL
Signal(sig) ==
    proc' = [proc EXCEPT ![child] =
                IF @ = "gone" \/ @ = "kill" THEN @ ELSE sig]

-----------------------------------------------------------------------------
(* start() *)

(* Mutant of BeginStart: start() does not know the state crashed. *)
BeginStartStopped ==
    /\ state = "stopped"
    /\ state' = "starting"
    /\ start' = "log"

\* start() up to its first await.
BeginStart ==
    /\ state \in {"stopped", "crashed"}
    /\ state' = "starting"
    /\ start' = "log"

\* `monitor-cli process start` makes the monitor and starts it.
Launch ==
    /\ runner = "new"
    /\ runner' = "launching"
    /\ BeginStart
    /\ UNCHANGED <<child, proc, restartCount, stable, timer, callback, stop,
                   health, history>>

\* The spawn and what follows it up to the next await: the child is alive, its
\* listeners are set, the health timer is set anew.
Spawn ==
    /\ child' = child + 1
    /\ proc' = [proc EXCEPT ![child + 1] = "alive"]
    /\ stable' = FALSE
    /\ start' = "idle"
    /\ healthTimer' = TRUE
    /\ state' = "running"
    /\ UNCHANGED runner

\* spawn() throws, or gives no pid and an 'error' event that finds no listener
\* yet and ends the monitor.  A first start that fails ends the command.
SpawnFails ==
    /\ start' = "idle"
    /\ UNCHANGED <<child, proc, stable, healthTimer>>
    /\ \/ /\ state' = "stopped"
          /\ runner' = IF runner = "launching" THEN "died" ELSE runner
       \/ /\ state' = state
          /\ runner' = "died"

(* Mutant of Earned: any restart counts as recovery. *)
EarnedByRestart == restartCount > 0

\* The last run was stable: the restart counter is to be reset.
Earned == stable

\* The log has "Starting process": the port's counters are reset, and after a
\* stable run the restart counter is to be, once the log says so.
StartLogged ==
    /\ Up
    /\ start = "log"
    /\ bound' = FALSE
    /\ failures' = 0
    /\ restarting' = FALSE
    /\ \/ /\ Earned
          /\ start' = "reset"
          /\ UNCHANGED <<state, child, proc, stable, healthTimer, runner, runs>>
       \/ /\ ~Earned
          /\ Spawn
          /\ runs' = runs + 1
       \/ /\ ~Earned
          /\ SpawnFails
          /\ UNCHANGED runs
    /\ UNCHANGED <<restartCount, timer, callback, stop, check, asked>>

\* The log has "resetting restart counter".
ResetLogged ==
    /\ Up
    /\ start = "reset"
    /\ restartCount' = 0
    /\ \/ Spawn /\ runs' = 1
       \/ SpawnFails /\ runs' = 0
    /\ UNCHANGED <<timer, callback, stop, bound, failures, restarting, check,
                   asked>>

\* The first start() has returned: the command installs its signal handlers.
Launched ==
    /\ runner = "launching"
    /\ child # 0
    /\ runner' = "running"
    /\ UNCHANGED <<state, child, proc, restartCount, stable, timer, callback,
                   start, stop, health, history>>

-----------------------------------------------------------------------------
(* The restart after a crash *)

\* scheduleRestart clears an older timer and sets a new one.
ScheduleRestart ==
    /\ restartCount' = restartCount + 1
    /\ timer' = TRUE

\* restartDelay is over: a monitor that is stopped or stopping gives up, any
\* other writes its log before it calls start().
TimerFires ==
    /\ Up
    /\ timer
    /\ timer' = FALSE
    /\ callback' = (callback \/ state \notin {"stopped", "stopping"})
    /\ UNCHANGED <<state, child, proc, restartCount, stable, start, runner,
                   stop, health, history>>

\* The log has "Restarting process now": start() looks at the state afresh.  If
\* it refuses, restart_failed is emitted and nothing else is done.
RestartLogged ==
    /\ Up
    /\ callback
    /\ callback' = FALSE
    /\ \/ BeginStart
       \/ /\ state \notin {"stopped", "crashed"}
          /\ UNCHANGED <<state, start>>
    /\ UNCHANGED <<child, proc, restartCount, stable, timer, runner, stop,
                   health, history>>

-----------------------------------------------------------------------------
(* What the child does *)

Outcomes == {"clean", "silent", "failed", "signal"}

(* Mutant of ShouldRestart: one restart too many. *)
ShouldRestartOnce(how) == restartCount <= MaxRestarts /\ how # "clean"

(* Mutant of ShouldRestart: the limit is not looked at. *)
ShouldRestartAlways(how) == how # "clean"

\* shouldRestartAfterExit: code 0 counts as a crash if the child was silent for
\* more than INACTIVITY_THRESHOLD_MS.
ShouldRestart(how) == restartCount < MaxRestarts /\ how # "clean"

\* Code 0 without a restart is a clean exit.
Unexpected(how) == how \in {"failed", "signal"} \/ ShouldRestart(how)

\* Child i exits and the exit handler runs.  The handler does not ask whether i
\* is the last child.
Exit(i, how) ==
    /\ i \in Live
    /\ proc' = [proc EXCEPT ![i] = "gone"]
    /\ \/ /\ Up
          /\ stable' \in BOOLEAN
          /\ stable' => i <= LongRuns
          /\ \/ /\ state = "running"
                /\ Unexpected(how)
                /\ state' = "crashed"
                /\ IF ShouldRestart(how)
                      THEN ScheduleRestart
                      ELSE UNCHANGED <<restartCount, timer>>
             \/ /\ state = "running" => ~Unexpected(how)
                /\ state' = "stopped"
                /\ UNCHANGED <<restartCount, timer>>
       \/ /\ ~Up
          /\ UNCHANGED <<stable, state, restartCount, timer>>
    /\ UNCHANGED <<child, callback, start, runner, stop, health, history>>

(* Mutant of ChildError: the 'error' handler schedules a restart too. *)
ChildErrorRestarts ==
    /\ Up
    /\ Live # {}
    /\ state \in {"running", "starting"}
    /\ restartCount < MaxRestarts
    /\ state' = "crashed"
    /\ ScheduleRestart
    /\ UNCHANGED <<child, proc, stable, callback, start, runner, stop, health,
                   history>>

\* An 'error' event of a child that goes on, as when it cannot be signalled.
ChildError ==
    /\ Up
    /\ Live # {}
    /\ state \in {"running", "starting"}
    /\ state' = "crashed"
    /\ UNCHANGED <<child, proc, restartCount, stable, timer, callback, start,
                   runner, stop, health, history>>

\* The child prints an error that handleFatalError kills it for.
FatalError ==
    /\ Up
    /\ state = "running"
    /\ ChildRuns
    /\ Signal("term")
    /\ UNCHANGED <<state, child, restartCount, stable, timer, callback, start,
                   runner, stop, health, history>>

-----------------------------------------------------------------------------
(* Health checks *)

\* The interval starts a check.  It is longer than PORT_PROBE_TIMEOUT_MS, so
\* that no two checks probe at once.
BeginCheck(c) ==
    /\ Up
    /\ healthTimer
    /\ state = "running"
    /\ check[c].step = "idle"
    /\ \A d \in Checks : check[d].step # "probe"
    /\ \E overdue \in BOOLEAN :
          check' = [check EXCEPT ![c] = CheckAt("probe", overdue, 0)]
    /\ UNCHANGED <<state, child, proc, restartCount, stable, timer, callback,
                   start, runner, stop, healthTimer, bound, failures,
                   restarting, history>>

\* The port answers the probe.
PortAnswers(c) ==
    /\ Up
    /\ check[c].step = "probe"
    /\ bound' = TRUE
    /\ check' = [check EXCEPT ![c] = CheckAt("clear", FALSE, 0)]
    /\ UNCHANGED <<state, child, proc, restartCount, stable, timer, callback,
                   start, runner, stop, healthTimer, failures, restarting,
                   history>>

\* The log has what changed: the failures are cleared.
FailuresCleared(c) ==
    /\ Up
    /\ check[c].step = "clear"
    /\ failures' = 0
    /\ restarting' = FALSE
    /\ check' = [check EXCEPT ![c] = IdleCheck]
    /\ UNCHANGED <<state, child, proc, restartCount, stable, timer, callback,
                   start, runner, stop, healthTimer, bound, history>>

\* The port does not answer: the failure counts once the port was bound, or the
\* grace was over when the check began; enough of them ask for a restart.
PortFails(c) ==
    /\ Up
    /\ check[c].step = "probe"
    /\ failures' = IF (bound \/ check[c].overdue) /\ failures < Threshold
                     THEN failures + 1 ELSE failures
    /\ IF /\ bound \/ check[c].overdue
          /\ failures' = Threshold
          /\ ~restarting
          /\ state = "running"
         THEN check' = [check EXCEPT ![c] = CheckAt("log", FALSE, 0)]
         ELSE check' = [check EXCEPT ![c] = IdleCheck]
    /\ UNCHANGED <<state, child, proc, restartCount, stable, timer, callback,
                   start, runner, stop, healthTimer, bound, restarting,
                   history>>

\* The log has "Health-triggered restart": killProcess, whatever has become of
\* the child meanwhile.
HealthKills(c) ==
    /\ Up
    /\ check[c].step = "log"
    /\ restarting' = TRUE
    /\ \/ /\ ChildRuns
          /\ Signal("term")
          /\ check' = [check EXCEPT ![c] = CheckAt("kill", FALSE, child)]
       \/ /\ ~ChildRuns
          /\ check' = [check EXCEPT ![c] = IdleCheck]
          /\ UNCHANGED proc
    /\ UNCHANGED <<state, child, restartCount, stable, timer, callback, start,
                   runner, stop, healthTimer, bound, failures, history>>

(* Mutant of KillEnds: the timeout resolves without SIGKILL. *)
KillGivesUp(target) == UNCHANGED proc

(* Mutant of KillEnds: no timeout, only the exit resolves. *)
KillWaits(target) == proc[target] = "gone" /\ UNCHANGED proc

\* killProcess of a child resolves: it has exited, or killTimeout is over and the
\* child there is now gets SIGKILL.
KillEnds(target) ==
    \/ proc[target] = "gone" /\ UNCHANGED proc
    \/ proc[target] # "gone" /\ Signal("kill")

\* The health check's killProcess resolves.
HealthKillEnds(c) ==
    /\ Up
    /\ check[c].step = "kill"
    /\ check' = [check EXCEPT ![c] = IdleCheck]
    /\ KillEnds(check[c].target)
    /\ UNCHANGED <<state, child, restartCount, stable, timer, callback, start,
                   runner, stop, healthTimer, bound, failures, restarting,
                   history>>

-----------------------------------------------------------------------------
(* stop(), which the command calls twice: itself and through cleanup() *)

(* Mutant of StopCalled: nothing is left to do for a crashed monitor either. *)
StopCalledCrashed(pass, s) ==
    IF s \in {"stopped", "starting", "crashed"}
      THEN StopAt("files", 2, 0)
      ELSE StopAt("log", pass, 0)

\* stop() up to its first await, when the state is s: nothing is left to do for
\* a stopped monitor, and one that is starting refuses.
StopCalled(pass, s) ==
    IF s \in {"stopped", "starting"}
      THEN StopAt("files", 2, 0)
      ELSE StopAt("log", pass, 0)

\* stop() returns: whatever it says, the command goes on to cleanup(), which
\* clears the timers and calls stop() again, and then to removing the log file.
StopReturns ==
    IF stop.pass = 1
      THEN /\ timer' = FALSE
           /\ healthTimer' = FALSE
           /\ stop' = StopCalled(2, state')
      ELSE /\ stop' = StopAt("files", 2, 0)
           /\ UNCHANGED <<timer, healthTimer>>

\* SIGTERM, SIGINT or SIGHUP: gracefulShutdown, once.
Shutdown ==
    /\ runner = "running"
    /\ runner' = "stopping"
    /\ asked' = child
    /\ UNCHANGED state
    /\ \/ /\ state \in {"stopped", "starting"}
          /\ StopReturns
       \/ /\ state \notin {"stopped", "starting"}
          /\ stop' = StopCalled(1, state)
          /\ UNCHANGED <<timer, healthTimer>>
    /\ UNCHANGED <<child, proc, restartCount, stable, callback, start, bound,
                   failures, restarting, check, runs>>

\* killProcess has nothing to wait for any more: unless the exit handler did,
\* stop() makes the state stopped and logs before it returns.
AfterKill(s) ==
    \/ /\ s = "stopping"
       /\ state' = "stopped"
       /\ stop' = StopAt("said", stop.pass, 0)
       /\ UNCHANGED timer
       /\ healthTimer' = FALSE
    \/ /\ s # "stopping"
       /\ state' = s
       /\ StopReturns

\* SIGTERM, and killProcess waits for the exit.
Terminate ==
    /\ ChildRuns
    /\ Signal("term")
    /\ stop' = StopAt("kill", stop.pass, child)
    /\ healthTimer' = FALSE

\* The log has "Stop requested".  The state becomes stopping whatever it was by
\* now; a restart that is due is cancelled, which is logged too.
StopLogged ==
    /\ Up
    /\ stop.step = "log"
    /\ \/ /\ timer
          /\ state' = "stopping"
          /\ timer' = FALSE
          /\ stop' = StopAt("cancel", stop.pass, 0)
          /\ UNCHANGED <<proc, healthTimer>>
       \/ /\ ~timer
          /\ state' = "stopping"
          /\ Terminate
          /\ UNCHANGED timer
       \/ /\ ~timer
          /\ ~ChildRuns
          /\ AfterKill("stopping")
          /\ UNCHANGED proc
    /\ UNCHANGED <<child, restartCount, stable, callback, start, runner, bound,
                   failures, restarting, check, history>>

\* The log has "Cancelled pending restart".
CancelLogged ==
    /\ Up
    /\ stop.step = "cancel"
    /\ \/ Terminate /\ UNCHANGED <<state, timer>>
       \/ ~ChildRuns /\ AfterKill(state) /\ UNCHANGED proc
    /\ UNCHANGED <<child, restartCount, stable, callback, start, runner, bound,
                   failures, restarting, check, history>>

\* Its killProcess resolves.
StopKillEnds ==
    /\ Up
    /\ stop.step = "kill"
    /\ KillEnds(stop.target)
    /\ AfterKill(state)
    /\ UNCHANGED <<child, restartCount, stable, callback, start, runner, bound,
                   failures, restarting, check, history>>

\* The log has "Process stopped gracefully": stop() returns.
StopSaid ==
    /\ Up
    /\ stop.step = "said"
    /\ UNCHANGED state
    /\ StopReturns
    /\ UNCHANGED <<child, proc, restartCount, stable, callback, start, runner,
                   bound, failures, restarting, check, history>>

\* The log file is removed and the command exits.
Exited ==
    /\ Up
    /\ stop.step = "files"
    /\ runner' = "gone"
    /\ UNCHANGED <<state, child, proc, restartCount, stable, timer, callback,
                   start, stop, health, history>>

\* The command is killed, or gets a signal before its handlers are installed.
Died ==
    /\ Up
    /\ runner # "new"
    /\ runner' = "died"
    /\ UNCHANGED <<state, child, proc, restartCount, stable, timer, callback,
                   start, stop, health, history>>

-----------------------------------------------------------------------------
(* The specification *)

Starting == Launch \/ StartLogged \/ ResetLogged \/ Launched

Restarting == TimerFires \/ RestartLogged

Checking(c) ==
    \/ BeginCheck(c) \/ PortAnswers(c) \/ FailuresCleared(c)
    \/ PortFails(c) \/ HealthKills(c) \/ HealthKillEnds(c)

Stopping ==
    StopLogged \/ CancelLogged \/ StopKillEnds \/ StopSaid \/ Exited

Next ==
    \/ Starting
    \/ Restarting
    \/ \E i \in Children, how \in Outcomes : Exit(i, how)
    \/ ChildError
    \/ FatalError
    \/ \E c \in Checks : Checking(c)
    \/ Shutdown
    \/ Stopping
    \/ Died

Spec == Init /\ [][Next]_vars

\* Appends to the log, timers and SIGKILL do their work in the end.  A child need
\* not exit, SIGTERM or not, and nobody need ask for a shutdown.
FairSpec ==
    /\ Spec
    /\ WF_vars(Starting)
    /\ WF_vars(TimerFires)
    /\ WF_vars(RestartLogged)
    /\ WF_vars(Stopping)

-----------------------------------------------------------------------------
(* Properties *)

\* No two children run at once: each start is paid for by an exit, through the
\* timer and its callback, also when stop(), a health check or a late exit comes
\* between (restartTimer, process-monitor.ts, "Fix H6").
OneChild == \A i, j \in Live : i = j

\* A monitor that says stopped has left no child but one it has sent SIGKILL.
StoppedMeansDead == state = "stopped" => \A i \in Live : proc[i] = "kill"

\* Since the last reset of the counter at most maxRestarts children were started
\* after the first (monitor-cli.test.ts, "should respect maxRestarts limit").
RestartsBounded == runs <= MaxRestarts + 1

\* A child that outlives a graceful shutdown unharmed was spawned after the
\* shutdown was requested: one that ran then is left only with SIGKILL sent to it.
OnlyRestartsSurvive ==
    runner = "gone" => \A i \in Live : i > asked \/ proc[i] = "kill"

\* A graceful shutdown comes to its end, whatever the child does with SIGTERM
\* and whichever restart or health check it meets ("Fix C1").
ShutdownEnds == runner = "stopping" ~> ~Up

\* A bound on the awaits a shutdown has before it: four in each call of stop()
\* and one for the log file.
StopSteps == CASE stop.step = "log"    -> 5
               [] stop.step = "cancel" -> 4
               [] stop.step = "kill"   -> 3
               [] stop.step = "said"   -> 2
               [] stop.step = "files"  -> 1

AwaitsLeft == IF runner # "stopping" THEN 0
              ELSE StopSteps + (IF stop.pass = 1 THEN 4 ELSE 0)

\* gracefulShutdown, stop() and cleanup() run down: each await that ends leaves
\* fewer, and no exit, restart or health check that comes between adds any.
ShutdownRunsDown ==
    [][runner = "stopping" => /\ AwaitsLeft \in Nat
                              /\ Stopping => AwaitsLeft' < AwaitsLeft
                              /\ AwaitsLeft' <= AwaitsLeft]_vars

\* A crash that is announced with willRestart is followed by a running child,
\* or by a monitor that is stopped or gone.
CrashRestarted ==
    timer ~> state \in {"running", "stopped"} \/ ~Up

\* The monitor is a supervisor: whatever start(), stop(), timers, health checks and
\* late exits do at each await, one child runs at a time, a series of starts is
\* bounded and begins anew only after a run that earned it.
Abstract == INSTANCE Supervisor WITH
    alive <- Live # {}, started <- runs, earned <- stable, gone <- ~Up

Supervises == Abstract!Spec
=============================================================================
