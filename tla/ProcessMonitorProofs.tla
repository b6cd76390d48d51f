------------------------ MODULE ProcessMonitorProofs ------------------------
(***************************************************************************)
(* Proofs about ProcessMonitor, for any number of restarts, long runs and  *)
(* health checks.                                                          *)
(*                                                                         *)
(* The argument: the right to start a child is one token.  The exit of a   *)
(* running child makes it, the timer passes it to its callback and the     *)
(* callback to start(), which spends it on the next child; stop() and      *)
(* cleanup() may only destroy it.  While there is a token no child runs,   *)
(* so a spawn never adds a second child, and the token pays for the        *)
(* counters.                                                               *)
(***************************************************************************)
EXTENDS ProcessMonitor, TLAPS

\* TypeOK, the Boolean variables apart.
Flags ==
    /\ stable \in BOOLEAN
    /\ timer \in BOOLEAN
    /\ callback \in BOOLEAN
    /\ healthTimer \in BOOLEAN
    /\ bound \in BOOLEAN
    /\ restarting \in BOOLEAN

Places == 0 .. LongRuns + MaxRestarts + 1

StopType ==
    [step : {"idle", "log", "cancel", "kill", "said", "files"},
     pass : 1 .. 2,
     target : Places]

CheckType ==
    [step : {"idle", "probe", "clear", "log", "kill"},
     overdue : BOOLEAN,
     target : Places]

Data ==
    /\ state \in ProcessStates
    /\ child \in Places
    /\ proc \in [Children -> {"unborn", "alive", "term", "kill", "gone"}]
    /\ restartCount \in 0 .. MaxRestarts
    /\ start \in {"idle", "log", "reset"}
    /\ runner \in {"new", "launching", "running", "stopping", "gone", "died"}
    /\ stop \in StopType
    /\ failures \in 0 .. Threshold
    /\ check \in [Checks -> CheckType]
    /\ runs \in 0 .. MaxRestarts + 1
    /\ asked \in Places

LEMMA Types == Flags /\ Data => TypeOK
<1>1. \A n \in 0 .. MaxRestarts + 1 : n \in Nat
  OBVIOUS
<1> QED
  BY <1>1, Zenon DEF TypeOK, Flags, Data, Places, StopType, CheckType

Token == timer \/ callback \/ start # "idle"

OneToken ==
    /\ Token => ~ChildRuns
    /\ ~(timer /\ callback)
    /\ start # "idle" => ~timer /\ ~callback
    /\ runner = "new" => ~Token /\ child = 0 /\ runs = 0
    /\ (Up /\ state = "starting") => start # "idle"

Lineage ==
    \A i \in Children : /\ i < child => proc[i] = "gone"
                        /\ i = child => proc[i] # "unborn"
                        /\ i > child => proc[i] = "unborn"

Budget ==
    /\ runs <= restartCount + 1
    /\ (Token \/ runner = "new") => runs <= restartCount
    /\ child <= LongRuns + runs
    /\ stable => child <= LongRuns
    /\ start = "reset" => stable

\* No child is left to the shutdown but one it has sent SIGKILL or one that was
\* started after it was requested.
AtRest == ChildRuns => child > asked \/ proc[child] = "kill"

Dead == state = "stopped" /\ ChildRuns => proc[child] = "kill"

StopKnows ==
    /\ asked <= child
    /\ stop.step # "idle" => runner \in {"stopping", "gone", "died"}
    /\ runner = "gone" => stop.step = "files"
    /\ stop.step = "cancel" => state = "stopping" /\ ~Token /\ ~ChildRuns
    /\ stop.step = "kill" => /\ state \in {"stopping", "stopped"}
                             /\ ~Token
                             /\ stop.target = child
    /\ stop.step \in {"said", "files"} => AtRest
    /\ stop.step # "idle" /\ stop.pass = 2 => AtRest

Inv ==
    /\ Flags
    /\ Data
    /\ OneToken
    /\ Lineage
    /\ Budget
    /\ Dead
    /\ StopKnows
-----------------------------------------------------------------------------
(* start() *)

\* The first state.
LEMMA InitInv ==
  ASSUME Init
  PROVE  Inv
<1> USE MonitorAssumption DEF Init
<1>1. Flags
  BY Zenon DEF Flags
<1>2. stop \in StopType
  BY DEF StopAt, StopType, Places
<1>3. check \in [Checks -> CheckType]
  BY DEF IdleCheck, CheckAt, CheckType, Places
<1>4. Data
  BY <1>2, <1>3 DEF Data, ProcessStates, Places
<1>5. ~timer /\ ~callback /\ ~stable
  BY Zenon
<1>6. /\ stop.step = "idle"
      /\ stop.pass = 1
  BY DEF StopAt
<1> QED
  BY <1>1, <1>4, <1>5, <1>6
  DEF Inv, OneToken, Token, Lineage, Budget, Dead, StopKnows, ChildRuns, AtRest,
      Children

\* What start() leaves alone, and the counters once n children were started.
StartFrame ==
    /\ UNCHANGED <<timer, callback, stop, check, asked>>
    /\ bound' \in BOOLEAN
    /\ restarting' \in BOOLEAN

Pays(n) ==
    /\ failures' \in 0 .. Threshold
    /\ restartCount' \in 0 .. MaxRestarts
    /\ runs' \in Nat
    /\ runs' <= restartCount' + 1
    /\ n <= LongRuns + runs'

LEMMA InRange ==
  ASSUME NEW n \in Nat, NEW r \in Nat, NEW c \in 0 .. MaxRestarts,
         r <= c + 1, n <= LongRuns + r
  PROVE  n \in Places /\ r \in 0 .. MaxRestarts + 1
BY MonitorAssumption DEF Places

LEMMA PaysInRange ==
  ASSUME NEW n \in Nat, Pays(n)
  PROVE  n \in Places /\ runs' \in 0 .. MaxRestarts + 1
BY InRange, Zenon DEF Pays

\* A spawn spends the token: no older child runs, and its number is in range if
\* the counters can pay for it.
LEMMA SpawnKeeps ==
  ASSUME Inv, Up, start # "idle", Spawn, StartFrame, Pays(child + 1)
  PROVE  Inv'
<1>1. Flags'
  BY Zenon DEF Inv, Flags, Spawn, StartFrame
<1>2. /\ child' = child + 1
      /\ proc' = [proc EXCEPT ![child + 1] = "alive"]
      /\ start' = "idle"
      /\ state' = "running"
      /\ runner' = runner
      /\ runner # "new"
      /\ ~stable'
      /\ ~timer' /\ ~callback'
      /\ UNCHANGED <<stop, check, asked>>
  BY Zenon DEF Spawn, StartFrame, Inv, OneToken, Token
<1>3. child + 1 \in Places /\ runs' \in 0 .. MaxRestarts + 1
  <2>1. child + 1 \in Nat
    BY MonitorAssumption DEF Inv, Data, Places
  <2> QED
    BY <2>1, PaysInRange
<1>4. Data'
  BY <1>2, <1>3, Zenon DEF Inv, Data, ProcessStates, Pays
<1>5. Lineage'
  BY <1>2, <1>3, MonitorAssumption
  DEF Inv, Data, Lineage, OneToken, Token, ChildRuns, Children, Places
<1>6. OneToken' /\ Budget'
  BY <1>2, Zenon DEF OneToken, Token, Budget, Pays
<1>7. StopKnows'
  BY <1>2, <1>3, MonitorAssumption
  DEF Inv, Data, Token, StopKnows, AtRest, ChildRuns, Places
<1> QED
  BY <1>1, <1>2, <1>4, <1>5, <1>6, <1>7 DEF Inv, Dead

\* A spawn that fails drops it.
LEMMA SpawnFailsKeeps ==
  ASSUME Inv, Up, start # "idle", SpawnFails, StartFrame, Pays(child)
  PROVE  Inv'
<1>1. Flags'
  BY Zenon DEF Inv, Flags, SpawnFails, StartFrame
<1>2. /\ UNCHANGED <<child, proc, stop, check, asked>>
      /\ start' = "idle"
      /\ stable' => stable
      /\ ~timer' /\ ~callback'
      /\ ~ChildRuns
      /\ runner # "new"
      /\ \/ state' = "stopped" /\ runner' \in {runner, "died"}
         \/ state' = state /\ runner' = "died"
  BY Zenon DEF SpawnFails, StartFrame, Inv, OneToken, Token
<1>3. runs' \in 0 .. MaxRestarts + 1
  BY PaysInRange, MonitorAssumption DEF Inv, Data, Places
<1>4. Data'
  BY <1>2, <1>3 DEF Inv, Data, ProcessStates, Pays
<1>5. OneToken' /\ Budget'
  BY <1>2 DEF Inv, OneToken, Token, Up, Budget, Pays
<1>6. StopKnows' /\ Dead'
  BY <1>2 DEF Inv, Token, Dead, StopKnows, AtRest, ChildRuns
<1> QED
  BY <1>1, <1>2, <1>4, <1>5, <1>6 DEF Inv, Lineage

LEMMA LaunchKeeps ==
  ASSUME Inv, Launch
  PROVE  Inv'
<1> USE DEF Launch, BeginStart, health, history
<1>1. Flags'
  BY Zenon DEF Inv, Flags
<1>2. Data'
  BY DEF Inv, Data, ProcessStates
<1>3. OneToken' /\ Budget'
  BY DEF Inv, Data, OneToken, Token, Budget, ChildRuns
<1> QED
  BY <1>1, <1>2, <1>3 DEF Inv, Lineage, Dead, StopKnows, AtRest, ChildRuns

LEMMA StartLoggedKeeps ==
  ASSUME Inv, StartLogged
  PROVE  Inv'
<1>1. /\ Up
      /\ start = "log"
      /\ StartFrame
      /\ failures' = 0
      /\ UNCHANGED restartCount
  BY Zenon DEF StartLogged, Earned, StartFrame
<1>2. CASE /\ stable
           /\ start' = "reset"
           /\ UNCHANGED <<state, child, proc, stable, healthTimer, runner, runs>>
  <2>1. Flags'
    BY <1>1, <1>2, Zenon DEF Inv, Flags, StartFrame
  <2>2. Data'
    BY <1>1, <1>2, MonitorAssumption DEF Inv, Data, StartFrame
  <2> QED
    BY <1>1, <1>2, <2>1, <2>2
    DEF Inv, OneToken, Token, Lineage, Budget, Dead, StopKnows, AtRest, ChildRuns, Up,
        StartFrame
<1>3. CASE Spawn /\ runs' = runs + 1
  <2>1. Pays(child + 1)
    BY <1>1, <1>3, MonitorAssumption DEF Inv, Data, Budget, Token, Places, Pays
  <2> QED
    BY <1>1, <1>3, <2>1, SpawnKeeps
<1>4. CASE SpawnFails /\ UNCHANGED runs
  <2>1. Pays(child)
    BY <1>1, <1>4, MonitorAssumption DEF Inv, Data, Budget, Token, Places, Pays
  <2> QED
    BY <1>1, <1>4, <2>1, SpawnFailsKeeps
<1> QED
  BY <1>2, <1>3, <1>4, Zenon DEF StartLogged, Earned

LEMMA ResetLoggedKeeps ==
  ASSUME Inv, ResetLogged
  PROVE  Inv'
<1>1. /\ Up
      /\ start = "reset"
      /\ StartFrame
      /\ restartCount' = 0
      /\ UNCHANGED failures
      /\ child <= LongRuns
  BY Zenon DEF ResetLogged, StartFrame, Inv, Flags, Budget
<1>2. CASE Spawn /\ runs' = 1
  <2>1. Pays(child + 1)
    BY <1>1, <1>2, MonitorAssumption DEF Inv, Data, Places, Pays
  <2> QED
    BY <1>1, <1>2, <2>1, SpawnKeeps
<1>3. CASE SpawnFails /\ runs' = 0
  <2>1. Pays(child)
    BY <1>1, <1>3, MonitorAssumption DEF Inv, Data, Places, Pays
  <2> QED
    BY <1>1, <1>3, <2>1, SpawnFailsKeeps
<1> QED
  BY <1>2, <1>3, Zenon DEF ResetLogged

LEMMA LaunchedKeeps ==
  ASSUME Inv, Launched
  PROVE  Inv'
<1> USE DEF Launched, health, history
<1>1. Flags'
  BY Zenon DEF Inv, Flags
<1>2. Data'
  BY DEF Inv, Data
<1> QED
  BY <1>1, <1>2 DEF Inv, OneToken, Token, Lineage, Budget, Dead, StopKnows, AtRest,
                    ChildRuns, Up

-----------------------------------------------------------------------------
(* The restart after a crash *)

LEMMA TimerFiresKeeps ==
  ASSUME Inv, TimerFires
  PROVE  Inv'
<1>1. Flags'
  BY Zenon DEF Inv, Flags, TimerFires, health
<1>2. /\ Up
      /\ timer /\ ~timer'
      /\ UNCHANGED <<state, child, proc, restartCount, stable, start, runner,
                     stop, failures, check, runs, asked>>
  BY Zenon DEF TimerFires, health, history
<1>3. Data'
  BY <1>2 DEF Inv, Data
<1> QED
  BY <1>1, <1>2, <1>3 DEF Inv, OneToken, Token, Lineage, Budget, Dead, StopKnows,
                          AtRest, ChildRuns, Up

LEMMA RestartLoggedKeeps ==
  ASSUME Inv, RestartLogged
  PROVE  Inv'
<1>1. Flags'
  BY Zenon DEF Inv, Flags, RestartLogged, health
<1>2. /\ callback /\ ~callback'
      /\ \/ /\ state \in {"stopped", "crashed"}
            /\ state' = "starting" /\ start' = "log"
         \/ UNCHANGED <<state, start>>
      /\ UNCHANGED <<child, proc, restartCount, stable, timer, runner, stop,
                     failures, check, runs, asked>>
  BY Zenon DEF RestartLogged, BeginStart, health, history
<1>3. Data'
  BY <1>2 DEF Inv, Data, ProcessStates
<1> QED
  BY <1>1, <1>2, <1>3 DEF Inv, OneToken, Token, Lineage, Budget, Dead, StopKnows,
                          AtRest, ChildRuns, Up

-----------------------------------------------------------------------------
(* What the child does *)

\* Only the last child can be live.
LEMMA LiveIsLast ==
  ASSUME Inv, NEW i \in Live
  PROVE  i = child /\ ChildRuns /\ ~Token
<1>1. i \in Children /\ proc[i] \in {"alive", "term", "kill"}
  BY DEF Live
<1>2. i = child
  BY <1>1 DEF Inv, Data, Lineage, Children, Places
<1> QED
  BY <1>1, <1>2, MonitorAssumption DEF Inv, OneToken, ChildRuns, Children
\* After its exit nothing runs, and a restart that is scheduled is the only token.
LEMMA ExitKeeps ==
  ASSUME Inv, NEW i \in Children, NEW how \in Outcomes, Exit(i, how)
  PROVE  Inv'
<1>1. /\ i \in Live
      /\ proc' = [proc EXCEPT ![i] = "gone"]
      /\ UNCHANGED <<child, callback, start, runner, stop, healthTimer, bound,
                     failures, restarting, check, runs, asked>>
  BY Zenon DEF Exit, health, history
<1>2. /\ i = child
      /\ child \in Children
      /\ ~timer /\ ~callback /\ start = "idle"
      /\ runner # "new"
      /\ ChildRuns
  <2>1. i = child /\ ChildRuns /\ ~Token
    BY <1>1, LiveIsLast
  <2> QED
    BY <2>1, MonitorAssumption DEF Inv, OneToken, Token, ChildRuns, Children
<1>3. Data /\ ~ChildRuns'
  BY <1>1, <1>2 DEF Inv, Data, ChildRuns
<1>4. Lineage'
  BY <1>1, <1>2, <1>3, MonitorAssumption DEF Inv, Data, Lineage, Children, Places
<1>5. CASE Up
  <2>1. Flags'
    BY <1>1, <1>5, Zenon DEF Exit, ScheduleRestart, Inv, Flags
  <2>2. stable' => child <= LongRuns
    BY <1>2, <1>5, Zenon DEF Exit
  <2>3. CASE /\ state' = "crashed"
             /\ state = "running"
             /\ restartCount < MaxRestarts
             /\ restartCount' = restartCount + 1
             /\ timer'
    <3>1. Data'
      BY <1>1, <1>3, <2>3, MonitorAssumption DEF Data, ProcessStates
    <3>2. OneToken' /\ StopKnows'
      BY <1>1, <1>2, <1>3, <2>3
      DEF Inv, OneToken, Token, StopKnows, AtRest, ChildRuns
    <3>3. restartCount \in Nat /\ runs \in Nat
      BY <1>3, MonitorAssumption DEF Data
    <3>4. runs <= restartCount + 1
      BY DEF Inv, Budget
    <3>5. restartCount + 1 <= restartCount + 1 + 1
      BY <3>3
    <3>6. runs <= restartCount + 1 + 1
      BY <3>3, <3>4
    <3>7. Budget'
      BY <1>1, <1>2, <2>2, <2>3, <3>4, <3>6, Zenon DEF Inv, Budget, Token
    <3> QED
      BY <1>3, <1>4, <2>1, <2>3, <3>1, <3>2, <3>7 DEF Inv, Dead
  <2>4. CASE /\ state' \in {"crashed", "stopped"}
             /\ state' = "crashed" => state = "running"
             /\ UNCHANGED <<restartCount, timer>>
    <3>1. Data'
      BY <1>1, <1>3, <2>4 DEF Data, ProcessStates
    <3>2. OneToken' /\ StopKnows'
      BY <1>1, <1>2, <1>3, <2>4
      DEF Inv, OneToken, Token, StopKnows, AtRest, ChildRuns
    <3>3. Budget'
      BY <1>1, <1>2, <2>2, <2>4, Zenon DEF Inv, Budget, Token
    <3> QED
      BY <1>3, <1>4, <2>1, <3>1, <3>2, <3>3 DEF Inv, Dead
  <2> QED
    BY <1>5, <2>3, <2>4, Zenon DEF Exit, ScheduleRestart, ShouldRestart
<1>6. CASE ~Up
  <2>1. UNCHANGED <<stable, state, restartCount, timer>>
    BY <1>6, Zenon DEF Exit
  <2>2. Flags'
    BY <1>1, <2>1, Zenon DEF Inv, Flags
  <2>3. Data'
    BY <1>1, <1>3, <2>1 DEF Data
  <2> QED
    BY <1>1, <1>2, <1>3, <1>4, <2>1, <2>2, <2>3
    DEF Inv, OneToken, Token, Budget, Dead, StopKnows, AtRest, ChildRuns, Up
<1> QED
  BY <1>5, <1>6

LEMMA ChildErrorKeeps ==
  ASSUME Inv, ChildError
  PROVE  Inv'
<1>1. /\ state \in {"running", "starting"} /\ state' = "crashed"
      /\ UNCHANGED <<child, proc, restartCount, stable, timer, callback, start,
                     runner, stop, healthTimer, bound, failures, restarting,
                     check, runs, asked>>
  BY Zenon DEF ChildError, health, history
<1>2. Flags'
  BY <1>1, Zenon DEF Inv, Flags
<1>3. Data'
  BY <1>1 DEF Inv, Data, ProcessStates
<1> QED
  BY <1>1, <1>2, <1>3 DEF Inv, OneToken, Token, Lineage, Budget, Dead, StopKnows,
                          AtRest, ChildRuns, Up

\* Nothing but signals, and what health checks keep for themselves.
Harmless ==
    /\ proc' = proc \/ \E sig \in {"term", "kill"} : Signal(sig)
    /\ Flags'
    /\ failures' \in 0 .. Threshold
    /\ check' \in [Checks -> CheckType]
    /\ UNCHANGED <<state, child, restartCount, stable, timer, callback, start,
                   runner, stop, runs, asked>>

LEMMA Signalled ==
  ASSUME Inv, proc' = proc \/ \E sig \in {"term", "kill"} : Signal(sig)
  PROVE  /\ proc' \in [Children -> {"unborn", "alive", "term", "kill", "gone"}]
         /\ \A i \in Children :
              /\ i # child => proc'[i] = proc[i]
              /\ i = child => /\ proc[i] \in {"gone", "kill"} => proc'[i] = proc[i]
                              /\ proc'[i] = "gone" => proc[i] = "gone"
                              /\ proc'[i] = "unborn" => proc[i] = "unborn"
BY DEF Inv, Data, Signal

LEMMA HarmlessKeeps ==
  ASSUME Inv, Harmless
  PROVE  Inv'
<1>1. UNCHANGED <<state, child, restartCount, stable, timer, callback, start,
                  runner, stop, runs, asked>>
  BY DEF Harmless
<1>2. /\ proc' \in [Children -> {"unborn", "alive", "term", "kill", "gone"}]
      /\ \A i \in Children :
           /\ i # child => proc'[i] = proc[i]
           /\ i = child => /\ proc[i] \in {"gone", "kill"} => proc'[i] = proc[i]
                           /\ proc'[i] = "gone" => proc[i] = "gone"
                           /\ proc'[i] = "unborn" => proc[i] = "unborn"
  BY Signalled, Zenon DEF Harmless
<1>3. Data'
  BY <1>1, <1>2, Zenon DEF Inv, Data, Harmless
<1>4. child # 0 => child \in Children
  BY MonitorAssumption DEF Inv, Data, Places, Children
<1>5. ChildRuns' <=> ChildRuns
  BY <1>1, <1>2, <1>4 DEF ChildRuns
<1>6. ChildRuns => (proc[child] = "kill" => proc'[child] = "kill")
  BY <1>2, <1>4 DEF ChildRuns
<1>7. Lineage'
  BY <1>1, <1>2, MonitorAssumption DEF Inv, Lineage, Data, Places, Children
<1>8. OneToken' /\ Budget'
  BY <1>1, <1>5, Zenon DEF Inv, OneToken, Token, Budget, Up
<1>9. Dead' /\ (AtRest => AtRest')
  BY <1>1, <1>5, <1>6, Zenon DEF Inv, Dead, AtRest
<1>10. StopKnows'
  BY <1>1, <1>5, <1>9, Zenon DEF Inv, StopKnows, Token
<1> QED
  BY <1>3, <1>7, <1>8, <1>9, <1>10, Zenon DEF Inv, Harmless
LEMMA FatalErrorKeeps ==
  ASSUME Inv, FatalError
  PROVE  Inv'
<1>1. Flags'
  BY Zenon DEF FatalError, health, Inv, Flags
<1>2. /\ Signal("term")
      /\ UNCHANGED <<state, child, restartCount, stable, timer, callback, start,
                     runner, stop, failures, check, runs, asked>>
  BY Zenon DEF FatalError, health, history
<1>3. failures \in 0 .. Threshold /\ check \in [Checks -> CheckType]
  BY DEF Inv, Data
<1> QED
  BY <1>1, <1>2, <1>3, HarmlessKeeps, Zenon DEF Harmless

-----------------------------------------------------------------------------
(* Health checks *)

LEMMA CheckTyped ==
  ASSUME NEW step \in {"idle", "probe", "clear", "log", "kill"},
         NEW overdue \in BOOLEAN, NEW target \in Places
  PROVE  CheckAt(step, overdue, target) \in CheckType
BY DEF CheckAt, CheckType

LEMMA CheckingKeeps ==
  ASSUME Inv, NEW c \in Checks, Checking(c)
  PROVE  Inv'
<1>1. /\ UNCHANGED <<state, child, restartCount, stable, timer, callback, start,
                     runner, stop, runs, asked>>
      /\ proc' = proc \/ \E sig \in {"term", "kill"} : Signal(sig)
  BY Zenon DEF Checking, BeginCheck, PortAnswers, FailuresCleared, PortFails,
               HealthKills, HealthKillEnds, KillEnds, history
<1>2. Flags'
  BY Zenon DEF Checking, BeginCheck, PortAnswers, FailuresCleared, PortFails,
               HealthKills, HealthKillEnds, Inv, Flags
<1>3. \/ failures' = failures
      \/ failures' = 0
      \/ failures < Threshold /\ failures' = failures + 1
  BY Zenon DEF Checking, BeginCheck, PortAnswers, FailuresCleared, PortFails,
               HealthKills, HealthKillEnds
<1>4. failures' \in 0 .. Threshold
  BY <1>3, MonitorAssumption DEF Inv, Data
<1>5. 0 \in Places /\ child \in Places
  BY MonitorAssumption DEF Inv, Data, Places
<1>6. \E entry \in CheckType : check' = [check EXCEPT ![c] = entry]
  BY <1>5, CheckTyped, Zenon
  DEF Checking, BeginCheck, PortAnswers, FailuresCleared, PortFails, HealthKills,
      HealthKillEnds, IdleCheck
<1>7. check' \in [Checks -> CheckType]
  BY <1>6 DEF Inv, Data
<1> QED
  BY <1>1, <1>2, <1>4, <1>7, HarmlessKeeps, Zenon DEF Harmless

-----------------------------------------------------------------------------
(* stop() *)

\* What stop() and its caller leave alone.
StopFrame ==
    UNCHANGED <<child, restartCount, stable, callback, start, bound, failures,
                restarting, check, runs>>
StopMoves ==
    /\ StopFrame
    /\ proc' = proc \/ \E sig \in {"term", "kill"} : Signal(sig)
    /\ timer' => timer
    /\ state' \in {state, "stopping", "stopped"}
    /\ asked' \in {asked, child}
    /\ runner' \in {runner, "stopping", "gone", "died"}
    /\ runner' = "stopping" => Up

LEMMA SignalKeepsChild ==
  ASSUME Inv, proc' = proc \/ \E sig \in {"term", "kill"} : Signal(sig),
         UNCHANGED child
  PROVE  /\ ChildRuns' <=> ChildRuns
         /\ ChildRuns => (proc[child] = "kill" => proc'[child] = "kill")
<1>1. \A i \in Children :
        i = child => /\ proc[i] \in {"gone", "kill"} => proc'[i] = proc[i]
                     /\ proc'[i] = "gone" => proc[i] = "gone"
  BY Signalled
<1>2. child # 0 => child \in Children
  BY MonitorAssumption DEF Inv, Data, Places, Children
<1> QED
  BY <1>1, <1>2 DEF ChildRuns

\* A step of stop() makes no token and starts no child; what it must see to itself
\* is that a monitor that says stopped leaves no child, and what stop() knows.
LEMMA StopMovesKeep ==
  ASSUME Inv, StopMoves, Flags', stop' \in StopType, Dead', StopKnows'
  PROVE  Inv'
<1>1. /\ StopFrame
      /\ timer' => timer
      /\ state' \in {state, "stopping", "stopped"}
      /\ asked' \in {asked, child}
      /\ runner' \in {runner, "stopping", "gone", "died"}
      /\ runner' = "stopping" => Up
      /\ proc' = proc \/ \E sig \in {"term", "kill"} : Signal(sig)
  BY DEF StopMoves
<1>2. /\ proc' \in [Children -> {"unborn", "alive", "term", "kill", "gone"}]
      /\ \A i \in Children :
           /\ i # child => proc'[i] = proc[i]
           /\ i = child => /\ proc[i] \in {"gone", "kill"} => proc'[i] = proc[i]
                           /\ proc'[i] = "unborn" => proc[i] = "unborn"
  BY <1>1, Signalled
<1>3. Data'
  BY <1>1, <1>2 DEF Inv, Data, ProcessStates, StopFrame
<1>4. Lineage'
  BY <1>1, <1>2, MonitorAssumption DEF Inv, Lineage, Data, Places, Children, StopFrame
<1>5. ChildRuns' <=> ChildRuns
  BY <1>1, SignalKeepsChild DEF StopFrame
<1>6. OneToken' /\ Budget'
  BY <1>1, <1>5, Zenon DEF Inv, OneToken, Token, Budget, Up, StopFrame
<1> QED
  BY <1>3, <1>4, <1>6, Zenon DEF Inv

LEMMA Values ==
  ASSUME Inv
  PROVE  /\ stop.pass \in 1 .. 2
         /\ 1 \in 1 .. 2 /\ 2 \in 1 .. 2
         /\ 0 \in Places /\ child \in Places
BY MonitorAssumption DEF Inv, Data, StopType, Places

\* After StopReturns the command removes the log, or has called stop() again.
LEMMA StopReturnsTo ==
  ASSUME Inv, StopReturns
  PROVE  /\ stop' \in StopType
         /\ stop'.step \in {"log", "files"}
         /\ stop'.pass = 2
         /\ timer' \in BOOLEAN /\ healthTimer' \in BOOLEAN
         /\ timer' => timer
<1>1. stop' \in {StopAt("files", 2, 0), StopAt("log", 2, 0)}
  BY Zenon DEF StopReturns, StopCalled
<1>2. /\ stop' \in StopType
      /\ stop'.step \in {"log", "files"}
      /\ stop'.pass = 2
  BY <1>1, Values DEF StopAt, StopType
<1> QED
  BY <1>2, Zenon DEF StopReturns, Inv, Flags

LEMMA ShutdownKeeps ==
  ASSUME Inv, Shutdown
  PROVE  Inv'
<1>1. /\ runner = "running" /\ runner' = "stopping"
      /\ asked' = child
      /\ UNCHANGED <<state, child, proc, restartCount, stable, callback, start,
                     bound, failures, restarting, check, runs>>
  BY DEF Shutdown
<1>2. child \in Nat
  BY MonitorAssumption DEF Inv, Data, Places
<1>3. Dead'
  BY <1>1 DEF Inv, Dead, ChildRuns
<1>4. CASE state \in {"stopped", "starting"} /\ StopReturns
  <2>1. StopMoves /\ Flags'
    BY <1>1, <1>4, StopReturnsTo, Zenon DEF StopMoves, StopFrame, Up, Inv, Flags
  <2>2. AtRest'
    BY <1>1, <1>4 DEF Inv, OneToken, Token, Dead, AtRest, ChildRuns, Up
  <2>3. stop'.step \in {"log", "files"} /\ asked' <= child'
    BY <1>1, <1>2, <1>4, StopReturnsTo
  <2>4. StopKnows'
    BY <1>1, <2>2, <2>3 DEF StopKnows
  <2> QED
    BY <1>3, <1>4, <2>1, <2>4, StopReturnsTo, StopMovesKeep
<1>5. CASE /\ state \notin {"stopped", "starting"}
           /\ stop' = StopCalled(1, state)
           /\ UNCHANGED <<timer, healthTimer>>
  <2>1. stop' = StopAt("log", 1, 0)
    BY <1>5 DEF StopCalled
  <2>2. stop' \in StopType /\ stop'.step = "log" /\ stop'.pass = 1
    BY <2>1, Values DEF StopAt, StopType
  <2>3. StopMoves /\ Flags'
    BY <1>1, <1>5, Zenon DEF StopMoves, StopFrame, Up, Inv, Flags
  <2>4. StopKnows'
    BY <1>1, <1>2, <2>2 DEF StopKnows
  <2> QED
    BY <1>3, <2>2, <2>3, <2>4, StopMovesKeep
<1> QED
  BY <1>4, <1>5 DEF Shutdown

LEMMA StopLoggedKeeps ==
  ASSUME Inv, StopLogged
  PROVE  Inv'
<1>1. /\ Up
      /\ stop.step = "log"
      /\ UNCHANGED <<child, restartCount, stable, callback, start, runner, bound,
                     failures, restarting, check, runs, asked>>
  BY Zenon DEF StopLogged, history
<1>2. /\ asked <= child
      /\ runner \in {"stopping", "gone", "died"}
      /\ stop.pass = 2 => AtRest
      /\ runner # "gone"
  BY <1>1 DEF Inv, StopKnows, Up
<1>3. CASE /\ timer /\ timer' = FALSE
           /\ state' = "stopping"
           /\ stop' = StopAt("cancel", stop.pass, 0)
           /\ UNCHANGED <<proc, healthTimer>>
  <2>1. StopMoves /\ Flags'
    BY <1>1, <1>3, Zenon DEF StopMoves, StopFrame, Inv, Flags
  <2>2. stop' \in StopType /\ stop'.step = "cancel" /\ stop'.pass = stop.pass
    BY <1>3, Values DEF StopAt, StopType
  <2>3. Dead' /\ StopKnows'
    BY <1>1, <1>2, <1>3, <2>2
    DEF Inv, OneToken, Token, StopKnows, AtRest, ChildRuns, Dead
  <2> QED
    BY <2>1, <2>2, <2>3, StopMovesKeep
<1>4. CASE /\ ChildRuns
           /\ Signal("term")
           /\ state' = "stopping"
           /\ stop' = StopAt("kill", stop.pass, child)
           /\ healthTimer' = FALSE
           /\ UNCHANGED timer
  <2>1. StopMoves /\ Flags'
    BY <1>1, <1>4, Zenon DEF StopMoves, StopFrame, Inv, Flags
  <2>2. /\ stop' \in StopType /\ stop'.step = "kill" /\ stop'.pass = stop.pass
        /\ stop'.target = child
    BY <1>4, Values DEF StopAt, StopType
  <2>3. AtRest => AtRest'
    BY <1>1, <1>4, SignalKeepsChild DEF AtRest
  <2>4. ~Token'
    BY <1>1, <1>4, Zenon DEF Inv, OneToken, Token
  <2>5. Dead' /\ StopKnows'
    BY <1>1, <1>2, <1>4, <2>2, <2>3, <2>4 DEF StopKnows, Dead
  <2> QED
    BY <2>1, <2>2, <2>5, StopMovesKeep
<1>5. CASE /\ ~ChildRuns
           /\ state' = "stopped"
           /\ stop' = StopAt("said", stop.pass, 0)
           /\ healthTimer' = FALSE
           /\ UNCHANGED <<proc, timer>>
  <2>1. StopMoves /\ Flags'
    BY <1>1, <1>5, Zenon DEF StopMoves, StopFrame, Inv, Flags
  <2>2. stop' \in StopType /\ stop'.step = "said" /\ stop'.pass = stop.pass
    BY <1>5, Values DEF StopAt, StopType
  <2>3. Dead' /\ StopKnows'
    BY <1>1, <1>2, <1>5, <2>2 DEF StopKnows, AtRest, ChildRuns, Dead
  <2> QED
    BY <2>1, <2>2, <2>3, StopMovesKeep
<1> QED
  BY <1>3, <1>4, <1>5, Zenon DEF StopLogged, Terminate, AfterKill
LEMMA CancelLoggedKeeps ==
  ASSUME Inv, CancelLogged
  PROVE  Inv'
<1>1. /\ Up
      /\ stop.step = "cancel"
      /\ UNCHANGED <<child, restartCount, stable, callback, start, runner, bound,
                     failures, restarting, check, runs, asked>>
  BY Zenon DEF CancelLogged, history
<1>2. /\ asked <= child
      /\ runner \in {"stopping", "gone", "died"}
      /\ runner # "gone"
      /\ state = "stopping" /\ ~Token /\ ~ChildRuns
  BY <1>1 DEF Inv, StopKnows, Up
<1>3. /\ state' = "stopped"
      /\ stop' = StopAt("said", stop.pass, 0)
      /\ healthTimer' = FALSE
      /\ UNCHANGED <<proc, timer>>
  BY <1>2, Zenon DEF CancelLogged, Terminate, AfterKill
<1>4. StopMoves /\ Flags'
  BY <1>1, <1>3, Zenon DEF StopMoves, StopFrame, Inv, Flags
<1>5. stop' \in StopType /\ stop'.step = "said" /\ stop'.pass = stop.pass
  BY <1>3, Values DEF StopAt, StopType
<1>6. Dead' /\ StopKnows'
  BY <1>1, <1>2, <1>3, <1>5 DEF StopKnows, AtRest, ChildRuns, Dead
<1> QED
  BY <1>4, <1>5, <1>6, StopMovesKeep

\* When killProcess resolves, the child has exited or gets SIGKILL: it was the last
\* one all along, since there was no token for another.
LEMMA StopKillEndsKeeps ==
  ASSUME Inv, StopKillEnds
  PROVE  Inv'
<1>1. /\ Up
      /\ stop.step = "kill"
      /\ KillEnds(stop.target)
      /\ AfterKill(state)
      /\ UNCHANGED <<child, restartCount, stable, callback, start, runner, bound,
                     failures, restarting, check, runs, asked>>
  BY Zenon DEF StopKillEnds, history
<1>2. /\ asked <= child
      /\ runner \in {"stopping", "gone", "died"}
      /\ runner # "gone"
      /\ state \in {"stopping", "stopped"}
      /\ ~Token
      /\ stop.target = child
  BY <1>1 DEF Inv, StopKnows, Up
<1>3. ChildRuns' => proc'[child] = "kill"
  BY <1>1, <1>2, MonitorAssumption
  DEF KillEnds, Signal, ChildRuns, Inv, Data, Children, Places
<1>4. proc' = proc \/ \E sig \in {"term", "kill"} : Signal(sig)
  BY <1>1, Zenon DEF KillEnds
<1>5. AtRest'
  BY <1>1, <1>3 DEF AtRest
<1>6. CASE /\ state' = "stopped"
           /\ stop' = StopAt("said", stop.pass, 0)
           /\ healthTimer' = FALSE
           /\ UNCHANGED timer
  <2>1. StopMoves /\ Flags'
    BY <1>1, <1>4, <1>6, Zenon DEF StopMoves, StopFrame, Inv, Flags
  <2>2. stop' \in StopType /\ stop'.step = "said" /\ stop'.pass = stop.pass
    BY <1>6, Values DEF StopAt, StopType
  <2>3. Dead' /\ StopKnows'
    BY <1>1, <1>2, <1>3, <1>5, <1>6, <2>2 DEF StopKnows, Dead
  <2> QED
    BY <2>1, <2>2, <2>3, StopMovesKeep
<1>7. CASE state' = state /\ StopReturns
  <2>1. StopMoves /\ Flags'
    BY <1>1, <1>4, <1>7, StopReturnsTo, Zenon DEF StopMoves, StopFrame, Inv, Flags
  <2>2. Dead' /\ StopKnows'
    BY <1>1, <1>2, <1>3, <1>5, <1>7, StopReturnsTo DEF StopKnows, Dead
  <2> QED
    BY <1>7, <2>1, <2>2, StopReturnsTo, StopMovesKeep
<1> QED
  BY <1>1, <1>6, <1>7, Zenon DEF AfterKill

LEMMA StopSaidKeeps ==
  ASSUME Inv, StopSaid
  PROVE  Inv'
<1>1. /\ Up
      /\ stop.step = "said"
      /\ StopReturns
      /\ UNCHANGED <<state, child, proc, restartCount, stable, callback, start,
                     runner, bound, failures, restarting, check, runs, asked>>
  BY Zenon DEF StopSaid, history
<1>2. /\ asked <= child
      /\ runner \in {"stopping", "gone", "died"}
      /\ runner # "gone"
      /\ AtRest
  BY <1>1 DEF Inv, StopKnows, Up
<1>3. StopMoves /\ Flags'
  BY <1>1, StopReturnsTo, Zenon DEF StopMoves, StopFrame, Inv, Flags
<1>4. AtRest' /\ Dead'
  BY <1>1, <1>2 DEF Inv, Dead, AtRest, ChildRuns
<1>5. StopKnows'
  BY <1>1, <1>2, <1>4, StopReturnsTo DEF StopKnows
<1> QED
  BY <1>1, <1>3, <1>4, <1>5, StopReturnsTo, StopMovesKeep

LEMMA EndKeeps ==
  ASSUME Inv, Exited \/ Died
  PROVE  Inv'
<1>1. /\ Up
      /\ runner' \in {"gone", "died"}
      /\ runner' = "gone" => stop.step = "files"
      /\ UNCHANGED <<state, child, proc, restartCount, stable, timer, callback,
                     start, stop, healthTimer, bound, failures, restarting, check,
                     runs, asked>>
  BY Zenon DEF Exited, Died, health, history
<1>2. Flags'
  BY <1>1, Zenon DEF Inv, Flags
<1>3. Data'
  BY <1>1 DEF Inv, Data
<1> QED
  BY <1>1, <1>2, <1>3 DEF Inv, OneToken, Token, Lineage, Budget, Dead, StopKnows,
                          AtRest, ChildRuns, Up

-----------------------------------------------------------------------------
(* The theorems *)

LEMMA NextKeeps ==
  ASSUME Inv, [Next]_vars
  PROVE  Inv'
<1>1. CASE Starting
  BY <1>1, LaunchKeeps, StartLoggedKeeps, ResetLoggedKeeps, LaunchedKeeps DEF Starting
<1>2. CASE Restarting
  BY <1>2, TimerFiresKeeps, RestartLoggedKeeps DEF Restarting
<1>3. ASSUME NEW i \in Children, NEW how \in Outcomes, Exit(i, how)
      PROVE  Inv'
  BY <1>3, ExitKeeps
<1>4. CASE ChildError \/ FatalError
  BY <1>4, ChildErrorKeeps, FatalErrorKeeps
<1>5. ASSUME NEW c \in Checks, Checking(c)
      PROVE  Inv'
  BY <1>5, CheckingKeeps
<1>6. CASE Shutdown
  BY <1>6, ShutdownKeeps
<1>7. CASE Stopping
  BY <1>7, StopLoggedKeeps, CancelLoggedKeeps, StopKillEndsKeeps, StopSaidKeeps, EndKeeps
  DEF Stopping
<1>8. CASE Died
  BY <1>8, EndKeeps
<1>9. CASE UNCHANGED vars
  <2>1. Flags'
    BY <1>9, Zenon DEF vars, health, history, Inv, Flags
  <2>2. Data'
    BY <1>9 DEF vars, health, history, Inv, Data
  <2> QED
    BY <1>9, <2>1, <2>2
    DEF vars, health, history, Inv, OneToken, Token, Lineage, Budget, Dead, StopKnows,
        AtRest, ChildRuns, Up
<1> QED
  BY <1>1, <1>2, <1>3, <1>4, <1>5, <1>6, <1>7, <1>8, <1>9, Zenon DEF Next

\* The invariant with the token holds of every monitor, whatever its limits.
THEOREM Invariance == Spec => []Inv
<1>1. Init => Inv
  BY InitInv
<1>2. Inv /\ [Next]_vars => Inv'
  BY NextKeeps
<1> QED
  BY <1>1, <1>2, PTL DEF Spec

\* The types hold: in particular restartCount never passes maxRestarts, and the
\* children fit the bound, so that the model cuts nothing off.
THEOREM TypeCorrect == Spec => []TypeOK
<1>1. Inv => TypeOK
  BY Types DEF Inv
<1> QED
  BY <1>1, Invariance, PTL

\* No two children run at once.
THEOREM NeverTwoChildren == Spec => []OneChild
<1>1. Inv => OneChild
  BY LiveIsLast DEF OneChild
<1> QED
  BY <1>1, Invariance, PTL

\* A monitor that says stopped has left no child it has not sent SIGKILL.
THEOREM StoppedLeavesNone == Spec => []StoppedMeansDead
<1>1. Inv => StoppedMeansDead
  BY LiveIsLast DEF Inv, Dead, StoppedMeansDead
<1> QED
  BY <1>1, Invariance, PTL

\* At most maxRestarts children follow the first of a series.
THEOREM RestartsLimited == Spec => []RestartsBounded
<1>1. Inv => RestartsBounded
  BY MonitorAssumption DEF Inv, Data, RestartsBounded
<1> QED
  BY <1>1, Invariance, PTL

\* Only a restart under way when the shutdown was requested can leave a child.
THEOREM ShutdownLeavesOnlyRestarts == Spec => []OnlyRestartsSurvive
<1>1. ASSUME Inv, runner = "gone", NEW i \in Live
      PROVE  i > asked \/ proc[i] = "kill"
  BY <1>1, LiveIsLast DEF Inv, StopKnows, AtRest
<1>2. Inv => OnlyRestartsSurvive
  BY <1>1 DEF OnlyRestartsSurvive
<1> QED
  BY <1>2, Invariance, PTL

-----------------------------------------------------------------------------
(* The monitor is a supervisor *)

Alive == Live # {}

LEMMA AliveIsChild ==
  ASSUME Inv
  PROVE  Alive <=> ChildRuns
<1>1. ChildRuns => child \in Live
  BY MonitorAssumption DEF Inv, Data, Lineage, ChildRuns, Live, Children, Places
<1>2. \A i \in Live : ChildRuns
  BY LiveIsLast
<1> QED
  BY <1>1, <1>2 DEF Alive

\* Steps of the supervisor, in the terms of the monitor.
Same == Alive' = Alive /\ runs' = runs /\ stable' = stable /\ Up' = Up
Starts ==
    /\ ~Alive /\ Up /\ ~stable /\ runs <= MaxRestarts
    /\ Alive' /\ Up' /\ ~stable' /\ runs' = runs + 1
StartsOver ==
    /\ ~Alive /\ Up /\ stable
    /\ \/ Alive' /\ runs' = 1 /\ ~stable' /\ Up'
       \/ ~Alive' /\ runs' = 0 /\ stable'
Ends ==
    /\ Alive /\ ~Alive' /\ runs' = runs /\ Up' = Up
    /\ ~Up => stable' = stable
Leaves == Up /\ ~Up' /\ Alive' = Alive /\ runs' = runs /\ stable' = stable

LEMMA Simulates ==
  ASSUME stable \in BOOLEAN, stable' \in BOOLEAN,
         Same \/ Starts \/ StartsOver \/ Ends \/ Leaves
  PROVE  [Abstract!Next]_(Abstract!vars)
<1>1. CASE Same
  BY <1>1, Zenon DEF Same, Alive, Abstract!vars
<1>2. CASE Starts
  BY <1>2, Zenon DEF Starts, Alive, Abstract!Next, Abstract!Start
<1>3. CASE StartsOver
  BY <1>3, Zenon DEF StartsOver, Alive, Abstract!Next, Abstract!StartOver
<1>4. CASE Ends
  BY <1>4, Zenon DEF Ends, Alive, Abstract!Next, Abstract!End
<1>5. CASE Leaves
  BY <1>5, Zenon DEF Leaves, Alive, Abstract!Next, Abstract!Leave
<1> QED
  BY <1>1, <1>2, <1>3, <1>4, <1>5

\* A step that starts no child, ends none and signals at most maps to a stutter, or
\* to the monitor leaving.
LEMMA QuietMaps ==
  ASSUME Inv, Inv', UNCHANGED <<child, runs, stable>>, Up' => Up,
         proc' = proc \/ \E sig \in {"term", "kill"} : Signal(sig)
  PROVE  Same \/ Leaves
<1>1. ChildRuns' <=> ChildRuns
  BY SignalKeepsChild
<1>2. (Alive <=> ChildRuns) /\ (Alive' <=> ChildRuns')
  BY AliveIsChild, PTL
<1>3. Alive' = Alive
  BY <1>1, <1>2, Zenon DEF Alive
<1>4. Up' = Up \/ (Up /\ ~Up')
  BY Zenon DEF Up
<1> QED
  BY <1>3, <1>4, Zenon DEF Same, Leaves

LEMMA SpawnLives ==
  ASSUME Inv, Inv', start # "idle", Spawn
  PROVE  ~Alive /\ Alive'
<1>1. (Alive <=> ChildRuns) /\ (Alive' <=> ChildRuns')
  BY AliveIsChild, PTL
<1>2. ~ChildRuns
  BY Zenon DEF Inv, OneToken, Token
<1>3. /\ child' = child + 1
      /\ proc' = [proc EXCEPT ![child + 1] = "alive"]
  BY DEF Spawn
<1>4. child + 1 # 0 /\ child + 1 \in Children
  <2>1. child \in Places /\ child + 1 \in Places
    BY <1>3, Zenon DEF Inv, Data
  <2> QED
    BY <2>1, MonitorAssumption DEF Places, Children
<1>5. proc'[child + 1] = "alive"
  BY <1>3, <1>4 DEF Inv, Data
<1>6. ChildRuns'
  BY <1>3, <1>4, <1>5 DEF ChildRuns
<1> QED
  BY <1>1, <1>2, <1>6, Zenon

LEMMA StartLoggedMaps ==
  ASSUME Inv, Inv', StartLogged
  PROVE  Same \/ Starts \/ Leaves
<1>1. /\ Up
      /\ start = "log"
  BY DEF StartLogged
<1>2. CASE /\ Earned
           /\ UNCHANGED <<state, child, proc, stable, healthTimer, runner, runs>>
  BY <1>2, QuietMaps DEF Up
<1>3. CASE ~Earned /\ Spawn /\ runs' = runs + 1
  <2>1. ~Alive /\ Alive'
    BY <1>1, <1>3, SpawnLives
  <2>2. ~stable /\ ~stable' /\ Up'
    BY <1>1, <1>3, Zenon DEF Earned, Spawn, Up
  <2>3. runs <= MaxRestarts
    <3>1. runs \in 0 .. MaxRestarts + 1 /\ runs + 1 \in 0 .. MaxRestarts + 1
      BY <1>3, Zenon DEF Inv, Data
    <3> QED
      BY <3>1, MonitorAssumption
  <2> QED
    BY <1>1, <1>3, <2>1, <2>2, <2>3, Zenon DEF Starts
<1>4. CASE SpawnFails /\ UNCHANGED runs
  <2>1. Up' => Up
    BY <1>1
  <2> QED
    BY <1>4, <2>1, QuietMaps DEF SpawnFails
<1> QED
  BY <1>2, <1>3, <1>4, Zenon DEF StartLogged

LEMMA ResetLoggedMaps ==
  ASSUME Inv, Inv', ResetLogged
  PROVE  StartsOver
<1>1. /\ Up
      /\ start = "reset"
      /\ stable
  BY Zenon DEF ResetLogged, Inv, Budget
<1>2. CASE Spawn /\ runs' = 1
  <2>1. ~Alive /\ Alive'
    BY <1>1, <1>2, SpawnLives
  <2>2. ~stable' /\ Up'
    BY <1>1, <1>2, Zenon DEF Spawn, Up
  <2> QED
    BY <1>1, <1>2, <2>1, <2>2, Zenon DEF StartsOver
<1>3. CASE SpawnFails /\ runs' = 0
  <2>1. (Alive <=> ChildRuns) /\ (Alive' <=> ChildRuns')
    BY AliveIsChild, PTL
  <2>2. ~ChildRuns
    BY <1>1, Zenon DEF Inv, OneToken, Token
  <2>3. UNCHANGED <<child, proc, stable>>
    BY <1>3 DEF SpawnFails
  <2>4. ~ChildRuns'
    BY <2>2, <2>3 DEF ChildRuns
  <2> QED
    BY <1>1, <1>3, <2>1, <2>2, <2>3, <2>4, Zenon DEF StartsOver
<1> QED
  BY <1>2, <1>3, Zenon DEF ResetLogged

LEMMA ExitMaps ==
  ASSUME Inv, Inv', NEW i \in Children, NEW how \in Outcomes, Exit(i, how)
  PROVE  Ends
<1>1. /\ i \in Live
      /\ proc' = [proc EXCEPT ![i] = "gone"]
      /\ UNCHANGED <<child, runner, runs>>
      /\ ~Up => UNCHANGED stable
  BY Zenon DEF Exit, history
<1>2. i = child
  BY <1>1, LiveIsLast
<1>3. Alive
  BY <1>1 DEF Alive
<1>4. proc'[i] = "gone"
  BY <1>1 DEF Inv, Data
<1>5. ~ChildRuns'
  BY <1>1, <1>2, <1>4 DEF ChildRuns
<1>6. Alive' <=> ChildRuns'
  BY AliveIsChild, PTL
<1>7. Up' = Up
  BY <1>1 DEF Up
<1> QED
  BY <1>1, <1>3, <1>5, <1>6, <1>7, Zenon DEF Ends

LEMMA NextMaps ==
  ASSUME Inv, Inv', [Next]_vars
  PROVE  Same \/ Starts \/ StartsOver \/ Ends \/ Leaves
<1>1. CASE StartLogged \/ ResetLogged
  BY <1>1, StartLoggedMaps, ResetLoggedMaps
<1>2. ASSUME NEW i \in Children, NEW how \in Outcomes, Exit(i, how)
      PROVE  Ends
  BY <1>2, ExitMaps
<1>3. CASE Launch \/ Launched
  <2>1. UNCHANGED <<child, proc, runs, stable>> /\ Up
    BY <1>3, Zenon DEF Launch, Launched, history, Up
  <2> QED
    BY <2>1, QuietMaps
<1>4. CASE Restarting \/ ChildError \/ FatalError \/ Died \/ UNCHANGED vars
  <2>1. /\ UNCHANGED <<child, runs, stable>>
        /\ proc' = proc \/ Signal("term")
    BY <1>4, Zenon
    DEF Restarting, TimerFires, RestartLogged, ChildError, FatalError, Died, vars, history
  <2>2. Up' => Up
    BY <1>4, Zenon
    DEF Restarting, TimerFires, RestartLogged, ChildError, FatalError, Died, vars, Up
  <2> QED
    BY <2>1, <2>2, QuietMaps
<1>5. ASSUME NEW c \in Checks, Checking(c)
      PROVE  Same \/ Leaves
  <2>1. /\ UNCHANGED <<child, runs, stable, runner>>
        /\ proc' = proc \/ \E sig \in {"term", "kill"} : Signal(sig)
    BY <1>5, Zenon DEF Checking, BeginCheck, PortAnswers, FailuresCleared, PortFails,
                       HealthKills, HealthKillEnds, KillEnds, history
  <2> QED
    BY <2>1, QuietMaps DEF Up
<1>6. CASE Shutdown \/ Stopping
  <2>1. UNCHANGED <<child, runs, stable>> /\ Up
    BY <1>6, Zenon DEF Shutdown, Stopping, StopLogged, CancelLogged, StopKillEnds,
                       StopSaid, Exited, history, health, Up
  <2>2. proc' = proc \/ \E sig \in {"term", "kill"} : Signal(sig)
    BY <1>6, Zenon DEF Shutdown, Stopping, StopLogged, CancelLogged, StopKillEnds,
                       StopSaid, Exited, Terminate, KillEnds
  <2> QED
    BY <2>1, <2>2, QuietMaps
<1> QED
  BY <1>1, <1>2, <1>3, <1>4, <1>5, <1>6, Zenon DEF Next, Starting

\* The monitor implements the supervisor: children one at a time, series of starts
\* that are bounded unless a run earned a new one, no start once it is gone.
THEOREM Refinement == Spec => Supervises
<1>1. Init => Abstract!Init
  BY MonitorAssumption DEF Init, Abstract!Init, Live, Children, Up
<1>2. Inv /\ Inv' /\ [Next]_vars => [Abstract!Next]_(Abstract!vars)
  <2> SUFFICES ASSUME Inv, Inv', [Next]_vars
               PROVE  [Abstract!Next]_(Abstract!vars)
    OBVIOUS
  <2>1. stable \in BOOLEAN /\ stable' \in BOOLEAN
    BY Zenon DEF Inv, Flags
  <2>2. Same \/ Starts \/ StartsOver \/ Ends \/ Leaves
    BY NextMaps
  <2> QED
    BY <2>1, <2>2, Simulates
<1> QED
  BY <1>1, <1>2, Invariance, PTL DEF Spec, Supervises, Abstract!Spec
-----------------------------------------------------------------------------
(* The shutdown runs down *)

\* The value of AwaitsLeft at each await, in the second call of stop() and the first.
AwaitsAt ==
    /\ runner # "stopping" => AwaitsLeft = 0
    /\ runner = "stopping" /\ stop.pass = 2 =>
          /\ stop.step = "log"    => AwaitsLeft = 5
          /\ stop.step = "cancel" => AwaitsLeft = 4
          /\ stop.step = "kill"   => AwaitsLeft = 3
          /\ stop.step = "said"   => AwaitsLeft = 2
          /\ stop.step = "files"  => AwaitsLeft = 1
    /\ runner = "stopping" /\ stop.pass = 1 =>
          /\ stop.step = "log"    => AwaitsLeft = 9
          /\ stop.step = "cancel" => AwaitsLeft = 8
          /\ stop.step = "kill"   => AwaitsLeft = 7
          /\ stop.step = "said"   => AwaitsLeft = 6
          /\ stop.step = "files"  => AwaitsLeft = 5

LEMMA AwaitsAtHolds == AwaitsAt /\ AwaitsAt'
<1>1. AwaitsAt
  BY DEF AwaitsAt, AwaitsLeft, StopSteps
<1>2. AwaitsAt'
  BY DEF AwaitsAt, AwaitsLeft, StopSteps
<1> QED
  BY <1>1, <1>2

\* A shutdown is at one of the awaits of stop() or of what follows it.
InStop == runner = "stopping" => stop.step # "idle"

LEMMA InStopKeeps ==
  ASSUME Inv, InStop, [Next]_vars
  PROVE  InStop'
<1>1. stop \in StopType
  BY DEF Inv, Data
<1>2. CASE Shutdown
  <2>1. \/ StopReturns
        \/ stop' = StopAt("log", 1, 0)
    BY <1>2, Zenon DEF Shutdown, StopCalled
  <2>2. stop'.step # "idle"
    BY <2>1, StopReturnsTo DEF StopAt
  <2> QED
    BY <2>2 DEF InStop
<1>3. CASE Stopping
  <2>1. \/ StopReturns
        \/ \E st \in {"cancel", "kill", "said"}, t \in {0, child} :
              stop' = StopAt(st, stop.pass, t)
        \/ runner' = "gone"
    BY <1>3, Zenon DEF Stopping, StopLogged, CancelLogged, StopKillEnds, StopSaid, Exited,
                       Terminate, AfterKill
  <2>2. stop'.step # "idle" \/ runner' = "gone"
    BY <2>1, StopReturnsTo DEF StopAt
  <2> QED
    BY <2>2 DEF InStop
<1>4. CASE ~Shutdown /\ ~Stopping
  <2>1. UNCHANGED stop /\ (runner' = "stopping" => runner = "stopping")
    BY <1>4 DEF Next, vars, Starting, Launch, StartLogged, Spawn, SpawnFails, ResetLogged,
                Launched, Restarting, TimerFires, RestartLogged, Exit, ChildError, FatalError,
                Checking, BeginCheck, PortAnswers, FailuresCleared, PortFails, HealthKills,
                HealthKillEnds, Died
  <2> QED
    BY <2>1 DEF InStop
<1> QED
  BY <1>2, <1>3, <1>4

LEMMA AwaitsType ==
  ASSUME Inv, InStop
  PROVE  /\ AwaitsLeft \in Nat
         /\ runner = "stopping" => AwaitsLeft > 0
<1>1. stop.step \in {"idle", "log", "cancel", "kill", "said", "files"} /\ stop.pass \in {1, 2}
  BY DEF Inv, Data, StopType
<1> QED
  BY <1>1, AwaitsAtHolds DEF AwaitsAt, InStop

LEMMA AwaitsNatNext ==
  ASSUME Inv', InStop'
  PROVE  AwaitsLeft' \in Nat
<1>1. stop'.step \in {"idle", "log", "cancel", "kill", "said", "files"}
      /\ stop'.pass \in {1, 2}
  BY DEF Inv, Data, StopType
<1> QED
  BY <1>1, AwaitsAtHolds DEF AwaitsAt, InStop

LEMMA StoppingFalls ==
  ASSUME Inv, InStop, Stopping, runner = "stopping"
  PROVE  AwaitsLeft' < AwaitsLeft
<1>1. /\ stop.pass \in {1, 2} /\ stop.step # "idle"
      /\ AwaitsLeft \in Nat /\ AwaitsLeft > 0
  BY AwaitsType DEF Inv, InStop, Data, StopType
<1>2. CASE Exited
  <2>1. AwaitsLeft' = 0
    BY <1>2, AwaitsAtHolds DEF Exited, AwaitsAt
  <2> QED
    BY <1>1, <2>1
<1>3. ASSUME StopReturns, stop.step \in {"log", "cancel", "kill", "said"},
             runner' = "stopping"
      PROVE  AwaitsLeft' < AwaitsLeft
  <2>1. CASE stop.pass = 1
    <3>1. AwaitsLeft \in {9, 8, 7, 6}
      BY <1>3, <2>1, AwaitsAtHolds DEF AwaitsAt
    <3>2. AwaitsLeft' \in {5, 1}
      BY <1>3, StopReturnsTo, AwaitsAtHolds DEF AwaitsAt
    <3> QED
      BY <3>1, <3>2
  <2>2. CASE stop.pass = 2
    <3>1. AwaitsLeft \in {5, 4, 3, 2}
      BY <1>3, <2>2, AwaitsAtHolds DEF AwaitsAt
    <3>2. stop' = StopAt("files", 2, 0)
      BY <1>3, <2>2 DEF StopReturns
    <3>3. AwaitsLeft' = 1
      BY <1>3, <3>2, AwaitsAtHolds DEF AwaitsAt, StopAt
    <3> QED
      BY <3>1, <3>3
  <2> QED
    BY <1>1, <2>1, <2>2
<1>4. ASSUME NEW to \in {"cancel", "kill", "said"}, NEW t \in {0, child},
             stop' = StopAt(to, stop.pass, t), runner' = "stopping",
             \/ stop.step = "log"
             \/ stop.step = "cancel" /\ to # "cancel"
             \/ stop.step = "kill" /\ to = "said"
      PROVE  AwaitsLeft' < AwaitsLeft
  <2>1. stop'.step = to /\ stop'.pass = stop.pass
    BY <1>4 DEF StopAt
  <2>2. CASE stop.pass = 1
    BY <1>4, <2>1, <2>2, AwaitsAtHolds DEF AwaitsAt
  <2>3. CASE stop.pass = 2
    BY <1>4, <2>1, <2>3, AwaitsAtHolds DEF AwaitsAt
  <2> QED
    BY <1>1, <2>2, <2>3
<1>5. CASE StopLogged \/ CancelLogged \/ StopKillEnds \/ StopSaid
  <2>1. runner' = "stopping"
    BY <1>5 DEF StopLogged, CancelLogged, StopKillEnds, StopSaid
  <2>2. \/ StopReturns /\ stop.step \in {"log", "cancel", "kill", "said"}
        \/ \E to \in {"cancel", "kill", "said"}, t \in {0, child} :
              /\ stop' = StopAt(to, stop.pass, t)
              /\ \/ stop.step = "log"
                 \/ stop.step = "cancel" /\ to # "cancel"
                 \/ stop.step = "kill" /\ to = "said"
    <3>1. CASE StopLogged
      BY <3>1, Zenon DEF StopLogged, Terminate, AfterKill
    <3>2. CASE CancelLogged
      BY <3>2, "kill" # "cancel", "said" # "cancel", Zenon
      DEF CancelLogged, Terminate, AfterKill
    <3>3. CASE StopKillEnds
      BY <3>3, Zenon DEF StopKillEnds, AfterKill
    <3>4. CASE StopSaid
      BY <3>4, Zenon DEF StopSaid
    <3> QED
      BY <1>5, <3>1, <3>2, <3>3, <3>4
  <2> QED
    BY <1>3, <1>4, <2>1, <2>2
<1> QED
  BY <1>2, <1>5 DEF Stopping

\* The bounded half of ShutdownEnds: a shutdown never waits for more than nine awaits,
\* whatever the child does with SIGTERM and whichever restart or check it meets.
THEOREM ShutdownDoesRunDown == Spec => ShutdownRunsDown
<1>1. Init => InStop
  BY DEF Init, InStop
<1>2. Inv /\ InStop /\ [Next]_vars => InStop'
  BY InStopKeeps
<1>3. Inv /\ InStop /\ [Next]_vars
      => [runner = "stopping" => /\ AwaitsLeft \in Nat
                                 /\ Stopping => AwaitsLeft' < AwaitsLeft
                                 /\ AwaitsLeft' <= AwaitsLeft]_vars
  <2> SUFFICES ASSUME Inv, InStop, [Next]_vars, runner = "stopping"
               PROVE  /\ AwaitsLeft \in Nat
                      /\ Stopping => AwaitsLeft' < AwaitsLeft
                      /\ AwaitsLeft' <= AwaitsLeft
    OBVIOUS
  <2>1. AwaitsLeft \in Nat /\ AwaitsLeft > 0
    BY AwaitsType
  <2>2. AwaitsLeft' \in Nat
    <3>1. Inv'
      BY NextKeeps
    <3>2. InStop'
      BY InStopKeeps
    <3> QED
      BY <3>1, <3>2, AwaitsNatNext
  <2>3. Stopping => AwaitsLeft' < AwaitsLeft
    BY StoppingFalls
  <2>4. Stopping => AwaitsLeft' <= AwaitsLeft
    BY <2>1, <2>2, <2>3
  <2>5. ASSUME ~Stopping
        PROVE  AwaitsLeft' <= AwaitsLeft
    <3>1. \/ UNCHANGED <<stop, runner>>
          \/ runner' # "stopping"
      BY <2>5
      DEF Next, vars, Starting, Launch, StartLogged, Spawn, SpawnFails, ResetLogged, Launched,
          Restarting, TimerFires, RestartLogged, Exit, ChildError, FatalError, Checking,
          BeginCheck, PortAnswers, FailuresCleared, PortFails, HealthKills, HealthKillEnds,
          Shutdown, Died
    <3>2. CASE UNCHANGED <<stop, runner>>
      <4>1. AwaitsLeft' = AwaitsLeft
        BY <3>2 DEF AwaitsLeft, StopSteps
      <4> QED
        BY <2>1, <4>1
    <3>3. CASE runner' # "stopping"
      <4>1. AwaitsLeft' = 0
        BY <3>3, AwaitsAtHolds DEF AwaitsAt
      <4> QED
        BY <2>1, <4>1
    <3> QED
      BY <3>1, <3>2, <3>3
  <2> QED
    BY <2>1, <2>3, <2>4, <2>5
<1> QED
  BY <1>1, <1>2, <1>3, Invariance, PTL DEF Spec, ShutdownRunsDown
=============================================================================
